SPECIFICATION Spec
CONSTANTS
    Pages <- CardPages
    Views = {v1, v2, v3}
    MaxAdds = 1
SYMMETRY Alike
INVARIANTS
    TypeOK
    PhonesOfLines
    NameIsLargest
    ShownIsListed
