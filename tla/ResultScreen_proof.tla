-------------------------- MODULE ResultScreen_proof --------------------------
(***************************************************************************)
(* ResultScreen for every page, any number of views and of added items:    *)
(* its texts are phone numbers or what the user made of them, the screen   *)
(* shows the list between two layouts, the name is the largest of the      *)
(* lines that may be one, and the phone numbers are those of the lines.    *)
(* What the operators of CardFields return is proved where it is needed,   *)
(* the recursive ones by a least position that fails.                      *)
(***************************************************************************)
EXTENDS ResultScreen, SequenceTheorems, FiniteSetTheorems, WellFoundedInduction, TLAPS

\* A set of numbers that is not empty has a least one.
LEMMA Least ==
    ASSUME NEW T, T \subseteq Nat, T # {}
    PROVE  \E m \in T : \A n \in T : m <= n
  <1>1. PICK m \in T : \A n \in T : <<n, m>> \notin OpToRel(<, Nat)
    BY NatLessThanWellFounded, WFMin
  <1>2. \A n \in T : ~(n < m)
    BY <1>1 DEF OpToRel
  <1> QED
    BY <1>2

-----------------------------------------------------------------------------
(* Kept. *)

\* Whatever grows with s as Kept does is Kept in the end.
LEMMA KeptIs ==
    ASSUME NEW s, Len(s) \in Nat, NEW T, NEW g, g[0] = <<>>,
           \A n \in 1..Len(s) : g[n] = IF s[n] \in T THEN Append(g[n - 1], s[n]) ELSE g[n - 1]
    PROVE  Kept(s, T) = g[Len(s)]
  <1> DEFINE Rec(f) == f = [n \in 0..Len(s) |->
                               IF n = 0 THEN <<>>
                               ELSE IF s[n] \in T THEN Append(f[n - 1], s[n]) ELSE f[n - 1]]
             h == [n \in 0..Len(s) |-> g[n]]
  <1>1. Rec(h)
    <2>1. ASSUME NEW n \in 0..Len(s)
          PROVE  h[n] = IF n = 0 THEN <<>>
                        ELSE IF s[n] \in T THEN Append(h[n - 1], s[n]) ELSE h[n - 1]
      <3>1. CASE n = 0
        BY <3>1
      <3>2. CASE n # 0
        <4>1. n \in 1..Len(s) /\ n - 1 \in 0..Len(s)
          BY <3>2
        <4>2. h[n] = g[n] /\ h[n - 1] = g[n - 1]
          BY <4>1
        <4> HIDE DEF h
        <4> QED
          BY <3>2, <4>1, <4>2
      <3> QED
        BY <3>1, <3>2
    <2> QED
      BY <2>1
  <1>2. PICK f : Rec(f) /\ Kept(s, T) = f[Len(s)]
    <2> DEFINE c == CHOOSE f : Rec(f)
    <2>1. Rec(c)
      BY <1>1
    <2>2. Kept(s, T) = c[Len(s)]
      BY DEF Kept
    <2> QED
      BY <2>1, <2>2
  <1>3. \A n \in 0..Len(s) : f[n] = IF n = 0 THEN <<>>
                                    ELSE IF s[n] \in T THEN Append(f[n - 1], s[n]) ELSE f[n - 1]
    BY <1>2
  <1> DEFINE D == {n \in 0..Len(s) : f[n] # g[n]}
  <1>4. D = {}
    <2> SUFFICES ASSUME D # {} PROVE FALSE
      OBVIOUS
    <2>1. D \subseteq Nat
      OBVIOUS
    <2> HIDE DEF D
    <2>2. PICK n \in D : \A m \in D : n <= m
      BY <2>1, Least
    <2>3. n \in 0..Len(s) /\ f[n] # g[n]
      BY <2>2 DEF D
    <2>4. n # 0
      BY <2>3, <1>3
    <2>5. n \in 1..Len(s) /\ n - 1 \in 0..Len(s)
      BY <2>3, <2>4
    <2>6. f[n - 1] = g[n - 1]
      BY <2>2, <2>5 DEF D
    <2> QED
      BY <1>3, <2>3, <2>4, <2>5, <2>6
  <1>5. f[Len(s)] = g[Len(s)]
    <2>1. Len(s) \in 0..Len(s)
      OBVIOUS
    <2> QED
      BY <1>4, <2>1
  <1> QED
    BY <1>2, <1>5

\* g grows with s as Kept does.
KeptAlong(g, s, T) ==
    /\ g[0] = <<>> /\ Kept(s, T) = g[Len(s)]
    /\ \A n \in 1..Len(s) : g[n] = IF s[n] \in T THEN Append(g[n - 1], s[n]) ELSE g[n - 1]

\* It grows with s, and is a sequence of elements of both.
LEMMA KeptSteps ==
    ASSUME NEW S, NEW s \in Seq(S), NEW T
    PROVE  \E g \in [0..Len(s) -> Seq(S \cap T)] : KeptAlong(g, s, T)
  <1> DEFINE Grows(g, N) ==
                 /\ g \in [0..N -> Seq(S \cap T)] /\ g[0] = <<>>
                 /\ \A n \in 1..N : g[n] = IF s[n] \in T THEN Append(g[n - 1], s[n]) ELSE g[n - 1]
             Bad == {N \in 0..Len(s) : ~\E g : Grows(g, N)}
  <1>1. Bad = {}
    <2> SUFFICES ASSUME Bad # {} PROVE FALSE
      OBVIOUS
    <2>1. Bad \subseteq Nat
      OBVIOUS
    <2> HIDE DEF Bad
    <2>2. PICK N \in Bad : \A m \in Bad : N <= m
      BY <2>1, Least
    <2>3. N \in 0..Len(s) /\ ~\E g : Grows(g, N)
      BY <2>2 DEF Bad
    <2>4. N # 0
      <3>1. Grows([n \in 0..0 |-> <<>>], 0)
        OBVIOUS
      <3> QED
        BY <2>3, <3>1
    <2>5. N \in 1..Len(s) /\ N - 1 \in 0..Len(s) /\ s[N] \in S
      BY <2>3, <2>4
    <2>6. PICK g : Grows(g, N - 1)
      <3>1. N - 1 \notin Bad
        BY <2>2, <2>5
      <3> HIDE DEF Grows
      <3> QED
        BY <2>5, <3>1 DEF Bad
    <2> DEFINE last == IF s[N] \in T THEN Append(g[N - 1], s[N]) ELSE g[N - 1]
               h == [n \in 0..N |-> IF n = N THEN last ELSE g[n]]
    <2>7. g[N - 1] \in Seq(S \cap T) /\ last \in Seq(S \cap T)
      BY <2>5, <2>6
    <2> HIDE DEF last
    <2>8. h \in [0..N -> Seq(S \cap T)] /\ h[0] = <<>> /\ h[N] = last /\ \A n \in 0..(N - 1) : h[n] = g[n]
      BY <2>5, <2>6, <2>7, SMTT(30)
    <2> HIDE DEF h
    <2>9. \A n \in 1..N : h[n] = IF s[n] \in T THEN Append(h[n - 1], s[n]) ELSE h[n - 1]
      <3> SUFFICES ASSUME NEW n \in 1..N
                   PROVE  h[n] = IF s[n] \in T THEN Append(h[n - 1], s[n]) ELSE h[n - 1]
        OBVIOUS
      <3>1. CASE n = N
        <4>1. h[n - 1] = g[N - 1]
          BY <2>5, <2>8, <3>1, SMTT(30)
        <4> QED
          BY <2>8, <3>1, <4>1 DEF last
      <3>2. CASE n # N
        <4>1. n \in 1..(N - 1) /\ h[n] = g[n] /\ h[n - 1] = g[n - 1]
          BY <2>5, <2>8, <3>2
        <4> QED
          BY <2>6, <4>1
      <3> QED
        BY <3>1, <3>2
    <2> QED
      BY <2>3, <2>8, <2>9
  <1>2. PICK g : Grows(g, Len(s))
    BY <1>1
  <1>3. Kept(s, T) = g[Len(s)]
    BY <1>2, KeptIs
  <1> QED
    BY <1>2, <1>3 DEF KeptAlong

LEMMA KeptType ==
    ASSUME NEW S, NEW s \in Seq(S), NEW T
    PROVE  Kept(s, T) \in Seq(S \cap T)
  BY KeptSteps DEF KeptAlong

\* What is kept when s grows.
LEMMA KeptAppend ==
    ASSUME NEW S, NEW s \in Seq(S), NEW x \in S, NEW T
    PROVE  /\ x \in T => Kept(Append(s, x), T) = Append(Kept(s, T), x)
           /\ x \notin T => Kept(Append(s, x), T) = Kept(s, T)
  <1>1. PICK N \in Nat : N = Len(s)
    OBVIOUS
  <1>2. PICK t \in Seq(S) : t = Append(s, x)
    BY AppendProperties
  <1>3. Len(t) = N + 1 /\ t[N + 1] = x /\ \A n \in 1..N : t[n] = s[n]
    BY <1>1, <1>2, AppendProperties
  <1>4. PICK g \in [0..Len(t) -> Seq(S \cap T)] : KeptAlong(g, t, T)
    BY KeptSteps
  <1>5. \A n \in 1..Len(s) : g[n] = IF s[n] \in T THEN Append(g[n - 1], s[n]) ELSE g[n - 1]
    <2>1. \A n \in 1..N : n \in 1..(N + 1)
      OBVIOUS
    <2> QED
      BY <1>1, <1>3, <1>4, <2>1 DEF KeptAlong
  <1>6. Kept(s, T) = g[N]
    BY <1>1, <1>4, <1>5, KeptIs DEF KeptAlong
  <1>7. N + 1 \in 1..(N + 1) /\ (N + 1) - 1 = N
    OBVIOUS
  <1> QED
    BY <1>2, <1>3, <1>4, <1>6, <1>7, ZenonT(30) DEF KeptAlong

\* Of a sequence over T all is kept.
LEMMA KeptAll ==
    ASSUME NEW T, NEW s \in Seq(T)
    PROVE  Kept(s, T) = s
  <1> DEFINE g == [n \in 0..Len(s) |-> SubSeq(s, 1, n)]
  <1>1. \A n \in 0..Len(s) : g[n] = SubSeq(s, 1, n)
    OBVIOUS
  <1> HIDE DEF g
  <1>2. g[0] = <<>> /\ g[Len(s)] = s
    <2>1. SubSeq(s, 1, 0) = <<>> /\ SubSeq(s, 1, Len(s)) = s /\ {0, Len(s)} \subseteq 0..Len(s)
      BY SubSeqEmpty, SubSeqFull
    <2> QED
      BY <1>1, <2>1
  <1>3. ASSUME NEW n \in 1..Len(s) PROVE g[n] = Append(g[n - 1], s[n]) /\ s[n] \in T
    <2>1. 1 \in 1..Len(s) /\ s[n] \in T
      OBVIOUS
    <2>2. SubSeq(s, 1, n) = SubSeq(s, 1, n - 1) \o <<s[n]>>
      <3>1. n \in 1..Len(s)
        OBVIOUS
      <3> QED
        BY <2>1, <3>1, SubSeqRecursiveSecond
    <2>3. SubSeq(s, 1, n - 1) \in Seq(T)
      <3>1. \A i \in 1..(n - 1) : s[i] \in T
        OBVIOUS
      <3> QED
        BY <3>1, SubSeqProperties
    <2>4. SubSeq(s, 1, n) = Append(SubSeq(s, 1, n - 1), s[n])
      BY <2>1, <2>2, <2>3, AppendIsConcat
    <2>5. g[n] = SubSeq(s, 1, n) /\ g[n - 1] = SubSeq(s, 1, n - 1)
      BY <1>1
    <2> QED
      BY <2>1, <2>4, <2>5
  <1>4. \A n \in 1..Len(s) : g[n] = IF s[n] \in T THEN Append(g[n - 1], s[n]) ELSE g[n - 1]
    BY <1>3
  <1>5. Kept(s, T) = g[Len(s)]
    BY <1>2, <1>4, KeptIs
  <1> QED
    BY <1>2, <1>5

\* An element outside T in front of it changes nothing.
LEMMA KeptBehind ==
    ASSUME NEW T, NEW s \in Seq(T), NEW x, x \notin T
    PROVE  Kept(<<x>> \o s, T) = s
  <1> DEFINE t == <<x>> \o s
             g == [n \in 0..Len(t) |-> IF n = 0 THEN <<>> ELSE SubSeq(s, 1, n - 1)]
  <1>1. Len(t) = Len(s) + 1 /\ t[1] = x /\ \A n \in 2..Len(t) : t[n] = s[n - 1]
    OBVIOUS
  <1> HIDE DEF t
  <1>2. g[0] = <<>> /\ g[Len(t)] = s
    <2>1. SubSeq(s, 1, Len(s)) = s
      BY SubSeqFull
    <2> QED
      BY <1>1, <2>1
  <1>3. \A n \in 1..Len(t) : g[n] = IF t[n] \in T THEN Append(g[n - 1], t[n]) ELSE g[n - 1]
    <2> SUFFICES ASSUME NEW n \in 1..Len(t)
                 PROVE  g[n] = IF t[n] \in T THEN Append(g[n - 1], t[n]) ELSE g[n - 1]
      OBVIOUS
    <2>1. CASE n = 1
      <3>1. t[n] \notin T /\ g[n] = SubSeq(s, 1, 0) /\ g[n - 1] = <<>>
        BY <1>1, <2>1
      <3>2. SubSeq(s, 1, 0) = <<>>
        BY SubSeqEmpty
      <3> HIDE DEF g
      <3> QED
        BY <3>1, <3>2
    <2>2. CASE n # 1
      <3>1. n - 1 \in 1..Len(s) /\ n \in 2..Len(t)
        BY <1>1, <2>2
      <3>2. SubSeq(s, 1, n - 1) = Append(SubSeq(s, 1, n - 2), s[n - 1])
        BY <3>1
      <3>3. g[n] = SubSeq(s, 1, n - 1) /\ g[n - 1] = SubSeq(s, 1, n - 2)
        BY <1>1, <3>1
      <3>4. t[n] = s[n - 1] /\ s[n - 1] \in T
        BY <1>1, <3>1
      <3> HIDE DEF g
      <3> QED
        BY <3>2, <3>3, <3>4
    <2> QED
      BY <2>1, <2>2
  <1> HIDE DEF g
  <1>4. Kept(t, T) = g[Len(t)]
    BY <1>1, <1>2, <1>3, KeptIs
  <1> QED
    BY <1>2, <1>4 DEF t

\* Sequences that grow at the end are each within the last.
Within(s, t) == Len(s) <= Len(t) /\ \A i \in 1..Len(s) : t[i] = s[i]

LEMMA GrowsWithin ==
    ASSUME NEW S, NEW N \in Nat, NEW g \in [0..N -> Seq(S)],
           \A n \in 1..N : Within(g[n - 1], g[n])
    PROVE  \A n \in 0..N : Within(g[n], g[N])
  <1> DEFINE Bad == {m \in 0..N : ~\A n \in 0..m : Within(g[n], g[m])}
  <1>1. Bad = {}
    <2> SUFFICES ASSUME Bad # {} PROVE FALSE
      OBVIOUS
    <2>1. Bad \subseteq Nat
      OBVIOUS
    <2> HIDE DEF Bad
    <2>2. PICK m \in Nat : m \in Bad /\ \A k \in Bad : m <= k
      BY <2>1, Least
    <2>3. m \in 0..N /\ ~\A n \in 0..m : Within(g[n], g[m])
      BY <2>2 DEF Bad
    <2>4. PICK n \in 0..m : ~Within(g[n], g[m])
      BY <2>3
    <2>5. n # m
      <3>1. g[m] \in Seq(S)
        BY <2>3
      <3>2. Within(g[m], g[m])
        BY <3>1 DEF Within
      <3> QED
        BY <2>4, <3>2
    <2>6. m - 1 \in 0..N /\ m \in 1..N /\ n \in 0..(m - 1) /\ n \in 0..N
      BY <2>3, <2>4, <2>5
    <2>7. m - 1 \notin Bad
      BY <2>2, <2>6
    <2>8. Within(g[n], g[m - 1]) /\ Within(g[m - 1], g[m])
      BY <2>6, <2>7 DEF Bad
    <2>9. /\ g[n] \in Seq(S) /\ g[m - 1] \in Seq(S) /\ g[m] \in Seq(S)
          /\ Len(g[n]) \in Nat /\ Len(g[m - 1]) \in Nat /\ Len(g[m]) \in Nat
      BY <2>3, <2>6
    <2>10. Within(g[n], g[m])
      <3>1. PICK a, b, c \in Nat : a = Len(g[n]) /\ b = Len(g[m - 1]) /\ c = Len(g[m])
        BY <2>9
      <3>2. a <= b /\ b <= c /\ \A i \in 1..a : g[m - 1][i] = g[n][i]
        BY <2>8, <3>1 DEF Within
      <3>3. \A i \in 1..b : g[m][i] = g[m - 1][i]
        BY <2>8, <3>1 DEF Within
      <3>4. \A i \in 1..a : i \in 1..b
        BY <3>2
      <3>5. a <= c
        BY <3>2
      <3>6. \A i \in 1..a : g[m][i] = g[n][i]
        BY <3>2, <3>3, <3>4
      <3> QED
        BY <3>1, <3>5, <3>6 DEF Within
    <2> QED
      BY <2>4, <2>10
  <1>2. N \in 0..N
    OBVIOUS
  <1> QED
    BY <1>1, <1>2

-----------------------------------------------------------------------------
(* What the text of a card is made of. *)

\* g grows with ss as FlattenSeq does.
FlattenAlong(g, ss) ==
    /\ g[0] = <<>> /\ FlattenSeq(ss) = g[Len(ss)]
    /\ \A n \in 1..Len(ss) : g[n] = g[n - 1] \o ss[n]

\* Sequences, one behind the other, are a sequence that grows with each.
LEMMA FlattenSteps ==
    ASSUME NEW S, NEW ss \in Seq(Seq(S))
    PROVE  \E g \in [0..Len(ss) -> Seq(S)] : FlattenAlong(g, ss)
  <1>1. CASE Len(ss) = 0
    <2>1. FlattenSeq(ss) = ss
      BY <1>1 DEF FlattenSeq
    <2>2. ss = <<>>
      BY <1>1, EmptySeq
    <2> DEFINE g == [n \in 0..0 |-> <<>>]
    <2>3. g \in [0..Len(ss) -> Seq(S)] /\ g[0] = <<>> /\ FlattenSeq(ss) = g[Len(ss)]
      BY <1>1, <2>1, <2>2
    <2>4. 1..Len(ss) = {}
      BY <1>1
    <2> HIDE DEF g
    <2> QED
      BY <2>3, <2>4 DEF FlattenAlong
  <1>2. CASE Len(ss) # 0
    <2>0. PICK M \in Nat \ {0} : M = Len(ss)
      BY <1>2
    <2> DEFINE Step(f, n) == IF n = 1 THEN ss[n] ELSE f[n - 1] \o ss[n]
               Rec(f, N) == f = [n \in 1..N |-> Step(f, n)]
               Grows(f, N) == f \in [1..N -> Seq(S)] /\ \A n \in 1..N : f[n] = Step(f, n)
               Bad == {N \in 1..M : ~\E f : Grows(f, N)}
    <2>1. \A n \in 1..M : ss[n] \in Seq(S)
      BY <2>0, ElementOfSeq
    <2>2. Bad = {}
      <3> SUFFICES ASSUME Bad # {} PROVE FALSE
        OBVIOUS
      <3>1. Bad \subseteq Nat
        OBVIOUS
      <3> HIDE DEF Bad
      <3>2. PICK N \in Nat : N \in Bad /\ \A m \in Bad : N <= m
        BY <3>1, Least
      <3>3. N \in 1..M /\ ss[N] \in Seq(S) /\ ~\E f : Grows(f, N)
        BY <2>1, <3>2 DEF Bad
      <3>4. N # 1
        <4>1. SUFFICES ASSUME N = 1 PROVE FALSE
          OBVIOUS
        <4>2. Grows([n \in 1..1 |-> ss[1]], 1)
          BY <3>3, <4>1
        <4> QED
          BY <3>3, <4>1, <4>2
      <3>5. N - 1 \in 1..M
        BY <3>3, <3>4
      <3>6. PICK f : Grows(f, N - 1)
        <4>1. N - 1 \notin Bad
          BY <3>2, <3>5
        <4> HIDE DEF Grows
        <4> QED
          BY <3>5, <4>1 DEF Bad
      <3> DEFINE last == f[N - 1] \o ss[N]
                 h == [n \in 1..N |-> IF n = N THEN last ELSE f[n]]
      <3>7. f[N - 1] \in Seq(S) /\ last \in Seq(S)
        <4>1. f[N - 1] \in Seq(S)
          BY <3>5, <3>6
        <4> QED
          BY <3>3, <4>1
      <3> HIDE DEF last
      <3>8. h \in [1..N -> Seq(S)] /\ h[N] = last /\ \A n \in 1..(N - 1) : h[n] = f[n]
        BY <3>3, <3>5, <3>6, <3>7
      <3> HIDE DEF h
      <3>9. \A n \in 1..N : h[n] = Step(h, n)
        <4> SUFFICES ASSUME NEW n \in 1..N PROVE h[n] = Step(h, n)
          OBVIOUS
        <4>1. CASE n = N
          <5>1. h[n - 1] = f[N - 1]
            BY <3>5, <3>8, <4>1
          <5> QED
            BY <3>4, <3>8, <4>1, <5>1 DEF last
        <4>2. CASE n # N
          <5>0. n \in 1..(N - 1) /\ h[n] = f[n]
            BY <3>8, <4>2
          <5>1. n \in 1..(N - 1) /\ h[n] = f[n] /\ f[n] = Step(f, n)
            <6> HIDE DEF Step
            <6> QED
              BY <3>6, <5>0
          <5>2. n # 1 => h[n - 1] = f[n - 1]
            BY <3>8, <5>1
          <5> QED
            BY <5>1, <5>2
        <4> QED
          BY <4>1, <4>2
      <3> QED
        BY <3>3, <3>8, <3>9
    <2>3. PICK g : Grows(g, M)
      <3>1. M \in 1..M
        BY <2>1
      <3> HIDE DEF Grows
      <3> QED
        BY <2>2, <3>1
    <2>4. Rec(g, M)
      BY <2>3
    <2>5. PICK f : Rec(f, M) /\ FlattenSeq(ss) = f[M]
      <3> DEFINE c == CHOOSE f : Rec(f, M)
      <3>1. Rec(c, M)
        BY <2>4
      <3>2. FlattenSeq(ss) = c[M]
        BY <1>2, <2>0 DEF FlattenSeq
      <3> QED
        BY <3>1, <3>2
    <2>6. \A n \in 1..M : f[n] = Step(f, n)
      BY <2>5
    <2> DEFINE D == {n \in 1..M : f[n] # g[n]}
    <2>7. D = {}
      <3> SUFFICES ASSUME D # {} PROVE FALSE
        OBVIOUS
      <3>1. D \subseteq Nat
        BY <2>1
      <3> HIDE DEF D
      <3>2. PICK n \in D : \A m \in D : n <= m
        BY <3>1, Least
      <3>3. n \in 1..M /\ f[n] # g[n] /\ f[n] = Step(f, n) /\ g[n] = Step(g, n)
        BY <2>3, <2>6, <3>2 DEF D
      <3>4. n # 1 => f[n - 1] = g[n - 1]
        <4>1. n # 1 => n - 1 \in 1..M /\ n - 1 \notin D
          BY <3>2, <3>3
        <4> QED
          BY <4>1 DEF D
      <3> QED
        BY <3>3, <3>4
    <2>8. f[M] = g[M] /\ g[M] \in Seq(S)
      <3>1. M \in 1..M
        BY <2>1
      <3> QED
        BY <2>3, <2>7, <3>1
    <2> DEFINE h == [n \in 0..M |-> IF n = 0 THEN <<>> ELSE g[n]]
    <2>9. /\ h \in [0..M -> Seq(S)] /\ h[0] = <<>> /\ h[M] = g[M]
          /\ \A n \in 1..M : h[n] = g[n]
      BY <2>0, <2>3
    <2> HIDE DEF h
    <2>10. \A n \in 1..M : h[n] = h[n - 1] \o ss[n]
      <3> SUFFICES ASSUME NEW n \in 1..M PROVE h[n] = h[n - 1] \o ss[n]
        OBVIOUS
      <3>1. g[n] = Step(g, n)
        <4> HIDE DEF Step
        <4> QED
          BY <2>3
      <3>2. CASE n = 1
        <4>1. h[n] = ss[n] /\ h[n - 1] = <<>> /\ ss[n] \in Seq(S)
          BY <2>1, <2>9, <3>1, <3>2
        <4> QED
          BY <4>1, ConcatEmptySeq
      <3>3. CASE n # 1
        <4>1. n - 1 \in 1..M
          BY <3>3
        <4> QED
          BY <2>9, <3>1, <3>3, <4>1
      <3> QED
        BY <3>2, <3>3
    <2>11. FlattenSeq(ss) = h[M]
      BY <2>5, <2>8, <2>9
    <2> QED
      BY <2>0, <2>9, <2>10, <2>11 DEF FlattenAlong
  <1> QED
    BY <1>1, <1>2

LEMMA FlattenType ==
    ASSUME NEW S, NEW ss \in Seq(Seq(S))
    PROVE  FlattenSeq(ss) \in Seq(S)
  <1>1. PICK g \in [0..Len(ss) -> Seq(S)] : FlattenAlong(g, ss)
    BY FlattenSteps
  <1>2. Len(ss) \in 0..Len(ss)
    OBVIOUS
  <1> QED
    BY <1>1, <1>2 DEF FlattenAlong

Phones == {text \in Seq(Digits \cup {"plus"}) : Chars(Kept(text, Digits)) > 7}
\* Strings, and those that the code puts in (which no prover knows to be strings).
Symbols == STRING \cup {"space", "slash", "newline", "colon", "two", "x"}
Texts == Seq(Symbols)

\* Phone numbers without their pluses, and the one in the digits of a run, if any.
Plain(phones) == [i \in DOMAIN phones |-> Kept(phones[i], Digits)]
Phone(digits) == IF Chars(digits) > 7 THEN <<digits>> ELSE <<>>

\* tryConvertToPhone returns one phone number or none, whatever the run.
LEMMA PhoneFacts ==
    ASSUME NEW S, NEW run \in Seq(S), NEW hasPlus \in BOOLEAN
    PROVE  /\ TryConvertToPhone(run, hasPlus) \in Seq(Phones)
           /\ Plain(TryConvertToPhone(run, hasPlus)) = Phone(Kept(run, Digits))
  <1> DEFINE digits == Kept(run, Digits)
             phone == (IF hasPlus THEN <<"plus">> ELSE <<>>) \o digits
  <1>1. digits \in Seq(Digits)
    <2>1. digits \in Seq(S \cap Digits)
      BY KeptType
    <2> QED
      BY <2>1, SeqMonotonic
  <1>2. TryConvertToPhone(run, hasPlus) = IF Chars(digits) > 7 THEN <<phone>> ELSE <<>>
    BY DEF TryConvertToPhone
  <1> HIDE DEF digits
  <1>3. phone \in Seq(Digits \cup {"plus"})
    <2>1. digits \in Seq(Digits \cup {"plus"})
      BY <1>1, SeqMonotonic
    <2>2. <<>> \in Seq(Digits \cup {"plus"}) /\ <<"plus">> \in Seq(Digits \cup {"plus"})
      OBVIOUS
    <2>3. (IF hasPlus THEN <<"plus">> ELSE <<>>) \in Seq(Digits \cup {"plus"})
      BY <2>2
    <2> QED
      BY <2>1, <2>3, ConcatProperties
  <1>4. Kept(phone, Digits) = digits
    <2>1. CASE hasPlus
      <3>1. "plus" \notin Digits
        BY DEF Digits
      <3>2. phone = <<"plus">> \o digits
        BY <2>1
      <3> QED
        BY <1>1, <3>1, <3>2, KeptBehind
    <2>2. CASE ~hasPlus
      <3>1. phone = digits
        BY <1>1, <2>2, ConcatEmptySeq
      <3> QED
        BY <1>1, <3>1, KeptAll
    <2> QED
      BY <2>1, <2>2
  <1> HIDE DEF phone
  <1>5. CASE Chars(digits) > 7
    <2>1. phone \in Phones
      BY <1>3, <1>4, <1>5 DEF Phones
    <2>2. Plain(<<phone>>) = <<digits>>
      <3>1. DOMAIN <<phone>> = 1..1 /\ <<phone>>[1] = phone
        OBVIOUS
      <3> QED
        BY <1>4, <3>1 DEF Plain
    <2> QED
      BY <1>2, <1>5, <2>1, <2>2 DEF Phone, digits
  <1>6. CASE ~(Chars(digits) > 7)
    <2>1. Plain(<<>>) = <<>>
      BY DEF Plain
    <2> QED
      BY <1>2, <1>6, <2>1 DEF Phone, digits
  <1> QED
    BY <1>5, <1>6

\* What trimString leaves of a text.
LEMMA TrimType ==
    ASSUME NEW text \in Texts
    PROVE  TrimString(text) \in Texts
  <1> DEFINE slashed == [i \in DOMAIN text |-> IF text[i] = "newline" THEN "slash" ELSE text[i]]
             T == Range(slashed) \ {"space", "z"}
  <1>1. slashed \in Texts
    <2>1. DOMAIN text = 1..Len(text) /\ Len(text) \in Nat /\ \A i \in 1..Len(text) : text[i] \in Symbols
      BY ElementOfSeq, LenProperties DEF Texts
    <2>2. slashed \in [1..Len(text) -> Symbols]
      <3>1. "slash" \in Symbols
        BY DEF Symbols
      <3>2. \A i \in 1..Len(text) : (IF text[i] = "newline" THEN "slash" ELSE text[i]) \in Symbols
        BY <2>1, <3>1
      <3> QED
        BY <2>1, <3>2
    <2> QED
      BY <2>1, <2>2, SeqDef DEF Texts
  <1>2. TrimString(text) = Kept(slashed, T)
    BY DEF TrimString
  <1> HIDE DEF slashed, T
  <1>3. Kept(slashed, T) \in Seq(Symbols \cap T)
    BY <1>1, KeptType DEF Texts
  <1>4. Kept(slashed, T) \in Seq(Symbols)
    BY <1>3, SeqMonotonic
  <1> QED
    BY <1>2, <1>4 DEF Texts

Scanned == [phones : Seq(Phones), current : Texts, hasPlus : BOOLEAN]

\* The loop of extractPhone, one character.
Start == [phones |-> <<>>, current |-> <<>>, hasPlus |-> FALSE]
After(acc, sym) ==
    IF IsPhoneChar(sym) THEN [acc EXCEPT !.current = Append(@, sym)]
    ELSE [phones |-> acc.phones \o TryConvertToPhone(acc.current, acc.hasPlus),
          current |-> <<>>,
          hasPlus |-> acc.hasPlus \/ sym = "plus"]

\* f goes along the trimmed text as the loop does.
ScanAlong(f, input) ==
    LET M == Len(TrimString(input))
    IN /\ f[0] = Start /\ \A n \in 1..M : f[n] = After(f[n - 1], TrimString(input)[n])
       /\ ExtractPhone(input) = f[M].phones \o TryConvertToPhone(f[M].current, f[M].hasPlus)

\* The loop collects phone numbers, whatever the text.
LEMMA ScanSteps ==
    ASSUME NEW input \in Texts
    PROVE  \E f \in [0..Len(TrimString(input)) -> Scanned] : ScanAlong(f, input)
  <1>1. PICK text \in Texts : text = TrimString(input)
    BY TrimType
  <1>2. PICK M \in Nat : M = Len(text) /\ \A n \in 1..M : text[n] \in Symbols
    BY ElementOfSeq DEF Texts
  <1> DEFINE Step(f, n) == IF n = 0 THEN Start ELSE After(f[n - 1], text[n])
             Rec(f, N) == f = [n \in 0..N |-> Step(f, n)]
             Grows(f, N) == f \in [0..N -> Scanned] /\ \A n \in 0..N : f[n] = Step(f, n)
             Bad == {N \in 0..M : ~\E f : Grows(f, N)}
  <1>3. Start \in Scanned
    BY DEF Start, Scanned, Texts
  <1>4. ASSUME NEW acc \in Scanned, NEW sym \in Symbols
        PROVE  After(acc, sym) \in Scanned
    <2>1. acc.phones \in Seq(Phones) /\ acc.current \in Texts /\ acc.hasPlus \in BOOLEAN
      BY DEF Scanned
    <2>2. CASE IsPhoneChar(sym)
      <3>1. Append(acc.current, sym) \in Texts
        BY <2>1 DEF Texts
      <3> QED
        BY <2>2, <3>1 DEF After, Scanned
    <2>3. CASE ~IsPhoneChar(sym)
      <3>1. TryConvertToPhone(acc.current, acc.hasPlus) \in Seq(Phones)
        BY <2>1, PhoneFacts DEF Texts
      <3>2. acc.phones \o TryConvertToPhone(acc.current, acc.hasPlus) \in Seq(Phones)
        BY <2>1, <3>1, ConcatProperties
      <3>3. <<>> \in Texts /\ (acc.hasPlus \/ sym = "plus") \in BOOLEAN
        BY DEF Texts
      <3> QED
        BY <2>3, <3>2, <3>3 DEF After, Scanned
    <2> QED
      BY <2>2, <2>3
  <1>5. Bad = {}
    <2> SUFFICES ASSUME Bad # {} PROVE FALSE
      OBVIOUS
    <2>1. Bad \subseteq Nat
      OBVIOUS
    <2> HIDE DEF Bad
    <2>2. PICK N \in Nat : N \in Bad /\ \A m \in Bad : N <= m
      BY <2>1, Least
    <2>3. N \in 0..M /\ ~\E f : Grows(f, N)
      BY <2>2 DEF Bad
    <2>4. N # 0
      <3>1. Grows([n \in 0..0 |-> Start], 0)
        BY <1>3
      <3> HIDE DEF Grows
      <3> QED
        BY <2>3, <3>1
    <2>5. N \in 1..M /\ N - 1 \in 0..M /\ text[N] \in Symbols
      BY <1>2, <2>3, <2>4
    <2>6. PICK f : Grows(f, N - 1)
      <3>1. N - 1 \notin Bad
        BY <2>2, <2>5
      <3> HIDE DEF Grows
      <3> QED
        BY <2>5, <3>1 DEF Bad
    <2> DEFINE last == After(f[N - 1], text[N])
               h == [n \in 0..N |-> IF n = N THEN last ELSE f[n]]
    <2>7. last \in Scanned
      <3>1. f[N - 1] \in Scanned
        BY <2>5, <2>6
      <3> QED
        BY <1>4, <2>5, <3>1
    <2> HIDE DEF last
    <2>8. h \in [0..N -> Scanned] /\ h[N] = last /\ \A n \in 0..(N - 1) : h[n] = f[n]
      BY <2>6, <2>7
    <2> HIDE DEF h
    <2>9. \A n \in 0..N : h[n] = Step(h, n)
      <3> SUFFICES ASSUME NEW n \in 0..N PROVE h[n] = Step(h, n)
        OBVIOUS
      <3>1. CASE n = N
        <4>1. h[n - 1] = f[N - 1]
          BY <2>5, <2>8, <3>1
        <4> QED
          BY <2>4, <2>8, <3>1, <4>1 DEF last
      <3>2. CASE n # N
        <4>1. n \in 0..(N - 1) /\ h[n] = f[n]
          BY <2>8, <3>2
        <4>2. f[n] = Step(f, n)
          <5> HIDE DEF Step
          <5> QED
            BY <2>6, <4>1
        <4>3. n # 0 => h[n - 1] = f[n - 1]
          BY <2>8, <4>1
        <4> QED
          BY <4>1, <4>2, <4>3
      <3> QED
        BY <3>1, <3>2
    <2> HIDE DEF Step
    <2> QED
      BY <2>3, <2>8, <2>9
  <1>6. PICK g : Grows(g, M)
    <2>1. M \in 0..M
      OBVIOUS
    <2> HIDE DEF Grows
    <2> QED
      BY <1>5, <2>1
  <1>7. Rec(g, M)
    BY <1>6
  <1>8. PICK f : /\ Rec(f, M)
                 /\ ExtractPhone(input) = f[M].phones \o TryConvertToPhone(f[M].current, f[M].hasPlus)
    <2> DEFINE c == CHOOSE f : Rec(f, M)
    <2>1. Rec(c, M)
      BY <1>7
    <2>2. ExtractPhone(input) = c[M].phones \o TryConvertToPhone(c[M].current, c[M].hasPlus)
      BY <1>1, <1>2 DEF ExtractPhone, Start, After
    <2> QED
      BY <2>1, <2>2
  <1>9. \A n \in 0..M : f[n] = Step(f, n)
    BY <1>8
  <1> DEFINE D == {n \in 0..M : f[n] # g[n]}
  <1>10. D = {}
    <2> SUFFICES ASSUME D # {} PROVE FALSE
      OBVIOUS
    <2>1. D \subseteq Nat
      OBVIOUS
    <2> HIDE DEF D
    <2>2. PICK n \in Nat : n \in D /\ \A m \in D : n <= m
      BY <2>1, Least
    <2>3. n \in 0..M /\ f[n] # g[n]
      BY <2>2 DEF D
    <2>4. f[n] = Step(f, n) /\ g[n] = Step(g, n)
      <3> HIDE DEF Step
      <3> QED
        BY <1>6, <1>9, <2>3
    <2>5. n # 0 => f[n - 1] = g[n - 1]
      <3>1. n # 0 => n - 1 \in 0..M /\ n - 1 \notin D
        BY <2>2, <2>3
      <3> QED
        BY <3>1 DEF D
    <2> QED
      BY <2>3, <2>4, <2>5
  <1>11. \A n \in 0..M : f[n] \in Scanned
    BY <1>6, <1>10
  <1>12. f \in [0..M -> Scanned]
    BY <1>8, <1>11
  <1>13. f[0] = Start /\ \A n \in 1..M : f[n] = After(f[n - 1], text[n])
    BY <1>9
  <1> HIDE DEF Step
  <1> QED
    BY <1>1, <1>2, <1>8, <1>12, <1>13 DEF ScanAlong

LEMMA ExtractPhoneType ==
    ASSUME NEW input \in Texts
    PROVE  ExtractPhone(input) \in Seq(Phones)
  <1>1. PICK f \in [0..Len(TrimString(input)) -> Scanned] : ScanAlong(f, input)
    BY ScanSteps
  <1>2. PICK M \in Nat : M = Len(TrimString(input))
    BY TrimType, LenProperties DEF Texts
  <1>3. ExtractPhone(input) = f[M].phones \o TryConvertToPhone(f[M].current, f[M].hasPlus)
    BY <1>1, <1>2 DEF ScanAlong
  <1>4. f[M] \in Scanned
    BY <1>1, <1>2
  <1>5. f[M].phones \in Seq(Phones) /\ f[M].current \in Texts /\ f[M].hasPlus \in BOOLEAN
    BY <1>4 DEF Scanned
  <1>6. TryConvertToPhone(f[M].current, f[M].hasPlus) \in Seq(Phones)
    BY <1>5, PhoneFacts DEF Texts
  <1> QED
    BY <1>3, <1>5, <1>6, ConcatProperties


Lines == [font : Int, text : Texts]

\* A line of the page with words, one behind the other.
LEMMA LineTypes ==
    ASSUME NEW page \in Pages
    PROVE  GetListLineFromXml(GetXMLText(page)) \in Seq(Lines)
  <1> DEFINE xml == GetXMLText(page)
             text(i) == FlattenSeq([j \in DOMAIN page[i].words |-> Spell(page[i].words[j])])
             N == Len(page)
  <1>1. /\ N \in Nat /\ DOMAIN page = 1..N
        /\ \A i \in 1..N : page[i] \in [font : Int, words : Seq(Seq(STRING))]
    BY PagesAssumption, LenProperties, ElementOfSeq
  <1>2. ASSUME NEW i \in 1..N PROVE text(i) \in Texts
    <2>1. PICK words \in Seq(Seq(STRING)) : words = page[i].words
      BY <1>1
    <2>2. ASSUME NEW j \in 1..Len(words) PROVE Spell(words[j]) \in Seq(Symbols)
      <3>1. PICK word \in Seq(Symbols) : word = words[j]
        <4>1. words[j] \in Seq(STRING)
          BY <2>2, ElementOfSeq
        <4> QED
          BY <4>1, SeqMonotonic DEF Symbols
      <3>2. Append(word, "space") \in Seq(Symbols)
        BY AppendProperties DEF Symbols
      <3>3. ASSUME word # <<>> PROVE Front(word) \in Seq(Symbols)
        <4>1. Front(word) = SubSeq(word, 1, Len(word) - 1)
          BY DEF Front
        <4>2. Len(word) \in Nat \ {0} /\ \A k \in 1..(Len(word) - 1) : word[k] \in Symbols
          BY <3>3, EmptySeq, ElementOfSeq
        <4> QED
          BY <4>1, <4>2, SubSeqProperties
      <3> QED
        BY <3>1, <3>2, <3>3 DEF Spell
    <2> DEFINE spelled == [j \in DOMAIN words |-> Spell(words[j])]
    <2>3. spelled \in Seq(Seq(Symbols))
      <3>1. Len(words) \in Nat /\ DOMAIN words = 1..Len(words)
        BY LenProperties
      <3>2. spelled \in [1..Len(words) -> Seq(Symbols)]
        BY <2>2, <3>1
      <3> QED
        BY <3>1, <3>2, SeqDef
    <2>4. text(i) = FlattenSeq(spelled)
      BY <2>1
    <2> HIDE DEF spelled
    <2> QED
      BY <2>3, <2>4, FlattenType DEF Texts
  <1>3. xml = [i \in 1..N |-> [font |-> page[i].font, text |-> text(i)]]
    BY <1>1 DEF GetXMLText
  <1> HIDE DEF xml, text
  <1>4. \A i \in 1..N : [font |-> page[i].font, text |-> text(i)] \in Lines
    <2> HIDE DEF N
    <2> QED
      BY <1>1, <1>2 DEF Lines
  <1>5. xml \in [1..N -> Lines]
    BY <1>3, <1>4
  <1>6. xml \in Seq(Lines)
    BY <1>1, <1>5, SeqDef, SMTT(30)
  <1> DEFINE T == {line \in Range(xml) : line.font > 10 /\ Chars(line.text) > 5}
  <1>7. GetListLineFromXml(xml) = Kept(xml, T)
    BY DEF GetListLineFromXml
  <1> HIDE DEF T
  <1>8. Kept(xml, T) \in Seq(Lines \cap T)
    BY <1>6, KeptType
  <1> QED
    BY <1>7, <1>8, SeqMonotonic DEF xml

-----------------------------------------------------------------------------
(* The sort by size. *)

\* Where line i comes: it is behind the lines that are larger, or as large and earlier.
Behind(lines, i) ==
    {j \in DOMAIN lines : lines[j].font > lines[i].font \/ (lines[j].font = lines[i].font /\ j < i)}

\* The sort puts every line in one place, the larger ones first.
LEMMA SortFacts ==
    ASSUME NEW lines \in Seq(Lines)
    PROVE  \E order \in [DOMAIN lines -> DOMAIN lines] :
              /\ \A k \in DOMAIN lines : FontSizeFirst(lines)[k] = lines[order[k]]
              /\ \A i \in DOMAIN lines : \E k \in DOMAIN lines : order[k] = i
              /\ \A k, m \in DOMAIN lines : k < m => lines[order[k]].font >= lines[order[m]].font
  <1>1. PICK N \in Nat : DOMAIN lines = 1..N /\ \A i \in 1..N : lines[i] \in Lines
    BY LenProperties, ElementOfSeq
  <1> DEFINE D == 1..N
             place == [i \in D |-> Cardinality(Behind(lines, i)) + 1]
  <1>2. IsFiniteSet(D) /\ Cardinality(D) = N
    BY FS_Interval
  <1>3. ASSUME NEW i \in D
        PROVE  /\ Behind(lines, i) \subseteq D \ {i} /\ IsFiniteSet(Behind(lines, i))
               /\ Cardinality(Behind(lines, i)) \in Nat /\ place[i] \in D
    <2>1. Behind(lines, i) \subseteq D \ {i}
      BY <1>1 DEF Behind, Lines
    <2>2. IsFiniteSet(D \ {i}) /\ Cardinality(D \ {i}) = N - 1
      BY <1>2, FS_RemoveElement
    <2>3. IsFiniteSet(Behind(lines, i)) /\ Cardinality(Behind(lines, i)) <= N - 1
      BY <2>1, <2>2, FS_Subset
    <2>4. Cardinality(Behind(lines, i)) \in Nat
      BY <2>3, FS_CardinalityType
    <2> QED
      BY <2>1, <2>3, <2>4
  <1>4. ASSUME NEW i \in D, NEW j \in D, j \in Behind(lines, i)
        PROVE  place[j] < place[i]
    <2>1. Behind(lines, j) \subseteq Behind(lines, i)
      BY <1>1, <1>4 DEF Behind, Lines
    <2>2. j \notin Behind(lines, j)
      BY <1>3
    <2>3. Behind(lines, j) \subseteq Behind(lines, i) \ {j}
      BY <2>1, <2>2
    <2>4. /\ IsFiniteSet(Behind(lines, i) \ {j})
          /\ Cardinality(Behind(lines, i) \ {j}) = Cardinality(Behind(lines, i)) - 1
      BY <1>3, <1>4, FS_RemoveElement
    <2>5. Cardinality(Behind(lines, j)) <= Cardinality(Behind(lines, i) \ {j})
      BY <2>3, <2>4, FS_Subset
    <2>6. Cardinality(Behind(lines, i)) \in Nat /\ Cardinality(Behind(lines, j)) \in Nat
      BY <1>3
    <2> QED
      BY <2>4, <2>5, <2>6
  <1>5. ASSUME NEW i \in D, NEW j \in D, i # j PROVE i \in Behind(lines, j) \/ j \in Behind(lines, i)
    BY <1>1, <1>5 DEF Behind, Lines
  <1>6. place \in [D -> D]
    BY <1>3
  <1>7. \A i, j \in D : place[i] = place[j] => i = j
    <2> SUFFICES ASSUME NEW i \in D, NEW j \in D, i # j PROVE place[i] # place[j]
      OBVIOUS
    <2>1. place[i] \in D /\ place[j] \in D
      BY <1>6
    <2>2. place[i] < place[j] \/ place[j] < place[i]
      BY <1>4, <1>5
    <2> HIDE DEF place
    <2> QED
      BY <2>1, <2>2
  <1> HIDE DEF place
  <1>8. \A k \in D : \E i \in D : place[i] = k
    <2>1. place \in Injection(D, D)
      BY <1>6, <1>7 DEF Injection, IsInjective
    <2>2. place \in Surjection(D, D)
      BY <1>2, <2>1, FS_Injection
    <2> QED
      BY <2>2 DEF Surjection
  <1> DEFINE order == [k \in D |-> CHOOSE i \in D : Cardinality(Behind(lines, i)) + 1 = k]
  <1>9. \A k \in D : order[k] \in D /\ place[order[k]] = k
    <2> SUFFICES ASSUME NEW k \in D PROVE order[k] \in D /\ place[order[k]] = k
      OBVIOUS
    <2>1. \E i \in D : Cardinality(Behind(lines, i)) + 1 = k
      BY <1>8 DEF place
    <2>2. order[k] \in D /\ Cardinality(Behind(lines, order[k])) + 1 = k
      BY <2>1
    <2> QED
      BY <2>2 DEF place
  <1>10. \A k \in D : FontSizeFirst(lines)[k] = lines[order[k]]
    BY <1>1 DEF FontSizeFirst, Behind
  <1> HIDE DEF order
  <1>11. order \in [D -> D]
    BY <1>9 DEF order
  <1>12. \A i \in D : \E k \in D : order[k] = i
    <2> SUFFICES ASSUME NEW i \in D PROVE order[place[i]] = i /\ place[i] \in D
      OBVIOUS
    <2> QED
      BY <1>6, <1>7, <1>9
  <1>13. \A k, m \in D : k < m => lines[order[k]].font >= lines[order[m]].font
    <2> SUFFICES ASSUME NEW k \in D, NEW m \in D, k < m
                 PROVE  lines[order[k]].font >= lines[order[m]].font
      OBVIOUS
    <2>1. order[k] \in D /\ order[m] \in D /\ place[order[k]] = k /\ place[order[m]] = m
      BY <1>9
    <2>2. order[m] \notin Behind(lines, order[k])
      <3>1. ~(m < k)
        OBVIOUS
      <3> QED
        BY <1>4, <2>1, <3>1
    <2>3. lines[order[k]].font \in Int /\ lines[order[m]].font \in Int
      BY <1>1, <2>1 DEF Lines
    <2> QED
      BY <1>1, <2>1, <2>2, <2>3 DEF Behind
  <1> QED
    BY <1>1, <1>10, <1>11, <1>12, <1>13

\* The sorted lines of a page are lines; so what extractPhone is given is a text.
LEMMA CardTypes ==
    ASSUME NEW page \in Pages
    PROVE  CardLines(page) \in Seq(Lines) /\ Utf8Result(CardLines(page)) \in Texts
  <1>1. PICK lines \in Seq(Lines) : lines = GetListLineFromXml(GetXMLText(page))
    BY LineTypes
  <1>2. PICK card : card = FontSizeFirst(lines) /\ card = CardLines(page)
    BY <1>1 DEF CardLines
  <1>3. PICK N \in Nat : DOMAIN lines = 1..N /\ \A i \in 1..N : lines[i] \in Lines
    BY LenProperties, ElementOfSeq
  <1>4. card \in [1..N -> Lines]
    <2>1. DOMAIN card = 1..N /\ card = [k \in 1..N |-> card[k]]
      BY <1>2, <1>3 DEF FontSizeFirst
    <2>2. PICK order \in [DOMAIN lines -> DOMAIN lines] :
             \A k \in DOMAIN lines : FontSizeFirst(lines)[k] = lines[order[k]]
      BY SortFacts
    <2>3. \A k \in 1..N : card[k] \in Lines
      <3> SUFFICES ASSUME NEW k \in 1..N PROVE card[k] \in Lines
        OBVIOUS
      <3>1. FontSizeFirst(lines)[k] = lines[order[k]] /\ order[k] \in 1..N
        BY <1>3, <2>2
      <3> QED
        BY <1>2, <1>3, <3>1
    <2> QED
      BY <2>1, <2>3
  <1>5. card \in Seq(Lines) /\ Len(card) = N /\ DOMAIN card = 1..N
    BY <1>4, SeqDef
  <1>6. ASSUME NEW line \in Lines PROVE Printed(line) \in Texts
    <2>1. /\ <<"x", "colon", "space", "two", "colon", "space">> \in Seq(Symbols)
          /\ <<"newline", "newline">> \in Seq(Symbols) /\ line.text \in Seq(Symbols)
      BY DEF Symbols, Lines, Texts
    <2>2. <<"x", "colon", "space", "two", "colon", "space">> \o line.text \in Seq(Symbols)
      BY <2>1, ConcatProperties
    <2> QED
      BY <2>1, <2>2, ConcatProperties DEF Printed, Texts
  <1> DEFINE printed == [i \in DOMAIN card |-> Printed(card[i])]
  <1>7. printed \in Seq(Texts)
    <2>1. printed \in [1..N -> Texts]
      BY <1>4, <1>5, <1>6
    <2> QED
      BY <2>1, SeqDef
  <1>8. Utf8Result(card) = FlattenSeq(printed)
    BY DEF Utf8Result
  <1> HIDE DEF printed
  <1>9. Utf8Result(card) \in Texts
    BY <1>7, <1>8, FlattenType DEF Texts
  <1> QED
    BY <1>2, <1>5, <1>9

-----------------------------------------------------------------------------
(* The inductive invariant. *)

\* What may be in the list, as a set.
Items == {<<>>, Typed} \cup Phones

\* A view in edit mode shows its own text or a change of it, or a stray draft.
OwnDraft(view) == view.editing => view.stray \/ view.draft \in {view.text, Typed}

\* A view, as the list uses it.
Fields == [item : Nat, text : Items, editing : BOOLEAN, draft : Items, stray : BOOLEAN]
Row == {view \in Fields : OwnDraft(view)}

\* Between two layouts each item is in one view, with its text.
Placed ==
    Live /\ ~isFirst /\ ~pending =>
        \A i \in DOMAIN listPhone :
            \E v \in Views :
                /\ views[v].item = i /\ views[v].text = listPhone[i]
                /\ \A w \in Views \ {v} : views[w].item # i

\* The list, the views and what they hold.
ListTypes ==
    /\ htmlResult = <<>> \/ \E page \in Pages : htmlResult = <<page>>
    /\ isFirst \in BOOLEAN /\ pending \in BOOLEAN
    /\ listPhone \in Seq(Items)
    /\ adds \in 0..MaxAdds
    /\ views \in [Views -> Row]
    /\ fault \in {"none", "no_document", "no_such_item"}

IInv == ListTypes /\ Placed

LEMMA ItemFacts == \A text : text \in Items <=> IsItem(text)
  BY DEF Items, Phones, IsItem

\* The parts of the types are the type invariant.
LEMMA TypeFromParts == ListTypes => TypeOK
  <1> SUFFICES ASSUME ListTypes PROVE TypeOK
    OBVIOUS
  <1> USE DEF ListTypes
  <1>1. htmlResult = <<>> \/ (Len(htmlResult) = 1 /\ Head(htmlResult) \in Pages)
    OBVIOUS
  <1>2. \A i \in DOMAIN listPhone : IsItem(listPhone[i])
    <2>1. DOMAIN listPhone = 1..Len(listPhone) /\ \A i \in 1..Len(listPhone) : listPhone[i] \in Items
      BY ElementOfSeq, LenProperties
    <2> QED
      BY <2>1, ItemFacts
  <1>3. \A v \in Views :
           /\ views[v].item \in Nat /\ views[v].editing \in BOOLEAN /\ views[v].stray \in BOOLEAN
           /\ IsItem(views[v].text) /\ IsItem(views[v].draft)
    BY ItemFacts DEF Row, Fields
  <1> QED
    BY <1>1, <1>2, <1>3 DEF TypeOK

LEMMA InitIInv == Init => IInv
  <1> SUFFICES ASSUME Init PROVE IInv
    OBVIOUS
  <1>1. <<>> \in Items /\ <<>> \in Seq(Items) /\ 0 \in 0..MaxAdds
    BY BoundsAssumption, EmptySeq DEF Items
  <1>2. ListTypes
    BY <1>1 DEF Init, ListTypes, Row, Fields, OwnDraft
  <1>3. Placed
    BY DEF Init, Placed
  <1> QED
    BY <1>2, <1>3 DEF IInv

\* The first resume fills the list with phone numbers; the layout is still to come.
LEMMA BindDataIInv == ASSUME IInv, BindData PROVE IInv'
  <1> USE DEF BindData, IInv, ListTypes, fields
  <1>1. CASE htmlResult = <<>>
    <2>1. ListTypes'
      BY <1>1
    <2>2. Placed'
      BY <1>1 DEF Placed, Live
    <2> QED
      BY <2>1, <2>2
  <1>2. CASE htmlResult # <<>>
    <2>1. PICK page \in Pages : htmlResult = <<page>>
      BY <1>2
    <2>2. listPhone' = ExtractPhone(Utf8Result(CardLines(page)))
      BY <1>2, <2>1
    <2>3. listPhone' \in Seq(Items)
      <3>1. listPhone' \in Seq(Phones)
        BY <2>2, CardTypes, ExtractPhoneType
      <3> QED
        BY <3>1, SeqMonotonic DEF Items
    <2>4. ListTypes'
      BY <1>2, <2>3
    <2>5. Placed'
      BY <1>2 DEF Placed
    <2> QED
      BY <2>4, <2>5
  <1> QED
    BY <1>1, <1>2

\* Both announce a layout.
LEMMA ResumeIInv == ASSUME IInv, Resume PROVE IInv'
  BY DEF Resume, IInv, ListTypes, Placed, fields

LEMMA AddPhoneIInv == ASSUME IInv, AddPhone PROVE IInv'
  <1> USE DEF AddPhone, IInv, ListTypes, fields
  <1>1. listPhone' \in Seq(Items)
    BY AppendProperties DEF Items
  <1>2. adds' \in 0..MaxAdds
    BY BoundsAssumption
  <1>3. ListTypes'
    BY <1>1, <1>2
  <1>4. Placed'
    BY DEF Placed
  <1> QED
    BY <1>3, <1>4

\* What onBindViewHolder leaves is a view, with the item and the text.
LEMMA BoundFacts ==
    ASSUME NEW view \in Row, NEW item \in Nat, NEW text \in Items
    PROVE  /\ Bound(view, item, text) \in Row
           /\ Bound(view, item, text).item = item /\ Bound(view, item, text).text = text
  <1>1. PICK bound : bound = Bound(view, item, text)
    OBVIOUS
  <1>2. view \in Fields /\ OwnDraft(view)
    BY DEF Row
  <1>3. PICK stray \in BOOLEAN :
           stray <=> view.stray \/ (view.editing /\ (view.item # item \/ view.text # text))
    OBVIOUS
  <1>4. bound = [view EXCEPT !.item = item, !.text = text, !.stray = stray]
    BY <1>1, <1>2, <1>3 DEF Bound, Fields
  <1>5. /\ bound \in Fields /\ bound.item = item /\ bound.text = text /\ bound.stray = stray
        /\ bound.editing = view.editing /\ bound.draft = view.draft
    BY <1>2, <1>4 DEF Fields
  <1>6. OwnDraft(bound)
    BY <1>2, <1>3, <1>5 DEF OwnDraft
  <1> QED
    BY <1>1, <1>5, <1>6 DEF Row

\* Whatever view the layout takes for an item, it has its text and no other item.
LEMMA LayoutIInv == ASSUME IInv, Layout PROVE IInv'
  <1>1. PICK holder \in Injection(DOMAIN listPhone, Views) :
          views' = [v \in Views |->
                       IF v \in Range(holder)
                       THEN LET i == CHOOSE i \in DOMAIN listPhone : holder[i] = v
                            IN Bound(views[v], i, listPhone[i])
                       ELSE Bound(views[v], 0, <<>>)]
    BY DEF Layout
  <1>2. listPhone \in Seq(Items) /\ views \in [Views -> Row]
    BY DEF IInv, ListTypes
  <1>3. PICK N \in Nat : DOMAIN listPhone = 1..N /\ \A i \in 1..N : listPhone[i] \in Items
    BY <1>2, ElementOfSeq, LenProperties
  <1>4. holder \in [1..N -> Views] /\ \A i, j \in 1..N : holder[i] = holder[j] => i = j
    BY <1>1, <1>3 DEF Injection, IsInjective
  <1>5. \A v : v \in Range(holder) <=> \E i \in 1..N : holder[i] = v
    BY <1>4 DEF Range
  <1>6. ASSUME NEW i \in 1..N
        PROVE  views'[holder[i]] = Bound(views[holder[i]], i, listPhone[i])
    <2>1. (CHOOSE j \in DOMAIN listPhone : holder[j] = holder[i]) = i
      BY <1>3, <1>4
    <2>2. holder[i] \in Views /\ holder[i] \in Range(holder)
      BY <1>4, <1>5
    <2> QED
      BY <1>1, <2>1, <2>2
  <1>7. ASSUME NEW v \in Views, v \notin Range(holder)
        PROVE  views'[v] = Bound(views[v], 0, <<>>)
    BY <1>1, <1>7
  <1>8. ASSUME NEW v \in Views
        PROVE  /\ views'[v] \in Row
               /\ views'[v].item = 0 \/ \E i \in 1..N : holder[i] = v /\ views'[v].item = i
    <2>1. views[v] \in Row
      BY <1>2
    <2>2. CASE v \in Range(holder)
      <3>1. PICK i \in 1..N : holder[i] = v
        BY <1>5, <2>2
      <3>2. views'[v] = Bound(views[v], i, listPhone[i])
        BY <1>6, <3>1
      <3>3. i \in Nat /\ listPhone[i] \in Items
        BY <1>3
      <3>4. views'[v] \in Row /\ views'[v].item = i
        BY <2>1, <3>2, <3>3, BoundFacts
      <3> QED
        BY <3>1, <3>4
    <2>3. CASE v \notin Range(holder)
      <3>1. views'[v] = Bound(views[v], 0, <<>>)
        BY <1>7, <2>3
      <3>2. 0 \in Nat /\ <<>> \in Items
        BY DEF Items
      <3> QED
        BY <2>1, <3>1, <3>2, BoundFacts
    <2> QED
      BY <2>2, <2>3
  <1>9. views' \in [Views -> Row]
    <2> DEFINE row(v) == IF v \in Range(holder)
                         THEN LET i == CHOOSE i \in DOMAIN listPhone : holder[i] = v
                              IN Bound(views[v], i, listPhone[i])
                         ELSE Bound(views[v], 0, <<>>)
    <2>1. views' = [v \in Views |-> row(v)]
      BY <1>1
    <2> HIDE DEF row
    <2> QED
      BY <1>8, <2>1
  <1>10. ListTypes'
    BY <1>9 DEF Layout, IInv, ListTypes, fields
  <1>11. ASSUME NEW i \in 1..N
         PROVE  \E v \in Views : /\ views'[v].item = i /\ views'[v].text = listPhone[i]
                                 /\ \A w \in Views \ {v} : views'[w].item # i
    <2>1. holder[i] \in Views /\ views[holder[i]] \in Row
      BY <1>2, <1>4
    <2>2. views'[holder[i]].item = i /\ views'[holder[i]].text = listPhone[i]
      <3>1. PICK row, text : row = views[holder[i]] /\ text = listPhone[i]
        OBVIOUS
      <3>2. row \in Row /\ text \in Items /\ i \in Nat
        BY <1>3, <2>1, <3>1
      <3>3. views'[holder[i]] = Bound(row, i, text)
        BY <1>6, <3>1
      <3>4. Bound(row, i, text).item = i /\ Bound(row, i, text).text = text
        BY <3>2, BoundFacts
      <3> QED
        BY <3>1, <3>3, <3>4
    <2>3. ASSUME NEW w \in Views, w # holder[i] PROVE views'[w].item # i
      <3>1. i # 0
        OBVIOUS
      <3> QED
        BY <1>4, <1>8, <2>3, <3>1
    <2> QED
      BY <2>1, <2>2, <2>3
  <1>12. Placed'
    <2>1. listPhone' = listPhone
      BY DEF Layout
    <2> QED
      BY <1>3, <1>11, <2>1 DEF Placed
  <1> QED
    BY <1>10, <1>12 DEF IInv

\* A click in one view: the others, its item and its text stay.
LEMMA ClickIInv ==
    ASSUME IInv, NEW v \in Views, NEW mode \in BOOLEAN, NEW text \in Items,
           text \in {views[v].text, Typed}, UNCHANGED <<fields, listPhone, pending, adds, fault>>,
           views' = [views EXCEPT ![v].draft = text, ![v].editing = mode]
    PROVE  IInv'
  <1>1. views \in [Views -> Row]
    BY DEF IInv, ListTypes
  <1>a. views'[v] = [views[v] EXCEPT !.draft = text, !.editing = mode] /\ views[v] \in Fields
    BY <1>1 DEF Row
  <1>b. /\ views'[v] \in Fields /\ views'[v].draft = text
        /\ views'[v].item = views[v].item /\ views'[v].text = views[v].text
    <2>1. PICK row \in Fields : row = views[v]
      BY <1>a
    <2>2. row.item \in Nat /\ row.text \in Items /\ row.stray \in BOOLEAN
      BY DEF Fields
    <2>3. views'[v] = [row EXCEPT !.draft = text, !.editing = mode]
      BY <1>a, <2>1
    <2>4. views'[v] \in Fields
      <3>1. PICK r1 : r1 = [row EXCEPT !.draft = text]
        OBVIOUS
      <3>2. r1 \in Fields
        BY <3>1 DEF Fields
      <3>3. [r1 EXCEPT !.editing = mode] \in Fields
        BY <3>2 DEF Fields
      <3>4. views'[v] = [r1 EXCEPT !.editing = mode]
        BY <2>3, <3>1 DEF Fields
      <3> QED
        BY <3>3, <3>4
    <2>5. views'[v].draft = text /\ views'[v].item = row.item /\ views'[v].text = row.text
      BY <2>3, ZenonT(30) DEF Fields
    <2> QED
      BY <2>1, <2>4, <2>5
  <1>c. views'[v] \in Row
    BY <1>b DEF Row, OwnDraft
  <1>2. /\ views' \in [Views -> Row]
        /\ \A w \in Views : views'[w].item = views[w].item /\ views'[w].text = views[w].text
    BY <1>1, <1>b, <1>c
  <1>3. ListTypes'
    BY <1>2 DEF IInv, ListTypes, fields
  <1>4. Placed'
    BY <1>2 DEF IInv, Placed, fields, Live
  <1> QED
    BY <1>3, <1>4 DEF IInv

LEMMA EditIInv == ASSUME IInv, NEW v \in Views, Edit(v) PROVE IInv'
  <1>1. views \in [Views -> Row]
    BY DEF IInv, ListTypes
  <1>2. views[v].text \in Items
    BY <1>1 DEF Row, Fields
  <1> QED
    BY <1>2, ClickIInv DEF Edit

LEMMA TypeIInv == ASSUME IInv, NEW v \in Views, Type(v) PROVE IInv'
  <1>1. views \in [Views -> Row]
    BY DEF IInv, ListTypes
  <1>2. Typed \in Items /\ views[v].editing \in BOOLEAN
    BY <1>1 DEF Row, Fields, Items
  <1>3. views' = [views EXCEPT ![v].draft = Typed, ![v].editing = views[v].editing]
    <2>1. views' = [views EXCEPT ![v].draft = Typed]
      BY DEF Type
    <2> QED
      BY <1>1, <2>1 DEF Row, Fields
  <1>4. UNCHANGED <<fields, listPhone, pending, adds, fault>>
    BY DEF Type
  <1> QED
    BY <1>2, <1>3, <1>4, ClickIInv

\* The process ends.
LEMMA NoSuchItemIInv == ASSUME IInv, NEW v \in Views, NoSuchItem(v) PROVE IInv'
  BY DEF NoSuchItem, IInv, ListTypes, Placed, Live, fields

\* The list is laid out anew.
LEMMA DeleteIInv == ASSUME IInv, NEW v \in Views, Delete(v) PROVE IInv'
  <1>1. listPhone \in Seq(Items) /\ views \in [Views -> Row]
    BY DEF IInv, ListTypes
  <1>2. views[v].item \in 1..Len(listPhone)
    <2>1. views[v].item \in Nat /\ Len(listPhone) \in Nat
      BY <1>1, LenProperties DEF Row, Fields
    <2> QED
      BY <2>1 DEF Delete, Clicking
  <1>3. listPhone' \in Seq(Items)
    <2>1. PICK N \in Nat : N = Len(listPhone)
      BY <1>1, LenProperties
    <2>2. PICK n \in 1..N : n = views[v].item
      BY <1>2, <2>1
    <2>3. \A i \in 1..N : listPhone[i] \in Items
      BY <1>1, <2>1, ElementOfSeq
    <2>4. listPhone' = SubSeq(listPhone, 1, n - 1) \o SubSeq(listPhone, n + 1, N)
      BY <2>1, <2>2 DEF Delete, RemoveAt
    <2>5. /\ 1 \in Nat /\ n - 1 \in Int /\ n + 1 \in Nat
          /\ \A i \in 1..(n - 1) : i \in 1..N
          /\ \A i \in (n + 1)..N : i \in 1..N
      OBVIOUS
    <2>6. SubSeq(listPhone, 1, n - 1) \in Seq(Items)
      BY <1>1, <2>1, <2>3, <2>5, SubSeqProperties
    <2>7. SubSeq(listPhone, n + 1, N) \in Seq(Items)
      BY <1>1, <2>1, <2>3, <2>5, SubSeqProperties
    <2> QED
      BY <2>4, <2>6, <2>7, ConcatProperties
  <1>4. ListTypes'
    BY <1>3 DEF Delete, IInv, ListTypes, fields
  <1>5. Placed'
    BY DEF Delete, Placed
  <1> QED
    BY <1>4, <1>5 DEF IInv

\* The view shows what the list now has in its place; the place is no other view's.
LEMMA DoneIInv == ASSUME IInv, NEW v \in Views, Done(v) PROVE IInv'
  <1>1. listPhone \in Seq(Items) /\ views \in [Views -> Row]
    BY DEF IInv, ListTypes
  <1>2. PICK N \in Nat : /\ N = Len(listPhone) /\ DOMAIN listPhone = 1..N
                         /\ listPhone \in [1..N -> Items]
    BY <1>1, LenProperties, SeqDef
  <1>3. views[v] \in Row
    BY <1>1
  <1>4. PICK n \in 1..N : n = views[v].item
    <2>1. views[v].item \in Nat /\ views[v].item # 0 /\ views[v].item <= N
      BY <1>2, <1>3 DEF Row, Fields, Done, Clicking
    <2> QED
      BY <2>1
  <1>5. PICK text \in Items : text = views[v].draft
    BY <1>3 DEF Row, Fields
  <1>6. listPhone' = [listPhone EXCEPT ![n] = text]
    BY <1>4, <1>5 DEF Done
  <1>7. views' = [views EXCEPT ![v].text = text, ![v].editing = FALSE, ![v].draft = <<>>,
                              ![v].stray = FALSE]
    BY <1>5 DEF Done
  <1>8. listPhone' \in [1..N -> Items] /\ listPhone' \in Seq(Items)
    <2>1. listPhone' \in [1..N -> Items]
      BY <1>2, <1>6
    <2> QED
      BY <2>1, SeqDef
  <1>9. /\ views' \in [Views -> Row] /\ views'[v].text = text
        /\ \A w \in Views : views'[w].item = views[w].item
        /\ \A w \in Views \ {v} : views'[w].text = views[w].text
    <2>1. <<>> \in Items /\ FALSE \in BOOLEAN
      BY DEF Items
    <2>2. views'[v] = [views[v] EXCEPT !.text = text, !.editing = FALSE, !.draft = <<>>, !.stray = FALSE]
      BY <1>1, <1>7
    <2>3. views'[v] \in Row /\ views'[v].text = text /\ views'[v].item = views[v].item
      BY <1>3, <2>1, <2>2 DEF Row, Fields, OwnDraft
    <2>4. \A w \in Views \ {v} : views'[w] = views[w]
      BY <1>1, <1>7
    <2>5. DOMAIN views' = Views /\ views' = [w \in Views |-> views'[w]]
      BY <1>1, <1>7
    <2>6. \A w \in Views : views'[w] \in Row
      BY <1>1, <2>3, <2>4
    <2> QED
      BY <2>3, <2>4, <2>5, <2>6
  <1>10. ListTypes'
    BY <1>8, <1>9 DEF Done, IInv, ListTypes, fields
  <1>11. ASSUME ~pending, NEW i \in 1..N
         PROVE  \E w \in Views : /\ views'[w].item = i /\ views'[w].text = listPhone'[i]
                                 /\ \A u \in Views \ {w} : views'[u].item # i
    <2>1. PICK w \in Views : /\ views[w].item = i /\ views[w].text = listPhone[i]
                             /\ \A u \in Views \ {w} : views[u].item # i
      BY <1>2, <1>11 DEF IInv, Placed, Done, Clicking
    <2>2. views'[w].item = i /\ \A u \in Views \ {w} : views'[u].item # i
      BY <1>9, <2>1
    <2>3. CASE i = n
      <3>1. w = v /\ listPhone'[i] = text
        BY <1>2, <1>4, <1>6, <2>1, <2>3
      <3> QED
        BY <1>9, <2>2, <3>1
    <2>4. CASE i # n
      <3>1. w # v /\ listPhone'[i] = listPhone[i]
        BY <1>2, <1>4, <1>6, <2>1, <2>4
      <3> QED
        BY <1>9, <2>1, <2>2, <3>1
    <2> QED
      BY <2>3, <2>4
  <1>12. Placed'
    <2>1. pending' = pending /\ DOMAIN listPhone' = 1..N
      BY <1>8 DEF Done
    <2> QED
      BY <1>11, <2>1 DEF Placed
  <1> QED
    BY <1>10, <1>12 DEF IInv

LEMMA NextIInv == IInv /\ [Next]_vars => IInv'
  <1> SUFFICES ASSUME IInv, [Next]_vars PROVE IInv'
    OBVIOUS
  <1>1. CASE BindData
    BY <1>1, BindDataIInv
  <1>2. CASE Resume
    BY <1>2, ResumeIInv
  <1>3. CASE AddPhone
    BY <1>3, AddPhoneIInv
  <1>4. CASE Layout
    BY <1>4, LayoutIInv
  <1>5. CASE \E v \in Views : Edit(v) \/ Type(v) \/ NoSuchItem(v) \/ Delete(v) \/ Done(v)
    BY <1>5, EditIInv, TypeIInv, NoSuchItemIInv, DeleteIInv, DoneIInv
  <1>6. CASE UNCHANGED vars
    BY <1>6 DEF IInv, ListTypes, Placed, Live, vars, fields
  <1>7. CASE Rest
    BY <1>6, <1>7 DEF Rest
  <1> QED
    BY <1>1, <1>2, <1>3, <1>4, <1>5, <1>6, <1>7 DEF Next

LEMMA Invariance == Spec => []IInv
  BY InitIInv, NextIInv, PTL DEF Spec

\* The list holds phone numbers of more than seven digits, what the user typed, and new
\* items (ResultActivity.java:168-175, ListItemInfoAdapter.java:85-93).
THEOREM TypeCorrect == Spec => []TypeOK
  <1>1. IInv => TypeOK
    BY TypeFromParts DEF IInv
  <1> QED
    BY <1>1, Invariance, PTL

\* Whatever views the layouts take, between two layouts the screen shows each item in one
\* view with its own text, in edit mode its own draft, which Done writes back - unless a
\* layout gave the view another item or text while it was in edit mode: only that makes a
\* draft a stranger's (ListItemInfoAdapter.java:39-44, 79-97).
THEOREM ScreenShowsTheList == Spec => []ShownIsListed
  <1>1. IInv => ShownIsListed
    <2> SUFFICES ASSUME IInv, Live, ~isFirst, ~pending, NEW i \in DOMAIN listPhone
                 PROVE  \E v \in Views : /\ views[v].item = i /\ Shows(views[v], listPhone[i])
                                         /\ \A w \in Views \ {v} : views[w].item # i
      BY DEF ShownIsListed
    <2>1. PICK v \in Views : /\ views[v].item = i /\ views[v].text = listPhone[i]
                             /\ \A w \in Views \ {v} : views[w].item # i
      BY DEF IInv, Placed
    <2>2. OwnDraft(views[v])
      BY DEF IInv, ListTypes, Row
    <2>3. Shows(views[v], listPhone[i])
      BY <2>1, <2>2 DEF Shows, OwnDraft
    <2> QED
      BY <2>1, <2>3
  <1> QED
    BY <1>1, Invariance, PTL

-----------------------------------------------------------------------------
(* The name. *)

\* The preferred text is at one of the places: a degree before none, then the first.
LEMMA PreferredPlace ==
    ASSUME NEW texts, NEW C, C \subseteq Nat, C # {}
    PROVE  \E k \in C :
              /\ PreferDegree(texts, C) = texts[k]
              /\ \A m \in C : \/ Contains(texts[k], "TS") /\ ~Contains(texts[m], "TS")
                              \/ (Contains(texts[k], "TS") <=> Contains(texts[m], "TS")) /\ k <= m
  <1> DEFINE degrees == {i \in C : Contains(texts[i], "TS")}
             places == IF degrees # {} THEN degrees ELSE C
  <1>1. degrees \subseteq C /\ \A i \in C : i \in degrees <=> Contains(texts[i], "TS")
    OBVIOUS
  <1>2. PreferDegree(texts, C) = texts[Min(places)]
    BY DEF PreferDegree
  <1> HIDE DEF degrees
  <1>3. places \subseteq Nat /\ places # {}
    BY <1>1
  <1>4. Min(places) \in places /\ \A m \in places : Min(places) <= m
    <2> HIDE DEF places
    <2>1. \E n \in places : \A m \in places : n <= m
      BY <1>3, Least
    <2> QED
      BY <2>1 DEF Min
  <1> DEFINE k == Min(places)
  <1> HIDE DEF k
  <1>5. k \in C /\ \A m \in C : k <= m \/ (k \in degrees /\ m \notin degrees)
    BY <1>1, <1>4 DEF k
  <1>6. \A m \in C : m \in degrees => k \in degrees
    BY <1>1, <1>4 DEF k
  <1>7. ASSUME NEW m \in C
        PROVE  \/ k \in degrees /\ m \notin degrees
               \/ (k \in degrees <=> m \in degrees) /\ k <= m
    <2>1. CASE k \in degrees /\ m \notin degrees
      BY <2>1
    <2>2. CASE ~(k \in degrees /\ m \notin degrees)
      <3>1. k <= m
        BY <1>5, <2>2
      <3>2. k \in degrees <=> m \in degrees
        BY <1>6, <2>2
      <3> QED
        BY <3>1, <3>2
    <2> QED
      BY <2>1, <2>2
  <1>8. PreferDegree(texts, C) = texts[k]
    BY <1>2 DEF k
  <1> QED
    BY <1>1, <1>5, <1>7, <1>8

\* What getNameFromRawOutput returns for the sorted lines.
LEMMA LargestName ==
    ASSUME NEW xml \in Seq(Lines)
    PROVE  LET text(i) == Trim(xml[i].text)
               named == {i \in DOMAIN xml :
                            ~Contains(text(i), "colon") /\ FewWords(text(i)) /\ HasSurname(text(i))}
               Counts(i) == (IF AllUpper(text(i)) THEN 2 ELSE 0) + (IF Contains(text(i), "TS") THEN 1 ELSE 0)
           IN named # {} =>
                 \E i \in named :
                    /\ GetNameFromRawOutput(FontSizeFirst(xml)) = <<text(i)>>
                    /\ \A j \in named :
                          Counts(i) > Counts(j) \/ (Counts(i) = Counts(j) /\ xml[i].font >= xml[j].font)
  <1> DEFINE text(i) == Trim(xml[i].text)
             named == {i \in DOMAIN xml :
                          ~Contains(text(i), "colon") /\ FewWords(text(i)) /\ HasSurname(text(i))}
             Counts(i) == (IF AllUpper(text(i)) THEN 2 ELSE 0) + (IF Contains(text(i), "TS") THEN 1 ELSE 0)
             card == FontSizeFirst(xml)
             texts == [k \in DOMAIN card |-> Trim(card[k].text)]
  <1>1. PICK N \in Nat : DOMAIN xml = 1..N /\ \A i \in 1..N : xml[i] \in Lines
    BY LenProperties, ElementOfSeq
  <1>2. PICK order \in [1..N -> 1..N] :
           /\ \A k \in 1..N : card[k] = xml[order[k]]
           /\ \A i \in 1..N : \E k \in 1..N : order[k] = i
           /\ \A k, m \in 1..N : k < m => xml[order[k]].font >= xml[order[m]].font
    <2> HIDE DEF card
    <2>1. \E order \in [DOMAIN xml -> DOMAIN xml] :
             /\ \A k \in DOMAIN xml : card[k] = xml[order[k]]
             /\ \A i \in DOMAIN xml : \E k \in DOMAIN xml : order[k] = i
             /\ \A k, m \in DOMAIN xml : k < m => xml[order[k]].font >= xml[order[m]].font
      BY SortFacts DEF card
    <2> QED
      BY <1>1, <2>1
  <1>3. DOMAIN card = 1..N
    BY <1>1 DEF FontSizeFirst
  <1> HIDE DEF card
  <1>4. \A k \in 1..N : order[k] \in 1..N /\ texts[k] = text(order[k])
    BY <1>2, <1>3
  <1> DEFINE all == Named(texts)
             expect == {k \in all : AllUpper(texts[k])}
             available == all \ expect
             fallback == {i \in DOMAIN card : FewWords(texts[i]) \/ LongFirstWord(texts[i])}
  <1>5. GetNameFromRawOutput(card) =
           CASE expect # {} -> <<PreferDegree(texts, expect)>>
             [] expect = {} /\ available # {} -> <<PreferDegree(texts, available)>>
             [] all = {} /\ fallback # {} -> <<card[Min(fallback)].text>>
             [] OTHER -> <<>>
    BY DEF GetNameFromRawOutput
  <1>6. all \subseteq 1..N /\ \A k \in 1..N : k \in all <=> order[k] \in named
    <2>1. DOMAIN texts = 1..N
      BY <1>3
    <2> HIDE DEF texts
    <2>2. all = {k \in 1..N : /\ ~Contains(texts[k], "colon")
                              /\ FewWords(texts[k]) /\ HasSurname(texts[k])}
      BY <2>1 DEF Named
    <2> HIDE DEF all, text
    <2>3. named = {i \in 1..N : ~Contains(text(i), "colon") /\ FewWords(text(i)) /\ HasSurname(text(i))}
      BY <1>1
    <2> HIDE DEF named
    <2> QED
      BY <1>4, <2>2, <2>3
  <1>7. named \subseteq 1..N
    BY <1>1
  <1> HIDE DEF texts, all, named, text, fallback
  <1> SUFFICES ASSUME named # {}
               PROVE  \E i \in named :
                         /\ GetNameFromRawOutput(card) = <<text(i)>>
                         /\ \A j \in named :
                               \/ Counts(i) > Counts(j)
                               \/ Counts(i) = Counts(j) /\ xml[i].font >= xml[j].font
    BY DEF text, named, card
  <1>8. all # {}
    BY <1>2, <1>6, <1>7
  <1>9. expect \subseteq all /\ \A k \in all : k \in expect <=> AllUpper(text(order[k]))
    BY <1>4, <1>6
  <1>10. PICK C : /\ GetNameFromRawOutput(card) = <<PreferDegree(texts, C)>> /\ C \subseteq all /\ C # {}
                  /\ C = expect \/ (expect = {} /\ C = all)
    <2>1. CASE expect # {}
      BY <1>5, <1>9, <2>1
    <2>2. CASE expect = {}
      <3>1. available = all
        BY <2>2
      <3> HIDE DEF available, expect
      <3>2. GetNameFromRawOutput(card) = <<PreferDegree(texts, all)>>
        BY <1>5, <1>8, <2>2, <3>1
      <3> QED
        BY <1>8, <2>2, <3>2
    <2> QED
      BY <2>1, <2>2
  <1> HIDE DEF expect, available
  <1>11. PICK k \in C :
            /\ PreferDegree(texts, C) = texts[k]
            /\ \A m \in C : \/ Contains(texts[k], "TS") /\ ~Contains(texts[m], "TS")
                            \/ (Contains(texts[k], "TS") <=> Contains(texts[m], "TS")) /\ k <= m
    <2>1. C \subseteq Nat /\ C # {}
      BY <1>6, <1>10
    <2> QED
      BY <2>1, PreferredPlace
  <1>12. k \in 1..N /\ k \in all /\ order[k] \in named /\ texts[k] = text(order[k])
    BY <1>4, <1>6, <1>10, <1>11
  <1>13. ASSUME NEW j \in named
         PROVE  \/ Counts(order[k]) > Counts(j)
                \/ Counts(order[k]) = Counts(j) /\ xml[order[k]].font >= xml[j].font
    <2>1. PICK m \in 1..N : order[m] = j
      BY <1>2, <1>7, <1>13
    <2>2. m \in all /\ texts[m] = text(j)
      BY <1>4, <1>6, <1>13, <2>1
    <2>3. ASSUME k <= m PROVE xml[order[k]].font >= xml[j].font
      <3>1. CASE k = m
        <4>1. xml[j].font \in Int
          BY <1>1, <1>2, <2>1 DEF Lines
        <4> QED
          BY <2>1, <3>1, <4>1
      <3>2. CASE k # m
        <4>1. k \in 1..N /\ m \in 1..N /\ k < m
          BY <1>12, <2>3, <3>2
        <4>2. \A i, n \in 1..N : i < n => xml[order[i]].font >= xml[order[n]].font
          BY <1>2
        <4> QED
          BY <2>1, <4>1, <4>2
      <3> QED
        BY <3>1, <3>2
    <2>4. CASE m \in C
      <3>1. AllUpper(text(order[k])) <=> AllUpper(text(j))
        BY <1>9, <1>10, <1>11, <1>12, <2>1, <2>2, <2>4
      <3>2. \/ Contains(text(order[k]), "TS") /\ ~Contains(text(j), "TS")
            \/ (Contains(text(order[k]), "TS") <=> Contains(text(j), "TS")) /\ k <= m
        BY <1>11, <1>12, <2>2, <2>4
      <3> QED
        BY <2>3, <3>1, <3>2
    <2>5. CASE m \notin C
      <3>1. AllUpper(text(order[k])) /\ ~AllUpper(text(j))
        BY <1>9, <1>10, <1>11, <1>12, <2>1, <2>2, <2>5
      <3> QED
        BY <3>1
    <2> QED
      BY <2>4, <2>5
  <1> QED
    BY <1>10, <1>11, <1>12, <1>13

\* Before the first resume the text of a card gives the name in the largest letters, as
\* capitals and degrees allow (StringUtil.java:183-249, ResultActivity.java:162-167).
THEOREM NameOfLargest == Spec => []NameIsLargest
  <1>1. IInv => NameIsLargest
    <2> SUFFICES ASSUME IInv, isFirst, htmlResult # <<>> PROVE NameIsLargest
      BY DEF NameIsLargest
    <2>1. PICK page \in Pages : Head(htmlResult) = page
      BY DEF IInv, ListTypes
    <2>2. GetListLineFromXml(GetXMLText(page)) \in Seq(Lines)
      BY LineTypes
    <2> QED
      BY <2>1, <2>2, LargestName DEF NameIsLargest, CardLines
  <1> QED
    BY <1>1, Invariance, PTL

-----------------------------------------------------------------------------
(* Scanning a text for phone numbers: the digits D of the run at each      *)
(* place, and the phone numbers P of the runs that have ended.             *)

Glue == Digits \cup {"hyphen", "space", "o", "z"}
AddDigit(digits, sym) ==
    IF sym \in Glue THEN IF sym \in Digits THEN Append(digits, sym) ELSE digits ELSE <<>>
EndRun(phones, digits, sym) == IF sym \in Glue THEN phones ELSE phones \o Phone(digits)

RunsAlong(D, P, text) ==
    /\ D \in [0..Len(text) -> Seq(Digits)] /\ P \in [0..Len(text) -> Seq(Seq(Digits))]
    /\ D[0] = <<>> /\ P[0] = <<>>
    /\ \A n \in 1..Len(text) : /\ D[n] = AddDigit(D[n - 1], text[n])
                               /\ P[n] = EndRun(P[n - 1], D[n - 1], text[n])

Found(D, P, text) == P[Len(text)] \o Phone(D[Len(text)])

\* Plain goes along with concatenation.
LEMMA PlainConcat ==
    ASSUME NEW a \in Seq(Phones), NEW b \in Seq(Phones)
    PROVE  /\ Plain(a) \in Seq(Seq(Digits)) /\ Plain(a \o b) = Plain(a) \o Plain(b)
  <1>1. ASSUME NEW c \in Seq(Phones)
        PROVE  /\ Plain(c) \in Seq(Seq(Digits)) /\ Len(Plain(c)) = Len(c)
               /\ \A i \in 1..Len(c) : Plain(c)[i] = Kept(c[i], Digits)
    <2>1. Len(c) \in Nat /\ DOMAIN c = 1..Len(c)
      BY LenProperties
    <2>2. ASSUME NEW i \in 1..Len(c) PROVE Kept(c[i], Digits) \in Seq(Digits)
      <3>1. c[i] \in Seq(Digits \cup {"plus"})
        BY <2>1, ElementOfSeq DEF Phones
      <3>2. Kept(c[i], Digits) \in Seq((Digits \cup {"plus"}) \cap Digits)
        BY <3>1, KeptType
      <3> QED
        BY <3>2, SeqMonotonic
    <2>3. Plain(c) = [i \in 1..Len(c) |-> Kept(c[i], Digits)]
      BY <2>1 DEF Plain
    <2>4. Plain(c) \in [1..Len(c) -> Seq(Digits)]
      BY <2>2, <2>3
    <2>5. Plain(c) \in Seq(Seq(Digits))
      BY <2>1, <2>4, SeqDef
    <2>6. Len(Plain(c)) = Len(c)
      BY <2>1, <2>4
    <2> QED
      BY <2>3, <2>5, <2>6
  <1>2. PICK x, y \in Nat : x = Len(a) /\ y = Len(b)
    BY LenProperties
  <1>3. a \o b \in Seq(Phones) /\ Len(a \o b) = x + y
    BY <1>2, ConcatProperties
  <1>4. PICK p, q \in Seq(Seq(Digits)) : p = Plain(a) /\ q = Plain(b) /\ Len(p) = x /\ Len(q) = y
    BY <1>1, <1>2
  <1>5. ASSUME NEW i \in 1..(x + y) PROVE Plain(a \o b)[i] = (p \o q)[i]
    <2>1. Plain(a \o b)[i] = Kept((a \o b)[i], Digits)
      BY <1>1, <1>3
    <2>2. CASE i <= x
      <3>1. i \in 1..x /\ (a \o b)[i] = a[i] /\ (p \o q)[i] = p[i]
        BY <1>2, <1>4, <2>2, ConcatProperties
      <3> QED
        BY <1>1, <1>2, <1>4, <2>1, <3>1
    <2>3. CASE ~(i <= x)
      <3>1. i - x \in 1..y
        BY <2>3
      <3>2. (a \o b)[i] = b[i - x] /\ (p \o q)[i] = q[i - x]
        BY <1>2, <1>4, <2>3, ConcatProperties
      <3> QED
        BY <1>1, <1>2, <1>4, <2>1, <3>1, <3>2
    <2> QED
      BY <2>2, <2>3
  <1>6. Plain(a \o b) = Plain(a) \o Plain(b)
    <2>1. Plain(a \o b) \in Seq(Seq(Digits)) /\ Len(Plain(a \o b)) = x + y
      BY <1>1, <1>3
    <2>2. p \o q \in Seq(Seq(Digits)) /\ Len(p \o q) = Len(p) + Len(q)
      BY ConcatProperties
    <2>3. Len(p \o q) = x + y
      BY <1>4, <2>2
    <2> QED
      BY <1>4, <1>5, <2>1, <2>2, <2>3, SeqEqual
  <1> QED
    BY <1>1, <1>6

\* Short runs are no phone numbers.
LEMMA NoPhone == Phone(<<>>) = <<>> /\ Phone(<<"two">>) = <<>>
  <1>1. Chars(<<>>) = 0
    <2> DEFINE Rec(f) == f = [n \in 0..Len(<<>>) |->
                                 IF n = 0 THEN 0
                                 ELSE f[n - 1] + (IF <<>>[n] = "space" THEN 0 ELSE Width(<<>>[n]))]
               c == CHOOSE f : Rec(f)
    <2>1. Rec([n \in 0..0 |-> 0])
      OBVIOUS
    <2>2. Rec(c)
      BY <2>1
    <2>3. Chars(<<>>) = c[0]
      BY DEF Chars
    <2> QED
      BY <2>2, <2>3
  <1>2. Chars(<<"two">>) = 2
    <2> DEFINE t == <<"two">>
               Rec(f) == f = [n \in 0..Len(t) |->
                                 IF n = 0 THEN 0
                                 ELSE f[n - 1] + (IF t[n] = "space" THEN 0 ELSE Width(t[n]))]
               c == CHOOSE f : Rec(f)
    <2>1. Width("two") = 2 /\ Len(t) = 1 /\ t[1] = "two"
      <3>1. Width("two") = 2
        BY DEF Width, Surnames
      <3>2. Len(t) = 1 /\ t[1] = "two"
        OBVIOUS
      <3> QED
        BY <3>1, <3>2
    <2>2. Chars(t) = c[1]
      BY <2>1 DEF Chars
    <2> HIDE DEF t
    <2>3. Rec([n \in 0..1 |-> IF n = 0 THEN 0 ELSE 2])
      BY <2>1
    <2>4. Rec(c)
      BY <2>3
    <2> HIDE DEF c
    <2>5. c[0] = 0 /\ c[1] = c[0] + 2
      BY <2>1, <2>4
    <2> QED
      BY <2>2, <2>5 DEF t
  <1> QED
    BY <1>1, <1>2 DEF Phone

\* What extractPhone finds are the runs of its text: trimString and the characters
\* that it drops take nothing away.
LEMMA CardRuns ==
    ASSUME NEW input \in Texts
    PROVE  \E D, P : RunsAlong(D, P, input) /\ Plain(ExtractPhone(input)) = Found(D, P, input)
  <1>1. PICK N \in Nat : /\ N = Len(input) /\ DOMAIN input = 1..N
                         /\ \A n \in 1..N : input[n] \in Symbols
    BY ElementOfSeq, LenProperties DEF Texts
  <1> DEFINE Slashed(sym) == IF sym = "newline" THEN "slash" ELSE sym
             slashed == [i \in DOMAIN input |-> Slashed(input[i])]
             T == Range(slashed) \ {"space", "z"}
  <1>2. /\ slashed \in Texts /\ Len(slashed) = N
        /\ \A n \in 1..N : slashed[n] = Slashed(input[n]) /\ slashed[n] \in Symbols
    <2>1. \A sym \in Symbols : Slashed(sym) \in Symbols
      BY DEF Symbols
    <2>2. slashed \in [1..N -> Symbols]
      BY <1>1, <2>1
    <2>3. slashed \in Texts
      BY <2>2, SeqDef DEF Texts
    <2>4. Len(slashed) = N
      BY <2>2, <2>3 DEF Texts
    <2> QED
      BY <1>1, <2>2, <2>3, <2>4
  <1>3. \A n \in 1..N : slashed[n] \in T <=> Slashed(input[n]) \notin {"space", "z"}
    BY <1>1, <1>2 DEF Range
  <1>4. TrimString(input) = Kept(slashed, T)
    BY DEF TrimString
  <1> HIDE DEF slashed, T
  <1>5. PICK k \in [0..N -> Texts] : KeptAlong(k, slashed, T)
    <2>1. PICK k \in [0..Len(slashed) -> Seq(Symbols \cap T)] : KeptAlong(k, slashed, T)
      BY <1>2, KeptSteps DEF Texts
    <2>2. \A n \in 0..N : k[n] \in Seq(Symbols)
      <3>1. \A n \in 0..N : k[n] \in Seq(Symbols \cap T)
        BY <1>2, <2>1
      <3> QED
        BY <3>1, SeqMonotonic
    <2>3. k \in [0..N -> Texts]
      BY <1>2, <2>1, <2>2 DEF Texts
    <2> QED
      BY <2>1, <2>3
  <1>6. PICK text \in Texts : text = TrimString(input)
    BY TrimType
  <1>7. k[0] = <<>> /\ k[N] = text
    BY <1>2, <1>4, <1>5, <1>6 DEF KeptAlong
  <1>8. \A n \in 1..N : k[n] = IF slashed[n] \in T THEN Append(k[n - 1], slashed[n]) ELSE k[n - 1]
    BY <1>2, <1>5 DEF KeptAlong
  <1>9. ASSUME NEW n \in 1..N
        PROVE  /\ n - 1 \in 0..N /\ n \in 0..N /\ k[n - 1] \in Texts /\ Len(k[n - 1]) \in Nat
               /\ IF slashed[n] \in T
                  THEN /\ k[n] = Append(k[n - 1], slashed[n]) /\ Len(k[n]) = Len(k[n - 1]) + 1
                       /\ k[n][Len(k[n])] = slashed[n]
                  ELSE k[n] = k[n - 1]
               /\ Within(k[n - 1], k[n])
    <2>1. n - 1 \in 0..N /\ n \in 0..N /\ k[n - 1] \in Texts /\ Len(k[n - 1]) \in Nat
      BY LenProperties DEF Texts
    <2>2. CASE slashed[n] \in T
      <3>1. k[n] = Append(k[n - 1], slashed[n]) /\ slashed[n] \in Symbols
        BY <1>2, <1>8, <2>2
      <3>2. /\ Len(k[n]) = Len(k[n - 1]) + 1 /\ k[n][Len(k[n - 1]) + 1] = slashed[n]
            /\ \A i \in 1..Len(k[n - 1]) : k[n][i] = k[n - 1][i]
        BY <2>1, <3>1, AppendProperties DEF Texts
      <3>3. Within(k[n - 1], k[n])
        BY <2>1, <3>2 DEF Within
      <3> QED
        BY <2>1, <2>2, <3>1, <3>2, <3>3
    <2>3. CASE slashed[n] \notin T
      <3>1. k[n] = k[n - 1]
        BY <1>8, <2>3
      <3>2. Within(k[n - 1], k[n])
        BY <2>1, <3>1 DEF Within
      <3> QED
        BY <2>1, <2>3, <3>1, <3>2
    <2> QED
      BY <2>2, <2>3
  <1>10. \A n \in 0..N : Within(k[n], text)
    <2>1. \A n \in 1..N : Within(k[n - 1], k[n])
      BY <1>9
    <2>2. k \in [0..N -> Seq(Symbols)]
      BY DEF Texts
    <2> QED
      BY <1>7, <2>1, <2>2, GrowsWithin
  <1>11. PICK M \in Nat : M = Len(text)
    BY LenProperties DEF Texts
  <1>12. PICK f \in [0..M -> Scanned] : ScanAlong(f, input)
    BY <1>6, <1>11, ScanSteps
  <1>13. /\ f[0] = Start /\ \A n \in 1..M : f[n] = After(f[n - 1], text[n])
         /\ ExtractPhone(input) = f[M].phones \o TryConvertToPhone(f[M].current, f[M].hasPlus)
    BY <1>6, <1>11, <1>12 DEF ScanAlong
  <1>14. PICK m \in [0..N -> 0..M] : \A n \in 0..N : m[n] = Len(k[n])
    <2> DEFINE c == [n \in 0..N |-> Len(k[n])]
    <2>1. \A n \in 0..N : Len(k[n]) \in 0..M
      <3>1. \A n \in 0..N : Len(k[n]) \in Nat
        BY LenProperties DEF Texts
      <3> QED
        BY <1>10, <1>11, <3>1 DEF Within
    <2>2. c \in [0..N -> 0..M] /\ \A n \in 0..N : c[n] = Len(k[n])
      BY <2>1
    <2> QED
      BY <2>2
  <1>15. \A n \in 0..N : /\ f[m[n]].phones \in Seq(Phones) /\ f[m[n]].current \in Texts
                         /\ f[m[n]].hasPlus \in BOOLEAN
    <2>1. \A n \in 0..N : f[m[n]] \in Scanned
      BY <1>12, <1>14
    <2> QED
      BY <2>1 DEF Scanned
  <1> DEFINE D == [n \in 0..N |-> Kept(f[m[n]].current, Digits)]
             P == [n \in 0..N |-> Plain(f[m[n]].phones)]
  <1>16. D \in [0..N -> Seq(Digits)] /\ P \in [0..N -> Seq(Seq(Digits))]
    <2>1. \A n \in 0..N : Kept(f[m[n]].current, Digits) \in Seq(Digits)
      <3>1. \A n \in 0..N : Kept(f[m[n]].current, Digits) \in Seq(Symbols \cap Digits)
        BY <1>15, KeptType DEF Texts
      <3> QED
        BY <3>1, SeqMonotonic
    <2>2. \A n \in 0..N : Plain(f[m[n]].phones) \in Seq(Seq(Digits))
      BY <1>15, PlainConcat
    <2> QED
      BY <2>1, <2>2
  <1>17. D[0] = <<>> /\ P[0] = <<>>
    <2>1. m[0] = 0 /\ 0 \in 0..N
      BY <1>7, <1>14
    <2>2. f[m[0]].current = <<>> /\ f[m[0]].phones = <<>>
      BY <1>13, <2>1 DEF Start
    <2>3. Kept(<<>>, Digits) = <<>> /\ Plain(<<>>) = <<>>
      <3>1. Kept(<<>>, Digits) = <<>>
        BY EmptySeq, KeptAll
      <3>2. Plain(<<>>) = <<>>
        BY DEF Plain
      <3> QED
        BY <3>1, <3>2
    <2> QED
      BY <2>1, <2>2, <2>3
  <1>18. ASSUME NEW n \in 1..N
         PROVE  /\ D[n] = AddDigit(D[n - 1], input[n])
                /\ P[n] = EndRun(P[n - 1], D[n - 1], input[n])
    <2>1. n - 1 \in 0..N /\ n \in 0..N /\ input[n] \in Symbols /\ slashed[n] = Slashed(input[n])
      BY <1>1, <1>2, <1>9
    <2>2. PICK acc : /\ acc = f[m[n - 1]] /\ acc.phones \in Seq(Phones) /\ acc.current \in Texts
                     /\ acc.hasPlus \in BOOLEAN /\ acc \in Scanned
      BY <1>12, <1>14, <1>15, <2>1
    <2>3. D[n - 1] = Kept(acc.current, Digits) /\ P[n - 1] = Plain(acc.phones)
      BY <2>1, <2>2
    <2>4. D[n] = Kept(f[m[n]].current, Digits) /\ P[n] = Plain(f[m[n]].phones)
      BY <2>1
    <2> HIDE DEF D, P
    <2>5. CASE slashed[n] \notin T
      <3>1. m[n] = m[n - 1]
        BY <1>9, <1>14, <2>1, <2>5
      <3>2. input[n] \in {"space", "z"}
        BY <1>3, <2>1, <2>5
      <3>3. input[n] \in Glue \ Digits
        BY <3>2 DEF Glue, Digits
      <3> QED
        BY <2>2, <2>3, <2>4, <3>1, <3>3 DEF AddDigit, EndRun
    <2>6. CASE slashed[n] \in T
      <3>1. m[n] = m[n - 1] + 1 /\ text[m[n]] = slashed[n] /\ m[n] \in 1..M
        <4>1. Len(k[n]) = Len(k[n - 1]) + 1 /\ k[n][Len(k[n])] = slashed[n] /\ Len(k[n - 1]) \in Nat
          BY <1>9, <2>6
        <4>2. m[n] = m[n - 1] + 1 /\ m[n] \in 1..M
          BY <1>14, <2>1, <4>1
        <4>3. text[Len(k[n])] = k[n][Len(k[n])]
          <5>1. Len(k[n]) \in 1..Len(k[n])
            BY <4>1
          <5> QED
            BY <1>10, <2>1, <5>1 DEF Within
        <4> QED
          BY <1>14, <2>1, <4>1, <4>2, <4>3
      <3>2. f[m[n]] = After(acc, slashed[n])
        <4>1. m[n] - 1 = m[n - 1]
          BY <1>14, <2>1, <3>1
        <4> QED
          BY <1>13, <2>2, <3>1, <4>1
      <3>3. Slashed(input[n]) \notin {"space", "z"}
        BY <1>3, <2>6
      <3>4. CASE IsPhoneChar(slashed[n])
        <4>1. slashed[n] = input[n] /\ input[n] \in Glue
          BY <2>1, <3>4 DEF IsPhoneChar, Glue, Digits
        <4>2. f[m[n]].current = Append(acc.current, input[n]) /\ f[m[n]].phones = acc.phones
          BY <2>2, <3>2, <3>4, <4>1 DEF After, Scanned
        <4>3. D[n] = IF input[n] \in Digits THEN Append(D[n - 1], input[n]) ELSE D[n - 1]
          <5>1. acc.current \in Seq(Symbols) /\ input[n] \in Symbols
            BY <2>1, <2>2 DEF Texts
          <5>2. /\ input[n] \in Digits => Kept(Append(acc.current, input[n]), Digits)
                                            = Append(Kept(acc.current, Digits), input[n])
                /\ input[n] \notin Digits => Kept(Append(acc.current, input[n]), Digits)
                                               = Kept(acc.current, Digits)
            BY <5>1, KeptAppend, ZenonT(30)
          <5> QED
            BY <2>3, <2>4, <4>2, <5>2
        <4> QED
          BY <2>3, <2>4, <4>1, <4>2, <4>3 DEF AddDigit, EndRun
      <3>5. CASE ~IsPhoneChar(slashed[n])
        <4>1. input[n] \notin Glue
          BY <2>1, <3>3, <3>5 DEF IsPhoneChar, Glue, Digits
        <4>2. /\ f[m[n]].current = <<>>
              /\ f[m[n]].phones = acc.phones \o TryConvertToPhone(acc.current, acc.hasPlus)
          <5>1. PICK ps : ps = acc.phones \o TryConvertToPhone(acc.current, acc.hasPlus)
            OBVIOUS
          <5>2. PICK plus, next : /\ next = f[m[n]]
                                  /\ next = [phones |-> ps, current |-> <<>>, hasPlus |-> plus]
            BY <3>2, <3>5, <5>1 DEF After
          <5>3. next.current = <<>> /\ next.phones = ps
            BY <5>2
          <5> QED
            BY <5>1, <5>2, <5>3
        <4>3. /\ TryConvertToPhone(acc.current, acc.hasPlus) \in Seq(Phones)
              /\ Plain(TryConvertToPhone(acc.current, acc.hasPlus)) = Phone(D[n - 1])
          BY <2>2, <2>3, PhoneFacts DEF Texts
        <4>4. P[n] = P[n - 1] \o Phone(D[n - 1])
          BY <2>2, <2>3, <2>4, <4>2, <4>3, PlainConcat
        <4>5. Kept(<<>>, Digits) = <<>>
          BY EmptySeq, KeptAll
        <4> QED
          BY <2>4, <4>1, <4>2, <4>4, <4>5 DEF AddDigit, EndRun
      <3> QED
        BY <3>4, <3>5
    <2> QED
      BY <2>5, <2>6
  <1>19. RunsAlong(D, P, input)
    <2> HIDE DEF D, P
    <2> QED
      BY <1>1, <1>16, <1>17, <1>18 DEF RunsAlong
  <1>20. Plain(ExtractPhone(input)) = P[N] \o Phone(D[N])
    <2>1. N \in 0..N /\ m[N] = M
      BY <1>7, <1>11, <1>14
    <2>2. D[N] = Kept(f[M].current, Digits) /\ P[N] = Plain(f[M].phones)
      BY <2>1
    <2>3. f[M].phones \in Seq(Phones) /\ f[M].current \in Texts /\ f[M].hasPlus \in BOOLEAN
      BY <1>15, <2>1
    <2> HIDE DEF D, P
    <2>4. /\ TryConvertToPhone(f[M].current, f[M].hasPlus) \in Seq(Phones)
          /\ Plain(TryConvertToPhone(f[M].current, f[M].hasPlus)) = Phone(D[N])
      BY <2>2, <2>3, PhoneFacts DEF Texts
    <2> QED
      BY <1>13, <2>2, <2>3, <2>4, PlainConcat
  <1> HIDE DEF D, P
  <1> QED
    BY <1>1, <1>19, <1>20 DEF Found

-----------------------------------------------------------------------------
(* The runs that PhonesOf looks for are those of the scan. *)

GluedAt(text, i) == i \in DOMAIN text /\ text[i] \in Glue
FirstOf(text, e) ==
    CHOOSE b \in 1..e : (\A i \in b..e : GluedAt(text, i)) /\ ~GluedAt(text, b - 1)
RunDigits(text, e) == Kept(SubSeq(text, FirstOf(text, e), e), Digits)
Part(text, e) ==
    IF GluedAt(text, e) /\ ~GluedAt(text, e + 1) /\ Chars(RunDigits(text, e)) > 7
    THEN <<RunDigits(text, e)>> ELSE <<>>

\* A run has one first place.
LEMMA RunStart ==
    ASSUME NEW text \in Texts, NEW e \in 1..Len(text), GluedAt(text, e)
    PROVE  /\ FirstOf(text, e) \in 1..e
           /\ \A i \in FirstOf(text, e)..e : GluedAt(text, i)
           /\ ~GluedAt(text, FirstOf(text, e) - 1)
           /\ \A b \in 1..e : (\A i \in b..e : GluedAt(text, i)) /\ ~GluedAt(text, b - 1)
                                 => b = FirstOf(text, e)
  <1>1. PICK N \in Nat : N = Len(text) /\ DOMAIN text = 1..N
    BY LenProperties DEF Texts
  <1>2. e \in 1..N
    BY <1>1
  <1> DEFINE Starts == {b \in 1..e : \A i \in b..e : GluedAt(text, i)}
             Is(b) == (\A i \in b..e : GluedAt(text, i)) /\ ~GluedAt(text, b - 1)
  <1>3. \E b \in 1..e : Is(b)
    <2>1. e \in Starts /\ Starts \subseteq Nat
      BY <1>2
    <2> HIDE DEF Starts
    <2>2. PICK b \in Starts : \A c \in Starts : b <= c
      BY <2>1, Least
    <2>3. b \in 1..e /\ \A i \in b..e : GluedAt(text, i)
      BY <2>2 DEF Starts
    <2>4. ~GluedAt(text, b - 1)
      <3> SUFFICES ASSUME GluedAt(text, b - 1) PROVE FALSE
        OBVIOUS
      <3>1. b - 1 \in 1..e
        BY <1>1, <1>2, <2>3 DEF GluedAt
      <3>2. \A i \in (b - 1)..e : i = b - 1 \/ i \in b..e
        BY <1>2, <2>3
      <3>3. b - 1 \in Starts
        BY <2>3, <3>1, <3>2 DEF Starts
      <3> QED
        BY <2>2, <2>3, <3>3
    <2> QED
      BY <2>3, <2>4
  <1>4. ASSUME NEW b \in 1..e, NEW c \in 1..e, Is(b), Is(c)
        PROVE  ~(b < c)
    <2> SUFFICES ASSUME b < c PROVE FALSE
      OBVIOUS
    <2>1. c - 1 \in b..e
      BY <1>2
    <2> QED
      BY <1>4, <2>1
  <1>5. FirstOf(text, e) \in 1..e /\ Is(FirstOf(text, e))
    <2>1. FirstOf(text, e) = CHOOSE b \in 1..e : Is(b)
      BY DEF FirstOf
    <2> HIDE DEF Is
    <2> QED
      BY <1>3, <2>1
  <1>6. ASSUME NEW b \in 1..e, Is(b) PROVE b = FirstOf(text, e)
    <2> HIDE DEF Is
    <2> PICK a \in 1..e : a = FirstOf(text, e) /\ Is(a)
      BY <1>5
    <2>1. ~(a < b) /\ ~(b < a)
      BY <1>4, <1>6
    <2> QED
      BY <1>2, <2>1
  <1> QED
    BY <1>5, <1>6

\* Its digits grow with the run.
LEMMA RunGrows ==
    ASSUME NEW text \in Texts, NEW e \in 1..Len(text), GluedAt(text, e)
    PROVE  /\ RunDigits(text, e) \in Seq(Digits)
           /\ GluedAt(text, e - 1) =>
                 RunDigits(text, e) = AddDigit(RunDigits(text, e - 1), text[e])
           /\ ~GluedAt(text, e - 1) => RunDigits(text, e) = AddDigit(<<>>, text[e])
  <1>1. PICK N \in Nat : /\ N = Len(text) /\ DOMAIN text = 1..N
                         /\ \A i \in 1..N : text[i] \in Symbols
    BY ElementOfSeq, LenProperties DEF Texts
  <1>2. e \in 1..N /\ text[e] \in Glue
    BY <1>1 DEF GluedAt
  <1>3. PICK a \in 1..e : /\ a = FirstOf(text, e) /\ (\A i \in a..e : GluedAt(text, i))
                          /\ ~GluedAt(text, a - 1)
    BY RunStart
  <1>4. ASSUME NEW b \in 1..N, NEW c \in 0..N, b <= c + 1
        PROVE  /\ SubSeq(text, b, c) \in Seq(Symbols)
               /\ c < e /\ c = e - 1 => SubSeq(text, b, e) = Append(SubSeq(text, b, c), text[e])
    <2>1. SubSeq(text, b, c) \in Seq(Symbols)
      <3>1. \A i \in b..c : text[i] \in Symbols
        BY <1>1
      <3> QED
        BY <3>1, SubSeqProperties
    <2>2. ASSUME c = e - 1 PROVE SubSeq(text, b, e) = Append(SubSeq(text, b, c), text[e])
      <3>1. SubSeq(text, b, e) = SubSeq(text, b, e - 1) \o <<text[e]>>
        <4>1. b \in 1..Len(text) /\ e \in b..Len(text)
          BY <1>1, <1>2, <1>4, <2>2
        <4> QED
          BY <1>1, <4>1, SubSeqRecursiveSecond DEF Texts
      <3>2. Append(SubSeq(text, b, c), text[e]) = SubSeq(text, b, c) \o <<text[e]>>
        BY <1>1, <1>2, <2>1, AppendIsConcat
      <3> QED
        BY <2>2, <3>1, <3>2
    <2> QED
      BY <2>1, <2>2
  <1> DEFINE Run(c) == SubSeq(text, a, c)
  <1>5. /\ Run(e) \in Seq(Symbols) /\ Run(e - 1) \in Seq(Symbols)
        /\ Run(e) = Append(Run(e - 1), text[e]) /\ text[e] \in Symbols
    <2>1. a \in 1..N /\ e \in 0..N /\ e - 1 \in 0..N /\ a <= e + 1 /\ a <= (e - 1) + 1
      BY <1>2, <1>3
    <2>2. Run(e) \in Seq(Symbols) /\ Run(e - 1) \in Seq(Symbols)
      BY <1>4, <2>1
    <2>3. Run(e) = Append(Run(e - 1), text[e])
      <3>1. e - 1 < e
        BY <1>2
      <3> QED
        BY <1>4, <2>1, <3>1
    <2> QED
      BY <1>1, <1>2, <2>2, <2>3
  <1>6. RunDigits(text, e) = Kept(Run(e), Digits)
    BY <1>3 DEF RunDigits
  <1> DEFINE before == Kept(Run(e - 1), Digits)
  <1>7. RunDigits(text, e) = AddDigit(before, text[e])
    <2>1. /\ text[e] \in Digits => Kept(Append(Run(e - 1), text[e]), Digits)
                                      = Append(Kept(Run(e - 1), Digits), text[e])
          /\ text[e] \notin Digits => Kept(Append(Run(e - 1), text[e]), Digits)
                                         = Kept(Run(e - 1), Digits)
      <3> HIDE DEF Run
      <3> QED
        BY <1>5, KeptAppend
    <2> QED
      BY <1>2, <1>5, <1>6, <2>1 DEF AddDigit
  <1>8. RunDigits(text, e) \in Seq(Digits)
    <2>1. RunDigits(text, e) \in Seq(Symbols \cap Digits)
      BY <1>5, <1>6, KeptType
    <2> QED
      BY <2>1, SeqMonotonic
  <1>9. CASE GluedAt(text, e - 1)
    <2>1. e - 1 \in 1..N
      BY <1>1, <1>9 DEF GluedAt
    <2>2. a \in 1..(e - 1)
      <3>1. a # e
        BY <1>3, <1>9
      <3> QED
        BY <1>2, <1>3, <3>1
    <2>3. \A i \in a..(e - 1) : GluedAt(text, i)
      BY <1>2, <1>3
    <2>4. a = FirstOf(text, e - 1)
      <3>1. e - 1 \in 1..Len(text)
        BY <1>1, <2>1
      <3> QED
        BY <1>3, <1>9, <2>2, <2>3, <3>1, RunStart
    <2>5. before = RunDigits(text, e - 1)
      BY <2>4 DEF RunDigits
    <2> QED
      BY <1>7, <1>8, <1>9, <2>5
  <1>10. CASE ~GluedAt(text, e - 1)
    <2>1. \A i \in e..e : GluedAt(text, i)
      BY <1>2, <1>3
    <2>2. e \in 1..e
      BY <1>2
    <2>3. a = e
      BY <1>3, <1>10, <2>1, <2>2, RunStart
    <2>4. Run(e - 1) = <<>>
      <3>1. e - 1 < e
        BY <1>2
      <3> QED
        BY <2>3, <3>1, SubSeqEmpty, <1>2, <1>5, EmptySeq
    <2>5. before = <<>>
      BY <2>4, EmptySeq, KeptAll
    <2> QED
      BY <1>7, <1>8, <1>10, <2>5
  <1> QED
    BY <1>9, <1>10

LEMMA LineRuns ==
    ASSUME NEW text \in Texts
    PROVE  \E D, P : /\ RunsAlong(D, P, text) /\ PhonesOf(text) = Found(D, P, text)
                     /\ PhonesOf(text) \in Seq(Seq(Digits))
  <1>1. PICK N \in Nat : /\ N = Len(text) /\ DOMAIN text = 1..N
                         /\ \A i \in 1..N : text[i] \in Symbols
    BY ElementOfSeq, LenProperties DEF Texts
  <1> DEFINE parts == [e \in 1..N |-> Part(text, e)]
  <1>2. PhonesOf(text) = FlattenSeq(parts)
    <2>1. PhonesOf(text) = FlattenSeq([e \in 1..Len(text) |-> Part(text, e)])
      BY DEF PhonesOf, Part, RunDigits, FirstOf, GluedAt, Glue
    <2> QED
      BY <1>1, <2>1
  <1>3. ASSUME NEW e \in 1..N
        PROVE  /\ Part(text, e) \in Seq(Seq(Digits))
               /\ ~GluedAt(text, e) \/ GluedAt(text, e + 1) => Part(text, e) = <<>>
               /\ GluedAt(text, e) /\ ~GluedAt(text, e + 1) =>
                     Part(text, e) = Phone(RunDigits(text, e))
    <2>1. GluedAt(text, e) => RunDigits(text, e) \in Seq(Digits)
      BY <1>1, RunGrows
    <2>2. Part(text, e) \in Seq(Seq(Digits))
      <3>1. CASE GluedAt(text, e) /\ ~GluedAt(text, e + 1) /\ Chars(RunDigits(text, e)) > 7
        BY <2>1, <3>1 DEF Part
      <3>2. CASE ~(GluedAt(text, e) /\ ~GluedAt(text, e + 1) /\ Chars(RunDigits(text, e)) > 7)
        BY <3>2 DEF Part
      <3> QED
        BY <3>1, <3>2
    <2>3. ~GluedAt(text, e) \/ GluedAt(text, e + 1) => Part(text, e) = <<>>
      BY DEF Part
    <2>4. GluedAt(text, e) /\ ~GluedAt(text, e + 1) => Part(text, e) = Phone(RunDigits(text, e))
      BY DEF Part, Phone
    <2> QED
      BY <2>2, <2>3, <2>4
  <1>4. parts \in Seq(Seq(Seq(Digits))) /\ Len(parts) = N
    <2>1. parts \in [1..N -> Seq(Seq(Digits))]
      BY <1>3
    <2>2. parts \in Seq(Seq(Seq(Digits)))
      BY <2>1, SeqDef
    <2>3. Len(parts) = N
      BY <2>1, <2>2
    <2> QED
      BY <2>2, <2>3
  <1>5. \A e \in 1..N : parts[e] = Part(text, e)
    OBVIOUS
  <1> HIDE DEF parts
  <1>6. PICK g \in [0..N -> Seq(Seq(Digits))] : FlattenAlong(g, parts)
    BY <1>4, FlattenSteps
  <1>7. /\ g[0] = <<>> /\ PhonesOf(text) = g[N]
        /\ \A n \in 1..N : g[n] = g[n - 1] \o Part(text, n)
    BY <1>2, <1>4, <1>5, <1>6 DEF FlattenAlong
  <1> DEFINE digits(n) == IF GluedAt(text, n) THEN RunDigits(text, n) ELSE <<>>
             phones(n) == IF GluedAt(text, n) THEN g[n - 1] ELSE g[n]
             D == [n \in 0..N |-> digits(n)]
             P == [n \in 0..N |-> phones(n)]
  <1>8. ~GluedAt(text, 0)
    BY <1>1 DEF GluedAt
  <1>9. ASSUME NEW n \in 0..N
        PROVE  /\ digits(n) \in Seq(Digits) /\ phones(n) \in Seq(Seq(Digits))
               /\ GluedAt(text, n) => n \in 1..N /\ n - 1 \in 0..N
    <2>1. GluedAt(text, n) => n \in 1..N /\ n - 1 \in 0..N
      BY <1>1 DEF GluedAt
    <2>2. digits(n) \in Seq(Digits)
      BY <1>1, <2>1, RunGrows
    <2>3. phones(n) \in Seq(Seq(Digits))
      BY <1>6, <2>1
    <2> QED
      BY <2>1, <2>2, <2>3
  <1>10. D \in [0..N -> Seq(Digits)] /\ P \in [0..N -> Seq(Seq(Digits))]
    <2> HIDE DEF digits, phones
    <2> QED
      BY <1>9
  <1>11. \A n \in 0..N : D[n] = digits(n) /\ P[n] = phones(n)
    OBVIOUS
  <1>12. D[0] = <<>> /\ P[0] = <<>>
    BY <1>7, <1>8, <1>11
  <1> HIDE DEF D, P
  <1>13. Phone(<<>>) = <<>>
    BY NoPhone
  \* What P leaves out of g is the run that has not ended.
  <1>14. ASSUME NEW n \in 0..N
         PROVE  /\ GluedAt(text, n + 1) => P[n] = g[n]
                /\ ~GluedAt(text, n + 1) => P[n] \o Phone(D[n]) = g[n]
    <2>1. CASE GluedAt(text, n)
      <3>1. /\ n \in 1..N /\ n - 1 \in 0..N /\ P[n] = g[n - 1] /\ D[n] = RunDigits(text, n)
            /\ g[n - 1] \in Seq(Seq(Digits)) /\ g[n] = g[n - 1] \o Part(text, n)
        BY <1>6, <1>7, <1>9, <1>11, <2>1
      <3>2. GluedAt(text, n + 1) => Part(text, n) = <<>>
        BY <1>3, <3>1
      <3>3. ~GluedAt(text, n + 1) => Part(text, n) = Phone(D[n])
        BY <1>3, <2>1, <3>1
      <3>4. g[n - 1] \o <<>> = g[n - 1]
        BY <3>1, ConcatEmptySeq
      <3> QED
        BY <3>1, <3>2, <3>3, <3>4
    <2>2. CASE ~GluedAt(text, n)
      <3>1. P[n] = g[n] /\ D[n] = <<>> /\ g[n] \in Seq(Seq(Digits))
        BY <1>6, <1>11, <2>2
      <3>2. g[n] \o <<>> = g[n]
        BY <3>1, ConcatEmptySeq
      <3> QED
        BY <1>13, <3>1, <3>2
    <2> QED
      BY <2>1, <2>2
  <1>15. ASSUME NEW n \in 1..N
         PROVE  D[n] = AddDigit(D[n - 1], text[n]) /\ P[n] = EndRun(P[n - 1], D[n - 1], text[n])
    <2>1. n - 1 \in 0..N /\ n \in 0..N /\ (n - 1) + 1 = n
      OBVIOUS
    <2>2. GluedAt(text, n) <=> text[n] \in Glue
      BY <1>1 DEF GluedAt
    <2>3. CASE GluedAt(text, n)
      <3>1. D[n] = RunDigits(text, n) /\ P[n] = g[n - 1]
        BY <1>11, <2>1, <2>3
      <3>2. D[n - 1] = IF GluedAt(text, n - 1) THEN RunDigits(text, n - 1) ELSE <<>>
        BY <1>11, <2>1
      <3>3. RunDigits(text, n) = AddDigit(D[n - 1], text[n])
        BY <1>1, <2>3, <3>2, RunGrows
      <3>4. P[n - 1] = g[n - 1]
        BY <1>14, <2>1, <2>3
      <3> QED
        BY <2>2, <2>3, <3>1, <3>3, <3>4 DEF EndRun
    <2>4. CASE ~GluedAt(text, n)
      <3>1. D[n] = <<>> /\ P[n] = g[n]
        BY <1>11, <2>1, <2>4
      <3>2. g[n] = g[n - 1]
        <4>1. Part(text, n) = <<>> /\ g[n - 1] \in Seq(Seq(Digits))
          BY <1>3, <1>6, <2>1, <2>4
        <4>2. g[n - 1] \o <<>> = g[n - 1]
          BY <4>1, ConcatEmptySeq
        <4> QED
          BY <1>7, <4>1, <4>2
      <3>3. P[n - 1] \o Phone(D[n - 1]) = g[n - 1]
        BY <1>14, <2>1, <2>4
      <3> QED
        BY <2>2, <2>4, <3>1, <3>2, <3>3 DEF AddDigit, EndRun
    <2> QED
      BY <2>3, <2>4
  <1>16. RunsAlong(D, P, text)
    BY <1>1, <1>10, <1>12, <1>15 DEF RunsAlong
  <1>17. PhonesOf(text) = Found(D, P, text) /\ PhonesOf(text) \in Seq(Seq(Digits))
    <2>1. N \in 0..N /\ ~GluedAt(text, N + 1)
      BY <1>1 DEF GluedAt
    <2> QED
      BY <1>1, <1>6, <1>7, <1>14, <2>1 DEF Found
  <1> QED
    BY <1>16, <1>17

-----------------------------------------------------------------------------
(* The scan of a card goes from line to line.                              *)

LEMMA PhoneType ==
    ASSUME NEW digits \in Seq(Digits)
    PROVE  Phone(digits) \in Seq(Seq(Digits))
  BY DEF Phone

\* A run does not see what was found before it.
LEMMA EndRunBehind ==
    ASSUME NEW before \in Seq(Seq(Digits)), NEW phones \in Seq(Seq(Digits)),
           NEW digits \in Seq(Digits), NEW sym
    PROVE  EndRun(before \o phones, digits, sym) = before \o EndRun(phones, digits, sym)
  <1>1. Phone(digits) \in Seq(Seq(Digits))
    BY PhoneType
  <1>2. (before \o phones) \o Phone(digits) = before \o (phones \o Phone(digits))
    BY <1>1, ConcatAssociative, SMTT(30)
  <1> QED
    BY <1>2 DEF EndRun

\* The parts of two sequences, one behind the other.
Joined(c, a, b, m, n) ==
    /\ Len(c) = m + n
    /\ \A i \in 1..m : c[i] = a[i]
    /\ \A j \in 1..n : c[m + j] = b[j]

LEMMA ConcatParts ==
    ASSUME NEW S, NEW a \in Seq(S), NEW b \in Seq(S), NEW m, NEW n, Len(a) = m, Len(b) = n
    PROVE  a \o b \in Seq(S) /\ Joined(a \o b, a, b, m, n)
  <1>1. a \o b \in Seq(S) /\ Len(a \o b) = m + n /\ m \in Nat /\ n \in Nat
    BY ConcatProperties
  <1>2. ASSUME NEW i \in 1..m PROVE (a \o b)[i] = a[i]
    OBVIOUS
  <1>3. ASSUME NEW j \in 1..n PROVE (a \o b)[m + j] = b[j]
    OBVIOUS
  <1> QED
    BY <1>1, <1>2, <1>3 DEF Joined

\* What Utf8Result makes of a line.
LEMMA PrintedFacts ==
    ASSUME NEW line \in Lines
    PROVE  LET M == Len(line.text)
               s == Printed(line)
           IN /\ s \in Texts /\ Len(s) = M + 8
              /\ s[1] = "x" /\ s[2] = "colon" /\ s[3] = "space" /\ s[4] = "two" /\ s[5] = "colon"
              /\ s[6] = "space" /\ s[M + 7] = "newline" /\ s[M + 8] = "newline"
              /\ \A j \in 1..M : s[6 + j] = line.text[j]
  <1>1. PICK text \in Seq(Symbols) : text = line.text
    BY DEF Lines, Texts
  <1>2. PICK M \in Nat : M = Len(text)
    BY LenProperties
  <1> DEFINE head == <<"x", "colon", "space", "two", "colon", "space">>
             tail == <<"newline", "newline">>
  <1>3. /\ head \in Seq(Symbols) /\ Len(head) = 6 /\ head[1] = "x" /\ head[2] = "colon"
        /\ head[3] = "space" /\ head[4] = "two" /\ head[5] = "colon" /\ head[6] = "space"
    <2>1. head \in Seq(Symbols)
      BY DEF Symbols
    <2>2. Len(head) = 6
      OBVIOUS
    <2>3. head[1] = "x" /\ head[2] = "colon" /\ head[3] = "space"
      OBVIOUS
    <2>4. head[4] = "two" /\ head[5] = "colon" /\ head[6] = "space"
      OBVIOUS
    <2> HIDE DEF head
    <2> QED
      BY <2>1, <2>2, <2>3, <2>4
  <1>4. tail \in Seq(Symbols) /\ Len(tail) = 2 /\ tail[1] = "newline" /\ tail[2] = "newline"
    BY DEF Symbols
  <1>5. Printed(line) = (head \o text) \o tail
    <2>1. Printed(line) = head \o text \o tail
      BY <1>1 DEF Printed
    <2> HIDE DEF head, tail
    <2> QED
      BY <2>1, <1>3, <1>4, ConcatAssociative
  <1> HIDE DEF head, tail
  <1>6. PICK a \in Seq(Symbols) : a = head \o text /\ Joined(a, head, text, 6, M)
    <2>1. PICK h \in Seq(Symbols) : h = head /\ Len(h) = 6
      BY <1>3
    <2>2. h \o text \in Seq(Symbols) /\ Joined(h \o text, h, text, 6, M)
      BY <1>2, <2>1, ConcatParts
    <2> QED
      BY <2>1, <2>2
  <1>7. PICK s \in Seq(Symbols) : s = Printed(line) /\ Joined(s, a, tail, 6 + M, 2)
    <2>1. PICK t \in Seq(Symbols) : t = tail /\ Len(t) = 2
      BY <1>4
    <2>2. Len(a) = 6 + M
      BY <1>6 DEF Joined
    <2>3. a \o t \in Seq(Symbols) /\ Joined(a \o t, a, t, 6 + M, 2)
      BY <2>1, <2>2, ConcatParts
    <2> QED
      BY <1>5, <1>6, <2>1, <2>3
  <1>8. Len(s) = M + 8 /\ (6 + M) + 1 = M + 7 /\ (6 + M) + 2 = M + 8
    BY <1>2, <1>7 DEF Joined
  <1>9. \A i \in 1..6 : i \in 1..(6 + M)
    OBVIOUS
  <1>10. \A i \in 1..6 : s[i] = head[i]
    BY <1>6, <1>7, <1>9 DEF Joined
  <1>11. s[M + 7] = "newline" /\ s[M + 8] = "newline"
    BY <1>4, <1>7, <1>8 DEF Joined
  <1>12. ASSUME NEW j \in 1..M PROVE s[6 + j] = text[j]
    <2>1. 6 + j \in 1..(6 + M)
      OBVIOUS
    <2>2. s[6 + j] = a[6 + j]
      BY <1>7, <2>1 DEF Joined
    <2>3. a[6 + j] = text[j]
      BY <1>6 DEF Joined
    <2> QED
      BY <2>2, <2>3
  <1>13. /\ s[1] = "x" /\ s[2] = "colon" /\ s[3] = "space" /\ s[4] = "two" /\ s[5] = "colon"
         /\ s[6] = "space"
    BY <1>3, <1>10
  <1> QED
    BY <1>1, <1>2, <1>7, <1>8, <1>11, <1>12, <1>13 DEF Texts

\* The text U has the line, of R symbols, behind its first L symbols.
HasLine(U, line, L, R) ==
    /\ R = Len(Printed(line)) /\ L + R <= Len(U)
    /\ \A i \in 1..R : U[L + i] = Printed(line)[i]

\* The scan has crossed it, and found what it should.
Crossed(D, P, line, L, R) == D[L + R] = <<>> /\ P[L + R] = P[L] \o PhonesOf(line.text)

\* A scan that comes to a line with no digits in hand leaves it with none, and with the
\* phone numbers of its text.
LEMMA AcrossLine ==
    ASSUME NEW U \in Texts, NEW D, NEW P, RunsAlong(D, P, U),
           NEW line \in Lines, NEW L \in Nat, NEW R \in Nat,
           HasLine(U, line, L, R), D[L] = <<>>
    PROVE  Crossed(D, P, line, L, R)
  <1>1. PICK text \in Texts, M \in Nat : text = line.text /\ M = Len(text)
    BY LenProperties DEF Lines, Texts
  <1>2. PICK s \in Texts :
            /\ s = Printed(line) /\ Len(s) = M + 8
            /\ s[1] = "x" /\ s[2] = "colon" /\ s[3] = "space" /\ s[4] = "two" /\ s[5] = "colon"
            /\ s[6] = "space" /\ s[M + 7] = "newline" /\ s[M + 8] = "newline"
            /\ \A j \in 1..M : s[6 + j] = text[j]
    BY <1>1, PrintedFacts
  <1>3. PICK N \in Nat : N = Len(U)
    BY LenProperties DEF Texts
  <1>4. R = M + 8 /\ L + M + 8 <= N /\ L \in 0..N
    BY <1>2, <1>3 DEF HasLine
  <1>5. /\ D \in [0..N -> Seq(Digits)] /\ P \in [0..N -> Seq(Seq(Digits))]
        /\ \A n \in 1..N : /\ D[n] = AddDigit(D[n - 1], U[n])
                           /\ P[n] = EndRun(P[n - 1], D[n - 1], U[n])
    BY <1>3 DEF RunsAlong
  <1>6. ASSUME NEW i \in 1..(M + 8)
        PROVE  /\ L + i \in 1..N /\ L + i \in 0..N /\ (L + i) - 1 \in 0..N /\ U[L + i] = s[i]
               /\ D[L + i] = AddDigit(D[(L + i) - 1], s[i])
               /\ P[L + i] = EndRun(P[(L + i) - 1], D[(L + i) - 1], s[i])
    <2>1. L + i \in 1..N /\ L + i \in 0..N /\ (L + i) - 1 \in 0..N
      BY <1>4
    <2>2. U[L + i] = s[i]
      BY <1>2, <1>4 DEF HasLine
    <2> QED
      BY <1>5, <2>1, <2>2
  <1>7. PICK before \in Seq(Seq(Digits)) : before = P[L]
    BY <1>4, <1>5
  <1>8. /\ Phone(<<>>) = <<>> /\ Phone(<<"two">>) = <<>> /\ before \o <<>> = before
        /\ "two" \in Digits /\ "two" \in Glue /\ "space" \in Glue /\ "space" \notin Digits
        /\ "x" \notin Glue /\ "colon" \notin Glue /\ "newline" \notin Glue
    <2>1. before \o <<>> = before
      BY ConcatEmptySeq
    <2>2. /\ "two" \in Digits /\ "two" \in Glue /\ "space" \in Glue /\ "space" \notin Digits
          /\ "x" \notin Glue /\ "colon" \notin Glue /\ "newline" \notin Glue
      BY DEF Digits, Glue
    <2> QED
      BY <2>1, <2>2, NoPhone
  \* The size in front is no phone number.
  <1>9. D[L + 6] = <<>> /\ P[L + 6] = before
    <2>1. /\ D[L + 1] = AddDigit(D[L], "x") /\ P[L + 1] = EndRun(P[L], D[L], "x")
          /\ D[L + 2] = AddDigit(D[L + 1], "colon") /\ P[L + 2] = EndRun(P[L + 1], D[L + 1], "colon")
          /\ D[L + 3] = AddDigit(D[L + 2], "space") /\ P[L + 3] = EndRun(P[L + 2], D[L + 2], "space")
          /\ D[L + 4] = AddDigit(D[L + 3], "two") /\ P[L + 4] = EndRun(P[L + 3], D[L + 3], "two")
          /\ D[L + 5] = AddDigit(D[L + 4], "colon") /\ P[L + 5] = EndRun(P[L + 4], D[L + 4], "colon")
          /\ D[L + 6] = AddDigit(D[L + 5], "space") /\ P[L + 6] = EndRun(P[L + 5], D[L + 5], "space")
      <3>1. \A i \in 1..6 : i \in 1..(M + 8)
        OBVIOUS
      <3>2. /\ (L + 1) - 1 = L /\ (L + 2) - 1 = L + 1 /\ (L + 3) - 1 = L + 2 /\ (L + 4) - 1 = L + 3
            /\ (L + 5) - 1 = L + 4 /\ (L + 6) - 1 = L + 5
        OBVIOUS
      <3> QED
        BY <1>2, <1>6, <3>1, <3>2
    <2>2. D[L + 1] = <<>> /\ P[L + 1] = before
      BY <1>7, <1>8, <2>1 DEF AddDigit, EndRun
    <2>3. D[L + 2] = <<>> /\ P[L + 2] = before
      BY <1>8, <2>1, <2>2 DEF AddDigit, EndRun
    <2>4. D[L + 3] = <<>> /\ P[L + 3] = before
      BY <1>8, <2>1, <2>3 DEF AddDigit, EndRun
    <2>5. D[L + 4] = <<"two">> /\ P[L + 4] = before
      <3>1. Append(<<>>, "two") = <<"two">>
        OBVIOUS
      <3> QED
        BY <1>8, <2>1, <2>4, <3>1 DEF AddDigit, EndRun
    <2>6. D[L + 5] = <<>> /\ P[L + 5] = before
      BY <1>8, <2>1, <2>5 DEF AddDigit, EndRun
    <2> QED
      BY <1>8, <2>1, <2>6 DEF AddDigit, EndRun
  \* The scan of the text itself.
  <1>10. PICK d, p : /\ RunsAlong(d, p, text) /\ PhonesOf(text) = Found(d, p, text)
                     /\ PhonesOf(text) \in Seq(Seq(Digits))
    BY LineRuns
  <1>11. /\ d \in [0..M -> Seq(Digits)] /\ p \in [0..M -> Seq(Seq(Digits))]
         /\ d[0] = <<>> /\ p[0] = <<>>
         /\ \A j \in 1..M : /\ d[j] = AddDigit(d[j - 1], text[j])
                            /\ p[j] = EndRun(p[j - 1], d[j - 1], text[j])
    BY <1>1, <1>10 DEF RunsAlong
  <1> DEFINE W == L + 6
             Bad == {j \in 0..M : ~(D[W + j] = d[j] /\ P[W + j] = before \o p[j])}
  <1>12. Bad = {}
    <2> SUFFICES ASSUME Bad # {} PROVE FALSE
      OBVIOUS
    <2>1. Bad \subseteq Nat
      OBVIOUS
    <2> HIDE DEF Bad
    <2>2. PICK j \in Bad : \A i \in Bad : j <= i
      BY <2>1, Least
    <2>3. j \in 0..M /\ ~(D[W + j] = d[j] /\ P[W + j] = before \o p[j])
      BY <2>2 DEF Bad
    <2>4. j # 0
      <3> SUFFICES ASSUME j = 0 PROVE FALSE
        OBVIOUS
      <3>1. W + j = L + 6
        OBVIOUS
      <3> QED
        BY <1>8, <1>9, <1>11, <2>3, <3>1
    <2>5. j \in 1..M /\ j - 1 \in 0..M /\ 6 + j \in 1..(M + 8)
      BY <2>3, <2>4
    <2>6. j - 1 \notin Bad
      BY <2>2, <2>5
    <2>7. D[W + (j - 1)] = d[j - 1] /\ P[W + (j - 1)] = before \o p[j - 1]
      BY <2>5, <2>6 DEF Bad
    <2>8. /\ D[L + (6 + j)] = AddDigit(D[(L + (6 + j)) - 1], s[6 + j])
          /\ P[L + (6 + j)] = EndRun(P[(L + (6 + j)) - 1], D[(L + (6 + j)) - 1], s[6 + j])
      BY <1>6, <2>5
    <2>9. L + (6 + j) = W + j /\ (L + (6 + j)) - 1 = W + (j - 1) /\ s[6 + j] = text[j]
      BY <1>2, <2>5
    <2>10. D[W + j] = AddDigit(d[j - 1], text[j])
      BY <2>7, <2>8, <2>9
    <2>11. P[W + j] = EndRun(before \o p[j - 1], d[j - 1], text[j])
      BY <2>7, <2>8, <2>9
    <2>12. P[W + j] = before \o EndRun(p[j - 1], d[j - 1], text[j])
      <3>1. p[j - 1] \in Seq(Seq(Digits)) /\ d[j - 1] \in Seq(Digits)
        BY <1>11, <2>5
      <3>2. PICK a \in Seq(Seq(Digits)), b \in Seq(Digits) : a = p[j - 1] /\ b = d[j - 1]
        BY <3>1
      <3>3. EndRun(before \o a, b, text[j]) = before \o EndRun(a, b, text[j])
        BY EndRunBehind
      <3> QED
        BY <2>11, <3>2, <3>3
    <2> QED
      BY <1>11, <2>3, <2>5, <2>10, <2>12
  <1>13. D[W + M] = d[M] /\ P[W + M] = before \o p[M]
    <2>1. M \in 0..M
      OBVIOUS
    <2> QED
      BY <1>12, <2>1
  \* The newline ends its last run.
  <1>14. D[L + (M + 7)] = <<>> /\ P[L + (M + 7)] = before \o PhonesOf(text)
    <2>1. /\ D[L + (M + 7)] = AddDigit(D[(L + (M + 7)) - 1], "newline")
          /\ P[L + (M + 7)] = EndRun(P[(L + (M + 7)) - 1], D[(L + (M + 7)) - 1], "newline")
      <3>1. M + 7 \in 1..(M + 8)
        OBVIOUS
      <3> QED
        BY <1>2, <1>6, <3>1
    <2>2. (L + (M + 7)) - 1 = W + M
      OBVIOUS
    <2>3. D[L + (M + 7)] = <<>> /\ P[L + (M + 7)] = EndRun(before \o p[M], d[M], "newline")
      BY <1>8, <1>13, <2>1, <2>2 DEF AddDigit
    <2>4. p[M] \in Seq(Seq(Digits)) /\ d[M] \in Seq(Digits)
      BY <1>11
    <2>5. EndRun(before \o p[M], d[M], "newline") = before \o EndRun(p[M], d[M], "newline")
      <3>1. PICK a \in Seq(Seq(Digits)), b \in Seq(Digits) : a = p[M] /\ b = d[M]
        BY <2>4
      <3>2. EndRun(before \o a, b, "newline") = before \o EndRun(a, b, "newline")
        BY EndRunBehind
      <3> QED
        BY <3>1, <3>2
    <2>6. EndRun(p[M], d[M], "newline") = PhonesOf(text)
      BY <1>1, <1>8, <1>10 DEF EndRun, Found
    <2> QED
      BY <2>3, <2>5, <2>6
  <1>15. D[L + (M + 8)] = <<>> /\ P[L + (M + 8)] = before \o PhonesOf(text)
    <2>1. /\ D[L + (M + 8)] = AddDigit(D[(L + (M + 8)) - 1], "newline")
          /\ P[L + (M + 8)] = EndRun(P[(L + (M + 8)) - 1], D[(L + (M + 8)) - 1], "newline")
      <3>1. M + 8 \in 1..(M + 8)
        OBVIOUS
      <3> QED
        BY <1>2, <1>6, <3>1
    <2>2. (L + (M + 8)) - 1 = L + (M + 7)
      OBVIOUS
    <2>3. (before \o PhonesOf(text)) \o <<>> = before \o PhonesOf(text)
      <3>1. before \o PhonesOf(text) \in Seq(Seq(Digits))
        BY <1>10, ConcatProperties
      <3> QED
        BY <3>1, ConcatEmptySeq
    <2> QED
      BY <1>8, <1>14, <2>1, <2>2, <2>3 DEF AddDigit, EndRun
  <1> QED
    BY <1>1, <1>4, <1>7, <1>15 DEF Crossed

\* The phone numbers of a card are those of its lines.
LEMMA CardPhones ==
    ASSUME NEW card \in Seq(Lines), Utf8Result(card) \in Texts
    PROVE  Plain(ExtractPhone(Utf8Result(card)))
              = FlattenSeq([i \in DOMAIN card |-> PhonesOf(card[i].text)])
  <1>1. PICK K \in Nat : DOMAIN card = 1..K /\ \A i \in 1..K : card[i] \in Lines
    BY LenProperties, ElementOfSeq
  <1>2. PICK U \in Texts : U = Utf8Result(card)
    OBVIOUS
  <1> DEFINE printed == [i \in 1..K |-> Printed(card[i])]
             found == [i \in 1..K |-> PhonesOf(card[i].text)]
  <1>3. ASSUME NEW i \in 1..K
        PROVE  /\ printed[i] = Printed(card[i]) /\ found[i] = PhonesOf(card[i].text)
               /\ Printed(card[i]) \in Seq(Symbols) /\ PhonesOf(card[i].text) \in Seq(Seq(Digits))
    <2>1. card[i] \in Lines /\ card[i].text \in Texts
      BY <1>1 DEF Lines
    <2>2. Printed(card[i]) \in Seq(Symbols)
      BY <2>1, PrintedFacts DEF Texts
    <2>3. PhonesOf(card[i].text) \in Seq(Seq(Digits))
      BY <2>1, LineRuns
    <2> QED
      BY <2>2, <2>3
  <1>4. printed \in Seq(Seq(Symbols)) /\ Len(printed) = K
    <2>1. printed \in [1..K -> Seq(Symbols)]
      BY <1>3
    <2>2. printed \in Seq(Seq(Symbols))
      BY <2>1, SeqDef
    <2> QED
      BY <2>1, <2>2
  <1>5. found \in Seq(Seq(Seq(Digits))) /\ Len(found) = K
    <2>1. found \in [1..K -> Seq(Seq(Digits))]
      BY <1>3
    <2>2. found \in Seq(Seq(Seq(Digits)))
      BY <2>1, SeqDef
    <2> QED
      BY <2>1, <2>2
  <1>6. U = FlattenSeq(printed)
    BY <1>1, <1>2 DEF Utf8Result
  <1>7. [i \in DOMAIN card |-> PhonesOf(card[i].text)] = found
    BY <1>1
  <1> HIDE DEF printed, found
  <1>8. PICK g \in [0..K -> Seq(Symbols)] : FlattenAlong(g, printed)
    BY <1>4, FlattenSteps
  <1>9. PICK q \in [0..K -> Seq(Seq(Digits))] : FlattenAlong(q, found)
    BY <1>5, FlattenSteps
  <1>10. /\ g[0] = <<>> /\ U = g[K]
         /\ \A i \in 1..K : g[i] = g[i - 1] \o Printed(card[i])
    BY <1>3, <1>4, <1>6, <1>8 DEF FlattenAlong
  <1>11. /\ q[0] = <<>> /\ FlattenSeq(found) = q[K]
         /\ \A i \in 1..K : q[i] = q[i - 1] \o PhonesOf(card[i].text)
    BY <1>3, <1>5, <1>9 DEF FlattenAlong
  <1>12. PICK D, P : RunsAlong(D, P, U) /\ Plain(ExtractPhone(U)) = Found(D, P, U)
    BY CardRuns
  <1>13. ASSUME NEW i \in 1..K
         PROVE  /\ i - 1 \in 0..K /\ i \in 0..K
                /\ Joined(g[i], g[i - 1], Printed(card[i]), Len(g[i - 1]), Len(Printed(card[i])))
                /\ Len(g[i - 1]) \in Nat /\ Len(Printed(card[i])) \in Nat
    <2>1. i - 1 \in 0..K /\ i \in 0..K
      OBVIOUS
    <2>2. PICK a, b \in Seq(Symbols) : a = g[i - 1] /\ b = Printed(card[i])
      BY <1>3, <1>8, <2>1
    <2>3. Joined(a \o b, a, b, Len(a), Len(b))
      BY ConcatParts
    <2>4. Len(a) \in Nat /\ Len(b) \in Nat
      BY LenProperties
    <2> QED
      BY <1>10, <2>1, <2>2, <2>3, <2>4
  <1>14. \A i \in 0..K : Within(g[i], U)
    <2>1. ASSUME NEW i \in 1..K PROVE Within(g[i - 1], g[i])
      <3>1. PICK L, M \in Nat : L = Len(g[i - 1]) /\ M = Len(Printed(card[i]))
        BY <1>13
      <3>2. Joined(g[i], g[i - 1], Printed(card[i]), L, M)
        BY <1>13, <3>1
      <3>3. Len(g[i]) = L + M
        BY <3>2 DEF Joined
      <3>4. \A j \in 1..L : g[i][j] = g[i - 1][j]
        BY <3>2 DEF Joined
      <3>5. QED
        <4>1. PICK X \in Nat : X = Len(g[i]) /\ X = L + M
          BY <3>3
        <4>2. L <= X
          BY <4>1
        <4> QED
          BY <3>1, <3>4, <4>1, <4>2 DEF Within
    <2> QED
      BY <1>8, <1>10, <2>1, GrowsWithin
  <1>15. PICK m \in [0..K -> Nat] : \A i \in 0..K : m[i] = Len(g[i])
    <2> DEFINE c == [i \in 0..K |-> Len(g[i])]
    <2>1. \A i \in 0..K : Len(g[i]) \in Nat
      BY <1>8, LenProperties
    <2>2. c \in [0..K -> Nat] /\ \A i \in 0..K : c[i] = Len(g[i])
      BY <2>1
    <2> QED
      BY <2>2
  <1>16. ASSUME NEW i \in 1..K, D[m[i - 1]] = <<>>
         PROVE  D[m[i]] = <<>> /\ P[m[i]] = P[m[i - 1]] \o PhonesOf(card[i].text)
    <2>1. i - 1 \in 0..K /\ i \in 0..K /\ card[i] \in Lines
      BY <1>1, <1>13
    <2>2. PICK L, M \in Nat : L = m[i - 1] /\ M = Len(Printed(card[i]))
      BY <1>13, <1>15, <2>1
    <2>3. Joined(g[i], g[i - 1], Printed(card[i]), L, M)
      BY <1>13, <1>15, <2>1, <2>2
    <2>4. Len(g[i]) = L + M
      BY <2>3 DEF Joined
    <2>5. \A j \in 1..M : g[i][L + j] = Printed(card[i])[j]
      BY <2>3 DEF Joined
    <2>6. L + M <= Len(U) /\ \A k \in 1..(L + M) : U[k] = g[i][k]
      BY <1>14, <2>1, <2>4 DEF Within
    <2>7. D[L + M] = <<>> /\ P[L + M] = P[L] \o PhonesOf(card[i].text)
      <3>1. ASSUME NEW j \in 1..M PROVE U[L + j] = Printed(card[i])[j]
        <4>1. L + j \in 1..(L + M)
          OBVIOUS
        <4> QED
          BY <2>5, <2>6, <4>1
      <3>2. D[L] = <<>>
        BY <1>16, <2>2
      <3>3. PICK line \in Lines : line = card[i]
        BY <2>1
      <3>4. HasLine(U, line, L, M)
        BY <2>2, <2>6, <3>1, <3>3 DEF HasLine
      <3>5. Crossed(D, P, line, L, M)
        BY <1>12, <3>2, <3>4, AcrossLine
      <3> QED
        BY <3>3, <3>5 DEF Crossed
    <2>8. m[i] = L + M
      BY <1>15, <2>1, <2>4
    <2> QED
      BY <2>2, <2>7, <2>8
  <1> DEFINE Bad == {i \in 0..K : ~(D[m[i]] = <<>> /\ P[m[i]] = q[i])}
  <1>17. Bad = {}
    <2> SUFFICES ASSUME Bad # {} PROVE FALSE
      OBVIOUS
    <2>1. Bad \subseteq Nat
      OBVIOUS
    <2> HIDE DEF Bad
    <2>2. PICK i \in Bad : \A j \in Bad : i <= j
      BY <2>1, Least
    <2>3. i \in 0..K /\ ~(D[m[i]] = <<>> /\ P[m[i]] = q[i])
      BY <2>2 DEF Bad
    <2>4. i # 0
      <3>1. m[0] = 0
        <4>1. 0 \in 0..K /\ Len(<<>>) = 0
          OBVIOUS
        <4> QED
          BY <1>10, <1>15, <4>1
      <3>2. D[0] = <<>> /\ P[0] = <<>>
        BY <1>12 DEF RunsAlong
      <3> QED
        BY <1>11, <2>3, <3>1, <3>2
    <2>5. i \in 1..K /\ i - 1 \in 0..K /\ i - 1 \notin Bad
      BY <2>2, <2>3, <2>4
    <2>6. D[m[i - 1]] = <<>> /\ P[m[i - 1]] = q[i - 1]
      BY <2>5 DEF Bad
    <2> QED
      BY <1>11, <1>16, <2>3, <2>5, <2>6
  <1>18. D[Len(U)] = <<>> /\ P[Len(U)] = q[K] /\ q[K] \in Seq(Seq(Digits))
    <2>1. K \in 0..K
      OBVIOUS
    <2> QED
      BY <1>9, <1>10, <1>15, <1>17, <2>1
  <1>19. Found(D, P, U) = q[K]
    <2>1. q[K] \o <<>> = q[K]
      BY <1>18, ConcatEmptySeq
    <2> QED
      BY <1>18, <2>1, NoPhone DEF Found
  <1> QED
    BY <1>2, <1>7, <1>11, <1>12, <1>19

\* Before the first resume the text of a card gives the phone numbers of its lines, whole
\* and in their order (ResultActivity.java:169-175, StringUtil.java:91-120).
THEOREM PhonesFromLines == Spec => []PhonesOfLines
  <1>1. IInv => PhonesOfLines
    <2> SUFFICES ASSUME IInv, isFirst, htmlResult # <<>> PROVE PhonesOfLines
      BY DEF PhonesOfLines
    <2>1. PICK page \in Pages : Head(htmlResult) = page
      BY DEF IInv, ListTypes
    <2>2. CardLines(page) \in Seq(Lines) /\ Utf8Result(CardLines(page)) \in Texts
      BY CardTypes
    <2>3. Plain(ExtractPhone(Utf8Result(CardLines(page))))
             = FlattenSeq([i \in DOMAIN CardLines(page) |-> PhonesOf(CardLines(page)[i].text)])
      BY <2>2, CardPhones
    <2> QED
      BY <2>1, <2>3 DEF PhonesOfLines, Plain
  <1> QED
    BY <1>1, Invariance, PTL
=============================================================================
