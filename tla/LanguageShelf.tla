----------------------------- MODULE LanguageShelf -----------------------------
(***************************************************************************)
(* What the installation of languages promises, without its rows, lists,   *)
(* broadcasts and services: each order of the user writes the data file of *)
(* its language at most once, the orders are served one at a time, and     *)
(* only an order or a deletion touches a file.                             *)
(***************************************************************************)
EXTENDS Naturals, Sequences

CONSTANT Langs

VARIABLES
    orders,   \* the language of every download that was ordered
    owed,     \* orders, by their places, that may still be served
    serving,  \* the order whose file is being written, 0 for none
    file,     \* per language: "absent", "partial" or "whole"
    deaths    \* how often the process was killed

shelf == <<orders, owed, serving, file, deaths>>

ShelfInit ==
    /\ orders = <<>> /\ owed = {} /\ serving = 0
    /\ file = [l \in Langs |-> "absent"] /\ deaths = 0

Order(l) ==
    /\ orders' = Append(orders, l)
    /\ owed' = owed \cup {Len(orders) + 1}
    /\ UNCHANGED <<serving, file, deaths>>

Serve(id) ==
    /\ id \in owed /\ serving = 0
    /\ serving' = id
    /\ file' = [file EXCEPT ![orders[id]] = "partial"]
    /\ UNCHANGED <<orders, owed, deaths>>

\* A file that was deleted meanwhile stays deleted; one whose copy failed stays as it is.
Served(id) ==
    /\ serving = id /\ id # 0
    /\ serving' = 0
    /\ owed' = owed \ {id}
    /\ file' \in {file, [file EXCEPT ![orders[id]] = IF @ = "partial" THEN "whole" ELSE @]}
    /\ UNCHANGED <<orders, deaths>>

\* The download is cancelled or fails, or nothing can be written.
Drop(id) ==
    /\ id \in owed /\ id # serving
    /\ owed' = owed \ {id}
    /\ UNCHANGED <<orders, serving, file, deaths>>

Delete(l) ==
    /\ file' = [file EXCEPT ![l] = "absent"]
    /\ UNCHANGED <<orders, owed, serving, deaths>>

\* Orders in the memory of the process go with it, and the one that is being served.
ShelfDies ==
    /\ deaths' = deaths + 1
    /\ serving' = 0
    /\ owed' \subseteq owed \ {serving}
    /\ UNCHANGED <<orders, file>>

ShelfNext ==
    \/ \E l \in Langs : Order(l) \/ Delete(l)
    \/ \E id \in owed : Serve(id) \/ Served(id) \/ Drop(id)
    \/ ShelfDies

Shelf == ShelfInit /\ [][ShelfNext]_shelf
=============================================================================
