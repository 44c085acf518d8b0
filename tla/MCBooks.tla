------------------------------ MODULE MCBooks ------------------------------
(* The books for TLC: two people, and two hotkeys that the config first     *)
(* gives the first of them; a restart may come with one that moves k2 to    *)
(* the second. All of it at once is too much, so a behaviour is one of      *)
(*   "pages"    one request at a time, and none pays out of the Fund;       *)
(*   "closing"  two at a time, that close periods and delete them;          *)
(*   "paying"   two at a time, of any kind, over one snapshot;              *)
(* in the last two nothing is ever recorded of k2.                          *)
EXTENDS Pages, TLC

CONSTANTS h1, h2, k1, k2, ana, budi

VARIABLE kind

MCTeams    == {[k \in Hotkey |-> ana], [k \in {k2} |-> budi]}
MCSymmetry == Permutations(Handler)

MCInit == BooksInit /\ kind \in {"pages", "closing", "paying"}

Busy  == {h \in Handler : at[h].pc # "idle"}
Bound ==
    /\ kind = "pages" => Cardinality(Busy) <= 1
    /\ kind # "pages" => \A id \in DOMAIN snapshots : snapshots[id].row[k2] = "none"
    /\ kind = "closing" => restarts = 0
    /\ IF kind = "paying" THEN Len(snapshots) <= 1 /\ Cardinality(view.settlements) <= 1
       ELSE \A h \in Handler : at[h].pc # "shares"

MCNext == BooksNext /\ UNCHANGED kind /\ Bound'

MCSpec == MCInit /\ [][MCNext]_<<booksVars, kind>>
=============================================================================
