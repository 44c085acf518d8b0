--------------------------- MODULE MCSigningSystem ---------------------------
(* Instances of the whole pipeline for TLC: the treasury and one member's    *)
(* wallet; the tracker's price list is one rao above the signer's.           *)
EXTENDS SigningSystem, TLC

CONSTANTS treasury, member, tournament, h1

MCWallet     == {treasury, member}
MCOutsider   == {tournament}
MCFee        == [t \in TournamentTypes |-> CASE t = "text" -> 1 [] t = "image" -> 2 [] OTHER -> 4]
MCTrackerFee == [t \in TournamentTypes |-> MCFee[t] + 1]
MCFree       == [w \in MCWallet |-> 3]
MCBasket     == {{"text"}, {"env"}}
MCOneBasket  == {{"text"}}
MCOwner      == [h \in {h1} |-> member]
MCNoOwner    == [h \in {} |-> member]
MCStake      == [h \in {h1} |-> 2]
MCNoStake    == [h \in {} |-> 0]

(* Connections are interchangeable in every run without a liveness property. *)
Symmetry == Permutations(Conn)
=============================================================================
