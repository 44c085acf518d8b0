------------------------------ MODULE MCSigner ------------------------------
(* Instances of the signing daemon for TLC: four wallets (the treasury, a    *)
(* member's, an empty one and one the roster does not name), a price list of one, two and  *)
(* four rao, and every kind of request a client may send.                    *)
EXTENDS SignerProperties, TLC

CONSTANTS treasury, member, poor, unlisted, tournament, stranger, h1, h2, h3

MCWallet   == {treasury, member, poor, unlisted}
MCOutsider == {tournament, stranger}
MCRoster   == {treasury, member, poor}
MCFee      == [t \in TournamentTypes |-> CASE t = "text" -> 1 [] t = "image" -> 2 [] OTHER -> 4]
MCFree     == [w \in MCWallet |-> CASE w = treasury -> 3 [] w = member -> 5 [] w = poor -> 0 [] OTHER -> 2]

Ask(op, coldkey)  == [NoRequest EXCEPT !.op = op, !.coldkey = coldkey]
Pay(coldkey, ts)  == [Ask(OpPay, coldkey) EXCEPT !.types = ts]
Give(coldkey, to, n) ==
    [Ask(OpDistribute, coldkey) EXCEPT !.destination = to, !.amount = n]

(* Money requests: payable, over the per-request cap, from a wallet this     *)
(* host does not have; sweeps and distributions allowed and refused; one     *)
(* the protocol rejects.                                                     *)
MCMoneyRequests ==
    {Pay(member, {"text"}), Pay(member, {"image"}), Pay(treasury, {"env"}),
     Pay(stranger, {"text"}),
     Ask(OpSweep, member), Ask(OpSweep, treasury), Ask(OpSweep, poor), Ask(OpSweep, unlisted),
     Give(treasury, member, 2), Give(treasury, stranger, 1), Give(member, treasury, 1),
     Give(treasury, member, 0)}

MCFewRequests == {Pay(member, {"text"}), Pay(member, {"image"}), Ask(OpSweep, member)}

(* h1 and h2 are on the roster, h3 is stake nobody registered. *)
MCHotkeys      == {h1, h2, h3}
MCOwner        == [h \in MCHotkeys |-> member]
MCStake        == [h \in MCHotkeys |-> IF h = h1 THEN 2 ELSE 1]
MCNoStake      == [h \in {} |-> 0]
MCRegistered   == {h1, h2}
MCRequests == MCMoneyRequests \cup {Ask(OpUnstake, member), Ask(OpStake, member)}
MCNoOwner      == [h \in {} |-> member]

(* Connections are interchangeable, and no run of this module is about liveness. *)
Connections == Permutations(Conn)
=============================================================================
