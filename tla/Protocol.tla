------------------------------ MODULE Protocol ------------------------------
(***************************************************************************)
(* What travels between the tracker and the signer: the operations, the    *)
(* request and the result (signer/protocol.py), and the fee table both     *)
(* sides keep a copy of.  Only the fields the two sides act on are here;   *)
(* the unlock value is not (whether it is the right one shows in what      *)
(* btcli does with it, module Signer).                                     *)
(***************************************************************************)
EXTENDS Integers, FiniteSets

CONSTANTS
    Wallet,      \* the team's coldkeys, each with a btcli wallet on the signer's host
    Outsider     \* addresses that are not the team's: the tournament's, a stranger's

NoAddress == "no address"

Address == Wallet \cup Outsider

ASSUME AddressAssumption ==
    IsFiniteSet(Wallet) /\ Wallet \cap Outsider = {} /\ NoAddress \notin Address

OpPay        == "pay_tournament"
OpUnstake    == "unstake_all"
OpSweep      == "sweep"
OpDistribute == "distribute"
OpBalances   == "balances"
OpStake      == "stake"

ReadOps     == {OpBalances, OpStake}
TransferOps == {OpPay, OpSweep, OpDistribute}
SigningOps  == TransferOps \cup {OpUnstake}
Ops         == SigningOps \cup ReadOps

TournamentTypes == {"text", "image", "env"}

(* What a set of tournament types costs by one side's fee table. *)
AmountOf(fees, types) ==
    LET due(t) == IF t \in types THEN fees[t] ELSE 0
    IN  due("text") + due("image") + due("env")

SignRequest == [op          : Ops,
                coldkey     : Address \cup {NoAddress},
                types       : SUBSET TournamentTypes,
                destination : Address \cup {NoAddress},
                amount      : Nat]

NoRequest == [op |-> OpBalances, coldkey |-> NoAddress, types |-> {},
              destination |-> NoAddress, amount |-> 0]

(* The requests that SignRequest.from_line lets through: what an operation  *)
(* does not take must be absent, what it needs must be there.               *)
WellFormed(r) ==
    /\ r.op = OpBalances <=> r.coldkey = NoAddress
    /\ r.op = OpPay => r.types # {}
    /\ IF r.op = OpDistribute
       THEN r.destination # NoAddress /\ r.amount > 0
       ELSE r.destination = NoAddress /\ r.amount = 0

(* `error` is the class of the message SignResult.error carries: "none" for *)
(* no message, "partial" for an unstake's summary, "crash" for the repr of  *)
(* an exception nothing classified.                                         *)
ErrorClass == {"none", "protocol", "refused", "btcli", "unknown", "partial", "crash"}

SignResult == [ok : BOOLEAN, unknown : BOOLEAN, amount : Nat, error : ErrorClass]

Ok(amount)  == [ok |-> TRUE,  unknown |-> FALSE, amount |-> amount, error |-> "none"]
Failed(why) == [ok |-> FALSE, unknown |-> FALSE, amount |-> 0, error |-> why]
Unknown     == [ok |-> FALSE, unknown |-> TRUE,  amount |-> 0, error |-> "unknown"]

NoResult == Failed("none")
=============================================================================
