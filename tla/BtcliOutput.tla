---------------------------- MODULE BtcliOutput ----------------------------
(***************************************************************************)
(* How the signer reads what btcli printed (signer/btcli.py).  An output is *)
(* the set of kinds of marker found in it:                                  *)
(*   "ok"       Finalized / has been included as                            *)
(*   "fail"     a cross that is a refusal                                   *)
(*   "words"    "unstaking failed" with no cross of its own                 *)
(*   "benign"   a cross on a hotkey that holds nothing on the subnet        *)
(*   "shield"   the MEV shield stopped looking for its extrinsic            *)
(*   "nothing"  no unstake operations to perform                            *)
(* Notices on empty hotkeys come before the words: btcli walks the hotkeys  *)
(* first.  A text too long to be kept whole loses its end, as if it had not *)
(* been printed.                                                            *)
(***************************************************************************)
EXTENDS Integers

Marker  == {"ok", "fail", "words", "benign", "shield", "nothing"}
Output  == SUBSET Marker
Outcome == {"success", "failure", "unknown"}

(* Mutants: whatever is not a refusal is a success; whatever is not a plain *)
(* success is a failure.                                                    *)
ParseTransferByAbsence(out) ==
    IF out \cap {"fail", "benign"} # {} THEN "failure" ELSE "success"

ParseTransferNoDoubt(out) ==
    IF "ok" \in out /\ out \cap {"fail", "benign"} = {} THEN "success" ELSE "failure"

(* A transfer's text is searched for any cross at all. *)
ParseTransfer(out) ==
    LET ok     == "ok" \in out
        failed == out \cap {"fail", "benign"} # {}
    IN  IF ok /\ ~failed THEN "success"
        ELSE IF failed /\ ~ok THEN "failure"
        ELSE "unknown"

(* Mutant: the shield's message counts as the refusal its cross looks like. *)
ParseUnstakeNoShield(out) ==
    IF "ok" \in out /\ "fail" \notin out THEN "success" ELSE "failure"

(* An unstake's is searched after the notices on empty hotkeys are cut out,  *)
(* each with what follows it up to the next cross, and a shield that stopped *)
(* looking overrides everything else.                                        *)
ParseUnstake(out) ==
    LET ok      == "ok" \in out
        failure == "fail" \in out \/ ("words" \in out /\ "benign" \notin out)
    IN  IF "shield" \in out THEN "unknown"
        ELSE IF ok /\ ~failure THEN "success"
        ELSE IF failure /\ ~ok THEN "failure"
        ELSE IF ~ok /\ "nothing" \in out THEN "failure"
        ELSE "unknown"
=============================================================================
