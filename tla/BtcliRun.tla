------------------------------ MODULE BtcliRun ------------------------------
(***************************************************************************)
(* What the signer is promised of one signing run of btcli, whatever        *)
(* happens on the terminal between them: a success only for an extrinsic    *)
(* that landed, a failure only when nothing is, or will be, on the chain,   *)
(* and at any time "unknown" or the driver's own crash.                     *)
(***************************************************************************)
VARIABLES
    chain,      \* the run's extrinsic, as the chain sees it
    verdict     \* what the signer made of the run

runVars == <<chain, verdict>>

RunInit == chain = "none" /\ verdict = "running"

Submits == verdict = "running" /\ chain = "none" /\ chain' = "submitted" /\ UNCHANGED verdict

(* The chain takes or drops an extrinsic whenever it likes, the run being    *)
(* over or not.                                                              *)
Settles ==
    /\ chain = "submitted"
    /\ chain' \in {"landed", "dropped"}
    /\ UNCHANGED verdict

Succeeds == chain = "landed" /\ verdict' = "success"
Fails    == chain \in {"none", "dropped"} /\ verdict' = "failure"
Doubts   == verdict' \in {"unknown", "crash"}

RunEnds ==
    /\ verdict = "running"
    /\ Succeeds \/ Fails \/ Doubts
    /\ UNCHANGED chain

RunNext == Submits \/ Settles \/ RunEnds

RunSpec == RunInit /\ [][RunNext]_runVars
=============================================================================
