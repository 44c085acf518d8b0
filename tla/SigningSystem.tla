---------------------------- MODULE SigningSystem ----------------------------
(***************************************************************************)
(* The tracker and the signer together, over the socket, with the chain    *)
(* behind the signer: what a signed action's row says against what its      *)
(* money did.                                                               *)
(***************************************************************************)
EXTENDS SignerProperties, SignedActions

vars == <<signerVars, tableVars>>

TypeOK == SignerTypeOK /\ TableTypeOK

Init == SignerInit /\ TableInit

Next ==
    \/ TrackerStep /\ UNCHANGED <<job, bookVars, chainVars, hostVars>>
    \/ (SignerStep \/ ChainStep \/ HostStep) /\ UNCHANGED tableVars

Spec == Init /\ [][Next]_vars

(* Threads of a live tracker go on and systemd restarts both processes.      *)
(* Nobody has to click, nothing has to crash, btcli need not end by itself,  *)
(* and the client's timeout, which would make the property easy, is not      *)
(* relied on.                                                                *)
Fairness ==
    /\ \A a \in Conn : WF_vars(HandlerStep(a) /\ UNCHANGED <<job, bookVars, chainVars, hostVars>>)
    /\ WF_vars(TrackerStart /\ UNCHANGED <<job, bookVars, chainVars, hostVars>>)
    /\ WF_vars(TakeRequest /\ UNCHANGED tableVars)
    /\ WF_vars(HandleRequest /\ UNCHANGED tableVars)
    /\ WF_vars(DriverStep /\ UNCHANGED tableVars)
    /\ WF_vars(UnstakeLoop /\ UNCHANGED tableVars)
    /\ WF_vars(SendReply /\ UNCHANGED tableVars)
    /\ WF_vars(Restart /\ UNCHANGED tableVars)

FairSpec == Spec /\ Fairness

-----------------------------------------------------------------------------
(* A coldkey has at most one pending row, though two handlers may both pass  *)
(* the pending_action check, and it is the one its card shows: "the only     *)
(* signal that work is in flight for that wallet" is never hidden behind a   *)
(* younger row, whichever handler's answer comes first.                      *)
PendingShowsOnCard ==
    \A a \in Conn : rows[a].status = "pending" =>
        latest_action_per_coldkey(rows[a].coldkey).id = rows[a].id

(* "'pending' is written before the signer is called, so a crash mid-flight  *)
(* leaves evidence rather than silence": whatever a request put on the chain *)
(* has a row, naming the coldkey it came from.                               *)
EvidenceBeforeMoney ==
    \A a \in Conn : ~LeftNoTrace(a) =>
        rows[a].status # "absent" /\ rows[a].coldkey = request[a].coldkey

(* A row that reads ok holds the number that moved, not the tracker's own    *)
(* estimate, though the two fee tables differ.                               *)
OkRowHoldsWhatMoved ==
    \A a \in Conn : rows[a].status = "ok" /\ rows[a].op \in TransferOps =>
        tx[a].state = "landed" /\ moved[a] = rows[a].amount

(* A failed row without the outcome_unknown flag whose request is on the     *)
(* chain all the same was closed without the signer's verdict: the answer    *)
(* was lost, the tracker died, or the driver crashed on its deadline.        *)
UnflaggedFailureIsExplained ==
    \A a \in Conn : rows[a].status = "failed" /\ ~rows[a].unknown /\ ~LeftNoTrace(a) =>
        rows[a].error \in {"unreachable", "interrupted", "crash"}

(* A row that was closed stays as it was closed: no late answer, no restart   *)
(* and no other handler rewrites it.                                          *)
ClosedRowsAreFinal ==
    [][\A a \in Conn : rows[a].status \in {"ok", "failed"} => rows'[a] = rows[a]]_vars

(* No crash, hang or lost answer retires a wallet: every pending row is       *)
(* resolved in the end.                                                       *)
PendingRowsResolve ==
    \A a \in Conn : rows[a].status = "pending" ~> rows[a].status # "pending"

-----------------------------------------------------------------------------
(* The abstract ledger: a row's estimate is nobody's promise, so the amount   *)
(* counts from the moment the row reads ok.                                   *)
Ledger == INSTANCE ActionLedger WITH
    Action    <- Conn,
    Coldkey   <- Address,
    NoColdkey <- NoAddress,
    book      <- [a \in Conn |-> [status |-> rows[a].status,
                                  amount |-> IF rows[a].status = "ok" THEN rows[a].amount ELSE 0]],
    owner     <- [a \in Conn |-> rows[a].coldkey],
    paid      <- moved

(* Tracker, socket, signer and chain together implement the ledger: crashes,  *)
(* lost answers and late extrinsics included.                                 *)
ImplementsLedger == Ledger!LedgerSpec

-----------------------------------------------------------------------------
(* What the repository says and the code does not do. *)

(* pending_action: "paying twice because someone clicked twice is the failure *)
(* this guards against".  A new row for a coldkey is then only recorded when  *)
(* no earlier, unflagged request of that coldkey is still with the signer.    *)
NoRetryWhileFirstRuns ==
    [][\A b \in Conn : rows[b].status = "absent" /\ rows'[b].status = "pending" =>
        ~ \E a \in InHand : /\ rows[a].coldkey = rows'[b].coldkey
                            /\ rows[a].status = "failed" /\ ~rows[a].unknown
      ]_vars
=============================================================================
