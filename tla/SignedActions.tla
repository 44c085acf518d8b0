---------------------------- MODULE SignedActions ----------------------------
(***************************************************************************)
(* The tracker's half of a signed action: the endpoints that start one     *)
(* (web/routes_api.py), the handler they share (_run_signed_action), the    *)
(* signed_actions table with its one-pending-per-coldkey index, and what    *)
(* startup does to the rows a crash left behind (db.py).  Handlers run on   *)
(* a thread pool, so steps of different actions interleave; every statement *)
(* on the table is committed as it is executed.                             *)
(*                                                                         *)
(* An action, its handler thread, its row and its connection share one      *)
(* name, a member of Conn.  Refusals that touch nothing (an unknown coldkey, *)
(* a blank secret, a last-read balance short of the fee) are guards.        *)
(***************************************************************************)
EXTENDS Socket, FiniteSets

CONSTANTS
    KnownColdkey,     \* coldkeys of the hotkeys table
    Treasury,         \* the tracker's copy of the treasury's address, or NoAddress
    TrackerFee,       \* the tracker's copy of the fee table
    Basket,           \* bound: the sets of tournament types that are bought together
    Gift,             \* bound: the amounts an admin distributes
    MaxTrackerCrash   \* bound: how often the tracker may die

ASSUME TrackerAssumption ==
    /\ KnownColdkey \subseteq Address
    /\ Treasury \in Address \cup {NoAddress}
    /\ TrackerFee \in [TournamentTypes -> Nat]
    /\ Basket \subseteq SUBSET TournamentTypes
    /\ Gift \subseteq Nat \ {0}
    /\ MaxTrackerCrash \in Nat

VARIABLES
    rows,             \* the signed_actions table
    pc,               \* where each action's handler is
    ask,              \* the request each handler built
    trackerUp,        \* whether the tracker's process runs
    trackerCrashes    \* how often it died

tableVars   == <<rows, pc, ask, trackerUp, trackerCrashes>>
trackerVars == <<socketVars, tableVars>>

RowStatus == {"absent", "pending", "ok", "failed"}
RowError  == ErrorClass \cup {"unreachable", "interrupted"}
Row == [id : Nat, status : RowStatus, coldkey : Address \cup {NoAddress}, op : Ops,
        amount : Nat, unknown : BOOLEAN, error : RowError]

NoRow == [id |-> 0, status |-> "absent", coldkey |-> NoAddress, op |-> OpBalances,
          amount |-> 0, unknown |-> FALSE, error |-> "none"]

(* "lost" is a handler that died with its process. *)
HandlerState == {"idle", "insert", "send", "wait", "done", "lost"}

TableTypeOK ==
    /\ rows \in [Conn -> Row]
    /\ pc   \in [Conn -> HandlerState]
    /\ ask  \in [Conn -> [request : SignRequest, estimate : Nat]]
    /\ trackerUp \in BOOLEAN
    /\ trackerCrashes \in Nat

TableInit ==
    /\ rows = [a \in Conn |-> NoRow]
    /\ pc   = [a \in Conn |-> "idle"]
    /\ ask  = [a \in Conn |-> [request |-> NoRequest, estimate |-> 0]]
    /\ trackerUp = TRUE
    /\ trackerCrashes = 0

Pending(coldkey) == {a \in Conn : rows[a].status = "pending" /\ rows[a].coldkey = coldkey}

(* INTEGER PRIMARY KEY on a table nothing is deleted from. *)
NextRowId == 1 + Cardinality({a \in Conn : rows[a].status # "absent"})

(* The badge on a coldkey's card: its row with the largest id.               *)
latest_action_per_coldkey(coldkey) ==
    LET mine == {rows[a] : a \in {b \in Conn : rows[b].coldkey = coldkey}}
    IN  IF mine = {} THEN NoRow
        ELSE CHOOSE row \in mine : \A other \in mine : other.id <= row.id

Goto(a, place) == pc' = [pc EXCEPT ![a] = place]

-----------------------------------------------------------------------------
(* The endpoints. *)

(* Mutant: the row is written when the answer comes, not before. *)
StartActionUnrecorded(a, r, estimate) ==
    /\ pc[a] = "idle"
    /\ ask' = [ask EXCEPT ![a] = [request |-> r, estimate |-> estimate]]
    /\ Goto(a, IF Pending(r.coldkey) = {} THEN "send" ELSE "done")
    /\ UNCHANGED <<socketVars, rows, trackerUp, trackerCrashes>>

(* _run_signed_action up to its first write: 409 when pending_action finds   *)
(* a row, otherwise the handler goes on to insert its own.                   *)
StartAction(a, r, estimate) ==
    /\ pc[a] = "idle"
    /\ ask' = [ask EXCEPT ![a] = [request |-> r, estimate |-> estimate]]
    /\ Goto(a, IF Pending(r.coldkey) = {} THEN "insert" ELSE "done")
    /\ UNCHANGED <<socketVars, rows, trackerUp, trackerCrashes>>

Signed(op, coldkey) == [NoRequest EXCEPT !.op = op, !.coldkey = coldkey]

PayTournament(a, coldkey, types) ==
    /\ coldkey \in KnownColdkey
    /\ types # {}
    /\ StartAction(a, [Signed(OpPay, coldkey) EXCEPT !.types = types],
                   AmountOf(TrackerFee, types))

UnstakeAll(a, coldkey) ==
    /\ coldkey \in KnownColdkey
    /\ StartAction(a, Signed(OpUnstake, coldkey), 0)

SweepToTreasury(a, coldkey) ==
    /\ coldkey \in KnownColdkey
    /\ Treasury # NoAddress
    /\ coldkey # Treasury
    /\ StartAction(a, Signed(OpSweep, coldkey), 0)

(* The row, and so the lock, is the treasury's: coldkey receives. *)
DistributeFromTreasury(a, coldkey, amount) ==
    /\ coldkey \in KnownColdkey
    /\ Treasury # NoAddress
    /\ coldkey # Treasury
    /\ amount > 0
    /\ StartAction(a, [Signed(OpDistribute, Treasury) EXCEPT
                           !.destination = coldkey, !.amount = amount], amount)

(* A balance or stake read, from the treasury dialogs or from the balance    *)
(* refresh: no row, but a place in the signer's queue.                       *)
ReadChain(a, r) ==
    /\ pc[a] = "idle"
    /\ ask' = [ask EXCEPT ![a] = [request |-> r, estimate |-> 0]]
    /\ Goto(a, "send")
    /\ UNCHANGED <<socketVars, rows, trackerUp, trackerCrashes>>

-----------------------------------------------------------------------------
(* _run_signed_action. *)

(* Mutant: the table without its partial unique index. *)
RecordActionWithoutIndex(a) ==
    /\ pc[a] = "insert"
    /\ rows' = [rows EXCEPT ![a] = [NoRow EXCEPT !.id      = NextRowId,
                                                !.status  = "pending",
                                                !.coldkey = ask[a].request.coldkey,
                                                !.op      = ask[a].request.op,
                                                !.amount  = ask[a].estimate]]
    /\ Goto(a, "send")
    /\ UNCHANGED <<socketVars, ask, trackerUp, trackerCrashes>>

(* record_action, or the IntegrityError of the unique index: another thread  *)
(* of the same coldkey got between the check and the insert.                 *)
RecordAction(a) ==
    /\ pc[a] = "insert"
    /\ LET r == ask[a].request
       IN  IF Pending(r.coldkey) = {}
           THEN /\ rows' = [rows EXCEPT ![a] =
                              [NoRow EXCEPT !.id      = NextRowId,
                                            !.status  = "pending",
                                            !.coldkey = r.coldkey,
                                            !.op      = r.op,
                                            !.amount  = ask[a].estimate]]
                /\ Goto(a, "send")
           ELSE Goto(a, "done") /\ UNCHANGED rows
    /\ UNCHANGED <<socketVars, ask, trackerUp, trackerCrashes>>

Send(a) ==
    /\ pc[a] = "send"
    /\ Connect(a, ask[a].request) \/ ConnectFails(a)
    /\ Goto(a, "wait")
    /\ UNCHANGED <<rows, ask, trackerUp, trackerCrashes>>

TimeOut(a) ==
    /\ pc[a] = "wait"
    /\ GiveUp(a)
    /\ UNCHANGED tableVars

(* Mutants: the estimate stays on an ok row; the flag is not stored; an      *)
(* unknown outcome is stored as ok.                                          *)
FinishActionEstimate(a, ok, unknown, error, amount) ==
    rows' = IF rows[a].status = "absent" THEN rows
            ELSE [rows EXCEPT ![a].status  = IF ok THEN "ok" ELSE "failed",
                              ![a].unknown = unknown,
                              ![a].error   = error]

FinishActionUnflagged(a, ok, unknown, error, amount) ==
    rows' = IF rows[a].status = "absent" THEN rows
            ELSE [rows EXCEPT ![a].status  = IF ok THEN "ok" ELSE "failed",
                              ![a].error   = error,
                              ![a].amount  = IF ok THEN amount ELSE @]

FinishActionHopeful(a, ok, unknown, error, amount) ==
    rows' = IF rows[a].status = "absent" THEN rows
            ELSE [rows EXCEPT ![a].status  = IF ok \/ unknown THEN "ok" ELSE "failed",
                              ![a].unknown = unknown,
                              ![a].error   = error,
                              ![a].amount  = IF ok THEN amount ELSE @]

(* finish_action: UPDATE ... WHERE id = ?.  A read has no row to close. *)
FinishAction(a, ok, unknown, error, amount) ==
    rows' = IF rows[a].status = "absent" THEN rows
            ELSE [rows EXCEPT ![a].status  = IF ok THEN "ok" ELSE "failed",
                              ![a].unknown = unknown,
                              ![a].error   = error,
                              ![a].amount  = IF ok THEN amount ELSE @]

(* The signer's answer: its amount replaces the estimate on success only. *)
ReceiveAnswer(a) ==
    /\ pc[a] = "wait"
    /\ line[a] = "answered"
    /\ FinishAction(a, result[a].ok, result[a].unknown, result[a].error, result[a].amount)
    /\ Goto(a, "done")
    /\ UNCHANGED <<socketVars, ask, trackerUp, trackerCrashes>>

(* SignerUnavailable: not reachable, closed without an answer, or too slow. *)
SignerUnavailable(a) ==
    /\ pc[a] = "wait"
    /\ line[a] \in {"refused", "reset", "abandoned"}
    /\ FinishAction(a, FALSE, FALSE, "unreachable", 0)
    /\ Goto(a, "done")
    /\ UNCHANGED <<socketVars, ask, trackerUp, trackerCrashes>>

-----------------------------------------------------------------------------
(* The tracker's process. *)

TrackerCrash ==
    /\ trackerUp
    /\ trackerCrashes < MaxTrackerCrash
    /\ trackerCrashes' = trackerCrashes + 1
    /\ trackerUp' = FALSE
    /\ pc' = [a \in Conn |-> IF pc[a] \in {"idle", "done"} THEN pc[a] ELSE "lost"]
    /\ ClientsVanish
    /\ UNCHANGED <<rows, ask>>

(* Mutants: no cleanup; a cleanup without its WHERE status = 'pending'.      *)
StrandedStays(row) == row

StrandedAny(row) ==
    IF row.status = "absent" THEN row
    ELSE [row EXCEPT !.status = "failed", !.error = "interrupted"]

(* cleanup_stranded_actions, on every row. *)
Stranded(row) ==
    IF row.status = "pending"
    THEN [row EXCEPT !.status = "failed", !.error = "interrupted"]
    ELSE row

TrackerStart ==
    /\ ~trackerUp
    /\ trackerUp' = TRUE
    /\ rows' = [a \in Conn |-> Stranded(rows[a])]
    /\ UNCHANGED <<socketVars, pc, ask, trackerCrashes>>

-----------------------------------------------------------------------------
Click(a) ==
    /\ trackerUp
    /\ \E coldkey \in KnownColdkey :
          \/ \E types \in Basket : PayTournament(a, coldkey, types)
          \/ UnstakeAll(a, coldkey)
          \/ SweepToTreasury(a, coldkey)
          \/ \E amount \in Gift : DistributeFromTreasury(a, coldkey, amount)
          \/ ReadChain(a, Signed(OpStake, coldkey))
          \/ ReadChain(a, NoRequest)

HandlerStep(a) ==
    /\ trackerUp
    /\ RecordAction(a) \/ Send(a) \/ ReceiveAnswer(a) \/ SignerUnavailable(a)

TrackerStep ==
    \/ \E a \in Conn : Click(a) \/ HandlerStep(a) \/ TimeOut(a)
    \/ TrackerCrash
    \/ TrackerStart
=============================================================================
