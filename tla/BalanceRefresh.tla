-------------------------- MODULE BalanceRefresh ---------------------------
(* Refreshing the coldkeys' balances (bot/balances.py): BalanceRunner runs  *)
(* one refresh at a time for the admin's buttons and the startup, and the   *)
(* scheduler runs refresh_balances by itself every night.                   *)
EXTENDS ChainReads

CONSTANTS
    MaxClock,       \* bound: events
    MaxRestart,     \* bound: restarts of the tracker
    ConnectFails    \* the kinds of run whose conn_factory may raise

(* A run is the runner's thread or the scheduler's job.                     *)
RunKind == {"manual", "nightly"}

ASSUME BalanceAssumption == MaxClock \in Nat /\ MaxRestart \in Nat /\ ConnectFails \subseteq RunKind

VARIABLES
    clock,      \* counts events; stands for the time
    running,    \* _running
    pass,       \* kind |-> where its refresh_balances stands
    rows,       \* coldkey_balances, keyed by coldkey and fetched_at
    restarts,
    leaked      \* history: since the start, the runner's thread got no connection

balanceVars == <<clock, running, pass, rows, restarts, leaked>>

(* A figure is the wallet's own, zero, what TaoStats says it is, or NULL;   *)
(* `silence` is history: btcli printed nothing where the stake was asked.   *)
(* The tournament balance, of which no property speaks, is left out.        *)
Figure == {"own", "zero", "told", "null"}
BalanceRow == [coldkey : Coldkey, fetched_at : 1 .. MaxClock, free : Figure, stake : Figure,
               silence : BOOLEAN]
NoRow == [fetched_at |-> 0]

(* "thread" has been started and has no connection yet; "fetched" holds the *)
(* figures of one coldkey that are still to be written.                     *)
NoRun == [pc |-> "none", fetched_at |-> 0, target |-> {}, todo |-> {}, free |-> <<>>,
          row |-> NoRow]

BalanceTypeOK == /\ clock \in 0 .. MaxClock
                 /\ running \in BOOLEAN
                 /\ \A k \in RunKind :
                        /\ pass[k].pc \in {"none", "thread", "loop", "fetched"}
                        /\ pass[k].fetched_at \in 0 .. MaxClock
                        /\ pass[k].target \in SUBSET Coldkey
                        /\ pass[k].todo \in SUBSET pass[k].target
                        /\ DOMAIN pass[k].free \subseteq OnHost
                        /\ pass[k].row \in IF pass[k].pc = "fetched" THEN BalanceRow ELSE {NoRow}
                 /\ rows \subseteq BalanceRow
                 /\ restarts \in 0 .. MaxRestart
                 /\ leaked \in BOOLEAN

BalanceInit == /\ clock = 0
               /\ running = FALSE
               /\ pass = [k \in RunKind |-> NoRun]
               /\ rows = {}
               /\ restarts = 0
               /\ leaked = FALSE

---------------------------------------------------------------------------
(* Starting                                                                 *)

(* The buttons and the startup: refused while _running.                     *)
StartManual(target) ==
    /\ ~running
    /\ clock < MaxClock
    /\ running' = TRUE
    /\ pass' = [pass EXCEPT !["manual"] = [NoRun EXCEPT !.pc = "thread", !.target = target]]
    /\ clock' = clock + 1
    /\ UNCHANGED <<rows, restarts, leaked>>

(* max_instances=1, and no look at the runner.                              *)
StartNightly ==
    /\ pass["nightly"].pc = "none"
    /\ clock < MaxClock
    /\ pass' = [pass EXCEPT !["nightly"] = [NoRun EXCEPT !.pc = "thread", !.target = Coldkey]]
    /\ clock' = clock + 1
    /\ UNCHANGED <<running, rows, restarts, leaked>>

(* conn_factory() raises before the try whose finally clears _running.      *)
NoConnection(k) ==
    /\ k \in ConnectFails
    /\ pass[k].pc = "thread"
    /\ pass' = [pass EXCEPT ![k] = NoRun]
    /\ leaked' = (leaked \/ k = "manual")
    /\ UNCHANGED <<clock, running, rows, restarts>>

---------------------------------------------------------------------------
(* refresh_balances                                                         *)

(* fetched_at is taken once, for all the rows of the run; the free balances *)
(* are asked of the signer in one call, which knows some, all or none.      *)
Begin(k) == /\ pass[k].pc = "thread"
            /\ \E wallets, payload \in Read, listed \in SUBSET Coldkey :
                   pass' = [pass EXCEPT ![k].pc = "loop", ![k].fetched_at = clock,
                                        ![k].todo = pass[k].target,
                                        ![k].free = balances(wallets, payload, listed)]
            /\ UNCHANGED <<clock, running, rows, restarts, leaked>>

GotRow(k, ck, free, stake, silence) ==
    /\ pass[k].pc = "loop"
    /\ ck \in pass[k].todo
    /\ pass' = [pass EXCEPT ![k].pc = "fetched",
                            ![k].row = [coldkey |-> ck, fetched_at |-> pass[k].fetched_at,
                                        free |-> free, stake |-> stake, silence |-> silence]]
    /\ UNCHANGED <<clock, running, rows, restarts, leaked>>

(* The stake is a call of its own: NULL when it fails, and the row is still *)
(* the chain's.                                                             *)
FetchFromChain(k, ck) ==
    /\ ck \in DOMAIN pass[k].free
    /\ \/ \E wallets \in Read, ends \in Ends :
              GotRow(k, ck, pass[k].free[ck], stake_of(ck, wallets, ends),
                     ReadInSilence(wallets, ends))
       \/ GotRow(k, ck, pass[k].free[ck], "null", FALSE)

(* After a token, from TaoStats; an exception gives NULLs and the loop goes *)
(* on.                                                                      *)
FetchFromTaoStats(k, ck) ==
    /\ ck \notin DOMAIN pass[k].free
    /\ \E figure \in {"told", "null"} : GotRow(k, ck, figure, figure, FALSE)

(* Mutants: the youngest rows of the table instead of the coldkey's; a row  *)
(* only for a coldkey that could be read.                                   *)
coldkey_cards_of_last_run(ck) == {r \in rows : /\ r.coldkey = ck
                                               /\ \A other \in rows : other.fetched_at <= r.fetched_at}

InsertRowIfRead(k) ==
    /\ pass[k].pc = "fetched"
    /\ rows' = IF pass[k].row.free = "null" THEN rows ELSE rows \cup {pass[k].row}
    /\ pass' = [pass EXCEPT ![k].pc = "loop", ![k].row = NoRow,
                            ![k].todo = @ \ {pass[k].row.coldkey}]
    /\ UNCHANGED <<clock, running, restarts, leaked>>

(* Mutant: a coldkey that could not be read is tried until it can.          *)
InsertRowRetrying(k) ==
    /\ pass[k].pc = "fetched"
    /\ LET row == pass[k].row
       IN  /\ rows' = rows \cup {row}
           /\ pass' = [pass EXCEPT ![k].pc = "loop", ![k].row = NoRow,
                                   ![k].todo = IF row.free = "null" THEN @ ELSE @ \ {row.coldkey}]
    /\ UNCHANGED <<clock, running, restarts, leaked>>

(* ON CONFLICT(coldkey_ss58, fetched_at) DO NOTHING.                        *)
Kept(row) == \E r \in rows : r.coldkey = row.coldkey /\ r.fetched_at = row.fetched_at

InsertRow(k) == /\ pass[k].pc = "fetched"
                /\ LET row == pass[k].row
                   IN  /\ rows' = IF Kept(row) THEN rows ELSE rows \cup {row}
                       /\ pass' = [pass EXCEPT ![k].pc = "loop", ![k].row = NoRow,
                                               ![k].todo = @ \ {row.coldkey}]
                /\ UNCHANGED <<clock, running, restarts, leaked>>

(* Mutant: the nightly job clears the runner's flag too.                    *)
ClearedByAny(k) == running' = FALSE

Cleared(k) == running' = IF k = "manual" THEN FALSE ELSE running

EndRun(k) == /\ pass[k].pc = "loop"
             /\ pass[k].todo = {}
             /\ pass' = [pass EXCEPT ![k] = NoRun]
             /\ Cleared(k)
             /\ UNCHANGED <<clock, rows, restarts, leaked>>

(* An exception of the database: logged, and the finally clause runs.       *)
RunRaises(k) == /\ pass[k].pc # "none"
                /\ pass' = [pass EXCEPT ![k] = NoRun]
                /\ Cleared(k)
                /\ UNCHANGED <<clock, rows, restarts, leaked>>

(* The threads are daemons and die with the tracker.                        *)
TrackerRestarts == /\ restarts < MaxRestart
                   /\ restarts' = restarts + 1
                   /\ running' = FALSE
                   /\ leaked' = FALSE
                   /\ pass' = [k \in RunKind |-> NoRun]
                   /\ UNCHANGED <<clock, rows>>

(* What the dashboard shows of a coldkey: its rows with MAX(fetched_at).     *)
coldkey_cards(ck) ==
    LET mine == {r \in rows : r.coldkey = ck}
    IN  {r \in mine : \A other \in mine : other.fetched_at <= r.fetched_at}

RunStep(k) == \/ Begin(k) \/ InsertRow(k) \/ EndRun(k)
              \/ \E ck \in Coldkey : FetchFromChain(k, ck) \/ FetchFromTaoStats(k, ck)

BalanceNext == \/ \E target \in SUBSET Coldkey \ {{}} : StartManual(target)
               \/ StartNightly
               \/ \E k \in RunKind : RunStep(k) \/ NoConnection(k) \/ RunRaises(k)
               \/ TrackerRestarts

(* Every call a run makes has a timeout of its own.                         *)
BalanceFairness == \A k \in RunKind : WF_balanceVars(RunStep(k))

BalanceSpec == BalanceInit /\ [][BalanceNext]_balanceVars /\ BalanceFairness

---------------------------------------------------------------------------
(* Properties                                                               *)

Live(k) == pass[k].pc # "none"

(* The card of every coldkey a run has passed is of that run or of a        *)
(* younger one, though its figures could not be read ("Every coldkey gets a *)
(* row, even when a fetch fails") and other runs write at the same time;    *)
(* and no card has two rows to choose from.                                 *)
CardsFollowTheRuns ==
    /\ \A ck \in Coldkey : Cardinality(coldkey_cards(ck)) <= 1
    /\ \A k \in RunKind : pass[k].pc \in {"loop", "fetched"} =>
           \A ck \in pass[k].target \ pass[k].todo :
               \E card \in coldkey_cards(ck) : card.fetched_at >= pass[k].fetched_at

(* A row shows a wallet's own figures, TaoStats' for both, or NULL where    *)
(* nothing could be read, never a figure nobody gave; the only zero that is *)
(* not the wallet's comes of a btcli that printed nothing ("zero means      *)
(* empty and None means unknown").                                          *)
FiguresAreTrue ==
    \A r \in rows :
        /\ (r.free = "told") = (r.stake = "told")
        /\ r.free # "zero"
        /\ r.stake = "zero" /\ r.coldkey \in Staked => r.silence

(* A stake of zero is shown only of a wallet that holds none: "None when    *)
(* the wallet is not on this host or the read failed. Zero is a real answer *)
(* and says so."                                                            *)
ZeroIsZero == \A r \in rows : r.stake = "zero" => r.coldkey \notin Staked

(* A click is refused while a run of the runner is in flight, whatever the  *)
(* nightly job and the database do; and for good, until the tracker is      *)
(* restarted, once the runner's thread got no connection: the finally that  *)
(* clears _running does not cover conn_factory(). At no other time.         *)
RefusedInFlightOrLeaked == running <=> Live("manual") \/ leaked

(* The buttons work again in the end, however a refresh they started ends,  *)
(* but for the one whose thread got no connection.                          *)
RunnerIsFreed == running ~> (~running \/ leaked)

(* "Returns False when one is already in flight", and only then: the caller *)
(* "should tell the user to wait".                                          *)
RefusedOnlyInFlight == running => Live("manual")

(* "The lock is what stops a click during the nightly run from opening a    *)
(* second pass over the same coldkeys".                                     *)
ClickAtNightIsRefused ==
    [][\A target \in SUBSET Coldkey : StartManual(target) => ~Live("nightly")]_balanceVars
=============================================================================
