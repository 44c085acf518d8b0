----------------------------- MODULE Snapshots -----------------------------
(* The snapshot worker, bot/snapshot.py, as the scheduler and the startup   *)
(* run it (bot/scheduler.py, main.py): one pass over the hotkeys, a second  *)
(* one over those that failed, a row committed per hotkey, the status last. *)
(* Two jobs can run it at once, each on a connection of its own: the        *)
(* interval job and the run at startup.                                     *)
EXTENDS SnapshotTable, FiniteSets

CONSTANTS Job,          \* the jobs that call take_snapshot
          OnceJob,      \* the one added at startup, which runs once
          NoKey,        \* no hotkey in hand
          MaxCrash      \* bound: deaths of the tracker

ASSUME JobAssumption == OnceJob \in Job /\ NoKey \notin Hotkey
ASSUME HotkeysAreFinite == IsFiniteSet(Hotkey)
ASSUME CrashAssumption == MaxCrash \in Nat

VARIABLES run,          \* job |-> where its take_snapshot stands
          up,           \* is the tracker running
          crashes,
          aborted,      \* history: snapshots whose worker was stopped by an exception
          orphaned      \* history: snapshots the cleanup failed

vars == <<snapshots, run, up, crashes, aborted, orphaned>>

(* pc "loop" is the top of either loop, "confirm" is between the first,     *)
(* empty answer and the second fetch for the hotkey `key`; "done" is a job  *)
(* that runs no more until a restart.                                       *)
Run == [pc : {"idle", "loop", "confirm", "done"}, id : 0 .. MaxSnapshots,
        todo : SUBSET Hotkey, key : Hotkey \cup {NoKey},
        failed : SUBSET Hotkey, fail : Nat, second : BOOLEAN]

IdleRun == [pc |-> "idle", id |-> 0, todo |-> {}, key |-> NoKey,
            failed |-> {}, fail |-> 0, second |-> FALSE]
DoneRun == [IdleRun EXCEPT !.pc = "done"]
Ended(j) == IF j = OnceJob THEN DoneRun ELSE IdleRun

SnapshotsTypeOK == /\ TableTypeOK
                   /\ run \in [Job -> Run]
                   /\ up \in BOOLEAN
                   /\ crashes \in 0 .. MaxCrash
                   /\ aborted \subseteq 1 .. MaxSnapshots
                   /\ orphaned \subseteq 1 .. MaxSnapshots

SnapshotsInit == /\ TableInit
                 /\ run = [j \in Job |-> IdleRun]
                 /\ up = TRUE
                 /\ crashes = 0
                 /\ aborted = {}
                 /\ orphaned = {}

---------------------------------------------------------------------------
(* take_snapshot                                                            *)

Running(j) == up /\ run[j].pc \in {"loop", "confirm"}
Others     == <<up, crashes, aborted, orphaned>>

(* Mutant: orphans are cleaned up whenever a run starts.                    *)
StartRunCleansUp(j) ==
    /\ up
    /\ run[j].pc = "idle"
    /\ Len(snapshots) < MaxSnapshots
    /\ snapshots' = Append([id \in DOMAIN snapshots |->
                                IF InProgress(id)
                                THEN [snapshots[id] EXCEPT !.status = "failed"]
                                ELSE snapshots[id]], Opened)
    /\ run' = [run EXCEPT ![j] = [IdleRun EXCEPT !.pc = "loop",
                                     !.id = Len(snapshots) + 1, !.todo = Hotkey]]
    /\ UNCHANGED Others

(* max_instances=1: a job does not start again while it runs.               *)
StartRun(j) == /\ up
               /\ run[j].pc = "idle"
               /\ Open
               /\ run' = [run EXCEPT ![j] = [IdleRun EXCEPT !.pc = "loop",
                                                !.id = Len(snapshots) + 1,
                                                !.todo = Hotkey]]
               /\ UNCHANGED Others

(* Mutant: an answer in the second pass does not take the failure back.     *)
AnsweredStillFails(t, h) ==
    [t EXCEPT !.pc = "loop", !.key = NoKey, !.todo = @ \ {h}]

(* What the loop does with the outcome of one hotkey: in the first pass a   *)
(* failure is counted and kept for the second, in the second an answer      *)
(* takes the failure back.                                                  *)
Answered(t, h) == [t EXCEPT !.pc = "loop", !.key = NoKey, !.todo = @ \ {h},
                            !.fail = IF t.second THEN @ - 1 ELSE @]
Unanswered(t, h) == [t EXCEPT !.pc = "loop", !.key = NoKey, !.todo = @ \ {h},
                              !.fail = IF t.second THEN @ ELSE @ + 1,
                              !.failed = IF t.second THEN @ ELSE @ \cup {h}]

(* The INSERT itself checks nothing.                                        *)
Insert(j, h, r) == snapshots' = [snapshots EXCEPT ![run[j].id].row[h] = r]

GotInfo(j, h) == /\ Insert(j, h, "registered")
                 /\ run' = [run EXCEPT ![j] = Answered(@, h)]
                 /\ UNCHANGED Others

GotError(j, h) == /\ run' = [run EXCEPT ![j] = Unanswered(@, h)]
                  /\ UNCHANGED <<snapshots, up, crashes, aborted, orphaned>>

(* get_neuron gives the neuron, nothing, or raises.                         *)
Fetch(j, h) == /\ Running(j)
               /\ run[j].pc = "loop"
               /\ h \in run[j].todo
               /\ \/ GotInfo(j, h)
                  \/ GotError(j, h)
                  \/ /\ run' = [run EXCEPT ![j].pc = "confirm", ![j].key = h]
                     /\ UNCHANGED <<snapshots, up, crashes, aborted, orphaned>>

(* One empty answer is often a blip: only the second is believed.           *)
Confirm(j) == /\ Running(j)
              /\ run[j].pc = "confirm"
              /\ LET h == run[j].key
                 IN  \/ GotInfo(j, h)
                     \/ GotError(j, h)
                     \/ /\ Insert(j, h, "deregistered")
                        /\ run' = [run EXCEPT ![j] = Answered(@, h)]
                        /\ UNCHANGED Others

(* Mutant: the second pass goes over every hotkey.                          *)
SecondPassOverAll(j) ==
    /\ Running(j) /\ run[j].pc = "loop" /\ run[j].todo = {}
    /\ ~run[j].second /\ run[j].failed # {}
    /\ run' = [run EXCEPT ![j].second = TRUE, ![j].todo = Hotkey]
    /\ UNCHANGED <<snapshots, up, crashes, aborted, orphaned>>

(* Mutant: passes are made until no hotkey fails.                           *)
PassesWithoutEnd(j) ==
    /\ Running(j) /\ run[j].pc = "loop" /\ run[j].todo = {}
    /\ run[j].failed # {} /\ run[j].fail > 0
    /\ run' = [run EXCEPT ![j].second = TRUE, ![j].todo = run[j].failed]
    /\ UNCHANGED <<snapshots, up, crashes, aborted, orphaned>>

SecondPass(j) == /\ Running(j)
                 /\ run[j].pc = "loop"
                 /\ run[j].todo = {}
                 /\ ~run[j].second
                 /\ run[j].failed # {}
                 /\ run' = [run EXCEPT ![j].second = TRUE, ![j].todo = run[j].failed]
                 /\ UNCHANGED <<snapshots, up, crashes, aborted, orphaned>>

FinalStatus(t) == IF t.fail = 0 THEN "ok"
                  ELSE IF t.fail < Cardinality(Hotkey) THEN "partial" ELSE "failed"

CloseSnapshot(j) == /\ Running(j)
                    /\ run[j].pc = "loop"
                    /\ run[j].todo = {}
                    /\ run[j].second \/ run[j].failed = {}
                    /\ snapshots' = [snapshots EXCEPT ![run[j].id].status = FinalStatus(run[j])]
                    /\ run' = [run EXCEPT ![j] = Ended(j)]
                    /\ UNCHANGED Others

(* An INSERT, the UPDATE or their commit raises (the database is locked):   *)
(* the job logs it and ends, and nothing closes its snapshot.               *)
WriteRaises(j) == /\ Running(j)
                  /\ run' = [run EXCEPT ![j] = Ended(j)]
                  /\ aborted' = aborted \cup {run[j].id}
                  /\ UNCHANGED <<snapshots, up, crashes, orphaned>>

---------------------------------------------------------------------------
(* The tracker                                                              *)

TrackerDies == /\ up
               /\ crashes < MaxCrash
               /\ up' = FALSE
               /\ crashes' = crashes + 1
               /\ run' = [j \in Job |-> DoneRun]
               /\ UNCHANGED <<snapshots, aborted, orphaned>>

(* The cleanup runs before the scheduler starts.                            *)
TrackerCleansUp == /\ ~up
                   /\ up' = TRUE
                   /\ FailOrphans
                   /\ orphaned' = orphaned \cup {id \in DOMAIN snapshots : InProgress(id)}
                   /\ run' = [j \in Job |-> IdleRun]
                   /\ UNCHANGED <<crashes, aborted>>

Work(j) == \/ \E h \in Hotkey : Fetch(j, h)
           \/ Confirm(j)
           \/ SecondPass(j)
           \/ CloseSnapshot(j)

SnapshotsNext == \/ \E j \in Job : StartRun(j) \/ Work(j) \/ WriteRaises(j)
                 \/ TrackerDies
                 \/ TrackerCleansUp

(* A fetch always ends (15 seconds a try, three tries), so a run goes on;   *)
(* systemd restarts a tracker that died.                                    *)
SnapshotsFairness == /\ \A j \in Job : WF_vars(Work(j))
                     /\ WF_vars(TrackerCleansUp)

SnapshotsSpec == SnapshotsInit /\ [][SnapshotsNext]_vars /\ SnapshotsFairness

---------------------------------------------------------------------------
(* Properties                                                               *)

(* A status tells which rows there are: "ok" means every hotkey was         *)
(* answered for, "partial" some, and "failed" none, unless the cleanup      *)
(* failed a snapshot its worker had begun to fill: such rows stay, though   *)
(* settleable_snapshots says that failed runs have none.                    *)
StatusTellsRows ==
    \A id \in DOMAIN snapshots :
        LET s == snapshots[id]
        IN  /\ s.status = "ok"      => Missing(s) = {}
            /\ s.status = "partial" => Missing(s) # {} /\ Missing(s) # Hotkey
            /\ s.status = "failed"  => Missing(s) = Hotkey \/ id \in orphaned

(* Neither pass asks for a hotkey that already has its row: the primary key *)
(* would make the second INSERT raise and the whole run would be lost. The  *)
(* count of failures is that of the hotkeys without a row.                  *)
NoRowIsWrittenTwice ==
    \A j \in Job : run[j].pc \in {"loop", "confirm"} =>
        LET without == Missing(snapshots[run[j].id])
        IN  /\ run[j].todo \subseteq without
            /\ run[j].fail = Cardinality(IF run[j].second THEN without ELSE run[j].failed)

(* Everything a worker, a second worker, a death and a restart do to the    *)
(* tables is what SnapshotTable promises: rows only while in progress, one  *)
(* per hotkey, one closing, with the status the rows call for.              *)
ImplementsTable == TableSpec

(* A snapshot in progress is closed in the end, by its worker or by the     *)
(* cleanup after a death, unless an exception stopped its worker.           *)
SnapshotsAreClosed ==
    \A id \in 1 .. MaxSnapshots :
        InProgress(id) ~> (~InProgress(id) \/ id \in aborted)
=============================================================================
