-------------------------- MODULE SnapshotsProofs --------------------------
(* Proofs about the snapshot worker, for any set of hotkeys, any number of  *)
(* jobs that run it at once and any bounds: what a status tells, that no    *)
(* row is written twice, and that the tables are those of SnapshotTable.    *)
EXTENDS Snapshots, FiniteSetTheorems, SequenceTheorems, TLAPS

Busy(t) == t.pc \in {"loop", "confirm"}

WorksOn(t, table) == t.id \in DOMAIN table /\ table[t.id].status = "in_progress"

(* Each run at work has a snapshot in progress, which no other run has.     *)
RunsOwnOne ==
    /\ \A j \in Job : Busy(run[j]) => WorksOn(run[j], snapshots)
    /\ \A j, k \in Job : Busy(run[j]) /\ Busy(run[k]) /\ run[j].id = run[k].id => j = k

(* What a run t has counted, when the hotkeys `without` have no row yet: in *)
(* the first pass they are those still to do and those that failed, in the  *)
(* second the failures are all that lack one.                               *)
PassIsAccounted(t, without) ==
    /\ t.todo \subseteq without
    /\ t.pc = "confirm" => t.key \in t.todo
    /\ t.second  => t.fail = Cardinality(without)
    /\ ~t.second => t.failed = without \ t.todo /\ t.fail = Cardinality(t.failed)

PassesAreAccounted ==
    \A j \in Job : Busy(run[j]) => PassIsAccounted(run[j], Missing(snapshots[run[j].id]))

(* `left` says that the cleanup failed the snapshot.                        *)
StatusIsTrue(s, left) ==
    /\ s.status = "ok"      => Missing(s) = {}
    /\ s.status = "partial" => Missing(s) # {} /\ Missing(s) # Hotkey
    /\ s.status = "failed"  => Missing(s) = Hotkey \/ left

StatusesAreTrue == \A id \in DOMAIN snapshots : StatusIsTrue(snapshots[id], id \in orphaned)

SnapshotsInv == /\ SnapshotsTypeOK
                /\ RunsOwnOne
                /\ PassesAreAccounted
                /\ StatusesAreTrue

---------------------------------------------------------------------------
(* Counting hotkeys.                                                        *)

(* What is counted is finite.                                               *)
LEMMA SubsetsAreFinite ==
    ASSUME NEW S \in SUBSET Hotkey
    PROVE  IsFiniteSet(S) /\ Cardinality(S) \in Nat
BY HotkeysAreFinite, FS_Subset, FS_CardinalityType

(* One more without a row, or one less.                                     *)
LEMMA OneMoreOneLess ==
    ASSUME NEW S \in SUBSET Hotkey, NEW h \in Hotkey
    PROVE  /\ h \notin S => Cardinality(S \cup {h}) = Cardinality(S) + 1
           /\ h \in S    => /\ Cardinality(S \ {h}) = Cardinality(S) - 1
                            /\ Cardinality(S) > 0
<1>1. IsFiniteSet(S) /\ Cardinality(S) \in Nat
  BY SubsetsAreFinite
<1>2. h \notin S => Cardinality(S \cup {h}) = Cardinality(S) + 1
  BY <1>1, FS_AddElement
<1>3. h \in S => Cardinality(S \ {h}) = Cardinality(S) - 1
  BY <1>1, FS_RemoveElement
<1>4. h \in S => Cardinality(S) > 0
  BY <1>1, FS_EmptySet
<1> QED
  BY <1>2, <1>3, <1>4

(* Nobody failed, some, all.                                                *)
LEMMA CountTells ==
    ASSUME NEW S \in SUBSET Hotkey
    PROVE  /\ Cardinality(S) = 0 <=> S = {}
           /\ Cardinality(S) < Cardinality(Hotkey) <=> S # Hotkey
<1>1. IsFiniteSet(S) /\ Cardinality(S) \in Nat /\ Cardinality(Hotkey) \in Nat
  BY SubsetsAreFinite
<1>2. Cardinality(S) = 0 <=> S = {}
  BY <1>1, FS_EmptySet
<1>3. S # Hotkey => Cardinality(S) < Cardinality(Hotkey)
  <2>1. Cardinality(S) <= Cardinality(Hotkey) /\ (Cardinality(S) = Cardinality(Hotkey) => S = Hotkey)
    BY HotkeysAreFinite, FS_Subset
  <2> QED
    BY <1>1, <2>1
<1>4. Cardinality(S) < Cardinality(Hotkey) => S # Hotkey
  BY <1>1
<1> QED
  BY <1>2, <1>3, <1>4

---------------------------------------------------------------------------
(* The two loops.                                                           *)

(* An INSERT takes its hotkey out of those without a row.                   *)
LEMMA RowFills ==
    ASSUME NEW s \in Snapshot, NEW h \in Hotkey, NEW r \in Row \ {"none"}
    PROVE  /\ [s EXCEPT !.row[h] = r] \in Snapshot
           /\ [s EXCEPT !.row[h] = r].status = s.status
           /\ Missing([s EXCEPT !.row[h] = r]) = Missing(s) \ {h}
<1> DEFINE filled == [s EXCEPT !.row[h] = r]
<1>1. /\ filled.status = s.status
      /\ filled.row = [s.row EXCEPT ![h] = r]
      /\ s.row \in [Hotkey -> Row] /\ s.status \in Status
      /\ filled = [status |-> filled.status, row |-> filled.row]
  BY DEF Snapshot
<1>2. filled.row \in [Hotkey -> Row]
  BY <1>1
<1>3. filled \in Snapshot
  BY <1>1, <1>2 DEF Snapshot
<1>4. Missing(filled) = Missing(s) \ {h}
  BY <1>1 DEF Missing
<1> QED
  BY <1>1, <1>3, <1>4

(* An answered hotkey, its row written, is accounted for in either pass.    *)
LEMMA AnsweredAccounts ==
    ASSUME NEW t \in Run, NEW without \in SUBSET Hotkey, NEW h \in t.todo,
           PassIsAccounted(t, without)
    PROVE  /\ Answered(t, h) \in Run
           /\ Answered(t, h).pc = "loop" /\ Answered(t, h).id = t.id
           /\ PassIsAccounted(Answered(t, h), without \ {h})
<1> DEFINE u == Answered(t, h)
<1>1. /\ u.pc = "loop" /\ u.id = t.id /\ u.key = NoKey /\ u.todo = t.todo \ {h}
      /\ u.failed = t.failed /\ u.second = t.second
      /\ u.fail = IF t.second THEN t.fail - 1 ELSE t.fail
  BY DEF Answered, Run
<1>2. h \in Hotkey /\ h \in without /\ t.fail \in Nat /\ t.todo \subseteq Hotkey
  BY DEF Run, PassIsAccounted
<1>3. /\ Cardinality(without \ {h}) = Cardinality(without) - 1 /\ Cardinality(without) > 0
      /\ Cardinality(without) \in Nat
  BY <1>2, OneMoreOneLess, SubsetsAreFinite
<1>4. u.fail \in Nat /\ (t.second => u.fail = Cardinality(without \ {h}))
  BY <1>1, <1>2, <1>3 DEF PassIsAccounted
<1>5. u \in Run
  <2> DEFINE count == IF t.second THEN t.fail - 1 ELSE t.fail
  <2>1. count \in Nat /\ t.todo \ {h} \in SUBSET Hotkey
    BY <1>1, <1>2, <1>4
  <2>2. u = [t EXCEPT !.pc = "loop", !.key = NoKey, !.todo = t.todo \ {h}, !.fail = count]
    BY DEF Answered, Run
  <2> HIDE DEF count, u
  <2> QED
    BY <2>1, <2>2 DEF Run
<1>6. ~t.second => u.failed = (without \ {h}) \ u.todo /\ u.fail = Cardinality(u.failed)
  BY <1>1 DEF PassIsAccounted
<1>7. u.todo \subseteq without \ {h}
  BY <1>1 DEF PassIsAccounted
<1> HIDE DEF u
<1>8. PassIsAccounted(u, without \ {h})
  BY <1>1, <1>4, <1>6, <1>7 DEF PassIsAccounted
<1> QED
  BY <1>1, <1>5, <1>8 DEF u

(* So is one that was not, which has no row.                                *)
LEMMA UnansweredAccounts ==
    ASSUME NEW t \in Run, NEW without \in SUBSET Hotkey, NEW h \in t.todo,
           PassIsAccounted(t, without)
    PROVE  /\ Unanswered(t, h) \in Run
           /\ Unanswered(t, h).pc = "loop" /\ Unanswered(t, h).id = t.id
           /\ PassIsAccounted(Unanswered(t, h), without)
<1> DEFINE u == Unanswered(t, h)
<1>1. /\ u.pc = "loop" /\ u.id = t.id /\ u.key = NoKey /\ u.todo = t.todo \ {h}
      /\ u.failed = IF t.second THEN t.failed ELSE t.failed \cup {h}
      /\ u.second = t.second
      /\ u.fail = IF t.second THEN t.fail ELSE t.fail + 1
  BY DEF Unanswered, Run
<1>2. h \in Hotkey /\ h \in without /\ t.fail \in Nat /\ t.todo \subseteq Hotkey /\ t.failed \subseteq Hotkey
  BY DEF Run, PassIsAccounted
<1>3. u \in Run
  <2> DEFINE count  == IF t.second THEN t.fail ELSE t.fail + 1
             missed == IF t.second THEN t.failed ELSE t.failed \cup {h}
  <2>1. count \in Nat /\ missed \in SUBSET Hotkey /\ t.todo \ {h} \in SUBSET Hotkey
    BY <1>2
  <2>2. u = [t EXCEPT !.pc = "loop", !.key = NoKey, !.todo = t.todo \ {h}, !.fail = count,
                      !.failed = missed]
    BY DEF Unanswered, Run
  <2> HIDE DEF count, missed, u
  <2> QED
    BY <2>1, <2>2 DEF Run
<1>4. ~t.second => u.failed = without \ u.todo /\ u.fail = Cardinality(u.failed)
  <2> SUFFICES ASSUME ~t.second PROVE u.failed = without \ u.todo /\ u.fail = Cardinality(u.failed)
    OBVIOUS
  <2>1. t.failed = without \ t.todo /\ t.fail = Cardinality(t.failed)
    BY DEF PassIsAccounted
  <2>2. Cardinality(t.failed \cup {h}) = Cardinality(t.failed) + 1
    BY <1>2, <2>1, OneMoreOneLess
  <2> QED
    BY <1>1, <1>2, <2>1, <2>2
<1>5. u.todo \subseteq without
  BY <1>1 DEF PassIsAccounted
<1>6. t.second => u.fail = Cardinality(without)
  BY <1>1 DEF PassIsAccounted
<1> HIDE DEF u
<1>7. PassIsAccounted(u, without)
  BY <1>1, <1>4, <1>5, <1>6 DEF PassIsAccounted
<1> QED
  BY <1>1, <1>3, <1>7 DEF u

(* What a run at work has in hand.                                          *)
LEMMA BusyHas ==
    ASSUME SnapshotsInv, NEW j \in Job, Busy(run[j])
    PROVE  /\ run[j] \in Run
           /\ run[j].id \in DOMAIN snapshots
           /\ snapshots[run[j].id] \in Snapshot
           /\ snapshots[run[j].id].status = "in_progress"
           /\ Missing(snapshots[run[j].id]) \in SUBSET Hotkey
           /\ PassIsAccounted(run[j], Missing(snapshots[run[j].id]))
<1>1. run[j] \in Run /\ WorksOn(run[j], snapshots) /\ snapshots \in Seq(Snapshot)
  BY DEF SnapshotsInv, SnapshotsTypeOK, TableTypeOK, RunsOwnOne
<1>2. run[j].id \in DOMAIN snapshots /\ snapshots[run[j].id].status = "in_progress"
  BY <1>1 DEF WorksOn
<1>3. snapshots[run[j].id] \in Snapshot
  BY <1>1, <1>2
<1> QED
  BY <1>1, <1>2, <1>3 DEF SnapshotsInv, PassesAreAccounted, Missing

(* A run of the worker goes on, with its snapshot s, to t.                  *)
LEMMA WorkerGoesOn ==
    ASSUME SnapshotsInv, NEW j \in Job, Busy(run[j]),
           NEW t \in Run, Busy(t), t.id = run[j].id,
           NEW s \in Snapshot, s.status = "in_progress", PassIsAccounted(t, Missing(s)),
           snapshots' = [snapshots EXCEPT ![run[j].id] = s],
           run' = [run EXCEPT ![j] = t],
           UNCHANGED Others
    PROVE  SnapshotsInv'
<1>1. run \in [Job -> Run] /\ snapshots \in Seq(Snapshot) /\ run[j].id \in DOMAIN snapshots
  BY BusyHas DEF SnapshotsInv, SnapshotsTypeOK, TableTypeOK
<1>2. /\ run'[j] = t /\ \A k \in Job \ {j} : run'[k] = run[k]
      /\ DOMAIN snapshots' = DOMAIN snapshots /\ snapshots'[run[j].id] = s
      /\ \A id \in DOMAIN snapshots \ {run[j].id} : snapshots'[id] = snapshots[id]
  BY <1>1
<1>3. SnapshotsTypeOK'
  <2>1. snapshots' \in Seq(Snapshot) /\ Len(snapshots') = Len(snapshots)
    BY <1>1
  <2>2. run' \in [Job -> Run]
    BY <1>1
  <2> QED
    BY <2>1, <2>2 DEF SnapshotsInv, SnapshotsTypeOK, TableTypeOK, Others
<1>4. RunsOwnOne'
  <2>1. ASSUME NEW k \in Job, Busy(run'[k]) PROVE WorksOn(run'[k], snapshots')
    <3>1. Busy(run[k]) /\ run'[k].id = run[k].id
      BY <1>2, <2>1
    <3>2. WorksOn(run[k], snapshots)
      BY <3>1 DEF SnapshotsInv, RunsOwnOne
    <3> QED
      BY <1>2, <3>1, <3>2 DEF WorksOn
  <2>2. ASSUME NEW k \in Job, NEW l \in Job, Busy(run'[k]), Busy(run'[l]), run'[k].id = run'[l].id
        PROVE  k = l
    BY <1>2, <2>2 DEF SnapshotsInv, RunsOwnOne
  <2> QED
    BY <2>1, <2>2 DEF RunsOwnOne
<1>5. PassesAreAccounted'
  <2> SUFFICES ASSUME NEW k \in Job, Busy(run'[k])
               PROVE  PassIsAccounted(run'[k], Missing(snapshots'[run'[k].id]))
    BY DEF PassesAreAccounted
  <2>1. CASE k = j
    BY <1>2, <2>1
  <2>2. CASE k # j
    <3>1. run'[k] = run[k] /\ run[k].id # run[j].id /\ run[k].id \in DOMAIN snapshots
      BY <1>2, <2>2 DEF SnapshotsInv, RunsOwnOne, WorksOn
    <3> QED
      BY <1>2, <3>1, BusyHas
  <2> QED
    BY <2>1, <2>2
<1>6. StatusesAreTrue'
  BY <1>2 DEF SnapshotsInv, StatusesAreTrue, StatusIsTrue, Others
<1> QED
  BY <1>3, <1>4, <1>5, <1>6 DEF SnapshotsInv

(* A job that waits, or has run for the last time.                          *)
LEMMA RestingRuns == IdleRun \in Run /\ ~Busy(IdleRun) /\ DoneRun \in Run /\ ~Busy(DoneRun)
<1>1. IdleRun \in Run /\ IdleRun.pc = "idle"
  BY TableAssumption DEF IdleRun, Run
<1>2. DoneRun \in Run /\ DoneRun.pc = "done"
  BY <1>1 DEF DoneRun, Run
<1> QED
  BY <1>1, <1>2 DEF Busy

(* A run of the worker ends, and leaves its snapshot s.                     *)
LEMMA WorkerEnds ==
    ASSUME SnapshotsInv, NEW j \in Job, Busy(run[j]),
           NEW s \in Snapshot, StatusIsTrue(s, FALSE),
           snapshots' = [snapshots EXCEPT ![run[j].id] = s],
           run' = [run EXCEPT ![j] = Ended(j)],
           UNCHANGED <<up, crashes, orphaned>>, aborted' \subseteq aborted \cup {run[j].id}
    PROVE  SnapshotsInv'
<1>1. run \in [Job -> Run] /\ snapshots \in Seq(Snapshot) /\ run[j].id \in DOMAIN snapshots
  BY BusyHas DEF SnapshotsInv, SnapshotsTypeOK, TableTypeOK
<1>2. Ended(j) \in Run /\ ~Busy(Ended(j))
  BY RestingRuns DEF Ended
<1>3. /\ run'[j] = Ended(j) /\ \A k \in Job \ {j} : run'[k] = run[k]
      /\ DOMAIN snapshots' = DOMAIN snapshots /\ snapshots'[run[j].id] = s
      /\ \A id \in DOMAIN snapshots \ {run[j].id} : snapshots'[id] = snapshots[id]
  BY <1>1
<1>4. SnapshotsTypeOK'
  <2>1. snapshots' \in Seq(Snapshot) /\ Len(snapshots') = Len(snapshots) /\ DOMAIN snapshots = 1 .. Len(snapshots)
        /\ Len(snapshots) \in Nat
    BY <1>1
  <2>2. run' \in [Job -> Run]
    BY <1>1, <1>2
  <2>3. aborted' \subseteq 1 .. MaxSnapshots
    BY <1>1, <2>1, TableAssumption DEF SnapshotsInv, SnapshotsTypeOK, TableTypeOK
  <2> QED
    BY <2>1, <2>2, <2>3 DEF SnapshotsInv, SnapshotsTypeOK, TableTypeOK
<1>5. ASSUME NEW k \in Job, Busy(run'[k])
      PROVE  /\ k # j /\ run'[k] = run[k] /\ Busy(run[k])
             /\ run[k].id # run[j].id /\ WorksOn(run[k], snapshots)
             /\ snapshots'[run[k].id] = snapshots[run[k].id]
  <2>1. k # j /\ run'[k] = run[k] /\ Busy(run[k])
    BY <1>2, <1>3, <1>5
  <2>2. run[k].id # run[j].id /\ WorksOn(run[k], snapshots)
    BY <2>1 DEF SnapshotsInv, RunsOwnOne
  <2> QED
    BY <1>3, <2>1, <2>2 DEF WorksOn
<1>6. RunsOwnOne'
  <2>1. ASSUME NEW k \in Job, Busy(run'[k]) PROVE WorksOn(run'[k], snapshots')
    BY <1>3, <1>5, <2>1 DEF WorksOn
  <2>2. ASSUME NEW k \in Job, NEW l \in Job, Busy(run'[k]), Busy(run'[l]), run'[k].id = run'[l].id
        PROVE  k = l
    <3>1. Busy(run[k]) /\ Busy(run[l]) /\ run[k].id = run[l].id
      BY <1>5, <2>2
    <3> QED
      BY <3>1 DEF SnapshotsInv, RunsOwnOne
  <2> QED
    BY <2>1, <2>2 DEF RunsOwnOne
<1>7. PassesAreAccounted'
  <2> SUFFICES ASSUME NEW k \in Job, Busy(run'[k])
               PROVE  PassIsAccounted(run'[k], Missing(snapshots'[run'[k].id]))
    BY DEF PassesAreAccounted
  <2> QED
    BY <1>5 DEF SnapshotsInv, PassesAreAccounted
<1>8. StatusesAreTrue'
  BY <1>3 DEF SnapshotsInv, StatusesAreTrue, StatusIsTrue
<1> QED
  BY <1>4, <1>6, <1>7, <1>8 DEF SnapshotsInv

---------------------------------------------------------------------------
(* The steps.                                                               *)

(* Nothing is opened, nothing runs.                                         *)
LEMMA InitSnapshots == SnapshotsInit => SnapshotsInv
<1> SUFFICES ASSUME SnapshotsInit PROVE SnapshotsInv
  OBVIOUS
<1>1. snapshots = <<>> /\ \A j \in Job : run[j] = IdleRun
  BY DEF SnapshotsInit, TableInit
<1>2. SnapshotsTypeOK
  <2>1. snapshots \in Seq(Snapshot) /\ Len(snapshots) <= MaxSnapshots
    BY <1>1, TableAssumption
  <2>2. run \in [Job -> Run]
    BY RestingRuns DEF SnapshotsInit
  <2>3. crashes \in 0 .. MaxCrash
    BY CrashAssumption DEF SnapshotsInit
  <2> QED
    BY <2>1, <2>2, <2>3 DEF SnapshotsInit, SnapshotsTypeOK, TableTypeOK
<1>3. RunsOwnOne /\ PassesAreAccounted
  BY <1>1, RestingRuns DEF RunsOwnOne, PassesAreAccounted
<1>4. StatusesAreTrue
  BY <1>1 DEF StatusesAreTrue
<1> QED
  BY <1>2, <1>3, <1>4 DEF SnapshotsInv

(* A snapshot as it is opened.                                              *)
LEMMA OpenedIsEmpty ==
    Opened \in Snapshot /\ Opened.status = "in_progress" /\ Missing(Opened) = Hotkey
BY DEF Opened, Snapshot, Status, Row, Missing

(* The new id is nobody else's.                                             *)
LEMMA StartKeeps ==
    ASSUME SnapshotsInv, NEW j \in Job, StartRun(j)
    PROVE  SnapshotsInv'
<1> DEFINE new == Len(snapshots) + 1
           t   == [IdleRun EXCEPT !.pc = "loop", !.id = new, !.todo = Hotkey]
<1>1. /\ run \in [Job -> Run] /\ snapshots \in Seq(Snapshot)
      /\ Len(snapshots) < MaxSnapshots /\ snapshots' = Append(snapshots, Opened)
      /\ run' = [run EXCEPT ![j] = t] /\ UNCHANGED Others
  BY DEF StartRun, Open, SnapshotsInv, SnapshotsTypeOK, TableTypeOK
<1>2. new \in 1 .. MaxSnapshots
  BY <1>1, TableAssumption
<1>3. /\ t.pc = "loop" /\ t.id = new /\ t.todo = Hotkey /\ t.failed = {} /\ t.fail = 0
      /\ t.second = FALSE
  BY DEF IdleRun
<1>4. t \in Run
  <2>1. new \in 0 .. MaxSnapshots /\ Hotkey \in SUBSET Hotkey
    BY <1>2
  <2>2. [IdleRun EXCEPT !.pc = "loop"] \in Run
    BY RestingRuns DEF Run
  <2> HIDE DEF new
  <2>3. [IdleRun EXCEPT !.pc = "loop", !.id = new] \in Run
    BY <2>1, <2>2 DEF Run
  <2> QED
    BY <2>1, <2>3 DEF Run
<1>5. Busy(t) /\ PassIsAccounted(t, Hotkey)
  BY <1>3, FS_EmptySet DEF Busy, PassIsAccounted
<1> HIDE DEF t
<1>6. /\ DOMAIN snapshots' = DOMAIN snapshots \cup {new} /\ new \notin DOMAIN snapshots
      /\ snapshots'[new] = Opened
      /\ \A id \in DOMAIN snapshots : snapshots'[id] = snapshots[id]
  BY <1>1
<1>7. run'[j] = t /\ \A k \in Job \ {j} : run'[k] = run[k]
  BY <1>1
<1>8. ASSUME NEW k \in Job, k # j, Busy(run'[k])
      PROVE  /\ run'[k] = run[k] /\ Busy(run[k]) /\ WorksOn(run[k], snapshots)
             /\ run[k].id # new /\ snapshots'[run[k].id] = snapshots[run[k].id]
  BY <1>6, <1>7, <1>8 DEF SnapshotsInv, RunsOwnOne, WorksOn
<1>9. SnapshotsTypeOK'
  <2>1. snapshots' \in Seq(Snapshot) /\ Len(snapshots') = new
    BY <1>1, OpenedIsEmpty
  <2>2. run' \in [Job -> Run]
    BY <1>1, <1>4
  <2> QED
    BY <1>1, <1>2, <2>1, <2>2 DEF SnapshotsInv, SnapshotsTypeOK, TableTypeOK, Others
<1>10. RunsOwnOne'
  <2>1. ASSUME NEW k \in Job, Busy(run'[k]) PROVE WorksOn(run'[k], snapshots')
    BY <1>3, <1>6, <1>7, <1>8, <2>1, OpenedIsEmpty DEF WorksOn
  <2>2. ASSUME NEW k \in Job, NEW l \in Job, Busy(run'[k]), Busy(run'[l]), run'[k].id = run'[l].id
        PROVE  k = l
    BY <1>3, <1>7, <1>8, <2>2 DEF SnapshotsInv, RunsOwnOne
  <2> QED
    BY <2>1, <2>2 DEF RunsOwnOne
<1>11. PassesAreAccounted'
  <2> SUFFICES ASSUME NEW k \in Job, Busy(run'[k])
               PROVE  PassIsAccounted(run'[k], Missing(snapshots'[run'[k].id]))
    BY DEF PassesAreAccounted
  <2>1. CASE k = j
    BY <1>3, <1>5, <1>6, <1>7, <2>1, OpenedIsEmpty
  <2>2. CASE k # j
    BY <1>8, <2>2 DEF SnapshotsInv, PassesAreAccounted
  <2> QED
    BY <2>1, <2>2
<1>12. StatusesAreTrue'
  BY <1>1, <1>6, OpenedIsEmpty DEF SnapshotsInv, StatusesAreTrue, StatusIsTrue, Others
<1> QED
  BY <1>9, <1>10, <1>11, <1>12 DEF SnapshotsInv

(* What the two fetches of a hotkey come to: its row, a failure, or a look  *)
(* to be confirmed.                                                         *)
FetchEnds(j, h) == \/ GotInfo(j, h)
                   \/ GotError(j, h)
                   \/ /\ Insert(j, h, "deregistered")
                      /\ run' = [run EXCEPT ![j] = Answered(@, h)]
                      /\ UNCHANGED Others
                   \/ /\ run[j].pc = "loop"
                      /\ run' = [run EXCEPT ![j].pc = "confirm", ![j].key = h]
                      /\ UNCHANGED <<snapshots, up, crashes, aborted, orphaned>>

(* Fetch and Confirm are about a hotkey that is still to do.                *)
LEMMA FetchIsOfOne ==
    ASSUME SnapshotsInv, NEW j \in Job, (\E h \in Hotkey : Fetch(j, h)) \/ Confirm(j)
    PROVE  Busy(run[j]) /\ \E h \in Hotkey : h \in run[j].todo /\ FetchEnds(j, h)
<1>1. CASE \E h \in Hotkey : Fetch(j, h)
  BY <1>1 DEF Fetch, FetchEnds, Running, Busy
<1>2. CASE Confirm(j)
  <2>1. Busy(run[j]) /\ run[j].pc = "confirm"
    BY <1>2 DEF Confirm, Running, Busy
  <2>2. run[j].key \in run[j].todo /\ run[j].key \in Hotkey
    BY <2>1, BusyHas DEF PassIsAccounted
  <2> QED
    BY <1>2, <2>1, <2>2 DEF Confirm, FetchEnds
<1> QED
  BY <1>1, <1>2

(* What is fetched is written into a place that is free.                    *)
LEMMA FetchKeeps ==
    ASSUME SnapshotsInv, NEW j \in Job, Busy(run[j]),
           NEW h \in Hotkey, h \in run[j].todo, FetchEnds(j, h)
    PROVE  SnapshotsInv' /\ [TableNext]_snapshots
<1> DEFINE t == run[j]
           s == snapshots[run[j].id]
<1>1. /\ t \in Run /\ t.id \in DOMAIN snapshots /\ s \in Snapshot /\ s.status = "in_progress"
      /\ Missing(s) \in SUBSET Hotkey /\ PassIsAccounted(t, Missing(s))
      /\ snapshots \in Seq(Snapshot) /\ run \in [Job -> Run]
  BY BusyHas DEF SnapshotsInv, SnapshotsTypeOK, TableTypeOK
<1>2. ASSUME NEW r \in Row \ {"none"}, Insert(j, h, r), run' = [run EXCEPT ![j] = Answered(@, h)],
             UNCHANGED Others
      PROVE  SnapshotsInv' /\ [TableNext]_snapshots
  <2> DEFINE filled == [s EXCEPT !.row[h] = r]
             u      == Answered(t, h)
  <2>1. filled \in Snapshot /\ filled.status = "in_progress" /\ Missing(filled) = Missing(s) \ {h}
    BY <1>1, RowFills
  <2>2. u \in Run /\ u.pc = "loop" /\ u.id = t.id /\ PassIsAccounted(u, Missing(s) \ {h})
    BY <1>1, AnsweredAccounts
  <2>3. snapshots' = [snapshots EXCEPT ![t.id] = filled] /\ run' = [run EXCEPT ![j] = u]
    BY <1>1, <1>2 DEF Insert
  <2>4. s.row[h] = "none"
    BY <1>1 DEF PassIsAccounted, Missing
  <2>5. Record(t.id, h, r)
    BY <1>1, <1>2, <2>4 DEF Record, InProgress, Insert
  <2>6. TableNext
    BY <1>1, <2>5 DEF TableNext
  <2> HIDE DEF filled, u
  <2>7. Busy(u) /\ PassIsAccounted(u, Missing(filled))
    BY <2>1, <2>2 DEF Busy
  <2>8. SnapshotsInv'
    BY <1>2, <2>1, <2>2, <2>3, <2>7, WorkerGoesOn
  <2> QED
    BY <2>6, <2>8
<1>3. CASE GotError(j, h)
  <2> DEFINE u == Unanswered(t, h)
  <2>1. u \in Run /\ u.pc = "loop" /\ u.id = t.id /\ PassIsAccounted(u, Missing(s))
    BY <1>1, UnansweredAccounts
  <2>2. /\ snapshots' = [snapshots EXCEPT ![t.id] = s] /\ run' = [run EXCEPT ![j] = u]
        /\ UNCHANGED Others /\ UNCHANGED snapshots
    BY <1>1, <1>3 DEF GotError, Others
  <2> HIDE DEF u
  <2> QED
    BY <1>1, <2>1, <2>2, WorkerGoesOn DEF Busy
<1>4. CASE /\ run[j].pc = "loop"
           /\ run' = [run EXCEPT ![j].pc = "confirm", ![j].key = h]
           /\ UNCHANGED <<snapshots, up, crashes, aborted, orphaned>>
  <2> DEFINE u == [t EXCEPT !.pc = "confirm", !.key = h]
  <2>1. /\ u.pc = "confirm" /\ u.id = t.id /\ u.key = h /\ u.todo = t.todo /\ u.failed = t.failed
        /\ u.fail = t.fail /\ u.second = t.second
    BY <1>1 DEF Run
  <2>2. u \in Run
    BY <1>1 DEF Run
  <2>3. run' = [run EXCEPT ![j] = u]
    BY <1>1, <1>4
  <2> HIDE DEF u
  <2>5. /\ snapshots' = [snapshots EXCEPT ![t.id] = s]
        /\ UNCHANGED Others /\ UNCHANGED snapshots
    BY <1>1, <1>4 DEF Others
  <2>4. PassIsAccounted(u, Missing(s)) /\ Busy(u)
    BY <1>1, <2>1 DEF PassIsAccounted, Busy
  <2> QED
    BY <1>1, <2>1, <2>2, <2>3, <2>4, <2>5, WorkerGoesOn
<1> QED
  BY <1>2, <1>3, <1>4 DEF FetchEnds, GotInfo, Row

(* The second pass begins with all that have no row, and no others.         *)
LEMMA SecondPassKeeps ==
    ASSUME SnapshotsInv, NEW j \in Job, SecondPass(j)
    PROVE  SnapshotsInv' /\ UNCHANGED snapshots
<1> DEFINE t == run[j]
           s == snapshots[run[j].id]
           u == [t EXCEPT !.second = TRUE, !.todo = t.failed]
<1>1. /\ Busy(t) /\ t.pc = "loop" /\ t.todo = {} /\ ~t.second /\ run' = [run EXCEPT ![j] = u]
      /\ UNCHANGED <<snapshots, up, crashes, aborted, orphaned>>
  BY DEF SecondPass, Running, Busy, SnapshotsInv, SnapshotsTypeOK
<1>2. /\ t \in Run /\ t.id \in DOMAIN snapshots /\ s \in Snapshot /\ s.status = "in_progress"
      /\ PassIsAccounted(t, Missing(s)) /\ snapshots \in Seq(Snapshot)
  BY <1>1, BusyHas DEF SnapshotsInv, SnapshotsTypeOK, TableTypeOK
<1>3. /\ u.pc = t.pc /\ u.id = t.id /\ u.todo = t.failed /\ u.fail = t.fail /\ u.second = TRUE
  BY <1>2 DEF Run
<1>4. u \in Run
  BY <1>2 DEF Run
<1>5. snapshots' = [snapshots EXCEPT ![t.id] = s] /\ UNCHANGED Others
  BY <1>1, <1>2 DEF Others
<1> HIDE DEF u
<1>6. PassIsAccounted(u, Missing(s))
  BY <1>1, <1>2, <1>3 DEF PassIsAccounted
<1> QED
  BY <1>1, <1>2, <1>3, <1>4, <1>5, <1>6, WorkerGoesOn DEF Busy

(* The status that closes a snapshot is the one its rows call for.          *)
LEMMA CloseKeeps ==
    ASSUME SnapshotsInv, NEW j \in Job, CloseSnapshot(j)
    PROVE  SnapshotsInv' /\ [TableNext]_snapshots
<1> DEFINE t == run[j]
           s == snapshots[run[j].id]
           closed == [s EXCEPT !.status = FinalStatus(t)]
<1>1. /\ Busy(t) /\ t.todo = {} /\ (t.second \/ t.failed = {})
      /\ snapshots' = [snapshots EXCEPT ![t.id].status = FinalStatus(t)]
      /\ run' = [run EXCEPT ![j] = Ended(j)] /\ UNCHANGED Others
  BY DEF CloseSnapshot, Running, Busy
<1>2. /\ t \in Run /\ t.id \in DOMAIN snapshots /\ s \in Snapshot /\ s.status = "in_progress"
      /\ Missing(s) \in SUBSET Hotkey /\ PassIsAccounted(t, Missing(s))
      /\ snapshots \in Seq(Snapshot)
  BY <1>1, BusyHas DEF SnapshotsInv, SnapshotsTypeOK, TableTypeOK
<1>3. t.fail = Cardinality(Missing(s))
  BY <1>1, <1>2 DEF PassIsAccounted
<1>4. FinalStatus(t) = StatusOf(s)
  <2>1. t.fail = 0 <=> Missing(s) = {}
    BY <1>2, <1>3, CountTells
  <2>2. t.fail < Cardinality(Hotkey) <=> Missing(s) # Hotkey
    BY <1>2, <1>3, CountTells
  <2> QED
    BY <2>1, <2>2 DEF FinalStatus, StatusOf
<1>5. /\ closed.status = StatusOf(s) /\ closed.row = s.row /\ closed \in Snapshot
  <2>1. StatusOf(s) \in Status
    BY DEF StatusOf, Status
  <2> QED
    BY <1>2, <1>4, <2>1 DEF Snapshot
<1>6. StatusIsTrue(closed, FALSE)
  <2>1. Missing(closed) = Missing(s)
    BY <1>5 DEF Missing
  <2> QED
    BY <1>5, <2>1 DEF StatusIsTrue, StatusOf
<1>7. snapshots' = [snapshots EXCEPT ![t.id] = closed]
  BY <1>1, <1>2
<1>8. Close(t.id)
  BY <1>1, <1>2, <1>4 DEF Close, InProgress
<1>9. TableNext
  BY <1>2, <1>8 DEF TableNext
<1>10. UNCHANGED <<up, crashes, orphaned>> /\ aborted' \subseteq aborted \cup {t.id}
  BY <1>1 DEF Others
<1> HIDE DEF closed
<1> QED
  BY <1>1, <1>5, <1>6, <1>7, <1>9, <1>10, WorkerEnds

(* A worker that an exception stops leaves its snapshot as it is.           *)
LEMMA RaiseKeeps ==
    ASSUME SnapshotsInv, NEW j \in Job, WriteRaises(j)
    PROVE  SnapshotsInv' /\ UNCHANGED snapshots
<1> DEFINE s == snapshots[run[j].id]
<1>1. /\ Busy(run[j]) /\ run' = [run EXCEPT ![j] = Ended(j)]
      /\ aborted' = aborted \cup {run[j].id} /\ UNCHANGED <<snapshots, up, crashes, orphaned>>
  BY DEF WriteRaises, Running, Busy
<1>2. /\ run[j].id \in DOMAIN snapshots /\ s \in Snapshot /\ s.status = "in_progress"
      /\ snapshots \in Seq(Snapshot)
  BY <1>1, BusyHas DEF SnapshotsInv, SnapshotsTypeOK, TableTypeOK
<1>3. snapshots' = [snapshots EXCEPT ![run[j].id] = s] /\ StatusIsTrue(s, FALSE)
  BY <1>1, <1>2 DEF StatusIsTrue
<1> QED
  BY <1>1, <1>2, <1>3, WorkerEnds

(* After a death nothing runs.                                              *)
LEMMA DeathKeeps ==
    ASSUME SnapshotsInv, TrackerDies
    PROVE  SnapshotsInv' /\ UNCHANGED snapshots
<1>1. /\ \A j \in Job : run'[j] = DoneRun
      /\ UNCHANGED <<snapshots, aborted, orphaned>> /\ up' = FALSE
      /\ crashes' = crashes + 1 /\ crashes < MaxCrash
  BY DEF TrackerDies
<1>2. SnapshotsTypeOK'
  <2>1. run' \in [Job -> Run]
    BY RestingRuns DEF TrackerDies
  <2>2. crashes' \in 0 .. MaxCrash
    BY <1>1, CrashAssumption DEF SnapshotsInv, SnapshotsTypeOK
  <2> QED
    BY <1>1, <2>1, <2>2 DEF SnapshotsInv, SnapshotsTypeOK, TableTypeOK
<1>3. (RunsOwnOne /\ PassesAreAccounted)'
  BY <1>1, RestingRuns DEF RunsOwnOne, PassesAreAccounted
<1>4. StatusesAreTrue'
  BY <1>1 DEF SnapshotsInv, StatusesAreTrue
<1> QED
  BY <1>1, <1>2, <1>3, <1>4 DEF SnapshotsInv

(* The cleanup fails what the dead workers left, and nothing else.          *)
LEMMA RestartKeeps ==
    ASSUME SnapshotsInv, TrackerCleansUp
    PROVE  SnapshotsInv' /\ [TableNext]_snapshots
<1>1. /\ \A j \in Job : run'[j] = IdleRun
      /\ FailOrphans /\ up' = TRUE /\ UNCHANGED <<crashes, aborted>>
      /\ orphaned' = orphaned \cup {id \in DOMAIN snapshots : InProgress(id)}
  BY DEF TrackerCleansUp
<1>2. snapshots \in Seq(Snapshot) /\ DOMAIN snapshots = 1 .. Len(snapshots) /\ Len(snapshots) \in Nat
  BY DEF SnapshotsInv, SnapshotsTypeOK, TableTypeOK
<1>3. ASSUME NEW id \in DOMAIN snapshots
      PROVE  snapshots'[id] \in Snapshot /\ StatusIsTrue(snapshots'[id], id \in orphaned')
  <2>1. CASE InProgress(id)
    <3> DEFINE s == [snapshots[id] EXCEPT !.status = "failed"]
    <3>1. snapshots'[id] = s
      BY <1>1, <2>1 DEF FailOrphans
    <3>2. snapshots[id] \in Snapshot
      BY <1>2
    <3>3. s \in Snapshot /\ s.status = "failed"
      BY <3>2 DEF Snapshot, Status
    <3> QED
      BY <1>1, <2>1, <3>1, <3>3 DEF StatusIsTrue
  <2>2. CASE ~InProgress(id)
    <3>1. snapshots'[id] = snapshots[id]
      BY <1>1, <2>2 DEF FailOrphans
    <3> QED
      BY <1>1, <1>2, <2>2, <3>1 DEF SnapshotsInv, StatusesAreTrue, StatusIsTrue
  <2> QED
    BY <2>1, <2>2
<1>4. DOMAIN snapshots' = DOMAIN snapshots
  BY <1>1 DEF FailOrphans
<1>5. SnapshotsTypeOK'
  <2>1. snapshots' \in [1 .. Len(snapshots) -> Snapshot]
    <3>1. snapshots' = [id \in 1 .. Len(snapshots) |-> snapshots'[id]]
      BY <1>1, <1>2 DEF FailOrphans
    <3> QED
      BY <1>2, <1>3, <3>1
  <2>2. snapshots' \in Seq(Snapshot) /\ Len(snapshots') = Len(snapshots)
    BY <1>2, <2>1, SeqDef
  <2>3. run' \in [Job -> Run]
    BY RestingRuns DEF TrackerCleansUp
  <2>4. orphaned' \subseteq 1 .. MaxSnapshots
    <3>1. DOMAIN snapshots \subseteq 1 .. MaxSnapshots
      BY <1>2, TableAssumption DEF SnapshotsInv, SnapshotsTypeOK, TableTypeOK
    <3> QED
      BY <1>1, <3>1 DEF SnapshotsInv, SnapshotsTypeOK
  <2> QED
    BY <1>1, <2>2, <2>3, <2>4 DEF SnapshotsInv, SnapshotsTypeOK, TableTypeOK
<1>6. (RunsOwnOne /\ PassesAreAccounted)'
  BY <1>1, RestingRuns DEF RunsOwnOne, PassesAreAccounted
<1>7. StatusesAreTrue'
  BY <1>3, <1>4 DEF StatusesAreTrue
<1> QED
  BY <1>1, <1>5, <1>6, <1>7 DEF SnapshotsInv, TableNext

(* Every step keeps the invariant, and is one of the table's or none.       *)
LEMMA NextSnapshots ==
    SnapshotsInv /\ [SnapshotsNext]_vars => SnapshotsInv' /\ [TableNext]_snapshots
<1> SUFFICES ASSUME SnapshotsInv, [SnapshotsNext]_vars PROVE SnapshotsInv' /\ [TableNext]_snapshots
  OBVIOUS
<1>1. ASSUME NEW j \in Job, StartRun(j) PROVE SnapshotsInv' /\ [TableNext]_snapshots
  BY <1>1, StartKeeps DEF StartRun, TableNext
<1>2. ASSUME NEW j \in Job, Work(j) PROVE SnapshotsInv' /\ [TableNext]_snapshots
  <2>1. CASE (\E h \in Hotkey : Fetch(j, h)) \/ Confirm(j)
    BY <2>1, FetchIsOfOne, FetchKeeps
  <2>2. CASE SecondPass(j)
    BY <2>2, SecondPassKeeps
  <2>3. CASE CloseSnapshot(j)
    BY <2>3, CloseKeeps
  <2> QED
    BY <1>2, <2>1, <2>2, <2>3 DEF Work
<1>3. ASSUME NEW j \in Job, WriteRaises(j) PROVE SnapshotsInv' /\ [TableNext]_snapshots
  BY <1>3, RaiseKeeps
<1>4. CASE TrackerDies
  BY <1>4, DeathKeeps
<1>5. CASE TrackerCleansUp
  BY <1>5, RestartKeeps
<1>6. CASE UNCHANGED vars
  BY <1>6 DEF vars, SnapshotsInv, SnapshotsTypeOK, TableTypeOK, RunsOwnOne, PassesAreAccounted,
              StatusesAreTrue
<1> QED
  BY <1>1, <1>2, <1>3, <1>4, <1>5, <1>6 DEF SnapshotsNext

---------------------------------------------------------------------------
(* The results.                                                             *)

(* Tables and runs keep their types; no count of failures becomes negative. *)
THEOREM SnapshotsTypeCorrect == SnapshotsSpec => []SnapshotsTypeOK
<1>1. SnapshotsInv => SnapshotsTypeOK
  BY DEF SnapshotsInv
<1> QED
  BY <1>1, InitSnapshots, NextSnapshots, PTL DEF SnapshotsSpec

(* "ok" has every row, "partial" some, "failed" none but for what the       *)
(* cleanup failed, whatever any number of workers, their exceptions and the *)
(* tracker's deaths do.                                                     *)
THEOREM StatusTells == SnapshotsSpec => []StatusTellsRows
<1>1. SnapshotsInv => StatusTellsRows
  BY DEF SnapshotsInv, StatusesAreTrue, StatusIsTrue, StatusTellsRows
<1> QED
  BY <1>1, InitSnapshots, NextSnapshots, PTL DEF SnapshotsSpec

(* Neither pass asks for a hotkey that has its row, and the failures        *)
(* counted are the hotkeys without one.                                     *)
THEOREM RowsAreWrittenOnce == SnapshotsSpec => []NoRowIsWrittenTwice
<1>1. SnapshotsInv => NoRowIsWrittenTwice
  BY DEF SnapshotsInv, PassesAreAccounted, PassIsAccounted, Busy, NoRowIsWrittenTwice
<1> QED
  BY <1>1, InitSnapshots, NextSnapshots, PTL DEF SnapshotsSpec

(* The worker implements the tables the rest of the tracker relies on.      *)
THEOREM WorkerImplementsTable == SnapshotsSpec => ImplementsTable
<1>1. SnapshotsInit => TableInit
  BY DEF SnapshotsInit
<1> QED
  BY <1>1, InitSnapshots, NextSnapshots, PTL DEF SnapshotsSpec, ImplementsTable, TableSpec
=============================================================================
