--------------------------- MODULE SnapshotTable ---------------------------
(* The tables snapshots and neuron_snapshots as the rest of the tracker     *)
(* relies on them: a snapshot is opened, gets at most one row per hotkey    *)
(* while it is in progress, and is closed once, with a status that says     *)
(* which rows it has; a restart fails whatever is still in progress.        *)
EXTENDS Naturals, Sequences

CONSTANTS
    Hotkey,         \* the tracked hotkeys
    MaxSnapshots    \* bound: snapshots ever opened

ASSUME TableAssumption == MaxSnapshots \in Nat

VARIABLE snapshots  \* snapshot id |-> its status and its rows

Status == {"in_progress", "ok", "partial", "failed"}
Row    == {"none", "registered", "deregistered"}

Snapshot == [status : Status, row : [Hotkey -> Row]]
Opened   == [status |-> "in_progress", row |-> [h \in Hotkey |-> "none"]]

TableTypeOK == snapshots \in Seq(Snapshot) /\ Len(snapshots) <= MaxSnapshots

TableInit == snapshots = <<>>

InProgress(id) == id \in DOMAIN snapshots /\ snapshots[id].status = "in_progress"
Missing(s)     == {h \in Hotkey : s.row[h] = "none"}

(* The status a finished run gives: all hotkeys answered for, some, none.   *)
StatusOf(s) == CASE Missing(s) = {}      -> "ok"
                 [] Missing(s) = Hotkey /\ Hotkey # {} -> "failed"
                 [] OTHER                -> "partial"

Open == /\ Len(snapshots) < MaxSnapshots
        /\ snapshots' = Append(snapshots, Opened)

Record(id, h, r) == /\ InProgress(id)
                    /\ snapshots[id].row[h] = "none"
                    /\ snapshots' = [snapshots EXCEPT ![id].row[h] = r]

Close(id) == /\ InProgress(id)
             /\ snapshots' = [snapshots EXCEPT ![id].status = StatusOf(snapshots[id])]

(* cleanup_orphaned_snapshots.                                              *)
FailOrphans == snapshots' = [id \in DOMAIN snapshots |->
                                IF InProgress(id)
                                THEN [snapshots[id] EXCEPT !.status = "failed"]
                                ELSE snapshots[id]]

TableNext == \/ Open
             \/ \E id \in DOMAIN snapshots :
                    \/ Close(id)
                    \/ \E h \in Hotkey, r \in Row \ {"none"} : Record(id, h, r)
             \/ FailOrphans

TableSpec == TableInit /\ [][TableNext]_snapshots
=============================================================================
