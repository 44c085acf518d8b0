------------------------------ MODULE BooksProofs ------------------------------
(* Proofs about closing periods and paying out of the Fund, and about what  *)
(* the pages show of both: for any team, any number of handlers whose       *)
(* requests interleave statement by statement on the one connection, any    *)
(* snapshots, settlements, payouts, deletions and restarts.                 *)
EXTENDS Pages, Sums

last(db) == last_settlement_snapshot_id(db)
Rows(db) == db.settlements \cup db.payouts

Db   == [settlements : SUBSET Settlement, payouts : SUBSET Payout, undone : Nat,
         lost : SUBSET (1 .. MaxSnapshots)]
Work == [pc : Pc, kind : {"settlement", "kas", "salary"}, id : Nat, choice : Nat, price : Nat,
         last : Nat, thru : Nat, covers : SUBSET (1 .. MaxSnapshots), total : Nat,
         todo : SUBSET (Line \cup Person)]

BooksTypes ==
    /\ TableTypeOK
    /\ owner \in [Hotkey -> Person]
    /\ view \in Db /\ disk \in Db
    /\ at \in [Handler -> Work]
    /\ restarts \in 0 .. MaxRestart
    /\ late \subseteq DOMAIN snapshots

(* What is summed is finite.                                                *)
OnePerHotkey(lines)  == \A l, m \in lines : l.hotkey = m.hotkey => l = m
FiniteSettlements(S) ==
    /\ IsFiniteSet(S) /\ S \subseteq Settlement
    /\ \A s \in S : IsFiniteSet(s.lines) /\ IsFiniteSet(s.due) /\ OnePerHotkey(s.due)
FinitePayouts(P) == IsFiniteSet(P) /\ P \subseteq Payout
FiniteRows(db)   == FiniteSettlements(db.settlements) /\ FinitePayouts(db.payouts)

(* What a request has computed is fit to be inserted.                       *)
Held(w) ==
    /\ w.pc \in {"boundary", "sum", "settle"} => w.last \in 0 .. MaxSnapshots
    /\ w.pc \in {"sum", "settle"} => w.thru \in 1 .. MaxSnapshots
    /\ w.pc \in {"settle", "settleLines"} => /\ w.todo # {} /\ w.todo \subseteq Line
                                             /\ IsFiniteSet(w.todo) /\ OnePerHotkey(w.todo)
    /\ w.pc = "settleLines" => w.kind = "settlement"
    /\ w.pc \in {"shares", "pay"} => w.total <= MaxPayout
    /\ w.pc \in {"shares", "pay", "payLines"} => w.kind \in {"kas", "salary"}
    /\ w.pc \in {"pay", "payLines"} => w.todo \subseteq Person
    /\ w.pc = "payLines" => w.todo # {}

TypesInv == /\ BooksTypes /\ FiniteRows(view) /\ FiniteRows(disk)
            /\ \A h \in Handler : Held(at[h])

-----------------------------------------------------------------------------
(* What a step of one handler does. Every lemma about an invariant is about *)
(* these.                                                                   *)

Turn(h, w)  == /\ w \in Work /\ Held(w) /\ at' = [at EXCEPT ![h] = w]
               /\ UNCHANGED <<snapshots, owner, restarts, late>>
Reads(h, w) == Turn(h, w) /\ UNCHANGED <<view, disk, mixed>>

(* A line for each hotkey, with its emission in the snapshots covered.      *)
Amounts(covers, lines) == /\ \A k \in Hotkey : \E l \in lines : l.hotkey = k
                          /\ \A l \in lines : l.amount = SumOver(covers, l.hotkey)

AsksToClose(h, w) == /\ Reads(h, w) /\ at[h].pc = "idle" /\ w.pc = "boundary"
                     /\ w.last = last(view)
AsksToPay(h, w)   == /\ Reads(h, w) /\ at[h].pc = "idle" /\ w.pc = "shares"
                     /\ w.total <= kas_balance(view)
Rests(h, w)       == /\ Reads(h, w) /\ at[h].pc \in {"idle", "boundary"}
                     /\ w.pc \in {"idle", "commit"}
Chooses(h, w)     == /\ Reads(h, w) /\ at[h].pc = "boundary" /\ w.pc = "sum"
                     /\ w.last = at[h].last /\ Counted(w.thru) /\ w.last < w.thru
SumsUp(h, w)      == /\ Reads(h, w) /\ at[h].pc = "sum" /\ w.pc = "settle"
                     /\ w.last = at[h].last /\ w.thru = at[h].thru
                     /\ w.covers = Period(w.last, w.thru)
                     /\ Amounts(w.covers, w.todo)
Shares(h, w)      == /\ Reads(h, w) /\ at[h].pc = "shares" /\ w.pc = "pay"
                     /\ w.total = at[h].total

(* A header: no row has its key, and it has no line yet.                    *)
NewHeader(h, s)  == /\ s \in Settlement /\ s = NewSettlement(h)
                    /\ \A t \in view.settlements : t.id < s.id
Heads(h, w, s)   == /\ Turn(h, w) /\ UNCHANGED <<disk, mixed>>
                    /\ at[h].pc = "settle" /\ w.pc = "settleLines" /\ w.todo = at[h].todo
                    /\ NewHeader(h, s) /\ Key(w) = Key(s)
                    /\ view' = [view EXCEPT !.settlements = @ \cup {s}]
NewPayout(h, p)  == /\ p \in Payout /\ p.kind = at[h].kind /\ p.total = at[h].total
                    /\ p.lines = {} /\ p.due = at[h].todo
                    /\ \A q \in view.payouts : Key(q) # Key(p)
HeadsPayout(h, w, p) == /\ Turn(h, w) /\ UNCHANGED <<disk, mixed>>
                        /\ at[h].pc = "pay" /\ NewPayout(h, p)
                        /\ \/ p.due = {} /\ w.pc = "commit"
                           \/ w.pc = "payLines" /\ w.todo = p.due /\ Key(w) = Key(p)
                        /\ view' = [view EXCEPT !.payouts = @ \cup {p}]

(* A line: the row its handler writes gets it, or nothing happens.          *)
Next1(h, w, x) == \/ at[h].todo = {x} /\ w.pc = "commit"
                  \/ /\ at[h].todo # {x} /\ w.pc = at[h].pc /\ Key(w) = Key(at[h])
                     /\ w.todo = at[h].todo \ {x}
Longer(h, x, r) == IF Key(r) = Key(at[h]) THEN [r EXCEPT !.lines = @ \cup {x}] ELSE r
WritesLine(h, w, x) ==
    /\ Turn(h, w) /\ UNCHANGED <<disk, mixed>>
    /\ at[h].pc = "settleLines" /\ x \in at[h].todo /\ Next1(h, w, x)
    /\ view' = [view EXCEPT !.settlements = {Longer(h, x, s) : s \in @}]
WritesShare(h, w, x) ==
    /\ Turn(h, w) /\ UNCHANGED <<disk, mixed>>
    /\ at[h].pc = "payLines" /\ x \in at[h].todo /\ Next1(h, w, x)
    /\ view' = [view EXCEPT !.payouts = {Longer(h, x, p) : p \in @}]
(* No row of the key takes the line.                                        *)
Fails(h, w) ==
    /\ Reads(h, w) /\ w.pc = "idle"
    /\ \/ /\ at[h].pc = "settleLines"
          /\ \E x \in at[h].todo : \A s \in view.settlements :
                 Key(s) = Key(at[h]) => \E l \in s.lines : l.hotkey = x.hotkey
       \/ /\ at[h].pc = "payLines"
          /\ \E x \in at[h].todo : \A p \in view.payouts : Key(p) = Key(at[h]) => x \in p.lines

Undoes(h, w, gone) ==
    /\ Turn(h, w) /\ UNCHANGED disk
    /\ at[h].pc = "idle" /\ w.pc = "commit"
    /\ \E n : /\ gone = {s \in view.settlements : Key(s) = <<"settlement", n>>}
              /\ mixed' = mixed \cup ({<<"settlement", n>>} \cap HalfWritten)
    /\ view' = [view EXCEPT !.settlements = @ \ gone,
                            !.undone = @ + SumFunction([s \in gone |-> Contributed(s)]),
                            !.lost = @ \cup UNION {s.covers : s \in gone}]
TakesBack(h, w, key) ==
    /\ Turn(h, w) /\ UNCHANGED disk
    /\ at[h].pc = "idle" /\ w.pc = "commit" /\ key[1] \in {"kas", "salary"}
    /\ mixed' = mixed \cup ({key} \cap HalfWritten)
    /\ view' = [view EXCEPT !.payouts = {p \in @ : Key(p) # key}]

Saves(h, w) == /\ Turn(h, w) /\ UNCHANGED view /\ at[h].pc = "commit" /\ w.pc = "idle"
               /\ disk' = view /\ mixed' = mixed \cup HalfWritten

Moves(h, w) ==
    \/ AsksToClose(h, w) \/ AsksToPay(h, w) \/ Rests(h, w) \/ Chooses(h, w)
    \/ SumsUp(h, w) \/ Shares(h, w) \/ Fails(h, w) \/ Saves(h, w)
    \/ (\E s : Heads(h, w, s)) \/ (\E p : HeadsPayout(h, w, p))
    \/ (\E x : WritesLine(h, w, x)) \/ (\E x : WritesShare(h, w, x))
    \/ (\E gone : Undoes(h, w, gone)) \/ (\E key : TakesBack(h, w, key))

-----------------------------------------------------------------------------
(* Largest ids.                                                             *)

(* A bounded set of numbers that is not empty has a largest.                *)
LEMMA MaxIs ==
    ASSUME NEW S \in SUBSET Nat, S # {}, NEW m \in Nat, \A x \in S : x <= m
    PROVE  Max(S) \in S /\ \A x \in S : x <= Max(S)
<1> DEFINE T == {n \in Nat : \A x \in S : x <= n}
           R == {p \in Nat \X Nat : p[1] < p[2]}
<1>1. PICK n \in T : \A y \in T : ~(<<y, n>> \in R)
  <2>1. T # {} /\ T \subseteq Nat
    OBVIOUS
  <2>2. IsWellFoundedOn(R, Nat)
    BY NatLessThanWellFounded, Zenon DEF OpToRel
  <2> HIDE DEF T, R
  <2> QED
    BY <2>1, <2>2, WFMin
<1>2. \A y \in T : ~(y < n)
  BY <1>1
<1>3. n \in S
  <2> SUFFICES ASSUME n \notin S PROVE FALSE
    OBVIOUS
  <2>1. PICK x \in S : TRUE
    OBVIOUS
  <2>2. n - 1 \in Nat /\ \A y \in S : y <= n - 1
    BY <2>1
  <2> QED
    BY <1>2, <2>2
<1>4. \E x \in S : \A y \in S : x >= y
  BY <1>3
<1> QED
  BY <1>4, Zenon DEF Max

(* The next id is larger than any there is.                                 *)
LEMMA NextIdIs ==
    ASSUME NEW m \in Nat, NEW rows, \A r \in rows : r.id \in 1 .. m
    PROVE  NextId(rows) \in Nat \ {0} /\ \A r \in rows : r.id < NextId(rows)
<1> DEFINE S == {0} \cup {r.id : r \in rows}
<1>1. S \subseteq Nat /\ S # {} /\ \A x \in S : x <= m
  OBVIOUS
<1>2. \A r \in rows : r.id \in S
  OBVIOUS
<1>3. NextId(rows) = 1 + Max(S)
  BY DEF NextId
<1> HIDE DEF S
<1>4. Max(S) \in Nat /\ \A x \in S : x <= Max(S)
  BY <1>1, MaxIs
<1> QED
  BY <1>1, <1>2, <1>3, <1>4

(* The last boundary is that of the settlement with the largest id.         *)
LEMMA LastIs ==
    ASSUME NEW db \in Db
    PROVE  /\ last(db) \in 0 .. MaxSnapshots /\ last(db) \in Nat
           /\ db.settlements = {} => last(db) = 0
           /\ db.settlements # {} => \E s \in db.settlements :
                  last(db) = s.thru /\ \A t \in db.settlements : t.id <= s.id
<1>1. \A s \in db.settlements : s.id \in 1 .. MaxSettlements /\ s.thru \in 1 .. MaxSnapshots
  BY DEF Db, Settlement
<1>2. MaxSnapshots \in Nat /\ MaxSettlements \in Nat
  BY TableAssumption, BooksAssumption
<1>3. CASE db.settlements = {}
  BY <1>2, <1>3 DEF last, last_settlement_snapshot_id
<1>4. CASE db.settlements # {}
  <2> DEFINE S == {s.id : s \in db.settlements}
  <2>1. S \subseteq Nat /\ S # {} /\ \A x \in S : x <= MaxSettlements
    BY <1>1, <1>2, <1>4
  <2>2. PICK n \in S : \A x \in S : x <= n
    <3> HIDE DEF S
    <3> QED
      BY <1>2, <2>1, MaxIs
  <2>3. \E s \in db.settlements : \A t \in db.settlements : t.id <= s.id
    BY <2>2
  <2>4. PICK latest \in db.settlements :
            /\ \A t \in db.settlements : t.id <= latest.id
            /\ last(db) = latest.thru
    BY <1>4, <2>3, Zenon DEF last, last_settlement_snapshot_id
  <2> QED
    BY <1>1, <1>2, <1>4, <2>4
<1> QED
  BY <1>3, <1>4

-----------------------------------------------------------------------------
(* The snapshots.                                                           *)

(* Snapshots are added, and a closed one stays as it is.                    *)
TableGrows ==
    /\ TableTypeOK' /\ Len(snapshots) <= Len(snapshots')
    /\ \A id \in DOMAIN snapshots : ~InProgress(id) => snapshots'[id] = snapshots[id]

(* A row is changed in place.                                               *)
LEMMA RowChanges ==
    ASSUME TableTypeOK, NEW id, InProgress(id), NEW s \in Snapshot,
           snapshots' = [snapshots EXCEPT ![id] = s]
    PROVE  TableGrows /\ Len(snapshots') = Len(snapshots)
BY DEF TableTypeOK, TableGrows, InProgress

(* The worker's steps.                                                      *)
LEMMA SnapshotStepGrows ==
    ASSUME TableTypeOK, SnapshotStep
    PROVE  TableGrows /\ view = disk /\ UNCHANGED <<owner, view, disk, at, restarts, mixed>>
<1>1. view = disk /\ UNCHANGED <<owner, view, disk, at, restarts, mixed>>
  BY DEF SnapshotStep
<1>2. CASE Open
  <2>1. Opened \in Snapshot
    BY DEF Opened, Snapshot, Status, Row
  <2>2. /\ snapshots \in Seq(Snapshot) /\ Len(snapshots) < MaxSnapshots
        /\ snapshots' = Append(snapshots, Opened)
    BY <1>2 DEF Open, TableTypeOK
  <2>3. /\ snapshots' \in Seq(Snapshot) /\ Len(snapshots') = Len(snapshots) + 1
        /\ \A id \in DOMAIN snapshots : snapshots'[id] = snapshots[id]
    BY <2>1, <2>2
  <2>4. Len(snapshots') <= MaxSnapshots /\ Len(snapshots) <= Len(snapshots')
    BY <2>2, <2>3, TableAssumption
  <2> QED
    BY <1>1, <2>3, <2>4 DEF TableTypeOK, TableGrows
<1>3. ASSUME NEW id \in DOMAIN snapshots, Close(id) PROVE TableGrows
  <2>1. PICK st : /\ InProgress(id) /\ st = StatusOf(snapshots[id])
                  /\ snapshots' = [snapshots EXCEPT ![id].status = st]
    BY <1>3 DEF Close
  <2>2. snapshots[id] \in Snapshot
    BY DEF TableTypeOK
  <2>3. st \in Status
    BY <2>1 DEF StatusOf, Status
  <2>4. [snapshots[id] EXCEPT !.status = st] \in Snapshot
    BY <2>2, <2>3 DEF Snapshot
  <2>5. snapshots' = [snapshots EXCEPT ![id] = [snapshots[id] EXCEPT !.status = st]]
    BY <2>1 DEF TableTypeOK
  <2> QED
    BY <2>1, <2>4, <2>5, RowChanges
<1>4. ASSUME NEW id \in DOMAIN snapshots, NEW k \in Hotkey, NEW r \in Row \ {"none"}, Record(id, k, r)
      PROVE  TableGrows
  <2>1. InProgress(id) /\ snapshots' = [snapshots EXCEPT ![id].row[k] = r]
    BY <1>4 DEF Record
  <2>2. snapshots[id] \in Snapshot
    BY DEF TableTypeOK
  <2> DEFINE s == [snapshots[id] EXCEPT !.row = [snapshots[id].row EXCEPT ![k] = r]]
  <2>3. s \in Snapshot
    BY <2>2 DEF Snapshot
  <2>4. snapshots' = [snapshots EXCEPT ![id] = s]
    BY <2>1, <2>2 DEF TableTypeOK, Snapshot
  <2> HIDE DEF s
  <2> QED
    BY <2>1, <2>3, <2>4, RowChanges
<1> QED
  BY <1>1, <1>2, <1>3, <1>4 DEF SnapshotStep

(* The startup cleanup.                                                     *)
LEMMA FailOrphansGrows == ASSUME TableTypeOK, FailOrphans PROVE TableGrows
<1>1. snapshots' = [id \in DOMAIN snapshots |->
                       IF InProgress(id) THEN [snapshots[id] EXCEPT !.status = "failed"]
                       ELSE snapshots[id]]
  BY DEF FailOrphans
<1>2. \A id \in DOMAIN snapshots : snapshots[id] \in Snapshot
  BY DEF TableTypeOK
<1>3. \A id \in DOMAIN snapshots : snapshots'[id] \in Snapshot
  BY <1>1, <1>2 DEF Snapshot, Status
<1>4. DOMAIN snapshots = 1 .. Len(snapshots) /\ Len(snapshots) \in Nat /\ DOMAIN snapshots' = DOMAIN snapshots
  BY <1>1 DEF TableTypeOK
<1>5. snapshots' \in Seq(Snapshot) /\ Len(snapshots') = Len(snapshots)
  <2>1. snapshots' \in [1 .. Len(snapshots) -> Snapshot]
    BY <1>1, <1>3, <1>4
  <2> QED
    BY <1>4, <2>1
<1> QED
  BY <1>1, <1>5 DEF TableTypeOK, TableGrows

(* A snapshot is opened, filled or closed while no request has written.     *)
(* What ended late ended.                                                   *)
LEMMA LateIsThere ==
    ASSUME TableTypeOK, late \subseteq DOMAIN snapshots, SnapshotStep
    PROVE  late \subseteq late' /\ late' \subseteq DOMAIN snapshots'
<1>1. TableGrows
  BY SnapshotStepGrows
<1>2. DOMAIN snapshots \subseteq DOMAIN snapshots'
  BY <1>1 DEF TableGrows, TableTypeOK
<1>3. late' = late \/ \E id \in DOMAIN snapshots : late' = late \cup {id}
  BY DEF SnapshotStep
<1> QED
  BY <1>2, <1>3

(* A handler's record is one of the right shape.                            *)
LEMMA IdleIsWork ==
    /\ IdleHandler \in Work /\ Held(IdleHandler) /\ IdleHandler.pc = "idle"
    /\ Committing \in Work /\ Held(Committing) /\ Committing.pc = "commit"
BY DEF IdleHandler, Committing, Work, Pc, Held

(* A restart: the requests are gone, and all that was not committed.        *)
LEMMA RestartTypes ==
    ASSUME TypesInv, TrackerRestarts
    PROVE  /\ TypesInv' /\ TableGrows /\ UNCHANGED <<disk, mixed, late>> /\ view' = disk
           /\ \A h \in Handler : at'[h] = IdleHandler
<1>1. PICK team \in Teams :
        /\ restarts < MaxRestart /\ restarts' = restarts + 1
        /\ view' = disk /\ disk' = disk /\ mixed' = mixed /\ late' = late
        /\ at' = [h \in Handler |-> IdleHandler]
        /\ FailOrphans
        /\ owner' = [k \in Hotkey |-> IF k \in DOMAIN team THEN team[k] ELSE owner[k]]
  BY DEF TrackerRestarts, sync_team
<1>2. TableGrows /\ late' \subseteq DOMAIN snapshots'
  <2>1. TableGrows
    BY <1>1, FailOrphansGrows DEF TypesInv, BooksTypes
  <2>2. DOMAIN snapshots \subseteq DOMAIN snapshots'
    BY <2>1 DEF TableGrows, TableTypeOK, TypesInv, BooksTypes
  <2> QED
    BY <1>1, <2>1, <2>2 DEF TypesInv, BooksTypes
<1>3. owner' \in [Hotkey -> Person]
  <2>1. PICK K \in SUBSET Hotkey : team \in [K -> Person]
    BY <1>1, BooksAssumption
  <2>2. owner \in [Hotkey -> Person]
    BY DEF TypesInv, BooksTypes
  <2> QED
    BY <1>1, <2>1, <2>2
<1>4. at' \in [Handler -> Work] /\ \A h \in Handler : at'[h] = IdleHandler
  BY <1>1, IdleIsWork
<1>5. restarts' \in 0 .. MaxRestart
  BY <1>1, BooksAssumption DEF TypesInv, BooksTypes
<1>6. BooksTypes'
  BY <1>1, <1>2, <1>3, <1>4, <1>5 DEF TypesInv, BooksTypes, TableGrows
<1>7. FiniteRows(view)' /\ FiniteRows(disk)'
  BY <1>1 DEF TypesInv, FiniteRows
<1>8. \A h \in Handler : Held(at[h])'
  BY <1>4, IdleIsWork DEF Held
<1> QED
  BY <1>1, <1>2, <1>4, <1>6, <1>7, <1>8 DEF TypesInv

-----------------------------------------------------------------------------
(* Each request and each statement is one of the moves.                     *)

(* The lines summed up: one for each hotkey.                                *)
LEMMA LinesAre ==
    ASSUME BooksTypes, NEW ids \in SUBSET (1 .. MaxSnapshots), NEW price \in Nat
    PROVE  /\ Lines(ids, price) # {} /\ Lines(ids, price) \subseteq Line
           /\ IsFiniteSet(Lines(ids, price)) /\ OnePerHotkey(Lines(ids, price))
           /\ Amounts(ids, Lines(ids, price))
<1> DEFINE usd(k)     == price * SumOver(ids, k)
           rewards(p) == SumFunction([k \in {j \in Hotkey : owner[j] = p} |-> Reward(usd(k))])
           reward(k)  == IF rewards(owner[k]) < NoiseFloor THEN 0 ELSE Reward(usd(k))
           line(k)    == [hotkey |-> k, person |-> owner[k], amount |-> SumOver(ids, k),
                          kas |-> usd(k) - reward(k)]
<1>1. Lines(ids, price) = {line(k) : k \in Hotkey}
  BY DEF Lines, SumOver, IsRegistered
<1>2. \A k \in Hotkey : SumOver(ids, k) \in Nat
  <2> TAKE k \in Hotkey
  <2>1. IsFiniteSet(1 .. MaxSnapshots)
    BY TableAssumption, FS_Interval
  <2>2. {id \in ids : IsRegistered(id, k)} \subseteq 1 .. MaxSnapshots
    OBVIOUS
  <2>3. IsFiniteSet({id \in ids : IsRegistered(id, k)})
    BY <2>1, <2>2, FS_Subset
  <2> QED
    BY <2>3, FS_CardinalityType DEF SumOver
<1>3. \A k \in Hotkey : usd(k) - reward(k) \in Nat
  <2> TAKE k \in Hotkey
  <2>1. \A m, n \in Nat : m * n \in Nat
    OBVIOUS
  <2>2. PICK u \in Nat : u = usd(k)
    BY <1>2, <2>1
  <2>3. Reward(u) \in Nat /\ Reward(u) <= u
    BY DEF Reward
  <2>4. reward(k) \in {0, Reward(u)}
    BY <2>2
  <2> HIDE DEF usd, reward
  <2> QED
    BY <2>2, <2>3, <2>4
<1>4. \A k \in Hotkey : owner[k] \in Person
  BY DEF BooksTypes
<1>5. \A k \in Hotkey : line(k) \in Line
  <2> HIDE DEF usd, reward
  <2> QED
    BY <1>2, <1>3, <1>4 DEF Line
<1>6. \A k \in Hotkey : line(k).hotkey = k /\ line(k).amount = SumOver(ids, k)
  OBVIOUS
<1>7. IsFiniteSet({line(k) : k \in Hotkey})
  <2> HIDE DEF line
  <2>1. PICK f : f = [k \in Hotkey |-> line(k)]
    OBVIOUS
  <2>2. f = [k \in Hotkey |-> f[k]]
    BY <2>1
  <2>3. IsFiniteSet({f[k] : k \in Hotkey})
    BY <2>2, BooksAssumption, ImageIsFinite
  <2> QED
    BY <2>1, <2>3
<1> HIDE DEF line
<1>8. OnePerHotkey({line(k) : k \in Hotkey})
  BY <1>6 DEF OnePerHotkey
<1>9. Amounts(ids, {line(k) : k \in Hotkey})
  BY <1>6 DEF Amounts
<1>10. {line(k) : k \in Hotkey} # {} /\ {line(k) : k \in Hotkey} \subseteq Line
  BY <1>5, BooksAssumption
<1> QED
  BY <1>1, <1>7, <1>8, <1>9, <1>10

(* Requests.                                                                *)
LEMMA RequestMoves ==
    ASSUME TypesInv, NEW h \in Handler, Request(h)
    PROVE  \E w \in Work : Moves(h, w)
<1>1. at[h] \in Work /\ view \in Db
  BY DEF TypesInv, BooksTypes
<1>2. ASSUME NEW choice \in 0 .. MaxSnapshots, NEW price \in Prices, StartClose(h, choice, price)
      PROVE  \E w \in Work : AsksToClose(h, w)
  <2> DEFINE w == [IdleHandler EXCEPT !.pc = "boundary", !.choice = choice, !.price = price,
                                      !.last = last(view)]
  <2>1. PICK n \in 0 .. MaxSnapshots : n = last(view)
    BY <1>1, LastIs
  <2>2. choice \in Nat /\ price \in Nat /\ n \in Nat
    BY TableAssumption, BooksAssumption
  <2>3. w \in Work /\ w.pc = "boundary" /\ w.last = n
    BY <2>1, <2>2 DEF Work, Pc, IdleHandler
  <2>4. /\ at[h].pc = "idle" /\ at' = [at EXCEPT ![h] = w]
        /\ UNCHANGED <<snapshots, owner, view, disk, restarts, mixed, late>>
    BY <1>2 DEF StartClose, Go, last
  <2> HIDE DEF w
  <2>5. Held(w)
    BY <2>3 DEF Held
  <2> QED
    BY <2>1, <2>3, <2>4, <2>5 DEF AsksToClose, Reads, Turn
<1>3. ASSUME AskPayout(h) PROVE \E w \in Work : AsksToPay(h, w)
  <2>1. PICK kind \in {"kas", "salary"}, total \in Nat : total <= MaxPayout /\ StartPayout(h, kind, total)
    <3>1. Cardinality(Person) \in Nat
      BY BooksAssumption, FS_CardinalityType
    <3>2. \A m, n \in Nat : m * n \in Nat
      OBVIOUS
    <3>3. \A n \in Salaries : n * Cardinality(Person) \in Nat /\ n * Cardinality(Person) <= MaxPayout
      BY <3>1, <3>2, BooksAssumption
    <3>4. CASE \E n \in Distributions : StartPayout(h, "kas", n)
      BY <3>4, BooksAssumption
    <3>5. CASE \E n \in Salaries : StartPayout(h, "salary", n * Cardinality(Person))
      BY <3>3, <3>5
    <3> QED
      BY <1>3, <3>4, <3>5 DEF AskPayout
  <2> DEFINE w == [IdleHandler EXCEPT !.pc = "shares", !.kind = kind, !.total = total]
  <2>2. w \in Work /\ w.pc = "shares" /\ w.total = total /\ w.kind = kind
    BY IdleIsWork DEF Work, Pc, IdleHandler
  <2>3. /\ at[h].pc = "idle" /\ at' = [at EXCEPT ![h] = w] /\ total <= kas_balance(view)
        /\ UNCHANGED <<snapshots, owner, view, disk, restarts, mixed, late>>
    BY <2>1 DEF StartPayout, Go
  <2> HIDE DEF w
  <2>4. Held(w)
    BY <2>1, <2>2 DEF Held
  <2> QED
    BY <2>2, <2>3, <2>4 DEF AsksToPay, Reads, Turn
<1>4. ASSUME NEW id \in 1 .. MaxSettlements, DeleteSettlement(h, id)
      PROVE  \E gone : Undoes(h, Committing, gone)
  <2>1. PICK gone : gone = {s \in view.settlements : s.id = id}
    OBVIOUS
  <2>2. gone = {s \in view.settlements : Key(s) = <<"settlement", id>>}
    BY <1>1, <2>1 DEF Key, Db, Settlement
  <2>3. /\ at[h].pc = "idle" /\ Go(h, Committing) /\ UNCHANGED <<snapshots, owner, disk, restarts, late>>
        /\ mixed' = mixed \cup ({<<"settlement", id>>} \cap HalfWritten)
        /\ view' = [view EXCEPT !.settlements = @ \ gone,
                         !.undone = view.undone + SumFunction([s \in gone |-> Contributed(s)]),
                         !.lost = @ \cup UNION {s.covers : s \in gone}]
    BY <1>4, <2>1 DEF DeleteSettlement
  <2>4. view' = [view EXCEPT !.settlements = @ \ gone,
                         !.undone = @ + SumFunction([s \in gone |-> Contributed(s)]),
                         !.lost = @ \cup UNION {s.covers : s \in gone}]
    BY <2>3
  <2>5. Turn(h, Committing)
    BY <2>3, IdleIsWork DEF Turn, Go
  <2> QED
    BY <2>2, <2>3, <2>4, <2>5, IdleIsWork DEF Undoes
<1>5. ASSUME NEW kind \in {"kas", "salary"}, NEW id \in 1 .. MaxPayouts, DeletePayout(h, kind, id)
      PROVE  TakesBack(h, Committing, <<kind, id>>)
  BY <1>5, IdleIsWork DEF DeletePayout, TakesBack, Turn, Go
<1>6. ASSUME NEW id \in 1 .. MaxSettlements, SetPaid(h, id) PROVE Rests(h, Committing)
  BY <1>6, IdleIsWork DEF SetPaid, Rests, Reads, Turn, Go
<1> QED
  BY <1>2, <1>3, <1>4, <1>5, <1>6, IdleIsWork DEF Request, Moves

(* A line goes to the row its handler writes, and to no other.              *)
LEMMA GoesOn ==
    ASSUME TypesInv, NEW h \in Handler, NEW x \in at[h].todo, WroteLine(h, x),
           at[h].pc \in {"settleLines", "payLines"}, UNCHANGED <<snapshots, owner, restarts, late>>
    PROVE  \E w \in Work : Turn(h, w) /\ Next1(h, w, x)
<1>1. at[h] \in Work /\ Held(at[h])
  BY DEF TypesInv, BooksTypes
<1>2. CASE at[h].todo = {x}
  BY <1>2, IdleIsWork DEF WroteLine, Go, Turn, Next1
<1>3. CASE at[h].todo # {x}
  <2> DEFINE w == [at[h] EXCEPT !.todo = @ \ {x}]
  <2>1. /\ w \in Work /\ w.pc = at[h].pc /\ w.kind = at[h].kind /\ w.id = at[h].id
        /\ w.todo = at[h].todo \ {x}
    BY <1>1 DEF Work
  <2>2. at' = [at EXCEPT ![h] = w]
    BY <1>3 DEF WroteLine, Go
  <2> HIDE DEF w
  <2>3. w.todo # {}
    BY <1>3, <2>1
  <2>4. ASSUME w.pc = "settleLines"
        PROVE  w.todo \subseteq Line /\ IsFiniteSet(w.todo) /\ OnePerHotkey(w.todo)
    <3>1. at[h].todo \subseteq Line /\ IsFiniteSet(at[h].todo) /\ OnePerHotkey(at[h].todo)
      BY <1>1, <2>1, <2>4 DEF Held
    <3>2. IsFiniteSet(at[h].todo \ {x})
      BY <3>1, FS_Subset
    <3> QED
      BY <2>1, <3>1, <3>2 DEF OnePerHotkey
  <2>5. Held(w)
    BY <1>1, <2>1, <2>3, <2>4 DEF Held
  <2> QED
    BY <1>3, <2>1, <2>2, <2>5 DEF Turn, Next1, Key
<1> QED
  BY <1>2, <1>3

(* The statements of a closing.                                             *)
LEMMA ClosingMoves ==
    ASSUME TypesInv, NEW h \in Handler,
           ChooseBoundary(h) \/ SumPeriod(h) \/ InsertSettlement(h) \/ InsertSettlementLine(h)
    PROVE  \E w \in Work : Moves(h, w)
<1>1. /\ at \in [Handler -> Work] /\ at[h] \in Work /\ view \in Db
      /\ Held(at[h]) /\ TableTypeOK /\ BooksTypes
  BY DEF TypesInv, BooksTypes
<1>2. CASE ChooseBoundary(h)
  <2> DEFINE open == Settleable(at[h].last)
             wanted == IF at[h].choice = 0 THEN open ELSE open \cap {at[h].choice}
  <2>1. /\ at[h].pc = "boundary" /\ UNCHANGED <<snapshots, owner, view, disk, restarts, mixed, late>>
        /\ IF wanted = {} THEN EndRequest(h)
           ELSE at' = [at EXCEPT ![h] = [at[h] EXCEPT !.pc = "sum", !.choice = 0, !.thru = Max(wanted)]]
    BY <1>2 DEF ChooseBoundary, Go
  <2>2. CASE wanted = {}
    <3>1. at' = [at EXCEPT ![h] = IdleHandler]
      BY <2>1, <2>2 DEF EndRequest, Go
    <3>2. Rests(h, IdleHandler)
      BY <2>1, <3>1, IdleIsWork DEF Rests, Reads, Turn
    <3> QED
      BY <3>2, IdleIsWork DEF Moves
  <2>3. CASE wanted # {}
    <3>1. DOMAIN snapshots \subseteq 1 .. MaxSnapshots /\ MaxSnapshots \in Nat
      BY <1>1, TableAssumption DEF TableTypeOK
    <3>2. wanted \in SUBSET Nat /\ wanted \subseteq 1 .. MaxSnapshots /\ \A x \in wanted : x <= MaxSnapshots
      BY <3>1 DEF Settleable
    <3>3. \A x \in wanted : Counted(x) /\ x > at[h].last
      BY DEF Settleable
    <3>4. Max(wanted) \in wanted
      <4> HIDE DEF wanted
      <4> QED
        BY <2>3, <3>1, <3>2, MaxIs
    <3>5. PICK n \in 1 .. MaxSnapshots : n = Max(wanted) /\ Counted(n) /\ n > at[h].last
      BY <3>2, <3>3, <3>4
    <3> DEFINE w == [at[h] EXCEPT !.pc = "sum", !.choice = 0, !.thru = n]
    <3>6. at' = [at EXCEPT ![h] = w]
      BY <2>1, <2>3, <3>5
    <3> HIDE DEF wanted, open
    <3>7. n \in Nat /\ 0 \in Nat
      BY <3>1, <3>5
    <3>8. w \in Work /\ w.pc = "sum" /\ w.thru = n /\ w.last = at[h].last
      BY <1>1, <3>7 DEF Work, Pc
    <3> HIDE DEF w
    <3>9. Held(w)
      BY <1>1, <2>1, <3>8 DEF Held
    <3>10. w.last < w.thru
      BY <1>1, <3>5, <3>7, <3>8 DEF Work
    <3>11. Chooses(h, w)
      BY <2>1, <3>5, <3>6, <3>8, <3>9, <3>10 DEF Chooses, Reads, Turn
    <3> QED
      BY <3>8, <3>11 DEF Moves
  <2> QED
    BY <2>2, <2>3
<1>3. CASE SumPeriod(h)
  <2> DEFINE ids == Period(at[h].last, at[h].thru)
             w == [at[h] EXCEPT !.pc = "settle", !.price = 0, !.covers = ids,
                                !.todo = Lines(ids, at[h].price)]
  <2>1. /\ at[h].pc = "sum" /\ UNCHANGED <<snapshots, owner, view, disk, restarts, mixed, late>>
        /\ at' = [at EXCEPT ![h] = w]
    BY <1>3 DEF SumPeriod, Go
  <2>2. ids \in SUBSET (1 .. MaxSnapshots)
    BY <1>1, TableAssumption DEF Period, TableTypeOK
  <2>3. at[h].price \in Nat /\ 0 \in Nat
    BY <1>1 DEF Work
  <2>4. PICK lines : /\ lines = Lines(ids, at[h].price) /\ lines # {} /\ lines \subseteq Line
                     /\ IsFiniteSet(lines) /\ OnePerHotkey(lines)
                     /\ Amounts(ids, lines)
    <3> HIDE DEF ids
    <3> QED
      BY <1>1, <2>2, <2>3, LinesAre
  <2>5. /\ w \in Work /\ w.pc = "settle" /\ w.todo = lines /\ w.covers = ids
        /\ w.last = at[h].last /\ w.thru = at[h].thru
    <3> HIDE DEF ids
    <3> QED
      BY <1>1, <2>2, <2>3, <2>4 DEF Work, Pc
  <2> HIDE DEF w
  <2>6. Held(w)
    BY <1>1, <2>1, <2>4, <2>5 DEF Held
  <2>7. SumsUp(h, w)
    BY <2>1, <2>4, <2>5, <2>6 DEF SumsUp, Reads, Turn
  <2> QED
    BY <2>5, <2>7 DEF Moves
<1>4. CASE InsertSettlement(h)
  <2>1. PICK s, n :
          /\ s = NewSettlement(h) /\ n = NextId(view.settlements)
          /\ at[h].pc = "settle" /\ n <= MaxSettlements
          /\ view' = [view EXCEPT !.settlements = @ \cup {s}]
          /\ at' = [at EXCEPT ![h] = [IdleHandler EXCEPT !.pc = "settleLines", !.todo = at[h].todo,
                                                         !.id = n]]
          /\ UNCHANGED <<snapshots, owner, disk, restarts, mixed, late>>
    BY <1>4, Zenon DEF InsertSettlement, Go
  <2>2. n \in 1 .. MaxSettlements /\ n \in Nat /\ \A t \in view.settlements : t.id < n
    <3>1. \A t \in view.settlements : t.id \in 1 .. MaxSettlements
      BY <1>1 DEF Db, Settlement
    <3>2. n \in Nat \ {0} /\ \A t \in view.settlements : t.id < n
      BY <2>1, <3>1, NextIdIs, BooksAssumption
    <3> QED
      BY <2>1, <3>2, BooksAssumption
  <2>3. /\ at[h].todo \subseteq Line /\ at[h].todo # {} /\ IsFiniteSet(at[h].todo)
        /\ OnePerHotkey(at[h].todo)
    BY <1>1, <2>1 DEF Held
  <2>4. s \in Settlement /\ s.id = n /\ s.kind = "settlement"
    <3>1. /\ at[h].thru \in 1 .. MaxSnapshots /\ at[h].covers \in SUBSET (1 .. MaxSnapshots)
          /\ at[h].last \in 0 .. MaxSnapshots
      BY <1>1, <2>1 DEF Held, Work
    <3> QED
      BY <2>1, <2>2, <2>3, <3>1 DEF NewSettlement, Settlement
  <2> DEFINE w == [IdleHandler EXCEPT !.pc = "settleLines", !.todo = at[h].todo, !.id = n]
  <2>5. w \in Work /\ w.pc = "settleLines" /\ w.todo = at[h].todo /\ w.id = n /\ w.kind = "settlement"
    BY <2>2, <2>3 DEF Work, Pc, IdleHandler
  <2>6. at' = [at EXCEPT ![h] = w]
    BY <2>1
  <2> HIDE DEF w
  <2>7. Held(w)
    BY <2>3, <2>5 DEF Held
  <2>8. Heads(h, w, s)
    BY <2>1, <2>2, <2>4, <2>5, <2>6, <2>7 DEF Heads, Turn, NewHeader, Key
  <2> QED
    BY <2>5, <2>8 DEF Moves
<1>5. CASE InsertSettlementLine(h)
  <2> DEFINE x == CHOOSE l \in at[h].todo : TRUE
             fits == \E s \in view.settlements :
                         s.id = at[h].id /\ \A l \in s.lines : l.hotkey # x.hotkey
  <2>1. /\ at[h].pc = "settleLines" /\ UNCHANGED <<snapshots, owner, disk, restarts, mixed, late>>
        /\ IF fits
           THEN /\ view' = [view EXCEPT !.settlements =
                       {IF s.id = at[h].id THEN [s EXCEPT !.lines = @ \cup {x}] ELSE s : s \in @}]
                /\ WroteLine(h, x)
           ELSE EndRequest(h) /\ UNCHANGED view
    BY <1>5, Zenon DEF InsertSettlementLine
  <2>2. x \in at[h].todo /\ at[h].kind = "settlement"
    <3>1. at[h].todo # {} /\ at[h].kind = "settlement"
      BY <1>1, <2>1 DEF Held
    <3> QED
      BY <3>1
  <2>3. \A s \in view.settlements : s.id = at[h].id <=> Key(s) = Key(at[h])
    BY <1>1, <2>2 DEF Key, Db, Settlement
  <2> HIDE DEF x
  <2>4. CASE fits
    <3>1. PICK w \in Work : Turn(h, w) /\ Next1(h, w, x)
      <4> HIDE DEF fits
      <4> QED
        BY <2>1, <2>2, <2>4, GoesOn
    <3>2. view' = [view EXCEPT !.settlements = {Longer(h, x, s) : s \in @}]
      BY <2>1, <2>3, <2>4 DEF Longer
    <3>3. WritesLine(h, w, x)
      BY <2>1, <2>2, <3>1, <3>2 DEF WritesLine
    <3> QED
      BY <3>1, <3>3 DEF Moves
  <2>5. CASE ~fits
    <3>1. \A s \in view.settlements : Key(s) = Key(at[h]) => \E l \in s.lines : l.hotkey = x.hotkey
      BY <2>3, <2>5
    <3>2. at' = [at EXCEPT ![h] = IdleHandler] /\ UNCHANGED view
      BY <2>1, <2>5 DEF EndRequest, Go
    <3>3. Fails(h, IdleHandler)
      BY <2>1, <2>2, <3>1, <3>2, IdleIsWork DEF Fails, Reads, Turn
    <3> QED
      BY <3>3, IdleIsWork DEF Moves
  <2> QED
    BY <2>4, <2>5
<1> QED
  BY <1>2, <1>3, <1>4, <1>5

(* The statements of a payout, and the commit.                              *)
LEMMA PayingMoves ==
    ASSUME TypesInv, NEW h \in Handler,
           ReadShares(h) \/ InsertPayout(h) \/ InsertPayoutLine(h) \/ Commit(h)
    PROVE  \E w \in Work : Moves(h, w)
<1>1. at \in [Handler -> Work] /\ at[h] \in Work /\ view \in Db /\ Held(at[h])
  BY DEF TypesInv, BooksTypes
<1>2. CASE ReadShares(h)
  <2>1. PICK todo :
          /\ todo = IF at[h].kind = "kas" THEN Contributors(view) ELSE Person
          /\ at[h].pc = "shares" /\ UNCHANGED <<snapshots, owner, view, disk, restarts, mixed, late>>
          /\ at' = [at EXCEPT ![h] = [at[h] EXCEPT !.pc = "pay", !.todo = todo]]
    BY <1>2, Zenon DEF ReadShares, Go
  <2>2. todo \subseteq Person
    <3>1. \A s \in view.settlements : \A l \in s.lines : l.person \in Person
      BY <1>1 DEF Db, Settlement, Line
    <3>2. Contributors(view) \subseteq Person
      BY <3>1 DEF Contributors
    <3> QED
      BY <2>1, <3>2
  <2> DEFINE w == [at[h] EXCEPT !.pc = "pay", !.todo = todo]
  <2>3. /\ w \in Work /\ w.pc = "pay" /\ w.todo = todo /\ w.total = at[h].total
        /\ w.kind = at[h].kind
    BY <1>1, <2>2 DEF Work, Pc
  <2>4. at' = [at EXCEPT ![h] = w]
    BY <1>1, <2>1
  <2> HIDE DEF w
  <2>5. Held(w)
    BY <1>1, <2>1, <2>2, <2>3 DEF Held
  <2>6. Shares(h, w)
    BY <2>1, <2>3, <2>4, <2>5 DEF Shares, Reads, Turn
  <2> QED
    BY <2>3, <2>6 DEF Moves
<1>3. CASE InsertPayout(h)
  <2>1. PICK p, n :
          /\ n = NextId(PayoutsOf(view, at[h].kind))
          /\ p = [kind |-> at[h].kind, id |-> n, total |-> at[h].total,
                  lines |-> {}, due |-> at[h].todo]
          /\ at[h].pc = "pay" /\ n <= MaxPayouts
          /\ view' = [view EXCEPT !.payouts = @ \cup {p}]
          /\ at' = [at EXCEPT ![h] =
                       IF at[h].todo = {} THEN Committing
                       ELSE [at[h] EXCEPT !.pc = "payLines", !.total = 0, !.id = n]]
          /\ UNCHANGED <<snapshots, owner, disk, restarts, mixed, late>>
    BY <1>3, Zenon DEF InsertPayout, Go
  <2>2. n \in 1 .. MaxPayouts /\ n \in Nat /\ \A q \in PayoutsOf(view, at[h].kind) : q.id < n
    <3>1. \A q \in PayoutsOf(view, at[h].kind) : q.id \in 1 .. MaxPayouts
      BY <1>1 DEF Db, Payout, PayoutsOf
    <3>2. n \in Nat \ {0} /\ \A q \in PayoutsOf(view, at[h].kind) : q.id < n
      BY <2>1, <3>1, NextIdIs, BooksAssumption
    <3> QED
      BY <2>1, <3>2, BooksAssumption
  <2>3. /\ at[h].todo \subseteq Person /\ at[h].kind \in {"kas", "salary"} /\ at[h].total \in Nat
    BY <1>1, <2>1 DEF Held, Work
  <2>4. /\ p \in Payout /\ p.kind = at[h].kind /\ p.id = n /\ p.due = at[h].todo
        /\ p.total = at[h].total /\ p.lines = {}
    BY <2>1, <2>2, <2>3 DEF Payout
  <2>5. \A q \in view.payouts : Key(q) # Key(p)
    <3> TAKE q \in view.payouts
    <3>1. q.id \in Nat
      BY <1>1 DEF Db, Payout
    <3>2. q.kind = at[h].kind => q.id < n
      BY <2>2 DEF PayoutsOf
    <3>3. ~(q.kind = p.kind /\ q.id = p.id)
      BY <2>2, <2>4, <3>1, <3>2
    <3> QED
      BY <3>3 DEF Key
  <2>6. NewPayout(h, p)
    BY <2>4, <2>5 DEF NewPayout
  <2>7. CASE at[h].todo = {}
    <3>1. at' = [at EXCEPT ![h] = Committing]
      BY <2>1, <2>7
    <3>2. HeadsPayout(h, Committing, p)
      BY <2>1, <2>4, <2>6, <2>7, <3>1, IdleIsWork DEF HeadsPayout, Turn
    <3> QED
      BY <3>2, IdleIsWork DEF Moves
  <2>8. CASE at[h].todo # {}
    <3> DEFINE w == [at[h] EXCEPT !.pc = "payLines", !.total = 0, !.id = n]
    <3>1. at' = [at EXCEPT ![h] = w]
      BY <2>1, <2>8
    <3>2. /\ w \in Work /\ w.pc = "payLines" /\ w.todo = at[h].todo
          /\ w.kind = at[h].kind /\ w.id = n
      BY <1>1, <2>2 DEF Work, Pc
    <3> HIDE DEF w
    <3>3. Held(w)
      BY <2>3, <2>8, <3>2 DEF Held
    <3>4. HeadsPayout(h, w, p)
      BY <2>1, <2>4, <2>6, <3>1, <3>2, <3>3 DEF HeadsPayout, Turn, Key
    <3> QED
      BY <3>2, <3>4 DEF Moves
  <2> QED
    BY <2>7, <2>8
<1>4. CASE InsertPayoutLine(h)
  <2> DEFINE x == CHOOSE r \in at[h].todo : TRUE
             fits == \E p \in view.payouts : Key(p) = Key(at[h]) /\ x \notin p.lines
  <2>1. /\ at[h].pc = "payLines" /\ UNCHANGED <<snapshots, owner, disk, restarts, mixed, late>>
        /\ IF fits
           THEN /\ view' = [view EXCEPT !.payouts =
                       {IF Key(p) = Key(at[h]) THEN [p EXCEPT !.lines = @ \cup {x}] ELSE p : p \in @}]
                /\ WroteLine(h, x)
           ELSE EndRequest(h) /\ UNCHANGED view
    BY <1>4, Zenon DEF InsertPayoutLine
  <2>2. x \in at[h].todo
    <3>1. at[h].todo # {}
      BY <1>1, <2>1 DEF Held
    <3> QED
      BY <3>1
  <2> HIDE DEF x
  <2>3. CASE fits
    <3>1. PICK w \in Work : Turn(h, w) /\ Next1(h, w, x)
      <4> HIDE DEF fits
      <4> QED
        BY <2>1, <2>2, <2>3, GoesOn
    <3>2. view' = [view EXCEPT !.payouts = {Longer(h, x, p) : p \in @}]
      BY <2>1, <2>3 DEF Longer
    <3>3. WritesShare(h, w, x)
      BY <2>1, <2>2, <3>1, <3>2 DEF WritesShare
    <3> QED
      BY <3>1, <3>3 DEF Moves
  <2>4. CASE ~fits
    <3>1. \A p \in view.payouts : Key(p) = Key(at[h]) => x \in p.lines
      BY <2>4
    <3>2. at' = [at EXCEPT ![h] = IdleHandler] /\ UNCHANGED view
      BY <2>1, <2>4 DEF EndRequest, Go
    <3>3. Fails(h, IdleHandler)
      BY <2>1, <2>2, <3>1, <3>2, IdleIsWork DEF Fails, Reads, Turn
    <3> QED
      BY <3>3, IdleIsWork DEF Moves
  <2> QED
    BY <2>3, <2>4
<1>5. CASE Commit(h)
  <2>1. Saves(h, IdleHandler)
    BY <1>5, IdleIsWork DEF Commit, EndRequest, Go, Saves, Turn
  <2> QED
    BY <2>1, IdleIsWork DEF Moves
<1> QED
  BY <1>2, <1>3, <1>4, <1>5

(* Whatever happens is a move of a handler, a step of the snapshot worker,  *)
(* a restart, or nothing.                                                   *)
LEMMA Steps ==
    ASSUME TypesInv, [BooksNext]_booksVars
    PROVE  \/ \E h \in Handler, w \in Work : Moves(h, w)
           \/ SnapshotStep \/ TrackerRestarts \/ UNCHANGED booksVars
<1>1. ASSUME NEW h \in Handler, Request(h) \/ Statement(h) PROVE \E w \in Work : Moves(h, w)
  <2>1. CASE Request(h)
    BY <2>1, RequestMoves
  <2>2. CASE ChooseBoundary(h) \/ SumPeriod(h) \/ InsertSettlement(h) \/ InsertSettlementLine(h)
    BY <2>2, ClosingMoves
  <2>3. CASE ReadShares(h) \/ InsertPayout(h) \/ InsertPayoutLine(h) \/ Commit(h)
    BY <2>3, PayingMoves
  <2> QED
    BY <1>1, <2>1, <2>2, <2>3 DEF Statement
<1> QED
  BY <1>1 DEF BooksNext

-----------------------------------------------------------------------------
(* Sums of the Fund.                                                        *)

(* What settlements put into the Fund, and payouts take out of it.          *)
PaidIn(S)  == SumFunction([s \in S |-> Contributed(s)])
PaidOut(P) == SumFunction([p \in P |-> p.total])

(* The balance is what is paid in without what is paid out.                 *)
LEMMA BalanceIs == ASSUME NEW db PROVE kas_balance(db) = PaidIn(db.settlements) - PaidOut(db.payouts)
BY DEF kas_balance, PaidIn, PaidOut

(* A settlement's part for the Fund is a number, none of it negative.       *)
LEMMA ContributedIsNat ==
    ASSUME NEW s \in Settlement, IsFiniteSet(s.lines)
    PROVE  Contributed(s) \in Nat
<1>1. PICK f : f = [l \in s.lines |-> l.kas]
  OBVIOUS
<1>2. DOMAIN f = s.lines /\ \A l \in s.lines : f[l] \in Nat
  BY <1>1 DEF Settlement, Line
<1>3. SumFunctionOnSet(f, s.lines) \in Nat
  BY <1>2, SumNat
<1> QED
  BY <1>1, <1>2, <1>3 DEF Contributed, SumFunction

(* A settlement more pays its part in.                                      *)
LEMMA SettlementPaysIn ==
    ASSUME NEW S, FiniteSettlements(S), NEW s \in Settlement, IsFiniteSet(s.lines), s \notin S
    PROVE  /\ PaidIn(S) \in Nat /\ Contributed(s) \in Nat
           /\ PaidIn(S \cup {s}) = PaidIn(S) + Contributed(s)
<1>1. PICK f : f = [t \in S |-> Contributed(t)]
  OBVIOUS
<1>2. PICK g : g = [t \in S \cup {s} |-> Contributed(t)]
  OBVIOUS
<1>3. \A t \in S \cup {s} : g[t] \in Nat /\ g[t] = Contributed(t)
  BY <1>2, ContributedIsNat DEF FiniteSettlements
<1>4. DOMAIN f = S /\ DOMAIN g = S \cup {s} /\ \A t \in S : f[t] = g[t]
  BY <1>1, <1>2
<1>5. IsFiniteSet(S)
  BY DEF FiniteSettlements
<1>6. SumFunction(g) = SumFunction(f) + g[s]
  BY <1>3, <1>4, <1>5, SumFunctionAdd
<1>7. SumFunction(f) \in Nat
  <2>1. \A t \in S : f[t] \in Nat
    BY <1>3, <1>4
  <2>2. SumFunctionOnSet(f, S) \in Nat
    BY <1>5, <2>1, SumNat
  <2> QED
    BY <1>4, <2>2 DEF SumFunction
<1> QED
  BY <1>1, <1>2, <1>3, <1>6, <1>7 DEF PaidIn

(* A payout more takes its total out.                                       *)
LEMMA PayoutTakesOut ==
    ASSUME NEW P, FinitePayouts(P), NEW p \in Payout, p \notin P
    PROVE  /\ PaidOut(P) \in Nat /\ p.total \in Nat
           /\ PaidOut(P \cup {p}) = PaidOut(P) + p.total
<1>1. PICK f : f = [q \in P |-> q.total]
  OBVIOUS
<1>2. PICK g : g = [q \in P \cup {p} |-> q.total]
  OBVIOUS
<1>3. \A q \in P \cup {p} : g[q] \in Nat /\ g[q] = q.total
  BY <1>2 DEF FinitePayouts, Payout
<1>4. DOMAIN f = P /\ DOMAIN g = P \cup {p} /\ \A q \in P : f[q] = g[q]
  BY <1>1, <1>2
<1>5. IsFiniteSet(P)
  BY DEF FinitePayouts
<1>6. SumFunction(g) = SumFunction(f) + g[p]
  BY <1>3, <1>4, <1>5, SumFunctionAdd
<1>7. SumFunction(f) \in Nat
  <2>1. \A q \in P : f[q] \in Nat
    BY <1>3, <1>4
  <2>2. SumFunctionOnSet(f, P) \in Nat
    BY <1>5, <2>1, SumNat
  <2> QED
    BY <1>4, <2>2 DEF SumFunction
<1> QED
  BY <1>1, <1>2, <1>3, <1>6, <1>7 DEF PaidOut

(* Both are numbers, and fewer payouts take no more out.                    *)
LEMMA SumsOfBooks ==
    ASSUME NEW S, FiniteSettlements(S), NEW P, FinitePayouts(P), NEW Q, Q \subseteq P
    PROVE  PaidIn(S) \in Nat /\ PaidOut(P) \in Nat /\ PaidOut(Q) \in Nat /\ PaidOut(Q) <= PaidOut(P)
<1>1. PICK f : f = [s \in S |-> Contributed(s)]
  OBVIOUS
<1>2. DOMAIN f = S /\ \A s \in S : f[s] \in Nat
  BY <1>1, ContributedIsNat DEF FiniteSettlements
<1>3. SumFunctionOnSet(f, S) \in Nat
  BY <1>2, SumNat DEF FiniteSettlements
<1>4. PaidIn(S) \in Nat
  BY <1>1, <1>2, <1>3 DEF PaidIn, SumFunction
<1>5. PICK g : g = [p \in P |-> p.total]
  OBVIOUS
<1>6. PICK e : e = [p \in Q |-> p.total]
  OBVIOUS
<1>7. DOMAIN e = Q /\ DOMAIN g = P /\ (\A p \in Q : e[p] = g[p]) /\ \A p \in P : g[p] \in Nat
  BY <1>5, <1>6 DEF FinitePayouts, Payout
<1>8. SumFunction(e) \in Nat /\ SumFunction(g) \in Nat /\ SumFunction(e) <= SumFunction(g)
  BY <1>7, SumFunctionPart DEF FinitePayouts
<1> QED
  BY <1>4, <1>5, <1>6, <1>8 DEF PaidOut

-----------------------------------------------------------------------------
(* The types.                                                               *)

(* A step of one handler, which leaves the others where they are.           *)
LEMMA Turned ==
    ASSUME at \in [Handler -> Work], NEW h \in Handler, NEW w, Turn(h, w)
    PROVE  /\ at' \in [Handler -> Work] /\ at'[h] = w /\ w \in Work /\ Held(w)
           /\ \A g \in Handler : g # h => at'[g] = at[g]
           /\ UNCHANGED <<snapshots, owner, restarts, late>>
BY DEF Turn

(* A row that gets a line stays the row it is otherwise.                    *)
LEMMA LongerIs ==
    ASSUME NEW h \in Handler, NEW x, NEW r, r \in Settlement \/ r \in Payout
    PROVE  /\ Key(Longer(h, x, r)) = Key(r) /\ Longer(h, x, r).kind = r.kind
           /\ Longer(h, x, r).id = r.id /\ Longer(h, x, r).due = r.due
           /\ r \in Settlement => /\ Longer(h, x, r).covers = r.covers
                                  /\ Longer(h, x, r).thru = r.thru
                                  /\ Longer(h, x, r).after = r.after
           /\ r \in Payout => Longer(h, x, r).total = r.total
           /\ Key(r) # Key(at[h]) => Longer(h, x, r) = r
           /\ Key(r) = Key(at[h]) => Longer(h, x, r).lines = r.lines \cup {x}
BY DEF Longer, Key, Settlement, Payout

(* As many rows as before.                                                  *)
LEMMA LongerFinite ==
    ASSUME NEW h \in Handler, NEW x, NEW S, IsFiniteSet(S)
    PROVE  IsFiniteSet({Longer(h, x, s) : s \in S})
<1>1. PICK f : f = [r \in S |-> Longer(h, x, r)]
  OBVIOUS
<1>2. f = [r \in S |-> f[r]]
  BY <1>1
<1>3. IsFiniteSet({f[r] : r \in S})
  BY <1>2, ImageIsFinite
<1> QED
  BY <1>1, <1>3

(* Settlements with a line more.                                            *)
LEMMA LongerSettlements ==
    ASSUME NEW h \in Handler, NEW x \in Line, NEW S, FiniteSettlements(S)
    PROVE  FiniteSettlements({Longer(h, x, s) : s \in S})
<1>1. \A s \in S : /\ s \in Settlement /\ IsFiniteSet(s.lines) /\ IsFiniteSet(s.due)
                   /\ OnePerHotkey(s.due)
  BY DEF FiniteSettlements
<1>2. \A s \in S : Longer(h, x, s) \in Settlement
  BY <1>1 DEF Longer, Settlement
<1>3. ASSUME NEW s \in S
      PROVE  LET t == Longer(h, x, s)
             IN  IsFiniteSet(t.lines) /\ IsFiniteSet(t.due) /\ OnePerHotkey(t.due)
  <2>1. IsFiniteSet(s.lines \cup {x})
    BY <1>1, FS_AddElement
  <2>2. Longer(h, x, s).lines \in {s.lines, s.lines \cup {x}} /\ Longer(h, x, s).due = s.due
    BY <1>1, LongerIs
  <2> QED
    BY <1>1, <2>1, <2>2
<1>4. IsFiniteSet({Longer(h, x, s) : s \in S})
  BY LongerFinite DEF FiniteSettlements
<1> QED
  BY <1>2, <1>3, <1>4 DEF FiniteSettlements

(* Payouts with a line more.                                                *)
LEMMA LongerPayouts ==
    ASSUME NEW h \in Handler, NEW x \in Person, NEW P, FinitePayouts(P)
    PROVE  FinitePayouts({Longer(h, x, p) : p \in P})
<1>1. \A p \in P : Longer(h, x, p) \in Payout
  BY DEF FinitePayouts, Longer, Payout
<1>2. IsFiniteSet({Longer(h, x, p) : p \in P})
  BY LongerFinite DEF FinitePayouts
<1> QED
  BY <1>1, <1>2 DEF FinitePayouts

(* Whatever a handler does, the database keeps its shape.                   *)
LEMMA MoveShapes ==
    ASSUME TypesInv, NEW h \in Handler, NEW w \in Work, Moves(h, w)
    PROVE  /\ Turn(h, w) /\ disk' \in {disk, view}
           /\ view' \in Db /\ FiniteRows(view')
<1>1. /\ view \in Db /\ at[h] \in Work /\ Held(at[h])
      /\ FiniteSettlements(view.settlements) /\ FinitePayouts(view.payouts)
  BY DEF TypesInv, BooksTypes, FiniteRows
<1>2. CASE \/ AsksToClose(h, w) \/ AsksToPay(h, w) \/ Rests(h, w) \/ Chooses(h, w)
           \/ SumsUp(h, w) \/ Shares(h, w) \/ Fails(h, w) \/ Saves(h, w)
  <2>1. Turn(h, w) /\ view' = view /\ disk' \in {disk, view}
    BY <1>2 DEF AsksToClose, AsksToPay, Rests, Chooses, SumsUp, Shares, Fails, Saves, Reads
  <2> QED
    BY <1>1, <2>1 DEF FiniteRows
<1>3. ASSUME NEW s, Heads(h, w, s)
      PROVE  Turn(h, w) /\ disk' = disk /\ view' \in Db /\ FiniteRows(view')
  <2>1. /\ s \in Settlement /\ s.lines = {} /\ s.due = at[h].todo /\ at[h].pc = "settle"
        /\ Turn(h, w) /\ disk' = disk
    BY <1>3 DEF Heads, NewHeader, NewSettlement
  <2>2. /\ view' \in Db /\ view'.settlements = view.settlements \cup {s}
        /\ view'.payouts = view.payouts
    BY <1>1, <1>3, <2>1 DEF Heads, Db
  <2>3. IsFiniteSet(s.lines) /\ IsFiniteSet(s.due) /\ OnePerHotkey(s.due)
    BY <1>1, <2>1, FS_EmptySet DEF Held
  <2>4. IsFiniteSet(view.settlements \cup {s})
    BY <1>1, FS_AddElement DEF FiniteSettlements
  <2>5. FiniteSettlements(view'.settlements)
    BY <1>1, <2>1, <2>2, <2>3, <2>4 DEF FiniteSettlements
  <2> QED
    BY <1>1, <2>1, <2>2, <2>5 DEF FiniteRows
<1>4. ASSUME NEW p, HeadsPayout(h, w, p)
      PROVE  Turn(h, w) /\ disk' = disk /\ view' \in Db /\ FiniteRows(view')
  <2>1. p \in Payout /\ Turn(h, w) /\ disk' = disk
    BY <1>4 DEF HeadsPayout, NewPayout
  <2>2. /\ view' \in Db /\ view'.settlements = view.settlements
        /\ view'.payouts = view.payouts \cup {p}
    BY <1>1, <1>4, <2>1 DEF HeadsPayout, Db
  <2>3. FinitePayouts(view'.payouts)
    BY <1>1, <2>1, <2>2, FS_AddElement DEF FinitePayouts
  <2> QED
    BY <1>1, <2>1, <2>2, <2>3 DEF FiniteRows
<1>5. ASSUME NEW x, WritesLine(h, w, x)
      PROVE  Turn(h, w) /\ disk' = disk /\ view' \in Db /\ FiniteRows(view')
  <2>1. x \in Line /\ Turn(h, w) /\ disk' = disk
    BY <1>1, <1>5 DEF WritesLine, Held
  <2>2. PICK S : S = {Longer(h, x, s) : s \in view.settlements}
    OBVIOUS
  <2>3. FiniteSettlements(S)
    BY <1>1, <2>1, <2>2, LongerSettlements
  <2>4. view' = [view EXCEPT !.settlements = S]
    BY <1>5, <2>2 DEF WritesLine
  <2>5. view' \in Db /\ view'.settlements = S /\ view'.payouts = view.payouts
    BY <1>1, <2>3, <2>4 DEF Db, FiniteSettlements
  <2> QED
    BY <1>1, <2>1, <2>3, <2>5 DEF FiniteRows
<1>6. ASSUME NEW x, WritesShare(h, w, x)
      PROVE  Turn(h, w) /\ disk' = disk /\ view' \in Db /\ FiniteRows(view')
  <2>1. x \in Person /\ Turn(h, w) /\ disk' = disk
    BY <1>1, <1>6 DEF WritesShare, Held
  <2>2. PICK P : P = {Longer(h, x, p) : p \in view.payouts}
    OBVIOUS
  <2>3. FinitePayouts(P)
    BY <1>1, <2>1, <2>2, LongerPayouts
  <2>4. view' = [view EXCEPT !.payouts = P]
    BY <1>6, <2>2 DEF WritesShare
  <2>5. view' \in Db /\ view'.payouts = P /\ view'.settlements = view.settlements
    BY <1>1, <2>3, <2>4 DEF Db, FinitePayouts
  <2> QED
    BY <1>1, <2>1, <2>3, <2>5 DEF FiniteRows
<1>7. ASSUME NEW gone, Undoes(h, w, gone)
      PROVE  Turn(h, w) /\ disk' = disk /\ view' \in Db /\ FiniteRows(view')
  <2>1. gone \subseteq view.settlements /\ Turn(h, w) /\ disk' = disk
    BY <1>7 DEF Undoes
  <2>2. FiniteSettlements(gone) /\ FiniteSettlements(view.settlements \ gone)
    BY <1>1, <2>1, FS_Subset DEF FiniteSettlements
  <2>3. PICK n \in Nat : n = SumFunction([s \in gone |-> Contributed(s)])
    <3>1. PaidIn(gone) \in Nat
      BY <1>1, <2>2, SumsOfBooks
    <3> QED
      BY <3>1 DEF PaidIn
  <2>4. UNION {s.covers : s \in gone} \subseteq 1 .. MaxSnapshots
    BY <2>2 DEF FiniteSettlements, Settlement
  <2>5. view' = [view EXCEPT !.settlements = @ \ gone, !.undone = @ + n,
                             !.lost = @ \cup UNION {s.covers : s \in gone}]
    BY <1>7, <2>3 DEF Undoes
  <2>6. view.undone + n \in Nat
    BY <1>1 DEF Db
  <2>7. /\ view' \in Db /\ view'.settlements = view.settlements \ gone
        /\ view'.payouts = view.payouts
    BY <1>1, <2>4, <2>5, <2>6 DEF Db
  <2> QED
    BY <1>1, <2>1, <2>2, <2>7 DEF FiniteRows
<1>8. ASSUME NEW key, TakesBack(h, w, key)
      PROVE  Turn(h, w) /\ disk' = disk /\ view' \in Db /\ FiniteRows(view')
  <2>1. /\ view' \in Db /\ view'.settlements = view.settlements
        /\ view'.payouts = {p \in view.payouts : Key(p) # key}
        /\ Turn(h, w) /\ disk' = disk
    BY <1>1, <1>8 DEF TakesBack, Db
  <2>2. FinitePayouts(view'.payouts)
    BY <1>1, <2>1, FS_Subset DEF FinitePayouts
  <2> QED
    BY <1>1, <2>1, <2>2 DEF FiniteRows
<1> QED
  BY <1>2, <1>3, <1>4, <1>5, <1>6, <1>7, <1>8 DEF Moves

(* The books begin with the shapes they keep.                               *)
LEMMA InitTypes == BooksInit => TypesInv
<1> SUFFICES ASSUME BooksInit PROVE TypesInv
  OBVIOUS
<1>1. snapshots = <<>> /\ TableTypeOK
  BY TableAssumption DEF BooksInit, TableInit, TableTypeOK
<1>2. owner \in [Hotkey -> Person]
  <2>1. PICK t \in Teams : owner = t /\ DOMAIN t = Hotkey
    BY DEF BooksInit
  <2> QED
    BY <2>1, BooksAssumption
<1>3. Empty \in Db /\ view = Empty /\ disk = Empty
  BY DEF BooksInit, Empty, Db
<1>4. at \in [Handler -> Work] /\ \A h \in Handler : Held(at[h])
  BY IdleIsWork DEF BooksInit
<1>5. BooksTypes
  BY <1>1, <1>2, <1>3, <1>4, BooksAssumption DEF BooksInit, BooksTypes
<1>6. FiniteRows(view) /\ FiniteRows(disk)
  BY <1>3, FS_EmptySet DEF Empty, FiniteRows, FiniteSettlements, FinitePayouts
<1> QED
  BY <1>4, <1>5, <1>6 DEF TypesInv

(* Every step keeps the shapes.                                             *)
LEMMA NextTypes == ASSUME TypesInv, [BooksNext]_booksVars PROVE TypesInv'
<1>1. BooksTypes /\ TableTypeOK /\ (\A h \in Handler : Held(at[h])) /\ at \in [Handler -> Work]
  BY DEF TypesInv, BooksTypes
<1>2. ASSUME NEW h \in Handler, NEW w \in Work, Moves(h, w) PROVE TypesInv'
  <2>1. Turn(h, w) /\ disk' \in {disk, view} /\ view' \in Db /\ FiniteRows(view')
    BY <1>2, MoveShapes
  <2>2. /\ at' \in [Handler -> Work] /\ Held(w) /\ \A g \in Handler : at'[g] \in {w, at[g]}
        /\ UNCHANGED <<snapshots, owner, restarts, late>>
    BY <1>1, <2>1, Turned
  <2>3. disk' \in Db /\ FiniteRows(disk') /\ FiniteRows(view)' /\ FiniteRows(disk)'
    BY <2>1 DEF TypesInv, BooksTypes, FiniteRows
  <2>4. BooksTypes'
    BY <1>1, <2>1, <2>2, <2>3 DEF BooksTypes, TableTypeOK
  <2>5. \A g \in Handler : Held(at[g])'
    BY <1>1, <2>2 DEF Held
  <2> QED
    BY <2>3, <2>4, <2>5 DEF TypesInv
<1>3. CASE SnapshotStep
  <2>1. TableTypeOK' /\ UNCHANGED <<owner, view, disk, at, restarts, mixed>>
    BY <1>1, <1>3, SnapshotStepGrows DEF TableGrows
  <2>2. late' \subseteq DOMAIN snapshots'
    BY <1>1, <1>3, LateIsThere DEF BooksTypes
  <2> QED
    BY <1>1, <2>1, <2>2 DEF TypesInv, BooksTypes, Held, FiniteRows
<1>4. CASE TrackerRestarts
  BY <1>4, RestartTypes
<1>5. CASE UNCHANGED booksVars
  BY <1>1, <1>5 DEF booksVars, TypesInv, BooksTypes, TableTypeOK, Held, FiniteRows
<1> QED
  BY <1>2, <1>3, <1>4, <1>5, Steps

(* Settlements, payouts, owners and requests have the shapes the tables and *)
(* the handlers give them, however many requests there are at once.         *)
THEOREM BooksTypeCorrect == BooksSpec => []BooksTypeOK
<1>1. TypesInv => BooksTypeOK
  BY DEF TypesInv, BooksTypes, BooksTypeOK, Db, Work
<1>2. TypesInv /\ [BooksNext]_booksVars => TypesInv'
  BY NextTypes
<1> QED
  BY <1>1, <1>2, InitTypes, PTL DEF BooksSpec

-----------------------------------------------------------------------------
(* Whole rows. On the connection a row is whole or being written by one     *)
(* handler, which has the rest of its lines; on disk it is whole: unless    *)
(* its key is one of those another request committed or deleted meanwhile.  *)

Writing(w)   == w.pc \in {"settleLines", "payLines"}
OnePerKey(R) == \A r, s \in R : Key(r) = Key(s) => r = s
RestOf(r, w) == Key(r) = Key(w) /\ r.lines \cup w.todo = r.due /\ r.lines \cap w.todo = {}

WholeInv ==
    /\ OnePerKey(Rows(view)) /\ OnePerKey(Rows(disk))
    /\ \A h \in Handler : Writing(at[h]) /\ Key(at[h]) \notin mixed =>
           \E r \in Rows(view) : RestOf(r, at[h])
    /\ \A g, h \in Handler :
           Writing(at[g]) /\ Writing(at[h]) /\ Key(at[g]) = Key(at[h]) /\ Key(at[g]) \notin mixed
               => g = h
    /\ \A r \in Rows(view) : r.lines = r.due \/ Key(r) \in mixed
                                \/ \E h \in Handler : Writing(at[h]) /\ Key(at[h]) = Key(r)
    /\ WholeOnDisk

(* Settlements and payouts have different keys.                             *)
LEMMA KeysApart ==
    ASSUME NEW s, s \in Settlement, NEW p, p \in Payout
    PROVE  Key(s) # Key(p) /\ Key(s)[1] = "settlement" /\ Key(p)[1] \in {"kas", "salary"}
BY DEF Settlement, Payout, Key

(* The rows after a move, whichever table they are of.                      *)
RowsStay(h, w)      == /\ Rows(view') = Rows(view) /\ mixed' = mixed
                       /\ ~Writing(at[h]) /\ ~Writing(w)
RowComes(h, w, r)   == /\ Rows(view') = Rows(view) \cup {r} /\ mixed' = mixed
                       /\ \A q \in Rows(view) : Key(q) # Key(r)
                       /\ ~Writing(at[h]) /\ r.lines = {}
                       /\ \/ ~Writing(w) /\ r.due = {}
                          \/ Writing(w) /\ w.todo = r.due /\ Key(w) = Key(r)
RowGrows(h, w, x)   == /\ Rows(view') = {Longer(h, x, r) : r \in Rows(view)} /\ mixed' = mixed
                       /\ Writing(at[h]) /\ x \in at[h].todo
                       /\ \/ at[h].todo = {x} /\ ~Writing(w)
                          \/ Writing(w) /\ Key(w) = Key(at[h]) /\ w.todo = at[h].todo \ {x}
RowIsGivenUp(h, w)  == /\ Rows(view') = Rows(view) /\ mixed' = mixed
                       /\ ~Writing(w) /\ (Writing(at[h]) => Key(at[h]) \in mixed)
RowGoes(h, w, key)  == /\ Rows(view') = {r \in Rows(view) : Key(r) # key}
                       /\ mixed' = mixed \cup ({key} \cap HalfWritten)
                       /\ ~Writing(at[h]) /\ ~Writing(w)
RowsAreSaved(h, w)  == /\ view' = view /\ disk' = view /\ mixed' = mixed \cup HalfWritten
                       /\ ~Writing(at[h]) /\ ~Writing(w)

LEMMA MoveRows ==
    ASSUME TypesInv, WholeInv, NEW h \in Handler, NEW w \in Work, Moves(h, w)
    PROVE  /\ Turn(h, w)
           /\ \/ RowsAreSaved(h, w)
              \/ /\ disk' = disk
                 /\ \/ RowsStay(h, w) \/ RowIsGivenUp(h, w)
                    \/ (\E r \in Settlement \cup Payout : RowComes(h, w, r))
                    \/ (\E x : RowGrows(h, w, x)) \/ (\E key : RowGoes(h, w, key))
<1>1. /\ view \in Db /\ at[h] \in Work /\ Held(at[h])
      /\ FiniteSettlements(view.settlements) /\ FinitePayouts(view.payouts)
  BY DEF TypesInv, BooksTypes, FiniteRows
<1>2. Turn(h, w) /\ view' \in Db
  BY MoveShapes
<1>3. \A s \in view.settlements : s \in Settlement
  BY <1>1 DEF Db
<1>4. \A p \in view.payouts : p \in Payout
  BY <1>1 DEF Db
<1>5. CASE \/ AsksToClose(h, w) \/ AsksToPay(h, w) \/ Rests(h, w) \/ Chooses(h, w)
           \/ SumsUp(h, w) \/ Shares(h, w)
  <2>1. disk' = disk /\ view' = view /\ mixed' = mixed
    BY <1>5 DEF AsksToClose, AsksToPay, Rests, Chooses, SumsUp, Shares, Reads
  <2>2. ~Writing(w)
    BY <1>5 DEF AsksToClose, AsksToPay, Rests, Chooses, SumsUp, Shares, Writing
  <2>3. ~Writing(at[h])
    BY <1>5 DEF AsksToClose, AsksToPay, Rests, Chooses, SumsUp, Shares, Writing
  <2> QED
    BY <1>2, <2>1, <2>2, <2>3 DEF RowsStay, Rows
<1>6. CASE Saves(h, w)
  BY <1>2, <1>6 DEF Saves, RowsAreSaved, Writing
<1>7. ASSUME NEW s, Heads(h, w, s) PROVE disk' = disk /\ s \in Settlement /\ RowComes(h, w, s)
  <2>1. /\ s \in Settlement /\ s.lines = {} /\ s.due = at[h].todo
        /\ \A t \in view.settlements : t.id < s.id
    BY <1>7 DEF Heads, NewHeader, NewSettlement
  <2>2. Rows(view') = Rows(view) \cup {s}
    BY <1>1, <1>7 DEF Heads, Rows, Db
  <2>3. \A q \in view.settlements : Key(q) # Key(s)
    <3>1. ASSUME NEW q \in view.settlements, Key(q) = Key(s) PROVE FALSE
      <4>1. q.id = s.id /\ q.id < s.id /\ q.id \in Int
        BY <1>3, <2>1, <3>1 DEF Key, Settlement
      <4> QED
        BY <4>1
    <3> QED
      BY <3>1
  <2>4. \A q \in view.payouts : Key(q) # Key(s)
    BY <1>4, <2>1, KeysApart
  <2> QED
    BY <1>7, <2>1, <2>2, <2>3, <2>4 DEF Heads, RowComes, Rows, Writing
<1>8. ASSUME NEW p, HeadsPayout(h, w, p) PROVE disk' = disk /\ p \in Payout /\ RowComes(h, w, p)
  <2>1. /\ p \in Payout /\ p.lines = {} /\ p.due = at[h].todo
        /\ \A q \in view.payouts : Key(q) # Key(p)
    BY <1>8 DEF HeadsPayout, NewPayout
  <2>2. Rows(view') = Rows(view) \cup {p}
    BY <1>1, <1>8 DEF HeadsPayout, Rows, Db
  <2>3. \A q \in view.settlements : Key(q) # Key(p)
    BY <1>3, <2>1, KeysApart
  <2> QED
    BY <1>8, <2>1, <2>2, <2>3 DEF HeadsPayout, RowComes, Rows, Writing
<1>9. ASSUME NEW x, WritesLine(h, w, x) PROVE disk' = disk /\ RowGrows(h, w, x)
  <2>1. view'.settlements = {Longer(h, x, s) : s \in view.settlements} /\ view'.payouts = view.payouts
    BY <1>1, <1>9 DEF WritesLine, Db
  <2>2. at[h].pc = "settleLines" /\ at[h].kind = "settlement"
    BY <1>1, <1>9 DEF WritesLine, Held
  <2>3. \A p \in view.payouts : Longer(h, x, p) = p
    BY <1>4, <2>2 DEF Longer, Key, Payout
  <2>4. view.payouts = {Longer(h, x, p) : p \in view.payouts}
    BY <2>3
  <2>5. Rows(view') = {Longer(h, x, r) : r \in Rows(view)}
    BY <2>1, <2>4 DEF Rows
  <2> QED
    BY <1>9, <2>2, <2>5 DEF WritesLine, RowGrows, Next1, Writing
<1>10. ASSUME NEW x, WritesShare(h, w, x) PROVE disk' = disk /\ RowGrows(h, w, x)
  <2>1. view'.payouts = {Longer(h, x, p) : p \in view.payouts} /\ view'.settlements = view.settlements
    BY <1>1, <1>10 DEF WritesShare, Db
  <2>2. at[h].pc = "payLines" /\ at[h].kind \in {"kas", "salary"}
    BY <1>1, <1>10 DEF WritesShare, Held
  <2>3. \A s \in view.settlements : Longer(h, x, s) = s
    BY <1>3, <2>2 DEF Longer, Key, Settlement
  <2>4. view.settlements = {Longer(h, x, s) : s \in view.settlements}
    BY <2>3
  <2>5. Rows(view') = {Longer(h, x, r) : r \in Rows(view)}
    BY <2>1, <2>4 DEF Rows
  <2> QED
    BY <1>10, <2>2, <2>5 DEF WritesShare, RowGrows, Next1, Writing
<1>11. CASE Fails(h, w)
  <2>1. disk' = disk /\ view' = view /\ mixed' = mixed /\ ~Writing(w)
    BY <1>11 DEF Fails, Reads, Writing
  <2>2. ASSUME Key(at[h]) \notin mixed PROVE FALSE
    <3>1. PICK r \in Rows(view) : RestOf(r, at[h])
      BY <1>11, <2>2 DEF WholeInv, Fails, Writing
    <3>2. CASE at[h].pc = "settleLines"
      <4>1. at[h].kind = "settlement" /\ Key(r) = Key(at[h])
        BY <1>1, <3>1, <3>2 DEF Held, RestOf
      <4>2. r \in view.settlements /\ OnePerHotkey(r.due)
        BY <1>1, <1>4, <3>1, <4>1 DEF Rows, Key, Payout, FiniteSettlements
      <4>3. PICK x \in at[h].todo, l \in r.lines : l.hotkey = x.hotkey
        BY <1>11, <3>2, <4>1, <4>2 DEF Fails
      <4>4. l \in r.due /\ x \in r.due /\ l # x
        BY <3>1 DEF RestOf
      <4> QED
        BY <4>2, <4>3, <4>4 DEF OnePerHotkey
    <3>3. CASE at[h].pc = "payLines"
      <4>1. at[h].kind \in {"kas", "salary"} /\ Key(r) = Key(at[h])
        BY <1>1, <3>1, <3>3 DEF Held, RestOf
      <4>2. r \in view.payouts
        BY <1>3, <3>1, <4>1 DEF Rows, Key, Settlement
      <4>3. PICK x \in at[h].todo : x \in r.lines
        BY <1>11, <3>3, <4>1, <4>2 DEF Fails
      <4> QED
        BY <3>1, <4>3 DEF RestOf
    <3> QED
      BY <1>11, <3>2, <3>3 DEF Fails
  <2> QED
    BY <1>2, <2>1, <2>2 DEF RowIsGivenUp, Rows
<1>12. ASSUME NEW gone, Undoes(h, w, gone) PROVE disk' = disk /\ \E key : RowGoes(h, w, key)
  <2>1. PICK n : /\ gone = {s \in view.settlements : Key(s) = <<"settlement", n>>}
                 /\ mixed' = mixed \cup ({<<"settlement", n>>} \cap HalfWritten)
    BY <1>12 DEF Undoes
  <2>2. view'.settlements = view.settlements \ gone /\ view'.payouts = view.payouts
    BY <1>1, <1>12 DEF Undoes, Db
  <2>3. \A p \in view.payouts : Key(p) # <<"settlement", n>>
    BY <1>4 DEF Key, Payout
  <2>4. Rows(view') = {r \in Rows(view) : Key(r) # <<"settlement", n>>}
    BY <2>1, <2>2, <2>3 DEF Rows
  <2>5. RowGoes(h, w, <<"settlement", n>>)
    BY <1>12, <2>1, <2>4 DEF Undoes, RowGoes, Writing
  <2> QED
    BY <1>12, <2>5 DEF Undoes
<1>13. ASSUME NEW key, TakesBack(h, w, key) PROVE disk' = disk /\ RowGoes(h, w, key)
  <2>1. /\ view'.payouts = {p \in view.payouts : Key(p) # key}
        /\ view'.settlements = view.settlements /\ key[1] \in {"kas", "salary"}
    BY <1>1, <1>13 DEF TakesBack, Db
  <2>2. \A s \in view.settlements : Key(s) # key
    BY <1>3, <2>1 DEF Key, Settlement
  <2>3. Rows(view') = {r \in Rows(view) : Key(r) # key}
    BY <2>1, <2>2 DEF Rows
  <2> QED
    BY <1>13, <2>3 DEF TakesBack, RowGoes, Writing
<1> QED
  BY <1>2, <1>5, <1>6, <1>7, <1>8, <1>9, <1>10, <1>11, <1>12, <1>13 DEF Moves

(* A row with no line of it to come, or with all of them.                   *)
LEMMA RowsKeepWhole ==
    ASSUME TypesInv, WholeInv, NEW h \in Handler, NEW w \in Work, Turn(h, w), disk' = disk,
           RowsStay(h, w) \/ RowIsGivenUp(h, w)
    PROVE  WholeInv'
<1>1. /\ at' \in [Handler -> Work] /\ at'[h] = w /\ \A g \in Handler : g # h => at'[g] = at[g]
      /\ at \in [Handler -> Work]
  BY Turned DEF TypesInv, BooksTypes
<1>2. /\ mixed' = mixed /\ ~Writing(w) /\ Rows(view') = Rows(view) /\ Rows(disk') = Rows(disk)
      /\ Writing(at[h]) => Key(at[h]) \in mixed
  BY DEF RowsStay, RowIsGivenUp, Rows
<1>3. \A g \in Handler : Writing(at'[g]) => at'[g] = at[g]
  BY <1>1, <1>2
<1>4. OnePerKey(Rows(view'))
  BY <1>2 DEF WholeInv
<1>5. OnePerKey(Rows(disk'))
  BY <1>2 DEF WholeInv
<1>6. \A g \in Handler : Writing(at'[g]) /\ Key(at'[g]) \notin mixed' =>
          \E r \in Rows(view') : RestOf(r, at'[g])
  BY <1>2, <1>3 DEF WholeInv
<1>7. \A g, k \in Handler :
          Writing(at'[g]) /\ Writing(at'[k]) /\ Key(at'[g]) = Key(at'[k]) /\ Key(at'[g]) \notin mixed'
              => g = k
  BY <1>2, <1>3 DEF WholeInv
<1>8. \A r \in Rows(view') : r.lines = r.due \/ Key(r) \in mixed'
                                \/ \E g \in Handler : Writing(at'[g]) /\ Key(at'[g]) = Key(r)
  <2> SUFFICES ASSUME NEW r \in Rows(view), r.lines # r.due, Key(r) \notin mixed
               PROVE  \E g \in Handler : Writing(at'[g]) /\ Key(at'[g]) = Key(r)
    BY <1>2
  <2>1. PICK g \in Handler : Writing(at[g]) /\ Key(at[g]) = Key(r)
    BY DEF WholeInv
  <2>2. g # h
    BY <1>2, <2>1
  <2> QED
    BY <1>1, <2>1, <2>2
<1>9. \A r \in Rows(disk') : r.lines = r.due \/ Key(r) \in mixed'
  BY <1>2 DEF WholeInv, WholeOnDisk, Rows
<1> QED
  BY <1>4, <1>5, <1>6, <1>7, <1>8, <1>9 DEF WholeInv, WholeOnDisk, Rows

(* A header: its handler has all of its lines.                              *)
LEMMA NewRowKeepsWhole ==
    ASSUME TypesInv, WholeInv, NEW h \in Handler, NEW w \in Work, Turn(h, w), disk' = disk,
           NEW r, RowComes(h, w, r)
    PROVE  WholeInv'
<1>1. /\ at' \in [Handler -> Work] /\ at'[h] = w /\ \A g \in Handler : g # h => at'[g] = at[g]
      /\ at \in [Handler -> Work]
  BY Turned DEF TypesInv, BooksTypes
<1>2. /\ mixed' = mixed /\ Rows(view') = Rows(view) \cup {r} /\ Rows(disk') = Rows(disk)
      /\ ~Writing(at[h]) /\ \A q \in Rows(view) : Key(q) # Key(r)
  BY DEF RowComes, Rows
<1>3. OnePerKey(Rows(view'))
  BY <1>2 DEF WholeInv, OnePerKey
<1>4. OnePerKey(Rows(disk'))
  BY <1>2 DEF WholeInv
<1>5. ASSUME NEW g \in Handler, Writing(at'[g]), Key(at'[g]) \notin mixed
      PROVE  \E q \in Rows(view') : RestOf(q, at'[g])
  <2>1. CASE g = h
    <3>1. RestOf(r, w)
      BY <1>1, <1>5, <2>1 DEF RowComes, RestOf
    <3> QED
      BY <1>1, <1>2, <2>1, <3>1
  <2>2. CASE g # h
    BY <1>1, <1>2, <1>5, <2>2 DEF WholeInv
  <2> QED
    BY <2>1, <2>2
<1>6. ASSUME NEW g \in Handler, g # h, Writing(at'[g]), Key(at'[g]) \notin mixed
      PROVE  Writing(w) => Key(at'[g]) # Key(w)
  <2>1. PICK q \in Rows(view) : Key(q) = Key(at'[g])
    BY <1>1, <1>6 DEF WholeInv, RestOf
  <2> QED
    BY <1>2, <2>1 DEF RowComes
<1>7. \A g, k \in Handler :
          Writing(at'[g]) /\ Writing(at'[k]) /\ Key(at'[g]) = Key(at'[k]) /\ Key(at'[g]) \notin mixed'
              => g = k
  <2> SUFFICES ASSUME NEW g \in Handler, NEW k \in Handler, Writing(at'[g]), Writing(at'[k]),
                      Key(at'[g]) = Key(at'[k]), Key(at'[g]) \notin mixed, g # k
               PROVE  FALSE
    BY <1>2
  <2>1. CASE g = h
    BY <1>1, <1>6, <2>1
  <2>2. CASE k = h
    BY <1>1, <1>6, <2>2
  <2>3. CASE g # h /\ k # h
    BY <1>1, <2>3 DEF WholeInv
  <2> QED
    BY <2>1, <2>2, <2>3
<1>8. \A q \in Rows(view') : q.lines = q.due \/ Key(q) \in mixed'
                                \/ \E g \in Handler : Writing(at'[g]) /\ Key(at'[g]) = Key(q)
  <2> SUFFICES ASSUME NEW q \in Rows(view'), q.lines # q.due, Key(q) \notin mixed
               PROVE  \E g \in Handler : Writing(at'[g]) /\ Key(at'[g]) = Key(q)
    BY <1>2
  <2>1. CASE q = r
    BY <1>1, <2>1 DEF RowComes
  <2>2. CASE q # r
    <3>1. PICK g \in Handler : Writing(at[g]) /\ Key(at[g]) = Key(q)
      BY <1>2, <2>2 DEF WholeInv
    <3> QED
      BY <1>1, <1>2, <3>1
  <2> QED
    BY <2>1, <2>2
<1>9. \A q \in Rows(disk') : q.lines = q.due \/ Key(q) \in mixed'
  BY <1>2 DEF WholeInv, WholeOnDisk, Rows
<1>10. \A g \in Handler : Writing(at'[g]) /\ Key(at'[g]) \notin mixed' =>
           \E q \in Rows(view') : RestOf(q, at'[g])
  BY <1>2, <1>5
<1> QED
  BY <1>3, <1>4, <1>7, <1>8, <1>9, <1>10 DEF WholeInv, WholeOnDisk, Rows

(* A line: one more written, one less to write.                             *)
LEMMA LineKeepsWhole ==
    ASSUME TypesInv, WholeInv, NEW h \in Handler, NEW w \in Work, Turn(h, w), disk' = disk,
           NEW x, RowGrows(h, w, x)
    PROVE  WholeInv'
<1>1. /\ at' \in [Handler -> Work] /\ at'[h] = w /\ \A g \in Handler : g # h => at'[g] = at[g]
      /\ at \in [Handler -> Work]
  BY Turned DEF TypesInv, BooksTypes
<1>2. /\ mixed' = mixed /\ Rows(view') = {Longer(h, x, r) : r \in Rows(view)}
      /\ Rows(disk') = Rows(disk) /\ Writing(at[h]) /\ x \in at[h].todo
      /\ Writing(w) => Key(w) = Key(at[h]) /\ w.todo = at[h].todo \ {x}
      /\ at[h].todo = {x} \/ Writing(w)
  BY DEF RowGrows, Rows
<1>3. \A r \in Rows(view) : /\ Key(Longer(h, x, r)) = Key(r) /\ Longer(h, x, r).due = r.due
                            /\ Key(r) # Key(at[h]) => Longer(h, x, r) = r
                            /\ Key(r) = Key(at[h]) => Longer(h, x, r).lines = r.lines \cup {x}
  <2>1. \A r \in Rows(view) : r \in Settlement \/ r \in Payout
    BY DEF TypesInv, BooksTypes, Db, Rows
  <2> QED
    BY <2>1, LongerIs
<1>4. OnePerKey(Rows(view'))
  BY <1>2, <1>3 DEF WholeInv, OnePerKey
<1>5. OnePerKey(Rows(disk'))
  BY <1>2 DEF WholeInv
<1>6. ASSUME NEW g \in Handler, Writing(at'[g]), Key(at'[g]) \notin mixed
      PROVE  \E q \in Rows(view') : RestOf(q, at'[g])
  <2>1. CASE g = h
    <3>1. PICK r \in Rows(view) : RestOf(r, at[h])
      BY <1>1, <1>2, <1>6, <2>1 DEF WholeInv
    <3>2. PICK q : q = Longer(h, x, r)
      OBVIOUS
    <3>3. Key(q) = Key(w) /\ q.lines = r.lines \cup {x} /\ q.due = r.due
      BY <1>1, <1>2, <1>3, <1>6, <2>1, <3>1, <3>2 DEF RestOf
    <3>4. RestOf(q, w)
      BY <1>1, <1>2, <1>6, <2>1, <3>1, <3>3 DEF RestOf
    <3> QED
      BY <1>1, <1>2, <2>1, <3>2, <3>4
  <2>2. CASE g # h
    <3>1. PICK r \in Rows(view) : RestOf(r, at[g])
      BY <1>1, <1>6, <2>2 DEF WholeInv
    <3>2. Key(at[g]) # Key(at[h])
      BY <1>1, <1>2, <1>6, <2>2 DEF WholeInv
    <3>3. Longer(h, x, r) = r
      BY <1>3, <3>1, <3>2 DEF RestOf
    <3> QED
      BY <1>1, <1>2, <2>2, <3>1, <3>3
  <2> QED
    BY <2>1, <2>2
<1>7. \A g, k \in Handler :
          Writing(at'[g]) /\ Writing(at'[k]) /\ Key(at'[g]) = Key(at'[k]) /\ Key(at'[g]) \notin mixed'
              => g = k
  <2>1. \A g \in Handler : Writing(at'[g]) => Writing(at[g]) /\ Key(at'[g]) = Key(at[g])
    BY <1>1, <1>2
  <2> QED
    BY <1>2, <2>1 DEF WholeInv
<1>8. \A q \in Rows(view') : q.lines = q.due \/ Key(q) \in mixed'
                                \/ \E g \in Handler : Writing(at'[g]) /\ Key(at'[g]) = Key(q)
  <2> SUFFICES ASSUME NEW q \in Rows(view'), q.lines # q.due, Key(q) \notin mixed
               PROVE  \E g \in Handler : Writing(at'[g]) /\ Key(at'[g]) = Key(q)
    BY <1>2
  <2>1. PICK r \in Rows(view) : q = Longer(h, x, r)
    BY <1>2
  <2>2. CASE Key(r) = Key(at[h])
    <3>1. PICK r0 \in Rows(view) : RestOf(r0, at[h])
      BY <1>2, <1>3, <2>1, <2>2 DEF WholeInv
    <3>2. r0 = r
      BY <2>2, <3>1 DEF RestOf, WholeInv, OnePerKey
    <3>3. CASE Writing(w)
      BY <1>1, <1>2, <1>3, <2>1, <2>2, <3>3
    <3>4. CASE at[h].todo = {x}
      BY <1>3, <2>1, <2>2, <3>1, <3>2, <3>4 DEF RestOf
    <3> QED
      BY <1>2, <3>3, <3>4
  <2>3. CASE Key(r) # Key(at[h])
    <3>1. q = r
      BY <1>3, <2>1, <2>3
    <3>2. PICK g \in Handler : Writing(at[g]) /\ Key(at[g]) = Key(r)
      BY <3>1 DEF WholeInv
    <3>3. g # h
      BY <2>3, <3>2
    <3> QED
      BY <1>1, <3>1, <3>2, <3>3
  <2> QED
    BY <2>2, <2>3
<1>9. \A q \in Rows(disk') : q.lines = q.due \/ Key(q) \in mixed'
  BY <1>2 DEF WholeInv, WholeOnDisk, Rows
<1>10. \A g \in Handler : Writing(at'[g]) /\ Key(at'[g]) \notin mixed' =>
           \E q \in Rows(view') : RestOf(q, at'[g])
  BY <1>2, <1>6
<1> QED
  BY <1>4, <1>5, <1>7, <1>8, <1>9, <1>10 DEF WholeInv, WholeOnDisk, Rows

(* A deletion: who was writing the row has its key among the mixed.         *)
LEMMA DeletionKeepsWhole ==
    ASSUME TypesInv, WholeInv, NEW h \in Handler, NEW w \in Work, Turn(h, w), disk' = disk,
           NEW key, RowGoes(h, w, key)
    PROVE  WholeInv'
<1>1. /\ at' \in [Handler -> Work] /\ at'[h] = w /\ \A g \in Handler : g # h => at'[g] = at[g]
      /\ at \in [Handler -> Work]
  BY Turned DEF TypesInv, BooksTypes
<1>2. /\ mixed' = mixed \cup ({key} \cap HalfWritten) /\ Rows(disk') = Rows(disk)
      /\ Rows(view') = {r \in Rows(view) : Key(r) # key}
      /\ ~Writing(at[h]) /\ ~Writing(w)
  BY DEF RowGoes, Rows
<1>3. \A g \in Handler : Writing(at'[g]) => Writing(at[g]) /\ at'[g] = at[g]
  BY <1>1, <1>2
<1>4. \A g \in Handler : Writing(at[g]) => Key(at[g]) \in HalfWritten /\ at'[g] = at[g]
  BY <1>1, <1>2 DEF HalfWritten, Writing
<1>5. OnePerKey(Rows(view'))
  BY <1>2 DEF WholeInv, OnePerKey
<1>6. OnePerKey(Rows(disk'))
  BY <1>2 DEF WholeInv
<1>7. ASSUME NEW g \in Handler, Writing(at'[g]), Key(at'[g]) \notin mixed'
      PROVE  \E r \in Rows(view') : RestOf(r, at'[g])
  <2>1. Writing(at[g]) /\ at'[g] = at[g] /\ Key(at[g]) \in HalfWritten
    BY <1>3, <1>4, <1>7
  <2>2. Key(at[g]) # key /\ Key(at[g]) \notin mixed
    BY <1>2, <1>7, <2>1
  <2>3. PICK r \in Rows(view) : RestOf(r, at[g])
    BY <2>1, <2>2 DEF WholeInv
  <2> QED
    BY <1>2, <2>1, <2>2, <2>3 DEF RestOf
<1>8. \A g, k \in Handler :
          Writing(at'[g]) /\ Writing(at'[k]) /\ Key(at'[g]) = Key(at'[k]) /\ Key(at'[g]) \notin mixed'
              => g = k
  BY <1>2, <1>3 DEF WholeInv
<1>9. \A r \in Rows(view') : r.lines = r.due \/ Key(r) \in mixed'
                                \/ \E g \in Handler : Writing(at'[g]) /\ Key(at'[g]) = Key(r)
  <2> SUFFICES ASSUME NEW r \in Rows(view), r.lines # r.due, Key(r) \notin mixed
               PROVE  \E g \in Handler : Writing(at'[g]) /\ Key(at'[g]) = Key(r)
    BY <1>2
  <2>1. PICK g \in Handler : Writing(at[g]) /\ Key(at[g]) = Key(r)
    BY DEF WholeInv
  <2> QED
    BY <1>4, <2>1
<1>10. \A r \in Rows(disk') : r.lines = r.due \/ Key(r) \in mixed'
  BY <1>2 DEF WholeInv, WholeOnDisk, Rows
<1> QED
  BY <1>5, <1>6, <1>7, <1>8, <1>9, <1>10 DEF WholeInv, WholeOnDisk, Rows

(* A commit: what is half written is on disk, with its key among the mixed. *)
LEMMA CommitKeepsWhole ==
    ASSUME TypesInv, WholeInv, NEW h \in Handler, NEW w \in Work, Turn(h, w), RowsAreSaved(h, w)
    PROVE  WholeInv'
<1>1. /\ at' \in [Handler -> Work] /\ at'[h] = w /\ \A g \in Handler : g # h => at'[g] = at[g]
      /\ at \in [Handler -> Work]
  BY Turned DEF TypesInv, BooksTypes
<1>2. /\ mixed' = mixed \cup HalfWritten /\ ~Writing(at[h]) /\ ~Writing(w)
      /\ Rows(view') = Rows(view) /\ Rows(disk') = Rows(view)
  BY DEF RowsAreSaved, Rows
<1>3. \A g \in Handler : Writing(at'[g]) => Writing(at[g]) /\ at'[g] = at[g]
  BY <1>1, <1>2
<1>4. \A g \in Handler : Writing(at[g]) => Key(at[g]) \in mixed'
  BY <1>1, <1>2 DEF HalfWritten, Writing
<1>5. OnePerKey(Rows(view')) /\ OnePerKey(Rows(disk'))
  BY <1>2 DEF WholeInv
<1>6. \A g \in Handler : ~(Writing(at'[g]) /\ Key(at'[g]) \notin mixed')
  BY <1>3, <1>4
<1>7. \A r \in Rows(view) : r.lines = r.due \/ Key(r) \in mixed'
  BY <1>2, <1>4 DEF WholeInv
<1> QED
  BY <1>2, <1>5, <1>6, <1>7 DEF WholeInv, WholeOnDisk, Rows

(* A restart: what is on disk is all there is.                              *)
LEMMA NextWhole == ASSUME TypesInv, WholeInv, [BooksNext]_booksVars PROVE WholeInv'
<1>1. ASSUME NEW h \in Handler, NEW w \in Work, Moves(h, w) PROVE WholeInv'
  BY <1>1, MoveRows, RowsKeepWhole, NewRowKeepsWhole, LineKeepsWhole, DeletionKeepsWhole,
     CommitKeepsWhole
<1>2. CASE SnapshotStep \/ UNCHANGED booksVars
  <2>1. UNCHANGED <<view, disk, at, mixed>>
    BY <1>2 DEF SnapshotStep, booksVars
  <2> QED
    BY <2>1 DEF WholeInv, WholeOnDisk, Rows, RestOf, OnePerKey, Key, Writing
<1>3. CASE TrackerRestarts
  <2>1. view' = disk /\ disk' = disk /\ mixed' = mixed /\ \A h \in Handler : at'[h] = IdleHandler
    BY <1>3, RestartTypes
  <2>2. \A h \in Handler : ~Writing(at'[h])
    BY <2>1, IdleIsWork DEF Writing
  <2>3. Rows(view') = Rows(disk) /\ Rows(disk') = Rows(disk)
    BY <2>1 DEF Rows
  <2> QED
    BY <2>1, <2>2, <2>3 DEF WholeInv, WholeOnDisk, Rows
<1> QED
  BY <1>1, <1>2, <1>3, Steps

(* The books begin empty.                                                   *)
LEMMA InitWhole == BooksInit => WholeInv
<1> SUFFICES ASSUME BooksInit PROVE WholeInv
  OBVIOUS
<1>1. Rows(view) = {} /\ Rows(disk) = {}
  BY DEF BooksInit, Empty, Rows
<1>2. \A h \in Handler : ~Writing(at[h])
  BY IdleIsWork DEF BooksInit, Writing
<1> QED
  BY <1>1, <1>2 DEF WholeInv, WholeOnDisk, OnePerKey, Rows

(* A settlement or a payout with a line missing gets on disk in one way     *)
(* only: another request commits, or deletes, what its handler is still     *)
(* writing. That holds of any number of requests at once, wherever restarts *)
(* cut them off.                                                            *)
THEOREM BooksAreWhole == BooksSpec => []WholeOnDisk
<1>1. TypesInv /\ WholeInv /\ [BooksNext]_booksVars => TypesInv' /\ WholeInv'
  BY NextTypes, NextWhole
<1>2. WholeInv => WholeOnDisk
  BY DEF WholeInv
<1> QED
  BY <1>1, <1>2, InitTypes, InitWhole, PTL DEF BooksSpec

-----------------------------------------------------------------------------
(* The Fund. What a payout under way is going to take is reserved; what the *)
(* handlers have not reserved of the most each may take is spare.           *)

Value(db) == kas_balance(db) + db.undone
Spare(w)  == IF w.pc \in {"shares", "pay"} THEN MaxPayout - w.total ELSE MaxPayout
Slack     == SumFunctionOnSet([h \in Handler |-> Spare(at[h])], Handler)

FundInv == /\ Value(view) + Slack >= MaxPayout
           /\ Value(disk) + (Cardinality(Handler) - 1) * MaxPayout >= 0

(* As many terms, none larger than m.                                       *)
LEMMA SumBound ==
    ASSUME NEW m \in Nat, NEW f, NEW S, IsFiniteSet(S), \A x \in S : f[x] \in Nat /\ f[x] <= m
    PROVE  /\ SumFunctionOnSet(f, S) \in Nat /\ SumFunctionOnSet(f, S) <= Cardinality(S) * m
           /\ (\A x \in S : f[x] = m) => SumFunctionOnSet(f, S) = Cardinality(S) * m
<1> DEFINE G == {T \in SUBSET S :
                    /\ SumFunctionOnSet(f, T) <= Cardinality(T) * m
                    /\ (\A x \in T : f[x] = m) => SumFunctionOnSet(f, T) = Cardinality(T) * m}
<1>1. {} \in G
  <2>1. SumFunctionOnSet(f, {}) = 0 /\ Cardinality({}) = 0
    BY SumEmpty, FS_EmptySet
  <2> QED
    BY <2>1
<1>2. ASSUME NEW T \in SUBSET S, NEW x \in S, T \in G, x \notin T PROVE T \cup {x} \in G
  <2>1. IsFiniteSet(T) /\ \A y \in T \cup {x} : f[y] \in Int
    BY <1>2, FS_Subset
  <2>2. SumFunctionOnSet(f, T \cup {x}) = f[x] + SumFunctionOnSet(f, T)
    BY <1>2, <2>1, SumAdd
  <2>3. Cardinality(T) \in Nat /\ Cardinality(T \cup {x}) = Cardinality(T) + 1
    BY <1>2, <2>1, FS_AddElement, FS_CardinalityType
  <2>4. SumFunctionOnSet(f, T) \in Nat
    BY <1>2, <2>1, SumNat
  <2>5. PICK c \in Nat, a \in Nat, b \in Nat :
           c = Cardinality(T) /\ a = SumFunctionOnSet(f, T) /\ b = f[x] /\ b <= m
    BY <2>3, <2>4
  <2>6. (c + 1) * m = c * m + m /\ c * m \in Nat
    OBVIOUS
  <2>7. a <= c * m /\ ((\A y \in T : f[y] = m) => a = c * m)
    BY <1>2, <2>5
  <2>8. SumFunctionOnSet(f, T \cup {x}) = b + a /\ Cardinality(T \cup {x}) * m = c * m + m
    BY <2>2, <2>3, <2>5, <2>6
  <2>9. PICK d \in Nat : d = c * m
    BY <2>6
  <2>10. b + a <= d + m /\ ((\A y \in T \cup {x} : f[y] = m) => b + a = d + m)
    BY <2>5, <2>7, <2>9
  <2> QED
    BY <2>8, <2>9, <2>10
<1> HIDE DEF G
<1>3. S \in G
  BY <1>1, <1>2, PartByPart
<1>4. SumFunctionOnSet(f, S) \in Nat
  BY SumNat
<1> QED
  BY <1>3, <1>4 DEF G

(* What is in the books is a number.                                        *)
LEMMA ValueIs ==
    ASSUME NEW db \in Db, FiniteRows(db)
    PROVE  /\ PaidIn(db.settlements) \in Nat /\ PaidOut(db.payouts) \in Nat
           /\ kas_balance(db) = PaidIn(db.settlements) - PaidOut(db.payouts)
           /\ kas_balance(db) \in Int /\ db.undone \in Nat /\ Value(db) \in Int
           /\ Value(db) = kas_balance(db) + db.undone
<1>1. PICK a, b : a = PaidIn(db.settlements) /\ b = PaidOut(db.payouts)
  OBVIOUS
<1>2. a \in Nat /\ b \in Nat
  BY <1>1, SumsOfBooks DEF FiniteRows
<1>3. kas_balance(db) = a - b
  BY <1>1, BalanceIs
<1>4. db.undone \in Nat
  BY DEF Db
<1> QED
  BY <1>1, <1>2, <1>3, <1>4 DEF Value

(* The spare part is a number, and what it is after a move.                 *)
LEMMA SpareIs ==
    ASSUME NEW w \in Work, Held(w)
    PROVE  Spare(w) \in Nat /\ Spare(w) <= MaxPayout /\ MaxPayout \in Nat
BY BooksAssumption DEF Spare, Held, Work

LEMMA SlackIs ==
    ASSUME TypesInv
    PROVE  /\ Slack \in Nat /\ Slack <= Cardinality(Handler) * MaxPayout
           /\ Cardinality(Handler) \in Nat /\ MaxPayout \in Nat
           /\ \A h \in Handler : Spare(at[h]) \in Nat /\ Spare(at[h]) <= Slack
           /\ (\A h \in Handler : Spare(at[h]) = MaxPayout) =>
                  Slack = Cardinality(Handler) * MaxPayout
<1>1. PICK f : f = [h \in Handler |-> Spare(at[h])]
  OBVIOUS
<1>2. \A h \in Handler : f[h] = Spare(at[h]) /\ f[h] \in Nat /\ f[h] <= MaxPayout
  BY <1>1, SpareIs DEF TypesInv, BooksTypes
<1>3. Slack = SumFunctionOnSet(f, Handler)
  BY <1>1 DEF Slack
<1>4. IsFiniteSet(Handler) /\ MaxPayout \in Nat /\ Cardinality(Handler) \in Nat
  BY BooksAssumption, FS_CardinalityType
<1>5. /\ Slack \in Nat /\ Slack <= Cardinality(Handler) * MaxPayout
      /\ (\A h \in Handler : f[h] = MaxPayout) => Slack = Cardinality(Handler) * MaxPayout
  BY <1>2, <1>3, <1>4, SumBound
<1>6. \A h \in Handler : f[h] <= Slack
  <2> TAKE h \in Handler
  <2>1. Slack = f[h] + SumFunctionOnSet(f, Handler \ {h})
    BY <1>2, <1>3, <1>4, SumTake
  <2>2. IsFiniteSet(Handler \ {h})
    BY <1>4, FS_Subset
  <2>3. SumFunctionOnSet(f, Handler \ {h}) \in Nat
    BY <1>2, <2>2, SumNat
  <2>4. PICK a \in Nat, b \in Nat : a = f[h] /\ b = SumFunctionOnSet(f, Handler \ {h})
    BY <1>2, <2>3
  <2> QED
    BY <2>1, <2>4
<1> QED
  BY <1>2, <1>4, <1>5, <1>6

LEMMA SlackMoves ==
    ASSUME TypesInv, NEW h \in Handler, NEW w \in Work, Turn(h, w)
    PROVE  Slack' = Slack - Spare(at[h]) + Spare(w)
<1>1. /\ at' \in [Handler -> Work] /\ at'[h] = w /\ Held(w)
      /\ \A g \in Handler : g # h => at'[g] = at[g]
  BY Turned DEF TypesInv, BooksTypes
<1>2. PICK f : f = [g \in Handler |-> Spare(at[g])]
  OBVIOUS
<1>3. PICK e : e = [g \in Handler |-> Spare(at'[g])]
  OBVIOUS
<1>4. \A g \in Handler : Spare(at[g]) \in Int /\ Spare(w) \in Int
  BY <1>1, SpareIs DEF TypesInv, BooksTypes
<1>5. \A g \in Handler : /\ f[g] \in Int /\ e[g] \in Int /\ (g # h => e[g] = f[g])
  BY <1>1, <1>2, <1>3, <1>4
<1>6. SumFunctionOnSet(e, Handler) = SumFunctionOnSet(f, Handler) - f[h] + e[h]
  BY <1>5, BooksAssumption, SumChange
<1>7. Slack = SumFunctionOnSet(f, Handler)
  BY <1>2 DEF Slack
<1>8. Slack' = SumFunctionOnSet(e, Handler)
  BY <1>3 DEF Slack, Spare
<1> QED
  BY <1>1, <1>2, <1>3, <1>6, <1>7, <1>8

(* A line more is paid in with the rest, and nothing else changes.          *)
LEMMA LongerPaysIn ==
    ASSUME NEW h \in Handler, NEW x \in Line, NEW S, FiniteSettlements(S), OnePerKey(S)
    PROVE  PaidIn(S) <= PaidIn({Longer(h, x, s) : s \in S})
<1> DEFINE L == {Longer(h, x, s) : s \in S}
<1>1. \A s \in S : s \in Settlement /\ IsFiniteSet(s.lines)
  BY DEF FiniteSettlements
<1>2. FiniteSettlements(L)
  BY LongerSettlements
<1>3. PaidIn(S) \in Nat /\ PaidIn(L) \in Nat
  <2>1. FinitePayouts({})
    BY FS_EmptySet DEF FinitePayouts
  <2> HIDE DEF L
  <2> QED
    BY <1>2, <2>1, SumsOfBooks
<1>4. CASE \A s \in S : Key(s) # Key(at[h])
  <2>1. \A s \in S : Longer(h, x, s) = s
    BY <1>4 DEF Longer
  <2>2. L = S
    BY <2>1
  <2> QED
    BY <1>3, <2>2
<1>5. ASSUME NEW s \in S, Key(s) = Key(at[h]) PROVE PaidIn(S) <= PaidIn(L)
  <2>1. PICK rest, t : rest = S \ {s} /\ t = Longer(h, x, s)
    OBVIOUS
  <2>2. \A r \in rest : Longer(h, x, r) = r /\ Key(r) # Key(s)
    BY <1>5, <2>1 DEF Longer, OnePerKey
  <2>3. L = rest \cup {t} /\ S = rest \cup {s}
    BY <2>1, <2>2
  <2>4. t \in Settlement /\ IsFiniteSet(t.lines) /\ t \in L
    BY <1>2, <2>3 DEF FiniteSettlements
  <2>5. s.lines \subseteq t.lines /\ Key(t) = Key(s)
    BY <1>1, <1>5, <2>1, LongerIs
  <2>6. t \notin rest /\ s \notin rest
    BY <2>1, <2>2, <2>5
  <2>7. FiniteSettlements(rest)
    BY <2>1, FS_Subset DEF FiniteSettlements
  <2> HIDE DEF L
  <2>8. /\ PaidIn(rest) \in Nat /\ Contributed(s) \in Nat
        /\ PaidIn(rest \cup {s}) = PaidIn(rest) + Contributed(s)
    BY <1>1, <2>6, <2>7, SettlementPaysIn
  <2>9. Contributed(t) \in Nat /\ PaidIn(rest \cup {t}) = PaidIn(rest) + Contributed(t)
    BY <2>4, <2>6, <2>7, SettlementPaysIn
  <2>10. Contributed(s) <= Contributed(t)
    <3>1. PICK f : f = [l \in s.lines |-> l.kas]
      OBVIOUS
    <3>2. PICK g : g = [l \in t.lines |-> l.kas]
      OBVIOUS
    <3>3. \A l \in t.lines : g[l] \in Nat
      BY <2>4, <3>2 DEF Settlement, Line
    <3>4. \A l \in s.lines : f[l] = g[l]
      BY <2>5, <3>1, <3>2
    <3>5. SumFunction(f) <= SumFunction(g)
      BY <2>4, <2>5, <3>1, <3>2, <3>3, <3>4, SumFunctionPart
    <3> QED
      BY <3>1, <3>2, <3>5 DEF Contributed
  <2>11. PICK a \in Nat, b \in Nat, c \in Nat :
            a = PaidIn(rest) /\ b = Contributed(s) /\ c = Contributed(t)
    BY <2>8, <2>9
  <2> QED
    BY <2>3, <2>8, <2>9, <2>10, <2>11
<1> QED
  BY <1>4, <1>5

(* A share more is paid out of the same total.                              *)
LEMMA LongerPaysOut ==
    ASSUME NEW h \in Handler, NEW x \in Person, NEW P, FinitePayouts(P), OnePerKey(P)
    PROVE  PaidOut({Longer(h, x, p) : p \in P}) = PaidOut(P)
<1> DEFINE L == {Longer(h, x, p) : p \in P}
<1>1. FinitePayouts(L)
  BY LongerPayouts
<1>2. CASE \A p \in P : Key(p) # Key(at[h])
  <2>1. \A p \in P : Longer(h, x, p) = p
    BY <1>2 DEF Longer
  <2>2. L = P
    BY <2>1
  <2> QED
    BY <2>2
<1>3. ASSUME NEW p \in P, Key(p) = Key(at[h]) PROVE PaidOut(L) = PaidOut(P)
  <2>1. PICK rest, q : rest = P \ {p} /\ q = Longer(h, x, p)
    OBVIOUS
  <2>2. \A r \in rest : Longer(h, x, r) = r /\ Key(r) # Key(p)
    BY <1>3, <2>1 DEF Longer, OnePerKey
  <2>3. L = rest \cup {q} /\ P = rest \cup {p}
    BY <2>1, <2>2
  <2>4. q \in Payout /\ p \in Payout
    BY <1>1, <2>3 DEF FinitePayouts
  <2>5. q.total = p.total /\ Key(q) = Key(p)
    BY <2>1, <2>4, LongerIs
  <2>6. q \notin rest /\ p \notin rest
    BY <2>1, <2>2, <2>5
  <2>7. FinitePayouts(rest)
    BY <2>1, FS_Subset DEF FinitePayouts
  <2> HIDE DEF L
  <2>8. PaidOut(rest \cup {p}) = PaidOut(rest) + p.total
    BY <2>4, <2>6, <2>7, PayoutTakesOut
  <2>9. PaidOut(rest \cup {q}) = PaidOut(rest) + q.total
    BY <2>4, <2>6, <2>7, PayoutTakesOut
  <2> QED
    BY <2>3, <2>5, <2>8, <2>9
<1> QED
  BY <1>2, <1>3

(* What is deleted and what stays had put in what was there.                *)
LEMMA PaidInParts ==
    ASSUME NEW S, FiniteSettlements(S), NEW T, T \subseteq S
    PROVE  /\ PaidIn(T) \in Nat /\ PaidIn(S \ T) \in Nat
           /\ PaidIn(S) = PaidIn(S \ T) + PaidIn(T)
<1>1. PICK R : R = S \ T
  OBVIOUS
<1>2. FiniteSettlements(T) /\ FiniteSettlements(R)
  BY <1>1, FS_Subset DEF FiniteSettlements
<1>3. FinitePayouts({})
  BY FS_EmptySet DEF FinitePayouts
<1>4. PaidIn(T) \in Nat /\ PaidIn(R) \in Nat
  BY <1>2, <1>3, SumsOfBooks
<1>5. PICK f : f = [s \in S |-> Contributed(s)]
  OBVIOUS
<1>6. PICK g : g = [s \in T |-> Contributed(s)]
  OBVIOUS
<1>7. PICK e : e = [s \in R |-> Contributed(s)]
  OBVIOUS
<1>8. IsFiniteSet(T) /\ IsFiniteSet(R) /\ R \cap T = {} /\ R \cup T = S
  BY <1>1, <1>2 DEF FiniteSettlements
<1>9. \A s \in R \cup T : f[s] \in Int
  BY <1>5, <1>8, ContributedIsNat DEF FiniteSettlements
<1>10. SumFunctionOnSet(f, S) = SumFunctionOnSet(f, R) + SumFunctionOnSet(f, T)
  BY <1>8, <1>9, SumUnion
<1>11. SumFunctionOnSet(f, R) = SumFunctionOnSet(e, R)
  <2>1. \A s \in R : f[s] = e[s]
    BY <1>1, <1>5, <1>7
  <2> QED
    BY <1>8, <2>1, SumAgrees
<1>12. SumFunctionOnSet(f, T) = SumFunctionOnSet(g, T)
  <2>1. \A s \in T : f[s] = g[s]
    BY <1>5, <1>6
  <2> QED
    BY <1>8, <2>1, SumAgrees
<1>13. PaidIn(S) = PaidIn(R) + PaidIn(T)
  BY <1>5, <1>6, <1>7, <1>10, <1>11, <1>12 DEF PaidIn, SumFunction
<1> QED
  BY <1>1, <1>4, <1>13

(* No move but the check of a payout and a commit takes from what is there  *)
(* and spare.                                                               *)
LEMMA MovesKeepValue ==
    ASSUME TypesInv, WholeInv, NEW h \in Handler, NEW w \in Work, Moves(h, w),
           ~AsksToPay(h, w), ~Saves(h, w)
    PROVE  disk' = disk /\ Value(view') + Spare(w) >= Value(view) + Spare(at[h])
<1>1. /\ view \in Db /\ FiniteRows(view) /\ view' \in Db /\ FiniteRows(view') /\ Turn(h, w)
      /\ at[h] \in Work /\ Held(at[h]) /\ Held(w)
  BY MoveShapes DEF TypesInv, BooksTypes, Turn
<1>2. /\ FiniteSettlements(view.settlements) /\ FinitePayouts(view.payouts)
      /\ FiniteSettlements(view'.settlements) /\ FinitePayouts(view'.payouts)
  BY <1>1 DEF FiniteRows
<1>3. PICK i, o, u, b : /\ i = PaidIn(view.settlements) /\ o = PaidOut(view.payouts)
                        /\ u = view.undone /\ b = Spare(at[h])
  OBVIOUS
<1>4. PICK i1, o1, u1, b1 : /\ i1 = PaidIn(view'.settlements) /\ o1 = PaidOut(view'.payouts)
                            /\ u1 = view'.undone /\ b1 = Spare(w)
  OBVIOUS
<1>5. /\ i \in Nat /\ o \in Nat /\ u \in Nat /\ b \in Nat /\ Value(view) = (i - o) + u
      /\ b <= MaxPayout /\ MaxPayout \in Nat
  BY <1>1, <1>3, ValueIs, SpareIs
<1>6. /\ i1 \in Nat /\ o1 \in Nat /\ u1 \in Nat /\ b1 \in Nat /\ Value(view') = (i1 - o1) + u1
  BY <1>1, <1>4, ValueIs, SpareIs
<1> SUFFICES disk' = disk /\ ((i1 - o1) + u1) + b1 >= ((i - o) + u) + b
  BY <1>3, <1>4, <1>5, <1>6
<1>7. OnePerKey(view.settlements) /\ OnePerKey(view.payouts)
  BY DEF WholeInv, OnePerKey, Rows
<1>8. w.pc \notin {"shares", "pay"} => b1 = MaxPayout
  BY <1>4 DEF Spare
<1>9. CASE \/ AsksToClose(h, w) \/ Rests(h, w) \/ Chooses(h, w) \/ SumsUp(h, w) \/ Fails(h, w)
  <2>1. disk' = disk /\ view' = view /\ w.pc \notin {"shares", "pay"}
    BY <1>9 DEF AsksToClose, Rests, Chooses, SumsUp, Fails, Reads
  <2>2. i1 = i /\ o1 = o /\ u1 = u
    BY <1>3, <1>4, <2>1
  <2> QED
    BY <1>5, <1>6, <1>8, <2>1, <2>2
<1>10. CASE Shares(h, w)
  <2>1. disk' = disk /\ view' = view /\ w.pc = "pay" /\ at[h].pc = "shares" /\ w.total = at[h].total
    BY <1>10 DEF Shares, Reads
  <2>2. b1 = b /\ i1 = i /\ o1 = o /\ u1 = u
    BY <1>3, <1>4, <2>1 DEF Spare
  <2> QED
    BY <1>5, <1>6, <2>1, <2>2
<1>11. ASSUME NEW s, Heads(h, w, s) PROVE disk' = disk /\ ((i1 - o1) + u1) + b1 >= ((i - o) + u) + b
  <2>1. disk' = disk /\ w.pc = "settleLines" /\ NewHeader(h, s)
    BY <1>11 DEF Heads
  <2>2. /\ view'.settlements = view.settlements \cup {s} /\ view'.payouts = view.payouts
        /\ view'.undone = view.undone
    BY <1>1, <1>11 DEF Heads, Db
  <2>3. s \in Settlement /\ s.lines = {} /\ s \notin view.settlements
    <3>1. s \in Settlement /\ s.lines = {} /\ \A t \in view.settlements : t.id < s.id
      BY <2>1 DEF NewHeader, NewSettlement
    <3>2. s.id \in Nat
      BY <3>1 DEF Settlement
    <3> QED
      BY <3>1, <3>2
  <2>4. PICK c : c = Contributed(s)
    OBVIOUS
  <2>5. c \in Nat /\ PaidIn(view.settlements \cup {s}) = PaidIn(view.settlements) + c
    BY <1>2, <2>3, <2>4, FS_EmptySet, SettlementPaysIn
  <2>6. i1 = i + c /\ o1 = o /\ u1 = u
    BY <1>3, <1>4, <2>2, <2>5
  <2> QED
    BY <1>5, <1>6, <1>8, <2>1, <2>5, <2>6
<1>12. ASSUME NEW p, HeadsPayout(h, w, p) PROVE disk' = disk /\ ((i1 - o1) + u1) + b1 >= ((i - o) + u) + b
  <2>1. /\ disk' = disk /\ w.pc \notin {"shares", "pay"} /\ NewPayout(h, p) /\ at[h].pc = "pay"
    BY <1>12 DEF HeadsPayout
  <2>2. /\ view'.payouts = view.payouts \cup {p} /\ view'.settlements = view.settlements
        /\ view'.undone = view.undone
    BY <1>1, <1>12 DEF HeadsPayout, Db
  <2>3. p \in Payout /\ p \notin view.payouts /\ p.total = at[h].total
    BY <2>1 DEF NewPayout
  <2>4. p.total \in Nat /\ o1 = o + p.total
    BY <1>2, <1>3, <1>4, <2>2, <2>3, PayoutTakesOut
  <2>5. b = MaxPayout - p.total
    BY <1>3, <2>1, <2>3 DEF Spare
  <2>6. i1 = i /\ u1 = u /\ b1 = MaxPayout
    BY <1>3, <1>4, <1>8, <2>1, <2>2
  <2>7. PICK n \in Nat : n = p.total
    BY <2>4
  <2> QED
    BY <1>5, <1>6, <2>1, <2>4, <2>5, <2>6, <2>7
<1>13. ASSUME NEW x, WritesLine(h, w, x) PROVE disk' = disk /\ ((i1 - o1) + u1) + b1 >= ((i - o) + u) + b
  <2>1. disk' = disk /\ x \in Line /\ w.pc \in {"settleLines", "commit"}
    BY <1>1, <1>13 DEF WritesLine, Next1, Held
  <2>2. /\ view'.settlements = {Longer(h, x, s) : s \in view.settlements}
        /\ view'.payouts = view.payouts /\ view'.undone = view.undone
    BY <1>1, <1>13 DEF WritesLine, Db
  <2>3. i <= i1
    BY <1>2, <1>3, <1>4, <1>7, <2>1, <2>2, LongerPaysIn
  <2>4. o1 = o /\ u1 = u /\ b1 = MaxPayout
    BY <1>3, <1>4, <1>8, <2>1, <2>2
  <2> QED
    BY <1>5, <1>6, <2>1, <2>3, <2>4
<1>14. ASSUME NEW x, WritesShare(h, w, x) PROVE disk' = disk /\ ((i1 - o1) + u1) + b1 >= ((i - o) + u) + b
  <2>1. disk' = disk /\ x \in Person /\ w.pc \in {"payLines", "commit"}
    BY <1>1, <1>14 DEF WritesShare, Next1, Held
  <2>2. /\ view'.payouts = {Longer(h, x, p) : p \in view.payouts}
        /\ view'.settlements = view.settlements /\ view'.undone = view.undone
    BY <1>1, <1>14 DEF WritesShare, Db
  <2>3. o1 = o
    BY <1>2, <1>3, <1>4, <1>7, <2>1, <2>2, LongerPaysOut
  <2>4. i1 = i /\ u1 = u /\ b1 = MaxPayout
    BY <1>3, <1>4, <1>8, <2>1, <2>2
  <2> QED
    BY <1>5, <1>6, <2>1, <2>3, <2>4
<1>15. ASSUME NEW gone, Undoes(h, w, gone) PROVE disk' = disk /\ ((i1 - o1) + u1) + b1 >= ((i - o) + u) + b
  <2>1. disk' = disk /\ gone \subseteq view.settlements /\ w.pc = "commit"
    BY <1>15 DEF Undoes
  <2>2. PICK d : d = PaidIn(gone)
    OBVIOUS
  <2>3. /\ view'.settlements = view.settlements \ gone /\ view'.payouts = view.payouts
        /\ view'.undone = view.undone + d
    BY <1>1, <1>15, <2>2 DEF Undoes, Db, PaidIn
  <2>4. d \in Nat /\ i = i1 + d
    BY <1>2, <1>3, <1>4, <2>1, <2>2, <2>3, PaidInParts
  <2>5. u1 = u + d /\ o1 = o /\ b1 = MaxPayout
    BY <1>3, <1>4, <1>8, <2>1, <2>3
  <2> QED
    BY <1>5, <1>6, <2>1, <2>4, <2>5
<1>16. ASSUME NEW key, TakesBack(h, w, key) PROVE disk' = disk /\ ((i1 - o1) + u1) + b1 >= ((i - o) + u) + b
  <2>1. disk' = disk /\ w.pc = "commit"
    BY <1>16 DEF TakesBack
  <2>2. /\ view'.payouts \subseteq view.payouts
        /\ view'.settlements = view.settlements /\ view'.undone = view.undone
    BY <1>1, <1>16 DEF TakesBack, Db
  <2>3. o1 <= o
    BY <1>2, <1>3, <1>4, <2>2, SumsOfBooks
  <2>4. i1 = i /\ u1 = u /\ b1 = MaxPayout
    BY <1>3, <1>4, <1>8, <2>1, <2>2
  <2> QED
    BY <1>5, <1>6, <2>1, <2>3, <2>4
<1> QED
  BY <1>9, <1>10, <1>11, <1>12, <1>13, <1>14, <1>15, <1>16 DEF Moves

(* Every step keeps the Fund within what its handlers may take.             *)
LEMMA NextFund == ASSUME TypesInv, WholeInv, FundInv, [BooksNext]_booksVars PROVE FundInv'
<1>1. /\ view \in Db /\ FiniteRows(view) /\ disk \in Db /\ FiniteRows(disk)
  BY DEF TypesInv, BooksTypes
<1>2. PICK v, d, n : v = Value(view) /\ d = Value(disk) /\ n = Cardinality(Handler) * MaxPayout
  OBVIOUS
<1>3. PICK k : k = Slack
  OBVIOUS
<1>4. /\ v \in Int /\ d \in Int /\ k \in Nat /\ k <= n /\ MaxPayout \in Nat /\ n \in Nat
      /\ (Cardinality(Handler) - 1) * MaxPayout = n - MaxPayout
  <2>1. PICK c \in Nat, m \in Nat : c = Cardinality(Handler) /\ m = MaxPayout
    BY SlackIs
  <2>2. (c - 1) * m = c * m - m /\ c * m \in Nat
    OBVIOUS
  <2> QED
    BY <1>1, <1>2, <1>3, <2>1, <2>2, ValueIs, SlackIs
<1>5. v + k >= MaxPayout /\ d + (n - MaxPayout) >= 0
  BY <1>2, <1>3, <1>4 DEF FundInv
<1>6. ASSUME NEW h \in Handler, NEW w \in Work, Moves(h, w) PROVE FundInv'
  <2>1. /\ view' \in Db /\ FiniteRows(view') /\ Turn(h, w) /\ Held(w)
        /\ at[h] \in Work /\ Held(at[h])
    BY <1>6, MoveShapes DEF TypesInv, BooksTypes, Turn
  <2>2. PICK b, b1, v1, k1 : b = Spare(at[h]) /\ b1 = Spare(w) /\ v1 = Value(view') /\ k1 = Slack'
    OBVIOUS
  <2>3. b \in Nat /\ b1 \in Nat /\ v1 \in Int /\ b <= k /\ b <= MaxPayout /\ b1 <= MaxPayout
    BY <1>3, <2>1, <2>2, SpareIs, ValueIs, SlackIs
  <2>4. k1 = (k - b) + b1
    <3>1. k1 = Slack - b + b1
      BY <1>6, <2>1, <2>2, SlackMoves
    <3> QED
      BY <1>3, <1>4, <2>3, <3>1
  <2>5. CASE AsksToPay(h, w)
    <3>1. /\ view' = view /\ disk' = disk /\ w.pc = "shares" /\ at[h].pc = "idle"
          /\ w.total <= kas_balance(view)
      BY <2>5 DEF AsksToPay, Reads
    <3>2. b1 = MaxPayout - w.total /\ b = MaxPayout /\ w.total \in Nat
      BY <2>2, <3>1 DEF Spare, Work
    <3>3. PICK x \in Int, u \in Nat, t \in Nat : x = kas_balance(view) /\ u = view.undone /\ t = w.total
      BY <1>1, <3>2, ValueIs
    <3>4. v = x + u /\ v1 = v
      BY <1>1, <1>2, <2>2, <3>1, <3>3, ValueIs
    <3>5. v1 + k1 >= MaxPayout
      BY <1>4, <2>3, <2>4, <3>1, <3>2, <3>3, <3>4
    <3>6. Value(disk') = d
      BY <1>2, <3>1
    <3> QED
      BY <1>4, <1>5, <2>2, <3>5, <3>6 DEF FundInv, Value, kas_balance, Contributed
  <2>6. CASE Saves(h, w)
    <3>1. disk' = view /\ view' = view /\ at[h].pc = "commit" /\ w.pc = "idle"
      BY <2>6 DEF Saves
    <3>2. b = MaxPayout /\ b1 = MaxPayout
      BY <2>2, <3>1 DEF Spare
    <3>3. v1 = v /\ Value(disk') = v
      BY <1>2, <2>2, <3>1
    <3>4. v1 + k1 >= MaxPayout /\ v + (n - MaxPayout) >= 0
      BY <1>4, <1>5, <2>3, <2>4, <3>2, <3>3
    <3> QED
      BY <1>4, <2>2, <3>3, <3>4 DEF FundInv, Value, kas_balance, Contributed
  <2>7. CASE ~AsksToPay(h, w) /\ ~Saves(h, w)
    <3>1. disk' = disk /\ v1 + b1 >= v + b
      BY <1>2, <1>6, <2>2, <2>7, MovesKeepValue
    <3>2. v1 + k1 >= MaxPayout
      BY <1>4, <1>5, <2>3, <2>4, <3>1
    <3>3. Value(disk') = d
      BY <1>2, <3>1
    <3> QED
      BY <1>4, <1>5, <2>2, <3>2, <3>3 DEF FundInv, Value, kas_balance, Contributed
  <2> QED
    BY <2>5, <2>6, <2>7
<1>7. CASE SnapshotStep \/ UNCHANGED booksVars
  <2>1. UNCHANGED <<view, disk, at>>
    BY <1>7 DEF SnapshotStep, booksVars
  <2> QED
    BY <2>1 DEF FundInv, Value, kas_balance, Contributed, Slack, Spare
<1>8. CASE TrackerRestarts
  <2>1. /\ TypesInv' /\ view' = disk /\ disk' = disk /\ \A h \in Handler : at'[h] = IdleHandler
    BY <1>8, RestartTypes
  <2>2. \A h \in Handler : Spare(at'[h]) = MaxPayout
    BY <2>1, IdleIsWork DEF Spare
  <2>3. Slack' = n
    <3>1. PICK f : f = [h \in Handler |-> Spare(at'[h])]
      OBVIOUS
    <3>2. \A h \in Handler : f[h] = MaxPayout
      BY <2>2, <3>1
    <3>3. SumFunctionOnSet(f, Handler) = n
      BY <1>2, <1>4, <3>2, BooksAssumption, SumBound
    <3> QED
      BY <3>1, <3>3 DEF Slack, Spare
  <2>4. Value(view') = d /\ Value(disk') = d
    BY <1>2, <2>1
  <2>5. d + n >= MaxPayout
    BY <1>4, <1>5
  <2> QED
    BY <1>4, <1>5, <2>3, <2>4, <2>5 DEF FundInv, Value, kas_balance, Contributed
<1> QED
  BY <1>6, <1>7, <1>8, Steps

(* The Fund begins empty, and nothing is reserved.                          *)
LEMMA InitFund == BooksInit => FundInv
<1> SUFFICES ASSUME BooksInit PROVE FundInv
  OBVIOUS
<1>1. view = Empty /\ disk = Empty /\ \A h \in Handler : at[h] = IdleHandler
  BY DEF BooksInit
<1>2. \A h \in Handler : Spare(at[h]) = MaxPayout
  BY <1>1, IdleIsWork DEF Spare
<1>3. TypesInv
  BY InitTypes
<1>4. PICK c \in Nat, m \in Nat : c = Cardinality(Handler) /\ m = MaxPayout /\ Slack = c * m
  BY <1>2, <1>3, SlackIs
<1>5. c >= 1
  <2>1. c # 0
    BY <1>4, BooksAssumption, FS_EmptySet
  <2> QED
    BY <2>1
<1>6. Value(Empty) \in Nat
  <2>1. Empty \in Db /\ FiniteRows(Empty)
    BY <1>1, <1>3 DEF TypesInv, BooksTypes
  <2>2. Empty.settlements = {} /\ Empty.payouts = {} /\ Empty.undone = 0
    BY DEF Empty
  <2>3. PaidIn({}) = 0
    <3>1. PICK f : f = [s \in {} |-> Contributed(s)]
      OBVIOUS
    <3>2. SumFunctionOnSet(f, {}) = 0
      BY SumEmpty
    <3> QED
      BY <3>1, <3>2 DEF PaidIn, SumFunction
  <2>4. PaidOut({}) = 0
    <3>1. PICK f : f = [p \in {} |-> p.total]
      OBVIOUS
    <3>2. SumFunctionOnSet(f, {}) = 0
      BY SumEmpty
    <3> QED
      BY <3>1, <3>2 DEF PaidOut, SumFunction
  <2>5. Value(Empty) = kas_balance(Empty) + Empty.undone
    BY DEF Value
  <2>6. kas_balance(Empty) = PaidIn(Empty.settlements) - PaidOut(Empty.payouts)
    BY <2>1, ValueIs
  <2>7. kas_balance(Empty) = 0 - 0
    BY <2>2, <2>3, <2>4, <2>6
  <2> QED
    BY <2>2, <2>5, <2>7
<1>7. PICK v \in Nat : v = Value(Empty)
  BY <1>6
<1>8. c * m >= m /\ (c - 1) * m >= 0
  <2>1. PICK e \in Nat : c = e + 1
    <3>1. c - 1 \in Nat /\ c = (c - 1) + 1
      BY <1>5
    <3> QED
      BY <3>1
  <2>2. (e + 1) * m = e * m + m /\ e * m \in Nat /\ c - 1 = e
    BY <2>1
  <2> QED
    BY <2>1, <2>2
<1>9. v + c * m >= m /\ v + (c - 1) * m >= 0
  <2>1. PICK x \in Int, y \in Int : x = c * m /\ y = (c - 1) * m
    OBVIOUS
  <2> QED
    BY <1>7, <1>8, <2>1
<1> QED
  BY <1>1, <1>4, <1>7, <1>9 DEF FundInv

(* Whatever requests are asked for at once, the Fund is overdrawn by no     *)
(* more than the other handlers may have taken, apart from what deleting    *)
(* settlements took back: never by a request that runs alone.               *)
THEOREM FundIsNotOverdrawn == BooksSpec => []OverdrawnByOthersAtMost
<1>1. TypesInv /\ WholeInv /\ FundInv /\ [BooksNext]_booksVars => TypesInv' /\ WholeInv' /\ FundInv'
  BY NextTypes, NextWhole, NextFund
<1>2. TypesInv /\ FundInv => OverdrawnByOthersAtMost
  <2> SUFFICES ASSUME TypesInv, FundInv PROVE OverdrawnByOthersAtMost
    OBVIOUS
  <2>1. /\ view \in Db /\ FiniteRows(view) /\ disk \in Db /\ FiniteRows(disk)
    BY DEF TypesInv, BooksTypes
  <2>2. PICK c \in Nat, m \in Nat : c = Cardinality(Handler) /\ m = MaxPayout /\ Slack <= c * m /\ Slack \in Nat
    BY SlackIs
  <2>3. (c - 1) * m = c * m - m /\ c * m \in Nat
    OBVIOUS
  <2>4. PICK v, k : v = Value(view) /\ k = Slack
    OBVIOUS
  <2>5. v + (c - 1) * m >= 0
    <3>1. v + k >= m /\ v \in Int
      BY <2>1, <2>2, <2>4, ValueIs DEF FundInv
    <3>2. PICK x \in Nat : x = c * m
      BY <2>3
    <3> QED
      BY <2>2, <2>3, <2>4, <3>1, <3>2
  <2>6. Value(disk) + (c - 1) * m >= 0
    BY <2>2 DEF FundInv
  <2>7. \A db \in {view, disk} : kas_balance(db) + db.undone + (c - 1) * m >= 0
    <3> TAKE db \in {view, disk}
    <3>1. Value(db) + (c - 1) * m >= 0 /\ kas_balance(db) \in Int /\ db.undone \in Nat
      BY <2>1, <2>4, <2>5, <2>6, ValueIs
    <3>2. PICK y \in Int : y = (c - 1) * m
      OBVIOUS
    <3> QED
      BY <3>1, <3>2 DEF Value
  <2> QED
    BY <2>2, <2>7 DEF OverdrawnByOthersAtMost
<1> QED
  BY <1>1, <1>2, InitTypes, InitWhole, InitFund, PTL DEF BooksSpec

-----------------------------------------------------------------------------
(* What the pages show.                                                     *)

LEMMA TableIsFinite ==
    ASSUME TableTypeOK, NEW ids \in SUBSET DOMAIN snapshots
    PROVE  IsFiniteSet(ids) /\ ids \subseteq Nat
<1>1. PICK n \in Nat : DOMAIN snapshots = 1 .. n
  BY DEF TableTypeOK
<1> QED
  BY <1>1, FS_Interval, FS_Subset

(* Snapshots in which a hotkey has no row add nothing.                      *)
LEMMA SumOverRows ==
    ASSUME NEW k, NEW ids, NEW rows \in SUBSET ids,
           \A id \in ids \ rows : snapshots[id].row[k] = "none"
    PROVE  SumOver(ids, k) = SumOver(rows, k)
<1>1. {id \in ids : IsRegistered(id, k)} = {id \in rows : IsRegistered(id, k)}
  BY DEF IsRegistered
<1> QED
  BY <1>1 DEF SumOver

LEMMA SumOverEmpty == ASSUME NEW k PROVE SumOver({}, k) = 0
BY FS_EmptySet DEF SumOver

(* Two ranges that do not overlap.                                          *)
LEMMA SumOverUnion ==
    ASSUME TableTypeOK, NEW k, NEW A \in SUBSET DOMAIN snapshots,
           NEW B \in SUBSET DOMAIN snapshots, A \cap B = {}
    PROVE  SumOver(A \cup B, k) = SumOver(A, k) + SumOver(B, k)
<1>1. PICK X, Y : X = {id \in A : IsRegistered(id, k)} /\ Y = {id \in B : IsRegistered(id, k)}
  OBVIOUS
<1>2. X \cap Y = {} /\ X \cup Y = {id \in A \cup B : IsRegistered(id, k)}
  BY <1>1
<1>3. IsFiniteSet(X) /\ IsFiniteSet(Y)
  BY <1>1, TableIsFinite, FS_Subset
<1>4. Cardinality(X) \in Nat /\ Cardinality(Y) \in Nat /\ Cardinality(X \cap Y) = 0
  BY <1>2, <1>3, FS_CardinalityType, FS_EmptySet
<1>5. Cardinality(X \cup Y) = Cardinality(X) + Cardinality(Y) - Cardinality(X \cap Y)
  BY <1>3, FS_Union
<1>6. PICK a \in Nat, b \in Nat : a = Cardinality(X) /\ b = Cardinality(Y)
  BY <1>4
<1>7. Cardinality(X \cup Y) = a + b
  BY <1>4, <1>5, <1>6
<1> QED
  BY <1>1, <1>2, <1>6, <1>7 DEF SumOver

(* The newest finished snapshot is the last of them.                        *)
LEMMA LatestIs ==
    ASSUME TableTypeOK
    PROVE  /\ LatestCounted \in Nat /\ \A id \in AllCounted : id <= LatestCounted
           /\ AllCounted # {} => LatestCounted \in AllCounted /\ Max(AllCounted) = LatestCounted
           /\ AllCounted = {} => LatestCounted = 0
           /\ LatestOnDashboard = LatestCounted
<1>1. PICK n \in Nat : DOMAIN snapshots = 1 .. n
  BY DEF TableTypeOK
<1> DEFINE S == {0} \cup AllCounted
<1>2. S \in SUBSET Nat /\ S # {} /\ (\A x \in S : x <= n) /\ \A x \in AllCounted : x > 0 /\ x \in Nat
  BY <1>1 DEF AllCounted
<1>3. LatestCounted = Max(S) /\ LatestOnDashboard = LatestCounted
  BY DEF LatestCounted, LatestOnDashboard
<1>4. (\A x \in AllCounted : x \in S) /\ 0 \in S /\ \A x \in S : x = 0 \/ x \in AllCounted
  OBVIOUS
<1> HIDE DEF S
<1>5. Max(S) \in S /\ \A x \in S : x <= Max(S)
  BY <1>2, MaxIs
<1>6. PICK m \in Nat : m = Max(S)
  BY <1>2, <1>5
<1>7. m \in Nat /\ \A id \in AllCounted : id <= m
  BY <1>4, <1>5, <1>6
<1>8. ASSUME NEW x \in AllCounted PROVE m \in AllCounted
  <2>1. x \in Nat /\ x > 0 /\ x <= m
    BY <1>2, <1>4, <1>7
  <2>2. m # 0
    BY <2>1
  <2> QED
    BY <1>4, <1>5, <1>6, <2>2
<1>9. AllCounted = {} => m = 0
  BY <1>4, <1>5, <1>6
<1>10. AllCounted # {} => Max(AllCounted) = m
  <2> SUFFICES ASSUME AllCounted # {} PROVE Max(AllCounted) = m
    OBVIOUS
  <2>1. m \in AllCounted
    BY <1>8
  <2>2. PICK x : x = Max(AllCounted)
    OBVIOUS
  <2>3. x \in AllCounted /\ \A y \in AllCounted : y <= x
    <3>1. AllCounted \in SUBSET Nat /\ \A y \in AllCounted : y <= m
      BY <1>2, <1>7
    <3> QED
      BY <2>2, <3>1, MaxIs
  <2>4. x \in Nat /\ x <= m /\ m <= x
    BY <1>2, <1>7, <2>1, <2>3
  <2> QED
    BY <2>2, <2>4
<1> QED
  BY <1>3, <1>6, <1>7, <1>8, <1>9, <1>10

(* A list as long as the bound shows every row.                             *)
LEMMA NewestAll ==
    ASSUME TableTypeOK, NEW rows \in SUBSET DOMAIN snapshots
    PROVE  Newest(rows, All) = rows
<1> SUFFICES ASSUME NEW i \in rows PROVE Cardinality({j \in rows : j > i}) < All
  BY DEF Newest
<1>1. PICK n \in Nat : DOMAIN snapshots = 1 .. n /\ n <= All /\ All \in Nat
  BY TableAssumption DEF TableTypeOK, All
<1> DEFINE above == {j \in rows : j > i}
<1>2. PICK full : full = 1 .. n
  OBVIOUS
<1>3. IsFiniteSet(full) /\ Cardinality(full) = n
  <2>1. Cardinality(1 .. n) = IF 1 > n THEN 0 ELSE n - 1 + 1
    BY FS_Interval
  <2> QED
    BY <1>2, <2>1, FS_Interval
<1>4. i \in full /\ above \subseteq full \ {i}
  <2>1. rows \subseteq full /\ i \in Nat
    BY <1>1, <1>2
  <2>2. \A j \in rows : j > i => j # i
    BY <1>2, <2>1
  <2> QED
    BY <2>1, <2>2
<1>5. IsFiniteSet(full \ {i}) /\ Cardinality(full \ {i}) = n - 1
  BY <1>3, <1>4, FS_RemoveElement
<1> HIDE DEF above
<1>6. Cardinality(above) <= Cardinality(full \ {i}) /\ Cardinality(above) \in Nat
  BY <1>4, <1>5, FS_Subset, FS_CardinalityType
<1>7. Cardinality(above) < All
  BY <1>1, <1>5, <1>6
<1> QED
  BY <1>7 DEF above

(* The whole of the current period is what closing it now would freeze,     *)
(* whichever query filters it, and two ranges that meet make one.           *)
LEMMA PeriodsMeet ==
    ASSUME TableTypeOK, NEW b \in Nat
    PROVE  /\ SummaryOver(b, Ever, Future) = Period(b, LatestCounted)
           /\ HotkeySummaryOver(b, Ever, Future) = Period(b, LatestCounted)
           /\ Period(b, LatestCounted) \in SUBSET DOMAIN snapshots
           /\ \A from, to : HotkeySummaryOver(b, from, to) \in SUBSET DOMAIN snapshots
           /\ \A k : SeriesOver(b, k, Ever, Future)
                     = {id \in Period(b, LatestCounted) : snapshots[id].row[k] # "none"}
           /\ \A p : PersonSeriesOver(b, p, Ever, Future)
                     = {id \in Period(b, LatestCounted) :
                            \E k \in Roster(p) : snapshots[id].row[k] # "none"}
           /\ \A cut \in Nat :
                  /\ HotkeySummaryOver(b, Ever, Future)
                         = HotkeySummaryOver(b, Ever, cut) \cup HotkeySummaryOver(b, cut, Future)
                  /\ HotkeySummaryOver(b, Ever, cut) \cap HotkeySummaryOver(b, cut, Future) = {}
<1>1. PICK n \in Nat : DOMAIN snapshots = 1 .. n /\ n <= MaxSnapshots /\ MaxSnapshots \in Nat
  BY TableAssumption DEF TableTypeOK
<1>2. /\ LatestCounted \in Nat
      /\ \A id \in DOMAIN snapshots : id \in Nat /\ (Counted(id) => id <= LatestCounted)
  BY <1>1, LatestIs DEF AllCounted
<1>3. \A id \in DOMAIN snapshots : Ever <= id /\ id < Future /\ ((id > b) <=> (b < id))
  BY <1>1 DEF Ever, Future
<1>4. \A id : id \in Period(b, LatestCounted) <=> id \in DOMAIN snapshots /\ Counted(id) /\ b < id
  BY <1>2 DEF Period
<1>5. SummaryOver(b, Ever, Future) = Period(b, LatestCounted)
  <2>1. \A id : id \in SummaryOver(b, Ever, Future) <=> id \in DOMAIN snapshots /\ Counted(id) /\ b < id
    BY <1>3 DEF SummaryOver
  <2> QED
    BY <1>4, <2>1
<1>6. HotkeySummaryOver(b, Ever, Future) = Period(b, LatestCounted)
  <2>1. \A id : id \in HotkeySummaryOver(b, Ever, Future) <=> id \in DOMAIN snapshots /\ Counted(id) /\ b < id
    BY <1>3 DEF HotkeySummaryOver
  <2> QED
    BY <1>4, <2>1
<1>7. ASSUME NEW k PROVE SeriesOver(b, k, Ever, Future)
                     = {id \in Period(b, LatestCounted) : snapshots[id].row[k] # "none"}
  <2>1. \A id : id \in SeriesOver(b, k, Ever, Future)
            <=> id \in DOMAIN snapshots /\ snapshots[id].row[k] # "none" /\ Counted(id) /\ b < id
    BY <1>3 DEF SeriesOver
  <2> QED
    BY <1>4, <2>1
<1>8. ASSUME NEW p PROVE PersonSeriesOver(b, p, Ever, Future)
                     = {id \in Period(b, LatestCounted) :
                            \E k \in Roster(p) : snapshots[id].row[k] # "none"}
  <2>1. \A id : id \in PersonSeriesOver(b, p, Ever, Future)
            <=> /\ id \in DOMAIN snapshots /\ (\E k \in Roster(p) : snapshots[id].row[k] # "none")
                /\ Counted(id) /\ b < id
    BY <1>3 DEF PersonSeriesOver
  <2> QED
    BY <1>4, <2>1
<1>9. ASSUME NEW cut \in Nat
      PROVE  /\ HotkeySummaryOver(b, Ever, Future)
                    = HotkeySummaryOver(b, Ever, cut) \cup HotkeySummaryOver(b, cut, Future)
             /\ HotkeySummaryOver(b, Ever, cut) \cap HotkeySummaryOver(b, cut, Future) = {}
  <2>1. \A id \in DOMAIN snapshots : (id < cut) <=> ~(cut <= id)
    BY <1>2
  <2>2. \A id : id \in HotkeySummaryOver(b, Ever, cut)
            <=> id \in DOMAIN snapshots /\ Counted(id) /\ id > b /\ id < cut
    BY <1>3 DEF HotkeySummaryOver
  <2>3. \A id : id \in HotkeySummaryOver(b, cut, Future)
            <=> id \in DOMAIN snapshots /\ Counted(id) /\ id > b /\ cut <= id
    BY <1>3 DEF HotkeySummaryOver
  <2>4. \A id : id \in HotkeySummaryOver(b, Ever, Future)
            <=> id \in DOMAIN snapshots /\ Counted(id) /\ id > b
    BY <1>3 DEF HotkeySummaryOver
  <2> QED
    BY <2>1, <2>2, <2>3, <2>4
<1>10. \A from, to : HotkeySummaryOver(b, from, to) \in SUBSET DOMAIN snapshots
  BY DEF HotkeySummaryOver
<1>11. Period(b, LatestCounted) \in SUBSET DOMAIN snapshots
  BY <1>4
<1> QED
  BY <1>5, <1>6, <1>7, <1>8, <1>9, <1>10, <1>11

(* The last of a series has counted all of it.                              *)
LEMMA SeriesEnds ==
    ASSUME TableTypeOK, NEW ids \in SUBSET DOMAIN snapshots, ids # {}
    PROVE  Max(ids) \in ids /\ {j \in ids : j <= Max(ids)} = ids
<1>1. PICK n \in Nat : DOMAIN snapshots = 1 .. n
  BY DEF TableTypeOK
<1>2. ids \in SUBSET Nat /\ \A x \in ids : x <= n
  BY <1>1
<1> QED
  BY <1>2, MaxIs

(* A hotkey's total is the end of its series.                               *)
LEMMA HotkeySeriesEnds ==
    ASSUME TableTypeOK, NEW k, NEW db \in Db
    PROVE  SumOver(Period(last(db), LatestCounted), k)
               = LastCumulative(hotkey_series(db, k, Ever, Future))
<1> DEFINE all == Period(last(db), LatestCounted)
           ids == SeriesOver(last(db), k, Ever, Future)
           upto(id) == {j \in ids : j <= id}
           series == [id \in ids |-> [per_snapshot |-> Emission(id, k),
                                      cumulative   |-> SumOver(upto(id), k)]]
<1>1. hotkey_series(db, k, Ever, Future) = series
  BY DEF hotkey_series, last
<1>2. last(db) \in Nat
  BY LastIs
<1>3. all \in SUBSET DOMAIN snapshots /\ ids = {id \in all : snapshots[id].row[k] # "none"}
  BY <1>2, PeriodsMeet
<1>4. SumOver(all, k) = SumOver(ids, k)
  <2>1. ids \in SUBSET all /\ \A id \in all \ ids : snapshots[id].row[k] = "none"
    BY <1>3
  <2> HIDE DEF all, ids
  <2> QED
    BY <2>1, SumOverRows
<1>5. CASE ids = {}
  <2>1. LastCumulative(series) = 0
    BY <1>5 DEF LastCumulative
  <2>2. SumOver(all, k) = 0
    <3> HIDE DEF ids, all
    <3> QED
      BY <1>4, <1>5, SumOverEmpty
  <2> HIDE DEF ids, series
  <2> QED
    BY <1>1, <2>1, <2>2
<1>6. CASE ids # {}
  <2>1. ids \in SUBSET DOMAIN snapshots
    BY <1>3
  <2>2. Max(ids) \in ids /\ upto(Max(ids)) = ids
    <3> HIDE DEF ids
    <3> QED
      BY <1>6, <2>1, SeriesEnds
  <2>3. DOMAIN series = ids /\ \A id \in ids : series[id].cumulative = SumOver(upto(id), k)
    OBVIOUS
  <2> HIDE DEF ids, series, upto
  <2>4. LastCumulative(series) = SumOver(upto(Max(ids)), k)
    BY <1>6, <2>2, <2>3 DEF LastCumulative
  <2>5. LastCumulative(series) = SumOver(ids, k)
    BY <2>2, <2>4
  <2> QED
    BY <1>1, <1>4, <2>5
<1> QED
  BY <1>5, <1>6

(* A person's total is the end of his series.                               *)
LEMMA PersonSeriesEnds ==
    ASSUME TableTypeOK, NEW p \in Person, NEW db \in Db
    PROVE  dashboard_summary(db, Ever, Future)[p]
               = LastCumulative(person_series(db, p, Ever, Future))
<1> DEFINE all == Period(last(db), LatestCounted)
           ids == PersonSeriesOver(last(db), p, Ever, Future)
           upto(id) == {j \in ids : j <= id}
           series == [id \in ids |->
               [per_snapshot |-> SumFunction([k \in Roster(p) |-> Emission(id, k)]),
                cumulative   |-> SumFunction([k \in Roster(p) |-> SumOver(upto(id), k)])]]
<1>1. person_series(db, p, Ever, Future) = series
  BY DEF person_series, last
<1>2. last(db) \in Nat
  BY LastIs
<1>3. /\ all \in SUBSET DOMAIN snapshots /\ SummaryOver(last(db), Ever, Future) = all
      /\ ids = {id \in all : \E k \in Roster(p) : snapshots[id].row[k] # "none"}
  BY <1>2, PeriodsMeet
<1>4. \A k \in Roster(p) : SumOver(all, k) = SumOver(ids, k)
  <2> TAKE k \in Roster(p)
  <2>1. ids \in SUBSET all /\ \A id \in all \ ids : snapshots[id].row[k] = "none"
    BY <1>3
  <2> HIDE DEF all, ids
  <2> QED
    BY <2>1, SumOverRows
<1>5. PICK f : f = [k \in Roster(p) |-> SumOver(ids, k)]
  OBVIOUS
<1>6. dashboard_summary(db, Ever, Future)[p] = SumFunction(f)
  <2>1. f = [k \in Roster(p) |-> SumOver(all, k)]
    BY <1>4, <1>5
  <2> HIDE DEF all
  <2> QED
    BY <1>3, <2>1 DEF dashboard_summary, last
<1>7. CASE ids = {}
  <2>1. IsFiniteSet(Roster(p))
    BY BooksAssumption, FS_Subset DEF Roster
  <2>2. \A k \in Roster(p) : f[k] = 0
    <3> HIDE DEF ids
    <3> QED
      BY <1>5, <1>7, SumOverEmpty
  <2>3. SumFunctionOnSet(f, Roster(p)) = 0
    BY <2>1, <2>2, SumZero
  <2>4. SumFunction(f) = 0
    BY <1>5, <2>3 DEF SumFunction
  <2>5. LastCumulative(series) = 0
    BY <1>7 DEF LastCumulative
  <2> HIDE DEF series
  <2> QED
    BY <1>1, <1>6, <2>4, <2>5
<1>8. CASE ids # {}
  <2>1. Max(ids) \in ids /\ upto(Max(ids)) = ids
    <3>1. ids \in SUBSET DOMAIN snapshots
      BY <1>3
    <3> HIDE DEF ids
    <3> QED
      BY <1>8, <3>1, SeriesEnds
  <2>2. /\ DOMAIN series = ids
        /\ \A id \in ids :
               series[id].cumulative = SumFunction([k \in Roster(p) |-> SumOver(upto(id), k)])
    OBVIOUS
  <2> HIDE DEF ids, series, upto
  <2>3. LastCumulative(series) = SumFunction([k \in Roster(p) |-> SumOver(upto(Max(ids)), k)])
    BY <1>8, <2>1, <2>2 DEF LastCumulative
  <2> QED
    BY <1>1, <1>5, <1>6, <2>1, <2>3
<1> QED
  BY <1>7, <1>8

(* The grid shows the finished snapshots of the log.                        *)
LEMMA GridIsTheLog ==
    ASSUME TableTypeOK
    PROVE  /\ DOMAIN captures_table(All) = AllCounted
           /\ \A id \in AllCounted : captures_table(All)[id] = snapshots[id].row
           /\ AllCounted = {id \in DOMAIN snapshot_history(All) :
                                snapshot_history(All)[id].status \in {"ok", "partial"}}
           /\ \A id \in DOMAIN snapshots :
                  snapshot_history(All)[id].registered
                      = Cardinality({k \in Hotkey : snapshots[id].row[k] = "registered"})
<1>1. Newest(AllCounted, All) = AllCounted
  <2>1. AllCounted \in SUBSET DOMAIN snapshots
    BY DEF AllCounted
  <2> QED
    BY <2>1, NewestAll
<1>2. Newest(DOMAIN snapshots, All) = DOMAIN snapshots
  BY NewestAll
<1>3. DOMAIN captures_table(All) = AllCounted
      /\ \A id \in AllCounted : captures_table(All)[id] = snapshots[id].row
  BY <1>1 DEF captures_table
<1>4. PICK rows : rows = snapshot_history(All)
  OBVIOUS
<1>5. /\ DOMAIN rows = DOMAIN snapshots
      /\ \A id \in DOMAIN snapshots :
             /\ rows[id].status = snapshots[id].status
             /\ rows[id].registered = Cardinality({k \in Hotkey : snapshots[id].row[k] = "registered"})
  BY <1>2, <1>4 DEF snapshot_history
<1>6. AllCounted = {id \in DOMAIN rows : rows[id].status \in {"ok", "partial"}}
  BY <1>5 DEF AllCounted, Counted
<1> QED
  BY <1>3, <1>4, <1>5, <1>6

(* Whatever the books are, the pages tell the same of them.                 *)
LEMMA AgreeingPages == ASSUME BooksTypes PROVE PagesAgree
<1>1. TableTypeOK /\ last(view) \in Nat /\ view \in Db
  BY LastIs DEF BooksTypes
<1> DEFINE total(from, to) == dashboard_hotkey_summary(view, from, to)
           registered == {k \in Hotkey : total(Ever, Future)[k].is_registered}
           now == Period(last(view), LatestCounted)
           of_person == dashboard_summary(view, Ever, Future)
           status == current_registration_status
           grid == captures_table(All)
           log == snapshot_history(All)
<1>2. \A from, to : \A k \in Hotkey :
          /\ total(from, to)[k].cumulative = SumOver(HotkeySummaryOver(last(view), from, to), k)
          /\ total(from, to)[k].is_registered
                 <=> LatestOnDashboard # 0 /\ IsRegistered(LatestOnDashboard, k)
  BY DEF dashboard_hotkey_summary, last
<1>3. \A k \in Hotkey : total(Ever, Future)[k].cumulative = SumOver(now, k)
  BY <1>1, <1>2, PeriodsMeet
<1>4. \A k \in Hotkey : SumOver(now, k) = LastCumulative(hotkey_series(view, k, Ever, Future))
  BY <1>1, HotkeySeriesEnds
<1>5. ASSUME NEW cut \in 2 .. MaxSnapshots, NEW k \in Hotkey
      PROVE  total(Ever, Future)[k].cumulative
                 = total(Ever, cut)[k].cumulative + total(cut, Future)[k].cumulative
  <2>1. PICK A, B : /\ A = HotkeySummaryOver(last(view), Ever, cut)
                    /\ B = HotkeySummaryOver(last(view), cut, Future)
    OBVIOUS
  <2>2. cut \in Nat
    BY TableAssumption
  <2>3. /\ HotkeySummaryOver(last(view), Ever, Future) = A \cup B /\ A \cap B = {}
        /\ A \in SUBSET DOMAIN snapshots /\ B \in SUBSET DOMAIN snapshots
    BY <1>1, <2>1, <2>2, PeriodsMeet
  <2>4. SumOver(A \cup B, k) = SumOver(A, k) + SumOver(B, k)
    BY <1>1, <2>3, SumOverUnion
  <2>5. total(Ever, cut)[k].cumulative = SumOver(A, k) /\ total(cut, Future)[k].cumulative = SumOver(B, k)
        /\ total(Ever, Future)[k].cumulative = SumOver(A \cup B, k)
    BY <1>2, <2>1, <2>3
  <2> HIDE DEF total
  <2> QED
    BY <2>4, <2>5
<1>6. \A p \in Person : of_person[p] = SumFunction([k \in Roster(p) |-> total(Ever, Future)[k].cumulative])
  <2> TAKE p \in Person
  <2>1. of_person[p] = SumFunction([k \in Roster(p) |-> SumOver(SummaryOver(last(view), Ever, Future), k)])
    BY DEF dashboard_summary, last
  <2>2. SummaryOver(last(view), Ever, Future) = now
    BY <1>1, PeriodsMeet
  <2>3. \A k \in Roster(p) : total(Ever, Future)[k].cumulative = SumOver(now, k)
    BY <1>3 DEF Roster
  <2> HIDE DEF total, now, of_person
  <2>4. PICK f : f = [k \in Roster(p) |-> total(Ever, Future)[k].cumulative]
    OBVIOUS
  <2>5. f = [k \in Roster(p) |-> SumOver(now, k)]
    BY <2>3, <2>4
  <2> QED
    BY <2>1, <2>2, <2>4, <2>5
<1>7. \A p \in Person : of_person[p] = LastCumulative(person_series(view, p, Ever, Future))
  BY <1>1, PersonSeriesEnds
<1>8. ASSUME NEW p \in Person
      PROVE  /\ status[p].deregistered_hotkeys = Roster(p) \ registered
             /\ status[p].active = status[p].total - Cardinality(status[p].deregistered_hotkeys)
  <2> DEFINE active == {k \in Roster(p) : LatestCounted # 0 /\ IsRegistered(LatestCounted, k)}
  <2>1. /\ status[p].active = Cardinality(active)
        /\ status[p].total = Cardinality(Roster(p))
        /\ status[p].deregistered_hotkeys = Roster(p) \ active
    BY DEF current_registration_status
  <2>2. Roster(p) \ active = Roster(p) \ registered /\ active \subseteq Roster(p)
    BY <1>1, <1>2, LatestIs DEF Roster
  <2>3. IsFiniteSet(Roster(p)) /\ IsFiniteSet(active)
    BY BooksAssumption, FS_Subset DEF Roster
  <2>4. Roster(p) \cap active = active
    BY <2>2
  <2> HIDE DEF active, registered, status
  <2>5. Cardinality(Roster(p) \ active) = Cardinality(Roster(p)) - Cardinality(active)
    BY <2>3, <2>4, FS_Difference
  <2>6. Cardinality(Roster(p)) \in Nat /\ Cardinality(active) \in Nat
    BY <2>3, FS_CardinalityType
  <2>7. Cardinality(active) = Cardinality(Roster(p)) - Cardinality(Roster(p) \ active)
    BY <2>5, <2>6
  <2> QED
    BY <2>1, <2>2, <2>7
<1>9. DOMAIN grid = {id \in DOMAIN log : log[id].status \in {"ok", "partial"}}
  BY <1>1, GridIsTheLog
<1>10. ASSUME AllCounted # {}
       PROVE  /\ registered = {k \in Hotkey : grid[Max(DOMAIN grid)][k] = "registered"}
              /\ log[Max(DOMAIN grid)].registered = Cardinality(registered)
  <2>1. PICK l : l = LatestCounted
    OBVIOUS
  <2>2. l \in AllCounted /\ Max(AllCounted) = l
    BY <1>1, <1>10, <2>1, LatestIs
  <2>3. l \in DOMAIN snapshots /\ l # 0
    BY <1>1, <2>2 DEF AllCounted, TableTypeOK
  <2>4. DOMAIN grid = AllCounted /\ grid[l] = snapshots[l].row
        /\ log[l].registered = Cardinality({k \in Hotkey : snapshots[l].row[k] = "registered"})
    BY <1>1, <2>2, <2>3, GridIsTheLog
  <2>5. registered = {k \in Hotkey : snapshots[l].row[k] = "registered"}
    BY <1>1, <1>2, <2>1, <2>3, LatestIs DEF IsRegistered
  <2> HIDE DEF registered, grid, log
  <2> QED
    BY <2>2, <2>4, <2>5
<1> HIDE DEF total, registered, now, of_person, status, grid, log
<1> QED
  BY <1>3, <1>4, <1>5, <1>6, <1>7, <1>8, <1>9, <1>10
     DEF PagesAgree, total, registered, now, of_person, status, grid, log, last

(* All pages give one figure and one answer, with any number of requests,   *)
(* snapshots in progress and restarts at once: that holds of each state of  *)
(* the database by itself.                                                  *)
THEOREM PagesTellTheSame == BooksSpec => []PagesAgree
<1>1. TypesInv => PagesAgree
  BY AgreeingPages DEF TypesInv
<1>2. TypesInv /\ [BooksNext]_booksVars => TypesInv'
  BY NextTypes
<1> QED
  BY <1>1, <1>2, InitTypes, PTL DEF BooksSpec
-----------------------------------------------------------------------------
(* No snapshot is lost. What closing up to n leaves behind is told of: in a *)
(* settlement, in a deleted one, or as having ended late.                   *)

Told(db) == db.lost \cup UNION {s.covers : s \in db.settlements}
Reaches(counted, told, n) ==
    /\ n = 0 \/ n \in counted
    /\ \A id \in counted : id <= n => id \in told
Reached(told, n) == Reaches(AllCounted, told \cup late, n)

ReachInv ==
    /\ \A s \in view.settlements : Reached(Told(view), s.thru)
    /\ \A s \in disk.settlements : Reached(Told(disk), s.thru)
    /\ \A h \in Handler :
           /\ at[h].pc \in {"boundary", "sum", "settle"} => Reached(Told(view), at[h].last)
           /\ at[h].pc \in {"sum", "settle"} => at[h].thru \in AllCounted
           /\ at[h].pc = "settle" => Reached(Told(view) \cup at[h].covers, at[h].thru)

(* More has ended, late if before a snapshot that had.                      *)
LEMMA ReachesLater ==
    ASSUME NEW C, NEW D, NEW T, NEW U, NEW n, C \subseteq D, D \subseteq Nat \ {0}, T \subseteq U,
           \A id \in D \ C : (\E j \in C : j > id) => id \in U, Reaches(C, T, n)
    PROVE  Reaches(D, U, n)
<1> SUFFICES ASSUME NEW id \in D, id <= n, id \notin C PROVE id \in U
  BY DEF Reaches
<1>1. n \in C
  BY DEF Reaches
<1>2. n # id /\ n \in Nat /\ id \in Nat
  BY <1>1
<1>3. n > id
  BY <1>2
<1> QED
  BY <1>1, <1>3

(* What a handler's step does to all that.                                  *)
TellsMore(h) ==
    /\ Told(view) \subseteq Told(view')
    /\ \A t \in view'.settlements :
           \/ \E s \in view.settlements : t.thru = s.thru
           \/ at[h].pc = "settle" /\ t.thru = at[h].thru /\ at[h].covers \subseteq Told(view')
    /\ disk' = disk \/ (disk' = view /\ view' = view)
GoesFurther(h, w) ==
    /\ w.pc = "boundary" => w.last = last(view) /\ view' = view
    /\ w.pc = "sum" => /\ at[h].pc = "boundary" /\ w.last = at[h].last
                       /\ Counted(w.thru) /\ view' = view
    /\ w.pc = "settle" => /\ at[h].pc = "sum" /\ w.last = at[h].last
                          /\ w.thru = at[h].thru /\ w.covers = Period(w.last, w.thru)
                          /\ view' = view

LEMMA MoveTells ==
    ASSUME TypesInv, NEW h \in Handler, NEW w \in Work, Moves(h, w)
    PROVE  Turn(h, w) /\ TellsMore(h) /\ GoesFurther(h, w)
<1>1. view \in Db /\ \A s \in view.settlements : s \in Settlement
  BY DEF TypesInv, BooksTypes, Db
<1>2. CASE AsksToClose(h, w) \/ AsksToPay(h, w) \/ Rests(h, w) \/ Chooses(h, w)
           \/ SumsUp(h, w) \/ Shares(h, w)
  <2>1. Turn(h, w) /\ view' = view /\ disk' = disk
    BY <1>2 DEF AsksToClose, AsksToPay, Rests, Chooses, SumsUp, Shares, Reads
  <2>2. w.pc = "boundary" => w.last = last(view)
    BY <1>2 DEF AsksToClose, AsksToPay, Rests, Chooses, SumsUp, Shares
  <2>3. w.pc = "sum" => at[h].pc = "boundary" /\ w.last = at[h].last /\ Counted(w.thru)
    BY <1>2 DEF AsksToClose, AsksToPay, Rests, Chooses, SumsUp, Shares
  <2>4. w.pc = "settle" => /\ at[h].pc = "sum" /\ w.last = at[h].last
                           /\ w.thru = at[h].thru /\ w.covers = Period(w.last, w.thru)
    BY <1>2 DEF AsksToClose, AsksToPay, Rests, Chooses, SumsUp, Shares
  <2> QED
    BY <2>1, <2>2, <2>3, <2>4 DEF TellsMore, GoesFurther
<1>3. CASE Fails(h, w) \/ Saves(h, w)
  <2>1. Turn(h, w) /\ view' = view /\ disk' \in {disk, view} /\ w.pc = "idle"
    BY <1>3 DEF Fails, Saves, Reads
  <2> QED
    BY <2>1 DEF TellsMore, GoesFurther
<1>4. ASSUME NEW s, Heads(h, w, s)
      PROVE  /\ Turn(h, w) /\ disk' = disk /\ w.pc = "settleLines" /\ at[h].pc = "settle"
             /\ s.thru = at[h].thru /\ s.covers = at[h].covers
             /\ view'.settlements = view.settlements \cup {s} /\ view'.lost = view.lost
  <2>1. s = NewSettlement(h) /\ view' = [view EXCEPT !.settlements = @ \cup {s}]
    BY <1>4 DEF Heads, NewHeader
  <2> QED
    BY <1>1, <1>4, <2>1 DEF Heads, NewSettlement, Db
<1>5. ASSUME NEW s, Heads(h, w, s) PROVE Told(view) \subseteq Told(view') /\ s.covers \subseteq Told(view')
  BY <1>4, <1>5 DEF Told
<1>6. ASSUME NEW p, HeadsPayout(h, w, p) \/ TakesBack(h, w, p) \/ WritesShare(h, w, p)
      PROVE  /\ Turn(h, w) /\ disk' = disk /\ w.pc \in {"commit", "payLines"}
             /\ view'.settlements = view.settlements /\ view'.lost = view.lost
  <2>1. CASE HeadsPayout(h, w, p)
    BY <1>1, <2>1 DEF HeadsPayout, Db
  <2>2. CASE TakesBack(h, w, p)
    BY <1>1, <2>2 DEF TakesBack, Db
  <2>3. CASE WritesShare(h, w, p)
    BY <1>1, <2>3 DEF WritesShare, Next1, Db
  <2> QED
    BY <1>6, <2>1, <2>2, <2>3
<1>7. ASSUME NEW x, WritesLine(h, w, x)
      PROVE  /\ Turn(h, w) /\ disk' = disk /\ w.pc \in {"commit", "settleLines"}
             /\ view'.lost = view.lost
             /\ \A s \in view.settlements : \E t \in view'.settlements : t.covers = s.covers
             /\ \A t \in view'.settlements : \E s \in view.settlements : t.thru = s.thru
  <2>1. /\ Turn(h, w) /\ disk' = disk /\ w.pc \in {"commit", "settleLines"}
        /\ view'.lost = view.lost
        /\ view'.settlements = {Longer(h, x, s) : s \in view.settlements}
    BY <1>1, <1>7 DEF WritesLine, Next1, Db
  <2>2. \A s \in view.settlements : /\ Longer(h, x, s).covers = s.covers
                                    /\ Longer(h, x, s).thru = s.thru
    BY <1>1, LongerIs
  <2> QED
    BY <2>1, <2>2
<1>8. ASSUME NEW x, WritesLine(h, w, x) PROVE Told(view) \subseteq Told(view')
  <2>1. ASSUME NEW id, id \in Told(view), id \notin view.lost PROVE id \in Told(view')
    <3>1. PICK s \in view.settlements : id \in s.covers
      BY <2>1 DEF Told
    <3>2. PICK t \in view'.settlements : t.covers = s.covers
      BY <1>7, <1>8
    <3> QED
      BY <3>1, <3>2 DEF Told
  <2> QED
    BY <1>7, <1>8, <2>1 DEF Told
<1>9. ASSUME NEW gone, Undoes(h, w, gone)
      PROVE  /\ Turn(h, w) /\ disk' = disk /\ w.pc = "commit"
             /\ view'.settlements = view.settlements \ gone /\ Told(view) \subseteq Told(view')
  <2>1. /\ Turn(h, w) /\ disk' = disk /\ w.pc = "commit"
        /\ view'.settlements = view.settlements \ gone
        /\ view'.lost = view.lost \cup UNION {s.covers : s \in gone}
    BY <1>1, <1>9 DEF Undoes, Db
  <2> QED
    BY <2>1 DEF Told
<1>10. ASSUME NEW s, Heads(h, w, s) PROVE Turn(h, w) /\ TellsMore(h) /\ GoesFurther(h, w)
  <2>1. \A t \in view'.settlements : t \in view.settlements \/ t = s
    BY <1>4, <1>10
  <2>2. Told(view) \subseteq Told(view') /\ at[h].covers \subseteq Told(view')
    BY <1>4, <1>5, <1>10
  <2> QED
    BY <1>4, <1>10, <2>1, <2>2 DEF TellsMore, GoesFurther
<1>11. ASSUME NEW p, HeadsPayout(h, w, p) \/ TakesBack(h, w, p) \/ WritesShare(h, w, p)
       PROVE  Turn(h, w) /\ TellsMore(h) /\ GoesFurther(h, w)
  BY <1>6, <1>11 DEF TellsMore, GoesFurther, Told
<1>12. ASSUME NEW x, WritesLine(h, w, x) PROVE Turn(h, w) /\ TellsMore(h) /\ GoesFurther(h, w)
  BY <1>7, <1>8, <1>12 DEF TellsMore, GoesFurther
<1>13. ASSUME NEW gone, Undoes(h, w, gone) PROVE Turn(h, w) /\ TellsMore(h) /\ GoesFurther(h, w)
  BY <1>9, <1>13 DEF TellsMore, GoesFurther
<1> QED
  BY <1>2, <1>3, <1>10, <1>11, <1>12, <1>13 DEF Moves

(* A boundary that was reached stays reached, and the last settlement's is. *)
LEMMA LastIsReached ==
    ASSUME TypesInv, \A s \in view.settlements : Reached(Told(view), s.thru)
    PROVE  Reached(Told(view), last(view))
<1>1. PICK n : n = last(view)
  OBVIOUS
<1>2. n = 0 \/ \E s \in view.settlements : n = s.thru
  BY <1>1, LastIs DEF TypesInv, BooksTypes
<1>3. CASE n = 0
  <2>1. \A id \in AllCounted : id \in Nat /\ id # 0
    BY DEF AllCounted, TypesInv, BooksTypes, TableTypeOK
  <2>2. \A id \in AllCounted : ~(id <= n)
    BY <1>3, <2>1
  <2> QED
    BY <1>1, <1>3, <2>2 DEF Reached, Reaches
<1> QED
  BY <1>1, <1>2, <1>3

(* A handler's step loses no snapshot.                                      *)
LEMMA MoveReaches ==
    ASSUME TypesInv, ReachInv, NEW h \in Handler, NEW w \in Work, Moves(h, w)
    PROVE  ReachInv'
<1>1. Turn(h, w) /\ TellsMore(h) /\ GoesFurther(h, w)
  BY MoveTells
<1>2. /\ at' \in [Handler -> Work] /\ at'[h] = w /\ \A g \in Handler : g # h => at'[g] = at[g]
      /\ snapshots' = snapshots /\ late' = late
  BY <1>1, Turned DEF TypesInv, BooksTypes
<1>3. PICK C, L, T, U : C = AllCounted /\ L = late /\ T = Told(view) /\ U = Told(view')
  OBVIOUS
<1>4. AllCounted' = C /\ late' = L /\ T \subseteq U
  BY <1>1, <1>2, <1>3 DEF AllCounted, Counted, TellsMore
<1>5. \A n : Reaches(C, T \cup L, n) => Reaches(C, U \cup L, n)
  BY <1>4 DEF Reaches
<1>6. \A s \in view.settlements : Reaches(C, T \cup L, s.thru)
  BY <1>3 DEF ReachInv, Reached
<1>7. \A t \in view'.settlements : Reaches(C, U \cup L, t.thru)
  <2> SUFFICES ASSUME NEW t \in view'.settlements PROVE Reaches(C, U \cup L, t.thru)
    OBVIOUS
  <2>1. CASE \E s \in view.settlements : t.thru = s.thru
    BY <1>5, <1>6, <2>1
  <2>2. CASE at[h].pc = "settle" /\ t.thru = at[h].thru /\ at[h].covers \subseteq U
    <3>1. Reaches(C, (T \cup at[h].covers) \cup L, at[h].thru)
      BY <1>3, <2>2 DEF ReachInv, Reached
    <3> QED
      BY <1>4, <2>2, <3>1 DEF Reaches
  <2> QED
    BY <1>1, <1>3, <2>1, <2>2 DEF TellsMore
<1>8. \A s \in disk'.settlements : Reaches(C, Told(disk') \cup L, s.thru)
  <2>1. CASE disk' = disk
    BY <1>3, <2>1 DEF ReachInv, Reached
  <2>2. CASE disk' = view
    BY <1>3, <1>6, <2>2
  <2> QED
    BY <1>1, <2>1, <2>2 DEF TellsMore
<1>9. ASSUME NEW g \in Handler
      PROVE  /\ at'[g].pc \in {"boundary", "sum", "settle"} => Reaches(C, U \cup L, at'[g].last)
             /\ at'[g].pc \in {"sum", "settle"} => at'[g].thru \in C
             /\ at'[g].pc = "settle" => Reaches(C, (U \cup at'[g].covers) \cup L, at'[g].thru)
  <2>1. /\ at[g].pc \in {"boundary", "sum", "settle"} => Reaches(C, T \cup L, at[g].last)
        /\ at[g].pc \in {"sum", "settle"} => at[g].thru \in C
        /\ at[g].pc = "settle" => Reaches(C, (T \cup at[g].covers) \cup L, at[g].thru)
    BY <1>3 DEF ReachInv, Reached
  <2>2. CASE g # h
    BY <1>2, <1>4, <2>1, <2>2 DEF Reaches
  <2>3. CASE g = h /\ w.pc = "boundary"
    <3>1. Reaches(C, T \cup L, w.last)
      BY <1>1, <1>3, <2>3, LastIsReached DEF ReachInv, GoesFurther, Reached
    <3> QED
      BY <1>2, <1>5, <2>3, <3>1
  <2>4. CASE g = h /\ w.pc = "sum"
    <3>1. Reaches(C, T \cup L, w.last) /\ w.thru \in C
      BY <1>1, <1>3, <2>1, <2>4 DEF GoesFurther, Counted, AllCounted
    <3> QED
      BY <1>2, <1>5, <2>4, <3>1
  <2>5. CASE g = h /\ w.pc = "settle"
    <3>1. /\ Reaches(C, U \cup L, w.last) /\ w.thru \in C /\ w.covers = Period(w.last, w.thru)
          /\ w.last \in Nat /\ w.thru \in Nat
      BY <1>1, <1>5, <2>1, <2>5 DEF GoesFurther, Work
    <3>2. ASSUME NEW id \in C, id <= w.thru, id \notin U \cup L PROVE id \in w.covers
      <4>1. id \in DOMAIN snapshots /\ Counted(id) /\ id \in Nat
        BY <1>3 DEF AllCounted, TypesInv, BooksTypes, TableTypeOK
      <4>2. ~(id <= w.last)
        BY <3>1, <3>2 DEF Reaches
      <4>3. w.last < id
        BY <3>1, <4>1, <4>2
      <4> QED
        BY <3>1, <3>2, <4>1, <4>3 DEF Period
    <3>3. Reaches(C, (U \cup w.covers) \cup L, w.thru)
      BY <3>1, <3>2 DEF Reaches
    <3> QED
      BY <1>2, <2>5, <3>1, <3>3
  <2>6. CASE g = h /\ w.pc \notin {"boundary", "sum", "settle"}
    BY <1>2, <2>6
  <2> QED
    BY <2>2, <2>3, <2>4, <2>5, <2>6
<1> QED
  BY <1>2, <1>3, <1>4, <1>7, <1>8, <1>9 DEF ReachInv, Reached

(* What ends before a snapshot that has ended is late.                      *)
LEMMA CountedGrows ==
    ASSUME TypesInv, SnapshotStep \/ TrackerRestarts
    PROVE  /\ AllCounted \subseteq AllCounted' /\ AllCounted' \subseteq Nat \ {0}
           /\ late \subseteq late'
           /\ \A id \in AllCounted' \ AllCounted : (\E j \in AllCounted : j > id) => id \in late'
<1>1. TableGrows /\ late \subseteq late' /\ TableTypeOK
  BY SnapshotStepGrows, LateIsThere, RestartTypes DEF TypesInv, BooksTypes
<1>2. AllCounted \subseteq AllCounted' /\ AllCounted' \subseteq Nat \ {0}
  <2>1. \A id \in AllCounted : id \in DOMAIN snapshots' /\ snapshots'[id] = snapshots[id]
    BY <1>1 DEF AllCounted, Counted, InProgress, TableGrows, TableTypeOK
  <2>2. DOMAIN snapshots' \subseteq Nat \ {0}
    BY <1>1 DEF TableGrows, TableTypeOK
  <2> QED
    BY <2>1, <2>2 DEF AllCounted, Counted
<1>3. ASSUME NEW id \in AllCounted', id \notin AllCounted, NEW j \in AllCounted, j > id
      PROVE  id \in late'
  <2>1. id \in DOMAIN snapshots' /\ snapshots'[id].status \in {"ok", "partial"}
    BY <1>3 DEF AllCounted, Counted
  <2>2. CASE TrackerRestarts
    <3>1. snapshots' = [i \in DOMAIN snapshots |->
                          IF InProgress(i) THEN [snapshots[i] EXCEPT !.status = "failed"]
                          ELSE snapshots[i]]
      BY <2>2 DEF TrackerRestarts, FailOrphans
    <3>2. \A i \in DOMAIN snapshots : [snapshots[i] EXCEPT !.status = "failed"].status = "failed"
      BY <1>1 DEF TableTypeOK, Snapshot
    <3> QED
      BY <1>3, <2>1, <3>1, <3>2 DEF AllCounted, Counted
  <2>3. CASE SnapshotStep
    <3>1. CASE Open
      <4>1. Opened \in Snapshot /\ Opened.status = "in_progress"
        BY DEF Opened, Snapshot, Status, Row
      <4>2. snapshots' = Append(snapshots, Opened) /\ snapshots \in Seq(Snapshot)
        BY <1>1, <3>1 DEF Open, TableTypeOK
      <4>3. id \in DOMAIN snapshots => snapshots'[id] = snapshots[id]
        BY <4>1, <4>2
      <4>4. id \notin DOMAIN snapshots => snapshots'[id] = Opened
        BY <2>1, <4>1, <4>2
      <4> QED
        BY <1>3, <2>1, <4>1, <4>3, <4>4 DEF AllCounted, Counted
    <3>2. ASSUME NEW i \in DOMAIN snapshots, NEW k \in Hotkey, NEW r \in Row \ {"none"}, Record(i, k, r)
          PROVE  FALSE
      <4>1. snapshots' = [snapshots EXCEPT ![i].row[k] = r]
        BY <3>2 DEF Record
      <4>2. DOMAIN snapshots' = DOMAIN snapshots /\ \A n \in DOMAIN snapshots : snapshots[n] \in Snapshot
        BY <1>1, <4>1 DEF TableTypeOK
      <4>3. snapshots'[id].status = snapshots[id].status
        BY <2>1, <4>1, <4>2 DEF Snapshot
      <4> QED
        BY <1>3, <2>1, <4>2, <4>3 DEF AllCounted, Counted
    <3>3. ASSUME NEW i \in DOMAIN snapshots, Close(i),
                 late' = IF Settleable(i) = {} THEN late ELSE late \cup {i}
          PROVE  id \in late'
      <4>1. snapshots' = [snapshots EXCEPT ![i].status = StatusOf(snapshots[i])]
        BY <3>3 DEF Close
      <4>2. \A n \in DOMAIN snapshots : n # i => snapshots'[n] = snapshots[n]
        BY <4>1
      <4>3. DOMAIN snapshots' = DOMAIN snapshots
        BY <4>1
      <4>4. id = i
        BY <1>3, <2>1, <4>2, <4>3 DEF AllCounted, Counted
      <4>5. j \in Settleable(i)
        BY <1>3, <4>4 DEF Settleable, AllCounted
      <4> QED
        BY <3>3, <4>4, <4>5
    <3> QED
      BY <2>3, <3>1, <3>2, <3>3 DEF SnapshotStep
  <2> QED
    BY <2>2, <2>3
<1> QED
  BY <1>1, <1>2, <1>3

LEMMA NextReaches == ASSUME TypesInv, ReachInv, [BooksNext]_booksVars PROVE ReachInv'
<1>1. ASSUME NEW h \in Handler, NEW w \in Work, Moves(h, w) PROVE ReachInv'
  BY <1>1, MoveReaches
<1>2. CASE SnapshotStep \/ TrackerRestarts
  <2>1. /\ disk' = disk /\ view' \in {view, disk} /\ (TrackerRestarts => view' = disk)
        /\ TrackerRestarts => \A h \in Handler : at'[h].pc = "idle"
        /\ SnapshotStep => view' = view /\ at' = at
    BY <1>2, SnapshotStepGrows, RestartTypes, IdleIsWork DEF TypesInv, BooksTypes
  <2>2. PICK C, D, L, M : C = AllCounted /\ D = AllCounted' /\ L = late /\ M = late'
    OBVIOUS
  <2>3. ASSUME NEW T, NEW n, Reaches(C, T \cup L, n) PROVE Reaches(D, T \cup M, n)
    <3>1. /\ C \subseteq D /\ D \subseteq Nat \ {0} /\ T \cup L \subseteq T \cup M
          /\ \A id \in D \ C : (\E j \in C : j > id) => id \in T \cup M
      BY <1>2, <2>2, CountedGrows
    <3> QED
      BY <2>3, <3>1, ReachesLater
  <2>4. C \subseteq D
    BY <1>2, <2>2, CountedGrows
  <2>5. PICK T, U : T = Told(view) /\ U = Told(disk)
    OBVIOUS
  <2>6. \A s \in disk.settlements : Reaches(D, U \cup M, s.thru)
    BY <2>2, <2>3, <2>5 DEF ReachInv, Reached
  <2>7. \A s \in view.settlements : Reaches(D, T \cup M, s.thru)
    BY <2>2, <2>3, <2>5 DEF ReachInv, Reached
  <2>8. CASE TrackerRestarts
    BY <2>1, <2>2, <2>5, <2>6, <2>8 DEF ReachInv, Reached
  <2>9. CASE SnapshotStep
    <3>1. ASSUME NEW h \in Handler
          PROVE  /\ at[h].pc \in {"boundary", "sum", "settle"} => Reaches(D, T \cup M, at[h].last)
                 /\ at[h].pc \in {"sum", "settle"} => at[h].thru \in D
                 /\ at[h].pc = "settle" => Reaches(D, (T \cup at[h].covers) \cup M, at[h].thru)
      BY <2>2, <2>3, <2>4, <2>5 DEF ReachInv, Reached
    <3> QED
      BY <2>1, <2>2, <2>5, <2>6, <2>7, <2>9, <3>1 DEF ReachInv, Reached
  <2> QED
    BY <1>2, <2>8, <2>9
<1>3. CASE UNCHANGED booksVars
  BY <1>3 DEF booksVars, ReachInv, Reached, AllCounted, Counted, Told
<1> QED
  BY <1>1, <1>2, <1>3, Steps

LEMMA InitReaches == BooksInit => ReachInv
BY IdleIsWork DEF BooksInit, Empty, ReachInv

(* A finished snapshot is in a settlement, still to be closed, was undone   *)
(* with its settlement, or ended after a younger one: whatever periods are  *)
(* closed, deleted and closed again, by any number of requests at once.     *)
THEOREM NoSnapshotIsLost == BooksSpec => []NoSnapshotIsForgotten
<1>1. TypesInv /\ ReachInv => NoSnapshotIsForgotten
  <2> SUFFICES ASSUME TypesInv, ReachInv, NEW db \in {view, disk}, NEW id \in OutOfReach(db)
               PROVE  id \in db.lost \cup late
    BY DEF NoSnapshotIsForgotten
  <2>1. /\ id \in AllCounted /\ id <= last(db) /\ db \in Db
        /\ \A s \in db.settlements : id \notin s.covers
    BY DEF OutOfReach, AllCounted, last, TypesInv, BooksTypes
  <2>2. id \in Nat /\ id # 0
    BY <2>1 DEF AllCounted, TypesInv, BooksTypes, TableTypeOK
  <2>3. last(db) # 0
    BY <2>1, <2>2
  <2>4. PICK s \in db.settlements : last(db) = s.thru
    BY <2>1, <2>3, LastIs
  <2>5. Reached(Told(db), s.thru)
    BY <2>4 DEF ReachInv
  <2>6. id \in Told(db) \cup late
    BY <2>1, <2>4, <2>5 DEF Reached, Reaches
  <2> QED
    BY <2>1, <2>6 DEF Told
<1>2. TypesInv /\ ReachInv /\ [BooksNext]_booksVars => TypesInv' /\ ReachInv'
  BY NextTypes, NextReaches
<1> QED
  BY <1>1, <1>2, InitTypes, InitReaches, PTL DEF BooksSpec
-----------------------------------------------------------------------------
(* The archive. The snapshots a settlement covers are closed and the lines  *)
(* it is to have give their emission, from the moment they are computed.    *)

Frozen(covers, lines) == covers \subseteq AllCounted /\ Amounts(covers, lines)
FrozenInv ==
    /\ \A s \in view.settlements \cup disk.settlements : Frozen(s.covers, s.due)
    /\ \A h \in Handler : at[h].pc = "settle" => Frozen(at[h].covers, at[h].todo)

(* A sum over lines is one over their hotkeys.                              *)
LEMMA SumOfHotkeys ==
    ASSUME NEW f, NEW g, NEW L, IsFiniteSet(L), OnePerHotkey(L),
           \A l \in L : f[l] \in Int /\ g[l.hotkey] = f[l]
    PROVE  SumFunctionOnSet(g, {l.hotkey : l \in L}) = SumFunctionOnSet(f, L)
<1> DEFINE K(T) == {l.hotkey : l \in T}
           G == {T \in SUBSET L : SumFunctionOnSet(g, K(T)) = SumFunctionOnSet(f, T)}
<1>1. {} \in G
  <2>1. K({}) = {} /\ SumFunctionOnSet(f, {}) = 0 /\ SumFunctionOnSet(g, {}) = 0
    BY SumEmpty
  <2> QED
    BY <2>1
<1>2. ASSUME NEW T \in SUBSET L, NEW x \in L, T \in G, x \notin T PROVE T \cup {x} \in G
  <2>1. PICK A, k, B : A = K(T) /\ k = x.hotkey /\ B = K(T \cup {x})
    OBVIOUS
  <2>2. B = A \cup {k} /\ k \notin A /\ g[k] = f[x]
    BY <1>2, <2>1 DEF OnePerHotkey
  <2>3. IsFiniteSet(T) /\ IsFiniteSet(A)
    <3>1. IsFiniteSet(T)
      BY FS_Subset
    <3>2. PICK e : e = [l \in T |-> l.hotkey]
      OBVIOUS
    <3>3. IsFiniteSet({e[l] : l \in T})
      BY <3>1, <3>2, ImageIsFinite
    <3>4. {e[l] : l \in T} = A
      BY <2>1, <3>2
    <3> QED
      BY <3>1, <3>3, <3>4
  <2>4. \A j \in A \cup {k} : g[j] \in Int
    BY <1>2, <2>1
  <2>5. SumFunctionOnSet(g, A \cup {k}) = g[k] + SumFunctionOnSet(g, A)
    BY <2>2, <2>3, <2>4, SumAdd
  <2>6. \A l \in T \cup {x} : f[l] \in Int
    OBVIOUS
  <2>7. SumFunctionOnSet(f, T \cup {x}) = f[x] + SumFunctionOnSet(f, T)
    BY <1>2, <2>3, <2>6, SumAdd
  <2>8. SumFunctionOnSet(g, A) = SumFunctionOnSet(f, T)
    BY <1>2, <2>1
  <2>9. SumFunctionOnSet(g, B) = SumFunctionOnSet(f, T \cup {x})
    BY <2>2, <2>5, <2>7, <2>8
  <2> QED
    BY <2>1, <2>9
<1> HIDE DEF G
<1>3. L \in G
  BY <1>1, <1>2, PartByPart
<1> QED
  BY <1>3 DEF G

(* What a handler's step does to all that.                                  *)
LEMMA MoveFreezes ==
    ASSUME TypesInv, NEW h \in Handler, NEW w \in Work, Moves(h, w)
    PROVE  /\ Turn(h, w) /\ disk' \in {disk, view}
           /\ \A t \in view'.settlements :
                  \/ \E s \in view.settlements : t.covers = s.covers /\ t.due = s.due
                  \/ at[h].pc = "settle" /\ t.covers = at[h].covers /\ t.due = at[h].todo
           /\ w.pc = "settle" => Frozen(w.covers, w.todo)
<1>1. view \in Db /\ \A s \in view.settlements : s \in Settlement
  BY DEF TypesInv, BooksTypes, Db
<1>2. Turn(h, w) /\ disk' \in {disk, view}
  BY MoveShapes
<1>3. \A t \in view'.settlements :
          \/ \E s \in view.settlements : t.covers = s.covers /\ t.due = s.due
          \/ at[h].pc = "settle" /\ t.covers = at[h].covers /\ t.due = at[h].todo
  <2>1. CASE AsksToClose(h, w) \/ AsksToPay(h, w) \/ Rests(h, w) \/ Chooses(h, w)
             \/ SumsUp(h, w) \/ Shares(h, w) \/ Fails(h, w) \/ Saves(h, w)
    <3>1. view' = view
      BY <2>1 DEF AsksToClose, AsksToPay, Rests, Chooses, SumsUp, Shares, Fails, Saves, Reads
    <3> QED
      BY <3>1
  <2>2. CASE \E s : Heads(h, w, s)
    <3>1. PICK s : Heads(h, w, s)
      BY <2>2
    <3>2. s = NewSettlement(h) /\ view' = [view EXCEPT !.settlements = @ \cup {s}] /\ at[h].pc = "settle"
      BY <3>1 DEF Heads, NewHeader
    <3>3. view'.settlements = view.settlements \cup {s}
      BY <1>1, <3>2 DEF Db
    <3> QED
      BY <3>2, <3>3 DEF NewSettlement
  <2>3. CASE \E x : WritesLine(h, w, x)
    <3>1. PICK x : WritesLine(h, w, x)
      BY <2>3
    <3>2. view'.settlements = {Longer(h, x, s) : s \in view.settlements}
      BY <1>1, <3>1 DEF WritesLine, Db
    <3>3. \A s \in view.settlements : /\ Longer(h, x, s).covers = s.covers
                                      /\ Longer(h, x, s).due = s.due
      BY <1>1, LongerIs
    <3> QED
      BY <3>2, <3>3
  <2>4. CASE \E p : HeadsPayout(h, w, p) \/ TakesBack(h, w, p) \/ WritesShare(h, w, p)
    <3>1. view'.settlements = view.settlements
      BY <1>1, <2>4 DEF HeadsPayout, TakesBack, WritesShare, Db
    <3> QED
      BY <3>1
  <2>5. CASE \E gone : Undoes(h, w, gone)
    <3>1. view'.settlements \subseteq view.settlements
      BY <1>1, <2>5 DEF Undoes, Db
    <3> QED
      BY <3>1
  <2> QED
    BY <2>1, <2>2, <2>3, <2>4, <2>5 DEF Moves
<1>4. ASSUME w.pc = "settle" PROVE Frozen(w.covers, w.todo)
  <2>1. SumsUp(h, w)
    BY <1>4 DEF Moves, AsksToClose, AsksToPay, Rests, Chooses, Shares, Fails, Saves, Heads,
       HeadsPayout, WritesLine, WritesShare, Undoes, TakesBack, Next1
  <2>2. w.covers = Period(w.last, w.thru) /\ Amounts(w.covers, w.todo)
    BY <2>1 DEF SumsUp
  <2>3. w.covers \subseteq AllCounted
    BY <2>2 DEF Period, AllCounted
  <2> QED
    BY <2>2, <2>3 DEF Frozen
<1> QED
  BY <1>2, <1>3, <1>4

(* What a closed snapshot gave it gives for good.                           *)
LEMMA FrozenStays ==
    ASSUME TableTypeOK, TableGrows, NEW covers, NEW lines, Frozen(covers, lines)
    PROVE  Frozen(covers, lines)'
<1>1. \A id \in AllCounted : id \in DOMAIN snapshots' /\ snapshots'[id] = snapshots[id]
  BY DEF AllCounted, Counted, InProgress, TableGrows, TableTypeOK
<1>2. covers \subseteq AllCounted'
  BY <1>1 DEF Frozen, AllCounted, Counted
<1>3. \A k : SumOver(covers, k)' = SumOver(covers, k)
  <2> TAKE k
  <2>1. {id \in covers : snapshots'[id].row[k] = "registered"}
            = {id \in covers : snapshots[id].row[k] = "registered"}
    BY <1>1 DEF Frozen
  <2> QED
    BY <2>1 DEF SumOver, IsRegistered
<1> QED
  BY <1>2, <1>3 DEF Frozen, Amounts

LEMMA NextFreezes == ASSUME TypesInv, FrozenInv, [BooksNext]_booksVars PROVE FrozenInv'
<1>1. TableTypeOK /\ at \in [Handler -> Work]
  BY DEF TypesInv, BooksTypes
<1>2. ASSUME NEW h \in Handler, NEW w \in Work, Moves(h, w) PROVE FrozenInv'
  <2>1. /\ Turn(h, w) /\ disk' \in {disk, view} /\ (w.pc = "settle" => Frozen(w.covers, w.todo))
        /\ \A t \in view'.settlements :
               \/ \E s \in view.settlements : t.covers = s.covers /\ t.due = s.due
               \/ at[h].pc = "settle" /\ t.covers = at[h].covers /\ t.due = at[h].todo
    BY <1>2, MoveFreezes
  <2>2. /\ snapshots' = snapshots /\ at'[h] = w /\ \A g \in Handler : g # h => at'[g] = at[g]
    BY <1>1, <2>1, Turned
  <2>3. \A t \in view'.settlements \cup disk'.settlements : Frozen(t.covers, t.due)
    BY <2>1 DEF FrozenInv
  <2>4. \A g \in Handler : at'[g].pc = "settle" => Frozen(at'[g].covers, at'[g].todo)
    BY <2>1, <2>2 DEF FrozenInv
  <2> QED
    BY <2>2, <2>3, <2>4 DEF FrozenInv, Frozen, Amounts, AllCounted, Counted, SumOver, IsRegistered
<1>3. CASE SnapshotStep \/ TrackerRestarts
  <2>1. /\ TableGrows /\ disk' = disk /\ view' \in {view, disk}
        /\ \A h \in Handler : at'[h] = at[h] \/ at'[h].pc = "idle"
    BY <1>1, <1>3, SnapshotStepGrows, RestartTypes, IdleIsWork DEF TypesInv, BooksTypes
  <2>2. PICK V, D : V = view.settlements \cup disk.settlements
                    /\ D = view'.settlements \cup disk'.settlements
    OBVIOUS
  <2>3. D \subseteq V
    BY <2>1, <2>2
  <2>4. \A s \in V : Frozen(s.covers, s.due)'
    <3> SUFFICES ASSUME NEW s \in V PROVE Frozen(s.covers, s.due)'
      OBVIOUS
    <3>1. PICK c, l : c = s.covers /\ l = s.due /\ Frozen(c, l)
      BY <2>2 DEF FrozenInv
    <3>2. Frozen(c, l)'
      BY <1>1, <2>1, <3>1, FrozenStays
    <3> QED
      BY <3>1, <3>2
  <2>5. ASSUME NEW h \in Handler, at'[h].pc = "settle" PROVE Frozen(at[h].covers, at[h].todo)'
    <3>1. at'[h] = at[h]
      BY <2>1, <2>5
    <3>2. PICK c, l : c = at[h].covers /\ l = at[h].todo /\ Frozen(c, l)
      BY <2>5, <3>1 DEF FrozenInv
    <3>3. Frozen(c, l)'
      BY <1>1, <2>1, <3>2, FrozenStays
    <3> QED
      BY <3>1, <3>2, <3>3
  <2> QED
    BY <2>2, <2>3, <2>4, <2>5 DEF FrozenInv
<1>4. CASE UNCHANGED booksVars
  BY <1>4 DEF booksVars, FrozenInv, Frozen, Amounts, AllCounted, Counted, SumOver, IsRegistered
<1> QED
  BY <1>2, <1>3, <1>4, Steps

LEMMA InitFrozen == BooksInit => FrozenInv
BY IdleIsWork DEF BooksInit, Empty, FrozenInv

(* What the archive shows of a whole row.                                   *)
LEMMA ArchiveIs ==
    ASSUME TypesInv, WholeInv, FrozenInv, NEW s \in disk.settlements, Key(s) \notin mixed,
           NEW p \in Person, NEW his, his = {l.hotkey : l \in {m \in s.due : m.person = p}}
    PROVE  ArchivePerPerson(disk, s.id)[p] = SumFunction([k \in his |-> SumOver(s.covers, k)])
<1>1. /\ s \in Settlement /\ s.lines = s.due /\ IsFiniteSet(s.due) /\ OnePerHotkey(s.due)
      /\ Frozen(s.covers, s.due)
  BY DEF TypesInv, FiniteRows, FiniteSettlements, WholeInv, WholeOnDisk, FrozenInv
<1>2. settlement_detail(disk, s.id) = s.due
  <2>1. ASSUME NEW t \in disk.settlements, t.id = s.id PROVE t = s
    <3>1. t \in Settlement
      BY DEF TypesInv, FiniteRows, FiniteSettlements
    <3>2. Key(t) = Key(s)
      BY <1>1, <2>1, <3>1 DEF Key, Settlement
    <3> QED
      BY <3>2 DEF WholeInv, OnePerKey, Rows
  <2>2. {t \in disk.settlements : t.id = s.id} = {s}
    BY <2>1
  <2> QED
    BY <1>1, <2>2 DEF settlement_detail
<1>3. PICK mine : mine = {m \in s.due : m.person = p}
  OBVIOUS
<1>4. IsFiniteSet(mine) /\ OnePerHotkey(mine) /\ his = {l.hotkey : l \in mine}
  BY <1>1, <1>3, FS_Subset DEF OnePerHotkey
<1>5. PICK f : f = [l \in mine |-> l.amount]
  OBVIOUS
<1>6. PICK g : g = [k \in his |-> SumOver(s.covers, k)]
  OBVIOUS
<1>7. ArchivePerPerson(disk, s.id)[p] = SumFunction(f)
  BY <1>2, <1>3, <1>5 DEF ArchivePerPerson, OfPerson
<1>8. SumFunction(f) = SumFunctionOnSet(f, mine) /\ SumFunction(g) = SumFunctionOnSet(g, his)
  BY <1>5, <1>6 DEF SumFunction
<1>9. \A l \in mine : f[l] \in Int /\ g[l.hotkey] = f[l]
  <2> TAKE l \in mine
  <2>1. l \in s.due /\ l.hotkey \in his /\ l \in Line
    BY <1>1, <1>3, <1>4 DEF Settlement
  <2>2. f[l] = l.amount /\ g[l.hotkey] = SumOver(s.covers, l.hotkey) /\ l.amount \in Nat
    BY <1>5, <1>6, <2>1 DEF Line
  <2> QED
    BY <1>1, <2>1, <2>2 DEF Frozen, Amounts
<1>10. SumFunctionOnSet(g, his) = SumFunctionOnSet(f, mine)
  BY <1>4, <1>9, SumOfHotkeys
<1> QED
  BY <1>6, <1>7, <1>8, <1>10

(* A closed period that is whole shows what its snapshots gave to each      *)
(* person's hotkeys of then, for good: later snapshots, requests, teams and *)
(* restarts change nothing of it.                                           *)
THEOREM ArchiveStaysFrozen == BooksSpec => []ArchiveIsFrozen
<1>1. TypesInv /\ WholeInv /\ FrozenInv => ArchiveIsFrozen
  BY ArchiveIs DEF ArchiveIsFrozen
<1>2. TypesInv /\ WholeInv /\ FrozenInv /\ [BooksNext]_booksVars
          => TypesInv' /\ WholeInv' /\ FrozenInv'
  BY NextTypes, NextWhole, NextFreezes
<1> QED
  BY <1>1, <1>2, InitTypes, InitWhole, InitFrozen, PTL DEF BooksSpec
-----------------------------------------------------------------------------
(* The emission is conserved: what the captures show is in the archive, in  *)
(* the open period, or out of reach.                                        *)

(* A union is no larger than its parts together, and as large if they are   *)
(* apart.                                                                   *)
LEMMA UnionOfParts ==
    ASSUME NEW S, IsFiniteSet(S), NEW X, NEW f,
           \A s \in S : IsFiniteSet(X[s]) /\ f[s] = Cardinality(X[s])
    PROVE  /\ IsFiniteSet(UNION {X[s] : s \in S}) /\ SumFunctionOnSet(f, S) \in Nat
           /\ Cardinality(UNION {X[s] : s \in S}) <= SumFunctionOnSet(f, S)
           /\ (\A s, t \in S : s # t => X[s] \cap X[t] = {}) =>
                  Cardinality(UNION {X[s] : s \in S}) = SumFunctionOnSet(f, S)
<1> DEFINE U(T) == UNION {X[s] : s \in T}
           Apart == \A s, t \in S : s # t => X[s] \cap X[t] = {}
           G == {T \in SUBSET S :
                    /\ IsFiniteSet(U(T)) /\ Cardinality(U(T)) <= SumFunctionOnSet(f, T)
                    /\ Apart => Cardinality(U(T)) = SumFunctionOnSet(f, T)}
<1>1. \A s \in S : f[s] \in Nat
  BY FS_CardinalityType
<1>2. {} \in G
  <2>1. U({}) = {} /\ SumFunctionOnSet(f, {}) = 0 /\ IsFiniteSet({}) /\ Cardinality({}) = 0
    BY SumEmpty, FS_EmptySet
  <2> HIDE DEF U
  <2> QED
    BY <2>1
<1>3. ASSUME NEW T \in SUBSET S, NEW x \in S, T \in G, x \notin T PROVE T \cup {x} \in G
  <2>1. PICK A, B, C : A = U(T) /\ B = X[x] /\ C = U(T \cup {x})
    OBVIOUS
  <2>2. C = A \cup B
    BY <2>1
  <2>3. /\ IsFiniteSet(A) /\ IsFiniteSet(B) /\ Cardinality(A) <= SumFunctionOnSet(f, T)
        /\ Apart => Cardinality(A) = SumFunctionOnSet(f, T)
        /\ f[x] = Cardinality(B)
    BY <1>3, <2>1
  <2>4. /\ IsFiniteSet(C) /\ IsFiniteSet(A \cap B)
        /\ Cardinality(C) = Cardinality(A) + Cardinality(B) - Cardinality(A \cap B)
    <3>1. IsFiniteSet(A \cup B)
          /\ Cardinality(A \cup B) = Cardinality(A) + Cardinality(B) - Cardinality(A \cap B)
      BY <2>3, FS_Union
    <3>2. IsFiniteSet(A \cap B)
      BY <2>3, FS_Subset
    <3> QED
      BY <2>2, <3>1, <3>2
  <2>5. Apart => A \cap B = {}
    BY <1>3, <2>1
  <2>6. IsFiniteSet(T) /\ \A y \in T \cup {x} : f[y] \in Int
    BY <1>1, FS_Subset
  <2>7. SumFunctionOnSet(f, T \cup {x}) = f[x] + SumFunctionOnSet(f, T)
    BY <1>3, <2>6, SumAdd
  <2>8. SumFunctionOnSet(f, T) \in Nat
    BY <1>1, <2>6, SumNat
  <2>9. PICK a \in Nat, b \in Nat, i \in Nat, m \in Nat :
           /\ a = Cardinality(A) /\ b = Cardinality(B) /\ i = Cardinality(A \cap B)
           /\ m = SumFunctionOnSet(f, T)
    BY <2>3, <2>4, <2>8, FS_CardinalityType
  <2>10. Apart => i = 0
    BY <2>5, <2>9, FS_EmptySet
  <2>11. Cardinality(C) = a + b - i /\ SumFunctionOnSet(f, T \cup {x}) = b + m
         /\ a <= m /\ (Apart => a = m)
    BY <2>3, <2>4, <2>7, <2>9
  <2>12. Cardinality(C) <= b + m /\ (Apart => Cardinality(C) = b + m)
    BY <2>10, <2>11
  <2> HIDE DEF U, Apart
  <2> QED
    BY <2>1, <2>4, <2>11, <2>12
<1> HIDE DEF G
<1>4. S \in G
  BY <1>2, <1>3, PartByPart
<1>5. SumFunctionOnSet(f, S) \in Nat
  BY <1>1, SumNat
<1> QED
  BY <1>4, <1>5 DEF G

(* A settlement covers what lies between the boundary before it and its own. *)
Spans(after, thru, covers) ==
    after < thru /\ \A id \in covers : after < id /\ id <= thru
SpanInv ==
    /\ \A s \in view.settlements \cup disk.settlements : Spans(s.after, s.thru, s.covers)
    /\ \A h \in Handler :
           /\ at[h].pc = "sum" => at[h].last < at[h].thru
           /\ at[h].pc = "settle" => Spans(at[h].last, at[h].thru, at[h].covers)

LEMMA MoveSpans ==
    ASSUME TypesInv, NEW h \in Handler, NEW w \in Work, Moves(h, w)
    PROVE  /\ Turn(h, w) /\ disk' \in {disk, view}
           /\ \A t \in view'.settlements :
                  \/ \E s \in view.settlements :
                         t.covers = s.covers /\ t.thru = s.thru /\ t.after = s.after
                  \/ /\ at[h].pc = "settle" /\ t.covers = at[h].covers
                     /\ t.thru = at[h].thru /\ t.after = at[h].last
           /\ w.pc = "sum" => w.last < w.thru
           /\ w.pc = "settle" => /\ at[h].pc = "sum" /\ w.last = at[h].last
                                 /\ w.thru = at[h].thru /\ w.covers = Period(w.last, w.thru)
<1>1. view \in Db /\ \A s \in view.settlements : s \in Settlement
  BY DEF TypesInv, BooksTypes, Db
<1>2. Turn(h, w) /\ disk' \in {disk, view} /\ GoesFurther(h, w)
  BY MoveShapes, MoveTells
<1>3. \A t \in view'.settlements :
          \/ \E s \in view.settlements :
                 t.covers = s.covers /\ t.thru = s.thru /\ t.after = s.after
          \/ /\ at[h].pc = "settle" /\ t.covers = at[h].covers
             /\ t.thru = at[h].thru /\ t.after = at[h].last
  <2>1. CASE AsksToClose(h, w) \/ AsksToPay(h, w) \/ Rests(h, w) \/ Chooses(h, w)
             \/ SumsUp(h, w) \/ Shares(h, w) \/ Fails(h, w) \/ Saves(h, w)
    <3>1. view' = view
      BY <2>1 DEF AsksToClose, AsksToPay, Rests, Chooses, SumsUp, Shares, Fails, Saves, Reads
    <3> QED
      BY <3>1
  <2>2. CASE \E s : Heads(h, w, s)
    <3>1. PICK s : Heads(h, w, s)
      BY <2>2
    <3>2. s = NewSettlement(h) /\ view' = [view EXCEPT !.settlements = @ \cup {s}] /\ at[h].pc = "settle"
      BY <3>1 DEF Heads, NewHeader
    <3>3. view'.settlements = view.settlements \cup {s}
      BY <1>1, <3>2 DEF Db
    <3> QED
      BY <3>2, <3>3 DEF NewSettlement
  <2>3. CASE \E x : WritesLine(h, w, x)
    <3>1. PICK x : WritesLine(h, w, x)
      BY <2>3
    <3>2. view'.settlements = {Longer(h, x, s) : s \in view.settlements}
      BY <1>1, <3>1 DEF WritesLine, Db
    <3>3. \A s \in view.settlements : LET t == Longer(h, x, s) IN
              t.covers = s.covers /\ t.thru = s.thru /\ t.after = s.after
      BY <1>1, LongerIs
    <3> QED
      BY <3>2, <3>3
  <2>4. CASE \E p : HeadsPayout(h, w, p) \/ TakesBack(h, w, p) \/ WritesShare(h, w, p)
    <3>1. view'.settlements = view.settlements
      BY <1>1, <2>4 DEF HeadsPayout, TakesBack, WritesShare, Db
    <3> QED
      BY <3>1
  <2>5. CASE \E gone : Undoes(h, w, gone)
    <3>1. view'.settlements \subseteq view.settlements
      BY <1>1, <2>5 DEF Undoes, Db
    <3> QED
      BY <3>1
  <2> QED
    BY <2>1, <2>2, <2>3, <2>4, <2>5 DEF Moves
<1>4. ASSUME w.pc = "sum" PROVE w.last < w.thru
  <2>1. Chooses(h, w)
    BY <1>4 DEF Moves, AsksToClose, AsksToPay, Rests, SumsUp, Shares, Fails, Saves, Heads,
       HeadsPayout, WritesLine, WritesShare, Undoes, TakesBack, Next1
  <2> QED
    BY <2>1 DEF Chooses
<1> QED
  BY <1>2, <1>3, <1>4 DEF GoesFurther

LEMMA NextSpans == ASSUME TypesInv, SpanInv, [BooksNext]_booksVars PROVE SpanInv'
<1>1. ASSUME NEW h \in Handler, NEW w \in Work, Moves(h, w) PROVE SpanInv'
  <2>1. /\ Turn(h, w) /\ disk' \in {disk, view}
        /\ \A t \in view'.settlements :
               \/ \E s \in view.settlements :
                      t.covers = s.covers /\ t.thru = s.thru /\ t.after = s.after
               \/ /\ at[h].pc = "settle" /\ t.covers = at[h].covers
                  /\ t.thru = at[h].thru /\ t.after = at[h].last
        /\ w.pc = "sum" => w.last < w.thru
        /\ w.pc = "settle" => /\ at[h].pc = "sum" /\ w.last = at[h].last
                              /\ w.thru = at[h].thru /\ w.covers = Period(w.last, w.thru)
    BY <1>1, MoveSpans
  <2>2. at'[h] = w /\ \A g \in Handler : g # h => at'[g] = at[g]
    BY <2>1, Turned DEF TypesInv, BooksTypes
  <2>3. w.pc = "settle" => Spans(w.last, w.thru, w.covers)
    BY <2>1 DEF SpanInv, Spans, Period
  <2>4. \A t \in view'.settlements \cup disk'.settlements : Spans(t.after, t.thru, t.covers)
    BY <2>1 DEF SpanInv
  <2> QED
    BY <2>1, <2>2, <2>3, <2>4 DEF SpanInv
<1>2. CASE SnapshotStep \/ TrackerRestarts
  <2>1. /\ disk' = disk /\ view' \in {view, disk}
        /\ \A h \in Handler : at'[h] = at[h] \/ at'[h].pc = "idle"
    BY <1>2, SnapshotStepGrows, RestartTypes, IdleIsWork DEF TypesInv, BooksTypes
  <2> QED
    BY <2>1 DEF SpanInv
<1>3. CASE UNCHANGED booksVars
  BY <1>3 DEF booksVars, SpanInv
<1> QED
  BY <1>1, <1>2, <1>3, Steps

LEMMA InitSpans == BooksInit => SpanInv
BY IdleIsWork DEF BooksInit, Empty, SpanInv

(* Periods closed in turn do not overlap, and end before the open one.      *)
LEMMA TurnsApart ==
    ASSUME TypesInv, WholeInv, SpanInv, ClosedInTurn
    PROVE  /\ \A s, t \in disk.settlements : s # t => s.covers \cap t.covers = {}
           /\ \A s \in disk.settlements : \A id \in s.covers : id <= last(disk)
<1>1. \A s \in disk.settlements :
          /\ s \in Settlement /\ s.id \in Nat /\ s.after \in Nat /\ s.thru \in Nat
          /\ s.covers \subseteq Nat /\ Spans(s.after, s.thru, s.covers)
  BY DEF TypesInv, BooksTypes, Db, Settlement, SpanInv
<1>2. ASSUME NEW s \in disk.settlements, NEW t \in disk.settlements, s # t
      PROVE  s.id # t.id
  <2>1. Key(s) # Key(t)
    BY <1>2 DEF WholeInv, OnePerKey, Rows
  <2> QED
    BY <1>1, <2>1 DEF Key, Settlement
<1>3. ASSUME NEW s \in disk.settlements, NEW t \in disk.settlements, s.id < t.id
      PROVE  /\ \A id \in s.covers : id <= t.after /\ id <= t.thru
             /\ s.covers \cap t.covers = {}
  <2>1. s.thru <= t.after /\ t.after < t.thru
    BY <1>1, <1>3 DEF ClosedInTurn, Spans
  <2>2. ASSUME NEW id \in s.covers PROVE id <= t.after /\ id <= t.thru /\ id \notin t.covers
    <3>1. id \in Nat /\ id <= s.thru
      BY <1>1 DEF Spans
    <3>2. id <= t.after /\ id <= t.thru
      BY <1>1, <2>1, <3>1
    <3>3. id \in t.covers => t.after < id
      BY <1>1 DEF Spans
    <3> QED
      BY <1>1, <3>1, <3>2, <3>3
  <2> QED
    BY <2>2
<1>4. \A s, t \in disk.settlements : s # t => s.covers \cap t.covers = {}
  <2> SUFFICES ASSUME NEW s \in disk.settlements, NEW t \in disk.settlements, s # t
               PROVE  s.covers \cap t.covers = {}
    OBVIOUS
  <2>1. s.id < t.id \/ t.id < s.id
    BY <1>1, <1>2
  <2> QED
    BY <1>3, <2>1
<1>5. ASSUME NEW s \in disk.settlements, NEW id \in s.covers PROVE id <= last(disk)
  <2>1. PICK t \in disk.settlements : last(disk) = t.thru /\ \A r \in disk.settlements : r.id <= t.id
    BY LastIs DEF TypesInv, BooksTypes
  <2>2. CASE s = t
    BY <1>1, <2>1, <2>2 DEF Spans
  <2>3. CASE s # t
    <3>1. s.id < t.id
      BY <1>1, <1>2, <2>1, <2>3
    <3> QED
      BY <1>3, <2>1, <3>1
  <2> QED
    BY <2>2, <2>3
<1> QED
  BY <1>4, <1>5

(* What the archive has of a hotkey is what its periods gave it.            *)
LEMMA ArchivedIs ==
    ASSUME TypesInv, WholeInv, FrozenInv, NEW k \in Hotkey,
           \A s \in disk.settlements : Key(s) \notin mixed
    PROVE  LET covered == UNION {s.covers : s \in disk.settlements}
           IN  /\ covered \subseteq AllCounted /\ Archived(k) \in Nat
               /\ SumOver(covered, k) <= Archived(k)
               /\ (\A s, t \in disk.settlements : s # t => s.covers \cap t.covers = {}) =>
                      SumOver(covered, k) = Archived(k)
<1> DEFINE covered == UNION {s.covers : s \in disk.settlements}
<1>1. PICK S : S = disk.settlements
  OBVIOUS
<1>2. IsFiniteSet(S) /\ \A s \in S : Frozen(s.covers, s.due)
  BY <1>1 DEF TypesInv, FiniteRows, FiniteSettlements, FrozenInv
<1>3. ASSUME NEW s \in S PROVE OfHotkey(s.lines, k) = SumOver(s.covers, k)
  <2>1. /\ s \in Settlement /\ s.lines = s.due /\ OnePerHotkey(s.due) /\ Amounts(s.covers, s.due)
    <3>1. s \in disk.settlements /\ Frozen(s.covers, s.due)
      BY <1>1, <1>2
    <3>2. s \in Settlement /\ OnePerHotkey(s.due)
      BY <3>1 DEF TypesInv, FiniteRows, FiniteSettlements
    <3>3. s.lines = s.due
      BY <3>1 DEF WholeInv, WholeOnDisk
    <3> QED
      BY <3>1, <3>2, <3>3 DEF Frozen
  <2>2. PICK l \in s.due : l.hotkey = k
    BY <2>1 DEF Amounts
  <2>3. {m \in s.lines : m.hotkey = k} = {l}
    BY <2>1, <2>2 DEF OnePerHotkey
  <2>4. l.amount = SumOver(s.covers, k) /\ l.amount \in Nat
    BY <2>1, <2>2 DEF Amounts, Settlement, Line
  <2>5. PICK f : f = [m \in {l} |-> m.amount]
    OBVIOUS
  <2>6. SumFunctionOnSet(f, {l}) = f[l] + SumFunctionOnSet(f, {l} \ {l})
    <3>1. PICK S1 : S1 = {l}
      OBVIOUS
    <3>2. IsFiniteSet(S1) /\ l \in S1 /\ \A m \in S1 : f[m] \in Int
      <4>1. f[l] = l.amount /\ \A m \in S1 : m = l
        BY <2>5, <3>1
      <4>2. IsFiniteSet(S1)
        BY <3>1, FS_Singleton
      <4> QED
        BY <2>4, <3>1, <4>1, <4>2
    <3>3. SumFunctionOnSet(f, S1) = f[l] + SumFunctionOnSet(f, S1 \ {l})
      BY <3>2, SumTake
    <3> QED
      BY <3>1, <3>3
  <2>7. SumFunctionOnSet(f, {l}) = l.amount
    <3>1. {l} \ {l} = {} /\ f[l] = l.amount
      BY <2>5
    <3> QED
      BY <2>4, <2>6, <3>1, SumEmpty
  <2> QED
    BY <2>3, <2>4, <2>5, <2>7 DEF OfHotkey, SumFunction
<1>4. PICK f : f = [s \in S |-> OfHotkey(s.lines, k)]
  OBVIOUS
<1>5. Archived(k) = SumFunctionOnSet(f, S)
  BY <1>1, <1>4 DEF Archived, SumFunction
<1>6. PICK X : X = [s \in S |-> {id \in s.covers : IsRegistered(id, k)}]
  OBVIOUS
<1>7. \A s \in S : IsFiniteSet(X[s]) /\ f[s] = Cardinality(X[s])
  <2> TAKE s \in S
  <2>1. s.covers \in SUBSET DOMAIN snapshots
    BY <1>2 DEF Frozen, AllCounted
  <2>2. X[s] \in SUBSET DOMAIN snapshots
    BY <1>6, <2>1
  <2>3. IsFiniteSet(X[s])
    BY <2>2, TableIsFinite DEF TypesInv, BooksTypes
  <2> QED
    BY <1>3, <1>4, <1>6, <2>3 DEF SumOver
<1>8. PICK U : U = UNION {X[s] : s \in S}
  OBVIOUS
<1>9. /\ SumFunctionOnSet(f, S) \in Nat /\ Cardinality(U) <= SumFunctionOnSet(f, S)
      /\ (\A s, t \in S : s # t => X[s] \cap X[t] = {}) => Cardinality(U) = SumFunctionOnSet(f, S)
  BY <1>2, <1>7, <1>8, UnionOfParts
<1>10. U = {id \in covered : IsRegistered(id, k)}
  BY <1>1, <1>6, <1>8
<1>11. SumOver(covered, k) = Cardinality(U)
  BY <1>10 DEF SumOver
<1>12. (\A s, t \in S : s # t => s.covers \cap t.covers = {})
           => \A s, t \in S : s # t => X[s] \cap X[t] = {}
  BY <1>6
<1>13. covered \subseteq AllCounted
  BY <1>1, <1>2 DEF Frozen
<1> HIDE DEF covered
<1>14. /\ covered \subseteq AllCounted /\ Archived(k) \in Nat
       /\ SumOver(covered, k) <= Archived(k)
       /\ (\A s, t \in disk.settlements : s # t => s.covers \cap t.covers = {}) =>
              SumOver(covered, k) = Archived(k)
  BY <1>1, <1>5, <1>9, <1>11, <1>12, <1>13
<1> QED
  BY <1>14 DEF covered

LEMMA ConservedBooks ==
    ASSUME TypesInv, WholeInv, FrozenInv, SpanInv, \A s \in disk.settlements : Key(s) \notin mixed,
           NEW k \in Hotkey, NEW seen, seen = SumOver(DOMAIN captures_table(All), k),
           NEW shown, shown = Archived(k) + dashboard_hotkey_summary(disk, Ever, Future)[k].cumulative
                              + SumOver(OutOfReach(disk), k)
    PROVE  seen <= shown /\ (ClosedInTurn => seen = shown)
<1> DEFINE covered == UNION {s.covers : s \in disk.settlements}
           now     == Period(last(disk), LatestCounted)
<1>1. PICK A, B, O : A = covered /\ B = now /\ O = OutOfReach(disk)
  OBVIOUS
<1>2. TableTypeOK /\ last(disk) \in Nat
  BY LastIs DEF TypesInv, BooksTypes
<1>3. seen = SumOver(AllCounted, k)
  BY <1>2, GridIsTheLog
<1>4. dashboard_hotkey_summary(disk, Ever, Future)[k].cumulative = SumOver(B, k)
  <2>1. dashboard_hotkey_summary(disk, Ever, Future)[k].cumulative
            = SumOver(HotkeySummaryOver(last(disk), Ever, Future), k)
    BY DEF dashboard_hotkey_summary, last
  <2> QED
    BY <1>1, <1>2, <2>1, PeriodsMeet
<1>5. /\ A \subseteq AllCounted /\ Archived(k) \in Nat /\ SumOver(A, k) <= Archived(k)
      /\ ClosedInTurn => SumOver(A, k) = Archived(k)
  BY <1>1, ArchivedIs, TurnsApart
<1>6. /\ \A id : id \in B <=> id \in AllCounted /\ last(disk) < id
      /\ \A id : id \in O <=> id \in AllCounted /\ id <= last(disk) /\ id \notin A
  <2>1. \A id \in AllCounted : id <= LatestCounted
    BY <1>2, LatestIs
  <2> QED
    BY <1>1, <2>1 DEF Period, OutOfReach, AllCounted, last
<1>7. AllCounted \in SUBSET DOMAIN snapshots /\ \A id \in AllCounted : id \in Nat
  BY <1>2, TableIsFinite DEF AllCounted
<1>8. AllCounted = (A \cup B) \cup O /\ O \cap (A \cup B) = {}
  <2>1. \A id \in AllCounted : id <= last(disk) \/ last(disk) < id
    BY <1>2, <1>7
  <2>2. \A id \in AllCounted : ~(id <= last(disk) /\ last(disk) < id)
    BY <1>2, <1>7
  <2> QED
    BY <1>5, <1>6, <2>1, <2>2
<1>9. ClosedInTurn => A \cap B = {}
  <2> SUFFICES ASSUME ClosedInTurn, NEW id \in A, id \in B PROVE FALSE
    OBVIOUS
  <2>1. id <= last(disk) /\ last(disk) < id /\ id \in Nat
    BY <1>1, <1>6, <1>7, TurnsApart
  <2> QED
    BY <1>2, <2>1
<1>10. PICK C : C = B \ A
  OBVIOUS
<1>11. SumOver(AllCounted, k) = (SumOver(A, k) + SumOver(C, k)) + SumOver(O, k)
  <2>1. /\ A \in SUBSET DOMAIN snapshots /\ C \in SUBSET DOMAIN snapshots
        /\ O \in SUBSET DOMAIN snapshots /\ A \cap C = {}
    BY <1>5, <1>6, <1>7, <1>10
  <2>2. SumOver(A \cup C, k) = SumOver(A, k) + SumOver(C, k)
    BY <1>2, <2>1, SumOverUnion
  <2>3. PICK D : D = A \cup C
    OBVIOUS
  <2>4. /\ D \in SUBSET DOMAIN snapshots /\ D \cap O = {} /\ D \cup O = AllCounted
        /\ O \in SUBSET DOMAIN snapshots
    BY <1>8, <1>10, <2>1, <2>3
  <2>5. SumOver(D \cup O, k) = SumOver(D, k) + SumOver(O, k)
    BY <1>2, <2>4, SumOverUnion
  <2> QED
    BY <2>2, <2>3, <2>4, <2>5
<1>12. /\ SumOver(A, k) \in Nat /\ SumOver(B, k) \in Nat /\ SumOver(C, k) \in Nat
       /\ SumOver(O, k) \in Nat /\ SumOver(C, k) <= SumOver(B, k)
  <2>1. ASSUME NEW ids \in SUBSET AllCounted
        PROVE  IsFiniteSet({id \in ids : IsRegistered(id, k)}) /\ SumOver(ids, k) \in Nat
    <3>1. {id \in ids : IsRegistered(id, k)} \in SUBSET DOMAIN snapshots
      BY <1>7
    <3>2. IsFiniteSet({id \in ids : IsRegistered(id, k)})
      BY <1>2, <3>1, TableIsFinite
    <3> QED
      BY <3>2, FS_CardinalityType DEF SumOver
  <2>2. /\ A \in SUBSET AllCounted /\ B \in SUBSET AllCounted /\ C \in SUBSET AllCounted
        /\ O \in SUBSET AllCounted
    BY <1>5, <1>6, <1>10
  <2>3. {id \in C : IsRegistered(id, k)} \subseteq {id \in B : IsRegistered(id, k)}
    BY <1>10
  <2>4. SumOver(C, k) <= SumOver(B, k)
    BY <2>1, <2>2, <2>3, FS_Subset DEF SumOver
  <2> QED
    BY <2>1, <2>2, <2>4
<1>13. ClosedInTurn => C = B
  BY <1>9, <1>10
<1>14. PICK a \in Nat, b \in Nat, c \in Nat, o \in Nat, r \in Nat :
          /\ a = SumOver(A, k) /\ b = SumOver(B, k) /\ c = SumOver(C, k) /\ o = SumOver(O, k)
          /\ r = Archived(k)
  BY <1>5, <1>12
<1>15. /\ seen = (a + c) + o /\ shown = (r + b) + o /\ a <= r /\ c <= b
       /\ ClosedInTurn => a = r /\ c = b
  BY <1>1, <1>3, <1>4, <1>5, <1>11, <1>12, <1>13, <1>14
<1> QED
  BY <1>15

(* What the captures show of a hotkey is in the archive, in the open period *)
(* or out of reach; and counted once, if periods were closed in turn. Only  *)
(* while no settlement is torn by another request's commit, whatever the    *)
(* number of requests, and with snapshots that end out of turn.             *)
THEOREM EmissionStaysConserved == BooksSpec => []EmissionIsConserved
<1>1. TypesInv /\ WholeInv /\ FrozenInv /\ SpanInv => EmissionIsConserved
  BY ConservedBooks DEF EmissionIsConserved
<1>2. TypesInv /\ WholeInv /\ FrozenInv /\ SpanInv /\ [BooksNext]_booksVars
          => TypesInv' /\ WholeInv' /\ FrozenInv' /\ SpanInv'
  BY NextTypes, NextWhole, NextFreezes, NextSpans
<1> QED
  BY <1>1, <1>2, InitTypes, InitWhole, InitFrozen, InitSpans, PTL DEF BooksSpec
=============================================================================
