------------------------------- MODULE Books -------------------------------
(* Periods and the Fund (web/queries.py): closing a period, paying out of   *)
(* the Fund, undoing either. Every handler thread uses the one connection   *)
(* the tracker opens at startup, statement by statement: a statement sees   *)
(* what the others have not committed yet, a commit commits it for all, and *)
(* no handler rolls back.                                                   *)
EXTENDS SnapshotTable, FiniteSetsExt

CONSTANTS
    Handler,        \* threads that serve requests
    Person,         \* everybody the table of persons knows; none is ever deleted
    Teams,          \* what the config may say: hotkeys to persons
    Prices,         \* what a unit of emission may be worth
    NoiseFloor,     \* a person's reward below it goes to the Fund
    Distributions,  \* amounts of distributions asked for
    Salaries,       \* salaries per person asked for
    MaxPayout,      \* bound: the total of a payout
    MaxSettlements, \* bound: settlements at a time
    MaxPayouts,     \* bound: rows of either table of payouts at a time
    MaxUndone,      \* bound: what deleted settlements had paid in
    MaxRestart      \* bound: restarts of the tracker

ASSUME BooksAssumption ==
    /\ IsFiniteSet(Hotkey) /\ Hotkey # {}
    /\ IsFiniteSet(Person) /\ Person # {}
    /\ IsFiniteSet(Handler) /\ Handler # {}
    /\ \A t \in Teams : \E K \in SUBSET Hotkey : t \in [K -> Person]
    /\ Prices \subseteq Nat /\ NoiseFloor \in Nat
    /\ \A n \in Distributions : n \in Nat /\ n <= MaxPayout
    /\ \A n \in Salaries : n \in Nat /\ n * Cardinality(Person) <= MaxPayout
    /\ MaxPayout \in Nat /\ MaxSettlements \in Nat /\ MaxPayouts \in Nat /\ MaxUndone \in Nat /\ MaxRestart \in Nat

VARIABLES owner,    \* hotkeys: each with its person
          view,     \* the database as the connection sees it
          disk,     \* the database as committed
          at,       \* handler |-> where its request stands
          restarts,
          mixed,    \* history: rows another request committed, or deleted, half written
          late      \* history: snapshots that ended after a younger one

booksVars == <<snapshots, owner, view, disk, at, restarts, mixed, late>>

(* A line holds its hotkey's person as of the closing, its emission (one    *)
(* unit a registered row) and the Fund's part of what that is worth.        *)
Line == [hotkey : Hotkey, person : Person, amount : Nat, kas : Nat]
(* `after`, `covers` and `due` are history: the boundary its request read,  *)
(* the snapshots summed over, the lines there are to be.                    *)
Settlement == [kind : {"settlement"}, id : 1 .. MaxSettlements, thru : 1 .. MaxSnapshots,
               lines : SUBSET Line, due : SUBSET Line,
               after : 0 .. MaxSnapshots, covers : SUBSET (1 .. MaxSnapshots)]
(* A row of kas_distributions or of salary_payments, with its lines.        *)
Payout == [kind : {"kas", "salary"}, id : 1 .. MaxPayouts, total : Nat,
           lines : SUBSET Person, due : SUBSET Person]
(* Ids are per table.                                                       *)
Key(row) == <<row.kind, row.id>>
(* `undone` and `lost` are history: what deleted settlements had paid in,   *)
(* and the snapshots they covered.                                          *)
Empty == [settlements |-> {}, payouts |-> {}, undone |-> 0, lost |-> {}]

Pc == {"idle", "boundary", "sum", "settle", "settleLines",
       "shares", "pay", "payLines", "commit"}
(* `todo` are the lines, or the persons, still to be inserted.              *)
IdleHandler == [pc |-> "idle", kind |-> "settlement", id |-> 0, choice |-> 0, price |-> 0,
                last |-> 0, thru |-> 0, covers |-> {}, total |-> 0, todo |-> {}]

BooksTypeOK == /\ TableTypeOK
               /\ owner \in [Hotkey -> Person]
               /\ \A s \in view.settlements \cup disk.settlements : s \in Settlement
               /\ \A p \in view.payouts \cup disk.payouts : p \in Payout
               /\ \A h \in Handler : at[h].pc \in Pc
               /\ restarts \in 0 .. MaxRestart
               /\ late \subseteq DOMAIN snapshots

BooksInit == /\ TableInit
             /\ owner \in {t \in Teams : DOMAIN t = Hotkey}
             /\ view = Empty
             /\ disk = Empty
             /\ at = [h \in Handler |-> IdleHandler]
             /\ restarts = 0
             /\ mixed = {}
             /\ late = {}

---------------------------------------------------------------------------
(* Queries                                                                  *)

(* INTEGER PRIMARY KEY: one more than the largest id there is.              *)
NextId(rows) == 1 + Max({0} \cup {r.id : r \in rows})

last_settlement_snapshot_id(db) ==
    IF db.settlements = {} THEN 0
    ELSE LET latest == CHOOSE s \in db.settlements :
                           \A t \in db.settlements : t.id <= s.id
         IN  latest.thru

Counted(id) == id \in DOMAIN snapshots /\ snapshots[id].status \in {"ok", "partial"}
Settleable(last) == {id \in DOMAIN snapshots : Counted(id) /\ id > last}

Contributed(s) == SumFunction([l \in s.lines |-> l.kas])
kas_balance(db) == SumFunction([s \in db.settlements |-> Contributed(s)])
                   - SumFunction([p \in db.payouts |-> p.total])

---------------------------------------------------------------------------
(* create_settlement                                                        *)

Go(h, w)      == at' = [at EXCEPT ![h] = w]
EndRequest(h) == Go(h, IdleHandler)
Committing    == [IdleHandler EXCEPT !.pc = "commit"]

StartClose(h, choice, price) ==
    /\ at[h].pc = "idle"
    /\ Go(h, [IdleHandler EXCEPT !.pc = "boundary", !.choice = choice, !.price = price,
                                 !.last = last_settlement_snapshot_id(view)])
    /\ UNCHANGED <<snapshots, owner, view, disk, restarts, mixed, late>>

(* The snapshot asked for, which must be settleable, or (choice 0) the last *)
(* that is; otherwise ValueError.                                           *)
ChooseBoundary(h) ==
    /\ at[h].pc = "boundary"
    /\ LET open == Settleable(at[h].last)
           wanted == IF at[h].choice = 0 THEN open ELSE open \cap {at[h].choice}
       IN  IF wanted = {} THEN EndRequest(h)
           ELSE Go(h, [at[h] EXCEPT !.pc = "sum", !.choice = 0, !.thru = Max(wanted)])
    /\ UNCHANGED <<snapshots, owner, view, disk, restarts, mixed, late>>

(* Mutant: the last period's boundary is counted again.                     *)
PeriodWithLast(last, thru) ==
    {id \in DOMAIN snapshots : Counted(id) /\ last <= id /\ id <= thru}

(* Mutant: whatever became of the snapshot.                                 *)
PeriodOfAnyStatus(last, thru) == {id \in DOMAIN snapshots : last < id /\ id <= thru}

(* Mutant: the boundary itself is left out.                                 *)
PeriodBeforeBoundary(last, thru) ==
    {id \in DOMAIN snapshots : Counted(id) /\ last < id /\ id < thru}

Period(last, thru) == {id \in DOMAIN snapshots : Counted(id) /\ last < id /\ id <= thru}

(* Of what a hotkey's emission is worth, three tenths are its person's      *)
(* reward and the rest goes to the Fund; all of it does when the person's   *)
(* rewards together are below the floor. (In cents: module FundShares.)     *)
Reward(usd) == (3 * usd) \div 10
Lines(ids, price) ==
    LET emission(k) == Cardinality({id \in ids : snapshots[id].row[k] = "registered"})
        usd(k)      == price * emission(k)
        rewards(p)  == SumFunction([k \in {j \in Hotkey : owner[j] = p} |-> Reward(usd(k))])
        reward(k)   == IF rewards(owner[k]) < NoiseFloor THEN 0 ELSE Reward(usd(k))
    IN  {[hotkey |-> k, person |-> owner[k], amount |-> emission(k),
          kas |-> usd(k) - reward(k)] : k \in Hotkey}

SumPeriod(h) ==
    /\ at[h].pc = "sum"
    /\ LET ids == Period(at[h].last, at[h].thru)
       IN  Go(h, [at[h] EXCEPT !.pc = "settle", !.price = 0, !.covers = ids,
                               !.todo = Lines(ids, at[h].price)])
    /\ UNCHANGED <<snapshots, owner, view, disk, restarts, mixed, late>>

NewSettlement(h) ==
    [kind |-> "settlement", id |-> NextId(view.settlements), thru |-> at[h].thru,
     lines |-> {}, due |-> at[h].todo, after |-> at[h].last, covers |-> at[h].covers]

(* Mutant: the header is committed before its lines.                        *)
InsertSettlementAlone(h) ==
    /\ at[h].pc = "settle"
    /\ NextId(view.settlements) <= MaxSettlements
    /\ view' = [view EXCEPT !.settlements = @ \cup {NewSettlement(h)}]
    /\ disk' = view'
    /\ Go(h, [IdleHandler EXCEPT !.pc = "settleLines", !.todo = at[h].todo,
                                 !.id = NextId(view.settlements)])
    /\ UNCHANGED <<snapshots, owner, restarts, mixed, late>>

InsertSettlement(h) ==
    /\ at[h].pc = "settle"
    /\ NextId(view.settlements) <= MaxSettlements
    /\ view' = [view EXCEPT !.settlements = @ \cup {NewSettlement(h)}]
    /\ Go(h, [IdleHandler EXCEPT !.pc = "settleLines", !.todo = at[h].todo,
                                 !.id = NextId(view.settlements)])
    /\ UNCHANGED <<snapshots, owner, disk, restarts, mixed, late>>

(* The lines come in the order of a query, on which nothing depends; the    *)
(* last is followed by the commit.                                          *)
WroteLine(h, line) ==
    Go(h, IF at[h].todo = {line} THEN Committing
          ELSE [at[h] EXCEPT !.todo = @ \ {line}])

(* A line whose header was deleted meanwhile, or that exists already, fails *)
(* on a key: the request ends in an error, nothing committed, nothing undone. *)
InsertSettlementLine(h) ==
    /\ at[h].pc = "settleLines"
    /\ LET line == CHOOSE l \in at[h].todo : TRUE
       IN  IF \E s \in view.settlements :
                 s.id = at[h].id /\ \A l \in s.lines : l.hotkey # line.hotkey
           THEN /\ view' = [view EXCEPT !.settlements =
                       {IF s.id = at[h].id THEN [s EXCEPT !.lines = @ \cup {line}] ELSE s
                           : s \in @}]
                /\ WroteLine(h, line)
           ELSE EndRequest(h) /\ UNCHANGED view
    /\ UNCHANGED <<snapshots, owner, disk, restarts, mixed, late>>

(* The rows whose lines a handler is inserting.                             *)
HalfWritten == {Key(at[h]) : h \in {g \in Handler : at[g].pc \in {"settleLines", "payLines"}}}

(* conn.commit(): all that is uncommitted on the connection, whoever wrote it. *)
Commit(h) == /\ at[h].pc = "commit"
             /\ disk' = view
             /\ mixed' = mixed \cup HalfWritten
             /\ EndRequest(h)
             /\ UNCHANGED <<snapshots, owner, view, restarts, late>>

---------------------------------------------------------------------------
(* create_kas_distribution and create_salary_payment                        *)

(* Mutant: without the check of the balance.                                *)
StartPayoutUnchecked(h, kind, total) ==
    /\ at[h].pc = "idle"
    /\ Go(h, [IdleHandler EXCEPT !.pc = "shares", !.kind = kind, !.total = total])
    /\ UNCHANGED <<snapshots, owner, view, disk, restarts, mixed, late>>

PayoutsOf(db, kind) == {p \in db.payouts : p.kind = kind}

(* The check reads the balance; a request it refuses changes nothing.       *)
StartPayout(h, kind, total) ==
    /\ at[h].pc = "idle"
    /\ total <= kas_balance(view)
    /\ Go(h, [IdleHandler EXCEPT !.pc = "shares", !.kind = kind, !.total = total])
    /\ UNCHANGED <<snapshots, owner, view, disk, restarts, mixed, late>>

AskPayout(h) ==
    \/ \E n \in Distributions : StartPayout(h, "kas", n)
    \/ \E n \in Salaries : StartPayout(h, "salary", n * Cardinality(Person))

Contributors(db) == {l.person : l \in UNION {s.lines : s \in db.settlements}}

(* A distribution has a line for each contributor, a salary for each person *)
(* of the table; the split is module FundShares.                            *)
ReadShares(h) ==
    /\ at[h].pc = "shares"
    /\ Go(h, [at[h] EXCEPT !.pc = "pay",
                  !.todo = IF at[h].kind = "kas" THEN Contributors(view) ELSE Person])
    /\ UNCHANGED <<snapshots, owner, view, disk, restarts, mixed, late>>

InsertPayout(h) ==
    /\ at[h].pc = "pay"
    /\ LET id == NextId(PayoutsOf(view, at[h].kind))
       IN  /\ id <= MaxPayouts
           /\ view' = [view EXCEPT !.payouts = @ \cup
                          {[kind |-> at[h].kind, id |-> id, total |-> at[h].total,
                            lines |-> {}, due |-> at[h].todo]}]
           /\ Go(h, IF at[h].todo = {} THEN Committing
                    ELSE [at[h] EXCEPT !.pc = "payLines", !.total = 0, !.id = id])
    /\ UNCHANGED <<snapshots, owner, disk, restarts, mixed, late>>

InsertPayoutLine(h) ==
    /\ at[h].pc = "payLines"
    /\ LET q == CHOOSE r \in at[h].todo : TRUE
       IN  IF \E p \in view.payouts : Key(p) = Key(at[h]) /\ q \notin p.lines
           THEN /\ view' = [view EXCEPT !.payouts =
                       {IF Key(p) = Key(at[h]) THEN [p EXCEPT !.lines = @ \cup {q}] ELSE p
                           : p \in @}]
                /\ WroteLine(h, q)
           ELSE EndRequest(h) /\ UNCHANGED view
    /\ UNCHANGED <<snapshots, owner, disk, restarts, mixed, late>>

---------------------------------------------------------------------------
(* Undoing, and the paid flag                                               *)

(* The lines go with their header (ON DELETE CASCADE). A row that is not    *)
(* there is a 404, after the commit.                                        *)
DeleteSettlement(h, id) ==
    /\ at[h].pc = "idle"
    /\ LET gone   == {s \in view.settlements : s.id = id}
           undone == view.undone + SumFunction([s \in gone |-> Contributed(s)])
       IN  /\ undone <= MaxUndone
           /\ view' = [view EXCEPT !.settlements = @ \ gone, !.undone = undone,
                                   !.lost = @ \cup UNION {s.covers : s \in gone}]
    /\ mixed' = mixed \cup ({<<"settlement", id>>} \cap HalfWritten)
    /\ Go(h, Committing)
    /\ UNCHANGED <<snapshots, owner, disk, restarts, late>>

DeletePayout(h, kind, id) ==
    /\ at[h].pc = "idle"
    /\ view' = [view EXCEPT !.payouts = {p \in @ : Key(p) # <<kind, id>>}]
    /\ mixed' = mixed \cup ({<<kind, id>>} \cap HalfWritten)
    /\ Go(h, Committing)
    /\ UNCHANGED <<snapshots, owner, disk, restarts, late>>

(* The flag itself is in no property: a write that changes nothing here.    *)
SetPaid(h, id) ==
    /\ at[h].pc = "idle"
    /\ \E s \in view.settlements : s.id = id
    /\ Go(h, Committing)
    /\ UNCHANGED <<snapshots, owner, view, disk, restarts, mixed, late>>

---------------------------------------------------------------------------
(* The snapshot worker writes on a connection of its own: not while this    *)
(* one holds the write lock.                                                *)
SnapshotStep ==
    /\ view = disk
    /\ \/ Open /\ UNCHANGED late
       \/ \E id \in DOMAIN snapshots :
              \/ Close(id) /\ late' = IF Settleable(id) = {} THEN late ELSE late \cup {id}
              \/ \E k \in Hotkey, r \in Row \ {"none"} : Record(id, k, r) /\ UNCHANGED late
    /\ UNCHANGED <<owner, view, disk, at, restarts, mixed>>

(* sync_team: the hotkeys the config names go to the persons it names; no   *)
(* row is deleted, and the lines of settlements are left alone.             *)
sync_team(team) ==
    owner' = [k \in Hotkey |-> IF k \in DOMAIN team THEN team[k] ELSE owner[k]]

(* What was not committed is gone, and the requests with it.                *)
TrackerRestarts ==
    /\ restarts < MaxRestart
    /\ restarts' = restarts + 1
    /\ view' = disk
    /\ at' = [h \in Handler |-> IdleHandler]
    /\ FailOrphans
    /\ \E team \in Teams : sync_team(team)
    /\ UNCHANGED <<disk, mixed, late>>

Request(h) ==
    \/ \E choice \in 0 .. MaxSnapshots, price \in Prices : StartClose(h, choice, price)
    \/ AskPayout(h)
    \/ \E id \in 1 .. MaxSettlements : DeleteSettlement(h, id) \/ SetPaid(h, id)
    \/ \E kind \in {"kas", "salary"}, id \in 1 .. MaxPayouts : DeletePayout(h, kind, id)

Statement(h) == \/ ChooseBoundary(h) \/ SumPeriod(h)
                \/ InsertSettlement(h) \/ InsertSettlementLine(h)
                \/ ReadShares(h) \/ InsertPayout(h) \/ InsertPayoutLine(h)
                \/ Commit(h)

BooksNext == \/ \E h \in Handler : Request(h) \/ Statement(h)
             \/ SnapshotStep
             \/ TrackerRestarts

BooksSpec == BooksInit /\ [][BooksNext]_booksVars

---------------------------------------------------------------------------
(* Properties                                                               *)

(* No snapshot's emission is frozen into two settlements (create_settlement *)
(* refuses a boundary "already covered by an earlier settlement").          *)
NoSnapshotSettledTwice ==
    \A s, t \in disk.settlements : s # t => s.covers \cap t.covers = {}

(* What was closed or paid "atomically" is on disk whole, however requests  *)
(* interleave and wherever a restart cuts them off: half a row gets there   *)
(* only when another request commits, or deletes, what one is still writing. *)
WholeOnDisk ==
    \A r \in disk.settlements \cup disk.payouts : r.lines = r.due \/ Key(r) \in mixed

(* Requests that overlap may all be paid out of one balance; the Fund is    *)
(* never overdrawn by more than the others then took, apart from what       *)
(* deleting a settlement takes back after it was paid out.                  *)
OverdrawnByOthersAtMost ==
    \A db \in {view, disk} :
        kas_balance(db) + db.undone + (Cardinality(Handler) - 1) * MaxPayout >= 0

(* Every finished snapshot is in a settlement or can still get into one,    *)
(* but for those whose settlement was deleted after a later one was closed, *)
(* and those that ended after a younger one.                                *)
OutOfReach(db) ==
    {id \in DOMAIN snapshots : /\ Counted(id)
                               /\ id <= last_settlement_snapshot_id(db)
                               /\ \A s \in db.settlements : id \notin s.covers}
NoSnapshotIsForgotten == \A db \in {view, disk} : OutOfReach(db) \subseteq db.lost \cup late
=============================================================================
