-------------------------------- MODULE Pages -------------------------------
(* What the pages and the statistics endpoints show of the books            *)
(* (web/queries.py, web/routes_pages.py, web/routes_api.py): functions of   *)
(* the database as the connection sees it. A snapshot is taken at its id,   *)
(* and a registered row is worth one unit.                                  *)
EXTENDS Books

Roster(p) == {k \in Hotkey : owner[k] = p}

IsRegistered(id, k) == snapshots[id].row[k] = "registered"
Emission(id, k)     == IF IsRegistered(id, k) THEN 1 ELSE 0
SumOver(ids, k)     == Cardinality({id \in ids : IsRegistered(id, k)})

AllCounted == {id \in DOMAIN snapshots : Counted(id)}
(* ORDER BY id DESC LIMIT n.                                                *)
Newest(rows, n) == {i \in rows : Cardinality({j \in rows : j > i}) < n}

---------------------------------------------------------------------------
(* The current period. Each query filters the snapshots by itself: those    *)
(* after the boundary it read, in the range asked for.                      *)

SummaryOver(boundary, from, to) ==
    {id \in DOMAIN snapshots : Counted(id) /\ id > boundary /\ from <= id /\ id < to}

dashboard_summary(db, from, to) ==
    LET ids == SummaryOver(last_settlement_snapshot_id(db), from, to)
    IN  [p \in Person |-> SumFunction([k \in Roster(p) |-> SumOver(ids, k)])]

(* Mutant: only snapshots without a failure.                                *)
SeriesOverOk(boundary, k, from, to) ==
    {id \in DOMAIN snapshots : /\ snapshots[id].row[k] # "none" /\ snapshots[id].status = "ok"
                               /\ id > boundary /\ from <= id /\ id < to}

SeriesOver(boundary, k, from, to) ==
    {id \in DOMAIN snapshots : /\ snapshots[id].row[k] # "none" /\ Counted(id)
                               /\ id > boundary /\ from <= id /\ id < to}

hotkey_series(db, k, from, to) ==
    LET ids == SeriesOver(last_settlement_snapshot_id(db), k, from, to)
    IN  [id \in ids |-> [per_snapshot |-> Emission(id, k),
                         cumulative   |-> SumOver({j \in ids : j <= id}, k)]]

PersonSeriesOver(boundary, p, from, to) ==
    {id \in DOMAIN snapshots : /\ \E k \in Roster(p) : snapshots[id].row[k] # "none"
                               /\ Counted(id)
                               /\ id > boundary /\ from <= id /\ id < to}

person_series(db, p, from, to) ==
    LET ids      == PersonSeriesOver(last_settlement_snapshot_id(db), p, from, to)
        upto(id) == {j \in ids : j <= id}
    IN  [id \in ids |->
            [per_snapshot |-> SumFunction([k \in Roster(p) |-> Emission(id, k)]),
             cumulative   |-> SumFunction([k \in Roster(p) |-> SumOver(upto(id), k)])]]

HotkeySummaryOver(boundary, from, to) ==
    {id \in DOMAIN snapshots : Counted(id) /\ id > boundary /\ from <= id /\ id < to}

LatestOnDashboard == Max({0} \cup AllCounted)

dashboard_hotkey_summary(db, from, to) ==
    LET ids    == HotkeySummaryOver(last_settlement_snapshot_id(db), from, to)
        latest == LatestOnDashboard
    IN  [k \in Hotkey |->
            [cumulative    |-> SumOver(ids, k),
             is_registered |-> latest # 0 /\ IsRegistered(latest, k),
             last_refresh  |-> Max({0} \cup {id \in AllCounted : snapshots[id].row[k] # "none"})]]

(* Mutant: the registrations of whatever snapshot is the newest.            *)
LatestOfAnyStatus == Max({0} \cup DOMAIN snapshots)

LatestCounted == Max({0} \cup AllCounted)

current_registration_status ==
    LET latest    == LatestCounted
        active(p) == {k \in Roster(p) : latest # 0 /\ IsRegistered(latest, k)}
    IN  [p \in Person |->
            [active |-> Cardinality(active(p)), total |-> Cardinality(Roster(p)),
             deregistered_hotkeys |-> Roster(p) \ active(p)]]

---------------------------------------------------------------------------
(* Snapshots: the grid and the log                                          *)

captures_table(limit) ==
    [id \in Newest(AllCounted, limit) |-> snapshots[id].row]

snapshot_history(limit) ==
    [id \in Newest(DOMAIN snapshots, limit) |->
        LET with(r) == Cardinality({k \in Hotkey : snapshots[id].row[k] = r})
            team_size == Cardinality(Hotkey)
        IN  [status |-> snapshots[id].status, team_size |-> team_size,
             registered |-> with("registered"), deregistered |-> with("deregistered"),
             failed |-> team_size - with("registered") - with("deregistered")]]

---------------------------------------------------------------------------
(* The archive                                                              *)

(* Mutant: whose a line is, is looked up when the page is drawn.            *)
settlement_detail_live(db, id) ==
    UNION {{[l EXCEPT !.person = owner[l.hotkey]] : l \in s.lines}
              : s \in {t \in db.settlements : t.id = id}}

settlement_detail(db, id) == UNION {s.lines : s \in {t \in db.settlements : t.id = id}}

OfPerson(lines, p) == SumFunction([l \in {m \in lines : m.person = p} |-> l.amount])
ArchivePerPerson(db, id) == [p \in Person |-> OfPerson(settlement_detail(db, id), p)]

---------------------------------------------------------------------------
(* Properties                                                               *)

Ever   == 0
Future == MaxSnapshots + 1
All    == MaxSnapshots

(* A closed period is frozen: whatever snapshot, payout or new team came    *)
(* since, its page gives each person what the snapshots it covers gave to   *)
(* the hotkeys that were his when it was closed.                            *)
ArchiveIsFrozen ==
    \A s \in disk.settlements :
        Key(s) \notin mixed =>
            \A p \in Person :
                LET his == {l.hotkey : l \in {m \in s.due : m.person = p}}
                IN  ArchivePerPerson(disk, s.id)[p]
                        = SumFunction([k \in his |-> SumOver(s.covers, k)])

(* No unit of emission is lost between the pages: what the captures show of *)
(* a hotkey is in the archive, or on the dashboard's current period, or in  *)
(* a snapshot that is out of reach; and none is counted twice, unless a     *)
(* period was closed while another request was closing it.                  *)
OfHotkey(lines, k) == SumFunction([l \in {m \in lines : m.hotkey = k} |-> l.amount])
Archived(k) == SumFunction([s \in disk.settlements |-> OfHotkey(s.lines, k)])
ClosedInTurn == \A s, t \in disk.settlements : s.id < t.id => s.thru <= t.after

EmissionIsConserved ==
    (\A s \in disk.settlements : Key(s) \notin mixed) =>
        \A k \in Hotkey :
            LET seen  == SumOver(DOMAIN captures_table(All), k)
                shown == Archived(k) + dashboard_hotkey_summary(disk, Ever, Future)[k].cumulative
                         + SumOver(OutOfReach(disk), k)
            IN  seen <= shown /\ (ClosedInTurn => seen = shown)

LastCumulative(series) ==
    IF DOMAIN series = {} THEN 0 ELSE series[Max(DOMAIN series)].cumulative

(* All views of the current period give one figure: per hotkey and per      *)
(* person, as a sum and as the end of its series, in one range or cut in    *)
(* two, and what closing the period now would freeze. And they give one     *)
(* answer to who is registered, that of the newest finished snapshot, even  *)
(* while the next is being taken or has failed ("1 if registered in the     *)
(* latest successful snapshot"). The grid shows the finished snapshots of   *)
(* the log and no others.                                                   *)
PagesAgree ==
    LET shown      == dashboard_hotkey_summary(view, Ever, Future)
        of_person  == dashboard_summary(view, Ever, Future)
        status     == current_registration_status
        grid       == captures_table(All)
        log        == snapshot_history(All)
        registered == {k \in Hotkey : shown[k].is_registered}
        now_closed == Period(last_settlement_snapshot_id(view), LatestCounted)
    IN  /\ \A k \in Hotkey :
               /\ shown[k].cumulative = SumOver(now_closed, k)
               /\ shown[k].cumulative = LastCumulative(hotkey_series(view, k, Ever, Future))
        /\ \A cut \in 2 .. MaxSnapshots :
               LET before == dashboard_hotkey_summary(view, Ever, cut)
                   after  == dashboard_hotkey_summary(view, cut, Future)
               IN  \A k \in Hotkey :
                       shown[k].cumulative = before[k].cumulative + after[k].cumulative
        /\ \A p \in Person :
               /\ of_person[p] = SumFunction([k \in Roster(p) |-> shown[k].cumulative])
               /\ of_person[p] = LastCumulative(person_series(view, p, Ever, Future))
               /\ status[p].deregistered_hotkeys = Roster(p) \ registered
               /\ status[p].active = status[p].total - Cardinality(status[p].deregistered_hotkeys)
        /\ DOMAIN grid = {id \in DOMAIN log : log[id].status \in {"ok", "partial"}}
        /\ AllCounted # {} =>
               LET newest == Max(DOMAIN grid)
               IN  /\ registered = {k \in Hotkey : grid[newest][k] = "registered"}
                   /\ log[newest].registered = Cardinality(registered)
=============================================================================
