# Verification of the emission tracker and its signer

TLA+ models, TLC runs and TLAPS proofs for the tracker (FastAPI + APScheduler +
SQLite, `src/src/emission_tracker`) and for the signing daemon beside it
(`src/src/emission_tracker/signer`). Paths below are relative to
`src/src/emission_tracker` unless they start with `src/`.

## 1. The system

| Part | State it keeps | Operations | Talks to |
|---|---|---|---|
| Signing daemon `signer/server.py` | `_spent` (day, rao) and its file, the connection it serves | pay, unstake, sweep, distribute, balances, stake | the socket; btcli |
| Wire protocol `signer/protocol.py` | – | `to_line`/`from_line`, result with `ok`/`unknown` | both ends of the socket |
| Socket and client `web/signer_client.py`, `serve` | backlog of 4, one connection served at a time | connect, send, wait 300 s, answer, die | tracker ↔ signer |
| btcli driver and parsers `signer/btcli.py` | one child on a pseudo-terminal, time of the last chain call | prompts, deadline, reading of the output | btcli, the chain |
| Signed actions `web/routes_api.py`, `web/queries.py`, `db.py` | `signed_actions`, one pending row per coldkey | pay, unstake, sweep, distribute; record, send, finish; startup cleanup | the client |
| Periods and Fund `web/queries.py`, `db.py` | `settlements`, `settlement_lines`, `kas_distributions`, `salary_payments`, whose each hotkey is | close a period, delete, mark paid, distribute, pay salary; the team of the configuration at a start | snapshots; one shared SQLite connection |
| Snapshot worker `bot/snapshot.py`, `bot/scheduler.py` | `snapshots`, `neuron_snapshots` | take a snapshot with a retry pass, startup cleanup | TaoStats, rate limiter |
| Balance refresh `bot/balances.py` | `coldkey_balances`, the runner's lock and flag | full and single refresh, nightly job | signer, TaoStats, Gradients |
| Rate limiter `rate_limiter.py`, `taostats_client.py` | tokens, time of the last refill | `acquire`, the request and its retries | every TaoStats caller |
| Alpha price `web/price.py` | cached quote and its time | `get` | TaoStats, rate limiter |
| Login and roles `web/auth.py`, `web/routes_auth.py`, `web/sessions.py` | failures per address in memory, the session in the cookie | login, logout, gate, roles | the configuration of the running process |
| Pages, statistics `web/queries.py`, `web/routes_pages.py` | – | what each page and endpoint reads | the database |

What is hard here: money moves on a chain that answers late or never; btcli's
text is the only evidence of what it did; three processes (tracker, signer,
btcli) die or time out independently; handlers run on a thread pool over one
SQLite connection; the signer serves one request at a time while clients wait
with a clock of their own. `PROJECT.json` lists every such hazard with the line
where it bites and the properties aimed at it.

What makes each part correct is stated with the runs below.

## 2. The modules

Core (signing):

| Module | Models | State and actions |
|---|---|---|
| `Protocol` | `signer/protocol.py` | operations, requests, results; `WellFormed` is `from_line`, `AmountOf` the fee sum |
| `BtcliOutput` | the two parsers of `signer/btcli.py` | an output is the set of kinds of marker in it |
| `Socket` | `web/signer_client.py`, `serve` | `line`/`result` per connection, `inbox` (backlog), `serving`; `Connect`, `ConnectFails`, `GiveUp`, `Accept`, `Answer`, `HangUp` (a line the server gives up reading), either end vanishing |
| `Signer` | `signer/server.py` and the driver's outcomes | `job` is where `_handle` stands; one action per operation, per end of a btcli run, per step of the unstake loop, for booking, crash and restart; the chain (`tx`, `utx`, `free`, `stake`) is external: it takes a fee for a transfer, also for one it refuses, and unstakes of a hotkey as much as the tolerance allows (`--allow-partial-stake`) |
| `SignerProperties` | – | properties and fairness of the daemon |
| `BtcliRun` | abstract | what one run of btcli promises the signer: a success only for what landed, a failure only for what never will |
| `PtyDriver` | `run_btcli_pty` and its prompt tables | `pc` is where the loop stands (select, answer, waitpid, close, wait), `seen`/`answered` its counts of each prompt; the terminal is two queues (`screen`, `typed`); btcli asks, reads a line, submits, prints, exits. Shown to implement `BtcliRun` |
| `SignedActions` | endpoints, `_run_signed_action`, `signed_actions` | `rows` is the table, `pc` the handler threads; `StartAction` (check), `RecordAction` (insert, unique index), `Send`, `ReceiveAnswer`, `SignerUnavailable`, `TrackerCrash`, `TrackerStart` (cleanup); `latest_action_per_coldkey` is the badge of a card |
| `ActionLedger` | abstract | what tracker and signer promise together: one open action per coldkey, money only for a recorded action and only once, an ok action shows what moved |
| `SigningSystem` | composition | tracker, socket, signer, chain; refinement to `ActionLedger` |
| `SignerProofs`, `SigningProofs`, `PtyProofs` | – | TLAPS proofs about `Signer`, `SigningSystem` and `PtyDriver` |

Around the core:

| Module | Models | State and actions |
|---|---|---|
| `SnapshotTable` | the `snapshots`/`neuron_snapshots` tables as everything else relies on them | `snapshots`: a sequence of rows (status, rows per hotkey); `Open`, `Record`, `Close`, `FailOrphans`. Both the abstract specification `Snapshots` implements and the table `Books` reads |
| `Snapshots` | `bot/snapshot.py` under `bot/scheduler.py` and the startup run | `run[j]` is where job *j*'s `take_snapshot` stands: `StartRun`, the fetch of a hotkey and the confirming fetch after an empty answer, the second pass, the status; an exception, a death, the startup cleanup |
| `Books` | `create_settlement`, `create_kas_distribution`, `create_salary_payment`, the deletes, `SetPaid` (`web/queries.py`), `sync_team` (`db.py`) | `view` is the database as the shared connection sees it, `disk` as committed, `owner` whose each hotkey is; `at[h]` is the statement a handler thread stands at; one action per statement, any number of threads; a restart may bring another team. Histories: `mixed` (rows another request committed or deleted while they were half written), `late` (snapshots that ended after a younger one), of deleted settlements what they had paid in (`undone`) and covered (`lost`), of a settlement the boundary its request read (`after`), the snapshots it covers and the lines it is to have (`due`) |
| `Pages` | the queries behind the pages and the statistics endpoints | one operator per query, a function of `view`, `snapshots` and `owner`: the current period by hotkey, person and snapshot, registrations, the grid of captures, the log of snapshots, the archive. Each query has a filter of the snapshots of its own (`SummaryOver`, `SeriesOver`, `PersonSeriesOver`, `HotkeySummaryOver`, `LatestOnDashboard`, `LatestCounted`), as in the source, so that one of them may drift |
| `FundShares` | the cents: lines of a settlement, shares of a distribution | hotkey by hotkey and person by person; the split, the floor, the rounding remainder |
| `RateLimiter` | `rate_limiter.py`, `_request_with_retry` | tokens, wall clock and real time; `drawn`, a history of when each token's request was sent; `AcquireNow`, `AcquireLater`, `WakeUp`, `RequestFails` (with the longer pause of a 429), `Retry`, `ClockSetBack` |
| `ChainReads` | `run_btcli`, `read_with_retry`, the signer's `balances` and `stake_of` | how a run of btcli ends (an object, silence, noise, an error) and what the tracker is told |
| `BalanceRefresh` | `bot/balances.py`, `balance_job`, `coldkey_cards` | `running` is `_running`; `pass["manual"]` is the runner's thread, `pass["nightly"]` the scheduler's job; `leaked`, a history: the runner's thread got no connection; start, connect, the free balances in one call, the stake of each coldkey or TaoStats, an insert per coldkey, the `finally` |
| `AlphaPrice` | `web/price.py` | `cached`, and per reader the fetch it is in; `Hit`, `Miss`, `Store`, `NoAnswer` |
| `Login` | `web/routes_auth.py`, `web/sessions.py`, `web/auth.py` | `failures` per address (a deque, cut from the left when it is asked), `cookie` per browser, `config` of the running process; `tried`, a history of the refused passwords; `Throttled`, `LoginFails`, `LoginSucceeds`, `Logout`, `Serve` (gate, role, origin), `TrackerStarts` with another configuration |
| `Clock` | the time those components share | `now` |
| `SnapshotsProofs`, `BooksProofs`, `BalanceProofs`, `AloneProofs` | – | TLAPS proofs about `Snapshots`; `Books` and `Pages`; `BalanceRefresh`; the price, the bucket, the login and the cents |
| `Sums` | – | lemmas about the sum of a function over a finite set |

The `MC` modules give the constants values for TLC. `MCAlone` puts the six
components that share no state with any other (price, token bucket, login, Fund
arithmetic, snapshot worker, balance refresh) side by side: a behaviour is one of
one of them. `MCBooks` has three kinds of behaviour, see the bounds.

How they compose: `Signer` EXTENDS `Protocol`, `BtcliOutput` and `Socket`;
`SigningSystem` puts `SignedActions` at the other end of the socket and carries
the refinement to `ActionLedger`. `PtyDriver` reads the screen with the same
parsers (`BtcliOutput`) as `Signer`, and what it is shown to implement is what
`Signer` lets a run of btcli end in. `Snapshots` and `Books` both EXTEND
`SnapshotTable`: the first is shown to implement it (`ImplementsTable`), the
second takes its steps as those of the worker, so what `Books` and `Pages` assume
of the worker is what `Snapshots` shows. `BalanceRefresh` gets its figures through
`ChainReads`.

Names follow the source where TLA+ allows it. Operators whose comment begins
with *Mutant* are not part of the model: each is the body a definition after it
would have with one plausible bug, kept so that every property is seen to fail
on some broken version of the code (`PROJECT.json`, "mutants").

## 3. The runs

Every passing run is exhaustive within its bounds.

| Run | Checks | Shows |
|---|---|---|
| `signer` | `OkMeansMoved`, `ClassifiedFailureMovedNothing`, `SpendWithinCap`, `BookedWithinCap`, `TeamFundsFallOnlyByPayment`, `SweptWalletKeepsReserve`, `CleanUnstakeIsComplete` | two requests of any kind (payable, over a cap, unknown wallet, refused destination, ill-formed, an unstake of three hotkeys, one of them not registered), every end a run of btcli has, late extrinsics, partial unstakes, fees, one midnight, one crash, writes of the total that fail or leave the file empty |
| `btcli_pty` | `AnswersFit`, `NoStall`, `ImplementsRun`, `DriverEnds` | one run of a transfer or an unstake: prompts that repeat, a password asked again, reads that end anywhere, a spinner, a hang, an exit between the last read and the waitpid, the deadline |
| `system_money` | `PendingShowsOnCard`, `EvidenceBeforeMoney`, `OkRowHoldsWhatMoved`, `UnflaggedFailureIsExplained`, `ClosedRowsAreFinal`, `ImplementsLedger` | table, handlers, socket, signer and chain together, either process dying once |
| `system_live` | `PendingRowsResolve` | a btcli that may hang for good, a queue, a crash of either process: the handler's wait ends and no coldkey stays locked behind a pending row. The client's own timeout, which would make this easy, is not among the fair steps |
| `books` | `WholeOnDisk`, `EmissionIsConserved`, `PagesAgree`, `OverdrawnByOthersAtMost`, `NoSnapshotIsForgotten`, `ArchiveIsFrozen` | requests that overlap on the one connection, statement by statement, cut off anywhere by a restart that may move a hotkey to another person, over snapshots that overlap: what reaches the disk half written, what is paid out of one balance twice, and what closing past a running snapshot forgets is exactly what the properties name, and apart from it nothing is lost, torn or told two ways |
| `alone` | `ServedIsFresh`; `CallsKeepTheRate`, `SleepersTakeTurns`; `ThrottleHolds`, `ReachedLoggedIn`; `LinesAddUp`, `SharesAreFair`; `StatusTellsRows`, `NoRowIsWrittenTwice`, `ImplementsTable`, `SnapshotsAreClosed`; `CardsFollowTheRuns`, `FiguresAreTrue`, `RefusedInFlightOrLeaked`, `RunnerIsFreed` | price: three readers overwriting each other's quotes. Bucket: three callers, retries, a clock set back by one tick. Login: failures, logins, logouts and requests of every kind over a restart with another configuration. Fund: 256 periods of four hotkeys and three persons, times four amounts, against the rational shares. Snapshots: the interval job and the startup run at once, empty and failing answers, an exception, a death. Balances: a run from a button and the nightly one at once, a btcli that prints an object, nothing, noise or an error at each read, wallets it leaves out, the way round by TaoStats, exceptions of the database, either run without a connection, a restart |

The type invariants are no properties of the runs: they are parts of the
inductive invariants of section 4. Every safety property of a passing run is also
a theorem there, for every value of the constants. What the runs add: the property
is not empty (each has a mutant of the code that breaks it), the liveness
properties, and, in the runs with a violation, what the code does not keep.

### Bounds, and why they are enough

- **Two connections / two actions** (`Conn`). The socket is used once per
  request, and the signer serves one at a time: what can go wrong between two
  requests (caps, double payment, the coldkey's lock, a late extrinsic of the
  first under the second) needs two. The backlog of four is set to 0 in the runs,
  so that the limit is met: with two clients one is served and a
  second one waits or is refused.
- **Amounts.** Fees are 1, 2 and 4 against a daily cap of 2 and a per-request cap
  of 3: one payment that fits once, one that fills the cap, one too large. Wallets
  hold 0, 2, 3 and 5, so a sweep finds nothing, exactly the reserve plus
  something, or more, and two payments and their fees can be met. The chain's fee is 1, half the reserve, in `signer`, where
  balances are what the properties are about, and 0 in the `system` runs. One
  hotkey has a stake of 2, so that part of it may stay.
- **`MaxDay = 1`, `MaxCrash = 1`, `MaxTrackerCrash = 1`**: one midnight and one
  death of each process fall between any two steps. A second midnight meets
  only a total dated earlier than today, as the first one does.
- **Snapshots**: two hotkeys (one fails, one not), two jobs, two snapshots, one
  death.
- **Books**: two snapshots, two settlements, one payout of either table, two
  hotkeys of one person, the second of which a restart may give to another. A
  behaviour is of one of three kinds (`MCBooks`), since all at once is out of
  reach: *pages*, one request at a time that closes, deletes or marks, with rows of
  both hotkeys and a restart (a boundary between two periods, a deletion of the
  first of two, a change of hands between two closings); *closing*, two requests at
  a time that close and delete, no restart (the race for a boundary, a commit or
  a deletion into half a settlement, a snapshot that ends below a boundary);
  *paying*, two requests at a time of any kind over one snapshot and one settlement
  (the race for a balance, a deletion under a payout, a restart in the middle). In
  the last two nothing is recorded of the second hotkey; its line, with nothing in
  it, is written all the same. The proofs have none of these bounds.
  `v_settled_twice` needs one hotkey, one snapshot and two handlers.
- **PtyDriver**: four questions: an unstake's two hotkeys, its confirmation and
  its password, or a password asked again. Two writes are on the screen at most,
  so that a read can end between them or inside the last.
- **Balances**: two starts (`clock` counts events): the two kinds of run
  at once with one `fetched_at` or two, which is what `ON CONFLICT` is there for;
  one of the two coldkeys is on the signer's host, both hold stake. Either run's
  connection may be refused (`ConnectFails`).
- **alone**: five ticks. A capacity of two lets the bucket run empty, owe tokens
  to two sleepers and fill up again, and the third caller's retry crosses them; a
  429's pause is longer than a refill. The price's TTL and fetch are two ticks. Login: two failures in a window of two, sessions of
  three ticks, one browser (nothing is shared between addresses), one restart,
  five configurations: the team; the admin retired; the secret changed; no login of
  its own behind nginx; a laptop.

`CHECK_DEADLOCK FALSE` stands in every cfg because the connections,
snapshots, clock ticks and restarts are used up; a state in which nothing is left
to do is not a fault there. That nobody waits for good is what the liveness
properties are for, and `NoStall`, which says it of driver and btcli. Symmetry is
used in `signer` and `system_money` (connections) and `alone` (threads), over
interchangeable model values and never in a run with a liveness property.

### Fairness

- *Signer.* Weak fairness of the daemon's own steps and of `Restart`
  (`Restart=on-failure` in its unit file), and of the driver's deadline.
  btcli's own end is **not** fair: of what can end a run, only
  `run_btcli_pty`'s deadline is guaranteed, as `DriverEnds` shows of the driver.
  Neither the chain nor the client owes any step.
- *PtyDriver.* Weak fairness of the driver's loop, of its deadline, and of
  btcli's exit once its terminal is closed (SIGHUP): the `waitpid` after the loop
  has no limit, and a btcli that ignored the hangup would hold the signer's only
  thread for good (a hazard in `PROJECT.json`). btcli owes nothing else.
- *Tracker.* Weak fairness of each handler thread's own steps and of
  `TrackerStart`. The client's timeout (`GiveUp`) is not fair: a handler's wait
  ends because the signer answers or its connection breaks.
- *Snapshots, BalanceRefresh.* Weak fairness of a job's next step: each HTTP call
  and each signer call has a timeout, the bucket's wait is finite
  (`SleepersTakeTurns`).
- The other modules claim safety only.

### Where the code and its documentation part

Six runs check a property that a text of the repository states, and TLC finds a
behaviour of the code against it (the quotation is in `PROJECT.json`):

| Run | Behaviour |
|---|---|
| `v_timeout_transfer` | `classify_timeout` (btcli.py:876) is defined nowhere: a transfer that meets the deadline ends in a NameError, answered as a *plain* failure, its extrinsic on the chain |
| `v_client_gives_up` | the client gives up after 300 s while the signer is still at work; the coldkey is unlocked and a second action starts |
| `v_settled_twice` | two overlapping Close Period requests settle the same snapshots |
| `v_silent_zero` | a stake list that prints nothing, as btcli does when its connection is refused (btcli.py:354-356), is shown as a stake of zero |
| `v_button_stuck` | the runner's thread gets no connection: the `try` whose `finally` clears `_running` has not begun (balances.py:325-327), and every later click is told that a refresh is in flight |
| `v_click_at_night` | `balance_job` (scheduler.py:52-67) never asks the runner: a click during the nightly run opens the second pass that balances.py:224-227 says it cannot |

Where other texts promise more than the code does, the passing properties state
what the code does keep, and name the exception:

| Text | Property, and its exception |
|---|---|
| server.py:429-431: a part-done unstake is "never" answered "as a plain failure" | `ClassifiedFailureMovedNothing`, except error class `crash` (the NameError above leaves the unstake loop too) |
| db.py:164-167: an interrupted row is flagged when money may have moved | `UnflaggedFailureIsExplained`, except rows closed as `interrupted`: `cleanup_stranded_actions` sets no flag |
| signed-actions design, 59-60: caps hold against "a stuck retry loop" | `BookedWithinCap` is about what was booked: a payment whose outcome is unknown, or whose signer died before the booking, is not |
| server.py:105-108: a sweep leaves enough for the next transaction | `SweptWalletKeepsReserve`: the reserve less the chain's fee, except when two transfers of the wallet are settled of which one was left in doubt: the daemon remembers none |
| queries.py:104-105: failed runs have no neuron rows | `StatusTellsRows`, except the snapshots `cleanup_orphaned_snapshots` failed (db.py:238-256): the rows their worker had written stay |
| routes_api.py:149: a period is frozen "atomically" | `WholeOnDisk`, except rows another request committed, or deleted, while they were half written: any commit on the shared connection commits every handler's statements |
| queries.py:364-367: a payout fails when the balance is too small | `OverdrawnByOthersAtMost`: by as much as the requests that overlap take, since the balance is read before the insert, and by what deleting a settlement takes back |
| routes_api.py:175-176: deleting a settlement reopens its period | `NoSnapshotIsForgotten` names what deleting leaves out of reach: only deleting the last one reopens anything |
| DEPLOY.md:667-668: no more than five requests a minute | `CallsKeepTheRate`: a full bucket comes on top of the refill, and retries take no token |
| rate_limiter.py:29: block until a token is available | `SleepersTakeTurns`: longer by as much as the wall clock was set back |
| price.py:14: fetched at most once per TTL | `ServedIsFresh` bounds the age, not the number of fetches: the lock is released before the fetch |

## 4. The proofs

Every invariant, action property and refinement of the passing runs is proved, for
every value of the constants, from the assumptions the modules state. The pattern
is the same everywhere: an inductive invariant `XInv`, lemmas `Init => XInv` and
`XInv /\ [Next]_vars => XInv'` with one lemma or step per action, and the property
from `XInv` (an action property from `XInv` and the step). What follows names, for
each invariant, the conjuncts beyond the types and the step that would break the
property without them.

### Assumptions and hypotheses

Assumptions on the constants are named in the module that declares them, and TLC
evaluates them in its runs. They say that bounds, fees, caps, windows and amounts
are natural numbers, that distinguished values are distinct and that what is summed
or counted is finite (wallets and hotkeys; persons in the books); and of the
configuration: prompts, owners and teams name hotkeys and persons that exist, a
payout is never nothing, the destination of the tournament is no wallet of the team.

One theorem needs a hypothesis besides, `FundsFallOnlyByPayment`: `TheTeamsOwn`, the
roster and the treasury are wallets of the team. Without it there is a distribution
to a stranger on the roster. The code takes it from the configuration: `distribute`
is "restricted to the team's own coldkeys" (signer/protocol.py:24), and the run
`signer` meets it. No theorem assumes anything of the number of handlers, of what
overlaps or of which connections fail.

### The daemon (`SignerProofs`)

Theorems `SignerTypeCorrect`, `SpendStaysWithinCap`, `OkIsMoved`,
`FailureLeftNothing`, `CleanUnstakeMissesNothing`,
`SweptWalletIsLeftItsReserve`, `BookingsStayWithinCap`, `FundsFallOnlyByPayment`.

- *Types* (`TypeInv`) are not inductive by themselves: a client's `Connect` rewrites
  the request of an unused connection, so what the job was computed from could
  change under it. `HeldLinesAreUsed`: a connection that is served or queued is not
  unused.
- *The cap* (`SpendInv`): `DownIsIdle` (a restart rereads the file, and no half-done
  payment survives it), `TotalsAreDated` (midnight only makes a total older),
  `PaymentFits` (between the check of the cap and the booking the payment still
  fits under the total of the day on which it is booked).
- *The verdicts* (`VerdictInv`) say what the job knows at each phase. The signer
  holds a request in one place and unanswered, and what waits has left nothing on
  the chain yet. While btcli runs, what is on the chain is the job's own amount; in
  the loop over the hotkeys (`UnstakeUnderWay`) whatever it put there is filed as
  done or unknown or is the hotkey at hand, and no hotkey is missed. Every answer is
  `Honest`. No late extrinsic can make an old answer untrue: that of a
  classified failure was dropped or never signed (`LeftNoTrace`).
  Lemmas on `ParseTransfer` and `ParseUnstake` give what each set of markers is read
  as, and what can have been done when it was printed.
- *The sweep* (`SweepInv`): until it lands, the wallet holds the reserve besides the
  amount, or another transfer of it has been settled and one of the two was left in
  doubt. A request answered with its outcome has nothing still to come on the chain,
  and one that is left with its transfer there stays in doubt; so as long as nothing
  is in doubt, the wallet of the sweep under way is its own.
- *The bookings* (`BookInv`): as long as no write of the total failed, the running
  total is the sum of its day's bookings, and the bookings of every other day fitted
  the cap.
- *The team's funds* (`FundsInv`): whatever is signed stays in the team or is a
  payment within the per-request cap; a landing takes its amount and the fee from one
  wallet of the sum and gives the amount to another.

### The driver (`PtyProofs`)

`PtyTypeCorrect`, `AnswersAlwaysFit`, `NeverStalled`, `DriverImplementsRun`. The
invariant is the conversation (`InTurn`): one question is on its way to the driver,
or read and not answered, or answered, and nothing later in the table was answered
before. `HeardRight` adds that the unlock value is typed once; `SignedUnlocked` and
`PrintedHonestly` say what each write still on the screen means on the chain,
whatever a read cuts it into. From the last two, each end of the driver is one that
`BtcliRun` allows; its steps are mapped to those of `BtcliRun` one by one, with the
verdict read off where the driver stands.

### Tracker and signer together (`SigningProofs`)

`SystemTypeCorrect`, `PendingIsShown`, `MoneyLeavesEvidence`, `OkRowIsWhatMoved`,
`FailureIsExplained`, `ClosedRowIsFinal`, `SystemImplementsLedger`. `SystemInv` is the
daemon's `VerdictInv` (every step of the tracker is, to the daemon, the move of a
client, so its lemmas are used again) with `TableInv`: the row follows its handler
(`RowsFollowHandlers`), the connection carries what the handler asked and no signed
request is without a row (`LinesFollowHandlers`), a row closed by an answer repeats
it (`RowsRepeatAnswers`), and a pending row is its coldkey's youngest and the only
one open (`IdsCount`). In the refinement each step is sorted by what it does to rows
and money (`Inserted`, `Closed`, `Interrupted`, a landing, nothing), and each kind is
a step of `ActionLedger` or a stutter. A landing on a row already closed as ok
would be none: `OkMeansMoved` excludes it.

### Snapshots (`SnapshotsProofs`)

`SnapshotsTypeCorrect`, `StatusTells`, `RowsAreWrittenOnce`, `WorkerImplementsTable`.
`RunsOwnOne`: each worker has a snapshot in progress that no other has.
`PassesAreAccounted`: in the first pass the hotkeys without a row are those still to
do and those that failed, in the second the failures counted are all that lack one;
without it the final count could call a snapshot ok that has a gap.

### Periods, Fund and pages (`BooksProofs`)

All seven theorems are for any number of handlers that interleave statement by
statement, any overlapping snapshots, deletions and restarts. What one step of one
handler does is first said once, with what it has computed and no more (`Moves`:
one operator per kind of step); every invariant is then shown to survive each kind,
a step of the worker and a restart.

- `BooksTypeCorrect` and `PagesTellTheSame` (`TypesInv`): a handler holds what is
  fit to be inserted (`Held`). That the pages agree is a fact about any database of
  that type, not about how it came to be.
- `BooksAreWhole` (`WholeInv`): on the connection a row is whole or has one writer
  that holds the rest of its lines (`RestOf`), unless it is `mixed`. Without it, a
  commit could find half a row nobody answers for. An id that is used again, because
  its row was deleted under its writer, is `mixed` already.
- `FundIsNotOverdrawn` (`FundInv`): each handler may take `MaxPayout`; what it has
  asked for and not taken is reserved, the rest is spare (`Slack`). The balance with
  what is spare never falls below one payout: a check that passes proves as much
  balance as it reserves.
- `NoSnapshotIsLost` (`ReachInv`): every finished snapshot up to a boundary that
  was drawn, or that a handler has read or is about to draw, is covered, was covered
  by a deleted settlement, or ended late.
- `ArchiveStaysFrozen` (`FrozenInv`): from the moment the lines are computed, the
  snapshots they cover are closed, so the amounts stay what the captures show.
- `EmissionStaysConserved` (`SpanInv` with the two before): a settlement covers what
  lies between the boundary its request read and its own, so periods closed in turn
  are disjoint. Each hotkey's emission is then added up along the snapshots: archive,
  open period and what is out of reach cover all of them, and do not overlap if the
  periods do not.

That no snapshot is settled twice is no theorem: `v_settled_twice` shows it false.

### Balances (`BalanceProofs`)

`BalanceTypeCorrect`, `CardsFollow`, `FiguresMean`, `RefusedWhileHeld`. A run
under way has left a row of its own time for each coldkey it has passed
(`RunIsSound`), rows are told apart by coldkey and time and each coldkey's youngest
is unique (`TableIsSound`); both hold while two runs share a time.

### Bucket, price, login, cents (`AloneProofs`)

- `RateIsKept`, `TurnsAreTaken` (`RateInv`): the state of the bucket is one figure,
  the debt, `last_refill - tokens`: the time at which the last token drawn is
  refilled. `DebtIsSlept`: who sleeps has drawn all of the debt but what later
  comers drew; `Spaced`: between two waking times lies a refill for each sleeper;
  `SentInTime`: every token sent, or slept for, since came a refill later, but for
  what a full bucket held. A clock set back moves debt and sleepers apart by as much
  (`SetBack`).
- `ServedStaysFresh` (`PriceInv`): a fetch under way is no older than a fetch may be
  (`FetchesAreShort`) and the quote is no older than its stamp and one fetch
  (`StampIsNear`), without which a late fetch would be served for a whole TTL more.
- `ReachedAreLoggedIn` (`LoginInv`): a cookie some key signed is of the browser's
  last login and ends a session after it.
- `AttemptsAreThrottled` (`ThrottleInv`): what is kept of an address is the end of
  all the times it was refused, what was dropped was too old when it was dropped
  (`EndOf`), and of any limit-and-one refusals in a row the last came after the first
  had left the window (`Spread`).
- `NoCentIsLost`, `SharesStayFair` (`SharesInv`): reward and Fund part of each line
  done add up to its rounding (`LinesSoFar`); the shares handed out add up to the
  running total, and the total is wrong by half a cent for each at most
  (`SharedOut`).

### Sums (`Sums`)

The sums of the models are `SumFunction` and `SumFunctionOnSet` of the community
modules, defined by a fold. `Sums` proves of them what money needs: a sum is an
integer, does not depend on the order, adds up over disjoint sets, changes by what a
term changes, can be taken part by part. The induction is
written out as a smallest counterexample among the subsets of a finite set
(`SmallestSet`).

### What stays with TLC

Liveness: `DriverEnds`, `PendingRowsResolve`, `SnapshotsAreClosed`, `RunnerIsFreed`
(fairness and `ENABLED` are out of the prover's reach). The refinements are proved
for the safety of the specifications: neither `ActionLedger`, `SnapshotTable` nor
`BtcliRun` claims fairness. What the six runs with a violation show is TLC's alone.


## 5. What the models leave out

*External, modelled from how the code uses it.* The chain: an extrinsic
may be submitted at any time after the prompts were answered, land or be dropped
later, also after btcli, the request or the signer ended. btcli: in `Signer`, what
it prints is any set of markers consistent with what it did, or truncated; in
`PtyDriver` it asks in the order of the prompt tables, a password again only after
refusing one, each question once per line it reads, and says a success only of what
landed and a bare refusal only of what never will. TaoStats and Gradients: a
value, nothing, or an exception. Password hashes and cookie signatures: right or
wrong.

*Abstractions.*
- In `Signer` the unlock value travels nowhere; whether it is right is btcli's
  choice. `PtyDriver` follows it to the question it is typed for.
- The terminal's echo of what the driver types, and the pacing of chain calls (a
  lock and a sleep in a process with one thread), are left out.
- The order of loops that run over a sorted list is left open where something
  depends on it, and fixed where nothing does.
- `kas_totals`' three SELECTs are read in one step. The paid flag is in no
  property: setting it is a write and a commit.
- What an unstake costs in fee and price is left out: what the chain fills becomes
  free balance of the coldkey one to one.
- In `Books` a period's emission (a sum of captures) and what it is worth (a price
  times it, split in reward and Fund part) are kept apart, and every arithmetic
  beyond that is `FundShares`'.
- Block numbers, notes, wording and logs are left out. A snapshot is taken at its
  id, a range of dates is a range of ids. In `BalanceRefresh` a figure is the
  wallet's own, zero, what TaoStats says, or NULL; the tournament deposit has no
  part in any property.
- In `Books` one registered row is worth one unit. In `FundShares` a person's share may be one cent below zero by rounding when the others'
  were rounded up; `SharesAreFair` bounds it.
- The table of persons is fixed: a restart moves hotkeys between people, nobody
  joins. That a person who left the configuration stays on the payroll
  (queries.py:449) is listed as a hazard no property covers: what the payroll is
  meant to be then, the repository does not say.
- A browser has an address of its own, so `Login` needs one; several browsers
  behind one address would share its failures.

*Not modelled.* Loading the configuration (its results are the CONSTANTS); the
parsing of HTTP answers; the endpoint that lists the recent signed actions; the
presets of date ranges and their parsing; names on cards and which card's date the
dashboard prints for the whole grid (routes_pages.py:197, a hazard no property
covers); formatting and HTML; the scripts under `src/scripts`.

## 6. Plan

What is left, in order:

1. Shorter proofs where two theorems share an argument: the landing of an extrinsic
   in `SweepInv`, `BookInv` and `FundsInv`.
2. The retries of the TaoStats client, which take no token, against the rate
   DEPLOY.md promises: what the rate is with them.
3. A btcli that outlives its terminal, for which the driver's last `waitpid` has no
   limit: what then still holds of the tracker's pending rows.
4. People who join, and the card dates, should the pages come to rely on them.
