--------------------------- MODULE BalanceProofs ---------------------------
(* Proofs about the refresh of the balances, for any coldkeys, any answers  *)
(* of the chain and of TaoStats, and any number of refreshes and restarts:  *)
(* what a card shows, what its figures mean, and when a click is refused.   *)
EXTENDS BalanceRefresh, FiniteSetTheorems, TLAPS

(* What the signer may have answered about the free balances.               *)
Free == {<<>>} \cup {balances(wallets, payload, listed) :
                        wallets \in Read, payload \in Read, listed \in SUBSET Coldkey}

Run == [pc : {"none", "thread", "loop", "fetched"}, fetched_at : 0 .. MaxClock,
        target : SUBSET Coldkey, todo : SUBSET Coldkey, free : Free, row : BalanceRow \cup {NoRow}]

(* The figures of one row mean what they say.                               *)
FigureIsTrue(r) ==
    /\ (r.free = "told") = (r.stake = "told")
    /\ r.free # "zero"
    /\ r.stake = "zero" /\ r.coldkey \in Staked => r.silence

(* A run t that is under way has its time, and has left a row of that time  *)
(* for each coldkey it has passed.                                          *)
RunIsSound(t, table, time) ==
    /\ t.todo \subseteq t.target
    /\ t.pc # "none" => time >= 1
    /\ t.pc \in {"loop", "fetched"} =>
           /\ t.fetched_at \in 1 .. time
           /\ \A ck \in t.target \ t.todo :
                  \E r \in table : r.coldkey = ck /\ r.fetched_at = t.fetched_at
    /\ IF t.pc = "fetched"
       THEN /\ t.row \in BalanceRow /\ t.row.coldkey \in t.todo
            /\ t.row.fetched_at = t.fetched_at /\ FigureIsTrue(t.row)
       ELSE t.row = NoRow

(* The row a card is made of is the youngest of its coldkey.                *)
IsCard(r, table) == \A other \in table : other.coldkey = r.coldkey => other.fetched_at <= r.fetched_at

(* Rows are told apart by coldkey and time, whoever has a row has a card,   *)
(* and the figures are true.                                                *)
TableIsSound(table) ==
    /\ \A r, s \in table : r.coldkey = s.coldkey /\ r.fetched_at = s.fetched_at => r = s
    /\ \A r \in table : \E card \in table : card.coldkey = r.coldkey /\ IsCard(card, table)
    /\ \A r \in table : FigureIsTrue(r)

BalanceInv == /\ clock \in 0 .. MaxClock /\ running \in BOOLEAN /\ restarts \in 0 .. MaxRestart
              /\ pass \in [RunKind -> Run]
              /\ rows \subseteq BalanceRow
              /\ \A k \in RunKind : RunIsSound(pass[k], rows, clock)
              /\ TableIsSound(rows)

---------------------------------------------------------------------------
(* What is read.                                                            *)

(* A free balance that the signer gave is the wallet's own.                 *)
LEMMA FreeIsOwn ==
    ASSUME NEW f \in Free, NEW ck \in DOMAIN f
    PROVE  ck \in OnHost /\ f[ck] = "own"
<1>1. DOMAIN <<>> = {}
  OBVIOUS
<1>2. PICK wallets \in Read, payload \in Read, listed \in SUBSET Coldkey :
          f = balances(wallets, payload, listed)
  BY <1>1 DEF Free
<1>3. f = [x \in OnHost \cap listed |-> "own"]
  BY <1>1, <1>2 DEF balances
<1> QED
  BY <1>3

(* A stake that is given as zero is none, or was read in silence.           *)
LEMMA StakeMeans ==
    ASSUME NEW ck \in OnHost, NEW wallets \in Read, NEW ends \in Ends
    PROVE  /\ stake_of(ck, wallets, ends) \in {"own", "zero", "null"}
           /\ stake_of(ck, wallets, ends) = "zero" /\ ck \in Staked => ReadInSilence(wallets, ends)
<1>1. ends[1] \in End /\ ends[2] \in End
  BY DEF Ends
<1>2. read_with_retry(ends, TRUE) = "empty" => ends[1] = "silent" \/ (ends[1] = "noise" /\ ends[2] = "silent")
  BY <1>1 DEF read_with_retry, run_btcli, End
<1> DEFINE stake == read_with_retry(ends, TRUE)
<1> HIDE DEF stake
<1>3. stake_of(ck, wallets, ends) =
          IF wallets # "payload" \/ ck \notin OnHost THEN "null"
          ELSE CASE stake = "empty"   -> "zero"
                 [] stake = "payload" -> IF ck \in Staked THEN "own" ELSE "zero"
                 [] OTHER             -> "null"
  BY DEF stake_of, stake
<1>4. stake = "empty" => ends[1] = "silent" \/ (ends[1] = "noise" /\ ends[2] = "silent")
  BY <1>2 DEF stake
<1> QED
  BY <1>3, <1>4 DEF ReadInSilence

---------------------------------------------------------------------------
(* The runs.                                                                *)

(* A row more, or time that passes, takes nothing from a run.               *)
LEMMA RunStaysSound ==
    ASSUME NEW t \in Run, NEW table, NEW more, table \subseteq more,
           NEW time \in Nat, NEW later \in Nat, time <= later, RunIsSound(t, table, time)
    PROVE  RunIsSound(t, more, later)
<1>1. t.fetched_at \in Nat
  BY BalanceAssumption DEF Run
<1>2. t.pc \in {"loop", "fetched"} =>
          /\ t.fetched_at \in 1 .. later
          /\ \A ck \in t.target \ t.todo : \E r \in more : r.coldkey = ck /\ r.fetched_at = t.fetched_at
  BY <1>1 DEF RunIsSound
<1> QED
  BY <1>2 DEF RunIsSound

(* One run of the two goes on to t; the other's business is untouched.      *)
LEMMA RunGoesOn ==
    ASSUME BalanceInv, NEW k \in RunKind, NEW t \in Run,
           pass' = [pass EXCEPT ![k] = t],
           rows \subseteq rows', rows' \subseteq BalanceRow, clock' \in 0 .. MaxClock, clock <= clock',
           running' \in BOOLEAN, UNCHANGED restarts,
           RunIsSound(t, rows', clock'), TableIsSound(rows')
    PROVE  BalanceInv'
<1>1. pass \in [RunKind -> Run] /\ clock \in Nat /\ clock' \in Nat
  BY BalanceAssumption DEF BalanceInv
<1>2. pass'[k] = t /\ \A other \in RunKind \ {k} : pass'[other] = pass[other]
  BY <1>1
<1>3. pass' \in [RunKind -> Run]
  BY <1>1
<1>4. ASSUME NEW other \in RunKind PROVE RunIsSound(pass'[other], rows', clock')
  <2>1. CASE other = k
    BY <1>2, <2>1
  <2>2. CASE other # k
    <3>1. pass[other] \in Run /\ RunIsSound(pass[other], rows, clock)
      BY <1>1 DEF BalanceInv
    <3>2. RunIsSound(pass[other], rows', clock')
      BY <1>1, <3>1, RunStaysSound
    <3> QED
      BY <1>2, <2>2, <3>2
  <2> QED
    BY <2>1, <2>2
<1> QED
  BY <1>3, <1>4 DEF BalanceInv

(* No run.                                                                  *)
LEMMA NoRunType ==
    /\ NoRun \in Run /\ NoRun.pc = "none"
    /\ \A table, time : RunIsSound(NoRun, table, time)
<1>1. NoRun \in Run /\ NoRun.pc = "none"
  BY BalanceAssumption DEF NoRun, Run, Free
<1>2. NoRun.todo = {} /\ NoRun.row = NoRow
  BY DEF NoRun
<1> QED
  BY <1>1, <1>2 DEF RunIsSound

(* A run that has just been started.                                        *)
LEMMA StartedType ==
    ASSUME NEW target \in SUBSET Coldkey
    PROVE  LET t == [NoRun EXCEPT !.pc = "thread", !.target = target]
           IN  /\ t \in Run /\ t.pc = "thread"
               /\ \A table, time : time >= 1 => RunIsSound(t, table, time)
<1> DEFINE t == [NoRun EXCEPT !.pc = "thread", !.target = target]
<1>1. t \in Run
  BY NoRunType DEF Run
<1>2. t.pc = "thread" /\ t.todo = {} /\ t.row = NoRow
  BY DEF NoRun
<1> HIDE DEF t
<1>3. \A table, time : time >= 1 => RunIsSound(t, table, time)
  BY <1>2 DEF RunIsSound
<1> QED
  BY <1>1, <1>2, <1>3 DEF t

(* Nothing runs, nothing is known.                                          *)
LEMMA InitBalances == BalanceInit => BalanceInv
<1> SUFFICES ASSUME BalanceInit PROVE BalanceInv
  OBVIOUS
<1>1. TableIsSound(rows)
  BY DEF BalanceInit, TableIsSound
<1>2. pass \in [RunKind -> Run] /\ \A k \in RunKind : RunIsSound(pass[k], rows, clock)
  BY NoRunType DEF BalanceInit
<1>3. clock \in 0 .. MaxClock /\ running \in BOOLEAN /\ restarts \in 0 .. MaxRestart /\ rows \subseteq BalanceRow
  <2>1. clock = 0 /\ running = FALSE /\ restarts = 0 /\ rows = {}
    BY DEF BalanceInit
  <2>2. 0 \in 0 .. MaxClock /\ 0 \in 0 .. MaxRestart
    BY BalanceAssumption
  <2> QED
    BY <2>1, <2>2
<1> QED
  BY <1>1, <1>2, <1>3 DEF BalanceInv

(* A button, the startup, the nightly job.                                  *)
LEMMA StartKeeps ==
    ASSUME BalanceInv, (\E target \in SUBSET Coldkey \ {{}} : StartManual(target)) \/ StartNightly
    PROVE  BalanceInv'
<1>1. PICK k \in RunKind, target \in SUBSET Coldkey :
          /\ pass' = [pass EXCEPT ![k] = [NoRun EXCEPT !.pc = "thread", !.target = target]]
          /\ clock < MaxClock /\ clock' = clock + 1 /\ UNCHANGED <<rows, restarts>>
          /\ running' \in BOOLEAN
  <2>1. CASE StartNightly
    BY <2>1 DEF StartNightly, RunKind, BalanceInv
  <2>2. CASE \E target \in SUBSET Coldkey \ {{}} : StartManual(target)
    BY <2>2 DEF StartManual, RunKind
  <2> QED
    BY <2>1, <2>2
<1> DEFINE t == [NoRun EXCEPT !.pc = "thread", !.target = target]
<1>2. t \in Run /\ \A table, time : time >= 1 => RunIsSound(t, table, time)
  BY StartedType
<1>3. clock' \in 0 .. MaxClock /\ clock' >= 1 /\ clock <= clock'
  BY <1>1, BalanceAssumption DEF BalanceInv
<1> HIDE DEF t
<1>4. pass' = [pass EXCEPT ![k] = t]
  BY <1>1 DEF t
<1> QED
  BY <1>1, <1>2, <1>3, <1>4, RunGoesOn DEF BalanceInv

(* fetched_at is the time of the begin.                                     *)
LEMMA BeginKeeps ==
    ASSUME BalanceInv, NEW k \in RunKind, Begin(k)
    PROVE  BalanceInv'
<1>1. pass[k] \in Run /\ pass \in [RunKind -> Run] /\ RunIsSound(pass[k], rows, clock) /\ pass[k].pc = "thread"
  BY DEF BalanceInv, Begin
<1>2. PICK wallets \in Read, payload \in Read, listed \in SUBSET Coldkey :
          pass' = [pass EXCEPT ![k].pc = "loop", ![k].fetched_at = clock, ![k].todo = pass[k].target,
                             ![k].free = balances(wallets, payload, listed)]
  BY DEF Begin
<1> DEFINE f == balances(wallets, payload, listed)
           t == [pass[k] EXCEPT !.pc = "loop", !.fetched_at = clock, !.todo = pass[k].target, !.free = f]
<1>3. f \in Free
  BY DEF Free
<1> HIDE DEF f
<1>4. clock \in 0 .. MaxClock /\ clock >= 1 /\ pass[k].target \in SUBSET Coldkey
  BY <1>1 DEF BalanceInv, RunIsSound, Run
<1>5. t \in Run
  BY <1>1, <1>3, <1>4 DEF Run
<1>6. /\ t.pc = "loop" /\ t.fetched_at = clock /\ t.todo = t.target /\ t.row = pass[k].row
  BY <1>1 DEF Run
<1>7. pass' = [pass EXCEPT ![k] = t]
  BY <1>1, <1>2 DEF f
<1> HIDE DEF t
<1>8. RunIsSound(t, rows, clock)
  BY <1>1, <1>4, <1>6, BalanceAssumption DEF RunIsSound
<1>9. UNCHANGED <<clock, running, rows, restarts>>
  BY DEF Begin
<1> QED
  BY <1>5, <1>7, <1>8, <1>9, RunGoesOn, BalanceAssumption DEF BalanceInv

(* A row is fetched with true figures, dated as its run.                    *)
LEMMA FetchKeeps ==
    ASSUME BalanceInv, NEW k \in RunKind, NEW ck \in Coldkey,
           FetchFromChain(k, ck) \/ FetchFromTaoStats(k, ck)
    PROVE  BalanceInv'
<1>1. pass[k] \in Run /\ pass \in [RunKind -> Run] /\ RunIsSound(pass[k], rows, clock)
  BY DEF BalanceInv
<1>2. PICK free \in Figure, stake \in Figure, silence \in BOOLEAN :
          /\ GotRow(k, ck, free, stake, silence)
          /\ (free = "told") = (stake = "told")
          /\ free # "zero"
          /\ stake = "zero" /\ ck \in Staked => silence
  <2>1. CASE FetchFromTaoStats(k, ck)
    BY <2>1 DEF FetchFromTaoStats, Figure
  <2>2. CASE FetchFromChain(k, ck)
    <3>1. ck \in OnHost /\ pass[k].free[ck] = "own"
      <4>1. pass[k].free \in Free /\ ck \in DOMAIN pass[k].free
        BY <1>1, <2>2 DEF FetchFromChain, Run
      <4> QED
        BY <4>1, FreeIsOwn
    <3>2. CASE GotRow(k, ck, pass[k].free[ck], "null", FALSE)
      BY <3>1, <3>2 DEF Figure
    <3>3. ASSUME NEW wallets \in Read, NEW ends \in Ends,
                 GotRow(k, ck, pass[k].free[ck], stake_of(ck, wallets, ends),
                        ReadInSilence(wallets, ends))
          PROVE  \E free \in Figure, stake \in Figure, silence \in BOOLEAN :
                    /\ GotRow(k, ck, free, stake, silence)
                    /\ (free = "told") = (stake = "told")
                    /\ free # "zero"
                    /\ stake = "zero" /\ ck \in Staked => silence
      <4>1. PICK stake \in {"own", "zero", "null"} : stake = stake_of(ck, wallets, ends)
        BY <3>1, StakeMeans
      <4>2. PICK silence \in BOOLEAN : silence = ReadInSilence(wallets, ends)
        BY DEF ReadInSilence
      <4>3. stake = "zero" /\ ck \in Staked => silence
        BY <3>1, <4>1, <4>2, StakeMeans
      <4>4. GotRow(k, ck, "own", stake, silence)
        BY <3>1, <3>3, <4>1, <4>2
      <4> QED
        BY <4>3, <4>4 DEF Figure
    <3> QED
      BY <2>2, <3>2, <3>3 DEF FetchFromChain
  <2> QED
    BY <2>1, <2>2
<1> DEFINE row == [coldkey |-> ck, fetched_at |-> pass[k].fetched_at, free |-> free, stake |-> stake,
                   silence |-> silence]
           t   == [pass[k] EXCEPT !.pc = "fetched", !.row = row]
<1>3. /\ pass[k].pc = "loop" /\ ck \in pass[k].todo
      /\ pass' = [pass EXCEPT ![k].pc = "fetched", ![k].row = row]
      /\ UNCHANGED <<clock, running, rows, restarts>>
  BY <1>2 DEF GotRow
<1>4. pass[k].fetched_at \in 1 .. MaxClock
  BY <1>1, <1>3, BalanceAssumption DEF RunIsSound, BalanceInv
<1>5. row \in BalanceRow /\ row.coldkey = ck /\ row.fetched_at = pass[k].fetched_at /\ FigureIsTrue(row)
  BY <1>2, <1>4 DEF BalanceRow, FigureIsTrue
<1> HIDE DEF row
<1>6. t \in Run
  BY <1>1, <1>5 DEF Run
<1>7. /\ t.pc = "fetched" /\ t.row = row /\ t.fetched_at = pass[k].fetched_at /\ t.todo = pass[k].todo
      /\ t.target = pass[k].target
  BY <1>1 DEF Run
<1>8. pass' = [pass EXCEPT ![k] = t]
  BY <1>1, <1>3
<1> HIDE DEF t
<1>9. RunIsSound(t, rows, clock)
  BY <1>1, <1>3, <1>5, <1>7 DEF RunIsSound
<1> QED
  BY <1>3, <1>6, <1>8, <1>9, RunGoesOn, BalanceAssumption DEF BalanceInv

(* A row more, which no other is dated like: a table stays sound.           *)
LEMMA RowIsAdded ==
    ASSUME NEW table \in SUBSET BalanceRow, TableIsSound(table), NEW row \in BalanceRow, FigureIsTrue(row),
           \A r \in table : ~ (r.coldkey = row.coldkey /\ r.fetched_at = row.fetched_at)
    PROVE  TableIsSound(table \cup {row})
<1> DEFINE more == table \cup {row}
<1>1. \A r \in more : r.fetched_at \in Nat
  BY BalanceAssumption DEF BalanceRow
<1>2. \A r, s \in more : r.coldkey = s.coldkey /\ r.fetched_at = s.fetched_at => r = s
  BY DEF TableIsSound
<1>3. ASSUME NEW r \in more
      PROVE  \E card \in more : card.coldkey = r.coldkey /\ IsCard(card, more)
  <2>1. CASE \E s \in table : s.coldkey = r.coldkey
    <3>1. PICK card \in table : card.coldkey = r.coldkey /\ IsCard(card, table)
      BY <2>1 DEF TableIsSound
    <3>2. CASE row.coldkey = card.coldkey /\ row.fetched_at > card.fetched_at
      <4>1. IsCard(row, more)
        BY <1>1, <3>1, <3>2 DEF IsCard
      <4> QED
        BY <3>1, <3>2, <4>1
    <3>3. CASE ~ (row.coldkey = card.coldkey /\ row.fetched_at > card.fetched_at)
      <4>1. IsCard(card, more)
        BY <1>1, <3>1, <3>3 DEF IsCard
      <4> QED
        BY <3>1, <4>1
    <3> QED
      BY <3>2, <3>3
  <2>2. CASE ~ \E s \in table : s.coldkey = r.coldkey
    <3>1. r = row /\ IsCard(row, more)
      BY <1>1, <2>2 DEF IsCard
    <3> QED
      BY <3>1
  <2> QED
    BY <2>1, <2>2
<1>4. \A r \in more : FigureIsTrue(r)
  BY DEF TableIsSound
<1> QED
  BY <1>2, <1>3, <1>4 DEF TableIsSound

(* The insert leaves a row of the run's time, its own or one that is there. *)
LEMMA InsertKeeps ==
    ASSUME BalanceInv, NEW k \in RunKind, InsertRow(k)
    PROVE  BalanceInv'
<1> DEFINE row == pass[k].row
           t   == [pass[k] EXCEPT !.pc = "loop", !.row = NoRow, !.todo = pass[k].todo \ {row.coldkey}]
<1>1. /\ pass[k] \in Run /\ pass \in [RunKind -> Run] /\ RunIsSound(pass[k], rows, clock)
      /\ pass[k].pc = "fetched" /\ rows \subseteq BalanceRow /\ TableIsSound(rows)
      /\ UNCHANGED <<clock, running, restarts>>
      /\ rows' = IF Kept(row) THEN rows ELSE rows \cup {row}
  BY DEF BalanceInv, InsertRow
<1>2. pass' = [pass EXCEPT ![k] = t]
  BY <1>1 DEF InsertRow
<1>3. row \in BalanceRow /\ row.coldkey \in pass[k].todo /\ row.fetched_at = pass[k].fetched_at /\ FigureIsTrue(row)
  BY <1>1 DEF RunIsSound
<1>4. TableIsSound(rows') /\ rows' \subseteq BalanceRow /\ rows \subseteq rows'
  BY <1>1, <1>3, RowIsAdded DEF Kept
<1>5. \E r \in rows' : r.coldkey = row.coldkey /\ r.fetched_at = pass[k].fetched_at
  BY <1>1, <1>3 DEF Kept
<1>6. t \in Run
  BY <1>1 DEF Run
<1>7. /\ t.pc = "loop" /\ t.row = NoRow /\ t.fetched_at = pass[k].fetched_at
      /\ t.todo = pass[k].todo \ {row.coldkey} /\ t.target = pass[k].target
  BY <1>1 DEF Run
<1> HIDE DEF t
<1>8. RunIsSound(t, rows', clock)
  BY <1>1, <1>4, <1>5, <1>7 DEF RunIsSound
<1>9. /\ clock' \in 0 .. MaxClock /\ clock <= clock' /\ running' \in BOOLEAN
      /\ RunIsSound(t, rows', clock')
  BY <1>1, <1>8, BalanceAssumption DEF BalanceInv
<1> HIDE DEF row
<1> QED
  BY <1>1, <1>2, <1>4, <1>6, <1>9, RunGoesOn

(* A run that ends, raises or gets no connection is none.                   *)
LEMMA EndKeeps ==
    ASSUME BalanceInv, NEW k \in RunKind, EndRun(k) \/ RunRaises(k) \/ NoConnection(k)
    PROVE  BalanceInv'
<1>1. /\ pass' = [pass EXCEPT ![k] = NoRun] /\ UNCHANGED <<clock, rows, restarts>>
      /\ running' \in BOOLEAN
  BY DEF EndRun, RunRaises, NoConnection, Cleared, BalanceInv
<1> QED
  BY <1>1, NoRunType, RunGoesOn, BalanceAssumption DEF BalanceInv

(* Every step keeps the cards and the runs sound.                           *)
LEMMA NextBalances == BalanceInv /\ [BalanceNext]_balanceVars => BalanceInv'
<1> SUFFICES ASSUME BalanceInv, [BalanceNext]_balanceVars PROVE BalanceInv'
  OBVIOUS
<1>1. CASE (\E target \in SUBSET Coldkey \ {{}} : StartManual(target)) \/ StartNightly
  BY <1>1, StartKeeps
<1>2. ASSUME NEW k \in RunKind, RunStep(k) \/ NoConnection(k) \/ RunRaises(k) PROVE BalanceInv'
  BY <1>2, BeginKeeps, InsertKeeps, EndKeeps, FetchKeeps DEF RunStep
<1>3. CASE TrackerRestarts
  <2>1. pass' \in [RunKind -> Run] /\ \A k \in RunKind : RunIsSound(pass'[k], rows', clock')
    BY <1>3, NoRunType DEF TrackerRestarts
  <2>2. restarts' \in 0 .. MaxRestart
    BY <1>3, BalanceAssumption DEF TrackerRestarts, BalanceInv
  <2>3. running' \in BOOLEAN /\ clock' \in 0 .. MaxClock
    BY <1>3 DEF TrackerRestarts, BalanceInv
  <2>4. rows' \subseteq BalanceRow /\ TableIsSound(rows')
    BY <1>3 DEF TrackerRestarts, BalanceInv
  <2> QED
    BY <2>1, <2>2, <2>3, <2>4 DEF BalanceInv
<1>4. CASE UNCHANGED balanceVars
  BY <1>4 DEF balanceVars, BalanceInv
<1> QED
  BY <1>1, <1>2, <1>3, <1>4 DEF BalanceNext

---------------------------------------------------------------------------
(* The results.                                                             *)

(* Whether the flag leaked is known at every step.                          *)
LEMMA NextLeaked == leaked \in BOOLEAN /\ [BalanceNext]_balanceVars => leaked' \in BOOLEAN
<1> SUFFICES ASSUME leaked \in BOOLEAN, [BalanceNext]_balanceVars PROVE leaked' \in BOOLEAN
  OBVIOUS
<1>1. ASSUME NEW target \in SUBSET Coldkey \ {{}}, StartManual(target) PROVE leaked' \in BOOLEAN
  BY <1>1 DEF StartManual
<1>2. ASSUME NEW k \in RunKind, RunStep(k) \/ RunRaises(k) PROVE leaked' \in BOOLEAN
  <2>1. CASE Begin(k) \/ InsertRow(k) \/ EndRun(k) \/ RunRaises(k)
    BY <2>1 DEF Begin, InsertRow, EndRun, RunRaises
  <2>2. ASSUME NEW ck \in Coldkey, FetchFromChain(k, ck) \/ FetchFromTaoStats(k, ck)
        PROVE  leaked' \in BOOLEAN
    BY <2>2 DEF FetchFromChain, FetchFromTaoStats, GotRow
  <2> QED
    BY <1>2, <2>1, <2>2 DEF RunStep
<1>3. ASSUME NEW k \in RunKind, NoConnection(k) PROVE leaked' \in BOOLEAN
  BY <1>3 DEF NoConnection
<1>4. CASE StartNightly \/ TrackerRestarts \/ UNCHANGED balanceVars
  BY <1>4 DEF StartNightly, TrackerRestarts, balanceVars
<1> QED
  BY <1>1, <1>2, <1>3, <1>4 DEF BalanceNext

(* The table, the flag and both runs keep their types.                      *)
THEOREM BalanceTypeCorrect == BalanceSpec => []BalanceTypeOK
<1> DEFINE Inv == BalanceInv /\ leaked \in BOOLEAN
<1>1. Inv => BalanceTypeOK
  <2> SUFFICES ASSUME Inv, NEW k \in RunKind
               PROVE  /\ pass[k].pc \in {"none", "thread", "loop", "fetched"}
                      /\ pass[k].fetched_at \in 0 .. MaxClock
                      /\ pass[k].target \in SUBSET Coldkey
                      /\ pass[k].todo \in SUBSET pass[k].target
                      /\ DOMAIN pass[k].free \subseteq OnHost
                      /\ pass[k].row \in IF pass[k].pc = "fetched" THEN BalanceRow ELSE {NoRow}
    BY DEF BalanceInv, BalanceTypeOK
  <2>1. pass[k] \in Run /\ RunIsSound(pass[k], rows, clock)
    BY DEF BalanceInv
  <2>2. DOMAIN pass[k].free \subseteq OnHost
    BY <2>1, FreeIsOwn DEF Run
  <2> QED
    BY <2>1, <2>2 DEF Run, RunIsSound
<1>2. BalanceInit => Inv
  BY InitBalances DEF BalanceInit
<1>3. Inv /\ [BalanceNext]_balanceVars => Inv'
  BY NextBalances, NextLeaked
<1> QED
  BY <1>1, <1>2, <1>3, PTL DEF BalanceSpec

(* Every coldkey a run has passed has its card, one, of that run or of a    *)
(* younger one.                                                             *)
THEOREM CardsFollow == BalanceSpec => []CardsFollowTheRuns
<1>1. BalanceInv => CardsFollowTheRuns
  <2> SUFFICES ASSUME BalanceInv PROVE CardsFollowTheRuns
    OBVIOUS
  <2>1. ASSUME NEW ck \in Coldkey PROVE Cardinality(coldkey_cards(ck)) <= 1
    <3>1. \A r, s \in coldkey_cards(ck) : r = s
      <4>1. \A r, s \in coldkey_cards(ck) :
                /\ r \in rows /\ s \in rows /\ r.coldkey = s.coldkey
                /\ r.fetched_at <= s.fetched_at /\ s.fetched_at <= r.fetched_at
        BY DEF coldkey_cards
      <4>2. \A r \in rows : r.fetched_at \in Nat
        BY BalanceAssumption DEF BalanceInv, BalanceRow
      <4>3. \A r, s \in coldkey_cards(ck) : r.fetched_at = s.fetched_at
        BY <4>1, <4>2
      <4> QED
        BY <4>1, <4>3 DEF BalanceInv, TableIsSound
    <3>2. CASE coldkey_cards(ck) = {}
      BY <3>2, FS_EmptySet
    <3>3. CASE coldkey_cards(ck) # {}
      <4>1. PICK card \in coldkey_cards(ck) : coldkey_cards(ck) = {card}
        BY <3>1, <3>3
      <4>2. Cardinality({card}) = 1
        BY FS_Singleton
      <4> QED
        BY <4>1, <4>2
    <3> QED
      BY <3>2, <3>3
  <2>2. ASSUME NEW k \in RunKind, pass[k].pc \in {"loop", "fetched"},
               NEW ck \in pass[k].target \ pass[k].todo
        PROVE  \E card \in coldkey_cards(ck) : card.fetched_at >= pass[k].fetched_at
    <3>1. PICK r \in rows : r.coldkey = ck /\ r.fetched_at = pass[k].fetched_at
      BY <2>2 DEF BalanceInv, RunIsSound
    <3>2. PICK card \in rows : card.coldkey = ck /\ IsCard(card, rows)
      BY <3>1 DEF BalanceInv, TableIsSound
    <3>3. card \in coldkey_cards(ck)
      BY <3>2 DEF coldkey_cards, IsCard
    <3>4. r.fetched_at <= card.fetched_at /\ r.fetched_at \in Nat /\ card.fetched_at \in Nat
      BY <3>1, <3>2, BalanceAssumption DEF IsCard, BalanceInv, BalanceRow
    <3> QED
      BY <3>1, <3>3, <3>4
  <2> QED
    BY <2>1, <2>2 DEF CardsFollowTheRuns
<1> QED
  BY <1>1, InitBalances, NextBalances, PTL DEF BalanceSpec

(* No figure is anybody's invention; the one false zero is btcli's silence. *)
THEOREM FiguresMean == BalanceSpec => []FiguresAreTrue
<1>1. BalanceInv => FiguresAreTrue
  BY DEF BalanceInv, TableIsSound, FigureIsTrue, FiguresAreTrue
<1> QED
  BY <1>1, InitBalances, NextBalances, PTL DEF BalanceSpec

(* The flag is held by a run or by a leak, and once it has leaked no run of *)
(* the runner follows.                                                      *)
HeldOnce == RefusedInFlightOrLeaked /\ (leaked => ~Live("manual"))

(* A click is refused while a run of the runner is in flight, and for good  *)
(* once the runner's thread got no connection, and at no other time:        *)
(* whichever connections fail, and whatever the nightly job does.           *)
THEOREM RefusedWhileHeld == BalanceSpec => []RefusedInFlightOrLeaked
<1> DEFINE Inv == BalanceInv /\ HeldOnce
<1>1. BalanceInit => Inv
  BY InitBalances DEF HeldOnce, BalanceInit, RefusedInFlightOrLeaked, Live, NoRun, RunKind
<1>2. Inv /\ [BalanceNext]_balanceVars => Inv'
  <2> SUFFICES ASSUME Inv, [BalanceNext]_balanceVars PROVE HeldOnce'
    BY NextBalances
  <2>1. pass \in [RunKind -> Run] /\ "manual" \in RunKind /\ "nightly" \in RunKind /\ running \in BOOLEAN
    BY DEF BalanceInv, RunKind
  <2>2. NoRun.pc = "none"
    BY DEF NoRun
  <2>3. ASSUME NEW target \in SUBSET Coldkey \ {{}}, StartManual(target) PROVE HeldOnce'
    BY <2>1, <2>2, <2>3, StartedType DEF HeldOnce, StartManual, RefusedInFlightOrLeaked, Live
  <2>4. CASE StartNightly
    BY <2>1, <2>4 DEF HeldOnce, StartNightly, RefusedInFlightOrLeaked, Live
  <2>5. ASSUME NEW k \in RunKind, NoConnection(k) PROVE HeldOnce'
    <3>1. pass[k].pc = "thread" /\ pass' = [pass EXCEPT ![k] = NoRun]
          /\ leaked' = (leaked \/ k = "manual") /\ running' = running
      BY <2>5 DEF NoConnection
    <3>2. CASE k = "manual"
      <4>1. running = TRUE
        BY <2>1, <3>1, <3>2 DEF HeldOnce, RefusedInFlightOrLeaked, Live
      <4>2. running' = TRUE /\ leaked' = TRUE /\ pass'["manual"].pc = "none"
        BY <2>1, <2>2, <3>1, <3>2, <4>1
      <4> QED
        BY <4>2 DEF HeldOnce, RefusedInFlightOrLeaked, Live
    <3>3. CASE k # "manual"
      <4>1. pass'["manual"] = pass["manual"] /\ (leaked' <=> leaked)
        BY <2>1, <3>1, <3>3
      <4> QED
        BY <3>1, <4>1 DEF HeldOnce, RefusedInFlightOrLeaked, Live
    <3> QED
      BY <3>2, <3>3
  <2>6. ASSUME NEW k \in RunKind, EndRun(k) \/ RunRaises(k) PROVE HeldOnce'
    <3>1. /\ pass[k].pc # "none" /\ pass' = [pass EXCEPT ![k] = NoRun] /\ leaked' = leaked
          /\ running' = IF k = "manual" THEN FALSE ELSE running
      BY <2>6 DEF EndRun, RunRaises, Cleared
    <3>2. CASE k = "manual"
      <4>1. ~leaked
        BY <3>1, <3>2 DEF HeldOnce, Live
      <4>2. running' = FALSE /\ leaked' = leaked /\ pass'["manual"].pc = "none"
        BY <2>1, <2>2, <3>1, <3>2
      <4> QED
        BY <4>1, <4>2 DEF HeldOnce, RefusedInFlightOrLeaked, Live
    <3>3. CASE k # "manual"
      <4>1. pass'["manual"] = pass["manual"] /\ running' = running
        BY <2>1, <3>1, <3>3
      <4>2. running' <=> running
        BY <4>1
      <4>3. leaked' <=> leaked
        BY <3>1
      <4>4. Live("manual")' <=> Live("manual")
        BY <4>1 DEF Live
      <4> QED
        BY <4>2, <4>3, <4>4 DEF HeldOnce, RefusedInFlightOrLeaked
    <3> QED
      BY <3>2, <3>3
  <2>7. ASSUME NEW k \in RunKind, Begin(k) PROVE HeldOnce'
    BY <2>1, <2>7 DEF HeldOnce, Begin, RefusedInFlightOrLeaked, Live, Run
  <2>8. ASSUME NEW k \in RunKind, InsertRow(k) PROVE HeldOnce'
    BY <2>1, <2>8 DEF HeldOnce, InsertRow, RefusedInFlightOrLeaked, Live, Run
  <2>9. ASSUME NEW k \in RunKind, NEW ck \in Coldkey, FetchFromChain(k, ck) \/ FetchFromTaoStats(k, ck)
        PROVE  HeldOnce'
    <3>1. PICK free, stake, silence : GotRow(k, ck, free, stake, silence)
      BY <2>9 DEF FetchFromChain, FetchFromTaoStats
    <3> QED
      BY <2>1, <3>1 DEF HeldOnce, GotRow, RefusedInFlightOrLeaked, Live, Run
  <2>10. CASE TrackerRestarts
    BY <2>2, <2>10 DEF HeldOnce, TrackerRestarts, RefusedInFlightOrLeaked, Live, RunKind
  <2>11. CASE UNCHANGED balanceVars
    BY <2>11 DEF HeldOnce, balanceVars, RefusedInFlightOrLeaked, Live
  <2> QED
    BY <2>3, <2>4, <2>5, <2>6, <2>7, <2>8, <2>9, <2>10, <2>11 DEF BalanceNext, RunStep
<1>3. Inv => RefusedInFlightOrLeaked
  BY DEF HeldOnce
<1> QED
  BY <1>1, <1>2, <1>3, PTL DEF BalanceSpec
=============================================================================
