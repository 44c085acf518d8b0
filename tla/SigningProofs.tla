----------------------------- MODULE SigningProofs -----------------------------
(***************************************************************************)
(* Proofs about the tracker and the signer together: what a row of the      *)
(* signed_actions table says against what its request did, and that the two *)
(* implement the abstract ledger; for every number of actions, wallets and  *)
(* crashes.                                                                 *)
(***************************************************************************)
EXTENDS SigningSystem, SignerProofs

Recorded == {a \in Conn : rows[a].status # "absent"}

(* The row of an action is written between its insert and its send, and       *)
(* carries what the handler asked for.                                        *)
RowsFollowHandlers ==
    \A a \in Conn :
        /\ rows[a].status = "absent" => rows[a] = NoRow
        /\ rows[a].status # "absent" => /\ rows[a].op = ask[a].request.op
                                        /\ rows[a].op \in SigningOps
                                        /\ rows[a].coldkey = ask[a].request.coldkey
                                        /\ rows[a].coldkey \in Address
        /\ pc[a] \in {"idle", "insert"} => rows[a].status = "absent"
        /\ pc[a] = "insert" => /\ ask[a].request.op \in SigningOps
                               /\ ask[a].request.coldkey \in Address
        /\ pc[a] = "send" /\ ask[a].request.op \in SigningOps => rows[a].status = "pending"
        /\ rows[a].status = "pending" => pc[a] \in {"send", "wait", "lost"}
        /\ rows[a].status \in {"ok", "failed"} => pc[a] \in {"done", "lost"}

(* A connection carries what its handler asked for, once the handler sends,   *)
(* and no signed request without a row.                                       *)
LinesFollowHandlers ==
    \A a \in Conn :
        /\ pc[a] \in {"idle", "insert", "send"} => line[a] = "unused"
        /\ request[a] = IF line[a] \in {"unused", "refused"} THEN NoRequest ELSE ask[a].request
        /\ request[a].op \in SigningOps => rows[a].status # "absent"

(* A row closed by an answer repeats it. *)
RowsRepeatAnswers ==
    \A a \in Conn :
        /\ rows[a].status = "ok" => /\ line[a] = "answered" /\ result[a].ok
                                    /\ rows[a].amount = result[a].amount
        /\ rows[a].status = "failed" /\ rows[a].error \notin {"unreachable", "interrupted"} =>
               /\ line[a] = "answered" /\ ~result[a].ok
               /\ rows[a].unknown = result[a].unknown /\ rows[a].error = result[a].error

(* A dead tracker runs no handler. *)
DownHasNoHandlers == ~trackerUp => \A a \in Conn : pc[a] \in {"idle", "done", "lost"}

(* Ids count the rows, and a pending row is its coldkey's youngest. *)
IdsCount ==
    /\ IsFiniteSet(Recorded)
    /\ \A a \in Conn : rows[a].id <= Cardinality(Recorded)
    /\ \A a, b \in Conn : rows[a].status = "pending" /\ rows[b].coldkey = rows[a].coldkey =>
           rows[b].id <= rows[a].id /\ (b # a => rows[b].status # "pending")

TableInv  == /\ RowsFollowHandlers /\ LinesFollowHandlers /\ RowsRepeatAnswers
             /\ DownHasNoHandlers /\ IdsCount
SystemInv == TypeOK /\ VerdictInv /\ TableInv

-----------------------------------------------------------------------------
(* The signer's half: whatever the tracker does is, to the daemon, the move   *)
(* of a client.                                                               *)

HandlerMove(a) == RecordAction(a) \/ ReceiveAnswer(a) \/ SignerUnavailable(a)

(* A step of the system is a step of the tracker, with or without the signer. *)
LEMMA StepIsKnown ==
    ASSUME TableTypeOK, [Next]_vars
    PROVE  [SignerNext]_signerVars \/ ClientMove
<1>1. CASE (SignerStep \/ ChainStep \/ HostStep) /\ UNCHANGED tableVars
  BY <1>1 DEF SignerNext
<1>2. CASE UNCHANGED vars
  BY <1>2 DEF vars
<1>3. CASE TrackerStep /\ UNCHANGED <<job, bookVars, chainVars, hostVars>>
  <2>1. ASSUME NEW a \in Conn, Click(a) PROVE UNCHANGED socketVars
    BY <2>1 DEF Click, PayTournament, UnstakeAll, SweepToTreasury, DistributeFromTreasury, ReadChain,
                StartAction
  <2>2. ASSUME NEW a \in Conn, HandlerMove(a) PROVE UNCHANGED socketVars
    BY <2>2 DEF HandlerMove, RecordAction, ReceiveAnswer, SignerUnavailable
  <2>3. ASSUME NEW a \in Conn, Send(a) \/ TimeOut(a) PROVE ClientEnd(a)
    <3>1. ask[a].request \in SignRequest
      BY DEF TableTypeOK
    <3> QED
      BY <2>3, <3>1 DEF Send, TimeOut, ClientEnd
  <2>4. ASSUME TrackerStart PROVE UNCHANGED socketVars
    BY <2>4 DEF TrackerStart
  <2>5. ASSUME TrackerCrash PROVE ClientsVanish
    BY <2>5 DEF TrackerCrash
  <2>6. UNCHANGED socketVars \/ (\E a \in Conn : ClientEnd(a)) \/ ClientsVanish
    BY <1>3, <2>1, <2>2, <2>3, <2>4, <2>5 DEF TrackerStep, HandlerStep, HandlerMove
  <2> QED
    BY <1>3, <2>6 DEF ClientMove, signerVars
<1> QED
  BY <1>1, <1>2, <1>3 DEF Next

(* Seen from the signer, the tracker's steps are clients' steps or none.      *)
LEMMA SignerHalf ==
    ASSUME TableTypeOK, VerdictInv, [Next]_vars
    PROVE  VerdictInv'
BY StepIsKnown, NextVerdicts, ClientTypes, ClientVerdicts DEF VerdictInv

(* What the daemon, the chain and the host do to the connections: they answer *)
(* or reset those that are open, and leave an answer as it was written.       *)
LinesAdvance ==
    \A a \in Conn :
        /\ line'[a] \in {"unused", "refused"} <=> line[a] \in {"unused", "refused"}
        /\ line[a] = "unused" => line'[a] = "unused"
        /\ line[a] = "answered" => line'[a] = "answered" /\ result'[a] = result[a]
        /\ request'[a] = request[a]

DaemonStep == SignerStep \/ ChainStep \/ HostStep

(* The daemon answers lines and takes them; it makes none.                    *)
LEMMA DaemonLines ==
    ASSUME VerdictInv, DaemonStep
    PROVE  LinesAdvance
<1> USE DEF LinesAdvance
<1>1. line \in [Conn -> LineState] /\ result \in [Conn -> SignResult]
  BY DEF VerdictInv, TypeInv, SignerTypeOK, SocketTypeOK
<1>2. CASE SendReply
  <2>1. serving \in Conn /\ line[serving] \in {"sent", "abandoned"}
    BY <1>2, SocketAssumption DEF SendReply, VerdictInv, TypeInv, SignerTypeOK, HeldLinesAreUsed,
                                  Verdicts, HeldIsSound, HeldIsUnanswered
  <2> QED
    BY <1>1, <1>2, <2>1 DEF SendReply, Answer
<1>3. CASE Crash
  BY <1>1, <1>3 DEF Crash, ServerVanishes
<1>4. CASE DropLine
  <2>1. serving \in Conn /\ line[serving] \in {"sent", "abandoned"}
    BY <1>4, SocketAssumption DEF DropLine, VerdictInv, TypeInv, SignerTypeOK, HeldLinesAreUsed,
                                  Verdicts, HeldIsSound, HeldIsUnanswered
  <2> QED
    BY <1>1, <1>4, <2>1 DEF DropLine, HangUp
<1>5. CASE SignerStep /\ ~SendReply /\ ~DropLine
  BY <1>5 DEF SignerStep, HandleRequest, RejectLine, HandleRead, HandleNoWallet, HandlePay,
       HandleSweep, HandleDistribute, HandleUnstake, RunTransfer, TransferPrinted,
       TransferUnlockRejected, TransferTimesOut, RecordSpend, RunUnstake, NextHotkey, BudgetSpent,
       UnstakePrinted, UnstakeUnlockRejected, UnstakeTimesOut, EndUnstake, TakeRequest, Accept,
       socketVars
<1>6. CASE ChainStep
  BY <1>6 DEF ChainStep, SubmitTransfer, SubmitUnstake, TransferLands, TransferDropped,
              UnstakeLands, UnstakeDropped, socketVars
<1>7. CASE Midnight \/ Restart
  BY <1>7 DEF Midnight, Restart, ServerListens, socketVars
<1> QED
  BY <1>2, <1>3, <1>4, <1>5, <1>6, <1>7 DEF DaemonStep, HostStep

(* While the table stands still, the connections may move on, and what was    *)
(* answered stays.                                                            *)
LEMMA TableStands ==
    ASSUME SystemInv, UNCHANGED tableVars, LinesAdvance
    PROVE  TableInv' /\ TableTypeOK'
<1> USE DEF SystemInv, TableInv, tableVars, LinesAdvance
<1>1. RowsFollowHandlers'
  BY DEF RowsFollowHandlers
<1>2. LinesFollowHandlers'
  BY DEF LinesFollowHandlers
<1>3. RowsRepeatAnswers'
  BY DEF RowsRepeatAnswers
<1>4. DownHasNoHandlers'
  BY DEF DownHasNoHandlers
<1>5. IdsCount'
  BY DEF IdsCount, Recorded
<1>6. TableTypeOK'
  BY DEF TypeOK, TableTypeOK
<1> QED
  BY <1>1, <1>2, <1>3, <1>4, <1>5, <1>6

-----------------------------------------------------------------------------
(* The tracker's half. *)

(* The endpoints: what a handler asks for is a request that can be written,   *)
(* for a coldkey if it is to be signed.                                       *)
LEMMA ClickAsks ==
    ASSUME TypeOK, NEW a \in Conn, Click(a)
    PROVE  \E r \in SignRequest, estimate \in Nat :
              /\ pc[a] = "idle" /\ trackerUp
              /\ ask' = [ask EXCEPT ![a] = [request |-> r, estimate |-> estimate]]
              /\ UNCHANGED <<socketVars, rows, trackerUp, trackerCrashes>>
              /\ \/ pc' = [pc EXCEPT ![a] = "insert"] /\ r.op \in SigningOps /\ r.coldkey \in Address
                 \/ pc' = [pc EXCEPT ![a] = "send"] /\ r.op \notin SigningOps
                 \/ pc' = [pc EXCEPT ![a] = "done"]
<1> DEFINE Asks(r, estimate) ==
        /\ pc[a] = "idle" /\ trackerUp
        /\ ask' = [ask EXCEPT ![a] = [request |-> r, estimate |-> estimate]]
        /\ UNCHANGED <<socketVars, rows, trackerUp, trackerCrashes>>
        /\ \/ pc' = [pc EXCEPT ![a] = "insert"] /\ r.op \in SigningOps /\ r.coldkey \in Address
           \/ pc' = [pc EXCEPT ![a] = "send"] /\ r.op \notin SigningOps
           \/ pc' = [pc EXCEPT ![a] = "done"]
<1> SUFFICES \E r \in SignRequest, estimate \in Nat : Asks(r, estimate)
  OBVIOUS
<1>1. ASSUME NEW op \in Ops, NEW coldkey \in Address
      PROVE  /\ Signed(op, coldkey) \in SignRequest
             /\ Signed(op, coldkey).op = op /\ Signed(op, coldkey).coldkey = coldkey
  <2>1. NoRequest \in SignRequest
    BY DEF NoRequest, SignRequest, Ops, ReadOps
  <2> QED
    BY <2>1 DEF Signed, SignRequest
<1>2. NoRequest \in SignRequest /\ NoRequest.op = OpBalances
  BY DEF NoRequest, SignRequest, Ops, ReadOps
<1>3. ASSUME NEW r \in SignRequest, NEW estimate \in Nat, r.op \in SigningOps, r.coldkey \in Address,
             StartAction(a, r, estimate)
      PROVE  Asks(r, estimate)
  BY <1>3 DEF StartAction, Goto, Click
<1>4. ASSUME NEW r \in SignRequest, r.op \notin SigningOps, ReadChain(a, r)
      PROVE  Asks(r, 0)
  BY <1>4 DEF ReadChain, Goto, Click
<1> HIDE DEF Asks
<1>5. /\ OpPay \in SigningOps /\ OpUnstake \in SigningOps /\ OpSweep \in SigningOps
      /\ OpDistribute \in SigningOps /\ OpStake \notin SigningOps /\ OpBalances \notin SigningOps
      /\ OpStake \in Ops /\ SigningOps \subseteq Ops
  BY DEF SigningOps, TransferOps, Ops, ReadOps, OpPay, OpUnstake, OpSweep, OpDistribute, OpStake, OpBalances
<1>6. PICK coldkey \in KnownColdkey :
          \/ \E types \in Basket : PayTournament(a, coldkey, types)
          \/ UnstakeAll(a, coldkey)
          \/ SweepToTreasury(a, coldkey)
          \/ \E amount \in Gift : DistributeFromTreasury(a, coldkey, amount)
          \/ ReadChain(a, Signed(OpStake, coldkey))
          \/ ReadChain(a, NoRequest)
  BY DEF Click
<1>7. coldkey \in Address /\ (Treasury # NoAddress => Treasury \in Address)
  BY TrackerAssumption
<1>8. ASSUME NEW types \in Basket, PayTournament(a, coldkey, types)
      PROVE  \E r \in SignRequest, estimate \in Nat : Asks(r, estimate)
  <2> DEFINE r == [Signed(OpPay, coldkey) EXCEPT !.types = types]
  <2>1. types \in SUBSET TournamentTypes /\ AmountOf(TrackerFee, types) \in Nat
    BY TrackerAssumption, AmountIsNat
  <2>2. r \in SignRequest /\ r.op = OpPay /\ r.coldkey = coldkey
    BY <1>1, <1>5, <1>7, <2>1 DEF SignRequest
  <2>3. StartAction(a, r, AmountOf(TrackerFee, types))
    BY <1>8 DEF PayTournament
  <2> HIDE DEF r
  <2> QED
    BY <1>3, <1>5, <1>7, <2>1, <2>2, <2>3
<1>9. ASSUME UnstakeAll(a, coldkey) \/ SweepToTreasury(a, coldkey)
      PROVE  \E r \in SignRequest, estimate \in Nat : Asks(r, estimate)
  <2>1. PICK op \in {OpUnstake, OpSweep} : StartAction(a, Signed(op, coldkey), 0)
    BY <1>9 DEF UnstakeAll, SweepToTreasury
  <2>2. Signed(op, coldkey) \in SignRequest /\ Signed(op, coldkey).op = op
        /\ Signed(op, coldkey).coldkey = coldkey /\ op \in SigningOps
    BY <1>1, <1>5, <1>7
  <2> QED
    BY <1>3, <1>7, <2>1, <2>2
<1>10. ASSUME NEW amount \in Gift, DistributeFromTreasury(a, coldkey, amount)
       PROVE  \E r \in SignRequest, estimate \in Nat : Asks(r, estimate)
  <2> DEFINE r == [Signed(OpDistribute, Treasury) EXCEPT !.destination = coldkey, !.amount = amount]
  <2>1. amount \in Nat /\ Treasury \in Address
    BY <1>7, <1>10, TrackerAssumption DEF DistributeFromTreasury
  <2>2. r \in SignRequest /\ r.op = OpDistribute /\ r.coldkey = Treasury
    <3>1. /\ Signed(OpDistribute, Treasury) \in SignRequest
          /\ Signed(OpDistribute, Treasury).op = OpDistribute
          /\ Signed(OpDistribute, Treasury).coldkey = Treasury
      BY <1>1, <1>5, <2>1
    <3> QED
      BY <1>7, <2>1, <3>1 DEF SignRequest
  <2>3. StartAction(a, r, amount)
    BY <1>10 DEF DistributeFromTreasury
  <2> HIDE DEF r
  <2> QED
    BY <1>3, <1>5, <2>1, <2>2, <2>3
<1>11. ASSUME ReadChain(a, Signed(OpStake, coldkey)) \/ ReadChain(a, NoRequest)
       PROVE  \E r \in SignRequest, estimate \in Nat : Asks(r, estimate)
  <2>1. Signed(OpStake, coldkey) \in SignRequest /\ Signed(OpStake, coldkey).op = OpStake
    BY <1>1, <1>5, <1>7
  <2> QED
    BY <1>2, <1>4, <1>5, <1>11, <2>1
<1> QED
  BY <1>6, <1>8, <1>9, <1>10, <1>11

(* An endpoint's insert keeps rows and handlers together.                     *)
LEMMA ClickKeeps ==
    ASSUME SystemInv, NEW a \in Conn, Click(a)
    PROVE  TableInv' /\ TableTypeOK'
<1> USE DEF SystemInv, TableInv
<1>1. PICK r \in SignRequest, estimate \in Nat :
          /\ pc[a] = "idle" /\ trackerUp
          /\ ask' = [ask EXCEPT ![a] = [request |-> r, estimate |-> estimate]]
          /\ UNCHANGED <<socketVars, rows, trackerUp, trackerCrashes>>
          /\ \/ pc' = [pc EXCEPT ![a] = "insert"] /\ r.op \in SigningOps /\ r.coldkey \in Address
             \/ pc' = [pc EXCEPT ![a] = "send"] /\ r.op \notin SigningOps
             \/ pc' = [pc EXCEPT ![a] = "done"]
  BY ClickAsks
<1>2. rows[a].status = "absent" /\ line[a] = "unused"
  BY <1>1 DEF RowsFollowHandlers, LinesFollowHandlers
<1>3. TableTypeOK'
  BY <1>1 DEF TypeOK, TableTypeOK, HandlerState
<1>4. /\ ask'[a].request = r
      /\ \A b \in Conn : b # a => ask'[b] = ask[b] /\ pc'[b] = pc[b]
  BY <1>1 DEF TypeOK, TableTypeOK
<1>5. \/ pc'[a] = "insert" /\ r.op \in SigningOps /\ r.coldkey \in Address
      \/ pc'[a] = "send" /\ r.op \notin SigningOps
      \/ pc'[a] = "done"
  BY <1>1 DEF TypeOK, TableTypeOK
<1>6. UNCHANGED <<rows, line, request, result, trackerUp>> /\ trackerUp
  BY <1>1 DEF socketVars
<1>7. RowsFollowHandlers'
  BY <1>2, <1>4, <1>5, <1>6 DEF RowsFollowHandlers
<1>8. LinesFollowHandlers'
  BY <1>2, <1>4, <1>5, <1>6 DEF LinesFollowHandlers
<1>9. RowsRepeatAnswers' /\ DownHasNoHandlers' /\ IdsCount'
  BY <1>6 DEF RowsRepeatAnswers, DownHasNoHandlers, IdsCount, Recorded
<1> QED
  BY <1>3, <1>7, <1>8, <1>9

(* The new row's id is above every other, and it is its coldkey's only        *)
(* pending row.                                                               *)
LEMMA RecordKeeps ==
    ASSUME SystemInv, NEW a \in Conn, RecordAction(a), trackerUp
    PROVE  TableInv' /\ TableTypeOK'
<1> USE DEF SystemInv, TableInv
<1>1. /\ pc[a] = "insert" /\ UNCHANGED <<socketVars, ask, trackerUp, trackerCrashes>>
      /\ rows \in [Conn -> Row] /\ pc \in [Conn -> HandlerState]
  BY DEF RecordAction, TypeOK, TableTypeOK
<1>2. /\ rows[a].status = "absent" /\ line[a] = "unused" /\ ask[a].request.op \in SigningOps
      /\ ask[a].request.coldkey \in Address /\ ask[a].estimate \in Nat
      /\ ask[a].request.op \in Ops
  BY <1>1 DEF RowsFollowHandlers, LinesFollowHandlers, TypeOK, TableTypeOK, SignRequest
<1>3. UNCHANGED <<line, request, result>>
  BY <1>1 DEF socketVars
<1>4. CASE UNCHANGED rows /\ pc' = [pc EXCEPT ![a] = "done"]
  <2>1. TableTypeOK'
    BY <1>1, <1>4 DEF TypeOK, TableTypeOK, HandlerState
  <2>2. pc'[a] = "done" /\ \A b \in Conn : b # a => pc'[b] = pc[b]
    BY <1>1, <1>4
  <2>3. RowsFollowHandlers' /\ LinesFollowHandlers'
    BY <1>1, <1>2, <1>3, <1>4, <2>2 DEF RowsFollowHandlers, LinesFollowHandlers
  <2>4. RowsRepeatAnswers' /\ DownHasNoHandlers' /\ IdsCount'
    BY <1>1, <1>3, <1>4 DEF RowsRepeatAnswers, DownHasNoHandlers, IdsCount, Recorded
  <2> QED
    BY <2>1, <2>3, <2>4
<1>5. CASE /\ Pending(ask[a].request.coldkey) = {}
           /\ rows' = [rows EXCEPT ![a] = [NoRow EXCEPT !.id      = NextRowId,
                                                        !.status  = "pending",
                                                        !.coldkey = ask[a].request.coldkey,
                                                        !.op      = ask[a].request.op,
                                                        !.amount  = ask[a].estimate]]
           /\ pc' = [pc EXCEPT ![a] = "send"]
  <2>1. IsFiniteSet(Recorded) /\ a \notin Recorded /\ Cardinality(Recorded) \in Nat
        /\ NextRowId = Cardinality(Recorded) + 1
    <3>1. IsFiniteSet(Recorded) /\ a \notin Recorded
      BY <1>2 DEF IdsCount, Recorded
    <3>2. Cardinality(Recorded) \in Nat
      BY <3>1, FS_CardinalityType
    <3> QED
      BY <3>1, <3>2 DEF NextRowId, Recorded
  <2>2. /\ rows'[a].status = "pending" /\ rows'[a].id = Cardinality(Recorded) + 1
        /\ rows'[a].coldkey = ask[a].request.coldkey /\ rows'[a].op = ask[a].request.op
        /\ \A b \in Conn : b # a => rows'[b] = rows[b] /\ pc'[b] = pc[b]
        /\ pc'[a] = "send" /\ ask' = ask
    BY <1>1, <1>5, <2>1 DEF NoRow
  <2>3. TableTypeOK'
    <3>1. NoRow \in Row
      BY DEF NoRow, Row, RowStatus, RowError, ErrorClass, Ops, ReadOps
    <3>2. [NoRow EXCEPT !.id      = NextRowId,
                        !.status  = "pending",
                        !.coldkey = ask[a].request.coldkey,
                        !.op      = ask[a].request.op,
                        !.amount  = ask[a].estimate] \in Row
      <4>1. NextRowId \in Nat /\ "pending" \in RowStatus
        BY <2>1 DEF RowStatus
      <4> QED
        BY <1>2, <3>1, <4>1 DEF Row
    <3>3. rows' \in [Conn -> Row]
      BY <1>1, <1>5, <3>2
    <3> QED
      BY <1>1, <1>5, <3>3 DEF TypeOK, TableTypeOK, HandlerState
  <2>4. Recorded' = Recorded \cup {a}
    BY <1>2, <2>2 DEF Recorded
  <2>5. IsFiniteSet(Recorded') /\ Cardinality(Recorded') = Cardinality(Recorded) + 1
    BY <2>1, <2>4, FS_AddElement
  <2>6. IdsCount'
    <3>1. \A b \in Conn : rows'[b].id <= Cardinality(Recorded')
      <4>1. \A b \in Conn : rows[b].id \in Nat
        BY <1>1 DEF Row
      <4> QED
        BY <2>1, <2>2, <2>5, <4>1 DEF IdsCount
    <3>2. ASSUME NEW b \in Conn, NEW c \in Conn, rows'[b].status = "pending",
                 rows'[c].coldkey = rows'[b].coldkey
          PROVE  rows'[c].id <= rows'[b].id /\ (c # b => rows'[c].status # "pending")
      <4>1. CASE b = a
        BY <1>5, <2>1, <2>2, <2>5, <3>1, <3>2, <4>1 DEF Pending
      <4>2. CASE b # a /\ c # a
        BY <2>2, <3>2, <4>2 DEF IdsCount
      <4>3. CASE b # a /\ c = a
        BY <1>5, <2>2, <3>2, <4>3 DEF Pending
      <4> QED
        BY <4>1, <4>2, <4>3
    <3> QED
      BY <2>5, <3>1, <3>2 DEF IdsCount
  <2>7. RowsFollowHandlers'
    BY <1>2, <2>2 DEF RowsFollowHandlers
  <2>8. LinesFollowHandlers'
    BY <1>2, <1>3, <2>2 DEF LinesFollowHandlers
  <2>9. RowsRepeatAnswers' /\ DownHasNoHandlers'
    BY <1>1, <1>3, <2>2 DEF RowsRepeatAnswers, DownHasNoHandlers
  <2> QED
    BY <2>3, <2>6, <2>7, <2>8, <2>9
<1> QED
  BY <1>4, <1>5 DEF RecordAction, Goto

(* The call keeps rows and handlers together.                                 *)
LEMMA SendKeeps ==
    ASSUME SystemInv, NEW a \in Conn, Send(a), trackerUp
    PROVE  TableInv' /\ TableTypeOK'
<1> USE DEF SystemInv, TableInv
<1>1. /\ pc[a] = "send" /\ line[a] = "unused" /\ request[a] = NoRequest
      /\ UNCHANGED <<rows, ask, result, trackerUp, trackerCrashes>>
      /\ pc \in [Conn -> HandlerState] /\ pc' = [pc EXCEPT ![a] = "wait"]
  BY DEF Send, Goto, Connect, ConnectFails, LinesFollowHandlers, TypeOK, TableTypeOK
<1>2. pc'[a] = "wait" /\ \A b \in Conn : b # a => pc'[b] = pc[b]
  BY <1>1
<1>3. /\ \/ line'[a] = "sent" /\ request'[a] = ask[a].request
         \/ line'[a] = "refused" /\ request'[a] = request[a]
      /\ \A b \in Conn : b # a => line'[b] = line[b] /\ request'[b] = request[b]
  BY DEF Send, Connect, ConnectFails, TypeOK, SignerTypeOK, SocketTypeOK
<1>4. TableTypeOK'
  BY <1>1 DEF TypeOK, TableTypeOK, HandlerState
<1>5. RowsFollowHandlers'
  BY <1>1, <1>2 DEF RowsFollowHandlers
<1>6. LinesFollowHandlers'
  BY <1>1, <1>2, <1>3 DEF LinesFollowHandlers, RowsFollowHandlers
<1>7. RowsRepeatAnswers' /\ DownHasNoHandlers' /\ IdsCount'
  BY <1>1, <1>3 DEF RowsRepeatAnswers, DownHasNoHandlers, IdsCount, Recorded
<1> QED
  BY <1>4, <1>5, <1>6, <1>7

(* finish_action, on a row that is there. *)
LEMMA FinishEffect ==
    ASSUME rows \in [Conn -> Row], NEW a \in Conn, rows[a].status # "absent",
           NEW ok \in BOOLEAN, NEW unknown \in BOOLEAN, NEW error \in RowError, NEW amount \in Nat,
           FinishAction(a, ok, unknown, error, amount)
    PROVE  /\ rows' \in [Conn -> Row]
           /\ \A b \in Conn : b # a => rows'[b] = rows[b]
           /\ rows'[a].status = IF ok THEN "ok" ELSE "failed"
           /\ rows'[a].unknown = unknown /\ rows'[a].error = error
           /\ ok => rows'[a].amount = amount
           /\ rows'[a].id = rows[a].id /\ rows'[a].coldkey = rows[a].coldkey
           /\ rows'[a].op = rows[a].op
<1>1. rows[a] \in Row
  OBVIOUS
<1>2. rows' = [rows EXCEPT ![a].status  = IF ok THEN "ok" ELSE "failed",
                           ![a].unknown = unknown,
                           ![a].error   = error,
                           ![a].amount  = IF ok THEN amount ELSE @]
  BY DEF FinishAction
<1> QED
  BY <1>1, <1>2 DEF Row, RowStatus

(* Closing an action leaves the others' rows, and nothing is closed twice. *)
LEMMA CloseKeeps ==
    ASSUME SystemInv, NEW a \in Conn, ReceiveAnswer(a) \/ SignerUnavailable(a), trackerUp
    PROVE  TableInv' /\ TableTypeOK'
<1> USE DEF SystemInv, TableInv
<1>1. /\ pc[a] = "wait" /\ pc' = [pc EXCEPT ![a] = "done"]
      /\ UNCHANGED <<socketVars, ask, trackerUp, trackerCrashes>>
      /\ rows \in [Conn -> Row] /\ pc \in [Conn -> HandlerState] /\ result[a] \in SignResult
  BY DEF ReceiveAnswer, SignerUnavailable, Goto, TypeOK, TableTypeOK, SignerTypeOK, SocketTypeOK
<1>2. rows[a].status \in {"absent", "pending"}
  BY <1>1 DEF RowsFollowHandlers, Row, RowStatus
<1>3. /\ pc'[a] = "done" /\ UNCHANGED <<line, request, result>>
      /\ \A b \in Conn : b # a => pc'[b] = pc[b]
  BY <1>1 DEF socketVars
<1>4. CASE rows[a].status = "absent"
  <2>1. rows' = rows
    BY <1>4 DEF ReceiveAnswer, SignerUnavailable, FinishAction
  <2>2. TableTypeOK'
    BY <1>1, <2>1 DEF TypeOK, TableTypeOK, HandlerState
  <2>3. RowsFollowHandlers' /\ LinesFollowHandlers'
    BY <1>1, <1>3, <1>4, <2>1 DEF RowsFollowHandlers, LinesFollowHandlers
  <2>4. RowsRepeatAnswers' /\ DownHasNoHandlers' /\ IdsCount'
    BY <1>1, <1>3, <2>1 DEF RowsRepeatAnswers, DownHasNoHandlers, IdsCount, Recorded
  <2> QED
    BY <2>2, <2>3, <2>4
<1>5. CASE rows[a].status = "pending"
  <2>1. /\ rows' \in [Conn -> Row]
        /\ \A b \in Conn : b # a => rows'[b] = rows[b]
        /\ rows'[a].status \in {"ok", "failed"}
        /\ rows'[a].id = rows[a].id /\ rows'[a].coldkey = rows[a].coldkey
        /\ rows'[a].op = rows[a].op
        /\ rows'[a].status = "ok" => /\ line[a] = "answered" /\ result[a].ok
                                     /\ rows'[a].amount = result[a].amount
        /\ rows'[a].status = "failed" /\ rows'[a].error \notin {"unreachable", "interrupted"} =>
               /\ line[a] = "answered" /\ ~result[a].ok
               /\ rows'[a].unknown = result[a].unknown /\ rows'[a].error = result[a].error
    <3>1. CASE ReceiveAnswer(a)
      <4>1. /\ result[a].ok \in BOOLEAN /\ result[a].unknown \in BOOLEAN
            /\ result[a].error \in RowError /\ result[a].amount \in Nat
        BY <1>1 DEF SignResult, RowError
      <4>2. /\ line[a] = "answered"
            /\ FinishAction(a, result[a].ok, result[a].unknown, result[a].error, result[a].amount)
        BY <3>1 DEF ReceiveAnswer
      <4> HIDE DEF SystemInv, TableInv
      <4> QED
        BY <1>1, <1>5, <4>1, <4>2, FinishEffect
    <3>2. CASE SignerUnavailable(a)
      <4>1. "unreachable" \in RowError /\ 0 \in Nat /\ FALSE \in BOOLEAN
        BY DEF RowError
      <4>2. FinishAction(a, FALSE, FALSE, "unreachable", 0)
        BY <3>2 DEF SignerUnavailable
      <4> HIDE DEF SystemInv, TableInv
      <4> QED
        BY <1>1, <1>5, <4>1, <4>2, FinishEffect
    <3> QED
      BY <3>1, <3>2
  <2>2. TableTypeOK'
    BY <1>1, <2>1 DEF TypeOK, TableTypeOK, HandlerState
  <2>3. RowsFollowHandlers'
    BY <1>1, <1>3, <1>5, <2>1 DEF RowsFollowHandlers
  <2>4. LinesFollowHandlers'
    BY <1>1, <1>3, <1>5, <2>1 DEF LinesFollowHandlers
  <2>5. RowsRepeatAnswers' /\ DownHasNoHandlers'
    BY <1>1, <1>3, <2>1 DEF RowsRepeatAnswers, DownHasNoHandlers
  <2>6. IdsCount'
    <3>1. Recorded' = Recorded
      BY <1>5, <2>1 DEF Recorded
    <3>2. \A b \in Conn : rows'[b].id = rows[b].id /\ rows'[b].coldkey = rows[b].coldkey
                           /\ (rows'[b].status = "pending" => rows[b].status = "pending")
      BY <2>1
    <3> QED
      BY <3>1, <3>2 DEF IdsCount
  <2> QED
    BY <2>2, <2>3, <2>4, <2>5, <2>6
<1> QED
  BY <1>2, <1>4, <1>5

(* The tracker dies, and comes back. *)
LEMMA ProcessKeeps ==
    ASSUME SystemInv, TrackerCrash \/ TrackerStart
    PROVE  TableInv' /\ TableTypeOK'
<1> USE DEF SystemInv, TableInv
<1>1. /\ rows \in [Conn -> Row] /\ pc \in [Conn -> HandlerState] /\ line \in [Conn -> LineState]
      /\ UNCHANGED <<ask, request, result>> /\ trackerCrashes \in Nat
  BY DEF TrackerCrash, TrackerStart, ClientsVanish, socketVars, TypeOK, TableTypeOK, SignerTypeOK,
         SocketTypeOK
<1>2. CASE TrackerCrash
  <2>1. /\ rows' = rows /\ trackerUp' = FALSE /\ trackerCrashes' = trackerCrashes + 1
        /\ pc' \in [Conn -> HandlerState]
        /\ \A a \in Conn : pc'[a] = IF pc[a] \in {"idle", "done"} THEN pc[a] ELSE "lost"
        /\ \A a \in Conn : line'[a] = IF line[a] = "sent" THEN "abandoned" ELSE line[a]
    BY <1>1, <1>2 DEF TrackerCrash, ClientsVanish, HandlerState
  <2>2. TableTypeOK'
    <3>1. ask \in [Conn -> [request : SignRequest, estimate : Nat]] /\ trackerCrashes + 1 \in Nat
      BY <1>1 DEF TypeOK, TableTypeOK
    <3> HIDE DEF SystemInv, TableInv
    <3>2. trackerUp' \in BOOLEAN
      BY <2>1
    <3> QED
      BY <1>1, <2>1, <3>1, <3>2 DEF TableTypeOK
  <2>3. RowsFollowHandlers'
    BY <1>1, <2>1 DEF RowsFollowHandlers
  <2>4. LinesFollowHandlers'
    BY <1>1, <2>1 DEF LinesFollowHandlers
  <2>5. RowsRepeatAnswers' /\ DownHasNoHandlers' /\ IdsCount'
    <3>1. DownHasNoHandlers'
      BY <1>1, <2>1 DEF DownHasNoHandlers, HandlerState
    <3>2. RowsRepeatAnswers' /\ IdsCount'
      BY <1>1, <2>1 DEF RowsRepeatAnswers, IdsCount, Recorded
    <3> QED
      BY <3>1, <3>2
  <2> QED
    BY <2>2, <2>3, <2>4, <2>5
<1>3. CASE TrackerStart
  <2>1. /\ \A a \in Conn : rows'[a] = Stranded(rows[a])
        /\ UNCHANGED <<pc, line, trackerCrashes>> /\ trackerUp' = TRUE /\ ~trackerUp
    BY <1>3 DEF TrackerStart, socketVars
  <2>2. ASSUME NEW a \in Conn
        PROVE  /\ rows[a].status # "pending" => rows'[a] = rows[a]
               /\ rows[a].status = "pending" => /\ rows'[a].status = "failed"
                                                /\ rows'[a].error = "interrupted"
               /\ rows'[a].id = rows[a].id /\ rows'[a].coldkey = rows[a].coldkey
               /\ rows'[a].op = rows[a].op /\ rows'[a] \in Row
    <3>1. rows[a] \in Row
      BY <1>1
    <3>2. CASE rows[a].status # "pending"
      BY <2>1, <3>1, <3>2 DEF Stranded
    <3>3. CASE rows[a].status = "pending"
      <4>1. rows'[a] = [rows[a] EXCEPT !.status = "failed", !.error = "interrupted"]
        BY <2>1, <3>3 DEF Stranded
      <4>2. "failed" \in RowStatus /\ "interrupted" \in RowError
        BY DEF RowStatus, RowError
      <4> QED
        BY <3>1, <3>3, <4>1, <4>2 DEF Row
    <3> QED
      BY <3>2, <3>3
  <2>3. TableTypeOK'
    <3>1. rows' \in [Conn -> Row]
      BY <1>3, <2>2 DEF TrackerStart
    <3> QED
      BY <1>1, <2>1, <3>1 DEF TypeOK, TableTypeOK
  <2>4. RowsFollowHandlers'
    BY <1>1, <2>1, <2>2 DEF RowsFollowHandlers, DownHasNoHandlers
  <2>5. LinesFollowHandlers'
    BY <1>1, <2>1, <2>2 DEF LinesFollowHandlers
  <2>6. RowsRepeatAnswers' /\ DownHasNoHandlers'
    BY <1>1, <2>1, <2>2 DEF RowsRepeatAnswers, DownHasNoHandlers
  <2>7. IdsCount'
    <3>1. Recorded' = Recorded
      BY <2>2 DEF Recorded
    <3> QED
      BY <2>2, <3>1 DEF IdsCount
  <2> QED
    BY <2>3, <2>4, <2>5, <2>6, <2>7
<1> QED
  BY <1>2, <1>3

(* No row, no handler, no line at the start.                                  *)
LEMMA SystemInit == Init => SystemInv
<1> SUFFICES ASSUME Init PROVE SystemInv
  OBVIOUS
<1>1. VerdictInv /\ SignerTypeOK
  BY InitVerdicts DEF Init, VerdictInv, TypeInv
<1>2. \A a \in Conn : rows[a] = NoRow /\ pc[a] = "idle" /\ line[a] = "unused" /\ request[a] = NoRequest
  BY DEF Init, TableInit, SignerInit, SocketInit
<1>3. TableTypeOK
  <2>1. NoRow \in Row
    BY DEF NoRow, Row, RowStatus, RowError, ErrorClass, Ops, ReadOps
  <2>2. NoRequest \in SignRequest
    BY DEF NoRequest, SignRequest, Ops, ReadOps
  <2> QED
    BY <2>1, <2>2 DEF Init, TableInit, TableTypeOK, HandlerState
<1>4. RowsFollowHandlers /\ RowsRepeatAnswers
  <2>1. \A a \in Conn : rows[a].status = "absent"
    BY <1>2 DEF NoRow
  <2> QED
    BY <1>2, <2>1 DEF RowsFollowHandlers, RowsRepeatAnswers
<1>5. LinesFollowHandlers
  <2>1. NoRequest.op \notin SigningOps
    BY DEF NoRequest, SigningOps, TransferOps, OpBalances, OpPay, OpSweep, OpDistribute, OpUnstake
  <2> QED
    BY <1>2, <2>1 DEF LinesFollowHandlers
<1>6. IdsCount
  <2>1. Recorded = {}
    BY <1>2 DEF Recorded, NoRow
  <2>2. IsFiniteSet(Recorded) /\ Cardinality(Recorded) = 0
    BY <2>1, FS_EmptySet
  <2> QED
    BY <1>2, <2>2 DEF IdsCount, NoRow
<1>7. DownHasNoHandlers
  BY DEF Init, TableInit, DownHasNoHandlers
<1> QED
  BY <1>1, <1>3, <1>4, <1>5, <1>6, <1>7 DEF SystemInv, TypeOK, TableInv

(* Every step keeps the table, the handlers and the lines together.           *)
LEMMA SystemNext == SystemInv /\ [Next]_vars => SystemInv'
<1> SUFFICES ASSUME SystemInv, [Next]_vars PROVE TableInv' /\ TableTypeOK'
  BY SignerHalf DEF SystemInv, TypeOK, VerdictInv, TypeInv
<1>1. CASE DaemonStep /\ UNCHANGED tableVars
  <2>1. LinesAdvance
    BY <1>1, DaemonLines DEF SystemInv
  <2> QED
    BY <1>1, <2>1, TableStands
<1>2. CASE UNCHANGED vars
  <2>1. LinesAdvance
    BY <1>2 DEF vars, signerVars, socketVars, LinesAdvance
  <2>2. UNCHANGED tableVars
    BY <1>2 DEF vars
  <2> QED
    BY <2>1, <2>2, TableStands
<1>3. CASE TrackerStep
  <2>1. ASSUME NEW a \in Conn, TimeOut(a) PROVE TableInv' /\ TableTypeOK'
    <3>1. request' = request /\ result' = result
      BY <2>1 DEF TimeOut, GiveUp
    <3>3. UNCHANGED tableVars
      BY <2>1 DEF TimeOut
    <3>2. line \in [Conn -> LineState] /\ line[a] = "sent" /\ line' = [line EXCEPT ![a] = "abandoned"]
      BY <2>1 DEF TimeOut, GiveUp, SystemInv, TypeOK, SignerTypeOK, SocketTypeOK
    <3>4. LinesAdvance
      BY <3>1, <3>2 DEF LinesAdvance
    <3> QED
      BY <3>3, <3>4, TableStands
  <2>2. CASE TrackerCrash \/ TrackerStart
    BY <2>2, ProcessKeeps
  <2>3. CASE \E a \in Conn : Click(a) \/ HandlerStep(a) \/ TimeOut(a)
    <3>1. PICK a \in Conn : Click(a) \/ HandlerStep(a) \/ TimeOut(a)
      BY <2>3
    <3>2. CASE Click(a)
      BY <3>2, ClickKeeps
    <3>3. CASE HandlerStep(a)
      BY <3>3, RecordKeeps, SendKeeps, CloseKeeps DEF HandlerStep
    <3> QED
      BY <2>1, <3>1, <3>2, <3>3
  <2> QED
    BY <1>3, <2>2, <2>3 DEF TrackerStep
<1> QED
  BY <1>1, <1>2, <1>3 DEF Next, DaemonStep

(* Tracker, socket, signer and chain keep their types; the ids stay numbers   *)
(* because the rows stay finitely many.                                       *)
THEOREM SystemTypeCorrect == Spec => []TypeOK
<1>1. SystemInv => TypeOK
  BY DEF SystemInv
<1> QED
  BY <1>1, SystemInit, SystemNext, PTL DEF Spec

-----------------------------------------------------------------------------
(* What the rows say. *)

(* The one pending row of a coldkey is the youngest of its rows.              *)
LEMMA YoungestIsShown ==
    ASSUME SystemInv
    PROVE  PendingShowsOnCard
<1> SUFFICES ASSUME NEW a \in Conn, rows[a].status = "pending"
             PROVE  latest_action_per_coldkey(rows[a].coldkey).id = rows[a].id
  BY DEF PendingShowsOnCard
<1> DEFINE mine == {rows[x] : x \in {b \in Conn : rows[b].coldkey = rows[a].coldkey}}
<1>1. /\ rows \in [Conn -> Row] /\ \A row \in mine : row \in Row
      /\ rows[a] \in mine
  BY DEF SystemInv, TypeOK, TableTypeOK
<1>2. \A row \in mine : row.id <= rows[a].id /\ row.id \in Nat
  BY <1>1 DEF SystemInv, TableInv, IdsCount, Row
<1> DEFINE shown == CHOOSE row \in mine : \A other \in mine : other.id <= row.id
<1>3. latest_action_per_coldkey(rows[a].coldkey) = shown
  BY <1>1 DEF latest_action_per_coldkey
<1> HIDE DEF mine
<1>4. shown \in mine /\ \A other \in mine : other.id <= shown.id
  BY <1>1, <1>2
<1>5. shown.id <= rows[a].id /\ rows[a].id <= shown.id /\ shown.id \in Nat /\ rows[a].id \in Nat
  BY <1>1, <1>2, <1>4
<1> QED
  BY <1>3, <1>5

(* Whatever the chain has of a request, its row is there.                     *)
LEMMA TracesHaveRows ==
    ASSUME SystemInv
    PROVE  EvidenceBeforeMoney
<1> SUFFICES ASSUME NEW a \in Conn, ~LeftNoTrace(a)
             PROVE  rows[a].status # "absent" /\ rows[a].coldkey = request[a].coldkey
  BY DEF EvidenceBeforeMoney
<1>1. request[a].op \in SigningOps
  BY DEF LeftNoTrace, SystemInv, VerdictInv, Verdicts, ChainIsSound, TracesAreAskedFor, SigningOps
<1>2. request[a] = ask[a].request
  <2>1. NoRequest.op \notin SigningOps
    BY DEF NoRequest, SigningOps, TransferOps, OpBalances, OpPay, OpSweep, OpDistribute, OpUnstake
  <2> QED
    BY <1>1, <2>1 DEF SystemInv, TableInv, LinesFollowHandlers
<1> QED
  BY <1>1, <1>2 DEF SystemInv, TableInv, LinesFollowHandlers, RowsFollowHandlers

(* A row that reads ok carries the amount its request moved, whatever it is:  *)
(* a transfer's amount, nothing for an unstake.                               *)
LEMMA OkRowsAreMoved ==
    ASSUME SystemInv, NEW a \in Conn, line[a] = "answered", result[a].ok, rows[a].status # "absent"
    PROVE  /\ moved[a] = result[a].amount
           /\ rows[a].op \in TransferOps => tx[a].state = "landed"
<1>1. Honest(a, result[a]) /\ request[a] = ask[a].request /\ rows[a].op = ask[a].request.op
  BY DEF SystemInv, VerdictInv, Verdicts, AnswersAreHonest, TableInv, LinesFollowHandlers,
         RowsFollowHandlers
<1>2. CASE request[a].op \in TransferOps
  BY <1>1, <1>2 DEF Honest, SystemInv, VerdictInv, Verdicts, ChainIsSound, MovedAsLanded
<1>3. CASE request[a].op \notin TransferOps
  <2>1. moved[a] = 0 /\ result[a].amount = 0
    BY <1>1, <1>3 DEF Honest, SystemInv, VerdictInv, Verdicts, ChainIsSound, MovedAsLanded,
                      TracesAreAskedFor
  <2> QED
    BY <1>1, <1>3, <2>1
<1> QED
  BY <1>2, <1>3

(* A closed row says what its handler was answered.                           *)
LEMMA RowsTell ==
    ASSUME SystemInv
    PROVE  OkRowHoldsWhatMoved /\ UnflaggedFailureIsExplained
<1>1. OkRowHoldsWhatMoved
  <2> SUFFICES ASSUME NEW a \in Conn, rows[a].status = "ok", rows[a].op \in TransferOps
               PROVE  tx[a].state = "landed" /\ moved[a] = rows[a].amount
    BY DEF OkRowHoldsWhatMoved
  <2>1. line[a] = "answered" /\ result[a].ok /\ rows[a].amount = result[a].amount
    BY DEF SystemInv, TableInv, RowsRepeatAnswers
  <2> QED
    BY <2>1, OkRowsAreMoved
<1>2. UnflaggedFailureIsExplained
  <2> SUFFICES ASSUME NEW a \in Conn, rows[a].status = "failed", ~rows[a].unknown,
                      rows[a].error \notin {"unreachable", "interrupted", "crash"}
               PROVE  LeftNoTrace(a)
    BY DEF UnflaggedFailureIsExplained
  <2>1. /\ line[a] = "answered" /\ ~result[a].ok /\ ~result[a].unknown /\ result[a].error # "crash"
    BY DEF SystemInv, TableInv, RowsRepeatAnswers
  <2>2. Honest(a, result[a]) /\ result[a] # NoResult
    BY <2>1 DEF SystemInv, VerdictInv, Verdicts, AnswersAreHonest
  <2> QED
    BY <2>1, <2>2 DEF Honest
<1> QED
  BY <1>1, <1>2

(* A pending row is the one its coldkey's card shows. *)
THEOREM PendingIsShown == Spec => []PendingShowsOnCard
<1>1. SystemInv => PendingShowsOnCard
  BY YoungestIsShown
<1> QED
  BY <1>1, SystemInit, SystemNext, PTL DEF Spec

(* Whatever a request put on the chain has a row of the coldkey it came from. *)
THEOREM MoneyLeavesEvidence == Spec => []EvidenceBeforeMoney
<1>1. SystemInv => EvidenceBeforeMoney
  BY TracesHaveRows
<1> QED
  BY <1>1, SystemInit, SystemNext, PTL DEF Spec

(* A transfer's row that reads ok holds the amount that moved. *)
THEOREM OkRowIsWhatMoved == Spec => []OkRowHoldsWhatMoved
<1>1. SystemInv => OkRowHoldsWhatMoved
  BY RowsTell
<1> QED
  BY <1>1, SystemInit, SystemNext, PTL DEF Spec

(* Failed without the flag and on the chain all the same: the answer was      *)
(* lost, the tracker died, or the driver crashed on its deadline.             *)
THEOREM FailureIsExplained == Spec => []UnflaggedFailureIsExplained
<1>1. SystemInv => UnflaggedFailureIsExplained
  BY RowsTell
<1> QED
  BY <1>1, SystemInit, SystemNext, PTL DEF Spec

-----------------------------------------------------------------------------
(* What a step does to the rows and to the money, and nothing else does. *)

RowsAndMoneyStand == UNCHANGED <<rows, moved>>

(* The row of a that is inserted, ... *)
Inserted(a) ==
    /\ rows[a].status = "absent" /\ rows'[a].status = "pending" /\ rows'[a].coldkey \in Address
    /\ \A b \in Conn : ~(rows[b].status = "pending" /\ rows[b].coldkey = rows'[a].coldkey)
    /\ \A b \in Conn : b # a => rows'[b] = rows[b]
    /\ UNCHANGED moved

(* ... closed by its handler, ... *)
Closed(a) ==
    /\ rows[a].status = "pending" /\ rows'[a].status \in {"ok", "failed"}
    /\ rows'[a].status = "ok" => rows'[a].amount = moved[a]
    /\ rows'[a].coldkey = rows[a].coldkey
    /\ \A b \in Conn : b # a => rows'[b] = rows[b]
    /\ UNCHANGED moved

(* ... or interrupted by a restart; ... *)
Interrupted ==
    /\ \A a \in Conn : /\ rows[a].status = "pending" => rows'[a].status = "failed"
                       /\ rows[a].status # "pending" => rows'[a] = rows[a]
                       /\ rows'[a].coldkey = rows[a].coldkey
    /\ UNCHANGED moved

(* ... and the transfer that lands, for the first time, on an open or failed  *)
(* row.                                                                       *)
Landed(a) ==
    /\ rows[a].status \in {"pending", "failed"}
    /\ moved[a] = 0 /\ moved'[a] \in Nat
    /\ moved' = [moved EXCEPT ![a] = moved'[a]]
    /\ UNCHANGED rows

(* The daemon's steps leave the rows and move no money by themselves.         *)
LEMMA DaemonMoves ==
    ASSUME SystemInv, DaemonStep, UNCHANGED tableVars
    PROVE  RowsAndMoneyStand \/ \E a \in Conn : Landed(a)
<1>1. UNCHANGED rows
  BY DEF tableVars
<1>2. ASSUME NEW c \in Conn, TransferLands(c) PROVE Landed(c)
  <2>1. /\ tx[c].state = "submitted" /\ moved[c] = 0 /\ tx[c].amount \in Nat
        /\ moved \in [Conn -> Nat]
    BY <1>2 DEF TransferLands, SystemInv, TypeOK, SignerTypeOK, Tx, VerdictInv, Verdicts, ChainIsSound,
                MovedAsLanded
  <2>2. request[c].op \in TransferOps /\ rows[c].status # "absent" /\ rows \in [Conn -> Row]
    BY <2>1 DEF SystemInv, TypeOK, TableTypeOK, VerdictInv, Verdicts, ChainIsSound, TracesAreAskedFor,
                TableInv, LinesFollowHandlers, SigningOps
  <2>3. rows[c].status # "ok"
    <3> SUFFICES ASSUME rows[c].status = "ok" PROVE FALSE
      OBVIOUS
    <3>1. line[c] = "answered" /\ result[c].ok
      BY DEF SystemInv, TableInv, RowsRepeatAnswers
    <3>2. rows[c].op \in TransferOps
      BY <2>2, <3>1 DEF SystemInv, TableInv, RowsFollowHandlers, LinesFollowHandlers
    <3>3. tx[c].state = "landed"
      BY <2>2, <3>1, <3>2, OkRowsAreMoved
    <3> QED
      BY <2>1, <3>3
  <2>4. moved' = [moved EXCEPT ![c] = tx[c].amount] /\ moved'[c] = tx[c].amount
    <3>1. moved[c] + tx[c].amount = tx[c].amount
      BY <2>1
    <3>2. moved' = [moved EXCEPT ![c] = moved[c] + tx[c].amount]
      BY <1>2 DEF TransferLands
    <3> QED
      BY <2>1, <3>1, <3>2
  <2> QED
    BY <1>1, <2>1, <2>2, <2>3, <2>4 DEF Landed, Row, RowStatus
<1>3. CASE ChainStep
  <2>1. ASSUME NEW c \in Conn, TransferDropped(c) PROVE moved' = moved
    BY <2>1 DEF TransferDropped
  <2>2. ASSUME NEW c \in Conn, NEW h \in Hotkey, UnstakeLands(c, h) \/ UnstakeDropped(c, h)
        PROVE  moved' = moved
    BY <2>2 DEF UnstakeLands, UnstakeDropped
  <2>3. SubmitTransfer \/ SubmitUnstake => moved' = moved
    BY DEF SubmitTransfer, SubmitUnstake
  <2> QED
    BY <1>1, <1>2, <1>3, <2>1, <2>2, <2>3 DEF ChainStep, RowsAndMoneyStand
<1>4. CASE SignerStep \/ HostStep
  <2>1. UNCHANGED moved
    BY <1>4 DEF SignerStep, HandleRequest, RejectLine, HandleRead, HandleNoWallet, HandlePay,
         HandleSweep, HandleDistribute, HandleUnstake, RunTransfer, TransferPrinted,
         TransferUnlockRejected, TransferTimesOut, RecordSpend, RunUnstake, NextHotkey, BudgetSpent,
         UnstakePrinted, UnstakeUnlockRejected, UnstakeTimesOut, EndUnstake, TakeRequest, DropLine,
         SendReply, HostStep, Midnight, Crash, Restart, chainVars
  <2> QED
    BY <1>1, <2>1 DEF RowsAndMoneyStand
<1> QED
  BY <1>3, <1>4 DEF DaemonStep

(* The tracker's steps leave the chain.                                       *)
LEMMA TrackerMoves ==
    ASSUME SystemInv, TrackerStep, UNCHANGED chainVars
    PROVE  RowsAndMoneyStand \/ Interrupted \/ \E a \in Conn : Inserted(a) \/ Closed(a)
<1>1. UNCHANGED moved /\ rows \in [Conn -> Row]
  BY DEF chainVars, SystemInv, TypeOK, TableTypeOK
<1>2. CASE TrackerCrash
  BY <1>1, <1>2 DEF TrackerCrash, RowsAndMoneyStand
<1>3. CASE TrackerStart
  BY <1>1, <1>3 DEF TrackerStart, Stranded, Interrupted, Row
<1>4. ASSUME NEW a \in Conn, Click(a) \/ Send(a) \/ TimeOut(a) PROVE RowsAndMoneyStand
  <2>1. UNCHANGED rows
    BY <1>4, ClickAsks DEF Send, TimeOut, tableVars, SystemInv
  <2> QED
    BY <1>1, <2>1 DEF RowsAndMoneyStand
<1>5. ASSUME NEW a \in Conn, RecordAction(a) PROVE RowsAndMoneyStand \/ Inserted(a)
  <2>1. pc[a] = "insert" /\ rows[a].status = "absent" /\ ask[a].request.coldkey \in Address
    BY <1>5 DEF RecordAction, SystemInv, TableInv, RowsFollowHandlers
  <2>2. CASE UNCHANGED rows
    BY <1>1, <2>2 DEF RowsAndMoneyStand
  <2>3. CASE /\ Pending(ask[a].request.coldkey) = {}
             /\ rows' = [rows EXCEPT ![a] = [NoRow EXCEPT !.id      = NextRowId,
                                                          !.status  = "pending",
                                                          !.coldkey = ask[a].request.coldkey,
                                                          !.op      = ask[a].request.op,
                                                          !.amount  = ask[a].estimate]]
    <3>1. /\ rows'[a].status = "pending" /\ rows'[a].coldkey = ask[a].request.coldkey
          /\ \A b \in Conn : b # a => rows'[b] = rows[b]
      BY <1>1, <2>3 DEF NoRow
    <3> QED
      BY <1>1, <2>1, <2>3, <3>1 DEF Pending, Inserted
  <2> QED
    BY <1>5, <2>2, <2>3 DEF RecordAction
<1>6. ASSUME NEW a \in Conn, ReceiveAnswer(a) \/ SignerUnavailable(a) PROVE RowsAndMoneyStand \/ Closed(a)
  <2>1. /\ pc[a] = "wait" /\ rows[a].status \in {"absent", "pending"}
        /\ result[a] \in SignResult
    BY <1>1, <1>6 DEF ReceiveAnswer, SignerUnavailable, SystemInv, TypeOK, SignerTypeOK, SocketTypeOK,
                      TableInv, RowsFollowHandlers, Row, RowStatus
  <2>2. CASE rows[a].status = "absent"
    BY <1>1, <1>6, <2>2 DEF ReceiveAnswer, SignerUnavailable, FinishAction, RowsAndMoneyStand
  <2>3. CASE rows[a].status = "pending" /\ ReceiveAnswer(a)
    <3>1. /\ result[a].ok \in BOOLEAN /\ result[a].unknown \in BOOLEAN
          /\ result[a].error \in RowError /\ result[a].amount \in Nat
      BY <2>1 DEF SignResult, RowError
    <3>2. /\ line[a] = "answered"
          /\ FinishAction(a, result[a].ok, result[a].unknown, result[a].error, result[a].amount)
      BY <2>3 DEF ReceiveAnswer
    <3>3. /\ \A b \in Conn : b # a => rows'[b] = rows[b]
          /\ rows'[a].status = IF result[a].ok THEN "ok" ELSE "failed"
          /\ result[a].ok => rows'[a].amount = result[a].amount
          /\ rows'[a].coldkey = rows[a].coldkey
      BY <1>1, <2>3, <3>1, <3>2, FinishEffect
    <3>4. result[a].ok => moved[a] = result[a].amount
      BY <2>3, <3>2, OkRowsAreMoved
    <3> QED
      BY <1>1, <2>3, <3>3, <3>4 DEF Closed
  <2>4. CASE rows[a].status = "pending" /\ SignerUnavailable(a)
    <3>1. "unreachable" \in RowError /\ 0 \in Nat /\ FALSE \in BOOLEAN
      BY DEF RowError
    <3>2. FinishAction(a, FALSE, FALSE, "unreachable", 0)
      BY <2>4 DEF SignerUnavailable
    <3>3. /\ \A b \in Conn : b # a => rows'[b] = rows[b]
          /\ rows'[a].status = "failed" /\ rows'[a].coldkey = rows[a].coldkey
      BY <1>1, <2>4, <3>1, <3>2, FinishEffect
    <3> QED
      BY <1>1, <2>4, <3>3 DEF Closed
  <2> QED
    BY <1>6, <2>1, <2>2, <2>3, <2>4
<1> QED
  BY <1>2, <1>3, <1>4, <1>5, <1>6 DEF TrackerStep, HandlerStep

(* Every step is one of the ledger's moves, or none.                          *)
LEMMA StepMoves ==
    ASSUME SystemInv, [Next]_vars
    PROVE  \/ RowsAndMoneyStand \/ Interrupted
           \/ \E a \in Conn : Inserted(a) \/ Closed(a) \/ Landed(a)
<1>1. CASE DaemonStep /\ UNCHANGED tableVars
  BY <1>1, DaemonMoves
<1>2. CASE TrackerStep /\ UNCHANGED chainVars
  BY <1>2, TrackerMoves
<1>3. CASE UNCHANGED vars
  BY <1>3 DEF vars, signerVars, tableVars, chainVars, RowsAndMoneyStand
<1> QED
  BY <1>1, <1>2, <1>3 DEF Next, DaemonStep

(* A closed row is never written again. *)
THEOREM ClosedRowIsFinal == Spec => ClosedRowsAreFinal
<1>1. SystemInv /\ [Next]_vars =>
          [\A a \in Conn : rows[a].status \in {"ok", "failed"} => rows'[a] = rows[a]]_vars
  <2> SUFFICES ASSUME SystemInv, [Next]_vars, NEW a \in Conn, rows[a].status \in {"ok", "failed"}
               PROVE  rows'[a] = rows[a]
    OBVIOUS
  <2> QED
    BY StepMoves DEF RowsAndMoneyStand, Interrupted, Inserted, Closed, Landed
<1> QED
  BY <1>1, SystemInit, SystemNext, PTL DEF Spec, ClosedRowsAreFinal

-----------------------------------------------------------------------------
(* The abstract ledger, step by step. *)

LedgerBook ==
    [a \in Conn |-> [status |-> rows[a].status,
                    amount |-> IF rows[a].status = "ok" THEN rows[a].amount ELSE 0]]

LedgerOwner == [a \in Conn |-> rows[a].coldkey]

(* The insert opens an action of the ledger.                                  *)
LEMMA OpensInLedger ==
    ASSUME SystemInv, NEW a \in Conn, Inserted(a), NEW coldkey, rows'[a].coldkey = coldkey
    PROVE  Ledger!Open(a, coldkey)
<1>1. rows \in [Conn -> Row]
  BY DEF SystemInv, TypeOK, TableTypeOK
<1>2. LedgerBook[a] = [status |-> "absent", amount |-> 0]
  BY DEF Inserted, LedgerBook
<1>3. \A b \in Conn : ~(LedgerBook[b].status = "pending" /\ LedgerOwner[b] = coldkey)
  BY DEF Inserted, LedgerBook, LedgerOwner
<1>4. LedgerBook' = [LedgerBook EXCEPT ![a].status = "pending"]
  <2>1. [LedgerBook EXCEPT ![a].status = "pending"] =
            [b \in Conn |-> IF b = a THEN [LedgerBook[a] EXCEPT !.status = "pending"] ELSE LedgerBook[b]]
    BY DEF LedgerBook
  <2>2. [LedgerBook[a] EXCEPT !.status = "pending"] = [status |-> "pending", amount |-> 0]
    BY <1>2
  <2> QED
    BY <2>1, <2>2 DEF LedgerBook, Inserted
<1>5. LedgerOwner' = [LedgerOwner EXCEPT ![a] = coldkey]
  BY DEF LedgerOwner, Inserted
<1>6. moved' = moved
  BY DEF Inserted
<1> QED
  BY <1>2, <1>3, <1>4, <1>5, <1>6 DEF Ledger!Open, Ledger!Absent, LedgerBook, LedgerOwner

(* finish_action closes one, with the figures the ledger allows.              *)
LEMMA ClosesInLedger ==
    ASSUME SystemInv, NEW a \in Conn, Closed(a)
    PROVE  Ledger!CloseOk(a) \/ Ledger!CloseFailed({a})
<1>1. LedgerBook[a] = [status |-> "pending", amount |-> 0]
  BY DEF Closed, LedgerBook
<1>2. LedgerOwner' = LedgerOwner /\ moved' = moved
  BY DEF Closed, LedgerOwner
<1>3. CASE rows'[a].status = "ok"
  <2>1. LedgerBook' = [LedgerBook EXCEPT ![a] = [status |-> "ok", amount |-> moved[a]]]
    BY <1>3 DEF Closed, LedgerBook
  <2> QED
    BY <1>1, <1>2, <2>1 DEF Ledger!CloseOk, LedgerBook, LedgerOwner
<1>4. CASE rows'[a].status = "failed"
  <2>1. [LedgerBook[a] EXCEPT !.status = "failed"] = [status |-> "failed", amount |-> 0]
    BY <1>1
  <2>2. LedgerBook' = [b \in Conn |-> IF b \in {a} THEN [LedgerBook[b] EXCEPT !.status = "failed"]
                                     ELSE LedgerBook[b]]
    BY <1>4, <2>1 DEF Closed, LedgerBook
  <2> QED
    BY <1>1, <1>2, <2>2 DEF Ledger!CloseFailed, LedgerBook, LedgerOwner
<1> QED
  BY <1>3, <1>4 DEF Closed

(* The startup cleanup closes all that are open.                              *)
LEMMA RestartInLedger ==
    ASSUME SystemInv, Interrupted
    PROVE  \E actions \in SUBSET Conn : Ledger!CloseFailed(actions)
<1> DEFINE open == {a \in Conn : rows[a].status = "pending"}
<1>1. \A a \in open : LedgerBook[a] = [status |-> "pending", amount |-> 0]
  BY DEF LedgerBook
<1>2. LedgerOwner' = LedgerOwner /\ moved' = moved
  BY DEF Interrupted, LedgerOwner
<1>3. \A a \in open : [LedgerBook[a] EXCEPT !.status = "failed"] = [status |-> "failed", amount |-> 0]
  BY <1>1
<1>4. LedgerBook' = [a \in Conn |-> IF a \in open THEN [LedgerBook[a] EXCEPT !.status = "failed"]
                                   ELSE LedgerBook[a]]
  BY <1>3 DEF Interrupted, LedgerBook
<1> HIDE DEF open
<1>5. PICK actions \in SUBSET Conn : actions = open
  BY DEF open
<1>6. Ledger!CloseFailed(actions)
  BY <1>1, <1>2, <1>4, <1>5 DEF Ledger!CloseFailed, LedgerBook, LedgerOwner
<1> QED
  BY <1>5, <1>6

(* A transfer that lands moves its action's money.                            *)
LEMMA LandsInLedger ==
    ASSUME SystemInv, NEW a \in Conn, Landed(a)
    PROVE  (Ledger!Move(a, moved'[a]) /\ moved'[a] > 0) \/ UNCHANGED moved
<1>1. LedgerBook' = LedgerBook /\ LedgerOwner' = LedgerOwner
      /\ LedgerBook[a].status \in {"pending", "failed"}
  BY DEF Landed, LedgerBook, LedgerOwner
<1>2. moved \in [Conn -> Nat]
  BY DEF SystemInv, TypeOK, SignerTypeOK
<1>3. CASE moved'[a] = 0
  <2>1. moved' = moved
    BY <1>2, <1>3 DEF Landed
  <2> QED
    BY <2>1
<1>4. CASE moved'[a] # 0
  <2>1. moved'[a] > 0
    BY <1>4 DEF Landed
  <2> QED
    BY <1>1, <2>1 DEF Landed, Ledger!Move, LedgerBook, LedgerOwner
<1> QED
  BY <1>3, <1>4

(* Tracker, socket, signer and chain implement the ledger: every step opens   *)
(* an action, moves its money once, closes one or all that a restart          *)
(* interrupts, or is none of the ledger's business.                           *)
THEOREM SystemImplementsLedger == Spec => ImplementsLedger
<1>1. SystemInv /\ [Next]_vars => [Ledger!LedgerNext]_<<LedgerBook, LedgerOwner, moved>>
  <2> SUFFICES ASSUME SystemInv, [Next]_vars
               PROVE  Ledger!LedgerNext \/ UNCHANGED <<LedgerBook, LedgerOwner, moved>>
    OBVIOUS
  <2>1. CASE RowsAndMoneyStand
    BY <2>1 DEF RowsAndMoneyStand, LedgerBook, LedgerOwner
  <2>2. CASE Interrupted
    BY <2>2, RestartInLedger DEF Ledger!LedgerNext
  <2>3. ASSUME NEW a \in Conn, Inserted(a) PROVE Ledger!LedgerNext
    <3>1. PICK coldkey \in Address : rows'[a].coldkey = coldkey
      BY <2>3 DEF Inserted
    <3>2. Ledger!Open(a, coldkey)
      BY <2>3, <3>1, OpensInLedger
    <3> QED
      BY <3>2 DEF Ledger!LedgerNext
  <2>4. ASSUME NEW a \in Conn, Closed(a) PROVE Ledger!LedgerNext
    <3>1. {a} \in SUBSET Conn
      OBVIOUS
    <3> QED
      BY <2>4, <3>1, ClosesInLedger DEF Ledger!LedgerNext
  <2>5. ASSUME NEW a \in Conn, Landed(a)
        PROVE  Ledger!LedgerNext \/ UNCHANGED <<LedgerBook, LedgerOwner, moved>>
    <3>1. CASE UNCHANGED moved
      BY <2>5, <3>1 DEF Landed, LedgerBook, LedgerOwner
    <3>2. CASE Ledger!Move(a, moved'[a]) /\ moved'[a] > 0
      BY <3>2 DEF Ledger!LedgerNext
    <3> QED
      BY <2>5, <3>1, <3>2, LandsInLedger
  <2> QED
    BY <2>1, <2>2, <2>3, <2>4, <2>5, StepMoves
<1>2. Init => Ledger!LedgerInit
  <2> SUFFICES ASSUME Init PROVE Ledger!LedgerInit
    OBVIOUS
  <2>1. /\ \A a \in Conn : rows[a].status = "absent" /\ rows[a].coldkey = NoAddress
        /\ moved = [a \in Conn |-> 0]
    BY DEF Init, TableInit, SignerInit, NoRow
  <2> QED
    BY <2>1 DEF Ledger!LedgerInit, Ledger!Absent
<1> QED
  BY <1>1, <1>2, SystemInit, SystemNext, PTL
     DEF Spec, ImplementsLedger, Ledger!LedgerSpec, LedgerBook, LedgerOwner
=============================================================================
