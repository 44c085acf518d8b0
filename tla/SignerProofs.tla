----------------------------- MODULE SignerProofs -----------------------------
(***************************************************************************)
(* Proofs about the signing daemon, for every number of connections,        *)
(* wallets, hotkeys and days, every fee table and every cap.                *)
(***************************************************************************)
EXTENDS SignerProperties, Sums

(* A connection the signer holds has been used, so no client can put another *)
(* request on it; and a job is under way only while one is served.           *)
HeldLinesAreUsed ==
    /\ job.phase # "idle" => serving \in Conn
    /\ serving \in Conn => line[serving] # "unused"
    /\ \A i \in 1..Len(inbox) : line[inbox[i]] # "unused"

(* No total is dated after today. *)
TotalsAreDated == spent.day <= today /\ file.day <= today

(* Between _within_daily_cap and _record_spend the payment still fits,       *)
(* whatever the clock does meanwhile.                                        *)
PaymentFits ==
    job.phase = "book" \/ (job.phase = "transfer" /\ asked.op = OpPay) =>
        /\ job.amount <= DailyCap
        /\ spent.day = today => spent.rao + job.amount <= DailyCap

(* A daemon that is down serves nothing. *)
DownIsIdle == ~up => job.phase = "idle"

SpendInv ==
    /\ SignerTypeOK
    /\ HeldLinesAreUsed
    /\ DownIsIdle
    /\ TotalsAreDated
    /\ PaymentFits
    /\ SpendWithinCap

TypeInv == SignerTypeOK /\ HeldLinesAreUsed

-----------------------------------------------------------------------------
(* What the operators the daemon is built from return. *)

(* A request's amount is a number.                                            *)
LEMMA AmountIsNat ==
    ASSUME NEW fees \in [TournamentTypes -> Nat], NEW types \in SUBSET TournamentTypes
    PROVE  AmountOf(fees, types) \in Nat
BY DEF AmountOf, TournamentTypes

(* What ok, failed and unknown answers are made of.                           *)
LEMMA AnswerTypes ==
    /\ \A amount \in Nat : Ok(amount) \in SignResult
    /\ \A why \in ErrorClass : Failed(why) \in SignResult
    /\ \A why \in ErrorClass, amount \in Nat : [Failed(why) EXCEPT !.amount = amount] \in SignResult
    /\ Unknown \in SignResult
    /\ NoResult \in SignResult
    /\ TimeoutAnswer \in SignResult
BY DEF Ok, Failed, Unknown, NoResult, TimeoutAnswer, SignResult, ErrorClass

(* An unstake's answer is an answer.                                          *)
LEMMA SummaryType ==
    \A done, failed, unknown : UnstakeSummary(done, failed, unknown) \in SignResult
BY DEF UnstakeSummary, SignResult, ErrorClass

(* The daemon at rest.                                                        *)
LEMMA IdleType == Idle \in Job
BY AnswerTypes DEF Idle, Job, Phase

(* A job that is settled carries its answer.                                  *)
LEMMA SettleType ==
    ASSUME job \in Job, NEW res \in SignResult, Settle(res)
    PROVE  job' \in Job /\ job'.phase = "reply"
BY DEF Settle, Job, Phase

(* A job that starts its transfer carries destination and amount.             *)
LEMMA StartTransferType ==
    ASSUME job \in Job, NEW to \in Address, NEW amount \in Nat,
           StartTransfer(to, amount)
    PROVE  job' \in Job /\ job'.phase = "transfer" /\ job'.amount = amount
BY DEF StartTransfer, Job, Phase

(* Most steps of the daemon change nothing but the job. *)
OnlyJob == UNCHANGED <<socketVars, bookVars, chainVars, hostVars>>

(* A step of the daemon that changes only its job.                            *)
LEMMA OnlyJobKeepsTypes ==
    ASSUME TypeInv, OnlyJob, job' \in Job, job.phase # "idle"
    PROVE  TypeInv'
BY DEF TypeInv, SignerTypeOK, SocketTypeOK, HeldLinesAreUsed, OnlyJob, socketVars,
       bookVars, chainVars, hostVars

(* The initial state has the types.                                           *)
LEMMA InitTypes == SignerInit => TypeInv
<1> SUFFICES ASSUME SignerInit PROVE TypeInv
  OBVIOUS
<1>1. SocketTypeOK
  <2>1. NoRequest \in SignRequest
    BY DEF NoRequest, SignRequest, Ops, ReadOps, OpBalances, NoAddress
  <2>2. inbox \in Seq(Conn)
    BY DEF SignerInit, SocketInit
  <2> QED
    BY <2>1, <2>2, AnswerTypes DEF SignerInit, SocketInit, SocketTypeOK, LineState
<1>2. job \in Job /\ job.phase = "idle"
  BY IdleType DEF SignerInit, Idle
<1>3. spent \in DaySpend /\ file \in DaySpend /\ bookedOn \in [Conn -> Nat \cup {NoDay}]
  BY DEF SignerInit, NoSpend, DaySpend, NoDay
<1>4. tx \in [Conn -> Tx] /\ utx \in [Conn -> [Hotkey -> TxState]]
  BY DEF SignerInit, NoTx, Tx, TxState
<1>5. free \in [Wallet -> Nat] /\ stake \in [Hotkey -> Nat]
  BY SignerAssumption DEF SignerInit
<1>6. HeldLinesAreUsed
  BY <1>2, SocketAssumption DEF HeldLinesAreUsed, SignerInit, SocketInit
<1> QED
  BY <1>1, <1>2, <1>3, <1>4, <1>5, <1>6 DEF TypeInv, SignerTypeOK, SignerInit

-----------------------------------------------------------------------------
(* Every step keeps the types. *)

(* The checks a request passes before anything is signed.                     *)
LEMMA HandlingTypes ==
    ASSUME TypeInv, HandleRequest
    PROVE  TypeInv'
<1> USE DEF TypeInv, SignerTypeOK
<1>1. job.phase = "handle" /\ OnlyJob
  BY DEF HandleRequest, RejectLine, HandleRead, HandleNoWallet, HandlePay, HandleSweep,
         HandleDistribute, HandleUnstake, Handling, OnlyJob
<1>2. serving \in Conn /\ asked \in SignRequest
  BY <1>1 DEF HeldLinesAreUsed, SocketTypeOK, asked
<1>3. ASSUME NEW res \in SignResult, Settle(res) PROVE job' \in Job
  BY <1>3, SettleType
<1>4. job' \in Job
  <2>1. CASE RejectLine
    BY <2>1, <1>3, AnswerTypes DEF RejectLine, ErrorClass
  <2>2. CASE HandleRead
    BY <2>2, <1>3, AnswerTypes DEF HandleRead, ErrorClass
  <2>3. CASE HandleNoWallet
    BY <2>3, <1>3, AnswerTypes DEF HandleNoWallet, ErrorClass
  <2>4. CASE HandlePay
    <3>1. AmountOf(Fee, asked.types) \in Nat
      BY <1>2, AmountIsNat, SignerAssumption DEF SignRequest
    <3>2. Destination \in Address
      BY SignerAssumption DEF Address
    <3> QED
      BY <2>4, <3>1, <3>2, <1>3, StartTransferType, AnswerTypes DEF HandlePay, ErrorClass
  <2>5. CASE HandleSweep
    <3>1. ASSUME free[asked.coldkey] - Reserve > 0
          PROVE  free[asked.coldkey] - Reserve \in Nat
      BY <2>5, <3>1, SignerAssumption DEF HandleSweep, Sweepable, WorthSweeping
    <3>2. SweepAllowed => Parent \in Address
      BY SignerAssumption DEF SweepAllowed
    <3> QED
      BY <2>5, <3>1, <3>2, <1>3, StartTransferType, AnswerTypes DEF HandleSweep, Sweepable, WorthSweeping, ErrorClass
  <2>6. CASE HandleDistribute
    <3>1. DistributeAllowed => asked.destination \in Address
      BY SignerAssumption DEF DistributeAllowed
    <3>2. asked.amount \in Nat
      BY <1>2 DEF SignRequest
    <3> QED
      BY <2>6, <3>1, <3>2, <1>3, StartTransferType, AnswerTypes DEF HandleDistribute, ErrorClass
  <2>7. CASE HandleUnstake
    <3>1. HotkeysWithStake(asked.coldkey) \subseteq Hotkey
      BY DEF HotkeysWithStake
    <3> QED
      BY <2>7, <3>1, <1>3, AnswerTypes DEF HandleUnstake, ErrorClass, Job, Phase
  <2> QED
    BY <2>1, <2>2, <2>3, <2>4, <2>5, <2>6, <2>7 DEF HandleRequest
<1> QED
  BY <1>1, <1>4, OnlyJobKeepsTypes

(* The transfer: submitted, seen or not seen, booked.                         *)
LEMMA TransferTypes ==
    ASSUME TypeInv, RunTransfer
    PROVE  TypeInv'
<1> USE DEF TypeInv, SignerTypeOK
<1>1. serving \in Conn /\ job.phase # "idle"
  BY DEF RunTransfer, TransferPrinted, TransferUnlockRejected, TransferTimesOut, RecordSpend,
         HeldLinesAreUsed
<1>2. ASSUME NEW res \in SignResult, Settle(res) PROVE job' \in Job /\ job'.phase = "reply"
  BY <1>2, SettleType
<1>3. job.amount \in Nat
  BY DEF Job
<1>4. CASE TransferPrinted
  <2>1. PICK outcome : EndTransfer(outcome)
    BY <1>4 DEF TransferPrinted
  <2>2. job' = [job EXCEPT !.phase = "book"] => job' \in Job
    BY DEF Job, Phase
  <2>3. Failed("btcli") \in SignResult /\ Ok(job.amount) \in SignResult
    BY <1>3, AnswerTypes DEF ErrorClass
  <2>4. job' \in Job
    BY <2>1, <2>2, <2>3, <1>2, AnswerTypes DEF EndTransfer
  <2> QED
    BY <1>1, <1>4, <2>4, OnlyJobKeepsTypes DEF TransferPrinted, OnlyJob
<1>5. CASE TransferUnlockRejected
  <2>1. job' \in Job
    BY <1>2, <1>5, AnswerTypes DEF TransferUnlockRejected, ErrorClass
  <2> QED
    BY <1>1, <1>5, <2>1, OnlyJobKeepsTypes DEF TransferUnlockRejected, OnlyJob
<1>6. CASE TransferTimesOut
  <2>1. job' \in Job
    BY <1>2, <1>6, AnswerTypes DEF TransferTimesOut
  <2> QED
    BY <1>1, <1>6, <2>1, OnlyJobKeepsTypes DEF TransferTimesOut, OnlyJob
<1>7. CASE RecordSpend
  <2>1. job' \in Job
    BY <1>2, <1>3, <1>7, AnswerTypes DEF RecordSpend
  <2>2. Booked(job.amount) \in DaySpend /\ NoSpend \in DaySpend
    BY <1>3 DEF Booked, NoSpend, NoDay, DaySpend
  <2> QED
    BY <1>1, <1>7, <2>1, <2>2
       DEF RecordSpend, SocketTypeOK, HeldLinesAreUsed, socketVars, chainVars, hostVars
<1> QED
  BY <1>4, <1>5, <1>6, <1>7 DEF RunTransfer

(* The unstake, hotkey by hotkey.                                             *)
LEMMA UnstakeTypes ==
    ASSUME TypeInv, RunUnstake
    PROVE  TypeInv'
<1> USE DEF TypeInv, SignerTypeOK
<1>1. OnlyJob /\ job.phase # "idle"
  BY DEF RunUnstake, NextHotkey, BudgetSpent, UnstakePrinted, UnstakeUnlockRejected,
         UnstakeTimesOut, EndUnstake, OnlyJob
<1>2. ASSUME NEW res \in SignResult, Settle(res) PROVE job' \in Job
  BY <1>2, SettleType
<1>3. ASSUME NEW h \in Hotkey, NextHotkey(h) PROVE job' \in Job
  BY <1>3 DEF NextHotkey, Job
<1>4. ASSUME BudgetSpent PROVE job' \in Job
  BY <1>4 DEF BudgetSpent, Job
<1>5. ASSUME UnstakePrinted PROVE job' \in Job
  <2>1. PICK outcome : FileHotkey(outcome)
    BY <1>5 DEF UnstakePrinted
  <2>2. job.hotkey \in Hotkey
    BY <1>5 DEF UnstakePrinted, Job
  <2> QED
    BY <2>1, <2>2 DEF FileHotkey, Job
<1>6. ASSUME UnstakeUnlockRejected \/ EndUnstake PROVE job' \in Job
  BY <1>2, <1>6, SummaryType DEF UnstakeUnlockRejected, EndUnstake
<1>7. ASSUME UnstakeTimesOut PROVE job' \in Job
  BY <1>2, <1>7, AnswerTypes DEF UnstakeTimesOut
<1> QED
  BY <1>1, <1>3, <1>4, <1>5, <1>6, <1>7, OnlyJobKeepsTypes DEF RunUnstake

(* A connection accepted, its line read.                                      *)
LEMMA TakeTypes ==
    ASSUME TypeInv, TakeRequest
    PROVE  TypeInv'
<1> USE DEF TypeInv, SignerTypeOK, SocketTypeOK
<1>1. inbox # <<>> /\ inbox \in Seq(Conn)
  BY DEF TakeRequest, Accept
<1>2. inbox' \in Seq(Conn) /\ Len(inbox') = Len(inbox) - 1
      /\ \A i \in 1..Len(inbox') : inbox'[i] = inbox[i + 1]
  BY <1>1 DEF TakeRequest, Accept
<1>3. Len(inbox) \in Nat \ {0} /\ serving' = inbox[1] /\ serving' \in Conn
  BY <1>1 DEF TakeRequest, Accept
<1>4. job' \in Job
  BY IdleType DEF TakeRequest, Job, Phase, Idle
<1>5. line' = line /\ line[serving'] # "unused"
  <2>1. 1 \in 1..Len(inbox)
    BY <1>3
  <2>2. line[inbox[1]] # "unused"
    BY <2>1 DEF HeldLinesAreUsed
  <2> QED
    BY <1>3, <2>2 DEF TakeRequest, Accept
<1>6. \A i \in 1..Len(inbox') : line'[inbox'[i]] # "unused"
  <2> TAKE i \in 1..Len(inbox')
  <2>1. i + 1 \in 1..Len(inbox)
    BY <1>2, <1>3
  <2> QED
    BY <1>2, <1>5, <2>1 DEF HeldLinesAreUsed
<1>7. HeldLinesAreUsed'
  BY <1>3, <1>5, <1>6 DEF HeldLinesAreUsed
<1> QED
  BY <1>2, <1>3, <1>4, <1>7 DEF TakeRequest, Accept, bookVars, chainVars, hostVars

(* The answer written to its connection.                                      *)
LEMMA ReplyTypes ==
    ASSUME TypeInv, SendReply
    PROVE  TypeInv'
<1> USE DEF TypeInv, SignerTypeOK, SocketTypeOK
<1>1. serving \in Conn /\ job.answer \in SignResult
  BY DEF SendReply, HeldLinesAreUsed, Job
<1>2. line' \in [Conn -> LineState] /\ result' \in [Conn -> SignResult]
  BY <1>1 DEF SendReply, Answer, LineState
<1>3. job' \in Job /\ job'.phase = "idle" /\ serving' = NoConn
  BY IdleType DEF SendReply, Answer, Idle
<1>4. \A c \in Conn : line[c] # "unused" => line'[c] # "unused"
  BY <1>1 DEF SendReply, Answer
<1>5. HeldLinesAreUsed'
  <2>1. inbox' = inbox /\ \A i \in 1..Len(inbox) : inbox[i] \in Conn
    BY DEF SendReply, Answer
  <2> QED
    BY <1>3, <1>4, <2>1, SocketAssumption DEF HeldLinesAreUsed
<1> QED
  BY <1>2, <1>3, <1>5 DEF SendReply, Answer, bookVars, chainVars, hostVars

(* A line given up on: closed without an answer.                              *)
LEMMA DropTypes ==
    ASSUME TypeInv, DropLine
    PROVE  TypeInv'
<1> USE DEF TypeInv, SignerTypeOK, SocketTypeOK
<1>1. serving \in Conn
  BY DEF DropLine, HeldLinesAreUsed
<1>2. line' \in [Conn -> LineState]
  BY <1>1 DEF DropLine, HangUp, LineState
<1>3. job' \in Job /\ job'.phase = "idle" /\ serving' = NoConn
  BY IdleType DEF DropLine, HangUp, Idle
<1>4. \A c \in Conn : line[c] # "unused" => line'[c] # "unused"
  BY <1>1 DEF DropLine, HangUp
<1>5. HeldLinesAreUsed'
  <2>1. inbox' = inbox /\ \A i \in 1..Len(inbox) : inbox[i] \in Conn
    BY DEF DropLine, HangUp
  <2> QED
    BY <1>3, <1>4, <2>1, SocketAssumption DEF HeldLinesAreUsed
<1> QED
  BY <1>2, <1>3, <1>5 DEF DropLine, HangUp, bookVars, chainVars, hostVars

(* Whatever the clients' ends do: use a connection for any request that can   *)
(* be written, give up on one, or vanish.                                     *)
ClientEnd(c) == (\E r \in SignRequest : Connect(c, r)) \/ ConnectFails(c) \/ GiveUp(c)

ClientMove ==
    /\ (\E c \in Conn : ClientEnd(c)) \/ ClientsVanish
    /\ UNCHANGED <<job, bookVars, chainVars, hostVars>>

(* The clients' steps, seen by their connection alone.                        *)
LEMMA ClientStepIsMove == ClientStep => ClientMove
<1> SUFFICES ASSUME ClientStep PROVE ClientMove
  OBVIOUS
<1>1. PICK c \in Conn : (\E r \in Asked : Connect(c, r)) \/ ConnectFails(c) \/ GiveUp(c)
  BY DEF ClientStep
<1>2. ClientEnd(c)
  BY <1>1, AskedAssumption DEF ClientEnd
<1>3. UNCHANGED <<job, bookVars, chainVars, hostVars>>
  BY DEF ClientStep
<1> QED
  BY <1>2, <1>3 DEF ClientMove

(* What the clients do to the socket.                                         *)
LEMMA ClientTypes ==
    ASSUME TypeInv, ClientMove
    PROVE  TypeInv'
<1> USE DEF TypeInv, SignerTypeOK, SocketTypeOK
<1>1. PICK c : \/ c \in Conn /\ \E r \in SignRequest : Connect(c, r)
               \/ c \in Conn /\ (ConnectFails(c) \/ GiveUp(c))
               \/ ClientsVanish
  BY DEF ClientMove, ClientEnd
<1>2. UNCHANGED <<job, bookVars, chainVars, hostVars, serving>>
  BY <1>1 DEF ClientMove, Connect, ConnectFails, GiveUp, ClientsVanish
<1>3. \A i \in 1..Len(inbox) : inbox[i] \in Conn
  OBVIOUS
<1>4. CASE c \in Conn /\ \E r \in SignRequest : Connect(c, r)
  <2>1. PICK r \in SignRequest : Connect(c, r)
    BY <1>4
  <2>2. request' \in [Conn -> SignRequest]
    BY <1>4, <2>1 DEF Connect
  <2>3. /\ inbox' \in Seq(Conn) /\ Len(inbox') = Len(inbox) + 1
        /\ \A i \in 1..Len(inbox) : inbox'[i] = inbox[i]
        /\ inbox'[Len(inbox) + 1] = c
    BY <1>4, <2>1 DEF Connect
  <2>4. line' = [line EXCEPT ![c] = "sent"]
    BY <1>4, <2>1 DEF Connect
  <2>5. HeldLinesAreUsed'
    <3>1. \A i \in 1..Len(inbox') : line'[inbox'[i]] # "unused"
      <4> TAKE i \in 1..Len(inbox')
      <4>1. CASE i \in 1..Len(inbox)
        BY <4>1, <1>3, <2>3, <2>4 DEF HeldLinesAreUsed
      <4>2. CASE i = Len(inbox) + 1
        BY <4>2, <2>3, <2>4
      <4> QED
        BY <4>1, <4>2, <2>3
    <3> QED
      BY <3>1, <1>2, <2>4 DEF HeldLinesAreUsed
  <2> QED
    BY <1>2, <1>4, <2>1, <2>2, <2>3, <2>4, <2>5
       DEF Connect, LineState, bookVars, chainVars, hostVars
<1>5. CASE (c \in Conn /\ (ConnectFails(c) \/ GiveUp(c))) \/ ClientsVanish
  <2>1. line' \in [Conn -> LineState] /\ \A d \in Conn : line[d] # "unused" => line'[d] # "unused"
    BY <1>5 DEF ConnectFails, GiveUp, ClientsVanish, LineState
  <2>2. UNCHANGED <<request, result, inbox, up>>
    BY <1>5 DEF ConnectFails, GiveUp, ClientsVanish
  <2>3. HeldLinesAreUsed'
    BY <1>2, <1>3, <2>1, <2>2 DEF HeldLinesAreUsed
  <2> QED
    BY <1>2, <2>1, <2>2, <2>3 DEF bookVars, chainVars, hostVars
<1> QED
  BY <1>1, <1>4, <1>5

(* The job but for whether its run of btcli has signed.                       *)
jobButSigned ==
    <<job.phase, job.to, job.amount, job.hotkey, job.left, job.done, job.failed, job.unknown, job.answer>>

(* Of the daemon's own state the chain's steps note one thing: that the       *)
(* running btcli handed over its extrinsic.                                   *)
LEMMA ChainKeepsTheJob ==
    ASSUME job \in Job, ChainStep
    PROVE  /\ job' \in Job /\ UNCHANGED jobButSigned
           /\ UNCHANGED <<socketVars, bookVars, hostVars>> /\ serving' = serving /\ asked' = asked
<1>1. UNCHANGED <<socketVars, bookVars, hostVars>> /\ serving' = serving /\ asked' = asked
  BY DEF ChainStep, SubmitTransfer, SubmitUnstake, TransferLands, TransferDropped,
         UnstakeLands, UnstakeDropped, socketVars, asked
<1>2. job' = job \/ job' = [job EXCEPT !.signed = TRUE]
  BY DEF ChainStep, SubmitTransfer, SubmitUnstake, TransferLands, TransferDropped,
         UnstakeLands, UnstakeDropped
<1>3. job' \in Job /\ UNCHANGED jobButSigned
  BY <1>2 DEF Job, jobButSigned
<1> QED
  BY <1>1, <1>3

(* The chain is done with the transfer of request d. *)
Settles(d) == TransferLands(d) \/ TransferDropped(d)

(* What settling a transfer does to the transfers: it is landed or dropped,   *)
(* and no other changes.                                                      *)
LEMMA SettlingIsOne ==
    ASSUME tx \in [Conn -> Tx], NEW d \in Conn, Settles(d)
    PROVE  /\ tx[d].state = "submitted" /\ tx' \in [Conn -> Tx]
           /\ TransferLands(d) => tx'[d].state = "landed"
           /\ TransferDropped(d) => tx'[d].state = "dropped"
           /\ tx'[d].from = tx[d].from /\ tx'[d].to = tx[d].to /\ tx'[d].amount = tx[d].amount
           /\ \A e \in Conn : e # d => tx'[e] = tx[e]
<1>1. tx[d].state = "submitted"
  BY DEF Settles, TransferLands, TransferDropped
<1>2. TransferLands(d) => tx' = [tx EXCEPT ![d].state = "landed"]
  BY DEF TransferLands
<1>3. TransferDropped(d) => tx' = [tx EXCEPT ![d].state = "dropped"]
  BY DEF TransferDropped
<1>4. PICK state \in {"landed", "dropped"} :
          /\ tx' = [tx EXCEPT ![d].state = state]
          /\ TransferLands(d) => state = "landed"
          /\ TransferDropped(d) => state = "dropped"
  <2>1. tx[d] \in Tx
    OBVIOUS
  <2>2. ~(TransferLands(d) /\ TransferDropped(d))
    BY <1>2, <1>3, <2>1 DEF Tx
  <2> QED
    BY <1>2, <1>3, <2>2 DEF Settles
<1>5. /\ tx' \in [Conn -> Tx] /\ tx'[d].state = state
      /\ tx'[d].from = tx[d].from /\ tx'[d].to = tx[d].to /\ tx'[d].amount = tx[d].amount
      /\ \A e \in Conn : e # d => tx'[e] = tx[e]
  BY <1>4 DEF Tx, TxState
<1> QED
  BY <1>1, <1>4, <1>5

(* What the chain does by itself.                                             *)
LEMMA ChainTypes ==
    ASSUME TypeInv, ChainStep
    PROVE  TypeInv'
<1> USE DEF TypeInv, SignerTypeOK
<1>1. UNCHANGED <<socketVars, bookVars, hostVars>> /\ job' \in Job /\ job'.phase = job.phase
  BY ChainKeepsTheJob DEF jobButSigned
<1>2. SocketTypeOK' /\ HeldLinesAreUsed'
  BY <1>1 DEF SocketTypeOK, HeldLinesAreUsed, socketVars
<1>3. CASE SubmitTransfer
  <2>1. serving \in Conn /\ asked.coldkey \in Address \cup {NoAddress}
    BY <1>3 DEF SubmitTransfer, HeldLinesAreUsed, asked, SocketTypeOK, SignRequest
  <2>2. tx' \in [Conn -> Tx]
    BY <1>3, <2>1 DEF SubmitTransfer, Tx, TxState, Job
  <2> QED
    BY <1>1, <1>2, <1>3, <2>2 DEF SubmitTransfer, bookVars, hostVars
<1>4. CASE SubmitUnstake
  <2>1. serving \in Conn
    BY <1>4 DEF SubmitUnstake, HeldLinesAreUsed
  <2>2. utx' \in [Conn -> [Hotkey -> TxState]]
    BY <1>4, <2>1 DEF SubmitUnstake, TxState
  <2> QED
    BY <1>1, <1>2, <1>4, <2>2 DEF SubmitUnstake, bookVars, hostVars
<1>5. ASSUME NEW c \in Conn, TransferLands(c) PROVE TypeInv'
  <2>1. tx[c] \in Tx /\ tx[c].amount \in Nat
    BY DEF Tx
  <2>2. tx' \in [Conn -> Tx]
    BY <1>5 DEF TransferLands, Tx, TxState
  <2>3. moved' \in [Conn -> Nat]
    BY <1>5, <2>1 DEF TransferLands
  <2> DEFINE debited == [free EXCEPT ![tx[c].from] = @ - (tx[c].amount + ChainFee)]
  <2>4. debited \in [Wallet -> Nat]
    <3>1. \A w \in Wallet : w = tx[c].from => free[w] - (tx[c].amount + ChainFee) \in Nat
      BY <1>5, <2>1, SignerAssumption DEF TransferLands
    <3> QED
      BY <3>1
  <2>5. free' = Credit(debited, tx[c].to, tx[c].amount)
    BY <1>5 DEF TransferLands
  <2> HIDE DEF debited
  <2>6. free' \in [Wallet -> Nat]
    BY <2>1, <2>4, <2>5 DEF Credit
  <2> QED
    BY <1>1, <1>2, <1>5, <2>2, <2>3, <2>6 DEF TransferLands, bookVars, hostVars
<1>6. ASSUME NEW c \in Conn, TransferDropped(c) PROVE TypeInv'
  <2>1. tx' \in [Conn -> Tx]
    BY <1>6, SettlingIsOne DEF Settles
  <2>2. PICK cost \in {0, ChainFee} : /\ free[tx[c].from] >= cost
                                      /\ free' = [free EXCEPT ![tx[c].from] = @ - cost]
    BY <1>6 DEF TransferDropped
  <2>4. cost \in Nat
    BY SignerAssumption
  <2>3. free' \in [Wallet -> Nat]
    <3>1. \A w \in Wallet : w = tx[c].from => free[w] - cost \in Nat
      BY <2>2, <2>4
    <3> QED
      BY <2>2, <3>1
  <2> QED
    BY <1>1, <1>2, <1>6, <2>1, <2>3 DEF TransferDropped, bookVars, hostVars
<1>7. ASSUME NEW c \in Conn, NEW h \in Hotkey, UnstakeLands(c, h) PROVE TypeInv'
  <2>1. utx' \in [Conn -> [Hotkey -> TxState]]
    BY <1>7 DEF UnstakeLands, TxState
  <2>2. PICK part \in 1..stake[h] : /\ stake' = [stake EXCEPT ![h] = @ - part]
                                    /\ free' = [free EXCEPT ![Owner[h]] = @ + part]
    BY <1>7 DEF UnstakeLands
  <2>3. stake[h] \in Nat /\ part \in Nat /\ stake[h] - part \in Nat /\ Owner[h] \in Wallet
    BY SignerAssumption
  <2>4. stake' \in [Hotkey -> Nat] /\ free' \in [Wallet -> Nat]
    BY <2>2, <2>3
  <2> QED
    BY <1>1, <1>2, <1>7, <2>1, <2>4 DEF UnstakeLands, bookVars, hostVars
<1>8. ASSUME NEW c \in Conn, NEW h \in Hotkey, UnstakeDropped(c, h) PROVE TypeInv'
  <2>1. utx' \in [Conn -> [Hotkey -> TxState]]
    BY <1>8 DEF UnstakeDropped, TxState
  <2> QED
    BY <1>1, <1>2, <1>8, <2>1 DEF UnstakeDropped, bookVars, hostVars
<1> QED
  BY <1>3, <1>4, <1>5, <1>6, <1>7, <1>8 DEF ChainStep

(* Midnight, the daemon's death and its restart.                              *)
LEMMA HostTypes ==
    ASSUME TypeInv, HostStep
    PROVE  TypeInv'
<1> USE DEF TypeInv, SignerTypeOK
<1>1. CASE Midnight
  <2>1. SocketTypeOK' /\ HeldLinesAreUsed'
    BY <1>1 DEF Midnight, SocketTypeOK, HeldLinesAreUsed, socketVars
  <2> QED
    BY <1>1, <2>1 DEF Midnight, socketVars, bookVars, chainVars
<1>2. CASE Crash
  <2>1. SocketTypeOK'
    <3>1. line' \in [Conn -> LineState]
      BY <1>2 DEF Crash, ServerVanishes, SocketTypeOK, LineState
    <3>2. inbox' \in Seq(Conn)
      BY <1>2 DEF Crash, ServerVanishes
    <3> QED
      BY <1>2, <3>1, <3>2 DEF Crash, ServerVanishes, SocketTypeOK
  <2>2. job' \in Job /\ job'.phase = "idle" /\ inbox' = <<>> /\ serving' = NoConn
    BY <1>2, IdleType DEF Crash, ServerVanishes, Idle
  <2>3. HeldLinesAreUsed'
    BY <2>2, SocketAssumption DEF HeldLinesAreUsed
  <2>4. file' \in DaySpend /\ unsaved' \in BOOLEAN /\ crashes' \in Nat
    <3>1. NoSpend \in DaySpend
      BY DEF NoSpend, DaySpend, NoDay
    <3>2. crashes' \in Nat
      BY <1>2 DEF Crash
    <3>3. file' \in DaySpend /\ unsaved' \in BOOLEAN
      BY <1>2, <3>1 DEF Crash
    <3> QED
      BY <3>2, <3>3
  <2> QED
    BY <1>2, <2>1, <2>2, <2>3, <2>4 DEF Crash, chainVars
<1>3. CASE Restart
  <2>1. SocketTypeOK' /\ HeldLinesAreUsed'
    BY <1>3 DEF Restart, ServerListens, SocketTypeOK, HeldLinesAreUsed
  <2> QED
    BY <1>3, <2>1 DEF Restart, ServerListens, chainVars
<1> QED
  BY <1>1, <1>2, <1>3 DEF HostStep

(* Every step keeps the types.                                                *)
LEMMA NextTypes == TypeInv /\ [SignerNext]_signerVars => TypeInv'
<1> SUFFICES ASSUME TypeInv, [SignerNext]_signerVars PROVE TypeInv'
  OBVIOUS
<1>1. CASE SignerNext
  BY <1>1, HandlingTypes, TransferTypes, UnstakeTypes, TakeTypes, DropTypes, ReplyTypes, ClientTypes,
     ChainTypes, HostTypes, ClientStepIsMove DEF SignerNext, SignerStep
<1>2. CASE UNCHANGED signerVars
  BY <1>2 DEF TypeInv, SignerTypeOK, SocketTypeOK, HeldLinesAreUsed, signerVars, socketVars,
              bookVars, chainVars, hostVars
<1> QED
  BY <1>1, <1>2

(* The daemon's state, the socket's and the chain's keep their types, for     *)
(* every instance: no step works on a connection that is not there.           *)
THEOREM SignerTypeCorrect == SignerSpec => []SignerTypeOK
<1>1. TypeInv => SignerTypeOK
  BY DEF TypeInv
<1> QED
  BY <1>1, InitTypes, NextTypes, PTL DEF SignerSpec

-----------------------------------------------------------------------------
(* The daily cap. *)

(* What keeps the totals, the clock and the served request as they are keeps  *)
(* the cap's invariant unless the job turns into a payment.                   *)
LEMMA NoPaymentStarts ==
    ASSUME SpendInv,
           UNCHANGED <<spent, file, today, up>>,
           up \/ job' = job,
           \/ job'.phase \notin {"transfer", "book"}
           \/ job' = job /\ (job.phase # "idle" => asked' = asked)
    PROVE  (DownIsIdle /\ TotalsAreDated /\ PaymentFits /\ SpendWithinCap)'
BY DEF SpendInv, DownIsIdle, TotalsAreDated, PaymentFits, SpendWithinCap

(* Before a payment is signed the cap has been checked for it.                *)
LEMMA HandlingSpend ==
    ASSUME SpendInv, HandleRequest
    PROVE  (DownIsIdle /\ TotalsAreDated /\ PaymentFits /\ SpendWithinCap)'
<1>1. job.phase = "handle" /\ OnlyJob /\ up /\ job \in Job /\ serving \in Conn
  BY DEF HandleRequest, RejectLine, HandleRead, HandleNoWallet, HandlePay, HandleSweep,
         HandleDistribute, HandleUnstake, Handling, OnlyJob, SpendInv, SignerTypeOK, DownIsIdle,
         HeldLinesAreUsed
<1>2. UNCHANGED <<spent, file, today, up, request, serving>> /\ asked' = asked
  BY <1>1 DEF OnlyJob, socketVars, bookVars, hostVars, asked
<1>3. ASSUME job'.phase \notin {"transfer", "book"}
      PROVE  (DownIsIdle /\ TotalsAreDated /\ PaymentFits /\ SpendWithinCap)'
  BY <1>1, <1>2, <1>3, NoPaymentStarts
<1>4. ASSUME NEW res, Settle(res) PROVE job'.phase = "reply"
  BY <1>1, <1>4 DEF Settle, Job
<1>5. CASE RejectLine \/ HandleRead \/ HandleNoWallet
  <2>1. job'.phase = "reply"
    BY <1>4, <1>5 DEF RejectLine, HandleRead, HandleNoWallet
  <2> QED
    BY <1>3, <2>1
<1>6. CASE HandleSweep \/ HandleDistribute
  <2>1. asked.op # OpPay
    BY <1>6 DEF HandleSweep, HandleDistribute, Handling, OpSweep, OpDistribute, OpPay
  <2>2. job'.phase # "book"
    BY <1>1, <1>4, <1>6 DEF HandleSweep, HandleDistribute, StartTransfer, Job
  <2> QED
    BY <1>1, <1>2, <2>1, <2>2 DEF SpendInv, DownIsIdle, TotalsAreDated, PaymentFits, SpendWithinCap
<1>7. CASE HandleUnstake
  <2>1. job'.phase \in {"reply", "unstake"}
    BY <1>1, <1>4, <1>7 DEF HandleUnstake, Job
  <2> QED
    BY <1>3, <2>1
<1>8. CASE HandlePay
  <2> DEFINE amount == AmountOf(Fee, asked.types)
  <2>1. amount \in Nat
    <3>1. asked.types \in SUBSET TournamentTypes
      BY <1>1 DEF asked, SpendInv, SignerTypeOK, SocketTypeOK, SignRequest
    <3> QED
      BY <3>1, AmountIsNat, SignerAssumption
  <2>2. CASE WithinDailyCap(amount) /\ StartTransfer(Destination, amount)
    <3>1. job'.phase = "transfer" /\ job'.amount = amount
      BY <1>1, <2>2 DEF StartTransfer, Job
    <3>2. amount <= DailyCap /\ (spent.day = today => spent.rao + amount <= DailyCap)
      BY <2>1, <2>2, SignerAssumption DEF WithinDailyCap, SpendInv, SignerTypeOK, DaySpend
    <3> QED
      BY <1>1, <1>2, <3>1, <3>2
         DEF SpendInv, DownIsIdle, TotalsAreDated, PaymentFits, SpendWithinCap
  <2>3. CASE Settle([Failed("refused") EXCEPT !.amount = amount])
    BY <1>3, <1>4, <2>3
  <2> QED
    BY <1>8, <2>2, <2>3 DEF HandlePay
<1> QED
  BY <1>5, <1>6, <1>7, <1>8 DEF HandleRequest

(* The booking of a payment stays within the cap it was checked for.          *)
LEMMA TransferSpend ==
    ASSUME SpendInv, RunTransfer
    PROVE  (DownIsIdle /\ TotalsAreDated /\ PaymentFits /\ SpendWithinCap)'
<1>1. up /\ job \in Job /\ serving \in Conn
  BY DEF RunTransfer, TransferPrinted, TransferUnlockRejected, TransferTimesOut, RecordSpend,
         SpendInv, SignerTypeOK, DownIsIdle, HeldLinesAreUsed
<1>2. ASSUME NEW res, Settle(res) PROVE job'.phase = "reply"
  BY <1>1, <1>2 DEF Settle, Job
<1>3. CASE TransferPrinted
  <2>1. PICK outcome : EndTransfer(outcome)
    BY <1>3 DEF TransferPrinted
  <2>2. UNCHANGED <<spent, file, today, up>> /\ asked' = asked /\ job.phase = "transfer"
    BY <1>3 DEF TransferPrinted, socketVars, bookVars, hostVars, asked
  <2>3. CASE job'.phase = "reply"
    BY <1>1, <2>2, <2>3, NoPaymentStarts
  <2>4. CASE asked.op = OpPay /\ job' = [job EXCEPT !.phase = "book"]
    <3>1. job'.amount = job.amount
      BY <1>1, <2>4 DEF Job
    <3> QED
      BY <1>1, <2>2, <2>4, <3>1
         DEF SpendInv, DownIsIdle, TotalsAreDated, PaymentFits, SpendWithinCap
  <2> QED
    BY <1>2, <2>1, <2>3, <2>4 DEF EndTransfer
<1>4. CASE TransferUnlockRejected \/ TransferTimesOut
  <2>1. UNCHANGED <<spent, file, today, up>> /\ job'.phase = "reply"
    BY <1>2, <1>4 DEF TransferUnlockRejected, TransferTimesOut, socketVars, bookVars, hostVars
  <2> QED
    BY <1>1, <2>1, NoPaymentStarts
<1>5. CASE RecordSpend
  <2>1. /\ job.amount <= DailyCap
        /\ spent.day = today => spent.rao + job.amount <= DailyCap
    BY <1>5 DEF RecordSpend, SpendInv, PaymentFits
  <2>2. spent' = Booked(job.amount) /\ job'.phase = "reply" /\ UNCHANGED <<today, up>>
    BY <1>2, <1>5 DEF RecordSpend, socketVars, hostVars
  <2>3. spent'.rao <= DailyCap /\ spent'.day = today
    BY <2>1, <2>2 DEF Booked, SpendInv, SignerTypeOK, DaySpend
  <2>4. file' = spent' \/ file' = file \/ file' = NoSpend
    BY <1>5 DEF RecordSpend
  <2>5. today \in Nat /\ DailyCap \in Nat
    BY SignerAssumption DEF SpendInv, SignerTypeOK
  <2> QED
    BY <1>1, <2>2, <2>3, <2>4, <2>5
       DEF NoSpend, NoDay, SpendInv, DownIsIdle, TotalsAreDated, PaymentFits, SpendWithinCap
<1> QED
  BY <1>3, <1>4, <1>5 DEF RunTransfer

(* Neither midnight nor a restart raises the total.                           *)
LEMMA HostSpend ==
    ASSUME SpendInv, HostStep
    PROVE  (DownIsIdle /\ TotalsAreDated /\ PaymentFits /\ SpendWithinCap)'
<1> USE DEF SpendInv, DownIsIdle, TotalsAreDated, PaymentFits, SpendWithinCap
<1>1. today \in Nat /\ spent \in DaySpend /\ file \in DaySpend /\ DailyCap \in Nat
  BY SignerAssumption DEF SignerTypeOK
<1>2. CASE Midnight
  <2>1. today' = today + 1 /\ UNCHANGED <<spent, file, job, up>> /\ asked' = asked
    BY <1>2 DEF Midnight, socketVars, bookVars, asked
  <2> QED
    BY <1>1, <2>1 DEF DaySpend, NoDay
<1>3. CASE Crash
  <2>1. job'.phase = "idle" /\ UNCHANGED <<spent, today>>
    BY <1>3 DEF Crash, Idle
  <2>2. file' = file \/ file' = NoSpend
    BY <1>3 DEF Crash
  <2> QED
    BY <1>1, <2>1, <2>2 DEF NoSpend, NoDay
<1>4. CASE Restart
  <2>1. job.phase = "idle" /\ job' = job /\ spent' = file /\ UNCHANGED <<file, today>>
    BY <1>4 DEF Restart, ServerListens
  <2> QED
    BY <2>1
<1> QED
  BY <1>2, <1>3, <1>4 DEF HostStep

(* Every step keeps both totals within the cap.                               *)
LEMMA NextSpend == SpendInv /\ [SignerNext]_signerVars => SpendInv'
<1> SUFFICES ASSUME SpendInv, [SignerNext]_signerVars
             PROVE  (DownIsIdle /\ TotalsAreDated /\ PaymentFits /\ SpendWithinCap)'
  BY NextTypes DEF SpendInv, TypeInv
<1>1. CASE TakeRequest \/ DropLine \/ SendReply
  <2>1. UNCHANGED <<spent, file, today, up>> /\ up /\ job'.phase \in {"handle", "idle"}
    BY <1>1 DEF TakeRequest, DropLine, HangUp, SendReply, Accept, Answer, Idle, bookVars, hostVars, SpendInv, DownIsIdle
  <2> QED
    BY <2>1, NoPaymentStarts
<1>2. CASE RunUnstake
  <2>1. UNCHANGED <<spent, file, today, up>>
    BY <1>2 DEF RunUnstake, NextHotkey, BudgetSpent, UnstakePrinted, UnstakeUnlockRejected,
                UnstakeTimesOut, EndUnstake, socketVars, bookVars, hostVars
  <2>2. job \in Job /\ job.phase = "unstake" /\ up
    BY <1>2 DEF RunUnstake, NextHotkey, BudgetSpent, UnstakePrinted, UnstakeUnlockRejected,
                UnstakeTimesOut, EndUnstake, SpendInv, SignerTypeOK, DownIsIdle
  <2>3. job'.phase \in {"unstake", "reply"}
    BY <1>2, <2>2 DEF RunUnstake, NextHotkey, BudgetSpent, UnstakePrinted, FileHotkey,
                UnstakeUnlockRejected, UnstakeTimesOut, EndUnstake, Settle, Job
  <2> QED
    BY <2>1, <2>2, <2>3, NoPaymentStarts
<1>3. CASE ChainStep
  <2>1. /\ UNCHANGED <<spent, file, today, up>> /\ asked' = asked
        /\ job'.phase = job.phase /\ job'.amount = job.amount
    BY <1>3, ChainKeepsTheJob DEF SpendInv, SignerTypeOK, socketVars, bookVars, hostVars, jobButSigned
  <2> QED
    BY <2>1 DEF SpendInv, DownIsIdle, TotalsAreDated, PaymentFits, SpendWithinCap
<1>4. CASE ClientStep
  <2>1. PICK c \in Conn : (\E r \in Asked : Connect(c, r)) \/ ConnectFails(c) \/ GiveUp(c)
    BY <1>4 DEF ClientStep
  <2>2. UNCHANGED <<job, spent, file, today, up, serving>>
    BY <1>4, <2>1 DEF ClientStep, Connect, ConnectFails, GiveUp, bookVars, hostVars
  <2>3. \A d \in Conn : line[d] # "unused" => request'[d] = request[d]
    BY <2>1 DEF Connect, ConnectFails, GiveUp, SpendInv, SignerTypeOK, SocketTypeOK
  <2>4. job.phase # "idle" => asked' = asked
    BY <2>2, <2>3 DEF SpendInv, HeldLinesAreUsed, asked
  <2> QED
    BY <2>2, <2>4, NoPaymentStarts
<1>5. CASE UNCHANGED signerVars
  BY <1>5, NoPaymentStarts DEF signerVars, socketVars, bookVars, hostVars, asked
<1> QED
  BY <1>1, <1>2, <1>3, <1>4, <1>5, HandlingSpend, TransferSpend, HostSpend
     DEF SignerNext, SignerStep

(* The daemon starts with nothing spent.                                      *)
LEMMA InitSpend == SignerInit => SpendInv
<1> SUFFICES ASSUME SignerInit PROVE SpendInv
  OBVIOUS
<1>1. DownIsIdle /\ PaymentFits
  BY DEF SignerInit, SocketInit, Idle, DownIsIdle, PaymentFits
<1>2. TotalsAreDated /\ SpendWithinCap
  BY SignerAssumption DEF SignerInit, NoSpend, NoDay, TotalsAreDated, SpendWithinCap
<1> QED
  BY <1>1, <1>2, InitTypes DEF SpendInv, TypeInv

(* Neither the running total nor its copy on disk ever exceeds the daily cap, *)
(* wherever midnight, a crash or a failed write falls.                        *)
THEOREM SpendStaysWithinCap == SignerSpec => []SpendWithinCap
<1>1. SpendInv => SpendWithinCap
  BY DEF SpendInv
<1> QED
  BY <1>1, InitSpend, NextSpend, PTL DEF SignerSpec

-----------------------------------------------------------------------------
(***************************************************************************)
(* What the daemon answers, against what the chain did: an ok has landed, a *)
(* classified failure left no trace, and a sweep leaves the reserve.        *)
(***************************************************************************)

(* The connections that wait to be accepted. *)
Queued == {inbox[i] : i \in 1..Len(inbox)}

(* Every request the signer holds is held in one place. *)
HeldOnce ==
    /\ serving \in Conn => job.phase # "idle"
    /\ serving \notin Queued
    /\ \A i, j \in 1..Len(inbox) : inbox[i] = inbox[j] => i = j

(* No answer was written on a connection the signer holds. *)
HeldIsUnanswered ==
    \A c \in Conn : c \in Queued \/ c = serving =>
        line[c] \in {"sent", "abandoned"} /\ result[c] = NoResult

NoTrace(c) ==
    /\ tx[c].state = "none"
    /\ \A h \in Hotkey : utx[c][h] = "none"

(* Nothing was done yet for a connection nobody used, or that waits. *)
FreshHasNoTrace ==
    /\ \A c \in Queued : NoTrace(c)
    /\ \A c \in Conn : line[c] = "unused" => NoTrace(c) /\ result[c] = NoResult

MovedAsLanded ==
    \A c \in Conn : moved[c] = IF tx[c].state = "landed" THEN tx[c].amount ELSE 0

(* What is on the chain is there for a request of its kind. *)
TracesAreAskedFor ==
    \A c \in Conn :
        /\ tx[c].state # "none" => request[c].op \in TransferOps
        /\ \A h \in Hotkey : utx[c][h] # "none" => request[c].op = OpUnstake

(* The answer res says of request c what became of it. *)
Honest(c, res) ==
    /\ res.ok => IF request[c].op \in TransferOps
                 THEN tx[c].state = "landed" /\ tx[c].amount = res.amount
                 ELSE res.amount = 0
    /\ res # NoResult /\ ~res.ok /\ ~res.unknown /\ res.error # "crash" => LeftNoTrace(c)
    /\ res.ok /\ res.error = "none" /\ request[c].op = OpUnstake =>
           \A h \in HotkeysWithStake(request[c].coldkey) : utx[c][h] = "landed"

AnswersAreHonest ==
    /\ \A c \in Conn : Honest(c, result[c])
    /\ \A c \in Conn : line[c] = "answered" => result[c] # NoResult

(* What the job knows while btcli runs a transfer, ... *)
TransferUnderWay ==
    /\ asked.op \in TransferOps
    /\ \A h \in Hotkey : utx[serving][h] = "none"
    /\ tx[serving].state # "none" => tx[serving].amount = job.amount
    /\ job.signed <=> tx[serving].state # "none"

(* ... and while it goes through the hotkeys: whatever it put on the chain is *)
(* filed as done or unknown, or is the one at hand, nothing is there yet for  *)
(* the hotkeys to come, and no hotkey is missed.                              *)
UnstakeUnderWay ==
    /\ asked.op = OpUnstake
    /\ tx[serving].state = "none"
    /\ \A h \in Hotkey : utx[serving][h] \in {"submitted", "landed"} =>
           h \in job.done \cup job.unknown \cup {job.hotkey}
    /\ \A h \in job.done : utx[serving][h] = "landed"
    /\ \A h \in job.left : utx[serving][h] = "none" /\ h # job.hotkey
    /\ job.hotkey \in Hotkey => (job.signed <=> utx[serving][job.hotkey] # "none")
    /\ HotkeysWithStake(asked.coldkey) \subseteq
           job.left \cup {job.hotkey} \cup job.done \cup job.failed \cup job.unknown

JobIsHonest ==
    /\ job.phase = "handle"   => /\ NoTrace(serving)
                                 /\ job.done = {} /\ job.hotkey = NoHotkey /\ ~job.signed
    /\ job.phase = "transfer" => TransferUnderWay
    /\ job.phase = "book"     => /\ asked.op = OpPay
                                 /\ tx[serving].state = "landed"
                                 /\ tx[serving].amount = job.amount
    /\ job.phase = "unstake"  => UnstakeUnderWay
    /\ job.phase = "reply"    => Honest(serving, job.answer) /\ job.answer # NoResult

ChainIsSound == MovedAsLanded /\ TracesAreAskedFor
HeldIsSound  == HeldOnce /\ HeldIsUnanswered /\ FreshHasNoTrace
Verdicts     == HeldIsSound /\ ChainIsSound /\ AnswersAreHonest /\ JobIsHonest
VerdictInv   == TypeInv /\ Verdicts

(* As long as a sweep has not landed, its wallet holds the reserve besides    *)
(* the amount, or another transfer of that wallet was settled and one of the  *)
(* two was left in doubt.                                                     *)
ReserveIsLeft(c, wallet, amount) ==
    \/ free[wallet] >= amount + Reserve
    \/ \E d \in Conn \ {c} : /\ tx[d].from = wallet
                            /\ tx[d].state \in {"landed", "dropped"}
                            /\ \E e \in {c, d} : InDoubt(e)

SweepsLeaveReserve ==
    /\ job.phase = "transfer" /\ asked.op = OpSweep /\ tx[serving].state = "none" =>
           asked.coldkey \in Wallet /\ ReserveIsLeft(serving, asked.coldkey, job.amount)
    /\ \A c \in Conn : tx[c].state = "submitted" /\ request[c].op = OpSweep =>
           tx[c].from \in Wallet /\ ReserveIsLeft(c, tx[c].from, tx[c].amount)

SweepInv == VerdictInv /\ SweepsLeaveReserve

-----------------------------------------------------------------------------
(* What the parsers make of what btcli may have printed. *)

(* The verdict on a transfer, read off what btcli printed.                    *)
LEMMA TransferVerdict ==
    ASSUME NEW state \in TxState, NEW out \in TransferScreen(state)
    PROVE  /\ ParseTransfer(out) = "success" => state = "landed"
           /\ ParseTransfer(out) = "failure" => state \in {"none", "dropped"}
BY DEF TxState, TransferScreen, ParseTransfer

(* The verdict on one hotkey's unstake.                                       *)
LEMMA UnstakeVerdict ==
    ASSUME NEW state \in TxState, NEW out \in UnstakeScreen(state)
    PROVE  /\ ParseUnstake(out) = "success" => state = "landed"
           /\ ParseUnstake(out) = "failure" => state \in {"none", "dropped"}
BY DEF TxState, UnstakeScreen, ParseUnstake

(* The queue as a set: what Accept takes out and Connect puts in. *)

(* Accepting a connection moves no other.                                     *)
LEMMA AcceptTakesOne ==
    ASSUME SocketTypeOK, HeldOnce, Accept
    PROVE  /\ serving' \in Queued
           /\ Queued' = Queued \ {serving'}
           /\ \A i, j \in 1..Len(inbox') : inbox'[i] = inbox'[j] => i = j
<1>1. inbox \in Seq(Conn) /\ inbox # <<>>
  BY DEF SocketTypeOK, Accept
<1>2. /\ Len(inbox) \in Nat \ {0} /\ Len(inbox') = Len(inbox) - 1
      /\ \A i \in 1..Len(inbox') : inbox'[i] = inbox[i + 1]
      /\ serving' = inbox[1]
  BY <1>1 DEF Accept
<1>3. \A i \in 1..Len(inbox) : i # 1 => i - 1 \in 1..Len(inbox') /\ inbox'[i - 1] = inbox[i]
  BY <1>2
<1>4. \A i \in 1..Len(inbox') : i + 1 \in 1..Len(inbox) /\ i + 1 # 1
  BY <1>2
<1>5. \A i, j \in 1..Len(inbox') : inbox'[i] = inbox'[j] => i = j
  <2> TAKE i, j \in 1..Len(inbox')
  <2> HAVE inbox'[i] = inbox'[j]
  <2>1. i + 1 = j + 1
    BY <1>2, <1>4 DEF HeldOnce
  <2> QED
    BY <2>1, <1>2
<1>6. serving' \in Queued
  BY <1>2 DEF Queued
<1>7. ASSUME NEW x \in Queued' PROVE x \in Queued \ {serving'}
  <2>1. PICK i \in 1..Len(inbox') : x = inbox'[i]
    BY DEF Queued
  <2>2. x = inbox[i + 1] /\ i + 1 \in 1..Len(inbox) /\ i + 1 # 1 /\ 1 \in 1..Len(inbox)
    BY <1>2, <1>4, <2>1
  <2> QED
    BY <1>2, <2>2 DEF Queued, HeldOnce
<1>8. ASSUME NEW x \in Queued \ {serving'} PROVE x \in Queued'
  <2>1. PICK i \in 1..Len(inbox) : x = inbox[i]
    BY DEF Queued
  <2>2. i # 1
    BY <1>2, <2>1
  <2> QED
    BY <1>3, <2>1, <2>2 DEF Queued
<1> QED
  BY <1>5, <1>6, <1>7, <1>8

(* A connect puts its own line on the socket, and no other.                   *)
LEMMA ConnectPutsOne ==
    ASSUME SocketTypeOK, HeldOnce, NEW c \in Conn, c \notin Queued, NEW r, Connect(c, r)
    PROVE  /\ Queued' = Queued \cup {c}
           /\ \A i, j \in 1..Len(inbox') : inbox'[i] = inbox'[j] => i = j
<1>1. inbox \in Seq(Conn)
  BY DEF SocketTypeOK
<1>2. /\ Len(inbox) \in Nat /\ Len(inbox') = Len(inbox) + 1
      /\ \A i \in 1..Len(inbox) : inbox'[i] = inbox[i]
      /\ inbox'[Len(inbox) + 1] = c
  BY <1>1 DEF Connect
<1>3. 1..Len(inbox') = 1..Len(inbox) \cup {Len(inbox) + 1}
  BY <1>2
<1>4. \A i \in 1..Len(inbox) : inbox[i] # c
  BY DEF Queued
<1>5. Queued' = Queued \cup {c}
  BY <1>2, <1>3 DEF Queued
<1>6. \A i, j \in 1..Len(inbox') : inbox'[i] = inbox'[j] => i = j
  BY <1>2, <1>3, <1>4 DEF HeldOnce
<1> QED
  BY <1>5, <1>6

-----------------------------------------------------------------------------
(* No hotkey that holds nothing comes to hold some. *)
StakeOnlyFalls == \A h \in Hotkey : stake'[h] > 0 => stake[h] > 0

(* An answer stays honest as long as the request is the same and the chain    *)
(* only settles what it has.                                                  *)
LEMMA HonestStays ==
    ASSUME NEW c \in Conn, NEW res, Honest(c, res), request'[c] = request[c],
           tx[c].state = "landed" => tx'[c] = tx[c],
           LeftNoTrace(c) => LeftNoTrace(c)',
           \A h \in Hotkey : utx[c][h] = "landed" => utx'[c][h] = "landed",
           StakeOnlyFalls
    PROVE  Honest(c, res)'
<1>1. HotkeysWithStake(request[c].coldkey)' \subseteq HotkeysWithStake(request[c].coldkey)
      /\ HotkeysWithStake(request[c].coldkey) \subseteq Hotkey
  BY DEF HotkeysWithStake, StakeOnlyFalls
<1> QED
  BY <1>1 DEF Honest

(* Steps that touch neither the socket nor the chain. *)
LEMMA JobStepKeeps ==
    ASSUME VerdictInv, UNCHANGED <<socketVars, chainVars>>,
           job.phase # "idle", job'.phase # "idle", JobIsHonest'
    PROVE  Verdicts'
<1>1. HeldIsSound'
  BY DEF VerdictInv, Verdicts, HeldIsSound, HeldOnce, HeldIsUnanswered, FreshHasNoTrace, NoTrace,
         Queued, socketVars, chainVars
<1>2. ChainIsSound'
  BY DEF VerdictInv, Verdicts, ChainIsSound, MovedAsLanded, TracesAreAskedFor,
         socketVars, chainVars
<1>3. AnswersAreHonest'
  BY DEF VerdictInv, Verdicts, AnswersAreHonest, Honest, LeftNoTrace, HotkeysWithStake,
         socketVars, chainVars
<1> QED
  BY <1>1, <1>2, <1>3 DEF Verdicts

(* Settling the job with an honest answer is all there is to show of a step   *)
(* that ends in one.                                                          *)
LEMMA SettledHonestly ==
    ASSUME VerdictInv, UNCHANGED <<socketVars, chainVars>>, job.phase # "idle",
           NEW res, Settle(res), Honest(serving, res), res # NoResult
    PROVE  Verdicts'
<1>1. job'.phase = "reply" /\ job'.answer = res
  BY DEF VerdictInv, TypeInv, SignerTypeOK, Job, Settle
<1>2. Honest(serving, res)' /\ serving' = serving
  BY DEF Honest, LeftNoTrace, HotkeysWithStake, socketVars, chainVars
<1>3. JobIsHonest'
  BY <1>1, <1>2 DEF JobIsHonest, Honest
<1> QED
  BY <1>1, <1>3, JobStepKeeps

(* A failure is honest where nothing was put on the chain. *)
LEMMA FailureIsHonest ==
    ASSUME NEW c \in Conn, NEW why \in {"protocol", "refused", "btcli", "crash"},
           LeftNoTrace(c) \/ why = "crash", NEW amount
    PROVE  /\ Honest(c, Failed(why)) /\ Failed(why) # NoResult
           /\ LET res == [Failed(why) EXCEPT !.amount = amount]
              IN  Honest(c, res) /\ res # NoResult
BY DEF Honest, Failed, NoResult

(* A job that signed nothing has no extrinsic of its own.                     *)
LEMMA NoTraceIsLeft ==
    ASSUME NEW c \in Conn, NoTrace(c)
    PROVE  LeftNoTrace(c)
BY DEF NoTrace, LeftNoTrace

(* Answers given before anything is signed claim nothing that is not so.      *)
LEMMA HandlingVerdicts ==
    ASSUME VerdictInv, HandleRequest
    PROVE  Verdicts'
<1>1. job.phase = "handle" /\ UNCHANGED <<socketVars, chainVars>>
  BY DEF HandleRequest, RejectLine, HandleRead, HandleNoWallet, HandlePay, HandleSweep,
         HandleDistribute, HandleUnstake, Handling
<1>2. /\ job \in Job /\ serving \in Conn /\ NoTrace(serving) /\ LeftNoTrace(serving)
      /\ tx' = tx /\ utx' = utx /\ serving' = serving /\ stake' = stake /\ asked' = asked
  BY <1>1, NoTraceIsLeft DEF VerdictInv, TypeInv, SignerTypeOK, HeldLinesAreUsed, Verdicts, JobIsHonest,
         socketVars, chainVars, asked
<1>3. ASSUME NEW why \in {"protocol", "refused", "btcli"}, Settle(Failed(why)) PROVE Verdicts'
  BY <1>1, <1>2, <1>3, FailureIsHonest, SettledHonestly
<1>4. ASSUME NEW to, NEW amount, asked.op \in TransferOps, StartTransfer(to, amount) PROVE Verdicts'
  <2>1. job'.phase = "transfer" /\ ~job'.signed
    BY <1>1, <1>2, <1>4 DEF StartTransfer, Job, VerdictInv, Verdicts, JobIsHonest
  <2>2. JobIsHonest'
    BY <1>2, <1>4, <2>1 DEF JobIsHonest, TransferUnderWay, NoTrace
  <2> QED
    BY <1>1, <2>1, <2>2, JobStepKeeps
<1>5. CASE RejectLine \/ HandleNoWallet
  BY <1>3, <1>5 DEF RejectLine, HandleNoWallet
<1>6. CASE HandleRead
  <2>1. asked.op \in ReadOps
    BY <1>6 DEF HandleRead, Handling
  <2>2. Honest(serving, Ok(0)) /\ Ok(0) # NoResult
    BY <2>1 DEF Honest, Ok, NoResult, Failed, asked, ReadOps, TransferOps, OpBalances, OpStake, OpPay,
                OpSweep, OpDistribute, OpUnstake
  <2> QED
    BY <1>1, <1>3, <1>6, <2>2, SettledHonestly DEF HandleRead
<1>7. CASE HandlePay \/ HandleSweep \/ HandleDistribute
  <2>1. asked.op \in TransferOps
    BY <1>7 DEF HandlePay, HandleSweep, HandleDistribute, Handling, TransferOps
  <2>2. CASE HandlePay
    <3>1. ASSUME NEW amount, Settle([Failed("refused") EXCEPT !.amount = amount]) PROVE Verdicts'
      BY <1>1, <1>2, <3>1, FailureIsHonest, SettledHonestly
    <3> QED
      BY <1>4, <2>1, <2>2, <3>1 DEF HandlePay
  <2>3. CASE HandleSweep
    BY <1>3, <1>4, <2>1, <2>3 DEF HandleSweep
  <2>4. CASE HandleDistribute
    BY <1>3, <1>4, <2>1, <2>4 DEF HandleDistribute
  <2> QED
    BY <1>7, <2>2, <2>3, <2>4
<1>8. CASE HandleUnstake
  <2>1. CASE Settle(Failed("btcli"))
    BY <1>3, <2>1
  <2>2. CASE job' = [job EXCEPT !.phase = "unstake", !.left = HotkeysWithStake(asked.coldkey)]
    <3>1. asked.op = OpUnstake
      BY <1>8 DEF HandleUnstake, Handling
    <3>2. /\ job'.phase = "unstake" /\ job'.left = HotkeysWithStake(asked.coldkey) /\ job'.done = {}
          /\ job'.hotkey = NoHotkey /\ ~job'.signed
      BY <1>1, <1>2, <2>2 DEF Job, VerdictInv, Verdicts, JobIsHonest
    <3>3. UnstakeUnderWay'
      BY <1>2, <3>1, <3>2, SignerAssumption DEF UnstakeUnderWay, NoTrace, HotkeysWithStake
    <3>4. JobIsHonest'
      BY <3>2, <3>3 DEF JobIsHonest
    <3> QED
      BY <1>1, <3>2, <3>4, JobStepKeeps
  <2> QED
    BY <1>8, <2>1, <2>2 DEF HandleUnstake
<1> QED
  BY <1>5, <1>6, <1>7, <1>8 DEF HandleRequest

(* btcli's transfer ends: what it printed decides, and what it printed is     *)
(* bounded by what became of the extrinsic.                                   *)
LEMMA TransferVerdicts ==
    ASSUME VerdictInv, RunTransfer
    PROVE  Verdicts'
<1>1. job.phase \in {"transfer", "book"} /\ UNCHANGED <<socketVars, chainVars>>
  BY DEF RunTransfer, TransferPrinted, TransferUnlockRejected, TransferTimesOut, RecordSpend
<1>2. /\ job \in Job /\ serving \in Conn /\ tx[serving].state \in TxState
      /\ tx' = tx /\ utx' = utx /\ serving' = serving /\ asked' = asked /\ asked = request[serving]
  BY <1>1 DEF VerdictInv, TypeInv, SignerTypeOK, HeldLinesAreUsed, Tx, socketVars, chainVars, asked
<1>3. job.phase = "transfer" => TransferUnderWay
  BY DEF VerdictInv, Verdicts, JobIsHonest
<1>4. ASSUME job.phase = "transfer", tx[serving].state \in {"none", "dropped"}
      PROVE  LeftNoTrace(serving)
  BY <1>3, <1>4 DEF TransferUnderWay, LeftNoTrace
<1>5. ASSUME job.phase \in {"transfer", "book"}, tx[serving].state = "landed", asked.op \in TransferOps,
             tx[serving].amount = job.amount
      PROVE  Honest(serving, Ok(job.amount)) /\ Ok(job.amount) # NoResult
  BY <1>2, <1>5 DEF Honest, Ok, NoResult, Failed, TransferOps, OpPay, OpSweep, OpDistribute, OpUnstake
<1>6. CASE TransferPrinted
  <2>1. PICK out \in TransferScreen(tx[serving].state) : EndTransfer(ParseTransfer(out))
    BY <1>6 DEF TransferPrinted
  <2>2. job.phase = "transfer"
    BY <1>6 DEF TransferPrinted
  <2>3. CASE ParseTransfer(out) = "success"
    <3>1. /\ tx[serving].state = "landed" /\ tx[serving].amount = job.amount
          /\ asked.op \in TransferOps
      BY <1>2, <1>3, <2>2, <2>3, TransferVerdict DEF TransferUnderWay
    <3>2. CASE asked.op = OpPay /\ job' = [job EXCEPT !.phase = "book"]
      <4>1. job'.phase = "book" /\ job'.amount = job.amount
        BY <1>2, <3>2 DEF Job
      <4>2. JobIsHonest'
        BY <1>2, <3>1, <3>2, <4>1 DEF JobIsHonest
      <4> QED
        BY <1>1, <4>1, <4>2, JobStepKeeps
    <3>3. CASE Settle(Ok(job.amount))
      BY <1>1, <1>5, <3>1, <3>3, SettledHonestly
    <3> QED
      BY <2>1, <2>3, <3>2, <3>3 DEF EndTransfer
  <2>4. CASE ParseTransfer(out) = "failure"
    <3>1. LeftNoTrace(serving)
      BY <1>2, <1>4, <2>2, <2>4, TransferVerdict
    <3>2. Settle(Failed("btcli"))
      BY <2>1, <2>4 DEF EndTransfer
    <3> QED
      BY <1>1, <1>2, <3>1, <3>2, FailureIsHonest, SettledHonestly
  <2>5. CASE ParseTransfer(out) \notin {"success", "failure"}
    <3>1. Settle(Unknown)
      BY <2>1, <2>5 DEF EndTransfer
    <3>2. Honest(serving, Unknown) /\ Unknown # NoResult
      BY DEF Honest, Unknown, NoResult, Failed
    <3> QED
      BY <1>1, <3>1, <3>2, SettledHonestly
  <2> QED
    BY <2>3, <2>4, <2>5
<1>7. CASE TransferUnlockRejected
  <2>1. LeftNoTrace(serving)
    BY <1>3, <1>4, <1>7 DEF TransferUnlockRejected, TransferUnderWay
  <2> QED
    BY <1>1, <1>2, <1>7, <2>1, FailureIsHonest, SettledHonestly DEF TransferUnlockRejected
<1>8. CASE TransferTimesOut
  BY <1>1, <1>2, <1>8, FailureIsHonest, SettledHonestly DEF TransferTimesOut, TimeoutAnswer
<1>9. CASE RecordSpend
  <2>1. tx[serving].state = "landed" /\ tx[serving].amount = job.amount /\ asked.op \in TransferOps
    BY <1>9 DEF RecordSpend, VerdictInv, Verdicts, JobIsHonest, TransferOps
  <2> QED
    BY <1>1, <1>5, <1>9, <2>1, SettledHonestly DEF RecordSpend
<1> QED
  BY <1>6, <1>7, <1>8, <1>9 DEF RunTransfer

(* The loop over the hotkeys: every one it took is filed, and the summary it  *)
(* ends in is a plain failure only when none is done and none in doubt.       *)
LEMMA UnstakeVerdicts ==
    ASSUME VerdictInv, RunUnstake
    PROVE  Verdicts'
<1>1. job.phase = "unstake" /\ UNCHANGED <<socketVars, chainVars>>
  BY DEF RunUnstake, NextHotkey, BudgetSpent, UnstakePrinted, UnstakeUnlockRejected,
         UnstakeTimesOut, EndUnstake
<1>2. /\ job \in Job /\ serving \in Conn /\ tx' = tx /\ utx' = utx /\ serving' = serving
      /\ asked' = asked /\ asked = request[serving] /\ stake' = stake
      /\ \A h \in Hotkey : utx[serving][h] \in TxState
  BY <1>1 DEF VerdictInv, TypeInv, SignerTypeOK, HeldLinesAreUsed, socketVars, chainVars, asked
<1>3. UnstakeUnderWay /\ NoHotkey \notin Hotkey
  BY <1>1, SignerAssumption DEF VerdictInv, Verdicts, JobIsHonest
<1>4. ASSUME job'.phase = "unstake", UnstakeUnderWay' PROVE Verdicts'
  <2>1. JobIsHonest'
    BY <1>4 DEF JobIsHonest
  <2> QED
    BY <1>1, <1>4, <2>1, JobStepKeeps
<1>5. ASSUME NEW h \in Hotkey, NextHotkey(h) PROVE Verdicts'
  <2>1. /\ job'.phase = "unstake" /\ job'.hotkey = h /\ job'.left = job.left \ {h}
        /\ job'.done = job.done /\ job'.failed = job.failed /\ job'.unknown = job.unknown
        /\ job.hotkey = NoHotkey /\ ~job'.signed /\ h \in job.left
    BY <1>1, <1>2, <1>5 DEF NextHotkey, Job
  <2>2. UnstakeUnderWay'
    BY <1>2, <1>3, <2>1 DEF UnstakeUnderWay, HotkeysWithStake
  <2> QED
    BY <1>4, <2>1, <2>2
<1>6. ASSUME BudgetSpent PROVE Verdicts'
  <2>1. /\ job'.phase = "unstake" /\ job'.hotkey = job.hotkey /\ job.hotkey = NoHotkey /\ job'.left = {}
        /\ job'.done = job.done /\ job'.failed = job.failed \cup job.left
        /\ job'.unknown = job.unknown
    BY <1>1, <1>2, <1>6 DEF BudgetSpent, Job
  <2>2. UnstakeUnderWay'
    BY <1>2, <1>3, <2>1 DEF UnstakeUnderWay, HotkeysWithStake
  <2> QED
    BY <1>4, <2>1, <2>2
<1>7. ASSUME UnstakePrinted PROVE Verdicts'
  <2>1. job.hotkey \in Hotkey
    BY <1>2, <1>7 DEF UnstakePrinted, Job
  <2>2. PICK out \in UnstakeScreen(utx[serving][job.hotkey]) : FileHotkey(ParseUnstake(out))
    BY <1>7 DEF UnstakePrinted
  <2>3. /\ ParseUnstake(out) = "success" => utx[serving][job.hotkey] = "landed"
        /\ ParseUnstake(out) = "failure" => utx[serving][job.hotkey] \in {"none", "dropped"}
    BY <1>2, <2>1, UnstakeVerdict
  <2>4. /\ job'.phase = "unstake" /\ job'.hotkey = NoHotkey /\ job'.left = job.left
        /\ job'.done = IF ParseUnstake(out) = "success" THEN job.done \cup {job.hotkey} ELSE job.done
        /\ job'.failed = IF ParseUnstake(out) = "failure" THEN job.failed \cup {job.hotkey}
                         ELSE job.failed
        /\ job'.unknown = IF ParseUnstake(out) \notin {"success", "failure"}
                          THEN job.unknown \cup {job.hotkey} ELSE job.unknown
    BY <1>1, <1>2, <2>2 DEF FileHotkey, Job
  <2>5. UnstakeUnderWay'
    <3>1. NoHotkey \notin Hotkey /\ job.left \subseteq Hotkey
      BY <1>2, SignerAssumption DEF Job
    <3>2. \A h \in Hotkey : utx[serving][h] \in {"submitted", "landed"} =>
              h \in job'.done \cup job'.unknown \cup {job'.hotkey}
      BY <1>2, <1>3, <2>3, <2>4 DEF UnstakeUnderWay
    <3>3. HotkeysWithStake(asked.coldkey) \subseteq
              job'.left \cup {job'.hotkey} \cup job'.done \cup job'.failed \cup job'.unknown
      BY <1>3, <2>4 DEF UnstakeUnderWay
    <3>4. HotkeysWithStake(asked.coldkey)' = HotkeysWithStake(asked.coldkey)
      BY <1>2 DEF HotkeysWithStake
    <3>5. \A h \in job'.done : utx[serving][h] = "landed"
      BY <1>3, <2>3, <2>4 DEF UnstakeUnderWay
    <3> QED
      BY <1>2, <1>3, <2>4, <3>1, <3>2, <3>3, <3>4, <3>5 DEF UnstakeUnderWay
  <2> QED
    BY <1>4, <2>4, <2>5
<1>8. ASSUME NEW failed, Settle(UnstakeSummary(job.done, failed, job.unknown)),
             \/ failed # {} /\ (job.hotkey \in Hotkey => utx[serving][job.hotkey] = "none")
             \/ failed = job.failed /\ job.left = {} /\ job.hotkey = NoHotkey
      PROVE  Verdicts'
  <2> DEFINE res == UnstakeSummary(job.done, failed, job.unknown)
  <2>1. res # NoResult
    BY DEF UnstakeSummary, NoResult, Failed
  <2>2. asked.op \notin TransferOps /\ res.amount = 0
    BY <1>3 DEF UnstakeUnderWay, UnstakeSummary, TransferOps, OpPay, OpSweep, OpDistribute, OpUnstake
  <2>3. ~res.ok /\ ~res.unknown => LeftNoTrace(serving)
    <3> SUFFICES ASSUME job.done = {}, job.unknown = {} PROVE LeftNoTrace(serving)
      BY DEF UnstakeSummary
    <3>1. \A h \in Hotkey : utx[serving][h] \notin {"submitted", "landed"}
      BY <1>3, <1>8 DEF UnstakeUnderWay
    <3> QED
      BY <1>2, <1>3, <3>1 DEF UnstakeUnderWay, LeftNoTrace, TxState
  <2>4. res.ok /\ res.error = "none" =>
            \A h \in HotkeysWithStake(asked.coldkey) : utx[serving][h] = "landed"
    <3> SUFFICES ASSUME failed = {}, job.unknown = {}
                 PROVE  \A h \in HotkeysWithStake(asked.coldkey) : utx[serving][h] = "landed"
      BY DEF UnstakeSummary
    <3>1. HotkeysWithStake(asked.coldkey) \subseteq job.done
      BY <1>3, <1>8 DEF UnstakeUnderWay, HotkeysWithStake
    <3> QED
      BY <1>3, <3>1 DEF UnstakeUnderWay
  <2> HIDE DEF res
  <2>5. Honest(serving, res)
    BY <1>2, <2>2, <2>3, <2>4 DEF Honest
  <2> QED
    BY <1>1, <1>8, <2>1, <2>5, SettledHonestly DEF res
<1>9. CASE UnstakeUnlockRejected
  <2>1. job.hotkey \in Hotkey => utx[serving][job.hotkey] = "none"
    BY <1>3, <1>9 DEF UnstakeUnlockRejected, UnstakeUnderWay
  <2> QED
    BY <1>8, <1>9, <2>1 DEF UnstakeUnlockRejected
<1>10. CASE UnstakeTimesOut
  BY <1>1, <1>2, <1>10, FailureIsHonest, SettledHonestly DEF UnstakeTimesOut, TimeoutAnswer
<1>11. CASE EndUnstake
  BY <1>8, <1>11 DEF EndUnstake
<1> QED
  BY <1>5, <1>6, <1>7, <1>9, <1>10, <1>11 DEF RunUnstake

(* A line taken up is judged as one nobody has worked on.                     *)
LEMMA TakeVerdicts ==
    ASSUME VerdictInv, TakeRequest
    PROVE  Verdicts'
<1> USE DEF VerdictInv, Verdicts
<1>1. SocketTypeOK /\ HeldOnce
  BY DEF TypeInv, SignerTypeOK, HeldIsSound
<1>2. /\ serving' \in Queued /\ Queued' = Queued \ {serving'}
      /\ \A i, j \in 1..Len(inbox') : inbox'[i] = inbox'[j] => i = j
  BY <1>1, AcceptTakesOne DEF TakeRequest
<1>3. /\ job'.phase = "handle" /\ job'.done = {} /\ serving' # serving
      /\ job'.hotkey = NoHotkey /\ ~job'.signed
      /\ UNCHANGED <<line, request, result, chainVars>>
  BY <1>2, SocketAssumption DEF TakeRequest, Accept, Idle, HeldIsSound, HeldOnce
<1>4. serving' \in Conn
  BY <1>1, <1>2 DEF Queued, SocketTypeOK
<1>5. HeldIsSound'
  <2>1. HeldOnce'
    BY <1>2, <1>3 DEF HeldOnce
  <2>2. HeldIsUnanswered'
    BY <1>2, <1>3 DEF HeldIsSound, HeldIsUnanswered
  <2>3. FreshHasNoTrace'
    BY <1>2, <1>3 DEF HeldIsSound, FreshHasNoTrace, NoTrace, chainVars
  <2> QED
    BY <2>1, <2>2, <2>3 DEF HeldIsSound
<1>6. ChainIsSound' /\ AnswersAreHonest'
  BY <1>3 DEF ChainIsSound, MovedAsLanded, TracesAreAskedFor, AnswersAreHonest,
              Honest, LeftNoTrace, HotkeysWithStake, chainVars
<1>7. JobIsHonest'
  BY <1>2, <1>3 DEF JobIsHonest, HeldIsSound, FreshHasNoTrace, NoTrace, chainVars
<1> QED
  BY <1>5, <1>6, <1>7

(* What goes out is what the job concluded.                                   *)
LEMMA ReplyVerdicts ==
    ASSUME VerdictInv, SendReply
    PROVE  Verdicts'
<1> USE DEF VerdictInv, Verdicts
<1>1. /\ serving \in Conn /\ Queued \subseteq Conn /\ NoConn \notin Conn
      /\ line \in [Conn -> LineState] /\ result \in [Conn -> SignResult]
  BY SocketAssumption DEF SendReply, TypeInv, SignerTypeOK, SocketTypeOK, HeldLinesAreUsed, Queued
<1>2. /\ job'.phase = "idle" /\ serving' = NoConn /\ Queued' = Queued /\ inbox' = inbox
      /\ UNCHANGED <<request, chainVars>>
      /\ line' = [line EXCEPT ![serving] = IF @ = "sent" THEN "answered" ELSE @]
      /\ result' = [result EXCEPT ![serving] = job.answer]
  BY DEF SendReply, Answer, Idle, Queued
<1>3. Honest(serving, job.answer) /\ job.answer # NoResult /\ serving \notin Queued
      /\ line[serving] \in {"sent", "abandoned"}
  BY <1>1 DEF SendReply, JobIsHonest, HeldIsSound, HeldOnce, HeldIsUnanswered
<1>4. HeldIsSound'
  <2>1. HeldOnce'
    BY <1>1, <1>2 DEF HeldIsSound, HeldOnce
  <2>2. HeldIsUnanswered'
    BY <1>1, <1>2, <1>3 DEF HeldIsSound, HeldIsUnanswered
  <2>3. FreshHasNoTrace'
    BY <1>1, <1>2, <1>3 DEF HeldIsSound, FreshHasNoTrace, NoTrace, chainVars
  <2> QED
    BY <2>1, <2>2, <2>3 DEF HeldIsSound
<1>5. ChainIsSound'
  BY <1>2 DEF ChainIsSound, MovedAsLanded, TracesAreAskedFor, chainVars
<1>6. AnswersAreHonest'
  <2>1. \A c \in Conn : Honest(c, result'[c])
    BY <1>1, <1>2, <1>3 DEF AnswersAreHonest
  <2>2. \A c \in Conn : Honest(c, result[c])'
    BY <1>2, <2>1 DEF Honest, LeftNoTrace, HotkeysWithStake, chainVars
  <2>3. \A c \in Conn : line'[c] = "answered" => result'[c] # NoResult
    BY <1>1, <1>2, <1>3 DEF AnswersAreHonest
  <2> QED
    BY <2>2, <2>3 DEF AnswersAreHonest
<1>7. JobIsHonest'
  BY <1>2 DEF JobIsHonest
<1> QED
  BY <1>4, <1>5, <1>6, <1>7

(* A connection closed without an answer leaves nothing to be told.           *)
LEMMA DropVerdicts ==
    ASSUME VerdictInv, DropLine
    PROVE  Verdicts'
<1> USE DEF VerdictInv, Verdicts
<1>1. /\ serving \in Conn /\ Queued \subseteq Conn /\ NoConn \notin Conn
      /\ line \in [Conn -> LineState]
  BY SocketAssumption DEF DropLine, TypeInv, SignerTypeOK, SocketTypeOK, HeldLinesAreUsed, Queued
<1>2. /\ job'.phase = "idle" /\ serving' = NoConn /\ Queued' = Queued /\ inbox' = inbox
      /\ UNCHANGED <<request, result, chainVars>>
      /\ line' = [line EXCEPT ![serving] = IF @ = "sent" THEN "reset" ELSE @]
  BY DEF DropLine, HangUp, Idle, Queued
<1>3. serving \notin Queued /\ line[serving] \in {"sent", "abandoned"}
  BY <1>1 DEF HeldIsSound, HeldOnce, HeldIsUnanswered
<1>4. HeldIsSound'
  <2>1. HeldOnce'
    BY <1>1, <1>2 DEF HeldIsSound, HeldOnce
  <2>2. HeldIsUnanswered'
    BY <1>1, <1>2, <1>3 DEF HeldIsSound, HeldIsUnanswered
  <2>3. FreshHasNoTrace'
    BY <1>1, <1>2, <1>3 DEF HeldIsSound, FreshHasNoTrace, NoTrace, chainVars
  <2> QED
    BY <2>1, <2>2, <2>3 DEF HeldIsSound
<1>5. ChainIsSound'
  BY <1>2 DEF ChainIsSound, MovedAsLanded, TracesAreAskedFor, chainVars
<1>6. AnswersAreHonest'
  <2>1. \A c \in Conn : Honest(c, result[c])'
    BY <1>2 DEF AnswersAreHonest, Honest, LeftNoTrace, HotkeysWithStake, chainVars
  <2>2. \A c \in Conn : line'[c] = "answered" => line[c] = "answered"
    BY <1>1, <1>2
  <2> QED
    BY <1>2, <2>1, <2>2 DEF AnswersAreHonest
<1>7. JobIsHonest'
  BY <1>2 DEF JobIsHonest
<1> QED
  BY <1>4, <1>5, <1>6, <1>7

-----------------------------------------------------------------------------
(* The chain settles what it has, for whatever connection, at any time: the   *)
(* answers written before stay right.                                         *)
LEMMA ChainVerdicts ==
    ASSUME VerdictInv, ChainStep
    PROVE  Verdicts'
<1> USE DEF VerdictInv, Verdicts
<1>1. UNCHANGED socketVars /\ asked' = asked /\ job' \in Job /\ UNCHANGED jobButSigned
  BY ChainKeepsTheJob DEF TypeInv, SignerTypeOK
<1> USE DEF jobButSigned
<1>2. /\ tx \in [Conn -> Tx] /\ utx \in [Conn -> [Hotkey -> TxState]] /\ job \in Job
      /\ moved \in [Conn -> Nat]
      /\ \A c \in Conn : tx[c].amount \in Nat /\ tx[c].state \in TxState
  BY DEF TypeInv, SignerTypeOK, Tx
<1>3. /\ job.phase # "idle" => serving \in Conn /\ serving \notin Queued
      /\ Queued' = Queued /\ Queued \subseteq Conn
      /\ UNCHANGED <<line, request, result, serving, inbox>>
  BY <1>1 DEF TypeInv, SignerTypeOK, SocketTypeOK, HeldLinesAreUsed, HeldIsSound, HeldOnce, Queued,
              socketVars
(* It is enough that a step is sound for the chain itself, puts nothing on it *)
(* for a connection that has no trace unless that one is served, keeps the    *)
(* answers honest, and leaves what the job knows.                             *)
<1>4. ASSUME ChainIsSound', JobIsHonest', StakeOnlyFalls,
             \A c \in Conn, h \in Hotkey : utx[c][h] = "landed" => utx'[c][h] = "landed",
             \A c \in Conn : job.phase \notin {"transfer", "unstake"} \/ c # serving =>
                 /\ NoTrace(c) => NoTrace(c)'
                 /\ LeftNoTrace(c) => LeftNoTrace(c)',
             \A c \in Conn : tx[c].state = "landed" => tx'[c] = tx[c]
      PROVE  Verdicts'
  <2>1. job.phase # "idle" => line[serving] # "unused" /\ result[serving] = NoResult
    BY <1>3 DEF HeldIsSound, HeldIsUnanswered
  <2>2. HeldIsSound'
    <3>1. HeldOnce' /\ HeldIsUnanswered'
      BY <1>1, <1>3 DEF HeldIsSound, HeldOnce, HeldIsUnanswered
    <3>2. FreshHasNoTrace'
      BY <1>3, <1>4, <2>1 DEF HeldIsSound, FreshHasNoTrace
    <3> QED
      BY <3>1, <3>2 DEF HeldIsSound
  <2>3. ASSUME NEW c \in Conn PROVE Honest(c, result[c])'
    <3>1. CASE job.phase \in {"transfer", "unstake"} /\ c = serving
      <4>1. result'[c] = NoResult
        BY <1>3, <2>1, <3>1
      <4> QED
        BY <4>1 DEF Honest, NoResult, Failed
    <3>2. CASE ~(job.phase \in {"transfer", "unstake"} /\ c = serving)
      <4>1. Honest(c, result[c])
        BY DEF AnswersAreHonest
      <4> QED
        BY <1>3, <1>4, <3>2, <4>1, HonestStays
    <3> QED
      BY <3>1, <3>2
  <2>4. AnswersAreHonest'
    BY <1>3, <2>3 DEF AnswersAreHonest
  <2> QED
    BY <1>4, <2>2, <2>4
<1>5. ASSUME \A c \in Conn : LeftNoTrace(c) => LeftNoTrace(c)', StakeOnlyFalls,
             \A c \in Conn, h \in Hotkey : utx[c][h] = "landed" => utx'[c][h] = "landed",
             \A c \in Conn : tx[c].state = "landed" => tx'[c] = tx[c]
      PROVE  job.phase = "reply" => Honest(serving, job.answer)' /\ job'.answer # NoResult
  BY <1>1, <1>3, <1>5, HonestStays DEF JobIsHonest
<1>6. CASE SubmitTransfer
  <2>1. /\ job.phase = "transfer" /\ moved' = moved /\ utx' = utx /\ stake' = stake
        /\ ~job.signed /\ job'.signed
        /\ tx'[serving].state = "submitted" /\ tx'[serving].amount = job.amount
        /\ \A c \in Conn : c # serving => tx'[c] = tx[c]
    BY <1>2, <1>3, <1>6 DEF SubmitTransfer, Job
  <2>2. TransferUnderWay /\ asked = request[serving] /\ tx[serving].state = "none"
    BY <2>1 DEF JobIsHonest, TransferUnderWay, asked
  <2>3. ChainIsSound'
    <3>1. MovedAsLanded'
      BY <1>3, <2>1, <2>2 DEF ChainIsSound, MovedAsLanded
    <3>2. TracesAreAskedFor'
      BY <1>3, <2>1, <2>2 DEF ChainIsSound, TracesAreAskedFor, TransferUnderWay
    <3> QED
      BY <3>1, <3>2 DEF ChainIsSound
  <2>4. JobIsHonest'
    BY <1>1, <1>3, <2>1, <2>2 DEF JobIsHonest, TransferUnderWay
  <2> QED
    <3>1. StakeOnlyFalls
      BY <2>1 DEF StakeOnlyFalls
    <3>2. \A c \in Conn : c # serving =>
              (NoTrace(c) => NoTrace(c)') /\ (LeftNoTrace(c) => LeftNoTrace(c)')
      BY <2>1 DEF NoTrace, LeftNoTrace
    <3>3. \A c \in Conn : tx[c].state = "landed" => tx'[c] = tx[c]
      BY <2>1, <2>2
    <3> QED
      BY <1>4, <2>1, <2>3, <2>4, <3>1, <3>2, <3>3
<1>7. CASE SubmitUnstake
  <2>1. /\ job.phase = "unstake" /\ UNCHANGED <<tx, moved, stake>>
        /\ \A c \in Conn : c # serving => utx'[c] = utx[c]
        /\ \A h \in Hotkey : h # job.hotkey => utx'[serving][h] = utx[serving][h]
        /\ job.hotkey \in Hotkey /\ ~job.signed /\ job'.signed
        /\ utx'[serving][job.hotkey] = "submitted"
    BY <1>2, <1>3, <1>7 DEF SubmitUnstake, TypeInv, SignerTypeOK, Job
  <2>2. UnstakeUnderWay /\ asked = request[serving] /\ utx[serving][job.hotkey] = "none"
    BY <2>1 DEF JobIsHonest, UnstakeUnderWay, asked
  <2>3. ChainIsSound'
    <3>1. MovedAsLanded'
      BY <1>3, <2>1, <2>2 DEF ChainIsSound, MovedAsLanded
    <3>2. TracesAreAskedFor'
      BY <1>3, <2>1, <2>2 DEF ChainIsSound, TracesAreAskedFor, UnstakeUnderWay
    <3> QED
      BY <3>1, <3>2 DEF ChainIsSound
  <2>4. UnstakeUnderWay'
    <3>1. \A h \in job.done : h # job.hotkey
      BY <2>1, <2>2 DEF UnstakeUnderWay
    <3> QED
      BY <1>1, <1>2, <1>3, <2>1, <2>2, <3>1 DEF UnstakeUnderWay, HotkeysWithStake, Job
  <2>5. JobIsHonest'
    BY <1>1, <2>1, <2>4 DEF JobIsHonest
  <2> QED
    BY <1>4, <2>1, <2>2, <2>3, <2>5 DEF NoTrace, LeftNoTrace, StakeOnlyFalls
<1>8. ASSUME NEW c \in Conn, TransferLands(c) \/ TransferDropped(c) PROVE Verdicts'
  <2>1. /\ tx[c].state = "submitted" /\ UNCHANGED <<utx, stake, job>>
        /\ tx'[c].state \in {"landed", "dropped"} /\ tx'[c].amount = tx[c].amount
        /\ moved'[c] = IF tx'[c].state = "landed" THEN moved[c] + tx[c].amount ELSE moved[c]
        /\ \A d \in Conn : d # c => tx'[d] = tx[d] /\ moved'[d] = moved[d]
    BY <1>2, <1>8 DEF TransferLands, TransferDropped, Tx
  <2>2. ChainIsSound'
    <3>1. MovedAsLanded'
      BY <1>2, <1>3, <2>1 DEF ChainIsSound, MovedAsLanded
    <3>2. TracesAreAskedFor'
      BY <1>2, <1>3, <2>1 DEF ChainIsSound, TracesAreAskedFor
    <3> QED
      BY <3>1, <3>2 DEF ChainIsSound
  <2>3. ~NoTrace(c) /\ ~LeftNoTrace(c)
    BY <2>1 DEF NoTrace, LeftNoTrace
  <2>4. \A d \in Conn : d # c => (NoTrace(d) => NoTrace(d)') /\ (LeftNoTrace(d) => LeftNoTrace(d)')
    BY <2>1 DEF NoTrace, LeftNoTrace
  <2>5. JobIsHonest'
    <3>1. \A d \in Conn : LeftNoTrace(d) => LeftNoTrace(d)'
      BY <2>3, <2>4
    <3>2. job.phase = "reply" => Honest(serving, job.answer)' /\ job'.answer # NoResult
      BY <1>5, <2>1, <3>1 DEF StakeOnlyFalls
    <3>3. job.phase = "handle" => NoTrace(serving)'
      BY <1>3, <2>3, <2>4 DEF JobIsHonest
    <3>4. job.phase = "transfer" => TransferUnderWay'
      BY <1>1, <1>3, <2>1 DEF JobIsHonest, TransferUnderWay
    <3>5. job.phase = "book" => tx'[serving] = tx[serving]
      BY <1>3, <2>1 DEF JobIsHonest
    <3>6. job.phase = "unstake" => UnstakeUnderWay'
      BY <1>1, <1>3, <2>1 DEF JobIsHonest, UnstakeUnderWay, HotkeysWithStake
    <3> QED
      BY <1>1, <2>1, <3>2, <3>3, <3>4, <3>5, <3>6 DEF JobIsHonest, socketVars
  <2> QED
    BY <1>4, <2>1, <2>2, <2>3, <2>4, <2>5 DEF StakeOnlyFalls
<1>9. ASSUME NEW c \in Conn, NEW h \in Hotkey, UnstakeLands(c, h) \/ UnstakeDropped(c, h)
      PROVE  Verdicts'
  <2>1. /\ utx[c][h] = "submitted" /\ UNCHANGED <<tx, moved, job>>
        /\ utx'[c][h] \in {"landed", "dropped"}
        /\ \A d \in Conn, g \in Hotkey : d # c \/ g # h => utx'[d][g] = utx[d][g]
    BY <1>2, <1>9 DEF UnstakeLands, UnstakeDropped
  <2>6. StakeOnlyFalls
    <3>1. stake \in [Hotkey -> Nat]
      BY DEF TypeInv, SignerTypeOK
    <3>2. CASE UnstakeLands(c, h)
      <4>1. PICK part \in 1..stake[h] : stake' = [stake EXCEPT ![h] = @ - part]
        BY <3>2 DEF UnstakeLands
      <4>2. \A g \in Hotkey : g # h => stake'[g] = stake[g]
        BY <3>1, <4>1
      <4>3. stake[h] > 0
        BY <3>1, <4>1
      <4> QED
        BY <4>2, <4>3 DEF StakeOnlyFalls
    <3> QED
      BY <1>9, <3>2 DEF StakeOnlyFalls, UnstakeDropped
  <2>2. ChainIsSound'
    BY <1>2, <1>3, <2>1 DEF ChainIsSound, MovedAsLanded, TracesAreAskedFor
  <2>3. ~NoTrace(c) /\ ~LeftNoTrace(c)
    BY <2>1 DEF NoTrace, LeftNoTrace
  <2>4. \A d \in Conn : d # c => (NoTrace(d) => NoTrace(d)') /\ (LeftNoTrace(d) => LeftNoTrace(d)')
    BY <2>1 DEF NoTrace, LeftNoTrace
  <2>5. JobIsHonest'
    <3>1. \A d \in Conn : LeftNoTrace(d) => LeftNoTrace(d)'
      BY <2>3, <2>4
    <3>2. job.phase = "reply" => Honest(serving, job.answer)' /\ job'.answer # NoResult
      BY <1>5, <2>1, <2>6, <3>1
    <3>3. job.phase = "handle" => NoTrace(serving)'
      BY <1>3, <2>3, <2>4 DEF JobIsHonest
    <3>4. job.phase = "transfer" => TransferUnderWay'
      BY <1>1, <1>3, <2>1 DEF JobIsHonest, TransferUnderWay
    <3>5. job.phase = "unstake" => UnstakeUnderWay'
      <4> SUFFICES ASSUME job.phase = "unstake" PROVE UnstakeUnderWay'
        OBVIOUS
      <4>1. UnstakeUnderWay /\ serving \in Conn /\ serving' = serving /\ job.done \subseteq Hotkey
        BY <1>2, <1>3 DEF JobIsHonest, Job
      <4>2. HotkeysWithStake(asked.coldkey)' \subseteq HotkeysWithStake(asked.coldkey)
        BY <1>1, <2>6 DEF HotkeysWithStake, StakeOnlyFalls
      <4>3. \A g \in Hotkey : utx'[serving][g] \in {"submitted", "landed"} =>
                utx[serving][g] \in {"submitted", "landed"}
        BY <2>1, <4>1
      <4>4. \A g \in job.done : utx'[serving][g] = "landed"
        BY <2>1, <4>1 DEF UnstakeUnderWay
      <4> QED
        BY <1>1, <1>2, <2>1, <4>1, <4>2, <4>3, <4>4 DEF UnstakeUnderWay, Job
    <3> QED
      BY <1>1, <2>1, <3>2, <3>3, <3>4, <3>5 DEF JobIsHonest, socketVars
  <2> QED
    BY <1>4, <2>1, <2>2, <2>3, <2>4, <2>5, <2>6
<1> QED
  BY <1>6, <1>7, <1>8, <1>9 DEF ChainStep

-----------------------------------------------------------------------------
(* A client only ever uses a connection nobody used, for which nothing was    *)
(* done yet.                                                                  *)
LEMMA ClientVerdicts ==
    ASSUME VerdictInv, ClientMove
    PROVE  Verdicts'
<1> USE DEF VerdictInv, Verdicts
<1>1. /\ UNCHANGED <<job, chainVars, serving, result>>
      /\ job.phase # "idle" => serving \in Conn
      /\ serving \in Conn => line[serving] # "unused"
      /\ \A c \in Queued : c \in Conn /\ line[c] # "unused"
      /\ SocketTypeOK
  BY DEF ClientMove, ClientEnd, Connect, ConnectFails, GiveUp, ClientsVanish, TypeInv, SignerTypeOK,
         SocketTypeOK, HeldLinesAreUsed, Queued
(* What the clients do to a connection: *)
<1>2. ASSUME HeldOnce',
             \A c \in Queued' : c \in Queued \/ (c \in Conn /\ line[c] = "unused" /\ line'[c] = "sent"),
             \A c \in Conn :
                 /\ line[c] # "unused" => request'[c] = request[c]
                 /\ line'[c] = "unused" => line[c] = "unused"
                 /\ line'[c] = "answered" => line[c] = "answered"
                 /\ line[c] \in {"sent", "abandoned"} => line'[c] \in {"sent", "abandoned"}
      PROVE  Verdicts'
  <2>1. \A c \in Conn : request'[c] # request[c] => line[c] = "unused" /\ NoTrace(c) /\ result[c] = NoResult
    BY <1>2 DEF HeldIsSound, FreshHasNoTrace
  <2>2. HeldIsSound'
    <3>1. HeldIsUnanswered'
      BY <1>1, <1>2 DEF HeldIsSound, HeldIsUnanswered, FreshHasNoTrace
    <3>2. FreshHasNoTrace'
      <4>1. \A c \in Queued' : c \in Conn /\ NoTrace(c)
        BY <1>1, <1>2 DEF HeldIsSound, FreshHasNoTrace
      <4> QED
        BY <1>1, <1>2, <4>1 DEF HeldIsSound, FreshHasNoTrace, NoTrace, chainVars
    <3> QED
      BY <1>2, <3>1, <3>2 DEF HeldIsSound
  <2>3. ChainIsSound'
    BY <1>1, <2>1 DEF ChainIsSound, MovedAsLanded, TracesAreAskedFor, NoTrace, chainVars
  <2>4. ASSUME NEW c \in Conn PROVE Honest(c, result[c])'
    <3>1. CASE request'[c] = request[c]
      BY <1>1, <3>1, HonestStays DEF AnswersAreHonest, LeftNoTrace, StakeOnlyFalls, chainVars
    <3>2. CASE request'[c] # request[c]
      BY <1>1, <2>1, <3>2 DEF Honest, NoResult, Failed
    <3> QED
      BY <3>1, <3>2
  <2>5. AnswersAreHonest'
    BY <1>1, <1>2, <2>4 DEF AnswersAreHonest
  <2>6. JobIsHonest'
    <3>1. job.phase # "idle" => serving' = serving /\ request'[serving] = request[serving]
      BY <1>1, <1>2
    <3>2. job.phase # "idle" => asked' = asked
      BY <3>1 DEF asked
    <3> QED
      BY <1>1, <3>1, <3>2 DEF JobIsHonest, NoTrace, TransferUnderWay, UnstakeUnderWay, Honest, LeftNoTrace,
                        HotkeysWithStake, chainVars
  <2> QED
    BY <2>2, <2>3, <2>5, <2>6
<1>3. ASSUME NEW c \in Conn, NEW r, Connect(c, r) PROVE Verdicts'
  <2>1. c \notin Queued /\ c # serving
    BY <1>1, <1>3 DEF Connect
  <2>2. /\ Queued' = Queued \cup {c}
        /\ \A i, j \in 1..Len(inbox') : inbox'[i] = inbox'[j] => i = j
    BY <1>1, <1>3, <2>1, ConnectPutsOne DEF HeldIsSound
  <2>3. HeldOnce'
    BY <1>1, <2>1, <2>2 DEF HeldIsSound, HeldOnce
  <2>4. /\ line[c] = "unused" /\ line'[c] = "sent"
        /\ \A d \in Conn : d # c => line'[d] = line[d] /\ request'[d] = request[d]
    BY <1>1, <1>3 DEF Connect, SocketTypeOK
  <2>5. \A d \in Queued' : d \in Queued \/ (d \in Conn /\ line[d] = "unused" /\ line'[d] = "sent")
    BY <2>2, <2>4
  <2>6. \A d \in Conn :
            /\ line[d] # "unused" => request'[d] = request[d]
            /\ line'[d] = "unused" => line[d] = "unused"
            /\ line'[d] = "answered" => line[d] = "answered"
            /\ line[d] \in {"sent", "abandoned"} => line'[d] \in {"sent", "abandoned"}
    BY <2>4
  <2> QED
    BY <1>2, <2>3, <2>5, <2>6
<1>4. ASSUME ClientsVanish \/ \E c \in Conn : ConnectFails(c) \/ GiveUp(c)
      PROVE  Verdicts'
  <2>1. UNCHANGED <<inbox, request, serving>> /\ Queued' = Queued
    BY <1>4 DEF ConnectFails, GiveUp, ClientsVanish, Queued
  <2>2. HeldOnce'
    BY <1>1, <2>1 DEF HeldIsSound, HeldOnce
  <2>3. \A c \in Conn :
            /\ line'[c] = "unused" => line[c] = "unused"
            /\ line'[c] = "answered" => line[c] = "answered"
            /\ line[c] \in {"sent", "abandoned"} => line'[c] \in {"sent", "abandoned"}
            /\ request'[c] = request[c]
    BY <1>1, <1>4 DEF ConnectFails, GiveUp, ClientsVanish, SocketTypeOK, LineState
  <2> QED
    BY <1>2, <2>1, <2>2, <2>3
<1> QED
  BY <1>3, <1>4 DEF ClientMove, ClientEnd

(* A crash forgets what the daemon held and leaves what the chain has. *)
LEMMA HostVerdicts ==
    ASSUME VerdictInv, HostStep
    PROVE  Verdicts'
<1> USE DEF VerdictInv, Verdicts
<1>1. UNCHANGED <<chainVars, request, result>> /\ SocketTypeOK
  BY DEF HostStep, Midnight, Crash, Restart, ServerVanishes, ServerListens, socketVars, TypeInv,
         SignerTypeOK
<1>2. ChainIsSound'
  BY <1>1 DEF ChainIsSound, MovedAsLanded, TracesAreAskedFor, chainVars
<1>3. CASE Midnight \/ Restart
  <2>1. UNCHANGED <<line, inbox, serving, job>> /\ Queued' = Queued /\ asked' = asked
    BY <1>3 DEF Midnight, Restart, ServerListens, socketVars, Queued, asked
  <2>2. HeldIsSound'
    BY <1>1, <2>1 DEF HeldIsSound, HeldOnce, HeldIsUnanswered, FreshHasNoTrace, NoTrace, chainVars
  <2>3. AnswersAreHonest'
    BY <1>1, <2>1 DEF AnswersAreHonest, Honest, LeftNoTrace, HotkeysWithStake, chainVars
  <2>4. JobIsHonest'
    BY <1>1, <2>1 DEF JobIsHonest, NoTrace, TransferUnderWay, UnstakeUnderWay, Honest, LeftNoTrace,
                      HotkeysWithStake, chainVars
  <2> QED
    BY <1>2, <2>2, <2>3, <2>4
<1>4. CASE Crash
  <2>1. /\ serving' = NoConn /\ job'.phase = "idle" /\ inbox' = <<>> /\ Queued' = {}
        /\ NoConn \notin Conn
        /\ \A c \in Conn : /\ line'[c] = "unused" => line[c] = "unused"
                           /\ line'[c] = "answered" => line[c] = "answered"
    BY <1>1, <1>4, SocketAssumption DEF Crash, ServerVanishes, Idle, Queued, SocketTypeOK
  <2>2. HeldIsSound'
    BY <1>1, <2>1 DEF HeldIsSound, HeldOnce, HeldIsUnanswered, FreshHasNoTrace, NoTrace, chainVars
  <2>3. AnswersAreHonest'
    BY <1>1, <2>1 DEF AnswersAreHonest, Honest, LeftNoTrace, HotkeysWithStake, chainVars
  <2>4. JobIsHonest'
    BY <2>1 DEF JobIsHonest
  <2> QED
    BY <1>2, <2>2, <2>3, <2>4
<1> QED
  BY <1>3, <1>4 DEF HostStep

(* Nothing is held, printed or answered at the start.                         *)
LEMMA InitVerdicts == SignerInit => VerdictInv
<1> SUFFICES ASSUME SignerInit PROVE Verdicts
  BY InitTypes DEF VerdictInv
<1> USE DEF SignerInit, SocketInit
<1>1. Queued = {} /\ job.phase = "idle" /\ serving \notin Conn /\ Len(inbox) = 0
  BY SocketAssumption DEF Queued, Idle
<1>2. \A c \in Conn : NoTrace(c) /\ tx[c].state = "none"
  BY DEF NoTrace, NoTx
<1>3. HeldIsSound
  BY <1>1, <1>2 DEF HeldIsSound, HeldOnce, HeldIsUnanswered, FreshHasNoTrace
<1>4. ChainIsSound
  BY <1>2 DEF ChainIsSound, MovedAsLanded, TracesAreAskedFor, NoTrace
<1>5. AnswersAreHonest
  BY <1>2 DEF AnswersAreHonest, Honest, NoResult, Failed
<1>6. JobIsHonest
  BY <1>1 DEF JobIsHonest
<1> QED
  BY <1>3, <1>4, <1>5, <1>6 DEF Verdicts

(* Every step keeps the verdicts sound.                                       *)
LEMMA NextVerdicts == VerdictInv /\ [SignerNext]_signerVars => VerdictInv'
<1> SUFFICES ASSUME VerdictInv, [SignerNext]_signerVars PROVE Verdicts'
  BY NextTypes DEF VerdictInv
<1>1. CASE SignerNext
  BY <1>1, HandlingVerdicts, TransferVerdicts, UnstakeVerdicts, TakeVerdicts, DropVerdicts, ReplyVerdicts,
     ClientVerdicts, ChainVerdicts, HostVerdicts, ClientStepIsMove DEF SignerNext, SignerStep
<1>2. CASE UNCHANGED signerVars
  <2>1. UNCHANGED <<job, socketVars, chainVars>> /\ Queued' = Queued /\ asked' = asked
    BY <1>2 DEF signerVars, socketVars, Queued, asked
  <2>2. HeldIsSound' /\ ChainIsSound'
    BY <2>1 DEF VerdictInv, Verdicts, HeldIsSound, HeldOnce, HeldIsUnanswered, FreshHasNoTrace, NoTrace,
                ChainIsSound, MovedAsLanded, TracesAreAskedFor, chainVars, socketVars
  <2>3. AnswersAreHonest' /\ JobIsHonest'
    BY <2>1 DEF VerdictInv, Verdicts, AnswersAreHonest, JobIsHonest, NoTrace, TransferUnderWay,
                UnstakeUnderWay, Honest, LeftNoTrace, HotkeysWithStake, chainVars, socketVars
  <2> QED
    BY <2>2, <2>3 DEF Verdicts
<1> QED
  BY <1>1, <1>2

-----------------------------------------------------------------------------
(* What the verdicts say, over any run of the daemon. *)

(* The runs' properties are what the sound verdicts say of answers.           *)
LEMMA VerdictsSay ==
    ASSUME VerdictInv
    PROVE  OkMeansMoved /\ ClassifiedFailureMovedNothing /\ CleanUnstakeIsComplete
<1> USE DEF VerdictInv, Verdicts
<1>1. OkMeansMoved
  BY DEF OkMeansMoved, AnswersAreHonest, Honest, ChainIsSound, MovedAsLanded
<1>2. ClassifiedFailureMovedNothing
  BY DEF ClassifiedFailureMovedNothing, PlainFailure, Answered, AnswersAreHonest, Honest
<1>3. CleanUnstakeIsComplete
  BY DEF CleanUnstakeIsComplete, AnswersAreHonest, Honest
<1> QED
  BY <1>1, <1>2, <1>3

(* A transfer answered ok has landed, with the very amount of the answer. *)
THEOREM OkIsMoved == SignerSpec => []OkMeansMoved
<1>1. VerdictInv => OkMeansMoved
  BY VerdictsSay
<1> QED
  BY <1>1, InitVerdicts, NextVerdicts, PTL DEF SignerSpec

(* A plain failure the daemon arrived at by reading btcli, or by a refusal,   *)
(* left nothing on the chain, then or later.                                  *)
THEOREM FailureLeftNothing == SignerSpec => []ClassifiedFailureMovedNothing
<1>1. VerdictInv => ClassifiedFailureMovedNothing
  BY VerdictsSay
<1> QED
  BY <1>1, InitVerdicts, NextVerdicts, PTL DEF SignerSpec

(* An unstake answered ok without a message landed for every hotkey that      *)
(* still holds stake: no hotkey was missed, whatever the chain left of one.   *)
THEOREM CleanUnstakeMissesNothing == SignerSpec => []CleanUnstakeIsComplete
<1>1. VerdictInv => CleanUnstakeIsComplete
  BY VerdictsSay
<1> QED
  BY <1>1, InitVerdicts, NextVerdicts, PTL DEF SignerSpec

-----------------------------------------------------------------------------
(* The reserve. *)

(* A transfer settled takes from the wallet it is from, a landed one what it  *)
(* names and the fee, and nothing from any other wallet.                      *)
LEMMA SettlingTakesItsOwn ==
    ASSUME TypeInv, NEW d \in Conn, Settles(d), NEW w \in Wallet
    PROVE  /\ free'[w] \in Nat
           /\ tx[d].from # w => free'[w] >= free[w]
           /\ TransferLands(d) /\ tx[d].from = w => free'[w] >= free[w] - (tx[d].amount + ChainFee)
<1>1. free \in [Wallet -> Nat] /\ tx[d].amount \in Nat /\ ChainFee \in Nat
  BY SignerAssumption DEF TypeInv, SignerTypeOK, Tx
<1>2. CASE TransferLands(d)
  <2> DEFINE debited == [free EXCEPT ![tx[d].from] = @ - (tx[d].amount + ChainFee)]
  <2>1. debited \in [Wallet -> Nat]
    <3>1. \A v \in Wallet : v = tx[d].from => free[v] - (tx[d].amount + ChainFee) \in Nat
      BY <1>1, <1>2 DEF TransferLands
    <3> QED
      BY <1>1, <3>1
  <2>2. /\ tx[d].from = w => debited[w] = free[w] - (tx[d].amount + ChainFee)
        /\ tx[d].from # w => debited[w] = free[w]
    BY <1>1
  <2>3. free' = Credit(debited, tx[d].to, tx[d].amount)
    BY <1>2 DEF TransferLands
  <2> HIDE DEF debited
  <2>4. free'[w] \in Nat /\ free'[w] >= debited[w]
    BY <1>1, <2>1, <2>3 DEF Credit
  <2> QED
    BY <1>1, <2>1, <2>2, <2>4
<1>3. CASE TransferDropped(d)
  <2>1. PICK cost \in Nat : free[tx[d].from] >= cost /\ free' = [free EXCEPT ![tx[d].from] = @ - cost]
    BY <1>1, <1>3 DEF TransferDropped
  <2>2. ~TransferLands(d)
    BY <1>3 DEF TransferLands, TransferDropped, TypeInv, SignerTypeOK, Tx
  <2>3. tx[d].from # w => free'[w] = free[w]
    BY <1>1, <2>1
  <2>4. tx[d].from = w => free'[w] = free[w] - cost /\ free[w] >= cost
    BY <1>1, <2>1
  <2> QED
    BY <1>1, <2>1, <2>2, <2>3, <2>4
<1> QED
  BY <1>2, <1>3 DEF Settles

(* A transfer on its way that the signer is done with was left in doubt.      *)
LEMMA SubmittedIsInDoubt ==
    ASSUME VerdictInv, NEW d \in Conn, tx[d].state = "submitted", d # serving
    PROVE  InDoubt(d)
BY DEF VerdictInv, Verdicts, AnswersAreHonest, Honest, ChainIsSound, TracesAreAskedFor, InDoubt,
       PlainFailure, Answered, LeftNoTrace

(* What is left besides an amount that has not moved stays left, or another   *)
(* transfer of the wallet is settled, and one of the two is in doubt.         *)
LEMMA ReserveStays ==
    ASSUME VerdictInv, ChainStep, NEW c \in Conn, NEW w \in Wallet, NEW amount \in Nat,
           ReserveIsLeft(c, w, amount), ~Settles(c), c = serving \/ tx[c].state = "submitted"
    PROVE  ReserveIsLeft(c, w, amount)'
<1> USE DEF ReserveIsLeft
<1>1. /\ tx \in [Conn -> Tx] /\ free \in [Wallet -> Nat] /\ Reserve \in Nat /\ job \in Job
  BY SignerAssumption DEF VerdictInv, TypeInv, SignerTypeOK
<1>2. \A e \in Conn : InDoubt(e) => InDoubt(e)'
  BY <1>1, ChainKeepsTheJob DEF InDoubt, PlainFailure, Answered, socketVars
<1>3. CASE SubmitTransfer
  <2>1. free' = free /\ \A d \in Conn : d # serving => tx'[d] = tx[d]
    BY <1>1, <1>3 DEF SubmitTransfer
  <2>2. tx[serving].state = "none"
    BY <1>3 DEF SubmitTransfer, VerdictInv, Verdicts, JobIsHonest, TransferUnderWay
  <2>3. \A d \in Conn : tx[d].state \in {"landed", "dropped"} => d # serving
    BY <2>2
  <2> QED
    BY <1>2, <2>1, <2>3
<1>4. CASE SubmitUnstake
  BY <1>2, <1>4 DEF SubmitUnstake
<1>5. ASSUME NEW d \in Conn, NEW h \in Hotkey, UnstakeLands(d, h) \/ UnstakeDropped(d, h)
      PROVE  ReserveIsLeft(c, w, amount)'
  <2>1. free'[w] \in Nat /\ free'[w] >= free[w]
    <3>1. CASE UnstakeDropped(d, h)
      BY <1>1, <3>1 DEF UnstakeDropped
    <3>2. CASE UnstakeLands(d, h)
      <4>1. PICK part \in 1..stake[h] : free' = [free EXCEPT ![Owner[h]] = @ + part]
        BY <3>2 DEF UnstakeLands
      <4>2. part \in Nat /\ free[w] \in Nat
        BY <1>1 DEF VerdictInv, TypeInv, SignerTypeOK
      <4> QED
        BY <1>1, <4>1, <4>2
    <3> QED
      BY <1>5, <3>1, <3>2
  <2>2. tx' = tx
    BY <1>5 DEF UnstakeLands, UnstakeDropped
  <2> QED
    BY <1>1, <1>2, <2>1, <2>2
<1>6. ASSUME NEW d \in Conn, Settles(d) PROVE ReserveIsLeft(c, w, amount)'
  <2>1. d # c /\ tx[d].state = "submitted"
    BY <1>6 DEF Settles, TransferLands, TransferDropped
  <2>2. /\ tx'[d].state \in {"landed", "dropped"} /\ tx'[d].from = tx[d].from
        /\ \A e \in Conn : e # d => tx'[e] = tx[e]
    BY <1>1, <1>6 DEF Settles, TransferLands, TransferDropped, Tx
  <2>3. \E e \in {c, d} : InDoubt(e)
    BY <2>1, SubmittedIsInDoubt
  <2>4. CASE tx[d].from = w
    BY <1>2, <2>1, <2>2, <2>3, <2>4
  <2>5. CASE tx[d].from # w
    <3>1. free'[w] \in Nat /\ free'[w] >= free[w]
      BY <1>6, <2>5, SettlingTakesItsOwn DEF VerdictInv
    <3>2. CASE free[w] >= amount + Reserve
      BY <1>1, <3>1, <3>2
    <3>3. CASE \E b \in Conn \ {c} : /\ tx[b].from = w /\ tx[b].state \in {"landed", "dropped"}
                                     /\ \E e \in {c, b} : InDoubt(e)
      <4>1. PICK b \in Conn \ {c} : /\ tx[b].from = w /\ tx[b].state \in {"landed", "dropped"}
                                    /\ \E e \in {c, b} : InDoubt(e)
        BY <3>3
      <4>2. tx'[b] = tx[b]
        BY <2>1, <2>2, <4>1
      <4> QED
        BY <1>2, <4>1, <4>2
    <3> QED
      BY <3>2, <3>3
  <2> QED
    BY <2>4, <2>5
<1> QED
  BY <1>3, <1>4, <1>5, <1>6 DEF ChainStep, Settles

(* A transfer that lands leaves the reserve, if it is a sweep's.              *)
LEMMA ChainLeavesReserve ==
    ASSUME SweepInv, ChainStep
    PROVE  SweepsLeaveReserve'
<1> USE DEF SweepInv
<1>1. /\ UNCHANGED <<socketVars, job.phase, job.amount>> /\ job'.amount \in Nat
      /\ asked' = asked /\ serving' = serving /\ request' = request
  BY ChainKeepsTheJob DEF VerdictInv, TypeInv, SignerTypeOK, socketVars, jobButSigned, Job
<1>2. tx \in [Conn -> Tx] /\ job \in Job /\ (job.phase # "idle" => serving \in Conn)
      /\ \A c \in Conn : tx[c].amount \in Nat
  BY DEF VerdictInv, TypeInv, SignerTypeOK, HeldLinesAreUsed, Tx
(* A connection's transfer is untouched, just submitted, or settled. *)
<1>3. ASSUME NEW c \in Conn
      PROVE  \/ tx'[c] = tx[c] /\ ~Settles(c)
             \/ tx'[c].state \in {"landed", "dropped"}
             \/ /\ SubmitTransfer /\ c = serving
                /\ tx'[c].from = asked.coldkey /\ tx'[c].amount = job.amount
  <2>5. Settles(c) => tx[c].state = "submitted" /\ tx'[c].state \in {"landed", "dropped"}
    BY <1>2, SettlingIsOne DEF Settles
  <2>1. CASE SubmitTransfer
    BY <1>2, <2>1, <2>5 DEF SubmitTransfer
  <2>2. CASE SubmitUnstake
    BY <2>2, <2>5 DEF SubmitUnstake
  <2>3. ASSUME NEW d \in Conn, Settles(d)
        PROVE  tx'[d].state \in {"landed", "dropped"} /\ (d # c => tx'[c] = tx[c] /\ ~Settles(c))
    <3>1. tx'[d].state \in {"landed", "dropped"} /\ (d # c => tx'[c] = tx[c])
      BY <1>2, <2>3, SettlingIsOne DEF Settles
    <3> QED
      BY <2>5, <3>1
  <2>4. ASSUME NEW d \in Conn, NEW h \in Hotkey, UnstakeLands(d, h) \/ UnstakeDropped(d, h)
        PROVE  tx'[c] = tx[c] /\ ~Settles(c)
    BY <2>4, <2>5 DEF UnstakeLands, UnstakeDropped
  <2> QED
    BY <2>1, <2>2, <2>3, <2>4 DEF ChainStep, Settles
<1>4. ASSUME NEW c \in Conn, c = serving \/ tx[c].state = "submitted", ~Settles(c),
             NEW w \in Wallet, NEW n \in Nat, ReserveIsLeft(c, w, n)
      PROVE  \/ free'[w] >= n + Reserve
             \/ \E d \in Conn \ {c} : /\ tx'[d].from = w /\ tx'[d].state \in {"landed", "dropped"}
                                     /\ \E e \in {c, d} : InDoubt(e)'
  BY <1>4, ReserveStays DEF ReserveIsLeft
<1>5. ASSUME job.phase = "transfer", asked.op = OpSweep, tx'[serving].state = "none"
      PROVE  asked.coldkey \in Wallet /\ ReserveIsLeft(serving, asked.coldkey, job.amount)'
  <2>1. tx'[serving] = tx[serving] /\ ~Settles(serving) /\ serving \in Conn
    <3>1. serving \in Conn /\ (SubmitTransfer => tx'[serving].state = "submitted")
      BY <1>2, <1>5 DEF SubmitTransfer
    <3> QED
      BY <1>3, <1>5, <3>1
  <2>2. asked.coldkey \in Wallet /\ ReserveIsLeft(serving, asked.coldkey, job.amount)
    BY <1>5, <2>1 DEF SweepsLeaveReserve
  <2>3. ReserveIsLeft(serving, asked.coldkey, job.amount)'
    <3>1. job.amount \in Nat /\ asked.coldkey' = asked.coldkey /\ job'.amount = job.amount
      BY <1>1, <1>2 DEF Job
    <3> QED
      BY <1>1, <1>4, <2>1, <2>2, <3>1 DEF ReserveIsLeft
  <2> QED
    BY <2>2, <2>3
<1>6. ASSUME NEW c \in Conn, tx'[c].state = "submitted", request[c].op = OpSweep
      PROVE  tx'[c].from \in Wallet /\ ReserveIsLeft(c, tx[c].from, tx[c].amount)'
  <2>1. CASE tx'[c] = tx[c] /\ ~Settles(c)
    <3>1. tx[c].from \in Wallet /\ ReserveIsLeft(c, tx[c].from, tx[c].amount)
      BY <1>6, <2>1 DEF SweepsLeaveReserve
    <3> QED
      BY <1>2, <1>4, <1>6, <2>1, <3>1 DEF ReserveIsLeft
  <2>2. CASE SubmitTransfer /\ c = serving /\ tx'[c].from = asked.coldkey /\ tx'[c].amount = job.amount
    <3>1. job.phase = "transfer" /\ asked.op = OpSweep /\ ~job.signed
      BY <1>6, <2>2 DEF SubmitTransfer, asked
    <3>2. tx[serving].state = "none" /\ ~Settles(c)
      BY <2>2, <3>1 DEF VerdictInv, Verdicts, JobIsHonest, TransferUnderWay, Settles, TransferLands,
                        TransferDropped
    <3>3. asked.coldkey \in Wallet /\ ReserveIsLeft(c, asked.coldkey, job.amount) /\ job.amount \in Nat
      BY <1>2, <2>2, <3>1, <3>2 DEF SweepsLeaveReserve, Job
    <3> QED
      BY <1>4, <2>2, <3>2, <3>3 DEF ReserveIsLeft
  <2> QED
    BY <1>3, <1>6, <2>1, <2>2
<1> QED
  BY <1>1, <1>5, <1>6 DEF SweepsLeaveReserve, socketVars

(* Doubt about a request that put something on the chain is there to stay.    *)
DoubtStays == \A e \in Conn : tx[e].state # "none" /\ InDoubt(e) => InDoubt(e)'

(* Of the steps that leave the chain alone, only HandleSweep starts a sweep:  *)
(* with what the wallet holds above the reserve.                              *)
LEMMA OthersLeaveReserve ==
    ASSUME SweepInv, UNCHANGED chainVars, DoubtStays,
           \A c \in Conn : tx[c].state = "submitted" => request'[c] = request[c],
           job'.phase = "transfer" =>
               \/ job' = job /\ serving' = serving /\ asked' = asked
               \/ HandleSweep
    PROVE  SweepsLeaveReserve'
<1> USE DEF SweepInv
<1>1. ASSUME NEW c \in Conn, c = serving \/ tx[c].state = "submitted", NEW w, NEW n,
             ReserveIsLeft(c, w, n)
      PROVE  \/ free'[w] >= n + Reserve
             \/ \E d \in Conn \ {c} : /\ tx'[d].from = w /\ tx'[d].state \in {"landed", "dropped"}
                                     /\ \E e \in {c, d} : InDoubt(e)'
  <2>1. free' = free /\ tx' = tx
    BY DEF chainVars
  <2>2. ASSUME NEW d \in Conn, tx[d].state \in {"landed", "dropped"}, NEW e \in {c, d}, InDoubt(e)
        PROVE  InDoubt(e)'
    BY <1>1, <2>2 DEF DoubtStays, InDoubt
  <2> QED
    BY <1>1, <2>1, <2>2 DEF ReserveIsLeft
<1>2. ASSUME NEW c \in Conn, tx'[c].state = "submitted", request'[c].op = OpSweep
      PROVE  tx'[c].from \in Wallet /\ ReserveIsLeft(c, tx[c].from, tx[c].amount)'
  <2>1. tx' = tx /\ request'[c] = request[c]
    BY <1>2 DEF chainVars
  <2>2. tx[c].from \in Wallet /\ ReserveIsLeft(c, tx[c].from, tx[c].amount)
    BY <1>2, <2>1 DEF SweepsLeaveReserve
  <2>3. PICK w, n : w = tx[c].from /\ n = tx[c].amount
    OBVIOUS
  <2>4. ReserveIsLeft(c, w, n) /\ tx[c].state = "submitted"
    BY <1>2, <2>1, <2>2, <2>3
  <2>5. \/ free'[w] >= n + Reserve
        \/ \E d \in Conn \ {c} : /\ tx'[d].from = w /\ tx'[d].state \in {"landed", "dropped"}
                                /\ \E e \in {c, d} : InDoubt(e)'
    BY <1>1, <2>4
  <2>6. ReserveIsLeft(c, w, n)'
    BY <2>5 DEF ReserveIsLeft
  <2> QED
    BY <2>1, <2>2, <2>3, <2>6 DEF ReserveIsLeft
<1>3. ASSUME job'.phase = "transfer", asked'.op = OpSweep, tx'[serving'].state = "none"
      PROVE  asked'.coldkey \in Wallet /\ ReserveIsLeft(serving, asked.coldkey, job.amount)'
  <2>1. job \in Job /\ (job.phase # "idle" => serving \in Conn) /\ free \in [Wallet -> Nat]
    BY DEF VerdictInv, TypeInv, SignerTypeOK, HeldLinesAreUsed
  <2>2. CASE job' = job /\ serving' = serving /\ asked' = asked
    <3>1. asked.coldkey \in Wallet /\ ReserveIsLeft(serving, asked.coldkey, job.amount)
      BY <1>3, <2>2 DEF SweepsLeaveReserve, chainVars
    <3>2. PICK w, n : w = asked.coldkey /\ n = job.amount
      OBVIOUS
    <3>3. serving \in Conn
      BY <1>3, <2>1, <2>2
    <3>4. ReserveIsLeft(serving, w, n)'
      BY <1>1, <2>2, <3>1, <3>2, <3>3 DEF ReserveIsLeft
    <3> QED
      BY <2>2, <3>1, <3>2, <3>4 DEF ReserveIsLeft
  <2>3. CASE HandleSweep
    <3>1. /\ job.phase = "handle" /\ asked.coldkey \in Wallet /\ asked' = asked /\ serving' = serving
      BY <2>3 DEF HandleSweep, Handling, asked, socketVars
    <3>2. \A why : Settle(Failed(why)) => job'.phase = "reply"
      BY <2>1 DEF Settle, Job
    <3>3. StartTransfer(Parent, Sweepable(asked.coldkey))
      BY <1>3, <2>3, <3>2 DEF HandleSweep
    <3>4. job'.amount = free[asked.coldkey] - Reserve
      BY <2>1, <3>3 DEF StartTransfer, Job, Sweepable
    <3>5. free'[asked.coldkey] >= job'.amount + Reserve
      BY <2>1, <3>1, <3>4, SignerAssumption DEF chainVars
    <3> QED
      BY <3>1, <3>5 DEF ReserveIsLeft
  <2> QED
    BY <1>3, <2>2, <2>3
<1> QED
  BY <1>2, <1>3 DEF SweepsLeaveReserve

(* Every step keeps the reserve out of the sweep in hand.                     *)
LEMMA NextSweeps == SweepInv /\ [SignerNext]_signerVars => SweepInv'
<1> SUFFICES ASSUME SweepInv, [SignerNext]_signerVars PROVE SweepsLeaveReserve'
  BY NextVerdicts DEF SweepInv
<1>1. job \in Job
  BY DEF SweepInv, VerdictInv, TypeInv, SignerTypeOK
<1>2. \A res : Settle(res) => job'.phase # "transfer"
  BY <1>1 DEF Settle, Job
<1>9. UNCHANGED <<serving, result>> => DoubtStays
  BY DEF DoubtStays, InDoubt, PlainFailure, Answered
<1>3. CASE HandleRequest
  <2>1. UNCHANGED <<socketVars, chainVars>> /\ request' = request /\ DoubtStays
    BY <1>3, <1>9 DEF HandleRequest, RejectLine, HandleRead, HandleNoWallet, HandlePay, HandleSweep,
                HandleDistribute, HandleUnstake, socketVars
  <2>2. CASE RejectLine \/ HandleRead \/ HandleNoWallet \/ HandleUnstake
    <3>1. job'.phase # "transfer"
      BY <1>1, <1>2, <2>2 DEF RejectLine, HandleRead, HandleNoWallet, HandleUnstake, Job
    <3> QED
      BY <2>1, <3>1, OthersLeaveReserve
  <2>3. CASE HandlePay \/ HandleDistribute
    <3>1. asked.op # OpSweep /\ asked' = asked
      BY <2>1, <2>3 DEF HandlePay, HandleDistribute, Handling, OpPay, OpDistribute, OpSweep, asked,
                        socketVars
    <3>2. \A c \in Conn : tx'[c].state = "submitted" /\ request'[c].op = OpSweep =>
              tx'[c].from \in Wallet /\ ReserveIsLeft(c, tx[c].from, tx[c].amount)'
      BY <2>1 DEF SweepInv, SweepsLeaveReserve, ReserveIsLeft, InDoubt, PlainFailure, Answered,
                  chainVars, socketVars
    <3> QED
      BY <3>1, <3>2 DEF SweepsLeaveReserve
  <2>4. CASE HandleSweep
    BY <2>1, <2>4, OthersLeaveReserve
  <2> QED
    BY <1>3, <2>2, <2>3, <2>4 DEF HandleRequest
<1>4. CASE RunTransfer \/ RunUnstake
  <2>1. UNCHANGED <<socketVars, chainVars>> /\ request' = request /\ DoubtStays
    BY <1>4, <1>9 DEF RunTransfer, TransferPrinted, TransferUnlockRejected, TransferTimesOut, RecordSpend,
                RunUnstake, NextHotkey, BudgetSpent, UnstakePrinted, UnstakeUnlockRejected,
                UnstakeTimesOut, EndUnstake, socketVars
  <2>2. job'.phase # "transfer"
    <3>1. \A outcome : EndTransfer(outcome) => job'.phase # "transfer"
      BY <1>1, <1>2 DEF EndTransfer, Job
    <3>2. \A outcome : FileHotkey(outcome) => job'.phase = job.phase
      BY <1>1 DEF FileHotkey, Job
    <3> QED
      BY <1>1, <1>2, <1>4, <3>1, <3>2 DEF RunTransfer, TransferPrinted, TransferUnlockRejected,
         TransferTimesOut, RecordSpend, RunUnstake, NextHotkey, BudgetSpent, UnstakePrinted,
         UnstakeUnlockRejected, UnstakeTimesOut, EndUnstake, Job
  <2> QED
    BY <2>1, <2>2, OthersLeaveReserve
<1>5. CASE TakeRequest \/ DropLine \/ SendReply
  <2>1. request' = request /\ UNCHANGED chainVars /\ job'.phase # "transfer"
    BY <1>5 DEF TakeRequest, DropLine, SendReply, Accept, HangUp, Answer, Idle
  <2>2. CASE TakeRequest
    <3>1. SocketTypeOK /\ HeldOnce /\ result' = result
      BY <2>2 DEF SweepInv, VerdictInv, TypeInv, SignerTypeOK, Verdicts, HeldIsSound, TakeRequest, Accept
    <3>2. serving' \in Queued
      BY <2>2, <3>1, AcceptTakesOne DEF TakeRequest
    <3>3. tx[serving'].state = "none"
      BY <3>2 DEF SweepInv, VerdictInv, Verdicts, HeldIsSound, FreshHasNoTrace, NoTrace
    <3>4. DoubtStays
      BY <3>1, <3>3 DEF DoubtStays, InDoubt, PlainFailure, Answered
    <3> QED
      BY <2>1, <3>4, OthersLeaveReserve
  <2>3. CASE DropLine \/ SendReply
    <3>1. serving' = NoConn /\ NoConn \notin Conn /\ \A c \in Conn : c # serving => result'[c] = result[c]
      BY <2>3, SocketAssumption DEF DropLine, SendReply, HangUp, Answer, SweepInv, VerdictInv, TypeInv,
                                    SignerTypeOK, SocketTypeOK
    <3>2. DoubtStays
      BY <3>1 DEF DoubtStays, InDoubt, PlainFailure, Answered
    <3> QED
      BY <2>1, <3>2, OthersLeaveReserve
  <2> QED
    BY <1>5, <2>2, <2>3
<1>6. CASE HostStep
  <2>1. request' = request /\ UNCHANGED chainVars
    BY <1>6 DEF HostStep, Midnight, Crash, Restart, ServerVanishes, ServerListens, socketVars
  <2>2. job'.phase = "transfer" => job' = job /\ serving' = serving /\ asked' = asked
    BY <1>6 DEF HostStep, Midnight, Crash, Restart, ServerVanishes, ServerListens, socketVars, Idle, asked
  <2>3. DoubtStays
    <3>1. result' = result /\ (serving' = serving \/ serving' = NoConn) /\ NoConn \notin Conn
      BY <1>6, SocketAssumption DEF HostStep, Midnight, Crash, Restart, ServerVanishes, ServerListens, socketVars
    <3> QED
      BY <3>1 DEF DoubtStays, InDoubt, PlainFailure, Answered
  <2> QED
    BY <2>1, <2>2, <2>3, OthersLeaveReserve
<1>7. CASE ClientStep
  <2>1. PICK c \in Conn : (\E r \in Asked : Connect(c, r)) \/ ConnectFails(c) \/ GiveUp(c)
    BY <1>7 DEF ClientStep
  <2>2. job' = job /\ serving' = serving /\ UNCHANGED chainVars /\ DoubtStays
    BY <1>7, <1>9, <2>1 DEF ClientStep, Connect, ConnectFails, GiveUp
  <2>3. \A d \in Conn : request'[d] # request[d] => line[d] = "unused"
    BY <2>1 DEF Connect, ConnectFails, GiveUp, SweepInv, VerdictInv, TypeInv, SignerTypeOK, SocketTypeOK
  <2>4. job.phase # "idle" => asked' = asked
    BY <2>2, <2>3 DEF asked, SweepInv, VerdictInv, TypeInv, HeldLinesAreUsed
  <2>5. \A d \in Conn : tx[d].state = "submitted" => request'[d] = request[d]
    BY <2>3 DEF SweepInv, VerdictInv, Verdicts, HeldIsSound, FreshHasNoTrace, NoTrace
  <2> QED
    BY <2>2, <2>4, <2>5, OthersLeaveReserve
<1>8. CASE UNCHANGED signerVars
  <2>1. UNCHANGED <<job, request, serving, chainVars>> /\ asked' = asked /\ DoubtStays
    BY <1>8, <1>9 DEF signerVars, socketVars, asked
  <2> QED
    BY <2>1, OthersLeaveReserve
<1> QED
  BY <1>3, <1>4, <1>5, <1>6, <1>7, <1>8, ChainLeavesReserve DEF SignerNext, SignerStep

(* A sweep that lands leaves its wallet the reserve but for the chain's fee,  *)
(* unless another transfer of the wallet was settled besides and one of the   *)
(* two had been left in doubt.                                                *)
THEOREM SweptWalletIsLeftItsReserve == SignerSpec => SweptWalletKeepsReserve
<1> DEFINE Keeps(c) ==
        tx[c].state = "submitted" /\ tx'[c].state = "landed" /\ request[c].op = OpSweep
            => \/ free'[tx[c].from] >= Reserve - ChainFee
               \/ \E d \in Conn \ {c} : /\ tx[d].from = tx[c].from
                                       /\ tx[d].state \in {"landed", "dropped"}
                                       /\ \E e \in {c, d} : InDoubt(e)
<1>1. SignerInit => SweepInv
  <2> SUFFICES ASSUME SignerInit PROVE SweepsLeaveReserve
    BY InitVerdicts DEF SweepInv
  <2> QED
    BY DEF SignerInit, Idle, NoTx, SweepsLeaveReserve
<1>2. SweepInv /\ [SignerNext]_signerVars => [\A c \in Conn : Keeps(c)]_signerVars
  <2> SUFFICES ASSUME SweepInv, SignerNext, NEW c \in Conn, tx[c].state = "submitted",
                      tx'[c].state = "landed", request[c].op = OpSweep
               PROVE  \/ free'[tx[c].from] >= Reserve - ChainFee
                      \/ \E d \in Conn \ {c} : /\ tx[d].from = tx[c].from
                                              /\ tx[d].state \in {"landed", "dropped"}
                                              /\ \E e \in {c, d} : InDoubt(e)
    OBVIOUS
  <2>1. tx \in [Conn -> Tx] /\ free \in [Wallet -> Nat] /\ tx[c].amount \in Nat /\ TypeInv
    BY DEF SweepInv, VerdictInv, TypeInv, SignerTypeOK, Tx
  <2>2. TransferLands(c)
    <3>1. ~UNCHANGED tx
      OBVIOUS
    <3>2. SignerNext => ChainStep \/ UNCHANGED tx
      BY DEF SignerNext, SignerStep, HandleRequest, RejectLine, HandleRead, HandleNoWallet, HandlePay,
         HandleSweep, HandleDistribute, HandleUnstake, RunTransfer, TransferPrinted,
         TransferUnlockRejected, TransferTimesOut, RecordSpend, RunUnstake, NextHotkey, BudgetSpent,
         UnstakePrinted, UnstakeUnlockRejected, UnstakeTimesOut, EndUnstake, TakeRequest, DropLine,
         SendReply,
         HostStep, Midnight, Crash, Restart, ClientStep, chainVars
    <3>3. ASSUME NEW d \in Conn, Settles(d) PROVE TransferLands(c)
      <4>1. d = c
        BY <2>1, <3>3, SettlingIsOne DEF Tx
      <4> QED
        BY <2>1, <3>3, <4>1, SettlingIsOne DEF Settles
    <3>4. ~SubmitTransfer
      BY <2>1 DEF SubmitTransfer
    <3> QED
      BY <3>1, <3>2, <3>3, <3>4 DEF ChainStep, SubmitUnstake, UnstakeLands, UnstakeDropped, Settles
  <2>3. tx[c].from \in Wallet /\ ReserveIsLeft(c, tx[c].from, tx[c].amount)
    BY DEF SweepInv, SweepsLeaveReserve
  <2>4. free'[tx[c].from] \in Nat
        /\ free'[tx[c].from] >= free[tx[c].from] - (tx[c].amount + ChainFee)
    BY <2>1, <2>2, <2>3, SettlingTakesItsOwn DEF Settles
  <2>5. CASE free[tx[c].from] >= tx[c].amount + Reserve
    <3>1. PICK before \in Nat, after \in Nat : before = free[tx[c].from] /\ after = free'[tx[c].from]
      BY <2>1, <2>3, <2>4
    <3> QED
      BY <2>1, <2>4, <2>5, <3>1, SignerAssumption
  <2> QED
    BY <2>3, <2>5 DEF ReserveIsLeft
<1> QED
  BY <1>1, <1>2, NextSweeps, PTL DEF SignerSpec, SweptWalletKeepsReserve

-----------------------------------------------------------------------------
(***************************************************************************)
(* The payments booked on one day, summed.  As long as no write of the      *)
(* total failed, the running total is the sum of its day's bookings, every  *)
(* other day's bookings are history and fitted the cap, and the amounts     *)
(* behind the bookings do not change any more.                              *)
(***************************************************************************)

(* The connections whose payment was booked. *)
Paid == {c \in Conn : bookedOn[c] # NoDay}

BookingsStand ==
    /\ IsFiniteSet(Paid)
    /\ \A c \in Paid : tx[c].state = "landed"
    /\ job.phase \in {"transfer", "book"} => serving \notin Paid

TotalIsTheSum ==
    /\ file = spent
    /\ \A c \in Paid : bookedOn[c] <= spent.day
    /\ spent.day # NoDay => BookedOn(spent.day) = spent.rao
    /\ \A day \in Nat : day # spent.day => BookedOn(day) <= DailyCap

BookInv == SpendInv /\ VerdictInv /\ BookingsStand /\ (unsaved \/ TotalIsTheSum)

(* A day's bookings are finitely many, and each has an amount.                *)
LEMMA DaysAreFinite ==
    ASSUME TypeInv, BookingsStand, NEW day \in Nat
    PROVE  /\ IsFiniteSet({c \in Conn : bookedOn[c] = day})
           /\ \A c \in Conn : [d \in Conn |-> tx[d].amount][c] \in Nat
<1>1. {c \in Conn : bookedOn[c] = day} \subseteq Paid
  BY DEF Paid, NoDay
<1>2. IsFiniteSet({c \in Conn : bookedOn[c] = day})
  BY <1>1, FS_Subset DEF BookingsStand
<1>3. \A c \in Conn : [d \in Conn |-> tx[d].amount][c] \in Nat
  BY DEF TypeInv, SignerTypeOK, Tx
<1> QED
  BY <1>2, <1>3

(* What books nothing and keeps the amounts behind the bookings keeps every   *)
(* day's sum.                                                                 *)
LEMMA SumsStand ==
    ASSUME TypeInv, BookingsStand, UNCHANGED bookedOn,
           \A c \in Paid : tx'[c].amount = tx[c].amount, NEW day \in Nat
    PROVE  BookedOn(day)' = BookedOn(day)
<1>1. PICK f : f = [c \in Conn |-> tx[c].amount]
  OBVIOUS
<1>2. PICK g : g = [c \in Conn |-> tx'[c].amount]
  OBVIOUS
<1>3. PICK S : S = {c \in Conn : bookedOn[c] = day}
  OBVIOUS
<1>4. IsFiniteSet(S)
  BY <1>3, DaysAreFinite
<1>5. \A c \in S : f[c] = g[c]
  BY <1>1, <1>2, <1>3 DEF Paid, NoDay
<1>6. SumFunctionOnSet(f, S) = SumFunctionOnSet(g, S)
  BY <1>4, <1>5, SumAgrees
<1>7. BookedOn(day) = SumFunctionOnSet(f, S)
  BY <1>1, <1>3 DEF BookedOn
<1>8. {c \in Conn : bookedOn'[c] = day} = S
  BY <1>3
<1>9. BookedOn(day)' = SumFunctionOnSet(g, S)
  BY <1>2, <1>8 DEF BookedOn
<1> QED
  BY <1>6, <1>7, <1>9

(* A step that books nothing.                                                 *)
LEMMA NothingBooked ==
    ASSUME BookInv, UNCHANGED bookedOn,
           \A c \in Paid : tx'[c].state = "landed" /\ tx'[c].amount = tx[c].amount,
           unsaved' \/ (unsaved' = unsaved /\ (~unsaved => spent' = spent /\ file' = file)),
           job'.phase \in {"transfer", "book"} => serving' \notin Paid
    PROVE  BookingsStand' /\ (unsaved \/ TotalIsTheSum)'
<1>1. Paid' = Paid
  BY DEF Paid
<1>2. BookingsStand'
  BY <1>1 DEF BookInv, BookingsStand
<1>3. ASSUME ~unsaved' PROVE TotalIsTheSum'
  <2>1. spent' = spent /\ file' = file /\ TotalIsTheSum
    BY <1>3 DEF BookInv
  <2>2. \A day \in Nat : BookedOn(day)' = BookedOn(day)
    BY SumsStand DEF BookInv, VerdictInv
  <2>3. spent.day \in Nat \cup {NoDay}
    BY DEF BookInv, SpendInv, SignerTypeOK, DaySpend
  <2>4. spent.day # NoDay => BookedOn(spent.day)' = BookedOn(spent.day)
    BY <2>1, <2>2, <2>3
  <2> QED
    BY <1>1, <2>1, <2>2, <2>4 DEF TotalIsTheSum
<1> QED
  BY <1>2, <1>3

(* The booking of a payment adds its amount to the sum of the day.            *)
LEMMA BookingAddsUp ==
    ASSUME BookInv, SpendInv', RecordSpend
    PROVE  BookingsStand' /\ (unsaved \/ TotalIsTheSum)'
<1>1. /\ serving \in Conn /\ serving \notin Paid /\ job'.phase = "reply"
      /\ tx[serving].state = "landed" /\ tx[serving].amount = job.amount
      /\ today \in Nat /\ UNCHANGED <<tx, today>>
  BY DEF RecordSpend, BookInv, VerdictInv, TypeInv, HeldLinesAreUsed, SignerTypeOK, Verdicts, JobIsHonest,
         BookingsStand, chainVars, hostVars, Settle, Job
<1>2. /\ bookedOn \in [Conn -> Nat \cup {NoDay}]
      /\ bookedOn' = [bookedOn EXCEPT ![serving] = today]
  BY DEF RecordSpend, BookInv, SpendInv, SignerTypeOK
<1>3. Paid' = Paid \cup {serving}
  BY <1>1, <1>2 DEF Paid, NoDay
<1>4. BookingsStand'
  BY <1>1, <1>3, FS_AddElement DEF BookInv, BookingsStand
<1>5. ASSUME ~unsaved' PROVE TotalIsTheSum'
  <2>1. ~unsaved /\ TotalIsTheSum /\ file' = spent' /\ spent' = Booked(job.amount)
    BY <1>5 DEF RecordSpend, BookInv
  <2>2. /\ spent.day \in Nat \cup {NoDay} /\ spent.rao \in Nat /\ spent.day <= today
        /\ job.amount \in Nat /\ spent' \in DaySpend /\ spent'.rao <= DailyCap
    BY DEF BookInv, SpendInv, SignerTypeOK, DaySpend, Job, TotalsAreDated, SpendWithinCap
  <2>3. /\ spent'.day = today
        /\ spent.day # today => spent'.rao = job.amount
        /\ spent.day = today => spent'.rao = spent.rao + job.amount
    BY <2>1, <2>2 DEF Booked, BookInv, SpendInv, SignerTypeOK, DaySpend
  <2>4. PICK f : f = [c \in Conn |-> tx[c].amount]
    OBVIOUS
  <2>5. ASSUME NEW day \in Nat, day # today PROVE BookedOn(day)' = BookedOn(day)
    <3>1. {c \in Conn : bookedOn'[c] = day} = {c \in Conn : bookedOn[c] = day}
      BY <1>1, <1>2, <2>5 DEF Paid, NoDay
    <3> QED
      BY <1>1, <3>1 DEF BookedOn
  <2>6. PICK S : S = {c \in Conn : bookedOn[c] = today}
    OBVIOUS
  <2>7. BookedOn(today)' = f[serving] + SumFunctionOnSet(f, S)
    <3>1. {c \in Conn : bookedOn'[c] = today} = S \cup {serving}
      BY <1>1, <1>2, <2>6
    <3>2. IsFiniteSet(S) /\ serving \notin S /\ \A c \in S \cup {serving} : f[c] \in Int
      BY <1>1, <2>4, <2>6, DaysAreFinite DEF BookInv, VerdictInv, Paid, NoDay
    <3>3. BookedOn(today)' = SumFunctionOnSet(f, S \cup {serving})
      BY <1>1, <2>4, <3>1 DEF BookedOn
    <3> QED
      BY <3>2, <3>3, SumAdd
  <2>8. SumFunctionOnSet(f, S) = IF spent.day = today THEN spent.rao ELSE 0
    <3>1. CASE spent.day = today
      <4>1. BookedOn(today) = spent.rao
        BY <1>1, <2>1, <3>1 DEF TotalIsTheSum, NoDay
      <4> QED
        BY <2>4, <2>6, <3>1, <4>1 DEF BookedOn
    <3>2. CASE spent.day # today
      <4>1. spent.day < today
        BY <1>1, <2>2, <3>2 DEF NoDay
      <4>2. \A c \in Conn : bookedOn[c] # today
        BY <1>1, <1>2, <2>1, <2>2, <4>1 DEF TotalIsTheSum, Paid, NoDay
      <4>3. S = {}
        BY <2>6, <4>2
      <4> QED
        BY <3>2, <4>3, SumEmpty
    <3> QED
      BY <3>1, <3>2
  <2>9. BookedOn(today)' = spent'.rao
    BY <1>1, <2>2, <2>3, <2>4, <2>7, <2>8
  <2>10. \A c \in Paid' : bookedOn'[c] <= today
    BY <1>1, <1>2, <1>3, <2>1, <2>2 DEF TotalIsTheSum, Paid, NoDay
  <2>11. ASSUME NEW day \in Nat, day # today PROVE BookedOn(day)' <= DailyCap
    <3>1. CASE day = spent.day
      <4>1. BookedOn(day) = spent.rao
        BY <2>1, <3>1 DEF TotalIsTheSum, NoDay
      <4> QED
        BY <2>5, <2>11, <4>1 DEF BookInv, SpendInv, SpendWithinCap
    <3>2. CASE day # spent.day
      BY <2>1, <2>5, <2>11, <3>2 DEF TotalIsTheSum
    <3> QED
      BY <3>1, <3>2
  <2>12. BookedOn(spent.day)' = spent'.rao
    BY <1>1, <2>3, <2>9 DEF BookedOn
  <2> QED
    BY <2>1, <2>3, <2>10, <2>11, <2>12 DEF TotalIsTheSum
<1> QED
  BY <1>4, <1>5

(* Every step keeps the running total the sum of its day's bookings.          *)
LEMMA NextBookings == BookInv /\ [SignerNext]_signerVars => BookInv'
<1> SUFFICES ASSUME BookInv, [SignerNext]_signerVars
             PROVE  BookingsStand' /\ (unsaved \/ TotalIsTheSum)'
  BY NextSpend, NextVerdicts DEF BookInv
<1>1. job \in Job /\ BookingsStand /\ \A c \in Paid : c \in Conn /\ tx[c].state = "landed"
  BY DEF BookInv, SpendInv, SignerTypeOK, BookingsStand, Paid
<1>2. \A res : Settle(res) => job'.phase = "reply"
  BY <1>1 DEF Settle, Job
<1>3. CASE HandleRequest
  <2>1. /\ UNCHANGED <<bookVars, tx>> /\ serving' = serving
        /\ job.phase = "handle" /\ serving \in Conn
    BY <1>3 DEF HandleRequest, RejectLine, HandleRead, HandleNoWallet, HandlePay, HandleSweep,
                HandleDistribute, HandleUnstake, Handling, socketVars, chainVars, BookInv, SpendInv,
                HeldLinesAreUsed
  <2>2. serving \notin Paid
    BY <1>1, <2>1 DEF BookInv, VerdictInv, Verdicts, JobIsHonest, NoTrace
  <2> QED
    BY <1>1, <2>1, <2>2, NothingBooked DEF bookVars
<1>4. CASE RecordSpend
  BY <1>4, NextSpend, BookingAddsUp DEF BookInv
<1>5. CASE TransferPrinted \/ TransferUnlockRejected \/ TransferTimesOut
  <2>1. UNCHANGED <<bookVars, tx>> /\ serving' = serving /\ job.phase = "transfer"
    BY <1>5 DEF TransferPrinted, TransferUnlockRejected, TransferTimesOut, socketVars, chainVars
  <2> QED
    BY <1>1, <2>1, NothingBooked DEF bookVars, BookingsStand
<1>6. CASE RunUnstake
  <2>1. UNCHANGED <<bookVars, tx>>
    BY <1>6 DEF RunUnstake, NextHotkey, BudgetSpent, UnstakePrinted, UnstakeUnlockRejected,
                UnstakeTimesOut, EndUnstake, chainVars
  <2>2. job'.phase \in {"unstake", "reply"}
    <3>1. job.phase = "unstake" /\ \A outcome : FileHotkey(outcome) => job'.phase = job.phase
      BY <1>1, <1>6 DEF FileHotkey, Job, RunUnstake, NextHotkey, BudgetSpent, UnstakePrinted,
                        UnstakeUnlockRejected, UnstakeTimesOut, EndUnstake
    <3> QED
      BY <1>1, <1>2, <1>6, <3>1 DEF RunUnstake, NextHotkey, BudgetSpent, UnstakePrinted,
         UnstakeUnlockRejected, UnstakeTimesOut, EndUnstake, Job
  <2> QED
    BY <1>1, <2>1, <2>2, NothingBooked DEF bookVars
<1>7. CASE TakeRequest \/ DropLine \/ SendReply
  <2>1. UNCHANGED <<bookVars, tx>> /\ job'.phase \in {"handle", "idle"}
    BY <1>7 DEF TakeRequest, DropLine, SendReply, Idle, chainVars
  <2> QED
    BY <1>1, <2>1, NothingBooked DEF bookVars
<1>8. CASE ChainStep
  <2>1. UNCHANGED <<bookVars, job.phase, serving>>
    BY <1>1, <1>8, ChainKeepsTheJob DEF jobButSigned
  <2>2. \A c \in Conn : tx[c].state = "landed" => tx'[c] = tx[c]
    <3>1. tx \in [Conn -> Tx] /\ (job.phase = "transfer" => TransferUnderWay)
      BY DEF BookInv, SpendInv, SignerTypeOK, VerdictInv, Verdicts, JobIsHonest
    <3>2. ASSUME NEW d \in Conn, Settles(d)
          PROVE  \A c \in Conn : tx[c].state = "landed" => tx'[c] = tx[c]
      BY <3>1, <3>2, SettlingIsOne
    <3>3. CASE SubmitTransfer
      BY <3>1, <3>3 DEF SubmitTransfer, TransferUnderWay
    <3> QED
      BY <1>8, <3>2, <3>3 DEF ChainStep, SubmitUnstake, UnstakeLands, UnstakeDropped, Settles
  <2> QED
    BY <1>1, <2>1, <2>2, NothingBooked DEF bookVars, BookingsStand
<1>9. CASE HostStep
  <2>1. UNCHANGED <<bookedOn, tx>>
    BY <1>9 DEF HostStep, Midnight, Crash, Restart, bookVars, chainVars
  <2>2. unsaved' \/ (unsaved' = unsaved /\ (~unsaved => spent' = spent /\ file' = file))
    BY <1>9 DEF HostStep, Midnight, Crash, Restart, bookVars, BookInv, TotalIsTheSum
  <2>3. job'.phase \in {"transfer", "book"} => serving' = serving /\ job' = job
    BY <1>9 DEF HostStep, Midnight, Crash, Restart, Idle, socketVars, ServerListens
  <2> QED
    BY <1>1, <2>1, <2>2, <2>3, NothingBooked DEF BookingsStand
<1>10. CASE ClientStep
  <2>1. UNCHANGED <<bookVars, tx, job>> /\ serving' = serving
    BY <1>10 DEF ClientStep, Connect, ConnectFails, GiveUp, chainVars
  <2> QED
    BY <1>1, <2>1, NothingBooked DEF bookVars, BookingsStand
<1>11. CASE UNCHANGED signerVars
  <2>1. UNCHANGED <<bookVars, tx, job>> /\ serving' = serving
    BY <1>11 DEF signerVars, socketVars, chainVars
  <2> QED
    BY <1>1, <2>1, NothingBooked DEF bookVars, BookingsStand
<1> QED
  BY <1>3, <1>4, <1>5, <1>6, <1>7, <1>8, <1>9, <1>10, <1>11 DEF SignerNext, SignerStep, RunTransfer

(* The payments booked on one UTC day stay within the cap over any number of  *)
(* restarts and midnights, as long as no write of the total failed.           *)
THEOREM BookingsStayWithinCap == SignerSpec => []BookedWithinCap
<1>1. SignerInit => BookInv
  <2> SUFFICES ASSUME SignerInit PROVE BookInv
    OBVIOUS
  <2>1. SpendInv /\ VerdictInv
    BY InitSpend, InitVerdicts
  <2>2. Paid = {} /\ \A day \in Nat : {c \in Conn : bookedOn[c] = day} = {}
    BY DEF SignerInit, Paid, NoDay
  <2>3. BookingsStand
    BY <2>2, FS_EmptySet DEF BookingsStand
  <2>4. \A day \in Nat : BookedOn(day) = 0
    BY <2>2, SumEmpty DEF BookedOn
  <2>5. TotalIsTheSum
    BY <2>2, <2>4, SignerAssumption DEF SignerInit, TotalIsTheSum, NoSpend
  <2> QED
    BY <2>1, <2>3, <2>5 DEF BookInv
<1>2. BookInv => BookedWithinCap
  <2> SUFFICES ASSUME BookInv, ~unsaved, NEW day \in 0..MaxDay PROVE BookedOn(day) <= DailyCap
    BY DEF BookedWithinCap
  <2>1. day \in Nat /\ TotalIsTheSum
    BY SignerAssumption DEF BookInv
  <2>2. CASE day = spent.day
    BY <2>1, <2>2 DEF TotalIsTheSum, NoDay, BookInv, SpendInv, SpendWithinCap
  <2> QED
    BY <2>1, <2>2 DEF TotalIsTheSum
<1> QED
  BY <1>1, <1>2, NextBookings, PTL DEF SignerSpec

-----------------------------------------------------------------------------
(***************************************************************************)
(* What the team owns, summed over its wallets.  The argument needs what    *)
(* the configuration promises: the treasury, if there is one, and every     *)
(* coldkey of the roster are the team's.                                    *)
(***************************************************************************)

TheTeamsOwn == Roster \subseteq Wallet /\ (Parent # NoAddress => Parent \in Wallet)

(* A transfer of request c to an address stays in the team, or is a payment   *)
(* within the per-request cap.                                                *)
StaysOrPays(c, to, amount) ==
    to \in Wallet \/ (request[c].op = OpPay /\ amount <= MaxTransfer)

TransfersStayOrPay ==
    /\ job.phase = "transfer" =>
           asked.coldkey \in Wallet /\ StaysOrPays(serving, job.to, job.amount)
    /\ \A c \in Conn : tx[c].state # "none" =>
           tx[c].from \in Wallet /\ StaysOrPays(c, tx[c].to, tx[c].amount)

FundsInv == VerdictInv /\ TransfersStayOrPay

(* Adding to one value of a function adds to the sum of them all.             *)
AddsAt(f, g, S, x, n) ==
    /\ \A y \in S : f[y] \in Int
    /\ \A y \in S : g[y] = IF y = x THEN f[x] + n ELSE f[y]

LEMMA SumOfAddition ==
    ASSUME NEW S, IsFiniteSet(S), NEW f, NEW g, NEW x \in S, NEW n \in Int, AddsAt(f, g, S, x, n)
    PROVE  /\ SumFunctionOnSet(f, S) \in Int
           /\ SumFunctionOnSet(g, S) = SumFunctionOnSet(f, S) + n
<1>1. PICK before \in Int : before = SumFunctionOnSet(f, S)
  BY SumType DEF AddsAt
<1>2. /\ \A y \in S : f[y] \in Int /\ g[y] \in Int /\ (y # x => g[y] = f[y])
      /\ g[x] = f[x] + n
  BY DEF AddsAt
<1>3. SumFunctionOnSet(g, S) = SumFunctionOnSet(f, S) - f[x] + g[x]
  BY <1>2, SumChange
<1> QED
  BY <1>1, <1>2, <1>3

(* What the team owns is a number.                                            *)
LEMMA FundsType == ASSUME TypeInv PROVE TeamFunds \in Int
<1>1. IsFiniteSet(Wallet) /\ IsFiniteSet(Hotkey) /\ free \in [Wallet -> Nat] /\ stake \in [Hotkey -> Nat]
  BY AddressAssumption, SignerAssumption DEF TypeInv, SignerTypeOK
<1>2. SumFunctionOnSet(free, Wallet) \in Int /\ SumFunctionOnSet(stake, Hotkey) \in Int
  BY <1>1, SumType
<1> QED
  BY <1>2 DEF TeamFunds

(* What the wallets' sum loses, the team's funds lose, and no more, as long   *)
(* as the stake stays.                                                        *)
LEMMA FundsFollowFree ==
    ASSUME TypeInv, UNCHANGED stake, NEW n \in Int,
           SumFunctionOnSet(free', Wallet) = SumFunctionOnSet(free, Wallet) + n
    PROVE  TeamFunds' = TeamFunds + n
<1>1. IsFiniteSet(Wallet) /\ IsFiniteSet(Hotkey) /\ free \in [Wallet -> Nat] /\ stake \in [Hotkey -> Nat]
  BY AddressAssumption, SignerAssumption DEF TypeInv, SignerTypeOK
<1>2. PICK before \in Int : before = SumFunctionOnSet(free, Wallet)
  BY <1>1, SumType
<1>3. PICK rest \in Int : rest = SumFunctionOnSet(stake, Hotkey)
  BY <1>1, SumType
<1>4. TeamFunds = before + rest
  BY <1>2, <1>3 DEF TeamFunds
<1>5. TeamFunds' = (before + n) + rest
  BY <1>2, <1>3 DEF TeamFunds
<1> QED
  BY <1>4, <1>5

(* A landing takes the fee out of the team's funds, and its amount unless it  *)
(* goes to one of the team's wallets.                                         *)
LEMMA LandingMovesFunds ==
    ASSUME TypeInv, NEW c \in Conn, TransferLands(c), tx[c].from \in Wallet
    PROVE  \E n \in Int : /\ TeamFunds' = TeamFunds + n
                          /\ n = 0 - ChainFee \/ (tx[c].to \notin Wallet /\ n = 0 - (tx[c].amount + ChainFee))
<1>1. /\ free \in [Wallet -> Nat] /\ tx[c].amount \in Nat /\ IsFiniteSet(Wallet) /\ ChainFee \in Nat
      /\ stake' = stake
  BY AddressAssumption, SignerAssumption DEF TypeInv, SignerTypeOK, Tx, TransferLands
<1>2. PICK from \in Wallet : from = tx[c].from
  OBVIOUS
<1>3. PICK amount \in Nat : amount = tx[c].amount
  BY <1>1
<1>4. PICK debited : debited = [free EXCEPT ![from] = @ - (amount + ChainFee)]
  OBVIOUS
<1>5. free' = Credit(debited, tx[c].to, amount)
  BY <1>2, <1>3, <1>4 DEF TransferLands
<1>6. PICK cost \in Int : cost = 0 - (amount + ChainFee)
  BY <1>1
<1>7. /\ debited \in [Wallet -> Int]
      /\ AddsAt(free, debited, Wallet, from, cost)
  BY <1>1, <1>4, <1>6 DEF AddsAt
<1>8. /\ SumFunctionOnSet(free, Wallet) \in Int
      /\ SumFunctionOnSet(debited, Wallet) = SumFunctionOnSet(free, Wallet) + cost
  BY <1>1, <1>7, SumOfAddition
<1>9. CASE tx[c].to \notin Wallet
  <2>1. free' = debited
    BY <1>5, <1>9 DEF Credit
  <2>2. TeamFunds' = TeamFunds + cost
    BY <1>1, <1>8, <2>1, FundsFollowFree
  <2> QED
    BY <1>3, <1>6, <1>9, <2>2
<1>10. CASE tx[c].to \in Wallet
  <2>1. PICK to \in Wallet : to = tx[c].to
    BY <1>10
  <2>2. PICK credited : credited = [debited EXCEPT ![to] = @ + amount]
    OBVIOUS
  <2>3. free' = credited
    BY <1>5, <2>1, <2>2 DEF Credit
  <2>4. AddsAt(debited, credited, Wallet, to, amount)
    BY <1>7, <2>2 DEF AddsAt
  <2>5. SumFunctionOnSet(credited, Wallet) = SumFunctionOnSet(debited, Wallet) + amount
    BY <1>1, <2>4, SumOfAddition
  <2>6. SumFunctionOnSet(credited, Wallet) = SumFunctionOnSet(free, Wallet) + (0 - ChainFee)
    BY <1>1, <1>6, <1>8, <2>5
  <2>7. TeamFunds' = TeamFunds + (0 - ChainFee)
    BY <1>1, <2>3, <2>6, FundsFollowFree
  <2> QED
    BY <1>1, <2>7
<1> QED
  BY <1>9, <1>10

(* A transfer the chain drops costs the fee, if anything.                     *)
LEMMA DroppingCostsTheFee ==
    ASSUME TypeInv, NEW c \in Conn, TransferDropped(c), tx[c].from \in Wallet
    PROVE  \E n \in Int : TeamFunds' = TeamFunds + n /\ n \in {0, 0 - ChainFee}
<1>1. /\ free \in [Wallet -> Nat] /\ IsFiniteSet(Wallet) /\ ChainFee \in Nat /\ stake' = stake
  BY AddressAssumption, SignerAssumption DEF TypeInv, SignerTypeOK, TransferDropped
<1>2. PICK cost \in {0, ChainFee} : free' = [free EXCEPT ![tx[c].from] = @ - cost]
  BY DEF TransferDropped
<1>3. PICK from \in Wallet : from = tx[c].from
  OBVIOUS
<1>4. PICK n \in Int : n = 0 - cost
  BY <1>1
<1>6. PICK after : after = free'
  OBVIOUS
<1>5. AddsAt(free, after, Wallet, from, n)
  BY <1>1, <1>2, <1>3, <1>4, <1>6 DEF AddsAt
<1>7. SumFunctionOnSet(after, Wallet) = SumFunctionOnSet(free, Wallet) + n
  BY <1>1, <1>5, <1>6, SumOfAddition
<1>8. TeamFunds' = TeamFunds + n
  BY <1>1, <1>6, <1>7, FundsFollowFree
<1> QED
  BY <1>1, <1>4, <1>8

(* An unstake turns stake into as much free balance.                          *)
LEMMA UnstakingKeepsFunds ==
    ASSUME TypeInv, NEW c \in Conn, NEW h \in Hotkey, UnstakeLands(c, h)
    PROVE  TeamFunds' = TeamFunds
<1>1. /\ free \in [Wallet -> Nat] /\ stake \in [Hotkey -> Nat] /\ IsFiniteSet(Wallet) /\ IsFiniteSet(Hotkey)
  BY AddressAssumption, SignerAssumption DEF TypeInv, SignerTypeOK
<1>2. PICK part \in 1..stake[h] : /\ stake' = [stake EXCEPT ![h] = @ - part]
                                  /\ free' = [free EXCEPT ![Owner[h]] = @ + part]
  BY DEF UnstakeLands
<1>3. PICK owner \in Wallet : owner = Owner[h]
  BY SignerAssumption
<1>4. part \in Int /\ 0 - part \in Int
  BY <1>1
<1>5. PICK credited : credited = free'
  OBVIOUS
<1>6. PICK left : left = stake'
  OBVIOUS
<1>7. AddsAt(free, credited, Wallet, owner, part)
  BY <1>1, <1>2, <1>3, <1>4, <1>5 DEF AddsAt
<1>8. AddsAt(stake, left, Hotkey, h, 0 - part)
  BY <1>1, <1>2, <1>4, <1>6 DEF AddsAt
<1>9. /\ SumFunctionOnSet(free, Wallet) \in Int
      /\ SumFunctionOnSet(credited, Wallet) = SumFunctionOnSet(free, Wallet) + part
  BY <1>1, <1>4, <1>7, SumOfAddition
<1>10. /\ SumFunctionOnSet(stake, Hotkey) \in Int
       /\ SumFunctionOnSet(left, Hotkey) = SumFunctionOnSet(stake, Hotkey) + (0 - part)
  BY <1>1, <1>4, <1>8, SumOfAddition
<1>11. TeamFunds' = SumFunctionOnSet(credited, Wallet) + SumFunctionOnSet(left, Hotkey)
  BY <1>5, <1>6 DEF TeamFunds
<1>12. PICK m \in Int, n \in Int : m = SumFunctionOnSet(free, Wallet) /\ n = SumFunctionOnSet(stake, Hotkey)
  BY <1>9, <1>10
<1>13. TeamFunds' = (m + part) + (n + (0 - part))
  BY <1>9, <1>10, <1>11, <1>12
<1>14. TeamFunds = m + n
  BY <1>12 DEF TeamFunds
<1> QED
  BY <1>4, <1>13, <1>14

(* What starts no transfer and leaves the chain alone keeps the transfers as  *)
(* they were asked for.                                                       *)
LEMMA NoTransferStarts ==
    ASSUME FundsInv, UNCHANGED tx,
           \A c \in Conn : tx[c].state # "none" => request'[c] = request[c],
           job'.phase = "transfer" =>
               \/ job' = job /\ serving' = serving /\ asked' = asked
               \/ (asked.coldkey \in Wallet /\ StaysOrPays(serving, job.to, job.amount))'
    PROVE  TransfersStayOrPay'
<1>1. \A c \in Conn : tx'[c].state # "none" =>
          tx'[c].from \in Wallet /\ StaysOrPays(c, tx[c].to, tx[c].amount)'
  BY DEF FundsInv, TransfersStayOrPay, StaysOrPays
<1>2. job'.phase = "transfer" =>
          (asked.coldkey \in Wallet /\ StaysOrPays(serving, job.to, job.amount))'
  BY DEF FundsInv, TransfersStayOrPay, StaysOrPays, asked
<1> QED
  BY <1>1, <1>2 DEF TransfersStayOrPay

(* A daemon that starts a transfer keeps it in the team, or it is a payment   *)
(* within the cap.                                                            *)
LEMMA HandlingStaysOrPays ==
    ASSUME TheTeamsOwn, FundsInv, HandleRequest
    PROVE  TransfersStayOrPay'
<1>1. job \in Job /\ request \in [Conn -> SignRequest] /\ serving \in Conn
  BY DEF FundsInv, VerdictInv, TypeInv, SignerTypeOK, SocketTypeOK, HeldLinesAreUsed, HandleRequest,
         RejectLine, HandleRead, HandleNoWallet, HandlePay, HandleSweep, HandleDistribute,
         HandleUnstake, Handling
<1>2. UNCHANGED <<tx, request, serving>> /\ asked' = asked /\ asked = request[serving]
  BY DEF HandleRequest, RejectLine, HandleRead, HandleNoWallet, HandlePay, HandleSweep,
         HandleDistribute, HandleUnstake, socketVars, chainVars, asked
<1>3. \A res : Settle(res) => job'.phase # "transfer"
  BY <1>1 DEF Settle, Job
<1>4. \A to, amount : StartTransfer(to, amount) => job'.to = to /\ job'.amount = amount
  BY <1>1 DEF StartTransfer, Job
<1>5. CASE RejectLine \/ HandleRead \/ HandleNoWallet \/ HandleUnstake
  <2>1. job'.phase # "transfer"
    BY <1>1, <1>3, <1>5 DEF RejectLine, HandleRead, HandleNoWallet, HandleUnstake, Job
  <2> QED
    BY <1>2, <2>1, NoTransferStarts
<1>6. CASE HandlePay
  <2>1. asked.coldkey \in Wallet /\ asked.op = OpPay
    BY <1>6 DEF HandlePay, Handling
  <2>2. job'.phase = "transfer" => job'.amount <= MaxTransfer
    BY <1>3, <1>4, <1>6 DEF HandlePay
  <2>3. job'.phase = "transfer" => (asked.coldkey \in Wallet /\ StaysOrPays(serving, job.to, job.amount))'
    BY <1>2, <2>1, <2>2 DEF StaysOrPays
  <2> QED
    BY <1>2, <2>3, NoTransferStarts
<1>7. CASE HandleSweep \/ HandleDistribute
  <2>1. asked.coldkey \in Wallet
    BY <1>7 DEF HandleSweep, HandleDistribute
  <2>2. job'.phase = "transfer" => job'.to \in Wallet
    BY <1>3, <1>4, <1>7 DEF HandleSweep, HandleDistribute, SweepAllowed, DistributeAllowed, TheTeamsOwn
  <2>3. job'.phase = "transfer" => (asked.coldkey \in Wallet /\ StaysOrPays(serving, job.to, job.amount))'
    BY <1>2, <2>1, <2>2 DEF StaysOrPays
  <2> QED
    BY <1>2, <2>3, NoTransferStarts
<1> QED
  BY <1>5, <1>6, <1>7 DEF HandleRequest

(* A transfer goes on the chain as the job has it, and stays as it went.      *)
LEMMA ChainStaysOrPays ==
    ASSUME FundsInv, ChainStep
    PROVE  TransfersStayOrPay'
<1>1. tx \in [Conn -> Tx] /\ job \in Job /\ (job.phase = "transfer" => serving \in Conn)
  BY DEF FundsInv, VerdictInv, TypeInv, SignerTypeOK, HeldLinesAreUsed
<1>2. /\ UNCHANGED <<job.phase, job.to, job.amount, request, serving>>
      /\ asked' = asked /\ asked = request[serving]
  BY <1>1, ChainKeepsTheJob DEF jobButSigned, socketVars, asked
<1>3. ASSUME NEW c \in Conn, tx'[c].state # "none"
      PROVE  \/ /\ tx[c].state # "none"
                /\ tx'[c].from = tx[c].from /\ tx'[c].to = tx[c].to /\ tx'[c].amount = tx[c].amount
             \/ /\ c = serving /\ job.phase = "transfer"
                /\ tx'[c].from = asked.coldkey /\ tx'[c].to = job.to /\ tx'[c].amount = job.amount
  <2>1. CASE SubmitTransfer
    BY <1>1, <1>3, <2>1 DEF SubmitTransfer, Tx
  <2>2. CASE \E d \in Conn : TransferLands(d) \/ TransferDropped(d)
    <3>1. PICK d \in Conn, state \in TxState : tx[d].state = "submitted" /\ tx' = [tx EXCEPT ![d].state = state]
      BY <2>2 DEF TransferLands, TransferDropped, TxState
    <3> QED
      BY <1>1, <1>3, <3>1 DEF Tx
  <2>3. CASE UNCHANGED tx
    BY <1>3, <2>3
  <2> QED
    BY <2>1, <2>2, <2>3 DEF ChainStep, SubmitUnstake, UnstakeLands, UnstakeDropped
<1>4. \A c \in Conn : tx'[c].state # "none" =>
          tx'[c].from \in Wallet /\ StaysOrPays(c, tx[c].to, tx[c].amount)'
  BY <1>2, <1>3 DEF FundsInv, TransfersStayOrPay, StaysOrPays
<1>5. job'.phase = "transfer" =>
          (asked.coldkey \in Wallet /\ StaysOrPays(serving, job.to, job.amount))'
  BY <1>2 DEF FundsInv, TransfersStayOrPay, StaysOrPays
<1> QED
  BY <1>4, <1>5 DEF TransfersStayOrPay

(* Every step keeps the transfers in the team, or they are capped payments.   *)
LEMMA NextFunds ==
    ASSUME TheTeamsOwn
    PROVE  FundsInv /\ [SignerNext]_signerVars => FundsInv'
<1> SUFFICES ASSUME FundsInv, [SignerNext]_signerVars PROVE TransfersStayOrPay'
  BY NextVerdicts DEF FundsInv
<1>1. job \in Job
  BY DEF FundsInv, VerdictInv, TypeInv, SignerTypeOK
<1>2. \A res : Settle(res) => job'.phase # "transfer"
  BY <1>1 DEF Settle, Job
<1>3. CASE RunTransfer \/ RunUnstake
  <2>1. UNCHANGED <<tx, request>>
    BY <1>3 DEF RunTransfer, TransferPrinted, TransferUnlockRejected, TransferTimesOut, RecordSpend,
                RunUnstake, NextHotkey, BudgetSpent, UnstakePrinted, UnstakeUnlockRejected,
                UnstakeTimesOut, EndUnstake, socketVars, chainVars
  <2>2. job'.phase # "transfer"
    <3>1. \A outcome : EndTransfer(outcome) => job'.phase # "transfer"
      BY <1>1, <1>2 DEF EndTransfer, Job
    <3>2. \A outcome : FileHotkey(outcome) => job'.phase = job.phase
      BY <1>1 DEF FileHotkey, Job
    <3> QED
      BY <1>1, <1>2, <1>3, <3>1, <3>2 DEF RunTransfer, TransferPrinted, TransferUnlockRejected,
         TransferTimesOut, RecordSpend, RunUnstake, NextHotkey, BudgetSpent, UnstakePrinted,
         UnstakeUnlockRejected, UnstakeTimesOut, EndUnstake, Job
  <2> QED
    BY <2>1, <2>2, NoTransferStarts
<1>4. CASE TakeRequest \/ DropLine \/ SendReply
  <2>1. UNCHANGED <<tx, request>> /\ job'.phase # "transfer"
    BY <1>4 DEF TakeRequest, DropLine, SendReply, Accept, HangUp, Answer, Idle, chainVars
  <2> QED
    BY <2>1, NoTransferStarts
<1>5. CASE HostStep
  <2>1. UNCHANGED <<tx, request>>
    BY <1>5 DEF HostStep, Midnight, Crash, Restart, ServerVanishes, ServerListens, socketVars, chainVars
  <2>2. job'.phase = "transfer" => job' = job /\ serving' = serving /\ asked' = asked
    BY <1>5 DEF HostStep, Midnight, Crash, Restart, ServerVanishes, ServerListens, socketVars, Idle, asked
  <2> QED
    BY <2>1, <2>2, NoTransferStarts
<1>6. CASE ClientStep
  <2>1. PICK c \in Conn : (\E r \in Asked : Connect(c, r)) \/ ConnectFails(c) \/ GiveUp(c)
    BY <1>6 DEF ClientStep
  <2>2. job' = job /\ serving' = serving /\ UNCHANGED tx
    BY <1>6, <2>1 DEF ClientStep, Connect, ConnectFails, GiveUp, chainVars
  <2>3. \A d \in Conn : request'[d] # request[d] => line[d] = "unused"
    BY <2>1 DEF Connect, ConnectFails, GiveUp, FundsInv, VerdictInv, TypeInv, SignerTypeOK, SocketTypeOK
  <2>4. job.phase # "idle" => asked' = asked
    BY <2>2, <2>3 DEF asked, FundsInv, VerdictInv, TypeInv, HeldLinesAreUsed
  <2>5. \A d \in Conn : tx[d].state # "none" => request'[d] = request[d]
    BY <2>3 DEF FundsInv, VerdictInv, Verdicts, HeldIsSound, FreshHasNoTrace, NoTrace
  <2> QED
    BY <2>2, <2>4, <2>5, NoTransferStarts
<1>7. CASE UNCHANGED signerVars
  <2>1. UNCHANGED <<job, request, serving, tx>> /\ asked' = asked
    BY <1>7 DEF signerVars, socketVars, chainVars, asked
  <2> QED
    BY <2>1, NoTransferStarts
<1> QED
  BY <1>3, <1>4, <1>5, <1>6, <1>7, HandlingStaysOrPays, ChainStaysOrPays DEF SignerNext, SignerStep

(* What the team owns, free or staked, falls by the chain's fee when a        *)
(* transfer is settled, and by more only when a tournament payment lands,     *)
(* then by the per-request cap at most, whatever requests arrive.             *)
THEOREM FundsFallOnlyByPayment ==
    ASSUME TheTeamsOwn
    PROVE  SignerSpec => TeamFundsFallOnlyByPayment
<1> DEFINE Falls == TeamFunds' < TeamFunds =>
                        \E c \in Conn :
                            /\ tx[c].state = "submitted" /\ tx'[c].state # "submitted"
                            /\ \/ TeamFunds - TeamFunds' <= ChainFee
                               \/ /\ request[c].op = OpPay /\ tx'[c].state = "landed"
                                  /\ TeamFunds - TeamFunds' <= MaxTransfer + ChainFee
<1>1. SignerInit => FundsInv
  <2> SUFFICES ASSUME SignerInit PROVE TransfersStayOrPay
    BY InitVerdicts DEF FundsInv
  <2> QED
    BY DEF SignerInit, Idle, NoTx, TransfersStayOrPay
<1>2. FundsInv /\ [SignerNext]_signerVars => [Falls]_signerVars
  <2> SUFFICES ASSUME FundsInv, SignerNext, TeamFunds' < TeamFunds
               PROVE  \E c \in Conn :
                          /\ tx[c].state = "submitted" /\ tx'[c].state # "submitted"
                          /\ \/ TeamFunds - TeamFunds' <= ChainFee
                             \/ /\ request[c].op = OpPay /\ tx'[c].state = "landed"
                                /\ TeamFunds - TeamFunds' <= MaxTransfer + ChainFee
    OBVIOUS
  <2>1. TypeInv /\ tx \in [Conn -> Tx] /\ MaxTransfer \in Nat /\ ChainFee \in Nat
    BY SignerAssumption DEF FundsInv, VerdictInv, TypeInv, SignerTypeOK
  <2>2. PICK before \in Int : before = TeamFunds
    BY <2>1, FundsType
  <2>3. PICK after : after = TeamFunds'
    OBVIOUS
  <2>4. ~UNCHANGED <<free, stake>>
    <3>1. UNCHANGED <<free, stake>> => TeamFunds' = TeamFunds
      BY DEF TeamFunds
    <3> QED
      BY <2>2, <3>1
  <2>5. SignerNext => ChainStep \/ UNCHANGED <<free, stake>>
    BY DEF SignerNext, SignerStep, HandleRequest, RejectLine, HandleRead, HandleNoWallet, HandlePay,
       HandleSweep, HandleDistribute, HandleUnstake, RunTransfer, TransferPrinted,
       TransferUnlockRejected, TransferTimesOut, RecordSpend, RunUnstake, NextHotkey, BudgetSpent,
       UnstakePrinted, UnstakeUnlockRejected, UnstakeTimesOut, EndUnstake, TakeRequest, DropLine,
       SendReply, HostStep, Midnight, Crash, Restart, ClientStep, chainVars
  <2>6. ChainStep => \/ UNCHANGED <<free, stake>>
                     \/ \E c \in Conn : TransferLands(c) \/ TransferDropped(c)
                     \/ \E c \in Conn, h \in Hotkey : UnstakeLands(c, h)
    BY DEF ChainStep, SubmitTransfer, SubmitUnstake, UnstakeDropped
  <2>7. ~\E c \in Conn, h \in Hotkey : UnstakeLands(c, h)
    BY <2>1, <2>2, UnstakingKeepsFunds
  <2>8. PICK c \in Conn : TransferLands(c) \/ TransferDropped(c)
    BY <2>4, <2>5, <2>6, <2>7
  <2>9. /\ tx[c].state = "submitted" /\ tx'[c].state # "submitted"
        /\ TransferLands(c) => tx'[c].state = "landed"
    BY <2>1, <2>8 DEF TransferLands, TransferDropped, Tx
  <2>10. tx[c].from \in Wallet /\ StaysOrPays(c, tx[c].to, tx[c].amount) /\ tx[c].amount \in Nat
    BY <2>1, <2>9 DEF FundsInv, TransfersStayOrPay, Tx
  <2>11. PICK n \in Int : /\ TeamFunds' = TeamFunds + n
                          /\ \/ n \in {0, 0 - ChainFee}
                             \/ /\ TransferLands(c) /\ tx[c].to \notin Wallet
                                /\ n = 0 - (tx[c].amount + ChainFee)
    BY <2>1, <2>8, <2>10, LandingMovesFunds, DroppingCostsTheFee
  <2>12. after = before + n
    BY <2>2, <2>3, <2>11
  <2>13. CASE n \in {0, 0 - ChainFee}
    <3>1. before - after <= ChainFee
      BY <2>1, <2>12, <2>13
    <3> QED
      BY <2>2, <2>3, <2>9, <3>1
  <2>14. CASE TransferLands(c) /\ tx[c].to \notin Wallet /\ n = 0 - (tx[c].amount + ChainFee)
    <3>1. request[c].op = OpPay /\ tx[c].amount <= MaxTransfer
      BY <2>10, <2>14 DEF StaysOrPays
    <3>2. before - after <= MaxTransfer + ChainFee
      BY <2>1, <2>10, <2>12, <2>14, <3>1
    <3> QED
      BY <2>2, <2>3, <2>9, <2>14, <3>1, <3>2
  <2> QED
    BY <2>11, <2>13, <2>14
<1> QED
  BY <1>1, <1>2, NextFunds, PTL DEF SignerSpec, TeamFundsFallOnlyByPayment
=============================================================================
