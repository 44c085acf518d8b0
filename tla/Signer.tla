------------------------------- MODULE Signer -------------------------------
(***************************************************************************)
(* The signing daemon (signer/server.py): one thread takes one request at  *)
(* a time from the socket, decides what it may move, drives btcli on a      *)
(* pseudo-terminal, reads what btcli printed, books the spend and answers.  *)
(*                                                                         *)
(* btcli and the chain are outside the repository.  They are modelled from  *)
(* what the code relies on: a submitted extrinsic lands or is dropped at    *)
(* any later time, also after btcli was given up on; btcli prints a success *)
(* marker only for an extrinsic that landed, and a bare refusal only when   *)
(* nothing was submitted or the chain dropped it.  A transfer costs its     *)
(* wallet a fee besides the amount, also when the chain refuses it; what an *)
(* unstake costs in fee and price is left out.                              *)
(***************************************************************************)
EXTENDS Socket, BtcliOutput

CONSTANTS
    Destination,    \* the tournament's address, the only one a payment may reach
    Fee,            \* the signer's own fee table, in rao
    MaxTransfer,    \* the per-request cap
    DailyCap,       \* the per-day cap
    Parent,         \* the treasury wallet, NoAddress when none is configured
    Roster,         \* the coldkeys the configuration names
    Reserve,        \* what a sweep leaves behind (sweep_leave_tao)
    Hotkey,         \* hotkeys that may hold stake on the subnet
    Owner,          \* the coldkey each hotkey stakes for
    Registered,     \* the hotkeys the roster names
    InitialFree,    \* each wallet's free balance at the start
    InitialStake,   \* what each hotkey holds on the subnet at the start
    ChainFee,       \* what the chain takes for a transfer, besides its amount
    MaxDay,         \* bound: the last UTC day
    MaxCrash        \* bound: how often the signer may die

NoHotkey == "no hotkey"

ASSUME SignerAssumption ==
    /\ Fee \in [TournamentTypes -> Nat]
    /\ MaxTransfer \in Nat /\ DailyCap \in Nat /\ Reserve \in Nat
    /\ MaxDay \in Nat /\ MaxCrash \in Nat
    /\ Destination \in Outsider
    /\ Parent \in Address \cup {NoAddress}
    /\ Roster \subseteq Address
    /\ IsFiniteSet(Hotkey) /\ NoHotkey \notin Hotkey
    /\ Owner \in [Hotkey -> Wallet]
    /\ Registered \subseteq Hotkey
    /\ InitialFree \in [Wallet -> Nat]
    /\ InitialStake \in [Hotkey -> Nat]
    /\ ChainFee \in Nat

NoDay   == -1
NoSpend  == [day |-> NoDay, rao |-> 0]

VARIABLES
    job,        \* where _handle stands with the request it serves
    spent,      \* Signer._spent, the running total of the day it names
    file,       \* what _load_spend would read from state_path
    today,      \* the UTC day of the signer's clock
    crashes,    \* how often it died
    unsaved,    \* whether a write of the total ever failed or was cut short
    bookedOn,   \* the day each connection's payment was booked on, or NoDay
    tx,         \* each connection's transfer, as the chain sees it
    moved,      \* how much each connection's request has moved so far
    free,       \* free balances
    utx,        \* each connection's unstake of each hotkey, as the chain sees it
    stake       \* what each hotkey holds on the subnet

bookVars  == <<spent, file, unsaved, bookedOn>>
chainVars == <<tx, moved, free, utx, stake>>
hostVars  == <<today, crashes>>
signerVars == <<socketVars, job, bookVars, chainVars, hostVars>>

Phase   == {"idle", "handle", "transfer", "book", "unstake", "reply"}
TxState == {"none", "submitted", "landed", "dropped"}

(* `signed` says that this run of btcli has handed its extrinsic over. *)
Idle == [phase |-> "idle", to |-> NoAddress, amount |-> 0, hotkey |-> NoHotkey, signed |-> FALSE,
         left |-> {}, done |-> {}, failed |-> {}, unknown |-> {}, answer |-> NoResult]

Job == [phase : Phase, to : Address \cup {NoAddress}, amount : Nat,
        hotkey : Hotkey \cup {NoHotkey}, signed : BOOLEAN,
        left : SUBSET Hotkey, done : SUBSET Hotkey,
        failed : SUBSET Hotkey, unknown : SUBSET Hotkey, answer : SignResult]

DaySpend == [day : Nat \cup {NoDay}, rao : Nat]

NoTx == [state |-> "none", from |-> NoAddress, to |-> NoAddress, amount |-> 0]
Tx   == [state : TxState, from : Address \cup {NoAddress},
         to : Address \cup {NoAddress}, amount : Nat]

SignerTypeOK ==
    /\ SocketTypeOK
    /\ job      \in Job
    /\ spent    \in DaySpend
    /\ file     \in DaySpend
    /\ today    \in Nat
    /\ crashes  \in Nat
    /\ unsaved  \in BOOLEAN
    /\ bookedOn \in [Conn -> Nat \cup {NoDay}]
    /\ tx       \in [Conn -> Tx]
    /\ moved    \in [Conn -> Nat]
    /\ free     \in [Wallet -> Nat]
    /\ utx      \in [Conn -> [Hotkey -> TxState]]
    /\ stake    \in [Hotkey -> Nat]

SignerInit ==
    /\ SocketInit
    /\ job      = Idle
    /\ spent    = NoSpend
    /\ file     = NoSpend
    /\ today    = 0
    /\ crashes  = 0
    /\ unsaved  = FALSE
    /\ bookedOn = [c \in Conn |-> NoDay]
    /\ tx       = [c \in Conn |-> NoTx]
    /\ moved    = [c \in Conn |-> 0]
    /\ free     = InitialFree
    /\ utx      = [c \in Conn |-> [h \in Hotkey |-> "none"]]
    /\ stake    = InitialStake

-----------------------------------------------------------------------------
(* Serving one request. *)

asked == request[serving]

Handling(ops) == job.phase = "handle" /\ asked.op \in ops

(* The job is decided: what remains is to write the answer. *)
Settle(res) == job' = [job EXCEPT !.phase = "reply", !.answer = res]

TakeRequest ==
    /\ Accept
    /\ job' = [Idle EXCEPT !.phase = "handle"]
    /\ UNCHANGED <<bookVars, chainVars, hostVars>>

SendReply ==
    /\ job.phase = "reply"
    /\ Answer(job.answer)
    /\ job' = Idle
    /\ UNCHANGED <<bookVars, chainVars, hostVars>>

(* serve() gives up reading the line, too long or too slow in coming. *)
DropLine ==
    /\ job.phase = "handle"
    /\ HangUp
    /\ job' = Idle
    /\ UNCHANGED <<bookVars, chainVars, hostVars>>

RejectLine ==
    /\ job.phase = "handle"
    /\ ~WellFormed(asked)
    /\ Settle(Failed("protocol"))
    /\ UNCHANGED <<socketVars, bookVars, chainVars, hostVars>>

(* A balance or stake read: answered before any wallet is resolved, and the *)
(* figures it carries are nobody's state here.                              *)
HandleRead ==
    /\ Handling(ReadOps)
    /\ WellFormed(asked)
    /\ \E res \in {Ok(0), Failed("btcli")} : Settle(res)
    /\ UNCHANGED <<socketVars, bookVars, chainVars, hostVars>>

(* `btcli wallet list` fails, or knows no wallet for the coldkey. *)
HandleNoWallet ==
    /\ Handling(SigningOps)
    /\ WellFormed(asked)
    /\ \/ Settle(Failed("btcli"))
       \/ asked.coldkey \notin Wallet /\ Settle(Failed("refused"))
    /\ UNCHANGED <<socketVars, bookVars, chainVars, hostVars>>

(* Mutant: the cap is checked against the request alone. *)
WithinDailyCapAlone(amount) == amount <= DailyCap

WithinDailyCap(amount) ==
    IF spent.day # today THEN amount <= DailyCap ELSE spent.rao + amount <= DailyCap

StartTransfer(to, amount) ==
    job' = [job EXCEPT !.phase = "transfer", !.to = to, !.amount = amount]

HandlePay ==
    /\ Handling({OpPay})
    /\ WellFormed(asked)
    /\ asked.coldkey \in Wallet
    /\ LET amount == AmountOf(Fee, asked.types)
       IN  IF amount <= MaxTransfer /\ WithinDailyCap(amount)
           THEN StartTransfer(Destination, amount)
           ELSE Settle([Failed("refused") EXCEPT !.amount = amount])
    /\ UNCHANGED <<socketVars, bookVars, chainVars, hostVars>>

SweepAllowed ==
    /\ Parent # NoAddress
    /\ asked.coldkey # Parent
    /\ asked.coldkey \in Roster

WorthSweeping(amount) == amount > 0

(* Mutant: only the fee of this very transfer is held back. *)
SweepableToTheFee(wallet) == free[wallet] - ChainFee

Sweepable(wallet) == free[wallet] - Reserve

(* The balance is read now and the transfer runs later; the read may also   *)
(* fail (a BtcliError, or a figure that is not one).                        *)
HandleSweep ==
    /\ Handling({OpSweep})
    /\ WellFormed(asked)
    /\ asked.coldkey \in Wallet
    /\ IF ~SweepAllowed
       THEN Settle(Failed("refused"))
       ELSE \/ \E why \in {"refused", "btcli"} : Settle(Failed(why))
            \/ LET amount == Sweepable(asked.coldkey)
               IN  IF WorthSweeping(amount)
                   THEN StartTransfer(Parent, amount)
                   ELSE Settle(Failed("refused"))
    /\ UNCHANGED <<socketVars, bookVars, chainVars, hostVars>>

(* Mutant: the destination is not looked up in the roster. *)
DistributeAllowedAnywhere ==
    Parent # NoAddress /\ asked.coldkey = Parent /\ asked.destination # Parent

DistributeAllowed ==
    /\ Parent # NoAddress
    /\ asked.coldkey = Parent
    /\ asked.destination # Parent
    /\ asked.destination \in Roster

HandleDistribute ==
    /\ Handling({OpDistribute})
    /\ WellFormed(asked)
    /\ asked.coldkey \in Wallet
    /\ IF DistributeAllowed
       THEN StartTransfer(asked.destination, asked.amount)
       ELSE Settle(Failed("refused"))
    /\ UNCHANGED <<socketVars, bookVars, chainVars, hostVars>>

(* A coldkey's own hotkeys with stake, cut to the roster when the roster    *)
(* names any for it; each hotkey once.                                      *)
HotkeysWithStake(coldkey) ==
    LET own    == {h \in Hotkey : Owner[h] = coldkey}
        roster == own \cap Registered
        listed == IF coldkey \in Roster /\ roster # {} THEN roster ELSE own
    IN  {h \in listed : stake[h] > 0}

HandleUnstake ==
    /\ Handling({OpUnstake})
    /\ WellFormed(asked)
    /\ asked.coldkey \in Wallet
    /\ LET hotkeys == HotkeysWithStake(asked.coldkey)
       IN  \/ Settle(Failed("btcli"))
           \/ /\ hotkeys # {}
              /\ job' = [job EXCEPT !.phase = "unstake", !.left = hotkeys]
    /\ UNCHANGED <<socketVars, bookVars, chainVars, hostVars>>

-----------------------------------------------------------------------------
(* The transfer: run_btcli_pty under TRANSFER_TIMEOUT, then the parse. *)

(* btcli got its answers and handed the extrinsic to the chain, as a run of  *)
(* it does once.                                                             *)
SubmitTransfer ==
    /\ job.phase = "transfer"
    /\ ~job.signed
    /\ free[asked.coldkey] >= job.amount
    /\ job' = [job EXCEPT !.signed = TRUE]
    /\ tx' = [tx EXCEPT ![serving] = [state |-> "submitted", from |-> asked.coldkey,
                                      to |-> job.to, amount |-> job.amount]]
    /\ UNCHANGED <<socketVars, bookVars, moved, free, utx, stake, hostVars>>

(* What btcli may have printed when it ends, by what became of the transfer. *)
TransferScreen(state) ==
    CASE state = "landed"    -> {{"ok"}, {"ok", "fail"}, {}}
      [] state = "submitted" -> {{}}
      [] OTHER               -> {{"fail"}, {}}

EndTransfer(outcome) ==
    CASE outcome = "success" -> IF asked.op = OpPay
                                THEN job' = [job EXCEPT !.phase = "book"]
                                ELSE Settle(Ok(job.amount))
      [] outcome = "failure" -> Settle(Failed("btcli"))
      [] OTHER               -> Settle(Unknown)

TransferPrinted ==
    /\ job.phase = "transfer"
    /\ \E out \in TransferScreen(tx[serving].state) : EndTransfer(ParseTransfer(out))
    /\ UNCHANGED <<socketVars, bookVars, chainVars, hostVars>>

(* btcli asks for the password a second time. *)
TransferUnlockRejected ==
    /\ job.phase = "transfer"
    /\ ~job.signed
    /\ Settle(Failed("btcli"))
    /\ UNCHANGED <<socketVars, bookVars, chainVars, hostVars>>

(* What the driver makes of its deadline: the name it calls is not defined  *)
(* anywhere, so handle() sees a NameError and answers a plain failure.      *)
TimeoutAnswer == Failed("crash")

(* Mutant: the deadline is looked at only while btcli asks its questions. *)
TransferTimesOutAtPrompts ==
    /\ job.phase = "transfer"
    /\ ~job.signed
    /\ Settle(TimeoutAnswer)
    /\ UNCHANGED <<socketVars, bookVars, chainVars, hostVars>>

TransferTimesOut ==
    /\ job.phase = "transfer"
    /\ Settle(TimeoutAnswer)
    /\ UNCHANGED <<socketVars, bookVars, chainVars, hostVars>>

(* _record_spend and _save_spend: a write that fails is only logged, before  *)
(* or after it has emptied the file.                                         *)
Booked(amount) ==
    IF spent.day # today THEN [day |-> today, rao |-> amount]
    ELSE [spent EXCEPT !.rao = @ + amount]

RecordSpend ==
    /\ job.phase = "book"
    /\ spent' = Booked(job.amount)
    /\ \/ file' = spent' /\ UNCHANGED unsaved
       \/ file' \in {file, NoSpend} /\ unsaved' = TRUE
    /\ bookedOn' = [bookedOn EXCEPT ![serving] = today]
    /\ Settle(Ok(job.amount))
    /\ UNCHANGED <<socketVars, chainVars, hostVars>>

-----------------------------------------------------------------------------
(* The unstake loop: one btcli run per hotkey under one budget. *)

NextHotkey(h) ==
    /\ job.phase = "unstake"
    /\ job.hotkey = NoHotkey
    /\ h \in job.left
    /\ job' = [job EXCEPT !.hotkey = h, !.left = @ \ {h}, !.signed = FALSE]
    /\ UNCHANGED <<socketVars, bookVars, chainVars, hostVars>>

(* Past the deadline every hotkey still to do is failed untried. *)
BudgetSpent ==
    /\ job.phase = "unstake"
    /\ job.hotkey = NoHotkey
    /\ job.left # {}
    /\ job' = [job EXCEPT !.failed = @ \cup job.left, !.left = {}]
    /\ UNCHANGED <<socketVars, bookVars, chainVars, hostVars>>

SubmitUnstake ==
    /\ job.phase = "unstake"
    /\ job.hotkey # NoHotkey
    /\ stake[job.hotkey] > 0
    /\ ~job.signed
    /\ job' = [job EXCEPT !.signed = TRUE]
    /\ utx' = [utx EXCEPT ![serving][job.hotkey] = "submitted"]
    /\ UNCHANGED <<socketVars, bookVars, tx, moved, free, stake, hostVars>>

UnstakeScreen(state) ==
    CASE state = "landed"    -> {{"ok"}, {"ok", "benign"}, {"ok", "fail"}, {"ok", "benign", "words"}, {}}
      [] state = "submitted" -> {{"fail", "shield"}, {}}
      [] state = "dropped"   -> {{"fail"}, {"words"}, {"benign", "words"}, {}}
      [] OTHER               -> {{"fail"}, {"benign", "words"}, {"benign", "nothing"}, {}}

FileHotkey(outcome) ==
    job' = CASE outcome = "success" -> [job EXCEPT !.hotkey = NoHotkey, !.done = @ \cup {job.hotkey}]
             [] outcome = "failure" -> [job EXCEPT !.hotkey = NoHotkey, !.failed = @ \cup {job.hotkey}]
             [] OTHER -> [job EXCEPT !.hotkey = NoHotkey, !.unknown = @ \cup {job.hotkey}]

UnstakePrinted ==
    /\ job.phase = "unstake"
    /\ job.hotkey # NoHotkey
    /\ \E out \in UnstakeScreen(utx[serving][job.hotkey]) : FileHotkey(ParseUnstake(out))
    /\ UNCHANGED <<socketVars, bookVars, chainVars, hostVars>>

(* Mutant: any hotkey that went through makes the whole run a success. *)
UnstakeSummaryAnyDone(done, failed, unknown) ==
    [ok      |-> done # {},
     unknown |-> unknown # {} /\ done = {},
     amount  |-> 0,
     error   |-> IF done # {} THEN "none" ELSE "partial"]

UnstakeSummary(done, failed, unknown) ==
    [ok      |-> done # {},
     unknown |-> unknown # {} /\ done = {},
     amount  |-> 0,
     error   |-> IF done # {} /\ failed = {} /\ unknown = {} THEN "none" ELSE "partial"]

(* The password is asked for again: this hotkey fails and the loop stops. *)
UnstakeUnlockRejected ==
    /\ job.phase = "unstake"
    /\ job.hotkey # NoHotkey
    /\ ~job.signed
    /\ Settle(UnstakeSummary(job.done, job.failed \cup {job.hotkey}, job.unknown))
    /\ UNCHANGED <<socketVars, bookVars, chainVars, hostVars>>

(* The NameError is neither of the exceptions the loop catches: it leaves   *)
(* the loop and what was done is not reported.                              *)
UnstakeTimesOut ==
    /\ job.phase = "unstake"
    /\ job.hotkey # NoHotkey
    /\ Settle(TimeoutAnswer)
    /\ UNCHANGED <<socketVars, bookVars, chainVars, hostVars>>

EndUnstake ==
    /\ job.phase = "unstake"
    /\ job.hotkey = NoHotkey
    /\ job.left = {}
    /\ Settle(UnstakeSummary(job.done, job.failed, job.unknown))
    /\ UNCHANGED <<socketVars, bookVars, chainVars, hostVars>>

-----------------------------------------------------------------------------
(* The chain, at any time. *)

Credit(balances, to, amount) ==
    IF to \in Wallet THEN [balances EXCEPT ![to] = @ + amount] ELSE balances

TransferLands(c) ==
    /\ tx[c].state = "submitted"
    /\ free[tx[c].from] >= tx[c].amount + ChainFee
    /\ tx'    = [tx EXCEPT ![c].state = "landed"]
    /\ moved' = [moved EXCEPT ![c] = @ + tx[c].amount]
    /\ free'  = Credit([free EXCEPT ![tx[c].from] = @ - (tx[c].amount + ChainFee)],
                       tx[c].to, tx[c].amount)
    /\ UNCHANGED <<socketVars, job, bookVars, utx, stake, hostVars>>

(* The transfer never gets into a block, or is refused in one and pays.      *)
TransferDropped(c) ==
    /\ tx[c].state = "submitted"
    /\ tx' = [tx EXCEPT ![c].state = "dropped"]
    /\ \E cost \in {0, ChainFee} :
          /\ free[tx[c].from] >= cost
          /\ free' = [free EXCEPT ![tx[c].from] = @ - cost]
    /\ UNCHANGED <<socketVars, job, bookVars, moved, utx, stake, hostVars>>

(* As much of a hotkey's stake as fits the tolerance (--allow-partial-stake) *)
(* becomes free balance of its coldkey, some of it at least.                 *)
UnstakeLands(c, h) ==
    /\ utx[c][h] = "submitted"
    /\ utx' = [utx EXCEPT ![c][h] = "landed"]
    /\ \E part \in 1..stake[h] :
          /\ stake' = [stake EXCEPT ![h] = @ - part]
          /\ free'  = [free EXCEPT ![Owner[h]] = @ + part]
    /\ UNCHANGED <<socketVars, job, bookVars, tx, moved, hostVars>>

UnstakeDropped(c, h) ==
    /\ utx[c][h] = "submitted"
    /\ utx' = [utx EXCEPT ![c][h] = "dropped"]
    /\ UNCHANGED <<socketVars, job, bookVars, tx, moved, free, stake, hostVars>>

-----------------------------------------------------------------------------
(* The host: midnight, a crash at any step, and systemd's restart. *)

Midnight ==
    /\ today < MaxDay
    /\ today' = today + 1
    /\ UNCHANGED <<socketVars, job, bookVars, chainVars, crashes>>

(* A crash in the middle of the write leaves a file that does not parse. *)
Crash ==
    /\ crashes < MaxCrash
    /\ crashes' = crashes + 1
    /\ ServerVanishes
    /\ job' = Idle
    /\ \/ UNCHANGED <<file, unsaved>>
       \/ job.phase = "book" /\ file' = NoSpend /\ unsaved' = TRUE
    /\ UNCHANGED <<spent, bookedOn, chainVars, today>>

(* Mutant: a restart starts the day's total afresh. *)
RestartAfresh ==
    /\ ServerListens
    /\ spent' = NoSpend
    /\ UNCHANGED <<job, file, unsaved, bookedOn, chainVars, today, crashes>>

(* Signer.__init__: the total comes back from the file. *)
Restart ==
    /\ ServerListens
    /\ spent' = file
    /\ UNCHANGED <<job, file, unsaved, bookedOn, chainVars, today, crashes>>

-----------------------------------------------------------------------------
HandleRequest ==
    \/ RejectLine \/ HandleRead \/ HandleNoWallet \/ HandlePay
    \/ HandleSweep \/ HandleDistribute \/ HandleUnstake

RunTransfer ==
    TransferPrinted \/ TransferUnlockRejected \/ TransferTimesOut \/ RecordSpend

RunUnstake ==
    \/ \E h \in Hotkey : NextHotkey(h)
    \/ BudgetSpent \/ UnstakePrinted \/ UnstakeUnlockRejected
    \/ UnstakeTimesOut \/ EndUnstake

(* The daemon's own thread. *)
SignerStep ==
    TakeRequest \/ DropLine \/ HandleRequest \/ RunTransfer \/ RunUnstake \/ SendReply

ChainStep ==
    \/ SubmitTransfer \/ SubmitUnstake
    \/ \E c \in Conn : TransferLands(c) \/ TransferDropped(c)
    \/ \E c \in Conn, h \in Hotkey : UnstakeLands(c, h) \/ UnstakeDropped(c, h)

HostStep == Midnight \/ Crash \/ Restart

(* Any client: whatever connects may ask for anything the protocol can say. *)
CONSTANT Asked
ASSUME AskedAssumption == Asked \subseteq SignRequest

ClientStep ==
    /\ \E c \in Conn :
          \/ \E r \in Asked : Connect(c, r)
          \/ ConnectFails(c)
          \/ GiveUp(c)
    /\ UNCHANGED <<job, bookVars, chainVars, hostVars>>

SignerNext == SignerStep \/ ChainStep \/ HostStep \/ ClientStep

SignerSpec == SignerInit /\ [][SignerNext]_signerVars
=============================================================================
