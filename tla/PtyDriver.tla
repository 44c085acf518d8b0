------------------------------ MODULE PtyDriver ------------------------------
(***************************************************************************)
(* run_btcli_pty (signer/btcli.py): one signing run of btcli on a pseudo-   *)
(* terminal, its prompts answered as they appear.                           *)
(*                                                                         *)
(* Driver, terminal, btcli and chain.  The screen is the sequence of writes *)
(* the driver has not read yet; a write is the set of markers it contains   *)
(* (an empty one is a spinner or plain prose).  btcli is outside the         *)
(* repository and modelled from what the driver, its tests and the captured  *)
(* transcripts rely on: it asks in the order of the tables, a password again *)
(* only after refusing one, each question once per line it reads; it may     *)
(* stop at any point, hang, or leave the terminal open behind it.            *)
(***************************************************************************)
EXTENDS BtcliOutput, Sequences, FiniteSets

CONSTANT MaxAsk     \* bound: how many questions btcli asks in one run

ASSUME PtyAssumption == MaxAsk \in Nat

Yes      == "y"
Secret   == "the unlock value"
Password == "password"

Prompt == {"transfer?", "hotkey?", "continue?", Password}

Entry(marker, answer, repeat) == [marker |-> marker, answer |-> answer, repeat |-> repeat]

TransferPrompts == <<Entry("transfer?", Yes, FALSE), Entry(Password, Secret, FALSE)>>
UnstakePrompts  == <<Entry("hotkey?", Yes, TRUE), Entry("continue?", Yes, FALSE),
                     Entry(Password, Secret, FALSE)>>

NoAnswer == Entry("none", "none", FALSE)

VARIABLES
    prompts,    \* the table this run was given
    pc,         \* where the driver's loop stands
    ready,      \* whether this round's select found something to read
    seen,       \* how often each prompt occurs in what the driver has read
    marks,      \* the outcome markers in what it has read
    answered,   \* the driver's count of answers per prompt
    unlocked,   \* the driver's answered_password
    end,        \* how the loop ended
    late,       \* the deadline has passed
    screen,     \* what btcli wrote and the driver has not read
    typed,      \* lines the driver wrote and btcli has not read
    btcli,      \* "busy", "asking" or "gone"
    at,         \* the table entry btcli asks, or asked last; 0 before the first
    asks,       \* how many questions it has asked
    accepted,   \* it took the unlock value
    refused,    \* it printed a refusal
    confirmed,  \* it printed a success
    held,       \* someone else still holds the terminal open after its exit
    heard,      \* every line it read, with the prompt it read it for
    tx          \* its extrinsic, as the chain sees it

driverVars == <<prompts, pc, ready, seen, marks, answered, unlocked, end>>
btcliVars  == <<btcli, at, asks, accepted, refused, confirmed, held, heard>>
ptyVars    == <<driverVars, late, screen, typed, btcliVars, tx>>

PtyInit ==
    /\ prompts \in {TransferPrompts, UnstakePrompts}
    /\ pc       = "poll"
    /\ ready    = FALSE
    /\ seen     = [m \in Prompt |-> 0]
    /\ marks    = {}
    /\ answered = [m \in Prompt |-> 0]
    /\ unlocked = 0
    /\ end      = "none"
    /\ late     = FALSE
    /\ screen = <<>> /\ typed = <<>>
    /\ btcli = "busy" /\ at = 0 /\ asks = 0
    /\ accepted = FALSE /\ refused = FALSE /\ confirmed = FALSE /\ held = FALSE
    /\ heard    = <<>>
    /\ tx       = "none"

-----------------------------------------------------------------------------
(* The driver's loop. *)

Finish(how) == end' = how /\ pc' = "close"

(* Mutant: the deadline is looked at only when btcli is silent. *)
PastDeadlineIfSilent == late /\ screen = <<>>

PastDeadline == late

(* The name the deadline calls is defined nowhere: a NameError. *)
GiveUpOnBtcli ==
    /\ pc = "poll"
    /\ PastDeadline
    /\ Finish("crash")
    /\ UNCHANGED <<prompts, ready, seen, marks, answered, unlocked, late, screen, typed, btcliVars, tx>>

(* A cross is three bytes: a read that ends inside it decodes neither half. *)
Crosses == {"fail", "benign"}

Decodings(chunk) ==
    {chunk} \cup {[chunk EXCEPT ![i] = @ \ Crosses] : i \in DOMAIN chunk}

Count(chunk, m) == Cardinality({i \in DOMAIN chunk : m \in chunk[i]})

ReadChunk ==
    /\ pc = "poll" /\ ~PastDeadline
    /\ \E n \in 1..Len(screen) :
          /\ \E text \in Decodings(SubSeq(screen, 1, n)) :
                /\ seen'  = [m \in Prompt |-> seen[m] + Count(text, m)]
                /\ marks' = marks \cup {m \in Marker : Count(text, m) > 0}
          /\ screen' = SubSeq(screen, n + 1, Len(screen))
    /\ ready' = TRUE
    /\ pc' = "answer"
    /\ UNCHANGED <<prompts, answered, unlocked, end, late, typed, btcliVars, tx>>

HungUp == btcli = "gone" /\ ~held

(* Nothing left and the terminal closed: OSError, or an empty read. *)
ReadEnd ==
    /\ pc = "poll" /\ ~PastDeadline
    /\ screen = <<>> /\ HungUp
    /\ Finish("text")
    /\ UNCHANGED <<prompts, ready, seen, marks, answered, unlocked, late, screen, typed, btcliVars, tx>>

(* select waits a second and returns nothing. *)
SelectSilent ==
    /\ pc = "poll" /\ ~PastDeadline
    /\ screen = <<>> /\ ~HungUp
    /\ ready' = FALSE
    /\ pc' = "answer"
    /\ UNCHANGED <<prompts, seen, marks, answered, unlocked, end, late, screen, typed, btcliVars, tx>>

(* Mutants: the count of copies is not kept; every prompt is one-shot; every *)
(* prompt repeats.                                                           *)
FreshUncounted(e) == seen[e.marker] > 0 /\ (e.repeat \/ answered[e.marker] = 0)
FreshOnce(e) == seen[e.marker] > answered[e.marker] /\ answered[e.marker] = 0
FreshAlways(e) == seen[e.marker] > answered[e.marker]

Fresh(e) == seen[e.marker] > answered[e.marker] /\ (e.repeat \/ answered[e.marker] = 0)

(* The first entry of the table that has been asked and not answered. *)
NextAnswer ==
    LET fresh == {i \in DOMAIN prompts : Fresh(prompts[i])}
    IN  IF fresh = {} THEN NoAnswer
        ELSE prompts[CHOOSE i \in fresh : \A j \in fresh : i <= j]

(* Mutant: the prompt that was answered already counts as a second one. *)
AskedAgainAtOnce == unlocked > 0 /\ seen[Password] >= unlocked

AskedAgain == unlocked > 0 /\ seen[Password] > unlocked

NextRound == pc' = IF ready THEN "poll" ELSE "reap"

WriteAnswer ==
    /\ pc = "answer"
    /\ NextAnswer # NoAnswer
    /\ answered' = [answered EXCEPT ![NextAnswer.marker] = seen[NextAnswer.marker]]
    /\ unlocked' = IF NextAnswer.answer = Secret THEN seen[Password] ELSE unlocked
    /\ typed' = Append(typed, NextAnswer.answer)
    /\ NextRound
    /\ UNCHANGED <<prompts, ready, seen, marks, end, late, screen, btcliVars, tx>>

RejectUnlock ==
    /\ pc = "answer"
    /\ NextAnswer = NoAnswer /\ AskedAgain
    /\ Finish("rejected")
    /\ UNCHANGED <<prompts, ready, seen, marks, answered, unlocked, late, screen, typed, btcliVars, tx>>

NothingToAnswer ==
    /\ pc = "answer"
    /\ NextAnswer = NoAnswer /\ ~AskedAgain
    /\ NextRound
    /\ UNCHANGED <<prompts, ready, seen, marks, answered, unlocked, end, late, screen, typed, btcliVars, tx>>

(* waitpid without waiting, after a silent select: what btcli wrote between  *)
(* the two is not read any more.                                             *)
Reap ==
    /\ pc = "reap"
    /\ IF btcli = "gone" THEN Finish("text") ELSE pc' = "poll" /\ UNCHANGED end
    /\ UNCHANGED <<prompts, ready, seen, marks, answered, unlocked, late, screen, typed, btcliVars, tx>>

(* os.close, then waitpid with no limit. *)
HangUp ==
    /\ pc = "close"
    /\ pc' = "wait"
    /\ UNCHANGED <<prompts, ready, seen, marks, answered, unlocked, end, late, screen, typed, btcliVars, tx>>

Return ==
    /\ pc = "wait"
    /\ btcli = "gone"
    /\ pc' = "done"
    /\ UNCHANGED <<prompts, ready, seen, marks, answered, unlocked, end, late, screen, typed, btcliVars, tx>>

DeadlinePasses ==
    /\ ~late
    /\ late' = TRUE
    /\ UNCHANGED <<driverVars, screen, typed, btcliVars, tx>>

-----------------------------------------------------------------------------
(* btcli, and the chain behind it. *)

Busy == btcli = "busy"

(* getpass drops what was typed ahead of its prompt; the other prompts do not. *)
Ask(i) ==
    /\ Busy /\ ~accepted /\ asks < MaxAsk
    /\ \/ i > at
       \/ i = at /\ (prompts[i].repeat \/ prompts[i].marker = Password)
    /\ btcli' = "asking"
    /\ at' = i
    /\ asks' = asks + 1
    /\ screen' = Append(screen, {prompts[i].marker})
    /\ typed' = IF prompts[i].marker = Password THEN <<>> ELSE typed
    /\ UNCHANGED <<driverVars, late, accepted, refused, confirmed, held, heard, tx>>

ReadLine ==
    /\ btcli = "asking"
    /\ typed # <<>>
    /\ heard' = Append(heard, [prompt |-> prompts[at].marker, line |-> Head(typed)])
    /\ typed' = Tail(typed)
    /\ btcli' = "busy"
    /\ \/ UNCHANGED accepted
       \/ prompts[at].marker = Password /\ Head(typed) = Secret /\ accepted' = TRUE
    /\ UNCHANGED <<driverVars, late, screen, at, asks, refused, confirmed, held, tx>>

Submit ==
    /\ Busy /\ accepted /\ tx = "none" /\ ~refused
    /\ tx' = "submitted"
    /\ UNCHANGED <<driverVars, late, screen, typed, btcliVars>>

ChainSettles ==
    /\ tx = "submitted"
    /\ tx' \in {"landed", "dropped"}
    /\ UNCHANGED <<driverVars, late, screen, typed, btcliVars>>

(* What it may print: a success only of what landed, a bare refusal only of  *)
(* what never will; once landed, a cross only after the success.             *)
Says(text) ==
    \/ text = {}
    \/ text = {"ok"} /\ tx = "landed"
    \/ text = {"fail"} /\ (tx \in {"none", "dropped"} \/ confirmed)
    \/ /\ prompts = UnstakePrompts
       /\ \/ text = {"fail", "shield"} /\ tx = "submitted"
          \/ text = {"benign"} /\ tx = "none" /\ ~refused
          \/ text = {"words"} /\ tx \in {"none", "dropped"}
          \/ text = {"nothing"} /\ tx = "none"

WriteOut(text) ==
    /\ Busy
    /\ Len(screen) < 2
    /\ Says(text)
    /\ screen' = Append(screen, text)
    /\ refused'   = (refused \/ text \cap {"fail", "words", "nothing"} # {})
    /\ confirmed' = (confirmed \/ "ok" \in text)
    /\ UNCHANGED <<driverVars, late, typed, btcli, at, asks, accepted, held, heard, tx>>

Exit ==
    /\ btcli # "gone"
    /\ btcli' = "gone"
    /\ held' \in BOOLEAN
    /\ UNCHANGED <<driverVars, late, screen, typed, at, asks, accepted, refused, confirmed, heard, tx>>

-----------------------------------------------------------------------------
Loop ==
    \/ GiveUpOnBtcli \/ ReadChunk \/ ReadEnd \/ SelectSilent
    \/ WriteAnswer \/ RejectUnlock \/ NothingToAnswer \/ Reap

DriverStep == Loop \/ HangUp \/ Return

BtcliStep ==
    \/ \E i \in DOMAIN prompts : Ask(i)
    \/ ReadLine \/ Submit \/ Exit
    \/ \E text \in {{}, {"ok"}, {"fail"}, {"words"}, {"benign"}, {"nothing"}, {"fail", "shield"}} : WriteOut(text)

PtyNext == DriverStep \/ DeadlinePasses \/ BtcliStep \/ ChainSettles

PtySpec == PtyInit /\ [][PtyNext]_ptyVars

(* The signer's thread keeps running and its clock goes on; btcli owes       *)
(* nothing, except that losing its terminal (SIGHUP) ends it.                *)
Hangup == pc = "wait" /\ Exit

FairPtySpec ==
    PtySpec /\ WF_ptyVars(DriverStep) /\ WF_ptyVars(DeadlinePasses) /\ WF_ptyVars(Hangup)

-----------------------------------------------------------------------------
(* "Getting that order wrong feeds the unlock value to the wrong question":  *)
(* every line btcli reads is the answer the table has for the question it    *)
(* read it for, however the writes of the two interleave; and it reads the   *)
(* unlock value once at most, a repeated question is never a second try.     *)
AnswersFit ==
    /\ \A n \in DOMAIN heard : \E i \in DOMAIN prompts :
           prompts[i].marker = heard[n].prompt /\ prompts[i].answer = heard[n].line
    /\ \A m, n \in DOMAIN heard : heard[m].line = Secret /\ heard[n].line = Secret => m = n

(* Nobody waits on everybody: btcli is never left at a question of the table *)
(* with nothing typed, nothing unread and a driver that has nothing to say.  *)
NoStall ==
    ~ /\ btcli = "asking" /\ pc = "poll"
      /\ typed = <<>> /\ screen = <<>>
      /\ NextAnswer = NoAnswer /\ ~AskedAgain

(* At the deadline, at a rejection and at btcli's end alike the run is over   *)
(* and the signer's only thread is free again, a spinner or not.              *)
DriverEnds == <>(pc = "done")

(* What the signer makes of the run: its driver's text through the parser of  *)
(* its kind.                                                                  *)
Verdict ==
    IF pc # "done" THEN "running"
    ELSE CASE end = "crash"    -> "crash"
           [] end = "rejected" -> "failure"
           [] OTHER            -> IF prompts = TransferPrompts THEN ParseTransfer(marks)
                                  ELSE ParseUnstake(marks)

OneRun == INSTANCE BtcliRun WITH chain <- tx, verdict <- Verdict

(* Driver and parsers keep the promise of a run, though a read may cut a      *)
(* cross in two and the last lines may be lost to the exit.                   *)
ImplementsRun == OneRun!RunSpec
=============================================================================
