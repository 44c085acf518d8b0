----------------------------- MODULE PtyProofs -----------------------------
(* Proofs about the driver of one signing run of btcli, for any number of   *)
(* questions and any timing of the terminal: driver and btcli talk in turn, *)
(* and what comes out of the parsers is the promise of BtcliRun.            *)
EXTENDS PtyDriver, FiniteSetTheorems, SequenceTheorems, TLAPS

(* A table of prompts has each marker once, and the unlock value is the     *)
(* answer to the password and to nothing else, and not repeated.            *)
IsTable(p) ==
    /\ DOMAIN p \subseteq 1 .. 3
    /\ \A i \in DOMAIN p :
           /\ p[i].marker \in Prompt /\ p[i].answer \in {Yes, Secret} /\ p[i] # NoAnswer
           /\ p[i].answer = Secret <=> p[i].marker = Password
           /\ p[i].marker = Password => ~p[i].repeat
    /\ \A i, j \in DOMAIN p : p[i].marker = p[j].marker => i = j

DriverTypes ==
    /\ prompts \in {TransferPrompts, UnstakePrompts}
    /\ pc \in {"poll", "answer", "reap", "close", "wait", "done"}
    /\ ready \in BOOLEAN
    /\ seen \in [Prompt -> Nat] /\ answered \in [Prompt -> Nat] /\ unlocked \in Nat
    /\ marks \subseteq Marker
    /\ end \in {"none", "crash", "text", "rejected"}
    /\ end = "none" <=> pc \in {"poll", "answer", "reap"}
    /\ pc = "done" => btcli = "gone"

TerminalTypes ==
    /\ screen \in Seq(SUBSET (Prompt \cup Marker))
    /\ typed \in Seq({Yes, Secret})
    /\ btcli \in {"busy", "asking", "gone"}
    /\ at \in {0} \cup DOMAIN prompts
    /\ btcli = "asking" => at \in DOMAIN prompts
    /\ asks \in 0 .. MaxAsk
    /\ {late, accepted, refused, confirmed, held} \subseteq BOOLEAN
    /\ heard \in Seq([prompt : Prompt, line : {Yes, Secret}])
    /\ tx \in {"none", "submitted", "landed", "dropped"}

PtyTypes == DriverTypes /\ TerminalTypes

-----------------------------------------------------------------------------
(* The conversation. *)

(* Everything read is answered; nothing asked is unread, or one question is. *)
Even       == seen = answered /\ unlocked = answered[Password]
IsProse(w) == w \cap Prompt = {}
AllRead    == \A i \in DOMAIN screen : IsProse(screen[i])
OneUnread  == \E i \in DOMAIN screen :
                  /\ screen[i] = {prompts[at].marker}
                  /\ \A j \in DOMAIN screen \ {i} : IsProse(screen[j])

(* btcli's last question has an answer coming: none was given before, or it  *)
(* is one that may be asked again.                                           *)
Answerable == /\ at \in DOMAIN prompts
              /\ \/ prompts[at].repeat \/ prompts[at].marker = Password
                 \/ answered[prompts[at].marker] = 0

(* The question is on its way to the driver; read and not answered yet;      *)
(* answered.                                                                 *)
Unread == Answerable /\ OneUnread /\ Even /\ btcli # "busy" /\ typed = <<>>
Read   == /\ Answerable /\ AllRead /\ btcli # "busy" /\ typed = <<>>
          /\ seen = [answered EXCEPT ![prompts[at].marker] = @ + 1]
          /\ unlocked = answered[Password]
          /\ pc \notin {"poll", "reap"}
Quiet  == /\ AllRead /\ Even
          /\ \/ typed = <<>> /\ btcli # "asking"
             \/ /\ at \in DOMAIN prompts /\ typed = <<prompts[at].answer>> /\ btcli # "busy"
                /\ answered[prompts[at].marker] > 0

InTurn == /\ Unread \/ Read \/ Quiet
          /\ \A i \in DOMAIN prompts : i > at => answered[prompts[i].marker] = 0

(* What btcli read, it read for the right question, and the unlock value     *)
(* once.                                                                     *)
HeardRight ==
    /\ AnswersFit
    /\ \A n \in DOMAIN heard : heard[n].line = Secret =>
           answered[Password] > 0 /\ \A k \in DOMAIN typed : typed[k] # Secret

-----------------------------------------------------------------------------
(* The chain, and what is printed of it. *)

(* btcli waits for a line that will not come, or is gone.                    *)
Stuck == btcli = "gone" \/ (btcli = "asking" /\ typed = <<>>)

(* Only an unlocked btcli signs; one that was rejected is not unlocked, and  *)
(* never will be.                                                            *)
SignedUnlocked ==
    /\ tx # "none" => accepted
    /\ accepted => Quiet
    /\ end = "rejected" => ~accepted /\ Stuck

(* Nothing is on the chain, and nothing will be.                             *)
NeverOn == tx = "dropped" \/ (tx = "none" /\ refused)

(* What the words w mean; `okBefore`: a success was printed before them.     *)
Honest(w, okBefore) ==
    /\ "ok" \in w => tx = "landed"
    /\ "fail" \in w => NeverOn \/ "shield" \in w \/ okBefore
    /\ w \cap {"nothing", "words"} # {} => NeverOn
    /\ w \cap {"benign", "shield"} # {} => prompts = UnstakePrompts

OkBefore(i) == "ok" \in marks \/ \E j \in DOMAIN screen : j < i /\ "ok" \in screen[j]

OkPrinted   == "ok" \in marks \/ \E j \in DOMAIN screen : "ok" \in screen[j]

MarksAreHonest  == Honest(marks, "ok" \in marks)
ScreenIsHonest  == \A i \in DOMAIN screen : Honest(screen[i], OkBefore(i))
PrintedHonestly == /\ MarksAreHonest
                   /\ ScreenIsHonest
                   /\ confirmed => OkPrinted

PtyInv == PtyTypes /\ InTurn /\ HeardRight /\ SignedUnlocked /\ PrintedHonestly

-----------------------------------------------------------------------------
(* The tables, and what they say next. *)

(* Both tables are tables.                                                   *)
LEMMA TableFacts ==
    ASSUME prompts \in {TransferPrompts, UnstakePrompts}
    PROVE  IsTable(prompts)
<1>1. NoAnswer.marker \notin Prompt
  BY DEF NoAnswer, Entry, Prompt, Password
<1>2. SUFFICES /\ DOMAIN prompts \subseteq 1 .. 3
               /\ \A i \in DOMAIN prompts :
                      /\ prompts[i].marker \in Prompt /\ prompts[i].answer \in {Yes, Secret}
                      /\ prompts[i].answer = Secret <=> prompts[i].marker = Password
                      /\ prompts[i].marker = Password => ~prompts[i].repeat
               /\ \A i, j \in DOMAIN prompts : prompts[i].marker = prompts[j].marker => i = j
  BY <1>1, Zenon DEF IsTable
<1>3. CASE prompts = TransferPrompts
  <2>1. DOMAIN prompts = {1, 2}
    BY <1>3 DEF TransferPrompts
  <2>2. /\ prompts[1] = [marker |-> "transfer?", answer |-> Yes, repeat |-> FALSE]
        /\ prompts[2] = [marker |-> Password, answer |-> Secret, repeat |-> FALSE]
    BY <1>3 DEF TransferPrompts, Entry
  <2>3. /\ prompts[1].marker = "transfer?" /\ prompts[1].answer = Yes
        /\ prompts[2].marker = Password /\ prompts[2].answer = Secret /\ prompts[2].repeat = FALSE
    BY <2>2
  <2>4. ASSUME NEW i \in DOMAIN prompts
        PROVE  /\ prompts[i].marker \in Prompt /\ prompts[i].answer \in {Yes, Secret}
               /\ prompts[i].answer = Secret <=> prompts[i].marker = Password
               /\ prompts[i].marker = Password => ~prompts[i].repeat
    <3>1. CASE i = 1
      BY <2>3, <3>1 DEF Prompt, Password, Yes, Secret
    <3>2. CASE i = 2
      BY <2>3, <3>2 DEF Prompt, Password, Yes, Secret
    <3> QED
      BY <2>1, <3>1, <3>2
  <2>5. \A i, j \in DOMAIN prompts : prompts[i].marker = prompts[j].marker => i = j
    BY <2>1, <2>3 DEF Password
  <2> QED
    BY <2>1, <2>4, <2>5
<1>4. CASE prompts = UnstakePrompts
  <2>1. DOMAIN prompts = {1, 2, 3}
    BY <1>4 DEF UnstakePrompts
  <2>2. /\ prompts[1] = [marker |-> "hotkey?", answer |-> Yes, repeat |-> TRUE]
        /\ prompts[2] = [marker |-> "continue?", answer |-> Yes, repeat |-> FALSE]
        /\ prompts[3] = [marker |-> Password, answer |-> Secret, repeat |-> FALSE]
    BY <1>4 DEF UnstakePrompts, Entry
  <2>3. /\ prompts[1].marker = "hotkey?" /\ prompts[1].answer = Yes
        /\ prompts[2].marker = "continue?" /\ prompts[2].answer = Yes
        /\ prompts[3].marker = Password /\ prompts[3].answer = Secret /\ prompts[3].repeat = FALSE
    BY <2>2
  <2>4. ASSUME NEW i \in DOMAIN prompts
        PROVE  /\ prompts[i].marker \in Prompt /\ prompts[i].answer \in {Yes, Secret}
               /\ prompts[i].answer = Secret <=> prompts[i].marker = Password
               /\ prompts[i].marker = Password => ~prompts[i].repeat
    <3>1. CASE i = 1
      BY <2>3, <3>1 DEF Prompt, Password, Yes, Secret
    <3>2. CASE i = 2
      BY <2>3, <3>2 DEF Prompt, Password, Yes, Secret
    <3>3. CASE i = 3
      BY <2>3, <3>3 DEF Prompt, Password, Yes, Secret
    <3> QED
      BY <2>1, <3>1, <3>2, <3>3
  <2>5. \A i, j \in DOMAIN prompts : prompts[i].marker = prompts[j].marker => i = j
    BY <2>1, <2>3 DEF Password
  <2> QED
    BY <2>1, <2>4, <2>5
<1> QED
  BY <1>3, <1>4

(* The next answer is of an entry that was asked, if one was.                *)
LEMMA NextAnswerIs ==
    ASSUME IsTable(prompts)
    PROVE  /\ NextAnswer # NoAnswer => \E i \in DOMAIN prompts : NextAnswer = prompts[i] /\ Fresh(prompts[i])
           /\ NextAnswer = NoAnswer => \A i \in DOMAIN prompts : ~Fresh(prompts[i])
<1> DEFINE fresh == {i \in DOMAIN prompts : Fresh(prompts[i])}
           next  == CHOOSE i \in fresh : \A j \in fresh : i <= j
<1>1. NextAnswer = IF fresh = {} THEN NoAnswer ELSE prompts[next]
  BY DEF NextAnswer
<1>2. fresh \subseteq 1 .. 3
  BY DEF IsTable
<1>3. fresh # {} => next \in fresh
  <2> SUFFICES ASSUME fresh # {} PROVE \E i \in fresh : \A j \in fresh : i <= j
    OBVIOUS
  <2> HIDE DEF fresh
  <2>1. 1 \in fresh \/ 2 \in fresh \/ 3 \in fresh
    <3>1. PICK x \in fresh : TRUE
      OBVIOUS
    <3>2. x = 1 \/ x = 2 \/ x = 3
      BY <1>2, <3>1
    <3> QED
      BY <3>1, <3>2
  <2>2. CASE 1 \in fresh
    BY <1>2, <2>2
  <2>3. CASE 1 \notin fresh /\ 2 \in fresh
    BY <1>2, <2>3
  <2>4. CASE 1 \notin fresh /\ 2 \notin fresh /\ 3 \in fresh
    BY <1>2, <2>4
  <2> QED
    BY <2>1, <2>2, <2>3, <2>4
<1> HIDE DEF next
<1>4. fresh # {} => next \in DOMAIN prompts /\ Fresh(prompts[next]) /\ prompts[next] # NoAnswer
  BY <1>3 DEF IsTable
<1>5. fresh = {} => \A i \in DOMAIN prompts : ~Fresh(prompts[i])
  OBVIOUS
<1> HIDE DEF fresh
<1> QED
  BY <1>1, <1>4, <1>5

(* When everything read is answered the driver has nothing to say.           *)
LEMMA EvenIsSilent ==
    ASSUME DriverTypes, Even
    PROVE  NextAnswer = NoAnswer /\ ~AskedAgain
<1>1. IsTable(prompts)
  BY TableFacts DEF DriverTypes
<1>2. \A i \in DOMAIN prompts : ~Fresh(prompts[i])
  BY <1>1 DEF DriverTypes, Even, Fresh, IsTable
<1>3. ~AskedAgain
  BY DEF DriverTypes, Even, AskedAgain, Prompt
<1> QED
  BY <1>1, <1>2, <1>3, NextAnswerIs

(* When a question was read, the driver answers it, or it is the password,   *)
(* again.                                                                    *)
LEMMA ReadIsAnswered ==
    ASSUME DriverTypes, Read
    PROVE  /\ NextAnswer # NoAnswer => NextAnswer = prompts[at] /\ Fresh(prompts[at])
           /\ NextAnswer = NoAnswer => AskedAgain
<1> DEFINE cur == prompts[at].marker
<1>1. IsTable(prompts) /\ at \in DOMAIN prompts /\ cur \in Prompt /\ answered \in [Prompt -> Nat]
  BY TableFacts DEF DriverTypes, Read, Answerable, IsTable
<1>2. /\ seen[cur] = answered[cur] + 1
      /\ \A m \in Prompt \ {cur} : seen[m] = answered[m]
      /\ unlocked = answered[Password]
  BY <1>1 DEF Read
<1>3. ASSUME NEW i \in DOMAIN prompts, Fresh(prompts[i]) PROVE i = at
  BY <1>1, <1>2, <1>3 DEF IsTable, Fresh
<1>4. ~Fresh(prompts[at]) => AskedAgain
  <2> SUFFICES ASSUME ~Fresh(prompts[at]) PROVE AskedAgain
    OBVIOUS
  <2>1. seen[cur] > answered[cur] /\ answered[cur] \in Nat
    BY <1>1, <1>2
  <2>2. ~prompts[at].repeat /\ answered[cur] # 0
    BY <2>1 DEF Fresh
  <2>3. cur = Password
    BY <2>2 DEF Read, Answerable
  <2> QED
    BY <1>2, <2>1, <2>2, <2>3 DEF AskedAgain
<1> QED
  BY <1>1, <1>3, <1>4, NextAnswerIs
-----------------------------------------------------------------------------
(* Steps that leave the conversation alone. *)

Talk == <<prompts, seen, marks, answered, unlocked, screen, typed, btcliVars, tx>>

(* A step of the loop or of the clock that reads and types nothing keeps the *)
(* invariant, if it does not go back to reading over an unanswered question. *)
LEMMA TalkStands ==
    ASSUME PtyInv, UNCHANGED Talk, DriverTypes', late' \in BOOLEAN,
           Read => pc' \notin {"poll", "reap"},
           end' = "rejected" => ~accepted /\ Stuck
    PROVE  PtyInv'
<1> USE DEF Talk, btcliVars
<1>1. TerminalTypes'
  BY DEF PtyInv, PtyTypes, TerminalTypes
<1>2. /\ Unread => Unread'
      /\ Quiet => Quiet'
  BY DEF Unread, Quiet, Answerable, OneUnread, AllRead, Even, IsProse
<1>3. Read => Read'
  BY DEF Read, Answerable, AllRead, IsProse
<1>4. InTurn'
  BY <1>2, <1>3 DEF PtyInv, InTurn
<1>5. HeardRight'
  BY DEF PtyInv, HeardRight, AnswersFit
<1>6. SignedUnlocked'
  BY <1>2 DEF PtyInv, SignedUnlocked, Stuck
<1>7. PrintedHonestly'
  BY DEF PtyInv, PrintedHonestly, MarksAreHonest, ScreenIsHonest, Honest, NeverOn, OkBefore, OkPrinted
<1> QED
  BY <1>1, <1>4, <1>5, <1>6, <1>7 DEF PtyInv, PtyTypes

(* The deadline, at the head of the loop.                                    *)
LEMMA StepGiveUp == ASSUME PtyInv, GiveUpOnBtcli PROVE PtyInv'
<1>1. UNCHANGED Talk /\ late' = late /\ pc = "poll" /\ pc' = "close" /\ end' = "crash"
  BY DEF GiveUpOnBtcli, Finish, Talk
<1>2. DriverTypes' /\ late' \in BOOLEAN
  BY <1>1 DEF PtyInv, PtyTypes, DriverTypes, TerminalTypes, GiveUpOnBtcli, Talk, btcliVars
<1> QED
  BY <1>1, <1>2, TalkStands

(* The terminal's end.                                                       *)
LEMMA StepReadEnd == ASSUME PtyInv, ReadEnd PROVE PtyInv'
<1>1. UNCHANGED Talk /\ late' = late /\ pc = "poll" /\ pc' = "close" /\ end' = "text"
  BY DEF ReadEnd, Finish, Talk
<1>2. DriverTypes' /\ late' \in BOOLEAN
  BY <1>1 DEF PtyInv, PtyTypes, DriverTypes, TerminalTypes, ReadEnd, Talk, btcliVars
<1> QED
  BY <1>1, <1>2, TalkStands

(* A select that returns nothing.                                            *)
LEMMA StepSilent == ASSUME PtyInv, SelectSilent PROVE PtyInv'
<1>1. UNCHANGED Talk /\ UNCHANGED <<late, end>> /\ pc = "poll" /\ pc' = "answer" /\ ready' = FALSE
  BY DEF SelectSilent, Talk
<1>2. DriverTypes' /\ late' \in BOOLEAN /\ end' # "rejected"
  BY <1>1 DEF PtyInv, PtyTypes, DriverTypes, TerminalTypes, Talk, btcliVars
<1> QED
  BY <1>1, <1>2, TalkStands

(* A round without an answer: nothing is left unanswered.                    *)
LEMMA StepNothing == ASSUME PtyInv, NothingToAnswer PROVE PtyInv'
<1>1. /\ UNCHANGED Talk /\ UNCHANGED <<late, end, ready>>
      /\ pc = "answer" /\ pc' \in {"poll", "reap"}
      /\ NextAnswer = NoAnswer /\ ~AskedAgain
  BY DEF NothingToAnswer, NextRound, Talk
<1>2. DriverTypes' /\ late' \in BOOLEAN /\ end' # "rejected"
  BY <1>1 DEF PtyInv, PtyTypes, DriverTypes, TerminalTypes, Talk, btcliVars
<1>3. ~Read
  BY <1>1, ReadIsAnswered DEF PtyInv, PtyTypes
<1> QED
  BY <1>1, <1>2, <1>3, TalkStands

(* A rejection: the question read is the password, again, so btcli has not   *)
(* taken the unlock value.                                                   *)
LEMMA StepReject == ASSUME PtyInv, RejectUnlock PROVE PtyInv'
<1>1. /\ UNCHANGED Talk /\ UNCHANGED <<late, ready>>
      /\ pc = "answer" /\ pc' = "close" /\ end' = "rejected" /\ AskedAgain
  BY DEF RejectUnlock, Finish, Talk
<1>2. DriverTypes' /\ late' \in BOOLEAN
  BY <1>1 DEF PtyInv, PtyTypes, DriverTypes, TerminalTypes, Talk, btcliVars
<1>3. ~Even
  BY <1>1, EvenIsSilent DEF PtyInv, PtyTypes
<1>4. Read /\ ~accepted
  BY <1>3 DEF PtyInv, InTurn, Unread, Quiet, SignedUnlocked
<1>5. Stuck
  BY <1>4 DEF Read, Stuck, PtyInv, PtyTypes, TerminalTypes
<1> QED
  BY <1>1, <1>2, <1>4, <1>5, TalkStands

(* The look after btcli that follows a silent select.                        *)
LEMMA StepReap == ASSUME PtyInv, Reap PROVE PtyInv'
<1>1. /\ UNCHANGED Talk /\ UNCHANGED <<late, ready>> /\ pc = "reap"
      /\ \/ pc' = "close" /\ end' = "text"
         \/ pc' = "poll" /\ end' = end
  BY DEF Reap, Finish, Talk
<1>2. DriverTypes' /\ late' \in BOOLEAN /\ end' # "rejected"
  BY <1>1 DEF PtyInv, PtyTypes, DriverTypes, TerminalTypes, Talk, btcliVars
<1>3. ~Read
  BY <1>1 DEF Read
<1> QED
  BY <1>1, <1>2, <1>3, TalkStands

(* The terminal closed, btcli reaped, the deadline passed.                   *)
LEMMA StepLeave == ASSUME PtyInv, HangUp \/ Return \/ DeadlinePasses PROVE PtyInv'
<1>1. UNCHANGED Talk /\ UNCHANGED <<end, ready>> /\ late' \in BOOLEAN
  BY DEF HangUp, Return, DeadlinePasses, Talk, driverVars, PtyInv, PtyTypes, TerminalTypes
<1>2. \/ pc = "close" /\ pc' = "wait"
      \/ pc = "wait" /\ pc' = "done" /\ btcli = "gone"
      \/ pc' = pc
  BY DEF HangUp, Return, DeadlinePasses, driverVars
<1>3. DriverTypes'
  BY <1>1, <1>2 DEF PtyInv, PtyTypes, DriverTypes, Talk, btcliVars
<1>4. end' = "rejected" => ~accepted /\ Stuck
  BY <1>1 DEF PtyInv, SignedUnlocked, Stuck
<1>5. Read => pc' \notin {"poll", "reap"}
  BY <1>2 DEF Read
<1> QED
  BY <1>1, <1>3, <1>4, <1>5, TalkStands
-----------------------------------------------------------------------------
(* What a read makes of the screen. *)

(* A read loses no marker but a cross, and invents none.                     *)
LEMMA ChunkText ==
    ASSUME screen \in Seq(SUBSET (Prompt \cup Marker)), NEW n \in 1 .. Len(screen),
           NEW text \in Decodings(SubSeq(screen, 1, n))
    PROVE  /\ DOMAIN text = 1 .. n
           /\ \A k \in 1 .. n : text[k] \subseteq screen[k] /\ screen[k] \ Crosses \subseteq text[k]
<1> DEFINE chunk == SubSeq(screen, 1, n)
<1>1. /\ DOMAIN chunk = 1 .. n
      /\ \A k \in 1 .. n : chunk[k] = screen[k]
  OBVIOUS
<1>2. text = chunk \/ \E i \in DOMAIN chunk : text = [chunk EXCEPT ![i] = @ \ Crosses]
  BY DEF Decodings
<1> HIDE DEF chunk
<1>3. CASE text = chunk
  BY <1>1, <1>3
<1>4. ASSUME NEW i \in DOMAIN chunk, text = [chunk EXCEPT ![i] = @ \ Crosses]
      PROVE  /\ DOMAIN text = 1 .. n
             /\ \A k \in 1 .. n : text[k] \subseteq screen[k] /\ screen[k] \ Crosses \subseteq text[k]
  <2>1. DOMAIN text = DOMAIN chunk
    BY <1>4
  <2>2. \A k \in DOMAIN chunk : text[k] = IF k = i THEN chunk[k] \ Crosses ELSE chunk[k]
    BY <1>4
  <2> QED
    BY <1>1, <2>1, <2>2
<1> QED
  BY <1>2, <1>3, <1>4

(* What occurs nowhere is counted zero times.                                *)
LEMMA CountOfNone ==
    ASSUME NEW chunk, NEW m, \A i \in DOMAIN chunk : m \notin chunk[i]
    PROVE  Count(chunk, m) = 0
<1>1. {i \in DOMAIN chunk : m \in chunk[i]} = {}
  OBVIOUS
<1> QED
  BY <1>1, FS_EmptySet DEF Count

(* What occurs in one write is counted once.                                 *)
LEMMA CountOfOne ==
    ASSUME NEW chunk, NEW m, NEW k \in DOMAIN chunk, m \in chunk[k],
           \A i \in DOMAIN chunk \ {k} : m \notin chunk[i]
    PROVE  Count(chunk, m) = 1
<1>1. {i \in DOMAIN chunk : m \in chunk[i]} = {k}
  OBVIOUS
<1> QED
  BY <1>1, FS_Singleton DEF Count

(* What is counted occurs.                                                   *)
LEMMA CountedOccurs ==
    ASSUME NEW chunk, NEW m, Count(chunk, m) > 0
    PROVE  \E i \in DOMAIN chunk : m \in chunk[i]
<1> SUFFICES ASSUME \A i \in DOMAIN chunk : m \notin chunk[i] PROVE FALSE
  OBVIOUS
<1>1. Count(chunk, m) = 0
  BY CountOfNone
<1> QED
  BY <1>1
(* The first n writes were read, as text.                                    *)
WasRead(n, text) ==
    /\ n \in 1 .. Len(screen) /\ DOMAIN text = 1 .. n
    /\ \A k \in 1 .. n : text[k] \subseteq screen[k] /\ screen[k] \ Crosses \subseteq text[k]
    /\ seen'  = [m \in Prompt |-> seen[m] + Count(text, m)]
    /\ marks' = marks \cup {m \in Marker : Count(text, m) > 0}
    /\ Len(screen') = Len(screen) - n
    /\ \A k \in DOMAIN screen' : k + n \in DOMAIN screen /\ screen'[k] = screen[k + n]
    /\ \A k \in DOMAIN screen : k > n => k - n \in DOMAIN screen' /\ screen'[k - n] = screen[k]

(* A read is such a read, and leaves everyone else's state alone.            *)
LEMMA ReadIsRead ==
    ASSUME PtyInv, ReadChunk
    PROVE  /\ \E n, text : WasRead(n, text)
           /\ screen' \in Seq(SUBSET (Prompt \cup Marker))
<1>1. screen \in Seq(SUBSET (Prompt \cup Marker))
  BY DEF PtyInv, PtyTypes, TerminalTypes
<1>2. PICK n \in 1 .. Len(screen) :
          /\ \E text \in Decodings(SubSeq(screen, 1, n)) :
                /\ seen'  = [m \in Prompt |-> seen[m] + Count(text, m)]
                /\ marks' = marks \cup {m \in Marker : Count(text, m) > 0}
          /\ screen' = SubSeq(screen, n + 1, Len(screen))
  BY DEF ReadChunk
<1>3. PICK text \in Decodings(SubSeq(screen, 1, n)) :
          /\ seen'  = [m \in Prompt |-> seen[m] + Count(text, m)]
          /\ marks' = marks \cup {m \in Marker : Count(text, m) > 0}
  BY <1>2
<1>4. /\ Len(screen') = Len(screen) - n
      /\ \A k \in 1 .. Len(screen) - n : screen'[k] = screen[k + n]
      /\ screen' \in Seq(SUBSET (Prompt \cup Marker))
  BY <1>2, <1>1
<1>5. /\ DOMAIN screen' = 1 .. Len(screen) - n
      /\ DOMAIN screen = 1 .. Len(screen)
      /\ Len(screen) \in Nat
  BY <1>1, <1>4
<1>6. /\ \A k \in DOMAIN screen' : k + n \in DOMAIN screen /\ screen'[k] = screen[k + n]
      /\ \A k \in DOMAIN screen : k > n => k - n \in DOMAIN screen' /\ screen'[k - n] = screen[k]
  BY <1>4, <1>5
<1>7. WasRead(n, text)
  BY <1>1, <1>3, <1>4, <1>6, ChunkText DEF WasRead
<1> QED
  BY <1>4, <1>7

(* The types after a read.                                                   *)
LEMMA ReadTypes == ASSUME PtyInv, ReadChunk PROVE PtyTypes'
<1>1. PICK n, text : WasRead(n, text)
  BY ReadIsRead
<1>2. \A m \in Prompt : Count(text, m) \in Nat
  <2> SUFFICES ASSUME NEW m \in Prompt PROVE Count(text, m) \in Nat
    OBVIOUS
  <2>1. IsFiniteSet(1 .. n) /\ DOMAIN text = 1 .. n
    BY <1>1, FS_Interval DEF WasRead
  <2>2. IsFiniteSet({i \in DOMAIN text : m \in text[i]})
    BY <2>1, FS_Subset
  <2> QED
    BY <2>2, FS_CardinalityType DEF Count
<1>3. seen' \in [Prompt -> Nat] /\ marks' \subseteq Marker
  <2>1. seen \in [Prompt -> Nat] /\ marks \subseteq Marker
    BY DEF PtyInv, PtyTypes, DriverTypes
  <2> QED
    BY <1>1, <1>2, <2>1 DEF WasRead
<1>4. /\ UNCHANGED <<prompts, answered, unlocked, end, late, typed, btcliVars, tx>>
      /\ pc = "poll" /\ pc' = "answer" /\ ready' = TRUE
  BY DEF ReadChunk
<1>5. DriverTypes'
  BY <1>3, <1>4 DEF PtyInv, PtyTypes, DriverTypes
<1>6. TerminalTypes'
  BY <1>4, ReadIsRead DEF PtyInv, PtyTypes, TerminalTypes, btcliVars
<1> QED
  BY <1>5, <1>6 DEF PtyTypes

(* A read that holds no question changes no count.                           *)
LEMMA ReadProse ==
    ASSUME PtyInv, NEW n, NEW text, WasRead(n, text),
           NEW m \in Prompt, \A k \in 1 .. n : m \notin screen[k]
    PROVE  seen'[m] = seen[m]
<1>1. Count(text, m) = 0
  BY CountOfNone DEF WasRead
<1> QED
  BY <1>1 DEF WasRead, PtyInv, PtyTypes, DriverTypes

(* Nothing asked is unread, and the same after the read.                     *)
LEMMA ReadInQuiet == ASSUME PtyInv, ReadChunk, Quiet PROVE Quiet'
<1>1. PICK n, text : WasRead(n, text)
  BY ReadIsRead
<1>2. UNCHANGED <<prompts, answered, unlocked, typed, at, btcli>>
  BY DEF ReadChunk, btcliVars
<1>3. \A m \in Prompt : \A k \in 1 .. n : m \notin screen[k]
  BY <1>1 DEF Quiet, AllRead, IsProse, WasRead
<1>4. \A m \in Prompt : seen'[m] = seen[m]
  BY <1>1, <1>3, ReadProse
<1>5. seen' = seen
  BY <1>1, <1>4 DEF WasRead, PtyInv, PtyTypes, DriverTypes
<1>6. AllRead'
  BY <1>1 DEF WasRead, Quiet, AllRead, IsProse
<1> QED
  BY <1>2, <1>5, <1>6 DEF Quiet, Even

(* The question that was on its way was read, or still is on its way.        *)
LEMMA ReadInUnread == ASSUME PtyInv, ReadChunk, Unread PROVE Unread' \/ Read'
<1> DEFINE cur == prompts[at].marker
<1>1. PICK n, text : WasRead(n, text)
  BY ReadIsRead
<1>2. /\ UNCHANGED <<prompts, answered, unlocked, typed, at, btcli>>
      /\ pc' = "answer"
  BY DEF ReadChunk, btcliVars
<1>3. PICK q \in DOMAIN screen : screen[q] = {cur} /\ \A j \in DOMAIN screen \ {q} : IsProse(screen[j])
  BY DEF Unread, OneUnread
<1>4. /\ cur \in Prompt /\ at \in DOMAIN prompts /\ typed = <<>> /\ btcli # "busy"
      /\ DOMAIN screen = 1 .. Len(screen) /\ Len(screen) \in Nat
      /\ seen \in [Prompt -> Nat] /\ seen = answered /\ unlocked = answered[Password]
      /\ n \in 1 .. Len(screen)
  <2>1. cur \in Prompt /\ at \in DOMAIN prompts
    BY TableFacts DEF PtyInv, PtyTypes, DriverTypes, Unread, Answerable, IsTable
  <2> QED
    BY <1>1, <2>1 DEF PtyInv, PtyTypes, DriverTypes, TerminalTypes, Unread, Even, WasRead
<1>5. Answerable'
  BY <1>2 DEF Unread, Answerable
<1>6. \A m \in Prompt : \A k \in DOMAIN screen : m \in screen[k] => m = cur /\ k = q
  BY <1>3 DEF IsProse
<1>7. \A m \in Prompt \ {cur} : seen'[m] = seen[m]
  BY <1>1, <1>4, <1>6, ReadProse
<1>8. CASE q > n
  <2>1. seen'[cur] = seen[cur]
    BY <1>1, <1>4, <1>6, <1>8, ReadProse
  <2>2. seen' = seen
    BY <1>1, <1>4, <1>7, <2>1 DEF WasRead
  <2>3. q - n \in DOMAIN screen' /\ screen'[q - n] = {cur}
    BY <1>1, <1>3, <1>8 DEF WasRead
  <2>4. \A j \in DOMAIN screen' \ {q - n} : IsProse(screen'[j])
    <3> SUFFICES ASSUME NEW j \in DOMAIN screen', j # q - n PROVE IsProse(screen'[j])
      OBVIOUS
    <3>1. j + n \in DOMAIN screen /\ screen'[j] = screen[j + n]
      BY <1>1 DEF WasRead
    <3>2. DOMAIN screen' = 1 .. Len(screen')
      BY ReadIsRead
    <3>3. j + n # q
      BY <1>3, <1>4, <3>2
    <3> QED
      BY <1>3, <3>1, <3>3
  <2>5. OneUnread'
    BY <1>2, <2>3, <2>4 DEF OneUnread, IsProse
  <2> QED
    BY <1>2, <1>4, <1>5, <2>2, <2>5 DEF Unread, Even
<1>9. CASE q <= n
  <2>1. q \in 1 .. n
    BY <1>3, <1>4, <1>9
  <2>2. cur \in text[q] /\ \A i \in DOMAIN text \ {q} : cur \notin text[i]
    <3>1. cur \notin Crosses
      BY <1>4 DEF Prompt, Crosses, Password
    <3> QED
      BY <1>1, <1>3, <1>4, <1>6, <2>1, <3>1 DEF WasRead
  <2>3. Count(text, cur) = 1
    BY <1>1, <2>1, <2>2, CountOfOne DEF WasRead
  <2>4. seen' = [answered EXCEPT ![cur] = @ + 1]
    BY <1>1, <1>4, <1>7, <2>3 DEF WasRead
  <2>5. AllRead'
    <3> SUFFICES ASSUME NEW j \in DOMAIN screen' PROVE IsProse(screen'[j])
      BY DEF AllRead, IsProse
    <3>1. j + n \in DOMAIN screen /\ screen'[j] = screen[j + n]
      BY <1>1 DEF WasRead
    <3>2. DOMAIN screen' = 1 .. Len(screen')
      BY ReadIsRead
    <3>3. j + n # q
      BY <1>4, <2>1, <3>2
    <3> QED
      BY <1>3, <3>1, <3>3
  <2> QED
    BY <1>2, <1>4, <1>5, <2>4, <2>5 DEF Read
<1> QED
  BY <1>3, <1>4, <1>8, <1>9
(* What a read takes off the screen it adds to the markers, crosses aside.   *)
LEMMA ReadPrinted == ASSUME PtyInv, ReadChunk PROVE PrintedHonestly'
<1>1. PICK n, text : WasRead(n, text)
  BY ReadIsRead
<1>2. UNCHANGED <<prompts, refused, confirmed, tx>>
  BY DEF ReadChunk, btcliVars
<1>3. /\ screen \in Seq(SUBSET (Prompt \cup Marker)) /\ screen' \in Seq(SUBSET (Prompt \cup Marker))
      /\ n \in 1 .. Len(screen)
  BY <1>1, ReadIsRead DEF PtyInv, PtyTypes, TerminalTypes, WasRead
<1>4. ASSUME NEW k \in 1 .. n, NEW m \in Marker \ Crosses, m \in screen[k] PROVE m \in marks'
  <2>1. k \in DOMAIN text /\ m \in text[k] /\ IsFiniteSet(DOMAIN text)
    <3>1. DOMAIN text = 1 .. n /\ n \in Int
      BY <1>1, <1>3 DEF WasRead
    <3>2. screen[k] \ Crosses \subseteq text[k] /\ m \in screen[k] \ Crosses
      BY <1>1, <1>4 DEF WasRead
    <3>3. IsFiniteSet(1 .. n)
      BY <3>1, FS_Interval
    <3> QED
      BY <3>1, <3>2, <3>3
  <2>2. Count(text, m) > 0
    <3>1. IsFiniteSet({i \in DOMAIN text : m \in text[i]}) /\ {i \in DOMAIN text : m \in text[i]} # {}
      BY <2>1, FS_Subset
    <3>2. Cardinality({i \in DOMAIN text : m \in text[i]}) \in Nat \ {0}
      BY <3>1, FS_EmptySet, FS_CardinalityType
    <3> QED
      BY <3>2 DEF Count
  <2> QED
    BY <1>1, <2>2 DEF WasRead
<1>5. ASSUME NEW m \in marks' PROVE m \in marks \/ \E k \in 1 .. n : m \in screen[k]
  <2>1. CASE m \notin marks
    <3>1. Count(text, m) > 0
      BY <1>1, <1>5, <2>1 DEF WasRead
    <3>2. PICK i \in DOMAIN text : m \in text[i]
      BY <3>1, CountedOccurs
    <3> QED
      BY <1>1, <3>2 DEF WasRead
  <2> QED
    BY <2>1
<1>6. marks \subseteq marks' /\ "ok" \in Marker \ Crosses /\ "shield" \in Marker \ Crosses
  BY <1>1 DEF WasRead, Marker, Crosses
<1>7. ASSUME NEW k \in 1 .. n, OkBefore(k) PROVE "ok" \in marks'
  <2>1. CASE "ok" \in marks
    BY <1>6, <2>1
  <2>2. CASE \E j \in DOMAIN screen : j < k /\ "ok" \in screen[j]
    BY <1>3, <1>4, <1>6, <2>2
  <2> QED
    BY <1>7, <2>1, <2>2 DEF OkBefore
<1>8. \A k \in DOMAIN screen : Honest(screen[k], OkBefore(k))
  BY DEF PtyInv, PrintedHonestly, ScreenIsHonest
<1>9. Honest(marks, "ok" \in marks)
  BY DEF PtyInv, PrintedHonestly, MarksAreHonest
<1>10. MarksAreHonest'
  <2>1. ASSUME NEW m \in marks'
        PROVE  /\ m = "ok" => tx = "landed"
               /\ m = "fail" => NeverOn \/ "shield" \in marks' \/ "ok" \in marks'
               /\ m \in {"nothing", "words"} => NeverOn
               /\ m \in {"benign", "shield"} => prompts = UnstakePrompts
    <3>1. CASE m \in marks
      BY <1>6, <1>9, <3>1 DEF Honest
    <3>2. ASSUME NEW k \in 1 .. n, m \in screen[k]
          PROVE  /\ m = "ok" => tx = "landed"
                 /\ m = "fail" => NeverOn \/ "shield" \in marks' \/ "ok" \in marks'
                 /\ m \in {"nothing", "words"} => NeverOn
                 /\ m \in {"benign", "shield"} => prompts = UnstakePrompts
      <4>1. k \in DOMAIN screen
        BY <1>3
      <4>2. Honest(screen[k], OkBefore(k))
        BY <1>8, <4>1
      <4>3. m = "fail" => NeverOn \/ "shield" \in screen[k] \/ OkBefore(k)
        BY <3>2, <4>2 DEF Honest
      <4>4. m = "fail" => NeverOn \/ "shield" \in marks' \/ "ok" \in marks'
        BY <1>4, <1>6, <1>7, <4>3
      <4> QED
        BY <3>2, <4>2, <4>4 DEF Honest
    <3> QED
      BY <1>5, <3>1, <3>2
  <2>2. NeverOn' = NeverOn
    BY <1>2 DEF NeverOn
  <2> QED
    BY <1>2, <2>1, <2>2 DEF MarksAreHonest, Honest
<1>11. ScreenIsHonest'
  <2>1. ASSUME NEW j \in DOMAIN screen' PROVE Honest(screen[j + n], OkBefore(j)')
    <3>1. j + n \in DOMAIN screen
      BY <1>1 DEF WasRead
    <3>2. Honest(screen[j + n], OkBefore(j + n))
      BY <1>8, <3>1
    <3>3. OkBefore(j + n) => OkBefore(j)'
      <4>1. CASE "ok" \in marks
        BY <1>6, <4>1 DEF OkBefore
      <4>2. ASSUME NEW i \in DOMAIN screen, i < j + n, "ok" \in screen[i] PROVE OkBefore(j)'
        <5>1. CASE i \in 1 .. n
          BY <1>4, <1>6, <4>2, <5>1 DEF OkBefore
        <5>2. CASE i > n
          <6>1. i - n \in DOMAIN screen' /\ screen'[i - n] = screen[i]
            BY <1>1, <5>2 DEF WasRead
          <6>2. i \in Nat /\ j \in Nat /\ n \in Nat
            BY <1>3
          <6>3. i - n < j
            BY <4>2, <6>2
          <6> QED
            BY <4>2, <6>1, <6>3 DEF OkBefore
        <5> QED
          BY <1>3, <5>1, <5>2
      <4> QED
        BY <4>1, <4>2 DEF OkBefore
    <3> QED
      BY <3>2, <3>3 DEF Honest
  <2>2. ASSUME NEW j \in DOMAIN screen'
        PROVE  /\ "ok" \in screen'[j] => tx' = "landed"
               /\ "fail" \in screen'[j] => NeverOn' \/ "shield" \in screen'[j] \/ OkBefore(j)'
               /\ screen'[j] \cap {"nothing", "words"} # {} => NeverOn'
               /\ screen'[j] \cap {"benign", "shield"} # {} => prompts' = UnstakePrompts
    <3>1. screen'[j] = screen[j + n]
      BY <1>1 DEF WasRead
    <3>2. Honest(screen'[j], OkBefore(j)')
      BY <2>1, <3>1
    <3>3. NeverOn' = NeverOn
      BY <1>2 DEF NeverOn
    <3> QED
      BY <1>2, <3>2, <3>3 DEF Honest
  <2> QED
    BY <2>2 DEF ScreenIsHonest, Honest
<1>12. OkPrinted => OkPrinted'
  <2>1. CASE "ok" \in marks
    BY <1>6, <2>1 DEF OkPrinted
  <2>2. ASSUME NEW i \in DOMAIN screen, "ok" \in screen[i] PROVE OkPrinted'
    <3>1. CASE i \in 1 .. n
      BY <1>4, <1>6, <2>2, <3>1 DEF OkPrinted
    <3>2. CASE i > n
      BY <1>1, <2>2, <3>2 DEF WasRead, OkPrinted
    <3> QED
      BY <1>3, <3>1, <3>2
  <2> QED
    BY <2>1, <2>2 DEF OkPrinted
<1> QED
  BY <1>2, <1>10, <1>11, <1>12 DEF PtyInv, PrintedHonestly

(* A read keeps the invariant.                                               *)
LEMMA StepRead == ASSUME PtyInv, ReadChunk PROVE PtyInv'
<1>1. /\ UNCHANGED <<prompts, answered, unlocked, end, typed, btcliVars, tx>>
      /\ pc = "poll"
  BY DEF ReadChunk
<1>2. ~Read /\ end # "rejected"
  BY <1>1 DEF Read, PtyInv, PtyTypes, DriverTypes
<1>3. (Unread' \/ Read' \/ Quiet') /\ (Quiet => Quiet')
  BY <1>2, ReadInQuiet, ReadInUnread DEF PtyInv, InTurn
<1>4. InTurn'
  BY <1>1, <1>3 DEF PtyInv, InTurn, btcliVars
<1>5. HeardRight'
  BY <1>1 DEF PtyInv, HeardRight, AnswersFit, btcliVars
<1>6. SignedUnlocked'
  BY <1>1, <1>2, <1>3 DEF PtyInv, SignedUnlocked, btcliVars
<1> QED
  BY <1>4, <1>5, <1>6, ReadTypes, ReadPrinted DEF PtyInv
-----------------------------------------------------------------------------
(* Steps of the conversation. *)

(* What is printed keeps its meaning while neither screen nor chain change.  *)
LEMMA PrintStands ==
    ASSUME PtyInv, UNCHANGED <<prompts, marks, screen, refused, confirmed, tx>>
    PROVE  PrintedHonestly'
BY DEF PtyInv, PrintedHonestly, MarksAreHonest, ScreenIsHonest, Honest, NeverOn, OkBefore, OkPrinted

(* The driver answers the question it has read, and is even again.           *)
LEMMA StepWriteAnswer == ASSUME PtyInv, WriteAnswer PROVE PtyInv'
<1> DEFINE cur == prompts[at].marker
<1>1. /\ UNCHANGED <<prompts, ready, seen, marks, end, late, screen, btcliVars, tx>>
      /\ pc = "answer" /\ pc' \in {"poll", "reap"} /\ NextAnswer # NoAnswer
  BY DEF WriteAnswer, NextRound
<1>2. Read
  <2>1. ~Even
    BY <1>1, EvenIsSilent DEF PtyInv, PtyTypes
  <2> QED
    BY <2>1 DEF PtyInv, InTurn, Unread, Quiet
<1>3. NextAnswer = prompts[at] /\ Fresh(prompts[at])
  BY <1>1, <1>2, ReadIsAnswered DEF PtyInv, PtyTypes
<1>4. IsTable(prompts) /\ at \in DOMAIN prompts
  BY <1>2, TableFacts DEF PtyInv, PtyTypes, DriverTypes, Read, Answerable
<1>5. /\ cur \in Prompt /\ prompts[at].answer \in {Yes, Secret}
      /\ prompts[at].answer = Secret <=> cur = Password
      /\ cur = Password => ~prompts[at].repeat
  BY <1>4 DEF IsTable
<1>6. /\ seen \in [Prompt -> Nat] /\ answered \in [Prompt -> Nat] /\ unlocked = answered[Password]
      /\ Password \in Prompt
      /\ seen = [answered EXCEPT ![cur] = @ + 1]
  BY <1>2 DEF PtyInv, PtyTypes, DriverTypes, Read, Prompt
<1>7. /\ answered' = [answered EXCEPT ![cur] = seen[cur]]
      /\ unlocked' = IF cur = Password THEN seen[Password] ELSE unlocked
      /\ typed' = <<prompts[at].answer>>
  <2>1. typed = <<>>
    BY <1>2 DEF Read
  <2> QED
    BY <1>3, <1>5, <2>1 DEF WriteAnswer
<1>8. answered' = seen
  BY <1>5, <1>6, <1>7
<1>9. unlocked' = seen[Password]
  BY <1>5, <1>6, <1>7
<1>10. Even' /\ answered'[cur] > 0
  BY <1>1, <1>5, <1>6, <1>8, <1>9 DEF Even
<1>11. PtyTypes'
  <2>1. DriverTypes'
    BY <1>1, <1>6, <1>8, <1>9 DEF PtyInv, PtyTypes, DriverTypes, btcliVars
  <2>2. typed' \in Seq({Yes, Secret})
    BY <1>5, <1>7
  <2>3. TerminalTypes'
    BY <1>1, <2>2 DEF PtyInv, PtyTypes, TerminalTypes, btcliVars
  <2> QED
    BY <2>1, <2>3 DEF PtyTypes
<1>12. Quiet'
  <2>1. /\ at' \in DOMAIN prompts' /\ typed' = <<prompts'[at'].answer>> /\ btcli' # "busy"
        /\ answered'[prompts'[at'].marker] > 0
    BY <1>1, <1>2, <1>4, <1>7, <1>10 DEF Read, btcliVars
  <2>2. AllRead'
    BY <1>1, <1>2 DEF Read, AllRead, IsProse
  <2> QED
    BY <1>10, <2>1, <2>2 DEF Quiet
<1>13. InTurn'
  <2>1. ASSUME NEW i \in DOMAIN prompts, i > at PROVE answered'[prompts[i].marker] = 0
    <3>1. answered[prompts[i].marker] = 0
      BY <2>1 DEF PtyInv, InTurn
    <3>2. prompts[i].marker # cur /\ prompts[i].marker \in Prompt
      <4>1. i # at
        <5>1. i \in 1 .. 3 /\ at \in 1 .. 3
          BY <1>4 DEF IsTable
        <5> QED
          BY <2>1, <5>1
      <4> QED
        BY <1>4, <4>1 DEF IsTable
    <3> QED
      BY <1>6, <1>7, <3>1, <3>2
  <2> QED
    BY <1>1, <1>12, <2>1 DEF InTurn, btcliVars
<1>14. HeardRight'
  <2>1. AnswersFit'
    BY <1>1 DEF PtyInv, HeardRight, AnswersFit, btcliVars
  <2>2. ASSUME NEW n \in DOMAIN heard, heard[n].line = Secret
        PROVE  answered'[Password] > 0 /\ \A k \in DOMAIN typed' : typed'[k] # Secret
    <3>1. answered[Password] > 0
      BY <2>2 DEF PtyInv, HeardRight
    <3>2. cur # Password
      BY <1>3, <1>5, <1>6, <3>1 DEF Fresh
    <3>3. answered'[Password] = answered[Password]
      BY <1>6, <1>7, <3>2
    <3>4. \A k \in DOMAIN typed' : typed'[k] # Secret
      BY <1>5, <1>7, <3>2
    <3> QED
      BY <3>1, <3>3, <3>4
  <2> QED
    BY <1>1, <2>1, <2>2 DEF HeardRight, btcliVars
<1>15. SignedUnlocked'
  <2>1. ~accepted
    BY <1>1, <1>2, EvenIsSilent DEF PtyInv, PtyTypes, SignedUnlocked, Quiet
  <2>2. end # "rejected"
    BY <1>1 DEF PtyInv, PtyTypes, DriverTypes
  <2> QED
    BY <1>1, <2>1, <2>2 DEF PtyInv, SignedUnlocked, btcliVars
<1>16. PrintedHonestly'
  BY <1>1, PrintStands DEF btcliVars
<1> QED
  BY <1>11, <1>13, <1>14, <1>15, <1>16 DEF PtyInv

(* A busy btcli is owed nothing: what it asked was answered and read.        *)
LEMMA BusyIsQuiet == ASSUME PtyInv, Busy PROVE Quiet /\ typed = <<>> /\ end # "rejected"
BY DEF PtyInv, InTurn, Unread, Read, Quiet, Busy, SignedUnlocked, Stuck

(* btcli asks: a question that had no answer, or one that may come again.    *)
LEMMA StepAsk == ASSUME PtyInv, NEW i \in DOMAIN prompts, Ask(i) PROVE PtyInv'
<1> DEFINE word == {prompts[i].marker}
<1>1. /\ UNCHANGED <<driverVars, late, accepted, refused, confirmed, held, heard, tx>>
      /\ Busy /\ ~accepted /\ asks < MaxAsk /\ asks' = asks + 1
      /\ btcli' = "asking" /\ at' = i
      /\ screen' = Append(screen, word)
  BY DEF Ask
<1>2. Quiet /\ typed = <<>> /\ typed' = <<>> /\ end # "rejected"
  BY <1>1, BusyIsQuiet DEF Ask
<1>3. IsTable(prompts) /\ prompts[i].marker \in Prompt /\ i \in 1 .. 3 /\ at \in 0 .. 3
  <2>1. IsTable(prompts)
    BY TableFacts DEF PtyInv, PtyTypes, DriverTypes
  <2>2. DOMAIN prompts \subseteq 1 .. 3
    BY <2>1 DEF IsTable
  <2>3. at \in {0} \cup DOMAIN prompts
    BY DEF PtyInv, PtyTypes, TerminalTypes
  <2> QED
    BY <2>1, <2>2, <2>3 DEF IsTable
<1>4. screen \in Seq(SUBSET (Prompt \cup Marker)) /\ word \in SUBSET (Prompt \cup Marker)
  BY <1>3 DEF PtyInv, PtyTypes, TerminalTypes
<1> HIDE DEF word
<1>5. /\ screen' \in Seq(SUBSET (Prompt \cup Marker))
      /\ DOMAIN screen = 1 .. Len(screen) /\ Len(screen) \in Nat
      /\ DOMAIN screen' = 1 .. Len(screen) + 1
      /\ \A k \in 1 .. Len(screen) : screen'[k] = screen[k]
      /\ screen'[Len(screen) + 1] = word
  BY <1>1, <1>4
<1>6. PtyTypes'
  <2>1. DriverTypes'
    BY <1>1 DEF PtyInv, PtyTypes, DriverTypes, driverVars, Busy
  <2>2. asks' \in 0 .. MaxAsk
    BY <1>1, PtyAssumption DEF PtyInv, PtyTypes, TerminalTypes
  <2>3. TerminalTypes'
    BY <1>1, <1>2, <1>5, <2>2 DEF PtyInv, PtyTypes, TerminalTypes, driverVars
  <2> QED
    BY <2>1, <2>3 DEF PtyTypes
<1>7. Unread'
  <2>1. Answerable'
    <3>1. i > at => answered[prompts[i].marker] = 0
      BY DEF PtyInv, InTurn
    <3>2. prompts[i].repeat \/ prompts[i].marker = Password \/ answered[prompts[i].marker] = 0
      BY <3>1 DEF Ask
    <3> QED
      BY <1>1, <3>2 DEF Answerable, driverVars
  <2>2. OneUnread'
    <3>1. \A j \in 1 .. Len(screen) : IsProse(screen[j])
      BY <1>2, <1>5 DEF Quiet, AllRead
    <3>2. screen'[Len(screen) + 1] = {prompts'[at'].marker}
      BY <1>1, <1>5 DEF driverVars, word
    <3>3. \A j \in DOMAIN screen' \ {Len(screen) + 1} : IsProse(screen'[j])
      BY <1>5, <3>1
    <3>4. Len(screen) + 1 \in DOMAIN screen'
      BY <1>5
    <3> QED
      BY <3>2, <3>3, <3>4 DEF OneUnread, IsProse
  <2>3. Even'
    BY <1>1, <1>2 DEF Quiet, Even, driverVars
  <2> QED
    BY <1>1, <1>2, <2>1, <2>2, <2>3 DEF Unread
<1>8. InTurn'
  <2>1. ASSUME NEW j \in DOMAIN prompts, j > i PROVE answered[prompts[j].marker] = 0
    <3>1. i >= at
      BY <1>3 DEF Ask
    <3>2. j \in 1 .. 3
      BY <1>3 DEF IsTable
    <3>3. j > at
      BY <1>3, <2>1, <3>1, <3>2
    <3> QED
      BY <3>3 DEF PtyInv, InTurn
  <2> QED
    BY <1>1, <1>7, <2>1 DEF InTurn, driverVars
<1>9. HeardRight'
  BY <1>1, <1>2 DEF PtyInv, HeardRight, AnswersFit, driverVars
<1>10. SignedUnlocked'
  BY <1>1, <1>2 DEF PtyInv, SignedUnlocked, driverVars
<1>11. PrintedHonestly'
  <2>1. word \cap Marker = {}
    BY <1>3 DEF word, Prompt, Password, Marker
  <2>2. \A k \in 1 .. Len(screen) : OkBefore(k)' = OkBefore(k)
    BY <1>1, <1>5 DEF OkBefore, driverVars
  <2>3. \A k \in 1 .. Len(screen) : Honest(screen[k], OkBefore(k))
    BY <1>5 DEF PtyInv, PrintedHonestly, ScreenIsHonest
  <2>4. UNCHANGED <<marks, prompts, tx, refused, confirmed>> /\ NeverOn' = NeverOn
    BY <1>1 DEF driverVars, NeverOn
  <2>5. ScreenIsHonest'
    <3> SUFFICES ASSUME NEW k \in DOMAIN screen'
                 PROVE  /\ "ok" \in screen'[k] => tx' = "landed"
                        /\ "fail" \in screen'[k] => NeverOn' \/ "shield" \in screen'[k] \/ OkBefore(k)'
                        /\ screen'[k] \cap {"nothing", "words"} # {} => NeverOn'
                        /\ screen'[k] \cap {"benign", "shield"} # {} => prompts' = UnstakePrompts
      BY DEF ScreenIsHonest, Honest
    <3>1. CASE k \in 1 .. Len(screen)
      BY <1>5, <2>2, <2>3, <2>4, <3>1 DEF Honest
    <3>2. CASE k = Len(screen) + 1
      BY <1>5, <2>1, <3>2 DEF Marker
    <3> QED
      BY <1>5, <3>1, <3>2
  <2>6. MarksAreHonest'
    BY <2>4 DEF PtyInv, PrintedHonestly, MarksAreHonest, Honest
  <2>7. OkPrinted => OkPrinted'
    BY <1>5, <2>4 DEF OkPrinted
  <2> QED
    BY <2>4, <2>5, <2>6, <2>7 DEF PtyInv, PrintedHonestly
<1> QED
  BY <1>6, <1>8, <1>9, <1>10, <1>11 DEF PtyInv
(* btcli reads a line: the answer to the question it asked.                  *)
LEMMA StepReadLine == ASSUME PtyInv, ReadLine PROVE PtyInv'
<1> DEFINE e == prompts[at]
           new == [prompt |-> e.marker, line |-> e.answer]
<1>1. /\ UNCHANGED <<driverVars, late, screen, at, asks, refused, confirmed, held, tx>>
      /\ btcli = "asking" /\ typed # <<>> /\ btcli' = "busy"
      /\ accepted' \in {accepted, TRUE}
  BY DEF ReadLine
<1>2. Quiet /\ at \in DOMAIN prompts /\ typed = <<e.answer>> /\ answered[e.marker] > 0
  BY <1>1 DEF PtyInv, InTurn, Unread, Read, Quiet
<1>3. end # "rejected"
  BY <1>1 DEF PtyInv, SignedUnlocked, Stuck
<1>4. IsTable(prompts) /\ heard \in Seq([prompt : Prompt, line : {Yes, Secret}])
  BY TableFacts DEF PtyInv, PtyTypes, DriverTypes, TerminalTypes
<1>5. /\ e.marker \in Prompt /\ e.answer \in {Yes, Secret}
      /\ e.answer = Secret <=> e.marker = Password
  BY <1>2, <1>4 DEF IsTable
<1> HIDE DEF e
<1>6. typed' = <<>> /\ heard' = Append(heard, new)
  BY <1>2 DEF ReadLine, e
<1>7. /\ new \in [prompt : Prompt, line : {Yes, Secret}]
      /\ new.prompt = e.marker /\ new.line = e.answer
  BY <1>5
<1> HIDE DEF new
<1>8. /\ heard' \in Seq([prompt : Prompt, line : {Yes, Secret}])
      /\ DOMAIN heard = 1 .. Len(heard) /\ Len(heard) \in Nat
      /\ DOMAIN heard' = 1 .. Len(heard) + 1
      /\ \A k \in 1 .. Len(heard) : heard'[k] = heard[k]
      /\ heard'[Len(heard) + 1] = new
  BY <1>4, <1>6, <1>7
<1>9. PtyTypes'
  <2>1. DriverTypes'
    BY <1>1 DEF PtyInv, PtyTypes, DriverTypes, driverVars
  <2>2. accepted' \in BOOLEAN
    BY <1>1 DEF PtyInv, PtyTypes, TerminalTypes
  <2>3. TerminalTypes'
    BY <1>1, <1>6, <1>8, <2>2 DEF PtyInv, PtyTypes, TerminalTypes, driverVars
  <2> QED
    BY <2>1, <2>3 DEF PtyTypes
<1>10. Quiet'
  <2>1. AllRead' /\ Even'
    BY <1>1, <1>2 DEF Quiet, AllRead, IsProse, Even, driverVars
  <2> QED
    BY <1>1, <1>6, <2>1 DEF Quiet
<1>11. InTurn'
  BY <1>1, <1>10 DEF PtyInv, InTurn, driverVars
<1>12. HeardRight'
  <2>1. e.answer = Secret => \A n \in DOMAIN heard : heard[n].line # Secret
    <3> SUFFICES ASSUME e.answer = Secret, NEW n \in DOMAIN heard, heard[n].line = Secret PROVE FALSE
      OBVIOUS
    <3>1. \A k \in DOMAIN typed : typed[k] # Secret
      BY DEF PtyInv, HeardRight
    <3>2. 1 \in DOMAIN typed /\ typed[1] = Secret
      BY <1>2 DEF e
    <3> QED
      BY <3>1, <3>2
  <2>2. ASSUME NEW n \in DOMAIN heard'
        PROVE  \E i \in DOMAIN prompts : prompts[i].marker = heard'[n].prompt
                                         /\ prompts[i].answer = heard'[n].line
    <3>1. CASE n \in 1 .. Len(heard)
      BY <1>8, <3>1 DEF PtyInv, HeardRight, AnswersFit
    <3>2. CASE n = Len(heard) + 1
      BY <1>2, <1>7, <1>8, <3>2 DEF e
    <3> QED
      BY <1>8, <3>1, <3>2
  <2>3. ASSUME NEW m \in DOMAIN heard', NEW n \in DOMAIN heard',
               heard'[m].line = Secret, heard'[n].line = Secret
        PROVE  m = n
    <3>1. CASE e.answer = Secret
      BY <1>7, <1>8, <2>1, <2>3, <3>1
    <3>2. CASE e.answer # Secret
      <4>1. m \in DOMAIN heard /\ n \in DOMAIN heard /\ heard[m].line = Secret /\ heard[n].line = Secret
        BY <1>7, <1>8, <2>3, <3>2
      <4> QED
        BY <4>1 DEF PtyInv, HeardRight, AnswersFit
    <3> QED
      BY <3>1, <3>2
  <2>4. ASSUME NEW n \in DOMAIN heard', heard'[n].line = Secret PROVE answered[Password] > 0
    <3>1. CASE n \in 1 .. Len(heard)
      BY <1>8, <2>4, <3>1 DEF PtyInv, HeardRight
    <3>2. CASE n = Len(heard) + 1
      BY <1>2, <1>5, <1>7, <1>8, <2>4, <3>2
    <3> QED
      BY <1>8, <3>1, <3>2
  <2>5. AnswersFit'
    BY <1>1, <2>2, <2>3 DEF AnswersFit, driverVars
  <2>6. \A k \in DOMAIN typed' : typed'[k] # Secret
    BY <1>6
  <2> QED
    BY <1>1, <2>4, <2>5, <2>6 DEF HeardRight, driverVars
<1>13. SignedUnlocked'
  <2>1. accepted => accepted'
    BY <1>1
  <2> QED
    BY <1>1, <1>3, <1>10, <2>1 DEF PtyInv, SignedUnlocked, driverVars
<1>14. PrintedHonestly'
  BY <1>1, PrintStands DEF driverVars
<1> QED
  BY <1>9, <1>11, <1>12, <1>13, <1>14 DEF PtyInv

(* Signing, and the chain's word on it: nobody has said yet that nothing is  *)
(* on the chain, or that something is.                                       *)
LEMMA StepChain == ASSUME PtyInv, Submit \/ ChainSettles PROVE PtyInv'
<1>1. /\ UNCHANGED <<driverVars, late, screen, typed, btcliVars>>
      /\ tx' \in {"submitted", "landed", "dropped"}
      /\ accepted
  BY DEF Submit, ChainSettles, PtyInv, SignedUnlocked
<1>2. ~NeverOn /\ tx # "landed"
  BY DEF Submit, ChainSettles, NeverOn
<1>3. PtyTypes'
  BY <1>1 DEF PtyInv, PtyTypes, DriverTypes, TerminalTypes, driverVars, btcliVars
<1>4. Quiet => Quiet'
  BY <1>1 DEF Quiet, AllRead, IsProse, Even, driverVars, btcliVars
<1>5. Quiet
  BY <1>1 DEF PtyInv, SignedUnlocked
<1>6. InTurn'
  BY <1>1, <1>4, <1>5 DEF PtyInv, InTurn, driverVars, btcliVars
<1>7. HeardRight'
  BY <1>1 DEF PtyInv, HeardRight, AnswersFit, driverVars, btcliVars
<1>8. SignedUnlocked'
  BY <1>1, <1>4 DEF PtyInv, SignedUnlocked, driverVars, btcliVars
<1>9. PrintedHonestly'
  BY <1>1, <1>2 DEF PtyInv, PrintedHonestly, MarksAreHonest, ScreenIsHonest, Honest, NeverOn,
                    OkBefore, OkPrinted, driverVars, btcliVars
<1> QED
  BY <1>3, <1>6, <1>7, <1>8, <1>9 DEF PtyInv

(* What btcli prints besides its questions.                                  *)
Texts == {{}, {"ok"}, {"fail"}, {"words"}, {"benign"}, {"nothing"}, {"fail", "shield"}}

(* btcli prints: no question, and nothing it does not know.                  *)
LEMMA StepWriteOut == ASSUME PtyInv, NEW text \in Texts, WriteOut(text) PROVE PtyInv'
<1>1. /\ UNCHANGED <<driverVars, late, typed, btcli, at, asks, accepted, held, heard, tx>>
      /\ Busy /\ Says(text)
      /\ screen' = Append(screen, text)
      /\ refused'   = (refused \/ text \cap {"fail", "words", "nothing"} # {})
      /\ confirmed' = (confirmed \/ "ok" \in text)
  BY DEF WriteOut
<1>2. Quiet /\ end # "rejected"
  BY <1>1, BusyIsQuiet
<1>3. text \in SUBSET (Prompt \cup Marker) /\ IsProse(text)
  BY DEF Texts, Marker, IsProse, Prompt, Password
<1>4. screen \in Seq(SUBSET (Prompt \cup Marker))
  BY DEF PtyInv, PtyTypes, TerminalTypes
<1>5. /\ screen' \in Seq(SUBSET (Prompt \cup Marker))
      /\ DOMAIN screen = 1 .. Len(screen) /\ Len(screen) \in Nat
      /\ DOMAIN screen' = 1 .. Len(screen) + 1
      /\ \A k \in 1 .. Len(screen) : screen'[k] = screen[k]
      /\ screen'[Len(screen) + 1] = text
  BY <1>1, <1>3, <1>4
<1>6. PtyTypes'
  <2>1. DriverTypes'
    BY <1>1 DEF PtyInv, PtyTypes, DriverTypes, driverVars
  <2>2. {refused', confirmed'} \subseteq BOOLEAN
    BY <1>1
  <2>3. TerminalTypes'
    BY <1>1, <1>5, <2>2 DEF PtyInv, PtyTypes, TerminalTypes, driverVars
  <2> QED
    BY <2>1, <2>3 DEF PtyTypes
<1>7. Quiet'
  <2>1. AllRead'
    BY <1>2, <1>3, <1>5 DEF Quiet, AllRead, IsProse
  <2>2. Even'
    BY <1>1, <1>2 DEF Quiet, Even, driverVars
  <2> QED
    BY <1>1, <1>2, <2>1, <2>2 DEF Quiet, driverVars
<1>8. InTurn'
  BY <1>1, <1>7 DEF PtyInv, InTurn, driverVars
<1>9. HeardRight'
  BY <1>1 DEF PtyInv, HeardRight, AnswersFit, driverVars
<1>10. SignedUnlocked'
  BY <1>1, <1>2, <1>7 DEF PtyInv, SignedUnlocked, driverVars
<1>11. NeverOn => NeverOn'
  BY <1>1 DEF NeverOn
<1>12. ASSUME OkPrinted, NEW k, k = Len(screen) + 1 PROVE OkBefore(k)'
  BY <1>1, <1>5, <1>12 DEF OkPrinted, OkBefore, driverVars
<1>13. ASSUME NEW k, k = Len(screen) + 1
       PROVE  /\ "ok" \in text => tx = "landed"
              /\ "fail" \in text => NeverOn' \/ "shield" \in text \/ OkBefore(k)'
              /\ text \cap {"nothing", "words"} # {} => NeverOn'
              /\ text \cap {"benign", "shield"} # {} => prompts = UnstakePrompts
  <2>1. confirmed => OkPrinted
    BY DEF PtyInv, PrintedHonestly
  <2>2. text \cap {"fail", "words", "nothing"} # {} => refused'
    BY <1>1
  <2> QED
    BY <1>1, <1>12, <1>13, <2>1, <2>2 DEF Says, Texts, NeverOn
<1>14. ScreenIsHonest'
  <2> SUFFICES ASSUME NEW k \in DOMAIN screen'
               PROVE  /\ "ok" \in screen'[k] => tx' = "landed"
                      /\ "fail" \in screen'[k] => NeverOn' \/ "shield" \in screen'[k] \/ OkBefore(k)'
                      /\ screen'[k] \cap {"nothing", "words"} # {} => NeverOn'
                      /\ screen'[k] \cap {"benign", "shield"} # {} => prompts' = UnstakePrompts
    BY DEF ScreenIsHonest, Honest
  <2>1. CASE k \in 1 .. Len(screen)
    <3>1. OkBefore(k) => OkBefore(k)'
      BY <1>1, <1>5, <2>1 DEF OkBefore, driverVars
    <3>2. Honest(screen[k], OkBefore(k))
      BY <1>5, <2>1 DEF PtyInv, PrintedHonestly, ScreenIsHonest
    <3>3. screen'[k] = screen[k]
      BY <1>5, <2>1
    <3>4. prompts' = prompts /\ tx' = tx
      BY <1>1 DEF driverVars
    <3>5. /\ "ok" \in screen[k] => tx = "landed"
          /\ "fail" \in screen[k] => NeverOn \/ "shield" \in screen[k] \/ OkBefore(k)
          /\ screen[k] \cap {"nothing", "words"} # {} => NeverOn
          /\ screen[k] \cap {"benign", "shield"} # {} => prompts = UnstakePrompts
      BY <3>2 DEF Honest
    <3> QED
      BY <1>11, <3>1, <3>3, <3>4, <3>5
  <2>2. CASE k = Len(screen) + 1
    <3>1. screen'[k] = text
      BY <1>5, <2>2
    <3>2. prompts' = prompts /\ tx' = tx
      BY <1>1 DEF driverVars
    <3> QED
      BY <1>13, <2>2, <3>1, <3>2
  <2> QED
    BY <1>5, <2>1, <2>2
<1>15. MarksAreHonest'
  BY <1>1, <1>11 DEF PtyInv, PrintedHonestly, MarksAreHonest, Honest, driverVars
<1>16. confirmed' => OkPrinted'
  <2>1. OkPrinted => OkPrinted'
    BY <1>1, <1>5 DEF OkPrinted, driverVars
  <2>2. "ok" \in text => OkPrinted'
    BY <1>5 DEF OkPrinted
  <2> QED
    BY <1>1, <2>1, <2>2 DEF PtyInv, PrintedHonestly
<1> QED
  BY <1>6, <1>8, <1>9, <1>10, <1>14, <1>15, <1>16 DEF PtyInv, PrintedHonestly

(* btcli's end, wherever it stood.                                           *)
LEMMA StepExit == ASSUME PtyInv, Exit PROVE PtyInv'
<1>1. /\ UNCHANGED <<driverVars, late, screen, typed, at, asks, accepted, refused, confirmed, heard, tx>>
      /\ btcli' = "gone" /\ held' \in BOOLEAN
  BY DEF Exit
<1>2. PtyTypes'
  BY <1>1 DEF PtyInv, PtyTypes, DriverTypes, TerminalTypes, driverVars
<1>3. /\ Unread => Unread'
      /\ Read => Read'
      /\ Quiet => Quiet'
  BY <1>1 DEF Unread, Read, Quiet, Answerable, OneUnread, AllRead, Even, IsProse, driverVars
<1>4. InTurn'
  BY <1>1, <1>3 DEF PtyInv, InTurn, driverVars
<1>5. HeardRight'
  BY <1>1 DEF PtyInv, HeardRight, AnswersFit, driverVars
<1>6. SignedUnlocked'
  BY <1>1, <1>3 DEF PtyInv, SignedUnlocked, driverVars, Stuck
<1>7. PrintedHonestly'
  BY <1>1, PrintStands DEF driverVars
<1> QED
  BY <1>2, <1>4, <1>5, <1>6, <1>7 DEF PtyInv
-----------------------------------------------------------------------------
(* The invariant. *)

(* Before the first question nothing is owed.                                *)
LEMMA InitPty == PtyInit => PtyInv
<1> SUFFICES ASSUME PtyInit PROVE PtyInv
  OBVIOUS
<1>1. Password \in Prompt /\ \A i \in DOMAIN prompts : prompts[i].marker \in Prompt
  BY TableFacts DEF PtyInit, IsTable, Prompt
<1>2. DriverTypes
  BY DEF PtyInit, DriverTypes
<1>3. TerminalTypes
  <2>1. screen = <<>> /\ typed = <<>> /\ heard = <<>>
    BY DEF PtyInit
  <2>2. /\ screen \in Seq(SUBSET (Prompt \cup Marker)) /\ typed \in Seq({Yes, Secret})
        /\ heard \in Seq([prompt : Prompt, line : {Yes, Secret}])
    BY <2>1
  <2>3. {late, accepted, refused, confirmed, held} \subseteq BOOLEAN
    BY DEF PtyInit
  <2>4. 0 \in 0 .. MaxAsk
    BY PtyAssumption
  <2> QED
    BY <2>2, <2>3, <2>4 DEF PtyInit, TerminalTypes
<1>4. Quiet
  BY <1>1 DEF PtyInit, Quiet, AllRead, Even
<1>5. InTurn
  BY <1>1, <1>4 DEF PtyInit, InTurn
<1>6. HeardRight
  BY DEF PtyInit, HeardRight, AnswersFit
<1>7. SignedUnlocked
  BY DEF PtyInit, SignedUnlocked
<1>8. PrintedHonestly
  BY DEF PtyInit, PrintedHonestly, MarksAreHonest, ScreenIsHonest, Honest
<1> QED
  BY <1>2, <1>3, <1>5, <1>6, <1>7, <1>8 DEF PtyInv, PtyTypes

(* A step of somebody else keeps the invariant.                              *)
LEMMA StutterPty == ASSUME PtyInv, UNCHANGED ptyVars PROVE PtyInv'
<1>1. UNCHANGED Talk /\ UNCHANGED <<pc, ready, end, late>>
  BY DEF ptyVars, driverVars, btcliVars, Talk
<1>2. DriverTypes' /\ late' \in BOOLEAN
  BY <1>1 DEF PtyInv, PtyTypes, DriverTypes, TerminalTypes, Talk, btcliVars
<1>3. end' = "rejected" => ~accepted /\ Stuck
  BY <1>1 DEF PtyInv, SignedUnlocked, Stuck
<1>4. Read => pc' \notin {"poll", "reap"}
  BY <1>1 DEF Read
<1> QED
  BY <1>1, <1>2, <1>3, <1>4, TalkStands

(* Every step keeps the invariant.                                           *)
LEMMA NextPty == PtyInv /\ [PtyNext]_ptyVars => PtyInv'
<1> SUFFICES ASSUME PtyInv, [PtyNext]_ptyVars PROVE PtyInv'
  OBVIOUS
<1>1. CASE Loop
  BY <1>1, StepGiveUp, StepRead, StepReadEnd, StepSilent, StepWriteAnswer, StepReject, StepNothing,
     StepReap DEF Loop
<1>2. CASE HangUp \/ Return \/ DeadlinePasses
  BY <1>2, StepLeave
<1>3. CASE BtcliStep
  <2>1. CASE \E text \in Texts : WriteOut(text)
    BY <2>1, StepWriteOut
  <2>2. CASE Submit
    BY <2>2, StepChain
  <2> QED
    BY <1>3, <2>1, <2>2, StepAsk, StepReadLine, StepExit DEF BtcliStep, Texts
<1>4. CASE ChainSettles
  BY <1>4, StepChain
<1>5. CASE UNCHANGED ptyVars
  BY <1>5, StutterPty
<1> QED
  BY <1>1, <1>2, <1>3, <1>4, <1>5 DEF PtyNext, DriverStep

-----------------------------------------------------------------------------
(* The results. *)

(* Driver, terminal and btcli keep their types.                              *)
THEOREM PtyTypeCorrect == PtySpec => []PtyTypes
<1>1. PtyInv => PtyTypes
  BY DEF PtyInv
<1> QED
  BY <1>1, InitPty, NextPty, PTL DEF PtySpec

(* No line reaches another question than its own, and the unlock value is    *)
(* read once at most.                                                        *)
THEOREM AnswersAlwaysFit == PtySpec => []AnswersFit
<1>1. PtyInv => AnswersFit
  BY DEF PtyInv, HeardRight
<1> QED
  BY <1>1, InitPty, NextPty, PTL DEF PtySpec

(* btcli is never left at a question with nothing typed and nothing to read. *)
THEOREM NeverStalled == PtySpec => []NoStall
<1>1. PtyInv => NoStall
  BY DEF PtyInv, InTurn, Unread, OneUnread, Read, Quiet, NoStall
<1> QED
  BY <1>1, InitPty, NextPty, PTL DEF PtySpec

(* A verdict the chain bears out.                                            *)
BorneOut == \/ Verdict \in {"running", "unknown", "crash"}
            \/ Verdict = "success" /\ tx = "landed"
            \/ Verdict = "failure" /\ tx \in {"none", "dropped"}

(* What the signer reads of an honest transcript is a verdict the chain      *)
(* bears out.                                                                *)
LEMMA VerdictIsHonest == PtyInv => BorneOut /\ (Verdict = "running" <=> pc # "done")
<1> SUFFICES ASSUME PtyInv PROVE BorneOut /\ (Verdict = "running" <=> pc # "done")
  OBVIOUS
<1> USE DEF BorneOut
<1>1. /\ "ok" \in marks => tx = "landed"
      /\ "fail" \in marks => NeverOn \/ "shield" \in marks \/ "ok" \in marks
      /\ marks \cap {"nothing", "words"} # {} => NeverOn
      /\ marks \cap {"benign", "shield"} # {} => prompts = UnstakePrompts
  BY DEF PtyInv, PrintedHonestly, MarksAreHonest, Honest
<1>2. TransferPrompts # UnstakePrompts
  <2>1. TransferPrompts[1].marker = "transfer?" /\ UnstakePrompts[1].marker = "hotkey?"
    BY DEF TransferPrompts, UnstakePrompts, Entry
  <2> QED
    BY <2>1
<1>3. CASE pc # "done"
  BY <1>3 DEF Verdict
<1>4. CASE pc = "done" /\ end = "crash"
  BY <1>4 DEF Verdict
<1>5. CASE pc = "done" /\ end = "rejected"
  BY <1>5 DEF Verdict, PtyInv, SignedUnlocked
<1>6. CASE pc = "done" /\ end \notin {"crash", "rejected"} /\ prompts = TransferPrompts
  <2>1. Verdict = ParseTransfer(marks)
    BY <1>6 DEF Verdict
  <2> QED
    BY <1>1, <1>2, <1>6, <2>1 DEF ParseTransfer, NeverOn
<1>7. CASE pc = "done" /\ end \notin {"crash", "rejected"} /\ prompts # TransferPrompts
  <2>1. Verdict = ParseUnstake(marks)
    BY <1>7 DEF Verdict
  <2> QED
    BY <1>1, <1>7, <2>1 DEF ParseUnstake, NeverOn
<1> QED
  BY <1>3, <1>4, <1>5, <1>6, <1>7

(* The same of the state a step leads to.                                    *)
LEMMA VerdictIsHonestThen == (PtyInv => BorneOut /\ (Verdict = "running" <=> pc # "done"))'
BY VerdictIsHonest, PTL

(* A run's result is decided once, when the driver returns.                  *)
LEMMA VerdictStands ==
    ASSUME PtyInv, [PtyNext]_ptyVars, pc' = pc
    PROVE  Verdict' = Verdict
<1>1. CASE pc = "done"
  <2>1. UNCHANGED driverVars
    BY <1>1 DEF PtyNext, DriverStep, Loop, GiveUpOnBtcli, ReadChunk, ReadEnd, SelectSilent, WriteAnswer,
       RejectUnlock, NothingToAnswer, Reap, HangUp, Return, DeadlinePasses, BtcliStep, Ask, ReadLine,
       Submit, Exit, WriteOut, ChainSettles, ptyVars
  <2> QED
    BY <2>1 DEF driverVars, Verdict
<1>2. CASE pc # "done"
  BY <1>2 DEF Verdict
<1> QED
  BY <1>1, <1>2

(* Driver, terminal and parsers implement a run.                             *)
THEOREM DriverImplementsRun == PtySpec => ImplementsRun
<1>1. PtyInit => OneRun!RunInit
  BY DEF PtyInit, OneRun!RunInit, Verdict
<1>2. PtyInv /\ PtyInv' /\ [PtyNext]_ptyVars => [OneRun!RunNext]_OneRun!runVars
  <2> SUFFICES ASSUME PtyInv, PtyInv', [PtyNext]_ptyVars PROVE [OneRun!RunNext]_OneRun!runVars
    OBVIOUS
  <2>1. CASE Submit
    <3>1. pc' = pc /\ tx = "none" /\ tx' = "submitted" /\ pc # "done"
      BY <2>1 DEF Submit, driverVars, Busy, PtyInv, PtyTypes, DriverTypes
    <3>2. Verdict' = Verdict /\ Verdict = "running"
      BY <3>1, VerdictStands, VerdictIsHonest
    <3> QED
      BY <3>1, <3>2 DEF OneRun!RunNext, OneRun!Submits
  <2>2. CASE ChainSettles
    <3>1. pc' = pc /\ tx = "submitted" /\ tx' \in {"landed", "dropped"}
      BY <2>2 DEF ChainSettles, driverVars
    <3>2. Verdict' = Verdict
      BY <3>1, VerdictStands
    <3> QED
      BY <3>1, <3>2 DEF OneRun!RunNext, OneRun!Settles
  <2>3. CASE Return
    <3>1. pc = "wait" /\ pc' = "done" /\ tx' = tx
      BY <2>3 DEF Return
    <3>2. Verdict = "running"
      BY <3>1, VerdictIsHonest
    <3>3. \/ Verdict' \in {"unknown", "crash"}
          \/ Verdict' = "success" /\ tx = "landed"
          \/ Verdict' = "failure" /\ tx \in {"none", "dropped"}
      <4>1. BorneOut' /\ Verdict' # "running"
        BY <3>1, VerdictIsHonestThen
      <4> QED
        BY <3>1, <4>1 DEF BorneOut
    <3> QED
      BY <3>1, <3>2, <3>3 DEF OneRun!RunNext, OneRun!RunEnds, OneRun!Succeeds, OneRun!Fails, OneRun!Doubts
  <2>4. CASE ~Submit /\ ~ChainSettles /\ ~Return
    <3>1. tx' = tx
      BY <2>4 DEF PtyNext, DriverStep, Loop, GiveUpOnBtcli, ReadChunk, ReadEnd, SelectSilent, WriteAnswer,
         RejectUnlock, NothingToAnswer, Reap, HangUp, DeadlinePasses, BtcliStep, Ask, ReadLine, Exit,
         WriteOut, ptyVars
    <3>2. pc' # "done" \/ pc' = pc
      BY <2>4 DEF PtyNext, DriverStep, Loop, GiveUpOnBtcli, ReadChunk, ReadEnd, SelectSilent, WriteAnswer,
         RejectUnlock, NothingToAnswer, NextRound, Finish, Reap, HangUp, DeadlinePasses, BtcliStep, Ask,
         ReadLine, Exit, WriteOut, ptyVars, driverVars
    <3>3. pc = "done" => pc' = "done"
      BY <2>4 DEF PtyNext, DriverStep, Loop, GiveUpOnBtcli, ReadChunk, ReadEnd, SelectSilent, WriteAnswer,
         RejectUnlock, NothingToAnswer, Reap, HangUp, DeadlinePasses, BtcliStep, Ask, ReadLine, Exit,
         WriteOut, ptyVars, driverVars
    <3>4. Verdict' = Verdict
      <4>1. CASE pc' = pc
        BY <4>1, VerdictStands
      <4>2. CASE pc' # "done"
        BY <3>3, <4>2 DEF Verdict
      <4> QED
        BY <3>2, <4>1, <4>2
    <3> QED
      BY <3>1, <3>4 DEF OneRun!runVars
  <2> QED
    BY <2>1, <2>2, <2>3, <2>4
<1> QED
  BY <1>1, <1>2, InitPty, NextPty, PTL DEF PtySpec, ImplementsRun, OneRun!RunSpec
=============================================================================
