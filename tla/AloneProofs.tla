----------------------------- MODULE AloneProofs -----------------------------
(* Proofs about the components that share no state with any other: how      *)
(* often TaoStats is asked, by the token bucket; how old an answer is       *)
(* served, by the price cache; who reaches a handler, and how many          *)
(* passwords are looked at, by the login; what becomes of each cent, by the *)
(* arithmetic of the Fund. For any number of callers, readers, browsers and *)
(* persons, any capacity, window, session and amounts.                      *)
EXTENDS RateLimiter, AlphaPrice, Login, FundShares, SequenceTheorems, Sums

-----------------------------------------------------------------------------
(* The bucket. Its state is one figure, the debt: the wall-clock time at    *)
(* which the token drawn last is refilled. Each token drawn adds a refill   *)
(* to it, and a caller that sleeps sleeps until what the debt is then, by   *)
(* the clock that goes on.                                                  *)

Debt == last_refill - tokens

(* How far the wall clock has been set back.                                *)
SetBack == now - wall

Until(c)      == call[c].until
Later(c)      == {x \in Asleep : Until(x) > Until(c)}
Earlier(c)    == {x \in Asleep : Until(x) < Until(c)}
Between(d, c) == {x \in Asleep : Until(d) <= Until(x) /\ Until(x) < Until(c)}

(* The ticks that n tokens take.                                            *)
Ticks(n) == Refill * n

IsCall(r) == {"pc", "until"} \subseteq DOMAIN r

RateTypes ==
    /\ now \in Nat /\ wall \in Int /\ wall <= now
    /\ tokens \in Int /\ last_refill \in Int
    /\ DOMAIN call = Caller /\ \A c \in Caller : IsCall(call[c])
    /\ IsFiniteSet(Asleep)
    /\ \A c \in Asleep : Until(c) \in Int /\ Until(c) >= now
    /\ drawn \in Seq(Int)

(* No two wake at once, and between two of them there is a refill for each. *)
Spaced ==
    /\ \A c, d \in Asleep : c # d => Until(c) # Until(d)
    /\ \A c, d \in Asleep : Until(d) < Until(c) =>
           Until(c) - Until(d) >= Ticks(Cardinality(Between(d, c)))

(* The debt is that of the sleepers: who sleeps has drawn all but the tokens *)
(* of those that came later.                                                *)
DebtIsSlept ==
    /\ Debt <= now + Ticks(Cardinality(Asleep))
    /\ \A c \in Asleep :
           LET own == Debt - Ticks(Cardinality(Later(c)))
           IN  own <= Until(c) /\ Until(c) <= own + SetBack

(* What was sent was paid for: each token since then, sent or slept for,    *)
(* came a refill later, but for what a full bucket held.                    *)
Full == Ticks(Capacity - 1)
SentInTime ==
    \A k \in DOMAIN drawn :
        /\ drawn[k] <= Full + Debt + SetBack - Ticks(Len(drawn) - k + Cardinality(Asleep))
        /\ \A c \in Asleep :
               drawn[k] <= Full + Until(c) - Ticks(Len(drawn) - k + Cardinality(Earlier(c)) + 1)

RateInv == RateTypes /\ Spaced /\ DebtIsSlept /\ SentInTime /\ CallsKeepTheRate

----------------------------------------------------------------------------
(* Arithmetic.                                                              *)

(* Ticks add up.                                                            *)
LEMMA TicksAdd ==
    ASSUME NEW a \in Int, NEW b \in Int
    PROVE  /\ Ticks(a) \in Int
           /\ Ticks(a + b) = Ticks(a) + Ticks(b) /\ Ticks(a - b) = Ticks(a) - Ticks(b)
BY RateAssumption DEF Ticks

(* No product of naturals is negative, and it grows with its factors.       *)
LEMMA ProductGrows ==
    ASSUME NEW a \in Nat, NEW b \in Nat
    PROVE  a * b \in Nat /\ (b # 0 => a * b >= a)
<1>1. a * b \in Nat
  OBVIOUS
<1>2. CASE b \in Nat \ {0}
  <2>1. a * (b - 1) = a * b - a
    BY <1>2
  <2>2. b - 1 \in Nat
    BY <1>2
  <2>3. \A c \in Nat : a * c >= 0
    OBVIOUS
  <2>4. a * (b - 1) >= 0
    BY <2>2, <2>3
  <2> QED
    BY <1>1, <2>1, <2>4
<1> QED
  BY <1>1, <1>2

(* A token takes a refill, none take none, and nobody waits less than none. *)
LEMMA TicksOf ==
    /\ Ticks(0) = 0 /\ Ticks(1) = Refill
    /\ \A n \in Nat : Ticks(n) \in Nat
    /\ \A n \in Nat \ {0} : Ticks(n) >= Refill
    /\ Refill \in Nat \ {0} /\ Full \in Nat
    /\ Capacity \in Nat \ {0} /\ Capacity * Refill = Full + Refill
<1>1. /\ Ticks(0) = 0 /\ Ticks(1) = Refill /\ Refill \in Nat \ {0} /\ Capacity \in Nat \ {0}
  BY RateAssumption DEF Ticks
<1>2. \A n \in Nat : Ticks(n) \in Nat
  BY <1>1, ProductGrows DEF Ticks
<1>3. \A n \in Nat \ {0} : Ticks(n) >= Refill
  BY <1>1, ProductGrows DEF Ticks
<1>4. Full \in Nat
  BY <1>1, <1>2 DEF Full
<1>5. Capacity * Refill = Full + Refill
  BY <1>1 DEF Full, Ticks
<1> QED
  BY <1>1, <1>2, <1>3, <1>4, <1>5

(* One more token, one more refill.                                         *)
LEMMA TicksNext ==
    ASSUME NEW a \in Int, NEW b \in Int, b = a + 1
    PROVE  Ticks(a) \in Int /\ Ticks(b) \in Int /\ Ticks(b) = Ticks(a) + Refill
<1>1. Ticks(a) \in Int /\ Ticks(a + 1) \in Int /\ Ticks(a + 1) = Ticks(a) + Ticks(1)
  BY TicksAdd
<1> QED
  BY <1>1, TicksOf

----------------------------------------------------------------------------
(* What the steps do to sleepers and debt.                                  *)

(* The counts of sleepers are numbers.                                      *)
LEMMA Counts ==
    ASSUME RateTypes
    PROVE  /\ Cardinality(Asleep) \in Nat
           /\ \A c, d : /\ Cardinality(Later(c)) \in Nat /\ Cardinality(Earlier(c)) \in Nat
                        /\ Cardinality(Between(d, c)) \in Nat
<1>1. IsFiniteSet(Asleep)
  BY DEF RateTypes
<1>2. \A S \in SUBSET Asleep : Cardinality(S) \in Nat
  BY <1>1, FS_Subset, FS_CardinalityType
<1> QED
  BY <1>2 DEF Later, Earlier, Between

(* What is in the bucket: the time since the debt, up to a full bucket.     *)
LEMMA RefilledIs ==
    ASSUME RateTypes
    PROVE  /\ Debt \in Int /\ SetBack \in Nat /\ Refilled \in Int
           /\ Refilled = Least(Full + Refill, wall - Debt)
<1>1. Debt \in Int /\ SetBack \in Nat
  BY DEF RateTypes, Debt, SetBack
<1>2. tokens + (wall - last_refill) = wall - Debt /\ wall - Debt \in Int
  BY DEF RateTypes, Debt
<1> QED
  BY <1>1, <1>2, TicksOf DEF Refilled, Least

(* A caller goes to sleep, behind everyone who sleeps.                      *)
Joins(e) ==
    /\ e \in Caller /\ e \notin Asleep /\ Asleep' = Asleep \cup {e}
    /\ \A x \in Asleep : Until(x)' = Until(x)
    /\ Until(e)' = Debt + Refill + SetBack
    /\ Debt' = Debt + Refill /\ SetBack' = SetBack
    /\ UNCHANGED <<now, drawn>>

(* No caller's record but its own changes, and of that two fields.          *)
LEMMA CallAfter ==
    ASSUME RateTypes, NEW c \in Caller, NEW p, NEW u,
           call' = [call EXCEPT ![c].pc = p, ![c].until = u]
    PROVE  /\ DOMAIN call' = Caller /\ \A x \in Caller : IsCall(call'[x])
           /\ call'[c].pc = p /\ call'[c].until = u
           /\ \A x \in Caller \ {c} : call'[x] = call[x]
<1>1. DOMAIN call = Caller /\ \A x \in Caller : IsCall(call[x])
  BY DEF RateTypes
<1>2. call'[c] = [call[c] EXCEPT !.pc = p, !.until = u]
  BY <1>1
<1>3. {"pc", "until"} \subseteq DOMAIN call[c]
  BY <1>1 DEF IsCall
<1>4. DOMAIN call'[c] = DOMAIN call[c] /\ call'[c].pc = p /\ call'[c].until = u
  BY <1>2, <1>3
<1>5. IsCall(call'[c])
  BY <1>3, <1>4 DEF IsCall
<1>6. DOMAIN call' = Caller /\ \A x \in Caller \ {c} : call'[x] = call[x]
  BY <1>1
<1> QED
  BY <1>1, <1>4, <1>5, <1>6

(* A caller that finds no token joins the sleepers, types kept.             *)
LEMMA AcquireLaterJoins ==
    ASSUME RateInv, NEW e \in Caller, AcquireLater(e)
    PROVE  Joins(e) /\ RateTypes'
<1>1. RateTypes
  BY DEF RateInv
<1>2. /\ call[e].pc = "idle" /\ Refilled < Refill
      /\ tokens' = 0 /\ last_refill' = wall + (Refill - Refilled)
      /\ call' = [call EXCEPT ![e].pc = "asleep", ![e].until = now + (Refill - Refilled)]
      /\ UNCHANGED <<now, wall, drawn>>
  BY DEF AcquireLater
<1>3. Refilled = wall - Debt /\ Debt \in Int /\ SetBack \in Nat
  BY <1>1, <1>2, RefilledIs, TicksOf DEF Least, RateTypes
<1>4. /\ DOMAIN call' = Caller /\ \A x \in Caller : IsCall(call'[x])
      /\ call'[e].pc = "asleep" /\ call'[e].until = now + (Refill - Refilled)
      /\ \A x \in Caller \ {e} : call'[x] = call[x]
  BY <1>1, <1>2, CallAfter
<1>5. e \notin Asleep /\ Asleep' = Asleep \cup {e} /\ \A x \in Asleep : Until(x)' = Until(x)
  BY <1>2, <1>4 DEF Asleep, Until
<1>6. Until(e)' = Debt + Refill + SetBack
  <2>1. Until(e)' = now + (Refill - Refilled)
    BY <1>4 DEF Until
  <2>2. SetBack = now - wall /\ now \in Nat /\ wall \in Int
    BY <1>1 DEF SetBack, RateTypes
  <2> QED
    BY <1>3, <2>1, <2>2, TicksOf
<1>7. Debt' = Debt + Refill /\ SetBack' = SetBack
  <2>1. SetBack' = SetBack
    BY <1>2 DEF SetBack
  <2>2. wall \in Int /\ Refill \in Int /\ Refilled \in Int
    BY <1>1, RefilledIs, TicksOf DEF RateTypes
  <2>3. wall + (Refill - Refilled) - 0 = wall + (Refill - Refilled)
    BY <2>2
  <2>4. Debt' = last_refill' - tokens'
    BY DEF Debt
  <2>5. Debt' = wall + (Refill - Refilled)
    BY <1>2, <2>2, <2>3, <2>4
  <2> QED
    BY <1>3, <2>1, <2>2, <2>5
<1>8. Joins(e)
  BY <1>2, <1>5, <1>6, <1>7 DEF Joins
<1>9. RateTypes'
  <2>1. IsFiniteSet(Asleep')
    BY <1>1, <1>5, FS_AddElement DEF RateTypes
  <2>2. Until(e)' \in Int /\ Until(e)' >= now
    BY <1>1, <1>2, <1>3, <1>4, TicksOf, SMTT(30) DEF Until, RateTypes
  <2>3. last_refill' \in Int /\ tokens' \in Int
    BY <1>1, <1>2, <1>3, TicksOf DEF RateTypes
  <2> QED
    BY <1>1, <1>2, <1>4, <1>5, <2>1, <2>2, <2>3 DEF RateTypes
<1> QED
  BY <1>8, <1>9

(* A caller sends on a token the bucket had: nobody sleeps then.            *)
Draws ==
    /\ Asleep = {} /\ Asleep' = {}
    /\ Debt' >= Debt + Refill /\ now <= Full + Debt' + SetBack /\ Debt' + SetBack <= now
    /\ SetBack' = SetBack /\ now' = now
    /\ drawn' = Append(drawn, now)

(* A caller that finds a token draws it, types kept.                        *)
LEMMA AcquireNowDraws ==
    ASSUME RateInv, NEW c \in Caller, AcquireNow(c)
    PROVE  Draws /\ RateTypes'
<1>1. RateTypes
  BY DEF RateInv
<1>2. /\ call[c].pc = "idle" /\ Refilled >= Refill
      /\ tokens' = Refilled - Refill /\ last_refill' = wall
      /\ call' = [call EXCEPT ![c].pc = "sent"]
      /\ drawn' = Append(drawn, now)
      /\ UNCHANGED <<now, wall>>
  BY DEF AcquireNow, Send
<1>3. /\ Debt \in Int /\ SetBack \in Nat /\ Refilled \in Int /\ wall \in Int /\ now \in Nat
      /\ Refilled <= wall - Debt /\ Refilled <= Full + Refill
      /\ Full \in Nat /\ Refill \in Nat \ {0}
      /\ now = wall + SetBack
  <2>1. wall \in Int /\ now \in Nat /\ now = wall + SetBack
    BY <1>1 DEF RateTypes, SetBack
  <2>2. Debt \in Int /\ SetBack \in Nat /\ Refilled = Least(Full + Refill, wall - Debt)
    BY <1>1, RefilledIs
  <2> QED
    BY <2>1, <2>2, TicksOf DEF Least
<1>4. Asleep = {}
  <2> SUFFICES ASSUME NEW x \in Asleep PROVE FALSE
    OBVIOUS
  <2>1. Until(x) >= now /\ Until(x) \in Int
    BY <1>1 DEF RateTypes
  <2>2. Until(x) <= Debt - Ticks(Cardinality(Later(x))) + SetBack
    BY DEF RateInv, DebtIsSlept
  <2>3. Ticks(Cardinality(Later(x))) \in Nat
    BY <1>1, Counts, TicksOf
  <2>4. Refilled >= Refill
    BY <1>2
  <2>5. Refill <= wall - Debt
    BY <1>3, <2>4
  <2>6. Until(x) <= Debt + SetBack
    BY <1>3, <2>1, <2>2, <2>3
  <2> QED
    BY <1>3, <2>1, <2>5, <2>6
<1>5. DOMAIN call = Caller /\ \A x \in Caller : IsCall(call[x])
  BY <1>1 DEF RateTypes
<1>6. /\ DOMAIN call' = Caller /\ \A x \in Caller : IsCall(call'[x])
      /\ call'[c].pc = "sent" /\ \A x \in Caller \ {c} : call'[x] = call[x]
  <2>1. call'[c] = [call[c] EXCEPT !.pc = "sent"]
    BY <1>2, <1>5
  <2>2. {"pc", "until"} \subseteq DOMAIN call[c]
    BY <1>5 DEF IsCall
  <2>3. DOMAIN call'[c] = DOMAIN call[c] /\ call'[c].pc = "sent"
    BY <2>1, <2>2
  <2> QED
    BY <1>2, <1>5, <2>2, <2>3 DEF IsCall
<1>7. Asleep' = {}
  BY <1>4, <1>6 DEF Asleep
<1>8. Debt' = wall - Refilled + Refill /\ SetBack' = SetBack
  BY <1>2, <1>3 DEF Debt, SetBack
<1>9. Draws
  BY <1>2, <1>3, <1>4, <1>7, <1>8, SMTT(30) DEF Draws
<1>10. RateTypes'
  <2>1. drawn' \in Seq(Int)
    BY <1>1, <1>2 DEF RateTypes
  <2>2. IsFiniteSet(Asleep')
    BY <1>7, FS_EmptySet
  <2>3. tokens' \in Int /\ last_refill' \in Int
    BY <1>2, <1>3
  <2> QED
    BY <1>1, <1>2, <1>6, <1>7, <2>1, <2>2, <2>3 DEF RateTypes
<1> QED
  BY <1>9, <1>10

(* The sleeper whose time has come is the first of them, and sends.         *)
Wakes(d) ==
    /\ d \in Asleep /\ Asleep' = Asleep \ {d} /\ Until(d) = now
    /\ \A x \in Asleep \ {d} : Until(x)' = Until(x) /\ Until(x) > now
    /\ Debt' = Debt /\ SetBack' = SetBack /\ now' = now
    /\ drawn' = Append(drawn, now)

(* A caller that wakes is such a sleeper, types kept.                       *)
LEMMA WakeUpWakes ==
    ASSUME RateInv, NEW d \in Caller, WakeUp(d)
    PROVE  Wakes(d) /\ RateTypes'
<1>1. RateTypes
  BY DEF RateInv
<1>2. /\ call[d].pc = "asleep" /\ Until(d) <= now
      /\ call' = [call EXCEPT ![d].pc = "sent", ![d].until = 0]
      /\ drawn' = Append(drawn, now)
      /\ UNCHANGED <<now, wall, tokens, last_refill>>
  BY DEF WakeUp, Due, Send, Until
<1>3. d \in Asleep
  BY <1>2 DEF Asleep
<1>4. Until(d) = now
  BY <1>1, <1>2, <1>3 DEF RateTypes
<1>5. \A x \in Asleep \ {d} : Until(x) > now
  BY <1>1, <1>3, <1>4 DEF RateInv, Spaced, RateTypes
<1>6. /\ DOMAIN call' = Caller /\ \A x \in Caller : IsCall(call'[x])
      /\ call'[d].pc = "sent" /\ \A x \in Caller \ {d} : call'[x] = call[x]
  BY <1>1, <1>2, CallAfter
<1>7. Asleep' = Asleep \ {d} /\ \A x \in Asleep \ {d} : Until(x)' = Until(x)
  BY <1>2, <1>6 DEF Asleep, Until
<1>8. Wakes(d)
  BY <1>2, <1>3, <1>4, <1>5, <1>7 DEF Wakes, Debt, SetBack
<1>9. RateTypes'
  <2>1. drawn' \in Seq(Int)
    BY <1>1, <1>2 DEF RateTypes
  <2>2. IsFiniteSet(Asleep')
    BY <1>1, <1>7, FS_Subset DEF RateTypes
  <2> QED
    BY <1>1, <1>2, <1>6, <1>7, <2>1, <2>2 DEF RateTypes
<1> QED
  BY <1>8, <1>9

----------------------------------------------------------------------------
(* A caller goes to sleep.                                                  *)

(* Everyone who sleeps wakes by the debt's time.                            *)
LEMMA SleepersInDebt ==
    ASSUME RateInv, NEW c \in Asleep
    PROVE  /\ Until(c) \in Int /\ Debt \in Int /\ SetBack \in Nat
           /\ Until(c) <= Debt + SetBack
<1>1. RateTypes
  BY DEF RateInv
<1>2. Until(c) \in Int /\ Debt \in Int /\ SetBack \in Nat
  BY <1>1, RefilledIs DEF RateTypes
<1>3. Ticks(Cardinality(Later(c))) \in Nat
  BY <1>1, Counts, TicksOf
<1>4. Until(c) <= Debt - Ticks(Cardinality(Later(c))) + SetBack
  BY DEF RateInv, DebtIsSlept
<1> QED
  BY <1>2, <1>3, <1>4

(* Who joins is later than all, and between the others nothing changes.     *)
LEMMA JoinsSets ==
    ASSUME RateInv, NEW e, Joins(e)
    PROVE  /\ \A c \in Asleep :
                  /\ Until(c)' = Until(c) /\ Until(c) < Until(e)'
                  /\ Later(c)' = Later(c) \cup {e} /\ Earlier(c)' = Earlier(c)
                  /\ \A d \in Asleep : Between(d, c)' = Between(d, c)
                  /\ Between(c, e)' = Later(c) \cup {c}
           /\ Later(e)' = {} /\ Earlier(e)' = Asleep
<1>1. /\ e \notin Asleep /\ Asleep' = Asleep \cup {e}
      /\ \A x \in Asleep : Until(x)' = Until(x)
      /\ Until(e)' = Debt + Refill + SetBack
  BY DEF Joins
<1>2. /\ \A x \in Asleep : Until(x) \in Int /\ Until(x) < Until(e)'
      /\ Until(e)' \in Int
  BY <1>1, SleepersInDebt, RefilledIs, TicksOf DEF RateInv
<1>3. \A c, d \in Asleep : c # d => Until(c) # Until(d)
  BY DEF RateInv, Spaced
<1>4. Later(e)' = {} /\ Earlier(e)' = Asleep
  BY <1>1, <1>2 DEF Later, Earlier
<1>5. ASSUME NEW c \in Asleep
      PROVE  /\ Later(c)' = Later(c) \cup {e} /\ Earlier(c)' = Earlier(c)
             /\ \A d \in Asleep : Between(d, c)' = Between(d, c)
  BY <1>1, <1>2 DEF Later, Earlier, Between
<1>6. ASSUME NEW c \in Asleep PROVE Between(c, e)' = Later(c) \cup {c}
  BY <1>1, <1>2, <1>3 DEF Later, Between
<1> QED
  BY <1>1, <1>2, <1>4, <1>5, <1>6

(* What that makes of the counts.                                           *)
LEMMA JoinsCounts ==
    ASSUME RateInv, NEW e, Joins(e)
    PROVE  /\ Cardinality(Asleep)' = Cardinality(Asleep) + 1
           /\ \A c \in Asleep :
                  /\ Cardinality(Later(c))' = Cardinality(Later(c)) + 1
                  /\ Cardinality(Between(c, e))' = Cardinality(Later(c)) + 1
<1>1. IsFiniteSet(Asleep) /\ e \notin Asleep /\ Asleep' = Asleep \cup {e}
  BY DEF RateInv, RateTypes, Joins
<1>2. ASSUME NEW c \in Asleep
      PROVE  IsFiniteSet(Later(c)) /\ e \notin Later(c) /\ c \notin Later(c)
  <2>1. IsFiniteSet(Later(c))
    BY <1>1, FS_Subset DEF Later
  <2>2. Until(c) \in Int
    BY SleepersInDebt
  <2> QED
    BY <1>1, <2>1, <2>2 DEF Later
<1> QED
  BY <1>1, <1>2, JoinsSets, FS_AddElement

(* Spacing.                                                                 *)
LEMMA JoinsSpaced == ASSUME RateInv, NEW e, Joins(e) PROVE Spaced'
<1>1. RateTypes /\ Spaced
  BY DEF RateInv
<1>2. /\ e \notin Asleep /\ Asleep' = Asleep \cup {e}
      /\ Until(e)' = Debt + Refill + SetBack
  BY DEF Joins
<1>3. ASSUME NEW c \in Asleep', NEW d \in Asleep', c # d PROVE Until(c)' # Until(d)'
  BY <1>1, <1>2, <1>3, JoinsSets, SleepersInDebt, RefilledIs, TicksOf DEF Spaced
<1>4. ASSUME NEW c \in Asleep', NEW d \in Asleep', Until(d)' < Until(c)'
      PROVE  Until(c)' - Until(d)' >= Ticks(Cardinality(Between(d, c))')
  <2>1. CASE c \in Asleep /\ d \in Asleep
    BY <1>1, <1>4, <2>1, JoinsSets DEF Spaced
  <2>2. CASE c = e /\ d \in Asleep
    <3> DEFINE n == Cardinality(Later(d))
    <3>1. Cardinality(Between(d, c))' = n + 1 /\ n \in Nat
      BY <1>1, <2>2, JoinsCounts, Counts
    <3>2. Ticks(n + 1) = Ticks(n) + Refill /\ Ticks(n) \in Int
      BY <3>1, TicksAdd, TicksOf
    <3>3. Until(d) <= Debt - Ticks(n) + SetBack
      BY <2>2 DEF RateInv, DebtIsSlept
    <3>4. Until(d)' = Until(d) /\ Until(d) \in Int /\ Debt \in Int /\ SetBack \in Nat
      BY <2>2, JoinsSets, SleepersInDebt
    <3> QED
      BY <1>2, <2>2, <3>1, <3>2, <3>3, <3>4, TicksOf
  <2>3. CASE d = e
    <3>1. c \in Asleep
      BY <1>1, <1>2, <1>4, <2>3, RefilledIs, TicksOf
    <3> QED
      BY <1>4, <2>3, <3>1, JoinsSets, SleepersInDebt, RefilledIs, TicksOf, <1>1, <1>2
  <2> QED
    BY <1>2, <2>1, <2>2, <2>3
<1> QED
  BY <1>3, <1>4 DEF Spaced, Ticks

(* The debt.                                                                *)
LEMMA JoinsDebt == ASSUME RateInv, NEW e, Joins(e) PROVE DebtIsSlept'
<1>1. RateTypes
  BY DEF RateInv
<1>2. /\ e \notin Asleep /\ Asleep' = Asleep \cup {e}
      /\ Until(e)' = Debt + Refill + SetBack /\ Debt' = Debt + Refill /\ SetBack' = SetBack
      /\ now' = now /\ now \in Nat
  BY <1>1 DEF Joins, RateTypes
<1>3. Debt \in Int /\ SetBack \in Nat /\ Refill \in Nat
  BY <1>1, RefilledIs, TicksOf
<1>4. Debt' <= now' + Ticks(Cardinality(Asleep)')
  <2> DEFINE n == Cardinality(Asleep)
  <2>1. Cardinality(Asleep)' = n + 1 /\ n \in Nat
    BY <1>1, JoinsCounts, Counts
  <2>2. Ticks(n + 1) = Ticks(n) + Refill /\ Ticks(n) \in Int
    BY <2>1, TicksAdd, TicksOf
  <2>3. Debt <= now + Ticks(n)
    BY DEF RateInv, DebtIsSlept
  <2> QED
    BY <1>2, <1>3, <2>1, <2>2, <2>3
<1>5. ASSUME NEW c \in Asleep'
      PROVE  /\ Debt' - Ticks(Cardinality(Later(c))') <= Until(c)'
             /\ Until(c)' <= Debt' - Ticks(Cardinality(Later(c))') + SetBack'
  <2>1. CASE c \in Asleep
    <3> DEFINE n == Cardinality(Later(c))
    <3>1. Cardinality(Later(c))' = n + 1 /\ n \in Nat
      BY <1>1, <2>1, JoinsCounts, Counts
    <3>2. Ticks(n + 1) = Ticks(n) + Refill /\ Ticks(n) \in Int
      BY <3>1, TicksAdd, TicksOf
    <3>3. Debt - Ticks(n) <= Until(c) /\ Until(c) <= Debt - Ticks(n) + SetBack
      BY <2>1 DEF RateInv, DebtIsSlept
    <3>4. Until(c)' = Until(c) /\ Until(c) \in Int
      BY <2>1, JoinsSets, SleepersInDebt
    <3> QED
      BY <1>2, <1>3, <3>1, <3>2, <3>3, <3>4
  <2>2. CASE c = e
    <3>1. Cardinality(Later(c))' = 0
      BY <2>2, JoinsSets, FS_EmptySet
    <3>2. Ticks(Cardinality(Later(c))') = 0
      BY <3>1, TicksOf
    <3> QED
      BY <1>2, <1>3, <2>2, <3>2
  <2> QED
    BY <1>2, <2>1, <2>2
<1> QED
  BY <1>4, <1>5 DEF DebtIsSlept, Ticks

(* What was sent before.                                                    *)
LEMMA JoinsSent == ASSUME RateInv, NEW e, Joins(e) PROVE SentInTime'
<1>1. RateTypes /\ SentInTime
  BY DEF RateInv
<1>2. /\ e \notin Asleep /\ Asleep' = Asleep \cup {e} /\ drawn' = drawn
      /\ Until(e)' = Debt + Refill + SetBack /\ Debt' = Debt + Refill /\ SetBack' = SetBack
  BY DEF Joins
<1>3. /\ Debt \in Int /\ SetBack \in Nat /\ Refill \in Nat /\ Full \in Nat
      /\ Len(drawn) \in Nat /\ \A k \in DOMAIN drawn : k \in Nat /\ drawn[k] \in Int
  BY <1>1, RefilledIs, TicksOf DEF RateTypes, Full, Ticks
<1> SUFFICES ASSUME NEW k \in DOMAIN drawn
             PROVE  /\ drawn[k] <= Full + Debt' + SetBack' - Ticks(Len(drawn) - k + Cardinality(Asleep)')
                    /\ \A c \in Asleep' :
                           drawn[k] <= Full + Until(c)' - Ticks(Len(drawn) - k + Cardinality(Earlier(c))' + 1)
  BY <1>2, <1>3 DEF SentInTime, Ticks
<1> DEFINE n == Len(drawn) - k + Cardinality(Asleep)
<1>4. n \in Int /\ Len(drawn) - k + Cardinality(Asleep)' = n + 1
  <2>1. Cardinality(Asleep)' = Cardinality(Asleep) + 1 /\ Cardinality(Asleep) \in Nat
    BY <1>1, JoinsCounts, Counts
  <2>2. Len(drawn) \in Nat /\ k \in Nat
    BY <1>3
  <2> QED
    BY <2>1, <2>2
<1>5. Ticks(n + 1) = Ticks(n) + Refill /\ Ticks(n) \in Int
  BY <1>4, TicksNext
<1>6. drawn[k] <= Full + Debt + SetBack - Ticks(n)
  BY <1>1 DEF SentInTime
<1> HIDE DEF n
<1>7. drawn[k] <= Full + Debt' + SetBack' - Ticks(Len(drawn) - k + Cardinality(Asleep)')
  BY <1>2, <1>3, <1>4, <1>5, <1>6
<1>8. ASSUME NEW c \in Asleep'
      PROVE  drawn[k] <= Full + Until(c)' - Ticks(Len(drawn) - k + Cardinality(Earlier(c))' + 1)
  <2>1. CASE c \in Asleep
    <3>1. Until(c)' = Until(c) /\ Earlier(c)' = Earlier(c)
      BY <2>1, JoinsSets
    <3> QED
      BY <1>1, <2>1, <3>1 DEF SentInTime
  <2>2. CASE c = e
    <3>1. Cardinality(Earlier(c))' = Cardinality(Asleep)
      BY <2>2, JoinsSets
    <3>2. Len(drawn) - k + Cardinality(Earlier(c))' + 1 = n + 1
      BY <3>1 DEF n
    <3> QED
      BY <1>2, <1>3, <1>5, <1>6, <2>2, <3>2
  <2> QED
    BY <1>2, <2>1, <2>2
<1> QED
  BY <1>7, <1>8

----------------------------------------------------------------------------
(* A request is sent, by who slept or by who need not.                      *)

(* The rate is kept when the new request is late enough for each before.    *)
LEMMA RateKept ==
    ASSUME RateTypes, CallsKeepTheRate, drawn' = Append(drawn, now),
           \A k \in DOMAIN drawn : drawn[k] <= Full + now - Ticks(Len(drawn) - k + 1)
    PROVE  CallsKeepTheRate'
<1> DEFINE n == Len(drawn)
<1>1. /\ drawn \in Seq(Int) /\ n \in Nat /\ now \in Nat /\ DOMAIN drawn = 1 .. n
  BY DEF RateTypes
<1> HIDE DEF n
<1>2. /\ DOMAIN drawn' = 1 .. n + 1
      /\ \A k \in 1 .. n : drawn'[k] = drawn[k] /\ drawn[k] \in Int
      /\ drawn'[n + 1] = now
  BY <1>1 DEF n
<1>3. Capacity \in Nat \ {0} /\ Full \in Nat
  BY TicksOf
<1>4. ASSUME NEW i \in 1 .. n PROVE now - drawn[i] >= (n + 1 - i + 1 - Capacity) * Refill
  <2>1. drawn[i] <= Full + now - Ticks(n - i + 1)
    BY <1>1 DEF n
  <2>2. PICK a \in Int, b \in Int : a = n - i + 1 /\ b = Capacity - 1
    <3>1. n - i + 1 \in Int /\ Capacity - 1 \in Int
      BY <1>1, <1>3
    <3> QED
      BY <3>1
  <2>3. Ticks(a - b) = Ticks(a) - Ticks(b) /\ Ticks(a) \in Int
    BY TicksAdd
  <2>4. Ticks(b) = Full
    BY <2>2 DEF Full
  <2>5. n + 1 - i + 1 - Capacity = a - b
    BY <1>1, <1>3, <2>2
  <2>6. (a - b) * Refill = Ticks(a - b)
    BY TicksOf DEF Ticks
  <2> QED
    BY <1>1, <1>2, <1>3, <2>1, <2>2, <2>3, <2>4, <2>5, <2>6, SMTT(30)
<1>5. ASSUME NEW i \in DOMAIN drawn', NEW j \in DOMAIN drawn', i < j
      PROVE  drawn'[j] - drawn'[i] >= (j - i + 1 - Capacity) * Refill
  <2>1. CASE j \in 1 .. n
    BY <1>1, <1>2, <1>5, <2>1 DEF CallsKeepTheRate
  <2>2. CASE j = n + 1
    BY <1>1, <1>2, <1>4, <1>5, <2>2
  <2> QED
    BY <1>1, <1>2, <2>1, <2>2
<1> QED
  BY <1>5 DEF CallsKeepTheRate

(* Nobody sleeps when a token is drawn at once.                             *)
LEMMA DrawsKeeps == ASSUME RateInv, Draws, RateTypes' PROVE RateInv'
<1>1. RateTypes /\ SentInTime /\ CallsKeepTheRate
  BY DEF RateInv
<1>2. /\ Asleep = {} /\ Asleep' = {} /\ Cardinality(Asleep) = 0 /\ Cardinality(Asleep)' = 0
      /\ drawn' = Append(drawn, now)
  BY FS_EmptySet DEF Draws
<1>3. PICK d \in Int : d = Debt'
  <2>1. Debt' \in Int
    BY DEF RateTypes, Debt
  <2> QED
    BY <2>1, Zenon
<1>31. SetBack' = SetBack /\ now' = now
  BY DEF Draws
<1>32. /\ d >= Debt + Refill /\ now <= Full + d + SetBack /\ d + SetBack <= now
      /\ Debt \in Int /\ SetBack \in Nat /\ now \in Nat
      /\ Refill \in Nat /\ Full \in Nat
  <2>1. d >= Debt + Refill /\ now <= Full + d + SetBack /\ d + SetBack <= now
    BY <1>3, Zenon DEF Draws
  <2>2. Debt \in Int /\ SetBack \in Nat /\ now \in Nat
    BY <1>1, RefilledIs DEF RateTypes
  <2> QED
    BY <2>1, <2>2, TicksOf
<1>4. /\ drawn \in Seq(Int) /\ Len(drawn) \in Nat /\ DOMAIN drawn = 1 .. Len(drawn)
      /\ DOMAIN drawn' = 1 .. Len(drawn) + 1 /\ Len(drawn') = Len(drawn) + 1
      /\ \A k \in DOMAIN drawn : drawn'[k] = drawn[k] /\ drawn[k] \in Int
      /\ drawn'[Len(drawn) + 1] = now
  BY <1>1, <1>2 DEF RateTypes
<1>5. ASSUME NEW k \in DOMAIN drawn
      PROVE  drawn[k] <= Full + Debt + SetBack - Ticks(Len(drawn) - k + 1) + Refill
  <2>1. /\ Len(drawn) - k \in Int /\ Len(drawn) - k + Cardinality(Asleep) = Len(drawn) - k
        /\ Len(drawn) - k + 1 \in Int
    BY <1>2, <1>4
  <2>2. Ticks(Len(drawn) - k + 1) = Ticks(Len(drawn) - k) + Refill /\ Ticks(Len(drawn) - k) \in Int
    BY <2>1, TicksNext
  <2>3. drawn[k] <= Full + Debt + SetBack - Ticks(Len(drawn) - k)
    BY <1>1, <2>1 DEF SentInTime
  <2> QED
    BY <1>32, <1>4, <2>2, <2>3
<1>6. Spaced'
  BY <1>2 DEF Spaced
<1>7. DebtIsSlept'
  <2>1. Ticks(Cardinality(Asleep)') = 0
    BY <1>2, TicksOf
  <2>2. d <= now + 0
    BY <1>32
  <2>3. Debt' <= now' + Ticks(Cardinality(Asleep)')
    BY <1>3, <1>31, <2>1, <2>2, Zenon
  <2> QED
    BY <1>2, <2>3 DEF DebtIsSlept, Ticks
<1>8. ASSUME NEW k \in DOMAIN drawn
      PROVE  /\ Ticks(Len(drawn) - k + 1) \in Int
             /\ drawn[k] <= Full + d + SetBack - Ticks(Len(drawn) - k + 1)
  <2>1. Len(drawn) - k + 1 \in Int
    BY <1>4
  <2>2. Ticks(Len(drawn) - k + 1) \in Int
    BY <2>1, TicksAdd
  <2> QED
    BY <1>32, <1>4, <1>5, <2>2
<1>9. CallsKeepTheRate'
  <2>1. \A k \in DOMAIN drawn : drawn[k] <= Full + now - Ticks(Len(drawn) - k + 1)
    BY <1>32, <1>4, <1>8
  <2> QED
    BY <1>1, <1>2, <2>1, RateKept
<1>10. SentInTime'
  <2>1. ASSUME NEW k \in DOMAIN drawn'
        PROVE  drawn'[k] <= Full + d + SetBack - Ticks(Len(drawn') - k + 0)
    <3>1. CASE k \in DOMAIN drawn
      <4>1. Len(drawn') - k + 0 = Len(drawn) - k + 1
        BY <1>4, <3>1
      <4> QED
        BY <1>4, <1>8, <3>1, <4>1
    <3>2. CASE k = Len(drawn) + 1
      <4>1. Len(drawn') - k + 0 = 0
        BY <1>4, <3>2
      <4>2. Ticks(Len(drawn') - k + 0) = 0
        BY <4>1, TicksOf
      <4>3. now <= Full + d + SetBack - 0
        BY <1>32
      <4> QED
        BY <1>4, <3>2, <4>2, <4>3
    <3> QED
      BY <1>4, <3>1, <3>2
  <2>2. ASSUME NEW k \in DOMAIN drawn'
        PROVE  drawn'[k] <= Full + Debt' + SetBack' - Ticks(Len(drawn') - k + Cardinality(Asleep)')
    BY <1>2, <1>3, <1>31, <2>1
  <2> QED
    BY <1>2, <2>2 DEF SentInTime, Ticks
<1> QED
  BY <1>6, <1>7, <1>9, <1>10 DEF RateInv

----------------------------------------------------------------------------
(* The first sleeper wakes and sends.                                       *)

(* It is nobody's later one, and everyone else's earlier one.               *)
LEMMA WakesSets ==
    ASSUME RateInv, NEW d, Wakes(d)
    PROVE  \A c \in Asleep \ {d} :
               /\ Until(c)' = Until(c) /\ c \in Asleep
               /\ Later(c)' = Later(c) /\ d \in Earlier(c) /\ Earlier(c)' = Earlier(c) \ {d}
               /\ Between(d, c) = Earlier(c)
               /\ \A e \in Asleep \ {d} : Between(e, c)' = Between(e, c)
<1>1. /\ d \in Asleep /\ Asleep' = Asleep \ {d} /\ Until(d) = now
      /\ \A x \in Asleep \ {d} : Until(x)' = Until(x) /\ Until(x) > now
  BY DEF Wakes
<1>2. now \in Nat /\ \A x \in Asleep : Until(x) \in Int
  BY DEF RateInv, RateTypes
<1> SUFFICES ASSUME NEW c \in Asleep \ {d}
             PROVE  /\ Until(c)' = Until(c) /\ c \in Asleep
                    /\ Later(c)' = Later(c) /\ d \in Earlier(c) /\ Earlier(c)' = Earlier(c) \ {d}
                    /\ Between(d, c) = Earlier(c)
                    /\ \A e \in Asleep \ {d} : Between(e, c)' = Between(e, c)
  OBVIOUS
<1>3. Until(c)' = Until(c) /\ c \in Asleep
  BY <1>1
<1>4. Later(c)' = Later(c)
  BY <1>1, <1>2 DEF Later
<1>5. d \in Earlier(c) /\ Earlier(c)' = Earlier(c) \ {d}
  BY <1>1, <1>2 DEF Earlier
<1>6. Between(d, c) = Earlier(c)
  BY <1>1, <1>2 DEF Between, Earlier
<1>7. ASSUME NEW e \in Asleep \ {d} PROVE Between(e, c)' = Between(e, c)
  BY <1>1, <1>2 DEF Between
<1> QED
  BY <1>3, <1>4, <1>5, <1>6, <1>7

(* What that makes of the counts.                                           *)
LEMMA WakesCounts ==
    ASSUME RateInv, NEW d, Wakes(d)
    PROVE  /\ Cardinality(Asleep)' = Cardinality(Asleep) - 1 /\ Cardinality(Asleep) \in Nat
           /\ \A c \in Asleep \ {d} :
                  /\ Cardinality(Earlier(c)) \in Nat
                  /\ Cardinality(Earlier(c))' = Cardinality(Earlier(c)) - 1
<1>1. IsFiniteSet(Asleep) /\ d \in Asleep /\ Asleep' = Asleep \ {d}
  BY DEF RateInv, RateTypes, Wakes
<1>2. \A c : IsFiniteSet(Earlier(c))
  BY <1>1, FS_Subset DEF Earlier
<1> QED
  BY <1>1, <1>2, WakesSets, FS_RemoveElement, FS_CardinalityType

(* Spacing.                                                                 *)
LEMMA WakesSpaced == ASSUME RateInv, NEW d, Wakes(d) PROVE Spaced'
<1>1. Spaced /\ Asleep' = Asleep \ {d}
  BY DEF RateInv, Wakes
<1> QED
  BY <1>1, WakesSets DEF Spaced, Ticks

(* The debt: what the one sleeper does not owe, the others do.              *)
LEMMA WakesDebt == ASSUME RateInv, NEW d, Wakes(d) PROVE DebtIsSlept'
<1>1. RateTypes /\ DebtIsSlept
  BY DEF RateInv
<1>2. /\ Asleep' = Asleep \ {d} /\ d \in Asleep /\ Until(d) = now
      /\ Debt' = Debt /\ SetBack' = SetBack /\ now' = now
  BY DEF Wakes
<1>3. /\ Debt \in Int /\ SetBack \in Nat /\ now \in Nat
  BY <1>1, RefilledIs DEF RateTypes
<1>4. Debt <= now + Ticks(Cardinality(Asleep) - 1)
  <2>1. Later(d) = Asleep \ {d}
    <3>1. \A x \in Asleep \ {d} : Until(x) > Until(d)
      BY <1>2, Zenon DEF Wakes
    <3>2. Until(d) \in Int
      BY <1>2, <1>3
    <3> QED
      BY <3>1, <3>2 DEF Later
  <2>2. Cardinality(Later(d)) = Cardinality(Asleep) - 1
    BY <1>2, <2>1, WakesCounts
  <2>3. Ticks(Cardinality(Later(d))) \in Int
    BY <1>1, Counts, TicksOf
  <2>4. Debt - Ticks(Cardinality(Later(d))) <= Until(d)
    BY <1>1, <1>2 DEF DebtIsSlept
  <2> QED
    BY <1>2, <1>3, <2>2, <2>3, <2>4
<1>5. Debt' <= now' + Ticks(Cardinality(Asleep)')
  BY <1>2, <1>4, WakesCounts
<1>6. ASSUME NEW c \in Asleep'
      PROVE  /\ Debt' - Ticks(Cardinality(Later(c))') <= Until(c)'
             /\ Until(c)' <= Debt' - Ticks(Cardinality(Later(c))') + SetBack'
  <2>1. c \in Asleep /\ Until(c)' = Until(c) /\ Later(c)' = Later(c)
    BY <1>2, WakesSets
  <2> QED
    BY <1>1, <1>2, <2>1 DEF DebtIsSlept
<1> QED
  BY <1>5, <1>6 DEF DebtIsSlept, Ticks

(* What is sent now, and what was sent before.                              *)
LEMMA WakesSent == ASSUME RateInv, NEW d, Wakes(d) PROVE SentInTime' /\ CallsKeepTheRate'
<1>1. RateTypes /\ SentInTime /\ CallsKeepTheRate /\ Spaced /\ DebtIsSlept
  BY DEF RateInv
<1>2. /\ Asleep' = Asleep \ {d} /\ d \in Asleep /\ Until(d) = now
      /\ Debt' = Debt /\ SetBack' = SetBack /\ now' = now /\ drawn' = Append(drawn, now)
  BY DEF Wakes
<1>3. /\ Debt \in Int /\ SetBack \in Nat /\ now \in Nat /\ Refill \in Nat /\ Full \in Nat
  BY <1>1, RefilledIs, TicksOf DEF RateTypes
<1>4. /\ drawn \in Seq(Int) /\ Len(drawn) \in Nat /\ DOMAIN drawn = 1 .. Len(drawn)
      /\ DOMAIN drawn' = 1 .. Len(drawn) + 1 /\ Len(drawn') = Len(drawn) + 1
      /\ \A k \in DOMAIN drawn : drawn'[k] = drawn[k] /\ drawn[k] \in Int
      /\ drawn'[Len(drawn) + 1] = now
  BY <1>1, <1>2 DEF RateTypes
<1>5. PICK n \in Nat : n = Cardinality(Asleep) /\ Cardinality(Asleep)' = n - 1
  BY WakesCounts
<1>6. ASSUME NEW k \in DOMAIN drawn
      PROVE  /\ drawn[k] <= Full + Debt + SetBack - Ticks(Len(drawn) - k + n)
             /\ drawn[k] <= Full + now - Ticks(Len(drawn) - k + 1)
  <2>1. drawn[k] <= Full + Debt + SetBack - Ticks(Len(drawn) - k + n)
    BY <1>1, <1>5 DEF SentInTime
  <2>2. Earlier(d) = {}
    BY <1>1, <1>2 DEF Earlier, RateTypes
  <2>3. Len(drawn) - k + Cardinality(Earlier(d)) + 1 = Len(drawn) - k + 1
    BY <1>4, <2>2, FS_EmptySet
  <2> QED
    BY <1>1, <1>2, <2>1, <2>3 DEF SentInTime
<1>7. CallsKeepTheRate'
  BY <1>1, <1>2, <1>6, RateKept
<1>8. ASSUME NEW k \in DOMAIN drawn'
      PROVE  drawn'[k] <= Full + Debt + SetBack - Ticks(Len(drawn') - k + (n - 1))
  <2>1. CASE k \in DOMAIN drawn
    <3>1. Len(drawn') - k + (n - 1) = Len(drawn) - k + n
      BY <1>4, <1>5, <2>1
    <3> QED
      BY <1>4, <1>6, <2>1, <3>1
  <2>2. CASE k = Len(drawn) + 1
    <3>1. Len(drawn') - k + (n - 1) = n - 1
      BY <1>4, <1>5, <2>2
    <3>2. now <= Full + Debt + SetBack - Ticks(n - 1)
      <4>1. Later(d) = Asleep \ {d}
        BY <1>2, <1>3 DEF Later, Wakes
      <4>2. Cardinality(Later(d)) = n - 1
        BY <1>2, <1>5, <4>1
      <4>3. Until(d) <= Debt - Ticks(n - 1) + SetBack
        BY <1>1, <1>2, <4>2 DEF DebtIsSlept
      <4>4. Ticks(n - 1) \in Int
        BY <1>5, TicksAdd
      <4> QED
        BY <1>2, <1>3, <4>3, <4>4
    <3> QED
      BY <1>4, <2>2, <3>1, <3>2
  <2> QED
    BY <1>4, <2>1, <2>2
<1>9. ASSUME NEW k \in DOMAIN drawn', NEW c \in Asleep \ {d}
      PROVE  drawn'[k] <= Full + Until(c) - Ticks(Len(drawn') - k + Cardinality(Earlier(c))' + 1)
  <2>1. PICK e \in Nat : e = Cardinality(Earlier(c)) /\ Cardinality(Earlier(c))' = e - 1
    BY WakesCounts
  <2>2. CASE k \in DOMAIN drawn
    <3>1. Len(drawn') - k + (e - 1) + 1 = Len(drawn) - k + e + 1
      BY <1>4, <2>1, <2>2
    <3>2. drawn[k] <= Full + Until(c) - Ticks(Len(drawn) - k + e + 1)
      BY <1>1, <2>1, <2>2 DEF SentInTime
    <3> QED
      BY <1>4, <2>1, <2>2, <3>1, <3>2
  <2>3. CASE k = Len(drawn) + 1
    <3>1. Len(drawn') - k + (e - 1) + 1 = e
      BY <1>4, <2>1, <2>3
    <3>2. now <= Full + Until(c) - Ticks(e)
      <4>1. Between(d, c) = Earlier(c) /\ Until(c) \in Int /\ Until(d) < Until(c)
        BY <1>1, <1>2, WakesSets DEF RateTypes, Wakes
      <4>2. Until(c) - Until(d) >= Ticks(e)
        BY <1>1, <1>2, <2>1, <4>1 DEF Spaced
      <4>3. Ticks(e) \in Int
        BY <2>1, TicksAdd
      <4> QED
        BY <1>2, <1>3, <4>1, <4>2, <4>3
    <3> QED
      BY <1>4, <2>1, <2>3, <3>1, <3>2
  <2> QED
    BY <1>4, <2>2, <2>3
<1>10. SentInTime'
  <2>1. ASSUME NEW k \in DOMAIN drawn'
        PROVE  drawn'[k] <= Full + Debt' + SetBack' - Ticks(Len(drawn') - k + Cardinality(Asleep)')
    BY <1>2, <1>5, <1>8
  <2>2. ASSUME NEW k \in DOMAIN drawn', NEW c \in Asleep'
        PROVE  drawn'[k] <= Full + Until(c)' - Ticks(Len(drawn') - k + Cardinality(Earlier(c))' + 1)
    <3>1. c \in Asleep \ {d} /\ Until(c)' = Until(c)
      BY <1>2, WakesSets
    <3> QED
      BY <1>9, <3>1
  <2> QED
    BY <2>1, <2>2 DEF SentInTime, Ticks, Full
<1> QED
  BY <1>7, <1>10

----------------------------------------------------------------------------
(* Every other step.                                                        *)

(* Sleepers and debt are left as they are, while real time goes on and the  *)
(* wall clock perhaps back.                                                 *)
Rests ==
    /\ Asleep' = Asleep /\ \A x \in Asleep : Until(x)' = Until(x)
    /\ Debt' = Debt /\ drawn' = drawn /\ now' >= now /\ SetBack' >= SetBack

(* Neither of the two adds to what the sleepers owe.                        *)
LEMMA RestsKeeps == ASSUME RateInv, Rests, RateTypes' PROVE RateInv'
<1>1. RateTypes /\ Spaced /\ DebtIsSlept /\ SentInTime /\ CallsKeepTheRate
  BY DEF RateInv
<1>2. /\ Asleep' = Asleep /\ \A x \in Asleep : Until(x)' = Until(x)
      /\ Debt' = Debt /\ drawn' = drawn
  BY DEF Rests
<1>3. now \in Nat /\ Debt \in Int /\ SetBack \in Nat /\ \A x \in Asleep : Until(x) \in Int
  BY <1>1, RefilledIs DEF RateTypes
<1>4. PICK t \in Nat, b \in Int : t = now' /\ b = SetBack'
  <2>1. now' \in Nat /\ SetBack' \in Int
    BY DEF RateTypes, SetBack
  <2> QED
    BY <2>1, Zenon
<1>5. t >= now /\ b >= SetBack
  BY <1>4, Zenon DEF Rests
<1>6. /\ \A c \in Asleep : Later(c)' = Later(c) /\ Earlier(c)' = Earlier(c)
      /\ \A c, d \in Asleep : Between(d, c)' = Between(d, c)
  BY <1>2 DEF Later, Earlier, Between
<1>7. Spaced'
  BY <1>1, <1>2, <1>6 DEF Spaced, Ticks
<1>8. DebtIsSlept'
  <2>1. Ticks(Cardinality(Asleep)) \in Nat
    BY <1>1, Counts, TicksOf
  <2>2. Debt <= t + Ticks(Cardinality(Asleep))
    BY <1>1, <1>3, <1>5, <2>1 DEF DebtIsSlept
  <2>3. ASSUME NEW c \in Asleep
        PROVE  /\ Debt - Ticks(Cardinality(Later(c))) <= Until(c)
               /\ Until(c) <= Debt - Ticks(Cardinality(Later(c))) + b
    <3>1. Ticks(Cardinality(Later(c))) \in Nat
      BY <1>1, Counts, TicksOf
    <3> QED
      BY <1>1, <1>3, <1>5, <3>1 DEF DebtIsSlept
  <2>4. Debt' <= now' + Ticks(Cardinality(Asleep)')
    BY <1>2, <1>4, <2>2
  <2>5. ASSUME NEW c \in Asleep'
        PROVE  /\ Debt' - Ticks(Cardinality(Later(c))') <= Until(c)'
               /\ Until(c)' <= Debt' - Ticks(Cardinality(Later(c))') + SetBack'
    BY <1>2, <1>4, <1>6, <2>3
  <2> QED
    BY <2>4, <2>5 DEF DebtIsSlept, Ticks
<1>9. SentInTime'
  <2>1. ASSUME NEW k \in DOMAIN drawn
        PROVE  drawn[k] <= Full + Debt + b - Ticks(Len(drawn) - k + Cardinality(Asleep))
    <3>1. k \in Int /\ Len(drawn) \in Int /\ Cardinality(Asleep) \in Int /\ drawn[k] \in Int
      BY <1>1, Counts DEF RateTypes
    <3>2. Len(drawn) - k + Cardinality(Asleep) \in Int
      BY <3>1
    <3>3. Ticks(Len(drawn) - k + Cardinality(Asleep)) \in Int /\ Full \in Nat
      BY <3>2, TicksAdd, TicksOf
    <3>4. drawn[k] <= Full + Debt + SetBack - Ticks(Len(drawn) - k + Cardinality(Asleep))
      BY <1>1 DEF SentInTime
    <3> QED
      BY <1>3, <1>5, <3>1, <3>3, <3>4
  <2>2. ASSUME NEW k \in DOMAIN drawn'
        PROVE  drawn'[k] <= Full + Debt' + SetBack' - Ticks(Len(drawn') - k + Cardinality(Asleep)')
    BY <1>2, <1>4, <2>1
  <2>3. ASSUME NEW k \in DOMAIN drawn', NEW c \in Asleep'
        PROVE  drawn'[k] <= Full + Until(c)' - Ticks(Len(drawn') - k + Cardinality(Earlier(c))' + 1)
    BY <1>1, <1>2, <1>6 DEF SentInTime
  <2> QED
    BY <2>2, <2>3 DEF SentInTime, Ticks, Full
<1>10. CallsKeepTheRate'
  BY <1>1, <1>2 DEF CallsKeepTheRate
<1> QED
  BY <1>7, <1>8, <1>9, <1>10 DEF RateInv

(* A caller that is awake and stays so.                                     *)
LEMMA AwakeRests ==
    ASSUME RateInv, NEW c \in Caller, call[c].pc # "asleep",
           DOMAIN call' = Caller, IsCall(call'[c]), call'[c].pc # "asleep",
           \A x \in Caller \ {c} : call'[x] = call[x],
           UNCHANGED <<now, wall, tokens, last_refill, drawn>>
    PROVE  RateInv'
<1>1. RateTypes
  BY DEF RateInv
<1>2. /\ Asleep' = Asleep /\ \A x \in Asleep : Until(x)' = Until(x)
  BY DEF Asleep, Until
<1>3. RateTypes'
  BY <1>1, <1>2 DEF RateTypes
<1>4. Debt' = Debt /\ SetBack' = SetBack /\ SetBack \in Int /\ now \in Int
  BY <1>1 DEF Debt, SetBack, RateTypes
<1>5. Rests
  BY <1>2, <1>4 DEF Rests
<1> QED
  BY <1>3, <1>5, RestsKeeps

(* Nobody's sleep is over, or else the clock would not go on.               *)
LEMMA BucketTickKeeps == ASSUME RateInv, BucketTick PROVE RateInv'
<1>1. RateTypes
  BY DEF RateInv
<1>2. /\ \A c \in Caller : ~Due(c, "asleep")
      /\ now' = now + 1 /\ wall' = wall + 1
      /\ UNCHANGED <<tokens, last_refill, call, drawn>>
  BY DEF BucketTick, TimePasses
<1>3. Asleep' = Asleep /\ \A x : Until(x)' = Until(x)
  BY <1>2 DEF Asleep, Until
<1>4. now \in Nat /\ wall \in Int /\ wall <= now
  BY <1>1 DEF RateTypes
<1>5. \A c \in Asleep : Until(c) \in Int /\ Until(c) >= now + 1
  <2> SUFFICES ASSUME NEW c \in Asleep PROVE Until(c) \in Int /\ Until(c) >= now + 1
    OBVIOUS
  <2>1. Until(c) \in Int /\ ~(Until(c) <= now)
    BY <1>1, <1>2 DEF RateTypes, Asleep, Due, Until
  <2> QED
    BY <1>4, <2>1
<1>6. now + 1 \in Nat /\ wall + 1 \in Int /\ wall + 1 <= now + 1
  BY <1>4
<1>7. RateTypes'
  BY <1>1, <1>2, <1>3, <1>5, <1>6 DEF RateTypes
<1>8. Debt' = Debt /\ SetBack' = SetBack /\ SetBack \in Int /\ SetBack' >= SetBack
  <2>1. SetBack' = now' - wall' /\ SetBack = now - wall
    BY DEF SetBack
  <2>2. (now + 1) - (wall + 1) = now - wall /\ now - wall \in Int
    BY <1>4
  <2>3. SetBack' = SetBack /\ SetBack \in Int
    BY <1>2, <2>1, <2>2, Zenon
  <2> QED
    BY <1>2, <2>3 DEF Debt
<1>9. now' >= now
  BY <1>2, <1>4
<1> QED
  BY <1>2, <1>3, <1>7, <1>8, <1>9, RestsKeeps DEF Rests

(* The wall clock is set back: the sleepers sleep on by the other one.      *)
LEMMA ClockSetBackKeeps == ASSUME RateInv, NEW n \in 1 .. MaxStepBack, ClockSetBack(n) PROVE RateInv'
<1>1. RateTypes
  BY DEF RateInv
<1>2. /\ wall = now /\ wall' = wall - n
      /\ UNCHANGED <<now, tokens, last_refill, call, drawn>>
  BY DEF ClockSetBack
<1>3. Asleep' = Asleep /\ \A x : Until(x)' = Until(x)
  BY <1>2 DEF Asleep, Until
<1>4. now \in Nat /\ wall \in Int /\ n \in Nat /\ wall - n \in Int /\ wall - n <= now
  BY <1>1, <1>2, RateAssumption DEF RateTypes
<1>5. RateTypes'
  BY <1>1, <1>2, <1>3, <1>4 DEF RateTypes
<1>6. Debt' = Debt /\ SetBack' >= SetBack
  <2>1. SetBack' = now - (wall - n) /\ SetBack = now - wall
    BY <1>2 DEF SetBack
  <2>2. now - (wall - n) >= now - wall
    BY <1>4
  <2> QED
    BY <1>2, <2>1, <2>2 DEF Debt
<1>7. now' >= now
  BY <1>2, <1>4
<1> QED
  BY <1>2, <1>3, <1>5, <1>6, <1>7, RestsKeeps DEF Rests

----------------------------------------------------------------------------
(* The whole.                                                               *)

(* A full bucket and nobody asleep: nothing is owed.                        *)
LEMMA RateInitInv == RateInit => RateInv
<1> SUFFICES ASSUME RateInit PROVE RateInv
  OBVIOUS
<1>1. /\ now = 0 /\ wall = 0 /\ tokens = Full + Refill /\ last_refill = 0
      /\ call = [c \in Caller |-> IdleCall] /\ drawn = <<>>
  BY TicksOf DEF RateInit, ClockInit
<1>2. Asleep = {}
  BY <1>1 DEF Asleep, IdleCall
<1>3. \A c \in Caller : IsCall(call[c])
  BY <1>1 DEF IsCall, IdleCall
<1>4. IsFiniteSet(Asleep) /\ Cardinality(Asleep) = 0
  BY <1>2, FS_EmptySet
<1>5. RateTypes
  BY <1>1, <1>2, <1>3, <1>4, TicksOf DEF RateTypes
<1>6. DebtIsSlept
  BY <1>1, <1>2, <1>4, TicksOf DEF DebtIsSlept, Debt
<1>7. Spaced /\ SentInTime /\ CallsKeepTheRate
  BY <1>1, <1>2 DEF Spaced, SentInTime, CallsKeepTheRate
<1> QED
  BY <1>5, <1>6, <1>7 DEF RateInv

(* Each step keeps the invariant.                                           *)
LEMMA RateStepInv == RateInv /\ [RateNext]_rateVars => RateInv'
<1> SUFFICES ASSUME RateInv, [RateNext]_rateVars PROVE RateInv'
  OBVIOUS
<1>1. RateTypes
  BY DEF RateInv
<1>2. DOMAIN call = Caller /\ \A c \in Caller : IsCall(call[c])
  BY <1>1 DEF RateTypes
<1>3. ASSUME NEW c \in Caller, AcquireNow(c) PROVE RateInv'
  BY <1>3, AcquireNowDraws, DrawsKeeps
<1>4. ASSUME NEW c \in Caller, AcquireLater(c) PROVE RateInv'
  <2>1. Joins(c) /\ RateTypes'
    BY <1>4, AcquireLaterJoins
  <2>2. CallsKeepTheRate'
    BY <2>1 DEF Joins, RateInv, CallsKeepTheRate
  <2> QED
    BY <2>1, <2>2, JoinsSpaced, JoinsDebt, JoinsSent DEF RateInv
<1>5. ASSUME NEW c \in Caller, WakeUp(c) PROVE RateInv'
  <2>1. Wakes(c) /\ RateTypes'
    BY <1>5, WakeUpWakes
  <2> QED
    BY <2>1, WakesSpaced, WakesDebt, WakesSent DEF RateInv
<1>6. ASSUME NEW c \in Caller, CallEnds(c) PROVE RateInv'
  <2>1. IsCall(IdleCall) /\ IdleCall.pc # "asleep"
    BY DEF IsCall, IdleCall
  <2> QED
    BY <1>2, <1>6, <2>1, AwakeRests DEF CallEnds
<1>7. ASSUME NEW c \in Caller, Retry(c) PROVE RateInv'
  <2>1. /\ DOMAIN call' = Caller /\ \A x \in Caller : IsCall(call'[x])
        /\ call'[c].pc = "sent" /\ \A x \in Caller \ {c} : call'[x] = call[x]
    BY <1>1, <1>7, CallAfter DEF Retry
  <2> QED
    BY <1>7, <2>1, AwakeRests DEF Retry, Due
<1>8. ASSUME NEW c \in Caller, NEW pause, RequestFails(c, pause) PROVE RateInv'
  <2>1. PICK u, a : call' = [call EXCEPT ![c] = [call[c] EXCEPT !.pc = "backoff", !.until = u, !.attempt = a]]
    BY <1>8 DEF RequestFails
  <2>2. /\ call'[c] = [call[c] EXCEPT !.pc = "backoff", !.until = u, !.attempt = a]
        /\ DOMAIN call' = Caller /\ \A x \in Caller \ {c} : call'[x] = call[x]
    BY <1>2, <2>1
  <2>3. {"pc", "until"} \subseteq DOMAIN call[c]
    BY <1>2 DEF IsCall
  <2>4. DOMAIN call'[c] = DOMAIN call[c] /\ call'[c].pc = "backoff"
    BY <2>2, <2>3
  <2>5. IsCall(call'[c])
    BY <2>3, <2>4 DEF IsCall
  <2> QED
    BY <1>8, <2>2, <2>4, <2>5, AwakeRests DEF RequestFails
<1>9. CASE UNCHANGED rateVars
  <2>1. UNCHANGED <<now, wall, tokens, last_refill, call, drawn>>
    BY <1>9 DEF rateVars
  <2>2. Asleep' = Asleep /\ (\A x : Until(x)' = Until(x)) /\ Debt' = Debt /\ SetBack' = SetBack
    BY <2>1 DEF Asleep, Until, Debt, SetBack
  <2>3. RateTypes'
    BY <1>1, <2>1, <2>2 DEF RateTypes
  <2>4. now' >= now /\ SetBack' >= SetBack
    BY <1>1, <2>1, <2>2, RefilledIs DEF RateTypes
  <2> QED
    BY <2>1, <2>2, <2>3, <2>4, RestsKeeps DEF Rests
<1> QED
  BY <1>3, <1>4, <1>5, <1>6, <1>7, <1>8, <1>9, BucketTickKeeps, ClockSetBackKeeps DEF RateNext

(* Hence always.                                                            *)
LEMMA RateInvariant == RateSpec => []RateInv
<1> QED
  BY RateInitInv, RateStepInv, PTL DEF RateSpec

(* However many threads draw on the bucket, after the first Capacity of any *)
(* run of calls each further one is a refill later (TokenBucket.acquire).   *)
THEOREM RateIsKept == RateSpec => []CallsKeepTheRate
<1>1. RateInv => CallsKeepTheRate
  BY DEF RateInv
<1> QED
  BY <1>1, RateInvariant, PTL

(* Each sleeper of acquire waits for a token of its own, and nobody for     *)
(* more than the refills owed to those that sleep and the clock's step back.*)
THEOREM TurnsAreTaken == RateSpec => []SleepersTakeTurns
<1>1. RateInv => SleepersTakeTurns
  <2> SUFFICES ASSUME RateInv PROVE SleepersTakeTurns
    OBVIOUS
  <2>1. RateTypes /\ Spaced /\ DebtIsSlept
    BY DEF RateInv
  <2>2. now \in Nat /\ \A x \in Asleep : Until(x) \in Int
    BY <2>1 DEF RateTypes
  <2>3. ASSUME NEW c \in Asleep
        PROVE  Until(c) - now <= Cardinality(Asleep) * Refill + (now - wall)
    <3>1. Until(c) <= Debt + SetBack /\ Debt \in Int /\ SetBack \in Nat
      BY SleepersInDebt
    <3>2. Debt <= now + Ticks(Cardinality(Asleep))
      BY <2>1 DEF DebtIsSlept
    <3>3. Ticks(Cardinality(Asleep)) \in Nat
      BY <2>1, Counts, TicksOf
    <3>4. Until(c) - now <= Ticks(Cardinality(Asleep)) + SetBack
      BY <2>2, <3>1, <3>2, <3>3
    <3>5. Ticks(Cardinality(Asleep)) = Cardinality(Asleep) * Refill
      BY <2>1, Counts, TicksOf DEF Ticks
    <3> QED
      BY <3>4, <3>5 DEF SetBack
  <2>4. ASSUME NEW c \in Asleep, NEW d \in Asleep, Until(d) < Until(c)
        PROVE  Until(c) - Until(d) >= Refill
    <3>1. d \in Between(d, c)
      BY <2>2, <2>4 DEF Between
    <3>2. IsFiniteSet(Between(d, c))
      BY <2>1, FS_Subset DEF Between, RateTypes
    <3>3. Cardinality(Between(d, c)) \in Nat \ {0}
      BY <3>1, <3>2, FS_CardinalityType, FS_EmptySet
    <3>4. Ticks(Cardinality(Between(d, c))) >= Refill /\ Ticks(Cardinality(Between(d, c))) \in Nat
      BY <3>3, TicksOf
    <3>5. Until(c) - Until(d) >= Ticks(Cardinality(Between(d, c)))
      BY <2>1, <2>4 DEF Spaced
    <3> QED
      BY <2>2, <3>4, <3>5, TicksOf
  <2>5. ASSUME NEW c \in Asleep, NEW d \in Asleep \ {c}
        PROVE  Until(c) - Until(d) >= Refill \/ Until(d) - Until(c) >= Refill
    <3>1. Until(c) # Until(d)
      BY <2>1 DEF Spaced
    <3> QED
      BY <2>2, <2>4, <3>1
  <2> QED
    BY <2>3, <2>5 DEF SleepersTakeTurns, Until
<1> QED
  BY <1>1, RateInvariant, PTL

-----------------------------------------------------------------------------
(* The price cache.                                                         *)

(* A fetch under way has not taken longer than a fetch takes.               *)
FetchesAreShort ==
    \A r \in Reader : reader[r].fetching =>
        reader[r].since <= now /\ now - reader[r].since <= MaxFetch

(* Whoever stored it, the quote is as old as its stamp and one fetch.       *)
StampIsNear ==
    cached # NoQuote => /\ cached.asked <= cached.stored
                        /\ cached.stored <= now
                        /\ cached.stored - cached.asked <= MaxFetch

PriceInv == PriceTypeOK /\ FetchesAreShort /\ StampIsNear /\ ServedIsFresh

-----------------------------------------------------------------------------
(* Nothing is known at the start.                                             *)
LEMMA PriceInitInv == PriceInit => PriceInv
<1> SUFFICES ASSUME PriceInit PROVE PriceInv
  OBVIOUS
<1> USE PriceAssumption, ClockAssumption DEF PriceInit, ClockInit
<1>1. PriceTypeOK
  BY DEF PriceTypeOK, Resting
<1>2. FetchesAreShort
  BY DEF FetchesAreShort, Resting
<1>3. StampIsNear /\ ServedIsFresh
  BY DEF StampIsNear, ServedIsFresh
<1> QED
  BY <1>1, <1>2, <1>3 DEF PriceInv

(* Every step keeps what is known of the price's threads.                     *)
LEMMA PriceNextInv == PriceInv /\ [PriceNext]_priceVars => PriceInv'
<1> SUFFICES ASSUME PriceInv, [PriceNext]_priceVars PROVE PriceInv'
  OBVIOUS
<1> USE PriceAssumption, ClockAssumption DEF PriceInv, PriceTypeOK
<1>1. ASSUME NEW r \in Reader, Hit(r) PROVE PriceInv'
  <2> DEFINE quoted == [asked |-> cached.asked, at |-> now, age |-> now - cached.stored]
  <2>1. /\ cached \in Quote /\ cached # NoQuote /\ now - cached.stored < TTL
        /\ served' = [served EXCEPT ![r] = quoted]
        /\ UNCHANGED <<now, cached, reader>>
    BY <1>1 DEF Hit, Fresh
  <2>2. quoted \in Answer
    BY <2>1 DEF Answer, Quote, StampIsNear
  <2>3. /\ now - cached.asked <= TTL - 1 + MaxFetch
        /\ now - cached.asked - (now - cached.stored) \in 0 .. MaxFetch
        /\ TTL # 0
    BY <2>1 DEF Quote, StampIsNear
  <2>4. PriceTypeOK'
    BY <2>1, <2>2
  <2>5. FetchesAreShort' /\ StampIsNear'
    BY <2>1 DEF FetchesAreShort, StampIsNear
  <2>6. ServedIsFresh'
    BY <2>1, <2>3 DEF ServedIsFresh
  <2> QED
    BY <2>4, <2>5, <2>6
<1>2. ASSUME NEW r \in Reader, Miss(r) PROVE PriceInv'
  <2>1. PriceTypeOK'
    BY <1>2 DEF Miss
  <2>2. FetchesAreShort'
    BY <1>2 DEF Miss, FetchesAreShort
  <2>3. StampIsNear' /\ ServedIsFresh'
    BY <1>2 DEF Miss, StampIsNear, ServedIsFresh
  <2> QED
    BY <2>1, <2>2, <2>3
<1>3. ASSUME NEW r \in Reader, Store(r) PROVE PriceInv'
  <2> DEFINE since == reader[r].since
  <2>1. /\ since \in 0 .. MaxTime
        /\ since <= now /\ now - since <= MaxFetch
        /\ cached' = [asked |-> since, stored |-> now]
        /\ served' = [served EXCEPT ![r] = [asked |-> since, at |-> now, age |-> 0]]
        /\ reader' = [reader EXCEPT ![r] = Resting]
        /\ now' = now
    BY <1>3 DEF Store, FetchesAreShort
  <2>2. PriceTypeOK'
    BY <2>1 DEF Quote, Answer, Resting
  <2>3. FetchesAreShort'
    BY <2>1 DEF FetchesAreShort, Resting
  <2>4. StampIsNear'
    BY <2>1 DEF StampIsNear
  <2>5. ServedIsFresh'
    BY <2>1 DEF ServedIsFresh
  <2> QED
    BY <2>2, <2>3, <2>4, <2>5
<1>4. ASSUME NEW r \in Reader, NoAnswer(r) PROVE PriceInv'
  <2>1. PriceTypeOK'
    BY <1>4 DEF NoAnswer, Resting
  <2>2. FetchesAreShort'
    BY <1>4 DEF NoAnswer, FetchesAreShort, Resting
  <2>3. StampIsNear' /\ ServedIsFresh'
    BY <1>4 DEF NoAnswer, StampIsNear, ServedIsFresh
  <2> QED
    BY <2>1, <2>2, <2>3
<1>5. CASE PriceTick
  <2>1. PriceTypeOK' /\ FetchesAreShort' /\ ServedIsFresh'
    BY <1>5 DEF PriceTick, TimePasses, cacheVars, FetchesAreShort, ServedIsFresh
  <2>2. StampIsNear'
    BY <1>5 DEF PriceTick, TimePasses, cacheVars, StampIsNear, Quote
  <2> QED
    BY <2>1, <2>2
<1>6. CASE UNCHANGED priceVars
  BY <1>6 DEF priceVars, FetchesAreShort, StampIsNear, ServedIsFresh
<1> QED
  BY <1>1, <1>2, <1>3, <1>4, <1>5, <1>6 DEF PriceNext

(* Whatever fetches overlap, fail or end out of order, a price that is       *)
(* served was asked for no longer ago than the TTL and one fetch.            *)
THEOREM ServedStaysFresh == PriceSpec => []ServedIsFresh
<1>1. PriceInv => ServedIsFresh
  BY DEF PriceInv
<1> QED
  BY <1>1, PriceInitInv, PriceNextInv, PTL DEF PriceSpec

-----------------------------------------------------------------------------
(* The login.                                                               *)

Cookie  == [user : User \cup {Nobody}, expiry : Nat, key : Secret \cup {NoSecret}]
Entry   == [user : User \cup {Nobody}, at : Nat]

(* A cookie that some key signed is of the browser's last login, and ends a *)
(* session after it; a cookie that was taken back is signed by none.        *)
CookieIsEntry(c, e) == c.key # NoSecret => c.user = e.user /\ c.expiry = e.at + Session

LoginInv == /\ now \in Nat
            /\ config \in Config
            /\ cookie \in [Browser -> Cookie]
            /\ entered \in [Browser -> Entry]
            /\ \A b \in Browser : CookieIsEntry(cookie[b], entered[b])
            /\ ReachedLoggedIn

---------------------------------------------------------------------------
(* Nobody has logged in, nobody has been served.                            *)
LEMMA InitLogin == LoginInit => LoginInv
<1> SUFFICES ASSUME LoginInit PROVE LoginInv
  OBVIOUS
<1>1. now \in Nat /\ config \in Config
  BY LoginAssumption DEF LoginInit, ClockInit
<1>2. NoCookie \in Cookie /\ NoCookie.key = NoSecret /\ NoEntry \in Entry
  BY DEF NoCookie, Cookie, NoEntry, Entry
<1>3. cookie \in [Browser -> Cookie] /\ entered \in [Browser -> Entry]
  BY <1>2 DEF LoginInit
<1>4. \A b \in Browser : CookieIsEntry(cookie[b], entered[b])
  BY <1>2 DEF LoginInit, CookieIsEntry
<1>5. ReachedLoggedIn
  BY DEF LoginInit, ReachedLoggedIn
<1> QED
  BY <1>1, <1>3, <1>4, <1>5 DEF LoginInv

(* A request is taken for the user of its cookie, who logged in, or for     *)
(* nobody, where the tracker has its own login and no user for development. *)
LEMMA WhoIsServed ==
    ASSUME LoginInv, own_login, config.dev_user = Nobody \/ config.proxy_secret,
           NEW b \in Browser, NEW forwarded, NEW proxied,
           NEW u, u = current_user(cookie[b], forwarded, proxied), u # Nobody
    PROVE  /\ u = entered[b].user /\ u \in config.users
           /\ now - entered[b].at < Session
<1>1. u = session_user(cookie[b])
  <2> DEFINE s == session_user(cookie[b])
  <2>1. u = CASE s # Nobody -> s
              [] s = Nobody /\ config.dev_user # Nobody /\ ~config.proxy_secret -> config.dev_user
              [] s = Nobody /\ (config.dev_user = Nobody \/ config.proxy_secret)
                     /\ ~own_login /\ (config.proxy_secret => proxied) -> forwarded
              [] OTHER -> Nobody
    BY DEF current_user
  <2> HIDE DEF s
  <2>2. s # Nobody => u = s
    BY <2>1
  <2>3. s = Nobody => u = Nobody
    BY <2>1
  <2> QED
    BY <2>2, <2>3 DEF s
<1>2. u = ReadCookie(cookie[b]) /\ u \in config.users
  BY <1>1 DEF session_user
<1>3. u = cookie[b].user /\ cookie[b].key # NoSecret /\ now < cookie[b].expiry
  BY <1>2 DEF ReadCookie, own_login
<1>4. u = entered[b].user /\ cookie[b].expiry = entered[b].at + Session
  BY <1>3 DEF LoginInv, CookieIsEntry
<1>5. now \in Nat /\ entered[b].at \in Nat /\ Session \in Nat
  BY LoginAssumption DEF LoginInv, Entry
<1> QED
  BY <1>2, <1>3, <1>4, <1>5

(* A handler is reached by whom the rules let through.                      *)
LEMMA ServeKeeps ==
    ASSUME LoginInv, NEW b \in Browser, NEW kind \in {"page", "fee", "admin"},
           NEW forwarded, NEW proxied, NEW same_origin,
           Serve(b, kind, forwarded, proxied, same_origin)
    PROVE  LoginInv'
<1> DEFINE u == current_user(cookie[b], forwarded, proxied)
<1>1. /\ Allowed(kind, u) /\ reached' = [user |-> u, browser |-> b, kind |-> kind]
      /\ UNCHANGED <<now, config, cookie, entered>>
  BY DEF Serve
<1> HIDE DEF u
<1>2. reached'.user = u /\ reached'.browser = b /\ reached'.kind = kind
  BY <1>1
<1>3. ReachedLoggedIn'
  <2> SUFFICES ASSUME own_login, config.dev_user = Nobody \/ config.proxy_secret
               PROVE  /\ u = entered[b].user
                      /\ now - entered[b].at < Session
                      /\ entered[b].user \in config.users
                      /\ kind = "fee"   => entered[b].user \in config.admins \cup config.payers
                      /\ kind = "admin" => entered[b].user \in config.admins
    BY <1>1, <1>2 DEF ReachedLoggedIn, own_login
  <2>1. u # Nobody
    BY <1>1 DEF Allowed
  <2>2. u = entered[b].user /\ u \in config.users /\ now - entered[b].at < Session
    BY <2>1, WhoIsServed DEF u
  <2> QED
    BY <1>1, <2>2 DEF Allowed, can_pay_fee, is_admin
<1> QED
  BY <1>1, <1>3 DEF LoginInv

(* Nobody is served by the other steps; a login makes cookie and entry      *)
(* together, a logout takes both, a restart keeps both.                     *)
LEMMA OthersKeep ==
    ASSUME LoginInv,
           \/ TrackerStarts \/ LoginTick
           \/ \E b \in Browser : \/ Throttled(b) \/ LoginFails(b) \/ Logout(b)
                                 \/ \E u \in User : LoginSucceeds(b, u)
    PROVE  LoginInv'
<1>1. ReachedLoggedIn'
  <2>1. reached' = NoRequest
    BY DEF TrackerStarts, LoginTick, Throttled, LoginFails, Logout, LoginSucceeds, NoneReached
  <2> QED
    BY <2>1 DEF ReachedLoggedIn
<1>2. CASE TrackerStarts
  <2>1. config' \in Config /\ UNCHANGED <<now, cookie, entered>>
    BY <1>2, LoginAssumption DEF TrackerStarts
  <2> QED
    BY <1>1, <2>1 DEF LoginInv
<1>3. CASE LoginTick
  <2>1. now' \in Nat /\ UNCHANGED <<config, cookie, entered>>
    BY <1>3 DEF LoginTick, TimePasses, LoginInv
  <2> QED
    BY <1>1, <2>1 DEF LoginInv
<1>4. ASSUME NEW b \in Browser, Throttled(b) \/ LoginFails(b) PROVE LoginInv'
  <2>1. UNCHANGED <<now, config, cookie, entered>>
    BY <1>4 DEF Throttled, LoginFails
  <2> QED
    BY <1>1, <2>1 DEF LoginInv
<1>5. ASSUME NEW b \in Browser, Logout(b) PROVE LoginInv'
  <2>1. /\ cookie' = [cookie EXCEPT ![b] = NoCookie] /\ entered' = [entered EXCEPT ![b] = NoEntry]
        /\ UNCHANGED <<now, config>>
    BY <1>5 DEF Logout
  <2>2. NoCookie \in Cookie /\ NoCookie.key = NoSecret /\ NoEntry \in Entry
    BY DEF NoCookie, Cookie, NoEntry, Entry
  <2>3. cookie' \in [Browser -> Cookie] /\ entered' \in [Browser -> Entry]
    BY <2>1, <2>2 DEF LoginInv
  <2>4. \A x \in Browser : CookieIsEntry(cookie'[x], entered'[x])
    BY <2>1, <2>2 DEF LoginInv, CookieIsEntry
  <2> QED
    BY <1>1, <2>1, <2>3, <2>4 DEF LoginInv
<1>6. ASSUME NEW b \in Browser, NEW u \in User, LoginSucceeds(b, u) PROVE LoginInv'
  <2> DEFINE c == [user |-> u, expiry |-> now + Session, key |-> config.session_secret]
             e == [user |-> u, at |-> now]
  <2>1. /\ cookie' = [cookie EXCEPT ![b] = c] /\ entered' = [entered EXCEPT ![b] = e]
        /\ UNCHANGED <<now, config>>
    BY <1>6 DEF LoginSucceeds
  <2>2. c \in Cookie /\ e \in Entry
    <3>1. now + Session \in Nat /\ now \in Nat
      BY LoginAssumption DEF LoginInv
    <3>2. config.session_secret \in Secret \cup {NoSecret}
      BY DEF LoginInv, Config
    <3> QED
      BY <3>1, <3>2 DEF Cookie, Entry
  <2>3. CookieIsEntry(c, e)
    BY DEF CookieIsEntry
  <2> HIDE DEF c, e
  <2>4. cookie' \in [Browser -> Cookie] /\ entered' \in [Browser -> Entry]
    BY <2>1, <2>2 DEF LoginInv
  <2>5. \A x \in Browser : CookieIsEntry(cookie'[x], entered'[x])
    BY <2>1, <2>3 DEF LoginInv
  <2> QED
    BY <1>1, <2>1, <2>4, <2>5 DEF LoginInv
<1> QED
  BY <1>2, <1>3, <1>4, <1>5, <1>6

(* Every step keeps the cookies and whom they let in.                       *)
LEMMA NextLogin == LoginInv /\ [LoginNext]_loginVars => LoginInv'
<1> SUFFICES ASSUME LoginInv, [LoginNext]_loginVars PROVE LoginInv'
  OBVIOUS
<1>1. CASE UNCHANGED loginVars
  BY <1>1 DEF loginVars, siteVars, LoginInv, ReachedLoggedIn, own_login
<1>2. CASE LoginNext
  BY <1>2, ServeKeeps, OthersKeep DEF LoginNext
<1> QED
  BY <1>1, <1>2

(* Where the tracker has its own login, a handler is reached only by who    *)
(* logged in at that browser, less than a session ago, has not logged out,  *)
(* and is still known to the configuration, in the role the request needs.  *)
THEOREM ReachedAreLoggedIn == LoginSpec => []ReachedLoggedIn
<1>1. LoginInv => ReachedLoggedIn
  BY DEF LoginInv
<1> QED
  BY <1>1, InitLogin, NextLogin, PTL DEF LoginSpec

---------------------------------------------------------------------------
(* The throttle. What it keeps of an address is the end of all the times    *)
(* that address was refused, and what it dropped was too old when it was    *)
(* dropped. Refusals come in the order of time, and of any MaxFailures + 1  *)
(* in a row the last was looked at when the first had left the window.      *)

Times == Seq(Nat)

InTime(ts) == /\ \A i, j \in 1 .. Len(ts) : i <= j => ts[i] <= ts[j]
              /\ \A i \in 1 .. Len(ts) : ts[i] <= now

Spread(ts) == \A i \in 1 .. Len(ts) :
                  i > MaxFailures => ts[i - MaxFailures] < ts[i] - Window

EndOf(f, ts) == LET gone == Len(ts) - Len(f)
                IN  /\ gone >= 0
                    /\ \A i \in 1 .. Len(f) : f[i] = ts[gone + i]
                    /\ \A i \in 1 .. gone : ts[i] < now - Window

ThrottleInv ==
    /\ now \in Nat
    /\ failures \in [Browser -> Times] /\ tried \in [Browser -> Times]
    /\ \A b \in Browser :
           InTime(tried[b]) /\ Spread(tried[b]) /\ EndOf(failures[b], tried[b])

(* There is a least number in every set of numbers.                         *)
LEMMA MinIs ==
    ASSUME NEW S, S \subseteq Nat, S # {}
    PROVE  Min(S) \in S /\ \A y \in S : Min(S) <= y
<1> DEFINE R == {p \in Nat \X Nat : p[1] < p[2]}
<1>1. IsWellFoundedOn(R, Nat)
  BY NatLessThanWellFounded, Zenon DEF OpToRel
<1>2. PICK n \in S : \A y \in S : ~(<<y, n>> \in R)
  <2> HIDE DEF R
  <2> QED
    BY <1>1, WFMin
<1>3. ASSUME NEW y \in S PROVE n <= y
  <2>1. y \in Nat /\ n \in Nat /\ ~(<<y, n>> \in R)
    BY <1>2
  <2>2. ~(y < n)
    BY <2>1
  <2> QED
    BY <2>1, <2>2
<1> QED
  BY <1>3, Zenon DEF Min

(* Pruning leaves the end that is in the window.                            *)
LEMMA PrunedIs ==
    ASSUME ThrottleInv, NEW b \in Browser
    PROVE  /\ Pruned(b) \in Times /\ EndOf(Pruned(b), tried[b])
           /\ \A i \in 1 .. Len(Pruned(b)) : Pruned(b)[i] >= now - Window
<1> DEFINE kept == {i \in DOMAIN failures[b] : failures[b][i] >= now - Window}
<1>1. PICK f : f = failures[b]
  OBVIOUS
<1>2. PICK ts : ts = tried[b]
  OBVIOUS
<1>3. /\ f \in Times /\ ts \in Times /\ now \in Nat /\ Window \in Nat
      /\ InTime(ts) /\ EndOf(f, ts)
  BY <1>1, <1>2, LoginAssumption DEF ThrottleInv
<1>4. Len(f) \in Nat /\ DOMAIN f = 1 .. Len(f) /\ Len(ts) \in Nat
  BY <1>3 DEF Times
<1>5. CASE kept = {}
  <2>1. Pruned(b) = <<>>
    BY <1>5 DEF Pruned
  <2>2. <<>> \in Times /\ Len(<<>>) = 0
    BY DEF Times
  <2>3. \A i \in 1 .. Len(ts) : ts[i] < now - Window
    <3> TAKE i \in 1 .. Len(ts)
    <3> DEFINE gone == Len(ts) - Len(f)
    <3>1. CASE i <= gone
      BY <1>3, <1>4, <3>1 DEF EndOf
    <3>2. CASE i > gone
      <4>1. i - gone \in 1 .. Len(f) /\ gone + (i - gone) = i
        BY <1>3, <1>4, <3>2 DEF EndOf
      <4>2. f[i - gone] = ts[i]
        BY <1>3, <4>1 DEF EndOf
      <4>3. f[i - gone] \in Nat
        BY <1>3, <4>1 DEF Times
      <4>4. \A j \in 1 .. Len(f) : ~(f[j] >= now - Window)
        BY <1>1, <1>4, <1>5
      <4> QED
        BY <1>3, <4>1, <4>2, <4>3, <4>4
    <3> QED
      BY <1>4, <3>1, <3>2
  <2> QED
    BY <1>2, <1>4, <2>1, <2>2, <2>3 DEF EndOf
<1>6. CASE kept # {}
  <2>1. PICK a : a = Min(kept)
    OBVIOUS
  <2>2. a \in kept /\ \A i \in kept : a <= i
    <3>1. kept \subseteq Nat
      BY <1>1, <1>4
    <3> HIDE DEF kept
    <3> QED
      BY <1>6, <2>1, <3>1, MinIs
  <2>3. a \in 1 .. Len(f) /\ f[a] >= now - Window /\ \A i \in 1 .. Len(f) : i < a => f[i] < now - Window
    <3>1. a \in 1 .. Len(f) /\ f[a] >= now - Window
      BY <1>1, <1>4, <2>2
    <3>2. ASSUME NEW i \in 1 .. Len(f), i < a PROVE f[i] < now - Window
      <4>1. i \notin kept
        BY <1>4, <2>2, <3>1, <3>2
      <4>2. f[i] \in Nat
        BY <1>3 DEF Times
      <4> QED
        BY <1>1, <1>3, <1>4, <4>1, <4>2
    <3> QED
      BY <3>1, <3>2
  <2> HIDE DEF kept
  <2>4. PICK p : p = SubSeq(f, a, Len(f))
    OBVIOUS
  <2>5. Pruned(b) = p
    BY <1>1, <1>6, <2>1, <2>4 DEF Pruned, kept
  <2>6. p \in Times /\ Len(p) = Len(f) - a + 1 /\ \A i \in 1 .. Len(f) - a + 1 : p[i] = f[a + i - 1]
    <3>1. \A i \in a .. Len(f) : f[i] \in Nat
      BY <1>3, <2>3 DEF Times
    <3> QED
      BY <1>4, <2>3, <2>4, <3>1, SubSeqProperties DEF Times
  <2> DEFINE gone == Len(ts) - Len(f)
             left == Len(ts) - Len(p)
  <2>7. gone \in Nat /\ left = gone + a - 1 /\ left >= 0
    BY <1>3, <1>4, <2>3, <2>6 DEF EndOf
  <2>8. \A i \in 1 .. Len(f) : f[i] = ts[gone + i]
    BY <1>3 DEF EndOf
  <2>9. \A i \in 1 .. Len(p) : p[i] = ts[left + i]
    <3> TAKE i \in 1 .. Len(p)
    <3>1. a + i - 1 \in 1 .. Len(f) /\ gone + (a + i - 1) = left + i
      BY <1>4, <2>3, <2>6, <2>7
    <3>2. p[i] = f[a + i - 1]
      BY <2>6
    <3> QED
      BY <2>8, <3>1, <3>2
  <2>10. \A i \in 1 .. left : ts[i] < now - Window
    <3> TAKE i \in 1 .. left
    <3>1. CASE i <= gone
      BY <1>3, <2>7, <3>1 DEF EndOf
    <3>2. CASE i > gone
      <4>1. i - gone \in 1 .. Len(f) /\ i - gone < a /\ gone + (i - gone) = i
        BY <1>4, <2>3, <2>7, <3>2
      <4> QED
        BY <2>3, <2>8, <4>1
    <3> QED
      BY <2>7, <3>1, <3>2
  <2>11. \A i \in 1 .. Len(p) : p[i] >= now - Window
    <3> TAKE i \in 1 .. Len(p)
    <3>1. a + i - 1 \in 1 .. Len(f) /\ a \in 1 .. Len(f) /\ a <= a + i - 1
      BY <1>4, <2>3, <2>6
    <3>2. p[i] = f[a + i - 1]
      BY <2>6
    <3>3. gone + a \in 1 .. Len(ts) /\ gone + (a + i - 1) \in 1 .. Len(ts)
          /\ gone + a <= gone + (a + i - 1)
      BY <1>4, <2>7, <3>1
    <3>4. ts[gone + a] <= ts[gone + (a + i - 1)]
      BY <1>3, <3>3 DEF InTime
    <3>5. f[a] = ts[gone + a] /\ f[a + i - 1] = ts[gone + (a + i - 1)]
      BY <2>8, <3>1
    <3>6. f[a] \in Nat /\ f[a + i - 1] \in Nat
      BY <1>3, <3>1 DEF Times
    <3> QED
      BY <1>3, <2>3, <3>2, <3>4, <3>5, <3>6
  <2>12. EndOf(p, ts)
    BY <2>7, <2>9, <2>10 DEF EndOf
  <2> QED
    BY <1>2, <2>5, <2>6, <2>11, <2>12
<1> QED
  BY <1>5, <1>6

(* In a window that lies anywhere there are no more than MaxFailures.       *)
LEMMA WindowHolds ==
    ASSUME NEW ts \in Times, InTime(ts), Spread(ts), now \in Nat, NEW t \in Nat
    PROVE  Cardinality(Within(ts, t, t + Window)) <= MaxFailures
<1> DEFINE W == {i \in 1 .. Len(ts) : ts[i] \in t .. t + Window}
<1>1. Len(ts) \in Nat /\ Window \in Nat /\ MaxFailures \in Nat
  BY LoginAssumption DEF Times
<1>2. Within(ts, t, t + Window) = W
  BY DEF Within, Times
<1>3. CASE W = {}
  <2>1. Cardinality({}) = 0
    BY FS_EmptySet
  <2>2. Within(ts, t, t + Window) = {}
    BY <1>2, <1>3
  <2>3. Cardinality(Within(ts, t, t + Window)) = 0
    BY <2>1, <2>2
  <2> QED
    BY <1>1, <2>3
<1>4. CASE W # {}
  <2>1. PICK a : a = Min(W)
    OBVIOUS
  <2>2. a \in W /\ \A i \in W : a <= i
    <3>1. W \subseteq Nat
      BY <1>1
    <3> HIDE DEF W
    <3> QED
      BY <1>4, <2>1, <3>1, MinIs
  <2>3. ASSUME NEW i \in W PROVE i \in a .. a + MaxFailures - 1
    <3>1. SUFFICES ASSUME i >= a + MaxFailures PROVE FALSE
      BY <1>1, <2>2
    <3>2. i - MaxFailures \in 1 .. Len(ts) /\ i > MaxFailures /\ a <= i - MaxFailures
          /\ a \in 1 .. Len(ts) /\ i \in 1 .. Len(ts)
      BY <1>1, <2>2, <3>1
    <3>3. ts[a] <= ts[i - MaxFailures] /\ ts[i - MaxFailures] < ts[i] - Window
      BY <3>2 DEF InTime, Spread
    <3>4. ts[a] >= t /\ ts[i] <= t + Window
      BY <1>1, <2>2, <2>3
    <3>5. ts[a] \in Nat /\ ts[i] \in Nat /\ ts[i - MaxFailures] \in Nat
      BY <3>2, SMTT(30) DEF Times
    <3> QED
      BY <1>1, <3>3, <3>4, <3>5
  <2>4. a \in Nat /\ W \subseteq a .. a + MaxFailures - 1
    BY <1>1, <2>2, <2>3
  <2> HIDE DEF W
  <2>5. IsFiniteSet(a .. a + MaxFailures - 1)
        /\ Cardinality(a .. a + MaxFailures - 1) <= MaxFailures
    <3>1. PICK z : z = a + MaxFailures - 1
      OBVIOUS
    <3>2. z \in Int /\ a \in Int
      BY <1>1, <2>4, <3>1
    <3>3. IsFiniteSet(a .. z) /\ Cardinality(a .. z) = IF a > z THEN 0 ELSE z - a + 1
      BY <3>2, FS_Interval
    <3>4. (IF a > z THEN 0 ELSE z - a + 1) <= MaxFailures
      BY <1>1, <2>4, <3>1
    <3> QED
      BY <3>1, <3>3, <3>4
  <2>6. Cardinality(W) <= Cardinality(a .. a + MaxFailures - 1)
        /\ Cardinality(W) \in Nat /\ Cardinality(a .. a + MaxFailures - 1) \in Nat
    BY <2>4, <2>5, FS_Subset, FS_CardinalityType
  <2> QED
    BY <1>1, <1>2, <2>5, <2>6
<1> QED
  BY <1>3, <1>4

(* An address waits for what is in the window now.                          *)
LEMMA WaitsForWindow ==
    ASSUME ThrottleInv, NEW b \in Browser
    PROVE  Len(Pruned(b)) = Cardinality(Within(tried[b], now - Window, now))
<1>1. PICK ts : ts = tried[b]
  OBVIOUS
<1>2. PICK p : p = Pruned(b)
  OBVIOUS
<1>3. /\ p \in Times /\ EndOf(p, ts) /\ \A i \in 1 .. Len(p) : p[i] >= now - Window
      /\ ts \in Times /\ InTime(ts) /\ now \in Nat
  BY <1>1, <1>2, PrunedIs DEF ThrottleInv
<1>4. Len(ts) \in Nat /\ Len(p) \in Nat /\ Window \in Nat
  BY <1>3, LoginAssumption DEF Times
<1> DEFINE gone == Len(ts) - Len(p)
<1>5. gone \in Nat
  BY <1>3, <1>4 DEF EndOf
<1>6. Within(ts, now - Window, now) = gone + 1 .. Len(ts)
  <2>1. ASSUME NEW i \in 1 .. Len(ts), i <= gone PROVE ts[i] \notin now - Window .. now
    <3>1. ts[i] < now - Window
      BY <1>3, <1>5, <2>1 DEF EndOf
    <3> QED
      BY <1>3, <1>4, <3>1 DEF Times
  <2>2. ASSUME NEW i \in 1 .. Len(ts), i > gone PROVE ts[i] \in now - Window .. now
    <3>1. i - gone \in 1 .. Len(p) /\ gone + (i - gone) = i
      BY <1>4, <1>5, <2>2
    <3>2. p[i - gone] = ts[i] /\ p[i - gone] >= now - Window
      BY <1>3, <3>1 DEF EndOf
    <3>3. ts[i] \in Nat /\ ts[i] <= now
      BY <1>3 DEF Times, InTime
    <3> QED
      BY <1>3, <1>4, <3>2, <3>3
  <2>3. DOMAIN ts = 1 .. Len(ts)
    BY <1>3 DEF Times
  <2> HIDE DEF gone
  <2>4. Within(ts, now - Window, now) = {i \in 1 .. Len(ts) : ts[i] \in now - Window .. now}
    BY <2>3 DEF Within
  <2>5. \A i \in 1 .. Len(ts) : ts[i] \in now - Window .. now <=> i > gone
    BY <1>4, <1>5, <2>1, <2>2
  <2>6. {i \in 1 .. Len(ts) : ts[i] \in now - Window .. now} = {i \in 1 .. Len(ts) : i > gone}
    BY <2>5
  <2>7. {i \in 1 .. Len(ts) : i > gone} = gone + 1 .. Len(ts)
    BY <1>4, <1>5
  <2> QED
    BY <2>4, <2>6, <2>7
<1>7. Cardinality(gone + 1 .. Len(ts)) = Len(p)
  <2>1. gone + 1 \in Int /\ Len(ts) \in Int
    BY <1>4, <1>5
  <2>2. Cardinality(gone + 1 .. Len(ts)) = IF gone + 1 > Len(ts) THEN 0 ELSE Len(ts) - (gone + 1) + 1
    BY <2>1, FS_Interval
  <2> QED
    BY <1>4, <1>5, <2>2
<1> QED
  BY <1>1, <1>2, <1>6, <1>7

(* What the invariant says is what the throttle promises.                   *)
LEMMA PromiseHolds == ThrottleInv => ThrottleHolds
<1> SUFFICES ASSUME ThrottleInv, NEW b \in Browser
             PROVE  /\ \A t \in 0 .. now : Cardinality(Within(tried[b], t, t + Window)) <= MaxFailures
                    /\ Blocked(b) <=> Cardinality(Within(tried[b], now - Window, now)) >= MaxFailures
  BY DEF ThrottleHolds
<1>1. /\ tried[b] \in Times /\ InTime(tried[b]) /\ Spread(tried[b]) /\ now \in Nat
  BY DEF ThrottleInv
<1>2. \A t \in 0 .. now : t \in Nat
  BY <1>1
<1> QED
  BY <1>1, <1>2, WindowHolds, WaitsForWindow DEF Blocked

(* An address that is not blocked has its next refusal MaxFailures later    *)
(* than one that left the window.                                           *)
LEMMA RefusalKeeps ==
    ASSUME ThrottleInv, NEW b \in Browser, ~Blocked(b)
    PROVE  LET ts == Append(tried[b], now)
               f  == Append(Pruned(b), now)
           IN  ts \in Times /\ f \in Times /\ InTime(ts) /\ Spread(ts) /\ EndOf(f, ts)
<1>1. PICK old : old = tried[b]
  OBVIOUS
<1>2. PICK p : p = Pruned(b)
  OBVIOUS
<1>3. PICK ts : ts = Append(old, now)
  OBVIOUS
<1>4. PICK f : f = Append(p, now)
  OBVIOUS
<1>5. /\ p \in Times /\ EndOf(p, old) /\ old \in Times /\ InTime(old) /\ Spread(old) /\ now \in Nat
      /\ Len(p) < MaxFailures
  <2>1. p \in Times /\ EndOf(p, old) /\ old \in Times /\ InTime(old) /\ Spread(old) /\ now \in Nat
    BY <1>1, <1>2, PrunedIs DEF ThrottleInv
  <2>2. Len(p) \in Nat /\ MaxFailures \in Nat /\ ~(Len(p) >= MaxFailures)
    BY <1>2, <2>1, LoginAssumption DEF Times, Blocked
  <2> QED
    BY <2>1, <2>2
<1>6. /\ Len(old) \in Nat /\ Len(p) \in Nat /\ Window \in Nat /\ MaxFailures \in Nat
      /\ Len(p) <= Len(old)
  BY <1>5, LoginAssumption DEF Times, EndOf
<1>7. /\ ts \in Times /\ Len(ts) = Len(old) + 1 /\ ts[Len(old) + 1] = now
      /\ \A i \in 1 .. Len(old) : ts[i] = old[i]
  BY <1>3, <1>5, <1>6 DEF Times
<1>8. /\ f \in Times /\ Len(f) = Len(p) + 1 /\ f[Len(p) + 1] = now
      /\ \A i \in 1 .. Len(p) : f[i] = p[i]
  BY <1>4, <1>5, <1>6 DEF Times
<1>9. \A i \in 1 .. Len(old) : old[i] \in Nat /\ old[i] <= now
  BY <1>5 DEF Times, InTime
<1>10. InTime(ts)
  <2>1. \A i \in 1 .. Len(ts) : ts[i] <= now
    BY <1>5, <1>6, <1>7, <1>9
  <2>2. ASSUME NEW i \in 1 .. Len(ts), NEW j \in 1 .. Len(ts), i <= j PROVE ts[i] <= ts[j]
    <3>1. CASE j = Len(old) + 1
      BY <1>7, <2>1, <3>1
    <3>2. CASE j # Len(old) + 1
      <4>1. i \in 1 .. Len(old) /\ j \in 1 .. Len(old)
        BY <1>6, <1>7, <2>2, <3>2
      <4> QED
        BY <1>5, <1>7, <2>2, <4>1 DEF InTime
    <3> QED
      BY <3>1, <3>2
  <2> QED
    BY <2>1, <2>2 DEF InTime
<1>11. Spread(ts)
  <2> SUFFICES ASSUME NEW i \in 1 .. Len(ts), i > MaxFailures
               PROVE  ts[i - MaxFailures] < ts[i] - Window
    BY DEF Spread
  <2>1. CASE i = Len(old) + 1
    <3>1. i - MaxFailures \in 1 .. Len(old) - Len(p) /\ i - MaxFailures \in 1 .. Len(old)
      BY <1>5, <1>6, <2>1
    <3>2. old[i - MaxFailures] < now - Window
      BY <1>5, <3>1 DEF EndOf
    <3> QED
      BY <1>7, <2>1, <3>1, <3>2
  <2>2. CASE i # Len(old) + 1
    <3>1. i \in 1 .. Len(old) /\ i - MaxFailures \in 1 .. Len(old)
      BY <1>6, <1>7, <2>2
    <3> QED
      BY <1>5, <1>7, <3>1 DEF Spread
  <2> QED
    BY <2>1, <2>2
<1>12. EndOf(f, ts)
  <2> DEFINE gone == Len(old) - Len(p)
  <2>1. Len(ts) - Len(f) = gone /\ gone \in Nat
    BY <1>6, <1>7, <1>8
  <2>2. \A i \in 1 .. gone : ts[i] < now - Window
    <3> TAKE i \in 1 .. gone
    <3>1. i \in 1 .. Len(old) /\ old[i] < now - Window
      BY <1>5, <1>6 DEF EndOf
    <3> QED
      BY <1>7, <3>1
  <2>3. \A i \in 1 .. Len(f) : f[i] = ts[gone + i]
    <3> TAKE i \in 1 .. Len(f)
    <3>1. CASE i = Len(p) + 1
      <4>1. gone + i = Len(old) + 1
        BY <1>6, <3>1
      <4> QED
        BY <1>7, <1>8, <3>1, <4>1
    <3>2. CASE i # Len(p) + 1
      <4>1. i \in 1 .. Len(p) /\ gone + i \in 1 .. Len(old)
        BY <1>6, <1>8, <2>1, <3>2
      <4>2. p[i] = old[gone + i]
        BY <1>5, <4>1 DEF EndOf
      <4> QED
        BY <1>7, <1>8, <4>1, <4>2
    <3> QED
      BY <3>1, <3>2
  <2> HIDE DEF gone
  <2> QED
    BY <2>1, <2>2, <2>3 DEF EndOf
<1> QED
  BY <1>1, <1>2, <1>3, <1>4, <1>7, <1>8, <1>10, <1>11, <1>12

(* Nothing refused, nothing to hold.                                        *)
LEMMA NoneRefused == <<>> \in Times /\ InTime(<<>>) /\ Spread(<<>>) /\ EndOf(<<>>, <<>>)
BY DEF Times, InTime, Spread, EndOf

(* Every step keeps the throttle.                                           *)
LEMMA NextThrottle == ASSUME ThrottleInv, [LoginNext]_loginVars PROVE ThrottleInv'
<1>1. /\ now \in Nat /\ failures \in [Browser -> Times] /\ tried \in [Browser -> Times]
      /\ \A b \in Browser :
             InTime(tried[b]) /\ Spread(tried[b]) /\ EndOf(failures[b], tried[b])
  BY DEF ThrottleInv
<1>2. ASSUME NEW b \in Browser, NEW f \in Times, NEW ts \in Times,
             InTime(ts), Spread(ts), EndOf(f, ts), now' = now,
             failures' = [failures EXCEPT ![b] = f], tried' = [tried EXCEPT ![b] = ts]
      PROVE  ThrottleInv'
  <2>1. failures' \in [Browser -> Times] /\ tried' \in [Browser -> Times]
    BY <1>1, <1>2
  <2>2. \A c \in Browser : /\ failures'[c] = IF c = b THEN f ELSE failures[c]
                           /\ tried'[c] = IF c = b THEN ts ELSE tried[c]
    BY <1>1, <1>2
  <2>3. \A c \in Browser : /\ InTime(tried'[c]) /\ Spread(tried'[c])
                           /\ EndOf(failures'[c], tried'[c])
    BY <1>1, <1>2, <2>2
  <2>4. ASSUME NEW c \in Browser
        PROVE  InTime(tried[c])' /\ Spread(tried[c])' /\ EndOf(failures[c], tried[c])'
    <3>1. InTime(tried'[c]) /\ Spread(tried'[c]) /\ EndOf(failures'[c], tried'[c])
      BY <2>3
    <3>2. now' = now
      BY <1>2
    <3>3. InTime(tried[c])'
      BY <3>1, <3>2 DEF InTime
    <3>4. Spread(tried[c])'
      BY <3>1 DEF Spread
    <3>5. EndOf(failures[c], tried[c])'
      BY <3>1, <3>2 DEF EndOf
    <3> QED
      BY <3>3, <3>4, <3>5
  <2> QED
    BY <1>1, <1>2, <2>1, <2>4 DEF ThrottleInv
<1>3. ASSUME UNCHANGED <<now, failures, tried>> PROVE ThrottleInv'
  BY <1>3 DEF ThrottleInv, InTime, Spread, EndOf
<1>4. ASSUME NEW b \in Browser, Throttled(b) PROVE ThrottleInv'
  <2>1. failures' = [failures EXCEPT ![b] = Pruned(b)] /\ UNCHANGED <<now, tried>>
    BY <1>4 DEF Throttled
  <2>2. tried' = [tried EXCEPT ![b] = tried[b]]
    BY <1>1, <2>1
  <2>3. Pruned(b) \in Times /\ EndOf(Pruned(b), tried[b]) /\ tried[b] \in Times
    BY <1>1, PrunedIs
  <2> QED
    BY <1>1, <1>2, <2>1, <2>2, <2>3
<1>5. ASSUME NEW b \in Browser, LoginFails(b) PROVE ThrottleInv'
  <2>1. /\ failures' = [failures EXCEPT ![b] = Append(Pruned(b), now)]
        /\ tried' = [tried EXCEPT ![b] = Append(tried[b], now)]
        /\ now' = now /\ ~Blocked(b)
    BY <1>5 DEF LoginFails
  <2> QED
    BY <1>2, <2>1, RefusalKeeps
<1>6. ASSUME NEW b \in Browser, NEW u \in User, LoginSucceeds(b, u) PROVE ThrottleInv'
  <2>1. /\ failures' = [failures EXCEPT ![b] = <<>>] /\ tried' = [tried EXCEPT ![b] = <<>>]
        /\ now' = now
    BY <1>6 DEF LoginSucceeds
  <2> QED
    BY <1>2, <2>1, NoneRefused
<1>7. CASE TrackerStarts
  <2>1. /\ failures' = [b \in Browser |-> <<>>] /\ tried' = [b \in Browser |-> <<>>]
        /\ now' = now
    BY <1>7 DEF TrackerStarts
  <2>2. failures' \in [Browser -> Times] /\ tried' \in [Browser -> Times]
    BY <2>1, NoneRefused
  <2>3. \A b \in Browser : failures'[b] = <<>> /\ tried'[b] = <<>>
    BY <2>1
  <2>4. \A b \in Browser : /\ InTime(tried'[b]) /\ Spread(tried'[b])
                           /\ EndOf(failures'[b], tried'[b])
    BY <2>3, NoneRefused
  <2>5. \A b \in Browser : InTime(tried[b])' /\ Spread(tried[b])' /\ EndOf(failures[b], tried[b])'
    BY <2>1, <2>4 DEF InTime, Spread, EndOf
  <2> QED
    BY <1>1, <2>1, <2>2, <2>5 DEF ThrottleInv
<1>8. CASE LoginTick
  <2>1. now' = now + 1 /\ UNCHANGED <<failures, tried>>
    BY <1>8 DEF LoginTick, TimePasses
  <2>2. ASSUME NEW b \in Browser
        PROVE  InTime(tried[b])' /\ Spread(tried[b])' /\ EndOf(failures[b], tried[b])'
    <3>1. PICK ts : ts = tried[b]
      OBVIOUS
    <3>2. PICK f : f = failures[b]
      OBVIOUS
    <3>3. /\ ts \in Times /\ f \in Times /\ InTime(ts) /\ Spread(ts) /\ EndOf(f, ts)
          /\ Len(ts) \in Nat /\ Len(f) \in Nat /\ Window \in Nat
      BY <1>1, <3>1, <3>2, LoginAssumption DEF Times
    <3>4. \A i \in 1 .. Len(ts) : ts[i] \in Nat
      BY <3>3 DEF Times
    <3>5. \A i \in 1 .. Len(ts) : ts[i] <= now + 1
      BY <1>1, <3>3, <3>4 DEF InTime
    <3>6. \A i \in 1 .. Len(ts) - Len(f) : ts[i] < (now + 1) - Window
      <4> TAKE i \in 1 .. Len(ts) - Len(f)
      <4>1. ts[i] < now - Window /\ ts[i] \in Nat
        BY <3>3, <3>4 DEF EndOf
      <4> QED
        BY <1>1, <3>3, <4>1
    <3>7. InTime(ts)'
      BY <2>1, <3>3, <3>5 DEF InTime
    <3>8. Spread(ts)'
      BY <3>3 DEF Spread
    <3>9. EndOf(f, ts)'
      <4>1. \A i \in 1 .. Len(ts) - Len(f) : ts[i] < now' - Window
        <5>1. PICK later : later = now + 1
          OBVIOUS
        <5>2. \A i \in 1 .. Len(ts) - Len(f) : ts[i] < later - Window
          BY <3>6, <5>1, Zenon
        <5>3. now' = later
          BY <2>1, <5>1
        <5> QED
          BY <5>2, <5>3, Zenon
      <4>2. Len(ts) - Len(f) >= 0 /\ \A i \in 1 .. Len(f) : f[i] = ts[Len(ts) - Len(f) + i]
        BY <3>3 DEF EndOf
      <4> QED
        BY <4>1, <4>2 DEF EndOf
    <3>10. tried'[b] = ts /\ failures'[b] = f
      BY <2>1, <3>1, <3>2
    <3> QED
      BY <3>7, <3>8, <3>9, <3>10 DEF InTime, Spread, EndOf
  <2> QED
    BY <1>1, <2>1, <2>2 DEF ThrottleInv
<1>9. ASSUME NEW b \in Browser, Logout(b) PROVE ThrottleInv'
  BY <1>3, <1>9 DEF Logout
<1>10. ASSUME NEW b \in Browser, NEW kind, NEW f, NEW proxied, NEW same_origin,
              Serve(b, kind, f, proxied, same_origin)
       PROVE  ThrottleInv'
  BY <1>3, <1>10 DEF Serve
<1>11. CASE UNCHANGED loginVars
  BY <1>3, <1>11 DEF loginVars, siteVars
<1> QED
  BY <1>4, <1>5, <1>6, <1>7, <1>8, <1>9, <1>10, <1>11 DEF LoginNext

(* Whenever an address asks, however it waits and asks again in between, at *)
(* most MaxFailures passwords of it are looked at in any window, and it     *)
(* waits for as long as that many are in the window.                        *)
THEOREM AttemptsAreThrottled == LoginSpec => []ThrottleHolds
<1>1. LoginInit => ThrottleInv
  <2> SUFFICES ASSUME LoginInit PROVE ThrottleInv
    OBVIOUS
  <2>1. \A b \in Browser : failures[b] = <<>> /\ tried[b] = <<>>
    BY DEF LoginInit
  <2> QED
    BY <2>1, NoneRefused DEF LoginInit, ClockInit, ThrottleInv
<1>2. ThrottleInv /\ [LoginNext]_loginVars => ThrottleInv'
  BY NextThrottle
<1> QED
  BY <1>1, <1>2, PromiseHolds, PTL DEF LoginSpec

-----------------------------------------------------------------------------
(* The arithmetic of the Fund.                                              *)

SharesTypes ==
    /\ emission \in [Earner -> Nat]
    /\ reward \in [Earner -> Int] /\ kas \in [Earner -> Int]
    /\ share \in [Person -> Int] /\ soFar \in Int /\ amount \in Nat
    /\ stage \in {"provisional", "lines", "frozen", "shares", "done"}

(* The lines that are computed give all of their emission away; the floor   *)
(* is missed by the persons in `noise` alone, and what is written of those  *)
(* is nothing.                                                              *)
LinesSoFar ==
    /\ \A k \in Earner : stage # "provisional" \/ k \notin todo
                            => reward[k] + kas[k] \in Rounded(emission[k], 10)
    /\ stage # "provisional" => \A p \in Person \ noise : RewardSum(p, reward) >= Threshold
    /\ \A k \in Earner : Frozen \/ (stage = "lines" /\ k \notin todo)
                            => (Owner[k] \in noise => reward[k] = 0)

(* What the persons in S have contributed.                                  *)
Contributed(S) == SumFunctionOnSet([p \in Person |-> Contribution(p)], S)

(* The shares handed out so far, to all but those in `rest`: they add up to *)
(* the running total, each is as near as rounding allows, and so the error  *)
(* of the total is half a cent for each; who is left comes later.           *)
SharedOut(rest, part, sum) ==
    LET done == Person \ rest
        error == sum * total_emission - amount * Contributed(done)
    IN  /\ rest \subseteq Person /\ rest # {} /\ total_emission > 0
        /\ sum = SumFunctionOnSet(part, done)
        /\ \A p \in done : /\ 2 * (part[p] * total_emission - Contribution(p) * amount)
                                   <= total_emission
                           /\ 2 * (Contribution(p) * amount - part[p] * total_emission)
                                   <= total_emission
        /\ \A p \in done, q \in rest : Before(p, q)
        /\ 2 * error <= total_emission * Cardinality(done)
        /\ 2 * (0 - error) <= total_emission * Cardinality(done)

SharesInv == /\ SharesTypes
             /\ LinesSoFar
             /\ stage \in {"provisional", "lines", "frozen"} => soFar = 0
             /\ stage = "shares" => SharedOut(todo, share, soFar)
             /\ SharesAreFair

(* Rounding gives an integer, wrong by half a unit.                         *)
LEMMA RoundedIs ==
    ASSUME NEW n \in Int, NEW d \in Nat \ {0}, NEW q \in Rounded(n, d)
    PROVE  q \in Int /\ 2 * (n - q * d) <= d /\ 2 * (n - q * d) >= -d
BY DEF Rounded

(* What is rounded off the reward is not rounded off the line.              *)
LEMMA PartsMakeALine ==
    ASSUME NEW e \in Int, NEW r \in Int, NEW n \in Rounded(e - 10 * r, 10)
    PROVE  r + n \in Rounded(e, 10)
<1>1. (e - 10 * r) \div 10 = (e \div 10) - r
  OBVIOUS
<1>2. e \div 10 \in Int
  OBVIOUS
<1>3. n = (e \div 10) - r \/ n = (e \div 10) - r + 1
  BY <1>1 DEF Rounded
<1>4. n \in Int /\ 2 * ((e - 10 * r) - n * 10) \in -10 .. 10
  BY <1>2, <1>3 DEF Rounded
<1>5. 2 * (e - (r + n) * 10) = 2 * ((e - 10 * r) - n * 10)
  BY <1>4
<1> QED
  BY <1>2, <1>3, <1>4, <1>5 DEF Rounded

(* Hotkeys and persons are finitely many.                                   *)
LEMMA PersonsAreFinite ==
    /\ IsFiniteSet(Person) /\ Person \subseteq Int
    /\ \A p \in Person : IsFiniteSet(Wallets(p)) /\ Wallets(p) \subseteq Earner
<1>1. IsFiniteSet({Owner[k] : k \in Earner})
  BY SharesAssumption, ImageIsFinite
<1>2. IsFiniteSet(Person) /\ Cardinality(Person) \in Nat
  BY <1>1, SharesAssumption, FS_CardinalityType
<1>3. Person \subseteq Int
  BY <1>2, SharesAssumption
<1>4. ASSUME NEW p \in Person PROVE IsFiniteSet(Wallets(p)) /\ Wallets(p) \subseteq Earner
  BY SharesAssumption, FS_Subset DEF Wallets
<1> QED
  BY <1>2, <1>3, <1>4

(* Sums over a person's hotkeys are integers.                               *)
LEMMA SumsOfWallets ==
    ASSUME SharesTypes, NEW p \in Person
    PROVE  RewardSum(p, reward) \in Int /\ Contribution(p) \in Nat
<1>1. IsFiniteSet(Wallets(p)) /\ Wallets(p) \subseteq Earner
  BY PersonsAreFinite
<1>2. \A k \in Wallets(p) : reward[k] \in Int /\ emission[k] \in Nat
  BY <1>1 DEF SharesTypes
<1> QED
  BY <1>1, <1>2, SumType, SumNat DEF RewardSum, Contribution

(* So they are in the next state.                                           *)
RewardsAreCents == \A p \in Person : RewardSum(p, reward) \in Int
LEMMA RewardsAddUp == SharesTypes => RewardsAreCents
BY SumsOfWallets DEF RewardsAreCents
LEMMA RewardsAddUpAfter == SharesTypes' => RewardsAreCents'
BY RewardsAddUp, PTL

(* What one more person contributes is added; all contribute all there is.  *)
LEMMA ContributionsAddUp ==
    ASSUME SharesTypes
    PROVE  /\ total_emission = Contributed(Person) /\ total_emission \in Nat
           /\ \A S \in SUBSET Person : IsFiniteSet(S) /\ Contributed(S) \in Nat
           /\ \A S \in SUBSET Person, p \in Person :
                  p \notin S => Contributed(S \cup {p}) = Contribution(p) + Contributed(S)
<1>1. PICK C : C = [p \in Person |-> Contribution(p)]
  OBVIOUS
<1>2. \A p \in Person : C[p] \in Nat /\ C[p] = Contribution(p)
  BY <1>1, SumsOfWallets
<1>3. \A S \in SUBSET Person : IsFiniteSet(S)
  BY PersonsAreFinite, FS_Subset
<1>4. \A S \in SUBSET Person : Contributed(S) \in Nat
  <2> TAKE S \in SUBSET Person
  <2>1. \A p \in S : C[p] \in Nat
    BY <1>2
  <2> QED
    BY <1>1, <1>3, <2>1, SumNat DEF Contributed
<1>5. total_emission = Contributed(Person)
  BY <1>1 DEF total_emission, Contributed, SumFunction
<1>6. ASSUME NEW S \in SUBSET Person, NEW p \in Person, p \notin S
      PROVE  Contributed(S \cup {p}) = Contribution(p) + Contributed(S)
  <2>1. IsFiniteSet(S) /\ \A q \in S \cup {p} : C[q] \in Int
    BY <1>2, <1>3
  <2>2. SumFunctionOnSet(C, S \cup {p}) = C[p] + SumFunctionOnSet(C, S)
    BY <1>6, <2>1, SumAdd
  <2> QED
    BY <1>1, <1>2, <2>2 DEF Contributed
<1> QED
  BY <1>3, <1>4, <1>5, <1>6

(* What is given away and the floor follow from how the lines are written.  *)
LEMMA LinesHold == SharesTypes /\ LinesSoFar => LinesAddUp
<1> SUFFICES ASSUME SharesTypes, LinesSoFar, Frozen PROVE LinesAddUp
  BY DEF LinesAddUp
<1>1. \A k \in Earner : reward[k] + kas[k] \in Rounded(emission[k], 10)
  BY DEF LinesSoFar, Frozen
<1>2. ASSUME NEW p \in Person, p \in noise PROVE RewardSum(p, reward) = 0
  <2>1. IsFiniteSet(Wallets(p)) /\ \A k \in Wallets(p) : reward[k] = 0
    BY <1>2, PersonsAreFinite DEF LinesSoFar, Wallets
  <2> QED
    BY <2>1, SumZero DEF RewardSum
<1>3. ASSUME NEW p \in Person, p \notin noise PROVE RewardSum(p, reward) >= Threshold
  BY <1>3 DEF LinesSoFar, Frozen
<1> QED
  BY <1>1, <1>2, <1>3 DEF LinesAddUp

(* A provisional line; with the last, who misses the floor is known.        *)
LEMMA ProvisionalKeeps ==
    ASSUME SharesInv, NEW k \in Earner, Provisional(k)
    PROVE  SharesInv'
<1>1. SharesTypes /\ LinesSoFar /\ stage = "provisional" /\ k \in todo
  BY DEF SharesInv, Provisional
<1>2. PICK r, n : /\ r \in RewardOf(emission[k]) /\ n \in KasOf(emission[k], r)
                  /\ reward' = [reward EXCEPT ![k] = r] /\ kas' = [kas EXCEPT ![k] = n]
  BY DEF Provisional
<1>3. emission[k] \in Nat /\ 3 * emission[k] \in Int
  BY <1>1 DEF SharesTypes
<1>4. r \in Int
  <2>1. r \in Rounded(3 * emission[k], 100) /\ 100 \in Nat \ {0}
    BY <1>2 DEF RewardOf
  <2> QED
    BY <1>3, <2>1, RoundedIs
<1>5. n \in Int /\ r + n \in Rounded(emission[k], 10)
  <2>1. n \in Rounded(emission[k] - 10 * r, 10) /\ 10 \in Nat \ {0}
    BY <1>2 DEF KasOf
  <2>2. emission[k] - 10 * r \in Int /\ emission[k] \in Int
    BY <1>3, <1>4
  <2>3. n \in Int
    BY <2>1, <2>2, RoundedIs
  <2> QED
    BY <1>4, <2>1, <2>2, <2>3, PartsMakeALine
<1>6. /\ UNCHANGED <<emission, amount, share, soFar>>
      /\ \/ stage' = "lines" /\ todo = {k} /\ todo' = Earner /\ noise' = NoisePersons(reward')
         \/ stage' = stage /\ todo' = todo \ {k} /\ noise' = noise
  BY DEF Provisional
<1>7. SharesTypes'
  BY <1>1, <1>2, <1>4, <1>5, <1>6 DEF SharesTypes
<1>8. \A j \in Earner : /\ reward'[j] = IF j = k THEN r ELSE reward[j]
                        /\ kas'[j] = IF j = k THEN n ELSE kas[j]
  BY <1>1, <1>2 DEF SharesTypes
<1>9. \A j \in Earner : stage' # "provisional" \/ j \notin todo'
                           => reward'[j] + kas'[j] \in Rounded(emission[j], 10)
  <2> TAKE j \in Earner
  <2>1. CASE j = k
    BY <1>5, <1>8, <2>1
  <2>2. CASE j # k
    <3>1. stage' # "provisional" \/ j \notin todo' => j \notin todo
      BY <1>1, <1>6, <2>2
    <3> QED
      BY <1>1, <1>8, <2>2, <3>1 DEF LinesSoFar
  <2> QED
    BY <2>1, <2>2
<1>10. stage' # "provisional" => \A p \in Person \ noise' : RewardSum(p, reward)' >= Threshold
  <2> SUFFICES ASSUME stage' # "provisional", NEW p \in Person \ noise'
               PROVE  RewardSum(p, reward)' >= Threshold
    OBVIOUS
  <2>1. ~(RewardSum(p, reward') < Threshold)
    BY <1>1, <1>6 DEF NoisePersons
  <2>2. RewardSum(p, reward)' = RewardSum(p, reward')
    BY DEF RewardSum, Wallets
  <2>3. RewardSum(p, reward)' \in Int
    BY <1>7, RewardsAddUpAfter DEF RewardsAreCents
  <2> QED
    BY <2>1, <2>2, <2>3, SharesAssumption
<1>11. LinesSoFar'
  <2>1. ~Frozen' /\ ~(stage' = "lines" /\ \E j \in Earner : j \notin todo')
    BY <1>1, <1>6 DEF Frozen
  <2> QED
    BY <1>6, <1>9, <1>10, <2>1 DEF LinesSoFar
<1>12. stage' # "shares" /\ stage' # "done" /\ soFar' = 0
  BY <1>1, <1>6 DEF SharesInv
<1> QED
  BY <1>7, <1>11, <1>12 DEF SharesInv, SharesAreFair

(* A line is written; a noise person's goes to the Fund.                    *)
LEMMA WriteLineKeeps ==
    ASSUME SharesInv, NEW k \in Earner, WriteLine(k)
    PROVE  SharesInv'
<1>1. SharesTypes /\ LinesSoFar /\ stage = "lines" /\ k \in todo
  BY DEF SharesInv, WriteLine
<1>2. /\ UNCHANGED <<emission, noise, amount, share, soFar>>
      /\ stage' \in {"lines", "frozen"} /\ todo' = todo \ {k}
      /\ stage' = "frozen" => todo = {k}
  BY <1>1 DEF WriteLine
<1>3. PICK r, n :
          /\ reward' = [reward EXCEPT ![k] = r] /\ kas' = [kas EXCEPT ![k] = n]
          /\ \/ Owner[k] \in noise /\ r = 0 /\ n \in Rounded(emission[k], 10)
             \/ Owner[k] \notin noise /\ r = reward[k] /\ n = kas[k]
  <2>1. CASE Owner[k] \in noise
    BY <2>1 DEF WriteLine
  <2>2. CASE Owner[k] \notin noise
    <3>1. reward' = reward /\ kas' = kas
      BY <2>2 DEF WriteLine
    <3>2. reward' = [reward EXCEPT ![k] = reward[k]] /\ kas' = [kas EXCEPT ![k] = kas[k]]
      BY <1>1, <3>1 DEF SharesTypes
    <3> QED
      BY <2>2, <3>2
  <2> QED
    BY <2>1, <2>2
<1>4. r \in Int /\ n \in Int /\ r + n \in Rounded(emission[k], 10)
  <2>1. CASE Owner[k] \in noise
    <3>1. emission[k] \in Int
      BY <1>1 DEF SharesTypes
    <3>2. n \in Int /\ r = 0 /\ n \in Rounded(emission[k], 10)
      BY <1>3, <2>1, <3>1, RoundedIs
    <3> QED
      BY <3>2
  <2>2. CASE Owner[k] \notin noise
    BY <1>1, <1>3, <2>2 DEF SharesTypes, LinesSoFar
  <2> QED
    BY <2>1, <2>2
<1>5. SharesTypes'
  BY <1>1, <1>2, <1>3, <1>4 DEF SharesTypes
<1>6. \A j \in Earner : /\ reward'[j] = IF j = k THEN r ELSE reward[j]
                        /\ kas'[j] = IF j = k THEN n ELSE kas[j]
  BY <1>1, <1>3 DEF SharesTypes
<1>7. \A j \in Earner : reward'[j] + kas'[j] \in Rounded(emission[j], 10)
  BY <1>1, <1>4, <1>6 DEF LinesSoFar
<1>8. \A p \in Person \ noise : RewardSum(p, reward)' >= Threshold
  <2> TAKE p \in Person \ noise
  <2>1. IsFiniteSet(Wallets(p)) /\ Wallets(p) \subseteq Earner
    BY PersonsAreFinite
  <2>2. \A j \in Wallets(p) : reward'[j] = reward[j]
    BY <1>3, <1>6, <2>1 DEF Wallets
  <2>3. SumFunctionOnSet(reward', Wallets(p)) = SumFunctionOnSet(reward, Wallets(p))
    BY <2>1, <2>2, SumAgrees
  <2>4. RewardSum(p, reward)' = RewardSum(p, reward)
    BY <2>3 DEF RewardSum, Wallets
  <2> QED
    BY <1>1, <2>4 DEF LinesSoFar
<1>9. \A j \in Earner : j \notin todo' => (Owner[j] \in noise => reward'[j] = 0)
  BY <1>1, <1>2, <1>3, <1>6 DEF LinesSoFar
<1>10. stage' = "frozen" => todo' = {}
  BY <1>2
<1>11. LinesSoFar'
  BY <1>2, <1>7, <1>8, <1>9, <1>10 DEF LinesSoFar, Frozen
<1>12. stage' # "shares" /\ stage' # "done" /\ soFar' = 0
  BY <1>1, <1>2 DEF SharesInv
<1> QED
  BY <1>5, <1>11, <1>12 DEF SharesInv, SharesAreFair

(* Nothing of the lines changes once they are frozen.                       *)
LEMMA FrozenKeeps ==
    ASSUME SharesTypes, LinesSoFar, Frozen, Frozen', UNCHANGED <<emission, reward, kas, noise>>
    PROVE  LinesSoFar'
<1>1. \A p \in Person : RewardSum(p, reward)' = RewardSum(p, reward)
  BY DEF RewardSum, Wallets
<1> QED
  BY <1>1 DEF LinesSoFar, Frozen

(* Who comes before whom is an order.                                       *)
LEMMA BeforeIsOrder ==
    ASSUME SharesTypes, NEW p \in Person, NEW q \in Person, Before(p, q)
    PROVE  ~Before(q, p) /\ p # q
<1>1. Contribution(p) \in Nat /\ Contribution(q) \in Nat /\ p \in Int /\ q \in Int
  BY SumsOfWallets, PersonsAreFinite
<1> QED
  BY <1>1 DEF Before

(* Emission apart, nothing changes what was contributed.                    *)
LEMMA SameContributions ==
    ASSUME UNCHANGED emission
    PROVE  /\ total_emission' = total_emission
           /\ \A p : Contribution(p)' = Contribution(p)
           /\ \A S : Contributed(S)' = Contributed(S)
           /\ \A p, q : Before(p, q)' <=> Before(p, q)
<1>1. \A p : Contribution(p)' = Contribution(p)
  BY DEF Contribution, Wallets
<1> QED
  BY <1>1 DEF Contributed, total_emission, Before

(* So what is handed out of the same amount is handed out in the next state. *)
LEMMA SharedOutAfter ==
    ASSUME UNCHANGED <<emission, amount>>, SharedOut(todo', share', soFar')
    PROVE  SharedOut(todo, share, soFar)'
BY SameContributions DEF SharedOut

(* The preview starts with nothing handed out.                              *)
LEMMA StartPreviewKeeps ==
    ASSUME SharesInv, NEW n \in Amounts, StartPreview(n)
    PROVE  SharesInv'
<1>1. SharesTypes /\ LinesSoFar /\ stage = "frozen" /\ soFar = 0
  BY DEF SharesInv, StartPreview
<1>2. /\ UNCHANGED <<emission, reward, kas, noise, share, soFar>>
      /\ amount' = n /\ todo' = Person
      /\ stage' = IF total_emission = 0 THEN "done" ELSE "shares"
  BY DEF StartPreview
<1>3. n \in Nat
  BY SharesAssumption
<1>4. SharesTypes'
  BY <1>1, <1>2, <1>3 DEF SharesTypes
<1>5. LinesSoFar'
  BY <1>1, <1>2, FrozenKeeps DEF Frozen
<1>6. /\ total_emission \in Nat /\ total_emission = Contributed(Person)
      /\ Contributed({}) = 0
  BY <1>1, ContributionsAddUp, SumEmpty DEF Contributed
<1>7. total_emission' = total_emission /\ Contributed({})' = Contributed({})
  BY <1>2, SameContributions
<1>8. CASE total_emission = 0
  <2>1. stage' = "done" /\ total_emission' = 0
    BY <1>2, <1>7, <1>8
  <2> QED
    BY <1>4, <1>5, <2>1 DEF SharesInv, SharesAreFair
<1>9. CASE total_emission # 0
  <2>1. Person # {} /\ Person \ Person = {} /\ Cardinality({}) = 0
    BY <1>6, <1>9, FS_EmptySet
  <2>2. SumFunctionOnSet(share, {}) = 0
    BY SumEmpty
  <2>3. /\ SharedOut(todo, share, soFar)'
    <3>1. todo' = Person /\ soFar' = 0 /\ share' = share /\ amount' = n
      BY <1>1, <1>2
    <3>2. total_emission' > 0 /\ Contributed({})' = 0
      BY <1>6, <1>7, <1>9
    <3>3. 0 * total_emission' - n * 0 = 0 /\ total_emission' * 0 = 0
      BY <1>3, <1>6, <1>7
    <3> QED
      BY <2>1, <2>2, <3>1, <3>2, <3>3 DEF SharedOut
  <2>4. stage' = "shares"
    BY <1>2, <1>9
  <2> QED
    BY <1>4, <1>5, <2>3, <2>4 DEF SharesInv, SharesAreFair
<1> QED
  BY <1>8, <1>9

(* One share more adds its own error, half a cent, to the total's.          *)
LEMMA OneMoreShare ==
    ASSUME NEW T \in Nat, NEW A \in Nat, NEW sum \in Int, NEW given \in Nat, NEW m \in Nat,
           NEW c \in Nat, NEW s \in Int,
           2 * (sum * T - A * given) <= T * m, 2 * (0 - (sum * T - A * given)) <= T * m,
           2 * (s * T - c * A) <= T, 2 * (c * A - s * T) <= T
    PROVE  /\ 2 * ((sum + s) * T - A * (c + given)) <= T * (m + 1)
           /\ 2 * (0 - ((sum + s) * T - A * (c + given))) <= T * (m + 1)
<1>1. (sum + s) * T = sum * T + s * T
  OBVIOUS
<1>2. A * (c + given) = c * A + A * given
  OBVIOUS
<1>3. T * (m + 1) = T * m + T
  OBVIOUS
<1>4. PICK x, y, z, u, w : x = sum * T /\ y = s * T /\ z = c * A /\ u = A * given /\ w = T * m
  OBVIOUS
<1>5. x \in Int /\ y \in Int /\ z \in Int /\ u \in Int /\ w \in Int
  BY <1>4
<1>6. /\ 2 * ((x + y) - (z + u)) <= w + T
      /\ 2 * (0 - ((x + y) - (z + u))) <= w + T
  BY <1>4, <1>5
<1> QED
  BY <1>1, <1>2, <1>3, <1>4, <1>6

(* The next gets a share.                                                   *)
LEMMA ShareOfKeeps ==
    ASSUME SharesInv, NEW p \in Person, ShareOf(p)
    PROVE  SharesInv'
<1> DEFINE done == Person \ todo
           T == total_emission
<1>1. SharesTypes /\ LinesSoFar /\ stage = "shares" /\ SharedOut(todo, share, soFar)
  BY DEF SharesInv, ShareOf
<1>2. /\ p \in todo /\ todo # {p} /\ \A q \in todo \ {p} : Before(p, q)
      /\ todo' = todo \ {p}
      /\ UNCHANGED <<emission, reward, kas, noise, stage, amount>>
  BY DEF ShareOf, IsNext
<1>3. PICK s : /\ s \in Rounded(Contribution(p) * amount, T)
               /\ share' = [share EXCEPT ![p] = s] /\ soFar' = soFar + s
  BY DEF ShareOf
<1>4. /\ T \in Nat \ {0} /\ amount \in Nat /\ Contribution(p) \in Nat /\ soFar \in Int
      /\ done \in SUBSET Person /\ IsFiniteSet(done) /\ Contributed(done) \in Nat
      /\ \A q \in Person : share[q] \in Int
  BY <1>1, SumsOfWallets, ContributionsAddUp DEF SharesTypes, SharedOut
<1>5. /\ s \in Int /\ 2 * (s * T - Contribution(p) * amount) <= T
      /\ 2 * (Contribution(p) * amount - s * T) <= T
  <2>1. Contribution(p) * amount \in Int
    BY <1>4
  <2>2. s \in Int /\ 2 * (Contribution(p) * amount - s * T) <= T
                  /\ 2 * (Contribution(p) * amount - s * T) >= -T
    BY <1>3, <1>4, <2>1, RoundedIs
  <2>3. PICK x, y : x = Contribution(p) * amount /\ y = s * T
    OBVIOUS
  <2>4. x \in Int /\ y \in Int /\ 2 * (x - y) <= T /\ 2 * (x - y) >= -T
    BY <1>4, <2>1, <2>2, <2>3
  <2>5. 2 * (y - x) <= T /\ 2 * (x - y) <= T
    BY <1>4, <2>4
  <2> QED
    BY <2>2, <2>3, <2>5
<1>6. SharesTypes'
  BY <1>1, <1>2, <1>3, <1>4, <1>5 DEF SharesTypes
<1>7. LinesSoFar'
  BY <1>1, <1>2, FrozenKeeps DEF Frozen
<1>8. /\ p \notin done /\ Person \ todo' = done \cup {p} /\ todo' \subseteq Person /\ todo' # {}
      /\ \A q \in Person : share'[q] = IF q = p THEN s ELSE share[q]
  BY <1>1, <1>2, <1>3 DEF SharedOut, SharesTypes
<1> HIDE DEF done, T
<1>9. soFar' = SumFunctionOnSet(share', done \cup {p})
  <2>1. \A q \in done \cup {p} : share'[q] \in Int
    BY <1>4, <1>5, <1>8
  <2>2. SumFunctionOnSet(share', done \cup {p}) = share'[p] + SumFunctionOnSet(share', done)
    BY <1>4, <1>8, <2>1, SumAdd
  <2>3. SumFunctionOnSet(share', done) = SumFunctionOnSet(share, done)
    BY <1>4, <1>8, SumAgrees
  <2>4. soFar = SumFunctionOnSet(share, done)
    BY <1>1 DEF SharedOut, done
  <2>5. share'[p] = s
    BY <1>8
  <2> QED
    BY <1>3, <1>4, <1>5, <2>2, <2>3, <2>4, <2>5
<1>10. Contributed(done \cup {p}) = Contribution(p) + Contributed(done)
  BY <1>1, <1>4, <1>8, ContributionsAddUp
<1>11. Cardinality(done) \in Nat /\ Cardinality(done \cup {p}) = Cardinality(done) + 1
  BY <1>4, <1>8, FS_AddElement, FS_CardinalityType
<1>12. \A q \in done \cup {p} :
          /\ 2 * (share'[q] * T - Contribution(q) * amount) <= T
          /\ 2 * (Contribution(q) * amount - share'[q] * T) <= T
  <2>1. \A q \in done : /\ 2 * (share[q] * T - Contribution(q) * amount) <= T
                        /\ 2 * (Contribution(q) * amount - share[q] * T) <= T
    BY <1>1 DEF SharedOut, done, T
  <2>2. \A q \in done : share'[q] = share[q]
    BY <1>4, <1>8
  <2>3. share'[p] = s
    BY <1>8
  <2> QED
    BY <1>5, <2>1, <2>2, <2>3
<1>13. \A q \in done \cup {p}, r \in todo' : Before(q, r)
  <2>1. \A q \in done, r \in todo : Before(q, r)
    BY <1>1 DEF SharedOut, done
  <2> QED
    BY <1>2, <2>1
<1>14. /\ 2 * (soFar' * T - amount * Contributed(done \cup {p}))
              <= T * Cardinality(done \cup {p})
       /\ 2 * (0 - (soFar' * T - amount * Contributed(done \cup {p})))
              <= T * Cardinality(done \cup {p})
  <2>1. /\ 2 * (soFar * T - amount * Contributed(done)) <= T * Cardinality(done)
        /\ 2 * (0 - (soFar * T - amount * Contributed(done))) <= T * Cardinality(done)
    BY <1>1 DEF SharedOut, done, T
  <2>2. PICK m : m = Cardinality(done)
    OBVIOUS
  <2>3. PICK given : given = Contributed(done)
    OBVIOUS
  <2>4. /\ 2 * ((soFar + s) * T - amount * (Contribution(p) + given)) <= T * (m + 1)
        /\ 2 * (0 - ((soFar + s) * T - amount * (Contribution(p) + given))) <= T * (m + 1)
    BY <1>4, <1>5, <1>11, <2>1, <2>2, <2>3, OneMoreShare
  <2> QED
    BY <1>3, <1>10, <1>11, <2>2, <2>3, <2>4
<1>15. SharedOut(todo', share', soFar')
  <2>1. T > 0
    BY <1>4
  <2> QED
    BY <1>8, <1>9, <1>12, <1>13, <1>14, <2>1 DEF SharedOut, T
<1>16. SharedOut(todo, share, soFar)'
  BY <1>2, <1>15, SharedOutAfter
<1> QED
  BY <1>1, <1>2, <1>6, <1>7, <1>16 DEF SharesInv, SharesAreFair

(* The last gets what is left: all is given away, and what the others were  *)
(* given too much or too little is the last one's.                          *)
LEMMA LastShareKeeps ==
    ASSUME SharesInv, NEW p \in Person, LastShare(p)
    PROVE  SharesInv'
<1> DEFINE done == Person \ {p}
           T == total_emission
<1>1. /\ SharesTypes /\ LinesSoFar /\ stage = "shares" /\ SharedOut(todo, share, soFar)
      /\ todo = {p}
  BY DEF SharesInv, LastShare
<1>2. /\ share' = [share EXCEPT ![p] = amount - soFar] /\ stage' = "done"
      /\ UNCHANGED <<emission, reward, kas, noise, amount, soFar>>
  BY DEF LastShare
<1>3. /\ T \in Nat \ {0} /\ amount \in Nat /\ Contribution(p) \in Nat /\ soFar \in Int
      /\ done \in SUBSET Person /\ IsFiniteSet(done) /\ Contributed(done) \in Nat
      /\ \A q \in Person : share[q] \in Int /\ Contribution(q) \in Nat
  BY <1>1, SumsOfWallets, ContributionsAddUp DEF SharesTypes, SharedOut
<1>4. SharesTypes'
  BY <1>1, <1>2, <1>3 DEF SharesTypes
<1>5. LinesSoFar'
  BY <1>1, <1>2, FrozenKeeps DEF Frozen
<1>6. /\ p \notin done /\ Person = done \cup {p} /\ DOMAIN share' = Person
      /\ \A q \in Person : share'[q] = IF q = p THEN amount - soFar ELSE share[q]
  BY <1>1, <1>2 DEF SharesTypes
<1>7. /\ soFar = SumFunctionOnSet(share, done)
      /\ \A q \in done : /\ 2 * (share[q] * T - Contribution(q) * amount) <= T
                         /\ 2 * (Contribution(q) * amount - share[q] * T) <= T
      /\ \A q \in done : Before(q, p)
      /\ 2 * (soFar * T - amount * Contributed(done)) <= T * Cardinality(done)
      /\ 2 * (0 - (soFar * T - amount * Contributed(done))) <= T * Cardinality(done)
  BY <1>1 DEF SharedOut
<1>8. T = Contribution(p) + Contributed(done)
  BY <1>1, <1>3, <1>6, ContributionsAddUp
<1> HIDE DEF done, T
<1>9. SumFunction(share') = amount
  <2>1. \A q \in done \cup {p} : share'[q] \in Int
    BY <1>3, <1>6
  <2>2. SumFunctionOnSet(share', done \cup {p}) = share'[p] + SumFunctionOnSet(share', done)
    BY <1>3, <1>6, <2>1, SumAdd
  <2>3. SumFunctionOnSet(share', done) = SumFunctionOnSet(share, done)
    BY <1>3, <1>6, SumAgrees
  <2>4. share'[p] = amount - soFar
    BY <1>6
  <2>5. SumFunctionOnSet(share', Person) = amount
    BY <1>3, <1>6, <1>7, <2>2, <2>3, <2>4
  <2> QED
    BY <1>6, <2>5 DEF SumFunction
<1>10. Cardinality(done) \in Nat /\ Cardinality(Person) = Cardinality(done) + 1
  BY <1>3, <1>6, FS_AddElement, FS_CardinalityType
<1>11. PICK most : /\ most = Max({1, Cardinality(Person) - 1})
                   /\ most \in Nat /\ most >= Cardinality(done)
  <2>1. PICK m : m = Cardinality(Person) - 1
    OBVIOUS
  <2>2. m = Cardinality(done) /\ m \in Nat
    BY <1>10, <2>1
  <2>3. \E x \in {1, m} : \A y \in {1, m} : x >= y
    BY <2>2
  <2>4. Max({1, m}) \in {1, m} /\ \A y \in {1, m} : Max({1, m}) >= y
    BY <2>3, Zenon DEF Max
  <2> QED
    BY <2>1, <2>2, <2>4
<1>12. ASSUME NEW q \in done
       PROVE  2 * Distance(q)' <= T /\ \E r \in Person : Before(q, r)
  <2>1. share'[q] = share[q] /\ Distance(q)' = LET d == share[q] * T - Contribution(q) * amount
                                              IN  IF d < 0 THEN -d ELSE d
    BY <1>2, <1>3, <1>6, <1>12, SameContributions DEF Distance, T
  <2>2. /\ 2 * (share[q] * T - Contribution(q) * amount) <= T
        /\ 2 * (Contribution(q) * amount - share[q] * T) <= T
    BY <1>7, <1>12
  <2>3. PICK x, y : x = share[q] * T /\ y = Contribution(q) * amount
    OBVIOUS
  <2>4. x \in Int /\ y \in Int
    BY <1>3, <1>12, <2>3
  <2>5. 2 * (IF x - y < 0 THEN -(x - y) ELSE x - y) <= T
    BY <1>3, <2>2, <2>3, <2>4
  <2> QED
    BY <1>7, <1>12, <2>1, <2>3, <2>5
<1>13. 2 * Distance(p)' <= T * most /\ ~\E r \in Person : Before(p, r)
  <2>1. Distance(p)' = LET d == (amount - soFar) * T - Contribution(p) * amount
                       IN  IF d < 0 THEN -d ELSE d
    <3>1. share'[p] = amount - soFar
      BY <1>6
    <3> QED
      BY <1>2, <3>1, SameContributions DEF Distance, T
  <2>2. PICK given : given = Contributed(done)
    OBVIOUS
  <2>3. PICK m : m = Cardinality(done)
    OBVIOUS
  <2>4. PICK error : error = soFar * T - amount * given
    OBVIOUS
  <2>5. given \in Nat /\ m \in Nat /\ error \in Int /\ T = Contribution(p) + given
    BY <1>3, <1>8, <1>10, <2>2, <2>3, <2>4
  <2>6. (amount - soFar) * T - Contribution(p) * amount = -error
    <3>1. (amount - soFar) * T = amount * T - soFar * T
      BY <1>3
    <3>2. amount * T = Contribution(p) * amount + amount * given
      BY <1>3, <2>5
    <3>3. PICK x, y, z, u :
            x = amount * T /\ y = soFar * T /\ z = Contribution(p) * amount /\ u = amount * given
      OBVIOUS
    <3>4. x \in Int /\ y \in Int /\ z \in Int /\ u \in Int
      BY <1>3, <2>5, <3>3
    <3>5. (x - y) - z = -(y - u)
      BY <3>2, <3>3, <3>4
    <3> QED
      BY <2>4, <3>1, <3>3, <3>5
  <2>7. T * m <= T * most
    <3>1. PICK more : more = most - m
      OBVIOUS
    <3>2. more \in Nat /\ most = m + more
      BY <1>10, <1>11, <2>3, <3>1
    <3>3. T * most = T * m + T * more /\ T * more \in Nat /\ T * m \in Nat
      BY <1>3, <2>5, <3>2
    <3> QED
      BY <3>3
  <2>8. 2 * error <= T * most /\ 2 * (0 - error) <= T * most
    <3>1. 2 * error <= T * m /\ 2 * (0 - error) <= T * m
      BY <1>7, <2>2, <2>3, <2>4
    <3>2. T * m \in Int /\ T * most \in Int
      BY <1>3, <1>11, <2>5
    <3>3. PICK x, y : x = T * m /\ y = T * most
      OBVIOUS
    <3> QED
      BY <2>5, <2>7, <3>1, <3>2, <3>3
  <2>9. 2 * (IF -error < 0 THEN -(-error) ELSE -error) <= T * most
    BY <2>5, <2>8
  <2>10. \A r \in Person : ~Before(p, r)
    <3> TAKE r \in Person
    <3>1. CASE r = p
      BY <1>1, <3>1, BeforeIsOrder
    <3>2. CASE r # p
      <4>1. r \in done
        BY <1>6, <3>2
      <4>2. Before(r, p)
        BY <1>7, <4>1
      <4> QED
        BY <1>1, <4>2, BeforeIsOrder
    <3> QED
      BY <3>1, <3>2
  <2> QED
    BY <2>1, <2>6, <2>9, <2>10
<1>14. SharesAreFair'
  <2>1. /\ total_emission' = T /\ \A q, r : Before(q, r)' <=> Before(q, r)
    BY <1>2, SameContributions DEF T
  <2>2. SumFunction(share)' = amount'
    BY <1>2, <1>9
  <2>3. ASSUME NEW q \in Person
        PROVE  2 * Distance(q)' <=
                   T * (IF \E r \in Person : Before(q, r) THEN 1
                        ELSE Max({1, Cardinality(Person) - 1}))
    <3>1. CASE q = p
      BY <1>11, <1>13, <3>1
    <3>2. CASE q # p
      <4>1. q \in done
        BY <1>6, <3>2
      <4>2. 2 * Distance(q)' <= T /\ \E r \in Person : Before(q, r)
        BY <1>12, <4>1
      <4>3. T * 1 = T
        BY <1>3
      <4> QED
        BY <4>2, <4>3
    <3> QED
      BY <3>1, <3>2
  <2> QED
    BY <2>1, <2>2, <2>3 DEF SharesAreFair
<1> QED
  BY <1>2, <1>4, <1>5, <1>14 DEF SharesInv

(* Nothing is computed at the start.                                        *)
LEMMA SharesStart == SharesInit => SharesInv
<1> SUFFICES ASSUME SharesInit PROVE SharesInv
  OBVIOUS
<1>1. emission \in [Earner -> Nat]
  BY SharesAssumption DEF SharesInit
<1>2. SharesTypes
  BY <1>1 DEF SharesInit, SharesTypes, Zero
<1>3. LinesSoFar
  BY DEF SharesInit, LinesSoFar, Frozen
<1> QED
  BY <1>2, <1>3 DEF SharesInit, SharesInv, SharesAreFair

(* Every step keeps the arithmetic.                                         *)
LEMMA SharesNextInv == ASSUME SharesInv, [SharesNext]_shareVars PROVE SharesInv'
<1>1. CASE UNCHANGED shareVars
  <2>1. /\ UNCHANGED emission /\ UNCHANGED <<reward, kas, noise, todo, stage, amount, share, soFar>>
    BY <1>1 DEF shareVars
  <2>2. SharesTypes'
    BY <2>1 DEF SharesInv, SharesTypes
  <2>3. LinesSoFar'
    <3>1. \A p \in Person : RewardSum(p, reward)' = RewardSum(p, reward)
      BY <2>1 DEF RewardSum, Wallets
    <3> QED
      BY <2>1, <3>1 DEF SharesInv, LinesSoFar, Frozen
  <2>4. stage = "shares" => SharedOut(todo, share, soFar)'
    BY <2>1, SharedOutAfter DEF SharesInv
  <2>5. SharesAreFair'
    <3>1. \A p \in Person : Distance(p)' = Distance(p)
      BY <2>1, SameContributions DEF Distance
    <3> QED
      BY <2>1, <3>1, SameContributions DEF SharesInv, SharesAreFair
  <2> QED
    BY <2>1, <2>2, <2>3, <2>4, <2>5 DEF SharesInv
<1> QED
  BY <1>1, ProvisionalKeeps, WriteLineKeeps, StartPreviewKeeps, ShareOfKeeps, LastShareKeeps
     DEF SharesNext

(* What is computed is right for any emissions, owners, floor and amounts.  *)
LEMMA SharesStayRight == SharesSpec => []SharesInv
<1>1. SharesInv /\ [SharesNext]_shareVars => SharesInv'
  BY SharesNextInv
<1> QED
  BY <1>1, SharesStart, PTL DEF SharesSpec

(* No cent of a period is lost or made, and nobody is paid less than the    *)
(* floor, however many hotkeys a person has and however ties round.         *)
THEOREM NoCentIsLost == SharesSpec => []LinesAddUp
<1>1. SharesInv => LinesAddUp
  BY LinesHold DEF SharesInv
<1> QED
  BY <1>1, SharesStayRight, PTL

(* A distribution is handed out to the cent, whatever the number of         *)
(* contributors, and nobody's share is further off than rounding the others' *)
(* made it.                                                                 *)
THEOREM SharesStayFair == SharesSpec => []SharesAreFair
<1>1. SharesInv => SharesAreFair
  BY DEF SharesInv
<1> QED
  BY <1>1, SharesStayRight, PTL
=============================================================================
