---------------------------- MODULE RateLimiter ----------------------------
(* The token bucket every TaoStats caller shares (rate_limiter.py), and the *)
(* requests a caller makes once it has its token (taostats_client.py): the  *)
(* first, and retries that ask the bucket nothing.                          *)
(* Time is in ticks; the bucket's content is counted in ticks of refill, so *)
(* a token is Refill of them.                                               *)
EXTENDS Clock, Integers, Sequences, FiniteSets

CONSTANTS
    Caller,       \* the threads: snapshot jobs, balance runs, price readers
    Capacity,     \* tokens in a full bucket
    Refill,       \* ticks until one more token
    MaxRetries,   \* max_retries of the client
    Backoff,      \* ticks before the first retry, doubled each time
    LimitBackoff, \* as many after a 429
    MaxStepBack   \* bound: how far the wall clock is set back

ASSUME RateAssumption == /\ Capacity \in Nat \ {0} /\ Refill \in Nat \ {0}
                         /\ MaxRetries \in Nat /\ {Backoff, LimitBackoff} \subseteq Nat
                         /\ MaxStepBack \in Nat

VARIABLES
    wall,         \* time.time()
    tokens,       \* _tokens
    last_refill,  \* _last_refill, by the wall clock; ahead of it while callers sleep
    call,         \* caller |-> where it is
    drawn         \* history: when each token's request, a call's first, was sent

bucketVars == <<wall, tokens, last_refill, call, drawn>>
rateVars == <<now, wall, tokens, last_refill, call, drawn>>

(* "asleep" in acquire, "sent" until an answer, "backoff" before a retry.   *)
Call == [pc : {"idle", "asleep", "sent", "backoff"}, until : Nat, attempt : 0 .. MaxRetries]
IdleCall == [pc |-> "idle", until |-> 0, attempt |-> 0]

RateTypeOK == /\ now \in 0 .. MaxTime
              /\ wall \in Int
              /\ tokens \in 0 .. Capacity * Refill
              /\ last_refill \in Int
              /\ call \in [Caller -> Call]
              /\ drawn \in Seq(0 .. MaxTime)

RateInit == /\ ClockInit
            /\ wall = 0
            /\ tokens = Capacity * Refill
            /\ last_refill = 0
            /\ call = [c \in Caller |-> IdleCall]
            /\ drawn = <<>>

---------------------------------------------------------------------------
(* acquire: the bookkeeping is under the lock, the sleep is not             *)

Least(a, b) == IF a < b THEN a ELSE b

(* Mutant: the bucket is not full at its capacity.                          *)
RefilledWithoutEnd == tokens + (wall - last_refill)

(* _refill. While callers sleep the last refill lies ahead: what is there   *)
(* is then a debt.                                                          *)
Refilled == Least(Capacity * Refill, tokens + (wall - last_refill))

Send == drawn' = Append(drawn, now)

(* Mutant: a token is taken when there is part of one.                      *)
AcquirePart(c) ==
    /\ call[c].pc = "idle"
    /\ Refilled > 0
    /\ tokens' = Refilled - Refill
    /\ last_refill' = wall
    /\ call' = [call EXCEPT ![c].pc = "sent"]
    /\ Send
    /\ UNCHANGED <<now, wall>>

AcquireNow(c) ==
    /\ call[c].pc = "idle"
    /\ Refilled >= Refill
    /\ tokens' = Refilled - Refill
    /\ last_refill' = wall
    /\ call' = [call EXCEPT ![c].pc = "sent"]
    /\ Send
    /\ UNCHANGED <<now, wall>>

(* Mutant: a caller that sleeps leaves the last refill at the present.      *)
AcquireLaterForgetting(c) ==
    /\ call[c].pc = "idle"
    /\ Refilled < Refill
    /\ LET wait == Refill - Refilled
       IN  /\ tokens' = 0
           /\ last_refill' = wall
           /\ call' = [call EXCEPT ![c].pc = "asleep", ![c].until = now + wait]
    /\ UNCHANGED <<now, wall, drawn>>

(* Mutant: the debt is kept both as tokens and as time.                     *)
AcquireLaterTwice(c) ==
    /\ call[c].pc = "idle"
    /\ Refilled < Refill
    /\ LET wait == Refill - Refilled
       IN  /\ tokens' = Least(0, Refilled)
           /\ last_refill' = wall + wait
           /\ call' = [call EXCEPT ![c].pc = "asleep", ![c].until = now + wait]
    /\ UNCHANGED <<now, wall, drawn>>

AcquireLater(c) ==
    /\ call[c].pc = "idle"
    /\ Refilled < Refill
    /\ LET wait == Refill - Refilled
       IN  /\ tokens' = 0
           /\ last_refill' = wall + wait
           /\ call' = [call EXCEPT ![c].pc = "asleep", ![c].until = now + wait]
    /\ UNCHANGED <<now, wall, drawn>>

Due(c, pc) == call[c].pc = pc /\ call[c].until <= now

WakeUp(c) == /\ Due(c, "asleep")
             /\ call' = [call EXCEPT ![c].pc = "sent", ![c].until = 0]
             /\ Send
             /\ UNCHANGED <<now, wall, tokens, last_refill>>

---------------------------------------------------------------------------
(* _request_with_retry                                                      *)

(* A final answer, or the last failure: an exception.                       *)
CallEnds(c) == /\ call[c].pc = "sent"
               /\ call' = [call EXCEPT ![c] = IdleCall]
               /\ UNCHANGED <<now, wall, tokens, last_refill, drawn>>

(* 5xx or a timeout, and a 429, which waits for the budget to recover.      *)
RequestFails(c, pause) ==
    /\ call[c].pc = "sent"
    /\ call[c].attempt < MaxRetries
    /\ call' = [call EXCEPT ![c].pc = "backoff",
                            ![c].until = now + pause * 2 ^ call[c].attempt,
                            ![c].attempt = @ + 1]
    /\ UNCHANGED <<now, wall, tokens, last_refill, drawn>>

Retry(c) == /\ Due(c, "backoff")
            /\ call' = [call EXCEPT ![c].pc = "sent", ![c].until = 0]
            /\ UNCHANGED <<now, wall, tokens, last_refill, drawn>>

---------------------------------------------------------------------------
(* Sleeps end on time.                                                      *)
BucketTick == /\ \A c \in Caller : ~Due(c, "asleep") /\ ~Due(c, "backoff")
              /\ TimePasses
              /\ wall' = wall + 1
              /\ UNCHANGED <<tokens, last_refill, call, drawn>>

(* time.time() is the wall clock: it can be set back.                       *)
ClockSetBack(n) == /\ wall = now
                   /\ wall' = wall - n
                   /\ UNCHANGED <<now, tokens, last_refill, call, drawn>>

RateNext == \/ \E c \in Caller : \/ AcquireNow(c) \/ AcquireLater(c) \/ WakeUp(c)
                                 \/ CallEnds(c) \/ Retry(c)
                                 \/ RequestFails(c, Backoff)
                                 \/ RequestFails(c, LimitBackoff)
            \/ BucketTick
            \/ \E n \in 1 .. MaxStepBack : ClockSetBack(n)

RateSpec == RateInit /\ [][RateNext]_rateVars

---------------------------------------------------------------------------
(* Properties                                                               *)

(* However many threads draw on the bucket, after the first Capacity of any *)
(* run of calls each further one is a refill later.                         *)
CallsKeepTheRate ==
    \A i, j \in DOMAIN drawn :
        i < j => drawn[j] - drawn[i] >= (j - i + 1 - Capacity) * Refill

(* Each sleeper waits for a token of its own, a refill apart from any       *)
(* other's, and nobody for more than the refills owed to those that sleep   *)
(* and however far the clock was set back.                                  *)
Asleep == {c \in Caller : call[c].pc = "asleep"}
SleepersTakeTurns ==
    \A c \in Asleep :
        /\ call[c].until - now <= Cardinality(Asleep) * Refill + (now - wall)
        /\ \A d \in Asleep \ {c} : \/ call[c].until - call[d].until >= Refill
                                   \/ call[d].until - call[c].until >= Refill
=============================================================================
