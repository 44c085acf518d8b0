----------------------------- MODULE AlphaPrice ----------------------------
(* The price cache (web/price.py): a lock around the look at the cache and  *)
(* around its replacement, none around the fetch between them.              *)
EXTENDS Clock

CONSTANTS
    Reader,     \* handler threads
    TTL,        \* ticks
    MaxFetch    \* ticks a fetch takes at the most, its two tokens included

ASSUME PriceAssumption == TTL \in Nat /\ MaxFetch \in Nat

VARIABLES
    cached,     \* when the cached quote was asked for and stored, if there is one
    reader,     \* reader |-> is it fetching, and since when
    served      \* history: the last answer of each reader

cacheVars == <<cached, reader, served>>
priceVars == <<now, cached, reader, served>>

Quote   == [asked : 0 .. MaxTime, stored : 0 .. MaxTime]
NoQuote == [asked |-> 0, stored |-> MaxTime + 1]
Answer  == [asked : 0 .. MaxTime, age : 0 .. MaxTime, at : 0 .. MaxTime]
NoPrice == [asked |-> MaxTime + 1, age |-> 0, at |-> 0]

PriceTypeOK == /\ now \in 0 .. MaxTime
               /\ cached \in Quote \cup {NoQuote}
               /\ reader \in [Reader -> [fetching : BOOLEAN, since : 0 .. MaxTime]]
               /\ served \in [Reader -> Answer \cup {NoPrice}]

Resting == [fetching |-> FALSE, since |-> 0]

PriceInit == /\ ClockInit
             /\ cached = NoQuote
             /\ reader = [r \in Reader |-> Resting]
             /\ served = [r \in Reader |-> NoPrice]

(* Mutant: off by one at the end of the TTL.                                *)
FreshAtTTL == cached # NoQuote /\ now - cached.stored <= TTL

Fresh == cached # NoQuote /\ now - cached.stored < TTL

(* get, the cached quote.                                                   *)
Hit(r) == /\ ~reader[r].fetching
          /\ Fresh
          /\ served' = [served EXCEPT ![r] = [asked |-> cached.asked, at |-> now,
                                              age |-> now - cached.stored]]
          /\ UNCHANGED <<now, cached, reader>>

(* get, nothing fresh: two tokens, two HTTP calls.                          *)
Miss(r) == /\ ~reader[r].fetching
           /\ ~Fresh
           /\ reader' = [reader EXCEPT ![r] = [fetching |-> TRUE, since |-> now]]
           /\ UNCHANGED <<now, cached, served>>

Store(r) == /\ reader[r].fetching
            /\ cached' = [asked |-> reader[r].since, stored |-> now]
            /\ served' = [served EXCEPT ![r] = [asked |-> reader[r].since, at |-> now, age |-> 0]]
            /\ reader' = [reader EXCEPT ![r] = Resting]
            /\ UNCHANGED now

(* An exception or half a quote: no price, and the cache stays as it was.   *)
NoAnswer(r) == /\ reader[r].fetching
               /\ served' = [served EXCEPT ![r] = NoPrice]
               /\ reader' = [reader EXCEPT ![r] = Resting]
               /\ UNCHANGED <<now, cached>>

PriceTick == /\ \A r \in Reader : reader[r].fetching => now - reader[r].since < MaxFetch
             /\ TimePasses
             /\ UNCHANGED cacheVars

PriceNext == \/ \E r \in Reader : Hit(r) \/ Miss(r) \/ Store(r) \/ NoAnswer(r)
             \/ PriceTick

PriceSpec == PriceInit /\ [][PriceNext]_priceVars

---------------------------------------------------------------------------
(* Properties                                                               *)

(* A price that is served was asked for no longer ago than the TTL and the  *)
(* length of a fetch, whichever of several fetches stored it last, and the  *)
(* age told with it is short of the truth by one fetch at the most.         *)
ServedIsFresh ==
    \A r \in Reader :
        LET s == served[r]
        IN  s # NoPrice => /\ s.at - s.asked <= (IF TTL = 0 THEN 0 ELSE TTL - 1) + MaxFetch
                           /\ s.at - s.asked - s.age \in 0 .. MaxFetch
=============================================================================
