---------------------------- MODULE FundShares ----------------------------
(* The money arithmetic of web/queries.py in cents: create_settlement       *)
(* splits each line between its owner and the Fund, with a floor under what *)
(* a person is paid, and preview_kas_distribution splits an amount of the   *)
(* Fund by all-time emission.                                               *)
EXTENDS Integers, FiniteSetsExt

CONSTANTS
    Earner,
    Person,      \* 1 .. n, in the order of their names
    Owner,       \* Hotkey -> Person
    Emissions,   \* what a hotkey may have emitted in the period, in tenths of a cent
    Threshold,   \* NOISE_REWARD_THRESHOLD_USD
    Amounts      \* amounts distributed

ASSUME SharesAssumption == /\ IsFiniteSet(Earner)
                           /\ Person = 1 .. Cardinality(Person)
                           /\ Owner \in [Earner -> Person]
                           /\ Person = {Owner[k] : k \in Earner}
                           /\ Emissions \subseteq Nat /\ Amounts \subseteq Nat
                           /\ Threshold \in Nat

VARIABLES emission,     \* Hotkey -> tenths of a cent
          reward, kas,  \* Hotkey -> cents, provisional and then frozen
          noise,        \* noise_persons
          todo,         \* what the current loop has still to do
          stage,        \* the loop: "provisional", "lines", "frozen", "shares", "done"
          amount,       \* what is distributed
          share,        \* Person -> cents
          soFar       \* running_total

shareVars == <<emission, reward, kas, noise, todo, stage, amount, share, soFar>>

(* round(n / d) on floats: the nearest integer, either of the two on a tie. *)
Rounded(n, d) == {q \in {n \div d, n \div d + 1} : 2 * (n - q * d) \in -d .. d}

Zero(S) == [x \in S |-> 0]

SharesInit == /\ emission \in [Earner -> Emissions]
              /\ reward = Zero(Earner) /\ kas = Zero(Earner)
              /\ noise = {}
              /\ todo = Earner
              /\ stage = "provisional"
              /\ amount = 0 /\ share = Zero(Person) /\ soFar = 0

---------------------------------------------------------------------------
(* create_settlement, the two passes over the lines                         *)

RewardOf(e) == Rounded(3 * e, 100)                 \* 30%
KasOf(e, r) == Rounded(e - 10 * r, 10)             \* the rest

Wallets(p)       == {k \in Earner : Owner[k] = p}
RewardSum(p, r)  == SumFunctionOnSet(r, Wallets(p))
(* Mutant: the floor compared with the emission.                            *)
NoiseByEmission(r) ==
    {p \in Person : SumFunctionOnSet(emission, Wallets(p)) < 10 * Threshold}
NoisePersons(r)  == {p \in Person : RewardSum(p, r) < Threshold}

Provisional(k) ==
    /\ stage = "provisional" /\ k \in todo
    /\ \E r \in RewardOf(emission[k]) :
           /\ reward' = [reward EXCEPT ![k] = r]
           /\ \E n \in KasOf(emission[k], r) : kas' = [kas EXCEPT ![k] = n]
    /\ IF todo = {k}
       THEN stage' = "lines" /\ todo' = Earner /\ noise' = NoisePersons(reward')
       ELSE todo' = todo \ {k} /\ UNCHANGED <<stage, noise>>
    /\ UNCHANGED <<emission, amount, share, soFar>>

(* Mutant: a noise line's reward is dropped, not handed to the Fund.        *)
WriteLineDropping(k) ==
    /\ stage = "lines" /\ k \in todo
    /\ reward' = [reward EXCEPT ![k] = IF Owner[k] \in noise THEN 0 ELSE @]
    /\ todo' = todo \ {k}
    /\ stage' = IF todo = {k} THEN "frozen" ELSE stage
    /\ UNCHANGED <<emission, kas, noise, amount, share, soFar>>

(* Everybody's reward is known before the first line is written: a noise    *)
(* person's lines go to the Fund together.                                  *)
WriteLine(k) ==
    /\ stage = "lines" /\ k \in todo
    /\ IF Owner[k] \in noise
       THEN /\ reward' = [reward EXCEPT ![k] = 0]
            /\ \E n \in Rounded(emission[k], 10) : kas' = [kas EXCEPT ![k] = n]
       ELSE UNCHANGED <<reward, kas>>
    /\ todo' = todo \ {k}
    /\ stage' = IF todo = {k} THEN "frozen" ELSE stage
    /\ UNCHANGED <<emission, noise, amount, share, soFar>>

---------------------------------------------------------------------------
(* preview_kas_distribution                                                 *)

Contribution(p) == SumFunctionOnSet(emission, Wallets(p))
total_emission  == SumFunction([p \in Person |-> Contribution(p)])

(* ORDER BY cumulative_rao DESC, person_name ASC.                           *)
Before(p, q) == \/ Contribution(p) > Contribution(q)
                \/ Contribution(p) = Contribution(q) /\ p < q
IsNext(p) == p \in todo /\ \A q \in todo \ {p} : Before(p, q)

StartPreview(n) ==
    /\ stage = "frozen"
    /\ amount' = n
    /\ stage' = IF total_emission = 0 THEN "done" ELSE "shares"
    /\ todo' = Person
    /\ UNCHANGED <<emission, reward, kas, noise, share, soFar>>

(* Mutant: each share is of what the others have left.                      *)
ShareOfRest(p) ==
    /\ stage = "shares" /\ IsNext(p) /\ todo # {p}
    /\ \E s \in Rounded(Contribution(p) * (amount - soFar), total_emission) :
           /\ share' = [share EXCEPT ![p] = s]
           /\ soFar' = soFar + s
    /\ todo' = todo \ {p}
    /\ UNCHANGED <<emission, reward, kas, noise, stage, amount>>

ShareOf(p) ==
    /\ stage = "shares" /\ IsNext(p) /\ todo # {p}
    /\ \E s \in Rounded(Contribution(p) * amount, total_emission) :
           /\ share' = [share EXCEPT ![p] = s]
           /\ soFar' = soFar + s
    /\ todo' = todo \ {p}
    /\ UNCHANGED <<emission, reward, kas, noise, stage, amount>>

(* Mutant: the last is rounded like the others.                             *)
LastShareRounded(p) ==
    /\ stage = "shares" /\ todo = {p}
    /\ \E s \in Rounded(Contribution(p) * amount, total_emission) :
           share' = [share EXCEPT ![p] = s]
    /\ todo' = {}
    /\ stage' = "done"
    /\ UNCHANGED <<emission, reward, kas, noise, amount, soFar>>

(* The last gets what is left.                                              *)
LastShare(p) ==
    /\ stage = "shares" /\ todo = {p}
    /\ share' = [share EXCEPT ![p] = amount - soFar]
    /\ todo' = {}
    /\ stage' = "done"
    /\ UNCHANGED <<emission, reward, kas, noise, amount, soFar>>

SharesNext == \/ \E k \in Earner : Provisional(k) \/ WriteLine(k)
              \/ \E n \in Amounts : StartPreview(n)
              \/ \E p \in Person : ShareOf(p) \/ LastShare(p)

SharesSpec == SharesInit /\ [][SharesNext]_shareVars

---------------------------------------------------------------------------
(* Properties                                                               *)

Frozen == stage \in {"frozen", "shares", "done"}

(* Of every line all is given away, to the cent: what its owner gets and    *)
(* what the Fund gets add up to the rounded emission, noise or not; and a   *)
(* person is paid the floor or more over all their hotkeys, or nothing.     *)
LinesAddUp ==
    Frozen => /\ \A k \in Earner : reward[k] + kas[k] \in Rounded(emission[k], 10)
              /\ \A p \in Person : \/ RewardSum(p, reward) = 0
                                   \/ RewardSum(p, reward) >= Threshold

Distance(p) == LET d == share[p] * total_emission - Contribution(p) * amount
               IN  IF d < 0 THEN -d ELSE d

(* The shares of a distribution add up to it exactly, and each differs from *)
(* the exact one by half a cent, the last one's by half a cent for each of  *)
(* the others: so it may be short of zero, never by more.                   *)
SharesAreFair ==
    stage = "done" /\ total_emission > 0
        => /\ SumFunction(share) = amount
           /\ \A p \in Person : 2 * Distance(p) <=
                  total_emission * (IF \E q \in Person : Before(p, q) THEN 1
                                    ELSE Max({1, Cardinality(Person) - 1}))
=============================================================================
