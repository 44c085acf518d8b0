------------------------------- MODULE MCAlone ------------------------------
(* The components that share no state with any other, checked one at a      *)
(* time: a behaviour is one of one of them, the others rest.                *)
EXTENDS AlphaPrice, RateLimiter, Login, FundShares, Snapshots, BalanceRefresh, TLC

CONSTANTS t1, t2, t3,           \* threads: readers of the price, callers of TaoStats
          b1, ana, budi,        \* a browser and the users
          s1, s2,               \* session secrets
          k1, k2, k3, k4,       \* hotkeys that earn
          h1, h2,               \* hotkeys a snapshot asks for
          interval, initial,    \* the scheduler's snapshot jobs
          ck1, ck2              \* coldkeys

VARIABLE component

(* Four hotkeys of three persons, one with two.                             *)
MCOwner     == (k1 :> 1) @@ (k2 :> 1) @@ (k3 :> 2) @@ (k4 :> 3)
(* Nothing, an uneven fraction of a cent, below the floor but over it with  *)
(* a second such hotkey, exactly at it, above it.                           *)
MCEmissions == {0, 15, 167, 340}
MCAmounts   == {1, 2, 7, 50}

(* Two users; the admin retired; the secret changed; nginx still asks; a    *)
(* laptop.                                                                  *)
Team      == [users |-> {ana, budi}, session_secret |-> s1, admins |-> {ana},
              payers |-> {budi}, proxy_secret |-> TRUE, dev_user |-> budi]
Behind    == [Team EXCEPT !.users = {}, !.session_secret = NoSecret, !.dev_user = Nobody]
MCConfigs == {Team, [Team EXCEPT !.users = {budi}, !.payers = {}],
              [Team EXCEPT !.session_secret = s2],
              Behind, [Behind EXCEPT !.proxy_secret = FALSE, !.dev_user = ana]}

AloneInit == /\ component \in {"price", "bucket", "login", "shares", "snapshots", "balances"}
             /\ PriceInit /\ RateInit /\ LoginInit /\ SharesInit /\ SnapshotsInit /\ BalanceInit
             /\ component # "login" => config = Team
             /\ component # "shares" => emission = Zero(Earner)

PriceRests     == UNCHANGED cacheVars
BucketRests    == UNCHANGED bucketVars
LoginRests     == UNCHANGED siteVars
SharesRest     == UNCHANGED shareVars
SnapshotsRest  == UNCHANGED vars
BalancesRest   == UNCHANGED balanceVars

AloneNext ==
    /\ UNCHANGED component
    /\ \/ component = "price" /\ PriceNext
       \/ component = "bucket" /\ RateNext
       \/ component = "login" /\ LoginNext
       \/ component = "shares" /\ SharesNext /\ UNCHANGED now
       \/ component = "snapshots" /\ SnapshotsNext /\ UNCHANGED now
       \/ component = "balances" /\ BalanceNext /\ UNCHANGED now
    /\ component = "price" \/ PriceRests
    /\ component = "bucket" \/ BucketRests
    /\ component = "login" \/ LoginRests
    /\ component = "shares" \/ SharesRest
    /\ component = "snapshots" \/ SnapshotsRest
    /\ component = "balances" \/ BalancesRest

aloneVars == <<component, now, cacheVars, bucketVars, siteVars, shareVars, vars, balanceVars>>

AloneSpec == /\ AloneInit /\ [][AloneNext]_aloneVars
             /\ SnapshotsFairness /\ BalanceFairness
=============================================================================
