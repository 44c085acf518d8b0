-------------------------- MODULE MCBalanceRefresh -------------------------
(* Refreshing the balances for TLC: two coldkeys.                           *)
EXTENDS BalanceRefresh

CONSTANTS ck1, ck2
=============================================================================
