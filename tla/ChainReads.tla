----------------------------- MODULE ChainReads -----------------------------
(* What the signer answers to the tracker's reads of the chain              *)
(* (signer/btcli.py: run_btcli, read_with_retry, list_wallets;              *)
(* signer/server.py: balances, stake_of), by how the runs of btcli end.     *)
EXTENDS Naturals, FiniteSets

CONSTANTS
    Coldkey,
    OnHost,     \* coldkeys of the roster whose wallet is on the signer's host
    Staked      \* coldkeys that hold stake on the subnet

ASSUME ChainReadsAssumption == OnHost \subseteq Coldkey /\ Staked \subseteq Coldkey

(* How a run of btcli ends: with a JSON object; with status 0 and nothing   *)
(* printed, or text without an object; with another status, in a timeout or *)
(* with success false. "btcli occasionally exits 0 having printed nothing". *)
End == {"json", "silent", "noise", "fails"}

(* Mutant: no JSON is no stake, whatever was printed instead.               *)
run_btcli_whatever(end, allow_empty) ==
    CASE end = "json" -> "payload"
      [] end \in {"silent", "noise"} -> IF allow_empty THEN "empty" ELSE "no JSON"
      [] OTHER -> "error"

run_btcli(end, allow_empty) ==
    CASE end = "json" -> "payload"
      [] end = "silent" /\ allow_empty -> "empty"
      [] end = "noise" \/ (end = "silent" /\ ~allow_empty) -> "no JSON"
      [] OTHER -> "error"

(* A run that printed no JSON is made once more; anything else is final.    *)
read_with_retry(ends, allow_empty) ==
    LET first == run_btcli(ends[1], allow_empty)
    IN  IF first = "no JSON" THEN run_btcli(ends[2], allow_empty) ELSE first

Ends == [1 .. 2 -> End]
(* What a read that takes no silence for an answer may come to.             *)
Read == {read_with_retry(ends, FALSE) : ends \in Ends}

(* Mutant: a wallet that btcli does not list is empty.                      *)
balances_or_zero(wallets, payload, listed) ==
    IF wallets = "payload" /\ payload = "payload"
    THEN [ck \in OnHost |-> IF ck \in listed THEN "own" ELSE "zero"] ELSE <<>>

(* OP_BALANCES: the free balances, of the wallets btcli gives a figure for; *)
(* the tracker takes a refusal for no figures.                              *)
balances(wallets, payload, listed) ==
    IF wallets = "payload" /\ payload = "payload"
    THEN [ck \in OnHost \cap listed |-> "own"] ELSE <<>>

(* OP_STAKE: NULL for a wallet that is not here or a read that failed.      *)
stake_of(ck, wallets, ends) ==
    LET stake == read_with_retry(ends, TRUE)
    IN  IF wallets # "payload" \/ ck \notin OnHost THEN "null"
        ELSE CASE stake = "empty"   -> "zero"
               [] stake = "payload" -> IF ck \in Staked THEN "own" ELSE "zero"
               [] OTHER             -> "null"

(* The stake was read off a run that printed nothing.                       *)
ReadInSilence(wallets, ends) ==
    /\ wallets = "payload"
    /\ "silent" \in {ends[1], IF ends[1] = "noise" THEN ends[2] ELSE ends[1]}
=============================================================================
