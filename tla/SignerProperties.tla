--------------------------- MODULE SignerProperties ---------------------------
(***************************************************************************)
(* What the signing daemon promises to whoever holds a connection to it,   *)
(* and to the team whose wallets it can open.                              *)
(***************************************************************************)
EXTENDS Signer, Functions

(* An answer that was written (the initial NoResult carries no error and no *)
(* success, which no answer does).                                          *)
Answered(c) == result[c] # NoResult

PlainFailure(c) == Answered(c) /\ ~result[c].ok /\ ~result[c].unknown

(* Request c put nothing on the chain that landed or still may. *)
LeftNoTrace(c) ==
    /\ tx[c].state \in {"none", "dropped"}
    /\ \A h \in Hotkey : utx[c][h] \in {"none", "dropped"}

TeamFunds == SumFunctionOnSet(free, Wallet) + SumFunctionOnSet(stake, Hotkey)

BookedOn(day) ==
    SumFunctionOnSet([c \in Conn |-> tx[c].amount], {c \in Conn : bookedOn[c] = day})

-----------------------------------------------------------------------------
(* "Silence is never read as success": a transfer answered ok has landed on *)
(* the chain, with the very amount the answer carries (parse_transfer_output *)
(* and everything _handle does after it).                                    *)
OkMeansMoved ==
    \A c \in Conn : result[c].ok /\ request[c].op \in TransferOps =>
        tx[c].state = "landed" /\ moved[c] = result[c].amount

(* "It failed" invites a retry, so a plain failure (neither ok nor unknown)  *)
(* that the code arrived at by reading btcli or by a refusal means that      *)
(* nothing of the request is, or will be, on the chain.                      *)
ClassifiedFailureMovedNothing ==
    \A c \in Conn : PlainFailure(c) /\ result[c].error # "crash" => LeftNoTrace(c)

(* The running total and its copy on disk never exceed the daily cap, though *)
(* midnight may fall between _within_daily_cap and _record_spend.            *)
SpendWithinCap == spent.rao <= DailyCap /\ file.rao <= DailyCap

(* The payments booked on one UTC day stay within the cap over any number of *)
(* restarts, as long as every write of the total reached the disk.           *)
BookedWithinCap == unsaved \/ \A day \in 0..MaxDay : BookedOn(day) <= DailyCap

(* What the team owns, free or staked, falls by the chain's fee when a       *)
(* transfer is settled, and by more only when a tournament payment lands,    *)
(* then by the per-request cap at most: sweeps and distributions only        *)
(* shuffle it, whatever the request names.                                   *)
TeamFundsFallOnlyByPayment ==
    [][TeamFunds' < TeamFunds =>
        \E c \in Conn :
            /\ tx[c].state = "submitted" /\ tx'[c].state # "submitted"
            /\ \/ TeamFunds - TeamFunds' <= ChainFee
               \/ /\ request[c].op = OpPay /\ tx'[c].state = "landed"
                  /\ TeamFunds - TeamFunds' <= MaxTransfer + ChainFee
      ]_signerVars

(* The signer is done with c and no answer of its says what became of it. *)
InDoubt(c) == c # serving /\ ~result[c].ok /\ ~(PlainFailure(c) /\ result[c].error # "crash")

(* What a sweep leaves behind is there "so the wallet can still pay for its *)
(* next transaction", and "ends a hair under" the reserve: a sweep that      *)
(* lands leaves it but for the chain's fee.  The balance it was computed     *)
(* from is stale only if another transfer of the wallet was settled besides, *)
(* and one of the two had been left in doubt: requests that are answered     *)
(* with their outcome never eat into each other's reserve.                   *)
SweptWalletKeepsReserve ==
    [][\A c \in Conn :
        tx[c].state = "submitted" /\ tx'[c].state = "landed" /\ request[c].op = OpSweep
            => \/ free'[tx[c].from] >= Reserve - ChainFee
               \/ \E d \in Conn \ {c} : /\ tx[d].from = tx[c].from
                                       /\ tx[d].state \in {"landed", "dropped"}
                                       /\ \E e \in {c, d} : InDoubt(e)
      ]_signerVars

(* An unstake answered ok with no error message missed no hotkey: what a     *)
(* hotkey of the coldkey still holds is what the chain's tolerance left of   *)
(* an unstake that landed ("never as a plain success" when one failed).      *)
CleanUnstakeIsComplete ==
    \A c \in Conn :
        /\ result[c].ok /\ result[c].error = "none"
        /\ request[c].op = OpUnstake
        => \A h \in HotkeysWithStake(request[c].coldkey) : utx[c][h] = "landed"

-----------------------------------------------------------------------------
(* What the repository says and the code does not do. *)

(* protocol.py: unknown stands for "timed out after the request may already  *)
(* have reached the chain", distinct from ok=False because retrying "pays    *)
(* twice".  Then a plain failure, of whatever class, moved nothing.          *)
PlainFailureMovedNothing ==
    \A c \in Conn : PlainFailure(c) /\ request[c].op \in TransferOps => LeftNoTrace(c)

-----------------------------------------------------------------------------
(* The daemon's thread keeps running and systemd brings it back (Restart=     *)
(* on-failure).  btcli itself owes nobody an exit: of what may end a run of   *)
(* it, only the driver's own deadline is fair.                                *)
DriverStep  == TransferTimesOut \/ RecordSpend
UnstakeLoop ==
    (\E h \in Hotkey : NextHotkey(h)) \/ BudgetSpent \/ UnstakeTimesOut \/ EndUnstake
=============================================================================
