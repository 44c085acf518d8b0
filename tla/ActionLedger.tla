----------------------------- MODULE ActionLedger -----------------------------
(***************************************************************************)
(* What the tracker and the signer together promise about signed actions,  *)
(* with no socket, no btcli and no chain in sight: a coldkey has at most    *)
(* one open action; money moves for an action only once it is on record,    *)
(* and only once; an action closed ok shows exactly what moved; one closed  *)
(* failed promises nothing, its money may have moved or still move.         *)
(***************************************************************************)
EXTENDS Integers

CONSTANTS
    Action,
    Coldkey,
    NoColdkey     \* the owner of an action not opened yet

VARIABLES
    book,     \* the record of each action
    owner,    \* the coldkey each action was opened for
    paid      \* what each action has moved

Absent == [status |-> "absent", amount |-> 0]

LedgerInit ==
    /\ book  = [a \in Action |-> Absent]
    /\ owner = [a \in Action |-> NoColdkey]
    /\ paid  = [a \in Action |-> 0]

Open(a, coldkey) ==
    /\ book[a] = Absent
    /\ \A b \in Action : ~(book[b].status = "pending" /\ owner[b] = coldkey)
    /\ book'  = [book EXCEPT ![a].status = "pending"]
    /\ owner' = [owner EXCEPT ![a] = coldkey]
    /\ UNCHANGED paid

Move(a, amount) ==
    /\ book[a].status \in {"pending", "failed"}
    /\ paid[a] = 0
    /\ paid' = [paid EXCEPT ![a] = amount]
    /\ UNCHANGED <<book, owner>>

CloseOk(a) ==
    /\ book[a].status = "pending"
    /\ book' = [book EXCEPT ![a] = [status |-> "ok", amount |-> paid[a]]]
    /\ UNCHANGED <<paid, owner>>

(* One action fails, or a restart fails all that are open. *)
CloseFailed(actions) ==
    /\ \A a \in actions : book[a].status = "pending"
    /\ book' = [a \in Action |-> IF a \in actions THEN [book[a] EXCEPT !.status = "failed"]
                                 ELSE book[a]]
    /\ UNCHANGED <<paid, owner>>

LedgerNext ==
    \/ \E a \in Action, coldkey \in Coldkey : Open(a, coldkey)
    \/ \E a \in Action : Move(a, paid'[a]) /\ paid'[a] > 0
    \/ \E a \in Action : CloseOk(a)
    \/ \E actions \in SUBSET Action : CloseFailed(actions)

LedgerSpec == LedgerInit /\ [][LedgerNext]_<<book, owner, paid>>
=============================================================================
