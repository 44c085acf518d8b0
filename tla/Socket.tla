------------------------------- MODULE Socket -------------------------------
(***************************************************************************)
(* The unix socket between the tracker and the signer: the client's end    *)
(* (web/signer_client.py: one connection per request, no retry, a timeout)  *)
(* and the server's (serve in signer/server.py: a listen backlog, one      *)
(* connection served at a time, in the order they came).                   *)
(*                                                                         *)
(* Connecting and sending the request line are one step: a client that     *)
(* dies between the two leaves an empty line, which serve() drops.         *)
(***************************************************************************)
EXTENDS Protocol, Sequences

CONSTANTS
    Conn,       \* connections, each used for one request
    Backlog     \* how many connections may wait to be accepted (listen(4))

NoConn == "no connection"

ASSUME SocketAssumption == Backlog \in Nat /\ NoConn \notin Conn

VARIABLES
    line,       \* each connection as its client sees it
    request,    \* the request line each connection carried
    result,     \* what the signer wrote on each connection, read by its client or not
    inbox,      \* connections waiting in the backlog, oldest first
    serving,    \* the connection serve() holds, or NoConn
    up          \* whether serve() is listening

socketVars == <<line, request, result, inbox, serving, up>>

(* "sent" waits for an answer; "abandoned" was closed by its client, whose  *)
(* request stays with the signer all the same.                              *)
LineState == {"unused", "sent", "answered", "reset", "abandoned", "refused"}

SocketTypeOK ==
    /\ line    \in [Conn -> LineState]
    /\ request \in [Conn -> SignRequest]
    /\ result  \in [Conn -> SignResult]
    /\ inbox   \in Seq(Conn)
    /\ serving \in Conn \cup {NoConn}
    /\ up      \in BOOLEAN

SocketInit ==
    /\ line    = [c \in Conn |-> "unused"]
    /\ request = [c \in Conn |-> NoRequest]
    /\ result  = [c \in Conn |-> NoResult]
    /\ inbox   = <<>>
    /\ serving = NoConn
    /\ up      = TRUE

(* Requests the signer holds, whatever their clients believe. *)
InHand == {inbox[i] : i \in DOMAIN inbox} \cup ({serving} \cap Conn)

-----------------------------------------------------------------------------
(* The client's end. *)

(* A connection is accepted into the backlog and the request written. *)
Connect(c, r) ==
    /\ line[c] = "unused"
    /\ up
    /\ Len(inbox) <= Backlog
    /\ line'    = [line EXCEPT ![c] = "sent"]
    /\ request' = [request EXCEPT ![c] = r]
    /\ inbox'   = Append(inbox, c)
    /\ UNCHANGED <<result, serving, up>>

(* connect() fails: nobody is listening, or the backlog stayed full until   *)
(* the client's timeout.                                                    *)
ConnectFails(c) ==
    /\ line[c] = "unused"
    /\ ~up \/ Len(inbox) > Backlog
    /\ line' = [line EXCEPT ![c] = "refused"]
    /\ UNCHANGED <<request, result, inbox, serving, up>>

(* The client's 300 seconds run out: an unstake has a budget of 420s, a      *)
(* request behind another one waits for that one first, and even a transfer  *)
(* served at once may wait for a btcli that outlives its terminal.           *)
GiveUp(c) ==
    /\ line[c] = "sent"
    /\ line' = [line EXCEPT ![c] = "abandoned"]
    /\ UNCHANGED <<request, result, inbox, serving, up>>

(* The clients' process dies and takes its ends of the connections with it. *)
ClientsVanish ==
    /\ line' = [c \in Conn |-> IF line[c] = "sent" THEN "abandoned" ELSE line[c]]
    /\ UNCHANGED <<request, result, inbox, serving, up>>

-----------------------------------------------------------------------------
(* The server's end. *)

Accept ==
    /\ up
    /\ serving = NoConn
    /\ inbox # <<>>
    /\ serving' = Head(inbox)
    /\ inbox'   = Tail(inbox)
    /\ UNCHANGED <<line, request, result, up>>

(* The answer is written and the connection closed; a client that has gone  *)
(* makes sendall fail, which serve() logs before it goes on.                *)
Answer(res) ==
    /\ serving # NoConn
    /\ line'    = [line EXCEPT ![serving] = IF @ = "sent" THEN "answered" ELSE @]
    /\ result'  = [result EXCEPT ![serving] = res]
    /\ serving' = NoConn
    /\ UNCHANGED <<request, inbox, up>>

(* serve() closes a connection whose line it gave up reading: no answer.     *)
HangUp ==
    /\ serving # NoConn
    /\ line'    = [line EXCEPT ![serving] = IF @ = "sent" THEN "reset" ELSE @]
    /\ serving' = NoConn
    /\ UNCHANGED <<request, result, inbox, up>>

(* The signer dies: what it held is gone, and its clients read nothing. *)
ServerVanishes ==
    /\ up
    /\ up'      = FALSE
    /\ line'    = [c \in Conn |-> IF line[c] = "sent" THEN "reset" ELSE line[c]]
    /\ inbox'   = <<>>
    /\ serving' = NoConn
    /\ UNCHANGED <<request, result>>

(* serve() unlinks the old socket, binds and listens. *)
ServerListens ==
    /\ ~up
    /\ up' = TRUE
    /\ UNCHANGED <<line, request, result, inbox, serving>>
=============================================================================
