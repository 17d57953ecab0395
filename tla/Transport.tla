------------------------------- MODULE Transport ------------------------------
(***************************************************************************)
(* The WebSocket connections between the browsers and the server.          *)
(*                                                                         *)
(* A connection is FIFO in both directions until it ends.  Its two ends    *)
(* learn of its end separately: link is the browser's end (readyState),    *)
(* session the server's, with what the server remembers of it.  Messages   *)
(* in flight to an end that is gone are lost.                              *)
(*                                                                         *)
(* A client has Sockets connection slots.  A slot is used again once both  *)
(* ends have forgotten its previous connection, so that a new connection   *)
(* can coexist with Sockets - 1 that the server still believes in.         *)
(***************************************************************************)
EXTENDS Operations

CONSTANT Sockets

ASSUME SocketsAssumption == Sockets \in Nat \ {0}

VARIABLES
  link,     \* the browser's end of every connection
  session,  \* the server's end: what sessions and rooms remember of it
  up,       \* messages in flight to the server
  down      \* messages in flight to the browser

transportVars == <<link, session, up, down>>

Connections == Clients \X (1..Sockets)

LinkStates == {"closed", "connecting", "open", "closing"}

SessionStates == {"none", "connected", "joined"}

ClientMessages ==
  [type : {"join"}, lastServerSeq : Nat, snapshotCapable : BOOLEAN]
    \cup [type : {"submit-operation"}, operation : Operations]

\* sync, operation and error messages in one shape.  An operation message is
\* a batch of one; snapshotSeq is 0 in a sync without a snapshot.
ServerMessages ==
  [type             : {"sync", "operation", "error"},
   batch            : SUBSET SequencedOperations,
   confirmedThrough : Nat,
   snapshotSeq      : Nat,
   snapshot         : SUBSET Operations]

\* Mutant: the snapshot is labelled with the barrier.
SyncMessageAtBarrier(batch, latest, snapshotSeq, snapshot) ==
  [type |-> "sync", batch |-> batch, confirmedThrough |-> latest,
   snapshotSeq |-> IF snapshotSeq = 0 THEN 0 ELSE latest,
   snapshot |-> snapshot]

SyncMessage(batch, latest, snapshotSeq, snapshot) ==
  [type |-> "sync", batch |-> batch, confirmedThrough |-> latest,
   snapshotSeq |-> snapshotSeq, snapshot |-> snapshot]

OperationMessage(row) ==
  [type |-> "operation", batch |-> {row}, confirmedThrough |-> row.serverSeq,
   snapshotSeq |-> 0, snapshot |-> {}]

ErrorMessage ==
  [type |-> "error", batch |-> {}, confirmedThrough |-> 0,
   snapshotSeq |-> 0, snapshot |-> {}]

SubmitMessages(operations) ==
  [i \in 1..Len(operations) |->
     [type |-> "submit-operation", operation |-> operations[i]]]

TransportInit ==
  /\ link = [k \in Connections |-> "closed"]
  /\ session = [k \in Connections |-> "none"]
  /\ up = [k \in Connections |-> <<>>]
  /\ down = [k \in Connections |-> <<>>]

\* The server sends a message on some of its connections.
ServerSends(connections, message) ==
  down' = [k \in Connections |->
             IF k \in connections /\ link[k] = "open"
             THEN Append(down[k], message)
             ELSE down[k]]

\* The browser sends messages on a connection.
ClientSends(k, messages) ==
  up' = IF session[k] = "none" THEN up ELSE [up EXCEPT ![k] = @ \o messages]

\* The server takes the first message of a connection.
ServerTakes(k) ==
  /\ up[k] # <<>>
  /\ up' = [up EXCEPT ![k] = Tail(@)]

FreeSlots(c) ==
  {n \in 1..Sockets : link[<<c, n>>] = "closed" /\ session[<<c, n>>] = "none"}
===============================================================================
