----------------------------- MODULE DocumentSync -----------------------------
(***************************************************************************)
(* One shared document: the synchronization server and the browser         *)
(* replicas, composed over their WebSocket connections.                    *)
(***************************************************************************)
EXTENDS SyncServer, SyncClient

CONSTANTS
  Disturbances,    \* the kinds of disturbance that may happen
  Disturbed,       \* bound: the clients they happen to
  MaxDisturbances  \* bound: how many of them, in all

DisturbanceKinds ==
  {"drop", "restart", "close", "suspend", "storage"}

ASSUME DisturbanceAssumption ==
  /\ Disturbances \subseteq DisturbanceKinds
  /\ Disturbed \subseteq Clients
  /\ MaxDisturbances \in Nat

VARIABLE disturbed

vars == <<transportVars, serverVars, clientVars, disturbed>>

Init ==
  /\ TransportInit
  /\ ServerInit
  /\ ClientInit
  /\ disturbed = 0

-------------------------------------------------------------------------------
\* What the program does by itself once it is running.

ClientStep(c) ==
  /\ \/ OpenDocument(c)
     \/ Submit(c)
     \/ SocketOpens(c)
     \/ CursorReadAtStart(c)
     \/ SendJoin(c)
     \/ SocketCloses(c)
     \/ Reconnect(c)
     \/ HandleError(c)
     \/ BeginSync(c)
     \/ ApplyOperations(c)
     \/ InstallSnapshot(c)
     \/ FallBackToFullHistory(c)
     \/ CaughtUp(c)
     \/ FlushOutbox(c)
     \/ OperationApplied(c)
     \/ RefreshStatus(c)
  /\ UNCHANGED <<serverVars, disturbed>>

ServerStep(k) ==
  /\ \/ ReceiveJoin(k)
     \/ AppendSubmitted(k)
     \/ ReceiveDuplicate(k)
     \/ RejectSubmit(k)
     \/ ServerSocketClosed(k)
  /\ UNCHANGED <<clientVars, disturbed>>

\* What users do.

UserStep(c) ==
  /\ Edit(c) \/ Retry(c)
  /\ UNCHANGED <<serverVars, disturbed>>

\* What goes wrong, or is turned off.

Disturb(kind) ==
  /\ kind \in Disturbances
  /\ disturbed < MaxDisturbances
  /\ disturbed' = disturbed + 1

ClientDisturbance(c) ==
  /\ c \in Disturbed
  /\ \/ Disturb("drop") /\ ConnectionDrops(c)
     \/ Disturb("close") /\ CloseDocument(c)
     \/ Disturb("suspend") /\ Suspend(c)
     \/ Disturb("storage") /\ (SendJoinFails(c) \/ HandlerFails(c))
  /\ UNCHANGED serverVars

ServerDisturbance ==
  /\ Disturb("restart")
  /\ ServerRestarts
  /\ UNCHANGED clientVars

Next ==
  \/ \E c \in Clients :
       ClientStep(c) \/ UserStep(c) \/ ClientDisturbance(c)
  \/ \E k \in Connections : ServerStep(k)
  \/ ServerDisturbance

Spec == Init /\ [][Next]_vars

\* Timers fire, queued tasks run, messages arrive and handlers finish, and a
\* document that was closed is opened again.  Beyond that users owe nothing,
\* and disturbances never have to happen.
Fairness ==
  /\ \A c \in Clients : WF_vars(ClientStep(c))
  /\ \A k \in Connections : WF_vars(ServerStep(k))

FairSpec == Spec /\ Fairness
-------------------------------------------------------------------------------
(* Properties.                                                             *)

\* Every variable holds values of its kind.
TypeOK ==
  /\ link \in [Connections -> LinkStates]
  /\ session \in [Connections -> SessionStates]
  /\ up \in [Connections -> Seq(ClientMessages)]
  /\ down \in [Connections -> Seq(ServerMessages)]
  /\ log \in Seq(SequencedOperations)
  /\ snapshotSeq \in Nat
  /\ store \in [Clients -> Stores]
  /\ client \in [Clients -> ClientStates]
  /\ inbound \in [Clients -> Seq(ServerMessages)]
  /\ handler \in [Clients -> HandlerSteps]
  /\ pending \in [Clients -> Seq(Operations)]
  /\ submits \in [Clients -> Seq(Seq(Operations))]
  /\ disturbed \in Nat

\* No edit is ever lost: an operation a client has created stays in its
\* durable replica, and it is in the server's log unless its outbox marker
\* still asks for it to be sent.  Whatever is acknowledged twice, resent after
\* a crash, or answered on a connection that is gone (persistServerOperations,
\* flushOutbox, appendOperation).
NoLostEdit ==
  \A c \in Clients : \A n \in 1..(store[c].nextCounter - 1) :
    /\ <<c, n>> \in Ids(Known(store[c]))
    /\ \/ <<c, n>> \in store[c].outbox
       \/ <<c, n>> \in Ids(OperationsOf(Rows))

\* Everything the server has told or is telling a client is in the durable
\* log, under the sequence number it says ("durable ACK rule").
EvidenceIsDurable ==
  \A c \in Clients :
    \A message \in Range(inbound[c])
                     \cup UNION {Range(down[<<c, n>>]) : n \in 1..Sockets} :
      /\ message.batch \subseteq Rows
      /\ message.snapshot = PrefixThrough(message.snapshotSeq)
      /\ message.confirmedThrough <= LatestServerSeq

\* The operations that exist anywhere.
AllOperations ==
  OperationsOf(Rows) \cup UNION {Known(store[c]) : c \in Clients}

\* An identity belongs to one operation, wherever it is stored, and the log
\* has it once, in the order of its sequence numbers.  Retries, duplicated
\* submissions and reloads never make a second one (createMeta counter,
\* UNIQUE (document_id, op_id)).
OneIdentity ==
  /\ \A a, b \in AllOperations : a.id = b.id => a = b
  /\ \A i, j \in 1..Len(log) :
       i < j => /\ log[i].serverSeq < log[j].serverSeq
                /\ log[i].operation.id # log[j].operation.id

\* Lamport stamps respect causality on every replica: a new operation gets a
\* larger stamp than anything its author has seen, so that among concurrent
\* siblings the CRDT puts what the user typed where the user typed it.
LamportDominance ==
  /\ \A c \in Clients : \A operation \in Known(store[c]) :
       operation.lamport <= store[c].lamportClock
  /\ \A a, b \in AllOperations : a.id \in b.dependsOn => a.lamport < b.lamport

\* The cursor means that every operation of the document up to it has been
\* durably processed, whatever gaps other documents leave in the numbers.
CursorComplete ==
  \A c \in Clients :
    PrefixThrough(store[c].lastServerSeq) \subseteq Known(store[c])

\* No client is ahead of the server, so that a join is never refused with
\* sync-cursor-ahead while the server keeps its database.
CursorNotAhead ==
  /\ \A c \in Clients : store[c].lastServerSeq <= LatestServerSeq
  /\ \A k \in Connections : \A message \in Range(up[k]) :
       message.type = "join" => message.lastServerSeq <= LatestServerSeq

\* A joined client misses nothing: what the server has of the document is
\* stored by the client, or on its way to it, and not past the cursor only.
JoinedMissesNothing ==
  \A c \in Clients :
    SocketOpen(c) /\ session[Socket(c)] = "joined" =>
      OperationsOf(Rows) \subseteq
        Known(store[c]) \cup
          UNION {OperationsOf(message.batch) \cup message.snapshot :
                   message \in Range(inbound[c]) \cup Range(down[Socket(c)])}

\* Durable state only grows, across transactions, crashes and reloads: the
\* cursor never moves back, no counter is used again, no operation goes.
DurableStateGrows ==
  [][\A c \in Clients :
       /\ store'[c].lastServerSeq >= store[c].lastServerSeq
       /\ store'[c].nextCounter >= store[c].nextCounter
       /\ store'[c].lamportClock >= store[c].lamportClock
       /\ Known(store[c]) \subseteq Known(store'[c])]_vars

\* The client has pushed and pulled everything, and says so.
Synced(c) ==
  /\ client[c].status = "online"
  /\ store[c].outbox = {}
  /\ Known(store[c]) = OperationsOf(Rows)

\* Once users stop editing and connections stop failing, every replica sends
\* its outbox, receives every other replica's operations and shows Online,
\* and stays so: no message is lost for good, no client waits for ever.
EventuallySynced == <>[](\A c \in Clients : Synced(c))

-------------------------------------------------------------------------------
(* A statement of the documentation that the code does not keep.           *)

\* An operation whose dependency is missing "is retained as pending".  In
\* memory it is, but the document cannot be opened again from a store that
\* holds one.
StoredDocumentOpens ==
  \A c \in Clients :
    client[c].page = "closed" => DependenciesClosed(Known(store[c]))

-------------------------------------------------------------------------------
(* The promise of SharedDocument, kept by the protocol.                    *)

Written(c) == {operation \in Known(store[c]) : operation.id[1] = c}

Document == INSTANCE SharedDocument WITH
  written   <- UNION {Written(c) : c \in Clients},
  published <- [i \in 1..Len(log) |-> log[i].operation],
  replica   <- [c \in Clients |-> Known(store[c])]

\* The protocol implements the abstract document: whatever is lost, repeated
\* or late, a replica only ever gains its own new operations or published
\* ones, and an operation is published once.
ImplementsSharedDocument == Document!Spec

===============================================================================
