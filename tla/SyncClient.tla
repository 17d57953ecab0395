------------------------------ MODULE SyncClient ------------------------------
(***************************************************************************)
(* A browser page with one document open: the durable store, the           *)
(* synchronization client (apps/web/src/sync/document-sync-client.ts) and  *)
(* the callbacks App.tsx gives it.                                         *)
(*                                                                         *)
(* JavaScript runs one task at a time, but a handler that awaits an        *)
(* IndexedDB transaction lets other tasks run.  Every stretch of code      *)
(* between two awaits is one action; handler says where the message at the *)
(* head of the inbound queue stands:                                       *)
(*   idle     not started                                                  *)
(*   apply    a sync message is waiting for its transaction                *)
(*   applied  the transaction has committed                                *)
(*   flush    the outbox has been read and is to be sent                   *)
(*   refresh  the outbox has been read and is to decide the status         *)
(*                                                                         *)
(* The inbound queue is inbound followed by what the server has sent on    *)
(* the open socket.  Whether a message of that socket is still on the wire *)
(* or has had its message event only matters when the socket ends: then    *)
(* the messages received so far stay in the queue, and the rest is lost.   *)
(***************************************************************************)
EXTENDS Transport, LocalStore

CONSTANTS
  UnreachableAfter,  \* UNREACHABLE_AFTER_ATTEMPTS
  EditSizes,         \* how many operations one edit of a client may create
  MaxCounter         \* bound: operations each client ever creates

ASSUME UnreachableAssumption == UnreachableAfter \in Nat \ {0}
ASSUME EditAssumption ==
  /\ EditSizes \in [Clients -> SUBSET (Nat \ {0})]
  /\ MaxCounter \in [Clients -> Nat]

VARIABLES
  store,    \* IndexedDB, survives the page
  client,   \* the fields of DocumentSyncClient
  inbound,  \* unhandled messages received on sockets that are gone
  handler,  \* where the handling of the first message stands
  pending,  \* the outbox as that handler has read it
  submits   \* edits committed and not yet handed to submitOperations

clientVars == <<store, client, inbound, handler, pending, submits>>

HandlerSteps == {"idle", "apply", "applied", "flush", "refresh"}

JoinReads == {"none", "cursor", "eligibility"}

Statuses == {"offline", "connecting", "syncing", "online", "error"}

ClientStates ==
  [page                      : {"closed", "open"},
   socket                    : 0..Sockets,  \* this.socket, 0 for null
   joining                   : JoinReads,   \* what sendJoin is reading
   status                    : Statuses,
   catchUpComplete           : BOOLEAN,
   suspended                 : BOOLEAN,
   unreachable               : BOOLEAN,
   consecutiveFailures       : Nat,
   reconnectTimer            : BOOLEAN,
   snapshotBootstrapDisabled : BOOLEAN]

NewClient ==
  [page |-> "closed", socket |-> 0, joining |-> "none",
   status |-> "offline", catchUpComplete |-> FALSE, suspended |-> FALSE,
   unreachable |-> FALSE, consecutiveFailures |-> 0, reconnectTimer |-> FALSE,
   snapshotBootstrapDisabled |-> FALSE]

ClientInit ==
  /\ store = [c \in Clients |-> EmptyStore]
  /\ client = [c \in Clients |-> NewClient]
  /\ inbound = [c \in Clients |-> <<>>]
  /\ handler = [c \in Clients |-> "idle"]
  /\ pending = [c \in Clients |-> <<>>]
  /\ submits = [c \in Clients |-> <<>>]

\* The connection that this.socket stands for.
Socket(c) == <<c, client[c].socket>>

SocketIs(c, state) == client[c].socket # 0 /\ link[Socket(c)] = state

SocketOpen(c) == SocketIs(c, "open")

Queue(c) ==
  inbound[c] \o (IF SocketOpen(c) THEN down[Socket(c)] ELSE <<>>)

\* What the queue can be when the current socket stops receiving.  A message
\* that is being handled has been received.
QueuesAtSocketEnd(c) ==
  IF SocketOpen(c)
  THEN {inbound[c] \o SubSeq(down[Socket(c)], 1, received) :
          received \in {n \in 0..Len(down[Socket(c)]) :
                          handler[c] # "idle" /\ inbound[c] = <<>> => n > 0}}
  ELSE {inbound[c]}

\* readyState of the current socket, if there is one, leaves "open".
SocketEnds(c, state) ==
  IF client[c].socket = 0
  THEN UNCHANGED <<link, down>>
  ELSE /\ link' = [link EXCEPT ![Socket(c)] = state]
       /\ down' = [down EXCEPT ![Socket(c)] = <<>>]

-------------------------------------------------------------------------------
(* Opening, editing and closing the document.                              *)

\* connect(), for a client object whose socket is null.
Connect(c, state) ==
  /\ state.socket = 0
  /\ \E n \in FreeSlots(c) :
       /\ \A m \in FreeSlots(c) : n <= m
       /\ client' = [client EXCEPT ![c] =
                       [state EXCEPT !.socket = n, !.catchUpComplete = FALSE,
                                     !.status = "connecting"]]
       /\ link' = [link EXCEPT ![<<c, n>>] = "connecting"]

\* LocalDocumentController.create and openSession.  A stored log with
\* unresolved dependencies makes create throw, and no session is opened.
OpenDocument(c) ==
  /\ client[c].page = "closed"
  /\ DependenciesClosed(Known(store[c]))
  /\ LET opened == [client[c] EXCEPT !.page = "open"]
     IN  IF client[c].suspended
         THEN client' = [client EXCEPT ![c] = opened] /\ UNCHANGED link
         ELSE Connect(c, opened)
  /\ UNCHANGED <<session, up, down, store, inbound, handler, pending, submits>>

\* The document is left, or the page is reloaded or killed.  Only the
\* durable store survives, and the operator's choice to stay offline when
\* the page itself does.
CloseDocument(c) ==
  /\ client[c].page = "open"
  /\ \E offlineMode \in {FALSE, client[c].suspended} :
       client' = [client EXCEPT ![c] =
                    [NewClient EXCEPT !.suspended = offlineMode]]
  /\ SocketEnds(c, "closed")
  /\ inbound' = [inbound EXCEPT ![c] = <<>>]
  /\ handler' = [handler EXCEPT ![c] = "idle"]
  /\ pending' = [pending EXCEPT ![c] = <<>>]
  /\ submits' = [submits EXCEPT ![c] = <<>>]
  /\ UNCHANGED <<session, up, store>>

\* replaceText: one transaction for the whole edit, then the in-memory
\* replica; commitText hands the operations on when the promise resolves.
Edit(c) ==
  /\ client[c].page = "open"
  /\ \E size \in EditSizes[c],
        anchor \in {{}} \cup {{id} : id \in Ids(Attached(Known(store[c])))} :
       /\ store[c].nextCounter + size - 1 <= MaxCounter[c]
       /\ LET edit == EditOperations(store[c], c, anchor, size)
          IN  /\ store' = [store EXCEPT ![c] = PersistLocalTextEdit(@, edit)]
              /\ submits' = [submits EXCEPT ![c] = Append(@, edit)]
  /\ UNCHANGED <<transportVars, client, inbound, handler, pending>>

\* submitOperations
Submit(c) ==
  /\ submits[c] # <<>>
  /\ submits' = [submits EXCEPT ![c] = Tail(@)]
  /\ IF client[c].catchUpComplete /\ SocketOpen(c)
     THEN /\ ClientSends(Socket(c), SubmitMessages(Head(submits[c])))
          /\ client' = [client EXCEPT ![c].status = "syncing"]
     ELSE UNCHANGED <<up, client>>
  /\ UNCHANGED <<link, session, down, store, inbound, handler, pending>>

-------------------------------------------------------------------------------
(* The life of a connection.                                               *)

\* The open event starts sendJoin, which awaits the cursor.
SocketOpens(c) ==
  /\ SocketIs(c, "connecting")
  /\ link' = [link EXCEPT ![Socket(c)] = "open"]
  /\ session' = [session EXCEPT ![Socket(c)] = "connected"]
  /\ client' = [client EXCEPT ![c].joining = "cursor"]
  /\ UNCHANGED <<up, down, store, inbound, handler, pending, submits>>

\* A client at the start of the log may ask for a snapshot: sendJoin goes on
\* to read whether the document is pristine.
CursorReadAtStart(c) ==
  /\ client[c].joining = "cursor"
  /\ SocketOpen(c)
  /\ store[c].lastServerSeq = 0 /\ ~client[c].snapshotBootstrapDisabled
  /\ client' = [client EXCEPT ![c].joining = "eligibility"]
  /\ UNCHANGED <<transportVars, store, inbound, handler, pending, submits>>

SendsJoin(c, cursor, snapshotCapable) ==
  ClientSends(Socket(c),
    <<[type |-> "join", lastServerSeq |-> cursor, snapshotCapable |-> snapshotCapable]>>)

\* Any other client asks for what follows its cursor.  A cursor that was read
\* as 0 is sent as 0, whatever messages of an earlier socket have moved it to.
SendJoin(c) ==
  /\ SocketOpen(c)
  /\ \/ /\ client[c].joining = "cursor"
        /\ store[c].lastServerSeq > 0 \/ client[c].snapshotBootstrapDisabled
        /\ SendsJoin(c, store[c].lastServerSeq, FALSE)
     \/ /\ client[c].joining = "eligibility"
        /\ SendsJoin(c, 0, SnapshotEligible(store[c]))
  /\ client' = [client EXCEPT ![c].joining = "none"]
  /\ UNCHANGED <<link, session, down, store, inbound, handler, pending, submits>>

\* One of the reads fails.  Nothing handles the rejection: no join is sent.
SendJoinFails(c) ==
  /\ client[c].joining # "none"
  /\ client' = [client EXCEPT ![c].joining = "none"]
  /\ UNCHANGED <<transportVars, store, inbound, handler, pending, submits>>

\* Mutant: no reconnect is scheduled.
AfterCloseNoTimer(state) ==
  [state EXCEPT !.socket = 0, !.joining = "none",
                !.catchUpComplete = FALSE, !.status = "offline"]

\* The fields after the close event: noteConnectionFailure, then
\* scheduleReconnect unless the server counts as unreachable.
AfterClose(state) ==
  LET failures    == state.consecutiveFailures + 1
      unreachable == state.unreachable \/ failures >= UnreachableAfter
  IN  [state EXCEPT !.socket = 0, !.joining = "none",
                    !.catchUpComplete = FALSE, !.status = "offline",
                    !.consecutiveFailures = failures,
                    !.unreachable = unreachable,
                    !.reconnectTimer = ~unreachable]

\* The close event of the current socket (after the error event, if any).
OnClose(c) ==
  /\ client' = [client EXCEPT ![c] = AfterClose(@)]
  /\ SocketEnds(c, "closed")
  /\ \E queue \in QueuesAtSocketEnd(c) : inbound' = [inbound EXCEPT ![c] = queue]
  /\ UNCHANGED <<session, up, store, handler, pending, submits>>

\* The browser learns that the server's end is gone, or finishes closing.
SocketCloses(c) ==
  /\ \/ SocketIs(c, "closing")
     \/ SocketOpen(c) /\ session[Socket(c)] = "none"
  /\ OnClose(c)

\* The network, or a connection attempt, fails under the browser's end.
ConnectionDrops(c) ==
  /\ SocketIs(c, "connecting") \/ SocketOpen(c)
  /\ OnClose(c)

\* The callback of scheduleReconnect.
Reconnect(c) ==
  /\ client[c].reconnectTimer
  /\ Connect(c, [client[c] EXCEPT !.reconnectTimer = FALSE])
  /\ UNCHANGED <<session, up, down, store, inbound, handler, pending, submits>>

\* goOffline and suspend(); deriveNetworkControl offers it while online.
Suspend(c) ==
  /\ client[c].page = "open"
  /\ client[c].status = "online"
  /\ ~client[c].suspended
  /\ client' = [client EXCEPT ![c] =
       [@ EXCEPT !.suspended = TRUE, !.catchUpComplete = FALSE,
                 !.reconnectTimer = FALSE, !.socket = 0,
                 !.joining = "none", !.status = "offline"]]
  /\ SocketEnds(c, "closed")
  /\ \E queue \in QueuesAtSocketEnd(c) : inbound' = [inbound EXCEPT ![c] = queue]
  /\ UNCHANGED <<session, up, store, handler, pending, submits>>

\* reconnectNow and retry(); deriveNetworkControl offers it to a suspended
\* client and to one that is offline or in error.
Retry(c) ==
  /\ client[c].page = "open"
  /\ client[c].suspended \/ client[c].status \in {"offline", "error"}
  /\ LET state == [client[c] EXCEPT !.suspended = FALSE, !.reconnectTimer = FALSE]
     IN  IF client[c].socket # 0
         THEN client' = [client EXCEPT ![c] = state] /\ UNCHANGED link
         ELSE Connect(c, state)
  /\ UNCHANGED <<session, up, down, store, inbound, handler, pending, submits>>

-------------------------------------------------------------------------------
(* Handling of inbound messages, one at a time, in order of arrival.       *)

Message(c) == Head(Queue(c))

AtHead(c, type) == Queue(c) # <<>> /\ Message(c).type = type

\* The handler of the first message is done with it.
MessageHandled(c) ==
  /\ handler' = [handler EXCEPT ![c] = "idle"]
  /\ pending' = [pending EXCEPT ![c] = <<>>]
  /\ IF inbound[c] # <<>>
     THEN inbound' = [inbound EXCEPT ![c] = Tail(@)] /\ UNCHANGED down
     ELSE down' = [down EXCEPT ![Socket(c)] = Tail(@)] /\ UNCHANGED inbound

HandleError(c) ==
  /\ handler[c] = "idle"
  /\ AtHead(c, "error")
  /\ client' = [client EXCEPT ![c].status = "error"]
  /\ MessageHandled(c)
  /\ UNCHANGED <<link, session, up, store, submits>>

BeginSync(c) ==
  /\ handler[c] = "idle"
  /\ AtHead(c, "sync")
  /\ client' = [client EXCEPT ![c].status = "syncing"]
  /\ handler' = [handler EXCEPT ![c] = "apply"]
  /\ UNCHANGED <<transportVars, store, inbound, pending, submits>>

\* The message at the head of the queue waits for its transaction.
Applying(c) ==
  \/ handler[c] = "apply"
  \/ handler[c] = "idle" /\ AtHead(c, "operation")

\* onServerOperations: persistServerOperations, then the in-memory replica.
ApplyOperations(c) ==
  /\ Applying(c)
  /\ Message(c).snapshotSeq = 0
  /\ ValidServerBatch(Message(c).batch, Message(c).confirmedThrough)
  /\ ~IdentityConflict(store[c], Message(c).batch)
  /\ store' = [store EXCEPT ![c] =
       PersistServerOperations(@, Message(c).batch, Message(c).confirmedThrough)]
  /\ handler' = [handler EXCEPT ![c] = "applied"]
  /\ UNCHANGED <<transportVars, client, inbound, pending, submits>>

\* The checks of installServerBaseline: a suffix that follows the snapshot,
\* nothing unresolved, and a document that is still pristine.
SnapshotInstallable(c) ==
  /\ ValidSnapshotSuffix(Message(c).batch, Message(c).snapshotSeq,
                         Message(c).confirmedThrough)
  /\ SnapshotEligible(store[c])
  /\ DependenciesClosed(Message(c).snapshot \cup OperationsOf(Message(c).batch))

InstallSnapshot(c) ==
  /\ handler[c] = "apply"
  /\ Message(c).snapshotSeq > 0
  /\ SnapshotInstallable(c)
  /\ store' = [store EXCEPT ![c] =
       InstallServerBaseline(@, Message(c).snapshot, Message(c).snapshotSeq,
                             Message(c).batch, Message(c).confirmedThrough)]
  /\ handler' = [handler EXCEPT ![c] = "applied"]
  /\ UNCHANGED <<transportVars, client, inbound, pending, submits>>

\* fallbackToFullHistorySync closes whatever socket is current by now.  The
\* messages received before that stay in the queue.
FallBackToFullHistory(c) ==
  /\ handler[c] = "apply"
  /\ Message(c).snapshotSeq > 0
  /\ ~SnapshotInstallable(c)
  /\ client' = [client EXCEPT ![c] =
       [@ EXCEPT !.snapshotBootstrapDisabled = TRUE, !.catchUpComplete = FALSE,
                 !.status = "connecting"]]
  /\ SocketEnds(c, "closing")
  /\ \E queue \in QueuesAtSocketEnd(c) :
       inbound' = [inbound EXCEPT ![c] = Tail(queue)]
  /\ handler' = [handler EXCEPT ![c] = "idle"]
  /\ UNCHANGED <<session, up, store, pending, submits>>

\* A transaction of the handler rejects, the one that persists the message or
\* a later read of the outbox: enqueueInbound records the error and goes on
\* with the next message.
HandlerFails(c) ==
  /\ Applying(c) \/ handler[c] \in {"flush", "refresh"}
  /\ client' = [client EXCEPT ![c].status = "error"]
  /\ MessageHandled(c)
  /\ UNCHANGED <<link, session, up, store, submits>>

\* refreshOnlineStatus up to its await, given catchUpComplete.
ReadForStatus(c, caughtUp) ==
  IF caughtUp /\ SocketOpen(c)
  THEN /\ handler' = [handler EXCEPT ![c] = "refresh"]
       /\ pending' = [pending EXCEPT ![c] = PendingOperations(store[c])]
       /\ UNCHANGED <<inbound, down>>
  ELSE MessageHandled(c)

\* After the batch of a sync: catch-up is complete, flushOutbox reads the
\* outbox.  Without an open socket neither it nor refreshOnlineStatus does.
CaughtUp(c) ==
  /\ handler[c] = "applied"
  /\ Message(c).type = "sync"
  /\ client' = [client EXCEPT ![c] =
       [@ EXCEPT !.catchUpComplete = TRUE, !.consecutiveFailures = 0,
                 !.unreachable = FALSE]]
  /\ IF SocketOpen(c)
     THEN /\ handler' = [handler EXCEPT ![c] = "flush"]
          /\ pending' = [pending EXCEPT ![c] = PendingOperations(store[c])]
          /\ UNCHANGED <<inbound, down>>
     ELSE MessageHandled(c)
  /\ UNCHANGED <<link, session, up, store, submits>>

FlushOutbox(c) ==
  /\ handler[c] = "flush"
  /\ IF pending[c] = <<>>
     THEN UNCHANGED <<client, up>>
     ELSE /\ client' = [client EXCEPT ![c].status = "syncing"]
          /\ IF SocketOpen(c)
             THEN ClientSends(Socket(c), SubmitMessages(pending[c]))
             ELSE UNCHANGED up
  /\ ReadForStatus(c, client[c].catchUpComplete)
  /\ UNCHANGED <<link, session, store, submits>>

\* Mutant: a live operation does not refresh the status.
OperationAppliedQuietly(c) ==
  /\ handler[c] = "applied"
  /\ Message(c).type = "operation"
  /\ MessageHandled(c)
  /\ UNCHANGED <<link, session, up, store, client, submits>>

\* After a live operation.
OperationApplied(c) ==
  /\ handler[c] = "applied"
  /\ Message(c).type = "operation"
  /\ ReadForStatus(c, client[c].catchUpComplete)
  /\ UNCHANGED <<link, session, up, store, client, submits>>

\* The rest of refreshOnlineStatus: the outbox as it was read decides.
RefreshStatus(c) ==
  /\ handler[c] = "refresh"
  /\ client' = [client EXCEPT ![c].status =
                  IF pending[c] = <<>> THEN "online" ELSE "syncing"]
  /\ MessageHandled(c)
  /\ UNCHANGED <<link, session, up, store, submits>>
===============================================================================
