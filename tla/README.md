# Verification of the local-first collaborative workspace

TLA+ models of the workspace: the replication of a document between browser pages and one synchronization server, the text
replica and the editor on top of it, the page that moves from one document to another, and the server's rooms, heartbeat
and shutdown. TLC checks the models on small instances; TLAPS proves the main safety results for every instance. Paths
below are relative to the repository.

## 1. The system

A document is a set of CRDT operations (insert a grapheme after an element, delete an element). A client creates
operations locally, stores them, shows them, and sends them later; the server appends each operation once to its log,
gives it a sequence number and sends it to everyone who has the document open. A client keeps a cursor, the last
sequence number it has processed, and asks for what follows it when it connects. A page has one document open at a time;
moving to another closes the session of the first and opens one for the second, across several awaits.

| Component | State | Operations | Interacts through | Hard behaviour | Correct when |
| --- | --- | --- | --- | --- | --- |
| CRDT operations and replica (`packages/crdt`) | known operations, attached nodes, sibling lists, tombstones, pending tables | `apply`, `getVisibleElements`, `exportSnapshot`, `fromSnapshot` | calls from controller and server | any arrival order, cascades of pending operations, rebuilding from a snapshot | text is a function of the known set; nothing dropped; a restored replica equals the original |
| Text diff (`editor/text-edit.ts`) | none | `computeLocalTextEdit` | controller | repeated graphemes | the edit yields the typed text |
| Local document store (`persistence/local-document-store.ts`) | clientMeta, operations, outbox, cursor, baseline, checkpoint | one IndexedDB transaction per method | controller, sync client | crash between transactions, duplicates, acknowledgements of resent operations | identities unique, stamps dominate, outbox covers what is not in the log, cursor truthful |
| Local document controller (`replica/local-document-controller.ts`) | replica, write queue, baseline flag | `create`, `replaceText`, `applyServerOperations`, `installServerSnapshot`, checkpoints | App, sync client, store | writes overlap with typing; a checkpoint can be old or fail | a restart changes nothing |
| Document sync client (`sync/document-sync-client.ts`) | socket, inbound queue, catch-up flag, status, timer, failure count | connect, join, handle message, flush, refresh status, suspend, retry, close | WebSocket, controller | every await lets other events in; several sockets in a row | catch-up before flush, no lost edit, eventually Online |
| Synchronization server (`sync-server.ts`, `operation-store.ts`, `server-snapshot.ts`) | sessions, rooms, log, snapshot row | join, submit, broadcast, snapshot, close, restart | WebSocket, SQLite | joins racing broadcasts, resubmission, sequence gaps, restart | one row per identity, a joined client misses nothing, what was said is durable |
| Editor session (`App.tsx`, `composition-gate.ts`) | shown text, request version, composition gate | `commitText`, `onServerOperations`, `onSnapshotBootstrap`, composition handlers | controller | keystrokes between the awaits of a remote update, input-method compositions | the user sees the replica; edits touch only what the user saw |
| Session transitions (`session-transition.ts`, `openSession` and `teardownSession` in `App.tsx`) | queue of one target, generation, current session, what is being opened and left | request, switch, boot, popstate, unmount, goOffline, reconnectNow | sync client, controller, gate, IndexedDB | navigations overtake one another; an invalid link or an unmount comes between two awaits | one connected session, the latest target opens, an edit stays in its document, a composition keeps its session |
| Selection anchor (`editor/selection-anchor.ts`) | none | capture, resolve | editor session | a batch inserts around the caret and deletes its neighbours | the caret stands where it stood among what is left |
| Presence, heartbeat, metrics, shutdown (`sync-server.ts`, `shutdown.ts`, `app.ts`, `server-metrics.ts`) | sockets, sessions, rooms, unanswered pings, two gauges, the stage of a shutdown | connect, join, close event, tick, pong, graceful shutdown | WebSocket, clients' rosters, SQLite, the process | a client reconnects while its old connection lingers, peers vanish, frames arrive during a shutdown | rosters and gauges are right, dead peers leave, the database closes last, the process ends |
| Demo collaborator (`demo/demo-collaborator.ts`) | the session it was added to | add, dispose | session transitions, network switch | disposed of by everything that leaves a session | never outside its session |
| Catalog, demo script, telemetry, configuration, HTTP routes, rendering | see `PROJECT.json` | | | | not modelled, with the reason given there |

`PROJECT.json` lists each component with the modules that cover it, and every hazard of the code with the line where it
bites and the property that looks after it, or the reason why none does.

## 2. Modules

```
Operations ──┬── LocalStore ──── SyncClient ──┐
             ├── Transport ──┬── SyncClient   ├── DocumentSync ── MCDocumentSync
             │               └── SyncServer ──┘        │
             └── SharedDocument  (abstract) ◄── implements ┘
TextReplica ──┬── TextEdit ──┬── TextConvergence ── MCTextConvergence
              │              └── DocumentEditor ─── MCDocumentEditor
              ├── TextDocument  (reference) ── TextConvergence
              └── SelectionAnchor ── TextConvergence
Workspace ── MCWorkspace            ServerRooms ── MCServerRooms

FiniteNumbers_proofs ──┬── DocumentSync_proofs ── SharedDocument_proofs
                       ├── ServerRooms_proofs
                       └── TextReplica_proofs ──┬── TextConvergence_proofs
                                                └── DocumentEditor_proofs
Workspace_proofs
```

| Module | Models |
| --- | --- |
| `Operations` | operations as synchronization sees them: identity, Lamport stamp, dependency |
| `LocalStore` | the durable store of a client; each IndexedDB transaction is one operator |
| `Transport` | WebSockets: FIFO, both ends learn of the end separately, what is in flight to a dead end is lost. `Sockets` slots per client, so that a new connection coexists with one the server still believes in |
| `SyncServer` | join, submit (new, duplicate, refused), close, restart; the log with gaps left by other documents; the cached snapshot and when it is rebuilt. A handler is one synchronous action, as in the code (SQLite calls do not await) |
| `SyncClient` | `DocumentSyncClient` with the callbacks App gives it. Each stretch of code between two awaits is an action; `handler` says at which await the message at the head of the inbound queue stands |
| `DocumentSync` | the composition, the disturbances, fairness, and all properties of the protocol |
| `SharedDocument` | the abstract promise: users write into their own replica, an operation is published once, replicas learn published operations and nothing else |
| `TextReplica` | `replica.ts` as operators: apply with its pending tables and worklist, sibling order, traversal, snapshots |
| `TextDocument` | the reference: the document that a set of operations stands for, without an order of arrival |
| `TextEdit` | the diff and the operations `persistLocalTextEdit` makes of it |
| `TextConvergence` | replicas that type, receive operations in any order, are bootstrapped, take checkpoints and restart |
| `DocumentEditor` | one page: text area, version counter, composition gate, write queue, and the awaits of remote updates |
| `SelectionAnchor` | capture and resolution of a caret as operators over `TextReplica` |
| `Workspace` | one page and its documents: the queue of transitions, generations, sessions, the opening and the leaving of a session split at every await, what the page shows, composition, network switch, demo collaborator |
| `ServerRooms` | the server's connections without the operations they carry: sockets, sessions, rooms, rosters, heartbeat, gauges, the stages of a graceful shutdown and the end of the process |
| `*_proofs` | theorems and lemmas, checked by TLAPS |

Correspondence: `PROJECT.json` `map` gives for every definition the lines it stands for. Some choices worth knowing:

- In the protocol modules an operation's content is its identity, stamp and dependency; a snapshot is the set of
  operations it stands for; the text modules have the content.
- The inbound queue of a client is what is left of earlier sockets (`inbound`) followed by what the server has sent on the
  open one. Whether a message has already had its event matters only when the socket ends; then every prefix is possible
  (`QueuesAtSocketEnd`).
- `CloseDocument` is also a crash of the page: only IndexedDB survives, at whatever await the client was.
- `ServerRestarts` can happen between any two handlers; sessions and unread messages go, tables stay.
- `sendJoin` reads the cursor, and, if that is 0, whether the document is eligible for a snapshot: `joining` says which
  read it awaits, and messages of older sockets may be handled meanwhile. The four reads of `isSnapshotBootstrapEligible`
  are one; what has changed after them is found when the snapshot is installed (`SnapshotInstallable`).
- A transaction checks what it is given (`ValidServerBatch`, `ValidSnapshotSuffix`, `IdentityConflict`) before it changes
  anything. On the instances of the runs the server sends nothing that these refuse; the guards are kept because the code
  has them.
- The error branch of `ReceiveJoin` for a cursor ahead of the log is kept but not reached; `CursorNotAhead` says so.
- In `DocumentEditor` a write is one action at its completion, because the replica changes only there and writes run one
  at a time; the callbacks of its promise that only set the text are part of it. `PassGate` and `PassIdle` are the
  continuations that go on to queue a write, and no event comes before a continuation that is due (`Quiet`), as promise
  callbacks run before the next browser event. `basis` and `alone` are ghosts for the properties.
- A loop of the code is `Loop(start, n, Turn)`: its state after n turns, of which those after its end do nothing. `apply`
  turns once for each known insert that is not attached, the walk once for each node; `TextReplica_proofs` shows that the
  queue and the stack are empty by then (`AttachAndResolveIs`, `VisibleIs`).
- In `TextConvergence` operations arrive one at a time in any order. The server sends them in log order, which need not
  respect dependencies (see finding `reordered_flush`); any order is what `docs/architecture/crdt-design.md` promises.
- In `Workspace` a session is named by its generation, a text is the document it is a text of, and an edit is a number.
  `opening` and `leaving` say at which await each running `openSession` and `teardownSession` stands. Promise
  continuations that are due run before the browser's next event (`Quiet`); among themselves they come in any order, which
  is more than the microtask queue allows.
- `Orders` (a constant of `Workspace`) names three orders of browser events that the handlers are not written for. With
  `AllOrders` every one may happen; a run that leaves one out says so below, and the theorems, but for one, hold for
  every value.
- In `ServerRooms` a connection is numbered in the order of acceptance, which is the order of `connectedAt`. `told` is the
  last roster a connection was sent. A tick terminates every connection with an unanswered ping, also one that is closing
  already, and pings the open ones. The process that has ended keeps nothing in memory (`NoMemory`).

## 3. What the runs check

Passing runs:

| Run | Question | Instance and why it is enough |
| --- | --- | --- |
| `sync_editing` | Two writers; one may close or go offline at any moment. `OneIdentity`, `LamportDominance`, `CursorComplete`, `DurableStateGrows`, and the refinement `ImplementsSharedDocument` | 2 clients, 1 operation each, 2 sockets, log with gaps, 1 disturbance: concurrent edits, resubmission and duplicates, reload with a full outbox all happen |
| `sync_bootstrap` | Snapshot bootstrap racing edits, the fallback, a failing transaction. `TypeOK`, `NoLostEdit`, refinement | threshold 1, so every log gives a snapshot; 2 operations in one edit (a chain) against 1 |
| `sync_liveness` | One drop, restart or close anywhere. `EventuallySynced`, `CursorNotAhead`, `JoinedMissesNothing` | 2 sockets, so that the server may still hold the previous session when the next one joins; one disturbance at every moment, `UnreachableAfter` 3 as in the code |
| `snapshot_suffix` | A cached snapshot with operations after it, for a reader that is closed twice. `EvidenceIsDurable`, `CursorComplete`, `EventuallySynced` | threshold 2 and three operations: prefix and suffix are both non-empty |
| `text_convergence` | `MaterializesReference`, `NothingForgotten`, `Convergence`, `RestartChangesNothing`, `TypedIsShown`, `CaretStays` | two writers with two operations each, which the other gets in every order: chains that arrive backwards, deletes before their targets, ties of stamps, siblings that come before and after, checkpoints that are old. Texts of up to two of two letters; exchanging the letters is a symmetry, as no operator orders values |
| `document_editor` | `ShownIsReplica`, `EditsAloneTouchWhatWasSeen`, `ServerOperationsLand` | 2 keystrokes, 2 batches, 1 composition, 1 failing transaction: a keystroke in every window of every await |
| `workspace` | Navigation against everything a page does meanwhile. `TypeOK`, `OneConnectedSession`, `EditsStayInTheirDocument`, `EditorShowsItsDocument`, `LatestTargetOpens`, `OfflineModeHolds`, `CollaboratorFollowsSession`, `CompositionKeepsSession`, `NavigationSettles` | 2 documents, 3 requests (one being opened, one that is overtaken, one that overtakes it), 2 edits, 1 batch, 1 failing storage operation, invalid links also during a transition, the unmounting of the page at any moment |
| `server_rooms` | Rosters, gauges, heartbeat and shutdown. `TypeOK`, `RosterIsCurrent`, `RoomsMatchConnections`, `DatabaseClosesLast`, `DeadPeersLeave`, `ShutdownEnds` | 3 connections of 2 clients: a client that reconnects beside its lingering connection, and another to be told. One document: rooms of different documents share nothing but the gauge, and a connection joins once; `ServerRooms_proofs` has the invariants for any number |

Violation runs, each a disagreement between the code and what its documentation says:

| Run | Statement that fails | What happens |
| --- | --- | --- |
| `composition_cut` | the source session is held during composition until compositionend (e2e/ime-switch.spec.ts:14) | `begin` does nothing while the commit of the previous composition holds the gate; that commit's release frees the waiting navigation in the middle of the new composition |
| `reordered_flush` | missing dependencies are retained as pending (crdt-design.md:61-65) | an edit made while `flushOutbox` reads is sent before its dependency; a reader that closes in between cannot open the document again |
| `fallback_gap` | the cursor covers only processed operations (sync-protocol.md:78) | live operations queued behind a refused snapshot advance the cursor past what only the snapshot carried |
| `stale_edit` | a keystroke during a remote apply already sees the remote operations (App.tsx:383-385) | the whole stale text is diffed against the merged replica: the edit deletes what the user never saw |

`CursorComplete` is checked in `sync_editing` and `snapshot_suffix`, where no snapshot is refused, and refuted in
`fallback_gap`; section 4 says for which behaviours it is proved. `document_editor` checks the same statement as
`stale_edit` for edits made while no batch is written. `workspace` checks `CompositionKeepsSession` without the order that
`composition_cut` needs, and without invalid links during a composition (`Documented`). Several tabs of one browser share
one store; `README.md` of the repository declares that unsupported, and a client here is one tab.

Every property has a mutant: a small change of a mapped definition, kept beside it under the comment `Mutant:`, with
which TLC refutes the property on the same instance.

Deadlock is not checked: with the bounds used up, and everything synchronized, the system rightly stops.

### Bounds

`MaxCounter` and `EditSizes` (operations per client and per edit), `MaxDisturbances`, `Disturbed` and `Disturbances`
(what may go wrong, for whom, how often), `Sockets`, `Elsewhere` (gaps in sequence numbers), `Quota` and `MaxLength`
(operations and text length in `TextConvergence`), `MaxTyped`, `MaxBatches`, `MaxCompositions`, `MaxFailures`
(`DocumentEditor`), `MaxRequests`, `MaxEdits`, `MaxBatches`, `MaxFailures` (`Workspace`), `MaxConnections`
(`ServerRooms`). Each appears in a guard or in the choice of an input only. The proofs hold for every value of them.

### Fairness

`DocumentSync` assumes weak fairness of each client's own steps and of each connection at the server: timers fire, queued
tasks run, messages of a connection that lives arrive, transactions finish, and a closed document is opened again. It
does not assume that users edit or retry, nor that anything fails. `DocumentEditor` assumes that writes complete and
promise callbacks run; a user may compose for ever, and `ServerOperationsLand` allows the wait that this causes.
`Workspace` assumes weak fairness of the program (continuations and database results come) and of the end of a
composition, because a navigation waits for it; it assumes nothing else of the user or the network. `ServerRooms` assumes
that close events come once a socket is terminated or both sides have closed, that the heartbeat's timer fires and that the
promises of the shutdown settle; it assumes neither that a live peer answers a ping in time nor that the forced exit
happens, so `ShutdownEnds` does not rest on it.

### Found while modelling

Each of these was seen as a counterexample of a statement that is not part of the runs; `PROJECT.json` has them among the
hazards.

- A client may show Online without a socket for a while: the socket is tested before an await and the status set after it.
- A sync of the previous socket can count as the catch-up of the next one: the outbox then goes out before the join and is
  answered with `NOT_JOINED`; a later sync sends it again.
- A transaction that fails leaves its message unprocessed while the next live operation moves the cursor over it.
- When the server already counts as unreachable, a sync of an old socket handled then leaves the status `syncing`, in which
  no Retry is offered.
- A keystroke between the end of a composition and the return of its commit is shown and then overwritten.
- A second composition that begins while the commit of the first is written loses the gate when that commit returns, so that
  batches are written, and shown, in the middle of it. `document_editor` has one composition; with two the gate is not held.
- An invalid link during a composition unmounts the editor, so the gate is never released and every later navigation waits;
  an invalid link during a transition does not stop `openSession`.

## 4. What is proved

`DocumentSync_proofs`, for every set of clients, number of sockets, operations and
disturbances:

- `TypeCorrect`: `Spec => []TypeOK`.
- `EditsAreNeverLost`: `Spec => []NoLostEdit`. Every operation a client has created is in its durable replica, and is in
  the server's log or still marked in its outbox, under every disturbance.
- `ToldIsDurable`: `Spec => []EvidenceIsDurable`. Every batch, snapshot and sequence number in flight or queued
  describes the durable log.

The argument. `NoLostEdit` is not inductive: an outbox marker is removed when the client processes a message that names
the operation, so one must know that a message names only what is in the log, and the log must never lose a row. The
inductive invariant `IInv` therefore has, besides `TypeOK` and `NoLostEdit`:

- `InFlight`: every message on the wire or in an inbound queue is evidence, that is, finite parts of the log under
  sequence numbers the log has reached (`EvidenceIsDurable` follows from it);
- `HandlerHasMessage`: a handler that has started still has its message at the head of the queue, so that what it applies
  is evidence, whatever became of its socket meanwhile;
- `StoresSound`: an outbox is a finite set of marks of stored operations, so that reading it yields those operations; and
  there are no baseline operations without a baseline;
- `SnapshotCached` and `LogBounded`: neither the snapshot row nor any row of the log is beyond the latest sequence number,
  so that appending a row changes no prefix that was promised.

`DocumentSync_proofs`
has one lemma per action, `InitInvariant` and `NextInvariant`, and the theorems follow by temporal induction.

Assumptions used are those declared with the constants: `SocketsAssumption`, `SnapshotAssumption`, `ElsewhereAssumption`,
`UnreachableAssumption`, `EditAssumption`, `DisturbanceAssumption`. They say that the constants are numbers and functions
of the right kind, and nothing about their size.

`SharedDocument_proofs`, on top of it:

- `IdentitiesAreUnique` (`OneIdentity`), `StampsFollowCausality` (`LamportDominance`), `CursorsStayBehind`
  (`CursorNotAhead`), `DurableStateNeverShrinks` (`DurableStateGrows`);
- `OutboxIsReadInOrder`: `loadPendingOperations` finds a stored operation for every marker, never throws for want of one,
  and returns them all by increasing counter. Besides `IInv` this needs that outboxes hold own operations only
  (`OutboxesOwn`), or two marks could share a counter, and that sorting loses nothing (`AscendingIsSorted`);
- `SharedDocumentImplemented`: `Spec => ImplementsSharedDocument`, the refinement of the abstract document under
  `written` = what every client has written, `published` = the operations of the log, `replica[c]` = `Known(store[c])`.

`IInv` says what a client may be told; these need to know what there is to tell. The second invariant, `Provenance`, says
that every operation anywhere is an original, that is, one its author has created and still has:

- `Outgoing`: what is on its way to the server, or about to be sent, is original;
- `StoresCovered`: so is what a replica knows, and its clock and cursor are where they must be;
- `CountersAhead`, `OneOriginal`: an author's counter is beyond the identities it has used; an identity names one original;
- `Causal`: dependencies are originals with smaller stamps;
- `LogOrdered`: the log has originals, each once, by increasing sequence numbers.

Each step is then one of four kinds, which are the abstract actions: it adds new originals of one client (`Write`), appends
one original to the log (`Publish`), lets one client learn rows of the log (`Learn`), or leaves stores and log alone.

The second half of the module is about the cursor. `CursorsAreComplete` (`CursorComplete`) and
`JoinedClientsMissNothing` (`JoinedMissesNothing`) are not theorems of `Spec`: the instance of `fallback_gap` breaks both.
They are proved of `Spec /\ [][EveryMessageStored]_vars`, the behaviours in which no message leaves a queue unstored. Two
steps of the code do that, and only they are excluded: `FallBackToFullHistory` (a snapshot sync is given up) and
`HandlerFails` while a message still waits for its transaction. Everything else may happen: crashes of pages and server,
lost connections, going offline, failing reads of the outbox or the cursor, resent operations, any number of sockets. A
behaviour that breaks one of the properties therefore has one of the two steps in it.

The argument follows a client's queue. The invariant `CatchUp` says of every client (`KeepsUp`):

- `Covered`: the store has every row up to its cursor;
- `Claimed`: what a queued message confirms is known to the store, or brought by that message or one before it. Messages
  are stored in order, hence when one is stored its claim holds of the store alone and the cursor may move to it;
- `Coming`, once the server has the client's socket in the room: every row is known or brought by some queued message;
- a message whose transaction has committed brings nothing that is not stored, so that it can leave the queue.

Besides, `JoinsBehind`: a join on its way asks from the sender's cursor or before it, so the answer brings all the store
may lack, also when an old queue has moved the cursor meanwhile; and `ClosedIsSilent`: nothing is in flight to an end
that is not open. A socket that ends leaves a prefix of its queue, which keeps the claims. Appending a row breaks none:
no message confirms a number the log has not reached (`IInv`), and the broadcast tells whoever is in the room.

`Workspace_proofs`, for every number of documents, requests, edits, batches and failures: `TypeCorrect`,
`AtMostOneConnected` (`OneConnectedSession`), `EditsAreNotMisplaced` (`EditsStayInTheirDocument`), `EditorIsTruthful`
(`EditorShowsItsDocument`), `LatestTargetWins` (`LatestTargetOpens`), `OfflineIsKept` (`OfflineModeHolds`),
`CollaboratorIsConfined` (`CollaboratorFollowsSession`), all with any `Orders`, and `CompositionIsKept`
(`CompositionKeepsSession`) when the two orders that cut a composition are not among them (`OrdersAsDocumented`); with the
first of the two, `composition_cut` refutes it. None of these is inductive alone. `IInv` adds

- `Numbering`: a generation per request taken, a target until it is taken, and where the queue is;
- `FreshSessions`: a generation that has no session yet finds nothing in its place, so `openSession` never meets an old one;
- `CurrentSession`: the current session is of the latest generation, open, and what the page shows;
- `Teardowns`: where every awaited teardown stands, and that at most one comes from the queue;
- `NoSessionShown`: without a session the editor is locked or stands under an error;
- `WritesInOrder`: queued edits are of the session's document, in the order typed;
- `Address`: the document of the address is the target, or being opened, or open.

`CompositionIsKept` needs `Gates` too: the gate of the session is held during a composition and until its commit is
written, and one commit at most waits to release it.

`ServerRooms_proofs`, for every number of clients, documents and connections: `TypeCorrect`, `RostersStayCurrent`
(`RosterIsCurrent`), `RoomsStayMatched` (`RoomsMatchConnections`), `DatabaseIsLast` (`DatabaseClosesLast`). A roster is
computed when it is sent; that it is right later rests on the maps agreeing with the sockets, on `NamedSessions` (who has
joined has a client) and on `StagesInOrder` (no socket is left once the sync server is closed). That a roster entry has
a connection needs the least element of a finite set, `MinOfFinite` in `FiniteNumbers_proofs`.

### The text

`TextReplica_proofs` is about the operators, for every lawful set of operations: finite, an identity each, stamps that grow
along references, which is what `createInsertOperation`, `createDeleteOperation` and the Lamport clocks guarantee. A replica
is `Sound` when it is `ReplicaOf` what it knows: children are the siblings in order, tombstones the attached targets of
deletes, and an insert is attached if and only if it hangs on Root; only the order within the pending table depends on what
came first. The rest are facts about sound replicas:

- `EmptySound`, `ApplySound`, `ApplyAllSound`: the empty replica is sound and `apply` keeps it so, whatever the order of
  arrival. The turns of `attachInsertAndResolve` keep an invariant of their own (`TurnIs`, `ProperState`): the queue holds
  the inserts that were taken out of the pending table, each of them once.
- `SoundUnique`: two sound replicas that know the same agree, up to the order in the pending table. This is convergence.
- `SnapshotRoundTrip`: without pending operations, export and restore give the same replica. `SortedBefore` says that
  sorting finds the order which inserting one by one has kept (`InsertChildSorted`), because there is only one.
- `SoundShowsDocument`: the walk shows `DocumentOf` what is known. Output and stack together stay in the order of the
  document (`StackTurn`), and a set has one listing in a strict order (`OrderUnique`).
- `DiffKeeps`, `EditOperationsAre`, `EditIsFresh`, `FreshIsLawful`: what the diff keeps of both texts, and that the
  operations of an edit are new and lawful.

Data are not inducted over; the arguments count instead. `LoopExists` (from `CountUp`) says that the recursive function of a
loop is defined when every turn stays in a set, and least counterexamples (`LeastNumber`) take the place of induction.

`TextConvergence_proofs`, for every number of clients, alphabet, text length, quota and checkpoint interval:
`ReplicasHaveTheirShape` (`TypeOK`), `NothingIsForgotten`, `ReplicasConverge` (`Convergence`), `RestartsChangeNothing`,
`ReferenceIsMaterialized` (`MaterializesReference`), `TypedTextIsShown` (`TypedIsShown`) and `CaretIsKept` (`CaretStays`).
Since a replica follows from what it knows, `IInv` is about what is known:

- `OperationsInv`: the operations made so far are lawful, each has an identity that its author will not give again and
  refers to an insert that was made;
- `ClientInv`: a replica is sound, knows its baseline and what its operation table has, all of it made, none stamped
  beyond its clock; a baseline and a checkpoint are snapshots of a part of what it knows;
- `ShapeInv`: the tables have a row per client.

`TypedTextIsShown` follows the edit through the document: the inserts of an edit form a chain after the last kept element,
newer than everything there, so the walk shows them right behind it, and the deletes take out what stood between the two
parts that the diff keeps. `CaretIsKept` has a condition, `Remembered`: at least one of the 32 elements before the caret
survives, or there are no more of them. Without it the statement is false, as the code says of itself
(`selection-anchor.ts:13-17`). The instance of the run is too small to delete 32 elements; the proof needed the condition.

`DocumentEditor_proofs`, for every alphabet and bounds: `QueueHasItsShape` (`TypeOK`), `TheDocumentIsShown`
(`ShownIsReplica`) and `NothingUnseenIsDeleted` (`EditsAloneTouchWhatWasSeen`). What is shown is skipped, overwritten and
made up for later, so the invariant is about the queue:

- `QueueInv`: edits stand in it by ascending version, the last of them has the latest; there is one write for the server
  exactly while a call writes, edits behind it are not alone, and if the version is no longer the one the call began with
  there is such an edit;
- `TextInv`: the text is the document unless an edit is queued or something is composed. When the last edit leaves, it has
  the latest version and its commit shows the replica; when a batch is applied without being shown, an edit is behind it;
- `GateInv`: once a composition has ended and while the gate is still held, its commit is queued with the latest version: whatever
  is typed meanwhile, that commit sets the text again;
- `BasisInv`: while all that is queued is alone, the elements of the text include all that others have written and the
  replica shows; the same of the text each such edit was made of. Edits of this client never add to it, and a batch is
  applied with no edit that is alone behind it;
- `ReplicaInv`, `HandlerInv`, `NumbersInv`: the replica is sound and fully attached, operations of this client are below its
  counter, and what a call delivers is not there yet and fits.

`BoundsAssumption` and `LengthAssumption` say that bounds are natural numbers. The constants of `Workspace` and
`ServerRooms` have the assumptions `WorkspaceAssumption` and `RoomsAssumption`: bounds are
natural numbers, and the value for "none" is not a document or a client.

Only model-checked:

liveness (`EventuallySynced`, `ServerOperationsLand`, `NavigationSettles`, `DeadPeersLeave`, `ShutdownEnds`), which rests on
`ENABLED`. Every invariant and every safety property of a passing run is also a theorem, with the two conditions named
above (`EveryMessageStored` for the cursor, `OrdersAsDocumented` for `CompositionKeepsSession`).

## 5. What is not modelled

JSON parsing and schema validation, malformed messages, a join whose sync message cannot be built, the origin check,
back-off delays, size and rate limits, the limit of 64 participants in a roster, HTTP routes, start-up and environment,
monotone counters, the catalog of titles, renaming and sharing, the demo script and the steps of its tour, panels and
dialogs, telemetry, the direction of a selection, rendering. None of these takes part in a protocol: they are single
calls, presentation, or checks at the border.

Two tabs of one browser. A corrupt snapshot row. Replica checks against cyclic or contradictory operations, which no
client creates. Grapheme segmentation: a text is a sequence of graphemes.

In the composition of the protocol a dead peer is a dropped connection; the heartbeat that finds it is in `ServerRooms`.
`Workspace` and `DocumentSync` are not composed: a session of `Workspace` uses the sync client through connect, suspend,
retry and close, and `DocumentSync` lets each of these come at any moment.
