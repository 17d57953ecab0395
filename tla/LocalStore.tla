------------------------------ MODULE LocalStore ------------------------------
(***************************************************************************)
(* The durable state of one browser replica for one document, and the      *)
(* IndexedDB transactions of apps/web/src/persistence/                     *)
(* local-document-store.ts that change it.  Each transaction is atomic, so *)
(* each is an operator from the store before to the store after.           *)
(***************************************************************************)
EXTENDS Operations

Stores ==
  [nextCounter  : Nat \ {0},          \* clientMeta
   lamportClock : Nat,                \* clientMeta
   operations   : SUBSET Operations,  \* the canonical operation table
   outbox       : SUBSET OpIds,       \* markers of unacknowledged operations
   lastServerSeq: Nat,                \* syncState, the document cursor
   baselineSeq  : Nat,                \* serverBaselines, 0 when there is none
   baseline     : SUBSET Operations]  \* the operations the baseline stands for

\* The rows that initialize() adds for a new replica and a new document.
EmptyStore ==
  [nextCounter |-> 1, lamportClock |-> 0, operations |-> {}, outbox |-> {},
   lastServerSeq |-> 0, baselineSeq |-> 0, baseline |-> {}]

\* What the replica is rebuilt from when the document is opened.
Known(store) == store.baseline \cup store.operations

\* Pristine documents only may be bootstrapped from a server snapshot.
SnapshotEligible(store) ==
  /\ store.lastServerSeq = 0
  /\ store.baselineSeq = 0
  /\ store.operations = {}
  /\ store.outbox = {}

\* Mutant: the counter serves as the Lamport stamp.
EditOperationsCounterStamp(store, client, anchor, size) ==
  [i \in 1..size |->
     [id        |-> <<client, store.nextCounter + i - 1>>,
      lamport   |-> store.nextCounter + i - 1,
      dependsOn |-> IF i = 1 THEN anchor
                             ELSE {<<client, store.nextCounter + i - 2>>}]]

\* The operations one edit creates: the first depends on what the user edited,
\* each later one on the operation before it.
EditOperations(store, client, anchor, size) ==
  [i \in 1..size |->
     [id        |-> <<client, store.nextCounter + i - 1>>,
      lamport   |-> store.lamportClock + i,
      dependsOn |-> IF i = 1 THEN anchor
                             ELSE {<<client, store.nextCounter + i - 2>>}]]

PersistLocalTextEdit(store, edit) ==
  [store EXCEPT !.nextCounter  = @ + Len(edit),
                !.lamportClock = @ + Len(edit),
                !.operations   = @ \cup Range(edit),
                !.outbox       = @ \cup Ids(Range(edit))]

\* Mutant: received stamps do not move the clock.
AdvanceClockLocalOnly(clock, operations) == clock

\* Lamport stamps already seen bound the clock from below.
AdvanceClock(clock, operations) ==
  Max({clock} \cup {operation.lamport : operation \in operations})

\* Increasing numbers up to the cursor that the batch confirms.  A batch is a
\* set, its order is that of the numbers: none may occur twice.
ValidServerBatch(batch, confirmedThrough) ==
  \A item \in batch :
    /\ item.serverSeq <= confirmedThrough
    /\ \A other \in batch : other.serverSeq = item.serverSeq => other = item

\* Such a batch, all of it behind the snapshot.
ValidSnapshotSuffix(suffix, snapshotSeq, confirmedThrough) ==
  /\ snapshotSeq <= confirmedThrough
  /\ ValidServerBatch(suffix, confirmedThrough)
  /\ \A item \in suffix : item.serverSeq > snapshotSeq

\* The transaction throws, and changes nothing, when a stored operation has
\* the identity of a received one and another content.
IdentityConflict(store, batch) ==
  \E stored \in store.operations, received \in OperationsOf(batch) :
    stored.id = received.id /\ stored # received

\* Mutant: stores the envelopes instead of the operations they carry.
PersistServerEnvelopes(store, batch, confirmedThrough) ==
  [store EXCEPT !.operations    = @ \cup batch,
                !.lastServerSeq = Max({@, confirmedThrough})]

\* Mutant: any answer of the server empties the outbox.
PersistServerAckAll(store, batch, confirmedThrough) ==
  [store EXCEPT !.operations    = @ \cup OperationsOf(batch),
                !.outbox        = {},
                !.lastServerSeq = Max({@, confirmedThrough})]

\* Mutant: the cursor is put, not advanced.
PersistServerCursorPut(store, batch, confirmedThrough) ==
  [store EXCEPT !.operations    = @ \cup OperationsOf(batch),
                !.outbox        = @ \ Ids(OperationsOf(batch)),
                !.lastServerSeq = confirmedThrough]

PersistServerOperations(store, batch, confirmedThrough) ==
  [store EXCEPT
     !.lamportClock  = AdvanceClock(@, OperationsOf(batch)),
     !.operations    = @ \cup OperationsOf(batch),
     !.outbox        = @ \ Ids(OperationsOf(batch)),
     !.lastServerSeq = Max({@, confirmedThrough})]

\* Mutant: the cursor covers the suffix, the operations do not.
InstallWithoutSuffix(store, snapshot, snapshotSeq, suffix, confirmedThrough) ==
  [store EXCEPT !.lastServerSeq = confirmedThrough,
                !.baselineSeq   = snapshotSeq,
                !.baseline      = snapshot]

InstallServerBaseline(store, snapshot, snapshotSeq, suffix, confirmedThrough) ==
  [store EXCEPT
     !.lamportClock  = AdvanceClock(@, snapshot \cup OperationsOf(suffix)),
     !.operations    = @ \cup OperationsOf(suffix),
     !.lastServerSeq = confirmedThrough,
     !.baselineSeq   = snapshotSeq,
     !.baseline      = snapshot]

\* loadPendingOperations: the outbox joined with the operation table, sorted
\* by counter.  Only own operations are ever in the outbox, so the counters
\* tell them apart.
PendingOperations(store) ==
  LET counters == Ascending({id[2] : id \in store.outbox})
  IN  [i \in 1..Len(counters) |->
         CHOOSE operation \in store.operations :
           /\ operation.id \in store.outbox
           /\ operation.id[2] = counters[i]]
===============================================================================
