--------------------------- MODULE TextConvergence ----------------------------
(***************************************************************************)
(* Replicas of one text that type, receive each other's operations in any  *)
(* order and any number of times, are bootstrapped from a server snapshot, *)
(* take checkpoints, and are rebuilt from their stores.                    *)
(*                                                                         *)
(* Each action is one method of LocalDocumentController (apps/web/src/     *)
(* replica/local-document-controller.ts), which a write queue runs one at  *)
(* a time, with the IndexedDB transaction inside it.  How operations       *)
(* travel is left open: DocumentSync models it.  Its operations arrive in  *)
(* server order; here they arrive in any order, which crdt-design.md       *)
(* promises to be enough.                                                  *)
(***************************************************************************)
EXTENDS TextEdit, SelectionAnchor, TextDocument

CONSTANTS
  Clients,           \* the replicas
  Alphabet,          \* the graphemes users type
  MaxLength,         \* bound: on the length of a typed text
  Quota,             \* bound: operations each client may create
  SnapshotInterval   \* operations between two checkpoints

ASSUME ClientsAssumption  == Clients \subseteq Nat \ {0}
ASSUME LengthAssumption   == MaxLength \in Nat
ASSUME QuotaAssumption    == Quota \in [Clients -> Nat]
ASSUME IntervalAssumption == SnapshotInterval \in Nat \ {0}

VARIABLES
  replica,      \* the TextReplica of the open session
  operations,   \* the operation table
  checkpoint,   \* the replicaSnapshots row
  baseline,     \* the serverBaselines row
  nextCounter, lamportClock   \* the clientMeta row

stored == <<operations, checkpoint, baseline, nextCounter, lamportClock>>
vars   == <<replica, stored>>

\* A row that is not there.
None == [row |-> "none"]

Texts == BoundedSeq(Alphabet, MaxLength)

\* Every operation made so far: its author has it.
Created == UNION {operations[c] : c \in Clients}

Init ==
  /\ replica      = [c \in Clients |-> EmptyReplica]
  /\ operations   = [c \in Clients |-> {}]
  /\ checkpoint   = [c \in Clients |-> None]
  /\ baseline     = [c \in Clients |-> None]
  /\ nextCounter  = [c \in Clients |-> 1]
  /\ lamportClock = [c \in Clients |-> 0]

LastSnapshotOperationCount(c) ==
  IF checkpoint[c] = None THEN 0 ELSE checkpoint[c].knownOperationCount

\* maybeCreateCheckpoint: what the row may hold afterwards.  Writing it may
\* fail, or the page may die first; then the row is the old one.
CheckpointsAfter(c, current) ==
  {checkpoint[c]} \cup
    IF \/ baseline[c] # None
       \/ ~Resolved(current)
       \/ Cardinality(current.known) < LastSnapshotOperationCount(c) + SnapshotInterval
    THEN {}
    ELSE {[snapshot            |-> ExportSnapshot(current),
           knownOperationCount |-> Cardinality(current.known)]}

\* The end of every write: the replica in memory, then the checkpoint.
BecomesReplica(c, current) ==
  /\ replica' = [replica EXCEPT ![c] = current]
  /\ \E saved \in CheckpointsAfter(c, current) :
       checkpoint' = [checkpoint EXCEPT ![c] = saved]

\* The operations that turn the text c shows into next.
OperationsFor(c, next) ==
  OperationsOfEdit(c, nextCounter[c], lamportClock[c],
                   ComputeLocalTextEdit(VisibleElements(replica[c]), next))

\* replaceText: the user has turned the text into next.
ReplaceText(c, next) ==
  LET new == OperationsFor(c, next)
  IN  /\ new # <<>>
      /\ nextCounter[c] + Len(new) <= Quota[c] + 1
      /\ operations'   = [operations   EXCEPT ![c] = @ \cup ToSet(new)]
      /\ nextCounter'  = [nextCounter  EXCEPT ![c] = @ + Len(new)]
      /\ lamportClock' = [lamportClock EXCEPT ![c] = @ + Len(new)]
      /\ BecomesReplica(c, ApplyAll(replica[c], new))
      /\ UNCHANGED baseline

\* Mutant: received stamps do not move the clock.
ClockAfterLocalOnly(clock, received) == clock

ClockAfter(clock, received) == Max({clock} \cup {operation.lamport : operation \in received})

\* applyServerOperations, for a batch of one; a longer batch is several.
ApplyServerOperations(c, operation) ==
  /\ operations'   = [operations   EXCEPT ![c] = @ \cup {operation}]
  /\ lamportClock' = [lamportClock EXCEPT ![c] = ClockAfter(@, {operation})]
  /\ BecomesReplica(c, Apply(replica[c], operation))
  /\ UNCHANGED <<baseline, nextCounter>>

\* The replica a server builds from a prefix of its log, if it can export it.
ServerReplica(prefix) ==
  ApplyAll(EmptyReplica, Sorted(prefix, LAMBDA p, q : Before(q, p)))

\* Snapshots a server may send: non-empty prefixes with nothing pending.
ServerSnapshots ==
  {ExportSnapshot(ServerReplica(prefix)) :
     prefix \in {p \in SUBSET Created : p # {} /\ Resolved(ServerReplica(p))}}

\* isSnapshotBootstrapEligible: nothing stored yet.
Eligible(c) == operations[c] = {} /\ baseline[c] = None

\* installServerSnapshot: on an eligible document, with a suffix of at most one
\* operation (a longer one is applied likewise).
InstallServerSnapshot(c, snapshot, suffix) ==
  LET installed == ApplyAll(FromSnapshot(snapshot), suffix)
      prefix    == SnapshotInserts(snapshot) \cup snapshot.deleteOperations
  IN  /\ Resolved(installed)
      /\ ToSet(suffix) \cap prefix = {}
      /\ replica'      = [replica      EXCEPT ![c] = installed]
      /\ operations'   = [operations   EXCEPT ![c] = ToSet(suffix)]
      /\ lamportClock' = [lamportClock EXCEPT ![c] = ClockAfter(@, prefix \cup ToSet(suffix))]
      /\ baseline'     = [baseline     EXCEPT ![c] = snapshot]
      /\ checkpoint'   = [checkpoint   EXCEPT ![c] = None]
      /\ UNCHANGED nextCounter

\* loadOperations: in the order of their keys.
StoredOperations(c) == Sorted(operations[c], ById)

\* A checkpoint is used when it is well formed, holds as many operations as it
\* says, and none that the log does not.
CheckpointUsable(c) ==
  /\ checkpoint[c] # None
  /\ ValidSnapshot(checkpoint[c].snapshot)
  /\ LET known == FromSnapshot(checkpoint[c].snapshot).known
     IN  /\ Cardinality(known) = checkpoint[c].knownOperationCount
         /\ IdsOf(known) \subseteq IdsOf(operations[c])

\* Mutant: a usable checkpoint is taken to be the whole document.
RestoredCheckpointOnly(c) ==
  IF baseline[c] # None
  THEN ApplyAll(FromSnapshot(baseline[c]), StoredOperations(c))
  ELSE IF CheckpointUsable(c) THEN FromSnapshot(checkpoint[c].snapshot)
  ELSE ApplyAll(EmptyReplica, StoredOperations(c))

\* restoreFromServerBaseline, restoreReplica: the replica of the next session.
Restored(c) ==
  IF baseline[c] # None
  THEN ApplyAll(FromSnapshot(baseline[c]), StoredOperations(c))
  ELSE IF CheckpointUsable(c)
  THEN ApplyAll(FromSnapshot(checkpoint[c].snapshot), StoredOperations(c))
  ELSE ApplyAll(EmptyReplica, StoredOperations(c))

\* The page is closed, or dies, and the document is opened again.  It does not
\* open while the stored operations have unresolved dependencies.
Reopen(c) ==
  /\ Resolved(Restored(c))
  /\ BecomesReplica(c, Restored(c))
  /\ UNCHANGED <<operations, baseline, nextCounter, lamportClock>>

Next ==
  \E c \in Clients :
    \/ /\ nextCounter[c] <= Quota[c]
       /\ \E next \in Texts : ReplaceText(c, next)
    \/ \E operation \in Created : ApplyServerOperations(c, operation)
    \/ /\ Eligible(c)
       /\ \E snapshot \in ServerSnapshots,
             suffix \in {<<>>} \cup {<<operation>> : operation \in Created} :
            InstallServerSnapshot(c, snapshot, suffix)
    \/ Reopen(c)

Spec == Init /\ [][Next]_vars
-------------------------------------------------------------------------------
\* The shape of a replica: its tables are about operations it knows, and every
\* stored operation is among them (LocalDocumentController persists, then
\* applies).
TypeOK ==
  \A c \in Clients :
    /\ replica[c].nodes \subseteq Inserts(replica[c].known)
    /\ Waiting(replica[c]) \subseteq Inserts(replica[c].known) \ replica[c].nodes
    /\ replica[c].pendingDeletes \subseteq Deletes(replica[c].known)
    /\ DOMAIN replica[c].children = {Root} \cup IdsOf(replica[c].nodes)
    /\ operations[c] \subseteq replica[c].known
    /\ nextCounter[c] \in 1..Quota[c] + 1
    /\ lamportClock[c] \in Nat

\* Whatever order they came in, and after whatever snapshots and restarts, the
\* known operations show one document: the one their relations define
\* (TextReplica.apply and getVisibleElements).
MaterializesReference ==
  \A c \in Clients : VisibleElements(replica[c]) = DocumentOf(replica[c].known)

\* An operation is effective exactly when what it refers to is attached, and
\* waits in a pending table otherwise: none is dropped, none waits for what is
\* there (applyInsert, applyDelete, attachInsertAndResolve).
NothingForgotten ==
  \A c \in Clients :
    LET r == replica[c]
    IN  /\ r.nodes = AttachedInserts(r.known)
        /\ Waiting(r) = Inserts(r.known) \ r.nodes
        /\ r.pendingDeletes = {delete \in Deletes(r.known) : delete.ref \notin IdsOf(r.nodes)}
        /\ r.tombstones = {delete.ref : delete \in Deletes(r.known) \ r.pendingDeletes}

\* Two replicas that know the same operations are the same tree, so that they
\* will also agree after every operation still to come (README: replicas
\* converge).
Convergence ==
  \A c, d \in Clients :
    replica[c].known = replica[d].known =>
      /\ replica[c].children   = replica[d].children
      /\ replica[c].tombstones = replica[d].tombstones

\* A restart changes nothing: what create() would build from the store now, by
\* way of the baseline, the checkpoint or the log alone, is the replica that
\* the open session has.
RestartChangesNothing ==
  \A c \in Clients : Resolved(replica[c]) => Restored(c) = replica[c]

\* What a user types is what the user gets: wherever the system has got to,
\* replaceText(next) makes operations after which the merged document is next,
\* whatever remote and deleted elements the tree holds between the visible
\* ones.  It takes the diff, the anchors, and a Lamport stamp above all that
\* the replica has seen (computeLocalTextEdit, persistLocalTextEdit, apply).
TypedIsShown ==
  \A c \in Clients, next \in Texts :
    Materialize(ApplyAll(replica[c], OperationsFor(c, next))) = next

\* Whether an element begins on the left of an offset.
StartsBefore(elements, width, index, offset) ==
  ElementIndexToOffset(elements, width, index - 1) < offset

\* An anchor taken after the first index elements still means something: it
\* remembers all of them, or one that it remembers is left.
Remembered(before, after, index) ==
  \/ index <= MaxFallbackTrail
  \/ \E i \in index - MaxFallbackTrail + 1..index, j \in DOMAIN after : before[i].id = after[j].id

\* A remote change does not move the caret: when all that a replica lacks
\* arrives at once, whatever it inserts and deletes, the caret stays between
\* the same of the elements that survive, also when the element it stood at is
\* deleted, and whatever the widths of the elements are - unless the 32
\* elements before the caret are deleted all at once, when it goes to the start
\* (captureSelectionAnchor, resolveSelectionAnchor around
\* applyServerOperations in App's onServerOperations).
CaretStays ==
  \A c \in Clients :
    LET lacking == Created \ replica[c].known
        before  == VisibleElements(replica[c])
        after   == VisibleElements(ApplyAll(replica[c], SetToSeq(lacking)))
    IN  lacking # {} /\ before # <<>> =>
          \A width \in [Alphabet -> 1..2] :
            \A caret \in 0..ElementIndexToOffset(before, width, Len(before)) :
              LET index    == OffsetToElementIndex(before, width, caret)
                  resolved == ResolveSelectionAnchor(after, width,
                                CaptureSelectionAnchor(before, width, caret, caret))
              IN  \A i \in DOMAIN before, j \in DOMAIN after :
                    before[i].id = after[j].id /\ Remembered(before, after, index) =>
                      (StartsBefore(before, width, i, caret)
                         <=> StartsBefore(after, width, j, resolved.start))
===============================================================================
