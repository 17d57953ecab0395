----------------------------- MODULE TextReplica ------------------------------
(***************************************************************************)
(* The replicated text of packages/crdt/src/replica.ts, as operators from  *)
(* a replica and an operation to the replica after it.                     *)
(*                                                                         *)
(* A text is a tree of inserted elements under Root: every insert names    *)
(* the element it goes after, siblings are kept in one fixed order, and    *)
(* the document is the tree in preorder without the deleted elements.      *)
(* An operation whose element is not there yet waits for it.               *)
(*                                                                         *)
(* An element is represented by the insert operation that made it.         *)
(* Clients are numbers so that their identifiers have an order.  The       *)
(* checks against malformed operations (cycles, an anchor that is a        *)
(* delete, one identity with two contents) are left out: createInsert- and *)
(* createDeleteOperation never build such operations.                      *)
(***************************************************************************)
EXTENDS Naturals, Sequences, FiniteSets, SequencesExt, FiniteSetsExt

Root == <<0, 0>>

Insert(id, lamport, after, value) ==
  [kind |-> "insert", id |-> id, lamport |-> lamport, ref |-> after,
   value |-> value]

Delete(id, lamport, target) ==
  [kind |-> "delete", id |-> id, lamport |-> lamport, ref |-> target]

Inserts(operations) == {operation \in operations : operation.kind = "insert"}
Deletes(operations) == {operation \in operations : operation.kind = "delete"}
IdsOf(operations)   == {operation.id : operation \in operations}

EmptyReplica ==
  [known          |-> {},                        \* knownOperations
   nodes          |-> {},                        \* the attached inserts
   tombstones     |-> {},                        \* ids of the deleted ones
   children       |-> [parent \in {Root} |-> <<>>],
   pendingInserts |-> [anchor \in {} |-> <<>>],   \* by anchor, in arrival order
   pendingDeletes |-> {}]

\* The members of a finite set, put in order.
Sorted(S, Precedes(_, _)) ==
  CHOOSE seq \in SetToSeqs(S) :
    \A i, j \in DOMAIN seq : i < j => ~Precedes(seq[j], seq[i])

\* The state of a loop after its first n turns.
Loop(start, n, Turn(_, _)) ==
  LET state[k \in 0..n] == IF k = 0 THEN start ELSE Turn(state[k - 1], k)
  IN  state[n]

\* The order of identifiers, in which snapshots and tables are listed.
ById(left, right) ==
  \/ left.id[1] < right.id[1]
  \/ left.id[1] = right.id[1] /\ left.id[2] < right.id[2]

\* Mutant: concurrent siblings are told apart by their stamps only.
BeforeByLamport(left, right) == left.lamport > right.lamport

\* compareNodes: the later element first, ties by clientId, then by counter.
Before(left, right) ==
  \/ left.lamport > right.lamport
  \/ left.lamport = right.lamport /\ ById(left, right)

\* Mutant: the newest arrival goes first.
InsertChildFirst(siblings, node) == <<node>> \o siblings

\* Before the first sibling that sorts after it, else at the end.
InsertChild(siblings, node) ==
  LET larger == {i \in DOMAIN siblings : Before(node, siblings[i])}
  IN  InsertAt(siblings, IF larger = {} THEN Len(siblings) + 1 ELSE Min(larger), node)

AnchorExists(replica, anchor) ==
  anchor = Root \/ anchor \in IdsOf(replica.nodes)

\* Mutant: what waited for a resolved insert is not looked at again.
WaitingForNone(replica, anchor) == <<>>

\* The inserts in the pending table under an anchor.
WaitingFor(replica, anchor) ==
  IF anchor \in DOMAIN replica.pendingInserts THEN replica.pendingInserts[anchor] ELSE <<>>

\* All inserts in the pending table.
Waiting(replica) ==
  UNION {ToSet(replica.pendingInserts[anchor]) : anchor \in DOMAIN replica.pendingInserts}

AddPending(replica, insert) ==
  [replica EXCEPT
     !.pendingInserts = [anchor \in DOMAIN @ \cup {insert.ref} |->
        IF anchor = insert.ref THEN Append(WaitingFor(replica, anchor), insert)
        ELSE @[anchor]]]

\* A node joins its siblings, takes the deletes that waited for it, and the
\* inserts that waited for it leave the pending table.
Attach(replica, node) ==
  LET waiting == {delete \in replica.pendingDeletes : delete.ref = node.id}
  IN  [replica EXCEPT
         !.nodes          = @ \cup {node},
         !.children       = [parent \in DOMAIN @ \cup {node.id} |->
                               IF parent = node.ref THEN InsertChild(@[parent], node)
                               ELSE IF parent = node.id THEN <<>> ELSE @[parent]],
         !.tombstones     = IF waiting = {} THEN @ ELSE @ \cup {node.id},
         !.pendingDeletes = @ \ waiting,
         !.pendingInserts = [anchor \in DOMAIN @ \ {node.id} |-> @[anchor]]]

\* One turn of the loop of attachInsertAndResolve, while its queue has inserts.
AttachTurn(state, turn) ==
  LET node == Head(state.queue)
  IN  IF state.queue = <<>> THEN state
      ELSE IF node \in state.replica.nodes
      THEN [state EXCEPT !.queue = Tail(@)]
      ELSE IF ~AnchorExists(state.replica, node.ref)
      THEN [replica |-> AddPending(state.replica, node), queue |-> Tail(state.queue)]
      ELSE [replica |-> Attach(state.replica, node),
            queue   |-> Tail(state.queue) \o WaitingFor(state.replica, node.id)]

\* A turn attaches one of the inserts that are known and not attached, so that
\* as many turns as there are of them empty the queue.
AttachAndResolve(replica, insert) ==
  Loop([replica |-> replica, queue |-> <<insert>>],
       Cardinality(Inserts(replica.known) \ replica.nodes), AttachTurn).replica

ApplyInsert(replica, insert) ==
  IF AnchorExists(replica, insert.ref)
  THEN AttachAndResolve(replica, insert)
  ELSE AddPending(replica, insert)

ApplyDelete(replica, delete) ==
  IF delete.ref \in IdsOf(replica.nodes)
  THEN [replica EXCEPT !.tombstones     = @ \cup {delete.ref}]
  ELSE [replica EXCEPT !.pendingDeletes = @ \cup {delete}]

\* An operation that is known already changes nothing.
Apply(replica, operation) ==
  LET learned == [replica EXCEPT !.known = @ \cup {operation}]
  IN  IF operation.id \in IdsOf(replica.known) THEN replica
      ELSE IF operation.kind = "insert" THEN ApplyInsert(learned, operation)
      ELSE ApplyDelete(learned, operation)

ApplyAll(replica, operations) ==
  Loop(replica, Len(operations), LAMBDA current, k : Apply(current, operations[k]))

\* getUnresolvedOperationIds is empty.
Resolved(replica) ==
  Waiting(replica) = {} /\ replica.pendingDeletes = {}

\* One turn of the loop of getVisibleElements: the top of the stack is shown,
\* its children take its place.
WalkTurn(replica, state) ==
  LET node == Head(state.stack)
  IN  IF state.stack = <<>> THEN state
      ELSE [output |-> IF node.id \in replica.tombstones THEN state.output
                       ELSE Append(state.output, node),
            stack  |-> replica.children[node.id] \o Tail(state.stack)]

\* Every node is on the stack once.
VisibleElements(replica) ==
  Loop([output |-> <<>>, stack |-> replica.children[Root]], Cardinality(replica.nodes),
       LAMBDA state, turn : WalkTurn(replica, state)).output

Values(elements) == [i \in DOMAIN elements |-> elements[i].value]

Materialize(replica) == Values(VisibleElements(replica))

\* Defined for resolved replicas; the code throws for others.
ExportSnapshot(replica) ==
  [nodes            |-> {[insert |-> node, tombstone |-> node.id \in replica.tombstones] :
                           node \in replica.nodes},
   deleteOperations |-> Deletes(replica.known)]

SnapshotInserts(snapshot) == {node.insert : node \in snapshot.nodes}

\* The checks of restoreFromSnapshot that relate its two parts.
ValidSnapshot(snapshot) ==
  LET ids     == IdsOf(SnapshotInserts(snapshot))
      targets == {delete.ref : delete \in snapshot.deleteOperations}
  IN  /\ targets \subseteq ids
      /\ \A node \in snapshot.nodes :
           /\ node.insert.ref \in ids \cup {Root}
           /\ node.tombstone <=> node.insert.id \in targets

\* Mutant: siblings come back in the order of their identifiers.
FromSnapshotById(snapshot) ==
  LET inserts == SnapshotInserts(snapshot)
  IN  [EmptyReplica EXCEPT
         !.known      = inserts \cup snapshot.deleteOperations,
         !.nodes      = inserts,
         !.tombstones = {node.insert.id : node \in {n \in snapshot.nodes : n.tombstone}},
         !.children   = [parent \in {Root} \cup IdsOf(inserts) |->
                           Sorted({node \in inserts : node.ref = parent}, ById)]]

\* The tree and the operations are rebuilt from the nodes; nothing is pending.
FromSnapshot(snapshot) ==
  LET inserts == SnapshotInserts(snapshot)
  IN  [EmptyReplica EXCEPT
         !.known      = inserts \cup snapshot.deleteOperations,
         !.nodes      = inserts,
         !.tombstones = {node.insert.id : node \in {n \in snapshot.nodes : n.tombstone}},
         !.children   = [parent \in {Root} \cup IdsOf(inserts) |->
                           Sorted({node \in inserts : node.ref = parent}, Before)]]
===============================================================================
