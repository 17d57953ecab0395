------------------------------ MODULE Operations ------------------------------
(***************************************************************************)
(* CRDT text operations as the synchronization layer sees them.            *)
(*                                                                         *)
(* packages/crdt/src/operation.ts builds two kinds of operation.  An       *)
(* insert names the element it goes after (or none, at the start of the    *)
(* text), a delete names the element it removes.  Synchronization never    *)
(* looks at the kind or at the inserted text: what matters to it is the    *)
(* identity, the Lamport stamp, and the element the operation depends on,  *)
(* without which a replica can only keep it pending.                       *)
(***************************************************************************)
EXTENDS Naturals, Sequences, FiniteSets, FiniteSetsExt, Functions

CONSTANT Clients      \* the browser replicas, by clientId

\* makeOperationId: `${clientId}:${counter}`
OpIds == Clients \X (Nat \ {0})

Operations ==
  [id        : OpIds,
   lamport   : Nat \ {0},
   dependsOn : SUBSET OpIds]  \* {} for an insert at the start of the text

Ids(operations) == {operation.id : operation \in operations}

\* Everything the operations depend on is among them: the CRDT has nothing
\* pending (getUnresolvedOperationIds is empty).
DependenciesClosed(operations) ==
  \A operation \in operations : operation.dependsOn \subseteq Ids(operations)

\* The operations that took effect.  An operation whose dependency is missing,
\* or is itself pending, stays pending; dependencies never form a cycle,
\* because an operation's Lamport stamp exceeds that of its dependency.
Attached(operations) ==
  UNION {part \in SUBSET operations : DependenciesClosed(part)}

\* A row of the server's operation log, and an entry of a sync batch.
SequencedOperations == [serverSeq : Nat \ {0}, operation : Operations]

OperationsOf(batch) == {item.operation : item \in batch}

\* The elements of a finite set of numbers in increasing order.
Ascending(numbers) ==
  [i \in 1..Cardinality(numbers) |->
     CHOOSE n \in numbers : Cardinality({m \in numbers : m < n}) = i - 1]
===============================================================================
