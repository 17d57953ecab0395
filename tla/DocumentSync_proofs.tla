-------------------------- MODULE DocumentSync_proofs --------------------------
(***************************************************************************)
(* Proofs about DocumentSync, for every number of clients, connection      *)
(* slots, operations and disturbances.                                     *)
(***************************************************************************)
EXTENDS DocumentSync, FiniteNumbers_proofs, SequenceTheorems

\* What the server may say: batches and snapshots are finite parts of the log.
Evidence ==
  {message \in ServerMessages :
     /\ IsFiniteSet(message.batch)
     /\ IsFiniteSet(message.snapshot)
     /\ message.batch \subseteq Rows
     /\ message.snapshot = PrefixThrough(message.snapshotSeq)
     /\ message.snapshotSeq <= LatestServerSeq
     /\ message.confirmedThrough <= LatestServerSeq}

\* All that is on its way to a client, or waits in its queue, is evidence.
InFlight ==
  /\ down \in [Connections -> Seq(Evidence)]
  /\ inbound \in [Clients -> Seq(Evidence)]

HasMessage(c) ==
  \/ inbound[c] # <<>>
  \/ SocketOpen(c) /\ down[Socket(c)] # <<>>

\* A handler that has started has its message at the head of the queue.
HandlerHasMessage ==
  \A c \in Clients : handler[c] # "idle" => HasMessage(c)

\* The outbox marks stored operations; no baseline operations without a
\* baseline.
StoreSound(s) ==
  /\ IsFiniteSet(s.outbox)
  /\ s.outbox \subseteq Ids(s.operations)
  /\ s.baselineSeq = 0 => s.baseline = {}

StoresSound == \A c \in Clients : StoreSound(store[c])

SnapshotCached == snapshotSeq <= LatestServerSeq

LogBounded == \A row \in Rows : row.serverSeq <= LatestServerSeq

\* The inductive invariant.
IInv ==
  /\ TypeOK
  /\ InFlight
  /\ HandlerHasMessage
  /\ StoresSound
  /\ SnapshotCached
  /\ LogBounded
  /\ NoLostEdit

--------------------------------------------------------------------------------
(* Finite sets of operations.                                              *)

\* A finite batch carries finitely many operations.
LEMMA FiniteOperationsOf ==
  ASSUME NEW batch, IsFiniteSet(batch)
  PROVE  IsFiniteSet(OperationsOf(batch))
<1> DEFINE f == [item \in batch |-> item.operation]
<1>1. OperationsOf(batch) = {f[x] : x \in batch}
  BY DEF OperationsOf
<1>2. DOMAIN f = batch
  OBVIOUS
<1> HIDE DEF f
<1> QED
  BY <1>1, <1>2, FiniteRange

\* Finitely many operations have finitely many stamps.
LEMMA FiniteLamports ==
  ASSUME NEW operations, IsFiniteSet(operations)
  PROVE  IsFiniteSet({operation.lamport : operation \in operations})
<1> DEFINE f == [operation \in operations |-> operation.lamport]
           L == {operation.lamport : operation \in operations}
<1>1. L = {f[x] : x \in operations}
  OBVIOUS
<1>2. DOMAIN f = operations
  OBVIOUS
<1> HIDE DEF f
<1>3. IsFiniteSet({f[x] : x \in operations})
  BY <1>2, FiniteRange
<1> QED
  BY <1>1, <1>3

\* Finitely many identities have finitely many counters.
LEMMA FiniteCounters ==
  ASSUME NEW ids, IsFiniteSet(ids)
  PROVE  IsFiniteSet({id[2] : id \in ids})
<1> DEFINE f == [id \in ids |-> id[2]]
           L == {id[2] : id \in ids}
<1>1. L = {f[x] : x \in ids}
  OBVIOUS
<1>2. DOMAIN f = ids
  OBVIOUS
<1> HIDE DEF f
<1>3. IsFiniteSet({f[x] : x \in ids})
  BY <1>2, FiniteRange
<1> QED
  BY <1>1, <1>3

\* A sequence has finitely many elements, and they have finitely many ids.
LEMMA FiniteIdsOfSeq ==
  ASSUME NEW S, NEW s \in Seq(S)
  PROVE  /\ IsFiniteSet(Range(s))
         /\ IsFiniteSet(Ids(Range(s)))
<1>1. DOMAIN s = 1..Len(s) /\ Len(s) \in Nat
  BY LenProperties
<1>2. IsFiniteSet(1..Len(s))
  BY <1>1, FS_Interval
<1>3. Range(s) = {s[i] : i \in 1..Len(s)}
  BY <1>1 DEF Range
<1>4. IsFiniteSet(Range(s))
  BY <1>1, <1>2, <1>3, FiniteRange
<1> DEFINE f == [operation \in Range(s) |-> operation.id]
<1>5. Ids(Range(s)) = {f[x] : x \in Range(s)}
  BY DEF Ids
<1>6. DOMAIN f = Range(s)
  OBVIOUS
<1> HIDE DEF f
<1> QED
  BY <1>4, <1>5, <1>6, FiniteRange

--------------------------------------------------------------------------------
\* The numbers in increasing order are a sequence of those numbers
\* (loadPendingOperations sorts by counter).
LEMMA AscendingIsSeq ==
  ASSUME NEW numbers \in SUBSET Nat, IsFiniteSet(numbers)
  PROVE  /\ Ascending(numbers) \in Seq(numbers)
         /\ Len(Ascending(numbers)) = Cardinality(numbers)
<1>1. Cardinality(numbers) \in Nat
  BY FS_CardinalityType
<1>2. ASSUME NEW i \in 1..Cardinality(numbers)
      PROVE  (CHOOSE n \in numbers :
                 Cardinality({m \in numbers : m < n}) = i - 1) \in numbers
  BY IthSmallest DEF Below
<1>3. Ascending(numbers) \in [1..Cardinality(numbers) -> numbers]
  BY <1>2 DEF Ascending
<1> QED
  BY <1>1, <1>3

\* They increase, and none is left out.
LEMMA AscendingIsSorted ==
  ASSUME NEW numbers \in SUBSET Nat, IsFiniteSet(numbers)
  PROVE  /\ \A i, j \in 1..Len(Ascending(numbers)) :
              i < j => Ascending(numbers)[i] < Ascending(numbers)[j]
         /\ \A n \in numbers :
              \E i \in 1..Len(Ascending(numbers)) : Ascending(numbers)[i] = n
<1> DEFINE sorted   == Ascending(numbers)
           rank(n)  == Cardinality(Below(numbers, n))
<1>1. /\ Cardinality(numbers) \in Nat
      /\ Len(sorted) = Cardinality(numbers)
  BY FS_CardinalityType, AscendingIsSeq
<1>2. ASSUME NEW i \in 1..Cardinality(numbers)
      PROVE  sorted[i] \in numbers /\ rank(sorted[i]) = i - 1
  <2>1. \E n \in numbers : rank(n) = i - 1
    BY IthSmallest
  <2>2. sorted[i] = CHOOSE n \in numbers : rank(n) = i - 1
    BY DEF Ascending, Below
  <2> HIDE DEF sorted, rank
  <2> QED
    BY <2>1, <2>2
<1>3. \A n \in numbers : rank(n) \in 0..(Cardinality(numbers) - 1)
  BY BelowIsInjective DEF Injection
<1>4. \A m, n \in numbers : rank(m) = rank(n) => m = n
  BY BelowIsInjective DEF Injection, IsInjective
<1>5. ASSUME NEW m \in numbers, NEW n \in numbers, m < n
      PROVE  rank(m) <= rank(n)
  <2>1. Below(numbers, m) \in SUBSET Below(numbers, n)
    BY <1>5, BelowIsMonotonic
  <2>2. Below(numbers, n) \in SUBSET numbers
    BY DEF Below
  <2>3. IsFiniteSet(Below(numbers, n))
    BY <2>2, FS_Subset
  <2> QED
    BY <2>1, <2>3, FS_Subset
<1> HIDE DEF sorted, rank
<1>6. ASSUME NEW i \in 1..Cardinality(numbers), NEW j \in 1..Cardinality(numbers), i < j
      PROVE  sorted[i] < sorted[j]
  <2>1. /\ sorted[i] \in numbers /\ rank(sorted[i]) = i - 1
        /\ sorted[j] \in numbers /\ rank(sorted[j]) = j - 1
    BY <1>2
  <2>2. ASSUME sorted[j] < sorted[i] PROVE FALSE
    <3>1. rank(sorted[j]) <= rank(sorted[i])
      BY <1>5, <2>1, <2>2
    <3>2. j - 1 <= i - 1
      BY <2>1, <3>1
    <3> QED
      BY <1>1, <1>6, <3>2
  <2>3. sorted[i] # sorted[j]
    BY <1>1, <1>6, <2>1
  <2>4. sorted[i] \in Nat /\ sorted[j] \in Nat
    BY <2>1
  <2> QED
    BY <2>2, <2>3, <2>4
<1>7. ASSUME NEW n \in numbers
      PROVE  \E i \in 1..Cardinality(numbers) : sorted[i] = n
  <2>1. rank(n) + 1 \in 1..Cardinality(numbers)
    BY <1>1, <1>3
  <2>2. /\ sorted[rank(n) + 1] \in numbers
        /\ rank(sorted[rank(n) + 1]) = rank(n)
    <3>1. rank(n) \in Nat
      BY <1>1, <1>3
    <3> QED
      BY <1>2, <2>1, <3>1
  <2> QED
    BY <1>4, <2>1, <2>2
<1> QED
  BY <1>1, <1>6, <1>7 DEF sorted

--------------------------------------------------------------------------------
(* Messages and queues.                                                    *)

\* this.socket, when it is not null, is a connection of the client.
LEMMA SocketIsConnection ==
  ASSUME TypeOK, NEW c \in Clients, client[c].socket # 0
  PROVE  Socket(c) \in Connections
<1>1. client[c] \in ClientStates
  BY DEF TypeOK
<1>2. client[c].socket \in 0..Sockets
  BY <1>1 DEF ClientStates
<1> QED
  BY <1>2, SocketsAssumption DEF Socket, Connections

\* The inbound queue of a client holds evidence, and is empty exactly when
\* there is no message to handle.
LEMMA QueueIsEvidence ==
  ASSUME TypeOK, InFlight, NEW c \in Clients
  PROVE  /\ Queue(c) \in Seq(Evidence)
         /\ Queue(c) # <<>> <=> HasMessage(c)
<1>1. inbound[c] \in Seq(Evidence)
  BY DEF InFlight
<1>2. CASE SocketOpen(c)
  <2>1. down[Socket(c)] \in Seq(Evidence)
    BY <1>2, SocketIsConnection DEF SocketOpen, SocketIs, InFlight
  <2>2. Queue(c) = inbound[c] \o down[Socket(c)]
    BY <1>2 DEF Queue
  <2> QED
    BY <1>1, <1>2, <2>1, <2>2, ConcatProperties, ConcatEqualIffEmpty DEF HasMessage
<1>3. CASE ~SocketOpen(c)
  <2>1. Queue(c) = inbound[c] \o <<>>
    BY <1>3 DEF Queue
  <2>2. Queue(c) = inbound[c]
    BY <1>1, <2>1, ConcatEmptySeq
  <2> QED
    BY <1>1, <1>3, <2>2 DEF HasMessage
<1> QED
  BY <1>2, <1>3

\* The message a handler works on is evidence.
LEMMA MessageIsEvidence ==
  ASSUME TypeOK, InFlight, NEW c \in Clients, HasMessage(c)
  PROVE  Message(c) \in Evidence
BY QueueIsEvidence, HeadTailProperties DEF Message

\* Whatever a socket had delivered when it ended is evidence, and the message
\* that is being handled is among it.
LEMMA QueueAtSocketEnd ==
  ASSUME TypeOK, InFlight, HandlerHasMessage,
         NEW c \in Clients, NEW queue \in QueuesAtSocketEnd(c)
  PROVE  /\ queue \in Seq(Evidence)
         /\ handler[c] # "idle" => queue # <<>>
<1>1. inbound[c] \in Seq(Evidence)
  BY DEF InFlight
<1>2. CASE SocketOpen(c)
  <2> DEFINE wire == down[Socket(c)]
  <2>1. wire \in Seq(Evidence)
    BY <1>2, SocketIsConnection DEF SocketOpen, SocketIs, InFlight
  <2>2. PICK received \in 0..Len(wire) :
          /\ handler[c] # "idle" /\ inbound[c] = <<>> => received > 0
          /\ queue = inbound[c] \o SubSeq(wire, 1, received)
    BY <1>2 DEF QueuesAtSocketEnd
  <2>3. Len(wire) \in Nat /\ \A i \in 1..Len(wire) : wire[i] \in Evidence
    BY <2>1, LenProperties, ElementOfSeq
  <2>4. \A i \in 1..received : wire[i] \in Evidence
    BY <2>2, <2>3
  <2>5. 1 \in Int /\ received \in Int
    BY <2>2, <2>3
  <2> HIDE DEF wire
  <2>6. /\ SubSeq(wire, 1, received) \in Seq(Evidence)
        /\ Len(SubSeq(wire, 1, received)) = IF 1 <= received THEN received - 1 + 1 ELSE 0
    BY <2>4, <2>5, SubSeqProperties
  <2>7. queue \in Seq(Evidence)
        /\ Len(queue) = Len(inbound[c]) + Len(SubSeq(wire, 1, received))
    BY <1>1, <2>2, <2>6, ConcatProperties
  <2>8. inbound[c] # <<>> => Len(inbound[c]) \in Nat \ {0}
    BY <1>1, EmptySeq
  <2>9. Len(inbound[c]) \in Nat
    BY <1>1, LenProperties
  <2>10. Len(queue) = Len(inbound[c]) + received /\ received \in Nat
    <3>1. received \in Nat
      BY <2>3
    <3>2. Len(SubSeq(wire, 1, received)) = received
      <4>1. CASE received = 0
        BY <2>6, <4>1
      <4>2. CASE received # 0
        BY <2>6, <3>1, <4>2
      <4> QED
        BY <4>1, <4>2
    <3> QED
      BY <2>7, <3>1, <3>2
  <2>11. ASSUME handler[c] # "idle" PROVE Len(queue) # 0
    <3>1. CASE inbound[c] = <<>>
      <4>1. received > 0
        BY <2>2, <2>11, <3>1
      <4> QED
        BY <2>9, <2>10, <4>1
    <3>2. CASE inbound[c] # <<>>
      <4>1. Len(inbound[c]) \in Nat \ {0}
        BY <2>8, <3>2
      <4> QED
        BY <2>10, <4>1
    <3> QED
      BY <3>1, <3>2
  <2>12. Len(<<>>) = 0
    BY EmptySeq
  <2> QED
    BY <2>7, <2>11, <2>12
<1>3. CASE ~SocketOpen(c)
  BY <1>1, <1>3 DEF QueuesAtSocketEnd, HandlerHasMessage, HasMessage
<1> QED
  BY <1>2, <1>3

--------------------------------------------------------------------------------
(* The log and the evidence it gives.                                      *)

\* The log has finitely many rows and a greatest sequence number.
LEMMA LogFacts ==
  ASSUME log \in Seq(SequencedOperations)
  PROVE  /\ LatestServerSeq \in Nat
         /\ Rows \subseteq SequencedOperations
         /\ IsFiniteSet(Rows)
<1>1. LatestServerSeq \in Nat
  <2>1. CASE log = <<>>
    BY <2>1 DEF LatestServerSeq
  <2>2. CASE log # <<>>
    <3>1. Len(log) \in 1..Len(log)
      BY <2>2, EmptySeq
    <3>2. log[Len(log)] \in SequencedOperations
      BY <3>1, ElementOfSeq
    <3> QED
      BY <2>2, <3>2 DEF LatestServerSeq, SequencedOperations
  <2> QED
    BY <2>1, <2>2
<1>2. Rows \subseteq SequencedOperations
  BY RangeOfSeq DEF Rows
<1>3. IsFiniteSet(Rows)
  BY FiniteIdsOfSeq DEF Rows
<1> QED
  BY <1>1, <1>2, <1>3

\* The log of a new server.
LEMMA EmptyLog ==
  ASSUME log = <<>>
  PROVE  Rows = {} /\ LatestServerSeq = 0
<1>1. log \in Seq({})
  BY EmptySeq
<1>2. Range(log) \in SUBSET {}
  BY <1>1, RangeOfSeq
<1> QED
  BY <1>2 DEF Rows, LatestServerSeq

\* With the log unchanged, evidence stays what it was.
LEMMA EvidenceStable ==
  ASSUME UNCHANGED log
  PROVE  /\ Evidence' = Evidence
         /\ Rows' = Rows
         /\ LatestServerSeq' = LatestServerSeq
BY DEF Evidence, Rows, LatestServerSeq, PrefixThrough

\* A row appended to the log leaves all earlier evidence true, and gives the
\* evidence of the broadcast (acceptOperation: durable first, then broadcast).
LEMMA AppendedRow ==
  ASSUME log \in Seq(SequencedOperations), NEW row \in SequencedOperations,
         row.serverSeq > LatestServerSeq, log' = Append(log, row)
  PROVE  /\ log' \in Seq(SequencedOperations)
         /\ Rows' = Rows \cup {row}
         /\ LatestServerSeq' = row.serverSeq
         /\ LatestServerSeq <= LatestServerSeq'
         /\ Evidence \subseteq Evidence'
         /\ OperationMessage(row) \in Evidence'
<1>1. /\ log' \in Seq(SequencedOperations)
      /\ log' # <<>>
      /\ Len(log') = Len(log) + 1
      /\ \A i \in 1..Len(log) : log'[i] = log[i]
      /\ log'[Len(log) + 1] = row
  BY AppendProperties
<1>2. Len(log) \in Nat
  BY LenProperties
<1>3. Rows' = Rows \cup {row}
  <2>1. Rows = {log[i] : i \in 1..Len(log)}
    BY RangeEquality DEF Rows
  <2>2. Rows' = {log'[i] : i \in 1..Len(log')}
    BY <1>1, RangeEquality DEF Rows
  <2>3. 1..Len(log') = 1..Len(log) \cup {Len(log) + 1}
    BY <1>1, <1>2
  <2> QED
    BY <1>1, <2>1, <2>2, <2>3
<1>4. LatestServerSeq' = row.serverSeq
  BY <1>1 DEF LatestServerSeq
<1>5. LatestServerSeq \in Nat /\ row.serverSeq \in Nat \ {0}
  BY LogFacts DEF SequencedOperations
<1>6. LatestServerSeq <= LatestServerSeq'
  BY <1>4, <1>5
<1>7. ASSUME NEW seq \in Nat, seq <= LatestServerSeq
      PROVE  PrefixThrough(seq)' = PrefixThrough(seq)
  <2>1. ~(row.serverSeq <= seq)
    BY <1>5, <1>7
  <2>2. {r \in Rows' : r.serverSeq <= seq} = {r \in Rows : r.serverSeq <= seq}
    BY <1>3, <2>1
  <2> QED
    BY <2>2 DEF PrefixThrough
<1>8. ASSUME NEW message \in Evidence PROVE message \in Evidence'
  <2>1. /\ message \in ServerMessages
        /\ IsFiniteSet(message.batch)
        /\ IsFiniteSet(message.snapshot)
        /\ message.batch \subseteq Rows
        /\ message.snapshot = PrefixThrough(message.snapshotSeq)
        /\ message.snapshotSeq <= LatestServerSeq
        /\ message.confirmedThrough <= LatestServerSeq
    BY DEF Evidence
  <2>2. message.snapshotSeq \in Nat /\ message.confirmedThrough \in Nat
    BY <2>1 DEF ServerMessages
  <2>3. message.snapshot = PrefixThrough(message.snapshotSeq)'
    BY <1>7, <2>1, <2>2
  <2>4. /\ message.snapshotSeq <= LatestServerSeq'
        /\ message.confirmedThrough <= LatestServerSeq'
    BY <1>4, <1>5, <1>6, <2>1, <2>2
  <2> QED
    BY <1>3, <2>1, <2>3, <2>4 DEF Evidence
<1>9. OperationMessage(row) \in Evidence'
  <2>1. Rows' \subseteq SequencedOperations
    BY <1>1, LogFacts, RangeOfSeq DEF Rows
  <2>2. PrefixThrough(0)' = {}
    <3>1. \A r \in Rows' : ~(r.serverSeq <= 0)
      BY <2>1 DEF SequencedOperations
    <3> QED
      BY <3>1 DEF PrefixThrough, OperationsOf
  <2>3. OperationMessage(row) \in ServerMessages
    BY <1>5 DEF OperationMessage, ServerMessages
  <2>4. IsFiniteSet({row}) /\ IsFiniteSet({})
    BY FS_Singleton, FS_EmptySet
  <2>5. 0 <= LatestServerSeq' /\ row.serverSeq <= LatestServerSeq'
    BY <1>4, <1>5
  <2> QED
    BY <1>3, <2>2, <2>3, <2>4, <2>5 DEF Evidence, OperationMessage
<1> QED
  BY <1>1, <1>3, <1>4, <1>6, <1>8, <1>9

\* What the server answers with from the log it has.
LEMMA ServerAnswers ==
  ASSUME log \in Seq(SequencedOperations)
  PROVE  /\ ErrorMessage \in Evidence
         /\ \A row \in Rows : row.serverSeq <= LatestServerSeq =>
                                 OperationMessage(row) \in Evidence
         /\ \A cursor \in Nat, seq \in Nat :
              seq <= LatestServerSeq =>
                SyncMessage(RowsAfter(cursor), LatestServerSeq,
                            seq, PrefixThrough(seq)) \in Evidence
         /\ PrefixThrough(0) = {}
<1>1. /\ LatestServerSeq \in Nat
      /\ Rows \subseteq SequencedOperations
      /\ IsFiniteSet(Rows)
  BY LogFacts
<1>2. PrefixThrough(0) = {}
  <2>1. \A r \in Rows : ~(r.serverSeq <= 0)
    BY <1>1 DEF SequencedOperations
  <2> QED
    BY <2>1 DEF PrefixThrough, OperationsOf
<1>3. IsFiniteSet({}) /\ \A x : IsFiniteSet({x})
  BY FS_EmptySet, FS_Singleton
<1>4. ErrorMessage \in Evidence
  <2>1. ErrorMessage \in ServerMessages
    BY DEF ErrorMessage, ServerMessages
  <2>2. /\ ErrorMessage.batch = {} /\ ErrorMessage.snapshot = {}
        /\ ErrorMessage.snapshotSeq = 0 /\ ErrorMessage.confirmedThrough = 0
    BY DEF ErrorMessage
  <2>3. 0 <= LatestServerSeq
    BY <1>1
  <2> QED
    BY <1>2, <1>3, <2>1, <2>2, <2>3 DEF Evidence
<1>5. ASSUME NEW row \in Rows, row.serverSeq <= LatestServerSeq
      PROVE  OperationMessage(row) \in Evidence
  <2>1. OperationMessage(row) \in ServerMessages
    BY <1>1 DEF OperationMessage, ServerMessages, SequencedOperations
  <2> DEFINE message == OperationMessage(row)
  <2>2. /\ message.batch = {row} /\ message.snapshot = {}
        /\ message.snapshotSeq = 0 /\ message.confirmedThrough = row.serverSeq
    BY DEF OperationMessage
  <2>3. 0 <= LatestServerSeq
    BY <1>1
  <2> HIDE DEF message
  <2>4. message \in ServerMessages
    BY <2>1 DEF message
  <2>5. message \in Evidence
    BY <1>2, <1>3, <1>5, <2>2, <2>3, <2>4 DEF Evidence
  <2> QED
    BY <2>5 DEF message
<1>6. ASSUME NEW cursor \in Nat, NEW seq \in Nat, seq <= LatestServerSeq
      PROVE  SyncMessage(RowsAfter(cursor), LatestServerSeq,
                         seq, PrefixThrough(seq)) \in Evidence
  <2>1. RowsAfter(cursor) \in SUBSET Rows /\ IsFiniteSet(RowsAfter(cursor))
    BY <1>1, FS_Subset DEF RowsAfter
  <2>2. /\ IsFiniteSet(PrefixThrough(seq))
        /\ PrefixThrough(seq) \subseteq Operations
    <3>1. {row \in Rows : row.serverSeq <= seq} \in SUBSET Rows
      OBVIOUS
    <3>2. IsFiniteSet({row \in Rows : row.serverSeq <= seq})
      BY <1>1, <3>1, FS_Subset
    <3>3. \A row \in Rows : row.operation \in Operations
      BY <1>1 DEF SequencedOperations
    <3> QED
      BY <3>2, <3>3, FiniteOperationsOf DEF PrefixThrough, OperationsOf
  <2>3. SyncMessage(RowsAfter(cursor), LatestServerSeq, seq, PrefixThrough(seq))
          \in ServerMessages
    BY <1>1, <2>1, <2>2 DEF SyncMessage, ServerMessages
  <2> QED
    BY <1>1, <1>6, <2>1, <2>2, <2>3 DEF SyncMessage, Evidence
<1> QED
  BY <1>2, <1>4, <1>5, <1>6

--------------------------------------------------------------------------------
(* What sending and receiving does to the connections.                     *)

\* Evidence is what the transport carries.
LEMMA EvidenceIsMessages == Seq(Evidence) \subseteq Seq(ServerMessages)
<1>1. Evidence \subseteq ServerMessages
  BY DEF Evidence
<1> QED
  BY <1>1, SeqMonotonic

\* Sending keeps the messages in flight of their kind, and takes none away.
LEMMA ServerSendsTyped ==
  ASSUME NEW D, down \in [Connections -> Seq(D)],
         NEW connections, NEW message \in D, ServerSends(connections, message)
  PROVE  /\ down' \in [Connections -> Seq(D)]
         /\ \A k \in Connections : down[k] # <<>> => down'[k] # <<>>
<1>1. ASSUME NEW k \in Connections
      PROVE  /\ Append(down[k], message) \in Seq(D)
             /\ Append(down[k], message) # <<>>
  BY AppendProperties
<1> QED
  BY <1>1 DEF ServerSends

\* So does sending to the server.
LEMMA ClientSendsTyped ==
  ASSUME up \in [Connections -> Seq(ClientMessages)], NEW k \in Connections,
         NEW messages \in Seq(ClientMessages), ClientSends(k, messages)
  PROVE  up' \in [Connections -> Seq(ClientMessages)]
<1>1. up[k] \o messages \in Seq(ClientMessages)
  BY ConcatProperties
<1> QED
  BY <1>1 DEF ClientSends

\* The messages that submit operations are client messages.
LEMMA SubmitMessagesTyped ==
  ASSUME NEW operations \in Seq(Operations)
  PROVE  SubmitMessages(operations) \in Seq(ClientMessages)
<1>1. Len(operations) \in Nat /\ \A i \in 1..Len(operations) : operations[i] \in Operations
  BY LenProperties, ElementOfSeq
<1>2. \A i \in 1..Len(operations) :
        [type |-> "submit-operation", operation |-> operations[i]] \in ClientMessages
  BY <1>1 DEF ClientMessages
<1>3. SubmitMessages(operations) \in [1..Len(operations) -> ClientMessages]
  BY <1>2 DEF SubmitMessages
<1> QED
  BY <1>1, <1>3, SeqDef

\* What the server takes of a connection is a client message.
LEMMA ServerTakesTyped ==
  ASSUME up \in [Connections -> Seq(ClientMessages)], NEW k \in Connections,
         ServerTakes(k)
  PROVE  /\ up' \in [Connections -> Seq(ClientMessages)]
         /\ Head(up[k]) \in ClientMessages
<1>1. Head(up[k]) \in ClientMessages /\ Tail(up[k]) \in Seq(ClientMessages)
  BY HeadTailProperties DEF ServerTakes
<1> QED
  BY <1>1 DEF ServerTakes

\* A step of client c leaves the queues of the others alone.
LocalTo(c) ==
  \A d \in Clients \ {c} :
    /\ client'[d] = client[d]
    /\ inbound'[d] = inbound[d]
    /\ handler'[d] = handler[d]
    /\ \A n \in 1..Sockets :
         /\ link'[<<d, n>>] = link[<<d, n>>]
         /\ down[<<d, n>>] # <<>> => down'[<<d, n>>] # <<>>

\* A step of one client leaves the messages in hand of the others in place.
LEMMA OthersKeepMessages ==
  ASSUME TypeOK, HandlerHasMessage, NEW c \in Clients, LocalTo(c),
         handler'[c] = "idle" \/ HasMessage(c)'
  PROVE  HandlerHasMessage'
<1>1. ASSUME NEW d \in Clients, d # c, handler'[d] # "idle"
      PROVE  HasMessage(d)'
  <2>1. HasMessage(d)
    BY <1>1 DEF LocalTo, HandlerHasMessage
  <2>2. CASE inbound[d] # <<>>
    BY <1>1, <2>2 DEF LocalTo, HasMessage
  <2>3. CASE SocketOpen(d) /\ down[Socket(d)] # <<>>
    <3>1. client[d].socket \in 1..Sockets
      BY <2>3, SocketsAssumption DEF TypeOK, ClientStates, SocketOpen, SocketIs
    <3>2. client'[d] = client[d]
      BY <1>1 DEF LocalTo
    <3>3. /\ link'[<<d, client[d].socket>>] = link[<<d, client[d].socket>>]
          /\ down'[<<d, client[d].socket>>] # <<>>
      BY <1>1, <2>3, <3>1 DEF LocalTo, Socket
    <3> QED
      BY <2>3, <3>2, <3>3 DEF HasMessage, SocketOpen, SocketIs, Socket
  <2> QED
    BY <2>1, <2>2, <2>3 DEF HasMessage
<1>2. ASSUME NEW d \in Clients, handler'[d] # "idle" PROVE HasMessage(d)'
  BY <1>1, <1>2
<1> QED
  BY <1>2 DEF HandlerHasMessage

\* A step that leaves the stores and the log alone.
LEMMA QuietStep ==
  ASSUME IInv,
         UNCHANGED <<store, log, snapshotSeq>>,
         link' \in [Connections -> LinkStates],
         session' \in [Connections -> SessionStates],
         up' \in [Connections -> Seq(ClientMessages)],
         down' \in [Connections -> Seq(Evidence)],
         client' \in [Clients -> ClientStates],
         inbound' \in [Clients -> Seq(Evidence)],
         handler' \in [Clients -> HandlerSteps],
         pending' \in [Clients -> Seq(Operations)],
         submits' \in [Clients -> Seq(Seq(Operations))],
         disturbed' \in Nat,
         HandlerHasMessage'
  PROVE  IInv'
<1>1. /\ Evidence' = Evidence
      /\ Rows' = Rows
      /\ LatestServerSeq' = LatestServerSeq
  BY EvidenceStable
<1>2. InFlight'
  BY <1>1 DEF InFlight
<1>3. TypeOK'
  <2>1. /\ down' \in [Connections -> Seq(ServerMessages)]
        /\ inbound' \in [Clients -> Seq(ServerMessages)]
    BY EvidenceIsMessages
  <2> QED
    BY <2>1 DEF IInv, TypeOK
<1>4. StoresSound' /\ SnapshotCached' /\ LogBounded'
  BY <1>1 DEF IInv, StoresSound, SnapshotCached, LogBounded
<1>5. NoLostEdit'
  BY <1>1 DEF IInv, NoLostEdit
<1> QED
  BY <1>2, <1>3, <1>4, <1>5 DEF IInv

--------------------------------------------------------------------------------
(* Parts that several client actions share.                                *)

\* What a client step leaves alone.
Elsewise == UNCHANGED serverVars /\ disturbed' \in Nat

\* connect() gives the client a connection of its own and disturbs no queue.
LEMMA ConnectStep ==
  ASSUME IInv, NEW c \in Clients, NEW state \in ClientStates,
         client[c].socket = 0, Connect(c, state),
         UNCHANGED <<down, inbound, handler>>
  PROVE  /\ link' \in [Connections -> LinkStates]
         /\ client' \in [Clients -> ClientStates]
         /\ HandlerHasMessage'
<1>1. PICK n \in FreeSlots(c) :
        /\ client' = [client EXCEPT ![c] =
                        [state EXCEPT !.socket = n, !.catchUpComplete = FALSE,
                                      !.status = "connecting"]]
        /\ link' = [link EXCEPT ![<<c, n>>] = "connecting"]
  BY DEF Connect
<1>2. n \in 0..Sockets /\ n \in 1..Sockets
  BY SocketsAssumption DEF FreeSlots
<1>3. link' \in [Connections -> LinkStates]
  BY <1>1 DEF IInv, TypeOK, LinkStates
<1>4. client' \in [Clients -> ClientStates]
  <2>1. [state EXCEPT !.socket = n, !.catchUpComplete = FALSE,
                      !.status = "connecting"] \in ClientStates
    BY <1>2 DEF ClientStates, Statuses
  <2> QED
    BY <1>1, <2>1 DEF IInv, TypeOK
<1>5. LocalTo(c)
  BY <1>1 DEF LocalTo, IInv, TypeOK, Connections
<1>6. handler'[c] = "idle" \/ HasMessage(c)'
  BY DEF IInv, HandlerHasMessage, HasMessage, SocketOpen, SocketIs
<1> QED
  BY <1>3, <1>4, <1>5, <1>6, OthersKeepMessages DEF IInv

\* The end of a connection touches no other client's.
LEMMA SocketEndsStep ==
  ASSUME IInv, NEW c \in Clients, NEW state \in LinkStates, SocketEnds(c, state)
  PROVE  /\ link' \in [Connections -> LinkStates]
         /\ down' \in [Connections -> Seq(Evidence)]
         /\ \A d \in Clients \ {c} : \A n \in 1..Sockets :
              /\ link'[<<d, n>>] = link[<<d, n>>]
              /\ down'[<<d, n>>] = down[<<d, n>>]
<1>1. <<>> \in Seq(Evidence)
  BY EmptySeq
<1> QED
  BY <1>1 DEF SocketEnds, IInv, TypeOK, InFlight, Connections, Socket

\* A handler that is done takes its message off the queue.
LEMMA MessageHandledStep ==
  ASSUME IInv, NEW c \in Clients, HasMessage(c), MessageHandled(c),
         UNCHANGED <<link>>,
         \A d \in Clients \ {c} : client'[d] = client[d]
  PROVE  /\ down' \in [Connections -> Seq(Evidence)]
         /\ inbound' \in [Clients -> Seq(Evidence)]
         /\ handler' \in [Clients -> HandlerSteps]
         /\ pending' \in [Clients -> Seq(Operations)]
         /\ HandlerHasMessage'
<1>1. handler' = [handler EXCEPT ![c] = "idle"] /\ pending' = [pending EXCEPT ![c] = <<>>]
  BY DEF MessageHandled
<1>2. handler' \in [Clients -> HandlerSteps]
  BY <1>1 DEF IInv, TypeOK, HandlerSteps
<1>3. pending' \in [Clients -> Seq(Operations)]
  BY <1>1, EmptySeq DEF IInv, TypeOK
<1>4. CASE inbound[c] # <<>>
  <2>1. inbound[c] \in Seq(Evidence)
    BY DEF IInv, InFlight
  <2>2. Tail(inbound[c]) \in Seq(Evidence)
    BY <1>4, <2>1, HeadTailProperties
  <2>3. inbound' = [inbound EXCEPT ![c] = Tail(@)] /\ down' = down
    BY <1>4 DEF MessageHandled
  <2>4. LocalTo(c)
    BY <1>1, <2>3 DEF LocalTo, IInv, TypeOK
  <2> QED
    BY <1>1, <1>2, <1>3, <2>2, <2>3, <2>4, OthersKeepMessages
    DEF IInv, InFlight, TypeOK
<1>5. CASE inbound[c] = <<>>
  <2>1. client[c].socket # 0 /\ down[Socket(c)] # <<>>
    BY <1>5 DEF HasMessage, SocketOpen, SocketIs
  <2>2. Socket(c) \in Connections
    BY <2>1, SocketIsConnection DEF IInv
  <2>3. down[Socket(c)] \in Seq(Evidence)
    BY <2>2 DEF IInv, InFlight
  <2>4. Tail(down[Socket(c)]) \in Seq(Evidence)
    BY <2>1, <2>3, HeadTailProperties
  <2>5. down' = [down EXCEPT ![Socket(c)] = Tail(@)] /\ inbound' = inbound
    BY <1>5 DEF MessageHandled
  <2>6. down' \in [Connections -> Seq(Evidence)]
    BY <2>4, <2>5 DEF IInv, InFlight
  <2>7. LocalTo(c)
    BY <1>1, <2>5 DEF LocalTo, IInv, InFlight, TypeOK, Connections, Socket
  <2> QED
    BY <1>1, <1>2, <1>3, <2>5, <2>6, <2>7, OthersKeepMessages
    DEF IInv, InFlight, TypeOK
<1> QED
  BY <1>4, <1>5

\* While sockets and queues stay as they are, so do the messages in hand.
LEMMA StillHasMessage ==
  ASSUME HandlerHasMessage, UNCHANGED <<link, down, inbound, handler>>,
         \A d \in Clients : client'[d].socket = client[d].socket
  PROVE  HandlerHasMessage'
BY DEF HandlerHasMessage, HasMessage, SocketOpen, SocketIs, Socket

\* A status is shown; the socket stays.
LEMMA StatusChanges ==
  ASSUME TypeOK, NEW c \in Clients, NEW status \in Statuses,
         client' = [client EXCEPT ![c].status = status]
  PROVE  /\ client' \in [Clients -> ClientStates]
         /\ \A d \in Clients : client'[d].socket = client[d].socket
         /\ \A d \in Clients \ {c} : client'[d] = client[d]
<1>1. client[c] \in ClientStates
  BY DEF TypeOK
<1>2. /\ [client[c] EXCEPT !.status = status] \in ClientStates
      /\ [client[c] EXCEPT !.status = status].socket = client[c].socket
  BY <1>1 DEF ClientStates
<1> QED
  BY <1>2 DEF TypeOK

--------------------------------------------------------------------------------
(* Opening and closing, users and connections.                             *)

\* OpenDocument keeps the invariant.
LEMMA OpenDocumentStep ==
  ASSUME IInv, NEW c \in Clients, OpenDocument(c), Elsewise
  PROVE  IInv'
<1> DEFINE opened == [client[c] EXCEPT !.page = "open"]
<1>1. client[c] \in ClientStates /\ opened \in ClientStates
  BY DEF IInv, TypeOK, ClientStates
<1>2. /\ opened.socket = client[c].socket
      /\ UNCHANGED <<session, up, down, store, inbound, handler, pending, submits>>
      /\ IF client[c].suspended
         THEN client' = [client EXCEPT ![c] = opened] /\ UNCHANGED link
         ELSE Connect(c, opened)
  BY <1>1 DEF OpenDocument, ClientStates
<1> HIDE DEF opened
<1>3. /\ link' \in [Connections -> LinkStates]
      /\ client' \in [Clients -> ClientStates]
      /\ HandlerHasMessage'
  <2>1. CASE client[c].suspended
    <3>1. client' = [client EXCEPT ![c] = opened] /\ UNCHANGED link
      BY <1>2, <2>1
    <3>2. client' \in [Clients -> ClientStates]
      BY <1>1, <3>1 DEF IInv, TypeOK
    <3>3. \A d \in Clients : client'[d].socket = client[d].socket
      BY <1>2, <3>1 DEF IInv, TypeOK
    <3> QED
      BY <1>2, <3>1, <3>2, <3>3, StillHasMessage DEF IInv, TypeOK
  <2>2. CASE ~client[c].suspended
    <3>1. Connect(c, opened)
      BY <1>2, <2>2
    <3>2. client[c].socket = 0
      BY <1>2, <3>1 DEF Connect
    <3> QED
      BY <1>1, <1>2, <3>1, <3>2, ConnectStep
  <2> QED
    BY <2>1, <2>2
<1> QED
  BY <1>2, <1>3, QuietStep DEF Elsewise, serverVars, IInv, TypeOK, InFlight

\* CloseDocument keeps the invariant.
LEMMA CloseDocumentStep ==
  ASSUME IInv, NEW c \in Clients, CloseDocument(c), Elsewise
  PROVE  IInv'
<1>1. PICK offlineMode \in {FALSE, client[c].suspended} :
        client' = [client EXCEPT ![c] = [NewClient EXCEPT !.suspended = offlineMode]]
  BY DEF CloseDocument
<1>2. [NewClient EXCEPT !.suspended = offlineMode] \in ClientStates
  <2>1. offlineMode \in BOOLEAN
    BY DEF IInv, TypeOK, ClientStates
  <2>2. NewClient \in ClientStates
    BY SocketsAssumption DEF NewClient, ClientStates, Statuses, JoinReads
  <2> QED
    BY <2>1, <2>2 DEF ClientStates
<1>3. client' \in [Clients -> ClientStates]
  BY <1>1, <1>2 DEF IInv, TypeOK
<1>4. /\ SocketEnds(c, "closed")
      /\ inbound' = [inbound EXCEPT ![c] = <<>>]
      /\ handler' = [handler EXCEPT ![c] = "idle"]
      /\ pending' = [pending EXCEPT ![c] = <<>>]
      /\ submits' = [submits EXCEPT ![c] = <<>>]
      /\ UNCHANGED <<session, up, store>>
  BY DEF CloseDocument
<1>5. /\ inbound' \in [Clients -> Seq(Evidence)]
      /\ handler' \in [Clients -> HandlerSteps]
      /\ pending' \in [Clients -> Seq(Operations)]
      /\ submits' \in [Clients -> Seq(Seq(Operations))]
  BY <1>4, EmptySeq DEF IInv, TypeOK, InFlight, HandlerSteps
<1>6. /\ link' \in [Connections -> LinkStates]
      /\ down' \in [Connections -> Seq(Evidence)]
      /\ \A d \in Clients \ {c} : \A n \in 1..Sockets :
           /\ link'[<<d, n>>] = link[<<d, n>>]
           /\ down'[<<d, n>>] = down[<<d, n>>]
  BY <1>4, SocketEndsStep DEF LinkStates
<1>7. LocalTo(c)
  BY <1>1, <1>4, <1>6 DEF LocalTo, IInv, TypeOK
<1>8. handler'[c] = "idle"
  BY <1>4 DEF IInv, TypeOK
<1>9. HandlerHasMessage'
  BY <1>7, <1>8, OthersKeepMessages DEF IInv
<1> QED
  BY <1>3, <1>4, <1>5, <1>6, <1>9, QuietStep DEF Elsewise, serverVars, IInv, TypeOK

\* Submit keeps the invariant.
LEMMA SubmitStep ==
  ASSUME IInv, NEW c \in Clients, Submit(c), Elsewise
  PROVE  IInv'
<1>1. /\ submits[c] \in Seq(Seq(Operations)) /\ submits[c] # <<>>
      /\ submits' = [submits EXCEPT ![c] = Tail(@)]
      /\ UNCHANGED <<link, session, down, store, inbound, handler, pending>>
  BY DEF Submit, IInv, TypeOK
<1>2. Head(submits[c]) \in Seq(Operations) /\ Tail(submits[c]) \in Seq(Seq(Operations))
  BY <1>1, HeadTailProperties
<1>3. submits' \in [Clients -> Seq(Seq(Operations))]
  BY <1>1, <1>2 DEF IInv, TypeOK
<1>4. /\ up' \in [Connections -> Seq(ClientMessages)]
      /\ client' \in [Clients -> ClientStates]
      /\ \A d \in Clients : client'[d].socket = client[d].socket
  <2>1. CASE client[c].catchUpComplete /\ SocketOpen(c)
    <3>1. /\ ClientSends(Socket(c), SubmitMessages(Head(submits[c])))
          /\ client' = [client EXCEPT ![c].status = "syncing"]
      BY <2>1 DEF Submit
    <3>2. Socket(c) \in Connections
      BY <2>1, SocketIsConnection DEF IInv, SocketOpen, SocketIs
    <3>3. up' \in [Connections -> Seq(ClientMessages)]
      BY <1>2, <3>1, <3>2, SubmitMessagesTyped, ClientSendsTyped DEF IInv, TypeOK
    <3>4. /\ client' \in [Clients -> ClientStates]
          /\ \A d \in Clients : client'[d].socket = client[d].socket
      BY <3>1, StatusChanges DEF IInv, Statuses
    <3> QED
      BY <3>3, <3>4
  <2>2. CASE ~(client[c].catchUpComplete /\ SocketOpen(c))
    BY <2>2 DEF Submit, IInv, TypeOK
  <2> QED
    BY <2>1, <2>2
<1>5. HandlerHasMessage'
  BY <1>1, <1>4, StillHasMessage DEF IInv
<1> QED
  BY <1>1, <1>3, <1>4, <1>5, QuietStep DEF Elsewise, serverVars, IInv, TypeOK, InFlight

\* SocketOpens keeps the invariant.
LEMMA SocketOpensStep ==
  ASSUME IInv, NEW c \in Clients, SocketOpens(c), Elsewise
  PROVE  IInv'
<1>1. /\ SocketIs(c, "connecting")
      /\ link' = [link EXCEPT ![Socket(c)] = "open"]
      /\ session' = [session EXCEPT ![Socket(c)] = "connected"]
      /\ client' = [client EXCEPT ![c].joining = "cursor"]
      /\ UNCHANGED <<up, down, store, inbound, handler, pending, submits>>
  BY DEF SocketOpens
<1>2. /\ link' \in [Connections -> LinkStates]
      /\ session' \in [Connections -> SessionStates]
  BY <1>1 DEF IInv, TypeOK, LinkStates, SessionStates
<1>3. /\ [client[c] EXCEPT !.joining = "cursor"] \in ClientStates
      /\ [client[c] EXCEPT !.joining = "cursor"].socket = client[c].socket
  BY DEF IInv, TypeOK, ClientStates, JoinReads
<1>4. /\ client' \in [Clients -> ClientStates]
      /\ client'[c].socket = client[c].socket
      /\ \A d \in Clients \ {c} : client'[d] = client[d]
  BY <1>1, <1>3 DEF IInv, TypeOK
<1>5. LocalTo(c)
  BY <1>1, <1>4 DEF LocalTo, IInv, TypeOK, Connections, Socket
<1>6. handler'[c] = "idle" \/ HasMessage(c)'
  <2>1. CASE handler[c] = "idle"
    BY <1>1, <2>1
  <2>2. CASE handler[c] # "idle"
    <3>1. inbound[c] # <<>>
      BY <1>1, <2>2 DEF IInv, HandlerHasMessage, HasMessage, SocketOpen, SocketIs
    <3> QED
      BY <1>1, <3>1 DEF HasMessage
  <2> QED
    BY <2>1, <2>2
<1>7. HandlerHasMessage'
  BY <1>5, <1>6, OthersKeepMessages DEF IInv
<1> QED
  BY <1>1, <1>2, <1>4, <1>7, QuietStep DEF Elsewise, serverVars, IInv, TypeOK, InFlight

\* What sendJoin is reading changes, and nothing else.
LEMMA JoiningStep ==
  ASSUME IInv, NEW c \in Clients, NEW read \in JoinReads,
         client' = [client EXCEPT ![c].joining = read],
         UNCHANGED <<link, session, up, down, store, inbound, handler, pending, submits>>,
         Elsewise
  PROVE  IInv'
<1>1. /\ [client[c] EXCEPT !.joining = read] \in ClientStates
      /\ [client[c] EXCEPT !.joining = read].socket = client[c].socket
  BY DEF IInv, TypeOK, ClientStates
<1>2. /\ client' \in [Clients -> ClientStates]
      /\ \A d \in Clients : client'[d].socket = client[d].socket
  BY <1>1 DEF IInv, TypeOK
<1>3. HandlerHasMessage'
  BY <1>2, StillHasMessage DEF IInv
<1> QED
  BY <1>2, <1>3, QuietStep DEF Elsewise, serverVars, IInv, TypeOK, InFlight

\* A join says no more than the cursor, and asks for a snapshot from 0 only.
LEMMA JoinSent ==
  ASSUME IInv, NEW c \in Clients, SendJoin(c)
  PROVE  /\ SocketOpen(c)
         /\ \E join \in ClientMessages :
              /\ join.type = "join"
              /\ join.lastServerSeq <= store[c].lastServerSeq
              /\ join.snapshotCapable => join.lastServerSeq = 0
              /\ ClientSends(Socket(c), <<join>>)
<1> DEFINE Join(cursor, capable) ==
      [type |-> "join", lastServerSeq |-> cursor, snapshotCapable |-> capable]
<1>1. store[c].lastServerSeq \in Nat /\ SnapshotEligible(store[c]) \in BOOLEAN
  BY DEF IInv, TypeOK, Stores, SnapshotEligible
<1>2. ASSUME NEW cursor \in Nat, NEW capable \in BOOLEAN, SendsJoin(c, cursor, capable),
             cursor <= store[c].lastServerSeq, capable => cursor = 0
      PROVE  \E join \in ClientMessages :
               /\ join.type = "join"
               /\ join.lastServerSeq <= store[c].lastServerSeq
               /\ join.snapshotCapable => join.lastServerSeq = 0
               /\ ClientSends(Socket(c), <<join>>)
  <2>1. /\ Join(cursor, capable) \in ClientMessages
        /\ Join(cursor, capable).type = "join"
        /\ Join(cursor, capable).lastServerSeq = cursor
        /\ Join(cursor, capable).snapshotCapable = capable
    BY <1>2 DEF ClientMessages
  <2>2. ClientSends(Socket(c), <<Join(cursor, capable)>>)
    BY <1>2 DEF SendsJoin
  <2> HIDE DEF Join
  <2> QED
    BY <1>2, <2>1, <2>2
<1> HIDE DEF Join
<1>3. SocketOpen(c)
  BY DEF SendJoin
<1>4. CASE SendsJoin(c, store[c].lastServerSeq, FALSE)
  <2>1. store[c].lastServerSeq <= store[c].lastServerSeq
    BY <1>1
  <2> QED
    BY <1>1, <1>2, <1>3, <1>4, <2>1
<1>5. CASE SendsJoin(c, 0, SnapshotEligible(store[c]))
  <2>1. 0 \in Nat /\ 0 <= store[c].lastServerSeq
    BY <1>1
  <2> QED
    BY <1>1, <1>2, <1>3, <1>5, <2>1
<1> QED
  BY <1>4, <1>5 DEF SendJoin

\* CursorReadAtStart keeps the invariant.
LEMMA CursorReadStep ==
  ASSUME IInv, NEW c \in Clients, CursorReadAtStart(c), Elsewise
  PROVE  IInv'
<1>1. "eligibility" \in JoinReads
  BY DEF JoinReads
<1> QED
  BY <1>1, JoiningStep DEF CursorReadAtStart, transportVars

\* SendJoin keeps the invariant.
LEMMA SendJoinStep ==
  ASSUME IInv, NEW c \in Clients, SendJoin(c), Elsewise
  PROVE  IInv'
<1>1. /\ client' = [client EXCEPT ![c].joining = "none"]
      /\ UNCHANGED <<link, session, down, store, inbound, handler, pending, submits>>
  BY DEF SendJoin
<1>2. Socket(c) \in Connections
  BY JoinSent, SocketIsConnection DEF IInv, SocketOpen, SocketIs
<1>3. up' \in [Connections -> Seq(ClientMessages)]
  <2>1. PICK join \in ClientMessages : ClientSends(Socket(c), <<join>>)
    BY JoinSent
  <2>2. <<join>> \in Seq(ClientMessages)
    OBVIOUS
  <2> QED
    BY <1>2, <2>1, <2>2, ClientSendsTyped DEF IInv, TypeOK
<1>4. /\ [client[c] EXCEPT !.joining = "none"] \in ClientStates
      /\ [client[c] EXCEPT !.joining = "none"].socket = client[c].socket
  BY DEF IInv, TypeOK, ClientStates, JoinReads
<1>5. /\ client' \in [Clients -> ClientStates]
      /\ \A d \in Clients : client'[d].socket = client[d].socket
  BY <1>1, <1>4 DEF IInv, TypeOK
<1>6. HandlerHasMessage'
  BY <1>1, <1>5, StillHasMessage DEF IInv
<1> QED
  BY <1>1, <1>3, <1>5, <1>6, QuietStep DEF Elsewise, serverVars, IInv, TypeOK, InFlight

\* SendJoinFails keeps the invariant.
LEMMA SendJoinFailsStep ==
  ASSUME IInv, NEW c \in Clients, SendJoinFails(c), Elsewise
  PROVE  IInv'
<1>1. "none" \in JoinReads
  BY DEF JoinReads
<1> QED
  BY <1>1, JoiningStep DEF SendJoinFails, transportVars

\* A socket that stops receiving leaves its queue behind; the message that is
\* being handled is in it.
LEMMA SocketStopsStep ==
  ASSUME IInv, NEW c \in Clients, Elsewise,
         NEW state \in ClientStates, client' = [client EXCEPT ![c] = state],
         NEW ending \in LinkStates, SocketEnds(c, ending),
         \E queue \in QueuesAtSocketEnd(c) : inbound' = [inbound EXCEPT ![c] = queue],
         UNCHANGED <<session, up, store, handler, pending, submits>>
  PROVE  IInv'
<1>1. /\ client' \in [Clients -> ClientStates]
      /\ \A d \in Clients \ {c} : client'[d] = client[d]
  BY DEF IInv, TypeOK
<1>2. PICK queue \in QueuesAtSocketEnd(c) : inbound' = [inbound EXCEPT ![c] = queue]
  OBVIOUS
<1>3. queue \in Seq(Evidence) /\ (handler[c] # "idle" => queue # <<>>)
  BY QueueAtSocketEnd DEF IInv
<1>4. inbound' \in [Clients -> Seq(Evidence)] /\ inbound'[c] = queue
  BY <1>2, <1>3 DEF IInv, TypeOK, InFlight
<1>5. /\ link' \in [Connections -> LinkStates]
      /\ down' \in [Connections -> Seq(Evidence)]
      /\ \A d \in Clients \ {c} : \A n \in 1..Sockets :
           /\ link'[<<d, n>>] = link[<<d, n>>]
           /\ down'[<<d, n>>] = down[<<d, n>>]
  BY SocketEndsStep
<1>6. LocalTo(c)
  BY <1>1, <1>2, <1>5 DEF LocalTo, IInv, TypeOK
<1>7. handler'[c] = "idle" \/ HasMessage(c)'
  BY <1>3, <1>4 DEF HasMessage
<1>8. HandlerHasMessage'
  BY <1>6, <1>7, OthersKeepMessages DEF IInv
<1> QED
  BY <1>1, <1>4, <1>5, <1>8, QuietStep DEF Elsewise, serverVars, IInv, TypeOK

\* SocketCloses and ConnectionDrops keep the invariant: the close event.
LEMMA OnCloseStep ==
  ASSUME IInv, NEW c \in Clients, OnClose(c), Elsewise
  PROVE  IInv'
<1>1. client[c] \in ClientStates
  BY DEF IInv, TypeOK
<1>2. AfterClose(client[c]) \in ClientStates
  <2> DEFINE failures    == client[c].consecutiveFailures + 1
             unreachable == client[c].unreachable \/ failures >= UnreachableAfter
  <2>1. 0 \in 0..Sockets /\ "offline" \in Statuses /\ "none" \in JoinReads
    BY SocketsAssumption DEF Statuses, JoinReads
  <2>2. failures \in Nat
    BY <1>1 DEF ClientStates
  <2>3. unreachable \in BOOLEAN /\ (~unreachable) \in BOOLEAN
    BY Zenon
  <2>4. AfterClose(client[c]) =
          [client[c] EXCEPT !.socket = 0, !.joining = "none",
                            !.catchUpComplete = FALSE, !.status = "offline",
                            !.consecutiveFailures = failures,
                            !.unreachable = unreachable,
                            !.reconnectTimer = ~unreachable]
    BY DEF AfterClose
  <2> HIDE DEF failures, unreachable
  <2> QED
    BY <1>1, <2>1, <2>2, <2>3, <2>4 DEF ClientStates
<1>3. "closed" \in LinkStates
  BY DEF LinkStates
<1> QED
  BY <1>2, <1>3, SocketStopsStep DEF OnClose

\* Suspend keeps the invariant.
LEMMA SuspendStep ==
  ASSUME IInv, NEW c \in Clients, Suspend(c), Elsewise
  PROVE  IInv'
<1>1. client[c] \in ClientStates
  BY DEF IInv, TypeOK
<1>2. [client[c] EXCEPT !.suspended = TRUE, !.catchUpComplete = FALSE,
                        !.reconnectTimer = FALSE, !.socket = 0,
                        !.joining = "none", !.status = "offline"] \in ClientStates
  <2>1. 0 \in 0..Sockets /\ "offline" \in Statuses /\ "none" \in JoinReads
    BY SocketsAssumption DEF Statuses, JoinReads
  <2> QED
    BY <1>1, <2>1 DEF ClientStates
<1>3. "closed" \in LinkStates
  BY DEF LinkStates
<1> QED
  BY <1>2, <1>3, SocketStopsStep DEF Suspend

\* Reconnect keeps the invariant.
LEMMA ReconnectStep ==
  ASSUME IInv, NEW c \in Clients, Reconnect(c), Elsewise
  PROVE  IInv'
<1> DEFINE state == [client[c] EXCEPT !.reconnectTimer = FALSE]
<1>1. state \in ClientStates /\ state.socket = client[c].socket
  BY DEF IInv, TypeOK, ClientStates
<1>2. Connect(c, state) /\ UNCHANGED <<session, up, down, store, inbound, handler, pending, submits>>
  BY DEF Reconnect
<1> HIDE DEF state
<1>3. client[c].socket = 0
  BY <1>1, <1>2 DEF Connect
<1>4. /\ link' \in [Connections -> LinkStates]
      /\ client' \in [Clients -> ClientStates]
      /\ HandlerHasMessage'
  BY <1>1, <1>2, <1>3, ConnectStep
<1> QED
  BY <1>2, <1>4, QuietStep DEF Elsewise, serverVars, IInv, TypeOK, InFlight

\* Retry keeps the invariant.
LEMMA RetryStep ==
  ASSUME IInv, NEW c \in Clients, Retry(c), Elsewise
  PROVE  IInv'
<1> DEFINE state == [client[c] EXCEPT !.suspended = FALSE, !.reconnectTimer = FALSE]
<1>1. state \in ClientStates /\ state.socket = client[c].socket
  BY DEF IInv, TypeOK, ClientStates
<1>2. /\ IF client[c].socket # 0
         THEN client' = [client EXCEPT ![c] = state] /\ UNCHANGED link
         ELSE Connect(c, state)
      /\ UNCHANGED <<session, up, down, store, inbound, handler, pending, submits>>
  BY DEF Retry
<1> HIDE DEF state
<1>3. /\ link' \in [Connections -> LinkStates]
      /\ client' \in [Clients -> ClientStates]
      /\ HandlerHasMessage'
  <2>1. CASE client[c].socket # 0
    <3>1. client' = [client EXCEPT ![c] = state] /\ UNCHANGED link
      BY <1>2, <2>1
    <3>2. /\ client' \in [Clients -> ClientStates]
          /\ \A d \in Clients : client'[d].socket = client[d].socket
      BY <1>1, <3>1 DEF IInv, TypeOK
    <3> QED
      BY <1>2, <3>1, <3>2, StillHasMessage DEF IInv, TypeOK
  <2>2. CASE client[c].socket = 0
    BY <1>1, <1>2, <2>2, ConnectStep
  <2> QED
    BY <2>1, <2>2
<1> QED
  BY <1>2, <1>3, QuietStep DEF Elsewise, serverVars, IInv, TypeOK, InFlight

--------------------------------------------------------------------------------
(* Handlers that leave the store alone.                                    *)

\* Everything a handler works with is there.
LEMMA AtHeadHasMessage ==
  ASSUME TypeOK, InFlight, NEW c \in Clients, Queue(c) # <<>>
  PROVE  HasMessage(c)
BY QueueIsEvidence

\* A handler is done with its message and shows a status.
LEMMA HandledWithStatus ==
  ASSUME IInv, NEW c \in Clients, HasMessage(c), Elsewise,
         NEW status \in Statuses, client' = [client EXCEPT ![c].status = status],
         MessageHandled(c), UNCHANGED <<link, session, up, store, submits>>
  PROVE  IInv'
<1>1. /\ client' \in [Clients -> ClientStates]
      /\ \A d \in Clients \ {c} : client'[d] = client[d]
  BY StatusChanges DEF IInv
<1>2. /\ down' \in [Connections -> Seq(Evidence)]
      /\ inbound' \in [Clients -> Seq(Evidence)]
      /\ handler' \in [Clients -> HandlerSteps]
      /\ pending' \in [Clients -> Seq(Operations)]
      /\ HandlerHasMessage'
  BY <1>1, MessageHandledStep
<1> QED
  BY <1>1, <1>2, QuietStep DEF Elsewise, serverVars, IInv, TypeOK

\* HandleError keeps the invariant.
LEMMA HandleErrorStep ==
  ASSUME IInv, NEW c \in Clients, HandleError(c), Elsewise
  PROVE  IInv'
<1>1. HasMessage(c)
  BY AtHeadHasMessage DEF HandleError, AtHead, IInv
<1>2. "error" \in Statuses
  BY DEF Statuses
<1> QED
  BY <1>1, <1>2, HandledWithStatus DEF HandleError

\* RefreshStatus keeps the invariant.
LEMMA RefreshStatusStep ==
  ASSUME IInv, NEW c \in Clients, RefreshStatus(c), Elsewise
  PROVE  IInv'
<1>1. HasMessage(c)
  BY DEF RefreshStatus, IInv, HandlerHasMessage
<1>2. (IF pending[c] = <<>> THEN "online" ELSE "syncing") \in Statuses
  BY DEF Statuses
<1> QED
  BY <1>1, <1>2, HandledWithStatus DEF RefreshStatus

\* A message that waits for its transaction is in the queue.
LEMMA ApplyingHasMessage ==
  ASSUME IInv, NEW c \in Clients, Applying(c)
  PROVE  HasMessage(c)
BY AtHeadHasMessage DEF Applying, AtHead, IInv, HandlerHasMessage

\* HandlerFails keeps the invariant.
LEMMA HandlerFailsStep ==
  ASSUME IInv, NEW c \in Clients, HandlerFails(c), Elsewise
  PROVE  IInv'
<1>1. HasMessage(c)
  <2>1. CASE Applying(c)
    BY <2>1, ApplyingHasMessage
  <2>2. CASE handler[c] \in {"flush", "refresh"}
    BY <2>2 DEF IInv, HandlerHasMessage
  <2> QED
    BY <2>1, <2>2 DEF HandlerFails
<1>2. "error" \in Statuses
  BY DEF Statuses
<1> QED
  BY <1>1, <1>2, HandledWithStatus DEF HandlerFails

\* BeginSync keeps the invariant.
LEMMA BeginSyncStep ==
  ASSUME IInv, NEW c \in Clients, BeginSync(c), Elsewise
  PROVE  IInv'
<1>1. HasMessage(c)
  BY AtHeadHasMessage DEF BeginSync, AtHead, IInv
<1>2. /\ client' = [client EXCEPT ![c].status = "syncing"]
      /\ handler' = [handler EXCEPT ![c] = "apply"]
      /\ UNCHANGED <<link, session, up, down, store, inbound, pending, submits>>
  BY DEF BeginSync, transportVars
<1>3. /\ client' \in [Clients -> ClientStates]
      /\ \A d \in Clients : client'[d].socket = client[d].socket
  BY <1>2, StatusChanges DEF IInv, Statuses
<1>4. handler' \in [Clients -> HandlerSteps]
  BY <1>2 DEF IInv, TypeOK, HandlerSteps
<1>5. HandlerHasMessage'
  <2>1. ASSUME NEW d \in Clients, handler'[d] # "idle" PROVE HasMessage(d)
    BY <1>1, <1>2, <2>1 DEF IInv, HandlerHasMessage, TypeOK
  <2>2. \A d \in Clients : HasMessage(d) => HasMessage(d)'
    BY <1>2, <1>3 DEF HasMessage, SocketOpen, SocketIs, Socket
  <2> QED
    BY <2>1, <2>2 DEF HandlerHasMessage
<1> QED
  BY <1>2, <1>3, <1>4, <1>5, QuietStep DEF Elsewise, serverVars, IInv, TypeOK, InFlight

\* FallBackToFullHistory keeps the invariant.
LEMMA FallBackStep ==
  ASSUME IInv, NEW c \in Clients, FallBackToFullHistory(c), Elsewise
  PROVE  IInv'
<1> DEFINE state == [client[c] EXCEPT !.snapshotBootstrapDisabled = TRUE,
                       !.catchUpComplete = FALSE, !.status = "connecting"]
<1>1. PICK queue \in QueuesAtSocketEnd(c) :
        inbound' = [inbound EXCEPT ![c] = Tail(queue)]
  BY DEF FallBackToFullHistory
<1>2. /\ handler[c] = "apply"
      /\ client' = [client EXCEPT ![c] = state]
      /\ SocketEnds(c, "closing")
      /\ handler' = [handler EXCEPT ![c] = "idle"]
      /\ UNCHANGED <<session, up, store, pending, submits>>
  BY DEF FallBackToFullHistory
<1>3. state \in ClientStates
  <2>1. "connecting" \in Statuses
    BY DEF Statuses
  <2>2. client[c] \in ClientStates
    BY DEF IInv, TypeOK
  <2> QED
    BY <2>1, <2>2 DEF ClientStates
<1> HIDE DEF state
<1>4. queue \in Seq(Evidence) /\ queue # <<>>
  BY <1>2, QueueAtSocketEnd DEF IInv
<1>5. Tail(queue) \in Seq(Evidence)
  BY <1>4, HeadTailProperties
<1>6. /\ client' \in [Clients -> ClientStates]
      /\ inbound' \in [Clients -> Seq(Evidence)]
      /\ handler' \in [Clients -> HandlerSteps]
  BY <1>1, <1>2, <1>3, <1>5 DEF IInv, TypeOK, InFlight, HandlerSteps
<1>7. /\ link' \in [Connections -> LinkStates]
      /\ down' \in [Connections -> Seq(Evidence)]
      /\ \A d \in Clients \ {c} : \A n \in 1..Sockets :
           /\ link'[<<d, n>>] = link[<<d, n>>]
           /\ down'[<<d, n>>] = down[<<d, n>>]
  BY <1>2, SocketEndsStep DEF LinkStates
<1>8. LocalTo(c) /\ handler'[c] = "idle"
  BY <1>1, <1>2, <1>7 DEF LocalTo, IInv, TypeOK
<1>9. HandlerHasMessage'
  BY <1>8, OthersKeepMessages DEF IInv
<1> QED
  BY <1>2, <1>6, <1>7, <1>9, QuietStep DEF Elsewise, serverVars, IInv, TypeOK

--------------------------------------------------------------------------------
(* Handlers that read the outbox.                                          *)

\* loadPendingOperations returns stored operations.
LEMMA PendingStored ==
  ASSUME NEW s \in Stores, StoreSound(s)
  PROVE  PendingOperations(s) \in Seq(s.operations)
<1> DEFINE numbers  == {id[2] : id \in s.outbox}
           counters == Ascending(numbers)
           stored   == s.operations
           marked(i) == CHOOSE operation \in stored :
                          /\ operation.id \in s.outbox
                          /\ operation.id[2] = counters[i]
<1>1. /\ s.outbox \subseteq OpIds
      /\ IsFiniteSet(s.outbox)
      /\ s.outbox \subseteq Ids(stored)
  BY DEF Stores, StoreSound
<1>2. numbers \subseteq Nat /\ IsFiniteSet(numbers)
  BY <1>1, FiniteCounters DEF OpIds
<1>3. /\ Len(counters) \in Nat
      /\ \A i \in 1..Len(counters) : counters[i] \in numbers
  <2>1. counters \in Seq(numbers)
    BY <1>2, AscendingIsSeq
  <2> HIDE DEF numbers, counters
  <2> QED
    BY <2>1, LenProperties, ElementOfSeq
<1>4. ASSUME NEW i \in 1..Len(counters)
      PROVE  marked(i) \in stored
  <2>1. PICK id \in s.outbox : id[2] = counters[i]
    BY <1>3, <1>4
  <2> HIDE DEF stored, counters
  <2>2. PICK operation \in stored : operation.id = id
    BY <1>1, <2>1 DEF Ids
  <2>3. \E o \in stored : o.id \in s.outbox /\ o.id[2] = counters[i]
    BY <2>1, <2>2
  <2> QED
    BY <2>3
<1>5. PendingOperations(s) = [i \in 1..Len(counters) |-> marked(i)]
  BY DEF PendingOperations
<1> HIDE DEF counters, stored, marked
<1>6. PendingOperations(s) \in [1..Len(counters) -> stored]
  BY <1>4, <1>5
<1>7. PendingOperations(s) \in Seq(stored)
  BY <1>3, <1>6, SeqDef
<1> QED
  BY <1>7 DEF stored

\* They are operations.
LEMMA PendingTyped ==
  ASSUME NEW s \in Stores, StoreSound(s)
  PROVE  PendingOperations(s) \in Seq(Operations)
<1>1. s.operations \subseteq Operations
  BY DEF Stores
<1>2. Seq(s.operations) \subseteq Seq(Operations)
  BY <1>1, SeqMonotonic
<1> QED
  BY <1>2, PendingStored

\* A handler reads the outbox and goes on with the same message.
LEMMA ReadsOutboxStep ==
  ASSUME IInv, NEW c \in Clients, HasMessage(c),
         NEW step \in HandlerSteps, handler' = [handler EXCEPT ![c] = step],
         pending' = [pending EXCEPT ![c] = PendingOperations(store[c])],
         UNCHANGED <<link, inbound, down>>,
         \A d \in Clients : client'[d].socket = client[d].socket
  PROVE  /\ down' \in [Connections -> Seq(Evidence)]
         /\ inbound' \in [Clients -> Seq(Evidence)]
         /\ handler' \in [Clients -> HandlerSteps]
         /\ pending' \in [Clients -> Seq(Operations)]
         /\ HandlerHasMessage'
<1>1. store[c] \in Stores /\ StoreSound(store[c])
  BY DEF IInv, TypeOK, StoresSound
<1>2. PendingOperations(store[c]) \in Seq(Operations)
  BY <1>1, PendingTyped
<1>3. /\ handler' \in [Clients -> HandlerSteps]
      /\ pending' \in [Clients -> Seq(Operations)]
  BY <1>2 DEF IInv, TypeOK
<1>4. HandlerHasMessage'
  <2>1. ASSUME NEW d \in Clients, handler'[d] # "idle" PROVE HasMessage(d)
    BY <2>1 DEF IInv, HandlerHasMessage, TypeOK
  <2>2. \A d \in Clients : HasMessage(d) => HasMessage(d)'
    BY DEF HasMessage, SocketOpen, SocketIs, Socket
  <2> QED
    BY <2>1, <2>2 DEF HandlerHasMessage
<1> QED
  BY <1>3, <1>4 DEF IInv, InFlight

\* refreshOnlineStatus up to its await.
LEMMA ReadForStatusStep ==
  ASSUME IInv, NEW c \in Clients, HasMessage(c),
         NEW caughtUp, ReadForStatus(c, caughtUp), UNCHANGED link,
         \A d \in Clients : client'[d].socket = client[d].socket,
         \A d \in Clients \ {c} : client'[d] = client[d]
  PROVE  /\ down' \in [Connections -> Seq(Evidence)]
         /\ inbound' \in [Clients -> Seq(Evidence)]
         /\ handler' \in [Clients -> HandlerSteps]
         /\ pending' \in [Clients -> Seq(Operations)]
         /\ HandlerHasMessage'
<1>1. CASE caughtUp /\ SocketOpen(c)
  <2>1. /\ handler' = [handler EXCEPT ![c] = "refresh"]
        /\ pending' = [pending EXCEPT ![c] = PendingOperations(store[c])]
        /\ UNCHANGED <<inbound, down>>
    BY <1>1 DEF ReadForStatus
  <2>2. "refresh" \in HandlerSteps
    BY DEF HandlerSteps
  <2> QED
    BY <2>1, <2>2, ReadsOutboxStep
<1>2. CASE ~(caughtUp /\ SocketOpen(c))
  <2>1. MessageHandled(c)
    BY <1>2 DEF ReadForStatus
  <2> QED
    BY <2>1, MessageHandledStep
<1> QED
  BY <1>1, <1>2

\* CaughtUp keeps the invariant.
LEMMA CaughtUpStep ==
  ASSUME IInv, NEW c \in Clients, CaughtUp(c), Elsewise
  PROVE  IInv'
<1> DEFINE state == [client[c] EXCEPT !.catchUpComplete = TRUE,
                       !.consecutiveFailures = 0, !.unreachable = FALSE]
<1>1. /\ client' = [client EXCEPT ![c] = state]
      /\ IF SocketOpen(c)
         THEN /\ handler' = [handler EXCEPT ![c] = "flush"]
              /\ pending' = [pending EXCEPT ![c] = PendingOperations(store[c])]
              /\ UNCHANGED <<inbound, down>>
         ELSE MessageHandled(c)
      /\ UNCHANGED <<link, session, up, store, submits>>
  BY DEF CaughtUp
<1>2. client[c] \in ClientStates
  BY DEF IInv, TypeOK
<1>3. state \in ClientStates /\ state.socket = client[c].socket
  BY <1>2 DEF ClientStates
<1> HIDE DEF state
<1>4. /\ client' \in [Clients -> ClientStates]
      /\ \A d \in Clients : client'[d].socket = client[d].socket
      /\ \A d \in Clients \ {c} : client'[d] = client[d]
  BY <1>1, <1>3 DEF IInv, TypeOK
<1>5. HasMessage(c)
  BY DEF CaughtUp, IInv, HandlerHasMessage
<1>6. /\ down' \in [Connections -> Seq(Evidence)]
      /\ inbound' \in [Clients -> Seq(Evidence)]
      /\ handler' \in [Clients -> HandlerSteps]
      /\ pending' \in [Clients -> Seq(Operations)]
      /\ HandlerHasMessage'
  <2>1. CASE SocketOpen(c)
    <3>1. "flush" \in HandlerSteps
      BY DEF HandlerSteps
    <3> QED
      BY <1>1, <1>4, <1>5, <2>1, <3>1, ReadsOutboxStep
  <2>2. CASE ~SocketOpen(c)
    BY <1>1, <1>4, <1>5, <2>2, MessageHandledStep
  <2> QED
    BY <2>1, <2>2
<1> QED
  BY <1>1, <1>4, <1>6, QuietStep DEF Elsewise, serverVars, IInv, TypeOK

\* FlushOutbox keeps the invariant.
LEMMA FlushOutboxStep ==
  ASSUME IInv, NEW c \in Clients, FlushOutbox(c), Elsewise
  PROVE  IInv'
<1>1. /\ handler[c] = "flush"
      /\ ReadForStatus(c, client[c].catchUpComplete)
      /\ UNCHANGED <<link, session, store, submits>>
  BY DEF FlushOutbox
<1>2. HasMessage(c)
  BY <1>1 DEF IInv, HandlerHasMessage
<1>3. /\ client' \in [Clients -> ClientStates]
      /\ \A d \in Clients : client'[d].socket = client[d].socket
      /\ \A d \in Clients \ {c} : client'[d] = client[d]
      /\ up' \in [Connections -> Seq(ClientMessages)]
  <2>1. CASE pending[c] = <<>>
    BY <2>1 DEF FlushOutbox, IInv, TypeOK
  <2>2. CASE pending[c] # <<>>
    <3>1. /\ client' = [client EXCEPT ![c].status = "syncing"]
          /\ IF SocketOpen(c)
             THEN ClientSends(Socket(c), SubmitMessages(pending[c]))
             ELSE UNCHANGED up
      BY <2>2 DEF FlushOutbox
    <3>2. /\ client' \in [Clients -> ClientStates]
          /\ \A d \in Clients : client'[d].socket = client[d].socket
          /\ \A d \in Clients \ {c} : client'[d] = client[d]
      BY <3>1, StatusChanges DEF IInv, Statuses
    <3>3. up' \in [Connections -> Seq(ClientMessages)]
      <4>1. CASE SocketOpen(c)
        <5>1. Socket(c) \in Connections
          BY <4>1, SocketIsConnection DEF IInv, SocketOpen, SocketIs
        <5>2. SubmitMessages(pending[c]) \in Seq(ClientMessages)
          BY SubmitMessagesTyped DEF IInv, TypeOK
        <5> QED
          BY <3>1, <4>1, <5>1, <5>2, ClientSendsTyped DEF IInv, TypeOK
      <4>2. CASE ~SocketOpen(c)
        BY <3>1, <4>2 DEF IInv, TypeOK
      <4> QED
        BY <4>1, <4>2
    <3> QED
      BY <3>2, <3>3
  <2> QED
    BY <2>1, <2>2
<1>4. /\ down' \in [Connections -> Seq(Evidence)]
      /\ inbound' \in [Clients -> Seq(Evidence)]
      /\ handler' \in [Clients -> HandlerSteps]
      /\ pending' \in [Clients -> Seq(Operations)]
      /\ HandlerHasMessage'
  BY <1>1, <1>2, <1>3, ReadForStatusStep
<1> QED
  BY <1>1, <1>3, <1>4, QuietStep DEF Elsewise, serverVars, IInv, TypeOK

\* OperationApplied keeps the invariant.
LEMMA OperationAppliedStep ==
  ASSUME IInv, NEW c \in Clients, OperationApplied(c), Elsewise
  PROVE  IInv'
<1>1. /\ handler[c] = "applied"
      /\ ReadForStatus(c, client[c].catchUpComplete)
      /\ UNCHANGED <<link, session, up, store, client, submits>>
  BY DEF OperationApplied
<1>2. HasMessage(c)
  BY <1>1 DEF IInv, HandlerHasMessage
<1>3. /\ down' \in [Connections -> Seq(Evidence)]
      /\ inbound' \in [Clients -> Seq(Evidence)]
      /\ handler' \in [Clients -> HandlerSteps]
      /\ pending' \in [Clients -> Seq(Operations)]
      /\ HandlerHasMessage'
  BY <1>1, <1>2, ReadForStatusStep
<1> QED
  BY <1>1, <1>3, QuietStep DEF Elsewise, serverVars, IInv, TypeOK

--------------------------------------------------------------------------------
(* Transactions on the store.                                              *)

\* The clock after a transaction is at least what it was, and at least every
\* stamp received.
LEMMA AdvanceClockBounds ==
  ASSUME NEW clock \in Nat, NEW operations \in SUBSET Operations,
         IsFiniteSet(operations)
  PROVE  /\ AdvanceClock(clock, operations) \in Nat
         /\ clock <= AdvanceClock(clock, operations)
         /\ \A operation \in operations :
              operation.lamport <= AdvanceClock(clock, operations)
<1> DEFINE stamps  == {operation.lamport : operation \in operations}
           numbers == {clock} \cup stamps
<1>1. IsFiniteSet(stamps)
  BY FiniteLamports
<1>2. stamps \subseteq Nat
  BY DEF Operations
<1>3. numbers \in SUBSET Nat /\ clock \in numbers /\ stamps \subseteq numbers
  BY <1>2
<1>4. IsFiniteSet(numbers)
  BY <1>1, FS_Singleton, FS_Union
<1>5. AdvanceClock(clock, operations) = Max(numbers)
  BY DEF AdvanceClock
<1>6. \A operation \in operations : operation.lamport \in stamps
  OBVIOUS
<1> HIDE DEF stamps, numbers
<1>7. Max(numbers) \in numbers /\ \A n \in numbers : n <= Max(numbers)
  BY <1>3, <1>4, MaxOfFinite
<1> QED
  BY <1>3, <1>5, <1>6, <1>7

\* A transaction on the store of client c that keeps the client's own edits.
LEMMA StoreStep ==
  ASSUME IInv, NEW c \in Clients, Elsewise,
         NEW s \in Stores, StoreSound(s), store' = [store EXCEPT ![c] = s],
         \A n \in 1..(s.nextCounter - 1) :
           /\ <<c, n>> \in Ids(Known(s))
           /\ <<c, n>> \in s.outbox \/ <<c, n>> \in Ids(OperationsOf(Rows)),
         UNCHANGED <<link, session, up, down, client, inbound, pending>>,
         handler' \in [Clients -> HandlerSteps],
         \A d \in Clients : handler'[d] # "idle" => HasMessage(d),
         submits' \in [Clients -> Seq(Seq(Operations))]
  PROVE  IInv'
<1>1. UNCHANGED <<log, snapshotSeq>> /\ disturbed' \in Nat
  BY DEF Elsewise, serverVars
<1>2. /\ Evidence' = Evidence
      /\ Rows' = Rows
      /\ LatestServerSeq' = LatestServerSeq
  BY <1>1, EvidenceStable
<1>3. /\ store' \in [Clients -> Stores]
      /\ store'[c] = s
      /\ \A d \in Clients \ {c} : store'[d] = store[d]
  BY DEF IInv, TypeOK
<1>4. TypeOK' /\ InFlight'
  BY <1>1, <1>2, <1>3 DEF IInv, TypeOK, InFlight, Connections
<1>5. HandlerHasMessage'
  <2>1. \A d \in Clients : HasMessage(d) => HasMessage(d)'
    BY DEF HasMessage, SocketOpen, SocketIs, Socket
  <2> QED
    BY <2>1 DEF HandlerHasMessage
<1>6. StoresSound'
  <2>1. \A d \in Clients : StoreSound(store'[d])
    BY <1>3 DEF IInv, StoresSound
  <2> QED
    BY <2>1 DEF StoresSound
<1>7. SnapshotCached' /\ LogBounded'
  BY <1>1, <1>2 DEF IInv, SnapshotCached, LogBounded
<1>8. NoLostEdit'
  <2>1. ASSUME NEW d \in Clients, NEW n \in 1..(store'[d].nextCounter - 1)
        PROVE  /\ <<d, n>> \in Ids(Known(store'[d]))
               /\ \/ <<d, n>> \in store'[d].outbox
                  \/ <<d, n>> \in Ids(OperationsOf(Rows))
    <3>1. CASE d = c
      BY <1>3, <2>1, <3>1
    <3>2. CASE d # c
      BY <1>3, <2>1, <3>2 DEF IInv, NoLostEdit
    <3> QED
      BY <3>1, <3>2
  <2> QED
    BY <1>2, <2>1 DEF NoLostEdit
<1> QED
  BY <1>4, <1>5, <1>6, <1>7, <1>8 DEF IInv

\* The operations of an edit are well formed and continue the counter.
LEMMA EditOperationsTyped ==
  ASSUME NEW s \in Stores, NEW c \in Clients, NEW anchor \in SUBSET OpIds,
         NEW size \in Nat \ {0}
  PROVE  LET edit == EditOperations(s, c, anchor, size)
         IN  /\ edit \in Seq(Operations)
             /\ Len(edit) = size
             /\ \A i \in 1..size : edit[i].id = <<c, s.nextCounter + i - 1>>
<1> DEFINE edit == EditOperations(s, c, anchor, size)
<1>1. s.nextCounter \in Nat \ {0} /\ s.lamportClock \in Nat
  BY DEF Stores
<1>2. ASSUME NEW i \in 1..size
      PROVE  [id        |-> <<c, s.nextCounter + i - 1>>,
              lamport   |-> s.lamportClock + i,
              dependsOn |-> IF i = 1 THEN anchor
                                     ELSE {<<c, s.nextCounter + i - 2>>}]
               \in Operations
  <2>1. /\ s.nextCounter + i - 1 \in Nat \ {0}
        /\ s.lamportClock + i \in Nat \ {0}
        /\ i # 1 => s.nextCounter + i - 2 \in Nat \ {0}
    BY <1>1, <1>2
  <2>2. <<c, s.nextCounter + i - 1>> \in OpIds
    BY <2>1 DEF OpIds
  <2>3. (IF i = 1 THEN anchor ELSE {<<c, s.nextCounter + i - 2>>}) \in SUBSET OpIds
    BY <2>1 DEF OpIds
  <2> QED
    BY <2>1, <2>2, <2>3 DEF Operations
<1>3. edit \in [1..size -> Operations]
  BY <1>2 DEF EditOperations
<1>4. edit \in Seq(Operations) /\ Len(edit) = size
  <2> HIDE DEF edit
  <2> QED
    BY <1>3, SeqDef, LenProperties
<1>5. \A i \in 1..size : edit[i].id = <<c, s.nextCounter + i - 1>>
  BY DEF EditOperations
<1> QED
  BY <1>4, <1>5

\* Edit keeps the invariant: every new operation is stored with its marker in
\* one transaction.
LEMMA EditStep ==
  ASSUME IInv, NEW c \in Clients, Edit(c), Elsewise
  PROVE  IInv'
<1>1. PICK size \in EditSizes[c],
           anchor \in {{}} \cup {{id} : id \in Ids(Attached(Known(store[c])))} :
        LET edit == EditOperations(store[c], c, anchor, size)
        IN  /\ store' = [store EXCEPT ![c] = PersistLocalTextEdit(@, edit)]
            /\ submits' = [submits EXCEPT ![c] = Append(@, edit)]
  BY DEF Edit
<1>2. UNCHANGED <<link, session, up, down, client, inbound, handler, pending>>
  BY DEF Edit, transportVars
<1> DEFINE old  == store[c]
           edit == EditOperations(old, c, anchor, size)
           new  == PersistLocalTextEdit(old, edit)
<1>3. store' = [store EXCEPT ![c] = new] /\ submits' = [submits EXCEPT ![c] = Append(@, edit)]
  BY <1>1
<1>4. old \in Stores /\ StoreSound(old)
  BY DEF IInv, TypeOK, StoresSound
<1>5. size \in Nat \ {0}
  BY EditAssumption
<1>6. anchor \in SUBSET OpIds
  <2>1. Attached(Known(old)) \subseteq Known(old)
    BY DEF Attached
  <2>2. Known(old) \subseteq Operations
    BY <1>4 DEF Known, Stores
  <2>3. Ids(Attached(Known(old))) \subseteq OpIds
    BY <2>1, <2>2 DEF Ids, Operations
  <2> QED
    BY <2>3
<1>7. /\ edit \in Seq(Operations)
      /\ Len(edit) = size
      /\ \A i \in 1..size : edit[i].id = <<c, old.nextCounter + i - 1>>
  BY <1>4, <1>5, <1>6, EditOperationsTyped
<1> HIDE DEF old, edit
<1>8. /\ new.nextCounter = old.nextCounter + size
      /\ new.lamportClock = old.lamportClock + size
      /\ new.operations = old.operations \cup Range(edit)
      /\ new.outbox = old.outbox \cup Ids(Range(edit))
      /\ new.lastServerSeq = old.lastServerSeq
      /\ new.baselineSeq = old.baselineSeq
      /\ new.baseline = old.baseline
  BY <1>4, <1>7 DEF PersistLocalTextEdit, Stores
<1>9. /\ Range(edit) \subseteq Operations
      /\ IsFiniteSet(Ids(Range(edit)))
      /\ Ids(Range(edit)) \subseteq OpIds
      /\ \A i \in 1..size : <<c, old.nextCounter + i - 1>> \in Ids(Range(edit))
  <2>1. Range(edit) \subseteq Operations
    BY <1>7, RangeOfSeq
  <2>2. Ids(Range(edit)) \subseteq OpIds
    BY <2>1 DEF Ids, Operations
  <2>3. IsFiniteSet(Ids(Range(edit)))
    BY <1>7, FiniteIdsOfSeq
  <2>4. \A i \in 1..size : edit[i] \in Range(edit)
    BY <1>7, RangeEquality
  <2> QED
    BY <1>7, <2>1, <2>2, <2>3, <2>4 DEF Ids
<1>10. new \in Stores
  <2>1. /\ old.nextCounter + size \in Nat \ {0}
        /\ old.lamportClock + size \in Nat
    BY <1>4, <1>5 DEF Stores
  <2>2. /\ old.operations \cup Range(edit) \in SUBSET Operations
        /\ old.outbox \cup Ids(Range(edit)) \in SUBSET OpIds
    BY <1>4, <1>9 DEF Stores
  <2> QED
    BY <1>4, <1>7, <2>1, <2>2 DEF PersistLocalTextEdit, Stores
<1> HIDE DEF new
<1>11. StoreSound(new)
  <2>1. IsFiniteSet(new.outbox)
    <3>1. IsFiniteSet(old.outbox)
      BY <1>4 DEF StoreSound
    <3>2. IsFiniteSet(old.outbox \cup Ids(Range(edit)))
      BY <1>9, <3>1, FS_Union
    <3> QED
      BY <1>8, <3>2
  <2> QED
    BY <1>4, <1>8, <2>1 DEF StoreSound, Ids
<1>12. ASSUME NEW n \in 1..(new.nextCounter - 1)
       PROVE  /\ <<c, n>> \in Ids(Known(new))
              /\ <<c, n>> \in new.outbox \/ <<c, n>> \in Ids(OperationsOf(Rows))
  <2>1. old.nextCounter \in Nat \ {0}
    BY <1>4 DEF Stores
  <2>2. CASE n < old.nextCounter
    <3>1. n \in 1..(old.nextCounter - 1)
      BY <1>12, <2>1, <2>2
    <3>2. /\ <<c, n>> \in Ids(Known(old))
          /\ <<c, n>> \in old.outbox \/ <<c, n>> \in Ids(OperationsOf(Rows))
      BY <3>1 DEF IInv, NoLostEdit, old
    <3> QED
      BY <1>8, <3>2 DEF Ids, Known
  <2>3. CASE n >= old.nextCounter
    <3>1. n - old.nextCounter + 1 \in 1..size
      BY <1>5, <1>8, <1>12, <2>1, <2>3
    <3>2. old.nextCounter + (n - old.nextCounter + 1) - 1 = n
      BY <1>12, <2>1
    <3>3. <<c, n>> \in Ids(Range(edit))
      BY <1>9, <3>1, <3>2
    <3> QED
      BY <1>8, <3>3 DEF Ids, Known
  <2> QED
    BY <1>12, <2>1, <2>2, <2>3
<1>13. submits' \in [Clients -> Seq(Seq(Operations))]
  <2>1. Append(submits[c], edit) \in Seq(Seq(Operations))
    BY <1>7, AppendProperties DEF IInv, TypeOK
  <2> QED
    BY <1>3, <2>1 DEF IInv, TypeOK
<1>14. /\ handler' \in [Clients -> HandlerSteps]
       /\ \A d \in Clients : handler'[d] # "idle" => HasMessage(d)
  BY <1>2 DEF IInv, TypeOK, HandlerHasMessage
<1> QED
  BY <1>2, <1>3, <1>10, <1>11, <1>12, <1>13, <1>14, StoreStep

\* A message that is evidence brings finitely many operations of the log.
LEMMA BatchFacts ==
  ASSUME IInv, NEW message \in Evidence
  PROVE  /\ OperationsOf(message.batch) \in SUBSET Operations
         /\ IsFiniteSet(OperationsOf(message.batch))
         /\ OperationsOf(message.batch) \subseteq OperationsOf(Rows)
         /\ message.snapshot \in SUBSET Operations
         /\ IsFiniteSet(message.snapshot)
         /\ message.confirmedThrough \in Nat /\ message.snapshotSeq \in Nat
<1>1. /\ message \in ServerMessages
      /\ IsFiniteSet(message.batch) /\ IsFiniteSet(message.snapshot)
      /\ message.batch \subseteq Rows
  BY DEF Evidence
<1>2. /\ message.batch \subseteq SequencedOperations
      /\ message.snapshot \in SUBSET Operations
      /\ message.confirmedThrough \in Nat /\ message.snapshotSeq \in Nat
  BY <1>1 DEF ServerMessages
<1>3. OperationsOf(message.batch) \in SUBSET Operations
  BY <1>2 DEF OperationsOf, SequencedOperations
<1>4. OperationsOf(message.batch) \subseteq OperationsOf(Rows)
  BY <1>1 DEF OperationsOf
<1> QED
  BY <1>1, <1>2, <1>3, <1>4, FiniteOperationsOf

\* ApplyOperations keeps the invariant: a marker goes only for an operation
\* that the log has.
LEMMA ApplyOperationsStep ==
  ASSUME IInv, NEW c \in Clients, ApplyOperations(c), Elsewise
  PROVE  IInv'
<1> DEFINE old      == store[c]
           batch    == Message(c).batch
           received == OperationsOf(batch)
           through  == Message(c).confirmedThrough
           new      == PersistServerOperations(old, batch, through)
<1>1. /\ store' = [store EXCEPT ![c] = new]
      /\ handler' = [handler EXCEPT ![c] = "applied"]
      /\ UNCHANGED <<link, session, up, down, client, inbound, pending, submits>>
  BY DEF ApplyOperations, transportVars
<1>2. HasMessage(c)
  BY ApplyingHasMessage DEF ApplyOperations
<1>3. /\ received \in SUBSET Operations
      /\ IsFiniteSet(received)
      /\ received \subseteq OperationsOf(Rows)
      /\ through \in Nat
  <2>1. Message(c) \in Evidence
    BY <1>2, MessageIsEvidence DEF IInv
  <2> QED
    BY <2>1, BatchFacts
<1>4. old \in Stores /\ StoreSound(old)
  BY DEF IInv, TypeOK, StoresSound
<1> DEFINE clock == AdvanceClock(old.lamportClock, received)
           cursor == Max({old.lastServerSeq, through})
<1>5. clock \in Nat
  <2>1. old.lamportClock \in Nat
    BY <1>4 DEF Stores
  <2> HIDE DEF old, received
  <2> QED
    BY <1>3, <2>1, AdvanceClockBounds
<1>6. cursor \in Nat
  BY <1>3, <1>4, MaxOfTwo DEF Stores
<1>7. new = [old EXCEPT !.lamportClock = clock, !.operations = @ \cup received,
                        !.outbox = @ \ Ids(received), !.lastServerSeq = cursor]
  BY DEF PersistServerOperations
<1> HIDE DEF old, received, through, clock, cursor, new
<1>8. /\ new.nextCounter = old.nextCounter
      /\ new.operations = old.operations \cup received
      /\ new.outbox = old.outbox \ Ids(received)
      /\ new.baselineSeq = old.baselineSeq
      /\ new.baseline = old.baseline
  BY <1>4, <1>7 DEF Stores
<1>9. new \in Stores
  <2>1. /\ old.operations \cup received \in SUBSET Operations
        /\ old.outbox \ Ids(received) \in SUBSET OpIds
    BY <1>3, <1>4 DEF Stores
  <2> QED
    BY <1>4, <1>5, <1>6, <1>7, <2>1 DEF Stores
<1>10. StoreSound(new)
  <2>1. new.outbox \in SUBSET old.outbox
    BY <1>8
  <2>2. IsFiniteSet(new.outbox)
    BY <1>4, <2>1, FS_Subset DEF StoreSound
  <2> QED
    BY <1>4, <1>8, <2>2 DEF StoreSound, Ids
<1>11. ASSUME NEW n \in 1..(new.nextCounter - 1)
       PROVE  /\ <<c, n>> \in Ids(Known(new))
              /\ <<c, n>> \in new.outbox \/ <<c, n>> \in Ids(OperationsOf(Rows))
  <2>1. /\ <<c, n>> \in Ids(Known(old))
        /\ <<c, n>> \in old.outbox \/ <<c, n>> \in Ids(OperationsOf(Rows))
    BY <1>8, <1>11 DEF IInv, NoLostEdit, old
  <2>2. Ids(received) \subseteq Ids(OperationsOf(Rows))
    BY <1>3 DEF Ids
  <2> QED
    BY <1>8, <2>1, <2>2 DEF Ids, Known
<1>12. /\ handler' \in [Clients -> HandlerSteps]
       /\ \A d \in Clients : handler'[d] # "idle" => HasMessage(d)
  BY <1>1, <1>2 DEF IInv, TypeOK, HandlerHasMessage, HandlerSteps
<1>13. submits' \in [Clients -> Seq(Seq(Operations))]
  BY <1>1 DEF IInv, TypeOK
<1> QED
  BY <1>1, <1>9, <1>10, <1>11, <1>12, <1>13, StoreStep

\* InstallSnapshot keeps the invariant: only a client without edits of its own
\* replaces what it knows.
LEMMA InstallSnapshotStep ==
  ASSUME IInv, NEW c \in Clients, InstallSnapshot(c), Elsewise
  PROVE  IInv'
<1> DEFINE old      == store[c]
           message  == Message(c)
           received == OperationsOf(message.batch)
           new      == InstallServerBaseline(old, message.snapshot, message.snapshotSeq,
                                             message.batch, message.confirmedThrough)
<1>1. /\ store' = [store EXCEPT ![c] = new]
      /\ handler' = [handler EXCEPT ![c] = "applied"]
      /\ message.snapshotSeq > 0
      /\ SnapshotEligible(old)
      /\ UNCHANGED <<link, session, up, down, client, inbound, pending, submits>>
  BY DEF InstallSnapshot, SnapshotInstallable, transportVars
<1>2. HasMessage(c)
  BY DEF InstallSnapshot, IInv, HandlerHasMessage
<1>3. /\ received \in SUBSET Operations
      /\ IsFiniteSet(received)
      /\ message.snapshot \in SUBSET Operations
      /\ IsFiniteSet(message.snapshot)
      /\ message.confirmedThrough \in Nat /\ message.snapshotSeq \in Nat
  <2>1. Message(c) \in Evidence
    BY <1>2, MessageIsEvidence DEF IInv
  <2> QED
    BY <2>1, BatchFacts
<1>4. old \in Stores /\ StoreSound(old)
  BY DEF IInv, TypeOK, StoresSound
<1> DEFINE clock == AdvanceClock(old.lamportClock, message.snapshot \cup received)
<1>5. clock \in Nat
  <2>1. old.lamportClock \in Nat
    BY <1>4 DEF Stores
  <2>2. /\ message.snapshot \cup received \in SUBSET Operations
        /\ IsFiniteSet(message.snapshot \cup received)
    BY <1>3, FS_Union
  <2> HIDE DEF old, received, message
  <2> QED
    BY <2>1, <2>2, AdvanceClockBounds
<1>6. new = [old EXCEPT !.lamportClock = clock, !.operations = @ \cup received,
                        !.lastServerSeq = message.confirmedThrough,
                        !.baselineSeq = message.snapshotSeq,
                        !.baseline = message.snapshot]
  BY DEF InstallServerBaseline
<1> HIDE DEF old, message, received, clock, new
<1>7. /\ old.operations = {} /\ old.outbox = {} /\ old.baseline = {}
      /\ old.nextCounter \in Nat \ {0}
  BY <1>1, <1>4 DEF SnapshotEligible, StoreSound, Stores
<1>8. ~(1 \in 1..(old.nextCounter - 1))
  <2>1. Ids(Known(old)) = {}
    BY <1>7 DEF Ids, Known
  <2> QED
    BY <2>1 DEF IInv, NoLostEdit, old
<1>9. old.nextCounter = 1
  BY <1>7, <1>8
<1>10. /\ new.nextCounter = old.nextCounter
       /\ new.outbox = old.outbox
       /\ new.operations = old.operations \cup received
       /\ new.baselineSeq = message.snapshotSeq
  BY <1>4, <1>6 DEF Stores
<1>11. new \in Stores
  <2>1. old.operations \cup received \in SUBSET Operations
    BY <1>3, <1>4 DEF Stores
  <2> QED
    BY <1>3, <1>4, <1>5, <1>6, <2>1 DEF Stores
<1>12. StoreSound(new)
  BY <1>1, <1>3, <1>7, <1>10, FS_EmptySet DEF StoreSound
<1>13. \A n \in 1..(new.nextCounter - 1) : FALSE
  BY <1>9, <1>10
<1>14. /\ handler' \in [Clients -> HandlerSteps]
       /\ \A d \in Clients : handler'[d] # "idle" => HasMessage(d)
  BY <1>1, <1>2 DEF IInv, TypeOK, HandlerHasMessage, HandlerSteps
<1>15. submits' \in [Clients -> Seq(Seq(Operations))]
  BY <1>1 DEF IInv, TypeOK
<1> QED
  BY <1>1, <1>11, <1>12, <1>13, <1>14, <1>15, StoreStep

--------------------------------------------------------------------------------
(* The server.                                                             *)

\* A step of the server that only adds to the log and to what is on the way.
LEMMA ServerQuietStep ==
  ASSUME IInv, UNCHANGED <<link, clientVars>>, disturbed' \in Nat,
         session' \in [Connections -> SessionStates],
         up' \in [Connections -> Seq(ClientMessages)],
         down' \in [Connections -> Seq(Evidence')],
         \A k \in Connections : down[k] # <<>> => down'[k] # <<>>,
         log' \in Seq(SequencedOperations),
         Evidence \subseteq Evidence', Rows \subseteq Rows',
         snapshotSeq' \in Nat, SnapshotCached', LogBounded'
  PROVE  IInv'
<1>1. UNCHANGED <<store, client, inbound, handler, pending, submits>>
  BY DEF clientVars
<1>2. Seq(Evidence) \subseteq Seq(Evidence')
  BY SeqMonotonic
<1>3. Seq(Evidence') \subseteq Seq(ServerMessages)
  <2>1. Evidence' \subseteq ServerMessages
    BY DEF Evidence
  <2> QED
    BY <2>1, SeqMonotonic
<1>4. InFlight'
  BY <1>1, <1>2 DEF IInv, InFlight
<1>5. TypeOK'
  BY <1>1, <1>3 DEF IInv, TypeOK
<1>6. HandlerHasMessage'
  <2>1. ASSUME NEW c \in Clients, HasMessage(c) PROVE HasMessage(c)'
    <3>1. CASE inbound[c] # <<>>
      BY <1>1, <3>1 DEF HasMessage
    <3>2. CASE SocketOpen(c) /\ down[Socket(c)] # <<>>
      <4>1. Socket(c) \in Connections
        BY <3>2, SocketIsConnection DEF IInv, SocketOpen, SocketIs
      <4>2. down'[Socket(c)] # <<>>
        BY <3>2, <4>1
      <4> QED
        BY <1>1, <3>2, <4>2 DEF HasMessage, SocketOpen, SocketIs, Socket
    <3> QED
      BY <2>1, <3>1, <3>2 DEF HasMessage
  <2> QED
    BY <1>1, <2>1 DEF IInv, HandlerHasMessage
<1>7. StoresSound'
  BY <1>1 DEF IInv, StoresSound
<1>8. NoLostEdit'
  <2>1. Ids(OperationsOf(Rows)) \subseteq Ids(OperationsOf(Rows'))
    BY DEF Ids, OperationsOf
  <2> QED
    BY <1>1, <2>1 DEF IInv, NoLostEdit
<1> QED
  BY <1>4, <1>5, <1>6, <1>7, <1>8 DEF IInv

\* The server answers from the log it has.
LEMMA AnswerStep ==
  ASSUME IInv, UNCHANGED <<link, log, clientVars>>, disturbed' \in Nat,
         session' \in [Connections -> SessionStates],
         up' \in [Connections -> Seq(ClientMessages)],
         NEW connections, NEW message \in Evidence, ServerSends(connections, message),
         snapshotSeq' \in Nat, snapshotSeq' <= LatestServerSeq
  PROVE  IInv'
<1>1. /\ Evidence' = Evidence
      /\ Rows' = Rows
      /\ LatestServerSeq' = LatestServerSeq
  BY EvidenceStable
<1>2. /\ down' \in [Connections -> Seq(Evidence)]
      /\ \A k \in Connections : down[k] # <<>> => down'[k] # <<>>
  BY ServerSendsTyped DEF IInv, InFlight
<1>3. log' \in Seq(SequencedOperations)
  BY DEF IInv, TypeOK
<1>4. SnapshotCached' /\ LogBounded'
  BY <1>1 DEF IInv, SnapshotCached, LogBounded
<1> QED
  BY <1>1, <1>2, <1>3, <1>4, ServerQuietStep

\* ReceiveJoin keeps the invariant.
LEMMA ReceiveJoinStep ==
  ASSUME IInv, NEW k \in Connections, ReceiveJoin(k),
         UNCHANGED clientVars, disturbed' \in Nat
  PROVE  IInv'
<1> DEFINE cursor   == Head(up[k]).lastServerSeq
           capable  == Head(up[k]).snapshotCapable /\ cursor = 0
           refused  == session[k] = "joined" \/ cursor > LatestServerSeq
<1>1. /\ ServerTakes(k) /\ Head(up[k]).type = "join"
      /\ UNCHANGED <<link, log>>
      /\ refused => /\ ServerSends({k}, ErrorMessage)
                    /\ UNCHANGED <<session, snapshotSeq>>
      /\ ~refused =>
           /\ session' = [session EXCEPT ![k] = "joined"]
           /\ snapshotSeq' = IF capable THEN PreparedSnapshotSeq ELSE snapshotSeq
           /\ capable /\ snapshotSeq' > 0 =>
                ServerSends({k},
                  SyncMessage(RowsAfter(snapshotSeq'), LatestServerSeq,
                              snapshotSeq', PrefixThrough(snapshotSeq')))
           /\ ~(capable /\ snapshotSeq' > 0) =>
                ServerSends({k}, SyncMessage(RowsAfter(cursor), LatestServerSeq, 0, {}))
  BY DEF ReceiveJoin
<1>2. /\ up' \in [Connections -> Seq(ClientMessages)]
      /\ Head(up[k]) \in ClientMessages
  BY <1>1, ServerTakesTyped DEF IInv, TypeOK
<1>3. cursor \in Nat
  BY <1>1, <1>2 DEF ClientMessages
<1>4. log \in Seq(SequencedOperations) /\ snapshotSeq \in Nat /\ snapshotSeq <= LatestServerSeq
  BY DEF IInv, TypeOK, SnapshotCached
<1>5. LatestServerSeq \in Nat
  BY <1>4, LogFacts
<1> HIDE DEF cursor, capable
<1>6. CASE refused
  BY <1>1, <1>2, <1>4, <1>6, ServerAnswers, AnswerStep DEF IInv, TypeOK
<1>7. CASE ~refused
  <2>1. session' \in [Connections -> SessionStates]
    BY <1>1, <1>7 DEF IInv, TypeOK, SessionStates
  <2>2. snapshotSeq' \in Nat /\ snapshotSeq' <= LatestServerSeq
    BY <1>1, <1>4, <1>5, <1>7 DEF PreparedSnapshotSeq
  <2>3. CASE capable /\ snapshotSeq' > 0
    <3>1. SyncMessage(RowsAfter(snapshotSeq'), LatestServerSeq,
                      snapshotSeq', PrefixThrough(snapshotSeq')) \in Evidence
      BY <1>4, <2>2, ServerAnswers
    <3> QED
      BY <1>1, <1>2, <1>7, <2>1, <2>2, <2>3, <3>1, AnswerStep
  <2>4. CASE ~(capable /\ snapshotSeq' > 0)
    <3>1. SyncMessage(RowsAfter(cursor), LatestServerSeq, 0, PrefixThrough(0)) \in Evidence
      BY <1>3, <1>4, <1>5, ServerAnswers
    <3>2. PrefixThrough(0) = {}
      BY <1>4, ServerAnswers
    <3> QED
      BY <1>1, <1>2, <1>7, <2>1, <2>2, <2>4, <3>1, <3>2, AnswerStep
  <2> QED
    BY <2>3, <2>4
<1> QED
  BY <1>6, <1>7

\* AppendSubmitted keeps the invariant.
LEMMA AppendSubmittedStep ==
  ASSUME IInv, NEW k \in Connections, AppendSubmitted(k),
         UNCHANGED clientVars, disturbed' \in Nat
  PROVE  IInv'
<1>1. /\ ServerTakes(k) /\ Head(up[k]).type = "submit-operation"
      /\ UNCHANGED <<link, session, snapshotSeq>>
  BY DEF AppendSubmitted
<1>2. PICK elsewhere \in Elsewhere :
        LET row == [serverSeq |-> LatestServerSeq + elsewhere + 1,
                    operation |-> Head(up[k]).operation]
        IN  /\ log' = Append(log, row)
            /\ ServerSends({r \in Connections : session[r] = "joined"},
                           OperationMessage(row))
  BY DEF AppendSubmitted
<1> DEFINE row == [serverSeq |-> LatestServerSeq + elsewhere + 1,
                   operation |-> Head(up[k]).operation]
<1>3. /\ log' = Append(log, row)
      /\ ServerSends({r \in Connections : session[r] = "joined"}, OperationMessage(row))
  BY <1>2
<1>4. /\ up' \in [Connections -> Seq(ClientMessages)]
      /\ Head(up[k]) \in ClientMessages
  BY <1>1, ServerTakesTyped DEF IInv, TypeOK
<1>5. LatestServerSeq \in Nat /\ log \in Seq(SequencedOperations)
  BY LogFacts DEF IInv, TypeOK
<1>6. /\ LatestServerSeq + elsewhere + 1 \in Nat \ {0}
      /\ LatestServerSeq + elsewhere + 1 > LatestServerSeq
  <2>1. elsewhere \in Nat
    BY ElsewhereAssumption
  <2> QED
    BY <1>5, <2>1
<1>7. row \in SequencedOperations /\ row.serverSeq > LatestServerSeq
  <2>1. Head(up[k]).operation \in Operations
    BY <1>1, <1>4 DEF ClientMessages
  <2> QED
    BY <1>6, <2>1 DEF SequencedOperations
<1> HIDE DEF row
<1>8. /\ log' \in Seq(SequencedOperations)
      /\ Rows' = Rows \cup {row}
      /\ LatestServerSeq' = row.serverSeq
      /\ LatestServerSeq <= LatestServerSeq'
      /\ Evidence \subseteq Evidence'
      /\ OperationMessage(row) \in Evidence'
  BY <1>3, <1>5, <1>7, AppendedRow
<1>9. Rows \subseteq SequencedOperations
  BY <1>5, LogFacts
<1>10. /\ down' \in [Connections -> Seq(Evidence')]
       /\ \A r \in Connections : down[r] # <<>> => down'[r] # <<>>
  <2>1. Seq(Evidence) \subseteq Seq(Evidence')
    BY <1>8, SeqMonotonic
  <2>2. down \in [Connections -> Seq(Evidence')]
    BY <2>1 DEF IInv, InFlight
  <2> QED
    BY <1>3, <1>8, <2>2, ServerSendsTyped
<1>11. LogBounded'
  <2>1. ASSUME NEW r \in Rows' PROVE r.serverSeq <= LatestServerSeq'
    <3>1. CASE r = row
      BY <1>7, <1>8, <3>1 DEF SequencedOperations
    <3>2. CASE r \in Rows
      <4>1. r.serverSeq <= LatestServerSeq /\ r.serverSeq \in Nat
        BY <1>9, <3>2 DEF IInv, LogBounded, SequencedOperations
      <4>2. LatestServerSeq' \in Nat
        BY <1>7, <1>8 DEF SequencedOperations
      <4> QED
        BY <1>5, <1>8, <4>1, <4>2
    <3> QED
      BY <1>8, <2>1, <3>1, <3>2
  <2> QED
    BY <2>1 DEF LogBounded
<1>12. snapshotSeq' \in Nat /\ SnapshotCached'
  <2>1. snapshotSeq \in Nat /\ snapshotSeq <= LatestServerSeq
    BY DEF IInv, TypeOK, SnapshotCached
  <2>2. LatestServerSeq' \in Nat
    BY <1>7, <1>8 DEF SequencedOperations
  <2>3. snapshotSeq <= LatestServerSeq'
    BY <1>5, <1>8, <2>1, <2>2
  <2> QED
    BY <1>1, <2>1, <2>3 DEF SnapshotCached
<1>13. Rows \subseteq Rows' /\ session' \in [Connections -> SessionStates]
  BY <1>1, <1>8 DEF IInv, TypeOK
<1> QED
  BY <1>1, <1>4, <1>8, <1>10, <1>11, <1>12, <1>13, ServerQuietStep

\* ReceiveDuplicate keeps the invariant.
LEMMA ReceiveDuplicateStep ==
  ASSUME IInv, NEW k \in Connections, ReceiveDuplicate(k),
         UNCHANGED clientVars, disturbed' \in Nat
  PROVE  IInv'
<1>1. /\ ServerTakes(k)
      /\ UNCHANGED <<link, session, log, snapshotSeq>>
  BY DEF ReceiveDuplicate, serverVars
<1>2. PICK row \in Rows :
        ServerSends({k}, IF row.operation = Head(up[k]).operation
                         THEN OperationMessage(row)
                         ELSE ErrorMessage)
  BY DEF ReceiveDuplicate, SameIdentity
<1>3. log \in Seq(SequencedOperations) /\ row.serverSeq <= LatestServerSeq
  BY DEF IInv, TypeOK, LogBounded
<1>4. OperationMessage(row) \in Evidence /\ ErrorMessage \in Evidence
  BY <1>3, ServerAnswers
<1>5. (IF row.operation = Head(up[k]).operation
       THEN OperationMessage(row) ELSE ErrorMessage) \in Evidence
  BY <1>4
<1>6. up' \in [Connections -> Seq(ClientMessages)]
  BY <1>1, ServerTakesTyped DEF IInv, TypeOK
<1> QED
  BY <1>1, <1>2, <1>5, <1>6, AnswerStep DEF IInv, TypeOK, SnapshotCached

\* RejectSubmit keeps the invariant.
LEMMA RejectSubmitStep ==
  ASSUME IInv, NEW k \in Connections, RejectSubmit(k),
         UNCHANGED clientVars, disturbed' \in Nat
  PROVE  IInv'
<1>1. /\ ServerTakes(k) /\ ServerSends({k}, ErrorMessage)
      /\ UNCHANGED <<link, session, log, snapshotSeq>>
  BY DEF RejectSubmit, serverVars
<1>2. ErrorMessage \in Evidence
  BY ServerAnswers DEF IInv, TypeOK
<1>3. up' \in [Connections -> Seq(ClientMessages)]
  BY <1>1, ServerTakesTyped DEF IInv, TypeOK
<1> QED
  BY <1>1, <1>2, <1>3, AnswerStep DEF IInv, TypeOK, SnapshotCached

\* ServerSocketClosed and ServerRestarts keep the invariant: sessions end, the
\* tables stay.
LEMMA SessionsEndStep ==
  ASSUME IInv, UNCHANGED <<link, down, serverVars, clientVars>>, disturbed' \in Nat,
         session' \in [Connections -> SessionStates],
         up' \in [Connections -> Seq(ClientMessages)]
  PROVE  IInv'
<1>1. UNCHANGED <<log, snapshotSeq>>
  BY DEF serverVars
<1>2. /\ Evidence' = Evidence
      /\ Rows' = Rows
      /\ LatestServerSeq' = LatestServerSeq
  BY <1>1, EvidenceStable
<1>3. SnapshotCached' /\ LogBounded'
  BY <1>1, <1>2 DEF IInv, SnapshotCached, LogBounded
<1> QED
  BY <1>1, <1>2, <1>3, ServerQuietStep DEF IInv, TypeOK, InFlight

--------------------------------------------------------------------------------
(* The theorems.                                                           *)

\* The invariant holds at the start.
LEMMA InitInvariant == Init => IInv
<1> SUFFICES ASSUME Init PROVE IInv
  OBVIOUS
<1> USE DEF Init, TransportInit, ServerInit, ClientInit
<1>1. EmptyStore \in Stores
  BY DEF EmptyStore, Stores
<1>2. NewClient \in ClientStates
  BY SocketsAssumption DEF NewClient, ClientStates, Statuses, JoinReads
<1>3. <<>> \in Seq(Evidence)
  BY EmptySeq
<1>4. TypeOK
  BY <1>1, <1>2, EmptySeq DEF TypeOK, LinkStates, SessionStates, HandlerSteps
<1>5. InFlight
  BY <1>3 DEF InFlight
<1>6. HandlerHasMessage
  BY DEF HandlerHasMessage
<1>7. StoresSound
  BY FS_EmptySet DEF StoresSound, StoreSound, EmptyStore
<1>8. Rows = {} /\ LatestServerSeq = 0
  BY EmptyLog
<1>9. SnapshotCached /\ LogBounded
  BY <1>8 DEF SnapshotCached, LogBounded
<1>10. NoLostEdit
  BY DEF NoLostEdit, EmptyStore
<1> QED
  BY <1>4, <1>5, <1>6, <1>7, <1>9, <1>10 DEF IInv

\* Every step of the program, of its users and of its environment keeps it.
LEMMA NextInvariant == IInv /\ [Next]_vars => IInv'
<1> SUFFICES ASSUME IInv, [Next]_vars PROVE IInv'
  OBVIOUS
<1>1. ASSUME NEW c \in Clients, ClientStep(c) PROVE IInv'
  <2>1. Elsewise
    BY <1>1 DEF ClientStep, Elsewise, IInv, TypeOK
  <2>2. CASE OpenDocument(c)
    BY <2>1, <2>2, OpenDocumentStep
  <2>3. CASE Submit(c)
    BY <2>1, <2>3, SubmitStep
  <2>4. CASE SocketOpens(c)
    BY <2>1, <2>4, SocketOpensStep
  <2>5. CASE SendJoin(c)
    BY <2>1, <2>5, SendJoinStep
  <2>17. CASE CursorReadAtStart(c)
    BY <2>1, <2>17, CursorReadStep
  <2>6. CASE SocketCloses(c)
    BY <2>1, <2>6, OnCloseStep DEF SocketCloses
  <2>7. CASE Reconnect(c)
    BY <2>1, <2>7, ReconnectStep
  <2>8. CASE HandleError(c)
    BY <2>1, <2>8, HandleErrorStep
  <2>9. CASE BeginSync(c)
    BY <2>1, <2>9, BeginSyncStep
  <2>10. CASE ApplyOperations(c)
    BY <2>1, <2>10, ApplyOperationsStep
  <2>11. CASE InstallSnapshot(c)
    BY <2>1, <2>11, InstallSnapshotStep
  <2>12. CASE FallBackToFullHistory(c)
    BY <2>1, <2>12, FallBackStep
  <2>13. CASE CaughtUp(c)
    BY <2>1, <2>13, CaughtUpStep
  <2>14. CASE FlushOutbox(c)
    BY <2>1, <2>14, FlushOutboxStep
  <2>15. CASE OperationApplied(c)
    BY <2>1, <2>15, OperationAppliedStep
  <2>16. CASE RefreshStatus(c)
    BY <2>1, <2>16, RefreshStatusStep
  <2> QED
    BY <1>1, <2>2, <2>3, <2>4, <2>5, <2>6, <2>7, <2>8, <2>9, <2>10, <2>11,
       <2>12, <2>13, <2>14, <2>15, <2>16, <2>17 DEF ClientStep
<1>2. ASSUME NEW c \in Clients, UserStep(c) PROVE IInv'
  <2>1. Elsewise
    BY <1>2 DEF UserStep, Elsewise, IInv, TypeOK
  <2> QED
    BY <1>2, <2>1, EditStep, RetryStep DEF UserStep
<1>3. ASSUME NEW c \in Clients, ClientDisturbance(c) PROVE IInv'
  <2>1. Elsewise
    <3>1. UNCHANGED serverVars
      BY <1>3 DEF ClientDisturbance
    <3>2. disturbed' = disturbed + 1
      BY <1>3 DEF ClientDisturbance, Disturb
    <3> QED
      BY <3>1, <3>2 DEF Elsewise, IInv, TypeOK
  <2>2. CASE ConnectionDrops(c)
    BY <2>1, <2>2, OnCloseStep DEF ConnectionDrops
  <2>3. CASE CloseDocument(c)
    BY <2>1, <2>3, CloseDocumentStep
  <2>4. CASE Suspend(c)
    BY <2>1, <2>4, SuspendStep
  <2>5. CASE SendJoinFails(c)
    BY <2>1, <2>5, SendJoinFailsStep
  <2>6. CASE HandlerFails(c)
    BY <2>1, <2>6, HandlerFailsStep
  <2> QED
    BY <1>3, <2>2, <2>3, <2>4, <2>5, <2>6 DEF ClientDisturbance
<1>4. ASSUME NEW k \in Connections, ServerStep(k) PROVE IInv'
  <2>1. UNCHANGED clientVars /\ disturbed' \in Nat
    BY <1>4 DEF ServerStep, IInv, TypeOK
  <2>2. CASE ReceiveJoin(k)
    BY <2>1, <2>2, ReceiveJoinStep
  <2>3. CASE AppendSubmitted(k)
    BY <2>1, <2>3, AppendSubmittedStep
  <2>4. CASE ReceiveDuplicate(k)
    BY <2>1, <2>4, ReceiveDuplicateStep
  <2>5. CASE RejectSubmit(k)
    BY <2>1, <2>5, RejectSubmitStep
  <2>6. CASE ServerSocketClosed(k)
    <3>1. UNCHANGED <<link, down, serverVars>>
      BY <2>6 DEF ServerSocketClosed
    <3>2. /\ session' \in [Connections -> SessionStates]
          /\ up' \in [Connections -> Seq(ClientMessages)]
      BY <2>6, EmptySeq DEF ServerSocketClosed, IInv, TypeOK, SessionStates
    <3> QED
      BY <2>1, <3>1, <3>2, SessionsEndStep
  <2> QED
    BY <1>4, <2>2, <2>3, <2>4, <2>5, <2>6 DEF ServerStep
<1>5. CASE ServerDisturbance
  <2>1. /\ UNCHANGED <<link, down, serverVars, clientVars>>
        /\ disturbed' = disturbed + 1
        /\ session' = [k \in Connections |-> "none"]
        /\ up' = [k \in Connections |-> <<>>]
    BY <1>5 DEF ServerDisturbance, ServerRestarts, Disturb
  <2>2. /\ session' \in [Connections -> SessionStates]
        /\ up' \in [Connections -> Seq(ClientMessages)]
        /\ disturbed' \in Nat
    BY <2>1, EmptySeq DEF IInv, TypeOK, SessionStates
  <2> QED
    BY <2>1, <2>2, SessionsEndStep
<1>6. CASE UNCHANGED vars
  <2>1. /\ UNCHANGED <<link, session, up, down, log, snapshotSeq>>
        /\ UNCHANGED <<store, client, inbound, handler, pending, submits, disturbed>>
    BY <1>6 DEF vars, transportVars, serverVars, clientVars
  <2>2. HandlerHasMessage'
    BY <2>1, StillHasMessage DEF IInv
  <2> QED
    BY <2>1, <2>2, QuietStep DEF IInv, TypeOK, InFlight
<1> QED
  BY <1>1, <1>2, <1>3, <1>4, <1>5, <1>6 DEF Next

\* The inductive invariant is an invariant of every behaviour.
THEOREM Invariant == Spec => []IInv
BY InitInvariant, NextInvariant, PTL DEF Spec

\* Every variable always holds values of its kind, whatever the interleaving.
THEOREM TypeCorrect == Spec => []TypeOK
<1>1. IInv => TypeOK
  BY DEF IInv
<1> QED
  BY <1>1, Invariant, PTL

\* No edit is ever lost: in the durable replica of its author, and marked in
\* the outbox until the server's log has it, whatever the failures.
THEOREM EditsAreNeverLost == Spec => []NoLostEdit
<1>1. IInv => NoLostEdit
  BY DEF IInv
<1> QED
  BY <1>1, Invariant, PTL

\* What a client is told is in the durable log: acknowledgements, broadcasts,
\* batches and snapshots alike.
THEOREM ToldIsDurable == Spec => []EvidenceIsDurable
<1>1. IInv => EvidenceIsDurable
  <2> SUFFICES ASSUME IInv, NEW c \in Clients,
                      NEW message \in Range(inbound[c])
                        \cup UNION {Range(down[<<c, n>>]) : n \in 1..Sockets}
               PROVE  message \in Evidence
    BY DEF EvidenceIsDurable, Evidence
  <2>1. CASE message \in Range(inbound[c])
    <3>1. inbound[c] \in Seq(Evidence)
      BY DEF IInv, InFlight
    <3> QED
      BY <2>1, <3>1, RangeOfSeq
  <2>2. CASE message \in UNION {Range(down[<<c, n>>]) : n \in 1..Sockets}
    <3>1. PICK n \in 1..Sockets : message \in Range(down[<<c, n>>])
      BY <2>2
    <3>2. down[<<c, n>>] \in Seq(Evidence)
      BY DEF IInv, InFlight, Connections
    <3> QED
      BY <3>1, <3>2, RangeOfSeq
  <2> QED
    BY <2>1, <2>2
<1> QED
  BY <1>1, Invariant, PTL
================================================================================
