-------------------------- MODULE SharedDocument_proofs --------------------------
(***************************************************************************)
(* The protocol implements the abstract document, where operations come    *)
(* from, and why a cursor means what it says: proofs about DocumentSync,   *)
(* for every value of its constants.                                       *)
(*                                                                         *)
(* The invariant of DocumentSync_proofs says what a client may be told.    *)
(* The first one here says what there is to tell: every operation anywhere *)
(* is one that its author has created and still has.  The second follows   *)
(* the queue of a client.                                                  *)
(***************************************************************************)
EXTENDS DocumentSync_proofs

\* The operations that their authors have.
Originals == UNION {Written(c) : c \in Clients}

\* What a client may send.
Sendable ==
  {message \in ClientMessages :
     IF message.type = "join"
     THEN message.lastServerSeq <= LatestServerSeq
     ELSE message.operation \in Originals}

\* All that is on its way to the server, or about to be sent, is original.
Outgoing ==
  /\ up \in [Connections -> Seq(Sendable)]
  /\ pending \in [Clients -> Seq(Originals)]
  /\ submits \in [Clients -> Seq(Seq(Originals))]

\* What a replica knows is original and has moved its clock; its cursor is
\* one that the server has given.
StoreCovered(s) ==
  /\ Known(s) \subseteq Originals
  /\ s.lastServerSeq <= LatestServerSeq
  /\ \A operation \in Known(s) : operation.lamport <= s.lamportClock

StoresCovered == \A c \in Clients : StoreCovered(store[c])

\* The counter of a client is above all it has used.
CountersAhead ==
  \A c \in Clients : \A operation \in Written(c) :
    operation.id[2] < store[c].nextCounter

OneOriginal ==
  \A a, b \in Originals : a.id = b.id => a = b

\* Dependencies are originals with smaller stamps.
Causal ==
  /\ \A operation \in Originals : operation.dependsOn \subseteq Ids(Originals)
  /\ \A a, b \in Originals : a.id \in b.dependsOn => a.lamport < b.lamport

\* The log has originals, each once, by increasing sequence numbers.
LogOrdered ==
  /\ OperationsOf(Rows) \subseteq Originals
  /\ \A i, j \in 1..Len(log) :
       i < j => /\ log[i].serverSeq < log[j].serverSeq
                /\ log[i].operation.id # log[j].operation.id

\* The inductive invariant, relative to IInv.
Provenance ==
  /\ Outgoing
  /\ StoresCovered
  /\ CountersAhead
  /\ OneOriginal
  /\ Causal
  /\ LogOrdered
--------------------------------------------------------------------------------
(* Originals.                                                              *)

\* What replicas know are operations.
LEMMA KnownTyped ==
  ASSUME TypeOK, NEW c \in Clients
  PROVE  Known(store[c]) \subseteq Operations
<1>1. store[c] \in Stores
  BY DEF TypeOK
<1> QED
  BY <1>1 DEF Stores, Known

\* An original is the operation of the client its identity names.
LEMMA OriginalFacts ==
  ASSUME TypeOK, NEW operation \in Originals
  PROVE  /\ operation \in Operations
         /\ operation.id[1] \in Clients
         /\ operation \in Written(operation.id[1])
         /\ operation \in Known(store[operation.id[1]])
<1>1. PICK c \in Clients : operation \in Written(c)
  BY DEF Originals
<1>2. operation \in Known(store[c]) /\ operation.id[1] = c
  BY <1>1 DEF Written
<1>3. operation \in Operations
  BY <1>2, KnownTyped
<1> QED
  BY <1>1, <1>2, <1>3

\* An operation that its author knows is an original.
LEMMA WrittenIsOriginal ==
  ASSUME NEW c \in Clients, NEW operation \in Known(store[c]), operation.id[1] = c
  PROVE  operation \in Originals
<1>1. operation \in Written(c)
  BY DEF Written
<1> QED
  BY <1>1 DEF Originals

\* The operations that exist anywhere are the originals.
LEMMA AllAreOriginals ==
  ASSUME StoresCovered, LogOrdered
  PROVE  AllOperations \subseteq Originals
BY DEF AllOperations, StoresCovered, StoreCovered, LogOrdered

--------------------------------------------------------------------------------
(* Steps that leave stores and log alone.                                  *)

\* With stores and log unchanged, what matters is what is sent.
LEMMA NothingNew ==
  ASSUME Provenance, UNCHANGED <<store, log>>,
         up' \in [Connections -> Seq(Sendable)],
         pending' \in [Clients -> Seq(Originals)],
         submits' \in [Clients -> Seq(Seq(Originals))]
  PROVE  Provenance'
<1>1. Originals' = Originals /\ Rows' = Rows /\ LatestServerSeq' = LatestServerSeq
  BY DEF Originals, Written, Rows, LatestServerSeq
<1>2. Sendable' = Sendable
  BY <1>1 DEF Sendable
<1>3. Outgoing'
  BY <1>1, <1>2 DEF Outgoing
<1>4. StoresCovered'
  BY <1>1 DEF Provenance, StoresCovered, StoreCovered
<1>5. CountersAhead'
  BY DEF Provenance, CountersAhead, Written
<1>6. OneOriginal' /\ Causal'
  BY <1>1 DEF Provenance, OneOriginal, Causal
<1>7. LogOrdered'
  BY <1>1 DEF Provenance, LogOrdered
<1> QED
  BY <1>3, <1>4, <1>5, <1>6, <1>7 DEF Provenance

\* A client sends sendable messages.
LEMMA SendsSendable ==
  ASSUME up \in [Connections -> Seq(Sendable)], NEW k \in Connections,
         NEW messages \in Seq(Sendable), ClientSends(k, messages)
  PROVE  up' \in [Connections -> Seq(Sendable)]
<1>1. up[k] \o messages \in Seq(Sendable)
  BY ConcatProperties
<1> QED
  BY <1>1 DEF ClientSends

\* The server takes a message that was sendable.
LEMMA TakesSendable ==
  ASSUME up \in [Connections -> Seq(Sendable)], NEW k \in Connections,
         ServerTakes(k)
  PROVE  /\ up' \in [Connections -> Seq(Sendable)]
         /\ Head(up[k]) \in Sendable
<1>1. Head(up[k]) \in Sendable /\ Tail(up[k]) \in Seq(Sendable)
  BY HeadTailProperties DEF ServerTakes
<1> QED
  BY <1>1 DEF ServerTakes

\* Originals may be submitted.
LEMMA SubmitMessagesSendable ==
  ASSUME TypeOK, NEW operations \in Seq(Originals)
  PROVE  SubmitMessages(operations) \in Seq(Sendable)
<1>1. Len(operations) \in Nat /\ \A i \in 1..Len(operations) : operations[i] \in Originals
  BY LenProperties, ElementOfSeq
<1>2. \A i \in 1..Len(operations) : operations[i] \in Operations
  BY <1>1, OriginalFacts
<1>3. \A i \in 1..Len(operations) :
        [type |-> "submit-operation", operation |-> operations[i]] \in Sendable
  BY <1>1, <1>2 DEF Sendable, ClientMessages
<1>4. SubmitMessages(operations) \in [1..Len(operations) -> Sendable]
  BY <1>3 DEF SubmitMessages
<1> QED
  BY <1>1, <1>4, SeqDef

\* What the outbox marks is original.
LEMMA PendingOriginal ==
  ASSUME IInv, StoresCovered, NEW c \in Clients
  PROVE  PendingOperations(store[c]) \in Seq(Originals)
<1>1. store[c] \in Stores /\ StoreSound(store[c])
  BY DEF IInv, TypeOK, StoresSound
<1>2. store[c].operations \subseteq Originals
  BY DEF StoresCovered, StoreCovered, Known
<1>3. Seq(store[c].operations) \subseteq Seq(Originals)
  BY <1>2, SeqMonotonic
<1> QED
  BY <1>1, <1>3, PendingStored

\* A handler that is done, or reads the outbox for the status, keeps nothing
\* but originals.
LEMMA ReadForStatusKeeps ==
  ASSUME IInv, Provenance, NEW c \in Clients,
         \/ MessageHandled(c)
         \/ \E caughtUp \in BOOLEAN : ReadForStatus(c, caughtUp)
  PROVE  pending' \in [Clients -> Seq(Originals)]
<1>1. \/ pending' = [pending EXCEPT ![c] = <<>>]
      \/ pending' = [pending EXCEPT ![c] = PendingOperations(store[c])]
  BY DEF MessageHandled, ReadForStatus
<1>2. <<>> \in Seq(Originals)
  BY EmptySeq
<1>3. PendingOperations(store[c]) \in Seq(Originals)
  BY PendingOriginal DEF Provenance
<1> QED
  BY <1>1, <1>2, <1>3 DEF Provenance, Outgoing
\* Submit keeps the invariant: it sends what an edit has stored.
LEMMA SubmitKeeps ==
  ASSUME IInv, Provenance, NEW c \in Clients, Submit(c)
  PROVE  /\ up' \in [Connections -> Seq(Sendable)]
         /\ pending' \in [Clients -> Seq(Originals)]
         /\ submits' \in [Clients -> Seq(Seq(Originals))]
<1>1. /\ submits[c] \in Seq(Seq(Originals)) /\ submits[c] # <<>>
      /\ submits' = [submits EXCEPT ![c] = Tail(@)]
      /\ UNCHANGED pending
  BY DEF Submit, Provenance, Outgoing
<1>2. Head(submits[c]) \in Seq(Originals) /\ Tail(submits[c]) \in Seq(Seq(Originals))
  BY <1>1, HeadTailProperties
<1>3. up' \in [Connections -> Seq(Sendable)]
  <2>1. CASE client[c].catchUpComplete /\ SocketOpen(c)
    <3>1. ClientSends(Socket(c), SubmitMessages(Head(submits[c])))
      BY <2>1 DEF Submit
    <3>2. Socket(c) \in Connections
      BY <2>1, SocketIsConnection DEF IInv, SocketOpen, SocketIs
    <3>3. SubmitMessages(Head(submits[c])) \in Seq(Sendable)
      BY <1>2, SubmitMessagesSendable DEF IInv
    <3> QED
      BY <3>1, <3>2, <3>3, SendsSendable DEF Provenance, Outgoing
  <2>2. CASE ~(client[c].catchUpComplete /\ SocketOpen(c))
    BY <2>2 DEF Submit, Provenance, Outgoing
  <2> QED
    BY <2>1, <2>2
<1> QED
  BY <1>1, <1>2, <1>3 DEF Provenance, Outgoing

\* SendJoin keeps the invariant: the cursor it sends is not beyond the store's.
LEMMA SendJoinKeeps ==
  ASSUME IInv, Provenance, NEW c \in Clients, SendJoin(c)
  PROVE  up' \in [Connections -> Seq(Sendable)]
<1>1. PICK join \in ClientMessages :
        /\ join.type = "join"
        /\ join.lastServerSeq <= store[c].lastServerSeq
        /\ ClientSends(Socket(c), <<join>>)
  BY JoinSent
<1>2. /\ store[c].lastServerSeq \in Nat
      /\ store[c].lastServerSeq <= LatestServerSeq
  BY DEF IInv, TypeOK, Stores, Provenance, StoresCovered, StoreCovered
<1>3. join \in Sendable
  <2>1. join.lastServerSeq \in Nat /\ LatestServerSeq \in Nat
    BY <1>1, LogFacts DEF ClientMessages, IInv, TypeOK
  <2> QED
    BY <1>1, <1>2, <2>1 DEF Sendable
<1>4. Socket(c) \in Connections
  BY JoinSent, SocketIsConnection DEF IInv, SocketOpen, SocketIs
<1>5. <<join>> \in Seq(Sendable)
  BY <1>3
<1> QED
  BY <1>1, <1>4, <1>5, SendsSendable DEF Provenance, Outgoing

\* FlushOutbox keeps the invariant: it sends what the outbox marks.
LEMMA FlushOutboxKeeps ==
  ASSUME IInv, Provenance, NEW c \in Clients, FlushOutbox(c)
  PROVE  /\ up' \in [Connections -> Seq(Sendable)]
         /\ pending' \in [Clients -> Seq(Originals)]
<1>1. pending' \in [Clients -> Seq(Originals)]
  <2>1. client[c].catchUpComplete \in BOOLEAN
    BY DEF IInv, TypeOK, ClientStates
  <2>2. ReadForStatus(c, client[c].catchUpComplete)
    BY DEF FlushOutbox
  <2> QED
    BY <2>1, <2>2, ReadForStatusKeeps
<1>2. CASE pending[c] # <<>> /\ SocketOpen(c)
  <2>1. ClientSends(Socket(c), SubmitMessages(pending[c]))
    BY <1>2 DEF FlushOutbox
  <2>2. Socket(c) \in Connections
    BY <1>2, SocketIsConnection DEF IInv, SocketOpen, SocketIs
  <2>3. SubmitMessages(pending[c]) \in Seq(Sendable)
    BY SubmitMessagesSendable DEF IInv, Provenance, Outgoing
  <2> QED
    BY <1>1, <2>1, <2>2, <2>3, SendsSendable DEF Provenance, Outgoing
<1>3. CASE ~(pending[c] # <<>> /\ SocketOpen(c))
  <2>1. UNCHANGED up
    BY <1>3 DEF FlushOutbox
  <2> QED
    BY <1>1, <2>1 DEF Provenance, Outgoing
<1> QED
  BY <1>2, <1>3

\* CaughtUp keeps the invariant: it reads the outbox, or is done.
LEMMA CaughtUpKeeps ==
  ASSUME IInv, Provenance, NEW c \in Clients, CaughtUp(c)
  PROVE  pending' \in [Clients -> Seq(Originals)]
<1>1. \/ pending' = [pending EXCEPT ![c] = PendingOperations(store[c])]
      \/ MessageHandled(c)
  BY DEF CaughtUp
<1>2. PendingOperations(store[c]) \in Seq(Originals)
  BY PendingOriginal DEF Provenance
<1>3. CASE pending' = [pending EXCEPT ![c] = PendingOperations(store[c])]
  BY <1>2, <1>3 DEF Provenance, Outgoing
<1>4. CASE MessageHandled(c)
  BY <1>4, ReadForStatusKeeps
<1> QED
  BY <1>1, <1>3, <1>4

\* The steps of clients that change no store.
QuietClientStep(c) ==
  \/ OpenDocument(c) \/ CloseDocument(c) \/ Submit(c)
  \/ SocketOpens(c) \/ CursorReadAtStart(c) \/ SendJoin(c) \/ SendJoinFails(c)
  \/ OnClose(c) \/ Reconnect(c) \/ Suspend(c) \/ Retry(c)
  \/ HandleError(c) \/ BeginSync(c) \/ FallBackToFullHistory(c)
  \/ HandlerFails(c) \/ CaughtUp(c) \/ FlushOutbox(c)
  \/ OperationApplied(c) \/ RefreshStatus(c)

\* They keep the invariant.
LEMMA QuietClientKeeps ==
  ASSUME IInv, Provenance, NEW c \in Clients, QuietClientStep(c),
         UNCHANGED serverVars
  PROVE  /\ UNCHANGED <<store, log>>
         /\ Provenance'
<1> USE DEF transportVars
<1>1. UNCHANGED log
  BY DEF serverVars
<1>2. /\ up \in [Connections -> Seq(Sendable)]
      /\ pending \in [Clients -> Seq(Originals)]
      /\ submits \in [Clients -> Seq(Seq(Originals))]
  BY DEF Provenance, Outgoing
<1>3. UNCHANGED store
  BY DEF QuietClientStep, OpenDocument, CloseDocument, Submit, SocketOpens,
     CursorReadAtStart, SendJoin,
     SendJoinFails, OnClose, Reconnect, Suspend, Retry, HandleError, BeginSync,
     FallBackToFullHistory, HandlerFails, CaughtUp, FlushOutbox, OperationApplied,
     RefreshStatus
<1>4. CASE \/ OpenDocument(c) \/ SocketOpens(c) \/ CursorReadAtStart(c) \/ SendJoinFails(c)
           \/ OnClose(c) \/ Reconnect(c) \/ Suspend(c) \/ Retry(c)
           \/ BeginSync(c) \/ FallBackToFullHistory(c)
  <2>1. UNCHANGED <<up, pending, submits>>
    BY <1>4 DEF OpenDocument, SocketOpens, CursorReadAtStart, SendJoinFails, OnClose, Reconnect, Suspend,
       Retry, BeginSync, FallBackToFullHistory
  <2> QED
    BY <1>1, <1>2, <1>3, <2>1, NothingNew
<1>5. CASE CloseDocument(c)
  <2>1. /\ UNCHANGED up
        /\ pending' = [pending EXCEPT ![c] = <<>>]
        /\ submits' = [submits EXCEPT ![c] = <<>>]
    BY <1>5 DEF CloseDocument
  <2>2. <<>> \in Seq(Originals) /\ <<>> \in Seq(Seq(Originals))
    BY EmptySeq
  <2>3. /\ pending' \in [Clients -> Seq(Originals)]
        /\ submits' \in [Clients -> Seq(Seq(Originals))]
    BY <1>2, <2>1, <2>2
  <2> QED
    BY <1>1, <1>2, <1>3, <2>1, <2>3, NothingNew
<1>6. CASE Submit(c)
  BY <1>1, <1>3, <1>6, SubmitKeeps, NothingNew
<1>7. CASE SendJoin(c)
  <2>1. UNCHANGED <<pending, submits>>
    BY <1>7 DEF SendJoin
  <2> QED
    BY <1>1, <1>2, <1>3, <1>7, <2>1, SendJoinKeeps, NothingNew
<1>8. CASE HandleError(c) \/ HandlerFails(c) \/ RefreshStatus(c)
  <2>1. MessageHandled(c) /\ UNCHANGED <<up, submits>>
    BY <1>8 DEF HandleError, HandlerFails, RefreshStatus
  <2>2. pending' \in [Clients -> Seq(Originals)]
    BY <2>1, ReadForStatusKeeps
  <2> QED
    BY <1>1, <1>2, <1>3, <2>1, <2>2, NothingNew
<1>9. CASE CaughtUp(c)
  <2>1. UNCHANGED <<up, submits>>
    BY <1>9 DEF CaughtUp
  <2> QED
    BY <1>1, <1>2, <1>3, <1>9, <2>1, CaughtUpKeeps, NothingNew
<1>10. CASE FlushOutbox(c)
  <2>1. UNCHANGED submits
    BY <1>10 DEF FlushOutbox
  <2> QED
    BY <1>1, <1>2, <1>3, <1>10, <2>1, FlushOutboxKeeps, NothingNew
<1>11. CASE OperationApplied(c)
  <2>1. ReadForStatus(c, client[c].catchUpComplete) /\ UNCHANGED <<up, submits>>
    BY <1>11 DEF OperationApplied
  <2>2. client[c].catchUpComplete \in BOOLEAN
    BY DEF IInv, TypeOK, ClientStates
  <2>3. pending' \in [Clients -> Seq(Originals)]
    BY <2>1, <2>2, ReadForStatusKeeps
  <2> QED
    BY <1>1, <1>2, <1>3, <2>1, <2>3, NothingNew
<1> QED
  BY <1>3, <1>4, <1>5, <1>6, <1>7, <1>8, <1>9, <1>10, <1>11 DEF QuietClientStep

\* The steps of the server that append nothing.
QuietServerStep(k) ==
  \/ ReceiveJoin(k) \/ ReceiveDuplicate(k) \/ RejectSubmit(k)
  \/ ServerSocketClosed(k) \/ ServerRestarts

\* They keep the invariant.
LEMMA QuietServerKeeps ==
  ASSUME IInv, Provenance, NEW k \in Connections, QuietServerStep(k),
         UNCHANGED clientVars
  PROVE  /\ UNCHANGED <<store, log>>
         /\ Provenance'
<1>1. UNCHANGED <<store, pending, submits>>
  BY DEF clientVars
<1>2. UNCHANGED log
  BY DEF QuietServerStep, ReceiveJoin, ReceiveDuplicate, RejectSubmit,
     ServerSocketClosed, ServerRestarts, serverVars
<1>3. /\ up \in [Connections -> Seq(Sendable)]
      /\ <<>> \in Seq(Sendable)
  BY EmptySeq DEF Provenance, Outgoing
<1>4. up' \in [Connections -> Seq(Sendable)]
  <2>1. CASE ServerTakes(k)
    BY <1>3, <2>1, TakesSendable
  <2>2. CASE up' = [up EXCEPT ![k] = <<>>] \/ up' = [r \in Connections |-> <<>>]
    BY <1>3, <2>2
  <2> QED
    BY <2>1, <2>2 DEF QuietServerStep, ReceiveJoin, ReceiveDuplicate, RejectSubmit,
       ServerSocketClosed, ServerRestarts
<1> QED
  BY <1>1, <1>2, <1>4, NothingNew DEF Provenance, Outgoing
--------------------------------------------------------------------------------
(* Received operations.                                                    *)

\* Client c stores operations of the log, and moves its clock and its cursor
\* forward with them.
Learns(c) ==
  /\ \A d \in Clients \ {c} : store'[d] = store[d]
  /\ store'[c].nextCounter = store[c].nextCounter
  /\ store'[c].outbox \subseteq store[c].outbox
  /\ Known(store[c]) \subseteq Known(store'[c])
  /\ Known(store'[c]) \subseteq Known(store[c]) \cup OperationsOf(Rows)
  /\ store[c].lastServerSeq <= store'[c].lastServerSeq
  /\ store'[c].lastServerSeq <= LatestServerSeq
  /\ store[c].lamportClock <= store'[c].lamportClock
  /\ \A operation \in Known(store'[c]) :
       operation.lamport <= store'[c].lamportClock
  /\ UNCHANGED <<up, pending, submits>>

\* A received batch teaches the client operations of the log.
LEMMA ApplyOperationsLearns ==
  ASSUME IInv, Provenance, NEW c \in Clients, ApplyOperations(c)
  PROVE  Learns(c)
<1> DEFINE old      == store[c]
           received == OperationsOf(Message(c).batch)
           through  == Message(c).confirmedThrough
           clock    == AdvanceClock(old.lamportClock, received)
           cursor   == Max({old.lastServerSeq, through})
           new      == PersistServerOperations(old, Message(c).batch, through)
<1>1. /\ store' = [store EXCEPT ![c] = new]
      /\ UNCHANGED <<up, pending, submits>>
  BY DEF ApplyOperations, transportVars
<1>2. old \in Stores
  BY DEF IInv, TypeOK
<1>3. Message(c) \in Evidence
  <2>1. HasMessage(c)
    BY ApplyingHasMessage DEF ApplyOperations
  <2> QED
    BY <2>1, MessageIsEvidence DEF IInv
<1>4. /\ received \in SUBSET Operations
      /\ IsFiniteSet(received)
      /\ received \subseteq OperationsOf(Rows)
      /\ through \in Nat /\ through <= LatestServerSeq
  BY <1>3, BatchFacts DEF Evidence
<1>5. new = [old EXCEPT !.lamportClock = clock, !.operations = @ \cup received,
                        !.outbox = @ \ Ids(received), !.lastServerSeq = cursor]
  BY DEF PersistServerOperations
<1>6. StoreCovered(old)
  BY DEF Provenance, StoresCovered
<1> HIDE DEF old, received, through, new
<1>7. /\ clock \in Nat /\ old.lamportClock <= clock
      /\ \A operation \in received : operation.lamport <= clock
  BY <1>2, <1>4, AdvanceClockBounds DEF Stores
<1>8. cursor \in {old.lastServerSeq, through} /\ old.lastServerSeq <= cursor
  BY <1>2, <1>4, MaxOfTwo DEF Stores
<1> HIDE DEF clock, cursor
<1>9. /\ new.nextCounter = old.nextCounter
      /\ new.outbox \subseteq old.outbox
      /\ new.lastServerSeq = cursor
      /\ new.lamportClock = clock
      /\ Known(new) = Known(old) \cup received
  BY <1>2, <1>5 DEF Stores, Known
<1>10. \A operation \in Known(new) : operation.lamport <= clock
  <2>1. ASSUME NEW operation \in Known(old) PROVE operation.lamport <= clock
    <3>1. operation.lamport <= old.lamportClock
      BY <1>6 DEF StoreCovered
    <3>2. operation.lamport \in Nat /\ old.lamportClock \in Nat
      BY <1>2 DEF Known, Stores, Operations
    <3> QED
      BY <1>7, <3>1, <3>2
  <2> QED
    BY <1>7, <1>9, <2>1
<1>11. cursor <= LatestServerSeq
  BY <1>4, <1>6, <1>8 DEF StoreCovered
<1>12. store'[c] = new /\ \A d \in Clients \ {c} : store'[d] = store[d]
  BY <1>1 DEF IInv, TypeOK
<1> QED
  BY <1>1, <1>4, <1>7, <1>8, <1>9, <1>10, <1>11, <1>12 DEF Learns, old

\* So does a snapshot with its suffix.  Nothing is given up for it: only a
\* replica that knows nothing installs one.
LEMMA InstallSnapshotLearns ==
  ASSUME IInv, Provenance, NEW c \in Clients, InstallSnapshot(c)
  PROVE  Learns(c)
<1> DEFINE old      == store[c]
           message  == Message(c)
           received == message.snapshot \cup OperationsOf(message.batch)
           clock    == AdvanceClock(old.lamportClock, received)
           new      == InstallServerBaseline(old, message.snapshot, message.snapshotSeq,
                                             message.batch, message.confirmedThrough)
<1>1. /\ store' = [store EXCEPT ![c] = new]
      /\ SnapshotEligible(old)
      /\ UNCHANGED <<up, pending, submits>>
  BY DEF InstallSnapshot, SnapshotInstallable, transportVars
<1>2. old \in Stores /\ StoreSound(old)
  BY DEF IInv, TypeOK, StoresSound
<1>3. message \in Evidence
  <2>1. HasMessage(c)
    BY DEF InstallSnapshot, IInv, HandlerHasMessage
  <2> QED
    BY <2>1, MessageIsEvidence DEF IInv
<1>4. /\ received \in SUBSET Operations
      /\ IsFiniteSet(received)
      /\ received \subseteq OperationsOf(Rows)
      /\ message.confirmedThrough \in Nat
      /\ message.confirmedThrough <= LatestServerSeq
  <2>1. /\ OperationsOf(message.batch) \in SUBSET Operations
        /\ IsFiniteSet(OperationsOf(message.batch))
        /\ OperationsOf(message.batch) \subseteq OperationsOf(Rows)
        /\ message.snapshot \in SUBSET Operations
        /\ IsFiniteSet(message.snapshot)
        /\ message.confirmedThrough \in Nat
    BY <1>3, BatchFacts
  <2>2. /\ message.snapshot = PrefixThrough(message.snapshotSeq)
        /\ message.confirmedThrough <= LatestServerSeq
    BY <1>3 DEF Evidence
  <2>3. PrefixThrough(message.snapshotSeq) \subseteq OperationsOf(Rows)
    BY DEF PrefixThrough, OperationsOf
  <2> HIDE DEF message
  <2> QED
    BY <2>1, <2>2, <2>3, FS_Union
<1>5. new = [old EXCEPT !.lamportClock = clock,
                        !.operations = @ \cup OperationsOf(message.batch),
                        !.lastServerSeq = message.confirmedThrough,
                        !.baselineSeq = message.snapshotSeq,
                        !.baseline = message.snapshot]
  BY DEF InstallServerBaseline
<1>6. Known(old) = {} /\ old.operations = {} /\ old.lastServerSeq = 0
  BY <1>1, <1>2 DEF SnapshotEligible, StoreSound, Known
<1> HIDE DEF old, message, new
<1>7. /\ clock \in Nat /\ old.lamportClock <= clock
      /\ \A operation \in received : operation.lamport <= clock
  <2> HIDE DEF received
  <2> QED
    BY <1>2, <1>4, AdvanceClockBounds DEF Stores
<1> HIDE DEF clock
<1>8. /\ new.nextCounter = old.nextCounter
      /\ new.outbox \subseteq old.outbox
      /\ new.lastServerSeq = message.confirmedThrough
      /\ new.lamportClock = clock
      /\ Known(new) = received
  BY <1>2, <1>5, <1>6 DEF Stores, Known
<1> HIDE DEF received
<1>9. old.lastServerSeq <= message.confirmedThrough
  BY <1>4, <1>6
<1>10. store'[c] = new /\ \A d \in Clients \ {c} : store'[d] = store[d]
  BY <1>1 DEF IInv, TypeOK
<1> QED
  BY <1>1, <1>4, <1>6, <1>7, <1>8, <1>9, <1>10 DEF Learns, old

\* Learning makes no originals.
LEMMA LearningKeepsOriginals ==
  ASSUME IInv, Provenance, NEW c \in Clients, Learns(c)
  PROVE  /\ \A d \in Clients : Written(d)' = Written(d)
         /\ Originals' = Originals
<1>1. ASSUME NEW d \in Clients PROVE Written(d)' = Written(d)
  <2>1. CASE d # c
    BY <1>1, <2>1 DEF Learns, Written
  <2>2. CASE d = c
    <3>1. Written(c) \subseteq Written(c)'
      BY DEF Learns, Written
    <3>2. ASSUME NEW operation \in Written(c)' PROVE operation \in Written(c)
      <4>1. /\ operation \in Known(store[c]) \cup OperationsOf(Rows)
            /\ operation.id[1] = c
        BY <3>2 DEF Learns, Written
      <4>2. operation \in Originals
        BY <4>1 DEF Provenance, StoresCovered, StoreCovered, LogOrdered
      <4> QED
        BY <4>1, <4>2, OriginalFacts DEF IInv
    <3> QED
      BY <2>2, <3>1, <3>2
  <2> QED
    BY <2>1, <2>2
<1> QED
  BY <1>1 DEF Originals

\* It keeps the invariant.
LEMMA LearningKeeps ==
  ASSUME IInv, Provenance, NEW c \in Clients, Learns(c), UNCHANGED log
  PROVE  Provenance'
<1>1. /\ \A d \in Clients : Written(d)' = Written(d)
      /\ Originals' = Originals
  BY LearningKeepsOriginals
<1>2. Rows' = Rows /\ LatestServerSeq' = LatestServerSeq
  BY DEF Rows, LatestServerSeq
<1>3. Sendable' = Sendable
  BY <1>1, <1>2 DEF Sendable
<1>4. Outgoing'
  BY <1>1, <1>3 DEF Provenance, Outgoing, Learns
<1>5. StoresCovered'
  <2>1. ASSUME NEW d \in Clients PROVE StoreCovered(store[d])'
    <3>1. CASE d # c
      BY <1>1, <1>2, <3>1 DEF Provenance, StoresCovered, StoreCovered, Learns
    <3>2. CASE d = c
      <4>1. Known(store'[c]) \subseteq Originals
        BY DEF Learns, Provenance, StoresCovered, StoreCovered, LogOrdered
      <4> QED
        BY <1>1, <1>2, <3>2, <4>1 DEF StoreCovered, Learns
    <3> QED
      BY <3>1, <3>2
  <2> QED
    BY <2>1 DEF StoresCovered
<1>6. CountersAhead'
  <2>1. \A d \in Clients : store'[d].nextCounter = store[d].nextCounter
    BY DEF Learns
  <2> QED
    BY <1>1, <2>1 DEF Provenance, CountersAhead
<1>7. OneOriginal' /\ Causal'
  BY <1>1 DEF Provenance, OneOriginal, Causal
<1>8. LogOrdered'
  BY <1>1, <1>2 DEF Provenance, LogOrdered
<1> QED
  BY <1>4, <1>5, <1>6, <1>7, <1>8 DEF Provenance
--------------------------------------------------------------------------------
(* New operations.                                                         *)

\* Client c adds the operations of an edit to its replica.
Adds(c, edit) ==
  /\ \A d \in Clients \ {c} : store'[d] = store[d]
  /\ Len(edit) > 0
  /\ \A i \in 1..Len(edit) :
       /\ edit[i].id = <<c, store[c].nextCounter + i - 1>>
       /\ edit[i].lamport = store[c].lamportClock + i
       /\ i = 1 => edit[i].dependsOn \subseteq Ids(Known(store[c]))
       /\ i > 1 => edit[i].dependsOn = {edit[i - 1].id}
  /\ Known(store'[c]) = Known(store[c]) \cup Range(edit)
  /\ store'[c].outbox = store[c].outbox \cup Ids(Range(edit))
  /\ store'[c].nextCounter = store[c].nextCounter + Len(edit)
  /\ store'[c].lamportClock = store[c].lamportClock + Len(edit)
  /\ store'[c].lastServerSeq = store[c].lastServerSeq
  /\ UNCHANGED <<up, pending>>
  /\ submits' = [submits EXCEPT ![c] = Append(@, edit)]

\* An edit adds operations.
LEMMA EditAdds ==
  ASSUME IInv, NEW c \in Clients, Edit(c)
  PROVE  \E edit \in Seq(Operations) : Adds(c, edit)
<1>1. PICK size \in EditSizes[c],
           anchor \in {{}} \cup {{id} : id \in Ids(Attached(Known(store[c])))} :
        LET edit == EditOperations(store[c], c, anchor, size)
        IN  /\ store' = [store EXCEPT ![c] = PersistLocalTextEdit(@, edit)]
            /\ submits' = [submits EXCEPT ![c] = Append(@, edit)]
  BY DEF Edit
<1> DEFINE old  == store[c]
           edit == EditOperations(old, c, anchor, size)
           new  == PersistLocalTextEdit(old, edit)
<1>2. old \in Stores
  BY DEF IInv, TypeOK
<1>3. size \in Nat \ {0}
  BY EditAssumption
<1>4. anchor \subseteq Ids(Known(old))
  <2>1. Attached(Known(old)) \subseteq Known(old)
    BY DEF Attached
  <2> QED
    BY <2>1 DEF Ids
<1>5. anchor \in SUBSET OpIds
  <2>1. Known(old) \subseteq Operations
    BY KnownTyped DEF IInv
  <2> QED
    BY <1>4, <2>1 DEF Ids, Operations
<1>6. /\ edit \in Seq(Operations)
      /\ Len(edit) = size
      /\ \A i \in 1..size : edit[i].id = <<c, old.nextCounter + i - 1>>
  BY <1>2, <1>3, <1>5, EditOperationsTyped
<1>7. ASSUME NEW i \in 1..size
      PROVE  /\ edit[i].lamport = old.lamportClock + i
             /\ edit[i].dependsOn = IF i = 1 THEN anchor
                                             ELSE {<<c, old.nextCounter + i - 2>>}
  BY DEF EditOperations
<1> HIDE DEF edit
<1>8. ASSUME NEW i \in 1..size, i > 1
      PROVE  edit[i].dependsOn = {edit[i - 1].id}
  <2>1. i - 1 \in 1..size
    BY <1>3, <1>8
  <2>2. edit[i - 1].id = <<c, old.nextCounter + (i - 1) - 1>>
    BY <1>6, <2>1
  <2>3. old.nextCounter + (i - 1) - 1 = old.nextCounter + i - 2
    BY <1>2, <1>8 DEF Stores
  <2>4. i # 1
    BY <1>8
  <2>5. edit[i].dependsOn = {<<c, old.nextCounter + i - 2>>}
    BY <1>7, <2>4
  <2> HIDE DEF old
  <2> QED
    BY <2>2, <2>3, <2>5
<1>9. /\ new.nextCounter = old.nextCounter + size
      /\ new.lamportClock = old.lamportClock + size
      /\ new.lastServerSeq = old.lastServerSeq
      /\ Known(new) = Known(old) \cup Range(edit)
      /\ new.outbox = old.outbox \cup Ids(Range(edit))
  BY <1>2, <1>6 DEF PersistLocalTextEdit, Stores, Known
<1>10. store' = [store EXCEPT ![c] = new] /\ submits' = [submits EXCEPT ![c] = Append(@, edit)]
  BY <1>1 DEF edit
<1> HIDE DEF new
<1>11. store'[c] = new /\ \A d \in Clients \ {c} : store'[d] = store[d]
  BY <1>10 DEF IInv, TypeOK
<1>12. UNCHANGED <<up, pending>>
  BY DEF Edit, transportVars
<1>13. \A i \in 1..Len(edit) :
         /\ edit[i].id = <<c, store[c].nextCounter + i - 1>>
         /\ edit[i].lamport = store[c].lamportClock + i
         /\ i = 1 => edit[i].dependsOn \subseteq Ids(Known(store[c]))
         /\ i > 1 => edit[i].dependsOn = {edit[i - 1].id}
  BY <1>4, <1>6, <1>7, <1>8
<1>14. Len(edit) > 0
  BY <1>3, <1>6
<1>15. Adds(c, edit)
  BY <1>6, <1>9, <1>10, <1>11, <1>12, <1>13, <1>14 DEF Adds
<1> QED
  BY <1>6, <1>15

\* The operations of an edit are new: their counters are.
LEMMA AddedAreNew ==
  ASSUME IInv, Provenance, NEW c \in Clients, NEW edit \in Seq(Operations),
         Adds(c, edit)
  PROVE  /\ \A operation \in Range(edit) :
              /\ operation \in Operations
              /\ operation.id[1] = c
              /\ operation.id \notin Ids(Originals)
              /\ store[c].lamportClock < operation.lamport
              /\ operation.lamport <= store'[c].lamportClock
              /\ operation.id[2] < store'[c].nextCounter
         /\ Range(edit) # {}
         /\ \A a, b \in Range(edit) : a.id = b.id => a = b
<1>1. /\ Len(edit) \in Nat
      /\ Range(edit) = {edit[i] : i \in 1..Len(edit)}
      /\ \A i \in 1..Len(edit) : edit[i] \in Operations
  BY LenProperties, RangeEquality, ElementOfSeq
<1>2. store[c].nextCounter \in Nat \ {0} /\ store[c].lamportClock \in Nat
  BY DEF IInv, TypeOK, Stores
<1>3. ASSUME NEW i \in 1..Len(edit)
      PROVE  /\ edit[i].id[1] = c
             /\ edit[i].id[2] = store[c].nextCounter + i - 1
             /\ edit[i].lamport = store[c].lamportClock + i
  BY DEF Adds
<1>4. ASSUME NEW i \in 1..Len(edit), NEW operation \in Originals,
             operation.id = edit[i].id
      PROVE  FALSE
  <2>1. operation \in Written(c) /\ operation.id[2] \in Nat
    BY <1>3, <1>4, OriginalFacts DEF IInv, Operations, OpIds
  <2>2. operation.id[2] < store[c].nextCounter
    BY <2>1 DEF Provenance, CountersAhead
  <2> QED
    BY <1>2, <1>3, <1>4, <2>1, <2>2
<1>5. ASSUME NEW i \in 1..Len(edit)
      PROVE  /\ edit[i].id[1] = c
             /\ edit[i].id \notin Ids(Originals)
             /\ store[c].lamportClock < edit[i].lamport
             /\ edit[i].lamport <= store[c].lamportClock + Len(edit)
             /\ edit[i].id[2] < store[c].nextCounter + Len(edit)
  <2>1. edit[i].id \notin Ids(Originals)
    BY <1>4 DEF Ids
  <2> QED
    BY <1>1, <1>2, <1>3, <2>1
<1>6. /\ store'[c].nextCounter = store[c].nextCounter + Len(edit)
      /\ store'[c].lamportClock = store[c].lamportClock + Len(edit)
      /\ 1 \in 1..Len(edit)
  BY <1>1 DEF Adds
<1>7. ASSUME NEW i \in 1..Len(edit), NEW j \in 1..Len(edit), edit[i].id = edit[j].id
      PROVE  i = j
  <2>1. store[c].nextCounter + i - 1 = store[c].nextCounter + j - 1
    BY <1>3, <1>7
  <2>2. i \in Nat /\ j \in Nat
    BY <1>1
  <2> QED
    BY <1>2, <2>1, <2>2
<1> QED
  BY <1>1, <1>5, <1>6, <1>7

\* They are the only new originals.
LEMMA AddingOriginals ==
  ASSUME IInv, Provenance, NEW c \in Clients, NEW edit \in Seq(Operations),
         Adds(c, edit)
  PROVE  /\ Written(c)' = Written(c) \cup Range(edit)
         /\ \A d \in Clients \ {c} : Written(d)' = Written(d)
         /\ Originals' = Originals \cup Range(edit)
<1>1. Written(c)' = Written(c) \cup Range(edit)
  <2>1. Known(store'[c]) = Known(store[c]) \cup Range(edit)
    BY DEF Adds
  <2>2. \A operation \in Range(edit) : operation.id[1] = c
    BY AddedAreNew
  <2> QED
    BY <2>1, <2>2 DEF Written
<1>2. \A d \in Clients \ {c} : Written(d)' = Written(d)
  BY DEF Adds, Written
<1> QED
  BY <1>1, <1>2 DEF Originals

\* Old dependencies are not on new operations, and new ones are on operations
\* with smaller stamps.
LEMMA AddingCausal ==
  ASSUME IInv, Provenance, NEW c \in Clients, NEW edit \in Seq(Operations),
         Adds(c, edit)
  PROVE  OneOriginal' /\ Causal'
<1>1. Originals' = Originals \cup Range(edit)
  BY AddingOriginals
<1>2. OneOriginal'
  <2>1. ASSUME NEW a \in Originals', NEW b \in Originals', a.id = b.id
        PROVE  a = b
    BY <1>1, <2>1, AddedAreNew DEF Ids, Provenance, OneOriginal
  <2> QED
    BY <2>1 DEF OneOriginal
<1>3. /\ Len(edit) \in Nat
      /\ Range(edit) = {edit[i] : i \in 1..Len(edit)}
  BY LenProperties, RangeEquality
<1>4. store[c].lamportClock \in Nat
  BY DEF IInv, TypeOK, Stores
<1>5. Known(store[c]) \subseteq Originals
  BY DEF Provenance, StoresCovered, StoreCovered
<1>6. ASSUME NEW b \in Originals
      PROVE  /\ b.dependsOn \subseteq Ids(Originals')
             /\ \A a \in Originals' : a.id \in b.dependsOn => a.lamport < b.lamport
  <2>1. b.dependsOn \subseteq Ids(Originals)
    BY DEF Provenance, Causal
  <2>2. ASSUME NEW a \in Originals', a.id \in b.dependsOn
        PROVE  a.lamport < b.lamport
    <3>1. a \in Originals
      BY <1>1, <2>1, <2>2, AddedAreNew
    <3> QED
      BY <2>2, <3>1 DEF Provenance, Causal
  <2> QED
    BY <1>1, <2>1, <2>2 DEF Ids
<1>7. ASSUME NEW i \in 1..Len(edit)
      PROVE  /\ edit[i].dependsOn \subseteq Ids(Originals')
             /\ \A a \in Originals' : a.id \in edit[i].dependsOn =>
                                        a.lamport < edit[i].lamport
  <2>1. edit[i].lamport = store[c].lamportClock + i
    BY DEF Adds
  <2>2. CASE i = 1
    <3>1. edit[i].dependsOn \subseteq Ids(Known(store[c]))
      BY <2>2 DEF Adds
    <3>2. ASSUME NEW a \in Originals', a.id \in edit[i].dependsOn
          PROVE  a.lamport < edit[i].lamport
      <4>1. PICK known \in Known(store[c]) : known.id = a.id
        BY <3>1, <3>2 DEF Ids
      <4>2. known = a
        BY <1>1, <1>2, <1>5, <4>1 DEF OneOriginal
      <4>3. a.lamport \in Nat /\ a.lamport <= store[c].lamportClock
        BY <4>2, KnownTyped
        DEF IInv, Operations, Provenance, StoresCovered, StoreCovered
      <4> QED
        BY <1>4, <2>1, <2>2, <4>3
    <3> QED
      BY <1>1, <1>5, <3>1, <3>2 DEF Ids
  <2>3. CASE i # 1
    <3>1. edit[i].dependsOn = {edit[i - 1].id} /\ i - 1 \in 1..Len(edit)
      <4>1. i > 1 /\ i - 1 \in 1..Len(edit)
        BY <1>3, <2>3
      <4> QED
        BY <4>1 DEF Adds
    <3>2. edit[i - 1] \in Originals' /\ edit[i - 1].lamport = store[c].lamportClock + (i - 1)
      BY <1>1, <1>3, <3>1 DEF Adds
    <3>3. ASSUME NEW a \in Originals', a.id \in edit[i].dependsOn
          PROVE  a.lamport < edit[i].lamport
      <4>1. a = edit[i - 1]
        BY <1>2, <3>1, <3>2, <3>3 DEF OneOriginal
      <4> QED
        BY <1>4, <2>1, <3>2, <4>1
    <3> QED
      BY <3>1, <3>2, <3>3 DEF Ids
  <2> QED
    BY <2>2, <2>3
<1>8. \A b \in Originals' :
        /\ b.dependsOn \subseteq Ids(Originals')
        /\ \A a \in Originals' : a.id \in b.dependsOn => a.lamport < b.lamport
  BY <1>1, <1>3, <1>6, <1>7
<1>9. Causal'
  BY <1>8 DEF Causal
<1> QED
  BY <1>2, <1>9

\* Edit keeps the invariant.
LEMMA AddingKeeps ==
  ASSUME IInv, Provenance, NEW c \in Clients, NEW edit \in Seq(Operations),
         Adds(c, edit), UNCHANGED log
  PROVE  Provenance'
<1>1. /\ Originals' = Originals \cup Range(edit)
      /\ Written(c)' = Written(c) \cup Range(edit)
      /\ \A d \in Clients \ {c} : Written(d)' = Written(d)
  BY AddingOriginals
<1>2. Rows' = Rows /\ LatestServerSeq' = LatestServerSeq
  BY DEF Rows, LatestServerSeq
<1>3. Outgoing'
  <2>1. Seq(Originals) \subseteq Seq(Originals')
    BY <1>1, SeqMonotonic
  <2>2. Seq(Seq(Originals)) \subseteq Seq(Seq(Originals'))
    BY <2>1, SeqMonotonic
  <2>3. Sendable \subseteq Sendable'
    BY <1>1, <1>2 DEF Sendable
  <2>4. Seq(Sendable) \subseteq Seq(Sendable')
    BY <2>3, SeqMonotonic
  <2>5. edit \in Seq(Originals')
    <3>1. \A i \in 1..Len(edit) : edit[i] \in Range(edit)
      BY RangeEquality
    <3>2. \A i \in 1..Len(edit) : edit[i] \in Originals'
      BY <1>1, <3>1
    <3>3. edit \in [1..Len(edit) -> Originals'] /\ Len(edit) \in Nat
      BY <3>2, LenProperties
    <3> QED
      BY <3>3, SeqDef
  <2>6. submits[c] \in Seq(Seq(Originals'))
    BY <2>2 DEF Provenance, Outgoing
  <2>7. Append(submits[c], edit) \in Seq(Seq(Originals'))
    BY <2>5, <2>6, AppendProperties
  <2>8. UNCHANGED <<up, pending>> /\ submits' = [submits EXCEPT ![c] = Append(@, edit)]
    BY DEF Adds
  <2> QED
    BY <2>1, <2>2, <2>4, <2>7, <2>8 DEF Provenance, Outgoing
<1>4. StoresCovered'
  <2>1. ASSUME NEW d \in Clients PROVE StoreCovered(store[d])'
    <3>1. StoreCovered(store[d])
      BY DEF Provenance, StoresCovered
    <3>2. CASE d # c
      BY <1>1, <1>2, <3>1, <3>2 DEF StoreCovered, Adds
    <3>3. CASE d = c
      <4>1. \A operation \in Range(edit) : operation.lamport <= store'[c].lamportClock
        BY AddedAreNew
      <4>2. ASSUME NEW operation \in Known(store[c])
            PROVE  operation.lamport <= store'[c].lamportClock
        <5>1. operation.lamport \in Nat /\ operation.lamport <= store[c].lamportClock
          BY <3>1, <3>3, KnownTyped DEF StoreCovered, IInv, Operations
        <5>2. store[c].lamportClock \in Nat /\ Len(edit) \in Nat
          BY LenProperties DEF IInv, TypeOK, Stores
        <5>3. store'[c].lamportClock = store[c].lamportClock + Len(edit)
          BY DEF Adds
        <5> QED
          BY <5>1, <5>2, <5>3
      <4> QED
        BY <1>1, <1>2, <3>1, <3>3, <4>1, <4>2 DEF StoreCovered, Adds
    <3> QED
      BY <3>2, <3>3
  <2> QED
    BY <2>1 DEF StoresCovered
<1>5. CountersAhead'
  <2>1. ASSUME NEW d \in Clients, NEW operation \in Written(d)'
        PROVE  operation.id[2] < store'[d].nextCounter
    <3>1. CASE operation \in Written(d)
      <4>1. operation.id[2] < store[d].nextCounter
        BY <3>1 DEF Provenance, CountersAhead
      <4>2. operation.id[2] \in Nat /\ store[d].nextCounter \in Nat
        BY <3>1, KnownTyped DEF Written, Operations, OpIds, IInv, TypeOK, Stores
      <4>3. /\ d # c => store'[d] = store[d]
            /\ store'[c].nextCounter = store[c].nextCounter + Len(edit)
            /\ Len(edit) \in Nat
        BY LenProperties DEF Adds
      <4> QED
        BY <4>1, <4>2, <4>3
    <3>2. CASE operation \notin Written(d)
      <4>1. d = c /\ operation \in Range(edit)
        BY <1>1, <2>1, <3>2
      <4> QED
        BY <4>1, AddedAreNew
    <3> QED
      BY <3>1, <3>2
  <2> QED
    BY <2>1 DEF CountersAhead
<1>6. OneOriginal' /\ Causal'
  BY AddingCausal
<1>7. LogOrdered'
  BY <1>1, <1>2 DEF Provenance, LogOrdered
<1> QED
  BY <1>3, <1>4, <1>5, <1>6, <1>7 DEF Provenance
--------------------------------------------------------------------------------
(* The log.                                                                *)

\* The server appends an original that the log does not have.
Appends(operation) ==
  /\ operation \in Originals
  /\ \A row \in Rows : row.operation.id # operation.id
  /\ \E row \in SequencedOperations :
       /\ row.operation = operation
       /\ row.serverSeq > LatestServerSeq
       /\ log' = Append(log, row)
  /\ up' \in [Connections -> Seq(Sendable)]

\* A submitted operation that is appended is an original.
LEMMA SubmittedIsAppended ==
  ASSUME IInv, Provenance, NEW k \in Connections, AppendSubmitted(k)
  PROVE  \E operation : Appends(operation)
<1> DEFINE operation == Head(up[k]).operation
<1>1. /\ ServerTakes(k) /\ Head(up[k]).type = "submit-operation"
      /\ SameIdentity(operation) = {}
  BY DEF AppendSubmitted
<1>2. PICK elsewhere \in Elsewhere :
        log' = Append(log, [serverSeq |-> LatestServerSeq + elsewhere + 1,
                            operation |-> operation])
  BY DEF AppendSubmitted
<1>3. up' \in [Connections -> Seq(Sendable)] /\ Head(up[k]) \in Sendable
  BY <1>1, TakesSendable DEF Provenance, Outgoing
<1>4. operation \in Originals
  BY <1>1, <1>3 DEF Sendable
<1>5. operation \in Operations
  BY <1>4, OriginalFacts DEF IInv
<1>6. \A row \in Rows : row.operation.id # operation.id
  BY <1>1 DEF SameIdentity
<1> HIDE DEF operation
<1>7. LatestServerSeq \in Nat /\ elsewhere \in Nat
  BY LogFacts, ElsewhereAssumption DEF IInv, TypeOK
<1> DEFINE row == [serverSeq |-> LatestServerSeq + elsewhere + 1, operation |-> operation]
<1>8. /\ row \in SequencedOperations
      /\ row.operation = operation
      /\ row.serverSeq > LatestServerSeq
      /\ log' = Append(log, row)
  BY <1>2, <1>5, <1>7 DEF SequencedOperations
<1> HIDE DEF row
<1>9. Appends(operation)
  BY <1>3, <1>4, <1>6, <1>8 DEF Appends
<1> QED
  BY <1>9

\* Appending keeps the invariant.
LEMMA AppendingKeeps ==
  ASSUME IInv, Provenance, NEW operation, Appends(operation),
         UNCHANGED clientVars
  PROVE  Provenance'
<1>1. UNCHANGED <<store, pending, submits>>
  BY DEF clientVars
<1>2. PICK row \in SequencedOperations :
        /\ row.operation = operation
        /\ row.serverSeq > LatestServerSeq
        /\ log' = Append(log, row)
  BY DEF Appends
<1>3. log \in Seq(SequencedOperations)
  BY DEF IInv, TypeOK
<1>4. /\ Rows' = Rows \cup {row}
      /\ LatestServerSeq' = row.serverSeq
      /\ LatestServerSeq <= LatestServerSeq'
  BY <1>2, <1>3, AppendedRow
<1>5. /\ Len(log') = Len(log) + 1
      /\ \A i \in 1..Len(log) : log'[i] = log[i]
      /\ log'[Len(log) + 1] = row
      /\ Len(log) \in Nat
      /\ LatestServerSeq \in Nat
      /\ row.serverSeq \in Nat
  BY <1>2, <1>3, AppendProperties, LenProperties, LogFacts DEF SequencedOperations
<1>6. Originals' = Originals
  BY <1>1 DEF Originals, Written
<1>7. Outgoing'
  <2>1. Sendable \subseteq Sendable'
    <3>1. ASSUME NEW message \in Sendable PROVE message \in Sendable'
      <4>1. message \in ClientMessages
        BY DEF Sendable
      <4>2. CASE message.type = "join"
        <5>1. message.lastServerSeq \in Nat /\ message.lastServerSeq <= LatestServerSeq
          BY <4>1, <4>2 DEF Sendable, ClientMessages
        <5>2. message.lastServerSeq <= LatestServerSeq'
          BY <1>4, <1>5, <5>1
        <5> QED
          BY <4>1, <4>2, <5>2 DEF Sendable
      <4>3. CASE message.type # "join"
        BY <1>6, <4>1, <4>3 DEF Sendable
      <4> QED
        BY <4>2, <4>3
    <3> QED
      BY <3>1
  <2>2. Seq(Sendable) \subseteq Seq(Sendable')
    BY <2>1, SeqMonotonic
  <2> QED
    BY <1>1, <1>6, <2>2 DEF Appends, Provenance, Outgoing
<1>8. StoresCovered'
  <2>1. ASSUME NEW c \in Clients PROVE StoreCovered(store[c])'
    <3>1. StoreCovered(store[c]) /\ store[c].lastServerSeq \in Nat
      BY DEF Provenance, StoresCovered, IInv, TypeOK, Stores
    <3>2. store[c].lastServerSeq <= LatestServerSeq'
      BY <1>4, <1>5, <3>1 DEF StoreCovered
    <3> QED
      BY <1>1, <1>6, <3>1, <3>2 DEF StoreCovered
  <2> QED
    BY <2>1 DEF StoresCovered
<1>9. CountersAhead' /\ OneOriginal' /\ Causal'
  BY <1>1, <1>6 DEF Provenance, CountersAhead, Written, OneOriginal, Causal
<1>10. LogOrdered'
  <2>1. OperationsOf(Rows') \subseteq Originals
    BY <1>2, <1>4 DEF OperationsOf, Appends, Provenance, LogOrdered
  <2>2. ASSUME NEW i \in 1..Len(log'), NEW j \in 1..Len(log'), i < j
        PROVE  /\ log'[i].serverSeq < log'[j].serverSeq
               /\ log'[i].operation.id # log'[j].operation.id
    <3>1. i \in 1..Len(log) /\ log'[i] = log[i]
      BY <1>5, <2>2
    <3>2. CASE j \in 1..Len(log)
      BY <1>5, <2>2, <3>1, <3>2 DEF Provenance, LogOrdered
    <3>3. CASE j \notin 1..Len(log)
      <4>1. log'[j] = row
        <5>1. j = Len(log) + 1
          BY <1>5, <2>2, <3>3
        <5> QED
          BY <1>5, <5>1
      <4>2. log[i] \in Rows
        BY <1>3, <3>1, RangeEquality DEF Rows
      <4>3. log[i].serverSeq \in Nat /\ log[i].serverSeq <= LatestServerSeq
        BY <1>3, <4>2, LogFacts DEF IInv, LogBounded, SequencedOperations
      <4>4. log[i].serverSeq < row.serverSeq
        BY <1>2, <1>5, <4>3
      <4>5. log[i].operation.id # row.operation.id
        BY <1>2, <4>2 DEF Appends
      <4> QED
        BY <3>1, <4>1, <4>4, <4>5
    <3> QED
      BY <3>2, <3>3
  <2> QED
    BY <1>6, <2>1, <2>2 DEF LogOrdered
<1> QED
  BY <1>7, <1>8, <1>9, <1>10 DEF Provenance

--------------------------------------------------------------------------------
(* Every step is one of five kinds.                                        *)

\* The invariant holds at the start.
LEMMA InitProvenance == Init => Provenance
<1> SUFFICES ASSUME Init PROVE Provenance
  OBVIOUS
<1> USE DEF Init, TransportInit, ServerInit, ClientInit
<1>1. \A c \in Clients : Known(store[c]) = {}
  BY DEF EmptyStore, Known
<1>2. Originals = {} /\ \A c \in Clients : Written(c) = {}
  BY <1>1 DEF Originals, Written
<1>3. Rows = {} /\ LatestServerSeq = 0
  BY EmptyLog
<1>4. <<>> \in Seq(Sendable) /\ <<>> \in Seq(Originals) /\ <<>> \in Seq(Seq(Originals))
  BY EmptySeq
<1>5. Outgoing
  BY <1>4 DEF Outgoing
<1>6. StoresCovered
  BY <1>1, <1>3 DEF StoresCovered, StoreCovered, EmptyStore
<1>7. CountersAhead /\ OneOriginal /\ Causal
  BY <1>2 DEF CountersAhead, OneOriginal, Causal
<1>8. LogOrdered
  <2>1. Len(log) = 0
    BY EmptySeq
  <2> QED
    BY <1>3, <2>1 DEF LogOrdered, OperationsOf
<1> QED
  BY <1>5, <1>6, <1>7, <1>8 DEF Provenance

\* A step leaves stores and log alone, teaches a client, adds an edit, or
\* appends to the log.
StepKinds ==
  \/ UNCHANGED <<store, log>> /\ Provenance'
  \/ UNCHANGED log /\ \E c \in Clients : Learns(c)
  \/ UNCHANGED log /\ \E c \in Clients : \E edit \in Seq(Operations) : Adds(c, edit)
  \/ UNCHANGED clientVars /\ \E operation : Appends(operation)

LEMMA EveryStepIsOfAKind ==
  ASSUME IInv, Provenance, [Next]_vars
  PROVE  StepKinds
<1>1. ASSUME NEW c \in Clients, QuietClientStep(c), UNCHANGED serverVars
      PROVE  StepKinds
  BY <1>1, QuietClientKeeps DEF StepKinds
<1>2. ASSUME NEW c \in Clients, ClientStep(c) PROVE StepKinds
  <2>1. UNCHANGED serverVars /\ UNCHANGED log
    BY <1>2 DEF ClientStep, serverVars
  <2>2. CASE ApplyOperations(c)
    BY <2>1, <2>2, ApplyOperationsLearns DEF StepKinds
  <2>3. CASE InstallSnapshot(c)
    BY <2>1, <2>3, InstallSnapshotLearns DEF StepKinds
  <2>4. CASE ~(ApplyOperations(c) \/ InstallSnapshot(c))
    <3>1. QuietClientStep(c)
      BY <1>2, <2>4 DEF ClientStep, SocketCloses, QuietClientStep
    <3> QED
      BY <1>1, <2>1, <3>1
  <2> QED
    BY <2>2, <2>3, <2>4
<1>3. ASSUME NEW c \in Clients, UserStep(c) PROVE StepKinds
  <2>1. UNCHANGED serverVars /\ UNCHANGED log
    BY <1>3 DEF UserStep, serverVars
  <2>2. CASE Edit(c)
    BY <2>1, <2>2, EditAdds DEF StepKinds
  <2>3. CASE Retry(c)
    BY <1>1, <2>1, <2>3 DEF QuietClientStep
  <2> QED
    BY <1>3, <2>2, <2>3 DEF UserStep
<1>4. ASSUME NEW c \in Clients, ClientDisturbance(c) PROVE StepKinds
  <2>1. QuietClientStep(c) /\ UNCHANGED serverVars
    BY <1>4 DEF ClientDisturbance, ConnectionDrops, QuietClientStep
  <2> QED
    BY <1>1, <2>1
<1>5. ASSUME NEW k \in Connections, ServerStep(k) PROVE StepKinds
  <2>1. UNCHANGED clientVars
    BY <1>5 DEF ServerStep
  <2>2. CASE AppendSubmitted(k)
    BY <2>1, <2>2, SubmittedIsAppended DEF StepKinds
  <2>3. CASE ~AppendSubmitted(k)
    <3>1. QuietServerStep(k)
      BY <1>5, <2>3 DEF ServerStep, QuietServerStep
    <3> QED
      BY <2>1, <3>1, QuietServerKeeps DEF StepKinds
  <2> QED
    BY <2>2, <2>3
<1>6. CASE ServerDisturbance
  <2>1. /\ UNCHANGED <<store, log, pending, submits>>
        /\ up' = [k \in Connections |-> <<>>]
    BY <1>6 DEF ServerDisturbance, ServerRestarts, clientVars, serverVars
  <2>2. up' \in [Connections -> Seq(Sendable)]
    <3>1. <<>> \in Seq(Sendable)
      BY EmptySeq
    <3> QED
      BY <2>1, <3>1
  <2> QED
    BY <2>1, <2>2, NothingNew DEF StepKinds, Provenance, Outgoing
<1>7. CASE UNCHANGED vars
  <2>1. UNCHANGED <<store, log, up, pending, submits>>
    BY <1>7 DEF vars, transportVars, serverVars, clientVars
  <2> QED
    BY <2>1, NothingNew DEF StepKinds, Provenance, Outgoing
<1> QED
  BY <1>2, <1>3, <1>4, <1>5, <1>6, <1>7 DEF Next

\* Every step keeps the invariant.
LEMMA NextProvenance == IInv /\ Provenance /\ [Next]_vars => Provenance'
<1> SUFFICES ASSUME IInv, Provenance, [Next]_vars PROVE Provenance'
  OBVIOUS
<1>1. StepKinds
  BY EveryStepIsOfAKind
<1> QED
  BY <1>1, LearningKeeps, AddingKeeps, AppendingKeeps DEF StepKinds
--------------------------------------------------------------------------------
(* The theorems.                                                           *)

\* Both invariants hold in every behaviour.
THEOREM OriginsInvariant == Spec => [](IInv /\ Provenance)
<1>1. Init => IInv /\ Provenance
  BY InitInvariant, InitProvenance
<1>2. (IInv /\ Provenance) /\ [Next]_vars => (IInv /\ Provenance)'
  BY NextInvariant, NextProvenance
<1> QED
  BY <1>1, <1>2, PTL DEF Spec

\* An identity belongs to one operation, and the log has it once: retries,
\* resent outboxes and reloads never make a second one.
THEOREM IdentitiesAreUnique == Spec => []OneIdentity
<1>1. Provenance => OneIdentity
  BY AllAreOriginals DEF Provenance, OneOriginal, LogOrdered, OneIdentity
<1> QED
  BY <1>1, OriginsInvariant, PTL

\* Stamps respect causality on every replica, whatever order operations
\* arrive in.
THEOREM StampsFollowCausality == Spec => []LamportDominance
<1>1. Provenance => LamportDominance
  BY AllAreOriginals DEF Provenance, StoresCovered, StoreCovered, Causal, LamportDominance
<1> QED
  BY <1>1, OriginsInvariant, PTL

\* No client ever asks for more than the server has, so that the server never
\* refuses a join as ahead of it.
THEOREM CursorsStayBehind == Spec => []CursorNotAhead
<1>1. Provenance => CursorNotAhead
  <2> SUFFICES ASSUME Provenance PROVE CursorNotAhead
    OBVIOUS
  <2>1. \A c \in Clients : store[c].lastServerSeq <= LatestServerSeq
    BY DEF Provenance, StoresCovered, StoreCovered
  <2>2. ASSUME NEW k \in Connections, NEW message \in Range(up[k]), message.type = "join"
        PROVE  message.lastServerSeq <= LatestServerSeq
    <3>1. up[k] \in Seq(Sendable)
      BY DEF Provenance, Outgoing
    <3>2. message \in Sendable
      BY <3>1, RangeOfSeq
    <3> QED
      BY <2>2, <3>2 DEF Sendable
  <2> QED
    BY <2>1, <2>2 DEF CursorNotAhead
<1> QED
  BY <1>1, OriginsInvariant, PTL

\* What never happens to the durable state of a client: the cursor or the
\* clock moving back, a counter used again, an operation going.
StoreGrows(c) ==
  /\ store'[c].lastServerSeq >= store[c].lastServerSeq
  /\ store'[c].nextCounter >= store[c].nextCounter
  /\ store'[c].lamportClock >= store[c].lamportClock
  /\ Known(store[c]) \subseteq Known(store'[c])

\* Every step lets stores grow.
LEMMA StoresGrow ==
  ASSUME IInv, Provenance, [Next]_vars, NEW c \in Clients
  PROVE  StoreGrows(c)
<1> USE DEF StoreGrows
<1>1. /\ store[c].lastServerSeq \in Nat
      /\ store[c].nextCounter \in Nat
      /\ store[c].lamportClock \in Nat
  BY DEF IInv, TypeOK, Stores
<1>2. IInv'
  BY NextInvariant
<1>3. store'[c].lastServerSeq \in Nat /\ store'[c].lamportClock \in Nat
  BY <1>2 DEF IInv, TypeOK, Stores
<1>4. CASE store'[c] = store[c]
  BY <1>1, <1>4
<1>5. CASE \E d \in Clients : Learns(d)
  <2>1. PICK d \in Clients : Learns(d)
    BY <1>5
  <2>2. CASE d = c
    BY <1>1, <1>3, <2>1, <2>2 DEF Learns
  <2>3. CASE d # c
    BY <1>4, <2>1, <2>3 DEF Learns
  <2> QED
    BY <2>2, <2>3
<1>6. CASE \E d \in Clients : \E edit \in Seq(Operations) : Adds(d, edit)
  <2>1. PICK d \in Clients : \E edit \in Seq(Operations) : Adds(d, edit)
    BY <1>6
  <2>2. PICK edit \in Seq(Operations) : Adds(d, edit)
    BY <2>1
  <2>3. CASE d = c
    <3>1. Len(edit) \in Nat
      BY LenProperties
    <3> QED
      BY <1>1, <2>2, <2>3, <3>1 DEF Adds
  <2>4. CASE d # c
    BY <1>4, <2>2, <2>4 DEF Adds
  <2> QED
    BY <2>3, <2>4
<1>7. StepKinds
  BY EveryStepIsOfAKind
<1> QED
  BY <1>4, <1>5, <1>6, <1>7 DEF StepKinds, clientVars

\* No replica ever loses durable state, moves its cursor or its clock back,
\* or uses a counter again.
THEOREM DurableStateNeverShrinks == Spec => DurableStateGrows
<1>1. IInv /\ Provenance /\ [Next]_vars => [\A c \in Clients : StoreGrows(c)]_vars
  BY StoresGrow
<1> QED
  BY <1>1, OriginsInvariant, PTL DEF Spec, DurableStateGrows, StoreGrows

--------------------------------------------------------------------------------
(* The outbox.                                                             *)

\* A replica waits for acknowledgements of its own operations only.
OutboxesOwn == \A c \in Clients : \A id \in store[c].outbox : id[1] = c

\* Only edits mark operations, and they mark their own.
LEMMA OutboxesStayOwn ==
  ASSUME IInv, Provenance, OutboxesOwn, [Next]_vars
  PROVE  OutboxesOwn'
<1>1. CASE UNCHANGED <<store, log>>
  BY <1>1 DEF OutboxesOwn
<1>2. ASSUME NEW c \in Clients, Learns(c) PROVE OutboxesOwn'
  BY <1>2 DEF OutboxesOwn, Learns
<1>3. ASSUME NEW c \in Clients, NEW edit \in Seq(Operations), Adds(c, edit)
      PROVE  OutboxesOwn'
  <2>1. \A operation \in Range(edit) : operation.id[1] = c
    BY <1>3, AddedAreNew
  <2>2. \A id \in Ids(Range(edit)) : id[1] = c
    BY <2>1 DEF Ids
  <2>3. /\ store'[c].outbox = store[c].outbox \cup Ids(Range(edit))
        /\ \A d \in Clients \ {c} : store'[d] = store[d]
    BY <1>3 DEF Adds
  <2> QED
    BY <2>2, <2>3 DEF OutboxesOwn
<1>4. CASE UNCHANGED clientVars
  BY <1>4 DEF OutboxesOwn, clientVars
<1>5. StepKinds
  BY EveryStepIsOfAKind
<1> QED
  BY <1>1, <1>2, <1>3, <1>4, <1>5 DEF StepKinds

\* What c would send: the operations its outbox marks, all of them, each as
\* the counters were given, so that none goes before one it builds on.
OutboxInOrder(c) ==
  LET sent == PendingOperations(store[c])
  IN  /\ Ids(Range(sent)) = store[c].outbox
      /\ Range(sent) \subseteq Written(c)
      /\ \A i, j \in 1..Len(sent) : i < j => sent[i].id[2] < sent[j].id[2]

\* loadPendingOperations finds an operation for every marker.
LEMMA OutboxRead ==
  ASSUME IInv, OutboxesOwn, NEW c \in Clients
  PROVE  OutboxInOrder(c)
<1> DEFINE outbox   == store[c].outbox
           stored   == store[c].operations
           numbers  == {id[2] : id \in outbox}
           counters == Ascending(numbers)
           sent     == PendingOperations(store[c])
           marks(operation, n) == operation.id \in outbox /\ operation.id[2] = n
<1>1. /\ outbox \subseteq OpIds
      /\ IsFiniteSet(outbox)
      /\ outbox \subseteq Ids(stored)
      /\ \A id \in outbox : id[1] = c
  BY DEF IInv, TypeOK, StoresSound, Stores, StoreSound, OutboxesOwn
<1>2. numbers \in SUBSET Nat /\ IsFiniteSet(numbers)
  BY <1>1, FiniteCounters DEF OpIds
<1>3. /\ Len(counters) \in Nat
      /\ \A i \in 1..Len(counters) : counters[i] \in numbers
  <2>1. counters \in Seq(numbers)
    BY <1>2, AscendingIsSeq
  <2> HIDE DEF numbers, counters
  <2> QED
    BY <2>1, LenProperties, ElementOfSeq
<1>4. /\ \A i, j \in 1..Len(counters) : i < j => counters[i] < counters[j]
      /\ \A n \in numbers : \E i \in 1..Len(counters) : counters[i] = n
  <2> HIDE DEF numbers
  <2> QED
    BY <1>2, AscendingIsSorted
<1>5. sent = [i \in 1..Len(counters) |->
               CHOOSE operation \in stored : marks(operation, counters[i])]
  BY DEF PendingOperations
<1>6. \A id \in numbers : \E operation \in stored : marks(operation, id)
  <2> SUFFICES ASSUME NEW id \in outbox
               PROVE  \E operation \in stored : marks(operation, id[2])
    OBVIOUS
  <2> HIDE DEF outbox, stored
  <2> QED
    BY <1>1 DEF Ids
<1> HIDE DEF counters
<1>7. ASSUME NEW i \in 1..Len(counters)
      PROVE  sent[i] \in stored /\ marks(sent[i], counters[i])
  <2>1. \E operation \in stored : marks(operation, counters[i])
    BY <1>3, <1>6
  <2>2. sent[i] = CHOOSE operation \in stored : marks(operation, counters[i])
    BY <1>5
  <2> HIDE DEF sent, stored, marks
  <2> QED
    BY <2>1, <2>2
<1>8. Len(sent) = Len(counters) /\ Range(sent) = {sent[i] : i \in 1..Len(counters)}
  <2>1. DOMAIN sent = 1..Len(counters)
    BY <1>5
  <2>2. Len(sent) = Len(counters)
    BY <1>3, <1>5
  <2> HIDE DEF sent
  <2> QED
    BY <2>1, <2>2 DEF Range
<1>9. Ids(Range(sent)) = outbox
  <2>1. Ids(Range(sent)) \subseteq outbox
    <3> HIDE DEF sent, outbox, stored
    <3> QED
      BY <1>7, <1>8 DEF Ids
  <2>2. ASSUME NEW id \in outbox PROVE id \in Ids(Range(sent))
    <3>1. PICK i \in 1..Len(counters) : counters[i] = id[2]
      BY <1>4
    <3>2. sent[i].id \in outbox /\ sent[i].id[2] = id[2]
      BY <1>7, <3>1
    <3> HIDE DEF sent, outbox
    <3>3. sent[i].id = id
      BY <1>1, <3>2 DEF OpIds
    <3> QED
      BY <1>8, <3>3 DEF Ids
  <2> QED
    BY <2>1, <2>2
<1>10. Range(sent) \subseteq Written(c)
  <2> SUFFICES ASSUME NEW i \in 1..Len(counters) PROVE sent[i] \in Written(c)
    BY <1>8
  <2>1. sent[i] \in Known(store[c]) /\ sent[i].id[1] = c
    BY <1>1, <1>7 DEF Known
  <2> HIDE DEF sent
  <2> QED
    BY <2>1 DEF Written
<1>11. \A i, j \in 1..Len(sent) : i < j => sent[i].id[2] < sent[j].id[2]
  BY <1>4, <1>7, <1>8
<1> QED
  BY <1>9, <1>10, <1>11 DEF OutboxInOrder

\* An outbox is read whole and in the order of its edits: every marker finds
\* its operation, also after reloads, snapshots and acknowledgements of some
\* of the operations, and no operation is sent before an earlier one
\* (loadPendingOperations, which throws when a marker has no operation).
THEOREM OutboxIsReadInOrder == Spec => []\A c \in Clients : OutboxInOrder(c)
<1>1. Init => OutboxesOwn
  BY DEF Init, ClientInit, EmptyStore, OutboxesOwn
<1>2. IInv /\ Provenance /\ OutboxesOwn /\ [Next]_vars => OutboxesOwn'
  BY OutboxesStayOwn
<1>3. IInv /\ OutboxesOwn => \A c \in Clients : OutboxInOrder(c)
  BY OutboxRead
<1> QED
  BY <1>1, <1>2, <1>3, OriginsInvariant, PTL DEF Spec

--------------------------------------------------------------------------------
(* The refinement.                                                         *)

\* The published order is that of the log.
LEMMA PublishedIsLog ==
  ASSUME log \in Seq(SequencedOperations)
  PROVE  Range([i \in 1..Len(log) |-> log[i].operation]) = OperationsOf(Rows)
<1>1. Rows = {log[i] : i \in 1..Len(log)}
  BY RangeEquality DEF Rows
<1> QED
  BY <1>1 DEF Range, OperationsOf

\* The abstract document's copies of these operators are the same operators.
LEMMA SameOperators ==
  /\ \A f : Document!Range(f) = Range(f)
  /\ \A operations : Document!Ids(operations) = Ids(operations)
BY DEF Range, Ids, Document!Range, Document!Ids

\* Initial states map to initial states.
LEMMA DocumentInit == Init => Document!Init
<1> SUFFICES ASSUME Init PROVE Document!Init
  OBVIOUS
<1> USE DEF Init, ClientInit, ServerInit
<1>1. \A c \in Clients : Known(store[c]) = {}
  BY DEF EmptyStore, Known
<1>2. UNION {Written(c) : c \in Clients} = {}
  BY <1>1 DEF Written
<1>3. [i \in 1..Len(log) |-> log[i].operation] = <<>>
  <2>1. Len(log) = 0
    BY EmptySeq
  <2> QED
    BY <2>1
<1>4. [c \in Clients |-> Known(store[c])] = [c \in Clients |-> {}]
  BY <1>1
<1> QED
  BY <1>2, <1>3, <1>4 DEF Document!Init

\* A client that learns operations of the log learns published ones.
LEMMA LearningIsLearn ==
  ASSUME IInv, Provenance, NEW c \in Clients, Learns(c), UNCHANGED log
  PROVE  Document!Learn(c)
<1> DEFINE gained == Known(store'[c]) \ Known(store[c])
<1>1. Document!Gained(c) = gained
  BY DEF Document!Gained
<1>2. Document!OnlyGains(c)
  BY <1>1 DEF Document!OnlyGains, Learns
<1>3. Document!Gained(c) \subseteq Range([i \in 1..Len(log) |-> log[i].operation])
  BY <1>1, PublishedIsLog DEF Learns, IInv, TypeOK
<1>4. UNCHANGED <<UNION {Written(d) : d \in Clients},
                  [i \in 1..Len(log) |-> log[i].operation]>>
  BY LearningKeepsOriginals DEF Originals
<1> QED
  BY <1>2, <1>3, <1>4, SameOperators DEF Document!Learn

\* An edit writes operations of the client's own.
LEMMA AddingIsWrite ==
  ASSUME IInv, Provenance, NEW c \in Clients, NEW edit \in Seq(Operations),
         Adds(c, edit), UNCHANGED log
  PROVE  Document!Write(c)
<1>1. Known(store[c]) \subseteq Originals
  BY DEF Provenance, StoresCovered, StoreCovered
<1>2. Document!Gained(c) = Range(edit)
  <2>1. Range(edit) \cap Known(store[c]) = {}
    BY <1>1, AddedAreNew DEF Ids
  <2>2. Known(store'[c]) = Known(store[c]) \cup Range(edit)
    BY DEF Adds
  <2> QED
    BY <2>1, <2>2 DEF Document!Gained
<1>3. Document!OnlyGains(c)
  BY <1>2 DEF Document!OnlyGains, Adds
<1>4. ASSUME NEW operation \in Range(edit)
      PROVE  /\ operation.id[1] = c
             /\ operation.id \notin Ids(UNION {Written(d) : d \in Clients})
             /\ operation.dependsOn \subseteq Ids(Known(store'[c]))
             /\ \A known \in Known(store[c]) : known.lamport < operation.lamport
  <2>1. operation.id[1] = c /\ operation.id \notin Ids(UNION {Written(d) : d \in Clients})
    BY AddedAreNew DEF Originals
  <2>2. operation.dependsOn \subseteq Ids(Known(store'[c]))
    <3>1. /\ Len(edit) \in Nat
          /\ Range(edit) = {edit[i] : i \in 1..Len(edit)}
      BY LenProperties, RangeEquality
    <3>2. PICK i \in 1..Len(edit) : operation = edit[i]
      BY <3>1
    <3>3. Known(store'[c]) = Known(store[c]) \cup Range(edit)
      BY DEF Adds
    <3>4. CASE i = 1
      BY <3>2, <3>3, <3>4 DEF Adds, Ids
    <3>5. CASE i # 1
      <4>1. i > 1 /\ i - 1 \in 1..Len(edit)
        BY <3>1, <3>5
      <4>2. edit[i - 1] \in Range(edit) /\ operation.dependsOn = {edit[i - 1].id}
        BY <3>1, <3>2, <4>1 DEF Adds
      <4> QED
        BY <3>3, <4>2 DEF Ids
    <3> QED
      BY <3>4, <3>5
  <2>3. ASSUME NEW known \in Known(store[c]) PROVE known.lamport < operation.lamport
    <3>1. known.lamport \in Nat /\ operation.lamport \in Nat
      BY KnownTyped, AddedAreNew DEF IInv, Operations
    <3>2. store[c].lamportClock \in Nat
      BY DEF IInv, TypeOK, Stores
    <3>3. /\ known.lamport <= store[c].lamportClock
          /\ store[c].lamportClock < operation.lamport
      BY AddedAreNew DEF Provenance, StoresCovered, StoreCovered
    <3> QED
      BY <3>1, <3>2, <3>3
  <2> QED
    BY <2>1, <2>2, <2>3
<1>5. Range(edit) # {}
  BY AddedAreNew
<1>6. (UNION {Written(d) : d \in Clients})' =
        (UNION {Written(d) : d \in Clients}) \cup Range(edit)
  BY AddingOriginals DEF Originals
<1>7. UNCHANGED [i \in 1..Len(log) |-> log[i].operation]
  OBVIOUS
<1> QED
  BY <1>2, <1>3, <1>4, <1>5, <1>6, <1>7, SameOperators DEF Document!Write

\* Appending to the log publishes an operation.
LEMMA AppendingIsPublish ==
  ASSUME IInv, Provenance, NEW operation, Appends(operation),
         UNCHANGED clientVars
  PROVE  Document!Publish
<1> DEFINE published == [i \in 1..Len(log) |-> log[i].operation]
<1>1. PICK row \in SequencedOperations :
        /\ row.operation = operation
        /\ log' = Append(log, row)
  BY DEF Appends
<1>2. log \in Seq(SequencedOperations)
  BY DEF IInv, TypeOK
<1>3. /\ log' \in Seq(SequencedOperations)
      /\ Len(log') = Len(log) + 1
      /\ \A i \in 1..Len(log) : log'[i] = log[i]
      /\ log'[Len(log) + 1] = row
      /\ Len(log) \in Nat
  BY <1>1, <1>2, AppendProperties, LenProperties
<1>4. published \in Seq(Operations) /\ Len(published) = Len(log)
  <2>1. \A i \in 1..Len(log) : log[i] \in SequencedOperations
    BY <1>2, ElementOfSeq
  <2>2. published \in [1..Len(log) -> Operations]
    BY <2>1 DEF SequencedOperations
  <2> QED
    BY <1>3, <2>2, SeqDef, LenProperties
<1>5. /\ published' = [i \in 1..(Len(log) + 1) |-> log'[i].operation]
      /\ published'[Len(log) + 1] = operation
  BY <1>1, <1>3
<1>6. operation \in Operations /\ operation \in Originals
  BY OriginalFacts DEF Appends, IInv
<1>7. published' \in Seq(Operations) /\ Len(published') = Len(log) + 1
  <2>1. \A i \in 1..(Len(log) + 1) : log'[i] \in SequencedOperations
    BY <1>3, ElementOfSeq
  <2>2. published' \in [1..(Len(log) + 1) -> Operations] /\ Len(log) + 1 \in Nat
    BY <1>3, <1>5, <2>1 DEF SequencedOperations
  <2> HIDE DEF published
  <2> QED
    BY <2>2, SeqDef, LenProperties
<1>8. published' = Append(published, operation)
  <2>1. /\ Append(published, operation) \in Seq(Operations)
        /\ Len(Append(published, operation)) = Len(log) + 1
        /\ \A i \in 1..Len(log) : Append(published, operation)[i] = published[i]
        /\ Append(published, operation)[Len(log) + 1] = operation
    BY <1>4, <1>6, AppendProperties
  <2>2. \A i \in 1..Len(log) : published'[i] = published[i]
    BY <1>3, <1>5
  <2>3. \A i \in 1..(Len(log) + 1) : published'[i] = Append(published, operation)[i]
    <3> HIDE DEF published
    <3>1. ASSUME NEW i \in 1..(Len(log) + 1)
          PROVE  published'[i] = Append(published, operation)[i]
      <4>1. CASE i \in 1..Len(log)
        BY <2>1, <2>2, <4>1
      <4>2. CASE i \notin 1..Len(log)
        <5>1. i = Len(log) + 1
          BY <1>3, <4>2
        <5> QED
          BY <1>5, <2>1, <5>1
      <4> QED
        BY <4>1, <4>2
    <3> QED
      BY <3>1
  <2> HIDE DEF published
  <2> QED
    BY <1>7, <2>1, <2>3, SeqEqual
<1>9. operation \in (UNION {Written(c) : c \in Clients}) \ Range(published)
  <2>1. Range(published) = OperationsOf(Rows)
    BY <1>2, PublishedIsLog
  <2>2. operation \notin OperationsOf(Rows)
    BY DEF Appends, OperationsOf
  <2> QED
    BY <1>6, <2>1, <2>2 DEF Originals
<1>10. UNCHANGED <<UNION {Written(c) : c \in Clients}, [c \in Clients |-> Known(store[c])]>>
  BY DEF clientVars, Written
<1>11. Len(published') = Len(published) + 1 /\ published'[Len(published')] = operation
  BY <1>4, <1>5, <1>7
<1> QED
  BY <1>8, <1>9, <1>10, <1>11, SameOperators DEF Document!Publish

\* Every step maps to a step of the abstract document or to a stutter.
LEMMA DocumentStep ==
  IInv /\ Provenance /\ [Next]_vars => [Document!Next]_Document!vars
<1> SUFFICES ASSUME IInv, Provenance, [Next]_vars
             PROVE  Document!Next \/ UNCHANGED Document!vars
  OBVIOUS
<1>1. CASE UNCHANGED <<store, log>>
  BY <1>1 DEF Document!vars, Written
<1>2. CASE UNCHANGED log /\ \E c \in Clients : Learns(c)
  BY <1>2, LearningIsLearn DEF Document!Next
<1>3. CASE UNCHANGED log /\ \E c \in Clients : \E edit \in Seq(Operations) : Adds(c, edit)
  BY <1>3, AddingIsWrite DEF Document!Next
<1>4. CASE UNCHANGED clientVars /\ \E operation : Appends(operation)
  BY <1>4, AppendingIsPublish DEF Document!Next
<1> QED
  BY <1>1, <1>2, <1>3, <1>4, EveryStepIsOfAKind DEF StepKinds

\* The protocol implements the abstract document.
THEOREM SharedDocumentImplemented == Spec => ImplementsSharedDocument
BY DocumentInit, DocumentStep, OriginsInvariant, PTL
DEF Spec, ImplementsSharedDocument, Document!Spec

--------------------------------------------------------------------------------
(***************************************************************************)
(* Why a cursor means what it says.                                        *)
(*                                                                         *)
(* A join asks for what follows the stored cursor, so an operation below   *)
(* the cursor that the replica does not have is never sent again.  The     *)
(* argument follows the queue of a client.  Every message in it may claim  *)
(* no more than the replica knows, the messages before it carry, and it    *)
(* carries itself.  Messages are handled in order, hence the claim holds   *)
(* of the replica alone once a message is stored.                          *)
(*                                                                         *)
(* The code breaks the argument in two places: a snapshot sync that is     *)
(* given up (fallbackToFullHistorySync) and a message whose transaction    *)
(* rejects (enqueueInbound) leave the queue unstored, and later messages   *)
(* of the socket still move the cursor.  The theorems are about behaviours *)
(* without those two steps; crashes, reloads, restarts, lost connections   *)
(* and resent operations are all allowed.                                  *)
(***************************************************************************)

\* No message leaves the queue before it is stored.
EveryMessageStored ==
  \A c \in Clients : /\ ~FallBackToFullHistory(c)
                     /\ ~(Applying(c) /\ HandlerFails(c))

\* The operations a message brings.
Carried(message) ==
  IF message.type = "error" THEN {}
  ELSE OperationsOf(message.batch) \cup message.snapshot

\* Every message of a queue is preceded by, or brings, what it confirms.
Claimed(rows, known, queue) ==
  \A i \in 1..Len(queue) : \A row \in rows :
    row.serverSeq <= queue[i].confirmedThrough =>
      \/ row.operation \in known
      \/ \E j \in 1..i : row.operation \in Carried(queue[j])

\* Whatever is not known is on its way.
Coming(rows, known, queue) ==
  \A row \in rows :
    \/ row.operation \in known
    \/ \E j \in 1..Len(queue) : row.operation \in Carried(queue[j])

\* The cursor of a store covers no more than the store has.
Covered(rows, s) ==
  \A row \in rows : row.serverSeq <= s.lastServerSeq => row.operation \in Known(s)

Joined(c) == SocketOpen(c) /\ session[Socket(c)] = "joined"

\* The message at the head of the queue has been stored.
Stored == {"applied", "flush", "refresh"}

KeepsUp(c) ==
  /\ Covered(Rows, store[c])
  /\ Claimed(Rows, Known(store[c]), Queue(c))
  /\ Joined(c) => Coming(Rows, Known(store[c]), Queue(c))
  /\ handler[c] \in Stored => Carried(Message(c)) \subseteq Known(store[c])

AllKeepUp == \A c \in Clients : KeepsUp(c)

\* Client messages whose join, if they are one, starts at a cursor or before it.
JoinsUpTo(cursor) ==
  {message \in ClientMessages :
     message.type = "join" => message.lastServerSeq <= cursor}

\* A join on its way is not ahead of its sender's store.
JoinsBehind ==
  \A c \in Clients : \A n \in 1..Sockets :
    up[<<c, n>>] \in Seq(JoinsUpTo(store[c].lastServerSeq))

\* Nothing is on its way on a connection that is not open.
ClosedIsSilent == \A k \in Connections : link[k] # "open" => down[k] = <<>>

\* The inductive invariant, relative to IInv and Provenance.
CatchUp ==
  /\ AllKeepUp
  /\ JoinsBehind
  /\ ClosedIsSilent

--------------------------------------------------------------------------------
(* Claims and queues.                                                      *)

\* A queue that is cut short, and a replica that learns more, keep the claims.
LEMMA ClaimedCut ==
  ASSUME NEW rows, NEW known, NEW more, known \subseteq more,
         NEW queue, NEW cut, Len(queue) \in Nat, Len(cut) \in Nat,
         Len(cut) <= Len(queue), \A i \in 1..Len(cut) : cut[i] = queue[i],
         Claimed(rows, known, queue)
  PROVE  Claimed(rows, more, cut)
<1> SUFFICES ASSUME NEW i \in 1..Len(cut), NEW row \in rows,
                    row.serverSeq <= cut[i].confirmedThrough,
                    row.operation \notin known
             PROVE  \E j \in 1..i : row.operation \in Carried(cut[j])
  BY DEF Claimed
<1>1. i \in 1..Len(queue) /\ row.serverSeq <= queue[i].confirmedThrough
  OBVIOUS
<1>2. PICK j \in 1..i : row.operation \in Carried(queue[j])
  BY <1>1 DEF Claimed
<1>3. j \in 1..Len(cut)
  OBVIOUS
<1> QED
  BY <1>2, <1>3

\* Once its operations are known, the first message can go.
LEMMA ClaimedRest ==
  ASSUME NEW rows, NEW known, NEW queue, NEW rest,
         Len(queue) \in Nat \ {0}, Len(rest) = Len(queue) - 1,
         \A i \in 1..Len(rest) : rest[i] = queue[i + 1],
         Carried(queue[1]) \subseteq known
  PROVE  /\ Claimed(rows, known, queue) => Claimed(rows, known, rest)
         /\ Coming(rows, known, queue) => Coming(rows, known, rest)
<1>1. ASSUME Claimed(rows, known, queue), NEW i \in 1..Len(rest), NEW row \in rows,
             row.serverSeq <= rest[i].confirmedThrough, row.operation \notin known
      PROVE  \E j \in 1..i : row.operation \in Carried(rest[j])
  <2>1. i + 1 \in 1..Len(queue) /\ rest[i] = queue[i + 1]
    OBVIOUS
  <2>2. PICK j \in 1..(i + 1) : row.operation \in Carried(queue[j])
    BY <1>1, <2>1 DEF Claimed
  <2>3. j # 1
    BY <1>1, <2>2
  <2>4. j - 1 \in 1..i /\ j - 1 \in 1..Len(rest) /\ (j - 1) + 1 = j
    BY <2>2, <2>3
  <2>5. rest[j - 1] = queue[j]
    BY <2>4
  <2> QED
    BY <2>2, <2>4, <2>5
<1>2. ASSUME Coming(rows, known, queue), NEW row \in rows, row.operation \notin known
      PROVE  \E j \in 1..Len(rest) : row.operation \in Carried(rest[j])
  <2>1. PICK j \in 1..Len(queue) : row.operation \in Carried(queue[j])
    BY <1>2 DEF Coming
  <2>2. j # 1
    BY <1>2, <2>1
  <2>3. j - 1 \in 1..Len(rest) /\ (j - 1) + 1 = j
    BY <2>1, <2>2
  <2>4. rest[j - 1] = queue[j]
    BY <2>3
  <2> QED
    BY <2>1, <2>3, <2>4
<1> QED
  BY <1>1, <1>2 DEF Claimed, Coming

\* A message that brings all that was not coming yet can be added.
LEMMA ClaimedMore ==
  ASSUME NEW rows, NEW known, NEW queue, NEW longer, NEW message,
         Len(queue) \in Nat, Len(longer) = Len(queue) + 1,
         \A i \in 1..Len(queue) : longer[i] = queue[i],
         longer[Len(queue) + 1] = message,
         Claimed(rows, known, queue),
         \A row \in rows : \/ row.operation \in known \cup Carried(message)
                           \/ \E j \in 1..Len(queue) : row.operation \in Carried(queue[j])
  PROVE  /\ Claimed(rows, known, longer)
         /\ Coming(rows, known, longer)
<1>1. ASSUME NEW row \in rows, row.operation \notin known
      PROVE  \E j \in 1..Len(longer) : row.operation \in Carried(longer[j])
  <2>1. CASE row.operation \in Carried(message)
    <3>1. Len(queue) + 1 \in 1..Len(longer)
      OBVIOUS
    <3> QED
      BY <2>1, <3>1
  <2>2. CASE row.operation \notin Carried(message)
    <3>1. PICK j \in 1..Len(queue) : row.operation \in Carried(queue[j])
      BY <1>1, <2>2
    <3>2. j \in 1..Len(longer) /\ longer[j] = queue[j]
      BY <3>1
    <3> QED
      BY <3>1, <3>2
  <2> QED
    BY <2>1, <2>2
<1>2. ASSUME NEW i \in 1..Len(longer), NEW row \in rows,
             row.serverSeq <= longer[i].confirmedThrough, row.operation \notin known
      PROVE  \E j \in 1..i : row.operation \in Carried(longer[j])
  <2>1. CASE i = Len(queue) + 1
    BY <1>1, <1>2, <2>1
  <2>2. CASE i # Len(queue) + 1
    <3>1. i \in 1..Len(queue) /\ longer[i] = queue[i]
      BY <2>2
    <3>2. PICK j \in 1..i : row.operation \in Carried(queue[j])
      BY <1>2, <3>1 DEF Claimed
    <3>3. j \in 1..Len(queue) /\ longer[j] = queue[j]
      BY <3>1, <3>2
    <3> QED
      BY <3>2, <3>3
  <2> QED
    BY <2>1, <2>2
<1> QED
  BY <1>1, <1>2 DEF Claimed, Coming
--------------------------------------------------------------------------------
(* Joins on their way.                                                     *)

\* What is under way to the server after a step, by the stores before it.
StillBehind ==
  \A c \in Clients : \A n \in 1..Sockets :
    up'[<<c, n>>] \in Seq(JoinsUpTo(store[c].lastServerSeq))

\* A client sends a join from its own cursor, or none.
LEMMA SendsBehind ==
  ASSUME TypeOK, JoinsBehind, NEW c \in Clients, Socket(c) \in Connections,
         NEW messages \in Seq(JoinsUpTo(store[c].lastServerSeq)),
         ClientSends(Socket(c), messages)
  PROVE  StillBehind
<1>1. ASSUME NEW d \in Clients, NEW n \in 1..Sockets
      PROVE  up'[<<d, n>>] \in Seq(JoinsUpTo(store[d].lastServerSeq))
  <2>1. /\ up[<<d, n>>] \in Seq(JoinsUpTo(store[d].lastServerSeq))
        /\ <<d, n>> \in Connections
    BY DEF JoinsBehind, Connections
  <2>2. CASE <<d, n>> = Socket(c)
    <3>1. d = c
      BY <2>2 DEF Socket
    <3>2. up[<<d, n>>] \o messages \in Seq(JoinsUpTo(store[d].lastServerSeq))
      BY <2>1, <3>1, ConcatProperties
    <3>3. up'[<<d, n>>] \in {up[<<d, n>>], up[<<d, n>>] \o messages}
      BY <2>1, <2>2 DEF ClientSends, TypeOK
    <3> QED
      BY <2>1, <3>2, <3>3
  <2>3. CASE <<d, n>> # Socket(c)
    <3>1. up'[<<d, n>>] = up[<<d, n>>]
      BY <2>1, <2>3 DEF ClientSends, TypeOK
    <3> QED
      BY <2>1, <3>1
  <2> QED
    BY <2>2, <2>3
<1> QED
  BY <1>1 DEF StillBehind

\* Submitted operations are no joins.
LEMMA SubmitsBehind ==
  ASSUME TypeOK, JoinsBehind, NEW c \in Clients, SocketOpen(c),
         NEW operations \in Seq(Operations),
         ClientSends(Socket(c), SubmitMessages(operations))
  PROVE  StillBehind
<1>1. Len(operations) \in Nat /\ \A i \in 1..Len(operations) : operations[i] \in Operations
  BY LenProperties, ElementOfSeq
<1>2. \A i \in 1..Len(operations) :
        [type |-> "submit-operation", operation |-> operations[i]]
          \in JoinsUpTo(store[c].lastServerSeq)
  BY <1>1 DEF JoinsUpTo, ClientMessages
<1>3. SubmitMessages(operations)
        \in [1..Len(operations) -> JoinsUpTo(store[c].lastServerSeq)]
  BY <1>2 DEF SubmitMessages
<1>4. SubmitMessages(operations) \in Seq(JoinsUpTo(store[c].lastServerSeq))
  BY <1>1, <1>3, SeqDef
<1>5. Socket(c) \in Connections
  BY SocketIsConnection DEF SocketOpen, SocketIs
<1> QED
  BY <1>4, <1>5, SendsBehind

\* The steps of a client leave joins behind.
LEMMA ClientStepsBehind ==
  ASSUME IInv, JoinsBehind, NEW c \in Clients,
         ClientStep(c) \/ UserStep(c) \/ ClientDisturbance(c)
  PROVE  StillBehind
<1>1. CASE UNCHANGED up
  BY <1>1 DEF JoinsBehind, StillBehind
<1>2. CASE Submit(c)
  <2>1. CASE client[c].catchUpComplete /\ SocketOpen(c)
    <3>1. Head(submits[c]) \in Seq(Operations)
      BY <1>2, HeadTailProperties DEF Submit, IInv, TypeOK
    <3>2. ClientSends(Socket(c), SubmitMessages(Head(submits[c])))
      BY <1>2, <2>1 DEF Submit
    <3> QED
      BY <2>1, <3>1, <3>2, SubmitsBehind DEF IInv
  <2>2. CASE ~(client[c].catchUpComplete /\ SocketOpen(c))
    BY <1>1, <1>2, <2>2 DEF Submit
  <2> QED
    BY <2>1, <2>2
<1>3. CASE FlushOutbox(c)
  <2>1. CASE pending[c] # <<>> /\ SocketOpen(c)
    <3>1. pending[c] \in Seq(Operations)
      BY DEF IInv, TypeOK
    <3>2. ClientSends(Socket(c), SubmitMessages(pending[c]))
      BY <1>3, <2>1 DEF FlushOutbox
    <3> QED
      BY <2>1, <3>1, <3>2, SubmitsBehind DEF IInv
  <2>2. CASE ~(pending[c] # <<>> /\ SocketOpen(c))
    <3>1. UNCHANGED up
      BY <1>3, <2>2 DEF FlushOutbox
    <3> QED
      BY <1>1, <3>1
  <2> QED
    BY <2>1, <2>2
<1>4. CASE SendJoin(c)
  <2>1. PICK join \in ClientMessages :
          /\ join.type = "join"
          /\ join.lastServerSeq <= store[c].lastServerSeq
          /\ ClientSends(Socket(c), <<join>>)
    BY <1>4, JoinSent
  <2>2. join \in JoinsUpTo(store[c].lastServerSeq)
    BY <2>1 DEF JoinsUpTo
  <2>3. Socket(c) \in Connections
    BY <1>4, JoinSent, SocketIsConnection DEF IInv, SocketOpen, SocketIs
  <2>4. <<join>> \in Seq(JoinsUpTo(store[c].lastServerSeq))
    BY <2>2
  <2> QED
    BY <2>1, <2>3, <2>4, SendsBehind DEF IInv
<1>5. CASE \/ OpenDocument(c) \/ CloseDocument(c) \/ Edit(c) \/ SocketOpens(c)
           \/ CursorReadAtStart(c) \/ SendJoinFails(c) \/ OnClose(c) \/ Reconnect(c) \/ Suspend(c) \/ Retry(c)
           \/ HandleError(c) \/ BeginSync(c) \/ ApplyOperations(c) \/ InstallSnapshot(c)
           \/ FallBackToFullHistory(c) \/ HandlerFails(c) \/ CaughtUp(c)
           \/ OperationApplied(c) \/ RefreshStatus(c)
  <2>1. UNCHANGED up
    BY <1>5 DEF OpenDocument, CloseDocument, Edit, SocketOpens, CursorReadAtStart,
       SendJoinFails, OnClose,
       Reconnect, Suspend, Retry, HandleError, BeginSync, ApplyOperations,
       InstallSnapshot, FallBackToFullHistory, HandlerFails, CaughtUp,
       OperationApplied, RefreshStatus, transportVars
  <2> QED
    BY <1>1, <2>1
<1> QED
  BY <1>2, <1>3, <1>4, <1>5 DEF ClientStep, UserStep, ClientDisturbance, SocketCloses,
     ConnectionDrops

\* So do the steps of the server: it takes messages, or loses them.
LEMMA ServerStepsBehind ==
  ASSUME IInv, JoinsBehind, NEW k \in Connections, ServerStep(k)
  PROVE  StillBehind
<1> SUFFICES ASSUME NEW c \in Clients, NEW n \in 1..Sockets
             PROVE  up'[<<c, n>>] \in Seq(JoinsUpTo(store[c].lastServerSeq))
  BY DEF StillBehind
<1>1. /\ up[<<c, n>>] \in Seq(JoinsUpTo(store[c].lastServerSeq))
      /\ <<c, n>> \in Connections
  BY DEF JoinsBehind, Connections
<1>2. /\ <<>> \in Seq(JoinsUpTo(store[c].lastServerSeq))
      /\ up[<<c, n>>] # <<>> =>
           Tail(up[<<c, n>>]) \in Seq(JoinsUpTo(store[c].lastServerSeq))
  BY <1>1, EmptySeq, HeadTailProperties
<1>3. \/ ServerTakes(k)
      \/ up' = [up EXCEPT ![k] = <<>>]
  BY DEF ServerStep, ReceiveJoin, AppendSubmitted, ReceiveDuplicate, RejectSubmit,
     ServerSocketClosed
<1>4. \/ up'[<<c, n>>] = up[<<c, n>>]
      \/ up'[<<c, n>>] = <<>>
      \/ up[<<c, n>>] # <<>> /\ up'[<<c, n>>] = Tail(up[<<c, n>>])
  BY <1>1, <1>3 DEF ServerTakes, IInv, TypeOK
<1> QED
  BY <1>1, <1>2, <1>4

\* Stores only move forward, hence joins stay behind them.
LEMMA JoinsStayBehind ==
  ASSUME IInv, Provenance, JoinsBehind, [Next]_vars
  PROVE  JoinsBehind'
<1>1. StillBehind
  <2>1. CASE ServerDisturbance
    <3>1. up' = [k \in Connections |-> <<>>]
      BY <2>1 DEF ServerDisturbance, ServerRestarts
    <3>2. \A c \in Clients : <<>> \in Seq(JoinsUpTo(store[c].lastServerSeq))
      BY EmptySeq
    <3> QED
      BY <3>1, <3>2 DEF StillBehind, Connections
  <2>2. CASE UNCHANGED vars
    BY <2>2 DEF vars, transportVars, JoinsBehind, StillBehind
  <2> QED
    BY <2>1, <2>2, ClientStepsBehind, ServerStepsBehind DEF Next
<1>2. ASSUME NEW c \in Clients, NEW n \in 1..Sockets
      PROVE  up'[<<c, n>>] \in Seq(JoinsUpTo(store'[c].lastServerSeq))
  <2>1. store[c].lastServerSeq <= store'[c].lastServerSeq
    BY StoresGrow DEF StoreGrows
  <2>2. IInv'
    BY NextInvariant
  <2>3. store[c].lastServerSeq \in Nat /\ store'[c].lastServerSeq \in Nat
    BY <2>2 DEF IInv, TypeOK, Stores
  <2>4. JoinsUpTo(store[c].lastServerSeq) \subseteq JoinsUpTo(store'[c].lastServerSeq)
    BY <2>1, <2>3 DEF JoinsUpTo, ClientMessages
  <2>5. up'[<<c, n>>] \in Seq(JoinsUpTo(store[c].lastServerSeq))
    BY <1>1 DEF StillBehind
  <2> QED
    BY <2>4, <2>5, SeqMonotonic
<1> QED
  BY <1>2 DEF JoinsBehind, JoinsUpTo
--------------------------------------------------------------------------------
(* What steps do to queues.                                                *)

\* The socket and the queue of a client are its own.
LEMMA SameQueue ==
  ASSUME NEW c \in Clients,
         client'[c].socket = client[c].socket,
         inbound'[c] = inbound[c],
         client[c].socket # 0 => /\ link'[Socket(c)] = link[Socket(c)]
                                 /\ down'[Socket(c)] = down[Socket(c)]
  PROVE  /\ Socket(c)' = Socket(c)
         /\ SocketOpen(c)' = SocketOpen(c)
         /\ Queue(c)' = Queue(c)
BY DEF Socket, SocketOpen, SocketIs, Queue

\* A client keeps up while its store and its queue stay as they are.
LEMMA StillKeepsUp ==
  ASSUME NEW c \in Clients, KeepsUp(c), UNCHANGED log,
         store'[c] = store[c],
         Queue(c)' = Queue(c),
         Joined(c)' => Joined(c),
         handler'[c] \in Stored => handler[c] \in Stored
  PROVE  KeepsUp(c)'
<1>1. Rows' = Rows /\ Message(c)' = Message(c)
  BY DEF Rows, Message
<1> QED
  BY <1>1 DEF KeepsUp

\* A step of client c that the others do not notice.
Unnoticed(c) ==
  /\ UNCHANGED log
  /\ \A d \in Clients \ {c} :
       /\ store'[d] = store[d]
       /\ client'[d] = client[d]
       /\ inbound'[d] = inbound[d]
       /\ handler'[d] = handler[d]
       /\ \A n \in 1..Sockets :
            /\ link'[<<d, n>>] = link[<<d, n>>]
            /\ session'[<<d, n>>] = session[<<d, n>>]
            /\ down'[<<d, n>>] = down[<<d, n>>]

\* They keep up.
LEMMA OthersKeepUp ==
  ASSUME TypeOK, AllKeepUp, NEW c \in Clients, Unnoticed(c), KeepsUp(c)'
  PROVE  AllKeepUp'
<1>1. ASSUME NEW d \in Clients, d # c PROVE KeepsUp(d)'
  <2>1. client[d].socket \in 0..Sockets
    BY DEF TypeOK, ClientStates
  <2>2. client[d].socket # 0 =>
          /\ link'[Socket(d)] = link[Socket(d)]
          /\ session'[Socket(d)] = session[Socket(d)]
          /\ down'[Socket(d)] = down[Socket(d)]
    BY <1>1, <2>1, SocketsAssumption DEF Unnoticed, Socket
  <2>3. /\ store'[d] = store[d]
        /\ client'[d] = client[d]
        /\ inbound'[d] = inbound[d]
        /\ handler'[d] = handler[d]
    BY <1>1 DEF Unnoticed
  <2>4. /\ Socket(d)' = Socket(d)
        /\ SocketOpen(d)' = SocketOpen(d)
        /\ Queue(d)' = Queue(d)
    BY <2>2, <2>3, SameQueue
  <2>5. Joined(d)' => Joined(d)
    BY <2>2, <2>4 DEF Joined, SocketOpen, SocketIs
  <2> QED
    BY <2>3, <2>4, <2>5, StillKeepsUp DEF AllKeepUp, Unnoticed
<1> QED
  BY <1>1 DEF AllKeepUp

--------------------------------------------------------------------------------
(* What a step of a client does to its queue.                              *)

Alone(c) ==
  \A d \in Clients \ {c} : client'[d] = client[d] /\ handler'[d] = handler[d]

KeepsSocket(c) == Alone(c) /\ client'[c].socket = client[c].socket

\* Nothing; the handler does not come to rely on the message being stored.
Waits(c) ==
  /\ KeepsSocket(c)
  /\ handler'[c] \in Stored => handler[c] \in Stored
  /\ UNCHANGED <<link, session, down, store, inbound>>

\* connect() takes a closed slot.
Connects(c) ==
  /\ Alone(c)
  /\ client[c].socket = 0
  /\ \E n \in 1..Sockets : /\ link[<<c, n>>] = "closed"
                           /\ link' = [link EXCEPT ![<<c, n>>] = "connecting"]
                           /\ client'[c].socket = n
  /\ UNCHANGED <<down, session, store, inbound, handler>>

\* The open event.
Opens(c) ==
  /\ KeepsSocket(c)
  /\ SocketIs(c, "connecting")
  /\ link' = [link EXCEPT ![Socket(c)] = "open"]
  /\ session' = [session EXCEPT ![Socket(c)] = "connected"]
  /\ UNCHANGED <<down, store, inbound, handler>>

\* The connection ends, or the document is left.
Ends(c) ==
  /\ Alone(c)
  /\ SocketEnds(c, "closed")
  /\ client'[c].socket = 0
  /\ \/ /\ \E queue \in QueuesAtSocketEnd(c) : inbound' = [inbound EXCEPT ![c] = queue]
        /\ handler' = handler
     \/ /\ inbound' = [inbound EXCEPT ![c] = <<>>]
        /\ handler'[c] = "idle"
  /\ UNCHANGED <<session, store>>

\* A stored message, or an error, leaves the queue.
Handles(c) ==
  /\ KeepsSocket(c)
  /\ HasMessage(c)
  /\ MessageHandled(c)
  /\ Carried(Message(c)) \subseteq Known(store[c])
  /\ UNCHANGED <<link, session, store>>

\* The store is written, by an edit or with what the first message brings.
Writes(c) ==
  /\ KeepsSocket(c)
  /\ \E new \in Stores :
       /\ store' = [store EXCEPT ![c] = new]
       /\ Known(store[c]) \subseteq Known(new)
       /\ \/ /\ new.lastServerSeq = store[c].lastServerSeq
             /\ handler' = handler
          \/ /\ HasMessage(c)
             /\ Carried(Message(c)) \subseteq Known(new)
             /\ new.lastServerSeq \in {store[c].lastServerSeq, Message(c).confirmedThrough}
  /\ UNCHANGED <<link, session, down, inbound>>

QueueStep(c) ==
  \/ Waits(c) \/ Connects(c) \/ Opens(c) \/ Ends(c) \/ Handles(c) \/ Writes(c)

\* None of it is noticed by the other clients.
LEMMA QueueStepUnnoticed ==
  ASSUME IInv, NEW c \in Clients, QueueStep(c), UNCHANGED log
  PROVE  Unnoticed(c)
<1> USE DEF Unnoticed, Alone, KeepsSocket, IInv, TypeOK, Connections
<1>1. CASE Waits(c)
  BY <1>1 DEF Waits
<1>2. CASE Connects(c)
  BY <1>2 DEF Connects
<1>3. CASE Opens(c)
  BY <1>3 DEF Opens, Socket
<1>4. CASE Ends(c)
  <2>1. \A d \in Clients \ {c} : \A n \in 1..Sockets :
          /\ link'[<<d, n>>] = link[<<d, n>>]
          /\ down'[<<d, n>>] = down[<<d, n>>]
    BY <1>4, SocketEndsStep DEF Ends, LinkStates
  <2>2. \A d \in Clients \ {c} : inbound'[d] = inbound[d] /\ handler'[d] = handler[d]
    BY <1>4 DEF Ends
  <2> QED
    BY <1>4, <2>1, <2>2 DEF Ends
<1>5. CASE Handles(c)
  BY <1>5 DEF Handles, MessageHandled, Socket
<1>6. CASE Writes(c)
  BY <1>6 DEF Writes
<1> QED
  BY <1>1, <1>2, <1>3, <1>4, <1>5, <1>6 DEF QueueStep

\* Connections that are not open stay silent.
LEMMA QueueStepSilent ==
  ASSUME IInv, ClosedIsSilent, NEW c \in Clients, QueueStep(c)
  PROVE  ClosedIsSilent'
<1> USE DEF ClosedIsSilent, IInv, TypeOK
<1>1. CASE Waits(c)
  BY <1>1 DEF Waits
<1>2. CASE Connects(c)
  <2>1. PICK n \in 1..Sockets : /\ link[<<c, n>>] = "closed"
                                /\ link' = [link EXCEPT ![<<c, n>>] = "connecting"]
    BY <1>2 DEF Connects
  <2>2. <<c, n>> \in Connections /\ UNCHANGED down
    BY <1>2 DEF Connects, Connections
  <2> QED
    BY <2>1, <2>2
<1>3. CASE Opens(c)
  BY <1>3 DEF Opens
<1>4. CASE Ends(c)
  BY <1>4 DEF Ends, SocketEnds
<1>5. CASE Handles(c)
  <2>1. UNCHANGED link
    BY <1>5 DEF Handles
  <2>2. CASE inbound[c] # <<>>
    BY <1>5, <2>1, <2>2 DEF Handles, MessageHandled
  <2>3. CASE inbound[c] = <<>>
    <3>1. SocketOpen(c) /\ down' = [down EXCEPT ![Socket(c)] = Tail(@)]
      BY <1>5, <2>3 DEF Handles, MessageHandled, HasMessage
    <3>2. link[Socket(c)] = "open"
      BY <3>1 DEF SocketOpen, SocketIs
    <3> QED
      BY <2>1, <3>1, <3>2
  <2> QED
    BY <2>2, <2>3
<1>6. CASE Writes(c)
  BY <1>6 DEF Writes
<1> QED
  BY <1>1, <1>2, <1>3, <1>4, <1>5, <1>6 DEF QueueStep

\* A client that waits keeps up.
LEMMA WaitingKeepsUp ==
  ASSUME IInv, ClosedIsSilent, NEW c \in Clients, KeepsUp(c), UNCHANGED log,
         Waits(c) \/ Connects(c) \/ Opens(c)
  PROVE  KeepsUp(c)'
<1>1. store' = store /\ inbound' = inbound /\ down' = down
  BY DEF Waits, Connects, Opens
<1>2. CASE Waits(c)
  <2>1. /\ Socket(c)' = Socket(c)
        /\ SocketOpen(c)' = SocketOpen(c)
        /\ Queue(c)' = Queue(c)
    BY <1>2, SameQueue DEF Waits, KeepsSocket
  <2>2. Joined(c)' => Joined(c)
    BY <1>2, <2>1 DEF Joined, Waits
  <2> QED
    BY <1>1, <1>2, <2>1, <2>2, StillKeepsUp DEF Waits
<1>3. CASE Connects(c)
  <2>1. PICK n \in 1..Sockets : /\ link' = [link EXCEPT ![<<c, n>>] = "connecting"]
                                /\ client'[c].socket = n
    BY <1>3 DEF Connects
  <2>2. link'[Socket(c)'] = "connecting"
    BY <2>1 DEF Socket, IInv, TypeOK, Connections
  <2>3. ~SocketOpen(c) /\ ~SocketOpen(c)'
    BY <1>3, <2>2 DEF Connects, SocketOpen, SocketIs
  <2>4. Queue(c)' = Queue(c)
    BY <1>1, <2>3 DEF Queue
  <2> QED
    BY <1>1, <1>3, <2>3, <2>4, StillKeepsUp DEF Connects, Joined
<1>4. CASE Opens(c)
  <2>1. /\ client[c].socket # 0 /\ link[Socket(c)] = "connecting"
        /\ client'[c].socket = client[c].socket
    BY <1>4 DEF Opens, SocketIs, KeepsSocket
  <2>2. Socket(c) \in Connections /\ Socket(c)' = Socket(c)
    BY <2>1, SocketIsConnection DEF IInv, Socket
  <2>3. down[Socket(c)] = <<>> /\ ~SocketOpen(c)
    BY <2>1, <2>2 DEF ClosedIsSilent, SocketOpen, SocketIs
  <2>4. Queue(c)' = Queue(c)
    BY <1>1, <2>2, <2>3 DEF Queue
  <2>5. session'[Socket(c)] = "connected"
    BY <1>4, <2>2 DEF Opens, IInv, TypeOK
  <2>6. ~Joined(c)'
    BY <2>2, <2>5 DEF Joined
  <2> QED
    BY <1>1, <1>4, <2>4, <2>6, StillKeepsUp DEF Opens
<1> QED
  BY <1>2, <1>3, <1>4

\* The tail of a concatenation whose first part is not empty.
LEMMA TailOfConcat ==
  ASSUME NEW S, NEW s \in Seq(S), NEW t \in Seq(S), s # <<>>
  PROVE  Tail(s \o t) = Tail(s) \o t
<1>1. /\ s \o t \in Seq(S)
      /\ Len(s \o t) = Len(s) + Len(t)
      /\ \A i \in 1..Len(s) + Len(t) :
           (s \o t)[i] = IF i <= Len(s) THEN s[i] ELSE t[i - Len(s)]
  BY ConcatProperties
<1>2. Len(s) \in Nat \ {0} /\ Len(t) \in Nat
  BY EmptySeq, LenProperties
<1>3. s \o t # <<>>
  BY ConcatEqualIffEmpty
<1>4. /\ Tail(s \o t) \in Seq(S)
      /\ Len(Tail(s \o t)) = Len(s \o t) - 1
      /\ \A i \in 1..Len(Tail(s \o t)) : Tail(s \o t)[i] = (s \o t)[i + 1]
  BY <1>1, <1>3, HeadTailProperties
<1>5. /\ Tail(s) \in Seq(S)
      /\ Len(Tail(s)) = Len(s) - 1
      /\ \A i \in 1..Len(Tail(s)) : Tail(s)[i] = s[i + 1]
  BY HeadTailProperties
<1>6. /\ Tail(s) \o t \in Seq(S)
      /\ Len(Tail(s) \o t) = Len(Tail(s)) + Len(t)
      /\ \A i \in 1..Len(Tail(s)) + Len(t) :
           (Tail(s) \o t)[i] =
             IF i <= Len(Tail(s)) THEN Tail(s)[i] ELSE t[i - Len(Tail(s))]
  BY <1>5, ConcatProperties
<1>7. Len(Tail(s \o t)) = Len(Tail(s) \o t)
  BY <1>1, <1>2, <1>4, <1>5, <1>6
<1>8. ASSUME NEW i \in 1..Len(Tail(s \o t)) PROVE Tail(s \o t)[i] = (Tail(s) \o t)[i]
  <2>1. /\ i + 1 \in 1..Len(s) + Len(t)
        /\ i \in 1..Len(Tail(s)) + Len(t)
    BY <1>1, <1>2, <1>4, <1>5
  <2>2. CASE i + 1 <= Len(s)
    <3>1. i \in 1..Len(Tail(s)) /\ i <= Len(Tail(s))
      BY <1>2, <1>5, <2>1, <2>2
    <3> QED
      BY <1>1, <1>4, <1>5, <1>6, <2>1, <2>2, <3>1
  <2>3. CASE ~(i + 1 <= Len(s))
    <3>1. ~(i <= Len(Tail(s))) /\ (i + 1) - Len(s) = i - Len(Tail(s))
      BY <1>2, <1>5, <2>1, <2>3
    <3> QED
      BY <1>1, <1>4, <1>6, <2>1, <2>3, <3>1
  <2> QED
    BY <2>2, <2>3
<1> QED
  BY <1>4, <1>6, <1>7, <1>8, SeqEqual

\* The queue of a client by its parts.
LEMMA QueueParts ==
  ASSUME IInv, NEW c \in Clients
  PROVE  /\ Queue(c) \in Seq(Evidence)
         /\ inbound[c] \in Seq(Evidence)
         /\ SocketOpen(c) => /\ Socket(c) \in Connections
                             /\ down[Socket(c)] \in Seq(Evidence)
                             /\ Queue(c) = inbound[c] \o down[Socket(c)]
         /\ ~SocketOpen(c) => Queue(c) = inbound[c]
<1>1. Queue(c) \in Seq(Evidence) /\ inbound[c] \in Seq(Evidence)
  BY QueueIsEvidence DEF IInv, InFlight
<1>2. ASSUME SocketOpen(c)
      PROVE  /\ Socket(c) \in Connections
             /\ down[Socket(c)] \in Seq(Evidence)
             /\ Queue(c) = inbound[c] \o down[Socket(c)]
  BY <1>2, SocketIsConnection DEF IInv, InFlight, SocketOpen, SocketIs, Queue
<1>3. ASSUME ~SocketOpen(c) PROVE Queue(c) = inbound[c]
  BY <1>1, <1>3, ConcatEmptySeq DEF Queue
<1> QED
  BY <1>1, <1>2, <1>3

\* When the connection ends, what is left of the queue is its beginning.
LEMMA QueueCut ==
  ASSUME IInv, NEW c \in Clients, NEW queue \in QueuesAtSocketEnd(c)
  PROVE  /\ queue \in Seq(Evidence)
         /\ Len(queue) <= Len(Queue(c))
         /\ \A i \in 1..Len(queue) : queue[i] = Queue(c)[i]
<1>1. queue \in Seq(Evidence) /\ inbound[c] \in Seq(Evidence)
  BY QueueAtSocketEnd, QueueParts DEF IInv
<1>2. CASE ~SocketOpen(c)
  <2>1. queue = Queue(c)
    BY <1>2, QueueParts DEF QueuesAtSocketEnd
  <2> QED
    BY <1>1, <2>1, LenProperties
<1>3. CASE SocketOpen(c)
  <2> DEFINE wire == down[Socket(c)]
  <2>1. wire \in Seq(Evidence) /\ Queue(c) = inbound[c] \o wire
    BY <1>3, QueueParts
  <2>2. PICK received \in 0..Len(wire) :
          queue = inbound[c] \o SubSeq(wire, 1, received)
    BY <1>3 DEF QueuesAtSocketEnd
  <2> HIDE DEF wire
  <2>3. Len(wire) \in Nat /\ \A i \in 1..Len(wire) : wire[i] \in Evidence
    BY <2>1, LenProperties, ElementOfSeq
  <2>4. /\ received \in Nat /\ received <= Len(wire)
        /\ 1 \in Int /\ received \in Int
        /\ \A i \in 1..received : wire[i] \in Evidence
    BY <2>2, <2>3
  <2> DEFINE part == SubSeq(wire, 1, received)
  <2>5. queue = inbound[c] \o part
    BY <2>2
  <2>6. /\ part \in Seq(Evidence)
        /\ Len(part) = IF 1 <= received THEN received - 1 + 1 ELSE 0
        /\ \A i \in 1..received - 1 + 1 : part[i] = wire[1 + i - 1]
    BY <2>4, SubSeqProperties
  <2> HIDE DEF part
  <2>7. Len(part) = received
    BY <2>4, <2>6
  <2>8. \A i \in 1..received : part[i] = wire[i]
    BY <2>4, <2>6
  <2>9. /\ Len(queue) = Len(inbound[c]) + received
        /\ \A i \in 1..Len(inbound[c]) + received :
             queue[i] = IF i <= Len(inbound[c]) THEN inbound[c][i]
                                                ELSE part[i - Len(inbound[c])]
    BY <1>1, <2>5, <2>6, <2>7, ConcatProperties
  <2>10. /\ Len(Queue(c)) = Len(inbound[c]) + Len(wire)
        /\ \A i \in 1..Len(inbound[c]) + Len(wire) :
             Queue(c)[i] = IF i <= Len(inbound[c]) THEN inbound[c][i]
                                                   ELSE wire[i - Len(inbound[c])]
    BY <1>1, <2>1, ConcatProperties
  <2>11. Len(inbound[c]) \in Nat
    BY <1>1, LenProperties
  <2>12. ASSUME NEW i \in 1..Len(queue) PROVE queue[i] = Queue(c)[i]
    <3>1. i \in 1..Len(inbound[c]) + received /\ i \in 1..Len(inbound[c]) + Len(wire)
      BY <2>3, <2>4, <2>9, <2>11
    <3>2. CASE i <= Len(inbound[c])
      BY <2>9, <2>10, <3>1, <3>2
    <3>3. CASE ~(i <= Len(inbound[c]))
      <4>1. i - Len(inbound[c]) \in 1..received
        BY <2>4, <2>11, <3>1, <3>3
      <4> QED
        BY <2>8, <2>9, <2>10, <3>1, <3>3, <4>1
    <3> QED
      BY <3>2, <3>3
  <2>13. Len(queue) <= Len(Queue(c))
    BY <2>3, <2>4, <2>9, <2>10, <2>11
  <2> QED
    BY <1>1, <2>12, <2>13
<1> QED
  BY <1>2, <1>3

\* A client whose connection ends keeps up: it expects nothing any more.
LEMMA EndingKeepsUp ==
  ASSUME IInv, IInv', NEW c \in Clients, KeepsUp(c), UNCHANGED log, Ends(c)
  PROVE  KeepsUp(c)'
<1>1. store'[c] = store[c] /\ Rows' = Rows /\ client'[c].socket = 0
  BY DEF Ends, Rows
<1>2. ~SocketOpen(c)'
  BY <1>1 DEF SocketOpen, SocketIs
<1>3. Queue(c)' = inbound'[c] \o <<>>
  BY <1>2 DEF Queue
<1>4. /\ inbound'[c] \in Seq(ServerMessages)
      /\ Queue(c)' = inbound'[c]
  <2>1. inbound'[c] \in Seq(ServerMessages)
    BY DEF IInv, TypeOK
  <2> QED
    BY <1>3, <2>1, ConcatEmptySeq
<1>5. Queue(c) \in Seq(Evidence)
  BY QueueParts
<1>6. Len(Queue(c)) \in Nat /\ Len(Queue(c)') \in Nat
  BY <1>4, <1>5, LenProperties
<1>7. /\ Len(Queue(c)') <= Len(Queue(c))
      /\ \A i \in 1..Len(Queue(c)') : Queue(c)'[i] = Queue(c)[i]
      /\ handler'[c] \in Stored => handler'[c] = handler[c] /\ Queue(c)' # <<>>
  <2>1. CASE inbound' = [inbound EXCEPT ![c] = <<>>] /\ handler'[c] = "idle"
    <3>1. Queue(c)' = <<>>
      BY <1>4, <2>1 DEF IInv, TypeOK
    <3>2. Len(Queue(c)') = 0
      BY <3>1, EmptySeq
    <3> QED
      BY <1>6, <2>1, <3>2 DEF Stored
  <2>2. CASE /\ \E queue \in QueuesAtSocketEnd(c) : inbound' = [inbound EXCEPT ![c] = queue]
             /\ handler' = handler
    <3>1. PICK queue \in QueuesAtSocketEnd(c) : inbound' = [inbound EXCEPT ![c] = queue]
      BY <2>2
    <3>2. Queue(c)' = queue
      BY <1>4, <3>1 DEF IInv, TypeOK
    <3>3. handler[c] \in Stored => queue # <<>>
      BY QueueAtSocketEnd DEF IInv, Stored
    <3> QED
      BY <2>2, <3>2, <3>3, QueueCut
  <2> QED
    BY <2>1, <2>2 DEF Ends
<1>8. Claimed(Rows, Known(store[c]), Queue(c)')
  BY <1>6, <1>7, ClaimedCut DEF KeepsUp
<1>9. ASSUME handler'[c] \in Stored PROVE Message(c)' = Message(c)
  <2>1. handler[c] \in Stored /\ Queue(c)' # <<>>
    BY <1>7, <1>9
  <2>2. Len(Queue(c)') \in Nat \ {0}
    BY <1>4, <2>1, EmptySeq
  <2>3. 1 \in 1..Len(Queue(c)')
    BY <2>2
  <2>4. Queue(c)'[1] = Queue(c)[1]
    BY <1>7, <2>3
  <2> QED
    BY <2>4 DEF Message
<1> QED
  BY <1>1, <1>2, <1>7, <1>8, <1>9 DEF KeepsUp, Joined

\* A message that is handled leaves the rest of the queue.
LEMMA QueueRest ==
  ASSUME IInv, NEW c \in Clients, HasMessage(c), MessageHandled(c), UNCHANGED link,
         client'[c].socket = client[c].socket
  PROVE  /\ Socket(c)' = Socket(c)
         /\ SocketOpen(c)' = SocketOpen(c)
         /\ Len(Queue(c)) \in Nat \ {0}
         /\ Len(Queue(c)') = Len(Queue(c)) - 1
         /\ \A i \in 1..Len(Queue(c)') : Queue(c)'[i] = Queue(c)[i + 1]
<1>1. Socket(c)' = Socket(c) /\ SocketOpen(c)' = SocketOpen(c)
  BY DEF Socket, SocketOpen, SocketIs
<1>2. /\ Queue(c) \in Seq(Evidence)
      /\ Queue(c) # <<>>
  BY QueueIsEvidence DEF IInv
<1>3. Len(Queue(c)) \in Nat \ {0}
  BY <1>2, EmptySeq
<1>4. Queue(c)' = Tail(Queue(c))
  <2>1. CASE inbound[c] # <<>>
    <3>1. /\ inbound'[c] = Tail(inbound[c]) /\ down' = down
      BY <2>1 DEF MessageHandled, IInv, TypeOK
    <3>2. Tail(inbound[c]) \in Seq(Evidence) /\ inbound[c] \in Seq(Evidence)
      BY <2>1, QueueParts, HeadTailProperties
    <3>3. CASE SocketOpen(c)
      <4> DEFINE wire == down[Socket(c)]
      <4>1. wire \in Seq(Evidence) /\ Queue(c) = inbound[c] \o wire
        BY <3>3, QueueParts
      <4>2. Queue(c)' = Tail(inbound[c]) \o wire
        BY <1>1, <3>1, <3>3 DEF Queue
      <4> HIDE DEF wire
      <4> QED
        BY <2>1, <3>2, <4>1, <4>2, TailOfConcat
    <3>4. CASE ~SocketOpen(c)
      <4>1. Queue(c)' = Tail(inbound[c]) \o <<>>
        BY <1>1, <3>1, <3>4 DEF Queue
      <4>2. Queue(c) = inbound[c]
        BY <3>4, QueueParts
      <4> QED
        BY <3>2, <4>1, <4>2, ConcatEmptySeq
    <3> QED
      BY <3>3, <3>4
  <2>2. CASE inbound[c] = <<>>
    <3>1. SocketOpen(c) /\ down[Socket(c)] # <<>>
      BY <2>2 DEF HasMessage
    <3> DEFINE wire == down[Socket(c)]
    <3>2. /\ Socket(c) \in Connections
          /\ wire \in Seq(Evidence)
          /\ Queue(c) = <<>> \o wire
      BY <2>2, <3>1, QueueParts
    <3>3. inbound'[c] = <<>> /\ down'[Socket(c)] = Tail(wire)
      BY <2>2, <3>2 DEF MessageHandled, IInv, TypeOK
    <3>4. Queue(c)' = <<>> \o Tail(wire)
      BY <1>1, <3>1, <3>3 DEF Queue
    <3>5. Tail(wire) \in Seq(Evidence)
      BY <3>1, <3>2, HeadTailProperties
    <3> HIDE DEF wire
    <3> QED
      BY <3>2, <3>4, <3>5, ConcatEmptySeq
  <2> QED
    BY <2>1, <2>2
<1>5. /\ Len(Tail(Queue(c))) = Len(Queue(c)) - 1
      /\ \A i \in 1..Len(Tail(Queue(c))) : Tail(Queue(c))[i] = Queue(c)[i + 1]
  BY <1>2, HeadTailProperties
<1> QED
  BY <1>1, <1>3, <1>4, <1>5

\* A client keeps up when it lets go of a message it has stored.
LEMMA HandlingKeepsUp ==
  ASSUME IInv, NEW c \in Clients, KeepsUp(c), UNCHANGED log, Handles(c)
  PROVE  KeepsUp(c)'
<1>1. /\ store'[c] = store[c] /\ Rows' = Rows
      /\ HasMessage(c) /\ MessageHandled(c)
      /\ UNCHANGED <<link, session>>
      /\ client'[c].socket = client[c].socket
      /\ Carried(Message(c)) \subseteq Known(store[c])
  BY DEF Handles, KeepsSocket, Rows
<1>2. /\ Socket(c)' = Socket(c)
      /\ SocketOpen(c)' = SocketOpen(c)
      /\ Len(Queue(c)) \in Nat \ {0}
      /\ Len(Queue(c)') = Len(Queue(c)) - 1
      /\ \A i \in 1..Len(Queue(c)') : Queue(c)'[i] = Queue(c)[i + 1]
  BY <1>1, QueueRest
<1>3. Carried(Queue(c)[1]) \subseteq Known(store[c])
  BY <1>1 DEF Message
<1>4. /\ Claimed(Rows, Known(store[c]), Queue(c)')
      /\ Coming(Rows, Known(store[c]), Queue(c)) =>
           Coming(Rows, Known(store[c]), Queue(c)')
  BY <1>2, <1>3, ClaimedRest DEF KeepsUp
<1>5. handler'[c] = "idle"
  BY <1>1 DEF MessageHandled, IInv, TypeOK
<1>6. Joined(c)' => Joined(c)
  BY <1>1, <1>2 DEF Joined
<1> QED
  BY <1>1, <1>4, <1>5, <1>6 DEF KeepsUp, Stored

\* A client that stores its first message knows what the message confirms.
LEMMA WritingKeepsUp ==
  ASSUME IInv, NEW c \in Clients, KeepsUp(c), UNCHANGED log, Writes(c)
  PROVE  KeepsUp(c)'
<1>1. PICK new \in Stores :
        /\ store' = [store EXCEPT ![c] = new]
        /\ Known(store[c]) \subseteq Known(new)
        /\ \/ /\ new.lastServerSeq = store[c].lastServerSeq
              /\ handler' = handler
           \/ /\ HasMessage(c)
              /\ Carried(Message(c)) \subseteq Known(new)
              /\ new.lastServerSeq \in {store[c].lastServerSeq, Message(c).confirmedThrough}
  BY DEF Writes
<1>2. store'[c] = new /\ Rows' = Rows
  BY <1>1 DEF IInv, TypeOK, Rows
<1>3. UNCHANGED <<link, session, down, inbound>> /\ client'[c].socket = client[c].socket
  BY DEF Writes, KeepsSocket
<1>4. /\ Socket(c)' = Socket(c)
      /\ SocketOpen(c)' = SocketOpen(c)
      /\ Queue(c)' = Queue(c)
      /\ Message(c)' = Message(c)
  <2>1. /\ Socket(c)' = Socket(c)
        /\ SocketOpen(c)' = SocketOpen(c)
        /\ Queue(c)' = Queue(c)
    BY <1>3, SameQueue
  <2> QED
    BY <2>1 DEF Message
<1>5. Len(Queue(c)) \in Nat
  BY QueueParts, LenProperties
<1>6. Claimed(Rows, Known(new), Queue(c))
  BY <1>1, <1>5, ClaimedCut DEF KeepsUp
<1>7. Joined(c)' => Coming(Rows, Known(new), Queue(c))
  <2>1. ASSUME Joined(c)' PROVE Coming(Rows, Known(store[c]), Queue(c))
    BY <1>3, <1>4, <2>1 DEF Joined, KeepsUp
  <2> QED
    BY <1>1, <2>1 DEF Coming
<1>8. ASSUME HasMessage(c), Carried(Message(c)) \subseteq Known(new),
             NEW row \in Rows, row.serverSeq <= Message(c).confirmedThrough
      PROVE  row.operation \in Known(new)
  <2>1. Queue(c) \in Seq(Evidence) /\ Queue(c) # <<>>
    BY <1>8, QueueIsEvidence DEF IInv
  <2>2. Len(Queue(c)) \in Nat \ {0}
    BY <2>1, EmptySeq
  <2>3. 1 \in 1..Len(Queue(c)) /\ Message(c) = Queue(c)[1]
    BY <2>2 DEF Message
  <2>4. \/ row.operation \in Known(store[c])
        \/ \E j \in 1..1 : row.operation \in Carried(Queue(c)[j])
    BY <1>8, <2>3 DEF KeepsUp, Claimed
  <2> QED
    BY <1>1, <1>8, <2>3, <2>4
<1>9. Covered(Rows, new)
  BY <1>1, <1>8 DEF Covered, KeepsUp
<1>10. handler'[c] \in Stored => Carried(Message(c)) \subseteq Known(new)
  BY <1>1 DEF KeepsUp
<1> QED
  BY <1>2, <1>4, <1>6, <1>7, <1>9, <1>10 DEF KeepsUp

--------------------------------------------------------------------------------
(* The steps of clients.                                                   *)

\* connect() takes a closed slot, if it does anything.
LEMMA ConnectConnects ==
  ASSUME IInv, NEW c \in Clients, NEW state \in ClientStates,
         state.socket = client[c].socket, Connect(c, state),
         UNCHANGED <<down, session, store, inbound, handler>>
  PROVE  Connects(c)
<1>1. PICK n \in FreeSlots(c) :
        /\ client' = [client EXCEPT ![c] =
                        [state EXCEPT !.socket = n, !.catchUpComplete = FALSE,
                                      !.status = "connecting"]]
        /\ link' = [link EXCEPT ![<<c, n>>] = "connecting"]
  BY DEF Connect
<1>2. client'[c].socket = n /\ Alone(c)
  BY <1>1 DEF IInv, TypeOK, ClientStates, Alone
<1>3. n \in 1..Sockets /\ link[<<c, n>>] = "closed"
  BY DEF FreeSlots
<1> QED
  BY <1>1, <1>2, <1>3 DEF Connect, Connects

\* Opening, leaving and retrying.
LEMMA PageSteps ==
  ASSUME IInv, NEW c \in Clients,
         OpenDocument(c) \/ CloseDocument(c) \/ Reconnect(c) \/ Retry(c)
  PROVE  QueueStep(c)
<1> USE DEF QueueStep
<1>1. client[c] \in ClientStates
  BY DEF IInv, TypeOK
<1>2. CASE OpenDocument(c)
  <2> DEFINE opened == [client[c] EXCEPT !.page = "open"]
  <2>1. opened \in ClientStates /\ opened.socket = client[c].socket
    BY <1>1 DEF ClientStates
  <2>2. CASE client[c].suspended
    BY <1>2, <2>1, <2>2 DEF OpenDocument, Waits, KeepsSocket, Alone, IInv, TypeOK
  <2>3. CASE ~client[c].suspended
    <3>1. Connect(c, opened) /\ UNCHANGED <<down, session, store, inbound, handler>>
      BY <1>2, <2>3 DEF OpenDocument
    <3> HIDE DEF opened
    <3> QED
      BY <2>1, <3>1, ConnectConnects
  <2> QED
    BY <2>2, <2>3
<1>3. CASE CloseDocument(c)
  <2>1. PICK offlineMode \in {FALSE, client[c].suspended} :
          client' = [client EXCEPT ![c] = [NewClient EXCEPT !.suspended = offlineMode]]
    BY <1>3 DEF CloseDocument
  <2>2. client'[c].socket = 0 /\ \A d \in Clients \ {c} : client'[d] = client[d]
    BY <2>1 DEF NewClient, IInv, TypeOK
  <2>3. handler'[c] = "idle" /\ \A d \in Clients \ {c} : handler'[d] = handler[d]
    BY <1>3 DEF CloseDocument, IInv, TypeOK
  <2>4. /\ SocketEnds(c, "closed")
        /\ inbound' = [inbound EXCEPT ![c] = <<>>]
        /\ UNCHANGED <<session, store>>
    BY <1>3 DEF CloseDocument
  <2> QED
    BY <2>2, <2>3, <2>4 DEF Ends, Alone
<1>4. CASE Reconnect(c)
  <2> DEFINE state == [client[c] EXCEPT !.reconnectTimer = FALSE]
  <2>1. state \in ClientStates /\ state.socket = client[c].socket
    BY <1>1 DEF ClientStates
  <2>2. Connect(c, state) /\ UNCHANGED <<down, session, store, inbound, handler>>
    BY <1>4 DEF Reconnect
  <2> HIDE DEF state
  <2> QED
    BY <2>1, <2>2, ConnectConnects
<1>5. CASE Retry(c)
  <2> DEFINE state == [client[c] EXCEPT !.suspended = FALSE, !.reconnectTimer = FALSE]
  <2>1. state \in ClientStates /\ state.socket = client[c].socket
    BY <1>1 DEF ClientStates
  <2>2. CASE client[c].socket # 0
    BY <1>5, <2>1, <2>2 DEF Retry, Waits, KeepsSocket, Alone, IInv, TypeOK
  <2>3. CASE client[c].socket = 0
    <3>1. Connect(c, state) /\ UNCHANGED <<down, session, store, inbound, handler>>
      BY <1>5, <2>3 DEF Retry
    <3> HIDE DEF state
    <3> QED
      BY <2>1, <3>1, ConnectConnects
  <2> QED
    BY <2>2, <2>3
<1> QED
  BY <1>2, <1>3, <1>4, <1>5

\* The life of a connection.
LEMMA SocketSteps ==
  ASSUME IInv, NEW c \in Clients,
         \/ SocketOpens(c) \/ CursorReadAtStart(c) \/ SendJoin(c) \/ SendJoinFails(c)
         \/ OnClose(c) \/ Suspend(c)
  PROVE  QueueStep(c)
<1> USE DEF QueueStep
<1>1. client[c] \in ClientStates
  BY DEF IInv, TypeOK
<1>2. CASE SocketOpens(c)
  <2>1. KeepsSocket(c)
    BY <1>1, <1>2 DEF SocketOpens, KeepsSocket, Alone, IInv, TypeOK, ClientStates
  <2> QED
    BY <1>2, <2>1 DEF SocketOpens, Opens
<1>3. CASE CursorReadAtStart(c) \/ SendJoin(c) \/ SendJoinFails(c)
  <2>1. /\ \E read \in JoinReads : client' = [client EXCEPT ![c].joining = read]
        /\ UNCHANGED <<link, session, down, store, inbound, handler>>
    BY <1>3 DEF CursorReadAtStart, SendJoin, SendJoinFails, JoinReads, transportVars
  <2>2. KeepsSocket(c)
    BY <1>1, <2>1 DEF KeepsSocket, Alone, IInv, TypeOK, ClientStates
  <2> QED
    BY <2>1, <2>2 DEF Waits
<1>4. CASE OnClose(c)
  <2>1. client'[c].socket = 0 /\ Alone(c)
    BY <1>1, <1>4 DEF OnClose, AfterClose, Alone, IInv, TypeOK, ClientStates
  <2> QED
    BY <1>4, <2>1 DEF OnClose, Ends
<1>5. CASE Suspend(c)
  <2>1. client'[c].socket = 0 /\ Alone(c)
    BY <1>1, <1>5 DEF Suspend, Alone, IInv, TypeOK, ClientStates
  <2> QED
    BY <1>5, <2>1 DEF Suspend, Ends
<1> QED
  BY <1>2, <1>3, <1>4, <1>5

\* Editing, and handing an edit on.
LEMMA EditSteps ==
  ASSUME IInv, IInv', NEW c \in Clients, Edit(c) \/ Submit(c)
  PROVE  QueueStep(c)
<1> USE DEF QueueStep
<1>1. CASE Edit(c)
  <2>1. PICK edit \in Seq(Operations) : Adds(c, edit)
    BY <1>1, EditAdds
  <2>2. /\ Known(store[c]) \subseteq Known(store'[c])
        /\ store'[c].lastServerSeq = store[c].lastServerSeq
    BY <2>1 DEF Adds
  <2>3. store' = [store EXCEPT ![c] = store'[c]] /\ store'[c] \in Stores
    BY <2>1 DEF Adds, IInv, TypeOK
  <2>4. UNCHANGED <<link, session, down, client, inbound, handler>>
    BY <1>1 DEF Edit, transportVars
  <2> QED
    BY <2>2, <2>3, <2>4 DEF Writes, KeepsSocket, Alone
<1>2. CASE Submit(c)
  <2>1. /\ client' \in {client, [client EXCEPT ![c].status = "syncing"]}
        /\ UNCHANGED <<link, session, down, store, inbound, handler>>
    BY <1>2 DEF Submit
  <2>2. client'[c].socket = client[c].socket /\ Alone(c)
    BY <2>1 DEF Alone, IInv, TypeOK, ClientStates
  <2> QED
    BY <2>1, <2>2 DEF Waits, KeepsSocket
<1> QED
  BY <1>1, <1>2

\* What a message without a snapshot brings is its batch.
LEMMA NoSnapshot ==
  ASSUME IInv, NEW message \in Evidence, message.snapshotSeq = 0
  PROVE  message.snapshot = {}
<1>1. message.snapshot = PrefixThrough(0)
  BY DEF Evidence
<1>2. Rows \subseteq SequencedOperations
  BY LogFacts DEF IInv, TypeOK
<1>3. \A row \in Rows : ~(row.serverSeq <= 0)
  BY <1>2 DEF SequencedOperations
<1> QED
  BY <1>1, <1>3 DEF PrefixThrough, OperationsOf

\* A transaction stores all that its message brings.
LEMMA StoringSteps ==
  ASSUME IInv, IInv', NEW c \in Clients, ApplyOperations(c) \/ InstallSnapshot(c)
  PROVE  QueueStep(c)
<1> DEFINE old      == store[c]
           message  == Message(c)
           received == OperationsOf(message.batch)
           through  == message.confirmedThrough
<1>1. HasMessage(c)
  BY ApplyingHasMessage DEF ApplyOperations, InstallSnapshot, IInv, HandlerHasMessage
<1>2. message \in Evidence
  BY <1>1, MessageIsEvidence DEF IInv
<1>3. old \in Stores /\ StoreSound(old)
  BY DEF IInv, TypeOK, StoresSound
<1>4. /\ UNCHANGED <<link, session, down, client, inbound>>
      /\ handler' = [handler EXCEPT ![c] = "applied"]
  BY DEF ApplyOperations, InstallSnapshot, transportVars
<1>5. KeepsSocket(c)
  BY <1>4 DEF KeepsSocket, Alone, IInv, TypeOK
<1>6. Carried(message) \subseteq received \cup message.snapshot
  BY DEF Carried
<1>7. store'[c] \in Stores
  BY DEF IInv, TypeOK
<1>8. /\ store' = [store EXCEPT ![c] = store'[c]]
      /\ Known(old) \cup received \cup message.snapshot \subseteq Known(store'[c])
      /\ store'[c].lastServerSeq \in {old.lastServerSeq, through}
  <2>1. CASE ApplyOperations(c)
    <3> DEFINE new == PersistServerOperations(old, message.batch, through)
    <3>1. store' = [store EXCEPT ![c] = new] /\ message.snapshotSeq = 0
      BY <2>1 DEF ApplyOperations
    <3>2. message.snapshot = {}
      BY <1>2, <3>1, NoSnapshot
    <3>3. through \in Nat /\ old.lastServerSeq \in Nat
      BY <1>2, <1>3, BatchFacts DEF Stores
    <3> HIDE DEF old, message, through
    <3>4. Max({old.lastServerSeq, through}) \in {old.lastServerSeq, through}
      BY <3>3, MaxOfTwo
    <3>5. /\ Known(new) = Known(old) \cup received
          /\ new.lastServerSeq = Max({old.lastServerSeq, through})
      BY <1>3 DEF PersistServerOperations, Stores, Known
    <3> HIDE DEF new
    <3>6. store'[c] = new /\ store' = [store EXCEPT ![c] = store'[c]]
      BY <3>1 DEF IInv, TypeOK
    <3> QED
      BY <3>2, <3>4, <3>5, <3>6
  <2>2. CASE InstallSnapshot(c)
    <3> DEFINE new == InstallServerBaseline(old, message.snapshot, message.snapshotSeq,
                                            message.batch, through)
    <3>1. store' = [store EXCEPT ![c] = new] /\ SnapshotEligible(old)
      BY <2>2 DEF InstallSnapshot, SnapshotInstallable
    <3>2. Known(old) = {} /\ old.operations = {}
      BY <1>3, <3>1 DEF SnapshotEligible, StoreSound, Known
    <3> HIDE DEF old, message, through
    <3>3. /\ Known(new) = received \cup message.snapshot
          /\ new.lastServerSeq = through
      BY <1>3, <3>2 DEF InstallServerBaseline, Stores, Known
    <3> HIDE DEF new
    <3>4. store'[c] = new /\ store' = [store EXCEPT ![c] = store'[c]]
      BY <3>1 DEF IInv, TypeOK
    <3> QED
      BY <3>2, <3>3, <3>4
  <2> QED
    BY <2>1, <2>2
<1>9. /\ Known(store[c]) \subseteq Known(store'[c])
      /\ Carried(Message(c)) \subseteq Known(store'[c])
  BY <1>6, <1>8
<1> QED
  BY <1>1, <1>4, <1>5, <1>7, <1>8, <1>9 DEF QueueStep, Writes

\* A message that is done is stored.
LEMMA LettingGo ==
  ASSUME IInv, NEW c \in Clients, KeepsUp(c), handler[c] \in Stored,
         MessageHandled(c), UNCHANGED <<link, session, store>>,
         client'[c].socket = client[c].socket,
         \A d \in Clients \ {c} : client'[d] = client[d]
  PROVE  Handles(c)
<1>1. HasMessage(c)
  BY DEF IInv, HandlerHasMessage, Stored
<1>2. \A d \in Clients \ {c} : handler'[d] = handler[d]
  BY DEF MessageHandled, IInv, TypeOK
<1>3. Carried(Message(c)) \subseteq Known(store[c])
  BY DEF KeepsUp
<1> QED
  BY <1>1, <1>2, <1>3 DEF Handles, KeepsSocket, Alone

\* The handler, once its message is stored.
LEMMA HandlerFinishes ==
  ASSUME IInv, NEW c \in Clients, KeepsUp(c),
         \/ CaughtUp(c) \/ FlushOutbox(c) \/ OperationApplied(c) \/ RefreshStatus(c)
         \/ HandlerFails(c) /\ ~Applying(c)
  PROVE  QueueStep(c)
<1>1. /\ handler[c] \in Stored
      /\ UNCHANGED <<link, session, store>>
  BY DEF CaughtUp, FlushOutbox, OperationApplied, RefreshStatus, HandlerFails, Stored
<1>2. /\ client'[c].socket = client[c].socket
      /\ \A d \in Clients \ {c} : client'[d] = client[d]
  <2>1. client \in [Clients -> ClientStates]
    BY DEF IInv, TypeOK
  <2>2. CASE \E status : client' \in {client, [client EXCEPT ![c].status = status]}
    BY <2>1, <2>2 DEF ClientStates
  <2>3. CASE CaughtUp(c)
    BY <2>1, <2>3 DEF CaughtUp, ClientStates
  <2>4. CASE FlushOutbox(c)
    <3>1. client' \in {client, [client EXCEPT ![c].status = "syncing"]}
      BY <2>4 DEF FlushOutbox
    <3> QED
      BY <2>2, <3>1
  <2>5. CASE OperationApplied(c)
    BY <2>5 DEF OperationApplied
  <2>6. CASE RefreshStatus(c)
    <3>1. \E status : client' = [client EXCEPT ![c].status = status]
      BY <2>6 DEF RefreshStatus
    <3> QED
      BY <2>2, <3>1
  <2>7. CASE HandlerFails(c)
    <3>1. client' = [client EXCEPT ![c].status = "error"]
      BY <2>7 DEF HandlerFails
    <3> QED
      BY <2>2, <3>1
  <2> QED
    BY <2>3, <2>4, <2>5, <2>6, <2>7
<1>3. \/ MessageHandled(c)
      \/ /\ \E step \in {"flush", "refresh"} : handler' = [handler EXCEPT ![c] = step]
         /\ UNCHANGED <<inbound, down>>
  BY DEF CaughtUp, FlushOutbox, OperationApplied, RefreshStatus, HandlerFails,
     ReadForStatus
<1>4. CASE MessageHandled(c)
  BY <1>1, <1>2, <1>4, LettingGo DEF QueueStep
<1>5. CASE /\ \E step \in {"flush", "refresh"} : handler' = [handler EXCEPT ![c] = step]
           /\ UNCHANGED <<inbound, down>>
  <2>1. \A d \in Clients \ {c} : handler'[d] = handler[d]
    BY <1>5 DEF IInv, TypeOK
  <2> QED
    BY <1>1, <1>2, <1>5, <2>1 DEF QueueStep, Waits, KeepsSocket, Alone
<1> QED
  BY <1>3, <1>4, <1>5

\* The handler, before that.
LEMMA MessageBegins ==
  ASSUME IInv, NEW c \in Clients, HandleError(c) \/ BeginSync(c)
  PROVE  QueueStep(c)
<1>1. /\ UNCHANGED <<link, session, store>>
      /\ Queue(c) # <<>>
      /\ handler[c] = "idle"
  BY DEF HandleError, BeginSync, transportVars, AtHead
<1>2. /\ client'[c].socket = client[c].socket
      /\ \A d \in Clients \ {c} : client'[d] = client[d]
  BY DEF HandleError, BeginSync, IInv, TypeOK, ClientStates
<1>3. CASE HandleError(c)
  <2>1. HasMessage(c) /\ MessageHandled(c)
    BY <1>1, <1>3, AtHeadHasMessage DEF HandleError, IInv
  <2>2. Carried(Message(c)) = {}
    BY <1>3 DEF HandleError, AtHead, Carried
  <2>3. \A d \in Clients \ {c} : handler'[d] = handler[d]
    BY <2>1 DEF MessageHandled, IInv, TypeOK
  <2> QED
    BY <1>1, <1>2, <2>1, <2>2, <2>3 DEF QueueStep, Handles, KeepsSocket, Alone
<1>4. CASE BeginSync(c)
  <2>1. /\ handler' = [handler EXCEPT ![c] = "apply"]
        /\ UNCHANGED <<link, session, down, store, inbound>>
    BY <1>4 DEF BeginSync, transportVars
  <2>2. handler'[c] \notin Stored /\ \A d \in Clients \ {c} : handler'[d] = handler[d]
    BY <2>1 DEF IInv, TypeOK, Stored
  <2> QED
    BY <1>2, <2>1, <2>2 DEF QueueStep, Waits, KeepsSocket, Alone
<1> QED
  BY <1>3, <1>4

--------------------------------------------------------------------------------
(* The steps of the server.                                                *)

\* Appending to a concatenation appends to its last part.
LEMMA AppendToConcat ==
  ASSUME NEW S, NEW s \in Seq(S), NEW t \in Seq(S), NEW element \in S
  PROVE  s \o Append(t, element) = Append(s \o t, element)
<1> DEFINE last == <<element>>
<1>1. last \in Seq(S) /\ s \o t \in Seq(S)
  BY ConcatProperties
<1>2. Append(t, element) = t \o last /\ Append(s \o t, element) = (s \o t) \o last
  BY <1>1, AppendIsConcat
<1> HIDE DEF last
<1>3. (s \o t) \o last = s \o (t \o last)
  BY <1>1, ConcatAssociative
<1> QED
  BY <1>2, <1>3

\* What the server sends on the socket of a client ends its queue.
LEMMA ServerTells ==
  ASSUME IInv, NEW c \in Clients, NEW connections, NEW message \in ServerMessages,
         ServerSends(connections, message), UNCHANGED <<client, inbound, link>>
  PROVE  /\ Socket(c)' = Socket(c)
         /\ SocketOpen(c)' = SocketOpen(c)
         /\ IF SocketOpen(c) /\ Socket(c) \in connections
            THEN Queue(c)' = Append(Queue(c), message)
            ELSE Queue(c)' = Queue(c)
<1>1. Socket(c)' = Socket(c) /\ SocketOpen(c)' = SocketOpen(c)
  BY DEF Socket, SocketOpen, SocketIs
<1>2. CASE SocketOpen(c) /\ Socket(c) \in connections
  <2> DEFINE wire == down[Socket(c)]
  <2>1. /\ Socket(c) \in Connections
        /\ Queue(c) = inbound[c] \o wire
        /\ inbound[c] \in Seq(ServerMessages)
        /\ wire \in Seq(ServerMessages)
    BY <1>2, QueueParts DEF IInv, TypeOK
  <2>2. down'[Socket(c)] = Append(wire, message)
    BY <1>2, <2>1 DEF ServerSends, SocketOpen, SocketIs
  <2>3. Queue(c)' = inbound[c] \o Append(wire, message)
    BY <1>1, <1>2, <2>2 DEF Queue
  <2> HIDE DEF wire
  <2> DEFINE first == inbound[c]
  <2>4. first \in Seq(ServerMessages)
    BY <2>1
  <2>5. Queue(c) = first \o wire /\ Queue(c)' = first \o Append(wire, message)
    BY <2>1, <2>3
  <2> HIDE DEF first
  <2>6. first \o Append(wire, message) = Append(first \o wire, message)
    BY <2>1, <2>4, AppendToConcat
  <2> QED
    BY <1>1, <1>2, <2>5, <2>6
<1>3. CASE ~(SocketOpen(c) /\ Socket(c) \in connections)
  <2>1. CASE SocketOpen(c)
    <3>1. Socket(c) \in Connections /\ Socket(c) \notin connections
      BY <1>3, <2>1, QueueParts
    <3>2. down'[Socket(c)] = down[Socket(c)]
      BY <3>1 DEF ServerSends
    <3> QED
      BY <1>1, <1>3, <3>2 DEF Queue
  <2>2. CASE ~SocketOpen(c)
    BY <1>1, <1>3, <2>2 DEF Queue
  <2> QED
    BY <2>1, <2>2
<1> QED
  BY <1>1, <1>2, <1>3

\* A queue with one more message.
LEMMA LongerQueue ==
  ASSUME IInv, NEW c \in Clients, NEW message \in ServerMessages,
         Queue(c)' = Append(Queue(c), message)
  PROVE  /\ Len(Queue(c)) \in Nat
         /\ Len(Queue(c)') = Len(Queue(c)) + 1
         /\ \A i \in 1..Len(Queue(c)) : Queue(c)'[i] = Queue(c)[i]
         /\ Queue(c)'[Len(Queue(c)) + 1] = message
         /\ handler[c] \in Stored => Message(c)' = Message(c)
<1>1. Queue(c) \in Seq(Evidence)
  BY QueueParts
<1>2. Queue(c) \in Seq(ServerMessages)
  BY <1>1, EvidenceIsMessages
<1>3. /\ Len(Queue(c)) \in Nat
      /\ Len(Queue(c)') = Len(Queue(c)) + 1
      /\ \A i \in 1..Len(Queue(c)) : Queue(c)'[i] = Queue(c)[i]
      /\ Queue(c)'[Len(Queue(c)) + 1] = message
  BY <1>2, AppendProperties, LenProperties
<1>4. ASSUME handler[c] \in Stored PROVE Message(c)' = Message(c)
  <2>1. HasMessage(c)
    BY <1>4 DEF IInv, HandlerHasMessage, Stored
  <2>2. Queue(c) # <<>>
    BY <2>1, QueueIsEvidence DEF IInv
  <2>3. Len(Queue(c)) \in Nat \ {0}
    BY <1>1, <2>2, EmptySeq
  <2>4. 1 \in 1..Len(Queue(c))
    BY <2>3
  <2>5. Queue(c)'[1] = Queue(c)[1]
    BY <1>3, <2>4
  <2> QED
    BY <2>5 DEF Message
<1> QED
  BY <1>3, <1>4

\* A client keeps up with a message that completes what it knows and expects.
LEMMA CompletingKeepsUp ==
  ASSUME IInv, NEW c \in Clients, KeepsUp(c), NEW message \in ServerMessages,
         Queue(c)' = Append(Queue(c), message), UNCHANGED <<store, handler>>,
         Covered(Rows', store[c]),
         Claimed(Rows', Known(store[c]), Queue(c)),
         \A row \in Rows' :
           \/ row.operation \in Known(store[c]) \cup Carried(message)
           \/ \E j \in 1..Len(Queue(c)) : row.operation \in Carried(Queue(c)[j])
  PROVE  KeepsUp(c)'
<1>1. /\ Len(Queue(c)) \in Nat
      /\ Len(Queue(c)') = Len(Queue(c)) + 1
      /\ \A i \in 1..Len(Queue(c)) : Queue(c)'[i] = Queue(c)[i]
      /\ Queue(c)'[Len(Queue(c)) + 1] = message
      /\ handler[c] \in Stored => Message(c)' = Message(c)
  BY LongerQueue
<1>2. /\ Claimed(Rows', Known(store[c]), Queue(c)')
      /\ Coming(Rows', Known(store[c]), Queue(c)')
  BY <1>1, ClaimedMore
<1> QED
  BY <1>1, <1>2 DEF KeepsUp

\* A client keeps up with a message that confirms nothing.
LEMMA ErrorKeepsUp ==
  ASSUME IInv, NEW c \in Clients, KeepsUp(c),
         Queue(c)' = Append(Queue(c), ErrorMessage),
         UNCHANGED <<store, handler, log>>, Joined(c)' => Joined(c)
  PROVE  KeepsUp(c)'
<1>1. ErrorMessage \in ServerMessages
  BY DEF ErrorMessage, ServerMessages
<1>2. /\ Len(Queue(c)) \in Nat
      /\ Len(Queue(c)') = Len(Queue(c)) + 1
      /\ \A i \in 1..Len(Queue(c)) : Queue(c)'[i] = Queue(c)[i]
      /\ Queue(c)'[Len(Queue(c)) + 1] = ErrorMessage
      /\ handler[c] \in Stored => Message(c)' = Message(c)
  BY <1>1, LongerQueue
<1>3. \A row \in Rows : ~(row.serverSeq <= ErrorMessage.confirmedThrough)
  <2>1. Rows \subseteq SequencedOperations
    BY LogFacts DEF IInv, TypeOK
  <2> QED
    BY <2>1 DEF SequencedOperations, ErrorMessage
<1>4. ASSUME NEW i \in 1..Len(Queue(c)'), NEW row \in Rows,
             row.serverSeq <= Queue(c)'[i].confirmedThrough,
             row.operation \notin Known(store[c])
      PROVE  \E j \in 1..i : row.operation \in Carried(Queue(c)'[j])
  <2>1. i # Len(Queue(c)) + 1
    BY <1>2, <1>3, <1>4
  <2>2. i \in 1..Len(Queue(c)) /\ Queue(c)'[i] = Queue(c)[i]
    BY <1>2, <2>1
  <2>3. PICK j \in 1..i : row.operation \in Carried(Queue(c)[j])
    BY <1>4, <2>2 DEF KeepsUp, Claimed
  <2>4. Queue(c)'[j] = Queue(c)[j]
    BY <1>2, <2>2
  <2> QED
    BY <2>3, <2>4
<1>5. Claimed(Rows, Known(store[c]), Queue(c)')
  BY <1>4 DEF Claimed
<1>6. ASSUME Coming(Rows, Known(store[c]), Queue(c))
      PROVE  Coming(Rows, Known(store[c]), Queue(c)')
  <2>1. ASSUME NEW row \in Rows, row.operation \notin Known(store[c])
        PROVE  \E j \in 1..Len(Queue(c)') : row.operation \in Carried(Queue(c)'[j])
    <3>1. PICK j \in 1..Len(Queue(c)) : row.operation \in Carried(Queue(c)[j])
      BY <1>6, <2>1 DEF Coming
    <3>2. j \in 1..Len(Queue(c)') /\ Queue(c)'[j] = Queue(c)[j]
      BY <1>2
    <3> QED
      BY <3>1, <3>2
  <2> QED
    BY <2>1 DEF Coming
<1>7. Rows' = Rows
  BY DEF Rows
<1> QED
  BY <1>2, <1>5, <1>6, <1>7 DEF KeepsUp

\* The server sends on open connections only.
LEMMA SendingSilent ==
  ASSUME IInv, ClosedIsSilent, UNCHANGED link,
         \/ UNCHANGED down
         \/ \E connections, message : ServerSends(connections, message)
  PROVE  ClosedIsSilent'
BY DEF ClosedIsSilent, ServerSends

\* The answer to a join brings all that is not below the cursor it names.
LEMMA SyncBringsTheRest ==
  ASSUME TypeOK, snapshotSeq' \in Nat, NEW cursor \in Nat, NEW capable \in BOOLEAN,
         NEW row \in Rows
  PROVE  \/ row.serverSeq <= cursor
         \/ row.operation \in Carried(
              IF capable /\ snapshotSeq' > 0
              THEN SyncMessage(RowsAfter(snapshotSeq'), LatestServerSeq,
                               snapshotSeq', PrefixThrough(snapshotSeq'))
              ELSE SyncMessage(RowsAfter(cursor), LatestServerSeq, 0, {}))
<1>1. row.serverSeq \in Nat
  BY LogFacts DEF TypeOK, SequencedOperations
<1>2. ASSUME NEW seq \in Nat
      PROVE  row.operation \in OperationsOf(RowsAfter(seq)) \/ row.serverSeq <= seq
  BY <1>1 DEF RowsAfter, OperationsOf
<1>3. ASSUME NEW seq \in Nat, row.serverSeq <= seq
      PROVE  row.operation \in PrefixThrough(seq)
  BY <1>3 DEF PrefixThrough, OperationsOf
<1>4. CASE capable /\ snapshotSeq' > 0
  <2> DEFINE sync == SyncMessage(RowsAfter(snapshotSeq'), LatestServerSeq,
                                 snapshotSeq', PrefixThrough(snapshotSeq'))
  <2>1. Carried(sync) = OperationsOf(RowsAfter(snapshotSeq')) \cup PrefixThrough(snapshotSeq')
    BY DEF Carried, SyncMessage
  <2>2. row.operation \in Carried(sync)
    BY <1>2, <1>3, <2>1
  <2> QED
    BY <1>4, <2>2
<1>5. CASE ~(capable /\ snapshotSeq' > 0)
  <2> DEFINE sync == SyncMessage(RowsAfter(cursor), LatestServerSeq, 0, {})
  <2>1. Carried(sync) = OperationsOf(RowsAfter(cursor))
    BY DEF Carried, SyncMessage
  <2>2. row.serverSeq <= cursor \/ row.operation \in Carried(sync)
    BY <1>2, <2>1
  <2> HIDE DEF sync
  <2> QED
    BY <1>5, <2>2 DEF sync
<1> QED
  BY <1>4, <1>5

\* A client keeps up with messages for others.
LEMMA NotToldKeepsUp ==
  ASSUME IInv, NEW c \in Clients, KeepsUp(c),
         NEW connections, NEW message \in ServerMessages,
         ServerSends(connections, message),
         ~(SocketOpen(c) /\ Socket(c) \in connections),
         UNCHANGED <<clientVars, link, log>>,
         SocketOpen(c) => session'[Socket(c)] = session[Socket(c)]
  PROVE  KeepsUp(c)'
<1>1. UNCHANGED <<store, client, inbound, handler>>
  BY DEF clientVars
<1>2. /\ Socket(c)' = Socket(c)
      /\ SocketOpen(c)' = SocketOpen(c)
      /\ Queue(c)' = Queue(c)
  BY <1>1, ServerTells
<1>3. Joined(c)' => Joined(c)
  BY <1>2 DEF Joined
<1> QED
  BY <1>1, <1>2, <1>3, StillKeepsUp

\* A client keeps up with a message that brings it all it misses.
LEMMA ToldAllKeepsUp ==
  ASSUME IInv, NEW c \in Clients, KeepsUp(c),
         NEW connections, NEW message \in ServerMessages,
         ServerSends(connections, message),
         SocketOpen(c), Socket(c) \in connections,
         UNCHANGED <<clientVars, link, log>>,
         \/ Joined(c)
         \/ \A row \in Rows : row.operation \in Known(store[c]) \cup Carried(message)
  PROVE  KeepsUp(c)'
<1>1. UNCHANGED <<store, client, inbound, handler>> /\ Rows' = Rows
  BY DEF clientVars, Rows
<1>2. Queue(c)' = Append(Queue(c), message)
  BY <1>1, ServerTells
<1>3. \A row \in Rows :
        \/ row.operation \in Known(store[c]) \cup Carried(message)
        \/ \E j \in 1..Len(Queue(c)) : row.operation \in Carried(Queue(c)[j])
  <2>1. Joined(c) => Coming(Rows, Known(store[c]), Queue(c))
    BY DEF KeepsUp
  <2> QED
    BY <2>1 DEF Coming
<1>4. Covered(Rows, store[c]) /\ Claimed(Rows, Known(store[c]), Queue(c))
  BY DEF KeepsUp
<1> QED
  BY <1>1, <1>2, <1>3, <1>4, CompletingKeepsUp

\* A client keeps up with an error message.
LEMMA ToldErrorKeepsUp ==
  ASSUME IInv, NEW c \in Clients, KeepsUp(c),
         NEW connections, ServerSends(connections, ErrorMessage),
         UNCHANGED <<clientVars, link, log, session>>
  PROVE  KeepsUp(c)'
<1>1. UNCHANGED <<store, client, inbound, handler>> /\ ErrorMessage \in ServerMessages
  BY DEF clientVars, ErrorMessage, ServerMessages
<1>2. CASE SocketOpen(c) /\ Socket(c) \in connections
  <2>1. /\ Socket(c)' = Socket(c) /\ SocketOpen(c)' = SocketOpen(c)
        /\ Queue(c)' = Append(Queue(c), ErrorMessage)
    BY <1>1, <1>2, ServerTells
  <2>2. Joined(c)' => Joined(c)
    BY <2>1 DEF Joined
  <2> QED
    BY <1>1, <2>1, <2>2, ErrorKeepsUp
<1>3. CASE ~(SocketOpen(c) /\ Socket(c) \in connections)
  BY <1>1, <1>3, NotToldKeepsUp
<1> QED
  BY <1>2, <1>3

\* Clients keep up when one joins.
LEMMA JoinKeepsUp ==
  ASSUME IInv, IInv', JoinsBehind, NEW k \in Connections, ReceiveJoin(k),
         UNCHANGED clientVars, NEW c \in Clients, KeepsUp(c)
  PROVE  KeepsUp(c)'
<1> DEFINE cursor  == Head(up[k]).lastServerSeq
           capable == Head(up[k]).snapshotCapable /\ cursor = 0
           refused == session[k] = "joined" \/ cursor > LatestServerSeq
           sync    == IF capable /\ snapshotSeq' > 0
                      THEN SyncMessage(RowsAfter(snapshotSeq'), LatestServerSeq,
                                       snapshotSeq', PrefixThrough(snapshotSeq'))
                      ELSE SyncMessage(RowsAfter(cursor), LatestServerSeq, 0, {})
<1>1. /\ ServerTakes(k) /\ Head(up[k]).type = "join"
      /\ UNCHANGED <<link, log>>
      /\ refused => ServerSends({k}, ErrorMessage) /\ UNCHANGED session
      /\ ~refused => /\ session' = [session EXCEPT ![k] = "joined"]
                     /\ ServerSends({k}, sync)
  BY DEF ReceiveJoin
<1>2. Head(up[k]) \in ClientMessages
  BY <1>1, ServerTakesTyped DEF IInv, TypeOK
<1>3. cursor \in Nat /\ capable \in BOOLEAN
  BY <1>1, <1>2 DEF ClientMessages
<1>4. snapshotSeq' \in Nat
  BY DEF IInv, TypeOK
<1>5. ASSUME NEW row \in Rows
      PROVE  row.serverSeq <= cursor \/ row.operation \in Carried(sync)
  <2> HIDE DEF cursor, capable
  <2> QED
    BY <1>3, <1>4, SyncBringsTheRest DEF IInv
<1>6. sync \in ServerMessages
  <2>1. /\ LatestServerSeq \in Nat
        /\ Rows \subseteq SequencedOperations
    BY LogFacts DEF IInv, TypeOK
  <2>2. /\ RowsAfter(cursor) \in SUBSET SequencedOperations
        /\ RowsAfter(snapshotSeq') \in SUBSET SequencedOperations
    BY <2>1 DEF RowsAfter
  <2>3. PrefixThrough(snapshotSeq') \in SUBSET Operations
    BY <2>1 DEF PrefixThrough, OperationsOf, SequencedOperations
  <2> HIDE DEF cursor, capable
  <2> QED
    BY <1>4, <2>1, <2>2, <2>3 DEF SyncMessage, ServerMessages
<1> HIDE DEF sync
<1>7. CASE refused
  BY <1>1, <1>7, ToldErrorKeepsUp
<1>8. CASE ~refused /\ SocketOpen(c) /\ Socket(c) = k
  <2>1. k = <<c, client[c].socket>> /\ client[c].socket \in 1..Sockets
    <3>1. client[c] \in ClientStates /\ client[c].socket # 0
      BY <1>8 DEF SocketOpen, SocketIs, IInv, TypeOK
    <3>2. client[c].socket \in 1..Sockets
      BY <3>1, SocketsAssumption DEF ClientStates
    <3> QED
      BY <1>8, <3>2 DEF Socket
  <2>2. up[k] \in Seq(JoinsUpTo(store[c].lastServerSeq)) /\ up[k] # <<>>
    BY <1>1, <2>1 DEF JoinsBehind, ServerTakes
  <2>3. Head(up[k]) \in JoinsUpTo(store[c].lastServerSeq)
    BY <2>2, HeadTailProperties
  <2>4. cursor <= store[c].lastServerSeq
    BY <1>1, <2>3 DEF JoinsUpTo
  <2>5. \A row \in Rows : row.operation \in Known(store[c]) \cup Carried(sync)
    <3>1. ASSUME NEW row \in Rows, row.serverSeq <= cursor
          PROVE  row.operation \in Known(store[c])
      <4>1. row.serverSeq \in Nat /\ store[c].lastServerSeq \in Nat
        BY LogFacts DEF IInv, TypeOK, SequencedOperations, Stores
      <4>2. row.serverSeq <= store[c].lastServerSeq
        BY <1>3, <2>4, <3>1, <4>1
      <4> QED
        BY <4>2 DEF KeepsUp, Covered
    <3> QED
      BY <1>5, <3>1
  <2> QED
    BY <1>1, <1>6, <1>8, <2>5, ToldAllKeepsUp
<1>9. CASE ~refused /\ ~(SocketOpen(c) /\ Socket(c) = k)
  <2>1. SocketOpen(c) => session'[Socket(c)] = session[Socket(c)]
    BY <1>1, <1>9, QueueParts DEF IInv, TypeOK
  <2> QED
    BY <1>1, <1>6, <1>9, <2>1, NotToldKeepsUp
<1> QED
  BY <1>7, <1>8, <1>9

\* Clients keep up when the server answers a submission it does not append.
LEMMA AnswerKeepsUp ==
  ASSUME IInv, NEW k \in Connections, ReceiveDuplicate(k) \/ RejectSubmit(k),
         UNCHANGED clientVars, NEW c \in Clients, KeepsUp(c)
  PROVE  KeepsUp(c)'
<1>1. UNCHANGED <<link, session, log>>
  BY DEF ReceiveDuplicate, RejectSubmit, serverVars
<1>2. CASE ServerSends({k}, ErrorMessage)
  BY <1>1, <1>2, ToldErrorKeepsUp
<1>3. CASE \E row \in Rows : ServerSends({k}, OperationMessage(row)) /\ session[k] = "joined"
  <2>1. PICK row \in Rows : ServerSends({k}, OperationMessage(row)) /\ session[k] = "joined"
    BY <1>3
  <2>2. OperationMessage(row) \in ServerMessages
    <3>1. row \in SequencedOperations
      BY LogFacts DEF IInv, TypeOK
    <3> QED
      BY <3>1 DEF OperationMessage, ServerMessages, SequencedOperations
  <2>3. CASE SocketOpen(c) /\ Socket(c) = k
    <3>1. Joined(c)
      BY <2>1, <2>3 DEF Joined
    <3> QED
      BY <1>1, <2>1, <2>2, <2>3, <3>1, ToldAllKeepsUp
  <2>4. CASE ~(SocketOpen(c) /\ Socket(c) = k)
    BY <1>1, <2>1, <2>2, <2>4, NotToldKeepsUp
  <2> QED
    BY <2>3, <2>4
<1>4. ServerSends({k}, ErrorMessage)
      \/ \E row \in Rows : ServerSends({k}, OperationMessage(row)) /\ session[k] = "joined"
  BY DEF ReceiveDuplicate, RejectSubmit, SameIdentity
<1> QED
  BY <1>2, <1>3, <1>4

\* Clients keep up when the log grows: whoever has joined is told, and no one
\* has been told before.
LEMMA AppendKeepsUp ==
  ASSUME IInv, Provenance, NEW k \in Connections, AppendSubmitted(k),
         UNCHANGED clientVars, NEW c \in Clients, KeepsUp(c)
  PROVE  KeepsUp(c)'
<1> DEFINE joined == {r \in Connections : session[r] = "joined"}
<1>1. /\ UNCHANGED <<store, client, inbound, handler, link, session>>
      /\ ServerTakes(k) /\ Head(up[k]).type = "submit-operation"
  BY DEF AppendSubmitted, clientVars
<1>2. PICK elsewhere \in Elsewhere :
        LET row == [serverSeq |-> LatestServerSeq + elsewhere + 1,
                    operation |-> Head(up[k]).operation]
        IN  /\ log' = Append(log, row)
            /\ ServerSends(joined, OperationMessage(row))
  BY DEF AppendSubmitted
<1> DEFINE row == [serverSeq |-> LatestServerSeq + elsewhere + 1,
                   operation |-> Head(up[k]).operation]
<1>3. log' = Append(log, row) /\ ServerSends(joined, OperationMessage(row))
  BY <1>2
<1>4. LatestServerSeq \in Nat /\ elsewhere \in Nat
  BY LogFacts, ElsewhereAssumption DEF IInv, TypeOK
<1>5. Head(up[k]).operation \in Operations
  <2>1. Head(up[k]) \in ClientMessages
    BY <1>1, ServerTakesTyped DEF IInv, TypeOK
  <2> QED
    BY <1>1, <2>1 DEF ClientMessages
<1>6. row \in SequencedOperations /\ row.serverSeq > LatestServerSeq
  BY <1>4, <1>5 DEF SequencedOperations
<1> HIDE DEF row, joined
<1>7. Rows' = Rows \cup {row}
  BY <1>3, <1>6, AppendedRow DEF IInv, TypeOK
<1>8. OperationMessage(row) \in ServerMessages
  BY <1>6 DEF OperationMessage, ServerMessages, SequencedOperations
<1>9. ASSUME NEW seq \in Nat, seq <= LatestServerSeq PROVE ~(row.serverSeq <= seq)
  <2>1. row.serverSeq \in Nat
    BY <1>6 DEF SequencedOperations
  <2> QED
    BY <1>4, <1>6, <1>9, <2>1
<1>10. Covered(Rows', store[c])
  <2>1. store[c].lastServerSeq \in Nat /\ store[c].lastServerSeq <= LatestServerSeq
    BY DEF IInv, TypeOK, Stores, Provenance, StoresCovered, StoreCovered
  <2> QED
    BY <1>7, <1>9, <2>1 DEF KeepsUp, Covered
<1>11. Claimed(Rows', Known(store[c]), Queue(c))
  <2>1. ASSUME NEW i \in 1..Len(Queue(c))
        PROVE  ~(row.serverSeq <= Queue(c)[i].confirmedThrough)
    <3>1. Queue(c)[i] \in Evidence
      BY QueueParts, ElementOfSeq
    <3>2. /\ Queue(c)[i].confirmedThrough \in Nat
          /\ Queue(c)[i].confirmedThrough <= LatestServerSeq
      BY <3>1 DEF Evidence, ServerMessages
    <3> QED
      BY <1>9, <3>2
  <2> QED
    BY <1>7, <2>1 DEF KeepsUp, Claimed
<1>12. CASE SocketOpen(c) /\ Socket(c) \in joined
  <2>1. Queue(c)' = Append(Queue(c), OperationMessage(row))
    BY <1>1, <1>3, <1>8, <1>12, ServerTells
  <2>2. Coming(Rows, Known(store[c]), Queue(c))
    BY <1>12 DEF joined, Joined, KeepsUp
  <2>3. row.operation \in Carried(OperationMessage(row))
    BY DEF Carried, OperationMessage, OperationsOf
  <2>4. \A r \in Rows' :
          \/ r.operation \in Known(store[c]) \cup Carried(OperationMessage(row))
          \/ \E j \in 1..Len(Queue(c)) : r.operation \in Carried(Queue(c)[j])
    BY <1>7, <2>2, <2>3 DEF Coming
  <2> QED
    BY <1>1, <1>8, <1>10, <1>11, <2>1, <2>4, CompletingKeepsUp
<1>13. CASE ~(SocketOpen(c) /\ Socket(c) \in joined)
  <2>1. /\ Socket(c)' = Socket(c)
        /\ SocketOpen(c)' = SocketOpen(c)
        /\ Queue(c)' = Queue(c)
    BY <1>1, <1>3, <1>8, <1>13, ServerTells
  <2>2. ~Joined(c)'
    BY <1>1, <1>13, <2>1, QueueParts DEF Joined, joined
  <2>3. Message(c)' = Message(c)
    BY <2>1 DEF Message
  <2> QED
    BY <1>1, <1>10, <1>11, <2>1, <2>2, <2>3 DEF KeepsUp
<1> QED
  BY <1>12, <1>13

\* Clients keep up when the server's ends of connections are gone.
LEMMA SessionEndKeepsUp ==
  ASSUME IInv, UNCHANGED <<clientVars, link, down, log>>,
         \A k \in Connections : session'[k] \in {session[k], "none"},
         NEW c \in Clients, KeepsUp(c)
  PROVE  KeepsUp(c)'
<1>1. UNCHANGED <<store, client, inbound, handler>>
  BY DEF clientVars
<1>2. /\ Socket(c)' = Socket(c)
      /\ SocketOpen(c)' = SocketOpen(c)
      /\ Queue(c)' = Queue(c)
  BY <1>1, SameQueue
<1>3. Joined(c)' => Joined(c)
  BY <1>2, QueueParts DEF Joined
<1> QED
  BY <1>1, <1>2, <1>3, StillKeepsUp

--------------------------------------------------------------------------------
(* The invariant.                                                          *)

\* It holds at the start: nothing is logged, and nothing is on its way.
LEMMA InitCatchUp == Init => CatchUp
<1> SUFFICES ASSUME Init PROVE CatchUp
  OBVIOUS
<1> USE DEF Init, TransportInit, ServerInit, ClientInit
<1>1. Rows = {}
  BY EmptyLog
<1>2. \A c \in Clients : ~Joined(c) /\ handler[c] \notin Stored
  BY DEF Joined, SocketOpen, SocketIs, NewClient, Stored
<1>3. AllKeepUp
  BY <1>1, <1>2 DEF AllKeepUp, KeepsUp, Covered, Claimed
<1>4. JoinsBehind
  <2>1. \A c \in Clients : <<>> \in Seq(JoinsUpTo(store[c].lastServerSeq))
    BY EmptySeq
  <2> QED
    BY <2>1 DEF JoinsBehind, Connections
<1>5. ClosedIsSilent
  BY DEF ClosedIsSilent
<1> QED
  BY <1>3, <1>4, <1>5 DEF CatchUp

\* Every step of a client is one of those its queue knows.
LEMMA ClientStepsAreQueueSteps ==
  ASSUME IInv, IInv', NEW c \in Clients, KeepsUp(c),
         ClientStep(c) \/ UserStep(c) \/ ClientDisturbance(c),
         EveryMessageStored
  PROVE  QueueStep(c)
<1>1. ~FallBackToFullHistory(c) /\ ~(Applying(c) /\ HandlerFails(c))
  BY DEF EveryMessageStored
<1>2. CASE OpenDocument(c) \/ CloseDocument(c) \/ Reconnect(c) \/ Retry(c)
  BY <1>2, PageSteps
<1>3. CASE \/ SocketOpens(c) \/ CursorReadAtStart(c) \/ SendJoin(c) \/ SendJoinFails(c)
           \/ OnClose(c) \/ Suspend(c)
  BY <1>3, SocketSteps
<1>4. CASE Edit(c) \/ Submit(c)
  BY <1>4, EditSteps
<1>5. CASE ApplyOperations(c) \/ InstallSnapshot(c)
  BY <1>5, StoringSteps
<1>6. CASE \/ CaughtUp(c) \/ FlushOutbox(c) \/ OperationApplied(c) \/ RefreshStatus(c)
           \/ HandlerFails(c)
  BY <1>1, <1>6, HandlerFinishes
<1>7. CASE HandleError(c) \/ BeginSync(c)
  BY <1>7, MessageBegins
<1> QED
  BY <1>1, <1>2, <1>3, <1>4, <1>5, <1>6, <1>7 DEF ClientStep, UserStep,
     ClientDisturbance, SocketCloses, ConnectionDrops

\* Clients keep up through the steps of one of them.
LEMMA ClientStepsKeepUp ==
  ASSUME IInv, IInv', AllKeepUp, ClosedIsSilent, NEW c \in Clients,
         ClientStep(c) \/ UserStep(c) \/ ClientDisturbance(c),
         EveryMessageStored
  PROVE  AllKeepUp' /\ ClosedIsSilent'
<1>1. UNCHANGED log
  BY DEF ClientStep, UserStep, ClientDisturbance, serverVars
<1>2. KeepsUp(c)
  BY DEF AllKeepUp
<1>3. QueueStep(c)
  BY <1>2, ClientStepsAreQueueSteps
<1>4. KeepsUp(c)'
  BY <1>1, <1>2, <1>3, WaitingKeepsUp, EndingKeepsUp, HandlingKeepsUp, WritingKeepsUp
     DEF QueueStep
<1>5. Unnoticed(c)
  BY <1>1, <1>3, QueueStepUnnoticed
<1>6. AllKeepUp'
  BY <1>4, <1>5, OthersKeepUp DEF IInv
<1>7. ClosedIsSilent'
  BY <1>3, QueueStepSilent
<1> QED
  BY <1>6, <1>7

\* Clients keep up through the steps of the server.
LEMMA ServerStepsKeepUp ==
  ASSUME IInv, IInv', Provenance, CatchUp, UNCHANGED clientVars,
         ServerDisturbance \/ \E k \in Connections : ServerStep(k)
  PROVE  AllKeepUp' /\ ClosedIsSilent'
<1>1. \A c \in Clients : KeepsUp(c)
  BY DEF CatchUp, AllKeepUp
<1>2. CASE ServerDisturbance
  <2>1. /\ UNCHANGED <<link, down, log>>
        /\ \A k \in Connections : session'[k] \in {session[k], "none"}
    BY <1>2 DEF ServerDisturbance, ServerRestarts, serverVars
  <2> QED
    BY <1>1, <2>1, SessionEndKeepsUp, SendingSilent DEF AllKeepUp, CatchUp
<1>3. ASSUME NEW k \in Connections, ServerSocketClosed(k)
      PROVE  AllKeepUp' /\ ClosedIsSilent'
  <2>1. /\ UNCHANGED <<link, down, log>>
        /\ \A r \in Connections : session'[r] \in {session[r], "none"}
    BY <1>3 DEF ServerSocketClosed, serverVars, IInv, TypeOK
  <2> QED
    BY <1>1, <2>1, SessionEndKeepsUp, SendingSilent DEF AllKeepUp, CatchUp
<1>4. ASSUME NEW k \in Connections,
             ReceiveJoin(k) \/ AppendSubmitted(k) \/ ReceiveDuplicate(k) \/ RejectSubmit(k)
      PROVE  AllKeepUp' /\ ClosedIsSilent'
  <2>1. UNCHANGED link /\ \E connections, message : ServerSends(connections, message)
    BY <1>4 DEF ReceiveJoin, AppendSubmitted, ReceiveDuplicate, RejectSubmit, SameIdentity
  <2>2. ClosedIsSilent'
    BY <2>1, SendingSilent DEF CatchUp
  <2>3. ASSUME NEW c \in Clients PROVE KeepsUp(c)'
    BY <1>1, <1>4, JoinKeepsUp, AppendKeepsUp, AnswerKeepsUp DEF CatchUp
  <2> QED
    BY <2>2, <2>3 DEF AllKeepUp
<1> QED
  BY <1>2, <1>3, <1>4 DEF ServerStep

\* Every step that stores what it lets go of keeps the invariant.
LEMMA NextCatchUp ==
  (IInv /\ Provenance /\ CatchUp) /\ [Next]_vars /\ [EveryMessageStored]_vars => CatchUp'
<1> SUFFICES ASSUME IInv, Provenance, CatchUp, [Next]_vars, [EveryMessageStored]_vars
             PROVE  CatchUp'
  OBVIOUS
<1>1. IInv'
  BY NextInvariant
<1>2. JoinsBehind'
  BY JoinsStayBehind DEF CatchUp
<1>3. AllKeepUp' /\ ClosedIsSilent'
  <2>1. CASE UNCHANGED vars
    <3>1. ASSUME NEW c \in Clients PROVE KeepsUp(c)'
      BY <2>1, SessionEndKeepsUp DEF vars, transportVars, serverVars, CatchUp, AllKeepUp
    <3>2. ClosedIsSilent'
      BY <2>1 DEF vars, transportVars, CatchUp, ClosedIsSilent
    <3> QED
      BY <3>1, <3>2 DEF AllKeepUp
  <2>2. ASSUME NEW c \in Clients, ClientStep(c) \/ UserStep(c) \/ ClientDisturbance(c),
               EveryMessageStored
        PROVE  AllKeepUp' /\ ClosedIsSilent'
    BY <1>1, <2>2, ClientStepsKeepUp DEF CatchUp
  <2>3. CASE ServerDisturbance \/ \E k \in Connections : ServerStep(k)
    <3>1. UNCHANGED clientVars
      BY <2>3 DEF ServerDisturbance, ServerStep
    <3> QED
      BY <1>1, <2>3, <3>1, ServerStepsKeepUp
  <2> QED
    BY <2>1, <2>2, <2>3 DEF Next
<1> QED
  BY <1>2, <1>3 DEF CatchUp

--------------------------------------------------------------------------------
(* The theorems.                                                           *)

\* The invariant holds in every behaviour that stores every message.
THEOREM CatchUpInvariant == Spec /\ [][EveryMessageStored]_vars => []CatchUp
<1>1. Init => CatchUp
  BY InitCatchUp
<1> QED
  BY <1>1, NextCatchUp, OriginsInvariant, PTL DEF Spec

\* A stored cursor means that everything of the document up to it is in the
\* replica (persistServerOperations, installServerBaseline), in every
\* behaviour without a given-up snapshot or a rejected transaction.
THEOREM CursorsAreComplete ==
  Spec /\ [][EveryMessageStored]_vars => []CursorComplete
<1>1. CatchUp => CursorComplete
  BY DEF CatchUp, AllKeepUp, KeepsUp, Covered, CursorComplete, PrefixThrough, OperationsOf
<1> QED
  BY <1>1, CatchUpInvariant, PTL

\* What comes in a queue is in one of its parts.
LEMMA ComingIsThere ==
  ASSUME IInv, NEW c \in Clients, Joined(c), Coming(Rows, Known(store[c]), Queue(c))
  PROVE  OperationsOf(Rows) \subseteq
           Known(store[c]) \cup
             UNION {OperationsOf(message.batch) \cup message.snapshot :
                      message \in Range(inbound[c]) \cup Range(down[Socket(c)])}
<1> DEFINE queue == Queue(c)
           parts == Range(inbound[c]) \cup Range(down[Socket(c)])
<1>1. /\ inbound[c] \in Seq(Evidence)
      /\ down[Socket(c)] \in Seq(Evidence)
      /\ queue = inbound[c] \o down[Socket(c)]
      /\ queue \in Seq(Evidence)
  BY QueueParts DEF Joined
<1> HIDE DEF queue
<1>2. Range(inbound[c] \o down[Socket(c)]) = parts
  BY <1>1, RangeConcatenation
<1>3. \A i \in 1..Len(queue) : queue[i] \in Range(queue)
  BY <1>1, LenProperties DEF Range
<1>4. ASSUME NEW row \in Rows, row.operation \notin Known(store[c])
      PROVE  \E message \in parts :
               row.operation \in OperationsOf(message.batch) \cup message.snapshot
  <2>1. PICK j \in 1..Len(queue) : row.operation \in Carried(queue[j])
    BY <1>4 DEF Coming, queue
  <2>2. queue[j] \in parts
    BY <1>1, <1>2, <1>3
  <2> QED
    BY <2>1, <2>2 DEF Carried
<1> QED
  BY <1>4 DEF OperationsOf

\* A client that has joined misses nothing: what the server has of the
\* document is in its store or in its queue (joinSocket, acceptOperation's
\* broadcast, enqueueInbound), in every behaviour as above.
THEOREM JoinedClientsMissNothing ==
  Spec /\ [][EveryMessageStored]_vars => []JoinedMissesNothing
<1>1. IInv /\ CatchUp => JoinedMissesNothing
  <2> SUFFICES ASSUME IInv, CatchUp, NEW c \in Clients,
                      SocketOpen(c) /\ session[Socket(c)] = "joined"
               PROVE  OperationsOf(Rows) \subseteq
                        Known(store[c]) \cup
                          UNION {OperationsOf(message.batch) \cup message.snapshot :
                             message \in Range(inbound[c]) \cup Range(down[Socket(c)])}
    BY DEF JoinedMissesNothing
  <2>1. Joined(c) /\ Coming(Rows, Known(store[c]), Queue(c))
    BY DEF Joined, CatchUp, AllKeepUp, KeepsUp
  <2> QED
    BY <2>1, ComingIsThere
<1> QED
  BY <1>1, CatchUpInvariant, Invariant, PTL
================================================================================
