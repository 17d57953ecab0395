------------------------- MODULE DocumentEditor_proofs --------------------------
(***************************************************************************)
(* The user sees the document, and deletes only what was seen: proofs      *)
(* about DocumentEditor, for every alphabet and every bound.               *)
(*                                                                         *)
(* The text may differ from the replica while writes are queued, so the    *)
(* invariant is about the queue.  Edits have ascending versions, the last  *)
(* of them the latest, hence the last commit to return shows the replica.  *)
(* Edits that are queued behind a batch are not alone; those that are have *)
(* been made of a text that shows all that others have written so far.     *)
(***************************************************************************)
EXTENDS DocumentEditor, TextReplica_proofs

IsSeq(s) == s \in Seq(ToSet(s))

LEMMA AnySeq ==
  ASSUME NEW S, NEW s \in Seq(S)
  PROVE  IsSeq(s)
<1>1. s = [i \in 1..Len(s) |-> s[i]] /\ DOMAIN s = 1..Len(s) /\ Len(s) \in Nat
  BY LenProperties
<1>2. s \in [1..Len(s) -> ToSet(s)]
  BY <1>1 DEF ToSet
<1> QED
  BY <1>1, <1>2 DEF IsSeq

--------------------------------------------------------------------------------
(***************************************************************************)
(* The write queue.                                                        *)
(***************************************************************************)

IsWrite(write) ==
  /\ write.kind \in {"replace", "apply", "install"}
  /\ write.alone \in BOOLEAN
  /\ write.kind = "replace" => /\ IsSeq(write.next)
                               /\ write.version \in Nat
                               /\ write.releases \in BOOLEAN
  /\ write.kind # "replace" => write.alone

EditQueued(queue) == \E i \in 1..Len(queue) : queue[i].kind = "replace"

AllAlone(queue) == \A i \in 1..Len(queue) : queue[i].alone

\* Edits have the versions they were given, in order; when there is one, the
\* last is the latest version.
EditsInOrder(queue, latest) ==
  /\ \A i \in 1..Len(queue) : queue[i].kind = "replace" => queue[i].version <= latest
  /\ \A i, j \in 1..Len(queue) :
       i < j /\ queue[i].kind = "replace" /\ queue[j].kind = "replace" =>
         /\ queue[i].version < queue[j].version
         /\ queue[j].alone => queue[i].alone
  /\ EditQueued(queue) =>
       \E i \in 1..Len(queue) : queue[i].kind = "replace" /\ queue[i].version = latest

\* There is a write for the server exactly when a call is writing, and only
\* one.  The edits behind it were made during the call, and if the version is
\* not the one the call began with, there is such an edit.
OneServerWrite(queue, latest, writing, editVersion) ==
  /\ writing <=> \E i \in 1..Len(queue) : queue[i].kind # "replace"
  /\ \A i \in 1..Len(queue) : queue[i].kind # "replace" =>
       /\ \A j \in 1..Len(queue) : j # i => queue[j].kind = "replace"
       /\ \A j \in 1..Len(queue) : i < j => ~queue[j].alone
       /\ editVersion # latest => \E j \in 1..Len(queue) : i < j

Queue(queue, latest, writing, editVersion) ==
  /\ IsSeq(queue)
  /\ \A i \in 1..Len(queue) : IsWrite(queue[i])
  /\ latest \in Nat
  /\ EditsInOrder(queue, latest)
  /\ OneServerWrite(queue, latest, writing, editVersion)

\* What Append does.
Appended(queue, write, longer) ==
  /\ IsSeq(longer) /\ Len(queue) \in Nat /\ Len(longer) = Len(queue) + 1
  /\ \A i \in 1..Len(queue) : longer[i] = queue[i]
  /\ longer[Len(queue) + 1] = write

LEMMA AppendIs ==
  ASSUME NEW queue, IsSeq(queue), NEW write
  PROVE  Appended(queue, write, Append(queue, write))
<1> DEFINE S == ToSet(queue) \cup {write}
           longer == Append(queue, write)
<1>1. queue \in Seq(S)
  BY SeqSubset DEF IsSeq
<1>2. /\ longer \in Seq(S) /\ Len(longer) = Len(queue) + 1
      /\ \A i \in 1..Len(queue) : longer[i] = queue[i]
      /\ longer[Len(queue) + 1] = write
  <2> HIDE DEF S
  <2>1. write \in S
    BY DEF S
  <2> QED
    BY <1>1, <2>1, AppendProperties
<1>3. Len(queue) \in Nat
  BY <1>1, LenProperties
<1>4. IsSeq(longer)
  <2> HIDE DEF longer, S
  <2> QED
    BY <1>2, AnySeq
<1> QED
  BY <1>2, <1>3, <1>4 DEF Appended

\* What Tail does.
Shortened(queue, shorter) ==
  /\ IsSeq(shorter) /\ Len(queue) \in Nat \ {0} /\ Len(shorter) = Len(queue) - 1
  /\ Len(shorter) \in Nat
  /\ \A i \in 1..Len(shorter) : shorter[i] = queue[i + 1]
  /\ Head(queue) = queue[1]

LEMMA TailIs ==
  ASSUME NEW queue, IsSeq(queue), queue # <<>>
  PROVE  Shortened(queue, Tail(queue))
<1> DEFINE S == ToSet(queue)
           shorter == Tail(queue)
<1>1. queue \in Seq(S)
  BY DEF IsSeq
<1>2. /\ shorter \in Seq(S) /\ Len(shorter) = Len(queue) - 1 /\ Len(queue) \in Nat \ {0}
      /\ \A i \in 1..Len(shorter) : shorter[i] = queue[i + 1]
      /\ Head(queue) = queue[1]
  <2> HIDE DEF S
  <2> QED
    BY <1>1, HeadTailProperties, LenProperties, EmptySeq
<1>3. IsSeq(shorter)
  <2> HIDE DEF shorter, S
  <2> QED
    BY <1>2, AnySeq
<1> QED
  BY <1>2, <1>3 DEF Shortened

\* A new edit goes to the end of the queue.
LEMMA QueueWithEdit ==
  ASSUME NEW queue, NEW latest, NEW writing, NEW editVersion,
         Queue(queue, latest, writing, editVersion),
         NEW write, IsWrite(write), write.kind = "replace", write.version = latest + 1,
         write.alone => ~writing /\ AllAlone(queue)
  PROVE  Queue(Append(queue, write), latest + 1, writing, editVersion)
<1> DEFINE longer == Append(queue, write)
           n == Len(queue)
<1>1. Appended(queue, write, longer)
  BY AppendIs DEF Queue
<1> HIDE DEF longer
<1>2. /\ n \in Nat /\ Len(longer) = n + 1 /\ latest \in Nat
      /\ \A i \in 1..n : longer[i] = queue[i]
      /\ longer[n + 1] = write
      /\ \A i \in 1..n + 1 : i \in 1..n \/ i = n + 1
      /\ n + 1 \in 1..n + 1 /\ \A i \in 1..n : i \in 1..n + 1
  BY <1>1 DEF Appended, Queue
<1>3. \A i \in 1..n : IsWrite(queue[i])
  BY DEF Queue
<1>4. \A i \in 1..Len(longer) : IsWrite(longer[i])
  BY <1>2, <1>3
<1>5. EditsInOrder(longer, latest + 1)
  <2>1. \A i \in 1..n : queue[i].kind = "replace" =>
           queue[i].version <= latest /\ queue[i].version \in Nat
    BY <1>3 DEF Queue, EditsInOrder, IsWrite
  <2>2. \A i, j \in 1..n :
          i < j /\ queue[i].kind = "replace" /\ queue[j].kind = "replace" =>
            /\ queue[i].version < queue[j].version
            /\ queue[j].alone => queue[i].alone
    BY DEF Queue, EditsInOrder
  <2>3. \A i \in 1..n + 1 : longer[i].kind = "replace" => longer[i].version <= latest + 1
    BY <1>2, <2>1
  <2>4. ASSUME NEW i \in 1..n + 1, NEW j \in 1..n + 1, i < j,
               longer[i].kind = "replace", longer[j].kind = "replace"
        PROVE  /\ longer[i].version < longer[j].version
               /\ longer[j].alone => longer[i].alone
    <3>1. i \in 1..n
      BY <1>2, <2>4
    <3>2. CASE j \in 1..n
      BY <1>2, <2>2, <2>4, <3>1, <3>2
    <3>3. CASE j = n + 1
      <4>1. longer[i] = queue[i] /\ longer[j] = write
        BY <1>2, <3>1, <3>3
      <4>2. longer[i].version < longer[j].version
        BY <1>2, <2>1, <2>4, <3>1, <4>1
      <4> QED
        BY <3>1, <4>1, <4>2 DEF AllAlone
    <3> QED
      BY <1>2, <3>2, <3>3
  <2> QED
    BY <1>2, <2>3, <2>4 DEF EditsInOrder
<1>6. OneServerWrite(longer, latest + 1, writing, editVersion)
  <2>1. /\ writing <=> \E i \in 1..n : queue[i].kind # "replace"
        /\ \A i \in 1..n : queue[i].kind # "replace" =>
             /\ \A j \in 1..n : j # i => queue[j].kind = "replace"
             /\ \A j \in 1..n : i < j => ~queue[j].alone
    BY DEF Queue, OneServerWrite
  <2>2. ASSUME NEW i \in 1..n + 1, longer[i].kind # "replace"
        PROVE  /\ i \in 1..n /\ writing
               /\ \A j \in 1..n + 1 : j # i => longer[j].kind = "replace"
               /\ \A j \in 1..n + 1 : i < j => ~longer[j].alone
               /\ \E j \in 1..n + 1 : i < j
    <3>1. i \in 1..n /\ queue[i].kind # "replace"
      BY <1>2, <2>2
    <3>2. writing /\ ~write.alone
      BY <2>1, <3>1
    <3>3. ASSUME NEW j \in 1..n + 1 PROVE (j # i => longer[j].kind = "replace") /\ (i < j => ~longer[j].alone)
      BY <1>2, <2>1, <3>1, <3>2
    <3>4. i < n + 1
      BY <1>2, <3>1
    <3> QED
      BY <1>2, <3>1, <3>2, <3>3, <3>4
  <2>3. writing => \E i \in 1..n + 1 : longer[i].kind # "replace"
    BY <1>2, <2>1
  <2> QED
    BY <1>2, <2>2, <2>3 DEF OneServerWrite
<1>7. IsSeq(longer)
  BY <1>1 DEF Appended
<1> QED
  BY <1>2, <1>4, <1>5, <1>6, <1>7 DEF Queue, longer

\* A write for the server goes to the end of the queue.
LEMMA QueueWithServerWrite ==
  ASSUME NEW queue, NEW latest, NEW editVersion,
         Queue(queue, latest, FALSE, editVersion),
         NEW write, IsWrite(write), write.kind # "replace"
  PROVE  Queue(Append(queue, write), latest, TRUE, latest)
<1> DEFINE longer == Append(queue, write)
           n == Len(queue)
<1>1. Appended(queue, write, longer)
  BY AppendIs DEF Queue
<1> HIDE DEF longer
<1>2. /\ n \in Nat /\ Len(longer) = n + 1 /\ latest \in Nat
      /\ \A i \in 1..n : longer[i] = queue[i]
      /\ longer[n + 1] = write
      /\ \A i \in 1..n + 1 : i \in 1..n \/ i = n + 1
      /\ n + 1 \in 1..n + 1 /\ \A i \in 1..n : i \in 1..n + 1
  BY <1>1 DEF Appended, Queue
<1>3. \A i \in 1..n : IsWrite(queue[i]) /\ queue[i].kind = "replace"
  BY DEF Queue, OneServerWrite
<1>4. \A i \in 1..Len(longer) : IsWrite(longer[i])
  BY <1>2, <1>3
<1>5. EditsInOrder(longer, latest)
  <2>1. /\ \A i \in 1..n : queue[i].version <= latest
        /\ \A i, j \in 1..n :
             i < j => /\ queue[i].version < queue[j].version
                      /\ queue[j].alone => queue[i].alone
        /\ n # 0 => \E i \in 1..n : queue[i].version = latest
    BY <1>2, <1>3 DEF Queue, EditsInOrder, EditQueued
  <2>2. EditQueued(longer) => n # 0
    BY <1>2 DEF EditQueued
  <2>3. \A i \in 1..n + 1 : longer[i].kind = "replace" => i \in 1..n
    BY <1>2
  <2> QED
    BY <1>2, <1>3, <2>1, <2>2, <2>3 DEF EditsInOrder
<1>6. OneServerWrite(longer, latest, TRUE, latest)
  <2>1. ASSUME NEW i \in 1..n + 1, longer[i].kind # "replace"
        PROVE  /\ \A j \in 1..n + 1 : j # i => longer[j].kind = "replace"
               /\ \A j \in 1..n + 1 : ~(i < j)
    BY <1>2, <1>3, <2>1
  <2> QED
    BY <1>2, <2>1 DEF OneServerWrite
<1>7. IsSeq(longer)
  BY <1>1 DEF Appended
<1> QED
  BY <1>2, <1>4, <1>5, <1>6, <1>7 DEF Queue, longer

\* The first write leaves the queue.
LEMMA QueueWithoutHead ==
  ASSUME NEW queue, NEW latest, NEW writing, NEW editVersion,
         Queue(queue, latest, writing, editVersion), queue # <<>>
  PROVE  Queue(Tail(queue), latest, writing /\ Head(queue).kind = "replace", editVersion)
<1> DEFINE rest == Tail(queue)
           n == Len(queue)
           l == Len(rest)
<1>1. Shortened(queue, rest)
  BY TailIs DEF Queue
<1> HIDE DEF rest
<1>2. /\ n \in Nat \ {0} /\ l = n - 1 /\ l \in Nat /\ latest \in Nat
      /\ \A i \in 1..l : rest[i] = queue[i + 1] /\ i + 1 \in 1..n
      /\ Head(queue) = queue[1] /\ 1 \in 1..n
      /\ \A i \in 1..n : i # 1 => i - 1 \in 1..l /\ (i - 1) + 1 = i
      /\ \A i \in 1..l, j \in 1..l : i < j <=> i + 1 < j + 1
  BY <1>1 DEF Shortened, Queue
<1>3. \A i \in 1..n : IsWrite(queue[i])
  BY DEF Queue
<1>4. \A i \in 1..l : IsWrite(rest[i])
  BY <1>2, <1>3
<1>5. EditsInOrder(rest, latest)
  <2>1. /\ \A i \in 1..n : queue[i].kind = "replace" => queue[i].version <= latest
        /\ \A i, j \in 1..n :
             i < j /\ queue[i].kind = "replace" /\ queue[j].kind = "replace" =>
               /\ queue[i].version < queue[j].version
               /\ queue[j].alone => queue[i].alone
        /\ EditQueued(queue) =>
             \E i \in 1..n : queue[i].kind = "replace" /\ queue[i].version = latest
    BY DEF Queue, EditsInOrder
  <2>2. \A i \in 1..l : rest[i].kind = "replace" => rest[i].version <= latest
    BY <1>2, <2>1
  <2>3. ASSUME NEW i \in 1..l, NEW j \in 1..l, i < j,
               rest[i].kind = "replace", rest[j].kind = "replace"
        PROVE  /\ rest[i].version < rest[j].version
               /\ rest[j].alone => rest[i].alone
    <3>1. rest[i] = queue[i + 1] /\ rest[j] = queue[j + 1] /\ i + 1 < j + 1
          /\ i + 1 \in 1..n /\ j + 1 \in 1..n
      BY <1>2, <2>3
    <3> QED
      BY <2>1, <2>3, <3>1
  <2>4. ASSUME EditQueued(rest)
        PROVE  \E i \in 1..l : rest[i].kind = "replace" /\ rest[i].version = latest
    <3>1. PICK k \in 1..l : rest[k].kind = "replace"
      BY <2>4 DEF EditQueued
    <3>2. queue[k + 1].kind = "replace" /\ k + 1 \in 1..n /\ 1 < k + 1
      BY <1>2, <3>1
    <3>3. PICK i \in 1..n : queue[i].kind = "replace" /\ queue[i].version = latest
      BY <2>1, <3>2 DEF EditQueued
    <3>4. i # 1
      <4>1. SUFFICES ASSUME i = 1 PROVE FALSE
        OBVIOUS
      <4>2. queue[1].version < queue[k + 1].version /\ queue[k + 1].version <= latest
        BY <1>2, <2>1, <3>2, <3>3, <4>1
      <4>3. queue[1].version = latest /\ queue[k + 1].version \in Nat
        BY <1>3, <3>2, <3>3, <4>1 DEF IsWrite
      <4> QED
        BY <1>2, <4>2, <4>3
    <3>5. i - 1 \in 1..l /\ rest[i - 1] = queue[i]
      BY <1>2, <3>4
    <3> QED
      BY <3>3, <3>5
  <2> QED
    BY <2>2, <2>3, <2>4 DEF EditsInOrder
<1>6. OneServerWrite(rest, latest, writing /\ Head(queue).kind = "replace", editVersion)
  <2>1. /\ writing <=> \E i \in 1..n : queue[i].kind # "replace"
        /\ \A i \in 1..n : queue[i].kind # "replace" =>
             /\ \A j \in 1..n : j # i => queue[j].kind = "replace"
             /\ \A j \in 1..n : i < j => ~queue[j].alone
             /\ editVersion # latest => \E j \in 1..n : i < j
    BY DEF Queue, OneServerWrite
  <2>2. (writing /\ Head(queue).kind = "replace") <=> \E i \in 1..l : rest[i].kind # "replace"
    <3>1. ASSUME writing, Head(queue).kind = "replace" PROVE \E i \in 1..l : rest[i].kind # "replace"
      <4>1. PICK i \in 1..n : queue[i].kind # "replace"
        BY <2>1, <3>1
      <4>2. i # 1
        BY <1>2, <3>1, <4>1
      <4>3. i - 1 \in 1..l /\ rest[i - 1] = queue[i]
        BY <1>2, <4>2
      <4> QED
        BY <4>1, <4>3
    <3>2. ASSUME NEW i \in 1..l, rest[i].kind # "replace"
          PROVE  writing /\ Head(queue).kind = "replace"
      <4>1. queue[i + 1].kind # "replace" /\ i + 1 \in 1..n /\ 1 # i + 1
        BY <1>2, <3>2
      <4> QED
        BY <1>2, <2>1, <4>1
    <3> QED
      BY <3>1, <3>2
  <2>3. ASSUME NEW i \in 1..l, rest[i].kind # "replace"
        PROVE  /\ \A j \in 1..l : j # i => rest[j].kind = "replace"
               /\ \A j \in 1..l : i < j => ~rest[j].alone
               /\ editVersion # latest => \E j \in 1..l : i < j
    <3>1. queue[i + 1].kind # "replace" /\ i + 1 \in 1..n
      BY <1>2, <2>3
    <3>2. ASSUME NEW j \in 1..l PROVE (j # i => rest[j].kind = "replace") /\ (i < j => ~rest[j].alone)
      <4>1. rest[j] = queue[j + 1] /\ j + 1 \in 1..n /\ (j # i => j + 1 # i + 1) /\ (i < j => i + 1 < j + 1)
        BY <1>2
      <4> QED
        BY <2>1, <3>1, <4>1
    <3>3. ASSUME editVersion # latest PROVE \E j \in 1..l : i < j
      <4>1. PICK j \in 1..n : i + 1 < j
        BY <2>1, <3>1, <3>3
      <4>2. j - 1 \in 1..l /\ i < j - 1
        BY <1>2, <4>1
      <4> QED
        BY <4>2
    <3> QED
      BY <3>2, <3>3
  <2> QED
    BY <2>2, <2>3 DEF OneServerWrite
<1>7. IsSeq(rest)
  BY <1>1 DEF Shortened
<1> QED
  BY <1>2, <1>4, <1>5, <1>6, <1>7 DEF Queue, rest

\* What becomes of the queue when its first write leaves it.
LEMMA HeadLeaves ==
  ASSUME NEW queue, NEW latest, NEW writing, NEW editVersion,
         Queue(queue, latest, writing, editVersion), queue # <<>>
  PROVE  LET head == Head(queue)
             rest == Tail(queue)
         IN  /\ IsWrite(head)
             /\ \A i \in 1..Len(rest) : rest[i] = queue[i + 1] /\ i + 1 \in 1..Len(queue)
             /\ head = queue[1] /\ 1 \in 1..Len(queue)
             /\ \A i \in 1..Len(queue) : i # 1 => i - 1 \in 1..Len(rest) /\ queue[i] = rest[i - 1]
<1>1. Shortened(queue, Tail(queue))
  BY TailIs DEF Queue
<1>2. \A i \in 1..Len(queue) : IsWrite(queue[i])
  BY DEF Queue
<1> QED
  BY <1>1, <1>2 DEF Shortened

--------------------------------------------------------------------------------
(***************************************************************************)
(* The invariant.                                                          *)
(***************************************************************************)

NumbersInv ==
  /\ nextCounter \in Nat \ {0} /\ lamportClock \in Nat /\ version \in Nat
  /\ used \in [typed : Nat, batches : Nat, compositions : Nat, failures : Nat]
  /\ composing \in BOOLEAN /\ holding \in BOOLEAN
  /\ IsSeq(text)

\* What a replica knows: this client's operations below its counter, and
\* operations of others, but not the latest while a call still delivers that;
\* all anchored and stamped up to the clock.
Replica(r, counter, clock, batches, delivering) ==
  /\ Sound(r)
  /\ Given(r.known, Here, counter)
  /\ \A x \in r.known :
       /\ x.id[1] \in {Here, Peer}
       /\ x.id[1] = Peer => x.id[2] <= batches
       /\ x.id[1] = Peer /\ delivering => x.id[2] < batches
       /\ x.lamport <= clock
       /\ x.ref \in Anchors(Inserts(r.known))

ReplicaInv ==
  Replica(replica, nextCounter, lamportClock, used.batches, handler.phase # "none")

\* An operation from the server that has not been applied: it is the latest,
\* and what it refers to is there.
Offered(operation, batches, nodes) ==
  /\ batches \in Nat \ {0}
  /\ operation.kind \in {"insert", "delete"}
  /\ operation.id = <<Peer, batches>>
  /\ operation.lamport \in Nat
  /\ \/ operation.ref = Root
     \/ \E anchor \in nodes : anchor.id = operation.ref /\ anchor.lamport < operation.lamport

Delivers(kind, received, batches, nodes) ==
  /\ kind \in {"apply", "install"}
  /\ \E operation \in ToSet(received) :
       /\ received = <<operation>>
       /\ Offered(operation, batches, nodes)
       /\ kind = "install" => operation.kind = "insert" /\ operation.ref = Root

HandlerInv ==
  /\ handler.phase \in {"none", "gate", "idle", "write"}
  /\ handler.phase \in {"gate", "idle"} =>
       Delivers(handler.kind, handler.received, used.batches, replica.nodes)
  /\ handler.phase = "idle" =>
       /\ handler.ahead \in 0..Len(writes)
       /\ handler = [phase |-> "idle", kind |-> handler.kind, received |-> handler.received,
                     ahead |-> handler.ahead]
  /\ \A i \in 1..Len(writes) : writes[i].kind # "replace" =>
       Delivers(writes[i].kind, writes[i].received, used.batches, replica.nodes)

QueueInv == Queue(writes, version, handler.phase = "write", handler.editVersion)

\* While the gate is held and nothing is composed, the commit that releases it
\* is queued, and it is of the latest version.
GateInv ==
  holding /\ ~composing =>
    \E i \in 1..Len(writes) :
      writes[i].kind = "replace" /\ writes[i].releases /\ writes[i].version = version

\* The text is the document unless something typed is still to be written.
TextInv == ~EditQueued(writes) /\ ~composing => text = Materialize(replica)

\* What the replica shows of others.
Others(current) == {id \in IdsOf(ToSet(VisibleElements(current))) : id[1] # Here}

\* The user has seen all of it, unless an edit was queued during a batch; so had
\* the user who made an edit that was queued alone.
BasisInv ==
  /\ basis \subseteq IdsOf(replica.nodes)
  /\ AllAlone(writes) => Others(replica) \subseteq basis
  /\ \A i \in 1..Len(writes) :
       writes[i].kind = "replace" /\ writes[i].alone => Others(replica) \subseteq writes[i].basis

IInv ==
  /\ NumbersInv
  /\ ReplicaInv
  /\ HandlerInv
  /\ QueueInv
  /\ GateInv
  /\ TextInv
  /\ BasisInv

--------------------------------------------------------------------------------
(***************************************************************************)
(* What an edit and a batch make of the replica.                           *)
(***************************************************************************)

\* All inserts that such a replica knows are attached.
LEMMA ReplicaIsAttached ==
  ASSUME NEW r, NEW counter, NEW clock, NEW batches, NEW delivering,
         Replica(r, counter, clock, batches, delivering)
  PROVE  r.nodes = Inserts(r.known) /\ (Deletes(r.known) = {} => Resolved(r))
<1>1. Sound(r) /\ \A x \in Inserts(r.known) : x.ref \in Anchors(Inserts(r.known))
  BY DEF Replica, Inserts
<1> QED
  BY <1>1, AllAttached

\* What it shows.
LEMMA ShownIs ==
  ASSUME NEW r, Sound(r)
  PROVE  /\ IsSeq(Materialize(r))
         /\ IdsOf(ToSet(VisibleElements(r))) \subseteq IdsOf(r.nodes)
         /\ Others(r) \subseteq IdsOf(ToSet(VisibleElements(r)))
<1> DEFINE elements == VisibleElements(r)
           S == {x.value : x \in r.nodes}
<1>1. elements \in Seq(r.nodes)
  BY VisibleIs
<1> HIDE DEF elements
<1>2. /\ Len(elements) \in Nat /\ DOMAIN elements = 1..Len(elements)
      /\ \A i \in 1..Len(elements) : elements[i] \in r.nodes
  BY <1>1, LenProperties, ElementOfSeq
<1>3. Values(elements) \in Seq(S)
  <2>1. Values(elements) \in [1..Len(elements) -> S]
    BY <1>2 DEF Values
  <2> HIDE DEF S
  <2> QED
    BY <1>2, <2>1
<1>4. IsSeq(Values(elements))
  BY <1>3, AnySeq
<1>5. ToSet(elements) \in SUBSET r.nodes
  BY <1>1, ToSetOfSeq
<1> QED
  BY <1>4, <1>5 DEF Materialize, IdsOf, Others, elements

\* Of two such replicas, the one that knows more has more attached, and shows
\* of others only what is in the other, when what is new is this client's.
LEMMA ShowsLess ==
  ASSUME NEW r, NEW counter, NEW clock, NEW batches, NEW delivering,
         Replica(r, counter, clock, batches, delivering),
         NEW s, NEW counter2, NEW clock2, NEW batches2, NEW delivering2,
         Replica(s, counter2, clock2, batches2, delivering2),
         NEW new, s.known = r.known \cup new
  PROVE  /\ r.nodes \subseteq s.nodes
         /\ (\A x \in new : x.id[1] = Here) => Others(s) \subseteq Others(r)
<1>1. r.nodes = Inserts(r.known) /\ s.nodes = Inserts(s.known)
  BY ReplicaIsAttached
<1>2. r.nodes \subseteq s.nodes
  BY <1>1 DEF Inserts
<1>3. Sound(r) /\ Sound(s)
  BY DEF Replica
<1>4. /\ ToSet(VisibleElements(r)) = {x \in r.nodes : x.id \notin r.tombstones}
      /\ ToSet(VisibleElements(s)) = {x \in s.nodes : x.id \notin s.tombstones}
  BY <1>3, VisibleIs
<1>5. r.tombstones \subseteq s.tombstones
  <2>1. /\ r.tombstones = {delete.ref : delete \in {d \in Deletes(r.known) : d.ref \in IdsOf(r.nodes)}}
        /\ s.tombstones = {delete.ref : delete \in {d \in Deletes(s.known) : d.ref \in IdsOf(s.nodes)}}
    BY <1>3, TombstonesAre
  <2>2. Deletes(r.known) \subseteq Deletes(s.known) /\ IdsOf(r.nodes) \subseteq IdsOf(s.nodes)
    BY <1>2 DEF Deletes, IdsOf
  <2> QED
    BY <2>1, <2>2
<1>6. ASSUME \A x \in new : x.id[1] = Here, NEW x \in ToSet(VisibleElements(s)), x.id[1] # Here
      PROVE  x \in ToSet(VisibleElements(r))
  <2>1. x \in s.nodes /\ x.id \notin s.tombstones
    BY <1>4, <1>6
  <2>2. x \in r.known /\ x.kind = "insert"
    BY <1>1, <1>6, <2>1 DEF Inserts
  <2> QED
    BY <1>1, <1>4, <1>5, <2>1, <2>2 DEF Inserts
<1> QED
  BY <1>2, <1>6 DEF Others, IdsOf

\* replaceText on such a replica.
Edited(r, counter, clock, batches, delivering, new, after) ==
  /\ Len(new) \in Nat
  /\ Replica(after, counter + Len(new), clock + Len(new), batches, delivering)
  /\ r.nodes \subseteq after.nodes
  /\ Others(after) \subseteq Others(r)

LEMMA EditApplies ==
  ASSUME NEW r, NEW counter \in Nat, NEW clock \in Nat, NEW batches, NEW delivering,
         Replica(r, counter, clock, batches, delivering),
         NEW next, IsSeq(next),
         NEW new, new = OperationsOfEdit(Here, counter, clock,
                          ComputeLocalTextEdit(VisibleElements(r), next))
  PROVE  Edited(r, counter, clock, batches, delivering, new, ApplyAll(r, new))
<1> DEFINE V        == ToSet(next)
           elements == VisibleElements(r)
           after    == ApplyAll(r, new)
<1>1. Sound(r) /\ Lawful(r.known) /\ Given(r.known, Here, counter)
  BY DEF Replica, Sound
<1>2. elements \in Seq(r.nodes) /\ r.nodes = Inserts(r.known)
  BY <1>1, VisibleIs, ReplicaIsAttached
<1>3. next \in Seq(V)
  BY DEF IsSeq
<1>4. Here \in Nat \ {0}
  BY DEF Here
<1>5. Given(r.nodes, Here, counter)
  BY <1>1, <1>2 DEF Given, Inserts
<1> HIDE DEF V, after
<1>6. PICK p, s : EditOperations(new, Here, counter, clock, elements, next, p, s)
  BY <1>2, <1>3, EditOperationsAre
<1>7. /\ Fresh(ToSet(new), Here, counter, clock, Len(new), r.nodes, V)
      /\ new \in Seq(ToSet(new)) /\ Len(new) \in Nat
  BY <1>2, <1>3, <1>4, <1>5, <1>6, EditIsFresh
<1>8. Lawful(r.known \cup ToSet(new))
  <2>1. r.nodes \in SUBSET Inserts(r.known)
    BY <1>2
  <2>2. /\ \A x \in r.known : x.ref \in Anchors(Inserts(r.known))
        /\ \A e \in r.nodes : e.lamport <= clock
    BY <1>2 DEF Replica, Inserts
  <2> QED
    BY <1>1, <1>4, <1>7, <2>1, <2>2, FreshIsLawful
<1>9. Sound(after) /\ after.known = r.known \cup ToSet(new)
  BY <1>1, <1>7, <1>8, ApplyAllSound DEF after
<1>10. Replica(after, counter + Len(new), clock + Len(new), batches, delivering)
  <2>1. Given(after.known, Here, counter + Len(new))
    <3>1. ASSUME NEW x \in r.known
          PROVE  x.id \in Identities /\ (x.id[1] = Here => x.id[2] < counter + Len(new))
      <4>1. x.id \in Identities /\ (x.id[1] = Here => x.id[2] < counter)
        BY <1>1 DEF Given
      <4>2. x.id[2] \in Nat
        BY <4>1 DEF Identities
      <4> QED
        BY <1>7, <4>1, <4>2
    <3>2. ASSUME NEW x \in ToSet(new)
          PROVE  x.id \in Identities /\ (x.id[1] = Here => x.id[2] < counter + Len(new))
      BY <1>7 DEF Fresh
    <3> QED
      BY <1>9, <3>1, <3>2 DEF Given
  <2>2. Anchors(Inserts(r.known)) \subseteq Anchors(Inserts(after.known))
    BY <1>9 DEF Anchors, IdsOf, Inserts
  <2>3. ASSUME NEW x \in r.known
        PROVE  /\ x.id[1] \in {Here, Peer}
               /\ x.id[1] = Peer => x.id[2] <= batches
               /\ x.id[1] = Peer /\ delivering => x.id[2] < batches
               /\ x.lamport <= clock + Len(new)
               /\ x.ref \in Anchors(Inserts(after.known))
    <3>1. x.lamport \in Nat /\ x.lamport <= clock
      BY <1>1 DEF Lawful, Replica
    <3>2. x.lamport <= clock + Len(new)
      BY <1>7, <3>1
    <3> QED
      BY <2>2, <3>2 DEF Replica
  <2>4. ASSUME NEW x \in ToSet(new)
        PROVE  x.id[1] = Here /\ x.lamport <= clock + Len(new) /\ x.ref \in Anchors(Inserts(after.known))
    <3>1. x.ref \in Anchors(r.nodes) \cup IdsOf(Inserts(ToSet(new)))
      BY <1>7 DEF Fresh
    <3>2. IdsOf(Inserts(ToSet(new))) \subseteq Anchors(Inserts(after.known))
      BY <1>9 DEF Anchors, IdsOf, Inserts
    <3> QED
      BY <1>2, <1>7, <2>2, <3>1, <3>2 DEF Fresh
  <2>5. Here # Peer
    BY DEF Here, Peer
  <2>6. Sound(after) /\ \A x \in after.known : x \in r.known \/ x \in ToSet(new)
    BY <1>9
  <2>7. ASSUME NEW x \in after.known
        PROVE  /\ x.id[1] \in {Here, Peer}
               /\ x.id[1] = Peer => x.id[2] <= batches
               /\ x.id[1] = Peer /\ delivering => x.id[2] < batches
               /\ x.lamport <= clock + Len(new)
               /\ x.ref \in Anchors(Inserts(after.known))
    <3>1. CASE x \in r.known
      BY <2>3, <3>1
    <3>2. CASE x \in ToSet(new)
      BY <2>4, <2>5, <3>2
    <3> QED
      BY <2>6, <3>1, <3>2
  <2> QED
    BY <2>1, <2>6, <2>7 DEF Replica
<1>11. /\ r.nodes \subseteq after.nodes
       /\ (\A x \in ToSet(new) : x.id[1] = Here) => Others(after) \subseteq Others(r)
  BY <1>9, <1>10, ShowsLess
<1>12. \A x \in ToSet(new) : x.id[1] = Here
  BY <1>7 DEF Fresh
<1> QED
  BY <1>7, <1>10, <1>11, <1>12 DEF Edited, after

\* applyServerOperations on such a replica.
Batched(r, operation, after) ==
  /\ r.nodes \subseteq after.nodes
  /\ after.known = r.known \cup {operation}

LEMMA BatchApplies ==
  ASSUME NEW r, NEW counter \in Nat, NEW clock \in Nat, NEW batches \in Nat,
         Replica(r, counter, clock, batches, TRUE),
         NEW operation, Offered(operation, batches, r.nodes),
         NEW clock2 \in Nat, clock <= clock2, operation.lamport <= clock2
  PROVE  /\ Replica(ApplyAll(r, <<operation>>), counter, clock2, batches, FALSE)
         /\ Batched(r, operation, ApplyAll(r, <<operation>>))
<1> DEFINE all == r.known \cup {operation}
           after == ApplyAll(r, <<operation>>)
<1>1. Sound(r) /\ Lawful(r.known) /\ Given(r.known, Here, counter)
  BY DEF Replica, Sound
<1>2. r.nodes = Inserts(r.known)
  BY ReplicaIsAttached
<1>3. /\ batches # 0
      /\ operation.kind \in {"insert", "delete"} /\ operation.id = <<Peer, batches>>
      /\ operation.lamport \in Nat
      /\ operation.ref \in Anchors(r.nodes)
      /\ \/ operation.ref = Root
         \/ \E anchor \in r.nodes : anchor.id = operation.ref /\ anchor.lamport < operation.lamport
  BY DEF Offered, Anchors, IdsOf
<1>4. operation.id \in Identities /\ Here # Peer /\ operation.id[1] = Peer /\ operation.id[2] = batches
  BY <1>3 DEF Identities, Peer, Here
<1>5. ASSUME NEW x \in r.known PROVE x.id # operation.id /\ x.ref # operation.id
  <2>1. x.id # operation.id
    <3>1. x.id[1] = Peer => x.id[2] < batches
      BY DEF Replica
    <3> QED
      BY <1>4, <3>1
  <2>2. x.ref = Root \/ \E e \in r.known : e.id = x.ref
    BY DEF Replica, Anchors, IdsOf, Inserts
  <2>3. ASSUME NEW e \in r.known, e.id = operation.id PROVE FALSE
    <3>1. e.id[1] = Peer => e.id[2] < batches
      BY DEF Replica
    <3> QED
      BY <1>4, <2>3, <3>1
  <2>4. operation.id # Root
    BY <1>4, RootIsNoIdentity
  <2> QED
    BY <2>1, <2>2, <2>3, <2>4
<1>6. Lawful(all)
  <2>1. IsFiniteSet(all)
    <3>1. IsFiniteSet(r.known) /\ IsFiniteSet({operation})
      BY <1>1, FS_Singleton DEF Lawful
    <3> QED
      BY <3>1, FS_Union
  <2>2. ASSUME NEW x \in all
        PROVE  x.kind \in {"insert", "delete"} /\ x.id \in Identities /\ x.lamport \in Nat
    BY <1>1, <1>3, <1>4 DEF Lawful
  <2>3. \A a, b \in all : a.id = b.id => a = b
    BY <1>1, <1>5 DEF Lawful
  <2>4. ASSUME NEW a \in Inserts(all), NEW b \in Inserts(all), b.ref = a.id
        PROVE  a.lamport < b.lamport
    <3>1. a \in r.known
      <4>1. SUFFICES ASSUME a = operation PROVE FALSE
        BY DEF Inserts
      <4>2. CASE b = operation
        <5>0. operation.ref = operation.id
          BY <2>4, <4>1, <4>2
        <5>1. operation.ref # Root
          BY <1>4, <5>0, RootIsNoIdentity
        <5>2. PICK e \in r.nodes : e.id = operation.ref
          BY <1>3, <5>1
        <5>3. e \in r.known
          BY <1>2 DEF Inserts
        <5> QED
          BY <1>5, <2>4, <4>1, <4>2, <5>2, <5>3
      <4>3. CASE b \in r.known
        BY <1>5, <2>4, <4>1, <4>3
      <4> QED
        BY <4>2, <4>3 DEF Inserts
    <3>2. CASE b \in r.known
      BY <1>1, <2>4, <3>1, <3>2 DEF Lawful, Inserts
    <3>3. CASE b = operation
      <4>1. a.id \in Identities
        BY <1>1, <3>1 DEF Lawful
      <4>2. PICK e \in r.nodes : e.id = operation.ref /\ e.lamport < operation.lamport
        BY <1>3, <2>4, <3>3, <4>1, RootIsNoIdentity
      <4>3. e = a
        BY <1>1, <1>2, <2>4, <3>1, <3>3, <4>2 DEF Lawful, Inserts
      <4> QED
        BY <3>3, <4>2, <4>3
    <3> QED
      BY <3>2, <3>3 DEF Inserts
  <2> HIDE DEF all
  <2> QED
    BY <2>1, <2>2, <2>3, <2>4 DEF Lawful
<1>7. <<operation>> \in Seq({operation}) /\ ToSet(<<operation>>) = {operation}
  BY DEF ToSet
<1>8. Sound(after) /\ after.known = all
  <2>1. Lawful(r.known \cup ToSet(<<operation>>))
    BY <1>6, <1>7
  <2> DEFINE new == <<operation>>
  <2> HIDE DEF new
  <2>2. new \in Seq({operation}) /\ ToSet(new) = {operation} /\ Lawful(r.known \cup ToSet(new))
    BY <1>7, <2>1 DEF new
  <2>3. Sound(ApplyAll(r, new)) /\ ApplyAll(r, new).known = r.known \cup ToSet(new)
    BY <1>1, <2>2, ApplyAllSound
  <2> QED
    BY <2>2, <2>3 DEF new
<1> HIDE DEF after
<1>9. Replica(after, counter, clock2, batches, FALSE)
  <2>1. Given(after.known, Here, counter)
    BY <1>1, <1>4, <1>8 DEF Given
  <2>2. Anchors(Inserts(r.known)) \subseteq Anchors(Inserts(after.known))
    BY <1>8 DEF Anchors, IdsOf, Inserts
  <2>3. ASSUME NEW x \in r.known
        PROVE  /\ x.id[1] \in {Here, Peer}
               /\ x.id[1] = Peer => x.id[2] <= batches
               /\ x.lamport <= clock2
               /\ x.ref \in Anchors(Inserts(after.known))
    <3>1. x.lamport \in Nat /\ x.lamport <= clock
      BY <1>1 DEF Lawful, Replica
    <3>2. x.lamport <= clock2
      BY <3>1
    <3> QED
      BY <2>2, <3>2 DEF Replica
  <2>4. operation.ref \in Anchors(Inserts(after.known))
    BY <1>2, <1>3, <2>2
  <2>5. operation.id[1] \in {Here, Peer} /\ operation.id[2] <= batches
    BY <1>4
  <2>6. Sound(after) /\ \A x \in after.known : x \in r.known \/ x = operation
    BY <1>8
  <2> QED
    BY <2>1, <2>3, <2>4, <2>5, <2>6 DEF Replica
<1>10. r.nodes \subseteq after.nodes
  BY <1>8, <1>9, ShowsLess
<1> QED
  BY <1>8, <1>9, <1>10 DEF after, Batched

--------------------------------------------------------------------------------
(***************************************************************************)
(* The user types.                                                         *)
(***************************************************************************)

\* When no call is writing it does not matter with which version one began.
LEMMA QueueWithoutServerWrite ==
  ASSUME NEW queue, NEW latest, NEW before, NEW editVersion, Queue(queue, latest, FALSE, before)
  PROVE  Queue(queue, latest, FALSE, editVersion)
BY DEF Queue, OneServerWrite

LEMMA AloneIs ==
  ASSUME QueueInv
  PROVE  Alone <=> handler.phase # "write" /\ AllAlone(writes)
<1>1. DOMAIN writes = 1..Len(writes)
  BY LenProperties DEF QueueInv, Queue, IsSeq
<1> QED
  BY <1>1 DEF Alone, AllAlone

\* What is offered stays so as the replica grows.
LEMMA DeliversStays ==
  ASSUME NEW kind, NEW received, NEW batches, NEW nodes, NEW more, nodes \subseteq more,
         Delivers(kind, received, batches, nodes)
  PROVE  Delivers(kind, received, batches, more)
BY DEF Delivers, Offered

\* A changed text is a text.
LEMMA KeystrokeIs ==
  ASSUME NEW shown, IsSeq(shown), NEW next \in Keystrokes(shown)
  PROVE  IsSeq(next)
<1> DEFINE S == ToSet(shown) \cup Alphabet
           n == Len(shown)
<1>1. shown \in Seq(S) /\ n \in Nat
  <2>1. shown \in Seq(ToSet(shown)) /\ ToSet(shown) \in SUBSET S
    BY DEF IsSeq
  <2> QED
    BY <2>1, SeqSubset, LenProperties
<1>2. DOMAIN shown = 1..n
  BY <1>1, LenProperties
<1>3. CASE \E i \in 1..n + 1, value \in Alphabet : next = InsertAt(shown, i, value)
  <2>1. PICK i \in 1..n + 1, value \in Alphabet : next = InsertAt(shown, i, value)
    BY <1>3
  <2>2. value \in S
    OBVIOUS
  <2> HIDE DEF S
  <2>3. next \in Seq(S)
    BY <1>1, <2>1, <2>2, InsertAtProperties
  <2> QED
    BY <2>3, AnySeq
<1>4. CASE \E i \in 1..n : next = RemoveAt(shown, i)
  <2>1. PICK i \in 1..n : next = RemoveAt(shown, i)
    BY <1>4
  <2> DEFINE left  == SubSeq(shown, 0 + 1, i - 1)
             right == SubSeq(shown, i + 1, n)
  <2>2. next = left \o right
    BY <2>1 DEF RemoveAt
  <2>3. 0 \in Nat /\ i - 1 \in Nat /\ i - 1 <= n /\ i \in Nat /\ n <= n
    BY <1>1
  <2> HIDE DEF S
  <2>4. left \in Seq(S) /\ right \in Seq(S)
    BY <1>1, <2>3, PartOf
  <2> HIDE DEF left, right
  <2>5. next \in Seq(S)
    BY <2>2, <2>4, ConcatProperties
  <2> QED
    BY <2>5, AnySeq
<1> QED
  BY <1>2, <1>3, <1>4 DEF Keystrokes

\* The invariant when it begins.
LEMMA InitInv == Init => IInv
<1> SUFFICES ASSUME Init PROVE IInv
  OBVIOUS
<1>0. IsSeq(<<>>)
  <2>1. \E S : <<>> \in Seq(S)
    <3>1. <<>> \in Seq({})
      BY EmptySeq
    <3> QED
      BY <3>1
  <2> DEFINE empty == <<>>
  <2> HIDE DEF empty
  <2>2. (\E S : empty \in Seq(S)) => IsSeq(empty)
    BY AnySeq
  <2> QED
    BY <2>1, <2>2 DEF empty
<1>1. /\ writes = <<>> /\ Len(writes) = 0 /\ 1..Len(writes) = {}
      /\ IsSeq(writes) /\ IsSeq(text)
  <2>1. writes = <<>> /\ text = <<>>
    BY DEF Init
  <2>2. IsSeq(writes) /\ IsSeq(text)
    BY <1>0, <2>1
  <2>3. Len(writes) = 0
    BY <2>1, EmptySeq
  <2> QED
    BY <2>1, <2>2, <2>3
<1>2. NumbersInv
  <2>1. /\ nextCounter \in Nat \ {0} /\ lamportClock \in Nat /\ version \in Nat
        /\ used \in [typed : Nat, batches : Nat, compositions : Nat, failures : Nat]
        /\ composing \in BOOLEAN /\ holding \in BOOLEAN
    <3>1. nextCounter = 1 /\ lamportClock = 0 /\ version = 0 /\ composing = FALSE /\ holding = FALSE
      BY DEF Init
    <3>2. used = [typed |-> 0, batches |-> 0, compositions |-> 0, failures |-> 0]
      BY DEF Init
    <3>3. composing \in BOOLEAN /\ holding \in BOOLEAN
      BY <3>1
    <3>4. nextCounter \in Nat \ {0} /\ lamportClock \in Nat /\ version \in Nat
      BY <3>1
    <3>5. used \in [typed : Nat, batches : Nat, compositions : Nat, failures : Nat]
      BY <3>2
    <3> QED
      BY <3>3, <3>4, <3>5
  <2>2. IsSeq(text)
    BY <1>1
  <2> QED
    BY <2>1, <2>2 DEF NumbersInv
<1>3. ReplicaInv
  BY EmptySound DEF Init, ReplicaInv, Replica, Given
<1>4. HandlerInv
  BY <1>1 DEF Init, HandlerInv, Idle
<1>5. QueueInv
  BY <1>1 DEF Init, QueueInv, Queue, EditsInOrder, EditQueued, OneServerWrite, Idle
<1>6. GateInv
  BY DEF Init, GateInv
<1>7. ToSet(VisibleElements(EmptyReplica)) = {} /\ Len(VisibleElements(EmptyReplica)) = 0
  <2>1. EmptyReplica.nodes = {}
    BY DEF EmptyReplica
  <2>2. VisibleElements(EmptyReplica) \in Seq({}) /\ ToSet(VisibleElements(EmptyReplica)) = {}
    BY <2>1, EmptySound, VisibleIs
  <2>3. Len(VisibleElements(EmptyReplica)) = 0
    <3>1. \A i \in 1..Len(VisibleElements(EmptyReplica)) : VisibleElements(EmptyReplica)[i] \in {}
      BY <2>2, ElementOfSeq
    <3>2. Len(VisibleElements(EmptyReplica)) \in Nat
      BY <2>2, LenProperties
    <3>3. 1 \notin 1..Len(VisibleElements(EmptyReplica))
      BY <3>1
    <3> QED
      BY <3>2, <3>3
  <2> QED
    BY <2>2, <2>3
<1>8. TextInv
  <2> DEFINE elements == VisibleElements(EmptyReplica)
  <2>1. elements = <<>>
    <3>1. elements \in Seq(EmptyReplica.nodes)
      BY EmptySound, VisibleIs
    <3> QED
      BY <1>7, <3>1, EmptySeq
  <2>2. Materialize(EmptyReplica) = <<>>
    <3>1. DOMAIN elements = {}
      BY <2>1
    <3> QED
      BY <3>1 DEF Materialize, Values
  <2> QED
    BY <2>2 DEF Init, TextInv
<1>9. BasisInv
  BY <1>1, <1>7 DEF Init, BasisInv, Others, IdsOf
<1> QED
  BY <1>2, <1>3, <1>4, <1>5, <1>6, <1>8, <1>9 DEF IInv

\* What a commit does to the queue.
Committed(releases) ==
  /\ QueueInv' /\ HandlerInv' /\ BasisInv'
  /\ EditQueued(writes')
  /\ \E i \in 1..Len(writes') :
       writes'[i].kind = "replace" /\ writes'[i].releases = releases /\ writes'[i].version = version'

LEMMA CommitTextInv ==
  ASSUME IInv, NEW next, IsSeq(next), NEW releases \in BOOLEAN, CommitText(next, releases),
         UNCHANGED <<basis, replica, handler>>, used'.batches = used.batches
  PROVE  Committed(releases)
<1> DEFINE write == [kind |-> "replace", next |-> next, version |-> version + 1,
                     releases |-> releases, basis |-> basis, alone |-> Alone]
           n == Len(writes)
<1>1. /\ writes' = Append(writes, write) /\ version' = version + 1 /\ version \in Nat
      /\ QueueInv /\ HandlerInv /\ BasisInv
  BY DEF CommitText, IInv, NumbersInv
<1>2. Alone <=> handler.phase # "write" /\ AllAlone(writes)
  BY <1>1, AloneIs
<1>3. /\ write.kind = "replace" /\ write.next = next /\ write.version = version + 1
      /\ write.releases = releases /\ write.basis = basis
      /\ write.alone <=> handler.phase # "write" /\ AllAlone(writes)
      /\ write.alone \in BOOLEAN
  BY <1>2 DEF Alone
<1> HIDE DEF write
<1>4. IsWrite(write)
  BY <1>1, <1>3 DEF IsWrite
<1>5. Appended(writes, write, writes')
  BY <1>1, AppendIs DEF QueueInv, Queue
<1>6. /\ n \in Nat /\ Len(writes') = n + 1 /\ n + 1 \in 1..n + 1
      /\ \A i \in 1..n : writes'[i] = writes[i] /\ i \in 1..n + 1
      /\ writes'[n + 1] = write
      /\ \A i \in 1..n + 1 : i \in 1..n \/ i = n + 1
  BY <1>5 DEF Appended
<1>7. QueueInv'
  <2>1. Queue(writes, version, handler.phase = "write", handler.editVersion)
    BY <1>1 DEF QueueInv
  <2>2. Queue(Append(writes, write), version + 1, handler.phase = "write", handler.editVersion)
    BY <1>3, <1>4, <2>1, QueueWithEdit
  <2>3. Queue(writes', version', handler.phase = "write", handler.editVersion) /\ handler' = handler
    BY <1>1, <2>2
  <2> QED
    BY <2>3 DEF QueueInv
<1>8. HandlerInv'
  <2>1. handler' = handler /\ replica' = replica /\ used'.batches = used.batches
    OBVIOUS
  <2>2. handler.phase = "idle" => handler.ahead \in 0..n + 1
    BY <1>1, <1>6 DEF HandlerInv
  <2>3. ASSUME NEW i \in 1..n + 1, writes'[i].kind # "replace"
        PROVE  Delivers(writes'[i].kind, writes'[i].received, used.batches, replica.nodes)
    <3>1. i \in 1..n /\ writes'[i] = writes[i]
      BY <1>3, <1>6, <2>3
    <3> QED
      BY <1>1, <2>3, <3>1 DEF HandlerInv
  <2> QED
    BY <1>1, <1>6, <2>1, <2>2, <2>3 DEF HandlerInv
<1>9. BasisInv'
  <2>1. basis' = basis /\ replica' = replica
    OBVIOUS
  <2>2. AllAlone(writes') => AllAlone(writes)
    BY <1>6 DEF AllAlone
  <2>3. ASSUME NEW i \in 1..n + 1, writes'[i].kind = "replace", writes'[i].alone
        PROVE  Others(replica) \subseteq writes'[i].basis
    <3>1. CASE i \in 1..n
      BY <1>1, <1>6, <2>3, <3>1 DEF BasisInv
    <3>2. CASE i = n + 1
      BY <1>1, <1>3, <1>6, <2>3, <3>2 DEF BasisInv
    <3> QED
      BY <1>6, <3>1, <3>2
  <2> QED
    BY <1>1, <1>6, <2>1, <2>2, <2>3 DEF BasisInv
<1>10. EditQueued(writes')
  BY <1>3, <1>6 DEF EditQueued
<1>11. \E i \in 1..Len(writes') : writes'[i].kind = "replace" /\ writes'[i].releases = releases
                                  /\ writes'[i].version = version'
  BY <1>1, <1>3, <1>6
<1> QED
  BY <1>7, <1>8, <1>9, <1>10, <1>11 DEF Committed

LEMMA TypeInv ==
  ASSUME IInv, NEW next \in Keystrokes(text), Type(next)
  PROVE  IInv'
<1>1. /\ UNCHANGED <<basis, composing, holding, replica, nextCounter, lamportClock, handler>>
      /\ used' = [used EXCEPT !.typed = @ + 1]
      /\ text' = next
  BY DEF Type, CommitText
<1>2. NumbersInv /\ ReplicaInv /\ HandlerInv /\ QueueInv /\ GateInv /\ TextInv /\ BasisInv
  BY DEF IInv
<1>3. /\ used'.batches = used.batches
      /\ used' \in [typed : Nat, batches : Nat, compositions : Nat, failures : Nat]
  BY <1>1, <1>2 DEF NumbersInv
<1>4. IsSeq(next)
  BY <1>2, KeystrokeIs DEF NumbersInv
<1>5. ReplicaInv'
  <2>1. Replica(replica, nextCounter, lamportClock, used.batches, handler.phase # "none")
    BY <1>2 DEF ReplicaInv
  <2> QED
    BY <1>1, <1>3, <2>1 DEF ReplicaInv
<1>6. CASE composing \/ holding
  <2>1. version' = version /\ writes' = writes
    BY <1>6 DEF Type
  <2>2. NumbersInv'
    BY <1>1, <1>2, <1>3, <1>4, <2>1 DEF NumbersInv
  <2>3. HandlerInv'
    BY <1>1, <1>2, <1>3, <2>1 DEF HandlerInv
  <2>4. QueueInv'
    BY <1>1, <1>2, <2>1 DEF QueueInv
  <2>5. GateInv'
    BY <1>1, <1>2, <2>1 DEF GateInv
  <2>6. TextInv'
    <3>1. ~composing => EditQueued(writes)
      BY <1>2, <1>6 DEF GateInv, EditQueued
    <3> QED
      BY <1>1, <2>1, <3>1 DEF TextInv
  <2>7. BasisInv'
    BY <1>1, <1>2, <2>1 DEF BasisInv
  <2> QED
    BY <1>5, <2>2, <2>3, <2>4, <2>5, <2>6, <2>7 DEF IInv
<1>7. CASE ~(composing \/ holding)
  <2>1. CommitText(next, FALSE)
    BY <1>7 DEF Type
  <2>2. Committed(FALSE)
    BY <1>1, <1>3, <1>4, <2>1, CommitTextInv
  <2>3. version' = version + 1 /\ ~holding'
    BY <1>1, <1>7, <2>1 DEF CommitText
  <2>4. NumbersInv'
    BY <1>1, <1>2, <1>3, <1>4, <2>3 DEF NumbersInv
  <2>5. GateInv'
    BY <2>3 DEF GateInv
  <2>6. TextInv'
    BY <2>2 DEF TextInv, Committed
  <2> QED
    BY <1>5, <2>2, <2>4, <2>5, <2>6 DEF IInv, Committed
<1> QED
  BY <1>6, <1>7

LEMMA CompositionStartInv ==
  ASSUME IInv, CompositionStart
  PROVE  IInv'
<1>1. /\ UNCHANGED <<text, basis, version, replica, nextCounter, lamportClock, writes, handler>>
      /\ used' = [used EXCEPT !.compositions = @ + 1]
      /\ composing' = TRUE /\ holding' = TRUE
  BY DEF CompositionStart
<1>2. NumbersInv /\ ReplicaInv /\ HandlerInv /\ QueueInv /\ BasisInv
  BY DEF IInv
<1>3. /\ used'.batches = used.batches
      /\ used' \in [typed : Nat, batches : Nat, compositions : Nat, failures : Nat]
  BY <1>1, <1>2 DEF NumbersInv
<1>4. NumbersInv'
  BY <1>1, <1>2, <1>3 DEF NumbersInv
<1>5. ReplicaInv'
  BY <1>1, <1>2, <1>3 DEF ReplicaInv
<1>6. HandlerInv'
  BY <1>1, <1>2, <1>3 DEF HandlerInv
<1>7. QueueInv'
  BY <1>1, <1>2 DEF QueueInv
<1>8. GateInv' /\ TextInv'
  BY <1>1 DEF GateInv, TextInv
<1>9. BasisInv'
  BY <1>1, <1>2 DEF BasisInv
<1> QED
  BY <1>4, <1>5, <1>6, <1>7, <1>8, <1>9 DEF IInv

LEMMA CompositionEndInv ==
  ASSUME IInv, CompositionEnd
  PROVE  IInv'
<1>1. /\ UNCHANGED <<basis, holding, replica, nextCounter, lamportClock, handler, used>>
      /\ composing' = FALSE /\ text' = text /\ version' = version + 1
      /\ CommitText(text, TRUE)
  BY DEF CompositionEnd, CommitText
<1>2. NumbersInv /\ ReplicaInv
  BY DEF IInv
<1>3. Committed(TRUE)
  <2>1. IsSeq(text)
    BY <1>2 DEF NumbersInv
  <2> QED
    BY <1>1, <2>1, CommitTextInv
<1>4. NumbersInv'
  <2>1. composing' \in BOOLEAN
    BY <1>1
  <2> QED
    BY <1>1, <1>2, <2>1 DEF NumbersInv
<1>5. ReplicaInv'
  BY <1>1, <1>2 DEF ReplicaInv
<1>6. GateInv'
  BY <1>3 DEF GateInv, Committed
<1>7. TextInv'
  BY <1>3 DEF TextInv, Committed
<1> QED
  BY <1>3, <1>4, <1>5, <1>6, <1>7 DEF IInv, Committed

--------------------------------------------------------------------------------
(***************************************************************************)
(* A batch or a snapshot comes and waits for its turn.                     *)
(***************************************************************************)

LEMMA PeerOffers ==
  ASSUME IInv, NEW operation \in PeerOperations
  PROVE  Offered(operation, used.batches + 1, replica.nodes)
<1> DEFINE visible == IdsOf(ToSet(VisibleElements(replica)))
           id      == <<Peer, used.batches + 1>>
<1>1. used.batches \in Nat /\ lamportClock \in Nat
  BY DEF IInv, NumbersInv
<1>2. Replica(replica, nextCounter, lamportClock, used.batches, handler.phase # "none")
  BY DEF IInv, ReplicaInv
<1>3. visible \subseteq IdsOf(replica.nodes)
  BY <1>2, ShownIs DEF Replica
<1> HIDE DEF visible
<1>4. /\ operation.kind \in {"insert", "delete"} /\ operation.id = id
      /\ operation.lamport = lamportClock + 1
      /\ operation.ref \in visible \cup {Root}
  BY DEF PeerOperations, Insert, Delete, visible
<1>5. ASSUME operation.ref # Root
      PROVE  \E anchor \in replica.nodes :
               anchor.id = operation.ref /\ anchor.lamport < operation.lamport
  <2>1. PICK anchor \in replica.nodes : anchor.id = operation.ref
    BY <1>3, <1>4, <1>5 DEF IdsOf
  <2>2. anchor \in replica.known
    BY <1>2, ReplicaIsAttached DEF Inserts
  <2>3. anchor.lamport \in Nat /\ anchor.lamport <= lamportClock
    BY <1>2, <2>2 DEF Replica, Sound, Lawful
  <2>4. anchor.lamport < operation.lamport
    BY <1>1, <1>4, <2>3
  <2> QED
    BY <2>1, <2>4
<1>6. used.batches + 1 \in Nat \ {0} /\ operation.lamport \in Nat
  BY <1>1, <1>4
<1> QED
  BY <1>4, <1>5, <1>6 DEF Offered

\* A call begins.
LEMMA ArrivalInv ==
  ASSUME IInv, NEW operation \in PeerOperations, NEW kind \in {"apply", "install"},
         kind = "install" => operation.kind = "insert" /\ operation.ref = Root,
         handler = Idle, used' = [used EXCEPT !.batches = @ + 1],
         PassesGate(kind, <<operation>>),
         UNCHANGED <<text, basis, version, composing, holding, replica, nextCounter,
                     lamportClock, writes>>
  PROVE  IInv'
<1>1. NumbersInv /\ ReplicaInv /\ HandlerInv /\ QueueInv /\ GateInv /\ TextInv /\ BasisInv
  BY DEF IInv
<1>2. /\ used'.batches = used.batches + 1 /\ used.batches \in Nat
      /\ used' \in [typed : Nat, batches : Nat, compositions : Nat, failures : Nat]
  BY <1>1 DEF NumbersInv
<1>3. Offered(operation, used'.batches, replica.nodes)
  BY <1>2, PeerOffers
<1>4. handler.phase = "none"
  BY DEF Idle
<1>5. /\ handler'.phase \in {"gate", "idle"} /\ handler'.kind = kind
      /\ handler'.received = <<operation>>
      /\ handler'.phase = "idle" =>
           /\ handler'.ahead = (IF kind = "apply" THEN Len(writes) ELSE 0)
           /\ handler' = [phase |-> "idle", kind |-> kind, received |-> <<operation>>,
                          ahead |-> handler'.ahead]
  BY DEF PassesGate
<1>6. Queue(writes, version, FALSE, handler.editVersion)
  <2>1. (handler.phase = "write") = FALSE
    BY <1>4
  <2> QED
    BY <1>1, <2>1 DEF QueueInv
<1>7. NumbersInv'
  BY <1>1, <1>2 DEF NumbersInv
<1>8. ReplicaInv'
  <2>1. Replica(replica, nextCounter, lamportClock, used.batches, handler.phase # "none")
    BY <1>1 DEF ReplicaInv
  <2>2. ASSUME NEW x \in replica.known, x.id[1] = Peer
        PROVE  x.id[2] <= used.batches + 1 /\ x.id[2] < used.batches + 1
    <3>1. x.id[2] \in Nat
      BY <2>1 DEF Replica, Given, Identities
    <3>2. x.id[2] <= used.batches
      BY <2>1, <2>2 DEF Replica
    <3> QED
      BY <1>2, <3>1, <3>2
  <2>3. Replica(replica, nextCounter, lamportClock, used.batches + 1, TRUE)
    BY <2>1, <2>2 DEF Replica
  <2>4. (handler'.phase # "none") = TRUE
    BY <1>5
  <2>5. Replica(replica', nextCounter', lamportClock', used'.batches, handler'.phase # "none")
    BY <1>2, <2>3, <2>4
  <2> QED
    BY <2>5 DEF ReplicaInv
<1>9. HandlerInv'
  <2>1. Delivers(handler'.kind, handler'.received, used'.batches, replica'.nodes)
    <3>1. operation \in ToSet(<<operation>>)
      BY DEF ToSet
    <3> QED
      BY <1>3, <1>5, <3>1 DEF Delivers
  <2>2. handler'.phase = "idle" => handler'.ahead \in 0..Len(writes)
    <3>1. Len(writes) \in Nat
      BY <1>6, LenProperties DEF Queue, IsSeq
    <3> QED
      BY <1>5, <3>1
  <2>3. \A i \in 1..Len(writes) : writes[i].kind = "replace"
    BY <1>6 DEF Queue, OneServerWrite
  <2> QED
    BY <1>5, <2>1, <2>2, <2>3 DEF HandlerInv
<1>10. QueueInv'
  <2>1. Queue(writes, version, FALSE, handler'.editVersion)
    BY <1>6, QueueWithoutServerWrite
  <2>2. (handler'.phase = "write") = FALSE
    BY <1>5
  <2>3. Queue(writes', version', handler'.phase = "write", handler'.editVersion)
    BY <2>1, <2>2
  <2> QED
    BY <2>3 DEF QueueInv
<1>11. GateInv' /\ TextInv' /\ BasisInv'
  BY <1>1 DEF GateInv, TextInv, BasisInv
<1> QED
  BY <1>7, <1>8, <1>9, <1>10, <1>11 DEF IInv

LEMMA PassGateInv ==
  ASSUME IInv, PassGate
  PROVE  IInv'
<1>1. NumbersInv /\ ReplicaInv /\ HandlerInv /\ QueueInv /\ GateInv /\ TextInv /\ BasisInv
  BY DEF IInv
<1>2. /\ handler.phase = "gate" /\ ~holding
      /\ UNCHANGED <<text, basis, version, composing, holding, replica, nextCounter,
                     lamportClock, writes, used>>
  BY DEF PassGate
<1>3. /\ handler'.phase = "idle" /\ handler'.kind = handler.kind
      /\ handler'.received = handler.received
      /\ handler'.ahead = (IF handler.kind = "apply" THEN Len(writes) ELSE 0)
      /\ handler' = [phase |-> "idle", kind |-> handler.kind, received |-> handler.received,
                     ahead |-> handler'.ahead]
  BY <1>2 DEF PassGate, PassesGate
<1>4. Queue(writes, version, FALSE, handler.editVersion)
  <2>1. (handler.phase = "write") = FALSE
    BY <1>2
  <2> QED
    BY <1>1, <2>1 DEF QueueInv
<1>5. NumbersInv'
  BY <1>1, <1>2 DEF NumbersInv
<1>6. ReplicaInv'
  <2>1. Replica(replica, nextCounter, lamportClock, used.batches, handler.phase # "none")
    BY <1>1 DEF ReplicaInv
  <2>2. (handler'.phase # "none") = (handler.phase # "none")
    BY <1>2, <1>3
  <2>3. Replica(replica', nextCounter', lamportClock', used'.batches, handler'.phase # "none")
    BY <1>2, <2>1, <2>2
  <2> QED
    BY <2>3 DEF ReplicaInv
<1>7. HandlerInv'
  <2>1. Delivers(handler.kind, handler.received, used.batches, replica.nodes)
    BY <1>1, <1>2 DEF HandlerInv
  <2>2. Len(writes) \in Nat
    BY <1>4, LenProperties DEF Queue, IsSeq
  <2>3. handler'.ahead \in 0..Len(writes)
    BY <1>3, <2>2
  <2>4. \A i \in 1..Len(writes) : writes[i].kind = "replace"
    BY <1>4 DEF Queue, OneServerWrite
  <2> QED
    BY <1>2, <1>3, <2>1, <2>3, <2>4 DEF HandlerInv
<1>8. QueueInv'
  <2>1. Queue(writes, version, FALSE, handler'.editVersion)
    BY <1>4, QueueWithoutServerWrite
  <2>2. (handler'.phase = "write") = FALSE
    BY <1>3
  <2>3. Queue(writes', version', handler'.phase = "write", handler'.editVersion)
    BY <1>2, <2>1, <2>2
  <2> QED
    BY <2>3 DEF QueueInv
<1>9. GateInv' /\ TextInv' /\ BasisInv'
  BY <1>1, <1>2 DEF GateInv, TextInv, BasisInv
<1> QED
  BY <1>5, <1>6, <1>7, <1>8, <1>9 DEF IInv

LEMMA PassIdleInv ==
  ASSUME IInv, PassIdle
  PROVE  IInv'
<1> DEFINE write == [kind |-> handler.kind, received |-> handler.received, alone |-> TRUE]
           n == Len(writes)
<1>1. NumbersInv /\ ReplicaInv /\ HandlerInv /\ QueueInv /\ GateInv /\ TextInv /\ BasisInv
  BY DEF IInv
<1>2. /\ handler.phase = "idle"
      /\ writes' = Append(writes, write)
      /\ handler' = [phase |-> "write", editVersion |-> version]
      /\ UNCHANGED <<text, basis, version, composing, holding, replica, nextCounter,
                     lamportClock, used>>
  BY DEF PassIdle
<1>3. Delivers(handler.kind, handler.received, used.batches, replica.nodes)
  BY <1>1, <1>2 DEF HandlerInv
<1>4. /\ write.kind = handler.kind /\ write.received = handler.received
      /\ write.kind \in {"apply", "install"} /\ write.alone
      /\ write.alone \in BOOLEAN
  BY <1>3 DEF Delivers
<1> HIDE DEF write
<1>5. IsWrite(write)
  BY <1>4 DEF IsWrite
<1>6. Queue(writes, version, FALSE, handler.editVersion)
  <2>1. (handler.phase = "write") = FALSE
    BY <1>2
  <2> QED
    BY <1>1, <2>1 DEF QueueInv
<1>7. Appended(writes, write, writes')
  BY <1>2, <1>6, AppendIs DEF Queue
<1>8. /\ n \in Nat /\ Len(writes') = n + 1 /\ n + 1 \in 1..n + 1
      /\ \A i \in 1..n : writes'[i] = writes[i] /\ i \in 1..n + 1
      /\ writes'[n + 1] = write
      /\ \A i \in 1..n + 1 : i \in 1..n \/ i = n + 1
  BY <1>7 DEF Appended
<1>9. NumbersInv'
  BY <1>1, <1>2 DEF NumbersInv
<1>10. ReplicaInv'
  <2>1. Replica(replica, nextCounter, lamportClock, used.batches, handler.phase # "none")
    BY <1>1 DEF ReplicaInv
  <2>2. (handler'.phase # "none") = (handler.phase # "none")
    BY <1>2
  <2>3. Replica(replica', nextCounter', lamportClock', used'.batches, handler'.phase # "none")
    BY <1>2, <2>1, <2>2
  <2> QED
    BY <2>3 DEF ReplicaInv
<1>11. HandlerInv'
  <2>1. \A i \in 1..n : writes[i].kind = "replace"
    BY <1>6 DEF Queue, OneServerWrite
  <2>2. ASSUME NEW i \in 1..n + 1, writes'[i].kind # "replace"
        PROVE  Delivers(writes'[i].kind, writes'[i].received, used.batches, replica.nodes)
    BY <1>3, <1>4, <1>8, <2>1, <2>2
  <2>3. handler'.phase = "write"
    BY <1>2
  <2> QED
    BY <1>2, <1>8, <2>2, <2>3 DEF HandlerInv
<1>12. QueueInv'
  <2>1. Queue(Append(writes, write), version, TRUE, version)
    BY <1>4, <1>5, <1>6, QueueWithServerWrite
  <2>2. (handler'.phase = "write") = TRUE /\ handler'.editVersion = version
    BY <1>2
  <2>3. Queue(writes', version', handler'.phase = "write", handler'.editVersion)
    BY <1>2, <2>1, <2>2
  <2> QED
    BY <2>3 DEF QueueInv
<1>13. GateInv'
  <2>1. ASSUME holding, ~composing
        PROVE  \E i \in 1..n + 1 :
                 writes'[i].kind = "replace" /\ writes'[i].releases /\ writes'[i].version = version
    <3>1. PICK i \in 1..n :
            writes[i].kind = "replace" /\ writes[i].releases /\ writes[i].version = version
      BY <1>1, <2>1 DEF GateInv
    <3> QED
      BY <1>8, <3>1
  <2> QED
    BY <1>2, <1>8, <2>1 DEF GateInv
<1>14. TextInv'
  <2>1. EditQueued(writes) => EditQueued(writes')
    BY <1>8 DEF EditQueued
  <2> QED
    BY <1>1, <1>2, <2>1 DEF TextInv
<1>15. BasisInv'
  <2>1. AllAlone(writes') => AllAlone(writes)
    BY <1>8 DEF AllAlone
  <2>2. ASSUME NEW i \in 1..n + 1, writes'[i].kind = "replace", writes'[i].alone
        PROVE  Others(replica) \subseteq writes'[i].basis
    <3>1. i \in 1..n
      BY <1>4, <1>8, <2>2
    <3> QED
      BY <1>1, <1>8, <2>2, <3>1 DEF BasisInv
  <2> QED
    BY <1>1, <1>2, <1>8, <2>1, <2>2 DEF BasisInv
<1> QED
  BY <1>9, <1>10, <1>11, <1>12, <1>13, <1>14, <1>15 DEF IInv

--------------------------------------------------------------------------------
(***************************************************************************)
(* A write completes.                                                      *)
(***************************************************************************)

\* What both kinds of write leave of the queue and of what was offered.
LEMMA DeliversLater ==
  ASSUME HandlerInv, QueueInv, writes # <<>>, writes' = Tail(writes),
         used'.batches = used.batches, replica.nodes \subseteq replica'.nodes
  PROVE  /\ \A i \in 1..Len(writes') : writes'[i].kind # "replace" =>
              Delivers(writes'[i].kind, writes'[i].received, used'.batches, replica'.nodes)
         /\ handler.phase \in {"gate", "idle"} =>
              Delivers(handler.kind, handler.received, used'.batches, replica'.nodes)
<1>1. \A i \in 1..Len(writes') : writes'[i] = writes[i + 1] /\ i + 1 \in 1..Len(writes)
  BY HeadLeaves DEF QueueInv
<1>2. ASSUME NEW i \in 1..Len(writes'), writes'[i].kind # "replace"
      PROVE  Delivers(writes'[i].kind, writes'[i].received, used'.batches, replica'.nodes)
  <2>1. Delivers(writes'[i].kind, writes'[i].received, used.batches, replica.nodes)
    BY <1>1, <1>2 DEF HandlerInv
  <2> QED
    BY <2>1, DeliversStays
<1>3. ASSUME handler.phase \in {"gate", "idle"}
      PROVE  Delivers(handler.kind, handler.received, used'.batches, replica'.nodes)
  <2>1. Delivers(handler.kind, handler.received, used.batches, replica.nodes)
    BY <1>3 DEF HandlerInv
  <2> QED
    BY <2>1, DeliversStays
<1> QED
  BY <1>2, <1>3

\* A commit that is queued and is not the write that leaves stays queued.
LEMMA GateLater ==
  ASSUME GateInv, QueueInv, writes # <<>>, writes' = Tail(writes),
         holding' => holding /\ ~(Head(writes).kind = "replace" /\ Head(writes).releases),
         UNCHANGED <<composing, version>>
  PROVE  GateInv'
<1>1. /\ Head(writes) = writes[1]
      /\ \A i \in 1..Len(writes) : i # 1 => i - 1 \in 1..Len(writes') /\ writes[i] = writes'[i - 1]
  BY HeadLeaves DEF QueueInv
<1>2. ASSUME holding', ~composing
      PROVE  \E i \in 1..Len(writes') :
               writes'[i].kind = "replace" /\ writes'[i].releases /\ writes'[i].version = version
  <2>1. PICK i \in 1..Len(writes) :
          writes[i].kind = "replace" /\ writes[i].releases /\ writes[i].version = version
    BY <1>2 DEF GateInv
  <2>2. i # 1
    BY <1>1, <1>2, <2>1
  <2>3. i - 1 \in 1..Len(writes') /\ writes[i] = writes'[i - 1]
    BY <1>1, <2>2
  <2> QED
    BY <2>1, <2>3
<1> QED
  BY <1>2 DEF GateInv

\* The replica that a completed write leaves.
Replaced(delivering) ==
  /\ nextCounter' \in Nat \ {0} /\ lamportClock' \in Nat
  /\ used' \in [typed : Nat, batches : Nat, compositions : Nat, failures : Nat]
  /\ used'.batches = used.batches
  /\ Replica(replica', nextCounter', lamportClock', used.batches, delivering)
  /\ replica.nodes \subseteq replica'.nodes

\* What is shown of it is part of it.
LEMMA ShowIs ==
  ASSUME NEW current, Sound(current), Show(current)
  PROVE  /\ IsSeq(text') /\ text' = Materialize(current)
         /\ basis' \subseteq IdsOf(current.nodes)
         /\ Others(current) \subseteq basis'
BY ShownIs DEF Show

\* A call that waits for the writes before it has one less to wait for.
Waits ==
  /\ handler'.phase = handler.phase
  /\ handler.phase # "idle" => handler' = handler
  /\ handler.phase = "idle" =>
       /\ handler'.kind = handler.kind /\ handler'.received = handler.received
       /\ handler'.ahead \in 0..Len(writes')
       /\ handler' = [phase |-> "idle", kind |-> handler'.kind, received |-> handler'.received,
                      ahead |-> handler'.ahead]

LEMMA OneLessAheadIs ==
  ASSUME HandlerInv, QueueInv, Quiet, writes # <<>>, writes' = Tail(writes), OneLessAhead
  PROVE  Waits
<1>1. Len(writes) \in Nat \ {0} /\ Len(writes') = Len(writes) - 1
  BY TailIs DEF QueueInv, Queue, Shortened
<1>2. CASE handler.phase = "idle"
  <2>1. /\ handler = [phase |-> "idle", kind |-> handler.kind, received |-> handler.received,
                      ahead |-> handler.ahead]
        /\ handler.ahead \in 0..Len(writes) /\ handler.ahead # 0
    BY <1>2 DEF HandlerInv, Quiet
  <2>2. handler' = [handler EXCEPT !.ahead = handler.ahead - 1]
    BY <1>2 DEF OneLessAhead
  <2>3. /\ handler'.phase = "idle" /\ handler'.kind = handler.kind
        /\ handler'.received = handler.received /\ handler'.ahead = handler.ahead - 1
        /\ handler' = [phase |-> "idle", kind |-> handler.kind, received |-> handler.received,
                       ahead |-> handler.ahead - 1]
    BY <2>1, <2>2
  <2>4. handler.ahead - 1 \in 0..Len(writes')
    BY <1>1, <2>1
  <2> QED
    BY <1>2, <2>3, <2>4 DEF Waits
<1>3. CASE handler.phase # "idle"
  BY <1>3 DEF OneLessAhead, Waits
<1> QED
  BY <1>2, <1>3

\* An edit completes or fails.
LEMMA EditLeaves ==
  ASSUME IInv, WriteEnds, Head(writes).kind = "replace", Replaced(handler.phase # "none"),
         Others(replica') \subseteq Others(replica),
         CommitReturns(Head(writes), replica'), UNCHANGED <<version, composing>>
  PROVE  IInv'
<1> DEFINE head == Head(writes)
<1>1. NumbersInv /\ ReplicaInv /\ HandlerInv /\ QueueInv /\ GateInv /\ TextInv /\ BasisInv
  BY DEF IInv
<1>2. writes # <<>> /\ writes' = Tail(writes) /\ Quiet
  BY DEF WriteEnds
<1>3. /\ IsWrite(head) /\ head = writes[1] /\ 1 \in 1..Len(writes)
      /\ \A i \in 1..Len(writes') : writes'[i] = writes[i + 1] /\ i + 1 \in 1..Len(writes)
      /\ \A i \in 1..Len(writes) : i # 1 => i - 1 \in 1..Len(writes') /\ writes[i] = writes'[i - 1]
  BY <1>1, <1>2, HeadLeaves DEF QueueInv
<1>4. head.releases \in BOOLEAN /\ holding \in BOOLEAN
  BY <1>1, <1>3 DEF IsWrite, NumbersInv
<1>5. /\ head.version = version => Show(replica')
      /\ head.version # version => UNCHANGED <<text, basis>>
      /\ holding' = (holding /\ ~head.releases)
      /\ OneLessAhead
  BY DEF CommitReturns
<1>6. Sound(replica')
  BY DEF Replaced, Replica
<1>7. ~EditQueued(writes') => head.version = version
  <2>1. SUFFICES ASSUME ~EditQueued(writes') PROVE head.version = version
    OBVIOUS
  <2>2. EditQueued(writes)
    BY <1>3 DEF EditQueued
  <2>3. PICK i \in 1..Len(writes) : writes[i].kind = "replace" /\ writes[i].version = version
    BY <1>1, <2>2 DEF QueueInv, Queue, EditsInOrder
  <2>4. i = 1
    <3>1. SUFFICES ASSUME i # 1 PROVE FALSE
      OBVIOUS
    <3>2. i - 1 \in 1..Len(writes') /\ writes'[i - 1] = writes[i]
      BY <1>3, <3>1
    <3> QED
      BY <2>1, <2>3, <3>2 DEF EditQueued
  <2> QED
    BY <1>3, <2>3, <2>4
<1>8. Waits
  BY <1>1, <1>2, <1>5, OneLessAheadIs
<1>9. NumbersInv'
  <2>1. IsSeq(text')
    BY <1>1, <1>5, <1>6, ShowIs DEF NumbersInv
  <2>2. holding' \in BOOLEAN
    BY <1>4, <1>5
  <2>3. composing' \in BOOLEAN /\ version' \in Nat
    BY <1>1 DEF NumbersInv
  <2> QED
    BY <2>1, <2>2, <2>3 DEF NumbersInv, Replaced
<1>10. ReplicaInv'
  <2>1. (handler'.phase # "none") = (handler.phase # "none")
    BY <1>8 DEF Waits
  <2>2. Replica(replica', nextCounter', lamportClock', used'.batches, handler'.phase # "none")
    BY <2>1 DEF Replaced
  <2> QED
    BY <2>2 DEF ReplicaInv
<1>11. HandlerInv'
  <2>1. /\ \A i \in 1..Len(writes') : writes'[i].kind # "replace" =>
              Delivers(writes'[i].kind, writes'[i].received, used'.batches, replica'.nodes)
        /\ handler.phase \in {"gate", "idle"} =>
              Delivers(handler.kind, handler.received, used'.batches, replica'.nodes)
    BY <1>1, <1>2, DeliversLater DEF Replaced
  <2>2. handler'.phase = handler.phase /\ handler.phase \in {"none", "gate", "idle", "write"}
    BY <1>1, <1>8 DEF HandlerInv, Waits
  <2>3. ASSUME handler.phase \in {"gate", "idle"}
        PROVE  handler'.kind = handler.kind /\ handler'.received = handler.received
    BY <1>8, <2>3 DEF Waits
  <2>4. handler'.phase = "idle" =>
          /\ handler'.ahead \in 0..Len(writes')
          /\ handler' = [phase |-> "idle", kind |-> handler'.kind, received |-> handler'.received,
                         ahead |-> handler'.ahead]
    BY <1>8, <2>2 DEF Waits
  <2>5. handler'.phase \in {"gate", "idle"} =>
          Delivers(handler'.kind, handler'.received, used'.batches, replica'.nodes)
    BY <2>1, <2>2, <2>3
  <2> QED
    BY <2>1, <2>2, <2>4, <2>5 DEF HandlerInv
<1>12. QueueInv'
  <2>1. Queue(writes', version, handler.phase = "write" /\ head.kind = "replace", handler.editVersion)
    BY <1>1, <1>2, QueueWithoutHead DEF QueueInv
  <2>2. (handler.phase = "write" /\ head.kind = "replace") = (handler.phase = "write")
    OBVIOUS
  <2>3. Queue(writes', version, handler.phase = "write", handler.editVersion)
    BY <2>1, <2>2
  <2>4. CASE handler.phase = "write"
    <3>1. handler' = handler
      BY <1>8, <2>4 DEF Waits
    <3> QED
      BY <2>3, <3>1 DEF QueueInv
  <2>5. CASE handler.phase # "write"
    <3>1. (handler.phase = "write") = FALSE /\ (handler'.phase = "write") = FALSE
      BY <1>8, <2>5 DEF Waits
    <3>2. Queue(writes', version, FALSE, handler'.editVersion)
      BY <2>3, <3>1, QueueWithoutServerWrite
    <3>3. Queue(writes', version', handler'.phase = "write", handler'.editVersion)
      BY <3>1, <3>2
    <3> QED
      BY <3>3 DEF QueueInv
  <2> QED
    BY <2>4, <2>5
<1>13. GateInv'
  BY <1>1, <1>2, <1>5, GateLater
<1>14. TextInv'
  <2>1. ~EditQueued(writes') => text' = Materialize(replica')
    BY <1>5, <1>6, <1>7, ShowIs
  <2> QED
    BY <2>1 DEF TextInv
<1>15. BasisInv'
  <2>1. basis' \subseteq IdsOf(replica'.nodes)
    <3>1. basis \subseteq IdsOf(replica'.nodes)
      BY <1>1 DEF BasisInv, Replaced, IdsOf
    <3> QED
      BY <1>5, <1>6, <3>1, ShowIs
  <2>2. ASSUME AllAlone(writes') PROVE Others(replica') \subseteq basis'
    <3>1. CASE head.alone
      <4>1. AllAlone(writes)
        BY <1>3, <2>2, <3>1 DEF AllAlone
      <4>2. Others(replica') \subseteq basis
        BY <1>1, <4>1 DEF BasisInv
      <4> QED
        BY <1>5, <1>6, <4>2, ShowIs
    <3>2. CASE ~head.alone
      <4>1. ~EditQueued(writes')
        <5>1. SUFFICES ASSUME NEW i \in 1..Len(writes'), writes'[i].kind = "replace" PROVE FALSE
          BY DEF EditQueued
        <5>2. writes[i + 1].kind = "replace" /\ writes[i + 1].alone /\ i + 1 \in 1..Len(writes)
          BY <1>3, <2>2, <5>1 DEF AllAlone
        <5>3. 1 < i + 1
          BY <5>1
        <5> QED
          BY <1>1, <1>3, <3>2, <5>2, <5>3 DEF QueueInv, Queue, EditsInOrder
      <4> QED
        BY <1>5, <1>6, <1>7, <4>1, ShowIs
    <3> QED
      BY <3>1, <3>2
  <2>3. ASSUME NEW i \in 1..Len(writes'), writes'[i].kind = "replace", writes'[i].alone
        PROVE  Others(replica') \subseteq writes'[i].basis
    <3>1. Others(replica) \subseteq writes'[i].basis
      BY <1>1, <1>3, <2>3 DEF BasisInv
    <3> QED
      BY <3>1
  <2> QED
    BY <2>1, <2>2, <2>3 DEF BasisInv
<1> QED
  BY <1>9, <1>10, <1>11, <1>12, <1>13, <1>14, <1>15 DEF IInv

\* A batch or a snapshot is applied, refused or fails, and its call ends.
LEMMA ServerWriteLeaves ==
  ASSUME IInv, WriteEnds, Head(writes).kind # "replace", Replaced(FALSE), handler' = Idle,
         \/ Show(replica')
         \/ /\ UNCHANGED <<text, basis>>
            /\ replica' = replica \/ version # handler.editVersion,
         UNCHANGED <<version, composing, holding>>
  PROVE  IInv'
<1> DEFINE head == Head(writes)
<1>1. NumbersInv /\ ReplicaInv /\ HandlerInv /\ QueueInv /\ GateInv /\ TextInv /\ BasisInv
  BY DEF IInv
<1>2. writes # <<>> /\ writes' = Tail(writes)
  BY DEF WriteEnds
<1>3. /\ IsWrite(head) /\ head = writes[1] /\ 1 \in 1..Len(writes)
      /\ \A i \in 1..Len(writes') : writes'[i] = writes[i + 1] /\ i + 1 \in 1..Len(writes)
      /\ \A i \in 1..Len(writes) : i # 1 => i - 1 \in 1..Len(writes') /\ writes[i] = writes'[i - 1]
  BY <1>1, <1>2, HeadLeaves DEF QueueInv
<1>4. Sound(replica')
  BY DEF Replaced, Replica
<1>5. /\ \A i \in 1..Len(writes') : writes'[i].kind = "replace" /\ ~writes'[i].alone
      /\ version # handler.editVersion => \E i \in 1..Len(writes') : TRUE
  <2>1. /\ \A j \in 1..Len(writes) : j # 1 => writes[j].kind = "replace"
        /\ \A j \in 1..Len(writes) : 1 < j => ~writes[j].alone
        /\ handler.editVersion # version => \E j \in 1..Len(writes) : 1 < j
    BY <1>1, <1>3 DEF QueueInv, Queue, OneServerWrite
  <2>2. \A i \in 1..Len(writes') : 1 < i + 1 /\ i + 1 # 1
    OBVIOUS
  <2>3. \A j \in 1..Len(writes) : 1 < j => j - 1 \in 1..Len(writes')
    BY <1>3
  <2> QED
    BY <1>3, <2>1, <2>2, <2>3
<1>6. /\ version # handler.editVersion => EditQueued(writes') /\ ~AllAlone(writes')
      /\ EditQueued(writes) => EditQueued(writes')
      /\ AllAlone(writes') => AllAlone(writes)
  <2>1. version # handler.editVersion => EditQueued(writes') /\ ~AllAlone(writes')
    BY <1>5 DEF EditQueued, AllAlone
  <2>2. EditQueued(writes) => EditQueued(writes')
    BY <1>3 DEF EditQueued
  <2>3. AllAlone(writes') => AllAlone(writes)
    BY <1>3 DEF AllAlone, IsWrite
  <2> QED
    BY <2>1, <2>2, <2>3
<1>7. NumbersInv'
  <2>1. IsSeq(text')
    BY <1>1, <1>4, ShowIs DEF NumbersInv
  <2> QED
    BY <1>1, <2>1 DEF NumbersInv, Replaced
<1>8. handler'.phase = "none"
  BY DEF Idle
<1>9. ReplicaInv'
  <2>1. (handler'.phase # "none") = FALSE
    BY <1>8
  <2>2. Replica(replica', nextCounter', lamportClock', used'.batches, handler'.phase # "none")
    BY <2>1 DEF Replaced
  <2> QED
    BY <2>2 DEF ReplicaInv
<1>10. HandlerInv'
  BY <1>5, <1>8 DEF HandlerInv
<1>11. QueueInv'
  <2>1. Queue(writes', version, handler.phase = "write" /\ head.kind = "replace", handler.editVersion)
    BY <1>1, <1>2, QueueWithoutHead DEF QueueInv
  <2>2. /\ (handler.phase = "write" /\ head.kind = "replace") = FALSE
        /\ (handler'.phase = "write") = FALSE
    BY <1>8
  <2>3. Queue(writes', version, FALSE, handler'.editVersion)
    BY <2>1, <2>2, QueueWithoutServerWrite
  <2>4. Queue(writes', version', handler'.phase = "write", handler'.editVersion)
    BY <2>2, <2>3
  <2> QED
    BY <2>4 DEF QueueInv
<1>12. GateInv'
  BY <1>1, <1>2, GateLater
<1>13. TextInv'
  <2>1. ASSUME ~EditQueued(writes'), ~composing PROVE text' = Materialize(replica')
    BY <1>1, <1>4, <1>6, <2>1, ShowIs DEF TextInv
  <2> QED
    BY <2>1 DEF TextInv
<1>14. BasisInv'
  <2>1. basis' \subseteq IdsOf(replica'.nodes)
    <3>1. basis \subseteq IdsOf(replica'.nodes)
      BY <1>1 DEF BasisInv, Replaced, IdsOf
    <3> QED
      BY <1>4, <3>1, ShowIs
  <2>2. ASSUME AllAlone(writes') PROVE Others(replica') \subseteq basis'
    BY <1>1, <1>4, <1>6, <2>2, ShowIs DEF BasisInv
  <2> QED
    BY <1>5, <2>1, <2>2 DEF BasisInv
<1> QED
  BY <1>7, <1>9, <1>10, <1>11, <1>12, <1>13, <1>14 DEF IInv

LEMMA ReplaceDoneInv ==
  ASSUME IInv, ReplaceDone
  PROVE  IInv'
<1> DEFINE head == Head(writes)
           new  == OperationsOfEdit(Here, nextCounter, lamportClock, EditOf(head))
<1>1. NumbersInv /\ ReplicaInv /\ QueueInv
  BY DEF IInv
<1>2. /\ WriteEnds /\ head.kind = "replace" /\ writes # <<>>
      /\ nextCounter' = nextCounter + Len(new)
      /\ lamportClock' = lamportClock + Len(new)
      /\ replica' = ApplyAll(replica, new) /\ CommitReturns(head, replica')
      /\ UNCHANGED <<version, composing, used>>
  BY DEF ReplaceDone, WriteEnds
<1>3. IsSeq(head.next)
  <2>1. IsWrite(head)
    BY <1>1, <1>2, HeadLeaves DEF QueueInv
  <2> QED
    BY <1>2, <2>1 DEF IsWrite
<1>4. nextCounter \in Nat /\ nextCounter # 0 /\ lamportClock \in Nat
  BY <1>1 DEF NumbersInv
<1>5. Replica(replica, nextCounter, lamportClock, used.batches, handler.phase # "none")
  BY <1>1 DEF ReplicaInv
<1>6. new = OperationsOfEdit(Here, nextCounter, lamportClock,
              ComputeLocalTextEdit(VisibleElements(replica), head.next))
  BY DEF EditOf
<1> HIDE DEF new
<1>7. Edited(replica, nextCounter, lamportClock, used.batches, handler.phase # "none", new,
             ApplyAll(replica, new))
  BY <1>3, <1>4, <1>5, <1>6, EditApplies
<1>8. Replaced(handler.phase # "none") /\ Others(replica') \subseteq Others(replica)
  <2>1. Len(new) \in Nat
    BY <1>7 DEF Edited
  <2>2. nextCounter' \in Nat \ {0} /\ lamportClock' \in Nat
    BY <1>2, <1>4, <2>1
  <2> QED
    BY <1>1, <1>2, <1>7, <2>2 DEF Edited, Replaced, NumbersInv
<1> QED
  BY <1>2, <1>8, EditLeaves

LEMMA ReplaceFailsInv ==
  ASSUME IInv, ReplaceFails
  PROVE  IInv'
<1>1. NumbersInv /\ ReplicaInv
  BY DEF IInv
<1>2. /\ WriteEnds /\ Head(writes).kind = "replace"
      /\ used' = [used EXCEPT !.failures = @ + 1]
      /\ CommitReturns(Head(writes), replica)
      /\ UNCHANGED <<version, composing, replica, nextCounter, lamportClock>>
  BY DEF ReplaceFails
<1>3. used'.batches = used.batches
      /\ used' \in [typed : Nat, batches : Nat, compositions : Nat, failures : Nat]
  BY <1>1, <1>2 DEF NumbersInv
<1>4. Replaced(handler.phase # "none")
  BY <1>1, <1>2, <1>3 DEF Replaced, ReplicaInv, NumbersInv
<1>5. CommitReturns(Head(writes), replica') /\ Others(replica') \subseteq Others(replica)
  BY <1>2
<1> QED
  BY <1>2, <1>4, <1>5, EditLeaves

\* What a write for the server delivers, to a replica that waits for it.
LEMMA ServerWriteIs ==
  ASSUME IInv, WriteEnds, Head(writes).kind # "replace"
  PROVE  /\ Delivers(Head(writes).kind, Head(writes).received, used.batches, replica.nodes)
         /\ Replica(replica, nextCounter, lamportClock, used.batches, TRUE)
         /\ Replica(replica, nextCounter, lamportClock, used.batches, FALSE)
<1>1. /\ ReplicaInv /\ HandlerInv /\ QueueInv /\ writes # <<>>
  BY DEF IInv, WriteEnds
<1>2. Head(writes) = writes[1] /\ 1 \in 1..Len(writes)
  BY <1>1, HeadLeaves DEF QueueInv
<1>3. handler.phase = "write"
  BY <1>1, <1>2 DEF QueueInv, Queue, OneServerWrite
<1>4. (handler.phase # "none") = TRUE
  BY <1>3
<1>5. Replica(replica, nextCounter, lamportClock, used.batches, TRUE)
  <2>1. Replica(replica, nextCounter, lamportClock, used.batches, handler.phase # "none")
    BY <1>1 DEF ReplicaInv
  <2> QED
    BY <1>4, <2>1
<1>6. Replica(replica, nextCounter, lamportClock, used.batches, FALSE)
  BY <1>5 DEF Replica
<1>7. Delivers(Head(writes).kind, Head(writes).received, used.batches, replica.nodes)
  <2>1. Delivers(writes[1].kind, writes[1].received, used.batches, replica.nodes)
    BY <1>1, <1>2 DEF HandlerInv
  <2> QED
    BY <1>2, <2>1
<1> QED
  BY <1>5, <1>6, <1>7

\* The clock after a stamp is the greater of the two.
LEMMA StampedIs ==
  ASSUME lamportClock \in Nat, NEW operation, operation.lamport \in Nat
  PROVE  /\ Stamped(<<operation>>) \in Nat
         /\ lamportClock <= Stamped(<<operation>>)
         /\ operation.lamport <= Stamped(<<operation>>)
<1>1. ToSet(<<operation>>) = {operation}
  BY DEF ToSet
<1>2. {o.lamport : o \in ToSet(<<operation>>)} = {operation.lamport}
  BY <1>1
<1>3. Stamped(<<operation>>) = Max({lamportClock} \cup {operation.lamport})
  BY <1>2 DEF Stamped
<1>4. {lamportClock} \cup {operation.lamport} = {lamportClock, operation.lamport}
  OBVIOUS
<1>5. Stamped(<<operation>>) = Max({lamportClock, operation.lamport})
  BY <1>3, <1>4
<1> QED
  BY <1>5, MaxOfTwo

LEMMA ApplyDoneInv ==
  ASSUME IInv, ApplyDone
  PROVE  IInv'
<1> DEFINE received == Head(writes).received
<1>1. NumbersInv
  BY DEF IInv
<1>2. /\ WriteEnds /\ Head(writes).kind = "apply"
      /\ lamportClock' = Stamped(received)
      /\ replica' = ApplyAll(replica, received)
      /\ IF version = handler.editVersion THEN Show(replica') ELSE UNCHANGED <<text, basis>>
      /\ handler' = Idle
      /\ UNCHANGED <<version, composing, holding, nextCounter, used>>
  BY DEF ApplyDone
<1>3. /\ Delivers(Head(writes).kind, received, used.batches, replica.nodes)
      /\ Replica(replica, nextCounter, lamportClock, used.batches, TRUE)
  BY <1>2, ServerWriteIs
<1>4. PICK operation : /\ received = <<operation>>
                       /\ Offered(operation, used.batches, replica.nodes)
  BY <1>3 DEF Delivers
<1>5. /\ nextCounter \in Nat /\ lamportClock \in Nat /\ used.batches \in Nat
      /\ operation.lamport \in Nat
  BY <1>1, <1>4 DEF NumbersInv, Offered
<1>6. /\ lamportClock' \in Nat /\ lamportClock <= lamportClock'
      /\ operation.lamport <= lamportClock'
  BY <1>2, <1>4, <1>5, StampedIs
<1>7. /\ Replica(ApplyAll(replica, <<operation>>), nextCounter, lamportClock', used.batches, FALSE)
      /\ Batched(replica, operation, ApplyAll(replica, <<operation>>))
  BY <1>3, <1>4, <1>5, <1>6, BatchApplies
<1>8. replica' = ApplyAll(replica, <<operation>>)
  BY <1>2, <1>4
<1>9. Replaced(FALSE)
  BY <1>1, <1>2, <1>6, <1>7, <1>8 DEF Replaced, NumbersInv, Batched
<1>10. \/ Show(replica')
       \/ /\ UNCHANGED <<text, basis>>
          /\ replica' = replica \/ version # handler.editVersion
  BY <1>2
<1>11. Head(writes).kind # "replace"
  BY <1>2
<1> QED
  BY <1>2, <1>9, <1>10, <1>11, ServerWriteLeaves

LEMMA InstallDoneInv ==
  ASSUME IInv, InstallDone
  PROVE  IInv'
<1> DEFINE received == Head(writes).received
<1>1. NumbersInv
  BY DEF IInv
<1>2. /\ WriteEnds /\ Head(writes).kind = "install" /\ replica.known = {}
      /\ lamportClock' = Stamped(received)
      /\ replica' = FromSnapshot(ExportSnapshot(ApplyAll(EmptyReplica, received)))
      /\ Show(replica')
      /\ handler' = Idle
      /\ UNCHANGED <<version, composing, holding, nextCounter, used>>
  BY DEF InstallDone
<1>3. /\ Delivers(Head(writes).kind, received, used.batches, replica.nodes)
      /\ Replica(replica, nextCounter, lamportClock, used.batches, TRUE)
  BY <1>2, ServerWriteIs
<1>4. PICK operation : /\ received = <<operation>>
                       /\ Offered(operation, used.batches, replica.nodes)
                       /\ operation.kind = "insert" /\ operation.ref = Root
  BY <1>2, <1>3 DEF Delivers
<1>5. /\ nextCounter \in Nat /\ lamportClock \in Nat /\ used.batches \in Nat
      /\ operation.lamport \in Nat
  BY <1>1, <1>4 DEF NumbersInv, Offered
<1>6. /\ lamportClock' \in Nat /\ lamportClock <= lamportClock'
      /\ operation.lamport <= lamportClock'
  BY <1>2, <1>4, <1>5, StampedIs
<1>7. /\ Replica(EmptyReplica, nextCounter, lamportClock, used.batches, TRUE)
      /\ Offered(operation, used.batches, EmptyReplica.nodes)
  BY <1>4, EmptySound DEF Replica, Given, Offered
<1> DEFINE after == ApplyAll(EmptyReplica, <<operation>>)
<1>8. /\ Replica(after, nextCounter, lamportClock', used.batches, FALSE)
      /\ after.known = {operation}
  <2>0. PICK empty : empty = EmptyReplica
    OBVIOUS
  <2>1. /\ Replica(empty, nextCounter, lamportClock, used.batches, TRUE)
        /\ Offered(operation, used.batches, empty.nodes)
    BY <1>7, <2>0
  <2>2. /\ Replica(ApplyAll(empty, <<operation>>), nextCounter, lamportClock', used.batches, FALSE)
        /\ Batched(empty, operation, ApplyAll(empty, <<operation>>))
    BY <1>5, <1>6, <2>1, BatchApplies
  <2>3. empty.known = {}
    BY <2>0, EmptySound
  <2> QED
    BY <2>0, <2>2, <2>3 DEF Batched
<1> HIDE DEF after
<1>9. Sound(after) /\ Resolved(after)
  <2>1. Deletes(after.known) = {}
    BY <1>4, <1>8 DEF Deletes
  <2> QED
    BY <1>8, <2>1, ReplicaIsAttached DEF Replica
<1>10. replica' = after
  <2>1. FromSnapshot(ExportSnapshot(after)) = after
    BY <1>9, SnapshotRoundTrip
  <2>2. replica' = FromSnapshot(ExportSnapshot(after))
    BY <1>2, <1>4 DEF after
  <2> QED
    BY <2>1, <2>2
<1>11. replica.nodes \subseteq replica'.nodes
  <2>1. replica.nodes = {}
    BY <1>2, <1>3, ReplicaIsAttached DEF Inserts
  <2> QED
    BY <2>1
<1>12. Replaced(FALSE)
  BY <1>1, <1>2, <1>6, <1>8, <1>10, <1>11 DEF Replaced, NumbersInv
<1>13. Head(writes).kind # "replace"
  BY <1>2
<1> QED
  BY <1>2, <1>12, <1>13, ServerWriteLeaves

\* A snapshot that is refused, or a write that fails, changes the queue only.
LEMMA NothingAppliedInv ==
  ASSUME IInv, WriteEnds, Head(writes).kind # "replace", handler' = Idle,
         used' \in [typed : Nat, batches : Nat, compositions : Nat, failures : Nat],
         used'.batches = used.batches,
         UNCHANGED <<text, basis, version, composing, holding, replica, nextCounter, lamportClock>>
  PROVE  IInv'
<1>1. NumbersInv
  BY DEF IInv
<1>2. Replica(replica, nextCounter, lamportClock, used.batches, FALSE)
  BY ServerWriteIs
<1>3. Replaced(FALSE)
  BY <1>1, <1>2 DEF Replaced, NumbersInv
<1>4. /\ UNCHANGED <<text, basis>>
      /\ replica' = replica \/ version # handler.editVersion
      /\ UNCHANGED <<version, composing, holding>>
  OBVIOUS
<1> QED
  BY <1>3, <1>4, ServerWriteLeaves

LEMMA InstallRefusedInv ==
  ASSUME IInv, InstallRefused
  PROVE  IInv'
<1>1. /\ WriteEnds /\ Head(writes).kind # "replace" /\ handler' = Idle
      /\ UNCHANGED <<text, basis, version, composing, holding, replica, nextCounter,
                     lamportClock, used>>
  BY DEF InstallRefused
<1>2. used \in [typed : Nat, batches : Nat, compositions : Nat, failures : Nat]
  BY DEF IInv, NumbersInv
<1> QED
  BY <1>1, <1>2, NothingAppliedInv

LEMMA ServerWriteFailsInv ==
  ASSUME IInv, ServerWriteFails
  PROVE  IInv'
<1>1. /\ WriteEnds /\ Head(writes).kind # "replace" /\ handler' = Idle
      /\ used' = [used EXCEPT !.failures = @ + 1]
      /\ UNCHANGED <<text, basis, version, composing, holding, replica, nextCounter,
                     lamportClock>>
  BY DEF ServerWriteFails
<1>2. used \in [typed : Nat, batches : Nat, compositions : Nat, failures : Nat]
  BY DEF IInv, NumbersInv
<1>3. used' \in [typed : Nat, batches : Nat, compositions : Nat, failures : Nat]
      /\ used'.batches = used.batches
  BY <1>1, <1>2
<1> QED
  BY <1>1, <1>3, NothingAppliedInv

--------------------------------------------------------------------------------
(***************************************************************************)
(* The invariant is one, and what follows from it.                         *)
(***************************************************************************)

LEMMA StutterInv ==
  ASSUME IInv, UNCHANGED vars
  PROVE  IInv'
<1>1. /\ UNCHANGED <<text, basis, version, composing, holding, replica>>
      /\ UNCHANGED <<nextCounter, lamportClock, writes, handler, used>>
  BY DEF vars
<1>2. NumbersInv /\ ReplicaInv /\ HandlerInv /\ QueueInv /\ GateInv /\ TextInv /\ BasisInv
  BY DEF IInv
<1>3. NumbersInv' /\ ReplicaInv' /\ HandlerInv'
  BY <1>1, <1>2 DEF NumbersInv, ReplicaInv, HandlerInv
<1>4. QueueInv' /\ GateInv' /\ TextInv' /\ BasisInv'
  BY <1>1, <1>2 DEF QueueInv, GateInv, TextInv, BasisInv
<1> QED
  BY <1>3, <1>4 DEF IInv

LEMMA NextInv == IInv /\ [Next]_vars => IInv'
<1> SUFFICES ASSUME IInv, [Next]_vars PROVE IInv'
  OBVIOUS
<1>1. ASSUME NEW next \in Keystrokes(text), Type(next) PROVE IInv'
  BY <1>1, TypeInv
<1>2. CASE CompositionStart
  BY <1>2, CompositionStartInv
<1>3. CASE CompositionEnd
  BY <1>3, CompositionEndInv
<1>4. ASSUME NEW operation \in PeerOperations, ServerOperationsArrive(operation) PROVE IInv'
  <2>1. /\ "apply" \in {"apply", "install"} /\ handler = Idle
        /\ "apply" # "install"
        /\ used' = [used EXCEPT !.batches = @ + 1]
        /\ PassesGate("apply", <<operation>>)
        /\ UNCHANGED <<text, basis, version, composing, holding, replica, nextCounter,
                       lamportClock, writes>>
    BY <1>4 DEF ServerOperationsArrive
  <2> QED
    BY <2>1, ArrivalInv
<1>5. ASSUME NEW operation \in PeerOperations, ServerSnapshotArrives(operation) PROVE IInv'
  <2>1. /\ "install" \in {"apply", "install"} /\ handler = Idle
        /\ operation.kind = "insert" /\ operation.ref = Root
        /\ used' = [used EXCEPT !.batches = @ + 1]
        /\ PassesGate("install", <<operation>>)
        /\ UNCHANGED <<text, basis, version, composing, holding, replica, nextCounter,
                       lamportClock, writes>>
    BY <1>5 DEF ServerSnapshotArrives
  <2> QED
    BY <2>1, ArrivalInv
<1>6. CASE PassGate
  BY <1>6, PassGateInv
<1>7. CASE PassIdle
  BY <1>7, PassIdleInv
<1>8. CASE ReplaceDone
  BY <1>8, ReplaceDoneInv
<1>9. CASE ReplaceFails
  BY <1>9, ReplaceFailsInv
<1>10. CASE ApplyDone
  BY <1>10, ApplyDoneInv
<1>11. CASE InstallDone
  BY <1>11, InstallDoneInv
<1>12. CASE InstallRefused
  BY <1>12, InstallRefusedInv
<1>13. CASE ServerWriteFails
  BY <1>13, ServerWriteFailsInv
<1>14. CASE UNCHANGED vars
  BY <1>14, StutterInv
<1> QED
  BY <1>1, <1>2, <1>3, <1>4, <1>5, <1>6, <1>7, <1>8, <1>9, <1>10, <1>11, <1>12, <1>13, <1>14
     DEF Next, WriteCompletes

LEMMA Invariance == Spec => []IInv
BY InitInv, NextInv, PTL DEF Spec

\* A call of onServerOperations or onSnapshotBootstrap has one write in the
\* queue exactly while it writes, and never waits for more writes than there
\* are: for every alphabet and every bound.
THEOREM QueueHasItsShape == Spec => []TypeOK
<1>1. IInv => TypeOK
  <2> SUFFICES ASSUME IInv PROVE TypeOK
    OBVIOUS
  <2> DEFINE others == {i \in DOMAIN writes : writes[i].kind # "replace"}
  <2>1. NumbersInv /\ HandlerInv /\ QueueInv /\ BasisInv
    BY DEF IInv
  <2>2. DOMAIN writes = 1..Len(writes)
    BY <2>1, LenProperties DEF QueueInv, Queue, IsSeq
  <2>3. /\ (handler.phase = "write") <=> \E i \in 1..Len(writes) : writes[i].kind # "replace"
        /\ \A i \in 1..Len(writes) : writes[i].kind # "replace" =>
             \A j \in 1..Len(writes) : j # i => writes[j].kind = "replace"
    BY <2>1 DEF QueueInv, Queue, OneServerWrite
  <2>4. CASE handler.phase = "write"
    <3>1. PICK i \in 1..Len(writes) : writes[i].kind # "replace"
      BY <2>3, <2>4
    <3>2. others = {i}
      BY <2>2, <2>3, <3>1
    <3>3. Cardinality(others) = 1
      BY <3>2, FS_Singleton
    <3> QED
      BY <2>1, <2>4, <3>3 DEF TypeOK, NumbersInv, HandlerInv, BasisInv
  <2>5. CASE handler.phase # "write"
    <3>1. others = {}
      BY <2>2, <2>3, <2>5
    <3>2. Cardinality(others) = 0
      BY <3>1, FS_EmptySet
    <3> QED
      BY <2>1, <2>5, <3>2 DEF TypeOK, NumbersInv, HandlerInv, BasisInv
  <2> QED
    BY <2>4, <2>5
<1> QED
  BY <1>1, Invariance, PTL

\* Once nothing is under way the textarea shows the document, although setText
\* calls are skipped when the user has typed since (the version checks of
\* commitText and onServerOperations), and although transactions fail.
THEOREM TheDocumentIsShown == Spec => []ShownIsReplica
<1>1. IInv => ShownIsReplica
  <2> SUFFICES ASSUME IInv, Settled PROVE text = Materialize(replica)
    BY DEF ShownIsReplica
  <2>1. TextInv /\ writes = <<>> /\ ~composing
    BY DEF IInv, Settled
  <2>2. Len(writes) = 0
    BY <2>1, EmptySeq
  <2>3. ~EditQueued(writes)
    BY <2>2 DEF EditQueued
  <2> QED
    BY <2>1, <2>3 DEF TextInv
<1> QED
  BY <1>1, Invariance, PTL

\* What an edit deletes is something the replica shows.
LEMMA DeletedIsShown ==
  ASSUME NEW r, Sound(r), NEW next, IsSeq(next)
  PROVE  ToSet(ComputeLocalTextEdit(VisibleElements(r), next).deleteTargetIds)
           \subseteq IdsOf(ToSet(VisibleElements(r)))
<1> DEFINE elements == VisibleElements(r)
           current  == Values(elements)
           p        == CommonPrefix(current, next)
           s        == CommonSuffix(current, next, p)
           I        == IdsOf(ToSet(elements))
           S        == ToSet(current) \cup ToSet(next)
           ids      == [i \in DOMAIN elements |-> elements[i].id]
           targets  == SubSeq(ids, p + 1, Len(current) - s)
<1>1. elements \in Seq(r.nodes)
  BY VisibleIs
<1> HIDE DEF elements
<1>2. Len(elements) \in Nat /\ DOMAIN elements = 1..Len(elements)
  BY <1>1, LenProperties
<1>3. ids \in Seq(I) /\ Len(ids) = Len(elements)
  <2>1. ids \in [1..Len(elements) -> I]
    BY <1>2 DEF ToSet, IdsOf
  <2> HIDE DEF I, ids
  <2> QED
    BY <1>2, <2>1, LenProperties
<1>4. IsSeq(current) /\ Len(current) = Len(elements)
  <2>1. IsSeq(current)
    BY ShownIs DEF Materialize, elements
  <2>2. DOMAIN current = 1..Len(elements)
    BY <1>2 DEF Values
  <2> HIDE DEF current
  <2> QED
    BY <1>2, <2>1, <2>2, LenProperties DEF IsSeq
<1>5. current \in Seq(S) /\ next \in Seq(S)
  <2>1. current \in Seq(ToSet(current)) /\ next \in Seq(ToSet(next))
    BY <1>4 DEF IsSeq
  <2>2. ToSet(current) \in SUBSET S /\ ToSet(next) \in SUBSET S
    OBVIOUS
  <2> HIDE DEF S, current
  <2> QED
    BY <2>1, <2>2, SeqSubset
<1>6. Keeps(current, next, p, s)
  <2> HIDE DEF S, current
  <2> QED
    BY <1>5, DiffKeeps
<1> HIDE DEF p, s, current, ids, I, S
<1>7. p \in Nat /\ Len(current) - s \in Nat /\ Len(current) - s <= Len(ids)
  BY <1>2, <1>3, <1>4, <1>6 DEF Keeps
<1>8. targets \in Seq(I)
  BY <1>3, <1>7, PartOf
<1>9. ToSet(targets) \subseteq I
  BY <1>8, ToSetOfSeq
<1>10. ComputeLocalTextEdit(elements, next).deleteTargetIds = targets
  BY DEF ComputeLocalTextEdit, current, p, s, ids
<1> QED
  BY <1>9, <1>10 DEF elements, I

\* An edit that was made while no batch was being written, and with none queued
\* that was made during one, deletes of others only what its user had seen.
THEOREM NothingUnseenIsDeleted == Spec => []EditsAloneTouchWhatWasSeen
<1>1. IInv => EditsAloneTouchWhatWasSeen
  <2> SUFFICES ASSUME IInv, NEW write \in Running, write.kind = "replace", write.alone
               PROVE  Unseen(write) = {}
    BY DEF EditsAloneTouchWhatWasSeen
  <2>1. NumbersInv /\ ReplicaInv /\ QueueInv /\ BasisInv
    BY DEF IInv
  <2>2. writes # <<>> /\ write = Head(writes)
    BY DEF Running
  <2>3. IsWrite(write) /\ write = writes[1] /\ 1 \in 1..Len(writes)
    BY <2>1, <2>2, HeadLeaves DEF QueueInv
  <2>4. Others(replica) \subseteq write.basis
    BY <2>1, <2>3 DEF BasisInv
  <2>5. Sound(replica) /\ IsSeq(write.next)
    BY <2>1, <2>3 DEF ReplicaInv, Replica, IsWrite
  <2>6. ToSet(EditOf(write).deleteTargetIds) \subseteq IdsOf(ToSet(VisibleElements(replica)))
    BY <2>5, DeletedIsShown DEF EditOf
  <2> QED
    BY <2>4, <2>6 DEF Unseen, Others
<1> QED
  BY <1>1, Invariance, PTL
=================================================================================
