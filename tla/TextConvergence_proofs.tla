------------------------- MODULE TextConvergence_proofs -------------------------
(***************************************************************************)
(* Replicas converge, for every number of clients, every alphabet, every   *)
(* quota and every checkpoint interval: proofs about TextConvergence.      *)
(*                                                                         *)
(* What a replica is follows from what it knows (TextReplica_proofs), so   *)
(* the inductive invariant, IInv, is about what is known: which operations *)
(* there are, what each client has of them in memory, in its operation     *)
(* table and in its snapshots, and how its clock stands to them.           *)
(***************************************************************************)
EXTENDS TextConvergence, TextReplica_proofs

\* The operations made so far: each has an identity of its own that its author
\* will not give again, and refers to an insert that was made before.
OperationsInv ==
  /\ Lawful(Created)
  /\ \A operation \in Created :
       /\ operation.id[1] \in Clients
       /\ operation.id[2] < nextCounter[operation.id[1]]
       /\ operation.ref \in {Root} \cup IdsOf(Inserts(Created))
       /\ operation.kind = "insert" => operation.value \in Alphabet

\* A snapshot of a set of operations with nothing pending.
SnapshotOf(snapshot, known) ==
  Resolved(ServerReplica(known)) /\ snapshot = ExportSnapshot(ServerReplica(known))

\* A client knows what it has stored and the baseline it began with; its clock
\* has passed every stamp it knows; a checkpoint is of the past.
ClientInv(c) ==
  LET known == replica[c].known
  IN  /\ Sound(replica[c])
      /\ known \in SUBSET Created
      /\ \A operation \in known : operation.lamport <= lamportClock[c]
      /\ \/ baseline[c] = None /\ known = operations[c]
         \/ \E base \in SUBSET known :
              SnapshotOf(baseline[c], base) /\ known = base \cup operations[c]
      /\ \/ checkpoint[c] = None
         \/ \E past \in SUBSET known : SnapshotOf(checkpoint[c].snapshot, past)

ShapeInv ==
  /\ DOMAIN replica = Clients
  /\ DOMAIN operations = Clients
  /\ DOMAIN checkpoint = Clients
  /\ DOMAIN baseline = Clients
  /\ nextCounter \in [Clients -> Nat \ {0}]
  /\ lamportClock \in [Clients -> Nat]
  /\ \A c \in Clients : nextCounter[c] <= Quota[c] + 1

IInv == ShapeInv /\ OperationsInv /\ \A c \in Clients : ClientInv(c)

--------------------------------------------------------------------------------
(***************************************************************************)
(* Server replicas, their snapshots, and restoring.                        *)
(***************************************************************************)

LEMMA ServerReplicaSound ==
  ASSUME NEW known, Lawful(known)
  PROVE  Sound(ServerReplica(known)) /\ ServerReplica(known).known = known
<1> DEFINE seq == Sorted(known, LAMBDA p, q : Before(q, p))
<1>1. IsListing(seq, known)
  BY SortedAfter
<1>2. ServerReplica(known) = ApplyAll(EmptyReplica, seq)
  BY DEF ServerReplica
<1> HIDE DEF seq
<1>3. seq \in Seq(known) /\ ToSet(seq) = known
  BY <1>1 DEF IsListing
<1>4. Sound(EmptyReplica) /\ EmptyReplica.known \cup ToSet(seq) = known
  BY <1>3, EmptySound
<1>5. Lawful(EmptyReplica.known \cup ToSet(seq))
  BY <1>4
<1> QED
  BY <1>2, <1>3, <1>4, <1>5, ApplyAllSound

\* What is exported of a sound replica depends on what it knows.
LEMMA ExportIsSnapshot ==
  ASSUME NEW r, Sound(r), Resolved(r)
  PROVE  SnapshotOf(ExportSnapshot(r), r.known)
<1>1. Sound(ServerReplica(r.known)) /\ ServerReplica(r.known).known = r.known
  BY ServerReplicaSound DEF Sound
<1>2. r = ServerReplica(r.known)
  BY <1>1, SoundUnique
<1> QED
  BY <1>2 DEF SnapshotOf

LEMMA SnapshotIs ==
  ASSUME NEW known, Lawful(known), NEW snapshot, SnapshotOf(snapshot, known)
  PROVE  /\ FromSnapshot(snapshot) = ServerReplica(known)
         /\ SnapshotInserts(snapshot) \cup snapshot.deleteOperations = known
         /\ snapshot # None
<1> DEFINE r == ServerReplica(known)
<1>1. Sound(r) /\ r.known = known /\ Resolved(r) /\ snapshot = ExportSnapshot(r)
  BY ServerReplicaSound DEF SnapshotOf
<1> HIDE DEF r
<1>2. FromSnapshot(snapshot) = r /\ SnapshotInserts(snapshot) \cup snapshot.deleteOperations = known
  BY <1>1, SnapshotRoundTrip
<1>3. snapshot # None
  <2>1. "nodes" \in DOMAIN snapshot
    BY <1>1 DEF ExportSnapshot
  <2>2. "nodes" \notin DOMAIN None
    BY DEF None
  <2> QED
    BY <2>1, <2>2
<1> QED
  BY <1>2, <1>3 DEF r

\* Operations of a lawful set that are applied to a snapshot of some of them.
LEMMA AppliedToSnapshot ==
  ASSUME NEW all, Lawful(all), NEW base \in SUBSET all, NEW snapshot, SnapshotOf(snapshot, base),
         NEW seq \in Seq(all)
  PROVE  /\ Sound(ApplyAll(FromSnapshot(snapshot), seq))
         /\ ApplyAll(FromSnapshot(snapshot), seq).known = base \cup ToSet(seq)
<1> DEFINE r == ServerReplica(base)
<1>1. Lawful(base)
  BY LawfulSubset
<1>2. Sound(r) /\ r.known = base /\ FromSnapshot(snapshot) = r
  BY <1>1, ServerReplicaSound, SnapshotIs
<1>3. ToSet(seq) \in SUBSET all
  BY ToSetOfSeq
<1> HIDE DEF r
<1>4. Lawful(r.known \cup ToSet(seq))
  BY <1>2, <1>3, LawfulSubset
<1> QED
  BY <1>2, <1>4, ApplyAllSound

\* What create() builds from the store knows what the open session knows.
LEMMA RestoredKnows ==
  ASSUME NEW c \in Clients, Lawful(Created), ClientInv(c)
  PROVE  Sound(Restored(c)) /\ Restored(c).known = replica[c].known
<1> DEFINE known  == replica[c].known
           listed == StoredOperations(c)
<1>1. /\ known \in SUBSET Created /\ Lawful(known)
      /\ \/ baseline[c] = None /\ known = operations[c]
         \/ \E base \in SUBSET known :
              SnapshotOf(baseline[c], base) /\ known = base \cup operations[c]
      /\ \/ checkpoint[c] = None
         \/ \E past \in SUBSET known : SnapshotOf(checkpoint[c].snapshot, past)
  BY DEF ClientInv, Sound
<1> HIDE DEF known
<1>2. operations[c] \in SUBSET known
  BY <1>1
<1>3. listed \in Seq(operations[c]) /\ ToSet(listed) = operations[c]
  <2>1. Lawful(operations[c])
    BY <1>1, <1>2, LawfulSubset
  <2>2. IsListing(Sorted(operations[c], ById), operations[c])
    BY <2>1, SortedById
  <2> QED
    BY <2>2 DEF IsListing, StoredOperations
<1> HIDE DEF listed
<1>4. listed \in Seq(known)
  BY <1>2, <1>3, SeqSubset
<1>5. CASE baseline[c] # None
  <2>1. PICK base \in SUBSET known :
          SnapshotOf(baseline[c], base) /\ known = base \cup operations[c]
    BY <1>1, <1>5
  <2>2. Restored(c) = ApplyAll(FromSnapshot(baseline[c]), listed)
    BY <1>5 DEF Restored, listed
  <2>3. Sound(Restored(c)) /\ Restored(c).known = base \cup ToSet(listed)
    <3>1. Lawful(known) /\ base \in SUBSET known /\ SnapshotOf(baseline[c], base)
      BY <1>1, <2>1
    <3>2. /\ Sound(ApplyAll(FromSnapshot(baseline[c]), listed))
          /\ ApplyAll(FromSnapshot(baseline[c]), listed).known = base \cup ToSet(listed)
      BY <1>4, <3>1, AppliedToSnapshot
    <3> QED
      BY <2>2, <3>2
  <2> QED
    BY <1>3, <2>1, <2>3 DEF known
<1>6. CASE baseline[c] = None /\ CheckpointUsable(c)
  <2>1. known = operations[c]
    <3>1. ASSUME NEW base \in SUBSET known, SnapshotOf(baseline[c], base) PROVE FALSE
      <4>1. Lawful(base)
        BY <1>1, LawfulSubset
      <4> QED
        BY <1>6, <3>1, <4>1, SnapshotIs
    <3> QED
      BY <1>1, <3>1
  <2>2. PICK past \in SUBSET known : SnapshotOf(checkpoint[c].snapshot, past)
    BY <1>1, <1>6 DEF CheckpointUsable
  <2>3. Restored(c) = ApplyAll(FromSnapshot(checkpoint[c].snapshot), listed)
    BY <1>6 DEF Restored, listed
  <2>4. Sound(Restored(c)) /\ Restored(c).known = past \cup ToSet(listed)
    <3>1. Lawful(known) /\ past \in SUBSET known /\ SnapshotOf(checkpoint[c].snapshot, past)
      BY <1>1, <2>2
    <3>2. /\ Sound(ApplyAll(FromSnapshot(checkpoint[c].snapshot), listed))
          /\ ApplyAll(FromSnapshot(checkpoint[c].snapshot), listed).known = past \cup ToSet(listed)
      BY <1>4, <3>1, AppliedToSnapshot
    <3> QED
      BY <2>3, <3>2
  <2> QED
    BY <1>3, <2>1, <2>4 DEF known
<1>7. CASE baseline[c] = None /\ ~CheckpointUsable(c)
  <2>1. known = operations[c]
    <3>1. ASSUME NEW base \in SUBSET known, SnapshotOf(baseline[c], base) PROVE FALSE
      <4>1. Lawful(base)
        BY <1>1, LawfulSubset
      <4> QED
        BY <1>7, <3>1, <4>1, SnapshotIs
    <3> QED
      BY <1>1, <3>1
  <2>2. Restored(c) = ApplyAll(EmptyReplica, listed)
    BY <1>7 DEF Restored, listed
  <2>3. EmptyReplica.known \cup ToSet(listed) = known /\ Sound(EmptyReplica)
    BY <1>3, <2>1, EmptySound
  <2>4. Lawful(EmptyReplica.known \cup ToSet(listed))
    BY <1>1, <2>3
  <2> QED
    BY <1>3, <2>2, <2>3, <2>4, ApplyAllSound DEF known
<1> QED
  BY <1>5, <1>6, <1>7

--------------------------------------------------------------------------------
(***************************************************************************)
(* The invariant.                                                          *)
(***************************************************************************)

\* What a text may be.
LEMMA TextsAreSequences == Texts \subseteq Seq(Alphabet)
BY LengthAssumption DEF Texts, BoundedSeq, SeqOf

\* A checkpoint row that may be in the store of a client that knows known.
CheckpointOfPast(row, known) ==
  row = None \/ \E past \in SUBSET known : SnapshotOf(row.snapshot, past)

LEMMA CheckpointsAre ==
  ASSUME NEW c, NEW known, CheckpointOfPast(checkpoint[c], known),
         NEW current, Sound(current), known \subseteq current.known,
         NEW row \in CheckpointsAfter(c, current)
  PROVE  CheckpointOfPast(row, current.known)
<1>1. CASE row = checkpoint[c]
  BY <1>1 DEF CheckpointOfPast
<1>2. CASE row # checkpoint[c]
  <2>1. Resolved(current) /\ row.snapshot = ExportSnapshot(current)
    BY <1>2 DEF CheckpointsAfter
  <2>2. SnapshotOf(row.snapshot, current.known)
    BY <2>1, ExportIsSnapshot
  <2> QED
    BY <2>2 DEF CheckpointOfPast
<1> QED
  BY <1>1, <1>2

\* The part of a step that the client whose step it is not sees of it.
LEMMA OthersKeep ==
  ASSUME NEW c, ClientInv(c), Created \subseteq Created',
         replica'[c] = replica[c], operations'[c] = operations[c],
         checkpoint'[c] = checkpoint[c], baseline'[c] = baseline[c],
         lamportClock'[c] = lamportClock[c]
  PROVE  ClientInv(c)'
BY DEF ClientInv

LEMMA ClockAfterIs ==
  ASSUME NEW clock \in Nat, NEW received, Lawful(received)
  PROVE  /\ ClockAfter(clock, received) \in Nat
         /\ clock <= ClockAfter(clock, received)
         /\ \A operation \in received : operation.lamport <= ClockAfter(clock, received)
<1> DEFINE stamps == {clock} \cup {operation.lamport : operation \in received}
<1>1. stamps \in SUBSET Nat /\ stamps # {}
  BY DEF Lawful
<1>2. IsFiniteSet(stamps)
  <2>1. IsFiniteSet(received)
    BY DEF Lawful
  <2>2. IsFiniteSet({operation.lamport : operation \in received})
    <3> DEFINE f == [operation \in received |-> operation.lamport]
    <3>1. IsFiniteSet({f[operation] : operation \in received})
      <4> HIDE DEF f
      <4>1. DOMAIN f = received
        BY DEF f
      <4> QED
        BY <2>1, <4>1, FiniteRange
    <3>2. {f[operation] : operation \in received} = {operation.lamport : operation \in received}
      OBVIOUS
    <3> QED
      BY <3>1, <3>2
  <2> QED
    BY <2>2, FS_Singleton, FS_Union
<1>3. ClockAfter(clock, received) = Max(stamps)
  BY DEF ClockAfter
<1>4. clock \in stamps /\ \A operation \in received : operation.lamport \in stamps
  OBVIOUS
<1> HIDE DEF stamps
<1>5. Max(stamps) \in stamps /\ \A n \in stamps : n <= Max(stamps)
  BY <1>1, <1>2, MaxOfFinite
<1> QED
  BY <1>1, <1>3, <1>4, <1>5

\* The checkpoint clause of ClientInv, by its name.
LEMMA ClientCheckpoint ==
  ASSUME NEW c, ClientInv(c)
  PROVE  CheckpointOfPast(checkpoint[c], replica[c].known)
BY DEF ClientInv, CheckpointOfPast

LEMMA InitInv == Init => IInv
<1> SUFFICES ASSUME Init PROVE IInv
  OBVIOUS
<1>1. Created = {}
  BY DEF Init, Created
<1>2. ShapeInv
  BY QuotaAssumption DEF Init, ShapeInv
<1>3. OperationsInv
  <2>1. Lawful({})
    BY EmptySound DEF Sound
  <2> QED
    BY <1>1, <2>1 DEF OperationsInv
<1>4. ASSUME NEW c \in Clients PROVE ClientInv(c)
  <2>1. replica[c] = EmptyReplica /\ baseline[c] = None /\ checkpoint[c] = None /\ operations[c] = {}
    BY DEF Init
  <2> QED
    BY <2>1, EmptySound DEF ClientInv
<1> QED
  BY <1>2, <1>3, <1>4 DEF IInv

\* The operations of c's edit, in a state of the invariant.
LEMMA EditOf ==
  ASSUME IInv, NEW c \in Clients, NEW next \in Texts
  PROVE  \E p, s :
           EditOperations(OperationsFor(c, next), c, nextCounter[c], lamportClock[c],
                          VisibleElements(replica[c]), next, p, s)
<1>1. Sound(replica[c])
  BY DEF IInv, ClientInv
<1>2. VisibleElements(replica[c]) \in Seq(replica[c].nodes)
  BY <1>1, VisibleIs
<1>3. nextCounter[c] \in Nat /\ lamportClock[c] \in Nat
  BY DEF IInv, ShapeInv
<1>4. next \in Seq(Alphabet)
  BY TextsAreSequences
<1> QED
  BY <1>2, <1>3, <1>4, EditOperationsAre DEF OperationsFor

\* They are new, and the replica with them is sound.
LEMMA EditApplies ==
  ASSUME IInv, NEW c \in Clients, NEW next \in Texts
  PROVE  LET new     == OperationsFor(c, next)
             current == ApplyAll(replica[c], new)
         IN  /\ Len(new) \in Nat
             /\ Fresh(ToSet(new), c, nextCounter[c], lamportClock[c], Len(new), replica[c].nodes, Alphabet)
             /\ Lawful(Created \cup ToSet(new))
             /\ Sound(current) /\ current.known = replica[c].known \cup ToSet(new)
<1> DEFINE new == OperationsFor(c, next)
           r   == replica[c]
<1>1. Sound(r) /\ r.known \in SUBSET Created /\ \A x \in r.known : x.lamport <= lamportClock[c]
  BY DEF IInv, ClientInv
<1>2. /\ Lawful(Created)
      /\ \A x \in Created : /\ x.id[1] \in Clients
                            /\ x.id[2] < nextCounter[x.id[1]]
                            /\ x.ref \in {Root} \cup IdsOf(Inserts(Created))
  BY DEF IInv, OperationsInv
<1>3. nextCounter[c] \in Nat /\ lamportClock[c] \in Nat /\ c \in Nat \ {0}
  BY ClientsAssumption DEF IInv, ShapeInv
<1>4. VisibleElements(r) \in Seq(r.nodes) /\ r.nodes \in SUBSET Inserts(r.known)
  BY <1>1, VisibleIs DEF Sound, WellFormed
<1>5. next \in Seq(Alphabet)
  BY TextsAreSequences
<1>6. Given(Created, c, nextCounter[c])
  BY <1>2 DEF Given, Lawful
<1>7. r.nodes \in SUBSET Inserts(Created) /\ Given(r.nodes, c, nextCounter[c])
  BY <1>1, <1>4, <1>6 DEF Given, Inserts
<1>8. PICK p, s : EditOperations(new, c, nextCounter[c], lamportClock[c], VisibleElements(r), next, p, s)
  BY EditOf
<1> HIDE DEF new, r
<1>9. /\ Fresh(ToSet(new), c, nextCounter[c], lamportClock[c], Len(new), r.nodes, Alphabet)
      /\ new \in Seq(ToSet(new)) /\ Len(new) \in Nat
  BY <1>3, <1>4, <1>5, <1>7, <1>8, EditIsFresh
<1>10. Lawful(Created \cup ToSet(new))
  <2>1. \A x \in Created : x.ref \in Anchors(Inserts(Created))
    BY <1>2 DEF Anchors
  <2>2. \A e \in r.nodes : e.lamport <= lamportClock[c]
    BY <1>1, <1>4 DEF Inserts
  <2>3. Lawful(Created)
    BY <1>2
  <2> HIDE DEF Created
  <2> QED
    BY <1>3, <1>6, <1>7, <1>9, <2>1, <2>2, <2>3, FreshIsLawful
<1>11. Sound(ApplyAll(r, new)) /\ ApplyAll(r, new).known = r.known \cup ToSet(new)
  <2>1. Lawful(r.known \cup ToSet(new))
    <3>1. r.known \cup ToSet(new) \in SUBSET (Created \cup ToSet(new))
      BY <1>1
    <3> QED
      BY <1>10, <3>1, LawfulSubset
  <2> QED
    BY <1>1, <1>9, <2>1, ApplyAllSound
<1> QED
  BY <1>9, <1>10, <1>11 DEF new, r

LEMMA ReplaceTextInv ==
  ASSUME IInv, NEW c \in Clients, NEW next \in Texts, ReplaceText(c, next)
  PROVE  IInv'
<1> DEFINE new     == OperationsFor(c, next)
           current == ApplyAll(replica[c], new)
<1>1. /\ operations'   = [operations   EXCEPT ![c] = @ \cup ToSet(new)]
      /\ nextCounter'  = [nextCounter  EXCEPT ![c] = @ + Len(new)]
      /\ lamportClock' = [lamportClock EXCEPT ![c] = @ + Len(new)]
      /\ nextCounter[c] + Len(new) <= Quota[c] + 1
      /\ BecomesReplica(c, current)
      /\ baseline' = baseline
  BY DEF ReplaceText
<1>2. PICK row \in CheckpointsAfter(c, current) :
        replica' = [replica EXCEPT ![c] = current] /\ checkpoint' = [checkpoint EXCEPT ![c] = row]
  BY <1>1 DEF BecomesReplica
<1>3. /\ Len(new) \in Nat
      /\ Fresh(ToSet(new), c, nextCounter[c], lamportClock[c], Len(new), replica[c].nodes, Alphabet)
      /\ Lawful(Created \cup ToSet(new))
      /\ Sound(current) /\ current.known = replica[c].known \cup ToSet(new)
  BY EditApplies
<1> HIDE DEF new, current
<1>4. /\ DOMAIN replica = Clients /\ DOMAIN operations = Clients /\ DOMAIN checkpoint = Clients
      /\ DOMAIN baseline = Clients
      /\ nextCounter \in [Clients -> Nat \ {0}] /\ lamportClock \in [Clients -> Nat]
      /\ \A d \in Clients : nextCounter[d] <= Quota[d] + 1
  BY DEF IInv, ShapeInv
<1>5. /\ replica'[c] = current /\ operations'[c] = operations[c] \cup ToSet(new)
      /\ checkpoint'[c] = row /\ baseline'[c] = baseline[c]
      /\ nextCounter'[c] = nextCounter[c] + Len(new) /\ lamportClock'[c] = lamportClock[c] + Len(new)
  BY <1>1, <1>2, <1>4
<1>6. \A d \in Clients : d # c =>
        /\ replica'[d] = replica[d] /\ operations'[d] = operations[d]
        /\ checkpoint'[d] = checkpoint[d] /\ baseline'[d] = baseline[d]
        /\ nextCounter'[d] = nextCounter[d] /\ lamportClock'[d] = lamportClock[d]
  BY <1>1, <1>2, <1>4
<1>7. Created' = Created \cup ToSet(new)
  BY <1>5, <1>6 DEF Created
<1>8. ShapeInv'
  <2>1. /\ DOMAIN replica' = Clients /\ DOMAIN operations' = Clients /\ DOMAIN checkpoint' = Clients
        /\ DOMAIN baseline' = Clients
    BY <1>1, <1>2, <1>4
  <2>2. nextCounter' \in [Clients -> Nat \ {0}] /\ lamportClock' \in [Clients -> Nat]
    BY <1>1, <1>3, <1>4
  <2>3. \A d \in Clients : nextCounter'[d] <= Quota[d] + 1
    BY <1>1, <1>4, <1>5, <1>6
  <2> QED
    BY <2>1, <2>2, <2>3 DEF ShapeInv
<1>9. OperationsInv'
  <2>1. ASSUME NEW x \in Created \cup ToSet(new)
        PROVE  /\ x.id[1] \in Clients
               /\ x.id[2] < nextCounter'[x.id[1]]
               /\ x.ref \in {Root} \cup IdsOf(Inserts(Created \cup ToSet(new)))
               /\ x.kind = "insert" => x.value \in Alphabet
    <3>1. CASE x \in Created
      <4>1. /\ x.id[1] \in Clients /\ x.id[2] < nextCounter[x.id[1]]
            /\ x.ref \in {Root} \cup IdsOf(Inserts(Created))
            /\ x.kind = "insert" => x.value \in Alphabet
        BY <3>1 DEF IInv, OperationsInv
      <4>2. x.id[2] \in Nat
        BY <1>3 DEF Lawful, Identities
      <4>3. x.id[2] < nextCounter'[x.id[1]]
        <5>1. CASE x.id[1] = c
          <6>1. nextCounter[c] \in Nat
            BY <1>4
          <6> QED
            BY <1>3, <1>5, <4>1, <4>2, <5>1, <6>1
        <5>2. CASE x.id[1] # c
          BY <1>6, <4>1, <5>2
        <5> QED
          BY <5>1, <5>2
      <4>4. x.ref \in {Root} \cup IdsOf(Inserts(Created \cup ToSet(new)))
        BY <4>1 DEF IdsOf, Inserts
      <4> QED
        BY <4>1, <4>3, <4>4
    <3>2. CASE x \in ToSet(new)
      <4>1. /\ x.id[1] = c /\ x.id[2] < nextCounter[c] + Len(new)
            /\ x.ref \in Anchors(replica[c].nodes) \cup IdsOf(Inserts(ToSet(new)))
            /\ x.kind = "insert" => x.value \in Alphabet
        BY <1>3, <3>2 DEF Fresh
      <4>2. replica[c].nodes \in SUBSET Inserts(Created)
        BY DEF IInv, ClientInv, Sound, WellFormed, Inserts
      <4>3. x.ref \in {Root} \cup IdsOf(Inserts(Created \cup ToSet(new)))
        BY <4>1, <4>2 DEF Anchors, IdsOf, Inserts
      <4> QED
        BY <1>5, <4>1, <4>3
    <3> QED
      BY <2>1, <3>1, <3>2
  <2>2. Lawful(Created')
    BY <1>3, <1>7
  <2>3. \A x \in Created' : /\ x.id[1] \in Clients
                            /\ x.id[2] < nextCounter'[x.id[1]]
                            /\ x.ref \in {Root} \cup IdsOf(Inserts(Created'))
                            /\ x.kind = "insert" => x.value \in Alphabet
    BY <1>7, <2>1
  <2> HIDE DEF Created
  <2> QED
    BY <2>2, <2>3 DEF OperationsInv
<1>10. ASSUME NEW d \in Clients PROVE ClientInv(d)'
  <2>1. CASE d # c
    BY <1>6, <1>7, <2>1, OthersKeep DEF IInv
  <2>2. CASE d = c
    <3>1. ClientInv(c)
      BY DEF IInv
    <3>2. CheckpointOfPast(row, current.known)
      BY <1>2, <1>3, <3>1, ClientCheckpoint, CheckpointsAre
    <3>3. current.known \in SUBSET (Created \cup ToSet(new))
      BY <1>3, <3>1 DEF ClientInv
    <3>4. ASSUME NEW x \in current.known PROVE x.lamport <= lamportClock[c] + Len(new)
      <4>1. CASE x \in replica[c].known
        <5>1. x.lamport <= lamportClock[c]
          BY <3>1, <4>1 DEF ClientInv
        <5>2. x.lamport \in Nat /\ lamportClock[c] \in Nat
          BY <1>3, <1>4 DEF Sound, Lawful
        <5> QED
          BY <1>3, <5>1, <5>2
      <4>2. CASE x \in ToSet(new)
        BY <1>3, <4>2 DEF Fresh
      <4> QED
        BY <1>3, <4>1, <4>2
    <3>5. \/ baseline[c] = None /\ current.known = operations[c] \cup ToSet(new)
          \/ \E base \in SUBSET current.known :
               /\ SnapshotOf(baseline[c], base)
               /\ current.known = base \cup (operations[c] \cup ToSet(new))
      BY <1>3, <3>1 DEF ClientInv
    <3> QED
      BY <1>3, <1>5, <1>7, <2>2, <3>2, <3>3, <3>4, <3>5 DEF ClientInv, CheckpointOfPast
  <2> QED
    BY <2>1, <2>2
<1> QED
  BY <1>8, <1>9, <1>10 DEF IInv

\* What a step of client c may do that makes no operations.
Learns(c, current, row, stored_, base, clock) ==
  /\ replica'[c] = current /\ operations'[c] = stored_ /\ checkpoint'[c] = row
  /\ baseline'[c] = base /\ lamportClock'[c] = clock
  /\ \A d \in Clients : d # c =>
       /\ replica'[d] = replica[d] /\ operations'[d] = operations[d]
       /\ checkpoint'[d] = checkpoint[d] /\ baseline'[d] = baseline[d]
       /\ lamportClock'[d] = lamportClock[d]
  /\ DOMAIN replica' = Clients /\ DOMAIN operations' = Clients
  /\ DOMAIN checkpoint' = Clients /\ DOMAIN baseline' = Clients
  /\ lamportClock' \in [Clients -> Nat]
  /\ nextCounter' = nextCounter

\* The row with the operations that follow it makes up what is known.
MakesUp(base, stored_, known) ==
  \/ base = None /\ known = stored_
  \/ \E b \in SUBSET known : SnapshotOf(base, b) /\ known = b \cup stored_

LEMMA LearnsInv ==
  ASSUME IInv, NEW c \in Clients, NEW current, NEW row, NEW stored_, NEW base, NEW clock \in Nat,
         Learns(c, current, row, stored_, base, clock),
         Sound(current), current.known \in SUBSET Created,
         operations[c] \subseteq stored_, stored_ \subseteq Created,
         \A x \in current.known : x.lamport <= clock,
         MakesUp(base, stored_, current.known),
         CheckpointOfPast(row, current.known)
  PROVE  IInv'
<1>1. /\ DOMAIN replica = Clients /\ DOMAIN operations = Clients /\ DOMAIN checkpoint = Clients
      /\ DOMAIN baseline = Clients
      /\ nextCounter \in [Clients -> Nat \ {0}] /\ lamportClock \in [Clients -> Nat]
      /\ \A d \in Clients : nextCounter[d] <= Quota[d] + 1
  BY DEF IInv, ShapeInv
<1>2. /\ replica'[c] = current /\ operations'[c] = stored_ /\ checkpoint'[c] = row
      /\ baseline'[c] = base /\ lamportClock'[c] = clock /\ nextCounter' = nextCounter
  BY DEF Learns
<1>3. \A d \in Clients : d # c =>
        /\ replica'[d] = replica[d] /\ operations'[d] = operations[d]
        /\ checkpoint'[d] = checkpoint[d] /\ baseline'[d] = baseline[d]
        /\ lamportClock'[d] = lamportClock[d]
  BY DEF Learns
<1>4. Created' = Created
  <2>1. ASSUME NEW d \in Clients PROVE operations'[d] \subseteq Created /\ operations[d] \subseteq operations'[d]
    BY <1>2, <1>3 DEF Created
  <2> QED
    BY <2>1 DEF Created
<1>5. ShapeInv'
  <2>1. /\ DOMAIN replica' = Clients /\ DOMAIN operations' = Clients /\ DOMAIN checkpoint' = Clients
        /\ DOMAIN baseline' = Clients
    BY <1>1 DEF Learns
  <2>2. nextCounter' \in [Clients -> Nat \ {0}] /\ lamportClock' \in [Clients -> Nat]
    BY <1>1 DEF Learns
  <2>3. \A d \in Clients : nextCounter'[d] <= Quota[d] + 1
    BY <1>1, <1>2
  <2> QED
    BY <2>1, <2>2, <2>3 DEF ShapeInv
<1>6. OperationsInv'
  <2>1. Lawful(Created')
    BY <1>4 DEF IInv, OperationsInv
  <2>2. \A x \in Created' : /\ x.id[1] \in Clients
                            /\ x.id[2] < nextCounter'[x.id[1]]
                            /\ x.ref \in {Root} \cup IdsOf(Inserts(Created'))
                            /\ x.kind = "insert" => x.value \in Alphabet
    BY <1>2, <1>4 DEF IInv, OperationsInv
  <2> HIDE DEF Created
  <2> QED
    BY <2>1, <2>2 DEF OperationsInv
<1>7. ASSUME NEW d \in Clients PROVE ClientInv(d)'
  <2>1. CASE d # c
    BY <1>3, <1>4, <2>1, OthersKeep DEF IInv
  <2>2. CASE d = c
    BY <1>2, <1>4, <2>2 DEF ClientInv, MakesUp, CheckpointOfPast
  <2> QED
    BY <2>1, <2>2
<1> QED
  BY <1>5, <1>6, <1>7 DEF IInv

LEMMA ApplyServerOperationsInv ==
  ASSUME IInv, NEW c \in Clients, NEW operation \in Created, ApplyServerOperations(c, operation)
  PROVE  IInv'
<1> DEFINE current == Apply(replica[c], operation)
           stored_ == operations[c] \cup {operation}
           clock   == ClockAfter(lamportClock[c], {operation})
<1>1. PICK row \in CheckpointsAfter(c, current) :
        replica' = [replica EXCEPT ![c] = current] /\ checkpoint' = [checkpoint EXCEPT ![c] = row]
  BY DEF ApplyServerOperations, BecomesReplica
<1>2. /\ ClientInv(c) /\ Lawful(Created) /\ lamportClock[c] \in Nat
      /\ ShapeInv
  BY DEF IInv, OperationsInv, ShapeInv
<1> DEFINE known == replica[c].known
<1>4. Sound(current) /\ current.known = known \cup {operation}
  <2>1. Sound(replica[c]) /\ known \cup {operation} \in SUBSET Created
    BY <1>2 DEF ClientInv
  <2>2. Lawful(replica[c].known \cup {operation})
    BY <1>2, <2>1, LawfulSubset
  <2> QED
    BY <2>1, <2>2, ApplySound
<1>5. clock \in Nat /\ lamportClock[c] <= clock /\ operation.lamport <= clock
  <2>1. Lawful({operation})
    BY <1>2, LawfulSubset
  <2> QED
    BY <1>2, <2>1, ClockAfterIs
<1>3. Learns(c, current, row, stored_, baseline[c], clock)
  <2>1. /\ operations' = [operations EXCEPT ![c] = stored_]
        /\ lamportClock' = [lamportClock EXCEPT ![c] = clock]
        /\ baseline' = baseline /\ nextCounter' = nextCounter
    BY DEF ApplyServerOperations
  <2> HIDE DEF current, stored_, clock
  <2> QED
    BY <1>1, <1>2, <1>5, <2>1 DEF Learns, ShapeInv
<1>6. \A x \in known : x.lamport <= lamportClock[c] /\ x.lamport \in Nat
  BY <1>2 DEF ClientInv, Lawful
<1>7. known \in SUBSET Created /\ operations[c] \subseteq Created
  BY <1>2 DEF ClientInv, Created
<1>8. MakesUp(baseline[c], operations[c], known)
  BY <1>2 DEF ClientInv, MakesUp
<1>9. CheckpointOfPast(row, current.known)
  BY <1>1, <1>2, <1>4, ClientCheckpoint, CheckpointsAre
<1> HIDE DEF current, clock, known
<1>10. MakesUp(baseline[c], stored_, current.known)
  BY <1>4, <1>8 DEF MakesUp
<1>11. \A x \in current.known : x.lamport <= clock
  BY <1>2, <1>4, <1>5, <1>6
<1>12. /\ current.known \in SUBSET Created
       /\ operations[c] \subseteq stored_ /\ stored_ \subseteq Created
  BY <1>4, <1>7
<1> HIDE DEF stored_
<1> QED
  BY <1>3, <1>4, <1>5, <1>9, <1>10, <1>11, <1>12, LearnsInv

LEMMA ReopenInv ==
  ASSUME IInv, NEW c \in Clients, Reopen(c)
  PROVE  IInv'
<1> DEFINE current == Restored(c)
<1>1. PICK row \in CheckpointsAfter(c, current) :
        replica' = [replica EXCEPT ![c] = current] /\ checkpoint' = [checkpoint EXCEPT ![c] = row]
  BY DEF Reopen, BecomesReplica
<1>2. /\ ClientInv(c) /\ Lawful(Created) /\ lamportClock[c] \in Nat
      /\ ShapeInv
  BY DEF IInv, OperationsInv, ShapeInv
<1>3. Sound(current) /\ current.known = replica[c].known
  BY <1>2, RestoredKnows
<1>4. Learns(c, current, row, operations[c], baseline[c], lamportClock[c])
  <2>1. /\ operations' = operations /\ baseline' = baseline /\ lamportClock' = lamportClock
        /\ nextCounter' = nextCounter
    BY DEF Reopen
  <2> HIDE DEF current
  <2> QED
    BY <1>1, <1>2, <2>1 DEF Learns, ShapeInv
<1>5. CheckpointOfPast(row, current.known)
  BY <1>1, <1>2, <1>3, ClientCheckpoint, CheckpointsAre
<1> HIDE DEF current
<1>6. /\ current.known \in SUBSET Created
      /\ operations[c] \subseteq operations[c] /\ operations[c] \subseteq Created
      /\ \A x \in current.known : x.lamport <= lamportClock[c]
      /\ MakesUp(baseline[c], operations[c], current.known)
  BY <1>2, <1>3 DEF ClientInv, Created, MakesUp
<1> QED
  BY <1>2, <1>3, <1>4, <1>5, <1>6, LearnsInv

LEMMA InstallServerSnapshotInv ==
  ASSUME IInv, NEW c \in Clients, Eligible(c), NEW snapshot \in ServerSnapshots,
         NEW suffix \in Seq(Created), InstallServerSnapshot(c, snapshot, suffix)
  PROVE  IInv'
<1> DEFINE installed == ApplyAll(FromSnapshot(snapshot), suffix)
           prefix    == SnapshotInserts(snapshot) \cup snapshot.deleteOperations
           clock     == ClockAfter(lamportClock[c], prefix \cup ToSet(suffix))
<1>1. operations[c] = {} /\ Lawful(Created) /\ lamportClock[c] \in Nat /\ ShapeInv
  BY DEF IInv, OperationsInv, ShapeInv, Eligible
<1>3. PICK base \in SUBSET Created : SnapshotOf(snapshot, base)
  BY DEF ServerSnapshots, SnapshotOf
<1>4. prefix = base
  <2>1. Lawful(base)
    BY <1>1, LawfulSubset
  <2> QED
    BY <1>3, <2>1, SnapshotIs
<1> HIDE DEF prefix, Created
<1>5. Sound(installed) /\ installed.known = base \cup ToSet(suffix)
  <2>1. Lawful(Created)
    BY <1>1
  <2> HIDE DEF clock
  <2> QED
    BY <1>3, <2>1, AppliedToSnapshot
<1>6. ToSet(suffix) \in SUBSET Created
  BY ToSetOfSeq
<1>7. clock \in Nat /\ \A x \in base \cup ToSet(suffix) : x.lamport <= clock
  <2>1. Lawful(base \cup ToSet(suffix))
    BY <1>1, <1>6, LawfulSubset
  <2> QED
    BY <1>1, <1>4, <2>1, ClockAfterIs
<1>2. Learns(c, installed, None, ToSet(suffix), snapshot, clock)
  <2>1. /\ replica'      = [replica      EXCEPT ![c] = installed]
        /\ operations'   = [operations   EXCEPT ![c] = ToSet(suffix)]
        /\ lamportClock' = [lamportClock EXCEPT ![c] = clock]
        /\ baseline'     = [baseline     EXCEPT ![c] = snapshot]
        /\ checkpoint'   = [checkpoint   EXCEPT ![c] = None]
        /\ nextCounter' = nextCounter
    BY DEF InstallServerSnapshot, prefix
  <2> HIDE DEF installed, clock
  <2> QED
    BY <1>1, <1>7, <2>1 DEF Learns, ShapeInv
<1> HIDE DEF installed, clock
<1>8. /\ installed.known \in SUBSET Created
      /\ operations[c] \subseteq ToSet(suffix) /\ ToSet(suffix) \subseteq Created
      /\ \A x \in installed.known : x.lamport <= clock
  BY <1>1, <1>5, <1>6, <1>7
<1>9. MakesUp(snapshot, ToSet(suffix), installed.known)
  BY <1>3, <1>5 DEF MakesUp
<1>10. CheckpointOfPast(None, installed.known)
  BY DEF CheckpointOfPast
<1> QED
  BY <1>2, <1>5, <1>7, <1>8, <1>9, <1>10, LearnsInv

LEMMA StepInv ==
  ASSUME IInv, [Next]_vars
  PROVE  IInv'
<1>1. CASE Next
  <2>1. PICK c \in Clients :
          \/ \E next \in Texts : ReplaceText(c, next)
          \/ \E operation \in Created : ApplyServerOperations(c, operation)
          \/ /\ Eligible(c)
             /\ \E snapshot \in ServerSnapshots,
                   suffix \in {<<>>} \cup {<<operation>> : operation \in Created} :
                  InstallServerSnapshot(c, snapshot, suffix)
          \/ Reopen(c)
    BY <1>1 DEF Next
  <2>2. CASE \E next \in Texts : ReplaceText(c, next)
    BY <2>2, ReplaceTextInv
  <2>3. CASE \E operation \in Created : ApplyServerOperations(c, operation)
    BY <2>3, ApplyServerOperationsInv
  <2>4. CASE /\ Eligible(c)
             /\ \E snapshot \in ServerSnapshots,
                   suffix \in {<<>>} \cup {<<operation>> : operation \in Created} :
                  InstallServerSnapshot(c, snapshot, suffix)
    <3>1. PICK snapshot \in ServerSnapshots,
               suffix \in {<<>>} \cup {<<operation>> : operation \in Created} :
            InstallServerSnapshot(c, snapshot, suffix)
      BY <2>4
    <3>2. suffix \in Seq(Created)
      <4> HIDE DEF Created
      <4>1. CASE suffix = <<>>
        BY <4>1
      <4>2. ASSUME NEW operation \in Created, suffix = <<operation>> PROVE suffix \in Seq(Created)
        BY <4>2
      <4> QED
        BY <4>1, <4>2
    <3> QED
      BY <2>4, <3>1, <3>2, InstallServerSnapshotInv
  <2>5. CASE Reopen(c)
    BY <2>5, ReopenInv
  <2> QED
    BY <2>1, <2>2, <2>3, <2>4, <2>5
<1>2. CASE UNCHANGED vars
  <2>1. Created' = Created
    BY <1>2 DEF Created, vars, stored
  <2>2. OperationsInv' /\ ShapeInv'
    BY <1>2, <2>1 DEF OperationsInv, ShapeInv, IInv, vars, stored
  <2>3. ASSUME NEW c \in Clients PROVE ClientInv(c)'
    BY <1>2, <2>1, OthersKeep DEF IInv, vars, stored
  <2> QED
    BY <2>2, <2>3 DEF IInv
<1> QED
  BY <1>1, <1>2

LEMMA Invariance == Spec => []IInv
BY InitInv, StepInv, PTL DEF Spec

--------------------------------------------------------------------------------
(***************************************************************************)
(* What follows for the document.                                          *)
(***************************************************************************)

LEMMA InvTypeOK == IInv => TypeOK
<1> SUFFICES ASSUME IInv, NEW c \in Clients
             PROVE  /\ replica[c].nodes \subseteq Inserts(replica[c].known)
                    /\ Waiting(replica[c]) \subseteq Inserts(replica[c].known) \ replica[c].nodes
                    /\ replica[c].pendingDeletes \subseteq Deletes(replica[c].known)
                    /\ DOMAIN replica[c].children = {Root} \cup IdsOf(replica[c].nodes)
                    /\ operations[c] \subseteq replica[c].known
                    /\ nextCounter[c] \in 1..Quota[c] + 1
                    /\ lamportClock[c] \in Nat
  BY DEF TypeOK
<1>1. ClientInv(c)
  BY DEF IInv
<1> DEFINE r == replica[c]
<1>2. Sound(r) /\ operations[c] \subseteq r.known
  BY <1>1 DEF ClientInv
<1> HIDE DEF r
<1>3. r = ReplicaOf(r.known, r.nodes, r.pendingInserts)
      /\ WellFormed(r.known, r.nodes, r.pendingInserts)
      /\ Entries(r.pendingInserts) = Inserts(r.known) \ r.nodes
  BY <1>2 DEF Sound
<1>4. r.nodes \subseteq Inserts(r.known)
  BY <1>3 DEF WellFormed
<1>5. Waiting(r) = Inserts(r.known) \ r.nodes
  BY <1>3 DEF Waiting, Entries
<1>6. r.pendingDeletes \subseteq Deletes(r.known)
  BY <1>3 DEF ReplicaOf
<1>7. DOMAIN r.children = {Root} \cup IdsOf(r.nodes)
  <2>1. r.children = TreeOf(r.nodes)
    BY <1>3 DEF ReplicaOf
  <2> QED
    BY <2>1 DEF TreeOf
<1>8. nextCounter[c] \in 1..Quota[c] + 1 /\ lamportClock[c] \in Nat
  <2>1. nextCounter[c] \in Nat \ {0} /\ nextCounter[c] <= Quota[c] + 1 /\ lamportClock[c] \in Nat
    BY DEF IInv, ShapeInv
  <2>2. Quota[c] \in Nat
    BY QuotaAssumption
  <2> QED
    BY <2>1, <2>2
<1> QED
  BY <1>2, <1>4, <1>5, <1>6, <1>7, <1>8 DEF r

LEMMA InvNothingForgotten == IInv => NothingForgotten
<1> SUFFICES ASSUME IInv, NEW c \in Clients
             PROVE  LET r == replica[c]
                    IN  /\ r.nodes = AttachedInserts(r.known)
                        /\ Waiting(r) = Inserts(r.known) \ r.nodes
                        /\ r.pendingDeletes
                             = {delete \in Deletes(r.known) : delete.ref \notin IdsOf(r.nodes)}
                        /\ r.tombstones = {delete.ref : delete \in Deletes(r.known) \ r.pendingDeletes}
  BY DEF NothingForgotten
<1> DEFINE r == replica[c]
<1>1. Sound(r)
  BY DEF IInv, ClientInv
<1> HIDE DEF r
<1>2. r = ReplicaOf(r.known, r.nodes, r.pendingInserts)
      /\ Entries(r.pendingInserts) = Inserts(r.known) \ r.nodes
  BY <1>1 DEF Sound
<1>3. r.nodes = AttachedInserts(r.known)
  BY <1>1, SoundNodes
<1>4. Waiting(r) = Inserts(r.known) \ r.nodes
  BY <1>2 DEF Waiting, Entries
<1>5. r.pendingDeletes = {delete \in Deletes(r.known) : delete.ref \notin IdsOf(r.nodes)}
  BY <1>2 DEF ReplicaOf
<1>6. r.tombstones = {delete.ref : delete \in Deletes(r.known) \ r.pendingDeletes}
  <2>1. r.tombstones = {delete.ref : delete \in {d \in Deletes(r.known) : d.ref \in IdsOf(r.nodes)}}
    BY <1>2 DEF ReplicaOf
  <2>2. {d \in Deletes(r.known) : d.ref \in IdsOf(r.nodes)} = Deletes(r.known) \ r.pendingDeletes
    BY <1>5
  <2> QED
    BY <2>1, <2>2
<1> QED
  BY <1>3, <1>4, <1>5, <1>6 DEF r

LEMMA InvConvergence == IInv => Convergence
<1> SUFFICES ASSUME IInv, NEW c \in Clients, NEW d \in Clients, replica[c].known = replica[d].known
             PROVE  /\ replica[c].children   = replica[d].children
                    /\ replica[c].tombstones = replica[d].tombstones
  BY DEF Convergence
<1>1. Sound(replica[c]) /\ Sound(replica[d])
  BY DEF IInv, ClientInv
<1> QED
  BY <1>1, SoundUnique

LEMMA InvRestartChangesNothing == IInv => RestartChangesNothing
<1> SUFFICES ASSUME IInv, NEW c \in Clients, Resolved(replica[c])
             PROVE  Restored(c) = replica[c]
  BY DEF RestartChangesNothing
<1>1. Lawful(Created) /\ ClientInv(c)
  BY DEF IInv, OperationsInv
<1>2. Sound(Restored(c)) /\ Restored(c).known = replica[c].known
  BY <1>1, RestoredKnows
<1>3. Sound(replica[c])
  BY <1>1 DEF ClientInv
<1> QED
  BY <1>2, <1>3, SoundUnique

LEMMA InvMaterializesReference == IInv => MaterializesReference
<1> SUFFICES ASSUME IInv, NEW c \in Clients
             PROVE  VisibleElements(replica[c]) = DocumentOf(replica[c].known)
  BY DEF MaterializesReference
<1>1. Sound(replica[c])
  BY DEF IInv, ClientInv
<1> QED
  BY <1>1, SoundShowsDocument

\* The tables of a replica have their shape: LocalDocumentController.
THEOREM ReplicasHaveTheirShape == Spec => []TypeOK
BY Invariance, InvTypeOK, PTL

\* Whatever order operations come in, none is lost and none waits for what is
\* there: applyInsert, applyDelete, attachInsertAndResolve.
THEOREM NothingIsForgotten == Spec => []NothingForgotten
BY Invariance, InvNothingForgotten, PTL

\* Replicas that know the same operations have the same tree and the same
\* tombstones, by whatever way the operations reached them.
THEOREM ReplicasConverge == Spec => []Convergence
BY Invariance, InvConvergence, PTL

\* A baseline, a checkpoint or the log alone: all rebuild the replica of the
\* session (restoreReplica, restoreFromServerBaseline).
THEOREM RestartsChangeNothing == Spec => []RestartChangesNothing
BY Invariance, InvRestartChangesNothing, PTL

\* The walk of getVisibleElements over what has been inserted in any order is
\* the document that the operations alone define.
THEOREM ReferenceIsMaterialized == Spec => []MaterializesReference
BY Invariance, InvMaterializesReference, PTL

--------------------------------------------------------------------------------
(***************************************************************************)
(* What a user types is what the user gets.                                *)
(***************************************************************************)

\* The attached inserts are all that can be reached from Root.
Grown(nodes, inserts) ==
  /\ nodes \in SUBSET inserts
  /\ \A x \in inserts : x \in nodes <=> x.ref \in Anchors(nodes)

LEMMA SoundGrown ==
  ASSUME NEW r, Sound(r)
  PROVE  Grown(r.nodes, Inserts(r.known))
<1> DEFINE pending == r.pendingInserts
           I       == Inserts(r.known)
<1>1. WellFormed(r.known, r.nodes, pending) /\ Entries(pending) = I \ r.nodes
  BY DEF Sound
<1>2. r.nodes \in SUBSET I /\ \A node \in r.nodes : node.ref \in Anchors(r.nodes)
  BY <1>1 DEF WellFormed
<1> HIDE DEF I, pending
<1>3. ASSUME NEW x \in I \ r.nodes PROVE x.ref \notin Anchors(r.nodes)
  <2>1. PICK anchor \in DOMAIN pending : x \in ToSet(pending[anchor])
    BY <1>1 DEF Entries
  <2>2. /\ anchor \notin Anchors(r.nodes)
        /\ pending[anchor] \in Seq(Inserts(r.known) \ r.nodes)
        /\ \A i \in 1..Len(pending[anchor]) : pending[anchor][i].ref = anchor
    BY <1>1 DEF WellFormed
  <2>3. PICK i \in 1..Len(pending[anchor]) : x = pending[anchor][i]
    BY <2>1, <2>2, ToSetOfSeq
  <2> QED
    BY <2>2, <2>3
<1>4. Grown(r.nodes, I)
  BY <1>2, <1>3 DEF Grown
<1> QED
  BY <1>4 DEF I

\* What is attached by itself is attached in every tree that has as much.
LEMMA GrownWithin ==
  ASSUME NEW inserts, LawfulInserts(inserts),
         NEW a \in SUBSET inserts, \A x \in a : x.ref \in Anchors(a),
         NEW b, Grown(b, inserts)
  PROVE  a \subseteq b
<1> DEFINE stamps == {x.lamport : x \in a \ b}
<1>1. \A x \in inserts : x.lamport \in Nat
  BY DEF LawfulInserts, Lawful
<1>2. \A x, y \in inserts : y.ref = x.id => x.lamport < y.lamport
  BY DEF LawfulInserts, Lawful, Inserts
<1>3. a \in SUBSET inserts /\ b \in SUBSET inserts
  BY DEF Grown
<1>4. ASSUME a \ b # {} PROVE FALSE
  <2>1. stamps \in SUBSET Nat /\ stamps # {}
    BY <1>1, <1>3, <1>4
  <2>2. PICK least \in stamps : \A n \in stamps : least <= n
    <3> HIDE DEF stamps
    <3> QED
      BY <2>1, LeastNumber
  <2>3. PICK x \in a \ b : x.lamport = least
    OBVIOUS
  <2>4. x.ref \in Anchors(a) /\ x.ref \notin Anchors(b)
    <3>1. x.ref \in Anchors(a)
      BY <2>3
    <3> QED
      BY <1>3, <2>3, <3>1 DEF Grown
  <2>5. PICK e \in a : e.id = x.ref
    BY <2>4 DEF Anchors, IdsOf
  <2>6. e \notin b
    BY <2>4, <2>5 DEF Anchors, IdsOf
  <2>7. e.lamport \in stamps
    BY <2>6
  <2>8. e.lamport < x.lamport /\ e.lamport \in Nat /\ x.lamport \in Nat
    BY <1>1, <1>2, <1>3, <2>3, <2>5
  <2> HIDE DEF stamps
  <2>9. least <= e.lamport
    BY <2>2, <2>7
  <2> QED
    BY <2>3, <2>8, <2>9
<1> QED
  BY <1>4

\* A chain of inserts, each after the one before it and the first after after,
\* in a tree that was old without them; their stamps are above those of old.
Chain(kids, n, after, old, nodes) ==
  /\ n \in Nat
  /\ kids \in [1..n -> nodes \ old]
  /\ old \in SUBSET nodes
  /\ \A i \in 1..n : kids[i].ref = IF i = 1 THEN after ELSE kids[i - 1].id
  /\ \A i \in 1..n, x \in old : x.lamport < kids[i].lamport

LEMMA ChainLines ==
  ASSUME NEW nodes, LawfulInserts(nodes), NEW old, NEW n, NEW kids, NEW after,
         Chain(kids, n, after, old, nodes), NEW i \in 1..n
  PROVE  /\ \A j \in 1..i : kids[j] \in Line(kids[i], nodes)
         /\ \A e \in nodes : e.id = after => Line(e, nodes) \subseteq Line(kids[i], nodes)
<1> DEFINE Holds(k) == /\ \A j \in 1..k : kids[j] \in Line(kids[k], nodes)
                       /\ \A e \in nodes : e.id = after => Line(e, nodes) \subseteq Line(kids[k], nodes)
           good == {k \in 0..n : k = 0 \/ Holds(k)}
<1>1. /\ n \in Nat /\ \A k \in 1..n : kids[k] \in nodes
      /\ \A k \in 1..n : kids[k].ref = IF k = 1 THEN after ELSE kids[k - 1].id
  BY DEF Chain
<1>2. ASSUME NEW k \in 1..n, k - 1 \in good PROVE Holds(k)
  <2>1. kids[k] \in Line(kids[k], nodes)
    BY <1>1, LineBasics
  <2>2. CASE k = 1
    <3>1. ASSUME NEW e \in nodes, e.id = after PROVE Line(e, nodes) \subseteq Line(kids[k], nodes)
      <4>1. e.id = kids[k].ref /\ kids[k] \in nodes
        BY <1>1, <2>2, <3>1
      <4>2. Line(kids[k], nodes) = {kids[k]} \cup Line(e, nodes)
        BY <4>1, LineOfAnchor
      <4> QED
        BY <4>2
    <3>2. \A j \in 1..k : j = k
      BY <2>2
    <3> QED
      BY <2>1, <3>1, <3>2
  <2>3. CASE k # 1
    <3>1. k - 1 \in 1..n /\ k - 1 # 0 /\ \A j \in 1..k : j = k \/ j \in 1..k - 1
      BY <1>1, <2>3
    <3>2. Holds(k - 1)
      BY <1>2, <3>1
    <3>3. kids[k].ref = kids[k - 1].id /\ kids[k] \in nodes /\ kids[k - 1] \in nodes
      BY <1>1, <2>3, <3>1
    <3>4. Line(kids[k], nodes) = {kids[k]} \cup Line(kids[k - 1], nodes)
      BY <3>3, LineOfAnchor
    <3> QED
      BY <2>1, <3>1, <3>2, <3>4
  <2> QED
    BY <2>2, <2>3
<1>3. 0 \in good
  BY <1>1
<1>4. \A k \in 1..n : k - 1 \in good => k \in good
  <2> HIDE DEF Holds
  <2>1. \A k \in 1..n : k \in 0..n
    BY <1>1
  <2> QED
    BY <1>2, <2>1
<1> HIDE DEF good
<1>5. \A k \in 0..n : k \in good
  BY <1>1, <1>3, <1>4, CountUp
<1>6. i \in good /\ i # 0
  BY <1>1, <1>5
<1> QED
  BY <1>6 DEF good

\* An element that stands before the one they were typed after, or is it,
\* stands before them.
LEMMA OldAheadOfNew ==
  ASSUME NEW nodes, LawfulInserts(nodes), NEW old, NEW n, NEW kids, NEW after,
         Chain(kids, n, after, old, nodes), NEW j \in 1..n,
         NEW e \in old, e.id = after, NEW x \in old, x = e \/ Ahead(x, e, nodes)
  PROVE  Ahead(x, kids[j], nodes)
<1>1. e \in nodes /\ kids[j] \in nodes \ old
  BY DEF Chain
<1>2. Line(e, nodes) \subseteq Line(kids[j], nodes)
  BY <1>1, ChainLines
<1>3. e \in Line(e, nodes)
  BY <1>1, LineBasics
<1>4. x # kids[j]
  BY <1>1
<1> QED
  BY <1>2, <1>3, <1>4 DEF Ahead

\* They stand before what stood after that element, or before everything when
\* they were typed at the start.
LEMMA NewAheadOfOld ==
  ASSUME NEW nodes, LawfulInserts(nodes), NEW old, NEW n, NEW kids, NEW after,
         Chain(kids, n, after, old, nodes), Upward(old, nodes), NEW j \in 1..n, NEW y \in old,
         \/ \E first \in Line(y, nodes) : first.ref = after
         \/ \E e \in old : e.id = after /\ Ahead(e, y, nodes)
  PROVE  Ahead(kids[j], y, nodes)
<1>1. y \in nodes /\ kids[j] \in nodes \ old /\ n \in Nat /\ 1 \in 1..n /\ kids[1] \in nodes
      /\ kids[1].ref = after /\ old \in SUBSET nodes
  BY DEF Chain
<1>2. kids[1] \in Line(kids[j], nodes)
  BY <1>1, ChainLines
<1>3. kids[j] # y
  BY <1>1
<1>4. Line(y, nodes) \subseteq old
  <2>1. Line(y, old) = Line(y, nodes)
    BY <1>1, LineInPart
  <2>2. Line(y, old) \in SUBSET old
    BY LineBasics
  <2> QED
    BY <2>1, <2>2
<1>5. ASSUME NEW m \in Line(y, nodes), m.ref = after PROVE Ahead(kids[j], y, nodes)
  <2>1. m.lamport < kids[1].lamport
    BY <1>1, <1>4 DEF Chain
  <2>2. m.lamport \in Nat /\ kids[1].lamport \in Nat
    BY <1>1, <1>4 DEF LawfulInserts, Lawful
  <2>3. Before(kids[1], m)
    BY <2>1, <2>2 DEF Before
  <2> QED
    BY <1>1, <1>2, <1>3, <1>5, <2>3 DEF Ahead
<1>6. ASSUME NEW e \in old, e.id = after, Ahead(e, y, nodes) PROVE Ahead(kids[j], y, nodes)
  <2>1. CASE e \in Line(y, nodes)
    <3>1. e # y
      BY <1>6 DEF Ahead
    <3>2. PICK m \in Line(y, nodes) : m.ref = e.id
      BY <1>1, <2>1, <3>1, ChildInLine
    <3> QED
      BY <1>5, <1>6, <3>2
  <2>2. CASE e \notin Line(y, nodes)
    <3>1. PICK a \in Line(e, nodes), b \in Line(y, nodes) : a.ref = b.ref /\ Before(a, b)
      BY <1>6, <2>2 DEF Ahead
    <3>2. a \in Line(kids[j], nodes)
      BY <1>1, <1>6, ChainLines
    <3> QED
      BY <1>3, <3>1, <3>2 DEF Ahead
  <2> QED
    BY <2>1, <2>2
<1> QED
  BY <1>5, <1>6

\* In a larger tree the old elements stand as they stood.
LEMMA OrderInPart ==
  ASSUME NEW nodes, NEW old \in SUBSET nodes, Upward(old, nodes),
         NEW x \in old, NEW y \in old, Ahead(x, y, old)
  PROVE  Ahead(x, y, nodes)
<1>1. Line(x, old) = Line(x, nodes) /\ Line(y, old) = Line(y, nodes)
  BY LineInPart
<1> QED
  BY <1>1 DEF Ahead

\* The sequence with all between its first p and its last s replaced by kids.
Splice(elements, p, s, kids, n) ==
  [k \in 1..p + n + s |->
     IF k <= p THEN elements[k]
     ELSE IF k <= p + n THEN kids[k - p]
     ELSE elements[k - n + (Len(elements) - s - p)]]

Kept(elements, p, s) ==
  {elements[i] : i \in 1..p} \cup {elements[i] : i \in Len(elements) - s + 1..Len(elements)}

\* What a splice is made of.
SpliceOf(out, S, elements, p, s, kids, n) ==
  /\ out \in Seq(S) /\ Len(out) = p + n + s
  /\ ToSet(out) = Kept(elements, p, s) \cup {kids[i] : i \in 1..n}

LEMMA SpliceIs ==
  ASSUME NEW S, NEW elements \in Seq(S), NEW n \in Nat, NEW kids \in [1..n -> S],
         NEW p \in Nat, NEW s \in Nat, p + s <= Len(elements)
  PROVE  SpliceOf(Splice(elements, p, s, kids, n), S, elements, p, s, kids, n)
<1> DEFINE out == Splice(elements, p, s, kids, n)
           l   == p + n + s
           At(k) == k - n + (Len(elements) - s - p)
<1>1. Len(elements) \in Nat /\ l \in Nat /\ \A i \in 1..Len(elements) : elements[i] \in S
  BY LenProperties
<1>2. \A k \in 1..l :
        /\ k <= p => k \in 1..Len(elements)
        /\ ~(k <= p) /\ k <= p + n => k - p \in 1..n
        /\ ~(k <= p + n) => At(k) \in Len(elements) - s + 1..Len(elements) /\ At(k) \in 1..Len(elements)
  BY <1>1
<1>3. out = [k \in 1..l |-> IF k <= p THEN elements[k]
                            ELSE IF k <= p + n THEN kids[k - p] ELSE elements[At(k)]]
  BY DEF Splice
<1> HIDE DEF out
<1>4. ASSUME NEW k \in 1..l
      PROVE  /\ k <= p => out[k] = elements[k]
             /\ ~(k <= p) /\ k <= p + n => out[k] = kids[k - p]
             /\ ~(k <= p) /\ ~(k <= p + n) => out[k] = elements[At(k)]
  <2> HIDE DEF l, At
  <2> QED
    BY <1>3
<1>5. ASSUME NEW k \in 1..l
      PROVE  out[k] \in S /\ out[k] \in Kept(elements, p, s) \cup {kids[i] : i \in 1..n}
  <2>1. CASE k <= p
    <3>1. k \in 1..p /\ out[k] = elements[k] /\ elements[k] \in S
      BY <1>1, <1>2, <1>4, <2>1
    <3> QED
      BY <3>1 DEF Kept
  <2>2. CASE ~(k <= p) /\ k <= p + n
    <3>1. k - p \in 1..n /\ out[k] = kids[k - p]
      BY <1>2, <1>4, <2>2
    <3> QED
      BY <3>1
  <2>3. CASE ~(k <= p) /\ ~(k <= p + n)
    <3>1. At(k) \in Len(elements) - s + 1..Len(elements) /\ elements[At(k)] \in S
          /\ out[k] = elements[At(k)]
      BY <1>1, <1>2, <1>4, <2>3
    <3> HIDE DEF At
    <3> QED
      BY <3>1 DEF Kept
  <2> QED
    BY <2>1, <2>2, <2>3
<1>6. DOMAIN out = 1..l
  BY <1>3
<1>7. out \in Seq(S) /\ Len(out) = l
  <2> HIDE DEF l, At
  <2>1. out = [k \in 1..l |-> out[k]]
    BY <1>3
  <2>2. \A k \in 1..l : out[k] \in S
    BY <1>5
  <2>3. out \in [1..l -> S]
    BY <2>1, <2>2
  <2>4. l \in Nat
    BY <1>1
  <2> QED
    BY <2>3, <2>4
<1>8. ToSet(out) = {out[k] : k \in 1..l}
  <2> HIDE DEF l
  <2> QED
    BY <1>6 DEF ToSet
<1>9. \A i \in 1..p : \E k \in 1..l : out[k] = elements[i]
  <2> TAKE i \in 1..p
  <2>1. i \in 1..l /\ i <= p
    BY <1>1
  <2> HIDE DEF l
  <2>2. out[i] = elements[i]
    BY <1>4, <2>1
  <2> QED
    BY <2>1, <2>2
<1>10. \A i \in 1..n : \E k \in 1..l : out[k] = kids[i]
  <2> TAKE i \in 1..n
  <2> DEFINE k == p + i
  <2>1. k \in 1..l /\ ~(k <= p) /\ k <= p + n /\ k - p = i
    BY <1>1
  <2> HIDE DEF l, k
  <2>2. out[k] = kids[k - p]
    BY <1>4, <2>1
  <2> QED
    BY <2>1, <2>2
<1>11. \A i \in Len(elements) - s + 1..Len(elements) : \E k \in 1..l : out[k] = elements[i]
  <2> TAKE i \in Len(elements) - s + 1..Len(elements)
  <2> DEFINE k == i + n - (Len(elements) - s - p)
  <2>1. k \in 1..l /\ ~(k <= p) /\ ~(k <= p + n) /\ At(k) = i
    BY <1>1
  <2> HIDE DEF l, k, At
  <2>2. out[k] = elements[At(k)]
    BY <1>4, <2>1
  <2> QED
    BY <2>1, <2>2
<1>12. ToSet(out) = Kept(elements, p, s) \cup {kids[i] : i \in 1..n}
  <2> HIDE DEF l
  <2>1. ToSet(out) \subseteq Kept(elements, p, s) \cup {kids[i] : i \in 1..n}
    BY <1>5, <1>8
  <2>2. Kept(elements, p, s) \subseteq ToSet(out)
    <3>1. {elements[i] : i \in 1..p} \subseteq ToSet(out)
      BY <1>8, <1>9
    <3>2. {elements[i] : i \in Len(elements) - s + 1..Len(elements)} \subseteq ToSet(out)
      BY <1>8, <1>11
    <3> QED
      BY <3>1, <3>2 DEF Kept
  <2>3. {kids[i] : i \in 1..n} \subseteq ToSet(out)
    BY <1>8, <1>10
  <2> QED
    BY <2>1, <2>2, <2>3
<1> QED
  BY <1>7, <1>12 DEF out, SpliceOf

LEMMA SpliceInOrder ==
  ASSUME NEW nodes, LawfulInserts(nodes), NEW old, Upward(old, nodes),
         \A y \in old : \E first \in Line(y, nodes) : first.ref = Root,
         NEW elements \in Seq(old), OutputInOrder(elements, nodes),
         NEW p \in Nat, NEW s \in Nat, p + s <= Len(elements),
         NEW n, NEW kids, Chain(kids, n, IF p = 0 THEN Root ELSE elements[p].id, old, nodes)
  PROVE  OutputInOrder(Splice(elements, p, s, kids, n), nodes)
<1> DEFINE after == IF p = 0 THEN Root ELSE elements[p].id
           out   == Splice(elements, p, s, kids, n)
           l     == p + n + s
           At(k) == k - n + (Len(elements) - s - p)
<1>1. Len(elements) \in Nat /\ \A i \in 1..Len(elements) : elements[i] \in old
  BY LenProperties
<1>2. /\ n \in Nat /\ l \in Nat
      /\ \A i \in 1..n : kids[i] \in nodes
  BY DEF Chain
<1>3. out = [k \in 1..l |-> IF k <= p THEN elements[k]
                            ELSE IF k <= p + n THEN kids[k - p] ELSE elements[At(k)]]
  BY DEF Splice
<1>4. Chain(kids, n, after, old, nodes)
  OBVIOUS
<1>5. Len(out) = l
  <2> HIDE DEF out, l, At
  <2> QED
    BY <1>2, <1>3
<1> HIDE DEF out
<1>6. ASSUME NEW k \in 1..l
      PROVE  /\ k <= p => out[k] = elements[k]
             /\ ~(k <= p) /\ k <= p + n => out[k] = kids[k - p]
             /\ ~(k <= p) /\ ~(k <= p + n) => out[k] = elements[At(k)]
  <2> HIDE DEF l, At
  <2> QED
    BY <1>3
<1>7. \A k \in 1..l :
        /\ k <= p => k \in 1..Len(elements)
        /\ ~(k <= p) /\ k <= p + n => k - p \in 1..n
        /\ ~(k <= p + n) => At(k) \in 1..Len(elements) /\ p < At(k)
  BY <1>1, <1>2
<1>8. \A i, j \in 1..l : ~(i <= p + n) /\ i < j => ~(j <= p + n) /\ At(i) < At(j)
  BY <1>1, <1>2
<1>9. ASSUME NEW i \in 1..l, NEW j \in 1..l, i < j PROVE Ahead(out[i], out[j], nodes)
  <2> HIDE DEF l, At
  <2>0. i \in Nat /\ j \in Nat
    BY <1>2
  <2>1. CASE i <= p /\ j <= p
    <3>1. out[i] = elements[i] /\ out[j] = elements[j] /\ i \in 1..Len(elements) /\ j \in 1..Len(elements)
      BY <1>6, <1>7, <2>1
    <3> QED
      BY <1>9, <3>1 DEF OutputInOrder
  <2>2. CASE i <= p /\ ~(j <= p) /\ j <= p + n
    <3>1. out[i] = elements[i] /\ i \in 1..Len(elements) /\ out[j] = kids[j - p] /\ j - p \in 1..n
      BY <1>6, <1>7, <2>2
    <3>2. p # 0 /\ p \in 1..Len(elements)
      BY <1>1, <2>0, <2>2, <3>1
    <3>3. elements[p].id = after /\ elements[p] \in old /\ elements[i] \in old
      BY <1>1, <3>1, <3>2
    <3>4. elements[i] = elements[p] \/ Ahead(elements[i], elements[p], nodes)
      <4>1. i = p \/ i < p
        BY <2>0, <2>2
      <4> QED
        BY <3>1, <3>2, <4>1 DEF OutputInOrder
    <3> HIDE DEF after
    <3> QED
      BY <1>4, <3>1, <3>3, <3>4, OldAheadOfNew
  <2>3. CASE i <= p /\ ~(j <= p) /\ ~(j <= p + n)
    <3>1. /\ out[i] = elements[i] /\ i \in 1..Len(elements)
          /\ out[j] = elements[At(j)] /\ At(j) \in 1..Len(elements) /\ p < At(j)
      BY <1>6, <1>7, <2>3
    <3>2. i < At(j)
      BY <1>1, <2>0, <2>3, <3>1
    <3> QED
      BY <3>1, <3>2 DEF OutputInOrder
  <2>4. CASE ~(i <= p) /\ i <= p + n /\ ~(j <= p) /\ j <= p + n
    <3>1. out[i] = kids[i - p] /\ out[j] = kids[j - p] /\ i - p \in 1..n /\ j - p \in 1..n
      BY <1>6, <1>7, <2>4
    <3>2. i - p \in 1..j - p /\ i - p < j - p
      BY <1>9, <2>0, <3>1
    <3>3. kids[i - p] \in Line(kids[j - p], nodes)
      BY <1>4, <3>1, <3>2, ChainLines
    <3>4. kids[i - p] # kids[j - p]
      <4>1. j - p # 1 /\ (j - p) - 1 \in 1..n /\ i - p \in 1..(j - p) - 1
        BY <1>2, <2>0, <3>1, <3>2
      <4>2. kids[j - p].ref = kids[(j - p) - 1].id /\ kids[(j - p) - 1] \in nodes /\ kids[j - p] \in nodes
        <5> DEFINE k == j - p
        <5>1. k \in 1..n /\ k # 1 /\ k - 1 \in 1..n
          BY <3>1, <4>1
        <5> HIDE DEF k
        <5>2. kids[k].ref = kids[k - 1].id /\ kids[k - 1] \in nodes /\ kids[k] \in nodes
          BY <1>4, <5>1 DEF Chain
        <5> QED
          BY <5>2 DEF k
      <4>3. kids[(j - p) - 1].lamport < kids[j - p].lamport /\ kids[j - p].lamport \in Nat
            /\ kids[(j - p) - 1].lamport \in Nat
        BY <4>2 DEF LawfulInserts, Lawful, Inserts
      <4>4. kids[i - p] \in Line(kids[(j - p) - 1], nodes)
        BY <1>4, <4>1, ChainLines
      <4>5. kids[i - p] = kids[(j - p) - 1] \/ kids[i - p].lamport < kids[(j - p) - 1].lamport
        BY <4>2, <4>4, StampsDecrease
      <4>6. kids[i - p].lamport \in Nat
        BY <1>2, <3>1 DEF LawfulInserts, Lawful
      <4> QED
        BY <4>3, <4>5, <4>6
    <3> QED
      BY <3>1, <3>3, <3>4 DEF Ahead
  <2>5. CASE ~(i <= p) /\ i <= p + n /\ ~(j <= p) /\ ~(j <= p + n)
    <3>1. /\ out[i] = kids[i - p] /\ i - p \in 1..n
          /\ out[j] = elements[At(j)] /\ At(j) \in 1..Len(elements) /\ p < At(j)
      BY <1>6, <1>7, <2>5
    <3>2. elements[At(j)] \in old
      BY <1>1, <3>1
    <3>3. \/ \E first \in Line(elements[At(j)], nodes) : first.ref = after
          \/ \E e \in old : e.id = after /\ Ahead(e, elements[At(j)], nodes)
      <4>1. CASE p = 0
        BY <3>2, <4>1
      <4>2. CASE p # 0
        <5>1. p \in 1..Len(elements) /\ elements[p] \in old
          BY <1>1, <4>2
        <5>2. Ahead(elements[p], elements[At(j)], nodes)
          BY <3>1, <5>1 DEF OutputInOrder
        <5> QED
          BY <4>2, <5>1, <5>2
      <4> QED
        BY <4>1, <4>2
    <3> HIDE DEF after
    <3> QED
      BY <1>4, <3>1, <3>2, <3>3, NewAheadOfOld
  <2>6. CASE ~(i <= p) /\ ~(i <= p + n) /\ ~(j <= p)
    <3>1. ~(j <= p + n) /\ At(i) < At(j)
      BY <1>8, <1>9, <2>6
    <3>2. /\ out[i] = elements[At(i)] /\ out[j] = elements[At(j)]
          /\ At(i) \in 1..Len(elements) /\ At(j) \in 1..Len(elements)
      BY <1>6, <1>7, <2>6, <3>1
    <3> QED
      BY <3>1, <3>2 DEF OutputInOrder
  <2>7. ~(i <= p) => ~(j <= p)
    BY <1>9, <2>0
  <2> QED
    BY <2>1, <2>2, <2>3, <2>4, <2>5, <2>6, <2>7
<1>10. OutputInOrder(out, nodes)
  <2> HIDE DEF l
  <2> QED
    BY <1>5, <1>9 DEF OutputInOrder
<1> QED
  BY <1>10 DEF out

\* A replica and the one it becomes when client's edit to next is applied.
Typing(r, current, new, client, counter, clock, next, p, s, V) ==
  /\ Sound(r) /\ Sound(current)
  /\ current.known = r.known \cup ToSet(new)
  /\ counter \in Nat /\ clock \in Nat /\ client \in Nat \ {0}
  /\ Given(r.known, client, counter)
  /\ \A x \in r.known : x.lamport <= clock
  /\ \A x \in r.known, y \in ToSet(new) : x.ref # y.id
  /\ Fresh(ToSet(new), client, counter, clock, Len(new), r.nodes, V)
  /\ EditOperations(new, client, counter, clock, VisibleElements(r), next, p, s)

LEMMA NewIsNotKnown ==
  ASSUME NEW r, NEW current, NEW new, NEW client, NEW counter, NEW clock, NEW next, NEW p, NEW s,
         NEW V, Typing(r, current, new, client, counter, clock, next, p, s, V),
         NEW x \in r.known, NEW y \in ToSet(new)
  PROVE  x.id # y.id
<1>1. x.id \in Identities /\ (x.id[1] = client => x.id[2] < counter)
  BY DEF Typing, Given
<1>2. y.id[1] = client /\ counter <= y.id[2] /\ counter \in Nat /\ y.id \in Identities
  BY DEF Typing, Fresh
<1>3. x.id[2] \in Nat
  BY <1>1 DEF Identities
<1> QED
  BY <1>1, <1>2, <1>3

LEMMA TypingGrows ==
  ASSUME NEW r, NEW current, NEW new, NEW client, NEW counter, NEW clock, NEW next, NEW p, NEW s,
         NEW V, Typing(r, current, new, client, counter, clock, next, p, s, V)
  PROVE  current.nodes = r.nodes \cup Inserts(ToSet(new))
<1> DEFINE I == Inserts(current.known)
           new_ == Inserts(ToSet(new))
           N == r.nodes \cup new_
<1>1. Sound(r) /\ Sound(current) /\ current.known = r.known \cup ToSet(new)
  BY DEF Typing
<1>2. Grown(r.nodes, Inserts(r.known)) /\ Grown(current.nodes, I) /\ LawfulInserts(I)
  BY <1>1, SoundGrown, InsertsAreLawful DEF Sound
<1>3. I = Inserts(r.known) \cup new_
  BY <1>1 DEF Inserts
<1>4. ASSUME NEW x \in Inserts(r.known) PROVE x \in N <=> x.ref \in Anchors(N)
  <2>1. x \in r.known
    BY DEF Inserts
  <2>2. x \notin new_
    BY <2>1, NewIsNotKnown DEF Inserts
  <2>3. x.ref \notin IdsOf(new_)
    BY <2>1 DEF Typing, IdsOf, Inserts
  <2>4. x \in r.nodes <=> x.ref \in Anchors(r.nodes)
    BY <1>2 DEF Grown
  <2>5. x.ref \in Anchors(N) <=> x.ref \in Anchors(r.nodes)
    BY <2>3 DEF Anchors, IdsOf
  <2> QED
    BY <2>2, <2>4, <2>5
<1>5. ASSUME NEW x \in new_ PROVE x \in N /\ x.ref \in Anchors(N)
  <2>1. x.ref \in Anchors(r.nodes) \cup IdsOf(new_)
    BY DEF Typing, Fresh, Inserts
  <2> QED
    BY <2>1 DEF Anchors, IdsOf
<1>6. N \in SUBSET I
  BY <1>2, <1>3 DEF Grown
<1>7. Grown(N, I)
  <2> HIDE DEF N, I
  <2> QED
    BY <1>3, <1>4, <1>5, <1>6 DEF Grown
<1> HIDE DEF N, I
<1>8. N \subseteq current.nodes
  <2>1. N \in SUBSET I /\ \A x \in N : x.ref \in Anchors(N)
    BY <1>7 DEF Grown
  <2> QED
    BY <1>2, <2>1, GrownWithin
<1>9. current.nodes \subseteq N
  <2>1. current.nodes \in SUBSET I /\ \A x \in current.nodes : x.ref \in Anchors(current.nodes)
    BY <1>2 DEF Grown
  <2> QED
    BY <1>2, <1>7, <2>1, GrownWithin
<1> QED
  BY <1>8, <1>9 DEF N

\* Which of the new operations insert and which delete.
EditKinds(new, elements, next, p, s) ==
  LET d == Len(elements) - s - p
      n == Len(next) - s - p
  IN  /\ d \in Nat /\ n \in Nat /\ p \in Nat /\ s \in Nat
      /\ p + s <= Len(elements) /\ p + s <= Len(next)
      /\ Inserts(ToSet(new)) = {new[d + i] : i \in 1..n}
      /\ Deletes(ToSet(new)) = {new[i] : i \in 1..d}

LEMMA NewKinds ==
  ASSUME NEW new, NEW client, NEW counter, NEW clock, NEW elements, Len(elements) \in Nat,
         NEW next, Len(next) \in Nat, NEW p, NEW s,
         EditOperations(new, client, counter, clock, elements, next, p, s)
  PROVE  EditKinds(new, elements, next, p, s)
<1> DEFINE d == Len(elements) - s - p
           n == Len(next) - s - p
           K == {new[d + i] : i \in 1..n}
           D == {new[i] : i \in 1..d}
<1>1. Len(Values(elements)) = Len(elements)
  BY DEF Values
<1>2. d \in Nat /\ n \in Nat /\ p \in Nat /\ s \in Nat
      /\ p + s <= Len(elements) /\ p + s <= Len(next)
  <2>1. Keeps(Values(elements), next, p, s)
    BY DEF EditOperations
  <2> QED
    BY <1>1, <2>1 DEF Keeps
<1>3. /\ DOMAIN new = 1..d + n
      /\ \A i \in 1..d : new[i].kind = "delete"
      /\ \A i \in 1..n : new[d + i].kind = "insert"
  BY DEF EditOperations
<1> HIDE DEF d, n
<1>4. ToSet(new) = {new[i] : i \in 1..d + n}
  BY <1>3 DEF ToSet
<1>5. \A i \in 1..d + n : i \in 1..d \/ (i - d \in 1..n /\ d + (i - d) = i)
  BY <1>2
<1>6. \A i \in 1..d : i \in 1..d + n
  BY <1>2
<1>7. \A i \in 1..n : d + i \in 1..d + n
  BY <1>2
<1>8. K \subseteq ToSet(new) /\ D \subseteq ToSet(new)
  BY <1>4, <1>6, <1>7
<1>9. ToSet(new) \subseteq K \cup D
  BY <1>4, <1>5
<1>10. /\ \A x \in K : x.kind = "insert"
       /\ \A x \in D : x.kind = "delete"
  BY <1>3
<1> HIDE DEF K, D
<1>11. Inserts(ToSet(new)) = K /\ Deletes(ToSet(new)) = D
  BY <1>8, <1>9, <1>10 DEF Inserts, Deletes
<1> QED
  BY <1>2, <1>11 DEF d, n, K, D, EditKinds

\* The sets of elements that are shown before and after.
LEMMA TypingHides ==
  ASSUME NEW r, NEW current, NEW new, NEW client, NEW counter, NEW clock, NEW next, NEW p, NEW s,
         NEW V, Typing(r, current, new, client, counter, clock, next, p, s, V),
         next \in Seq(V)
  PROVE  ToSet(VisibleElements(current)) = Kept(VisibleElements(r), p, s) \cup Inserts(ToSet(new))
<1> DEFINE E == VisibleElements(r)
           d == Len(E) - s - p
           K == Inserts(ToSet(new))
           targets == {E[p + i].id : i \in 1..d}
<1>1. Sound(r) /\ Sound(current) /\ current.known = r.known \cup ToSet(new)
  BY DEF Typing
<1>2. /\ E \in Seq(r.nodes)
      /\ ToSet(E) = {x \in r.nodes : x.id \notin r.tombstones}
      /\ OutputInOrder(E, r.nodes)
  BY <1>1, VisibleIs
<1>3. r.nodes \in SUBSET Inserts(r.known) /\ LawfulInserts(r.nodes)
  <2>1. r.nodes \in SUBSET Inserts(r.known)
    BY <1>1 DEF Sound, WellFormed
  <2>2. r.nodes \in SUBSET r.known /\ \A x \in r.nodes : x.kind = "insert"
    BY <2>1 DEF Inserts
  <2>3. Lawful(r.nodes)
    BY <1>1, <2>2, LawfulSubset DEF Sound
  <2> QED
    BY <2>1, <2>2, <2>3 DEF LawfulInserts
<1> HIDE DEF E
<1>4. /\ Len(E) \in Nat /\ \A i \in 1..Len(E) : E[i] \in r.nodes
      /\ ToSet(E) = {E[i] : i \in 1..Len(E)}
      /\ Distinct(E)
  BY <1>2, <1>3, ToSetOfSeq, LenProperties, InOrderIsInjective
<1>5. EditOperations(new, client, counter, clock, E, next, p, s) /\ Len(next) \in Nat
  BY LenProperties DEF Typing, E
<1>6. /\ d \in Nat /\ p \in Nat /\ s \in Nat /\ p + s <= Len(E)
      /\ Deletes(ToSet(new)) = {new[i] : i \in 1..d}
  <2>1. Len(E) \in Nat
    BY <1>4
  <2>2. EditKinds(new, E, next, p, s)
    <3> HIDE DEF d, K, targets
    <3> QED
      BY <1>5, <2>1, NewKinds
  <2> QED
    BY <2>2 DEF EditKinds
<1>7. \A i \in 1..d : new[i].ref = E[p + i].id
  BY <1>5 DEF EditOperations
<1>8. {delete.ref : delete \in Deletes(ToSet(new))} = targets
  <2> HIDE DEF d
  <2>1. {delete.ref : delete \in Deletes(ToSet(new))} = {new[i].ref : i \in 1..d}
    BY <1>6
  <2>2. {new[i].ref : i \in 1..d} = targets
    BY <1>7
  <2> QED
    BY <2>1, <2>2
<1>9. current.nodes = r.nodes \cup K
  BY TypingGrows
<1>10. /\ r.tombstones = {delete.ref : delete \in {x \in Deletes(r.known) : x.ref \in IdsOf(r.nodes)}}
       /\ current.tombstones
            = {delete.ref : delete \in {x \in Deletes(current.known) : x.ref \in IdsOf(current.nodes)}}
  BY <1>1, TombstonesAre
<1>11. Deletes(current.known) = Deletes(r.known) \cup Deletes(ToSet(new))
  BY <1>1 DEF Deletes
<1>12. \A i \in 1..d : p + i \in 1..Len(E)
  BY <1>4, <1>6
<1>13. ASSUME NEW x \in K PROVE x.id \notin current.tombstones
  <2>1. x \in ToSet(new)
    BY DEF Inserts
  <2>2. \A y \in Deletes(r.known) : y.ref # x.id
    BY <2>1 DEF Typing, Deletes
  <2>3. x.id \notin targets
    <3>1. ASSUME NEW i \in 1..d PROVE E[p + i].id # x.id
      <4>1. E[p + i] \in r.known
        BY <1>3, <1>4, <1>12 DEF Inserts
      <4> QED
        BY <2>1, <4>1, NewIsNotKnown
    <3> QED
      BY <3>1
  <2> HIDE DEF targets
  <2> QED
    BY <1>8, <1>10, <1>11, <2>2, <2>3
<1>14. ASSUME NEW x \in r.nodes
       PROVE  x.id \notin current.tombstones <=> x \in ToSet(E) /\ x.id \notin targets
  <2>1. x.id \in IdsOf(r.nodes) /\ x.id \in IdsOf(current.nodes)
    BY <1>9 DEF IdsOf
  <2>2. x.id \in r.tombstones <=> \E y \in Deletes(r.known) : y.ref = x.id
    BY <1>10, <2>1
  <2>3. x.id \in current.tombstones <=> \E y \in Deletes(current.known) : y.ref = x.id
    BY <1>10, <2>1
  <2>4. (\E y \in Deletes(ToSet(new)) : y.ref = x.id) <=> x.id \in targets
    <3> HIDE DEF targets
    <3> QED BY <1>8
  <2> HIDE DEF targets
  <2> QED
    BY <1>2, <1>11, <2>2, <2>3, <2>4
<1>15. ASSUME NEW j \in 1..Len(E) PROVE E[j].id \in targets <=> j \in p + 1..p + d
  <2>1. ASSUME NEW i \in 1..d, E[p + i].id = E[j].id PROVE j = p + i
    <3>1. E[p + i] = E[j]
      BY <1>3, <1>4, <1>12, <2>1 DEF LawfulInserts, Lawful
    <3> QED
      BY <1>4, <1>12, <3>1 DEF Distinct
  <2>2. ASSUME j \in p + 1..p + d PROVE E[j].id \in targets
    <3>1. j - p \in 1..d /\ j = p + (j - p)
      BY <1>6, <2>2
    <3> QED
      BY <3>1
  <2>3. \A i \in 1..d : p + i \in p + 1..p + d
    BY <1>6
  <2> QED
    BY <2>1, <2>2, <2>3
<1>16. {x \in ToSet(E) : x.id \notin targets} = Kept(E, p, s)
  <2>1. \A j \in 1..Len(E) : j \notin p + 1..p + d <=> j \in 1..p \/ j \in Len(E) - s + 1..Len(E)
    BY <1>4, <1>6
  <2>2. \A j : j \in 1..p \/ j \in Len(E) - s + 1..Len(E) => j \in 1..Len(E)
    BY <1>4, <1>6
  <2>3. Kept(E, p, s) = {E[j] : j \in {k \in 1..Len(E) : k \notin p + 1..p + d}}
    BY <2>1, <2>2 DEF Kept
  <2>4. {x \in ToSet(E) : x.id \notin targets} = {E[j] : j \in {k \in 1..Len(E) : E[k].id \notin targets}}
    <3> HIDE DEF targets
    <3> QED BY <1>4
  <2> HIDE DEF targets, d
  <2>5. {k \in 1..Len(E) : E[k].id \notin targets} = {k \in 1..Len(E) : k \notin p + 1..p + d}
    BY <1>15
  <2> QED
    BY <2>3, <2>4, <2>5
<1>17. ToSet(VisibleElements(current)) = {x \in current.nodes : x.id \notin current.tombstones}
  BY <1>1, VisibleIs
<1>18. ToSet(E) \subseteq r.nodes
  BY <1>2
<1>19. ToSet(VisibleElements(current)) = {x \in ToSet(E) : x.id \notin targets} \cup K
  <2> HIDE DEF targets, K
  <2> QED
    BY <1>9, <1>13, <1>14, <1>17, <1>18
<1> QED
  BY <1>16, <1>19 DEF E

LEMMA TypingShows ==
  ASSUME NEW r, NEW current, NEW new, NEW client, NEW counter, NEW clock, NEW next, NEW p, NEW s,
         NEW V, Typing(r, current, new, client, counter, clock, next, p, s, V),
         next \in Seq(V)
  PROVE  Materialize(current) = next
<1> DEFINE E     == VisibleElements(r)
           N     == r.nodes
           new_  == Inserts(ToSet(new))
           M     == N \cup new_
           d     == Len(E) - s - p
           n     == Len(next) - s - p
           kids  == [i \in 1..n |-> new[d + i]]
           after == IF p = 0 THEN Root ELSE E[p].id
           out   == Splice(E, p, s, kids, n)
<1>1. Sound(r) /\ Sound(current) /\ current.known = r.known \cup ToSet(new)
  BY DEF Typing
<1>2. E \in Seq(N) /\ OutputInOrder(E, N)
  BY <1>1, VisibleIs
<1>3. current.nodes = M
  BY TypingGrows
<1>4. N \in SUBSET Inserts(r.known) /\ M \in SUBSET Inserts(current.known) /\ N \in SUBSET M
  BY <1>1, <1>3 DEF Sound, WellFormed
<1>5. LawfulInserts(M)
  <2>1. M \in SUBSET current.known /\ \A x \in M : x.kind = "insert"
    BY <1>4 DEF Inserts
  <2>2. Lawful(M)
    BY <1>1, <2>1, LawfulSubset DEF Sound
  <2> HIDE DEF M
  <2> QED
    BY <2>1, <2>2 DEF LawfulInserts
<1>6. Upward(N, Inserts(r.known)) /\ N = AttachedInserts(r.known)
  BY <1>1, SoundNodes
<1>7. N \cap new_ = {}
  BY <1>4, NewIsNotKnown DEF Inserts
<1>8. Upward(N, M)
  <2>1. ASSUME NEW y \in N, NEW anchor \in M, anchor.id = y.ref PROVE anchor \in N
    <3>1. CASE anchor \in N
      BY <3>1
    <3>2. CASE anchor \in new_
      <4>1. y \in r.known /\ anchor \in ToSet(new)
        BY <1>4, <3>2 DEF Inserts
      <4> QED
        BY <2>1, <4>1 DEF Typing
    <3> QED
      BY <3>1, <3>2
  <2> HIDE DEF N, M
  <2> QED
    BY <2>1 DEF Upward
<1>9. EditOperations(new, client, counter, clock, E, next, p, s) /\ Len(next) \in Nat /\ Len(E) \in Nat
  BY <1>2, LenProperties DEF Typing
<1>10. /\ d \in Nat /\ n \in Nat /\ p \in Nat /\ s \in Nat /\ p + s <= Len(E) /\ p + s <= Len(next)
       /\ new_ = {new[d + i] : i \in 1..n}
  <2>1. EditKinds(new, E, next, p, s)
    <3> HIDE DEF E, N, new_, M, d, n, kids, after, out
    <3> QED
      BY <1>9, NewKinds
  <2> QED
    BY <2>1 DEF EditKinds
<1>11. /\ \A i \in 1..n : /\ new[d + i].value = next[p + i]
                          /\ new[d + i].ref = IF i = 1 THEN IF p = 0 THEN Root ELSE E[p].id
                                              ELSE new[d + i - 1].id
       /\ Keeps(Values(E), next, p, s)
  BY <1>9 DEF EditOperations
<1>12. ToSet(VisibleElements(current)) = Kept(E, p, s) \cup new_
  BY TypingHides
<1>13. VisibleElements(current) \in Seq(M) /\ OutputInOrder(VisibleElements(current), M)
  BY <1>1, <1>3, VisibleIs
<1>14. \A i \in 1..n : kids[i] = new[d + i] /\ kids[i] \in new_
  BY <1>10
<1>15. kids \in [1..n -> M] /\ kids \in [1..n -> M \ N] /\ {kids[i] : i \in 1..n} = new_
  <2>1. {kids[i] : i \in 1..n} = new_
    BY <1>10, <1>14
  <2>2. \A i \in 1..n : kids[i] \in M /\ kids[i] \in M \ N
    BY <1>7, <1>14
  <2>3. kids = [i \in 1..n |-> kids[i]]
    OBVIOUS
  <2> HIDE DEF kids, M, N, new_, n
  <2> QED
    BY <2>1, <2>2, <2>3
<1>16. Chain(kids, n, after, N, M)
  <2>1. ASSUME NEW i \in 1..n PROVE kids[i].ref = IF i = 1 THEN after ELSE kids[i - 1].id
    <3>1. CASE i = 1
      BY <1>11, <1>14, <3>1
    <3>2. CASE i # 1
      <4>1. i - 1 \in 1..n /\ d + (i - 1) = d + i - 1
        BY <1>10, <3>2
      <4>2. kids[i].ref = new[d + i - 1].id
        BY <1>11, <1>14, <3>2
      <4>3. kids[i - 1] = new[d + (i - 1)]
        <5> HIDE DEF kids
        <5> QED BY <1>14, <4>1
      <4> HIDE DEF kids, d
      <4> QED
        BY <3>2, <4>1, <4>2, <4>3
    <3> QED
      BY <3>1, <3>2
  <2>2. ASSUME NEW i \in 1..n, NEW x \in N PROVE x.lamport < kids[i].lamport
    <3>1. x \in r.known /\ kids[i] \in ToSet(new)
      BY <1>4, <1>14 DEF Inserts
    <3>2. x.lamport <= clock /\ clock < kids[i].lamport /\ clock \in Nat /\ kids[i].lamport \in Nat
      BY <3>1 DEF Typing, Fresh
    <3>3. x.lamport \in Nat
      BY <1>1, <3>1 DEF Sound, Lawful
    <3> QED
      BY <3>2, <3>3
  <2> HIDE DEF kids, n, after, N, M
  <2> QED
    BY <1>4, <1>10, <1>15, <2>1, <2>2 DEF Chain
<1>17. \A y \in N : \E first \in Line(y, M) : first.ref = Root
  <2> TAKE y \in N
  <2>1. PICK first \in Line(y, Inserts(r.known)) : first.ref = Root
    BY <1>6 DEF AttachedInserts
  <2>2. Line(y, N) = Line(y, Inserts(r.known))
    <3> HIDE DEF N
    <3> QED
      BY <1>4, <1>6, LineInPart
  <2>3. Line(y, N) = Line(y, M)
    <3> HIDE DEF N, M
    <3> QED
      BY <1>4, <1>8, LineInPart
  <2> QED
    BY <2>1, <2>2, <2>3
<1> HIDE DEF N, M, new_, kids, n, d
<1>18. OutputInOrder(E, M)
  <2>1. \A i \in 1..Len(E) : E[i] \in N
    BY <1>2, LenProperties
  <2> HIDE DEF E
  <2>2. ASSUME NEW i \in 1..Len(E), NEW j \in 1..Len(E), i < j PROVE Ahead(E[i], E[j], M)
    <3>1. Ahead(E[i], E[j], N)
      BY <1>2, <2>2 DEF OutputInOrder
    <3> QED
      BY <1>4, <1>8, <2>1, <3>1, OrderInPart
  <2> QED
    BY <2>2 DEF OutputInOrder
<1>19. OutputInOrder(out, M)
  <2>1. p \in Nat /\ s \in Nat /\ p + s <= Len(E)
    BY <1>10
  <2> HIDE DEF E
  <2> QED
    BY <1>2, <1>5, <1>8, <1>16, <1>17, <1>18, <2>1, SpliceInOrder
<1>20. out \in Seq(M) /\ Len(out) = p + n + s /\ ToSet(out) = Kept(E, p, s) \cup new_
  <2>1. E \in Seq(M)
    <3> HIDE DEF E
    <3>1. N \subseteq M
      BY <1>4
    <3> QED
      BY <1>2, <3>1, SeqSubset
  <2>2. p \in Nat /\ s \in Nat /\ p + s <= Len(E) /\ n \in Nat
    BY <1>10
  <2>3. /\ out \in Seq(M) /\ Len(out) = p + n + s
        /\ ToSet(out) = Kept(E, p, s) \cup {kids[i] : i \in 1..n}
    <3> HIDE DEF E
    <3>1. kids \in [1..n -> M]
      BY <1>15
    <3>2. SpliceOf(Splice(E, p, s, kids, n), M, E, p, s, kids, n)
      BY <2>1, <2>2, <3>1, SpliceIs
    <3> QED
      BY <3>2 DEF SpliceOf
  <2> QED
    BY <1>15, <2>3
<1>21. VisibleElements(current) = out
  <2> HIDE DEF out, E
  <2>1. ToSet(out) = ToSet(VisibleElements(current))
    BY <1>12, <1>20
  <2> QED
    BY <1>5, <1>13, <1>19, <1>20, <2>1, InOrderIsUnique
<1>22. ASSUME NEW k \in 1..p + n + s PROVE out[k].value = next[k]
  <2> DEFINE j == k - n + (Len(E) - s - p)
  <2>1. /\ \A i \in 1..Len(E) : Values(E)[i] = E[i].value
        /\ Len(Values(E)) = Len(E)
    <3>1. DOMAIN E = 1..Len(E)
      BY <1>2, LenProperties
    <3> HIDE DEF E
    <3> QED
      BY <3>1 DEF Values
  <2>2. /\ \A i \in 1..p : Values(E)[i] = next[i]
        /\ \A i \in 1..s : Values(E)[Len(E) - i + 1] = next[Len(next) - i + 1]
    BY <1>11, <2>1 DEF Keeps
  <2>3. out[k] = IF k <= p THEN E[k] ELSE IF k <= p + n THEN kids[k - p] ELSE E[j]
    BY DEF Splice
  <2> HIDE DEF E, out
  <2>4. CASE k <= p
    <3>1. k \in 1..p /\ k \in 1..Len(E)
      BY <1>9, <1>10, <2>4
    <3> QED
      BY <2>1, <2>2, <2>3, <2>4, <3>1
  <2>5. CASE ~(k <= p) /\ k <= p + n
    <3>1. k - p \in 1..n /\ p + (k - p) = k
      BY <1>10, <2>5
    <3>2. kids[k - p].value = next[p + (k - p)]
      BY <1>11, <1>14, <3>1
    <3> QED
      BY <2>3, <2>5, <3>1, <3>2
  <2>6. CASE ~(k <= p) /\ ~(k <= p + n)
    <3> DEFINE i == Len(next) - k + 1
    <3>1. i \in 1..s /\ Len(next) - i + 1 = k /\ Len(E) - i + 1 = j /\ j \in 1..Len(E)
      BY <1>9, <1>10, <2>6 DEF n
    <3> HIDE DEF i, j
    <3>2. Values(E)[j] = next[k] /\ Values(E)[j] = E[j].value
      BY <2>1, <2>2, <3>1
    <3> QED
      BY <2>3, <2>6, <3>2
  <2> QED
    BY <2>4, <2>5, <2>6
<1>23. Values(out) = next
  <2>1. DOMAIN out = 1..p + n + s
    BY DEF Splice
  <2>2. Len(next) = p + n + s
    BY <1>9, <1>10 DEF n
  <2>3. Values(out) = [k \in 1..p + n + s |-> out[k].value]
    <3> HIDE DEF out
    <3> QED
      BY <2>1 DEF Values
  <2>4. next = [k \in 1..Len(next) |-> next[k]]
    OBVIOUS
  <2> HIDE DEF out
  <2> QED
    BY <1>22, <2>2, <2>3, <2>4
<1> QED
  BY <1>21, <1>23 DEF Materialize

LEMMA InvTypedIsShown == IInv => TypedIsShown
<1> SUFFICES ASSUME IInv, NEW c \in Clients, NEW next \in Texts
             PROVE  Materialize(ApplyAll(replica[c], OperationsFor(c, next))) = next
  BY DEF TypedIsShown
<1> DEFINE r       == replica[c]
           new     == OperationsFor(c, next)
           current == ApplyAll(r, new)
<1>1. PICK p, s : EditOperations(new, c, nextCounter[c], lamportClock[c], VisibleElements(r), next, p, s)
  BY EditOf
<1>2. /\ Fresh(ToSet(new), c, nextCounter[c], lamportClock[c], Len(new), r.nodes, Alphabet)
      /\ Sound(current) /\ current.known = r.known \cup ToSet(new)
  BY EditApplies
<1>3. Sound(r) /\ r.known \in SUBSET Created /\ \A x \in r.known : x.lamport <= lamportClock[c]
  BY DEF IInv, ClientInv
<1>4. /\ Lawful(Created)
      /\ \A x \in Created : /\ x.id[1] \in Clients
                            /\ x.id[2] < nextCounter[x.id[1]]
                            /\ x.ref \in {Root} \cup IdsOf(Inserts(Created))
  BY DEF IInv, OperationsInv
<1>5. nextCounter[c] \in Nat /\ lamportClock[c] \in Nat /\ c \in Nat \ {0}
  BY ClientsAssumption DEF IInv, ShapeInv
<1>6. Given(Created, c, nextCounter[c])
  BY <1>4 DEF Given, Lawful
<1> HIDE DEF r, new, current, Created
<1>7. Given(r.known, c, nextCounter[c])
  BY <1>3, <1>6 DEF Given
<1>8. ASSUME NEW x \in r.known, NEW y \in ToSet(new) PROVE x.ref # y.id
  <2>1. y.id \in Identities /\ y.id[1] = c /\ nextCounter[c] <= y.id[2]
    BY <1>2 DEF Fresh
  <2>2. y.id # Root
    BY <2>1, RootIsNoIdentity
  <2>3. ASSUME NEW e \in Created, e.id = y.id PROVE FALSE
    <3>1. e.id[2] < nextCounter[c] /\ e.id[2] \in Nat
      BY <1>6, <2>1, <2>3 DEF Given, Identities
    <3> QED
      BY <1>5, <2>1, <2>3, <3>1
  <2>4. x.ref = Root \/ \E e \in Created : e.id = x.ref
    BY <1>3, <1>4 DEF IdsOf, Inserts
  <2> QED
    BY <2>2, <2>3, <2>4
<1>9. Typing(r, current, new, c, nextCounter[c], lamportClock[c], next, p, s, Alphabet)
  BY <1>1, <1>2, <1>3, <1>5, <1>7, <1>8 DEF Typing
<1>10. next \in Seq(Alphabet)
  BY TextsAreSequences
<1>11. Materialize(current) = next
  BY <1>9, <1>10, TypingShows
<1> QED
  BY <1>11 DEF current, new, r

\* What a user types is what the user gets: replaceText(next), in any state the
\* system can reach, makes operations that turn the document into next.
THEOREM TypedTextIsShown == Spec => []TypedIsShown
BY Invariance, InvTypedIsShown, PTL

--------------------------------------------------------------------------------
(***************************************************************************)
(* The caret.                                                              *)
(***************************************************************************)

\* A finite set has an enumeration.
LEMMA SetToSeqIs ==
  ASSUME NEW S, IsFiniteSet(S)
  PROVE  SetToSeq(S) \in Seq(S)
<1> DEFINE n == Cardinality(S)
           Is(f) == f \in [1..n -> S] /\ IsInjective(f)
<1>1. n \in Nat
  BY FS_CardinalityType
<1>2. \E f : Is(f)
  <2>1. PICK f : f \in Bijection(1..n, S)
    BY FS_CardinalityType DEF ExistsBijection
  <2>2. f \in [1..n -> S] /\ IsInjective(f)
    BY <2>1 DEF Bijection, Injection, IsInjective
  <2> QED
    BY <2>2
<1>3. Is(CHOOSE f : Is(f))
  <2> HIDE DEF Is
  <2> QED
    BY <1>2
<1>4. SetToSeq(S) \in [1..n -> S]
  BY <1>3 DEF SetToSeq
<1> HIDE DEF n
<1> QED
  BY <1>1, <1>4

\* A replica that knows more has the tree with more in it.
LEMMA KnowingMore ==
  ASSUME NEW r, Sound(r), NEW s, Sound(s), r.known \in SUBSET s.known
  PROVE  /\ r.nodes \in SUBSET s.nodes
         /\ Upward(r.nodes, s.nodes)
         /\ LawfulInserts(s.nodes)
<1> DEFINE I == Inserts(s.known)
           N == r.nodes
           M == s.nodes
<1>1. Grown(M, I) /\ LawfulInserts(I) /\ Lawful(s.known)
  BY SoundGrown, InsertsAreLawful DEF Sound
<1>2. N \in SUBSET Inserts(r.known) /\ \A x \in N : x.ref \in Anchors(N)
  BY DEF Sound, WellFormed
<1>3. N \in SUBSET I
  BY <1>2 DEF Inserts
<1>4. M \in SUBSET I
  BY <1>1 DEF Grown
<1> HIDE DEF I, N, M
<1>5. N \in SUBSET M
  BY <1>1, <1>2, <1>3, GrownWithin
<1>6. Upward(N, M)
  <2>1. ASSUME NEW y \in N, NEW anchor \in M, anchor.id = y.ref PROVE anchor \in N
    <3>1. anchor \in I /\ anchor.id # Root
      BY <1>1, <1>4, RootIsNoIdentity DEF LawfulInserts, Lawful
    <3>2. PICK e \in N : e.id = anchor.id
      BY <1>2, <2>1, <3>1 DEF Anchors, IdsOf
    <3>3. e = anchor
      BY <1>1, <1>3, <3>1, <3>2 DEF LawfulInserts, Lawful
    <3> QED
      BY <3>2, <3>3
  <2> QED
    BY <2>1 DEF Upward
<1>7. LawfulInserts(M)
  <2>1. Lawful(M)
    BY <1>1, <1>4, LawfulSubset DEF LawfulInserts
  <2> QED
    BY <1>1, <1>4, <2>1 DEF LawfulInserts
<1> QED
  BY <1>5, <1>6, <1>7 DEF N, M

\* Every element takes room.
Measured(elements, width) ==
  /\ Len(elements) \in Nat
  /\ \A i \in 1..Len(elements) : width[elements[i].value] \in Nat \ {0}

\* The offsets of the first n elements.
Offsets(f, elements, width, n) ==
  /\ f \in [0..n -> Nat]
  /\ f[0] = 0
  /\ \A k \in 1..n : f[k] = f[k - 1] + width[elements[k].value]
  /\ ElementIndexToOffset(elements, width, n) = f[n]

LEMMA OffsetLoop ==
  ASSUME NEW elements, NEW width, Measured(elements, width), NEW n \in 0..Len(elements)
  PROVE  \E f : Offsets(f, elements, width, n)
<1> DEFINE turn  == [k \in 1..n |-> [x \in Nat |-> x + width[elements[k].value]]]
           Is(f) == f = [k \in 0..n |-> IF k = 0 THEN 0 ELSE f[k - 1] + width[elements[k].value]]
           state == CHOOSE f : Is(f)
<1>0. Len(elements) \in Nat /\ n \in Nat /\ \A k \in 1..n : width[elements[k].value] \in Nat
  BY DEF Measured
<1>1. IsTurns(turn, n, Nat)
  BY <1>0 DEF IsTurns
<1>2. PICK g : GoesThrough(g, n, Nat, 0, turn)
  <2> HIDE DEF turn, Is, state
  <2> QED BY <1>0, <1>1, LoopExists
<1>3. Is(g)
  <2>1. ASSUME NEW k \in 0..n
        PROVE  g[k] = IF k = 0 THEN 0 ELSE g[k - 1] + width[elements[k].value]
    <3>1. CASE k = 0
      BY <1>2, <3>1 DEF GoesThrough
    <3>2. CASE k # 0
      <4>1. k \in 1..n /\ k - 1 \in 0..n
        BY <3>2
      <4>2. g[k] = turn[k][g[k - 1]] /\ g[k - 1] \in Nat
        BY <1>2, <3>2, <4>1 DEF GoesThrough
      <4> QED
        BY <3>2, <4>1, <4>2
    <3> QED
      BY <3>1, <3>2
  <2> HIDE DEF turn
  <2> QED
    BY <1>2, <2>1 DEF GoesThrough
<1>4. Is(state)
  <2> HIDE DEF Is
  <2> QED BY <1>3
<1>5. state = [k \in 0..n |-> IF k = 0 THEN 0 ELSE state[k - 1] + width[elements[k].value]]
  BY <1>4
<1>6. ElementIndexToOffset(elements, width, n) = state[n]
  <2>1. Min({n, Len(elements)}) = n
    <3>1. /\ {n, Len(elements)} \in SUBSET Nat /\ {n, Len(elements)} # {}
          /\ IsFiniteSet({n, Len(elements)})
      <4>1. IsFiniteSet({n} \cup {Len(elements)})
        BY FS_Singleton, FS_Union
      <4>2. {n} \cup {Len(elements)} = {n, Len(elements)}
        OBVIOUS
      <4> QED
        BY <1>0, <4>1, <4>2
    <3>2. Min({n, Len(elements)}) \in {n, Len(elements)} /\ Min({n, Len(elements)}) <= n
      BY <3>1, MinOfFinite
    <3> QED
      BY <1>0, <3>2
  <2> QED
    BY <2>1 DEF Loop, ElementIndexToOffset
<1> HIDE DEF state, turn, Is
<1>7. state[0] = 0 /\ \A k \in 1..n : state[k] = state[k - 1] + width[elements[k].value]
  BY <1>0, <1>5
<1> DEFINE good == {k \in 0..n : state[k] \in Nat}
<1>8. 0 \in good /\ \A k \in 1..n : k - 1 \in good => k \in good
  BY <1>0, <1>7
<1>9. \A k \in 0..n : k \in good
  <2> HIDE DEF good
  <2> QED BY <1>0, <1>8, CountUp
<1>10. state \in [0..n -> Nat]
  BY <1>5, <1>9
<1> QED
  BY <1>6, <1>7, <1>10 DEF Offsets

\* The offsets of a sequence grow with the index.
OffsetsGrow(elements, width) ==
  /\ \A n \in 0..Len(elements) : ElementIndexToOffset(elements, width, n) \in Nat
  /\ \A i, j \in 0..Len(elements) :
       i < j => ElementIndexToOffset(elements, width, i) < ElementIndexToOffset(elements, width, j)

LEMMA OffsetsAre ==
  ASSUME NEW elements, NEW width, Measured(elements, width)
  PROVE  OffsetsGrow(elements, width)
<1> DEFINE l == Len(elements)
           w(k) == width[elements[k].value]
<1>1. l \in Nat /\ \A k \in 1..l : w(k) \in Nat \ {0}
  BY DEF Measured
<1>2. l \in 0..l
  BY <1>1
<1>3. PICK f : Offsets(f, elements, width, l)
  BY <1>2, OffsetLoop
<1>4. f \in [0..l -> Nat] /\ f[0] = 0 /\ \A k \in 1..l : f[k] = f[k - 1] + w(k)
  BY <1>3 DEF Offsets
<1>5. ASSUME NEW n \in 0..l PROVE ElementIndexToOffset(elements, width, n) = f[n]
  <2>1. PICK g : Offsets(g, elements, width, n)
    BY <1>5, OffsetLoop
  <2>2. /\ n \in Nat /\ g[0] = 0 /\ \A k \in 1..n : g[k] = g[k - 1] + w(k)
        /\ ElementIndexToOffset(elements, width, n) = g[n]
    BY <2>1, <1>1 DEF Offsets
  <2> DEFINE good == {k \in 0..n : g[k] = f[k]}
  <2>3. 0 \in good
    BY <1>4, <2>2
  <2>4. ASSUME NEW k \in 1..n, k - 1 \in good PROVE k \in good
    <3>1. k \in 1..l /\ k \in 0..n
      BY <1>1, <2>2
    <3> HIDE DEF w
    <3> QED
      BY <1>4, <2>2, <2>4, <3>1
  <2>5. \A k \in 0..n : k \in good
    <3> HIDE DEF good
    <3> QED BY <2>2, <2>3, <2>4, CountUp
  <2>6. n \in 0..n
    BY <2>2
  <2> QED
    BY <2>2, <2>5, <2>6
<1> HIDE DEF w
<1>6. ASSUME NEW i \in 0..l, NEW j \in 0..l, i < j PROVE f[i] < f[j]
  <2> DEFINE good == {m \in 0..l : i < m => f[i] < f[m]}
  <2>1. 0 \in good
    BY <1>1, <1>6
  <2>2. ASSUME NEW m \in 1..l, m - 1 \in good PROVE m \in good
    <3>1. m \in 0..l /\ m - 1 \in 0..l /\ m \in Nat /\ i \in Nat
      BY <1>1
    <3>2. f[m] \in Nat /\ f[m - 1] \in Nat /\ f[i] \in Nat /\ w(m) \in Nat \ {0}
          /\ f[m] = f[m - 1] + w(m)
      BY <1>1, <1>4, <3>1
    <3>3. CASE i = m - 1
      BY <3>1, <3>2, <3>3
    <3>4. CASE i < m - 1
      BY <2>2, <3>1, <3>2, <3>4
    <3>5. CASE ~(i < m)
      BY <3>1, <3>5
    <3> QED
      BY <3>1, <3>3, <3>4, <3>5
  <2>3. \A m \in 0..l : m \in good
    <3> HIDE DEF good
    <3> QED BY <1>1, <2>1, <2>2, CountUp
  <2> QED
    BY <1>6, <2>3
<1>7. \A n \in 0..l : f[n] \in Nat
  BY <1>4
<1> QED
  BY <1>5, <1>6, <1>7 DEF OffsetsGrow

\* The index of a caret: the elements up to it begin on the left of the caret.
LEMMA CaretIndex ==
  ASSUME NEW elements, NEW width, Measured(elements, width),
         NEW caret \in 0..ElementIndexToOffset(elements, width, Len(elements))
  PROVE  /\ OffsetToElementIndex(elements, width, caret) \in 0..Len(elements)
         /\ \A i \in 1..Len(elements) :
              StartsBefore(elements, width, i, caret)
                <=> i <= OffsetToElementIndex(elements, width, caret)
<1> DEFINE l == Len(elements)
           O(n) == ElementIndexToOffset(elements, width, n)
           S == {l} \cup {n \in 0..l : O(n) >= caret}
           index == OffsetToElementIndex(elements, width, caret)
<1>1. l \in Nat /\ (\A n \in 0..l : O(n) \in Nat) /\ \A i, j \in 0..l : i < j => O(i) < O(j)
  BY OffsetsAre DEF OffsetsGrow, Measured
<1>2. caret \in Nat /\ caret <= O(l)
  BY <1>1
<1>3. S \in SUBSET (0..l) /\ S # {} /\ \A n \in S : O(n) >= caret
  BY <1>1, <1>2
<1>4. S \in SUBSET Nat /\ IsFiniteSet(S)
  <2>1. IsFiniteSet(0..l) /\ 0..l \in SUBSET Nat
    BY <1>1, FS_Interval
  <2> HIDE DEF S
  <2>2. IsFiniteSet(S)
    BY <1>3, <2>1, FS_Subset
  <2> QED
    BY <1>3, <2>1, <2>2
<1>5. index = Min(S)
  BY DEF OffsetToElementIndex
<1>6. \A n \in 0..l : O(n) >= caret => n \in S
  OBVIOUS
<1> HIDE DEF S, index, O
<1>7. index \in S /\ \A n \in S : index <= n
  BY <1>3, <1>4, <1>5, MinOfFinite
<1>8. index \in 0..l
  BY <1>3, <1>7
<1>9. ASSUME NEW i \in 1..l PROVE O(i - 1) < caret <=> i <= index
  <2>1. i - 1 \in 0..l /\ i \in Nat /\ index \in Nat /\ O(i - 1) \in Nat /\ O(index) \in Nat
    BY <1>1, <1>8
  <2>2. CASE i <= index
    <3>1. i - 1 \notin S
      BY <1>7, <2>1, <2>2
    <3> QED
      BY <1>2, <1>6, <2>1, <2>2, <3>1
  <2>3. CASE ~(i <= index)
    <3>1. index = i - 1 \/ index < i - 1
      BY <2>1, <2>3
    <3>2. O(index) <= O(i - 1)
      BY <1>1, <1>8, <2>1, <3>1
    <3>3. O(index) >= caret
      BY <1>3, <1>7
    <3> QED
      BY <1>2, <2>1, <2>3, <3>2, <3>3
  <2> QED
    BY <2>2, <2>3
<1> QED
  BY <1>8, <1>9 DEF index, O, StartsBefore

\* What an anchor holds.
TrailIs(trail, elements, index, m) ==
  /\ m \in 0..index /\ m <= MaxFallbackTrail /\ (m = index \/ m = MaxFallbackTrail)
  /\ DOMAIN trail = 1..m + 1
  /\ \A i \in 1..m : trail[i] = elements[index + 1 - i].id
  /\ trail[m + 1] = Root

LEMMA TrailFromIs ==
  ASSUME NEW elements, NEW index \in Nat
  PROVE  \E m : TrailIs(TrailFrom(elements, index), elements, index, m)
<1> DEFINE m == Min({index, MaxFallbackTrail})
           ids == [i \in 1..m |-> elements[index + 1 - i].id]
           S   == {elements[index + 1 - i].id : i \in 1..m} \cup {Root}
<1>1. m \in {index, MaxFallbackTrail} /\ m <= index /\ m <= MaxFallbackTrail
  <2>1. IsFiniteSet({index} \cup {MaxFallbackTrail})
    BY FS_Singleton, FS_Union
  <2>2. {index} \cup {MaxFallbackTrail} = {index, MaxFallbackTrail}
    OBVIOUS
  <2>3. {index, MaxFallbackTrail} \in SUBSET Nat /\ {index, MaxFallbackTrail} # {}
    BY DEF MaxFallbackTrail
  <2> QED
    BY <2>1, <2>2, <2>3, MinOfFinite
<1>2. m \in Nat /\ m \in 0..index
  BY <1>1 DEF MaxFallbackTrail
<1> HIDE DEF m
<1>3. ids \in Seq(S) /\ Len(ids) = m /\ Root \in S
  <2>1. ids \in [1..m -> S] /\ Root \in S
    OBVIOUS
  <2> HIDE DEF ids, S
  <2> QED
    BY <1>2, <2>1, SeqDef, LenProperties
<1>4. \A i \in 1..m : ids[i] = elements[index + 1 - i].id
  OBVIOUS
<1>5. TrailFrom(elements, index) = Append(ids, Root)
  BY DEF TrailFrom, m
<1> HIDE DEF ids, S
<1>6. /\ Len(Append(ids, Root)) = m + 1 /\ Append(ids, Root) \in Seq(S)
      /\ \A i \in 1..m : Append(ids, Root)[i] = ids[i]
      /\ Append(ids, Root)[m + 1] = Root
  BY <1>2, <1>3, AppendProperties
<1>7. DOMAIN Append(ids, Root) = 1..m + 1
  BY <1>6, LenProperties
<1> QED
  BY <1>1, <1>2, <1>4, <1>5, <1>6, <1>7 DEF TrailIs

\* What is in both sequences stands in both in the same order.
SameOrder(before, after) ==
  /\ Len(before) \in Nat /\ Len(after) \in Nat
  /\ \A i \in 1..Len(before) : before[i].id # Root
  /\ \A j \in 1..Len(after) : after[j].id # Root
  /\ DOMAIN after = 1..Len(after)
  /\ \A i, k \in 1..Len(before), j, l \in 1..Len(after) :
       before[i].id = after[j].id /\ before[k].id = after[l].id => (i < k <=> j < l)

\* The position of an anchor.
PositionKept(before, after, index, position) ==
  /\ position \in 0..Len(after)
  /\ Remembered(before, after, index) =>
       \A i \in 1..Len(before), j \in 1..Len(after) :
         before[i].id = after[j].id => (i <= index <=> j <= position)

\* An anchor is resolved to the offset of such a position.
Resolves(before, after, index, width, trail) ==
  \E position :
    /\ PositionKept(before, after, index, position)
    /\ ResolveTrailOffset(after, width, trail) = ElementIndexToOffset(after, width, position)

LEMMA TrailResolves ==
  ASSUME NEW before, NEW after, SameOrder(before, after), NEW width,
         NEW index \in 0..Len(before), NEW trail, NEW m, TrailIs(trail, before, index, m)
  PROVE  Resolves(before, after, index, width, trail)
<1> USE DEF Resolves
<1> DEFINE n == Len(before)
           l == Len(after)
           At(id) == {0 : x \in {id} \cap {Root}} \cup {j \in DOMAIN after : after[j].id = id}
           F == {i \in DOMAIN trail : At(trail[i]) # {}}
           first == Min(F)
           position == Min(At(trail[first]))
<1>1. /\ n \in Nat /\ l \in Nat /\ index \in Nat /\ index <= n
      /\ DOMAIN after = 1..l
      /\ \A i \in 1..n : before[i].id # Root
      /\ \A j \in 1..l : after[j].id # Root
  BY DEF SameOrder
<1>2. \A i, k \in 1..n, j, h \in 1..l :
        before[i].id = after[j].id /\ before[k].id = after[h].id => (i < k <=> j < h)
  BY DEF SameOrder
<1>3. /\ m \in Nat /\ m <= index /\ m <= MaxFallbackTrail /\ (m = index \/ m = MaxFallbackTrail)
      /\ DOMAIN trail = 1..m + 1 /\ trail[m + 1] = Root
  BY <1>1 DEF TrailIs
<1>4. \A i \in 1..m : trail[i] = before[index + 1 - i].id
  BY DEF TrailIs
<1>5. ResolveTrailOffset(after, width, trail) = ElementIndexToOffset(after, width, position)
  BY DEF ResolveTrailOffset
<1>6. At(Root) = {0}
  BY <1>1
<1>7. \A id : id # Root => At(id) = {j \in 1..l : after[j].id = id}
  BY <1>1
<1> HIDE DEF At
<1>8. m + 1 \in F /\ F \in SUBSET Nat /\ IsFiniteSet(F) /\ F \in SUBSET (1..m + 1)
  <2>1. m + 1 \in F /\ F \in SUBSET (1..m + 1)
    <3>1. m + 1 \in 1..m + 1
      BY <1>3
    <3>2. At(trail[m + 1]) # {}
      BY <1>3, <1>6
    <3> QED
      BY <1>3, <3>1, <3>2
  <2>2. IsFiniteSet(1..m + 1) /\ 1..m + 1 \in SUBSET Nat
    BY <1>3, FS_Interval
  <2> HIDE DEF F
  <2>3. IsFiniteSet(F)
    BY <2>1, <2>2, FS_Subset
  <2> QED
    BY <2>1, <2>2, <2>3
<1>9. first \in F /\ \A i \in F : first <= i
  <2> HIDE DEF F
  <2> QED BY <1>8, MinOfFinite
\* An element that is left and in the trail is not before the first.
<1>10. ASSUME NEW i \in 1..index, index + 1 - i \in 1..m, NEW j \in 1..l,
              before[i].id = after[j].id
       PROVE  first <= index + 1 - i
  <2>1. i \in 1..n /\ index + 1 - (index + 1 - i) = i
    BY <1>1
  <2>2. trail[index + 1 - i] = before[i].id /\ before[i].id # Root
    BY <1>1, <1>4, <1>10, <2>1
  <2>3. j \in At(trail[index + 1 - i])
    BY <1>7, <1>10, <2>2
  <2>4. index + 1 - i \in F
    BY <1>3, <1>10, <2>3
  <2> QED
    BY <1>9, <2>4
<1>11. first \in Nat /\ first \in 1..m + 1
  BY <1>8, <1>9
<1>12. At(trail[first]) # {}
  BY <1>9
<1>13. \A k \in Nat : Min({k}) = k
  <2>1. ASSUME NEW k \in Nat PROVE Min({k}) = k
    <3>1. {k} \in SUBSET Nat /\ {k} # {} /\ IsFiniteSet({k})
      BY FS_Singleton
    <3>2. Min({k}) \in {k}
      BY <3>1, MinOfFinite
    <3> QED
      BY <3>2
  <2> QED
    BY <2>1
<1> HIDE DEF F, first
<1>14. CASE first = m + 1
  <2>1. position = 0
    <3>1. At(trail[first]) = {0}
      BY <1>3, <1>6, <1>14
    <3> QED
      BY <1>13, <3>1
  <2>2. ASSUME Remembered(before, after, index) PROVE m = index
    <3>1. CASE index <= MaxFallbackTrail
      BY <1>3, <1>1, <3>1 DEF TrailIs, MaxFallbackTrail
    <3>2. CASE ~(index <= MaxFallbackTrail)
      <4>1. PICK i \in index - MaxFallbackTrail + 1..index, j \in DOMAIN after : before[i].id = after[j].id
        BY <2>2, <3>2 DEF Remembered
      <4>2. m = MaxFallbackTrail
        BY <1>1, <1>3, <3>2 DEF MaxFallbackTrail
      <4>3. i \in 1..index /\ index + 1 - i \in 1..m /\ j \in 1..l
        BY <1>1, <3>2, <4>1, <4>2 DEF MaxFallbackTrail
      <4>4. first <= index + 1 - i
        BY <1>10, <4>1, <4>3
      <4> QED
        BY <1>3, <1>14, <4>3, <4>4
    <3> QED
      BY <3>1, <3>2
  <2>3. ASSUME Remembered(before, after, index), NEW i \in 1..n, NEW j \in 1..l,
               before[i].id = after[j].id
        PROVE  ~(i <= index)
    <3>1. SUFFICES ASSUME i <= index PROVE FALSE
      OBVIOUS
    <3>2. i \in 1..index /\ index + 1 - i \in 1..m
      BY <1>1, <2>2, <2>3, <3>1
    <3>3. first <= index + 1 - i
      BY <1>10, <2>3, <3>2
    <3> QED
      BY <1>3, <1>14, <3>2, <3>3
  <2>4. position \in 0..l /\ \A j \in 1..l : ~(j <= position)
    BY <1>1, <2>1
  <2>5. PositionKept(before, after, index, position)
    <3> HIDE DEF position
    <3> QED BY <2>3, <2>4 DEF PositionKept
  <2> QED
    BY <1>5, <2>5
<1>15. CASE first # m + 1
  <2> DEFINE k == index + 1 - first
  <2>1. first \in 1..m /\ k \in 1..index /\ k \in 1..n /\ k \in Nat
    BY <1>1, <1>3, <1>11, <1>15
  <2>2. trail[first] = before[k].id /\ before[k].id # Root
    BY <1>1, <1>4, <2>1
  <2>3. PICK h \in 1..l : after[h].id = before[k].id
    BY <1>7, <1>12, <2>2
  <2> HIDE DEF k
  <2>4. At(trail[first]) = {h}
    <3>1. ASSUME NEW j \in 1..l, after[j].id = before[k].id PROVE j = h
      <4>1. ~(j < h) /\ ~(h < j)
        BY <1>2, <2>1, <2>3, <3>1
      <4> QED
        BY <4>1
    <3> QED
      BY <1>7, <2>2, <2>3, <3>1
  <2>5. position = h
    BY <1>13, <2>4
  <2>6. ASSUME NEW i \in 1..n, NEW j \in 1..l, before[i].id = after[j].id
        PROVE  i <= index <=> j <= h
    <3>1. (i < k <=> j < h) /\ (k < i <=> h < j)
      BY <1>2, <2>1, <2>3, <2>6
    <3>2. i \in Nat /\ j \in Nat /\ h \in Nat
      BY <1>1
    <3>3. ASSUME k < i, i <= index PROVE FALSE
      <4>1. i \in 1..index /\ index + 1 - i \in 1..m /\ index + 1 - i < first
        BY <1>1, <1>3, <2>1, <3>2, <3>3 DEF k
      <4>2. first <= index + 1 - i
        BY <1>10, <2>6, <4>1
      <4> QED
        BY <1>1, <1>11, <3>2, <4>1, <4>2
    <3>4. k <= index
      BY <2>1
    <3> QED
      BY <1>1, <2>1, <3>1, <3>2, <3>3, <3>4
  <2>7. h \in 0..l
    BY <1>1
  <2>8. PositionKept(before, after, index, h)
    BY <2>6, <2>7 DEF PositionKept
  <2> HIDE DEF position
  <2> QED
    BY <1>5, <2>5, <2>8
<1> QED
  BY <1>14, <1>15

\* What two replicas show of each other stands in both in the same order, when
\* the second knows all that the first does.
LEMMA ShownInSameOrder ==
  ASSUME NEW r, Sound(r), NEW s, Sound(s), r.known \in SUBSET s.known
  PROVE  SameOrder(VisibleElements(r), VisibleElements(s))
<1> DEFINE before == VisibleElements(r)
           after  == VisibleElements(s)
           N      == r.nodes
           M      == s.nodes
<1>1. /\ before \in Seq(N) /\ OutputInOrder(before, N)
      /\ after \in Seq(M) /\ OutputInOrder(after, M)
  BY VisibleIs
<1>2. N \in SUBSET M /\ Upward(N, M) /\ LawfulInserts(M)
  BY KnowingMore
<1> HIDE DEF before, after, N, M
<1>3. /\ Len(before) \in Nat /\ Len(after) \in Nat /\ DOMAIN after = 1..Len(after)
      /\ \A i \in 1..Len(before) : before[i] \in N
      /\ \A j \in 1..Len(after) : after[j] \in M
  BY <1>1, LenProperties, ElementOfSeq
<1>4. \A x, y \in M : x.id # Root /\ (x.id = y.id => x = y)
  BY <1>2, RootIsNoIdentity DEF LawfulInserts, Lawful
<1>5. \A i, k \in 1..Len(before) : i < k => Ahead(before[i], before[k], M)
  <2>1. ASSUME NEW i \in 1..Len(before), NEW k \in 1..Len(before), i < k
        PROVE  Ahead(before[i], before[k], M)
    <3>1. Ahead(before[i], before[k], N)
      BY <1>1, <2>1 DEF OutputInOrder
    <3>2. before[i] \in N /\ before[k] \in N
      BY <1>3
    <3> QED
      BY <1>2, <3>1, <3>2, OrderInPart
  <2> QED
    BY <2>1
<1>6. \A j, l \in 1..Len(after) : j < l => Ahead(after[j], after[l], M)
  BY <1>1 DEF OutputInOrder
<1>7. ASSUME NEW i \in 1..Len(before), NEW k \in 1..Len(before),
             NEW j \in 1..Len(after), NEW l \in 1..Len(after),
             before[i].id = after[j].id, before[k].id = after[l].id
      PROVE  i < k <=> j < l
  <2>1. /\ before[i] = after[j] /\ before[k] = after[l] /\ before[i] \in M /\ before[k] \in M
        /\ i \in Nat /\ k \in Nat /\ j \in Nat /\ l \in Nat
    BY <1>2, <1>3, <1>4, <1>7
  <2>2. ASSUME i < k, ~(j < l) PROVE FALSE
    <3>1. Ahead(before[i], before[k], M)
      BY <1>5, <2>2
    <3>2. CASE j = l
      BY <2>1, <3>1, <3>2 DEF Ahead
    <3>3. CASE l < j
      <4>1. Ahead(before[k], before[i], M)
        BY <1>6, <2>1, <3>3
      <4> QED
        BY <1>2, <2>1, <3>1, <4>1, AheadIsOneWay
    <3> QED
      BY <2>1, <2>2, <3>2, <3>3
  <2>3. ASSUME j < l, ~(i < k) PROVE FALSE
    <3>1. Ahead(after[j], after[l], M)
      BY <1>6, <2>3
    <3>2. CASE i = k
      BY <2>1, <3>1, <3>2 DEF Ahead
    <3>3. CASE k < i
      <4>1. Ahead(after[l], after[j], M)
        BY <1>5, <2>1, <3>3
      <4> QED
        BY <1>2, <2>1, <3>1, <4>1, AheadIsOneWay
    <3> QED
      BY <2>1, <2>3, <3>2, <3>3
  <2> QED
    BY <2>2, <2>3
<1>8. SameOrder(before, after)
  BY <1>2, <1>3, <1>4, <1>7 DEF SameOrder
<1> QED
  BY <1>8 DEF before, after

\* A caret that is captured before and resolved after is where it was.
LEMMA CaretBetween ==
  ASSUME NEW before, NEW after, SameOrder(before, after),
         NEW width, Measured(before, width), Measured(after, width),
         NEW caret \in 0..ElementIndexToOffset(before, width, Len(before)),
         NEW index, index = OffsetToElementIndex(before, width, caret),
         Remembered(before, after, index),
         NEW resolved, resolved = ResolveSelectionAnchor(after, width,
                                    CaptureSelectionAnchor(before, width, caret, caret)),
         NEW i \in 1..Len(before), NEW j \in 1..Len(after), before[i].id = after[j].id
  PROVE  StartsBefore(before, width, i, caret)
           <=> StartsBefore(after, width, j, resolved.start)
<1> DEFINE trail  == TrailFrom(before, index)
           offset == ResolveTrailOffset(after, width, trail)
           O(n)   == ElementIndexToOffset(after, width, n)
<1>1. index \in 0..Len(before) /\ (StartsBefore(before, width, i, caret) <=> i <= index)
  BY CaretIndex
<1>2. index \in Nat
  BY <1>1 DEF SameOrder
<1>3. PICK m : TrailIs(trail, before, index, m)
  BY <1>2, TrailFromIs
<1>4. resolved.start = Min({offset, offset})
  BY DEF ResolveSelectionAnchor, CaptureSelectionAnchor
<1>5. PICK position :
        /\ PositionKept(before, after, index, position)
        /\ offset = ElementIndexToOffset(after, width, position)
  <2> HIDE DEF trail
  <2>1. TrailIs(trail, before, index, m)
    BY <1>3 DEF trail
  <2>2. index \in 0..Len(before)
    BY <1>1
  <2>3. Resolves(before, after, index, width, trail)
    BY <2>1, <2>2, TrailResolves
  <2> QED
    BY <2>3 DEF Resolves
<1> HIDE DEF trail
<1>6. position \in 0..Len(after) /\ (i <= index <=> j <= position)
  BY <1>5 DEF PositionKept
<1>7. /\ \A n \in 0..Len(after) : O(n) \in Nat
      /\ \A a, b \in 0..Len(after) : a < b => O(a) < O(b)
  BY OffsetsAre DEF OffsetsGrow
<1>8. resolved.start = O(position)
  <2>1. offset \in Nat
    BY <1>5, <1>6, <1>7
  <2> HIDE DEF offset
  <2>2. {offset, offset} \in SUBSET Nat /\ {offset, offset} # {} /\ IsFiniteSet({offset, offset})
    <3>1. {offset, offset} = {offset}
      OBVIOUS
    <3> QED
      BY <2>1, <3>1, FS_Singleton
  <2>3. Min({offset, offset}) \in {offset, offset}
    BY <2>2, MinOfFinite
  <2> QED
    BY <1>4, <1>5, <2>3
<1>9. StartsBefore(after, width, j, resolved.start) <=> O(j - 1) < O(position)
  BY <1>8 DEF StartsBefore
<1> HIDE DEF O
<1>10. O(j - 1) < O(position) <=> j <= position
  <2>1. Len(after) \in Nat
    BY DEF SameOrder
  <2>2. j \in Nat /\ position \in Nat /\ j - 1 \in 0..Len(after)
    BY <1>6, <2>1
  <2>3. O(j - 1) \in Nat /\ O(position) \in Nat
    BY <1>6, <1>7, <2>2
  <2>4. CASE j <= position
    <3>1. j - 1 < position
      BY <2>2, <2>4
    <3> QED
      BY <1>6, <1>7, <2>2, <2>4, <3>1
  <2>5. CASE ~(j <= position)
    <3>1. position = j - 1 \/ position < j - 1
      BY <2>2, <2>5
    <3>2. O(position) <= O(j - 1)
      <4>1. CASE position = j - 1
        BY <2>3, <4>1
      <4>2. CASE position < j - 1
        <5>1. O(position) < O(j - 1)
          BY <1>6, <1>7, <2>2, <4>2
        <5> QED
          BY <2>3, <5>1
      <4> QED
        BY <3>1, <4>1, <4>2
    <3> QED
      BY <2>3, <2>5, <3>2
  <2> QED
    BY <2>4, <2>5
<1> QED
  BY <1>1, <1>6, <1>9, <1>10

\* What a sound replica shows takes room.
LEMMA ShownIsMeasured ==
  ASSUME NEW r, Sound(r), \A x \in Inserts(r.known) : x.value \in Alphabet,
         NEW width \in [Alphabet -> 1..2]
  PROVE  Measured(VisibleElements(r), width)
<1> DEFINE elements == VisibleElements(r)
           N        == r.nodes
<1>1. elements \in Seq(N)
  BY VisibleIs
<1>2. N \in SUBSET Inserts(r.known)
  BY DEF Sound, WellFormed
<1> HIDE DEF elements, N
<1>3. Len(elements) \in Nat /\ \A i \in 1..Len(elements) : elements[i] \in N
  BY <1>1, LenProperties, ElementOfSeq
<1>4. Measured(elements, width)
  BY <1>2, <1>3 DEF Measured
<1> QED
  BY <1>4 DEF elements

LEMMA InvCaretStays == IInv => CaretStays
<1> SUFFICES ASSUME IInv, NEW c \in Clients
             PROVE  LET lacking == Created \ replica[c].known
                        before  == VisibleElements(replica[c])
                        after   == VisibleElements(ApplyAll(replica[c], SetToSeq(lacking)))
                    IN  lacking # {} /\ before # <<>> =>
                          \A width \in [Alphabet -> 1..2] :
                            \A caret \in 0..ElementIndexToOffset(before, width, Len(before)) :
                              LET index    == OffsetToElementIndex(before, width, caret)
                                  resolved == ResolveSelectionAnchor(after, width,
                                                CaptureSelectionAnchor(before, width, caret, caret))
                              IN  \A i \in DOMAIN before, j \in DOMAIN after :
                                    before[i].id = after[j].id /\ Remembered(before, after, index) =>
                                      (StartsBefore(before, width, i, caret)
                                         <=> StartsBefore(after, width, j, resolved.start))
  BY DEF CaretStays
<1> DEFINE r       == replica[c]
           lacking == Created \ r.known
           current == ApplyAll(r, SetToSeq(lacking))
           before  == VisibleElements(r)
           after   == VisibleElements(current)
<1>1. Sound(r) /\ r.known \in SUBSET Created
  BY DEF IInv, ClientInv
<1>2. Lawful(Created) /\ \A x \in Created : x.kind = "insert" => x.value \in Alphabet
  BY DEF IInv, OperationsInv
<1>3. SetToSeq(lacking) \in Seq(lacking)
  <2>1. IsFiniteSet(Created) /\ lacking \in SUBSET Created
    BY <1>2 DEF Lawful
  <2> HIDE DEF lacking
  <2>2. IsFiniteSet(lacking)
    BY <2>1, FS_Subset
  <2> QED
    BY <2>2, SetToSeqIs
<1>4. Sound(current) /\ current.known = r.known \cup ToSet(SetToSeq(lacking))
      /\ ToSet(SetToSeq(lacking)) \in SUBSET lacking
  <2> DEFINE new == SetToSeq(lacking)
  <2>1. lacking \in SUBSET Created
    OBVIOUS
  <2> HIDE DEF lacking, new, r
  <2>2. new \in Seq(lacking)
    BY <1>3 DEF new
  <2>3. ToSet(new) \in SUBSET lacking
    BY <2>2, ToSetOfSeq
  <2>4. Lawful(r.known \cup ToSet(new))
    <3>1. r.known \cup ToSet(new) \in SUBSET Created
      BY <1>1, <2>1, <2>3
    <3> QED
      BY <1>2, <3>1, LawfulSubset
  <2>5. Sound(ApplyAll(r, new)) /\ ApplyAll(r, new).known = r.known \cup ToSet(new)
    BY <1>1, <2>2, <2>4, ApplyAllSound
  <2> QED
    BY <2>3, <2>5 DEF new
<1>5. /\ \A x \in Inserts(r.known) : x.value \in Alphabet
      /\ \A x \in Inserts(current.known) : x.value \in Alphabet
      /\ r.known \in SUBSET current.known
  <2>1. current.known \in SUBSET Created
    BY <1>1, <1>4
  <2> HIDE DEF current, r
  <2> QED
    BY <1>1, <1>2, <1>4, <2>1 DEF Inserts
<1> HIDE DEF current, r
<1>6. SameOrder(before, after)
  BY <1>1, <1>4, <1>5, ShownInSameOrder
<1>7. DOMAIN before = 1..Len(before) /\ DOMAIN after = 1..Len(after)
  BY <1>1, <1>4, VisibleIs, LenProperties
<1>8. ASSUME NEW width \in [Alphabet -> 1..2]
      PROVE  Measured(before, width) /\ Measured(after, width)
  BY <1>1, <1>4, <1>5, ShownIsMeasured
<1> HIDE DEF before, after
<1>9. ASSUME NEW width \in [Alphabet -> 1..2],
             NEW caret \in 0..ElementIndexToOffset(before, width, Len(before)),
             NEW i \in 1..Len(before), NEW j \in 1..Len(after),
             before[i].id = after[j].id,
             Remembered(before, after, OffsetToElementIndex(before, width, caret))
      PROVE  StartsBefore(before, width, i, caret)
               <=> StartsBefore(after, width, j,
                     ResolveSelectionAnchor(after, width,
                       CaptureSelectionAnchor(before, width, caret, caret)).start)
  BY <1>6, <1>8, <1>9, CaretBetween
<1> QED
  BY <1>7, <1>9 DEF before, after, current, r

\* A remote change does not move the caret, for every text, every width of its
\* elements and every caret, as long as one of the 32 elements before the caret
\* survives or there are no more than those.
THEOREM CaretIsKept == Spec => []CaretStays
BY Invariance, InvCaretStays, PTL
=================================================================================
