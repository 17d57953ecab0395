---------------------------- MODULE DocumentEditor ----------------------------
(***************************************************************************)
(* One open document in the browser: the textarea, the replica behind it,  *)
(* and the asynchronous writes between them.                               *)
(*                                                                         *)
(* The user types into the text that is shown.  commitText (App.tsx) hands *)
(* the whole new text to the controller, whose write queue runs one write  *)
(* at a time: a replaceText diffs the text against the replica as it then  *)
(* is, a batch from the server is persisted and applied, a server snapshot *)
(* replaces an empty replica.  While a write waits for IndexedDB the user  *)
(* goes on typing.  Input-method compositions hold the composition gate,   *)
(* behind which batches from the server wait.                              *)
(*                                                                         *)
(* A write shows itself when it completes; its promise callbacks run then, *)
(* before the browser's next event.  Continuations that do more than set   *)
(* the text are actions of their own (PassGate, PassIdle), and events wait *)
(* for them.                                                               *)
(***************************************************************************)
EXTENDS TextEdit

CONSTANTS
  Alphabet,          \* the graphemes typed here and elsewhere
  MaxTyped,          \* bound: changes the user makes to the shown text
  MaxBatches,        \* bound: batches and snapshots from the server
  MaxCompositions,   \* bound: input-method compositions
  MaxFailures        \* bound: failing IndexedDB transactions

ASSUME BoundsAssumption ==
  {MaxTyped, MaxBatches, MaxCompositions, MaxFailures} \subseteq Nat

VARIABLES
  text,         \* the textarea
  basis,        \* ghost: the elements of the snapshot the text was last set from
  version,      \* requestVersionRef
  composing,    \* composingRef
  holding,      \* CompositionGate: a commit is awaited
  replica, nextCounter, lamportClock,   \* the controller and its clientMeta row
  writes,       \* the controller's write queue, the running write first
  handler,      \* the onServerOperations or onSnapshotBootstrap call being awaited
  used          \* what the bounds have left

vars == <<text, basis, version, composing, holding, replica, nextCounter,
          lamportClock, writes, handler, used>>

Here  == 1      \* this client
Peer  == 2      \* everyone else

Idle == [phase |-> "none"]

Init ==
  /\ text = <<>> /\ basis = {} /\ version = 0
  /\ composing = FALSE /\ holding = FALSE
  /\ replica = EmptyReplica /\ nextCounter = 1 /\ lamportClock = 0
  /\ writes = <<>> /\ handler = Idle
  /\ used = [typed |-> 0, batches |-> 0, compositions |-> 0, failures |-> 0]

\* No continuation is due: the browser may deliver its next event.
Quiet ==
  /\ ~(handler.phase = "gate" /\ ~holding)
  /\ ~(handler.phase = "idle" /\ handler.ahead = 0)

\* One keystroke: a grapheme more, or one less.
Keystrokes(shown) ==
  {InsertAt(shown, i, value) : i \in 1..Len(shown) + 1, value \in Alphabet}
    \cup {RemoveAt(shown, i) : i \in DOMAIN shown}

\* setText(snapshot.text): what the replica shows now is what the user sees.
Show(current) ==
  /\ text'  = Materialize(current)
  /\ basis' = IdsOf(ToSet(VisibleElements(current)))

\* Ghost: no batch is being written, and no edit made during one is queued.
Alone ==
  /\ handler.phase # "write"
  /\ \A i \in DOMAIN writes : writes[i].alone

\* commitText: the text is shown at once and queued for the controller.
CommitText(next, releases) ==
  /\ text'    = next
  /\ version' = version + 1
  /\ writes'  = Append(writes, [kind |-> "replace", next |-> next,
                                version |-> version + 1, releases |-> releases,
                                basis |-> basis,
                                alone |-> Alone])

\* onTextChange: during a composition, or its commit, the text is only shown.
Type(next) ==
  /\ Quiet /\ used.typed < MaxTyped
  /\ used' = [used EXCEPT !.typed = @ + 1]
  /\ IF composing \/ holding
     THEN text' = next /\ UNCHANGED <<version, writes>>
     ELSE CommitText(next, FALSE)
  /\ UNCHANGED <<basis, composing, holding, replica, nextCounter, lamportClock, handler>>

\* onCompositionStart, with CompositionGate.begin.
CompositionStart ==
  /\ Quiet /\ ~composing /\ used.compositions < MaxCompositions
  /\ used' = [used EXCEPT !.compositions = @ + 1]
  /\ composing' = TRUE
  /\ holding' = TRUE
  /\ UNCHANGED <<text, basis, version, replica, nextCounter, lamportClock, writes, handler>>

\* onCompositionEnd: the composed text is committed, then the gate released.
CompositionEnd ==
  /\ Quiet /\ composing
  /\ composing' = FALSE
  /\ CommitText(text, TRUE)
  /\ UNCHANGED <<basis, holding, replica, nextCounter, lamportClock, handler, used>>

\* An operation of another client that has seen this replica, or a concurrent
\* one at the start of the text.
PeerOperations ==
  LET id      == <<Peer, used.batches + 1>>
      visible == IdsOf(ToSet(VisibleElements(replica)))
  IN  {Insert(id, lamportClock + 1, after, value) :
         after \in visible \cup {Root}, value \in Alphabet}
        \cup {Delete(id, lamportClock + 1, target) : target \in visible}

PassesGate(kind, received) ==
  handler' = IF holding
             THEN [phase |-> "gate", kind |-> kind, received |-> received]
             ELSE [phase |-> "idle", kind |-> kind, received |-> received,
                   ahead |-> IF kind = "apply" THEN Len(writes) ELSE 0]

\* onServerOperations or onSnapshotBootstrap is called; the sync client waits
\* for one call before it makes the next.
ServerOperationsArrive(operation) ==
  /\ Quiet /\ handler = Idle /\ used.batches < MaxBatches
  /\ used' = [used EXCEPT !.batches = @ + 1]
  /\ PassesGate("apply", <<operation>>)
  /\ UNCHANGED <<text, basis, version, composing, holding, replica, nextCounter,
                 lamportClock, writes>>

\* The join was sent when the document was pristine.
ServerSnapshotArrives(operation) ==
  /\ Quiet /\ handler = Idle /\ used.batches = 0 /\ MaxBatches > 0
  /\ operation.kind = "insert" /\ operation.ref = Root
  /\ used' = [used EXCEPT !.batches = @ + 1]
  /\ PassesGate("install", <<operation>>)
  /\ UNCHANGED <<text, basis, version, composing, holding, replica, nextCounter,
                 lamportClock, writes>>

\* waitUntilLocalCommitComplete returns; then whenIdle, for operations only.
PassGate ==
  /\ handler.phase = "gate" /\ ~holding
  /\ PassesGate(handler.kind, handler.received)
  /\ UNCHANGED <<text, basis, version, composing, holding, replica, nextCounter,
                 lamportClock, writes, used>>

\* The writes that whenIdle waited for are done: the batch is queued, behind
\* those that came meanwhile.
PassIdle ==
  /\ handler.phase = "idle" /\ handler.ahead = 0
  /\ writes'  = Append(writes, [kind |-> handler.kind, received |-> handler.received,
                                alone |-> TRUE])
  /\ handler' = [phase |-> "write", editVersion |-> version]
  /\ UNCHANGED <<text, basis, version, composing, holding, replica, nextCounter,
                 lamportClock, used>>

\* The running write leaves the queue; a whenIdle has one less to wait for.
WriteEnds ==
  /\ Quiet /\ writes # <<>>
  /\ writes' = Tail(writes)

\* Mutant: whenIdle does not notice that a write has ended.
OneLessAheadNever == UNCHANGED handler

OneLessAhead ==
  handler' = IF handler.phase = "idle" THEN [handler EXCEPT !.ahead = @ - 1] ELSE handler

EditOf(write) == ComputeLocalTextEdit(VisibleElements(replica), write.next)

\* Mutant: the text that was typed is taken for what the replica shows.
CommitReturnsQuietly(write, current) ==
  /\ UNCHANGED <<text, basis>>
  /\ holding' = (holding /\ ~write.releases)
  /\ OneLessAhead

\* The callbacks of commitText: the merged text is shown unless the user has
\* typed since, and a composition releases the gate, whatever happened.
CommitReturns(write, current) ==
  /\ IF write.version = version THEN Show(current) ELSE UNCHANGED <<text, basis>>
  /\ holding' = (holding /\ ~write.releases)
  /\ OneLessAhead

\* replaceText completes.
ReplaceDone ==
  /\ WriteEnds /\ Head(writes).kind = "replace"
  /\ \E new \in {OperationsOfEdit(Here, nextCounter, lamportClock, EditOf(Head(writes)))} :
       /\ nextCounter'  = nextCounter + Len(new)
       /\ lamportClock' = lamportClock + Len(new)
       /\ \E after \in {ApplyAll(replica, new)} :
            replica' = after /\ CommitReturns(Head(writes), after)
  /\ UNCHANGED <<version, composing, used>>

\* Mutant: the gate is released after a successful commit only.
ReplaceFailsHolding ==
  /\ WriteEnds /\ Head(writes).kind = "replace"
  /\ EditSize(EditOf(Head(writes))) > 0
  /\ used.failures < MaxFailures
  /\ used' = [used EXCEPT !.failures = @ + 1]
  /\ IF Head(writes).version = version THEN Show(replica) ELSE UNCHANGED <<text, basis>>
  /\ OneLessAhead
  /\ UNCHANGED <<version, composing, holding, replica, nextCounter, lamportClock>>

\* Its transaction fails: the text that was not saved is taken back.
ReplaceFails ==
  /\ WriteEnds /\ Head(writes).kind = "replace"
  /\ EditSize(EditOf(Head(writes))) > 0
  /\ used.failures < MaxFailures
  /\ used' = [used EXCEPT !.failures = @ + 1]
  /\ CommitReturns(Head(writes), replica)
  /\ UNCHANGED <<version, composing, replica, nextCounter, lamportClock>>

\* The Lamport clock after the stamps of received operations.
Stamped(received) ==
  Max({lamportClock} \cup {operation.lamport : operation \in ToSet(received)})

\* Mutant: a batch changes the replica and not the text.
ApplyDoneUnshown ==
  /\ WriteEnds /\ Head(writes).kind = "apply"
  /\ lamportClock' = Stamped(Head(writes).received)
  /\ replica' = ApplyAll(replica, Head(writes).received)
  /\ handler' = Idle
  /\ UNCHANGED <<text, basis, version, composing, holding, nextCounter, used>>

\* applyServerOperations completes: the merged text is shown unless the user
\* has typed since.
ApplyDone ==
  /\ WriteEnds /\ Head(writes).kind = "apply"
  /\ lamportClock' = Stamped(Head(writes).received)
  /\ \E after \in {ApplyAll(replica, Head(writes).received)} :
       /\ replica' = after
       /\ IF version = handler.editVersion THEN Show(after) ELSE UNCHANGED <<text, basis>>
  /\ handler' = Idle
  /\ UNCHANGED <<version, composing, holding, nextCounter, used>>

\* installServerSnapshot completes on a pristine document and is shown.
InstallDone ==
  /\ WriteEnds /\ Head(writes).kind = "install" /\ replica.known = {}
  /\ lamportClock' = Stamped(Head(writes).received)
  /\ \E after \in {FromSnapshot(ExportSnapshot(ApplyAll(EmptyReplica, Head(writes).received)))} :
       replica' = after /\ Show(after)
  /\ handler' = Idle
  /\ UNCHANGED <<version, composing, holding, nextCounter, used>>

\* A snapshot for a document that is no longer pristine is refused.
InstallRefused ==
  /\ WriteEnds /\ Head(writes).kind = "install" /\ replica.known # {}
  /\ handler' = Idle
  /\ UNCHANGED <<text, basis, version, composing, holding, replica, nextCounter,
                 lamportClock, used>>

\* The transaction of a batch or a snapshot fails, and with it the call.
ServerWriteFails ==
  /\ WriteEnds /\ Head(writes).kind # "replace"
  /\ used.failures < MaxFailures
  /\ used' = [used EXCEPT !.failures = @ + 1]
  /\ handler' = Idle
  /\ UNCHANGED <<text, basis, version, composing, holding, replica, nextCounter, lamportClock>>

WriteCompletes ==
  ReplaceDone \/ ReplaceFails \/ ApplyDone \/ InstallDone \/ InstallRefused \/ ServerWriteFails

Next ==
  \/ \E next \in Keystrokes(text) : Type(next)
  \/ CompositionStart
  \/ CompositionEnd
  \/ \E operation \in PeerOperations :
       ServerOperationsArrive(operation) \/ ServerSnapshotArrives(operation)
  \/ PassGate
  \/ PassIdle
  \/ WriteCompletes

\* IndexedDB answers and promise callbacks run.  Nothing makes the user type,
\* or end a composition, or the server send.  A step takes a write off the
\* queue exactly when it is a WriteCompletes step.
Fairness == WF_writes(WriteEnds) /\ WF_vars(PassGate) /\ WF_vars(PassIdle)

Spec     == Init /\ [][Next]_vars
FairSpec == Spec /\ Fairness
-------------------------------------------------------------------------------
\* The running writes are those the calls wait for: a call that is writing has
\* exactly one write in the queue, any other has none, and whenIdle never
\* waits for more writes than there are.
TypeOK ==
  /\ nextCounter \in Nat \ {0} /\ lamportClock \in Nat /\ version \in Nat
  /\ basis \subseteq IdsOf(replica.nodes)
  /\ handler.phase \in {"none", "gate", "idle", "write"}
  /\ handler.phase = "idle" => handler.ahead \in 0..Len(writes)
  /\ Cardinality({i \in DOMAIN writes : writes[i].kind # "replace"})
       = IF handler.phase = "write" THEN 1 ELSE 0

Settled == writes = <<>> /\ handler = Idle /\ ~composing /\ ~holding

\* Once nothing is under way the user sees the document: every skipped or
\* overtaken setText is made up for by a later one (commitText and
\* onServerOperations compare versions).
ShownIsReplica == Settled => text = Materialize(replica)

\* What a queued edit will delete, if it runs now, beyond what the user saw in
\* the text that was edited and what the same user wrote.
Unseen(write) ==
  {id \in ToSet(EditOf(write).deleteTargetIds) : id[1] # Here} \ write.basis

Running == IF writes = <<>> THEN {} ELSE {Head(writes)}

\* An edit made while no batch is being written, and no edit that was made
\* during one is queued, deletes only what its user has seen: whatever was
\* applied before it is on the screen, and batches that come later are written
\* after it (onServerOperations with whenIdle and the composition gate).
EditsAloneTouchWhatWasSeen ==
  \A write \in Running :
    write.kind = "replace" /\ write.alone => Unseen(write) = {}

\* The same of every edit.  The README promises no last writer wins; App.tsx
\* says that a keystroke during a remote apply sees the remote operations.
EditTouchesOnlyWhatWasSeen ==
  \A write \in Running : write.kind = "replace" => Unseen(write) = {}

\* A call of the sync client ends, unless the user is composing: no write,
\* gate or idle promise is waited for in vain, even if transactions fail.
ServerOperationsLand ==
  handler # Idle ~> (handler = Idle \/ composing)
===============================================================================
