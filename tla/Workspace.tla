------------------------------ MODULE Workspace ------------------------------
(***************************************************************************)
(* The browser workspace: which document is open, and how the page moves   *)
(* from one document to another (App.tsx, session-transition.ts).          *)
(*                                                                         *)
(* A navigation leaves its target in a queue.  The queue runs one          *)
(* transition at a time and keeps the latest target only: it waits for the *)
(* composition gate, starts a new generation and opens the document.  To   *)
(* open a document is to leave the present session (close its sync client, *)
(* wait for its queued writes, close its controller) and to create the     *)
(* next one.  Back to an invalid link leaves the session beside the queue. *)
(*                                                                         *)
(* A session is named by its generation.  Promise continuations that are   *)
(* ready run before the browser's next event: events and database results  *)
(* wait for Quiet.  The contents of documents are DocumentEditor's; here a *)
(* text is the document it is a text of, and an edit is a number.          *)
(***************************************************************************)
EXTENDS Naturals, Sequences, FiniteSets

CONSTANTS
  Documents,        \* valid document ids
  DefaultDocument,  \* DEFAULT_DOCUMENT_ID
  Nothing,          \* no document: null, the empty text, the invalid link
  Orders,           \* the orders of browser events that are let happen
  MaxRequests,      \* bound: navigations
  MaxEdits,         \* bound: committed changes of the shown text
  MaxBatches,       \* bound: batches from the server
  MaxFailures       \* bound: failing storage operations

\* Orders that the handlers are not written for.
AllOrders ==
  {"composition during the commit of the last one",
   "invalid link during a composition",
   "invalid link during a transition"}

ASSUME WorkspaceAssumption ==
  /\ DefaultDocument \in Documents
  /\ Nothing \notin Documents
  /\ Orders \subseteq AllOrders
  /\ {MaxRequests, MaxEdits, MaxBatches, MaxFailures} \subseteq Nat

VARIABLES
  url,          \* the document the address names
  booted,       \* boot has read the address
  unmounted,    \* unmountedRef
  queue,        \* SessionTransitionQueue: pendingTarget, and where flush is
  generation,   \* its generation
  sessions,     \* every session there has been, by generation
  current,      \* sessionRef: the generation of the session, 0 for none
  opening,      \* the openSession call being awaited: its step and document
  leaving,      \* the teardownSession calls being awaited
  view,         \* what the page shows
  composing,    \* composingRef: the session a composition began in, 0 for none
  typed,        \* ghost: for every edit, the document that was shown
  composed,     \* the edits whose completion releases the gate
  durable,      \* the edits in IndexedDB, by document
  failed,       \* the edits whose transaction failed
  offlineMode,  \* offlineModeRef
  collaborator, \* collaboratorRef: the session it was added to, 0 for none
  used          \* what the bounds have left

vars == <<url, booted, unmounted, queue, generation, sessions, current, opening,
          leaving, view, composing, typed, composed, durable, failed,
          offlineMode, collaborator, used>>

Remote == 0     \* in a write queue: a batch from the server
Generations == 1..MaxRequests
Edits == 1..MaxEdits

NoSession ==
  [doc |-> Nothing, client |-> "none", controller |-> "none", held |-> FALSE,
   writes |-> <<>>, inbound |-> "none"]

Closed == [step |-> "none", doc |-> Nothing, generation |-> 0]

Init ==
  /\ url \in Documents \cup {Nothing}
  /\ booted = FALSE /\ unmounted = FALSE
  /\ queue = [pendingTarget |-> Nothing, flush |-> "idle"]
  /\ generation = 0 /\ current = 0
  /\ sessions = [g \in Generations |-> NoSession]
  /\ opening = Closed /\ leaving = {}
  /\ view = [active |-> Nothing, text |-> Nothing, saveState |-> "loading",
             switching |-> TRUE, transitionPending |-> FALSE, invalidRoute |-> FALSE]
  /\ composing = 0 /\ typed = <<>> /\ composed = {}
  /\ durable = [d \in Documents |-> {}] /\ failed = {}
  /\ offlineMode = FALSE /\ collaborator = 0
  /\ used = [requests |-> 0, batches |-> 0, failures |-> 0]

-------------------------------------------------------------------------------
(* Continuations.                                                          *)

Ready ==
  \/ queue.flush = "ready" \/ opening.step = "done"
  \/ \E t \in leaving : t.step = "ready"
  \/ \E g \in Generations : sessions[g].inbound = "ready"

Quiet == ~Ready

NavigationLocked == view.transitionPending \/ view.switching

EditorEnabled ==
  ~unmounted /\ ~view.invalidRoute /\ ~view.switching /\ view.saveState # "loading"

Use(bound, limit) ==
  /\ used[bound] < limit
  /\ used' = [used EXCEPT ![bound] = @ + 1]

\* The prepare callback: a held composition gate is awaited.
Prepared ==
  IF current # 0 /\ sessions[current].held THEN "held" ELSE "ready"

\* CompositionGate.release of a session: whoever awaits it may go on.
Resumed(state) == IF state = "held" THEN "ready" ELSE state

FlushAfterRelease(g) == [queue EXCEPT !.flush = IF g = current THEN Resumed(@) ELSE @]

LeavingAfterRelease(g) ==
  {[t EXCEPT !.step = IF t.session = g THEN Resumed(@) ELSE @] : t \in leaving}

SessionAfterRelease(session) ==
  [session EXCEPT !.held = FALSE, !.inbound = Resumed(@)]

-------------------------------------------------------------------------------
(* Navigation.                                                             *)

\* requestSession: the queue keeps the latest target; a flush that is already
\* running will find it.
RequestSession(document) ==
  /\ Use("requests", MaxRequests)
  /\ queue' = [pendingTarget |-> document,
               flush |-> IF queue.flush = "idle" THEN Prepared ELSE queue.flush]
  /\ view' = [view EXCEPT !.transitionPending = TRUE]

BootFails ==
  /\ Use("failures", MaxFailures)
  /\ view' = [view EXCEPT !.switching = FALSE, !.saveState = "error"]
  /\ UNCHANGED <<url, queue>>

BootReads ==
  \/ /\ url = Nothing
     /\ view' = [view EXCEPT !.invalidRoute = TRUE, !.switching = FALSE]
     /\ UNCHANGED <<queue, used>>
  \/ url # Nothing /\ RequestSession(url)

\* boot: the catalog is awaited, then the address is read.
Boot ==
  /\ Quiet /\ ~booted /\ ~unmounted
  /\ booted' = TRUE
  /\ BootReads \/ BootFails
  /\ UNCHANGED <<url, unmounted, generation, sessions, current, opening, leaving,
                 composing, typed, composed, durable, failed, offlineMode, collaborator>>

\* navigateToDocument, from the sidebar or from the page of an invalid link.
Navigate(document) ==
  /\ Quiet /\ ~unmounted
  /\ \/ view.invalidRoute /\ document = DefaultDocument
     \/ ~view.invalidRoute /\ ~NavigationLocked /\ document # view.active
  /\ url' = document
  /\ RequestSession(document)
  /\ UNCHANGED <<booted, unmounted, generation, sessions, current, opening, leaving,
                 composing, typed, composed, durable, failed, offlineMode, collaborator>>

\* handlePopState with a valid link, and the end of createDocument, which
\* looks at the lock before it awaits the catalog: both come at any moment.
Arrive(document) ==
  /\ Quiet /\ ~unmounted
  /\ url' = document
  /\ RequestSession(document)
  /\ UNCHANGED <<booted, unmounted, generation, sessions, current, opening, leaving,
                 composing, typed, composed, durable, failed, offlineMode, collaborator>>

\* Mutant: the client is closed after the last write only.
TeardownConnected(by, page) ==
  /\ collaborator' = 0
  /\ leaving' = IF current = 0 THEN leaving
                ELSE leaving \cup {[session |-> current, by |-> by,
                                    step |-> IF sessions[current].held THEN "held" ELSE "writes"]}
  /\ current' = IF current # 0 /\ sessions[current].held THEN current ELSE 0
  /\ view' = page
  /\ UNCHANGED sessions

\* teardownSession up to its first await: the session waits for its gate, or
\* is detached and its client closed.
Teardown(by, page) ==
  /\ collaborator' = 0
  /\ IF current = 0 THEN UNCHANGED <<sessions, current, leaving>>
     ELSE IF sessions[current].held
     THEN /\ leaving' = leaving \cup {[session |-> current, by |-> by, step |-> "held"]}
          /\ UNCHANGED <<sessions, current>>
     ELSE /\ leaving' = leaving \cup {[session |-> current, by |-> by, step |-> "writes"]}
          /\ sessions' = [sessions EXCEPT ![current].client = "closed"]
          /\ current' = 0
  /\ view' = page

InvalidLinkMayCome ==
  /\ composing = 0 \/ "invalid link during a composition" \in Orders
  /\ queue.flush = "idle" \/ "invalid link during a transition" \in Orders

\* handlePopState with an invalid link: the session is left beside the queue.
PopInvalid ==
  /\ Quiet /\ ~unmounted /\ InvalidLinkMayCome
  /\ url # Nothing
  /\ url' = Nothing
  /\ Use("requests", MaxRequests)
  /\ Teardown("route", [view EXCEPT !.invalidRoute = TRUE, !.switching = FALSE,
                                    !.active = Nothing, !.text = Nothing])
  /\ UNCHANGED <<booted, unmounted, queue, generation, opening, composing, typed,
                 composed, durable, failed, offlineMode>>

\* The effect's cleanup.
Unmount ==
  /\ Quiet /\ ~unmounted
  /\ unmounted' = TRUE
  /\ collaborator' = 0 /\ current' = 0
  /\ IF current = 0 THEN UNCHANGED <<sessions, queue, leaving>>
     ELSE /\ sessions' = [sessions EXCEPT ![current] =
                [SessionAfterRelease(@) EXCEPT !.client = "closed", !.controller = "closing"]]
          /\ queue' = FlushAfterRelease(current)
          /\ leaving' = LeavingAfterRelease(current)
  /\ UNCHANGED <<url, booted, generation, opening, view, composing, typed, composed,
                 durable, failed, offlineMode, used>>

\* SessionTransitionQueue.flush, once prepared: the latest target is taken, a
\* generation begins, and openSession runs to its first await.
Switch ==
  /\ queue.flush = "ready"
  /\ queue' = [pendingTarget |-> Nothing, flush |-> "switching"]
  /\ generation' = generation + 1
  /\ IF unmounted
     THEN /\ opening' = [step |-> "done", doc |-> queue.pendingTarget,
                         generation |-> generation + 1]
          /\ UNCHANGED <<sessions, current, leaving, collaborator, view>>
     ELSE /\ opening' = [step |-> IF current = 0 THEN "creating" ELSE "leaving",
                         doc |-> queue.pendingTarget, generation |-> generation + 1]
          /\ Teardown("switch", [view EXCEPT !.switching = TRUE, !.invalidRoute = FALSE,
                                             !.text = Nothing, !.saveState = "loading"])
  /\ UNCHANGED <<url, booted, unmounted, composing, typed, composed, durable, failed,
                 offlineMode, used>>

\* openSession looks after its awaits whether it is still wanted.
Outdated == unmounted \/ opening.generation # generation

\* teardownSession after the composition gate.
Detach(t) ==
  /\ t \in leaving /\ t.step = "ready"
  /\ current' = 0
  /\ sessions' = [sessions EXCEPT ![t.session].client = "closed"]
  /\ leaving' = (leaving \ {t}) \cup {[t EXCEPT !.step = "writes"]}
  /\ UNCHANGED <<url, booted, unmounted, queue, generation, opening, view, composing,
                 typed, composed, durable, failed, offlineMode, collaborator, used>>

\* Mutant: whenIdle is not awaited.
LeaveAtOnce(t) ==
  /\ Quiet
  /\ t \in leaving /\ t.step = "writes"
  /\ sessions' = [sessions EXCEPT ![t.session] =
                     [SessionAfterRelease(@) EXCEPT !.controller = "closed"]]
  /\ leaving' = leaving \ {t}
  /\ opening' = IF t.by = "route" THEN opening
                ELSE [opening EXCEPT !.step = IF Outdated THEN "done" ELSE "creating"]
  /\ UNCHANGED <<url, booted, unmounted, queue, generation, current, view, composing,
                 typed, composed, durable, failed, offlineMode, collaborator, used>>

\* teardownSession after controller.whenIdle: the controller is closed and
\* the gate released; openSession goes on if it was waiting for this.
Leave(t) ==
  /\ Quiet
  /\ t \in leaving /\ t.step = "writes"
  /\ sessions[t.session].writes = <<>>
  /\ sessions' = [sessions EXCEPT ![t.session] =
                     [SessionAfterRelease(@) EXCEPT !.controller = "closed"]]
  /\ leaving' = leaving \ {t}
  /\ opening' = IF t.by = "route" THEN opening
                ELSE [opening EXCEPT !.step = IF Outdated THEN "done" ELSE "creating"]
  /\ UNCHANGED <<url, booted, unmounted, queue, generation, current, view, composing,
                 typed, composed, durable, failed, offlineMode, collaborator, used>>

\* Mutant: a new session connects at once.
CreateConnected ==
  /\ Quiet /\ opening.step = "creating"
  /\ opening' = [opening EXCEPT !.step = "done"]
  /\ IF Outdated THEN UNCHANGED <<sessions, current, view>>
     ELSE /\ sessions' = [sessions EXCEPT ![opening.generation] =
                [NoSession EXCEPT !.doc = opening.doc, !.controller = "open",
                   !.client = "connected"]]
          /\ current' = opening.generation
          /\ view' = [view EXCEPT !.active = opening.doc, !.text = opening.doc,
                                  !.saveState = "saved", !.switching = FALSE]
  /\ UNCHANGED <<url, booted, unmounted, queue, generation, leaving, composing, typed,
                 composed, durable, failed, offlineMode, collaborator, used>>

\* ensureDocument, listDocuments and LocalDocumentController.create succeed:
\* the session becomes the current one, connected unless the user is offline.
Create ==
  /\ Quiet /\ opening.step = "creating"
  /\ opening' = [opening EXCEPT !.step = "done"]
  /\ IF Outdated THEN UNCHANGED <<sessions, current, view>>
     ELSE /\ sessions' = [sessions EXCEPT ![opening.generation] =
                [NoSession EXCEPT !.doc = opening.doc, !.controller = "open",
                   !.client = IF offlineMode THEN "suspended" ELSE "connected"]]
          /\ current' = opening.generation
          /\ view' = [view EXCEPT !.active = opening.doc, !.text = opening.doc,
                                  !.saveState = "saved", !.switching = FALSE]
  /\ UNCHANGED <<url, booted, unmounted, queue, generation, leaving, composing, typed,
                 composed, durable, failed, offlineMode, collaborator, used>>

\* One of them fails.
CreateFails ==
  /\ Quiet /\ opening.step = "creating"
  /\ Use("failures", MaxFailures)
  /\ opening' = [opening EXCEPT !.step = "done"]
  /\ view' = IF Outdated THEN view
             ELSE [view EXCEPT !.active = Nothing, !.text = Nothing,
                               !.saveState = "error", !.switching = FALSE]
  /\ UNCHANGED <<url, booted, unmounted, queue, generation, sessions, current, leaving,
                 composing, typed, composed, durable, failed, offlineMode, collaborator>>

\* Mutant: a target that came meanwhile is not looked for.
EndSwitchForgetful ==
  /\ opening.step = "done"
  /\ opening' = Closed
  /\ queue' = [queue EXCEPT !.flush = "idle"]
  /\ view' = [view EXCEPT !.transitionPending = @ /\ unmounted]
  /\ UNCHANGED <<url, booted, unmounted, generation, sessions, current, leaving,
                 composing, typed, composed, durable, failed, offlineMode,
                 collaborator, used>>

\* Mutant: a queue that is done counts its generations anew.
EndSwitchAnew ==
  /\ opening.step = "done" /\ queue.pendingTarget = Nothing
  /\ opening' = Closed
  /\ queue' = [queue EXCEPT !.flush = "idle"]
  /\ generation' = 0
  /\ view' = [view EXCEPT !.transitionPending = @ /\ unmounted]
  /\ UNCHANGED <<url, booted, unmounted, sessions, current, leaving, composing, typed,
                 composed, durable, failed, offlineMode, collaborator, used>>

\* flush after switchTo: a target that came meanwhile is next; otherwise the
\* queue is idle and the last request lifts the lock.
EndSwitch ==
  /\ opening.step = "done"
  /\ opening' = Closed
  /\ IF queue.pendingTarget # Nothing
     THEN queue' = [queue EXCEPT !.flush = Prepared] /\ UNCHANGED view
     ELSE /\ queue' = [queue EXCEPT !.flush = "idle"]
          /\ view' = [view EXCEPT !.transitionPending = @ /\ unmounted]
  /\ UNCHANGED <<url, booted, unmounted, generation, sessions, current, leaving,
                 composing, typed, composed, durable, failed, offlineMode,
                 collaborator, used>>

-------------------------------------------------------------------------------
(* Editing in a session.                                                   *)

\* commitText: the text is shown and queued in the controller of whatever
\* session is current.
CommitText(releases) ==
  LET n == Len(typed) + 1
  IN  /\ n <= MaxEdits
      /\ typed' = Append(typed, view.text)
      /\ composed' = IF releases THEN composed \cup {n} ELSE composed
      /\ sessions' = [sessions EXCEPT ![current].writes = Append(@, n)]
      /\ view' = [view EXCEPT !.saveState = "saving"]

\* onTextChange outside a composition.
TypeText ==
  /\ Quiet /\ EditorEnabled
  /\ composing = 0 /\ current # 0 /\ ~sessions[current].held
  /\ CommitText(FALSE)
  /\ UNCHANGED <<url, booted, unmounted, queue, generation, current, opening, leaving,
                 composing, durable, failed, offlineMode, collaborator, used>>

\* Mutant: the gate is not held.
CompositionStartUnheld ==
  /\ Quiet /\ EditorEnabled
  /\ composing = 0 /\ current # 0 /\ Len(typed) < MaxEdits
  /\ composing' = current
  /\ UNCHANGED <<url, booted, unmounted, queue, generation, sessions, current, opening,
                 leaving, view, typed, composed, durable, failed, offlineMode,
                 collaborator, used>>

CompositionMayStart ==
  \/ ~sessions[current].held
  \/ "composition during the commit of the last one" \in Orders

\* onCompositionStart: the gate is held, unless it is held already.  (In an
\* editor that an error has left without a session there is no gate to hold,
\* and what is typed goes nowhere; input there is left out.)
CompositionStart ==
  /\ Quiet /\ EditorEnabled
  /\ composing = 0 /\ current # 0 /\ Len(typed) < MaxEdits
  /\ CompositionMayStart
  /\ composing' = current
  /\ sessions' = [sessions EXCEPT ![current].held = TRUE]
  /\ UNCHANGED <<url, booted, unmounted, queue, generation, current, opening, leaving,
                 view, typed, composed, durable, failed, offlineMode, collaborator, used>>

\* onCompositionEnd; the page of an invalid link has no editor to end it in.
\* Its setText shows the text with the composition in it: it stays a text of
\* the same document, view.text, also when no session takes the edit.
CompositionEnd ==
  /\ Quiet /\ composing # 0 /\ ~view.invalidRoute /\ ~unmounted
  /\ composing' = 0
  /\ IF current = 0 THEN UNCHANGED <<typed, composed, sessions, view>>
     ELSE CommitText(TRUE)
  /\ UNCHANGED <<url, booted, unmounted, queue, generation, current, opening, leaving,
                 durable, failed, offlineMode, collaborator, used>>

\* Mutant: any session's result is shown.
WrittenByAnySession(g, saveState) ==
  LET n == Head(sessions[g].writes)
      rest == [sessions[g] EXCEPT !.writes = Tail(@)]
  IN  /\ n # Remote
      /\ view' = IF n = Len(typed)
                 THEN [view EXCEPT !.text = sessions[g].doc, !.saveState = saveState]
                 ELSE view
      /\ IF n \in composed
         THEN /\ sessions' = [sessions EXCEPT ![g] = SessionAfterRelease(rest)]
              /\ queue' = FlushAfterRelease(g)
              /\ leaving' = LeavingAfterRelease(g)
         ELSE /\ sessions' = [sessions EXCEPT ![g] = rest]
              /\ UNCHANGED <<queue, leaving>>

\* The running write of a controller completes.  Its callbacks show the
\* result if the session's generation and the edit are still the latest, and
\* release the gate that a composition held.
Written(g, saveState) ==
  LET n == Head(sessions[g].writes)
      rest == [sessions[g] EXCEPT !.writes = Tail(@)]
      latest == n = Len(typed) /\ g = generation
  IN  /\ n # Remote
      /\ view' = IF latest
                 THEN [view EXCEPT !.text = sessions[g].doc, !.saveState = saveState]
                 ELSE view
      /\ IF n \in composed
         THEN /\ sessions' = [sessions EXCEPT ![g] = SessionAfterRelease(rest)]
              /\ queue' = FlushAfterRelease(g)
              /\ leaving' = LeavingAfterRelease(g)
         ELSE /\ sessions' = [sessions EXCEPT ![g] = rest]
              /\ UNCHANGED <<queue, leaving>>

Persist(g) ==
  /\ Quiet /\ sessions[g].writes # <<>>
  /\ Written(g, "saved")
  /\ durable' = [durable EXCEPT ![sessions[g].doc] = @ \cup {Head(sessions[g].writes)}]
  /\ UNCHANGED <<url, booted, unmounted, generation, current, opening, composing, typed,
                 composed, failed, offlineMode, collaborator, used>>

\* Mutant: a failed commit does not release the gate.
PersistFailsHolding(g) ==
  /\ Quiet /\ sessions[g].writes # <<>> /\ Head(sessions[g].writes) # Remote
  /\ Use("failures", MaxFailures)
  /\ sessions' = [sessions EXCEPT ![g].writes = Tail(@)]
  /\ view' = [view EXCEPT !.saveState = "error"]
  /\ failed' = failed \cup {Head(sessions[g].writes)}
  /\ UNCHANGED <<url, booted, unmounted, queue, generation, current, opening, leaving,
                 composing, typed, composed, durable, offlineMode, collaborator>>

PersistFails(g) ==
  /\ Quiet /\ sessions[g].writes # <<>>
  /\ Use("failures", MaxFailures)
  /\ Written(g, "error")
  /\ failed' = failed \cup {Head(sessions[g].writes)}
  /\ UNCHANGED <<url, booted, unmounted, generation, current, opening, composing, typed,
                 composed, durable, offlineMode, collaborator>>

\* A controller that was closed before its writes were done finishes them.
FinalizeClose(g) ==
  /\ Quiet /\ sessions[g].controller = "closing" /\ sessions[g].writes = <<>>
  /\ sessions' = [sessions EXCEPT ![g].controller = "closed"]
  /\ UNCHANGED <<url, booted, unmounted, queue, generation, current, opening, leaving,
                 view, composing, typed, composed, durable, failed, offlineMode,
                 collaborator, used>>

-------------------------------------------------------------------------------
(* Batches from the server: onServerOperations of a session's client.      *)

IsCurrentSession(g) == g = generation /\ g = current

SetInbound(g, state) == sessions' = [sessions EXCEPT ![g].inbound = state]

BatchArrives(g) ==
  /\ Quiet /\ sessions[g].client = "connected" /\ sessions[g].inbound = "none"
  /\ IsCurrentSession(g)
  /\ Use("batches", MaxBatches)
  /\ SetInbound(g, IF sessions[g].held THEN "held" ELSE "waiting")
  /\ UNCHANGED <<url, booted, unmounted, queue, generation, current, opening, leaving,
                 view, composing, typed, composed, durable, failed, offlineMode,
                 collaborator>>

\* After the gate.
BatchPassesGate(g) ==
  /\ sessions[g].inbound = "ready"
  /\ SetInbound(g, IF IsCurrentSession(g) THEN "waiting" ELSE "none")
  /\ UNCHANGED <<url, booted, unmounted, queue, generation, current, opening, leaving,
                 view, composing, typed, composed, durable, failed, offlineMode,
                 collaborator, used>>

\* After controller.whenIdle.
BatchIsQueued(g) ==
  /\ Quiet /\ sessions[g].inbound = "waiting"
  /\ sessions' = [sessions EXCEPT ![g] =
       IF IsCurrentSession(g)
       THEN [sessions[g] EXCEPT !.inbound = "writing",
                                !.writes = Append(sessions[g].writes, Remote)]
       ELSE [sessions[g] EXCEPT !.inbound = "none"]]
  /\ UNCHANGED <<url, booted, unmounted, queue, generation, current, opening, leaving,
                 view, composing, typed, composed, durable, failed, offlineMode,
                 collaborator, used>>

\* The batch is in IndexedDB: its text is shown if the generation is current.
BatchIsApplied(g) ==
  /\ Quiet /\ sessions[g].writes # <<>> /\ Head(sessions[g].writes) = Remote
  /\ sessions' = [sessions EXCEPT ![g] =
       [sessions[g] EXCEPT !.inbound = "none", !.writes = Tail(sessions[g].writes)]]
  /\ view' = IF g = generation /\ ~unmounted
             THEN [view EXCEPT !.text = sessions[g].doc] ELSE view
  /\ UNCHANGED <<url, booted, unmounted, queue, generation, current, opening, leaving,
                 composing, typed, composed, durable, failed, offlineMode,
                 collaborator, used>>

-------------------------------------------------------------------------------
(* The network switch and the demo collaborator.                           *)

SetClient(state) ==
  sessions' = IF current = 0 THEN sessions
              ELSE [sessions EXCEPT ![current].client = state]

\* Mutant: the collaborator is not disposed of.
GoOfflineTogether ==
  /\ Quiet /\ ~unmounted /\ ~view.invalidRoute
  /\ ~offlineMode
  /\ offlineMode' = TRUE
  /\ SetClient("suspended")
  /\ UNCHANGED <<url, booted, unmounted, queue, generation, current, opening, leaving,
                 view, composing, typed, composed, durable, failed, collaborator, used>>

GoOffline ==
  /\ Quiet /\ ~unmounted /\ ~view.invalidRoute
  /\ ~offlineMode
  /\ offlineMode' = TRUE
  /\ collaborator' = 0
  /\ SetClient("suspended")
  /\ UNCHANGED <<url, booted, unmounted, queue, generation, current, opening, leaving,
                 view, composing, typed, composed, durable, failed, used>>

ReconnectNow ==
  /\ Quiet /\ ~unmounted /\ ~view.invalidRoute
  /\ offlineMode
  /\ offlineMode' = FALSE
  /\ SetClient("connected")
  /\ UNCHANGED <<url, booted, unmounted, queue, generation, current, opening, leaving,
                 view, composing, typed, composed, durable, failed, collaborator, used>>

AddDemoCollaborator ==
  /\ Quiet /\ ~unmounted /\ ~view.invalidRoute
  /\ current # 0 /\ collaborator = 0 /\ ~offlineMode
  /\ collaborator' = current
  /\ UNCHANGED <<url, booted, unmounted, queue, generation, sessions, current, opening,
                 leaving, view, composing, typed, composed, durable, failed, offlineMode, used>>

\* Its onStateChange('error'): it is disposed of, and may be added again.
CollaboratorFails ==
  /\ Quiet /\ ~unmounted /\ collaborator # 0
  /\ collaborator' = 0
  /\ UNCHANGED <<url, booted, unmounted, queue, generation, sessions, current, opening,
                 leaving, view, composing, typed, composed, durable, failed,
                 offlineMode, used>>

-------------------------------------------------------------------------------

\* What runs by itself.
Program ==
  \/ Boot \/ Switch \/ EndSwitch \/ Create
  \/ \E t \in leaving : Detach(t) \/ Leave(t)
  \/ \E g \in Generations :
       Persist(g) \/ FinalizeClose(g) \/ BatchPassesGate(g) \/ BatchIsQueued(g)
         \/ BatchIsApplied(g)

\* What the user does, and what fails.
Environment ==
  \/ \E document \in Documents : Navigate(document) \/ Arrive(document)
  \/ PopInvalid \/ Unmount
  \/ TypeText \/ CompositionStart \/ CompositionEnd
  \/ \E g \in Generations : BatchArrives(g) \/ PersistFails(g)
  \/ CreateFails
  \/ GoOffline \/ ReconnectNow \/ AddDemoCollaborator \/ CollaboratorFails

Next == Program \/ Environment

Spec == Init /\ [][Next]_vars

\* Promises settle, and an input method ends the composition it began.
Fairness == WF_vars(Program) /\ WF_vars(CompositionEnd)

FairSpec == Spec /\ Fairness
-------------------------------------------------------------------------------
(* Properties.                                                             *)

Queues ==
  [pendingTarget : Documents \cup {Nothing},
   flush : {"idle", "held", "ready", "switching"}]

Sessions ==
  [doc : Documents \cup {Nothing},
   client : {"none", "connected", "suspended", "closed"},
   controller : {"none", "open", "closing", "closed"},
   held : BOOLEAN,
   writes : Seq({Remote} \cup Edits),
   inbound : {"none", "held", "ready", "waiting", "writing"}]

Openings ==
  [step : {"none", "leaving", "creating", "done"},
   doc : Documents \cup {Nothing}, generation : Nat]

Leavings ==
  [session : Generations, by : {"switch", "route"}, step : {"held", "ready", "writes"}]

Views ==
  [active : Documents \cup {Nothing}, text : Documents \cup {Nothing},
   saveState : {"loading", "saving", "saved", "error"},
   switching : BOOLEAN, transitionPending : BOOLEAN, invalidRoute : BOOLEAN]

\* Every variable holds values of its kind.
TypeOK ==
  /\ url \in Documents \cup {Nothing}
  /\ booted \in BOOLEAN /\ unmounted \in BOOLEAN /\ offlineMode \in BOOLEAN
  /\ queue \in Queues /\ opening \in Openings /\ view \in Views
  /\ sessions \in [Generations -> Sessions] /\ leaving \subseteq Leavings
  /\ generation \in Nat /\ current \in 0..generation
  /\ composing \in Nat /\ collaborator \in Nat
  /\ typed \in Seq(Documents \cup {Nothing})
  /\ composed \subseteq Edits /\ failed \subseteq Edits
  /\ durable \in [Documents -> SUBSET Edits]
  /\ used \in [{"requests", "batches", "failures"} -> Nat]

Live(g) == sessions[g].client \in {"connected", "suspended"}

\* "Only one document session is connected at a time": whatever navigations,
\* invalid links, failures and the unmounting of the page do to one another
\* between the awaits of openSession and teardownSession, a client that is
\* not closed belongs to sessionRef, which can still close it.
OneConnectedSession == \A g \in Generations : Live(g) => g = current

\* An edit belongs to the document that was shown when it was typed, and
\* navigation does not lose it: it is in that document's store, or queued in
\* a controller of that document whose database is still open, or its
\* transaction failed and the user was told.
EditsStayInTheirDocument ==
  \A n \in 1..Len(typed) :
    \/ n \in failed
    \/ typed[n] # Nothing /\ n \in durable[typed[n]]
    \/ \E g \in Generations :
         /\ sessions[g].doc = typed[n]
         /\ sessions[g].controller \in {"open", "closing"}
         /\ \E i \in DOMAIN sessions[g].writes : sessions[g].writes[i] = n

\* The editor, whenever it accepts input, shows the document that input goes
\* to, and says "saved" only when no edit of it is still being written.  No late
\* write or batch of an earlier session replaces it, and an editor without a
\* session stands under an error message.
EditorShowsItsDocument ==
  EditorEnabled =>
    IF current = 0 THEN view.saveState = "error"
    ELSE /\ view.text = sessions[current].doc
         /\ view.active = sessions[current].doc
         /\ view.saveState = "saved" =>
              \A i \in DOMAIN sessions[current].writes :
                sessions[current].writes[i] = Remote

Settled == booted /\ ~unmounted /\ queue.flush = "idle"

\* When the queue is idle, the document of the address is the one that is
\* open, or an error is shown: of navigations that overtake one another the
\* latest wins, and none is forgotten.
LatestTargetOpens ==
  Settled /\ url # Nothing =>
    IF current = 0 THEN view.saveState = "error" ELSE sessions[current].doc = url

\* Going offline holds for the session that is open and for one that is being
\* opened meanwhile, and so does reconnecting.
OfflineModeHolds ==
  current # 0 => sessions[current].client = IF offlineMode THEN "suspended" ELSE "connected"

\* The demo collaborator works in the document of the current session only,
\* and never while the user is offline.
CollaboratorFollowsSession ==
  collaborator # 0 => collaborator = current /\ ~offlineMode

\* "Holds the source session during composition until compositionend": a
\* navigation never takes the session from under a composition.
CompositionKeepsSession == composing # 0 /\ ~unmounted => current = composing

\* Every navigation comes to its end, and the sidebar is unlocked again.
NavigationSettles == view.transitionPending ~> (~view.transitionPending \/ unmounted)
===============================================================================
