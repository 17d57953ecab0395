--------------------------- MODULE Workspace_proofs ---------------------------
(***************************************************************************)
(* The browser workspace keeps its promises for every number of documents, *)
(* navigations, edits, batches and failures: proofs about Workspace.       *)
(*                                                                         *)
(* The properties of the page, the queue and the sessions hold together or *)
(* not at all, so there is one inductive invariant, IInv.  It says which   *)
(* generation is the current one and what a later one can hold (nothing),  *)
(* where a teardown stands in each of its steps, and what the page shows   *)
(* between two sessions.  That a composition keeps its session needs Gates *)
(* as well, and an assumption about the orders of browser events.          *)
(***************************************************************************)
EXTENDS Workspace, TLAPS

\* A generation per request taken, and a target until it is taken.
Numbering ==
  /\ generation <= used.requests /\ used.requests <= MaxRequests
  /\ queue.pendingTarget # Nothing => generation < used.requests
  /\ queue.flush \in {"held", "ready"} => queue.pendingTarget # Nothing
  /\ queue.flush = "idle" => queue.pendingTarget = Nothing
  /\ queue.flush = "switching" <=> opening.step # "none"
  /\ opening.step # "none" =>
       opening.generation = generation /\ generation > 0 /\ opening.doc # Nothing

\* A generation for which no session has been created yet.
Fresh(g) ==
  g > generation \/ (g = generation /\ opening.step \in {"leaving", "creating"})

\* Nothing of a session that has not been created.
Blank(session) ==
  /\ session.doc = Nothing /\ session.client = "none" /\ session.controller = "none"
  /\ session.writes = <<>> /\ session.inbound = "none"

\* A new generation finds nothing where its session will be.
FreshSessions == \A g \in Generations : Fresh(g) => Blank(sessions[g])

\* No edit is waiting to be written.
OnlyRemote(g) == \A i \in DOMAIN sessions[g].writes : sessions[g].writes[i] = Remote

\* The current session is of the latest generation, open, and shown.
CurrentSession ==
  current # 0 =>
    /\ ~unmounted /\ current = generation
    /\ opening.step \in {"none", "done"}
    /\ queue.flush = "ready" => ~sessions[current].held
    /\ sessions[current].controller = "open"
    /\ sessions[current].doc # Nothing
    /\ ~view.invalidRoute =>
         view.text = sessions[current].doc /\ view.active = sessions[current].doc
    /\ view.saveState = "saved" => OnlyRemote(current)

\* Where the teardowns that are being awaited stand: one that waits for the
\* gate has left its session current, and comes from an invalid link; one that
\* waits for the writes has closed the client.
Teardowns ==
  /\ \A t \in leaving :
    /\ sessions[t.session].client # "none"
    /\ t.by = "switch" => t.step = "writes" /\ opening.step = "leaving"
    /\ t.step = "writes" => sessions[t.session].client = "closed"
    /\ t.step = "held" => current = t.session /\ sessions[current].held
    /\ t.step = "ready" /\ current # 0 => current = t.session /\ ~sessions[current].held
    /\ t.step # "writes" /\ current # 0 =>
         /\ collaborator = 0 /\ view.invalidRoute
         /\ url = Nothing \/ queue.flush \in {"held", "ready"}
  /\ \A t, u \in leaving : t.by = "switch" /\ u.by = "switch" => t = u

\* Without a session the editor is locked or an error is shown; that a session
\* of the latest generation is not the current one has a reason.
NoSessionShown ==
  current = 0 =>
    /\ EditorEnabled => view.saveState = "error"
    /\ generation > 0 /\ sessions[generation].doc # Nothing => unmounted \/ view.invalidRoute

\* The edits in the queue of a session are of its document, in the order typed.
OrderedWrites(g) ==
  /\ \A i \in DOMAIN sessions[g].writes :
       sessions[g].writes[i] # Remote =>
         /\ sessions[g].writes[i] <= Len(typed)
         /\ typed[sessions[g].writes[i]] = sessions[g].doc
         /\ sessions[g].doc # Nothing
  /\ \A i, j \in DOMAIN sessions[g].writes :
       i < j /\ sessions[g].writes[i] # Remote /\ sessions[g].writes[j] # Remote =>
         sessions[g].writes[i] < sessions[g].writes[j]

\* Every queue is in order.
WritesInOrder == \A g \in Generations : OrderedWrites(g)

\* The document of the address is the target, or being opened, or open.
Address ==
  url # Nothing =>
    /\ queue.pendingTarget # Nothing => queue.pendingTarget = url
    /\ queue.pendingTarget = Nothing =>
         /\ opening.step # "none" => opening.doc = url
         /\ current # 0 => sessions[current].doc = url
         /\ ~unmounted => ~view.invalidRoute
         /\ booted /\ ~unmounted /\ opening.step \in {"none", "done"} /\ current = 0 =>
              view.saveState = "error"

\* No edit that a composition has committed waits in the queue of a session.
NoneComposed(g) == \A i \in DOMAIN sessions[g].writes : sessions[g].writes[i] \notin composed

\* At most one does.
OneComposed(g) ==
  \A i, j \in DOMAIN sessions[g].writes :
    sessions[g].writes[i] \in composed /\ sessions[g].writes[j] \in composed => i = j

\* The gate of the session is held while a composition is going on and until
\* its commit has been written.
Gates ==
  /\ composed \subseteq 1..Len(typed)
  /\ current # 0 => OneComposed(current)
  /\ current # 0 /\ ~sessions[current].held => NoneComposed(current)
  /\ composing # 0 /\ ~unmounted =>
       /\ current = composing /\ sessions[current].held /\ NoneComposed(current)
       /\ \A t \in leaving : t.step = "writes"

\* The two orders that cut a composition do not happen.
OrdersAsDocumented ==
  /\ "composition during the commit of the last one" \notin Orders
  /\ "invalid link during a composition" \notin Orders

\* The bound on edits.
Bounded == Len(typed) <= MaxEdits

\* The inductive invariant.
IInv ==
  /\ TypeOK /\ Numbering /\ FreshSessions /\ CurrentSession /\ Teardowns
  /\ NoSessionShown /\ WritesInOrder /\ Address /\ Bounded
  /\ OneConnectedSession /\ OfflineModeHolds /\ CollaboratorFollowsSession
  /\ EditsStayInTheirDocument

-------------------------------------------------------------------------------
(* Sessions and their fields.                                              *)

\* What a session's fields hold.
LEMMA SessionFields ==
  ASSUME NEW s \in Sessions
  PROVE  /\ s.writes \in Seq({Remote} \cup Edits)
         /\ s.doc \in Documents \cup {Nothing}
         /\ s.inbound \in {"none", "held", "ready", "waiting", "writing"}
         /\ s.held \in BOOLEAN
  BY DEF Sessions

\* The head and the rest of a queue, and an entry more.
LEMMA WriteQueue ==
  ASSUME NEW s \in Sessions
  PROVE  /\ s.writes # <<>> =>
              /\ Head(s.writes) \in {Remote} \cup Edits
              /\ Tail(s.writes) \in Seq({Remote} \cup Edits)
         /\ \A n \in {Remote} \cup Edits : Append(s.writes, n) \in Seq({Remote} \cup Edits)
  BY SessionFields

\* What Append and Tail do to the entries of a queue.
LEMMA Appended ==
  ASSUME NEW T, NEW q \in Seq(T), NEW n \in T
  PROVE  /\ Append(q, n) \in Seq(T) /\ Len(Append(q, n)) = Len(q) + 1
         /\ Append(q, n)[Len(q) + 1] = n
         /\ \A i \in 1..Len(q) : Append(q, n)[i] = q[i]
         /\ Len(q) \in Nat /\ DOMAIN q = 1..Len(q)
         /\ DOMAIN Append(q, n) = 1..(Len(q) + 1)
  OBVIOUS

\* The same for Tail.
LEMMA Shortened ==
  ASSUME NEW T, NEW q \in Seq(T), q # <<>>
  PROVE  /\ Tail(q) \in Seq(T) /\ Len(Tail(q)) = Len(q) - 1 /\ Head(q) = q[1] /\ Head(q) \in T
         /\ \A i \in 1..(Len(q) - 1) : Tail(q)[i] = q[i + 1]
         /\ Len(q) \in Nat \ {0} /\ DOMAIN q = 1..Len(q)
         /\ DOMAIN Tail(q) = 1..(Len(q) - 1)
  OBVIOUS

\* One field of a session is replaced.
LEMMA ClientSet ==
  ASSUME NEW s \in Sessions, NEW x \in {"connected", "suspended", "closed"}
  PROVE  LET t == [s EXCEPT !.client = x]
         IN  /\ t \in Sessions /\ t.client = x
             /\ t.doc = s.doc /\ t.controller = s.controller /\ t.held = s.held
             /\ t.writes = s.writes /\ t.inbound = s.inbound
  BY DEF Sessions

\* The same for its controller.
LEMMA ControllerSet ==
  ASSUME NEW s \in Sessions, NEW x \in {"open", "closing", "closed"}
  PROVE  LET t == [s EXCEPT !.controller = x]
         IN  /\ t \in Sessions /\ t.controller = x
             /\ t.doc = s.doc /\ t.client = s.client /\ t.held = s.held
             /\ t.writes = s.writes /\ t.inbound = s.inbound
  BY DEF Sessions

\* The same for its gate.
LEMMA HeldSet ==
  ASSUME NEW s \in Sessions
  PROVE  LET t == [s EXCEPT !.held = TRUE]
         IN  /\ t \in Sessions /\ t.held
             /\ t.doc = s.doc /\ t.client = s.client /\ t.controller = s.controller
             /\ t.writes = s.writes /\ t.inbound = s.inbound
  BY DEF Sessions

\* The same for its batch.
LEMMA InboundSet ==
  ASSUME NEW s \in Sessions,
         NEW x \in {"none", "held", "ready", "waiting", "writing"}
  PROVE  LET t == [s EXCEPT !.inbound = x]
         IN  /\ t \in Sessions /\ t.inbound = x
             /\ t.doc = s.doc /\ t.client = s.client /\ t.controller = s.controller
             /\ t.writes = s.writes /\ t.held = s.held
  BY DEF Sessions

\* The same for its queue.
LEMMA WritesSet ==
  ASSUME NEW s \in Sessions, NEW w \in Seq({Remote} \cup Edits)
  PROVE  LET t == [s EXCEPT !.writes = w]
         IN  /\ t \in Sessions /\ t.writes = w
             /\ t.doc = s.doc /\ t.client = s.client /\ t.controller = s.controller
             /\ t.inbound = s.inbound /\ t.held = s.held
  BY DEF Sessions

\* A session whose gate is released keeps the rest.
LEMMA Released ==
  ASSUME NEW s \in Sessions
  PROVE  LET t == SessionAfterRelease(s)
         IN  /\ t \in Sessions /\ ~t.held
             /\ t.doc = s.doc /\ t.client = s.client /\ t.controller = s.controller
             /\ t.writes = s.writes /\ t.inbound \in {s.inbound, "ready"}
             /\ s.inbound # "held" => t.inbound = s.inbound
  BY DEF Sessions, SessionAfterRelease, Resumed

\* One session is replaced.
LEMMA Replaced ==
  ASSUME TypeOK, NEW g \in Generations, NEW s \in Sessions,
         sessions' = [sessions EXCEPT ![g] = s]
  PROVE  /\ sessions' \in [Generations -> Sessions]
         /\ sessions'[g] = s
         /\ \A h \in Generations \ {g} : sessions'[h] = sessions[h]
  BY DEF TypeOK

\* Generations that the variables name are generations of sessions.
LEMMA Ranges ==
  ASSUME TypeOK, Numbering
  PROVE  /\ current # 0 => current \in Generations
         /\ generation # 0 => generation \in Generations
         /\ \A t \in leaving : t.session \in Generations
         /\ \A g \in Generations : sessions[g] \in Sessions
         /\ \A g \in Generations : g \in Nat /\ g # 0
         /\ generation \in Nat /\ current \in Nat /\ MaxRequests \in Nat /\ MaxEdits \in Nat
<1>1. MaxRequests \in Nat /\ MaxEdits \in Nat
  BY WorkspaceAssumption
<1>2. generation \in Nat /\ current \in 0..generation /\ generation <= MaxRequests
  BY <1>1, SMT DEF TypeOK, Numbering
<1>3. \A t \in leaving : t.session \in Generations
  BY DEF TypeOK, Leavings
<1>4. \A g \in Generations : sessions[g] \in Sessions
  BY DEF TypeOK
<1> QED
  BY <1>1, <1>2, <1>3, <1>4 DEF Generations

\* What teardownSession has changed at its first await: at most the client of
\* the current session, which is then current no more.
LEMMA TeardownEffect ==
  ASSUME TypeOK, Numbering, NEW by \in {"switch", "route"}, NEW page, Teardown(by, page)
  PROVE  /\ sessions' \in [Generations -> Sessions]
         /\ leaving' \subseteq Leavings
         /\ current' = IF current # 0 /\ sessions[current].held THEN current ELSE 0
         /\ \A h \in Generations :
              /\ sessions'[h].doc = sessions[h].doc
              /\ sessions'[h].writes = sessions[h].writes
              /\ sessions'[h].controller = sessions[h].controller
              /\ sessions'[h].held = sessions[h].held
              /\ sessions'[h].inbound = sessions[h].inbound
              /\ sessions'[h].client = IF h = current /\ ~sessions[h].held
                                       THEN "closed" ELSE sessions[h].client
<1>1. CASE current # 0 /\ ~sessions[current].held
  <2> DEFINE s == [sessions[current] EXCEPT !.client = "closed"]
  <2>1. current \in Generations /\ sessions[current] \in Sessions
    BY Ranges, <1>1
  <2>2. /\ s \in Sessions /\ s.client = "closed" /\ s.doc = sessions[current].doc
        /\ s.controller = sessions[current].controller /\ s.held = sessions[current].held
        /\ s.writes = sessions[current].writes /\ s.inbound = sessions[current].inbound
    BY <2>1, ClientSet
  <2>3. sessions' = [sessions EXCEPT ![current] = s]
    BY <1>1 DEF Teardown
  <2>4. /\ sessions' \in [Generations -> Sessions]
        /\ sessions'[current] = s
        /\ \A h \in Generations \ {current} : sessions'[h] = sessions[h]
    BY <2>1, <2>2, <2>3, Replaced
  <2>5. leaving' \subseteq Leavings /\ current' = 0
    BY <1>1, <2>1 DEF Teardown, TypeOK, Leavings
  <2> QED
    BY <1>1, <2>2, <2>4, <2>5
<1>2. CASE ~(current # 0 /\ ~sessions[current].held)
  <2>1. sessions' = sessions /\ current' = current
    BY <1>2 DEF Teardown
  <2>2. leaving' \subseteq Leavings
    BY <1>2, Ranges DEF Teardown, TypeOK, Leavings
  <2> QED
    BY <1>2, <2>1, <2>2, Ranges DEF TypeOK
<1> QED
  BY <1>1, <1>2

\* Edits stay where they are when no queue changes.
LEMMA EditsFrame ==
  ASSUME TypeOK, TypeOK', WritesInOrder, EditsStayInTheirDocument,
         UNCHANGED <<typed, failed, durable>>,
         \A g \in Generations :
           /\ sessions'[g].writes = sessions[g].writes
           /\ sessions[g].writes # <<>> =>
                /\ sessions'[g].doc = sessions[g].doc
                /\ sessions[g].controller \in {"open", "closing"} =>
                     sessions'[g].controller \in {"open", "closing"}
  PROVE  WritesInOrder' /\ EditsStayInTheirDocument'
<1>1. \A g \in Generations : DOMAIN sessions[g].writes # {} => sessions[g].writes # <<>>
  OBVIOUS
<1>2. WritesInOrder'
  BY <1>1 DEF WritesInOrder, OrderedWrites
<1>3. ASSUME NEW n \in 1..Len(typed)
      PROVE  \/ n \in failed'
             \/ typed'[n] # Nothing /\ n \in durable'[typed'[n]]
             \/ \E g \in Generations :
                  /\ sessions'[g].doc = typed'[n]
                  /\ sessions'[g].controller \in {"open", "closing"}
                  /\ \E i \in DOMAIN sessions'[g].writes : sessions'[g].writes[i] = n
  <2>1. CASE n \in failed \/ (typed[n] # Nothing /\ n \in durable[typed[n]])
    BY <2>1
  <2>2. CASE \E g \in Generations :
               /\ sessions[g].doc = typed[n]
               /\ sessions[g].controller \in {"open", "closing"}
               /\ \E i \in DOMAIN sessions[g].writes : sessions[g].writes[i] = n
    <3>1. PICK g \in Generations :
               /\ sessions[g].doc = typed[n]
               /\ sessions[g].controller \in {"open", "closing"}
               /\ \E i \in DOMAIN sessions[g].writes : sessions[g].writes[i] = n
      BY <2>2
    <3> QED
      BY <1>1, <3>1
  <2> QED
    BY <2>1, <2>2 DEF EditsStayInTheirDocument
<1> QED
  BY <1>2, <1>3 DEF EditsStayInTheirDocument

-------------------------------------------------------------------------------
(* Navigation.                                                             *)

\* The invariant holds at first.
LEMMA InitInvariant ==
  ASSUME Init
  PROVE  IInv
<1>0. MaxRequests \in Nat /\ MaxEdits \in Nat
  BY WorkspaceAssumption
<1>1. TypeOK
  <2>1. NoSession \in Sessions
    BY DEF NoSession, Sessions
  <2>2. queue \in Queues /\ opening \in Openings /\ view \in Views
    BY DEF Init, Queues, Openings, Views, Closed
  <2>3. sessions \in [Generations -> Sessions] /\ durable \in [Documents -> SUBSET Edits]
    BY <2>1 DEF Init
  <2>4. used \in [{"requests", "batches", "failures"} -> Nat]
    BY DEF Init
  <2>5. typed \in Seq(Documents \cup {Nothing}) /\ current \in 0..generation
    BY DEF Init
  <2> QED
    BY <2>2, <2>3, <2>4, <2>5 DEF Init, TypeOK
<1>2. \A g \in Generations :
        /\ sessions[g].doc = Nothing
        /\ sessions[g].client = "none" /\ sessions[g].controller = "none"
        /\ sessions[g].writes = <<>> /\ sessions[g].inbound = "none"
  BY DEF Init, NoSession
<1>3. Numbering /\ NoSessionShown /\ Address /\ CurrentSession /\ Teardowns /\ Bounded
  BY <1>0, <1>1 DEF Init, Numbering, NoSessionShown, Address, CurrentSession, Teardowns,
     Bounded, EditorEnabled, Closed, TypeOK
<1>4. FreshSessions /\ OneConnectedSession /\ OfflineModeHolds /\ CollaboratorFollowsSession
  BY <1>2 DEF Init, FreshSessions, Blank, OneConnectedSession, Live, OfflineModeHolds,
     CollaboratorFollowsSession
<1>5. WritesInOrder /\ EditsStayInTheirDocument
  BY <1>2 DEF Init, WritesInOrder, OrderedWrites, EditsStayInTheirDocument
<1> QED
  BY <1>1, <1>3, <1>4, <1>5 DEF IInv

\* A request: the address names the document, and the queue has it as its
\* target.
LEMMA RequestKeeps ==
  ASSUME IInv, Quiet, NEW document \in Documents, url' = document, booted' \in BOOLEAN,
         RequestSession(document),
         UNCHANGED <<unmounted, generation, sessions, current, opening, leaving, composing,
                     typed, composed, durable, failed, offlineMode, collaborator>>
  PROVE  IInv'
<1>1. document # Nothing
  BY WorkspaceAssumption
<1>2. queue' \in Queues /\ view' \in Views
  BY DEF IInv, TypeOK, RequestSession, Prepared, Queues, Views
<1>3. TypeOK'
  BY <1>2 DEF IInv, TypeOK, RequestSession, Use
<1>4. Numbering'
  BY <1>1, Ranges DEF IInv, TypeOK, Numbering, RequestSession, Use, Prepared
<1>5. CurrentSession'
  BY <1>2 DEF IInv, TypeOK, CurrentSession, OnlyRemote, RequestSession, Prepared, Views,
     Quiet, Ready
<1>6. Teardowns'
  <2>1. current # 0 => queue'.flush \in {"held", "ready"}
    BY DEF IInv, RequestSession, Prepared, Quiet, Ready, CurrentSession, Numbering,
       TypeOK, Queues
  <2>2. view'.invalidRoute = view.invalidRoute
    BY DEF IInv, TypeOK, Views, RequestSession
  <2> QED
    BY <2>1, <2>2 DEF IInv, Teardowns
<1>7. NoSessionShown'
  BY <1>2 DEF IInv, TypeOK, NoSessionShown, EditorEnabled, RequestSession, Views
<1>8. Address'
  BY <1>1, <1>2 DEF IInv, Address, RequestSession
<1>9. /\ FreshSessions' /\ WritesInOrder' /\ Bounded' /\ OneConnectedSession'
      /\ OfflineModeHolds' /\ CollaboratorFollowsSession' /\ EditsStayInTheirDocument'
  BY DEF IInv, FreshSessions, Fresh, WritesInOrder, OrderedWrites, Bounded,
     OneConnectedSession, Live,
     OfflineModeHolds, CollaboratorFollowsSession, EditsStayInTheirDocument
<1> QED
  BY <1>3, <1>4, <1>5, <1>6, <1>7, <1>8, <1>9 DEF IInv

\* boot: a request, an invalid link or an error.
LEMMA BootKeeps ==
  ASSUME IInv, Boot
  PROVE  IInv'
<1>1. CASE url # Nothing /\ RequestSession(url)
  <2>1. url \in Documents
    BY <1>1 DEF IInv, TypeOK
  <2> QED
    BY <1>1, <2>1, RequestKeeps DEF Boot
<1>2. CASE /\ url = Nothing
           /\ view' = [view EXCEPT !.invalidRoute = TRUE, !.switching = FALSE]
           /\ UNCHANGED <<queue, used>>
  <2>1. view' \in Views /\ view'.invalidRoute
    BY <1>2 DEF IInv, TypeOK, Views
  <2>2. TypeOK'
    BY <1>2, <2>1 DEF IInv, TypeOK, Boot
  <2>3. CurrentSession'
    BY <1>2, <2>1 DEF IInv, CurrentSession, OnlyRemote, Boot, TypeOK, Views
  <2>4. Teardowns'
    BY <1>2, <2>1 DEF IInv, Teardowns, Boot
  <2>5. NoSessionShown' /\ Address'
    BY <1>2, <2>1 DEF IInv, NoSessionShown, EditorEnabled, Address, Boot
  <2>6. /\ Numbering' /\ FreshSessions' /\ WritesInOrder' /\ Bounded' /\ OneConnectedSession'
        /\ OfflineModeHolds' /\ CollaboratorFollowsSession' /\ EditsStayInTheirDocument'
    BY <1>2 DEF IInv, Boot, Numbering, FreshSessions, Fresh, WritesInOrder, OrderedWrites,
       Bounded,
       OneConnectedSession, Live, OfflineModeHolds, CollaboratorFollowsSession,
       EditsStayInTheirDocument
  <2> QED
    BY <2>2, <2>3, <2>4, <2>5, <2>6 DEF IInv
<1>3. CASE BootFails
  <2>1. view' \in Views /\ view'.saveState = "error" /\ view'.invalidRoute = view.invalidRoute
        /\ view'.text = view.text /\ view'.active = view.active
    BY <1>3 DEF IInv, TypeOK, Views, BootFails
  <2>2. TypeOK'
    BY <1>3, <2>1 DEF IInv, TypeOK, Boot, BootFails, Use
  <2>3. CurrentSession'
    BY <1>3, <2>1 DEF IInv, CurrentSession, OnlyRemote, Boot, BootFails
  <2>4. Teardowns'
    BY <1>3, <2>1 DEF IInv, Teardowns, Boot, BootFails
  <2>5. NoSessionShown' /\ Address'
    BY <1>3, <2>1 DEF IInv, NoSessionShown, EditorEnabled, Address, Boot, BootFails
  <2>6. Numbering'
    BY <1>3 DEF IInv, TypeOK, Numbering, Boot, BootFails, Use
  <2>7. /\ FreshSessions' /\ WritesInOrder' /\ Bounded' /\ OneConnectedSession'
        /\ OfflineModeHolds' /\ CollaboratorFollowsSession' /\ EditsStayInTheirDocument'
    BY <1>3 DEF IInv, Boot, FreshSessions, Fresh, WritesInOrder, OrderedWrites, Bounded,
       OneConnectedSession, Live, OfflineModeHolds, CollaboratorFollowsSession,
       EditsStayInTheirDocument
  <2> QED
    BY <2>2, <2>3, <2>4, <2>5, <2>6, <2>7 DEF IInv
<1> QED
  BY <1>1, <1>2, <1>3 DEF Boot, BootReads

\* An invalid link: the session is left, at once or after its gate.
LEMMA PopInvalidKeeps ==
  ASSUME IInv, PopInvalid
  PROVE  IInv'
<1> DEFINE page == [view EXCEPT !.invalidRoute = TRUE, !.switching = FALSE,
                                !.active = Nothing, !.text = Nothing]
<1>1. Teardown("route", page) /\ view' = page
  BY DEF PopInvalid, Teardown
<1>2. /\ sessions' \in [Generations -> Sessions]
      /\ leaving' \subseteq Leavings
      /\ current' = IF current # 0 /\ sessions[current].held THEN current ELSE 0
      /\ \A h \in Generations :
           /\ sessions'[h].doc = sessions[h].doc
           /\ sessions'[h].writes = sessions[h].writes
           /\ sessions'[h].controller = sessions[h].controller
           /\ sessions'[h].held = sessions[h].held
           /\ sessions'[h].inbound = sessions[h].inbound
           /\ sessions'[h].client = IF h = current /\ ~sessions[h].held
                                    THEN "closed" ELSE sessions[h].client
  BY <1>1, TeardownEffect DEF IInv
<1>3. view' \in Views /\ view'.invalidRoute
  BY <1>1 DEF IInv, TypeOK, Views
<1>4. TypeOK'
  BY <1>2, <1>3 DEF IInv, TypeOK, PopInvalid, Teardown, Use
<1>5. Numbering'
  BY Ranges DEF IInv, TypeOK, Numbering, PopInvalid, Use
<1>6. FreshSessions'
  BY <1>2, Ranges DEF IInv, FreshSessions, Fresh, Blank, PopInvalid, CurrentSession,
     OfflineModeHolds
<1>7. CurrentSession'
  BY <1>2, <1>3, <1>1, Ranges DEF IInv, CurrentSession, OnlyRemote, PopInvalid, TypeOK,
     Views
<1>8. Teardowns'
  <2>1. \A t \in leaving : t.step # "ready"
    BY DEF PopInvalid, Quiet, Ready
  <2>2. \A t \in leaving :
          /\ sessions'[t.session].client # "none"
          /\ t.step = "writes" => sessions'[t.session].client = "closed"
          /\ t.step = "held" => current' = t.session /\ sessions'[t.session].held
    BY <1>2, Ranges DEF IInv, Teardowns
  <2>3. \A t \in leaving' \ leaving :
          /\ t.by = "route" /\ t.session = current /\ current \in Generations
          /\ t.step = IF sessions[current].held THEN "held" ELSE "writes"
    BY Ranges DEF PopInvalid, Teardown, IInv
  <2>4. current # 0 => sessions[current].client # "none"
    BY DEF IInv, OfflineModeHolds
  <2>5. ASSUME NEW t \in leaving'
        PROVE  /\ sessions'[t.session].client # "none"
               /\ t.by = "switch" => t.step = "writes" /\ opening'.step = "leaving" /\ t \in leaving
               /\ t.step = "writes" => sessions'[t.session].client = "closed"
               /\ t.step = "held" => current' = t.session /\ sessions'[current'].held
               /\ t.step # "ready"
    <3>1. CASE t \in leaving
      BY <3>1, <2>1, <2>2 DEF IInv, Teardowns, PopInvalid
    <3>2. CASE t \notin leaving
      <4>1. t \in leaving' \ leaving
        BY <3>2
      <4> QED
        BY <4>1, <1>2, <2>3, <2>4, Ranges DEF IInv
    <3> QED
      BY <3>1, <3>2
  <2>6. collaborator' = 0 /\ url' = Nothing
    BY DEF PopInvalid, Teardown
  <2> QED
    BY <1>3, <2>5, <2>6 DEF IInv, Teardowns
<1>9. NoSessionShown' /\ Address'
  BY <1>3 DEF NoSessionShown, EditorEnabled, Address, PopInvalid, IInv
<1>10. WritesInOrder' /\ EditsStayInTheirDocument'
  BY <1>2, <1>4, EditsFrame DEF IInv, PopInvalid
<1>11. OneConnectedSession' /\ OfflineModeHolds' /\ CollaboratorFollowsSession'
  BY <1>2, Ranges DEF IInv, OneConnectedSession, Live, OfflineModeHolds,
     CollaboratorFollowsSession, PopInvalid, Teardown
<1>12. Bounded'
  BY DEF IInv, Bounded, PopInvalid
<1> QED
  BY <1>4, <1>5, <1>6, <1>7, <1>8, <1>9, <1>10, <1>11, <1>12 DEF IInv

\* A transition begins.  The gate is free, so an open session is detached at
\* once, and the next generation is fresh.
LEMMA SwitchKeeps ==
  ASSUME IInv, Switch
  PROVE  IInv'
<1>1. /\ queue.pendingTarget \in Documents /\ queue.pendingTarget # Nothing
      /\ opening.step = "none" /\ generation + 1 <= used.requests
      /\ \A t \in leaving : t.by = "route"
      /\ current # 0 => ~unmounted /\ ~sessions[current].held
      /\ current # 0 => \A t \in leaving : t.step # "held"
  BY WorkspaceAssumption, Ranges
  DEF IInv, TypeOK, Queues, Numbering, Switch, Teardowns, CurrentSession, Leavings
<1>2. queue' \in Queues /\ queue'.pendingTarget = Nothing /\ queue'.flush = "switching"
  BY DEF Switch, Queues
<1>3. /\ opening' \in Openings /\ opening'.doc = queue.pendingTarget
      /\ opening'.generation = generation' /\ generation' = generation + 1
      /\ opening'.step = IF unmounted THEN "done"
                         ELSE IF current = 0 THEN "creating" ELSE "leaving"
  BY <1>1, Ranges DEF Switch, Openings, IInv
<1>4. /\ view' \in Views
      /\ unmounted \/ (view'.switching /\ ~view'.invalidRoute)
      /\ unmounted => view' = view
  <2> DEFINE page == [view EXCEPT !.switching = TRUE, !.invalidRoute = FALSE,
                                  !.text = Nothing, !.saveState = "loading"]
  <2>1. view \in Views
    BY DEF IInv, TypeOK
  <2>2. page \in Views /\ page.switching /\ ~page.invalidRoute
    BY <2>1 DEF Views
  <2>3. view' = IF unmounted THEN view ELSE page
    BY DEF Switch, Teardown
  <2> HIDE DEF page
  <2> QED
    BY <2>1, <2>2, <2>3
<1>5. /\ sessions' \in [Generations -> Sessions] /\ current' = 0
      /\ \A h \in Generations :
           /\ sessions'[h].doc = sessions[h].doc
           /\ sessions'[h].writes = sessions[h].writes
           /\ sessions'[h].controller = sessions[h].controller
           /\ sessions'[h].held = sessions[h].held
           /\ sessions'[h].inbound = sessions[h].inbound
           /\ sessions'[h].client = IF h = current THEN "closed" ELSE sessions[h].client
  <2>1. CASE unmounted
    BY <2>1, <1>1, Ranges DEF Switch, IInv, TypeOK
  <2>2. CASE ~unmounted
    <3> DEFINE page == [view EXCEPT !.switching = TRUE, !.invalidRoute = FALSE,
                                    !.text = Nothing, !.saveState = "loading"]
    <3>1. Teardown("switch", page)
      BY <2>2 DEF Switch
    <3> QED
      BY <3>1, <1>1, TeardownEffect, Ranges DEF IInv
  <2> QED
    BY <2>1, <2>2
<1>6. \/ leaving' = leaving /\ current = 0
      \/ /\ leaving' = leaving \cup {[session |-> current, by |-> "switch", step |-> "writes"]}
         /\ current # 0 /\ current \in Generations /\ opening'.step = "leaving"
  BY <1>1, <1>3, Ranges DEF Switch, Teardown, IInv
<1>7. TypeOK'
  BY <1>2, <1>3, <1>4, <1>5, <1>6, Ranges DEF IInv, TypeOK, Switch, Teardown, Leavings
<1>8. Numbering'
  BY <1>1, <1>2, <1>3, Ranges DEF IInv, Numbering, Switch
<1>9. FreshSessions'
  BY <1>1, <1>3, <1>5, Ranges DEF IInv, FreshSessions, Fresh, Blank, CurrentSession
<1>10. Teardowns'
  <2>1. ASSUME NEW t \in leaving
        PROVE  /\ sessions'[t.session].client # "none"
               /\ t.by = "route"
               /\ t.step = "writes" => sessions'[t.session].client = "closed"
               /\ t.step # "held"
    BY <1>1, <1>5, Ranges DEF IInv, Teardowns
  <2> QED
    BY <2>1, <1>5, <1>6 DEF Teardowns
<1>11. NoSessionShown'
  <2>1. \A g \in Generations : g = generation' => sessions'[g].doc = Nothing \/ unmounted
    BY <1>1, <1>3, <1>5, Ranges DEF IInv, FreshSessions, Fresh, Blank, CurrentSession
  <2>2. generation' > 0 => generation' \in Generations
    BY <1>1, <1>3, Ranges DEF Generations, IInv, Numbering, TypeOK
  <2> QED
    BY <1>4, <2>1, <2>2 DEF NoSessionShown, EditorEnabled, Switch
<1>12. Address'
  BY <1>1, <1>2, <1>3, <1>4, <1>5 DEF IInv, Address, Switch
<1>13. WritesInOrder' /\ EditsStayInTheirDocument'
  BY <1>5, <1>7, EditsFrame DEF IInv, Switch
<1>14. /\ CurrentSession' /\ OneConnectedSession' /\ OfflineModeHolds'
       /\ CollaboratorFollowsSession' /\ Bounded'
  BY <1>1, <1>5 DEF IInv, CurrentSession, OneConnectedSession, Live, OfflineModeHolds,
     CollaboratorFollowsSession, Bounded, Switch, Teardown
<1> QED
  BY <1>7, <1>8, <1>9, <1>10, <1>11, <1>12, <1>13, <1>14 DEF IInv

-------------------------------------------------------------------------------
(* Leaving a session and opening the next.                                 *)

\* The page goes: its session is closed, and whoever waits for its gate may
\* go on.
LEMMA UnmountKeeps ==
  ASSUME IInv, Unmount
  PROVE  IInv'
<1>1. /\ sessions' \in [Generations -> Sessions] /\ current' = 0
      /\ \A h \in Generations :
           /\ sessions'[h].doc = sessions[h].doc
           /\ sessions'[h].writes = sessions[h].writes
           /\ h # current => sessions'[h] = sessions[h]
           /\ h = current => sessions'[h].client = "closed" /\ sessions'[h].controller = "closing"
  <2>1. CASE current = 0
    BY <2>1, Ranges DEF Unmount, IInv, TypeOK
  <2>2. CASE current # 0
    <3> DEFINE s == SessionAfterRelease(sessions[current])
               t == [s EXCEPT !.client = "closed"]
               u == [t EXCEPT !.controller = "closing"]
    <3>1. current \in Generations /\ sessions[current] \in Sessions
      BY <2>2, Ranges DEF IInv
    <3>2. s \in Sessions /\ s.doc = sessions[current].doc /\ s.writes = sessions[current].writes
      BY <3>1, Released
    <3>3. t \in Sessions /\ t.doc = s.doc /\ t.writes = s.writes /\ t.client = "closed"
      BY <3>2, ClientSet
    <3>4. /\ u \in Sessions /\ u.doc = s.doc /\ u.writes = s.writes
          /\ u.client = "closed" /\ u.controller = "closing"
      BY <3>3, ControllerSet
    <3>5. sessions' = [sessions EXCEPT ![current] = u]
      BY <2>2, <3>2 DEF Unmount, Sessions
    <3>6. /\ sessions' \in [Generations -> Sessions] /\ sessions'[current] = u
          /\ \A h \in Generations \ {current} : sessions'[h] = sessions[h]
      BY <3>1, <3>4, <3>5, Replaced DEF IInv
    <3> QED
      BY <3>2, <3>4, <3>6 DEF Unmount
  <2> QED
    BY <2>1, <2>2
<1>2. /\ queue' \in Queues /\ queue'.pendingTarget = queue.pendingTarget
      /\ queue'.flush = queue.flush \/ (queue.flush = "held" /\ queue'.flush = "ready")
  BY DEF Unmount, FlushAfterRelease, Resumed, IInv, TypeOK, Queues
<1>3. /\ leaving' \subseteq Leavings
      /\ \A u \in leaving' : \E t \in leaving :
           /\ u.session = t.session /\ u.by = t.by
           /\ u.step = IF t.step = "held" THEN "ready" ELSE t.step
  <2>1. \A t \in leaving : t.step = "held" => current # 0 /\ current = t.session
    BY Ranges DEF IInv, Teardowns
  <2>2. CASE current = 0
    BY <2>1, <2>2 DEF Unmount, IInv, TypeOK
  <2>3. CASE current # 0
    <3>1. leaving' = LeavingAfterRelease(current)
      BY <2>3 DEF Unmount
    <3>2. ASSUME NEW u \in leaving'
          PROVE  u \in Leavings /\ \E t \in leaving :
                   /\ u.session = t.session /\ u.by = t.by
                   /\ u.step = IF t.step = "held" THEN "ready" ELSE t.step
      <4>1. PICK t \in leaving :
              u = [t EXCEPT !.step = IF t.session = current THEN Resumed(@) ELSE @]
        BY <3>1 DEF LeavingAfterRelease
      <4>2. t \in Leavings
        BY DEF IInv, TypeOK
      <4> QED
        BY <2>1, <4>1, <4>2 DEF Resumed, Leavings
    <3> QED
      BY <3>2
  <2> QED
    BY <2>2, <2>3
<1>4. TypeOK'
  BY <1>1, <1>2, <1>3 DEF Unmount, IInv, TypeOK
<1>5. Numbering'
  BY <1>2 DEF IInv, Numbering, Unmount
<1>6. FreshSessions'
  BY <1>1, Ranges DEF IInv, FreshSessions, Fresh, CurrentSession, Unmount
<1>7. Teardowns'
  <2>1. \A t \in leaving : t.by = "switch" => t.step = "writes"
    BY DEF IInv, Teardowns
  <2>2. \A t \in leaving :
          /\ sessions'[t.session].client # "none"
          /\ t.step = "writes" => sessions'[t.session].client = "closed"
    BY <1>1, Ranges DEF IInv, Teardowns
  <2>3. \A t, u \in leaving' : t.by = "switch" /\ u.by = "switch" => t = u
    BY <1>3, <2>1 DEF IInv, Teardowns, Leavings
  <2> QED
    BY <1>1, <1>3, <2>1, <2>2, <2>3 DEF IInv, Teardowns, Unmount
<1>8. NoSessionShown' /\ Address'
  BY <1>1, <1>2 DEF IInv, NoSessionShown, EditorEnabled, Address, Unmount
<1>9. WritesInOrder' /\ EditsStayInTheirDocument'
  BY <1>1, <1>4, EditsFrame DEF IInv, Unmount
<1>10. /\ CurrentSession' /\ OneConnectedSession' /\ OfflineModeHolds'
       /\ CollaboratorFollowsSession' /\ Bounded'
  BY <1>1 DEF IInv, CurrentSession, OneConnectedSession, Live, OfflineModeHolds,
     CollaboratorFollowsSession, Bounded, Unmount
<1> QED
  BY <1>4, <1>5, <1>6, <1>7, <1>8, <1>9, <1>10 DEF IInv

\* A teardown that waited for the gate detaches the session.
LEMMA DetachKeeps ==
  ASSUME IInv, NEW d \in leaving, Detach(d)
  PROVE  IInv'
<1> DEFINE g == d.session
           s == [sessions[g] EXCEPT !.client = "closed"]
           e == [d EXCEPT !.step = "writes"]
<1>1. g \in Generations /\ sessions[g] \in Sessions
  BY Ranges DEF IInv
<1>2. /\ s \in Sessions /\ s.client = "closed" /\ s.doc = sessions[g].doc
      /\ s.controller = sessions[g].controller /\ s.held = sessions[g].held
      /\ s.writes = sessions[g].writes /\ s.inbound = sessions[g].inbound
  BY <1>1, ClientSet
<1>3. sessions' = [sessions EXCEPT ![g] = s] /\ current' = 0 /\ d.step = "ready"
  BY DEF Detach
<1>4. /\ sessions' \in [Generations -> Sessions] /\ sessions'[g] = s
      /\ \A h \in Generations \ {g} : sessions'[h] = sessions[h]
  BY <1>1, <1>2, <1>3, Replaced DEF IInv
<1>5. /\ leaving' = (leaving \ {d}) \cup {e} /\ e \in Leavings
      /\ e.session = g /\ e.by = d.by /\ e.step = "writes"
  BY DEF Detach, IInv, TypeOK, Leavings
<1> HIDE DEF s, e
<1>6. TypeOK'
  <2>1. leaving' \subseteq Leavings /\ current' \in 0..generation
    BY <1>3, <1>5, Ranges DEF IInv, TypeOK
  <2> QED
    BY <1>4, <2>1 DEF Detach, IInv, TypeOK
<1>7. /\ d.by = "route" /\ sessions[g].client # "none"
      /\ current # 0 => /\ current = g /\ collaborator = 0 /\ view.invalidRoute
                        /\ url = Nothing \/ queue.flush \in {"held", "ready"}
  BY <1>1, <1>3 DEF IInv, Teardowns, Leavings, TypeOK
<1>8. FreshSessions'
  BY <1>2, <1>4, <1>7 DEF IInv, FreshSessions, Fresh, Blank, Detach
<1>9. Teardowns'
  <2>1. ASSUME NEW t \in leaving, t # d
        PROVE  t.step # "held"
    BY <2>1, <1>3, Ranges DEF IInv, Teardowns
  <2>2. ASSUME NEW t \in leaving'
        PROVE  /\ t \in leaving \/ (t = e /\ t.by = "route" /\ t.session = g /\ t.step = "writes")
               /\ t.step # "held"
               /\ sessions'[t.session].client # "none"
               /\ t.step = "writes" => sessions'[t.session].client = "closed"
    <3>1. CASE t = e
      BY <3>1, <1>2, <1>4, <1>5, <1>7
    <3>2. CASE t # e
      <4>1. t \in leaving /\ t # d
        BY <3>2, <1>5
      <4>2. t.session = g \/ sessions'[t.session] = sessions[t.session]
        BY <4>1, <1>4, Ranges DEF IInv
      <4> QED
        BY <4>1, <4>2, <2>1, <1>2, <1>4 DEF IInv, Teardowns
    <3> QED
      BY <3>1, <3>2
  <2> QED
    BY <1>3, <2>2 DEF IInv, Teardowns, Detach
<1>10. NoSessionShown'
  BY <1>2, <1>4, <1>7, Ranges DEF IInv, NoSessionShown, EditorEnabled, Detach
<1>11. Address'
  BY <1>3, <1>7 DEF IInv, Address, Numbering, Detach
<1>12. WritesInOrder' /\ EditsStayInTheirDocument'
  BY <1>2, <1>4, <1>6, EditsFrame DEF IInv, Detach
<1>13. OneConnectedSession'
  BY <1>2, <1>4, <1>7, Ranges DEF IInv, OneConnectedSession, Live
<1>14. /\ Numbering' /\ CurrentSession' /\ OfflineModeHolds'
       /\ CollaboratorFollowsSession' /\ Bounded'
  BY <1>3, <1>7 DEF IInv, Numbering, CurrentSession, OfflineModeHolds,
     CollaboratorFollowsSession, Bounded, Detach
<1> QED
  BY <1>6, <1>8, <1>9, <1>10, <1>11, <1>12, <1>13, <1>14 DEF IInv

\* The controller has nothing left to write and is closed.
LEMMA LeaveKeeps ==
  ASSUME IInv, NEW d \in leaving, Leave(d)
  PROVE  IInv'
<1> DEFINE g == d.session
           r == SessionAfterRelease(sessions[g])
           s == [r EXCEPT !.controller = "closed"]
<1>1. /\ g \in Generations /\ sessions[g] \in Sessions /\ sessions[g].writes = <<>>
      /\ d.step = "writes" /\ sessions[g].client = "closed"
      /\ current # 0 => current # g
      /\ d.by \in {"switch", "route"}
      /\ leaving' = leaving \ {d}
  BY Ranges DEF IInv, Leave, Teardowns, OfflineModeHolds, TypeOK, Leavings
<1>2. /\ r \in Sessions /\ ~r.held /\ r.doc = sessions[g].doc /\ r.client = "closed"
      /\ r.writes = <<>>
  BY <1>1, Released
<1>3. s \in Sessions /\ s.doc = sessions[g].doc /\ s.client = "closed" /\ s.writes = <<>>
  BY <1>2, ControllerSet
<1>4. sessions' = [sessions EXCEPT ![g] = s]
  BY DEF Leave
<1>5. /\ sessions' \in [Generations -> Sessions] /\ sessions'[g] = s
      /\ \A h \in Generations \ {g} : sessions'[h] = sessions[h]
  BY <1>1, <1>3, <1>4, Replaced DEF IInv
<1>6. /\ opening' \in Openings /\ opening'.doc = opening.doc
      /\ opening'.generation = opening.generation
      /\ d.by = "route" => opening' = opening
      /\ d.by = "switch" => /\ opening.step = "leaving" /\ current = 0
                            /\ opening'.step = IF unmounted THEN "done" ELSE "creating"
  BY <1>1 DEF Leave, Outdated, IInv, TypeOK, Openings, Teardowns, CurrentSession, Numbering
<1>7. TypeOK'
  BY <1>1, <1>5, <1>6 DEF Leave, IInv, TypeOK
<1>8. Numbering'
  BY <1>1, <1>6 DEF Leave, IInv, Numbering
<1>9. FreshSessions'
  BY <1>1, <1>5, <1>6 DEF Leave, IInv, FreshSessions, Fresh, Blank
<1>10. CurrentSession'
  BY <1>1, <1>5, <1>6, Ranges DEF Leave, IInv, CurrentSession, OnlyRemote
<1>11. Teardowns'
  <2>1. ASSUME NEW t \in leaving, t # d
        PROVE  /\ sessions'[t.session].client = sessions[t.session].client
               /\ t.by = "switch" => d.by = "route"
               /\ current # 0 => t.session # g \/ t.step = "writes"
               /\ current # 0 => sessions'[current].held = sessions[current].held
    <3>1. t.session \in Generations
      BY Ranges DEF IInv
    <3>2. sessions'[t.session].client = sessions[t.session].client
      BY <1>1, <1>3, <1>5, <3>1
    <3>3. t.by = "switch" => d.by = "route"
      BY <1>1, <2>1 DEF IInv, Teardowns
    <3>4. t.session = g /\ current # 0 => t.step = "writes"
      BY <1>1, <3>1, Ranges DEF IInv, Teardowns, TypeOK, Leavings
    <3>5. current # 0 => sessions'[current].held = sessions[current].held
      BY <1>1, <1>5, Ranges DEF IInv
    <3> QED
      BY <3>2, <3>3, <3>4, <3>5
  <2> QED
    BY <1>1, <1>6, <2>1, Ranges DEF Leave, IInv, Teardowns
<1>12. NoSessionShown' /\ Address'
  BY <1>1, <1>3, <1>5, <1>6, Ranges DEF Leave, IInv, NoSessionShown, EditorEnabled, Address
<1>13. WritesInOrder' /\ EditsStayInTheirDocument'
  BY <1>1, <1>3, <1>5, <1>7, EditsFrame DEF IInv, Leave
<1>14. /\ OneConnectedSession' /\ OfflineModeHolds'
       /\ CollaboratorFollowsSession' /\ Bounded'
  BY <1>1, <1>3, <1>5, Ranges DEF IInv, OneConnectedSession, Live, OfflineModeHolds,
     CollaboratorFollowsSession, Bounded, Leave
<1> QED
  BY <1>7, <1>8, <1>9, <1>10, <1>11, <1>12, <1>13, <1>14 DEF IInv

\* The next session becomes the current one, unless the page has gone.
LEMMA CreateKeeps ==
  ASSUME IInv, Create
  PROVE  IInv'
<1> DEFINE g == generation
           s == [NoSession EXCEPT !.doc = opening.doc, !.controller = "open",
                   !.client = IF offlineMode THEN "suspended" ELSE "connected"]
<1>1. /\ g \in Generations /\ opening.generation = g /\ opening.doc # Nothing
      /\ opening.step = "creating" /\ queue.flush = "switching"
      /\ opening.doc \in Documents /\ current = 0
  BY Ranges DEF IInv, TypeOK, Numbering, Create, Openings, CurrentSession
<1>2. /\ opening' \in Openings /\ opening'.step = "done"
      /\ opening'.doc = opening.doc /\ opening'.generation = g
  BY <1>1 DEF Create, IInv, TypeOK, Openings
<1>3. \A t \in leaving : t.step = "writes" /\ t.session # g /\ t.by = "route"
  BY <1>1, Ranges DEF IInv, Teardowns, FreshSessions, Fresh, Blank, Create, Quiet, Ready,
     TypeOK, Leavings
<1>4. \A h \in Generations : ~Live(h)
  BY <1>1, Ranges DEF IInv, OneConnectedSession
<1>5. Blank(sessions[g])
  BY <1>1 DEF IInv, FreshSessions, Fresh
<1>6. CASE unmounted
  <2>1. sessions' = sessions /\ current' = current /\ view' = view
    BY <1>6 DEF Create, Outdated
  <2>2. TypeOK'
    BY <1>2, <2>1 DEF Create, IInv, TypeOK
  <2>3. Numbering' /\ FreshSessions' /\ CurrentSession' /\ Teardowns'
    BY <1>1, <1>2, <1>3, <2>1 DEF Create, IInv, Numbering, FreshSessions, Fresh,
       CurrentSession, Teardowns
  <2>4. NoSessionShown' /\ Address' /\ WritesInOrder' /\ Bounded'
    BY <1>1, <1>2, <1>6, <2>1 DEF Create, IInv, NoSessionShown, EditorEnabled, Address,
       WritesInOrder, OrderedWrites, Bounded
  <2>5. /\ OneConnectedSession' /\ OfflineModeHolds' /\ CollaboratorFollowsSession'
        /\ EditsStayInTheirDocument'
    BY <2>1 DEF Create, IInv, OneConnectedSession, Live, OfflineModeHolds,
       CollaboratorFollowsSession, EditsStayInTheirDocument
  <2> QED
    BY <2>2, <2>3, <2>4, <2>5 DEF IInv
<1>7. CASE ~unmounted
  <2>1. /\ s \in Sessions /\ s.doc = opening.doc /\ s.controller = "open" /\ ~s.held
        /\ s.writes = <<>>
        /\ s.client = IF offlineMode THEN "suspended" ELSE "connected"
    <3> DEFINE a == [NoSession EXCEPT !.doc = opening.doc]
               b == [a EXCEPT !.controller = "open"]
    <3>1. NoSession \in Sessions /\ ~NoSession.held /\ NoSession.writes = <<>>
      BY DEF NoSession, Sessions
    <3>2. a \in Sessions /\ a.doc = opening.doc /\ ~a.held /\ a.writes = <<>>
      BY <1>1, <3>1 DEF Sessions
    <3> HIDE DEF a
    <3>3. /\ b \in Sessions /\ b.doc = opening.doc /\ ~b.held /\ b.writes = <<>>
          /\ b.controller = "open"
      BY <3>2, ControllerSet
    <3> HIDE DEF b
    <3>4. PICK x \in {"connected", "suspended", "closed"} :
            x = IF offlineMode THEN "suspended" ELSE "connected"
      OBVIOUS
    <3> DEFINE c == [b EXCEPT !.client = x]
    <3>5. /\ c \in Sessions /\ c.doc = opening.doc /\ ~c.held /\ c.writes = <<>>
          /\ c.controller = "open" /\ c.client = x
      BY <3>3, ClientSet
    <3>6. s = c
      BY <3>4 DEF a, b
    <3> QED
      BY <3>4, <3>5, <3>6
  <2>2. sessions' = [sessions EXCEPT ![g] = s] /\ current' = g
    BY <1>1, <1>7 DEF Create, Outdated
  <2> HIDE DEF s
  <2>3. /\ sessions' \in [Generations -> Sessions] /\ sessions'[g] = s
        /\ \A h \in Generations \ {g} : sessions'[h] = sessions[h]
    BY <1>1, <2>1, <2>2, Replaced DEF IInv
  <2>4. /\ view' \in Views /\ view'.active = opening.doc /\ view'.text = opening.doc
        /\ view'.invalidRoute = view.invalidRoute
    <3>1. view' = [view EXCEPT !.active = opening.doc, !.text = opening.doc,
                               !.saveState = "saved", !.switching = FALSE]
      BY <1>1, <1>7 DEF Create, Outdated
    <3>2. view \in Views
      BY DEF IInv, TypeOK
    <3> QED
      BY <3>1, <3>2, <1>1 DEF Views
  <2>5. TypeOK'
    BY <1>1, <1>2, <2>2, <2>3, <2>4, Ranges DEF Create, IInv, TypeOK
  <2>6. Numbering'
    BY <1>1, <1>2 DEF Create, IInv, Numbering
  <2>7. FreshSessions'
    BY <1>1, <1>2, <2>3, Ranges DEF Create, IInv, FreshSessions, Fresh
  <2>8. CurrentSession'
    BY <1>1, <1>2, <1>7, <2>1, <2>2, <2>3, <2>4, Ranges DEF Create, CurrentSession,
       OnlyRemote, IInv
  <2>9. Teardowns'
    BY <1>1, <1>3, <2>3, Ranges DEF Create, IInv, Teardowns
  <2>10. NoSessionShown'
    BY <1>1, <2>2, Ranges DEF NoSessionShown, IInv
  <2>11. Address'
    BY <1>1, <1>2, <2>1, <2>2, <2>3, <2>4, Ranges DEF Create, IInv, Address
  <2>12. WritesInOrder' /\ EditsStayInTheirDocument'
    BY <1>1, <1>5, <2>1, <2>3, <2>5, EditsFrame DEF Create, IInv, Blank
  <2>13. OneConnectedSession' /\ OfflineModeHolds'
    BY <1>1, <1>4, <2>1, <2>2, <2>3 DEF Create, OneConnectedSession, Live, OfflineModeHolds
  <2>14. CollaboratorFollowsSession' /\ Bounded'
    BY <1>1 DEF Create, IInv, CollaboratorFollowsSession, Bounded
  <2> QED
    BY <2>5, <2>6, <2>7, <2>8, <2>9, <2>10, <2>11, <2>12, <2>13, <2>14 DEF IInv
<1> QED
  BY <1>6, <1>7

\* The next session cannot be created: an error is shown.
LEMMA CreateFailsKeeps ==
  ASSUME IInv, CreateFails
  PROVE  IInv'
<1>1. /\ opening.step = "creating" /\ queue.flush = "switching" /\ current = 0
      /\ opening.generation = generation
  BY DEF IInv, Numbering, CreateFails, CurrentSession
<1>2. /\ opening' \in Openings /\ opening'.step = "done"
      /\ opening'.doc = opening.doc /\ opening'.generation = generation
  BY <1>1 DEF CreateFails, IInv, TypeOK, Openings
<1>3. /\ view' \in Views /\ view'.invalidRoute = view.invalidRoute
      /\ unmounted \/ view'.saveState = "error"
  BY <1>1 DEF CreateFails, Outdated, IInv, TypeOK, Views
<1>4. TypeOK'
  BY <1>2, <1>3 DEF CreateFails, Use, IInv, TypeOK
<1>5. Numbering'
  BY <1>1, <1>2 DEF CreateFails, Use, IInv, TypeOK, Numbering
<1>6. \A t \in leaving : t.by = "route"
  BY <1>1 DEF IInv, Teardowns, TypeOK, Leavings
<1>7. Teardowns' /\ CurrentSession'
  BY <1>1, <1>6 DEF CreateFails, IInv, Teardowns, CurrentSession
<1>8. NoSessionShown' /\ Address'
  BY <1>1, <1>2, <1>3 DEF CreateFails, IInv, NoSessionShown, EditorEnabled, Address
<1>9. /\ FreshSessions' /\ WritesInOrder' /\ Bounded' /\ OneConnectedSession'
      /\ OfflineModeHolds' /\ CollaboratorFollowsSession' /\ EditsStayInTheirDocument'
  BY <1>2 DEF CreateFails, IInv, FreshSessions, Fresh, WritesInOrder, OrderedWrites,
     Bounded, OneConnectedSession,
     Live, OfflineModeHolds, CollaboratorFollowsSession, EditsStayInTheirDocument
<1> QED
  BY <1>4, <1>5, <1>7, <1>8, <1>9 DEF IInv

\* A transition ends: the queue goes on with a target that came meanwhile, or
\* is idle.
LEMMA EndSwitchKeeps ==
  ASSUME IInv, EndSwitch
  PROVE  IInv'
<1>1. opening' \in Openings /\ opening'.step = "none" /\ opening.step = "done"
  BY DEF EndSwitch, Closed, Openings
<1>2. /\ queue' \in Queues /\ queue'.pendingTarget = queue.pendingTarget
      /\ queue.pendingTarget = Nothing => queue'.flush = "idle"
      /\ queue.pendingTarget # Nothing => queue'.flush = Prepared
      /\ Prepared \in {"held", "ready"}
      /\ queue'.flush = "ready" /\ current # 0 => ~sessions[current].held
  BY DEF EndSwitch, Prepared, IInv, TypeOK, Queues
<1>3. /\ view' \in Views /\ view'.invalidRoute = view.invalidRoute
      /\ view'.text = view.text /\ view'.active = view.active
      /\ view'.saveState = view.saveState /\ view'.switching = view.switching
  BY DEF EndSwitch, IInv, TypeOK, Views
<1>4. TypeOK'
  BY <1>1, <1>2, <1>3 DEF EndSwitch, IInv, TypeOK
<1>5. Numbering'
  BY <1>1, <1>2 DEF EndSwitch, IInv, Numbering
<1>6. FreshSessions'
  BY <1>1 DEF EndSwitch, IInv, FreshSessions, Fresh
<1>7. CurrentSession'
  BY <1>1, <1>2, <1>3 DEF EndSwitch, IInv, CurrentSession, OnlyRemote
<1>8. Teardowns'
  BY <1>1, <1>3 DEF EndSwitch, IInv, Teardowns, Numbering
<1>9. NoSessionShown' /\ Address'
  BY <1>1, <1>2, <1>3 DEF EndSwitch, IInv, NoSessionShown, EditorEnabled, Address
<1>10. /\ WritesInOrder' /\ Bounded' /\ OneConnectedSession' /\ OfflineModeHolds'
       /\ CollaboratorFollowsSession' /\ EditsStayInTheirDocument'
  BY DEF EndSwitch, IInv, WritesInOrder, OrderedWrites, Bounded, OneConnectedSession,
     Live, OfflineModeHolds,
     CollaboratorFollowsSession, EditsStayInTheirDocument
<1> QED
  BY <1>4, <1>5, <1>6, <1>7, <1>8, <1>9, <1>10 DEF IInv

-------------------------------------------------------------------------------
(* Editing.                                                                *)

\* A composition begins: the gate of the session is held.
LEMMA CompositionStartKeeps ==
  ASSUME IInv, CompositionStart
  PROVE  IInv'
<1> DEFINE s == [sessions[current] EXCEPT !.held = TRUE]
<1>1. current # 0 /\ current \in Generations /\ sessions[current] \in Sessions
  BY Ranges DEF CompositionStart, IInv
<1>2. /\ s \in Sessions /\ s.held /\ s.client = sessions[current].client
      /\ s.doc = sessions[current].doc /\ s.controller = sessions[current].controller
      /\ s.writes = sessions[current].writes /\ s.inbound = sessions[current].inbound
  BY <1>1, HeldSet
<1>3. sessions' = [sessions EXCEPT ![current] = s]
  BY DEF CompositionStart
<1> HIDE DEF s
<1>4. /\ sessions' \in [Generations -> Sessions] /\ sessions'[current] = s
      /\ \A h \in Generations \ {current} : sessions'[h] = sessions[h]
  BY <1>1, <1>2, <1>3, Replaced DEF IInv
<1>5. \A h \in Generations :
        /\ sessions'[h].client = sessions[h].client /\ sessions'[h].doc = sessions[h].doc
        /\ sessions'[h].controller = sessions[h].controller
        /\ sessions'[h].writes = sessions[h].writes /\ sessions'[h].inbound = sessions[h].inbound
  BY <1>2, <1>4
<1>6. TypeOK'
  BY <1>1, <1>4, Ranges DEF CompositionStart, IInv, TypeOK
<1>7. FreshSessions'
  BY <1>5 DEF CompositionStart, IInv, FreshSessions, Fresh, Blank
<1>8. CurrentSession'
  BY <1>1, <1>5 DEF CompositionStart, IInv, CurrentSession, OnlyRemote, Quiet, Ready
<1>9. Teardowns'
  <2>1. \A t \in leaving : t.step # "ready" /\ t.session \in Generations
    BY Ranges DEF CompositionStart, Quiet, Ready, IInv
  <2> QED
    BY <1>2, <1>4, <1>5, <2>1 DEF CompositionStart, IInv, Teardowns
<1>10. NoSessionShown' /\ Address'
  BY <1>1, <1>5 DEF CompositionStart, IInv, NoSessionShown, Address
<1>11. WritesInOrder' /\ EditsStayInTheirDocument'
  BY <1>5, <1>6, EditsFrame DEF CompositionStart, IInv
<1>12. OneConnectedSession' /\ OfflineModeHolds'
  BY <1>1, <1>5 DEF CompositionStart, IInv, OneConnectedSession, Live, OfflineModeHolds
<1>13. Numbering' /\ CollaboratorFollowsSession' /\ Bounded'
  BY DEF CompositionStart, IInv, Numbering, CollaboratorFollowsSession, Bounded
<1> QED
  BY <1>6, <1>7, <1>8, <1>9, <1>10, <1>11, <1>12, <1>13 DEF IInv

\* A commit queues the edit in the session of the shown document.
LEMMA CommitKeeps ==
  ASSUME IInv, Quiet, ~view.invalidRoute, current # 0, NEW releases, CommitText(releases),
         composing' \in Nat,
         UNCHANGED <<url, booted, unmounted, queue, generation, current, opening, leaving,
                     durable, failed, offlineMode, collaborator, used>>
  PROVE  IInv'
<1> DEFINE n == Len(typed) + 1
<1>1. current \in Generations /\ sessions[current] \in Sessions /\ MaxEdits \in Nat
  BY Ranges DEF IInv
<1>2. /\ typed \in Seq(Documents \cup {Nothing}) /\ Len(typed) \in Nat
      /\ n \in Edits /\ n # Remote /\ typed' = Append(typed, view.text)
      /\ view.text \in Documents \cup {Nothing}
  BY <1>1 DEF IInv, TypeOK, Views, CommitText, Edits, Remote
<1>3. /\ typed' \in Seq(Documents \cup {Nothing}) /\ Len(typed') = n /\ typed'[n] = view.text
      /\ n = Len(typed) + 1
      /\ \A m \in 1..Len(typed) : typed'[m] = typed[m]
  BY <1>2
<1> HIDE DEF n
<1>4. /\ view.text = sessions[current].doc /\ sessions[current].doc # Nothing
      /\ sessions[current].controller = "open"
  BY DEF IInv, CurrentSession
<1>5. sessions[current].writes \in Seq({Remote} \cup Edits)
  BY <1>1, SessionFields
<1>6. PICK w \in Seq({Remote} \cup Edits) :
        /\ w = Append(sessions[current].writes, n)
        /\ Len(w) = Len(sessions[current].writes) + 1
        /\ w[Len(w)] = n /\ DOMAIN w = 1..Len(w) /\ Len(sessions[current].writes) \in Nat
        /\ DOMAIN sessions[current].writes = 1..Len(sessions[current].writes)
        /\ \A i \in 1..Len(sessions[current].writes) : w[i] = sessions[current].writes[i]
  <2> DEFINE q == sessions[current].writes
  <2>1. /\ Append(q, n) \in Seq({Remote} \cup Edits) /\ Len(Append(q, n)) = Len(q) + 1
        /\ Append(q, n)[Len(q) + 1] = n
        /\ \A i \in 1..Len(q) : Append(q, n)[i] = q[i]
        /\ Len(q) \in Nat /\ DOMAIN q = 1..Len(q)
        /\ DOMAIN Append(q, n) = 1..(Len(q) + 1)
    <3>1. n \in {Remote} \cup Edits
      BY <1>2
    <3> QED
      BY <1>5, <3>1, Appended
  <2> QED
    BY <2>1
<1>7. PICK s \in Sessions :
        /\ s = [sessions[current] EXCEPT !.writes = w] /\ s.writes = w
        /\ s.client = sessions[current].client /\ s.doc = sessions[current].doc
        /\ s.controller = sessions[current].controller
        /\ s.held = sessions[current].held /\ s.inbound = sessions[current].inbound
  <2> DEFINE t == [sessions[current] EXCEPT !.writes = w]
  <2>1. /\ t \in Sessions /\ t.writes = w
        /\ t.client = sessions[current].client /\ t.doc = sessions[current].doc
        /\ t.controller = sessions[current].controller
        /\ t.held = sessions[current].held /\ t.inbound = sessions[current].inbound
    BY <1>1, WritesSet
  <2> QED
    BY <2>1
<1>8. sessions' = [sessions EXCEPT ![current] = s]
  BY <1>3, <1>6, <1>7 DEF CommitText
<1>9. /\ sessions' \in [Generations -> Sessions] /\ sessions'[current] = s
      /\ \A h \in Generations \ {current} : sessions'[h] = sessions[h]
  BY <1>1, <1>8, Replaced DEF IInv
<1>10. \A h \in Generations :
        /\ sessions'[h].client = sessions[h].client /\ sessions'[h].doc = sessions[h].doc
        /\ sessions'[h].controller = sessions[h].controller
        /\ sessions'[h].held = sessions[h].held /\ sessions'[h].inbound = sessions[h].inbound
        /\ h # current => sessions'[h].writes = sessions[h].writes
  BY <1>7, <1>9
<1>11. /\ view' \in Views /\ view'.saveState = "saving" /\ view'.text = view.text
       /\ view'.active = view.active /\ view'.invalidRoute = view.invalidRoute
  BY DEF CommitText, IInv, TypeOK, Views
<1>12. TypeOK'
  <2>1. composed' \subseteq Edits
    BY <1>2, <1>3 DEF CommitText, IInv, TypeOK
  <2> QED
    BY <1>3, <1>9, <1>11, <2>1 DEF IInv, TypeOK
<1>13. Numbering'
  BY DEF IInv, Numbering
<1>14. FreshSessions'
  BY <1>1, <1>10, Ranges DEF IInv, FreshSessions, Fresh, Blank, CurrentSession
<1>15. CurrentSession'
  BY <1>1, <1>10, <1>11 DEF IInv, CurrentSession
<1>16. Teardowns'
  BY <1>1, <1>10, <1>11, Ranges DEF IInv, Teardowns
<1>17. WritesInOrder'
  <2>1. \A i \in DOMAIN sessions[current].writes :
          /\ i \in 1..Len(sessions[current].writes)
          /\ sessions[current].writes[i] \in Nat
          /\ sessions[current].writes[i] # Remote =>
               sessions[current].writes[i] \in 1..Len(typed)
    BY <1>1, <1>5, <1>2 DEF IInv, WritesInOrder, OrderedWrites, Edits, Remote
  <2>3. ASSUME NEW g \in Generations, g # current
        PROVE  /\ sessions'[g].writes = sessions[g].writes
               /\ sessions'[g].doc = sessions[g].doc
               /\ \A i \in DOMAIN sessions[g].writes :
                    sessions[g].writes[i] # Remote => sessions[g].writes[i] \in 1..Len(typed)
    <3>1. sessions[g].writes \in Seq({Remote} \cup Edits)
      BY Ranges, SessionFields DEF IInv
    <3> QED
      BY <1>10, <2>3, <3>1, <1>2 DEF IInv, WritesInOrder, OrderedWrites, Edits, Remote
  <2>4. ASSUME NEW g \in Generations
        PROVE  OrderedWrites(g)'
    <3>1. CASE g # current
      <4>1. \A i \in DOMAIN sessions[g].writes : sessions[g].writes[i] # Remote =>
              /\ sessions[g].writes[i] \in 1..Len(typed)
              /\ typed'[sessions[g].writes[i]] = sessions[g].doc /\ sessions[g].doc # Nothing
        BY <3>1, <2>3, <1>3 DEF IInv, WritesInOrder, OrderedWrites
      <4> QED
        BY <3>1, <2>3, <4>1, <1>2, <1>3 DEF IInv, WritesInOrder, OrderedWrites
    <3>2. CASE g = current
      <4>1. sessions'[g].writes = w /\ sessions'[g].doc = sessions[g].doc
        BY <3>2, <1>7, <1>9
      <4>2. \A i \in DOMAIN w : i = Len(w) \/ i \in DOMAIN sessions[g].writes
        BY <1>6, <3>2
      <4>3. ASSUME NEW i \in DOMAIN w, w[i] # Remote
            PROVE  w[i] \in 1..Len(typed') /\ typed'[w[i]] = sessions[g].doc
        BY <4>2, <4>3, <3>2, <2>1, <1>2, <1>3, <1>4, <1>6 DEF IInv, WritesInOrder,
           OrderedWrites
      <4>4. ASSUME NEW i \in DOMAIN w, NEW j \in DOMAIN w, i < j, w[i] # Remote, w[j] # Remote
            PROVE  w[i] < w[j]
        <5>1. i \in DOMAIN sessions[g].writes
          BY <4>4, <1>6, <3>2
        <5>2. w[i] = sessions[g].writes[i] /\ w[i] \in 1..Len(typed)
          BY <4>4, <5>1, <3>2, <1>6, <2>1
        <5>3. CASE j = Len(w)
          BY <5>2, <5>3, <1>2, <1>3, <1>6
        <5>4. CASE j \in DOMAIN sessions[g].writes
          BY <4>4, <5>1, <5>2, <5>4, <3>2, <1>6 DEF IInv, WritesInOrder, OrderedWrites
        <5> QED
          BY <4>2, <5>3, <5>4
      <4> QED
        BY <4>1, <4>3, <4>4, <3>2, <1>3, <1>4, <1>2 DEF OrderedWrites
    <3> QED
      BY <3>1, <3>2
  <2> QED
    BY <2>4 DEF WritesInOrder
<1>18. EditsStayInTheirDocument'
  <2>1. ASSUME NEW m \in 1..Len(typed')
        PROVE  \/ m \in failed'
               \/ typed'[m] # Nothing /\ m \in durable'[typed'[m]]
               \/ \E g \in Generations :
                    /\ sessions'[g].doc = typed'[m]
                    /\ sessions'[g].controller \in {"open", "closing"}
                    /\ \E i \in DOMAIN sessions'[g].writes : sessions'[g].writes[i] = m
    <3>1. CASE m = n
      <4>1. Len(w) \in DOMAIN w
        BY <1>6
      <4>2. /\ sessions'[current].doc = typed'[m] /\ sessions'[current].controller = "open"
            /\ sessions'[current].writes = w /\ w[Len(w)] = m
        BY <3>1, <1>3, <1>4, <1>6, <1>7, <1>9
      <4> QED
        BY <4>1, <4>2, <1>1
    <3>2. CASE m # n
      <4>1. m \in 1..Len(typed) /\ typed'[m] = typed[m]
        BY <3>2, <1>2, <1>3
      <4>2. CASE m \in failed \/ (typed[m] # Nothing /\ m \in durable[typed[m]])
        BY <4>1, <4>2
      <4>3. CASE \E g \in Generations :
                   /\ sessions[g].doc = typed[m]
                   /\ sessions[g].controller \in {"open", "closing"}
                   /\ \E i \in DOMAIN sessions[g].writes : sessions[g].writes[i] = m
        <5>1. PICK g \in Generations :
                   /\ sessions[g].doc = typed[m]
                   /\ sessions[g].controller \in {"open", "closing"}
                   /\ \E i \in DOMAIN sessions[g].writes : sessions[g].writes[i] = m
          BY <4>3
        <5>2. \E i \in DOMAIN sessions'[g].writes : sessions'[g].writes[i] = m
          <6>1. PICK i \in DOMAIN sessions[g].writes : sessions[g].writes[i] = m
            BY <5>1
          <6>2. CASE g = current
            BY <6>1, <6>2, <1>6, <1>7, <1>9
          <6>3. CASE g # current
            BY <6>1, <6>3, <1>10
          <6> QED
            BY <6>2, <6>3
        <5> QED
          BY <4>1, <5>1, <5>2, <1>10
      <4> QED
        BY <4>1, <4>2, <4>3 DEF IInv, EditsStayInTheirDocument
    <3> QED
      BY <3>1, <3>2
  <2> QED
    BY <2>1 DEF EditsStayInTheirDocument
<1>19. NoSessionShown' /\ Address'
  BY <1>1, <1>10, <1>11 DEF IInv, NoSessionShown, Address
<1>20. OneConnectedSession' /\ OfflineModeHolds' /\ CollaboratorFollowsSession' /\ Bounded'
  BY <1>1, <1>3, <1>10 DEF IInv, OneConnectedSession, Live, OfflineModeHolds,
     CollaboratorFollowsSession, Bounded, CommitText
<1> QED
  BY <1>12, <1>13, <1>14, <1>15, <1>16, <1>17, <1>18, <1>19, <1>20 DEF IInv

\* An edit outside a composition.
LEMMA TypeTextKeeps ==
  ASSUME IInv, TypeText
  PROVE  IInv'
<1>1. ~view.invalidRoute /\ current # 0 /\ composing' \in Nat
  BY DEF TypeText, EditorEnabled, IInv, TypeOK
<1> QED
  BY <1>1, CommitKeeps DEF TypeText

\* The edit of a composition.
LEMMA CompositionEndKeeps ==
  ASSUME IInv, CompositionEnd
  PROVE  IInv'
<1>1. CASE current # 0
  BY <1>1, CommitKeeps DEF CompositionEnd
<1>2. CASE current = 0
  <2>1. TypeOK' /\ Numbering' /\ FreshSessions' /\ CurrentSession' /\ Bounded'
    BY <1>2 DEF CompositionEnd, IInv, TypeOK, Numbering, FreshSessions, Fresh,
       CurrentSession,
       OnlyRemote, Bounded
  <2>2. Teardowns' /\ NoSessionShown' /\ Address'
    BY <1>2 DEF CompositionEnd, IInv, Teardowns, NoSessionShown, EditorEnabled, Address
  <2>3. WritesInOrder' /\ EditsStayInTheirDocument'
    BY <1>2 DEF CompositionEnd, IInv, WritesInOrder, OrderedWrites, EditsStayInTheirDocument
  <2>4. OneConnectedSession' /\ OfflineModeHolds' /\ CollaboratorFollowsSession'
    BY <1>2 DEF CompositionEnd, IInv, OneConnectedSession, Live, OfflineModeHolds,
       CollaboratorFollowsSession
  <2> QED
    BY <2>1, <2>2, <2>3, <2>4 DEF IInv
<1> QED
  BY <1>1, <1>2

-------------------------------------------------------------------------------
(* Writes and batches.                                                     *)

\* A write of an edit completes.  The edit is durable, or has failed and the
\* user is told; the gate is released if it held the gate.
LEMMA WrittenKeeps ==
  ASSUME IInv, Quiet, NEW g \in Generations, sessions[g].writes # <<>>,
         NEW saveState \in {"saved", "error"}, Written(g, saveState),
         used' \in [{"requests", "batches", "failures"} -> Nat],
         used'.requests = used.requests,
         durable' \in [Documents -> SUBSET Edits], failed' \subseteq Edits,
         \A d \in Documents : durable[d] \subseteq durable'[d],
         failed \subseteq failed',
         \/ Head(sessions[g].writes) \in failed'
         \/ sessions[g].doc \in Documents => Head(sessions[g].writes) \in durable'[sessions[g].doc],
         UNCHANGED <<url, booted, unmounted, generation, current, opening, composing, typed,
                     composed, offlineMode, collaborator>>
  PROVE  IInv'
<1>1. /\ sessions[g] \in Sessions /\ sessions[g].writes \in Seq({Remote} \cup Edits)
      /\ MaxEdits \in Nat
  BY Ranges, SessionFields DEF IInv
<1>2. PICK q \in Seq({Remote} \cup Edits), w \in Seq({Remote} \cup Edits),
           n \in {Remote} \cup Edits :
        /\ q = sessions[g].writes /\ w = Tail(sessions[g].writes) /\ n = Head(sessions[g].writes)
        /\ n = q[1] /\ Len(w) = Len(q) - 1 /\ Len(q) \in Nat \ {0}
        /\ \A i \in 1..(Len(q) - 1) : w[i] = q[i + 1]
        /\ DOMAIN q = 1..Len(q) /\ DOMAIN w = 1..(Len(q) - 1)
  <2> DEFINE q == sessions[g].writes
  <2>1. /\ Tail(q) \in Seq({Remote} \cup Edits) /\ Len(Tail(q)) = Len(q) - 1 /\ Head(q) = q[1]
        /\ Head(q) \in {Remote} \cup Edits
        /\ \A i \in 1..(Len(q) - 1) : Tail(q)[i] = q[i + 1]
        /\ Len(q) \in Nat \ {0} /\ DOMAIN q = 1..Len(q)
        /\ DOMAIN Tail(q) = 1..(Len(q) - 1)
    BY <1>1, Shortened
  <2> QED
    BY <1>1, <2>1
<1>3. n # Remote /\ n \in Edits /\ n \in Nat
  BY <1>1, <1>2 DEF Written, Edits
<1>4. PICK s \in Sessions :
        /\ s = [sessions[g] EXCEPT !.writes = w] /\ s.writes = w
        /\ s.client = sessions[g].client /\ s.doc = sessions[g].doc
        /\ s.controller = sessions[g].controller
        /\ s.held = sessions[g].held /\ s.inbound = sessions[g].inbound
  <2> DEFINE t == [sessions[g] EXCEPT !.writes = w]
  <2>1. /\ t \in Sessions /\ t.writes = w
        /\ t.client = sessions[g].client /\ t.doc = sessions[g].doc
        /\ t.controller = sessions[g].controller
        /\ t.held = sessions[g].held /\ t.inbound = sessions[g].inbound
    BY <1>1, WritesSet
  <2> QED
    BY <2>1
<1>5. PICK r \in Sessions :
        /\ r = IF n \in composed THEN SessionAfterRelease(s) ELSE s
        /\ r.writes = w /\ r.client = sessions[g].client /\ r.doc = sessions[g].doc
        /\ r.controller = sessions[g].controller
        /\ r.held => sessions[g].held
        /\ n \in composed => ~r.held
        /\ n \notin composed => r.held = sessions[g].held
        /\ sessions[g].inbound = "none" => r.inbound = "none"
  <2>1. PICK a \in Sessions :
          /\ a = SessionAfterRelease(s) /\ ~a.held
          /\ a.doc = s.doc /\ a.client = s.client
          /\ a.controller = s.controller /\ a.writes = s.writes
          /\ s.inbound # "held" => a.inbound = s.inbound
    <3> DEFINE a == SessionAfterRelease(s)
    <3>1. /\ a \in Sessions /\ ~a.held
          /\ a.doc = s.doc /\ a.client = s.client
          /\ a.controller = s.controller /\ a.writes = s.writes
          /\ s.inbound # "held" => a.inbound = s.inbound
      BY Released
    <3> QED
      BY <3>1
  <2>2. CASE n \in composed
    BY <1>4, <2>1, <2>2
  <2>3. CASE n \notin composed
    BY <1>4, <2>3
  <2> QED
    BY <2>2, <2>3
<1>6. sessions' = [sessions EXCEPT ![g] = r]
  BY <1>2, <1>4, <1>5 DEF Written
<1>7. /\ sessions' \in [Generations -> Sessions] /\ sessions'[g] = r
      /\ \A h \in Generations \ {g} : sessions'[h] = sessions[h]
  BY <1>6, Replaced DEF IInv
<1>8. /\ queue' \in Queues /\ queue'.pendingTarget = queue.pendingTarget
      /\ queue'.flush = IF n \in composed /\ g = current /\ queue.flush = "held"
                        THEN "ready" ELSE queue.flush
  BY <1>2 DEF Written, FlushAfterRelease, Resumed, IInv, TypeOK, Queues
<1>9. /\ leaving' \subseteq Leavings
      /\ \A u \in leaving' : \E t \in leaving :
           /\ u.session = t.session /\ u.by = t.by
           /\ u.step = IF n \in composed /\ t.session = g /\ t.step = "held"
                       THEN "ready" ELSE t.step
  <2>1. CASE n \notin composed
    BY <1>2, <2>1 DEF Written, IInv, TypeOK
  <2>2. CASE n \in composed
    <3>1. leaving' = LeavingAfterRelease(g)
      BY <1>2, <2>2 DEF Written
    <3>2. ASSUME NEW u \in leaving'
          PROVE  u \in Leavings /\ \E t \in leaving :
                   /\ u.session = t.session /\ u.by = t.by
                   /\ u.step = IF t.session = g /\ t.step = "held" THEN "ready" ELSE t.step
      <4>1. PICK t \in leaving :
              u = [t EXCEPT !.step = IF t.session = g THEN Resumed(@) ELSE @]
        BY <3>1 DEF LeavingAfterRelease
      <4>2. t \in Leavings
        BY DEF IInv, TypeOK
      <4> QED
        BY <4>1, <4>2 DEF Resumed, Leavings
    <3> QED
      BY <2>2, <3>2
  <2> QED
    BY <2>1, <2>2
<1>10. /\ view' \in Views /\ view'.invalidRoute = view.invalidRoute
       /\ view'.active = view.active /\ view'.switching = view.switching
       /\ \/ n = Len(typed) /\ g = generation /\ view'.text = sessions[g].doc
             /\ view'.saveState = saveState
          \/ view' = view
  BY <1>1, <1>2, SessionFields DEF Written, IInv, TypeOK, Views
<1>11. TypeOK'
  BY <1>7, <1>8, <1>9, <1>10 DEF IInv, TypeOK
<1>12. Numbering'
  BY <1>8 DEF IInv, Numbering
<1>13. FreshSessions'
  BY <1>2, <1>5, <1>7 DEF IInv, FreshSessions, Fresh, Blank
<1>14. /\ n \in 1..Len(typed) /\ typed[n] = sessions[g].doc /\ sessions[g].doc \in Documents
       /\ Len(typed) \in Nat
  <2>1. 1 \in DOMAIN q
    BY <1>2
  <2>2. Len(typed) \in Nat
    BY DEF IInv, TypeOK
  <2> QED
    BY <1>1, <1>2, <1>3, <2>1, <2>2, SessionFields DEF IInv, WritesInOrder, OrderedWrites,
       Edits
<1>15. CurrentSession'
  <2>1. current = g /\ n = Len(typed) => \A i \in DOMAIN w : w[i] = Remote
    <3>1. ASSUME NEW i \in DOMAIN w, w[i] # Remote, n = Len(typed)
          PROVE  FALSE
      <4>0. i \in Nat /\ i + 1 \in DOMAIN q /\ 1 \in DOMAIN q /\ 1 < i + 1 /\ w[i] = q[i + 1]
        BY <1>2
      <4>1. q[i + 1] # Remote /\ q[i + 1] \in Nat
        BY <3>1, <4>0, <1>1 DEF Edits, Remote
      <4>2. q[1] < q[i + 1] /\ q[i + 1] <= Len(typed)
        BY <4>0, <4>1, <1>2, <1>3 DEF IInv, WritesInOrder, OrderedWrites
      <4> QED
        BY <4>1, <4>2, <3>1, <1>2, <1>14
    <3> QED
      BY <3>1
  <2>2. current = g => (OnlyRemote(g) => OnlyRemote(g)')
    <3>1. ASSUME OnlyRemote(g), NEW i \in DOMAIN w
          PROVE  w[i] = Remote
      <4>1. i + 1 \in DOMAIN q /\ w[i] = q[i + 1]
        BY <1>2
      <4> QED
        BY <3>1, <4>1, <1>2 DEF OnlyRemote
    <3> QED
      BY <3>1, <1>5, <1>7 DEF OnlyRemote
  <2>3. current = g /\ n = Len(typed) => OnlyRemote(g)'
    BY <1>5, <1>7, <2>1 DEF OnlyRemote
  <2>4. current # 0 => current \in Generations
    BY Ranges DEF IInv
  <2>5. current # 0 /\ current # g => sessions'[current] = sessions[current]
    BY <1>7, <2>4
  <2>6. current # 0 => /\ sessions'[current].controller = sessions[current].controller
                       /\ sessions'[current].doc = sessions[current].doc
                       /\ sessions'[current].held => sessions[current].held
                       /\ current # g => sessions'[current].writes = sessions[current].writes
    BY <1>5, <1>7, <2>5
  <2>7. queue'.flush = "ready" /\ current # 0 => ~sessions'[current].held
    <3>1. CASE queue.flush = "ready"
      BY <3>1, <2>6 DEF IInv, CurrentSession
    <3>2. CASE queue.flush # "ready"
      BY <3>2, <1>5, <1>7, <1>8
    <3> QED
      BY <3>1, <3>2
  <2>8. current # 0 /\ view'.saveState = "saved" => OnlyRemote(current)'
    BY <1>10, <2>2, <2>3, <2>6 DEF IInv, CurrentSession, OnlyRemote
  <2>9. current # 0 /\ ~view'.invalidRoute =>
          view'.text = sessions'[current].doc /\ view'.active = sessions'[current].doc
    BY <1>10, <2>6 DEF IInv, CurrentSession
  <2> QED
    BY <2>6, <2>7, <2>8, <2>9 DEF IInv, CurrentSession
<1>16. Teardowns'
  <2>1. ASSUME NEW u \in leaving'
        PROVE  /\ sessions'[u.session].client # "none"
               /\ u.by = "switch" => u.step = "writes" /\ opening.step = "leaving"
               /\ u.step = "writes" => sessions'[u.session].client = "closed"
               /\ u.step = "held" => current = u.session /\ sessions'[current].held
               /\ u.step = "ready" /\ current # 0 => current = u.session /\ ~sessions'[current].held
               /\ u.step # "writes" /\ current # 0 =>
                    /\ collaborator = 0 /\ view.invalidRoute
                    /\ url = Nothing \/ queue'.flush \in {"held", "ready"}
    <3>1. PICK t \in leaving :
            /\ u.session = t.session /\ u.by = t.by
            /\ u.step = IF n \in composed /\ t.session = g /\ t.step = "held"
                        THEN "ready" ELSE t.step
      BY <1>9
    <3>2. t.step # "ready" /\ t.session \in Generations
      BY Ranges DEF Quiet, Ready, IInv
    <3>3. /\ sessions'[t.session].client = sessions[t.session].client
          /\ t.session # g => sessions'[t.session] = sessions[t.session]
          /\ t.session = g =>
               (n \notin composed => sessions'[t.session].held = sessions[t.session].held)
      BY <1>5, <1>7, <3>2
    <3>4. t \in Leavings
      BY DEF IInv, TypeOK
    <3>5. /\ sessions[t.session].client # "none"
          /\ t.by = "switch" => t.step = "writes" /\ opening.step = "leaving"
          /\ t.step = "writes" => sessions[t.session].client = "closed"
          /\ t.step = "held" => current = t.session /\ sessions[current].held
          /\ t.step # "writes" /\ current # 0 =>
               /\ collaborator = 0 /\ view.invalidRoute
               /\ url = Nothing \/ queue.flush \in {"held", "ready"}
      BY DEF IInv, Teardowns
    <3>6. CASE u.step = t.step
      BY <1>8, <3>1, <3>2, <3>3, <3>5, <3>6
    <3>7. CASE u.step # t.step
      <4>1. /\ n \in composed /\ t.session = g /\ t.step = "held" /\ u.step = "ready"
            /\ ~r.held /\ current = g
        BY <3>1, <3>5, <3>7, <1>5
      <4> QED
        BY <1>7, <1>8, <3>1, <3>3, <3>5, <4>1
    <3> QED
      BY <3>6, <3>7
  <2>2. \A t, u \in leaving' : t.by = "switch" /\ u.by = "switch" => t = u
    <3>1. ASSUME NEW u \in leaving', u.by = "switch"
          PROVE  u \in leaving
      <4>1. PICK t \in leaving :
              /\ u.session = t.session /\ u.by = t.by
              /\ u.step = IF n \in composed /\ t.session = g /\ t.step = "held"
                          THEN "ready" ELSE t.step
        BY <1>9
      <4>2. t.step = "writes"
        BY <3>1, <4>1 DEF IInv, Teardowns
      <4>3. t \in Leavings /\ u \in Leavings
        BY <1>9 DEF IInv, TypeOK
      <4>4. u = t
        BY <4>1, <4>2, <4>3 DEF Leavings
      <4> QED
        BY <4>4
    <3> QED
      BY <3>1 DEF IInv, Teardowns
  <2> QED
    BY <1>10, <2>1, <2>2 DEF Teardowns
<1>17. WritesInOrder'
  <2>1. ASSUME NEW h \in Generations
        PROVE  OrderedWrites(h)'
    <3>1. CASE h # g
      BY <3>1, <1>7 DEF IInv, WritesInOrder, OrderedWrites
    <3>2. CASE h = g
      <4>1. sessions'[h].writes = w /\ sessions'[h].doc = sessions[g].doc
        BY <3>2, <1>5, <1>7
      <4>2. \A i \in DOMAIN w : i \in Nat /\ i + 1 \in DOMAIN q /\ w[i] = q[i + 1]
        BY <1>2
      <4>3. /\ \A i \in DOMAIN q : q[i] # Remote =>
                  q[i] <= Len(typed) /\ typed[q[i]] = sessions[g].doc /\ sessions[g].doc # Nothing
            /\ \A i, j \in DOMAIN q :
                  i < j /\ q[i] # Remote /\ q[j] # Remote => q[i] < q[j]
        BY <1>2 DEF IInv, WritesInOrder, OrderedWrites
      <4>4. \A i \in DOMAIN w : w[i] # Remote =>
              w[i] <= Len(typed) /\ typed[w[i]] = sessions[g].doc /\ sessions[g].doc # Nothing
        BY <4>2, <4>3
      <4>5. ASSUME NEW i \in DOMAIN w, NEW j \in DOMAIN w, i < j, w[i] # Remote, w[j] # Remote
            PROVE  w[i] < w[j]
        <5>1. i + 1 < j + 1
          BY <4>2, <4>5
        <5> QED
          BY <4>2, <4>3, <4>5, <5>1
      <4> QED
        BY <3>2, <4>1, <4>4, <4>5 DEF OrderedWrites
    <3> QED
      BY <3>1, <3>2
  <2> QED
    BY <2>1 DEF WritesInOrder
<1>18. EditsStayInTheirDocument'
  <2>1. ASSUME NEW m \in 1..Len(typed)
        PROVE  \/ m \in failed'
               \/ typed[m] # Nothing /\ m \in durable'[typed[m]]
               \/ \E h \in Generations :
                    /\ sessions'[h].doc = typed[m]
                    /\ sessions'[h].controller \in {"open", "closing"}
                    /\ \E i \in DOMAIN sessions'[h].writes : sessions'[h].writes[i] = m
    <3>1. typed[m] \in Documents \cup {Nothing}
      BY DEF IInv, TypeOK
    <3>2. CASE m \in failed \/ (typed[m] # Nothing /\ m \in durable[typed[m]])
      BY <3>1, <3>2
    <3>3. CASE m = n
      <4>1. typed[m] = sessions[g].doc /\ sessions[g].doc \in Documents /\ typed[m] # Nothing
        BY <3>3, <1>14, WorkspaceAssumption
      <4>2. n \in failed' \/ n \in durable'[sessions[g].doc]
        BY <1>2, <4>1
      <4> QED
        BY <3>3, <4>1, <4>2
    <3>4. CASE m # n /\ \E h \in Generations :
                 /\ sessions[h].doc = typed[m]
                 /\ sessions[h].controller \in {"open", "closing"}
                 /\ \E i \in DOMAIN sessions[h].writes : sessions[h].writes[i] = m
      <4>1. PICK h \in Generations :
                 /\ sessions[h].doc = typed[m]
                 /\ sessions[h].controller \in {"open", "closing"}
                 /\ \E i \in DOMAIN sessions[h].writes : sessions[h].writes[i] = m
        BY <3>4
      <4>2. PICK i \in DOMAIN sessions[h].writes : sessions[h].writes[i] = m
        BY <4>1
      <4>3. CASE h # g
        BY <4>1, <4>2, <4>3, <1>7
      <4>4. CASE h = g
        <5>1. i \in 1..Len(q) /\ i # 1 /\ q[i] = m
          BY <3>4, <4>2, <4>4, <1>2
        <5>2. i - 1 \in DOMAIN w /\ w[i - 1] = m
          <6>1. i - 1 \in 1..(Len(q) - 1) /\ (i - 1) + 1 = i
            <7>1. Len(q) \in Nat /\ i \in Nat /\ 1 <= i /\ i <= Len(q) /\ i # 1
              BY <5>1, <1>2
            <7> QED
              BY <7>1
          <6>2. w[i - 1] = q[(i - 1) + 1]
            BY <6>1, <1>2
          <6> QED
            BY <5>1, <6>1, <6>2, <1>2
        <5> QED
          BY <4>1, <4>4, <5>2, <1>5, <1>7
      <4> QED
        BY <4>3, <4>4
    <3> QED
      BY <3>2, <3>3, <3>4 DEF IInv, EditsStayInTheirDocument
  <2> QED
    BY <2>1 DEF EditsStayInTheirDocument
<1>19. current = 0 /\ view' # view => unmounted \/ view.invalidRoute
  <2>2. ASSUME current = 0, view' # view
        PROVE  unmounted \/ view.invalidRoute
    <3>0. g = generation
      BY <2>2, <1>10
    <3>1. sessions[g].doc # Nothing => unmounted \/ view.invalidRoute
      BY <2>2, <3>0, Ranges DEF IInv, NoSessionShown
    <3>2. sessions[g].doc # Nothing
      BY <1>14, WorkspaceAssumption
    <3> QED
      BY <3>1, <3>2
  <2> QED
    BY <2>2
<1>20. NoSessionShown'
  <2>1. /\ generation # 0 => generation \in Generations
        /\ \A h \in Generations : sessions'[h].doc = sessions[h].doc
    BY Ranges, <1>5, <1>7 DEF IInv
  <2> QED
    BY <1>10, <1>19, <2>1, Ranges DEF IInv, NoSessionShown, EditorEnabled
<1>21. Address'
  <2>1. current # 0 => current \in Generations /\ sessions'[current].doc = sessions[current].doc
    BY Ranges, <1>5, <1>7 DEF IInv
  <2>2. CASE view' = view
    BY <1>8, <2>1, <2>2 DEF IInv, Address
  <2>3. CASE current # 0
    BY <1>8, <1>10, <2>1, <2>3 DEF IInv, Address
  <2>4. CASE current = 0 /\ (unmounted \/ view.invalidRoute)
    BY <1>8, <1>10, <2>1, <2>4 DEF IInv, Address
  <2> QED
    BY <1>19, <2>2, <2>3, <2>4
<1>22. OneConnectedSession' /\ OfflineModeHolds'
  BY <1>5, <1>7, Ranges DEF IInv, OneConnectedSession, Live, OfflineModeHolds
<1>23. CollaboratorFollowsSession' /\ Bounded'
  BY DEF IInv, CollaboratorFollowsSession, Bounded
<1> QED
  BY <1>11, <1>12, <1>13, <1>15, <1>16, <1>17, <1>18, <1>20, <1>21, <1>22, <1>23 DEF IInv


\* A write succeeds.
LEMMA PersistKeeps ==
  ASSUME IInv, NEW g \in Generations, Persist(g)
  PROVE  IInv'
<1>1. /\ sessions[g] \in Sessions /\ sessions[g].writes # <<>>
      /\ Head(sessions[g].writes) \in {Remote} \cup Edits
      /\ Head(sessions[g].writes) # Remote
  BY Ranges, WriteQueue DEF Persist, Written, IInv
<1>2. /\ durable' \in [Documents -> SUBSET Edits]
      /\ \A d \in Documents : durable[d] \subseteq durable'[d]
      /\ sessions[g].doc \in Documents => Head(sessions[g].writes) \in durable'[sessions[g].doc]
  <2> DEFINE n == Head(sessions[g].writes)
             d == sessions[g].doc
  <2>1. /\ durable' = [durable EXCEPT ![d] = @ \cup {n}] /\ n \in Edits
        /\ durable \in [Documents -> SUBSET Edits]
    BY <1>1 DEF Persist, IInv, TypeOK
  <2> HIDE DEF n, d
  <2>2. /\ durable' \in [Documents -> SUBSET Edits]
        /\ \A e \in Documents : durable[e] \subseteq durable'[e]
        /\ d \in Documents => n \in durable'[d]
    BY <2>1
  <2> QED
    BY <2>2 DEF n, d
<1>3. /\ used' \in [{"requests", "batches", "failures"} -> Nat]
      /\ used'.requests = used.requests
      /\ failed' \subseteq Edits /\ failed \subseteq failed'
  BY DEF Persist, IInv, TypeOK
<1>4. /\ Quiet /\ Written(g, "saved")
      /\ UNCHANGED <<url, booted, unmounted, generation, current, opening, composing, typed,
                     composed, offlineMode, collaborator>>
  BY DEF Persist
<1> QED
  BY <1>1, <1>2, <1>3, <1>4, WrittenKeeps

\* A write fails.
LEMMA PersistFailsKeeps ==
  ASSUME IInv, NEW g \in Generations, PersistFails(g)
  PROVE  IInv'
<1>1. /\ sessions[g] \in Sessions /\ sessions[g].writes # <<>>
      /\ Head(sessions[g].writes) \in {Remote} \cup Edits
      /\ Head(sessions[g].writes) # Remote
  BY Ranges, WriteQueue DEF PersistFails, Written, IInv
<1>2. /\ used' \in [{"requests", "batches", "failures"} -> Nat]
      /\ used'.requests = used.requests
  BY DEF PersistFails, Use, IInv, TypeOK
<1>3. /\ failed' \subseteq Edits /\ failed \subseteq failed'
      /\ Head(sessions[g].writes) \in failed'
  BY <1>1 DEF PersistFails, IInv, TypeOK
<1>4. /\ durable' \in [Documents -> SUBSET Edits]
      /\ \A d \in Documents : durable[d] \subseteq durable'[d]
  BY DEF PersistFails, IInv, TypeOK
<1>5. /\ Quiet /\ Written(g, "error")
      /\ UNCHANGED <<url, booted, unmounted, generation, current, opening, composing, typed,
                     composed, offlineMode, collaborator>>
  BY DEF PersistFails
<1> QED
  BY <1>1, <1>2, <1>3, <1>4, <1>5, WrittenKeeps

\* A session changes in its controller or in the state of its batch, and
\* nothing else happens.
LEMMA SessionKeeps ==
  ASSUME IInv, NEW g \in Generations, NEW s \in Sessions,
         sessions' = [sessions EXCEPT ![g] = s],
         s.doc = sessions[g].doc, s.client = sessions[g].client, s.held = sessions[g].held,
         s.writes = sessions[g].writes,
         s.controller = sessions[g].controller
           \/ (sessions[g].controller = "closing" /\ s.writes = <<>>),
         sessions[g].inbound = "none" => s.inbound = "none" \/ g = current,
         used' \in [{"requests", "batches", "failures"} -> Nat],
         used'.requests = used.requests,
         UNCHANGED <<url, booted, unmounted, queue, generation, current, opening, leaving,
                     view, composing, typed, composed, durable, failed, offlineMode,
                     collaborator>>
  PROVE  IInv'
<1>1. /\ sessions' \in [Generations -> Sessions] /\ sessions'[g] = s
      /\ \A h \in Generations \ {g} : sessions'[h] = sessions[h]
  BY Replaced DEF IInv
<1>2. \A h \in Generations :
        /\ sessions'[h].client = sessions[h].client /\ sessions'[h].doc = sessions[h].doc
        /\ sessions'[h].held = sessions[h].held /\ sessions'[h].writes = sessions[h].writes
        /\ sessions'[h].controller = sessions[h].controller
             \/ (sessions[h].controller = "closing" /\ sessions[h].writes = <<>>)
        /\ sessions[h].inbound = "none" => sessions'[h].inbound = "none" \/ h = current
  <2>1. ASSUME NEW h \in Generations, h # g
        PROVE  sessions'[h] = sessions[h]
    BY <1>1, <2>1
  <2>2. /\ sessions'[g].client = sessions[g].client /\ sessions'[g].doc = sessions[g].doc
        /\ sessions'[g].held = sessions[g].held /\ sessions'[g].writes = sessions[g].writes
    BY <1>1
  <2>3. /\ sessions'[g].controller = sessions[g].controller
             \/ (sessions[g].controller = "closing" /\ sessions[g].writes = <<>>)
        /\ sessions[g].inbound = "none" => sessions'[g].inbound = "none" \/ g = current
    BY <1>1
  <2>4. ASSUME NEW h \in Generations
        PROVE  /\ sessions'[h].client = sessions[h].client /\ sessions'[h].doc = sessions[h].doc
               /\ sessions'[h].held = sessions[h].held /\ sessions'[h].writes = sessions[h].writes
               /\ sessions'[h].controller = sessions[h].controller
                    \/ (sessions[h].controller = "closing" /\ sessions[h].writes = <<>>)
               /\ sessions[h].inbound = "none" =>
                    sessions'[h].inbound = "none" \/ h = current
    <3>1. CASE h = g
      BY <2>2, <2>3, <3>1
    <3>2. CASE h # g
      <4>1. sessions'[h] = sessions[h]
        BY <2>1, <3>2
      <4> QED
        BY <4>1
    <3> QED
      BY <3>1, <3>2
  <2> QED
    BY <2>4
<1>3. TypeOK'
  BY <1>1 DEF IInv, TypeOK
<1>4. FreshSessions'
  BY <1>2, Ranges DEF IInv, FreshSessions, Fresh, Blank, CurrentSession
<1>5. CurrentSession'
  BY <1>2, Ranges DEF IInv, CurrentSession, OnlyRemote
<1>6. Teardowns'
  BY <1>2, Ranges DEF IInv, Teardowns
<1>7. NoSessionShown' /\ Address'
  BY <1>2, Ranges DEF IInv, NoSessionShown, EditorEnabled, Address
<1>8. WritesInOrder' /\ EditsStayInTheirDocument'
  BY <1>2, <1>3, EditsFrame DEF IInv
<1>9. OneConnectedSession' /\ OfflineModeHolds'
  BY <1>2, Ranges DEF IInv, OneConnectedSession, Live, OfflineModeHolds
<1>10. Numbering' /\ CollaboratorFollowsSession' /\ Bounded'
  BY DEF IInv, Numbering, CollaboratorFollowsSession, Bounded
<1> QED
  BY <1>3, <1>4, <1>5, <1>6, <1>7, <1>8, <1>9, <1>10 DEF IInv

\* A closing controller has written all.
LEMMA FinalizeCloseKeeps ==
  ASSUME IInv, NEW g \in Generations, FinalizeClose(g)
  PROVE  IInv'
<1> DEFINE s == [sessions[g] EXCEPT !.controller = "closed"]
<1>1. sessions[g] \in Sessions
  BY Ranges DEF IInv
<1>2. /\ s \in Sessions /\ s.doc = sessions[g].doc /\ s.client = sessions[g].client
      /\ s.held = sessions[g].held /\ s.writes = sessions[g].writes
      /\ s.inbound = sessions[g].inbound
  BY <1>1, ControllerSet
<1>3. /\ sessions' = [sessions EXCEPT ![g] = s]
      /\ sessions[g].controller = "closing" /\ sessions[g].writes = <<>>
  BY DEF FinalizeClose
<1>4. /\ used' \in [{"requests", "batches", "failures"} -> Nat] /\ used'.requests = used.requests
  BY DEF FinalizeClose, IInv, TypeOK
<1>5. UNCHANGED <<url, booted, unmounted, queue, generation, current, opening, leaving,
                  view, composing, typed, composed, durable, failed, offlineMode,
                  collaborator>>
  BY DEF FinalizeClose
<1> HIDE DEF s
<1> QED
  BY <1>2, <1>3, <1>4, <1>5, SessionKeeps

\* A batch arrives.
LEMMA BatchArrivesKeeps ==
  ASSUME IInv, NEW g \in Generations, BatchArrives(g)
  PROVE  IInv'
<1>0. sessions[g] \in Sessions
  BY Ranges DEF IInv
<1>1. g = current
  BY Ranges DEF IInv, BatchArrives, IsCurrentSession
<1>2. PICK x \in {"none", "held", "ready", "waiting", "writing"} :
        x = IF sessions[g].held THEN "held" ELSE "waiting"
  OBVIOUS
<1> DEFINE s == [sessions[g] EXCEPT !.inbound = x]
<1>3. /\ s \in Sessions /\ s.doc = sessions[g].doc /\ s.client = sessions[g].client
      /\ s.held = sessions[g].held /\ s.writes = sessions[g].writes
      /\ s.controller = sessions[g].controller
  BY <1>0, InboundSet, ZenonT(30)
<1>4. sessions' = [sessions EXCEPT ![g] = s]
  BY <1>2 DEF BatchArrives, SetInbound
<1>5. /\ used' \in [{"requests", "batches", "failures"} -> Nat] /\ used'.requests = used.requests
  BY DEF BatchArrives, Use, IInv, TypeOK
<1>6. UNCHANGED <<url, booted, unmounted, queue, generation, current, opening, leaving,
                  view, composing, typed, composed, durable, failed, offlineMode,
                  collaborator>>
  BY DEF BatchArrives
<1>7. sessions[g].inbound = "none" => s.inbound = "none" \/ g = current
  BY <1>1
<1>8. \/ s.controller = sessions[g].controller
      \/ (sessions[g].controller = "closing" /\ s.writes = <<>>)
  BY <1>3
<1> HIDE DEF s
<1> QED
  BY <1>3, <1>4, <1>5, <1>6, <1>7, <1>8, SessionKeeps

\* A batch has passed the gate.
LEMMA BatchPassesGateKeeps ==
  ASSUME IInv, NEW g \in Generations, BatchPassesGate(g)
  PROVE  IInv'
<1>0. sessions[g] \in Sessions
  BY Ranges DEF IInv
<1>1. sessions[g].inbound = "ready"
  BY Ranges DEF IInv, BatchPassesGate
<1>2. PICK x \in {"none", "held", "ready", "waiting", "writing"} :
        x = IF IsCurrentSession(g) THEN "waiting" ELSE "none"
  OBVIOUS
<1> DEFINE s == [sessions[g] EXCEPT !.inbound = x]
<1>3. /\ s \in Sessions /\ s.doc = sessions[g].doc /\ s.client = sessions[g].client
      /\ s.held = sessions[g].held /\ s.writes = sessions[g].writes
      /\ s.controller = sessions[g].controller
  BY <1>0, InboundSet, ZenonT(30)
<1>4. sessions' = [sessions EXCEPT ![g] = s]
  BY <1>2 DEF BatchPassesGate, SetInbound
<1>5. /\ used' \in [{"requests", "batches", "failures"} -> Nat] /\ used'.requests = used.requests
  BY DEF BatchPassesGate, IInv, TypeOK
<1>6. UNCHANGED <<url, booted, unmounted, queue, generation, current, opening, leaving,
                  view, composing, typed, composed, durable, failed, offlineMode,
                  collaborator>>
  BY DEF BatchPassesGate
<1>7. sessions[g].inbound = "none" => s.inbound = "none" \/ g = current
  BY <1>1
<1>8. \/ s.controller = sessions[g].controller
      \/ (sessions[g].controller = "closing" /\ s.writes = <<>>)
  BY <1>3
<1> HIDE DEF s
<1> QED
  BY <1>3, <1>4, <1>5, <1>6, <1>7, <1>8, SessionKeeps

\* A batch is queued behind the writes, unless the session has gone.
LEMMA BatchIsQueuedKeeps ==
  ASSUME IInv, NEW g \in Generations, BatchIsQueued(g)
  PROVE  IInv'
<1>1. CASE ~IsCurrentSession(g)
  <2>0. sessions[g] \in Sessions
    BY Ranges DEF IInv
  <2>1. sessions[g].inbound = "waiting"
    BY DEF BatchIsQueued
  <2>2. PICK x \in {"none", "held", "ready", "waiting", "writing"} : x = "none"
    OBVIOUS
  <2> DEFINE s == [sessions[g] EXCEPT !.inbound = x]
  <2>3. /\ s \in Sessions /\ s.doc = sessions[g].doc /\ s.client = sessions[g].client
        /\ s.held = sessions[g].held /\ s.writes = sessions[g].writes
        /\ s.controller = sessions[g].controller
    BY <2>0, InboundSet, ZenonT(30)
  <2>4. sessions' = [sessions EXCEPT ![g] = s]
    BY <1>1, <2>2 DEF BatchIsQueued
  <2>5. used' \in [{"requests", "batches", "failures"} -> Nat] /\ used'.requests = used.requests
    BY DEF BatchIsQueued, IInv, TypeOK
  <2>6. UNCHANGED <<url, booted, unmounted, queue, generation, current, opening, leaving,
                    view, composing, typed, composed, durable, failed, offlineMode,
                    collaborator>>
    BY DEF BatchIsQueued
  <2>7. sessions[g].inbound = "none" => s.inbound = "none" \/ g = current
    BY <2>1
  <2>8. \/ s.controller = sessions[g].controller
        \/ (sessions[g].controller = "closing" /\ s.writes = <<>>)
    BY <2>3
  <2> HIDE DEF s
  <2> QED
    BY <2>3, <2>4, <2>5, <2>6, <2>7, <2>8, SessionKeeps
<1>2. CASE IsCurrentSession(g)
  <2>0. sessions[g] \in Sessions
    BY Ranges DEF IInv
  <2>1. /\ sessions[g].writes \in Seq({Remote} \cup Edits)
        /\ g = current /\ current # 0 /\ Remote \in {Remote} \cup Edits
    BY <1>2, <2>0, Ranges, SessionFields DEF IInv, IsCurrentSession
  <2>2. PICK w \in Seq({Remote} \cup Edits), l \in Nat :
          /\ w = Append(sessions[g].writes, Remote) /\ l = Len(sessions[g].writes)
          /\ DOMAIN sessions[g].writes = 1..l /\ DOMAIN w = 1..(l + 1) /\ w[l + 1] = Remote
          /\ \A i \in 1..l : w[i] = sessions[g].writes[i]
    <3> DEFINE q == sessions[g].writes
    <3>1. /\ Append(q, Remote) \in Seq({Remote} \cup Edits) /\ Append(q, Remote)[Len(q) + 1] = Remote
          /\ \A i \in 1..Len(q) : Append(q, Remote)[i] = q[i]
          /\ Len(q) \in Nat /\ DOMAIN q = 1..Len(q)
          /\ DOMAIN Append(q, Remote) = 1..(Len(q) + 1)
      BY <2>1, Appended
    <3> QED
      BY <3>1
  <2>3. PICK s \in Sessions :
          /\ s = [sessions[g] EXCEPT !.inbound = "writing", !.writes = w] /\ s.writes = w
          /\ s.client = sessions[g].client /\ s.doc = sessions[g].doc
          /\ s.controller = sessions[g].controller /\ s.held = sessions[g].held
    <3>1. PICK x \in {"none", "held", "ready", "waiting", "writing"} : x = "writing"
      OBVIOUS
    <3> DEFINE a == [sessions[g] EXCEPT !.inbound = x]
    <3>2. /\ a \in Sessions /\ a.doc = sessions[g].doc /\ a.client = sessions[g].client
          /\ a.held = sessions[g].held /\ a.controller = sessions[g].controller
      BY <2>0, InboundSet, ZenonT(30)
    <3> HIDE DEF a
    <3> DEFINE b == [a EXCEPT !.writes = w]
    <3>3. /\ b \in Sessions /\ b.writes = w /\ b.doc = a.doc /\ b.client = a.client
          /\ b.held = a.held /\ b.controller = a.controller
      BY <3>2, WritesSet
    <3>4. b = [sessions[g] EXCEPT !.inbound = "writing", !.writes = w]
      BY <3>1 DEF a
    <3> QED
      BY <3>2, <3>3, <3>4
  <2>4. sessions' = [sessions EXCEPT ![g] = s]
    <3>1. sessions' = [sessions EXCEPT ![g] =
                         [sessions[g] EXCEPT !.inbound = "writing",
                                             !.writes = Append(sessions[g].writes, Remote)]]
      BY <1>2 DEF BatchIsQueued
    <3> QED
      BY <2>2, <2>3, <3>1
  <2>5. /\ sessions' \in [Generations -> Sessions] /\ sessions'[g] = s
        /\ \A h \in Generations \ {g} : sessions'[h] = sessions[h]
    BY <2>4, Replaced DEF IInv
  <2>6. \A h \in Generations :
          /\ sessions'[h].client = sessions[h].client /\ sessions'[h].doc = sessions[h].doc
          /\ sessions'[h].controller = sessions[h].controller
          /\ sessions'[h].held = sessions[h].held
    BY <2>3, <2>5
  <2>7. TypeOK'
    BY <2>5 DEF BatchIsQueued, IInv, TypeOK
  <2>8. FreshSessions'
    BY <2>1, <2>5, Ranges DEF BatchIsQueued, IInv, FreshSessions, Fresh, CurrentSession
  <2>9. CurrentSession'
    <3>1. OnlyRemote(current) => OnlyRemote(current)'
      <4>1. ASSUME OnlyRemote(current), NEW i \in 1..(l + 1)
            PROVE  w[i] = Remote
        <5>1. CASE i = l + 1
          BY <5>1, <2>2
        <5>2. CASE i # l + 1
          <6>1. i \in 1..l
            BY <5>2
          <6>2. sessions[g].writes[i] = Remote /\ w[i] = sessions[g].writes[i]
            BY <4>1, <6>1, <2>1, <2>2 DEF OnlyRemote
          <6> QED
            BY <6>2
        <5> QED
          BY <5>1, <5>2
      <4>2. current' = g /\ sessions'[g].writes = w /\ DOMAIN w = 1..(l + 1)
        BY <2>1, <2>2, <2>3, <2>5 DEF BatchIsQueued
      <4> QED
        BY <4>1, <4>2, <2>1 DEF OnlyRemote
    <3> QED
      BY <2>1, <2>6, <3>1 DEF BatchIsQueued, IInv, CurrentSession
  <2>10. Teardowns'
    BY <2>6, Ranges DEF BatchIsQueued, IInv, Teardowns
  <2>11. NoSessionShown' /\ Address'
    BY <2>1, <2>6 DEF BatchIsQueued, IInv, NoSessionShown, Address
  <2>12. WritesInOrder'
    <3>2. typed' = typed
      BY DEF BatchIsQueued
    <3>1. ASSUME NEW h \in Generations
          PROVE  OrderedWrites(h)'
      <4>1. CASE h # g
        BY <4>1, <2>5, <3>2 DEF IInv, WritesInOrder, OrderedWrites
      <4>2. CASE h = g
        <5>1. sessions'[h].writes = w /\ sessions'[h].doc = sessions[g].doc
          BY <4>2, <2>3, <2>5
        <5>2. \A i \in DOMAIN w : w[i] # Remote =>
                i \in DOMAIN sessions[g].writes /\ w[i] = sessions[g].writes[i]
          BY <2>2
        <5>3. /\ \A i \in DOMAIN sessions[g].writes : sessions[g].writes[i] # Remote =>
                    /\ sessions[g].writes[i] <= Len(typed)
                    /\ typed[sessions[g].writes[i]] = sessions[g].doc
                    /\ sessions[g].doc # Nothing
              /\ \A i, j \in DOMAIN sessions[g].writes :
                    i < j /\ sessions[g].writes[i] # Remote /\ sessions[g].writes[j] # Remote =>
                      sessions[g].writes[i] < sessions[g].writes[j]
          BY DEF IInv, WritesInOrder, OrderedWrites
        <5>4. \A i \in DOMAIN w : w[i] # Remote =>
                w[i] <= Len(typed) /\ typed[w[i]] = sessions[g].doc /\ sessions[g].doc # Nothing
          BY <5>2, <5>3
        <5>5. \A i, j \in DOMAIN w : i < j /\ w[i] # Remote /\ w[j] # Remote => w[i] < w[j]
          BY <5>2, <5>3
        <5> QED
          BY <4>2, <5>1, <5>4, <5>5, <3>2 DEF OrderedWrites
      <4> QED
        BY <4>1, <4>2
    <3> QED
      BY <3>1 DEF WritesInOrder
  <2>13. EditsStayInTheirDocument'
    <3>1. ASSUME NEW h \in Generations, NEW i \in DOMAIN sessions[h].writes
          PROVE  i \in DOMAIN sessions'[h].writes /\ sessions'[h].writes[i] = sessions[h].writes[i]
      <4>1. CASE h # g
        BY <4>1, <2>5
      <4>2. CASE h = g
        BY <4>2, <2>2, <2>3, <2>5
      <4> QED
        BY <4>1, <4>2
    <3>3. UNCHANGED <<typed, failed, durable>>
      BY DEF BatchIsQueued
    <3>2. ASSUME NEW m \in 1..Len(typed), NEW h \in Generations,
                 \E i \in DOMAIN sessions[h].writes : sessions[h].writes[i] = m
          PROVE  \E i \in DOMAIN sessions'[h].writes : sessions'[h].writes[i] = m
      BY <3>1, <3>2
    <3> QED
      BY <2>6, <3>2, <3>3 DEF IInv, EditsStayInTheirDocument
  <2>14. OneConnectedSession' /\ OfflineModeHolds'
    BY <2>1, <2>6 DEF BatchIsQueued, IInv, OneConnectedSession, Live, OfflineModeHolds
  <2>15. Numbering' /\ CollaboratorFollowsSession' /\ Bounded'
    BY DEF BatchIsQueued, IInv, Numbering, CollaboratorFollowsSession, Bounded
  <2> QED
    BY <2>7, <2>8, <2>9, <2>10, <2>11, <2>12, <2>13, <2>14, <2>15 DEF IInv
<1> QED
  BY <1>1, <1>2

\* A batch is applied: its text is shown, and no edit leaves the queue.
LEMMA BatchIsAppliedKeeps ==
  ASSUME IInv, NEW g \in Generations, BatchIsApplied(g)
  PROVE  IInv'
<1>1. /\ sessions[g] \in Sessions /\ sessions[g].writes \in Seq({Remote} \cup Edits)
      /\ sessions[g].writes # <<>> /\ Head(sessions[g].writes) = Remote
  BY Ranges, SessionFields DEF IInv, BatchIsApplied
<1>2. PICK w \in Seq({Remote} \cup Edits), l \in Nat \ {0} :
        /\ w = Tail(sessions[g].writes) /\ l = Len(sessions[g].writes)
        /\ DOMAIN sessions[g].writes = 1..l /\ DOMAIN w = 1..(l - 1)
        /\ sessions[g].writes[1] = Remote
        /\ \A i \in 1..(l - 1) : w[i] = sessions[g].writes[i + 1]
  <2> DEFINE q == sessions[g].writes
  <2>1. /\ Tail(q) \in Seq({Remote} \cup Edits) /\ Head(q) = q[1]
        /\ \A i \in 1..(Len(q) - 1) : Tail(q)[i] = q[i + 1]
        /\ Len(q) \in Nat \ {0} /\ DOMAIN q = 1..Len(q)
        /\ DOMAIN Tail(q) = 1..(Len(q) - 1)
    BY <1>1, Shortened
  <2> QED
    BY <1>1, <2>1
<1>3. PICK s \in Sessions :
        /\ s = [sessions[g] EXCEPT !.inbound = "none", !.writes = w] /\ s.writes = w
        /\ s.client = sessions[g].client /\ s.doc = sessions[g].doc
        /\ s.controller = sessions[g].controller /\ s.held = sessions[g].held
  <2>1. PICK x \in {"none", "held", "ready", "waiting", "writing"} : x = "none"
    OBVIOUS
  <2> DEFINE a == [sessions[g] EXCEPT !.inbound = x]
  <2>2. /\ a \in Sessions /\ a.doc = sessions[g].doc /\ a.client = sessions[g].client
        /\ a.held = sessions[g].held /\ a.controller = sessions[g].controller
    BY <1>1, InboundSet, ZenonT(30)
  <2> HIDE DEF a
  <2> DEFINE b == [a EXCEPT !.writes = w]
  <2>3. /\ b \in Sessions /\ b.writes = w /\ b.doc = a.doc /\ b.client = a.client
        /\ b.held = a.held /\ b.controller = a.controller
    BY <2>2, WritesSet
  <2>4. b = [sessions[g] EXCEPT !.inbound = "none", !.writes = w]
    BY <2>1 DEF a
  <2> QED
    BY <2>2, <2>3, <2>4
<1>4. sessions' = [sessions EXCEPT ![g] = s]
  <2>1. sessions' = [sessions EXCEPT ![g] =
                       [sessions[g] EXCEPT !.inbound = "none", !.writes = Tail(sessions[g].writes)]]
    BY DEF BatchIsApplied
  <2> QED
    BY <1>2, <1>3, <2>1
<1>5. /\ sessions' \in [Generations -> Sessions] /\ sessions'[g] = s
      /\ \A h \in Generations \ {g} : sessions'[h] = sessions[h]
  BY <1>4, Replaced DEF IInv
<1>6. \A h \in Generations :
        /\ sessions'[h].client = sessions[h].client /\ sessions'[h].doc = sessions[h].doc
        /\ sessions'[h].controller = sessions[h].controller
        /\ sessions'[h].held = sessions[h].held
  BY <1>3, <1>5
<1>7. /\ view' \in Views /\ view'.invalidRoute = view.invalidRoute
      /\ view'.active = view.active /\ view'.switching = view.switching
      /\ view'.saveState = view.saveState
      /\ view'.text = IF g = generation /\ ~unmounted THEN sessions[g].doc ELSE view.text
  <2>1. sessions[g].doc \in Documents \cup {Nothing} /\ view \in Views
    BY <1>1, SessionFields DEF IInv, TypeOK
  <2> QED
    BY <2>1 DEF BatchIsApplied, Views
<1>8. TypeOK'
  BY <1>5, <1>7 DEF BatchIsApplied, IInv, TypeOK
<1>9. FreshSessions'
  BY <1>1, <1>5 DEF BatchIsApplied, IInv, FreshSessions, Fresh, Blank
<1>10. CurrentSession'
  <2>1. ASSUME current # 0, OnlyRemote(current)
        PROVE  OnlyRemote(current)'
    <3>0. current \in Generations
      BY <2>1, Ranges DEF IInv
    <3>1. CASE current # g
      BY <2>1, <3>0, <3>1, <1>5 DEF OnlyRemote, BatchIsApplied
    <3>2. CASE current = g
      <4>1. \A i \in DOMAIN w :
              i + 1 \in DOMAIN sessions[g].writes /\ w[i] = sessions[g].writes[i + 1]
        BY <1>2
      <4>2. \A i \in DOMAIN w : w[i] = Remote
        BY <2>1, <3>2, <4>1 DEF OnlyRemote
      <4>3. current' = g /\ sessions'[g].writes = w
        BY <3>2, <1>3, <1>5 DEF BatchIsApplied
      <4> QED
        BY <4>2, <4>3, <3>2 DEF OnlyRemote
    <3> QED
      BY <3>1, <3>2
  <2>2. current # 0 => current \in Generations
    BY Ranges DEF IInv
  <2> QED
    BY <1>6, <1>7, <2>1, <2>2 DEF BatchIsApplied, IInv, CurrentSession
<1>11. Teardowns'
  BY <1>6, <1>7, Ranges DEF BatchIsApplied, IInv, Teardowns
<1>12. NoSessionShown'
  BY <1>6, <1>7, Ranges DEF BatchIsApplied, IInv, NoSessionShown, EditorEnabled
<1>13. Address'
  BY <1>6, <1>7, Ranges DEF BatchIsApplied, IInv, Address
<1>14. WritesInOrder'
  <2>1. ASSUME NEW h \in Generations
        PROVE  OrderedWrites(h)'
    <3>1. CASE h # g
      BY <3>1, <1>5 DEF BatchIsApplied, IInv, WritesInOrder, OrderedWrites
    <3>2. CASE h = g
      <4> DEFINE q == sessions[g].writes
      <4>1. sessions'[h].writes = w /\ sessions'[h].doc = sessions[g].doc
        BY <3>2, <1>3, <1>5
      <4>2. \A i \in DOMAIN w : i \in Nat /\ i + 1 \in DOMAIN q /\ w[i] = q[i + 1]
        BY <1>2
      <4>3. /\ \A i \in DOMAIN q : q[i] # Remote =>
                  q[i] <= Len(typed) /\ typed[q[i]] = sessions[g].doc /\ sessions[g].doc # Nothing
            /\ \A i, j \in DOMAIN q : i < j /\ q[i] # Remote /\ q[j] # Remote => q[i] < q[j]
        BY DEF IInv, WritesInOrder, OrderedWrites
      <4> HIDE DEF q
      <4>4. \A i \in DOMAIN w : w[i] # Remote =>
              w[i] <= Len(typed) /\ typed[w[i]] = sessions[g].doc /\ sessions[g].doc # Nothing
        BY <4>2, <4>3
      <4>5. ASSUME NEW i \in DOMAIN w, NEW j \in DOMAIN w, i < j, w[i] # Remote, w[j] # Remote
            PROVE  w[i] < w[j]
        <5>1. i + 1 < j + 1
          BY <4>2, <4>5
        <5> QED
          BY <4>2, <4>3, <4>5, <5>1
      <4> QED
        BY <3>2, <4>1, <4>4, <4>5 DEF BatchIsApplied, OrderedWrites
    <3> QED
      BY <3>1, <3>2
  <2> QED
    BY <2>1 DEF WritesInOrder
<1>15. EditsStayInTheirDocument'
  <2>1. ASSUME NEW m \in 1..Len(typed), NEW h \in Generations, NEW i \in DOMAIN sessions[h].writes,
               sessions[h].writes[i] = m
        PROVE  \E j \in DOMAIN sessions'[h].writes : sessions'[h].writes[j] = m
    <3>1. CASE h # g
      BY <2>1, <3>1, <1>5
    <3>2. CASE h = g
      <4>1. m # Remote
        BY DEF Remote
      <4>2. i \in Nat /\ l \in Nat /\ 1 <= i /\ i <= l /\ i # 1
        BY <2>1, <3>2, <4>1, <1>2
      <4>3. i - 1 \in 1..(l - 1) /\ (i - 1) + 1 = i
        BY <4>2
      <4>4. i - 1 \in DOMAIN w /\ w[i - 1] = m
        BY <2>1, <3>2, <4>3, <1>2
      <4> QED
        BY <3>2, <4>4, <1>3, <1>5
    <3> QED
      BY <3>1, <3>2
  <2> QED
    BY <1>6, <2>1 DEF BatchIsApplied, IInv, EditsStayInTheirDocument
<1>16. OneConnectedSession' /\ OfflineModeHolds'
  BY <1>6, Ranges DEF BatchIsApplied, IInv, OneConnectedSession, Live, OfflineModeHolds
<1>17. Numbering' /\ CollaboratorFollowsSession' /\ Bounded'
  BY DEF BatchIsApplied, IInv, Numbering, CollaboratorFollowsSession, Bounded
<1> QED
  BY <1>8, <1>9, <1>10, <1>11, <1>12, <1>13, <1>14, <1>15, <1>16, <1>17 DEF IInv

-------------------------------------------------------------------------------
(* The network switch and the collaborator.                                *)

\* The client of the session, if there is one, follows the network switch.
LEMMA NetworkKeeps ==
  ASSUME IInv, ~unmounted, NEW x \in {"connected", "suspended"}, SetClient(x),
         offlineMode' \in BOOLEAN,
         x = IF offlineMode' THEN "suspended" ELSE "connected",
         collaborator' = 0 \/ (collaborator' = collaborator /\ ~offlineMode'),
         UNCHANGED <<url, booted, unmounted, queue, generation, current, opening, leaving,
                     view, composing, typed, composed, durable, failed, used>>
  PROVE  IInv'
<1>1. collaborator' \in Nat /\ CollaboratorFollowsSession'
  BY DEF IInv, TypeOK, CollaboratorFollowsSession
<1>2. \A t \in leaving : current # 0 /\ t.step = "writes" => t.session # current
  BY DEF IInv, Teardowns, OfflineModeHolds
<1>3. CASE current = 0
  BY <1>1, <1>3 DEF SetClient, IInv, TypeOK, Numbering, FreshSessions, Fresh,
     CurrentSession,
     Teardowns, NoSessionShown, EditorEnabled, WritesInOrder, OrderedWrites, Address, Bounded,
     OneConnectedSession, Live, OfflineModeHolds, EditsStayInTheirDocument
<1>4. CASE current # 0
  <2>0. current \in Generations
    BY <1>4, Ranges DEF IInv
  <2>1. sessions[current] \in Sessions
    BY <2>0, Ranges DEF IInv
  <2>2. PICK s \in Sessions :
          /\ s = [sessions[current] EXCEPT !.client = x] /\ s.client = x
          /\ s.doc = sessions[current].doc /\ s.controller = sessions[current].controller
          /\ s.held = sessions[current].held
          /\ s.writes = sessions[current].writes /\ s.inbound = sessions[current].inbound
    <3> DEFINE a == [sessions[current] EXCEPT !.client = x]
    <3>1. PICK y \in {"connected", "suspended", "closed"} : y = x
      OBVIOUS
    <3> DEFINE b == [sessions[current] EXCEPT !.client = y]
    <3>3. /\ b \in Sessions /\ b.client = y
          /\ b.doc = sessions[current].doc /\ b.controller = sessions[current].controller
          /\ b.held = sessions[current].held
          /\ b.writes = sessions[current].writes /\ b.inbound = sessions[current].inbound
      BY <2>1, ClientSet
    <3>2. /\ a \in Sessions /\ a.client = x
          /\ a.doc = sessions[current].doc /\ a.controller = sessions[current].controller
          /\ a.held = sessions[current].held
          /\ a.writes = sessions[current].writes /\ a.inbound = sessions[current].inbound
      BY <3>1, <3>3
    <3> QED
      BY <3>2
  <2>3. sessions' = [sessions EXCEPT ![current] = s]
    BY <1>4, <2>2 DEF SetClient
  <2>4. /\ sessions' \in [Generations -> Sessions] /\ sessions'[current] = s
        /\ \A h \in Generations \ {current} : sessions'[h] = sessions[h]
    BY <2>0, <2>3, Replaced DEF IInv
  <2>5. \A h \in Generations :
          /\ sessions'[h].doc = sessions[h].doc
          /\ sessions'[h].controller = sessions[h].controller
          /\ sessions'[h].held = sessions[h].held
          /\ sessions'[h].writes = sessions[h].writes
          /\ sessions'[h].inbound = sessions[h].inbound
          /\ h # current => sessions'[h].client = sessions[h].client
    BY <2>2, <2>4
  <2>6. TypeOK'
    BY <1>1, <2>4 DEF IInv, TypeOK
  <2>7. FreshSessions'
    BY <1>4, <2>5, Ranges DEF IInv, FreshSessions, Fresh, Blank, CurrentSession
  <2>8. CurrentSession'
    BY <2>0, <2>5 DEF IInv, CurrentSession, OnlyRemote
  <2>9. Teardowns'
    <3>1. sessions'[current].client # "none" /\ sessions'[current].held = sessions[current].held
      BY <2>2, <2>4
    <3> QED
      BY <1>1, <1>2, <1>4, <2>5, <3>1, Ranges DEF IInv, Teardowns
  <2>10. NoSessionShown' /\ Address'
    BY <1>4, <2>0, <2>5 DEF IInv, NoSessionShown, Address
  <2>11. WritesInOrder' /\ EditsStayInTheirDocument'
    BY <2>5, <2>6, EditsFrame DEF IInv
  <2>12. OneConnectedSession' /\ OfflineModeHolds'
    BY <2>2, <2>4 DEF IInv, OneConnectedSession, Live, OfflineModeHolds
  <2>13. Numbering' /\ Bounded'
    BY DEF IInv, Numbering, Bounded
  <2> QED
    BY <1>1, <2>6, <2>7, <2>8, <2>9, <2>10, <2>11, <2>12, <2>13 DEF IInv
<1> QED
  BY <1>3, <1>4

\* The user goes offline.
LEMMA GoOfflineKeeps ==
  ASSUME IInv, GoOffline
  PROVE  IInv'
<1>1. PICK x \in {"connected", "suspended"} : x = "suspended"
  OBVIOUS
<1>2. /\ ~unmounted /\ SetClient(x) /\ offlineMode' \in BOOLEAN
      /\ x = IF offlineMode' THEN "suspended" ELSE "connected"
  BY <1>1 DEF GoOffline
<1>3. /\ collaborator' = 0 \/ (collaborator' = collaborator /\ ~offlineMode')
      /\ UNCHANGED <<url, booted, unmounted, queue, generation, current, opening, leaving,
                     view, composing, typed, composed, durable, failed, used>>
  BY DEF GoOffline
<1> QED
  BY <1>2, <1>3, NetworkKeeps

\* The user reconnects.
LEMMA ReconnectNowKeeps ==
  ASSUME IInv, ReconnectNow
  PROVE  IInv'
<1>1. PICK x \in {"connected", "suspended"} : x = "connected"
  OBVIOUS
<1>2. /\ ~unmounted /\ SetClient(x) /\ offlineMode' \in BOOLEAN
      /\ x = IF offlineMode' THEN "suspended" ELSE "connected"
  BY <1>1 DEF ReconnectNow
<1>3. /\ collaborator' = 0 \/ (collaborator' = collaborator /\ ~offlineMode')
      /\ UNCHANGED <<url, booted, unmounted, queue, generation, current, opening, leaving,
                     view, composing, typed, composed, durable, failed, used>>
  BY DEF ReconnectNow
<1> QED
  BY <1>2, <1>3, NetworkKeeps

\* The demo collaborator is added to the session, or fails.
LEMMA CollaboratorKeeps ==
  ASSUME IInv, AddDemoCollaborator \/ CollaboratorFails
  PROVE  IInv'
<1>1. /\ UNCHANGED <<url, booted, unmounted, queue, generation, sessions, current, opening,
                     leaving, view, composing, typed, composed, durable, failed,
                     offlineMode, used>>
      /\ \/ collaborator' = 0
         \/ ~view.invalidRoute /\ collaborator' = current /\ ~offlineMode
      /\ collaborator' \in Nat
  BY DEF AddDemoCollaborator, CollaboratorFails, IInv, TypeOK
<1>2. TypeOK'
  BY <1>1 DEF IInv, TypeOK
<1>3. CollaboratorFollowsSession'
  BY <1>1 DEF CollaboratorFollowsSession
<1>4. Teardowns'
  BY <1>1 DEF IInv, Teardowns
<1>5. /\ Numbering' /\ FreshSessions' /\ CurrentSession' /\ NoSessionShown'
      /\ WritesInOrder' /\ Address' /\ Bounded' /\ OneConnectedSession'
      /\ OfflineModeHolds' /\ EditsStayInTheirDocument'
  BY <1>1 DEF IInv, Numbering, FreshSessions, Fresh, CurrentSession, OnlyRemote,
     NoSessionShown,
     EditorEnabled, WritesInOrder, OrderedWrites, Address, Bounded, OneConnectedSession, Live,
     OfflineModeHolds, EditsStayInTheirDocument
<1> QED
  BY <1>2, <1>3, <1>4, <1>5 DEF IInv

-------------------------------------------------------------------------------
(* The theorems.                                                           *)

\* Every step keeps the invariant.
LEMMA NextInvariant == IInv /\ [Next]_vars => IInv'
<1> SUFFICES ASSUME IInv, [Next]_vars
             PROVE  IInv'
  OBVIOUS
<1>1. CASE UNCHANGED vars
  <2>1. TypeOK' /\ Numbering' /\ FreshSessions' /\ CurrentSession' /\ Bounded'
    BY <1>1 DEF vars, IInv, TypeOK, Numbering, FreshSessions, Fresh, CurrentSession,
       OnlyRemote, Bounded
  <2>2. Teardowns' /\ NoSessionShown' /\ Address'
    BY <1>1 DEF vars, IInv, Teardowns, NoSessionShown, EditorEnabled, Address
  <2>3. WritesInOrder' /\ EditsStayInTheirDocument'
    BY <1>1 DEF vars, IInv, WritesInOrder, OrderedWrites, EditsStayInTheirDocument
  <2>4. OneConnectedSession' /\ OfflineModeHolds' /\ CollaboratorFollowsSession'
    BY <1>1 DEF vars, IInv, OneConnectedSession, Live, OfflineModeHolds,
       CollaboratorFollowsSession
  <2> QED
    BY <2>1, <2>2, <2>3, <2>4 DEF IInv
<1>2. ASSUME NEW document \in Documents, Navigate(document) \/ Arrive(document)
      PROVE  IInv'
  <2>1. /\ Quiet /\ url' = document /\ booted' \in BOOLEAN /\ RequestSession(document)
        /\ UNCHANGED <<unmounted, generation, sessions, current, opening, leaving, composing,
                       typed, composed, durable, failed, offlineMode, collaborator>>
    BY <1>2 DEF Navigate, Arrive, IInv, TypeOK
  <2> QED
    BY <2>1, RequestKeeps
<1>3. ASSUME NEW t \in leaving, Detach(t) \/ Leave(t)
      PROVE  IInv'
  BY <1>3, DetachKeeps, LeaveKeeps
<1>4. ASSUME NEW g \in Generations, Persist(g) \/ FinalizeClose(g) \/ PersistFails(g)
      PROVE  IInv'
  BY <1>4, PersistKeeps, FinalizeCloseKeeps, PersistFailsKeeps
<1>5. ASSUME NEW g \in Generations,
             \/ BatchArrives(g) \/ BatchPassesGate(g)
             \/ BatchIsQueued(g) \/ BatchIsApplied(g)
      PROVE  IInv'
  BY <1>5, BatchArrivesKeeps, BatchPassesGateKeeps, BatchIsQueuedKeeps, BatchIsAppliedKeeps
<1>6. ASSUME Boot \/ Switch \/ EndSwitch \/ Create \/ CreateFails
      PROVE  IInv'
  BY <1>6, BootKeeps, SwitchKeeps, EndSwitchKeeps, CreateKeeps, CreateFailsKeeps
<1>7. ASSUME PopInvalid \/ Unmount
      PROVE  IInv'
  BY <1>7, PopInvalidKeeps, UnmountKeeps
<1>8. ASSUME TypeText \/ CompositionStart \/ CompositionEnd
      PROVE  IInv'
  BY <1>8, TypeTextKeeps, CompositionStartKeeps, CompositionEndKeeps
<1>9. ASSUME GoOffline \/ ReconnectNow \/ AddDemoCollaborator \/ CollaboratorFails
      PROVE  IInv'
  BY <1>9, GoOfflineKeeps, ReconnectNowKeeps, CollaboratorKeeps
<1> QED
  BY <1>1, <1>2, <1>3, <1>4, <1>5, <1>6, <1>7, <1>8, <1>9 DEF Next, Program, Environment

\* The invariant holds in every behaviour of the workspace.
THEOREM Invariant == Spec => []IInv
<1>1. Init => IInv
  BY InitInvariant
<1> QED
  BY <1>1, NextInvariant, PTL DEF Spec

\* Every variable holds values of its kind.
THEOREM TypeCorrect == Spec => []TypeOK
<1>1. IInv => TypeOK
  BY DEF IInv
<1> QED
  BY <1>1, Invariant, PTL

\* "Only one document session is connected at a time": openSession and
\* teardownSession leave no client connected but that of sessionRef.
THEOREM AtMostOneConnected == Spec => []OneConnectedSession
<1>1. IInv => OneConnectedSession
  BY DEF IInv
<1> QED
  BY <1>1, Invariant, PTL

\* Navigation puts no edit into another document and loses none: it is in its
\* store, or queued before a database that is still open, or has failed.
THEOREM EditsAreNotMisplaced == Spec => []EditsStayInTheirDocument
<1>1. IInv => EditsStayInTheirDocument
  BY DEF IInv
<1> QED
  BY <1>1, Invariant, PTL

\* The editor that accepts input shows the document that input goes to, and
\* "saved" only when no edit waits, or it stands under an error message.
THEOREM EditorIsTruthful == Spec => []EditorShowsItsDocument
<1>1. IInv => EditorShowsItsDocument
  BY DEF IInv, EditorShowsItsDocument, EditorEnabled, CurrentSession, NoSessionShown,
     OnlyRemote
<1> QED
  BY <1>1, Invariant, PTL

\* When the SessionTransitionQueue is idle, the document of the address is open,
\* or an error is shown.
THEOREM LatestTargetWins == Spec => []LatestTargetOpens
<1>1. IInv => LatestTargetOpens
  BY DEF IInv, TypeOK, Openings, LatestTargetOpens, Settled, Address, Numbering
<1> QED
  BY <1>1, Invariant, PTL

\* The client of the session follows offlineModeRef, whenever it was created.
THEOREM OfflineIsKept == Spec => []OfflineModeHolds
<1>1. IInv => OfflineModeHolds
  BY DEF IInv
<1> QED
  BY <1>1, Invariant, PTL

\* The demo collaborator is in the document of the session, and not offline.
THEOREM CollaboratorIsConfined == Spec => []CollaboratorFollowsSession
<1>1. IInv => CollaboratorFollowsSession
  BY DEF IInv
<1> QED
  BY <1>1, Invariant, PTL

-------------------------------------------------------------------------------
(* A composition keeps its session.                                        *)

\* What the assumption on the orders excludes.
LEMMA DocumentedOrders ==
  ASSUME OrdersAsDocumented
  PROVE  /\ InvalidLinkMayCome => composing = 0
         /\ CompositionMayStart => ~sessions[current].held
  BY Zenon DEF OrdersAsDocumented, InvalidLinkMayCome, CompositionMayStart

\* What leaves the compositions and the gate of the session alone.
LEMMA GatesFrame ==
  ASSUME Gates, UNCHANGED <<typed, composed, composing, unmounted, current>>,
         current # 0 =>
           /\ sessions'[current].held = sessions[current].held
           /\ sessions'[current].writes = sessions[current].writes,
         \A t \in leaving' : t.step = "writes" \/ t \in leaving
  PROVE  Gates'
  BY DEF Gates, OneComposed, NoneComposed

\* A step that leaves no session, and begins no composition.
LEMMA GatesWithoutSession ==
  ASSUME Gates, UNCHANGED <<typed, composed>>, current' = 0, composing' = 0 \/ unmounted'
  PROVE  Gates'
  BY DEF Gates

\* A transition begins with a free gate, so no composition is going on.
LEMMA GatesSwitch ==
  ASSUME IInv, Gates, Switch
  PROVE  Gates'
<1>1. composing = 0 \/ unmounted
  BY DEF IInv, CurrentSession, Gates, Switch, TypeOK
<1>2. current' = 0
  BY DEF IInv, CurrentSession, Switch, Teardown
<1> QED
  BY <1>1, <1>2, GatesWithoutSession DEF Switch

\* Nor is one when a teardown has got the gate.
LEMMA GatesDetach ==
  ASSUME IInv, Gates, NEW d \in leaving, Detach(d)
  PROVE  Gates'
<1>1. composing = 0 \/ unmounted
  BY DEF Gates, Detach
<1> QED
  BY <1>1, GatesWithoutSession DEF Detach

\* The page takes the compositions with it.
LEMMA GatesUnmount ==
  ASSUME IInv, Gates, Unmount
  PROVE  Gates'
  BY GatesWithoutSession DEF Unmount

\* No invalid link comes while a composition goes on.
LEMMA GatesPopInvalid ==
  ASSUME IInv, Gates, OrdersAsDocumented, PopInvalid
  PROVE  Gates'
<1>1. composing = 0
  BY DocumentedOrders DEF PopInvalid
<1>2. CASE current # 0 /\ sessions[current].held
  <2>1. /\ UNCHANGED <<typed, composed, composing, unmounted, sessions, current>>
    BY <1>2 DEF PopInvalid, Teardown
  <2> QED
    BY <1>1, <2>1 DEF Gates, OneComposed, NoneComposed
<1>3. CASE ~(current # 0 /\ sessions[current].held)
  <2>1. current' = 0
    BY <1>3 DEF PopInvalid, Teardown
  <2> QED
    BY <1>1, <2>1, GatesWithoutSession DEF PopInvalid
<1> QED
  BY <1>2, <1>3

\* A session begins with a free gate and nothing to write.
LEMMA GatesCreate ==
  ASSUME IInv, Gates, Create
  PROVE  Gates'
<1>1. /\ current = 0 /\ opening.generation = generation /\ generation \in Generations
      /\ composing = 0 \/ unmounted
  BY Ranges DEF IInv, Numbering, CurrentSession, Create, Gates
<1>2. CASE unmounted
  BY <1>1, <1>2, GatesWithoutSession DEF Create, Outdated
<1>3. CASE ~unmounted
  <2>1. current' = generation /\ sessions'[generation].writes = <<>>
    <3> DEFINE s == [NoSession EXCEPT !.doc = opening.doc, !.controller = "open",
                       !.client = IF offlineMode THEN "suspended" ELSE "connected"]
    <3>1. sessions' = [sessions EXCEPT ![generation] = s] /\ current' = generation
      BY <1>1, <1>3 DEF Create, Outdated
    <3>2. s.writes = <<>>
      BY DEF NoSession
    <3> HIDE DEF s
    <3>3. sessions'[generation] = s
      BY <1>1, <3>1 DEF IInv, TypeOK
    <3> QED
      BY <3>1, <3>2, <3>3
  <2>2. UNCHANGED <<typed, composed, composing, unmounted, leaving>>
    BY DEF Create
  <2> QED
    BY <1>1, <1>3, <2>1, <2>2 DEF Gates, OneComposed, NoneComposed
<1> QED
  BY <1>2, <1>3

\* A composition begins when the last one has been written.
LEMMA GatesCompositionStart ==
  ASSUME IInv, Gates, OrdersAsDocumented, CompositionStart
  PROVE  Gates'
<1>1. current # 0 /\ current \in Generations /\ sessions[current] \in Sessions
  BY Ranges DEF CompositionStart, IInv
<1>2. ~sessions[current].held
  BY DocumentedOrders DEF CompositionStart
<1>3. sessions'[current].held /\ sessions'[current].writes = sessions[current].writes
  BY <1>1 DEF CompositionStart, IInv, TypeOK, Sessions
<1>4. \A t \in leaving : t.step = "writes"
  BY <1>1, <1>2 DEF IInv, TypeOK, Leavings, Teardowns, CompositionStart, Quiet, Ready
<1>5. composing' = current /\ UNCHANGED <<typed, composed, unmounted, leaving, current>>
  BY DEF CompositionStart
<1> QED
  BY <1>1, <1>2, <1>3, <1>4, <1>5 DEF Gates, OneComposed, NoneComposed

\* A commit appends its edit to the queue of the session.
LEMMA Committed ==
  ASSUME IInv, current # 0, NEW releases, CommitText(releases)
  PROVE  /\ \A i \in DOMAIN sessions'[current].writes :
              \/ i \in DOMAIN sessions[current].writes
                   /\ sessions'[current].writes[i] = sessions[current].writes[i]
              \/ i = Len(sessions[current].writes) + 1
                   /\ sessions'[current].writes[i] = Len(typed) + 1
         /\ sessions'[current].held = sessions[current].held
         /\ Len(typed) \in Nat /\ Len(typed') = Len(typed) + 1
<1>1. /\ current \in Generations /\ sessions[current] \in Sessions /\ MaxEdits \in Nat
  BY Ranges DEF IInv
<1>2. /\ typed \in Seq(Documents \cup {Nothing}) /\ view.text \in Documents \cup {Nothing}
      /\ sessions[current].writes \in Seq({Remote} \cup Edits)
  BY <1>1, SessionFields DEF IInv, TypeOK, Views
<1>3. Len(typed) \in Nat /\ Len(typed') = Len(typed) + 1 /\ Len(typed) + 1 \in {Remote} \cup Edits
  BY <1>1, <1>2 DEF CommitText, Edits
<1>4. PICK n \in {Remote} \cup Edits : n = Len(typed) + 1
  BY <1>3
<1>5. PICK q \in Seq({Remote} \cup Edits), w \in Seq({Remote} \cup Edits) :
        /\ q = sessions[current].writes /\ w = Append(q, n) /\ w[Len(q) + 1] = n
        /\ \A i \in 1..Len(q) : w[i] = q[i]
        /\ Len(q) \in Nat /\ DOMAIN q = 1..Len(q) /\ DOMAIN w = 1..(Len(q) + 1)
  <2> DEFINE q == sessions[current].writes
  <2>1. /\ Append(q, n) \in Seq({Remote} \cup Edits) /\ Append(q, n)[Len(q) + 1] = n
        /\ \A i \in 1..Len(q) : Append(q, n)[i] = q[i]
        /\ Len(q) \in Nat /\ DOMAIN q = 1..Len(q)
        /\ DOMAIN Append(q, n) = 1..(Len(q) + 1)
    BY <1>2, Appended
  <2> QED
    BY <1>2, <2>1
<1>6. sessions' = [sessions EXCEPT ![current].writes = w]
  BY <1>4, <1>5 DEF CommitText
<1>7. sessions'[current].writes = w /\ sessions'[current].held = sessions[current].held
  BY <1>1, <1>6 DEF IInv, TypeOK, Sessions
<1>8. \A i \in DOMAIN w : i \in 1..Len(q) \/ i = Len(q) + 1
  BY <1>5
<1> QED
  BY <1>3, <1>4, <1>5, <1>7, <1>8

\* An edit outside a composition releases nothing.
LEMMA GatesTypeText ==
  ASSUME IInv, Gates, TypeText
  PROVE  Gates'
<1>1. /\ current # 0 /\ CommitText(FALSE) /\ composing = 0 /\ ~sessions[current].held
      /\ UNCHANGED <<current, composing, composed>>
  BY DEF TypeText, CommitText
<1>2. NoneComposed(current) /\ composed \subseteq 1..Len(typed) /\ composed' = composed
  BY <1>1 DEF Gates
<1>3. Len(typed) + 1 \notin composed /\ composed \subseteq 1..Len(typed')
  <2>1. Len(typed) \in Nat /\ Len(typed') = Len(typed) + 1
    BY <1>1, Committed
  <2>2. composed \subseteq 1..Len(typed) /\ composed' = composed
    BY <1>2
  <2> QED
    BY <2>1, <2>2
<1>4. NoneComposed(current)'
  BY <1>1, <1>2, <1>3, Committed DEF NoneComposed
<1>5. OneComposed(current)'
  BY <1>4 DEF NoneComposed, OneComposed
<1> QED
  BY <1>1, <1>3, <1>4, <1>5 DEF Gates

\* The commit of a composition is the one that releases the gate.
LEMMA GatesCompositionEnd ==
  ASSUME IInv, Gates, CompositionEnd
  PROVE  Gates'
<1>1. /\ current # 0 /\ sessions[current].held /\ NoneComposed(current)
      /\ composed \subseteq 1..Len(typed)
  BY DEF CompositionEnd, Gates, IInv, TypeOK
<1>2. CommitText(TRUE) /\ composing' = 0 /\ current' = current
  BY <1>1 DEF CompositionEnd
<1>3. composed' = composed \cup {Len(typed) + 1}
  BY <1>2 DEF CommitText
<1>4. /\ sessions'[current].held /\ Len(typed) \in Nat /\ Len(typed') = Len(typed) + 1
  BY <1>1, <1>2, Committed
<1>5. composed' \subseteq 1..Len(typed')
  <2>1. composed \subseteq 1..Len(typed) /\ Len(typed) \in Nat /\ Len(typed') = Len(typed) + 1
    BY <1>1, <1>4
  <2>2. ASSUME NEW n \in composed'
        PROVE  n \in 1..Len(typed')
    <3>1. n \in 1..Len(typed) \/ n = Len(typed) + 1
      BY <2>1, <1>3
    <3> QED
      BY <2>1, <3>1
  <2> QED
    BY <2>2
<1>6. ASSUME NEW i \in DOMAIN sessions'[current].writes, sessions'[current].writes[i] \in composed'
      PROVE  i = Len(sessions[current].writes) + 1
  <2>1. CASE i \in DOMAIN sessions[current].writes
               /\ sessions'[current].writes[i] = sessions[current].writes[i]
    <3>1. sessions[current].writes[i] \in Nat /\ sessions[current].writes[i] <= Len(typed)
      <4>1. /\ current \in Generations /\ sessions[current].writes \in Seq({Remote} \cup Edits)
            /\ MaxEdits \in Nat
        BY <1>1, Ranges, SessionFields DEF IInv
      <4> QED
        BY <4>1, <2>1, <1>4 DEF IInv, WritesInOrder, OrderedWrites, Edits, Remote
    <3>2. sessions[current].writes[i] \notin composed'
      BY <2>1, <3>1, <1>1, <1>3, <1>4 DEF NoneComposed
    <3> QED
      BY <1>6, <2>1, <3>2
  <2>2. CASE i = Len(sessions[current].writes) + 1
    BY <2>2
  <2> QED
    BY <1>1, <1>2, <2>1, <2>2, Committed
<1>7. OneComposed(current)'
  BY <1>2, <1>6 DEF OneComposed
<1> QED
  BY <1>2, <1>4, <1>5, <1>7 DEF Gates

\* A queue that has lost its head.
LEMMA Popped ==
  ASSUME NEW T, NEW q \in Seq(T), q # <<>>, NEW c,
         \A i, j \in DOMAIN q : q[i] \in c /\ q[j] \in c => i = j
  PROVE  /\ \A i, j \in DOMAIN Tail(q) : Tail(q)[i] \in c /\ Tail(q)[j] \in c => i = j
         /\ Head(q) \in c => \A i \in DOMAIN Tail(q) : Tail(q)[i] \notin c
         /\ (\A i \in DOMAIN q : q[i] \notin c) => \A i \in DOMAIN Tail(q) : Tail(q)[i] \notin c
<1>1. /\ Len(q) \in Nat \ {0} /\ DOMAIN q = 1..Len(q) /\ DOMAIN Tail(q) = 1..(Len(q) - 1)
      /\ \A i \in 1..(Len(q) - 1) : Tail(q)[i] = q[i + 1]
      /\ Head(q) = q[1]
  BY Shortened
<1>2. ASSUME NEW i \in DOMAIN Tail(q)
      PROVE  i \in Nat /\ i + 1 \in DOMAIN q /\ Tail(q)[i] = q[i + 1] /\ i + 1 # 1
  BY <1>1
<1>3. 1 \in DOMAIN q
  BY <1>1
<1>4. \A i, j \in DOMAIN Tail(q) : Tail(q)[i] \in c /\ Tail(q)[j] \in c => i = j
  <2>1. ASSUME NEW i \in DOMAIN Tail(q), NEW j \in DOMAIN Tail(q), Tail(q)[i] \in c, Tail(q)[j] \in c
        PROVE  i = j
    <3>1. i + 1 = j + 1
      BY <2>1, <1>2
    <3> QED
      BY <1>2, <3>1
  <2> QED
    BY <2>1
<1>5. Head(q) \in c => \A i \in DOMAIN Tail(q) : Tail(q)[i] \notin c
  BY <1>1, <1>2, <1>3
<1>6. (\A i \in DOMAIN q : q[i] \notin c) => \A i \in DOMAIN Tail(q) : Tail(q)[i] \notin c
  BY <1>2
<1> QED
  BY <1>4, <1>5, <1>6

\* The gate is released with the write of that commit, and with no other.
LEMMA GatesWritten ==
  ASSUME IInv, Gates, Quiet, NEW g \in Generations, sessions[g].writes # <<>>,
         NEW saveState, Written(g, saveState),
         UNCHANGED <<unmounted, current, composing, typed, composed>>
  PROVE  Gates'
<1>1. sessions[g] \in Sessions /\ sessions[g].writes \in Seq({Remote} \cup Edits)
  BY Ranges, SessionFields DEF IInv
<1>2. PICK r \in Sessions :
        /\ sessions' = [sessions EXCEPT ![g] = r] /\ r.writes = Tail(sessions[g].writes)
        /\ Head(sessions[g].writes) \notin composed => r.held = sessions[g].held
  <2>1. PICK w \in Seq({Remote} \cup Edits) : w = Tail(sessions[g].writes)
    BY <1>1, Shortened
  <2> DEFINE s == [sessions[g] EXCEPT !.writes = w]
  <2>2. s \in Sessions /\ s.writes = w /\ s.held = sessions[g].held
    BY <1>1, WritesSet
  <2>3. CASE Head(sessions[g].writes) \in composed
    <3>1. sessions' = [sessions EXCEPT ![g] = SessionAfterRelease(s)]
      BY <2>1, <2>3 DEF Written
    <3> HIDE DEF s
    <3>2. SessionAfterRelease(s) \in Sessions /\ SessionAfterRelease(s).writes = w
      BY <2>2, Released
    <3> QED
      BY <2>1, <2>3, <3>1, <3>2
  <2>4. CASE Head(sessions[g].writes) \notin composed
    <3>1. sessions' = [sessions EXCEPT ![g] = s]
      BY <2>1, <2>4 DEF Written
    <3> HIDE DEF s
    <3> QED
      BY <2>1, <2>2, <3>1
  <2> QED
    BY <2>3, <2>4
<1>3. /\ sessions'[g] = r
      /\ \A h \in Generations \ {g} : sessions'[h] = sessions[h]
  BY <1>2, Replaced DEF IInv
<1>4. current # 0 => current \in Generations
  BY Ranges DEF IInv
<1>5. CASE g # current
  <2>1. current # 0 => sessions'[current] = sessions[current]
    BY <1>3, <1>4, <1>5
  <2>2. composing # 0 /\ ~unmounted => \A t \in leaving' : t.step = "writes"
    <3>1. \A t \in leaving : t \in Leavings
      BY DEF IInv, TypeOK
    <3> QED
      BY <3>1 DEF Gates, Written, LeavingAfterRelease, Resumed, Leavings
  <2> QED
    BY <2>1, <2>2 DEF Gates, OneComposed, NoneComposed
<1>6. CASE g = current
  <2>1. /\ current # 0 /\ OneComposed(current) /\ composed \subseteq 1..Len(typed)
    BY <1>6, Ranges DEF Gates, IInv
  <2>2. /\ OneComposed(current)'
        /\ Head(sessions[g].writes) \in composed => NoneComposed(current)'
        /\ NoneComposed(current) => NoneComposed(current)'
    <3> DEFINE q == sessions[g].writes
    <3>1. /\ \A i, j \in DOMAIN Tail(q) : Tail(q)[i] \in composed /\ Tail(q)[j] \in composed => i = j
          /\ Head(q) \in composed => \A i \in DOMAIN Tail(q) : Tail(q)[i] \notin composed
          /\ (\A i \in DOMAIN q : q[i] \notin composed) =>
               \A i \in DOMAIN Tail(q) : Tail(q)[i] \notin composed
      <4>1. \A i, j \in DOMAIN q : q[i] \in composed /\ q[j] \in composed => i = j
        BY <1>6, <2>1 DEF OneComposed
      <4> QED
        BY <1>1, <4>1, Popped
    <3>2. sessions'[current].writes = Tail(q) /\ composed' = composed /\ current' = current
      BY <1>2, <1>3, <1>6
    <3> QED
      BY <1>6, <3>1, <3>2 DEF OneComposed, NoneComposed
  <2>3. CASE Head(sessions[g].writes) \in composed
    <3>1. 1 \in DOMAIN sessions[g].writes /\ sessions[g].writes[1] = Head(sessions[g].writes)
      BY <1>1, Shortened
    <3>2. composing = 0 \/ unmounted
      BY <1>6, <2>3, <3>1 DEF Gates, NoneComposed
    <3> QED
      BY <2>1, <2>2, <2>3, <3>2 DEF Gates
  <2>4. CASE Head(sessions[g].writes) \notin composed
    <3>1. sessions'[current].held = sessions[current].held /\ leaving' = leaving
      BY <1>2, <1>3, <1>6, <2>4 DEF Written
    <3> QED
      BY <2>1, <2>2, <3>1 DEF Gates
  <2> QED
    BY <2>3, <2>4
<1> QED
  BY <1>5, <1>6

\* A batch is no composition's commit when it is queued.
LEMMA GatesBatchIsQueued ==
  ASSUME IInv, Gates, NEW g \in Generations, BatchIsQueued(g)
  PROVE  Gates'
<1>1. sessions[g] \in Sessions /\ sessions[g].writes \in Seq({Remote} \cup Edits)
  BY Ranges, SessionFields DEF IInv
<1>2. UNCHANGED <<typed, composed, composing, unmounted, current, leaving>>
  BY DEF BatchIsQueued
<1>3. CASE ~IsCurrentSession(g)
  <2>1. \A h \in Generations :
          sessions'[h].held = sessions[h].held /\ sessions'[h].writes = sessions[h].writes
    BY <1>1, <1>3 DEF BatchIsQueued, IInv, TypeOK, Sessions
  <2>2. current # 0 => current \in Generations
    BY Ranges DEF IInv
  <2> QED
    BY <1>2, <2>1, <2>2, GatesFrame
<1>4. CASE IsCurrentSession(g)
  <2>1. g = current /\ current # 0
    BY <1>4, Ranges DEF IsCurrentSession, IInv
  <2>2. /\ sessions'[g].held = sessions[g].held
        /\ sessions'[g].writes = Append(sessions[g].writes, Remote)
    BY <1>1, <1>4 DEF BatchIsQueued, IInv, TypeOK, Sessions
  <2>3. Remote \notin composed
    <3>1. composed \subseteq 1..Len(typed)
      BY DEF Gates
    <3> QED
      BY <3>1 DEF Remote
  <2>4. ASSUME NEW i \in DOMAIN sessions'[g].writes, sessions'[g].writes[i] \in composed
        PROVE  i \in DOMAIN sessions[g].writes /\ sessions'[g].writes[i] = sessions[g].writes[i]
    <3> DEFINE q == sessions[g].writes
    <3>1. Remote \in {Remote} \cup Edits
      OBVIOUS
    <3>2. /\ Append(q, Remote)[Len(q) + 1] = Remote
          /\ \A j \in 1..Len(q) : Append(q, Remote)[j] = q[j]
          /\ Len(q) \in Nat /\ DOMAIN q = 1..Len(q)
          /\ DOMAIN Append(q, Remote) = 1..(Len(q) + 1)
      BY <1>1, <3>1, Appended
    <3>3. i \in 1..(Len(q) + 1) /\ Append(q, Remote)[i] \in composed
      BY <2>2, <2>4, <3>2
    <3> HIDE DEF q
    <3>4. i # Len(q) + 1
      BY <2>3, <3>2, <3>3
    <3>5. i \in 1..Len(q)
      BY <3>2, <3>3, <3>4
    <3> QED
      BY <2>2, <3>2, <3>5 DEF q
  <2>5. /\ OneComposed(current)'
        /\ NoneComposed(current) => NoneComposed(current)'
    <3>1. current' = g /\ composed' = composed /\ OneComposed(g)
      BY <1>2, <2>1 DEF Gates
    <3> QED
      BY <2>1, <2>4, <3>1 DEF OneComposed, NoneComposed
  <2>6. composed' \subseteq 1..Len(typed')
    BY <1>2 DEF Gates
  <2> QED
    BY <1>2, <2>1, <2>2, <2>5, <2>6 DEF Gates
<1> QED
  BY <1>3, <1>4

\* Nor when it is applied.
LEMMA GatesBatchIsApplied ==
  ASSUME IInv, Gates, NEW g \in Generations, BatchIsApplied(g)
  PROVE  Gates'
<1>1. /\ sessions[g] \in Sessions /\ sessions[g].writes \in Seq({Remote} \cup Edits)
      /\ sessions[g].writes # <<>>
  BY Ranges, SessionFields DEF IInv, BatchIsApplied
<1>2. UNCHANGED <<typed, composed, composing, unmounted, current, leaving>>
  BY DEF BatchIsApplied
<1>3. /\ \A h \in Generations : sessions'[h].held = sessions[h].held
      /\ \A h \in Generations \ {g} : sessions'[h].writes = sessions[h].writes
      /\ sessions'[g].writes = Tail(sessions[g].writes)
  BY <1>1 DEF BatchIsApplied, IInv, TypeOK, Sessions
<1>4. CASE g # current
  <2>1. current # 0 => current \in Generations
    BY Ranges DEF IInv
  <2> QED
    BY <1>2, <1>3, <1>4, <2>1, GatesFrame
<1>5. CASE g = current
  <2>1. current # 0 /\ OneComposed(g)
    BY <1>5, Ranges DEF Gates, IInv
  <2>2. OneComposed(g)' /\ (NoneComposed(g) => NoneComposed(g)')
    <3> DEFINE q == sessions[g].writes
    <3>1. /\ \A i, j \in DOMAIN Tail(q) : Tail(q)[i] \in composed /\ Tail(q)[j] \in composed => i = j
          /\ (\A i \in DOMAIN q : q[i] \notin composed) =>
               \A i \in DOMAIN Tail(q) : Tail(q)[i] \notin composed
      <4>1. \A i, j \in DOMAIN q : q[i] \in composed /\ q[j] \in composed => i = j
        BY <2>1 DEF OneComposed
      <4> QED
        BY <1>1, <4>1, Popped
    <3> QED
      BY <1>2, <1>3, <3>1 DEF OneComposed, NoneComposed
  <2>3. composed' \subseteq 1..Len(typed') /\ sessions'[g].held = sessions[g].held
    BY <1>2, <1>3 DEF Gates
  <2> QED
    BY <1>2, <1>5, <2>1, <2>2, <2>3 DEF Gates
<1> QED
  BY <1>4, <1>5

\* A session's other fields do not matter.
LEMMA GatesOfOthers ==
  ASSUME IInv, Gates,
         \/ Boot \/ EndSwitch \/ CreateFails
         \/ \E document \in Documents : Navigate(document) \/ Arrive(document)
         \/ AddDemoCollaborator \/ CollaboratorFails \/ UNCHANGED vars
  PROVE  Gates'
<1>1. UNCHANGED <<typed, composed, composing, unmounted, current, sessions, leaving>>
  BY DEF Boot, EndSwitch, CreateFails, Navigate, Arrive, AddDemoCollaborator,
     CollaboratorFails, vars
<1> QED
  BY <1>1, GatesFrame

\* The network, the end of a controller and the steps of a batch.
LEMMA GatesOfSessions ==
  ASSUME IInv, Gates,
         \/ GoOffline \/ ReconnectNow
         \/ \E g \in Generations : FinalizeClose(g) \/ BatchArrives(g) \/ BatchPassesGate(g)
  PROVE  Gates'
<1>1. UNCHANGED <<typed, composed, composing, unmounted, current, leaving>>
  BY DEF GoOffline, ReconnectNow, FinalizeClose, BatchArrives, BatchPassesGate
<1>2. current # 0 => current \in Generations /\ sessions[current] \in Sessions
  BY Ranges DEF IInv
<1>3. current # 0 =>
        /\ sessions'[current].held = sessions[current].held
        /\ sessions'[current].writes = sessions[current].writes
  <2>1. ASSUME NEW x, current # 0, SetClient(x)
        PROVE  /\ sessions'[current].held = sessions[current].held
               /\ sessions'[current].writes = sessions[current].writes
    BY <1>2, <2>1 DEF SetClient, IInv, TypeOK, Sessions
  <2>2. CASE GoOffline \/ ReconnectNow
    BY <2>1, <2>2 DEF GoOffline, ReconnectNow
  <2>3. ASSUME NEW g \in Generations, FinalizeClose(g), current # 0
        PROVE  /\ sessions'[current].held = sessions[current].held
               /\ sessions'[current].writes = sessions[current].writes
    BY <1>2, <2>3 DEF FinalizeClose, IInv, TypeOK, Sessions
  <2>4. ASSUME NEW g \in Generations, NEW x, SetInbound(g, x), current # 0
        PROVE  /\ sessions'[current].held = sessions[current].held
               /\ sessions'[current].writes = sessions[current].writes
    BY <1>2, <2>4 DEF SetInbound, IInv, TypeOK, Sessions
  <2>5. ASSUME NEW g \in Generations, BatchArrives(g) \/ BatchPassesGate(g), current # 0
        PROVE  /\ sessions'[current].held = sessions[current].held
               /\ sessions'[current].writes = sessions[current].writes
    BY <2>4, <2>5 DEF BatchArrives, BatchPassesGate
  <2> QED
    BY <2>2, <2>3, <2>5
<1> QED
  BY <1>1, <1>3, GatesFrame

\* The controller that is closed is not that of the current session.
LEMMA GatesLeave ==
  ASSUME IInv, Gates, NEW d \in leaving, Leave(d)
  PROVE  Gates'
<1>1. current # 0 => d.session # current /\ current \in Generations
  BY Ranges DEF IInv, Leave, Teardowns, OfflineModeHolds
<1>2. current # 0 => sessions'[current] = sessions[current]
  BY <1>1 DEF Leave, IInv, TypeOK
<1>3. /\ UNCHANGED <<typed, composed, composing, unmounted, current>>
      /\ leaving' \subseteq leaving
  BY DEF Leave
<1> QED
  BY <1>2, <1>3, GatesFrame

\* Every step keeps the gates.
LEMMA NextGates ==
  ASSUME IInv, Gates, OrdersAsDocumented, [Next]_vars
  PROVE  Gates'
<1>1. ASSUME NEW g \in Generations, Persist(g) \/ PersistFails(g)
      PROVE  Gates'
  BY <1>1, GatesWritten DEF Persist, PersistFails
<1>2. ASSUME NEW g \in Generations, BatchIsQueued(g) \/ BatchIsApplied(g)
      PROVE  Gates'
  BY <1>2, GatesBatchIsQueued, GatesBatchIsApplied
<1>3. ASSUME NEW t \in leaving, Detach(t) \/ Leave(t)
      PROVE  Gates'
  BY <1>3, GatesDetach, GatesLeave
<1>4. ASSUME \/ Switch \/ Unmount \/ PopInvalid \/ Create
             \/ CompositionStart \/ CompositionEnd \/ TypeText
      PROVE  Gates'
  BY <1>4, GatesSwitch, GatesUnmount, GatesPopInvalid, GatesCreate, GatesCompositionStart,
     GatesCompositionEnd, GatesTypeText
<1> QED
  BY <1>1, <1>2, <1>3, <1>4, GatesOfOthers, GatesOfSessions DEF Next, Program, Environment

\* Where no composition begins before the last one is committed and no invalid
\* link comes in the middle of one, the session outlives the composition.
THEOREM CompositionIsKept ==
  ASSUME OrdersAsDocumented
  PROVE  Spec => []CompositionKeepsSession
<1>1. Init => IInv /\ Gates
  BY InitInvariant DEF Init, Gates
<1>2. (IInv /\ Gates) /\ [Next]_vars => (IInv /\ Gates)'
  BY NextInvariant, NextGates
<1>3. IInv /\ Gates => CompositionKeepsSession
  BY DEF Gates, CompositionKeepsSession
<1> QED
  BY <1>1, <1>2, <1>3, PTL DEF Spec
===============================================================================
