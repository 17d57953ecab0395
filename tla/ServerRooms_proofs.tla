-------------------------- MODULE ServerRooms_proofs --------------------------
(***************************************************************************)
(* Rooms, rosters, gauges and the database of ServerRooms, for every       *)
(* number of clients, documents and connections.                           *)
(*                                                                         *)
(* A roster is computed from the maps at the moment it is sent.  That it   *)
(* is still right later rests on RoomsMatchConnections: a change of a room *)
(* and of the sessions of its members is one change, and who is told is    *)
(* everyone whose roster it concerns.                                      *)
(***************************************************************************)
EXTENDS ServerRooms, FiniteNumbers_proofs

\* A session that has joined a document knows its client.
NamedSessions ==
  \A k \in Connections : session[k].document # Nobody => session[k].client \in Clients

\* The database closes in the last stage, and the process exits normally
\* after it.  Once the sync server is closed no socket is left.
StagesInOrder ==
  /\ database = "closed" => stage = "done"
  /\ stage \in {"closed", "done"} => AllClosed
  /\ exited = "0" => database = "closed"
  /\ stage = "done" => database = "closed"

\* The inductive invariant.
IInv ==
  /\ TypeOK /\ NamedSessions /\ StagesInOrder /\ ~refused
  /\ RoomsMatchConnections /\ RosterIsCurrent

-------------------------------------------------------------------------------
(* Facts about the maps.                                                   *)

Joined(sessions) == {sessions[k].document : k \in Connections} \ {Nobody}

\* The connections are finitely many, and so are the joined documents.
LEMMA FiniteConnections ==
  /\ IsFiniteSet(Connections)
  /\ Connections \subseteq Nat
  /\ \A S \in SUBSET Connections : IsFiniteSet(S) /\ Cardinality(S) \in Nat
<1>1. IsFiniteSet(Connections) /\ Connections \subseteq Nat
  BY RoomsAssumption, FS_Interval DEF Connections
<1> QED
  BY <1>1, FS_Subset, FS_CardinalityType

\* A roster lists clients with one of the connections they have in the room.
LEMMA ParticipantsType ==
  ASSUME NEW members \in SUBSET Connections, NEW sessions,
         \A k \in members : sessions[k].client \in Clients
  PROVE  Participants(members, sessions) \subseteq [client : Clients, joinedAt : Connections]
<1>1. ASSUME NEW c \in {sessions[k].client : k \in members}
      PROVE  c \in Clients /\ Min({k \in members : sessions[k].client = c}) \in Connections
  <2> DEFINE own == {k \in members : sessions[k].client = c}
  <2>1. own \in SUBSET Nat /\ own # {} /\ own \in SUBSET Connections
    BY FiniteConnections
  <2>2. IsFiniteSet(own)
    BY <2>1, FiniteConnections
  <2> HIDE DEF own
  <2>3. Min(own) \in own
    BY <2>1, <2>2, MinOfFinite
  <2>4. Min(own) \in Connections
    BY <2>1, <2>3
  <2>5. c \in Clients
    OBVIOUS
  <2> QED
    BY <2>4, <2>5 DEF own
<1>2. ASSUME NEW entry \in Participants(members, sessions)
      PROVE  entry \in [client : Clients, joinedAt : Connections]
  <2>1. PICK c \in {sessions[k].client : k \in members} :
          entry = [client |-> c, joinedAt |-> Min({k \in members : sessions[k].client = c})]
    BY Zenon DEF Participants
  <2>2. c \in Clients /\ Min({k \in members : sessions[k].client = c}) \in Connections
    BY <1>1
  <2> QED
    BY <2>1, <2>2
<1> QED
  BY <1>2

\* A roster depends on the clients of the members only.
LEMMA ParticipantsOfMembers ==
  ASSUME NEW members, NEW old, NEW new,
         \A k \in members : old[k].client = new[k].client
  PROVE  Participants(members, old) = Participants(members, new)
<1>1. {old[k].client : k \in members} = {new[k].client : k \in members}
  OBVIOUS
<1>2. ASSUME NEW c
      PROVE  [client |-> c, joinedAt |-> Min({k \in members : old[k].client = c})]
               = [client |-> c, joinedAt |-> Min({k \in members : new[k].client = c})]
  <2>1. {k \in members : old[k].client = c} = {k \in members : new[k].client = c}
    OBVIOUS
  <2> QED
    BY <2>1
<1> QED
  BY <1>1, <1>2, Zenon DEF Participants

\* Finitely many documents are joined.
LEMMA JoinedAreFinite ==
  ASSUME NEW sessions
  PROVE  Cardinality(Joined(sessions)) \in Nat
<1> DEFINE f == [k \in Connections |-> sessions[k].document]
           all == {f[k] : k \in Connections}
<1>1. IsFiniteSet(all)
  <2>1. DOMAIN f = Connections /\ IsFiniteSet(Connections)
    BY FiniteConnections
  <2> HIDE DEF f
  <2> QED
    BY <2>1, FiniteRange
<1>2. Joined(sessions) \in SUBSET all
  BY DEF Joined
<1> HIDE DEF all
<1> QED
  BY <1>1, <1>2, FS_Subset, FS_CardinalityType

\* The gauge of the occupied rooms counts the documents that were joined.
LEMMA OccupiedAreJoined ==
  ASSUME NEW occupied, NEW sessions \in [Connections -> [document : Documents \cup {Nobody},
                                                         client : Clients \cup {Nobody}]],
         \A d \in Documents : occupied[d] = {k \in Connections : sessions[k].document = d}
  PROVE  NonEmpty(occupied) = Cardinality(Joined(sessions))
<1>1. {d \in Documents : occupied[d] # {}} = Joined(sessions)
  <2>1. ASSUME NEW d \in Documents
        PROVE  occupied[d] # {} <=> d \in Joined(sessions)
    BY RoomsAssumption DEF Joined
  <2>2. Joined(sessions) \subseteq Documents
    BY DEF Joined
  <2> QED
    BY <2>1, <2>2
<1> QED
  BY <1>1 DEF NonEmpty

\* The initial state, and the state of a process that has ended.
LEMMA NoMemoryIsOrdered ==
  ASSUME socket = NoMemory.socket, session = NoMemory.session, rooms = NoMemory.rooms,
         alive = NoMemory.alive, peer = NoMemory.peer, told = NoMemory.told,
         activeRooms = 0, wsConnections = 0
  PROVE  /\ RoomsMatchConnections /\ RosterIsCurrent /\ NamedSessions /\ AllClosed
         /\ socket \in [Connections -> {"unused", "open", "closing", "terminated", "closed"}]
         /\ session \in [Connections -> [document : Documents \cup {Nobody},
                                         client : Clients \cup {Nobody}]]
         /\ rooms \in [Documents -> SUBSET Connections]
         /\ alive \in [Connections -> BOOLEAN]
         /\ peer \in [Connections -> {"there", "left", "gone"}]
         /\ told \in [Connections -> SUBSET [client : Clients, joinedAt : Connections]]
<1>1. /\ \A k \in Connections : /\ socket[k] = "unused" /\ session[k].document = Nobody
                                /\ session[k].client = Nobody
      /\ \A d \in Documents : rooms[d] = {} /\ d # Nobody
  BY RoomsAssumption DEF NoMemory
<1>2. {session[k].document : k \in Connections} \ {Nobody} = {}
  BY <1>1
<1>3. {k \in Connections : Connected(k)} = {}
  BY <1>1 DEF Connected
<1>4. RoomsMatchConnections
  BY <1>1, <1>2, <1>3, FS_EmptySet DEF RoomsMatchConnections
<1>5. RosterIsCurrent /\ NamedSessions /\ AllClosed
  BY <1>1 DEF RosterIsCurrent, NamedSessions, AllClosed
<1> QED
  BY <1>4, <1>5 DEF NoMemory

-------------------------------------------------------------------------------
(* The invariant.                                                          *)

\* The server starts in order.
LEMMA InitInvariant == Init => IInv
<1> SUFFICES ASSUME Init PROVE IInv
  OBVIOUS
<1>1. /\ RoomsMatchConnections /\ RosterIsCurrent /\ NamedSessions /\ AllClosed
      /\ TypeOK
  BY NoMemoryIsOrdered DEF Init, TypeOK, Stages
<1>2. StagesInOrder
  BY DEF Init, StagesInOrder
<1> QED
  BY <1>1, <1>2 DEF IInv, Init

\* A connection that is accepted is in no room yet.
LEMMA ConnectKeeps ==
  ASSUME IInv, NEW k \in Connections, Connect(k)
  PROVE  IInv'
<1>1. TypeOK' /\ NamedSessions' /\ StagesInOrder' /\ ~refused'
  BY DEF Connect, IInv, TypeOK, NamedSessions, StagesInOrder, Closing, peerVars, processVars
<1>2. RoomsMatchConnections'
  <2>1. /\ stage = "serving" /\ RoomsMatchConnections
        /\ UNCHANGED <<session, rooms, activeRooms, stage>>
    BY DEF Connect, Closing, IInv, processVars
  <2>2. {j \in Connections : Connected(j)'} = {j \in Connections : Connected(j)} \cup {k}
    BY DEF Connect, Connected, IInv, TypeOK
  <2>3. k \notin {j \in Connections : Connected(j)}
    BY DEF Connect, Connected
  <2>4. Cardinality({j \in Connections : Connected(j)'}) = wsConnections + 1
    <3> DEFINE before == {j \in Connections : Connected(j)}
    <3>1. before \in SUBSET Connections
      OBVIOUS
    <3>2. IsFiniteSet(before) /\ k \notin before
      BY <2>3, <3>1, FiniteConnections
    <3>3. Cardinality(before) = wsConnections
      BY <2>1 DEF RoomsMatchConnections
    <3> HIDE DEF before
    <3>4. Cardinality(before \cup {k}) = Cardinality(before) + 1
      BY <3>2, FS_AddElement
    <3> QED
      BY <2>2, <3>3, <3>4 DEF before
  <2>5. \A j \in Connections : Connected(j) => Connected(j)'
    BY <2>2
  <2>6. wsConnections' = wsConnections + 1
    BY DEF Connect
  <2> QED
    BY <2>1, <2>4, <2>5, <2>6 DEF RoomsMatchConnections
<1>3. RosterIsCurrent'
  <2>1. \A d \in Documents : k \notin rooms[d]
    BY RoomsAssumption
    DEF IInv, RoomsMatchConnections, Connect, Connected, Closing
  <2> QED
    BY <2>1 DEF Connect, IInv, TypeOK, RosterIsCurrent, Closing, peerVars, processVars
<1> QED
  BY <1>1, <1>2, <1>3 DEF IInv

\* A connection that is read belongs to a server that has not closed.
LEMMA ReceivesBeforeClosed ==
  ASSUME IInv, NEW k \in Connections, socket[k] \in {"open", "closing", "terminated"}
  PROVE  /\ stage \in {"serving", "closing", "terminating"}
         /\ database = "open"
         /\ \A d \in Documents : rooms[d] = {j \in Connections : session[j].document = d}
         /\ \A j \in Connections : session[j].document # Nobody => Connected(j)
         /\ activeRooms = Cardinality(Joined(session))
         /\ wsConnections = Cardinality({j \in Connections : Connected(j)})
<1>1. ~AllClosed
  BY DEF AllClosed
<1>2. stage \in {"serving", "closing", "terminating"}
  BY <1>1 DEF IInv, StagesInOrder, TypeOK, Stages
<1>3. database = "open"
  BY <1>2 DEF IInv, StagesInOrder, TypeOK
<1> QED
  BY <1>2, <1>3 DEF IInv, RoomsMatchConnections, Joined

\* A join changes one room, and tells everyone in it.
LEMMA JoinKeeps ==
  ASSUME IInv, NEW k \in Connections, NEW document \in Documents, NEW client \in Clients,
         Join(k, document, client)
  PROVE  IInv'
<1> DEFINE members == rooms[document] \cup {k}
           joined == [session EXCEPT ![k] = [document |-> document, client |-> client]]
<1>1. /\ session' = joined /\ rooms' = [rooms EXCEPT ![document] = members]
      /\ activeRooms' = NonEmpty(rooms')
      /\ BroadcastPresence(members, joined)
      /\ UNCHANGED <<socket, alive, peer, wsConnections, stage, database, refused, exited>>
      /\ Receives(k) /\ session[k].document = Nobody
  BY DEF Join, processVars
<1>2. /\ stage \in {"serving", "closing", "terminating"}
      /\ database = "open"
      /\ \A d \in Documents : rooms[d] = {j \in Connections : session[j].document = d}
      /\ \A j \in Connections : session[j].document # Nobody => Connected(j)
      /\ activeRooms = Cardinality(Joined(session))
      /\ wsConnections = Cardinality({j \in Connections : Connected(j)})
  BY <1>1, ReceivesBeforeClosed DEF Receives
<1>3. /\ joined \in [Connections -> [document : Documents \cup {Nobody},
                                     client : Clients \cup {Nobody}]]
      /\ joined[k].document = document /\ joined[k].client = client
      /\ \A j \in Connections \ {k} : joined[j] = session[j]
  BY DEF IInv, TypeOK
<1>4. members \in SUBSET Connections /\ \A j \in members : joined[j].client \in Clients
  <2>1. members \in SUBSET Connections
    BY DEF IInv, TypeOK
  <2>2. ASSUME NEW j \in members, j # k PROVE session[j].client \in Clients
    BY <1>2, <2>2, RoomsAssumption DEF IInv, NamedSessions
  <2> QED
    BY <1>3, <2>1, <2>2
<1> HIDE DEF joined
<1>5. NamedSessions' /\ StagesInOrder' /\ ~refused'
  BY <1>1, <1>3 DEF IInv, NamedSessions, StagesInOrder, AllClosed
<1>6. \A d \in Documents : rooms'[d] = {j \in Connections : joined[j].document = d}
  <2>1. ASSUME NEW d \in Documents
        PROVE  rooms'[d] = IF d = document THEN rooms[d] \cup {k} ELSE rooms[d]
    BY <1>1 DEF IInv, TypeOK
  <2>2. ASSUME NEW d \in Documents
        PROVE  {j \in Connections : joined[j].document = d}
                 = IF d = document THEN {j \in Connections : session[j].document = d} \cup {k}
                   ELSE {j \in Connections : session[j].document = d}
    <3>1. d # Nobody /\ session[k].document # d
      BY <1>1, RoomsAssumption
    <3> QED
      BY <1>3, <3>1
  <2> QED
    BY <1>2, <2>1, <2>2
<1>7. RoomsMatchConnections'
  <2>1. NonEmpty(rooms') = Cardinality(Joined(joined))
    BY <1>3, <1>6, OccupiedAreJoined
  <2>2. \A j \in Connections : Connected(j)' <=> Connected(j)
    BY <1>1 DEF Connected
  <2>3. Connected(k)
    BY <1>1 DEF Receives, Connected
  <2>4. {j \in Connections : Connected(j)'} = {j \in Connections : Connected(j)}
    BY <2>2
  <2>5. \A d \in Documents : rooms'[d] = {j \in Connections : session'[j].document = d}
    BY <1>1, <1>6
  <2>6. \A j \in Connections : session'[j].document # Nobody => Connected(j)'
    BY <1>1, <1>2, <1>3, <2>2, <2>3
  <2>7. activeRooms' = Cardinality({session'[j].document : j \in Connections} \ {Nobody})
    BY <1>1, <2>1 DEF Joined
  <2>8. wsConnections' = Cardinality({j \in Connections : Connected(j)'})
    BY <1>1, <1>2, <2>4
  <2> QED
    BY <2>5, <2>6, <2>7, <2>8 DEF RoomsMatchConnections
<1>8. RosterIsCurrent'
  <2> SUFFICES ASSUME ~Closing, NEW d \in Documents, NEW j \in rooms'[d], socket[j] = "open"
               PROVE  told'[j] = Participants(rooms'[d], joined)
    BY <1>1 DEF RosterIsCurrent, Closing
  <2>1. j \in Connections
    BY <1>6
  <2>2. CASE d = document
    <3>1. rooms'[d] = members
      BY <1>1, <2>2 DEF IInv, TypeOK
    <3> QED
      BY <1>1, <2>1, <3>1 DEF BroadcastPresence
  <2>3. CASE d # document
    <3>1. rooms'[d] = rooms[d] /\ j # k /\ j \notin members
      BY <1>1, <1>2, <1>3, <1>6, <2>3 DEF IInv, TypeOK
    <3>2. told'[j] = told[j]
      BY <1>1, <2>1, <3>1 DEF BroadcastPresence
    <3>3. told[j] = Participants(rooms[d], session)
      BY <3>1 DEF IInv, RosterIsCurrent
    <3>4. k \notin rooms[d] /\ rooms[d] \subseteq Connections
      BY <1>1, <1>2, RoomsAssumption
    <3>5. Participants(rooms[d], session) = Participants(rooms[d], joined)
      BY <1>3, <3>4, ParticipantsOfMembers
    <3> QED
      BY <3>1, <3>2, <3>3, <3>5
  <2> QED
    BY <2>2, <2>3
<1>9. TypeOK'
  <2>1. Participants(members, joined) \in SUBSET [client : Clients, joinedAt : Connections]
    BY <1>4, ParticipantsType
  <2>2. told' \in [Connections -> SUBSET [client : Clients, joinedAt : Connections]]
    BY <1>1, <2>1 DEF BroadcastPresence, IInv, TypeOK
  <2>3. rooms' \in [Documents -> SUBSET Connections]
    BY <1>1, <1>4 DEF IInv, TypeOK
  <2>4. activeRooms' \in Nat
    <3>1. NonEmpty(rooms') = Cardinality(Joined(joined))
      BY <1>3, <1>6, OccupiedAreJoined
    <3> QED
      BY <1>1, <3>1, JoinedAreFinite
  <2> QED
    BY <1>1, <1>3, <2>2, <2>3, <2>4 DEF IInv, TypeOK
<1> QED
  BY <1>1, <1>5, <1>7, <1>8, <1>9 DEF IInv

\* A submit is handled before the database closes.
LEMMA SubmitKeeps ==
  ASSUME IInv, NEW k \in Connections, Submit(k)
  PROVE  IInv'
<1>1. database = "open"
  BY ReceivesBeforeClosed DEF Submit, Receives
<1>2. /\ refused' = refused
      /\ UNCHANGED <<socket, session, rooms, alive, peer, told, activeRooms, wsConnections>>
      /\ UNCHANGED <<stage, database, exited>>
  BY <1>1 DEF Submit, socketVars, peerVars, gaugeVars, IInv, TypeOK
<1>3. TypeOK' /\ NamedSessions' /\ StagesInOrder' /\ ~refused'
  BY <1>2 DEF IInv, TypeOK, NamedSessions, StagesInOrder, AllClosed
<1>4. RoomsMatchConnections'
  BY <1>2 DEF IInv, RoomsMatchConnections, Connected
<1>5. RosterIsCurrent'
  BY <1>2 DEF IInv, RosterIsCurrent, Closing
<1> QED
  BY <1>3, <1>4, <1>5 DEF IInv

\* A socket that changes its state without closing, and a shutdown that gets
\* on without closing the sync server, leave the maps as they were.
LEMMA SocketsChange ==
  ASSUME IInv,
         UNCHANGED <<session, rooms, told, activeRooms, wsConnections>>,
         UNCHANGED <<database, refused, exited>>,
         socket' \in [Connections -> {"unused", "open", "closing", "terminated", "closed"}],
         alive' \in [Connections -> BOOLEAN],
         peer' \in [Connections -> {"there", "left", "gone"}],
         \A k \in Connections : /\ Connected(k)' <=> Connected(k)
                                /\ socket'[k] = "open" => socket[k] = "open",
         \/ stage' = stage
         \/ stage = "serving" /\ stage' = "closing"
         \/ stage = "closing" /\ stage' = "terminating"
  PROVE  IInv'
<1>1. TypeOK' /\ NamedSessions'
  BY DEF IInv, TypeOK, NamedSessions, Stages
<1>2. StagesInOrder' /\ ~refused'
  <2>1. AllClosed => AllClosed'
    BY DEF AllClosed, Connected, IInv, TypeOK
  <2> QED
    BY <2>1 DEF IInv, StagesInOrder
<1>3. RoomsMatchConnections'
  <2>1. {k \in Connections : Connected(k)'} = {k \in Connections : Connected(k)}
    OBVIOUS
  <2>2. stage' \in {"serving", "closing", "terminating"}
          => stage \in {"serving", "closing", "terminating"}
    OBVIOUS
  <2>3. ASSUME stage' \in {"serving", "closing", "terminating"}
        PROVE  /\ \A d \in Documents :
                    rooms'[d] = {k \in Connections : session'[k].document = d}
               /\ \A k \in Connections : session'[k].document # Nobody => Connected(k)'
               /\ activeRooms' = Cardinality({session'[k].document : k \in Connections}
                                              \ {Nobody})
    BY <2>2, <2>3 DEF IInv, RoomsMatchConnections
  <2>4. ASSUME stage' \in {"serving", "closing", "terminating"}
        PROVE  wsConnections' = Cardinality({k \in Connections : Connected(k)'})
    <3>1. wsConnections = Cardinality({k \in Connections : Connected(k)})
      BY <2>2, <2>4 DEF IInv, RoomsMatchConnections
    <3> QED
      BY <2>1, <3>1
  <2> QED
    BY <2>3, <2>4 DEF RoomsMatchConnections
<1>4. RosterIsCurrent'
  BY DEF IInv, RosterIsCurrent, Closing, TypeOK
<1> QED
  BY <1>1, <1>2, <1>3, <1>4 DEF IInv

\* The close of a connection takes it out of its room, and tells who stays.
LEMMA SocketClosedKeeps ==
  ASSUME IInv, NEW k \in Connections, SocketClosed(k)
  PROVE  IInv'
<1>1. /\ socket[k] \in {"closing", "terminated"}
      /\ socket' = [socket EXCEPT ![k] = "closed"]
      /\ rooms' = [d \in Documents |->
                     IF d = session[k].document THEN rooms[d] \ {k} ELSE rooms[d]]
      /\ BroadcastPresence(IF Closing \/ session[k].document = Nobody THEN {}
                           ELSE rooms'[session[k].document], session)
      /\ activeRooms' = NonEmpty(rooms')
      /\ session' = [session EXCEPT ![k] = [document |-> Nobody, client |-> Nobody]]
      /\ alive' = [alive EXCEPT ![k] = TRUE] /\ peer' = [peer EXCEPT ![k] = "there"]
      /\ wsConnections' = IF wsConnections = 0 THEN 0 ELSE wsConnections - 1
      /\ UNCHANGED <<stage, database, refused, exited>>
  BY DEF SocketClosed, CloseEvent, LeavesItsRoom, Forgotten, processVars
<1>2. /\ stage \in {"serving", "closing", "terminating"}
      /\ database = "open"
      /\ \A d \in Documents : rooms[d] = {j \in Connections : session[j].document = d}
      /\ \A j \in Connections : session[j].document # Nobody => Connected(j)
      /\ wsConnections = Cardinality({j \in Connections : Connected(j)})
  BY <1>1, ReceivesBeforeClosed
<1>3. /\ session' \in [Connections -> [document : Documents \cup {Nobody},
                                       client : Clients \cup {Nobody}]]
      /\ session'[k].document = Nobody
      /\ \A j \in Connections \ {k} : session'[j] = session[j]
  BY <1>1 DEF IInv, TypeOK
<1>4. /\ socket' \in [Connections -> {"unused", "open", "closing", "terminated", "closed"}]
      /\ socket'[k] = "closed"
      /\ \A j \in Connections \ {k} : socket'[j] = socket[j]
  BY <1>1 DEF IInv, TypeOK
<1>5. \A d \in Documents : rooms'[d] = {j \in Connections : session'[j].document = d}
  <2> SUFFICES ASSUME NEW d \in Documents
               PROVE  rooms'[d] = {j \in Connections : session'[j].document = d}
    OBVIOUS
  <2>1. d # Nobody
    BY RoomsAssumption
  <2>2. {j \in Connections : session'[j].document = d}
          = {j \in Connections : session[j].document = d} \ {k}
    BY <1>3, <2>1
  <2>3. rooms'[d] = rooms[d] \ {k}
    BY <1>1, <1>2
  <2> QED
    BY <1>2, <2>2, <2>3
<1>6. {j \in Connections : Connected(j)'} = {j \in Connections : Connected(j)} \ {k}
  BY <1>1, <1>4 DEF Connected
<1>7. wsConnections' = Cardinality({j \in Connections : Connected(j)'})
  <2> DEFINE before == {j \in Connections : Connected(j)}
  <2>1. before \in SUBSET Connections /\ k \in before
    BY <1>1 DEF Connected
  <2>2. IsFiniteSet(before) /\ Cardinality(before) \in Nat
    BY <2>1, FiniteConnections
  <2>3. Cardinality(before) = wsConnections
    BY <1>2
  <2> HIDE DEF before
  <2>4. Cardinality(before \ {k}) = Cardinality(before) - 1 /\ Cardinality(before) # 0
    BY <2>1, <2>2, FS_RemoveElement, FS_EmptySet
  <2>5. wsConnections' = Cardinality(before \ {k})
    BY <1>1, <2>2, <2>3, <2>4
  <2> QED
    BY <1>6, <2>5 DEF before
<1>8. activeRooms' = Cardinality(Joined(session')) /\ activeRooms' \in Nat
  <2>1. NonEmpty(rooms') = Cardinality(Joined(session'))
    BY <1>3, <1>5, OccupiedAreJoined
  <2>2. Cardinality(Joined(session')) \in Nat
    BY JoinedAreFinite
  <2> QED
    BY <1>1, <2>1, <2>2
<1>9. RoomsMatchConnections'
  <2>1. \A j \in Connections : session'[j].document # Nobody => Connected(j)'
    BY <1>2, <1>3, <1>6
  <2> QED
    BY <1>5, <1>7, <1>8, <2>1 DEF RoomsMatchConnections, Joined
<1>10. NamedSessions' /\ StagesInOrder' /\ ~refused'
  <2>1. NamedSessions'
    BY <1>3 DEF IInv, NamedSessions
  <2> QED
    BY <1>1, <1>2, <2>1 DEF IInv, StagesInOrder
<1>11. RosterIsCurrent'
  <2> SUFFICES ASSUME ~Closing, NEW d \in Documents, NEW j \in rooms'[d], socket'[j] = "open"
               PROVE  told'[j] = Participants(rooms'[d], session')
    BY <1>1 DEF RosterIsCurrent, Closing
  <2>1. j \in Connections /\ j # k /\ socket[j] = "open" /\ session[j].document = d
    BY <1>3, <1>4, <1>5
  <2>2. Participants(rooms'[d], session) = Participants(rooms'[d], session')
    <3>1. \A i \in rooms'[d] : session[i].client = session'[i].client
      <4>1. \A i \in rooms'[d] : i \in Connections /\ i # k
        BY <1>3, <1>5, RoomsAssumption
      <4> QED
        BY <1>3, <4>1
    <3> HIDE DEF Participants
    <3> QED
      BY <3>1, ParticipantsOfMembers
  <2>3. CASE session[k].document = d
    <3>1. d # Nobody
      BY RoomsAssumption
    <3> QED
      BY <1>1, <2>1, <2>2, <2>3, <3>1 DEF BroadcastPresence
  <2>4. CASE session[k].document # d
    <3>1. rooms'[d] = rooms[d]
      BY <1>1, <2>4
    <3>2. session[k].document # Nobody => session[k].document \in Documents
      BY DEF IInv, TypeOK
    <3>3. session[k].document # Nobody => j \notin rooms'[session[k].document]
      BY <1>5, <1>3, <2>1, <2>4, <3>2
    <3>4. told'[j] = told[j]
      BY <1>1, <1>4, <2>1, <3>3 DEF BroadcastPresence
    <3>5. told[j] = Participants(rooms[d], session)
      BY <2>1, <3>1 DEF IInv, RosterIsCurrent
    <3> QED
      BY <2>2, <3>1, <3>4, <3>5
  <2> QED
    BY <2>3, <2>4
<1>12. TypeOK'
  <2> DEFINE members == IF Closing \/ session[k].document = Nobody THEN {}
                        ELSE rooms'[session[k].document]
  <2>1. members \in SUBSET Connections /\ \A j \in members : session[j].client \in Clients
    <3>1. session[k].document # Nobody => session[k].document \in Documents
      BY DEF IInv, TypeOK
    <3>2. \A d \in Documents : \A j \in rooms'[d] :
            j \in Connections /\ session[j].document # Nobody
      BY <1>3, <1>5, RoomsAssumption
    <3> QED
      BY <3>1, <3>2 DEF IInv, NamedSessions
  <2>2. BroadcastPresence(members, session)
    BY <1>1
  <2> HIDE DEF members
  <2>3. Participants(members, session) \in SUBSET [client : Clients, joinedAt : Connections]
    BY <2>1, ParticipantsType
  <2>4. told' \in [Connections -> SUBSET [client : Clients, joinedAt : Connections]]
    BY <2>2, <2>3 DEF BroadcastPresence, IInv, TypeOK
  <2>5. rooms' \in [Documents -> SUBSET Connections]
    BY <1>1 DEF IInv, TypeOK
  <2>6. wsConnections' \in Nat
    <3>1. {j \in Connections : Connected(j)'} \in SUBSET Connections
      OBVIOUS
    <3> QED
      BY <1>7, <3>1, FiniteConnections
  <2> QED
    BY <1>1, <1>3, <1>4, <1>8, <2>4, <2>5, <2>6 DEF IInv, TypeOK
<1> QED
  BY <1>9, <1>10, <1>11, <1>12 DEF IInv

\* The sync server is done when no socket is left.
LEMMA SyncServerClosedKeeps ==
  ASSUME IInv, SyncServerClosed
  PROVE  IInv'
<1>1. /\ stage' = "closed" /\ AllClosed /\ AllClosed' /\ stage \in {"closing", "terminating"}
      /\ session' = [k \in Connections |-> [document |-> Nobody, client |-> Nobody]]
      /\ rooms' = [d \in Documents |-> {}] /\ activeRooms' = 0
      /\ UNCHANGED <<socket, alive, peer, told, wsConnections, database, refused, exited>>
  BY DEF SyncServerClosed, peerVars, AllClosed
<1>2. TypeOK' /\ NamedSessions' /\ StagesInOrder' /\ ~refused'
  BY <1>1 DEF IInv, TypeOK, Stages, NamedSessions, StagesInOrder
<1>3. RoomsMatchConnections' /\ RosterIsCurrent'
  BY <1>1 DEF RoomsMatchConnections, RosterIsCurrent, Closing
<1> QED
  BY <1>2, <1>3 DEF IInv

\* Then the database closes.
LEMMA CloseDatabaseKeeps ==
  ASSUME IInv, CloseDatabase
  PROVE  IInv'
<1>1. /\ stage = "closed" /\ stage' = "done" /\ database' = "closed"
      /\ UNCHANGED <<socket, session, rooms, alive, peer, told>>
      /\ UNCHANGED <<activeRooms, wsConnections, refused, exited>>
  BY DEF CloseDatabase, socketVars, peerVars, gaugeVars
<1>2. AllClosed'
  BY <1>1 DEF IInv, StagesInOrder, AllClosed
<1>3. TypeOK' /\ NamedSessions' /\ StagesInOrder' /\ ~refused'
  BY <1>1, <1>2 DEF IInv, TypeOK, Stages, NamedSessions, StagesInOrder
<1>4. RoomsMatchConnections' /\ RosterIsCurrent'
  BY <1>1 DEF RoomsMatchConnections, RosterIsCurrent, Closing
<1> QED
  BY <1>3, <1>4 DEF IInv

\* Nothing is left of a process that has ended.
LEMMA ProcessEndsKeeps ==
  ASSUME IInv, Exit \/ ExitOnTimeout
  PROVE  IInv'
<1>1. /\ socket' = NoMemory.socket /\ session' = NoMemory.session
      /\ rooms' = NoMemory.rooms /\ alive' = NoMemory.alive
      /\ peer' = NoMemory.peer /\ told' = NoMemory.told
      /\ activeRooms' = 0 /\ wsConnections' = 0
      /\ UNCHANGED <<stage, database, refused>>
      /\ \/ stage = "done" /\ exited' = "0"
         \/ exited' = "1"
  BY DEF Exit, ExitOnTimeout, ProcessEnds
<1>2. /\ RoomsMatchConnections' /\ RosterIsCurrent' /\ NamedSessions' /\ AllClosed'
      /\ socket' \in [Connections -> {"unused", "open", "closing", "terminated", "closed"}]
      /\ session' \in [Connections -> [document : Documents \cup {Nobody},
                                       client : Clients \cup {Nobody}]]
      /\ rooms' \in [Documents -> SUBSET Connections]
      /\ alive' \in [Connections -> BOOLEAN]
      /\ peer' \in [Connections -> {"there", "left", "gone"}]
      /\ told' \in [Connections -> SUBSET [client : Clients, joinedAt : Connections]]
  <2>1. /\ \A k \in Connections : /\ socket'[k] = "unused" /\ session'[k].document = Nobody
                                  /\ session'[k].client = Nobody
        /\ \A d \in Documents : rooms'[d] = {} /\ d # Nobody
    BY <1>1, RoomsAssumption DEF NoMemory
  <2>2. {session'[k].document : k \in Connections} \ {Nobody} = {}
    BY <2>1
  <2>3. {k \in Connections : Connected(k)'} = {}
    BY <2>1 DEF Connected
  <2>4. RoomsMatchConnections'
    <3>1. Cardinality({session'[k].document : k \in Connections} \ {Nobody}) = 0
      BY <2>2, FS_EmptySet
    <3>2. Cardinality({k \in Connections : Connected(k)'}) = 0
      BY <2>3, FS_EmptySet
    <3>3. \A d \in Documents : rooms'[d] = {k \in Connections : session'[k].document = d}
      BY <2>1
    <3>4. \A k \in Connections : session'[k].document # Nobody => Connected(k)'
      BY <2>1
    <3>5. activeRooms' = 0 /\ wsConnections' = 0
      BY <1>1
    <3> QED
      BY <3>1, <3>2, <3>3, <3>4, <3>5 DEF RoomsMatchConnections
  <2>5. RosterIsCurrent' /\ NamedSessions' /\ AllClosed'
    BY <2>1 DEF RosterIsCurrent, NamedSessions, AllClosed
  <2> QED
    BY <1>1, <2>4, <2>5 DEF NoMemory
<1>3. TypeOK' /\ StagesInOrder' /\ ~refused'
  BY <1>1, <1>2 DEF IInv, TypeOK, StagesInOrder
<1> QED
  BY <1>2, <1>3 DEF IInv

\* Every step keeps the invariant.
LEMMA NextInvariant == IInv /\ [Next]_vars => IInv'
<1> SUFFICES ASSUME IInv, [Next]_vars PROVE IInv'
  OBVIOUS
<1>1. TypeOK
  BY DEF IInv
<1>2. ASSUME NEW k \in Connections, ClientLeaves(k) PROVE IInv'
  BY <1>1, <1>2, SocketsChange DEF ClientLeaves, TypeOK, Connected, gaugeVars, processVars
<1>3. ASSUME NEW k \in Connections, PeerVanishes(k) PROVE IInv'
  BY <1>1, <1>3, SocketsChange
  DEF PeerVanishes, TypeOK, Connected, socketVars, gaugeVars, processVars
<1>4. ASSUME NEW k \in Connections, Pong(k) PROVE IInv'
  BY <1>1, <1>4, SocketsChange DEF Pong, TypeOK, Connected, peerVars, gaugeVars, processVars
<1>5. ASSUME Heartbeat PROVE IInv'
  BY <1>1, <1>5, SocketsChange
  DEF Heartbeat, Open, TypeOK, Connected, peerVars, gaugeVars, processVars
<1>6. ASSUME Shutdown PROVE IInv'
  BY <1>1, <1>6, SocketsChange DEF Shutdown, Open, TypeOK, Connected, peerVars, gaugeVars
<1>7. ASSUME TerminateClients PROVE IInv'
  BY <1>1, <1>7, SocketsChange DEF TerminateClients, TypeOK, Connected, peerVars, gaugeVars
<1>8. CASE UNCHANGED vars
  BY <1>1, <1>8, SocketsChange
  DEF vars, TypeOK, Connected, socketVars, peerVars, gaugeVars, processVars
<1> QED
  BY <1>2, <1>3, <1>4, <1>5, <1>6, <1>7, <1>8, ConnectKeeps, SubmitKeeps, SocketClosedKeeps,
     JoinKeeps, SyncServerClosedKeeps, CloseDatabaseKeeps, ProcessEndsKeeps
  DEF Next, Close

-------------------------------------------------------------------------------
(* Theorems.                                                               *)

\* The invariant holds in every reachable state of the server's connections.
THEOREM Invariant == Spec => []IInv
BY InitInvariant, NextInvariant, PTL DEF Spec

\* Type correctness: every variable of createSyncServer and of its peers holds
\* values of its kind, and a roster lists clients once with a connection.
THEOREM TypeCorrect == Spec => []TypeOK
BY Invariant, PTL DEF IInv

\* After every join, close, termination and reconnection the last roster a
\* member was sent is the one of its room (broadcastPresence, leaveRoom).
THEOREM RostersStayCurrent == Spec => []RosterIsCurrent
BY Invariant, PTL DEF IInv

\* Rooms, sessions and the two gauges of /metrics follow the sockets, through
\* the heartbeat and up to the last close event of a shutdown.
THEOREM RoomsStayMatched == Spec => []RoomsMatchConnections
BY Invariant, PTL DEF IInv

\* No operation finds the database closed, and the process exits normally only
\* after it has been closed (closeInFlight, onClose, runShutdown).
THEOREM DatabaseIsLast == Spec => []DatabaseClosesLast
<1>1. IInv => DatabaseClosesLast
  BY DEF IInv, StagesInOrder, DatabaseClosesLast
<1> QED
  BY <1>1, Invariant, PTL
===============================================================================
