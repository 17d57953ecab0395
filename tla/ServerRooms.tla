----------------------------- MODULE ServerRooms -----------------------------
(***************************************************************************)
(* The server's connections as such: who is in which document's room, what *)
(* the rosters say and the clients show of it, the heartbeat that finds    *)
(* dead peers, and the graceful shutdown (sync-server.ts, shutdown.ts,     *)
(* app.ts).  The operations the connections carry are SyncServer's.        *)
(*                                                                         *)
(* A connection is numbered in the order of acceptance, which is the order *)
(* of connectedAt.  The server is one thread: a handler is one action.     *)
(***************************************************************************)
EXTENDS Naturals, FiniteSets, FiniteSetsExt

CONSTANTS
  Clients,          \* client identities
  Documents,
  Nobody,           \* a session that has not joined
  MaxConnections    \* bound: connections in all

ASSUME RoomsAssumption ==
  /\ Nobody \notin Clients \cup Documents
  /\ MaxConnections \in Nat

Connections == 1..MaxConnections

VARIABLES
  socket,       \* readyState of each server-side WebSocket
  session,      \* sessions: the document and client of each connection
  rooms,        \* rooms: the connections joined to each document
  alive,        \* alive: FALSE since a ping that has not been answered
  peer,         \* the client's side: "there", "gone" (half-open), "left"
  told,         \* the last roster sent to the client, which it comes to show
  activeRooms, wsConnections,   \* the gauges of ServerMetrics
  stage,        \* how far the shutdown is
  database,     \* the SQLite database: "open" or "closed"
  refused,      \* ghost: an operation found the database closed
  exited        \* the exit code, or "running"

socketVars == <<socket, session, rooms, alive>>
peerVars == <<peer, told>>
gaugeVars == <<activeRooms, wsConnections>>
processVars == <<stage, database, refused, exited>>
vars == <<socketVars, peerVars, gaugeVars, processVars>>

\* The stages of app.close: preClose closes the sockets, waits at most 500 ms,
\* terminates what is left; then the sync server, then the database.
Stages == {"serving", "closing", "terminating", "closed", "done"}

\* The memory of a process that has just started, and of one that is no more.
NoMemory ==
  [socket |-> [k \in Connections |-> "unused"],
   session |-> [k \in Connections |-> [document |-> Nobody, client |-> Nobody]],
   rooms |-> [d \in Documents |-> {}],
   alive |-> [k \in Connections |-> TRUE],
   peer |-> [k \in Connections |-> "there"],
   told |-> [k \in Connections |-> {}]]

Init ==
  /\ socket = NoMemory.socket /\ session = NoMemory.session
  /\ rooms = NoMemory.rooms /\ alive = NoMemory.alive
  /\ peer = NoMemory.peer /\ told = NoMemory.told
  /\ activeRooms = 0 /\ wsConnections = 0
  /\ stage = "serving" /\ database = "open" /\ refused = FALSE
  /\ exited = "running"

Running == exited = "running"
Closing == stage # "serving"

-------------------------------------------------------------------------------
(* Rooms and rosters.                                                      *)

\* collectPresence: a client once, since the first of its connections.
Participants(members, sessions) ==
  {[client |-> c,
    joinedAt |-> Min({k \in members : sessions[k].client = c})] :
      c \in {sessions[k].client : k \in members}}

\* broadcastPresence: to the members whose socket is open.  A client whose
\* socket has closed empties its roster.
BroadcastPresence(members, sessions) ==
  told' = [k \in Connections |->
             IF k \in members /\ socket[k] = "open" THEN Participants(members, sessions)
             ELSE IF socket'[k] = "closed" THEN {} ELSE told[k]]

NonEmpty(occupied) == Cardinality({d \in Documents : occupied[d] # {}})

\* An upgrade that is let through, and the connection handler.
Connect(k) ==
  /\ Running /\ ~Closing
  /\ socket[k] = "unused" /\ \A j \in 1..(k - 1) : socket[j] # "unused"
  /\ socket' = [socket EXCEPT ![k] = "open"]
  /\ alive' = [alive EXCEPT ![k] = TRUE]
  /\ wsConnections' = wsConnections + 1
  /\ UNCHANGED <<session, rooms, peerVars, activeRooms, processVars>>

\* Frames are read until the peer's close frame, also while closing.
Receives(k) ==
  /\ Running /\ socket[k] \in {"open", "closing"} /\ peer[k] = "there"

\* Mutant: the roster is sent before the session has its client.
JoinUnnamed(k, document, client) ==
  /\ Receives(k) /\ session[k].document = Nobody
  /\ UNCHANGED <<socket, alive, peer, wsConnections, processVars>>
  /\ LET members == rooms[document] \cup {k}
     IN  /\ rooms' = [rooms EXCEPT ![document] = members]
         /\ activeRooms' = NonEmpty(rooms')
         /\ BroadcastPresence(members, session)
  /\ session' = [session EXCEPT ![k] = [document |-> document, client |-> client]]

\* joinSocket, with a cursor the server accepts.
Join(k, document, client) ==
  /\ Receives(k) /\ session[k].document = Nobody
  /\ UNCHANGED <<socket, alive, peer, wsConnections, processVars>>
  /\ LET members == rooms[document] \cup {k}
         joined == [session EXCEPT ![k] = [document |-> document, client |-> client]]
     IN  /\ session' = joined
         /\ rooms' = [rooms EXCEPT ![document] = members]
         /\ activeRooms' = NonEmpty(rooms')
         /\ BroadcastPresence(members, joined)

\* acceptOperation: the append finds the database open or throws.
Submit(k) ==
  /\ Receives(k) /\ session[k].document # Nobody
  /\ refused' = (refused \/ database = "closed")
  /\ UNCHANGED <<socketVars, peerVars, gaugeVars, stage, database, exited>>

Forgotten(k) ==
  /\ session' = [session EXCEPT ![k] = [document |-> Nobody, client |-> Nobody]]
  /\ alive' = [alive EXCEPT ![k] = TRUE] /\ peer' = [peer EXCEPT ![k] = "there"]
  /\ wsConnections' = IF wsConnections = 0 THEN 0 ELSE wsConnections - 1
  /\ UNCHANGED processVars

CloseEvent(k) ==
  /\ Running
  /\ socket[k] = "terminated" \/ (socket[k] = "closing" /\ peer[k] # "gone")
  /\ socket' = [socket EXCEPT ![k] = "closed"]

LeavesItsRoom(k) ==
  rooms' = [d \in Documents |->
              IF d = session[k].document THEN rooms[d] \ {k} ELSE rooms[d]]

\* Mutant: those who stay are not told.
SocketClosedQuietly(k) ==
  /\ CloseEvent(k)
  /\ LeavesItsRoom(k)
  /\ BroadcastPresence({}, session)
  /\ activeRooms' = NonEmpty(rooms')
  /\ Forgotten(k)

\* Mutant: the session is deleted before leaveRoom looks for it.
SocketClosedForgetful(k) ==
  /\ CloseEvent(k)
  /\ BroadcastPresence({}, session)
  /\ Forgotten(k)
  /\ UNCHANGED <<rooms, activeRooms>>

\* The close event of a socket, after the close handshake or a termination:
\* leaveRoom, and the connection is forgotten.
SocketClosed(k) ==
  /\ CloseEvent(k)
  /\ LeavesItsRoom(k)
  /\ BroadcastPresence(IF Closing \/ session[k].document = Nobody THEN {}
                       ELSE rooms'[session[k].document], session)
  /\ activeRooms' = NonEmpty(rooms')
  /\ Forgotten(k)

-------------------------------------------------------------------------------
(* The clients' side (document-sync-client.ts).                            *)

\* suspend or close, or the browser goes: the server reads the close frame.
ClientLeaves(k) ==
  /\ Running /\ socket[k] = "open" /\ peer[k] = "there"
  /\ peer' = [peer EXCEPT ![k] = "left"]
  /\ socket' = [socket EXCEPT ![k] = "closing"]
  /\ UNCHANGED <<session, rooms, alive, told, gaugeVars, processVars>>

\* A peer that vanishes: the server is not told.
PeerVanishes(k) ==
  /\ Running /\ socket[k] = "open" /\ peer[k] = "there"
  /\ peer' = [peer EXCEPT ![k] = "gone"]
  /\ UNCHANGED <<socketVars, told, gaugeVars, processVars>>

-------------------------------------------------------------------------------
(* The heartbeat.                                                          *)

Open == {k \in Connections : socket[k] = "open"}

\* wss.clients: a socket is in it until its close event.
Connected(k) == socket[k] \in {"open", "closing", "terminated"}

\* Mutant: a ping does not leave a mark.
HeartbeatForgives ==
  /\ Running /\ ~Closing
  /\ \E k \in Connections : Connected(k)
  /\ socket' = [k \in Connections |->
                  IF Connected(k) /\ ~alive[k] THEN "terminated" ELSE socket[k]]
  /\ UNCHANGED <<alive, session, rooms, peerVars, gaugeVars, processVars>>

\* One tick: who has not answered since the last one is terminated, also while
\* closing, everyone else who is open is pinged.
Heartbeat ==
  /\ Running /\ ~Closing
  /\ \E k \in Connections : Connected(k)
  /\ socket' = [k \in Connections |->
                  IF Connected(k) /\ ~alive[k] THEN "terminated" ELSE socket[k]]
  /\ alive' = [k \in Connections |-> IF k \in Open THEN FALSE ELSE alive[k]]
  /\ UNCHANGED <<session, rooms, peerVars, gaugeVars, processVars>>

Pong(k) ==
  /\ Running /\ socket[k] = "open" /\ peer[k] = "there" /\ ~alive[k]
  /\ alive' = [alive EXCEPT ![k] = TRUE]
  /\ UNCHANGED <<socket, session, rooms, peerVars, gaugeVars, processVars>>

-------------------------------------------------------------------------------
(* Graceful shutdown.                                                      *)

\* SIGINT or SIGTERM: a second one finds the first in flight.  preClose stops
\* the heartbeat and the upgrades and sends every open socket a close frame.
Shutdown ==
  /\ Running /\ stage = "serving"
  /\ stage' = "closing"
  /\ socket' = [k \in Connections |-> IF k \in Open THEN "closing" ELSE socket[k]]
  /\ UNCHANGED <<session, rooms, alive, peerVars, gaugeVars, database, refused, exited>>

\* Mutant: only sockets that are open are terminated.
TerminateOpenClients ==
  /\ Running /\ stage = "closing"
  /\ stage' = "terminating"
  /\ socket' = [k \in Connections |-> IF k \in Open THEN "terminated" ELSE socket[k]]
  /\ UNCHANGED <<session, rooms, alive, peerVars, gaugeVars, database, refused, exited>>

\* 500 ms are over: the sockets that have not closed are terminated, and
\* frames are read no more.
TerminateClients ==
  /\ Running /\ stage = "closing"
  /\ stage' = "terminating"
  /\ socket' = [k \in Connections |->
                  IF socket[k] = "closing" THEN "terminated" ELSE socket[k]]
  /\ UNCHANGED <<session, rooms, alive, peerVars, gaugeVars, database, refused, exited>>

AllClosed == \A k \in Connections : socket[k] \in {"unused", "closed"}

\* Mutant: the sockets' close events are not awaited.
SyncServerClosedAtOnce ==
  /\ Running /\ stage = "terminating"
  /\ stage' = "closed"
  /\ session' = [k \in Connections |-> [document |-> Nobody, client |-> Nobody]]
  /\ rooms' = [d \in Documents |-> {}]
  /\ activeRooms' = 0
  /\ UNCHANGED <<socket, alive, peerVars, wsConnections, database, refused, exited>>

\* Every socket has closed: the maps are cleared and the sync server is done.
SyncServerClosed ==
  /\ Running /\ stage \in {"closing", "terminating"} /\ AllClosed
  /\ stage' = "closed"
  /\ session' = [k \in Connections |-> [document |-> Nobody, client |-> Nobody]]
  /\ rooms' = [d \in Documents |-> {}]
  /\ activeRooms' = 0
  /\ UNCHANGED <<socket, alive, peerVars, wsConnections, database, refused, exited>>

\* onClose: the database; then app.close has completed and the process exits.
CloseDatabase ==
  /\ Running /\ stage = "closed"
  /\ stage' = "done"
  /\ database' = "closed"
  /\ UNCHANGED <<socketVars, peerVars, gaugeVars, refused, exited>>

ProcessEnds(code) ==
  /\ exited' = code
  /\ socket' = NoMemory.socket /\ session' = NoMemory.session
  /\ rooms' = NoMemory.rooms /\ alive' = NoMemory.alive
  /\ peer' = NoMemory.peer /\ told' = NoMemory.told
  /\ activeRooms' = 0 /\ wsConnections' = 0
  /\ UNCHANGED <<stage, database, refused>>

Exit == Running /\ stage = "done" /\ ProcessEnds("0")

\* SHUTDOWN_TIMEOUT_MS wins the race against app.close.
ExitOnTimeout ==
  Running /\ stage \in {"closing", "terminating", "closed"} /\ ProcessEnds("1")

-------------------------------------------------------------------------------

\* app.close and the end of the process.
Close == TerminateClients \/ SyncServerClosed \/ CloseDatabase \/ Exit

Next ==
  \/ \E k \in Connections :
       \/ Connect(k) \/ Submit(k) \/ SocketClosed(k)
       \/ \E d \in Documents, c \in Clients : Join(k, d, c)
       \/ ClientLeaves(k) \/ PeerVanishes(k) \/ Pong(k)
  \/ Heartbeat \/ Shutdown \/ Close \/ ExitOnTimeout

Spec == Init /\ [][Next]_vars

\* Close events come, the heartbeat's timer fires, promises settle.  That a
\* live peer answers a ping before the next tick is not promised.
Fairness ==
  WF_vars(\E k \in Connections : SocketClosed(k)) /\ WF_vars(Heartbeat) /\ WF_vars(Close)

FairSpec == Spec /\ Fairness

-------------------------------------------------------------------------------
(* Properties.                                                             *)

\* Every variable holds values of its kind.
TypeOK ==
  /\ socket \in [Connections -> {"unused", "open", "closing", "terminated", "closed"}]
  /\ session \in [Connections -> [document : Documents \cup {Nobody},
                                  client : Clients \cup {Nobody}]]
  /\ rooms \in [Documents -> SUBSET Connections]
  /\ alive \in [Connections -> BOOLEAN]
  /\ peer \in [Connections -> {"there", "left", "gone"}]
  /\ told \in [Connections -> SUBSET [client : Clients, joinedAt : Connections]]
  /\ activeRooms \in Nat /\ wsConnections \in Nat
  /\ stage \in Stages /\ database \in {"open", "closed"}
  /\ refused \in BOOLEAN
  /\ exited \in {"running", "0", "1"}

\* "The current room roster": whoever joins, leaves, reconnects while the old
\* connection lingers, or is terminated, the last roster a member was sent
\* describes its room as it is, each client in it once.
RosterIsCurrent ==
  ~Closing =>
    \A d \in Documents : \A k \in rooms[d] :
      socket[k] = "open" => told[k] = Participants(rooms[d], session)

\* The maps and the gauges agree with the sockets: a room has the joined
\* connections that have not closed and no other, a document has a room only
\* then, and /metrics says so.
RoomsMatchConnections ==
  stage \in {"serving", "closing", "terminating"} =>
    /\ \A d \in Documents : rooms[d] = {k \in Connections : session[k].document = d}
    /\ \A k \in Connections : session[k].document # Nobody =>
         Connected(k)
    /\ activeRooms = Cardinality({session[k].document : k \in Connections} \ {Nobody})
    /\ wsConnections =
         Cardinality({k \in Connections : Connected(k)})

\* "SQLite is closed" last: no submitted operation finds it closed, and the
\* process exits 0 only when it is.
DatabaseClosesLast ==
  /\ ~refused
  /\ database = "closed" => AllClosed
  /\ exited = "0" => database = "closed"

\* A peer that has vanished leaves its room, although it never says so.
DeadPeersLeave ==
  []<>(Running => \A k \in Connections :
                    peer[k] = "gone" => \A d \in Documents : k \notin rooms[d])

\* A shutdown that has started ends the process, whatever its peers do, and
\* without the help of the timeout.
ShutdownEnds == Closing ~> ~Running
===============================================================================
