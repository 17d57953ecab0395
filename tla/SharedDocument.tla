---------------------------- MODULE SharedDocument ----------------------------
(***************************************************************************)
(* What the system promises for one document, without connections,         *)
(* messages, cursors or outboxes: users write operations into their own    *)
(* replica at once, every operation is published at most once in one       *)
(* order, and a replica learns published operations and nothing else.      *)
(* Since a replica's text is a function of the set of operations it knows, *)
(* replicas that have learned everything show the same text.               *)
(***************************************************************************)
EXTENDS Operations

VARIABLES
  written,    \* every operation ever created
  published,  \* the operations in the shared order
  replica     \* the operations each client knows

vars == <<written, published, replica>>

Init ==
  /\ written = {}
  /\ published = <<>>
  /\ replica = [c \in Clients |-> {}]

\* What replica c gains in this step; no other replica changes.
Gained(c) == replica'[c] \ replica[c]

OnlyGains(c) ==
  replica' = [replica EXCEPT ![c] = @ \cup Gained(c)]

\* A client creates operations.  Their identities are new and its own, their
\* stamps exceed all it knows, and they depend on what it knows.
Write(c) ==
  /\ OnlyGains(c)
  /\ Gained(c) # {}
  /\ \A operation \in Gained(c) :
       /\ operation.id[1] = c
       /\ operation.id \notin Ids(written)
       /\ operation.dependsOn \subseteq Ids(replica'[c])
       /\ \A known \in replica[c] : known.lamport < operation.lamport
  /\ written' = written \cup Gained(c)
  /\ UNCHANGED published

\* The server gives a written operation its place in the order.
Publish ==
  /\ Len(published') = Len(published) + 1
  /\ published' = Append(published, published'[Len(published')])
  /\ published'[Len(published')] \in written \ Range(published)
  /\ UNCHANGED <<written, replica>>

Learn(c) ==
  /\ OnlyGains(c)
  /\ Gained(c) \subseteq Range(published)
  /\ UNCHANGED <<written, published>>

Next ==
  \/ Publish
  \/ \E c \in Clients : Write(c) \/ Learn(c)

Spec == Init /\ [][Next]_vars
===============================================================================
