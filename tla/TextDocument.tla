----------------------------- MODULE TextDocument -----------------------------
(***************************************************************************)
(* The text that a set of operations stands for, without an order of       *)
(* arrival: what every TextReplica that knows the operations must show.    *)
(***************************************************************************)
EXTENDS TextReplica

\* An element, what it was inserted after, and so on: the least set of inserts
\* that has the element and the anchor of each of its members.
Line(insert, inserts) ==
  {x \in inserts : \A S \in SUBSET inserts :
     insert \in S /\ (\A y \in S, anchor \in inserts : anchor.id = y.ref => anchor \in S)
       => x \in S}

\* The inserts whose line begins at Root.
AttachedInserts(known) ==
  {insert \in Inserts(known) : \E first \in Line(insert, Inserts(known)) : first.ref = Root}

\* An element stands before what was inserted after it; of two elements in
\* different branches, the one whose branch is the later edit stands first.
StandsBefore(x, y, line) ==
  /\ x # y
  /\ \/ x \in line[y]
     \/ \E a \in line[x], b \in line[y] :
          /\ a.ref = b.ref
          /\ a.lamport > b.lamport \/ (a.lamport = b.lamport /\ ById(a, b))

DocumentOf(known) ==
  LET visible == {insert \in AttachedInserts(known) :
                    \A delete \in Deletes(known) : delete.ref # insert.id}
      line    == [insert \in visible |-> Line(insert, Inserts(known))]
  IN  Sorted(visible, LAMBDA x, y : StandsBefore(x, y, line))
===============================================================================
