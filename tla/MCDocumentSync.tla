---------------------------- MODULE MCDocumentSync ----------------------------
(* Small instances of DocumentSync for TLC: how many operations the clients *)
(* create, and how many in one edit.                                        *)
EXTENDS DocumentSync, TLC

CONSTANTS c1, c2

OneByOne == [c \in Clients |-> {1}]

\* c1 creates two operations in one edit.
PairByOne == [c \in Clients |-> IF c = c1 THEN {2} ELSE {1}]

OneEach == [c \in Clients |-> 1]

\* c1 writes, the others read.
OneWriter == [c \in Clients |-> IF c = c1 THEN 1 ELSE 0]

TwoWriter == [c \in Clients |-> IF c = c1 THEN 2 ELSE 0]

TwoAndOne == [c \in Clients |-> IF c = c1 THEN 2 ELSE 1]

ThreeByOne == [c \in Clients |-> IF c = c1 THEN {3} ELSE {1}]

ThreeWriter == [c \in Clients |-> IF c = c1 THEN 3 ELSE 0]
===============================================================================
