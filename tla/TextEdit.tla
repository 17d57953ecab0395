------------------------------- MODULE TextEdit -------------------------------
(***************************************************************************)
(* From a typed text to operations: computeLocalTextEdit of                *)
(* apps/web/src/editor/text-edit.ts, and the operations that               *)
(* persistLocalTextEdit makes of its result.  A text is a sequence of      *)
(* values, one per grapheme.                                               *)
(***************************************************************************)
EXTENDS TextReplica

\* The length of the longest common prefix of two texts: how many of its
\* prefixes are prefixes of the other.
CommonPrefix(current, next) ==
  Cardinality({n \in DOMAIN current : IsPrefix(SubSeq(current, 1, n), next)})

\* The same from the ends, not reaching into the common prefix.
CommonSuffix(current, next, prefix) ==
  CommonPrefix(Reverse(SubSeq(current, prefix + 1, Len(current))),
               Reverse(SubSeq(next, prefix + 1, Len(next))))

ComputeLocalTextEdit(elements, next) ==
  LET current == Values(elements)
      prefix  == CommonPrefix(current, next)
      suffix  == CommonSuffix(current, next, prefix)
  IN  [deleteTargetIds |-> SubSeq([i \in DOMAIN elements |-> elements[i].id],
                                  prefix + 1, Len(current) - suffix),
       insertAfterId   |-> IF prefix = 0 THEN Root ELSE elements[prefix].id,
       insertValues    |-> SubSeq(next, prefix + 1, Len(next) - suffix)]

EditSize(edit) == Len(edit.deleteTargetIds) + Len(edit.insertValues)

\* The deletes first, then the inserted values, each after the one before it;
\* every operation takes the next counter and the next Lamport stamp.
OperationsOfEdit(client, nextCounter, lamportClock, edit) ==
  LET deletes == Len(edit.deleteTargetIds)
      Id(i)   == <<client, nextCounter + i - 1>>
  IN  [i \in 1..EditSize(edit) |->
         IF i <= deletes
         THEN Delete(Id(i), lamportClock + i, edit.deleteTargetIds[i])
         ELSE Insert(Id(i), lamportClock + i,
                     IF i = deletes + 1 THEN edit.insertAfterId ELSE Id(i - 1),
                     edit.insertValues[i - deletes])]
===============================================================================
