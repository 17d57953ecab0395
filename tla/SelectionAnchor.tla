--------------------------- MODULE SelectionAnchor ---------------------------
(***************************************************************************)
(* The caret of the editor, kept in terms of elements while operations of  *)
(* others arrive (apps/web/src/editor/selection-anchor.ts).  The textarea  *)
(* counts UTF-16 code units; an element has width[value] of them.          *)
(***************************************************************************)
EXTENDS TextReplica

MaxFallbackTrail == 32

ElementIndexToOffset(elements, width, index) ==
  Loop(0, Min({index, Len(elements)}),
       LAMBDA offset, k : offset + width[elements[k].value])

\* An offset inside an element counts as after it.
OffsetToElementIndex(elements, width, offset) ==
  Min({Len(elements)} \cup
      {index \in 0..Len(elements) : ElementIndexToOffset(elements, width, index) >= offset})

\* Mutant: without the elements before the anchor.
TrailOfOne(elements, index) ==
  IF index = 0 THEN <<Root>> ELSE <<elements[index].id, Root>>

\* The elements before the caret, nearest first.
TrailFrom(elements, index) ==
  Append([i \in 1..Min({index, MaxFallbackTrail}) |-> elements[index + 1 - i].id], Root)

CaptureSelectionAnchor(elements, width, start, end) ==
  [startFallbackTrail |-> TrailFrom(elements, OffsetToElementIndex(elements, width, start)),
   endFallbackTrail   |-> TrailFrom(elements, OffsetToElementIndex(elements, width, end))]

\* After the first candidate that is there; Root always is.
ResolveTrailOffset(elements, width, trail) ==
  LET positionOf(id) == {0 : x \in {id} \cap {Root}} \cup
                        {index \in DOMAIN elements : elements[index].id = id}
      first == Min({i \in DOMAIN trail : positionOf(trail[i]) # {}})
  IN  ElementIndexToOffset(elements, width, Min(positionOf(trail[first])))

ResolveSelectionAnchor(elements, width, anchor) ==
  LET ends == {ResolveTrailOffset(elements, width, anchor.startFallbackTrail),
               ResolveTrailOffset(elements, width, anchor.endFallbackTrail)}
  IN  [start |-> Min(ends), end |-> Max(ends)]
===============================================================================
