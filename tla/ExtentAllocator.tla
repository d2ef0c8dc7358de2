-------------------------- MODULE ExtentAllocator --------------------------
(***************************************************************************)
(* extentAllocator of maglevalloc.go (and its reserve, in adopt.go) with   *)
(* its real state: the list of free extents, kept sorted by offset and     *)
(* coalesced.  Alloc is first fit; Free appends, sorts and merges          *)
(* neighbours in one pass.  held is the callers' side: the extents their   *)
(* serviceEntries hold.                                                    *)
(***************************************************************************)
EXTENDS HeldExtents, Sequences, SequencesExt

VARIABLE free

vars == <<free, held>>

End(e) == e.offset + e.size

Init ==
  /\ free = <<Extent(0, Total)>>
  /\ held = {}

\* The list with its i-th entry replaced by the entries of mid.
Splice(list, i, mid) ==
  SubSeq(list, 1, i - 1) \o mid \o SubSeq(list, i + 1, Len(list))

Alloc(size) ==
  \E i \in 1 .. Len(free) :
     LET e == free[i]
     IN /\ e.size >= size
        /\ \A j \in 1 .. i - 1 : free[j].size < size
        /\ held' = held \cup {Extent(e.offset, size)}
        /\ free' = Splice(free, i, IF e.size = size THEN << >>
                                   ELSE <<Extent(e.offset + size, e.size - size)>>)

AllocFails(size) ==
  /\ \A i \in 1 .. Len(free) : free[i].size < size
  /\ UNCHANGED vars

\* Mutant: neighbours are not merged.
MergeNever(merged, cur) == Append(merged, cur)

\* One step of Free's merging loop: cur extends the last extent or follows it.
Merge(merged, cur) ==
  IF merged # << >> /\ End(Last(merged)) = cur.offset
  THEN Append(Front(merged), [Last(merged) EXCEPT !.size = @ + cur.size])
  ELSE Append(merged, cur)

Free(e) ==
  /\ held' = held \ {e}
  /\ free' = IF e.size = 0 THEN free
             ELSE FoldLeft(Merge, << >>,
                           SortSeq(Append(free, e), LAMBDA x, y : x.offset < y.offset))

\* Mutant: the space behind e is lost.
ReserveLosesTail(e) ==
  /\ e.size # 0 /\ End(e) <= Total
  /\ \E i \in 1 .. Len(free) :
       LET f == free[i]
       IN /\ f.offset <= e.offset /\ End(e) <= End(f)
          /\ held' = held \cup {e}
          /\ free' = Splice(free, i, IF f.offset < e.offset
                                     THEN <<Extent(f.offset, e.offset - f.offset)>> ELSE << >>)

\* Mutant: only the start of e is looked for in the free list.
ReserveByStart(e) ==
  /\ e.size # 0 /\ End(e) <= Total
  /\ \E i \in 1 .. Len(free) :
       LET f == free[i]
       IN /\ f.offset <= e.offset /\ e.offset < End(f)
          /\ held' = held \cup {e}
          /\ free' = Splice(free, i, IF f.offset < e.offset
                                     THEN <<Extent(f.offset, e.offset - f.offset)>> ELSE << >>)

\* reserve cuts e out of the first free extent that contains it.
Reserve(e) ==
  /\ e.size # 0 /\ End(e) <= Total
  /\ \E i \in 1 .. Len(free) :
       LET f == free[i]
       IN /\ f.offset <= e.offset /\ End(e) <= End(f)
          /\ \A j \in 1 .. i - 1 : ~(free[j].offset <= e.offset /\ End(e) <= End(free[j]))
          /\ held' = held \cup {e}
          /\ free' = Splice(free, i,
                            (IF f.offset < e.offset
                             THEN <<Extent(f.offset, e.offset - f.offset)>> ELSE << >>)
                            \o (IF End(e) < End(f)
                                THEN <<Extent(End(e), End(f) - End(e))>> ELSE << >>))

Next ==
  \/ \E size \in Sizes : Alloc(size) \/ AllocFails(size)
  \/ \E e \in held : Free(e)
  \/ \E offset \in 0 .. Total, size \in 0 .. Total : Reserve(Extent(offset, size))

Spec == Init /\ [][Next]_vars

-----------------------------------------------------------------------------

FreeSlots == UNION {Slots(free[i]) : i \in 1 .. Len(free)}

Abstract == INSTANCE ExtentPool WITH pool <- FreeSlots

\* The list is sorted, has no empty extent and no two extents that touch
\* ("sorted by offset, non-overlapping", maglevalloc.go).
Coalesced ==
  /\ \A i \in 1 .. Len(free) : free[i].size > 0
  /\ \A i \in 1 .. Len(free) - 1 : End(free[i]) < free[i + 1].offset

\* However the table was cut up before, Alloc refuses a size only when no run of
\* free slots is that long, wherever the run's pieces came from.
FailsOnlyWhenFull ==
  \A size \in Sizes : CanTake(FreeSlots, size) => \E i \in 1 .. Len(free) : free[i].size >= size

\* The free list shows every run of free slots as one extent, so that first fit finds
\* what is there (extentAllocator.Free, Alloc and reserve).
FreeListExact == Coalesced /\ FailsOnlyWhenFull

\* The list allocator does what the pool of slots promises: first fit over the
\* list is the lowest run of free slots, Free and reserve change exactly the
\* extent's slots.
RefinesPool == Abstract!PoolSpec

=============================================================================
