------------------------- MODULE MCExtentAllocator -------------------------
(* A table of 7 slots cut up by extents of three sizes. *)
EXTENDS ExtentAllocator

MCTotal == 7
MCSizes == {1, 2, 4}
=============================================================================
