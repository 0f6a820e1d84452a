----------------------------- MODULE MCMemRegion ----------------------------
(* Model values for MemRegion: 16 guest pages, regions of up to two pages *)
(* (so a region can straddle a page table), two calls.                     *)
EXTENDS MemRegion

MCFrames == {1, 2}
MCAligned == {0}
MCHeap == 1 + 3 * 4
=============================================================================
