\* KVM_SET_USER_MEMORY_REGION over the EPT manager, page-aligned user ranges:
\* two calls of up to two pages each (overlapping, straddling a page table,
\* or failing part-way), then close.
CONSTANTS
  IdxBits = 1
  HiBits = 0
  Frames <- MCFrames
  Offsets <- MCAligned
  HeapBlocks <- MCHeap
  MaxAdds = 4
  MaxPages = 2
  MaxRegions = 2
SPECIFICATION RegionSpec
\* The table stops existing at close.
CHECK_DEADLOCK FALSE
INVARIANTS
  RegionTypeOK
  RegionInstalled
  HwWalkMatchesSwWalk
  FreeReleasesEachBlockOnce
PROPERTIES
  ImplementsGuestMemory
