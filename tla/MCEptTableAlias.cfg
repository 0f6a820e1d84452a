\* ept_add_page / ept_free over guest pages with one bit above the 48-bit EPT reach.
CONSTANTS
  IdxBits = 1
  HiBits = 1
  Frames <- MCFrames
  Offsets <- MCAligned
  HeapBlocks <- MCHeapFull
  MaxAdds = 3
SPECIFICATION Spec
\* The table stops existing at ept_free (handle close); a panic stops the kernel.
CHECK_DEADLOCK FALSE
PROPERTIES
  ImplementsGuestMemory
