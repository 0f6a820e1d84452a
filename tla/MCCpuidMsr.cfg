\* Up to two KVM_SET_CPUID2 / KVM_SET_MSRS calls of up to two entries, CPUID
\* exits of the guest, the capability queries, and close.
CONSTANTS
  Functions <- MCFunctions
  Indexes <- MCIndexes
  Values <- MCValues
  CpuidEntries <- MCCpuidEntries
  HostCpuid <- MCHostCpuid
  GuestRax <- MCGuestRax
  GuestRcx <- MCGuestRcx
  Caps <- MCCaps
  MaxEntries = 2
  MaxCalls = 4
SPECIFICATION Spec
\* Nothing happens after the handle is closed or the calls are used up.
CHECK_DEADLOCK FALSE
INVARIANTS
  TypeOK
  CpuidResult
