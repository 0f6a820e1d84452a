\* Two KVM_SET_CPUID2 or KVM_SET_MSRS calls on one vcpu, then close.
CONSTANTS
  Functions <- MCFunctions
  Indexes <- MCIndexes
  Values <- MCValues
  CpuidEntries <- MCCpuidEntries
  HostCpuid <- MCHostCpuid
  GuestRax <- MCGuestRax
  GuestRcx <- MCGuestRcx
  Caps <- MCCaps
  MaxEntries = 2
  MaxCalls = 4
SPECIFICATION Spec
\* Nothing happens after the handle is closed or the calls are used up.
CHECK_DEADLOCK FALSE
INVARIANTS
  TablesReleasedAtClose

