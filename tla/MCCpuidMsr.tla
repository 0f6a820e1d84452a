----------------------------- MODULE MCCpuidMsr -----------------------------
(***************************************************************************)
(* Model values for CpuidMsr: leaves 0, 1 and 2, two                      *)
(* sub-leaves, register values with and without every hidden feature bit  *)
(* (and AVX, bit 28, which is not hidden), override entries that repeat   *)
(* (function, index) with different values, and guest RAX/RCX with upper  *)
(* bits set.  The processor's answer differs from every override value.   *)
(***************************************************************************)
EXTENDS CpuidMsr

MCFunctions == {0, 1, 2}
MCIndexes == {0, 1}
NoBits == {}
AllBits == {0, 9, 19, 20, 25, 26, 27, 28}
HostBits == {0, 25, 28}
MCValues == {NoBits, AllBits, HostBits}
Entry(f, i, v) == [function |-> f, index |-> i, eax |-> v, ebx |-> v, ecx |-> v, edx |-> v]
MCCpuidEntries == {Entry(1, 0, AllBits), Entry(1, 0, NoBits), Entry(0, 1, AllBits)}
MCHostCpuid(f, i) == [eax |-> HostBits, ebx |-> HostBits, ecx |-> HostBits, edx |-> HostBits]
MCGuestRax == {[hi |-> 0, lo |-> 1], [hi |-> 1, lo |-> 1], [hi |-> 0, lo |-> 0]}
MCGuestRcx == {[hi |-> 0, lo |-> 0], [hi |-> 1, lo |-> 1]}
MCCaps == {"USER_MEMORY", "IRQCHIP"}
=============================================================================
