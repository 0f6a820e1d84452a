------------------------------ MODULE CpuidMsr ------------------------------
(***************************************************************************)
(* The CPUID and MSR override tables of a vcpu and the capability queries  *)
(* (src/main.cpp): KVM_SET_CPUID2 (kvm_set_cpuid2, 996-1009) and          *)
(* KVM_SET_MSRS (kvm_set_msrs, 983-994) install a table, the CPUID exit   *)
(* (handle_cpuid, 239-304) looks the guest's leaf up in it and masks the  *)
(* feature leaf, KVM_GET_SUPPORTED_CPUID, KVM_GET_MSR_INDEX_LIST and      *)
(* KVM_CHECK_EXTENSION answer fixed lists, and kvm_dev_close frees both   *)
(* tables (1167-1168).  All of it runs under the state's ioctl_lock, so    *)
(* the operations are atomic steps of one thread.                          *)
(*                                                                         *)
(* A 32-bit register value is the set of its 1 bits, restricted to the     *)
(* feature bits the masking of handle_cpuid tells apart.  A heap buffer is *)
(* an allocation number; "bufs" records its size and what IOFree gave back.*)
(***************************************************************************)
EXTENDS Naturals, Sequences, SequencesExt

CONSTANTS Functions,   \* CPUID leaves (EAX) the tables and the guest use
          Indexes,     \* sub-leaves (ECX)
          Values,      \* register values: sets of bit positions
          CpuidEntries, \* kvm_cpuid_entry2 values userspace may pass
          HostCpuid(_, _), \* what the processor's CPUID returns for a leaf
          GuestRax,    \* RAX values of the guest's CPUID, as [hi, lo] halves
          GuestRcx,    \* RCX values of the guest's CPUID, as [hi, lo] halves
          Caps,        \* capabilities userspace may ask about
          MaxEntries,  \* nent / nmsrs of a table
          MaxCalls     \* bound on the ioctls

NULL == 0
EntryType == [function : Functions, index : Indexes,
            eax : Values, ebx : Values, ecx : Values, edx : Values]
\* An entry of a table IOCalloc zeroed and copyin did not fill.
ZeroEntry == [function |-> 0, index |-> 0,
              eax |-> {}, ebx |-> {}, ecx |-> {}, edx |-> {}]
Tables == SeqOf(CpuidEntries, MaxEntries)
\* (u32) of a 64-bit register given as its upper and lower 32-bit halves.
Low32(x) == x.lo

\* handle_cpuid, function 1: no SSE, SSE2 (edx 25, 26), no SSE3 (ecx 0, 9),
\* no SSE4 (ecx 19, 20), no XSAVE (ecx 26, 27).
EdxMasked == {25, 26}
EcxMasked == {0, 9, 19, 20, 26, 27}

\* KVM_CHECK_EXTENSION's allow-list (lines 1247-1258).
SupportedCaps == {"USER_MEMORY", "DESTROY_MEMORY_REGION_WORKS", "SET_TSS_ADDR",
                  "EXT_CPUID", "MP_STATE", "SYNC_MMU", "TSC_CONTROL",
                  "JOIN_MEMORY_REGIONS_WORKS"}
SupportedCpuidCount == 15   \* entries of param[] in kvm_get_supported_cpuid
EmulatedMsrCount == 5       \* entries of emulated_msrs[]
E2BIG == 7

VARIABLES cpuids,       \* vcpu->cpuids: the table (<<>> when NULL)
          cpuid_count,  \* vcpu->cpuid_count
          cpuidBuf,     \* allocation holding vcpu->cpuids, or NULL
          msr_count,    \* vcpu->msr_count
          msrBuf,       \* allocation holding vcpu->msrs, or NULL
          bufs,         \* ghost: every IOCalloc, [size, freed]
          regs,         \* RAX, RBX, RCX, RDX after the last CPUID exit
          query,        \* ghost: RAX, RCX and the table of the last CPUID exit
          ret,          \* return value of the last query ioctl
          alive,        \* the vcpu exists (FALSE after kvm_dev_close)
          calls         \* ioctls and exits so far

vars == <<cpuids, cpuid_count, cpuidBuf, msr_count, msrBuf, bufs, regs,
          query, ret, alive, calls>>

NoQuery == [rax |-> [hi |-> 0, lo |-> 0], rcx |-> [hi |-> 0, lo |-> 0], table |-> <<>>]

(* KVM_CREATE_VM's IOCalloc of the vcpu: no tables, counts 0.              *)
Init ==
  /\ cpuids = <<>> /\ cpuid_count = 0 /\ cpuidBuf = NULL
  /\ msr_count = 0 /\ msrBuf = NULL
  /\ bufs = <<>>
  /\ regs = [eax |-> {}, ebx |-> {}, ecx |-> {}, edx |-> {}]
  /\ query = NoQuery
  /\ ret = 0
  /\ alive = TRUE
  /\ calls = 0

Call == alive /\ calls < MaxCalls /\ calls' = calls + 1

(* IOCalloc(n * size): a new allocation, or NULL for n = 0.                *)
Alloc(n) == IF n = 0 THEN NULL ELSE Len(bufs) + 1
AllocBufs(n) == IF n = 0 THEN bufs
                ELSE Append(bufs, [size |-> n, freed |-> 0])
(* IOFree(p, n * size) records the size given back.                        *)
Free(b, p, n) == IF p = NULL THEN b ELSE [b EXCEPT ![p].freed = @ + n]

-----------------------------------------------------------------------------
(* Fault-injection variant of kvm_set_cpuid2: the count stored one larger *)
(* than the entries allocated and copied (nent + 1).                       *)
kvm_set_cpuid2_count_plus_one(tab) ==
  LET n == Len(tab) IN
  /\ Call
  /\ cpuid_count' = n + 1
  /\ cpuidBuf' = Alloc(n)
  /\ bufs' = AllocBufs(n)
  /\ \/ cpuids' = tab
     \/ n > 0 /\ cpuids' = [k \in 1..n |-> ZeroEntry]
  /\ ret' = 0
  /\ UNCHANGED <<msr_count, msrBuf, regs, query, alive>>

(* kvm_set_cpuid2: cpuid_count = nent, a fresh zeroed table for it, then   *)
(* copyin of the entries, whose result is ignored (a failed copyin leaves  *)
(* the zeroed entries).  The previous table is not freed.                  *)
kvm_set_cpuid2(tab) ==
  LET n == Len(tab) IN
  /\ Call
  /\ cpuid_count' = n
  /\ cpuidBuf' = Alloc(n)
  /\ bufs' = AllocBufs(n)
  /\ \/ cpuids' = tab
     \/ n > 0 /\ cpuids' = [k \in 1..n |-> ZeroEntry]
  /\ ret' = 0
  /\ UNCHANGED <<msr_count, msrBuf, regs, query, alive>>

(* kvm_set_msrs: the same for the MSR table, which no handler reads.       *)
kvm_set_msrs(n) ==
  /\ Call
  /\ msr_count' = n
  /\ msrBuf' = Alloc(n)
  /\ bufs' = AllocBufs(n)
  /\ ret' = 0
  /\ UNCHANGED <<cpuids, cpuid_count, cpuidBuf, regs, query, alive>>

(* Fault-injection variant of the loop: no break, so the last matching    *)
(* entry wins.                                                             *)
RECURSIVE CpuidScanNoBreak(_, _, _, _, _)
CpuidScanNoBreak(tab, n, i, function, ecx) ==
  IF i > n THEN 0
  ELSE LET later == CpuidScanNoBreak(tab, n, i + 1, function, ecx) IN
       IF later # 0 THEN later
       ELSE IF tab[i].function = function /\ tab[i].index = ecx THEN i ELSE 0

(* The for loop of handle_cpuid: the first i < cpuid_count whose function  *)
(* and index equal the guest's, or 0 when there is none.                   *)
RECURSIVE CpuidScan(_, _, _, _, _)
CpuidScan(tab, n, i, function, ecx) ==
  IF i > n THEN 0
  ELSE IF tab[i].function = function /\ tab[i].index = ecx THEN i
  ELSE CpuidScan(tab, n, i + 1, function, ecx)

EntryRegs(e) == [eax |-> e.eax, ebx |-> e.ebx, ecx |-> e.ecx, edx |-> e.edx]

(* The feature masking of function 1, after the lookup.                   *)
MaskLeaf(function, r) ==
  IF function = 1 THEN [r EXCEPT !.edx = @ \ EdxMasked, !.ecx = @ \ EcxMasked]
  ELSE r

(* handle_cpuid: function = eax = (u32)RAX, ecx = (u32)RCX; the table     *)
(* entry found, else the processor's own CPUID for (function, ecx); the   *)
(* masking; the four results written to the guest's registers.            *)
handle_cpuid(rax, rcx) ==
  LET function == Low32(rax)
      ecx      == Low32(rcx)
      i        == CpuidScan(cpuids, cpuid_count, 1, function, ecx)
      found    == IF i = 0 THEN HostCpuid(function, ecx) ELSE EntryRegs(cpuids[i])
  IN /\ Call
     /\ regs' = MaskLeaf(function, found)
     /\ query' = [rax |-> rax, rcx |-> rcx, table |-> cpuids]
     /\ UNCHANGED <<cpuids, cpuid_count, cpuidBuf, msr_count, msrBuf, bufs,
                    ret, alive>>

(* kvm_get_supported_cpuid: E2BIG when nent is below the 15 leaves, else  *)
(* nent = 15 and the processor's values are copied out.                   *)
kvm_get_supported_cpuid(nent) ==
  /\ Call
  /\ ret' = IF nent < SupportedCpuidCount THEN E2BIG ELSE 0
  /\ UNCHANGED <<cpuids, cpuid_count, cpuidBuf, msr_count, msrBuf, bufs,
                 regs, query, alive>>

(* kvm_get_msr_index_list: E2BIG below the 5 emulated MSRs.               *)
kvm_get_msr_index_list(nmsrs) ==
  /\ Call
  /\ ret' = IF nmsrs < EmulatedMsrCount THEN E2BIG ELSE 0
  /\ UNCHANGED <<cpuids, cpuid_count, cpuidBuf, msr_count, msrBuf, bufs,
                 regs, query, alive>>

(* KVM_CHECK_EXTENSION: 1 for the allow-list, 0 otherwise.                *)
kvm_check_extension(cap) ==
  /\ Call
  /\ ret' = IF cap \in SupportedCaps THEN 1 ELSE 0
  /\ UNCHANGED <<cpuids, cpuid_count, cpuidBuf, msr_count, msrBuf, bufs,
                 regs, query, alive>>

(* kvm_dev_close's IOFree of the two tables, with the current counts.      *)
CloseTables ==
  /\ alive
  /\ bufs' = Free(Free(bufs, msrBuf, msr_count), cpuidBuf, cpuid_count)
  /\ alive' = FALSE
  /\ UNCHANGED <<cpuids, cpuid_count, cpuidBuf, msr_count, msrBuf, regs,
                 query, ret, calls>>

Next ==
  \/ \E tab \in Tables : kvm_set_cpuid2(tab)
  \/ \E n \in 0..MaxEntries : kvm_set_msrs(n)
  \/ \E rax \in GuestRax, rcx \in GuestRcx : handle_cpuid(rax, rcx)
  \/ \E n \in {SupportedCpuidCount - 1, SupportedCpuidCount} :
       kvm_get_supported_cpuid(n)
  \/ \E n \in {EmulatedMsrCount - 1, EmulatedMsrCount} :
       kvm_get_msr_index_list(n)
  \/ \E c \in Caps : kvm_check_extension(c)
  \/ CloseTables

Spec == Init /\ [][Next]_vars

-----------------------------------------------------------------------------
TypeOK ==
  /\ cpuids \in Seq(EntryType \cup {ZeroEntry})
  /\ cpuid_count \in 0..MaxEntries /\ msr_count \in 0..MaxEntries
  /\ cpuidBuf \in 0..Len(bufs) /\ msrBuf \in 0..Len(bufs)
  /\ \A k \in 1..Len(bufs) : bufs[k].size \in 1..MaxEntries /\ bufs[k].freed \in Nat
  /\ regs \in [{"eax", "ebx", "ecx", "edx"} -> SUBSET UNION Values]
  /\ alive \in BOOLEAN /\ calls \in 0..MaxCalls

(* What the spec (4.2, 8) says the guest sees on CPUID, from the leaf      *)
(* (EAX) and sub-leaf (ECX) it asked for: the values of the override entry *)
(* with exactly that function and index (the first such entry of the       *)
(* table), or the processor's own values when the table has none; for the *)
(* feature leaf 1, never SSE, SSE2, SSE3, SSSE3, SSE4.1, SSE4.2, XSAVE or  *)
(* OSXSAVE, whatever the table says.                                       *)
HiddenFeatures == [edx |-> {25, 26},                 \* SSE, SSE2
                   ecx |-> {0, 9, 19, 20, 26, 27}]   \* SSE3, SSSE3, SSE4.1/2, XSAVE, OSXSAVE
CpuidSpec(tab, rax, rcx) ==
  LET leaf == rax.lo    \* CPUID reads EAX and ECX only
      sub  == rcx.lo
      k    == SelectInSeq(tab, LAMBDA e : e.function = leaf /\ e.index = sub)
      raw  == IF k = 0 THEN HostCpuid(leaf, sub)
              ELSE [eax |-> tab[k].eax, ebx |-> tab[k].ebx,
                    ecx |-> tab[k].ecx, edx |-> tab[k].edx]
  IN IF leaf # 1 THEN raw
     ELSE [raw EXCEPT !.edx = @ \ HiddenFeatures.edx, !.ecx = @ \ HiddenFeatures.ecx]

(* handle_cpuid's loop over vcpu->cpuids, bounded by vcpu->cpuid_count,    *)
(* and its masking give the guest exactly CpuidSpec for the table the     *)
(* last KVM_SET_CPUID2 installed, for guest RAX/RCX with any upper bits.  *)
CpuidResult == query # NoQuery => regs = CpuidSpec(query.table, query.rax, query.rcx)

(* kvm_dev_close gives back every override table KVM_SET_CPUID2 and        *)
(* KVM_SET_MSRS allocated, once and with the size it was allocated with.  *)
TablesReleasedAtClose ==
  ~alive => \A k \in 1..Len(bufs) : bufs[k].freed = bufs[k].size
=============================================================================
