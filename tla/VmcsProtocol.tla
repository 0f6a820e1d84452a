---------------------------- MODULE VmcsProtocol ----------------------------
(***************************************************************************)
(* How the one VMCS of a vCPU is made current on the processor the ioctl  *)
(* thread happens to run on (src/main.cpp).  Every VMCS access is          *)
(* bracketed by LOAD_VMCS (line 17: lck_spin_lock, which disables          *)
(* preemption, then VMPTRLD) and RELEASE_VMCS (line 18: VMCLEAR, then      *)
(* unlock); outside the bracket the scheduler may move the thread to any   *)
(* processor.  __launched is never set (line 802), so kvm_run always       *)
(* executes VMLAUNCH, which needs the VMCS in the clear launch state.      *)
(* The ioctls are serialised by the state's ioctl_lock, so one thread      *)
(* performs the operations one after another: KVM_CREATE_VM (VMCLEAR,      *)
(* then vcpu_init inside the bracket), KVM_GET_SREGS/KVM_SET_SREGS (VMCS   *)
(* reads or writes in the bracket) and the iterations of KVM_RUN (writes,  *)
(* VMLAUNCH, reads of the exit record, in the bracket).                    *)
(*                                                                         *)
(* Processor model (SDM 24.1, 24.11): VMPTRLD makes the VMCS active and    *)
(* current on the executing processor; VMCLEAR writes it back, makes it    *)
(* inactive there, clears its launch state and, if it was current there,   *)
(* leaves no current VMCS; a successful VMLAUNCH sets the launch state to  *)
(* launched.                                                               *)
(*                                                                         *)
(* Host state.  Each KVM_RUN iteration, with the lock held and interrupts  *)
(* off, captures the host state of the processor it runs on:               *)
(* init_host_values writes the VMCS host-state area (CR3, segment and TR   *)
(* bases, GDTR/IDTR bases, SYSENTER MSRs), and the asm prologue stores     *)
(* GDTR, IDTR and LDTR into the vcpu.  A VM exit loads the host-state area *)
(* into the processor, and the epilogue reloads the three tables from the  *)
(* vcpu (lldt/lidt/lgdt).  Values are abstracted to the processor they     *)
(* were read on: most of them (GS base, TR, GDT, IDT) are per-CPU.         *)
(***************************************************************************)
EXTENDS Naturals, FiniteSets, Sequences

CONSTANTS CPUs,     \* processors the thread can be scheduled on
          MaxOps    \* bound on the operations after KVM_CREATE_VM

VARIABLES cpu,      \* processor the ioctl thread runs on
          locked,   \* vcpu->ioctl_lock (spin lock) held: no migration
          current,  \* current-VMCS pointer of every processor: "V" or "none"
          active,   \* processors on which the VMCS is active
          launch,   \* launch state of the VMCS: "clear" or "launched"
          op,       \* the operation in progress
          tpc,      \* step of the operation
          ops,      \* operations done
          hostArea, \* whose values the VMCS host-state area holds
          savedDt,  \* whose GDTR/IDTR/LDTR vcpu->host_gdtr/idtr/ldtr hold
          cpuState  \* per processor: whose host-area and table values it has loaded

vars == <<cpu, locked, current, active, launch, op, tpc, ops, hostArea,
          savedDt, cpuState>>
hostVars == <<hostArea, savedDt, cpuState>>

Ops == {"create", "sregs", "run"}

(* The zeroed fields of a fresh (IOCalloc'ed) vcpu and VMCS: no processor. *)
NoCpu == 0
ASSUME NoCpu \notin CPUs

(* Fault-injection variants of Steps: VMPTRLD before the spin lock is      *)
(* taken; the spin lock dropped before VMCLEAR; LOAD_VMCS and RELEASE_VMCS *)
(* hoisted out of the run loop, so two iterations share one bracket; the   *)
(* host state captured once, in vcpu_init, instead of before every entry.  *)
StepsPtrldBeforeLock ==
  [create |-> <<"clear0", "ptrld", "lock", "access", "clear", "unlock">>,
   sregs  |-> <<"ptrld", "lock", "access", "clear", "unlock">>,
   run    |-> <<"ptrld", "lock", "access", "host", "launch", "access", "clear", "unlock">>]
StepsUnlockFirst ==
  [create |-> <<"clear0", "lock", "ptrld", "access", "unlock", "clear">>,
   sregs  |-> <<"lock", "ptrld", "access", "unlock", "clear">>,
   run    |-> <<"lock", "ptrld", "access", "host", "launch", "access", "unlock", "clear">>]
StepsHoisted ==
  [create |-> <<"clear0", "lock", "ptrld", "access", "clear", "unlock">>,
   sregs  |-> <<"lock", "ptrld", "access", "clear", "unlock">>,
   run    |-> <<"lock", "ptrld", "access", "host", "launch", "access",
                "access", "host", "launch", "access", "clear", "unlock">>]
StepsHostAtCreate ==
  [create |-> <<"clear0", "lock", "ptrld", "access", "host", "clear", "unlock">>,
   sregs  |-> <<"lock", "ptrld", "access", "clear", "unlock">>,
   run    |-> <<"lock", "ptrld", "access", "launch", "access", "clear", "unlock">>]

(* The VMCS steps of every operation, in program order: KVM_CREATE_VM     *)
(* (lines 1235-1239), kvm_get_sregs / kvm_set_sregs (607-633, 639-671)     *)
(* and one iteration of the kvm_run_wrapper loop (922-958), in which       *)
(* kvm_run writes the guest registers, captures the host state (690-705)   *)
(* and executes VMLAUNCH.                                                  *)
Steps ==
  [create |-> <<"clear0", "lock", "ptrld", "access", "clear", "unlock">>,
   sregs  |-> <<"lock", "ptrld", "access", "clear", "unlock">>,
   run    |-> <<"lock", "ptrld", "access", "host", "launch", "access", "clear", "unlock">>]

Init ==
  /\ cpu \in CPUs
  /\ locked = FALSE
  /\ current = [c \in CPUs |-> "none"]
  /\ active = {}
  /\ launch = "clear"
  /\ op = "create"
  /\ tpc = 1
  /\ ops = 0
  /\ hostArea = NoCpu
  /\ savedDt = NoCpu
  /\ cpuState = [c \in CPUs |-> [area |-> c, dt |-> c]]

At(step) == tpc <= Len(Steps[op]) /\ Steps[op][tpc] = step
Done == tpc = Len(Steps[op]) + 1

(* The scheduler moves the thread while preemption is enabled.            *)
Migrate ==
  /\ ~locked
  /\ \E c \in CPUs \ {cpu} : cpu' = c
  /\ UNCHANGED <<locked, current, active, launch, op, tpc, ops, hostVars>>

(* lck_spin_lock(vcpu->ioctl_lock): preemption off.                        *)
Lock ==
  /\ At("lock")
  /\ locked' = TRUE
  /\ tpc' = tpc + 1
  /\ UNCHANGED <<cpu, current, active, launch, op, ops, hostVars>>

(* vmcs_load: VMPTRLD on the processor the thread is on.                   *)
Ptrld ==
  /\ At("ptrld")
  /\ current' = [current EXCEPT ![cpu] = "V"]
  /\ active' = active \cup {cpu}
  /\ tpc' = tpc + 1
  /\ UNCHANGED <<cpu, locked, launch, op, ops, hostVars>>

(* vmcs_clear: VMCLEAR on the processor the thread is on (also the bare   *)
(* vmcs_clear of KVM_CREATE_VM at line 1235).                              *)
Clear ==
  /\ At("clear") \/ At("clear0")
  /\ active' = active \ {cpu}
  /\ launch' = "clear"
  /\ current' = [current EXCEPT ![cpu] = "none"]
  /\ tpc' = tpc + 1
  /\ UNCHANGED <<cpu, locked, op, ops, hostVars>>

(* vmcs_readl / vmcs_writel of the operation's fields.                     *)
Access ==
  /\ At("access")
  /\ tpc' = tpc + 1
  /\ UNCHANGED <<cpu, locked, current, active, launch, op, ops, hostVars>>

(* kvm_run, lines 690-705 with init_host_values (447-486): with           *)
(* interrupts off, vmwrite the host-state area and store GDTR, IDTR and    *)
(* LDTR into the vcpu, all read on the processor the thread is on.  A      *)
(* vmwrite with no current VMCS fails and writes nothing.                  *)
HostCapture ==
  /\ At("host")
  /\ hostArea' = IF current[cpu] = "V" THEN cpu ELSE hostArea
  /\ savedDt' = cpu
  /\ tpc' = tpc + 1
  /\ UNCHANGED <<cpu, locked, current, active, launch, op, ops, cpuState>>

(* kvm_run: VMLAUNCH, since __launched stays 0.  It succeeds only on a     *)
(* current VMCS in the clear launch state; the guest then runs until a VM  *)
(* exit, which loads the host-state area into the processor.  Otherwise    *)
(* VMfailValid falls through (the loop breaks after RELEASE_VMCS).  Either *)
(* way the epilogue reloads LDTR, IDTR and GDTR from the vcpu (765-767).   *)
Launch ==
  /\ At("launch")
  /\ LET ok == launch = "clear" /\ current[cpu] = "V"
     IN /\ launch' = IF ok THEN "launched" ELSE launch
        /\ cpuState' = [cpuState EXCEPT
                          ![cpu] = [area |-> IF ok THEN hostArea ELSE @.area,
                                    dt |-> savedDt]]
  /\ tpc' = tpc + 1
  /\ UNCHANGED <<cpu, locked, current, active, op, ops, hostArea, savedDt>>

(* lck_spin_unlock: preemption on again.                                   *)
Unlock ==
  /\ At("unlock")
  /\ locked' = FALSE
  /\ tpc' = tpc + 1
  /\ UNCHANGED <<cpu, current, active, launch, op, ops, hostVars>>

(* The next ioctl on the handle (ioctl_lock serialises them).              *)
Begin(o) ==
  /\ Done /\ ops < MaxOps
  /\ op' = o
  /\ tpc' = 1
  /\ ops' = ops + 1
  /\ UNCHANGED <<cpu, locked, current, active, launch, hostVars>>

Next ==
  \/ Migrate \/ Lock \/ Ptrld \/ Clear \/ Access \/ HostCapture \/ Launch
  \/ Unlock
  \/ \E o \in Ops \ {"create"} : Begin(o)

Spec == Init /\ [][Next]_vars

-----------------------------------------------------------------------------
(* Every vmcs_readl / vmcs_writel of an operation, the host-state writes  *)
(* of init_host_values included, finds the vCPU's VMCS current on the     *)
(* processor the thread runs on at that moment.                           *)
AccessOnCurrent == (At("access") \/ At("host")) => current[cpu] = "V"

(* The VMCS is never active on two processors at once: each VMPTRLD is     *)
(* preceded by a VMCLEAR on the processor where it was last loaded.        *)
NeverActiveTwice == Cardinality(active) <= 1

(* Every VMLAUNCH finds the VMCS current and in the clear launch state,    *)
(* so no iteration of KVM_RUN fails because __launched is never set.       *)
LaunchOnClear == At("launch") => (launch = "clear" /\ current[cpu] = "V")

(* Every processor always holds its own host state: a VM exit never loads  *)
(* into one processor the segment bases, TR, GDT or IDT captured on       *)
(* another, however the thread migrates between KVM_CREATE_VM and the      *)
(* iterations of KVM_RUN; kvm_run must capture them on the processor it    *)
(* enters from, with preemption off until the exit has been handled.       *)
HostStateIntact == \A c \in CPUs : cpuState[c] = [area |-> c, dt |-> c]
=============================================================================
