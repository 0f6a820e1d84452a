------------------------------ MODULE VcpuRun ------------------------------
(***************************************************************************)
(* The vCPU run loop of kvm-kext (src/main.cpp): kvm_run_wrapper, the      *)
(* world switch kvm_run, the exit dispatch table kvm_vmx_exit_handlers and *)
(* its handlers, interrupt injection from the pending_irq bitmap, and the  *)
(* KVM_IRQ_LINE ioctl that sets bits of that bitmap from a second thread.  *)
(*                                                                         *)
(* Two threads touch the vCPU.  The run thread issues KVM_RUN and          *)
(* KVM_SET_SREGS; kvm_dev_ioctl serialises those under state->ioctl_lock.  *)
(* The interrupt thread issues KVM_IRQ_LINE under state->irq_lock only     *)
(* (main.cpp:1207-1208), so its update of pending_irq runs concurrently    *)
(* with the run loop's update of the same word.  Each such update is a     *)
(* read-modify-write that is not atomic across processors; it is modelled  *)
(* as a read step and a later write step.                                  *)
(*                                                                         *)
(* The hardware (VMLAUNCH and the guest until its next exit) is the        *)
(* environment: it may exit for any reason the controls written by         *)
(* vcpu_init allow, or fail the entry.  Data that no property tells apart  *)
(* (register values, ports, I/O data, RIP) is abstracted away; an exit     *)
(* qualification is reduced to the cases the handlers distinguish.         *)
(***************************************************************************)
EXTENDS Naturals, FiniteSets, FiniteSetsExt

CONSTANTS
  Lines,          \* interrupt lines modelled, a subset of 0..IRQ_MAX-1; 0 is the timer line
  MaxCont,        \* bound of the run loop (1000 in kvm_run_wrapper)
  MaxRuns,        \* number of KVM_RUN ioctls explored
  EntryFailures,  \* the VM-entry failures the hardware may produce
  NoEvent         \* model value: no event in VM_ENTRY_INTR_INFO_FIELD

ASSUME 0 \in Lines /\ Lines \subseteq 0..15
ASSUME MaxCont \in Nat \ {0} /\ MaxRuns \in Nat
ASSUME EntryFailures \subseteq {"VMfailValid", "InvalidGuest"}

VARIABLES
  pc,             \* run thread: position in kvm_run_wrapper, "idle" outside KVM_RUN
  exit_reason,    \* kvm_run_wrapper's local copy of the last exit reason
  maxcont,        \* kvm_run_wrapper's iteration counter
  cont,           \* result of the last handler: continue the loop
  intr_info,      \* event chosen for injection in this iteration, or NoEvent
  irqSnap,        \* pending_irq as read by the run thread's clear (line 916)
  vmcs,           \* the VMCS fields the loop reads and writes
  paging,         \* vcpu->paging
  pending_io,     \* vcpu->pending_io: an IN awaits its data from userspace
  pending_irq,    \* vcpu->pending_irq, as the set of its bits
  irq_level,      \* vcpu->irq_level
  kvmExitReason,  \* kvm_run->exit_reason, read by userspace after KVM_RUN
  ipc,            \* interrupt thread: "idle" or "write" (inside its |=)
  iline,          \* line the interrupt thread is raising
  isnap,          \* pending_irq as read by the interrupt thread's |=
  owed,           \* ghost: lines whose rising edge was accepted and not yet delivered
  freshIo,        \* ghost: an IO exit really happened during this KVM_RUN
  runs            \* ghost: KVM_RUN ioctls issued

vars == <<pc, exit_reason, maxcont, cont, intr_info, irqSnap, vmcs, paging,
          pending_io, pending_irq, irq_level, kvmExitReason, ipc, iline,
          isnap, owed, freshIo, runs>>
runVars == <<pc, exit_reason, maxcont, cont, intr_info, irqSnap, runs>>
irqVars == <<ipc, iline, isnap, irq_level>>

-----------------------------------------------------------------------------
(* Exit reasons (VM_EXIT_REASON) and the qualification cases handlers      *)
(* distinguish.  ENTRY_FAILURE stands for a reason with bit 31 set, which  *)
(* is never below kvm_vmx_max_exit_handlers.                               *)
Reasons == {"EXCEPTION_NMI", "EXTERNAL_INTERRUPT", "TASK_SWITCH", "CPUID",
            "CR_ACCESS", "DR_ACCESS", "IO_INSTRUCTION", "MSR_READ",
            "MSR_WRITE", "PENDING_INTERRUPT", "PREEMPTION_TIMER",
            "APIC_ACCESS", "EPT_VIOLATION", "ENTRY_FAILURE"}
Quals == {"none", "in", "out", "cr0_pg_on", "cr0_pg_off", "cr4", "zero", "nonzero"}

(* The reasons kvm_vmx_exit_handlers has an entry for.                     *)
ExitHandlers == {"EXTERNAL_INTERRUPT", "CPUID", "IO_INSTRUCTION", "MSR_READ",
                 "MSR_WRITE", "EPT_VIOLATION", "PREEMPTION_TIMER",
                 "APIC_ACCESS", "PENDING_INTERRUPT", "CR_ACCESS",
                 "DR_ACCESS", "TASK_SWITCH"}

Event == [line : Lines, vector : Nat]

(* A CR0 value as the set of its bits; of the guest's own bits only PG    *)
(* (31) is modelled.  A guest MOV to CR0 writes bits 63:32 as 0 (they are  *)
(* reserved; a 32-bit operand is zero-extended).                           *)
PgBits(pg) == IF pg THEN {31} ELSE {}
Cr0Writes == {PgBits(FALSE), PgBits(TRUE)}

(* The C expression (1 << 31) is an int whose bit 31 is its sign bit (the  *)
(* compiler gives INT_MIN); as the u64 argument of vmcs_write64 it is      *)
(* sign-extended, which sets bits 63:32 as well.                           *)
IntOneShl31 == {31}
U64OfInt(b) == IF 31 \in b THEN b \cup 32..63 ELSE b

(* The vector base used for injection: 0x30 once the guest enabled paging, *)
(* 8 before.                                                               *)
VectorBase(pg) == IF pg THEN 48 ELSE 8

(* Exits the guest can cause under the controls vcpu_init writes: every    *)
(* I/O (UNCOND_IO_EXITING), CPUID, MSR access (no MSR bitmap), MOV DR,     *)
(* APIC page access, EPT violation, task switch, external interrupt and    *)
(* NMI; a MOV to CR0 only when the value written differs from            *)
(* CR0_READ_SHADOW in a bit of CR0_GUEST_HOST_MASK; a MOV to CR4 that sets *)
(* VMXE (CR4_GUEST_HOST_MASK); an interrupt-window exit only while         *)
(* VIRTUAL_INTR_PENDING is set.                                            *)
(* CR3 load/store exiting is cleared and the preemption timer is not       *)
(* enabled, so those exits never happen.                                   *)
GuestExits ==
     {[reason |-> r, qual |-> "none"] :
        r \in {"EXCEPTION_NMI", "TASK_SWITCH", "CPUID", "DR_ACCESS", "MSR_READ",
               "MSR_WRITE", "APIC_ACCESS", "EPT_VIOLATION"}}
  \cup {[reason |-> "IO_INSTRUCTION", qual |-> q] : q \in {"in", "out"}}
  \cup {[reason |-> "EXTERNAL_INTERRUPT", qual |-> q] : q \in {"zero", "nonzero"}}
  \cup {[reason |-> "CR_ACCESS", qual |-> "cr4"]}
  \cup {[reason |-> "CR_ACCESS", qual |-> IF 31 \in v THEN "cr0_pg_on" ELSE "cr0_pg_off"] :
          v \in {v \in Cr0Writes : v \cap vmcs.cr0Mask # vmcs.shadow \cap vmcs.cr0Mask}}
  \cup (IF vmcs.intrWindow
          THEN {[reason |-> "PENDING_INTERRUPT", qual |-> "none"]} ELSE {})

(* The CR0 a guest MOV from CR0 returns: the bits of CR0_GUEST_HOST_MASK   *)
(* come from CR0_READ_SHADOW, the others from GUEST_CR0.                   *)
GuestCr0Read == (PgBits(vmcs.cr0PG) \ vmcs.cr0Mask) \cup (vmcs.shadow \cap vmcs.cr0Mask)

(* VM entry checks CR0.PG (and PE) unless unrestricted guest is on.        *)
GuestStateValid == vmcs.unrestricted \/ vmcs.cr0PG

-----------------------------------------------------------------------------
(* State after KVM_CREATE_VM: the vcpu is IOCalloc'ed (all zero) and       *)
(* vcpu_init writes the controls: no VIRTUAL_INTR_PENDING, unrestricted    *)
(* guest on, CR0_GUEST_HOST_MASK (1 << 31), CR0_READ_SHADOW 0.  GUEST_CR0  *)
(* is not written and reads 0.                                             *)
Init ==
  /\ pc = "idle"
  /\ exit_reason = "EXCEPTION_NMI"
  /\ maxcont = 0
  /\ cont = TRUE
  /\ intr_info = NoEvent
  /\ irqSnap = {}
  /\ vmcs = [exitReason |-> "EXCEPTION_NMI", qual |-> "none", error |-> FALSE,
             event |-> NoEvent, intrWindow |-> FALSE, cr0PG |-> FALSE,
             cr0Mask |-> U64OfInt(IntOneShl31), shadow |-> {},
             unrestricted |-> TRUE]
  /\ paging = FALSE
  /\ pending_io = FALSE
  /\ pending_irq = {}
  /\ irq_level = [l \in Lines |-> 0]
  /\ kvmExitReason = "UNKNOWN"
  /\ ipc = "idle"
  /\ iline = 0
  /\ isnap = {}
  /\ owed = {}
  /\ freshIo = FALSE
  /\ runs = 0

-----------------------------------------------------------------------------
(* KVM_RUN enters kvm_run_wrapper: a pending IN is completed into RAX,     *)
(* kvm_run->exit_reason is reset and the loop state initialised.  The      *)
(* local exit_reason starts at 0, which is EXCEPTION_NMI.                  *)
KvmRun ==
  /\ pc = "idle"
  /\ runs < MaxRuns
  /\ pending_io' = FALSE
  /\ kvmExitReason' = "UNKNOWN"
  /\ exit_reason' = "EXCEPTION_NMI"
  /\ maxcont' = 0
  /\ cont' = TRUE
  /\ freshIo' = FALSE
  /\ runs' = runs + 1
  /\ pc' = "top"
  /\ UNCHANGED <<intr_info, irqSnap, vmcs, paging, pending_irq, owed, irqVars>>

(* Fault-injection variants of LoopEnter: the counter never advances, or  *)
(* the bound is tested with <= (one iteration too many).                   *)
LoopEnterNoCount ==
  /\ pc = "top"
  /\ cont /\ maxcont < MaxCont
  /\ maxcont' = maxcont
  /\ intr_info' = NoEvent
  /\ pc' = IF exit_reason = "PENDING_INTERRUPT" THEN "inject" ELSE "load"
  /\ UNCHANGED <<exit_reason, cont, irqSnap, runs, vmcs, paging, pending_io,
                 pending_irq, kvmExitReason, owed, freshIo, ipc, iline, isnap, irq_level>>
LoopEnterOffByOne ==
  /\ pc = "top"
  /\ cont /\ maxcont <= MaxCont
  /\ maxcont' = maxcont + 1
  /\ intr_info' = NoEvent
  /\ pc' = IF exit_reason = "PENDING_INTERRUPT" THEN "inject" ELSE "load"
  /\ UNCHANGED <<exit_reason, cont, irqSnap, runs, vmcs, paging, pending_io,
                 pending_irq, kvmExitReason, owed, freshIo, ipc, iline, isnap, irq_level>>

(* while (cont && (maxcont++) < 1000): start an iteration; injection is    *)
(* tried only right after an interrupt-window exit.                        *)
LoopEnter ==
  /\ pc = "top"
  /\ cont /\ maxcont < MaxCont
  /\ maxcont' = maxcont + 1
  /\ intr_info' = NoEvent
  /\ pc' = IF exit_reason = "PENDING_INTERRUPT" THEN "inject" ELSE "load"
  /\ UNCHANGED <<exit_reason, cont, irqSnap, runs, vmcs, paging, pending_io,
                 pending_irq, kvmExitReason, owed, freshIo, irqVars>>

(* The loop ends (a handler said stop, or the bound is reached) and        *)
(* kvm_run_wrapper returns 0.                                              *)
LoopExit ==
  /\ pc = "top"
  /\ ~(cont /\ maxcont < MaxCont)
  /\ pc' = "idle"
  /\ UNCHANGED <<exit_reason, maxcont, cont, intr_info, irqSnap, runs, vmcs,
                 paging, pending_io, pending_irq, kvmExitReason, owed,
                 freshIo, irqVars>>

(* The scan runs only after an interrupt-window exit, and the window is   *)
(* requested only while pending_irq is non-empty.  No step empties the     *)
(* word between that request and the scan (kvm_irq_line only ever adds a   *)
(* line), so the for loop always finds a line and InjectPick is the only   *)
(* outcome of the scan.                                                    *)

(* The scan picks the lowest pending line and builds the event; the        *)
(* pending_irq &= ~(1<<i) that follows reads the word here.                *)
InjectPick ==
  /\ pc = "inject"
  /\ pending_irq # {}
  /\ LET i == Min(pending_irq)
     IN intr_info' = [line |-> i, vector |-> i + VectorBase(paging)]
  /\ irqSnap' = pending_irq
  /\ pc' = "clear"
  /\ UNCHANGED <<exit_reason, maxcont, cont, runs, vmcs, paging, pending_io,
                 pending_irq, kvmExitReason, owed, freshIo, irqVars>>

(* ... and writes it back without the injected line.                       *)
InjectClear ==
  /\ pc = "clear"
  /\ pending_irq' = irqSnap \ {intr_info.line}
  /\ pc' = "load"
  /\ UNCHANGED <<exit_reason, maxcont, cont, intr_info, irqSnap, runs, vmcs,
                 paging, pending_io, kvmExitReason, owed, freshIo, irqVars>>

(* LOAD_VMCS; write the chosen event; request an interrupt window iff     *)
(* pending_irq is non-empty now.                                           *)
Load ==
  /\ pc = "load"
  /\ vmcs' = [vmcs EXCEPT
                !.event = IF intr_info # NoEvent THEN intr_info ELSE @,
                !.intrWindow = (pending_irq # {})]
  /\ pc' = "enter"
  /\ UNCHANGED <<exit_reason, maxcont, cont, intr_info, irqSnap, runs, paging,
                 pending_io, pending_irq, kvmExitReason, owed, freshIo, irqVars>>

-----------------------------------------------------------------------------
(* kvm_run: VMLAUNCH.  The entry succeeds, delivers the event held in      *)
(* VM_ENTRY_INTR_INFO_FIELD (the exit clears its valid bit), the guest     *)
(* runs and exits; the loop reads the exit record.                         *)
EnterExit ==
  /\ pc = "enter"
  /\ GuestStateValid
  /\ \E e \in GuestExits :
       /\ vmcs' = [vmcs EXCEPT !.exitReason = e.reason, !.qual = e.qual,
                               !.event = NoEvent]
       /\ exit_reason' = e.reason
       /\ freshIo' = (freshIo \/ e.reason = "IO_INSTRUCTION")
  /\ owed' = IF vmcs.event = NoEvent THEN owed ELSE owed \ {vmcs.event.line}
  /\ pc' = "dispatch"
  /\ UNCHANGED <<maxcont, cont, intr_info, irqSnap, runs, paging, pending_io,
                 pending_irq, kvmExitReason, irqVars>>

(* VMLAUNCH fails with VMfailValid: VM_INSTRUCTION_ERROR is written and    *)
(* stays written (no later instruction clears it); VM_EXIT_REASON,         *)
(* EXIT_QUALIFICATION and the pending event keep their old values, and the *)
(* loop reads the stale exit reason.                                       *)
EnterFailValid ==
  /\ pc = "enter"
  /\ "VMfailValid" \in EntryFailures
  /\ vmcs' = [vmcs EXCEPT !.error = TRUE]
  /\ exit_reason' = vmcs.exitReason
  /\ pc' = "dispatch"
  /\ UNCHANGED <<maxcont, cont, intr_info, irqSnap, runs, paging, pending_io,
                 pending_irq, kvmExitReason, owed, freshIo, irqVars>>

(* VM entry fails on the guest-state checks: an exit with bit 31 of the    *)
(* reason set; the event is not delivered and its valid bit is cleared.    *)
EnterFailGuest ==
  /\ pc = "enter"
  /\ "InvalidGuest" \in EntryFailures \/ ~GuestStateValid
  /\ vmcs' = [vmcs EXCEPT !.exitReason = "ENTRY_FAILURE", !.qual = "none",
                          !.event = NoEvent]
  /\ exit_reason' = "ENTRY_FAILURE"
  /\ pc' = "dispatch"
  /\ UNCHANGED <<maxcont, cont, intr_info, irqSnap, runs, paging, pending_io,
                 pending_irq, kvmExitReason, owed, freshIo, irqVars>>

-----------------------------------------------------------------------------
(* Fault-injection variant of Finish: the error check after the handler is *)
(* missing, so the loop goes on after a failed entry.                      *)
FinishNoErrorBreak(c) ==
  /\ cont' = c
  /\ pc' = "top"

(* The tail every handler shares (lines 953-973): store the handler's     *)
(* result in cont, RELEASE_VMCS, and leave the loop at once when           *)
(* VM_INSTRUCTION_ERROR is non-zero.                                       *)
Finish(c) ==
  /\ cont' = c
  /\ pc' = IF vmcs.error THEN "idle" ELSE "top"

(* The handlers leave these alone unless they say otherwise.               *)
Dispatching(r) == pc = "dispatch" /\ exit_reason = r

(* Fault-injection variant of handle_io: it returns 1 (continue).          *)
handle_io_continues ==
  /\ Dispatching("IO_INSTRUCTION")
  /\ kvmExitReason' = "IO"
  /\ pending_io' = (pending_io \/ vmcs.qual = "in")
  /\ Finish(TRUE)
  /\ UNCHANGED <<exit_reason, maxcont, intr_info, irqSnap, runs, vmcs, paging,
                 pending_irq, owed, freshIo, irqVars>>

(* handle_io: publish the I/O in kvm_run; an OUT copies RAX to the shared  *)
(* page, an IN leaves pending_io set for the next KVM_RUN; skip; stop.     *)
handle_io ==
  /\ Dispatching("IO_INSTRUCTION")
  /\ kvmExitReason' = "IO"
  /\ pending_io' = (pending_io \/ vmcs.qual = "in")
  /\ Finish(FALSE)
  /\ UNCHANGED <<exit_reason, maxcont, intr_info, irqSnap, runs, vmcs, paging,
                 pending_irq, owed, freshIo, irqVars>>

(* The handlers whose effect is on data the model abstracts (registers     *)
(* and RIP): handle_cpuid, handle_rdmsr, handle_wrmsr,                     *)
(* handle_ept_violation, handle_apic_access, handle_dr,                    *)
(* handle_interrupt_window, handle_task_switch.  All continue.             *)
Continuing(r) ==
  /\ Dispatching(r)
  /\ Finish(TRUE)
  /\ UNCHANGED <<exit_reason, maxcont, intr_info, irqSnap, runs, vmcs, paging,
                 pending_io, pending_irq, kvmExitReason, owed, freshIo, irqVars>>

handle_cpuid == Continuing("CPUID")
handle_rdmsr == Continuing("MSR_READ")
handle_wrmsr == Continuing("MSR_WRITE")
handle_ept_violation == Continuing("EPT_VIOLATION")
handle_apic_access == Continuing("APIC_ACCESS")
handle_interrupt_window == Continuing("PENDING_INTERRUPT")
handle_dr == Continuing("DR_ACCESS")
handle_task_switch == Continuing("TASK_SWITCH")

(* handle_external_interrupt: a zero qualification raises the timer line  *)
(* 0 (pending_irq |= 1); a signal pending for the process stops the loop.  *)
handle_external_interrupt ==
  /\ Dispatching("EXTERNAL_INTERRUPT")
  /\ IF vmcs.qual = "zero"
       THEN /\ pending_irq' = pending_irq \cup {0}
            /\ owed' = owed \cup {0}
       ELSE UNCHANGED <<pending_irq, owed>>
  /\ \E signal \in BOOLEAN : Finish(~signal)
  /\ UNCHANGED <<exit_reason, maxcont, intr_info, irqSnap, runs, vmcs, paging,
                 pending_io, kvmExitReason, freshIo, irqVars>>

(* Fault-injection variant of handle_cr: turning paging off forgets to     *)
(* reset CR0_READ_SHADOW.                                                  *)
handle_cr_keeps_shadow ==
  /\ Dispatching("CR_ACCESS")
  /\ CASE vmcs.qual = "cr0_pg_on" ->
            /\ paging' = TRUE
            /\ vmcs' = [vmcs EXCEPT !.cr0PG = TRUE, !.unrestricted = FALSE,
                                    !.shadow = U64OfInt(IntOneShl31)]
       [] vmcs.qual = "cr0_pg_off" ->
            /\ paging' = FALSE
            /\ vmcs' = [vmcs EXCEPT !.cr0PG = FALSE, !.unrestricted = TRUE]
       [] OTHER -> UNCHANGED <<paging, vmcs>>
  /\ Finish(TRUE)
  /\ UNCHANGED <<exit_reason, maxcont, intr_info, irqSnap, runs, pending_io,
                 pending_irq, kvmExitReason, owed, freshIo, irqVars>>

(* handle_cr: a MOV to CR0 writes GUEST_CR0 and, by its bit 31, sets       *)
(* paging, the unrestricted-guest control and CR0_READ_SHADOW; a MOV to    *)
(* CR4 cannot be emulated and only skips.                                  *)
handle_cr ==
  /\ Dispatching("CR_ACCESS")
  /\ CASE vmcs.qual = "cr0_pg_on" ->
            /\ paging' = TRUE
            /\ vmcs' = [vmcs EXCEPT !.cr0PG = TRUE, !.unrestricted = FALSE,
                                    !.shadow = U64OfInt(IntOneShl31)]
       [] vmcs.qual = "cr0_pg_off" ->
            /\ paging' = FALSE
            /\ vmcs' = [vmcs EXCEPT !.cr0PG = FALSE, !.unrestricted = TRUE,
                                    !.shadow = {}]
       [] OTHER -> UNCHANGED <<paging, vmcs>>
  /\ Finish(TRUE)
  /\ UNCHANGED <<exit_reason, maxcont, intr_info, irqSnap, runs, pending_io,
                 pending_irq, kvmExitReason, owed, freshIo, irqVars>>

(* No entry in kvm_vmx_exit_handlers: the loop stops.                      *)
NoHandler ==
  /\ pc = "dispatch"
  /\ exit_reason \notin ExitHandlers
  /\ Finish(FALSE)
  /\ UNCHANGED <<exit_reason, maxcont, intr_info, irqSnap, runs, vmcs, paging,
                 pending_io, pending_irq, kvmExitReason, owed, freshIo, irqVars>>

-----------------------------------------------------------------------------
(* KVM_SET_SREGS (under ioctl_lock, so never during KVM_RUN) writes        *)
(* GUEST_CR0 from userspace, ORed with NE.  It leaves vcpu->paging,        *)
(* CR0_READ_SHADOW and the unrestricted-guest control as they are.         *)
kvm_set_sregs ==
  /\ pc = "idle"
  /\ \E pg \in BOOLEAN : vmcs' = [vmcs EXCEPT !.cr0PG = pg]
  /\ UNCHANGED <<runVars, paging, pending_io, pending_irq, kvmExitReason,
                 owed, freshIo, irqVars>>

(* KVM_IRQ_LINE (kvm_irq_line, under irq_lock only).  A rising edge on a   *)
(* line whose stored level is 0 starts pending_irq |= 1 << irq by reading  *)
(* the word.                                                               *)
IrqLineRise(l) ==
  /\ ipc = "idle"
  /\ irq_level[l] = 0
  /\ isnap' = pending_irq
  /\ iline' = l
  /\ ipc' = "write"
  /\ UNCHANGED <<runVars, vmcs, paging, pending_io, pending_irq, irq_level,
                 kvmExitReason, owed, freshIo>>

(* ... and finishes by writing the word back and storing the level.       *)
IrqLineWrite ==
  /\ ipc = "write"
  /\ pending_irq' = isnap \cup {iline}
  /\ owed' = owed \cup {iline}
  /\ irq_level' = [irq_level EXCEPT ![iline] = 1]
  /\ ipc' = "idle"
  /\ UNCHANGED <<runVars, vmcs, paging, pending_io, kvmExitReason, freshIo,
                 iline, isnap>>

(* Any other call only stores the level.                                   *)
IrqLineLevel(l, level) ==
  /\ ipc = "idle"
  /\ ~(irq_level[l] = 0 /\ level = 1)
  /\ irq_level' = [irq_level EXCEPT ![l] = level]
  /\ UNCHANGED <<runVars, vmcs, paging, pending_io, pending_irq, kvmExitReason,
                 owed, freshIo, ipc, iline, isnap>>

-----------------------------------------------------------------------------
(* The steps of the run thread inside KVM_RUN.                             *)
RunStep ==
  \/ LoopEnter \/ LoopExit \/ InjectPick \/ InjectClear \/ Load
  \/ EnterExit \/ EnterFailValid \/ EnterFailGuest
  \/ handle_io \/ handle_cpuid \/ handle_rdmsr \/ handle_wrmsr
  \/ handle_ept_violation \/ handle_apic_access \/ handle_interrupt_window
  \/ handle_dr \/ handle_task_switch \/ handle_external_interrupt
  \/ handle_cr \/ NoHandler

IrqStep ==
  \/ \E l \in Lines : IrqLineRise(l)
  \/ IrqLineWrite
  \/ \E l \in Lines, level \in {0, 1} : IrqLineLevel(l, level)

Next == KvmRun \/ kvm_set_sregs \/ RunStep \/ IrqStep

(* The run thread is never blocked inside KVM_RUN: the interrupt thread    *)
(* takes another lock, and the guest always exits again (the host timer    *)
(* raises external-interrupt exits).  Userspace need not call anything.    *)
Spec == Init /\ [][Next]_vars /\ WF_vars(RunStep)

-----------------------------------------------------------------------------
(* The locals of kvm_run_wrapper are dead once it returns; states that     *)
(* differ only in them are the same state of the program.                  *)
LiveLocals ==
  IF pc = "idle" THEN <<>> ELSE <<exit_reason, maxcont, cont, intr_info, irqSnap>>
View == <<LiveLocals, pc, vmcs, paging, pending_io, pending_irq, irq_level,
          kvmExitReason, ipc, iline, isnap, owed, freshIo, runs>>

-----------------------------------------------------------------------------
TypeOK ==
  /\ pc \in {"idle", "top", "inject", "clear", "load", "enter", "dispatch"}
  /\ exit_reason \in Reasons
  /\ maxcont \in 0..MaxCont
  /\ cont \in BOOLEAN
  /\ intr_info \in Event \cup {NoEvent}
  /\ irqSnap \subseteq Lines
  /\ vmcs \in [exitReason : Reasons, qual : Quals, error : BOOLEAN,
               event : Event \cup {NoEvent}, intrWindow : BOOLEAN,
               cr0PG : BOOLEAN, cr0Mask : SUBSET (0..63),
               shadow : SUBSET (0..63), unrestricted : BOOLEAN]
  /\ paging \in BOOLEAN
  /\ pending_io \in BOOLEAN
  /\ pending_irq \subseteq Lines
  /\ irq_level \in [Lines -> {0, 1}]
  /\ kvmExitReason \in {"UNKNOWN", "IO"}
  /\ ipc \in {"idle", "write"}
  /\ iline \in Lines
  /\ isnap \subseteq Lines
  /\ owed \subseteq Lines
  /\ freshIo \in BOOLEAN
  /\ runs \in 0..MaxRuns

(* Every KVM_RUN returns: the exit storm bound of kvm_run_wrapper ends the *)
(* loop even when every handler says continue.                             *)
RunReturns == (pc # "idle") ~> (pc = "idle")

(* The monitor's idea of guest paging (vcpu->paging, which picks the      *)
(* injection vector base), what the guest reads back as CR0.PG             *)
(* (CR0_READ_SHADOW, since bit 31 is host-owned) and whether unrestricted  *)
(* guest is on always agree: handle_cr must update all three together and  *)
(* nothing else may touch any of them.                                     *)
ShadowMatchesPaging ==
  /\ (31 \in vmcs.shadow) = paging
  /\ vmcs.unrestricted = ~paging

(* The guest is never entered while an IN from the previous exit still    *)
(* waits for its data: handle_io must end the loop and kvm_run_wrapper     *)
(* must copy the data into RAX before the first entry of the next call.    *)
NoEntryWithPendingIn == pc = "enter" => ~pending_io

(* An event the run loop writes into VM_ENTRY_INTR_INFO_FIELD never        *)
(* replaces one that is still undelivered (left valid by a failed entry):  *)
(* the loop must not inject again after VMfailValid.                       *)
NoOverwrittenEvent ==
  (pc = "load" /\ intr_info # NoEvent) => vmcs.event = NoEvent

(* Every accepted rising edge (kvm_irq_line, or the timer line raised by   *)
(* handle_external_interrupt) stays pending until it is delivered: it is   *)
(* in pending_irq, in the event being injected, or in an update of         *)
(* pending_irq that is still in progress.                                  *)
NoLostInterrupt ==
  owed \subseteq pending_irq
                \cup {e.line : e \in {vmcs.event, intr_info} \ {NoEvent}}
                \cup (IF ipc = "write" THEN {iline} ELSE {})

(* An IO exit reported to userspace by KVM_RUN is a guest IO instruction   *)
(* that trapped during that call, not one userspace already handled.       *)
ReportedIoIsFresh == (pc = "idle" /\ kvmExitReason = "IO") => freshIo

(* An interrupt is injected at the vector base for the paging mode the    *)
(* guest really runs in (GUEST_CR0.PG), whoever set that mode.             *)
InjectedVectorMatchesMode ==
  pc = "clear" => intr_info.vector = intr_info.line + VectorBase(vmcs.cr0PG)

(* spec.md 8: after a CR0 write the read shadow holds exactly the paging   *)
(* bit.  So the CR0 a 64-bit guest reads back (mask and shadow from        *)
(* vcpu_init and handle_cr together) never has a reserved bit 63:32 set,   *)
(* which the guest's next MOV to CR0 of that value would fault on.         *)
Cr0ReadHasNoReservedBits == GuestCr0Read \subseteq 0..31

=============================================================================
