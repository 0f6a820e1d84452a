# TLA+ models of kvm-kext

This directory holds TLA+ models of `src/main.cpp`, the whole of kvm-kext. kvm-kext is a macOS kernel extension that exposes the Linux KVM ioctl ABI on Intel VT-x. Each module is written from the source. The comments in the modules name the functions and lines they translate. `PROJECT.json` maps every definition to its lines.

## 1. Inventory

### Components and their state

| Component | Code | State it keeps |
|---|---|---|
| EPT page-table manager | `ept_init`, `ept_add_page`, `ept_translate`, `ept_free` (117-201) | `vcpu->pml4` and the lazily allocated PDPT/PD/PT nodes. Each node is two pages: the hardware half holds physical pointers and permission bits, the second half holds host-virtual shadow pointers. |
| Exit handlers | `skip_emulated_instruction` … `handle_task_switch`, table `kvm_vmx_exit_handlers` (207-440) | `regs[]`, `pending_io`, `pending_irq` (timer line), `paging`, `cr3_shadow`, and the VMCS fields GUEST_CR0/CR3, CR0_READ_SHADOW and SECONDARY_VM_EXEC_CONTROL |
| vCPU init | `init_host_values`, `vcpu_init` (447-554) | The VMCS controls: which exits happen, guest/host masks, the EPT pointer and the APIC pages |
| Register access | `kvm_get_regs`/`kvm_set_regs`/`kvm_get_sregs`/`kvm_set_sregs` (570-676) | `regs[]`, `rflags`, `cr2` and the VMCS guest-state fields |
| World switch | `kvm_run` (678-809) | Saves and restores host and guest registers around VMLAUNCH |
| Run loop | `kvm_run_wrapper` (882-981) | Locals `exit_reason`, `maxcont`, `cont`, `intr_info`. It also touches `pending_io`, `pending_irq` and the VMCS fields VM_ENTRY_INTR_INFO and VIRTUAL_INTR_PENDING. |
| Memory regions | `kvm_set_user_memory_region` (811-836) | It keeps no state of its own. It wires the user pages and calls `ept_add_page` once per page. |
| Override tables | `kvm_set_msrs`, `kvm_set_cpuid2` (983-1008) | `msrs`/`msr_count` and `cpuids`/`cpuid_count` |
| Interrupt line | `kvm_irq_line` (1010-1025) | `irq_level[16]` and `pending_irq` |
| PIT / IRQ chip | `kvm_set_pit`, `kvm_set_irqchip`, GET/SET copies | Opaque blocks |
| Device lifecycle | `state_find`, `kvm_dev_open`, `kvm_dev_close` (1078-1190) | The `head_of_state` doubly linked list, `open_count`, and the per-state `ioctl_lock`/`irq_lock` |
| Control surface | `kvm_dev_ioctl` (1192-1387) | It keeps no state of its own. It takes `ioctl_lock`, or `irq_lock` for `KVM_IRQ_LINE`, and dispatches over three switch statements. |
| Kext start/stop | `MyKextStart`, `MyKextStop` (1415-1448) | `state_lock`, the cdevsw entry and devfs node, and xnu's VMX use count (`host_vmxon`/`host_vmxoff`) |

### How they interact

Userspace drives everything through `kvm_dev_ioctl`. `KVM_IRQ_LINE` is the only ioctl taken under `irq_lock`; every other ioctl is taken under `ioctl_lock`. Userspace (a VM manager such as QEMU) issues `KVM_RUN` from a vCPU thread and `KVM_IRQ_LINE` from a device thread. The two therefore run at the same time on different CPUs.

Inside `KVM_RUN`, the loop works as follows:

1. It completes a pending IN into RAX.
2. It iterates up to 1000 times.
3. In each iteration, right after an interrupt-window exit, it scans `pending_irq` for the lowest line and clears that bit.
4. It loads the VMCS under the per-vCPU spin lock and writes the event.
5. It requests an interrupt window if anything is still pending.
6. It enters the guest.
7. It reads the exit record and calls the handler from the table.
8. It releases the VMCS, with VMCLEAR.
9. It stops if the handler returned 0 or VM_INSTRUCTION_ERROR is non-zero.

Handlers change vCPU state and VMCS fields. `handle_cr` keeps `paging`, CR0_READ_SHADOW and the unrestricted-guest control in step.

### What is hard

- **Concurrency.** `pending_irq` is read-modify-written by the run thread (lines 341 and 916) and by `kvm_irq_line` (1019) under different locks. Open and close update `open_count` (1127 and 1150) outside `state_lock`, but xnu calls `d_open` and `d_close` holding the device's `devsw_lock`, so they do not interleave with each other. The thread may migrate between `RELEASE_VMCS` and `LOAD_VMCS`.
- **Hardware failure.** VMfailValid leaves the exit record and VM_INSTRUCTION_ERROR stale. A guest-state entry failure drops the injected event.
- **Ordering across calls.** An IN completes only at the next `KVM_RUN`. `KVM_SET_SREGS` between runs bypasses `handle_cr`'s bookkeeping.
- **Partial failure and leaks.** A memory region is mapped page by page with no rollback. Allocation failures are not checked. Override tables are replaced without being freed.

### What makes each component correct

- **Run loop.** Every accepted interrupt edge is delivered once. No event is overwritten. The guest never runs with an unfinished IN. Every exit is reported once. Every `KVM_RUN` returns.
- **Handlers.** The paging flag, CR0 read shadow and unrestricted guest agree. Exits that do not come from an instruction do not skip one.
- **EPT.** `translate` after `add_page` returns the frame. Last write wins. A missing level yields absent. Intermediate nodes are never freed while the vCPU lives.
- **Memory regions.** A deleted slot no longer translates. A misaligned region is rejected before anything is mapped.
- **Lifecycle.** The state list stays a well-formed list. Close frees exactly once, and only when the last open is closed.

## 2. Plan

Modules, most important first:

1. **`VcpuRun`** (done). It models the run loop, the exit dispatcher and handlers, the hardware entry outcomes, `KVM_SET_SREGS` (CR0) and the concurrent `KVM_IRQ_LINE`.
2. **`EptTable`** (done). It models the 4-level table with small index sets, lazy allocation, unchecked allocation failure and `ept_free`. It is shown to refine the abstract `GuestMemory`.
3. **`MemRegion`** (done). It composes `kvm_set_user_memory_region` with `EptTable`, including the missing alignment check and a partial failure. The code has no slots and no deletion (`memory_size == 0` maps nothing), so neither is modelled.
4. **`VmcsProtocol`** (done). It models LOAD/RELEASE around each VMCS access, VMLAUNCH on a clear VMCS, the per-CPU host-state capture and restore, and migration between CPUs.
5. **`DevLifecycle`** (done). It models open, close and ioctl with `state_lock`, the `head_of_state` list, `open_count`, and the CREATE_VM/MMAP order. Kext load and unload are composed with it.
6. **`CpuidMsr`** (done). It models `KVM_SET_CPUID2`, `KVM_SET_MSRS`, the CPUID exit handler's lookup and feature masking, the fixed-table queries and the frees at close. The lookup is checked against a reference over small override tables.
7. **Further `VcpuRun` properties.** Eventual delivery of a pending interrupt (liveness under fair interrupt windows), no duplicate delivery, and entering a state set through `KVM_SET_SREGS`.

## 3. Modules and runs so far

### `VcpuRun` (+ `MCVcpuRun`)

**Threads.** The model has two threads:

- The run thread: `pc`, plus the locals of `kvm_run_wrapper`.
- The interrupt thread: `ipc`, `iline`, `isnap`.

The run thread's `KVM_RUN` and `KVM_SET_SREGS` are serialised (both need `pc = "idle"`), as `ioctl_lock` does. The interrupt thread is independent, as `irq_lock` is. Each non-atomic `|=` / `&=` on `pending_irq` is split into a step that reads the word and a step that writes it back.

**Hardware.** The VMCS is a record: exit reason, qualification, sticky error, pending event, window control, GUEST_CR0.PG, CR0 guest/host mask, CR0 read shadow and unrestricted guest. The mask and the shadow are 64-bit values held as sets of bit positions. The constant `(1 << 31)` that `vcpu_init` and `handle_cr` write into them is an `int`, so it is modelled by what the conversion to `vmcs_write64`'s u64 parameter does: sign extension to bits 31-63 (`U64OfInt(IntOneShl31)`). `EnterExit` picks any exit the controls written by `vcpu_init` allow:

- an interrupt-window exit only while VIRTUAL_INTR_PENDING is set;
- a CR0 exit only when the written value (PG, and zeros in bits 63:32) differs from the read shadow in a masked bit;
- no CR3 or preemption-timer exits.

`EnterFailValid` models VMfailValid: the error is set and the record is left stale. `EnterFailGuest` models a guest-state failure, which drops the event.

**Ghost state.** `owed` holds the accepted edges not yet delivered. `freshIo` is set when an IO exit happened during the current call.

**Abstracted.** Register values, RIP, ports, data, and the CR3/CR4/segment values are left out. No property distinguishes them.

**Runs.** All use `Lines = {0,1}` (the timer and one device line) and `MaxCont = 3`, which is enough for window exit → injection → failed entry → injection. `VIEW View` ignores the dead locals of `kvm_run_wrapper` once it has returned.

| Run | Expect | What it shows |
|---|---|---|
| `run_loop_safety` (`MCVcpuRun.cfg`, 2 runs, all entry failures) | pass | `ShadowMatchesPaging`, `NoEntryWithPendingIn`, `NoOverwrittenEvent`; and `RunReturns`, under WF of the run thread: the guest always exits again because host timer interrupts cause exits, and the thread waits on no lock the interrupt thread holds |
| `irq_line_race` (`MCVcpuRunIrqRace.cfg`, no entry failures) | violation | `NoLostInterrupt`: `kvm_irq_line`'s write-back erases the timer bit set by `handle_external_interrupt`, or the run thread's clear erases a line just raised |
| `stale_exit_after_vmfail` (`MCVcpuRunStaleExit.cfg`) | violation | `ReportedIoIsFresh`: after VMfailValid, the previous IO exit is dispatched and reported again |
| `sregs_paging_stale` (`MCVcpuRunSregs.cfg`) | violation | `InjectedVectorMatchesMode`: after `KVM_SET_SREGS` sets CR0.PG, injection still uses vector base 8 |
| `cr0_shadow_sign_extension` (`MCVcpuRunCr0.cfg`) | violation | `Cr0ReadHasNoReservedBits`: after the guest enables paging, the CR0 it reads back (shadow bits under the mask) has bits 63:32 set. spec.md section 8 says the shadow holds exactly the paging bit. A side effect visible in the model: every later CR0 write exits, because bits 63:32 of the written value always differ from the shadow |

**Fairness.** Weak fairness applies to the run thread's steps inside `KVM_RUN` only. Userspace and the interrupt thread get no fairness: they may stop calling at any time.

### `EptTable` and `GuestMemory` (+ `MCEptTable`)

**State.** The table lives in a small heap of blocks. `hw` and `sw` are the two halves of a directory node:
- `hw` is the hardware page, holding entries `[addr, bits]`;
- `sw` holds the virtual pointers to the children.

A PT is one page. `alloc` and `freed` count the pages allocated and released for each block. `status` is `"live"`, `"panic"` (a NULL `IOCallocAligned` was dereferenced) or `"freed"`. An unallocated block holds stale pointers, so a node that was not zeroed is caught.

**Actions.** Each action is one whole call:
- `ept_add_page` descends three levels with `Descend`, allocating, zeroing and linking any missing node, then writes the leaf `pa | 7 | 48`;
- `ept_free` frees every node with the size it was allocated with.

Guest addresses are abstracted to page numbers with `IdxBits` index bits per level. `HiBits` extra bits stand for guest-address bits 48-63, which the code's `& 0x1FF` drops.

**Refinement.** `GuestMemory` is what the spec promises: a map from page to frame, last write wins, emptied by free. `ImplementsGuestMemory` checks `GM!Spec` under the mapping `gmem <- ept_translate` of every page.

| Run | Expect | What it shows |
|---|---|---|
| `ept_high_gpa_alias` (`MCEptTableAlias.cfg`, `HiBits = 1`) | violation | `ImplementsGuestMemory`: two guest pages that differ above bit 47 share one entry, so adding one overwrites the other |

The table's own properties are checked where `MemRegion` drives it (`mem_region_install` below): `HwWalkMatchesSwWalk` (the hardware walk and `ept_translate` agree), `FreeReleasesEachBlockOnce` (free releases every page once) and `ImplementsGuestMemory` (the table refines `GuestMemory`). With one index bit per level, two regions of two pages at any start are enough to share a path at every level, split at every level, and overwrite a page.

### `MemRegion` (+ `MCMemRegion`)

`MemRegion` extends `EptTable` with `kvm_set_user_memory_region`:
- `SetRegionStart` is the entry and `md->prepare`, which may fail;
- `SetRegionPage` is one iteration of the loop, where the pinning service returns any frame, or 0 for a page it cannot resolve;
- `SetRegionDone` is the return after the loop;
- `Close` is `ept_free`.

A region is its first guest page, its length in pages and the in-page offset of `userspace_addr`. The ghost `got` records the frame given for each offset.

| Run | Expect | What it shows |
|---|---|---|
| `mem_region_install` (`MCMemRegion.cfg`: 2 regions of up to 2 pages, then close) | pass | `RegionInstalled`: a call that returns 0 has mapped every page to the frame of the matching user page, across table boundaries; and the three `EptTable` properties above |

The model keeps the in-page offset of an unaligned `userspace_addr`, which the code ORs into the leaf's flag bits. The passing run uses aligned ranges. An earlier run only restated the missing alignment check, so it was retired to make room for a deeper property (see the hazard at `main.cpp:199`).


### `VmcsProtocol` (+ `MCVmcsProtocol`)

`VmcsProtocol` models one ioctl thread and the processors it can migrate between. The VMCS steps of each operation are listed in `Steps`, in program order. The processor follows SDM semantics for the current VMCS, the active set and the launch state. `Migrate` is possible only while the spin lock is not held.

**Host state.** Each `KVM_RUN` iteration has a `host` step (`HostCapture`). It stands for `init_host_values` and the `sgdt`/`sidt`/`sldt` stores of `kvm_run`'s prologue, all taken with the lock held and interrupts off. Values are abstracted to the processor they were read on: `hostArea` is the VMCS host-state area, and `savedDt` is the vcpu's saved GDTR/IDTR/LDTR. `Launch` includes the VM exit, which loads the host-state area into the processor (`cpuState`), and the `lldt`/`lidt`/`lgdt` epilogue, which also runs after a failed VMLAUNCH.

| Run | Expect | What it shows |
|---|---|---|
| `vmcs_protocol` (3 CPUs, 6 operations after `KVM_CREATE_VM`) | pass | `AccessOnCurrent`, `NeverActiveTwice`, `LaunchOnClear`: since `__launched` is never set, every entry is a VMLAUNCH, and it works only because every bracket ends with VMCLEAR. `HostStateIntact`: every processor always holds its own per-CPU host state (GS base, TR, GDT, IDT), because the capture is redone inside the bracket of every iteration. Capturing it once at `KVM_CREATE_VM` (the mutant `StepsHostAtCreate`) fails after one migration |

Deadlock is checked: `Migrate` always remains possible, as the scheduler does.

### `DevLifecycle` (+ `MCDevLifecycle`)

**State.** `head_of_state` is modelled as `head`, `nxt` and `prv` over reusable heap blocks `1..MaxStates`. Each state has `open_count` (`cnt`), its locks, `vcpu` and `mm`. Threads are pairs `<<process, tid>>`, and every process counts its open descriptors in `fds`. The steps under `state_lock` are atomic. `open_count++`, which the code does after dropping the lock, is a read step (`OpenIncRead`) followed by a write step (`OpenIncWrite`). xnu's `spec_open`/`spec_close` hold `devsw_lock` around `d_open`/`d_close` (`DevswFree`), so no open or close starts while another is inside one; ioctls still interleave with them. The lock allocation at count 1 is `OpenCheck`. Close is two steps:
- `kvm_dev_close`: the find, the decrement and the unlink;
- `CloseFree`: the frees after the unlock.

The ioctl is modelled only by the steps that touch this state: find, lock, `KVM_CREATE_VM` / `KVM_MMAP_VCPU`, unlock.

**Kext load and unload.** `MyKextStart` is one step, because nothing is visible to userspace before the node is made. `host_vmxon` may fail, for example when another hypervisor holds VMX. On success it increments xnu's VMX use count `vmxUse`. `cdevsw_add` may fail. On either failure the kext is not loaded and nothing is undone. `MyKextStop` is two steps: the node and cdevsw entry are removed, then `host_vmxoff` decrements the use count. `kvm_dev_open` needs the node (`dev`). `MaxLoads` bounds the load cycles.

**Dereferences.** A NULL or freed state, vcpu, mm or lock stops the behaviour with `err` set.

**Assumptions.**
- Every close of a descriptor reaches `kvm_dev_close`. The cdevsw does not set D_TRACKCLOSE, and whether devfs calls `d_close` on every close is an OS question the model does not settle.
- `QemuOrder` restricts userspace to QEMU's order: open, create, map, use, close. Under it, `UserMayUnload` also runs kextunload only once every descriptor is closed and every call has returned. `MyKextStop` itself checks nothing (hazard `main.cpp:1445`).

| Run | Expect | What it shows |
|---|---|---|
| `dev_lifecycle` (2 processes × 1 thread, 3 blocks, 7 calls each, 2 kext loads) | pass | `ListWellFormed`: the list is acyclic, `prev` is consistent, and the list holds exactly the live states. `OpenCountMatchesFds`: open_count equals the descriptors held. `NoBadDereference`: no close or ioctl dereferences a NULL or freed state, vcpu, mm or lock, although freed blocks are reused by the other process. `VmxOnWhileDeviceUsed`: across loads and unloads, VMX is on whenever a thread is in a device call or a process holds `/dev/kvm`. Turning VMX off before removing the node (the mutant `MyKextStopVmxoffFirst`) lets an open slip into the gap |
| `dev_vcpu_leak` (1 process, 1 block, 5 calls, outside QEMU's order) | violation | `VcpusFreedAtClose`: open, `KVM_CREATE_VM` twice, `KVM_MMAP_VCPU`, close. The second create overwrites `state->vcpu` (1223) and close frees only that one, so the first vcpu, its VMCS, EPT tables and run page outlive the handle, against spec §6 ("nothing survives a handle close"). A ghost `vcpuAllocs` counts the vcpus created per state and not yet freed |

The model also reaches this error, with no run spent on it (see the hazards in PROJECT.json):
- a close before `KVM_CREATE_VM` dereferences a NULL vcpu.

`CHECK_DEADLOCK FALSE`: user threads stop after their calls.

### `CpuidMsr` (+ `MCCpuidMsr`)

**State.** The model keeps these variables:
- `cpuids` and `cpuid_count`: the override table and its count, set by `KVM_SET_CPUID2`;
- `cpuidBuf`, `msr_count` and `msrBuf`: the buffers the code allocates;
- `bufs`: a ghost ledger of every allocation's size and the bytes freed;
- `regs`: the four guest registers a CPUID exit writes;
- `query`: a ghost record of the last CPUID exit's inputs and the table it read.

**Abstraction.** A register value is a set of bit positions, so masking is set difference. RAX and RCX are 64-bit values, modelled as `[hi, lo]` records because the handler uses only the low 32 bits. The host's CPUID is the constant `HostCpuid`.

**Actions.** Each ioctl is one action:
- `kvm_set_cpuid2` allocates a new table without freeing the old one. A failed copyin leaves a zeroed table.
- `kvm_set_msrs`.
- `handle_cpuid` is the whole handler: the first-match scan `CpuidScan`, the fall-back to the host, and the masking of leaf 1.
- `kvm_get_supported_cpuid`, `kvm_get_msr_index_list` and `kvm_check_extension`, including their `E2BIG` paths.
- `CloseTables` is the free at close.

| Run | Expect | What it shows |
|---|---|---|
| `cpuid_msr` (tables of up to 2 entries over 3 leaves, 4 calls) | pass | `CpuidResult`: after every CPUID exit the guest sees what the reference `CpuidSpec` gives. The reference is built with `SelectInSeq`: the first matching override, else the host value, with the hidden features of leaf 1 cleared and the upper halves of RAX/RCX ignored |
| `cpuid_table_leak` | violation | `TablesReleasedAtClose`: a second `KVM_SET_CPUID2` drops the first table, and the close frees only the last one |

`CHECK_DEADLOCK FALSE`: the user stops after its calls.

## 4. Not modelled, and why

- `state_lock`'s allocation in `MyKextStart` is assumed to succeed and is not a variable. A failed load leaves the VMX use count raised (modelled, hazard `main.cpp:1430`), but no run states that a failed load is undone.
- The PIT and IRQ-chip blocks are opaque copies.
- The register values of the host-state capture are abstracted to the processor they were read on (see `VmcsProtocol`). The GPR save/restore of `kvm_run`'s assembly is an unconditional copy.
- Of the guest's CR0, only PG is modelled. `handle_cr` stores the guest's value without forcing NE, unlike `kvm_set_sregs`. That is listed as a hazard (`main.cpp:394`) without a run.
- The contents of the tables that `kvm_get_supported_cpuid` and `kvm_get_msr_index_list` copy are left out. Only their counts and the `E2BIG` paths are modelled.
- `IOCalloc` failure in `KVM_SET_CPUID2`/`KVM_SET_MSRS` is not modelled. A huge `nent` (a u32 stored in an int and multiplied for the allocation) is listed as a hazard without a run, because the arithmetic overflows 32 bits far beyond what TLC can enumerate.
- The host CPUID the handler passes through differs between processors after a migration. `HostCpuid` is a single constant.
- The GPR, RIP, RSP and RFLAGS copies of `KVM_GET/SET_REGS` and the save/restore around `kvm_run`'s VMLAUNCH are plain field copies in both directions. They have no guard and no error path, so a model of them would restate assignments.
