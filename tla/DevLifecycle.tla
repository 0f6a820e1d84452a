---------------------------- MODULE DevLifecycle ----------------------------
(***************************************************************************)
(* The per-process state of the /dev/kvm device (src/main.cpp 1078-1190, *)
(* 1192-1214, 1218-1241, 1354-1360): kvm_dev_open, kvm_dev_close and the  *)
(* part of kvm_dev_ioctl that finds the state and takes its ioctl_lock,    *)
(* with the commands that change the state: KVM_CREATE_VM (state->vcpu)   *)
(* and KVM_MMAP_VCPU (vcpu->mm); every other command is "other".          *)
(*                                                                         *)
(* head_of_state is a doubly linked list of heap blocks 1..MaxStates      *)
(* (NULL is 0) guarded by state_lock; a freed block may be handed out     *)
(* again.  Threads are pairs <<process, thread id>>.  Every close of a    *)
(* file descriptor is assumed to reach kvm_dev_close.  A step that         *)
(* dereferences NULL or freed memory ends the behaviour with err set.     *)
(* MyKextStart and MyKextStop (1415-1448) load and unload the kext around  *)
(* all of it: /dev/kvm can be opened only while its node exists.          *)
(***************************************************************************)
EXTENDS Integers, FiniteSets

CONSTANTS Procs, Tids,
          MaxStates,    \* heap blocks for struct state
          MaxOps,       \* bound on the calls of each thread
          MaxLoads,     \* bound on the kextload/kextunload cycles
          QemuOrder     \* userspace opens, creates the VM and maps it before it closes

NULL == 0
Ids == 1..MaxStates
Threads == Procs \X Tids
NoThread == <<>>
Cmds == {"create_vm", "mmap_vcpu", "other"}

VARIABLES head, nxt, prv,      \* head_of_state and the next/prev fields
          sproc, cnt,          \* state->process, state->open_count
          locks,               \* state->ioctl_lock / irq_lock allocated
          vcpu, mm,            \* state->vcpu, vcpu->mm set
          heap,                \* allocated state blocks
          holder,              \* thread holding state->ioctl_lock
          fds,                 \* open descriptors of every process
          pc, lst, tmp, cmd,   \* thread program counter and locals
          ops,                 \* calls made by every thread
          lockAllocs,          \* ghost: IOLockAlloc pairs per state
          vcpuAllocs,          \* ghost: vcpus created for a state and not freed
          err,                 \* "none" or what was dereferenced
          kpc,                 \* kext: "unloaded", "loaded" or "stopping"
          dev,                 \* the cdevsw entry and /dev/kvm node exist
          vmxUse,              \* xnu's VMX use count (host_vmxon/host_vmxoff)
          loads                \* MyKextStart calls so far

ghostVars == <<lockAllocs, vcpuAllocs>>
stateVars == <<head, nxt, prv, sproc, cnt, locks, vcpu, mm, heap, holder>>
kextVars == <<kpc, dev, vmxUse, loads>>
vars == <<stateVars, fds, pc, lst, tmp, cmd, ops, ghostVars, err,
          kextVars>>

(* The blocks reachable from head_of_state, following next.                *)
RECURSIVE Reach(_, _)
Reach(s, n) == IF s = NULL \/ n = 0 THEN {} ELSE {s} \cup Reach(nxt[s], n - 1)
Listed == Reach(head, MaxStates)

(* state_find: the listed state of process p, or NULL.                     *)
Find(p) == IF \E s \in Listed : sproc[s] = p
           THEN CHOOSE s \in Listed : sproc[s] = p ELSE NULL

Init ==
  /\ head = NULL
  /\ nxt = [s \in Ids |-> NULL] /\ prv = [s \in Ids |-> NULL]
  /\ sproc = [s \in Ids |-> CHOOSE p \in Procs : TRUE]
  /\ cnt = [s \in Ids |-> 0] /\ locks = [s \in Ids |-> FALSE]
  /\ vcpu = [s \in Ids |-> FALSE] /\ mm = [s \in Ids |-> FALSE]
  /\ heap = {} /\ holder = [s \in Ids |-> NoThread]
  /\ fds = [p \in Procs |-> 0]
  /\ pc = [t \in Threads |-> "idle"] /\ lst = [t \in Threads |-> NULL]
  /\ tmp = [t \in Threads |-> 0] /\ cmd = [t \in Threads |-> "other"]
  /\ ops = [t \in Threads |-> 0]
  /\ lockAllocs = [s \in Ids |-> 0] /\ vcpuAllocs = [s \in Ids |-> 0]
  /\ err = "none"
  /\ kpc = "unloaded" /\ dev = FALSE /\ vmxUse = 0 /\ loads = 0

Goto(t, l) == pc' = [pc EXCEPT ![t] = l]
Fail(what) == err' = what /\ UNCHANGED <<stateVars, fds, pc, lst, tmp, cmd, ops, ghostVars>>
FailCall(what) == err' = what /\ UNCHANGED <<stateVars, fds, pc, lst, tmp, cmd, ghostVars>>
Call(t) == /\ err = "none" /\ pc[t] = "idle" /\ ops[t] < MaxOps
           /\ ops' = [ops EXCEPT ![t] = @ + 1]
Uaf(t) == lst[t] \notin heap
OpenSteps == {"o_read", "o_write", "o_check"}

(* xnu's spec_open and spec_close call d_open and d_close holding the      *)
(* device's devsw_lock, so no open or close of /dev/kvm starts while       *)
(* another thread is still inside one.                                     *)
DevswFree(t) == \A u \in Threads \ {t} : pc[u] \notin OpenSteps \cup {"c_free"}

-----------------------------------------------------------------------------
(* kvm_dev_open, under state_lock: state_find, else IOCalloc a state for   *)
(* the process and insert it at the front of the list.                     *)
kvm_dev_open(t) ==
  LET p == t[1]
      s == Find(p)
      free == Ids \ heap
      n == CHOOSE x \in free : \A y \in free : x <= y
  IN /\ Call(t) /\ dev /\ DevswFree(t)
     /\ IF s # NULL
        THEN /\ lst' = [lst EXCEPT ![t] = s]
             /\ UNCHANGED <<head, nxt, prv, sproc, cnt, locks, vcpu, mm, heap>>
        ELSE /\ free # {}
             /\ heap' = heap \cup {n}
             /\ sproc' = [sproc EXCEPT ![n] = p]
             /\ cnt' = [cnt EXCEPT ![n] = 0]
             /\ locks' = [locks EXCEPT ![n] = FALSE]
             /\ vcpu' = [vcpu EXCEPT ![n] = FALSE]
             /\ mm' = [mm EXCEPT ![n] = FALSE]
             /\ nxt' = [nxt EXCEPT ![n] = head]
             /\ prv' = [x \in Ids |-> IF x = n THEN NULL
                                      ELSE IF x = head THEN n ELSE prv[x]]
             /\ head' = n
             /\ lst' = [lst EXCEPT ![t] = n]
     /\ Goto(t, "o_read")
     /\ UNCHANGED <<holder, fds, tmp, cmd, ghostVars, err>>

(* state->open_count++ after state_lock is dropped: the read ...           *)
OpenIncRead(t) ==
  /\ err = "none" /\ pc[t] = "o_read"
  /\ IF Uaf(t) THEN Fail("use after free")
     ELSE /\ tmp' = [tmp EXCEPT ![t] = cnt[lst[t]]]
          /\ Goto(t, "o_write")
          /\ UNCHANGED <<stateVars, fds, lst, cmd, ops, ghostVars, err>>

(* Fault-injection variant of OpenIncWrite: the increment is lost.        *)
OpenIncWriteNoInc(t) ==
  /\ err = "none" /\ pc[t] = "o_write"
  /\ IF Uaf(t) THEN Fail("use after free")
     ELSE /\ cnt' = [cnt EXCEPT ![lst[t]] = tmp[t]]
          /\ Goto(t, "o_check")
          /\ UNCHANGED <<head, nxt, prv, sproc, locks, vcpu, mm, heap, holder,
                         fds, lst, tmp, cmd, ops, ghostVars, err>>

(* ... and the write.                                                      *)
OpenIncWrite(t) ==
  /\ err = "none" /\ pc[t] = "o_write"
  /\ IF Uaf(t) THEN Fail("use after free")
     ELSE /\ cnt' = [cnt EXCEPT ![lst[t]] = tmp[t] + 1]
          /\ Goto(t, "o_check")
          /\ UNCHANGED <<head, nxt, prv, sproc, locks, vcpu, mm, heap, holder,
                         fds, lst, tmp, cmd, ops, ghostVars, err>>

(* Fault-injection variant of OpenCheck: the locks are allocated when the *)
(* count read before the increment is zero, as if the check came first.   *)
OpenCheckBeforeInc(t) ==
  LET s == lst[t] IN
  /\ err = "none" /\ pc[t] = "o_check"
  /\ IF Uaf(t) THEN Fail("use after free")
     ELSE /\ IF cnt[s] = 0
             THEN /\ locks' = [locks EXCEPT ![s] = TRUE]
                  /\ lockAllocs' = [lockAllocs EXCEPT ![s] = @ + 1]
             ELSE UNCHANGED <<locks, lockAllocs>>
          /\ fds' = [fds EXCEPT ![t[1]] = @ + 1]
          /\ Goto(t, "idle")
          /\ UNCHANGED <<head, nxt, prv, sproc, cnt, vcpu, mm, heap, holder,
                         lst, tmp, cmd, ops, vcpuAllocs, err>>

(* if (state->open_count == 1) allocate ioctl_lock, irq_lock and the lock  *)
(* group; the descriptor is installed when kvm_dev_open returns.           *)
OpenCheck(t) ==
  LET s == lst[t] IN
  /\ err = "none" /\ pc[t] = "o_check"
  /\ IF Uaf(t) THEN Fail("use after free")
     ELSE /\ IF cnt[s] = 1
             THEN /\ locks' = [locks EXCEPT ![s] = TRUE]
                  /\ lockAllocs' = [lockAllocs EXCEPT ![s] = @ + 1]
             ELSE UNCHANGED <<locks, lockAllocs>>
          /\ fds' = [fds EXCEPT ![t[1]] = @ + 1]
          /\ Goto(t, "idle")
          /\ UNCHANGED <<head, nxt, prv, sproc, cnt, vcpu, mm, heap, holder,
                         lst, tmp, cmd, ops, vcpuAllocs, err>>

(* What userspace knows of its own handle: QEMU closes only after          *)
(* KVM_CREATE_VM and KVM_MMAP_VCPU, and issues each of them once.          *)
UserMayClose(p) == ~QemuOrder \/ fds[p] > 1 \/ (Find(p) # NULL /\ mm[Find(p)])
UserMayIssue(p, c) ==
  \/ ~QemuOrder
  \/ /\ Find(p) # NULL
     /\ c = "create_vm" => ~vcpu[Find(p)]
     /\ c = "mmap_vcpu" => vcpu[Find(p)] /\ ~mm[Find(p)]
     /\ c = "other" => mm[Find(p)]

(* Fault-injection variants of kvm_dev_close: the unlink does not update *)
(* the successor's prev; the state is unlinked when open_count reaches 1.  *)
kvm_dev_close_keep_prev(t) ==
  LET p == t[1]
      s == Find(p)
  IN /\ Call(t)
     /\ fds[p] > 0 /\ UserMayClose(p) /\ DevswFree(t)
     /\ IF s = NULL THEN FailCall("null state")
        ELSE /\ fds' = [fds EXCEPT ![p] = @ - 1]
             /\ cnt' = [cnt EXCEPT ![s] = @ - 1]
             /\ IF cnt[s] - 1 = 0
                THEN /\ head' = IF prv[s] = NULL THEN nxt[s] ELSE head
                     /\ nxt' = IF prv[s] # NULL THEN [nxt EXCEPT ![prv[s]] = nxt[s]]
                               ELSE nxt
                     /\ prv' = prv
                     /\ lst' = [lst EXCEPT ![t] = s]
                     /\ Goto(t, "c_free")
                ELSE /\ Goto(t, "idle")
                     /\ UNCHANGED <<head, nxt, prv, lst>>
             /\ UNCHANGED <<sproc, locks, vcpu, mm, heap, holder, tmp, cmd,
                            ghostVars, err>>

kvm_dev_close_at_one(t) ==
  LET p == t[1]
      s == Find(p)
  IN /\ Call(t)
     /\ fds[p] > 0 /\ UserMayClose(p) /\ DevswFree(t)
     /\ IF s = NULL THEN FailCall("null state")
        ELSE /\ fds' = [fds EXCEPT ![p] = @ - 1]
             /\ cnt' = [cnt EXCEPT ![s] = @ - 1]
             /\ IF cnt[s] - 1 = 1
                THEN /\ head' = IF prv[s] = NULL THEN nxt[s] ELSE head
                     /\ nxt' = IF prv[s] # NULL THEN [nxt EXCEPT ![prv[s]] = nxt[s]]
                               ELSE nxt
                     /\ prv' = IF nxt[s] # NULL THEN [prv EXCEPT ![nxt[s]] = prv[s]]
                               ELSE prv
                     /\ lst' = [lst EXCEPT ![t] = s]
                     /\ Goto(t, "c_free")
                ELSE /\ Goto(t, "idle")
                     /\ UNCHANGED <<head, nxt, prv, lst>>
             /\ UNCHANGED <<sproc, locks, vcpu, mm, heap, holder, tmp, cmd,
                            ghostVars, err>>

(* kvm_dev_close, under state_lock: state_find (a NULL state only unlocks  *)
(* and the code goes on to dereference it), open_count--, and at zero      *)
(* unlink the state from the list.                                         *)
kvm_dev_close(t) ==
  LET p == t[1]
      s == Find(p)
  IN /\ Call(t)
     /\ fds[p] > 0 /\ UserMayClose(p) /\ DevswFree(t)
     /\ IF s = NULL THEN FailCall("null state")
        ELSE /\ fds' = [fds EXCEPT ![p] = @ - 1]
             /\ cnt' = [cnt EXCEPT ![s] = @ - 1]
             /\ IF cnt[s] - 1 = 0
                THEN /\ head' = IF prv[s] = NULL THEN nxt[s] ELSE head
                     /\ nxt' = IF prv[s] # NULL THEN [nxt EXCEPT ![prv[s]] = nxt[s]]
                               ELSE nxt
                     /\ prv' = IF nxt[s] # NULL THEN [prv EXCEPT ![nxt[s]] = prv[s]]
                               ELSE prv
                     /\ lst' = [lst EXCEPT ![t] = s]
                     /\ Goto(t, "c_free")
                ELSE /\ Goto(t, "idle")
                     /\ UNCHANGED <<head, nxt, prv, lst>>
             /\ UNCHANGED <<sproc, locks, vcpu, mm, heap, holder, tmp, cmd,
                            ghostVars, err>>

(* After state_lock is dropped: IOFree the vcpu's pages (state->vcpu->...),*)
(* mm->unmap(), ept_free, the vcpu, the two IOLocks and the state.         *)
CloseFree(t) ==
  LET s == lst[t] IN
  /\ err = "none" /\ pc[t] = "c_free"
  /\ CASE ~vcpu[s]                 -> Fail("null vcpu")
       [] ~mm[s]                   -> Fail("null mm")
       [] holder[s] # NoThread     -> Fail("lock freed while held")
       [] OTHER ->
            /\ heap' = heap \ {s}
            /\ vcpuAllocs' = [vcpuAllocs EXCEPT ![s] = @ - 1]
            /\ Goto(t, "idle")
            /\ UNCHANGED <<head, nxt, prv, sproc, cnt, locks, vcpu, mm, holder,
                           fds, lst, tmp, cmd, ops, lockAllocs, err>>

(* kvm_dev_ioctl: state_find under state_lock (ENOENT when there is none); *)
(* the state is used after state_lock is dropped.                          *)
kvm_dev_ioctl(t, c) ==
  LET p == t[1]
      s == Find(p)
  IN /\ Call(t)
     /\ fds[p] > 0 /\ UserMayIssue(p, c)
     /\ IF s = NULL THEN Goto(t, "idle") /\ UNCHANGED lst
        ELSE Goto(t, "i_lock") /\ lst' = [lst EXCEPT ![t] = s]
     /\ cmd' = [cmd EXCEPT ![t] = c]
     /\ UNCHANGED <<stateVars, fds, tmp, ghostVars, err>>

(* IOLockLock(state->ioctl_lock).                                          *)
IoctlLock(t) ==
  LET s == lst[t] IN
  /\ err = "none" /\ pc[t] = "i_lock"
  /\ CASE Uaf(t)    -> Fail("use after free")
       [] ~locks[s] -> Fail("null lock")
       [] OTHER ->
            /\ holder[s] = NoThread
            /\ holder' = [holder EXCEPT ![s] = t]
            /\ Goto(t, "i_cmd")
            /\ UNCHANGED <<head, nxt, prv, sproc, cnt, locks, vcpu, mm, heap,
                           fds, lst, tmp, cmd, ops, ghostVars, err>>

(* The command.  KVM_CREATE_VM stores a fresh vcpu (mm NULL) whatever      *)
(* state->vcpu held; KVM_MMAP_VCPU and the other vcpu commands do nothing  *)
(* when state->vcpu is NULL (goto fail).                                   *)
IoctlCmd(t) ==
  LET s == lst[t] IN
  /\ err = "none" /\ pc[t] = "i_cmd"
  /\ IF Uaf(t) THEN Fail("use after free")
     ELSE /\ CASE cmd[t] = "create_vm" ->
                    /\ vcpu' = [vcpu EXCEPT ![s] = TRUE]
                    /\ mm' = [mm EXCEPT ![s] = FALSE]
                    /\ vcpuAllocs' = [vcpuAllocs EXCEPT ![s] = @ + 1]
               [] cmd[t] = "mmap_vcpu" ->
                    /\ mm' = [mm EXCEPT ![s] = vcpu[s] \/ @]
                    /\ UNCHANGED <<vcpu, vcpuAllocs>>
               [] OTHER -> UNCHANGED <<vcpu, mm, vcpuAllocs>>
          /\ Goto(t, "i_unlock")
          /\ UNCHANGED <<head, nxt, prv, sproc, cnt, locks, heap, holder,
                         fds, lst, tmp, cmd, ops, lockAllocs, err>>

(* IOLockUnlock(state->ioctl_lock) and return.                             *)
IoctlUnlock(t) ==
  LET s == lst[t] IN
  /\ err = "none" /\ pc[t] = "i_unlock"
  /\ IF Uaf(t) THEN Fail("use after free")
     ELSE /\ holder' = [holder EXCEPT ![s] = NoThread]
          /\ Goto(t, "idle")
          /\ UNCHANGED <<head, nxt, prv, sproc, cnt, locks, vcpu, mm, heap,
                         fds, lst, tmp, cmd, ops, ghostVars, err>>

-----------------------------------------------------------------------------
(* MyKextStart: host_vmxon(FALSE) increments the VMX use count when it     *)
(* succeeds (another hypervisor holding VMX exclusively makes it fail);    *)
(* state_lock = IOLockAlloc(); a failed host_vmxon or cdevsw_add returns   *)
(* KMOD_RETURN_FAILURE and the kext is not loaded, with nothing undone;    *)
(* otherwise devfs_make_node publishes /dev/kvm.  Nothing is visible to    *)
(* userspace before the node, so the function is one step.                 *)
MyKextStart ==
  /\ kpc = "unloaded" /\ loads < MaxLoads
  /\ loads' = loads + 1
  /\ \E vmxonOk, cdevswOk \in BOOLEAN :
       /\ vmxUse' = IF vmxonOk THEN vmxUse + 1 ELSE vmxUse
       /\ IF vmxonOk /\ cdevswOk
          THEN kpc' = "loaded" /\ dev' = TRUE
          ELSE UNCHANGED <<kpc, dev>>

(* What the administrator knows: kextunload is run once QEMU has closed    *)
(* /dev/kvm and returned from every call.  MyKextStop itself checks        *)
(* nothing.                                                                *)
UserMayUnload ==
  \/ ~QemuOrder
  \/ (\A p \in Procs : fds[p] = 0) /\ (\A t \in Threads : pc[t] = "idle")

(* Fault-injection variant of MyKextStop: host_vmxoff before the node and  *)
(* the cdevsw entry are removed.                                           *)
MyKextStopVmxoffFirst ==
  \/ /\ kpc = "loaded" /\ UserMayUnload
     /\ vmxUse' = vmxUse - 1 /\ kpc' = "stopping"
     /\ UNCHANGED <<dev, loads>>
  \/ /\ kpc = "stopping"
     /\ dev' = FALSE /\ kpc' = "unloaded"
     /\ UNCHANGED <<vmxUse, loads>>

(* MyKextStop: devfs_remove and cdevsw_remove, then host_vmxoff, which     *)
(* decrements the use count.                                               *)
MyKextStop ==
  \/ /\ kpc = "loaded" /\ UserMayUnload
     /\ dev' = FALSE /\ kpc' = "stopping"
     /\ UNCHANGED <<vmxUse, loads>>
  \/ /\ kpc = "stopping"
     /\ vmxUse' = vmxUse - 1 /\ kpc' = "unloaded"
     /\ UNCHANGED <<dev, loads>>

Next ==
  \/ /\ \E t \in Threads :
          \/ kvm_dev_open(t) \/ OpenIncRead(t) \/ OpenIncWrite(t) \/ OpenCheck(t)
          \/ kvm_dev_close(t) \/ CloseFree(t)
          \/ \E c \in Cmds : kvm_dev_ioctl(t, c)
          \/ IoctlLock(t) \/ IoctlCmd(t) \/ IoctlUnlock(t)
     /\ UNCHANGED kextVars
  \/ /\ MyKextStart \/ MyKextStop
     /\ UNCHANGED <<stateVars, fds, pc, lst, tmp, cmd, ops, ghostVars, err>>

Spec == Init /\ [][Next]_vars

-----------------------------------------------------------------------------
TypeOK ==
  /\ head \in Ids \cup {NULL} /\ heap \subseteq Ids
  /\ nxt \in [Ids -> Ids \cup {NULL}] /\ prv \in [Ids -> Ids \cup {NULL}]
  /\ sproc \in [Ids -> Procs] /\ cnt \in [Ids -> Nat]
  /\ locks \in [Ids -> BOOLEAN] /\ vcpu \in [Ids -> BOOLEAN]
  /\ mm \in [Ids -> BOOLEAN] /\ holder \in [Ids -> Threads \cup {NoThread}]
  /\ fds \in [Procs -> Nat]
  /\ pc \in [Threads -> {"idle", "o_read", "o_write", "o_check", "c_free",
                         "i_lock", "i_cmd", "i_unlock"}]
  /\ lst \in [Threads -> Ids \cup {NULL}]
  /\ ops \in [Threads -> 0..MaxOps]
  /\ vcpuAllocs \in [Ids -> Nat]
  /\ kpc \in {"unloaded", "loaded", "stopping"} /\ dev \in BOOLEAN
  /\ vmxUse \in 0..MaxLoads /\ loads \in 0..MaxLoads

(* head_of_state stays a well-formed doubly linked list under concurrent   *)
(* opens and closes of several processes: following next from head ends   *)
(* at NULL, every prev is the inverse of next and head has no prev, and    *)
(* the listed states are exactly the allocated ones except a state that    *)
(* kvm_dev_close has unlinked and is freeing.                              *)
RECURSIVE EndsAtNull(_, _)
EndsAtNull(s, n) == s = NULL \/ (n > 0 /\ EndsAtNull(nxt[s], n - 1))
ListWellFormed ==
  /\ EndsAtNull(head, MaxStates)
  /\ head # NULL => prv[head] = NULL
  /\ \A s \in Listed : nxt[s] # NULL => prv[nxt[s]] = s
  /\ \A s \in Listed : prv[s] # NULL => prv[s] \in Listed /\ nxt[prv[s]] = s
  /\ Listed = heap \ {lst[t] : t \in {u \in Threads : pc[u] = "c_free"}}

(* Whenever no thread of a process is inside kvm_dev_open, its state's     *)
(* open_count equals the number of descriptors the process holds on the   *)
(* device, and a process without descriptors has no state: the state (and  *)
(* its locks) live exactly as long as the process has the device open.     *)
OpenCountMatchesFds ==
  \A p \in Procs :
    (\A i \in Tids : pc[<<p, i>>] \notin OpenSteps) =>
      IF fds[p] = 0 THEN Find(p) = NULL
      ELSE Find(p) # NULL /\ cnt[Find(p)] = fds[p]

(* No thread of any process ever dereferences a NULL or freed state, vcpu, *)
(* mm or lock in kvm_dev_close or kvm_dev_ioctl, while processes open,     *)
(* use and close the device in QEMU's order and freed state blocks are     *)
(* handed out again: each process only ever reaches its own state through  *)
(* state_find, and that state outlives its last descriptor's calls.        *)
NoBadDereference == err = "none"

(* VMX operation is on whenever userspace can reach the monitor: while a   *)
(* thread is inside kvm_dev_open, kvm_dev_close or kvm_dev_ioctl, or a     *)
(* process holds /dev/kvm open, across kext loads and unloads.  It rests   *)
(* on MyKextStart publishing the node only after host_vmxon succeeded and  *)
(* MyKextStop removing it before host_vmxoff.                              *)
VmxOnWhileDeviceUsed ==
  (\E t \in Threads : pc[t] # "idle") \/ (\E p \in Procs : fds[p] > 0)
    => vmxUse > 0

(* Closing /dev/kvm releases every vcpu the handle created: once a state   *)
(* block has been freed by kvm_dev_close, no vcpu created through it       *)
(* (with its VMCS, EPT root and run page) is still allocated.  Spec        *)
(* section 6 says nothing of a handle survives its close.                 *)
VcpusFreedAtClose == \A s \in Ids \ heap : vcpuAllocs[s] = 0
=============================================================================
