\* Three processors, so a thread can leave one processor and land on a
\* third; six ioctls after KVM_CREATE_VM, runs and sregs in any order.
CONSTANTS
  CPUs = {1, 2, 3}
  MaxOps = 6
SPECIFICATION Spec
INVARIANTS
  AccessOnCurrent
  NeverActiveTwice
  LaunchOnClear
  HostStateIntact
