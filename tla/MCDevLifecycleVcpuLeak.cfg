\* One process that uses the device outside QEMU's order: it may issue
\* KVM_CREATE_VM more than once before it maps and closes.
CONSTANTS
  Procs <- MCOneProc
  Tids <- MCOneTid
  MaxStates = 1
  MaxOps = 5
  MaxLoads = 1
  QemuOrder = FALSE
SPECIFICATION Spec
CHECK_DEADLOCK FALSE
INVARIANT VcpusFreedAtClose
