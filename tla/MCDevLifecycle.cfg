\* Two processes with one thread each, used the way QEMU uses the device;
\* a process may open the device twice.
CONSTANTS
  Procs <- MCProcs
  Tids <- MCOneTid
  MaxStates = 3
  MaxOps = 7
  MaxLoads = 2
  QemuOrder = TRUE
SPECIFICATION Spec
\* Processes stop calling after MaxOps calls.
CHECK_DEADLOCK FALSE
INVARIANTS
  TypeOK
  ListWellFormed
  OpenCountMatchesFds
  NoBadDereference
  VmxOnWhileDeviceUsed
