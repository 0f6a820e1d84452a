\* A guest that turns paging on and reads CR0 back; one KVM_RUN suffices.
CONSTANTS
  Lines <- MCLines
  MaxCont <- MCMaxCont
  MaxRuns <- MCMaxRuns
  EntryFailures <- NoEntryFailures
  NoEvent = NoEvent

SPECIFICATION Spec
VIEW View

INVARIANT Cr0ReadHasNoReservedBits
