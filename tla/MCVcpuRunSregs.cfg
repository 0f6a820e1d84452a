\* KVM_SET_SREGS setting CR0.PG between runs, then an injection.
CONSTANTS
  Lines <- MCLines
  MaxCont <- MCMaxCont
  MaxRuns <- MCMaxRuns
  EntryFailures <- NoEntryFailures
  NoEvent = NoEvent

SPECIFICATION Spec
VIEW View

INVARIANT InjectedVectorMatchesMode
