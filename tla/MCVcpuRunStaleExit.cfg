\* A VMLAUNCH that fails with VMfailValid, after an IO exit of an earlier KVM_RUN.
CONSTANTS
  Lines <- MCLines
  MaxCont <- MCMaxCont
  MaxRuns <- MCMaxRuns
  EntryFailures <- AllEntryFailures
  NoEvent = NoEvent

SPECIFICATION Spec
VIEW View

INVARIANT ReportedIoIsFresh
