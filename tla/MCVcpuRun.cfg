\* Safety of the run loop, exit dispatch and interrupt injection, with the
\* interrupt thread running concurrently and every kind of entry failure.
CONSTANTS
  Lines <- MCLines
  MaxCont <- MCMaxCont
  MaxRuns <- MCMaxRuns
  EntryFailures <- AllEntryFailures
  NoEvent = NoEvent

SPECIFICATION Spec
VIEW View

INVARIANT TypeOK
INVARIANT ShadowMatchesPaging
INVARIANT NoEntryWithPendingIn
INVARIANT NoOverwrittenEvent
\* Every KVM_RUN returns, whatever the guest exits with.
PROPERTY RunReturns
