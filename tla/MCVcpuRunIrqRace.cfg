\* KVM_IRQ_LINE racing the run loop's injection on pending_irq; entries
\* never fail, so a lost interrupt can only come from the race.
CONSTANTS
  Lines <- MCLines
  MaxCont <- MCMaxCont
  MaxRuns <- MCMaxRuns
  EntryFailures <- NoEntryFailures
  NoEvent = NoEvent

SPECIFICATION Spec
VIEW View

INVARIANT NoLostInterrupt
