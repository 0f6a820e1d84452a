----------------------------- MODULE MCVcpuRun -----------------------------
(***************************************************************************)
(* Model-checking instance of VcpuRun: two interrupt lines (the timer line *)
(* 0 and one device line) so that one line can be cleared while the other *)
(* is being raised, a loop bound of 3 so that an injection can follow an   *)
(* interrupt-window exit inside one KVM_RUN and a failed entry can come    *)
(* between them, and 3 KVM_RUN calls so that an exit reported by one run   *)
(* is visible to the next.                                                 *)
(***************************************************************************)
EXTENDS VcpuRun

MCLines == {0, 1}
MCMaxCont == 3
MCMaxRuns == 2
AllEntryFailures == {"VMfailValid", "InvalidGuest"}
NoEntryFailures == {}
=============================================================================
