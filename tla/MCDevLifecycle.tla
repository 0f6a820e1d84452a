---------------------------- MODULE MCDevLifecycle --------------------------
(* Model values for DevLifecycle.                                          *)
EXTENDS DevLifecycle

MCProcs == {"p1", "p2"}
MCOneTid == {1}
MCOneProc == {"p1"}
=============================================================================
