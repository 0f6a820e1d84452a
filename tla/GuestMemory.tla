---------------------------- MODULE GuestMemory ----------------------------
(***************************************************************************)
(* What the page-table manager promises (spec.md 4.1 and 7): a partial     *)
(* map from guest page numbers to host frames.  addPage overwrites the     *)
(* entry of exactly the page it is given (last write wins), translate      *)
(* returns the frame of the latest addPage of that page or Absent, and     *)
(* free discards the whole map.  An addPage whose allocation fails leaves  *)
(* the map as it was.                                                      *)
(***************************************************************************)
CONSTANTS Pages,     \* guest page numbers
          Frames,    \* host frames
          Absent     \* the result of translate for an unmapped page

VARIABLES gmem, alive

Init ==
  /\ gmem = [p \in Pages |-> Absent]
  /\ alive = TRUE

AddPage(p, f) ==
  /\ alive
  /\ gmem' = [gmem EXCEPT ![p] = f]
  /\ UNCHANGED alive

Free ==
  /\ alive
  /\ gmem' = [p \in Pages |-> Absent]
  /\ alive' = FALSE

Next == (\E p \in Pages, f \in Frames : AddPage(p, f)) \/ Free

Spec == Init /\ [][Next]_<<gmem, alive>>
=============================================================================
