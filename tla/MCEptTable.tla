----------------------------- MODULE MCEptTable -----------------------------
(* Model values for EptTable: one index bit per level (16 guest pages,     *)
(* so every level both shares and splits paths), two frames, and a heap    *)
(* that holds the root plus three blocks per ept_add_page call.            *)
EXTENDS EptTable

MCFrames == {1, 2}
MCAligned == {0}
MCHeapFull == 1 + 3 * 3
=============================================================================
