--------------------------- MODULE MCCaptureWorker ---------------------------
(* Values of the constants of CaptureWorker for TLC. *)
EXTENDS CaptureWorker, TLC

CONSTANTS j1, j2

MCJobs == {j1, j2}
\* The fourth message repeats the second.
MCKinds == <<"state", "review", "noise", "review", "unsafe">>
MCItem == <<1, 2, 3, 2, 5>>
MCPhase == <<"phase">>
MCOwnItem == <<1>>
MCRepeat == <<"review", "review">>
MCSameItem == <<1, 1>>
MCSymmetry == Permutations(MCJobs)
=============================================================================
