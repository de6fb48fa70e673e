--------------------------- MODULE MCCaptureQueue ---------------------------
(***************************************************************************)
(* Instances of CaptureQueue for TLC.                                      *)
(***************************************************************************)
EXTENDS CaptureQueue

MCOneJob == {1}
MCJobs == 1 .. 2
MCSecond == {2}
MCErrorCodes == {"WORKER_FAILED"}
MCNoLegacy == {}
=============================================================================
