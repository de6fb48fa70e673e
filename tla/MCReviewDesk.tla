---------------------------- MODULE MCReviewDesk ----------------------------
(* Values of the constants of ReviewDesk for TLC. *)
EXTENDS ReviewDesk

MCItems == 1..3
MCTwins == <<"c", "c", "c">>
MCEvent == <<"e", "f", "g">>
MCRank == <<3, 1, 2>>
\* A new date moves a proposal back, unless nothing is as sure as it is.
MCLateRank == <<6, 1, 5>>
MCEdits == {1, 2}
MCOneEdit == {1}
=============================================================================
