--------------------------- MODULE MCShmSegments ---------------------------
(***************************************************************************)
(* An instance for TLC. A third start of the server meets what a first one *)
(* that crashed and a second one that was refused have left; two clients   *)
(* make one that is new and one that is refused, or that was connected to  *)
(* an earlier server.                                                      *)
(***************************************************************************)
EXTENDS ShmSegments

MCServerStarts == 3
MCClientStarts == 2
MCMaxFailures == 1
MCMaxRunning == 3
=============================================================================
