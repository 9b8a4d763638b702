--------------------------- MODULE MCThreadPool ---------------------------
(* ThreadPool for TLC.                                                     *)
EXTENDS ThreadPool

BothBuilds == BOOLEAN
InPlace == {TRUE}
=============================================================================
