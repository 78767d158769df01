----------------------------- MODULE MCWakePipe -----------------------------
(* Instances of WakePipe for TLC.                                            *)
EXTENDS WakePipe
=============================================================================
