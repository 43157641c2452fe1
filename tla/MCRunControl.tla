---------------------------- MODULE MCRunControl ----------------------------
(* RunControl for TLC.  The configurations choose the instance and which    *)
(* commands are given.                                                     *)
EXTENDS RunControl
=============================================================================
