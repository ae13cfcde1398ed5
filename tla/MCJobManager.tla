---------------------------- MODULE MCJobManager ----------------------------
(***************************************************************************)
(* Instances of JobManager for TLC.                                        *)
(***************************************************************************)
EXTENDS JobManagerProofs

=============================================================================
