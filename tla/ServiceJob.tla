------------------------------ MODULE ServiceJob ------------------------------
(***************************************************************************)
(* The functions of the library that work on data only keep their state in *)
(* the caller's context.  A behaviour is one such use, a job: what was     *)
(* asked for, the context and what came out so far.                        *)
(***************************************************************************)
VARIABLE job
=============================================================================
