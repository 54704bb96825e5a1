---------------------------- MODULE MCImportJob ----------------------------
(* Instances of ImportJob: a job in the hands of at most two executions.   *)
EXTENDS ImportJob
=============================================================================
