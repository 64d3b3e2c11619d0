----------------------- MODULE MCMonitoringDeadlines -----------------------
(***************************************************************************)
(* Instances of MonitoringDeadlines for TLC: records, web workers and      *)
(* Celery processes are interchangeable.                                   *)
(***************************************************************************)
EXTENDS MonitoringDeadlines, TLC

Symmetry == Permutations(Record) \union Permutations(Worker) \union Permutations(Runner)
============================================================================
