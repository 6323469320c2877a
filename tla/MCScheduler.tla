---------------------------- MODULE MCScheduler ----------------------------
(* Scheduler for small numbers of CPUs, tasks and threads.                 *)
EXTENDS Scheduler

Workload(tasks, threads, ops) == [tasks |-> tasks, threads |-> threads, ops |-> ops]

AllOps == Workload(<<"a">>, 3, {"yield", "spawn", "kill", "exit", "fault"})
(* Enough threads for a busy runqueue, for stealing and for long lists. *)
Crowd == Workload(<<"a">>, 4, {"spawn", "kill"})
TwoTasks == Workload(<<"a", "b">>, 2, {"yield", "kill", "exit", "fault"})
(* More tasks than CPUs: threads of two tasks take turns on one CPU. *)
ThreeTasks == Workload(<<"a", "b", "c">>, 3, {"yield", "exit"})

SafetyWorkloads == {AllOps, Crowd, TwoTasks, ThreeTasks}
LiveWorkloads == {Workload(<<"a">>, 3, {"spawn", "kill", "exit"})}
SpawnExit == {Workload(<<"a">>, 3, {"spawn", "exit"})}
SpawnMany == {Crowd}
SpawnKill == {Workload(<<"a">>, 3, {"spawn", "kill"})}
=============================================================================
