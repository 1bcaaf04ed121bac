------------------------------- MODULE MCInfra -------------------------------
(* The Infrastructure controller on small instances.  The budgets of a run *)
(* say which events from outside meet in one behaviour, and how often.     *)
EXTENDS InfraController, TLC

Quiet == [c \in Costs |-> 0]

(* A user scales, together with a failed call and a restart, with a stop   *)
(* and a restart, or with an administrator who deletes the deployment; an  *)
(* administrator replaces the deployment.                                  *)
SafetyBudgets ==
    {[Quiet EXCEPT !.deploy = 1, !.scale = 1, !.fault = 1, !.crash = 1],
     [Quiet EXCEPT !.deploy = 1, !.scale = 1, !.stop = 1, !.crash = 1],
     [Quiet EXCEPT !.deploy = 1, !.scale = 1, !.admin = 1],
     [Quiet EXCEPT !.deploy = 1, !.admin = 2]}

(* The first of these with a change of availability; a redeployment. *)
ConvergeBudgets ==
    {[Quiet EXCEPT !.deploy = 1, !.scale = 1, !.avail = 1, !.fault = 1, !.crash = 1],
     [Quiet EXCEPT !.deploy = 2, !.delete = 1]}

RedeployBudgets == {[Quiet EXCEPT !.deploy = 2, !.delete = 1]}

(* The workers do the same, so one order of them is enough. *)
WorkerSymmetry == Permutations(Workers)

=============================================================================
