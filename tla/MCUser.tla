-------------------------------- MODULE MCUser --------------------------------
(* The User controller on small instances.  The budgets of a run say which *)
(* events from outside meet in one behaviour, and how often.               *)
EXTENDS UserController, TLC

Quiet == [c \in Costs |-> 0]

(* Two Users, one of them without a principal of its own. *)
SharedBudgets == {[Quiet EXCEPT !.user = 2]}

(* What may happen to a User that stays; a User deleted and created again; *)
(* an intrusion and a stop.                                                *)
ConvergeBudgets ==
    {[Quiet EXCEPT !.user = 1, !.edit = 1, !.remove = 1, !.fault = 1, !.crash = 1],
     [Quiet EXCEPT !.user = 2, !.delete = 1],
     [Quiet EXCEPT !.user = 1, !.intrude = 1, !.stop = 1]}

OneUserBudgets == {[Quiet EXCEPT !.user = 1]}

(* The workers do the same, so one order of them is enough. *)
WorkerSymmetry == Permutations(Workers)

=============================================================================
