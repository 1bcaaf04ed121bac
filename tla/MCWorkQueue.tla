---------------------------- MODULE MCWorkQueue ----------------------------
(* The work queue with three keys and the two workers that startAPIServer  *)
(* gives each controller.                                                  *)
EXTENDS WorkQueue

=============================================================================
