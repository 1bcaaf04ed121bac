------------------------------ MODULE MCStartup ------------------------------
(* Start-up on a small instance: the configuration says how often each      *)
(* outside event may happen.                                                *)
EXTENDS Startup

CONSTANTS Faults, Crashes, Edits

MCBudget == [fault |-> Faults, crash |-> Crashes, edit |-> Edits]

=============================================================================
