----------------------------- MODULE MCInfraApi -----------------------------
(* Two requests and two infrastructures. *)
EXTENDS InfraApi

MCKindSeq == <<"dashboard", "longhorn">>

=============================================================================
