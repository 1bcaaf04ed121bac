------------------------------ MODULE MCStream ------------------------------
(* A client of the base information, whom the call of another stream can   *)
(* meet, or one of the cluster's.                                          *)
EXTENDS EventStream

MCKindSeq == <<"dashboard", "longhorn">>

=============================================================================
