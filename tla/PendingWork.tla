----------------------------- MODULE PendingWork -----------------------------
(***************************************************************************)
(* What the controllers rely on in their work queue, whatever it is made   *)
(* of: work that was asked for stays pending until a worker takes it, and  *)
(* a key is worked on by one worker at a time.                             *)
(***************************************************************************)
CONSTANTS Keys, Workers, NoKey

VARIABLES
    pending,    \* the keys that have to be worked on
    busy,       \* the key each worker works on
    closed      \* nothing is accepted any more

vars == <<pending, busy, closed>>

Init ==
    /\ pending = {}
    /\ busy = [w \in Workers |-> NoKey]
    /\ closed = FALSE

Ask(k) ==
    /\ ~closed
    /\ pending' = pending \union {k}
    /\ UNCHANGED <<busy, closed>>

(* A worker takes a key that no other has.  The key stays pending when it  *)
(* was asked for once more for a later time.                               *)
Take(w, k) ==
    /\ busy[w] = NoKey
    /\ k \in pending
    /\ \A v \in Workers : busy[v] # k
    /\ busy' = [busy EXCEPT ![w] = k]
    /\ pending' \in {pending, pending \ {k}}
    /\ UNCHANGED closed

Finish(w) ==
    /\ busy[w] # NoKey
    /\ busy' = [busy EXCEPT ![w] = NoKey]
    /\ UNCHANGED <<pending, closed>>

Close ==
    /\ ~closed
    /\ closed' = TRUE
    /\ UNCHANGED <<pending, busy>>

Next ==
    \/ \E k \in Keys : Ask(k) \/ \E w \in Workers : Take(w, k)
    \/ \E w \in Workers : Finish(w)
    \/ Close

Spec == Init /\ [][Next]_vars

=============================================================================
