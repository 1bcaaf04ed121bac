------------------------------ MODULE TokenLife ------------------------------
(***************************************************************************)
(* What the token service promises to those who hold a token: it works for *)
(* its owner only, only while it lives and only before its deadline, and a *)
(* token that has ended never comes back.                                  *)
(***************************************************************************)
EXTENDS Naturals

CONSTANTS
    Tokens,     \* the tokens there can be
    Deadlines,  \* the times a token can be issued for
    Owners,     \* for whom a request is carried out
    Nothing     \* the answer to a request that is refused

VARIABLES
    now,        \* the time
    life,       \* how far each token is in its life
    deadline,   \* the time after which it does not work any more
    owner,      \* for whom it was issued
    served      \* the request just answered: its token, and for whom it ran

vars == <<now, life, deadline, owner, served>>

NoRequest == [token |-> Nothing, as |-> Nothing]

Init ==
    /\ now \in Nat
    /\ life = [t \in Tokens |-> "none"]
    /\ deadline = [t \in Tokens |-> 0]
    /\ owner \in [Tokens -> Owners]
    /\ served = NoRequest

Tick ==
    /\ now' > now
    /\ served' = NoRequest
    /\ UNCHANGED <<life, deadline, owner>>

Issue(t) ==
    /\ life[t] = "none"
    /\ life' = [life EXCEPT ![t] = "live"]
    /\ \E d \in Deadlines, o \in Owners :
        /\ deadline' = [deadline EXCEPT ![t] = d]
        /\ owner' = [owner EXCEPT ![t] = o]
    /\ served' = NoRequest
    /\ UNCHANGED now

End(ts) ==
    /\ \A t \in ts : life[t] = "live"
    /\ life' = [t \in Tokens |-> IF t \in ts THEN "over" ELSE life[t]]
    /\ served' = NoRequest
    /\ UNCHANGED <<now, deadline, owner>>

Accept(t) ==
    /\ life[t] = "live"
    /\ now <= deadline[t]
    /\ served' = [token |-> t, as |-> owner[t]]
    /\ UNCHANGED <<now, life, deadline, owner>>

Refuse(t) ==
    /\ served' = [token |-> t, as |-> Nothing]
    /\ UNCHANGED <<now, life, deadline, owner>>

Next ==
    \/ Tick
    \/ \E t \in Tokens : Issue(t) \/ Accept(t) \/ Refuse(t)
    \/ \E ts \in SUBSET Tokens : End(ts)

Spec == Init /\ [][Next]_vars

=============================================================================
