-------------------------- MODULE TokenServiceProofs --------------------------
(***************************************************************************)
(* The token service, for any users, logins, lifetimes and bounds.         *)
(*                                                                         *)
(* The inductive invariant says of a login under way and of a token what   *)
(* the code never writes down: the principal is the one of the name that   *)
(* logged in or empty, the user is that principal or empty, and the key    *)
(* expires one lifetime after it was issued.                               *)
(***************************************************************************)
EXTENDS TokenService, FiniteSetTheorems, TLAPS

-----------------------------------------------------------------------------
(* The invariant.                                                          *)

Labels == {"idle", "authenticate", "access", "ensure", "create", "update"}

(* What is known of a login at the time n with m tokens created. *)
LoginRec(n, m) ==
    {r \in [pc : Labels, name : Names, principal : Names, user : Names,
            ttl : TTLs \cup {0}, key : KeysTo(n), token : 0 .. m] :
        /\ r.pc # "idle" => r.name \in Users /\ r.ttl \in TTLs
        /\ r.principal \in {NoUser, r.name}
        /\ r.user \in {NoUser, r.principal}
        /\ r.pc = "create" => r.key.exp = r.key.iat + r.ttl
        /\ r.pc = "update" => r.token \in 1 .. m}

(* And of a token. *)
TokenRec(n) ==
    {x \in [key : KeysTo(n), ttl : TTLs, created : 0 .. n,
            name : Users, principal : Names, user : Names] :
        /\ x.principal = x.name
        /\ x.user \in {NoUser, x.name}
        /\ x.key.exp = x.key.iat + x.ttl}

ClockOK == now \in 1 .. MaxTime

PeopleOK ==
    /\ user \in [Users -> {"gone", "bare", "full"}]
    /\ principal \subseteq Users
    /\ configured \in BOOLEAN
    /\ budget \in Nat

TokensOK == tok \in Seq(TokenRec(now)) /\ Len(tok) <= MaxTokens

IdsOK ==
    /\ store \subseteq Ids
    /\ stamped \subseteq Ids
    /\ cache \subseteq Ids
    /\ held \subseteq Ids
    /\ list \subseteq Ids

LoginsOK == login \in [Logins -> LoginRec(now, Len(tok))]

(* An answer on behalf of somebody is one to a token of his. *)
AnswerOK ==
    /\ answer.token \in 0 .. Len(tok) /\ answer.as \in Names
    /\ answer.as # NoUser =>
        answer.token \in Ids /\ answer.as = tok[answer.token].name

TokenInv == ClockOK /\ PeopleOK /\ TokensOK /\ IdsOK /\ LoginsOK /\ AnswerOK

-----------------------------------------------------------------------------
(* Lemmas about the records.                                               *)

(* What was known stays known as time passes and tokens are created. *)
LEMMA RecordsGrow ==
    ASSUME NEW n \in Nat, NEW m \in Nat, NEW a \in Nat, NEW b \in Nat, n <= a, m <= b
    PROVE  TokenRec(n) \subseteq TokenRec(a) /\ LoginRec(n, m) \subseteq LoginRec(a, b)
  <1>1. KeysTo(n) \subseteq KeysTo(a)
    BY DEF KeysTo
  <1>2. ASSUME NEW x \in TokenRec(n) PROVE x \in TokenRec(a)
    <2>1. x \in [key : KeysTo(n), ttl : TTLs, created : 0 .. n,
                 name : Users, principal : Names, user : Names]
      BY DEF TokenRec
    <2>2. x \in [key : KeysTo(a), ttl : TTLs, created : 0 .. a,
                 name : Users, principal : Names, user : Names]
      BY <1>1, <2>1
    <2> QED
      BY <2>2 DEF TokenRec
  <1>3. ASSUME NEW r \in LoginRec(n, m) PROVE r \in LoginRec(a, b)
    <2>1. r \in [pc : Labels, name : Names, principal : Names, user : Names,
                 ttl : TTLs \cup {0}, key : KeysTo(n), token : 0 .. m]
      BY DEF LoginRec
    <2>2. r \in [pc : Labels, name : Names, principal : Names, user : Names,
                 ttl : TTLs \cup {0}, key : KeysTo(a), token : 0 .. b]
      BY <1>1, <2>1
    <2>3. r.pc = "update" => r.token \in 1 .. b
      BY DEF LoginRec
    <2> QED
      BY <2>2, <2>3 DEF LoginRec
  <1> QED
    BY <1>2, <1>3

(* A sequence over a set is one over any larger set. *)
LEMMA SeqGrow ==
    ASSUME NEW S, NEW T, S \subseteq T, NEW s \in Seq(S)
    PROVE  s \in Seq(T)
  OBVIOUS

(* The variables that hold tokens and logins. *)
LEMMA Grows ==
    ASSUME TokenInv, now' \in Nat, now <= now', UNCHANGED <<tok, login>>
    PROVE  TokensOK' /\ LoginsOK'
  <1>1. now \in Nat /\ Len(tok) \in Nat
    BY DEF TokenInv, ClockOK, TokensOK
  <1>2. TokenRec(now) \subseteq TokenRec(now')
        /\ LoginRec(now, Len(tok)) \subseteq LoginRec(now', Len(tok))
    BY <1>1, RecordsGrow
  <1>3. tok \in Seq(TokenRec(now'))
    BY <1>2, SeqGrow DEF TokenInv, TokensOK
  <1>4. login \in [Logins -> LoginRec(now', Len(tok))]
    BY <1>2 DEF TokenInv, LoginsOK
  <1> QED
    BY <1>3, <1>4 DEF TokenInv, TokensOK, LoginsOK

(* What the fields of a token and of a login are. *)
LEMMA TokenFacts ==
    ASSUME TokenInv, NEW t \in Ids
    PROVE  /\ tok[t].ttl \in Nat /\ tok[t].created \in Nat
           /\ tok[t].key.exp \in Nat /\ tok[t].key.iat \in 0 .. now
           /\ tok[t].name \in Users /\ tok[t].principal = tok[t].name
           /\ tok[t].user \in {NoUser, tok[t].name}
           /\ tok[t].key.exp = tok[t].key.iat + tok[t].ttl /\ tok[t].ttl \in TTLs
  <1>1. tok[t] \in TokenRec(now)
    BY DEF TokenInv, TokensOK, Ids
  <1>2. /\ tok[t].principal = tok[t].name
        /\ tok[t].user \in {NoUser, tok[t].name}
        /\ tok[t].key.exp = tok[t].key.iat + tok[t].ttl
    BY <1>1 DEF TokenRec
  <1>3. tok[t] \in [key : KeysTo(now), ttl : TTLs, created : 0 .. now,
                    name : Users, principal : Names, user : Names]
    BY <1>1 DEF TokenRec
  <1>4. /\ tok[t].key \in KeysTo(now) /\ tok[t].ttl \in TTLs /\ tok[t].created \in 0 .. now
        /\ tok[t].name \in Users
    BY <1>3
  <1>5. tok[t].key.exp \in Nat /\ tok[t].key.iat \in 0 .. now
    BY <1>4 DEF KeysTo
  <1>6. tok[t].ttl \in Nat
    BY <1>4, TTLsAssumption
  <1>7. tok[t].created \in Nat
    BY <1>4, BoundsAssumption DEF TokenInv, ClockOK
  <1> QED
    BY <1>2, <1>4, <1>5, <1>6, <1>7

LEMMA LoginFacts ==
    ASSUME TokenInv, NEW l \in Logins
    PROVE  /\ login[l] \in LoginRec(now, Len(tok))
           /\ login[l].pc \in Labels /\ login[l].name \in Names
           /\ login[l].principal \in {NoUser, login[l].name}
           /\ login[l].user \in {NoUser, login[l].principal}
           /\ login[l].principal \in Names /\ login[l].user \in Names
           /\ login[l].ttl \in TTLs \cup {0} /\ login[l].ttl \in Nat
           /\ login[l].key \in KeysTo(now) /\ login[l].token \in 0 .. Len(tok)
           /\ login[l].pc # "idle" => login[l].name \in Users /\ login[l].ttl \in TTLs
           /\ login[l].pc = "create" =>
                login[l].key.exp = login[l].key.iat + login[l].ttl
           /\ login[l].pc = "update" => login[l].token \in Ids
  <1>1. login[l] \in LoginRec(now, Len(tok))
    BY DEF TokenInv, LoginsOK
  <1>2. /\ login[l].pc # "idle" => login[l].name \in Users /\ login[l].ttl \in TTLs
        /\ login[l].principal \in {NoUser, login[l].name}
        /\ login[l].user \in {NoUser, login[l].principal}
        /\ login[l].pc = "create" =>
             login[l].key.exp = login[l].key.iat + login[l].ttl
        /\ login[l].pc = "update" => login[l].token \in 1 .. Len(tok)
    BY <1>1 DEF LoginRec
  <1>3. login[l] \in [pc : Labels, name : Names, principal : Names, user : Names,
                      ttl : TTLs \cup {0}, key : KeysTo(now), token : 0 .. Len(tok)]
    BY <1>1 DEF LoginRec
  <1>4. /\ login[l].pc \in Labels /\ login[l].name \in Names
        /\ login[l].principal \in Names /\ login[l].user \in Names
        /\ login[l].ttl \in TTLs \cup {0}
        /\ login[l].key \in KeysTo(now) /\ login[l].token \in 0 .. Len(tok)
    BY <1>3
  <1> QED
    BY <1>1, <1>2, <1>4, TTLsAssumption DEF Ids

LEMMA IdleFits ==
    ASSUME NEW n \in Nat, NEW m \in Nat
    PROVE  Idle \in LoginRec(n, m)
  <1>1. NoKey \in KeysTo(n)
    BY DEF NoKey, KeysTo
  <1>2. Idle \in [pc : Labels, name : Names, principal : Names, user : Names,
                  ttl : TTLs \cup {0}, key : KeysTo(n), token : 0 .. m]
    BY <1>1 DEF Idle, Labels, Names
  <1> QED
    BY <1>2 DEF LoginRec, Idle

(* GetStoredToken finds the token it is asked for or none: the same key in *)
(* another token is not enough.                                            *)
LEMMA StoredToken ==
    ASSUME TokenInv, NEW t \in Ids
    PROVE  /\ GetStoredToken(t).status \in {0, 401, 404, 410}
           /\ GetStoredToken(t).status = 0 =>
                GetStoredToken(t).found = t /\ t \in cache /\ ~IsExpired(t)
  <1> DEFINE xs == CheckTokenCache(t)
  <1>1. IsFiniteSet(xs)
    <2>1. Len(tok) \in Int /\ 1 \in Int
      BY DEF TokenInv, TokensOK
    <2>2. IsFiniteSet(1 .. Len(tok))
      BY <2>1, FS_Interval
    <2>3. xs \subseteq 1 .. Len(tok)
      BY DEF TokenInv, IdsOK, Ids, CheckTokenCache
    <2> QED
      BY <2>2, <2>3, FS_Subset
  <1>2. Cardinality(xs) \in Nat
    BY <1>1, FS_CardinalityType
  <1>3. xs = {t} => t \in cache
    BY DEF CheckTokenCache
  <1> HIDE DEF xs
  <1>4. CASE Cardinality(xs) > 1
    <2>1. GetStoredToken(t) = [status |-> 404, found |-> 0]
      BY <1>2, <1>4 DEF GetStoredToken, xs
    <2> QED
      BY <2>1
  <1>5. CASE Cardinality(xs) <= 1 /\ xs # {t}
    <2>1. GetStoredToken(t) = [status |-> 401, found |-> 0]
      BY <1>2, <1>5 DEF GetStoredToken, xs
    <2> QED
      BY <2>1
  <1>6. CASE Cardinality(xs) <= 1 /\ xs = {t}
    <2>1. GetStoredToken(t) = IF IsExpired(t) THEN [status |-> 410, found |-> 0]
                              ELSE [status |-> 0, found |-> t]
      BY <1>2, <1>6 DEF GetStoredToken, xs
    <2> QED
      BY <1>3, <1>6, <2>1
  <1> QED
    BY <1>2, <1>4, <1>5, <1>6

-----------------------------------------------------------------------------
(* Every step keeps the invariant.                                         *)

LEMMA InvInit == Init => TokenInv
  <1> SUFFICES ASSUME Init PROVE TokenInv
    OBVIOUS
  <1>1. ClockOK
    BY BoundsAssumption DEF Init, ClockOK
  <1>2. PeopleOK
    BY BudgetAssumption DEF Init, PeopleOK
  <1>3. TokensOK
    BY BoundsAssumption DEF Init, TokensOK
  <1>4. IdsOK
    BY DEF Init, IdsOK
  <1>5. LoginsOK
    BY IdleFits DEF Init, LoginsOK
  <1>6. AnswerOK
    BY DEF Init, AnswerOK, NoAnswer, Names
  <1> QED
    BY <1>1, <1>2, <1>3, <1>4, <1>5, <1>6 DEF TokenInv

LEMMA SpendFits ==
    ASSUME PeopleOK, Spend
    PROVE  budget' \in Nat
  BY DEF PeopleOK, Spend

(* The parts of the invariant that an answer to nobody leaves. *)
LEMMA NoAnswerFits ==
    ASSUME answer' = NoAnswer, Len(tok') \in Nat
    PROVE  AnswerOK'
  BY DEF AnswerOK, NoAnswer, Names

(* The steps around the service. *)
LEMMA WorldStep ==
    ASSUME TokenInv, answer' = NoAnswer,
           \/ Tick \/ Configure \/ PurgeStarts
           \/ \E u \in Users : \/ PrincipalDelivered(u) \/ UserDelivered(u)
                              \/ UserDeleted(u) \/ PrincipalDeleted(u)
           \/ \E t \in Ids : TokenDelivered(t) \/ PurgeToken(t) \/ Logout(t)
    PROVE  TokenInv'
  <1> USE DEF userVars, tokenVars
  <1>0. /\ ClockOK /\ PeopleOK /\ TokensOK /\ IdsOK /\ now \in Nat
        /\ UNCHANGED <<tok, login>>
    BY BoundsAssumption
    DEF TokenInv, ClockOK, Tick, Configure, PurgeStarts, PrincipalDelivered, UserDelivered,
        UserDeleted, PrincipalDeleted, TokenDelivered, PurgeToken, Logout
  <1>1. ClockOK' /\ now <= now'
    BY <1>0, BoundsAssumption
    DEF ClockOK, Tick, Configure, PurgeStarts, PrincipalDelivered, UserDelivered,
        UserDeleted, PrincipalDeleted, TokenDelivered, PurgeToken, Logout
  <1>2. TokensOK' /\ LoginsOK'
    BY <1>0, <1>1, BoundsAssumption, Grows DEF ClockOK
  <1>3. AnswerOK'
    BY <1>0, NoAnswerFits DEF TokensOK
  <1>4. PeopleOK'
    <2>1. CASE \E u \in Users : \/ PrincipalDelivered(u) \/ UserDelivered(u)
                               \/ UserDeleted(u) \/ PrincipalDeleted(u)
      BY <1>0, <2>1, SpendFits
      DEF PeopleOK, PrincipalDelivered, UserDelivered, UserDeleted, PrincipalDeleted
    <2>2. CASE \E t \in Ids : TokenDelivered(t) \/ PurgeToken(t) \/ Logout(t)
      BY <1>0, <2>2, SpendFits DEF PeopleOK, TokenDelivered, PurgeToken, Logout
    <2>3. CASE Tick \/ Configure \/ PurgeStarts
      BY <1>0, <2>3 DEF PeopleOK, Tick, Configure, PurgeStarts
    <2> QED
      BY <2>1, <2>2, <2>3
  <1>5. IdsOK'
    <2>1. CASE \E u \in Users : \/ PrincipalDelivered(u) \/ UserDelivered(u)
                               \/ UserDeleted(u) \/ PrincipalDeleted(u)
      BY <1>0, <2>1
      DEF IdsOK, Ids, PrincipalDelivered, UserDelivered, UserDeleted, PrincipalDeleted
    <2>2. ASSUME NEW t \in Ids, TokenDelivered(t) \/ PurgeToken(t) \/ Logout(t) PROVE IdsOK'
      BY <1>0, <2>2 DEF IdsOK, Ids, TokenDelivered, PurgeToken, Logout
    <2>3. CASE Tick \/ Configure \/ PurgeStarts
      BY <1>0, <2>3 DEF IdsOK, Ids, Tick, Configure, PurgeStarts
    <2> QED
      BY <2>1, <2>2, <2>3
  <1> QED
    BY <1>1, <1>2, <1>3, <1>4, <1>5 DEF TokenInv

LEMMA RestartStep ==
    ASSUME TokenInv, answer' = NoAnswer, Restart
    PROVE  TokenInv'
  <1> USE DEF userVars, tokenVars
  <1>0. ClockOK /\ PeopleOK /\ TokensOK /\ IdsOK /\ now \in Nat /\ Len(tok) \in Nat
    BY BoundsAssumption DEF TokenInv, ClockOK, TokensOK
  <1>1. ClockOK' /\ TokensOK' /\ IdsOK'
    BY <1>0 DEF Restart, ClockOK, TokensOK, IdsOK, Ids
  <1>2. PeopleOK'
    BY <1>0, SpendFits DEF Restart, PeopleOK
  <1>3. LoginsOK'
    BY <1>0, IdleFits DEF Restart, LoginsOK
  <1>4. AnswerOK'
    BY <1>0, NoAnswerFits DEF Restart
  <1> QED
    BY <1>1, <1>2, <1>3, <1>4 DEF TokenInv

(* A request is carried out for the user of the token it came with. *)
LEMMA RequestStep ==
    ASSUME TokenInv, NEW t \in Ids, Request(t)
    PROVE  TokenInv'
  <1> USE DEF userVars, tokenVars
  <1>1. ClockOK' /\ PeopleOK' /\ TokensOK' /\ IdsOK' /\ LoginsOK'
    BY DEF TokenInv, Request, ClockOK, PeopleOK, TokensOK, IdsOK, Ids, LoginsOK
  <1>2. AnswerOK'
    <2> DEFINE r == GetStoredToken(t)
    <2>1. r.status = 0 => r.found = t
      BY StoredToken
    <2>2. tok[t].user \in {NoUser, tok[t].name} /\ tok[t].name \in Users
      BY TokenFacts
    <2>3. t \in 0 .. Len(tok) /\ Len(tok) \in Nat
      BY DEF Ids, TokenInv, TokensOK
    <2>4. answer'.token = t /\ answer'.as \in {NoUser, tok[t].user}
      <3> HIDE DEF r
      <3>1. answer' = CASE r.status # 0 -> [token |-> t, status |-> r.status, as |-> NoUser]
                       [] r.status = 0 /\ ~Verify(r.found) ->
                            [token |-> t, status |-> 401, as |-> NoUser]
                       [] OTHER -> [token |-> t, status |-> 200, as |-> tok[r.found].user]
        BY DEF Request, r
      <3>2. CASE r.status # 0
        BY <3>1, <3>2
      <3>3. CASE r.status = 0 /\ ~Verify(r.found)
        BY <3>1, <3>3
      <3>4. CASE r.status = 0 /\ Verify(r.found)
        BY <2>1, <3>1, <3>4
      <3> QED
        BY <3>2, <3>3, <3>4
    <2>5. tok' = tok
      BY DEF Request
    <2> QED
      BY <2>2, <2>3, <2>4, <2>5 DEF AnswerOK, Names, Ids
  <1> QED
    BY <1>1, <1>2 DEF TokenInv

(* The edits that a login makes to its variables. *)
LEMMA EditFits ==
    ASSUME NEW n \in Nat, NEW m \in Nat, NEW q \in LoginRec(n, m)
    PROVE  /\ \A u \in Users, d \in TTLs :
                [Idle EXCEPT !.pc = "authenticate", !.name = u, !.ttl = d] \in LoginRec(n, m)
           /\ q.pc = "authenticate" =>
                [q EXCEPT !.pc = "access", !.principal = q.name] \in LoginRec(n, m)
           /\ q.pc # "idle" => [q EXCEPT !.pc = "ensure"] \in LoginRec(n, m)
           /\ \A k \in KeysTo(n), u \in {NoUser, q.principal} :
                q.pc # "idle" /\ k.exp = k.iat + q.ttl =>
                    [q EXCEPT !.pc = "create", !.user = u, !.key = k] \in LoginRec(n, m)
           /\ \A t \in 1 .. m : q.pc # "idle" =>
                [q EXCEPT !.pc = "update", !.token = t] \in LoginRec(n, m)
  <1> DEFINE R == [pc : Labels, name : Names, principal : Names, user : Names,
                   ttl : TTLs \cup {0}, key : KeysTo(n), token : 0 .. m]
             Good(r) ==
                /\ r.pc # "idle" => r.name \in Users /\ r.ttl \in TTLs
                /\ r.principal \in {NoUser, r.name}
                /\ r.user \in {NoUser, r.principal}
                /\ r.pc = "create" => r.key.exp = r.key.iat + r.ttl
                /\ r.pc = "update" => r.token \in 1 .. m
  <1>1. \A r : r \in LoginRec(n, m) <=> r \in R /\ Good(r)
    BY DEF LoginRec
  <1>2. q \in R /\ Good(q) /\ Users \subseteq Names /\ NoUser \in Names
    BY <1>1 DEF Names
  <1>3. ASSUME NEW u \in Users, NEW d \in TTLs
        PROVE  [Idle EXCEPT !.pc = "authenticate", !.name = u, !.ttl = d] \in LoginRec(n, m)
    <2> DEFINE r == [Idle EXCEPT !.pc = "authenticate", !.name = u, !.ttl = d]
    <2>1. Idle \in R
      BY <1>1, IdleFits
    <2>2. r \in R
      BY <1>2, <2>1 DEF Labels
    <2>3. Good(r)
      BY <1>2 DEF Idle
    <2> QED
      BY <1>1, <2>2, <2>3
  <1>4. ASSUME q.pc = "authenticate"
        PROVE  [q EXCEPT !.pc = "access", !.principal = q.name] \in LoginRec(n, m)
    <2> DEFINE r == [q EXCEPT !.pc = "access", !.principal = q.name]
    <2>1. r \in R
      BY <1>2 DEF Labels
    <2>2. Good(r)
      BY <1>2, <1>4
    <2> QED
      BY <1>1, <2>1, <2>2
  <1>5. ASSUME q.pc # "idle" PROVE [q EXCEPT !.pc = "ensure"] \in LoginRec(n, m)
    <2> DEFINE r == [q EXCEPT !.pc = "ensure"]
    <2>1. r \in R
      BY <1>2 DEF Labels
    <2>2. Good(r)
      BY <1>2, <1>5
    <2> QED
      BY <1>1, <2>1, <2>2
  <1>6. ASSUME NEW k \in KeysTo(n), NEW u \in {NoUser, q.principal}, q.pc # "idle",
               k.exp = k.iat + q.ttl
        PROVE  [q EXCEPT !.pc = "create", !.user = u, !.key = k] \in LoginRec(n, m)
    <2> DEFINE r == [q EXCEPT !.pc = "create", !.user = u, !.key = k]
    <2>1. r \in R
      BY <1>2 DEF Labels
    <2>2. Good(r)
      BY <1>2, <1>6
    <2> QED
      BY <1>1, <2>1, <2>2
  <1>7. ASSUME NEW t \in 1 .. m, q.pc # "idle"
        PROVE  [q EXCEPT !.pc = "update", !.token = t] \in LoginRec(n, m)
    <2> DEFINE r == [q EXCEPT !.pc = "update", !.token = t]
    <2>0. t \in 0 .. m
      OBVIOUS
    <2>1. r \in R
      BY <1>2, <2>0 DEF Labels
    <2>2. Good(r)
      BY <1>2, <1>7
    <2> QED
      BY <1>1, <2>1, <2>2
  <1> QED
    BY <1>3, <1>4, <1>5, <1>6, <1>7

(* A login goes on with variables that fit, and creates no token. *)
LEMMA BecomeFits ==
    ASSUME TokenInv, answer' = NoAnswer, NEW l \in Logins,
           NEW r \in LoginRec(now, Len(tok)), Become(l, r),
           UNCHANGED <<tok, store>>, budget' \in Nat, stamped' \subseteq Ids, held' \subseteq Ids
    PROVE  TokenInv'
  <1> USE DEF Become, userVars
  <1>1. ClockOK' /\ TokensOK' /\ Ids' = Ids /\ Len(tok') \in Nat
    BY DEF TokenInv, ClockOK, TokensOK, Ids
  <1>2. PeopleOK'
    BY DEF TokenInv, PeopleOK
  <1>3. IdsOK'
    BY <1>1 DEF TokenInv, IdsOK
  <1>4. LoginsOK'
    BY DEF TokenInv, LoginsOK
  <1>5. AnswerOK'
    BY <1>1, NoAnswerFits
  <1> QED
    BY <1>1, <1>2, <1>3, <1>4, <1>5 DEF TokenInv

(* The steps of a login before there is a token. *)
LEMMA LoginSteps ==
    ASSUME TokenInv, answer' = NoAnswer, NEW l \in Logins,
           \/ AuthenticateUser(l) \/ LoginRejected(l) \/ CheckAccess(l) \/ EnsureUser(l)
           \/ UpdateToken(l)
           \/ \E u \in Users, ttl \in TTLs : Login(l, u, ttl)
    PROVE  TokenInv'
  <1> USE DEF tokenVars
  <1>0. /\ now \in Nat /\ Len(tok) \in Nat /\ budget \in Nat /\ stamped \subseteq Ids
        /\ held \subseteq Ids
        /\ login[l] \in LoginRec(now, Len(tok)) /\ PeopleOK
    BY BoundsAssumption, LoginFacts DEF TokenInv, ClockOK, TokensOK, PeopleOK, IdsOK
  <1>1. Idle \in LoginRec(now, Len(tok))
    BY <1>0, IdleFits
  <1>2. ASSUME NEW r \in LoginRec(now, Len(tok)), Become(l, r),
               UNCHANGED <<tokenVars, held, budget>>
        PROVE  TokenInv'
    BY <1>0, <1>2, BecomeFits
  <1>3. CASE AuthenticateUser(l)
    <2>1. login[l].pc = "authenticate" /\ UNCHANGED <<tokenVars, held, budget>>
      BY <1>3 DEF AuthenticateUser
    <2>2. /\ [login[l] EXCEPT !.pc = "access", !.principal = login[l].name]
                \in LoginRec(now, Len(tok))
          /\ [login[l] EXCEPT !.pc = "ensure"] \in LoginRec(now, Len(tok))
      BY <1>0, <2>1, EditFits
    <2> QED
      BY <1>1, <1>2, <1>3, <2>1, <2>2 DEF AuthenticateUser, Refuse
  <1>4. CASE LoginRejected(l)
    BY <1>1, <1>2, <1>4 DEF LoginRejected, Refuse
  <1>5. CASE CheckAccess(l)
    <2>1. login[l].pc # "idle" /\ UNCHANGED <<tokenVars, held, budget>>
      BY <1>5 DEF CheckAccess
    <2>2. [login[l] EXCEPT !.pc = "ensure"] \in LoginRec(now, Len(tok))
      BY <1>0, <2>1, EditFits
    <2> QED
      BY <1>1, <1>2, <1>5, <2>1, <2>2 DEF CheckAccess, Refuse
  <1>6. CASE EnsureUser(l)
    <2> DEFINE u == IF login[l].principal # NoUser /\ user[login[l].principal] = "full"
                    THEN login[l].principal ELSE NoUser
               k == GenerateToken(login[l].ttl)
               r == [login[l] EXCEPT !.pc = "create", !.user = u, !.key = k]
    <2>1. login[l].pc # "idle" /\ UNCHANGED <<tokenVars, held, budget>> /\ Become(l, r)
      BY <1>6 DEF EnsureUser
    <2>2. k \in KeysTo(now) /\ k.exp = k.iat + login[l].ttl
      BY <1>0, LoginFacts DEF GenerateToken, KeysTo
    <2>3. u \in {NoUser, login[l].principal}
      OBVIOUS
    <2> HIDE DEF u, k
    <2>4. r \in LoginRec(now, Len(tok))
      BY <1>0, <2>1, <2>2, <2>3, EditFits
    <2> QED
      BY <1>2, <2>1, <2>4
  <1>7. CASE UpdateToken(l)
    <2>1. login[l].token \in Ids /\ UNCHANGED <<tok, store>> /\ Become(l, Idle)
      BY <1>7, LoginFacts DEF UpdateToken
    <2>2. budget' \in Nat
      BY <1>0, <1>7, SpendFits DEF UpdateToken
    <2>3. stamped' \subseteq Ids /\ held' \subseteq Ids
      BY <1>0, <1>7, <2>1 DEF UpdateToken
    <2> QED
      BY <1>1, <2>1, <2>2, <2>3, BecomeFits
  <1>8. ASSUME NEW u \in Users, NEW ttl \in TTLs, Login(l, u, ttl) PROVE TokenInv'
    <2>1. [Idle EXCEPT !.pc = "authenticate", !.name = u, !.ttl = ttl]
            \in LoginRec(now, Len(tok))
      BY <1>0, EditFits
    <2> QED
      BY <1>2, <1>8, <2>1 DEF Login
  <1> QED
    BY <1>3, <1>4, <1>5, <1>6, <1>7, <1>8

(* The token that a login creates. *)
LEMMA NewTokenFits ==
    ASSUME TokenInv, NEW l \in Logins, login[l].pc = "create", login[l].principal # NoUser
    PROVE  NewToken(l) \in TokenRec(now)
  <1>1. /\ login[l].key \in KeysTo(now) /\ login[l].ttl \in TTLs /\ login[l].name \in Users
        /\ login[l].principal = login[l].name /\ login[l].user \in {NoUser, login[l].name}
        /\ login[l].key.exp = login[l].key.iat + login[l].ttl
    BY LoginFacts
  <1>2. now \in 0 .. now
    BY BoundsAssumption DEF TokenInv, ClockOK
  <1>3. NewToken(l) \in [key : KeysTo(now), ttl : TTLs, created : 0 .. now,
                         name : Users, principal : Names, user : Names]
    BY <1>1, <1>2 DEF NewToken, Names
  <1>4. /\ NewToken(l).principal = NewToken(l).name
        /\ NewToken(l).user \in {NoUser, NewToken(l).name}
        /\ NewToken(l).key.exp = NewToken(l).key.iat + NewToken(l).ttl
    BY <1>1 DEF NewToken
  <1> QED
    BY <1>3, <1>4 DEF TokenRec

LEMMA CreateTokenStep ==
    ASSUME TokenInv, answer' = NoAnswer, NEW l \in Logins, CreateToken(l)
    PROVE  TokenInv'
  <1> DEFINE t == Len(tok) + 1
  <1>0. /\ now \in Nat /\ Len(tok) \in Nat /\ budget \in Nat /\ PeopleOK /\ IdsOK
        /\ login[l] \in LoginRec(now, Len(tok)) /\ login[l].pc = "create"
        /\ login \in [Logins -> LoginRec(now, Len(tok))]
    BY BoundsAssumption, LoginFacts
    DEF TokenInv, ClockOK, TokensOK, PeopleOK, LoginsOK, CreateToken
  <1>1. UNCHANGED <<stamped, held>> /\ budget' \in Nat
    BY <1>0, SpendFits DEF CreateToken
  <1>2. Idle \in LoginRec(now, Len(tok)) /\ Idle \in LoginRec(now, t)
    BY <1>0, IdleFits
  <1>3. CASE UNCHANGED <<tok, store>>
    <2>1. tok' # Append(tok, NewToken(l))
      <3>1. tok \in Seq(TokenRec(now)) /\ Len(tok') = Len(tok)
        BY <1>3 DEF TokenInv, TokensOK
      <3>2. Len(Append(tok, NewToken(l))) = Len(tok) + 1
        BY <3>1
      <3> QED
        BY <1>0, <3>1, <3>2
    <2>2. Become(l, Idle)
      BY <2>1 DEF CreateToken, Refuse
    <2> QED
      BY <1>1, <1>2, <1>3, <2>2, BecomeFits DEF TokenInv, IdsOK
  <1>4. CASE /\ login[l].principal # NoUser
             /\ tok' = Append(tok, NewToken(l)) /\ store' = store \cup {t} /\ t <= MaxTokens
             /\ Become(l, Idle) \/ Become(l, [login[l] EXCEPT !.pc = "update", !.token = t])
    <2>1. NewToken(l) \in TokenRec(now)
      BY <1>0, <1>4, NewTokenFits
    <2>2. tok' \in Seq(TokenRec(now)) /\ Len(tok') = t
      BY <1>4, <2>1 DEF TokenInv, TokensOK
    <2>3. now' = now /\ UNCHANGED <<user, principal, cache, list, configured>>
      BY <1>4 DEF Become, userVars
    <2>4. ClockOK' /\ TokensOK' /\ PeopleOK'
      BY <1>0, <1>1, <1>4, <2>2, <2>3 DEF TokenInv, ClockOK, TokensOK, PeopleOK
    <2>5. IdsOK'
      BY <1>0, <1>1, <1>4, <2>2, <2>3 DEF IdsOK, Ids
    <2>6. LoginRec(now, Len(tok)) \subseteq LoginRec(now, t)
      BY <1>0, RecordsGrow
    <2>7. [login[l] EXCEPT !.pc = "update", !.token = t] \in LoginRec(now, t)
      <3>1. login[l] \in LoginRec(now, t) /\ t \in 1 .. t /\ t \in Nat
        BY <1>0, <2>6
      <3> HIDE DEF t
      <3> QED
        BY <1>0, <3>1, EditFits
    <2>8. login' \in [Logins -> LoginRec(now, t)]
      <3>1. login \in [Logins -> LoginRec(now, t)]
        BY <1>0, <2>6
      <3>2. CASE Become(l, Idle)
        BY <1>2, <3>1, <3>2 DEF Become
      <3>3. CASE Become(l, [login[l] EXCEPT !.pc = "update", !.token = t])
        BY <2>7, <3>1, <3>3 DEF Become
      <3> QED
        BY <1>4, <3>2, <3>3
    <2>9. LoginsOK' /\ AnswerOK'
      BY <1>0, <2>2, <2>3, <2>8, NoAnswerFits DEF LoginsOK
    <2> QED
      BY <2>4, <2>5, <2>9 DEF TokenInv
  <1> QED
    BY <1>3, <1>4 DEF CreateToken, Refuse

(* Every step keeps the invariant. *)
LEMMA InvStep == TokenInv /\ [Next]_vars => TokenInv'
  <1> SUFFICES ASSUME TokenInv, [Next]_vars PROVE TokenInv'
    OBVIOUS
  <1>1. CASE UNCHANGED vars
    BY <1>1 DEF vars, userVars, tokenVars, TokenInv, ClockOK, PeopleOK, TokensOK, IdsOK, Ids,
                LoginsOK, AnswerOK
  <1>2. CASE \E t \in 1 .. Len(tok) : Request(t)
    BY <1>2, RequestStep DEF Ids
  <1>3. CASE Step /\ answer' = NoAnswer
    BY <1>3, WorldStep, RestartStep, LoginSteps, CreateTokenStep DEF Step, LoginStep, Ids
  <1> QED
    BY <1>1, <1>2, <1>3 DEF Next

LEMMA Invariance == Spec => []TokenInv
  BY InvInit, InvStep, PTL DEF Spec

(* Every variable of the token service keeps its type, for any users,      *)
(* logins, lifetimes and bounds.                                           *)
THEOREM TypeCorrect == Spec => []TypeOK
  <1>1. TokenInv => TypeOK
    <2> SUFFICES ASSUME TokenInv PROVE TypeOK
      OBVIOUS
    <2> DEFINE T == [key : KeysTo(now), ttl : TTLs, created : 0 .. now,
                     name : Users, principal : Names, user : Names]
    <2>1. TokenRec(now) \subseteq T
      BY DEF TokenRec
    <2>2. tok \in Seq(T)
      <3> HIDE DEF T
      <3> QED
        BY <2>1, SeqGrow DEF TokenInv, TokensOK
    <2>3. /\ now \in Nat
          /\ user \in [Users -> {"gone", "bare", "full"}]
          /\ principal \subseteq Users
          /\ configured \in BOOLEAN
          /\ budget \in Nat
      BY BoundsAssumption DEF TokenInv, ClockOK, PeopleOK
    <2>4. \A l \in Logins :
            /\ login[l].pc \in {"idle", "authenticate", "access", "ensure", "create", "update"}
            /\ {login[l].name, login[l].principal, login[l].user} \subseteq Names
            /\ login[l].token \in 0 .. Len(tok)
            /\ login[l].pc = "update" => login[l].token \in Ids
      BY LoginFacts DEF Labels
    <2> QED
      BY <2>2, <2>3, <2>4 DEF TypeOK, TokenInv, IdsOK, AnswerOK
  <1> QED
    BY <1>1, Invariance, PTL

(* A request runs for the one who logged in for its token, or for nobody,  *)
(* although another token may have the same key, and no token comes of a   *)
(* login without a principal.                                              *)
THEOREM RequestsRunForOwner == Spec => []RunsForOwner
  <1>1. TokenInv => RunsForOwner
    BY TokenFacts DEF TokenInv, AnswerOK, RunsForOwner
  <1> QED
    BY <1>1, Invariance, PTL

(* A token leaves the store when its lifetime has ended or when its holder *)
(* logs out: neither purge nor Logout removes another one, however stale   *)
(* the list or the cache is that they go by.                               *)
THEOREM TokensRemovedForAReason == Spec => RemovedForAReason
  <1> DEFINE Reason == \A t \in store \ store' :
                \/ tok[t].ttl # 0 /\ now >= tok[t].created + tok[t].ttl
                \/ t \in held \ held'
  <1>1. ASSUME TokenInv, [Next]_vars PROVE [Reason]_vars
    <2> USE DEF tokenVars, Become, Refuse
    <2>1. ASSUME NEW t \in Ids, PurgeToken(t) PROVE Reason
      BY <2>1 DEF PurgeToken, IsExpired
    <2>2. ASSUME NEW t \in Ids, Logout(t) PROVE Reason
      <3>1. GetStoredToken(t).status = 0 => GetStoredToken(t).found = t
        BY <1>1, StoredToken
      <3> QED
        BY <2>2, <3>1 DEF Logout
    <2>3. ASSUME NEW l \in Logins, LoginStep(l) \/ \E u \in Users, ttl \in TTLs : Login(l, u, ttl)
          PROVE  store \subseteq store'
      BY <2>3 DEF LoginStep, Login, AuthenticateUser, LoginRejected, CheckAccess, EnsureUser,
                  CreateToken, UpdateToken
    <2>4. CASE \/ Tick \/ Configure \/ Restart \/ PurgeStarts
               \/ \E u \in Users : \/ PrincipalDelivered(u) \/ UserDelivered(u)
                                  \/ UserDeleted(u) \/ PrincipalDeleted(u)
               \/ \E t \in Ids : TokenDelivered(t) \/ Request(t)
      BY <2>4 DEF Tick, Configure, Restart, PurgeStarts, PrincipalDelivered, UserDelivered,
                  UserDeleted, PrincipalDeleted, TokenDelivered, Request
    <2>5. store \subseteq store' => Reason
      OBVIOUS
    <2> HIDE DEF Reason
    <2>6. CASE UNCHANGED vars
      BY <2>6
    <2> QED
      BY <1>1, <2>1, <2>2, <2>3, <2>4, <2>5, <2>6 DEF Next, Step, Ids
  <1> QED
    BY <1>1, Invariance, PTL DEF Spec, RemovedForAReason

-----------------------------------------------------------------------------
(* The service implements TokenLife.                                       *)

(* A step that creates no token ends the lives of those that leave both    *)
(* the store and the cache.                                                *)
LEMMA EndsLives ==
    ASSUME TokenInv, answer' = NoAnswer, UNCHANGED <<now, tok>>,
           store' \cup cache' \subseteq store \cup cache
    PROVE  Promise!Next
  <1> DEFINE ts == (store \cup cache) \ (store' \cup cache')
             Toks == 1 .. MaxTokens
  <1>1. store \cup cache \subseteq 1 .. Len(tok) /\ 1 .. Len(tok) \subseteq Toks
        /\ Len(tok) \in Nat
    BY BoundsAssumption DEF TokenInv, IdsOK, Ids, TokensOK
  <1>2. ts \in SUBSET Toks
    BY <1>1
  <1>3. \A t \in ts : Life[t] = "live"
    BY <1>1 DEF Life
  <1>4. Life' = [t \in Toks |-> IF t \in ts THEN "over" ELSE Life[t]]
    <2>1. ASSUME NEW t \in Toks
          PROVE  Life'[t] = IF t \in ts THEN "over" ELSE Life[t]
      <3>1. CASE t > Len(tok)
        BY <1>1, <3>1 DEF Life
      <3>2. CASE ~(t > Len(tok)) /\ t \in ts
        BY <3>2 DEF Life
      <3>3. CASE ~(t > Len(tok)) /\ t \notin ts
        BY <3>3 DEF Life
      <3> QED
        BY <3>1, <3>2, <3>3
    <2> QED
      BY <2>1 DEF Life
  <1>5. Deadline' = Deadline /\ Owner' = Owner
    BY DEF Deadline, Owner
  <1>6. Served' = Promise!NoRequest
    BY DEF Served, NoAnswer, Promise!NoRequest
  <1> HIDE DEF ts, Toks
  <1>7. Promise!End(ts)
    BY <1>3, <1>4, <1>5, <1>6 DEF Promise!End, Toks
  <1> QED
    BY <1>2, <1>7 DEF Promise!Next, Toks

(* The creation of a token is its issue. *)
LEMMA IssuesToken ==
    ASSUME TokenInv, answer' = NoAnswer, NEW l \in Logins,
           login[l].pc = "create", login[l].principal # NoUser,
           tok' = Append(tok, NewToken(l)), store' = store \cup {Len(tok) + 1},
           UNCHANGED <<now, cache>>, Len(tok) + 1 <= MaxTokens
    PROVE  Promise!Next
  <1> DEFINE t == Len(tok) + 1
             Toks == 1 .. MaxTokens
             d == login[l].key.exp
             o == login[l].user
  <1>1. /\ store \cup cache \subseteq 1 .. Len(tok) /\ Len(tok) \in Nat
        /\ tok \in Seq(TokenRec(now)) /\ NewToken(l) \in TokenRec(now)
    BY NewTokenFits DEF TokenInv, IdsOK, Ids, TokensOK
  <1>2. t \in Toks /\ Len(tok') = t /\ tok'[t] = NewToken(l)
        /\ \A x \in 1 .. Len(tok) : tok'[x] = tok[x]
    BY <1>1, BoundsAssumption
  <1>3. NewToken(l).key.exp = d /\ NewToken(l).user = o
    BY DEF NewToken
  <1>4. o \in Names /\ d \in Deadlines
    <2>1. /\ login[l].key \in KeysTo(now) /\ login[l].ttl \in TTLs /\ login[l].user \in Names
          /\ login[l].key.exp = login[l].key.iat + login[l].ttl
      BY LoginFacts
    <2>2. login[l].key.iat \in 0 .. MaxTime
      BY <2>1, BoundsAssumption DEF KeysTo, TokenInv, ClockOK
    <2> QED
      BY <2>1, <2>2 DEF Deadlines
  <1>5. Life[t] = "none" /\ Life' = [Life EXCEPT ![t] = "live"]
    <2>1. Life[t] = "none"
      BY <1>1, <1>2 DEF Life
    <2>2. Life'[t] = "live"
      BY <1>1, <1>2 DEF Life
    <2>3. ASSUME NEW x \in Toks, x # t PROVE Life'[x] = Life[x]
      BY <1>1, <1>2, <2>3 DEF Life
    <2>4. Life \in [Toks -> {"none", "live", "over"}]
          /\ Life' = [x \in Toks |-> Life'[x]]
      BY DEF Life
    <2> HIDE DEF t, Toks
    <2> QED
      BY <1>2, <2>1, <2>2, <2>3, <2>4
  <1>6. Deadline' = [Deadline EXCEPT ![t] = d]
    <2>1. Deadline'[t] = d
      BY <1>1, <1>2, <1>3 DEF Deadline
    <2>2. ASSUME NEW x \in Toks, x # t PROVE Deadline'[x] = Deadline[x]
      BY <1>1, <1>2, <2>2 DEF Deadline
    <2>3. Deadline = [x \in Toks |-> Deadline[x]] /\ Deadline' = [x \in Toks |-> Deadline'[x]]
      BY DEF Deadline
    <2> HIDE DEF t, Toks, d
    <2> QED
      BY <1>2, <2>1, <2>2, <2>3
  <1>7. Owner' = [Owner EXCEPT ![t] = o]
    <2>1. Owner'[t] = o
      BY <1>1, <1>2, <1>3 DEF Owner
    <2>2. ASSUME NEW x \in Toks, x # t PROVE Owner'[x] = Owner[x]
      BY <1>1, <1>2, <2>2 DEF Owner
    <2>3. Owner = [x \in Toks |-> Owner[x]] /\ Owner' = [x \in Toks |-> Owner'[x]]
      BY DEF Owner
    <2> HIDE DEF t, Toks, o
    <2> QED
      BY <1>2, <2>1, <2>2, <2>3
  <1>8. Served' = Promise!NoRequest
    BY DEF Served, NoAnswer, Promise!NoRequest
  <1> HIDE DEF t, d, o, Toks
  <1>9. Promise!Issue(t)
    BY <1>4, <1>5, <1>6, <1>7, <1>8 DEF Promise!Issue
  <1> QED
    BY <1>2, <1>9 DEF Promise!Next, Toks

(* A request is accepted only while its token lives and its key is good. *)
LEMMA AnswersRequest ==
    ASSUME TokenInv, NEW t \in Ids, Request(t)
    PROVE  Promise!Next
  <1> DEFINE r == GetStoredToken(t)
  <1>1. UNCHANGED <<now, tok, store, cache>>
    BY DEF Request, tokenVars
  <1>2. UNCHANGED <<now, Life, Deadline, Owner>>
    BY <1>1 DEF Life, Deadline, Owner
  <1>3. t \in 1 .. MaxTokens /\ ~(t > Len(tok))
    BY BoundsAssumption DEF TokenInv, TokensOK, Ids
  <1>4. r.status \in {0, 401, 404, 410} /\ (r.status = 0 => r.found = t /\ t \in cache)
    BY StoredToken
  <1>5. answer' = CASE r.status # 0 -> [token |-> t, status |-> r.status, as |-> NoUser]
                   [] r.status = 0 /\ ~Verify(r.found) ->
                        [token |-> t, status |-> 401, as |-> NoUser]
                   [] OTHER -> [token |-> t, status |-> 200, as |-> tok[r.found].user]
    BY DEF Request
  <1> HIDE DEF r
  <1>6. CASE r.status = 0 /\ Verify(r.found)
    <2>1. answer' = [token |-> t, status |-> 200, as |-> tok[t].user]
      BY <1>4, <1>5, <1>6
    <2>2. Life[t] = "live" /\ now <= Deadline[t] /\ Owner[t] = tok[t].user
      BY <1>3, <1>4, <1>6 DEF Life, Deadline, Owner, Verify
    <2>3. Served' = [token |-> t, as |-> Owner[t]]
      BY <2>1, <2>2 DEF Served
    <2>4. Promise!Accept(t)
      BY <1>2, <2>2, <2>3 DEF Promise!Accept
    <2> QED
      BY <1>3, <2>4 DEF Promise!Next
  <1>7. CASE ~(r.status = 0 /\ Verify(r.found))
    <2>1. answer'.token = t /\ answer'.status # 200
      <3>1. CASE r.status # 0
        BY <1>4, <1>5, <3>1
      <3>2. CASE r.status = 0 /\ ~Verify(r.found)
        BY <1>5, <3>2
      <3> QED
        BY <1>7, <3>1, <3>2
    <2>2. Served' = [token |-> t, as |-> 0]
      BY <2>1 DEF Served
    <2>3. Promise!Refuse(t)
      BY <1>2, <2>2 DEF Promise!Refuse
    <2> QED
      BY <1>3, <2>3 DEF Promise!Next
  <1> QED
    BY <1>6, <1>7

(* The passing of time. *)
LEMMA TimePasses ==
    ASSUME TokenInv, answer' = NoAnswer, Tick
    PROVE  Promise!Next
  <1>1. now' > now /\ UNCHANGED <<tok, store, cache>>
    BY BoundsAssumption DEF Tick, tokenVars, TokenInv, ClockOK
  <1>2. UNCHANGED <<Life, Deadline, Owner>>
    BY <1>1 DEF Life, Deadline, Owner
  <1>3. Served' = Promise!NoRequest
    BY DEF Served, NoAnswer, Promise!NoRequest
  <1> QED
    BY <1>1, <1>2, <1>3 DEF Promise!Next, Promise!Tick

LEMMA PromiseInit == Init => Promise!Init
  <1> SUFFICES ASSUME Init PROVE Promise!Init
    OBVIOUS
  <1>1. \A t \in 1 .. MaxTokens : t > Len(tok)
    BY BoundsAssumption DEF Init
  <1>2. now \in Nat
    BY DEF Init
  <1>3. Life = [t \in 1 .. MaxTokens |-> "none"]
    BY <1>1 DEF Life
  <1>4. Deadline = [t \in 1 .. MaxTokens |-> 0]
    BY <1>1 DEF Deadline
  <1>5. Owner \in [1 .. MaxTokens -> Names]
    BY <1>1 DEF Owner, Names
  <1>6. Served = Promise!NoRequest
    BY DEF Init, Served, NoAnswer, Promise!NoRequest
  <1> QED
    BY <1>2, <1>3, <1>4, <1>5, <1>6 DEF Promise!Init

(* Every step of the service is a step of TokenLife. *)
LEMMA PromiseStep ==
    ASSUME TokenInv, [Next]_vars
    PROVE  [Promise!Next]_(Promise!vars)
  <1> USE DEF userVars, tokenVars
  <1>1. CASE UNCHANGED vars
    <2>1. UNCHANGED <<now, tok, store, cache, answer>>
      BY <1>1 DEF vars
    <2>2. UNCHANGED <<now, Life, Deadline, Owner, Served>>
      BY <2>1 DEF Life, Deadline, Owner, Served
    <2> QED
      BY <2>2 DEF Promise!vars
  <1>2. ASSUME NEW t \in Ids, Request(t) PROVE Promise!Next
    BY <1>2, AnswersRequest
  <1>3. ASSUME Step, answer' = NoAnswer PROVE Promise!Next
    <2>1. CASE Tick
      BY <1>3, <2>1, TimePasses
    <2>2. ASSUME \/ Configure \/ Restart \/ PurgeStarts
                 \/ \E u \in Users : \/ PrincipalDelivered(u) \/ UserDelivered(u)
                                    \/ UserDeleted(u) \/ PrincipalDeleted(u)
          PROVE  Promise!Next
      <3>1. UNCHANGED <<now, tok>> /\ store' \cup cache' \subseteq store \cup cache
        BY <2>2 DEF Configure, Restart, PurgeStarts, PrincipalDelivered, UserDelivered,
                    UserDeleted, PrincipalDeleted
      <3> QED
        BY <1>3, <3>1, EndsLives
    <2>3. ASSUME NEW t \in Ids, TokenDelivered(t) \/ PurgeToken(t) \/ Logout(t)
          PROVE  Promise!Next
      <3>1. UNCHANGED <<now, tok>> /\ store' \cup cache' \subseteq store \cup cache
        BY <2>3 DEF TokenDelivered, PurgeToken, Logout
      <3> QED
        BY <1>3, <3>1, EndsLives
    <2>4. ASSUME NEW l \in Logins,
                 \/ AuthenticateUser(l) \/ LoginRejected(l) \/ CheckAccess(l) \/ EnsureUser(l)
                 \/ UpdateToken(l)
                 \/ \E u \in Users, ttl \in TTLs : Login(l, u, ttl)
          PROVE  Promise!Next
      <3>1. UNCHANGED <<now, tok>> /\ store' \cup cache' \subseteq store \cup cache
        BY <2>4 DEF AuthenticateUser, LoginRejected, CheckAccess, EnsureUser, UpdateToken,
                    Login, Become, Refuse
      <3> QED
        BY <1>3, <3>1, EndsLives
    <2>5. ASSUME NEW l \in Logins, CreateToken(l) PROVE Promise!Next
      <3>1. UNCHANGED <<now, cache>> /\ login[l].pc = "create" /\ Len(tok) + 1 <= MaxTokens
        BY <2>5 DEF CreateToken, Become, Refuse
      <3>2. CASE UNCHANGED <<tok, store>>
        BY <1>3, <3>1, <3>2, EndsLives
      <3>3. CASE /\ login[l].principal # NoUser
                 /\ tok' = Append(tok, NewToken(l)) /\ store' = store \cup {Len(tok) + 1}
        BY <1>3, <3>1, <3>3, IssuesToken
      <3> QED
        BY <2>5, <3>2, <3>3 DEF CreateToken
    <2> QED
      BY <1>3, <2>1, <2>2, <2>3, <2>4, <2>5 DEF Step, LoginStep, Ids
  <1> QED
    BY <1>1, <1>2, <1>3 DEF Next, Ids

(* The token service keeps the promise of TokenLife: a token works for its *)
(* owner only, only while it lives and only until its deadline, and never  *)
(* comes back once it is gone from the store and from the cache.           *)
THEOREM ServiceKeepsPromise == Spec => KeepsPromise
  BY PromiseInit, PromiseStep, Invariance, PTL DEF Spec, KeepsPromise, Promise!Spec

=============================================================================
