---------------------------- MODULE TokenService ----------------------------
(***************************************************************************)
(* Tokens: login (api/insecure.go, backend/insecure), the check of every   *)
(* request (api/router.go, GetStoredToken), logout, and the daemon that    *)
(* purges expired tokens (app/purge.go).                                   *)
(*                                                                         *)
(* A login reads the caches of users and principals, signs a key, creates  *)
(* the token and then updates it with its expiry.  Requests, logouts and   *)
(* the daemon look into the cache of tokens only.                          *)
(*                                                                         *)
(* The clock counts seconds, the unit of the claims in a key.  A key holds *)
(* nothing but the times it was issued and expires, and RS256 gives the    *)
(* same signature for the same claims: two logins in one second with one   *)
(* lifetime get the same key.                                              *)
(***************************************************************************)
EXTENDS Naturals, Sequences, FiniteSets

CONSTANTS
    Logins,     \* the login requests that may be under way
    Users,      \* the users that log in
    NoUser,     \* the empty name
    TTLs,       \* the lifetimes that a login may ask for
    MaxTime,    \* bound on the clock
    MaxTokens,  \* bound on the tokens created
    Budget      \* bound on failed calls, crashes and deleted users together

ASSUME UsersAssumption == NoUser \notin Users
ASSUME TTLsAssumption == TTLs \subseteq Nat
ASSUME BoundsAssumption == MaxTime \in Nat \ {0} /\ MaxTokens \in Nat
ASSUME BudgetAssumption == Budget \in Nat

VARIABLES
    now,        \* the clock
    user,       \* cache of users: gone, without PrincipalIDs, or with
    principal,  \* cache of principals: the users that have one
    tok,        \* the tokens created so far; the name of a token is a position
    store,      \* API server: the tokens there are
    stamped,    \* API server: the tokens with ExpiresAt
    cache,      \* cache of tokens
    login,      \* the local variables of each login
    held,       \* the tokens that clients were given and have not given up
    answer,     \* the request just answered: its token, its status, for whom it ran
    list,       \* the tokens the daemon has still to look at
    configured, \* the map of providers has the local provider
    budget

userVars == <<user, principal>>
tokenVars == <<tok, store, stamped>>
vars == <<now, userVars, tokenVars, cache, login, held, answer, list, configured, budget>>

NoKey == [iat |-> 0, exp |-> 0]
NoAnswer == [token |-> 0, status |-> 0, as |-> NoUser]
Idle == [pc |-> "idle", name |-> NoUser, principal |-> NoUser, user |-> NoUser,
         ttl |-> 0, key |-> NoKey, token |-> 0]

Init ==
    /\ now = 1
    /\ user = [u \in Users |-> "bare"]
    /\ principal = {}
    /\ tok = << >>
    /\ store = {}
    /\ stamped = {}
    /\ cache = {}
    /\ login = [l \in Logins |-> Idle]
    /\ held = {}
    /\ answer = NoAnswer
    /\ list = {}
    /\ configured = FALSE
    /\ budget = Budget

Spend ==
    /\ budget > 0
    /\ budget' = budget - 1

-----------------------------------------------------------------------------
(* What happens around the service. *)

Tick ==
    /\ now < MaxTime
    /\ now' = now + 1
    /\ UNCHANGED <<userVars, tokenVars, cache, login, held, list, configured, budget>>

(* The user controller creates the Principal and writes PrincipalIDs; the  *)
(* two informers deliver that in any order.                                *)
PrincipalDelivered(u) ==
    /\ u \notin principal
    /\ user[u] # "gone"
    /\ principal' = principal \cup {u}
    /\ UNCHANGED <<now, user, tokenVars, cache, login, held, list, configured, budget>>

UserDelivered(u) ==
    /\ user[u] = "bare"
    /\ user' = [user EXCEPT ![u] = "full"]
    /\ UNCHANGED <<now, principal, tokenVars, cache, login, held, list, configured, budget>>

(* A User is deleted, and its Principal after it. *)
UserDeleted(u) ==
    /\ Spend
    /\ user[u] # "gone"
    /\ user' = [user EXCEPT ![u] = "gone"]
    /\ UNCHANGED <<now, principal, tokenVars, cache, login, held, list, configured>>

PrincipalDeleted(u) ==
    /\ user[u] = "gone"
    /\ u \in principal
    /\ principal' = principal \ {u}
    /\ UNCHANGED <<now, user, tokenVars, cache, login, held, list, configured, budget>>

(* The informer brings the cache of tokens up to date with one token. *)
TokenDelivered(t) ==
    /\ (t \in store) # (t \in cache)
    /\ cache' = IF t \in store THEN cache \cup {t} ELSE cache \ {t}
    /\ UNCHANGED <<now, userVars, tokenVars, login, held, list, configured, budget>>

(* common.Configure, in a goroutine that startAPIServer does not wait for. *)
Configure ==
    /\ ~configured
    /\ configured' = TRUE
    /\ UNCHANGED <<now, userVars, tokenVars, cache, login, held, list, budget>>

(* The process dies and starts again: the informers list what is stored. *)
Restart ==
    /\ Spend
    /\ cache' = store
    /\ login' = [l \in Logins |-> Idle]
    /\ list' = {}
    /\ configured' = FALSE
    /\ UNCHANGED <<now, userVars, tokenVars, held>>

-----------------------------------------------------------------------------
(* Login: CreateLoginToken.                                                *)

Become(l, r) ==
    /\ login' = [login EXCEPT ![l] = r]
    /\ UNCHANGED <<now, userVars, cache, list, configured>>

(* The login is refused, or the handler panics and the panic is recovered: *)
(* either way the client gets no token.                                    *)
Refuse(l) == Become(l, Idle)

Login(l, u, ttl) ==
    /\ login[l].pc = "idle"
    /\ Len(tok) < MaxTokens
    /\ Become(l, [Idle EXCEPT !.pc = "authenticate", !.name = u, !.ttl = ttl])
    /\ UNCHANGED <<tokenVars, held, budget>>

(* AuthenticateUser with the right password.  Without the local provider   *)
(* it panics.  A User that is not in the cache is no error, for the        *)
(* wrapped error is nil: the principal is empty.  So is the principal of a *)
(* User without PrincipalIDs, and CheckAccess finds its empty names equal. *)
AuthenticateUser(l) ==
    LET u == login[l].name
    IN  /\ login[l].pc = "authenticate"
        /\ IF ~configured THEN Refuse(l)
           ELSE IF user[u] = "full"
                THEN Become(l, [login[l] EXCEPT !.pc = "access", !.principal = u])
                ELSE Become(l, [login[l] EXCEPT !.pc = "ensure"])
        /\ UNCHANGED <<tokenVars, held, budget>>

(* A wrong password, or an unknown kind of login. *)
LoginRejected(l) ==
    /\ login[l].pc = "authenticate"
    /\ Refuse(l)
    /\ UNCHANGED <<tokenVars, held, budget>>

(* The names of the cached User and Principal must agree; both are empty   *)
(* when neither is cached.                                                 *)
CheckAccess(l) ==
    LET u == login[l].principal
    IN  /\ login[l].pc = "access"
        /\ IF (user[u] = "full") = (u \in principal)
           THEN Become(l, [login[l] EXCEPT !.pc = "ensure"])
           ELSE Refuse(l)
        /\ UNCHANGED <<tokenVars, held, budget>>

(* The claims of a new key. *)
GenerateToken(ttl) == [iat |-> now, exp |-> now + ttl]

(* EnsureUser: CheckUserCache never returns nil, so a User that is not in  *)
(* the cache is taken for one without a name.  Then the key is signed.     *)
EnsureUser(l) ==
    LET u == login[l].principal
    IN  /\ login[l].pc = "ensure"
        /\ Become(l, [login[l] EXCEPT !.pc = "create",
                          !.user = IF u # NoUser /\ user[u] = "full" THEN u ELSE NoUser,
                          !.key = GenerateToken(login[l].ttl)])
        /\ UNCHANGED <<tokenVars, held, budget>>

(* Mutant of NewToken: the expiry takes the place of the creation time. *)
NewTokenExpiring(l) ==
    [key |-> login[l].key, ttl |-> login[l].ttl, created |-> now + login[l].ttl,
     name |-> login[l].name, principal |-> login[l].principal, user |-> login[l].user]

NewToken(l) ==
    [key |-> login[l].key, ttl |-> login[l].ttl, created |-> now,
     name |-> login[l].name, principal |-> login[l].principal, user |-> login[l].user]

(* The Create of the provider that the principal's name begins with: the   *)
(* empty name has none, and the call panics.                               *)
CreateToken(l) ==
    LET t == Len(tok) + 1
        made == tok' = Append(tok, NewToken(l)) /\ store' = store \cup {t}
    IN  /\ login[l].pc = "create"
        /\ t <= MaxTokens
        /\ \/ /\ login[l].principal = NoUser
              /\ Refuse(l)
              /\ UNCHANGED <<tok, store, budget>>
           \/ /\ login[l].principal # NoUser
              /\ made
              /\ Become(l, [login[l] EXCEPT !.pc = "update", !.token = t])
              /\ UNCHANGED budget
           \/ /\ login[l].principal # NoUser
              /\ Spend
              /\ made \/ UNCHANGED <<tok, store>>
              /\ Refuse(l)
        /\ UNCHANGED <<stamped, held>>

(* SetTokenExpiresAt and the Update.  Its failure refuses the login and    *)
(* leaves the token.                                                       *)
UpdateToken(l) ==
    LET t == login[l].token
    IN  /\ login[l].pc = "update"
        /\ \/ /\ t \in store
              /\ stamped' = IF login[l].ttl = 0 THEN stamped ELSE stamped \cup {t}
              /\ held' = held \cup {t}
              /\ UNCHANGED budget
           \/ /\ t \notin store
              /\ UNCHANGED <<stamped, held, budget>>
           \/ /\ Spend
              /\ UNCHANGED <<stamped, held>>
        /\ Become(l, Idle)
        /\ UNCHANGED <<tok, store>>

-----------------------------------------------------------------------------
(* The token of a request.                                                 *)

(* Mutant of IsExpired: it goes by ExpiresAt. *)
IsExpiredStamped(t) ==
    t \in stamped /\ now >= tok[t].created + tok[t].ttl

(* A lifetime of zero never ends. *)
IsExpired(t) == tok[t].ttl # 0 /\ now >= tok[t].created + tok[t].ttl

(* CheckTokenCache: the cached tokens with the key of t. *)
CheckTokenCache(t) == {x \in cache : tok[x].key = tok[t].key}

(* Mutant of GetStoredToken: the key alone decides. *)
GetStoredTokenByKey(t) ==
    LET xs == CheckTokenCache(t)
    IN  CASE Cardinality(xs) > 1 -> [status |-> 404, found |-> 0]
          [] xs = {} -> [status |-> 401, found |-> 0]
          [] OTHER -> LET x == CHOOSE y \in xs : TRUE
                      IN  IF IsExpired(x) THEN [status |-> 410, found |-> 0]
                          ELSE [status |-> 0, found |-> x]

(* The status, and the token found: an empty one when there is none. *)
GetStoredToken(t) ==
    LET xs == CheckTokenCache(t)
    IN  CASE Cardinality(xs) > 1 -> [status |-> 404, found |-> 0]
          [] xs # {t} /\ Cardinality(xs) <= 1 -> [status |-> 401, found |-> 0]
          [] OTHER -> IF IsExpired(t) THEN [status |-> 410, found |-> 0]
                      ELSE [status |-> 0, found |-> t]

(* Mutant of Verify: the claims are not looked at. *)
VerifySignature(x) == x \in 1 .. Len(tok)

(* jwtMiddleware: the claims of the key say until when it is good. *)
Verify(x) == now <= tok[x].key.exp

(* Whoever has been given the token t sends it with a request: first       *)
(* TokenObtainMiddleware, then jwtMiddleware, then the handler on behalf   *)
(* of the user of the token.                                               *)
Request(t) ==
    LET r == GetStoredToken(t)
    IN  /\ t \in held
        /\ answer' = CASE r.status # 0 -> [token |-> t, status |-> r.status, as |-> NoUser]
                       [] r.status = 0 /\ ~Verify(r.found) ->
                            [token |-> t, status |-> 401, as |-> NoUser]
                       [] OTHER -> [token |-> t, status |-> 200, as |-> tok[r.found].user]
        /\ UNCHANGED <<now, userVars, tokenVars, cache, login, held, list, configured, budget>>

(* Logout deletes the token found.  With 404 it reports success and        *)
(* deletes nothing; after any other error the client keeps its token.      *)
Logout(t) ==
    LET r == GetStoredToken(t)
    IN  /\ t \in held
        /\ \/ /\ r.status = 0
              /\ store' = store \ {r.found}
              /\ held' = held \ {t}
              /\ UNCHANGED budget
           \/ /\ r.status = 0
              /\ Spend
              /\ UNCHANGED <<store, held>>
           \/ /\ r.status = 404
              /\ held' = held \ {t}
              /\ UNCHANGED <<store, budget>>
        /\ UNCHANGED <<now, userVars, tok, stamped, cache, login, list, configured>>

-----------------------------------------------------------------------------
(* The purge daemon. *)

(* purge lists the cached tokens. *)
PurgeStarts ==
    /\ list = {}
    /\ cache # {}
    /\ list' = cache
    /\ UNCHANGED <<now, userVars, tokenVars, cache, login, held, configured, budget>>

(* Mutant of PurgeToken: every token listed is deleted. *)
PurgeTokenListed(t) ==
    /\ t \in list
    /\ list' = list \ {t}
    /\ store' = store \ {t}
    /\ UNCHANGED <<now, userVars, tok, stamped, cache, login, held, configured, budget>>

(* An error of the Delete is passed over until the next round. *)
PurgeToken(t) ==
    /\ t \in list
    /\ list' = list \ {t}
    /\ \/ /\ store' = IF IsExpired(t) THEN store \ {t} ELSE store
          /\ UNCHANGED budget
       \/ /\ IsExpired(t)
          /\ Spend
          /\ UNCHANGED store
    /\ UNCHANGED <<now, userVars, tok, stamped, cache, login, held, configured>>

-----------------------------------------------------------------------------
LoginStep(l) ==
    \/ AuthenticateUser(l) \/ LoginRejected(l) \/ CheckAccess(l) \/ EnsureUser(l)
    \/ CreateToken(l) \/ UpdateToken(l)

Step ==
    \/ Tick \/ Configure \/ Restart \/ PurgeStarts
    \/ \E u \in Users :
        \/ PrincipalDelivered(u) \/ UserDelivered(u)
        \/ UserDeleted(u) \/ PrincipalDeleted(u)
    \/ \E l \in Logins :
        \/ LoginStep(l)
        \/ \E u \in Users, ttl \in TTLs : Login(l, u, ttl)
    \/ \E t \in 1 .. Len(tok) :
        TokenDelivered(t) \/ PurgeToken(t) \/ Logout(t)

Next ==
    \/ Step /\ answer' = NoAnswer
    \/ \E t \in 1 .. Len(tok) : Request(t)

Spec == Init /\ [][Next]_vars

(* Time passes, the informer delivers and the daemon goes on. *)
LiveSpec ==
    /\ Spec
    /\ WF_vars(Tick /\ answer' = NoAnswer)
    /\ WF_vars(PurgeStarts /\ answer' = NoAnswer)
    /\ \A t \in 1 .. MaxTokens :
        WF_vars(/\ t \in 1 .. Len(tok)
                /\ TokenDelivered(t) \/ PurgeToken(t)
                /\ answer' = NoAnswer)

-----------------------------------------------------------------------------
Names == Users \cup {NoUser}
KeysTo(n) == [iat : 0 .. n, exp : Nat]
Ids == 1 .. Len(tok)

(* Every variable has its type; a token is stored before it is cached or   *)
(* stamped, and a login that goes on to the update has created one.        *)
TypeOK ==
    /\ now \in Nat
    /\ user \in [Users -> {"gone", "bare", "full"}]
    /\ principal \subseteq Users
    /\ tok \in Seq([key : KeysTo(now), ttl : TTLs, created : 0 .. now,
                    name : Users, principal : Names, user : Names])
    /\ store \subseteq Ids
    /\ stamped \subseteq Ids
    /\ cache \subseteq Ids
    /\ held \subseteq Ids
    /\ list \subseteq Ids
    /\ \A l \in Logins :
        /\ login[l].pc \in {"idle", "authenticate", "access", "ensure", "create", "update"}
        /\ {login[l].name, login[l].principal, login[l].user} \subseteq Names
        /\ login[l].token \in 0 .. Len(tok)
        /\ login[l].pc = "update" => login[l].token \in Ids
    /\ answer.token \in 0 .. Len(tok)
    /\ configured \in BOOLEAN
    /\ budget \in Nat

(* A request runs for the one who logged in for its token, or for nobody,  *)
(* although another token may have the same key (GetStoredToken).  And no  *)
(* token comes of a login without a principal, by a User that is unknown   *)
(* or not synced yet, for which AuthenticateUser reports no error.         *)
RunsForOwner ==
    /\ answer.as # NoUser => answer.as = tok[answer.token].name
    /\ \A t \in Ids : tok[t].principal = tok[t].name

(* A token leaves the store when its lifetime has ended or when its holder *)
(* logs out, never otherwise (purge, Logout).                              *)
RemovedForAReason ==
    [][\A t \in store \ store' :
        \/ tok[t].ttl # 0 /\ now >= tok[t].created + tok[t].ttl
        \/ t \in held \ held']_vars

(* A token with a lifetime is removed in the end, also one whose update    *)
(* failed, whose login died or whose removal failed (purge).               *)
EveryTokenPurged ==
    \A t \in 1 .. MaxTokens :
        (t \in store /\ tok[t].ttl # 0 /\ tok[t].created + tok[t].ttl <= MaxTime)
        ~> t \notin store

(* The service keeps the promise of TokenLife: a token lives from its      *)
(* creation until it is gone from the store and from the cache.            *)
Life ==
    [t \in 1 .. MaxTokens |->
        IF t > Len(tok) THEN "none"
        ELSE IF t \in store \cup cache THEN "live" ELSE "over"]

Deadline == [t \in 1 .. MaxTokens |-> IF t > Len(tok) THEN 0 ELSE tok[t].key.exp]
Owner == [t \in 1 .. MaxTokens |-> IF t > Len(tok) THEN NoUser ELSE tok[t].user]

Served == [token |-> answer.token, as |-> IF answer.status = 200 THEN answer.as ELSE 0]

(* A key is issued while the clock runs. *)
Deadlines == {n + d : n \in 0 .. MaxTime, d \in TTLs}

Promise == INSTANCE TokenLife WITH
    Tokens <- 1 .. MaxTokens, Deadlines <- Deadlines,
    Owners <- Names, Nothing <- 0,
    life <- Life, deadline <- Deadline, owner <- Owner, served <- Served

KeepsPromise == Promise!Spec

=============================================================================
