------------------------------- MODULE AuthTokens -----------------------------
(***************************************************************************)
(* The life of the JSON web tokens: login, refresh and logout of           *)
(* src/api/v1/auth.py, get_current_user of src/api/deps.py, and the        *)
(* revocation list in Redis kept by src/services/auth_service.py.          *)
(*                                                                         *)
(* Time is counted in whole seconds, the unit of an exp claim and of a     *)
(* time to live: an event happens somewhere within the second now.         *)
(***************************************************************************)
EXTENDS Integers, FiniteSets

CONSTANTS Users,        \* the registered, active users
          Requests,     \* the requests in progress at one time
          AccessLife,   \* ACCESS_TOKEN_EXPIRE_MINUTES, in seconds
          RefreshLife,  \* REFRESH_TOKEN_EXPIRE_DAYS, in seconds
          Failures,     \* whether Redis may fail
          MaxTime,      \* bound on the clock
          MaxTokens,    \* bound: no request starts that would issue more
          Null          \* None

ASSUME ConstantsOK ==
    /\ AccessLife \in Nat \ {0}
    /\ RefreshLife \in Nat \ {0}
    /\ Failures \in BOOLEAN
    /\ MaxTime \in Nat
    /\ MaxTokens \in Nat

VARIABLES now,        \* the clock
          issued,     \* the tokens clients have been given
          blacklist,  \* the Redis keys blacklist:token:*
          revoked,    \* history: the tokens whose revocation Redis has stored
          lost,       \* history: those whose revocation it failed to store or lost
          req         \* req[r]: the coroutine serving request r

revocations == <<blacklist, revoked, lost>>
vars == <<now, issued, revocations, req>>

\* Nothing in a token depends on anything else: two tokens made for a user in
\* the same second are the same string, and have the same Redis key.
Token == [user : Users, type : {"access", "refresh"}, exp : Nat]

Entry == [token : Token, until : Nat]

\* token is the one presented, other the refresh token sent with a logout;
\* turn tells which of them revoke_token is at work on, ttl what it has
\* computed.  given is what the last request answered was given.
NoRequest == [pc |-> "idle", op |-> Null, token |-> Null, other |-> Null,
              turn |-> 1, ttl |-> 0, status |-> 0, given |-> {}]

Accepted(pc, op, token, other) ==
    [pc |-> pc, op |-> op, token |-> token, other |-> other,
     turn |-> 1, ttl |-> 0, status |-> 0, given |-> {}]

Answered(status, given) ==
    [pc |-> "idle", op |-> Null, token |-> Null, other |-> Null,
     turn |-> 1, ttl |-> 0, status |-> status, given |-> given]

Answer(r, status, given) ==
    req' = [req EXCEPT ![r] = Answered(status, given)]

Init ==
    /\ now = 0
    /\ issued = {}
    /\ blacklist = {}
    /\ revoked = {}
    /\ lost = {}
    /\ req = [r \in Requests |-> NoRequest]

-------------------------------------------------------------------------------
(***************************************************************************)
(* core/security.py: the exp claim loses the fraction of its second, and a *)
(* token is decoded until that second is over.                             *)
(***************************************************************************)
create_access_token(u) ==
    [user |-> u, type |-> "access", exp |-> now + AccessLife]

create_refresh_token(u) ==
    [user |-> u, type |-> "refresh", exp |-> now + RefreshLife]

decode_token(t) == now <= t.exp

-------------------------------------------------------------------------------
(***************************************************************************)
(* login makes two tokens, and the clock may pass from one second to the   *)
(* next between them.                                                      *)
(***************************************************************************)
LoginAccess(r) ==
    /\ req[r].pc = "idle"
    /\ Cardinality(issued) + 2 <= MaxTokens
    /\ \E u \in Users :
          req' = [req EXCEPT ![r] =
                     Accepted("login", "login", create_access_token(u), Null)]
    /\ UNCHANGED <<now, issued, revocations>>

LoginRefresh(r) ==
    /\ req[r].pc = "login"
    /\ LET given == {req[r].token, create_refresh_token(req[r].token.user)} IN
          /\ issued' = issued \cup given
          /\ Answer(r, 200, given)
    /\ UNCHANGED <<now, revocations>>

(***************************************************************************)
(* A request that presents a token, to a protected route ("use"), to       *)
(* logout or to refresh.  Each asks Redis first and decodes the token when *)
(* the answer has come; without an answer the token counts as good.        *)
(***************************************************************************)
Issued(type) == {t \in issued : t.type = type}

Present(r) ==
    /\ req[r].pc = "idle"
    /\ \/ \E t \in issued :
             req' = [req EXCEPT ![r] = Accepted("get", "use", t, Null)]
       \/ \E t \in Issued("access"), other \in Issued("refresh") \cup {Null} :
             req' = [req EXCEPT ![r] = Accepted("get", "logout", t, other)]
       \/ /\ Cardinality(issued) + 1 <= MaxTokens
          /\ \E t \in issued :
                req' = [req EXCEPT ![r] = Accepted("get", "refresh", t, Null)]
    /\ UNCHANGED <<now, issued, revocations>>

AnyOfUser(t) == \E b \in blacklist : b.token.user = t.user

Blacklisted(t) == \E b \in blacklist : b.token = t

is_token_blacklisted(r) ==
    /\ req[r].pc = "get"
    /\ \/ Blacklisted(req[r].token) /\ Answer(r, 401, {})
       \/ /\ Failures \/ ~Blacklisted(req[r].token)
          /\ req' = [req EXCEPT ![r].pc = "decode"]
    /\ UNCHANGED <<now, issued, revocations>>

\* get_current_user and its SELECT of the user, then the handler.
get_current_user(r) ==
    /\ req[r].pc = "decode"
    /\ req[r].op \in {"use", "logout"}
    /\ IF ~decode_token(req[r].token) \/ req[r].token.type # "access"
       THEN Answer(r, 401, {})
       ELSE IF req[r].op = "use"
       THEN Answer(r, 200, {})
       ELSE req' = [req EXCEPT ![r].pc = "revoke"]
    /\ UNCHANGED <<now, issued, revocations>>

refresh_token(r) ==
    /\ req[r].pc = "decode"
    /\ req[r].op = "refresh"
    /\ LET t == req[r].token
           new == create_access_token(t.user)
       IN  IF decode_token(t) /\ t.type = "refresh"
           THEN issued' = issued \cup {new} /\ Answer(r, 200, {new, t})
           ELSE issued' = issued /\ Answer(r, 401, {})
    /\ UNCHANGED <<now, revocations>>

-------------------------------------------------------------------------------
(***************************************************************************)
(* logout calls revoke_token for the token presented and then for the      *)
(* other one, and answers the same whatever came of it.                    *)
(***************************************************************************)
RevocationTarget(r) == IF req[r].turn = 2 THEN req[r].other ELSE req[r].token

StopsAtOne(r) == Answer(r, 200, {})
AlwaysTwo(r) ==
    IF req[r].turn = 2
    THEN Answer(r, 200, {})
    ELSE req' = [req EXCEPT ![r].pc = "revoke", ![r].turn = 2]

\* One revocation is over.
Continue(r) ==
    IF req[r].turn = 2 \/ req[r].other = Null
    THEN Answer(r, 200, {})
    ELSE req' = [req EXCEPT ![r].pc = "revoke", ![r].turn = 2]

RoundsDown(t) == t.exp - now - 1
remaining_ttl(t) == t.exp - now

revoke_token(r) ==
    /\ req[r].pc = "revoke"
    /\ LET t == RevocationTarget(r) IN
          IF decode_token(t) /\ remaining_ttl(t) > 0
          THEN req' = [req EXCEPT ![r].pc = "setex",
                                  ![r].ttl = remaining_ttl(t)]
          ELSE Continue(r)
    /\ UNCHANGED <<now, issued, revocations>>

\* SETEX replaces the key.  An error may leave it unwritten.
StoreRevocation(r) ==
    /\ req[r].pc = "setex"
    /\ LET t == RevocationTarget(r) IN
          \/ /\ blacklist' = {b \in blacklist : b.token # t}
                             \cup {[token |-> t, until |-> now + req[r].ttl]}
             /\ revoked' = revoked \cup {t}
             /\ lost' = lost
          \/ /\ Failures
             /\ lost' = lost \cup {t}
             /\ UNCHANGED <<blacklist, revoked>>
    /\ Continue(r)
    /\ UNCHANGED <<now, issued>>

-------------------------------------------------------------------------------
\* A key disappears within the second its time to live ends in.
KeyExpires ==
    /\ \E b \in blacklist : b.until <= now /\ blacklist' = blacklist \ {b}
    /\ UNCHANGED <<now, issued, revoked, lost, req>>

Tick ==
    /\ now < MaxTime
    /\ \A b \in blacklist : now < b.until
    /\ now' = now + 1
    /\ UNCHANGED <<issued, revocations, req>>

\* Redis restarts from its last snapshot, without some keys.
RedisRestarts ==
    /\ Failures
    /\ \E gone \in SUBSET blacklist :
          /\ blacklist' = blacklist \ gone
          /\ revoked' = revoked \ {b.token : b \in gone}
          /\ lost' = lost \cup {b.token : b \in gone}
    /\ UNCHANGED <<now, issued, req>>

Serve(r) ==
    \/ LoginAccess(r)
    \/ LoginRefresh(r)
    \/ Present(r)
    \/ is_token_blacklisted(r)
    \/ get_current_user(r)
    \/ refresh_token(r)
    \/ revoke_token(r)
    \/ StoreRevocation(r)

Next ==
    \/ \E r \in Requests : Serve(r)
    \/ KeyExpires
    \/ Tick
    \/ RedisRestarts

Spec == Init /\ [][Next]_vars

-------------------------------------------------------------------------------
(***************************************************************************)
(* Properties.                                                             *)
(***************************************************************************)
Request ==
    [pc : {"idle", "login", "get", "decode", "revoke", "setex"},
     op : {"login", "use", "logout", "refresh", Null},
     token : Token \cup {Null}, other : Token \cup {Null},
     turn : {1, 2}, ttl : Nat, status : {0, 200, 401},
     given : SUBSET Token]

\* What a request in progress holds.
InProgressOK(q) ==
    /\ q.pc # "idle" => q.token \in Token
    /\ q.turn = 2 => q.other \in Token

\* Every variable has its type, and revoke_token works on a token.
TypeOK ==
    /\ now \in Nat
    /\ issued \subseteq Token
    /\ blacklist \subseteq Entry
    /\ revoked \subseteq Token
    /\ lost \subseteq Token
    /\ req \in [Requests -> Request]
    /\ \A r \in Requests : InProgressOK(req[r])

\* A stored revocation holds until the second named by exp: however long the
\* SETEX is under way after its time to live was computed, and whether the
\* token is revoked once or several times, the key does not expire earlier.
RevocationHolds ==
    \A t \in revoked : now < t.exp => Blacklisted(t)

\* What makes it inductive: a time to live, computed or stored, covers the rest
\* of the life of its token.
EntriesCover ==
    \A b \in blacklist : b.token.exp <= b.until

TtlCovers ==
    \A r \in Requests :
        req[r].pc = "setex" => RevocationTarget(r).exp <= now + req[r].ttl

RevocationInv == RevocationHolds /\ EntriesCover /\ TtlCovers

\* A logout that is answered has revoked the tokens it was given, the optional
\* refresh token too, unless Redis failed to store a revocation or lost it
\* again, or the last second of the token's life has come.
LogoutRevokes ==
    [][\A r \in Requests :
          /\ req[r].op = "logout" /\ req[r].pc # "idle"
          /\ req'[r].pc = "idle" /\ req'[r].status = 200
          => \A t \in {req[r].token, req[r].other} \ {Null} :
                t \in revoked' \cup lost' \/ now >= t.exp]_vars

\* A login hands out a revoked token only when the very token had been issued
\* before: to the same user, in the same second (a token holds nothing but sub,
\* type and exp).  The logout of no other session spoils a login.
OnlyTwinsRevoked ==
    [][\A r \in Requests :
          req[r].pc = "login" /\ req'[r].pc = "idle" =>
             \A t \in {req[r].token} \cup (issued' \ issued) :
                Blacklisted(t) => t \in issued]_vars
===============================================================================
