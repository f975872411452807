--------------------------- MODULE AuthTokensProofs ---------------------------
(***************************************************************************)
(* Proofs about AuthTokens, for any users, requests and lifetimes: type    *)
(* correctness; that a stored revocation holds until the second its token's *)
(* exp claim names; that what is revoked was issued, so that a login can   *)
(* only be met by the revocation of a twin issued in its own second; and   *)
(* that the second of two logouts changes nothing that the first settled.  *)
(***************************************************************************)
EXTENDS AuthTokens, TLAPS

\* UNCHANGED revocations is about its three variables throughout.
USE DEF revocations

(***************************************************************************)
(* Records.                                                                *)
(***************************************************************************)
\* The records a request starts and ends with are requests.
LEMMA RecordsTyped ==
    /\ NoRequest \in Request
    /\ \A status \in {200, 401}, given \in SUBSET Token :
          Answered(status, given) \in Request
    /\ \A pc \in {"login", "get"},
          op \in {"login", "use", "logout", "refresh"},
          t \in Token, other \in Token \cup {Null} :
             Accepted(pc, op, t, other) \in Request
  BY DEF NoRequest, Answered, Accepted, Request

\* Advancing a request keeps it a request.
LEMMA AdvanceTyped ==
    ASSUME NEW q \in Request
    PROVE  /\ [q EXCEPT !.pc = "decode"] \in Request
           /\ [q EXCEPT !.pc = "revoke"] \in Request
           /\ [q EXCEPT !.pc = "revoke", !.turn = 2] \in Request
           /\ \A n \in Nat : [q EXCEPT !.pc = "setex", !.ttl = n] \in Request
<1>1. [q EXCEPT !.pc = "decode"] \in Request
  BY DEF Request
<1>2. [q EXCEPT !.pc = "revoke"] \in Request
  BY DEF Request
<1>3. [q EXCEPT !.pc = "revoke", !.turn = 2] \in Request
  <2> DEFINE p == [q EXCEPT !.pc = "revoke"]
  <2>1. p \in Request
    BY <1>2
  <2>2. [q EXCEPT !.pc = "revoke", !.turn = 2] = [p EXCEPT !.turn = 2]
    OBVIOUS
  <2> HIDE DEF p
  <2>3. [p EXCEPT !.turn = 2] \in Request
    BY <2>1 DEF Request
  <2> QED
    BY <2>2, <2>3
<1>4. ASSUME NEW n \in Nat
      PROVE  [q EXCEPT !.pc = "setex", !.ttl = n] \in Request
  <2> DEFINE p == [q EXCEPT !.pc = "setex"]
  <2>1. p \in Request
    BY DEF Request
  <2>2. [q EXCEPT !.pc = "setex", !.ttl = n] = [p EXCEPT !.ttl = n]
    OBVIOUS
  <2> HIDE DEF p
  <2>3. [p EXCEPT !.ttl = n] \in Request
    BY <2>1 DEF Request
  <2> QED
    BY <2>2, <2>3
<1> QED
  BY <1>1, <1>2, <1>3, <1>4

\* A token made now for a registered user is a token.
LEMMA CreateTyped ==
    ASSUME TypeOK, NEW u \in Users
    PROVE  create_access_token(u) \in Token /\ create_refresh_token(u) \in Token
  BY ConstantsOK DEF TypeOK, create_access_token, create_refresh_token, Token

-------------------------------------------------------------------------------
(***************************************************************************)
(* Type correctness.                                                       *)
(***************************************************************************)
LEMMA InitTyped == Init => TypeOK
<1> SUFFICES ASSUME Init PROVE TypeOK
  OBVIOUS
<1>1. \A r \in Requests : req[r] = NoRequest
  BY DEF Init
<1>2. \A r \in Requests : InProgressOK(req[r])
  BY <1>1 DEF InProgressOK, NoRequest
<1>3. req \in [Requests -> Request]
  BY RecordsTyped DEF Init
<1> QED
  BY <1>2, <1>3 DEF Init, TypeOK

\* A step that only replaces req[r] by a request that holds what it needs.
LEMMA ReqTyped ==
    ASSUME TypeOK, NEW r \in Requests, NEW q \in Request, InProgressOK(q),
           req' = [req EXCEPT ![r] = q]
    PROVE  /\ req' \in [Requests -> Request]
           /\ \A s \in Requests : InProgressOK(req'[s])
<1>1. req \in [Requests -> Request]
  BY DEF TypeOK
<1>2. \A s \in Requests : InProgressOK(req[s])
  BY DEF TypeOK
<1>3. req' \in [Requests -> Request]
  BY <1>1
<1>4. \A s \in Requests : req'[s] = IF s = r THEN q ELSE req[s]
  BY <1>1
<1> QED
  BY <1>2, <1>3, <1>4

\* An answer is such a step.
LEMMA AnswerTyped ==
    ASSUME TypeOK, NEW r \in Requests, NEW status \in {200, 401},
           NEW given \in SUBSET Token, Answer(r, status, given)
    PROVE  /\ req' \in [Requests -> Request]
           /\ \A s \in Requests : InProgressOK(req'[s])
<1>1. Answered(status, given) \in Request
  BY RecordsTyped
<1>2. InProgressOK(Answered(status, given))
  BY DEF InProgressOK, Answered
<1> QED
  BY <1>1, <1>2, ReqTyped DEF Answer

\* So is going on to the next revocation.
LEMMA ContinueTyped ==
    ASSUME TypeOK, NEW r \in Requests, req[r].pc # "idle", Continue(r)
    PROVE  /\ req' \in [Requests -> Request]
           /\ \A s \in Requests : InProgressOK(req'[s])
<1> DEFINE q == [req[r] EXCEPT !.pc = "revoke", !.turn = 2]
<1>1. CASE req[r].turn = 2 \/ req[r].other = Null
  BY <1>1, AnswerTyped DEF Continue
<1>2. CASE ~(req[r].turn = 2 \/ req[r].other = Null)
  <2>1. req[r] \in Request /\ InProgressOK(req[r])
    BY DEF TypeOK
  <2>2. q \in Request
    BY <2>1, AdvanceTyped
  <2>3. InProgressOK(q)
    BY <1>2, <2>1 DEF InProgressOK, Request
  <2>4. req' = [req EXCEPT ![r] = q]
    BY <1>2 DEF Continue
  <2> HIDE DEF q
  <2> QED
    BY <2>2, <2>3, <2>4, ReqTyped
<1> QED
  BY <1>1, <1>2

LEMMA StepTyped == TypeOK /\ [Next]_vars => TypeOK'
<1> SUFFICES ASSUME TypeOK, [Next]_vars PROVE TypeOK'
  OBVIOUS
<1> USE DEF TypeOK
<1>1. ASSUME NEW r \in Requests, LoginAccess(r) PROVE TypeOK'
  <2>1. PICK u \in Users :
           req' = [req EXCEPT ![r] =
                      Accepted("login", "login", create_access_token(u), Null)]
    BY <1>1 DEF LoginAccess
  <2> DEFINE q == Accepted("login", "login", create_access_token(u), Null)
  <2>2. q \in Request /\ InProgressOK(q)
    BY CreateTyped, RecordsTyped DEF InProgressOK, Accepted
  <2>3. req' = [req EXCEPT ![r] = q]
    BY <2>1
  <2> HIDE DEF q
  <2>4. /\ req' \in [Requests -> Request]
        /\ \A s \in Requests : InProgressOK(req'[s])
    BY <2>2, <2>3, ReqTyped
  <2> QED
    BY <1>1, <2>4 DEF LoginAccess
<1>2. ASSUME NEW r \in Requests, LoginRefresh(r) PROVE TypeOK'
  <2> DEFINE given == {req[r].token, create_refresh_token(req[r].token.user)}
  <2>1. req[r].token \in Token
    BY <1>2 DEF LoginRefresh, InProgressOK
  <2>2. given \in SUBSET Token
    BY <2>1, CreateTyped DEF Token
  <2>3. issued' = issued \cup given /\ Answer(r, 200, given)
    BY <1>2 DEF LoginRefresh
  <2> HIDE DEF given
  <2>4. /\ req' \in [Requests -> Request]
        /\ \A s \in Requests : InProgressOK(req'[s])
    BY <2>2, <2>3, AnswerTyped
  <2> QED
    BY <1>2, <2>2, <2>3, <2>4 DEF LoginRefresh
<1>3. ASSUME NEW r \in Requests, Present(r) PROVE TypeOK'
  <2>1. \E op \in {"use", "logout", "refresh"}, t \in Token,
           other \in Token \cup {Null} :
              req' = [req EXCEPT ![r] = Accepted("get", op, t, other)]
    BY <1>3 DEF Present, Issued
  <2> PICK op \in {"use", "logout", "refresh"}, t \in Token,
           other \in Token \cup {Null} :
              req' = [req EXCEPT ![r] = Accepted("get", op, t, other)]
    BY <2>1
  <2> DEFINE q == Accepted("get", op, t, other)
  <2>2. q \in Request /\ InProgressOK(q)
    BY RecordsTyped DEF InProgressOK, Accepted
  <2>3. req' = [req EXCEPT ![r] = q]
    OBVIOUS
  <2> HIDE DEF q
  <2>4. /\ req' \in [Requests -> Request]
        /\ \A s \in Requests : InProgressOK(req'[s])
    BY <2>2, <2>3, ReqTyped
  <2> QED
    BY <1>3, <2>4 DEF Present
<1>4. ASSUME NEW r \in Requests, is_token_blacklisted(r) PROVE TypeOK'
  <2> DEFINE q == [req[r] EXCEPT !.pc = "decode"]
  <2>1. q \in Request
    BY AdvanceTyped
  <2>2. InProgressOK(q)
    BY <1>4 DEF InProgressOK, Request, is_token_blacklisted
  <2>3. Answer(r, 401, {}) \/ req' = [req EXCEPT ![r] = q]
    BY <1>4 DEF is_token_blacklisted
  <2> HIDE DEF q
  <2>4. /\ req' \in [Requests -> Request]
        /\ \A s \in Requests : InProgressOK(req'[s])
    BY <2>1, <2>2, <2>3, ReqTyped, AnswerTyped
  <2> QED
    BY <1>4, <2>4 DEF is_token_blacklisted
<1>5. ASSUME NEW r \in Requests, get_current_user(r) PROVE TypeOK'
  <2> DEFINE q == [req[r] EXCEPT !.pc = "revoke"]
  <2>1. q \in Request
    BY AdvanceTyped
  <2>2. InProgressOK(q)
    BY <1>5 DEF InProgressOK, Request, get_current_user
  <2>3. \/ Answer(r, 401, {}) \/ Answer(r, 200, {})
        \/ req' = [req EXCEPT ![r] = q]
    BY <1>5 DEF get_current_user
  <2> HIDE DEF q
  <2>4. /\ req' \in [Requests -> Request]
        /\ \A s \in Requests : InProgressOK(req'[s])
    BY <2>1, <2>2, <2>3, ReqTyped, AnswerTyped
  <2> QED
    BY <1>5, <2>4 DEF get_current_user
<1>6. ASSUME NEW r \in Requests, refresh_token(r) PROVE TypeOK'
  <2> DEFINE t == req[r].token
             new == create_access_token(t.user)
  <2>1. t \in Token
    BY <1>6 DEF refresh_token, InProgressOK
  <2>2. new \in Token
    BY <2>1, CreateTyped DEF Token
  <2>3. \/ issued' = issued \cup {new} /\ Answer(r, 200, {new, t})
        \/ issued' = issued /\ Answer(r, 401, {})
    BY <1>6 DEF refresh_token
  <2> HIDE DEF t, new
  <2>4. /\ req' \in [Requests -> Request]
        /\ \A s \in Requests : InProgressOK(req'[s])
    BY <2>1, <2>2, <2>3, AnswerTyped
  <2> QED
    BY <1>6, <2>2, <2>3, <2>4 DEF refresh_token
<1>7. ASSUME NEW r \in Requests, revoke_token(r) PROVE TypeOK'
  <2> DEFINE n == remaining_ttl(RevocationTarget(r))
             q == [req[r] EXCEPT !.pc = "setex", !.ttl = n]
  <2>1. RevocationTarget(r) \in Token
    BY <1>7 DEF revoke_token, RevocationTarget, InProgressOK
  <2>2. n \in Int
    BY <2>1 DEF remaining_ttl, Token
  <2>3. \/ n > 0 /\ req' = [req EXCEPT ![r] = q]
        \/ Continue(r)
    BY <1>7 DEF revoke_token
  <2>4. ASSUME n > 0 PROVE q \in Request
    <3>1. n \in Nat /\ req[r] \in Request
      BY <2>2, <2>4
    <3> HIDE DEF n
    <3> QED
      BY <3>1, AdvanceTyped
  <2>5. InProgressOK(q)
    BY <1>7 DEF InProgressOK, Request, revoke_token
  <2> HIDE DEF n, q
  <2>6. /\ req' \in [Requests -> Request]
        /\ \A s \in Requests : InProgressOK(req'[s])
    BY <1>7, <2>3, <2>4, <2>5, ReqTyped, ContinueTyped DEF revoke_token
  <2> QED
    BY <1>7, <2>6 DEF revoke_token
<1>8. ASSUME NEW r \in Requests, StoreRevocation(r) PROVE TypeOK'
  <2>1. RevocationTarget(r) \in Token
    BY <1>8 DEF StoreRevocation, RevocationTarget, InProgressOK
  <2>2. req[r].ttl \in Nat
    BY DEF Request
  <2>3. [token |-> RevocationTarget(r), until |-> now + req[r].ttl] \in Entry
    BY <2>1, <2>2 DEF Entry
  <2>4. /\ blacklist' \subseteq Entry
        /\ revoked' \subseteq Token /\ lost' \subseteq Token
    BY <1>8, <2>1, <2>3 DEF StoreRevocation
  <2>5. /\ req' \in [Requests -> Request]
        /\ \A s \in Requests : InProgressOK(req'[s])
    BY <1>8, ContinueTyped DEF StoreRevocation
  <2> QED
    BY <1>8, <2>4, <2>5 DEF StoreRevocation
<1>9. CASE KeyExpires
  BY <1>9 DEF KeyExpires
<1>10. CASE Tick
  BY <1>10 DEF Tick
<1>11. CASE RedisRestarts
  BY <1>11 DEF RedisRestarts, Entry
<1>12. CASE UNCHANGED vars
  BY <1>12 DEF vars
<1> QED
  BY <1>1, <1>2, <1>3, <1>4, <1>5, <1>6, <1>7, <1>8, <1>9, <1>10, <1>11,
     <1>12 DEF Next, Serve

\* Every reachable state has its type.
THEOREM TypeCorrect == Spec => []TypeOK
<1>1. Init => TypeOK
  BY InitTyped
<1>2. TypeOK /\ [Next]_vars => TypeOK'
  BY StepTyped
<1> QED
  BY <1>1, <1>2, PTL DEF Spec

-------------------------------------------------------------------------------
(***************************************************************************)
(* Revocations hold.                                                       *)
(***************************************************************************)
\* A request that is not about to store a revocation does not disturb the time
\* to live of the others.
LEMMA TtlKept ==
    ASSUME TypeOK, TtlCovers, now' = now, NEW r \in Requests,
           req' \in [Requests -> Request], req'[r].pc # "setex",
           \A s \in Requests \ {r} : req'[s] = req[s]
    PROVE  TtlCovers'
  BY DEF TtlCovers, RevocationTarget

\* What a step that leaves the clock and the revocations alone has to show.
LEMMA OnlyRequestsChange ==
    ASSUME RevocationInv, UNCHANGED <<now, blacklist, revoked>>, TtlCovers'
    PROVE  RevocationInv'
  BY DEF RevocationInv, RevocationHolds, EntriesCover, Blacklisted

\* An answer, and going on to the next revocation, are such steps.
LEMMA AnswerOthers ==
    ASSUME TypeOK, NEW r \in Requests, NEW status, NEW given,
           Answer(r, status, given)
    PROVE  /\ req'[r].pc = "idle"
           /\ \A s \in Requests \ {r} : req'[s] = req[s]
  BY DEF TypeOK, Answer, Answered

LEMMA ContinueOthers ==
    ASSUME TypeOK, NEW r \in Requests, Continue(r)
    PROVE  /\ req'[r].pc # "setex"
           /\ \A s \in Requests \ {r} : req'[s] = req[s]
<1>1. CASE req[r].turn = 2 \/ req[r].other = Null
  BY <1>1, AnswerOthers DEF Continue
<1>2. CASE ~(req[r].turn = 2 \/ req[r].other = Null)
  BY <1>2 DEF Continue, TypeOK, Request
<1> QED
  BY <1>1, <1>2

LEMMA InitRevocation == Init => RevocationInv
<1> SUFFICES ASSUME Init PROVE RevocationInv
  OBVIOUS
<1>1. \A r \in Requests : req[r].pc = "idle"
  BY DEF Init, NoRequest
<1> QED
  BY <1>1 DEF Init, RevocationInv, RevocationHolds, EntriesCover, TtlCovers

LEMMA StepRevocation ==
    TypeOK /\ TypeOK' /\ RevocationInv /\ [Next]_vars => RevocationInv'
<1> SUFFICES ASSUME TypeOK, TypeOK', RevocationInv, [Next]_vars
             PROVE  RevocationInv'
  OBVIOUS
<1>0. /\ now \in Nat /\ now' \in Nat
      /\ req \in [Requests -> Request] /\ req' \in [Requests -> Request]
  BY DEF TypeOK
<1>1. ASSUME NEW r \in Requests,
             \/ LoginAccess(r) \/ LoginRefresh(r) \/ Present(r)
             \/ is_token_blacklisted(r) \/ get_current_user(r)
             \/ refresh_token(r)
      PROVE  RevocationInv'
  <2>1. /\ req'[r].pc # "setex"
        /\ \A s \in Requests \ {r} : req'[s] = req[s]
    <3>1. CASE LoginAccess(r) \/ Present(r)
      BY <1>0, <3>1 DEF LoginAccess, Present, Accepted
    <3>2. CASE LoginRefresh(r) \/ refresh_token(r)
      BY <3>2, AnswerOthers DEF LoginRefresh, refresh_token
    <3>3. CASE is_token_blacklisted(r)
      BY <1>0, <3>3, AnswerOthers DEF is_token_blacklisted, Request
    <3>4. CASE get_current_user(r)
      BY <1>0, <3>4, AnswerOthers DEF get_current_user, Request
    <3> QED
      BY <1>1, <3>1, <3>2, <3>3, <3>4
  <2>2. UNCHANGED <<now, revocations>>
    BY <1>1 DEF LoginAccess, LoginRefresh, Present, is_token_blacklisted,
                get_current_user, refresh_token
  <2> QED
    BY <1>0, <2>1, <2>2, TtlKept, OnlyRequestsChange DEF RevocationInv
<1>2. ASSUME NEW r \in Requests, revoke_token(r) PROVE RevocationInv'
  <2> DEFINE t == RevocationTarget(r)
  <2>1. t \in Token
    BY <1>2 DEF revoke_token, RevocationTarget, TypeOK, InProgressOK
  <2>2. UNCHANGED <<now, revocations>>
    BY <1>2 DEF revoke_token
  <2>3. CASE Continue(r)
    BY <1>0, <2>2, <2>3, ContinueOthers, TtlKept, OnlyRequestsChange
       DEF RevocationInv
  <2>4. CASE req' = [req EXCEPT ![r].pc = "setex", ![r].ttl = remaining_ttl(t)]
    <3>1. RevocationTarget(r)' = t /\ req'[r].ttl = t.exp - now
      BY <1>0, <2>4 DEF RevocationTarget, Request, remaining_ttl
    <3>2. t.exp <= now + (t.exp - now)
      BY <1>0, <2>1 DEF Token
    <3>3. \A s \in Requests \ {r} : req'[s] = req[s]
      BY <1>0, <2>4
    <3>4. TtlCovers'
      BY <2>2, <3>1, <3>2, <3>3 DEF TtlCovers, RevocationTarget, RevocationInv
    <3> QED
      BY <2>2, <3>4, OnlyRequestsChange
  <2> QED
    BY <1>2, <2>3, <2>4 DEF revoke_token
<1>3. ASSUME NEW r \in Requests, StoreRevocation(r) PROVE RevocationInv'
  <2> DEFINE t == RevocationTarget(r)
             new == [token |-> t, until |-> now + req[r].ttl]
  <2>1. t.exp <= now + req[r].ttl
    BY <1>3 DEF StoreRevocation, RevocationInv, TtlCovers
  <2>2. TtlCovers'
    BY <1>0, <1>3, ContinueOthers, TtlKept DEF StoreRevocation, RevocationInv
  <2>3. CASE /\ blacklist' = {b \in blacklist : b.token # t} \cup {new}
             /\ revoked' = revoked \cup {t}
    <3>1. EntriesCover'
      <4> SUFFICES ASSUME NEW b \in blacklist' PROVE b.token.exp <= b.until
        BY DEF EntriesCover
      <4>1. b \in blacklist => b.token.exp <= b.until
        BY DEF RevocationInv, EntriesCover
      <4>2. new.token = t /\ new.until = now + req[r].ttl
        OBVIOUS
      <4>3. b = new => b.token.exp <= b.until
        BY <2>1, <4>2
      <4> QED
        BY <2>3, <4>1, <4>3
    <3>2. RevocationHolds'
      <4> SUFFICES ASSUME NEW u \in revoked', now < u.exp
                   PROVE  \E b \in blacklist' : b.token = u
        BY <1>3 DEF StoreRevocation, RevocationHolds, Blacklisted
      <4>1. new.token = t /\ new \in blacklist'
        BY <2>3
      <4>2. CASE u = t
        BY <4>1, <4>2
      <4>3. CASE u # t
        <5> HIDE DEF new
        <5>1. u \in revoked
          BY <2>3, <4>3
        <5>2. PICK b \in blacklist : b.token = u
          BY <5>1 DEF RevocationInv, RevocationHolds, Blacklisted
        <5> QED
          BY <2>3, <4>3, <5>2
      <4> QED
        BY <4>2, <4>3
    <3> QED
      BY <2>2, <3>1, <3>2 DEF RevocationInv
  <2>4. CASE UNCHANGED <<blacklist, revoked>>
    BY <1>3, <2>2, <2>4, OnlyRequestsChange DEF StoreRevocation
  <2> QED
    BY <1>3, <2>3, <2>4 DEF StoreRevocation
<1>4. CASE KeyExpires
  <2>1. PICK b \in blacklist : b.until <= now /\ blacklist' = blacklist \ {b}
    BY <1>4 DEF KeyExpires
  <2>2. b.token.exp <= b.until /\ b.until \in Nat /\ b.token.exp \in Nat
    BY DEF TypeOK, Entry, Token, RevocationInv, EntriesCover
  <2>3. b.token.exp <= now
    BY <1>0, <2>1, <2>2
  <2>4. RevocationHolds'
    <3> SUFFICES ASSUME NEW t \in revoked, now < t.exp
                 PROVE  \E c \in blacklist' : c.token = t
      BY <1>4 DEF KeyExpires, RevocationHolds, Blacklisted
    <3>1. PICK c \in blacklist : c.token = t
      BY DEF RevocationInv, RevocationHolds, Blacklisted
    <3>2. c # b
      BY <1>0, <2>2, <2>3, <3>1
    <3> QED
      BY <2>1, <3>1, <3>2
  <2>5. EntriesCover' /\ TtlCovers'
    BY <1>4, <2>1 DEF KeyExpires, RevocationInv, EntriesCover, TtlCovers,
                      RevocationTarget
  <2> QED
    BY <2>4, <2>5 DEF RevocationInv
<1>5. CASE Tick
  <2>1. now' = now + 1 /\ UNCHANGED <<revocations, req>>
    BY <1>5 DEF Tick
  <2>2. RevocationHolds' /\ EntriesCover'
    BY <1>0, <2>1 DEF RevocationInv, RevocationHolds, EntriesCover,
                      Blacklisted, TypeOK, Token
  <2>3. ASSUME NEW r \in Requests, req[r].pc = "setex"
        PROVE  RevocationTarget(r).exp <= now + 1 + req[r].ttl
    <3>1. RevocationTarget(r) \in Token /\ req[r].ttl \in Nat
      BY <2>3 DEF RevocationTarget, TypeOK, InProgressOK, Request
    <3>2. RevocationTarget(r).exp <= now + req[r].ttl
      BY <2>3 DEF RevocationInv, TtlCovers
    <3> QED
      BY <1>0, <3>1, <3>2 DEF Token
  <2>4. TtlCovers'
    BY <2>1, <2>3 DEF TtlCovers, RevocationTarget
  <2> QED
    BY <2>2, <2>4 DEF RevocationInv
<1>6. CASE RedisRestarts
  <2>1. PICK gone \in SUBSET blacklist :
           /\ blacklist' = blacklist \ gone
           /\ revoked' = revoked \ {b.token : b \in gone}
    BY <1>6 DEF RedisRestarts
  <2>2. RevocationHolds'
    <3> SUFFICES ASSUME NEW t \in revoked', now < t.exp
                 PROVE  \E b \in blacklist' : b.token = t
      BY <1>6 DEF RedisRestarts, RevocationHolds, Blacklisted
    <3>1. PICK b \in blacklist : b.token = t
      BY <2>1 DEF RevocationInv, RevocationHolds, Blacklisted
    <3> QED
      BY <2>1, <3>1
  <2>3. EntriesCover' /\ TtlCovers'
    BY <1>6, <2>1 DEF RedisRestarts, RevocationInv, EntriesCover, TtlCovers,
                      RevocationTarget
  <2> QED
    BY <2>2, <2>3 DEF RevocationInv
<1>7. CASE UNCHANGED vars
  <2>1. TtlCovers'
    BY <1>7 DEF vars, TtlCovers, RevocationTarget, RevocationInv
  <2> QED
    BY <1>7, <2>1, OnlyRequestsChange DEF vars
<1> QED
  BY <1>1, <1>2, <1>3, <1>4, <1>5, <1>6, <1>7 DEF Next, Serve

\* A stored revocation holds until the second named by the token's exp claim.
THEOREM StoredRevocationHolds == Spec => []RevocationHolds
<1>1. Init => RevocationInv
  BY InitRevocation
<1>2. TypeOK /\ TypeOK' /\ RevocationInv /\ [Next]_vars => RevocationInv'
  BY StepRevocation
<1>3. RevocationInv => RevocationHolds
  BY DEF RevocationInv
<1> QED
  BY <1>1, <1>2, <1>3, TypeCorrect, PTL DEF Spec
-------------------------------------------------------------------------------
(***************************************************************************)
(* Only what was issued is revoked.                                        *)
(***************************************************************************)
\* What clients present, and what is on the revocation list, has been issued.
PresentsIssued(q) ==
    q.pc \notin {"idle", "login"} =>
        /\ q.token \in issued
        /\ q.other \in issued \cup {Null}
        /\ q.turn = 2 => q.other \in issued

OnlyIssued ==
    /\ \A b \in blacklist : b.token \in issued
    /\ \A r \in Requests : PresentsIssued(req[r])

\* A step of r, the list no longer but for an issued token and no token
\* withdrawn, has to show it of r alone.
LEMMA OnlyIssuedStep ==
    ASSUME OnlyIssued, NEW r \in Requests, issued \subseteq issued',
           \A b \in blacklist' : b \in blacklist \/ b.token \in issued,
           \A s \in Requests \ {r} : req'[s] = req[s],
           PresentsIssued(req[r])'
    PROVE  OnlyIssued'
<1>1. ASSUME NEW s \in Requests \ {r} PROVE PresentsIssued(req[s])'
  BY DEF OnlyIssued, PresentsIssued
<1>2. \A b \in blacklist' : b.token \in issued'
  BY DEF OnlyIssued
<1> QED
  BY <1>1, <1>2 DEF OnlyIssued

\* Going on to the next revocation presents nothing new.
LEMMA ContinueIssued ==
    ASSUME TypeOK, OnlyIssued, NEW r \in Requests, issued' = issued,
           req[r].pc \in {"revoke", "setex"}, Continue(r)
    PROVE  PresentsIssued(req[r])'
<1>1. CASE req[r].turn = 2 \/ req[r].other = Null
  BY <1>1, AnswerOthers DEF Continue, PresentsIssued
<1>2. CASE ~(req[r].turn = 2 \/ req[r].other = Null)
  <2>1. /\ req'[r].token = req[r].token /\ req'[r].other = req[r].other
    BY <1>2 DEF Continue, TypeOK, Request
  <2>2. req[r].token \in issued /\ req[r].other \in issued
    BY <1>2 DEF OnlyIssued, PresentsIssued
  <2> QED
    BY <2>1, <2>2 DEF PresentsIssued
<1> QED
  BY <1>1, <1>2

\* The token revoke_token is at work on has been issued.
LEMMA TargetIssued ==
    ASSUME OnlyIssued, NEW r \in Requests, req[r].pc \in {"revoke", "setex"}
    PROVE  RevocationTarget(r) \in issued
  BY DEF OnlyIssued, PresentsIssued, RevocationTarget

LEMMA StepIssued ==
    TypeOK /\ OnlyIssued /\ [Next]_vars => OnlyIssued'
<1> SUFFICES ASSUME TypeOK, OnlyIssued, [Next]_vars PROVE OnlyIssued'
  OBVIOUS
<1>0. req \in [Requests -> Request]
  BY DEF TypeOK
<1>1. ASSUME NEW r \in Requests, LoginAccess(r) PROVE OnlyIssued'
  <2>1. /\ req'[r].pc = "login"
        /\ \A s \in Requests \ {r} : req'[s] = req[s]
    BY <1>0, <1>1 DEF LoginAccess, Accepted
  <2> QED
    BY <1>1, <2>1, OnlyIssuedStep DEF LoginAccess, PresentsIssued
<1>2. ASSUME NEW r \in Requests, LoginRefresh(r) \/ refresh_token(r)
      PROVE  OnlyIssued'
  <2>1. /\ req'[r].pc = "idle"
        /\ \A s \in Requests \ {r} : req'[s] = req[s]
    BY <1>2, AnswerOthers DEF LoginRefresh, refresh_token
  <2>2. issued \subseteq issued' /\ blacklist' = blacklist
    BY <1>2 DEF LoginRefresh, refresh_token
  <2> QED
    BY <2>1, <2>2, OnlyIssuedStep DEF PresentsIssued
<1>3. ASSUME NEW r \in Requests, Present(r) PROVE OnlyIssued'
  <2>1. PICK op \in {"use", "logout", "refresh"}, t \in issued,
             other \in issued \cup {Null} :
                req' = [req EXCEPT ![r] = Accepted("get", op, t, other)]
    BY <1>3 DEF Present, Issued
  <2>2. /\ req'[r] = Accepted("get", op, t, other)
        /\ \A s \in Requests \ {r} : req'[s] = req[s]
    BY <1>0, <2>1
  <2> QED
    BY <1>3, <2>2, OnlyIssuedStep DEF Present, PresentsIssued, Accepted
<1>4. ASSUME NEW r \in Requests, is_token_blacklisted(r) \/ get_current_user(r)
      PROVE  OnlyIssued'
  <2>1. UNCHANGED <<issued, blacklist>>
    BY <1>4 DEF is_token_blacklisted, get_current_user
  <2>2. CASE \E status, given : Answer(r, status, given)
    BY <2>1, <2>2, AnswerOthers, OnlyIssuedStep DEF PresentsIssued
  <2>3. CASE \E pc \in {"decode", "revoke"} : req' = [req EXCEPT ![r].pc = pc]
    <3>1. /\ req'[r].token = req[r].token /\ req'[r].other = req[r].other
          /\ req'[r].turn = req[r].turn
          /\ \A s \in Requests \ {r} : req'[s] = req[s]
      BY <1>0, <2>3 DEF Request
    <3>2. req[r].pc \notin {"idle", "login"}
      BY <1>4 DEF is_token_blacklisted, get_current_user
    <3>3. PresentsIssued(req[r])'
      BY <2>1, <3>1, <3>2 DEF OnlyIssued, PresentsIssued
    <3> QED
      BY <2>1, <3>1, <3>3, OnlyIssuedStep
  <2> QED
    BY <1>4, <2>2, <2>3 DEF is_token_blacklisted, get_current_user
<1>5. ASSUME NEW r \in Requests, revoke_token(r) PROVE OnlyIssued'
  <2>1. UNCHANGED <<issued, blacklist>> /\ req[r].pc = "revoke"
    BY <1>5 DEF revoke_token
  <2>2. CASE Continue(r)
    BY <2>1, <2>2, ContinueOthers, ContinueIssued, OnlyIssuedStep
  <2>3. CASE \E n : req' = [req EXCEPT ![r].pc = "setex", ![r].ttl = n]
    <3>1. /\ req'[r].token = req[r].token /\ req'[r].other = req[r].other
          /\ req'[r].turn = req[r].turn
          /\ \A s \in Requests \ {r} : req'[s] = req[s]
      BY <1>0, <2>3 DEF Request
    <3>2. PresentsIssued(req[r])'
      BY <2>1, <3>1 DEF OnlyIssued, PresentsIssued
    <3> QED
      BY <2>1, <3>1, <3>2, OnlyIssuedStep
  <2> QED
    BY <1>5, <2>2, <2>3 DEF revoke_token
<1>6. ASSUME NEW r \in Requests, StoreRevocation(r) PROVE OnlyIssued'
  <2>1. issued' = issued /\ req[r].pc = "setex" /\ Continue(r)
    BY <1>6 DEF StoreRevocation
  <2>2. RevocationTarget(r) \in issued
    BY <2>1, TargetIssued
  <2>3. \A b \in blacklist' : b \in blacklist \/ b.token \in issued
    BY <1>6, <2>2 DEF StoreRevocation
  <2> QED
    BY <2>1, <2>3, ContinueOthers, ContinueIssued, OnlyIssuedStep
<1>7. CASE KeyExpires \/ Tick \/ RedisRestarts \/ UNCHANGED vars
  <2>1. /\ issued' = issued /\ req' = req /\ blacklist' \subseteq blacklist
    BY <1>7 DEF KeyExpires, Tick, RedisRestarts, vars
  <2> QED
    BY <2>1 DEF OnlyIssued, PresentsIssued
<1> QED
  BY <1>1, <1>2, <1>3, <1>4, <1>5, <1>6, <1>7 DEF Next, Serve

\* Only issued tokens are ever on the revocation list.
LEMMA IssuedOnly == Spec => []OnlyIssued
<1>1. Init => OnlyIssued
  BY DEF Init, OnlyIssued, PresentsIssued, NoRequest
<1> QED
  BY <1>1, StepIssued, TypeCorrect, PTL DEF Spec

\* A login hands out a revoked token only when the very token had been issued
\* before.
THEOREM LoginsAreFresh == Spec => OnlyTwinsRevoked
<1>1. OnlyIssued /\ [Next]_vars =>
         [\A r \in Requests :
             req[r].pc = "login" /\ req'[r].pc = "idle" =>
                \A t \in {req[r].token} \cup (issued' \ issued) :
                   Blacklisted(t) => t \in issued]_vars
  BY DEF OnlyIssued, Blacklisted
<1> QED
  BY <1>1, IssuedOnly, PTL DEF Spec, OnlyTwinsRevoked

-------------------------------------------------------------------------------
(***************************************************************************)
(* An answered logout has revoked.                                         *)
(***************************************************************************)
\* Nothing is left to revoke, or Redis is to blame.
Settled(t) == t \in revoked \cup lost \/ now >= t.exp

\* How far a request has come tells what it is; a logout that is at its second
\* token has settled the first.
LogoutOnItsWay(q) ==
    /\ q.pc = "login" => q.op = "login"
    /\ q.pc \in {"get", "decode"} => q.turn = 1
    /\ q.pc \in {"revoke", "setex"} => q.op = "logout"
    /\ q.pc # "idle" /\ q.turn = 2 => Settled(q.token)

LogoutInv == \A r \in Requests : LogoutOnItsWay(req[r])

\* Time does not go back, and the history forgets nothing.
LEMMA SettledStays ==
    ASSUME TypeOK, TypeOK', [Next]_vars
    PROVE  \A t \in Token : Settled(t) => Settled(t)'
<1>0. now \in Nat /\ now' \in Nat
  BY DEF TypeOK
<1>1. CASE Tick
  BY <1>0, <1>1 DEF Tick, Settled, Token
<1>2. CASE ~Tick
  <2>1. now' = now
    BY <1>2 DEF vars, Next, Serve, LoginAccess, LoginRefresh, Present,
                is_token_blacklisted, get_current_user, refresh_token,
                revoke_token, StoreRevocation, KeyExpires, RedisRestarts
  <2>2. CASE RedisRestarts
    BY <2>1, <2>2 DEF RedisRestarts, Settled
  <2>3. CASE \E r \in Requests : StoreRevocation(r)
    BY <2>1, <2>3 DEF StoreRevocation, Settled
  <2>4. CASE ~(RedisRestarts \/ \E r \in Requests : StoreRevocation(r))
    <3>1. revoked' = revoked /\ lost' = lost
      BY <1>2, <2>4 DEF vars, Next, Serve, LoginAccess, LoginRefresh, Present,
                        is_token_blacklisted, get_current_user, refresh_token,
                        revoke_token, KeyExpires
    <3> QED
      BY <2>1, <3>1 DEF Settled
  <2> QED
    BY <2>2, <2>3, <2>4
<1> QED
  BY <1>1, <1>2

\* A step of r has to show it of r alone.
LEMMA LogoutStep ==
    ASSUME TypeOK, TypeOK', [Next]_vars, LogoutInv, NEW r \in Requests,
           \A s \in Requests \ {r} : req'[s] = req[s],
           LogoutOnItsWay(req[r])'
    PROVE  LogoutInv'
<1>1. ASSUME NEW s \in Requests \ {r} PROVE LogoutOnItsWay(req[s])'
  <2>1. req'[s] = req[s] /\ LogoutOnItsWay(req[s])
    BY DEF LogoutInv
  <2>2. req[s].pc # "idle" => req[s].token \in Token
    BY DEF TypeOK, InProgressOK
  <2> QED
    BY <2>1, <2>2, SettledStays DEF LogoutOnItsWay, Settled
<1> QED
  BY <1>1 DEF LogoutInv

\* Going on to the second token: the first one is settled.
LEMMA ContinueSettled ==
    ASSUME TypeOK, LogoutInv, NEW r \in Requests,
           req[r].pc \in {"revoke", "setex"}, Continue(r),
           \/ RevocationTarget(r) \in revoked' \cup lost'
           \/ now' >= RevocationTarget(r).exp
    PROVE  LogoutOnItsWay(req[r])'
<1>1. CASE req[r].turn = 2 \/ req[r].other = Null
  BY <1>1, AnswerOthers DEF Continue, LogoutOnItsWay
<1>2. CASE ~(req[r].turn = 2 \/ req[r].other = Null)
  <2>1. /\ req'[r].token = req[r].token /\ req'[r].op = req[r].op
        /\ req'[r].pc = "revoke"
    BY <1>2 DEF Continue, TypeOK, Request
  <2> QED
    BY <1>2, <2>1 DEF LogoutInv, LogoutOnItsWay, RevocationTarget, Settled
<1> QED
  BY <1>1, <1>2

LEMMA StepLogout ==
    TypeOK /\ TypeOK' /\ LogoutInv /\ [Next]_vars => LogoutInv'
<1> SUFFICES ASSUME TypeOK, TypeOK', LogoutInv, [Next]_vars PROVE LogoutInv'
  OBVIOUS
<1>0. req \in [Requests -> Request]
  BY DEF TypeOK
<1>1. ASSUME NEW r \in Requests, LoginAccess(r) \/ Present(r) PROVE LogoutInv'
  <2>1. /\ req'[r].pc \in {"login", "get"} /\ req'[r].turn = 1
        /\ req'[r].pc = "login" => req'[r].op = "login"
        /\ \A s \in Requests \ {r} : req'[s] = req[s]
    BY <1>0, <1>1 DEF LoginAccess, Present, Accepted
  <2> QED
    BY <2>1, LogoutStep DEF LogoutOnItsWay
<1>2. ASSUME NEW r \in Requests, LoginRefresh(r) \/ refresh_token(r)
      PROVE  LogoutInv'
  <2>1. /\ req'[r].pc = "idle"
        /\ \A s \in Requests \ {r} : req'[s] = req[s]
    BY <1>2, AnswerOthers DEF LoginRefresh, refresh_token
  <2> QED
    BY <2>1, LogoutStep DEF LogoutOnItsWay
<1>3. ASSUME NEW r \in Requests, is_token_blacklisted(r) \/ get_current_user(r)
      PROVE  LogoutInv'
  <2>1. CASE \E status, given : Answer(r, status, given)
    BY <2>1, AnswerOthers, LogoutStep DEF LogoutOnItsWay
  <2>2. CASE \E pc \in {"decode", "revoke"} :
                /\ req' = [req EXCEPT ![r].pc = pc]
                /\ pc = "revoke" => req[r].op = "logout"
    <3>1. /\ req'[r].op = req[r].op /\ req'[r].turn = req[r].turn
          /\ req'[r].pc \in {"decode", "revoke"}
          /\ req'[r].pc = "revoke" => req[r].op = "logout"
          /\ \A s \in Requests \ {r} : req'[s] = req[s]
      BY <1>0, <2>2 DEF Request
    <3>2. req[r].pc \in {"get", "decode"}
      BY <1>3 DEF is_token_blacklisted, get_current_user
    <3>3. req[r].turn = 1
      BY <3>2 DEF LogoutInv, LogoutOnItsWay
    <3>4. LogoutOnItsWay(req[r])'
      BY <3>1, <3>3 DEF LogoutOnItsWay
    <3> QED
      BY <3>1, <3>4, LogoutStep
  <2>3. get_current_user(r) /\ req' = [req EXCEPT ![r].pc = "revoke"]
           => req[r].op = "logout" \/ \E status, given : Answer(r, status, given)
    BY DEF get_current_user
  <2> QED
    BY <1>3, <2>1, <2>2, <2>3 DEF is_token_blacklisted, get_current_user
<1>4. ASSUME NEW r \in Requests, revoke_token(r) PROVE LogoutInv'
  <2> DEFINE t == RevocationTarget(r)
  <2>1. req[r].pc = "revoke" /\ UNCHANGED <<now, revocations>>
    BY <1>4 DEF revoke_token
  <2>2. t \in Token
    BY <2>1 DEF RevocationTarget, TypeOK, InProgressOK
  <2>3. CASE Continue(r) /\ ~(decode_token(t) /\ remaining_ttl(t) > 0)
    <3>1. now' >= t.exp
      BY <2>1, <2>2, <2>3 DEF decode_token, remaining_ttl, Token, TypeOK
    <3>2. LogoutOnItsWay(req[r])'
      BY <2>1, <2>3, <3>1, ContinueSettled
    <3> QED
      BY <2>3, <3>2, ContinueOthers, LogoutStep
  <2>4. CASE \E n : req' = [req EXCEPT ![r].pc = "setex", ![r].ttl = n]
    <3>1. /\ req'[r].op = req[r].op /\ req'[r].turn = req[r].turn
          /\ req'[r].token = req[r].token /\ req'[r].pc = "setex"
          /\ \A s \in Requests \ {r} : req'[s] = req[s]
      BY <1>0, <2>4 DEF Request
    <3>2. LogoutOnItsWay(req[r])'
      BY <2>1, <3>1 DEF LogoutInv, LogoutOnItsWay, Settled
    <3> QED
      BY <3>1, <3>2, LogoutStep
  <2> QED
    BY <1>4, <2>3, <2>4 DEF revoke_token
<1>5. ASSUME NEW r \in Requests, StoreRevocation(r) PROVE LogoutInv'
  <2>1. /\ req[r].pc = "setex" /\ Continue(r)
        /\ RevocationTarget(r) \in revoked' \cup lost'
    BY <1>5 DEF StoreRevocation
  <2> QED
    BY <2>1, ContinueSettled, ContinueOthers, LogoutStep
<1>6. CASE KeyExpires \/ Tick \/ RedisRestarts \/ UNCHANGED vars
  <2>1. req' = req
    BY <1>6 DEF KeyExpires, Tick, RedisRestarts, vars
  <2>2. ASSUME NEW r \in Requests PROVE LogoutOnItsWay(req[r])'
    <3>1. LogoutOnItsWay(req[r]) /\ (req[r].pc # "idle" => req[r].token \in Token)
      BY DEF LogoutInv, TypeOK, InProgressOK
    <3> QED
      BY <2>1, <3>1, SettledStays DEF LogoutOnItsWay, Settled
  <2> QED
    BY <2>2 DEF LogoutInv
<1> QED
  BY <1>1, <1>2, <1>3, <1>4, <1>5, <1>6 DEF Next, Serve

\* The step that answers a logout settles both its tokens.
LEMMA AnswerSettles ==
    ASSUME TypeOK, TypeOK', LogoutInv, [Next]_vars, NEW r \in Requests,
           req[r].op = "logout", req[r].pc # "idle",
           req'[r].pc = "idle", req'[r].status = 200,
           NEW t \in {req[r].token, req[r].other} \ {Null}
    PROVE  t \in revoked' \cup lost' \/ now >= t.exp
<1>0. req \in [Requests -> Request] /\ InProgressOK(req[r])
  BY DEF TypeOK
<1>1. LogoutOnItsWay(req[r])
  BY DEF LogoutInv
<1>2. \/ revoke_token(r) \/ StoreRevocation(r)
  <2>1. ASSUME NEW s \in Requests \ {r}, Serve(s) PROVE req'[r] = req[r]
    <3>1. CASE LoginAccess(s) \/ Present(s)
      BY <1>0, <3>1 DEF LoginAccess, Present
    <3>2. CASE LoginRefresh(s) \/ refresh_token(s)
      BY <3>2, AnswerOthers DEF LoginRefresh, refresh_token
    <3>3. CASE is_token_blacklisted(s) \/ get_current_user(s)
      BY <1>0, <3>3, AnswerOthers DEF is_token_blacklisted, get_current_user
    <3>4. CASE revoke_token(s) \/ StoreRevocation(s)
      BY <1>0, <3>4, ContinueOthers DEF revoke_token, StoreRevocation
    <3> QED
      BY <2>1, <3>1, <3>2, <3>3, <3>4 DEF Serve
  <2>2. CASE KeyExpires \/ Tick \/ RedisRestarts \/ UNCHANGED vars
    BY <2>2 DEF KeyExpires, Tick, RedisRestarts, vars
  <2>3. ~(LoginAccess(r) \/ Present(r) \/ LoginRefresh(r) \/ refresh_token(r))
    BY <1>1 DEF LoginAccess, Present, LoginRefresh, refresh_token,
                LogoutOnItsWay
  <2>4. ~(is_token_blacklisted(r) \/ get_current_user(r))
    BY <1>0 DEF is_token_blacklisted, get_current_user, Answer, Answered, Request
  <2> QED
    BY <2>1, <2>2, <2>3, <2>4 DEF Next, Serve
<1>3. /\ req[r].pc \in {"revoke", "setex"}
      /\ Continue(r)
      /\ \/ RevocationTarget(r) \in revoked' \cup lost'
         \/ now >= RevocationTarget(r).exp
  <2>1. CASE revoke_token(r)
    <3> DEFINE u == RevocationTarget(r)
    <3>1. req[r].pc = "revoke" /\ u \in Token
      BY <1>0, <2>1 DEF revoke_token, RevocationTarget, InProgressOK
    <3>2. Continue(r) /\ ~(decode_token(u) /\ remaining_ttl(u) > 0)
      BY <1>0, <2>1 DEF revoke_token, Request
    <3>3. now >= u.exp
      BY <3>1, <3>2 DEF decode_token, remaining_ttl, Token, TypeOK
    <3> QED
      BY <3>1, <3>2, <3>3
  <2>2. CASE StoreRevocation(r)
    BY <2>2 DEF StoreRevocation
  <2> QED
    BY <1>2, <2>1, <2>2
<1>4. req[r].turn = 2 \/ req[r].other = Null
  BY <1>0, <1>3 DEF Continue, Request
<1>5. t = RevocationTarget(r) \/ (t = req[r].token /\ req[r].turn = 2)
  BY <1>4 DEF RevocationTarget
<1>6. revoked \cup lost \subseteq revoked' \cup lost'
  BY <1>2 DEF revoke_token, StoreRevocation
<1> QED
  BY <1>1, <1>3, <1>5, <1>6 DEF LogoutOnItsWay, Settled

\* A logout that is answered has revoked the tokens it was given, unless Redis
\* failed to store a revocation or lost it, or the token's last second has come.
THEOREM LogoutsRevoke == Spec => LogoutRevokes
<1>1. Init => LogoutInv
  BY DEF Init, LogoutInv, LogoutOnItsWay, NoRequest
<1>2. Spec => []LogoutInv
  BY <1>1, StepLogout, TypeCorrect, PTL DEF Spec
<1>3. TypeOK /\ TypeOK' /\ LogoutInv /\ [Next]_vars =>
         [\A r \in Requests :
             /\ req[r].op = "logout" /\ req[r].pc # "idle"
             /\ req'[r].pc = "idle" /\ req'[r].status = 200
             => \A t \in {req[r].token, req[r].other} \ {Null} :
                   t \in revoked' \cup lost' \/ now >= t.exp]_vars
  BY AnswerSettles
<1> QED
  BY <1>2, <1>3, TypeCorrect, PTL DEF Spec, LogoutRevokes
================================================================================
