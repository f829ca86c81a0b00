------------------------- MODULE AuthSessions_proofs -------------------------
(***************************************************************************)
(* Proofs about AuthSessions, for every set of users, sessions and         *)
(* requests.  Every step of AuthSessions is a step of the cache it is      *)
(* built on, so what was proved of the cache holds here; the sessions'     *)
(* own invariant ties what requests promised to what the table and the     *)
(* cache may still show.                                                   *)
(***************************************************************************)
EXTENDS AuthSessions, VersionedCache_proofs

(* What a request in progress knows: what it revoked is written, and       *)
(* reflected by every read to come once it may answer; an access-token     *)
(* check of an ended session began after that; it is not admitted for an   *)
(* ended session; and a rotation has revoked what it replaces before it    *)
(* may create.  A look-up of a target is one of the target's row, so the   *)
(* row it finds revoked is.                                                *)
RequestInv(r) ==
  /\ \A s \in rq[r].reach : db[s].ver >= 2
  /\ rq[r].pc \in {"issue", "reply"} => \A s \in rq[r].reach : floor[s] >= 2
  /\ rq[r].pc = "auth" => /\ rd[r].pc # "idle" /\ ~rq[r].ok /\ rq[r].reach = {}
                          /\ rq[r].spent = "revoked" => rd[r].floor >= 2
  /\ rq[r].pc = "target" => rd[r].key = rq[r].target
  /\ rq[r].ok => /\ rq[r].spent # "revoked"
                 /\ rq[r].spent = "told" => rq[r].op # "refresh"
  /\ rq[r].op = "refresh" =>
       /\ rq[r].pc = "revoke" => rq[r].target = rq[r].sid
       /\ rq[r].pc = "revokeAll" => ~rq[r].ok
       /\ rq[r].pc = "bump" /\ rq[r].ok => rq[r].sid \in rq[r].reach
  /\ rq[r].pc = "issue" =>
       /\ rq[r].op \in {"login", "refresh"}
       /\ rq[r].sid # NoSession => db[rq[r].sid].ver >= 2

(* What was answered stays reflected, and a successor's parent is over.    *)
HistoryInv ==
  /\ \A s \in Sessions : ended[s] = "revoked" => floor[s] >= 2
  /\ \A s \in Sessions : ended[s] = "told" => db[s].ver >= 2
  /\ \A s \in Sessions : parent[s] # NoSession => db[parent[s]].ver >= 2

(* The requests that have a target are those that revoke one session.      *)
TargetInv ==
  \A r \in Requests :
    /\ rq[r].op = "revokeOne" => rq[r].target \in Sessions
    /\ rq[r].pc \in {"find", "target"} => rq[r].op = "revokeOne"
    /\ rq[r].pc = "revoke" => rq[r].target \in Sessions
    /\ rq[r].pc = "auth" => rq[r].op \in {"me", "revokeOne", "revokeOthers"}

AuthTyped == AuthTypeOK /\ TargetInv

AuthInv == HistoryInv /\ \A r \in Requests : RequestInv(r)

-----------------------------------------------------------------------------
LEMMA InitTyped == Init => AuthTyped
<1> SUFFICES ASSUME Init PROVE AuthTyped
  OBVIOUS
<1>1. NewRequest \in Request
  BY DEF NewRequest, Request, Op, Said
<1>2. AuthTypeOK
  BY <1>1 DEF Init, AuthTypeOK, Said
<1>3. TargetInv
  BY DEF Init, NewRequest, TargetInv
<1>4. QED
  BY <1>2, <1>3 DEF AuthTyped

LEMMA StepTyped == AuthTyped /\ [Next]_vars => AuthTyped'
<1> SUFFICES ASSUME AuthTyped, [Next]_vars PROVE AuthTyped'
  OBVIOUS
<1> DEFINE Typed == AuthTyped'
<1> USE DEF AuthTyped, AuthTypeOK, TargetInv, Request, Op, Said, NewRequest, Goto, End, Arrives
<1>0. \A s \in Sessions : Spent(s) \in Said
  BY DEF Spent
<1>1. ASSUME NEW r \in Requests, NEW u \in Users, Login(r, u) PROVE Typed
  BY <1>1 DEF Login
<1>2. ASSUME NEW r \in Requests, NEW u \in Users, ForceLogout(r, u) PROVE Typed
  BY <1>2 DEF ForceLogout
<1>3. ASSUME NEW r \in Requests, NEW s \in Sessions, Refresh(r, s) PROVE Typed
  <2> DEFINE arrived == [NewRequest EXCEPT !.op = "refresh", !.sid = s,
                                   !.user = owner[s], !.spent = Spent(s)]
  <2>1. /\ owner[s] \in Users \cup {NoUser} /\ Spent(s) \in Said
        /\ s \in Sessions
    BY <1>0
  <2>2. /\ [NewRequest EXCEPT !.pc = "over"] \in Request
        /\ [arrived EXCEPT !.pc = "revoke", !.target = s, !.ok = TRUE] \in Request
        /\ [arrived EXCEPT !.pc = "revokeAll"] \in Request
    BY <2>1
  <2>3. CASE ~db[s].here
    BY <1>3, <2>2, <2>3 DEF Refresh
  <2>4. CASE db[s].here /\ Live(s) /\ s \notin expired
    BY <1>3, <2>2, <2>4 DEF Refresh
  <2>5. CASE db[s].here /\ ~(Live(s) /\ s \notin expired)
    BY <1>3, <2>2, <2>5 DEF Refresh
  <2>6. QED
    BY <2>3, <2>4, <2>5
<1>4. ASSUME NEW r \in Requests, NEW s \in Sessions, IssueSession(r, s) PROVE Typed
  BY <1>4 DEF IssueSession
<1>5. ASSUME NEW r \in Requests, NEW op \in Op, NEW s \in Sessions, NEW t \in Sessions \cup {NoSession}, op \in {"me", "revokeOne", "revokeOthers"}, op = "revokeOne" => t \in Sessions, Authenticate(r, op, s, t) PROVE Typed
  BY <1>0, <1>5 DEF Authenticate
<1>6. ASSUME NEW r \in Requests, ReadThroughCache(r) PROVE Typed
  BY <1>6 DEF ReadThroughCache, authVars
<1>7. ASSUME NEW r \in Requests, Admit(r) PROVE Typed
  <2>1. rq[r] \in Request /\ rq[r].op \in {"me", "revokeOne", "revokeOthers"}
    BY <1>7 DEF Admit
  <2>2. UNCHANGED <<owner, parent, issued, expired, ended>>
    BY <1>7 DEF Admit
  <2>3. CASE End(r, {})
    BY <2>2, <2>3
  <2>4. CASE ~End(r, {})
    <3>1. PICK l : /\ l = "reply" \/ l = "revokeAll" \/ (l = "find" /\ rq[r].op = "revokeOne")
                   /\ rq' = [rq EXCEPT ![r].ok = TRUE, ![r].pc = l]
      BY <1>7, <2>1, <2>4 DEF Admit
    <3>2. [rq[r] EXCEPT !.ok = TRUE, !.pc = l] \in Request
      BY <2>1, <3>1
    <3>3. rq' = [rq EXCEPT ![r] = [rq[r] EXCEPT !.ok = TRUE, !.pc = l]]
      BY <3>1
    <3>4. QED BY <2>2, <3>1, <3>2, <3>3
  <2>5. QED BY <2>3, <2>4
<1>8. ASSUME NEW r \in Requests, FindTarget(r) PROVE Typed
  BY <1>8 DEF FindTarget
<1>9. ASSUME NEW r \in Requests, JudgeTarget(r) PROVE Typed
  <2>1. rq[r].op = "revokeOne" /\ rq[r].target \in Sessions /\ rq[r] \in Request
    BY <1>9 DEF JudgeTarget
  <2>2. UNCHANGED <<owner, parent, issued, expired>>
    BY <1>9 DEF JudgeTarget
  <2>3. ended' \in [Sessions -> Said]
    BY <1>9, <2>1 DEF JudgeTarget
  <2>4. CASE Goto(r, "revoke")
    BY <2>1, <2>2, <2>3, <2>4
  <2>5. ASSUME NEW R \in SUBSET Sessions, End(r, R) PROVE Typed
    <3>1. [NewRequest EXCEPT !.pc = "over", !.reach = R] \in Request
      OBVIOUS
    <3>2. rq' = [rq EXCEPT ![r] = [NewRequest EXCEPT !.pc = "over", !.reach = R]]
      BY <2>5
    <3>3. QED BY <2>1, <2>2, <2>3, <3>1, <3>2
  <2>6. Goto(r, "revoke") \/ End(r, {}) \/ End(r, {rq[r].target})
    <3> HIDE DEF Goto, End
    <3>1. QED BY <1>9 DEF JudgeTarget
  <2>7. {rq[r].target} \in SUBSET Sessions
    BY <2>1
  <2> HIDE DEF Typed, Goto, End
  <2>8. QED BY <2>4, <2>5, <2>6, <2>7
<1>10. ASSUME NEW r \in Requests, Revoke(r) PROVE Typed
  BY <1>10 DEF Revoke
<1>11. ASSUME NEW r \in Requests, RevokeMissing(r) PROVE Typed
  BY <1>11 DEF RevokeMissing
<1>12. ASSUME NEW r \in Requests, RevokeAll(r) PROVE Typed
  <2>1. OwnedBy(rq[r].user) \ Kept(r) \subseteq Sessions
    BY DEF OwnedBy
  <2>2. QED
    BY <1>12, <2>1 DEF RevokeAll
<1>13. ASSUME NEW r \in Requests, BumpSessions(r) PROVE Typed
  BY <1>13 DEF BumpSessions
<1>14. ASSUME NEW r \in Requests, Reply(r) PROVE Typed
  BY <1>14 DEF Reply
<1>15. ASSUME NEW r \in Requests, Fail(r) PROVE Typed
  BY <1>15 DEF Fail
<1>16. ASSUME NEW s \in Sessions, Elapse(s) PROVE Typed
  BY <1>16 DEF Elapse
<1>17. ASSUME NEW s \in Sessions, CleanUp(s) PROVE Typed
  BY <1>17 DEF CleanUp, authVars
<1>18. ASSUME ExpireEntry PROVE Typed
  BY <1>18 DEF ExpireEntry, authVars
<1>19. ASSUME UNCHANGED vars PROVE Typed
  BY <1>19 DEF vars, authVars
<1> HIDE DEF Typed
<1>20. Typed
  BY <1>1, <1>2, <1>3, <1>4, <1>5, <1>6, <1>7, <1>8, <1>9, <1>10, <1>11, <1>12, <1>13, <1>14, <1>15, <1>16, <1>17, <1>18, <1>19 DEF Next, RequestStep, Endpoint, RefreshEndpoint, Logout, Me, RevokeOne, RevokeOthers
<1>21. QED
  BY <1>20 DEF Typed

(* The requests and the session table are always well formed.              *)
THEOREM AuthTypeCorrect == Spec => []AuthTypeOK
<1>1. AuthTyped => AuthTypeOK
  BY DEF AuthTyped
<1>2. QED
  BY <1>1, InitTyped, StepTyped, PTL DEF Spec

-----------------------------------------------------------------------------
(* Every step of the sessions is one step of the cache, or none.           *)
LEMMA StepIsCacheStep == AuthTyped /\ [Next]_vars => [CacheNext]_cacheVars
<1> SUFFICES ASSUME AuthTyped, [Next]_vars PROVE CacheNext \/ UNCHANGED cacheVars
  BY Zenon
<1> USE RequestsAssumption DEF CacheNext, Sessions, Requests
<1>1. ASSUME NEW r \in Requests, NEW u \in Users, Login(r, u) PROVE CacheNext \/ UNCHANGED cacheVars
  BY <1>1 DEF Login
<1>2. ASSUME NEW r \in Requests, NEW u \in Users, ForceLogout(r, u) PROVE CacheNext \/ UNCHANGED cacheVars
  BY <1>2 DEF ForceLogout
<1>3. ASSUME NEW r \in Requests, NEW s \in Sessions, Refresh(r, s) PROVE CacheNext \/ UNCHANGED cacheVars
  BY <1>3 DEF Refresh
<1>4. ASSUME NEW r \in Requests, NEW s \in Sessions, IssueSession(r, s) PROVE CacheNext \/ UNCHANGED cacheVars
  BY <1>4 DEF IssueSession
<1>5. ASSUME NEW r \in Requests, NEW op \in Op, NEW s \in Sessions, NEW t \in Sessions \cup {NoSession}, op \in {"me", "revokeOne", "revokeOthers"}, op = "revokeOne" => t \in Sessions, Authenticate(r, op, s, t) PROVE CacheNext \/ UNCHANGED cacheVars
  BY <1>5 DEF Authenticate
<1>6. ASSUME NEW r \in Requests, ReadThroughCache(r) PROVE CacheNext \/ UNCHANGED cacheVars
  BY <1>6 DEF ReadThroughCache
<1>7. ASSUME NEW r \in Requests, Admit(r) PROVE CacheNext \/ UNCHANGED cacheVars
  BY <1>7 DEF Admit
<1>8. ASSUME NEW r \in Requests, FindTarget(r) PROVE CacheNext \/ UNCHANGED cacheVars
  BY <1>8 DEF FindTarget, AuthTyped, TargetInv
<1>9. ASSUME NEW r \in Requests, JudgeTarget(r) PROVE CacheNext \/ UNCHANGED cacheVars
  BY <1>9 DEF JudgeTarget
<1>10. ASSUME NEW r \in Requests, Revoke(r) PROVE CacheNext \/ UNCHANGED cacheVars
  BY <1>10 DEF Revoke, AuthTyped, TargetInv
<1>11. ASSUME NEW r \in Requests, RevokeMissing(r) PROVE CacheNext \/ UNCHANGED cacheVars
  BY <1>11 DEF RevokeMissing
<1>12. ASSUME NEW r \in Requests, RevokeAll(r) PROVE CacheNext \/ UNCHANGED cacheVars
  BY <1>12 DEF RevokeAll, Unrevoked, OwnedBy
<1>13. ASSUME NEW r \in Requests, BumpSessions(r) PROVE CacheNext \/ UNCHANGED cacheVars
  BY <1>13 DEF BumpSessions
<1>14. ASSUME NEW r \in Requests, Reply(r) PROVE CacheNext \/ UNCHANGED cacheVars
  BY <1>14 DEF Reply
<1>15. ASSUME NEW r \in Requests, Fail(r) PROVE CacheNext \/ UNCHANGED cacheVars
  BY <1>15 DEF Fail
<1>16. ASSUME NEW s \in Sessions, Elapse(s) PROVE CacheNext \/ UNCHANGED cacheVars
  BY <1>16 DEF Elapse
<1>17. ASSUME NEW s \in Sessions, CleanUp(s) PROVE CacheNext \/ UNCHANGED cacheVars
  BY <1>17 DEF CleanUp
<1>18. ASSUME ExpireEntry PROVE CacheNext \/ UNCHANGED cacheVars
  BY <1>18 DEF ExpireEntry
<1>19. ASSUME UNCHANGED vars PROVE UNCHANGED cacheVars
  BY <1>19 DEF vars
<1>20. QED
  BY <1>1, <1>2, <1>3, <1>4, <1>5, <1>6, <1>7, <1>8, <1>9, <1>10, <1>11, <1>12, <1>13, <1>14, <1>15, <1>16, <1>17, <1>18, <1>19 DEF Next, RequestStep, Endpoint, RefreshEndpoint, Logout, Me, RevokeOne, RevokeOthers, Op

(* The sessions run on the cache as specified: its theorems apply.         *)
THEOREM SessionsUseCache == Spec => CacheSpec
<1>1. Init => CacheInit
  BY DEF Init
<1>2. AuthTyped /\ [Next]_vars => [CacheNext]_cacheVars
  BY StepIsCacheStep
<1>3. QED
  BY <1>1, <1>2, InitTyped, StepTyped, PTL DEF Spec, CacheSpec

-----------------------------------------------------------------------------
(* Rows and published writes only grow.                                   *)
LEMMA CacheGrows ==
  ASSUME IInv, [CacheNext]_cacheVars
  PROVE  \A k \in Keys : db[k].ver <= db'[k].ver /\ floor[k] <= floor'[k]
<1> USE DEF IInv, TypeOK, RowsInv, Row
<1> DEFINE Grows == \A k \in Keys : db[k].ver <= db'[k].ver /\ floor[k] <= floor'[k]
<1>1. ASSUME NEW w \in Writers, NEW K \in SUBSET Keys, NEW h \in BOOLEAN,
             Write(w, K, h)
      PROVE  Grows
  BY <1>1 DEF Write
<1>2. ASSUME NEW w \in Writers, Bump(w) PROVE Grows
  BY <1>2 DEF Bump
<1>3. ASSUME NEW k \in Keys, CreateRow(k) \/ PurgeRow(k) PROVE Grows
  BY <1>3 DEF CreateRow, PurgeRow, NoRow, FirstRow
<1>4. ASSUME UNCHANGED <<db, floor>> PROVE Grows
  BY <1>4
<1>5. ASSUME NEW p \in Readers, ReadStep(p) \/ EndRead(p) \/ \E k \in Keys : BuildKey(p, k)
      PROVE  Grows
  BY <1>4, <1>5 DEF ReadStep, EndRead, BuildKey, CacheHit, CacheMiss, LoadRow, FillCache
<1>6. ASSUME NEW w \in Writers, LoseBump(w) PROVE Grows
  BY <1>4, <1>6 DEF LoseBump
<1>7. ASSUME NEW e \in store, Expire(e) PROVE Grows
  BY <1>4, <1>7 DEF Expire
<1>8. ASSUME UNCHANGED cacheVars PROVE Grows
  BY <1>4, <1>8 DEF cacheVars
<1> HIDE DEF Grows
<1>9. Grows
  BY <1>1, <1>2, <1>3, <1>5, <1>6, <1>7, <1>8 DEF CacheNext
<1>10. QED
  BY <1>9 DEF Grows

LEMMA AuthInvInit == Init => AuthInv
<1> SUFFICES ASSUME Init PROVE AuthInv
  OBVIOUS
<1>1. \A r \in Requests : rq[r] = NewRequest
  BY DEF Init
<1>2. \A r \in Requests : RequestInv(r)
  BY <1>1 DEF RequestInv, NewRequest
<1>3. HistoryInv
  BY DEF Init, HistoryInv
<1>4. QED
  BY <1>2, <1>3 DEF AuthInv

LEMMA AuthInvStep ==
  AuthTyped /\ AuthTyped' /\ IInv /\ IInv' /\ AuthInv /\ [Next]_vars => AuthInv'
<1> SUFFICES ASSUME AuthTyped, AuthTyped', IInv, IInv', AuthInv, [Next]_vars
             PROVE  AuthInv'
  OBVIOUS
<1> DEFINE Inv == AuthInv'
<1> USE DEF Sessions, Requests
<1>0. /\ AuthTypeOK /\ AuthTypeOK' /\ TargetInv /\ TypeOK /\ TypeOK' /\ HistoryInv
      /\ \A r \in Requests : RequestInv(r) /\ rq[r] \in Request /\ rq'[r] \in Request
  BY DEF AuthTyped, AuthTypeOK, IInv, AuthInv
<1>m. \A k \in Sessions : /\ db[k].ver <= db'[k].ver /\ floor[k] <= floor'[k]
                          /\ db[k].ver \in Nat /\ db'[k].ver \in Nat
                          /\ floor[k] \in Nat /\ floor'[k] \in Nat
                          /\ floor[k] <= db[k].ver
                          /\ db[k].here => db[k].ver >= 1
  BY CacheGrows, StepIsCacheStep DEF AuthTyped, IInv, TypeOK, RowsInv, Row
(* A request that does not move keeps its invariant.                       *)
<1>f. ASSUME NEW r \in Requests, rq'[r] = rq[r], rd'[r] = rd[r]
      PROVE  RequestInv(r)'
  <2>1. RequestInv(r) /\ rq[r] \in Request
    BY <1>0
  <2>2. \A s \in rq[r].reach : s \in Sessions
    BY <2>1 DEF Request
  <2>3. rq[r].sid # NoSession => rq[r].sid \in Sessions
    BY <2>1 DEF Request
  <2>4. QED
    BY <1>f, <1>m, <2>1, <2>2, <2>3 DEF RequestInv
<1>h. ASSUME ended' = ended, parent' = parent PROVE HistoryInv'
  <2>1. \A s \in Sessions : parent[s] # NoSession => parent[s] \in Sessions
    BY <1>0 DEF AuthTypeOK
  <2>2. QED
    BY <1>0, <1>h, <1>m, <2>1 DEF HistoryInv
<1>1. ASSUME NEW r \in Requests, NEW u \in Users, Login(r, u) PROVE Inv
  <2>1. \A p \in Requests : p # r => rq'[p] = rq[p] /\ rd'[p] = rd[p]
    BY <1>0, <1>1 DEF Login, Goto, End, TypeOK, AuthTypeOK, cacheVars
  <2>2. RequestInv(r)'
    BY <1>0, <1>m, <1>1 DEF Login, Goto, End, RequestInv, Request, Said, NewRequest, Arrives, TypeOK, AuthTypeOK, cacheVars
  <2>3. HistoryInv'
    BY <1>h, <1>1 DEF Login
  <2>4. QED
    BY <1>f, <2>1, <2>2, <2>3 DEF AuthInv
<1>2. ASSUME NEW r \in Requests, NEW u \in Users, ForceLogout(r, u) PROVE Inv
  <2>1. \A p \in Requests : p # r => rq'[p] = rq[p] /\ rd'[p] = rd[p]
    BY <1>0, <1>2 DEF ForceLogout, Goto, End, TypeOK, AuthTypeOK, cacheVars
  <2>2. RequestInv(r)'
    BY <1>0, <1>m, <1>2 DEF ForceLogout, Goto, End, RequestInv, Request, Said, NewRequest, Arrives, TypeOK, AuthTypeOK, cacheVars
  <2>3. HistoryInv'
    BY <1>h, <1>2 DEF ForceLogout
  <2>4. QED
    BY <1>f, <2>1, <2>2, <2>3 DEF AuthInv
<1>3. ASSUME NEW r \in Requests, NEW s \in Sessions, Refresh(r, s) PROVE Inv
  <2>1. \A p \in Requests : p # r => rq'[p] = rq[p] /\ rd'[p] = rd[p]
    BY <1>0, <1>3 DEF Refresh, Goto, End, TypeOK, AuthTypeOK, cacheVars
  <2>2. RequestInv(r)'
    <3> DEFINE arrived == [NewRequest EXCEPT !.op = "refresh", !.sid = s,
                                     !.user = owner[s], !.spent = Spent(s)]
    <3>1. rq \in [Requests -> Request]
      BY <1>0 DEF AuthTypeOK
    <3>2. Live(s) => Spent(s) = "open"
      BY <1>0, <1>m DEF HistoryInv, Live, LiveRow, Spent, AuthTypeOK, Said
    <3>3. CASE ~db[s].here
      <4>1. rq'[r] = [NewRequest EXCEPT !.pc = "over"]
        BY <1>3, <3>1, <3>3 DEF Refresh
      <4>2. QED
        BY <4>1 DEF RequestInv, NewRequest
    <3>4. CASE db[s].here /\ Live(s) /\ s \notin expired
      <4>1. rq'[r] = [arrived EXCEPT !.pc = "revoke", !.target = s, !.ok = TRUE]
        BY <1>3, <3>1, <3>4 DEF Refresh
      <4>2. QED
        BY <3>2, <3>4, <4>1 DEF RequestInv, NewRequest
    <3>5. CASE db[s].here /\ ~(Live(s) /\ s \notin expired)
      <4>1. rq'[r] = [arrived EXCEPT !.pc = "revokeAll"]
        BY <1>3, <3>1, <3>5 DEF Refresh
      <4>2. QED
        BY <4>1 DEF RequestInv, NewRequest
    <3>6. QED
      BY <3>3, <3>4, <3>5
  <2>3. HistoryInv'
    BY <1>h, <1>3 DEF Refresh
  <2>4. QED
    BY <1>f, <2>1, <2>2, <2>3 DEF AuthInv
<1>4. ASSUME NEW r \in Requests, NEW s \in Sessions, IssueSession(r, s) PROVE Inv
  <2>1. \A p \in Requests : p # r => rq'[p] = rq[p] /\ rd'[p] = rd[p]
    BY <1>0, <1>4 DEF IssueSession, Goto, End, TypeOK, AuthTypeOK, CreateRow
  <2>2. RequestInv(r)'
    <3>1. /\ rq \in [Requests -> Request] /\ RequestInv(r) /\ rq[r].pc = "issue"
      BY <1>0, <1>4 DEF IssueSession, AuthTypeOK
    <3>2. /\ rq'[r].reach = rq[r].reach /\ rq'[r].pc = "reply"
          /\ rq'[r].op = rq[r].op /\ rq'[r].ok = rq[r].ok
          /\ rq'[r].sid = rq[r].sid /\ rq'[r].spent = rq[r].spent
      BY <1>4, <3>1 DEF IssueSession, Request
    <3>3. \A t \in rq[r].reach : t \in Sessions
      BY <3>1 DEF Request
    <3>4. \A t \in rq[r].reach : db[t].ver >= 2 /\ floor[t] >= 2
      BY <3>1 DEF RequestInv
    <3>5. \A t \in rq[r].reach : db'[t].ver >= 2 /\ floor'[t] >= 2
      BY <1>m, <3>3, <3>4
    <3>6. rq[r].ok => /\ rq[r].spent # "revoked"
                      /\ rq[r].spent = "told" => rq[r].op # "refresh"
      BY <3>1 DEF RequestInv
    <3>7. QED
      BY <3>2, <3>5, <3>6 DEF RequestInv
  <2>3. HistoryInv'
    BY <1>0, <1>m, <1>4 DEF IssueSession, Goto, End, HistoryInv, RequestInv, Request, AuthTypeOK, CreateRow
  <2>4. QED
    BY <1>f, <2>1, <2>2, <2>3 DEF AuthInv
<1>5. ASSUME NEW r \in Requests, NEW op \in Op, NEW s \in Sessions, NEW t \in Sessions \cup {NoSession}, Authenticate(r, op, s, t) PROVE Inv
  <2>1. \A p \in Requests : p # r => rq'[p] = rq[p] /\ rd'[p] = rd[p]
    BY <1>0, <1>5 DEF Authenticate, Goto, End, TypeOK, AuthTypeOK, BuildKey
  <2>2. RequestInv(r)'
    <3>1. rq \in [Requests -> Request] /\ rd \in [Readers -> ReadState]
      BY <1>0 DEF AuthTypeOK, TypeOK
    <3>2. rd'[r].pc = "lookup" /\ rd'[r].floor = floor[s]
      BY <1>5, <3>1 DEF Authenticate, BuildKey
    <3>3. rq'[r] = [NewRequest EXCEPT !.op = op, !.pc = "auth", !.sid = s,
                                      !.user = owner[s], !.target = t,
                                      !.spent = Spent(s)]
      BY <1>5, <3>1 DEF Authenticate
    <3>4. /\ rq'[r].reach = {} /\ rq'[r].pc = "auth" /\ ~rq'[r].ok
          /\ rq'[r].spent = Spent(s)
      BY <3>3 DEF NewRequest
    <3>5. Spent(s) = "revoked" => floor[s] >= 2
      BY <1>0, <1>m DEF HistoryInv, Spent
    <3>6. QED
      BY <3>2, <3>4, <3>5 DEF RequestInv
  <2>3. HistoryInv'
    BY <1>h, <1>5 DEF Authenticate
  <2>4. QED
    BY <1>f, <2>1, <2>2, <2>3 DEF AuthInv
<1>6. ASSUME NEW r \in Requests, ReadThroughCache(r) PROVE Inv
  <2>1. \A p \in Requests : p # r => rq'[p] = rq[p] /\ rd'[p] = rd[p]
    BY <1>0, <1>6 DEF ReadThroughCache, Goto, End, TypeOK, AuthTypeOK, ReadStep, CacheHit, CacheMiss, LoadRow, FillCache, authVars
  <2>2. RequestInv(r)'
    <3>1. /\ rd'[r].floor = rd[r].floor /\ rd'[r].key = rd[r].key /\ rd'[r].pc # "idle"
          /\ rq' = rq /\ db' = db /\ floor' = floor
      <4>1. rd \in [Readers -> ReadState] /\ rq' = rq
        BY <1>0, <1>6 DEF ReadThroughCache, authVars, TypeOK
      <4>2. CASE CacheHit(r)
        BY <4>1, <4>2 DEF CacheHit
      <4>3. CASE CacheMiss(r)
        BY <4>1, <4>3 DEF CacheMiss
      <4>4. CASE LoadRow(r)
        BY <4>1, <4>4 DEF LoadRow
      <4>5. CASE FillCache(r)
        BY <4>1, <4>5 DEF FillCache
      <4>6. QED
        BY <1>6, <4>2, <4>3, <4>4, <4>5 DEF ReadThroughCache, ReadStep
    <3>2. RequestInv(r)
      BY <1>0
    <3>3. QED
      BY <3>1, <3>2 DEF RequestInv
  <2>3. HistoryInv'
    BY <1>h, <1>6 DEF ReadThroughCache, authVars
  <2>4. QED
    BY <1>f, <2>1, <2>2, <2>3 DEF AuthInv
<1>7. ASSUME NEW r \in Requests, Admit(r) PROVE Inv
  <2>1. \A p \in Requests : p # r => rq'[p] = rq[p] /\ rd'[p] = rd[p]
    BY <1>0, <1>7 DEF Admit, Goto, End, TypeOK, AuthTypeOK, EndRead
  <2>2. RequestInv(r)'
    <3>1. /\ rq \in [Requests -> Request] /\ rd \in [Readers -> ReadState]
          /\ RequestInv(r) /\ rq[r].pc = "auth" /\ rd[r].pc = "done"
      BY <1>0, <1>7 DEF Admit, AuthTypeOK, TypeOK
    <3>2. rd[r].floor <= rd[r].row.ver /\ rd[r].floor \in Nat /\ rd[r].row.ver \in Nat
      BY <3>1 DEF IInv, AnswerInv, ReadState, Row
    <3>3. LiveRow(rd[r].row) => rq[r].spent # "revoked"
      BY <3>1, <3>2 DEF LiveRow, RequestInv
    <3>4. CASE End(r, {})
      BY <3>1, <3>4 DEF End, RequestInv, NewRequest
    <3>5. CASE ~End(r, {})
      <4>1. rq[r].op \in {"me", "revokeOne", "revokeOthers"}
        BY <1>0, <3>1 DEF TargetInv
      <4>2. PICK l \in {"reply", "find", "revokeAll"} :
              rq' = [rq EXCEPT ![r].ok = TRUE, ![r].pc = l]
        BY <1>7, <3>5, <4>1 DEF Admit
      <4>3. rq'[r] = [rq[r] EXCEPT !.ok = TRUE, !.pc = l] /\ LiveRow(rd[r].row)
        BY <1>7, <3>1, <3>5, <4>2 DEF Admit
      <4>4. /\ rq'[r].reach = rq[r].reach /\ rq'[r].spent = rq[r].spent
            /\ rq'[r].op = rq[r].op /\ rq'[r].pc = l
        BY <3>1, <4>3 DEF Request
      <4>5. rq[r].reach = {}
        BY <3>1 DEF RequestInv
      <4>6. QED BY <3>1, <3>3, <4>1, <4>3, <4>4, <4>5 DEF RequestInv
    <3>6. QED BY <3>4, <3>5
  <2>3. HistoryInv'
    BY <1>h, <1>7 DEF Admit
  <2>4. QED
    BY <1>f, <2>1, <2>2, <2>3 DEF AuthInv
<1>8. ASSUME NEW r \in Requests, FindTarget(r) PROVE Inv
  <2>1. \A p \in Requests : p # r => rq'[p] = rq[p] /\ rd'[p] = rd[p]
    BY <1>0, <1>8 DEF FindTarget, Goto, End, TypeOK, AuthTypeOK, BuildKey
  <2>2. RequestInv(r)'
    BY <1>0, <1>m, <1>8 DEF FindTarget, Goto, End, RequestInv, Request, Said, NewRequest, Arrives, TypeOK, AuthTypeOK, BuildKey
  <2>3. HistoryInv'
    BY <1>h, <1>8 DEF FindTarget
  <2>4. QED
    BY <1>f, <2>1, <2>2, <2>3 DEF AuthInv
<1>9. ASSUME NEW r \in Requests, JudgeTarget(r) PROVE Inv
  <2>1. \A p \in Requests : p # r => rq'[p] = rq[p] /\ rd'[p] = rd[p]
    BY <1>0, <1>9 DEF JudgeTarget, Goto, End, TypeOK, AuthTypeOK, EndRead
  <2> DEFINE Found == rd[r].row.here /\ owner[rq[r].target] = rq[r].user /\ rd[r].row.ver > 1
  <2>3. Found => db[rq[r].target].ver >= 2
    <3>1. RequestInv(r) /\ rq[r].pc = "target" /\ rd[r].pc = "done"
          /\ rq[r].target \in Sessions /\ rd[r] \in ReadState
      BY <1>0, <1>9 DEF JudgeTarget, TargetInv, TypeOK
    <3>2. rd[r].row.ver <= db[rq[r].target].ver
      BY <3>1 DEF IInv, AnswerInv, RequestInv
    <3>3. rd[r].row.ver \in Nat
      BY <3>1 DEF ReadState, Row
    <3>4. QED BY <1>m, <3>1, <3>2, <3>3
  <2>2. RequestInv(r)'
    <3>1. /\ rq \in [Requests -> Request] /\ RequestInv(r)
          /\ rq[r].pc = "target" /\ rq[r].op = "revokeOne"
      BY <1>0, <1>9 DEF JudgeTarget, AuthTypeOK, TargetInv
    <3>2. db' = db
      BY <1>9 DEF JudgeTarget, EndRead
    <3>3. CASE Goto(r, "revoke")
      BY <3>1, <3>2, <3>3 DEF Goto, RequestInv
    <3>4. CASE End(r, {})
      BY <3>1, <3>4 DEF End, RequestInv, NewRequest
    <3>5. CASE End(r, {rq[r].target}) /\ db[rq[r].target].ver >= 2
      BY <3>1, <3>2, <3>5 DEF End, RequestInv, NewRequest
    <3>6. QED BY <1>9, <3>3, <3>4, <3>5, <2>3 DEF JudgeTarget
  <2>4. HistoryInv'
    <3>1. /\ parent' = parent /\ db' = db /\ floor' = floor
          /\ ended' = ended \/ (Found /\ ended' = [ended EXCEPT ![rq[r].target] = "told"])
      BY <1>9 DEF JudgeTarget, EndRead
    <3>2. QED BY <1>0, <2>3, <3>1 DEF HistoryInv, AuthTypeOK
  <2>5. QED
    BY <1>f, <2>1, <2>2, <2>4 DEF AuthInv
<1>10. ASSUME NEW r \in Requests, Revoke(r) PROVE Inv
  <2>1. \A p \in Requests : p # r => rq'[p] = rq[p] /\ rd'[p] = rd[p]
    BY <1>0, <1>10 DEF Revoke, Goto, End, TypeOK, AuthTypeOK, Write
  <2>2. RequestInv(r)'
    <3>1. /\ rq \in [Requests -> Request] /\ RequestInv(r)
          /\ rq[r].pc = "revoke" /\ rq[r].target \in Sessions
      BY <1>0, <1>10 DEF Revoke, AuthTypeOK, TargetInv
    <3>2. db'[rq[r].target].ver >= 2
      <4>1. db'[rq[r].target] = [ver |-> db[rq[r].target].ver + 1, here |-> TRUE]
        BY <1>10, <3>1 DEF Revoke, Write
      <4>2. db[rq[r].target].ver >= 1 /\ db[rq[r].target].ver \in Nat
        BY <1>10, <1>m, <3>1 DEF Revoke
      <4>3. QED
        BY <4>1, <4>2
    <3>3. rq' = [rq EXCEPT ![r].reach = {rq[r].target}, ![r].pc = "bump"]
      BY <1>10 DEF Revoke
    <3>4. /\ rq'[r].reach = {rq[r].target} /\ rq'[r].pc = "bump"
          /\ rq'[r].op = rq[r].op /\ rq'[r].ok = rq[r].ok
          /\ rq'[r].sid = rq[r].sid /\ rq'[r].spent = rq[r].spent
      BY <3>1, <3>3
    <3>5. QED
      BY <3>1, <3>2, <3>4 DEF RequestInv
  <2>3. HistoryInv'
    BY <1>h, <1>10 DEF Revoke
  <2>4. QED
    BY <1>f, <2>1, <2>2, <2>3 DEF AuthInv
<1>11. ASSUME NEW r \in Requests, RevokeMissing(r) PROVE Inv
  <2>1. \A p \in Requests : p # r => rq'[p] = rq[p] /\ rd'[p] = rd[p]
    BY <1>0, <1>11 DEF RevokeMissing, Goto, End, TypeOK, AuthTypeOK, cacheVars
  <2>2. RequestInv(r)'
    BY <1>0, <1>m, <1>11 DEF RevokeMissing, Goto, End, RequestInv, Request, Said, NewRequest, Arrives, TypeOK, AuthTypeOK, cacheVars
  <2>3. HistoryInv'
    BY <1>h, <1>11 DEF RevokeMissing
  <2>4. QED
    BY <1>f, <2>1, <2>2, <2>3 DEF AuthInv
<1>12. ASSUME NEW r \in Requests, RevokeAll(r) PROVE Inv
  <2>1. \A p \in Requests : p # r => rq'[p] = rq[p] /\ rd'[p] = rd[p]
    BY <1>0, <1>12 DEF RevokeAll, Goto, End, TypeOK, AuthTypeOK, Write
  <2>2. RequestInv(r)'
    <3> DEFINE covered == OwnedBy(rq[r].user) \ Kept(r)
    <3>1. /\ rq \in [Requests -> Request] /\ RequestInv(r)
          /\ rq[r].pc = "revokeAll"
      BY <1>0, <1>12 DEF RevokeAll, AuthTypeOK
    <3>2. /\ rq'[r].reach = covered /\ rq'[r].pc = "bump"
          /\ rq'[r].op = rq[r].op /\ rq'[r].ok = rq[r].ok
          /\ rq'[r].sid = rq[r].sid /\ rq'[r].spent = rq[r].spent
      BY <1>12, <3>1 DEF RevokeAll, Request
    <3>3. ASSUME NEW t \in covered PROVE db'[t].ver >= 2
      <4>1. t \in Sessions /\ db[t].here /\ db[t].ver >= 1 /\ db[t].ver \in Nat
        BY <1>m DEF OwnedBy
      <4>2. CASE db[t].ver = 1
        <5>1. t \in Unrevoked(rq[r].user) \ Kept(r)
          BY <4>1, <4>2 DEF Unrevoked, OwnedBy, Live, LiveRow
        <5>2. db'[t].ver = db[t].ver + 1
          BY <1>12, <4>1, <5>1 DEF RevokeAll, Write
        <5>3. QED
          BY <4>2, <5>2
      <4>3. CASE db[t].ver # 1
        BY <1>m, <4>1, <4>3
      <4>4. QED
        BY <4>2, <4>3
    <3>4. /\ rq[r].ok => /\ rq[r].spent # "revoked"
                         /\ rq[r].spent = "told" => rq[r].op # "refresh"
          /\ rq[r].op = "refresh" => ~rq[r].ok
      BY <3>1 DEF RequestInv
    <3>5. QED
      BY <3>2, <3>3, <3>4 DEF RequestInv
  <2>3. HistoryInv'
    BY <1>h, <1>12 DEF RevokeAll
  <2>4. QED
    BY <1>f, <2>1, <2>2, <2>3 DEF AuthInv
<1>13. ASSUME NEW r \in Requests, BumpSessions(r) PROVE Inv
  <2>1. \A p \in Requests : p # r => rq'[p] = rq[p] /\ rd'[p] = rd[p]
    BY <1>0, <1>13 DEF BumpSessions, Goto, End, TypeOK, AuthTypeOK, Bump
  <2>2. RequestInv(r)'
    BY <1>0, <1>m, <1>13 DEF BumpSessions, Goto, End, RequestInv, Request, Said, NewRequest, Arrives, TypeOK, AuthTypeOK, Bump
  <2>3. HistoryInv'
    BY <1>h, <1>13 DEF BumpSessions
  <2>4. QED
    BY <1>f, <2>1, <2>2, <2>3 DEF AuthInv
<1>14. ASSUME NEW r \in Requests, Reply(r) PROVE Inv
  <2>1. \A p \in Requests : p # r => rq'[p] = rq[p] /\ rd'[p] = rd[p]
    BY <1>0, <1>14 DEF Reply, Goto, End, TypeOK, AuthTypeOK, cacheVars
  <2>2. RequestInv(r)'
    BY <1>0, <1>m, <1>14 DEF Reply, Goto, End, RequestInv, Request, Said, NewRequest, Arrives, TypeOK, AuthTypeOK, cacheVars
  <2>3. HistoryInv'
    BY <1>0, <1>m, <1>14 DEF Reply, Goto, End, HistoryInv, RequestInv, Request, AuthTypeOK, cacheVars
  <2>4. QED
    BY <1>f, <2>1, <2>2, <2>3 DEF AuthInv
<1>15. ASSUME NEW r \in Requests, Fail(r) PROVE Inv
  <2>1. \A p \in Requests : p # r => rq'[p] = rq[p] /\ rd'[p] = rd[p]
    BY <1>0, <1>15 DEF Fail, Goto, End, TypeOK, AuthTypeOK, LoseBump, EndRead, cacheVars
  <2>2. RequestInv(r)'
    BY <1>0, <1>m, <1>15 DEF Fail, Goto, End, RequestInv, Request, Said, NewRequest, Arrives, TypeOK, AuthTypeOK, LoseBump, EndRead, cacheVars
  <2>3. HistoryInv'
    BY <1>h, <1>15 DEF Fail
  <2>4. QED
    BY <1>f, <2>1, <2>2, <2>3 DEF AuthInv
<1>16. ASSUME NEW s \in Sessions, Elapse(s) PROVE Inv
  <2>1. rq' = rq /\ rd' = rd /\ ended' = ended /\ parent' = parent
    BY <1>16 DEF Elapse, cacheVars
  <2>2. QED
    BY <1>f, <1>h, <2>1 DEF AuthInv
<1>17. ASSUME NEW s \in Sessions, CleanUp(s) PROVE Inv
  <2>1. rq' = rq /\ rd' = rd /\ ended' = ended /\ parent' = parent
    BY <1>17 DEF CleanUp, PurgeRow, authVars
  <2>2. QED
    BY <1>f, <1>h, <2>1 DEF AuthInv
<1>18. ASSUME ExpireEntry PROVE Inv
  <2>1. rq' = rq /\ rd' = rd /\ ended' = ended /\ parent' = parent
    BY <1>18 DEF ExpireEntry, Expire, authVars
  <2>2. QED
    BY <1>f, <1>h, <2>1 DEF AuthInv
<1>19. ASSUME UNCHANGED vars PROVE Inv
  BY <1>f, <1>h, <1>19 DEF vars, authVars, cacheVars, AuthInv
<1> HIDE DEF Inv
<1>20. Inv
  BY <1>1, <1>2, <1>3, <1>4, <1>5, <1>6, <1>7, <1>8, <1>9, <1>10, <1>11, <1>12, <1>13, <1>14, <1>15, <1>16, <1>17, <1>18, <1>19 DEF Next, RequestStep, Endpoint, RefreshEndpoint, Logout, Me, RevokeOne, RevokeOthers, Op
<1>21. QED
  BY <1>20 DEF Inv

-----------------------------------------------------------------------------
(* The invariant holds in every behaviour: what was proved of the cache is *)
(* used through SessionsUseCache.                                          *)
THEOREM AuthInductive == Spec => [](AuthInv /\ AuthTyped /\ IInv)
<1>1. Spec => []AuthTyped
  BY InitTyped, StepTyped, PTL DEF Spec
<1>2. Spec => []IInv
  BY SessionsUseCache, Inductive, PTL
<1>3. AuthTyped /\ AuthTyped' /\ IInv /\ IInv' /\ AuthInv /\ [Next]_vars => AuthInv'
  BY AuthInvStep
<1>4. QED
  BY <1>1, <1>2, <1>3, AuthInvInit, PTL DEF Spec

(* Once a logout, a rotation or a reuse alarm was answered, a request that *)
(* arrives with either credential of the session is turned away, whatever  *)
(* the cache holds and however the requests interleave.  After the answer  *)
(* that a session was revoked already, its refresh token is, at once; its  *)
(* access token once the request that revoked has bumped.                  *)
THEOREM RevocationIsFinal == Spec => []RevocationHolds
<1>1. AuthInv => RevocationHolds
  BY DEF AuthInv, RequestInv, RevocationHolds
<1>2. QED
  BY <1>1, AuthInductive, PTL

(* A rotation never leaves the session it replaced live next to its        *)
(* successor, wherever the process stops.                                  *)
THEOREM RotationIsOrdered == Spec => []RotationOrder
<1>1. AuthInv /\ AuthTyped => RotationOrder
  BY DEF AuthInv, HistoryInv, RotationOrder, Live, LiveRow
<1>2. QED
  BY <1>1, AuthInductive, PTL

(* Whatever an answered request revoked stays revoked: no request in       *)
(* flight makes such a session live again.                                 *)
THEOREM LogoutIsComplete == Spec => []LogoutCoversAll
<1>1. AuthInv /\ AuthTyped => LogoutCoversAll
  BY DEF AuthInv, RequestInv, LogoutCoversAll, Live, LiveRow, AuthTyped,
         AuthTypeOK, Request
<1>2. QED
  BY <1>1, AuthInductive, PTL
=============================================================================
