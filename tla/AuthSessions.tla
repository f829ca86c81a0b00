----------------------------- MODULE AuthSessions -----------------------------
(***************************************************************************)
(* Sessions, refresh tokens and the access tokens bound to them.           *)
(*                                                                         *)
(* The session table sits behind one cache namespace, VersionedCache, with *)
(* the session ids as keys: the access-token check reads it through the    *)
(* cache, the refresh reads it directly, and every revocation writes it    *)
(* and then bumps the namespace.  A row that was written once is a live    *)
(* session, a row written again is a revoked one: nothing in the code      *)
(* clears revokedAt.                                                       *)
(*                                                                         *)
(* A request is one call of an endpoint.  It carries a refresh token, an   *)
(* access token or a password, and moves from one database or Redis call   *)
(* to the next; requests interleave between any two calls, and the process *)
(* that serves one may stop anywhere.                                      *)
(***************************************************************************)
EXTENDS VersionedCache, FiniteSets

CONSTANTS Users, NoUser, NoSession,
          Offered,   \* bound: [Requests -> the endpoints it may call]
          Expiring   \* bound: the sessions whose expiresAt a run reaches

Sessions == Keys
Requests == Readers

ASSUME RequestsAssumption == Readers = Writers
ASSUME NamesAssumption == NoUser \notin Users /\ NoSession \notin Keys

VARIABLES owner,    \* [Sessions -> user the session was created for]
          parent,   \* [Sessions -> session whose refresh token it replaced]
          issued,   \* sessions whose tokens reached the client
          expired,  \* sessions past expiresAt
          rq,       \* [Requests -> the local state of a request]
          ended     \* history: what answered requests said of a session

authVars == <<owner, parent, issued, expired, rq, ended>>
vars == <<cacheVars, authVars>>

Op == {"none", "login", "refresh", "me", "revokeOne", "revokeOthers", "force"}

(* What answers have said of a session: "revoked" once a request that      *)
(* revoked it was answered, "told" once one that found it revoked was.     *)
(* spent is what had been said of the presented session when the request   *)
(* arrived, reach what its own revocation covers.                          *)
Said == {"open", "told", "revoked"}

Request == [op : Op,
            pc : {"idle", "issue", "revoke", "revokeAll", "bump", "auth",
                  "find", "target", "reply", "over"},
            user : Users \cup {NoUser},
            sid : Sessions \cup {NoSession},
            target : Sessions \cup {NoSession},
            new : Sessions \cup {NoSession},
            ok : BOOLEAN,
            spent : Said,
            reach : SUBSET Sessions]

AuthTypeOK ==
  /\ owner \in [Sessions -> Users \cup {NoUser}]
  /\ parent \in [Sessions -> Sessions \cup {NoSession}]
  /\ issued \subseteq Sessions
  /\ expired \subseteq Sessions
  /\ rq \in [Requests -> Request]
  /\ ended \in [Sessions -> Said]

-----------------------------------------------------------------------------
LiveRow(row) == row.here /\ row.ver = 1
Live(s) == LiveRow(db[s])

Arrives(r, op) == rq[r].pc = "idle" /\ op \in Offered[r]

NewRequest == [op |-> "none", pc |-> "idle", user |-> NoUser,
               sid |-> NoSession, target |-> NoSession, new |-> NoSession,
               ok |-> FALSE, spent |-> "open", reach |-> {}]

Init ==
  /\ CacheInit
  /\ owner \in [Sessions -> Users \cup {NoUser}]
  /\ \A s \in Sessions : owner[s] = NoUser <=> db[s] = NoRow
  /\ parent = [s \in Sessions |-> NoSession]
  /\ issued = {s \in Sessions : Live(s)}
  /\ expired = {}
  /\ rq = [r \in Requests |-> NewRequest]
  /\ ended = [s \in Sessions |-> "open"]

(* The rows revokeAllForUser updates: not revoked yet (an expired one too), *)
(* and not the caller's own session when it asks to keep it.               *)
Kept(r) == IF rq[r].op = "revokeOthers" THEN {rq[r].sid} ELSE {}
OwnedBy(u) == {s \in Sessions : db[s].here /\ owner[s] = u}
Unrevoked(u) == {s \in OwnedBy(u) : Live(s)}

Goto(r, l) == rq' = [rq EXCEPT ![r].pc = l]

(* A request that was answered, or failed, leaves nothing behind but what  *)
(* its answer says it revoked.                                             *)
End(r, revoked) ==
  rq' = [rq EXCEPT ![r] = [NewRequest EXCEPT !.pc = "over", !.reach = revoked]]

(* Who answers that a session is revoked already promises what the request *)
(* that revoked it does, no later than the bump of that request.           *)
Spent(s) == IF ended[s] = "told" /\ floor[s] > 1 THEN "revoked" ELSE ended[s]

-----------------------------------------------------------------------------
(* Login, once the credentials were verified: what is left is issueTokens. *)
Login(r, u) ==
  /\ Arrives(r, "login")
  /\ rq' = [rq EXCEPT ![r] = [NewRequest EXCEPT !.op = "login",
                              !.pc = "issue", !.user = u]]
  /\ UNCHANGED <<cacheVars, owner, parent, issued, expired, ended>>

(* Faulty variant: a rotation keeps the session's row, gives it the new    *)
(* token and clears revokedAt.                                             *)
ReissueSession(r, s) ==
  /\ rq[r].pc = "issue"
  /\ rq[r].sid = s
  /\ db' = [db EXCEPT ![s] = FirstRow]
  /\ rq' = [rq EXCEPT ![r].new = s, ![r].pc = "reply"]
  /\ UNCHANGED <<nsver, store, rd, wr, floor, owner, parent, issued, expired, ended>>

(* CreateSessionUseCase: a fresh row, no invalidation, then the token is   *)
(* signed.  A rotation hands on the user of the session it replaces.       *)
IssueSession(r, s) ==
  /\ rq[r].pc = "issue"
  /\ CreateRow(s)
  /\ owner' = [owner EXCEPT ![s] = rq[r].user]
  /\ parent' = [parent EXCEPT ![s] = rq[r].sid]
  /\ rq' = [rq EXCEPT ![r].new = s, ![r].pc = "reply"]
  /\ UNCHANGED <<issued, expired, ended>>

(* Faulty variant: the new session is created before the old one is        *)
(* revoked.                                                                *)
RefreshCreatesFirst(r, s) ==
  /\ Arrives(r, "refresh")
  /\ s \in issued
  /\ Live(s)
  /\ rq' = [rq EXCEPT ![r] = [NewRequest EXCEPT !.op = "refresh", !.sid = s,
                                !.pc = "issue", !.user = owner[s]]]
  /\ UNCHANGED <<cacheVars, owner, parent, issued, expired, ended>>

(* RefreshTokenUseCase up to its first write.  The row is looked up by the *)
(* token's hash, past the cache.  A revoked or expired row means reuse.    *)
Refresh(r, s) ==
  LET arrived == [NewRequest EXCEPT !.op = "refresh", !.sid = s,
                                    !.user = owner[s], !.spent = Spent(s)]
  IN  /\ Arrives(r, "refresh")
      /\ s \in issued
      /\ rq' = [rq EXCEPT ![r] =
                  IF ~db[s].here THEN [NewRequest EXCEPT !.pc = "over"]
                  ELSE IF Live(s) /\ s \notin expired
                       THEN [arrived EXCEPT !.pc = "revoke", !.target = s, !.ok = TRUE]
                       ELSE [arrived EXCEPT !.pc = "revokeAll"]]
      /\ UNCHANGED <<cacheVars, owner, parent, issued, expired, ended>>

(* An administrator's invalidate-tokens, or a password reset, reaches its  *)
(* revokeAllForUser.                                                       *)
ForceLogout(r, u) ==
  /\ Arrives(r, "force")
  /\ rq' = [rq EXCEPT ![r] = [NewRequest EXCEPT !.op = "force",
                              !.pc = "revokeAll", !.user = u]]
  /\ UNCHANGED <<cacheVars, owner, parent, issued, expired, ended>>

-----------------------------------------------------------------------------
(* JwtStrategy.validate looks the session of the access token up, through  *)
(* the cache; the controller then runs op.                                 *)
Authenticate(r, op, s, t) ==
  /\ Arrives(r, op)
  /\ s \in issued
  /\ t # NoSession => db[t] # NoRow
  /\ BuildKey(r, s)
  /\ rq' = [rq EXCEPT ![r] =
              [NewRequest EXCEPT !.op = op, !.pc = "auth", !.sid = s,
                                 !.user = owner[s], !.target = t,
                                 !.spent = Spent(s)]]
  /\ UNCHANGED <<owner, parent, issued, expired, ended>>

ReadThroughCache(r) ==
  /\ rq[r].pc \in {"auth", "target"}
  /\ ReadStep(r)
  /\ UNCHANGED authVars

(* The check of the row that came back, and what the endpoint does next.   *)
Admit(r) ==
  LET admitted == LiveRow(rd[r].row) /\ rq[r].sid \notin expired
      next == CASE rq[r].op = "me" -> "reply"
                [] rq[r].op = "revokeOne" -> "find"
                [] rq[r].op = "revokeOthers" -> "revokeAll"
  IN  /\ rq[r].pc = "auth"
      /\ rd[r].pc = "done"
      /\ EndRead(r)
      /\ IF admitted THEN rq' = [rq EXCEPT ![r].ok = TRUE, ![r].pc = next]
                     ELSE End(r, {})
      /\ UNCHANGED <<owner, parent, issued, expired, ended>>

(* RevokeSessionUseCase looks its target up through the cache as well.     *)
FindTarget(r) ==
  /\ rq[r].pc = "find"
  /\ BuildKey(r, rq[r].target)
  /\ Goto(r, "target")
  /\ UNCHANGED <<owner, parent, issued, expired, ended>>

(* Not found, somebody else's (404, 403), or already revoked (204):        *)
(* answered at once.                                                       *)
JudgeTarget(r) ==
  LET t == rq[r].target
      mine == rd[r].row.here /\ owner[t] = rq[r].user
      already == rd[r].row.ver > 1
  IN  /\ rq[r].pc = "target"
      /\ rd[r].pc = "done"
      /\ EndRead(r)
      /\ IF mine /\ ~already THEN Goto(r, "revoke")
                             ELSE End(r, IF mine THEN {t} ELSE {})
      /\ ended' = IF mine /\ already /\ ended[t] = "open"
                  THEN [ended EXCEPT ![t] = "told"] ELSE ended
      /\ UNCHANGED <<owner, parent, issued, expired>>

-----------------------------------------------------------------------------
(* sessions.revoke, the write: by id, revoked or not.                      *)
Revoke(r) ==
  /\ rq[r].pc = "revoke"
  /\ Write(r, {rq[r].target}, TRUE)
  /\ db[rq[r].target].here
  /\ rq' = [rq EXCEPT ![r].reach = {rq[r].target}, ![r].pc = "bump"]
  /\ UNCHANGED <<owner, parent, issued, expired, ended>>

(* The clean-up took the row meanwhile: Prisma raises P2025.               *)
RevokeMissing(r) ==
  /\ rq[r].pc = "revoke"
  /\ ~db[rq[r].target].here
  /\ End(r, {})
  /\ UNCHANGED <<cacheVars, owner, parent, issued, expired, ended>>

(* sessions.revokeAllForUser, the write.                                   *)
RevokeAll(r) ==
  /\ rq[r].pc = "revokeAll"
  /\ Write(r, Unrevoked(rq[r].user) \ Kept(r), TRUE)
  /\ rq' = [rq EXCEPT ![r].reach = OwnedBy(rq[r].user) \ Kept(r),
                      ![r].pc = "bump"]
  /\ UNCHANGED <<owner, parent, issued, expired, ended>>

(* The invalidation after either write; a rotation goes on to its create.  *)
BumpSessions(r) ==
  /\ rq[r].pc = "bump"
  /\ Bump(r)
  /\ Goto(r, IF rq[r].op = "refresh" /\ rq[r].ok THEN "issue" ELSE "reply")
  /\ UNCHANGED <<owner, parent, issued, expired, ended>>

(* Faulty variant: an answer without a new session is not told apart.      *)
ReplyWithToken(r) ==
  /\ rq[r].pc = "reply"
  /\ End(r, rq[r].reach)
  /\ issued' = issued \cup {rq[r].new}
  /\ UNCHANGED <<cacheVars, owner, parent, expired, ended>>

(* The answer leaves: tokens it carries are the client's, and revocations  *)
(* it reports are facts to the client.                                     *)
Reply(r) ==
  /\ rq[r].pc = "reply"
  /\ End(r, rq[r].reach)
  /\ issued' = issued \cup ({rq[r].new} \ {NoSession})
  /\ ended' = [s \in Sessions |->
                 IF s \in rq[r].reach THEN "revoked" ELSE ended[s]]
  /\ UNCHANGED <<cacheVars, owner, parent, expired>>

(* The process stops, or a call fails, wherever the request is.            *)
Fail(r) ==
  /\ rq[r].pc \notin {"idle", "over"}
  /\ End(r, {})
  /\ \/ LoseBump(r)
     \/ wr[r] = "idle" /\ EndRead(r)
     \/ wr[r] = "idle" /\ rd[r].pc = "idle" /\ UNCHANGED cacheVars
  /\ UNCHANGED <<owner, parent, issued, expired, ended>>

-----------------------------------------------------------------------------
(* Time passes expiresAt.                                                  *)
Elapse(s) ==
  /\ s \in Expiring
  /\ db[s].here
  /\ s \notin expired
  /\ expired' = expired \cup {s}
  /\ UNCHANGED <<cacheVars, owner, parent, issued, rq, ended>>

(* deleteExpired: sessions expired for the retention period go, without    *)
(* an invalidation.                                                        *)
CleanUp(s) ==
  /\ s \in expired
  /\ PurgeRow(s)
  /\ UNCHANGED authVars

ExpireEntry ==
  /\ \E e \in store : Expire(e)
  /\ UNCHANGED authVars

(* The endpoints.  A logout revokes the session of its own access token.   *)
RefreshEndpoint(r) == \E s \in Sessions : Refresh(r, s)
Logout(r) == \E s \in Sessions : Authenticate(r, "revokeOne", s, s)
Me(r) == \E s \in Sessions : Authenticate(r, "me", s, NoSession)
RevokeOne(r) == \E s, t \in Sessions : Authenticate(r, "revokeOne", s, t)
RevokeOthers(r) == \E s \in Sessions : Authenticate(r, "revokeOthers", s, NoSession)

Endpoint(r) ==
  RefreshEndpoint(r) \/ Logout(r) \/ Me(r) \/ RevokeOne(r) \/ RevokeOthers(r)

RequestStep(r) ==
  \/ \E u \in Users : Login(r, u) \/ ForceLogout(r, u)
  \/ Endpoint(r) \/ \E s \in Sessions : IssueSession(r, s)
  \/ ReadThroughCache(r) \/ Admit(r) \/ FindTarget(r) \/ JudgeTarget(r)
  \/ Revoke(r) \/ RevokeMissing(r) \/ RevokeAll(r) \/ BumpSessions(r)
  \/ Reply(r) \/ Fail(r)

Next ==
  \/ \E r \in Requests : RequestStep(r)
  \/ \E s \in Sessions : Elapse(s) \/ CleanUp(s)
  \/ ExpireEntry

Spec == Init /\ [][Next]_vars

-----------------------------------------------------------------------------
(* No credential of a session outlives an answered revocation: a request   *)
(* that arrives after a logout, a rotation or a reuse alarm was answered   *)
(* is neither admitted with the session's access token, whatever the cache *)
(* holds, nor given a new session for its refresh token.  The answer that  *)
(* a session was revoked already ends the refresh token at once; the       *)
(* access token may live on until the request that revoked has bumped.     *)
RevocationHolds ==
  \A r \in Requests :
    rq[r].ok => /\ rq[r].spent # "revoked"
                /\ rq[r].spent = "told" => rq[r].op # "refresh"

(* The old session is dead before its successor exists, on every path: a   *)
(* refresh never leaves two generations of a session usable.               *)
RotationOrder ==
  \A s \in Sessions : parent[s] # NoSession => ~Live(parent[s])

(* What an answered logout-the-others, reuse alarm or forced logout covers *)
(* stays dead: no request in flight brings a session back.                 *)
LogoutCoversAll ==
  \A r \in Requests : rq[r].pc = "over" => \A s \in rq[r].reach : ~Live(s)
=============================================================================
