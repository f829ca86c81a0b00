------------------------------- MODULE Account -------------------------------
(***************************************************************************)
(* The life of one account: sign-up by password, by an administrator or by *)
(* an identity provider, the tokens sent by e-mail, the password and its   *)
(* history, the linked identities, the sessions and the cut-off before     *)
(* which access tokens are refused, deletion and anonymization.  It is     *)
(* composed with SignIn: both write the same User row and read it through  *)
(* the same cache, and a login opens a session with the password it read.  *)
(*                                                                         *)
(* A call is a use case on its way; call[r] and rq[r] are two requests.    *)
(*                                                                         *)
(* Abstractions.  There is one e-mail address, and it is used for one row. *)
(* Passwords are numbers, first used in order. Sent e-mails are tokens anybody *)
(* may use.  Users.findById needs the row to exist, which is not asked     *)
(* again: nobody has its id before.                                        *)
(***************************************************************************)
EXTENDS SignIn, Sequences

CONSTANTS Identities,    \* identities at the providers with this address
          HistorySize,   \* PASSWORD_HISTORY_SIZE
          PasswordBound, \* bound: passwords the account may get
          TokenBound,    \* bound: tokens that are sent
          ClockBound     \* bound: half seconds that pass

Calls == {"register", "create", "resend", "verifyEmail", "forgot", "reset",
          "oauth", "link", "unlink", "invalidate"}

ASSUME AccountAssumption ==
  /\ Null \notin Identities \cup Calls /\ IsFiniteSet(Identities) /\ Identities \cap Nat = {}
  /\ HistorySize \in Nat \ {0} /\ PasswordBound \in Nat \ {0}
  /\ TokenBound \in Nat /\ ClockBound \in Nat

VARIABLES exists,     \* the User row: not yet, yes, or anonymized
          workspace,  \* the user's first membership exists
          linked,     \* the rows of OAuthAccount, by identity
          job,        \* AnonymizeExpiredUsersUseCase
          history,    \* the rows of PasswordHistory (places in past), newest first
          tokens,     \* the rows of PasswordResetToken and EmailVerifyToken
          issued,     \* how many tokens were made; they are numbered
          sessions,   \* the live sessions, each with its access token
          clock,      \* in half seconds
          cut,        \* User.tokensInvalidatedAt
          cached,     \* the cached cut-off (null is never a hit)
          call,       \* [Requests -> the local state of a call]
          past,       \* the passwords the account had; rows say which by its place
          gone,       \* history: tokens answered as used or replaced
          changed,    \* history: Len(past) at the newest answered reset
          disturbed,  \* history: a reset overlapped another, or the anonymization,
                      \*          or died half-way
          reused,     \* history: an undisturbed reset took a recent password
          overtaken,  \* history: a restore overtook the anonymization
          overlapped, \* history: an unlink deleted what it had not counted
          halfway,    \* history: a sign-up died half-way
          refused,    \* history: a token was refused that is newer than cut
          admitted    \* history: a token was admitted that is older than cut

person == <<exists, workspace, linked, job, overtaken, overlapped, halfway>>
passwd == <<history, past, disturbed, reused>>
mail == <<tokens, issued, gone>>
access == <<sessions, clock, cut, cached, changed, refused, admitted>>
acct == <<person, passwd, mail, access, call>>
all == <<vars, acct>>
but_row == <<deleted, made, confirmed, spent, stale, lockout, challenge, rq, offered>>

Token == [id : 1..TokenBound, for : {"reset", "verify"}, used : BOOLEAN, expired : BOOLEAN]
Session == [version : Nat,    \* history: Len(past) when its password was read
            at : 0..ClockBound,
            late : BOOLEAN]   \* history: the password had changed meanwhile

Call ==
  [pc : {"idle", "begin", "create", "workspace", "ask", "pending", "token", "user",
         "recent", "write", "bump", "record", "cut", "fresh", "mark", "revoke",
         "email", "callback", "account", "count", "delete", "issue", "answer"},
   kind     : Calls \cup {Null},
   arg      : Nat \cup Identities,  \* the token or the identity it is given
   user     : Row \cup {Null},      \* the row it read
   password : Nat,                  \* reset: the new password
   seen     : SUBSET Identities,    \* unlink: what it counted
   version  : Nat,                  \* history: Len(past) at its read or write
   old      : SUBSET Nat,           \* history: the tokens there were before
   late     : BOOLEAN]              \* history: its token was gone

NoCall == [pc |-> "idle", kind |-> Null, arg |-> 0, user |-> Null, password |-> 0,
           seen |-> {}, version |-> 0, old |-> {}, late |-> FALSE]

AccountTypeOK ==
  /\ TypeOK
  /\ exists \in {"no", "yes", "anonymized"} /\ workspace \in BOOLEAN
  /\ linked \subseteq Identities /\ job \in {"idle", "selected", "bump"}
  /\ past \in Seq(Nat) /\ Len(past) <= PasswordBound
  /\ history \in Seq(1..Len(past)) /\ Len(history) <= HistorySize - 1
  /\ tokens \subseteq Token /\ issued \in 0..TokenBound /\ gone \subseteq 1..issued
  /\ \A t, u \in tokens : t.id = u.id => t = u
  /\ sessions \subseteq Session
  /\ clock \in 0..ClockBound /\ {cut, cached} \subseteq 0..ClockBound \cup {Null}
  /\ call \in [Requests -> Call] /\ changed \in 0..Len(past)
  /\ {disturbed, reused, overtaken, overlapped, halfway, refused, admitted} \subseteq BOOLEAN

Asked(k) == \E r \in Requests : <<r, k>> \in offered

(* An account from an earlier registration, with a session if its address  *)
(* is verified, or none.                                                   *)
AccountInit ==
  /\ Init
  /\ exists \in {"no", "yes"}
  /\ exists = "no" => ~row.verified /\ (Asked("register") \/ Asked("oauth"))
  /\ workspace = (exists = "yes") /\ linked = {} /\ job = "idle"
  /\ past = (IF exists = "yes" THEN <<1>> ELSE <<>>) /\ history = <<>>
  /\ tokens = {} /\ issued = 0 /\ gone = {}
  /\ sessions = (IF row.verified THEN {[version |-> 1, at |-> 0, late |-> FALSE]} ELSE {})
  /\ clock = 0 /\ cut = Null /\ cached = Null
  /\ call = [r \in Requests |-> NoCall]
  /\ changed = 0 /\ disturbed = FALSE /\ reused = FALSE /\ overtaken = FALSE
  /\ overlapped = FALSE /\ halfway = FALSE /\ refused = FALSE /\ admitted = FALSE

-----------------------------------------------------------------------------
Is(r, k, l) == call[r].kind = k /\ call[r].pc = l
Advance(r, l) == call' = [call EXCEPT ![r] = IF l = "idle" THEN NoCall
                                           ELSE [@ EXCEPT !.pc = l]]

(* Which of the two tables a call is about.                                *)
For(k) == IF k \in {"forgot", "reset"} THEN "reset" ELSE "verify"

Start(r, k, a) ==
  /\ call[r].pc = "idle" /\ <<r, k>> \in offered
  /\ call' = [call EXCEPT ![r] =
       [NoCall EXCEPT !.pc = "begin", !.kind = k, !.arg = a, !.late = a \in gone,
                      !.old = IF k \in {"register", "resend", "forgot"}
                              THEN {t.id : t \in {x \in tokens : x.for = For(k)}} ELSE {}]]
  /\ UNCHANGED <<vars, person, passwd, mail, access>>

(* The endpoints.  A bearer has a session; the public ones need none.      *)
Bearer == sessions # {}
Register(r) == Start(r, "register", 0)
CreateByAdmin(r) == Start(r, "create", 0)
Resend(r) == Bearer /\ Start(r, "resend", 0)
Forgot(r) == Start(r, "forgot", 0)
VerifyEmail(r) == \E t \in 1..issued : Start(r, "verifyEmail", t)
Reset(r) == \E t \in 1..issued : Start(r, "reset", t)
Callback(r) == \E i \in Identities : Start(r, "oauth", i)
Link(r) == Bearer /\ \E i \in Identities : Start(r, "link", i)
Unlink(r) == Bearer /\ \E i \in Identities : Start(r, "unlink", i)
Invalidate(r) == Start(r, "invalidate", 0)

-----------------------------------------------------------------------------
(* users.findByEmail: past the cache, deleted rows excluded.               *)
FoundByEmail == exists = "yes" /\ ~deleted
FoundIncludingDeleted == exists = "yes"

FindFree(r) ==
  /\ \/ Is(r, "register", "begin") \/ Is(r, "create", "begin") \/ Is(r, "oauth", "email")
  /\ ~FoundByEmail
  /\ Advance(r, "create")
  /\ UNCHANGED <<vars, person, passwd, mail, access>>

(* The address is unique, deleted rows included.                           *)
CreateUser(r) ==
  /\ call[r].pc = "create"
  /\ exists = "no" /\ exists' = "yes"
  /\ row' = [enabled |-> FALSE, secret |-> Null, codes |-> {},
             verified |-> call[r].kind = "oauth",
             password |-> IF call[r].kind = "oauth" THEN 0 ELSE 1]
  /\ visible' = {row'}
  /\ past' = IF call[r].kind = "oauth" THEN <<>> ELSE <<1>>
  /\ Advance(r, "workspace")
  /\ UNCHANGED <<but_row, workspace, linked, job, overtaken, overlapped, halfway,
                 history, disturbed, reused, mail, access>>

(* CreateWorkspaceUseCase, or the membership an administrator gives.       *)
CreateWorkspace(r) ==
  /\ call[r].pc = "workspace"
  /\ workspace' = TRUE
  /\ Advance(r, CASE call[r].kind = "register" -> "ask"
                [] call[r].kind = "create" -> "idle"
                [] call[r].kind = "oauth" -> "account")
  /\ UNCHANGED <<vars, exists, linked, job, overtaken, overlapped, halfway,
                 passwd, mail, access>>

(* RequestEmailVerificationUseCase: nothing is sent to a verified address. *)
RequestEmailVerification(r) ==
  /\ Is(r, "register", "ask") \/ Is(r, "resend", "begin")
  /\ \E u \in FindById : Advance(r, IF u.verified THEN "idle" ELSE "pending")
  /\ UNCHANGED <<vars, person, passwd, mail, access>>

ForgotPassword(r) ==
  /\ Is(r, "forgot", "begin")
  /\ Advance(r, IF FoundByEmail THEN "pending" ELSE "idle")
  /\ UNCHANGED <<vars, person, passwd, mail, access>>

(* Faulty variant: pending tokens stay.                                    *)
DeleteNothing(r) ==
  /\ call[r].pc = "pending"
  /\ Advance(r, "token")
  /\ UNCHANGED <<vars, person, passwd, mail, access>>

DeletePending(r) ==
  /\ call[r].pc = "pending"
  /\ tokens' = {t \in tokens : t.for # For(call[r].kind) \/ t.used}
  /\ Advance(r, "token")
  /\ UNCHANGED <<vars, person, passwd, issued, gone, access>>

CreateToken(r) ==
  /\ call[r].pc = "token" /\ issued < TokenBound
  /\ issued' = issued + 1
  /\ tokens' = tokens \cup {[id |-> issued', for |-> For(call[r].kind),
                              used |-> FALSE, expired |-> FALSE]}
  /\ Advance(r, "answer")
  /\ UNCHANGED <<vars, person, passwd, gone, access>>

FindByTokenHash(i, k) == {t \in tokens : t.id = i /\ t.for = For(k)}

FindToken(r) ==
  /\ Is(r, "reset", "begin") \/ Is(r, "verifyEmail", "begin")
  /\ \E t \in FindByTokenHash(call[r].arg, call[r].kind) : ~t.used /\ ~t.expired
  /\ Advance(r, IF call[r].kind = "reset" THEN "user" ELSE "write")
  /\ UNCHANGED <<vars, person, passwd, mail, access>>

(* The cached user, for the checks of a reset and of an unlink.            *)
ReadUser(r) ==
  /\ call[r].pc = "user"
  /\ \E u \in FindById :
       call' = [call EXCEPT ![r].user = u,
                            ![r].pc = IF call[r].kind = "reset" THEN "recent" ELSE "count"]
  /\ UNCHANGED <<vars, person, passwd, mail, access>>

-----------------------------------------------------------------------------
(* ResetPasswordUseCase, after the token and the user.                     *)
FirstOf(s, n) == SubSeq(s, 1, IF Len(s) < n THEN Len(s) ELSE n)
InSeq(s) == {s[n] : n \in 1..Len(s)}
FindRecentHashes == InSeq(FirstOf(history, HistorySize - 1))
Hashes(places) == {past[n] : n \in places \ {0}}

(* Another reset is between its update and its record.                     *)
Recording == \E q \in Requests : call[q].kind = "reset" /\ call[q].pc \in {"bump", "record"}

ChoosePassword(r) ==
  /\ Is(r, "reset", "recent")
  /\ Len(past) < PasswordBound
  /\ \E p \in (1..Len(past) + 1) \ Hashes({call[r].user.password} \cup FindRecentHashes) :
       call' = [call EXCEPT ![r].password = p, ![r].pc = "write"]
  /\ disturbed' = (disturbed \/ Recording)
  /\ UNCHANGED <<vars, person, history, past, reused, mail, access>>

(* The passwords that PASSWORD_HISTORY_SIZE forbids.                       *)
Recent == Hashes({n \in 1..Len(past) : n > Len(past) - HistorySize})

SetPassword(r) ==
  /\ Is(r, "reset", "write")
  /\ Len(past) < PasswordBound
  /\ UpdateUser([row EXCEPT !.password = Len(past) + 1])
  /\ past' = Append(past, call[r].password)
  /\ disturbed' = (disturbed \/ call[r].user.password # row.password \/ exists # "yes")
  /\ reused' = (reused \/ (~disturbed' /\ call[r].password \in Recent))
  /\ call' = [call EXCEPT ![r].pc = "bump", ![r].version = Len(past')]
  /\ UNCHANGED <<but_row, person, history, mail, access>>

MarkVerified(r) ==
  /\ Is(r, "verifyEmail", "write")
  /\ UpdateUser([row EXCEPT !.verified = TRUE])
  /\ Advance(r, "bump")
  /\ UNCHANGED <<but_row, person, passwd, mail, access>>

(* @InvalidateCache(users), after each of the two writes.                  *)
Bump(r) ==
  /\ call[r].pc \in {"bump", "fresh"}
  /\ visible' = Bumped /\ cached' = Null
  /\ Advance(r, CASE call[r].kind = "invalidate" -> "revoke"
                  [] call[r].kind = "verifyEmail" \/ Is(r, "reset", "fresh") -> "mark"
                  [] Is(r, "reset", "bump") -> "record")
  /\ UNCHANGED <<row, but_row, person, passwd, mail, sessions, clock, cut,
                 changed, refused, admitted>>

(* Faulty variant: the new password is recorded instead of the old one.    *)
RecordNew(r) ==
  /\ Is(r, "reset", "record")
  /\ history' = FirstOf(<<call[r].version>> \o history, HistorySize - 1)
  /\ Advance(r, "cut")
  /\ UNCHANGED <<vars, person, past, disturbed, reused, mail, access>>

(* Faulty variant: older passwords stay.                                   *)
RecordForever(r) ==
  /\ Is(r, "reset", "record")
  /\ history' = IF call[r].user.password = 0 THEN history
                ELSE <<call[r].user.password>> \o history
  /\ Advance(r, "cut")
  /\ UNCHANGED <<vars, person, past, disturbed, reused, mail, access>>

RecordPassword(r) ==
  /\ Is(r, "reset", "record")
  /\ history' = IF call[r].user.password = 0 THEN history
                ELSE FirstOf(<<call[r].user.password>> \o history, HistorySize - 1)
  /\ Advance(r, "cut")
  /\ UNCHANGED <<vars, person, past, disturbed, reused, mail, access>>

InvalidateTokens(r) ==
  /\ Is(r, "reset", "cut") \/ (Is(r, "invalidate", "begin") /\ FindById # {})
  /\ cut' = clock
  /\ Advance(r, "fresh")
  /\ UNCHANGED <<vars, person, passwd, mail, sessions, clock, cached,
                 changed, refused, admitted>>

(* An update of a row that is gone throws.                                 *)
MarkUsed(r) ==
  /\ call[r].pc = "mark"
  /\ \E t \in FindByTokenHash(call[r].arg, call[r].kind) :
       tokens' = (tokens \ {t}) \cup {[t EXCEPT !.used = TRUE]}
  /\ Advance(r, IF call[r].kind = "reset" THEN "revoke" ELSE "answer")
  /\ UNCHANGED <<vars, person, passwd, issued, gone, access>>

(* Faulty variant: the sessions stay.                                      *)
RevokeNone(r) ==
  /\ call[r].pc = "revoke"
  /\ Advance(r, "answer")
  /\ UNCHANGED <<vars, person, passwd, mail, access>>

RevokeAllForUser(r) ==
  /\ call[r].pc = "revoke"
  /\ sessions' = {}
  /\ Advance(r, "answer")
  /\ UNCHANGED <<vars, person, passwd, mail, clock, cut, cached,
                 changed, refused, admitted>>

Answer(r) ==
  /\ call[r].pc = "answer"
  /\ gone' = gone \cup CASE call[r].kind \in {"reset", "verifyEmail"} -> {call[r].arg}
                         [] OTHER -> call[r].old
  /\ changed' = IF call[r].version > changed THEN call[r].version ELSE changed
  /\ Advance(r, "idle")
  /\ UNCHANGED <<vars, person, passwd, tokens, issued, sessions, clock, cut,
                 cached, refused, admitted>>

-----------------------------------------------------------------------------
(* HandleOAuthCallbackUseCase.  A linked identity signs its user in, be he *)
(* deleted or not.                                                         *)
FindByProviderIdentity(r) ==
  /\ Is(r, "oauth", "begin")
  /\ IF call[r].arg \in linked
     THEN call' = [call EXCEPT ![r].pc = "issue", ![r].version = Len(past)]
     ELSE Advance(r, "email")
  /\ UNCHANGED <<vars, person, passwd, mail, access>>

(* StartOAuthUseCase with the intent link: the password is asked for.      *)
StartLink(r) ==
  /\ Is(r, "link", "begin")
  /\ \E u \in FindById : u.password # 0
  /\ Advance(r, "callback")
  /\ UNCHANGED <<vars, person, passwd, mail, access>>

LinkToUser(r) ==
  /\ Is(r, "link", "callback")
  /\ Advance(r, IF call[r].arg \in linked THEN "idle" ELSE "account")
  /\ UNCHANGED <<vars, person, passwd, mail, access>>

(* An identity is linked once.                                             *)
CreateAccount(r) ==
  /\ call[r].pc = "account" /\ call[r].arg \notin linked
  /\ linked' = linked \cup {call[r].arg}
  /\ call' = [call EXCEPT ![r] = IF @.kind = "link" THEN NoCall
                                 ELSE [@ EXCEPT !.pc = "issue", !.version = Len(past)]]
  /\ UNCHANGED <<vars, exists, workspace, job, overtaken, overlapped, halfway,
                 passwd, mail, access>>

(* LoginUseCase.issueTokens.                                               *)
Open(v) ==
  sessions' = sessions \cup {[version |-> v, at |-> clock, late |-> v < Len(past)]}

OpenSession(r) ==
  /\ Is(r, "oauth", "issue")
  /\ Open(call[r].version)
  /\ Advance(r, "idle")
  /\ UNCHANGED <<vars, person, passwd, mail, clock, cut, cached,
                 changed, refused, admitted>>

(* UnlinkOAuthAccountUseCase.                                              *)
FindByIdAndUser(r) ==
  /\ Is(r, "unlink", "begin")
  /\ call[r].arg \in linked
  /\ Advance(r, "user")
  /\ UNCHANGED <<vars, person, passwd, mail, access>>

(* Faulty variant: the last identity may go.                               *)
CountAnything(r) ==
  /\ Is(r, "unlink", "count")
  /\ call' = [call EXCEPT ![r].seen = linked, ![r].pc = "delete"]
  /\ UNCHANGED <<vars, person, passwd, mail, access>>

CountRemaining(r) ==
  /\ Is(r, "unlink", "count")
  /\ call[r].user.password # 0 \/ Cardinality(linked) > 1
  /\ call' = [call EXCEPT ![r].seen = linked, ![r].pc = "delete"]
  /\ UNCHANGED <<vars, person, passwd, mail, access>>

DeleteAccount(r) ==
  /\ Is(r, "unlink", "delete") /\ call[r].arg \in linked
  /\ linked' = linked \ {call[r].arg}
  /\ overlapped' = (overlapped \/ call[r].seen # linked)
  /\ Advance(r, "idle")
  /\ UNCHANGED <<vars, exists, workspace, job, overtaken, halfway, passwd, mail, access>>

(* The row exists, and its workspace or its identity does not yet.         *)
SigningUp(r) == call[r].pc = "workspace" \/ Is(r, "oauth", "account")

(* A check fails, an await rejects, or the process stops.                  *)
Lose(r) ==
  /\ call[r].pc # "idle"
  /\ call[r].pc = "bump" => Cardinality(visible) < VisibleBound
  /\ disturbed' = (disturbed \/ (call[r].kind = "reset" /\ call[r].pc \in {"bump", "record"}))
  /\ halfway' = (halfway \/ SigningUp(r))
  /\ Advance(r, "idle")
  /\ UNCHANGED <<vars, exists, workspace, linked, job, overtaken, overlapped,
                 history, past, reused, mail, access>>

-----------------------------------------------------------------------------
(* A login reads the password with its row and opens its session for it.   *)
LookUp(r) ==
  /\ FindByEmail(r) /\ FoundIncludingDeleted
  /\ UNCHANGED acct

IssueTokens(r) ==
  /\ Issue(r)
  /\ IF "enabled" \in rq[r].saw
     THEN UNCHANGED sessions ELSE Open(rq[r].password)
  /\ UNCHANGED <<person, passwd, mail, clock, cut, cached, changed, refused,
                 admitted, call>>

Respond(r) ==
  /\ Reply(r)
  /\ IF rq[r].kind = "verify" THEN Open(rq[r].password) ELSE UNCHANGED sessions
  /\ UNCHANGED <<person, passwd, mail, clock, cut, cached, changed,
                 refused, admitted, call>>

Remove(r) == Delete(r) /\ exists = "yes" /\ UNCHANGED acct

RestoreUser(r) ==
  /\ Restore(r)
  /\ overtaken' = (overtaken \/ job = "selected" \/ exists = "anonymized")
  /\ UNCHANGED <<exists, workspace, linked, job, overlapped, halfway, passwd, mail,
                 access, call>>

-----------------------------------------------------------------------------
(* Faulty variant: the job takes users that are not deleted.               *)
SelectAnyone ==
  /\ Asked("anonymize") /\ job = "idle"
  /\ exists = "yes"
  /\ job' = "selected"
  /\ UNCHANGED <<vars, exists, workspace, linked, overtaken, overlapped, halfway,
                 passwd, mail, access, call>>

(* AnonymizeExpiredUsersUseCase, thirty days after the deletion.           *)
FindPendingAnonymization ==
  /\ Asked("anonymize") /\ job = "idle"
  /\ exists = "yes" /\ deleted
  /\ job' = "selected"
  /\ UNCHANGED <<vars, exists, workspace, linked, overtaken, overlapped, halfway,
                 passwd, mail, access, call>>

Anonymize ==
  /\ job = "selected" /\ job' = "bump"
  /\ exists' = "anonymized"
  /\ sessions' = {} /\ linked' = {} /\ tokens' = {}
  /\ UpdateUser([enabled |-> FALSE, secret |-> Null, codes |-> {},
                 verified |-> FALSE, password |-> 0])
  /\ UNCHANGED <<but_row, workspace, overtaken, overlapped, halfway, passwd, issued,
                 gone, clock, cut, cached, changed, refused, admitted,
                 call>>

BumpAnonymized ==
  /\ job = "bump" /\ job' = "idle"
  /\ visible' = Bumped /\ cached' = Null
  /\ UNCHANGED <<row, but_row, exists, workspace, linked, overtaken, overlapped, halfway,
                 passwd, mail, sessions, clock, cut, changed, refused,
                 admitted, call>>

(* A job that fails is tried again.                                        *)
JobFails ==
  /\ job # "idle" /\ job' = "idle"
  /\ UNCHANGED <<vars, exists, workspace, linked, overtaken, overlapped, halfway,
                 passwd, mail, access, call>>

(* An hour or a day passes.                                                *)
Expire ==
  /\ Asked("expire")
  /\ \E t \in tokens : tokens' = (tokens \ {t}) \cup {[t EXCEPT !.expired = TRUE]}
  /\ UNCHANGED <<vars, person, passwd, issued, gone, access, call>>

(* CleanupExpiredTokensUseCase, one table after the other.                 *)
DeleteExpired ==
  /\ \E f \in {"reset", "verify"} : tokens' = {t \in tokens : t.for # f \/ ~t.expired}
  /\ UNCHANGED <<vars, person, passwd, issued, gone, access, call>>

Tick ==
  /\ Asked("tick") /\ clock < ClockBound /\ clock' = clock + 1
  /\ UNCHANGED <<vars, person, passwd, mail, sessions, cut, cached,
                 changed, refused, admitted, call>>

(* Faulty variant: the issue time is rounded up.                           *)
IssuedAtUp(s) == s.at + (s.at % 2)

(* The issue time of a token is in whole seconds.                          *)
IssuedAt(s) == s.at - (s.at % 2)

(* What JwtStrategy.validate asks after the session (see AuthSessions).  A *)
(* cached cut-off is a string, whose getTime is no function: the request   *)
(* is refused.  A miss reads the row and keeps its date.                   *)
FindTokensInvalidatedAt == cached' = IF cached = Null THEN cut ELSE cached

UseToken ==
  /\ Asked("use")
  /\ \E s \in sessions :
       LET fresh == cut = Null \/ IssuedAt(s) >= cut
       IN /\ admitted' = (admitted \/ (cached = Null /\ fresh /\ cut # Null /\ s.at < cut))
          /\ refused' = (refused \/ (cached # Null /\ fresh))
  /\ FindTokensInvalidatedAt
  /\ UNCHANGED <<vars, person, passwd, mail, sessions, clock, cut,
                 changed, call>>

-----------------------------------------------------------------------------
AccountStep(r) ==
  \/ Login(r) /\ UNCHANGED acct
  \/ WrongPassword(r) /\ UNCHANGED acct
  \/ RightPassword(r) /\ UNCHANGED acct
  \/ CountFailure(r) /\ UNCHANGED acct
  \/ LockAccount(r) /\ UNCHANGED acct
  \/ ResetFailures(r) /\ UNCHANGED acct
  \/ Check(r) /\ UNCHANGED acct
  \/ SetSecret(r) /\ UNCHANGED acct
  \/ TurnOn(r) /\ UNCHANGED acct
  \/ TurnOff(r) /\ UNCHANGED acct
  \/ ConsumeCode(r) /\ UNCHANGED acct
  \/ BumpUsers(r) /\ UNCHANGED acct
  \/ Verify(r) /\ UNCHANGED acct
  \/ Fail(r) /\ UNCHANGED acct
  \/ Bearer /\ Ask(r) /\ UNCHANGED acct
  \/ Remove(r)
  \/ LookUp(r) \/ IssueTokens(r) \/ Respond(r) \/ RestoreUser(r)
  \/ Register(r) \/ CreateByAdmin(r) \/ Resend(r) \/ Forgot(r) \/ VerifyEmail(r)
  \/ Reset(r) \/ Callback(r) \/ Link(r) \/ Unlink(r) \/ Invalidate(r)
  \/ FindFree(r) \/ CreateUser(r) \/ CreateWorkspace(r) \/ RequestEmailVerification(r)
  \/ ForgotPassword(r) \/ DeletePending(r) \/ CreateToken(r) \/ FindToken(r)
  \/ ReadUser(r) \/ ChoosePassword(r) \/ SetPassword(r) \/ MarkVerified(r) \/ Bump(r)
  \/ RecordPassword(r) \/ InvalidateTokens(r) \/ MarkUsed(r) \/ RevokeAllForUser(r)
  \/ Answer(r) \/ FindByProviderIdentity(r) \/ StartLink(r) \/ LinkToUser(r)
  \/ CreateAccount(r) \/ OpenSession(r) \/ FindByIdAndUser(r) \/ CountRemaining(r)
  \/ DeleteAccount(r) \/ Lose(r)

AccountNext ==
  \/ LockEnds /\ UNCHANGED acct
  \/ FindPendingAnonymization \/ Anonymize \/ BumpAnonymized \/ JobFails
  \/ Expire \/ DeleteExpired \/ Tick \/ UseToken
  \/ \E r \in Requests : AccountStep(r)

AccountSpec == AccountInit /\ [][AccountNext]_all

-----------------------------------------------------------------------------
(* An answered reset ends the sessions opened with an older password,      *)
(* except those of a sign-in that had read it before the reset changed it  *)
(* and issued its session afterwards.                                      *)
ResetEndsSessions == \A s \in sessions : s.version >= changed \/ s.late

(* A token that was answered as used, or replaced by an answered request   *)
(* for a new one, gets no later request past the look-up.                  *)
SpentToken == \A r \in Requests : call[r].late => call[r].pc \in {"idle", "begin"}

(* A reset takes none of the last HistorySize passwords, unless resets     *)
(* overlapped, one overtook the anonymization, or one died between the new *)
(* password and the record of the old one.                                 *)
NoReuse == ~reused

(* An account always has a workspace and a way to sign in, unless its      *)
(* sign-up is under way or died half-way, or two unlinks overlapped.       *)
SignUpWhole ==
  exists = "yes" =>
    \/ workspace /\ (row.password # 0 \/ linked # {} \/ overlapped)
    \/ halfway \/ \E r \in Requests : SigningUp(r)

(* Only a deleted account is anonymized, unless a login restored it after  *)
(* the job had selected it.                                                *)
LiveIsKept == exists = "anonymized" => deleted \/ overtaken

(* No access token from before the cut-off is admitted, though both have   *)
(* different resolutions.                                                  *)
CutoffHolds == ~admitted

(* test/admin-invalidate-tokens.e2e-spec.ts:99: after an invalidation a    *)
(* "new login works": a token issued after the cut-off is admitted.        *)
NewLoginWorks == ~refused
=============================================================================
