-------------------------------- MODULE SignIn --------------------------------
(***************************************************************************)
(* One account that has a password: the login with its failure counter and *)
(* lock, the second factor (set up, turn on, verify, turn off) and the     *)
(* recovery codes.  Every request is a sequence of awaits, so any number of them    *)
(* interleave between the statements.                                      *)
(*                                                                         *)
(* A login reads the row itself; all 2FA requests read it through the      *)
(* cache (users.findById).  visible holds the rows such a read may return: *)
(* those between the last bump and now (see FreshStore).  The bumps of the *)
(* login's own writes only make it smaller and are left out.               *)
(*                                                                         *)
(* Abstractions.  The right password is known to whoever answers           *)
(* RightPassword and is not modelled.  A TOTP code is the secret it was    *)
(* made from.  Secrets and recovery codes are fresh when they are made.    *)
(***************************************************************************)
EXTENDS Naturals, FiniteSets

CONSTANTS Requests,    \* the requests in flight; each serves one after another
          Null,
          Secrets,     \* TOTP secrets
          Batches,     \* a batch of recovery codes is made when 2FA is turned on
          MaxFailed,   \* MAX_FAILED_LOGIN_ATTEMPTS
          Offers,      \* bound: what is asked for, see offered
          FailedBound, \* bound: a lock ends only with at most so many failures
          VisibleBound,\* bound: a bump is lost only with fewer visible rows
          CrashBound   \* bound: guesses that are never counted or never lock

Kinds == {"login", "guess", "delete", "setup", "enable", "disable", "verify"}
Codes == Batches \X {1, 2}   \* bound: two of RECOVERY_CODE_COUNT = 10

ASSUME SignInAssumption ==
  /\ MaxFailed \in Nat \ {0} /\ FailedBound \in Nat /\ CrashBound \in Nat
  /\ VisibleBound \in Nat
  /\ IsFiniteSet(Requests)
  /\ Null \notin Secrets \cup Codes \cup Kinds
  /\ \A O \in Offers : O \subseteq Requests \X STRING

VARIABLES offered,  \* bound: who may ask for what in this behaviour
          row,      \* the User row: what its updates overwrite
          visible,  \* the rows a cached read may return
          deleted,  \* User.deletedAt is set
          failed,   \* User.failedLoginAttempts
          locked,   \* User.lockedUntil: null, in the future, or past
          challenge,\* the passwords challenge tokens were signed for
          rq,       \* [Requests -> the local state of a request]
          guesses,  \* history: wrong passwords since the last reset or lock end
          base,     \* history: the counter at that time
          crashes,  \* history: guesses whose request died before it was done
          made,     \* history: secrets and batches that were made
          confirmed,\* history: secrets of which enable saw a code
          spent,    \* history: codes whose use, or whose disabling, was answered
          stale     \* history: a 2FA write overwrote what its request had not read

lockout == <<failed, locked, guesses, base, crashes>>
factor == <<row, visible, deleted, made, confirmed, spent, stale>>
vars == <<offered, lockout, factor, challenge, rq>>

Row == [enabled : BOOLEAN, secret : Secrets \cup {Null}, codes : SUBSET Codes,
        verified : BOOLEAN,
        password : Nat]   \* which of the passwords it had, 0 if none

Request ==
  [pc     : {"idle", "compare", "count", "lock", "restore", "reset", "issue",
             "begin", "write", "bump", "reply"},
   kind   : {"login", "setup", "enable", "disable", "verify", Null},
   user   : Row \cup {Null},               \* the row it read
   saw    : SUBSET {"deleted", "verified", "failures", "enabled"}, \* login: its row
   password : Nat,                         \* the one the sign-in began with
   code   : Codes \cup {Null},             \* verify: the recovery code
   late   : BOOLEAN]                       \* history: the code was spent before

NoRequest == [pc |-> "idle", kind |-> Null, user |-> Null, saw |-> {},
              password |-> 0, code |-> Null, late |-> FALSE]

TypeOK ==
  /\ offered \in Offers
  /\ row \in Row /\ visible \subseteq Row /\ deleted \in BOOLEAN
  /\ ~deleted => row \in visible
  /\ failed \in Nat /\ locked \in {"no", "on", "past"}
  /\ guesses \in Nat /\ crashes \in Nat /\ base \in 0..failed
  /\ challenge \subseteq Nat /\ stale \in BOOLEAN
  /\ rq \in [Requests -> Request]
  /\ \A r \in Requests : rq[r].pc # "idle" => rq[r].kind # Null
  /\ made \subseteq Secrets \cup Batches
  /\ confirmed \subseteq made /\ spent \subseteq Codes

Init ==
  /\ offered \in Offers
  /\ \E v \in BOOLEAN :
       row = [enabled |-> FALSE, secret |-> Null, codes |-> {},
              verified |-> v, password |-> 1]
  /\ visible = {row} /\ deleted = FALSE
  /\ failed = 0 /\ locked = "no" /\ challenge = {}
  /\ guesses = 0 /\ base = 0 /\ crashes = 0
  /\ made = {} /\ confirmed = {} /\ spent = {} /\ stale = FALSE
  /\ rq = [r \in Requests |-> NoRequest]

-----------------------------------------------------------------------------
At(r, l) == rq[r].pc = l
Goto(r, l) == rq' = [rq EXCEPT ![r] = IF l = "idle" THEN NoRequest
                                      ELSE [@ EXCEPT !.pc = l]]

(* A challenge may be used again until it expires: whether it has is left  *)
(* open, as a Fail.                                                        *)
SignChallengeToken(r) == challenge' = challenge \cup {rq[r].password}
VerifyChallengeToken == challenge

Begin(r, k, c, v) ==
  /\ At(r, "idle") /\ <<r, k>> \in offered
  /\ rq' = [rq EXCEPT ![r] = [NoRequest EXCEPT !.pc = "begin", !.kind = k,
                                               !.code = c, !.password = v,
                                               !.late = c \in spent]]
  /\ UNCHANGED <<lockout, factor, offered, challenge>>

(* The endpoints: login, those that need a session, and verify, which      *)
(* needs a challenge and a recovery code or (Null) a TOTP code.            *)
Login(r) == Begin(r, "login", Null, 0)

Ask(r) == \E k \in {"setup", "enable", "disable"} : Begin(r, k, Null, 0)

Verify(r) ==
  \E v \in VerifyChallengeToken, c \in {Null} \cup {d \in Codes : d[1] \in made} :
    Begin(r, "verify", c, v)

-----------------------------------------------------------------------------
(* LoginUseCase.  It reads past the cache, deleted rows too; no password,  *)
(* or a lock in the future, refuses.                                       *)
FindByEmail(r) ==
  /\ At(r, "begin") /\ rq[r].kind = "login"
  /\ row.password # 0 /\ locked # "on"
  /\ rq' = [rq EXCEPT ![r].pc = "compare", ![r].password = row.password,
               ![r].saw = {s \in {"deleted", "verified", "failures", "enabled"} :
                             CASE s = "deleted"  -> deleted
                               [] s = "verified" -> row.verified
                               [] s = "failures" -> failed > 0 \/ locked # "no"
                               [] s = "enabled"  -> row.enabled}]
  /\ UNCHANGED <<lockout, factor, offered, challenge>>

WrongPassword(r) ==
  /\ At(r, "compare") /\ <<r, "guess">> \in offered
  /\ guesses' = guesses + 1
  /\ Goto(r, "count")
  /\ UNCHANGED <<failed, locked, base, crashes, factor, offered, challenge>>

(* What follows the right password, and a restore: an unverified address   *)
(* is refused, and the counter is reset if the row that was read asks so.  *)
Proceed(r) == IF "verified" \notin rq[r].saw THEN "idle"
              ELSE IF "failures" \in rq[r].saw THEN "reset" ELSE "issue"

RightPassword(r) ==
  /\ At(r, "compare")
  /\ Goto(r, IF "deleted" \in rq[r].saw THEN "restore" ELSE Proceed(r))
  /\ UNCHANGED <<lockout, factor, offered, challenge>>

(* The database adds, and returns the sum.                                 *)
IncrementFailedLoginAttempts == failed' = failed + 1

(* Faulty variant: a login that saw no failures sets the counter to one.   *)
CountLostUpdate(r) ==
  /\ At(r, "count")
  /\ failed' = IF "failures" \in rq[r].saw THEN failed + 1 ELSE 1
  /\ Goto(r, IF failed' >= MaxFailed THEN "lock" ELSE "idle")
  /\ UNCHANGED <<locked, guesses, base, crashes, factor, offered, challenge>>

CountFailure(r) ==
  /\ At(r, "count")
  /\ IncrementFailedLoginAttempts
  /\ Goto(r, IF failed' >= MaxFailed THEN "lock" ELSE "idle")
  /\ UNCHANGED <<locked, guesses, base, crashes, factor, offered, challenge>>

ResetFailedLoginAttempts == failed' = 0 /\ locked' = "no"

LockAccount(r) ==
  /\ At(r, "lock")
  /\ locked' = "on"
  /\ Goto(r, "idle")
  /\ UNCHANGED <<failed, guesses, base, crashes, factor, offered, challenge>>

ResetFailures(r) ==
  /\ At(r, "reset")
  /\ ResetFailedLoginAttempts
  /\ guesses' = 0 /\ base' = 0
  /\ Goto(r, "issue")
  /\ UNCHANGED <<crashes, factor, offered, challenge>>

(* A challenge, or (see AuthSessions) a session.                           *)
Issue(r) ==
  /\ At(r, "issue")
  /\ IF "enabled" \in rq[r].saw THEN SignChallengeToken(r) ELSE UNCHANGED challenge
  /\ Goto(r, "idle")
  /\ UNCHANGED <<lockout, factor, offered>>

(* Fifteen minutes later.  The counter stays.                              *)
LockEnds ==
  /\ locked = "on"
  /\ failed <= FailedBound
  /\ locked' = "past"
  /\ guesses' = 0 /\ base' = failed
  /\ UNCHANGED <<failed, crashes, factor, offered, challenge, rq>>

-----------------------------------------------------------------------------
(* Every write of the row may be seen at once and hides the older rows     *)
(* only when its bump of the users namespace follows.                      *)
UpdateUser(new) ==
  /\ row' = new
  /\ visible' = IF deleted THEN visible ELSE visible \cup {new}

Bumped == IF deleted THEN {} ELSE {row}

TwoFactor(u) == <<u.enabled, u.secret, u.codes>>

Write(r, new) ==
  /\ UpdateUser(new)
  /\ stale' = (stale \/ TwoFactor(rq[r].user) # TwoFactor(row))
  /\ rq' = [rq EXCEPT ![r].pc = "bump",
                      ![r].user = IF rq[r].kind = "disable" THEN @ ELSE Null]
  /\ UNCHANGED <<deleted, spent, lockout, offered, challenge>>

(* The password was right: the row may be seen again.                      *)
Restore(r) ==
  /\ At(r, "restore")
  /\ deleted' = FALSE
  /\ visible' = visible \cup {row}
  /\ Goto(r, "bump")
  /\ UNCHANGED <<row, lockout, offered, challenge, made, confirmed, spent, stale>>

(* users.findById, through the cache; no row is a Fail.                    *)
FindById == visible

(* Faulty variant: a setup does not ask whether 2FA is on.                 *)
CanSetupAnytime(u) == u \in Row

(* What each use case asks of the row it read.  TOTP codes and passwords   *)
(* may be wrong, which is a Fail.                                          *)
CanSetup(u) == ~u.enabled
CanEnable(u) == ~u.enabled /\ u.secret # Null
CanDisable(u) == u.enabled /\ u.secret # Null
CanVerify(u, c) == u.enabled /\ u.secret # Null /\ c \in {Null} \cup u.codes

(* The cached read and the checks, up to the write.                        *)
Check(r) ==
  /\ At(r, "begin") /\ rq[r].kind # "login"
  /\ \E u \in FindById :
       /\ CASE rq[r].kind = "setup"   -> CanSetup(u)
            [] rq[r].kind = "enable"  -> CanEnable(u)
            [] rq[r].kind = "disable" -> CanDisable(u)
            [] rq[r].kind = "verify"  -> CanVerify(u, rq[r].code)
       /\ IF rq[r].kind = "verify" /\ rq[r].code = Null
          THEN Goto(r, "reply")
          ELSE rq' = [rq EXCEPT ![r].user = u, ![r].pc = "write"]
       /\ confirmed' = confirmed \cup IF rq[r].kind = "enable" THEN {u.secret} ELSE {}
  /\ UNCHANGED <<lockout, row, visible, deleted, made, spent, stale, offered, challenge>>

GenerateRecoveryCodes(b) == {b} \X {1, 2}
ConsumeRecoveryCode(stored, plain) == stored \ {plain}

SetSecret(r) ==
  /\ At(r, "write") /\ rq[r].kind = "setup"
  /\ \E s \in Secrets \ made :
       /\ Write(r, [row EXCEPT !.secret = s])
       /\ made' = made \cup {s}
  /\ UNCHANGED confirmed

TurnOn(r) ==
  /\ At(r, "write") /\ rq[r].kind = "enable"
  /\ \E b \in Batches \ made :
       /\ Write(r, [row EXCEPT !.enabled = TRUE, !.codes = GenerateRecoveryCodes(b)])
       /\ made' = made \cup {b}
  /\ UNCHANGED confirmed

TurnOff(r) ==
  /\ At(r, "write") /\ rq[r].kind = "disable"
  /\ Write(r, [row EXCEPT !.enabled = FALSE, !.secret = Null, !.codes = {}])
  /\ UNCHANGED <<made, confirmed>>

(* The list that was read is shortened and written back.                   *)
ConsumeCode(r) ==
  /\ At(r, "write") /\ rq[r].kind = "verify"
  /\ Write(r, [row EXCEPT !.codes = ConsumeRecoveryCode(rq[r].user.codes, rq[r].code)])
  /\ UNCHANGED <<made, confirmed>>

(* Faulty variant: the version of the users namespace is left as it is.    *)
BumpNothing(r) ==
  /\ At(r, "bump")
  /\ Goto(r, IF rq[r].kind = "login" THEN Proceed(r) ELSE "reply")
  /\ UNCHANGED <<lockout, factor, offered, challenge>>

(* @InvalidateCache(users).                                                *)
BumpUsers(r) ==
  /\ At(r, "bump")
  /\ visible' = Bumped
  /\ Goto(r, IF rq[r].kind = "login" THEN Proceed(r) ELSE "reply")
  /\ UNCHANGED <<lockout, row, deleted, made, confirmed, spent, stale, offered, challenge>>

Reply(r) ==
  /\ At(r, "reply")
  /\ spent' = CASE rq[r].kind = "verify" -> spent \cup ({rq[r].code} \cap Codes)
                [] rq[r].kind = "disable" -> spent \cup rq[r].user.codes
                [] OTHER -> spent
  /\ Goto(r, "idle")
  /\ UNCHANGED <<lockout, row, visible, deleted, made, confirmed, stale, offered, challenge>>

(* A check fails, an await rejects, or the process stops.                  *)
Fail(r) ==
  /\ rq[r].pc # "idle"
  /\ At(r, "count") \/ At(r, "lock") => crashes < CrashBound
  /\ At(r, "bump") => Cardinality(visible) < VisibleBound
  /\ crashes' = IF At(r, "count") \/ At(r, "lock") THEN crashes + 1 ELSE crashes
  /\ Goto(r, "idle")
  /\ UNCHANGED <<failed, locked, guesses, base, factor, offered, challenge>>

-----------------------------------------------------------------------------
(* DeleteUserUseCase.  The bump that follows only makes visible smaller.   *)
Delete(r) ==
  /\ <<r, "delete">> \in offered
  /\ ~deleted /\ deleted' = TRUE
  /\ UNCHANGED <<lockout, row, visible, made, confirmed, spent, stale, offered, challenge, rq>>

Step(r) ==
  \/ Login(r) \/ FindByEmail(r) \/ WrongPassword(r) \/ RightPassword(r)
  \/ CountFailure(r) \/ LockAccount(r) \/ ResetFailures(r) \/ Issue(r)
  \/ Restore(r) \/ Ask(r) \/ Verify(r) \/ Check(r)
  \/ SetSecret(r) \/ TurnOn(r) \/ TurnOff(r) \/ ConsumeCode(r)
  \/ BumpUsers(r) \/ Reply(r) \/ Fail(r) \/ Delete(r)

Next == LockEnds \/ \E r \in Requests : Step(r)

Spec == Init /\ [][Next]_vars

-----------------------------------------------------------------------------
(* What the counter has left: one guess when it has reached the maximum.   *)
Left == IF base < MaxFailed THEN MaxFailed - base ELSE 1

(* However logins interleave, the password is guessed at most MaxFailed    *)
(* times between resets, and once after a lock that ended without one,     *)
(* give or take the logins that were in flight when the lock was set and   *)
(* those that died before they had counted.                                *)
GuessesBounded == guesses <= Left + (Cardinality(Requests) - 1) + crashes

(* 2FA that is on has a secret of which enable saw a code, unless a        *)
(* request wrote over a row it had not read.                               *)
SecretConfirmed == ~stale /\ row.enabled => row.secret \in confirmed

(* A recovery code whose sign-in was answered, or whose 2FA was turned     *)
(* off, is not accepted again, unless a list was written over a newer one. *)
SpentCode == ~stale => \A r \in Requests : rq[r].late => rq[r].pc = "begin"
=============================================================================
