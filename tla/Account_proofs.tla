---------------------------- MODULE Account_proofs ----------------------------
(***************************************************************************)
(* Theorems about Account and the SignIn it is composed with: how often a  *)
(* password can be guessed, what 2FA that is on has seen, that a recovery  *)
(* code and an e-mailed token work once, what a reset ends, and what may   *)
(* be anonymized, for any number of requests, secrets, codes, tokens and   *)
(* identities.                                                             *)
(***************************************************************************)
EXTENDS Account, FiniteSetTheorems, SequenceTheorems, TLAPS

(* Where guesses are: before the comparison, the counter and the lock.     *)
InPlace(p) == {r \in Requests : rq[r].pc = p}
Waiting(p) == Cardinality(InPlace(p))

(* A guess has been counted, or will be, or died; a counter that reached   *)
(* the maximum has locked the account, or will, or died.  Once it is       *)
(* locked only those guess that were past the look-up.                     *)
GuessInv ==
  /\ \E a, b \in Nat :
       /\ a + b = crashes
       /\ guesses <= (failed - base) + Waiting("count") + a
       /\ locked # "on" => failed - base <= (Left - 1) + Waiting("lock") + b
  /\ locked = "on" => guesses + Waiting("compare") <= (Left - 1) + Cardinality(Requests) + crashes

(* What may be read of the row was made, and is not spent.                 *)
RowInv(u) ==
  /\ u.secret # Null => u.secret \in made
  /\ \A c \in u.codes : c[1] \in made
  /\ ~stale => u.codes \cap spent = {}

LoginPlaces == {"compare", "count", "lock", "restore", "reset", "issue"}

(* What a request knows: of the row it read, and of its code.              *)
KnowsInv(r) ==
  /\ rq[r].pc \in LoginPlaces => rq[r].kind = "login"
  /\ rq[r].kind # "verify" => rq[r].code = Null
  /\ rq[r].pc = "write" => rq[r].kind # "login"
  /\ rq[r].pc = "write" \/ (rq[r].kind = "disable" /\ rq[r].pc \in {"bump", "reply"}) =>
       rq[r].user \in Row /\ \A c \in rq[r].user.codes : c[1] \in made
  /\ rq[r].code # Null => rq[r].code[1] \in made
  /\ rq[r].pc = "write" =>
       CASE rq[r].kind = "setup"   -> ~rq[r].user.enabled
         [] rq[r].kind = "enable"  -> rq[r].user.secret \in confirmed
         [] OTHER -> TRUE

(* The way of a code out of the table and the cache.                       *)
Taken(r) == CASE rq[r].kind = "verify" -> {rq[r].code} \cap Codes
              [] rq[r].kind = "disable" -> rq[r].user.codes
              [] OTHER -> {}
CodeInv(r) ==
  /\ rq[r].late => rq[r].code \in spent
  /\ ~stale =>
       /\ rq[r].late => rq[r].pc = "begin"
       /\ rq[r].pc = "bump" => Taken(r) \cap row.codes = {}
       /\ rq[r].pc = "reply" => \A u \in visible \cup {row} : Taken(r) \cap u.codes = {}

FactorInv ==
  /\ \A u \in visible \cup {row} : RowInv(u)
  /\ \A c \in spent : c[1] \in made
  /\ \A r \in Requests : KnowsInv(r) /\ CodeInv(r)
  /\ SecretConfirmed

SignInInv == TypeOK /\ GuessInv /\ FactorInv

-----------------------------------------------------------------------------
(* Where each kind of call can be.                                         *)
Place(k, p) ==
  /\ p # "idle" => k # Null
  /\ p \in {"pending", "token"} => k \in {"register", "resend", "forgot"}
  /\ p = "ask" => k = "register"
  /\ p \in {"create", "workspace"} => k \in {"register", "create", "oauth"}
  /\ p \in {"email", "issue"} => k = "oauth"
  /\ p = "callback" => k = "link"
  /\ p = "user" => k \in {"reset", "unlink"}
  /\ p \in {"write", "bump", "mark"} => k \in {"reset", "verifyEmail"}
  /\ p \in {"recent", "record", "cut"} => k = "reset"
  /\ p \in {"count", "delete"} => k = "unlink"
  /\ p \in {"fresh", "revoke"} => k \in {"reset", "invalidate"}
  /\ p = "account" => k \in {"oauth", "link"}
  /\ p = "answer" => k \in {"register", "resend", "forgot", "reset", "verifyEmail", "invalidate"}

(* What a token needs to be found is gone from the answer that spent it.   *)
MailCall(c) ==
  /\ c.late => c.arg \in gone /\ c.kind \in {"reset", "verifyEmail"} /\ c.pc = "begin"
  /\ c.kind \in {"reset", "verifyEmail"} => c.arg \in 1..issued
  /\ c.old \subseteq 1..issued
  /\ c.kind \notin {"register", "resend", "forgot"} => c.old = {}
  /\ \A t \in tokens : t.id \in c.old => t.for = For(c.kind)
  /\ c.pc \in {"token", "answer"} => \A t \in tokens : t.id \in c.old => t.used
  /\ c.pc \in {"revoke", "answer"} /\ c.kind \in {"reset", "verifyEmail"} =>
       \A t \in tokens : t.id = c.arg => t.used

(* A session is as new as the resets about to be answered, or late.        *)
Outlives(v) == \A s \in sessions : s.version >= v \/ s.late
VersionCall(c) ==
  /\ c.version <= Len(past)
  /\ c.version # 0 => c.kind \in {"reset", "oauth"}
  /\ c.pc = "answer" => Outlives(c.version)

(* The calls that have read the user's row.                                *)
HasRead(c) ==
  \/ c.kind = "reset" /\ c.pc \in {"recent", "write", "bump", "record"}
  \/ c.kind = "unlink" /\ c.pc \in {"count", "delete"}
PastCall(c) == HasRead(c) => c.user \in Row /\ c.user.password <= Len(past)

(* A sign-up leaves what it has made, an unlink what it has counted.       *)
WholeCall(c) ==
  /\ c.kind \in {"oauth", "link"} => c.arg \in Identities
  /\ c.kind = "oauth" /\ c.pc = "account" => workspace
  /\ c.kind # "oauth" /\ c.pc = "workspace" => Len(past) # 0
  /\ c.kind = "unlink" /\ c.pc = "delete" => c.user.password # 0 \/ Cardinality(c.seen) > 1

CallInv(c) ==
  /\ c.pc = "idle" => c = NoCall
  /\ Place(c.kind, c.pc) /\ MailCall(c) /\ VersionCall(c) /\ PastCall(c) /\ WholeCall(c)

-----------------------------------------------------------------------------
(* Before the account exists nothing of it does.                           *)
NobodyCalls(c) ==
  /\ c.kind \in {"register", "create", "forgot", "oauth", "invalidate", Null}
  /\ c.pc \in {"idle", "begin", "create", "email", "fresh", "revoke", "answer"}
  /\ c.version = 0
NobodySignsIn(q) == q.pc \in {"idle", "begin"} /\ q.kind \in {"login", Null}
NobodyYet ==
  exists = "no" =>
    /\ past = <<>> /\ history = <<>> /\ issued = 0 /\ changed = 0
    /\ linked = {} /\ sessions = {} /\ challenge = {}
    /\ \A r \in Requests : NobodyCalls(call[r]) /\ NobodySignsIn(rq[r])

TokensInv == \A t \in tokens : t.id <= issued /\ (t.id \in gone => t.used)

(* What the job selected is deleted, or was restored since.                *)
LifeInv ==
  /\ LiveIsKept
  /\ job = "selected" => deleted \/ overtaken
  /\ job # "idle" => exists # "no"

(* The row holds the newest password.                                      *)
RowPast ==
  /\ exists # "no" => \A u \in visible \cup {row} : u.password <= Len(past)
  /\ exists = "yes" => row.password = Len(past)

(* The history holds the passwords before the newest, and lacks one while  *)
(* a reset is recording.  No other reset that read the newest is about to  *)
(* write then, and what one is about to write is not recent.               *)
Kept(n) == IF n = 0 THEN 0 ELSE IF n < HistorySize THEN n - 1 ELSE HistorySize - 1
HistoryIs(n) ==
  n \in Nat /\ Len(history) = Kept(n) /\ \A i \in 1..Kept(n) : history[i] = n - i
Recorder(c) == c.kind = "reset" /\ c.pc \in {"bump", "record"}
Writer(c) == c.kind = "reset" /\ c.pc = "write"
HistoryInv ==
  ~disturbed /\ exists = "yes" =>
    /\ (\A q \in Requests : ~Recorder(call[q])) => HistoryIs(Len(past))
    /\ \A q \in Requests : Recorder(call[q]) =>
         /\ HistoryIs(Len(past) - 1)
         /\ call[q].user.password = Len(past) - 1
         /\ \A p \in Requests : Recorder(call[p]) => p = q
    /\ \A q \in Requests : Writer(call[q]) /\ call[q].user.password = Len(past) =>
         /\ \A p \in Requests : ~Recorder(call[p])
         /\ call[q].password \notin Recent

(* The types, by the groups the actions leave unchanged.                   *)
PersonOK ==
  /\ exists \in {"no", "yes", "anonymized"} /\ workspace \in BOOLEAN
  /\ linked \subseteq Identities /\ job \in {"idle", "selected", "bump"}
  /\ overtaken \in BOOLEAN /\ overlapped \in BOOLEAN /\ halfway \in BOOLEAN
PasswordOK ==
  /\ past \in Seq(Nat) /\ Len(past) <= PasswordBound
  /\ history \in Seq(1..Len(past)) /\ Len(history) <= HistorySize - 1
  /\ disturbed \in BOOLEAN /\ reused \in BOOLEAN
MailOK ==
  /\ tokens \subseteq Token /\ issued \in 0..TokenBound /\ gone \subseteq 1..issued
  /\ \A t, u \in tokens : t.id = u.id => t = u
AccessOK ==
  /\ sessions \subseteq Session
  /\ clock \in 0..ClockBound /\ cut \in 0..ClockBound \cup {Null}
  /\ cached \in 0..ClockBound \cup {Null}
  /\ changed \in 0..Len(past) /\ refused \in BOOLEAN /\ admitted \in BOOLEAN
CallOK == call \in [Requests -> Call]

AccountInv ==
  /\ SignInInv /\ PersonOK /\ PasswordOK /\ MailOK /\ AccessOK /\ CallOK
  /\ \A r \in Requests : CallInv(call[r])
  /\ NobodyYet /\ TokensInv /\ Outlives(changed) /\ LifeInv /\ RowPast /\ SignUpWhole
  /\ HistoryInv /\ NoReuse /\ CutoffHolds

-----------------------------------------------------------------------------
(* Counting the requests of a place.                                       *)
LEMMA WaitingType ==
  ASSUME NEW p PROVE IsFiniteSet(InPlace(p)) /\ Waiting(p) \in Nat
<1>1. InPlace(p) \subseteq Requests
  BY DEF InPlace
<1>2. QED BY <1>1, FS_Subset, FS_CardinalityType, SignInAssumption DEF Waiting

LEMMA WaitingStep ==
  ASSUME NEW r \in Requests, NEW CONSTANT p,
         \A q \in Requests \ {r} : rq'[q].pc = rq[q].pc
  PROVE  /\ Waiting(p) \in Nat /\ Waiting(p)' \in Nat
         /\ Waiting(p)' = IF rq'[r].pc = p
                          THEN IF rq[r].pc = p THEN Waiting(p) ELSE Waiting(p) + 1
                          ELSE IF rq[r].pc = p THEN Waiting(p) - 1 ELSE Waiting(p)
<1>1. IsFiniteSet(InPlace(p)) /\ Waiting(p) \in Nat
  BY WaitingType
<1>2. CASE rq'[r].pc = p
  <2>1. InPlace(p)' = InPlace(p) \cup {r}
    BY <1>2 DEF InPlace
  <2>2. r \in InPlace(p) <=> rq[r].pc = p
    BY DEF InPlace
  <2>3. Cardinality(InPlace(p) \cup {r}) = IF r \in InPlace(p) THEN Cardinality(InPlace(p))
                                          ELSE Cardinality(InPlace(p)) + 1
    BY <1>1, FS_AddElement
  <2>4. QED BY <1>1, <1>2, <2>1, <2>2, <2>3 DEF Waiting
<1>3. CASE rq'[r].pc # p
  <2>1. InPlace(p)' = InPlace(p) \ {r}
    BY <1>3 DEF InPlace
  <2>2. r \in InPlace(p) <=> rq[r].pc = p
    BY DEF InPlace
  <2>3. IsFiniteSet(InPlace(p) \ {r}) /\ Cardinality(InPlace(p) \ {r}) \in Nat
    BY <1>1, FS_RemoveElement, FS_CardinalityType
  <2>4. Cardinality(InPlace(p) \ {r}) = IF r \in InPlace(p) THEN Cardinality(InPlace(p)) - 1
                                        ELSE Cardinality(InPlace(p))
    BY <1>1, FS_RemoveElement
  <2>5. QED BY <1>1, <1>3, <2>1, <2>2, <2>3, <2>4 DEF Waiting
<1>4. QED BY <1>2, <1>3

(* A request is in one place.                                              *)
LEMMA WaitingSum ==
  /\ Cardinality(Requests) \in Nat
  /\ Waiting("compare") + Waiting("count") + Waiting("lock") <= Cardinality(Requests)
<1> DEFINE A == InPlace("compare")
           B == InPlace("count")
           C == InPlace("lock")
<1>1. /\ A \cup B \cup C \subseteq Requests /\ A \cap B = {} /\ (A \cup B) \cap C = {}
      /\ IsFiniteSet(Requests)
  BY SignInAssumption DEF InPlace
<1>2. IsFiniteSet(A) /\ IsFiniteSet(B) /\ IsFiniteSet(C)
  BY WaitingType
<1> HIDE DEF A, B, C
<1>3. IsFiniteSet(A \cup B) /\ Cardinality(A \cup B) = Cardinality(A) + Cardinality(B) - 0
  BY <1>1, <1>2, FS_Union, FS_EmptySet
<1>4. Cardinality((A \cup B) \cup C) = Cardinality(A \cup B) + Cardinality(C) - 0
  BY <1>1, <1>2, <1>3, FS_Union, FS_EmptySet
<1>5. Cardinality(A \cup B \cup C) <= Cardinality(Requests)
  BY <1>1, FS_Subset
<1>6. /\ Cardinality(A) \in Nat /\ Cardinality(B) \in Nat /\ Cardinality(C) \in Nat
      /\ Cardinality(Requests) \in Nat /\ Cardinality(A \cup B) \in Nat
  BY <1>1, <1>2, <1>3, FS_CardinalityType
<1>7. Cardinality(A) + Cardinality(B) + Cardinality(C) <= Cardinality(Requests)
  BY <1>3, <1>4, <1>5, <1>6
<1>8. QED BY <1>6, <1>7 DEF Waiting, A, B, C

LEMMA CounterTypes ==
  ASSUME TypeOK
  PROVE  /\ failed \in Nat /\ base \in Nat /\ base <= failed /\ guesses \in Nat /\ crashes \in Nat
         /\ MaxFailed \in Nat /\ Left \in Nat \ {0} /\ locked \in {"no", "on", "past"}
         /\ Left = IF base < MaxFailed THEN MaxFailed - base ELSE 1
BY SignInAssumption DEF TypeOK, Left

LEMMA GuessInvBounds == ASSUME TypeOK, GuessInv PROVE GuessesBounded
<1>1. /\ Waiting("compare") \in Nat /\ Waiting("count") \in Nat /\ Waiting("lock") \in Nat
  BY WaitingType
<1>2. CASE locked = "on"
  BY <1>1, <1>2, WaitingSum, CounterTypes DEF GuessInv, GuessesBounded
<1>3. CASE locked # "on"
  <2>1. PICK a, b \in Nat :
          /\ a + b = crashes
          /\ guesses <= (failed - base) + Waiting("count") + a
          /\ failed - base <= (Left - 1) + Waiting("lock") + b
    BY <1>3 DEF GuessInv
  <2>2. QED BY <1>1, <2>1, WaitingSum, CounterTypes DEF GuessesBounded
<1>4. QED BY <1>2, <1>3

-----------------------------------------------------------------------------
(* A request that neither starts nor ends a guess.                         *)
LEMMA QuietStep ==
  ASSUME TypeOK, GuessInv, NEW r \in Requests, UNCHANGED lockout,
         \A q \in Requests \ {r} : rq'[q].pc = rq[q].pc,
         rq[r].pc \notin {"count", "lock"}, rq'[r].pc \notin {"compare", "count", "lock"}
  PROVE  GuessInv'
<1>1. Waiting("count")' = Waiting("count") /\ Waiting("lock")' = Waiting("lock")
  BY WaitingStep
<1>2. /\ Waiting("compare") \in Nat /\ Waiting("compare")' \in Nat
      /\ Waiting("compare")' <= Waiting("compare")
  BY WaitingStep
<1>3. UNCHANGED <<failed, locked, guesses, base, crashes>> /\ Left' = Left
  BY DEF lockout, Left
<1>4. CASE locked = "on"
  <2>1. guesses + Waiting("compare") <= (Left - 1) + Cardinality(Requests) + crashes
    BY <1>4 DEF GuessInv
  <2>2. guesses' + Waiting("compare")' <= (Left' - 1) + Cardinality(Requests) + crashes'
    BY <1>2, <1>3, <2>1, WaitingSum, CounterTypes
  <2>3. QED BY <1>1, <1>3, <1>4, <2>2 DEF GuessInv
<1>5. CASE locked # "on"
  BY <1>1, <1>3, <1>5 DEF GuessInv
<1>6. QED BY <1>4, <1>5

(* The steps of a guess.                                                   *)
LEMMA GuessStep ==
  ASSUME TypeOK, GuessInv, NEW r \in Requests,
         \A q \in Requests \ {r} : rq'[q].pc = rq[q].pc,
         \/ FindByEmail(r) /\ rq'[r].pc = "compare"
         \/ WrongPassword(r) /\ rq'[r].pc = "count"
         \/ CountFailure(r) /\ rq'[r].pc = IF failed' >= MaxFailed THEN "lock" ELSE "idle"
         \/ LockAccount(r) /\ rq'[r].pc = "idle"
         \/ ResetFailures(r) /\ rq'[r].pc = "issue"
         \/ Fail(r) /\ rq'[r].pc = "idle"
  PROVE  GuessInv'
<1> DEFINE w == Waiting("compare")
           c == Waiting("count")
           k == Waiting("lock")
           wn == Waiting("compare")'
           cn == Waiting("count")'
           kn == Waiting("lock")'
<1>1. /\ w \in Nat /\ c \in Nat /\ k \in Nat /\ wn \in Nat /\ cn \in Nat /\ kn \in Nat
  BY WaitingStep
<1>2. /\ wn = IF rq'[r].pc = "compare"
              THEN IF rq[r].pc = "compare" THEN w ELSE w + 1
              ELSE IF rq[r].pc = "compare" THEN w - 1 ELSE w
      /\ cn = IF rq'[r].pc = "count"
              THEN IF rq[r].pc = "count" THEN c ELSE c + 1
              ELSE IF rq[r].pc = "count" THEN c - 1 ELSE c
      /\ kn = IF rq'[r].pc = "lock"
              THEN IF rq[r].pc = "lock" THEN k ELSE k + 1
              ELSE IF rq[r].pc = "lock" THEN k - 1 ELSE k
  BY WaitingStep
<1>3. w + c + k <= Cardinality(Requests) /\ Cardinality(Requests) \in Nat
  BY WaitingSum
<1>4. PICK a, b \in Nat :
        /\ a + b = crashes
        /\ guesses <= (failed - base) + c + a
        /\ locked # "on" => failed - base <= (Left - 1) + k + b
  BY DEF GuessInv
<1>5. locked = "on" => guesses + w <= (Left - 1) + Cardinality(Requests) + crashes
  BY DEF GuessInv
<1> HIDE DEF w, c, k, wn, cn, kn
<1>6. /\ failed \in Nat /\ base \in Nat /\ base <= failed /\ guesses \in Nat /\ crashes \in Nat
      /\ MaxFailed \in Nat \ {0} /\ Left \in Nat \ {0} /\ locked \in {"no", "on", "past"}
      /\ Left = IF base < MaxFailed THEN MaxFailed - base ELSE 1
  BY CounterTypes, SignInAssumption
<1>7. ASSUME NEW a1 \in Nat, NEW b1 \in Nat, a1 + b1 = crashes',
             guesses' <= (failed' - base') + cn + a1,
             locked' # "on" => failed' - base' <= (Left' - 1) + kn + b1,
             locked' = "on" => guesses' + wn <= (Left' - 1) + Cardinality(Requests) + crashes'
      PROVE  GuessInv'
  BY <1>7 DEF GuessInv, wn, cn, kn
<1>8. base' = base => Left' = Left
  BY DEF Left
<1>9. CASE FindByEmail(r) /\ rq'[r].pc = "compare"
  <2>1. rq[r].pc = "begin" /\ locked # "on" /\ UNCHANGED lockout
    BY <1>9 DEF FindByEmail, At
  <2>2. QED BY <1>1, <1>2, <1>4, <1>6, <1>7, <1>8, <1>9, <2>1 DEF lockout
<1>10. CASE WrongPassword(r) /\ rq'[r].pc = "count"
  <2>1. rq[r].pc = "compare" /\ guesses' = guesses + 1 /\ UNCHANGED <<failed, locked, base, crashes>>
    BY <1>10 DEF WrongPassword, At
  <2>2. wn = w - 1 /\ cn = c + 1 /\ kn = k /\ Left' = Left
    BY <1>2, <1>8, <1>10, <2>1
  <2>3. guesses' <= (failed' - base') + cn + a
    BY <1>1, <1>4, <1>6, <2>1, <2>2
  <2>4. locked' = "on" => guesses' + wn <= (Left' - 1) + Cardinality(Requests) + crashes'
    BY <1>1, <1>3, <1>5, <1>6, <2>1, <2>2
  <2>5. QED BY <1>4, <1>7, <2>1, <2>2, <2>3, <2>4
<1>11. CASE CountFailure(r) /\ rq'[r].pc = IF failed' >= MaxFailed THEN "lock" ELSE "idle"
  <2>1. /\ rq[r].pc = "count" /\ failed' = failed + 1
        /\ UNCHANGED <<locked, guesses, base, crashes>>
    BY <1>11 DEF CountFailure, IncrementFailedLoginAttempts, At
  <2>2. /\ wn = w /\ cn = c - 1 /\ Left' = Left
        /\ kn = IF failed' >= MaxFailed THEN k + 1 ELSE k
    BY <1>2, <1>8, <1>11, <2>1
  <2>3. guesses' <= (failed' - base') + cn + a
    BY <1>1, <1>4, <1>6, <2>1, <2>2
  <2>4. locked' = "on" => guesses' + wn <= (Left' - 1) + Cardinality(Requests) + crashes'
    BY <1>5, <2>1, <2>2
  <2>5. locked' # "on" => failed' - base' <= (Left' - 1) + kn + b
    <3>1. CASE failed' >= MaxFailed
      BY <1>1, <1>4, <1>6, <2>1, <2>2, <3>1
    <3>2. CASE ~(failed' >= MaxFailed)
      BY <1>1, <1>4, <1>6, <2>1, <2>2, <3>2
    <3>3. QED BY <3>1, <3>2
  <2>6. QED BY <1>4, <1>7, <2>1, <2>3, <2>4, <2>5
<1>12. CASE LockAccount(r) /\ rq'[r].pc = "idle"
  <2>1. rq[r].pc = "lock" /\ locked' = "on" /\ UNCHANGED <<failed, guesses, base, crashes>>
    BY <1>12 DEF LockAccount, At
  <2>2. QED BY <1>1, <1>2, <1>3, <1>4, <1>5, <1>6, <1>7, <1>8, <1>12, <2>1
<1>13. CASE ResetFailures(r) /\ rq'[r].pc = "issue"
  <2>1. /\ rq[r].pc = "reset" /\ failed' = 0 /\ locked' = "no" /\ guesses' = 0 /\ base' = 0
        /\ crashes' = crashes
    BY <1>13 DEF ResetFailures, ResetFailedLoginAttempts, At
  <2>2. Left' = MaxFailed
    BY <1>6, <2>1 DEF Left
  <2>3. QED BY <1>1, <1>2, <1>4, <1>6, <1>7, <1>13, <2>1, <2>2
<1>14. CASE Fail(r) /\ rq'[r].pc = "idle"
  <2>1. UNCHANGED <<failed, locked, guesses, base>>
    BY <1>14 DEF Fail
  <2>2. CASE rq[r].pc = "count"
    <3>1. crashes' = crashes + 1
      BY <1>14, <2>2 DEF Fail, At
    <3>2. (a + 1) + b = crashes' /\ a + 1 \in Nat
      BY <1>4, <1>6, <3>1
    <3>3. wn = w /\ cn = c - 1 /\ kn = k /\ Left' = Left
      BY <1>2, <1>8, <1>14, <2>1, <2>2
    <3>4. guesses' <= (failed' - base') + cn + (a + 1)
      BY <1>1, <1>4, <1>6, <2>1, <3>3
    <3>5. locked' = "on" => guesses' + wn <= (Left' - 1) + Cardinality(Requests) + crashes'
      BY <1>1, <1>3, <1>5, <1>6, <2>1, <3>1, <3>3
    <3>6. locked' # "on" => failed' - base' <= (Left' - 1) + kn + b
      BY <1>4, <2>1, <3>3
    <3>7. QED BY <1>4, <1>7, <3>2, <3>4, <3>5, <3>6
  <2>3. CASE rq[r].pc = "lock"
    <3>1. crashes' = crashes + 1
      BY <1>14, <2>3 DEF Fail, At
    <3>2. a + (b + 1) = crashes' /\ b + 1 \in Nat
      BY <1>4, <1>6, <3>1
    <3>3. wn = w /\ cn = c /\ kn = k - 1 /\ Left' = Left
      BY <1>2, <1>8, <1>14, <2>1, <2>3
    <3>4. guesses' <= (failed' - base') + cn + a
      BY <1>4, <2>1, <3>3
    <3>5. locked' = "on" => guesses' + wn <= (Left' - 1) + Cardinality(Requests) + crashes'
      BY <1>1, <1>3, <1>5, <1>6, <2>1, <3>1, <3>3
    <3>6. locked' # "on" => failed' - base' <= (Left' - 1) + kn + (b + 1)
      BY <1>1, <1>4, <1>6, <2>1, <3>3
    <3>7. QED BY <1>4, <1>7, <3>2, <3>4, <3>5, <3>6
  <2>4. CASE rq[r].pc \notin {"count", "lock"}
    <3>1. crashes' = crashes
      BY <1>14, <2>4 DEF Fail, At
    <3>2. wn <= w /\ cn = c /\ kn = k /\ Left' = Left
      BY <1>1, <1>2, <1>8, <1>14, <2>1, <2>4
    <3>3. locked' = "on" => guesses' + wn <= (Left' - 1) + Cardinality(Requests) + crashes'
      BY <1>1, <1>3, <1>5, <1>6, <2>1, <3>1, <3>2
    <3>4. QED BY <1>4, <1>7, <2>1, <3>1, <3>2, <3>3
  <2>5. QED BY <2>2, <2>3, <2>4
<1>15. QED BY <1>9, <1>10, <1>11, <1>12, <1>13, <1>14

LEMMA LockEndsGuess == ASSUME TypeOK, GuessInv, LockEnds PROVE GuessInv'
<1>1. /\ locked' = "past" /\ guesses' = 0 /\ base' = failed /\ failed' = failed
      /\ crashes' = crashes /\ rq' = rq
  BY DEF LockEnds
<1>2. Waiting("count")' \in Nat /\ Waiting("lock")' \in Nat
  BY <1>1, WaitingType DEF Waiting, InPlace
<1>3. Left' \in Nat \ {0}
  BY <1>1, CounterTypes, SignInAssumption DEF Left
<1>4. /\ crashes' + 0 = crashes' /\ crashes' \in Nat
      /\ guesses' <= (failed' - base') + Waiting("count")' + crashes'
      /\ failed' - base' <= (Left' - 1) + Waiting("lock")' + 0
  BY <1>1, <1>2, <1>3, CounterTypes
<1>5. QED BY <1>1, <1>4 DEF GuessInv

-----------------------------------------------------------------------------
(* The local state of a request.                                           *)
Places == {"idle", "compare", "count", "lock", "restore", "reset", "issue",
           "begin", "write", "bump", "reply"}

(* One request moves, to the local state u.                                *)
MovesTo(r, u) == rq' \in [Requests -> Request] /\ rq'[r] = u
                 /\ \A q \in Requests \ {r} : rq'[q] = rq[q]

LEMMA RequestTypes ==
  ASSUME TypeOK, NEW r \in Requests
  PROVE  /\ rq \in [Requests -> Request] /\ rq[r] \in Request
         /\ rq[r].pc \in Places /\ rq[r].kind \in {"login", "setup", "enable", "disable", "verify", Null}
         /\ rq[r].user \in Row \cup {Null} /\ rq[r].password \in Nat
         /\ rq[r].saw \in SUBSET {"deleted", "verified", "failures", "enabled"}
         /\ rq[r].code \in Codes \cup {Null} /\ rq[r].late \in BOOLEAN
         /\ rq[r].pc # "idle" => rq[r].kind # Null
<1>1. rq \in [Requests -> Request] /\ rq[r] \in Request /\ (rq[r].pc # "idle" => rq[r].kind # Null)
  BY DEF TypeOK
<1>2. QED BY <1>1 DEF Request, Places

LEMMA NoRequestType == NoRequest \in Request
BY DEF NoRequest, Request

LEMMA GotoStep ==
  ASSUME TypeOK, NEW r \in Requests, NEW ACTION l, l \in Places, Goto(r, l)
  PROVE  /\ l = "idle" => MovesTo(r, NoRequest)
         /\ l # "idle" => MovesTo(r, [rq[r] EXCEPT !.pc = l])
         /\ rq'[r].pc = l
<1>1. rq \in [Requests -> Request] /\ rq[r] \in Request
  BY RequestTypes
<1>2. [rq[r] EXCEPT !.pc = l] \in Request /\ [rq[r] EXCEPT !.pc = l].pc = l
  BY <1>1 DEF Request, Places
<1>3. CASE l = "idle"
  BY <1>1, <1>3, NoRequestType DEF Goto, MovesTo, NoRequest
<1>4. CASE l # "idle"
  BY <1>1, <1>2, <1>4 DEF Goto, MovesTo
<1>5. QED BY <1>3, <1>4

(* Only the local state of one request changes, or nothing of the factor.  *)
LEMMA FactorFrame ==
  ASSUME TypeOK, FactorInv, NEW r \in Requests, UNCHANGED factor,
         \A q \in Requests \ {r} : rq'[q] = rq[q],
         KnowsInv(r)', CodeInv(r)'
  PROVE  FactorInv'
<1>1. \A q \in Requests \ {r} : KnowsInv(q)' /\ CodeInv(q)'
  <2>1. TAKE q \in Requests \ {r}
  <2>2. KnowsInv(q) /\ CodeInv(q)
    BY DEF FactorInv
  <2>3. rq'[q] = rq[q]
    OBVIOUS
  <2>4. KnowsInv(q)'
    BY <2>2, <2>3 DEF factor, KnowsInv
  <2>5. CodeInv(q)'
    BY <2>2, <2>3 DEF factor, CodeInv, Taken
  <2>6. QED BY <2>4, <2>5
<1>2. \A u \in visible' \cup {row'} : RowInv(u)'
  BY DEF FactorInv, factor, RowInv
<1>3. SecretConfirmed' /\ \A c \in spent' : c[1] \in made'
  BY DEF FactorInv, factor, SecretConfirmed
<1>4. QED BY <1>1, <1>2, <1>3 DEF FactorInv

(* A request that returns knows nothing.                                   *)
LEMMA IdleKnows ==
  ASSUME NEW r \in Requests, rq'[r] = NoRequest, TypeOK, UNCHANGED spent
  PROVE  KnowsInv(r)' /\ CodeInv(r)'
BY SignInAssumption DEF NoRequest, KnowsInv, CodeInv, Taken, LoginPlaces, TypeOK

(* A login that moves on.                                                  *)
LEMMA LoginKnows ==
  ASSUME TypeOK, FactorInv, NEW r \in Requests, UNCHANGED <<made, confirmed, spent, stale>>,
         rq[r].kind = "login", rq'[r].pc \in LoginPlaces,
         rq'[r].kind = rq[r].kind, rq'[r].user = rq[r].user, rq'[r].code = rq[r].code,
         rq'[r].late = rq[r].late
  PROVE  KnowsInv(r)' /\ CodeInv(r)'
<1>1. KnowsInv(r) /\ CodeInv(r)
  BY DEF FactorInv
<1>2. rq[r].code = Null /\ Null \notin spent
  BY <1>1, SignInAssumption DEF KnowsInv, TypeOK
<1>3. ~rq[r].late
  BY <1>1, <1>2, RequestTypes DEF CodeInv
<1>4. KnowsInv(r)'
  BY <1>1 DEF KnowsInv, LoginPlaces
<1>5. CodeInv(r)'
  BY <1>3 DEF CodeInv, LoginPlaces
<1>6. QED BY <1>4, <1>5

LEMMA TypeFrame ==
  ASSUME TypeOK, NEW r \in Requests, NEW ACTION u, MovesTo(r, u), u.pc # "idle" => u.kind # Null,
         UNCHANGED <<offered, row, visible, deleted, made, confirmed, spent, stale>>,
         failed' \in Nat, locked' \in {"no", "on", "past"}, guesses' \in Nat, crashes' \in Nat,
         base' \in 0..failed', challenge' \subseteq Nat
  PROVE  TypeOK'
<1>1. \A q \in Requests : rq'[q].pc # "idle" => rq'[q].kind # Null
  BY DEF TypeOK, MovesTo
<1>2. rq' \in [Requests -> Request]
  BY DEF MovesTo
<1>3. QED BY <1>1, <1>2 DEF TypeOK

(* What a step of r leaves alone of the others, and promises of r.         *)
Keeps(r) == TypeOK' /\ FactorInv' /\ \A q \in Requests \ {r} : rq'[q] = rq[q]

LEMMA BeginKeeps ==
  ASSUME TypeOK, FactorInv, NEW r \in Requests,
         NEW k \in {"login", "setup", "enable", "disable", "verify"},
         NEW c \in Codes \cup {Null}, NEW v \in Nat,
         k # "verify" => c = Null, c # Null => c[1] \in made,
         Begin(r, k, c, v)
  PROVE  Keeps(r) /\ rq[r].pc = "idle" /\ rq'[r].pc = "begin" /\ rq'[r].kind = k
<1> DEFINE b == c \in spent
           u == [NoRequest EXCEPT !.pc = "begin", !.kind = k, !.code = c, !.password = v, !.late = b]
<1>0. b \in BOOLEAN /\ (b <=> c \in spent)
  <2>1. b \in BOOLEAN
    BY SMT DEF b
  <2>2. QED BY <2>1, Zenon DEF b
<1> HIDE DEF b
<1>1. /\ u \in Request /\ u.pc = "begin" /\ u.kind = k /\ u.code = c /\ u.user = Null
      /\ u.late = b
  <2> USE DEF u
  <2>1. u \in Request
    BY <1>0, NoRequestType DEF Request
  <2>2. NoRequest \in Request /\ NoRequest.user = Null
    BY NoRequestType DEF NoRequest
  <2>3. u.pc = "begin" /\ u.kind = k /\ u.code = c /\ u.user = Null /\ u.late = b
    BY <2>2 DEF Request
  <2>4. QED BY <2>1, <2>3
<1>2. rq' = [rq EXCEPT ![r] = u] /\ rq[r].pc = "idle" /\ UNCHANGED <<lockout, factor, offered, challenge>>
  BY Zenon DEF Begin, At, b, u
<1>3. k # Null
  BY SignInAssumption DEF Kinds
<1>4. MovesTo(r, u)
  BY <1>1, <1>2, RequestTypes DEF MovesTo
<1>5. TypeOK'
  <2>2. /\ UNCHANGED <<offered, row, visible, deleted, made, confirmed, spent, stale, failed, locked,
                       guesses, crashes, base, challenge>>
    BY <1>2 DEF lockout, factor
  <2>3. failed \in Nat /\ locked \in {"no", "on", "past"} /\ guesses \in Nat /\ crashes \in Nat
        /\ base \in 0..failed /\ challenge \subseteq Nat
    BY DEF TypeOK
  <2>4. QED BY <1>1, <1>3, <1>4, <2>2, <2>3, TypeFrame
<1>6. UNCHANGED factor
  BY <1>2
<1>7. rq'[r] = u
  BY <1>4 DEF MovesTo
<1>8. KnowsInv(r)'
  <2>1. rq'[r].pc = "begin" /\ rq'[r].kind = k /\ rq'[r].code = c /\ rq'[r].user = Null
    BY <1>1, <1>7
  <2>2. made' = made
    BY <1>6 DEF factor
  <2>3. QED BY <2>1, <2>2 DEF KnowsInv, LoginPlaces
<1>9. CodeInv(r)'
  <2>1. rq'[r].pc = "begin" /\ (rq'[r].late <=> c \in spent) /\ rq'[r].code = c
    BY <1>0, <1>1, <1>7
  <2>2. spent' = spent
    BY <1>6 DEF factor
  <2>3. QED BY <2>1, <2>2 DEF CodeInv
<1>10. FactorInv'
  BY <1>4, <1>6, <1>8, <1>9, FactorFrame DEF MovesTo
<1>11. QED BY <1>1, <1>2, <1>4, <1>5, <1>7, <1>10 DEF Keeps, MovesTo

(* A step of a login that leaves the factor alone.                         *)
LEMMA LoginKeeps ==
  ASSUME TypeOK, FactorInv, NEW r \in Requests, NEW ACTION u, MovesTo(r, u),
         UNCHANGED <<offered, factor>>,
         failed' \in Nat, locked' \in {"no", "on", "past"}, guesses' \in Nat, crashes' \in Nat,
         base' \in 0..failed', challenge' \subseteq Nat,
         \/ u = NoRequest
         \/ /\ rq[r].kind = "login" /\ u.pc \in LoginPlaces
            /\ u.kind = rq[r].kind /\ u.user = rq[r].user /\ u.code = rq[r].code
            /\ u.late = rq[r].late
  PROVE  Keeps(r)
<1>1. rq'[r] = u /\ \A q \in Requests \ {r} : rq'[q] = rq[q]
  BY DEF MovesTo
<1>2. UNCHANGED <<row, visible, deleted, made, confirmed, spent, stale>> /\ UNCHANGED factor
  BY DEF factor
<1>3. u.pc # "idle" => u.kind # Null
  BY SignInAssumption DEF NoRequest, Kinds
<1>4. TypeOK'
  BY <1>2, <1>3, TypeFrame
<1>5. KnowsInv(r)' /\ CodeInv(r)'
  <2>1. CASE u = NoRequest
    BY <1>1, <1>2, <2>1, IdleKnows
  <2>2. CASE u # NoRequest
    BY <1>1, <1>2, <2>2, LoginKnows
  <2>3. QED BY <2>1, <2>2
<1>6. FactorInv'
  BY <1>1, <1>2, <1>5, FactorFrame
<1>7. QED BY <1>1, <1>4, <1>6 DEF Keeps

LEMMA LockoutTypes ==
  ASSUME TypeOK
  PROVE  failed \in Nat /\ locked \in {"no", "on", "past"} /\ guesses \in Nat /\ crashes \in Nat
         /\ base \in 0..failed /\ challenge \subseteq Nat
BY DEF TypeOK

LEMMA FindByEmailKeeps ==
  ASSUME TypeOK, FactorInv, NEW r \in Requests, FindByEmail(r)
  PROVE  Keeps(r) /\ rq[r].pc = "begin" /\ rq'[r].pc = "compare"
<1> DEFINE saw == {s \in {"deleted", "verified", "failures", "enabled"} :
                             CASE s = "deleted"  -> deleted
                               [] s = "verified" -> row.verified
                               [] s = "failures" -> failed > 0 \/ locked # "no"
                               [] s = "enabled"  -> row.enabled}
           u == [rq[r] EXCEPT !.pc = "compare", !.password = row.password, !.saw = saw]
<1>1. rq[r] \in Request /\ rq \in [Requests -> Request] /\ row.password \in Nat
  BY RequestTypes DEF TypeOK, Row
<1>2. rq' = [rq EXCEPT ![r].pc = "compare", ![r].password = row.password, ![r].saw = saw]
      /\ UNCHANGED <<lockout, factor, offered, challenge>>
      /\ rq[r].pc = "begin" /\ rq[r].kind = "login"
  BY DEF FindByEmail, At
<1>3. saw \in SUBSET {"deleted", "verified", "failures", "enabled"}
  OBVIOUS
<1> HIDE DEF saw
<1>4. /\ u \in Request /\ u.pc = "compare" /\ u.kind = rq[r].kind /\ u.user = rq[r].user
      /\ u.code = rq[r].code /\ u.late = rq[r].late
  BY <1>1, <1>3 DEF Request
<1>5. MovesTo(r, u)
  BY <1>1, <1>2, <1>4 DEF MovesTo
<1> HIDE DEF u
<1>6. "compare" \in LoginPlaces
  BY DEF LoginPlaces
<1>7. Keeps(r)
  BY <1>2, <1>4, <1>5, <1>6, LockoutTypes, LoginKeeps DEF lockout
<1>8. QED BY <1>2, <1>4, <1>5, <1>7 DEF MovesTo

(* A login that goes to l, or returns.                                     *)
LEMMA LoginGoes ==
  ASSUME TypeOK, FactorInv, NEW r \in Requests, NEW ACTION l, Goto(r, l),
         l = "idle" \/ (l \in LoginPlaces /\ rq[r].pc \in LoginPlaces),
         UNCHANGED <<offered, factor>>,
         failed' \in Nat, locked' \in {"no", "on", "past"}, guesses' \in Nat, crashes' \in Nat,
         base' \in 0..failed', challenge' \subseteq Nat
  PROVE  Keeps(r) /\ rq'[r].pc = l
<1>1. rq[r] \in Request
  BY RequestTypes
<1>2. l \in Places /\ (l \in LoginPlaces => l # "idle")
  BY DEF Places, LoginPlaces
<1>3. CASE l = "idle"
  <2>1. MovesTo(r, NoRequest) /\ rq'[r].pc = l
    BY <1>2, <1>3, GotoStep
  <2>2. Keeps(r)
    BY <2>1, LoginKeeps
  <2>3. QED BY <2>1, <2>2
<1>4. CASE l # "idle"
  <2> DEFINE u == [rq[r] EXCEPT !.pc = l]
  <2>1. /\ u.pc = l /\ u.kind = rq[r].kind /\ u.user = rq[r].user /\ u.code = rq[r].code
        /\ u.late = rq[r].late
    BY <1>1 DEF Request
  <2>2. MovesTo(r, u) /\ rq'[r].pc = l
    BY <1>2, <1>4, GotoStep
  <2>3. rq[r].kind = "login"
    BY <1>4 DEF FactorInv, KnowsInv
  <2> HIDE DEF u
  <2>4. Keeps(r)
    BY <1>4, <2>1, <2>2, <2>3, LoginKeeps
  <2>5. QED BY <2>2, <2>4
<1>5. QED BY <1>3, <1>4

LEMMA LoginSteps ==
  ASSUME TypeOK, FactorInv, NEW r \in Requests
  PROVE  /\ WrongPassword(r) => Keeps(r) /\ rq'[r].pc = "count"
         /\ RightPassword(r) => Keeps(r) /\ rq'[r].pc \in {"idle", "restore", "reset", "issue"}
         /\ CountFailure(r) => Keeps(r) /\ rq'[r].pc = IF failed' >= MaxFailed THEN "lock" ELSE "idle"
         /\ LockAccount(r) => Keeps(r) /\ rq'[r].pc = "idle"
         /\ ResetFailures(r) => Keeps(r) /\ rq'[r].pc = "issue"
         /\ Issue(r) => Keeps(r) /\ rq'[r].pc = "idle"
         /\ Fail(r) => Keeps(r) /\ rq'[r].pc = "idle"
<1>1. ASSUME WrongPassword(r) PROVE Keeps(r) /\ rq'[r].pc = "count"
  <2>1. Goto(r, "count") /\ rq[r].pc \in LoginPlaces /\ "count" \in LoginPlaces
    BY <1>1 DEF WrongPassword, At, LoginPlaces
  <2>2. guesses' = guesses + 1 /\ UNCHANGED <<failed, locked, base, crashes, factor, offered, challenge>>
    BY <1>1 DEF WrongPassword
  <2>3. guesses' \in Nat
    BY <2>2, LockoutTypes
  <2>4. QED BY <2>1, <2>2, <2>3, LockoutTypes, LoginGoes
<1>2. ASSUME RightPassword(r) PROVE Keeps(r) /\ rq'[r].pc \in {"idle", "restore", "reset", "issue"}
  <2> DEFINE l == IF "deleted" \in rq[r].saw THEN "restore" ELSE Proceed(r)
  <2>1. /\ Goto(r, l) /\ rq[r].pc \in LoginPlaces
        /\ l \in {"idle", "restore", "reset", "issue"} /\ (l = "idle" \/ l \in LoginPlaces)
    BY <1>2 DEF RightPassword, At, LoginPlaces, Proceed
  <2>2. UNCHANGED <<lockout, factor, offered, challenge>>
    BY <1>2 DEF RightPassword
  <2> HIDE DEF l
  <2>3. QED BY <2>1, <2>2, LockoutTypes, LoginGoes DEF lockout
<1>3. ASSUME CountFailure(r)
      PROVE Keeps(r) /\ rq'[r].pc = IF failed' >= MaxFailed THEN "lock" ELSE "idle"
  <2> DEFINE l == IF failed' >= MaxFailed THEN "lock" ELSE "idle"
  <2>1. /\ Goto(r, l) /\ rq[r].pc \in LoginPlaces /\ (l = "idle" \/ l \in LoginPlaces)
    BY <1>3 DEF CountFailure, At, LoginPlaces
  <2>2. failed' = failed + 1 /\ UNCHANGED <<locked, guesses, base, crashes, factor, offered, challenge>>
    BY <1>3 DEF CountFailure, IncrementFailedLoginAttempts
  <2>3. failed' \in Nat /\ base' \in 0..failed'
    BY <2>2, LockoutTypes
  <2> HIDE DEF l
  <2>4. Keeps(r) /\ rq'[r].pc = l
    BY <2>1, <2>2, <2>3, LockoutTypes, LoginGoes
  <2>5. QED BY <2>4 DEF l
<1>4. ASSUME LockAccount(r) PROVE Keeps(r) /\ rq'[r].pc = "idle"
  <2>1. Goto(r, "idle") /\ locked' = "on" /\ UNCHANGED <<failed, guesses, base, crashes, factor, offered, challenge>>
    BY <1>4 DEF LockAccount
  <2>2. QED BY <2>1, LockoutTypes, LoginGoes
<1>5. ASSUME ResetFailures(r) PROVE Keeps(r) /\ rq'[r].pc = "issue"
  <2>1. Goto(r, "issue") /\ rq[r].pc \in LoginPlaces /\ "issue" \in LoginPlaces
    BY <1>5 DEF ResetFailures, At, LoginPlaces
  <2>2. failed' = 0 /\ locked' = "no" /\ guesses' = 0 /\ base' = 0
        /\ UNCHANGED <<crashes, factor, offered, challenge>>
    BY <1>5 DEF ResetFailures, ResetFailedLoginAttempts
  <2>3. failed' \in Nat /\ guesses' \in Nat /\ base' \in 0..failed'
    BY <2>2
  <2>4. QED BY <2>1, <2>2, <2>3, LockoutTypes, LoginGoes
<1>6. ASSUME Issue(r) PROVE Keeps(r) /\ rq'[r].pc = "idle"
  <2>1. Goto(r, "idle") /\ UNCHANGED <<lockout, factor, offered>>
    BY <1>6 DEF Issue
  <2>2. challenge' \subseteq Nat
    BY <1>6, RequestTypes, LockoutTypes DEF Issue, SignChallengeToken
  <2>3. QED BY <2>1, <2>2, LockoutTypes, LoginGoes DEF lockout
<1>7. ASSUME Fail(r) PROVE Keeps(r) /\ rq'[r].pc = "idle"
  <2>1. Goto(r, "idle") /\ UNCHANGED <<failed, locked, guesses, base, factor, offered, challenge>>
    BY <1>7 DEF Fail
  <2>2. crashes' \in Nat
    BY <1>7, LockoutTypes DEF Fail
  <2>3. QED BY <2>1, <2>2, LockoutTypes, LoginGoes
<1>8. QED BY <1>1, <1>2, <1>3, <1>4, <1>5, <1>6, <1>7

-----------------------------------------------------------------------------
(* What a request is about to have spent was made.                         *)
LEMMA TakenWasMade ==
  ASSUME TypeOK, FactorInv, NEW r \in Requests, rq[r].pc \in {"bump", "reply"}
  PROVE  \A c \in Taken(r) : c[1] \in made
<1>1. KnowsInv(r)
  BY DEF FactorInv
<1>2. QED BY <1>1, RequestTypes, SignInAssumption DEF KnowsInv, Taken

LEMMA WriteIsFresh ==
  ASSUME TypeOK, FactorInv, NEW r \in Requests, NEW ACTION new, Write(r, new), ~stale'
  PROVE  /\ ~stale
         /\ rq[r].user.enabled = row.enabled /\ rq[r].user.secret = row.secret
         /\ rq[r].user.codes = row.codes
BY DEF Write, TwoFactor

LEMMA WriteMoves ==
  ASSUME TypeOK, FactorInv, NEW r \in Requests, NEW ACTION new, Write(r, new), At(r, "write")
  PROVE  /\ MovesTo(r, rq'[r]) /\ rq'[r].pc = "bump" /\ rq'[r].kind = rq[r].kind
         /\ rq'[r].code = rq[r].code /\ rq'[r].late = rq[r].late
         /\ rq'[r].user = IF rq[r].kind = "disable" THEN rq[r].user ELSE Null
         /\ rq[r].kind \in {"setup", "enable", "disable", "verify"}
         /\ rq[r].user \in Row
<1> DEFINE u == [rq[r] EXCEPT !.pc = "bump",
                              !.user = IF rq[r].kind = "disable" THEN @ ELSE Null]
<1>1. rq[r] \in Request /\ rq \in [Requests -> Request]
  BY RequestTypes
<1>2. rq' = [rq EXCEPT ![r] = u]
  BY <1>1 DEF Write
<1>3. /\ u \in Request /\ u.pc = "bump" /\ u.kind = rq[r].kind /\ u.code = rq[r].code
      /\ u.late = rq[r].late /\ u.user = IF rq[r].kind = "disable" THEN rq[r].user ELSE Null
  BY <1>1 DEF Request
<1> HIDE DEF u
<1>4. rq'[r] = u /\ MovesTo(r, u)
  BY <1>1, <1>2, <1>3 DEF MovesTo
<1>5. KnowsInv(r)
  BY DEF FactorInv
<1>6. rq[r].kind \in {"setup", "enable", "disable", "verify"} /\ rq[r].user \in Row
  BY <1>5, RequestTypes DEF KnowsInv, At
<1>7. QED BY <1>3, <1>4, <1>6

(* A write of the factor by r.                                             *)
LEMMA WriteKeeps ==
  ASSUME TypeOK, FactorInv, NEW r \in Requests, NEW ACTION new, new \in Row,
         Write(r, new), At(r, "write"), confirmed' = confirmed,
         made \subseteq made', made' \subseteq Secrets \cup Batches,
         new.secret # Null => new.secret \in made',
         \A c \in new.codes : c[1] \in made',
         ~stale' => /\ \A c \in new.codes : c \in row.codes \/ c[1] \notin made
                    /\ Taken(r)' \cap new.codes = {}
                    /\ new.enabled => new.secret \in confirmed
  PROVE  Keeps(r) /\ rq'[r].pc = "bump" /\ rq[r].pc = "write" /\ UNCHANGED lockout
<1>1. /\ MovesTo(r, rq'[r]) /\ rq'[r].pc = "bump" /\ rq'[r].kind = rq[r].kind
      /\ rq'[r].code = rq[r].code /\ rq'[r].late = rq[r].late
      /\ rq'[r].user = IF rq[r].kind = "disable" THEN rq[r].user ELSE Null
      /\ rq[r].kind \in {"setup", "enable", "disable", "verify"}
      /\ rq[r].user \in Row
  BY WriteMoves
<1>2. /\ row' = new /\ visible' = (IF deleted THEN visible ELSE visible \cup {new})
      /\ UNCHANGED <<deleted, spent, lockout, offered, challenge>>
  BY DEF Write, UpdateUser
<1>3. stale' \in BOOLEAN
  BY DEF Write, TypeOK
<1>4. \A q \in Requests \ {r} : rq'[q] = rq[q]
  BY <1>1 DEF MovesTo
<1>5. TypeOK'
  <2>1. rq' \in [Requests -> Request] /\ \A q \in Requests : rq'[q].pc # "idle" => rq'[q].kind # Null
    BY <1>1, SignInAssumption DEF MovesTo, TypeOK, Kinds
  <2>2. /\ visible' \subseteq Row /\ row' \in Row /\ deleted' \in BOOLEAN
        /\ (~deleted' => row' \in visible')
    BY <1>2 DEF TypeOK
  <2>3. confirmed' \subseteq made' /\ spent' \subseteq Codes
    BY <1>2 DEF TypeOK
  <2>4. QED BY <1>2, <1>3, <2>1, <2>2, <2>3, LockoutTypes DEF TypeOK, lockout
<1>6. \A u \in visible' \cup {row'} : RowInv(u)'
  <2>1. TAKE u \in visible' \cup {row'}
  <2>2. CASE u = new
    <3>1. ~stale' => u.codes \cap spent' = {}
      <4>1. SUFFICES ASSUME ~stale', NEW c \in u.codes, c \in spent PROVE FALSE
        BY <1>2
      <4>2. ~stale
        BY <4>1, WriteIsFresh
      <4>3. c \in row.codes \/ c[1] \notin made
        BY <2>2, <4>1
      <4>4. RowInv(row) /\ c[1] \in made
        BY <4>1 DEF FactorInv
      <4>5. QED BY <4>1, <4>2, <4>3, <4>4 DEF RowInv
    <3>2. QED BY <2>2, <3>1 DEF RowInv
  <2>3. CASE u # new
    <3>1. RowInv(u)
      BY <1>2, <2>1, <2>3 DEF FactorInv
    <3>2. stale => stale'
      BY DEF Write
    <3>3. QED BY <1>2, <3>1, <3>2 DEF RowInv
  <2>4. QED BY <2>2, <2>3
<1>7. \A q \in Requests : KnowsInv(q)'
  <2>1. TAKE q \in Requests
  <2>2. KnowsInv(q)
    BY DEF FactorInv
  <2>3. CASE q = r
    <3>1. rq[r].user \in Row /\ \A c \in rq[r].user.codes : c[1] \in made'
      BY <2>2, <2>3 DEF KnowsInv, At
    <3>2. (rq'[r].code # Null => rq'[r].code[1] \in made') /\ (rq'[r].kind # "verify" => rq'[r].code = Null)
      BY <1>1, <2>2, <2>3 DEF KnowsInv
    <3>3. QED BY <1>1, <2>3, <3>1, <3>2 DEF KnowsInv, LoginPlaces
  <2>4. CASE q # r
    BY <1>4, <2>2, <2>4 DEF KnowsInv
  <2>5. QED BY <2>3, <2>4
<1>8. \A q \in Requests : CodeInv(q)'
  <2>1. TAKE q \in Requests
  <2>2. CodeInv(q) /\ KnowsInv(q)
    BY DEF FactorInv
  <2>3. rq'[q].late => rq'[q].code \in spent'
    BY <1>1, <1>2, <1>4, <2>2 DEF CodeInv
  <2>4. ASSUME ~stale' PROVE /\ rq'[q].late => rq'[q].pc = "begin"
                             /\ rq'[q].pc = "bump" => Taken(q)' \cap row'.codes = {}
                             /\ rq'[q].pc = "reply" =>
                                  \A u \in visible' \cup {row'} : Taken(q)' \cap u.codes = {}
    <3>1. ~stale
      BY <2>4, WriteIsFresh
    <3>2. CASE q = r
      <4>1. ~rq[r].late
        BY <2>2, <3>1, <3>2, RequestTypes DEF CodeInv, At
      <4>2. QED BY <1>1, <1>2, <2>4, <3>2, <4>1
    <3>3. CASE q # r
      <4>1. rq'[q] = rq[q] /\ Taken(q)' = Taken(q)
        BY <1>4, <3>3 DEF Taken
      <4>2. rq[q].pc \in {"bump", "reply"} => Taken(q) \cap new.codes = {}
        <5>1. SUFFICES ASSUME rq[q].pc \in {"bump", "reply"}, NEW c \in new.codes, c \in Taken(q)
                       PROVE FALSE
          OBVIOUS
        <5>2. c[1] \in made
          BY <5>1, TakenWasMade
        <5>3. c \in row.codes
          BY <2>4, <5>1, <5>2
        <5>4. QED BY <2>2, <3>1, <5>1, <5>3 DEF CodeInv
      <4>3. QED BY <1>2, <2>2, <3>1, <4>1, <4>2 DEF CodeInv
    <3>4. QED BY <3>2, <3>3
  <2>5. QED BY <2>3, <2>4 DEF CodeInv
<1>9. SecretConfirmed'
  BY <1>2 DEF SecretConfirmed
<1>10. \A c \in spent' : c[1] \in made'
  BY <1>2 DEF FactorInv
<1>11. QED BY <1>1, <1>2, <1>4, <1>5, <1>6, <1>7, <1>8, <1>9, <1>10 DEF Keeps, FactorInv, At

(* The fields of rows.                                                     *)
LEMMA RowTypes ==
  ASSUME NEW u \in Row
  PROVE  u.enabled \in BOOLEAN /\ u.secret \in Secrets \cup {Null} /\ u.codes \in SUBSET Codes
         /\ u.verified \in BOOLEAN /\ u.password \in Nat
BY DEF Row

Wrote(r) == Keeps(r) /\ rq'[r].pc = "bump" /\ rq[r].pc = "write" /\ UNCHANGED lockout
            /\ row'.password = row.password
            /\ visible' = (IF deleted THEN visible ELSE visible \cup {row'})

LEMMA SetSecretKeeps ==
  ASSUME TypeOK, FactorInv, NEW r \in Requests, SetSecret(r)
  PROVE  Wrote(r)
<1>1. PICK s \in Secrets \ made :
        Write(r, [row EXCEPT !.secret = s]) /\ made' = made \cup {s}
  BY DEF SetSecret
<1> DEFINE new == [row EXCEPT !.secret = s]
<1>2. row \in Row
  BY DEF TypeOK
<1>3. /\ new \in Row /\ new.secret = s /\ new.codes = row.codes /\ new.enabled = row.enabled
      /\ new.password = row.password
  BY <1>2 DEF Row
<1>4. At(r, "write") /\ rq[r].kind = "setup" /\ confirmed' = confirmed /\ Write(r, new)
  BY <1>1 DEF SetSecret
<1> HIDE DEF new
<1>5. made \subseteq made' /\ made' \subseteq Secrets \cup Batches /\ s \in made'
  BY <1>1 DEF TypeOK
<1>6. \A c \in new.codes : c[1] \in made'
  BY <1>3, <1>5 DEF FactorInv, RowInv
<1>7. ASSUME ~stale'
      PROVE  /\ \A c \in new.codes : c \in row.codes \/ c[1] \notin made
             /\ Taken(r)' \cap new.codes = {}
             /\ new.enabled => new.secret \in confirmed
  <2>1. rq[r].user.enabled = row.enabled
    BY <1>4, <1>7, WriteIsFresh
  <2>2. ~rq[r].user.enabled
    BY <1>4 DEF FactorInv, KnowsInv, At
  <2>3. Taken(r)' = {}
    BY <1>4, WriteMoves DEF Taken
  <2>4. QED BY <1>3, <2>1, <2>2, <2>3
<1>8. row' = new /\ visible' = (IF deleted THEN visible ELSE visible \cup {new})
  BY <1>4 DEF Write, UpdateUser
<1>9. QED BY <1>3, <1>4, <1>5, <1>6, <1>7, <1>8, WriteKeeps DEF Wrote

LEMMA TurnOnKeeps ==
  ASSUME TypeOK, FactorInv, NEW r \in Requests, TurnOn(r)
  PROVE  Wrote(r)
<1>1. PICK b \in Batches \ made :
        /\ Write(r, [row EXCEPT !.enabled = TRUE, !.codes = GenerateRecoveryCodes(b)])
        /\ made' = made \cup {b}
  BY DEF TurnOn
<1> DEFINE new == [row EXCEPT !.enabled = TRUE, !.codes = GenerateRecoveryCodes(b)]
<1>2. row \in Row
  BY DEF TypeOK
<1>3. GenerateRecoveryCodes(b) \subseteq Codes /\ \A c \in GenerateRecoveryCodes(b) : c[1] = b
  BY DEF GenerateRecoveryCodes, Codes
<1>4. /\ new \in Row /\ new.secret = row.secret /\ new.codes = GenerateRecoveryCodes(b)
      /\ new.password = row.password
  BY <1>2, <1>3 DEF Row
<1>5. At(r, "write") /\ rq[r].kind = "enable" /\ confirmed' = confirmed /\ Write(r, new)
  BY <1>1 DEF TurnOn
<1> HIDE DEF new
<1>6. made \subseteq made' /\ made' \subseteq Secrets \cup Batches /\ b \in made'
  BY <1>1 DEF TypeOK
<1>7. new.secret # Null => new.secret \in made'
  BY <1>4, <1>6 DEF FactorInv, RowInv
<1>8. ASSUME ~stale'
      PROVE  /\ \A c \in new.codes : c \in row.codes \/ c[1] \notin made
             /\ Taken(r)' \cap new.codes = {}
             /\ new.enabled => new.secret \in confirmed
  <2>1. rq[r].user.secret = row.secret
    BY <1>5, <1>8, WriteIsFresh
  <2>2. rq[r].user.secret \in confirmed
    BY <1>5 DEF FactorInv, KnowsInv, At
  <2>3. Taken(r)' = {}
    BY <1>5, WriteMoves DEF Taken
  <2>4. QED BY <1>1, <1>3, <1>4, <2>1, <2>2, <2>3
<1>9. row' = new /\ visible' = (IF deleted THEN visible ELSE visible \cup {new})
  BY <1>5 DEF Write, UpdateUser
<1>10. QED BY <1>3, <1>4, <1>5, <1>6, <1>7, <1>8, <1>9, WriteKeeps DEF Wrote

LEMMA TurnOffKeeps ==
  ASSUME TypeOK, FactorInv, NEW r \in Requests, TurnOff(r)
  PROVE  Wrote(r)
<1> DEFINE new == [row EXCEPT !.enabled = FALSE, !.secret = Null, !.codes = {}]
<1>1. row \in Row
  BY DEF TypeOK
<1>2. /\ new \in Row /\ new.secret = Null /\ new.codes = {} /\ ~new.enabled
      /\ new.password = row.password
  BY <1>1 DEF Row
<1>3. At(r, "write") /\ confirmed' = confirmed /\ made' = made /\ Write(r, new)
  BY DEF TurnOff
<1> HIDE DEF new
<1>4. made' \subseteq Secrets \cup Batches
  BY <1>3 DEF TypeOK
<1>5. row' = new /\ visible' = (IF deleted THEN visible ELSE visible \cup {new})
  BY <1>3 DEF Write, UpdateUser
<1>6. QED BY <1>2, <1>3, <1>4, <1>5, WriteKeeps DEF Wrote

LEMMA ConsumeCodeKeeps ==
  ASSUME TypeOK, FactorInv, NEW r \in Requests, ConsumeCode(r)
  PROVE  Wrote(r)
<1> DEFINE codes == ConsumeRecoveryCode(rq[r].user.codes, rq[r].code)
           new == [row EXCEPT !.codes = codes]
<1>1. At(r, "write") /\ rq[r].kind = "verify" /\ confirmed' = confirmed /\ made' = made /\ Write(r, new)
  BY DEF ConsumeCode
<1>2. rq[r].user \in Row /\ row \in Row
  BY <1>1, WriteMoves DEF TypeOK
<1>3. codes \subseteq rq[r].user.codes /\ rq[r].code \notin codes /\ codes \in SUBSET Codes
  BY <1>2, RowTypes DEF ConsumeRecoveryCode
<1> HIDE DEF codes
<1>4. /\ new \in Row /\ new.secret = row.secret /\ new.codes = codes /\ new.enabled = row.enabled
      /\ new.password = row.password
  BY <1>2, <1>3 DEF Row
<1> HIDE DEF new
<1>5. made' \subseteq Secrets \cup Batches
  BY <1>1 DEF TypeOK
<1>6. \A c \in new.codes : c[1] \in made'
  <2>1. \A c \in rq[r].user.codes : c[1] \in made
    BY <1>1 DEF FactorInv, KnowsInv, At
  <2>2. QED BY <1>1, <1>3, <1>4, <2>1
<1>7. ASSUME ~stale'
      PROVE  /\ \A c \in new.codes : c \in row.codes \/ c[1] \notin made
             /\ Taken(r)' \cap new.codes = {}
             /\ new.enabled => new.secret \in confirmed
  <2>1. rq[r].user.codes = row.codes /\ ~stale
    BY <1>1, <1>7, WriteIsFresh
  <2>2. Taken(r)' \subseteq {rq[r].code}
    BY <1>1, WriteMoves DEF Taken
  <2>3. new.enabled => new.secret \in confirmed
    BY <1>4, <2>1 DEF FactorInv, SecretConfirmed
  <2>4. QED BY <1>3, <1>4, <2>1, <2>2, <2>3
<1>8. row' = new /\ visible' = (IF deleted THEN visible ELSE visible \cup {new})
  BY <1>1 DEF Write, UpdateUser
<1>9. new.secret # Null => new.secret \in made'
  BY <1>1, <1>4 DEF FactorInv, RowInv
<1>10. QED BY <1>1, <1>4, <1>5, <1>6, <1>7, <1>8, <1>9, WriteKeeps DEF Wrote

(* The factor stays, and the rows that are visible are old ones or row.    *)
LEMMA VisibleKeeps ==
  ASSUME TypeOK, FactorInv, NEW r \in Requests, MovesTo(r, rq'[r]),
         rq'[r].pc # "idle" => rq'[r].kind # Null,
         UNCHANGED <<offered, lockout, row, made, confirmed, spent, stale, challenge>>,
         deleted' \in BOOLEAN, visible' \subseteq visible \cup {row}, ~deleted' => row \in visible',
         KnowsInv(r)', CodeInv(r)'
  PROVE  Keeps(r)
<1>1. \A q \in Requests \ {r} : rq'[q] = rq[q]
  BY DEF MovesTo
<1>2. TypeOK'
  <2>1. rq' \in [Requests -> Request] /\ \A q \in Requests : rq'[q].pc # "idle" => rq'[q].kind # Null
    BY DEF MovesTo, TypeOK
  <2>2. visible' \subseteq Row
    BY DEF TypeOK
  <2>3. QED BY <2>1, <2>2 DEF TypeOK, lockout
<1>3. \A q \in Requests \ {r} : KnowsInv(q)' /\ CodeInv(q)'
  <2>1. TAKE q \in Requests \ {r}
  <2>2. KnowsInv(q) /\ CodeInv(q) /\ rq'[q] = rq[q] /\ Taken(q)' = Taken(q)
    BY <1>1 DEF FactorInv, Taken
  <2>3. KnowsInv(q)'
    BY <2>2 DEF KnowsInv
  <2>4. CodeInv(q)'
    BY <2>2 DEF CodeInv
  <2>5. QED BY <2>3, <2>4
<1>4. \A u \in visible' \cup {row'} : RowInv(u)'
  BY DEF FactorInv, RowInv
<1>5. SecretConfirmed' /\ \A c \in spent' : c[1] \in made'
  BY DEF FactorInv, SecretConfirmed
<1>6. QED BY <1>1, <1>2, <1>3, <1>4, <1>5 DEF Keeps, FactorInv

LEMMA RestoreKeeps ==
  ASSUME TypeOK, FactorInv, NEW r \in Requests, Restore(r)
  PROVE  /\ Keeps(r) /\ rq[r].pc = "restore" /\ rq'[r].pc = "bump" /\ UNCHANGED <<lockout, row>>
         /\ visible' = visible \cup {row}
<1>1. /\ Goto(r, "bump") /\ rq[r].pc = "restore" /\ deleted' = FALSE /\ visible' = visible \cup {row}
      /\ UNCHANGED <<row, lockout, offered, challenge, made, confirmed, spent, stale>>
  BY DEF Restore, At
<1>2. rq[r] \in Request
  BY RequestTypes
<1>3. MovesTo(r, [rq[r] EXCEPT !.pc = "bump"])
  BY <1>1, GotoStep DEF Places
<1>4. /\ MovesTo(r, rq'[r]) /\ rq'[r].pc = "bump" /\ rq'[r].kind = rq[r].kind /\ rq'[r].late = rq[r].late
      /\ rq'[r].code = rq[r].code
  BY <1>2, <1>3 DEF MovesTo, Request
<1>5. KnowsInv(r) /\ CodeInv(r)
  BY DEF FactorInv
<1>6. rq[r].kind = "login" /\ rq[r].code = Null /\ ~rq[r].late /\ rq[r].kind # Null
  BY <1>1, <1>5, SignInAssumption, RequestTypes DEF KnowsInv, CodeInv, TypeOK, LoginPlaces
<1>7. KnowsInv(r)'
  BY <1>4, <1>6 DEF KnowsInv, LoginPlaces
<1>8. CodeInv(r)'
  BY <1>4, <1>6 DEF CodeInv, Taken
<1>9. QED BY <1>1, <1>4, <1>6, <1>7, <1>8, VisibleKeeps

LEMMA BumpUsersKeeps ==
  ASSUME TypeOK, FactorInv, NEW r \in Requests, BumpUsers(r)
  PROVE  /\ Keeps(r) /\ rq[r].pc = "bump" /\ rq'[r].pc \in {"idle", "reset", "issue", "reply"}
         /\ UNCHANGED <<lockout, row>> /\ visible' = Bumped
<1> DEFINE l == IF rq[r].kind = "login" THEN Proceed(r) ELSE "reply"
<1>1. /\ Goto(r, l) /\ rq[r].pc = "bump" /\ visible' = Bumped
      /\ UNCHANGED <<lockout, row, deleted, made, confirmed, spent, stale, offered, challenge>>
  BY DEF BumpUsers, At
<1>2. /\ l \in {"idle", "reset", "issue", "reply"} /\ l \in Places
      /\ rq[r].kind # "login" => l = "reply"
      /\ rq[r].kind = "login" => l # "reply"
  BY DEF Proceed, Places
<1> HIDE DEF l
<1>3. rq[r] \in Request
  BY RequestTypes
<1>4. rq'[r].pc = l /\ (l # "idle" => rq'[r] = [rq[r] EXCEPT !.pc = l]) /\ (l = "idle" => rq'[r] = NoRequest)
      /\ MovesTo(r, rq'[r])
  BY <1>1, <1>2, GotoStep DEF MovesTo
<1>5. l # "idle" => rq'[r].kind = rq[r].kind /\ rq'[r].code = rq[r].code /\ rq'[r].late = rq[r].late
                    /\ rq'[r].user = rq[r].user
  BY <1>3, <1>4 DEF Request
<1>6. KnowsInv(r) /\ CodeInv(r) /\ rq[r].kind # Null
  BY <1>1, RequestTypes DEF FactorInv
<1>7. visible' \subseteq visible \cup {row} /\ (~deleted' => row \in visible') /\ deleted' \in BOOLEAN
  BY <1>1 DEF Bumped, TypeOK
<1>8. KnowsInv(r)' /\ CodeInv(r)'
  <2>1. CASE l = "idle"
    BY <1>1, <1>4, <2>1, IdleKnows
  <2>2. CASE l \in {"reset", "issue"}
    <3>1. rq[r].kind = "login"
      BY <1>2, <2>2
    <3>2. QED BY <1>1, <1>4, <1>5, <2>2, <3>1, LoginKnows DEF LoginPlaces
  <2>3. CASE l = "reply"
    <3>1. Taken(r)' = Taken(r)
      BY <1>5, <2>3 DEF Taken
    <3>2. KnowsInv(r)'
      BY <1>1, <1>4, <1>5, <1>6, <2>3 DEF KnowsInv, LoginPlaces
    <3>3. visible' \cup {row'} = {row}
      BY <1>1 DEF Bumped
    <3>4. CodeInv(r)'
      BY <1>1, <1>4, <1>5, <1>6, <2>3, <3>1, <3>3 DEF CodeInv
    <3>5. QED BY <3>2, <3>4
  <2>4. QED BY <1>2, <2>1, <2>2, <2>3
<1>9. rq'[r].pc # "idle" => rq'[r].kind # Null
  BY <1>4, <1>5, <1>6
<1>10. QED BY <1>1, <1>2, <1>4, <1>7, <1>8, <1>9, VisibleKeeps

LEMMA DeleteKeeps ==
  ASSUME TypeOK, FactorInv, NEW r \in Requests, Delete(r)
  PROVE  Keeps(r) /\ UNCHANGED <<lockout, row, visible, rq>>
<1>1. deleted' = TRUE
      /\ UNCHANGED <<lockout, row, visible, made, confirmed, spent, stale, offered, challenge, rq>>
  BY DEF Delete
<1>2. KnowsInv(r) /\ CodeInv(r) /\ MovesTo(r, rq'[r])
  BY <1>1 DEF FactorInv, MovesTo, TypeOK
<1>3. KnowsInv(r)'
  BY <1>1, <1>2 DEF KnowsInv
<1>4. CodeInv(r)'
  BY <1>1, <1>2 DEF CodeInv, Taken
<1>5. rq'[r].pc # "idle" => rq'[r].kind # Null
  BY <1>1, RequestTypes
<1>6. QED BY <1>1, <1>2, <1>3, <1>4, <1>5, VisibleKeeps

(* The cached read and its checks.                                         *)
LEMMA CheckKeeps ==
  ASSUME TypeOK, FactorInv, NEW r \in Requests, Check(r)
  PROVE  /\ Keeps(r) /\ rq[r].pc = "begin" /\ rq[r].kind # "login" /\ rq'[r].pc \in {"write", "reply"}
         /\ UNCHANGED <<lockout, row, visible>>
<1>1. PICK u \in visible :
        /\ CASE rq[r].kind = "setup"   -> CanSetup(u)
             [] rq[r].kind = "enable"  -> CanEnable(u)
             [] rq[r].kind = "disable" -> CanDisable(u)
             [] rq[r].kind = "verify"  -> CanVerify(u, rq[r].code)
        /\ IF rq[r].kind = "verify" /\ rq[r].code = Null
           THEN Goto(r, "reply")
           ELSE rq' = [rq EXCEPT ![r].user = u, ![r].pc = "write"]
        /\ confirmed' = confirmed \cup IF rq[r].kind = "enable" THEN {u.secret} ELSE {}
  BY DEF Check, FindById
<1>2. /\ rq[r].pc = "begin" /\ rq[r].kind # "login"
      /\ UNCHANGED <<lockout, row, visible, deleted, made, spent, stale, offered, challenge>>
  BY DEF Check, At
<1>3. rq[r] \in Request /\ rq \in [Requests -> Request] /\ u \in Row
      /\ rq[r].kind \in {"setup", "enable", "disable", "verify"}
  BY <1>1, <1>2, RequestTypes DEF TypeOK
<1>4. KnowsInv(r) /\ CodeInv(r) /\ RowInv(u)
  BY <1>1 DEF FactorInv
<1>5. /\ MovesTo(r, rq'[r]) /\ rq'[r].kind = rq[r].kind /\ rq'[r].code = rq[r].code
      /\ rq'[r].late = rq[r].late
      /\ IF rq[r].kind = "verify" /\ rq[r].code = Null
         THEN rq'[r].pc = "reply" ELSE rq'[r].pc = "write" /\ rq'[r].user = u
  <2>1. CASE rq[r].kind = "verify" /\ rq[r].code = Null
    <3>1. MovesTo(r, [rq[r] EXCEPT !.pc = "reply"]) /\ rq'[r].pc = "reply"
      BY <1>1, <2>1, GotoStep DEF Places
    <3>2. QED BY <1>3, <2>1, <3>1 DEF MovesTo, Request
  <2>2. CASE ~(rq[r].kind = "verify" /\ rq[r].code = Null)
    <3> DEFINE x == [rq[r] EXCEPT !.user = u, !.pc = "write"]
    <3>1. rq' = [rq EXCEPT ![r] = x]
      BY <1>1, <1>3, <2>2
    <3>2. x \in Request /\ x.kind = rq[r].kind /\ x.code = rq[r].code /\ x.late = rq[r].late
          /\ x.pc = "write" /\ x.user = u
      BY <1>3 DEF Request
    <3> HIDE DEF x
    <3>3. QED BY <1>3, <2>2, <3>1, <3>2 DEF MovesTo
  <2>3. QED BY <2>1, <2>2
<1>6. confirmed \subseteq confirmed' /\ confirmed' \subseteq made'
  <2>1. CASE rq[r].kind = "enable"
    <3>1. u.secret \in made
      BY <1>1, <1>4, <2>1 DEF CanEnable, RowInv
    <3>2. QED BY <1>1, <1>2, <2>1, <3>1 DEF TypeOK
  <2>2. CASE rq[r].kind # "enable"
    BY <1>1, <1>2, <2>2 DEF TypeOK
  <2>3. QED BY <2>1, <2>2
<1>7. TypeOK'
  <2>1. rq' \in [Requests -> Request] /\ \A q \in Requests : rq'[q].pc # "idle" => rq'[q].kind # Null
    BY <1>3, <1>5, SignInAssumption DEF MovesTo, TypeOK, Kinds
  <2>2. QED BY <1>2, <1>6, <2>1 DEF TypeOK, lockout
<1>8. KnowsInv(r)'
  <2>1. rq'[r].pc = "write" => u \in Row /\ \A c \in u.codes : c[1] \in made'
    BY <1>2, <1>3, <1>4 DEF RowInv
  <2>2. rq'[r].pc = "write" =>
          CASE rq'[r].kind = "setup"  -> ~u.enabled
            [] rq'[r].kind = "enable" -> u.secret \in confirmed'
            [] OTHER -> TRUE
    BY <1>1, <1>5 DEF CanSetup
  <2>3. rq'[r].code # Null => rq'[r].code[1] \in made'
    BY <1>2, <1>4, <1>5 DEF KnowsInv
  <2>4. rq'[r].kind # "verify" => rq'[r].code = Null
    BY <1>4, <1>5 DEF KnowsInv
  <2>5. rq'[r].kind = "disable" => rq'[r].pc = "write"
    BY <1>5
  <2>6. rq'[r].pc \in {"write", "reply"} /\ rq'[r].kind # "login"
    BY <1>2, <1>5
  <2>7. rq'[r].pc = "write" => rq'[r].user = u
    BY <1>5
  <2>8. QED BY <2>1, <2>2, <2>3, <2>4, <2>5, <2>6, <2>7 DEF KnowsInv, LoginPlaces
<1>9. CodeInv(r)'
  <2>1. ~stale => ~rq[r].late
    <3>1. SUFFICES ASSUME ~stale, rq[r].late PROVE FALSE
      OBVIOUS
    <3>2. rq[r].code \in spent /\ rq[r].code # Null
      BY <1>4, <3>1, SignInAssumption DEF CodeInv, TypeOK
    <3>3. rq[r].code \in u.codes
      BY <1>1, <1>3, <1>4, <3>2 DEF CanVerify, KnowsInv
    <3>4. QED BY <1>4, <3>1, <3>2, <3>3 DEF RowInv
  <2>2. rq'[r].pc = "reply" => Taken(r)' = {}
    BY <1>5, SignInAssumption DEF Taken
  <2>3. QED BY <1>2, <1>4, <1>5, <2>1, <2>2 DEF CodeInv
<1>10. \A q \in Requests \ {r} : rq'[q] = rq[q] /\ KnowsInv(q)' /\ CodeInv(q)'
  <2>1. TAKE q \in Requests \ {r}
  <2>2. KnowsInv(q) /\ CodeInv(q) /\ rq'[q] = rq[q] /\ Taken(q)' = Taken(q)
    BY <1>5 DEF FactorInv, Taken, MovesTo
  <2>3. KnowsInv(q)'
    <3>1. rq[q].pc = "write" =>
            CASE rq[q].kind = "setup"   -> ~rq[q].user.enabled
              [] rq[q].kind = "enable"  -> rq[q].user.secret \in confirmed'
              [] OTHER -> TRUE
      BY <1>6, <2>2 DEF KnowsInv
    <3>2. QED BY <1>2, <2>2, <3>1 DEF KnowsInv
  <2>4. CodeInv(q)'
    BY <1>2, <2>2 DEF CodeInv
  <2>5. QED BY <2>2, <2>3, <2>4
<1>11. \A v \in visible' \cup {row'} : RowInv(v)'
  BY <1>2 DEF FactorInv, RowInv
<1>12. SecretConfirmed' /\ \A c \in spent' : c[1] \in made'
  BY <1>2, <1>6 DEF FactorInv, SecretConfirmed
<1>13. FactorInv'
  BY <1>8, <1>9, <1>10, <1>11, <1>12 DEF FactorInv
<1>14. QED BY <1>2, <1>5, <1>7, <1>10, <1>13 DEF Keeps

LEMMA ReplyKeeps ==
  ASSUME TypeOK, FactorInv, NEW r \in Requests, Reply(r)
  PROVE  Keeps(r) /\ rq[r].pc = "reply" /\ rq'[r].pc = "idle" /\ UNCHANGED <<lockout, row, visible>>
<1>1. /\ spent' = spent \cup Taken(r)
      /\ Goto(r, "idle") /\ rq[r].pc = "reply"
      /\ UNCHANGED <<lockout, row, visible, deleted, made, confirmed, stale, offered, challenge>>
  BY DEF Reply, At, Taken
<1>2. MovesTo(r, NoRequest)
  BY <1>1, GotoStep DEF Places
<1>3. rq'[r] = NoRequest /\ \A q \in Requests \ {r} : rq'[q] = rq[q]
  BY <1>2 DEF MovesTo
<1>4. KnowsInv(r) /\ CodeInv(r)
  BY DEF FactorInv
<1>5. Taken(r) \subseteq Codes
  BY <1>1, <1>4, RowTypes DEF Taken, KnowsInv
<1>6. \A c \in Taken(r) : c[1] \in made
  BY <1>1, TakenWasMade
<1>7. TypeOK'
  <2>1. rq' \in [Requests -> Request] /\ \A q \in Requests : rq'[q].pc # "idle" => rq'[q].kind # Null
    BY <1>2 DEF MovesTo, TypeOK, NoRequest
  <2>2. QED BY <1>1, <1>5, <2>1 DEF TypeOK, lockout
<1>8. KnowsInv(r)' /\ CodeInv(r)'
  <2>1. Null \notin spent'
    BY <1>1, <1>5, SignInAssumption DEF TypeOK
  <2>2. rq'[r].pc = "idle" /\ rq'[r].code = Null /\ rq'[r].late = FALSE /\ rq'[r].kind = Null
    BY <1>3 DEF NoRequest
  <2>3. QED BY <2>1, <2>2, SignInAssumption DEF KnowsInv, CodeInv, LoginPlaces, Kinds
<1>9. \A q \in Requests \ {r} : KnowsInv(q)' /\ CodeInv(q)'
  <2>1. TAKE q \in Requests \ {r}
  <2>2. KnowsInv(q) /\ CodeInv(q) /\ rq'[q] = rq[q] /\ Taken(q)' = Taken(q)
    BY <1>3 DEF FactorInv, Taken
  <2>3. KnowsInv(q)'
    BY <1>1, <2>2 DEF KnowsInv
  <2>4. CodeInv(q)'
    BY <1>1, <2>2 DEF CodeInv
  <2>5. QED BY <2>3, <2>4
<1>10. \A u \in visible' \cup {row'} : RowInv(u)'
  <2>1. TAKE u \in visible' \cup {row'}
  <2>2. RowInv(u)
    BY <1>1 DEF FactorInv
  <2>3. ~stale => Taken(r) \cap u.codes = {}
    BY <1>1, <1>4 DEF CodeInv
  <2>4. QED BY <1>1, <2>2, <2>3 DEF RowInv
<1>11. SecretConfirmed' /\ \A c \in spent' : c[1] \in made'
  BY <1>1, <1>6 DEF FactorInv, SecretConfirmed
<1>12. FactorInv'
  BY <1>8, <1>9, <1>10, <1>11 DEF FactorInv
<1>13. QED BY <1>1, <1>3, <1>7, <1>12 DEF Keeps, NoRequest

LEMMA LockEndsKeeps ==
  ASSUME TypeOK, FactorInv, LockEnds
  PROVE  TypeOK' /\ FactorInv' /\ UNCHANGED <<row, visible>>
<1>1. locked' = "past" /\ guesses' = 0 /\ base' = failed
      /\ UNCHANGED <<failed, crashes, factor, offered, challenge, rq>>
  BY DEF LockEnds
<1>2. TypeOK'
  BY <1>1 DEF TypeOK, factor
<1>3. \A r \in Requests : KnowsInv(r)' /\ CodeInv(r)'
  BY <1>1 DEF FactorInv, KnowsInv, CodeInv, Taken, factor
<1>4. \A u \in visible' \cup {row'} : RowInv(u)'
  BY <1>1 DEF FactorInv, RowInv, factor
<1>5. SecretConfirmed' /\ \A c \in spent' : c[1] \in made'
  BY <1>1 DEF FactorInv, SecretConfirmed, factor
<1>6. QED BY <1>1, <1>2, <1>3, <1>4, <1>5 DEF FactorInv, factor

-----------------------------------------------------------------------------
(* All of the sign-in's steps.                                             *)
LEMMA QuietKeeps ==
  ASSUME TypeOK, GuessInv, NEW r \in Requests, Keeps(r), UNCHANGED lockout,
         rq[r].pc \notin {"count", "lock"}, rq'[r].pc \notin {"compare", "count", "lock"}
  PROVE  SignInInv'
<1>1. GuessInv'
  BY QuietStep DEF Keeps
<1>2. QED BY <1>1 DEF Keeps, SignInInv

LEMMA GuessKeeps ==
  ASSUME TypeOK, GuessInv, NEW r \in Requests, Keeps(r),
         \/ FindByEmail(r) /\ rq'[r].pc = "compare"
         \/ WrongPassword(r) /\ rq'[r].pc = "count"
         \/ CountFailure(r) /\ rq'[r].pc = IF failed' >= MaxFailed THEN "lock" ELSE "idle"
         \/ LockAccount(r) /\ rq'[r].pc = "idle"
         \/ ResetFailures(r) /\ rq'[r].pc = "issue"
         \/ Fail(r) /\ rq'[r].pc = "idle"
  PROVE  SignInInv'
<1>1. \A q \in Requests \ {r} : rq'[q].pc = rq[q].pc
  BY DEF Keeps
<1>2. GuessInv'
  BY <1>1, GuessStep
<1>3. QED BY <1>2 DEF Keeps, SignInInv

LEMMA StepKeeps ==
  ASSUME SignInInv, NEW r \in Requests, Step(r)
  PROVE  SignInInv'
<1>1. TypeOK /\ GuessInv /\ FactorInv
  BY DEF SignInInv
<1>2. CASE Login(r)
  <2>1. Begin(r, "login", Null, 0)
    BY <1>2 DEF Login
  <2>2. Keeps(r) /\ rq[r].pc = "idle" /\ rq'[r].pc = "begin" /\ UNCHANGED lockout
    BY <1>1, <2>1, BeginKeeps DEF Begin
  <2>3. QED BY <1>1, <2>2, QuietKeeps
<1>3. CASE Ask(r)
  <2>1. PICK k \in {"setup", "enable", "disable"} : Begin(r, k, Null, 0)
    BY <1>3 DEF Ask
  <2>2. Keeps(r) /\ rq[r].pc = "idle" /\ rq'[r].pc = "begin" /\ UNCHANGED lockout
    BY <1>1, <2>1, BeginKeeps DEF Begin
  <2>3. QED BY <1>1, <2>2, QuietKeeps
<1>4. CASE Verify(r)
  <2>1. PICK v \in challenge, c \in {Null} \cup {d \in Codes : d[1] \in made} :
          Begin(r, "verify", c, v)
    BY <1>4 DEF Verify, VerifyChallengeToken
  <2>2. v \in Nat /\ c \in Codes \cup {Null} /\ (c # Null => c[1] \in made)
    BY <1>1, LockoutTypes
  <2>3. Keeps(r) /\ rq[r].pc = "idle" /\ rq'[r].pc = "begin" /\ UNCHANGED lockout
    BY <1>1, <2>1, <2>2, BeginKeeps DEF Begin
  <2>4. QED BY <1>1, <2>3, QuietKeeps
<1>5. CASE FindByEmail(r)
  BY <1>1, <1>5, FindByEmailKeeps, GuessKeeps
<1>6. CASE WrongPassword(r)
  BY <1>1, <1>6, LoginSteps, GuessKeeps
<1>7. CASE RightPassword(r)
  <2>1. rq[r].pc = "compare" /\ UNCHANGED lockout
    BY <1>7 DEF RightPassword, At
  <2>2. QED BY <1>1, <1>7, <2>1, LoginSteps, QuietKeeps
<1>8. CASE CountFailure(r)
  BY <1>1, <1>8, LoginSteps, GuessKeeps
<1>9. CASE LockAccount(r)
  BY <1>1, <1>9, LoginSteps, GuessKeeps
<1>10. CASE ResetFailures(r)
  BY <1>1, <1>10, LoginSteps, GuessKeeps
<1>11. CASE Issue(r)
  <2>1. rq[r].pc = "issue" /\ UNCHANGED lockout
    BY <1>11 DEF Issue, At
  <2>2. QED BY <1>1, <1>11, <2>1, LoginSteps, QuietKeeps
<1>12. CASE Restore(r)
  BY <1>1, <1>12, RestoreKeeps, QuietKeeps
<1>13. CASE Check(r)
  BY <1>1, <1>13, CheckKeeps, QuietKeeps
<1>14. CASE SetSecret(r)
  BY <1>1, <1>14, SetSecretKeeps, QuietKeeps DEF Wrote
<1>15. CASE TurnOn(r)
  BY <1>1, <1>15, TurnOnKeeps, QuietKeeps DEF Wrote
<1>16. CASE TurnOff(r)
  BY <1>1, <1>16, TurnOffKeeps, QuietKeeps DEF Wrote
<1>17. CASE ConsumeCode(r)
  BY <1>1, <1>17, ConsumeCodeKeeps, QuietKeeps DEF Wrote
<1>18. CASE BumpUsers(r)
  BY <1>1, <1>18, BumpUsersKeeps, QuietKeeps
<1>19. CASE Reply(r)
  BY <1>1, <1>19, ReplyKeeps, QuietKeeps
<1>20. CASE Fail(r)
  BY <1>1, <1>20, LoginSteps, GuessKeeps
<1>21. CASE Delete(r)
  <2>1. Keeps(r) /\ UNCHANGED <<lockout, rq>>
    BY <1>1, <1>21, DeleteKeeps
  <2>2. Waiting("compare")' = Waiting("compare") /\ Waiting("count")' = Waiting("count")
        /\ Waiting("lock")' = Waiting("lock") /\ Left' = Left
    BY <2>1 DEF Waiting, InPlace, Left, lockout
  <2>3. GuessInv'
    BY <1>1, <2>1, <2>2 DEF GuessInv, lockout
  <2>4. QED BY <2>1, <2>3 DEF Keeps, SignInInv
<1>22. QED
  BY <1>2, <1>3, <1>4, <1>5, <1>6, <1>7, <1>8, <1>9, <1>10, <1>11, <1>12, <1>13, <1>14, <1>15,
     <1>16, <1>17, <1>18, <1>19, <1>20, <1>21 DEF Step

LEMMA SignInInit == Init => SignInInv
<1> SUFFICES ASSUME Init PROVE SignInInv
  OBVIOUS
<1>1. rq = [r \in Requests |-> NoRequest] /\ \A r \in Requests : rq[r] = NoRequest
  BY DEF Init
<1>2. /\ row \in Row /\ ~row.enabled /\ row.secret = Null /\ row.codes = {} /\ visible = {row}
      /\ deleted = FALSE /\ failed = 0 /\ base = 0 /\ guesses = 0 /\ crashes = 0 /\ locked = "no"
      /\ made = {} /\ confirmed = {} /\ spent = {} /\ stale = FALSE /\ challenge = {} /\ offered \in Offers
  BY DEF Init, Row
<1>3. TypeOK
  <2>1. rq \in [Requests -> Request]
    BY <1>1, NoRequestType
  <2>2. \A r \in Requests : rq[r].pc = "idle"
    BY <1>1 DEF NoRequest
  <2>3. base \in 0..failed /\ failed \in Nat /\ guesses \in Nat /\ crashes \in Nat
        /\ challenge \subseteq Nat /\ locked \in {"no", "on", "past"}
    BY <1>2
  <2>4. made \subseteq Secrets \cup Batches /\ confirmed \subseteq made /\ spent \subseteq Codes
        /\ visible \subseteq Row /\ row \in visible
    BY <1>2
  <2>5. QED BY <1>2, <2>1, <2>2, <2>3, <2>4 DEF TypeOK
<1>4. GuessInv
  <2>1. Waiting("count") \in Nat /\ Waiting("lock") \in Nat
    BY WaitingType
  <2>2. Left \in Nat \ {0}
    BY <1>3, CounterTypes
  <2>3. 0 + 0 = crashes /\ guesses <= (failed - base) + Waiting("count") + 0
        /\ failed - base <= (Left - 1) + Waiting("lock") + 0
    BY <1>2, <2>1, <2>2
  <2>4. QED BY <1>2, <2>3 DEF GuessInv
<1>5. \A r \in Requests : KnowsInv(r) /\ CodeInv(r)
  BY <1>1, <1>2, SignInAssumption DEF KnowsInv, CodeInv, Taken, NoRequest, LoginPlaces, Kinds
<1>6. \A u \in visible \cup {row} : RowInv(u)
  BY <1>2 DEF RowInv
<1>7. SecretConfirmed
  BY <1>2 DEF SecretConfirmed
<1>8. QED BY <1>2, <1>3, <1>4, <1>5, <1>6, <1>7 DEF SignInInv, FactorInv

(* What another use case may do to the row: leave the second factor alone, *)
(* or clear it, and show the new row or hide old ones.                     *)
LEMMA RowKeeps ==
  ASSUME SignInInv, UNCHANGED but_row, row' \in Row,
         visible' \subseteq visible \cup {row'}, ~deleted => row' \in visible',
         \/ /\ row'.enabled = row.enabled /\ row'.secret = row.secret /\ row'.codes = row.codes
         \/ ~row'.enabled /\ row'.secret = Null /\ row'.codes = {}
  PROVE  SignInInv'
<1>1. TypeOK /\ GuessInv /\ FactorInv
  BY DEF SignInInv
<1>2. UNCHANGED <<deleted, made, confirmed, spent, stale, failed, locked, guesses, base, crashes,
                  challenge, rq, offered>>
  BY DEF but_row, lockout
<1>3. TypeOK'
  <2>1. visible' \subseteq Row
    BY <1>1 DEF TypeOK
  <2>2. QED BY <1>1, <1>2, <2>1 DEF TypeOK
<1>4. GuessInv'
  <2>1. Waiting("compare")' = Waiting("compare") /\ Waiting("count")' = Waiting("count")
        /\ Waiting("lock")' = Waiting("lock") /\ Left' = Left
    BY <1>2 DEF Waiting, InPlace, Left
  <2>2. QED BY <1>1, <1>2, <2>1 DEF GuessInv
<1>5. row'.codes \subseteq row.codes
  OBVIOUS
<1>6. \A q \in Requests : KnowsInv(q)'
  BY <1>1, <1>2 DEF FactorInv, KnowsInv
<1>7. \A q \in Requests : CodeInv(q)'
  <2>1. TAKE q \in Requests
  <2>2. CodeInv(q) /\ Taken(q)' = Taken(q)
    BY <1>1, <1>2 DEF FactorInv, Taken
  <2>3. QED BY <1>2, <1>5, <2>2 DEF CodeInv
<1>8. \A u \in visible' \cup {row'} : RowInv(u)'
  <2>1. RowInv(row) /\ \A u \in visible : RowInv(u)
    BY <1>1 DEF FactorInv
  <2>2. TAKE u \in visible' \cup {row'}
  <2>3. CASE u = row'
    <3>1. (u.secret # Null => u.secret = row.secret) /\ u.codes \subseteq row.codes
      BY <1>5, <2>3
    <3>2. QED BY <1>2, <2>1, <3>1 DEF RowInv
  <2>4. CASE u # row'
    BY <1>2, <2>1, <2>2, <2>4 DEF RowInv
  <2>5. QED BY <2>3, <2>4
<1>9. SecretConfirmed' /\ \A c \in spent' : c[1] \in made'
  BY <1>1, <1>2 DEF FactorInv, SecretConfirmed
<1>10. QED BY <1>3, <1>4, <1>6, <1>7, <1>8, <1>9 DEF SignInInv, FactorInv

LEMMA SameKeeps == ASSUME SignInInv, UNCHANGED vars PROVE SignInInv'
<1>1. UNCHANGED but_row /\ row' = row /\ visible' = visible
  BY DEF vars, but_row, factor
<1>2. row \in Row /\ (~deleted => row \in visible)
  BY DEF SignInInv, TypeOK
<1>3. QED BY <1>1, <1>2, RowKeeps

-----------------------------------------------------------------------------
(* The local state of a call.                                              *)
Stages == {"idle", "begin", "create", "workspace", "ask", "pending", "token", "user",
           "recent", "write", "bump", "record", "cut", "fresh", "mark", "revoke",
           "email", "callback", "account", "count", "delete", "issue", "answer"}

LEMMA InvTypes == ASSUME AccountInv PROVE AccountTypeOK
<1>1. TypeOK /\ PersonOK /\ PasswordOK /\ MailOK /\ AccessOK /\ CallOK
  BY DEF AccountInv, SignInInv
<1>2. {cut, cached} \subseteq 0..ClockBound \cup {Null}
  BY <1>1 DEF AccessOK
<1>3. {disturbed, reused, overtaken, overlapped, halfway, refused, admitted} \subseteq BOOLEAN
  BY <1>1 DEF PersonOK, PasswordOK, AccessOK
<1>4. QED
  BY <1>1, <1>2, <1>3 DEF AccountTypeOK, PersonOK, PasswordOK, MailOK, AccessOK, CallOK

LEMMA NoCallType == NoCall \in Call
BY DEF NoCall, Call

LEMMA CallTypes ==
  ASSUME AccountInv, NEW r \in Requests
  PROVE  /\ call \in [Requests -> Call] /\ call[r] \in Call
         /\ call[r].pc \in Stages /\ call[r].kind \in Calls \cup {Null}
         /\ call[r].arg \in Nat \cup Identities /\ call[r].user \in Row \cup {Null}
         /\ call[r].password \in Nat /\ call[r].seen \in SUBSET Identities
         /\ call[r].version \in Nat /\ call[r].old \in SUBSET Nat /\ call[r].late \in BOOLEAN
         /\ CallInv(call[r])
<1>1. call \in [Requests -> Call] /\ call[r] \in Call /\ CallInv(call[r])
  BY DEF AccountInv, CallOK
<1>2. QED BY <1>1 DEF Call, Stages

(* Where Advance takes a call.                                             *)
Went(c, l) == IF l = "idle" THEN NoCall ELSE [c EXCEPT !.pc = l]

LEMMA WentTypes ==
  ASSUME NEW c \in Call, NEW l \in Stages
  PROVE  /\ Went(c, l) \in Call /\ Went(c, l).pc = l
         /\ l # "idle" => /\ Went(c, l).kind = c.kind /\ Went(c, l).arg = c.arg
                          /\ Went(c, l).user = c.user /\ Went(c, l).password = c.password
                          /\ Went(c, l).seen = c.seen /\ Went(c, l).version = c.version
                          /\ Went(c, l).old = c.old /\ Went(c, l).late = c.late
<1>1. CASE l = "idle"
  BY <1>1, NoCallType DEF Went, NoCall
<1>2. CASE l # "idle"
  BY <1>2 DEF Went, Call, Stages
<1>3. QED BY <1>1, <1>2

LEMMA AdvanceWent ==
  ASSUME CallOK, NEW r \in Requests, NEW ACTION l, Advance(r, l)
  PROVE  call' = [call EXCEPT ![r] = Went(call[r], l)]
BY DEF Advance, Went, CallOK

(* What a step may do to what calls rely on.                               *)
Grows ==
  /\ gone \subseteq gone' /\ issued <= issued'
  /\ \A t \in tokens' : t.id > issued \/ \E u \in tokens : u.id = t.id /\ u.for = t.for /\ (u.used => t.used)
  /\ Len(past) <= Len(past') /\ (workspace => workspace')
  /\ sessions' \subseteq Session
  /\ \A s \in sessions' : s \in sessions \/ s.version >= Len(past) \/ s.late

Counters == issued \in Nat /\ issued' \in Nat /\ Len(past) \in Nat /\ Len(past') \in Nat

LEMMA StaysGrows ==
  ASSUME AccountInv, UNCHANGED <<tokens, issued, gone, past, workspace, sessions>>
  PROVE  Grows /\ Counters
<1>1. issued \in Nat /\ Len(past) \in Nat
  BY AccountAssumption DEF AccountInv, MailOK, PasswordOK
<1>2. sessions \subseteq Session
  BY DEF AccountInv, AccessOK
<1>3. QED BY <1>1, <1>2 DEF Grows, Counters

(* A call that does not move, and what grew of one that does.              *)
LEMMA OthersKeep ==
  ASSUME AccountInv, Grows, Counters, NEW q \in Requests, call'[q] = call[q]
  PROVE  CallInv(call[q])'
<1>1. PICK c : c = call[q]
  OBVIOUS
<1>2. /\ call'[q] = c /\ CallInv(c) /\ c \in Call /\ c.version \in Nat /\ c.old \in SUBSET Nat
      /\ c.user \in Row \cup {Null}
  BY <1>1, CallTypes
<1>3. (c.pc = "idle" => c = NoCall) /\ Place(c.kind, c.pc)
  BY <1>2 DEF CallInv
<1>4. MailCall(c)'
  <2>1. MailCall(c)
    BY <1>2 DEF CallInv
  <2>2. c.late => c.arg \in gone' /\ c.kind \in {"reset", "verifyEmail"} /\ c.pc = "begin"
    BY <2>1 DEF MailCall, Grows
  <2>3. c.kind \in {"reset", "verifyEmail"} => c.arg \in 1..issued'
    BY <2>1 DEF MailCall, Grows, Counters
  <2>4. c.old \subseteq 1..issued' /\ (c.kind \notin {"register", "resend", "forgot"} => c.old = {})
    BY <2>1 DEF MailCall, Grows, Counters
  <2>5. \A t \in tokens' : t.id \in c.old =>
          t.for = For(c.kind) /\ (c.pc \in {"token", "answer"} => t.used)
    <3>1. TAKE t \in tokens'
    <3>2. HAVE t.id \in c.old
    <3>3. ~(t.id > issued)
      BY <2>1, <3>2 DEF MailCall, Counters
    <3>4. PICK u \in tokens : u.id = t.id /\ u.for = t.for /\ (u.used => t.used)
      BY <3>3 DEF Grows
    <3>5. QED BY <2>1, <3>2, <3>4 DEF MailCall
  <2>6. c.pc \in {"revoke", "answer"} /\ c.kind \in {"reset", "verifyEmail"} =>
          \A t \in tokens' : t.id = c.arg => t.used
    <3>1. SUFFICES ASSUME c.pc \in {"revoke", "answer"}, c.kind \in {"reset", "verifyEmail"},
                          NEW t \in tokens', t.id = c.arg
                   PROVE t.used
      OBVIOUS
    <3>2. ~(t.id > issued)
      BY <2>1, <3>1 DEF MailCall, Counters
    <3>3. PICK u \in tokens : u.id = t.id /\ u.for = t.for /\ (u.used => t.used)
      BY <3>2 DEF Grows
    <3>4. QED BY <2>1, <3>1, <3>3 DEF MailCall
  <2>7. QED BY <2>2, <2>3, <2>4, <2>5, <2>6 DEF MailCall
<1>5. VersionCall(c)'
  <2>1. VersionCall(c)
    BY <1>2 DEF CallInv
  <2>2. c.version <= Len(past')
    BY <1>2, <2>1 DEF VersionCall, Grows, Counters
  <2>3. c.pc = "answer" => \A s \in sessions' : s.version >= c.version \/ s.late
    <3>1. SUFFICES ASSUME c.pc = "answer", NEW s \in sessions', ~s.late PROVE s.version >= c.version
      OBVIOUS
    <3>2. CASE s \in sessions
      BY <2>1, <3>1, <3>2 DEF VersionCall, Outlives
    <3>3. CASE s.version >= Len(past)
      <4>1. s.version \in Nat /\ c.version <= Len(past)
        BY <2>1 DEF VersionCall, Grows, Session
      <4>2. QED BY <1>2, <3>3, <4>1 DEF Counters
    <3>4. QED BY <3>1, <3>2, <3>3 DEF Grows
  <2>4. QED BY <2>1, <2>2, <2>3 DEF VersionCall, Outlives
<1>6. PastCall(c)'
  <2>1. PastCall(c)
    BY <1>2 DEF CallInv
  <2>2. c.user \in Row => c.user.password \in Nat
    BY DEF Row
  <2>3. QED BY <2>1, <2>2 DEF PastCall, Grows, Counters
<1>7. WholeCall(c)'
  BY <1>2 DEF CallInv, WholeCall, Grows, Counters
<1>8. CallInv(c)'
  BY <1>3, <1>4, <1>5, <1>6, <1>7 DEF CallInv
<1>9. QED BY <1>2, <1>8 DEF CallInv

LEMMA NoCallKeeps == ASSUME Counters PROVE CallInv(NoCall)'
<1>1. NoCall \in Call /\ NoCall.pc = "idle" /\ NoCall.kind = Null /\ NoCall.late = FALSE
      /\ NoCall.version = 0 /\ NoCall.old = {}
  BY NoCallType DEF NoCall
<1>2. \A x \in Calls : Null # x
  BY AccountAssumption
<1>3. Place(Null, "idle")
  BY DEF Place
<1>4. MailCall(NoCall)'
  BY <1>1, <1>2 DEF MailCall, Calls
<1>5. VersionCall(NoCall)'
  BY <1>1 DEF VersionCall, Counters
<1>6. PastCall(NoCall)' /\ WholeCall(NoCall)'
  BY <1>1, <1>2 DEF PastCall, HasRead, WholeCall, Calls
<1>7. QED BY <1>1, <1>3, <1>4, <1>5, <1>6 DEF CallInv

(* A call that goes on to the stage l.                                     *)
LEMMA WentKeeps ==
  ASSUME AccountInv, Grows, Counters, NEW r \in Requests, NEW c, c = call[r],
         NEW l \in Stages \ {"idle", "begin"}, ~c.late, Place(c.kind, l),
         l \in {"token", "answer"} => \A t \in tokens' : t.id \in c.old => t.used,
         l \in {"revoke", "answer"} /\ c.kind \in {"reset", "verifyEmail"} =>
           \A t \in tokens' : t.id = c.arg => t.used,
         l = "answer" => \A s \in sessions' : s.version >= c.version \/ s.late,
         HasRead(Went(c, l)) => HasRead(c),
         c.kind = "oauth" /\ l = "account" => workspace',
         c.kind # "oauth" /\ l = "workspace" => Len(past') # 0,
         ~(c.kind = "unlink" /\ l = "delete")
  PROVE  CallInv(Went(c, l))'
<1>1. /\ CallInv(c) /\ c \in Call /\ c.version \in Nat /\ c.old \in SUBSET Nat
      /\ c.user \in Row \cup {Null}
  BY CallTypes
<1>2. PICK d : d = Went(c, l)
  OBVIOUS
<1>3. /\ d.pc = l /\ d.kind = c.kind /\ d.arg = c.arg /\ d.user = c.user /\ d.seen = c.seen
      /\ d.version = c.version /\ d.old = c.old /\ d.late = c.late /\ HasRead(d) = HasRead(Went(c, l))
  BY <1>1, <1>2, WentTypes
<1>4. MailCall(d)'
  <2>1. MailCall(c)
    BY <1>1 DEF CallInv
  <2>2. c.kind \in {"reset", "verifyEmail"} => c.arg \in 1..issued'
    BY <2>1 DEF MailCall, Grows, Counters
  <2>3. c.old \subseteq 1..issued' /\ (c.kind \notin {"register", "resend", "forgot"} => c.old = {})
    BY <2>1 DEF MailCall, Grows, Counters
  <2>4. \A t \in tokens' : t.id \in c.old => t.for = For(c.kind)
    <3>1. TAKE t \in tokens'
    <3>2. HAVE t.id \in c.old
    <3>3. ~(t.id > issued)
      BY <2>1, <3>2 DEF MailCall, Counters
    <3>4. PICK u \in tokens : u.id = t.id /\ u.for = t.for
      BY <3>3 DEF Grows
    <3>5. QED BY <2>1, <3>2, <3>4 DEF MailCall
  <2>5. QED BY <1>3, <2>2, <2>3, <2>4 DEF MailCall
<1>5. VersionCall(d)'
  <2>1. c.version <= Len(past') /\ (c.version # 0 => c.kind \in {"reset", "oauth"})
    BY <1>1 DEF CallInv, VersionCall, Grows, Counters
  <2>2. QED BY <1>3, <2>1 DEF VersionCall, Outlives
<1>6. PastCall(d)'
  <2>1. HasRead(c) => c.user \in Row /\ c.user.password <= Len(past)
    BY <1>1 DEF CallInv, PastCall
  <2>2. c.user \in Row => c.user.password \in Nat
    BY DEF Row
  <2>3. QED BY <1>3, <2>1, <2>2 DEF PastCall, Grows, Counters
<1>7. WholeCall(d)'
  BY <1>1, <1>3 DEF CallInv, WholeCall
<1>8. (d.pc = "idle" => d = NoCall) /\ Place(d.kind, d.pc)
  BY <1>3
<1>9. CallInv(d)'
  BY <1>4, <1>5, <1>6, <1>7, <1>8 DEF CallInv
<1>10. QED BY <1>2, <1>9

LEMMA CallStep ==
  ASSUME AccountInv, Grows, Counters, NEW r \in Requests, NEW d \in Call,
         call' = [call EXCEPT ![r] = d], CallInv(d)'
  PROVE  /\ CallOK' /\ \A q \in Requests : CallInv(call[q])'
         /\ call'[r] = d /\ \A q \in Requests \ {r} : call'[q] = call[q]
<1>1. call \in [Requests -> Call]
  BY DEF AccountInv, CallOK
<1>2. CallOK' /\ call'[r] = d /\ \A q \in Requests \ {r} : call'[q] = call[q]
  BY <1>1 DEF CallOK
<1>3. \A q \in Requests \ {r} : CallInv(call[q])'
  BY <1>2, OthersKeep
<1>4. CallInv(call[r])'
  BY <1>2 DEF CallInv
<1>5. QED BY <1>2, <1>3, <1>4

(* The passwords and their history stay.                                   *)
LEMMA HistoryStays ==
  ASSUME AccountInv, UNCHANGED <<exists, past, history>>, ~disturbed' => ~disturbed,
         NEW r \in Requests, \A q \in Requests \ {r} : call'[q] = call[q],
         Recorder(call'[r]) <=> Recorder(call[r]),
         Recorder(call[r]) => call'[r].user = call[r].user,
         Writer(call'[r]) =>
           /\ Writer(call[r]) /\ call'[r].user = call[r].user
           /\ call'[r].password = call[r].password
  PROVE  HistoryInv'
<1> SUFFICES ASSUME ~disturbed', exists' = "yes"
             PROVE  /\ (\A q \in Requests : ~Recorder(call'[q])) => HistoryIs(Len(past))'
                    /\ \A q \in Requests : Recorder(call'[q]) =>
                         /\ HistoryIs(Len(past) - 1)'
                         /\ call'[q].user.password = Len(past') - 1
                         /\ \A p \in Requests : Recorder(call'[p]) => p = q
                    /\ \A q \in Requests : Writer(call'[q]) /\ call'[q].user.password = Len(past') =>
                         /\ \A p \in Requests : ~Recorder(call'[p])
                         /\ call'[q].password \notin Recent'
  BY DEF HistoryInv
<1>1. \A q \in Requests : Recorder(call'[q]) <=> Recorder(call[q])
  OBVIOUS
<1>2. HistoryInv /\ Recent' = Recent /\ ~disturbed /\ exists = "yes"
  BY DEF AccountInv, Recent, Hashes
<1>3. HistoryIs(Len(past))' = HistoryIs(Len(past)) /\ HistoryIs(Len(past) - 1)' = HistoryIs(Len(past) - 1)
  BY DEF HistoryIs
<1>4. QED BY <1>1, <1>2, <1>3 DEF HistoryInv

LEMMA WholeStays ==
  ASSUME AccountInv, exists' = exists, workspace => workspace', halfway => halfway',
         overlapped => overlapped', row'.password = row.password, linked \subseteq linked',
         \A q \in Requests : SigningUp(q) => SigningUp(q)'
  PROVE  SignUpWhole'
BY DEF AccountInv, SignUpWhole

(* Only a call changes, and not that of a reset that writes.               *)
LEMMA OnlyCall ==
  ASSUME AccountInv, NEW r \in Requests, NEW d \in Call, call' = [call EXCEPT ![r] = d], CallInv(d)',
         UNCHANGED <<vars, person, passwd, mail, access>>,
         SigningUp(r) => SigningUp(r)',
         exists = "no" => NobodyCalls(d),
         ~Recorder(d), ~Writer(d), ~Recorder(call[r])
  PROVE  AccountInv'
<1>1. SignInInv'
  BY SameKeeps DEF AccountInv
<1>2. Grows /\ Counters
  BY StaysGrows DEF mail, person, passwd, access
<1>3. /\ CallOK' /\ \A q \in Requests : CallInv(call[q])'
      /\ call'[r] = d /\ \A q \in Requests \ {r} : call'[q] = call[q]
  BY <1>2, CallStep
<1>4. PersonOK' /\ LifeInv'
  BY DEF AccountInv, PersonOK, LifeInv, LiveIsKept, person, vars, factor
<1>5. PasswordOK' /\ MailOK' /\ AccessOK' /\ TokensInv' /\ Outlives(changed)' /\ NoReuse' /\ CutoffHolds'
  BY DEF AccountInv, PasswordOK, MailOK, AccessOK, TokensInv, Outlives, NoReuse, CutoffHolds,
         passwd, mail, access
<1>6. NobodyYet'
  BY <1>3 DEF AccountInv, NobodyYet, person, passwd, mail, access, vars
<1>7. RowPast'
  BY DEF AccountInv, RowPast, person, passwd, vars, factor
<1>8. SignUpWhole'
  <2>1. \A q \in Requests : SigningUp(q) => SigningUp(q)'
    BY <1>3 DEF SigningUp, Is
  <2>2. QED BY <2>1, WholeStays DEF person, vars, factor
<1>9. HistoryInv'
  BY <1>3, HistoryStays DEF person, passwd
<1>10. QED BY <1>1, <1>3, <1>4, <1>5, <1>6, <1>7, <1>8, <1>9 DEF AccountInv

-----------------------------------------------------------------------------
(* A call begins.                                                          *)
LEMMA StartKeeps ==
  ASSUME AccountInv, NEW r \in Requests, NEW k \in Calls, NEW a \in Nat \cup Identities,
         k \in {"verifyEmail", "reset"} => a \in 1..issued,
         k \notin {"verifyEmail", "reset"} => a \notin gone,
         k \in {"oauth", "link"} => a \in Identities,
         exists = "no" => k \in {"register", "create", "forgot", "oauth", "invalidate"},
         Start(r, k, a)
  PROVE  AccountInv'
<1> DEFINE old == IF k \in {"register", "resend", "forgot"}
                  THEN {t.id : t \in {x \in tokens : x.for = For(k)}} ELSE {}
           b == a \in gone
           d == [NoCall EXCEPT !.pc = "begin", !.kind = k, !.arg = a, !.late = b, !.old = old]
<1>1. call[r].pc = "idle" /\ call' = [call EXCEPT ![r] = d]
      /\ UNCHANGED <<vars, person, passwd, mail, access>>
  BY Zenon DEF Start
<1>2. b \in BOOLEAN
  BY SMT DEF b
<1>3. b <=> a \in gone
  BY Zenon DEF b
<1>4. tokens \subseteq Token /\ (\A t, u \in tokens : t.id = u.id => t = u)
      /\ (\A t \in tokens : t.id \in 1..issued) /\ issued \in Nat
  BY AccountAssumption DEF AccountInv, MailOK, TokensInv, Token
<1>5. old \subseteq 1..issued /\ old \in SUBSET Nat /\ (\A t \in tokens : t.id \in old => t.for = For(k))
  BY <1>4
<1>6. k \notin {"register", "resend", "forgot"} => old = {}
  OBVIOUS
<1> HIDE DEF b, old
<1>7. /\ d \in Call /\ d.pc = "begin" /\ d.kind = k /\ d.arg = a /\ d.late = b /\ d.old = old
      /\ d.version = 0
  <2>1. d \in Call
    BY <1>2, <1>5, NoCallType DEF Call
  <2>2. NoCall \in Call /\ NoCall.version = 0
    BY NoCallType DEF NoCall
  <2>3. d.pc = "begin" /\ d.kind = k /\ d.arg = a /\ d.late = b /\ d.old = old /\ d.version = 0
    BY <2>2 DEF Call
  <2>4. QED BY <2>1, <2>3
<1>8. k # Null
  BY AccountAssumption
<1> HIDE DEF d
<1>0. PICK e : e = d
  OBVIOUS
<1>9. Grows /\ Counters /\ UNCHANGED <<tokens, issued, gone, past, workspace>>
  BY <1>1, StaysGrows DEF mail, person, passwd, access
<1>10. CallInv(e)'
  <2>1. MailCall(e)'
    BY <1>3, <1>5, <1>6, <1>0, <1>7, <1>9 DEF MailCall
  <2>2. VersionCall(e)' /\ PastCall(e)' /\ WholeCall(e)'
    BY <1>0, <1>7, <1>9 DEF VersionCall, PastCall, HasRead, WholeCall, Counters
  <2>3. Place(e.kind, e.pc)
    BY <1>0, <1>7, <1>8 DEF Place
  <2>4. QED BY <1>0, <1>7, <2>1, <2>2, <2>3 DEF CallInv
<1>11. ~SigningUp(r) /\ ~Recorder(call[r])
  BY <1>1 DEF SigningUp, Is, Recorder
<1>12. ~Recorder(e) /\ ~Writer(e) /\ (exists = "no" => NobodyCalls(e))
  BY <1>0, <1>7 DEF Recorder, Writer, NobodyCalls
<1>13. QED BY <1>0, <1>1, <1>7, <1>10, <1>11, <1>12, OnlyCall

LEMMA StartsKeep ==
  ASSUME AccountInv, NEW r \in Requests,
         \/ Register(r) \/ CreateByAdmin(r) \/ Resend(r) \/ Forgot(r) \/ VerifyEmail(r)
         \/ Reset(r) \/ Callback(r) \/ Link(r) \/ Unlink(r) \/ Invalidate(r)
  PROVE  AccountInv'
<1>1. gone \subseteq 1..issued /\ issued \in Nat
  BY AccountAssumption DEF AccountInv, MailOK
<1>2. 0 \notin gone /\ \A i \in Identities : i \notin gone
  <2>1. 1..issued \subseteq Nat /\ 0 \notin 1..issued
    BY <1>1
  <2>2. QED BY <1>1, <2>1, AccountAssumption
<1>3. exists = "no" => ~Bearer /\ issued = 0
  BY DEF AccountInv, NobodyYet, Bearer
<1>4. CASE Register(r)
  BY <1>2, <1>4, StartKeeps DEF Register, Calls
<1>5. CASE CreateByAdmin(r)
  BY <1>2, <1>5, StartKeeps DEF CreateByAdmin, Calls
<1>6. CASE Resend(r)
  BY <1>2, <1>3, <1>6, StartKeeps DEF Resend, Calls
<1>7. CASE Forgot(r)
  BY <1>2, <1>7, StartKeeps DEF Forgot, Calls
<1>8. CASE VerifyEmail(r)
  <2>1. PICK t \in 1..issued : Start(r, "verifyEmail", t)
    BY <1>8 DEF VerifyEmail
  <2>2. t \in Nat /\ exists # "no"
    BY <1>1, <1>3
  <2>3. QED BY <2>1, <2>2, StartKeeps DEF Calls
<1>9. CASE Reset(r)
  <2>1. PICK t \in 1..issued : Start(r, "reset", t)
    BY <1>9 DEF Reset
  <2>2. t \in Nat /\ exists # "no"
    BY <1>1, <1>3
  <2>3. QED BY <2>1, <2>2, StartKeeps DEF Calls
<1>10. CASE Callback(r)
  <2>1. PICK i \in Identities : Start(r, "oauth", i)
    BY <1>10 DEF Callback
  <2>2. QED BY <1>2, <2>1, StartKeeps DEF Calls
<1>11. CASE Link(r)
  <2>1. PICK i \in Identities : Start(r, "link", i)
    BY <1>11 DEF Link
  <2>2. exists # "no"
    BY <1>3, <1>11 DEF Link
  <2>3. QED BY <1>2, <2>1, <2>2, StartKeeps DEF Calls
<1>12. CASE Unlink(r)
  <2>1. PICK i \in Identities : Start(r, "unlink", i)
    BY <1>12 DEF Unlink
  <2>2. exists # "no"
    BY <1>3, <1>12 DEF Unlink
  <2>3. QED BY <1>2, <2>1, <2>2, StartKeeps DEF Calls
<1>13. CASE Invalidate(r)
  BY <1>2, <1>13, StartKeeps DEF Invalidate, Calls
<1>14. QED BY <1>4, <1>5, <1>6, <1>7, <1>8, <1>9, <1>10, <1>11, <1>12, <1>13

-----------------------------------------------------------------------------
(* A call goes on, or returns, and changes nothing else.                   *)
LEMMA MoveKeeps ==
  ASSUME AccountInv, NEW r \in Requests, NEW l \in Stages \ {"begin"}, Advance(r, l),
         UNCHANGED <<vars, person, passwd, mail, access>>,
         call[r].pc # "idle", ~SigningUp(r), ~Recorder(call[r]),
         l # "idle" => /\ ~call[r].late /\ Place(call[r].kind, l)
                       /\ l \notin {"token", "answer", "revoke", "bump", "record", "workspace",
                                    "count", "delete", "recent"}
                       /\ l = "write" => call[r].kind = "verifyEmail"
                       /\ l = "account" => call[r].kind # "oauth"
                       /\ exists = "no" => l \in {"create", "email"}
  PROVE  AccountInv'
<1>1. PICK c : c = call[r]
  OBVIOUS
<1>2. PICK d : d = Went(c, l)
  OBVIOUS
<1>3. c \in Call /\ CallInv(c) /\ CallOK
  BY <1>1, CallTypes DEF AccountInv
<1>4. /\ d \in Call /\ d.pc = l /\ (l # "idle" => d.kind = c.kind /\ d.version = c.version)
      /\ (l = "idle" => d = NoCall)
  BY <1>2, <1>3, WentTypes DEF Went
<1>5. call' = [call EXCEPT ![r] = d]
  BY <1>1, <1>2, <1>3, AdvanceWent
<1>6. Grows /\ Counters
  BY StaysGrows DEF mail, person, passwd, access
<1>7. CallInv(d)'
  <2>1. CASE l = "idle"
    <3>1. CallInv(NoCall)'
      BY <1>6, NoCallKeeps
    <3>2. QED BY <1>4, <2>1, <3>1
  <2>2. CASE l # "idle"
    <3>1. ~HasRead(d)
      BY <1>1, <1>4, <2>2 DEF HasRead
    <3>2. CallInv(Went(c, l))'
      BY <1>1, <1>2, <1>6, <2>2, <3>1, WentKeeps
    <3>3. QED BY <1>2, <3>2
  <2>3. QED BY <2>1, <2>2
<1>8. ~Recorder(d) /\ ~Writer(d)
  BY <1>1, <1>4 DEF Recorder, Writer, NoCall
<1>9. exists = "no" => NobodyCalls(d)
  <2>1. exists = "no" => NobodyCalls(c)
    BY <1>1 DEF AccountInv, NobodyYet
  <2>2. QED BY <1>4, <2>1 DEF NobodyCalls, NoCall
<1>10. QED BY <1>1, <1>4, <1>5, <1>7, <1>8, <1>9, OnlyCall

(* Who is late has begun with a token.                                     *)
LEMMA LateHasToken ==
  ASSUME AccountInv, NEW r \in Requests, call[r].late
  PROVE  call[r].kind \in {"reset", "verifyEmail"} /\ call[r].arg \in gone /\ call[r].pc = "begin"
BY CallTypes DEF CallInv, MailCall

(* Some calls need an account.                                             *)
LEMMA CallExists ==
  ASSUME AccountInv, NEW r \in Requests,
         \/ call[r].kind \in {"resend", "verifyEmail", "reset", "link", "unlink"}
         \/ call[r].pc \notin {"idle", "begin", "create", "email", "fresh", "revoke", "answer"}
  PROVE  exists # "no"
<1>1. SUFFICES ASSUME exists = "no" PROVE FALSE
  OBVIOUS
<1>2. NobodyCalls(call[r])
  BY <1>1 DEF AccountInv, NobodyYet
<1>3. Null \notin Calls
  BY AccountAssumption
<1>4. QED BY <1>2, <1>3 DEF NobodyCalls, Calls

LEMMA MovesKeep ==
  ASSUME AccountInv, NEW r \in Requests,
         \/ FindFree(r) \/ RequestEmailVerification(r) \/ ForgotPassword(r) \/ FindToken(r)
         \/ StartLink(r) \/ LinkToUser(r) \/ FindByIdAndUser(r)
  PROVE  AccountInv'
<1>1. CASE FindFree(r)
  <2>1. /\ call[r].kind \in {"register", "create", "oauth"} /\ call[r].pc \in {"begin", "email"}
        /\ Advance(r, "create") /\ UNCHANGED <<vars, person, passwd, mail, access>>
    BY <1>1 DEF FindFree, Is
  <2>2. ~SigningUp(r) /\ ~Recorder(call[r]) /\ ~call[r].late
    BY <2>1, LateHasToken DEF SigningUp, Is, Recorder
  <2>3. "create" \in Stages /\ Place(call[r].kind, "create")
    BY <2>1, AccountAssumption DEF Stages, Place, Calls
  <2>4. QED BY <2>1, <2>2, <2>3, MoveKeeps
<1>2. CASE RequestEmailVerification(r)
  <2>1. PICK l \in {"idle", "pending"} : Advance(r, l)
    BY <1>2 DEF RequestEmailVerification
  <2>2. /\ call[r].kind \in {"register", "resend"} /\ call[r].pc \in {"begin", "ask"}
        /\ (call[r].kind = "register" => call[r].pc = "ask")
        /\ UNCHANGED <<vars, person, passwd, mail, access>>
    BY <1>2 DEF RequestEmailVerification, Is
  <2>3. ~SigningUp(r) /\ ~Recorder(call[r]) /\ ~call[r].late
    BY <2>2, LateHasToken DEF SigningUp, Is, Recorder
  <2>4. l \in Stages /\ (l # "idle" => Place(call[r].kind, l))
    BY <2>1, <2>2, AccountAssumption DEF Stages, Place, Calls
  <2>5. exists # "no"
    BY <2>2, CallExists
  <2>6. QED BY <2>1, <2>2, <2>3, <2>4, <2>5, MoveKeeps
<1>3. CASE ForgotPassword(r)
  <2>1. PICK l \in {"idle", "pending"} : Advance(r, l) /\ (l = "pending" => exists = "yes")
    BY <1>3 DEF ForgotPassword, FoundByEmail
  <2>2. /\ call[r].kind = "forgot" /\ call[r].pc = "begin"
        /\ UNCHANGED <<vars, person, passwd, mail, access>>
    BY <1>3 DEF ForgotPassword, Is
  <2>3. ~SigningUp(r) /\ ~Recorder(call[r]) /\ ~call[r].late
    BY <2>2, LateHasToken DEF SigningUp, Is, Recorder
  <2>4. l \in Stages /\ (l # "idle" => Place(call[r].kind, l))
    BY <2>1, <2>2, AccountAssumption DEF Stages, Place, Calls
  <2>5. QED BY <2>1, <2>2, <2>3, <2>4, MoveKeeps
<1>4. CASE FindToken(r)
  <2>1. PICK l \in {"user", "write"} : Advance(r, l) /\ l = IF call[r].kind = "reset" THEN "user" ELSE "write"
    BY <1>4 DEF FindToken
  <2>2. /\ call[r].kind \in {"reset", "verifyEmail"} /\ call[r].pc = "begin"
        /\ UNCHANGED <<vars, person, passwd, mail, access>>
    BY <1>4 DEF FindToken, Is
  <2>3. ~SigningUp(r) /\ ~Recorder(call[r])
    BY <2>2 DEF SigningUp, Is, Recorder
  <2>4. ~call[r].late
    <3>1. PICK t \in tokens : t.id = call[r].arg /\ ~t.used
      BY <1>4 DEF FindToken, FindByTokenHash
    <3>2. t.id \notin gone
      BY <3>1 DEF AccountInv, TokensInv
    <3>3. QED BY <3>1, <3>2, LateHasToken
  <2>5. l \in Stages /\ Place(call[r].kind, l)
    BY <2>1, <2>2, AccountAssumption DEF Stages, Place, Calls
  <2>6. exists # "no"
    BY <2>2, CallExists
  <2>7. QED BY <2>1, <2>2, <2>3, <2>4, <2>5, <2>6, MoveKeeps
<1>5. CASE StartLink(r)
  <2>1. /\ call[r].kind = "link" /\ call[r].pc = "begin" /\ Advance(r, "callback")
        /\ UNCHANGED <<vars, person, passwd, mail, access>>
    BY <1>5 DEF StartLink, Is
  <2>2. ~SigningUp(r) /\ ~Recorder(call[r]) /\ ~call[r].late
    BY <2>1, LateHasToken DEF SigningUp, Is, Recorder
  <2>3. "callback" \in Stages /\ Place(call[r].kind, "callback")
    BY <2>1, AccountAssumption DEF Stages, Place, Calls
  <2>4. exists # "no"
    BY <2>1, CallExists
  <2>5. QED BY <2>1, <2>2, <2>3, <2>4, MoveKeeps
<1>6. CASE LinkToUser(r)
  <2>1. PICK l \in {"idle", "account"} : Advance(r, l)
    BY <1>6 DEF LinkToUser
  <2>2. /\ call[r].kind = "link" /\ call[r].pc = "callback"
        /\ UNCHANGED <<vars, person, passwd, mail, access>>
    BY <1>6 DEF LinkToUser, Is
  <2>3. ~SigningUp(r) /\ ~Recorder(call[r]) /\ ~call[r].late
    BY <2>2, LateHasToken DEF SigningUp, Is, Recorder
  <2>4. l \in Stages /\ (l # "idle" => Place(call[r].kind, l))
    BY <2>1, <2>2, AccountAssumption DEF Stages, Place, Calls
  <2>5. exists # "no"
    BY <2>2, CallExists
  <2>6. QED BY <2>1, <2>2, <2>3, <2>4, <2>5, MoveKeeps
<1>7. CASE FindByIdAndUser(r)
  <2>1. /\ call[r].kind = "unlink" /\ call[r].pc = "begin" /\ Advance(r, "user")
        /\ UNCHANGED <<vars, person, passwd, mail, access>>
    BY <1>7 DEF FindByIdAndUser, Is
  <2>2. ~SigningUp(r) /\ ~Recorder(call[r]) /\ ~call[r].late
    BY <2>1, LateHasToken DEF SigningUp, Is, Recorder
  <2>3. "user" \in Stages /\ Place(call[r].kind, "user")
    BY <2>1, AccountAssumption DEF Stages, Place, Calls
  <2>4. exists # "no"
    BY <2>1, CallExists
  <2>5. QED BY <2>1, <2>2, <2>3, <2>4, MoveKeeps
<1>8. QED BY <1>1, <1>2, <1>3, <1>4, <1>5, <1>6, <1>7

LEMMA ReadUserKeeps == ASSUME AccountInv, NEW r \in Requests, ReadUser(r) PROVE AccountInv'
<1>1. PICK c : c = call[r]
  OBVIOUS
<1>2. PICK u \in visible :
        call' = [call EXCEPT ![r].user = u,
                             ![r].pc = IF call[r].kind = "reset" THEN "recent" ELSE "count"]
  BY DEF ReadUser, FindById
<1>3. c \in Call /\ call \in [Requests -> Call] /\ CallInv(c) /\ u \in Row /\ c.pc = "user"
      /\ UNCHANGED <<vars, person, passwd, mail, access>>
  BY <1>1, CallTypes DEF AccountInv, SignInInv, TypeOK, ReadUser
<1>4. c.kind \in {"reset", "unlink"} /\ ~c.late /\ exists # "no"
  BY <1>1, <1>3, CallExists, LateHasToken DEF CallInv, Place
<1>5. u.password <= Len(past)
  BY <1>4 DEF AccountInv, RowPast
<1>6. PICK d : d = [c EXCEPT !.user = u, !.pc = IF c.kind = "reset" THEN "recent" ELSE "count"]
  OBVIOUS
<1>7. call' = [call EXCEPT ![r] = d]
  BY <1>1, <1>2, <1>3, <1>6
<1>8. /\ d \in Call /\ d.pc = (IF c.kind = "reset" THEN "recent" ELSE "count") /\ d.user = u
      /\ d.kind = c.kind /\ d.arg = c.arg /\ d.version = c.version /\ d.old = c.old /\ d.late = c.late
  BY <1>3, <1>6 DEF Call
<1>9. CallInv(d)'
  <2>1. MailCall(d)'
    BY <1>3, <1>4, <1>8 DEF CallInv, MailCall, mail
  <2>2. VersionCall(d)' /\ PastCall(d)' /\ WholeCall(d)'
    BY <1>3, <1>4, <1>5, <1>8 DEF CallInv, VersionCall, PastCall, WholeCall, passwd
  <2>3. Place(d.kind, d.pc) /\ d.pc # "idle"
    BY <1>4, <1>8, AccountAssumption DEF Place, Calls
  <2>4. QED BY <2>1, <2>2, <2>3 DEF CallInv
<1>10. ~SigningUp(r) /\ ~Recorder(c) /\ ~Recorder(d) /\ ~Writer(d)
  BY <1>1, <1>3, <1>8 DEF SigningUp, Is, Recorder, Writer
<1>11. QED BY <1>1, <1>3, <1>4, <1>7, <1>8, <1>9, <1>10, OnlyCall

LEMMA FindByProviderIdentityKeeps ==
  ASSUME AccountInv, NEW r \in Requests, FindByProviderIdentity(r) PROVE AccountInv'
<1>1. PICK c : c = call[r]
  OBVIOUS
<1>2. c \in Call /\ call \in [Requests -> Call] /\ CallInv(c) /\ c.pc = "begin" /\ c.kind = "oauth"
      /\ UNCHANGED <<vars, person, passwd, mail, access>>
  BY <1>1, CallTypes DEF FindByProviderIdentity, Is
<1>3. ~SigningUp(r) /\ ~Recorder(c) /\ ~c.late
  BY <1>1, <1>2, LateHasToken DEF SigningUp, Is, Recorder
<1>4. CASE c.arg \notin linked
  <2>1. Advance(r, "email")
    BY <1>1, <1>4 DEF FindByProviderIdentity
  <2>2. "email" \in Stages /\ Place(c.kind, "email")
    BY <1>2, AccountAssumption DEF Stages, Place, Calls
  <2>3. QED BY <1>1, <1>2, <1>3, <2>1, <2>2, MoveKeeps
<1>5. CASE c.arg \in linked
  <2>1. PICK d : d = [c EXCEPT !.pc = "issue", !.version = Len(past)]
    OBVIOUS
  <2>2. call' = [call EXCEPT ![r] = d]
    BY <1>1, <1>2, <1>5, <2>1 DEF FindByProviderIdentity
  <2>3. Len(past) \in Nat
    BY DEF AccountInv, PasswordOK
  <2>4. /\ d \in Call /\ d.pc = "issue" /\ d.version = Len(past)
        /\ d.kind = c.kind /\ d.arg = c.arg /\ d.old = c.old /\ d.late = c.late
    BY <1>2, <2>1, <2>3 DEF Call
  <2>5. exists # "no"
    BY <1>5 DEF AccountInv, NobodyYet
  <2>6. CallInv(d)'
    <3>1. MailCall(d)'
      BY <1>2, <1>3, <2>4 DEF CallInv, MailCall, mail
    <3>2. VersionCall(d)' /\ PastCall(d)' /\ WholeCall(d)'
      BY <1>2, <2>3, <2>4 DEF CallInv, VersionCall, PastCall, HasRead, WholeCall, passwd
    <3>3. Place(d.kind, d.pc) /\ d.pc # "idle"
      BY <1>2, <2>4, AccountAssumption DEF Place, Calls
    <3>4. QED BY <3>1, <3>2, <3>3 DEF CallInv
  <2>7. ~Recorder(d) /\ ~Writer(d)
    BY <2>4 DEF Recorder, Writer
  <2>8. QED BY <1>1, <1>2, <1>3, <2>2, <2>4, <2>5, <2>6, <2>7, OnlyCall
<1>6. QED BY <1>4, <1>5

LEMMA CountRemainingKeeps ==
  ASSUME AccountInv, NEW r \in Requests, CountRemaining(r) PROVE AccountInv'
<1>1. PICK c : c = call[r]
  OBVIOUS
<1>2. PICK d : d = [c EXCEPT !.seen = linked, !.pc = "delete"]
  OBVIOUS
<1>3. c \in Call /\ call \in [Requests -> Call] /\ CallInv(c) /\ c.pc = "count" /\ c.kind = "unlink"
      /\ (c.user.password # 0 \/ Cardinality(linked) > 1)
      /\ UNCHANGED <<vars, person, passwd, mail, access>>
  BY <1>1, CallTypes DEF CountRemaining, Is
<1>4. ~SigningUp(r) /\ ~Recorder(c) /\ ~c.late /\ exists # "no"
  BY <1>1, <1>3, LateHasToken, CallExists DEF SigningUp, Is, Recorder
<1>5. call' = [call EXCEPT ![r] = d]
  BY <1>1, <1>2, <1>3 DEF CountRemaining
<1>6. /\ d \in Call /\ d.pc = "delete" /\ d.seen = linked /\ d.user = c.user
      /\ d.kind = c.kind /\ d.arg = c.arg /\ d.version = c.version /\ d.old = c.old /\ d.late = c.late
  BY <1>2, <1>3 DEF Call, AccountInv, PersonOK
<1>7. CallInv(d)'
  <2>1. MailCall(d)'
    BY <1>3, <1>4, <1>6 DEF CallInv, MailCall, mail
  <2>2. VersionCall(d)' /\ PastCall(d)' /\ WholeCall(d)'
    BY <1>3, <1>6 DEF CallInv, VersionCall, PastCall, HasRead, WholeCall, passwd
  <2>3. Place(d.kind, d.pc) /\ d.pc # "idle"
    BY <1>3, <1>6, AccountAssumption DEF Place, Calls
  <2>4. QED BY <2>1, <2>2, <2>3 DEF CallInv
<1>8. ~Recorder(d) /\ ~Writer(d)
  BY <1>3, <1>6 DEF Recorder, Writer
<1>9. QED BY <1>1, <1>3, <1>4, <1>5, <1>6, <1>7, <1>8, OnlyCall

-----------------------------------------------------------------------------
(* What stays with the variables it is about.                              *)
LEMMA Frames ==
  ASSUME AccountInv
  PROVE  /\ UNCHANGED vars => SignInInv'
         /\ UNCHANGED person => PersonOK'
         /\ UNCHANGED passwd => PasswordOK' /\ NoReuse'
         /\ UNCHANGED mail => MailOK' /\ TokensInv'
         /\ UNCHANGED <<access, past>> => AccessOK' /\ Outlives(changed)' /\ CutoffHolds'
         /\ UNCHANGED <<exists, row, visible, past>> => RowPast'
         /\ UNCHANGED <<exists, job, deleted, overtaken>> => LifeInv'
         /\ exists' # "no" => NobodyYet'
<1>1. UNCHANGED vars => SignInInv'
  BY SameKeeps DEF AccountInv
<1>2. UNCHANGED person => PersonOK'
  BY DEF AccountInv, PersonOK, person
<1>3. UNCHANGED passwd => PasswordOK' /\ NoReuse'
  BY DEF AccountInv, PasswordOK, NoReuse, passwd
<1>4. UNCHANGED mail => MailOK' /\ TokensInv'
  BY DEF AccountInv, MailOK, TokensInv, mail
<1>5. UNCHANGED <<access, past>> => AccessOK' /\ Outlives(changed)' /\ CutoffHolds'
  BY DEF AccountInv, AccessOK, Outlives, CutoffHolds, access
<1>6. UNCHANGED <<exists, row, visible, past>> => RowPast'
  BY DEF AccountInv, RowPast
<1>7. UNCHANGED <<exists, job, deleted, overtaken>> => LifeInv'
  BY DEF AccountInv, LifeInv, LiveIsKept
<1>8. exists' # "no" => NobodyYet'
  BY DEF NobodyYet
<1>9. QED BY <1>1, <1>2, <1>3, <1>4, <1>5, <1>6, <1>7, <1>8

(* A call that changes what hangs on the user, and not the passwords.      *)
LEMMA PersonCall ==
  ASSUME AccountInv, NEW r \in Requests, NEW d \in Call, call' = [call EXCEPT ![r] = d], CallInv(d)',
         UNCHANGED <<vars, exists, job, overtaken, passwd, mail, access>>,
         PersonOK', SignUpWhole', workspace => workspace', exists # "no",
         ~Recorder(d), ~Writer(d), ~Recorder(call[r])
  PROVE  AccountInv'
<1>1. Grows /\ Counters
  <2>1. sessions \subseteq Session /\ issued \in Nat /\ Len(past) \in Nat
    BY AccountAssumption DEF AccountInv, AccessOK, MailOK, PasswordOK
  <2>2. UNCHANGED <<tokens, issued, gone, past, sessions>>
    BY DEF mail, passwd, access
  <2>3. QED BY <2>1, <2>2 DEF Grows, Counters
<1>2. /\ CallOK' /\ \A q \in Requests : CallInv(call[q])'
      /\ call'[r] = d /\ \A q \in Requests \ {r} : call'[q] = call[q]
  BY <1>1, CallStep
<1>3. UNCHANGED <<exists, past, history, row, visible, deleted, disturbed>>
  BY DEF passwd, vars, factor
<1>4. HistoryInv'
  BY <1>2, <1>3, HistoryStays
<1>5. QED BY <1>2, <1>3, <1>4, Frames DEF AccountInv

LEMMA CreateWorkspaceKeeps ==
  ASSUME AccountInv, NEW r \in Requests, CreateWorkspace(r) PROVE AccountInv'
<1>1. PICK c : c = call[r]
  OBVIOUS
<1>2. c \in Call /\ CallInv(c) /\ c.pc = "workspace" /\ c.kind \in {"register", "create", "oauth"}
      /\ workspace' = TRUE /\ CallOK
      /\ UNCHANGED <<vars, exists, linked, job, overtaken, overlapped, halfway, passwd, mail, access>>
  BY <1>1, CallTypes DEF CreateWorkspace, CallInv, Place, AccountInv
<1>3. PICK l \in {"ask", "idle", "account"} :
        /\ Advance(r, l)
        /\ l = "ask" => c.kind = "register"
        /\ l = "account" => c.kind = "oauth"
        /\ c.kind = "oauth" => l = "account"
  <2>1. CASE c.kind = "register"
    BY <1>1, <2>1 DEF CreateWorkspace
  <2>2. CASE c.kind = "create"
    BY <1>1, <2>2 DEF CreateWorkspace
  <2>3. CASE c.kind = "oauth"
    BY <1>1, <2>3 DEF CreateWorkspace
  <2>4. QED BY <1>2, <2>1, <2>2, <2>3
<1>4. l \in Stages \ {"begin"} /\ (l # "idle" => Place(c.kind, l))
  BY <1>3, AccountAssumption DEF Stages, Place, Calls
<1>5. PICK d : d = Went(c, l)
  OBVIOUS
<1>6. d \in Call /\ d.pc = l /\ call' = [call EXCEPT ![r] = d] /\ (l # "idle" => d.kind = c.kind)
      /\ (l = "idle" => d = NoCall)
  BY <1>1, <1>2, <1>3, <1>4, <1>5, WentTypes, AdvanceWent DEF Went
<1>7. ~c.late /\ exists # "no" /\ exists' = exists
  BY <1>1, <1>2, LateHasToken, CallExists
<1>8. Grows /\ Counters
  <2>1. sessions \subseteq Session /\ issued \in Nat /\ Len(past) \in Nat
    BY AccountAssumption DEF AccountInv, AccessOK, MailOK, PasswordOK
  <2>2. UNCHANGED <<tokens, issued, gone, past, sessions>>
    BY <1>2 DEF mail, passwd, access
  <2>3. QED BY <1>2, <2>1, <2>2 DEF Grows, Counters
<1>9. CallInv(d)'
  <2>1. CASE l = "idle"
    <3>1. CallInv(NoCall)'
      BY <1>8, NoCallKeeps
    <3>2. QED BY <1>6, <2>1, <3>1
  <2>2. CASE l # "idle"
    <3>1. ~HasRead(Went(c, l))
      BY <1>3, <1>5, <1>6, <2>2 DEF HasRead
    <3>2. CallInv(Went(c, l))'
      BY <1>1, <1>2, <1>3, <1>4, <1>7, <1>8, <2>2, <3>1, WentKeeps
    <3>3. QED BY <1>5, <3>2
  <2>3. QED BY <2>1, <2>2
<1>10. SignUpWhole'
  <2>1. CASE c.kind = "oauth"
    <3>1. SigningUp(r)'
      BY <1>2, <1>3, <1>6, <2>1 DEF SigningUp, Is, CallOK
    <3>2. QED BY <3>1 DEF SignUpWhole
  <2>2. CASE c.kind # "oauth"
    <3>1. Len(past) # 0
      BY <1>2, <2>2 DEF CallInv, WholeCall
    <3>2. exists = "yes" => row.password # 0
      BY <3>1 DEF AccountInv, RowPast
    <3>3. row' = row
      BY <1>2 DEF vars, factor
    <3>4. QED BY <1>2, <1>7, <3>2, <3>3 DEF SignUpWhole
  <2>3. QED BY <2>1, <2>2
<1>11. ~Recorder(c) /\ ~Recorder(d) /\ ~Writer(d)
  BY <1>2, <1>3, <1>6 DEF Recorder, Writer
<1>12. PersonOK'
  BY <1>2 DEF AccountInv, PersonOK
<1>13. QED BY <1>1, <1>2, <1>6, <1>7, <1>9, <1>10, <1>11, <1>12, PersonCall

LEMMA CreateAccountKeeps ==
  ASSUME AccountInv, NEW r \in Requests, CreateAccount(r) PROVE AccountInv'
<1>1. PICK c : c = call[r]
  OBVIOUS
<1>2. c \in Call /\ CallInv(c) /\ c.pc = "account" /\ c.kind \in {"link", "oauth"} /\ CallOK
      /\ linked' = linked \cup {c.arg}
      /\ call' = [call EXCEPT ![r] = IF c.kind = "link" THEN NoCall
                                     ELSE [c EXCEPT !.pc = "issue", !.version = Len(past)]]
      /\ UNCHANGED <<vars, exists, workspace, job, overtaken, overlapped, halfway, passwd, mail, access>>
  BY <1>1, CallTypes DEF CreateAccount, CallInv, Place, AccountInv
<1>3. ~c.late /\ exists # "no" /\ exists' = exists
  BY <1>1, <1>2, LateHasToken, CallExists
<1>4. Grows /\ Counters
  BY <1>2, StaysGrows DEF mail, passwd, access
<1>5. PICK d : d = IF c.kind = "link" THEN NoCall
                   ELSE [c EXCEPT !.pc = "issue", !.version = Len(past)]
  OBVIOUS
<1>6. call' = [call EXCEPT ![r] = d]
  BY <1>2, <1>5
<1>7. Len(past) \in Nat
  BY DEF AccountInv, PasswordOK
<1>8. /\ d \in Call
      /\ c.kind = "link" => d = NoCall
      /\ c.kind = "oauth" => /\ d.pc = "issue" /\ d.version = Len(past) /\ d.kind = c.kind
                             /\ d.arg = c.arg /\ d.old = c.old /\ d.late = c.late
  BY <1>2, <1>5, <1>7, NoCallType DEF Call
<1>9. CallInv(d)'
  <2>1. CASE c.kind = "link"
    <3>1. CallInv(NoCall)'
      BY <1>4, NoCallKeeps
    <3>2. QED BY <1>8, <2>1, <3>1
  <2>2. CASE c.kind = "oauth"
    <3>1. MailCall(d)'
      BY <1>2, <1>3, <1>8, <2>2 DEF CallInv, MailCall, mail
    <3>2. VersionCall(d)' /\ PastCall(d)' /\ WholeCall(d)'
      BY <1>2, <1>7, <1>8, <2>2 DEF CallInv, VersionCall, PastCall, HasRead, WholeCall, passwd
    <3>3. Place(d.kind, d.pc) /\ d.pc # "idle"
      BY <1>2, <1>8, <2>2, AccountAssumption DEF Place, Calls
    <3>4. QED BY <3>1, <3>2, <3>3 DEF CallInv
  <2>3. QED BY <1>2, <2>1, <2>2
<1>10. SignUpWhole'
  <2>1. CASE c.kind = "oauth"
    BY <1>2, <2>1 DEF CallInv, WholeCall, SignUpWhole
  <2>2. CASE c.kind = "link"
    <3>1. ~SigningUp(r)
      BY <1>1, <1>2, <2>2 DEF SigningUp, Is
    <3>2. \A q \in Requests : SigningUp(q) => SigningUp(q)'
      BY <1>6, <3>1, <1>2 DEF SigningUp, Is, CallOK
    <3>3. QED BY <1>2, <3>2, WholeStays DEF vars, factor
  <2>3. QED BY <1>2, <2>1, <2>2
<1>11. ~Recorder(c) /\ ~Recorder(d) /\ ~Writer(d)
  BY <1>2, <1>8 DEF Recorder, Writer, NoCall
<1>12. PersonOK'
  BY <1>2 DEF AccountInv, PersonOK, CallInv, WholeCall
<1>13. QED BY <1>1, <1>2, <1>3, <1>6, <1>8, <1>9, <1>10, <1>11, <1>12, PersonCall

LEMMA DeleteAccountKeeps ==
  ASSUME AccountInv, NEW r \in Requests, DeleteAccount(r) PROVE AccountInv'
<1>1. PICK c : c = call[r]
  OBVIOUS
<1>2. c \in Call /\ CallInv(c) /\ c.pc = "delete" /\ c.kind = "unlink" /\ CallOK
      /\ linked' = linked \ {c.arg} /\ overlapped' = (overlapped \/ c.seen # linked)
      /\ Advance(r, "idle")
      /\ UNCHANGED <<vars, exists, workspace, job, overtaken, halfway, passwd, mail, access>>
  BY <1>1, CallTypes DEF DeleteAccount, Is, AccountInv
<1>3. exists # "no" /\ exists' = exists
  BY <1>1, <1>2, CallExists
<1>4. Grows /\ Counters
  BY <1>2, StaysGrows DEF mail, passwd, access
<1>5. call' = [call EXCEPT ![r] = NoCall]
  BY <1>2, AdvanceWent DEF Went
<1>6. CallInv(NoCall)'
  BY <1>4, NoCallKeeps
<1>7. SignUpWhole'
  <2>1. SUFFICES ASSUME exists = "yes", ~halfway, \A q \in Requests : ~SigningUp(q)
                 PROVE  workspace /\ (row.password # 0 \/ linked' # {} \/ overlapped')
    <3>1. \A q \in Requests : SigningUp(q) => SigningUp(q)'
      BY <1>1, <1>2, <1>5 DEF SigningUp, Is, CallOK
    <3>2. row' = row
      BY <1>2 DEF vars, factor
    <3>3. QED BY <1>2, <3>1, <3>2 DEF SignUpWhole
  <2>2. workspace /\ (row.password # 0 \/ linked # {} \/ overlapped)
    BY <2>1 DEF AccountInv, SignUpWhole
  <2>3. CASE c.seen # linked
    BY <1>2, <2>2, <2>3
  <2>4. CASE c.seen = linked /\ c.user.password # 0
    <3>1. c.user.password \in Nat /\ c.user.password <= Len(past) /\ Len(past) \in Nat
      BY <1>2 DEF CallInv, PastCall, HasRead, Row, AccountInv, PasswordOK
    <3>2. row.password = Len(past)
      BY <2>1 DEF AccountInv, RowPast
    <3>3. QED BY <2>2, <2>4, <3>1, <3>2
  <2>5. CASE c.seen = linked /\ Cardinality(c.seen) > 1
    <3>1. linked' # {}
      <4>1. SUFFICES ASSUME linked' = {} PROVE FALSE
        OBVIOUS
      <4>2. linked \subseteq {c.arg}
        BY <1>2, <4>1
      <4>3. IsFiniteSet({c.arg}) /\ Cardinality({c.arg}) = 1
        BY FS_Singleton
      <4>4. Cardinality(linked) \in Nat /\ Cardinality(linked) <= 1
        BY <4>2, <4>3, FS_Subset, FS_CardinalityType
      <4>5. QED BY <2>5, <4>4
    <3>2. QED BY <2>2, <3>1
  <2>6. c.user.password # 0 \/ Cardinality(c.seen) > 1
    BY <1>2 DEF CallInv, WholeCall
  <2>7. QED BY <2>3, <2>4, <2>5, <2>6
<1>8. ~Recorder(c) /\ ~Recorder(NoCall) /\ ~Writer(NoCall)
  BY <1>2 DEF Recorder, Writer, NoCall
<1>9. PersonOK'
  BY <1>2 DEF AccountInv, PersonOK
<1>10. QED BY <1>1, <1>2, <1>3, <1>5, <1>6, <1>7, <1>8, <1>9, NoCallType, PersonCall

LEMMA LoseKeeps == ASSUME AccountInv, NEW r \in Requests, Lose(r) PROVE AccountInv'
<1>1. /\ Advance(r, "idle") /\ CallOK
      /\ disturbed' = (disturbed \/ (call[r].kind = "reset" /\ call[r].pc \in {"bump", "record"}))
      /\ halfway' = (halfway \/ SigningUp(r))
      /\ UNCHANGED <<vars, exists, workspace, linked, job, overtaken, overlapped,
                     history, past, reused, mail, access>>
  BY DEF Lose, AccountInv
<1>2. call' = [call EXCEPT ![r] = NoCall]
  BY <1>1, AdvanceWent DEF Went
<1>3. Grows /\ Counters
  BY <1>1, StaysGrows DEF mail, access
<1>4. CallInv(NoCall)'
  BY <1>3, NoCallKeeps
<1>5. /\ CallOK' /\ \A q \in Requests : CallInv(call[q])'
      /\ call'[r] = NoCall /\ \A q \in Requests \ {r} : call'[q] = call[q]
  BY <1>2, <1>3, <1>4, NoCallType, CallStep
<1>6. SignInInv' /\ MailOK' /\ TokensInv' /\ AccessOK' /\ Outlives(changed)' /\ CutoffHolds'
  BY <1>1, Frames
<1>7. RowPast' /\ LifeInv'
  BY <1>1, Frames DEF vars, factor
<1>8. PersonOK' /\ PasswordOK' /\ NoReuse'
  BY <1>1 DEF AccountInv, PersonOK, PasswordOK, NoReuse
<1>9. NobodyYet'
  <2>1. NobodyCalls(NoCall)
    BY DEF NobodyCalls, NoCall
  <2>2. NobodyYet /\ UNCHANGED <<exists, past, history, issued, changed, linked, sessions, challenge, rq>>
    BY <1>1 DEF AccountInv, mail, access, vars
  <2>3. QED BY <1>5, <2>1, <2>2 DEF NobodyYet
<1>10. SignUpWhole'
  <2>1. \A q \in Requests \ {r} : SigningUp(q) => SigningUp(q)'
    BY <1>5 DEF SigningUp, Is
  <2>2. SignUpWhole /\ row' = row
    BY <1>1 DEF AccountInv, vars, factor
  <2>3. CASE SigningUp(r)
    BY <1>1, <2>3 DEF SignUpWhole
  <2>4. CASE ~SigningUp(r)
    BY <1>1, <2>1, <2>2, <2>4 DEF SignUpWhole
  <2>5. QED BY <2>3, <2>4
<1>11. HistoryInv'
  <2>1. CASE Recorder(call[r])
    BY <1>1, <2>1 DEF HistoryInv, Recorder
  <2>2. CASE ~Recorder(call[r])
    <3>1. ~Recorder(call'[r]) /\ ~Writer(call'[r])
      BY <1>5 DEF Recorder, Writer, NoCall
    <3>2. ~disturbed' => ~disturbed
      BY <1>1
    <3>3. QED BY <1>1, <1>5, <2>2, <3>1, <3>2, HistoryStays
  <2>3. QED BY <2>1, <2>2
<1>12. QED BY <1>5, <1>6, <1>7, <1>8, <1>9, <1>10, <1>11 DEF AccountInv

-----------------------------------------------------------------------------
(* A call that changes tokens, sessions or the cut-off.                    *)
LEMMA SideCall ==
  ASSUME AccountInv, Grows, Counters, NEW r \in Requests, NEW d \in Call,
         call' = [call EXCEPT ![r] = d], CallInv(d)', UNCHANGED <<vars, person, passwd>>,
         MailOK', TokensInv', AccessOK', Outlives(changed)', CutoffHolds', NobodyYet',
         ~SigningUp(r), ~Recorder(d), ~Writer(d), ~Recorder(call[r])
  PROVE  AccountInv'
<1>1. /\ CallOK' /\ \A q \in Requests : CallInv(call[q])'
      /\ call'[r] = d /\ \A q \in Requests \ {r} : call'[q] = call[q]
  BY CallStep
<1>2. UNCHANGED <<exists, past, history, disturbed, row, visible, deleted, job, overtaken>>
  BY DEF person, passwd, vars, factor
<1>3. HistoryInv'
  BY <1>1, <1>2, HistoryStays
<1>4. SignUpWhole'
  <2>1. \A q \in Requests : SigningUp(q) => SigningUp(q)'
    BY <1>1 DEF SigningUp, Is
  <2>2. QED BY <1>2, <2>1, WholeStays DEF person
<1>5. QED BY <1>1, <1>2, <1>3, <1>4, Frames DEF AccountInv

LEMMA OutlivesStays ==
  ASSUME AccountInv, Grows, Counters, changed' = changed
  PROVE  Outlives(changed)'
<1>1. changed \in Nat /\ changed <= Len(past) /\ Outlives(changed)
  BY DEF AccountInv, AccessOK, PasswordOK
<1>2. SUFFICES ASSUME NEW s \in sessions', ~s.late PROVE s.version >= changed
  BY DEF Outlives
<1>3. s.version \in Nat
  BY DEF Grows, Session
<1>4. s \in sessions \/ s.version >= Len(past)
  BY <1>2 DEF Grows
<1>5. QED BY <1>1, <1>2, <1>3, <1>4 DEF Outlives, Counters

LEMMA DeletePendingKeeps ==
  ASSUME AccountInv, NEW r \in Requests, DeletePending(r) PROVE AccountInv'
<1>1. PICK c : c = call[r]
  OBVIOUS
<1>2. c \in Call /\ CallInv(c) /\ c.pc = "pending" /\ c.kind \in {"register", "resend", "forgot"}
      /\ CallOK /\ tokens' = {t \in tokens : t.for # For(c.kind) \/ t.used} /\ Advance(r, "token")
      /\ UNCHANGED <<vars, person, passwd, issued, gone, access>>
  BY <1>1, CallTypes DEF DeletePending, CallInv, Place, AccountInv
<1>3. ~c.late /\ exists # "no" /\ exists' = exists
  BY <1>1, <1>2, LateHasToken, CallExists DEF person
<1>4. Grows /\ Counters
  <2>1. sessions \subseteq Session /\ issued \in Nat /\ Len(past) \in Nat
    BY AccountAssumption DEF AccountInv, AccessOK, MailOK, PasswordOK
  <2>2. UNCHANGED <<issued, gone, past, sessions, workspace>> /\ tokens' \subseteq tokens
    BY <1>2 DEF passwd, access, person
  <2>3. QED BY <2>1, <2>2 DEF Grows, Counters
<1>5. "token" \in Stages \ {"idle", "begin"} /\ Place(c.kind, "token")
  BY <1>2, AccountAssumption DEF Stages, Place, Calls
<1>6. PICK d : d = Went(c, "token")
  OBVIOUS
<1>7. d \in Call /\ d.pc = "token" /\ call' = [call EXCEPT ![r] = d]
  BY <1>1, <1>2, <1>5, <1>6, WentTypes, AdvanceWent
<1>8. CallInv(d)'
  <2>1. \A t \in tokens' : t.id \in c.old => t.used
    BY <1>2 DEF CallInv, MailCall
  <2>2. ~HasRead(Went(c, "token"))
    BY <1>6, <1>7 DEF HasRead
  <2>3. CallInv(Went(c, "token"))'
    BY <1>1, <1>3, <1>4, <1>5, <2>1, <2>2, WentKeeps
  <2>4. QED BY <1>6, <2>3
<1>9. MailOK' /\ TokensInv'
  BY <1>2 DEF AccountInv, MailOK, TokensInv
<1>10. AccessOK' /\ Outlives(changed)' /\ CutoffHolds' /\ NobodyYet'
  BY <1>2, <1>3, Frames DEF passwd
<1>11. ~SigningUp(r) /\ ~Recorder(c) /\ ~Recorder(d) /\ ~Writer(d)
  BY <1>1, <1>2, <1>7 DEF SigningUp, Is, Recorder, Writer
<1>12. QED BY <1>1, <1>2, <1>4, <1>7, <1>8, <1>9, <1>10, <1>11, SideCall

LEMMA CreateTokenKeeps ==
  ASSUME AccountInv, NEW r \in Requests, CreateToken(r) PROVE AccountInv'
<1>1. PICK c : c = call[r]
  OBVIOUS
<1>2. PICK t : t = [id |-> issued + 1, for |-> For(c.kind), used |-> FALSE, expired |-> FALSE]
  OBVIOUS
<1>3. c \in Call /\ CallInv(c) /\ c.pc = "token" /\ c.kind \in {"register", "resend", "forgot"}
      /\ CallOK /\ issued < TokenBound /\ issued' = issued + 1 /\ tokens' = tokens \cup {t}
      /\ Advance(r, "answer") /\ UNCHANGED <<vars, person, passwd, gone, access>>
  BY <1>1, <1>2, CallTypes DEF CreateToken, CallInv, Place, AccountInv
<1>4. ~c.late /\ exists # "no" /\ exists' = exists
  BY <1>1, <1>3, LateHasToken, CallExists DEF person
<1>5. /\ issued \in Nat /\ TokenBound \in Nat /\ gone \subseteq 1..issued /\ tokens \subseteq Token
      /\ \A u \in tokens : u.id \in Nat /\ u.id <= issued
      /\ \A u, v \in tokens : u.id = v.id => u = v
      /\ \A u \in tokens : u.id \in gone => u.used
  BY AccountAssumption DEF AccountInv, MailOK, TokensInv, Token
<1>6. t \in Token /\ t.id = issued + 1 /\ ~t.used
  BY <1>2, <1>3, <1>5 DEF Token, For
<1>7. Grows /\ Counters
  <2>1. sessions \subseteq Session /\ Len(past) \in Nat
    BY DEF AccountInv, AccessOK, PasswordOK
  <2>2. UNCHANGED <<gone, past, sessions, workspace>>
    BY <1>3 DEF passwd, access, person
  <2>3. issued <= issued' /\ issued' \in Nat /\ t.id > issued
    BY <1>3, <1>5, <1>6
  <2>4. QED BY <1>3, <1>5, <2>1, <2>2, <2>3 DEF Grows, Counters
<1>8. "answer" \in Stages \ {"idle", "begin"} /\ Place(c.kind, "answer")
  BY <1>3, AccountAssumption DEF Stages, Place, Calls
<1>9. PICK d : d = Went(c, "answer")
  OBVIOUS
<1>10. d \in Call /\ d.pc = "answer" /\ call' = [call EXCEPT ![r] = d]
  BY <1>1, <1>3, <1>8, <1>9, WentTypes, AdvanceWent
<1>11. CallInv(d)'
  <2>1. t.id \notin c.old
    BY <1>3, <1>5, <1>6 DEF CallInv, MailCall
  <2>2. \A u \in tokens' : u.id \in c.old => u.used
    BY <1>3, <2>1 DEF CallInv, MailCall
  <2>3. c.version = 0
    BY <1>3 DEF CallInv, VersionCall
  <2>4. \A s \in sessions' : s.version >= c.version
    BY <1>7, <2>3 DEF Grows, Session
  <2>5. ~HasRead(Went(c, "answer"))
    BY <1>9, <1>10 DEF HasRead
  <2>6. CallInv(Went(c, "answer"))'
    BY <1>1, <1>3, <1>4, <1>7, <1>8, <2>2, <2>4, <2>5, WentKeeps
  <2>7. QED BY <1>9, <2>6
<1>12. MailOK' /\ TokensInv'
  <2>1. issued' \in 0..TokenBound /\ tokens' \subseteq Token /\ gone' \subseteq 1..issued'
    BY <1>3, <1>5, <1>6
  <2>2. \A u, v \in tokens' : u.id = v.id => u = v
    BY <1>3, <1>5, <1>6
  <2>3. \A u \in tokens' : u.id <= issued' /\ (u.id \in gone' => u.used)
    BY <1>3, <1>5, <1>6
  <2>4. QED BY <2>1, <2>2, <2>3 DEF MailOK, TokensInv
<1>13. AccessOK' /\ Outlives(changed)' /\ CutoffHolds' /\ NobodyYet'
  BY <1>3, <1>4, Frames DEF passwd
<1>14. ~SigningUp(r) /\ ~Recorder(c) /\ ~Recorder(d) /\ ~Writer(d)
  BY <1>1, <1>3, <1>10 DEF SigningUp, Is, Recorder, Writer
<1>15. QED BY <1>1, <1>3, <1>7, <1>10, <1>11, <1>12, <1>13, <1>14, SideCall

LEMMA MarkUsedKeeps ==
  ASSUME AccountInv, NEW r \in Requests, MarkUsed(r) PROVE AccountInv'
<1>1. PICK c : c = call[r]
  OBVIOUS
<1>2. PICK t \in tokens : t.id = c.arg /\ tokens' = (tokens \ {t}) \cup {[t EXCEPT !.used = TRUE]}
  BY <1>1 DEF MarkUsed, FindByTokenHash
<1>3. PICK l \in {"revoke", "answer"} :
        Advance(r, l) /\ l = IF c.kind = "reset" THEN "revoke" ELSE "answer"
  BY <1>1 DEF MarkUsed
<1>4. c \in Call /\ CallInv(c) /\ c.pc = "mark" /\ c.kind \in {"reset", "verifyEmail"}
      /\ CallOK /\ UNCHANGED <<vars, person, passwd, issued, gone, access>>
  BY <1>1, CallTypes DEF MarkUsed, CallInv, Place, AccountInv
<1>5. ~c.late /\ exists # "no" /\ exists' = exists
  BY <1>1, <1>4, LateHasToken, CallExists DEF person
<1>6. /\ tokens \subseteq Token /\ \A u, v \in tokens : u.id = v.id => u = v
      /\ TokensInv /\ issued \in 0..TokenBound /\ gone \subseteq 1..issued
  BY DEF AccountInv, MailOK
<1>7. PICK n : n = [t EXCEPT !.used = TRUE]
  OBVIOUS
<1>8. n \in Token /\ n.id = t.id /\ n.for = t.for /\ n.used
  BY <1>6, <1>7 DEF Token
<1>9. tokens' = (tokens \ {t}) \cup {n}
  BY <1>2, <1>7
<1>10. Grows /\ Counters
  <2>1. sessions \subseteq Session /\ issued \in Nat /\ Len(past) \in Nat
    BY <1>6, AccountAssumption DEF AccountInv, AccessOK, PasswordOK
  <2>2. UNCHANGED <<issued, gone, past, sessions, workspace>>
    BY <1>4 DEF passwd, access, person
  <2>3. \A x \in tokens' : \E u \in tokens : u.id = x.id /\ u.for = x.for /\ (u.used => x.used)
    BY <1>8, <1>9
  <2>4. QED BY <2>1, <2>2, <2>3 DEF Grows, Counters
<1>11. l \in Stages \ {"idle", "begin"} /\ Place(c.kind, l)
  BY <1>3, <1>4, AccountAssumption DEF Stages, Place, Calls
<1>12. PICK d : d = Went(c, l)
  OBVIOUS
<1>13. d \in Call /\ d.pc = l /\ call' = [call EXCEPT ![r] = d]
  BY <1>1, <1>3, <1>4, <1>11, <1>12, WentTypes, AdvanceWent
<1>14. CallInv(d)'
  <2>1. c.old = {}
    BY <1>4 DEF CallInv, MailCall
  <2>2. \A x \in tokens' : x.id = c.arg => x.used
    BY <1>2, <1>6, <1>8, <1>9
  <2>3. l = "answer" => c.version = 0
    BY <1>3, <1>4 DEF CallInv, VersionCall
  <2>4. l = "answer" => \A s \in sessions' : s.version >= c.version
    BY <1>10, <2>3 DEF Grows, Session
  <2>5. ~HasRead(Went(c, l))
    BY <1>3, <1>12, <1>13 DEF HasRead
  <2>6. CallInv(Went(c, l))'
    BY <1>1, <1>3, <1>4, <1>5, <1>10, <1>11, <2>1, <2>2, <2>4, <2>5, WentKeeps
  <2>7. QED BY <1>12, <2>6
<1>15. MailOK' /\ TokensInv'
  <2>1. tokens' \subseteq Token /\ issued' \in 0..TokenBound /\ gone' \subseteq 1..issued'
    BY <1>4, <1>6, <1>8, <1>9
  <2>2. \A u, v \in tokens' : u.id = v.id => u = v
    BY <1>6, <1>8, <1>9
  <2>3. \A u \in tokens' : u.id <= issued' /\ (u.id \in gone' => u.used)
    BY <1>4, <1>6, <1>8, <1>9 DEF TokensInv
  <2>4. QED BY <2>1, <2>2, <2>3 DEF MailOK, TokensInv
<1>16. AccessOK' /\ Outlives(changed)' /\ CutoffHolds' /\ NobodyYet'
  BY <1>4, <1>5, Frames DEF passwd
<1>17. ~SigningUp(r) /\ ~Recorder(c) /\ ~Recorder(d) /\ ~Writer(d)
  BY <1>1, <1>3, <1>4, <1>13 DEF SigningUp, Is, Recorder, Writer
<1>18. QED BY <1>1, <1>4, <1>10, <1>13, <1>14, <1>15, <1>16, <1>17, SideCall

LEMMA NobodyStays ==
  ASSUME AccountInv, NEW r \in Requests, NEW d \in Call, call' = [call EXCEPT ![r] = d],
         UNCHANGED <<exists, past, history, linked, challenge, rq>>,
         exists = "no" => /\ NobodyCalls(d) /\ issued' = issued /\ changed' = changed
                          /\ sessions' = {}
  PROVE  NobodyYet'
BY DEF AccountInv, NobodyYet, CallOK

LEMMA InvalidateTokensKeeps ==
  ASSUME AccountInv, NEW r \in Requests, InvalidateTokens(r) PROVE AccountInv'
<1>1. PICK c : c = call[r]
  OBVIOUS
<1>2. /\ c \in Call /\ CallInv(c) /\ CallOK /\ cut' = clock /\ Advance(r, "fresh")
      /\ \/ c.kind = "reset" /\ c.pc = "cut"
         \/ c.kind = "invalidate" /\ c.pc = "begin"
      /\ UNCHANGED <<vars, person, passwd, mail, sessions, clock, cached, changed, refused, admitted>>
  BY <1>1, CallTypes DEF InvalidateTokens, Is, AccountInv
<1>3. ~c.late /\ exists' = exists
  BY <1>1, <1>2, LateHasToken DEF person
<1>4. Grows /\ Counters
  BY <1>2, StaysGrows DEF mail, passwd, person
<1>5. "fresh" \in Stages \ {"idle", "begin"} /\ Place(c.kind, "fresh")
  BY <1>2, AccountAssumption DEF Stages, Place, Calls
<1>6. PICK d : d = Went(c, "fresh")
  OBVIOUS
<1>7. d \in Call /\ d.pc = "fresh" /\ d.kind = c.kind /\ d.version = c.version
      /\ call' = [call EXCEPT ![r] = d]
  BY <1>1, <1>2, <1>5, <1>6, WentTypes, AdvanceWent
<1>8. CallInv(d)'
  <2>1. ~HasRead(Went(c, "fresh"))
    BY <1>6, <1>7 DEF HasRead
  <2>2. CallInv(Went(c, "fresh"))'
    BY <1>1, <1>3, <1>4, <1>5, <2>1, WentKeeps
  <2>3. QED BY <1>6, <2>2
<1>9. MailOK' /\ TokensInv'
  BY <1>2, Frames
<1>10. AccessOK' /\ CutoffHolds'
  BY <1>2 DEF AccountInv, AccessOK, CutoffHolds, passwd
<1>11. Outlives(changed)'
  BY <1>2, <1>4, OutlivesStays
<1>12. NobodyYet'
  <2>1. exists = "no" => NobodyCalls(c) /\ sessions = {}
    BY <1>1 DEF AccountInv, NobodyYet
  <2>2. exists = "no" => NobodyCalls(d)
    BY <1>7, <2>1 DEF NobodyCalls
  <2>3. UNCHANGED <<past, history, linked, challenge, rq, issued>>
    BY <1>2 DEF passwd, person, mail, vars
  <2>4. QED BY <1>2, <1>3, <1>7, <2>1, <2>2, <2>3, NobodyStays
<1>13. ~SigningUp(r) /\ ~Recorder(c) /\ ~Recorder(d) /\ ~Writer(d)
  BY <1>1, <1>2, <1>7 DEF SigningUp, Is, Recorder, Writer
<1>14. QED BY <1>1, <1>2, <1>4, <1>7, <1>8, <1>9, <1>10, <1>11, <1>12, <1>13, SideCall

LEMMA RevokeAllForUserKeeps ==
  ASSUME AccountInv, NEW r \in Requests, RevokeAllForUser(r) PROVE AccountInv'
<1>1. PICK c : c = call[r]
  OBVIOUS
<1>2. /\ c \in Call /\ CallInv(c) /\ CallOK /\ sessions' = {} /\ Advance(r, "answer")
      /\ c.kind \in {"reset", "invalidate"} /\ c.pc = "revoke"
      /\ UNCHANGED <<vars, person, passwd, mail, clock, cut, cached, changed, refused, admitted>>
  BY <1>1, CallTypes DEF RevokeAllForUser, CallInv, Place, AccountInv
<1>3. ~c.late /\ exists' = exists
  BY <1>1, <1>2, LateHasToken DEF person
<1>4. Grows /\ Counters
  <2>1. issued \in Nat /\ Len(past) \in Nat
    BY AccountAssumption DEF AccountInv, MailOK, PasswordOK
  <2>2. UNCHANGED <<tokens, issued, gone, past, workspace>>
    BY <1>2 DEF passwd, person, mail
  <2>3. QED BY <1>2, <2>1, <2>2 DEF Grows, Counters
<1>5. "answer" \in Stages \ {"idle", "begin"} /\ Place(c.kind, "answer")
  BY <1>2, AccountAssumption DEF Stages, Place, Calls
<1>6. PICK d : d = Went(c, "answer")
  OBVIOUS
<1>7. d \in Call /\ d.pc = "answer" /\ d.kind = c.kind /\ d.version = c.version
      /\ call' = [call EXCEPT ![r] = d]
  BY <1>1, <1>2, <1>5, <1>6, WentTypes, AdvanceWent
<1>8. CallInv(d)'
  <2>1. c.old = {} /\ tokens' = tokens
    BY <1>2 DEF CallInv, MailCall, mail
  <2>2. c.kind \in {"reset", "verifyEmail"} => \A t \in tokens : t.id = c.arg => t.used
    BY <1>2 DEF CallInv, MailCall
  <2>3. ~HasRead(Went(c, "answer"))
    BY <1>6, <1>7 DEF HasRead
  <2>4. CallInv(Went(c, "answer"))'
    BY <1>1, <1>2, <1>3, <1>4, <1>5, <2>1, <2>2, <2>3, WentKeeps
  <2>5. QED BY <1>6, <2>4
<1>9. MailOK' /\ TokensInv'
  BY <1>2, Frames
<1>10. AccessOK' /\ CutoffHolds'
  BY <1>2 DEF AccountInv, AccessOK, CutoffHolds, passwd
<1>11. Outlives(changed)'
  BY <1>2 DEF Outlives
<1>12. NobodyYet'
  <2>1. exists = "no" => NobodyCalls(c)
    BY <1>1 DEF AccountInv, NobodyYet
  <2>2. exists = "no" => NobodyCalls(d)
    BY <1>7, <2>1 DEF NobodyCalls
  <2>3. UNCHANGED <<past, history, linked, challenge, rq, issued>>
    BY <1>2 DEF passwd, person, mail, vars
  <2>4. QED BY <1>2, <1>3, <1>7, <2>2, <2>3, NobodyStays
<1>13. ~SigningUp(r) /\ ~Recorder(c) /\ ~Recorder(d) /\ ~Writer(d)
  BY <1>1, <1>2, <1>7 DEF SigningUp, Is, Recorder, Writer
<1>14. QED BY <1>1, <1>2, <1>4, <1>7, <1>8, <1>9, <1>10, <1>11, <1>12, <1>13, SideCall

LEMMA AnswerKeeps ==
  ASSUME AccountInv, NEW r \in Requests, Answer(r) PROVE AccountInv'
<1>1. PICK c : c = call[r]
  OBVIOUS
<1>2. /\ c \in Call /\ CallInv(c) /\ CallOK /\ Advance(r, "idle") /\ c.pc = "answer"
      /\ gone' = gone \cup (IF c.kind \in {"reset", "verifyEmail"} THEN {c.arg} ELSE c.old)
      /\ changed' = IF c.version > changed THEN c.version ELSE changed
      /\ UNCHANGED <<vars, person, passwd, tokens, issued, sessions, clock, cut,
                     cached, refused, admitted>>
  BY <1>1, CallTypes DEF Answer, AccountInv
<1>3. exists' = exists /\ c.version \in Nat /\ c.version <= Len(past) /\ Outlives(c.version)
      /\ past' = past
  BY <1>1, <1>2, CallTypes DEF person, passwd, CallInv, VersionCall
<1>4. Grows /\ Counters
  <2>1. sessions \subseteq Session /\ issued \in Nat /\ Len(past) \in Nat
    BY AccountAssumption DEF AccountInv, AccessOK, MailOK, PasswordOK
  <2>2. UNCHANGED <<tokens, issued, past, sessions, workspace>> /\ gone \subseteq gone'
    BY <1>2 DEF passwd, person
  <2>3. QED BY <2>1, <2>2 DEF Grows, Counters
<1>5. call' = [call EXCEPT ![r] = NoCall]
  BY <1>2, AdvanceWent DEF Went
<1>6. CallInv(NoCall)'
  BY <1>4, NoCallKeeps
<1>7. MailOK' /\ TokensInv'
  <2>1. MailCall(c)
    BY <1>2 DEF CallInv
  <2>2. gone' \subseteq 1..issued
    BY <1>2, <2>1 DEF AccountInv, MailOK, MailCall
  <2>3. \A t \in tokens : t.id \in gone' => t.used
    BY <1>2, <2>1 DEF AccountInv, TokensInv, MailCall
  <2>4. QED BY <1>2, <2>2, <2>3 DEF AccountInv, MailOK, TokensInv
<1>8. changed \in Nat /\ changed <= Len(past) /\ Len(past) \in Nat
  BY DEF AccountInv, AccessOK, PasswordOK
<1>9. AccessOK' /\ CutoffHolds'
  <2>1. changed' \in 0..Len(past')
    BY <1>2, <1>3, <1>8
  <2>2. QED BY <1>2, <2>1 DEF AccountInv, AccessOK, CutoffHolds
<1>10. Outlives(changed)'
  BY <1>2, <1>3 DEF AccountInv, Outlives
<1>11. NobodyYet'
  <2>1. exists = "no" => c.version = 0 /\ changed = 0 /\ sessions = {}
    BY <1>1 DEF AccountInv, NobodyYet, NobodyCalls
  <2>2. NobodyCalls(NoCall)
    BY DEF NobodyCalls, NoCall
  <2>3. UNCHANGED <<past, history, linked, challenge, rq, issued>>
    BY <1>2 DEF passwd, person, vars
  <2>4. exists = "no" => changed' = changed
    BY <1>2, <2>1
  <2>5. QED BY <1>2, <1>3, <1>5, <2>1, <2>2, <2>3, <2>4, NoCallType, NobodyStays
<1>12. ~SigningUp(r) /\ ~Recorder(c) /\ ~Recorder(NoCall) /\ ~Writer(NoCall)
  BY <1>1, <1>2 DEF SigningUp, Is, Recorder, Writer, NoCall
<1>13. QED BY <1>1, <1>2, <1>4, <1>5, <1>6, <1>7, <1>9, <1>10, <1>11, <1>12, NoCallType, SideCall

(* A session is of the newest password, or late.                           *)
LEMMA OpenKeeps ==
  ASSUME AccountInv, NEW CONSTANT v \in Nat, Open(v),
         UNCHANGED <<past, workspace, mail, clock, cut, cached, changed, refused, admitted>>
  PROVE  Grows /\ Counters /\ AccessOK' /\ Outlives(changed)' /\ CutoffHolds'
<1> DEFINE b == v < Len(past)
           s == [version |-> v, at |-> clock, late |-> b]
<1>1. sessions' = sessions \cup {s}
  BY Zenon DEF Open
<1>2. b \in BOOLEAN
  BY SMT DEF b
<1>3. b <=> v < Len(past)
  BY Zenon DEF b
<1> HIDE DEF b
<1>4. sessions \subseteq Session /\ issued \in Nat /\ Len(past) \in Nat /\ clock \in 0..ClockBound
  BY AccountAssumption DEF AccountInv, AccessOK, MailOK, PasswordOK
<1>5. s \in Session /\ s.version = v /\ s.late = b
  BY <1>2, <1>4 DEF Session
<1> HIDE DEF s
<1>6. s.version >= Len(past) \/ s.late
  BY <1>3, <1>4, <1>5
<1>7. UNCHANGED <<tokens, issued, gone>>
  BY DEF mail
<1>8. Grows /\ Counters
  BY <1>1, <1>4, <1>5, <1>6, <1>7 DEF Grows, Counters
<1>9. AccessOK' /\ CutoffHolds'
  BY <1>1, <1>4, <1>5 DEF AccountInv, AccessOK, CutoffHolds
<1>10. QED BY <1>8, <1>9, OutlivesStays

LEMMA OpenSessionKeeps ==
  ASSUME AccountInv, NEW r \in Requests, OpenSession(r) PROVE AccountInv'
<1>1. PICK c : c = call[r]
  OBVIOUS
<1>2. /\ c \in Call /\ CallInv(c) /\ CallOK /\ Open(c.version) /\ Advance(r, "idle")
      /\ c.kind = "oauth" /\ c.pc = "issue" /\ c.version \in Nat
      /\ UNCHANGED <<vars, person, passwd, mail, clock, cut, cached, changed, refused, admitted>>
  BY <1>1, CallTypes DEF OpenSession, Is, AccountInv
<1>3. PICK v : v = c.version
  OBVIOUS
<1>4. exists # "no" /\ exists' = exists
  BY <1>1, <1>2, CallExists DEF person
<1>5. Grows /\ Counters /\ AccessOK' /\ Outlives(changed)' /\ CutoffHolds'
  <2>1. UNCHANGED <<past, workspace>>
    BY <1>2 DEF passwd, person
  <2>2. QED BY <1>2, <1>3, <2>1, OpenKeeps
<1>6. call' = [call EXCEPT ![r] = NoCall]
  BY <1>2, AdvanceWent DEF Went
<1>7. CallInv(NoCall)'
  BY <1>5, NoCallKeeps
<1>8. MailOK' /\ TokensInv' /\ NobodyYet'
  BY <1>2, <1>4, Frames
<1>9. ~SigningUp(r) /\ ~Recorder(c) /\ ~Recorder(NoCall) /\ ~Writer(NoCall)
  BY <1>1, <1>2 DEF SigningUp, Is, Recorder, Writer, NoCall
<1>10. QED BY <1>1, <1>2, <1>5, <1>6, <1>7, <1>8, <1>9, NoCallType, SideCall

-----------------------------------------------------------------------------
(* A call that writes the row or bumps it, and not the password.           *)
LEMMA RowCall ==
  ASSUME AccountInv, NEW r \in Requests, NEW d \in Call, call' = [call EXCEPT ![r] = d], CallInv(d)',
         UNCHANGED <<but_row, person, passwd, mail, sessions, clock, cut, changed, refused, admitted>>,
         row' \in Row, row'.enabled = row.enabled, row'.secret = row.secret,
         row'.codes = row.codes, row'.password = row.password,
         visible' \subseteq visible \cup {row'}, ~deleted => row' \in visible',
         cached' \in {cached, Null}, exists = "no" => NobodyCalls(d), ~SigningUp(r),
         Recorder(d) <=> Recorder(call[r]), Recorder(d) => d.user = call[r].user, ~Writer(d)
  PROVE  AccountInv'
<1>1. SignInInv'
  BY RowKeeps DEF AccountInv
<1>2. UNCHANGED <<exists, past, history, disturbed, deleted, job, overtaken, linked, challenge, rq,
                  tokens, issued, gone, workspace, halfway, overlapped>>
  BY DEF person, passwd, but_row, mail
<1>3. Grows /\ Counters
  BY <1>2, StaysGrows
<1>4. /\ CallOK' /\ \A q \in Requests : CallInv(call[q])'
      /\ call'[r] = d /\ \A q \in Requests \ {r} : call'[q] = call[q]
  BY <1>3, CallStep
<1>5. HistoryInv'
  <2>1. Recorder(call'[r]) <=> Recorder(call[r])
    BY <1>4
  <2>2. Recorder(call[r]) => call'[r].user = call[r].user
    BY <1>4
  <2>3. ~Writer(call'[r])
    BY <1>4
  <2>4. QED BY <1>2, <1>4, <2>1, <2>2, <2>3, HistoryStays
<1>6. SignUpWhole'
  <2>1. \A q \in Requests : SigningUp(q) => SigningUp(q)'
    BY <1>4 DEF SigningUp, Is
  <2>2. QED BY <1>2, <2>1, WholeStays
<1>7. AccessOK' /\ Outlives(changed)' /\ CutoffHolds'
  BY <1>2 DEF AccountInv, AccessOK, Outlives, CutoffHolds
<1>8. RowPast'
  BY <1>2 DEF AccountInv, RowPast
<1>9. NobodyYet'
  <2>1. exists = "no" => sessions' = {}
    BY DEF AccountInv, NobodyYet
  <2>2. QED BY <1>2, <2>1, NobodyStays
<1>10. PersonOK' /\ PasswordOK' /\ NoReuse' /\ MailOK' /\ TokensInv' /\ LifeInv'
  BY <1>2, Frames
<1>11. QED BY <1>1, <1>4, <1>5, <1>6, <1>7, <1>8, <1>9, <1>10 DEF AccountInv

LEMMA BumpKeeps == ASSUME AccountInv, NEW r \in Requests, Bump(r) PROVE AccountInv'
<1>1. PICK c : c = call[r]
  OBVIOUS
<1>2. /\ c \in Call /\ CallInv(c) /\ CallOK /\ c.pc \in {"bump", "fresh"}
      /\ visible' = Bumped /\ cached' = Null
      /\ UNCHANGED <<row, but_row, person, passwd, mail, sessions, clock, cut,
                     changed, refused, admitted>>
  BY <1>1, CallTypes DEF Bump, AccountInv
<1>3. PICK l \in {"revoke", "mark", "record"} :
        /\ Advance(r, l)
        /\ l = "revoke" <=> c.kind = "invalidate"
        /\ l = "record" <=> c.kind = "reset" /\ c.pc = "bump"
  <2>1. CASE c.kind = "invalidate"
    BY <1>1, <2>1 DEF Bump, Is
  <2>2. CASE c.kind = "verifyEmail"
    BY <1>1, <2>2 DEF Bump, Is
  <2>3. CASE c.kind = "reset" /\ c.pc = "fresh"
    BY <1>1, <2>3 DEF Bump, Is
  <2>4. CASE c.kind = "reset" /\ c.pc = "bump"
    BY <1>1, <2>4 DEF Bump, Is
  <2>5. QED BY <1>2, <2>1, <2>2, <2>3, <2>4 DEF CallInv, Place
<1>4. /\ c.kind \in {"reset", "verifyEmail", "invalidate"}
      /\ c.pc = "bump" => c.kind # "invalidate"
      /\ c.pc = "fresh" => c.kind # "verifyEmail"
  BY <1>2 DEF CallInv, Place
<1>5. ~c.late /\ (exists = "no" => NobodyCalls(c))
  BY <1>1, <1>2, LateHasToken DEF AccountInv, NobodyYet
<1>6. l \in Stages \ {"idle", "begin"} /\ Place(c.kind, l)
  BY <1>3, <1>4, AccountAssumption DEF Stages, Place, Calls
<1>7. PICK d : d = Went(c, l)
  OBVIOUS
<1>8. /\ d \in Call /\ d.pc = l /\ d.kind = c.kind /\ d.version = c.version /\ d.user = c.user
      /\ call' = [call EXCEPT ![r] = d]
  BY <1>1, <1>2, <1>3, <1>6, <1>7, WentTypes, AdvanceWent
<1>9. Grows /\ Counters
  BY <1>2, StaysGrows DEF mail, passwd, person
<1>10. CallInv(d)'
  <2>1. HasRead(Went(c, l)) => HasRead(c)
    BY <1>3, <1>7, <1>8 DEF HasRead
  <2>2. l = "revoke" => c.kind \notin {"reset", "verifyEmail"}
    BY <1>3
  <2>3. CallInv(Went(c, l))'
    BY <1>1, <1>3, <1>5, <1>6, <1>9, <2>1, <2>2, WentKeeps
  <2>4. QED BY <1>7, <2>3
<1>11. exists = "no" => NobodyCalls(d)
  BY <1>2, <1>3, <1>4, <1>5, <1>8, AccountAssumption DEF NobodyCalls, Calls
<1>12. /\ Recorder(d) <=> Recorder(c)
       /\ Recorder(d) => d.user = c.user
       /\ ~Writer(d) /\ ~SigningUp(r)
  BY <1>1, <1>2, <1>3, <1>8 DEF Recorder, Writer, SigningUp, Is
<1>13. row' \in Row /\ visible' \subseteq visible \cup {row'} /\ (~deleted => row' \in visible')
  BY <1>2 DEF AccountInv, SignInInv, TypeOK, Bumped
<1>14. QED BY <1>1, <1>2, <1>8, <1>10, <1>11, <1>12, <1>13, RowCall

LEMMA MarkVerifiedKeeps == ASSUME AccountInv, NEW r \in Requests, MarkVerified(r) PROVE AccountInv'
<1>1. PICK c : c = call[r]
  OBVIOUS
<1>2. /\ c \in Call /\ CallInv(c) /\ CallOK /\ c.pc = "write" /\ c.kind = "verifyEmail"
      /\ row' = [row EXCEPT !.verified = TRUE]
      /\ visible' = IF deleted THEN visible ELSE visible \cup {row'}
      /\ Advance(r, "bump")
      /\ UNCHANGED <<but_row, person, passwd, mail, access>>
  BY <1>1, CallTypes DEF MarkVerified, Is, AccountInv, UpdateUser
<1>3. ~c.late /\ exists # "no"
  BY <1>1, <1>2, LateHasToken, CallExists
<1>4. "bump" \in Stages \ {"idle", "begin"} /\ Place(c.kind, "bump")
  BY <1>2, AccountAssumption DEF Stages, Place, Calls
<1>5. PICK d : d = Went(c, "bump")
  OBVIOUS
<1>6. d \in Call /\ d.pc = "bump" /\ d.kind = c.kind /\ call' = [call EXCEPT ![r] = d]
  BY <1>1, <1>2, <1>4, <1>5, WentTypes, AdvanceWent
<1>7. UNCHANGED <<sessions, clock, cut, cached, changed, refused, admitted>>
  BY <1>2 DEF access
<1>8. Grows /\ Counters
  BY <1>2, <1>7, StaysGrows DEF mail, passwd, person
<1>9. CallInv(d)'
  <2>1. ~HasRead(Went(c, "bump"))
    BY <1>2, <1>5, <1>6 DEF HasRead
  <2>2. CallInv(Went(c, "bump"))'
    BY <1>1, <1>3, <1>4, <1>8, <2>1, WentKeeps
  <2>3. QED BY <1>5, <2>2
<1>10. ~Recorder(c) /\ ~Recorder(d) /\ ~Writer(d) /\ ~SigningUp(r)
  BY <1>1, <1>2, <1>6 DEF Recorder, Writer, SigningUp, Is
<1>11. row \in Row
  BY DEF AccountInv, SignInInv, TypeOK
<1>12. /\ row' \in Row /\ row'.enabled = row.enabled /\ row'.secret = row.secret
       /\ row'.codes = row.codes /\ row'.password = row.password
  BY <1>2, <1>11 DEF Row
<1>13. visible' \subseteq visible \cup {row'} /\ (~deleted => row' \in visible')
  BY <1>2
<1>14. QED BY <1>1, <1>2, <1>3, <1>6, <1>7, <1>9, <1>10, <1>12, <1>13, RowCall

-----------------------------------------------------------------------------
(* A reset that writes the password.                                       *)
LEMMA RecentRead ==
  ASSUME AccountInv, HistoryIs(Len(past))
  PROVE  Recent \subseteq Hashes({Len(past)} \cup FindRecentHashes)
<1>1. /\ past \in Seq(Nat) /\ Len(past) \in Nat /\ history \in Seq(1..Len(past))
      /\ Len(history) = Kept(Len(past)) /\ (\A i \in 1..Kept(Len(past)) : history[i] = Len(past) - i)
      /\ HistorySize \in Nat \ {0}
  BY AccountAssumption DEF AccountInv, PasswordOK, HistoryIs
<1>2. Kept(Len(past)) \in Nat /\ Kept(Len(past)) <= HistorySize - 1
  BY <1>1 DEF Kept
<1>3. SUFFICES ASSUME NEW n \in 1..Len(past), n > Len(past) - HistorySize
               PROVE  n \in {Len(past)} \cup FindRecentHashes
  BY <1>1 DEF Recent, Hashes
<1>4. CASE n = Len(past)
  BY <1>4
<1>5. CASE n # Len(past)
  <2>1. PICK i \in 1..Kept(Len(past)) : n = Len(past) - i
    <3>1. Len(past) - n \in 1..Kept(Len(past))
      BY <1>1, <1>3, <1>5 DEF Kept
    <3>2. n = Len(past) - (Len(past) - n)
      BY <1>1, <1>3
    <3>3. QED BY <3>1, <3>2
  <2>2. history[i] = n
    BY <1>1, <2>1
  <2>3. FirstOf(history, HistorySize - 1) = SubSeq(history, 1, Len(history))
    <3>0. Len(history) \in Nat /\ Len(history) <= HistorySize - 1 /\ HistorySize - 1 \in Nat
      BY <1>1, <1>2
    <3>1. (IF Len(history) < HistorySize - 1 THEN Len(history) ELSE HistorySize - 1) = Len(history)
      BY <3>0
    <3>2. QED BY <3>1 DEF FirstOf
  <2>4. SubSeq(history, 1, Len(history)) = history
    BY <1>1, SubSeqFull
  <2>5. i \in 1..Len(history)
    BY <1>1, <2>1
  <2>6. QED BY <2>2, <2>3, <2>4, <2>5 DEF FindRecentHashes, InSeq
<1>6. QED BY <1>4, <1>5

LEMMA ChoosePasswordKeeps ==
  ASSUME AccountInv, NEW r \in Requests, ChoosePassword(r) PROVE AccountInv'
<1>1. PICK c : c = call[r]
  OBVIOUS
<1>2. /\ c \in Call /\ CallInv(c) /\ CallOK /\ c.pc = "recent" /\ c.kind = "reset"
      /\ disturbed' = (disturbed \/ Recording)
      /\ UNCHANGED <<vars, person, history, past, reused, mail, access>>
  BY <1>1, CallTypes DEF ChoosePassword, Is, AccountInv
<1>3. PICK p \in (1..Len(past) + 1) \ Hashes({c.user.password} \cup FindRecentHashes) :
        call' = [call EXCEPT ![r].password = p, ![r].pc = "write"]
  BY <1>1 DEF ChoosePassword
<1>4. ~c.late /\ exists # "no" /\ exists' = exists
  BY <1>1, <1>2, LateHasToken, CallExists DEF person
<1>5. Len(past) \in Nat
  BY DEF AccountInv, PasswordOK
<1>6. PICK d : d = [c EXCEPT !.password = p, !.pc = "write"]
  OBVIOUS
<1>7. call' = [call EXCEPT ![r] = d]
  BY <1>1, <1>2, <1>3, <1>6 DEF CallOK
<1>8. p \in Nat
  BY <1>3, <1>5
<1>9. /\ d \in Call /\ d.pc = "write" /\ d.kind = c.kind /\ d.arg = c.arg /\ d.user = c.user
      /\ d.password = p /\ d.version = c.version /\ d.old = c.old /\ d.late = c.late
  BY <1>2, <1>6, <1>8 DEF Call
<1>10. Grows /\ Counters
  BY <1>2, StaysGrows DEF mail, person, access
<1>11. CallInv(d)'
  <2>1. MailCall(d)'
    BY <1>2, <1>4, <1>9 DEF CallInv, MailCall, mail
  <2>2. VersionCall(d)' /\ PastCall(d)' /\ WholeCall(d)'
    BY <1>2, <1>9 DEF CallInv, VersionCall, PastCall, HasRead, WholeCall
  <2>3. Place(d.kind, d.pc) /\ d.pc # "idle"
    BY <1>2, <1>9, AccountAssumption DEF Place, Calls
  <2>4. QED BY <2>1, <2>2, <2>3 DEF CallInv
<1>12. /\ CallOK' /\ \A q \in Requests : CallInv(call[q])'
       /\ call'[r] = d /\ \A q \in Requests \ {r} : call'[q] = call[q]
  BY <1>7, <1>9, <1>10, <1>11, CallStep
<1>13. SignInInv' /\ PersonOK' /\ MailOK' /\ TokensInv' /\ AccessOK' /\ Outlives(changed)'
       /\ CutoffHolds' /\ NobodyYet'
  BY <1>2, <1>4, Frames
<1>14. RowPast' /\ LifeInv'
  BY <1>2, Frames DEF vars, factor, person
<1>15. PasswordOK' /\ NoReuse'
  BY <1>2 DEF AccountInv, PasswordOK, NoReuse
<1>16. SignUpWhole'
  <2>1. \A q \in Requests : SigningUp(q) => SigningUp(q)'
    BY <1>1, <1>2, <1>12 DEF SigningUp, Is
  <2>2. QED BY <1>2, <2>1, WholeStays DEF person, vars, factor
<1>17. HistoryInv'
  <2>1. SUFFICES ASSUME ~disturbed', exists = "yes"
                 PROVE  /\ (\A q \in Requests : ~Recorder(call'[q])) => HistoryIs(Len(past))'
                        /\ \A q \in Requests : ~Recorder(call'[q])
                        /\ \A q \in Requests : Writer(call'[q]) /\ call'[q].user.password = Len(past') =>
                             call'[q].password \notin Recent'
    BY <1>4 DEF HistoryInv
  <2>2. \A q \in Requests : ~Recorder(call[q])
    BY <1>2, <2>1 DEF Recording, Recorder
  <2>3. \A q \in Requests : ~Recorder(call'[q])
    BY <1>9, <1>12, <2>2 DEF Recorder
  <2>4. HistoryInv /\ HistoryIs(Len(past))
    BY <1>2, <2>1, <2>2 DEF AccountInv, HistoryInv
  <2>5. HistoryIs(Len(past))'
    BY <1>2, <2>4 DEF HistoryIs
  <2>6. Recent' = Recent /\ past' = past
    BY <1>2 DEF Recent, Hashes
  <2>7. ASSUME NEW q \in Requests, Writer(call'[q]), call'[q].user.password = Len(past')
        PROVE  call'[q].password \notin Recent'
    <3>1. CASE q = r
      <4>1. c.user.password = Len(past) /\ call'[q].password = p
        BY <1>9, <1>12, <2>6, <2>7, <3>1
      <4>2. p \notin Hashes({Len(past)} \cup FindRecentHashes)
        BY <1>3, <4>1
      <4>3. QED BY <2>4, <2>6, <4>1, <4>2, RecentRead
    <3>2. CASE q # r
      <4>1. call'[q] = call[q] /\ ~disturbed
        BY <1>2, <1>12, <2>1, <3>2
      <4>2. QED BY <2>1, <2>4, <2>6, <2>7, <4>1 DEF HistoryInv
    <3>3. QED BY <3>1, <3>2
  <2>8. QED BY <2>3, <2>5, <2>7
<1>18. QED BY <1>12, <1>13, <1>14, <1>15, <1>16, <1>17 DEF AccountInv

LEMMA SetPasswordKeeps ==
  ASSUME AccountInv, NEW r \in Requests, SetPassword(r) PROVE AccountInv'
<1>1. PICK c : c = call[r]
  OBVIOUS
<1>2. /\ c \in Call /\ CallInv(c) /\ CallOK /\ c.pc = "write" /\ c.kind = "reset"
      /\ Len(past) < PasswordBound
      /\ row' = [row EXCEPT !.password = Len(past) + 1]
      /\ visible' = IF deleted THEN visible ELSE visible \cup {row'}
      /\ past' = Append(past, c.password)
      /\ disturbed' = (disturbed \/ c.user.password # row.password \/ exists # "yes")
      /\ reused' = (reused \/ (~disturbed' /\ c.password \in Recent))
      /\ call' = [call EXCEPT ![r].pc = "bump", ![r].version = Len(past')]
      /\ UNCHANGED <<but_row, person, history, mail, access>>
  BY <1>1, CallTypes DEF SetPassword, Is, AccountInv, UpdateUser
<1>3. ~c.late /\ exists # "no" /\ UNCHANGED <<exists, workspace, linked, job, overtaken, overlapped, halfway>>
  BY <1>1, <1>2, LateHasToken, CallExists DEF person
<1>4. /\ past \in Seq(Nat) /\ Len(past) \in Nat /\ PasswordBound \in Nat
      /\ c.password \in Nat
  BY <1>1, CallTypes, AccountAssumption DEF AccountInv, PasswordOK
<1>5. past' \in Seq(Nat) /\ Len(past') = Len(past) + 1
  BY <1>2, <1>4
<1>0. PICK n \in Nat : n = Len(past')
  BY <1>4, <1>5
<1>6. PICK d : d = [c EXCEPT !.pc = "bump", !.version = n]
  OBVIOUS
<1>7. call' = [call EXCEPT ![r] = d]
  BY <1>0, <1>1, <1>2, <1>6 DEF CallOK
<1>8. /\ d \in Call /\ d.pc = "bump" /\ d.kind = c.kind /\ d.arg = c.arg /\ d.user = c.user
      /\ d.version = Len(past') /\ d.old = c.old /\ d.late = c.late
  <2>1. c \in Call
    BY <1>2
  <2>2. QED BY <1>0, <1>6, <2>1 DEF Call
<1>9. UNCHANGED <<tokens, issued, gone>> /\ UNCHANGED <<sessions, clock, cut, cached, changed, refused, admitted>>
  BY <1>2 DEF mail, access
<1>10. Grows /\ Counters
  <2>1. sessions \subseteq Session /\ issued \in Nat
    BY AccountAssumption DEF AccountInv, AccessOK, MailOK
  <2>2. QED BY <1>3, <1>4, <1>5, <1>9, <2>1 DEF Grows, Counters
<1>11. CallInv(d)'
  <2>1. MailCall(d)'
    BY <1>2, <1>3, <1>8, <1>9 DEF CallInv, MailCall
  <2>2. PastCall(d)'
    <3>1. c.user \in Row /\ c.user.password \in Nat /\ c.user.password <= Len(past)
      BY <1>2 DEF CallInv, PastCall, HasRead, Row
    <3>2. QED BY <1>4, <1>5, <1>8, <3>1 DEF PastCall
  <2>3. VersionCall(d)' /\ WholeCall(d)'
    BY <1>2, <1>4, <1>5, <1>8 DEF VersionCall, WholeCall
  <2>4. Place(d.kind, d.pc) /\ d.pc # "idle"
    BY <1>2, <1>8, AccountAssumption DEF Place, Calls
  <2>5. QED BY <2>1, <2>2, <2>3, <2>4 DEF CallInv
<1>12. /\ CallOK' /\ \A q \in Requests : CallInv(call[q])'
       /\ call'[r] = d /\ \A q \in Requests \ {r} : call'[q] = call[q]
  BY <1>7, <1>8, <1>10, <1>11, CallStep
<1>13. row \in Row
  BY DEF AccountInv, SignInInv, TypeOK
<1>14. /\ row' \in Row /\ row'.enabled = row.enabled /\ row'.secret = row.secret
       /\ row'.codes = row.codes /\ row'.password = Len(past')
  <2>1. row' = [row EXCEPT !.password = n]
    BY <1>0, <1>2, <1>5
  <2>2. QED BY <1>0, <1>13, <2>1 DEF Row
<1>15. SignInInv'
  BY <1>2, <1>14, RowKeeps DEF AccountInv
<1>16. PersonOK' /\ MailOK' /\ TokensInv' /\ LifeInv' /\ NobodyYet'
  BY <1>2, <1>3, Frames DEF but_row
<1>17. AccessOK' /\ CutoffHolds' /\ Outlives(changed)'
  <2>1. changed' \in 0..Len(past')
    BY <1>4, <1>5, <1>9 DEF AccountInv, AccessOK
  <2>2. QED BY <1>9, <1>10, <2>1, OutlivesStays DEF AccountInv, AccessOK, CutoffHolds
<1>18. RowPast'
  <2>1. \A u \in visible : u.password \in Nat /\ u.password <= Len(past)
    BY <1>3 DEF AccountInv, RowPast, SignInInv, TypeOK, Row
  <2>2. visible' \subseteq visible \cup {row'}
    BY <1>2
  <2>4. row'.password \in Nat
    BY <1>0, <1>14
  <2>5. \A u \in visible' \cup {row'} : u.password <= Len(past')
    BY <1>4, <1>5, <1>14, <2>1, <2>2, <2>4
  <2>6. QED BY <1>14, <2>5 DEF RowPast
<1>19. SignUpWhole'
  <2>1. row'.password # 0
    BY <1>4, <1>5, <1>14
  <2>2. \A q \in Requests : SigningUp(q) => SigningUp(q)'
    BY <1>1, <1>2, <1>12 DEF SigningUp, Is
  <2>3. QED BY <1>3, <2>1, <2>2 DEF AccountInv, SignUpWhole
<1>20. ~disturbed' => /\ ~disturbed /\ exists = "yes" /\ row.password = Len(past)
                      /\ c.user.password = Len(past)
                      /\ (\A q \in Requests : ~Recorder(call[q])) /\ HistoryIs(Len(past))
                      /\ c.password \notin Recent
  <2>1. SUFFICES ASSUME ~disturbed'
                 PROVE  /\ ~disturbed /\ exists = "yes" /\ row.password = Len(past)
                        /\ c.user.password = Len(past)
                        /\ (\A q \in Requests : ~Recorder(call[q])) /\ HistoryIs(Len(past))
                        /\ c.password \notin Recent
    OBVIOUS
  <2>2. ~disturbed /\ exists = "yes" /\ c.user.password = row.password
    BY <1>2, <2>1
  <2>3. row.password = Len(past)
    BY <2>2 DEF AccountInv, RowPast
  <2>4. Writer(call[r]) /\ call[r].user.password = Len(past)
    BY <1>1, <1>2, <2>2, <2>3 DEF Writer
  <2>5. HistoryInv
    BY DEF AccountInv
  <2>6. (\A q \in Requests : ~Recorder(call[q])) /\ call[r].password \notin Recent
    BY <2>2, <2>4, <2>5 DEF HistoryInv
  <2>7. HistoryIs(Len(past))
    BY <2>2, <2>5, <2>6 DEF HistoryInv
  <2>8. QED BY <1>1, <2>2, <2>3, <2>6, <2>7
<1>21. NoReuse'
  BY <1>2, <1>20 DEF AccountInv, NoReuse
<1>22. PasswordOK'
  <2>1. history' \in Seq(1..Len(past'))
    <3>1. history \in Seq(1..Len(past)) /\ history' = history
      BY <1>2 DEF AccountInv, PasswordOK
    <3>2. 1..Len(past) \subseteq 1..Len(past')
      BY <1>4, <1>5
    <3>3. QED BY <3>1, <3>2, SeqMonotonic
  <2>2. disturbed' \in BOOLEAN /\ reused' \in BOOLEAN
    BY <1>2, <1>21 DEF NoReuse
  <2>3. QED BY <1>2, <1>4, <1>5, <2>1, <2>2 DEF AccountInv, PasswordOK
<1>23. HistoryInv'
  <2>1. SUFFICES ASSUME ~disturbed'
                 PROVE  /\ Recorder(call'[r])
                        /\ HistoryIs(Len(past) - 1)' /\ d.user.password = Len(past') - 1
                        /\ \A q \in Requests \ {r} : ~Recorder(call'[q])
                        /\ \A q \in Requests : Writer(call'[q]) => call'[q].user.password # Len(past')
    BY <1>12 DEF HistoryInv
  <2>2. Recorder(call'[r]) /\ ~Writer(call'[r])
    BY <1>2, <1>8, <1>12 DEF Recorder, Writer
  <2>3. HistoryIs(Len(past) - 1)'
    <3>1. Len(past') - 1 = Len(past) /\ history' = history /\ HistoryIs(Len(past))
      BY <1>2, <1>4, <1>5, <1>20, <2>1
    <3>2. QED BY <3>1 DEF HistoryIs
  <2>4. d.user.password = Len(past') - 1
    BY <1>4, <1>5, <1>8, <1>20, <2>1
  <2>5. \A q \in Requests \ {r} : ~Recorder(call'[q])
    BY <1>12, <1>20, <2>1
  <2>6. ASSUME NEW q \in Requests \ {r}, Writer(call'[q])
        PROVE  call'[q].user.password # Len(past')
    <3>1. PICK e : e = call[q]
      OBVIOUS
    <3>2. e.user \in Row /\ e.user.password <= Len(past) /\ call'[q] = e
      BY <1>12, <2>6, <3>1, CallTypes DEF CallInv, PastCall, HasRead, Writer
    <3>3. e.user.password \in Nat
      BY <3>2 DEF Row
    <3>4. QED BY <1>4, <1>5, <3>2, <3>3
  <2>7. QED BY <2>2, <2>3, <2>4, <2>5, <2>6
<1>24. QED BY <1>12, <1>15, <1>16, <1>17, <1>18, <1>19, <1>21, <1>22, <1>23 DEF AccountInv

(* Recording n makes the history end at n.                                 *)
LEMMA RecordIs ==
  ASSUME NEW n \in Nat \ {0}, NEW h \in Seq(Nat), NEW m \in Nat, NEW T, h \in Seq(T), n \in T,
         Len(h) = Kept(n), \A i \in 1..Kept(n) : h[i] = n - i, m = HistorySize - 1
  PROVE  LET s == FirstOf(<<n>> \o h, m)
         IN  /\ s \in Seq(T) /\ Len(s) = Kept(n + 1)
             /\ \A i \in 1..Kept(n + 1) : s[i] = (n + 1) - i
<1> DEFINE s == <<n>> \o h
           k == IF Len(s) < m THEN Len(s) ELSE m
<1>1. HistorySize \in Nat \ {0}
  BY AccountAssumption
<1>2. s \in Seq(T) /\ Len(s) = 1 + Kept(n) /\ s[1] = n /\ \A i \in 2..Len(s) : s[i] = h[i - 1]
  BY <1>1 DEF Kept
<1>3. Kept(n) \in Nat /\ k \in Nat /\ k <= Len(s) /\ k = Kept(n + 1)
  BY <1>1, <1>2 DEF Kept
<1>4. ASSUME NEW i \in 1..k PROVE s[i] = (n + 1) - i
  <2>1. CASE i = 1
    BY <1>2, <2>1
  <2>2. CASE i # 1
    <3>1. i \in 2..Len(s) /\ i - 1 \in 1..Kept(n)
      BY <1>2, <1>3, <2>2
    <3>2. s[i] = h[i - 1] /\ h[i - 1] = n - (i - 1)
      BY <1>2, <3>1
    <3>3. n - (i - 1) = (n + 1) - i
      BY <3>1
    <3>4. QED BY <3>2, <3>3
  <2>3. QED BY <2>1, <2>2
<1>5. FirstOf(s, m) = SubSeq(s, 1, k)
  BY DEF FirstOf
<1> HIDE DEF k, s
<1>6. /\ SubSeq(s, 1, k) \in Seq(T) /\ Len(SubSeq(s, 1, k)) = k
      /\ \A i \in 1..k : SubSeq(s, 1, k)[i] = s[i]
  BY <1>2, <1>3
<1>7. QED BY <1>3, <1>4, <1>5, <1>6 DEF s

LEMMA RecordPasswordKeeps ==
  ASSUME AccountInv, NEW r \in Requests, RecordPassword(r) PROVE AccountInv'
<1>1. PICK c : c = call[r]
  OBVIOUS
<1>2. /\ c \in Call /\ CallInv(c) /\ CallOK /\ c.pc = "record" /\ c.kind = "reset"
      /\ Advance(r, "cut")
      /\ history' = IF c.user.password = 0 THEN history
                    ELSE FirstOf(<<c.user.password>> \o history, HistorySize - 1)
      /\ UNCHANGED <<vars, person, past, disturbed, reused, mail, access>>
  BY <1>1, CallTypes DEF RecordPassword, Is, AccountInv
<1>3. ~c.late /\ exists # "no" /\ exists' = exists
  BY <1>1, <1>2, LateHasToken, CallExists DEF person
<1>4. "cut" \in Stages \ {"idle", "begin"} /\ Place(c.kind, "cut")
  BY <1>2, AccountAssumption DEF Stages, Place, Calls
<1>5. PICK d : d = Went(c, "cut")
  OBVIOUS
<1>6. d \in Call /\ d.pc = "cut" /\ d.kind = c.kind /\ call' = [call EXCEPT ![r] = d]
  BY <1>1, <1>2, <1>4, <1>5, WentTypes, AdvanceWent
<1>7. Grows /\ Counters
  BY <1>2, StaysGrows DEF mail, person, access
<1>8. CallInv(d)'
  <2>1. ~HasRead(Went(c, "cut"))
    BY <1>5, <1>6 DEF HasRead
  <2>2. CallInv(Went(c, "cut"))'
    BY <1>1, <1>2, <1>3, <1>4, <1>7, <2>1, WentKeeps
  <2>3. QED BY <1>5, <2>2
<1>9. /\ CallOK' /\ \A q \in Requests : CallInv(call[q])'
      /\ call'[r] = d /\ \A q \in Requests \ {r} : call'[q] = call[q]
  BY <1>6, <1>7, <1>8, CallStep
<1>10. PICK n : n = c.user.password
  OBVIOUS
<1>11. /\ n \in Nat /\ n <= Len(past) /\ Len(past) \in Nat /\ HistorySize \in Nat \ {0}
       /\ history \in Seq(1..Len(past)) /\ Len(history) \in Nat /\ Len(history) <= HistorySize - 1
       /\ past' = past
  BY <1>2, <1>10, AccountAssumption DEF CallInv, PastCall, HasRead, Row, AccountInv, PasswordOK
<1>12. history' = IF n = 0 THEN history ELSE FirstOf(<<n>> \o history, HistorySize - 1)
  BY <1>2, <1>10
<1>13. PasswordOK' /\ NoReuse'
  <2>1. history' \in Seq(1..Len(past)) /\ Len(history') <= HistorySize - 1
    <3>1. CASE n = 0
      BY <1>11, <1>12, <3>1
    <3>2. CASE n # 0
      <4>1. PICK s : s = <<n>> \o history
        OBVIOUS
      <4>2. n \in 1..Len(past)
        BY <1>11, <3>2
      <4>3. <<n>> \in Seq(1..Len(past))
        BY <4>2
      <4>4. s \in Seq(1..Len(past))
        BY <1>11, <4>1, <4>3, ConcatProperties
      <4>5. PICK k \in Nat : k = IF Len(s) < HistorySize - 1 THEN Len(s) ELSE HistorySize - 1
        BY <1>11, <4>4
      <4>6. \A i \in 1..k : s[i] \in 1..Len(past)
        BY <1>11, <4>4, <4>5, ElementOfSeq
      <4>7. history' = SubSeq(s, 1, k)
        BY <1>12, <3>2, <4>1, <4>5 DEF FirstOf
      <4>8. SubSeq(s, 1, k) \in Seq(1..Len(past)) /\ Len(SubSeq(s, 1, k)) <= k
        BY <4>5, <4>6, SubSeqProperties
      <4>9. k <= HistorySize - 1
        BY <1>11, <4>4, <4>5
      <4>10. Len(SubSeq(s, 1, k)) \in Nat
        BY <4>8
      <4>11. QED BY <1>11, <4>7, <4>8, <4>9, <4>10
    <3>3. QED BY <3>1, <3>2
  <2>2. QED BY <1>2, <1>11, <2>1 DEF AccountInv, PasswordOK, NoReuse
<1>14. HistoryInv'
  <2>1. SUFFICES ASSUME ~disturbed, exists = "yes"
                 PROVE  /\ HistoryIs(Len(past))'
                        /\ \A q \in Requests : ~Recorder(call'[q])
                        /\ \A q \in Requests : Writer(call'[q]) => call'[q].user.password # Len(past')
    BY <1>2, <1>3 DEF HistoryInv
  <2>2. HistoryInv /\ Recorder(call[r])
    BY <1>1, <1>2 DEF AccountInv, Recorder
  <2>3. /\ HistoryIs(Len(past) - 1) /\ n = Len(past) - 1
        /\ \A p \in Requests : Recorder(call[p]) => p = r
    BY <1>1, <1>10, <2>1, <2>2 DEF HistoryInv
  <2>4. \A q \in Requests : ~Recorder(call'[q])
    BY <1>6, <1>9, <2>3 DEF Recorder
  <2>5. ASSUME NEW q \in Requests, Writer(call'[q]) PROVE call'[q].user.password # Len(past')
    <3>1. q # r
      BY <1>6, <1>9, <2>5 DEF Writer
    <3>2. call'[q] = call[q] /\ Writer(call[q])
      BY <1>9, <2>5, <3>1
    <3>3. QED BY <1>11, <2>1, <2>2, <3>2 DEF HistoryInv
  <2>6. HistoryIs(Len(past))'
    <3>1. Len(history) = Kept(n) /\ \A i \in 1..Kept(n) : history[i] = n - i
      BY <2>3 DEF HistoryIs
    <3>2. CASE n = 0
      <4>1. Kept(0) = 0 /\ Kept(1) = 0 /\ Len(past) = 1
        BY <1>11, <2>3, <3>2 DEF Kept
      <4>2. QED BY <1>11, <1>12, <3>1, <3>2, <4>1 DEF HistoryIs
    <3>3. CASE n # 0
      <4>1. n \in Nat \ {0} /\ n \in 1..Len(past) /\ n + 1 = Len(past) /\ HistorySize - 1 \in Nat
        BY <1>11, <2>3, <3>3
      <4>2. history \in Seq(Nat)
        <5>1. 1..Len(past) \subseteq Nat
          BY <1>11
        <5>2. QED BY <1>11, <5>1, SeqMonotonic
      <4>3. history' = FirstOf(<<n>> \o history, HistorySize - 1)
        BY <1>12, <3>3
      <4>4. Len(history') = Kept(n + 1) /\ \A i \in 1..Kept(n + 1) : history'[i] = (n + 1) - i
        BY <1>11, <3>1, <4>1, <4>2, <4>3, RecordIs
      <4>5. QED BY <1>11, <4>1, <4>4 DEF HistoryIs
    <3>4. QED BY <3>2, <3>3
  <2>7. QED BY <2>4, <2>5, <2>6
<1>15. SignInInv' /\ PersonOK' /\ MailOK' /\ TokensInv' /\ AccessOK' /\ Outlives(changed)'
       /\ CutoffHolds' /\ NobodyYet'
  BY <1>2, <1>3, Frames
<1>16. RowPast' /\ LifeInv'
  BY <1>2, Frames DEF vars, factor, person
<1>17. SignUpWhole'
  <2>1. \A q \in Requests : SigningUp(q) => SigningUp(q)'
    BY <1>1, <1>2, <1>9 DEF SigningUp, Is
  <2>2. QED BY <1>2, <2>1, WholeStays DEF person, vars, factor
<1>18. QED BY <1>9, <1>13, <1>14, <1>15, <1>16, <1>17 DEF AccountInv

-----------------------------------------------------------------------------
(* The account comes to be.                                                *)
LEMMA CreateUserKeeps == ASSUME AccountInv, NEW r \in Requests, CreateUser(r) PROVE AccountInv'
<1>1. PICK c : c = call[r]
  OBVIOUS
<1>2. /\ c \in Call /\ CallInv(c) /\ CallOK /\ c.pc = "create" /\ c.kind \in {"register", "create", "oauth"}
      /\ exists = "no" /\ exists' = "yes"
      /\ row' = [enabled |-> FALSE, secret |-> Null, codes |-> {}, verified |-> c.kind = "oauth",
                 password |-> IF c.kind = "oauth" THEN 0 ELSE 1]
      /\ visible' = {row'} /\ past' = (IF c.kind = "oauth" THEN <<>> ELSE <<1>>)
      /\ Advance(r, "workspace")
      /\ UNCHANGED <<but_row, workspace, linked, job, overtaken, overlapped, halfway,
                     history, disturbed, reused, mail, access>>
  BY <1>1, CallTypes DEF CreateUser, CallInv, Place, AccountInv
<1>3. /\ past = <<>> /\ history = <<>> /\ issued = 0 /\ changed = 0 /\ linked = {} /\ sessions = {}
      /\ \A q \in Requests : NobodyCalls(call[q])
  BY <1>2 DEF AccountInv, NobodyYet
<1>4. /\ Len(past) = 0 /\ past' \in Seq(Nat) /\ Len(past') \in {0, 1} /\ Len(history) = 0
      /\ Len(past') = IF c.kind = "oauth" THEN 0 ELSE 1
  <2>1. <<>> \in Seq(Nat) /\ <<1>> \in Seq(Nat) /\ Len(<<>>) = 0 /\ Len(<<1>>) = 1
    BY EmptySeq
  <2>2. QED BY <1>2, <1>3, <2>1
<1>5. UNCHANGED <<tokens, issued, gone, sessions, clock, cut, cached, changed, refused, admitted>>
  BY <1>2 DEF mail, access
<1>6. Grows /\ Counters
  <2>1. issued \in Nat
    BY <1>3
  <2>2. QED BY <1>2, <1>3, <1>4, <1>5, <2>1 DEF Grows, Counters
<1>7. "workspace" \in Stages \ {"idle", "begin"} /\ Place(c.kind, "workspace")
  BY <1>2, AccountAssumption DEF Stages, Place, Calls
<1>8. ~c.late
  BY <1>1, <1>2, LateHasToken
<1>9. PICK d : d = Went(c, "workspace")
  OBVIOUS
<1>10. d \in Call /\ d.pc = "workspace" /\ d.kind = c.kind /\ call' = [call EXCEPT ![r] = d]
  BY <1>1, <1>2, <1>7, <1>9, WentTypes, AdvanceWent
<1>11. CallInv(d)'
  <2>1. ~HasRead(Went(c, "workspace"))
    BY <1>9, <1>10 DEF HasRead
  <2>2. c.kind # "oauth" => Len(past') # 0
    BY <1>4
  <2>3. CallInv(Went(c, "workspace"))'
    BY <1>1, <1>2, <1>6, <1>7, <1>8, <2>1, <2>2, WentKeeps
  <2>4. QED BY <1>9, <2>3
<1>12. /\ CallOK' /\ \A q \in Requests : CallInv(call[q])'
       /\ call'[r] = d /\ \A q \in Requests \ {r} : call'[q] = call[q]
  BY <1>6, <1>10, <1>11, CallStep
<1> DEFINE v == c.kind = "oauth"
<1>13. /\ row' \in Row /\ ~row'.enabled /\ row'.secret = Null /\ row'.codes = {}
       /\ row'.password = Len(past')
  <2>1. v \in BOOLEAN
    BY SMT DEF v
  <2>2. PICK n \in Nat : n = IF c.kind = "oauth" THEN 0 ELSE 1
    OBVIOUS
  <2>3. row' = [enabled |-> FALSE, secret |-> Null, codes |-> {}, verified |-> v, password |-> n]
    BY <1>2, <2>2, Zenon DEF v
  <2> HIDE DEF v
  <2>4. QED BY <1>4, <2>1, <2>2, <2>3 DEF Row
<1>14. SignInInv'
  BY <1>2, <1>13, RowKeeps DEF AccountInv
<1>15. PersonOK' /\ LifeInv' /\ NobodyYet' /\ MailOK' /\ TokensInv'
  <2>1. PersonOK' /\ NobodyYet' /\ MailOK' /\ TokensInv'
    BY <1>2, Frames DEF AccountInv, PersonOK
  <2>2. deleted' = deleted
    BY <1>2 DEF but_row
  <2>3. QED BY <1>2, <2>1, <2>2 DEF AccountInv, LifeInv, LiveIsKept
<1>16. PasswordOK' /\ NoReuse'
  <2>1. Len(past') <= PasswordBound
    BY <1>4, AccountAssumption
  <2>2. history' \in Seq(1..Len(past')) /\ Len(history') <= HistorySize - 1
    BY <1>2, <1>3, <1>4, EmptySeq, AccountAssumption
  <2>3. QED BY <1>2, <1>4, <2>1, <2>2 DEF AccountInv, PasswordOK, NoReuse
<1>17. AccessOK' /\ Outlives(changed)' /\ CutoffHolds'
  BY <1>3, <1>4, <1>5 DEF AccountInv, AccessOK, Outlives, CutoffHolds
<1>18. RowPast'
  BY <1>2, <1>4, <1>13 DEF RowPast
<1>19. SignUpWhole'
  BY <1>10, <1>12 DEF SignUpWhole, SigningUp
<1>20. HistoryInv'
  <2>1. \A q \in Requests : ~Recorder(call'[q]) /\ ~Writer(call'[q])
    BY <1>2, <1>3, <1>10, <1>12 DEF Recorder, Writer, NobodyCalls
  <2>2. HistoryIs(Len(past))'
    <3>1. Kept(0) = 0 /\ Kept(1) = 0
      BY AccountAssumption DEF Kept
    <3>2. QED BY <1>2, <1>4, <3>1 DEF HistoryIs
  <2>3. QED BY <2>1, <2>2 DEF HistoryInv
<1>21. QED BY <1>12, <1>14, <1>15, <1>16, <1>17, <1>18, <1>19, <1>20 DEF AccountInv

-----------------------------------------------------------------------------
(* The job, the clock and the tokens' age: no call moves.                  *)
LEMMA CallsRest ==
  ASSUME AccountInv, Grows, Counters, UNCHANGED <<call, exists, past, history, disturbed>>
  PROVE  CallOK' /\ (\A q \in Requests : CallInv(call[q])') /\ HistoryInv'
<1>1. CallOK' /\ \A q \in Requests : CallInv(call[q])'
  BY OthersKeep DEF AccountInv, CallOK
<1>2. Recent' = Recent /\ HistoryIs(Len(past))' = HistoryIs(Len(past))
      /\ HistoryIs(Len(past) - 1)' = HistoryIs(Len(past) - 1)
  BY DEF Recent, Hashes, HistoryIs
<1>3. HistoryInv'
  BY <1>2 DEF AccountInv, HistoryInv
<1>4. QED BY <1>1, <1>3

LEMMA NobodyRests ==
  ASSUME AccountInv, sessions' \subseteq sessions, rq' = rq, challenge' = challenge,
         UNCHANGED <<exists, past, history, issued, changed, linked, call>>
  PROVE  NobodyYet'
BY DEF AccountInv, NobodyYet

LEMMA WholeRests ==
  ASSUME AccountInv, call' = call, row'.password = row.password,
         UNCHANGED <<exists, workspace, linked, overlapped, halfway>>
  PROVE  SignUpWhole'
<1>1. \A q \in Requests : SigningUp(q) <=> SigningUp(q)'
  BY DEF SigningUp, Is
<1>2. QED BY <1>1 DEF AccountInv, SignUpWhole

(* What changes neither the row nor the passwords, and moves no call.      *)
LEMMA RestKeeps ==
  ASSUME AccountInv, Grows, Counters, UNCHANGED <<vars, exists, workspace, linked, overlapped, halfway>>,
         UNCHANGED <<passwd, call, issued, changed>>, sessions' \subseteq sessions,
         PersonOK', LifeInv', MailOK', TokensInv', AccessOK', CutoffHolds'
  PROVE  AccountInv'
<1>1. UNCHANGED <<past, history, disturbed, row, visible, rq, challenge>>
  BY DEF passwd, vars, factor
<1>2. CallOK' /\ (\A q \in Requests : CallInv(call[q])') /\ HistoryInv'
  BY <1>1, CallsRest
<1>3. SignInInv' /\ PasswordOK' /\ NoReuse' /\ RowPast'
  BY <1>1, Frames
<1>4. NobodyYet' /\ SignUpWhole' /\ Outlives(changed)'
  BY <1>1, NobodyRests, WholeRests, OutlivesStays
<1>5. QED BY <1>2, <1>3, <1>4 DEF AccountInv

LEMMA JobRestKeeps ==
  ASSUME AccountInv, FindPendingAnonymization \/ JobFails PROVE AccountInv'
<1>1. UNCHANGED <<vars, exists, workspace, linked, overtaken, overlapped, halfway,
                  passwd, mail, access, call>>
  BY DEF FindPendingAnonymization, JobFails
<1>2. UNCHANGED <<tokens, issued, gone, past, sessions, changed, deleted>>
  BY <1>1 DEF passwd, mail, access, vars, factor
<1>3. Grows /\ Counters
  BY <1>1, <1>2, StaysGrows
<1>4. PersonOK'
  BY <1>1 DEF FindPendingAnonymization, JobFails, AccountInv, PersonOK
<1>5. LifeInv'
  BY <1>1, <1>2 DEF FindPendingAnonymization, JobFails, AccountInv, LifeInv, LiveIsKept
<1>6. MailOK' /\ TokensInv' /\ AccessOK' /\ CutoffHolds'
  BY <1>1, <1>2, Frames
<1>7. QED BY <1>1, <1>2, <1>3, <1>4, <1>5, <1>6, RestKeeps

LEMMA TokensRestKeep ==
  ASSUME AccountInv, Expire \/ DeleteExpired PROVE AccountInv'
<1>1. UNCHANGED <<vars, person, passwd, issued, gone, access, call>>
  BY DEF Expire, DeleteExpired
<1>2. UNCHANGED <<past, sessions, workspace, changed, exists, linked, overlapped, halfway>>
  BY <1>1 DEF passwd, access, person
<1>3. /\ tokens \subseteq Token /\ \A t, u \in tokens : t.id = u.id => t = u
      /\ TokensInv /\ issued \in 0..TokenBound /\ gone \subseteq 1..issued
  BY DEF AccountInv, MailOK
<1>4. /\ tokens' \subseteq Token /\ \A t, u \in tokens' : t.id = u.id => t = u
      /\ \A x \in tokens' : \E u \in tokens : u.id = x.id /\ u.for = x.for /\ u.used = x.used
  <2>1. CASE Expire
    <3>1. PICK t \in tokens : tokens' = (tokens \ {t}) \cup {[t EXCEPT !.expired = TRUE]}
      BY <2>1 DEF Expire
    <3>2. PICK n : n = [t EXCEPT !.expired = TRUE]
      OBVIOUS
    <3>3. n \in Token /\ n.id = t.id /\ n.for = t.for /\ n.used = t.used
      BY <1>3, <3>2 DEF Token
    <3>4. tokens' = (tokens \ {t}) \cup {n}
      BY <3>1, <3>2
    <3>5. QED BY <1>3, <3>3, <3>4
  <2>2. CASE DeleteExpired
    <3>1. tokens' \subseteq tokens
      BY <2>2 DEF DeleteExpired
    <3>2. QED BY <1>3, <3>1
  <2>3. QED BY <2>1, <2>2
<1>5. Grows /\ Counters
  <2>1. sessions \subseteq Session /\ issued \in Nat /\ Len(past) \in Nat
    BY AccountAssumption DEF AccountInv, AccessOK, MailOK, PasswordOK
  <2>2. QED BY <1>1, <1>2, <1>4, <2>1 DEF Grows, Counters
<1>6. MailOK' /\ TokensInv'
  BY <1>1, <1>3, <1>4 DEF MailOK, TokensInv
<1>7. PersonOK' /\ AccessOK' /\ CutoffHolds' /\ LifeInv'
  BY <1>1, <1>2, Frames DEF person, vars, factor
<1>8. QED BY <1>1, <1>2, <1>5, <1>6, <1>7, RestKeeps

LEMMA TickKeeps == ASSUME AccountInv, Tick PROVE AccountInv'
<1>1. /\ clock < ClockBound /\ clock' = clock + 1
      /\ UNCHANGED <<vars, person, passwd, mail, sessions, cut, cached, changed, refused, admitted, call>>
  BY DEF Tick
<1>2. UNCHANGED <<tokens, issued, gone, past, workspace, exists, linked, overlapped, halfway>>
  BY <1>1 DEF passwd, person, mail
<1>3. Grows /\ Counters
  BY <1>1, <1>2, StaysGrows
<1>4. AccessOK' /\ CutoffHolds'
  BY <1>1, <1>2, AccountAssumption DEF AccountInv, AccessOK, CutoffHolds
<1>5. PersonOK' /\ MailOK' /\ TokensInv' /\ LifeInv'
  BY <1>1, Frames DEF person, vars, factor
<1>6. QED BY <1>1, <1>2, <1>3, <1>4, <1>5, RestKeeps

LEMMA UseTokenKeeps == ASSUME AccountInv, UseToken PROVE AccountInv'
<1>1. UNCHANGED <<vars, person, passwd, mail, sessions, clock, cut, changed, call>>
  BY DEF UseToken
<1>2. UNCHANGED <<tokens, issued, gone, past, workspace, exists, linked, overlapped, halfway>>
  BY <1>1 DEF passwd, person, mail
<1>3. Grows /\ Counters
  BY <1>1, <1>2, StaysGrows
<1>4. /\ sessions \subseteq Session /\ clock \in 0..ClockBound /\ cut \in 0..ClockBound \cup {Null}
      /\ cached \in 0..ClockBound \cup {Null} /\ changed \in 0..Len(past)
      /\ refused \in BOOLEAN /\ ~admitted
  BY DEF AccountInv, AccessOK, CutoffHolds
<1>5. PICK s \in sessions :
        /\ admitted' = (admitted \/ (cached = Null /\ (cut = Null \/ IssuedAt(s) >= cut)
                                     /\ cut # Null /\ s.at < cut))
        /\ refused' = (refused \/ (cached # Null /\ (cut = Null \/ IssuedAt(s) >= cut)))
  BY DEF UseToken
<1>6. cut # Null => ~(IssuedAt(s) >= cut /\ s.at < cut)
  <2>1. s.at \in Nat /\ s.at % 2 \in Nat /\ s.at % 2 <= s.at
    BY <1>4 DEF Session
  <2>2. IssuedAt(s) <= s.at /\ IssuedAt(s) \in Nat
    BY <2>1 DEF IssuedAt
  <2>3. QED BY <1>4, <2>1, <2>2
<1>7. admitted' = FALSE /\ refused' \in BOOLEAN
  BY <1>4, <1>5, <1>6
<1>8. cached' \in 0..ClockBound \cup {Null}
  BY <1>4 DEF UseToken, FindTokensInvalidatedAt
<1>9. AccessOK' /\ CutoffHolds'
  BY <1>1, <1>2, <1>4, <1>7, <1>8 DEF AccessOK, CutoffHolds
<1>10. PersonOK' /\ MailOK' /\ TokensInv' /\ LifeInv'
  BY <1>1, Frames DEF person, vars, factor
<1>11. QED BY <1>1, <1>2, <1>3, <1>9, <1>10, RestKeeps

LEMMA AnonymizeKeeps == ASSUME AccountInv, Anonymize PROVE AccountInv'
<1>1. /\ job = "selected" /\ job' = "bump" /\ exists' = "anonymized"
      /\ sessions' = {} /\ linked' = {} /\ tokens' = {}
      /\ row' = [enabled |-> FALSE, secret |-> Null, codes |-> {}, verified |-> FALSE, password |-> 0]
      /\ visible' = IF deleted THEN visible ELSE visible \cup {row'}
      /\ UNCHANGED <<but_row, workspace, overtaken, overlapped, halfway, passwd, issued,
                     gone, clock, cut, cached, changed, refused, admitted, call>>
  BY DEF Anonymize, UpdateUser
<1>2. UNCHANGED <<past, history, disturbed, deleted>> /\ exists # "no" /\ (deleted \/ overtaken)
  BY <1>1 DEF passwd, but_row, AccountInv, LifeInv
<1>3. Grows /\ Counters
  <2>1. issued \in Nat /\ Len(past) \in Nat
    BY AccountAssumption DEF AccountInv, MailOK, PasswordOK
  <2>2. QED BY <1>1, <1>2, <2>1 DEF Grows, Counters
<1>4. CallOK' /\ \A q \in Requests : CallInv(call[q])'
  BY <1>1, <1>3, OthersKeep DEF AccountInv, CallOK
<1>5. /\ row' \in Row /\ ~row'.enabled /\ row'.secret = Null /\ row'.codes = {} /\ row'.password = 0
  BY <1>1 DEF Row
<1>6. SignInInv'
  BY <1>1, <1>5, RowKeeps DEF AccountInv
<1>7. PersonOK' /\ LifeInv' /\ NobodyYet' /\ PasswordOK' /\ NoReuse'
  BY <1>1, <1>2, Frames DEF AccountInv, PersonOK, LifeInv, LiveIsKept
<1>8. MailOK' /\ TokensInv' /\ AccessOK' /\ CutoffHolds' /\ Outlives(changed)'
  BY <1>1, <1>2 DEF AccountInv, MailOK, TokensInv, AccessOK, CutoffHolds, Outlives
<1>9. RowPast'
  BY <1>1, <1>2, <1>3, <1>5 DEF AccountInv, RowPast, Counters
<1>10. SignUpWhole' /\ HistoryInv'
  BY <1>1 DEF SignUpWhole, HistoryInv
<1>11. QED BY <1>4, <1>6, <1>7, <1>8, <1>9, <1>10 DEF AccountInv

LEMMA BumpAnonymizedKeeps == ASSUME AccountInv, BumpAnonymized PROVE AccountInv'
<1>1. /\ job = "bump" /\ job' = "idle" /\ visible' = Bumped /\ cached' = Null
      /\ UNCHANGED <<row, but_row, exists, workspace, linked, overtaken, overlapped, halfway,
                     passwd, mail, sessions, clock, cut, changed, refused, admitted, call>>
  BY DEF BumpAnonymized
<1>2. UNCHANGED <<past, history, disturbed, deleted, tokens, issued, gone>> /\ exists # "no"
  BY <1>1 DEF passwd, but_row, mail, AccountInv, LifeInv
<1>3. Grows /\ Counters
  BY <1>1, <1>2, StaysGrows
<1>4. CallOK' /\ (\A q \in Requests : CallInv(call[q])') /\ HistoryInv'
  BY <1>1, <1>2, <1>3, CallsRest
<1>5. row' \in Row /\ visible' \subseteq visible \cup {row'} /\ (~deleted => row' \in visible')
  BY <1>1 DEF AccountInv, SignInInv, TypeOK, Bumped
<1>6. SignInInv'
  BY <1>1, <1>5, RowKeeps DEF AccountInv
<1>7. PersonOK' /\ LifeInv' /\ NobodyYet' /\ PasswordOK' /\ NoReuse' /\ MailOK' /\ TokensInv'
  BY <1>1, <1>2, Frames DEF AccountInv, PersonOK, LifeInv, LiveIsKept
<1>8. AccessOK' /\ CutoffHolds' /\ Outlives(changed)'
  BY <1>1, <1>2 DEF AccountInv, AccessOK, CutoffHolds, Outlives
<1>9. RowPast' /\ SignUpWhole'
  BY <1>1, <1>2, <1>5, WholeRests DEF AccountInv, RowPast
<1>10. QED BY <1>4, <1>6, <1>7, <1>8, <1>9 DEF AccountInv

-----------------------------------------------------------------------------
(* A sign-in's step shows the row it leaves, with the password it had.     *)
LEMMA StepRow ==
  ASSUME SignInInv, NEW r \in Requests, Step(r)
  PROVE  row'.password = row.password /\ visible' \subseteq visible \cup {row'}
<1>1. TypeOK /\ FactorInv
  BY DEF SignInInv
<1>2. CASE SetSecret(r)
  BY <1>1, <1>2, SetSecretKeeps DEF Wrote
<1>3. CASE TurnOn(r)
  BY <1>1, <1>3, TurnOnKeeps DEF Wrote
<1>4. CASE TurnOff(r)
  BY <1>1, <1>4, TurnOffKeeps DEF Wrote
<1>5. CASE ConsumeCode(r)
  BY <1>1, <1>5, ConsumeCodeKeeps DEF Wrote
<1>6. CASE \/ Login(r) \/ FindByEmail(r) \/ WrongPassword(r) \/ RightPassword(r)
           \/ CountFailure(r) \/ LockAccount(r) \/ ResetFailures(r) \/ Issue(r) \/ Fail(r)
           \/ Ask(r) \/ Verify(r)
  BY <1>6 DEF Login, FindByEmail, WrongPassword, RightPassword, CountFailure, LockAccount,
     ResetFailures, Issue, Fail, Ask, Verify, Begin, factor
<1>7. CASE Restore(r) \/ Check(r) \/ Reply(r) \/ Delete(r)
  BY <1>7 DEF Restore, Check, Reply, Delete
<1>8. CASE BumpUsers(r)
  BY <1>8 DEF BumpUsers, Bumped
<1>9. QED
  BY <1>2, <1>3, <1>4, <1>5, <1>6, <1>7, <1>8 DEF Step

(* Without an account only logins begin, and fail.                         *)
LEMMA NobodySteps ==
  ASSUME AccountInv, NEW r \in Requests, exists = "no", Login(r) \/ Fail(r)
  PROVE  challenge' = challenge /\ \A q \in Requests : NobodySignsIn(rq'[q])
<1>1. rq \in [Requests -> Request] /\ \A q \in Requests : NobodySignsIn(rq[q])
  BY DEF AccountInv, SignInInv, TypeOK, NobodyYet
<1>2. CASE Login(r)
  <2>1. Begin(r, "login", Null, 0) /\ TypeOK /\ FactorInv
    BY <1>2 DEF Login, AccountInv, SignInInv
  <2>2. Keeps(r) /\ rq'[r].pc = "begin" /\ rq'[r].kind = "login"
    BY <2>1, BeginKeeps
  <2>3. QED BY <1>1, <2>1, <2>2 DEF Begin, Keeps, NobodySignsIn
<1>3. CASE Fail(r)
  <2>1. challenge' = challenge /\ rq' = [rq EXCEPT ![r] = NoRequest]
    BY <1>3 DEF Fail, Goto
  <2>2. NobodySignsIn(NoRequest)
    BY DEF NobodySignsIn, NoRequest
  <2>3. QED BY <1>1, <2>1, <2>2
<1>4. QED BY <1>2, <1>3

LEMMA StepExists ==
  ASSUME AccountInv, NEW r \in Requests,
         \/ Verify(r) \/ Check(r) \/ (Bearer /\ Ask(r))
         \/ WrongPassword(r) \/ RightPassword(r) \/ CountFailure(r) \/ LockAccount(r)
         \/ ResetFailures(r) \/ Issue(r) \/ Restore(r) \/ SetSecret(r) \/ TurnOn(r)
         \/ TurnOff(r) \/ ConsumeCode(r) \/ BumpUsers(r) \/ Reply(r)
  PROVE  exists # "no"
<1>1. SUFFICES ASSUME exists = "no" PROVE FALSE
  OBVIOUS
<1>2. challenge = {} /\ sessions = {} /\ NobodySignsIn(rq[r])
  BY <1>1 DEF AccountInv, NobodyYet
<1>3. rq[r].pc # "idle" => rq[r].kind # Null
  BY DEF AccountInv, SignInInv, TypeOK
<1>4. CASE Verify(r)
  BY <1>2, <1>4 DEF Verify, VerifyChallengeToken
<1>5. CASE Check(r)
  BY <1>2, <1>3, <1>5 DEF Check, At, NobodySignsIn
<1>6. CASE Bearer /\ Ask(r)
  BY <1>2, <1>6 DEF Bearer
<1>7. CASE \/ WrongPassword(r) \/ RightPassword(r) \/ CountFailure(r) \/ LockAccount(r)
           \/ ResetFailures(r) \/ Issue(r) \/ Restore(r) \/ SetSecret(r) \/ TurnOn(r)
           \/ TurnOff(r) \/ ConsumeCode(r) \/ BumpUsers(r) \/ Reply(r)
  BY <1>2, <1>7 DEF WrongPassword, RightPassword, CountFailure, LockAccount, ResetFailures, Issue,
     Restore, SetSecret, TurnOn, TurnOff, ConsumeCode, BumpUsers, Reply, At, NobodySignsIn
<1>8. QED BY <1>4, <1>5, <1>6, <1>7

(* A sign-in's step next to the account.                                   *)
LEMMA SignInStep ==
  ASSUME AccountInv, Grows, Counters, NEW r \in Requests, Step(r),
         exists # "no" \/ Login(r) \/ Fail(r),
         UNCHANGED <<exists, workspace, linked, overlapped, halfway, passwd, mail, changed, call>>,
         exists = "no" => sessions' = sessions, PersonOK', AccessOK', CutoffHolds', LifeInv'
  PROVE  AccountInv'
<1>1. UNCHANGED <<past, history, disturbed, issued>>
  BY DEF passwd, mail
<1>2. SignInInv' /\ row'.password = row.password /\ visible' \subseteq visible \cup {row'}
  BY StepKeeps, StepRow DEF AccountInv
<1>3. CallOK' /\ (\A q \in Requests : CallInv(call[q])') /\ HistoryInv'
  BY <1>1, CallsRest
<1>4. PasswordOK' /\ NoReuse' /\ MailOK' /\ TokensInv'
  BY Frames
<1>5. Outlives(changed)' /\ SignUpWhole'
  BY <1>2, OutlivesStays, WholeRests
<1>6. RowPast'
  BY <1>1, <1>2 DEF AccountInv, RowPast
<1>7. NobodyYet'
  <2>1. exists = "no" => sessions = {} /\ NobodyYet
    BY DEF AccountInv, NobodyYet
  <2>2. exists = "no" => challenge' = challenge /\ \A q \in Requests : NobodySignsIn(rq'[q])
    BY NobodySteps
  <2>3. QED BY <1>1, <2>1, <2>2 DEF NobodyYet
<1>8. QED BY <1>2, <1>3, <1>4, <1>5, <1>6, <1>7 DEF AccountInv

LEMMA QuietSteps ==
  ASSUME AccountInv, NEW r \in Requests,
         \/ Login(r) /\ UNCHANGED acct
         \/ WrongPassword(r) /\ UNCHANGED acct
         \/ RightPassword(r) /\ UNCHANGED acct
         \/ CountFailure(r) /\ UNCHANGED acct
         \/ LockAccount(r) /\ UNCHANGED acct
         \/ ResetFailures(r) /\ UNCHANGED acct
         \/ Check(r) /\ UNCHANGED acct
         \/ SetSecret(r) /\ UNCHANGED acct
         \/ TurnOn(r) /\ UNCHANGED acct
         \/ TurnOff(r) /\ UNCHANGED acct
         \/ ConsumeCode(r) /\ UNCHANGED acct
         \/ BumpUsers(r) /\ UNCHANGED acct
         \/ Verify(r) /\ UNCHANGED acct
         \/ Fail(r) /\ UNCHANGED acct
         \/ Bearer /\ Ask(r) /\ UNCHANGED acct
         \/ Remove(r)
         \/ LookUp(r)
  PROVE  AccountInv'
<1>1. UNCHANGED acct /\ Step(r)
  BY DEF Step, Remove, LookUp
<1>2. UNCHANGED <<exists, workspace, linked, job, overtaken, overlapped, halfway, person, passwd,
                  mail, access, past, changed, call, tokens, issued, gone, sessions>>
  BY <1>1 DEF acct, person, passwd, mail, access
<1>3. exists # "no" \/ Login(r) \/ Fail(r)
  <2>1. (Remove(r) \/ LookUp(r)) => exists # "no"
    BY DEF Remove, LookUp, FoundIncludingDeleted
  <2>2. ASSUME \/ Verify(r) \/ Check(r) \/ (Bearer /\ Ask(r))
               \/ WrongPassword(r) \/ RightPassword(r) \/ CountFailure(r) \/ LockAccount(r)
               \/ ResetFailures(r) \/ Issue(r) \/ Restore(r) \/ SetSecret(r) \/ TurnOn(r)
               \/ TurnOff(r) \/ ConsumeCode(r) \/ BumpUsers(r) \/ Reply(r)
        PROVE  exists # "no"
    BY <2>2, StepExists
  <2>3. QED BY <2>1, <2>2
<1>4. PersonOK' /\ AccessOK' /\ CutoffHolds'
  BY <1>2, Frames
<1>5. deleted' = deleted \/ deleted'
  <2>1. CASE \/ Login(r) \/ WrongPassword(r) \/ RightPassword(r) \/ CountFailure(r) \/ LockAccount(r)
             \/ ResetFailures(r) \/ Verify(r) \/ Fail(r) \/ Ask(r) \/ LookUp(r)
    BY <2>1 DEF Login, WrongPassword, RightPassword, CountFailure, LockAccount, ResetFailures,
       Verify, Fail, Ask, LookUp, FindByEmail, Begin, factor
  <2>2. CASE Check(r) \/ BumpUsers(r) \/ Remove(r)
    BY <2>2 DEF Check, BumpUsers, Remove, Delete
  <2>3. CASE SetSecret(r) \/ TurnOn(r) \/ TurnOff(r) \/ ConsumeCode(r)
    BY <2>3 DEF SetSecret, TurnOn, TurnOff, ConsumeCode, Write
  <2>4. QED BY <2>1, <2>2, <2>3
<1>6. LifeInv'
  BY <1>2, <1>5 DEF AccountInv, LifeInv, LiveIsKept
<1>7. Grows /\ Counters
  BY <1>2, StaysGrows
<1>8. QED BY <1>1, <1>2, <1>3, <1>4, <1>6, <1>7, SignInStep

LEMMA IssueTokensKeeps == ASSUME AccountInv, NEW r \in Requests, IssueTokens(r) PROVE AccountInv'
<1>1. /\ Issue(r) /\ Step(r) /\ deleted' = deleted
      /\ UNCHANGED <<person, passwd, mail, clock, cut, cached, changed, refused, admitted, call>>
  BY DEF IssueTokens, Step, Issue, factor
<1>2. exists # "no"
  BY <1>1, StepExists
<1>3. PICK v \in Nat : v = rq[r].password
  BY DEF AccountInv, SignInInv, TypeOK, Request
<1>4. UNCHANGED <<past, workspace, exists, linked, job, overtaken, overlapped, halfway, tokens, issued, gone>>
  BY <1>1 DEF person, passwd, mail
<1>5. Grows /\ Counters /\ AccessOK' /\ CutoffHolds'
  <2>1. CASE UNCHANGED sessions
    BY <1>1, <1>4, <2>1, Frames, StaysGrows DEF access
  <2>2. CASE Open(v)
    BY <1>1, <1>4, <2>2, OpenKeeps
  <2>3. QED BY <1>3, <2>1, <2>2 DEF IssueTokens
<1>6. PersonOK' /\ LifeInv'
  BY <1>1, <1>4, Frames
<1>7. QED BY <1>1, <1>2, <1>4, <1>5, <1>6, SignInStep

LEMMA RespondKeeps == ASSUME AccountInv, NEW r \in Requests, Respond(r) PROVE AccountInv'
<1>1. /\ Reply(r) /\ Step(r) /\ deleted' = deleted
      /\ UNCHANGED <<person, passwd, mail, clock, cut, cached, changed, refused, admitted, call>>
  BY DEF Respond, Step, Reply
<1>2. exists # "no"
  BY <1>1, StepExists
<1>3. PICK v \in Nat : v = rq[r].password
  BY DEF AccountInv, SignInInv, TypeOK, Request
<1>4. UNCHANGED <<past, workspace, exists, linked, job, overtaken, overlapped, halfway, tokens, issued, gone>>
  BY <1>1 DEF person, passwd, mail
<1>5. Grows /\ Counters /\ AccessOK' /\ CutoffHolds'
  <2>1. CASE UNCHANGED sessions
    BY <1>1, <1>4, <2>1, Frames, StaysGrows DEF access
  <2>2. CASE Open(v)
    BY <1>1, <1>4, <2>2, OpenKeeps
  <2>3. QED BY <1>3, <2>1, <2>2 DEF Respond
<1>6. PersonOK' /\ LifeInv'
  BY <1>1, <1>4, Frames
<1>7. QED BY <1>1, <1>2, <1>4, <1>5, <1>6, SignInStep

LEMMA RestoreUserKeeps == ASSUME AccountInv, NEW r \in Requests, RestoreUser(r) PROVE AccountInv'
<1>1. /\ Restore(r) /\ Step(r)
      /\ overtaken' = (overtaken \/ job = "selected" \/ exists = "anonymized")
      /\ UNCHANGED <<exists, workspace, linked, job, overlapped, halfway, passwd, mail, access, call>>
  BY DEF RestoreUser, Step
<1>2. exists # "no"
  BY <1>1, StepExists
<1>3. UNCHANGED <<past, tokens, issued, gone, sessions, changed>>
  BY <1>1 DEF passwd, mail, access
<1>4. Grows /\ Counters /\ AccessOK' /\ CutoffHolds'
  BY <1>1, <1>3, Frames, StaysGrows
<1>5. PersonOK' /\ LifeInv'
  BY <1>1 DEF AccountInv, PersonOK, LifeInv, LiveIsKept
<1>6. QED BY <1>1, <1>2, <1>3, <1>4, <1>5, SignInStep

LEMMA LockEndsKept == ASSUME AccountInv, LockEnds, UNCHANGED acct PROVE AccountInv'
<1>1. SignInInv' /\ UNCHANGED <<row, visible, deleted, rq, challenge>>
  <2>1. TypeOK /\ FactorInv /\ GuessInv
    BY DEF AccountInv, SignInInv
  <2>2. QED BY <2>1, LockEndsKeeps, LockEndsGuess DEF SignInInv, LockEnds, factor
<1>2. UNCHANGED <<person, passwd, mail, access, call, past, history, disturbed, exists, workspace, linked,
                  job, overtaken, overlapped, halfway, tokens, issued, gone, sessions, changed>>
  BY DEF acct, person, passwd, mail, access
<1>3. Grows /\ Counters
  BY <1>2, StaysGrows
<1>4. CallOK' /\ (\A q \in Requests : CallInv(call[q])') /\ HistoryInv'
  BY <1>2, <1>3, CallsRest
<1>5. NobodyYet' /\ SignUpWhole'
  BY <1>1, <1>2, NobodyRests, WholeRests
<1>6. PersonOK' /\ PasswordOK' /\ NoReuse' /\ MailOK' /\ TokensInv' /\ AccessOK'
      /\ Outlives(changed)' /\ CutoffHolds' /\ RowPast' /\ LifeInv'
  BY <1>1, <1>2, Frames
<1>7. QED BY <1>1, <1>4, <1>5, <1>6 DEF AccountInv

-----------------------------------------------------------------------------
(* All together.                                                           *)
LEMMA AccountStepKeeps ==
  ASSUME AccountInv, NEW r \in Requests, AccountStep(r) PROVE AccountInv'
<1>1. CASE \/ Login(r) /\ UNCHANGED acct
           \/ WrongPassword(r) /\ UNCHANGED acct
           \/ RightPassword(r) /\ UNCHANGED acct
           \/ CountFailure(r) /\ UNCHANGED acct
           \/ LockAccount(r) /\ UNCHANGED acct
           \/ ResetFailures(r) /\ UNCHANGED acct
           \/ Check(r) /\ UNCHANGED acct
           \/ SetSecret(r) /\ UNCHANGED acct
           \/ TurnOn(r) /\ UNCHANGED acct
           \/ TurnOff(r) /\ UNCHANGED acct
           \/ ConsumeCode(r) /\ UNCHANGED acct
           \/ BumpUsers(r) /\ UNCHANGED acct
           \/ Verify(r) /\ UNCHANGED acct
           \/ Fail(r) /\ UNCHANGED acct
           \/ Bearer /\ Ask(r) /\ UNCHANGED acct
           \/ Remove(r)
           \/ LookUp(r)
  BY <1>1, QuietSteps
<1>2. CASE \/ Register(r) \/ CreateByAdmin(r) \/ Resend(r) \/ Forgot(r) \/ VerifyEmail(r)
           \/ Reset(r) \/ Callback(r) \/ Link(r) \/ Unlink(r) \/ Invalidate(r)
  BY <1>2, StartsKeep
<1>3. CASE \/ FindFree(r) \/ RequestEmailVerification(r) \/ ForgotPassword(r) \/ FindToken(r)
           \/ StartLink(r) \/ LinkToUser(r) \/ FindByIdAndUser(r)
  BY <1>3, MovesKeep
<1>4. CASE IssueTokens(r) \/ Respond(r) \/ RestoreUser(r)
  BY <1>4, IssueTokensKeeps, RespondKeeps, RestoreUserKeeps
<1>5. CASE \/ CreateUser(r) \/ CreateWorkspace(r) \/ CreateAccount(r) \/ DeleteAccount(r) \/ Lose(r)
           \/ DeletePending(r) \/ CreateToken(r) \/ MarkUsed(r) \/ ReadUser(r)
  BY <1>5, CreateUserKeeps, CreateWorkspaceKeeps, CreateAccountKeeps, DeleteAccountKeeps, LoseKeeps,
     DeletePendingKeeps, CreateTokenKeeps, MarkUsedKeeps, ReadUserKeeps
<1>6. CASE \/ ChoosePassword(r) \/ SetPassword(r) \/ MarkVerified(r) \/ Bump(r)
           \/ RecordPassword(r) \/ InvalidateTokens(r) \/ RevokeAllForUser(r) \/ Answer(r)
  BY <1>6, ChoosePasswordKeeps, SetPasswordKeeps, MarkVerifiedKeeps, BumpKeeps,
     RecordPasswordKeeps, InvalidateTokensKeeps, RevokeAllForUserKeeps, AnswerKeeps
<1>7. CASE FindByProviderIdentity(r) \/ OpenSession(r) \/ CountRemaining(r)
  BY <1>7, FindByProviderIdentityKeeps, OpenSessionKeeps, CountRemainingKeeps
<1>8. QED
  BY <1>1, <1>2, <1>3, <1>4, <1>5, <1>6, <1>7 DEF AccountStep

LEMMA AccountRests == ASSUME AccountInv, UNCHANGED all PROVE AccountInv'
<1>1. UNCHANGED <<vars, person, passwd, mail, access, call>>
  BY DEF all, acct
<1>2. UNCHANGED <<tokens, issued, gone, past, sessions, changed, exists, workspace, linked, overlapped,
                  halfway, job, overtaken, deleted>>
  BY <1>1 DEF person, passwd, mail, access, vars, factor
<1>3. Grows /\ Counters
  BY <1>2, StaysGrows
<1>4. PersonOK' /\ LifeInv' /\ MailOK' /\ TokensInv' /\ AccessOK' /\ CutoffHolds'
  BY <1>1, <1>2, Frames
<1>5. QED BY <1>1, <1>2, <1>3, <1>4, RestKeeps

LEMMA AccountNextKeeps == AccountInv /\ [AccountNext]_all => AccountInv'
<1> SUFFICES ASSUME AccountInv, [AccountNext]_all PROVE AccountInv'
  OBVIOUS
<1>1. CASE LockEnds /\ UNCHANGED acct
  BY <1>1, LockEndsKept
<1>2. CASE FindPendingAnonymization \/ JobFails
  BY <1>2, JobRestKeeps
<1>3. CASE Anonymize \/ BumpAnonymized
  BY <1>3, AnonymizeKeeps, BumpAnonymizedKeeps
<1>4. CASE Expire \/ DeleteExpired
  BY <1>4, TokensRestKeep
<1>5. CASE Tick \/ UseToken
  BY <1>5, TickKeeps, UseTokenKeeps
<1>6. CASE \E r \in Requests : AccountStep(r)
  BY <1>6, AccountStepKeeps
<1>7. CASE UNCHANGED all
  BY <1>7, AccountRests
<1>8. QED BY <1>1, <1>2, <1>3, <1>4, <1>5, <1>6, <1>7 DEF AccountNext

LEMMA AccountStarts == AccountInit => AccountInv
<1> SUFFICES ASSUME AccountInit PROVE AccountInv
  OBVIOUS
<1>1. SignInInv /\ Init
  BY SignInInit DEF AccountInit
<1>2. /\ exists \in {"no", "yes"} /\ linked = {} /\ job = "idle" /\ history = <<>>
      /\ past = (IF exists = "yes" THEN <<1>> ELSE <<>>)
      /\ tokens = {} /\ issued = 0 /\ gone = {} /\ clock = 0 /\ cut = Null /\ cached = Null
      /\ changed = 0 /\ disturbed = FALSE /\ reused = FALSE /\ overtaken = FALSE
      /\ overlapped = FALSE /\ halfway = FALSE /\ refused = FALSE /\ admitted = FALSE
      /\ call = [r \in Requests |-> NoCall]
  BY DEF AccountInit
<1>3. exists = "no" => ~row.verified
  BY DEF AccountInit
<1>4. workspace \in BOOLEAN /\ (exists = "yes" => workspace)
  <2>1. workspace = (exists = "yes")
    BY Zenon DEF AccountInit
  <2>2. QED BY <2>1
<1>5. sessions = IF row.verified THEN {[version |-> 1, at |-> 0, late |-> FALSE]} ELSE {}
  BY DEF AccountInit
<1>6. row.password = 1 /\ visible = {row} /\ challenge = {} /\ rq = [r \in Requests |-> NoRequest]
      /\ deleted = FALSE /\ row \in Row
  BY <1>1 DEF Init, Row
<1>7. past \in Seq(Nat) /\ Len(past) = IF exists = "yes" THEN 1 ELSE 0
  <2>1. <<>> \in Seq(Nat) /\ <<1>> \in Seq(Nat) /\ Len(<<>>) = 0 /\ Len(<<1>>) = 1
    BY EmptySeq
  <2>2. QED BY <1>2, <2>1
<1>8. PersonOK
  BY <1>2, <1>4 DEF PersonOK
<1>9. PasswordOK /\ NoReuse
  <2>1. history \in Seq(1..Len(past)) /\ Len(history) = 0
    BY <1>2, EmptySeq
  <2>2. 0 <= HistorySize - 1 /\ Len(past) <= PasswordBound
    BY <1>7, AccountAssumption
  <2>3. disturbed \in BOOLEAN /\ reused \in BOOLEAN /\ ~reused
    BY <1>2
  <2>4. QED BY <1>7, <2>1, <2>2, <2>3 DEF PasswordOK, NoReuse
<1>10. MailOK /\ TokensInv
  BY <1>2, AccountAssumption DEF MailOK, TokensInv
<1>11. AccessOK /\ Outlives(changed) /\ CutoffHolds
  <2>1. PICK s : s = [version |-> 1, at |-> 0, late |-> FALSE]
    OBVIOUS
  <2>2. 0 \in 0..ClockBound
    BY AccountAssumption
  <2>3. s \in Session /\ s.version = 1
    BY <2>1, <2>2 DEF Session
  <2>4. sessions \subseteq {s}
    BY <1>5, <2>1
  <2>5. changed \in 0..Len(past) /\ Outlives(changed) /\ sessions \subseteq Session
    BY <1>2, <1>7, <2>3, <2>4 DEF Outlives
  <2>6. refused \in BOOLEAN /\ admitted \in BOOLEAN /\ ~admitted /\ clock = 0 /\ cut = Null /\ cached = Null
    BY <1>2
  <2>7. QED BY <2>2, <2>5, <2>6 DEF AccessOK, CutoffHolds
<1>12. CallOK /\ \A r \in Requests : call[r] = NoCall
  BY <1>2, NoCallType DEF CallOK
<1>13. CallInv(NoCall)
  <2>1. NoCall.pc = "idle" /\ NoCall.kind = Null /\ NoCall.late = FALSE
        /\ NoCall.version = 0 /\ NoCall.old = {}
    BY DEF NoCall
  <2>2. \A x \in Calls : Null # x
    BY AccountAssumption
  <2>3. Place(NoCall.kind, NoCall.pc) /\ MailCall(NoCall)
    BY <2>1, <2>2 DEF Place, MailCall, Calls
  <2>4. VersionCall(NoCall) /\ PastCall(NoCall) /\ WholeCall(NoCall)
    BY <1>7, <2>1, <2>2 DEF VersionCall, PastCall, HasRead, WholeCall, Calls
  <2>5. QED BY <2>1, <2>3, <2>4 DEF CallInv
<1>14. NobodyYet
  <2>1. NobodyCalls(NoCall) /\ NobodySignsIn(NoRequest)
    BY DEF NobodyCalls, NoCall, NobodySignsIn, NoRequest
  <2>2. QED BY <1>2, <1>3, <1>5, <1>6, <1>12, <2>1 DEF NobodyYet
<1>15. LifeInv /\ RowPast /\ SignUpWhole
  BY <1>2, <1>4, <1>6, <1>7 DEF LifeInv, LiveIsKept, RowPast, SignUpWhole
<1>16. HistoryInv
  <2>1. \A r \in Requests : ~Recorder(call[r]) /\ ~Writer(call[r])
    BY <1>12 DEF Recorder, Writer, NoCall
  <2>2. exists = "yes" => HistoryIs(Len(past))
    BY <1>2, <1>7, EmptySeq, AccountAssumption DEF HistoryIs, Kept
  <2>3. QED BY <2>1, <2>2 DEF HistoryInv
<1>17. QED
  BY <1>1, <1>8, <1>9, <1>10, <1>11, <1>12, <1>13, <1>14, <1>15, <1>16 DEF AccountInv

-----------------------------------------------------------------------------
(* The invariant holds in every state of the account.                      *)
THEOREM AccountInvariant == AccountSpec => []AccountInv
BY AccountStarts, AccountNextKeeps, PTL DEF AccountSpec

(* Type correctness of the account and of the sign-in.                     *)
THEOREM AccountTypeCorrect == AccountSpec => []AccountTypeOK
BY InvTypes, AccountInvariant, PTL

(* However many logins interleave, and whatever becomes of the account     *)
(* meanwhile, LoginUseCase lets the password be guessed at most MaxFailed  *)
(* times between resets, and once more after a lock, but for the logins in *)
(* flight when it locked and those that died uncounted.                    *)
THEOREM GuessesAreBounded == AccountSpec => []GuessesBounded
<1>1. AccountInv => GuessesBounded
  BY GuessInvBounds DEF AccountInv, SignInInv
<1>2. QED BY <1>1, AccountInvariant, PTL

(* 2FA that is on has a secret Enable2faUseCase saw a code of, but for     *)
(* writes over a row that was not read.                                    *)
THEOREM SecretsAreConfirmed == AccountSpec => []SecretConfirmed
<1>1. AccountInv => SecretConfirmed
  BY DEF AccountInv, SignInInv, FactorInv
<1>2. QED BY <1>1, AccountInvariant, PTL

(* A recovery code Verify2faUseCase or Disable2faUseCase answered for gets *)
(* no later request past its check, in spite of the cached row, but for    *)
(* writes over a row that was not read.                                    *)
THEOREM CodesAreSpentOnce == AccountSpec => []SpentCode
<1>1. AccountInv => SpentCode
  BY DEF AccountInv, SignInInv, FactorInv, CodeInv, SpentCode
<1>2. QED BY <1>1, AccountInvariant, PTL

(* An answered ResetPasswordUseCase leaves no session of an older          *)
(* password, but for those issued after it by sign-ins begun before.       *)
THEOREM ResetsEndSessions == AccountSpec => []ResetEndsSessions
<1>1. AccountInv => ResetEndsSessions
  BY DEF AccountInv, Outlives, ResetEndsSessions
<1>2. QED BY <1>1, AccountInvariant, PTL

(* A reset or verification token answered as used, or replaced by an       *)
(* answered request for a new one, is found by no later request.           *)
THEOREM TokensAreSpentOnce == AccountSpec => []SpentToken
<1>1. AccountInv => SpentToken
  <2>1. SUFFICES ASSUME AccountInv, NEW r \in Requests, call[r].late
                 PROVE call[r].pc \in {"idle", "begin"}
    BY DEF SpentToken
  <2>2. QED BY <2>1, LateHasToken
<1>2. QED BY <1>1, AccountInvariant, PTL

(* However many passwords PASSWORD_HISTORY_SIZE forbids, ResetPassword-    *)
(* UseCase takes none of them unless resets were disturbed.                *)
THEOREM RecentIsRefused == AccountSpec => []NoReuse
<1>1. AccountInv => NoReuse
  BY DEF AccountInv
<1>2. QED BY <1>1, AccountInvariant, PTL

(* A sign-up that ended, by password, by an administrator or by a          *)
(* provider, leaves an account with a workspace and a way to sign in, and  *)
(* no unlink takes the last one, unless two overlapped.                    *)
THEOREM SignUpsAreWhole == AccountSpec => []SignUpWhole
<1>1. AccountInv => SignUpWhole
  BY DEF AccountInv
<1>2. QED BY <1>1, AccountInvariant, PTL

(* AnonymizeExpiredUsersUseCase anonymizes deleted accounts only, unless a *)
(* login restored one after the job had selected it.                       *)
THEOREM LiveAccountsAreKept == AccountSpec => []LiveIsKept
<1>1. AccountInv => LiveIsKept
  BY DEF AccountInv, LifeInv
<1>2. QED BY <1>1, AccountInvariant, PTL

(* JwtStrategy.validate admits no token from before tokensInvalidatedAt,   *)
(* though its issue time is in whole seconds.                              *)
THEOREM CutoffIsKept == AccountSpec => []CutoffHolds
<1>1. AccountInv => CutoffHolds
  BY DEF AccountInv
<1>2. QED BY <1>1, AccountInvariant, PTL
=============================================================================
