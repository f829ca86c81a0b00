-------------------------- MODULE Idempotency_proofs --------------------------
(***************************************************************************)
(* Proofs about Idempotency, for every set of requests and bodies.         *)
(* Exclusive, AnswerKept and EffectOnce are not inductive: they rest on    *)
(* the entry still being owned by whoever works or has answered, which is  *)
(* what LockInv and EffectInv say.                                         *)
(***************************************************************************)
EXTENDS Idempotency, TLAPS

(* Until a request loses its entry, whoever works owns the entry.          *)
LockInv == ~ousted => \A r \in Requests : Busy(r) => Owns(r)

(* Until then, of those whose handler succeeded, only the owner of the     *)
(* entry has not failed.                                                   *)
EffectInv ==
  ~ousted => \A e \in effects :
               Failing(e) \/ Busy(e) \/ (entry.state = "complete" /\ entry.answer = e)

(* An answer is kept with the hash of the body it was given for.           *)
HashInv == entry.state = "complete" => entry.hash = body[entry.answer]

(* Nobody has an outcome before it is done.                                *)
OutcomeInv == \A r \in Requests : rq[r].pc # "done" => rq[r].outcome = "none"

IInv == TypeOK /\ OutcomeInv /\ LockInv /\ EffectInv /\ HashInv /\ AnswerKept /\ ReplayFaithful

-----------------------------------------------------------------------------
(* What Entry says of the fields of an entry, in the form the steps use.   *)
LEMMA EntryFields ==
  ASSUME NEW e \in Entry
  PROVE  /\ e.state \in {"none", "locked", "complete"}
         /\ e.state = "none" <=> e = NoEntry
         /\ e # NoEntry => e.hash \in Bodies
         /\ e.state = "complete" => e.answer \in Requests
BY DEF Entry, NoEntry, Locked, Complete

LEMMA MadeEntries ==
  ASSUME NEW h \in Bodies, NEW r \in Requests
  PROVE  /\ NoEntry \in Entry /\ NoEntry.state = "none"
         /\ Locked(h) \in Entry /\ Locked(h).state = "locked" /\ Locked(h).hash = h
         /\ Complete(h, r) \in Entry /\ Complete(h, r).state = "complete"
         /\ Complete(h, r).hash = h /\ Complete(h, r).answer = r
BY DEF Entry, NoEntry, Locked, Complete

LEMMA InitInv == Init => IInv
<1> SUFFICES ASSUME Init PROVE IInv
  OBVIOUS
<1>1. NoEntry \in Entry /\ entry.state = "none"
  BY DEF Init, Entry, NoEntry
<1>2. TypeOK /\ OutcomeInv
  BY <1>1, RequestsAssumption DEF Init, TypeOK, OutcomeInv, Request
<1>3. LockInv /\ EffectInv /\ HashInv /\ AnswerKept /\ ReplayFaithful
  BY <1>1 DEF Init, LockInv, EffectInv, HashInv, AnswerKept, ReplayFaithful, Busy
<1>4. QED BY <1>2, <1>3 DEF IInv

-----------------------------------------------------------------------------
(* Steps that leave the entry alone, and at most end a request's work.     *)
LEMMA QuietStep ==
  ASSUME IInv, NEW r \in Requests,
         UNCHANGED <<body, entry, holder, answered, ousted>>,
         NEW l \in {"fetch", "store", "release", "crashed"},
         rq' = [rq EXCEPT ![r].pc = l],
         l \in {"store", "release"} => Busy(r), rq[r].pc # "done",
         rq[r].pc = "release" => l = "crashed",
         rq[r].pc # "crashed",
         effects' = IF l = "store" THEN effects \cup {r} ELSE effects,
         l = "fetch" => rq[r].pc = "new"
  PROVE  IInv'
<1>1. TypeOK' /\ OutcomeInv'
  BY DEF IInv, TypeOK, OutcomeInv, Request
<1>2. \A q \in Requests : /\ q # r => rq'[q] = rq[q]
                          /\ rq'[r].pc = l /\ rq'[r].outcome = rq[r].outcome
                          /\ rq'[q].answer = rq[q].answer
                          /\ rq'[q].outcome = rq[q].outcome
  BY DEF IInv, TypeOK, Request
<1>3. \A q \in Requests : /\ Busy(q)' => Busy(q)
                          /\ Failing(q) => Failing(q)'
                          /\ Busy(q) => Busy(q)' \/ Failing(q)'
  BY <1>2 DEF IInv, OutcomeInv, Busy, Failing
<1>4. LockInv' /\ HashInv' /\ AnswerKept' /\ ReplayFaithful'
  BY <1>2, <1>3 DEF IInv, TypeOK, LockInv, HashInv, AnswerKept, ReplayFaithful, Owns
<1>5. EffectInv'
  BY <1>2, <1>3 DEF IInv, TypeOK, EffectInv, Busy
<1>6. QED BY <1>1, <1>4, <1>5 DEF IInv

LEMMA RefuseStep ==
  ASSUME IInv, NEW r \in Requests,
         UNCHANGED <<body, entry, holder, history>>,
         NEW o \in {"conflict", "mismatch", "error"}, Refuse(r, o),
         rq[r].pc \in {"new", "fetch"} \/ (rq[r].pc = "release" /\ o = "error")
  PROVE  IInv'
<1> USE DEF history
<1>1. rq' = [rq EXCEPT ![r].pc = "done", ![r].outcome = o]
  BY DEF Refuse
<1>2. TypeOK' /\ OutcomeInv'
  BY <1>1 DEF IInv, TypeOK, OutcomeInv, Request
<1>3. \A q \in Requests : /\ Busy(q)' <=> Busy(q)
                          /\ Failing(q) => Failing(q)'
                          /\ rq'[q].outcome = "ok" => rq[q].outcome = "ok"
                          /\ rq'[q].answer = rq[q].answer
  BY <1>1 DEF IInv, TypeOK, OutcomeInv, Request, Busy, Failing
<1>4. LockInv' /\ EffectInv' /\ HashInv' /\ AnswerKept' /\ ReplayFaithful'
  BY <1>3 DEF IInv, TypeOK, LockInv, EffectInv, HashInv, AnswerKept, ReplayFaithful, Owns
<1>5. QED BY <1>2, <1>4 DEF IInv

(* An answer is given: its entry, old or new, is the complete one.         *)
LEMMA GiveStep ==
  ASSUME IInv, NEW r \in Requests, NEW a \in Requests,
         UNCHANGED <<body, holder, effects, ousted>>, Give(r, a),
         rq[r].pc \in {"fetch", "store"}, body[a] = body[r],
         entry' \in Entry, entry'.state = "complete", entry'.answer = a,
         entry'.hash = body[r],
         ~ousted => /\ \A b \in answered : b = a \/ Failing(b)
                    /\ \A b \in effects : b = a \/ Failing(b)
                    /\ \A p \in Requests : Busy(p) => p = a
  PROVE  IInv'
<1>1. /\ rq' = [rq EXCEPT ![r] = [pc |-> "done", outcome |-> "ok", answer |-> a]]
      /\ answered' = answered \cup {a}
  BY DEF Give
<1>2. TypeOK' /\ OutcomeInv'
  BY <1>1, RequestsAssumption DEF IInv, TypeOK, OutcomeInv, Request
<1>3. \A q \in Requests : /\ Busy(q)' => Busy(q)
                          /\ Failing(q) => Failing(q)'
  BY <1>1 DEF IInv, TypeOK, OutcomeInv, Request, Busy, Failing
<1>4. LockInv' /\ EffectInv' /\ AnswerKept'
  BY <1>1, <1>3 DEF IInv, TypeOK, LockInv, EffectInv, AnswerKept, Owns
<1>5. HashInv' /\ ReplayFaithful'
  BY <1>1 DEF IInv, TypeOK, Request, HashInv, ReplayFaithful
<1>6. QED BY <1>2, <1>4, <1>5 DEF IInv

(* A lock or nothing takes the place of an entry whose owner, if any, is   *)
(* not at work, and has failed if its handler succeeded.                   *)
LEMMA ReplaceStep ==
  ASSUME IInv, UNCHANGED body, entry' \in Entry, entry'.state # "complete",
         holder' \in Requests \cup {Nobody},
         answered' \subseteq answered, effects' \subseteq effects,
         ousted' \in BOOLEAN, ousted => ousted', TypeOK', OutcomeInv', ReplayFaithful',
         \A q \in Requests : Failing(q) => Failing(q)',
         \A q \in Requests : Busy(q)' => Busy(q) \/ (entry'.state = "locked" /\ holder' = q),
         ~ousted' => /\ \A p \in Requests : ~Busy(p)
                     /\ \A a \in answered' \cup effects' : Failing(a)
  PROVE  IInv'
<1>1. LockInv' /\ EffectInv' /\ AnswerKept' /\ HashInv'
  BY DEF IInv, TypeOK, LockInv, EffectInv, AnswerKept, HashInv, Owns
<1>2. QED BY <1>1 DEF IInv

-----------------------------------------------------------------------------
LEMMA InvStep == IInv /\ [Next]_vars => IInv'
<1> SUFFICES ASSUME IInv, [Next]_vars PROVE IInv'
  OBVIOUS
<1>f. /\ entry \in Entry /\ entry.state \in {"none", "locked", "complete"}
      /\ entry.state = "none" <=> entry = NoEntry
      /\ entry # NoEntry => entry.hash \in Bodies
      /\ entry.state = "complete" => entry.answer \in Requests
  BY EntryFields DEF IInv, TypeOK
<1>o. \A p, q \in Requests : Owns(p) /\ Owns(q) => p = q
  BY DEF Owns
<1>w. ~ousted => \A p \in Requests : Busy(p) => Owns(p)
  BY DEF IInv, LockInv
<1>a. ~ousted => \A b \in answered \cup effects :
        Failing(b) \/ Busy(b) \/ (entry.state = "complete" /\ entry.answer = b)
  BY DEF IInv, AnswerKept, EffectInv
<1>n. ~ousted /\ entry = NoEntry =>
        /\ \A p \in Requests : ~Busy(p)
        /\ \A b \in answered \cup effects : Failing(b)
  BY <1>f, <1>w, <1>a DEF Owns, IInv, TypeOK
<1>1. ASSUME NEW r \in Requests, TryAcquire(r) PROVE IInv'
  <2>1. CASE entry = NoEntry
    <3>1. /\ rq[r].pc = "new" /\ rq' = [rq EXCEPT ![r].pc = "handler"]
          /\ entry' = Locked(body[r]) /\ holder' = r
          /\ UNCHANGED <<body, answered, effects, ousted>>
      BY <1>1, <2>1 DEF TryAcquire, Goto, history
    <3>2. entry' \in Entry /\ entry'.state = "locked"
      BY <3>1, MadeEntries DEF IInv, TypeOK
    <3>3. TypeOK' /\ OutcomeInv' /\ ReplayFaithful'
      BY <3>1, <3>2 DEF IInv, TypeOK, OutcomeInv, ReplayFaithful, Request
    <3>4. \A q \in Requests : /\ Failing(q) => Failing(q)'
                              /\ Busy(q)' => Busy(q) \/ q = r
      BY <3>1 DEF IInv, TypeOK, Failing, Busy
    <3>5. QED BY <1>n, <2>1, <3>1, <3>2, <3>3, <3>4, ReplaceStep DEF IInv, TypeOK
  <2>2. CASE entry # NoEntry
    <3>1. QED BY <1>1, <2>2, QuietStep DEF TryAcquire, Goto, history
  <2>3. QED BY <2>1, <2>2
<1>2. ASSUME NEW r \in Requests, Fetch(r) PROVE IInv'
  <2>1. CASE entry.state = "complete" /\ entry.hash = body[r] /\ Give(r, entry.answer)
    <3>1. entry.answer \in Requests /\ body[entry.answer] = body[r]
      BY <1>f, <2>1 DEF IInv, HashInv
    <3>2. \A p \in Requests : Owns(p) => p = entry.answer
      BY <2>1 DEF Owns
    <3>3. ~ousted => /\ \A b \in answered : b = entry.answer \/ Failing(b)
                     /\ \A b \in effects : b = entry.answer \/ Failing(b)
                     /\ \A p \in Requests : Busy(p) => p = entry.answer
      BY <1>w, <1>a, <3>2 DEF IInv, TypeOK
    <3>4. UNCHANGED <<body, entry, holder, effects, ousted>> /\ rq[r].pc = "fetch"
      BY <1>2 DEF Fetch
    <3>5. QED
      BY <1>f, <2>1, <3>1, <3>3, <3>4, GiveStep
  <2>2. ASSUME NEW o \in {"conflict", "mismatch"}, Refuse(r, o), UNCHANGED answered
        PROVE  IInv'
    BY <1>2, <2>2, RefuseStep DEF Fetch, history
  <2>3. QED BY <1>2, <2>1, <2>2 DEF Fetch
<1>3. ASSUME NEW r \in Requests, LookupFails(r) PROVE IInv'
  BY <1>3, RefuseStep DEF LookupFails
<1>4. ASSUME NEW r \in Requests, HandlerReturns(r) PROVE IInv'
  BY <1>4, QuietStep DEF HandlerReturns, Goto, Busy
<1>5. ASSUME NEW r \in Requests, HandlerThrows(r) PROVE IInv'
  BY <1>5, QuietStep DEF HandlerThrows, Goto, Busy, history
<1>6. ASSUME NEW r \in Requests, StoreFails(r) PROVE IInv'
  BY <1>6, QuietStep DEF StoreFails, Goto, Busy, history
<1>7. ASSUME NEW r \in Requests, Crash(r) PROVE IInv'
  BY <1>7, QuietStep DEF Crash, Goto, history
<1>8. ASSUME NEW r \in Requests, Store(r) PROVE IInv'
  <2>1. /\ Busy(r) /\ rq[r].pc = "store" /\ Give(r, r)
        /\ UNCHANGED <<body, holder, effects, ousted>>
    BY <1>8 DEF Store, Busy
  <2>2. /\ entry' \in Entry /\ entry'.state = "complete"
        /\ entry'.hash = body[r] /\ entry'.answer = r
    BY <1>8, MadeEntries DEF Store, IInv, TypeOK
  <2>3. ~ousted => Owns(r)
    BY <1>w, <2>1
  <2>4. ~ousted => \A p \in Requests : Busy(p) => p = r
    BY <1>w, <1>o, <2>3
  <2>5. ~ousted => \A b \in answered \cup effects : b = r \/ Failing(b)
    BY <1>a, <2>3, <2>4 DEF Owns, IInv, TypeOK
  <2>6. QED BY <2>1, <2>2, <2>4, <2>5, GiveStep
<1>9. ASSUME NEW r \in Requests, rq[r].pc = "release", Delete(r) PROVE
        ~ousted' => /\ \A p \in Requests : ~Busy(p)
                    /\ \A b \in answered \cup effects : Failing(b)
  <2>1. ~ousted' => ~ousted /\ (entry = NoEntry \/ Owns(r))
    BY <1>9 DEF Delete, IInv, TypeOK
  <2>2. ~Busy(r) /\ Failing(r)
    BY <1>9 DEF Busy, Failing
  <2>3. CASE ~ousted /\ Owns(r)
    <3>1. \A p \in Requests : ~Busy(p)
      BY <1>w, <1>o, <2>2, <2>3
    <3>2. \A b \in answered \cup effects : Failing(b)
      BY <1>a, <2>2, <2>3, <3>1 DEF Owns, IInv, TypeOK
    <3>3. QED BY <3>1, <3>2
  <2>4. QED BY <1>n, <2>1, <2>3
<1>10. ASSUME NEW r \in Requests, Release(r) PROVE IInv'
  <2>1. /\ rq[r].pc = "release" /\ Delete(r) /\ entry' = NoEntry
        /\ rq' = [rq EXCEPT ![r].pc = "done", ![r].outcome = "error"]
        /\ UNCHANGED <<body, holder, answered, effects>>
        /\ ousted' = (ousted \/ (entry # NoEntry /\ ~Owns(r)))
    BY <1>10 DEF Release, Refuse, Delete
  <2>2. NoEntry \in Entry /\ NoEntry.state = "none"
    BY DEF Entry, NoEntry
  <2>3. ousted' \in BOOLEAN /\ (ousted => ousted')
    BY <2>1 DEF IInv, TypeOK
  <2>4. TypeOK' /\ OutcomeInv' /\ ReplayFaithful'
    BY <2>1, <2>2, <2>3 DEF IInv, TypeOK, OutcomeInv, ReplayFaithful, Request
  <2>5. \A q \in Requests : (Failing(q) => Failing(q)') /\ (Busy(q)' => Busy(q))
    BY <2>1 DEF IInv, TypeOK, Failing, Busy
  <2>6. QED BY <1>9, <2>1, <2>2, <2>3, <2>4, <2>5, ReplaceStep DEF IInv, TypeOK
<1>11. ASSUME NEW r \in Requests, ReleaseFails(r) PROVE IInv'
  BY <1>11, RefuseStep DEF ReleaseFails
<1>12. ASSUME NEW r \in Requests, ReplyLost(r) PROVE IInv'
  <2> UNCHANGED <<body, rq, answered, effects>>
    BY <1>12 DEF ReplyLost
  <2>1. \A q \in Requests : (Failing(q)' <=> Failing(q)) /\ (Busy(q)' <=> Busy(q))
    BY DEF Failing, Busy
  <2>2. CASE rq[r].pc = "new" /\ entry = NoEntry /\ entry' = Locked(body[r])
             /\ holder' = r /\ UNCHANGED ousted
    <3>1. entry' \in Entry /\ entry'.state = "locked"
      BY <2>2, MadeEntries DEF IInv, TypeOK
    <3>2. TypeOK' /\ OutcomeInv' /\ ReplayFaithful'
      BY <2>2, <3>1 DEF IInv, TypeOK, OutcomeInv, ReplayFaithful
    <3>3. QED BY <1>n, <2>1, <2>2, <3>1, <3>2, ReplaceStep DEF IInv, TypeOK
  <2>3. CASE rq[r].pc = "store" /\ entry' = Complete(body[r], r) /\ UNCHANGED <<holder, ousted>>
    <3>1. /\ entry' \in Entry /\ entry'.state = "complete"
          /\ entry'.hash = body[r] /\ entry'.answer = r
      BY <2>3, MadeEntries DEF IInv, TypeOK
    <3>2. Busy(r) /\ (~ousted => Owns(r))
      BY <1>w, <2>3 DEF Busy
    <3>3. ~ousted => \A p \in Requests : Busy(p) => p = r
      BY <1>w, <1>o, <3>2
    <3>4. ~ousted => \A b \in answered : b = r \/ Failing(b)
      BY <1>a, <3>2, <3>3 DEF Owns, IInv, TypeOK
    <3>5. TypeOK' /\ OutcomeInv' /\ ReplayFaithful' /\ HashInv'
      BY <2>3, <3>1 DEF IInv, TypeOK, OutcomeInv, ReplayFaithful, HashInv
    <3>6. LockInv' /\ AnswerKept'
      BY <2>1, <2>3, <3>1, <3>3, <3>4 DEF IInv, TypeOK, LockInv, AnswerKept, Owns
    <3>7. ~ousted => \A b \in effects : b = r \/ Failing(b)
      BY <1>a, <3>2, <3>3 DEF Owns, IInv, TypeOK
    <3>8. EffectInv'
      BY <2>1, <2>3, <3>1, <3>7 DEF IInv, TypeOK, EffectInv
    <3>9. QED BY <3>5, <3>6, <3>8 DEF IInv
  <2>4. CASE rq[r].pc = "release" /\ Delete(r) /\ UNCHANGED holder
    <3>1. NoEntry \in Entry /\ NoEntry.state = "none"
      BY DEF Entry, NoEntry
    <3>2. /\ entry' = NoEntry /\ ousted' \in BOOLEAN /\ (ousted => ousted')
      BY <2>4 DEF Delete, IInv, TypeOK
    <3>3. TypeOK' /\ OutcomeInv' /\ ReplayFaithful'
      BY <2>4, <3>1, <3>2 DEF IInv, TypeOK, OutcomeInv, ReplayFaithful
    <3>4. QED BY <1>9, <2>1, <2>4, <3>1, <3>2, <3>3, ReplaceStep DEF IInv, TypeOK
  <2>5. QED BY <1>12, <2>2, <2>3, <2>4 DEF ReplyLost
<1>13. CASE ExpireLock \/ ExpireAnswer
  <2>1. /\ entry' = NoEntry /\ UNCHANGED <<body, rq, holder>>
        /\ answered' \subseteq answered /\ effects' \subseteq effects
        /\ \/ /\ entry.state = "locked" /\ ousted' = (ousted \/ Busy(holder))
              /\ UNCHANGED <<answered, effects>>
           \/ /\ entry.state = "complete" /\ ousted' = (ousted \/ Busy(entry.answer))
              /\ answered' = {} /\ effects' = {}
    BY <1>13 DEF ExpireLock, ExpireAnswer
  <2>2. NoEntry \in Entry /\ NoEntry.state = "none"
    BY DEF Entry, NoEntry
  <2>3. ousted' \in BOOLEAN /\ (ousted => ousted')
    BY <2>1 DEF IInv, TypeOK, Busy
  <2>4. \A q \in Requests : (Failing(q)' <=> Failing(q)) /\ (Busy(q)' <=> Busy(q))
    BY <2>1 DEF Failing, Busy
  <2>5. ~ousted' => \A p \in Requests : ~Busy(p)
    BY <1>w, <2>1 DEF Owns
  <2>6. ~ousted' => \A b \in answered' \cup effects' : Failing(b)
    BY <1>a, <2>1, <2>5 DEF IInv, TypeOK
  <2>7. TypeOK' /\ OutcomeInv' /\ ReplayFaithful'
    BY <2>1, <2>2, <2>3 DEF IInv, TypeOK, OutcomeInv, ReplayFaithful
  <2>8. QED BY <2>1, <2>2, <2>3, <2>4, <2>5, <2>6, <2>7, ReplaceStep DEF IInv, TypeOK
<1>14. CASE UNCHANGED vars
  BY <1>14 DEF vars, history, IInv, TypeOK, OutcomeInv, LockInv, EffectInv, HashInv, AnswerKept,
               ReplayFaithful, Busy, Owns, Failing
<1>15. QED
  BY <1>1, <1>2, <1>3, <1>4, <1>5, <1>6, <1>7, <1>8, <1>10, <1>11, <1>12, <1>13, <1>14
     DEF Next, Serve

-----------------------------------------------------------------------------
(* What the interceptor keeps true however requests, failures, crashes and *)
(* TTLs interleave: the entry's lock is its worker's, and its answer is    *)
(* the one that was given.                                                 *)
THEOREM IdempotencyInductive == Spec => []IInv
<1>1. Init => IInv
  BY InitInv
<1>2. IInv /\ [Next]_vars => IInv'
  BY InvStep
<1>3. QED
  BY <1>1, <1>2, PTL DEF Spec

(* Redis's entry and every request keep their types; a request succeeds    *)
(* with an answer, and only then has one.                                  *)
THEOREM IdempotencyTypeCorrect == Spec => []TypeOK
<1>1. IInv => TypeOK
  BY DEF IInv
<1>2. QED
  BY <1>1, IdempotencyInductive, PTL

(* One handler at a time: SET NX admits one request per key, until a lock  *)
(* expires under its request or is deleted by a repeated release.          *)
THEOREM OneAtATime == Spec => []Exclusive
<1>1. IInv => Exclusive
  BY DEF IInv, LockInv, Exclusive, Owns
<1>2. QED
  BY <1>1, IdempotencyInductive, PTL

(* One success per key: what a client was answered is what every repetition *)
(* is answered while the answer lives, unless the request that made it     *)
(* failed for its own client.                                              *)
THEOREM OneAnswer == Spec => []AnswerKept
<1>1. IInv => AnswerKept
  BY DEF IInv
<1>2. QED
  BY <1>1, IdempotencyInductive, PTL

(* One effect per key: the interceptor lets a handler run again only after *)
(* a request whose handler had succeeded failed for its client, or died.   *)
THEOREM EffectHappensOnce == Spec => []EffectOnce
<1>1. IInv => EffectOnce
  <2>1. SUFFICES ASSUME IInv, ~ousted, NEW p \in effects, NEW q \in effects,
                        ~Failing(p), ~Failing(q)
                 PROVE  p = q
    BY DEF EffectOnce
  <2>2. p \in Requests /\ q \in Requests
    BY <2>1 DEF IInv, TypeOK
  <2>3. Owns(p) /\ Owns(q)
    BY <2>1, <2>2 DEF IInv, LockInv, EffectInv, Owns
  <2>4. QED BY <2>3 DEF Owns
<1>2. QED
  BY <1>1, IdempotencyInductive, PTL

(* No answer is replayed to another body, not even after locks expired     *)
(* under their requests.                                                   *)
THEOREM ReplaysMatch == Spec => []ReplayFaithful
<1>1. IInv => ReplayFaithful
  BY DEF IInv
<1>2. QED
  BY <1>1, IdempotencyInductive, PTL
=============================================================================
