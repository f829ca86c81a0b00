----------------------------- MODULE Idempotency -----------------------------
(***************************************************************************)
(* What the Idempotency-Key header buys: requests of one user to one route *)
(* with one key, against the entry Redis keeps for that key.               *)
(*                                                                         *)
(* The first request locks the entry, runs the handler and replaces the    *)
(* lock by the answer; the others are answered from the entry or refused.  *)
(* The lock and the answer have TTLs of their own (60 s and 24 h), and     *)
(* neither store nor release looks at who holds the lock.  The Redis       *)
(* client repeats a command whose reply it lost, as often as it takes.     *)
(***************************************************************************)
EXTENDS Naturals

CONSTANTS Requests, Bodies, Nobody

ASSUME RequestsAssumption == Nobody \notin Requests

VARIABLES body,      \* [Requests -> the request's body, seen as its hash]
          rq,        \* [Requests -> the local state of a request]
          entry,     \* the entry of the key
          holder,    \* history: who wrote the lock
          answered,  \* history: whose answers were given,
          effects,   \* history: whose handlers succeeded, both since the
                     \* entry's answer was last expired
          ousted     \* history: a request lost its entry to the TTL or to the
                     \* release of another

history == <<answered, effects, ousted>>
vars == <<body, rq, entry, holder, history>>

NoEntry == [state |-> "none"]
Locked(h) == [state |-> "locked", hash |-> h]
Complete(h, r) == [state |-> "complete", hash |-> h, answer |-> r]

Entry == {NoEntry} \cup {Locked(h) : h \in Bodies}
         \cup {Complete(h, r) : h \in Bodies, r \in Requests}

Request == [pc : {"new", "fetch", "handler", "store", "release", "done", "crashed"},
            outcome : {"none", "ok", "conflict", "mismatch", "error"},
            answer : Requests \cup {Nobody}]

TypeOK ==
  /\ body \in [Requests -> Bodies]
  /\ rq \in [Requests -> Request]
  /\ \A r \in Requests : rq[r].outcome = "ok" <=> rq[r].answer # Nobody
  /\ entry \in Entry
  /\ holder \in Requests \cup {Nobody}
  /\ answered \subseteq Requests /\ effects \subseteq Requests
  /\ ousted \in BOOLEAN

Init ==
  /\ body \in [Requests -> Bodies]
  /\ rq = [r \in Requests |-> [pc |-> "new", outcome |-> "none", answer |-> Nobody]]
  /\ entry = NoEntry
  /\ holder = Nobody
  /\ answered = {} /\ effects = {}
  /\ ousted = FALSE

Goto(r, l) == rq' = [rq EXCEPT ![r].pc = l]

Refuse(r, why) == rq' = [rq EXCEPT ![r].pc = "done", ![r].outcome = why]

Give(r, a) ==
  /\ rq' = [rq EXCEPT ![r] = [pc |-> "done", outcome |-> "ok", answer |-> a]]
  /\ answered' = answered \cup {a}

(* The handler runs, or its answer is on its way to Redis.                 *)
Busy(r) == rq[r].pc \in {"handler", "store"}

(* The entry is this request's lock or answer.                             *)
Owns(r) == \/ entry.state = "locked" /\ holder = r
           \/ entry.state = "complete" /\ entry.answer = r

-----------------------------------------------------------------------------
(* Faulty variant: a lock that is held is taken over.                      *)
TryAcquireAgain(r) ==
  /\ rq[r].pc = "new"
  /\ IF entry.state = "complete"
     THEN Goto(r, "fetch") /\ UNCHANGED <<entry, holder>>
     ELSE Goto(r, "handler") /\ entry' = Locked(body[r]) /\ holder' = r
  /\ UNCHANGED <<body, history>>

(* SET NX, or memorySetNx in the one process of the tests.                 *)
TryAcquire(r) ==
  /\ rq[r].pc = "new"
  /\ IF entry = NoEntry
     THEN Goto(r, "handler") /\ entry' = Locked(body[r]) /\ holder' = r
     ELSE Goto(r, "fetch") /\ UNCHANGED <<entry, holder>>
  /\ UNCHANGED <<body, history>>

(* Redis refuses the lock or the look-up: outside the try, so nothing is   *)
(* released.                                                               *)
LookupFails(r) ==
  /\ rq[r].pc \in {"new", "fetch"}
  /\ Refuse(r, "error")
  /\ UNCHANGED <<body, entry, holder, history>>

(* Faulty variant: the hash is compared only while the lock is held.       *)
FetchAnyBody(r) ==
  /\ rq[r].pc = "fetch"
  /\ \/ entry.state # "complete" /\ Refuse(r, "conflict") /\ UNCHANGED answered
     \/ entry.state = "complete" /\ Give(r, entry.answer)
  /\ UNCHANGED <<body, entry, holder, effects, ousted>>

(* Faulty variant: a request whose entry is gone by now runs its handler.  *)
FetchOrRun(r) ==
  /\ rq[r].pc = "fetch"
  /\ \/ entry = NoEntry /\ Goto(r, "handler") /\ UNCHANGED answered
     \/ entry.state = "locked" /\ Refuse(r, "conflict") /\ UNCHANGED answered
     \/ entry.state = "complete" /\ entry.hash = body[r] /\ Give(r, entry.answer)
     \/ /\ entry.state = "complete" /\ entry.hash # body[r]
        /\ Refuse(r, "mismatch") /\ UNCHANGED answered
  /\ UNCHANGED <<body, entry, holder, effects, ousted>>

(* Faulty variant: the state of the entry is not looked at.                *)
FetchAnyState(r) ==
  /\ rq[r].pc = "fetch"
  /\ IF entry # NoEntry /\ entry.hash = body[r]
     THEN rq' = [rq EXCEPT ![r] = [pc |-> "done", outcome |-> "ok", answer |->
                   IF entry.state = "complete" THEN entry.answer ELSE Nobody]]
     ELSE Refuse(r, "conflict")
  /\ UNCHANGED <<body, entry, holder, history>>

(* The entry may be gone again by the time it is fetched.                  *)
Fetch(r) ==
  /\ rq[r].pc = "fetch"
  /\ \/ entry = NoEntry /\ Refuse(r, "conflict") /\ UNCHANGED answered
     \/ /\ entry # NoEntry /\ entry.hash # body[r]
        /\ Refuse(r, "mismatch") /\ UNCHANGED answered
     \/ /\ entry = Locked(body[r])
        /\ Refuse(r, "conflict") /\ UNCHANGED answered
     \/ /\ entry.state = "complete" /\ entry.hash = body[r]
        /\ Give(r, entry.answer)
  /\ UNCHANGED <<body, entry, holder, effects, ousted>>

-----------------------------------------------------------------------------
HandlerReturns(r) ==
  /\ rq[r].pc = "handler"
  /\ Goto(r, "store")
  /\ effects' = effects \cup {r}
  /\ UNCHANGED <<body, entry, holder, answered, ousted>>

HandlerThrows(r) ==
  /\ rq[r].pc = "handler"
  /\ Goto(r, "release")
  /\ UNCHANGED <<body, entry, holder, history>>

(* storeResponse overwrites whatever the key holds.                        *)
Store(r) ==
  /\ rq[r].pc = "store"
  /\ entry' = Complete(body[r], r)
  /\ Give(r, r)
  /\ UNCHANGED <<body, holder, effects, ousted>>

(* Faulty variant: the answer leaves although it could not be stored.      *)
StoreFailsSilently(r) ==
  /\ rq[r].pc = "store"
  /\ entry' = NoEntry
  /\ Give(r, r)
  /\ UNCHANGED <<body, holder, effects, ousted>>

(* A handler that succeeded is treated as one that failed.                 *)
StoreFails(r) ==
  /\ rq[r].pc = "store"
  /\ Goto(r, "release")
  /\ UNCHANGED <<body, entry, holder, history>>

(* release deletes whatever the key holds.                                 *)
Delete(r) ==
  /\ entry' = NoEntry
  /\ ousted' = (ousted \/ (entry # NoEntry /\ ~Owns(r)))

(* Then the error is rethrown.                                             *)
Release(r) ==
  /\ rq[r].pc = "release"
  /\ Delete(r)
  /\ Refuse(r, "error")
  /\ UNCHANGED <<body, holder, answered, effects>>

ReleaseFails(r) ==
  /\ rq[r].pc = "release"
  /\ Refuse(r, "error")
  /\ UNCHANGED <<body, entry, holder, history>>

(* Redis carries a command out and its reply is lost.  The client repeats  *)
(* it (TryAcquire, Store, Release, or this again) or gives up (LookupFails, *)
(* StoreFails, ReleaseFails), or the process stops.                        *)
ReplyLost(r) ==
  /\ \/ /\ rq[r].pc = "new" /\ entry = NoEntry
        /\ entry' = Locked(body[r]) /\ holder' = r /\ UNCHANGED ousted
     \/ /\ rq[r].pc = "store"
        /\ entry' = Complete(body[r], r) /\ UNCHANGED <<holder, ousted>>
     \/ rq[r].pc = "release" /\ Delete(r) /\ UNCHANGED holder
  /\ UNCHANGED <<body, rq, answered, effects>>

Crash(r) ==
  /\ rq[r].pc \notin {"new", "done", "crashed"}
  /\ Goto(r, "crashed")
  /\ UNCHANGED <<body, entry, holder, history>>

-----------------------------------------------------------------------------
(* A TTL runs out: that of a lock after its request is over or under a     *)
(* slow one, that of an answer.                                            *)
ExpireLock ==
  /\ entry.state = "locked"
  /\ entry' = NoEntry
  /\ ousted' = (ousted \/ Busy(holder))
  /\ UNCHANGED <<body, rq, holder, answered, effects>>

ExpireAnswer ==
  /\ entry.state = "complete"
  /\ entry' = NoEntry
  /\ ousted' = (ousted \/ Busy(entry.answer))
  /\ answered' = {} /\ effects' = {}
  /\ UNCHANGED <<body, rq, holder>>

Serve(r) == TryAcquire(r) \/ Fetch(r) \/ HandlerReturns(r) \/ HandlerThrows(r)
            \/ Store(r) \/ StoreFails(r) \/ Release(r) \/ ReleaseFails(r)

Next == \/ \E r \in Requests : Serve(r) \/ LookupFails(r) \/ ReplyLost(r) \/ Crash(r)
        \/ ExpireLock \/ ExpireAnswer

Spec == Init /\ [][Next]_vars

-----------------------------------------------------------------------------
(* The request fails: its handler's answer is given up, or its client has  *)
(* been told so, or never hears of it.                                     *)
Failing(r) == rq[r].pc \in {"release", "crashed"} \/ rq[r].outcome = "error"

(* While no request has lost its entry to another or to the TTL, one       *)
(* handler at a time is at work for the key.                               *)
Exclusive == ~ousted => \A p, q \in Requests : Busy(p) /\ Busy(q) => p = q

(* While no request has lost its entry to another or to the TTL, what was  *)
(* answered once is what the key keeps answering for as long as the answer *)
(* lives, so that a repeated call never gets a second, different success;  *)
(* but an answer Redis has and the store that brought it reported as       *)
(* failed is taken back by the release.                                    *)
AnswerKept ==
  ~ousted => \A a \in answered :
               Failing(a) \/ (entry.state = "complete" /\ entry.answer = a)

(* While no request has lost its entry to another or to the TTL, the       *)
(* handler's effect is repeated for the key only after a request that had  *)
(* it failed for its client: of two, at most one is good.                  *)
EffectOnce ==
  ~ousted => \A p, q \in effects : p = q \/ Failing(p) \/ Failing(q)

(* An answer is only ever repeated to a request with the same body, slow   *)
(* handlers and expired locks included.                                    *)
ReplayFaithful ==
  \A r \in Requests : rq[r].outcome = "ok" => body[rq[r].answer] = body[r]
=============================================================================
