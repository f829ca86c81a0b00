------------------------------ MODULE AuditChain ------------------------------
(***************************************************************************)
(* The hash chain of the audit log: who appends to it, what the retention  *)
(* clean-up takes away from its old end, and what the verification that    *)
(* walks it page by page may conclude.                                     *)
(*                                                                         *)
(* An audited request runs its handler and then appends one row inside a   *)
(* transaction that holds an advisory lock, before it answers.  The digest *)
(* of a row is named by the row's id (a fresh UUID goes into it, and       *)
(* collisions of SHA-256 are left out): prev is the row whose digest the   *)
(* row carries as prevHash, hashed is the metadata its own digest was      *)
(* computed from, and meta what the table holds.                           *)
(***************************************************************************)
EXTENDS Naturals, FiniteSets

CONSTANTS Requests,  \* audited requests; each appends at most one row
          Ids,       \* row ids; UUIDs, so their order is arbitrary
          Null,
          Metadata,  \* the metadata requests record
          Offsets,   \* how far the clocks of the processes run ahead
          MinGap,    \* least milliseconds between the stamps of two appends
          PageSize,
          Retention, \* milliseconds a row is kept at least
          MaxClock   \* bound: the clock ticks no further

ASSUME ChainAssumption ==
  /\ Ids \subseteq Nat
  /\ Null \notin Ids \cup Requests
  /\ Metadata \subseteq {"none", "sorted", "unsorted"}
  /\ Offsets \subseteq Nat
  /\ MinGap \in Nat
  /\ PageSize \in Nat \ {0}
  /\ Retention \in Nat
  /\ MaxClock \in Nat

VARIABLES log,      \* the committed rows of audit_logs
          lock,     \* who holds pg_advisory_xact_lock(CHAIN_LOCK_KEY)
          wr,       \* [Requests -> the local state of an audited request]
          clock,    \* milliseconds
          used,     \* ids drawn so far
          vf,       \* the verification
          altered,  \* history: rows whose content was changed by hand
          cut,      \* history: rows whose predecessor in the chain was removed by hand
          skewed    \* history: rows stamped no later than a row before them, or
                    \* sharing their stamp

tampered == <<altered, cut>>
vars == <<log, lock, wr, clock, used, vf, tampered, skewed>>

Content == {"none", "sorted", "unsorted", "altered"}
Row == [id : Ids, at : Nat, prev : Ids \cup {Null}, hashed : Content, meta : Content]

Holding == {"read", "stamp", "commit"}
Request == [pc : {"handler", "lock", "answered", "crashed"} \cup Holding,
            prev : Ids \cup {Null}, row : SUBSET Row]

Verification == [pc : {"idle", "page", "done"},
                 cursor : Ids \cup {Null}, expected : Ids \cup {Null},
                 seen : SUBSET Ids, anchor : Ids \cup {Null},
                 verdict : {"none", "ok", "broken_chain", "bad_hash"},
                 brokenAt : Ids \cup {Null},
                 reordered : BOOLEAN, \* history: brokenAt came back from JSONB in another order
                 altered : SUBSET Ids, cut : SUBSET Ids]

TypeOK ==
  /\ log \subseteq Row
  /\ wr \in [Requests -> Request]
  /\ lock \in {w \in Requests : wr[w].pc \in Holding \cup {"crashed"}} \cup {Null}
  /\ clock \in Nat
  /\ used \subseteq Ids
  /\ vf \in Verification
  /\ altered \subseteq Ids /\ cut \subseteq Ids /\ skewed \subseteq Ids

-----------------------------------------------------------------------------
(* A request that has read and stamped nothing, or is past it.             *)
At(l) == [pc |-> l, prev |-> Null, row |-> {}]

Init ==
  /\ log = {}
  /\ lock = Null
  /\ wr = [w \in Requests |-> At("handler")]
  /\ clock = 1
  /\ used = {}
  /\ vf = [pc |-> "idle", cursor |-> Null, expected |-> Null, seen |-> {},
           anchor |-> Null, verdict |-> "none", brokenAt |-> Null,
           reordered |-> FALSE, altered |-> {}, cut |-> {}]
  /\ altered = {} /\ cut = {} /\ skewed = {}

(* The order of iterateChainAsc: by createdAt, then by id.                 *)
Before(x, y) == x.at < y.at \/ (x.at = y.at /\ x.id < y.id)

(* y comes right before x.                                                 *)
Adjacent(R, y, x) == Before(y, x) /\ \A z \in R : ~(Before(y, z) /\ Before(z, x))

(* JSONB keeps an object's keys in an order of its own (shorter first), so *)
(* what is read back serialises as it was written only if its keys were in *)
(* that order.  The interceptor's {method, path, params, query, body} are  *)
(* not; the one-key objects of the login use cases are.                    *)
Jsonb(m) == IF m = "unsorted" THEN "sorted" ELSE m

Goto(w, l) == wr' = [wr EXCEPT ![w] = At(l)]

-----------------------------------------------------------------------------
(* The handler returns, and the interceptor opens the transaction.         *)
Handle(w) ==
  /\ wr[w].pc = "handler"
  /\ Goto(w, "lock")
  /\ UNCHANGED <<log, lock, clock, used, vf, tampered, skewed>>

(* The handler throws: mergeMap is not reached and nothing is recorded.    *)
HandlerFails(w) ==
  /\ wr[w].pc = "handler"
  /\ Goto(w, "answered")
  /\ UNCHANGED <<log, lock, clock, used, vf, tampered, skewed>>

(* Faulty variant: a lock that does not exclude.                           *)
ShareLock(w) ==
  /\ wr[w].pc = "lock"
  /\ lock' = w
  /\ Goto(w, "read")
  /\ UNCHANGED <<log, clock, used, vf, tampered, skewed>>

AcquireLock(w) ==
  /\ wr[w].pc = "lock"
  /\ lock = Null
  /\ lock' = w
  /\ Goto(w, "read")
  /\ UNCHANGED <<log, clock, used, vf, tampered, skewed>>

(* findFirst by createdAt descending: of rows stamped alike, any one.      *)
ReadLast(w) ==
  LET last == {x \in log : \A y \in log : y.at <= x.at}
  IN  /\ wr[w].pc = "read"
      /\ \E p \in IF log = {} THEN {Null} ELSE {x.id : x \in last} :
           wr' = [wr EXCEPT ![w].prev = p, ![w].pc = "stamp"]
      /\ UNCHANGED <<log, lock, clock, used, vf, tampered, skewed>>

(* The row is stamped with the process's own clock, hashed and inserted;   *)
(* nobody else sees it before the commit.  MinGap is the time an append     *)
(* takes for sure; 0 admits two of them within one millisecond.            *)
Stamp(w) ==
  /\ wr[w].pc = "stamp"
  /\ clock' = clock + MinGap
  /\ \E i \in Ids \ used, o \in Offsets, m \in Metadata :
       /\ wr' = [wr EXCEPT ![w].pc = "commit", ![w].row =
                   {[id |-> i, at |-> clock' + o, prev |-> wr[w].prev,
                     hashed |-> m, meta |-> Jsonb(m)]}]
       /\ used' = used \cup {i}
  /\ UNCHANGED <<log, lock, vf, tampered, skewed>>

Commit(w) ==
  /\ wr[w].pc = "commit"
  /\ log' = log \cup wr[w].row
  /\ \E x \in wr[w].row :
       skewed' = skewed \cup {y.id : y \in {z \in log : z.at = x.at}}
                        \cup IF \E y \in log : x.at <= y.at THEN {x.id} ELSE {}
  /\ lock' = Null
  /\ Goto(w, "answered")
  /\ UNCHANGED <<clock, used, vf, tampered>>

(* Faulty variant: a session-level lock, which a rollback does not free.   *)
AbortKeepingLock(w) ==
  /\ wr[w].pc \in {"lock"} \cup Holding
  /\ Goto(w, "answered")
  /\ UNCHANGED <<log, lock, clock, used, vf, tampered, skewed>>

(* The transaction times out or a statement fails.  The rollback frees the *)
(* lock; AuditService logs the error and swallows it.                      *)
Abort(w) ==
  /\ wr[w].pc \in {"lock"} \cup Holding
  /\ lock' = IF lock = w THEN Null ELSE lock
  /\ Goto(w, "answered")
  /\ UNCHANGED <<log, clock, used, vf, tampered, skewed>>

(* The process stops; Postgres notices later and rolls back.               *)
Crash(w) ==
  /\ wr[w].pc \in {"lock"} \cup Holding
  /\ Goto(w, "crashed")
  /\ UNCHANGED <<log, lock, clock, used, vf, tampered, skewed>>

DropConnection(w) ==
  /\ wr[w].pc = "crashed"
  /\ lock = w
  /\ lock' = Null
  /\ UNCHANGED <<log, wr, clock, used, vf, tampered, skewed>>

-----------------------------------------------------------------------------
(* It takes no lock.                                                       *)
DeleteOlderThan(cutoff) == log' = {x \in log : x.at >= cutoff}

CleanUp ==
  /\ \E cutoff \in 1..clock :
       /\ cutoff + Retention <= clock
       /\ DeleteOlderThan(cutoff)
       /\ log' # log
  /\ UNCHANGED <<lock, wr, clock, used, vf, tampered, skewed>>

Tick ==
  /\ clock < MaxClock
  /\ clock' = clock + 1
  /\ UNCHANGED <<log, lock, wr, used, vf, tampered, skewed>>

(* Somebody changes a row by hand, or removes one that is not the newest.  *)
AlterRow(x) ==
  /\ x.meta # "altered"
  /\ log' = (log \ {x}) \cup {[x EXCEPT !.meta = "altered"]}
  /\ altered' = altered \cup {x.id}
  /\ UNCHANGED <<lock, wr, clock, used, vf, cut, skewed>>

RemoveRow(x) ==
  /\ \E y \in log : x.at < y.at
  /\ log' = log \ {x}
  /\ cut' = cut \cup {y.id : y \in {z \in log : z.prev = x.id}}
  /\ UNCHANGED <<lock, wr, clock, used, vf, altered, skewed>>

-----------------------------------------------------------------------------
StartVerify ==
  /\ vf.pc = "idle"
  /\ vf' = [vf EXCEPT !.pc = "page", !.altered = altered, !.cut = cut]
  /\ UNCHANGED <<log, lock, wr, clock, used, tampered, skewed>>

(* iterateChainAsc: PageSize rows after the cursor; a cursor whose row is  *)
(* gone selects nothing.                                                   *)
After(c) == {x \in log : c = Null \/ \E y \in log : y.id = c /\ Before(y, x)}
Page(c) == {x \in After(c) : Cardinality({y \in After(c) : Before(y, x)}) < PageSize}

(* What the walk expects as prevHash of row x of page p: the digest of the *)
(* row before, within the page or from the page before; the very first row *)
(* is the anchor and is taken as it is.                                    *)
ExpectedPrev(p, x) ==
  IF \E y \in p : Adjacent(p, y, x) THEN (CHOOSE y \in p : Adjacent(p, y, x)).id
  ELSE IF vf.seen = {} THEN x.prev ELSE vf.expected

(* Faulty variant: the anchor is found anew on every page.                 *)
AnchorEachPage(p, x) ==
  IF \E y \in p : Adjacent(p, y, x) THEN x.prev # (CHOOSE y \in p : Adjacent(p, y, x)).id
  ELSE FALSE

BrokenChain(p, x) == x.prev # ExpectedPrev(p, x)
BadHash(x) == x.meta # x.hashed

(* One turn of the loop: fetch a page and walk it up to its first bad row. *)
VerifyPage ==
  LET p == Page(vf.cursor)
      bad == {x \in p : BrokenChain(p, x) \/ BadHash(x)}
      walked == {x \in p : \A y \in bad : Before(x, y)}
      anchored == IF vf.seen # {} \/ p = {} THEN vf.anchor
                  ELSE (CHOOSE x \in p : \A y \in p : ~Before(y, x)).id
      lastOf(r) == (CHOOSE x \in r : \A y \in r : ~Before(x, y)).id
      seen == [vf EXCEPT !.seen = @ \cup {x.id : x \in walked}, !.anchor = anchored]
  IN  /\ vf.pc = "page"
      /\ vf' = IF bad # {}
               THEN LET x == CHOOSE x \in bad : \A y \in bad : ~Before(y, x)
                    IN  [seen EXCEPT !.pc = "done", !.brokenAt = x.id,
                           !.expected = ExpectedPrev(p, x),
                           !.reordered = Jsonb(x.hashed) # x.hashed,
                           !.verdict = IF BrokenChain(p, x) THEN "broken_chain"
                                       ELSE "bad_hash"]
               ELSE IF Cardinality(p) < PageSize
               THEN [seen EXCEPT !.pc = "done", !.verdict = "ok"]
               ELSE [seen EXCEPT !.cursor = lastOf(p), !.expected = lastOf(p)]
      /\ UNCHANGED <<log, lock, wr, clock, used, tampered, skewed>>

-----------------------------------------------------------------------------
Append(w) == Handle(w) \/ HandlerFails(w) \/ AcquireLock(w) \/ ReadLast(w)
             \/ Stamp(w) \/ Commit(w) \/ Abort(w)

ByHand == \E x \in log : AlterRow(x) \/ RemoveRow(x)

Next ==
  \/ \E w \in Requests : Append(w) \/ Crash(w) \/ DropConnection(w)
  \/ CleanUp \/ Tick \/ ByHand
  \/ StartVerify \/ VerifyPage

Spec == Init /\ [][Next]_vars

(* A process carries on what it began, time goes on, and Postgres drops a  *)
(* dead connection.  Timeouts and hand edits need not happen.              *)
Fairness ==
  /\ \A w \in Requests :
       /\ WF_vars(AcquireLock(w) \/ ReadLast(w) \/ Stamp(w) \/ Commit(w))
       /\ WF_vars(DropConnection(w))
  /\ WF_vars(Tick)

FairSpec == Spec /\ Fairness

-----------------------------------------------------------------------------
(* No two rows carry the same prevHash: appends serialise on the advisory  *)
(* lock.  Only a row whose stamp is out of order can.                      *)
NoFork ==
  \A x, y \in log : x.prev = y.prev => x = y \/ x.id \in skewed \/ y.id \in skewed

(* The order in which rows are walked is the order in which they were      *)
(* chained: a row's prevHash is the digest of the row just before it,      *)
(* unless the row it was chained to was removed by hand or one of the two  *)
(* was stamped out of order.                                               *)
ChainFollowsTime ==
  \A x, y \in log : Adjacent(log, y, x) /\ x.id \notin cut =>
    x.prev = y.id \/ x.id \in skewed \/ y.id \in skewed

(* A verification that runs while rows are appended and the clean-up takes *)
(* old ones has a cause for what it reports: a bad hash is a row altered   *)
(* by hand or given back by JSONB in another order, a broken chain is a    *)
(* row whose predecessor was removed by hand, or a stamp out of order at   *)
(* the very place.                                                         *)
NoFalseAlarm ==
  /\ vf.verdict = "bad_hash" => vf.brokenAt \in altered \/ vf.reordered
  /\ vf.verdict = "broken_chain" => \/ vf.brokenAt \in cut \cup skewed
                                    \/ vf.expected \in skewed

(* A verification that reports ok has walked over no row that was altered, *)
(* and over none whose predecessor was removed, before it began, whatever  *)
(* the clocks; only the row it anchors on may follow a gap.                *)
TamperEvident ==
  vf.verdict = "ok" => /\ vf.seen \cap vf.altered = {}
                       /\ vf.seen \cap vf.cut \subseteq {vf.anchor}

(* An audited request never waits for ever: whatever becomes of the others *)
(* in the queue for the lock, it is answered or its process is gone.       *)
AuditSettles ==
  \A w \in Requests : wr[w].pc = "lock" ~> wr[w].pc \in {"answered", "crashed"}

(* Said of the verification: on a chain nobody touched it reports ok.      *)
IntactVerifies == altered = {} /\ cut = {} => vf.verdict \in {"none", "ok"}
=============================================================================
