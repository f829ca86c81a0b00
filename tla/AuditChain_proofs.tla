-------------------------- MODULE AuditChain_proofs --------------------------
(***************************************************************************)
(* Proofs about AuditChain, for every set of requests, every page size,    *)
(* every bound, whatever the clocks of the processes show and whatever     *)
(* metadata they record.  First the types, of which only the               *)
(* verification's cursor needs an argument.  Then the chain: the advisory  *)
(* lock keeps it a chain, and what departs from it is a stamp out of       *)
(* order.  Then the verification that walks it while rows are appended,    *)
(* cleaned up and tampered with: that it reports nothing without a cause,  *)
(* and misses no tampering that came before it.  Last, when the clocks     *)
(* differ by less than the time an append takes, no stamp is out of order. *)
(***************************************************************************)
EXTENDS AuditChain, FiniteSetTheorems, TLAPS

ChainTyped ==
  /\ log \subseteq Row
  /\ wr \in [Requests -> Request]
  /\ clock \in Nat
  /\ used \subseteq Ids

(* Only the holder of the lock is inside the transaction.                  *)
LockInv == \A w \in Requests : wr[w].pc \in Holding => lock = w

(* Rows are told apart by their id, refer to ids that were drawn, and those *)
(* that share a stamp are marked.                                          *)
StampInv ==
  /\ \A x \in log : x.id \in used /\ x.prev \in used \cup {Null}
  /\ \A x, y \in log : x.id = y.id => x = y
  /\ \A x, y \in log : x.at = y.at /\ x # y => x.id \in skewed

(* Nothing stamped in order lies between a row and the row it refers to.   *)
PrevInv ==
  \A x, y \in log :
    y.at < x.at /\ x.id \notin skewed \cup cut /\ y.id \notin skewed =>
      \E m \in log : m.id = x.prev /\ y.at <= m.at /\ m.at < x.at

(* But for stamps out of order, a row refers to an older one, and the      *)
(* chain neither forks nor departs from the order of the stamps.           *)
LinkInv ==
  /\ \A x, y \in log : x.prev = y.id => x.id \in skewed \/ y.at < x.at
  /\ NoFork
  /\ PrevInv

Newest(m) == m \in log /\ \A y \in log : y.at <= m.at

(* What the holder read is still the end of the chain when it commits,     *)
(* unless the clean-up took everything.                                    *)
EndInv ==
  \A w \in Requests :
    /\ wr[w].pc \in {"stamp", "commit"} =>
         /\ wr[w].prev \in used \cup {Null}
         /\ log = {} \/ \E m \in log : m.id = wr[w].prev /\ Newest(m)
    /\ wr[w].pc = "commit" =>
         \E x \in Row :
           /\ wr[w].row = {x}
           /\ x.prev = wr[w].prev /\ x.id \in used /\ x.prev # x.id
           /\ \A y \in log : y.id # x.id /\ y.prev # x.id

ChainInv == ChainTyped /\ LockInv /\ StampInv /\ LinkInv /\ EndInv

-----------------------------------------------------------------------------
LEMMA ChainInit == Init => ChainInv
BY ChainAssumption
   DEF Init, At, ChainInv, ChainTyped, LockInv, StampInv, LinkInv, EndInv, NoFork,
       PrevInv, Row, Request, Holding

(* Steps outside the transaction, and steps that leave it.                 *)
LEMMA OutsideStep ==
  ASSUME ChainInv, UNCHANGED <<log, used, cut, skewed>>, clock' \in Nat,
         wr' \in [Requests -> Request],
         \A w \in Requests : wr'[w].pc \in Holding => wr'[w] = wr[w] /\ lock' = lock
  PROVE  ChainInv'
<1> USE DEF ChainInv
<1>1. ChainTyped' /\ StampInv' /\ LinkInv'
  BY DEF ChainTyped, StampInv, LinkInv, NoFork, PrevInv
<1>2. LockInv'
  BY DEF LockInv
<1>3. EndInv'
  BY DEF EndInv, Newest, Holding
<1>4. QED BY <1>1, <1>2, <1>3

(* The first step inside: nothing is read yet.                             *)
LEMMA AcquireStep ==
  ASSUME ChainInv, NEW w \in Requests, AcquireLock(w)
  PROVE  ChainInv'
<1> USE DEF ChainInv
<1>1. /\ lock = Null /\ lock' = w /\ wr' = [wr EXCEPT ![w] = At("read")]
      /\ UNCHANGED <<log, clock, used, cut, skewed>>
  BY DEF AcquireLock, Goto, tampered
<1>2. At("read") \in Request /\ At("read").pc = "read"
  BY DEF At, Request, Holding
<1>3. ChainTyped' /\ StampInv' /\ LinkInv'
  BY <1>1, <1>2 DEF ChainTyped, StampInv, LinkInv, NoFork, PrevInv
<1>4. LockInv'
  BY <1>1, <1>2, ChainAssumption DEF LockInv, ChainTyped, Holding
<1>5. EndInv'
  BY <1>1, <1>2 DEF EndInv, Newest, ChainTyped
<1>6. QED BY <1>3, <1>4, <1>5

LEMMA ReadStep ==
  ASSUME ChainInv, NEW w \in Requests, ReadLast(w)
  PROVE  ChainInv'
<1> USE DEF ChainInv
<1>1. PICK p : /\ IF log = {} THEN p = Null ELSE \E m \in log : m.id = p /\ Newest(m)
               /\ wr' = [wr EXCEPT ![w].prev = p, ![w].pc = "stamp"]
  BY DEF ReadLast, Newest
<1>2. wr[w].pc = "read" /\ UNCHANGED <<log, lock, clock, used, cut, skewed>>
  BY DEF ReadLast, tampered
<1>3. p \in used \cup {Null} /\ p \in Ids \cup {Null}
  BY <1>1 DEF StampInv, ChainTyped
<1>4. ChainTyped' /\ StampInv' /\ LinkInv'
  BY <1>1, <1>2, <1>3
     DEF ChainTyped, Request, Holding, StampInv, LinkInv, NoFork, PrevInv
<1>5. LockInv'
  BY <1>1, <1>2 DEF LockInv, ChainTyped, Holding
<1>6. EndInv'
  BY <1>1, <1>2, <1>3 DEF EndInv, Newest, ChainTyped
<1>7. QED BY <1>4, <1>5, <1>6

(* What Stamp makes.                                                       *)
LEMMA StampedRow ==
  ASSUME wr \in [Requests -> Request], clock \in Nat, NEW w \in Requests, Stamp(w)
  PROVE  \E n \in Row, o \in Offsets :
           /\ n.id \in Ids \ used /\ used' = used \cup {n.id}
           /\ n.at = clock' + o /\ n.prev = wr[w].prev
           /\ n.hashed \in Metadata /\ n.meta = Jsonb(n.hashed)
           /\ wr' = [wr EXCEPT ![w].pc = "commit", ![w].row = {n}]
           /\ wr[w].pc = "stamp" /\ wr' \in [Requests -> Request]
           /\ clock' = clock + MinGap /\ clock' \in Nat
           /\ UNCHANGED <<log, lock, vf, altered, cut, skewed>>
<1>1. PICK i \in Ids \ used, o \in Offsets, m \in Metadata :
        /\ wr' = [wr EXCEPT ![w].pc = "commit", ![w].row =
                    {[id |-> i, at |-> clock' + o, prev |-> wr[w].prev,
                      hashed |-> m, meta |-> Jsonb(m)]}]
        /\ used' = used \cup {i}
  BY DEF Stamp
<1>2. /\ wr[w].pc = "stamp" /\ clock' = clock + MinGap /\ clock' \in Nat
      /\ UNCHANGED <<log, lock, vf, altered, cut, skewed>>
  BY ChainAssumption DEF Stamp, tampered
<1>3. PICK n \in Row : n = [id |-> i, at |-> clock' + o, prev |-> wr[w].prev,
                            hashed |-> m, meta |-> Jsonb(m)]
  <2>1. \A c \in Nat : c + o \in Nat
    BY ChainAssumption
  <2>2. clock' + o \in Nat
    BY <1>2, <2>1, Zenon
  <2>3. wr[w].prev \in Ids \cup {Null}
    BY DEF Request
  <2>4. m \in Content /\ Jsonb(m) \in Content
    BY ChainAssumption DEF Content, Jsonb
  <2>5. QED BY <2>2, <2>3, <2>4 DEF Row
<1>4. wr' = [wr EXCEPT ![w].pc = "commit", ![w].row = {n}]
  BY <1>1, <1>3, Zenon
<1>5. /\ n.prev = wr[w].prev /\ n.id = i /\ n.at = clock' + o
      /\ n.hashed = m /\ n.meta = Jsonb(m)
  BY <1>3
<1>6. wr' \in [Requests -> Request]
  <2>1. [wr[w] EXCEPT !.pc = "commit", !.row = {n}] \in Request
    BY DEF Request, Holding
  <2>2. QED BY <1>4, <2>1
<1>7. QED BY <1>1, <1>2, <1>4, <1>5, <1>6

LEMMA StampStep ==
  ASSUME ChainInv, NEW w \in Requests, Stamp(w)
  PROVE  ChainInv'
<1> USE DEF ChainInv
<1>1. PICK n \in Row :
           /\ n.id \in Ids \ used /\ used' = used \cup {n.id} /\ n.prev = wr[w].prev
           /\ wr' = [wr EXCEPT ![w].pc = "commit", ![w].row = {n}]
           /\ wr[w].pc = "stamp" /\ wr' \in [Requests -> Request] /\ clock' \in Nat
           /\ UNCHANGED <<log, lock, vf, altered, cut, skewed>>
  BY StampedRow DEF ChainTyped
<1>2. n.prev \in used \cup {Null} /\ n.prev # n.id
  BY <1>1, ChainAssumption DEF EndInv
<1>3. \A y \in log : y.id # n.id /\ y.prev # n.id
  BY <1>1, ChainAssumption DEF StampInv
<1>4. ChainTyped' /\ StampInv' /\ LinkInv'
  BY <1>1 DEF ChainTyped, StampInv, LinkInv, NoFork, PrevInv
<1>5. LockInv'
  BY <1>1 DEF LockInv, ChainTyped, Holding
<1>6. EndInv'
  <2>1. \A v \in Requests \ {w} : wr'[v] = wr[v] /\ wr[v].pc \notin Holding
    BY <1>1 DEF ChainTyped, LockInv, Holding
  <2>2. wr'[w].prev = wr[w].prev /\ wr'[w].row = {n}
    BY <1>1 DEF ChainTyped, Request
  <2>3. log = {} \/ \E m \in log : m.id = wr[w].prev /\ Newest(m)
    BY <1>1 DEF EndInv
  <2>4. n.id \in used' /\ used \subseteq used'
    BY <1>1
  <2>5. QED
    BY <1>1, <1>2, <1>3, <2>1, <2>2, <2>3, <2>4 DEF EndInv, Newest, Holding
<1>7. QED BY <1>4, <1>5, <1>6

(* The commit: the new row refers to one that nothing in the log is newer  *)
(* than; unless it is marked it is newer itself, and what it shares its    *)
(* stamp with is marked too.                                               *)
LEMMA CommitStep ==
  ASSUME ChainInv, NEW w \in Requests, Commit(w)
  PROVE  ChainInv'
<1> USE DEF ChainInv
<1>1. /\ wr[w].pc = "commit" /\ log' = log \cup wr[w].row /\ lock' = Null
      /\ wr' = [wr EXCEPT ![w] = At("answered")]
      /\ UNCHANGED <<clock, used, cut>>
  BY DEF Commit, Goto, tampered
<1>2. PICK n \in Row :
        /\ wr[w].row = {n}
        /\ n.prev = wr[w].prev /\ n.id \in used
        /\ n.prev # n.id
        /\ \A y \in log : y.id # n.id /\ y.prev # n.id
  BY <1>1 DEF EndInv
<1>3. log' = log \cup {n}
  BY <1>1, <1>2
<1>4. /\ n.prev \in used \cup {Null}
      /\ log = {} \/ \E m \in log : m.id = n.prev /\ Newest(m)
  BY <1>1, <1>2 DEF EndInv
<1>5. lock = w /\ \A v \in Requests \ {w} : wr[v].pc \notin Holding
  BY <1>1 DEF LockInv, Holding
<1>6. \A x \in log' : x.at \in Nat /\ x.id \in Nat
  BY <1>2, <1>3, ChainAssumption DEF ChainTyped, Row
<1>7. /\ skewed \subseteq skewed'
      /\ \A y \in log : y.at = n.at => y.id \in skewed'
      /\ n.id \notin skewed' => \A y \in log : y.at < n.at
  <2>1. skewed' = skewed \cup {y.id : y \in {z \in log : z.at = n.at}}
                         \cup IF \E y \in log : n.at <= y.at THEN {n.id} ELSE {}
    BY <1>2 DEF Commit
  <2>2. \A y \in log : ~(n.at <= y.at) => y.at < n.at
    BY <1>3, <1>6
  <2>3. QED BY <2>1, <2>2
<1>8. At("answered") \in Request /\ At("answered").pc = "answered"
  BY DEF At, Request
<1>9. ChainTyped'
  BY <1>1, <1>2, <1>3, <1>8 DEF ChainTyped
<1>10. LockInv' /\ EndInv'
  BY <1>1, <1>5, <1>8 DEF LockInv, EndInv, ChainTyped, Holding
<1>11. StampInv'
  <2>1. \A x \in log' : x.id \in used /\ x.prev \in used \cup {Null}
    BY <1>2, <1>3, <1>4 DEF StampInv
  <2>2. \A x, y \in log' : x.id = y.id => x = y
    BY <1>2, <1>3 DEF StampInv
  <2>3. \A x, y \in log' : x.at = y.at /\ x # y => x.id \in skewed'
    <3>1. ASSUME NEW y \in log, y.at = n.at PROVE n.id \in skewed'
      <4>1. y.at \in Nat
        BY <1>3, <1>6
      <4>2. QED BY <1>7, <3>1, <4>1
    <3>2. QED BY <1>3, <1>7, <3>1 DEF StampInv
  <2>4. QED BY <1>1, <2>1, <2>2, <2>3 DEF StampInv
<1>12. LinkInv'
  <2>1. ASSUME NEW x \in log', NEW y \in log', x.prev = y.id, x.id \notin skewed'
        PROVE  y.at < x.at
    <3>1. CASE x \in log
      BY <1>2, <1>3, <1>7, <2>1, <3>1 DEF LinkInv
    <3>2. CASE x = n
      BY <1>2, <1>3, <1>7, <2>1, <3>2
    <3>3. QED BY <1>3, <3>1, <3>2
  <2>2. \A x \in log : x.prev = n.prev => x.id \in skewed
    <3>1. ASSUME NEW m \in log, m.id = n.prev, Newest(m), NEW x \in log, x.prev = m.id,
                 x.id \notin skewed
          PROVE  FALSE
      <4>1. m.at < x.at /\ x.at <= m.at /\ m.at \in Nat /\ x.at \in Nat
        BY <1>3, <1>6, <3>1 DEF LinkInv, Newest
      <4>2. QED BY <4>1
    <3>2. QED BY <1>4, <3>1
  <2>3. NoFork'
    BY <1>3, <1>7, <2>2 DEF LinkInv, NoFork
  <2>4. ASSUME NEW x \in log', NEW y \in log', y.at < x.at,
               x.id \notin skewed' \cup cut, y.id \notin skewed'
        PROVE  \E m \in log' : m.id = x.prev /\ y.at <= m.at /\ m.at < x.at
    <3>1. CASE x \in log /\ y \in log
      BY <1>3, <1>7, <2>4, <3>1 DEF LinkInv, PrevInv
    <3>2. CASE x = n /\ y \in log
      <4>1. PICK m \in log : m.id = n.prev /\ Newest(m)
        BY <1>4, <3>2
      <4>2. y.at <= m.at /\ m.at < n.at
        BY <1>7, <2>4, <3>2, <4>1 DEF Newest
      <4>3. QED BY <1>3, <3>2, <4>1, <4>2
    <3>3. CASE y = n
      <4>1. x \in log
        BY <1>3, <1>6, <2>4, <3>3
      <4>2. x.at < n.at /\ x.at \in Nat /\ n.at \in Nat
        BY <1>3, <1>6, <1>7, <2>4, <3>3, <4>1
      <4>3. QED BY <2>4, <3>3, <4>2
    <3>4. QED BY <1>3, <3>1, <3>2, <3>3
  <2>5. PrevInv'
    BY <1>1, <2>4 DEF PrevInv
  <2>6. QED BY <2>1, <2>3, <2>5 DEF LinkInv
<1>13. QED BY <1>9, <1>10, <1>11, <1>12

(* The clean-up takes the rows before a cutoff: what a row refers to goes  *)
(* after what lies before it, and the newest row goes last.                *)
LEMMA CleanUpStep ==
  ASSUME ChainInv, CleanUp
  PROVE  ChainInv'
<1> USE DEF ChainInv
<1>1. PICK cutoff \in 1..clock : log' = {x \in log : x.at >= cutoff}
  BY DEF CleanUp, DeleteOlderThan
<1>2. UNCHANGED <<lock, wr, clock, used, cut, skewed>>
  BY DEF CleanUp, DeleteOlderThan, tampered
<1>3. \A x \in log : x.at \in Nat /\ x.id \in Nat
  BY ChainAssumption DEF ChainTyped, Row
<1>4. cutoff \in Nat
  BY DEF ChainTyped
<1>5. log' \subseteq log
  BY <1>1
<1>6. ChainTyped' /\ LockInv' /\ StampInv'
  BY <1>2, <1>5 DEF ChainTyped, LockInv, StampInv
<1>7. LinkInv'
  <2>1. ASSUME NEW x \in log', NEW y \in log', y.at < x.at,
               x.id \notin skewed \cup cut, y.id \notin skewed
        PROVE  \E m \in log' : m.id = x.prev /\ y.at <= m.at /\ m.at < x.at
    <3>1. PICK m \in log : m.id = x.prev /\ y.at <= m.at /\ m.at < x.at
      BY <1>5, <2>1 DEF LinkInv, PrevInv
    <3>2. m.at >= cutoff
      BY <1>1, <1>3, <1>4, <3>1
    <3>3. QED BY <1>1, <3>1, <3>2
  <2>2. PrevInv'
    BY <1>2, <2>1 DEF PrevInv
  <2>3. QED BY <1>2, <1>5, <2>2 DEF LinkInv, NoFork
<1>8. EndInv'
  <2>1. ASSUME NEW m \in log, Newest(m), log' # {} PROVE m \in log' /\ Newest(m)'
    <3>1. PICK x \in log' : TRUE
      BY <2>1
    <3>2. m.at >= cutoff
      BY <1>1, <1>3, <1>4, <2>1, <3>1 DEF Newest
    <3>3. QED BY <1>1, <2>1, <3>2 DEF Newest
  <2>2. ASSUME NEW w \in Requests, wr'[w].pc \in {"stamp", "commit"}, log' # {}
        PROVE  \E m \in log' : m.id = wr'[w].prev /\ Newest(m)'
    BY <1>2, <1>5, <2>1, <2>2 DEF EndInv
  <2>3. QED BY <1>2, <1>5, <2>2 DEF EndInv
<1>9. QED BY <1>6, <1>7, <1>8

(* A row changed by hand keeps its place in the chain.                     *)
LEMMA AlterStep ==
  ASSUME ChainInv, NEW a \in log, AlterRow(a)
  PROVE  ChainInv'
<1> USE DEF ChainInv
<1> DEFINE b == [a EXCEPT !.meta = "altered"]
<1>1. log' = (log \ {a}) \cup {b} /\ UNCHANGED <<lock, wr, clock, used, cut, skewed>>
  BY DEF AlterRow
<1>2. b \in Row /\ b.id = a.id /\ b.at = a.at /\ b.prev = a.prev
  BY DEF ChainTyped, Row, Content
<1> HIDE DEF b
<1> DEFINE Was(x) == IF x = b THEN a ELSE x
<1>3. \A x \in log' : /\ Was(x) \in log /\ x.id = Was(x).id /\ x.at = Was(x).at
                      /\ x.prev = Was(x).prev /\ x \in Row
  BY <1>1, <1>2 DEF ChainTyped
<1>4. \A z \in log : \E x \in log' : x.id = z.id /\ x.at = z.at /\ x.prev = z.prev
  BY <1>1, <1>2
<1>5. \A x, y \in log' : Was(x) = Was(y) => x = y
  BY <1>1, <1>2 DEF StampInv
<1> HIDE DEF Was
<1>6. ChainTyped' /\ LockInv'
  BY <1>1, <1>3 DEF ChainTyped, LockInv
<1>7. StampInv'
  <2>1. ASSUME NEW x \in log', NEW y \in log'
        PROVE  /\ x.id \in used /\ x.prev \in used \cup {Null}
               /\ x.id = y.id => x = y
               /\ x.at = y.at /\ x # y => x.id \in skewed
    BY <1>3, <1>5, <2>1 DEF StampInv
  <2>2. QED BY <1>1, <2>1 DEF StampInv
<1>8. LinkInv'
  <2>1. ASSUME NEW x \in log', NEW y \in log'
        PROVE  /\ x.prev = y.id => x.id \in skewed \/ y.at < x.at
               /\ x.prev = y.prev => x = y \/ x.id \in skewed \/ y.id \in skewed
    BY <1>3, <1>5, <2>1 DEF LinkInv, NoFork
  <2>2. ASSUME NEW x \in log', NEW y \in log', y.at < x.at,
               x.id \notin skewed \cup cut, y.id \notin skewed
        PROVE  \E m \in log' : m.id = x.prev /\ y.at <= m.at /\ m.at < x.at
    <3>1. PICK z \in log : z.id = x.prev /\ y.at <= z.at /\ z.at < x.at
      BY <1>3, <2>2 DEF LinkInv, PrevInv
    <3>2. QED BY <1>4, <3>1
  <2>3. QED BY <1>1, <2>1, <2>2 DEF LinkInv, NoFork, PrevInv
<1>9. EndInv'
  <2>1. ASSUME NEW m \in log, Newest(m) PROVE \E x \in log' : x.id = m.id /\ Newest(x)'
    BY <1>3, <1>4, <2>1 DEF Newest
  <2>2. log' # {} => log # {}
    BY <1>3
  <2>3. ASSUME NEW w \in Requests, wr[w].pc = "commit"
        PROVE  \E x \in Row :
           /\ wr[w].row = {x}
           /\ x.prev = wr[w].prev /\ x.id \in used
           /\ x.prev # x.id
           /\ \A y \in log' : y.id # x.id /\ y.prev # x.id
    BY <1>3, <2>3 DEF EndInv
  <2>4. ASSUME NEW w \in Requests, wr[w].pc \in {"stamp", "commit"}
        PROVE  /\ wr[w].prev \in used \cup {Null}
               /\ log' = {} \/ \E m \in log' : m.id = wr[w].prev /\ Newest(m)'
    BY <2>1, <2>2, <2>4 DEF EndInv
  <2>5. QED BY <1>1, <2>3, <2>4 DEF EndInv
<1>10. QED BY <1>6, <1>7, <1>8, <1>9

(* The rows that refer to one removed by hand are marked; the newest stays. *)
LEMMA RemoveStep ==
  ASSUME ChainInv, NEW a \in log, RemoveRow(a)
  PROVE  ChainInv'
<1> USE DEF ChainInv
<1>1. PICK b \in log : a.at < b.at
  BY DEF RemoveRow
<1>2. /\ log' = log \ {a} /\ UNCHANGED <<lock, wr, clock, used, skewed>>
      /\ cut \subseteq cut' /\ \A y \in log : y.prev = a.id => y.id \in cut'
  BY DEF RemoveRow
<1>3. \A x \in log : x.at \in Nat /\ x.id \in Nat
  BY ChainAssumption DEF ChainTyped, Row
<1>4. ChainTyped' /\ LockInv' /\ StampInv'
  BY <1>2 DEF ChainTyped, LockInv, StampInv
<1>5. LinkInv'
  <2>1. ASSUME NEW x \in log', NEW y \in log', y.at < x.at,
               x.id \notin skewed \cup cut', y.id \notin skewed
        PROVE  \E m \in log' : m.id = x.prev /\ y.at <= m.at /\ m.at < x.at
    <3>1. PICK m \in log : m.id = x.prev /\ y.at <= m.at /\ m.at < x.at
      BY <1>2, <2>1 DEF LinkInv, PrevInv
    <3>2. m # a
      BY <1>2, <2>1, <3>1
    <3>3. QED BY <1>2, <3>1, <3>2
  <2>2. PrevInv'
    BY <1>2, <2>1 DEF PrevInv
  <2>3. QED BY <1>2, <2>2 DEF LinkInv, NoFork
<1>6. EndInv'
  <2>1. ASSUME NEW m \in log, Newest(m) PROVE m \in log' /\ Newest(m)'
    <3>1. m # a
      BY <1>1, <1>3, <2>1 DEF Newest
    <3>2. QED BY <1>2, <2>1, <3>1 DEF Newest
  <2>2. QED BY <1>2, <2>1 DEF EndInv
<1>7. QED BY <1>4, <1>5, <1>6

LEMMA ChainStep ==
  ASSUME ChainInv, Next
  PROVE  ChainInv'
<1>r. \A l \in {"lock", "answered", "crashed"} :
        At(l) \in Request /\ At(l).pc \notin Holding
  BY DEF At, Request, Holding
<1>1. ASSUME NEW w \in Requests, Append(w) PROVE ChainInv'
  <2>1. CASE Handle(w) \/ HandlerFails(w)
    <3>1. /\ UNCHANGED <<log, lock, clock, used, cut, skewed>>
          /\ \E l \in {"lock", "answered"} : wr' = [wr EXCEPT ![w] = At(l)]
      BY <2>1 DEF Handle, HandlerFails, Goto, tampered
    <3>2. QED BY <1>r, <3>1, OutsideStep DEF ChainInv, ChainTyped
  <2>2. CASE AcquireLock(w)
    BY <2>2, AcquireStep
  <2>3. CASE ReadLast(w)
    BY <2>3, ReadStep
  <2>4. CASE Stamp(w)
    BY <2>4, StampStep
  <2>5. CASE Commit(w)
    BY <2>5, CommitStep
  <2>6. CASE Abort(w)
    <3>1. /\ UNCHANGED <<log, clock, used, cut, skewed>>
          /\ lock' = IF lock = w THEN Null ELSE lock
          /\ wr' = [wr EXCEPT ![w] = At("answered")]
      BY <2>6 DEF Abort, Goto, tampered
    <3>2. QED BY <1>r, <3>1, OutsideStep DEF ChainInv, ChainTyped, LockInv
  <2>7. QED
    BY <1>1, <2>1, <2>2, <2>3, <2>4, <2>5, <2>6 DEF Append
<1>2. ASSUME NEW w \in Requests, Crash(w) PROVE ChainInv'
  <2>1. /\ UNCHANGED <<log, lock, clock, used, cut, skewed>>
        /\ wr' = [wr EXCEPT ![w] = At("crashed")]
    BY <1>2 DEF Crash, Goto, tampered
  <2>2. QED BY <1>r, <2>1, OutsideStep DEF ChainInv, ChainTyped
<1>3. ASSUME NEW w \in Requests, DropConnection(w) PROVE ChainInv'
  <2>1. /\ UNCHANGED <<log, wr, clock, used, cut, skewed>>
        /\ lock = w /\ wr[w].pc = "crashed"
    BY <1>3 DEF DropConnection, tampered
  <2>2. QED BY <2>1, OutsideStep DEF ChainInv, ChainTyped, LockInv, Holding
<1>4. ASSUME Tick \/ StartVerify \/ VerifyPage PROVE ChainInv'
  <2>1. UNCHANGED <<log, lock, wr, used, cut, skewed>> /\ clock' \in Nat
    BY <1>4 DEF Tick, StartVerify, VerifyPage, tampered, ChainInv, ChainTyped
  <2>2. QED BY <2>1, OutsideStep DEF ChainInv, ChainTyped
<1>5. QED
  BY <1>1, <1>2, <1>3, <1>4, CleanUpStep, AlterStep, RemoveStep DEF Next, ByHand

(* What the lock is for, as one inductive invariant: whoever holds it has  *)
(* read a row that nothing is newer than when it commits.                  *)
THEOREM ChainInductive == Spec => []ChainInv
<1>1. ChainInv /\ [Next]_vars => ChainInv'
  <2>1. ASSUME ChainInv, UNCHANGED vars PROVE ChainInv'
    BY <2>1, OutsideStep DEF vars, tampered, ChainInv, ChainTyped
  <2>2. QED BY <2>1, ChainStep
<1>2. QED BY <1>1, ChainInit, PTL DEF Spec

(* Two rows never carry the same prevHash unless one was stamped out of    *)
(* order: appends of any number of processes, with timeouts, crashes,      *)
(* clean-ups and hand edits between them, are serialised by the advisory   *)
(* lock (prisma-audit-logs.repository.ts create).                          *)
THEOREM ChainNeverForks == Spec => []NoFork
<1>1. ChainInv => NoFork
  BY DEF ChainInv, LinkInv
<1>2. QED BY <1>1, ChainInductive, PTL

LEMMA ChainOrdered == ChainInv => ChainFollowsTime
<1> SUFFICES ASSUME ChainInv, NEW x \in log, NEW y \in log, Adjacent(log, y, x),
                    x.id \notin cut \cup skewed, y.id \notin skewed
             PROVE  x.prev = y.id
  BY DEF ChainFollowsTime
<1>1. \A z \in log : z.at \in Nat /\ z.id \in Nat
  BY ChainAssumption DEF ChainInv, ChainTyped, Row
<1>2. y.at < x.at
  BY <1>1 DEF Adjacent, Before, ChainInv, StampInv
<1>3. PICK m \in log : m.id = x.prev /\ y.at <= m.at /\ m.at < x.at
  BY <1>2 DEF ChainInv, LinkInv, PrevInv
<1>4. ~(y.at < m.at)
  BY <1>3 DEF Adjacent, Before
<1>5. m = y
  BY <1>1, <1>3, <1>4 DEF ChainInv, StampInv
<1>6. QED BY <1>3, <1>5

(* The order in which the verification walks the rows is the order in      *)
(* which they were chained (prisma-audit-logs.repository.ts create and     *)
(* iterateChainAsc), except after a row removed by hand and next to a row  *)
(* whose stamp is out of order.                                            *)
THEOREM ChainIsInOrder == Spec => []ChainFollowsTime
<1>1. QED BY ChainOrdered, ChainInductive, PTL
-----------------------------------------------------------------------------
(* The order of the walk is a strict one.                                  *)
LEMMA BeforeIsStrict ==
  ASSUME NEW x \in Row, NEW y \in Row, NEW z \in Row
  PROVE  ~Before(x, x) /\ (Before(x, y) /\ Before(y, z) => Before(x, z))
<1>1. /\ x.at \in Nat /\ y.at \in Nat /\ z.at \in Nat
      /\ x.id \in Nat /\ y.id \in Nat /\ z.id \in Nat
  BY ChainAssumption DEF Row
<1>2. QED BY <1>1 DEF Before

(* A finite set that a relation orders strictly has an element with none   *)
(* after it: what comes after an element shrinks as one goes on.           *)
LEMMA FiniteHasLast ==
  ASSUME NEW S, IsFiniteSet(S), S # {}, NEW R,
         \A x \in S : <<x, x>> \notin R,
         \A x, y, z \in S : <<x, y>> \in R /\ <<y, z>> \in R => <<x, z>> \in R
  PROVE  \E x \in S : \A y \in S : <<x, y>> \notin R
<1> DEFINE Later(x) == {y \in S : <<x, y>> \in R}
           T == {Later(x) : x \in S}
<1>1. IsWellFoundedOn(StrictSubsetOrdering(S), FiniteSubsetsOf(S))
  BY FS_StrictSubsetOrderingWellFounded
<1>2. \A x \in S : Later(x) \in FiniteSubsetsOf(S)
  BY FS_Subset DEF FiniteSubsetsOf
<1> HIDE DEF Later
<1>3. T \subseteq FiniteSubsetsOf(S) /\ T # {}
  BY <1>2
<1>4. \E U \in T : \A V \in T : ~(<<V, U>> \in StrictSubsetOrdering(S))
  <2> HIDE DEF T
  <2>1. QED BY <1>1, <1>3, WFMin
<1>5. PICK x \in S : \A y \in S : <<Later(y), Later(x)>> \notin StrictSubsetOrdering(S)
  BY <1>4
<1>6. ASSUME NEW y \in S, <<x, y>> \in R PROVE FALSE
  <2>1. Later(y) \subseteq Later(x)
    BY <1>6 DEF Later
  <2>2. y \in Later(x) /\ y \notin Later(y)
    BY <1>6 DEF Later
  <2>3. <<Later(y), Later(x)>> \in (SUBSET S) \X (SUBSET S) /\ Later(y) # Later(x)
    BY <2>2 DEF Later
  <2>4. <<Later(y), Later(x)>> \in StrictSubsetOrdering(S)
    BY <2>1, <2>3 DEF StrictSubsetOrdering
  <2>5. QED BY <1>5, <2>4
<1>7. QED BY <1>6

(* So a finite set of rows has a last row and a first one.                 *)
LEMMA RowsHaveLast ==
  ASSUME NEW S \in SUBSET Row, IsFiniteSet(S), S # {}
  PROVE  \E x \in S : \A y \in S : ~Before(x, y)
<1> DEFINE R == {q \in S \X S : Before(q[1], q[2])}
<1>1. \A x, y \in S : <<x, y>> \in R <=> Before(x, y)
  OBVIOUS
<1> HIDE DEF R
<1>2. \A x \in S : <<x, x>> \notin R
  BY <1>1, BeforeIsStrict
<1>3. \A x, y, z \in S : <<x, y>> \in R /\ <<y, z>> \in R => <<x, z>> \in R
  BY <1>1, BeforeIsStrict
<1>4. \E x \in S : \A y \in S : <<x, y>> \notin R
  BY <1>2, <1>3, FiniteHasLast
<1>5. QED BY <1>1, <1>4

LEMMA RowsHaveFirst ==
  ASSUME NEW S \in SUBSET Row, IsFiniteSet(S), S # {}
  PROVE  \E x \in S : \A y \in S : ~Before(y, x)
<1> DEFINE R == {q \in S \X S : Before(q[2], q[1])}
<1>1. \A x, y \in S : <<x, y>> \in R <=> Before(y, x)
  OBVIOUS
<1> HIDE DEF R
<1>2. \A x \in S : <<x, x>> \notin R
  BY <1>1, BeforeIsStrict
<1>3. \A x, y, z \in S : <<x, y>> \in R /\ <<y, z>> \in R => <<x, z>> \in R
  BY <1>1, BeforeIsStrict
<1>4. \E x \in S : \A y \in S : <<x, y>> \notin R
  BY <1>2, <1>3, FiniteHasLast
<1>5. QED BY <1>1, <1>4

-----------------------------------------------------------------------------
Bad(p) == {x \in p : BrokenChain(p, x) \/ BadHash(x)}
FirstOf(p, x) == x \in p /\ \A y \in p : ~Before(y, x)

(* What one turn of the verification's loop does: it ends at a bad row of  *)
(* the page, or has walked the whole page and goes on or ends.             *)
LEMMA PageTurn ==
  ASSUME log \in SUBSET Row, IsFiniteSet(log), vf \in Verification, VerifyPage,
         NEW p, p = Page(vf.cursor)
  PROVE  /\ p \in SUBSET log /\ vf.pc = "page" /\ vf' \in Verification
         /\ UNCHANGED <<log, lock, wr, clock, used, altered, cut, skewed>>
         /\ vf'.altered = vf.altered /\ vf'.cut = vf.cut
         /\ \/ \E x \in Bad(p) : /\ vf'.pc = "done" /\ vf'.brokenAt = x.id
                                 /\ vf'.verdict \in {"broken_chain", "bad_hash"}
                                 /\ vf'.expected = ExpectedPrev(p, x)
                                 /\ vf'.reordered = (Jsonb(x.hashed) # x.hashed)
                                 /\ vf'.verdict = "broken_chain" => BrokenChain(p, x)
                                 /\ vf'.verdict = "bad_hash" => BadHash(x)
            \/ /\ Bad(p) = {}
               /\ vf'.seen = vf.seen \cup {x.id : x \in p}
               /\ vf.seen # {} => vf'.anchor = vf.anchor
               /\ vf.seen = {} /\ p # {} => \E x \in p : FirstOf(p, x) /\ vf'.anchor = x.id
               /\ \/ vf'.pc = "done" /\ vf'.verdict = "ok"
                  \/ /\ vf'.pc = "page" /\ vf'.verdict = vf.verdict
                     /\ vf'.cursor \in Ids /\ vf'.expected = vf'.cursor
<1> DEFINE walked == {x \in p : \A y \in Bad(p) : Before(x, y)}
           anchored == IF vf.seen # {} \/ p = {} THEN vf.anchor
                       ELSE (CHOOSE x \in p : \A y \in p : ~Before(y, x)).id
           lastOf(r) == (CHOOSE x \in r : \A y \in r : ~Before(x, y)).id
           seen == [vf EXCEPT !.seen = @ \cup {x.id : x \in walked}, !.anchor = anchored]
           first == CHOOSE x \in Bad(p) : \A y \in Bad(p) : ~Before(y, x)
<1>1. /\ vf.pc = "page"
      /\ UNCHANGED <<log, lock, wr, clock, used, altered, cut, skewed>>
      /\ vf' = IF Bad(p) # {}
               THEN [seen EXCEPT !.pc = "done", !.brokenAt = first.id,
                       !.expected = ExpectedPrev(p, first),
                       !.reordered = Jsonb(first.hashed) # first.hashed,
                       !.verdict = IF BrokenChain(p, first) THEN "broken_chain"
                                   ELSE "bad_hash"]
               ELSE IF Cardinality(p) < PageSize
               THEN [seen EXCEPT !.pc = "done", !.verdict = "ok"]
               ELSE [seen EXCEPT !.cursor = lastOf(p), !.expected = lastOf(p)]
  BY DEF VerifyPage, Bad, tampered
<1>2. p \in SUBSET log /\ p \in SUBSET Row /\ IsFiniteSet(p) /\ Bad(p) \in SUBSET p
  <2>1. p \in SUBSET log
    BY DEF Page, After
  <2>2. QED BY <2>1, FS_Subset DEF Bad
<1>3. IsFiniteSet(Bad(p)) /\ Bad(p) \in SUBSET Row
  BY <1>2, FS_Subset
<1>4. Bad(p) # {} => /\ first \in Bad(p) /\ first.id \in Ids
                     /\ ExpectedPrev(p, first) \in Ids \cup {Null}
  <2>1. Bad(p) # {} => first \in Bad(p) /\ first \in Row
    BY <1>3, RowsHaveFirst
  <2>2. \A x \in p : ExpectedPrev(p, x) \in Ids \cup {Null}
    <3>1. \A x \in p : (\E y \in p : Adjacent(p, y, x)) =>
            (CHOOSE y \in p : Adjacent(p, y, x)) \in p
      OBVIOUS
    <3>2. vf.expected \in Ids \cup {Null}
      BY DEF Verification
    <3>3. QED BY <1>2, <3>1, <3>2 DEF ExpectedPrev, Row
  <2>3. QED BY <1>2, <2>1, <2>2 DEF Row
<1>5. p # {} => lastOf(p) \in Ids
  BY <1>2, RowsHaveLast DEF Row
<1>6. /\ anchored \in Ids \cup {Null}
      /\ vf.seen # {} => anchored = vf.anchor
      /\ vf.seen = {} /\ p # {} => \E x \in p : FirstOf(p, x) /\ anchored = x.id
  <2>1. p # {} => \E x \in p : FirstOf(p, x) /\ x.id \in Ids
                               /\ x = CHOOSE c \in p : \A y \in p : ~Before(y, c)
    BY <1>2, RowsHaveFirst DEF FirstOf, Row
  <2>2. vf.anchor \in Ids \cup {Null}
    BY DEF Verification
  <2>3. QED BY <2>1, <2>2
<1>7. {x.id : x \in walked} \subseteq Ids
  BY <1>2 DEF Row
<1> HIDE DEF anchored, first, lastOf, walked
<1>8. /\ seen \in Verification /\ seen.anchor = anchored
      /\ seen.seen = vf.seen \cup {x.id : x \in walked}
      /\ seen.altered = vf.altered /\ seen.cut = vf.cut
      /\ seen.pc = vf.pc /\ seen.verdict = vf.verdict
  BY <1>6, <1>7 DEF Verification
<1> HIDE DEF seen
<1>9. CASE Bad(p) # {}
  <2>1. vf' = [seen EXCEPT !.pc = "done", !.brokenAt = first.id,
                 !.expected = ExpectedPrev(p, first),
                 !.reordered = Jsonb(first.hashed) # first.hashed,
                 !.verdict = IF BrokenChain(p, first) THEN "broken_chain" ELSE "bad_hash"]
    BY <1>1, <1>9
  <2>2. BrokenChain(p, first) \/ BadHash(first)
    BY <1>4, <1>9 DEF Bad
  <2>3. /\ vf'.pc = "done" /\ vf'.brokenAt = first.id
        /\ vf'.expected = ExpectedPrev(p, first)
        /\ vf'.reordered = (Jsonb(first.hashed) # first.hashed)
        /\ vf'.verdict = IF BrokenChain(p, first) THEN "broken_chain" ELSE "bad_hash"
        /\ vf'.altered = vf.altered /\ vf'.cut = vf.cut
    BY <1>8, <2>1 DEF Verification
  <2>4. vf' \in Verification
    <3>1. \A i \in Ids, e \in Ids \cup {Null}, r \in BOOLEAN,
             v \in {"broken_chain", "bad_hash"} :
            [seen EXCEPT !.pc = "done", !.brokenAt = i, !.expected = e,
               !.reordered = r, !.verdict = v] \in Verification
      BY <1>8 DEF Verification
    <3>2. (Jsonb(first.hashed) # first.hashed) \in BOOLEAN
      OBVIOUS
    <3>3. (IF BrokenChain(p, first) THEN "broken_chain" ELSE "bad_hash")
          \in {"broken_chain", "bad_hash"}
      OBVIOUS
    <3>4. QED BY <1>4, <1>9, <2>1, <3>1, <3>2, <3>3
  <2>5. /\ vf'.verdict \in {"broken_chain", "bad_hash"}
        /\ vf'.verdict = "broken_chain" => BrokenChain(p, first)
        /\ vf'.verdict = "bad_hash" => BadHash(first)
    BY <2>2, <2>3
  <2>6. QED BY <1>1, <1>2, <1>4, <1>9, <2>3, <2>4, <2>5
<1>10. CASE Bad(p) = {}
  <2>1. walked = p
    BY <1>10 DEF walked
  <2>2. CASE Cardinality(p) < PageSize
    <3>1. vf' = [seen EXCEPT !.pc = "done", !.verdict = "ok"]
      BY <1>1, <1>10, <2>2
    <3>2. /\ vf' \in Verification /\ vf'.pc = "done" /\ vf'.verdict = "ok"
          /\ vf'.altered = vf.altered /\ vf'.cut = vf.cut
          /\ vf'.anchor = anchored /\ vf'.seen = vf.seen \cup {x.id : x \in p}
      BY <1>8, <2>1, <3>1 DEF Verification
    <3>3. QED BY <1>1, <1>2, <1>6, <1>10, <3>2
  <2>3. CASE ~(Cardinality(p) < PageSize)
    <3>1. vf' = [seen EXCEPT !.cursor = lastOf(p), !.expected = lastOf(p)]
      BY <1>1, <1>10, <2>3
    <3>2. p # {}
      BY <2>3, FS_EmptySet, ChainAssumption
    <3>3. /\ vf' \in Verification /\ vf'.pc = "page" /\ vf'.verdict = vf.verdict
          /\ vf'.cursor \in Ids /\ vf'.expected = vf'.cursor
          /\ vf'.altered = vf.altered /\ vf'.cut = vf.cut
          /\ vf'.anchor = anchored /\ vf'.seen = vf.seen \cup {x.id : x \in p}
      BY <1>1, <1>5, <1>8, <2>1, <3>1, <3>2 DEF Verification
    <3>4. QED BY <1>1, <1>2, <1>6, <1>10, <3>3
  <2>4. QED BY <2>2, <2>3
<1>11. QED BY <1>9, <1>10

-----------------------------------------------------------------------------
(* The types.  The cursor of the verification is an id because a page that *)
(* is full has a last row, which takes a finite log.                       *)
TypeInv ==
  /\ TypeOK
  /\ IsFiniteSet(log)
  /\ \A w \in Requests : IsFiniteSet(wr[w].row)

LEMMA TypeInit == Init => TypeInv
<1>1. At("handler") \in Request
  BY DEF At, Request
<1>2. Init => TypeOK
  BY <1>1, ChainAssumption DEF Init, TypeOK, Verification
<1>3. ASSUME Init, NEW w \in Requests PROVE wr[w].row = {}
  BY <1>3 DEF Init, At
<1>4. QED BY <1>2, <1>3, FS_EmptySet DEF Init, TypeInv

(* A request's own steps, and the lock, which never stays with a request   *)
(* that has left the transaction.                                          *)
LEMMA RequestTyped ==
  ASSUME TypeInv, NEW w \in Requests,
         Append(w) \/ Crash(w) \/ DropConnection(w)
  PROVE  TypeInv'
<1> USE DEF TypeInv
<1>1. wr \in [Requests -> Request] /\ log \subseteq Row /\ clock \in Nat
  BY DEF TypeOK
<1>2. ASSUME NEW l \in {"lock", "answered", "crashed"} \cup Holding, Goto(w, l),
             UNCHANGED <<log, clock, used, vf, altered, cut, skewed>>,
             \/ lock' = lock /\ (lock = w => l \in Holding \cup {"crashed"})
             \/ lock' = w /\ l = "read"
             \/ lock' = Null
             \/ lock' = lock /\ lock # w
      PROVE  TypeInv'
  <2>0. At(l) \in Request /\ At(l).pc = l /\ At(l).row = {}
    BY <1>2 DEF At, Request
  <2>1. wr' \in [Requests -> Request] /\ wr' = [wr EXCEPT ![w] = At(l)]
    BY <1>1, <1>2, <2>0 DEF Goto
  <2>2. lock' \in {v \in Requests : wr'[v].pc \in Holding \cup {"crashed"}} \cup {Null}
    BY <1>1, <1>2, <2>0, <2>1, ChainAssumption DEF TypeOK, Holding
  <2>3. \A v \in Requests : wr'[v].row = wr[v].row \/ wr'[v].row = {}
    BY <1>1, <2>0, <2>1
  <2>4. QED BY <1>2, <2>1, <2>2, <2>3, FS_EmptySet DEF TypeOK
<1>3. CASE Handle(w) \/ HandlerFails(w)
  <2>1. lock # w
    BY <1>3, ChainAssumption DEF TypeOK, Handle, HandlerFails, Holding
  <2>2. QED BY <1>2, <1>3, <2>1 DEF Handle, HandlerFails, tampered
<1>4. CASE AcquireLock(w)
  BY <1>2, <1>4 DEF AcquireLock, tampered, Holding
<1>5. CASE ReadLast(w)
  <2>1. PICK q : /\ q = Null \/ \E x \in log : q = x.id
                 /\ wr' = [wr EXCEPT ![w].prev = q, ![w].pc = "stamp"]
    BY <1>5 DEF ReadLast
  <2>2. q \in Ids \cup {Null} /\ wr' = [wr EXCEPT ![w].prev = q, ![w].pc = "stamp"]
    BY <1>1, <2>1 DEF Row
  <2>3. UNCHANGED <<log, lock, clock, used, vf, altered, cut, skewed>>
    BY <1>5 DEF ReadLast, tampered
  <2>4. [wr[w] EXCEPT !.prev = q, !.pc = "stamp"] \in Request
    BY <1>1, <2>2 DEF Request, Holding
  <2>5. wr' \in [Requests -> Request]
    BY <1>1, <2>2, <2>4
  <2>6. lock' \in {v \in Requests : wr'[v].pc \in Holding \cup {"crashed"}} \cup {Null}
    BY <1>1, <2>2, <2>3 DEF TypeOK, Holding
  <2>7. \A v \in Requests : wr'[v].row = wr[v].row
    BY <1>1, <2>2 DEF Request
  <2>8. QED BY <2>3, <2>5, <2>6, <2>7 DEF TypeOK
<1>6. CASE Stamp(w)
  <2>1. PICK n \in Row :
           /\ n.id \in Ids \ used /\ used' = used \cup {n.id}
           /\ wr' = [wr EXCEPT ![w].pc = "commit", ![w].row = {n}]
           /\ wr' \in [Requests -> Request] /\ clock' \in Nat
           /\ UNCHANGED <<log, lock, vf, altered, cut, skewed>>
    BY <1>1, <1>6, StampedRow
  <2>2. lock' \in {v \in Requests : wr'[v].pc \in Holding \cup {"crashed"}} \cup {Null}
    BY <1>1, <2>1 DEF TypeOK, Holding
  <2>3. \A v \in Requests : wr'[v].row = wr[v].row \/ wr'[v].row = {n}
    BY <1>1, <2>1 DEF Request
  <2>4. \A v \in Requests : IsFiniteSet(wr'[v].row)
    <3>1. IsFiniteSet({n})
      BY FS_Singleton
    <3>2. \A v \in Requests : IsFiniteSet(wr[v].row)
      OBVIOUS
    <3>3. QED BY <2>3, <3>1, <3>2
  <2>5. QED BY <2>1, <2>2, <2>4 DEF TypeOK
<1>7. CASE Commit(w)
  <2>1. /\ log' = log \cup wr[w].row /\ lock' = Null
        /\ wr' = [wr EXCEPT ![w] = At("answered")]
        /\ UNCHANGED <<clock, used, vf, altered, cut>>
    BY <1>7 DEF Commit, Goto, tampered
  <2>2. At("answered") \in Request /\ At("answered").row = {}
    BY DEF At, Request
  <2>3. wr' \in [Requests -> Request] /\ wr[w].row \subseteq Row
    BY <1>1, <2>1, <2>2 DEF Request
  <2>4. \A v \in Requests : wr'[v].row = wr[v].row \/ wr'[v].row = {}
    BY <1>1, <2>1, <2>2
  <2>5. skewed' \subseteq Ids
    <3>1. PICK x \in wr[w].row :
            skewed' = skewed \cup {y.id : y \in {z \in log : z.at = x.at}}
                             \cup IF \E y \in log : x.at <= y.at THEN {x.id} ELSE {}
      BY <1>7 DEF Commit
    <3>2. \A y \in Row : y.id \in Ids
      BY DEF Row
    <3>3. QED BY <1>1, <2>3, <3>1, <3>2 DEF TypeOK
  <2>6. IsFiniteSet(log')
    BY <2>1, FS_Union
  <2>7. QED BY <2>1, <2>3, <2>4, <2>5, <2>6, FS_EmptySet DEF TypeOK
<1>8. CASE Abort(w)
  BY <1>2, <1>8 DEF Abort, tampered, Holding
<1>9. CASE Crash(w)
  BY <1>2, <1>9 DEF Crash, tampered, Holding
<1>10. CASE DropConnection(w)
  BY <1>10 DEF DropConnection, TypeOK, tampered
<1>11. QED
  BY <1>3, <1>4, <1>5, <1>6, <1>7, <1>8, <1>9, <1>10 DEF Append

(* The clean-up, the clock and hand edits: a row is rewritten or goes.     *)
LEMMA LogTyped ==
  ASSUME TypeInv, CleanUp \/ Tick \/ ByHand
  PROVE  TypeInv'
<1> USE DEF TypeInv
<1>1. CASE CleanUp
  <2>1. UNCHANGED <<lock, wr, clock, used, vf, altered, cut, skewed>> /\ log' \subseteq log
    BY <1>1 DEF CleanUp, DeleteOlderThan, tampered
  <2>2. QED BY <2>1, FS_Subset DEF TypeOK
<1>2. CASE Tick
  BY <1>2 DEF Tick, TypeOK, tampered
<1>3. ASSUME NEW x \in log, AlterRow(x) PROVE TypeInv'
  <2>1. /\ log' = (log \ {x}) \cup {[x EXCEPT !.meta = "altered"]}
        /\ altered' = altered \cup {x.id}
        /\ UNCHANGED <<lock, wr, clock, used, vf, cut, skewed>>
    BY <1>3 DEF AlterRow
  <2>2. [x EXCEPT !.meta = "altered"] \in Row /\ x.id \in Ids
    BY DEF TypeOK, Row, Content
  <2>3. IsFiniteSet(log')
    BY <2>1, FS_RemoveElement, FS_AddElement
  <2>4. QED BY <2>1, <2>2, <2>3 DEF TypeOK
<1>4. ASSUME NEW x \in log, RemoveRow(x) PROVE TypeInv'
  <2>1. cut' = cut \cup {y.id : y \in {z \in log : z.prev = x.id}}
    BY <1>4 DEF RemoveRow
  <2>2. log' = log \ {x} /\ UNCHANGED <<lock, wr, clock, used, vf, altered, skewed>>
    BY <1>4 DEF RemoveRow
  <2>3. cut' \subseteq Ids
    BY <2>1 DEF TypeOK, Row
  <2>4. QED BY <2>1, <2>2, <2>3, FS_RemoveElement DEF TypeOK
<1>5. QED BY <1>1, <1>2, <1>3, <1>4 DEF ByHand

LEMMA VerifyTyped ==
  ASSUME TypeInv, StartVerify \/ VerifyPage
  PROVE  TypeInv'
<1> USE DEF TypeInv
<1>1. CASE StartVerify
  <2>1. /\ vf' = [vf EXCEPT !.pc = "page", !.altered = altered, !.cut = cut]
        /\ UNCHANGED <<log, lock, wr, clock, used, altered, cut, skewed>>
    BY <1>1 DEF StartVerify, tampered
  <2>2. vf' \in Verification
    BY <2>1 DEF TypeOK, Verification
  <2>3. QED BY <2>1, <2>2 DEF TypeOK
<1>2. CASE VerifyPage
  BY <1>2, PageTurn DEF TypeOK
<1>3. QED BY <1>1, <1>2

LEMMA TypeInductive == Spec => []TypeInv
<1>1. TypeInv /\ [Next]_vars => TypeInv'
  <2>1. ASSUME TypeInv, UNCHANGED vars PROVE TypeInv'
    BY <2>1 DEF vars, tampered, TypeInv, TypeOK
  <2>2. QED BY <2>1, RequestTyped, LogTyped, VerifyTyped DEF Next
<1>2. QED BY <1>1, TypeInit, PTL DEF Spec

(* Every variable keeps its type; in particular the advisory lock is held  *)
(* by a request inside its transaction, by one whose process is gone, or   *)
(* by nobody (prisma-audit-logs.repository.ts create).                                 *)
THEOREM AuditTypeCorrect == Spec => []TypeOK
<1>1. TypeInv => TypeOK
  BY DEF TypeInv
<1>2. QED BY <1>1, TypeInductive, PTL

-----------------------------------------------------------------------------
(* A page is a stretch of the log without holes: from the row after the    *)
(* cursor's, up to its own last row.                                       *)
LEMMA PageHasNoHoles ==
  ASSUME log \in SUBSET Row, IsFiniteSet(log), NEW c \in Ids \cup {Null},
         NEW x \in Page(c), NEW z \in log, Before(z, x),
         c = Null \/ \E y \in log : y.id = c /\ Before(y, z)
  PROVE  z \in Page(c)
<1>1. x \in After(c) /\ x \in log /\ After(c) \in SUBSET log
  BY DEF Page, After
<1>2. z \in After(c)
  BY DEF After
<1> DEFINE Below(v) == {y \in After(c) : Before(y, v)}
<1>3. Below(x) \in SUBSET log /\ Below(z) \in SUBSET Below(x)
  BY <1>1, BeforeIsStrict
<1>4. IsFiniteSet(Below(x)) /\ Cardinality(Below(z)) <= Cardinality(Below(x))
  BY <1>3, FS_Subset
<1>5. IsFiniteSet(Below(z))
  BY <1>3, <1>4, FS_Subset
<1>6. Cardinality(Below(z)) \in Nat /\ Cardinality(Below(x)) \in Nat
  BY <1>4, <1>5, FS_CardinalityType
<1>7. Cardinality(Below(x)) < PageSize
  BY DEF Page
<1>8. Cardinality(Below(z)) < PageSize
  BY <1>4, <1>6, <1>7, ChainAssumption
<1>9. QED BY <1>2, <1>8 DEF Page

(* Within a page, the row before is the row before in the log.             *)
LEMMA PageKeepsAdjacency ==
  ASSUME log \in SUBSET Row, IsFiniteSet(log), NEW c \in Ids \cup {Null},
         NEW x \in Page(c), NEW y \in Page(c), Adjacent(Page(c), y, x)
  PROVE  Adjacent(log, y, x)
<1>1. x \in log /\ y \in log /\ Before(y, x)
  BY DEF Page, After, Adjacent
<1>2. ASSUME NEW z \in log, Before(y, z), Before(z, x) PROVE FALSE
  <2>1. c = Null \/ \E k \in log : k.id = c /\ Before(k, y)
    BY DEF Page, After
  <2>2. c = Null \/ \E k \in log : k.id = c /\ Before(k, z)
    BY <1>1, <1>2, <2>1, BeforeIsStrict
  <2>3. z \in Page(c)
    BY <1>2, <2>2, PageHasNoHoles
  <2>4. QED BY <1>2, <2>3 DEF Adjacent
<1>3. QED BY <1>1, <1>2 DEF Adjacent

(* Unless it is the first of its page, a row has a row before it there.    *)
LEMMA PageHasAdjacent ==
  ASSUME log \in SUBSET Row, IsFiniteSet(log), NEW c \in Ids \cup {Null},
         NEW x \in Page(c), ~FirstOf(Page(c), x)
  PROVE  \E y \in Page(c) : Adjacent(Page(c), y, x)
<1> DEFINE B == {y \in Page(c) : Before(y, x)}
<1>1. B \in SUBSET log /\ B # {}
  BY DEF Page, After, FirstOf
<1>2. IsFiniteSet(B) /\ B \in SUBSET Row
  BY <1>1, FS_Subset
<1>3. PICK y \in B : \A z \in B : ~Before(y, z)
  BY <1>1, <1>2, RowsHaveLast
<1>4. QED BY <1>3 DEF Adjacent

(* The first row of a page follows the row of the cursor.                  *)
LEMMA PageFollowsCursor ==
  ASSUME log \in SUBSET Row, IsFiniteSet(log), NEW c \in Ids,
         NEW x \in Page(c), FirstOf(Page(c), x)
  PROVE  \E y \in log : y.id = c /\ Adjacent(log, y, x)
<1>1. PICK y \in log : y.id = c /\ Before(y, x)
  BY ChainAssumption DEF Page, After
<1>2. ASSUME NEW z \in log, Before(y, z), Before(z, x) PROVE FALSE
  <2>1. z \in Page(c)
    BY <1>1, <1>2, PageHasNoHoles
  <2>2. QED BY <1>2, <2>1 DEF FirstOf
<1>3. QED BY <1>1, <1>2 DEF Adjacent

(* What the walk expects of a row is the row before it in the log; only    *)
(* the first row of all is taken as it is.                                 *)
LEMMA ExpectedIsAdjacent ==
  ASSUME log \in SUBSET Row, IsFiniteSet(log), NEW c \in Ids \cup {Null}, vf.cursor = c,
         vf.seen # {} => c \in Ids /\ vf.expected = c,
         NEW x \in Page(c)
  PROVE  \/ vf.seen = {} /\ FirstOf(Page(c), x) /\ ExpectedPrev(Page(c), x) = x.prev
         \/ \E y \in log : Adjacent(log, y, x) /\ ExpectedPrev(Page(c), x) = y.id
<1>1. CASE FirstOf(Page(c), x)
  <2>1. ExpectedPrev(Page(c), x) = IF vf.seen = {} THEN x.prev ELSE vf.expected
    BY <1>1 DEF FirstOf, Adjacent, ExpectedPrev
  <2>2. QED BY <1>1, <2>1, PageFollowsCursor
<1>2. CASE ~FirstOf(Page(c), x)
  <2>1. \E y \in Page(c) : Adjacent(Page(c), y, x)
    BY <1>2, PageHasAdjacent
  <2>2. PICK y \in Page(c) : /\ Adjacent(Page(c), y, x)
                             /\ ExpectedPrev(Page(c), x) = y.id
    BY <2>1 DEF ExpectedPrev
  <2>3. y \in log /\ Adjacent(log, y, x)
    BY <2>2, PageKeepsAdjacency DEF Page, After
  <2>4. QED BY <2>2, <2>3
<1>3. QED BY <1>1, <1>2

-----------------------------------------------------------------------------
(* A row holds what its digest was computed from, as Postgres gives it     *)
(* back, unless it was altered.                                            *)
Faithful(x) ==
  /\ x.hashed \in Metadata
  /\ x.meta = IF x.id \in altered THEN "altered" ELSE Jsonb(x.hashed)

(* What hand edits leave behind.  A row whose predecessor was removed      *)
(* refers to a row that is gone; a row that is not committed yet is        *)
(* untouched.                                                              *)
HistoryInv ==
  /\ altered \subseteq used /\ cut \subseteq used
  /\ \A x \in log : Faithful(x)
  /\ \A w \in Requests : wr[w].pc = "commit" =>
       \A x \in wr[w].row : Faithful(x) /\ x.id \notin altered \cup cut
  /\ \A x \in log : x.id \in cut => \A y \in log : y.id # x.prev

(* So far the walk has come over nothing that was tampered with before it  *)
(* began.                                                                  *)
CleanSoFar == /\ vf.seen \cap vf.altered = {}
              /\ vf.seen \cap vf.cut \subseteq {vf.anchor}

(* What the walk has between two pages: its cursor is the row whose digest *)
(* it expects next.                                                        *)
VerifyInv ==
  /\ vf.altered \subseteq altered /\ vf.cut \subseteq cut
  /\ vf.pc = "idle" => vf.verdict = "none" /\ vf.seen = {}
  /\ vf.pc = "page" => /\ vf.verdict = "none"
                       /\ vf.seen # {} => vf.cursor \in Ids /\ vf.expected = vf.cursor
  /\ vf.pc = "page" \/ vf.verdict = "ok" => CleanSoFar
  /\ NoFalseAlarm

WalkInv == TypeInv /\ ChainInv /\ HistoryInv /\ VerifyInv

LEMMA WalkInit == Init => HistoryInv /\ VerifyInv
BY DEF Init, At, HistoryInv, VerifyInv, CleanSoFar, NoFalseAlarm

(* Steps that add no row and edit none.                                    *)
LEMMA HistoryQuiet ==
  ASSUME HistoryInv, log' \subseteq log, UNCHANGED <<used, altered, cut>>,
         \A w \in Requests : wr'[w].pc = "commit" => wr'[w] = wr[w]
  PROVE  HistoryInv'
BY DEF HistoryInv, Faithful

(* A new row has a fresh id, which no hand edit can have marked.           *)
LEMMA HistoryStamp ==
  ASSUME HistoryInv, wr \in [Requests -> Request], clock \in Nat,
         NEW w \in Requests, Stamp(w)
  PROVE  HistoryInv'
<1>1. PICK n \in Row :
        /\ n.id \in Ids \ used /\ used' = used \cup {n.id}
        /\ n.hashed \in Metadata /\ n.meta = Jsonb(n.hashed)
        /\ wr' = [wr EXCEPT ![w].pc = "commit", ![w].row = {n}]
        /\ wr' \in [Requests -> Request]
        /\ UNCHANGED <<log, altered, cut>>
  BY StampedRow
<1>2. n.id \notin altered \cup cut /\ Faithful(n)'
  BY <1>1 DEF HistoryInv, Faithful
<1>3. wr'[w].row = {n} /\ \A v \in Requests \ {w} : wr'[v] = wr[v]
  BY <1>1 DEF Request
<1>4. \A x : Faithful(x) => Faithful(x)'
  BY <1>1 DEF Faithful
<1>5. QED BY <1>1, <1>2, <1>3, <1>4 DEF HistoryInv

(* Nobody refers to a row before it is committed.                          *)
LEMMA HistoryCommit ==
  ASSUME HistoryInv, ChainInv, NEW w \in Requests, Commit(w)
  PROVE  HistoryInv'
<1>1. /\ wr[w].pc = "commit" /\ log' = log \cup wr[w].row
      /\ wr' = [wr EXCEPT ![w] = At("answered")]
      /\ UNCHANGED <<used, altered, cut>>
  BY DEF Commit, Goto, tampered
<1>2. PICK n \in Row : wr[w].row = {n} /\ \A y \in log : y.prev # n.id
  BY <1>1 DEF ChainInv, EndInv
<1>3. Faithful(n) /\ n.id \notin altered \cup cut
  BY <1>1, <1>2 DEF HistoryInv
<1>4. \A v \in Requests : wr'[v].pc = "commit" => wr'[v] = wr[v]
  BY <1>1 DEF ChainInv, ChainTyped, At
<1>5. \A x : Faithful(x) => Faithful(x)'
  BY <1>1 DEF Faithful
<1>6. QED BY <1>1, <1>2, <1>3, <1>4, <1>5 DEF HistoryInv

LEMMA HistoryAlter ==
  ASSUME HistoryInv, ChainInv, NEW a \in log, AlterRow(a)
  PROVE  HistoryInv'
<1> DEFINE b == [a EXCEPT !.meta = "altered"]
<1>1. /\ log' = (log \ {a}) \cup {b} /\ altered' = altered \cup {a.id}
      /\ UNCHANGED <<wr, used, cut>>
  BY DEF AlterRow
<1>2. b.id = a.id /\ b.prev = a.prev /\ b.hashed = a.hashed /\ b.meta = "altered"
  BY DEF ChainInv, ChainTyped, Row
<1> HIDE DEF b
<1>3. Faithful(b)'
  BY <1>1, <1>2 DEF HistoryInv, Faithful
<1>4. \A x \in log \ {a} : Faithful(x)'
  BY <1>1 DEF HistoryInv, ChainInv, StampInv, Faithful
<1>5. ASSUME NEW w \in Requests, wr[w].pc = "commit", NEW x \in wr[w].row
      PROVE  Faithful(x)' /\ x.id \notin altered' \cup cut'
  <2>1. x.id # a.id
    BY <1>5 DEF ChainInv, EndInv
  <2>2. QED BY <1>1, <1>5, <2>1 DEF HistoryInv, Faithful
<1>6. altered' \subseteq used'
  BY <1>1 DEF HistoryInv, ChainInv, StampInv
<1>7. ASSUME NEW x \in log', x.id \in cut', NEW y \in log' PROVE y.id # x.prev
  <2>1. PICK u \in log, v \in log : u.id = x.id /\ u.prev = x.prev /\ v.id = y.id
    BY <1>1, <1>2, <1>7
  <2>2. QED BY <1>1, <1>7, <2>1 DEF HistoryInv
<1>8. QED BY <1>1, <1>3, <1>4, <1>5, <1>6, <1>7 DEF HistoryInv

(* The rows marked referred to the row removed, and ids are not used twice. *)
LEMMA HistoryRemove ==
  ASSUME HistoryInv, ChainInv, NEW a \in log, RemoveRow(a)
  PROVE  HistoryInv'
<1>1. /\ log' = log \ {a} /\ UNCHANGED <<wr, used, altered>>
      /\ cut' = cut \cup {y.id : y \in {z \in log : z.prev = a.id}}
  BY DEF RemoveRow
<1>2. \A x : Faithful(x) => Faithful(x)'
  BY <1>1 DEF Faithful
<1>3. cut' \subseteq used'
  BY <1>1 DEF HistoryInv, ChainInv, StampInv
<1>4. ASSUME NEW w \in Requests, wr[w].pc = "commit", NEW x \in wr[w].row
      PROVE  x.id \notin altered' \cup cut'
  <2>1. \A y \in log : x.id # y.id
    BY <1>4 DEF ChainInv, EndInv
  <2>2. QED BY <1>1, <1>4, <2>1 DEF HistoryInv
<1>5. ASSUME NEW x \in log', x.id \in cut', NEW y \in log' PROVE y.id # x.prev
  <2>1. CASE x.id \in cut
    BY <1>1, <1>5, <2>1 DEF HistoryInv
  <2>2. CASE x.id \notin cut
    <3>1. x.prev = a.id
      BY <1>1, <1>5, <2>2 DEF ChainInv, StampInv
    <3>2. y # a /\ y \in log
      BY <1>1, <1>5
    <3>3. QED BY <3>1, <3>2 DEF ChainInv, StampInv
  <2>3. QED BY <2>1, <2>2
<1>6. QED BY <1>1, <1>2, <1>3, <1>4, <1>5 DEF HistoryInv

LEMMA HistoryStep ==
  ASSUME TypeInv, ChainInv, HistoryInv, Next
  PROVE  HistoryInv'
<1>1. wr \in [Requests -> Request] /\ clock \in Nat
  BY DEF ChainInv, ChainTyped
<1>2. ASSUME NEW w \in Requests, Append(w) \/ Crash(w) \/ DropConnection(w)
      PROVE  HistoryInv'
  <2>1. CASE Stamp(w)
    BY <1>1, <2>1, HistoryStamp
  <2>2. CASE Commit(w)
    BY <2>2, HistoryCommit
  <2>3. CASE ReadLast(w)
    <3>1. PICK q : wr' = [wr EXCEPT ![w].prev = q, ![w].pc = "stamp"]
      BY <2>3 DEF ReadLast
    <3>2. UNCHANGED <<log, used, altered, cut>>
      BY <2>3 DEF ReadLast, tampered
    <3>3. \A v \in Requests : wr'[v].pc = "commit" => wr'[v] = wr[v]
      BY <1>1, <3>1 DEF Request
    <3>4. QED BY <3>2, <3>3, HistoryQuiet
  <2>4. CASE Handle(w) \/ HandlerFails(w) \/ AcquireLock(w) \/ Abort(w) \/ Crash(w)
    <3>1. /\ UNCHANGED <<log, used, altered, cut>>
          /\ \E l \in {"lock", "answered", "read", "crashed"} : Goto(w, l)
      BY <2>4 DEF Handle, HandlerFails, AcquireLock, Abort, Crash, tampered
    <3>2. \A v \in Requests : wr'[v].pc = "commit" => wr'[v] = wr[v]
      BY <1>1, <3>1 DEF Goto, At
    <3>3. QED BY <3>1, <3>2, HistoryQuiet
  <2>5. CASE DropConnection(w)
    BY <2>5, HistoryQuiet DEF DropConnection, tampered
  <2>6. QED BY <1>2, <2>1, <2>2, <2>3, <2>4, <2>5 DEF Append
<1>3. CASE CleanUp \/ Tick \/ StartVerify
  <2>1. log' \subseteq log /\ UNCHANGED <<wr, used, altered, cut>>
    BY <1>3 DEF CleanUp, DeleteOlderThan, Tick, StartVerify, tampered
  <2>2. QED BY <2>1, HistoryQuiet
<1>4. CASE VerifyPage
  <2>1. UNCHANGED <<log, wr, used, altered, cut>>
    BY <1>4 DEF VerifyPage, tampered
  <2>2. QED BY <2>1, HistoryQuiet
<1>5. CASE ByHand
  BY <1>5, HistoryAlter, HistoryRemove DEF ByHand
<1>6. QED BY <1>2, <1>3, <1>4, <1>5 DEF Next

-----------------------------------------------------------------------------
(* A bad row of a page is one that was tampered with, or one that JSONB    *)
(* gave back in another order, or has a stamp out of order at its place.   *)
LEMMA BadHasCause ==
  ASSUME TypeInv, ChainInv, HistoryInv, VerifyInv, vf.pc = "page",
         NEW p, p = Page(vf.cursor), NEW x \in p
  PROVE  /\ BadHash(x) => x.id \in altered \/ Jsonb(x.hashed) # x.hashed
         /\ BrokenChain(p, x) => \/ x.id \in cut \cup skewed
                                 \/ ExpectedPrev(p, x) \in skewed
<1>1. /\ log \in SUBSET Row /\ IsFiniteSet(log) /\ vf.cursor \in Ids \cup {Null}
      /\ vf.seen # {} => vf.cursor \in Ids /\ vf.expected = vf.cursor
  BY DEF TypeInv, TypeOK, Verification, VerifyInv
<1>2. x \in Page(vf.cursor) /\ x \in log
  BY DEF Page, After
<1>3. BadHash(x) => x.id \in altered \/ Jsonb(x.hashed) # x.hashed
  BY <1>2 DEF HistoryInv, Faithful, BadHash
<1>4. ASSUME BrokenChain(p, x)
      PROVE  x.id \in cut \cup skewed \/ ExpectedPrev(p, x) \in skewed
  <2>1. PICK y \in log : Adjacent(log, y, x) /\ ExpectedPrev(p, x) = y.id
    BY <1>1, <1>2, <1>4, ExpectedIsAdjacent DEF BrokenChain
  <2>2. x.prev # y.id
    BY <1>4, <2>1 DEF BrokenChain
  <2>3. QED BY <1>2, <2>1, <2>2, ChainOrdered DEF ChainFollowsTime
<1>5. QED BY <1>3, <1>4

(* A row that is not bad is unaltered, and follows the row it refers to    *)
(* unless it is the very first.                                            *)
LEMMA GoodIsUntouched ==
  ASSUME TypeInv, ChainInv, HistoryInv, VerifyInv, vf.pc = "page",
         NEW p, p = Page(vf.cursor), NEW x \in p \ Bad(p)
  PROVE  /\ x.id \notin altered
         /\ x.id \in cut => vf.seen = {} /\ FirstOf(p, x)
<1>1. /\ log \in SUBSET Row /\ IsFiniteSet(log) /\ vf.cursor \in Ids \cup {Null}
      /\ vf.seen # {} => vf.cursor \in Ids /\ vf.expected = vf.cursor
  BY DEF TypeInv, TypeOK, Verification, VerifyInv
<1>2. x \in p /\ x \in log /\ ~BadHash(x) /\ ~BrokenChain(p, x)
  BY DEF Bad, Page, After
<1>3. x.hashed # "altered"
  BY <1>2, ChainAssumption DEF HistoryInv, Faithful
<1>4. x.id \notin altered
  BY <1>2, <1>3 DEF HistoryInv, Faithful, BadHash
<1>5. ASSUME x.id \in cut PROVE vf.seen = {} /\ FirstOf(p, x)
  <2>1. \A y \in log : y.id # x.prev
    BY <1>2, <1>5 DEF HistoryInv
  <2>2. x.prev = ExpectedPrev(p, x)
    BY <1>2 DEF BrokenChain
  <2>3. QED BY <1>1, <1>2, <2>1, <2>2, ExpectedIsAdjacent
<1>6. QED BY <1>4, <1>5

(* A page has one first row.                                               *)
LEMMA FirstIsUnique ==
  ASSUME ChainInv, NEW p \in SUBSET log, NEW x, NEW y, FirstOf(p, x), FirstOf(p, y)
  PROVE  x = y
<1>1. x \in log /\ y \in log /\ ~Before(x, y) /\ ~Before(y, x)
  BY DEF FirstOf
<1>2. x.at \in Nat /\ y.at \in Nat /\ x.id \in Nat /\ y.id \in Nat
  BY <1>1, ChainAssumption DEF ChainInv, ChainTyped, Row
<1>3. x.id = y.id
  BY <1>1, <1>2 DEF Before
<1>4. QED BY <1>1, <1>3 DEF ChainInv, StampInv

(* Steps of the others: hand edits only add to what was tampered with.     *)
LEMMA VerifyQuiet ==
  ASSUME VerifyInv, UNCHANGED vf, altered \subseteq altered', cut \subseteq cut',
         skewed \subseteq skewed'
  PROVE  VerifyInv'
BY DEF VerifyInv, CleanSoFar, NoFalseAlarm

LEMMA VerifyStart ==
  ASSUME TypeInv, VerifyInv, StartVerify
  PROVE  VerifyInv'
<1>1. /\ vf' = [vf EXCEPT !.pc = "page", !.altered = altered, !.cut = cut]
      /\ vf.pc = "idle" /\ vf \in Verification /\ UNCHANGED <<altered, cut>>
  BY DEF StartVerify, TypeInv, TypeOK, tampered
<1>2. /\ vf'.pc = "page" /\ vf'.altered = altered /\ vf'.cut = cut
      /\ vf'.seen = vf.seen /\ vf'.verdict = vf.verdict
  BY <1>1 DEF Verification
<1>3. vf.seen = {} /\ vf.verdict = "none"
  BY <1>1 DEF VerifyInv
<1>4. QED BY <1>1, <1>2, <1>3 DEF VerifyInv, CleanSoFar, NoFalseAlarm

LEMMA VerifyTurn ==
  ASSUME TypeInv, ChainInv, HistoryInv, VerifyInv, VerifyPage
  PROVE  VerifyInv'
<1> DEFINE p == Page(vf.cursor)
<1>1. log \in SUBSET Row /\ IsFiniteSet(log) /\ vf \in Verification
  BY DEF TypeInv, TypeOK
<1>2. /\ p \in SUBSET log /\ vf.pc = "page" /\ UNCHANGED <<altered, cut, skewed>>
      /\ vf'.altered = vf.altered /\ vf'.cut = vf.cut
  BY <1>1, PageTurn
<1>3. /\ vf.altered \subseteq altered /\ vf.cut \subseteq cut
      /\ vf.verdict = "none" /\ CleanSoFar
  BY <1>2 DEF VerifyInv
<1>4. CASE \E x \in Bad(p) : /\ vf'.pc = "done" /\ vf'.brokenAt = x.id
                             /\ vf'.verdict \in {"broken_chain", "bad_hash"}
                             /\ vf'.expected = ExpectedPrev(p, x)
                             /\ vf'.reordered = (Jsonb(x.hashed) # x.hashed)
                             /\ vf'.verdict = "broken_chain" => BrokenChain(p, x)
                             /\ vf'.verdict = "bad_hash" => BadHash(x)
  <2>1. NoFalseAlarm'
    BY <1>2, <1>4, BadHasCause DEF Bad, NoFalseAlarm
  <2>2. QED BY <1>2, <1>3, <1>4, <2>1 DEF VerifyInv
<1>5. CASE /\ Bad(p) = {}
           /\ vf'.seen = vf.seen \cup {x.id : x \in p}
           /\ vf.seen # {} => vf'.anchor = vf.anchor
           /\ vf.seen = {} /\ p # {} => \E x \in p : FirstOf(p, x) /\ vf'.anchor = x.id
           /\ \/ vf'.pc = "done" /\ vf'.verdict = "ok"
              \/ /\ vf'.pc = "page" /\ vf'.verdict = vf.verdict
                 /\ vf'.cursor \in Ids /\ vf'.expected = vf'.cursor
  <2>1. ASSUME NEW x \in p PROVE /\ x.id \notin vf.altered
                                 /\ x.id \in vf.cut => x.id = vf'.anchor
    <3>1. x.id \notin altered /\ (x.id \in cut => vf.seen = {} /\ FirstOf(p, x))
      BY <1>2, <1>5, GoodIsUntouched
    <3>2. ASSUME x.id \in vf.cut PROVE x.id = vf'.anchor
      <4>1. vf.seen = {} /\ FirstOf(p, x)
        BY <1>3, <3>1, <3>2
      <4>2. PICK f \in p : FirstOf(p, f) /\ vf'.anchor = f.id
        BY <1>5, <4>1
      <4>3. QED BY <1>2, <4>1, <4>2, FirstIsUnique
    <3>3. QED BY <1>3, <3>1, <3>2
  <2>2. CleanSoFar'
    <3>1. vf'.seen \cap vf'.altered = {}
      BY <1>2, <1>3, <1>5, <2>1 DEF CleanSoFar
    <3>2. vf'.seen \cap vf'.cut \subseteq {vf'.anchor}
      BY <1>2, <1>3, <1>5, <2>1 DEF CleanSoFar
    <3>3. QED BY <3>1, <3>2 DEF CleanSoFar
  <2>3. NoFalseAlarm'
    BY <1>3, <1>5 DEF NoFalseAlarm
  <2>4. QED BY <1>2, <1>3, <1>5, <2>2, <2>3 DEF VerifyInv
<1>6. QED BY <1>1, <1>4, <1>5, PageTurn

LEMMA VerifyStep ==
  ASSUME TypeInv, ChainInv, HistoryInv, VerifyInv, Next
  PROVE  VerifyInv'
<1>1. ASSUME NEW w \in Requests, Append(w) \/ Crash(w) \/ DropConnection(w)
      PROVE  VerifyInv'
  <2>1. UNCHANGED <<vf, altered, cut>> /\ skewed \subseteq skewed'
    BY <1>1 DEF Append, Handle, HandlerFails, AcquireLock, ReadLast, Stamp, Commit, Abort,
                Crash, DropConnection, tampered
  <2>2. QED BY <2>1, VerifyQuiet
<1>2. CASE CleanUp \/ Tick
  BY <1>2, VerifyQuiet DEF CleanUp, Tick, tampered
<1>3. CASE ByHand
  <2>1. UNCHANGED <<vf, skewed>> /\ altered \subseteq altered' /\ cut \subseteq cut'
    BY <1>3 DEF ByHand, AlterRow, RemoveRow
  <2>2. QED BY <2>1, VerifyQuiet
<1>4. QED BY <1>1, <1>2, <1>3, VerifyStart, VerifyTurn DEF Next

(* The chain and the walk over it as one inductive invariant: what the     *)
(* verification has seen, what it expects next, and what hand edits have   *)
(* left in the log.                                                        *)
THEOREM WalkInductive == Spec => []WalkInv
<1>1. TypeInv /\ ChainInv /\ HistoryInv /\ VerifyInv /\ [Next]_vars
      => HistoryInv' /\ VerifyInv'
  <2>1. ASSUME HistoryInv, VerifyInv, UNCHANGED vars PROVE HistoryInv' /\ VerifyInv'
    BY <2>1, HistoryQuiet, VerifyQuiet DEF vars, tampered
  <2>2. QED BY <2>1, HistoryStep, VerifyStep
<1>2. QED BY <1>1, WalkInit, TypeInductive, ChainInductive, PTL DEF Spec, WalkInv

(* A verification that runs while rows are appended, cleaned up and edited *)
(* reports nothing without a cause at the very place: a row altered by     *)
(* hand or reordered by JSONB, a predecessor removed, a stamp out of       *)
(* order.  Where pages begin and end, and what the clean-up takes between  *)
(* them, is never the cause (verify-audit-chain.use-case.ts).              *)
THEOREM VerifyAccusesNobody == Spec => []NoFalseAlarm
<1>1. WalkInv => NoFalseAlarm
  BY DEF WalkInv, VerifyInv
<1>2. QED BY <1>1, WalkInductive, PTL

(* A verification that reports ok has missed no row altered, and no gap    *)
(* torn, before it began; only the row it anchors on may follow a gap      *)
(* (verify-audit-chain.use-case.ts).                                       *)
THEOREM VerifyMissesNothing == Spec => []TamperEvident
<1>1. WalkInv => TamperEvident
  BY DEF WalkInv, VerifyInv, CleanSoFar, TamperEvident
<1>2. QED BY <1>1, WalkInductive, PTL

-----------------------------------------------------------------------------
(* The clocks of the processes differ by less than the time an append      *)
(* takes.                                                                  *)
ClocksAgree == \A o, p \in Offsets : o < p + MinGap

(* No clock shows a time as early as this row's stamp when it is the next  *)
(* to stamp.                                                               *)
Past(x) == \A o \in Offsets : x.at < clock + MinGap + o

PastInv ==
  /\ skewed = {}
  /\ \A x \in log : Past(x)
  /\ \A w \in Requests : wr[w].pc = "commit" =>
       \A n \in wr[w].row : Past(n) /\ \A y \in log : y.at < n.at

LEMMA PastQuiet ==
  ASSUME PastInv, log' \subseteq log, UNCHANGED skewed, clock \in Nat, clock' \in Nat,
         clock <= clock', log \subseteq Row, wr \in [Requests -> Request],
         \A w \in Requests : wr'[w].pc = "commit" => wr'[w] = wr[w]
  PROVE  PastInv'
<1>1. ASSUME NEW x \in Row, Past(x) PROVE Past(x)'
  <2>1. ASSUME NEW o \in Offsets PROVE x.at < clock' + MinGap + o
    <3>1. x.at < clock + MinGap + o
      BY <1>1 DEF Past
    <3>2. x.at \in Nat /\ MinGap \in Nat /\ o \in Nat
      BY ChainAssumption DEF Row
    <3>3. QED BY <3>1, <3>2
  <2>2. QED BY <2>1 DEF Past
<1>2. \A w \in Requests : wr[w].row \subseteq Row
  BY DEF Request
<1>3. QED BY <1>1, <1>2 DEF PastInv

LEMMA PastStamp ==
  ASSUME ClocksAgree, ChainInv, PastInv, NEW w \in Requests, Stamp(w)
  PROVE  PastInv'
<1>1. log \subseteq Row /\ wr \in [Requests -> Request] /\ clock \in Nat
  BY DEF ChainInv, ChainTyped
<1>2. PICK n \in Row, o \in Offsets :
        /\ n.at = clock' + o
        /\ wr' = [wr EXCEPT ![w].pc = "commit", ![w].row = {n}]
        /\ clock' = clock + MinGap /\ clock' \in Nat
        /\ UNCHANGED <<log, skewed>>
  BY <1>1, StampedRow
<1>3. MinGap \in Nat /\ \A p \in Offsets : p \in Nat
  BY ChainAssumption
<1>4. Past(n)'
  <2>1. ASSUME NEW p \in Offsets PROVE n.at < clock' + MinGap + p
    <3>1. o < p + MinGap /\ o \in Nat /\ p \in Nat
      BY <1>3 DEF ClocksAgree
    <3>2. QED BY <1>2, <1>3, <3>1
  <2>2. QED BY <2>1 DEF Past
<1>5. \A y \in log : y.at < n.at
  BY <1>2 DEF PastInv, Past
<1>6. ASSUME NEW x \in Row, Past(x) PROVE Past(x)'
  <2>1. ASSUME NEW p \in Offsets PROVE x.at < clock' + MinGap + p
    <3>1. x.at < clock + MinGap + p /\ x.at \in Nat /\ p \in Nat
      BY <1>3, <1>6 DEF Past, Row
    <3>2. QED BY <1>1, <1>2, <1>3, <3>1
  <2>2. QED BY <2>1 DEF Past
<1>7. /\ wr'[w].row = {n} /\ \A v \in Requests \ {w} : wr'[v] = wr[v]
      /\ \A v \in Requests : wr[v].row \subseteq Row
  BY <1>1, <1>2 DEF Request
<1>8. QED BY <1>1, <1>2, <1>4, <1>5, <1>6, <1>7 DEF PastInv

LEMMA PastCommit ==
  ASSUME ChainInv, PastInv, NEW w \in Requests, Commit(w)
  PROVE  PastInv'
<1>1. /\ wr[w].pc = "commit" /\ log' = log \cup wr[w].row
      /\ wr' = [wr EXCEPT ![w] = At("answered")] /\ clock' = clock
  BY DEF Commit, Goto, tampered
<1>2. PICK n \in Row : wr[w].row = {n}
  BY <1>1 DEF ChainInv, EndInv
<1>3. Past(n) /\ n.at \in Nat /\ \A y \in log : y.at < n.at /\ y.at \in Nat
  BY <1>1, <1>2 DEF PastInv, ChainInv, ChainTyped, Row
<1>4. \A y \in log : y.at # n.at /\ ~(n.at <= y.at)
  BY <1>3
<1>5. skewed' = {}
  <2>1. skewed' = skewed \cup {y.id : y \in {z \in log : z.at = n.at}}
                         \cup IF \E y \in log : n.at <= y.at THEN {n.id} ELSE {}
    BY <1>2 DEF Commit
  <2>2. QED BY <1>4, <2>1 DEF PastInv
<1>6. \A v \in Requests : wr'[v].pc # "commit"
  BY <1>1 DEF ChainInv, ChainTyped, LockInv, Holding, At
<1>7. \A x : Past(x) => Past(x)'
  BY <1>1 DEF Past
<1>8. QED BY <1>1, <1>2, <1>3, <1>5, <1>6, <1>7 DEF PastInv

LEMMA PastByHand ==
  ASSUME PastInv, ByHand, log \subseteq Row
  PROVE  PastInv'
<1>1. UNCHANGED <<wr, clock, skewed>>
  BY DEF ByHand, AlterRow, RemoveRow
<1>2. \A x \in log' : \E y \in log : x.at = y.at
  BY DEF ByHand, AlterRow, RemoveRow, Row
<1>3. QED BY <1>1, <1>2 DEF PastInv, Past

LEMMA PastStep ==
  ASSUME ClocksAgree, ChainInv, PastInv, Next
  PROVE  PastInv'
<1>1. log \subseteq Row /\ wr \in [Requests -> Request] /\ clock \in Nat
  BY DEF ChainInv, ChainTyped
<1>2. ASSUME NEW w \in Requests, Append(w) \/ Crash(w) \/ DropConnection(w)
      PROVE  PastInv'
  <2>1. CASE ReadLast(w)
    <3>1. PICK q : wr' = [wr EXCEPT ![w].prev = q, ![w].pc = "stamp"]
      BY <2>1 DEF ReadLast
    <3>2. UNCHANGED <<log, clock, skewed>>
      BY <2>1 DEF ReadLast
    <3>3. \A v \in Requests : wr'[v].pc = "commit" => wr'[v] = wr[v]
      BY <1>1, <3>1 DEF Request
    <3>4. QED BY <1>1, <3>2, <3>3, PastQuiet
  <2>2. CASE Handle(w) \/ HandlerFails(w) \/ AcquireLock(w) \/ Abort(w) \/ Crash(w)
    <3>1. /\ UNCHANGED <<log, clock, skewed>>
          /\ \E l \in {"lock", "answered", "read", "crashed"} : Goto(w, l)
      BY <2>2 DEF Handle, HandlerFails, AcquireLock, Abort, Crash
    <3>2. \A v \in Requests : wr'[v].pc = "commit" => wr'[v] = wr[v]
      BY <1>1, <3>1 DEF Goto, At
    <3>3. QED BY <1>1, <3>1, <3>2, PastQuiet
  <2>3. CASE DropConnection(w)
    BY <1>1, <2>3, PastQuiet DEF DropConnection
  <2>4. QED BY <1>2, <2>1, <2>2, <2>3, PastStamp, PastCommit DEF Append
<1>3. CASE CleanUp \/ StartVerify \/ VerifyPage
  <2>1. log' \subseteq log /\ UNCHANGED <<wr, clock, skewed>>
    BY <1>3 DEF CleanUp, DeleteOlderThan, StartVerify, VerifyPage
  <2>2. QED BY <1>1, <2>1, PastQuiet
<1>4. CASE Tick
  <2>1. UNCHANGED <<log, wr, skewed>> /\ clock' = clock + 1
    BY <1>4 DEF Tick
  <2>2. QED BY <1>1, <2>1, PastQuiet
<1>5. QED BY <1>1, <1>2, <1>3, <1>4, PastByHand DEF Next

(* What it takes for no stamp to be out of order: that the clocks of the   *)
(* processes differ by less than the time an append takes.  Then the chain *)
(* never forks at all and breaks only where a row was removed (new Date()  *)
(* in prisma-audit-logs.repository.ts create).                             *)
THEOREM ClocksKeepOrder ==
  ASSUME ClocksAgree
  PROVE  Spec => [](skewed = {})
<1>1. Init => PastInv
  BY DEF Init, At, PastInv
<1>2. ChainInv /\ PastInv /\ [Next]_vars => PastInv'
  <2>1. ASSUME PastInv, UNCHANGED vars PROVE PastInv'
    BY <2>1 DEF vars, PastInv, Past
  <2>2. QED BY <2>1, PastStep
<1>3. PastInv => skewed = {}
  BY DEF PastInv
<1>4. QED BY <1>1, <1>2, <1>3, ChainInductive, PTL DEF Spec
=============================================================================
