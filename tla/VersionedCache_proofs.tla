------------------------ MODULE VersionedCache_proofs ------------------------
(***************************************************************************)
(* Proofs about VersionedCache, for every set of keys, readers and         *)
(* writers.  Freshness is not inductive: it rests on what the entries and  *)
(* the reads of one namespace version know of each other, which EpochInv   *)
(* says.                                                                   *)
(***************************************************************************)
EXTENDS VersionedCache, TLAPS

Active == {p \in Readers : rd[p].pc # "idle"}
Filling == {p \in Readers : rd[p].pc = "fill"}

(* A row is there only once its key was written; nothing is published      *)
(* before it is committed; versions are read from the counter.             *)
RowsInv ==
  /\ \A k \in Keys : /\ floor[k] <= db[k].ver
                     /\ db[k].here => db[k].ver >= 1
                     /\ db[k].ver = 0 => floor[k] = 0
  /\ \A e \in store : e.nv <= nsver /\ (e.row.here => e.row.ver >= 1)
                                     /\ e.row.ver <= db[e.key].ver
  /\ \A p \in Active : /\ rd[p].nv <= nsver
                       /\ rd[p].floor <= floor[rd[p].key]
  /\ \A p \in Filling : rd[p].row.here => rd[p].row.ver >= 1

(* What is, or will be, stored under a version is at least as new as       *)
(* anything a read of that version must see.                               *)
EpochInv ==
  /\ \A e \in store :
       e.row.here /\ e.nv = nsver => e.row.ver >= floor[e.key]
  /\ \A q \in Filling :
       rd[q].row.here /\ rd[q].nv = nsver => rd[q].row.ver >= floor[rd[q].key]
  /\ \A p \in Active, e \in store :
       e.row.here /\ e.nv = rd[p].nv /\ e.key = rd[p].key
         => e.row.ver >= rd[p].floor
  /\ \A p \in Active, q \in Filling :
       rd[q].row.here /\ rd[q].nv = rd[p].nv /\ rd[q].key = rd[p].key
         => rd[q].row.ver >= rd[p].floor

AnswerInv ==
  \A p \in Readers : rd[p].pc \in {"fill", "done"} =>
    rd[p].floor <= rd[p].row.ver /\ rd[p].row.ver <= db[rd[p].key].ver

IInv == TypeOK /\ RowsInv /\ EpochInv /\ AnswerInv

-----------------------------------------------------------------------------
LEMMA InitInv == CacheInit => IInv
<1> SUFFICES ASSUME CacheInit PROVE IInv
  OBVIOUS
<1>a. \A k \in Keys : /\ db[k] \in Row
                      /\ floor[k] = db[k].ver
                      /\ db[k].here => db[k].ver = 1
                      /\ db[k].ver = 0 => ~db[k].here
  <2> TAKE k \in Keys
  <2>1. CASE db[k] = NoRow
    BY <2>1 DEF CacheInit, NoRow, Row
  <2>2. CASE db[k] = FirstRow
    BY <2>2 DEF CacheInit, FirstRow, Row
  <2>3. QED
    BY <2>1, <2>2 DEF CacheInit
<1>b. \A k \in Keys : db[k].ver \in Nat
  BY <1>a DEF Row
<1>c. db \in [Keys -> Row] /\ floor \in [Keys -> Nat]
  BY <1>a, <1>b DEF CacheInit
<1>d. NoRead \in ReadState /\ NoRead.pc = "idle"
  BY KeysAssumption DEF NoRead, AnyKey, NoRow, ReadState, Row
<1> USE DEF CacheInit, NoRow, Row
<1>1. TypeOK
  <2>2. rd \in [Readers -> ReadState]
    BY <1>d
  <2>3. QED
    BY <1>c, <2>2 DEF TypeOK
<1>2. \A p \in Readers : rd[p].pc = "idle"
  BY <1>d
<1>4. RowsInv /\ EpochInv /\ AnswerInv
  <2>1. store = {} /\ Active = {} /\ Filling = {}
    BY <1>2 DEF Active, Filling
  <2> HIDE DEF CacheInit, NoRow, Row
  <2>2. RowsInv /\ EpochInv
    BY <1>a, <1>b, <2>1 DEF RowsInv, EpochInv
  <2>3. AnswerInv
    BY <1>2 DEF AnswerInv
  <2>4. QED
    BY <2>2, <2>3
<1>5. QED
  BY <1>1, <1>4 DEF IInv

LEMMA TypeStep == TypeOK /\ [CacheNext]_cacheVars => TypeOK'
<1> SUFFICES ASSUME TypeOK, [CacheNext]_cacheVars PROVE TypeOK'
  OBVIOUS
<1> DEFINE Typed == TypeOK
<1> USE DEF TypeOK, Row, ReadState, Entry, NoRow, FirstRow, NoRead
<1>1. ASSUME NEW p \in Readers, NEW k \in Keys, BuildKey(p, k) PROVE Typed'
  BY <1>1 DEF BuildKey
<1>2. ASSUME NEW p \in Readers, CacheHit(p) PROVE Typed'
  <2>1. PICK e \in store : rd' = [rd EXCEPT ![p].pc = "done", ![p].row = e.row]
    BY <1>2 DEF CacheHit, Hits
  <2>2. e.row \in Row
    OBVIOUS
  <2>3. rd'[p] = [pc |-> "done", key |-> rd[p].key, nv |-> rd[p].nv,
                  row |-> e.row, floor |-> rd[p].floor]
    BY <2>1
  <2>4. rd' \in [Readers -> ReadState]
    BY <2>1, <2>2, <2>3
  <2>5. QED
    BY <1>2, <2>4 DEF CacheHit
<1>3. ASSUME NEW p \in Readers, CacheMiss(p) PROVE Typed'
  BY <1>3 DEF CacheMiss, Hits
<1>4. ASSUME NEW p \in Readers, LoadRow(p) PROVE Typed'
  <2>1. db[rd[p].key] \in Row
    OBVIOUS
  <2>2. rd'[p] = [pc |-> "fill", key |-> rd[p].key, nv |-> rd[p].nv,
                  row |-> db[rd[p].key], floor |-> rd[p].floor]
    BY <1>4 DEF LoadRow
  <2>3. rd' \in [Readers -> ReadState]
    BY <1>4, <2>1, <2>2 DEF LoadRow
  <2>4. QED
    BY <1>4, <2>3 DEF LoadRow
<1>5. ASSUME NEW p \in Readers, FillCache(p) PROVE Typed'
  BY <1>5 DEF FillCache
<1>6. ASSUME NEW p \in Readers, EndRead(p) PROVE Typed'
  BY <1>6, KeysAssumption DEF EndRead, AnyKey
<1>7. ASSUME NEW w \in Writers, NEW K \in SUBSET Keys, NEW h \in BOOLEAN, Write(w, K, h) PROVE Typed'
  BY <1>7 DEF Write
<1>8. ASSUME NEW w \in Writers, Bump(w) PROVE Typed'
  BY <1>8 DEF Bump
<1>9. ASSUME NEW w \in Writers, LoseBump(w) PROVE Typed'
  BY <1>9 DEF LoseBump
<1>10. ASSUME NEW k \in Keys, CreateRow(k) PROVE Typed'
  BY <1>10 DEF CreateRow
<1>11. ASSUME NEW k \in Keys, PurgeRow(k) PROVE Typed'
  BY <1>11 DEF PurgeRow
<1>12. ASSUME NEW e \in store, Expire(e) PROVE Typed'
  BY <1>12 DEF Expire
<1>13. ASSUME UNCHANGED cacheVars PROVE Typed'
  BY <1>13 DEF cacheVars
<1> HIDE DEF Typed
<1>14. Typed'
  BY <1>1, <1>2, <1>3, <1>4, <1>5, <1>6, <1>7, <1>8, <1>9, <1>10, <1>11, <1>12, <1>13 DEF CacheNext, ReadStep
<1>15. QED
  BY <1>14 DEF Typed

LEMMA InvStep == IInv /\ [CacheNext]_cacheVars => IInv'
<1> SUFFICES ASSUME IInv, [CacheNext]_cacheVars PROVE IInv'
  OBVIOUS
<1>0. TypeOK'
  BY TypeStep DEF IInv
<1> DEFINE Inv == RowsInv /\ EpochInv /\ AnswerInv
<1> USE <1>0 DEF IInv, TypeOK, Row, ReadState, Entry, NoRow, FirstRow, NoRead, Active, Filling
<1>1. ASSUME NEW p \in Readers, NEW k \in Keys, BuildKey(p, k) PROVE Inv'
  <2>1. RowsInv'
    BY <1>1 DEF BuildKey, RowsInv, EpochInv, AnswerInv
  <2>2. EpochInv'
    BY <1>1 DEF BuildKey, RowsInv, EpochInv, AnswerInv
  <2>3. AnswerInv'
    BY <1>1 DEF BuildKey, RowsInv, EpochInv, AnswerInv
  <2>4. QED
    BY <2>1, <2>2, <2>3
<1>2. ASSUME NEW p \in Readers, CacheHit(p) PROVE Inv'
  <2>1. PICK e \in Hits(rd[p].nv, rd[p].key) :
          rd' = [rd EXCEPT ![p].pc = "done", ![p].row = e.row]
    BY <1>2 DEF CacheHit
  <2>2. /\ e \in store /\ e.row \in Row
        /\ e.row.here /\ e.nv = rd[p].nv /\ e.key = rd[p].key
        /\ p \in Active
    BY <1>2 DEF CacheHit, Hits
  <2>3. /\ rd'[p].pc = "done" /\ rd'[p].row = e.row
        /\ rd'[p].floor = rd[p].floor
        /\ rd'[p].key = rd[p].key /\ rd'[p].nv = rd[p].nv
        /\ \A q \in Readers : q # p => rd'[q] = rd[q]
        /\ UNCHANGED <<db, nsver, store, floor>>
    BY <1>2, <2>1 DEF CacheHit
  <2>4. Active' = Active /\ Filling' = Filling
    BY <1>2, <2>3 DEF CacheHit
  <2>5. RowsInv'
    BY <2>2, <2>3, <2>4 DEF RowsInv
  <2>6. EpochInv'
    <3>1. \A q \in Readers : /\ rd'[q].nv = rd[q].nv /\ rd'[q].key = rd[q].key
                              /\ rd'[q].floor = rd[q].floor
      BY <2>3
    <3>2. \A q \in Filling : q \in Readers /\ rd'[q].row = rd[q].row
      BY <1>2, <2>3 DEF CacheHit
    <3>3. Active \subseteq Readers
      OBVIOUS
    <3> HIDE DEF Active, Filling
    <3>4. QED
      BY <2>3, <2>4, <3>1, <3>2, <3>3 DEF EpochInv
  <2>7. rd[p].floor <= e.row.ver /\ e.row.ver <= db[rd[p].key].ver
    BY <2>2 DEF RowsInv, EpochInv
  <2>8. AnswerInv'
    BY <2>3, <2>7 DEF AnswerInv
  <2>9. QED
    BY <2>5, <2>6, <2>8
<1>3. ASSUME NEW p \in Readers, CacheMiss(p) PROVE Inv'
  <2>1. RowsInv'
    BY <1>3 DEF CacheMiss, Hits, RowsInv, EpochInv, AnswerInv
  <2>2. EpochInv'
    BY <1>3 DEF CacheMiss, Hits, RowsInv, EpochInv, AnswerInv
  <2>3. AnswerInv'
    BY <1>3 DEF CacheMiss, Hits, RowsInv, EpochInv, AnswerInv
  <2>4. QED
    BY <2>1, <2>2, <2>3
<1>4. ASSUME NEW p \in Readers, LoadRow(p) PROVE Inv'
  <2>1. /\ rd'[p].pc = "fill" /\ rd'[p].row = db[rd[p].key]
        /\ rd'[p].floor = rd[p].floor
        /\ rd'[p].key = rd[p].key /\ rd'[p].nv = rd[p].nv
        /\ \A q \in Readers : q # p => rd'[q] = rd[q]
        /\ UNCHANGED <<db, nsver, store, floor>>
    BY <1>4 DEF LoadRow
  <2>2. Active' = Active /\ Filling' = Filling \cup {p} /\ p \in Active
    BY <1>4, <2>1 DEF LoadRow
  <2>3. db[rd[p].key] \in Row /\ rd[p].floor <= floor[rd[p].key]
        /\ floor[rd[p].key] <= db[rd[p].key].ver
    BY <2>2 DEF RowsInv
  <2>4. RowsInv'
    BY <2>1, <2>2, <2>3 DEF RowsInv
  <2>5. EpochInv'
    <3>1. \A r \in Active : rd[r].key = rd[p].key
                             => rd[r].floor <= db[rd[p].key].ver
      BY <2>3 DEF RowsInv
    <3>2. \A q \in Readers : /\ rd'[q].nv = rd[q].nv /\ rd'[q].key = rd[q].key
                              /\ rd'[q].floor = rd[q].floor
      BY <2>1
    <3>3. \A q \in Filling : q # p /\ q \in Readers /\ rd'[q].row = rd[q].row
      BY <1>4, <2>1 DEF LoadRow
    <3>4. Active \subseteq Readers
      OBVIOUS
    <3> HIDE DEF Active, Filling
    <3>5. QED
      BY <2>1, <2>2, <2>3, <3>1, <3>2, <3>3, <3>4 DEF EpochInv
  <2>6. AnswerInv'
    BY <2>1, <2>3 DEF AnswerInv
  <2>7. QED
    BY <2>4, <2>5, <2>6
<1>5. ASSUME NEW p \in Readers, FillCache(p) PROVE Inv'
  <2>1. RowsInv'
    BY <1>5 DEF FillCache, RowsInv, EpochInv, AnswerInv
  <2>2. EpochInv'
    BY <1>5 DEF FillCache, RowsInv, EpochInv, AnswerInv
  <2>3. AnswerInv'
    BY <1>5 DEF FillCache, RowsInv, EpochInv, AnswerInv
  <2>4. QED
    BY <2>1, <2>2, <2>3
<1>6. ASSUME NEW p \in Readers, EndRead(p) PROVE Inv'
  <2>1. RowsInv'
    BY <1>6 DEF EndRead, RowsInv, EpochInv, AnswerInv
  <2>2. EpochInv'
    BY <1>6 DEF EndRead, RowsInv, EpochInv, AnswerInv
  <2>3. AnswerInv'
    BY <1>6 DEF EndRead, RowsInv, EpochInv, AnswerInv
  <2>4. QED
    BY <2>1, <2>2, <2>3
<1>7. ASSUME NEW w \in Writers, NEW K \in SUBSET Keys, NEW h \in BOOLEAN, Write(w, K, h) PROVE Inv'
  <2>1. RowsInv'
    BY <1>7 DEF Write, RowsInv, EpochInv, AnswerInv
  <2>2. EpochInv'
    BY <1>7 DEF Write, RowsInv, EpochInv, AnswerInv
  <2>3. AnswerInv'
    BY <1>7 DEF Write, RowsInv, EpochInv, AnswerInv
  <2>4. QED
    BY <2>1, <2>2, <2>3
<1>8. ASSUME NEW w \in Writers, Bump(w) PROVE Inv'
  <2>1. RowsInv'
    BY <1>8 DEF Bump, RowsInv, EpochInv, AnswerInv
  <2>2. EpochInv'
    BY <1>8 DEF Bump, RowsInv, EpochInv, AnswerInv
  <2>3. AnswerInv'
    BY <1>8 DEF Bump, RowsInv, EpochInv, AnswerInv
  <2>4. QED
    BY <2>1, <2>2, <2>3
<1>9. ASSUME NEW w \in Writers, LoseBump(w) PROVE Inv'
  <2>1. RowsInv'
    BY <1>9 DEF LoseBump, RowsInv, EpochInv, AnswerInv
  <2>2. EpochInv'
    BY <1>9 DEF LoseBump, RowsInv, EpochInv, AnswerInv
  <2>3. AnswerInv'
    BY <1>9 DEF LoseBump, RowsInv, EpochInv, AnswerInv
  <2>4. QED
    BY <2>1, <2>2, <2>3
<1>10. ASSUME NEW k \in Keys, CreateRow(k) PROVE Inv'
  <2>1. RowsInv'
    BY <1>10 DEF CreateRow, RowsInv, EpochInv, AnswerInv
  <2>2. EpochInv'
    BY <1>10 DEF CreateRow, RowsInv, EpochInv, AnswerInv
  <2>3. AnswerInv'
    BY <1>10 DEF CreateRow, RowsInv, EpochInv, AnswerInv
  <2>4. QED
    BY <2>1, <2>2, <2>3
<1>11. ASSUME NEW k \in Keys, PurgeRow(k) PROVE Inv'
  <2>1. RowsInv'
    BY <1>11 DEF PurgeRow, RowsInv, EpochInv, AnswerInv
  <2>2. EpochInv'
    BY <1>11 DEF PurgeRow, RowsInv, EpochInv, AnswerInv
  <2>3. AnswerInv'
    BY <1>11 DEF PurgeRow, RowsInv, EpochInv, AnswerInv
  <2>4. QED
    BY <2>1, <2>2, <2>3
<1>12. ASSUME NEW e \in store, Expire(e) PROVE Inv'
  <2>1. RowsInv'
    BY <1>12 DEF Expire, RowsInv, EpochInv, AnswerInv
  <2>2. EpochInv'
    BY <1>12 DEF Expire, RowsInv, EpochInv, AnswerInv
  <2>3. AnswerInv'
    BY <1>12 DEF Expire, RowsInv, EpochInv, AnswerInv
  <2>4. QED
    BY <2>1, <2>2, <2>3
<1>13. CASE UNCHANGED cacheVars
  BY <1>13 DEF cacheVars, RowsInv, EpochInv, AnswerInv
<1>14. QED
  BY <1>1, <1>2, <1>3, <1>4, <1>5, <1>6, <1>7, <1>8, <1>9, <1>10, <1>11, <1>12, <1>13 DEF CacheNext, ReadStep

-----------------------------------------------------------------------------
(* The state of the cache is always well formed.                           *)
THEOREM TypeCorrect == CacheSpec => []TypeOK
<1>1. CacheInit => TypeOK
  BY InitInv DEF IInv
<1>2. TypeOK /\ [CacheNext]_cacheVars => TypeOK'
  BY TypeStep
<1>3. QED
  BY <1>1, <1>2, PTL DEF CacheSpec

THEOREM Inductive == CacheSpec => []IInv
<1>1. CacheInit => IInv
  BY InitInv
<1>2. IInv /\ [CacheNext]_cacheVars => IInv'
  BY InvStep
<1>3. QED
  BY <1>1, <1>2, PTL DEF CacheSpec

(* A read that starts after an invalidation completed (or after an         *)
(* uninvalidated create) answers with that write or a later one, however   *)
(* many reads, writes, expiries and lost bumps interleave with it.         *)
THEOREM Freshness == CacheSpec => []Fresh
<1>1. IInv => Fresh
  BY DEF IInv, AnswerInv, Fresh, TypeOK, ReadState, Row
<1>2. QED
  BY <1>1, Inductive, PTL

-----------------------------------------------------------------------------
(* The refinement mapping, by name.                                        *)
Current == [k \in Keys |-> db[k].ver]
Reading == [p \in Readers |->
              [phase |-> CASE rd[p].pc = "idle" -> "idle"
                           [] rd[p].pc = "done" -> "answered"
                           [] OTHER -> "asked",
               key |-> rd[p].key,
               may |-> IF rd[p].pc \in {"idle", "done"} THEN {}
                       ELSE rd[p].floor..db[rd[p].key].ver,
               answer |-> IF rd[p].pc = "done" THEN rd[p].row.ver ELSE 0]]

LEMMA SameKey == Promise!AnyKey = AnyKey
BY Zenon DEF Promise!AnyKey, AnyKey

LEMMA PromiseInit == CacheInit => Promise!Init
<1> SUFFICES ASSUME CacheInit PROVE Promise!Init
  OBVIOUS
<1>1. \A p \in Readers : rd[p] = NoRead
  BY DEF CacheInit
<1>2. Reading = [p \in Readers |-> Promise!Idle]
  <2>1. ASSUME NEW p \in Readers PROVE Reading[p] = Promise!Idle
    <3>1. rd[p].pc = "idle" /\ rd[p].key = AnyKey
      BY <1>1 DEF NoRead
    <3>2. Reading[p] = [phase |-> "idle", key |-> rd[p].key, may |-> {}, answer |-> 0]
      BY <3>1 DEF Reading
    <3>3. QED BY <3>1, <3>2, SameKey DEF Promise!Idle
  <2>2. QED BY <2>1 DEF Reading
<1>3. Current \in [Keys -> Nat] /\ floor = Current
  BY DEF CacheInit, NoRow, FirstRow, Current
<1>4. QED
  BY <1>2, <1>3 DEF Current, Reading, Promise!Init

(* What a call may answer stays in one piece when its key is written once  *)
(* more or a write is published.                                           *)
LEMMA VisibleGrows ==
  ASSUME NEW f \in Nat, NEW c \in Nat, NEW d \in Nat, NEW g \in Nat,
         c <= d, d <= c + 1, f <= g, g <= d, f <= c
  PROVE  f..d = (f..c) \cup (g..d)
OBVIOUS

(* A step of the table that leaves the reads alone, writes a key at most   *)
(* once and publishes no more than it commits is a step of the abstract    *)
(* store.                                                                  *)
LEMMA TableStep ==
  ASSUME IInv, IInv', rd' = rd,
         \A k \in Keys : /\ db[k].ver <= db'[k].ver
                         /\ db'[k].ver <= db[k].ver + 1
                         /\ floor[k] <= floor'[k]
  PROVE  Promise!Commit
<1>0. TypeOK /\ TypeOK' /\ RowsInv /\ RowsInv'
  BY DEF IInv
<1>1. /\ Current' \in [Keys -> Nat]
      /\ \A k \in Keys : Current'[k] \in Current[k]..(Current[k] + 1)
  BY <1>0 DEF Current, TypeOK, Row
<1>2. floor' \in [Keys -> Nat]
      /\ \A k \in Keys : floor'[k] \in floor[k]..Current'[k]
  BY <1>0 DEF Current, TypeOK, RowsInv, Row
<1>3. ASSUME NEW p \in Readers
      PROVE  Reading'[p] =
               IF Reading[p].phase = "asked"
                 THEN [Reading[p] EXCEPT !.may =
                         @ \cup floor'[Reading[p].key]..Current'[Reading[p].key]]
                 ELSE Reading[p]
  <2> DEFINE k == rd[p].key
  <2>1. k \in Keys /\ rd[p].floor \in Nat
    BY <1>0 DEF TypeOK, ReadState
  <2>2. CASE rd[p].pc \in {"idle", "done"}
    BY <2>2 DEF Reading
  <2>3. CASE rd[p].pc \notin {"idle", "done"}
    <3>1. rd[p].floor <= floor[k] /\ floor[k] <= db[k].ver
      BY <1>0, <2>1, <2>3 DEF RowsInv, Active
    <3>2. /\ db[k].ver \in Nat /\ db'[k].ver \in Nat
          /\ floor[k] \in Nat /\ floor'[k] \in Nat
          /\ floor'[k] <= db'[k].ver
          /\ db[k].ver <= db'[k].ver /\ db'[k].ver <= db[k].ver + 1
          /\ floor[k] <= floor'[k]
      BY <1>0, <2>1 DEF TypeOK, Row, RowsInv
    <3>. HIDE DEF k
    <3>3. rd[p].floor..db'[k].ver =
            (rd[p].floor..db[k].ver) \cup (floor'[k]..db'[k].ver)
      <4>1. rd[p].floor <= db[k].ver
        BY <2>1, <3>1, <3>2
      <4>2. QED
        BY ONLY <2>1, <3>1, <3>2, <4>1, VisibleGrows
    <3>. USE DEF k
    <3>4. /\ Reading[p].phase = "asked" /\ Reading[p].key = k
          /\ Reading[p].may = rd[p].floor..db[k].ver
      BY <2>3 DEF Reading
    <3>5. Reading'[p] = [Reading[p] EXCEPT !.may = rd[p].floor..db'[k].ver]
      BY <2>3 DEF Reading
    <3>6. Current'[k] = db'[k].ver
      BY <2>1 DEF Current
    <3>7. QED
      BY <3>3, <3>4, <3>5, <3>6
  <2>4. QED
    BY <2>2, <2>3
<1>4. Reading' = [p \in Readers |->
                   IF Reading[p].phase = "asked"
                     THEN [Reading[p] EXCEPT !.may =
                             @ \cup floor'[Reading[p].key]..Current'[Reading[p].key]]
                     ELSE Reading[p]]
  BY <1>3 DEF Reading
<1>5. QED
  BY <1>1, <1>2, <1>4 DEF Current, Reading, Promise!Commit

LEMMA PromiseStep ==
  IInv /\ IInv' /\ [CacheNext]_cacheVars => [Promise!Next]_(Promise!vars)
<1> SUFFICES ASSUME IInv, IInv', [CacheNext]_cacheVars
             PROVE  Promise!Next \/ UNCHANGED Promise!vars
  OBVIOUS
<1>0. TypeOK /\ TypeOK' /\ RowsInv /\ EpochInv /\ AnswerInv'
  BY DEF IInv
<1>1. ASSUME NEW p \in Readers, NEW k \in Keys, BuildKey(p, k)
      PROVE  Promise!Ask(p, k)
  <2>1. Reading' = [Reading EXCEPT ![p] =
                      [phase |-> "asked", key |-> k,
                       may |-> floor[k]..Current[k], answer |-> 0]]
    BY <1>0, <1>1 DEF BuildKey, Reading, Current, TypeOK
  <2>2. Reading[p].phase = "idle"
    BY <1>1 DEF BuildKey, Reading
  <2>3. QED
    BY <1>1, <2>1, <2>2
       DEF BuildKey, Current, Reading, Promise!Ask, Promise!Visible
<1>2. ASSUME NEW p \in Readers, rd[p].pc \in {"lookup", "fill"},
             rd'[p].pc = "done", rd'[p].key = rd[p].key,
             rd'[p].floor = rd[p].floor,
             \A q \in Readers : q # p => rd'[q] = rd[q],
             UNCHANGED <<db, floor>>
      PROVE  Promise!Answer(p)
  <2> DEFINE n == rd'[p].row.ver
  <2>1. n \in rd[p].floor..Current[rd[p].key]
    BY <1>0, <1>2 DEF AnswerInv, TypeOK, ReadState, Row, Current
  <2>2. Reading' = [Reading EXCEPT ![p] =
                      [phase |-> "answered", key |-> @.key, may |-> {},
                       answer |-> n]]
    BY <1>0, <1>2 DEF Reading, TypeOK
  <2>3. Reading[p].phase = "asked"
        /\ Reading[p].may = rd[p].floor..Current[rd[p].key]
    BY <1>0, <1>2 DEF Reading, Current, TypeOK, ReadState
  <2>4. QED
    BY <1>2, <2>1, <2>2, <2>3 DEF Current, Reading, Promise!Answer
<1>3. ASSUME NEW p \in Readers, CacheHit(p) PROVE Promise!Answer(p)
  BY <1>0, <1>2, <1>3 DEF CacheHit, TypeOK, ReadState
<1>4. ASSUME NEW p \in Readers, FillCache(p) PROVE Promise!Answer(p)
  BY <1>0, <1>2, <1>4 DEF FillCache, TypeOK, ReadState
<1>5. ASSUME NEW p \in Readers, CacheMiss(p) \/ LoadRow(p)
      PROVE  UNCHANGED Promise!vars
  <2>1. Reading' = Reading
    <3>1. ASSUME NEW q \in Readers
          PROVE  /\ rd'[q].key = rd[q].key /\ rd'[q].floor = rd[q].floor
                 /\ rd'[q].pc = rd[q].pc
                    \/ {rd'[q].pc, rd[q].pc} \subseteq {"lookup", "load", "fill"}
                 /\ rd'[q].pc = "done" => rd'[q].row = rd[q].row
      BY <1>0, <1>5 DEF CacheMiss, LoadRow, TypeOK, ReadState
    <3>2. ASSUME NEW q \in Readers PROVE Reading'[q] = Reading[q]
      BY <1>5, <3>1 DEF CacheMiss, LoadRow, Reading
    <3>3. QED
      BY <3>2 DEF Reading
  <2>2. QED
    BY <1>5, <2>1 DEF CacheMiss, LoadRow, Reading, Promise!vars
<1>6. ASSUME NEW p \in Readers, EndRead(p) PROVE Promise!End(p)
  <2>1. Reading' = [Reading EXCEPT ![p] = Promise!Idle]
    <3>1. rd' = [rd EXCEPT ![p] = NoRead] /\ db' = db
      BY <1>6 DEF EndRead
    <3>2. Reading'[p] = Promise!Idle
      BY <1>0, <3>1, SameKey DEF NoRead, Reading, Promise!Idle, TypeOK
    <3>3. \A q \in Readers \ {p} : Reading'[q] = Reading[q]
      BY <1>0, <3>1 DEF Reading, TypeOK
    <3>4. QED BY <3>2, <3>3 DEF Reading
  <2>2. Reading[p].phase # "idle"
    BY <1>0, <1>6 DEF EndRead, Reading, TypeOK, ReadState
  <2>3. QED
    BY <1>6, <2>1, <2>2 DEF EndRead, Reading, Promise!End
<1>7. ASSUME NEW w \in Writers, NEW K \in SUBSET Keys, NEW h \in BOOLEAN,
             Write(w, K, h)
      PROVE  Promise!Commit
  <2>1. \A k \in Keys : /\ db[k].ver <= db'[k].ver
                       /\ db'[k].ver <= db[k].ver + 1
                       /\ floor[k] <= floor'[k]
    BY <1>0, <1>7 DEF Write, TypeOK, Row
  <2>2. QED
    BY <1>7, <2>1, TableStep DEF Write
<1>8. ASSUME NEW w \in Writers, Bump(w) PROVE Promise!Commit
  <2>1. \A k \in Keys : /\ db[k].ver <= db'[k].ver
                       /\ db'[k].ver <= db[k].ver + 1
                       /\ floor[k] <= floor'[k]
    BY <1>0, <1>8 DEF Bump, TypeOK, Row, RowsInv
  <2>2. QED
    BY <1>8, <2>1, TableStep DEF Bump
<1>9. ASSUME NEW k \in Keys, CreateRow(k) \/ PurgeRow(k) PROVE Promise!Commit
  <2>1. \A j \in Keys : /\ db[j].ver <= db'[j].ver
                       /\ db'[j].ver <= db[j].ver + 1
                       /\ floor[j] <= floor'[j]
    BY <1>0, <1>9 DEF CreateRow, PurgeRow, NoRow, FirstRow, TypeOK, Row, RowsInv
  <2>2. QED
    BY <1>9, <2>1, TableStep DEF CreateRow, PurgeRow
<1>10. ASSUME UNCHANGED <<db, floor, rd>> PROVE UNCHANGED Promise!vars
  BY <1>10 DEF Promise!vars
<1>11. ASSUME NEW w \in Writers, LoseBump(w) PROVE UNCHANGED Promise!vars
  BY <1>10, <1>11 DEF LoseBump
<1>12. ASSUME NEW e \in store, Expire(e) PROVE UNCHANGED Promise!vars
  BY <1>10, <1>12 DEF Expire
<1>13. ASSUME UNCHANGED cacheVars PROVE UNCHANGED Promise!vars
  BY <1>10, <1>13 DEF cacheVars
<1>14. QED
  BY <1>1, <1>3, <1>4, <1>5, <1>6, <1>7, <1>8, <1>9, <1>11, <1>12, <1>13
     DEF CacheNext, ReadStep, Promise!Next

(* The cache implements the cacheless store of FreshStore: to its callers  *)
(* a cached read of several steps is one read of the table, at a moment    *)
(* between its start and its answer, up to the writes not yet invalidated. *)
THEOREM Refinement == CacheSpec => KeepsPromise
<1>1. CacheInit => Promise!Init
  BY PromiseInit
<1>2. IInv /\ IInv' /\ [CacheNext]_cacheVars => [Promise!Next]_(Promise!vars)
  BY PromiseStep
<1>3. QED
  BY <1>1, <1>2, Inductive, PTL DEF CacheSpec, KeepsPromise, Promise!Spec
=============================================================================
