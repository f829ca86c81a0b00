--------------------------- MODULE VersionedCache ---------------------------
(***************************************************************************)
(* One namespace of the read-through cache behind the repositories.        *)
(*                                                                         *)
(* A cached read (@Cacheable) reads the namespace's version, looks the key *)
(* up under that version and, when it finds nothing, reads the database    *)
(* and stores what it read under the version it started with.  A write     *)
(* (@InvalidateCache) changes the database first and bumps the version     *)
(* afterwards.  Each call to Postgres or Redis is one step, so reads and   *)
(* writes interleave between any two of them.                              *)
(*                                                                         *)
(* A row is reduced to how often its key was written and whether it is     *)
(* there; a lookup that finds no row yields null in the code.              *)
(***************************************************************************)
EXTENDS Naturals

CONSTANTS Keys,     \* keys of the namespace (session ids, user ids, ...)
          Readers,  \* calls of a cached repository method
          Writers,  \* calls of an invalidating repository method
          MaxRow,   \* bound: how often one key is written
          MaxNsver  \* bound: no write starts at this namespace version

ASSUME KeysAssumption == Keys # {}
ASSUME BoundsAssumption == MaxRow \in Nat /\ MaxNsver \in Nat

VARIABLES db,     \* [Keys -> Row], the table
          nsver,  \* the namespace version kept in Redis
          store,  \* the entries kept in Redis
          rd,     \* [Readers -> the local state of a read]
          wr,     \* [Writers -> the local state of a write]
          floor   \* history: [Keys -> newest write a new read must reflect]

cacheVars == <<db, nsver, store, rd, wr, floor>>

Row == [ver : Nat, here : BOOLEAN]
NoRow == [ver |-> 0, here |-> FALSE]
FirstRow == [ver |-> 1, here |-> TRUE]

Entry == [nv : Nat, key : Keys, row : Row]

(* pc of a read: "lookup" has the version, "load" missed, "fill" has the   *)
(* row and must still store it, "done" has answered.                       *)
ReadState == [pc : {"idle", "lookup", "load", "fill", "done"},
              key : Keys, nv : Nat, row : Row, floor : Nat]

(* The key of a read that has not begun, or is over, means nothing.        *)
AnyKey == CHOOSE k \in Keys : TRUE
NoRead == [pc |-> "idle", key |-> AnyKey, nv |-> 0, row |-> NoRow, floor |-> 0]

TypeOK ==
  /\ db \in [Keys -> Row]
  /\ nsver \in Nat
  /\ store \subseteq Entry
  /\ rd \in [Readers -> ReadState]
  /\ wr \in [Writers -> {"idle", "written"}]
  /\ floor \in [Keys -> Nat]

-----------------------------------------------------------------------------
(* Some rows exist already; the cache is empty and the namespace version   *)
(* is 1 until the first bump (getNamespaceVersion).                        *)
CacheInit ==
  /\ db \in [Keys -> {NoRow, FirstRow}]
  /\ nsver = 1
  /\ store = {}
  /\ rd = [p \in Readers |-> NoRead]
  /\ wr = [w \in Writers |-> "idle"]
  /\ floor = [k \in Keys |-> db[k].ver]

(* Entries a lookup of key k under version v returns: wrap takes a stored  *)
(* null for a miss.                                                        *)
Hits(v, k) == {e \in store : e.nv = v /\ e.key = k /\ e.row.here}

-----------------------------------------------------------------------------
(* Faulty variant: a key that carries no version.  (The faulty variants    *)
(* are what the runs are measured with: each property must refute one.)    *)
BuildKeyUnversioned(p, k) ==
  /\ rd[p].pc = "idle"
  /\ rd' = [rd EXCEPT ![p] = [pc |-> "lookup", key |-> k, row |-> NoRow,
                              floor |-> floor[k]]]
  /\ UNCHANGED <<db, nsver, store, wr, floor>>

(* buildKey: the version is read before anything else, once per read.      *)
BuildKey(p, k) ==
  /\ rd[p].pc = "idle"
  /\ rd' = [rd EXCEPT ![p] = [pc |-> "lookup", key |-> k, nv |-> nsver,
                              row |-> NoRow, floor |-> floor[k]]]
  /\ UNCHANGED <<db, nsver, store, wr, floor>>

CacheHit(p) ==
  /\ rd[p].pc = "lookup"
  /\ \E e \in Hits(rd[p].nv, rd[p].key) :
       rd' = [rd EXCEPT ![p].pc = "done", ![p].row = e.row]
  /\ UNCHANGED <<db, nsver, store, wr, floor>>

CacheMiss(p) ==
  /\ rd[p].pc = "lookup"
  /\ Hits(rd[p].nv, rd[p].key) = {}
  /\ rd' = [rd EXCEPT ![p].pc = "load"]
  /\ UNCHANGED <<db, nsver, store, wr, floor>>

LoadRow(p) ==
  /\ rd[p].pc = "load"
  /\ rd' = [rd EXCEPT ![p].pc = "fill", ![p].row = db[rd[p].key]]
  /\ UNCHANGED <<db, nsver, store, wr, floor>>

(* Faulty variant: the key of the stored entry is built after the load.    *)
FillCacheAtCurrentVersion(p) ==
  /\ rd[p].pc = "fill"
  /\ store' = {e \in store : e.nv # nsver \/ e.key # rd[p].key}
              \cup {[nv |-> nsver, key |-> rd[p].key, row |-> rd[p].row]}
  /\ rd' = [rd EXCEPT ![p].pc = "done"]
  /\ UNCHANGED <<db, nsver, wr, floor>>

(* set overwrites whatever the key held, and stores a null as well.        *)
FillCache(p) ==
  LET old == {e \in store : e.nv = rd[p].nv /\ e.key = rd[p].key}
      new == [nv |-> rd[p].nv, key |-> rd[p].key, row |-> rd[p].row]
  IN  /\ rd[p].pc = "fill"
      /\ store' = (store \ old) \cup {new}
      /\ rd' = [rd EXCEPT ![p].pc = "done"]
      /\ UNCHANGED <<db, nsver, wr, floor>>

(* The caller consumes the answer, or the call fails: Redis or Postgres    *)
(* refuses it, or the process stops.                                       *)
EndRead(p) ==
  /\ rd[p].pc # "idle"
  /\ rd' = [rd EXCEPT ![p] = NoRead]
  /\ UNCHANGED <<db, nsver, store, wr, floor>>

-----------------------------------------------------------------------------
(* The database write of an invalidating method: an update, an updateMany, *)
(* a create or a delete.  A write to a row that is not there can only      *)
(* create it (Prisma raises P2025 for the others and changes nothing); an  *)
(* updateMany may match no row at all.                                     *)
Write(w, K, h) ==
  /\ wr[w] = "idle"
  /\ nsver < MaxNsver
  /\ \A k \in K : db[k].ver < MaxRow /\ (db[k].here \/ h)
  /\ db' = [k \in Keys |->
              IF k \in K THEN [ver |-> db[k].ver + 1, here |-> h] ELSE db[k]]
  /\ wr' = [wr EXCEPT ![w] = "written"]
  /\ UNCHANGED <<nsver, store, rd, floor>>

(* bumpNamespace: one MULTI, so atomic.  Every read that builds its key    *)
(* from now on must reflect what the table holds now.                      *)
Bump(w) ==
  /\ wr[w] = "written"
  /\ nsver' = nsver + 1
  /\ floor' = [k \in Keys |-> db[k].ver]
  /\ wr' = [wr EXCEPT ![w] = "idle"]
  /\ UNCHANGED <<db, store, rd>>

(* The process stops, or Redis refuses the bump, after the database write. *)
LoseBump(w) ==
  /\ wr[w] = "written"
  /\ wr' = [wr EXCEPT ![w] = "idle"]
  /\ UNCHANGED <<db, nsver, store, rd, floor>>

(* A create without invalidation, of a key that never existed (the session *)
(* ids are fresh): a read that starts afterwards must already see it.      *)
CreateRow(k) ==
  /\ db[k] = NoRow
  /\ MaxRow > 0
  /\ db' = [db EXCEPT ![k] = FirstRow]
  /\ floor' = [floor EXCEPT ![k] = 1]
  /\ UNCHANGED <<nsver, store, rd, wr>>

(* A delete without invalidation (the clean-up of expired rows).           *)
PurgeRow(k) ==
  /\ db[k].here
  /\ db[k].ver < MaxRow
  /\ db' = [db EXCEPT ![k] = [ver |-> db[k].ver + 1, here |-> FALSE]]
  /\ UNCHANGED <<nsver, store, rd, wr, floor>>

(* Faulty variant: the entry is stored without a TTL.                      *)
ExpireNever(e) == e \in store /\ UNCHANGED cacheVars

(* Every entry has a TTL: Redis may drop it.                               *)
Expire(e) ==
  /\ e \in store
  /\ store' = store \ {e}
  /\ UNCHANGED <<db, nsver, rd, wr, floor>>

-----------------------------------------------------------------------------
ReadStep(p) == CacheHit(p) \/ CacheMiss(p) \/ LoadRow(p) \/ FillCache(p)

CacheNext ==
  \/ \E p \in Readers : ReadStep(p) \/ EndRead(p) \/ \E k \in Keys : BuildKey(p, k)
  \/ \E w \in Writers : Bump(w) \/ LoseBump(w)
  \/ \E w \in Writers, K \in SUBSET Keys, h \in BOOLEAN : Write(w, K, h)
  \/ \E k \in Keys : CreateRow(k) \/ PurgeRow(k)
  \/ \E e \in store : Expire(e)

CacheSpec == CacheInit /\ [][CacheNext]_cacheVars

(* A read that started is carried on by the event loop, and Redis drops an *)
(* entry whose TTL ran out.  Nothing is promised of callers or writers: a  *)
(* bump may never come.                                                    *)
CacheFairness ==
  /\ \A p \in Readers : WF_cacheVars(ReadStep(p))
  /\ WF_cacheVars(\E e \in store : Expire(e))

FairCacheSpec == CacheSpec /\ CacheFairness

-----------------------------------------------------------------------------
(* A read returns a row at least as new as every invalidated write, and    *)
(* every created row, that preceded its start.  (wrap, buildKey, the order *)
(* of @InvalidateCache, and the rule that a cached null is a miss, which   *)
(* is what lets sessions.create skip the invalidation.)                    *)
Fresh == \A p \in Readers : rd[p].pc = "done" => rd[p].row.ver >= rd[p].floor

(* What the callers see of the cache: the table, the published writes and  *)
(* the calls.  The writes a call saw go from the newest published when it  *)
(* built its key to the last one committed.                                *)
Promise == INSTANCE FreshStore WITH
  current <- [k \in Keys |-> db[k].ver],
  published <- floor,
  reading <- [p \in Readers |->
                [phase |-> CASE rd[p].pc = "idle" -> "idle"
                             [] rd[p].pc = "done" -> "answered"
                             [] OTHER -> "asked",
                 key |-> rd[p].key,
                 may |-> IF rd[p].pc \in {"idle", "done"} THEN {}
                         ELSE rd[p].floor..db[rd[p].key].ver,
                 answer |-> IF rd[p].pc = "done" THEN rd[p].row.ver ELSE 0]]

(* The cache keeps the promise: every behaviour of the cache, the table    *)
(* and the calls is one of the cacheless store that publishes a write when *)
(* its bump (or its create) completes.  A cached call, which takes up to   *)
(* four steps between which writes and bumps interleave, answers as one    *)
(* read at some moment between its start and its end.                      *)
KeepsPromise == Promise!Spec

Stale(k) == \E e \in Hits(nsver, k) : e.row # db[k]

(* Even when the bump is lost, a key that is no longer written ends up     *)
(* with no outdated entry under the current version: the TTL bounds how    *)
(* long the cache may lie.                                                 *)
TtlHeals == \A k \in Keys, n \in 0..MaxRow :
              <>[](db[k].ver = n) => <>[]~Stale(k)
=============================================================================
