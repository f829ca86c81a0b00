------------------------------ MODULE Rbac_proofs ------------------------------
(***************************************************************************)
(* Theorems about Rbac: the guards after a withdrawal, the lists of the    *)
(* roles, and the super admin after a seed, for any number of requests,    *)
(* roles and permissions.                                                  *)
(***************************************************************************)
EXTENDS Rbac, TLAPS

Of(G, x) == {y \in G : y.role = x}
Now == Rated(member, granted, flag)
Seen == UNION (visible \cup lights)
FlagKinds == {"setFlag", "clearFlag"}
Scope(k) == IF k \in FlagKinds THEN {Feature} ELSE Keys

TablesOK ==
  /\ keys \subseteq Keys /\ dropped \subseteq Custom \ keys /\ roles \subseteq Roles
  /\ granted \subseteq RolePermission
  /\ \A x, y \in granted : x.role = y.role /\ x.key = y.key => x = y
  /\ \A x \in granted : x.role \in roles /\ x.key \in keys
  /\ latest \in [Roles -> [list : SUBSET Keys, by : 0..WriteBound]]
  /\ writes \in 0..WriteBound
  /\ member \in roles \cup {Null} /\ flag \in BOOLEAN \cup {Null}
  /\ lost \in BOOLEAN /\ mixed \subseteq Roles

(* Rows and lists are of writes there were.                                *)
RowsInv ==
  /\ \A y \in granted : y.by <= writes
  /\ \A x \in Roles : latest[x].by <= writes

(* A cached read may return what is held now, and nothing that is          *)
(* withdrawn.                                                              *)
SeenInv ==
  /\ Held(member, granted) \in visible /\ Lit(flag) \in lights
  /\ withdrawn \cap Seen = {}

(* What a request took away is not held, and once its namespace has a new  *)
(* version it is not in the cache.                                         *)
TookInv(r) ==
  /\ call[r].pc = "bump" =>
       /\ call[r].kind # "deletePermission"
       /\ call[r].took \cap Now = {}
       /\ call[r].took \subseteq Scope(call[r].kind)
  /\ call[r].pc = "mark" => call[r].kind = "accept"
  /\ call[r].pc \in {"mark", "reply"} /\ call[r].kind # "deletePermission" =>
       call[r].took \cap Seen = {}

(* What a request is given.                                                *)
ArgsInv(r) ==
  /\ call[r].kind \in {"createRole", "updateRole", "assign", "deleteRole", "invite", "setRole"} =>
       call[r].role \in Roles
  /\ call[r].kind \in {"createRole", "updateRole", "assign"} => call[r].list \subseteq Keys
  /\ call[r].kind \in {"createPermission", "deletePermission"} => call[r].list \subseteq Custom
  /\ call[r].pc = "insert" => call[r].kind \in {"updateRole", "assign"}

(* Between its two statements a replacement deletes every row of the role, *)
(* unless somebody else wrote the list meanwhile.                          *)
ReplaceInv(r) ==
  call[r].pc = "insert" =>
    /\ call[r].base <= writes
    /\ \A y \in call[r].seen : y.role = call[r].role
    /\ latest[call[r].role].by = call[r].base => Of(granted, call[r].role) \subseteq call[r].seen

(* An assignment that has read the role writes what it had then.           *)
AssignInv(r) ==
  /\ \A y \in call[r].early : y.by <= writes
  /\ call[r].kind = "assign" /\ call[r].pc \in {"write", "insert"} =>
       Held(call[r].role, call[r].early \cap granted) \subseteq call[r].list

CallInv(r) == ArgsInv(r) /\ TookInv(r) /\ ReplaceInv(r) /\ AssignInv(r)

(* How old a cached entry can be that is not what the seed wrote.          *)
AdminInv ==
  /\ seed # "idle" => whole = Null
  /\ whole # Null => admin = Global /\ whole <= clock
  /\ \A e \in {inner, outer} : e # Null => e.at <= clock
  /\ whole # Null /\ inner # Null /\ inner.at > whole => inner.keys = Global
  /\ whole # Null /\ outer # Null /\ outer.at >= whole + Ttl => outer.keys = Global

RbacInv ==
  /\ RbacTypeOK /\ RowsInv /\ SeenInv /\ AdminInv
  /\ \A r \in Requests : CallInv(r)
  /\ WithdrawnStays /\ RoleIsItsList /\ AssignKeeps

-----------------------------------------------------------------------------
LEMMA HeldTypes ==
  ASSUME NEW m, NEW G \in SUBSET RolePermission, NEW f
  PROVE  Held(m, G) \subseteq Keys /\ Lit(f) \subseteq {Feature} /\ Rated(m, G, f) \subseteq Rights
BY DEF Held, Lit, Rated, RolePermission, Rights

LEMMA RbacInit == Init => RbacInv
<1> SUFFICES ASSUME Init PROVE RbacInv
  OBVIOUS
<1> USE RbacAssumption
<1>0. PICK L \in SUBSET keys : granted = [role : roles, key : L, by : {0}]
  BY DEF Init
<1>1. /\ offered \in Offers /\ keys \subseteq Keys /\ dropped = {} /\ roles \subseteq Roles
      /\ latest = [x \in Roles |-> [list |-> Held(x, granted), by |-> 0]]
      /\ writes = 0 /\ member \in roles \cup {Null} /\ invited = Null /\ flag = Null
      /\ visible = {Held(member, granted)} /\ lights = {{}}
      /\ call = [r \in Requests |-> NoCall]
      /\ withdrawn = {} /\ slipped = FALSE /\ lost = FALSE /\ mixed = {}
      /\ admin = keys \cap Global /\ seed = "idle" /\ whole = Null
      /\ inner = Null /\ outer = Null /\ clock = 0
  BY DEF Init, Keys
<1>2. granted \subseteq RolePermission /\ \A y \in granted : y.role \in roles /\ y.key \in keys /\ y.by = 0
  BY <1>0, <1>1 DEF RolePermission
<1>3. \A x, y \in granted : x.role = y.role /\ x.key = y.key => x = y
  BY <1>0
<1>4. \A x : Held(x, granted) \subseteq Keys
  BY <1>2, HeldTypes
<1>5. latest \in [Roles -> [list : SUBSET Keys, by : 0..WriteBound]]
  BY <1>1, <1>4
<1>6. /\ visible \subseteq SUBSET Keys /\ lights \subseteq SUBSET {Feature} /\ Lit(flag) = {}
      /\ Held(member, granted) \in visible
  BY <1>1, <1>4 DEF Lit
<1>7. call \in [Requests -> Call] /\ \A r \in Requests : call[r] = NoCall
  BY <1>1 DEF Call, NoCall, Kinds
<1>8. RbacTypeOK
  <2>1. /\ whole \in 0..ClockBound \cup {Null} /\ {inner, outer} \subseteq Entry \cup {Null}
        /\ clock \in 0..ClockBound /\ writes \in 0..WriteBound /\ admin \subseteq Global
    BY <1>1
  <2>2. /\ withdrawn \subseteq Rights /\ slipped \in BOOLEAN /\ lost \in BOOLEAN /\ mixed \subseteq Roles
        /\ seed \in {"idle", "permissions", "empty", "fill"} /\ dropped \subseteq Custom \ keys
        /\ invited \in Roles \cup {Null} /\ flag \in BOOLEAN \cup {Null}
    BY <1>1
  <2>3. QED BY <1>1, <1>2, <1>3, <1>5, <1>6, <1>7, <2>1, <2>2 DEF RbacTypeOK
<1>9. RowsInv /\ SeenInv /\ AdminInv
  BY <1>1, <1>2, <1>6 DEF RowsInv, SeenInv, AdminInv
<1>10. ASSUME NEW r \in Requests PROVE CallInv(r)
  <2>1. ArgsInv(r) /\ TookInv(r) /\ ReplaceInv(r)
    BY <1>7 DEF ArgsInv, TookInv, ReplaceInv, NoCall, Kinds
  <2>2. AssignInv(r)
    BY <1>7 DEF AssignInv, NoCall, Kinds
  <2>3. QED BY <2>1, <2>2 DEF CallInv
<1>11. WithdrawnStays /\ AssignKeeps /\ RoleIsItsList
  BY <1>1 DEF WithdrawnStays, AssignKeeps, RoleIsItsList
<1>12. QED BY <1>8, <1>9, <1>10, <1>11 DEF RbacInv

-----------------------------------------------------------------------------
(* A step that keeps the tables, the caches and the super admin.           *)
LEMMA LocalStep ==
  ASSUME RbacInv, NEW r \in Requests, NEW c \in Call,
         UNCHANGED <<offered, access, super>>, invited' \in Roles \cup {Null},
         call' = [call EXCEPT ![r] = c], CallInv(r)'
  PROVE  RbacInv'
<1> USE DEF access, super
<1>1. call' \in [Requests -> Call] /\ \A q \in Requests \ {r} : call'[q] = call[q]
  BY DEF RbacInv, RbacTypeOK
<1>2. RbacTypeOK'
  BY <1>1 DEF RbacInv, RbacTypeOK
<1>3. RowsInv' /\ SeenInv' /\ AdminInv' /\ WithdrawnStays' /\ RoleIsItsList' /\ AssignKeeps'
  BY DEF RbacInv, RowsInv, SeenInv, Seen, AdminInv, WithdrawnStays, RoleIsItsList, AssignKeeps
<1>4. ASSUME NEW q \in Requests \ {r} PROVE CallInv(q)'
  <2>1. CallInv(q) /\ call'[q] = call[q]
    BY <1>1 DEF RbacInv
  <2>2. ArgsInv(q)' /\ TookInv(q)'
    BY <2>1 DEF CallInv, ArgsInv, TookInv, Seen, Now
  <2>3. ReplaceInv(q)' /\ AssignInv(q)'
    BY <2>1 DEF CallInv, ReplaceInv, AssignInv
  <2>4. QED BY <2>2, <2>3 DEF CallInv
<1>5. QED BY <1>2, <1>3, <1>4 DEF RbacInv

(* So does a request that only moves on, to nothing or to an earlier place *)
(* than its write.                                                         *)
LEMMA AdvanceStep ==
  ASSUME RbacInv, NEW r \in Requests, NEW l \in {"idle", "check", "write"}, Advance(r, l),
         UNCHANGED <<offered, access, super>>, invited' \in Roles \cup {Null},
         l = "write" => call[r].kind # "assign"
  PROVE  RbacInv'
<1> DEFINE c == IF l = "idle" THEN NoCall ELSE [call[r] EXCEPT !.pc = l]
<1>1. call[r] \in Call /\ call \in [Requests -> Call] /\ CallInv(r)
  BY DEF RbacInv, RbacTypeOK
<1>2. c \in Call
  BY <1>1, RbacAssumption DEF Call, NoCall
<1>3. call' = [call EXCEPT ![r] = c] /\ call'[r] = c
  BY <1>1 DEF Advance
<1>4. CallInv(r)'
  <2>1. CASE l = "idle"
    <3>1. call'[r] = NoCall
      BY <1>3, <2>1
    <3>2. ArgsInv(r)' /\ TookInv(r)' /\ ReplaceInv(r)'
      BY <3>1, RbacAssumption DEF ArgsInv, TookInv, ReplaceInv, NoCall, Kinds
    <3>3. AssignInv(r)'
      BY <3>1 DEF AssignInv, NoCall
    <3>4. QED BY <3>2, <3>3 DEF CallInv
  <2>2. CASE l # "idle"
    <3>1. /\ call'[r].pc = l /\ call'[r].kind = call[r].kind /\ call'[r].role = call[r].role
          /\ call'[r].list = call[r].list /\ call'[r].early = call[r].early
      BY <1>1, <1>3, <2>2 DEF Call
    <3>2. ArgsInv(r)' /\ TookInv(r)' /\ ReplaceInv(r)'
      BY <1>1, <2>2, <3>1 DEF CallInv, ArgsInv, TookInv, ReplaceInv
    <3>3. AssignInv(r)'
      BY <1>1, <2>2, <3>1 DEF CallInv, AssignInv, access
    <3>4. QED BY <3>2, <3>3 DEF CallInv
  <2>3. QED BY <2>1, <2>2
<1>5. QED BY <1>2, <1>3, <1>4, LocalStep

(* A request arrives.                                                      *)
LEMMA StartStep ==
  ASSUME RbacInv, NEW r \in Requests, NEW k \in Kinds, NEW x \in Roles \cup {Null},
         NEW L \in SUBSET Rights, Start(r, k, x, L),
         k \in {"createRole", "updateRole", "assign", "deleteRole", "invite", "setRole"} => x \in Roles,
         k \in {"createRole", "updateRole", "assign"} => L \subseteq Keys,
         k \in {"createPermission", "deletePermission"} => L \subseteq Custom
  PROVE  RbacInv'
<1> DEFINE c == [NoCall EXCEPT !.pc = "begin", !.kind = k, !.role = x, !.list = L,
                               !.early = IF k = "assign" THEN granted ELSE {}]
<1>1. granted \subseteq RolePermission /\ call \in [Requests -> Call] /\ invited \in Roles \cup {Null}
  BY DEF RbacInv, RbacTypeOK
<1>2. NoCall \in Call
  BY RbacAssumption DEF NoCall, Call, Kinds
<1>3. /\ c \in Call /\ c.pc = "begin" /\ c.kind = k /\ c.role = x /\ c.list = L
      /\ c.early = IF k = "assign" THEN granted ELSE {}
  BY <1>1, <1>2 DEF Call
<1>4. call' = [call EXCEPT ![r] = c] /\ UNCHANGED <<offered, access, invited, super>>
  BY DEF Start
<1>5. call'[r] = c
  BY <1>1, <1>4
<1> HIDE DEF c
<1>6. ArgsInv(r)' /\ TookInv(r)' /\ ReplaceInv(r)'
  BY <1>3, <1>5 DEF ArgsInv, TookInv, ReplaceInv
<1>7. AssignInv(r)'
  BY <1>3, <1>4, <1>5 DEF AssignInv, RbacInv, RowsInv, access
<1>8. CallInv(r)'
  BY <1>6, <1>7 DEF CallInv
<1>9. QED BY <1>1, <1>3, <1>4, <1>8, LocalStep

LEMMA EndpointStep ==
  ASSUME RbacInv, NEW r \in Requests,
         \/ Create(r) \/ Update(r) \/ AddPermission(r) \/ Remove(r) \/ CreateKey(r)
         \/ RemoveKey(r) \/ Send(r) \/ Accept(r) \/ SetRole(r) \/ RemoveMember(r)
         \/ SetFlag(r) \/ ClearFlag(r)
  PROVE  RbacInv'
<1> USE DEF Kinds
<1>1. ASSUME Create(r) \/ Update(r) PROVE RbacInv'
  BY <1>1, StartStep DEF Create, Update, Rights
<1>2. ASSUME AddPermission(r) PROVE RbacInv'
  BY <1>2, StartStep DEF AddPermission, Rights
<1>3. ASSUME Remove(r) \/ Send(r) \/ SetRole(r) PROVE RbacInv'
  BY <1>3, StartStep DEF Remove, Send, SetRole
<1>4. ASSUME CreateKey(r) \/ RemoveKey(r) PROVE RbacInv'
  BY <1>4, StartStep DEF CreateKey, RemoveKey, Rights, Keys
<1>5. ASSUME Accept(r) PROVE RbacInv'
  <2>1. invited \in Roles \cup {Null}
    BY DEF RbacInv, RbacTypeOK
  <2>2. QED BY <1>5, <2>1, StartStep DEF Accept
<1>6. ASSUME RemoveMember(r) \/ ClearFlag(r) PROVE RbacInv'
  BY <1>6, StartStep DEF RemoveMember, ClearFlag
<1>7. ASSUME SetFlag(r) PROVE RbacInv'
  BY <1>7, StartStep DEF SetFlag, Rights
<1>8. QED BY <1>1, <1>2, <1>3, <1>4, <1>5, <1>6, <1>7

(* The look-ups and checks, the rows that write nothing the guards read,   *)
(* and the end of a request that fails.                                    *)
LEMMA LookUpStep ==
  ASSUME RbacInv, NEW r \in Requests,
         \/ FindByName(r) \/ CountMembersUsingRole(r) \/ FindByKeyInScope(r)
         \/ FindByIdInWorkspace(r) \/ CreateInvitation(r) \/ Fail(r)
  PROVE  RbacInv'
<1>1. invited \in Roles \cup {Null} /\ CallInv(r)
  BY DEF RbacInv, RbacTypeOK
<1>2. ASSUME FindByName(r) \/ CountMembersUsingRole(r) PROVE RbacInv'
  BY <1>1, <1>2, AdvanceStep DEF FindByName, CountMembersUsingRole, Is
<1>3. ASSUME FindByKeyInScope(r) \/ FindByIdInWorkspace(r) PROVE RbacInv'
  BY <1>1, <1>3, AdvanceStep DEF FindByKeyInScope, FindByIdInWorkspace, Is
<1>4. ASSUME CreateInvitation(r) PROVE RbacInv'
  <2>1. invited' \in Roles
    BY <1>1, <1>4 DEF CreateInvitation, Is, CallInv, ArgsInv
  <2>2. QED BY <1>4, <2>1, AdvanceStep DEF CreateInvitation, Is
<1>5. ASSUME Fail(r) PROVE RbacInv'
  BY <1>1, <1>5, AdvanceStep DEF Fail
<1>6. QED BY <1>2, <1>3, <1>4, <1>5, <1>1

(* The role is read; an assignment keeps its list from here.               *)
LEMMA FindRoleStep == ASSUME RbacInv, NEW r \in Requests, FindRole(r) PROVE RbacInv'
<1> DEFINE had == Held(call[r].role, granted)
<1>1. /\ invited \in Roles \cup {Null} /\ CallInv(r) /\ granted \subseteq RolePermission
      /\ call[r] \in Call /\ call \in [Requests -> Call]
  BY DEF RbacInv, RbacTypeOK
<1>2. /\ call[r].kind \in {"updateRole", "assign", "deleteRole", "setRole", "invite"}
      /\ call[r].pc = "begin" /\ UNCHANGED <<offered, access, invited, super>>
  BY DEF FindRole
<1>3. CASE call[r].kind = "assign" /\ call[r].list \subseteq had
  <2>1. Advance(r, "idle")
    BY <1>3 DEF FindRole
  <2>2. QED BY <1>1, <1>2, <2>1, AdvanceStep
<1>4. CASE call[r].kind = "assign" /\ ~(call[r].list \subseteq had)
  <2> DEFINE c == [call[r] EXCEPT !.pc = "write", !.list = @ \cup had]
  <2>1. call' = [call EXCEPT ![r] = c]
    BY <1>1, <1>4 DEF FindRole
  <2>2. had \subseteq Keys
    BY <1>1, HeldTypes
  <2>3. c \in Call
    BY <1>1, <2>2 DEF Call, Rights
  <2>4. /\ call'[r] = c /\ c.pc = "write" /\ c.kind = "assign" /\ c.role = call[r].role
        /\ c.list = call[r].list \cup had /\ c.early = call[r].early
    BY <1>1, <1>4, <2>1 DEF Call
  <2> HIDE DEF c
  <2>5. ArgsInv(r)' /\ TookInv(r)' /\ ReplaceInv(r)'
    BY <1>1, <1>4, <2>2, <2>4 DEF CallInv, ArgsInv, TookInv, ReplaceInv
  <2>6. AssignInv(r)'
    BY <1>1, <1>2, <2>4 DEF CallInv, AssignInv, access, Held
  <2>7. CallInv(r)'
    BY <2>5, <2>6 DEF CallInv
  <2>8. QED BY <1>1, <1>2, <2>1, <2>3, <2>7, LocalStep
<1>5. CASE call[r].kind # "assign"
  <2>1. Advance(r, "check") \/ Advance(r, "write")
    BY <1>2, <1>5 DEF FindRole
  <2>2. QED BY <1>1, <1>2, <1>5, <2>1, AdvanceStep
<1>6. QED BY <1>3, <1>4, <1>5

LEMMA ReplaceStep == ASSUME RbacInv, NEW r \in Requests, Replace(r) PROVE RbacInv'
<1> DEFINE c == [call[r] EXCEPT !.pc = "insert", !.base = latest[call[r].role].by,
                                !.seen = Of(granted, call[r].role)]
<1>1. /\ invited \in Roles \cup {Null} /\ CallInv(r) /\ granted \subseteq RolePermission
      /\ call[r] \in Call /\ call \in [Requests -> Call] /\ call[r].role \in Roles
      /\ latest[call[r].role].by \in 0..WriteBound /\ latest[call[r].role].by <= writes
  BY DEF RbacInv, RbacTypeOK, RowsInv, Replace
<1>2. /\ call[r].kind \in {"updateRole", "assign"} /\ call[r].pc = "write"
      /\ UNCHANGED <<offered, access, invited, super>>
  BY DEF Replace
<1>3. call' = [call EXCEPT ![r] = c]
  BY <1>1 DEF Replace, Of
<1>4. Of(granted, call[r].role) \in SUBSET RolePermission
  BY <1>1 DEF Of
<1>5. c \in Call
  BY <1>1, <1>4 DEF Call
<1>6. /\ call'[r] = c /\ c.pc = "insert" /\ c.kind = call[r].kind /\ c.role = call[r].role
      /\ c.list = call[r].list /\ c.early = call[r].early
      /\ c.base = latest[call[r].role].by /\ c.seen = Of(granted, call[r].role)
  BY <1>1, <1>3 DEF Call
<1> HIDE DEF c
<1>7. ArgsInv(r)' /\ TookInv(r)'
  BY <1>1, <1>2, <1>6 DEF CallInv, ArgsInv, TookInv
<1>8. ReplaceInv(r)'
  BY <1>1, <1>2, <1>6 DEF ReplaceInv, access, Of
<1>9. AssignInv(r)'
  BY <1>1, <1>2, <1>6 DEF CallInv, AssignInv, access
<1>10. CallInv(r)'
  BY <1>7, <1>8, <1>9 DEF CallInv
<1>11. QED BY <1>1, <1>2, <1>3, <1>5, <1>10, LocalStep

-----------------------------------------------------------------------------
(* What a change of the tables leaves of the caches and of what requests   *)
(* took away.                                                              *)
Changed(r, m, G, f, l) ==
  /\ member' = m /\ granted' = G /\ flag' = f
  /\ visible' = visible \cup {Held(m, G)} /\ lights' = lights \cup {Lit(f)}
  /\ withdrawn' = withdrawn \ Rated(m, G, f)
  /\ UNCHANGED <<offered, slipped, super>>
  /\ call' \in [Requests -> Call]
  /\ visible' \subseteq SUBSET Keys /\ lights' \subseteq SUBSET {Feature}
  /\ withdrawn' \subseteq Rights
  /\ SeenInv' /\ \A q \in Requests : TookInv(q)'
  /\ \A q \in Requests :
       /\ call'[q].kind = call[q].kind /\ call'[q].role = call[q].role
       /\ call'[q].list = call[q].list /\ call'[q].seen = call[q].seen
       /\ call'[q].base = call[q].base /\ call'[q].early = call[q].early
       /\ call'[q].pc = IF q = r THEN l ELSE call[q].pc

LEMMA ChangeStep ==
  ASSUME RbacInv, NEW r \in Requests, NEW m, NEW G \in SUBSET RolePermission, NEW f,
         NEW l \in {"bump", "reply"}, Change(r, m, G, f, l),
         l = "bump" => /\ call[r].kind # "deletePermission"
                       /\ Now \ Rated(m, G, f) \subseteq Scope(call[r].kind),
         l = "reply" => call[r].kind = "deletePermission" \/ Now \subseteq Rated(m, G, f)
  PROVE  Changed(r, m, G, f, l)
<1> DEFINE now == Rated(m, G, f)
<1>1. /\ call \in [Requests -> Call] /\ visible \subseteq SUBSET Keys
      /\ lights \subseteq SUBSET {Feature} /\ withdrawn \subseteq Rights
      /\ granted \in SUBSET RolePermission
      /\ SeenInv /\ \A q \in Requests : TookInv(q) /\ call[q] \in Call
  BY DEF RbacInv, RbacTypeOK, CallInv
<1>2. /\ member' = m /\ granted' = G /\ flag' = f
      /\ visible' = visible \cup {Held(m, G)} /\ lights' = lights \cup {Lit(f)}
      /\ withdrawn' = withdrawn \ now /\ UNCHANGED <<offered, slipped, super>>
      /\ call' = [q \in Requests |->
           IF q = r THEN [call[q] EXCEPT !.pc = l, !.took = Now \ now]
           ELSE [call[q] EXCEPT !.took = @ \ now]]
  BY DEF Change, Now
<1>3. Held(m, G) \subseteq Keys /\ Lit(f) \subseteq {Feature} /\ now \subseteq Rights
  BY HeldTypes
<1>4. Now \subseteq Rights
  BY <1>1, HeldTypes DEF Now
<1>5. ASSUME NEW q \in Requests
      PROVE  /\ call'[q] \in Call
             /\ call'[q].kind = call[q].kind /\ call'[q].role = call[q].role
             /\ call'[q].list = call[q].list /\ call'[q].seen = call[q].seen
             /\ call'[q].base = call[q].base /\ call'[q].early = call[q].early
             /\ call'[q].pc = IF q = r THEN l ELSE call[q].pc
             /\ call'[q].took = IF q = r THEN Now \ now ELSE call[q].took \ now
  <2>1. CASE q = r
    BY <1>1, <1>2, <1>4, <2>1 DEF Call
  <2>2. CASE q # r
    BY <1>1, <1>2, <2>2 DEF Call
  <2>3. QED BY <2>1, <2>2
<1>6. call' \in [Requests -> Call]
  BY <1>2, <1>5
<1>7. Now' = now
  BY <1>2 DEF Now
<1>8. Seen' = Seen \cup now
  BY <1>2 DEF Seen, Rated
<1>9. SeenInv'
  BY <1>1, <1>2, <1>8 DEF SeenInv
<1>10. Now \subseteq Seen
  BY <1>1 DEF SeenInv, Seen, Now, Rated
<1> HIDE DEF now
<1>11. ASSUME NEW q \in Requests PROVE TookInv(q)'
  <2>1. CASE q = r
    <3>1. call'[q].took \cap now = {}
      BY <1>5, <2>1
    <3>2. CASE l = "bump"
      BY <1>5, <1>7, <2>1, <3>1, <3>2 DEF TookInv, now
    <3>3. CASE l = "reply"
      BY <1>5, <2>1, <3>3 DEF TookInv, now
    <3>4. QED BY <3>2, <3>3
  <2>2. CASE q # r
    <3>1. TookInv(q)
      BY <1>1
    <3>2. /\ call'[q].pc = call[q].pc /\ call'[q].kind = call[q].kind
          /\ call'[q].took = call[q].took \ now
      BY <1>5, <2>2
    <3>3. QED BY <1>7, <1>8, <3>1, <3>2 DEF TookInv
  <2>3. QED BY <2>1, <2>2
<1>12. visible' \subseteq SUBSET Keys /\ lights' \subseteq SUBSET {Feature} /\ withdrawn' \subseteq Rights
  BY <1>1, <1>2, <1>3
<1>13. QED BY <1>2, <1>5, <1>6, <1>9, <1>11, <1>12 DEF Changed, now

(* The rest of a change: the tables and what is said of them.              *)
LEMMA TablesStep ==
  ASSUME RbacInv, NEW r \in Requests, NEW m, NEW G, NEW f, NEW l \in {"bump", "reply"},
         Changed(r, m, G, f, l), TablesOK', invited' \in Roles \cup {Null},
         RowsInv', RoleIsItsList', AssignKeeps',
         \A q \in Requests \ {r} : ReplaceInv(q)' /\ AssignInv(q)',
         \A y \in call[r].early : y.by <= writes'
  PROVE  RbacInv'
<1>1. RbacTypeOK'
  BY DEF RbacInv, RbacTypeOK, TablesOK, Changed, super
<1>2. SeenInv' /\ WithdrawnStays' /\ AdminInv'
  BY DEF RbacInv, Changed, WithdrawnStays, AdminInv, super
<1>3. ASSUME NEW q \in Requests PROVE CallInv(q)'
  <2>1. TookInv(q)'
    BY DEF Changed
  <2>2. ArgsInv(q)'
    BY DEF RbacInv, CallInv, ArgsInv, Changed
  <2>3. CASE q = r
    <3>1. call'[q].pc = l /\ call'[q].early = call[q].early
      BY <2>3 DEF Changed
    <3>2. ReplaceInv(q)' /\ AssignInv(q)'
      BY <2>3, <3>1 DEF ReplaceInv, AssignInv
    <3>3. QED BY <2>1, <2>2, <3>2 DEF CallInv
  <2>4. CASE q # r
    BY <2>1, <2>2, <2>4 DEF CallInv
  <2>5. QED BY <2>3, <2>4
<1>4. QED BY <1>1, <1>2, <1>3 DEF RbacInv

(* A request keeps its place in a list while nobody writes one, and rows   *)
(* at most go.                                                             *)
LEMMA NoListStep ==
  ASSUME RbacInv, NEW r \in Requests, NEW m, NEW G \in SUBSET granted, NEW f,
         NEW l \in {"bump", "reply"}, Changed(r, m, G, f, l), UNCHANGED <<latest, writes>>
  PROVE  /\ RowsInv' /\ \A q \in Requests : AssignInv(q)' \/ q = r
         /\ \A q \in Requests \ {r} : ReplaceInv(q)'
         /\ \A y \in call[r].early : y.by <= writes'
<1>1. granted' \subseteq granted
  BY DEF Changed
<1>2. RowsInv'
  BY <1>1 DEF RbacInv, RowsInv
<1>3. \A y \in call[r].early : y.by <= writes'
  BY DEF RbacInv, CallInv, AssignInv
<1>4. ASSUME NEW q \in Requests \ {r} PROVE ReplaceInv(q)' /\ AssignInv(q)'
  <2>1. /\ call'[q].pc = call[q].pc /\ call'[q].kind = call[q].kind /\ call'[q].role = call[q].role
        /\ call'[q].list = call[q].list /\ call'[q].seen = call[q].seen
        /\ call'[q].base = call[q].base /\ call'[q].early = call[q].early
    BY DEF Changed
  <2>2. ReplaceInv(q) /\ AssignInv(q)
    BY DEF RbacInv, CallInv
  <2>3. ReplaceInv(q)'
    BY <1>1, <2>1, <2>2 DEF ReplaceInv, Of
  <2>4. AssignInv(q)'
    BY <1>1, <2>1, <2>2 DEF AssignInv, Held
  <2>5. QED BY <2>3, <2>4
<1>5. QED BY <1>2, <1>3, <1>4

(* A new list: its rows are of a write that no request has seen.           *)
Kept(old, x) == old \subseteq granted /\ \A y \in granted : y.role # x => y \in old

NewList(r, x, L, old) ==
  /\ RowsInv' /\ \A q \in Requests \ {r} : ReplaceInv(q)' /\ AssignInv(q)'
  /\ \A y \in call[r].early : y.by <= writes'
  /\ Listed(x, L) \subseteq RolePermission /\ writes' \in 0..WriteBound
  /\ latest' \in [Roles -> [list : SUBSET Keys, by : 0..WriteBound]]
  /\ latest'[x].list = L /\ \A z \in Roles \ {x} : latest'[z] = latest[z]
  /\ \A y \in Listed(x, L) : y.role = x /\ y.key \in L /\ y.by = writes + 1
  /\ \A z : Held(z, old \cup Listed(x, L)) = Held(z, old) \cup IF z = x THEN L ELSE {}

LEMMA NewListStep ==
  ASSUME RbacInv, NEW r \in Requests, NEW x \in Roles, NEW L \in SUBSET Keys,
         NEW old, Kept(old, x),
         NEW l \in {"bump", "reply"}, writes < WriteBound, Wrote(x, L),
         Changed(r, member, old \cup Listed(x, L), flag, l)
  PROVE  NewList(r, x, L, old)
<1> USE DEF Kept
<1>1. /\ writes \in Nat /\ writes + 1 \in 0..WriteBound /\ writes' = writes + 1
      /\ granted \subseteq RolePermission
      /\ latest \in [Roles -> [list : SUBSET Keys, by : 0..WriteBound]]
  BY RbacAssumption DEF RbacInv, RbacTypeOK, Wrote
<1>2. \A y \in Listed(x, L) : y.role = x /\ y.key \in L /\ y.by = writes + 1
  BY DEF Listed
<1>3. Listed(x, L) \subseteq RolePermission
  BY <1>1 DEF Listed, RolePermission
<1>4. \A z : Held(z, old \cup Listed(x, L)) = Held(z, old) \cup IF z = x THEN L ELSE {}
  <2>1. \A k \in L : [role |-> x, key |-> k, by |-> writes + 1] \in Listed(x, L)
    BY DEF Listed
  <2>2. ASSUME NEW k \in L PROVE k \in Held(x, Listed(x, L))
    <3> DEFINE w == [role |-> x, key |-> k, by |-> writes + 1]
    <3>1. w \in Listed(x, L) /\ w.role = x /\ w.key = k
      BY <2>1
    <3> HIDE DEF w
    <3>2. QED BY <3>1 DEF Held
  <2>3. \A z : Held(z, old \cup Listed(x, L)) = Held(z, old) \cup Held(z, Listed(x, L))
    BY DEF Held
  <2>4. Held(x, Listed(x, L)) = L /\ \A z : z # x => Held(z, Listed(x, L)) = {}
    BY <1>2, <2>2 DEF Held
  <2>5. QED BY <2>3, <2>4
<1>5. /\ latest' = [latest EXCEPT ![x] = [list |-> L, by |-> writes + 1]]
      /\ latest' \in [Roles -> [list : SUBSET Keys, by : 0..WriteBound]]
      /\ latest'[x].list = L /\ latest'[x].by = writes + 1
      /\ \A z \in Roles \ {x} : latest'[z] = latest[z]
  BY <1>1 DEF Wrote
<1>6. granted' = old \cup Listed(x, L) /\ \A y \in granted : y.by \in Nat /\ y.by <= writes
  BY <1>1, RbacAssumption DEF Changed, RbacInv, RowsInv, RolePermission
<1>7. \A z \in Roles : latest[z].by \in Nat /\ latest[z].by <= writes
  BY <1>1, RbacAssumption DEF RbacInv, RowsInv
<1>8. RowsInv'
  <2>1. \A y \in granted' : y.by <= writes'
    BY <1>1, <1>2, <1>6
  <2>2. \A z \in Roles : latest'[z].by <= writes'
    BY <1>1, <1>5, <1>7
  <2>3. QED BY <2>1, <2>2 DEF RowsInv
<1>9. ASSUME NEW q \in Requests PROVE \A y \in call[q].early : y.by \in Nat /\ y.by <= writes
  <2>1. call[q].early \in SUBSET RolePermission
    BY DEF RbacInv, RbacTypeOK, Call
  <2>2. \A y \in call[q].early : y.by <= writes
    BY DEF RbacInv, CallInv, AssignInv
  <2>3. QED BY <2>1, <2>2, RbacAssumption DEF RolePermission
<1>10. ASSUME NEW q \in Requests \ {r} PROVE ReplaceInv(q)' /\ AssignInv(q)'
  <2>1. /\ call'[q].pc = call[q].pc /\ call'[q].kind = call[q].kind /\ call'[q].role = call[q].role
        /\ call'[q].list = call[q].list /\ call'[q].seen = call[q].seen
        /\ call'[q].base = call[q].base /\ call'[q].early = call[q].early
        /\ call[q].base \in Nat
    BY RbacAssumption DEF Changed, RbacInv, RbacTypeOK, Call
  <2>2. ReplaceInv(q) /\ AssignInv(q) /\ ArgsInv(q)
    BY DEF RbacInv, CallInv
  <2>3. ReplaceInv(q)'
    <3> SUFFICES ASSUME call[q].pc = "insert" PROVE ReplaceInv(q)'
      BY <2>1 DEF ReplaceInv
    <3>1. call[q].base <= writes /\ call[q].role \in Roles
      BY <2>2 DEF ReplaceInv, ArgsInv
    <3>2. CASE call[q].role = x
      BY <1>1, <1>5, <2>1, <2>2, <3>1, <3>2 DEF ReplaceInv
    <3>3. CASE call[q].role # x
      <4>1. Of(granted', call[q].role) \subseteq Of(granted, call[q].role)
        BY <1>2, <1>6, <3>3 DEF Of
      <4>2. QED BY <1>1, <1>5, <2>1, <2>2, <3>1, <3>3, <4>1 DEF ReplaceInv
    <3>4. QED BY <3>2, <3>3
  <2>4. AssignInv(q)'
    <3>1. call[q].early \cap granted' \subseteq call[q].early \cap granted
      BY <1>1, <1>2, <1>6, <1>9
    <3>2. \A y \in call[q].early : y.by <= writes'
      BY <1>1, <1>9
    <3>3. QED BY <2>1, <2>2, <3>1, <3>2 DEF AssignInv, Held
  <2>5. QED BY <2>3, <2>4
<1>11. \A y \in call[r].early : y.by <= writes'
  BY <1>1, <1>9
<1>12. QED BY <1>1, <1>2, <1>3, <1>4, <1>5, <1>8, <1>10, <1>11 DEF NewList

-----------------------------------------------------------------------------
(* The lists.                                                              *)
LEMMA RolesTables == ASSUME RbacInv PROVE TablesOK /\ granted \in SUBSET RolePermission
BY DEF RbacInv, RbacTypeOK, TablesOK

LEMMA CreateRoleStep == ASSUME RbacInv, NEW r \in Requests, CreateRole(r) PROVE RbacInv'
<1> DEFINE x == call[r].role
           L == call[r].list
           G == granted \cup Listed(x, L)
<1>1. /\ TablesOK /\ CallInv(r) /\ RoleIsItsList /\ AssignKeeps
      /\ invited \in Roles \cup {Null} /\ granted \in SUBSET RolePermission
  BY RolesTables DEF RbacInv, RbacTypeOK
<1>2. /\ Is(r, "createRole", "write") /\ x \notin roles
      /\ L \subseteq keys /\ writes < WriteBound
      /\ roles' = roles \cup {x} /\ mixed' = mixed \ {x}
      /\ Wrote(x, L) /\ Change(r, member, G, flag, "reply")
      /\ UNCHANGED <<keys, dropped, lost, invited>>
  BY DEF CreateRole
<1>3. x \in Roles /\ L \in SUBSET Keys
  BY <1>1, <1>2 DEF CallInv, ArgsInv, Is
<1> HIDE DEF x, L
<1>4. Listed(x, L) \subseteq RolePermission
  BY <1>1, <1>2, <1>3, RbacAssumption DEF Listed, RolePermission, TablesOK
<1>5. Now \subseteq Rated(member, G, flag)
  BY DEF Now, Rated, Held
<1>6. Changed(r, member, G, flag, "reply")
  BY <1>1, <1>2, <1>4, <1>5, ChangeStep
<1>7. /\ RowsInv' /\ \A q \in Requests \ {r} : ReplaceInv(q)' /\ AssignInv(q)'
      /\ \A y \in call[r].early : y.by <= writes'
      /\ Listed(x, L) \subseteq RolePermission /\ writes' \in 0..WriteBound
      /\ latest' \in [Roles -> [list : SUBSET Keys, by : 0..WriteBound]]
      /\ latest'[x].list = L /\ \A z \in Roles \ {x} : latest'[z] = latest[z]
      /\ \A y \in Listed(x, L) : y.role = x /\ y.key \in L /\ y.by = writes + 1
      /\ \A z : Held(z, G) = Held(z, granted) \cup IF z = x THEN L ELSE {}
  <2>1. Kept(granted, x)
    BY DEF Kept
  <2>2. NewList(r, x, L, granted)
    BY <1>2, <1>3, <1>6, <2>1, NewListStep
  <2>3. QED BY <2>2 DEF NewList
<1>8. granted' = G /\ member' = member /\ flag' = flag
  BY <1>6 DEF Changed
<1>9. \A y \in granted : y.role # x
  BY <1>1, <1>2 DEF TablesOK
<1>10. TablesOK'
  <2>1. granted' \subseteq RolePermission
    BY <1>1, <1>7, <1>8
  <2>2. \A y, z \in granted' : y.role = z.role /\ y.key = z.key => y = z
    BY <1>1, <1>7, <1>8, <1>9 DEF TablesOK, Listed
  <2>3. \A y \in granted' : y.role \in roles' /\ y.key \in keys'
    BY <1>1, <1>2, <1>7, <1>8 DEF TablesOK
  <2>4. QED BY <1>1, <1>2, <1>3, <1>7, <1>8, <2>1, <2>2, <2>3 DEF TablesOK
<1>11. Held(x, granted) = {}
  BY <1>9 DEF Held
<1>12. RoleIsItsList'
  <2>1. ASSUME NEW z \in roles' \ mixed' PROVE Held(z, granted') = latest'[z].list \ dropped'
    <3>1. CASE z = x
      <4>1. L \cap dropped = {}
        BY <1>1, <1>2 DEF TablesOK
      <4>2. QED BY <1>2, <1>7, <1>8, <1>11, <3>1, <4>1
    <3>2. CASE z # x
      BY <1>1, <1>2, <1>7, <1>8, <3>2 DEF RoleIsItsList, TablesOK
    <3>3. QED BY <3>1, <3>2
  <2>2. QED BY <2>1 DEF RoleIsItsList
<1>13. AssignKeeps'
  BY <1>1, <1>2 DEF AssignKeeps
<1>14. QED BY <1>1, <1>2, <1>6, <1>7, <1>10, <1>12, <1>13, TablesStep

LEMMA CommitStep == ASSUME RbacInv, NEW r \in Requests, Commit(r) PROVE RbacInv'
<1> DEFINE x == call[r].role
           L == call[r].list
           old == Survivors(r)
           G == old \cup Listed(x, L)
<1>1. /\ TablesOK /\ CallInv(r) /\ RoleIsItsList /\ AssignKeeps
      /\ invited \in Roles \cup {Null} /\ granted \in SUBSET RolePermission
  BY RolesTables DEF RbacInv, RbacTypeOK
<1>2. /\ call[r].pc = "insert" /\ x \in roles /\ L \subseteq keys /\ writes < WriteBound
      /\ Wrote(x, L) /\ L \cap Held(x, old) = {}
      /\ mixed' = IF latest[x].by = call[r].base THEN mixed \ {x} ELSE mixed \cup {x}
      /\ lost' = (lost \/ (call[r].kind = "assign"
                             /\ ~(Held(x, call[r].early \cap granted) \subseteq L)))
      /\ Change(r, member, G, flag, "bump")
      /\ UNCHANGED <<keys, dropped, roles, invited>>
  BY DEF Commit, CreateMany
<1>3. x \in Roles /\ L \in SUBSET Keys /\ call[r].kind \in {"updateRole", "assign"}
  BY <1>1, <1>2 DEF CallInv, ArgsInv
<1>4. old \in SUBSET granted /\ \A y \in granted : y.role # x => y \in old
  BY <1>1, <1>2 DEF Survivors, CallInv, ReplaceInv
<1>5. latest[x].by = call[r].base => Held(x, old) = {}
  BY <1>1, <1>2 DEF Survivors, CallInv, ReplaceInv, Of, Held
<1>6. lost' = FALSE
  <2>1. call[r].kind = "assign" => Held(x, call[r].early \cap granted) \subseteq L
    BY <1>1, <1>2 DEF CallInv, AssignInv
  <2>2. QED BY <1>1, <1>2, <2>1 DEF AssignKeeps
<1> HIDE DEF x, L, old
<1>7. Listed(x, L) \subseteq RolePermission
  BY <1>1, <1>2, <1>3, RbacAssumption DEF Listed, RolePermission, TablesOK
<1>8. Now \ Rated(member, G, flag) \subseteq Scope(call[r].kind)
  <2>1. Held(member, granted) \subseteq Keys
    BY <1>1, HeldTypes
  <2>2. QED BY <1>3, <2>1 DEF Now, Rated, Scope, FlagKinds
<1>9. Changed(r, member, G, flag, "bump")
  BY <1>1, <1>2, <1>3, <1>4, <1>7, <1>8, ChangeStep
<1>10. /\ RowsInv' /\ \A q \in Requests \ {r} : ReplaceInv(q)' /\ AssignInv(q)'
       /\ \A y \in call[r].early : y.by <= writes'
       /\ writes' \in 0..WriteBound
       /\ latest' \in [Roles -> [list : SUBSET Keys, by : 0..WriteBound]]
       /\ latest'[x].list = L /\ \A z \in Roles \ {x} : latest'[z] = latest[z]
       /\ \A y \in Listed(x, L) : y.role = x /\ y.key \in L /\ y.by = writes + 1
       /\ \A z : Held(z, G) = Held(z, old) \cup IF z = x THEN L ELSE {}
  <2>1. Kept(old, x)
    BY <1>4 DEF Kept
  <2>2. NewList(r, x, L, old)
    BY <1>2, <1>3, <1>9, <2>1, NewListStep
  <2>3. QED BY <2>2 DEF NewList
<1>11. granted' = G /\ member' = member /\ flag' = flag
  BY <1>9 DEF Changed
<1>12. TablesOK'
  <2>1. granted' \subseteq RolePermission
    BY <1>1, <1>4, <1>7, <1>11
  <2>2. \A y, z \in granted' : y.role = z.role /\ y.key = z.key => y = z
    <3>1. \A y \in old, z \in Listed(x, L) : ~(y.role = z.role /\ y.key = z.key)
      BY <1>2, <1>10 DEF Held
    <3>2. \A y, z \in Listed(x, L) : y.key = z.key => y = z
      BY DEF Listed
    <3>3. \A y, z \in old : y.role = z.role /\ y.key = z.key => y = z
      BY <1>1, <1>4 DEF TablesOK
    <3>4. QED BY <1>11, <3>1, <3>2, <3>3
  <2>3. \A y \in granted' : y.role \in roles' /\ y.key \in keys'
    BY <1>1, <1>2, <1>4, <1>10, <1>11 DEF TablesOK
  <2>4. mixed' \subseteq Roles
    BY <1>1, <1>2, <1>3 DEF TablesOK
  <2>5. QED BY <1>1, <1>2, <1>6, <1>10, <1>11, <2>1, <2>2, <2>3, <2>4 DEF TablesOK
<1>13. RoleIsItsList'
  <2>1. ASSUME NEW z \in roles' \ mixed' PROVE Held(z, granted') = latest'[z].list \ dropped'
    <3>1. CASE z = x
      <4>1. L \cap dropped = {}
        BY <1>1, <1>2 DEF TablesOK
      <4>2. latest[x].by = call[r].base
        BY <1>2, <2>1, <3>1
      <4>3. QED BY <1>2, <1>5, <1>10, <1>11, <3>1, <4>1, <4>2
    <3>2. CASE z # x
      <4>1. Held(z, old) = Held(z, granted)
        BY <1>4, <3>2 DEF Held
      <4>2. z \in roles \ mixed /\ z \in Roles
        BY <1>1, <1>2, <2>1, <3>2 DEF TablesOK
      <4>3. QED BY <1>1, <1>2, <1>10, <1>11, <3>2, <4>1, <4>2 DEF RoleIsItsList
    <3>3. QED BY <3>1, <3>2
  <2>2. QED BY <2>1 DEF RoleIsItsList
<1>14. AssignKeeps'
  BY <1>1, <1>6 DEF AssignKeeps
<1>15. QED BY <1>1, <1>2, <1>9, <1>10, <1>12, <1>13, <1>14, TablesStep

(* A role or a permission goes, and its rows with it.                      *)
LEMMA DeleteRoleStep == ASSUME RbacInv, NEW r \in Requests, DeleteRole(r) PROVE RbacInv'
<1> DEFINE x == call[r].role
           G == {y \in granted : y.role # x}
<1>1. /\ TablesOK /\ RoleIsItsList /\ AssignKeeps
      /\ invited \in Roles \cup {Null} /\ granted \in SUBSET RolePermission
  BY RolesTables DEF RbacInv, RbacTypeOK
<1>2. /\ Is(r, "deleteRole", "write") /\ x \in roles \ {member} /\ roles' = roles \ {x}
      /\ Change(r, member, G, flag, "bump")
      /\ UNCHANGED <<keys, dropped, lists, invited>>
  BY DEF DeleteRole
<1>3. G \in SUBSET granted /\ G \in SUBSET RolePermission
  BY <1>1
<1>4. Now \ Rated(member, G, flag) \subseteq Scope(call[r].kind)
  <2>1. Held(member, granted) \subseteq Keys
    BY <1>1, HeldTypes
  <2>2. QED BY <1>2, <2>1 DEF Now, Rated, Scope, FlagKinds, Is
<1>5. Changed(r, member, G, flag, "bump")
  BY <1>2, <1>3, <1>4, ChangeStep DEF Is
<1>6. \A z : z # x => Held(z, G) = Held(z, granted)
  BY DEF Held
<1> HIDE DEF x, G
<1>7. /\ RowsInv' /\ \A q \in Requests : AssignInv(q)' \/ q = r
      /\ \A q \in Requests \ {r} : ReplaceInv(q)'
      /\ \A y \in call[r].early : y.by <= writes'
  BY <1>2, <1>3, <1>5, NoListStep DEF lists
<1>8. granted' = G /\ member' = member /\ flag' = flag
  BY <1>5 DEF Changed
<1>9. TablesOK'
  <2>1. \A y \in granted' : y.role \in roles' /\ y.key \in keys'
    BY <1>1, <1>2, <1>8 DEF TablesOK, G
  <2>2. QED BY <1>1, <1>2, <1>3, <1>8, <2>1 DEF TablesOK, lists
<1>10. RoleIsItsList' /\ AssignKeeps'
  BY <1>1, <1>2, <1>6, <1>8 DEF RoleIsItsList, AssignKeeps, lists
<1>11. QED BY <1>1, <1>2, <1>5, <1>7, <1>9, <1>10, TablesStep

LEMMA DeletePermissionStep ==
  ASSUME RbacInv, NEW r \in Requests, DeletePermission(r) PROVE RbacInv'
<1> DEFINE L == call[r].list
           G == {y \in granted : y.key \notin L}
<1>1. /\ TablesOK /\ RoleIsItsList /\ AssignKeeps /\ CallInv(r)
      /\ invited \in Roles \cup {Null} /\ granted \in SUBSET RolePermission
  BY RolesTables DEF RbacInv, RbacTypeOK
<1>2. /\ Is(r, "deletePermission", "write") /\ L \subseteq keys
      /\ keys' = keys \ L /\ dropped' = dropped \cup L
      /\ Change(r, member, G, flag, "reply")
      /\ UNCHANGED <<roles, lists, invited>>
  BY DEF DeletePermission
<1>3. G \in SUBSET granted /\ G \in SUBSET RolePermission /\ L \subseteq Custom
  BY <1>1, <1>2 DEF CallInv, ArgsInv, Is
<1>4. Changed(r, member, G, flag, "reply")
  BY <1>2, <1>3, ChangeStep DEF Is
<1>5. \A z : Held(z, G) = Held(z, granted) \ L
  BY DEF Held
<1>6. \A y \in G : y.key \notin L
  OBVIOUS
<1> HIDE DEF L, G
<1>7. /\ RowsInv' /\ \A q \in Requests : AssignInv(q)' \/ q = r
      /\ \A q \in Requests \ {r} : ReplaceInv(q)'
      /\ \A y \in call[r].early : y.by <= writes'
  BY <1>2, <1>3, <1>4, NoListStep DEF lists
<1>8. granted' = G /\ member' = member /\ flag' = flag
  BY <1>4 DEF Changed
<1>9. TablesOK'
  <2>1. \A y \in granted' : y.role \in roles' /\ y.key \in keys'
    BY <1>1, <1>2, <1>3, <1>6, <1>8 DEF TablesOK
  <2>2. keys' \subseteq Keys /\ dropped' \subseteq Custom \ keys'
    BY <1>1, <1>2, <1>3 DEF TablesOK
  <2>3. QED BY <1>1, <1>2, <1>3, <1>8, <2>1, <2>2 DEF TablesOK, lists
<1>10. RoleIsItsList' /\ AssignKeeps'
  BY <1>1, <1>2, <1>5, <1>8 DEF RoleIsItsList, AssignKeeps, lists
<1>11. QED BY <1>1, <1>2, <1>4, <1>7, <1>9, <1>10, TablesStep

-----------------------------------------------------------------------------
(* The member and the feature, whose changes touch no list.                *)
LEMMA PlaceStep ==
  ASSUME RbacInv, NEW r \in Requests, NEW m \in roles \cup {Null}, Place(r, m, "bump"),
         call[r].kind \in Kinds \ (FlagKinds \cup {"deletePermission"})
  PROVE  RbacInv'
<1>1. /\ TablesOK /\ RoleIsItsList /\ AssignKeeps
      /\ invited \in Roles \cup {Null} /\ granted \in SUBSET RolePermission
  BY RolesTables DEF RbacInv, RbacTypeOK
<1>2. Change(r, m, granted, flag, "bump") /\ UNCHANGED <<keys, dropped, roles, lists, invited>>
  BY DEF Place
<1>3. Now \ Rated(m, granted, flag) \subseteq Scope(call[r].kind)
  <2>1. Held(member, granted) \subseteq Keys
    BY <1>1, HeldTypes
  <2>2. QED BY <2>1 DEF Now, Rated, Scope
<1>4. Changed(r, m, granted, flag, "bump")
  BY <1>1, <1>2, <1>3, ChangeStep
<1>5. /\ RowsInv' /\ \A q \in Requests : AssignInv(q)' \/ q = r
      /\ \A q \in Requests \ {r} : ReplaceInv(q)'
      /\ \A y \in call[r].early : y.by <= writes'
  <2>1. granted \in SUBSET granted
    OBVIOUS
  <2>2. QED BY <1>2, <1>4, <2>1, NoListStep DEF lists
<1>6. granted' = granted /\ member' = m /\ flag' = flag
  BY <1>4 DEF Changed
<1>7. TablesOK'
  BY <1>1, <1>2, <1>6 DEF TablesOK, lists
<1>8. RoleIsItsList' /\ AssignKeeps'
  BY <1>1, <1>2, <1>6 DEF RoleIsItsList, AssignKeeps, lists
<1>9. QED BY <1>1, <1>2, <1>4, <1>5, <1>7, <1>8, TablesStep

LEMMA OverrideStep ==
  ASSUME RbacInv, NEW r \in Requests, NEW f \in BOOLEAN \cup {Null}, Override(r, f),
         call[r].kind \in FlagKinds
  PROVE  RbacInv'
<1>1. /\ TablesOK /\ RoleIsItsList /\ AssignKeeps
      /\ invited \in Roles \cup {Null} /\ granted \in SUBSET RolePermission
  BY RolesTables DEF RbacInv, RbacTypeOK
<1>2. /\ Change(r, member, granted, f, "bump")
      /\ UNCHANGED <<keys, dropped, roles, lists, invited>>
  BY DEF Override
<1>3. Now \ Rated(member, granted, f) \subseteq Scope(call[r].kind)
  BY DEF Now, Rated, Scope, Lit
<1>4. Changed(r, member, granted, f, "bump")
  BY <1>1, <1>2, <1>3, ChangeStep DEF FlagKinds
<1>5. /\ RowsInv' /\ \A q \in Requests : AssignInv(q)' \/ q = r
      /\ \A q \in Requests \ {r} : ReplaceInv(q)'
      /\ \A y \in call[r].early : y.by <= writes'
  <2>1. granted \in SUBSET granted
    OBVIOUS
  <2>2. QED BY <1>2, <1>4, <2>1, NoListStep DEF lists
<1>6. granted' = granted /\ member' = member /\ flag' = f
  BY <1>4 DEF Changed
<1>7. TablesOK'
  BY <1>1, <1>2, <1>6 DEF TablesOK, lists
<1>8. RoleIsItsList' /\ AssignKeeps'
  BY <1>1, <1>2, <1>6 DEF RoleIsItsList, AssignKeeps, lists
<1>9. QED BY <1>1, <1>2, <1>4, <1>5, <1>7, <1>8, TablesStep

LEMMA MemberStep ==
  ASSUME RbacInv, NEW r \in Requests,
         Join(r) \/ UpdateMemberRole(r) \/ DeleteMember(r) \/ Upsert(r) \/ DeleteFlag(r)
  PROVE  RbacInv'
<1>1. ASSUME Join(r) PROVE RbacInv'
  BY <1>1, PlaceStep DEF Join, CreateMember, Is, Kinds, FlagKinds
<1>2. ASSUME UpdateMemberRole(r) PROVE RbacInv'
  BY <1>2, PlaceStep DEF UpdateMemberRole, Is, Kinds, FlagKinds
<1>3. ASSUME DeleteMember(r) PROVE RbacInv'
  BY <1>3, PlaceStep DEF DeleteMember, Is, Kinds, FlagKinds
<1>4. ASSUME Upsert(r) PROVE RbacInv'
  BY <1>4, OverrideStep DEF Upsert, Is, FlagKinds
<1>5. ASSUME DeleteFlag(r) PROVE RbacInv'
  BY <1>5, OverrideStep DEF DeleteFlag, Is, FlagKinds
<1>6. QED BY <1>1, <1>2, <1>3, <1>4, <1>5

LEMMA CreatePermissionStep ==
  ASSUME RbacInv, NEW r \in Requests, CreatePermission(r) PROVE RbacInv'
<1>1. /\ Is(r, "createPermission", "write") /\ call[r].list \cap (keys \cup dropped) = {}
      /\ keys' = keys \cup call[r].list /\ Advance(r, "idle")
      /\ UNCHANGED <<offered, dropped, roles, granted, member, flag, visible, lights,
                     withdrawn, slipped, lists, invited, super>>
  BY DEF CreatePermission
<1>2. call[r].list \subseteq Custom /\ call \in [Requests -> Call] /\ NoCall \in Call
  BY <1>1, RbacAssumption DEF RbacInv, RbacTypeOK, CallInv, ArgsInv, Is, NoCall, Call, Kinds
<1>3. /\ call' \in [Requests -> Call]
      /\ \A q \in Requests : call'[q] = IF q = r THEN NoCall ELSE call[q]
  BY <1>1, <1>2 DEF Advance
<1>4. RbacTypeOK'
  BY <1>1, <1>2, <1>3 DEF RbacInv, RbacTypeOK, lists, super, Keys
<1>5. RowsInv' /\ SeenInv' /\ AdminInv' /\ WithdrawnStays' /\ RoleIsItsList' /\ AssignKeeps'
  BY <1>1 DEF RbacInv, RowsInv, SeenInv, Seen, AdminInv, WithdrawnStays, RoleIsItsList,
              AssignKeeps, lists, super
<1>6. ASSUME NEW q \in Requests PROVE CallInv(q)'
  <2>1. CASE q = r
    <3>1. call'[q] = NoCall
      BY <1>3, <2>1
    <3>2. ArgsInv(q)' /\ TookInv(q)' /\ ReplaceInv(q)'
      BY <3>1, RbacAssumption DEF ArgsInv, TookInv, ReplaceInv, NoCall, Kinds
    <3>3. AssignInv(q)'
      BY <3>1 DEF AssignInv, NoCall
    <3>4. QED BY <3>2, <3>3 DEF CallInv
  <2>2. CASE q # r
    <3>1. call'[q] = call[q] /\ CallInv(q)
      BY <1>3, <2>2 DEF RbacInv
    <3>2. QED BY <1>1, <3>1 DEF CallInv, ArgsInv, TookInv, Seen, Now, ReplaceInv, AssignInv, lists
  <2>3. QED BY <2>1, <2>2
<1>7. QED BY <1>4, <1>5, <1>6 DEF RbacInv

LEMMA MarkStep == ASSUME RbacInv, NEW r \in Requests, MarkAsAccepted(r) PROVE RbacInv'
<1> DEFINE c == [call[r] EXCEPT !.pc = "reply"]
<1>1. CallInv(r) /\ call[r] \in Call /\ call \in [Requests -> Call]
  BY DEF RbacInv, RbacTypeOK
<1>2. /\ call[r].pc = "mark" /\ invited' = Null /\ call' = [call EXCEPT ![r] = c]
      /\ UNCHANGED <<offered, access, super>>
  BY <1>1 DEF MarkAsAccepted, Advance
<1>3. /\ c \in Call /\ call'[r] = c /\ c.pc = "reply" /\ c.kind = call[r].kind
      /\ c.role = call[r].role /\ c.list = call[r].list /\ c.early = call[r].early
      /\ c.took = call[r].took
  BY <1>1, <1>2 DEF Call
<1> HIDE DEF c
<1>4. ArgsInv(r)' /\ ReplaceInv(r)' /\ AssignInv(r)'
  BY <1>1, <1>2, <1>3 DEF CallInv, ArgsInv, ReplaceInv, AssignInv, access
<1>5. TookInv(r)'
  BY <1>1, <1>2, <1>3 DEF CallInv, TookInv, Seen, access
<1>6. CallInv(r)'
  BY <1>4, <1>5 DEF CallInv
<1>7. QED BY <1>2, <1>3, <1>6, LocalStep

-----------------------------------------------------------------------------
(* A new version of a namespace: what is cached is what is held.           *)
LEMMA BumpStep == ASSUME RbacInv, NEW r \in Requests, BumpNamespaces(r) PROVE RbacInv'
<1> DEFINE l == IF call[r].kind = "accept" THEN "mark" ELSE "reply"
           c == [call[r] EXCEPT !.pc = l]
<1>1. /\ RbacTypeOK /\ SeenInv /\ \A q \in Requests : CallInv(q)
      /\ call[r] \in Call /\ call \in [Requests -> Call] /\ granted \in SUBSET RolePermission
  BY DEF RbacInv, RbacTypeOK
<1>2. /\ call[r].pc = "bump" /\ call' = [call EXCEPT ![r] = c]
      /\ UNCHANGED <<offered, rows, withdrawn, faults, invited, admin, seed, whole, clock>>
  BY <1>1 DEF BumpNamespaces, Advance
<1>3. /\ c \in Call /\ call'[r] = c /\ c.pc = l /\ c.kind = call[r].kind
      /\ c.role = call[r].role /\ c.list = call[r].list /\ c.early = call[r].early
      /\ c.took = call[r].took /\ call' \in [Requests -> Call]
      /\ \A q \in Requests \ {r} : call'[q] = call[q]
  BY <1>1, <1>2 DEF Call
<1> HIDE DEF c
<1>4. /\ visible' \subseteq visible /\ lights' \subseteq lights
      /\ Held(member, granted) \in visible' /\ Lit(flag) \in lights'
  BY <1>1 DEF BumpNamespaces, SeenInv
<1>5. inner' \in {inner, Null} /\ outer' \in {outer, Null}
  BY DEF BumpNamespaces
<1>6. Seen' \subseteq Seen
  BY <1>4 DEF Seen
<1>7. RbacTypeOK'
  BY <1>1, <1>2, <1>3, <1>4, <1>5 DEF RbacTypeOK, rows, faults
<1>8. RowsInv' /\ SeenInv' /\ WithdrawnStays' /\ RoleIsItsList' /\ AssignKeeps'
  BY <1>2, <1>4, <1>6 DEF RbacInv, RowsInv, SeenInv, WithdrawnStays, RoleIsItsList,
                          AssignKeeps, rows, faults
<1>9. AdminInv'
  BY <1>2, <1>5 DEF RbacInv, AdminInv
<1>10. call[r].took \cap Seen' = {}
  <2>1. CASE call[r].kind \in FlagKinds
    <3>1. lights' = {Lit(flag)} /\ visible' = visible
      BY <2>1 DEF BumpNamespaces, FlagKinds
    <3>2. call[r].took \subseteq {Feature} /\ call[r].took \cap Lit(flag) = {}
      BY <1>1, <1>2, <2>1 DEF CallInv, TookInv, Scope, Now, Rated
    <3>3. \A P \in visible : Feature \notin P
      BY <1>1, RbacAssumption DEF RbacTypeOK
    <3>4. QED BY <3>1, <3>2, <3>3 DEF Seen
  <2>2. CASE call[r].kind \notin FlagKinds
    <3>1. visible' = {Held(member, granted)} /\ lights' = lights
      BY <2>2 DEF BumpNamespaces, FlagKinds
    <3>2. call[r].took \subseteq Keys /\ call[r].took \cap Held(member, granted) = {}
      BY <1>1, <1>2, <2>2 DEF CallInv, TookInv, Scope, Now, Rated
    <3>3. \A P \in lights : P \subseteq {Feature}
      BY <1>1 DEF RbacTypeOK
    <3>4. QED BY <3>1, <3>2, <3>3, RbacAssumption DEF Seen
  <2>3. QED BY <2>1, <2>2
<1>11. ASSUME NEW q \in Requests PROVE CallInv(q)'
  <2>1. CASE q = r
    <3>1. TookInv(q)'
      BY <1>3, <1>10, <2>1 DEF TookInv
    <3>2. ArgsInv(q)' /\ ReplaceInv(q)' /\ AssignInv(q)'
      BY <1>1, <1>2, <1>3, <2>1 DEF CallInv, ArgsInv, ReplaceInv, AssignInv, rows
    <3>3. QED BY <3>1, <3>2 DEF CallInv
  <2>2. CASE q # r
    <3>1. call'[q] = call[q] /\ CallInv(q)
      BY <1>1, <1>3, <2>2
    <3>2. TookInv(q)'
      BY <1>2, <1>6, <3>1 DEF CallInv, TookInv, Now, rows
    <3>3. ArgsInv(q)' /\ ReplaceInv(q)' /\ AssignInv(q)'
      BY <1>2, <3>1 DEF CallInv, ArgsInv, ReplaceInv, AssignInv, rows
    <3>4. QED BY <3>2, <3>3 DEF CallInv
  <2>3. QED BY <2>1, <2>2
<1>12. QED BY <1>7, <1>8, <1>9, <1>11 DEF RbacInv

(* The answer: nothing of what it took away is in the cache.               *)
LEMMA ReplyStep == ASSUME RbacInv, NEW r \in Requests, Reply(r) PROVE RbacInv'
<1>1. /\ RbacTypeOK /\ SeenInv /\ \A q \in Requests : CallInv(q)
      /\ call[r] \in Call /\ call \in [Requests -> Call] /\ NoCall \in Call
  BY RbacAssumption DEF RbacInv, RbacTypeOK, NoCall, Call, Kinds
<1>2. /\ call[r].pc = "reply" /\ Advance(r, "idle")
      /\ withdrawn' = withdrawn \cup (IF call[r].kind = "deletePermission" THEN {}
                                      ELSE call[r].took)
      /\ UNCHANGED <<offered, rows, visible, lights, faults, invited, super>>
  BY DEF Reply
<1>3. /\ call' \in [Requests -> Call]
      /\ \A q \in Requests : call'[q] = IF q = r THEN NoCall ELSE call[q]
  BY <1>1, <1>2 DEF Advance
<1>4. withdrawn' \cap Seen = {} /\ withdrawn' \subseteq Rights
  BY <1>1, <1>2 DEF RbacTypeOK, SeenInv, CallInv, TookInv, Call
<1>5. Seen' = Seen
  BY <1>2 DEF Seen
<1>6. RbacTypeOK'
  BY <1>1, <1>2, <1>3, <1>4 DEF RbacTypeOK, rows, faults, super
<1>7. RowsInv' /\ SeenInv' /\ AdminInv' /\ WithdrawnStays' /\ RoleIsItsList' /\ AssignKeeps'
  BY <1>2, <1>4, <1>5 DEF RbacInv, RowsInv, SeenInv, AdminInv, WithdrawnStays, RoleIsItsList,
                          AssignKeeps, rows, faults, super
<1>8. ASSUME NEW q \in Requests PROVE CallInv(q)'
  <2>1. CASE q = r
    <3>1. call'[q] = NoCall
      BY <1>3, <2>1
    <3>2. ArgsInv(q)' /\ TookInv(q)' /\ ReplaceInv(q)'
      BY <3>1, RbacAssumption DEF ArgsInv, TookInv, ReplaceInv, NoCall, Kinds
    <3>3. AssignInv(q)'
      BY <3>1 DEF AssignInv, NoCall
    <3>4. QED BY <3>2, <3>3 DEF CallInv
  <2>2. CASE q # r
    <3>1. call'[q] = call[q] /\ CallInv(q)
      BY <1>1, <1>3, <2>2
    <3>2. TookInv(q)'
      BY <1>2, <1>5, <3>1 DEF CallInv, TookInv, Now, rows
    <3>3. ArgsInv(q)' /\ ReplaceInv(q)' /\ AssignInv(q)'
      BY <1>2, <3>1 DEF CallInv, ArgsInv, ReplaceInv, AssignInv, rows
    <3>4. QED BY <3>2, <3>3 DEF CallInv
  <2>3. QED BY <2>1, <2>2
<1>9. QED BY <1>6, <1>7, <1>8 DEF RbacInv

(* A guard on what the cache may return.                                   *)
LEMMA GuardStep == RbacInv /\ Guard => RbacInv'
<1> SUFFICES ASSUME RbacInv, Guard PROVE RbacInv'
  OBVIOUS
<1>1. UNCHANGED <<offered, rows, visible, lights, withdrawn, lost, mixed, invited, call, super>>
  BY DEF Guard
<1>2. slipped' = FALSE
  BY DEF RbacInv, SeenInv, Seen, WithdrawnStays, Guard
<1>3. RbacTypeOK'
  BY <1>1, <1>2 DEF RbacInv, RbacTypeOK, rows, super
<1>4. RowsInv' /\ SeenInv' /\ AdminInv' /\ WithdrawnStays' /\ RoleIsItsList' /\ AssignKeeps'
  BY <1>1, <1>2 DEF RbacInv, RowsInv, SeenInv, Seen, AdminInv, WithdrawnStays, RoleIsItsList,
                    AssignKeeps, rows, super
<1>5. \A q \in Requests : CallInv(q)'
  BY <1>1 DEF RbacInv, CallInv, ArgsInv, TookInv, Seen, Now, ReplaceInv, AssignInv, rows
<1>6. QED BY <1>3, <1>4, <1>5 DEF RbacInv

-----------------------------------------------------------------------------
(* The seed and the super admin's entries concern nobody else.             *)
LEMMA SuperStep ==
  ASSUME RbacInv,
         UNCHANGED <<offered, dropped, roles, granted, lists, member, flag, visible, lights,
                     withdrawn, slipped, invited, call>>,
         keys \subseteq keys', keys' \subseteq Keys, dropped \cap keys' = {},
         admin' \subseteq Global, seed' \in {"idle", "permissions", "empty", "fill"},
         whole' \in 0..ClockBound \cup {Null}, {inner', outer'} \subseteq Entry \cup {Null},
         clock' \in 0..ClockBound, AdminInv'
  PROVE  RbacInv'
<1> USE DEF lists
<1>1. RbacTypeOK'
  BY DEF RbacInv, RbacTypeOK
<1>2. RowsInv' /\ SeenInv' /\ WithdrawnStays' /\ RoleIsItsList' /\ AssignKeeps'
  BY DEF RbacInv, RowsInv, SeenInv, Seen, WithdrawnStays, RoleIsItsList, AssignKeeps
<1>3. \A q \in Requests : CallInv(q)'
  BY DEF RbacInv, CallInv, ArgsInv, TookInv, Seen, Now, ReplaceInv, AssignInv
<1>4. QED BY <1>1, <1>2, <1>3 DEF RbacInv

LEMMA SuperTypes ==
  ASSUME RbacInv
  PROVE  /\ keys \subseteq Keys /\ dropped \cap keys = {} /\ dropped \cap Global = {}
         /\ admin \subseteq Global /\ seed \in {"idle", "permissions", "empty", "fill"}
         /\ whole \in 0..ClockBound \cup {Null} /\ {inner, outer} \subseteq Entry \cup {Null}
         /\ clock \in 0..ClockBound /\ clock \in Nat /\ ClockBound \in Nat
         /\ whole # Null => whole \in Nat
         /\ \A e \in {inner, outer} : e # Null => e \in Entry /\ e.at \in Nat
         /\ AdminInv
BY RbacAssumption DEF RbacInv, RbacTypeOK, Entry

LEMMA SeedStep ==
  ASSUME RbacInv, SeedPermissions \/ EmptyAdminRole \/ FillAdminRole \/ SeedDies
  PROVE  RbacInv'
<1>1. ASSUME SeedPermissions PROVE RbacInv'
  <2>1. AdminInv'
    BY <1>1, SuperTypes DEF SeedPermissions, AdminInv
  <2>2. QED BY <1>1, <2>1, SuperTypes, SuperStep DEF SeedPermissions, Keys
<1>2. ASSUME EmptyAdminRole PROVE RbacInv'
  <2>1. AdminInv'
    BY <1>2, SuperTypes DEF EmptyAdminRole, AdminInv
  <2>2. QED BY <1>2, <2>1, SuperTypes, SuperStep DEF EmptyAdminRole, access, lists
<1>3. ASSUME FillAdminRole PROVE RbacInv'
  <2>1. AdminInv'
    BY <1>3, SuperTypes, RbacAssumption DEF FillAdminRole, AdminInv
  <2>2. QED BY <1>3, <2>1, SuperTypes, SuperStep DEF FillAdminRole, access, lists
<1>4. ASSUME SeedDies PROVE RbacInv'
  <2>1. AdminInv'
    BY <1>4, SuperTypes DEF SeedDies, AdminInv
  <2>2. QED BY <1>4, <2>1, SuperTypes, SuperStep DEF SeedDies, access, lists
<1>5. QED BY <1>1, <1>2, <1>3, <1>4

(* What is stored now is what the table holds, or what a live entry does,  *)
(* which is at most one life old.                                          *)
LEMMA StoredTypes ==
  ASSUME RbacInv, NEW P \in SUBSET Global
  PROVE  Stored(P) \in Entry /\ Stored(P).at = clock /\ Stored(P).keys = P
BY SuperTypes DEF Stored, Entry

LEMMA VisitStep == ASSUME RbacInv, VisitAdminWorkspace PROVE RbacInv'
<1>1. /\ inner' = IF Live(inner) THEN inner ELSE Stored(admin)
      /\ UNCHANGED <<offered, access, invited, call, admin, seed, whole, outer, clock>>
  BY DEF VisitAdminWorkspace
<1>2. inner' = inner \/ (inner' \in Entry /\ inner'.at = clock /\ inner'.keys = admin)
  BY <1>1, SuperTypes, StoredTypes
<1>3. AdminInv'
  BY <1>1, <1>2, SuperTypes DEF AdminInv
<1>4. QED BY <1>1, <1>2, <1>3, SuperTypes, SuperStep DEF access, lists

LEMMA FindStep == ASSUME RbacInv, FindSuperAdminMembership PROVE RbacInv'
<1>1. /\ outer' = IF Live(outer) THEN outer ELSE Stored(FindMembership)
      /\ inner' = IF Live(outer) \/ Live(inner) THEN inner ELSE Stored(admin)
      /\ UNCHANGED <<offered, access, invited, call, admin, seed, whole, clock>>
  BY DEF FindSuperAdminMembership
<1>2. inner' = inner \/ (inner' \in Entry /\ inner'.at = clock /\ inner'.keys = admin)
  BY <1>1, SuperTypes, StoredTypes
<1>3. FindMembership \in SUBSET Global
  BY SuperTypes DEF FindMembership, Live, Entry
<1>4. outer' = outer \/ (outer' \in Entry /\ outer'.at = clock /\ outer'.keys = FindMembership)
  BY <1>1, <1>3, StoredTypes
<1>5. whole # Null /\ clock >= whole + Ttl => FindMembership = Global
  BY SuperTypes, RbacAssumption DEF FindMembership, Live, AdminInv
<1>6. AdminInv'
  <2>1. whole # Null /\ inner' # Null /\ inner'.at > whole => inner'.keys = Global
    BY <1>2, SuperTypes DEF AdminInv
  <2>2. whole # Null /\ outer' # Null /\ outer'.at >= whole + Ttl => outer'.keys = Global
    BY <1>4, <1>5, SuperTypes DEF AdminInv
  <2>3. QED BY <1>1, <1>2, <1>4, <2>1, <2>2, SuperTypes DEF AdminInv
<1>7. QED BY <1>1, <1>2, <1>4, <1>6, SuperTypes, SuperStep DEF access, lists

LEMMA TickStep == ASSUME RbacInv, Tick PROVE RbacInv'
<1>1. clock < ClockBound /\ clock' = clock + 1
      /\ UNCHANGED <<offered, access, invited, call, admin, seed, whole, inner, outer>>
  BY DEF Tick
<1>2. clock' \in 0..ClockBound
  BY <1>1, SuperTypes
<1>3. AdminInv'
  BY <1>1, SuperTypes DEF AdminInv
<1>4. QED BY <1>1, <1>2, <1>3, SuperTypes, SuperStep DEF access, lists

-----------------------------------------------------------------------------
LEMMA RequestStep == ASSUME RbacInv, NEW r \in Requests, Step(r) PROVE RbacInv'
<1>1. CASE \/ Create(r) \/ Update(r) \/ AddPermission(r) \/ Remove(r) \/ CreateKey(r)
           \/ RemoveKey(r) \/ Send(r) \/ Accept(r) \/ SetRole(r) \/ RemoveMember(r)
           \/ SetFlag(r) \/ ClearFlag(r)
  BY <1>1, EndpointStep
<1>2. CASE \/ FindByName(r) \/ CountMembersUsingRole(r) \/ FindByKeyInScope(r)
           \/ FindByIdInWorkspace(r) \/ CreateInvitation(r) \/ Fail(r)
  BY <1>2, LookUpStep
<1>3. CASE CreateRole(r)
  BY <1>3, CreateRoleStep
<1>4. CASE FindRole(r)
  BY <1>4, FindRoleStep
<1>5. CASE Replace(r)
  BY <1>5, ReplaceStep
<1>6. CASE Commit(r)
  BY <1>6, CommitStep
<1>7. CASE DeleteRole(r)
  BY <1>7, DeleteRoleStep
<1>8. CASE CreatePermission(r)
  BY <1>8, CreatePermissionStep
<1>9. CASE DeletePermission(r)
  BY <1>9, DeletePermissionStep
<1>10. CASE MarkAsAccepted(r)
  BY <1>10, MarkStep
<1>11. CASE Join(r) \/ UpdateMemberRole(r) \/ DeleteMember(r) \/ Upsert(r) \/ DeleteFlag(r)
  BY <1>11, MemberStep
<1>12. CASE BumpNamespaces(r)
  BY <1>12, BumpStep
<1>13. CASE Reply(r)
  BY <1>13, ReplyStep
<1>14. QED BY <1>1, <1>2, <1>3, <1>4, <1>5, <1>6, <1>7, <1>8, <1>9, <1>10, <1>11, <1>12, <1>13
              DEF Step

LEMMA RbacStep == RbacInv /\ [Next]_vars => RbacInv'
<1> SUFFICES ASSUME RbacInv, [Next]_vars PROVE RbacInv'
  OBVIOUS
<1>1. CASE \E r \in Requests : Step(r)
  BY <1>1, RequestStep
<1>2. CASE Guard
  BY <1>2, GuardStep
<1>3. CASE SeedPermissions \/ EmptyAdminRole \/ FillAdminRole \/ SeedDies
  BY <1>3, SeedStep
<1>4. CASE VisitAdminWorkspace \/ FindSuperAdminMembership \/ Tick
  BY <1>4, VisitStep, FindStep, TickStep
<1>5. CASE UNCHANGED vars
  <2>1. AdminInv' /\ UNCHANGED <<access, super, offered, invited, call>>
    BY <1>5 DEF vars, RbacInv, AdminInv, super
  <2>2. QED BY <2>1, SuperTypes, SuperStep DEF access, super, lists
<1>6. QED BY <1>1, <1>2, <1>3, <1>4, <1>5 DEF Next

LEMMA RbacAlways == Spec => []RbacInv
BY RbacInit, RbacStep, PTL DEF Spec

-----------------------------------------------------------------------------
(* The tables refer to rows that exist, no role has a permission twice,    *)
(* and everything else keeps its type.                                     *)
THEOREM RbacTypeCorrect == Spec => []RbacTypeOK
<1>1. RbacInv => RbacTypeOK
  BY DEF RbacInv
<1>2. QED BY <1>1, RbacAlways, PTL

(* A right that an answered request took away, by whichever endpoint, lets *)
(* no later request in.                                                    *)
THEOREM WithdrawalIsFinal == Spec => []WithdrawnStays
<1>1. RbacInv => WithdrawnStays
  BY DEF RbacInv
<1>2. QED BY <1>1, RbacAlways, PTL

(* A role has exactly the last list it was given, unless two requests      *)
(* replaced it at once.                                                    *)
THEOREM ListsAreWhole == Spec => []RoleIsItsList
<1>1. RbacInv => RoleIsItsList
  BY DEF RbacInv
<1>2. QED BY <1>1, RbacAlways, PTL

(* An assignment takes nothing away that the role had all the while.       *)
THEOREM AssignmentsKeep == Spec => []AssignKeeps
<1>1. RbacInv => AssignKeeps
  BY DEF RbacInv
<1>2. QED BY <1>1, RbacAlways, PTL

(* Two lives of an entry after a seed the super admin has everything.      *)
THEOREM SuperAdminRecovers == Spec => []AdminRecovers
<1>1. RbacInv => AdminRecovers
  <2> SUFFICES ASSUME RbacInv, whole # Null, clock >= whole + 2 * Ttl,
                      NEW e \in {inner, outer}, Live(e)
               PROVE  e.keys = Global
    BY DEF AdminRecovers
  <2>1. e # Null /\ clock < e.at + Ttl /\ e.at \in Nat /\ whole \in Nat /\ Ttl \in Nat \ {0}
    BY SuperTypes, RbacAssumption DEF Live
  <2>2. e.at > whole /\ e.at >= whole + Ttl
    BY <2>1, SuperTypes
  <2>3. QED BY <2>1, <2>2, SuperTypes DEF AdminInv
<1>2. QED BY <1>1, RbacAlways, PTL
=============================================================================
