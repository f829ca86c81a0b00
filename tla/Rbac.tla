--------------------------------- MODULE Rbac ---------------------------------
(***************************************************************************)
(* What lets a request in: the custom roles of one workspace, their        *)
(* permissions, a member who has one of the roles or none, a feature of    *)
(* the workspace, and the super admin whom the seed provisions.            *)
(*                                                                         *)
(* The guards read memberships and features through the cache.  visible    *)
(* and lights hold what such a read may return: what was held between the  *)
(* last bump of the namespace and now (see FreshStore).  The super admin's *)
(* entries have ages instead, as the seed writes past the cache.           *)
(*                                                                         *)
(* Abstractions.  Requests come from somebody with a system role, which    *)
(* nothing here changes.  Roles are not renamed.                           *)
(***************************************************************************)
EXTENDS Naturals, FiniteSets

CONSTANTS Requests, Null,
          Roles,      \* custom roles, each with a name of its own
          Global,     \* the permissions of the seed
          Custom,     \* the permissions a workspace may add
          Feature,    \* a feature that is off by default
          Ttl,        \* CACHE_TTL.oneMinute
          Offers,     \* bound: what is asked for, see offered
          WriteBound, \* bound: lists of permissions that are written
          ClockBound  \* bound: ticks

Keys == Global \cup Custom
Rights == Keys \cup {Feature}

Kinds == {"createRole", "updateRole", "assign", "deleteRole", "createPermission",
          "deletePermission", "invite", "accept", "setRole", "remove", "setFlag",
          "clearFlag"}

ASSUME RbacAssumption ==
  /\ Null \notin Requests \cup Roles \cup Rights \cup Kinds /\ \A b \in BOOLEAN : Null # b
  /\ Feature \notin Keys /\ Global \cap Custom = {}
  /\ Ttl \in Nat \ {0} /\ WriteBound \in Nat /\ ClockBound \in Nat
  /\ \A O \in Offers : O \subseteq Requests \X STRING

VARIABLES offered,   \* bound: who may ask for what in this behaviour
          keys,      \* the rows of Permission
          dropped,   \* bound: deleted permissions, which are not created again
          roles,     \* the custom rows of Role
          granted,   \* the rows of RolePermission
          latest,    \* history: the list each role was last given, and when
          writes,    \* history: how many lists were written
          member,    \* the role of the member, if he is one
          invited,   \* the role of his pending invitation, if there is one
          flag,      \* the row of WorkspaceFeatureFlag, if there is one
          visible,   \* the permissions a cached read of the member may return
          lights,    \* the states of the feature a cached read may return
          call,      \* [Requests -> the local state of a request]
          withdrawn, \* history: rights an answered request took away
          slipped,   \* history: one of them let a request in
          lost,      \* history: an assignment took a permission away
          mixed,     \* history: roles whose lists two requests wrote at once
          admin,     \* the permissions of the super admin's role
          seed,      \* the seed script
          whole,     \* history: when the newest seed was done
          inner, outer, \* the cached memberships of the super admin
          clock

access == <<keys, dropped, roles, granted, latest, writes, member, flag, visible, lights,
            withdrawn, slipped, lost, mixed>>
super == <<admin, seed, whole, inner, outer, clock>>
vars == <<offered, access, invited, call, super>>
rows == <<keys, dropped, roles, granted, latest, writes, member, flag>>
faults == <<slipped, lost, mixed>>
lists == <<latest, writes, lost, mixed>>

(* A row is named by the write that inserted it.                           *)
RolePermission == [role : Roles, key : Keys, by : 0..WriteBound]
Entry == [keys : SUBSET Global, at : 0..ClockBound]

Call ==
  [pc   : {"idle", "begin", "check", "write", "insert", "bump", "mark", "reply"},
   kind : Kinds \cup {Null},
   role : Roles \cup {Null},
   list : SUBSET Rights,        \* the permissions or the feature it asks for
   seen : SUBSET RolePermission,\* the rows its transaction deletes
   base : 0..WriteBound,        \* history: the newest list when it began to
   early : SUBSET RolePermission,\* history: the rows there when it arrived
   took : SUBSET Rights]        \* history: what its write took away

NoCall == [pc |-> "idle", kind |-> Null, role |-> Null, list |-> {}, seen |-> {},
           base |-> 0, early |-> {}, took |-> {}]

RbacTypeOK ==
  /\ offered \in Offers
  /\ keys \subseteq Keys /\ dropped \subseteq Custom \ keys /\ roles \subseteq Roles
  /\ granted \subseteq RolePermission
  /\ \A x, y \in granted : x.role = y.role /\ x.key = y.key => x = y
  /\ \A x \in granted : x.role \in roles /\ x.key \in keys
  /\ latest \in [Roles -> [list : SUBSET Keys, by : 0..WriteBound]]
  /\ writes \in 0..WriteBound
  /\ member \in roles \cup {Null} /\ invited \in Roles \cup {Null} /\ flag \in BOOLEAN \cup {Null}
  /\ visible \subseteq SUBSET Keys /\ lights \subseteq SUBSET {Feature}
  /\ call \in [Requests -> Call]
  /\ withdrawn \subseteq Rights /\ slipped \in BOOLEAN /\ lost \in BOOLEAN
  /\ mixed \subseteq Roles
  /\ admin \subseteq Global
  /\ seed \in {"idle", "permissions", "empty", "fill"}
  /\ whole \in 0..ClockBound \cup {Null} /\ {inner, outer} \subseteq Entry \cup {Null}
  /\ clock \in 0..ClockBound

-----------------------------------------------------------------------------
(* findByUserAndWorkspace without the cache: no member, no permissions.    *)
Held(m, G) == {x.key : x \in {y \in G : y.role = m}}

(* FeatureFlagsService.merge: the override, or the default.                *)
Lit(f) == IF f = TRUE THEN {Feature} ELSE {}

Init ==
  /\ offered \in Offers
  /\ keys \in {Global, Global \cup Custom} \cup {Global \ {g} : g \in Global}
  /\ dropped = {} /\ roles \in {{}} \cup {{x} : x \in Roles}
  /\ \E L \in SUBSET keys : granted = [role : roles, key : L, by : {0}]
  /\ latest = [x \in Roles |-> [list |-> Held(x, granted), by |-> 0]]
  /\ writes = 0 /\ member \in roles \cup {Null} /\ invited = Null /\ flag = Null
  /\ visible = {Held(member, granted)} /\ lights = {{}}
  /\ call = [r \in Requests |-> NoCall]
  /\ withdrawn = {} /\ slipped = FALSE /\ lost = FALSE /\ mixed = {}
  /\ admin = keys \cap Global /\ seed = "idle" /\ whole = Null
  /\ inner = Null /\ outer = Null /\ clock = 0

Is(r, k, l) == call[r].kind = k /\ call[r].pc = l
Advance(r, l) == call' = [call EXCEPT ![r] = IF l = "idle" THEN NoCall
                                           ELSE [@ EXCEPT !.pc = l]]

Start(r, k, x, L) ==
  /\ call[r].pc = "idle" /\ <<r, k>> \in offered
  /\ call' = [call EXCEPT ![r] = [NoCall EXCEPT !.pc = "begin", !.kind = k,
                                                !.role = x, !.list = L,
                   !.early = IF k = "assign" THEN granted ELSE {}]]
  /\ UNCHANGED <<offered, access, invited, super>>

(* The endpoints.                                                          *)
Create(r) == \E x \in Roles, L \in SUBSET Keys : Start(r, "createRole", x, L)
Update(r) == \E x \in Roles, L \in SUBSET Keys : Start(r, "updateRole", x, L)
AddPermission(r) == \E x \in Roles, k \in Keys : Start(r, "assign", x, {k})
Remove(r) == \E x \in Roles : Start(r, "deleteRole", x, {})
CreateKey(r) == \E k \in Custom : Start(r, "createPermission", Null, {k})
RemoveKey(r) == \E k \in Custom : Start(r, "deletePermission", Null, {k})
Send(r) == \E x \in Roles : Start(r, "invite", x, {})
Accept(r) == Start(r, "accept", invited, {})
SetRole(r) == \E x \in Roles : Start(r, "setRole", x, {})
RemoveMember(r) == Start(r, "remove", Null, {})
SetFlag(r) == \E L \in SUBSET {Feature} : Start(r, "setFlag", Null, L)
ClearFlag(r) == Start(r, "clearFlag", Null, {})

(* What the member may do from now on.  A right that is given again is no  *)
(* longer one that was taken away.                                         *)
Rated(m, G, f) == Held(m, G) \cup Lit(f)

Change(r, m, G, f, l) ==
  LET now == Rated(m, G, f)
  IN /\ member' = m /\ granted' = G /\ flag' = f
     /\ visible' = visible \cup {Held(m, G)} /\ lights' = lights \cup {Lit(f)}
     /\ withdrawn' = withdrawn \ now
     /\ call' = [q \in Requests |->
          IF q = r THEN [call[q] EXCEPT !.pc = l, !.took = Rated(member, granted, flag) \ now]
          ELSE [call[q] EXCEPT !.took = @ \ now]]
     /\ UNCHANGED <<offered, slipped, super>>

-----------------------------------------------------------------------------
(* The look-ups, all past the cache.                                       *)
RoleNamed(x) == x \in roles
RoleById(x) == x \in roles
KeyInScope(k) == k \in keys

(* The roles.  The name must be free; then one insertion of the role and   *)
(* its list: the name is unique and the permissions exist.                 *)
FindByName(r) ==
  /\ Is(r, "createRole", "begin") /\ ~RoleNamed(call[r].role)
  /\ Advance(r, "write")
  /\ UNCHANGED <<offered, access, invited, super>>

Listed(x, L) == [role : {x}, key : L, by : {writes + 1}]
Wrote(x, L) == /\ writes' = writes + 1
               /\ latest' = [latest EXCEPT ![x] = [list |-> L, by |-> writes + 1]]

CreateRole(r) ==
  LET x == call[r].role  L == call[r].list
  IN /\ Is(r, "createRole", "write") /\ x \notin roles
     /\ L \subseteq keys /\ writes < WriteBound
     /\ roles' = roles \cup {x} /\ mixed' = mixed \ {x}
     /\ Wrote(x, L)
     /\ Change(r, member, granted \cup Listed(x, L), flag, "reply")
     /\ UNCHANGED <<keys, dropped, lost, invited>>

PendingInvitation == invited # Null

(* Faulty variant: an assignment forgets what it has read.                 *)
FindRoleOnly(r) ==
  /\ call[r].kind \in {"updateRole", "assign", "deleteRole", "setRole", "invite"}
  /\ call[r].pc = "begin" /\ RoleById(call[r].role)
  /\ Advance(r, IF call[r].kind = "deleteRole" THEN "check" ELSE "write")
  /\ UNCHANGED <<offered, access, invited, super>>

(* findByIdInWorkspace, past the cache.  An assignment extends the list it *)
(* reads, or has nothing to do.                                            *)
FindRole(r) ==
  /\ call[r].kind \in {"updateRole", "assign", "deleteRole", "setRole", "invite"}
  /\ call[r].pc = "begin" /\ RoleById(call[r].role)
  /\ call[r].kind = "invite" => member = Null /\ ~PendingInvitation
  /\ call[r].kind = "assign" => \A k \in call[r].list : KeyInScope(k)
  /\ LET had == Held(call[r].role, granted)
     IN CASE call[r].kind = "assign" /\ call[r].list \subseteq had -> Advance(r, "idle")
          [] call[r].kind = "assign" /\ ~(call[r].list \subseteq had) ->
               call' = [call EXCEPT ![r].pc = "write", ![r].list = @ \cup had]
          [] call[r].kind = "deleteRole" -> Advance(r, "check")
          [] OTHER -> Advance(r, "write")
  /\ UNCHANGED <<offered, access, invited, super>>

(* Faulty variant: the rows are deleted outside of the transaction.        *)
ReplaceAtOnce(r) ==
  LET x == call[r].role
      gone == {y \in granted : y.role = x}
  IN /\ call[r].kind \in {"updateRole", "assign"} /\ call[r].pc = "write"
     /\ x \in roles /\ call[r].list \subseteq keys
     /\ granted' = granted \ gone
     /\ call' = [call EXCEPT ![r].pc = "insert", ![r].base = latest[x].by, ![r].seen = gone]
     /\ UNCHANGED <<offered, keys, dropped, roles, member, flag, visible, lights,
                    withdrawn, slipped, lists, invited, super>>

(* The transaction of roles.update.  Under read committed its deleteMany   *)
(* takes the rows it sees; rows committed after that stay.                 *)
Replace(r) ==
  LET x == call[r].role
  IN /\ call[r].kind \in {"updateRole", "assign"} /\ call[r].pc = "write"
     /\ x \in roles /\ call[r].list \subseteq keys
     /\ call' = [call EXCEPT ![r].pc = "insert", ![r].base = latest[x].by,
                             ![r].seen = {y \in granted : y.role = x}]
     /\ UNCHANGED <<offered, access, invited, super>>

(* Its createMany: a permission that is gone ends it with an error.        *)
Survivors(r) == granted \ call[r].seen

CreateMany(r) ==
  LET x == call[r].role  L == call[r].list
  IN /\ call[r].pc = "insert"
     /\ x \in roles /\ L \subseteq keys /\ writes < WriteBound
     /\ Wrote(x, L)
     /\ mixed' = IF latest[x].by = call[r].base THEN mixed \ {x} ELSE mixed \cup {x}
     /\ lost' = (lost \/ (call[r].kind = "assign"
                            /\ ~(Held(x, call[r].early \cap granted) \subseteq L)))
     /\ Change(r, member, Survivors(r) \cup Listed(x, L), flag, "bump")
     /\ UNCHANGED <<keys, dropped, roles, invited>>

(* Faulty variant: the table has no primary key.                           *)
CommitUnchecked(r) == CreateMany(r)

(* So does one that another list has brought meanwhile: the primary key.   *)
Commit(r) ==
  /\ call[r].list \cap Held(call[r].role, Survivors(r)) = {}
  /\ CreateMany(r)

CountMembersUsingRole(r) ==
  /\ Is(r, "deleteRole", "check") /\ call[r].role # member
  /\ Advance(r, "write")
  /\ UNCHANGED <<offered, access, invited, super>>

(* A member's row restricts the deletion, an invitation does not.          *)
DeleteRole(r) ==
  /\ Is(r, "deleteRole", "write") /\ call[r].role \in roles \ {member}
  /\ roles' = roles \ {call[r].role}
  /\ Change(r, member, {y \in granted : y.role # call[r].role}, flag, "bump")
  /\ UNCHANGED <<keys, dropped, lists, invited>>

-----------------------------------------------------------------------------
(* The permissions of the workspace.  A deletion cascades to the roles and *)
(* bumps nothing.                                                          *)
FindByKeyInScope(r) ==
  /\ Is(r, "createPermission", "begin") /\ ~\E k \in call[r].list : KeyInScope(k)
  /\ Advance(r, "write")
  /\ UNCHANGED <<offered, access, invited, super>>

CreatePermission(r) ==
  /\ Is(r, "createPermission", "write") /\ call[r].list \cap (keys \cup dropped) = {}
  /\ keys' = keys \cup call[r].list
  /\ Advance(r, "idle")
  /\ UNCHANGED <<offered, dropped, roles, granted, member, flag, visible, lights,
                 withdrawn, slipped, lists, invited, super>>

FindByIdInWorkspace(r) ==
  /\ Is(r, "deletePermission", "begin") /\ call[r].list \subseteq keys
  /\ Advance(r, "write")
  /\ UNCHANGED <<offered, access, invited, super>>

DeletePermission(r) ==
  /\ Is(r, "deletePermission", "write") /\ call[r].list \subseteq keys
  /\ keys' = keys \ call[r].list /\ dropped' = dropped \cup call[r].list
  /\ Change(r, member, {y \in granted : y.key \notin call[r].list}, flag, "reply")
  /\ UNCHANGED <<roles, lists, invited>>

-----------------------------------------------------------------------------
(* The member: invited, joining, moved to another role, removed.  Roles he *)
(* is given exist when his row is written.                                 *)
CreateInvitation(r) ==
  /\ Is(r, "invite", "write")
  /\ invited = Null /\ invited' = call[r].role \* bound: one invitation
  /\ Advance(r, "idle")
  /\ UNCHANGED <<offered, access, super>>

Place(r, m, l) ==
  /\ Change(r, m, granted, flag, l)
  /\ UNCHANGED <<keys, dropped, roles, lists, invited>>

CreateMember(r) == member = Null /\ call[r].role \in roles /\ Place(r, call[r].role, "bump")

Join(r) == Is(r, "accept", "begin") /\ CreateMember(r)

MarkAsAccepted(r) ==
  /\ call[r].pc = "mark" /\ invited' = Null
  /\ Advance(r, "reply")
  /\ UNCHANGED <<offered, access, super>>

UpdateMemberRole(r) ==
  /\ Is(r, "setRole", "write") /\ member # Null /\ call[r].role \in roles
  /\ Place(r, call[r].role, "bump")

DeleteMember(r) ==
  /\ Is(r, "remove", "begin") /\ member # Null
  /\ Place(r, Null, "bump")

-----------------------------------------------------------------------------
(* setOverride and clearOverride.                                          *)
Override(r, f) ==
  /\ Change(r, member, granted, f, "bump")
  /\ UNCHANGED <<keys, dropped, roles, lists, invited>>

Upsert(r) == Is(r, "setFlag", "begin") /\ Override(r, call[r].list = {Feature})
DeleteFlag(r) == Is(r, "clearFlag", "begin") /\ Override(r, Null)

(* Faulty variant: no namespace gets a new version.                        *)
BumpNothing(r) ==
  /\ call[r].pc = "bump"
  /\ Advance(r, IF call[r].kind = "accept" THEN "mark" ELSE "reply")
  /\ UNCHANGED <<offered, access, invited, super>>

(* @InvalidateCache: feature flags, or memberships, the super admin's too. *)
BumpNamespaces(r) ==
  /\ call[r].pc = "bump"
  /\ IF call[r].kind \in {"setFlag", "clearFlag"}
     THEN lights' = {Lit(flag)} /\ UNCHANGED <<visible, inner, outer>>
     ELSE visible' = {Held(member, granted)} /\ inner' = Null /\ outer' = Null
            /\ UNCHANGED lights
  /\ Advance(r, IF call[r].kind = "accept" THEN "mark" ELSE "reply")
  /\ UNCHANGED <<offered, rows, withdrawn, faults, invited, admin, seed, whole, clock>>

(* A permission that was deleted stays in the cache and is not counted.    *)
Reply(r) ==
  /\ call[r].pc = "reply"
  /\ withdrawn' = withdrawn \cup (IF call[r].kind = "deletePermission" THEN {}
                                  ELSE call[r].took)
  /\ Advance(r, "idle")
  /\ UNCHANGED <<offered, rows, visible, lights, faults, invited, super>>

(* A check fails, an await rejects, or the process stops.                  *)
Fail(r) ==
  /\ call[r].pc # "idle" /\ Advance(r, "idle")
  /\ UNCHANGED <<offered, access, invited, super>>

-----------------------------------------------------------------------------
(* WorkspaceGuard, PermissionsGuard and FeatureGuard on a route that asks  *)
(* for a permission and the feature.                                       *)
Guard ==
  /\ \E P \in visible, F \in lights : slipped' = (slipped \/ (P \cup F) \cap withdrawn # {})
  /\ UNCHANGED <<offered, rows, visible, lights, withdrawn, lost, mixed, invited, call, super>>

-----------------------------------------------------------------------------
(* The seed: the permissions that are missing, then the super admin's role *)
(* is emptied and filled, in statements of their own and past the cache.   *)
Seeding == \E r \in Requests : <<r, "seed">> \in offered

SeedPermissions ==
  /\ Seeding /\ seed = "idle" /\ seed' = "empty"
  /\ keys' = keys \cup Global /\ whole' = Null
  /\ UNCHANGED <<offered, dropped, roles, granted, lists, member, flag, visible, lights,
                 withdrawn, slipped, invited, call, admin, inner, outer, clock>>

EmptyAdminRole ==
  /\ seed = "empty" /\ seed' = "fill" /\ admin' = {}
  /\ UNCHANGED <<offered, access, invited, call, whole, inner, outer, clock>>

FillAdminRole ==
  /\ seed = "fill" /\ seed' = "idle" /\ admin' = Global /\ whole' = clock
  /\ UNCHANGED <<offered, access, invited, call, inner, outer, clock>>

SeedDies ==
  /\ seed # "idle" /\ seed' = "idle"
  /\ UNCHANGED <<offered, access, invited, call, admin, whole, inner, outer, clock>>

Live(e) == e # Null /\ clock < e.at + Ttl
Stored(P) == [keys |-> P, at |-> clock]

(* findByUserAndWorkspace, of the admin workspace.                         *)
FindMembership == IF Live(inner) THEN inner.keys ELSE admin

VisitAdminWorkspace ==
  /\ Seeding
  /\ inner' = IF Live(inner) THEN inner ELSE Stored(admin)
  /\ UNCHANGED <<offered, access, invited, call, admin, seed, whole, outer, clock>>

(* Faulty variant: an entry that is used lives on.                         *)
FindSuperAdminSliding ==
  /\ Seeding
  /\ outer' = Stored(IF Live(outer) THEN outer.keys ELSE FindMembership)
  /\ inner' = IF Live(outer) \/ Live(inner) THEN inner ELSE Stored(admin)
  /\ UNCHANGED <<offered, access, invited, call, admin, seed, whole, clock>>

(* findSuperAdminMembership caches what it reads through the cache, so an  *)
(* old entry may start anew as it ends.                                    *)
FindSuperAdminMembership ==
  /\ Seeding
  /\ outer' = IF Live(outer) THEN outer ELSE Stored(FindMembership)
  /\ inner' = IF Live(outer) \/ Live(inner) THEN inner ELSE Stored(admin)
  /\ UNCHANGED <<offered, access, invited, call, admin, seed, whole, clock>>

Tick ==
  /\ Seeding /\ clock < ClockBound /\ clock' = clock + 1
  /\ UNCHANGED <<offered, access, invited, call, admin, seed, whole, inner, outer>>

-----------------------------------------------------------------------------
Step(r) ==
  \/ Create(r) \/ Update(r) \/ AddPermission(r) \/ Remove(r) \/ CreateKey(r)
  \/ RemoveKey(r) \/ Send(r) \/ Accept(r) \/ SetRole(r) \/ RemoveMember(r)
  \/ SetFlag(r) \/ ClearFlag(r) \/ FindByName(r) \/ CreateRole(r) \/ FindRole(r)
  \/ Replace(r) \/ Commit(r) \/ CountMembersUsingRole(r) \/ DeleteRole(r)
  \/ FindByKeyInScope(r) \/ CreatePermission(r) \/ FindByIdInWorkspace(r)
  \/ DeletePermission(r) \/ CreateInvitation(r) \/ Join(r) \/ MarkAsAccepted(r)
  \/ UpdateMemberRole(r) \/ DeleteMember(r) \/ Upsert(r) \/ DeleteFlag(r)
  \/ BumpNamespaces(r) \/ Reply(r) \/ Fail(r)

Next ==
  \/ Guard \/ SeedPermissions \/ EmptyAdminRole \/ FillAdminRole \/ SeedDies
  \/ VisitAdminWorkspace \/ FindSuperAdminMembership \/ Tick
  \/ \E r \in Requests : Step(r)

Spec == Init /\ [][Next]_vars

-----------------------------------------------------------------------------
(* A right that an answered request took away lets no later request in,    *)
(* however the role, the membership or the feature changed hands.  The     *)
(* deletion of a permission is no such request: it bumps nothing.          *)
WithdrawnStays == ~slipped

(* A role has the last list it was given, less deleted permissions, and    *)
(* never half of one, unless two requests replaced it at once.             *)
RoleIsItsList ==
  \A x \in roles \ mixed : Held(x, granted) = latest[x].list \ dropped

(* An assignment takes no permission away that the role had from the time  *)
(* the request arrived until it was written.                               *)
AssignKeeps == ~lost

(* Two lives of a cache entry after a seed was done, the super admin has   *)
(* every permission, whatever was cached while his role was empty.         *)
AdminRecovers ==
  whole # Null /\ clock >= whole + 2 * Ttl =>
    \A e \in {inner, outer} : Live(e) => e.keys = Global
=============================================================================
