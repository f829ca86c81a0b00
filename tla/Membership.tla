------------------------------ MODULE Membership ------------------------------
(***************************************************************************)
(* One workspace: its owner, its members and their roles, its invitations, *)
(* and the requests that change them.  A request is checked by             *)
(* WorkspaceGuard and PermissionsGuard and then awaits one statement after *)
(* another: what it checked may have changed when it writes.  Every check  *)
(* that fails throws, which is the action Fail.                            *)
(*                                                                         *)
(* The guard reads memberships through the cache.  FreshStore says what    *)
(* such a read may return: any row between the last one published and the  *)
(* present one.  visible holds those rows.  A read is one step: a row      *)
(* older than the read belongs to its beginning, a later one to the moment *)
(* it was loaded.                                                          *)
(***************************************************************************)
EXTENDS Naturals, FiniteSets

CONSTANTS Users,     \* a user stands for an id and an e-mail address
          Requests,
          Null,
          Offered,   \* bound: the kinds of request that are made
          Granted    \* bound: the roles that are asked for

Roles == {"Owner", "Admin", "Member"}
Kinds == {"transfer", "remove", "setRole", "invite", "accept", "revoke", "delete"}

ASSUME MembershipAssumption ==
  /\ Null \notin Users \cup Requests \cup Kinds
  /\ Users \cap Requests = {}
  /\ Offered \subseteq Kinds /\ Granted \subseteq Roles

VARIABLES owner,       \* Workspace.ownerId
          deleted,     \* Workspace.deletedAt is set
          members,     \* the workspace's rows of WorkspaceMember
          visible,     \* the rows a cached read may return
          invitations, \* the workspace's rows of Invitation
          rq,          \* [Requests -> the local state of a request]
          gone,        \* history: ids of members whose removal was answered
          spent,       \* history: invitations answered as accepted or revoked
          overtaken    \* history: a transfer overtook a check of its target

vars == <<owner, deleted, members, visible, invitations, rq, gone, spent, overtaken>>
workspace == <<owner, deleted, members, visible>>
history == <<gone, spent, overtaken>>

(* A row is named by the request that inserted it, and those there at the  *)
(* start by their user.                                                    *)
Ids == Users \cup Requests
Member == [id : Ids, user : Users, role : Roles]
Invitation == [id : Ids, user : Users, role : Roles,
               state : {"pending", "accepted", "expired"}]

Request ==
  [pc     : {"new", "begin", "check", "write", "bump", "mark", "reply", "end"},
   kind   : Kinds \cup {Null},
   caller : Users \cup {Null},
   as     : Ids \cup {Null},   \* the membership the guard let it in by
   may    : BOOLEAN,           \* it has the permission to remove members
   target : Ids \cup {Null},   \* the member or invitation it names
   user   : Users \cup {Null}, \* whom the target belongs to
   role   : Roles \cup {Null},
   late   : BOOLEAN]           \* history: its invitation was spent before

NoRequest == [pc |-> "new", kind |-> Null, caller |-> Null, as |-> Null,
              may |-> FALSE, target |-> Null, user |-> Null, role |-> Null,
              late |-> FALSE]

Unique(R) == \A x, y \in R : x.id = y.id => x = y

TypeOK ==
  /\ owner \in Users /\ deleted \in BOOLEAN
  /\ members \subseteq Member /\ Unique(members)
  /\ \A m, n \in members : m.user = n.user => m = n
  /\ members \subseteq visible /\ visible \subseteq Member
  /\ invitations \subseteq Invitation /\ Unique(invitations)
  /\ rq \in [Requests -> Request]
  /\ gone \subseteq Ids /\ spent \subseteq Ids
  /\ overtaken \in BOOLEAN

(* createWithDefaults makes the owner a member; some joined since, and     *)
(* somebody may be invited.                                                *)
Init ==
  /\ owner \in Users /\ deleted = FALSE
  /\ \E others \in SUBSET (Users \ {owner}), role \in [Users -> Roles \ {"Owner"}] :
       /\ members = {[id |-> u, user |-> u,
                      role |-> IF u = owner THEN "Owner" ELSE role[u]] :
                        u \in others \cup {owner}}
       /\ \E invited \in SUBSET (Users \ (others \cup {owner})) :
            invitations = {[id |-> u, user |-> u, role |-> role[u],
                            state |-> "pending"] : u \in invited}
  /\ visible = members
  /\ rq = [r \in Requests |-> NoRequest]
  /\ gone = {} /\ spent = {} /\ overtaken = FALSE

-----------------------------------------------------------------------------
(* The permissions of the default roles: Admin has all but the :delete     *)
(* ones, Member the :read ones and workspace:invite.                       *)
Permits(role, kind) ==
  CASE kind = "delete" -> role = "Owner"
    [] kind \in {"transfer", "setRole"} -> role \in {"Owner", "Admin"}
    [] OTHER -> TRUE

At(r, kinds, l) == rq[r].pc = l /\ rq[r].kind \in kinds
Goto(r, l) == rq' = [rq EXCEPT ![r].pc = l]

Named(k) == IF k = "revoke" THEN {i.id : i \in invitations}
            ELSE IF k = "invite" THEN Users
            ELSE IF k = "delete" THEN {Null}
            ELSE {m.id : m \in members}

(* WorkspaceGuard, PermissionsGuard and the route's parameters.            *)
Admit(r) ==
  /\ rq[r].pc = "new"
  /\ \E k \in Offered \ {"accept"}, m \in visible :
       /\ Permits(m.role, k)
       /\ \E t \in Named(k),
             role \in IF k \in {"setRole", "invite"} THEN Granted ELSE {Null} :
            rq' = [rq EXCEPT ![r] =
                     [@ EXCEPT !.pc = "begin", !.kind = k, !.caller = m.user,
                               !.as = m.id, !.may = m.role \in {"Owner", "Admin"},
                               !.target = t, !.role = role]]
  /\ UNCHANGED <<workspace, invitations, history>>

(* An acceptance is not guarded: the token is the invitation.              *)
Accept(r) ==
  /\ rq[r].pc = "new"
  /\ "accept" \in Offered
  /\ \E u \in Users, i \in {i.id : i \in invitations} \cup spent :
       rq' = [rq EXCEPT ![r] =
                [@ EXCEPT !.pc = "begin", !.kind = "accept", !.caller = u,
                          !.target = i, !.late = i \in spent]]
  /\ UNCHANGED <<workspace, invitations, history>>

(* A check fails, an await rejects, or the process stops.                  *)
Fail(r) ==
  /\ rq[r].pc \notin {"new", "end"}
  /\ rq' = [rq EXCEPT ![r] = [NoRequest EXCEPT !.pc = "end"]]
  /\ UNCHANGED <<workspace, invitations, history>>

(* Faulty variant: the version of workspaceMembers is left as it is.       *)
BumpNothing(r) ==
  /\ rq[r].pc = "bump"
  /\ Goto(r, IF rq[r].kind = "accept" THEN "mark" ELSE "reply")
  /\ UNCHANGED <<workspace, invitations, history>>

(* @InvalidateCache(workspaceMembers): whatever is read from now on is at  *)
(* least what is in the table now.                                         *)
BumpMembers(r) ==
  /\ rq[r].pc = "bump"
  /\ visible' = members
  /\ Goto(r, IF rq[r].kind = "accept" THEN "mark" ELSE "reply")
  /\ UNCHANGED <<owner, deleted, members, invitations, history>>

Reply(r) ==
  /\ rq[r].pc = "reply"
  /\ rq' = [rq EXCEPT ![r] = [NoRequest EXCEPT !.pc = "end"]]
  /\ gone' = IF rq[r].kind = "remove" THEN gone \cup {rq[r].target} ELSE gone
  /\ spent' = IF rq[r].kind \in {"accept", "revoke"}
              THEN spent \cup {rq[r].target} ELSE spent
  /\ UNCHANGED <<workspace, invitations, overtaken>>

-----------------------------------------------------------------------------
(* TransferOwnershipUseCase.  The role rows it looks up are system roles,  *)
(* which nobody can change; a wrong password is a Fail.                    *)
CheckOwner(r) ==
  /\ At(r, {"transfer"}, "begin")
  /\ ~deleted
  /\ owner = rq[r].caller
  /\ Goto(r, "check")
  /\ UNCHANGED <<workspace, invitations, history>>

FindTarget(r) ==
  /\ At(r, {"transfer"}, "check")
  /\ \E m \in members :
       /\ m.id = rq[r].target
       /\ m.user # rq[r].caller
       /\ rq' = [rq EXCEPT ![r].user = m.user, ![r].pc = "write"]
  /\ UNCHANGED <<workspace, invitations, history>>

WithRole(M, u, role) == {IF m.user = u THEN [m EXCEPT !.role = role] ELSE m : m \in M}

(* q has checked that u is not the owner and not yet written.              *)
Checked(q, u) == At(q, {"remove", "setRole"}, "write") /\ rq[q].user = u

(* Faulty variant: the target's row need not exist any more.               *)
TransferToAnybody(r) ==
  /\ At(r, {"transfer"}, "write")
  /\ \E m \in members : m.user = rq[r].caller
  /\ members' = WithRole(WithRole(members, rq[r].caller, "Admin"), rq[r].user, "Owner")
  /\ visible' = visible \cup members'
  /\ owner' = rq[r].user
  /\ overtaken' = (overtaken \/ \E q \in Requests : Checked(q, rq[r].user))
  /\ Goto(r, "bump")
  /\ UNCHANGED <<deleted, invitations, gone, spent>>

(* The transaction; an update of a row that is not there fails it.         *)
TransferOwnership(r) ==
  /\ At(r, {"transfer"}, "write")
  /\ \E m \in members : m.user = rq[r].caller
  /\ \E m \in members : m.user = rq[r].user
  /\ members' = WithRole(WithRole(members, rq[r].caller, "Admin"), rq[r].user, "Owner")
  /\ visible' = visible \cup members'
  /\ owner' = rq[r].user
  /\ overtaken' = (overtaken \/ \E q \in Requests : Checked(q, rq[r].user))
  /\ Goto(r, "bump")
  /\ UNCHANGED <<deleted, invitations, gone, spent>>

-----------------------------------------------------------------------------
(* RemoveMemberUseCase and UpdateMemberRoleUseCase.                        *)
FindMember(r) ==
  /\ At(r, {"remove", "setRole"}, "begin")
  /\ \E m \in members :
       /\ m.id = rq[r].target
       /\ rq' = [rq EXCEPT ![r].user = m.user, ![r].pc = "check"]
  /\ UNCHANGED <<workspace, invitations, history>>

(* In a deleted workspace workspace?.ownerId is undefined and nobody is    *)
(* the owner.                                                              *)
CheckNotOwner(r) ==
  /\ At(r, {"remove", "setRole"}, "check")
  /\ deleted \/ owner # rq[r].user
  /\ rq[r].kind = "remove" => rq[r].may \/ rq[r].user = rq[r].caller
  /\ Goto(r, "write")
  /\ UNCHANGED <<workspace, invitations, history>>

RemoveMember(r) ==
  /\ At(r, {"remove"}, "write")
  /\ \E m \in members : m.id = rq[r].target /\ members' = members \ {m}
  /\ Goto(r, "bump")
  /\ UNCHANGED <<owner, deleted, visible, invitations, history>>

UpdateRole(r) ==
  /\ At(r, {"setRole"}, "write")
  /\ \E m \in members :
       /\ m.id = rq[r].target
       /\ members' = WithRole(members, m.user, rq[r].role)
  /\ visible' = visible \cup members'
  /\ Goto(r, "bump")
  /\ UNCHANGED <<owner, deleted, invitations, history>>

-----------------------------------------------------------------------------
(* SendInvitationUseCase.  Its cached look-up of a membership may answer   *)
(* with a row that is gone (a Fail), and without one only if there is none.*)
CheckNotMember(r) ==
  /\ \/ /\ At(r, {"invite"}, "begin")
        /\ ~\E m \in members : m.user = rq[r].target
        /\ rq' = [rq EXCEPT ![r].user = rq[r].target, ![r].pc = "check"]
     \/ /\ At(r, {"accept"}, "check")
        /\ ~\E m \in members : m.user = rq[r].caller
        /\ Goto(r, "write")
  /\ UNCHANGED <<workspace, invitations, history>>

CheckNotPending(r) ==
  /\ At(r, {"invite"}, "check")
  /\ ~\E i \in invitations : i.user = rq[r].user /\ i.state = "pending"
  /\ Goto(r, "write")
  /\ UNCHANGED <<workspace, invitations, history>>

CreateInvitation(r) ==
  /\ At(r, {"invite"}, "write")
  /\ invitations' = invitations \cup {[id |-> r, user |-> rq[r].user,
                                       role |-> rq[r].role, state |-> "pending"]}
  /\ Goto(r, "reply")
  /\ UNCHANGED <<workspace, history>>

(* AcceptInvitationUseCase.                                                *)
FindInvitation(r) ==
  /\ At(r, {"accept"}, "begin")
  /\ \E i \in invitations :
       /\ i.id = rq[r].target
       /\ i.state = "pending"
       /\ i.user = rq[r].caller
       /\ rq' = [rq EXCEPT ![r].role = i.role, ![r].pc = "check"]
  /\ UNCHANGED <<workspace, invitations, history>>

(* Faulty variant: nothing keeps a user from having two rows.              *)
JoinAgain(r) ==
  /\ At(r, {"accept"}, "write")
  /\ members' = members \cup {[id |-> r, user |-> rq[r].caller, role |-> rq[r].role]}
  /\ visible' = visible \cup members'
  /\ Goto(r, "bump")
  /\ UNCHANGED <<owner, deleted, invitations, history>>

(* The constraint on user and workspace is what keeps rows apart.          *)
Join(r) ==
  /\ At(r, {"accept"}, "write")
  /\ ~\E m \in members : m.user = rq[r].caller
  /\ members' = members \cup {[id |-> r, user |-> rq[r].caller, role |-> rq[r].role]}
  /\ visible' = visible \cup members'
  /\ Goto(r, "bump")
  /\ UNCHANGED <<owner, deleted, invitations, history>>

(* Faulty variant: the answer does not wait for the mark.                  *)
MarkNothing(r) ==
  /\ At(r, {"accept"}, "mark")
  /\ Goto(r, "reply")
  /\ UNCHANGED <<workspace, invitations, history>>

MarkAsAccepted(r) ==
  /\ At(r, {"accept"}, "mark")
  /\ \E i \in invitations :
       /\ i.id = rq[r].target
       /\ invitations' = (invitations \ {i}) \cup {[i EXCEPT !.state = "accepted"]}
  /\ Goto(r, "reply")
  /\ UNCHANGED <<workspace, history>>

(* RevokeInvitationUseCase.                                                *)
FindRevocable(r) ==
  /\ At(r, {"revoke"}, "begin")
  /\ \E i \in invitations : i.id = rq[r].target /\ i.state # "accepted"
  /\ Goto(r, "write")
  /\ UNCHANGED <<workspace, invitations, history>>

DeleteInvitation(r) ==
  /\ At(r, {"revoke"}, "write")
  /\ \E i \in invitations : i.id = rq[r].target /\ invitations' = invitations \ {i}
  /\ Goto(r, "reply")
  /\ UNCHANGED <<workspace, history>>

(* Seven days pass.                                                        *)
Lapse(i) ==
  /\ i.state = "pending"
  /\ invitations' = (invitations \ {i}) \cup {[i EXCEPT !.state = "expired"]}
  /\ UNCHANGED <<workspace, rq, history>>

(* DeleteWorkspaceUseCase: only the flag is set; members stay.             *)
FindWorkspace(r) ==
  /\ At(r, {"delete"}, "begin")
  /\ ~deleted
  /\ Goto(r, "write")
  /\ UNCHANGED <<workspace, invitations, history>>

SoftDelete(r) ==
  /\ At(r, {"delete"}, "write")
  /\ deleted' = TRUE
  /\ Goto(r, "reply")
  /\ UNCHANGED <<owner, members, visible, invitations, history>>

-----------------------------------------------------------------------------
Step(r) ==
  \/ Admit(r) \/ Accept(r) \/ Fail(r) \/ BumpMembers(r) \/ Reply(r)
  \/ CheckOwner(r) \/ FindTarget(r) \/ TransferOwnership(r)
  \/ FindMember(r) \/ CheckNotOwner(r) \/ RemoveMember(r) \/ UpdateRole(r)
  \/ CheckNotMember(r) \/ CheckNotPending(r) \/ CreateInvitation(r)
  \/ FindInvitation(r) \/ Join(r) \/ MarkAsAccepted(r)
  \/ FindRevocable(r) \/ DeleteInvitation(r)
  \/ FindWorkspace(r) \/ SoftDelete(r)

Next == (\E r \in Requests : Step(r)) \/ (\E i \in invitations : Lapse(i))

Spec == Init /\ [][Next]_vars

-----------------------------------------------------------------------------
OwnerIsMember == \E m \in members : m.user = owner /\ m.role = "Owner"

(* The owner of a workspace that is not deleted is one of its members, in  *)
(* the role Owner.                                                         *)
OwnerStays == ~deleted => OwnerIsMember

(* Only a transfer that overtakes a removal or a role change, between its  *)
(* look at the owner and its write, takes the owner's membership or role.  *)
(* Transfers that overtake each other, or whose target leaves, do not.     *)
OwnerHolds == ~overtaken => OwnerStays

(* Nobody is let in by a membership whose removal was answered.            *)
RemovedStaysOut ==
  [][\A r \in Requests : rq'[r].as # rq[r].as => rq'[r].as \notin gone]_vars

(* An invitation that was answered as accepted or as revoked brings nobody *)
(* in any more, not even one who was removed since.                        *)
SpentInvitation == \A r \in Requests : rq[r].late => rq[r].pc = "begin"
=============================================================================
