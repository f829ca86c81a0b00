-------------------------- MODULE Membership_proofs --------------------------
(***************************************************************************)
(* Proofs about Membership, for every set of users and requests.           *)
(***************************************************************************)
EXTENDS Membership, TLAPS

(* r has inserted no row yet.                                              *)
Early(r) == rq[r].pc \in {"new", "begin", "check", "write"}

(* Nobody knows the id of a row that is not inserted yet.                  *)
Known == Users \cup {Null} \cup {r \in Requests : ~Early(r)}
KnownInv ==
  /\ \A m \in visible : m.id \in Known
  /\ \A i \in invitations : i.id \in Known
  /\ gone \subseteq Known /\ spent \subseteq Known
  /\ \A r \in Requests : rq[r].target \in Known

(* A removal or role change knows whose row it is about to write, and,     *)
(* unless it was overtaken, that it is not the owner's.                    *)
TargetInv(r) ==
  At(r, {"remove", "setRole"}, "check") \/ At(r, {"remove", "setRole"}, "write") =>
    \A m \in members : m.id = rq[r].target => m.user = rq[r].user
OtherInv(r) ==
  At(r, {"remove", "setRole"}, "write") /\ ~overtaken /\ ~deleted =>
    rq[r].user # owner

(* A removed row leaves the table, then the cache, and then it is answered.*)
GoneInv == \A m \in visible : m.id \notin gone
RemovedInv(r) ==
  /\ At(r, {"remove"}, "bump") => \A m \in members : m.id # rq[r].target
  /\ At(r, {"remove"}, "reply") => \A m \in visible : m.id # rq[r].target

(* What is spent is accepted or deleted before it is answered.             *)
Used(t) == \A i \in invitations : i.id = t => i.state = "accepted"
SpentInv == \A s \in spent : Used(s)
LateInv(r) ==
  /\ At(r, {"accept", "revoke"}, "reply") => Used(rq[r].target)
  /\ rq[r].late => /\ rq[r].kind = "accept" /\ rq[r].target \in spent
                   /\ rq[r].pc = "begin"

(* What a request was given, or found, before it writes.                   *)
ArgsInv(r) ==
  /\ rq[r].kind = "invite" => rq[r].target \in Users
  /\ rq[r].kind = "accept" => rq[r].caller \in Users
  /\ rq[r].kind \in {"setRole", "invite"} => rq[r].role \in Roles
  /\ At(r, {"invite"}, "check") \/ At(r, {"invite"}, "write") => rq[r].user \in Users
  /\ At(r, {"accept"}, "check") \/ At(r, {"accept"}, "write") => rq[r].role \in Roles
  /\ rq[r].pc = "bump" => rq[r].kind # "revoke"
  /\ rq[r].kind \in {"remove", "accept", "revoke"} => rq[r].target # Null

RequestInv(r) ==
  TargetInv(r) /\ OtherInv(r) /\ RemovedInv(r) /\ LateInv(r) /\ ArgsInv(r)

MembershipInv ==
  /\ TypeOK /\ KnownInv /\ OwnerHolds /\ GoneInv /\ SpentInv
  /\ \A r \in Requests : RequestInv(r)

-----------------------------------------------------------------------------
LEMMA MembershipInit == Init => MembershipInv
<1> SUFFICES ASSUME Init PROVE MembershipInv
  OBVIOUS
<1>1. PICK others \in SUBSET (Users \ {owner}), role \in [Users -> Roles \ {"Owner"}] :
        /\ members = {[id |-> u, user |-> u,
                       role |-> IF u = owner THEN "Owner" ELSE role[u]] :
                         u \in others \cup {owner}}
        /\ \E invited \in SUBSET (Users \ (others \cup {owner})) :
             invitations = {[id |-> u, user |-> u, role |-> role[u],
                             state |-> "pending"] : u \in invited}
  BY DEF Init
<1>2. /\ owner \in Users /\ deleted = FALSE /\ visible = members
      /\ rq = [r \in Requests |-> NoRequest]
      /\ gone = {} /\ spent = {} /\ overtaken = FALSE
  BY DEF Init
<1>3. members \subseteq Member /\ \A m \in members : m.id = m.user
  BY <1>1, <1>2 DEF Member, Ids, Roles
<1>4. Unique(members) /\ \A m, n \in members : m.user = n.user => m = n
  BY <1>1 DEF Unique
<1>5. invitations \subseteq Invitation /\ \A i \in invitations : i.id \in Users
  BY <1>1 DEF Invitation, Ids, Roles
<1>6. Unique(invitations)
  BY <1>1 DEF Unique
<1>7. rq \in [Requests -> Request] /\ \A r \in Requests : rq[r] = NoRequest
  BY <1>2 DEF Request, NoRequest
<1>8. TypeOK
  BY <1>2, <1>3, <1>4, <1>5, <1>6, <1>7 DEF TypeOK
<1>9. KnownInv
  BY <1>2, <1>3, <1>5, <1>7 DEF KnownInv, Known, NoRequest, Member
<1>10. OwnerHolds
  <2>1. [id |-> owner, user |-> owner, role |-> "Owner"] \in members
    BY <1>1, <1>2
  <2>2. QED BY <2>1 DEF OwnerHolds, OwnerStays, OwnerIsMember
<1>11. GoneInv /\ SpentInv /\ \A r \in Requests : RequestInv(r)
  BY <1>2, <1>7, MembershipAssumption
                DEF Kinds, GoneInv, SpentInv, RequestInv, TargetInv, OtherInv, RemovedInv,
                    LateInv, ArgsInv, At, NoRequest
<1>12. QED BY <1>8, <1>9, <1>10, <1>11 DEF MembershipInv

(* Steps that change only what a request keeps for itself.                 *)
LEMMA LocalStep ==
  ASSUME MembershipInv, NEW r \in Requests, UNCHANGED <<workspace, invitations, history>>,
         NEW x \in Request, rq' = [rq EXCEPT ![r] = x],
         x.pc \in {"new", "begin", "check", "write"} => Early(r),
         x.target \in Known, RequestInv(r)'
  PROVE  MembershipInv'
<1>1. rq' \in [Requests -> Request] /\ rq'[r] = x
      /\ \A q \in Requests \ {r} : rq'[q] = rq[q]
  BY DEF MembershipInv, TypeOK
<1>2. UNCHANGED <<owner, deleted, members, visible, invitations, gone, spent, overtaken>>
  BY DEF workspace, history
<1>3. TypeOK' /\ OwnerHolds' /\ GoneInv' /\ SpentInv'
  BY <1>1, <1>2 DEF MembershipInv, TypeOK, Unique, OwnerHolds, OwnerStays, OwnerIsMember,
                    GoneInv, SpentInv, Used
<1>4. \A q \in Requests : Early(q)' => Early(q)
  BY <1>1 DEF Early
<1>5. Known \subseteq Known'
  BY <1>4 DEF Known
<1>6. KnownInv'
  BY <1>1, <1>2, <1>5 DEF MembershipInv, KnownInv
<1>7. ASSUME NEW q \in Requests PROVE RequestInv(q)'
  <2>1. CASE q = r
    BY <2>1
  <2>2. CASE q # r
    <3>1. rq'[q] = rq[q]
      BY <1>1, <2>2
    <3>2. RequestInv(q)
      BY DEF MembershipInv
    <3>3. QED
      BY <1>2, <3>1, <3>2 DEF RequestInv, TargetInv, OtherInv, RemovedInv, LateInv, ArgsInv, At, Used
  <2>3. QED BY <2>1, <2>2
<1>8. QED BY <1>3, <1>6, <1>7 DEF MembershipInv

LEMMA AdmitStep ==
  ASSUME MembershipInv, NEW r \in Requests, Admit(r)
  PROVE  MembershipInv'
<1>1. PICK k \in Offered \ {"accept"}, m \in visible : \E t \in Named(k),
             role \in IF k \in {"setRole", "invite"} THEN Granted ELSE {Null} :
            rq' = [rq EXCEPT ![r] =
                     [rq[r] EXCEPT !.pc = "begin", !.kind = k, !.caller = m.user,
                               !.as = m.id, !.may = m.role \in {"Owner", "Admin"},
                               !.target = t, !.role = role]]
  BY DEF Admit
<1>2. PICK t \in Named(k),
           role \in IF k \in {"setRole", "invite"} THEN Granted ELSE {Null} :
            rq' = [rq EXCEPT ![r] =
                     [rq[r] EXCEPT !.pc = "begin", !.kind = k, !.caller = m.user,
                               !.as = m.id, !.may = m.role \in {"Owner", "Admin"},
                               !.target = t, !.role = role]]
  BY <1>1
<1> DEFINE x == [rq[r] EXCEPT !.pc = "begin", !.kind = k, !.caller = m.user,
                               !.as = m.id, !.may = m.role \in {"Owner", "Admin"},
                               !.target = t, !.role = role]
<1>3. rq[r] \in Request /\ rq[r].pc = "new" /\ m \in Member /\ k \in Kinds \ {"accept"}
      /\ role \in Roles \cup {Null}
  BY MembershipAssumption DEF MembershipInv, TypeOK, Admit
<1>4. t \in Known
  BY <1>3 DEF Named, MembershipInv, KnownInv, TypeOK, Known
<1>5. t \in Ids \cup {Null}
  BY <1>4 DEF Known, Ids
<1>6. x \in Request /\ x.target = t /\ x.pc = "begin" /\ x.kind = k /\ x.late = rq[r].late
      /\ x.role = role
  <2>1. m.user \in Users /\ m.id \in Ids /\ (m.role \in {"Owner", "Admin"}) \in BOOLEAN
    BY <1>3 DEF Member
  <2>2. QED BY <1>3, <1>5, <2>1 DEF Request
<1>7. rq[r].late => FALSE
  BY <1>3 DEF MembershipInv, RequestInv, LateInv
<1>8. rq' = [rq EXCEPT ![r] = x] /\ rq'[r] = x
  BY <1>2, <1>3 DEF MembershipInv, TypeOK
<1> HIDE DEF x
<1>9. RequestInv(r)'
  <2>1. k \in {"setRole", "invite"} => role \in Roles
    BY MembershipAssumption DEF Roles
  <2>2. k = "invite" => t \in Users
    BY DEF Named
  <2>a. k \in {"remove", "revoke"} => t # Null
    BY MembershipAssumption
       DEF Named, MembershipInv, TypeOK, Member, Invitation, Ids
  <2>3. QED
    BY <1>3, <1>6, <1>7, <1>8, <2>1, <2>2, <2>a
       DEF RequestInv, TargetInv, OtherInv, RemovedInv, LateInv, ArgsInv, At
<1>10. UNCHANGED <<workspace, invitations, history>> /\ Early(r)
  BY <1>3 DEF Admit, Early
<1>11. QED BY <1>4, <1>6, <1>8, <1>9, <1>10, LocalStep

LEMMA AcceptStep ==
  ASSUME MembershipInv, NEW r \in Requests, Accept(r)
  PROVE  MembershipInv'
<1>1. PICK u \in Users, i \in {j.id : j \in invitations} \cup spent :
        rq' = [rq EXCEPT ![r] =
                 [rq[r] EXCEPT !.pc = "begin", !.kind = "accept", !.caller = u,
                               !.target = i, !.late = i \in spent]]
  BY DEF Accept
<1> DEFINE x == [rq[r] EXCEPT !.pc = "begin", !.kind = "accept", !.caller = u,
                              !.target = i, !.late = i \in spent]
<1>2. rq[r] \in Request /\ rq[r].pc = "new"
  BY DEF MembershipInv, TypeOK, Accept
<1>3. i \in Known
  BY DEF MembershipInv, KnownInv
<1>4. i \in Ids \cup {Null} /\ (i \in spent) \in BOOLEAN
  BY <1>3 DEF Known, Ids
<1>5. x \in Request /\ x.target = i /\ x.pc = "begin" /\ x.kind = "accept"
      /\ x.caller = u
  BY <1>2, <1>4 DEF Request, Kinds
<1>6. x.late = (i \in spent)
  BY <1>2 DEF Request
<1>7. rq' = [rq EXCEPT ![r] = x] /\ rq'[r] = x
  BY <1>1 DEF MembershipInv, TypeOK
<1>8. UNCHANGED <<workspace, invitations, history>> /\ Early(r)
  BY <1>2 DEF Accept, Early
<1> HIDE DEF x
<1>a. i # Null
  BY MembershipAssumption DEF MembershipInv, TypeOK, Invitation, Ids
<1>9. RequestInv(r)'
  BY <1>a, <1>5, <1>6, <1>7, <1>8 DEF RequestInv, TargetInv, OtherInv, RemovedInv, LateInv, ArgsInv, At,
                            history
<1>10. QED BY <1>3, <1>5, <1>7, <1>8, <1>9, LocalStep

LEMMA FailStep ==
  ASSUME MembershipInv, NEW r \in Requests, Fail(r)
  PROVE  MembershipInv'
<1> DEFINE x == [NoRequest EXCEPT !.pc = "end"]
<1>1. rq' = [rq EXCEPT ![r] = x] /\ UNCHANGED <<workspace, invitations, history>>
  BY DEF Fail
<1>2. x \in Request /\ x.pc = "end" /\ x.kind = Null /\ x.target = Null /\ x.late = FALSE
  BY DEF NoRequest, Request
<1>3. rq'[r] = x
  BY <1>1 DEF MembershipInv, TypeOK
<1> HIDE DEF x
<1>4. RequestInv(r)'
  BY <1>2, <1>3, MembershipAssumption
     DEF Kinds, RequestInv, TargetInv, OtherInv, RemovedInv, LateInv, ArgsInv, At
<1>5. QED BY <1>1, <1>2, <1>4, LocalStep DEF Known

(* A look-up or a check that lets the request go on.                       *)
LEMMA GoOnStep ==
  ASSUME MembershipInv, NEW r \in Requests, UNCHANGED <<workspace, invitations, history>>,
         NEW l \in {"check", "write"}, NEW u \in Users \cup {Null},
         NEW o \in Roles \cup {Null},
         rq' = [rq EXCEPT ![r] = [rq[r] EXCEPT !.pc = l, !.user = u, !.role = o]],
         Early(r), ~rq[r].late,
         rq[r].kind = "invite" => u \in Users,
         rq[r].kind \in {"setRole", "invite", "accept"} => o \in Roles,
         rq[r].kind \in {"remove", "setRole"} =>
           /\ \A m \in members : m.id = rq[r].target => m.user = u
           /\ l = "write" => deleted \/ u # owner
  PROVE  MembershipInv'
<1> DEFINE x == [rq[r] EXCEPT !.pc = l, !.user = u, !.role = o]
<1>1. rq[r] \in Request /\ rq[r].target \in Known
  BY DEF MembershipInv, TypeOK, KnownInv
<1>a. ArgsInv(r)
  BY DEF MembershipInv, RequestInv
<1>2. x \in Request /\ x.target = rq[r].target /\ x.pc = l /\ x.kind = rq[r].kind
      /\ x.late = rq[r].late /\ x.user = u
      /\ x.role = o /\ x.caller = rq[r].caller
  BY <1>1 DEF Request
<1>3. rq'[r] = x
  BY DEF MembershipInv, TypeOK
<1> HIDE DEF x
<1>4. RequestInv(r)'
  BY <1>a, <1>2, <1>3
     DEF RequestInv, TargetInv, OtherInv, RemovedInv, LateInv, ArgsInv, At, workspace
<1>5. QED
  BY <1>1, <1>2, <1>3, <1>4, LocalStep DEF x

LEMMA CheckStep ==
  ASSUME MembershipInv, NEW r \in Requests,
         \/ CheckOwner(r) \/ FindTarget(r) \/ FindMember(r) \/ CheckNotOwner(r)
         \/ CheckNotMember(r) \/ CheckNotPending(r) \/ FindInvitation(r)
         \/ FindRevocable(r) \/ FindWorkspace(r)
  PROVE  MembershipInv'
<1>1. rq[r] \in Request /\ rq \in [Requests -> Request] /\ members \subseteq Member
      /\ invitations \subseteq Invitation /\ Unique(members)
  BY DEF MembershipInv, TypeOK
<1>2. UNCHANGED <<workspace, invitations, history>> /\ Early(r)
  BY DEF CheckOwner, FindTarget, FindMember, CheckNotOwner, CheckNotMember, CheckNotPending,
         FindInvitation, FindRevocable, FindWorkspace, At, Early
<1>3. RequestInv(r)
  BY DEF MembershipInv
<1>4. ~rq[r].late
  <2>1. ASSUME rq[r].late PROVE FALSE
    <3>1. rq[r].kind = "accept" /\ rq[r].pc = "begin" /\ rq[r].target \in spent
      BY <1>3, <2>1 DEF RequestInv, LateInv
    <3>2. FindInvitation(r)
      BY <3>1 DEF CheckOwner, FindTarget, FindMember, CheckNotOwner, CheckNotMember,
                  CheckNotPending, FindRevocable, FindWorkspace, At
    <3>3. QED
      BY <3>1, <3>2 DEF FindInvitation, MembershipInv, SpentInv, Used
  <2>2. QED BY <2>1
<1>5. rq[r].user \in Users \cup {Null} /\ rq[r].role \in Roles \cup {Null}
  BY <1>1 DEF Request
<1>a. ArgsInv(r)
  BY <1>3 DEF RequestInv
<1>6. CASE CheckOwner(r) \/ CheckNotPending(r) \/ FindRevocable(r) \/ FindWorkspace(r)
           \/ (CheckNotMember(r) /\ At(r, {"accept"}, "check"))
  <2>1. PICK l \in {"check", "write"} : rq' = [rq EXCEPT ![r].pc = l]
    BY <1>6 DEF CheckOwner, CheckNotPending, FindRevocable, FindWorkspace, CheckNotMember,
                Goto, At
  <2>2. rq' = [rq EXCEPT ![r] = [rq[r] EXCEPT !.pc = l, !.user = rq[r].user,
                                              !.role = rq[r].role]]
    BY <1>1, <2>1 DEF Request
  <2>3. rq[r].kind \notin {"remove", "setRole"}
    BY <1>6 DEF CheckOwner, CheckNotPending, FindRevocable, FindWorkspace, At
  <2>4. /\ rq[r].kind = "invite" => rq[r].user \in Users
        /\ rq[r].kind = "accept" => rq[r].role \in Roles
    BY <1>a, <1>6 DEF CheckOwner, CheckNotPending, FindRevocable, FindWorkspace, ArgsInv, At
  <2>5. QED BY <1>a, <1>2, <1>4, <1>5, <2>2, <2>3, <2>4, GoOnStep DEF ArgsInv
<1>7. CASE FindTarget(r)
  <2>1. PICK m \in members : rq' = [rq EXCEPT ![r].user = m.user, ![r].pc = "write"]
    BY <1>7 DEF FindTarget
  <2>2. m.user \in Users
    BY <1>1 DEF Member
  <2>3. rq' = [rq EXCEPT ![r] = [rq[r] EXCEPT !.pc = "write", !.user = m.user,
                                              !.role = rq[r].role]]
    BY <1>1, <2>1 DEF Request
  <2>4. rq[r].kind = "transfer"
    BY <1>7 DEF FindTarget, At
  <2>5. QED BY <1>2, <1>4, <1>5, <2>2, <2>3, <2>4, GoOnStep
<1>8. CASE FindMember(r)
  <2>1. PICK m \in members : m.id = rq[r].target
                             /\ rq' = [rq EXCEPT ![r].user = m.user, ![r].pc = "check"]
    BY <1>8 DEF FindMember
  <2>2. m.user \in Users /\ \A n \in members : n.id = rq[r].target => n.user = m.user
    BY <1>1, <2>1 DEF Member, Unique
  <2>3. rq' = [rq EXCEPT ![r] = [rq[r] EXCEPT !.pc = "check", !.user = m.user,
                                              !.role = rq[r].role]]
    BY <1>1, <2>1 DEF Request
  <2>4. rq[r].kind \in {"remove", "setRole"}
    BY <1>8 DEF FindMember, At
  <2>5. QED BY <1>a, <1>2, <1>4, <1>5, <2>2, <2>3, <2>4, GoOnStep DEF ArgsInv
<1>9. CASE CheckNotOwner(r)
  <2>1. rq' = [rq EXCEPT ![r] = [rq[r] EXCEPT !.pc = "write", !.user = rq[r].user,
                                              !.role = rq[r].role]]
    BY <1>1, <1>9 DEF CheckNotOwner, Goto, Request
  <2>2. /\ \A m \in members : m.id = rq[r].target => m.user = rq[r].user
        /\ deleted \/ rq[r].user # owner
    BY <1>3, <1>9 DEF CheckNotOwner, RequestInv, TargetInv
  <2>3. rq[r].kind \in {"remove", "setRole"}
    BY <1>9 DEF CheckNotOwner, At
  <2>4. QED BY <1>a, <1>2, <1>4, <1>5, <2>1, <2>2, <2>3, GoOnStep DEF ArgsInv
<1>10. CASE CheckNotMember(r) /\ At(r, {"invite"}, "begin")
  <2>1. /\ rq' = [rq EXCEPT ![r].user = rq[r].target, ![r].pc = "check"]
        /\ rq[r].kind = "invite"
    BY <1>10 DEF CheckNotMember, At
  <2>2. rq' = [rq EXCEPT ![r] = [rq[r] EXCEPT !.pc = "check", !.user = rq[r].target,
                                              !.role = rq[r].role]]
    BY <1>1, <2>1 DEF Request
  <2>3. QED BY <1>a, <1>2, <1>4, <1>5, <2>1, <2>2, GoOnStep DEF ArgsInv
<1>11. CASE FindInvitation(r)
  <2>1. PICK i \in invitations : rq' = [rq EXCEPT ![r].role = i.role, ![r].pc = "check"]
    BY <1>11 DEF FindInvitation
  <2>2. i.role \in Roles
    BY <1>1 DEF Invitation
  <2>3. rq' = [rq EXCEPT ![r] = [rq[r] EXCEPT !.pc = "check", !.user = rq[r].user,
                                              !.role = i.role]]
    BY <1>1, <2>1 DEF Request
  <2>4. rq[r].kind = "accept"
    BY <1>11 DEF FindInvitation, At
  <2>5. QED BY <1>2, <1>4, <1>5, <2>2, <2>3, <2>4, GoOnStep
<1>12. QED
  BY <1>6, <1>7, <1>8, <1>9, <1>10, <1>11 DEF CheckNotMember

-----------------------------------------------------------------------------
(* Steps that write the tables.  The request keeps what it knows and goes  *)
(* on to l; the other requests keep everything.                            *)
LEMMA Moved ==
  ASSUME MembershipInv, NEW r \in Requests, NEW l \in {"bump", "mark", "reply"},
         Goto(r, l)
  PROVE  /\ rq' \in [Requests -> Request]
         /\ rq'[r] = [rq[r] EXCEPT !.pc = l] /\ rq'[r].pc = l
         /\ rq'[r].kind = rq[r].kind /\ rq'[r].target = rq[r].target
         /\ rq'[r].late = rq[r].late /\ rq'[r].role = rq[r].role
         /\ rq'[r].caller = rq[r].caller
         /\ \A q \in Requests \ {r} : rq'[q] = rq[q]
         /\ \A q \in Requests : rq'[q].target = rq[q].target
         /\ Known' = Known \cup {r}
<1>1. rq \in [Requests -> Request] /\ rq[r] \in Request
  BY DEF MembershipInv, TypeOK
<1>2. rq' = [rq EXCEPT ![r].pc = l]
  BY DEF Goto
<1>3. [rq[r] EXCEPT !.pc = l] \in Request
  BY <1>1 DEF Request
<1>4. rq' \in [Requests -> Request] /\ rq'[r] = [rq[r] EXCEPT !.pc = l]
      /\ \A q \in Requests \ {r} : rq'[q] = rq[q]
  BY <1>1, <1>2, <1>3
<1>5. /\ rq'[r].pc = l
      /\ rq'[r].kind = rq[r].kind /\ rq'[r].target = rq[r].target
      /\ rq'[r].late = rq[r].late /\ rq'[r].role = rq[r].role
      /\ rq'[r].caller = rq[r].caller
  BY <1>1, <1>4 DEF Request
<1>6. Known' = Known \cup {r}
  BY <1>4, <1>5 DEF Known, Early
<1>7. QED BY <1>4, <1>5, <1>6

LEMMA BumpStep ==
  ASSUME MembershipInv, NEW r \in Requests, BumpMembers(r)
  PROVE  MembershipInv'
<1>1. rq[r].pc = "bump" /\ visible' = members
      /\ UNCHANGED <<owner, deleted, members, invitations, gone, spent, overtaken>>
      /\ members \subseteq visible
  BY DEF BumpMembers, history, MembershipInv, TypeOK
<1>2. PICK l \in {"mark", "reply"} : Goto(r, l) /\ (l = "reply" => rq[r].kind # "accept")
  BY DEF BumpMembers
<1>3. /\ rq' \in [Requests -> Request] /\ rq'[r].pc = l
      /\ rq'[r].kind = rq[r].kind /\ rq'[r].target = rq[r].target
      /\ rq'[r].late = rq[r].late /\ rq'[r].role = rq[r].role
      /\ rq'[r].caller = rq[r].caller
      /\ \A q \in Requests \ {r} : rq'[q] = rq[q]
      /\ \A q \in Requests : rq'[q].target = rq[q].target
      /\ Known' = Known \cup {r}
  BY <1>2, Moved
<1>4. TypeOK' /\ OwnerHolds' /\ GoneInv' /\ SpentInv' /\ KnownInv'
  BY <1>1, <1>3 DEF MembershipInv, TypeOK, Unique, OwnerHolds, OwnerStays, OwnerIsMember,
                    GoneInv, SpentInv, Used, KnownInv
<1>5. ASSUME NEW q \in Requests PROVE RequestInv(q)'
  <2>1. RequestInv(q)
    BY DEF MembershipInv
  <2>2. CASE q = r
    BY <1>1, <1>2, <1>3, <2>1, <2>2
       DEF RequestInv, TargetInv, OtherInv, RemovedInv, LateInv, ArgsInv, At, Used
  <2>3. CASE q # r
    BY <1>1, <1>3, <2>1, <2>3
       DEF RequestInv, TargetInv, OtherInv, RemovedInv, LateInv, ArgsInv, At, Used
  <2>4. QED BY <2>2, <2>3
<1>6. QED BY <1>4, <1>5 DEF MembershipInv

LEMMA ReplyStep ==
  ASSUME MembershipInv, NEW r \in Requests, Reply(r)
  PROVE  MembershipInv'
<1> DEFINE x == [NoRequest EXCEPT !.pc = "end"]
<1>1. /\ rq' = [rq EXCEPT ![r] = x] /\ rq[r].pc = "reply"
      /\ gone' = IF rq[r].kind = "remove" THEN gone \cup {rq[r].target} ELSE gone
      /\ spent' = IF rq[r].kind \in {"accept", "revoke"}
                  THEN spent \cup {rq[r].target} ELSE spent
      /\ UNCHANGED <<owner, deleted, members, visible, invitations, overtaken>>
  BY DEF Reply, workspace
<1>2. x \in Request /\ x.pc = "end" /\ x.kind = Null /\ x.target = Null /\ x.late = FALSE
  BY DEF NoRequest, Request
<1> HIDE DEF x
<1>3. rq' \in [Requests -> Request] /\ rq'[r] = x /\ \A q \in Requests \ {r} : rq'[q] = rq[q]
  BY <1>1, <1>2 DEF MembershipInv, TypeOK
<1>4. Known \subseteq Known' /\ Null \in Known'
  BY <1>2, <1>3 DEF Known, Early
<1>5. RequestInv(r) /\ rq[r] \in Request /\ rq[r].target \in Known
  BY DEF MembershipInv, TypeOK, KnownInv
<1>6. rq[r].kind \in {"remove", "accept", "revoke"} => rq[r].target \in Ids
  BY <1>5 DEF RequestInv, ArgsInv, Request
<1>7. TypeOK'
  BY <1>1, <1>3, <1>5, <1>6 DEF MembershipInv, TypeOK, Request
<1>8. KnownInv'
  BY <1>1, <1>2, <1>3, <1>4, <1>5 DEF MembershipInv, KnownInv
<1>9. OwnerHolds'
  BY <1>1 DEF MembershipInv, OwnerHolds, OwnerStays, OwnerIsMember
<1>10. GoneInv' /\ SpentInv'
  BY <1>1, <1>5 DEF MembershipInv, GoneInv, SpentInv, RequestInv, RemovedInv, LateInv, At, Used
<1>11. ASSUME NEW q \in Requests PROVE RequestInv(q)'
  <2>1. RequestInv(q)
    BY DEF MembershipInv
  <2>2. CASE q = r
    BY <1>2, <1>3, <2>2, MembershipAssumption
       DEF Kinds, RequestInv, TargetInv, OtherInv, RemovedInv, LateInv, ArgsInv, At
  <2>3. CASE q # r
    BY <1>1, <1>3, <2>1, <2>3
       DEF RequestInv, TargetInv, OtherInv, RemovedInv, LateInv, ArgsInv, At, Used
  <2>4. QED BY <2>2, <2>3
<1>12. QED BY <1>7, <1>8, <1>9, <1>10, <1>11 DEF MembershipInv

(* Faulty or not, a role change keeps who is a member and by which row.    *)
LEMMA RolesChanged ==
  ASSUME NEW M, M \subseteq Member, Unique(M),
         \A m, n \in M : m.user = n.user => m = n,
         NEW u, NEW o \in Roles
  PROVE  LET N == WithRole(M, u, o)
         IN  /\ N \subseteq Member /\ Unique(N)
             /\ \A m, n \in N : m.user = n.user => m = n
             /\ \A n \in N : \E m \in M : n.id = m.id /\ n.user = m.user
                                          /\ (n.user # u => n = m) /\ (n.user = u => n.role = o)
             /\ \A m \in M : \E n \in N : n.id = m.id /\ n.user = m.user
<1> DEFINE N == WithRole(M, u, o)
<1>1. ASSUME NEW m \in M PROVE [m EXCEPT !.role = o] \in Member
                             /\ [m EXCEPT !.role = o].id = m.id
                             /\ [m EXCEPT !.role = o].user = m.user
                             /\ [m EXCEPT !.role = o].role = o
  BY DEF Member
<1>2. \A n \in N : \E m \in M : n.id = m.id /\ n.user = m.user
                                /\ (n.user # u => n = m) /\ (n.user = u => n.role = o)
                                /\ n = IF m.user = u THEN [m EXCEPT !.role = o] ELSE m
  <2>1. ASSUME NEW n \in N
        PROVE  \E m \in M : n = IF m.user = u THEN [m EXCEPT !.role = o] ELSE m
    BY <2>1 DEF WithRole
  <2>2. ASSUME NEW n, NEW m \in M, n = IF m.user = u THEN [m EXCEPT !.role = o] ELSE m
        PROVE  /\ n.id = m.id /\ n.user = m.user
               /\ (n.user # u => n = m) /\ (n.user = u => n.role = o)
    <3>1. CASE m.user = u
      BY <1>1, <2>2, <3>1, Zenon
    <3>2. CASE m.user # u
      BY <2>2, <3>2, Zenon
    <3>3. QED BY <3>1, <3>2
  <2>3. QED BY <2>1, <2>2
<1>3. N \subseteq Member
  BY <1>1 DEF WithRole
<1>4. Unique(N) /\ \A m, n \in N : m.user = n.user => m = n
  BY <1>2 DEF Unique
<1>5. \A m \in M : \E n \in N : n.id = m.id /\ n.user = m.user
  BY <1>1 DEF WithRole
<1>6. QED BY <1>2, <1>3, <1>4, <1>5

(* A write to roles, of rows whose ids are in the table already.           *)
LEMMA TransferStep ==
  ASSUME MembershipInv, NEW r \in Requests, TransferOwnership(r)
  PROVE  MembershipInv'
<1> DEFINE c == rq[r].caller
           u == rq[r].user
           N == WithRole(members, c, "Admin")
<1>1. /\ At(r, {"transfer"}, "write") /\ Goto(r, "bump")
      /\ \E m \in members : m.user = u
      /\ members' = WithRole(N, u, "Owner") /\ visible' = visible \cup members'
      /\ owner' = u
      /\ overtaken' = (overtaken \/ \E q \in Requests : Checked(q, u))
      /\ UNCHANGED <<deleted, invitations, gone, spent>>
  BY DEF TransferOwnership
<1>2. /\ rq' \in [Requests -> Request] /\ rq'[r].pc = "bump"
      /\ rq'[r].kind = rq[r].kind /\ rq'[r].target = rq[r].target
      /\ rq'[r].late = rq[r].late /\ rq'[r].role = rq[r].role
      /\ rq'[r].caller = rq[r].caller
      /\ \A q \in Requests \ {r} : rq'[q] = rq[q]
      /\ \A q \in Requests : rq'[q].target = rq[q].target
      /\ Known' = Known \cup {r}
  BY <1>1, Moved
<1>3. /\ members \subseteq Member /\ Unique(members) /\ members \subseteq visible
      /\ \A m, n \in members : m.user = n.user => m = n
  BY DEF MembershipInv, TypeOK
<1>4. /\ N \subseteq Member /\ Unique(N)
      /\ \A m, n \in N : m.user = n.user => m = n
      /\ \A n \in N : \E m \in members : n.id = m.id /\ n.user = m.user
      /\ \A m \in members : \E n \in N : n.id = m.id /\ n.user = m.user
  BY <1>3, RolesChanged DEF Roles
<1> HIDE DEF N
<1>5. /\ members' \subseteq Member /\ Unique(members')
      /\ \A m, n \in members' : m.user = n.user => m = n
      /\ \A n \in members' : /\ \E m \in N : n.id = m.id /\ n.user = m.user
                             /\ n.user = u => n.role = "Owner"
      /\ \A m \in N : \E n \in members' : n.id = m.id /\ n.user = m.user
  BY <1>1, <1>4, RolesChanged DEF Roles
<1>6. \A n \in members' : \E m \in members : n.id = m.id /\ n.user = m.user
  BY <1>4, <1>5
<1>7. \E n \in members' : n.user = u /\ n.role = "Owner"
  BY <1>1, <1>4, <1>5
<1>8. u \in Users
  BY <1>5, <1>7 DEF Member
<1>9. TypeOK'
  BY <1>1, <1>2, <1>5, <1>8 DEF MembershipInv, TypeOK, Unique
<1>10. KnownInv' /\ GoneInv' /\ SpentInv'
  BY <1>1, <1>2, <1>3, <1>6 DEF MembershipInv, KnownInv, GoneInv, SpentInv, Used
<1>11. OwnerHolds'
  BY <1>1, <1>7 DEF OwnerHolds, OwnerStays, OwnerIsMember
<1>12. ASSUME NEW q \in Requests PROVE RequestInv(q)'
  <2>1. RequestInv(q)
    BY DEF MembershipInv
  <2>2. CASE q = r
    BY <1>1, <1>2, <2>1, <2>2
       DEF RequestInv, TargetInv, OtherInv, RemovedInv, LateInv, ArgsInv, At
  <2>3. CASE q # r
    <3>1. rq'[q] = rq[q]
      BY <1>2, <2>3
    <3>2. TargetInv(q)' /\ RemovedInv(q)'
      BY <1>1, <1>3, <1>6, <2>1, <3>1 DEF RequestInv, TargetInv, RemovedInv, At
    <3>3. OtherInv(q)'
      BY <1>1, <3>1 DEF OtherInv, Checked, At
    <3>4. LateInv(q)' /\ ArgsInv(q)'
      BY <1>1, <2>1, <3>1 DEF RequestInv, LateInv, ArgsInv, At, Used
    <3>5. QED BY <3>2, <3>3, <3>4 DEF RequestInv
  <2>4. QED BY <2>2, <2>3
<1>13. QED BY <1>9, <1>10, <1>11, <1>12 DEF MembershipInv

LEMMA UpdateRoleStep ==
  ASSUME MembershipInv, NEW r \in Requests, UpdateRole(r)
  PROVE  MembershipInv'
<1>1. PICK m \in members : m.id = rq[r].target
                           /\ members' = WithRole(members, m.user, rq[r].role)
  BY DEF UpdateRole
<1>2. /\ At(r, {"setRole"}, "write") /\ Goto(r, "bump") /\ visible' = visible \cup members'
      /\ UNCHANGED <<owner, deleted, invitations, gone, spent, overtaken>>
  BY DEF UpdateRole, history
<1>3. /\ rq' \in [Requests -> Request] /\ rq'[r].pc = "bump"
      /\ rq'[r].kind = rq[r].kind /\ rq'[r].target = rq[r].target
      /\ rq'[r].late = rq[r].late /\ rq'[r].role = rq[r].role
      /\ rq'[r].caller = rq[r].caller
      /\ \A q \in Requests \ {r} : rq'[q] = rq[q]
      /\ \A q \in Requests : rq'[q].target = rq[q].target
      /\ Known' = Known \cup {r}
  BY <1>2, Moved
<1>4. /\ members \subseteq Member /\ Unique(members) /\ members \subseteq visible
      /\ \A a, b \in members : a.user = b.user => a = b
  BY DEF MembershipInv, TypeOK
<1>5. RequestInv(r)
  BY DEF MembershipInv
<1>6. rq[r].role \in Roles
  BY <1>2, <1>5 DEF RequestInv, ArgsInv, At
<1>7. /\ members' \subseteq Member /\ Unique(members')
      /\ \A a, b \in members' : a.user = b.user => a = b
      /\ \A n \in members' : \E a \in members : n.id = a.id /\ n.user = a.user
  BY <1>1, <1>4, <1>6, RolesChanged
<1>8. TypeOK'
  BY <1>2, <1>3, <1>7 DEF MembershipInv, TypeOK, Unique
<1>9. KnownInv' /\ GoneInv' /\ SpentInv'
  BY <1>2, <1>3, <1>4, <1>7 DEF MembershipInv, KnownInv, GoneInv, SpentInv, Used
<1>10. OwnerHolds'
  <2>1. ASSUME ~overtaken, ~deleted PROVE OwnerIsMember'
    <3>1. m.user # owner
      BY <1>1, <1>2, <1>5, <2>1 DEF RequestInv, TargetInv, OtherInv, At
    <3>2. PICK a \in members : a.user = owner /\ a.role = "Owner"
      BY <2>1 DEF MembershipInv, OwnerHolds, OwnerStays, OwnerIsMember
    <3>3. a \in members'
      BY <1>1, <3>1, <3>2 DEF WithRole
    <3>4. QED BY <1>2, <3>2, <3>3 DEF OwnerIsMember
  <2>2. QED BY <1>2, <2>1 DEF OwnerHolds, OwnerStays
<1>11. ASSUME NEW q \in Requests PROVE RequestInv(q)'
  <2>1. RequestInv(q)
    BY DEF MembershipInv
  <2>2. CASE q = r
    BY <1>2, <1>3, <2>1, <2>2
       DEF RequestInv, TargetInv, OtherInv, RemovedInv, LateInv, ArgsInv, At
  <2>3. CASE q # r
    <3>1. rq'[q] = rq[q]
      BY <1>3, <2>3
    <3>2. TargetInv(q)' /\ RemovedInv(q)'
      BY <1>2, <1>4, <1>7, <2>1, <3>1 DEF RequestInv, TargetInv, RemovedInv, At
    <3>3. OtherInv(q)' /\ LateInv(q)' /\ ArgsInv(q)'
      BY <1>2, <2>1, <3>1 DEF RequestInv, OtherInv, LateInv, ArgsInv, At, Used
    <3>4. QED BY <3>2, <3>3 DEF RequestInv
  <2>4. QED BY <2>2, <2>3
<1>12. QED BY <1>8, <1>9, <1>10, <1>11 DEF MembershipInv

LEMMA RemoveStep ==
  ASSUME MembershipInv, NEW r \in Requests, RemoveMember(r)
  PROVE  MembershipInv'
<1>1. PICK m \in members : m.id = rq[r].target /\ members' = members \ {m}
  BY DEF RemoveMember
<1>2. /\ At(r, {"remove"}, "write") /\ Goto(r, "bump")
      /\ UNCHANGED <<owner, deleted, visible, invitations, gone, spent, overtaken>>
  BY DEF RemoveMember, history
<1>3. /\ rq' \in [Requests -> Request] /\ rq'[r].pc = "bump"
      /\ rq'[r].kind = rq[r].kind /\ rq'[r].target = rq[r].target
      /\ rq'[r].late = rq[r].late /\ rq'[r].role = rq[r].role
      /\ rq'[r].caller = rq[r].caller
      /\ \A q \in Requests \ {r} : rq'[q] = rq[q]
      /\ \A q \in Requests : rq'[q].target = rq[q].target
      /\ Known' = Known \cup {r}
  BY <1>2, Moved
<1>4. Unique(members) /\ members \subseteq visible
  BY DEF MembershipInv, TypeOK
<1>5. RequestInv(r)
  BY DEF MembershipInv
<1>6. TypeOK' /\ KnownInv' /\ GoneInv' /\ SpentInv'
  BY <1>1, <1>2, <1>3
     DEF MembershipInv, TypeOK, Unique, KnownInv, GoneInv, SpentInv, Used
<1>7. OwnerHolds'
  <2>1. ASSUME ~overtaken, ~deleted PROVE OwnerIsMember'
    <3>1. m.user # owner
      BY <1>1, <1>2, <1>5, <2>1 DEF RequestInv, TargetInv, OtherInv, At
    <3>2. PICK a \in members : a.user = owner /\ a.role = "Owner"
      BY <2>1 DEF MembershipInv, OwnerHolds, OwnerStays, OwnerIsMember
    <3>3. QED BY <1>1, <1>2, <3>1, <3>2 DEF OwnerIsMember
  <2>2. QED BY <1>2, <2>1 DEF OwnerHolds, OwnerStays
<1>8. ASSUME NEW q \in Requests PROVE RequestInv(q)'
  <2>1. RequestInv(q)
    BY DEF MembershipInv
  <2>2. CASE q = r
    BY <1>1, <1>2, <1>3, <1>4, <2>1, <2>2
       DEF RequestInv, TargetInv, OtherInv, RemovedInv, LateInv, ArgsInv, At, Unique
  <2>3. CASE q # r
    BY <1>1, <1>2, <1>3, <2>1, <2>3
       DEF RequestInv, TargetInv, OtherInv, RemovedInv, LateInv, ArgsInv, At, Used
  <2>4. QED BY <2>2, <2>3
<1>9. QED BY <1>6, <1>7, <1>8 DEF MembershipInv

LEMMA JoinStep ==
  ASSUME MembershipInv, NEW r \in Requests, Join(r)
  PROVE  MembershipInv'
<1> DEFINE n == [id |-> r, user |-> rq[r].caller, role |-> rq[r].role]
<1>1. /\ At(r, {"accept"}, "write") /\ Goto(r, "bump")
      /\ \A m \in members : m.user # n.user
      /\ members' = members \cup {n} /\ visible' = visible \cup members'
      /\ UNCHANGED <<owner, deleted, invitations, gone, spent, overtaken>>
  BY DEF Join, history
<1>2. /\ rq' \in [Requests -> Request] /\ rq'[r].pc = "bump"
      /\ rq'[r].kind = rq[r].kind /\ rq'[r].target = rq[r].target
      /\ rq'[r].late = rq[r].late /\ rq'[r].role = rq[r].role
      /\ rq'[r].caller = rq[r].caller
      /\ \A q \in Requests \ {r} : rq'[q] = rq[q]
      /\ \A q \in Requests : rq'[q].target = rq[q].target
      /\ Known' = Known \cup {r}
  BY <1>1, Moved
<1>3. r \notin Known
  BY <1>1, MembershipAssumption DEF Known, Early, At
<1>4. RequestInv(r)
  BY DEF MembershipInv
<1>5. n \in Member /\ n.id = r
  BY <1>1, <1>4 DEF RequestInv, ArgsInv, At, Member, Ids
<1> HIDE DEF n
<1>6. \A m \in visible : m.id # r
  BY <1>3 DEF MembershipInv, KnownInv
<1>7. members \subseteq visible
  BY DEF MembershipInv, TypeOK
<1>8. TypeOK'
  BY <1>1, <1>2, <1>5, <1>6, <1>7 DEF MembershipInv, TypeOK, Unique
<1>9. KnownInv'
  BY <1>1, <1>2, <1>5, <1>7 DEF MembershipInv, KnownInv
<1>10. GoneInv' /\ SpentInv' /\ OwnerHolds'
  BY <1>1, <1>3, <1>5, <1>7
     DEF MembershipInv, KnownInv, GoneInv, SpentInv, Used, OwnerHolds, OwnerStays,
         OwnerIsMember
<1>11. ASSUME NEW q \in Requests PROVE RequestInv(q)'
  <2>1. RequestInv(q) /\ rq[q].target # r
    BY <1>3 DEF MembershipInv, KnownInv
  <2>2. CASE q = r
    BY <1>1, <1>2, <2>1, <2>2
       DEF RequestInv, TargetInv, OtherInv, RemovedInv, LateInv, ArgsInv, At
  <2>3. CASE q # r
    <3>1. rq'[q] = rq[q]
      BY <1>2, <2>3
    <3>2. TargetInv(q)' /\ RemovedInv(q)'
      BY <1>1, <1>5, <1>7, <2>1, <3>1 DEF RequestInv, TargetInv, RemovedInv, At
    <3>3. OtherInv(q)' /\ LateInv(q)' /\ ArgsInv(q)'
      BY <1>1, <2>1, <3>1 DEF RequestInv, OtherInv, LateInv, ArgsInv, At, Used
    <3>4. QED BY <3>2, <3>3 DEF RequestInv
  <2>4. QED BY <2>2, <2>3
<1>12. QED BY <1>8, <1>9, <1>10, <1>11 DEF MembershipInv

LEMMA InviteStep ==
  ASSUME MembershipInv, NEW r \in Requests, CreateInvitation(r)
  PROVE  MembershipInv'
<1> DEFINE n == [id |-> r, user |-> rq[r].user, role |-> rq[r].role, state |-> "pending"]
<1>1. /\ At(r, {"invite"}, "write") /\ Goto(r, "reply")
      /\ invitations' = invitations \cup {n}
      /\ UNCHANGED <<owner, deleted, members, visible, gone, spent, overtaken>>
  BY DEF CreateInvitation, workspace, history
<1>2. /\ rq' \in [Requests -> Request] /\ rq'[r].pc = "reply"
      /\ rq'[r].kind = rq[r].kind /\ rq'[r].target = rq[r].target
      /\ rq'[r].late = rq[r].late /\ rq'[r].role = rq[r].role
      /\ rq'[r].caller = rq[r].caller
      /\ \A q \in Requests \ {r} : rq'[q] = rq[q]
      /\ \A q \in Requests : rq'[q].target = rq[q].target
      /\ Known' = Known \cup {r}
  BY <1>1, Moved
<1>3. r \notin Known
  BY <1>1, MembershipAssumption DEF Known, Early, At
<1>4. RequestInv(r)
  BY DEF MembershipInv
<1>5. n \in Invitation /\ n.id = r
  BY <1>1, <1>4 DEF RequestInv, ArgsInv, At, Invitation, Ids
<1> HIDE DEF n
<1>6. \A i \in invitations : i.id # r
  BY <1>3 DEF MembershipInv, KnownInv
<1>7. TypeOK' /\ KnownInv'
  BY <1>1, <1>2, <1>5, <1>6 DEF MembershipInv, TypeOK, Unique, KnownInv
<1>8. GoneInv' /\ SpentInv' /\ OwnerHolds'
  BY <1>1, <1>3, <1>5
     DEF MembershipInv, KnownInv, GoneInv, SpentInv, Used, OwnerHolds, OwnerStays,
         OwnerIsMember
<1>9. ASSUME NEW q \in Requests PROVE RequestInv(q)'
  <2>1. RequestInv(q) /\ rq[q].target # r
    BY <1>3 DEF MembershipInv, KnownInv
  <2>2. CASE q = r
    BY <1>1, <1>2, <2>1, <2>2
       DEF RequestInv, TargetInv, OtherInv, RemovedInv, LateInv, ArgsInv, At
  <2>3. CASE q # r
    BY <1>1, <1>2, <1>5, <2>1, <2>3
       DEF RequestInv, TargetInv, OtherInv, RemovedInv, LateInv, ArgsInv, At, Used
  <2>4. QED BY <2>2, <2>3
<1>10. QED BY <1>7, <1>8, <1>9 DEF MembershipInv

(* Invitations only ever lose a row or get closer to being used.           *)
LEMMA InvitationsUsed ==
  ASSUME MembershipInv, UNCHANGED <<workspace, gone, spent, overtaken>>,
         rq' \in [Requests -> Request],
         \A q \in Requests : Early(q)' => Early(q), \A q \in Requests : rq'[q].target \in Known,
         invitations' \subseteq Invitation, Unique(invitations)',
         \A j \in invitations' :
           \E i \in invitations : i.id = j.id /\ (i.state = "accepted" => j.state = "accepted"),
         \A q \in Requests : RequestInv(q) => RequestInv(q)'
  PROVE  MembershipInv'
<1>1. UNCHANGED <<owner, deleted, members, visible>>
  BY DEF workspace
<1>2. Known \subseteq Known'
  BY DEF Known
<1>3. TypeOK' /\ KnownInv' /\ GoneInv' /\ SpentInv' /\ OwnerHolds'
  BY <1>1, <1>2 DEF MembershipInv, TypeOK, Unique, KnownInv, GoneInv, SpentInv, Used,
                    OwnerHolds, OwnerStays, OwnerIsMember
<1>4. QED BY <1>3 DEF MembershipInv

LEMMA MarkStep ==
  ASSUME MembershipInv, NEW r \in Requests, MarkAsAccepted(r) \/ DeleteInvitation(r)
  PROVE  MembershipInv'
<1>1. PICK i \in invitations :
        /\ i.id = rq[r].target
        /\ \/ invitations' = (invitations \ {i}) \cup {[i EXCEPT !.state = "accepted"]}
           \/ invitations' = invitations \ {i}
  BY DEF MarkAsAccepted, DeleteInvitation
<1>2. /\ At(r, {"accept"}, "mark") \/ At(r, {"revoke"}, "write")
      /\ Goto(r, "reply") /\ UNCHANGED <<workspace, gone, spent, overtaken>>
  BY DEF MarkAsAccepted, DeleteInvitation, history
<1>3. /\ rq' \in [Requests -> Request] /\ rq'[r].pc = "reply"
      /\ rq'[r].kind = rq[r].kind /\ rq'[r].target = rq[r].target
      /\ rq'[r].late = rq[r].late /\ rq'[r].role = rq[r].role
      /\ rq'[r].caller = rq[r].caller
      /\ \A q \in Requests \ {r} : rq'[q] = rq[q]
      /\ \A q \in Requests : rq'[q].target = rq[q].target
      /\ Known' = Known \cup {r}
  BY <1>2, Moved
<1>4. invitations \subseteq Invitation /\ Unique(invitations)
  BY DEF MembershipInv, TypeOK
<1>5. [i EXCEPT !.state = "accepted"] \in Invitation
      /\ [i EXCEPT !.state = "accepted"].id = i.id
      /\ [i EXCEPT !.state = "accepted"].state = "accepted"
  BY <1>4 DEF Invitation
<1>6. invitations' \subseteq Invitation /\ Unique(invitations)'
  BY <1>1, <1>4, <1>5 DEF Unique
<1>7. \A j \in invitations' :
        \E h \in invitations : h.id = j.id /\ (h.state = "accepted" => j.state = "accepted")
  BY <1>1, <1>5
<1>8. Used(rq[r].target)'
  BY <1>1, <1>3, <1>4, <1>5 DEF Used, Unique
<1>9. ASSUME NEW q \in Requests, RequestInv(q) PROVE RequestInv(q)'
  <2>1. CASE q = r
    BY <1>2, <1>3, <1>8, <1>9, <2>1
       DEF RequestInv, TargetInv, OtherInv, RemovedInv, LateInv, ArgsInv, At
  <2>2. CASE q # r
    BY <1>2, <1>3, <1>7, <1>9, <2>2
       DEF RequestInv, TargetInv, OtherInv, RemovedInv, LateInv, ArgsInv, At, Used, workspace
  <2>3. QED BY <2>1, <2>2
<1>10. \A q \in Requests : (Early(q)' => Early(q)) /\ rq'[q].target \in Known
  BY <1>3 DEF Early, MembershipInv, KnownInv
<1>11. QED BY <1>2, <1>3, <1>6, <1>7, <1>9, <1>10, InvitationsUsed

LEMMA LapseStep ==
  ASSUME MembershipInv, NEW i \in invitations, Lapse(i)
  PROVE  MembershipInv'
<1>1. /\ i.state = "pending"
      /\ invitations' = (invitations \ {i}) \cup {[i EXCEPT !.state = "expired"]}
      /\ UNCHANGED <<workspace, rq, gone, spent, overtaken>>
  BY DEF Lapse, history
<1>2. /\ invitations \subseteq Invitation /\ Unique(invitations)
      /\ rq \in [Requests -> Request]
  BY DEF MembershipInv, TypeOK
<1>3. [i EXCEPT !.state = "expired"] \in Invitation
      /\ [i EXCEPT !.state = "expired"].id = i.id
  BY <1>2 DEF Invitation
<1>4. invitations' \subseteq Invitation /\ Unique(invitations)'
  BY <1>1, <1>2, <1>3 DEF Unique
<1>5. \A j \in invitations' :
        \E h \in invitations : h.id = j.id /\ (h.state = "accepted" => j.state = "accepted")
  BY <1>1, <1>3
<1>6. ASSUME NEW q \in Requests, RequestInv(q) PROVE RequestInv(q)'
  BY <1>1, <1>5, <1>6
     DEF RequestInv, TargetInv, OtherInv, RemovedInv, LateInv, ArgsInv, At, Used, workspace
<1>7. \A q \in Requests : (Early(q)' => Early(q)) /\ rq'[q].target \in Known
  BY <1>1 DEF Early, MembershipInv, KnownInv
<1>8. QED BY <1>1, <1>2, <1>4, <1>5, <1>6, <1>7, InvitationsUsed

LEMMA DeleteStep ==
  ASSUME MembershipInv, NEW r \in Requests, SoftDelete(r)
  PROVE  MembershipInv'
<1>1. /\ At(r, {"delete"}, "write") /\ Goto(r, "reply") /\ deleted' = TRUE
      /\ UNCHANGED <<owner, members, visible, invitations, gone, spent, overtaken>>
  BY DEF SoftDelete, history
<1>2. /\ rq' \in [Requests -> Request] /\ rq'[r].pc = "reply"
      /\ rq'[r].kind = rq[r].kind /\ rq'[r].target = rq[r].target
      /\ rq'[r].late = rq[r].late /\ rq'[r].role = rq[r].role
      /\ rq'[r].caller = rq[r].caller
      /\ \A q \in Requests \ {r} : rq'[q] = rq[q]
      /\ \A q \in Requests : rq'[q].target = rq[q].target
      /\ Known' = Known \cup {r}
  BY <1>1, Moved
<1>3. TypeOK' /\ KnownInv' /\ GoneInv' /\ SpentInv' /\ OwnerHolds'
  BY <1>1, <1>2 DEF MembershipInv, TypeOK, Unique, KnownInv, GoneInv, SpentInv, Used,
                    OwnerHolds, OwnerStays
<1>4. ASSUME NEW q \in Requests PROVE RequestInv(q)'
  <2>1. RequestInv(q)
    BY DEF MembershipInv
  <2>2. CASE q = r
    BY <1>1, <1>2, <2>1, <2>2
       DEF RequestInv, TargetInv, OtherInv, RemovedInv, LateInv, ArgsInv, At
  <2>3. CASE q # r
    BY <1>1, <1>2, <2>1, <2>3
       DEF RequestInv, TargetInv, OtherInv, RemovedInv, LateInv, ArgsInv, At, Used
  <2>4. QED BY <2>2, <2>3
<1>5. QED BY <1>3, <1>4 DEF MembershipInv

-----------------------------------------------------------------------------
LEMMA MembershipStep ==
  ASSUME MembershipInv, Next
  PROVE  MembershipInv'
<1>1. ASSUME NEW r \in Requests, Step(r) PROVE MembershipInv'
  BY <1>1, AdmitStep, AcceptStep, FailStep, CheckStep, BumpStep, ReplyStep, TransferStep,
     RemoveStep, UpdateRoleStep, InviteStep, JoinStep, MarkStep, DeleteStep DEF Step
<1>2. QED BY <1>1, LapseStep DEF Next

LEMMA MembershipStutter ==
  ASSUME MembershipInv, UNCHANGED vars
  PROVE  MembershipInv'
BY DEF vars, MembershipInv, TypeOK, Unique, KnownInv, Known, Early, OwnerHolds, OwnerStays,
       OwnerIsMember, GoneInv, SpentInv, Used, RequestInv, TargetInv, OtherInv, RemovedInv,
       LateInv, ArgsInv, At

(* Every request knows only rows that exist or existed, and whose they are;*)
(* what it checked of the owner holds until a transfer overtakes it; and a *)
(* removal or an acceptance reaches the tables before it is answered.      *)
THEOREM MembershipInductive == Spec => []MembershipInv
<1>1. MembershipInv /\ [Next]_vars => MembershipInv'
  BY MembershipStep, MembershipStutter
<1>2. QED BY <1>1, MembershipInit, PTL DEF Spec

(* Every variable keeps its type: ids are drawn once, and nobody is a      *)
(* member twice, whatever acceptances and removals interleave.             *)
THEOREM MembershipTypeCorrect == Spec => []TypeOK
<1>1. MembershipInv => TypeOK
  BY DEF MembershipInv
<1>2. QED BY <1>1, MembershipInductive, PTL

(* No request of RemoveMemberUseCase, UpdateMemberRoleUseCase or           *)
(* TransferOwnershipUseCase costs the owner the membership or the role,    *)
(* unless a transfer commits between a check of its target and the write.  *)
THEOREM OwnerIsSafe == Spec => []OwnerHolds
<1>1. MembershipInv => OwnerHolds
  BY DEF MembershipInv
<1>2. QED BY <1>1, MembershipInductive, PTL

(* WorkspaceGuard lets nobody in by a membership whose removal was         *)
(* answered: RemoveMemberUseCase bumps the cache first.                    *)
THEOREM RemovalIsFinal == Spec => RemovedStaysOut
<1>1. ASSUME MembershipInv, NEW r \in Requests, Step(r)
      PROVE  /\ \A q \in Requests \ {r} : rq'[q].as = rq[q].as
             /\ rq'[r].as # rq[r].as => rq'[r].as \notin gone
  <2>1. rq \in [Requests -> Request] /\ Null \notin gone
        /\ \A m \in visible : m.id \notin gone
    BY <1>1, MembershipAssumption DEF MembershipInv, TypeOK, GoneInv, Ids
  <2>2. CASE Admit(r)
    BY <2>1, <2>2 DEF Admit, Request
  <2>3. CASE Fail(r) \/ Reply(r)
    BY <2>1, <2>3 DEF Fail, Reply, Request, NoRequest
  <2>4. CASE Accept(r)
    BY <2>1, <2>4 DEF Accept, Request
  <2>5. CASE FindTarget(r) \/ FindMember(r) \/ CheckNotMember(r) \/ FindInvitation(r)
    <3>1. \/ \E l, u : rq' = [rq EXCEPT ![r].user = u, ![r].pc = l]
          \/ \E l, o : rq' = [rq EXCEPT ![r].role = o, ![r].pc = l]
          \/ \E l : rq' = [rq EXCEPT ![r].pc = l]
      BY <2>5 DEF FindTarget, FindMember, CheckNotMember, FindInvitation, Goto
    <3>2. QED BY <2>1, <3>1 DEF Request
  <2>6. CASE \E l : Goto(r, l)
    BY <2>1, <2>6 DEF Goto, Request
  <2>7. QED
    BY <1>1, <2>2, <2>3, <2>4, <2>5, <2>6
       DEF Step, BumpMembers, CheckOwner, TransferOwnership, CheckNotOwner, RemoveMember,
           UpdateRole, CheckNotPending, CreateInvitation, Join, MarkAsAccepted,
           FindRevocable, DeleteInvitation, FindWorkspace, SoftDelete
<1>2. MembershipInv /\ [Next]_vars =>
        [\A r \in Requests : rq'[r].as # rq[r].as => rq'[r].as \notin gone]_vars
  BY <1>1 DEF Next, Lapse
<1>3. QED BY <1>2, MembershipInductive, PTL DEF Spec, RemovedStaysOut

(* AcceptInvitationUseCase marks an invitation, and                        *)
(* RevokeInvitationUseCase deletes it, before it answers; an acceptance    *)
(* that arrives later gets no further than its look-up.                    *)
THEOREM InvitationsAreSpent == Spec => []SpentInvitation
<1>1. MembershipInv => SpentInvitation
  BY DEF MembershipInv, RequestInv, LateInv, SpentInvitation
<1>2. QED BY <1>1, MembershipInductive, PTL
=============================================================================
