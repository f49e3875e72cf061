---------------------------- MODULE TenancyProofs ----------------------------
(***************************************************************************)
(* An organization and what it has: its members, for any number of users,  *)
(* invitations and handlers; and ProjectData, the life of any number of    *)
(* projects and the statements of any number of requests over any number   *)
(* of connections.                                                         *)
(*                                                                         *)
(* Members.  OwnerSafe says who may still cost the organization an owner.  *)
(*                                                                         *)
(* ProjectData.  Each half has its invariant.  ProjectsInv says what a     *)
(* creation and a deletion that are under way have done so far, TablesInv  *)
(* how far a client is when its request is at a statement.  A step of one  *)
(* leaves the other as it is, but for GetPool, which is a step of both.    *)
(***************************************************************************)
EXTENDS Members, ProjectData, TLAPS, FiniteSetTheorems

-----------------------------------------------------------------------------
\* A request that may still take the owner's rank from its target.
MayCost(h) == handlers[h].at = "write" /\ handlers[h].role # Owner

\* What a request is about depends on where it is.
Targeted ==
    \A h \in Handlers :
        /\ handlers[h].at \in {"lookup", "replace", "insert", "count", "write"}
              => handlers[h].target \in Users
        /\ handlers[h].at \in {"lookup", "replace", "insert"} => handlers[h].role \in Roles
        /\ handlers[h].at = "revoke" => handlers[h].target \in Invitations

\* While no counts have crossed, all that may cost an owner are about the same
\* member, and an owner besides that member is still there.
OwnerSafe ==
    ~miscounted =>
        /\ Owners # {}
        /\ \A h, k \in Handlers : MayCost(h) /\ MayCost(k)
                                    => handlers[h].target = handlers[k].target
        /\ \A h \in Handlers : MayCost(h) => Owners \ {handlers[h].target} # {}

\* What a transaction has revoked is there to be revoked.
HeldExist == \A h \in Handlers : \A i \in held[h] : invitations[i] # Nil

Shape == MembersTypeOK /\ Targeted /\ HeldExist

-----------------------------------------------------------------------------
\* A request moves between the shapes Shape allows.
LEMMA HandlerKinds ==
    /\ NoHandler \in Handler
    /\ \A u \in Users, r \in Roles, p \in {"lookup", "write", "count"} : Doing(p, u, r) \in Handler
    /\ \A u \in Users : Doing("count", u, 0) \in Handler
    /\ \A i \in Invitations : Doing("revoke", i, 0) \in Handler
  BY DEF NoHandler, Doing, Handler, Roles, Viewer, Developer, Admin, Owner

\* Updating requests keeps the set of requests.
LEMMA StartKeeps ==
    ASSUME Shape, NEW h \in Handlers, NEW now \in Handler, Start(h, now),
           now.at \in {"lookup", "replace", "insert", "count", "write"} => now.target \in Users,
           now.at \in {"lookup", "replace", "insert"} => now.role \in Roles,
           now.at = "revoke" => now.target \in Invitations
    PROVE  handlers' \in [Handlers -> Handler] /\ Targeted'
  BY DEF Shape, MembersTypeOK, Start, Targeted

LEMMA GoKeeps ==
    ASSUME Shape, NEW h \in Handlers, NEW p \in {"replace", "insert", "write"}, Go(h, p),
           handlers[h].at = (IF p = "replace" THEN "lookup"
                             ELSE IF p = "insert" THEN "replace" ELSE "count")
    PROVE  handlers' \in [Handlers -> Handler] /\ Targeted'
<1>1. handlers[h] \in Handler
  BY DEF Shape, MembersTypeOK
<1> DEFINE now == [handlers[h] EXCEPT !.at = p]
<1>2. handlers' = [handlers EXCEPT ![h] = now]
  BY DEF Go
<1>3. /\ now \in Handler /\ now.at = p /\ now.target = handlers[h].target
      /\ now.role = handlers[h].role
  BY <1>1 DEF Handler
<1> HIDE DEF now
<1>4. handlers' \in [Handlers -> Handler]
  BY <1>2, <1>3 DEF Shape, MembersTypeOK
<1>5. Targeted'
  BY <1>2, <1>3 DEF Shape, MembersTypeOK, Targeted
<1> QED
  BY <1>4, <1>5

LEMMA FinishKeeps ==
    ASSUME Shape, NEW h \in Handlers, Finish(h)
    PROVE  handlers' \in [Handlers -> Handler] /\ Targeted'
  BY HandlerKinds DEF Shape, MembersTypeOK, Finish, Targeted, NoHandler

LEMMA UnchangedKeeps ==
    ASSUME Shape, UNCHANGED handlers
    PROVE  handlers' \in [Handlers -> Handler] /\ Targeted'
  BY DEF Shape, MembersTypeOK, Targeted

\* Rewriting the status of a row leaves a row.
LEMMA StatusKeeps ==
    ASSUME NEW row \in Invitation, NEW s \in {"pending", "expired", "accepted", "revoked"}
    PROVE  [row EXCEPT !.status = s] \in Invitation
  BY DEF Invitation

\* A row never gets mistaken for the absence of one.
LEMMA RowsAreRows ==
    ASSUME Shape, NEW i \in Invitations, invitations[i] # Nil
    PROVE  invitations[i] \in Invitation
  BY DEF Shape, MembersTypeOK

\* Whoever holds no new row, while no row goes, holds rows that exist.
LEMMA HeldKeeps ==
    ASSUME Shape, \A h \in Handlers : held'[h] \subseteq held[h],
           \A i \in Invitations : invitations[i] # Nil => invitations'[i] # Nil
    PROVE  HeldExist'
  BY DEF Shape, MembersTypeOK, HeldExist

LEMMA HeldUntouched ==
    ASSUME Shape, UNCHANGED held,
           \A i \in Invitations : invitations[i] # Nil => invitations'[i] # Nil
    PROVE  held' \in [Handlers -> SUBSET Invitations] /\ HeldExist'
  BY HeldKeeps DEF Shape, MembersTypeOK

LEMMA HeldReleased ==
    ASSUME Shape, NEW h \in Handlers, held' = [held EXCEPT ![h] = {}],
           \A i \in Invitations : invitations[i] # Nil => invitations'[i] # Nil
    PROVE  held' \in [Handlers -> SUBSET Invitations] /\ HeldExist'
<1>1. held' \in [Handlers -> SUBSET Invitations] /\ \A k \in Handlers : held'[k] \subseteq held[k]
  BY DEF Shape, MembersTypeOK
<1> QED
  BY <1>1, HeldKeeps

-----------------------------------------------------------------------------
LEMMA InitShape == MembersInit => Shape
<1> SUFFICES ASSUME MembersInit PROVE Shape
  OBVIOUS
<1>1. rank \in [Users -> {0} \cup Roles]
  BY DEF MembersInit, Roles
<1>2. \A h \in Handlers : handlers[h] = NoHandler
  BY DEF MembersInit
<1>3. handlers \in [Handlers -> Handler]
  BY HandlerKinds DEF MembersInit
<1>4. Targeted
  BY <1>2 DEF Targeted, NoHandler
<1>5. held \in [Handlers -> SUBSET Invitations] /\ HeldExist
  BY DEF MembersInit, HeldExist
<1> QED
  BY <1>1, <1>3, <1>4, <1>5 DEF MembersInit, Shape, MembersTypeOK

LEMMA StepShape == Shape /\ [MembersNext]_memberVars => Shape'
<1> SUFFICES ASSUME Shape, [MembersNext]_memberVars PROVE Shape'
  OBVIOUS
<1> USE DEF Shape
<1>1. CASE \E h \in Handlers, u, v \in Users, r \in Roles : Invite(h, u, v, r)
  <2> PICK h \in Handlers, u \in Users, v \in Users, r \in Roles : Invite(h, u, v, r)
    BY <1>1
  <2> DEFINE now == Doing("lookup", v, r)
  <2>1. /\ now \in Handler /\ now.at = "lookup" /\ now.target = v /\ now.role = r
        /\ Start(h, now)
    BY HandlerKinds DEF Doing, Invite
  <2> HIDE DEF now
  <2>2. handlers' \in [Handlers -> Handler] /\ Targeted'
    BY <2>1, StartKeeps
  <2> QED
    BY <2>2, HeldUntouched DEF Invite, MembersTypeOK
<1>2. CASE \E h \in Handlers, u, v \in Users, r \in Roles : ChangeRole(h, u, v, r)
  <2> PICK h \in Handlers, u \in Users, v \in Users, r \in Roles : ChangeRole(h, u, v, r)
    BY <1>2
  <2> DEFINE now == Doing(IF r = Owner THEN "write" ELSE "count", v, r)
  <2>1. /\ now \in Handler /\ now.at \in {"write", "count"} /\ now.target = v
        /\ Start(h, now)
    BY HandlerKinds DEF Doing, ChangeRole
  <2> HIDE DEF now
  <2>2. handlers' \in [Handlers -> Handler] /\ Targeted'
    BY <2>1, StartKeeps
  <2> QED
    BY <2>2, HeldUntouched DEF ChangeRole, MembersTypeOK
<1>3. CASE \E h \in Handlers, u, v \in Users : Remove(h, u, v)
  <2> PICK h \in Handlers, u \in Users, v \in Users : Remove(h, u, v)
    BY <1>3
  <2> DEFINE now == Doing("count", v, 0)
  <2>1. now \in Handler /\ now.at = "count" /\ now.target = v /\ Start(h, now)
    BY HandlerKinds DEF Doing, Remove
  <2> HIDE DEF now
  <2>2. handlers' \in [Handlers -> Handler] /\ Targeted'
    BY <2>1, StartKeeps
  <2> QED
    BY <2>2, HeldUntouched DEF Remove, MembersTypeOK
<1>4. CASE \E h \in Handlers : InviteLookup(h)
  BY <1>4, GoKeeps, HeldUntouched DEF InviteLookup, MembersTypeOK
<1>5. CASE \E h \in Handlers : InviteInsert(h)
  <2> PICK h \in Handlers : InviteInsert(h)
    BY <1>5
  <2> DEFINE new == [email |-> handlers[h].target, role |-> handlers[h].role,
                     status |-> "pending"]
  <2> PICK i \in Invitations :
          invitations' = [j \in Invitations |->
             IF j = i THEN new
             ELSE IF j \in held[h] THEN [invitations[j] EXCEPT !.status = "revoked"]
             ELSE invitations[j]]
    BY DEF InviteInsert
  <2>1. new \in Invitation
    BY DEF InviteInsert, Targeted, Invitation
  <2> HIDE DEF new
  <2>2. new # Nil /\ Nil \notin Invitation
    BY <2>1, UsersAssumption
  <2>3. \A j \in held[h] : [invitations[j] EXCEPT !.status = "revoked"] \in Invitation
    BY RowsAreRows, StatusKeeps DEF HeldExist, MembersTypeOK
  <2>4. invitations' \in [Invitations -> Invitation \cup {Nil}]
    BY <2>1, <2>3 DEF MembersTypeOK
  <2>5. \A j \in Invitations : invitations[j] # Nil => invitations'[j] # Nil
    BY <2>2, <2>3
  <2>6. held' \in [Handlers -> SUBSET Invitations] /\ HeldExist'
    BY <2>5, HeldReleased DEF InviteInsert
  <2> QED
    BY <2>4, <2>6, FinishKeeps DEF InviteInsert, MembersTypeOK
<1>6. CASE \E h \in Handlers : RevokeInvitation(h)
  <2> PICK h \in Handlers : RevokeInvitation(h)
    BY <1>6
  <2> DEFINE i == handlers[h].target
             row == [invitations[i] EXCEPT !.status = "revoked"]
  <2>1. i \in Invitations /\ invitations' = [invitations EXCEPT ![i] = row]
    BY DEF RevokeInvitation, Targeted
  <2>2. row \in Invitation
    BY <2>1, RowsAreRows, StatusKeeps DEF RevokeInvitation, Open
  <2> HIDE DEF row, i
  <2>3. invitations' \in [Invitations -> Invitation \cup {Nil}]
    BY <2>1, <2>2 DEF MembersTypeOK
  <2>4. \A j \in Invitations : invitations[j] # Nil => invitations'[j] # Nil
    BY <2>1, <2>2, UsersAssumption DEF MembersTypeOK
  <2> QED
    BY <2>3, <2>4, FinishKeeps, HeldUntouched DEF RevokeInvitation, MembersTypeOK
<1>7. CASE \E h \in Handlers : CountOwners(h)
  <2> PICK h \in Handlers : CountOwners(h)
    BY <1>7
  <2>1. miscounted' \in BOOLEAN
    BY DEF CountOwners, Crossing, MembersTypeOK
  <2> QED
    BY <2>1, GoKeeps, HeldUntouched DEF CountOwners, MembersTypeOK
<1>8. CASE \E h \in Handlers : WriteMember(h)
  <2> PICK h \in Handlers : WriteMember(h)
    BY <1>8
  <2>1. handlers[h].role \in {0} \cup Roles
    BY DEF MembersTypeOK, Handler
  <2> QED
    BY <2>1, FinishKeeps, HeldUntouched DEF WriteMember, MembersTypeOK
<1>9. CASE \E h \in Handlers : HandlerDies(h)
  BY <1>9, FinishKeeps, HeldReleased DEF HandlerDies, MembersTypeOK
<1>10. CASE \E h \in Handlers, u \in Users, i \in Invitations : RevokeCheck(h, u, i)
  <2> PICK h \in Handlers, u \in Users, i \in Invitations : RevokeCheck(h, u, i)
    BY <1>10
  <2> DEFINE now == Doing("revoke", i, 0)
  <2>1. now \in Handler /\ now.at = "revoke" /\ now.target = i /\ Start(h, now)
    BY HandlerKinds DEF Doing, RevokeCheck
  <2> HIDE DEF now
  <2>2. handlers' \in [Handlers -> Handler] /\ Targeted'
    BY <2>1, StartKeeps
  <2> QED
    BY <2>2, HeldUntouched DEF RevokeCheck, MembersTypeOK
<1>11. CASE \E i \in Invitations : Accept(i)
  <2> PICK i \in Invitations : Accept(i)
    BY <1>11
  <2>1. invitations[i] \in Invitation /\ invitations[i].role \in Roles
    BY RowsAreRows DEF Accept, Invitation
  <2>2. rank' \in [Users -> {0} \cup Roles]
    BY <2>1 DEF Accept, MembersTypeOK
  <2> DEFINE row == [invitations[i] EXCEPT !.status = "accepted"]
  <2>3. row \in Invitation /\ invitations' = [invitations EXCEPT ![i] = row]
    BY <2>1, StatusKeeps DEF Accept
  <2> HIDE DEF row
  <2>4. invitations' \in [Invitations -> Invitation \cup {Nil}]
    BY <2>3 DEF MembersTypeOK
  <2>5. \A j \in Invitations : invitations[j] # Nil => invitations'[j] # Nil
    BY <2>3, UsersAssumption DEF MembersTypeOK
  <2> QED
    BY <2>2, <2>4, <2>5, UnchangedKeeps, HeldUntouched DEF Accept, MembersTypeOK
<1>12. CASE \E i \in Invitations : Expires(i)
  <2> PICK i \in Invitations : Expires(i)
    BY <1>12
  <2> DEFINE row == [invitations[i] EXCEPT !.status = "expired"]
  <2>1. row \in Invitation /\ invitations' = [invitations EXCEPT ![i] = row]
    BY RowsAreRows, StatusKeeps DEF Expires
  <2> HIDE DEF row
  <2>2. invitations' \in [Invitations -> Invitation \cup {Nil}]
    BY <2>1 DEF MembersTypeOK
  <2>3. \A j \in Invitations : invitations[j] # Nil => invitations'[j] # Nil
    BY <2>1, UsersAssumption DEF MembersTypeOK
  <2> QED
    BY <2>2, <2>3, UnchangedKeeps, HeldUntouched DEF Expires, MembersTypeOK
<1>13. CASE UNCHANGED memberVars
  BY <1>13, UnchangedKeeps, HeldUntouched DEF memberVars, MembersTypeOK
<1>14. CASE \E h \in Handlers : InviteReplace(h)
  <2> PICK h \in Handlers : InviteReplace(h)
    BY <1>14
  <2> DEFINE older == {i \in Invitations :
                         Open(i) /\ invitations[i].email = handlers[h].target}
  <2>1. /\ held' = [held EXCEPT ![h] = older] /\ older \subseteq Invitations
        /\ \A i \in older : invitations[i] # Nil
    BY DEF InviteReplace, Open
  <2> HIDE DEF older
  <2>2. held' \in [Handlers -> SUBSET Invitations] /\ HeldExist'
    BY <2>1 DEF InviteReplace, HeldExist, MembersTypeOK
  <2> QED
    BY <2>2, GoKeeps DEF InviteReplace, MembersTypeOK
<1> QED
  BY <1>1, <1>2, <1>3, <1>4, <1>5, <1>6, <1>7, <1>8, <1>9, <1>10, <1>11, <1>12, <1>13, <1>14
  DEF MembersNext

(* Every reachable state has the types the module states.                   *)
THEOREM MembersTypeCorrect == MembersSpec => []MembersTypeOK
<1>1. Shape => MembersTypeOK
  BY DEF Shape
<1> QED
  BY <1>1, InitShape, StepShape, PTL DEF MembersSpec

-----------------------------------------------------------------------------
\* Which requests count towards OwnerSafe after a step.
LEMMA CountedAfterStart ==
    ASSUME Shape, NEW h \in Handlers, NEW now, Start(h, now),
           now.at # "write" \/ now.role = Owner, NEW k \in Handlers, MayCost(k)'
    PROVE  MayCost(k) /\ handlers'[k] = handlers[k]
  BY DEF Shape, MembersTypeOK, Start, MayCost

LEMMA CountedAfterFinish ==
    ASSUME Shape, NEW h \in Handlers, Finish(h), NEW k \in Handlers, MayCost(k)'
    PROVE  MayCost(k) /\ handlers'[k] = handlers[k]
  BY DEF Shape, MembersTypeOK, Finish, MayCost, NoHandler

\* A step that takes nobody's ownership, and lets no new request count, is safe.
LEMMA SafeIfQuiet ==
    ASSUME Shape, OwnerSafe, UNCHANGED miscounted, Owners \subseteq Owners',
           \A k \in Handlers : MayCost(k)' => MayCost(k) /\ handlers'[k] = handlers[k]
    PROVE  OwnerSafe'
  BY DEF OwnerSafe

LEMMA StepOwnerSafe == Shape /\ OwnerSafe /\ [MembersNext]_memberVars => OwnerSafe'
<1> SUFFICES ASSUME Shape, OwnerSafe, [MembersNext]_memberVars PROVE OwnerSafe'
  OBVIOUS
<1>1. CASE \E h \in Handlers, u, v \in Users, r \in Roles : Invite(h, u, v, r)
  BY <1>1, CountedAfterStart, SafeIfQuiet DEF Invite, Doing, Owners
<1>2. CASE \E h \in Handlers, u, v \in Users, r \in Roles : ChangeRole(h, u, v, r)
  BY <1>2, CountedAfterStart, SafeIfQuiet DEF ChangeRole, Doing, Owners
<1>3. CASE \E h \in Handlers, u, v \in Users : Remove(h, u, v)
  BY <1>3, CountedAfterStart, SafeIfQuiet DEF Remove, Doing, Owners
<1>4. CASE \E h \in Handlers : InviteLookup(h) \/ InviteReplace(h)
  <2>1. \A k \in Handlers : MayCost(k)' => MayCost(k) /\ handlers'[k] = handlers[k]
    BY <1>4 DEF InviteLookup, InviteReplace, Go, MayCost, Shape, MembersTypeOK, Handler
  <2> QED
    BY <1>4, <2>1, SafeIfQuiet DEF InviteLookup, InviteReplace, Owners
<1>5. CASE \E h \in Handlers : InviteInsert(h) \/ RevokeInvitation(h) \/ HandlerDies(h)
  BY <1>5, CountedAfterFinish, SafeIfQuiet DEF InviteInsert, RevokeInvitation, HandlerDies, Owners
\* The owners just counted remain, and a request about someone else has crossed.
<1>6. CASE \E h \in Handlers : CountOwners(h)
  <2> PICK h \in Handlers : CountOwners(h)
    BY <1>6
  <2>1. /\ handlers'[h].target = handlers[h].target
        /\ \A k \in Handlers \ {h} : handlers'[k] = handlers[k]
    BY DEF CountOwners, Go, Shape, MembersTypeOK, Handler
  <2>2. Owners' = Owners
    BY DEF CountOwners, Owners
  <2>3. ~miscounted' => ~miscounted /\ \A k \in Handlers \ {h} :
                        MayCost(k) => handlers[k].target = handlers[h].target
    BY DEF CountOwners, Crossing, MayCost
  <2>4. \A k \in Handlers \ {h} : MayCost(k)' => MayCost(k)
    BY <2>1 DEF MayCost
  <2>5. Owners \ {handlers[h].target} # {}
    BY DEF CountOwners
  <2> QED
    BY <2>1, <2>2, <2>3, <2>4, <2>5 DEF OwnerSafe
\* Whoever is written to, the owner besides that member is still there.
<1>7. CASE \E h \in Handlers : WriteMember(h)
  <2> PICK h \in Handlers : WriteMember(h)
    BY <1>7
  <2>1. \A k \in Handlers : MayCost(k)' => MayCost(k) /\ handlers'[k] = handlers[k]
    BY CountedAfterFinish DEF WriteMember
  <2>2. CASE handlers[h].role = Owner
    <3>1. Owners \subseteq Owners'
      BY <2>2 DEF WriteMember, Owners, Shape, MembersTypeOK
    <3> QED
      BY <2>1, <3>1, SafeIfQuiet DEF WriteMember
  <2>3. CASE MayCost(h)
    <3>1. Owners \ {handlers[h].target} \subseteq Owners'
      BY DEF WriteMember, Owners, Shape, MembersTypeOK
    <3>2. ~miscounted => \A k \in Handlers : MayCost(k) => handlers[k].target = handlers[h].target
      BY <2>3 DEF OwnerSafe
    <3>3. ~miscounted => Owners \ {handlers[h].target} # {}
      BY <2>3 DEF OwnerSafe
    <3>4. miscounted' = miscounted
      BY DEF WriteMember
    <3>5. Owners' # {} \/ miscounted
      BY <3>1, <3>3
    <3>6. ~miscounted' => \A k \in Handlers :
             MayCost(k)' => handlers'[k].target = handlers[h].target
      BY <2>1, <3>2, <3>4
    <3>7. ~miscounted' => Owners' \ {handlers[h].target} # {}
      BY <3>1, <3>3, <3>4
    <3> QED
      BY <3>4, <3>5, <3>6, <3>7 DEF OwnerSafe
  <2> QED
    BY <2>2, <2>3 DEF WriteMember, MayCost
<1>8. CASE \E h \in Handlers, u \in Users, i \in Invitations : RevokeCheck(h, u, i)
  BY <1>8, CountedAfterStart, SafeIfQuiet DEF RevokeCheck, Doing, Owners
\* A member who holds a rank keeps it when an invitation is accepted.
<1>9. CASE \E i \in Invitations : Accept(i)
  <2>1. Owners \subseteq Owners'
    BY <1>9 DEF Accept, Owners, Owner, Shape, MembersTypeOK
  <2> QED
    BY <1>9, <2>1, SafeIfQuiet DEF Accept, MayCost
<1>10. CASE \E i \in Invitations : Expires(i)
  BY <1>10, SafeIfQuiet DEF Expires, Owners, MayCost
<1>11. CASE UNCHANGED memberVars
  BY <1>11, SafeIfQuiet DEF memberVars, Owners, MayCost
<1> QED
  BY <1>1, <1>2, <1>3, <1>4, <1>5, <1>6, <1>7, <1>8, <1>9, <1>10, <1>11 DEF MembersNext

(* The organization keeps an owner as long as no two requests about         *)
(* different members were both between the count and the write.             *)
THEOREM OwnerKept == MembersSpec => []OwnerKeptUnlessCrossed
<1>1. MembersInit => OwnerSafe
  <2> SUFFICES ASSUME MembersInit PROVE OwnerSafe
    OBVIOUS
  <2>1. Founder \in Owners
    BY UsersAssumption DEF MembersInit, Owners
  <2>2. \A h \in Handlers : ~MayCost(h)
    BY DEF MembersInit, MayCost, NoHandler
  <2> QED
    BY <2>1, <2>2 DEF OwnerSafe
<1>2. OwnerSafe => OwnerKeptUnlessCrossed
  BY DEF OwnerSafe, OwnerKeptUnlessCrossed
<1> QED
  BY <1>1, <1>2, InitShape, StepShape, StepOwnerSafe, PTL DEF MembersSpec

-----------------------------------------------------------------------------
\* A step that opens no row and moves no address keeps one open row an address.
LEMMA OneOpenIfNoneOpened ==
    ASSUME OneOpenInvitation,
           \A i \in Invitations :
               Open(i)' => Open(i) /\ invitations'[i].email = invitations[i].email
    PROVE  OneOpenInvitation'
  BY DEF OneOpenInvitation

\* Writing a status leaves the addresses, and opens nothing unless told to.
LEMMA StatusWritten ==
    ASSUME Shape, NEW i \in Invitations, Open(i),
           NEW s \in {"expired", "accepted", "revoked"},
           invitations' = [invitations EXCEPT ![i].status = s], NEW j \in Invitations, Open(j)'
    PROVE  Open(j) /\ invitations'[j].email = invitations[j].email
<1>1. invitations[i] \in Invitation
  BY RowsAreRows DEF Open
<1> DEFINE row == [invitations[i] EXCEPT !.status = s]
<1>2. row.email = invitations[i].email /\ invitations' = [invitations EXCEPT ![i] = row]
  BY <1>1 DEF Invitation
<1> HIDE DEF row
<1> QED
  BY <1>2 DEF Open, Shape, MembersTypeOK

LEMMA StepOneOpen == Shape /\ OneOpenInvitation /\ [MembersNext]_memberVars => OneOpenInvitation'
<1> SUFFICES ASSUME Shape, OneOpenInvitation, [MembersNext]_memberVars PROVE OneOpenInvitation'
  OBVIOUS
<1>1. CASE UNCHANGED invitations
  BY <1>1 DEF OneOpenInvitation, Open
\* What is open for the address, the transaction holds: its rows are revoked
\* with the INSERT, and the index admits no other.
<1>2. CASE \E h \in Handlers : InviteInsert(h)
  <2> PICK h \in Handlers : InviteInsert(h)
    BY <1>2
  <2> DEFINE e == handlers[h].target
             new == [email |-> e, role |-> handlers[h].role, status |-> "pending"]
  <2> PICK i \in Invitations :
          invitations' = [j \in Invitations |->
             IF j = i THEN new
             ELSE IF j \in held[h] THEN [invitations[j] EXCEPT !.status = "revoked"]
             ELSE invitations[j]]
    BY DEF InviteInsert
  <2>1. invitations'[i].email = e
    OBVIOUS
  <2>2. \A j \in held[h] \ {i} : ~Open(j)'
    <3> SUFFICES ASSUME NEW j \in held[h] \ {i} PROVE ~Open(j)'
      OBVIOUS
    <3>1. j \in Invitations /\ invitations[j] \in Invitation
      BY RowsAreRows DEF Shape, HeldExist, MembersTypeOK
    <3>2. invitations'[j] = [invitations[j] EXCEPT !.status = "revoked"]
      BY <3>1
    <3>3. invitations'[j].status = "revoked"
      BY <3>1, <3>2 DEF Invitation
    <3> QED
      BY <3>3 DEF Open
  <2>3. \A j \in Invitations \ {i} : Open(j)' =>
           j \notin held[h] /\ Open(j) /\ invitations'[j] = invitations[j]
    BY <2>2 DEF Open
  <2>4. \A j \in Invitations \ {i} : Open(j)' => invitations'[j].email # e
    BY <2>3 DEF InviteInsert, IndexAllows
  <2> QED
    BY <2>1, <2>3, <2>4 DEF OneOpenInvitation
<1>3. CASE \E h \in Handlers : RevokeInvitation(h)
  <2> PICK h \in Handlers : RevokeInvitation(h)
    BY <1>3
  <2> DEFINE i == handlers[h].target
  <2>1. /\ i \in Invitations /\ Open(i)
        /\ invitations' = [invitations EXCEPT ![i].status = "revoked"]
    BY DEF RevokeInvitation, Shape, Targeted
  <2> HIDE DEF i
  <2> QED
    BY <2>1, StatusWritten, OneOpenIfNoneOpened
<1>4. CASE \E i \in Invitations : Accept(i)
  BY <1>4, StatusWritten, OneOpenIfNoneOpened DEF Accept, Open
\* An expired row stays open to the next invitation.
<1>5. CASE \E i \in Invitations : Expires(i)
  BY <1>5, StatusWritten, OneOpenIfNoneOpened DEF Expires, Open
<1> QED
  BY <1>1, <1>2, <1>3, <1>4, <1>5
  DEF MembersNext, memberVars, Invite, ChangeRole, Remove, InviteLookup, InviteReplace,
      CountOwners, WriteMember, HandlerDies, RevokeCheck

(* However the statements of overlapping invitations fall between each      *)
(* other, withdrawals, accepts and expiry, an address never has two rows    *)
(* that are neither accepted nor revoked.                                   *)
THEOREM OneInvitationPerAddress == MembersSpec => []OneOpenInvitation
<1>1. MembersInit => OneOpenInvitation
  BY DEF MembersInit, OneOpenInvitation, Open
<1> QED
  BY <1>1, InitShape, StepShape, StepOneOpen, PTL DEF MembersSpec

\* Only accepting accepts, and it writes a rank to those who had none.
LEMMA StepAccepts ==
    Shape /\ [MembersNext]_memberVars =>
        \A i \in Invitations : Accepted(i) =>
            \A u \in Users : rank[u] # 0 => rank'[u] = rank[u]
<1> SUFFICES ASSUME Shape, [MembersNext]_memberVars, NEW i \in Invitations, Accepted(i),
                    NEW u \in Users, rank[u] # 0
             PROVE  rank'[u] = rank[u]
  OBVIOUS
<1>1. CASE rank' = rank
  BY <1>1
<1>2. CASE \E j \in Invitations : Accept(j)
  BY <1>2 DEF Accept, Shape, MembersTypeOK
<1>3. CASE \E h \in Handlers : WriteMember(h)
  BY <1>3 DEF WriteMember, Accepted
<1> QED
  BY <1>1, <1>2, <1>3
  DEF MembersNext, memberVars, Invite, ChangeRole, Remove, InviteLookup, InviteReplace, InviteInsert,
      RevokeInvitation, CountOwners, HandlerDies, RevokeCheck, Expires

(* Accepting an invitation never changes the role of somebody who is a      *)
(* member already, whatever the invitation offers.                          *)
THEOREM AcceptingAdmitsOnly == MembersSpec => AcceptKeepsMembers
<1>1. MembersSpec => []Shape
  BY InitShape, StepShape, PTL DEF MembersSpec
<1>2. Shape /\ [MembersNext]_memberVars =>
        [\A i \in Invitations : Accepted(i) =>
            \A u \in Users : rank[u] # 0 => rank'[u] = rank[u]]_memberVars
  BY StepAccepts
<1> QED
  BY <1>1, <1>2, PTL DEF MembersSpec, AcceptKeepsMembers

-----------------------------------------------------------------------------
\* Projects.
Builds(r, p) == requests[r].at \in {"create", "fail"} /\ Of(r) = p
TearsDown(r, p) == requests[r].at \in Tearing /\ Of(r) = p

\* What has no row has nothing else, and nobody is at work on it.
Unborn ==
    \A p \in Projects :
        status[p] = "none" =>
            /\ cluster[p] = {} /\ rows[p] = {} /\ p \notin deleted
            /\ \A r \in Requests : ~Builds(r, p) /\ ~TearsDown(r, p)

OneBuilder ==
    \A p \in Projects : \A q, r \in Requests : Builds(q, p) /\ Builds(r, p) => q = r

\* A creation that nobody crossed has done the steps before its own.
DoneBefore(p, i) ==
    /\ "role" \in cluster[p] <=> i > 1
    /\ "database" \in cluster[p] <=> i > 2
    /\ "schema" \in cluster[p] <=> i > 3
    /\ "connection" \in rows[p] <=> i > 4
    /\ "keys" \in rows[p] <=> i > 5
    /\ "quotas" \in rows[p] <=> i > 6
    /\ status[p] = IF i > 7 THEN "active" ELSE "provisioning"

BuiltInOrder ==
    \A p \in Projects \ crossed : \A r \in Requests :
        Builds(r, p) =>
            /\ DoneBefore(p, requests[r].step)
            /\ requests[r].at = "fail" /\ requests[r].step \in 2..4 => p \in unrecorded

\* Once it is deleted, nothing builds it, and it is active no more.
NoLongerBuilt ==
    \A p \in Projects \ crossed :
        /\ p \in deleted => ~Creating(p)
        /\ \A r \in Requests :
              TearsDown(r, p) =>
                  /\ ~Creating(p)
                  /\ requests[r].at # "deleting" => status[p] \in {"deleting", "paused"}

\* A project in the cluster can be reached by the row of its connection.
Recorded ==
    \A p \in Projects \ (crossed \cup unrecorded) :
        ~Creating(p) => "connection" \in rows[p] \/ cluster[p] = {}

\* What a deletion has dropped stays away.
DroppedInOrder ==
    \A p \in Projects \ (crossed \cup unrecorded) : \A r \in Requests :
        TearsDown(r, p) =>
            /\ requests[r].known \/ cluster[p] = {}
            /\ requests[r].at = "dropRole" => cluster[p] \subseteq {"role"}
            /\ requests[r].at = "delete" => cluster[p] = {}

\* Who is about to lose the right is not the last to have it.
OthersLeft ==
    split \/ /\ operators # {}
             /\ \A r \in Requests : At(r, "revoke") => operators \ {requests[r].user} # {}
             /\ \A q, r \in Requests : At(q, "revoke") /\ At(r, "revoke") => q = r

ProjectsInv ==
    /\ TypeOK /\ Unborn /\ OneBuilder /\ BuiltInOrder /\ NoLongerBuilt /\ Recorded
    /\ DroppedInOrder /\ OthersLeft /\ ActiveIsWhole /\ DeletedLeavesNothing

LEMMA RequestShapes ==
    /\ Idle \in Request
    /\ \A p \in Projects, i \in 1..8 :
          [Idle EXCEPT !.at = "create", !.project = p, !.step = i] \in Request
    /\ \A p \in Projects, b \in BOOLEAN :
          [Idle EXCEPT !.at = "deleting", !.project = p, !.known = b] \in Request
    /\ \A u \in Operators : [Idle EXCEPT !.at = "revoke", !.user = u] \in Request
    /\ \A p \in Projects : [Idle EXCEPT !.at = "suspend", !.project = p] \in Request
<1>0. Len(Steps) = 8
  BY DEF Steps
<1>1. Idle \in Request
  BY DEF Idle, Request
<1>2. \A p \in Projects, i \in 1..8 :
          [Idle EXCEPT !.at = "create", !.project = p, !.step = i] \in Request
  BY <1>0 DEF Idle, Request
<1>3. \A p \in Projects, b \in BOOLEAN :
          [Idle EXCEPT !.at = "deleting", !.project = p, !.known = b] \in Request
  BY DEF Idle, Request, Tearing
<1>4. \A u \in Operators : [Idle EXCEPT !.at = "revoke", !.user = u] \in Request
  BY DEF Idle, Request
<1>5. \A p \in Projects : [Idle EXCEPT !.at = "suspend", !.project = p] \in Request
  BY DEF Idle, Request
<1> QED
  BY <1>1, <1>2, <1>3, <1>4, <1>5

LEMMA RequestSteps ==
    ASSUME NEW x \in Request
    PROVE  /\ x.at \in {"create", "fail"} =>
                 /\ x.project \in Projects /\ x.step \in 1..8
                 /\ [x EXCEPT !.at = "fail"] \in Request
                 /\ x.at = "create" /\ x.step < 8 => [x EXCEPT !.step = x.step + 1] \in Request
           /\ x.at \in Tearing =>
                 /\ x.project \in Projects /\ x.known \in BOOLEAN
                 /\ \A to \in Tearing : [x EXCEPT !.at = to] \in Request
           /\ x.at = "revoke" => x.user \in Operators
           /\ x.at \in {"idle", "create", "fail", "suspend", "revoke"} \cup Tearing
<1>0. Len(Steps) = 8
  BY DEF Steps
<1>1. ASSUME x.at \in {"create", "fail"}
      PROVE  /\ x.project \in Projects /\ x.step \in 1..8
             /\ [x EXCEPT !.at = "fail"] \in Request
             /\ x.at = "create" /\ x.step < 8 => [x EXCEPT !.step = x.step + 1] \in Request
  <2>1. x \in [at : {"create", "fail"}, project : Projects, step : 1..8, known : {FALSE},
               user : {None}]
    BY <1>0, <1>1 DEF Request, Tearing
  <2>2. x.project \in Projects /\ x.step \in 1..8 /\ [x EXCEPT !.at = "fail"] \in Request
    BY <1>0, <2>1 DEF Request
  <2>3. ASSUME x.at = "create", x.step < 8
        PROVE  [x EXCEPT !.step = x.step + 1] \in Request
    <3>1. x.step + 1 \in 1..8
      BY <2>2, <2>3
    <3> QED
      BY <1>0, <2>1, <3>1 DEF Request
  <2> QED
    BY <2>2, <2>3
<1>2. ASSUME x.at \in Tearing
      PROVE  /\ x.project \in Projects /\ x.known \in BOOLEAN
             /\ \A to \in Tearing : [x EXCEPT !.at = to] \in Request
  BY <1>2 DEF Request, Tearing
<1>3. x.at = "revoke" => x.user \in Operators
  BY DEF Request, Tearing
<1>4. x.at \in {"idle", "create", "fail", "suspend", "revoke"} \cup Tearing
  BY DEF Request
<1> QED
  BY <1>1, <1>2, <1>3, <1>4

LEMMA RequestSet ==
    ASSUME TypeOK, NEW r \in Requests, NEW x \in Request, Set(r, x)
    PROVE  requests' \in [Requests -> Request]
  BY DEF TypeOK, Set

LEMMA ProjectsType == TypeOK /\ [Next]_vars => TypeOK'
<1> SUFFICES ASSUME TypeOK, [Next]_vars PROVE TypeOK'
  OBVIOUS
<1> USE DEF tenant, use, admin, history
<1>1. ASSUME NEW r \in Requests, NEW p \in Projects, InsertProject(r, p)
      PROVE  TypeOK'
  <2>1. [Idle EXCEPT !.at = "create", !.project = p, !.step = 1] \in Request
    <3>1. 1 \in 1..8
      OBVIOUS
    <3> QED
      BY <3>1, RequestShapes
  <2>2. requests' \in [Requests -> Request]
    BY <1>1, <2>1, RequestSet DEF InsertProject
  <2> QED
    BY <1>1, <2>2 DEF InsertProject, TypeOK
<1>2. ASSUME NEW r \in Requests, NEW p \in Projects, DeleteProject(r, p)
      PROVE  TypeOK'
  <2>1. [Idle EXCEPT !.at = "deleting", !.project = p, !.known = "connection" \in rows[p]]
        \in Request
    <3>1. ("connection" \in rows[p]) \in BOOLEAN
      OBVIOUS
    <3> QED
      BY <3>1, RequestShapes, Zenon
  <2>2. requests' \in [Requests -> Request]
    BY <1>2, <2>1, RequestSet DEF DeleteProject
  <2> QED
    BY <1>2, <2>2 DEF DeleteProject, TypeOK
<1>3. ASSUME NEW r \in Requests, Provision(r)
      PROVE  TypeOK'
  <2> DEFINE i == requests[r].step
             p == Of(r)
  <2>1. requests[r] \in Request /\ requests[r].at = "create"
    BY <1>3 DEF TypeOK, Provision, At
  <2>2. p \in Projects /\ i \in 1..8
    BY <2>1, RequestSteps DEF Of
  <2>3. Len(Steps) = 8
    BY DEF Steps
  <2>4. (IF i < Len(Steps) THEN [requests[r] EXCEPT !.step = i + 1] ELSE Idle) \in Request
    BY <2>1, <2>2, <2>3, RequestSteps, RequestShapes
  <2>5. requests' \in [Requests -> Request]
    BY <1>3, <2>4, RequestSet DEF Provision
  <2>6. Built(p, Steps[i])
    BY <1>3 DEF Provision
  <2> QED
    BY <1>3, <2>2, <2>5, <2>6 DEF Provision, TypeOK, Built
<1>4. ASSUME NEW r \in Requests,
             ProvisionFails(r) \/ MarkFailed(r) \/ CreationDies(r)
      PROVE  TypeOK'
  <2>1. requests[r] \in Request /\ requests[r].at \in {"create", "fail"}
    BY <1>4 DEF TypeOK, ProvisionFails, MarkFailed, CreationDies, At
  <2>2. Of(r) \in Projects /\ [requests[r] EXCEPT !.at = "fail"] \in Request
    BY <2>1, RequestSteps DEF Of
  <2>3. requests' \in [Requests -> Request]
    BY <1>4, <2>2, RequestSet, RequestShapes DEF ProvisionFails, MarkFailed, CreationDies
  <2> QED
    BY <1>4, <2>2, <2>3 DEF ProvisionFails, MarkFailed, CreationDies, TypeOK, Unrecorded
<1>5. ASSUME NEW r \in Requests,
             \/ MarkDeleting(r) \/ Evict(r) \/ Terminate(r) \/ DropDatabase(r) \/ DropRole(r)
             \/ MarkDeleted(r) \/ TearDownFails(r)
      PROVE  TypeOK'
  <2>1. requests[r] \in Request /\ requests[r].at \in Tearing
    BY <1>5 DEF TypeOK, MarkDeleting, Evict, Terminate, DropDatabase, DropRole, MarkDeleted,
                TearDownFails, Tearing, At
  <2>2. Of(r) \in Projects /\ \A to \in Tearing : [requests[r] EXCEPT !.at = to] \in Request
    BY <2>1, RequestSteps DEF Of
  <2>3. requests' \in [Requests -> Request]
    BY <1>5, <2>2, RequestSet, RequestShapes
    DEF MarkDeleting, Evict, Terminate, DropDatabase, DropRole, MarkDeleted, TearDownFails,
        Tearing
  <2>4. CASE MarkDeleting(r) \/ MarkDeleted(r)
    BY <2>2, <2>3, <2>4 DEF MarkDeleting, MarkDeleted, TypeOK
  <2>5. CASE Evict(r) \/ Terminate(r) \/ TearDownFails(r)
    BY <2>2, <2>3, <2>5 DEF Evict, Terminate, TearDownFails, TypeOK
  <2>6. CASE DropDatabase(r) \/ DropRole(r)
    BY <2>2, <2>3, <2>6 DEF DropDatabase, DropRole, TypeOK
  <2> QED
    BY <1>5, <2>4, <2>5, <2>6
<1>6. ASSUME NEW r \in Requests,
             RevokeAdmin(r) \/ \E by, u \in Operators : CountOperators(r, by, u)
      PROVE  TypeOK'
  <2>1. requests' \in [Requests -> Request]
    BY <1>6, RequestSet, RequestShapes DEF RevokeAdmin, CountOperators
  <2> QED
    BY <1>6, <2>1 DEF RevokeAdmin, CountOperators, TypeOK
<1>7. ASSUME NEW p \in Projects, UsePool(p) \/ Resume(p)
      PROVE  TypeOK'
  BY <1>7 DEF UsePool, Resume, TypeOK
<1>8. ASSUME BootstrapAdmins \/ \E u \in Operators : GrantAdmin(u)
      PROVE  TypeOK'
  BY <1>8 DEF BootstrapAdmins, GrantAdmin, TypeOK
<1>9. CASE UNCHANGED vars
  BY <1>9 DEF vars, TypeOK
<1>10. ASSUME NEW r \in Requests, NEW p \in Projects, Suspend(r, p)
       PROVE  TypeOK'
  <2>1. requests' \in [Requests -> Request]
    BY <1>10, RequestSet, RequestShapes DEF Suspend
  <2> QED
    BY <1>10, <2>1 DEF Suspend, TypeOK
<1>11. ASSUME NEW r \in Requests, SuspendEvicts(r) \/ SuspendFails(r)
       PROVE  TypeOK'
  <2>1. requests' \in [Requests -> Request]
    BY <1>11, RequestSet, RequestShapes DEF SuspendEvicts, SuspendFails
  <2> QED
    BY <1>11, <2>1 DEF SuspendEvicts, SuspendFails, TypeOK
<1> QED
  BY <1>1, <1>2, <1>3, <1>4, <1>5, <1>6, <1>7, <1>8, <1>9, <1>10, <1>11 DEF Next

\* Using and resuming a project, and new operators.
LEMMA UseKeepsProjects ==
    ASSUME ProjectsInv,
           \/ \E p \in Projects : UsePool(p) \/ Resume(p)
           \/ BootstrapAdmins \/ \E u \in Operators : GrantAdmin(u)
    PROVE  ProjectsInv'
<1> USE DEF ProjectsInv, Builds, TearsDown, Creating, Tearing, Set, At, Of, tenant, use, admin,
            history, Idle
<1>1. TypeOK'
  BY ProjectsType DEF Next
<1>2. Unborn'
  BY DEF TypeOK, UsePool, Resume, BootstrapAdmins, GrantAdmin, Unborn
<1>3. OneBuilder'
  BY DEF TypeOK, UsePool, Resume, BootstrapAdmins, GrantAdmin, OneBuilder, Unborn
<1>4. BuiltInOrder'
  BY DEF TypeOK, UsePool, Resume, BootstrapAdmins, GrantAdmin, BuiltInOrder,
         OneBuilder, Unborn, DoneBefore
<1>5. NoLongerBuilt'
  BY DEF TypeOK, UsePool, Resume, BootstrapAdmins, GrantAdmin, NoLongerBuilt,
         Unborn
<1>6. Recorded'
  BY DEF TypeOK, UsePool, Resume, BootstrapAdmins, GrantAdmin, Recorded,
         NoLongerBuilt, Unborn, BuiltInOrder, DoneBefore
<1>7. DroppedInOrder'
  BY DEF TypeOK, UsePool, Resume, BootstrapAdmins, GrantAdmin, DroppedInOrder,
         NoLongerBuilt, Recorded, InCluster
<1>8. OthersLeft'
  BY DEF TypeOK, UsePool, Resume, BootstrapAdmins, GrantAdmin, OthersLeft
<1>9. ActiveIsWhole'
  BY DEF TypeOK, UsePool, Resume, BootstrapAdmins, GrantAdmin, ActiveIsWhole,
         NoLongerBuilt, BuiltInOrder, DoneBefore, InCluster
<1>10. DeletedLeavesNothing'
  BY DEF TypeOK, UsePool, Resume, BootstrapAdmins, GrantAdmin,
         DeletedLeavesNothing, DroppedInOrder, Unborn, NoLongerBuilt, InCluster
<1> QED
  BY <1>1, <1>2, <1>3, <1>4, <1>5, <1>6, <1>7, <1>8, <1>9, <1>10

\* A project is created.
LEMMA InsertKeepsProjects ==
    ASSUME ProjectsInv, NEW r \in Requests, NEW p \in Projects,
           InsertProject(r, p)
    PROVE  ProjectsInv'
<1> USE DEF ProjectsInv, Builds, TearsDown, Creating, Tearing, Set, At, Of, tenant, use, admin,
            history, Idle
<1>1. TypeOK'
  BY ProjectsType DEF Next
<1>2. Unborn'
  BY DEF TypeOK, InsertProject, Unborn
<1>3. OneBuilder'
  BY DEF TypeOK, InsertProject, OneBuilder, Unborn
<1>4. BuiltInOrder'
  BY DEF TypeOK, InsertProject, BuiltInOrder, OneBuilder, Unborn, DoneBefore
<1>5. NoLongerBuilt'
  BY DEF TypeOK, InsertProject, NoLongerBuilt, Unborn
<1>6. Recorded'
  BY DEF TypeOK, InsertProject, Recorded, NoLongerBuilt, Unborn, BuiltInOrder, DoneBefore
<1>7. DroppedInOrder'
  BY DEF TypeOK, InsertProject, DroppedInOrder, NoLongerBuilt, Recorded, InCluster
<1>8. OthersLeft'
  BY DEF TypeOK, InsertProject, OthersLeft
<1>9. ActiveIsWhole'
  BY DEF TypeOK, InsertProject, ActiveIsWhole, NoLongerBuilt, BuiltInOrder, DoneBefore,
         InCluster
<1>10. DeletedLeavesNothing'
  BY DEF TypeOK, InsertProject, DeletedLeavesNothing, DroppedInOrder, Unborn, NoLongerBuilt,
         InCluster
<1> QED
  BY <1>1, <1>2, <1>3, <1>4, <1>5, <1>6, <1>7, <1>8, <1>9, <1>10

LEMMA StepNames ==
    /\ Len(Steps) = 8
    /\ Steps[1] = "role" /\ Steps[2] = "database" /\ Steps[3] = "schema"
    /\ Steps[4] = "connection" /\ Steps[5] = "keys" /\ Steps[6] = "quotas"
    /\ Steps[7] = "active" /\ Steps[8] = "bucket"
  BY DEF Steps

LEMMA RequestMoves ==
    ASSUME TypeOK, NEW r \in Requests, NEW x, Set(r, x)
    PROVE  /\ requests'[r] = x
           /\ \A o \in Requests \ {r} : requests'[o] = requests[o]
  BY DEF TypeOK, Set

\* A step of a creation is done.
LEMMA ProvisionKeepsProjects ==
    ASSUME ProjectsInv, NEW r \in Requests, Provision(r)
    PROVE  ProjectsInv'
<1>0. requests[r] \in Request /\ At(r, "create")
  BY DEF ProjectsInv, TypeOK, Provision
<1>p. PICK p \in Projects, i \in 1..8 : p = Of(r) /\ i = requests[r].step
  BY <1>0, RequestSteps DEF At, Of
<1>1. Builds(r, p) /\ status[p] # "none" /\ At(r, "create") /\ Of(r) = p /\ requests[r].step = i
      /\ requests[r] \in Request
  BY <1>0, <1>p DEF At, Builds, ProjectsInv, Unborn
<1>2. /\ i < 8 => /\ requests'[r].at = "create" /\ requests'[r].project = p
                  /\ requests'[r].step = i + 1
      /\ i = 8 => requests'[r].at = "idle"
      /\ \A o \in Requests \ {r} : requests'[o] = requests[o]
  <2>1. Set(r, IF i < 8 THEN [requests[r] EXCEPT !.step = i + 1] ELSE Idle)
    BY <1>1, StepNames DEF Provision
  <2>2. /\ requests'[r] = (IF i < 8 THEN [requests[r] EXCEPT !.step = i + 1] ELSE Idle)
        /\ \A o \in Requests \ {r} : requests'[o] = requests[o]
    BY <2>1, RequestMoves, Zenon DEF ProjectsInv
  <2>3. requests[r] \in [at : {"create", "fail"}, project : Projects, step : 1..8,
                        known : {FALSE}, user : {None}]
    BY <1>1, StepNames DEF Request, Tearing, At
  <2>4. CASE i < 8
    BY <1>1, <2>2, <2>3, <2>4 DEF Of, At
  <2>5. CASE i = 8
    BY <2>2, <2>5 DEF Idle
  <2> QED
    BY <2>2, <2>4, <2>5
<1>3. \A q \in Requests, o \in Projects : Builds(q, o)' => Builds(q, o)
  BY <1>1, <1>2 DEF Builds, Of, At
<1>4. \A q \in Requests, o \in Projects :
          TearsDown(q, o)' => TearsDown(q, o) /\ requests'[q] = requests[q]
  BY <1>1, <1>2 DEF TearsDown, Of, At, Tearing
<1>5. Built(p, Steps[i]) /\ UNCHANGED <<gone, use, admin, history>>
  BY <1>1 DEF Provision
<1>6. /\ \A o \in Projects \ {p} :
            status'[o] = status[o] /\ cluster'[o] = cluster[o] /\ rows'[o] = rows[o]
      /\ cluster'[p] = cluster[p] \cup ({Steps[i]} \cap InCluster)
      /\ rows'[p] = rows[p] \cup ({Steps[i]} \cap OnPlatform)
      /\ status'[p] = IF Steps[i] = "active" THEN "active" ELSE status[p]
  BY <1>1, <1>5 DEF Built, ProjectsInv, TypeOK
<1>7. TypeOK'
  BY ProjectsType DEF Next, ProjectsInv
<1>8. \A o \in Projects : Creating(o)' => Creating(o)
  BY <1>3 DEF Creating, Builds
<1>9. OneBuilder' /\ Unborn'
  BY <1>1, <1>3, <1>4, <1>5, <1>6 DEF ProjectsInv, OneBuilder, Unborn, history
<1>10. BuiltInOrder'
  <2> SUFFICES ASSUME NEW o \in Projects, o \notin crossed, NEW q \in Requests, Builds(q, o)'
               PROVE  /\ DoneBefore(o, requests[q].step)'
                      /\ (requests[q].at = "fail" /\ requests[q].step \in 2..4
                             => o \in unrecorded)'
    BY <1>5 DEF BuiltInOrder, history
  <2>1. Builds(q, o)
    BY <1>3
  <2>2. CASE q = r
    <3>1. /\ i < 8 /\ o = p /\ requests'[r].step = i + 1 /\ requests'[r].at = "create"
      BY <1>1, <1>2, <2>1, <2>2 DEF Builds, Of, At
    <3>2. DoneBefore(p, i)
      BY <1>1, <3>1 DEF ProjectsInv, BuiltInOrder
    <3>3. DoneBefore(p, i + 1)'
      <4>1. CASE i = 1
        BY <1>6, <3>2, <4>1, StepNames DEF DoneBefore, InCluster, OnPlatform
      <4>2. CASE i = 2
        BY <1>6, <3>2, <4>2, StepNames DEF DoneBefore, InCluster, OnPlatform
      <4>3. CASE i = 3
        BY <1>6, <3>2, <4>3, StepNames DEF DoneBefore, InCluster, OnPlatform
      <4>4. CASE i = 4
        BY <1>6, <3>2, <4>4, StepNames DEF DoneBefore, InCluster, OnPlatform
      <4>5. CASE i = 5
        BY <1>6, <3>2, <4>5, StepNames DEF DoneBefore, InCluster, OnPlatform
      <4>6. CASE i = 6
        BY <1>6, <3>2, <4>6, StepNames DEF DoneBefore, InCluster, OnPlatform
      <4>7. CASE i = 7
        BY <1>6, <3>2, <4>7, StepNames DEF DoneBefore, InCluster, OnPlatform
      <4> QED
        BY <3>1, <4>1, <4>2, <4>3, <4>4, <4>5, <4>6, <4>7
    <3> QED
      BY <2>2, <3>1, <3>3
  <2>3. CASE q # r
    <3>1. o # p
      BY <1>1, <2>1, <2>3 DEF ProjectsInv, OneBuilder
    <3> QED
      BY <1>2, <1>5, <1>6, <2>1, <2>3, <3>1 DEF ProjectsInv, BuiltInOrder, DoneBefore, history
  <2> QED
    BY <2>2, <2>3
<1>11. NoLongerBuilt'
  <2>1. \A o \in Projects \ crossed : \A q \in Requests : TearsDown(q, o) => o # p
    BY <1>1 DEF ProjectsInv, NoLongerBuilt, Creating, Builds
  <2> QED
    BY <1>4, <1>5, <1>6, <1>8, <2>1 DEF ProjectsInv, NoLongerBuilt, history
<1>12. Recorded' /\ DroppedInOrder' /\ DeletedLeavesNothing'
  <2>1. \A o \in Projects \ crossed :
           o \in deleted \/ (\E q \in Requests : TearsDown(q, o)) => o # p
    BY <1>1 DEF ProjectsInv, NoLongerBuilt, Creating, Builds
  <2>2. DroppedInOrder' /\ DeletedLeavesNothing'
    BY <1>4, <1>5, <1>6, <2>1
    DEF ProjectsInv, DroppedInOrder, DeletedLeavesNothing, history, TypeOK
  <2>3. ASSUME p \notin crossed, ~Creating(p)'
        PROVE  "connection" \in rows'[p]
    <3>1. i = 8 /\ DoneBefore(p, 8)
      BY <1>1, <1>2, <1>5, <2>3 DEF ProjectsInv, BuiltInOrder, Creating, At, Of
    <3> QED
      BY <1>6, <3>1 DEF DoneBefore
  <2>4. \A o \in Projects \ {p} : Creating(o) => Creating(o)'
    BY <1>1, <1>2 DEF Creating, Of
  <2> QED
    BY <1>5, <1>6, <2>2, <2>3, <2>4 DEF ProjectsInv, Recorded, history
<1>13. OthersLeft'
  BY <1>1, <1>2, <1>5 DEF ProjectsInv, OthersLeft, At, admin
<1>14. ActiveIsWhole'
  <2>1. ASSUME p \notin crossed, Steps[i] = "active"
        PROVE  /\ InCluster = cluster'[p] /\ {"connection", "keys", "quotas"} \subseteq rows'[p]
    <3>1. i = 7 /\ DoneBefore(p, 7)
      BY <1>1, <2>1, StepNames DEF ProjectsInv, BuiltInOrder
    <3>2. cluster'[p] \subseteq InCluster
      BY <1>1, <1>7 DEF TypeOK
    <3> QED
      BY <1>6, <3>1, <3>2 DEF DoneBefore, InCluster
  <2>2. \A o \in Projects \ {p} : o \notin crossed /\ status'[o] = "active" =>
            InCluster = cluster'[o] /\ {"connection", "keys", "quotas"} \subseteq rows'[o]
    BY <1>6 DEF ProjectsInv, ActiveIsWhole
  <2>3. ASSUME p \notin crossed, Steps[i] # "active"
        PROVE  status'[p] # "active" \/
                 (InCluster = cluster'[p] /\ {"connection", "keys", "quotas"} \subseteq rows'[p])
    <3>1. CASE status[p] = "active"
      BY <1>1, <1>6, <2>3, <3>1 DEF ProjectsInv, ActiveIsWhole, TypeOK
    <3> QED
      BY <1>6, <2>3, <3>1
  <2>4. crossed' = crossed
    BY <1>5 DEF history
  <2> QED
    BY <2>1, <2>2, <2>3, <2>4 DEF ActiveIsWhole
<1> QED
  BY <1>7, <1>9, <1>10, <1>11, <1>12, <1>13, <1>14 DEF ProjectsInv

\* A creation fails or dies.
LEMMA CreationEndKeepsProjects ==
    ASSUME ProjectsInv, NEW r \in Requests, ProvisionFails(r) \/ MarkFailed(r) \/ CreationDies(r)
    PROVE  ProjectsInv'
<1>0. requests[r] \in Request /\ requests[r].at \in {"create", "fail"}
  BY DEF ProjectsInv, TypeOK, ProvisionFails, MarkFailed, CreationDies, At
<1>p. PICK p \in Projects, i \in 1..8 : p = Of(r) /\ i = requests[r].step
  BY <1>0, RequestSteps DEF Of
<1>1. Builds(r, p) /\ status[p] # "none" /\ Of(r) = p /\ requests[r].step = i
  BY <1>0, <1>p DEF Builds, ProjectsInv, Unborn
<1>2. \/ ProvisionFails(r) /\ requests'[r].at = "fail" /\ requests'[r].project = p
           /\ requests'[r].step = i
      \/ ~ProvisionFails(r) /\ requests'[r].at = "idle"
  <2>1. CASE ProvisionFails(r)
    <3>1. requests'[r] = [requests[r] EXCEPT !.at = "fail"]
      BY <2>1, RequestMoves DEF ProvisionFails, ProjectsInv
    <3>2. requests[r] \in [at : {"create", "fail"}, project : Projects, step : 1..8,
                          known : {FALSE}, user : {None}]
      BY <1>0, StepNames DEF Request, Tearing
    <3> QED
      BY <1>1, <2>1, <3>1, <3>2 DEF Of
  <2>2. CASE ~ProvisionFails(r)
    BY <2>2, RequestMoves DEF MarkFailed, CreationDies, ProjectsInv, Idle
  <2> QED
    BY <2>1, <2>2
<1>3. \A o \in Requests \ {r} : requests'[o] = requests[o]
  BY RequestMoves DEF ProvisionFails, MarkFailed, CreationDies, ProjectsInv
<1>4. /\ \A q \in Requests, o \in Projects : Builds(q, o)' => Builds(q, o)
      /\ \A q \in Requests, o \in Projects :
             TearsDown(q, o)' => TearsDown(q, o) /\ requests'[q] = requests[q]
      /\ \A o \in Projects : Creating(o)' => Creating(o)
      /\ \A o \in Projects \ {p} : Creating(o) => Creating(o)'
  BY <1>1, <1>2, <1>3 DEF Builds, TearsDown, Creating, Of, Tearing
<1>5. /\ UNCHANGED <<cluster, rows, admin, deleted, crossed>>
      /\ unrecorded \subseteq unrecorded'
      /\ ~MarkFailed(r) /\ i \in 2..4 => p \in unrecorded'
      /\ status' = status \/ status' = [status EXCEPT ![p] = "failed"]
  BY <1>1 DEF ProvisionFails, MarkFailed, CreationDies, Unrecorded, tenant, history, ProjectsInv,
              TypeOK
<1>6. TypeOK'
  BY ProjectsType DEF Next, ProjectsInv
<1>7. /\ \A o \in Projects \ {p} : status'[o] = status[o]
      /\ status'[p] \in {status[p], "failed"}
      /\ ~MarkFailed(r) => status' = status
  BY <1>5 DEF ProjectsInv, TypeOK, ProvisionFails, CreationDies, tenant
<1>8. OneBuilder' /\ Unborn'
  BY <1>1, <1>4, <1>5, <1>7 DEF ProjectsInv, OneBuilder, Unborn
<1>9. BuiltInOrder'
  <2> SUFFICES ASSUME NEW o \in Projects, o \notin crossed, NEW q \in Requests, Builds(q, o)'
               PROVE  /\ DoneBefore(o, requests[q].step)'
                      /\ (requests[q].at = "fail" /\ requests[q].step \in 2..4
                             => o \in unrecorded)'
    BY <1>5 DEF BuiltInOrder
  <2>1. Builds(q, o)
    BY <1>4
  <2>2. CASE q = r
    <3>1. o = p /\ ProvisionFails(r) /\ requests'[r].step = i
      BY <1>1, <1>2, <2>1, <2>2 DEF Builds, Of
    <3>2. DoneBefore(p, i) /\ UNCHANGED status
      BY <1>1, <3>1 DEF ProjectsInv, BuiltInOrder, ProvisionFails, tenant
    <3>3. ~MarkFailed(r) \/ i \notin 2..4 \/ p \in unrecorded
      BY <1>1, <3>1 DEF ProjectsInv, BuiltInOrder, MarkFailed, At
    <3> QED
      BY <1>5, <2>2, <3>1, <3>2, <3>3 DEF DoneBefore
  <2>3. CASE q # r
    <3>1. o # p
      BY <1>1, <2>1, <2>3 DEF ProjectsInv, OneBuilder
    <3> QED
      BY <1>3, <1>5, <1>7, <2>1, <2>3, <3>1 DEF ProjectsInv, BuiltInOrder, DoneBefore
  <2> QED
    BY <2>2, <2>3
<1>10. NoLongerBuilt'
  <2>1. \A o \in Projects \ crossed : \A q \in Requests : TearsDown(q, o) => o # p
    BY <1>1 DEF ProjectsInv, NoLongerBuilt, Creating, Builds
  <2> QED
    BY <1>4, <1>5, <1>7, <2>1 DEF ProjectsInv, NoLongerBuilt
<1>11. Recorded'
  <2>1. ASSUME p \notin crossed, p \notin unrecorded', ~Creating(p)'
        PROVE  "connection" \in rows[p] \/ cluster[p] = {}
    <3>1. DoneBefore(p, i)
      BY <1>1, <2>1 DEF ProjectsInv, BuiltInOrder
    <3>2. i \notin 2..4
      BY <1>1, <1>5, <2>1 DEF ProjectsInv, BuiltInOrder, MarkFailed, At
    <3>3. CASE i = 1
      BY <3>1, <3>3 DEF DoneBefore, ProjectsInv, TypeOK, InCluster
    <3>4. CASE i > 4
      BY <3>1, <3>4 DEF DoneBefore
    <3> QED
      BY <3>2, <3>3, <3>4
  <2> QED
    BY <1>4, <1>5, <2>1 DEF ProjectsInv, Recorded
<1>12. DroppedInOrder' /\ DeletedLeavesNothing'
  BY <1>4, <1>5 DEF ProjectsInv, DroppedInOrder, DeletedLeavesNothing
<1>13. OthersLeft'
  BY <1>0, <1>2, <1>3, <1>5 DEF ProjectsInv, OthersLeft, At, admin
<1>14. ActiveIsWhole'
  BY <1>5, <1>7 DEF ProjectsInv, ActiveIsWhole
<1> QED
  BY <1>6, <1>8, <1>9, <1>10, <1>11, <1>12, <1>13, <1>14 DEF ProjectsInv

\* A deletion begins.
LEMMA DeleteKeepsProjects ==
    ASSUME ProjectsInv, NEW r \in Requests, NEW p \in Projects,
           DeleteProject(r, p)
    PROVE  ProjectsInv'
<1> USE DEF ProjectsInv, Builds, TearsDown, Creating, Tearing, Set, At, Of, tenant, use, admin,
            history, Idle
<1>1. TypeOK'
  BY ProjectsType DEF Next
<1>2. Unborn'
  BY DEF TypeOK, DeleteProject, Unborn
<1>3. OneBuilder'
  BY DEF TypeOK, DeleteProject, OneBuilder, Unborn
<1>4. BuiltInOrder'
  BY DEF TypeOK, DeleteProject, BuiltInOrder, OneBuilder, Unborn, DoneBefore
<1>5. NoLongerBuilt'
  BY DEF TypeOK, DeleteProject, NoLongerBuilt, Unborn
<1>6. Recorded'
  BY DEF TypeOK, DeleteProject, Recorded, NoLongerBuilt, Unborn, BuiltInOrder, DoneBefore
<1>7. DroppedInOrder'
  <2>1. /\ requests'[r] = [Idle EXCEPT !.at = "deleting", !.project = p,
                                       !.known = "connection" \in rows[p]]
        /\ \A q \in Requests \ {r} : requests'[q] = requests[q]
    BY RequestMoves, Zenon DEF DeleteProject
  <2>2. /\ requests'[r].at = "deleting" /\ requests'[r].project = p
        /\ "connection" \in rows[p] => requests'[r].known
    BY <2>1, Zenon
  <2>3. /\ UNCHANGED <<cluster, rows, unrecorded>> /\ crossed \subseteq crossed'
        /\ p \in Projects \ crossed' => ~Creating(p)
    BY DEF DeleteProject
  <2>4. ASSUME NEW o \in Projects \ (crossed' \cup unrecorded'), NEW q \in Requests,
               TearsDown(q, o)'
        PROVE  /\ requests'[q].known \/ cluster'[o] = {}
               /\ requests'[q].at = "dropRole" => cluster'[o] \subseteq {"role"}
               /\ requests'[q].at = "delete" => cluster'[o] = {}
    <3>1. CASE q = r
      BY <2>2, <2>3, <2>4, <3>1 DEF Recorded
    <3>2. CASE q # r
      BY <2>1, <2>3, <2>4, <3>2 DEF DroppedInOrder
    <3> QED
      BY <3>1, <3>2
  <2> QED
    BY <2>4 DEF DroppedInOrder
<1>8. OthersLeft'
  BY DEF TypeOK, DeleteProject, OthersLeft
<1>9. ActiveIsWhole'
  BY DEF TypeOK, DeleteProject, ActiveIsWhole, NoLongerBuilt, BuiltInOrder, DoneBefore,
         InCluster
<1>10. DeletedLeavesNothing'
  BY DEF TypeOK, DeleteProject, DeletedLeavesNothing, DroppedInOrder, Unborn, NoLongerBuilt,
         InCluster
<1> QED
  BY <1>1, <1>2, <1>3, <1>4, <1>5, <1>6, <1>7, <1>8, <1>9, <1>10

\* A step of a deletion is done, or fails.
LEMMA TearDownKeepsProjects ==
    ASSUME ProjectsInv, NEW r \in Requests,
           \/ MarkDeleting(r) \/ Evict(r) \/ Terminate(r) \/ DropDatabase(r) \/ DropRole(r)
           \/ MarkDeleted(r) \/ TearDownFails(r)
    PROVE  ProjectsInv'
<1>0. requests[r] \in Request /\ requests[r].at \in Tearing
  BY DEF ProjectsInv, TypeOK, MarkDeleting, Evict, Terminate, DropDatabase, DropRole,
         MarkDeleted, TearDownFails, At, Tearing
<1>p. PICK p \in Projects : p = Of(r)
  BY <1>0, RequestSteps DEF Of
<1>1. TearsDown(r, p) /\ status[p] # "none" /\ Of(r) = p
  BY <1>0, <1>p DEF TearsDown, ProjectsInv, Unborn
<1>2. \A o \in Requests \ {r} : requests'[o] = requests[o]
  BY RequestMoves DEF MarkDeleting, Evict, Terminate, DropDatabase, DropRole, MarkDeleted,
                      TearDownFails, ProjectsInv
<1>3. \/ requests'[r].at = "idle"
      \/ /\ requests'[r].at \in Tearing \ {"deleting"} /\ requests'[r].project = p
         /\ requests'[r].known = requests[r].known
  <2>1. ASSUME NEW to \in Tearing \ {"deleting"}, Set(r, [requests[r] EXCEPT !.at = to])
        PROVE  /\ requests'[r].at = to /\ requests'[r].project = p
               /\ requests'[r].known = requests[r].known
    <3>1. requests'[r] = [requests[r] EXCEPT !.at = to]
      BY <2>1, RequestMoves DEF ProjectsInv
    <3>2. requests[r] \in [at : Tearing, project : Projects, step : {0}, known : BOOLEAN,
                          user : {None}]
      BY <1>0 DEF Request, Tearing
    <3> QED
      BY <1>1, <3>1, <3>2 DEF Of
  <2>2. CASE \E to \in Tearing \ {"deleting"} : Set(r, [requests[r] EXCEPT !.at = to])
    BY <2>1, <2>2
  <2>3. CASE Set(r, Idle)
    BY <2>3, RequestMoves DEF ProjectsInv, Idle
  <2> QED
    BY <2>2, <2>3 DEF MarkDeleting, Evict, Terminate, DropDatabase, DropRole, MarkDeleted,
                      TearDownFails, Tearing
<1>a. /\ MarkDeleting(r) => requests'[r].at = "evict"
      /\ Evict(r) => requests'[r].at = IF requests[r].known THEN "terminate" ELSE "delete"
      /\ Terminate(r) => requests'[r].at = "dropDatabase"
      /\ DropDatabase(r) => requests'[r].at = "dropRole"
      /\ DropRole(r) => requests'[r].at = "delete"
      /\ MarkDeleted(r) \/ TearDownFails(r) => requests'[r].at = "idle"
  <2>1. ASSUME NEW to, Set(r, [requests[r] EXCEPT !.at = to])
        PROVE  requests'[r].at = to
    <3>1. requests'[r] = [requests[r] EXCEPT !.at = to]
      BY <2>1, RequestMoves DEF ProjectsInv
    <3>2. requests[r] \in [at : Tearing, project : Projects, step : {0}, known : BOOLEAN,
                          user : {None}]
      BY <1>0 DEF Request, Tearing
    <3> QED
      BY <3>1, <3>2
  <2>2. Set(r, Idle) => requests'[r].at = "idle"
    BY RequestMoves DEF ProjectsInv, Idle
  <2> QED
    BY <2>1, <2>2 DEF MarkDeleting, Evict, Terminate, DropDatabase, DropRole, MarkDeleted,
                      TearDownFails
<1>4. /\ UNCHANGED <<rows, admin, crossed, unrecorded>>
      /\ deleted' = IF MarkDeleted(r) THEN deleted \cup {p} ELSE deleted
      /\ \A o \in Projects \ {p} : status'[o] = status[o] /\ cluster'[o] = cluster[o]
      /\ status'[p] \in {status[p], "deleting", "paused"} /\ cluster'[p] \subseteq cluster[p]
  <2>1. /\ UNCHANGED <<rows, admin, crossed, unrecorded>>
        /\ deleted' = IF MarkDeleted(r) THEN deleted \cup {p} ELSE deleted
    BY <1>1 DEF MarkDeleting, Evict, Terminate, DropDatabase, DropRole, MarkDeleted,
                TearDownFails, tenant, history, At
  <2>2. \/ status' = status /\ cluster' = cluster
        \/ status' = [status EXCEPT ![p] = "deleting"] /\ cluster' = cluster
        \/ status' = [status EXCEPT ![p] = "paused"] /\ cluster' = cluster
        \/ cluster' = [cluster EXCEPT ![p] = @ \ {"database", "schema"}] /\ status' = status
        \/ cluster' = [cluster EXCEPT ![p] = @ \ {"role"}] /\ status' = status
    BY <1>1 DEF MarkDeleting, Evict, Terminate, DropDatabase, DropRole, MarkDeleted,
                TearDownFails, tenant
  <2> QED
    BY <2>1, <2>2 DEF ProjectsInv, TypeOK
<1>5. /\ \A q \in Requests, o \in Projects :
            Builds(q, o)' => Builds(q, o) /\ requests'[q] = requests[q]
      /\ \A q \in Requests, o \in Projects : TearsDown(q, o)' => TearsDown(q, o)
      /\ \A o \in Projects : Creating(o)' <=> Creating(o)
  BY <1>0, <1>1, <1>2, <1>3 DEF Builds, TearsDown, Creating, Of, Tearing
<1>6. TypeOK'
  BY ProjectsType DEF Next, ProjectsInv
<1>7. p \notin crossed => ~Creating(p)
  BY <1>1 DEF ProjectsInv, NoLongerBuilt
<1>8. Unborn' /\ OneBuilder'
  <2>1. status'[p] # "none"
    BY <1>1, <1>4
  <2>2. \A o \in Projects \ {p} : o \notin deleted => o \notin deleted'
    BY <1>4
  <2> QED
    BY <1>4, <1>5, <2>1, <2>2 DEF ProjectsInv, Unborn, OneBuilder
<1>9. BuiltInOrder'
  <2> SUFFICES ASSUME NEW o \in Projects, o \notin crossed, NEW q \in Requests, Builds(q, o)'
               PROVE  /\ DoneBefore(o, requests[q].step)'
                      /\ (requests[q].at = "fail" /\ requests[q].step \in 2..4
                             => o \in unrecorded)'
    BY <1>4 DEF BuiltInOrder
  <2>1. Builds(q, o) /\ requests'[q] = requests[q] /\ o # p
    BY <1>5, <1>7 DEF Creating, Builds
  <2> QED
    BY <1>4, <2>1 DEF ProjectsInv, BuiltInOrder, DoneBefore
<1>10. NoLongerBuilt'
  <2>1. ASSUME p \notin crossed, NEW q \in Requests, TearsDown(q, p)',
               requests'[q].at # "deleting"
        PROVE  status'[p] \in {"deleting", "paused"}
    <3>1. CASE status[p] \in {"deleting", "paused"}
      BY <1>4, <3>1
    <3>2. CASE q = r /\ requests[r].at = "deleting"
      <4>1. MarkDeleting(r)
        BY <1>1, <2>1, <3>2
        DEF MarkDeleting, Evict, Terminate, DropDatabase, DropRole, MarkDeleted, TearDownFails,
            At, Set, ProjectsInv, TypeOK, Idle, TearsDown, Tearing
      <4> QED
        BY <1>1, <4>1 DEF MarkDeleting, ProjectsInv, TypeOK
    <3> QED
      BY <1>1, <1>2, <1>5, <2>1, <3>1, <3>2 DEF ProjectsInv, NoLongerBuilt
  <2>2. \A o \in Projects \ {p} : \A q \in Requests : TearsDown(q, o)' => requests'[q] = requests[q]
    BY <1>1, <1>2, <1>5 DEF TearsDown, Of
  <2>3. \A o \in Projects \ {p} : o \in deleted' => o \in deleted
    BY <1>4
  <2> QED
    BY <1>4, <1>5, <1>7, <2>1, <2>2, <2>3 DEF ProjectsInv, NoLongerBuilt
<1>11. Recorded'
  BY <1>4, <1>5 DEF ProjectsInv, Recorded
<1>12. DroppedInOrder'
  <2>1. ASSUME NEW o \in Projects \ (crossed \cup unrecorded), NEW q \in Requests, TearsDown(q, o)',
               q # r
        PROVE  /\ requests'[q].known \/ cluster'[o] = {}
               /\ requests'[q].at = "dropRole" => cluster'[o] \subseteq {"role"}
               /\ requests'[q].at = "delete" => cluster'[o] = {}
    <3>1. TearsDown(q, o) /\ requests'[q] = requests[q] /\ cluster'[o] \subseteq cluster[o]
      BY <1>2, <1>4, <1>5, <2>1
    <3> QED
      BY <3>1, <2>1 DEF ProjectsInv, DroppedInOrder
  <2>2. ASSUME p \notin crossed \cup unrecorded, requests'[r].at \in Tearing
        PROVE  /\ requests'[r].known \/ cluster'[p] = {}
               /\ requests'[r].at = "dropRole" => cluster'[p] \subseteq {"role"}
               /\ requests'[r].at = "delete" => cluster'[p] = {}
    <3>1. /\ requests[r].known \/ cluster[p] = {}
          /\ requests[r].at = "dropRole" => cluster[p] \subseteq {"role"}
          /\ requests[r].at = "delete" => cluster[p] = {}
      BY <1>1, <2>2 DEF ProjectsInv, DroppedInOrder
    <3>2. requests'[r].known = requests[r].known
      BY <1>3, <2>2 DEF Tearing
    <3>3. ASSUME requests'[r].at = "dropRole" PROVE cluster'[p] \subseteq {"role"}
      <4>1. DropDatabase(r)
        BY <1>a, <3>3
      <4> QED
        BY <1>1, <4>1 DEF DropDatabase, ProjectsInv, TypeOK, InCluster
    <3>4. ASSUME requests'[r].at = "delete" PROVE cluster'[p] = {}
      <4>1. DropRole(r) \/ (Evict(r) /\ ~requests[r].known)
        BY <1>a, <3>4
      <4> QED
        BY <1>1, <3>1, <4>1 DEF DropRole, Evict, ProjectsInv, TypeOK, InCluster, tenant, At
    <3> QED
      BY <1>4, <3>1, <3>2, <3>3, <3>4
  <2> QED
    BY <1>1, <1>4, <1>5, <2>1, <2>2 DEF DroppedInOrder, TearsDown, Of
<1>13. OthersLeft'
  BY <1>0, <1>2, <1>3, <1>4 DEF ProjectsInv, OthersLeft, At, admin, Tearing
<1>14. DeletedLeavesNothing'
  <2>1. ASSUME MarkDeleted(r), p \notin crossed \cup unrecorded PROVE cluster'[p] = {}
    BY <1>1, <1>4, <2>1 DEF ProjectsInv, DroppedInOrder, MarkDeleted, At
  <2>2. \A o \in deleted' : o \in deleted \/ (o = p /\ MarkDeleted(r))
    BY <1>4
  <2> QED
    BY <1>4, <1>6, <2>1, <2>2 DEF ProjectsInv, DeletedLeavesNothing, TypeOK
<1>15. ActiveIsWhole'
  <2>1. p \notin crossed => 
            status'[p] # "active" \/ (cluster'[p] = cluster[p] /\ status'[p] = status[p])
    <3>1. CASE DropDatabase(r) \/ DropRole(r)
      BY <1>1, <3>1 DEF ProjectsInv, NoLongerBuilt, DropDatabase, DropRole, At
    <3>2. CASE MarkDeleting(r) \/ MarkDeleted(r)
      BY <1>1, <3>2 DEF MarkDeleting, MarkDeleted, ProjectsInv, TypeOK
    <3> QED
      BY <3>1, <3>2 DEF Evict, Terminate, TearDownFails, tenant
  <2> QED
    BY <1>4, <2>1 DEF ProjectsInv, ActiveIsWhole
<1> QED
  BY <1>6, <1>8, <1>9, <1>10, <1>11, <1>12, <1>13, <1>14, <1>15 DEF ProjectsInv

\* An operator is about to be taken away, and is.
LEMMA RevokeKeepsProjects ==
    ASSUME ProjectsInv, NEW r \in Requests,
           RevokeAdmin(r) \/ \E by, u \in Operators : CountOperators(r, by, u)
    PROVE  ProjectsInv'
<1>1. /\ requests[r].at \in {"idle", "revoke"} /\ requests'[r].at \in {"idle", "revoke"}
      /\ \A o \in Requests \ {r} : requests'[o] = requests[o]
  <2>1. CASE RevokeAdmin(r)
    BY <2>1, RequestMoves DEF ProjectsInv, RevokeAdmin, At, Idle
  <2>2. ASSUME NEW by \in Operators, NEW u \in Operators, CountOperators(r, by, u)
        PROVE  /\ requests[r].at \in {"idle", "revoke"} /\ requests'[r].at \in {"idle", "revoke"}
               /\ \A o \in Requests \ {r} : requests'[o] = requests[o]
    <3>1. /\ requests'[r] = [Idle EXCEPT !.at = "revoke", !.user = u]
          /\ \A o \in Requests \ {r} : requests'[o] = requests[o]
      BY <2>2, RequestMoves, Zenon DEF CountOperators, ProjectsInv
    <3> QED
      BY <2>2, <3>1 DEF CountOperators, At, Idle
  <2> QED
    BY <2>1, <2>2
<1>2. UNCHANGED <<tenant, use, history>>
  BY DEF RevokeAdmin, CountOperators
<1>3. /\ \A q \in Requests, o \in Projects :
            Builds(q, o)' <=> Builds(q, o)
      /\ \A q \in Requests, o \in Projects : TearsDown(q, o)' <=> TearsDown(q, o)
      /\ \A o \in Projects : Creating(o)' <=> Creating(o)
      /\ \A q \in Requests, o \in Projects :
            Builds(q, o) \/ TearsDown(q, o) => requests'[q] = requests[q]
  BY <1>1 DEF Builds, TearsDown, Creating, Of, Tearing
<1>4. TypeOK'
  BY ProjectsType DEF Next, ProjectsInv
<1>5. Unborn' /\ OneBuilder' /\ BuiltInOrder' /\ NoLongerBuilt' /\ Recorded' /\ DroppedInOrder'
  BY <1>2, <1>3
  DEF ProjectsInv, Unborn, OneBuilder, BuiltInOrder, DoneBefore, NoLongerBuilt, Recorded,
      DroppedInOrder, tenant, history
<1>6. OthersLeft'
  <2>1. CASE RevokeAdmin(r)
    BY <1>1, <2>1, RequestMoves DEF ProjectsInv, OthersLeft, RevokeAdmin, At, Idle
  <2>2. ASSUME NEW by \in Operators, NEW u \in Operators, CountOperators(r, by, u)
        PROVE  OthersLeft'
    <3>1. /\ requests'[r].user = u /\ operators' = operators /\ operators \ {u} # {}
          /\ ~At(r, "revoke")
          /\ split' = (split \/ \E o \in Requests : At(o, "revoke"))
      <4>1. requests'[r] = [Idle EXCEPT !.at = "revoke", !.user = u]
        BY <2>2, RequestMoves, Zenon DEF CountOperators, ProjectsInv
      <4> QED
        BY <2>2, <4>1 DEF CountOperators, OthersRemain, Idle, At
    <3>2. CASE \E o \in Requests : At(o, "revoke")
      BY <3>1, <3>2 DEF OthersLeft
    <3>3. CASE ~\E o \in Requests : At(o, "revoke")
      BY <1>1, <3>1, <3>3 DEF ProjectsInv, OthersLeft, At
    <3> QED
      BY <3>2, <3>3
  <2> QED
    BY <2>1, <2>2
<1>7. ActiveIsWhole' /\ DeletedLeavesNothing'
  BY <1>2 DEF ProjectsInv, ActiveIsWhole, DeletedLeavesNothing, tenant, history
<1> QED
  BY <1>4, <1>5, <1>6, <1>7 DEF ProjectsInv

\* A project is suspended: its database, its rows and its status stay.
LEMMA SuspendKeepsProjects ==
    ASSUME ProjectsInv, NEW r \in Requests,
           (\E p \in Projects : Suspend(r, p)) \/ SuspendEvicts(r) \/ SuspendFails(r)
    PROVE  ProjectsInv'
<1>1. /\ requests[r].at \in {"idle", "suspend"} /\ requests'[r].at \in {"idle", "suspend"}
      /\ \A o \in Requests \ {r} : requests'[o] = requests[o]
  <2>1. CASE SuspendEvicts(r) \/ SuspendFails(r)
    BY <2>1, RequestMoves DEF ProjectsInv, SuspendEvicts, SuspendFails, At, Idle
  <2>2. ASSUME NEW p \in Projects, Suspend(r, p)
        PROVE  /\ requests[r].at \in {"idle", "suspend"} /\ requests'[r].at \in {"idle", "suspend"}
               /\ \A o \in Requests \ {r} : requests'[o] = requests[o]
    <3>1. /\ requests'[r] = [Idle EXCEPT !.at = "suspend", !.project = p]
          /\ \A o \in Requests \ {r} : requests'[o] = requests[o]
      BY <2>2, RequestMoves, Zenon DEF Suspend, ProjectsInv
    <3> QED
      BY <2>2, <3>1 DEF Suspend, At, Idle
  <2> QED
    BY <2>1, <2>2
<1>2. UNCHANGED <<tenant, admin, history>>
  BY DEF Suspend, SuspendEvicts, SuspendFails
<1>3. /\ \A q \in Requests, o \in Projects :
            Builds(q, o)' <=> Builds(q, o)
      /\ \A q \in Requests, o \in Projects : TearsDown(q, o)' <=> TearsDown(q, o)
      /\ \A o \in Projects : Creating(o)' <=> Creating(o)
      /\ \A q \in Requests, o \in Projects :
            Builds(q, o) \/ TearsDown(q, o) => requests'[q] = requests[q]
  BY <1>1 DEF Builds, TearsDown, Creating, Of, Tearing
<1>4. TypeOK'
  BY ProjectsType DEF Next, ProjectsInv
<1>5. Unborn' /\ OneBuilder' /\ BuiltInOrder' /\ NoLongerBuilt' /\ Recorded' /\ DroppedInOrder'
  BY <1>2, <1>3
  DEF ProjectsInv, Unborn, OneBuilder, BuiltInOrder, DoneBefore, NoLongerBuilt, Recorded,
      DroppedInOrder, tenant, history
<1>6. OthersLeft'
  BY <1>1, <1>2 DEF ProjectsInv, OthersLeft, At, admin
<1>7. ActiveIsWhole' /\ DeletedLeavesNothing'
  BY <1>2 DEF ProjectsInv, ActiveIsWhole, DeletedLeavesNothing, tenant, history
<1> QED
  BY <1>4, <1>5, <1>6, <1>7 DEF ProjectsInv

LEMMA InitProjects == Init => ProjectsInv
<1> SUFFICES ASSUME Init PROVE ProjectsInv
  OBVIOUS
<1>1. TypeOK
  BY RequestShapes DEF Init, TypeOK
<1>2. Unborn /\ OneBuilder /\ BuiltInOrder /\ NoLongerBuilt /\ Recorded /\ DroppedInOrder
  BY DEF Init, Idle, Unborn, OneBuilder, BuiltInOrder, NoLongerBuilt, Recorded, DroppedInOrder,
         Builds, TearsDown, Creating, Tearing
<1>3. OthersLeft /\ ActiveIsWhole /\ DeletedLeavesNothing
  BY OperatorsAssumption DEF Init, Idle, OthersLeft, ActiveIsWhole, DeletedLeavesNothing, At
<1> QED
  BY <1>1, <1>2, <1>3 DEF ProjectsInv

\* One step per action of the projects.
LEMMA NextProjects == ProjectsInv /\ [Next]_vars => ProjectsInv'
<1> SUFFICES ASSUME ProjectsInv, [Next]_vars PROVE ProjectsInv'
  OBVIOUS
<1>1. ASSUME NEW r \in Requests, NEW p \in Projects, InsertProject(r, p) PROVE ProjectsInv'
  BY <1>1, InsertKeepsProjects
<1>2. ASSUME NEW r \in Requests, NEW p \in Projects, DeleteProject(r, p) PROVE ProjectsInv'
  BY <1>2, DeleteKeepsProjects
<1>3. ASSUME NEW r \in Requests, Provision(r) PROVE ProjectsInv'
  BY <1>3, ProvisionKeepsProjects
<1>4. ASSUME NEW r \in Requests, ProvisionFails(r) \/ MarkFailed(r) \/ CreationDies(r)
      PROVE  ProjectsInv'
  BY <1>4, CreationEndKeepsProjects
<1>5. ASSUME NEW r \in Requests,
             \/ MarkDeleting(r) \/ Evict(r) \/ Terminate(r) \/ DropDatabase(r) \/ DropRole(r)
             \/ MarkDeleted(r) \/ TearDownFails(r)
      PROVE  ProjectsInv'
  BY <1>5, TearDownKeepsProjects
<1>6. ASSUME NEW r \in Requests, RevokeAdmin(r) \/ \E by, u \in Operators : CountOperators(r, by, u)
      PROVE  ProjectsInv'
  BY <1>6, RevokeKeepsProjects
<1>7. ASSUME \/ \E p \in Projects : UsePool(p) \/ Resume(p)
             \/ BootstrapAdmins \/ \E u \in Operators : GrantAdmin(u)
      PROVE  ProjectsInv'
  BY <1>7, UseKeepsProjects
<1>8. CASE UNCHANGED vars
  BY <1>8, ProjectsType
  DEF vars, tenant, use, admin, history, ProjectsInv, Unborn, OneBuilder, BuiltInOrder, DoneBefore,
      NoLongerBuilt, Recorded, DroppedInOrder, OthersLeft, ActiveIsWhole, DeletedLeavesNothing,
      Builds, TearsDown, Creating, Of, At
<1>9. ASSUME NEW r \in Requests,
             (\E p \in Projects : Suspend(r, p)) \/ SuspendEvicts(r) \/ SuspendFails(r)
      PROVE  ProjectsInv'
  BY <1>9, SuspendKeepsProjects
<1> QED
  BY <1>1, <1>2, <1>3, <1>4, <1>5, <1>6, <1>7, <1>8, <1>9 DEF Next

-----------------------------------------------------------------------------
\* Tables.  The phase of a statement of a program: out for one that needs no
\* client, held, tx in a transaction, claimed under the claims of the caller.
After(phase, op) ==
    CASE op = "connect" -> "held"
      [] op = "begin" -> "tx"
      [] op = "claims" -> "claimed"
      [] op \in {"commit", "rollback"} -> "held"
      [] OTHER -> phase
Phases(p, t) == t[1] = "out" /\ \A i \in 1..Len(p) - 1 : t[i + 1] = After(t[i], p[i])
Phase(p) == CHOOSE t : Phases(p, t)

Includes(p, ops) == \E i \in 1..Len(p) : p[i] \in ops

\* What may stand at a place of a program.
Fits(p, i, phase) ==
    /\ p[i] \in OfPool \cup {"connect"} <=> phase = "out"
    /\ p[i] \in {"connect", "count"} => i < Len(p)
    /\ p[i] = "count" <=> i = 1 /\ Includes(p, {"count"})
    /\ p[i] \in {"claims", "write", "text"} => phase \in {"tx", "claimed"}
    /\ phase = "claimed" => Includes(p, {"claims"})
    /\ p[i] \in {"read", "all", "write", "text"} => (phase = "claimed" <=> Includes(p, {"claims"}))
    /\ i = Len(p) => \/ phase = "out"
                     \/ p[i] \in {"commit", "rollback"}
                     \/ p[i] = "all" /\ phase = "held"
    /\ p[i] = "put" => i = Len(p) \/ p = AlterTable
    /\ p[i] = "commit" => i = Len(p) \/ ~Includes(p, {"write", "text"})
    /\ p[i] = "rollback" => ~Includes(p, {"write", "put"})
    /\ p[i] = "text" => ~Includes(p, {"claims", "count"})
    /\ p[i] = "begin" => phase = "held"

WellFormed(p) ==
    /\ Len(p) \in Nat \ {0} /\ DOMAIN p = 1..Len(p)
    /\ Phases(p, Phase(p))
    /\ \A i \in 1..Len(p) : Fits(p, i, Phase(p)[i])

LEMMA PhaseChosen == ASSUME NEW p, NEW t, Phases(p, t) PROVE Phases(p, Phase(p))
  BY DEF Phase

\* Programs of queries of the pool.
LEMMA PoolPrograms ==
    ASSUME NEW p,
           \/ p \in {<<"ask">>, <<"put">>, <<"ask", "ask">>, <<"ask", "put">>} \/ p = AlterTable
    PROVE  WellFormed(p)
<1>1. /\ Len(p) \in {1, 2} /\ DOMAIN p = 1..Len(p) /\ p[1] \in {"ask", "put"}
      /\ Len(p) = 2 => p[2] \in {"ask", "put"} /\ (p[1] = "put" => p = AlterTable)
  BY DEF AlterTable
<1>2. Phases(p, <<"out", "out">>)
  BY <1>1 DEF Phases, After
<1>3. PICK t : t = Phase(p) /\ Phases(p, t)
  BY <1>2, PhaseChosen
<1>4. \A i \in 1..Len(p) : t[i] = "out"
  BY <1>1, <1>3 DEF Phases, After
<1>5. ~Includes(p, {"count"}) /\ ~Includes(p, {"claims"})
  BY <1>1 DEF Includes
<1>6. \A i \in 1..Len(p) : p[i] \in {"ask", "put"} /\ (p[i] = "put" => i = Len(p) \/ p = AlterTable)
  <2>1. CASE Len(p) = 1
    BY <1>1, <2>1
  <2>2. CASE Len(p) = 2
    BY <1>1, <2>2
  <2> QED
    BY <1>1, <2>1, <2>2
<1>7. \A i \in 1..Len(p) : Fits(p, i, t[i])
  BY <1>4, <1>5, <1>6 DEF Fits, OfPool
<1> QED
  BY <1>1, <1>3, <1>7 DEF WellFormed

\* Two reads over a client.
LEMMA ReadPrograms ==
    ASSUME NEW p, p = <<"connect", "all", "all">>
    PROVE  WellFormed(p)
<1>1. Len(p) = 3 /\ DOMAIN p = 1..3 /\ p[1] = "connect" /\ p[2] = "all" /\ p[3] = "all"
  OBVIOUS
<1>2. Phases(p, <<"out", "held", "held">>)
  BY <1>1 DEF Phases, After
<1>3. PICK t : t = Phase(p) /\ Phases(p, t)
  BY <1>2, PhaseChosen
<1>4. t[1] = "out" /\ t[2] = "held" /\ t[3] = "held"
  BY <1>1, <1>3 DEF Phases, After
<1>5. \A i \in 1..3 : Fits(p, i, t[i])
  BY <1>1, <1>4 DEF Fits, Includes, OfPool
<1> QED
  BY <1>1, <1>3, <1>5 DEF WellFormed

\* A transaction of two statements.
LEMMA TxPrograms ==
    ASSUME NEW p,
           p \in {<<"connect", "begin", "write", "write", "commit">>,
                  <<"connect", "begin", "limit", "text", "commit">>,
                  <<"connect", "begin", "limit", "text", "rollback">>}
    PROVE  WellFormed(p)
<1>1. /\ Len(p) = 5 /\ DOMAIN p = 1..5 /\ p[1] = "connect" /\ p[2] = "begin"
      /\ \/ p[3] = "write" /\ p[4] = "write" /\ p[5] = "commit"
         \/ p[3] = "limit" /\ p[4] = "text" /\ p[5] = "commit"
         \/ p[3] = "limit" /\ p[4] = "text" /\ p[5] = "rollback"
  OBVIOUS
<1>2. Phases(p, <<"out", "held", "tx", "tx", "tx">>)
  BY <1>1 DEF Phases, After
<1>3. PICK t : t = Phase(p) /\ Phases(p, t)
  BY <1>2, PhaseChosen
<1>4. t[1] = "out" /\ t[2] = "held" /\ t[3] = "tx" /\ t[4] = "tx" /\ t[5] = "tx"
  BY <1>1, <1>3 DEF Phases, After
<1>5. \A i \in 1..5 : Fits(p, i, t[i])
  BY <1>1, <1>4 DEF Fits, Includes, OfPool
<1> QED
  BY <1>1, <1>3, <1>5 DEF WellFormed

\* One that follows a query of the pool.
LEMMA QueryTxPrograms ==
    ASSUME NEW p, NEW op \in {"ask", "count"},
           p = <<op, "connect", "begin", "write", "write", "commit">>
    PROVE  WellFormed(p)
<1>1. /\ Len(p) = 6 /\ DOMAIN p = 1..6 /\ p[1] = op /\ p[2] = "connect" /\ p[3] = "begin"
      /\ p[4] = "write" /\ p[5] = "write" /\ p[6] = "commit"
  OBVIOUS
<1>2. Phases(p, <<"out", "out", "held", "tx", "tx", "tx">>)
  BY <1>1 DEF Phases, After
<1>3. PICK t : t = Phase(p) /\ Phases(p, t)
  BY <1>2, PhaseChosen
<1>4. t[1] = "out" /\ t[2] = "out" /\ t[3] = "held" /\ t[4] = "tx" /\ t[5] = "tx" /\ t[6] = "tx"
  BY <1>1, <1>3 DEF Phases, After
<1>5. \A i \in 1..6 : Fits(p, i, t[i])
  BY <1>1, <1>4 DEF Fits, Includes, OfPool
<1> QED
  BY <1>1, <1>3, <1>5 DEF WellFormed

\* withIdentity, once and twice.
LEMMA IdentityPrograms ==
    ASSUME NEW p, NEW op \in {"read", "write"}, p = WithIdentity(op)
    PROVE  WellFormed(p)
<1>1. /\ Len(p) = 5 /\ DOMAIN p = 1..5 /\ p[1] = "connect" /\ p[2] = "begin" /\ p[3] = "claims"
      /\ p[4] = op /\ p[5] = "commit"
  BY DEF WithIdentity
<1>2. Phases(p, <<"out", "held", "tx", "claimed", "claimed">>)
  BY <1>1 DEF Phases, After
<1>3. PICK t : t = Phase(p) /\ Phases(p, t)
  BY <1>2, PhaseChosen
<1>4. t[1] = "out" /\ t[2] = "held" /\ t[3] = "tx" /\ t[4] = "claimed" /\ t[5] = "claimed"
  BY <1>1, <1>3 DEF Phases, After
<1>5. \A i \in 1..5 : Fits(p, i, t[i])
  BY <1>1, <1>4 DEF Fits, Includes, OfPool
<1> QED
  BY <1>1, <1>3, <1>5 DEF WellFormed

LEMMA TwicePrograms ==
    ASSUME NEW p, Len(p) = 9, DOMAIN p = 1..9, p[1] = "connect", p[2] = "begin",
           p[3] = "claims", p[4] = "read", p[5] = "commit", p[6] = "begin", p[7] = "claims",
           p[8] = "read", p[9] = "commit"
    PROVE  WellFormed(p)
<1>2. Phases(p, <<"out", "held", "tx", "claimed", "claimed", "held", "tx", "claimed", "claimed">>)
  BY DEF Phases, After
<1>3. PICK t : t = Phase(p) /\ Phases(p, t)
  BY <1>2, PhaseChosen
<1>4. /\ t[1] = "out" /\ t[2] = "held" /\ t[3] = "tx" /\ t[4] = "claimed" /\ t[5] = "claimed"
      /\ t[6] = "held" /\ t[7] = "tx" /\ t[8] = "claimed" /\ t[9] = "claimed"
  BY <1>3 DEF Phases, After
<1>5. /\ Includes(p, {"claims"}) /\ ~Includes(p, {"count"}) /\ ~Includes(p, {"write", "text"})
      /\ ~Includes(p, {"write", "text", "put"})
  BY DEF Includes
<1>6. \A i \in 1..9 : Fits(p, i, t[i])
  BY <1>4, <1>5 DEF Fits, OfPool
<1> QED
  BY <1>3, <1>6 DEF WellFormed

LEMMA IdentityTwicePrograms ==
    ASSUME NEW p, p = WithIdentityTwice("read")
    PROVE  WellFormed(p)
<1>1. Len(p) = 9 /\ DOMAIN p = 1..9
  BY DEF WithIdentityTwice
<1>2. /\ p[1] = "connect" /\ p[2] = "begin" /\ p[3] = "claims" /\ p[4] = "read"
      /\ p[5] = "commit" /\ p[6] = "begin" /\ p[7] = "claims" /\ p[8] = "read"
      /\ p[9] = "commit"
  BY DEF WithIdentityTwice
<1> QED
  BY <1>1, <1>2, TwicePrograms

\* Every program of Tables is well formed.
LEMMA ProgramsWellFormed == \A p \in Programs : WellFormed(p)
<1> SUFFICES ASSUME NEW p \in Programs PROVE WellFormed(p)
  OBVIOUS
<1>1. CASE p \in {HandleRows, HandleInsertRow, HandleDeleteRow, CancelQuery, ListTables,
                  DescribeTable, Relationships, Extensions, DropTable, AlterTable, AddColumn,
                  DropColumn, AddConstraint, CreateIndex, DropIndex, CreatePolicy, DropPolicy,
                  SetRealtime, ExportTable, DryRun}
  BY <1>1, PoolPrograms
  DEF HandleRows, HandleInsertRow, HandleDeleteRow, CancelQuery, ListTables, DescribeTable,
      Relationships, Extensions, DropTable, AddColumn, DropColumn, AddConstraint, CreateIndex,
      DropIndex, CreatePolicy, DropPolicy, SetRealtime, ExportTable, DryRun
<1>2. CASE p \in {SchemaCatalog, Diagnostics}
  BY <1>2, ReadPrograms DEF SchemaCatalog, Catalog, Diagnostics
<1>3. CASE p \in {RunSql, ExecuteSql, ExplainSql, AlterColumn}
  BY <1>3, TxPrograms DEF RunSql, ExecuteSql, ExplainSql, AlterColumn, Ddl
<1>4. CASE p \in {CreateTable, ImportTable}
  BY <1>4, QueryTxPrograms DEF CreateTable, ImportTable
<1>5. CASE p \in {GetRows, InsertRows, UpdateRows, DeleteRows}
  BY <1>5, IdentityPrograms DEF GetRows, Select, InsertRows, UpdateRows, DeleteRows
<1>6. CASE p = GetRowsAndCount
  BY <1>6, IdentityTwicePrograms DEF GetRowsAndCount, Select
<1> QED
  BY <1>1, <1>2, <1>3, <1>4, <1>5, <1>6 DEF Programs

PhaseAt(r) == Phase(reqs[r].program)[reqs[r].pc]
Client(r) == conns[reqs[r].conn]
Holding(r) == Running(r) /\ reqs[r].conn # Nobody

TablesType ==
    /\ conns \in [Conns -> [holder : Reqs \cup {Nobody}, tx : BOOLEAN,
                            claims : Reqs \cup {Nobody}, pending : SUBSET (Reqs \X Nat)]]
    /\ reqs \in [Reqs -> [program : Programs \cup {<<>>}, at : {"new", "run", "ok", "error"},
                          pc : Nat, conn : Conns \cup {Nobody}]]
    /\ db \in SUBSET (Reqs \X Nat) /\ unsure \in SUBSET Reqs /\ overlapped \in BOOLEAN

\* A request has a client in the phases that need one.
Placed ==
    \A r \in Reqs :
        /\ Running(r) =>
              /\ reqs[r].program \in Programs /\ reqs[r].pc \in 1..Len(reqs[r].program)
              /\ reqs[r].conn = Nobody <=> PhaseAt(r) = "out"
        /\ ~Running(r) => reqs[r].conn = Nobody
        /\ reqs[r].at = "new" => reqs[r].program = <<>> /\ reqs[r].pc = 1

Clean(x) == x.holder = Nobody /\ x.tx = FALSE /\ x.claims = Nobody /\ x.pending = {}

Owned ==
    /\ \A c \in Conns : conns[c].holder = Nobody => Clean(conns[c])
    /\ \A c \in Conns : conns[c].holder # Nobody =>
           Running(conns[c].holder) /\ reqs[conns[c].holder].conn = c
    /\ \A r \in Reqs : Holding(r) => Client(r).holder = r

\* A client is as far as its request has come, but for a text that ended the
\* transaction.
InPhase ==
    \A r \in Reqs : Holding(r) =>
        /\ Client(r).tx => PhaseAt(r) \in {"tx", "claimed"}
        /\ PhaseAt(r) \in {"tx", "claimed"} /\ r \notin unsure => Client(r).tx
        /\ Client(r).claims = IF PhaseAt(r) = "claimed" THEN r ELSE Nobody

\* What is pending was written by the request in this transaction.
Pending ==
    \A r \in Reqs : Holding(r) =>
        /\ ~Client(r).tx => Client(r).pending = {}
        /\ \A y \in Client(r).pending :
              /\ y[1] = r /\ y[2] \in 1..Len(reqs[r].program)
              /\ reqs[r].program[y[2]] \in {"write", "text"}

OnlyTextUnsure == \A r \in unsure : reqs[r].at # "new" /\ (Running(r) => Has(r, "text"))

Written(r) == db \cup IF Holding(r) THEN Client(r).pending ELSE {}

\* What a request was to write is there or pending, and while it is not over
\* nothing is there.
SoFar ==
    \A r \in Reqs \ unsure :
        /\ Running(r) =>
              \A i \in 1..(reqs[r].pc - 1) :
                  reqs[r].program[i] \in {"put", "write"} => <<r, i>> \in Written(r)
        /\ reqs[r].at \in {"new", "run"} /\ reqs[r].program # AlterTable => \A y \in db : y[1] # r

\* A creation of a table takes its place in the quota when it has counted.
Counted == {r \in Reqs : Running(r) /\ Has(r, "count") /\ reqs[r].pc > 1}
Reserved == overlapped \/ Cardinality(TablesOf(db) \cup Counted) <= MaxTables

TablesInv ==
    /\ TablesType /\ Placed /\ Owned /\ InPhase /\ Pending /\ OnlyTextUnsure /\ SoFar
    /\ AllOrNothing /\ Reserved


ConnType == [holder : Reqs \cup {Nobody}, tx : BOOLEAN, claims : Reqs \cup {Nobody},
             pending : SUBSET (Reqs \X Nat)]

LEMMA HasIncludes ==
    ASSUME NEW r \in Reqs, reqs[r].program \in Programs, NEW op
    PROVE  Has(r, op) <=> Includes(reqs[r].program, {op})
<1>1. DOMAIN reqs[r].program = 1..Len(reqs[r].program)
  BY ProgramsWellFormed DEF WellFormed
<1> QED
  BY <1>1 DEF Has, Range, Includes

\* Where a running request stands in its program.
LEMMA Standing ==
    ASSUME TablesInv, NEW r \in Reqs, Running(r)
    PROVE  /\ reqs[r].program \in Programs /\ Len(reqs[r].program) \in Nat \ {0}
           /\ DOMAIN reqs[r].program = 1..Len(reqs[r].program)
           /\ reqs[r].pc \in 1..Len(reqs[r].program)
           /\ Fits(reqs[r].program, reqs[r].pc, PhaseAt(r))
           /\ Op(r) = reqs[r].program[reqs[r].pc]
           /\ reqs[r].conn = Nobody <=> PhaseAt(r) = "out"
           /\ reqs[r].pc < Len(reqs[r].program) =>
                 /\ reqs[r].pc + 1 \in 1..Len(reqs[r].program)
                 /\ Phase(reqs[r].program)[reqs[r].pc + 1] = After(PhaseAt(r), Op(r))
<1>1. /\ reqs[r].program \in Programs /\ reqs[r].pc \in 1..Len(reqs[r].program)
      /\ reqs[r].conn = Nobody <=> PhaseAt(r) = "out"
  BY DEF TablesInv, Placed
<1>2. WellFormed(reqs[r].program)
  BY <1>1, ProgramsWellFormed
<1> QED
  BY <1>1, <1>2 DEF WellFormed, Phases, PhaseAt, Op

\* What Advance changes.
LEMMA AdvanceMoves ==
    ASSUME TablesInv, NEW r \in Reqs, Running(r), NEW c \in Conns, NEW x \in ConnType,
           Advance(r, c, x)
    PROVE  /\ \A o \in Reqs \ {r} : reqs'[o] = reqs[o]
           /\ \A d \in Conns \ {c} : conns'[d] = conns[d]
           /\ reqs'[r].program = reqs[r].program
           /\ reqs[r].pc = Len(reqs[r].program) =>
                 /\ reqs'[r].at = "ok" /\ reqs'[r].conn = Nobody /\ reqs'[r].pc = reqs[r].pc
                 /\ conns'[c] = Release(x)
           /\ reqs[r].pc < Len(reqs[r].program) =>
                 /\ reqs'[r].at = "run" /\ reqs'[r].conn = reqs[r].conn
                 /\ reqs'[r].pc = reqs[r].pc + 1 /\ conns'[c] = x
           /\ conns' \in [Conns -> ConnType]
           /\ reqs' \in [Reqs -> [program : Programs \cup {<<>>},
                                  at : {"new", "run", "ok", "error"},
                                  pc : Nat, conn : Conns \cup {Nobody}]]
<1> DEFINE Req == [program : Programs \cup {<<>>}, at : {"new", "run", "ok", "error"},
                   pc : Nat, conn : Conns \cup {Nobody}]
<1>0. conns \in [Conns -> ConnType] /\ reqs \in [Reqs -> Req]
  BY DEF TablesInv, TablesType, ConnType
<1>1. reqs[r] \in Req /\ reqs[r].at = "run" /\ reqs[r].pc \in 1..Len(reqs[r].program)
  BY <1>0, Standing DEF Running
<1>2. CASE reqs[r].pc = Len(reqs[r].program)
  <2>1. reqs' = [reqs EXCEPT ![r].at = "ok", ![r].conn = Nobody]
        /\ conns' = [conns EXCEPT ![c] = Release(x)]
    BY <1>2 DEF Advance, Over, PutConn
  <2>2. Release(x) \in ConnType
    BY DEF Release, ConnType
  <2>3. conns' \in [Conns -> ConnType] /\ conns'[c] = Release(x)
        /\ \A d \in Conns \ {c} : conns'[d] = conns[d]
    BY <1>0, <2>1, <2>2
  <2>4. /\ reqs'[r].at = "ok" /\ reqs'[r].conn = Nobody /\ reqs'[r].pc = reqs[r].pc
        /\ reqs'[r].program = reqs[r].program /\ \A o \in Reqs \ {r} : reqs'[o] = reqs[o]
        /\ reqs' \in [Reqs -> Req]
    BY <1>0, <1>1, <2>1
  <2>5. ~(reqs[r].pc < Len(reqs[r].program))
    BY <1>1, <1>2, Standing
  <2> QED
    BY <2>3, <2>4, <2>5
<1>3. CASE reqs[r].pc < Len(reqs[r].program)
  <2>1. reqs' = [reqs EXCEPT ![r].pc = @ + 1] /\ conns' = [conns EXCEPT ![c] = x]
    BY <1>1, <1>3 DEF Advance, PutConn
  <2>2. reqs[r].pc \in Nat /\ reqs[r].pc + 1 \in Nat
    BY <1>0, <1>1
  <2>3. /\ reqs'[r].at = "run" /\ reqs'[r].conn = reqs[r].conn /\ reqs'[r].pc = reqs[r].pc + 1
        /\ reqs'[r].program = reqs[r].program /\ \A o \in Reqs \ {r} : reqs'[o] = reqs[o]
        /\ reqs' \in [Reqs -> Req]
    BY <1>0, <1>1, <2>1, <2>2
  <2>4. /\ conns' \in [Conns -> ConnType] /\ conns'[c] = x
        /\ \A d \in Conns \ {c} : conns'[d] = conns[d]
    BY <1>0, <2>1
  <2>5. reqs[r].pc # Len(reqs[r].program)
    BY <1>1, <1>3, Standing
  <2> QED
    BY <2>3, <2>4, <2>5
<1>4. Len(reqs[r].program) \in Nat
  BY Standing
<1> QED
  BY <1>1, <1>2, <1>3, <1>4

\* A request that is over with an error.
LEMMA OverMoves ==
    ASSUME TablesInv, NEW r \in Reqs, Over(r, "error")
    PROVE  /\ \A o \in Reqs \ {r} : reqs'[o] = reqs[o]
           /\ reqs'[r].program = reqs[r].program /\ reqs'[r].pc = reqs[r].pc
           /\ reqs'[r].at = "error" /\ reqs'[r].conn = Nobody
           /\ reqs' \in [Reqs -> [program : Programs \cup {<<>>},
                                  at : {"new", "run", "ok", "error"},
                                  pc : Nat, conn : Conns \cup {Nobody}]]
<1> DEFINE Req == [program : Programs \cup {<<>>}, at : {"new", "run", "ok", "error"},
                   pc : Nat, conn : Conns \cup {Nobody}]
<1>1. reqs \in [Reqs -> Req] /\ reqs[r] \in Req
  BY DEF TablesInv, TablesType
<1>2. reqs' = [reqs EXCEPT ![r].at = "error", ![r].conn = Nobody]
  BY DEF Over
<1>3. reqs' \in [Reqs -> Req]
  BY <1>1, <1>2
<1> QED
  BY <1>1, <1>2, <1>3

\* No more tables are there or on their way than before.
LEMMA NoMoreTables ==
    ASSUME Reserved, overlapped' = overlapped,
           (TablesOf(db) \cup Counted)' \subseteq TablesOf(db) \cup Counted
    PROVE  Reserved'
<1>1. TablesOf(db) \cup Counted \subseteq Reqs
  BY DEF TablesOf, Counted
<1>2. IsFiniteSet(TablesOf(db) \cup Counted)
  BY <1>1, FS_Subset, TablesAssumption
<1>3. /\ IsFiniteSet((TablesOf(db) \cup Counted)')
      /\ Cardinality((TablesOf(db) \cup Counted)') <= Cardinality(TablesOf(db) \cup Counted)
  BY <1>2, FS_Subset
<1>4. /\ Cardinality(TablesOf(db) \cup Counted) \in Nat
      /\ Cardinality((TablesOf(db) \cup Counted)') \in Nat
  BY <1>2, <1>3, FS_CardinalityType
<1> QED
  BY <1>3, <1>4, TablesAssumption DEF Reserved

\* A request that ends with an error gives its client back, and leaves something
\* behind only if it is unsure.
LEMMA OverKeeps ==
    ASSUME TablesInv, NEW r \in Reqs, Running(r), Over(r, "error"),
           NEW x \in ConnType, Clean(x),
           conns' = IF reqs[r].conn = Nobody THEN conns
                    ELSE [conns EXCEPT ![reqs[r].conn] = x],
           db \subseteq db', db' \in SUBSET (Reqs \X Nat), \A y \in db' \ db : y[1] = r,
           unsure' \in {unsure, unsure \cup {r}},
           db' # db => r \in unsure' /\ (Has(r, "count") => reqs[r].pc > 1),
           UNCHANGED overlapped
    PROVE  TablesInv'
<1> USE DEF Running, Holding, Client, PhaseAt, Written
<1>1. /\ \A o \in Reqs \ {r} : reqs'[o] = reqs[o]
      /\ reqs'[r].program = reqs[r].program /\ reqs'[r].pc = reqs[r].pc
      /\ reqs'[r].at = "error" /\ reqs'[r].conn = Nobody
  BY OverMoves
<1>2. conns \in [Conns -> ConnType] /\ reqs[r].conn \in Conns \cup {Nobody} /\ Nobody \notin Conns
  BY TablesAssumption DEF TablesInv, TablesType, ConnType
<1>3. \A d \in Conns : conns'[d] = IF d = reqs[r].conn THEN x ELSE conns[d]
  BY <1>2
<1>4. \A o \in Reqs \ {r} :
          Holding(o) => /\ reqs[o].conn # reqs[r].conn /\ reqs[o].conn \in Conns
                        /\ conns'[reqs[o].conn] = conns[reqs[o].conn]
  <2> SUFFICES ASSUME NEW o \in Reqs \ {r}, Holding(o)
               PROVE  reqs[o].conn # reqs[r].conn /\ reqs[o].conn \in Conns
    BY <1>3
  <2>1. reqs[o].conn \in Conns /\ conns[reqs[o].conn].holder = o
    BY DEF TablesInv, TablesType, Owned, Holding, Client
  <2>2. reqs[r].conn # Nobody => conns[reqs[r].conn].holder = r
    BY DEF TablesInv, Owned, Holding, Client
  <2> QED
    BY <2>1, <2>2, <1>2
<1>5. ~Running(r)' /\ ~Holding(r)'
  BY <1>1 DEF Running, Holding
<1>6. TablesType'
  <2>1. conns' \in [Conns -> ConnType]
    BY <1>2
  <2>2. unsure' \in SUBSET Reqs
    BY DEF TablesInv, TablesType
  <2> QED
    BY <2>1, <2>2, OverMoves DEF TablesInv, TablesType, ConnType
<1>7. Placed'
  BY <1>1, <1>4, <1>5 DEF TablesInv, Placed, PhaseAt
<1>8. Owned'
  <2>1. ASSUME NEW d \in Conns, conns'[d].holder # Nobody
        PROVE  /\ (Running(conns[d].holder) /\ reqs[conns[d].holder].conn = d)'
    <3>1. d # reqs[r].conn /\ conns'[d] = conns[d]
      BY <1>3, <2>1 DEF Clean
    <3>2. conns[d].holder \in Reqs /\ Running(conns[d].holder) /\ reqs[conns[d].holder].conn = d
      BY <1>2, <2>1, <3>1 DEF TablesInv, Owned, ConnType
    <3> QED
      BY <1>1, <1>4, <3>1, <3>2
  <2>2. \A d \in Conns : conns'[d].holder = Nobody => Clean(conns'[d])
    BY <1>3 DEF TablesInv, Owned
  <2>3. \A o \in Reqs : Holding(o)' => Client(o)'.holder = o
    BY <1>1, <1>4, <1>5 DEF TablesInv, Owned
  <2> QED
    BY <2>1, <2>2, <2>3 DEF Owned, Clean
<1>9. InPhase' /\ Pending'
  <2>1. InPhase'
    BY <1>1, <1>4, <1>5 DEF TablesInv, InPhase
  <2>2. Pending'
    BY <1>1, <1>4, <1>5 DEF TablesInv, Pending
  <2> QED
    BY <2>1, <2>2
<1>10. OnlyTextUnsure'
  BY <1>1, <1>4, <1>5 DEF TablesInv, TablesType, OnlyTextUnsure, Has
<1>11. SoFar'
  <2>1. \A o \in Reqs \ {r} : Running(o) => Written(o) \subseteq Written(o)'
    BY <1>1, <1>4
  <2> QED
    BY <1>1, <1>4, <1>5, <2>1 DEF TablesInv, SoFar
<1>12. AllOrNothing'
  <2>1. ASSUME r \notin unsure', reqs[r].program # AlterTable PROVE \A y \in db' : y[1] # r
    BY <2>1 DEF TablesInv, SoFar, Running
  <2>2. \A o \in Reqs \ {r} : Wanted(o)' = Wanted(o)
    BY <1>1 DEF Wanted
  <2> QED
    BY <1>1, <2>1, <2>2 DEF TablesInv, AllOrNothing
<1>13. Reserved'
  <2>1. \A o \in Reqs : Has(o, "count")' <=> Has(o, "count")
    BY <1>1 DEF Has
  <2>2. (TablesOf(db) \cup Counted)' \subseteq TablesOf(db) \cup Counted
    <3>1. Counted' \subseteq Counted
      BY <1>1, <1>4, <1>5, <2>1 DEF Counted
    <3>2. TablesOf(db)' \subseteq TablesOf(db) \cup Counted
      BY <2>1 DEF TablesOf, Counted
    <3> QED
      BY <3>1, <3>2
  <2> QED
    BY <2>2, NoMoreTables DEF TablesInv
<1> QED
  BY <1>6, <1>7, <1>8, <1>9, <1>10, <1>11, <1>12, <1>13 DEF TablesInv

\* A statement over a client leaves it as the next one needs it.
LEMMA StatementKeeps ==
    ASSUME TablesInv, NEW r \in Reqs, Holding(r), NEW c \in Conns, c = reqs[r].conn,
           NEW x \in ConnType, Advance(r, c, x),
           NEW next, next = After(PhaseAt(r), Op(r)),
           x.holder = r,
           x.tx => next \in {"tx", "claimed"},
           next \in {"tx", "claimed"} /\ r \notin unsure' => x.tx,
           x.claims = IF next = "claimed" THEN r ELSE Nobody,
           ~x.tx => x.pending = {},
           \A y \in x.pending :
               /\ y[1] = r /\ y[2] \in 1..Len(reqs[r].program)
               /\ reqs[r].program[y[2]] \in {"write", "text"},
           db \subseteq db', db' \in SUBSET (Reqs \X Nat), \A y \in db' \ db : y[1] = r,
           db' # db => r \in unsure' \/ reqs[r].pc = Len(reqs[r].program),
           unsure' \in {unsure, unsure \cup {r}}, r \in unsure' => Has(r, "text"),
           r \notin unsure' =>
               \A i \in 1..reqs[r].pc :
                   reqs[r].program[i] \in {"put", "write"} => <<r, i>> \in db' \cup x.pending,
           UNCHANGED overlapped
    PROVE  TablesInv'
<1> DEFINE p == reqs[r].program
           i == reqs[r].pc
<1> USE DEF Running, Holding, Client, PhaseAt, Written
<1>0. Running(r) /\ c # Nobody /\ reqs[r].at = "run"
  BY DEF TablesInv, TablesType, Holding, Running
<1>1. /\ p \in Programs /\ Len(p) \in Nat \ {0} /\ DOMAIN p = 1..Len(p) /\ i \in 1..Len(p)
      /\ Fits(p, i, PhaseAt(r)) /\ Op(r) = p[i] /\ PhaseAt(r) # "out"
      /\ i < Len(p) => i + 1 \in 1..Len(p) /\ Phase(p)[i + 1] = next
  BY <1>0, Standing
<1>2. /\ \A o \in Reqs \ {r} : reqs'[o] = reqs[o]
      /\ \A d \in Conns \ {c} : conns'[d] = conns[d]
      /\ reqs'[r].program = p
      /\ i = Len(p) => /\ reqs'[r].at = "ok" /\ reqs'[r].conn = Nobody /\ reqs'[r].pc = i
                       /\ conns'[c] = Release(x)
      /\ i < Len(p) => /\ reqs'[r].at = "run" /\ reqs'[r].conn = c /\ reqs'[r].pc = i + 1
                       /\ conns'[c] = x
  BY <1>0, AdvanceMoves
<1>3. i = Len(p) \/ i < Len(p)
  BY <1>1
<1>4. ASSUME i = Len(p)
      PROVE  x.tx = FALSE /\ x.pending = {} /\ x.claims = Nobody /\ Clean(Release(x))
  <2>1. next = "held"
    BY <1>1, <1>4 DEF Fits, After
  <2>2. x.tx = FALSE /\ x.pending = {} /\ x.claims = Nobody
    BY <2>1 DEF ConnType
  <2> QED
    BY <2>2 DEF Release, Clean, ConnType
<1>5. \A o \in Reqs \ {r} :
          Holding(o) => /\ reqs[o].conn # c /\ reqs[o].conn \in Conns
                        /\ conns'[reqs[o].conn] = conns[reqs[o].conn]
  <2> SUFFICES ASSUME NEW o \in Reqs \ {r}, Holding(o)
               PROVE  reqs[o].conn # c /\ reqs[o].conn \in Conns
    BY <1>2
  <2>1. reqs[o].conn \in Conns /\ conns[reqs[o].conn].holder = o
    BY DEF TablesInv, TablesType, Owned, Holding, Client
  <2>2. conns[c].holder = r
    BY DEF TablesInv, Owned, Client
  <2> QED
    BY <2>1, <2>2
<1>6. /\ i = Len(p) => ~Running(r)' /\ ~Holding(r)'
      /\ i < Len(p) => Running(r)' /\ Holding(r)' /\ Client(r)' = x /\ PhaseAt(r)' = next
  BY <1>0, <1>1, <1>2 DEF Running, Holding, Client, PhaseAt
<1>7. TablesType'
  <2>1. unsure' \in SUBSET Reqs
    BY DEF TablesInv, TablesType
  <2> QED
    BY <1>0, <2>1, AdvanceMoves DEF TablesInv, TablesType, ConnType
<1>8. next # "out"
  BY <1>1 DEF After
<1>9. Placed'
  <2>1. \A o \in Reqs \ {r} : PhaseAt(o)' = PhaseAt(o)
    BY <1>2 DEF PhaseAt
  <2> QED
    BY <1>0, <1>1, <1>2, <1>3, <1>5, <1>6, <1>8, <2>1 DEF TablesInv, Placed
<1>10. Owned'
  <2>1. \A o \in Reqs : Holding(o)' => Client(o)'.holder = o
    BY <1>2, <1>3, <1>5, <1>6 DEF TablesInv, Owned
  <2>2. ASSUME NEW d \in Conns \ {c}
        PROVE  /\ conns'[d].holder = Nobody => Clean(conns'[d])
               /\ conns'[d].holder # Nobody =>
                     (Running(conns[d].holder) /\ reqs[conns[d].holder].conn = d)'
    <3>1. conns'[d] = conns[d] /\ (conns[d].holder \in Reqs \/ conns[d].holder = Nobody)
      BY <1>2 DEF TablesInv, TablesType
    <3>2. conns[d].holder # r
      BY <1>0, TablesAssumption DEF TablesInv, Owned
    <3> QED
      BY <1>2, <1>5, <3>1, <3>2 DEF TablesInv, Owned
  <2>3. /\ conns'[c].holder = Nobody => Clean(conns'[c])
        /\ conns'[c].holder # Nobody =>
              (Running(conns[c].holder) /\ reqs[conns[c].holder].conn = c)'
    <3>1. CASE i = Len(p)
      BY <1>2, <1>4, <3>1 DEF Clean
    <3>2. CASE i < Len(p)
      BY <1>2, <1>6, <3>2, TablesAssumption
    <3> QED
      BY <1>3, <3>1, <3>2
  <2> QED
    <3>1. \A d \in Conns :
             /\ conns'[d].holder = Nobody => Clean(conns'[d])
             /\ conns'[d].holder # Nobody =>
                   (Running(conns[d].holder) /\ reqs[conns[d].holder].conn = d)'
      BY <1>0, <2>2, <2>3
    <3> QED
      BY <2>1, <3>1 DEF Owned, Clean
<1>11. InPhase' /\ Pending'
  <2>1. \A o \in Reqs \ {r} : PhaseAt(o)' = PhaseAt(o) /\ (o \in unsure' <=> o \in unsure)
    BY <1>2 DEF PhaseAt
  <2>2. InPhase'
    BY <1>2, <1>3, <1>5, <1>6, <2>1 DEF TablesInv, InPhase
  <2>3. ASSUME NEW o \in Reqs, Holding(o)'
        PROVE  /\ ~Client(o)'.tx => Client(o)'.pending = {}
               /\ \A y \in Client(o)'.pending :
                     /\ y[1] = o /\ y[2] \in 1..Len(reqs'[o].program)
                     /\ reqs'[o].program[y[2]] \in {"write", "text"}
    <3>1. CASE o = r
      BY <1>2, <1>3, <1>6, <2>3, <3>1
    <3>2. CASE o # r
      <4>1. reqs'[o] = reqs[o] /\ Holding(o) /\ conns'[reqs[o].conn] = conns[reqs[o].conn]
        BY <1>2, <1>5, <2>3, <3>2
      <4>2. /\ ~Client(o).tx => Client(o).pending = {}
            /\ \A y \in Client(o).pending :
                  /\ y[1] = o /\ y[2] \in 1..Len(reqs[o].program)
                  /\ reqs[o].program[y[2]] \in {"write", "text"}
        BY <4>1 DEF TablesInv, Pending
      <4> QED
        BY <4>1, <4>2
    <3> QED
      BY <3>1, <3>2
  <2> QED
    BY <2>2, <2>3 DEF Pending
<1>12. OnlyTextUnsure'
  BY <1>2, <1>3, <1>5, <1>6 DEF TablesInv, TablesType, OnlyTextUnsure, Has
<1>13. SoFar'
  <2>1. \A o \in Reqs \ {r} : Running(o) => Written(o) \subseteq Written(o)'
    BY <1>2, <1>5
  <2>2. ASSUME i < Len(p), r \notin unsure'
        PROVE  /\ \A j \in 1..i : p[j] \in {"put", "write"} => <<r, j>> \in Written(r)'
               /\ p # AlterTable => \A y \in db' : y[1] # r
    <3>1. db' = db /\ r \notin unsure
      BY <2>2, <1>1
    <3> QED
      BY <1>0, <1>6, <2>2, <3>1 DEF Written, TablesInv, SoFar
  <2>3. ASSUME NEW o \in Reqs \ {r}, o \notin unsure'
        PROVE  /\ Running(o)' => \A j \in 1..(reqs'[o].pc - 1) :
                     reqs'[o].program[j] \in {"put", "write"} => <<o, j>> \in Written(o)'
               /\ reqs'[o].at \in {"new", "run"} /\ reqs'[o].program # AlterTable =>
                     \A y \in db' : y[1] # o
    BY <1>2, <1>5, <2>1, <2>3 DEF TablesInv, SoFar
  <2>4. i < Len(p) => reqs'[r].pc - 1 = i
    BY <1>1, <1>2
  <2> QED
    BY <1>2, <1>3, <1>6, <2>2, <2>3, <2>4 DEF SoFar
<1>14. AllOrNothing'
  <2>1. ASSUME i = Len(p), r \notin unsure' PROVE Wanted(r)' \subseteq db'
    BY <1>1, <1>2, <1>4, <2>1 DEF Wanted
  <2>2. \A o \in Reqs \ {r} : Wanted(o)' = Wanted(o)
    BY <1>2 DEF Wanted
  <2> QED
    BY <1>2, <1>3, <2>1, <2>2 DEF TablesInv, AllOrNothing
<1>15. Reserved'
  <2>1. \A o \in Reqs : Has(o, "count")' <=> Has(o, "count")
    BY <1>2 DEF Has
  <2>2. Has(r, "count") => r \in Counted
    <3>1. Has(r, "count") => Includes(p, {"count"})
      BY <1>1, HasIncludes
    <3>2. Has(r, "count") => i # 1
      BY <1>1, <3>1 DEF Fits, OfPool
    <3> QED
      BY <1>0, <1>1, <3>2 DEF Counted
  <2>3. (TablesOf(db) \cup Counted)' \subseteq TablesOf(db) \cup Counted
    <3>1. Counted' \subseteq Counted
      BY <1>2, <1>5, <2>1, <2>2 DEF Counted
    <3>2. TablesOf(db)' \subseteq TablesOf(db) \cup Counted
      BY <2>1, <2>2 DEF TablesOf
    <3> QED
      BY <3>1, <3>2
  <2> QED
    BY <2>3, NoMoreTables DEF TablesInv
<1> QED
  BY <1>7, <1>9, <1>10, <1>11, <1>12, <1>13, <1>14, <1>15 DEF TablesInv

\* The client a request holds, and what it has written so far.
LEMMA HeldClient ==
    ASSUME TablesInv, NEW r \in Reqs, Holding(r)
    PROVE  /\ reqs[r].conn \in Conns /\ Client(r) \in ConnType /\ Client(r).holder = r
           /\ PhaseAt(r) # "out"
           /\ Client(r).tx => PhaseAt(r) \in {"tx", "claimed"}
           /\ PhaseAt(r) \in {"tx", "claimed"} /\ r \notin unsure => Client(r).tx
           /\ Client(r).claims = IF PhaseAt(r) = "claimed" THEN r ELSE Nobody
           /\ ~Client(r).tx => Client(r).pending = {}
           /\ \A y \in Client(r).pending :
                 /\ y[1] = r /\ y[2] \in 1..Len(reqs[r].program)
                 /\ reqs[r].program[y[2]] \in {"write", "text"}
           /\ r \in unsure => Has(r, "text")
           /\ r \notin unsure =>
                 \A j \in 1..(reqs[r].pc - 1) :
                     reqs[r].program[j] \in {"put", "write"} =>
                         <<r, j>> \in db \cup Client(r).pending
<1>1. reqs[r].conn \in Conns /\ Client(r) \in ConnType /\ Client(r).holder = r
  BY DEF TablesInv, TablesType, Owned, Holding, Client, ConnType
<1>2. PhaseAt(r) # "out"
  BY DEF TablesInv, Placed, Holding
<1>3. /\ Client(r).tx => PhaseAt(r) \in {"tx", "claimed"}
      /\ PhaseAt(r) \in {"tx", "claimed"} /\ r \notin unsure => Client(r).tx
      /\ Client(r).claims = IF PhaseAt(r) = "claimed" THEN r ELSE Nobody
  BY DEF TablesInv, InPhase
<1>4. /\ ~Client(r).tx => Client(r).pending = {}
      /\ \A y \in Client(r).pending :
            /\ y[1] = r /\ y[2] \in 1..Len(reqs[r].program)
            /\ reqs[r].program[y[2]] \in {"write", "text"}
  BY DEF TablesInv, Pending
<1>5. r \in unsure => Has(r, "text")
  BY DEF TablesInv, OnlyTextUnsure, Holding
<1>6. r \notin unsure =>
          \A j \in 1..(reqs[r].pc - 1) :
              reqs[r].program[j] \in {"put", "write"} => <<r, j>> \in db \cup Client(r).pending
  BY DEF TablesInv, SoFar, Holding, Written
<1> QED
  BY <1>1, <1>2, <1>3, <1>4, <1>5, <1>6

LEMMA ConnFields ==
    ASSUME NEW x \in ConnType
    PROVE  /\ Ended(x) \in ConnType /\ Ended(x).holder = x.holder /\ Ended(x).tx = FALSE
           /\ Ended(x).claims = Nobody /\ Ended(x).pending = {}
           /\ Release(x) \in ConnType /\ Release(x).holder = Nobody /\ Release(x).tx = x.tx
           /\ Release(x).claims = x.claims /\ Release(x).pending = x.pending
  BY DEF ConnType, Ended, Release

\* One step per kind of statement.
LEMMA StatementStep ==
    ASSUME TablesInv, NEW r \in Reqs, Statement(r)
    PROVE  TablesInv'
<1>1. Holding(r) /\ Running(r)
  BY DEF Statement, Holding
<1>c. PICK c \in Conns : c = reqs[r].conn
  BY <1>1, HeldClient
<1>x. PICK x \in ConnType : x = conns[c] /\ x = Client(r)
  BY <1>1, <1>c, HeldClient DEF Client
<1>p. PICK p \in Programs, i \in Nat : i \in 1..Len(p) /\ p = reqs[r].program /\ i = reqs[r].pc
  BY <1>1, Standing
<1>2. /\ Fits(p, i, PhaseAt(r)) /\ Op(r) = p[i] /\ Len(p) \in Nat \ {0} /\ WellFormed(p)
  BY <1>1, <1>p, Standing, ProgramsWellFormed
<1>3. /\ x.holder = r /\ PhaseAt(r) # "out"
      /\ x.tx => PhaseAt(r) \in {"tx", "claimed"}
      /\ PhaseAt(r) \in {"tx", "claimed"} /\ r \notin unsure => x.tx
      /\ x.claims = IF PhaseAt(r) = "claimed" THEN r ELSE Nobody
      /\ ~x.tx => x.pending = {}
      /\ \A y \in x.pending : y[1] = r /\ y[2] \in 1..Len(p) /\ p[y[2]] \in {"write", "text"}
      /\ r \in unsure => Has(r, "text")
      /\ r \notin unsure =>
            \A j \in 1..(i - 1) : p[j] \in {"put", "write"} => <<r, j>> \in db \cup x.pending
  BY <1>1, <1>p, <1>x, HeldClient
<1>4. db \in SUBSET (Reqs \X Nat) /\ unsure \in SUBSET Reqs /\ x.pending \in SUBSET (Reqs \X Nat)
      /\ <<r, i>> \in Reqs \X Nat /\ UNCHANGED overlapped /\ x.tx \in BOOLEAN
  BY <1>2 DEF TablesInv, TablesType, ConnType, Statement
<1>5. \A j \in 1..i : j = i \/ j \in 1..(i - 1)
  OBVIOUS
<1>6. ASSUME Advance(r, c, x), Op(r) \in {"read", "all", "limit", "text"}, UNCHANGED <<db, unsure>>
      PROVE  TablesInv'
  <2>1. After(PhaseAt(r), Op(r)) = PhaseAt(r)
    BY <1>6 DEF After
  <2>2. \A j \in 1..i : p[j] \in {"put", "write"} => j \in 1..(i - 1)
    BY <1>2, <1>5, <1>6
  <2> QED
    BY <1>1, <1>c, <1>p, <1>2, <1>3, <1>4, <1>6, <2>1, <2>2, StatementKeeps
<1>7. ASSUME Write(r, c), Op(r) \in {"write", "text"}, UNCHANGED unsure
      PROVE  TablesInv'
  <2>1. After(PhaseAt(r), Op(r)) = PhaseAt(r) /\ PhaseAt(r) \in {"tx", "claimed"}
    BY <1>2, <1>7 DEF After, Fits
  <2>2. CASE x.tx
    <3> DEFINE new == [x EXCEPT !.pending = @ \cup {<<r, i>>}]
    <3>1. Advance(r, c, new) /\ db' = db
      BY <1>p, <1>x, <1>7, <2>2 DEF Write
    <3>2. /\ new \in ConnType /\ new.holder = r /\ new.tx = TRUE /\ new.claims = x.claims
          /\ new.pending = x.pending \cup {<<r, i>>}
      BY <1>3, <1>4, <2>2 DEF ConnType
    <3> HIDE DEF new
    <3>3. \A y \in new.pending : y[1] = r /\ y[2] \in 1..Len(p) /\ p[y[2]] \in {"write", "text"}
      BY <1>2, <1>3, <1>7, <1>p, <3>2
    <3>4. r \notin unsure =>
              \A j \in 1..i : p[j] \in {"put", "write"} => <<r, j>> \in db \cup new.pending
      BY <1>3, <1>5, <3>2
    <3> QED
      BY <1>1, <1>c, <1>p, <1>3, <1>4, <1>7, <2>1, <3>1, <3>2, <3>3, <3>4, StatementKeeps
  <2>3. CASE ~x.tx
    <3>1. Advance(r, c, x) /\ db' = db \cup {<<r, i>>} /\ r \in unsure
      BY <1>p, <1>x, <1>3, <1>7, <2>1, <2>3 DEF Write
    <3> QED
      BY <1>1, <1>c, <1>p, <1>3, <1>4, <1>7, <2>1, <3>1, StatementKeeps
  <2> QED
    BY <2>2, <2>3
<1>8. ASSUME Begin(r, c) PROVE TablesInv'
  <2> DEFINE new == [x EXCEPT !.tx = TRUE]
  <2>1. Advance(r, c, new) /\ Op(r) = "begin" /\ UNCHANGED <<db, unsure>>
    BY <1>x, <1>8 DEF Begin
  <2>2. After(PhaseAt(r), Op(r)) = "tx" /\ PhaseAt(r) = "held"
    BY <1>2, <2>1 DEF After, Fits
  <2>3. /\ new \in ConnType /\ new.holder = r /\ new.tx = TRUE /\ new.claims = Nobody
        /\ new.pending = x.pending
    BY <1>3, <2>2 DEF ConnType
  <2> HIDE DEF new
  <2>4. \A j \in 1..i : p[j] \in {"put", "write"} => j \in 1..(i - 1)
    BY <1>2, <1>5, <2>1
  <2> QED
    BY <1>1, <1>c, <1>p, <1>3, <1>4, <2>1, <2>2, <2>3, <2>4, StatementKeeps
<1>9. ASSUME Claim(r, c) PROVE TablesInv'
  <2>1. Op(r) = "claims" /\ UNCHANGED <<db, unsure>>
    BY <1>9 DEF Claim
  <2>2. After(PhaseAt(r), Op(r)) = "claimed" /\ PhaseAt(r) \in {"tx", "claimed"}
    BY <1>2, <2>1 DEF After, Fits
  <2>3. r \notin unsure
    <3>1. Includes(p, {"claims"})
      BY <1>2, <1>p, <2>1 DEF Includes
    <3>2. ~Includes(p, {"text"})
      BY <1>2, <3>1 DEF WellFormed, Fits, Includes
    <3> QED
      BY <1>3, <1>p, <3>2, HasIncludes
  <2> DEFINE new == [x EXCEPT !.claims = r]
  <2>4. Advance(r, c, new) /\ x.tx
    BY <1>x, <1>3, <1>9, <2>2, <2>3 DEF Claim
  <2>5. /\ new \in ConnType /\ new.holder = r /\ new.tx /\ new.claims = r
        /\ new.pending = x.pending
    BY <1>3, <2>4 DEF ConnType
  <2> HIDE DEF new
  <2>6. \A j \in 1..i : p[j] \in {"put", "write"} => j \in 1..(i - 1)
    BY <1>2, <1>5, <2>1
  <2> QED
    BY <1>1, <1>c, <1>p, <1>3, <1>4, <2>1, <2>2, <2>3, <2>4, <2>5, <2>6, StatementKeeps
<1>10. ASSUME Advance(r, c, Ended(x)), Op(r) = "text", db' = db \cup {<<r, i>>},
              unsure' = unsure \cup {r}
       PROVE  TablesInv'
  <2>1. After(PhaseAt(r), Op(r)) = "tx"
    BY <1>2, <1>10 DEF After, Fits, Includes
  <2>2. Has(r, "text")
    BY <1>2, <1>p, <1>10, HasIncludes DEF Includes
  <2>3. PICK new \in ConnType : /\ new = Ended(x) /\ new.holder = r /\ new.tx = FALSE
                               /\ new.claims = Nobody /\ new.pending = {}
    BY <1>3, ConnFields
  <2> QED
    BY <1>1, <1>c, <1>p, <1>3, <1>4, <1>10, <2>1, <2>2, <2>3, StatementKeeps
<1>11. ASSUME Commit(r, c) PROVE TablesInv'
  <2>1. Op(r) = "commit" /\ Advance(r, c, Ended(x)) /\ db' = db \cup x.pending /\ unsure' = unsure
    BY <1>x, <1>11 DEF Commit
  <2>2. After(PhaseAt(r), Op(r)) = "held"
    BY <2>1 DEF After
  <2>3. db' # db => i = Len(p)
    BY <1>2, <1>3, <2>1 DEF Fits, Includes
  <2>4. \A j \in 1..i : p[j] \in {"put", "write"} => j \in 1..(i - 1)
    BY <1>2, <1>5, <2>1
  <2>5. PICK new \in ConnType : /\ new = Ended(x) /\ new.holder = r /\ new.tx = FALSE
                               /\ new.claims = Nobody /\ new.pending = {}
    BY <1>3, ConnFields
  <2>6. \A y \in db' \ db : y[1] = r
    BY <1>3, <2>1
  <2>7. r \notin unsure' =>
            \A j \in 1..i : p[j] \in {"put", "write"} => <<r, j>> \in db' \cup new.pending
    BY <1>3, <2>1, <2>4
  <2> QED
    BY <1>1, <1>c, <1>p, <1>3, <1>4, <2>1, <2>2, <2>3, <2>5, <2>6, <2>7, StatementKeeps
<1>12. ASSUME Op(r) = "rollback", Advance(r, c, RolledBack(x)), UNCHANGED <<db, unsure>>
       PROVE  TablesInv'
  <2>1. After(PhaseAt(r), Op(r)) = "held"
    BY <1>12 DEF After
  <2>2. \A j \in 1..i : p[j] \notin {"put", "write"}
    BY <1>2, <1>p, <1>12 DEF Fits, Includes
  <2> QED
    BY <1>1, <1>c, <1>p, <1>3, <1>4, <1>12, <2>1, <2>2, ConnFields, StatementKeeps DEF RolledBack
<1> QED
  BY <1>c, <1>p, <1>x, <1>6, <1>7, <1>8, <1>9, <1>10, <1>11, <1>12 DEF Statement, Read, Text

\* Only the count comes first in a creation of a table.
LEMMA Later ==
    ASSUME TablesInv, NEW r \in Reqs, Running(r), Has(r, "count"), Op(r) # "count"
    PROVE  reqs[r].pc > 1
<1>1. Fits(reqs[r].program, reqs[r].pc, PhaseAt(r)) /\ Op(r) = reqs[r].program[reqs[r].pc]
      /\ reqs[r].program \in Programs /\ reqs[r].pc \in 1..Len(reqs[r].program)
      /\ Len(reqs[r].program) \in Nat
  BY Standing
<1>2. Includes(reqs[r].program, {"count"})
  BY <1>1, HasIncludes
<1>3. reqs[r].pc # 1
  BY <1>1, <1>2 DEF Fits
<1> QED
  BY <1>1, <1>3

\* The ways to end with an error.
LEMMA ErrorStep ==
    ASSUME TablesInv, NEW r \in Reqs,
           \/ ConnectTimesOut(r) \/ QueryFails(r) \/ StatementFails(r) \/ ConnectionLost(r)
           \/ PoolEnded(r) \/ (Count(r) /\ Over(r, "error") /\ UNCHANGED overlapped)
    PROVE  TablesInv'
<1>1. /\ Running(r) /\ Over(r, "error") /\ UNCHANGED overlapped
  BY DEF ConnectTimesOut, QueryFails, StatementFails, ConnectionLost, PoolEnded, Count
<1>2. /\ Fits(reqs[r].program, reqs[r].pc, PhaseAt(r)) /\ Op(r) = reqs[r].program[reqs[r].pc]
      /\ reqs[r].program \in Programs /\ reqs[r].pc \in 1..Len(reqs[r].program)
      /\ Len(reqs[r].program) \in Nat
      /\ reqs[r].conn = Nobody <=> PhaseAt(r) = "out"
  BY <1>1, Standing
<1>3. /\ conns \in [Conns -> ConnType] /\ db \in SUBSET (Reqs \X Nat)
      /\ <<r, reqs[r].pc>> \in Reqs \X Nat
  BY <1>2 DEF TablesInv, TablesType, ConnType
<1>4. FreshConn \in ConnType /\ Clean(FreshConn)
  BY DEF FreshConn, ConnType, Clean
<1>5. ASSUME ConnectTimesOut(r) \/ QueryFails(r) \/ PoolEnded(r) \/ Count(r), UNCHANGED conns,
             \/ UNCHANGED <<db, unsure>>
             \/ Op(r) = "put" /\ db' = db \cup {<<r, reqs[r].pc>>} /\ unsure' = unsure \cup {r}
      PROVE  TablesInv'
  <2>1. reqs[r].conn = Nobody
    BY <1>2, <1>5 DEF Fits, ConnectTimesOut, QueryFails, PoolEnded, Count, OfPool
  <2>2. conns' = IF reqs[r].conn = Nobody THEN conns
                 ELSE [conns EXCEPT ![reqs[r].conn] = FreshConn]
    BY <1>5, <2>1
  <2>3. db' # db => r \in unsure' /\ (Has(r, "count") => reqs[r].pc > 1)
    BY <1>1, <1>5, Later
  <2> QED
    BY <1>1, <1>3, <1>4, <1>5, <2>2, <2>3, OverKeeps
<1>6. ASSUME StatementFails(r) PROVE TablesInv'
  <2>1. reqs[r].conn \in Conns /\ reqs[r].conn # Nobody
    BY <1>1, <1>6, HeldClient DEF StatementFails, Holding
  <2>2. PICK x \in ConnType : x = Release(RolledBack(conns[reqs[r].conn])) /\ Clean(x)
    <3>1. conns[reqs[r].conn] \in ConnType
      BY <1>3, <2>1
    <3>2. PICK y \in ConnType : /\ y = RolledBack(conns[reqs[r].conn])
                               /\ y.tx = FALSE /\ y.claims = Nobody /\ y.pending = {}
      BY <3>1, ConnFields DEF RolledBack
    <3>3. /\ Release(y) \in ConnType /\ Release(y).holder = Nobody
          /\ Release(y).tx = y.tx /\ Release(y).claims = y.claims
          /\ Release(y).pending = y.pending
      BY <3>2, ConnFields
    <3>4. Clean(Release(y))
      BY <3>2, <3>3 DEF Clean
    <3> QED
      BY <3>2, <3>3, <3>4
  <2>3. conns' = IF reqs[r].conn = Nobody THEN conns ELSE [conns EXCEPT ![reqs[r].conn] = x]
    BY <1>6, <2>1, <2>2 DEF StatementFails, PutConn
  <2>4. \/ UNCHANGED <<db, unsure>>
        \/ Op(r) = "text" /\ db' = db \cup {<<r, reqs[r].pc>>} /\ unsure' = unsure \cup {r}
    BY <1>6 DEF StatementFails
  <2>5. db' # db => r \in unsure' /\ (Has(r, "count") => reqs[r].pc > 1)
    BY <1>1, <2>4, Later
  <2> QED
    BY <1>1, <1>3, <2>2, <2>3, <2>4, <2>5, OverKeeps
<1>7. ASSUME ConnectionLost(r) PROVE TablesInv'
  <2>1. reqs[r].conn \in Conns /\ reqs[r].conn # Nobody /\ Holding(r)
    BY <1>1, <1>7, HeldClient DEF ConnectionLost, Holding
  <2>2. conns' = IF reqs[r].conn = Nobody THEN conns
                 ELSE [conns EXCEPT ![reqs[r].conn] = FreshConn]
    BY <1>7, <2>1 DEF ConnectionLost, PutConn
  <2>3. \/ UNCHANGED <<db, unsure>>
        \/ Op(r) = "commit" /\ db' = db \cup Client(r).pending /\ unsure' = unsure \cup {r}
    BY <1>7 DEF ConnectionLost, Client
  <2>4. db' # db => r \in unsure' /\ (Has(r, "count") => reqs[r].pc > 1)
    BY <1>1, <2>3, Later
  <2>5. \A y \in Client(r).pending : y[1] = r /\ y \in Reqs \X Nat
    BY <2>1, HeldClient DEF ConnType
  <2> QED
    BY <1>1, <1>3, <1>4, <2>2, <2>3, <2>4, <2>5, OverKeeps
<1> QED
  <2>1. CASE \/ ConnectTimesOut(r) \/ QueryFails(r) \/ PoolEnded(r)
             \/ Count(r) /\ Over(r, "error")
    BY <2>1, <1>5 DEF ConnectTimesOut, QueryFails, PoolEnded, Count, connection
  <2> QED
    BY <2>1, <1>6, <1>7

\* A query of the pool that goes well.
LEMMA PoolKeeps ==
    ASSUME TablesInv, NEW r \in Reqs, Running(r), Op(r) \in OfPool,
           reqs[r].pc = Len(reqs[r].program) =>
               reqs'[r].at = "ok" /\ reqs'[r].conn = Nobody /\ reqs'[r].pc = reqs[r].pc,
           reqs[r].pc < Len(reqs[r].program) =>
               /\ reqs'[r].at = "run" /\ reqs'[r].conn = reqs[r].conn
               /\ reqs'[r].pc = reqs[r].pc + 1,
           reqs'[r].program = reqs[r].program, \A o \in Reqs \ {r} : reqs'[o] = reqs[o],
           TablesType', UNCHANGED <<conns, unsure>>,
           db' = IF Op(r) = "put" THEN db \cup {<<r, reqs[r].pc>>} ELSE db,
           Reserved'
    PROVE  TablesInv'
<1> DEFINE p == reqs[r].program
           i == reqs[r].pc
<1> USE DEF Running, Holding, Client, PhaseAt, Written
<1>1. /\ p \in Programs /\ Len(p) \in Nat \ {0} /\ DOMAIN p = 1..Len(p) /\ i \in 1..Len(p)
      /\ Fits(p, i, PhaseAt(r)) /\ Op(r) = p[i]
      /\ reqs[r].conn = Nobody <=> PhaseAt(r) = "out"
      /\ i < Len(p) => i + 1 \in 1..Len(p) /\ Phase(p)[i + 1] = After(PhaseAt(r), Op(r))
  BY Standing
<1>2. PhaseAt(r) = "out" /\ reqs[r].conn = Nobody /\ (i < Len(p) => Phase(p)[i + 1] = "out")
  BY <1>1 DEF Fits, OfPool, After
<1>3. (i = Len(p) \/ i < Len(p)) /\ reqs[r].at = "run" /\ ~Holding(r) /\ ~Holding(r)'
  BY <1>1, <1>2 DEF Holding
<1>4. Placed'
  BY <1>1, <1>2, <1>3 DEF TablesInv, Placed
<1>5. Owned'
  <2>1. \A o \in Reqs : Holding(o)' => Client(o)'.holder = o
    BY <1>3 DEF TablesInv, Owned
  <2>2. \A d \in Conns :
           conns[d].holder # Nobody => /\ conns[d].holder \in Reqs \ {r}
                                       /\ Running(conns[d].holder)
                                       /\ reqs[conns[d].holder].conn = d
    BY <1>2, TablesAssumption DEF TablesInv, TablesType, Owned
  <2> QED
    BY <2>1, <2>2 DEF TablesInv, Owned, Clean
<1>6. InPhase' /\ Pending'
  <2>1. InPhase'
    BY <1>3 DEF TablesInv, InPhase
  <2>2. Pending'
    BY <1>3 DEF TablesInv, Pending
  <2> QED
    BY <2>1, <2>2
<1>7. OnlyTextUnsure'
  <2>1. \A o \in Reqs : /\ Has(o, "text")' <=> Has(o, "text")
                        /\ reqs[o].at # "new" => reqs'[o].at # "new"
                        /\ Running(o)' => Running(o)
    BY <1>3 DEF Has
  <2> QED
    BY <2>1 DEF TablesInv, TablesType, OnlyTextUnsure
<1>8. ASSUME r \notin unsure
      PROVE  /\ \A j \in 1..i : p[j] \in {"put", "write"} => <<r, j>> \in db'
             /\ i < Len(p) /\ p # AlterTable => \A y \in db' : y[1] # r
  <2>1. \A j \in 1..i : j = i \/ j \in 1..(i - 1)
    BY <1>1
  <2>2. \A j \in 1..(i - 1) : p[j] \in {"put", "write"} => <<r, j>> \in db
    BY <1>3, <1>8 DEF TablesInv, SoFar
  <2>3. p # AlterTable => \A y \in db : y[1] # r
    BY <1>3, <1>8 DEF TablesInv, SoFar
  <2>4. i < Len(p) /\ p # AlterTable => db' = db
    BY <1>1 DEF Fits
  <2>5. p[i] \in {"put", "write"} => <<r, i>> \in db'
    BY <1>1 DEF OfPool
  <2> QED
    BY <2>1, <2>2, <2>3, <2>4, <2>5
<1>9. \A y \in db' \ db : y[1] = r
  OBVIOUS
<1>10. SoFar'
  <2>1. ASSUME NEW o \in Reqs \ {r}, o \notin unsure'
        PROVE  /\ Running(o)' => \A j \in 1..(reqs'[o].pc - 1) :
                     reqs'[o].program[j] \in {"put", "write"} => <<o, j>> \in Written(o)'
               /\ reqs'[o].at \in {"new", "run"} /\ reqs'[o].program # AlterTable =>
                     \A y \in db' : y[1] # o
    BY <2>1, <1>9 DEF TablesInv, SoFar
  <2>2. i < Len(p) => reqs'[r].pc - 1 = i
    BY <1>1
  <2> QED
    BY <1>3, <1>8, <2>1, <2>2 DEF SoFar
<1>11. AllOrNothing'
  <2>1. ASSUME i = Len(p), r \notin unsure PROVE Wanted(r)' \subseteq db'
    BY <1>1, <1>8, <2>1 DEF Wanted
  <2>2. \A o \in Reqs \ {r} : Wanted(o)' = Wanted(o)
    BY DEF Wanted
  <2> QED
    BY <1>3, <1>9, <2>1, <2>2 DEF TablesInv, AllOrNothing
<1> QED
  BY <1>4, <1>5, <1>6, <1>7, <1>10, <1>11 DEF TablesInv

LEMMA QueryStep ==
    ASSUME TablesInv, NEW r \in Reqs, Query(r)
    PROVE  TablesInv'
<1>1. Running(r) /\ Op(r) \in {"ask", "put"} /\ Op(r) \in OfPool /\ UNCHANGED <<unsure, overlapped>>
  BY DEF Query, OfPool
<1>2. PICK c \in Ready :
          IF Op(r) = "put" THEN Write(r, c) ELSE Advance(r, c, conns[c]) /\ db' = db
  BY DEF Query
<1>3. /\ c \in Conns /\ conns \in [Conns -> ConnType] /\ conns[c] \in ConnType
      /\ conns[c].holder = Nobody /\ conns[c].tx = FALSE
  BY DEF Ready, Free, TablesInv, TablesType, Owned, Clean, ConnType
<1>4. /\ Advance(r, c, conns[c])
      /\ db' = IF Op(r) = "put" THEN db \cup {<<r, reqs[r].pc>>} ELSE db
  BY <1>2, <1>3 DEF Write
<1>5. Release(conns[c]) = conns[c]
  BY <1>3 DEF Release, ConnType
<1>6. UNCHANGED conns
  BY <1>3, <1>4, <1>5 DEF Advance, PutConn
<1>7. TablesType'
  <2>1. reqs[r].pc \in Nat
    BY <1>1, Standing
  <2> QED
    BY <1>1, <1>3, <1>4, <1>6, <2>1, AdvanceMoves DEF TablesInv, TablesType
<1>8. /\ \A o \in Reqs \ {r} : reqs'[o] = reqs[o]
      /\ reqs'[r].program = reqs[r].program
      /\ reqs[r].pc = Len(reqs[r].program) =>
            reqs'[r].at = "ok" /\ reqs'[r].conn = Nobody /\ reqs'[r].pc = reqs[r].pc
      /\ reqs[r].pc < Len(reqs[r].program) =>
            /\ reqs'[r].at = "run" /\ reqs'[r].conn = reqs[r].conn
            /\ reqs'[r].pc = reqs[r].pc + 1
  BY <1>1, <1>3, <1>4, AdvanceMoves
<1>9. Reserved'
  <2>1. \A o \in Reqs : Has(o, "count")' <=> Has(o, "count")
    BY <1>8 DEF Has
  <2>2. Has(r, "count") => r \in Counted
    BY <1>1, Later DEF Counted
  <2>3. Counted' \subseteq Counted
    BY <1>8, <2>1, <2>2 DEF Counted, Running
  <2>4. TablesOf(db)' \subseteq TablesOf(db) \cup Counted
    BY <1>4, <2>1, <2>2 DEF TablesOf
  <2> QED
    BY <1>1, <2>3, <2>4, NoMoreTables DEF TablesInv
<1> QED
  BY <1>1, <1>4, <1>6, <1>7, <1>8, <1>9, PoolKeeps

\* Without an overlap the table that is admitted is the only one on its way.
LEMMA CountStep ==
    ASSUME TablesInv, NEW r \in Reqs, Count(r)
    PROVE  TablesInv'
<1>1. CASE Over(r, "error") /\ UNCHANGED overlapped
  BY <1>1, ErrorStep
<1>2. CASE /\ Admits(Cardinality(TablesOf(db))) /\ reqs' = [reqs EXCEPT ![r].pc = @ + 1]
           /\ overlapped' = (overlapped \/ CountedBefore(r) # {})
  <2>1. Running(r) /\ Op(r) = "count" /\ Op(r) \in OfPool /\ UNCHANGED <<conns, db, unsure>>
    BY DEF Count, OfPool, connection
  <2>2. /\ reqs[r].pc \in Nat /\ reqs[r].pc < Len(reqs[r].program)
        /\ reqs[r].pc # Len(reqs[r].program) /\ reqs[r].pc = 1
    <3>1. /\ Fits(reqs[r].program, reqs[r].pc, PhaseAt(r))
          /\ Op(r) = reqs[r].program[reqs[r].pc] /\ Len(reqs[r].program) \in Nat
          /\ reqs[r].pc \in 1..Len(reqs[r].program)
      BY <2>1, Standing
    <3> QED
      BY <2>1, <3>1 DEF Fits
  <2>3. TablesType'
    <3>1. overlapped' \in BOOLEAN
      BY <1>2 DEF TablesInv, TablesType
    <3>2. reqs[r].pc + 1 \in Nat
      BY <2>2
    <3>3. reqs' \in [Reqs -> [program : Programs \cup {<<>>},
                             at : {"new", "run", "ok", "error"},
                             pc : Nat, conn : Conns \cup {Nobody}]]
      <4>1. [reqs[r] EXCEPT !.pc = @ + 1] \in [program : Programs \cup {<<>>},
                                             at : {"new", "run", "ok", "error"},
                                             pc : Nat, conn : Conns \cup {Nobody}]
        BY <3>2 DEF TablesInv, TablesType
      <4> QED
        BY <1>2, <4>1 DEF TablesInv, TablesType
    <3> QED
      BY <2>1, <3>1, <3>3 DEF TablesInv, TablesType
  <2>4. /\ \A o \in Reqs \ {r} : reqs'[o] = reqs[o]
        /\ reqs'[r].program = reqs[r].program /\ reqs'[r].at = "run"
        /\ reqs'[r].conn = reqs[r].conn /\ reqs'[r].pc = reqs[r].pc + 1
    BY <1>2, <2>1 DEF TablesInv, TablesType, Running
  <2>5. ASSUME ~overlapped' PROVE Cardinality((TablesOf(db) \cup Counted)') <= MaxTables
    <3>1. CountedBefore(r) = {}
      BY <1>2, <2>5
    <3>2. Counted' \subseteq {r}
      BY <2>4, <3>1 DEF Counted, CountedBefore, Has, Running
    <3>3. TablesOf(db)' = TablesOf(db)
      <4>1. \A o \in Reqs : Has(o, "count")' <=> Has(o, "count")
        BY <2>4 DEF Has
      <4> QED
        BY <2>1, <4>1 DEF TablesOf
    <3>4. IsFiniteSet(TablesOf(db)) /\ Cardinality(TablesOf(db)) \in Nat
      BY FS_Subset, FS_CardinalityType, TablesAssumption DEF TablesOf
    <3>5. /\ IsFiniteSet(TablesOf(db) \cup {r})
          /\ Cardinality(TablesOf(db) \cup {r}) \in Nat
          /\ Cardinality(TablesOf(db) \cup {r}) <= Cardinality(TablesOf(db)) + 1
      <4>1. IsFiniteSet(TablesOf(db) \cup {r})
        BY <3>4, FS_AddElement
      <4>2. /\ Cardinality(TablesOf(db) \cup {r}) = Cardinality(TablesOf(db))
            \/ Cardinality(TablesOf(db) \cup {r}) = Cardinality(TablesOf(db)) + 1
        BY <3>4, FS_AddElement
      <4> QED
        BY <3>4, <4>1, <4>2
    <3>6. (TablesOf(db) \cup Counted)' \subseteq TablesOf(db) \cup {r}
      BY <3>2, <3>3
    <3>7. /\ Cardinality((TablesOf(db) \cup Counted)') <= Cardinality(TablesOf(db) \cup {r})
          /\ Cardinality((TablesOf(db) \cup Counted)') \in Nat
      BY <3>5, <3>6, FS_Subset, FS_CardinalityType
    <3>8. Cardinality(TablesOf(db)) + 1 <= MaxTables
      BY <1>2 DEF Admits
    <3> QED
      BY <3>4, <3>5, <3>7, <3>8, TablesAssumption
  <2>6. Reserved'
    BY <2>5 DEF Reserved
  <2> QED
    BY <2>1, <2>2, <2>3, <2>4, <2>6, PoolKeeps
<1> QED
  BY <1>1, <1>2 DEF Count

\* A client is clean when it is taken.
LEMMA TakeStep ==
    ASSUME TablesInv, NEW r \in Reqs, TakeClient(r)
    PROVE  TablesInv'
<1> USE DEF Running, Holding, Client, PhaseAt, Written
<1>0. Running(r) /\ Op(r) = "connect" /\ UNCHANGED <<db, unsure, overlapped>>
  BY DEF TakeClient
<1>1. PICK c \in Free : /\ PutConn(c, [conns[c] EXCEPT !.holder = r])
                        /\ reqs' = [reqs EXCEPT ![r].conn = c, ![r].pc = @ + 1]
  BY DEF TakeClient
<1>2. /\ reqs[r].pc \in Nat /\ reqs[r].pc + 1 \in 1..Len(reqs[r].program)
      /\ reqs[r].program \in Programs /\ reqs[r].conn = Nobody
      /\ Phase(reqs[r].program)[reqs[r].pc + 1] = "held"
      /\ reqs[r].program[reqs[r].pc] = "connect"
  <2>1. /\ Fits(reqs[r].program, reqs[r].pc, PhaseAt(r)) /\ Len(reqs[r].program) \in Nat
        /\ reqs[r].pc \in 1..Len(reqs[r].program) /\ Op(r) = reqs[r].program[reqs[r].pc]
        /\ reqs[r].program \in Programs /\ (reqs[r].conn = Nobody <=> PhaseAt(r) = "out")
        /\ reqs[r].pc < Len(reqs[r].program) =>
              /\ reqs[r].pc + 1 \in 1..Len(reqs[r].program)
              /\ Phase(reqs[r].program)[reqs[r].pc + 1] = After(PhaseAt(r), Op(r))
    BY <1>0, Standing
  <2> QED
    BY <1>0, <2>1 DEF Fits, After
<1>3. /\ c \in Conns /\ c # Nobody /\ conns \in [Conns -> ConnType] /\ Clean(conns[c])
      /\ conns[c] \in ConnType /\ r # Nobody
  BY TablesAssumption DEF Ready, Free, TablesInv, TablesType, Owned, ConnType
<1>4. PICK x \in ConnType : /\ x = [conns[c] EXCEPT !.holder = r] /\ x.holder = r
                            /\ x.tx = FALSE /\ x.claims = Nobody /\ x.pending = {}
  <2>1. [conns[c] EXCEPT !.holder = r] \in ConnType
    BY <1>3 DEF ConnType
  <2>2. /\ [conns[c] EXCEPT !.holder = r].holder = r
        /\ [conns[c] EXCEPT !.holder = r].tx = conns[c].tx
        /\ [conns[c] EXCEPT !.holder = r].claims = conns[c].claims
        /\ [conns[c] EXCEPT !.holder = r].pending = conns[c].pending
    BY <1>3 DEF ConnType
  <2> QED
    BY <1>3, <2>1, <2>2 DEF Clean
<1>5. /\ conns' \in [Conns -> ConnType] /\ conns'[c] = x
      /\ \A d \in Conns \ {c} : conns'[d] = conns[d]
  BY <1>1, <1>3, <1>4 DEF PutConn
<1>6. /\ \A o \in Reqs \ {r} : reqs'[o] = reqs[o]
      /\ reqs'[r].program = reqs[r].program /\ reqs'[r].at = "run"
      /\ reqs'[r].conn = c /\ reqs'[r].pc = reqs[r].pc + 1
  BY <1>0, <1>1 DEF TablesInv, TablesType
<1>7. TablesType'
  BY <1>0, <1>1, <1>2, <1>3, <1>5 DEF TablesInv, TablesType, ConnType
<1>8. \A o \in Reqs \ {r} :
          Holding(o) => /\ reqs[o].conn # c /\ reqs[o].conn \in Conns
                        /\ conns'[reqs[o].conn] = conns[reqs[o].conn]
  <2> SUFFICES ASSUME NEW o \in Reqs \ {r}, Holding(o)
               PROVE  reqs[o].conn # c /\ reqs[o].conn \in Conns
    BY <1>5
  <2>1. reqs[o].conn \in Conns /\ conns[reqs[o].conn].holder = o
    BY DEF TablesInv, TablesType, Owned
  <2> QED
    BY <1>3, <2>1, TablesAssumption DEF Clean
<1>9. Running(r)' /\ Holding(r)' /\ Client(r)' = x /\ PhaseAt(r)' = "held"
  BY <1>2, <1>3, <1>5, <1>6
<1>10. Placed'
  <2>1. \A o \in Reqs \ {r} : PhaseAt(o)' = PhaseAt(o)
    BY <1>6
  <2> QED
    BY <1>2, <1>3, <1>6, <1>9, <2>1 DEF TablesInv, Placed
<1>11. Owned'
  <2>1. \A o \in Reqs : Holding(o)' => Client(o)'.holder = o
    <3>1. \A o \in Reqs \ {r} : Holding(o)' => Client(o)'.holder = o
      BY <1>6, <1>8 DEF TablesInv, Owned
    <3> QED
      BY <1>4, <1>9, <3>1
  <2>2. ASSUME NEW d \in Conns \ {c}
        PROVE  /\ conns'[d].holder = Nobody => Clean(conns'[d])
               /\ conns'[d].holder # Nobody =>
                     (Running(conns[d].holder) /\ reqs[conns[d].holder].conn = d)'
    <3>1. conns'[d] = conns[d] /\ (conns[d].holder \in Reqs \/ conns[d].holder = Nobody)
      BY <1>5 DEF TablesInv, TablesType
    <3>2. conns[d].holder # r
      BY <1>2, <1>3, TablesAssumption DEF TablesInv, Owned
    <3> QED
      BY <1>6, <3>1, <3>2 DEF TablesInv, Owned
  <2>3. conns'[c].holder = r /\ r # Nobody /\ (Running(r) /\ reqs[r].conn = c)'
    BY <1>3, <1>4, <1>5, <1>6
  <2> QED
    BY <2>1, <2>2, <2>3 DEF Owned, Clean
<1>12. InPhase' /\ Pending'
  <2>1. \A o \in Reqs \ {r} : PhaseAt(o)' = PhaseAt(o)
    BY <1>6
  <2>2. ASSUME NEW o \in Reqs \ {r}, Holding(o)'
        PROVE  /\ Client(o)' = Client(o) /\ PhaseAt(o)' = PhaseAt(o) /\ Holding(o)
               /\ reqs'[o].program = reqs[o].program
    BY <1>6, <1>8, <2>1, <2>2
  <2>3. InPhase'
    <3>1. ASSUME NEW o \in Reqs, Holding(o)'
          PROVE  /\ Client(o)'.tx => PhaseAt(o)' \in {"tx", "claimed"}
                 /\ PhaseAt(o)' \in {"tx", "claimed"} /\ o \notin unsure' => Client(o)'.tx
                 /\ Client(o)'.claims = IF PhaseAt(o)' = "claimed" THEN o ELSE Nobody
      <4>1. CASE o = r
        BY <1>4, <1>9, <4>1
      <4>2. CASE o # r
        BY <1>0, <2>2, <3>1, <4>2 DEF TablesInv, InPhase
      <4> QED
        BY <4>1, <4>2
    <3> QED
      BY <3>1 DEF InPhase
  <2>4. Pending'
    <3>1. ASSUME NEW o \in Reqs, Holding(o)'
          PROVE  /\ ~Client(o)'.tx => Client(o)'.pending = {}
                 /\ \A y \in Client(o)'.pending :
                       /\ y[1] = o /\ y[2] \in 1..Len(reqs'[o].program)
                       /\ reqs'[o].program[y[2]] \in {"write", "text"}
      <4>1. CASE o = r
        BY <1>4, <1>9, <4>1
      <4>2. CASE o # r
        BY <2>2, <3>1, <4>2 DEF TablesInv, Pending
      <4> QED
        BY <4>1, <4>2
    <3> QED
      BY <3>1 DEF Pending
  <2> QED
    BY <2>3, <2>4
<1>13. OnlyTextUnsure'
  <2>1. \A o \in Reqs : Has(o, "text")' <=> Has(o, "text")
    BY <1>6 DEF Has
  <2> QED
    BY <1>0, <1>6, <2>1 DEF TablesInv, TablesType, OnlyTextUnsure
<1>14. SoFar' /\ AllOrNothing'
  <2>1. ASSUME NEW o \in Reqs, Running(o) PROVE Written(o) \subseteq Written(o)'
    BY <1>0, <1>2, <1>6, <1>8, <2>1
  <2>2. \A j \in 1..reqs[r].pc : j = reqs[r].pc \/ j \in 1..(reqs[r].pc - 1)
    BY <1>2
  <2>3. reqs'[r].pc - 1 = reqs[r].pc
    BY <1>2, <1>6
  <2>4. ASSUME NEW o \in Reqs, o \notin unsure'
        PROVE  /\ Running(o)' => \A j \in 1..(reqs'[o].pc - 1) :
                     reqs'[o].program[j] \in {"put", "write"} => <<o, j>> \in Written(o)'
               /\ reqs'[o].at \in {"new", "run"} /\ reqs'[o].program # AlterTable =>
                     \A y \in db' : y[1] # o
    <3>1. CASE o = r
      BY <1>0, <1>2, <1>6, <2>1, <2>2, <2>3, <2>4, <3>1 DEF TablesInv, SoFar
    <3>2. CASE o # r
      BY <1>0, <1>6, <2>1, <2>4, <3>2 DEF TablesInv, SoFar
    <3> QED
      BY <3>1, <3>2
  <2>5. AllOrNothing'
    <3>1. \A o \in Reqs : Wanted(o)' = Wanted(o)
      BY <1>6 DEF Wanted
    <3> QED
      BY <1>0, <1>6, <3>1 DEF TablesInv, AllOrNothing
  <2> QED
    BY <2>4, <2>5 DEF SoFar
<1>15. Reserved'
  <2>1. \A o \in Reqs : Has(o, "count")' <=> Has(o, "count")
    BY <1>6 DEF Has
  <2>2. Has(r, "count") => r \in Counted
    BY <1>0, Later DEF Counted
  <2>3. Counted' \subseteq Counted
    BY <1>6, <2>1, <2>2 DEF Counted
  <2>4. TablesOf(db)' \subseteq TablesOf(db) \cup Counted
    BY <1>0, <2>1 DEF TablesOf
  <2> QED
    BY <1>0, <2>3, <2>4, NoMoreTables DEF TablesInv
<1> QED
  BY <1>7, <1>10, <1>11, <1>12, <1>13, <1>14, <1>15 DEF TablesInv

LEMMA ArriveStep ==
    ASSUME TablesInv, NEW r \in Reqs, Arrive(r)
    PROVE  TablesInv'
<1> USE DEF Running, Holding, Client, PhaseAt, Written
<1>1. PICK p \in Programs : reqs' = [reqs EXCEPT ![r].program = p, ![r].at = "run"]
  BY DEF Arrive
<1>2. reqs[r].at = "new" /\ UNCHANGED <<conns, db, unsure, overlapped>>
  BY DEF Arrive, connection
<1>3. reqs[r].program = <<>> /\ reqs[r].pc = 1 /\ reqs[r].conn = Nobody /\ ~Running(r)
  BY <1>2 DEF TablesInv, Placed
<1>4. /\ \A o \in Reqs \ {r} : reqs'[o] = reqs[o]
      /\ reqs'[r].program = p /\ reqs'[r].at = "run" /\ reqs'[r].pc = 1
      /\ reqs'[r].conn = Nobody
  BY <1>1, <1>3 DEF TablesInv, TablesType
<1>5. WellFormed(p) /\ Len(p) \in Nat \ {0} /\ Phase(p)[1] = "out"
  BY ProgramsWellFormed DEF WellFormed, Phases
<1>6. TablesType'
  BY <1>1, <1>2 DEF TablesInv, TablesType
<1>7. ~Holding(r) /\ ~Holding(r)' /\ PhaseAt(r)' = "out"
  BY <1>3, <1>4, <1>5
<1>8. r \notin unsure /\ \A y \in db : y[1] # r
  <2>1. r \notin unsure
    BY <1>2 DEF TablesInv, OnlyTextUnsure
  <2>2. reqs[r].program # AlterTable
    BY <1>3 DEF AlterTable
  <2> QED
    BY <1>2, <2>1, <2>2 DEF TablesInv, SoFar
<1>9. Placed'
  <2>1. 1 \in 1..Len(p)
    BY <1>5
  <2> QED
    BY <1>4, <1>7, <2>1 DEF TablesInv, Placed
<1>10. Owned'
  <2>1. \A o \in Reqs : Holding(o)' => Client(o)'.holder = o
    BY <1>2, <1>4, <1>7 DEF TablesInv, Owned
  <2>2. \A d \in Conns :
           conns[d].holder # Nobody => /\ conns[d].holder \in Reqs \ {r}
                                       /\ Running(conns[d].holder)
                                       /\ reqs[conns[d].holder].conn = d
    BY <1>2, TablesAssumption DEF TablesInv, TablesType, Owned
  <2> QED
    BY <1>2, <1>4, <2>1, <2>2 DEF TablesInv, Owned, Clean
<1>11. InPhase' /\ Pending'
  <2>1. InPhase'
    BY <1>2, <1>4, <1>7 DEF TablesInv, InPhase
  <2>2. Pending'
    BY <1>2, <1>4, <1>7 DEF TablesInv, Pending
  <2> QED
    BY <2>1, <2>2
<1>12. OnlyTextUnsure'
  BY <1>2, <1>4, <1>8 DEF TablesInv, TablesType, OnlyTextUnsure, Has
<1>13. SoFar'
  BY <1>2, <1>4, <1>7, <1>8 DEF TablesInv, SoFar
<1>14. AllOrNothing'
  <2>1. \A o \in Reqs \ {r} : Wanted(o)' = Wanted(o)
    BY <1>4 DEF Wanted
  <2> QED
    BY <1>2, <1>4, <2>1 DEF TablesInv, AllOrNothing
<1>15. Reserved'
  <2>1. \A o \in Reqs \ {r} : Has(o, "count")' <=> Has(o, "count")
    BY <1>4 DEF Has
  <2>2. Counted' \subseteq Counted
    BY <1>4, <2>1 DEF Counted
  <2>3. TablesOf(db)' \subseteq TablesOf(db)
    BY <1>2, <1>8, <2>1 DEF TablesOf
  <2> QED
    BY <1>2, <2>2, <2>3, NoMoreTables DEF TablesInv
<1> QED
  BY <1>6, <1>9, <1>10, <1>11, <1>12, <1>13, <1>14, <1>15 DEF TablesInv

LEMMA InitTables == TablesInit => TablesInv
<1> SUFFICES ASSUME TablesInit PROVE TablesInv
  OBVIOUS
<1> USE DEF TablesInit, Running, Holding
<1>1. TablesType /\ Placed
  <2>1. TablesType
    BY DEF TablesType, FreshConn
  <2>2. Placed
    BY DEF Placed
  <2> QED
    BY <2>1, <2>2
<1>2. Owned /\ InPhase /\ Pending
  BY DEF Owned, InPhase, Pending, Clean, FreshConn
<1>3. OnlyTextUnsure /\ SoFar /\ AllOrNothing
  BY DEF OnlyTextUnsure, SoFar, AllOrNothing
<1>4. Reserved
  <2>1. TablesOf(db) \cup Counted = {}
    BY DEF TablesOf, Counted
  <2>2. Cardinality({}) = 0
    BY FS_EmptySet
  <2>3. Cardinality(TablesOf(db) \cup Counted) = 0
    BY <2>1, <2>2
  <2>4. 0 <= MaxTables
    BY TablesAssumption
  <2> QED
    BY <2>3, <2>4 DEF Reserved
<1> QED
  BY <1>1, <1>2, <1>3, <1>4 DEF TablesInv

LEMMA StutterKeeps ==
    ASSUME TablesInv, UNCHANGED <<conns, reqs, db, unsure, overlapped>>
    PROVE  TablesInv'
  BY DEF TablesInv, TablesType, Placed, Owned, InPhase, Pending, OnlyTextUnsure, SoFar,
         AllOrNothing, Reserved, Running, Holding, Client, PhaseAt, Written, Clean,
         Has, Wanted, TablesOf, Counted

\* The invariant is inductive.
LEMMA NextTables == TablesInv /\ TablesNext => TablesInv'
<1> SUFFICES ASSUME TablesInv, TablesNext PROVE TablesInv'
  OBVIOUS
<1>1. ASSUME NEW r \in Reqs,
             \/ Arrive(r) \/ TakeClient(r) \/ ConnectTimesOut(r)
             \/ Statement(r) \/ StatementFails(r) \/ ConnectionLost(r)
             \/ Count(r) \/ Query(r) \/ QueryFails(r)
      PROVE  TablesInv'
  BY <1>1, ArriveStep, TakeStep, StatementStep, CountStep, QueryStep, ErrorStep
<1>2. ASSUME NEW c \in Conns, Drain(c) PROVE TablesInv'
  BY <1>2, StutterKeeps DEF Drain
<1> QED
  BY <1>1, <1>2 DEF TablesNext

-----------------------------------------------------------------------------
\* A session has the settings of nobody or of a request that is a console's.
SessionType == session \in [Conns -> [kept : Reqs \cup {Nobody}, now : Reqs \cup {Nobody}]]
Settings ==
    /\ SessionType
    /\ \A c \in Conns : \A h \in {session[c].kept, session[c].now} :
           h # Nobody => Has(h, "text") /\ reqs[h].at # "new"

LEMMA ProgramsStay ==
    ASSUME TablesInv, TablesNext \/ \E r \in Reqs : PoolEnded(r)
    PROVE  \A o \in Reqs : reqs[o].at # "new" =>
              reqs'[o].program = reqs[o].program /\ reqs'[o].at # "new"
<1>1. reqs \in [Reqs -> [program : Programs \cup {<<>>}, at : {"new", "run", "ok", "error"},
                         pc : Nat, conn : Conns \cup {Nobody}]]
  BY DEF TablesInv, TablesType
<1>2. ASSUME NEW r \in Reqs, Arrive(r)
      PROVE  \A o \in Reqs : reqs[o].at # "new" => reqs'[o] = reqs[o]
  BY <1>1, <1>2 DEF Arrive
<1>3. ASSUME NEW r \in Reqs, TakeClient(r)
      PROVE  \A o \in Reqs : reqs'[o].program = reqs[o].program /\ reqs'[o].at = reqs[o].at
  BY <1>1, <1>3 DEF TakeClient
<1>4. ASSUME NEW r \in Reqs, NEW at \in {"ok", "error"}, Over(r, at)
      PROVE  /\ \A o \in Reqs : reqs'[o].program = reqs[o].program
             /\ \A o \in Reqs : reqs[o].at # "new" => reqs'[o].at # "new"
  BY <1>1, <1>4 DEF Over
<1>5. ASSUME NEW r \in Reqs, NEW c, NEW x, Advance(r, c, x)
      PROVE  /\ \A o \in Reqs : reqs'[o].program = reqs[o].program
             /\ \A o \in Reqs : reqs[o].at # "new" => reqs'[o].at # "new"
  BY <1>1, <1>4, <1>5 DEF Advance
<1>6. ASSUME NEW r \in Reqs, Statement(r)
      PROVE  \E c, x : Advance(r, c, x)
  BY <1>6 DEF Statement, Begin, Claim, Read, Text, Commit, Write
<1>7. ASSUME NEW r \in Reqs, Query(r)
      PROVE  \E c, x : Advance(r, c, x)
  BY <1>7 DEF Query, Write
<1>8. ASSUME NEW r \in Reqs, Count(r)
      PROVE  /\ \A o \in Reqs : reqs'[o].program = reqs[o].program
             /\ \A o \in Reqs : reqs[o].at # "new" => reqs'[o].at # "new"
  BY <1>1, <1>4, <1>8 DEF Count
<1>9. ASSUME NEW r \in Reqs,
             \/ ConnectTimesOut(r) \/ QueryFails(r) \/ StatementFails(r) \/ ConnectionLost(r)
             \/ PoolEnded(r)
      PROVE  Over(r, "error")
  BY <1>9 DEF ConnectTimesOut, QueryFails, StatementFails, ConnectionLost, PoolEnded
<1>10. ASSUME NEW c \in Conns, Drain(c) PROVE reqs' = reqs
  BY <1>10 DEF Drain
<1> QED
  BY <1>2, <1>3, <1>4, <1>5, <1>6, <1>7, <1>8, <1>9, <1>10 DEF TablesNext

\* Where the settings of a session come from.
Sourced(h, c) ==
    \/ h \in {session[c].kept, session[c].now, Nobody}
    \/ h \in Reqs /\ Running(h) /\ Op(h) = "text"

LEMMA SettingsMove ==
    ASSUME TablesInv, SessionType, TablesNext \/ \E r \in Reqs : PoolEnded(r)
    PROVE  /\ SessionType'
           /\ \A d \in Conns : Sourced(session'[d].kept, d) /\ Sourced(session'[d].now, d)
<1> DEFINE Moved == /\ SessionType'
                    /\ \A d \in Conns : Sourced(session'[d].kept, d) /\ Sourced(session'[d].now, d)
<1> SUFFICES Moved
  OBVIOUS
<1>1. ASSUME UNCHANGED session PROVE Moved
  BY <1>1 DEF SessionType, Sourced
<1>2. ASSUME NEW c \in Conns, TakeBack(c) PROVE Moved
  BY <1>2 DEF TakeBack, SessionType, Sourced
<1>3. ASSUME NEW c \in Conns, Keep(c) PROVE Moved
  BY <1>3 DEF Keep, SessionType, Sourced
<1>4. ASSUME NEW r \in Reqs, NEW c \in Conns, Running(r), Op(r) = "text",
             NEW now \in {session[c].now, r},
             \/ session' = [session EXCEPT ![c].now = now]
             \/ session' = [session EXCEPT ![c] = [kept |-> now, now |-> now]]
      PROVE  Moved
  <2>1. CASE session' = [session EXCEPT ![c].now = now]
    BY <1>4, <2>1 DEF SessionType, Sourced
  <2>2. CASE session' = [session EXCEPT ![c] = [kept |-> now, now |-> now]]
    BY <1>4, <2>2 DEF SessionType, Sourced
  <2> QED
    BY <1>4, <2>1, <2>2
<1>5. ASSUME NEW r \in Reqs, Statement(r) PROVE Moved
  <2>1. PICK c \in Conns : c = reqs[r].conn
    BY <1>5, HeldClient DEF Statement, Holding
  <2>2. ASSUME Text(r, c) PROVE Moved
    <3>1. Running(r) /\ Op(r) = "text"
      BY <1>5, <2>2 DEF Statement, Text
    <3>2. PICK now \in {session[c].now, r} :
              \/ session' = [session EXCEPT ![c].now = now]
              \/ session' = [session EXCEPT ![c] = [kept |-> now, now |-> now]]
      BY <2>2 DEF Text
    <3> QED
      BY <1>4, <3>1, <3>2
  <2>3. Text(r, c) \/ Keep(c) \/ TakeBack(c) \/ UNCHANGED session
    BY <1>5, <2>1 DEF Statement, Begin, Claim, Read, Commit
  <2> QED
    BY <1>1, <1>2, <1>3, <2>2, <2>3
<1>6. ASSUME NEW r \in Reqs, StatementFails(r) PROVE Moved
  <2>1. PICK c \in Conns : c = reqs[r].conn
    BY <1>6, HeldClient DEF StatementFails, Holding
  <2>2. ASSUME Op(r) = "text", NEW now \in {session[c].now, r},
               session' = [session EXCEPT ![c] = [kept |-> now, now |-> now]]
        PROVE  Moved
    BY <1>4, <1>6, <2>2 DEF StatementFails
  <2> QED
    BY <1>2, <1>6, <2>1, <2>2 DEF StatementFails
<1>7. ASSUME NEW r \in Reqs, ConnectionLost(r) PROVE Moved
  <2>1. PICK c \in Conns : c = reqs[r].conn
    BY <1>7, HeldClient DEF ConnectionLost, Holding
  <2>2. session' = [session EXCEPT ![c] = FreshSession]
    BY <1>7, <2>1 DEF ConnectionLost
  <2> QED
    BY <2>2 DEF SessionType, Sourced, FreshSession
<1>8. ASSUME NEW r \in Reqs,
             \/ Arrive(r) \/ TakeClient(r) \/ ConnectTimesOut(r) \/ Count(r) \/ Query(r)
             \/ QueryFails(r) \/ PoolEnded(r)
      PROVE  Moved
  BY <1>1, <1>8
     DEF Arrive, TakeClient, ConnectTimesOut, Count, Query, QueryFails, PoolEnded, connection
<1>9. ASSUME NEW c \in Conns, Drain(c) PROVE Moved
  BY <1>1, <1>9 DEF Drain
<1> HIDE DEF Moved
<1> QED
  BY <1>5, <1>6, <1>7, <1>8, <1>9 DEF TablesNext

LEMMA NextSettings ==
    ASSUME TablesInv, Settings, TablesNext \/ \E r \in Reqs : PoolEnded(r)
    PROVE  Settings'
<1>1. \A o \in Reqs : reqs[o].at # "new" =>
         reqs'[o].at # "new" /\ (Has(o, "text") => Has(o, "text")')
  BY ProgramsStay DEF Has
<1>2. /\ SessionType'
      /\ \A d \in Conns : Sourced(session'[d].kept, d) /\ Sourced(session'[d].now, d)
  BY SettingsMove DEF Settings
<1>3. ASSUME NEW r \in Reqs, Running(r), Op(r) = "text"
      PROVE  Has(r, "text") /\ reqs[r].at # "new"
  <2>1. /\ reqs[r].program \in Programs /\ Op(r) = reqs[r].program[reqs[r].pc]
        /\ reqs[r].pc \in 1..Len(reqs[r].program)
    BY <1>3, Standing
  <2> QED
    BY <1>3, <2>1, HasIncludes DEF Includes, Running
<1>4. ASSUME NEW d \in Conns, NEW h, h # Nobody, Sourced(h, d)
      PROVE  h \in Reqs /\ Has(h, "text") /\ reqs[h].at # "new"
  BY <1>3, <1>4 DEF Sourced, Settings, SessionType
<1>5. ASSUME NEW d \in Conns, NEW h \in {session'[d].kept, session'[d].now}, h # Nobody
      PROVE  Has(h, "text")' /\ reqs'[h].at # "new"
  BY <1>1, <1>2, <1>4, <1>5
<1> QED
  BY <1>2, <1>5 DEF Settings

\* What TablesInv says of the connections and of the quota.
LEMMA TablesSafe ==
    ASSUME TablesInv, Settings
    PROVE  ConnectionsComeBack /\ ClaimsAreTheCallers /\ AllOrNothing /\ TablesWithinQuota
<1>1. ConnectionsComeBack
  BY DEF TablesInv, Owned, Clean, ConnectionsComeBack
<1>2. ClaimsAreTheCallers
  <2> SUFFICES ASSUME NEW c \in Conns, NEW r, r = conns[c].holder
               PROVE  IF r # Nobody /\ Has(r, "claims")
                      THEN Op(r) \in {"read", "write"} => InForce(c) = r
                      ELSE InForce(c) # Nobody => Has(InForce(c), "text")
    BY DEF ClaimsAreTheCallers
  <2>1. session[c].now # Nobody => Has(session[c].now, "text")
    BY DEF Settings
  <2>2. CASE r = Nobody
    BY <2>1, <2>2 DEF TablesInv, Owned, Clean, InForce
  <2>3. CASE r # Nobody
    <3>1. r \in Reqs /\ Running(r) /\ reqs[r].conn = c /\ c # Nobody
      BY <2>3, TablesAssumption DEF TablesInv, TablesType, Owned
    <3>2. conns[c].claims = IF PhaseAt(r) = "claimed" THEN r ELSE Nobody
      BY <3>1, HeldClient DEF Holding, Client
    <3>3. /\ Fits(reqs[r].program, reqs[r].pc, PhaseAt(r)) /\ reqs[r].program \in Programs
          /\ Op(r) = reqs[r].program[reqs[r].pc]
      BY <3>1, Standing
    <3>4. Op(r) \in {"read", "write"} => (PhaseAt(r) = "claimed" <=> Has(r, "claims"))
      BY <3>1, <3>3, HasIncludes DEF Fits
    <3>5. PhaseAt(r) = "claimed" => Has(r, "claims")
      BY <3>1, <3>3, HasIncludes DEF Fits
    <3> QED
      BY <2>1, <2>3, <3>2, <3>4, <3>5 DEF InForce
  <2> QED
    BY <2>2, <2>3
<1>3. TablesWithinQuota
  <2>1. IsFiniteSet(TablesOf(db) \cup Counted)
    BY FS_Subset, TablesAssumption DEF TablesOf, Counted
  <2>2. /\ Cardinality(TablesOf(db)) <= Cardinality(TablesOf(db) \cup Counted)
        /\ Cardinality(TablesOf(db)) \in Nat
        /\ Cardinality(TablesOf(db) \cup Counted) \in Nat
    BY <2>1, FS_Subset, FS_CardinalityType
  <2> QED
    BY <2>2, TablesAssumption DEF TablesInv, Reserved, TablesWithinQuota
<1> QED
  BY <1>1, <1>2, <1>3 DEF TablesInv

-----------------------------------------------------------------------------
\* Both together.
DataInv == ProjectsInv /\ TablesInv /\ Settings

LEMMA DataStep == DataInv /\ [DataNext]_<<vars, tablesVars>> => DataInv'
<1> SUFFICES ASSUME ProjectsInv, TablesInv, Settings, [DataNext]_<<vars, tablesVars>>
             PROVE  ProjectsInv' /\ TablesInv' /\ Settings'
  BY DEF DataInv
<1>0. ASSUME UNCHANGED tablesVars PROVE TablesInv' /\ Settings'
  <2>1. UNCHANGED <<conns, session, reqs, db, unsure, overlapped>>
    BY <1>0 DEF tablesVars, connection
  <2> QED
    BY <2>1, StutterKeeps DEF Settings, SessionType, Has
<1>1. CASE Next /\ UNCHANGED tablesVars
  BY <1>0, <1>1, NextProjects
<1>2. CASE GetPool
  <2>1. Next
    BY <1>2, ServedAssumption DEF GetPool, Next
  <2>2. TablesNext
    BY <1>2 DEF GetPool, TablesNext
  <2> QED
    BY <2>1, <2>2, NextProjects, NextTables, NextSettings
<1>3. CASE Serve \/ ServeFails
  <2>1. TablesNext /\ UNCHANGED vars
    BY <1>3 DEF Serve, ServeFails, TablesNext
  <2> QED
    BY <2>1, NextProjects, NextTables, NextSettings
<1>4. CASE \E r \in Reqs : PoolEnded(r)
  <2>1. TablesInv' /\ Settings' /\ UNCHANGED vars
    BY <1>4, ErrorStep, NextSettings DEF PoolEnded
  <2> QED
    BY <2>1, NextProjects
<1>5. CASE UNCHANGED <<vars, tablesVars>>
  BY <1>0, <1>5, NextProjects
<1> QED
  BY <1>1, <1>2, <1>3, <1>4, <1>5 DEF DataNext

LEMMA Invariance == DataSpec => []DataInv
<1>1. TablesInit => Settings
  BY DEF TablesInit, Settings, SessionType, FreshSession
<1>2. DataInit => DataInv
  BY <1>1, InitProjects, InitTables DEF DataInit, DataInv
<1> QED
  BY <1>2, DataStep, PTL DEF DataSpec

(***************************************************************************)
(* Projects, what they own and the requests about them keep their shape: a *)
(* creation or a deletion is always of a project.                          *)
(***************************************************************************)
THEOREM TypeCorrect == DataSpec => []TypeOK
<1>1. DataInv => TypeOK
  BY DEF DataInv, ProjectsInv
<1> QED
  BY <1>1, Invariance, PTL

(***************************************************************************)
(* A project is active only when provisioning came to its end and nothing  *)
(* it made is gone (projects.routes.ts:139-151), for any number of         *)
(* projects, creations and deletions at once.                              *)
(***************************************************************************)
THEOREM ActiveProjectsAreWhole == DataSpec => []ActiveIsWhole
<1>1. DataInv => ActiveIsWhole
  BY DEF DataInv, ProjectsInv
<1> QED
  BY <1>1, Invariance, PTL

(***************************************************************************)
(* A deletion that was answered with success left nothing in the cluster   *)
(* (projects.routes.ts:205-208), though others of the same project failed  *)
(* half way or are still under way.                                        *)
(***************************************************************************)
THEOREM DeletionIsComplete == DataSpec => []DeletedLeavesNothing
<1>1. DataInv => DeletedLeavesNothing
  BY DEF DataInv, ProjectsInv
<1> QED
  BY <1>1, Invariance, PTL

(***************************************************************************)
(* The last operator cannot be taken away (admin.routes.ts:220-232) unless *)
(* two such requests overlap, provided there is one to begin with.         *)
(***************************************************************************)
THEOREM AnOperatorRemains == DataSpec => []OperatorRemains
<1>1. DataInv => OperatorRemains
  BY DEF DataInv, ProjectsInv, OthersLeft, OperatorRemains
<1> QED
  BY <1>1, Invariance, PTL

(***************************************************************************)
(* Whatever fails and wherever, a connection that no running request holds *)
(* has no transaction open (the finally and the catch of the handlers).    *)
(***************************************************************************)
THEOREM ConnectionsAreReturned == DataSpec => []ConnectionsComeBack
<1>1. DataInv => ConnectionsComeBack
  BY TablesSafe DEF DataInv
<1> QED
  BY <1>1, Invariance, PTL

(***************************************************************************)
(* The claims a request of the data API sets (rest.routes.ts:88-111) are   *)
(* the ones its statements run under, and reach nobody else's: any other   *)
(* claims that are in force were left to the session by a console's text.  *)
(***************************************************************************)
THEOREM StatementsRunAsTheirCaller == DataSpec => []ClaimsAreTheCallers
<1>1. DataInv => ClaimsAreTheCallers
  BY TablesSafe DEF DataInv
<1> QED
  BY <1>1, Invariance, PTL

(***************************************************************************)
(* An answered request is wholly in the database or not at all, whichever  *)
(* statement failed (import-export.routes.ts:266): each of the programs    *)
(* commits with its last statement.                                        *)
(***************************************************************************)
THEOREM RequestsAreAtomic == DataSpec => []AllOrNothing
<1>1. DataInv => AllOrNothing
  BY TablesSafe DEF DataInv
<1> QED
  BY <1>1, Invariance, PTL

(***************************************************************************)
(* The tables that creations made are at most max_tables                   *)
(* (database.routes.ts:162-169), unless two creations overlapped.          *)
(***************************************************************************)
THEOREM QuotaOfTablesHolds == DataSpec => []TablesWithinQuota
<1>1. DataInv => TablesWithinQuota
  BY TablesSafe DEF DataInv
<1> QED
  BY <1>1, Invariance, PTL
=============================================================================
