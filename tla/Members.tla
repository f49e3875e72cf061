------------------------------ MODULE Members ------------------------------
(***************************************************************************)
(* The members of one organization: services/api/src/modules/              *)
(* members.routes.ts.  Organizations do not interact, so one is enough.    *)
(*                                                                         *)
(* A handler runs one statement at a time.  The caller's role and the      *)
(* number of owners are read in statements of their own, before the write  *)
(* they authorise; accepting an invitation is one transaction that locks   *)
(* its row.  Inviting ends in a transaction of two statements: the rows    *)
(* its UPDATE revoked stay locked, and open to everyone else, until the    *)
(* INSERT is committed.                                                    *)
(*                                                                         *)
(* miscounted is history kept for a property; no guard reads it.           *)
(***************************************************************************)
EXTENDS Integers, FiniteSets

CONSTANTS
    Users,          \* people with an account, one per email address
    Founder,        \* who created the organization
    Invitations,    \* identities of invitation rows: a bound on invites
    Handlers,       \* requests in flight at once
    Nil

VARIABLES
    rank,           \* organization_members: user -> rank of the role, 0 if none
    invitations,    \* organization_invitations: row, Nil before its INSERT
    handlers,       \* the requests in flight
    held,           \* handler -> rows its transaction has revoked and locked
    miscounted      \* history: two writes were authorised by crossing counts

memberVars == <<rank, invitations, handlers, held, miscounted>>

-----------------------------------------------------------------------------
\* ROLE_RANK: viewer, developer, admin, owner.
Viewer == 1
Developer == 2
Admin == 3
Owner == 4
Roles == {Viewer, Developer, Admin, Owner}

\* An expired row is still pending to the unique index, but not to accept.
Invitation == [email : Users, role : Roles,
               status : {"pending", "expired", "accepted", "revoked"}]
Open(i) == invitations[i] # Nil /\ invitations[i].status \in {"pending", "expired"}

\* target is the member to change or the address to invite; role is the role
\* to give, 0 for a removal.
Handler == [at : {"idle", "lookup", "replace", "insert", "revoke", "count", "write"},
            target : Users \cup Invitations \cup {Nil}, role : {0} \cup Roles]

ASSUME UsersAssumption ==
    /\ Founder \in Users
    /\ Nil \notin Users \cup Invitations /\ Nil \notin Invitation

NoHandler == [at |-> "idle", target |-> Nil, role |-> 0]
Doing(point, t, r) == [at |-> point, target |-> t, role |-> r]

Owners == {u \in Users : rank[u] = Owner}

Start(h, now) == handlers[h].at = "idle" /\ handlers' = [handlers EXCEPT ![h] = now]
Go(h, point) == handlers' = [handlers EXCEPT ![h].at = point]
Finish(h) == handlers' = [handlers EXCEPT ![h] = NoHandler]

-----------------------------------------------------------------------------
MembersInit ==
    /\ rank = [u \in Users |-> IF u = Founder THEN Owner ELSE 0]
    /\ invitations = [i \in Invitations |-> Nil]
    /\ handlers = [h \in Handlers |-> NoHandler]
    /\ held = [h \in Handlers |-> {}]
    /\ miscounted = FALSE

\* POST .../invitations: requireOrgRole(admin), and no role above the caller's.
Invite(h, caller, email, role) ==
    /\ rank[caller] >= Admin /\ role <= rank[caller]
    /\ Start(h, Doing("lookup", email, role))
    /\ UNCHANGED <<rank, invitations, held, miscounted>>

\* ... alreadyMember: a member is refused (HandlerDies).
InviteLookup(h) ==
    /\ handlers[h].at = "lookup"
    /\ rank[handlers[h].target] = 0
    /\ Go(h, "replace")
    /\ UNCHANGED <<rank, invitations, held, miscounted>>

\* A statement that writes or locks a row waits for the transaction that holds it.
Locked(i) == \E h \in Handlers : i \in held[h]

\* ... the transaction: the UPDATE of what is open for the address.
InviteReplace(h) ==
    /\ handlers[h].at = "replace"
    /\ LET older == {i \in Invitations :
                        Open(i) /\ invitations[i].email = handlers[h].target}
       IN  /\ \A i \in older : ~Locked(i)
           /\ held' = [held EXCEPT ![h] = older]
    /\ Go(h, "insert")
    /\ UNCHANGED <<rank, invitations, miscounted>>

\* Mutant of IndexAllows: the index is not unique.
NoIndex(h) == handlers[h].at = "insert"

\* organization_invitations_pending_idx: no open row of the address but those
\* this transaction has revoked.  Against it the INSERT fails (HandlerDies),
\* after it has waited for the transaction that wrote or revoked such a row.
IndexAllows(h) ==
    \A i \in Invitations :
        Open(i) /\ invitations[i].email = handlers[h].target => i \in held[h]

\* ... the INSERT and the COMMIT.
InviteInsert(h) ==
    /\ handlers[h].at = "insert"
    /\ IndexAllows(h)
    /\ \E i \in Invitations :
          /\ invitations[i] = Nil
          /\ invitations' = [j \in Invitations |->
                IF j = i THEN [email |-> handlers[h].target, role |-> handlers[h].role,
                               status |-> "pending"]
                ELSE IF j \in held[h] THEN [invitations[j] EXCEPT !.status = "revoked"]
                ELSE invitations[j]]
    /\ held' = [held EXCEPT ![h] = {}]
    /\ Finish(h)
    /\ UNCHANGED <<rank, miscounted>>

\* DELETE .../invitations/:id: the role check, then the conditional UPDATE.
RevokeCheck(h, caller, i) ==
    /\ rank[caller] >= Admin /\ invitations[i] # Nil
    /\ Start(h, Doing("revoke", i, 0))
    /\ UNCHANGED <<rank, invitations, held, miscounted>>

RevokeInvitation(h) ==
    /\ handlers[h].at = "revoke"
    /\ Open(handlers[h].target) /\ ~Locked(handlers[h].target)
    /\ invitations' = [invitations EXCEPT ![handlers[h].target].status = "revoked"]
    /\ Finish(h)
    /\ UNCHANGED <<rank, held, miscounted>>

\* POST /invitations/:token/accept by the addressee, one transaction: the row
\* is locked, and INSERT ... ON CONFLICT DO NOTHING leaves a member as it is.
Accept(i) ==
    /\ invitations[i] # Nil /\ invitations[i].status = "pending" /\ ~Locked(i)
    /\ LET u == invitations[i].email
       IN  rank' = [rank EXCEPT ![u] = IF @ = 0 THEN invitations[i].role ELSE @]
    /\ invitations' = [invitations EXCEPT ![i].status = "accepted"]
    /\ UNCHANGED <<handlers, held, miscounted>>

\* expires_at passes.
Expires(i) ==
    /\ invitations[i] # Nil /\ invitations[i].status = "pending"
    /\ invitations' = [invitations EXCEPT ![i].status = "expired"]
    /\ UNCHANGED <<rank, handlers, held, miscounted>>

-----------------------------------------------------------------------------
\* PATCH .../members/:userId: the role check.  Only a role below owner can
\* cost the organization an owner, so only then are the owners counted.
ChangeRole(h, caller, target, role) ==
    /\ rank[caller] >= Admin /\ role <= rank[caller]
    /\ Start(h, Doing(IF role = Owner THEN "write" ELSE "count", target, role))
    /\ UNCHANGED <<rank, invitations, held, miscounted>>

\* DELETE .../members/:userId: oneself as any member, others as an admin.
Remove(h, caller, target) ==
    /\ rank[caller] >= (IF caller = target THEN Viewer ELSE Admin)
    /\ Start(h, Doing("count", target, 0))
    /\ UNCHANGED <<rank, invitations, held, miscounted>>

\* Requests about other members that have counted and not written yet.
Crossing(h) ==
    \E k \in Handlers : /\ handlers[k].at = "write" /\ handlers[k].role # Owner
                        /\ handlers[k].target # handlers[h].target

\* Mutant of CountOwners: the target counts as an owner who stays.
CountOwnersAll(h) ==
    /\ handlers[h].at = "count"
    /\ Owners # {}
    /\ Go(h, "write")
    /\ miscounted' = (miscounted \/ Crossing(h))
    /\ UNCHANGED <<rank, invitations, held>>

\* SELECT COUNT(*) of the owners besides the target; with none left the request
\* is refused (HandlerDies).
CountOwners(h) ==
    /\ handlers[h].at = "count"
    /\ Owners \ {handlers[h].target} # {}
    /\ Go(h, "write")
    /\ miscounted' = (miscounted \/ Crossing(h))
    /\ UNCHANGED <<rank, invitations, held>>

\* The UPDATE, which needs the row to exist, or the DELETE, which does not.
WriteMember(h) ==
    /\ handlers[h].at = "write"
    /\ handlers[h].role = 0 \/ rank[handlers[h].target] # 0
    /\ rank' = [rank EXCEPT ![handlers[h].target] = handlers[h].role]
    /\ Finish(h)
    /\ UNCHANGED <<invitations, held, miscounted>>

\* A check refuses, a statement fails, or the process goes down; a transaction
\* is rolled back.
HandlerDies(h) ==
    /\ handlers[h].at # "idle"
    /\ Finish(h)
    /\ held' = [held EXCEPT ![h] = {}]
    /\ UNCHANGED <<rank, invitations, miscounted>>

MembersNext ==
    \/ \E h \in Handlers, u, v \in Users :
          \/ \E r \in Roles : Invite(h, u, v, r) \/ ChangeRole(h, u, v, r)
          \/ Remove(h, u, v)
    \/ \E h \in Handlers : \/ InviteLookup(h) \/ InviteReplace(h) \/ InviteInsert(h)
                           \/ RevokeInvitation(h)
                           \/ CountOwners(h) \/ WriteMember(h) \/ HandlerDies(h)
    \/ \E h \in Handlers, u \in Users, i \in Invitations : RevokeCheck(h, u, i)
    \/ \E i \in Invitations : Accept(i) \/ Expires(i)

MembersSpec == MembersInit /\ [][MembersNext]_memberVars

-----------------------------------------------------------------------------
\* Ranks, rows and requests keep their shape.
MembersTypeOK ==
    /\ rank \in [Users -> {0} \cup Roles]
    /\ invitations \in [Invitations -> Invitation \cup {Nil}]
    /\ handlers \in [Handlers -> Handler]
    /\ held \in [Handlers -> SUBSET Invitations]
    /\ miscounted \in BOOLEAN

(* "An organization must keep at least one owner" (lines 248-259, 284-291): *)
(* it does through any sequence of invitations, promotions, demotions,      *)
(* removals and departures, unless a request counted the owners while       *)
(* another one, about another member, was between its count and its write.  *)
OwnerKeptUnlessCrossed == Owners # {} \/ miscounted

(* "One live invitation per email per organization" (0004_p1_features.sql,  *)
(* lines 88-92): an address never has two open rows, however the two        *)
(* statements of overlapping invitations (lines 102-117) fall between each  *)
(* other and between accepts, expiry and withdrawals.                       *)
OneOpenInvitation ==
    \A i, j \in Invitations :
        /\ Open(i) /\ Open(j) /\ invitations[i].email = invitations[j].email
        => i = j

Accepted(i) == /\ invitations[i] # Nil /\ invitations[i].status = "pending"
               /\ invitations'[i].status = "accepted"

(* An invitation admits people, it does not change members: whoever holds a *)
(* role when a pending invitation is accepted keeps that role (line 219),   *)
(* although they may have joined through it since it was sent.              *)
AcceptKeepsMembers ==
    [][\A i \in Invitations : Accepted(i) =>
          \A u \in Users : rank[u] # 0 => rank'[u] = rank[u]]_memberVars
=============================================================================
