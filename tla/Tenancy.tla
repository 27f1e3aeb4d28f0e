------------------------------ MODULE Tenancy ------------------------------
(***************************************************************************)
(* Accounts, organisations, members, invitations and projects as the       *)
(* platform keeps them (features/auth, orgs, members, invitations,         *)
(* projects, deps/org.py).  A request has a database session of its own    *)
(* and reads with one statement after the other, each seeing what is       *)
(* committed by then; its writes are one commit at the end.  No lock spans *)
(* them.  All names derive the same slug.                                  *)
(***************************************************************************)
EXTENDS Naturals, FiniteSets, FiniteSetsExt

CONSTANTS
    Users,              \* each with an address of their own
    Requests,           \* requests in flight at once
    Watched,            \* those of the browser, which waits for the answer
    MaxRows,            \* bound: member rows ever inserted
    MaxInvites,         \* bound: invitations ever minted
    MaxOrgs,            \* bound: organisations
    MaxProjects,        \* bound: projects
    None

VARIABLES
    users,              \* User rows
    orgs,               \* Organization rows, numbered in the order of their creation
    members,            \* OrganizationMember rows
    inserted,           \* member rows inserted so far
    invites,            \* Invitation rows
    projects,           \* Project rows, numbered likewise
    req,                \* request -> what it has read and is about to do
    raced               \* organisations one of whose writes relied on what was no longer so

rows == <<users, orgs, members, inserted, invites, projects, raced>>
tenancyVars == <<rows, req>>

Roles == {"member", "admin", "owner"}
Rank == [member |-> 0, admin |-> 1, owner |-> 2]
CanInviteRole(inviter, role) == Rank[inviter] >= Rank[role]

ASSUME NoneAssumption == None \notin Roles

Managers == {"admin", "owner"}
RowsOf(u, o) == {m \in members : m.user = u /\ m.org = o}
SeatsOf(u) == {m.org : m \in {n \in members : n.user = u}}
Owned(u) == {m.org : m \in {n \in members : n.user = u /\ n.role = "owner"}}
Owners(o) == {m \in members : m.org = o /\ m.role = "owner"}
ProjectsOf(o) == {p.id : p \in {q \in projects : q.org = o}}
Pending(i) == ~i.accepted /\ ~i.revoked

Idle == [step |-> "idle"]
Becomes(r, q) == req' = [req EXCEPT ![r] = q]
Answer(r, q) == Becomes(r, IF r \in Watched THEN q ELSE Idle)
Answers(r, got) == Answer(r, [step |-> "ok", got |-> got])
Fails(r) == Answer(r, [step |-> "failed"])
Reads == UNCHANGED rows

\* One user with their organisation, its first project and somebody invited to it.
TenancyInit(creator, invited, role) ==
    /\ users = {creator}
    /\ orgs = {[id |-> 1, slug |-> 1]}
    /\ members = {[id |-> 1, org |-> 1, user |-> creator, role |-> "owner"]} /\ inserted = 1
    /\ invites = {[id |-> 1, org |-> 1, user |-> invited, role |-> role,
                   accepted |-> FALSE, revoked |-> FALSE, expired |-> FALSE]}
    /\ projects = {[id |-> 1, org |-> 1]}
    /\ req = [r \in Requests |-> Idle]
    /\ raced = {}

-----------------------------------------------------------------------------
(* Registration, organisations, projects. *)

\* POST /auth/register: FastAPI Users commits the user, then on_after_register.
AskRegister(r, u) ==
    /\ req[r] = Idle /\ u \notin users
    /\ users' = users \union {u}
    /\ Becomes(r, [step |-> "ensure", do |-> "register", by |-> u])
    /\ UNCHANGED <<orgs, members, inserted, invites, projects, raced>>

\* GET /orgs: a user without any gets their default one now.
AskOrgs(r, u) ==
    /\ req[r] = Idle /\ u \in users
    /\ IF SeatsOf(u) # {} THEN Answers(r, SeatsOf(u)) ELSE Becomes(r, [step |-> "ensure", do |-> "list", by |-> u])
    /\ Reads

\* POST /orgs.
AskNewOrg(r, u) ==
    /\ req[r] = Idle /\ u \in users
    /\ Becomes(r, [step |-> "slug", do |-> "create", by |-> u])
    /\ Reads

\* ensure_personal_default_org: nothing to do if the user owns one.
EnsureOrg(r) ==
    LET q == req[r] IN
    /\ q.step = "ensure"
    /\ IF Owned(q.by) # {} THEN Answers(r, SeatsOf(q.by)) ELSE Becomes(r, [q EXCEPT !.step = "slug"])
    /\ Reads

\* _generate_unique_org_slug.
FreeSlug == Min((1..MaxOrgs + 1) \ {o.slug : o \in orgs})

PickSlug(r) ==
    LET q == req[r] IN
    /\ q.step = "slug"
    /\ Becomes(r, [step |-> "create", do |-> q.do, by |-> q.by, slug |-> FreeSlug])
    /\ Reads

\* create_org: organisation and owner are one commit, which a slug that was
\* taken in between makes fail.
CreateOrg(r) ==
    LET q == req[r]
        id == Cardinality(orgs) + 1 IN
    /\ q.step = "create" /\ id <= MaxOrgs /\ inserted < MaxRows
    /\ IF \E o \in orgs : o.slug = q.slug THEN Fails(r) /\ Reads
       ELSE /\ orgs' = orgs \union {[id |-> id, slug |-> q.slug]}
            /\ members' = members \union {[id |-> inserted + 1, org |-> id, user |-> q.by, role |-> "owner"]}
            /\ inserted' = inserted + 1
            /\ Answers(r, IF q.do = "list" THEN SeatsOf(q.by) \union {id} ELSE id)
            /\ UNCHANGED <<users, invites, projects, raced>>

\* POST /orgs/{org}/projects, by any member.
CreateProject(r, u, o) ==
    LET id == Cardinality(projects) + 1 IN
    /\ req[r] = Idle /\ RowsOf(u, o) # {} /\ id <= MaxProjects
    /\ projects' = projects \union {[id |-> id, org |-> o]}
    /\ Answers(r, id)
    /\ UNCHANGED <<users, orgs, members, inserted, invites, raced>>

-----------------------------------------------------------------------------
(* PATCH and DELETE of a member. *)

\* require_org_admin, require_org_admin_or_self; then the rank of the new role.
AskChange(r, caller, user, role) ==
    /\ req[r] = Idle
    /\ caller.role \in Managers /\ CanInviteRole(caller.role, role)
    /\ Becomes(r, [step |-> "find", caller |-> caller, user |-> user, role |-> role])
    /\ Reads

AskRemove(r, caller, user) ==
    /\ req[r] = Idle
    /\ caller.role \in Managers \/ caller.user = user
    /\ Becomes(r, [step |-> "find", caller |-> caller, user |-> user, role |-> None])
    /\ Reads

\* find_member.  The session already holds the caller's row and keeps what it
\* read of it.
Found(q, row) == IF row.id = q.caller.id THEN q.caller ELSE row

FindMember(r) ==
    LET q == req[r] IN
    /\ q.step = "find"
    /\ \/ RowsOf(q.user, q.caller.org) = {} /\ Fails(r)
       \/ \E row \in RowsOf(q.user, q.caller.org) :
              LET m == Found(q, row)
                  ownerLeaves == m.role = "owner" /\ q.role # "owner" IN
              Becomes(r, [step |-> IF ownerLeaves THEN "count" ELSE "write", row |-> m, role |-> q.role, others |-> FALSE])
    /\ Reads

\* Faulty variant: having one owner is enough.
OneLeft(o) == Cardinality(Owners(o)) < 1

\* _count_owners.
LastOwner(o) == Cardinality(Owners(o)) <= 1

\* LastOwnerError ends the request.
CountOwners(r) ==
    /\ req[r].step = "count"
    /\ IF LastOwner(req[r].row.org) THEN Fails(r) ELSE Becomes(r, [req[r] EXCEPT !.step = "write", !.others = Cardinality(Owners(req[r].row.org)) > 1])
    /\ Reads

\* The row is not what was read, or the other owner that was counted is gone.
Outdated(q) == q.row \notin members \/ (q.others /\ Owners(q.row.org) = {q.row})
Races(q) == raced' = IF Outdated(q) THEN raced \union {q.row.org} ELSE raced

\* A row that is gone by now: deleting it again only warns.
RemoveMember(r) ==
    LET q == req[r] IN
    /\ q.step = "write" /\ q.role = None
    /\ members' = {m \in members : m.id # q.row.id}
    /\ Races(q)
    /\ Answers(r, q.row.org)
    /\ UNCHANGED <<users, orgs, inserted, invites, projects>>

\* A role that did not change is not written, a row that is gone is an error.
ChangeMemberRole(r) ==
    LET q == req[r] IN
    /\ q.step = "write" /\ q.role # None
    /\ members' = {IF m.id = q.row.id /\ q.role # q.row.role THEN [m EXCEPT !.role = q.role] ELSE m : m \in members}
    /\ Races(q)
    /\ Answers(r, q.row.org)
    /\ UNCHANGED <<users, orgs, inserted, invites, projects>>

-----------------------------------------------------------------------------
(* Invitations. *)

\* create_invitation: the pending ones of the address are read to be revoked.
Stale(u, o) == {i.id : i \in {j \in invites : j.user = u /\ j.org = o /\ Pending(j)}}

AskInvite(r, caller, user, role) ==
    /\ req[r] = Idle
    /\ caller.role \in Managers /\ CanInviteRole(caller.role, role)
    /\ Becomes(r, [step |-> "mint", org |-> caller.org, user |-> user, role |-> role, stale |-> Stale(user, caller.org)])
    /\ Reads

CreateInvitation(r) ==
    LET q == req[r] IN
    /\ q.step = "mint" /\ Cardinality(invites) < MaxInvites
    /\ invites' = {IF i.id \in q.stale THEN [i EXCEPT !.revoked = TRUE] ELSE i : i \in invites}
           \union {[id |-> Cardinality(invites) + 1, org |-> q.org, user |-> q.user, role |-> q.role,
                    accepted |-> FALSE, revoked |-> FALSE, expired |-> FALSE]}
    /\ raced' = IF Stale(q.user, q.org) = q.stale THEN raced ELSE raced \union {q.org}
    /\ Answers(r, q.org)
    /\ UNCHANGED <<users, orgs, members, inserted, projects>>

\* find_invitation and the checks of accept_invitation, by the invited user.
AskAccept(r, invite) ==
    /\ req[r] = Idle
    /\ Pending(invite) /\ ~invite.expired
    /\ Becomes(r, [step |-> "seat", invite |-> invite])
    /\ Reads

SeatMember(r) ==
    LET i == req[r].invite IN
    /\ req[r].step = "seat"
    /\ \/ RowsOf(i.user, i.org) = {} /\ Becomes(r, [step |-> "accept", invite |-> i, row |-> None])
       \/ \E row \in RowsOf(i.user, i.org) : Becomes(r, [step |-> "accept", invite |-> i, row |-> row])
    /\ Reads

Consumed(i) == \E j \in invites : j.id = i.id /\ ~Pending(j)
Consume(i) == invites' = {IF j.id = i.id THEN [j EXCEPT !.accepted = TRUE] ELSE j : j \in invites}
InviteRaces(i, changed) == raced' = IF changed \/ Consumed(i) THEN raced \union {i.org} ELSE raced

\* A second row of the user is refused (uq_org_member) with all of the commit.
AcceptAsNew(r) ==
    LET i == req[r].invite IN
    /\ req[r].step = "accept" /\ req[r].row = None /\ inserted < MaxRows
    /\ IF RowsOf(i.user, i.org) # {} THEN Fails(r) /\ Reads
       ELSE /\ members' = members \union {[id |-> inserted + 1, org |-> i.org, user |-> i.user, role |-> i.role]}
            /\ inserted' = inserted + 1
            /\ Consume(i)
            /\ InviteRaces(i, FALSE)
            /\ Answers(r, i.org)
            /\ UNCHANGED <<users, orgs, projects>>

\* The role is upgraded, never downgraded; a row that is gone is an error.
AcceptAsMember(r) ==
    LET q == req[r]
        i == q.invite
        upgrade == Rank[i.role] > Rank[q.row.role] IN
    /\ q.step = "accept" /\ q.row # None
    /\ IF upgrade /\ \A m \in members : m.id # q.row.id THEN Fails(r) /\ Reads
       ELSE /\ members' = {IF m.id = q.row.id /\ upgrade THEN [m EXCEPT !.role = i.role] ELSE m : m \in members}
            /\ Consume(i)
            /\ InviteRaces(i, q.row \notin members)
            /\ Answers(r, i.org)
            /\ UNCHANGED <<users, orgs, inserted, projects>>

\* The invited user declines, or a manager cancels.
AskRevoke(r, user, invite) ==
    /\ req[r] = Idle
    /\ user = invite.user \/ \E m \in RowsOf(user, invite.org) : m.role \in Managers
    /\ Pending(invite)
    /\ Becomes(r, [step |-> "revoke", invite |-> invite])
    /\ Reads

RevokeInvitation(r) ==
    /\ req[r].step = "revoke"
    /\ invites' = {IF i.id = req[r].invite.id THEN [i EXCEPT !.revoked = TRUE] ELSE i : i \in invites}
    /\ InviteRaces(req[r].invite, FALSE)
    /\ Answers(r, req[r].invite.org)
    /\ UNCHANGED <<users, orgs, members, inserted, projects>>

\* A week passes.
Expire(i) ==
    /\ ~i.expired /\ Pending(i)
    /\ invites' = (invites \ {i}) \union {[i EXCEPT !.expired = TRUE]}
    /\ UNCHANGED <<users, orgs, members, inserted, projects, req, raced>>

-----------------------------------------------------------------------------

Serve(r) ==
    \/ EnsureOrg(r) \/ PickSlug(r) \/ CreateOrg(r)
    \/ FindMember(r) \/ CountOwners(r) \/ RemoveMember(r) \/ ChangeMemberRole(r)
    \/ CreateInvitation(r) \/ SeatMember(r) \/ AcceptAsNew(r) \/ AcceptAsMember(r) \/ RevokeInvitation(r)

\* A request that breaks off: the process, the database or the network.
Break(r) ==
    /\ req[r] # Idle /\ req[r].step \notin {"ok", "failed"}
    /\ Fails(r)
    /\ Reads

-----------------------------------------------------------------------------
(* Properties. *)

\* Whatever its members ask for, one after the other, an organisation has an
\* owner ("at least one owner", members/service.py:3) and one address at most one
\* link ("exactly one canonical pending link per address per org",
\* invitations/service.py), and a link seats at most once and not when revoked
\* before.  A write that relied on what another request had changed is excepted.
BooksKept ==
    \A o \in orgs : o.id \in raced \/
        /\ Owners(o.id) # {}
        /\ \A i, j \in invites : Pending(i) /\ Pending(j) /\ i.org = o.id /\ j.org = o.id /\ i.user = j.user => i = j
        /\ \A i \in invites : i.org = o.id => ~(i.accepted /\ i.revoked)
=============================================================================
