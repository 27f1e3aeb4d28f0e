--------------------------- MODULE WorkspaceProofs ---------------------------
(***************************************************************************)
(* Proofs about the accounts of the platform beside a tab of the dashboard *)
(* (Workspace, Tenancy), for any number of users, requests and rows.       *)
(***************************************************************************)
EXTENDS Workspace, FiniteSetTheorems, TLAPS

-----------------------------------------------------------------------------
(* The inductive invariant. *)

MemberRows == [id : Nat, org : Nat, user : Users, role : Roles]
InviteRows == [id : Nat, org : Nat, user : Users, role : Roles,
               accepted : BOOLEAN, revoked : BOOLEAN, expired : BOOLEAN]

\* Rows are numbered, and a number is given once.
Numbered(S, n) ==
    /\ \A x \in S : x.id \in 1..n
    /\ \A x, y \in S : x.id = y.id => x = y

RowsInv ==
    /\ users \subseteq Users
    /\ IsFiniteSet(orgs) /\ \A o \in orgs : o.id \in 1..Cardinality(orgs)
    /\ inserted \in Nat
    /\ IsFiniteSet(members) /\ members \subseteq MemberRows /\ Numbered(members, inserted)
    /\ \A m \in members : m.org \in 1..Cardinality(orgs)
    /\ IsFiniteSet(invites) /\ invites \subseteq InviteRows /\ Numbered(invites, Cardinality(invites))
    /\ \A i \in invites : i.org \in 1..Cardinality(orgs)

\* What a request has read may be gone or changed by now, but its number has
\* not been given to a row of another organisation.
KnownRow(m) ==
    /\ m \in MemberRows /\ m.id \in 1..inserted /\ m.org \in 1..Cardinality(orgs)
    /\ \A n \in members : n.id = m.id => n.org = m.org

KnownInvite(i) ==
    /\ i \in InviteRows /\ i.id \in 1..Cardinality(invites) /\ i.org \in 1..Cardinality(orgs)
    /\ \A j \in invites : j.id = i.id => j.org = i.org

KnownStale(S, o) ==
    /\ S \subseteq 1..Cardinality(invites)
    /\ \A i \in invites : i.id \in S => i.org = o

OwnerLeaves(q) == q.row.role = "owner" /\ q.role # "owner"

RequestSound(q) ==
    /\ q.step \in {"ensure", "slug", "create"} => q.by \in Users
    /\ q.step = "ensure" => q \in [step : {"ensure"}, do : {"register", "list"}, by : Users]
    /\ q.step = "count" => q \in [step : {"count"}, row : MemberRows, role : Roles \union {None}, others : BOOLEAN]
    /\ q.step \in {"find", "count", "write"} => q.role \in Roles \union {None}
    /\ q.step = "find" => KnownRow(q.caller)
    /\ q.step \in {"count", "write"} => KnownRow(q.row)
    /\ q.step = "write" /\ OwnerLeaves(q) => q.others
    /\ q.step = "mint" =>
           q.org \in 1..Cardinality(orgs) /\ q.user \in Users /\ q.role \in Roles /\ KnownStale(q.stale, q.org)
    /\ q.step \in {"seat", "accept", "revoke"} => KnownInvite(q.invite)
    /\ q.step = "accept" /\ q.row # None => KnownRow(q.row) /\ q.row.org = q.invite.org

RequestsInv == DOMAIN req = Requests /\ \A r \in Requests : RequestSound(req[r])

\* BooksKept of one organisation.
Kept(o) ==
    \/ o.id \in raced
    \/ /\ Owners(o.id) # {}
       /\ \A i, j \in invites : Pending(i) /\ Pending(j) /\ i.org = o.id /\ j.org = o.id /\ i.user = j.user => i = j
       /\ \A i \in invites : i.org = o.id => ~(i.accepted /\ i.revoked)

IInv == RowsInv /\ RequestsInv /\ BooksKept

-----------------------------------------------------------------------------
(* Lemmas about sets of rows. *)

\* Rows that are rewritten keep their number, and there are as many.
LEMMA Rewritten ==
    ASSUME NEW S, IsFiniteSet(S), NEW n, Numbered(S, n), NEW f, DOMAIN f = S, \A x \in S : f[x].id = x.id,
           NEW T, \A x \in S : f[x] \in T, \A y \in T : \E x \in S : y = f[x]
    PROVE  IsFiniteSet(T) /\ Cardinality(T) = Cardinality(S) /\ Numbered(T, n)
<1> DEFINE g == [x \in S |-> f[x]]
<1>1. g \in [S -> T] /\ \A x \in S : g[x] = f[x]
  OBVIOUS
<1>2. \A x, y \in S : g[x] = g[y] => x = y
  BY <1>1 DEF Numbered
<1>3. \A y \in T : \E x \in S : g[x] = y
  BY <1>1
<1> HIDE DEF g
<1>4. g \in Bijection(S, T)
  BY <1>1, <1>2, <1>3 DEF Bijection, Injection, Surjection, IsInjective
<1>5. ExistsBijection(S, T)
  BY <1>4 DEF ExistsBijection
<1>6. IsFiniteSet(T) /\ Cardinality(T) = Cardinality(S)
  BY <1>5, FS_Bijection
<1>7. Numbered(T, n)
  BY DEF Numbered
<1> QED BY <1>6, <1>7

LEMMA OneMore ==
    ASSUME NEW S, IsFiniteSet(S), NEW x, x.id = Cardinality(S) + 1, Numbered(S, Cardinality(S))
    PROVE  /\ IsFiniteSet(S \union {x})
           /\ Cardinality(S \union {x}) = Cardinality(S) + 1
           /\ Numbered(S \union {x}, Cardinality(S) + 1)
<1>1. Cardinality(S) \in Nat
  BY FS_CardinalityType
<1>2. x \notin S
  BY <1>1 DEF Numbered
<1>3. IsFiniteSet(S \union {x}) /\ Cardinality(S \union {x}) = Cardinality(S) + 1
  BY <1>2, FS_AddElement
<1>4. Numbered(S \union {x}, Cardinality(S) + 1)
  BY <1>1 DEF Numbered
<1> QED BY <1>3, <1>4

\* What a request has read stays known as rows are added, rewritten and deleted.
LEMMA SoundStays ==
    ASSUME RowsInv, inserted' \in Nat, inserted' >= inserted, IsFiniteSet(orgs'), IsFiniteSet(invites'),
           Cardinality(orgs') >= Cardinality(orgs), Cardinality(invites') >= Cardinality(invites),
           \A m \in members' : m.id > inserted \/ \E n \in members : n.id = m.id /\ n.org = m.org,
           \A i \in invites' : i.id > Cardinality(invites) \/ \E j \in invites : j.id = i.id /\ j.org = i.org,
           NEW q, RequestSound(q)
    PROVE  RequestSound(q)'
<1>1. /\ inserted \in Nat /\ Cardinality(orgs) \in Nat /\ Cardinality(orgs') \in Nat
      /\ Cardinality(invites) \in Nat /\ Cardinality(invites') \in Nat
  BY FS_CardinalityType DEF RowsInv
<1>2. ASSUME NEW m, KnownRow(m) PROVE KnownRow(m)'
  <2>1. m.id \in 1..inserted' /\ m.org \in 1..Cardinality(orgs') /\ m \in MemberRows
    BY <1>1, <1>2 DEF KnownRow
  <2>2. \A n \in members' : n.id = m.id => n.org = m.org
    BY <1>1, <1>2 DEF KnownRow
  <2> QED BY <2>1, <2>2 DEF KnownRow
<1>3. ASSUME NEW i, KnownInvite(i) PROVE KnownInvite(i)'
  <2>1. i.id \in 1..Cardinality(invites') /\ i.org \in 1..Cardinality(orgs') /\ i \in InviteRows
    BY <1>1, <1>3 DEF KnownInvite
  <2>2. \A j \in invites' : j.id = i.id => j.org = i.org
    BY <1>1, <1>3 DEF KnownInvite
  <2> QED BY <2>1, <2>2 DEF KnownInvite
<1>4. ASSUME NEW S, NEW o, KnownStale(S, o) PROVE KnownStale(S, o)'
  <2>1. S \subseteq 1..Cardinality(invites')
    BY <1>1, <1>4 DEF KnownStale
  <2>2. \A i \in invites' : i.id \in S => i.org = o
    <3> SUFFICES ASSUME NEW i \in invites', i.id \in S PROVE i.org = o
      OBVIOUS
    <3>1. ~(i.id > Cardinality(invites))
      <4>1. i.id \in 1..Cardinality(invites)
        BY <1>4 DEF KnownStale
      <4> QED BY <1>1, <4>1
    <3>2. PICK j \in invites : j.id = i.id /\ j.org = i.org
      BY <3>1
    <3> QED BY <1>4, <3>2 DEF KnownStale
  <2> QED BY <2>1, <2>2 DEF KnownStale
<1>5. \A o : o \in 1..Cardinality(orgs) => o \in 1..Cardinality(orgs')
  BY <1>1
<1> HIDE DEF KnownRow, KnownInvite, KnownStale
<1> QED BY <1>2, <1>3, <1>4, <1>5 DEF RequestSound, OwnerLeaves

-----------------------------------------------------------------------------
(* What the writes leave of the rows. *)

RowsStay ==
    /\ inserted' \in Nat /\ inserted' >= inserted /\ IsFiniteSet(orgs') /\ IsFiniteSet(invites')
    /\ Cardinality(orgs') >= Cardinality(orgs) /\ Cardinality(invites') >= Cardinality(invites)
    /\ \A m \in members' : m.id > inserted \/ \E n \in members : n.id = m.id /\ n.org = m.org
    /\ \A i \in invites' : i.id > Cardinality(invites) \/ \E j \in invites : j.id = i.id /\ j.org = i.org

\* A request that goes on with what is known, while the rows stay.
LEMMA GoesOn ==
    ASSUME RowsInv, RequestsInv, RowsStay, NEW r \in Requests, NEW q, Becomes(r, q), RequestSound(q)
    PROVE  RequestsInv'
<1>1. DOMAIN req' = Requests /\ \A s \in Requests : req'[s] = IF s = r THEN q ELSE req[s]
  BY DEF RequestsInv, Becomes
<1>2. \A s \in Requests : RequestSound(req'[s])
  BY <1>1 DEF RequestsInv
<1>3. ASSUME NEW s \in Requests PROVE RequestSound(req[s])'
  <2>1. PICK p : p = req'[s] /\ RequestSound(p)
    BY <1>2
  <2>2. RequestSound(p)'
    BY <2>1, SoundStays DEF RowsStay
  <2> QED BY <2>1, <2>2
<1> QED BY <1>1, <1>3 DEF RequestsInv

LEMMA SettledIsSound ==
    ASSUME NEW q, q.step \in {"ok", "failed", "idle"}
    PROVE  RequestSound(q)
  BY DEF RequestSound

LEMMA AnswerGoesOn ==
    ASSUME RowsInv, RequestsInv, RowsStay, NEW r \in Requests, NEW q, q.step \in {"ok", "failed"}, Answer(r, q)
    PROVE  RequestsInv'
<1>1. RequestSound(IF r \in Watched THEN q ELSE Idle)
  BY SettledIsSound DEF Idle
<1> QED BY <1>1, GoesOn DEF Answer

LEMMA Untouched ==
    ASSUME RowsInv, UNCHANGED <<orgs, members, inserted, invites>>
    PROVE  RowsStay
  BY FS_CardinalityType DEF RowsStay, RowsInv

LEMMA SameRows ==
    ASSUME RowsInv, BooksKept, UNCHANGED <<users, orgs, members, inserted, invites, raced>>
    PROVE  RowsInv' /\ BooksKept' /\ RowsStay
<1>1. RowsInv' /\ BooksKept'
  BY DEF RowsInv, BooksKept, Owners, Pending, Numbered
<1>2. RowsStay
  BY Untouched
<1> QED BY <1>1, <1>2

LEMMA ReadStep ==
    ASSUME IInv, NEW r \in Requests, Reads, NEW q, Becomes(r, q), RequestSound(q)
    PROVE  IInv'
  BY SameRows, GoesOn DEF IInv, Reads, rows

LEMMA ReadAnswered ==
    ASSUME IInv, NEW r \in Requests, Reads, NEW q, q.step \in {"ok", "failed"}, Answer(r, q)
    PROVE  IInv'
  BY SameRows, AnswerGoesOn DEF IInv, Reads, rows

Rewrite(m, row, role, written) == IF m.id = row.id /\ written THEN [m EXCEPT !.role = role] ELSE m

\* A role is rewritten: every organisation keeps its owner, unless the row is
\* that of an owner who had no other.
LEMMA RoleRewritten ==
    ASSUME RowsInv, NEW row, KnownRow(row), NEW role \in Roles, NEW written \in BOOLEAN,
           \A m \in members : Rewrite(m, row, role, written) \in members',
           \A n \in members' : \E m \in members : n = Rewrite(m, row, role, written),
           orgs' = orgs, inserted' = inserted
    PROVE  /\ IsFiniteSet(members') /\ members' \subseteq MemberRows /\ Numbered(members', inserted')
           /\ \A m \in members' : m.org \in 1..Cardinality(orgs')
           /\ \A m \in members' : \E n \in members : n.id = m.id /\ n.org = m.org
           /\ \A o : /\ Owners(o) # {}
                     /\ o = row.org /\ written /\ role # "owner" =>
                            row \in members /\ (row.role = "owner" => Owners(o) # {row})
                     => Owners(o)' # {}
<1> DEFINE f == [m \in members |-> Rewrite(m, row, role, written)]
<1>1. \A m \in members : /\ f[m] \in MemberRows /\ f[m].id = m.id /\ f[m].org = m.org
                         /\ f[m].role = IF m.id = row.id /\ written THEN role ELSE m.role
  BY DEF RowsInv, MemberRows, Rewrite
<1>2. /\ DOMAIN f = members
      /\ \A m \in members : f[m] \in members'
      /\ \A n \in members' : \E m \in members : n = f[m]
  OBVIOUS
<1> HIDE DEF f
<1>3. IsFiniteSet(members') /\ Numbered(members', inserted')
  <2>1. IsFiniteSet(members) /\ Numbered(members, inserted) /\ \A m \in members : f[m].id = m.id
    BY <1>1 DEF RowsInv
  <2> QED BY <1>2, <2>1, Rewritten
<1>4. members' \subseteq MemberRows
  BY <1>1, <1>2
<1>5. \A m \in members' : \E n \in members : n.id = m.id /\ n.org = m.org
  BY <1>1, <1>2
<1>6. \A m \in members' : m.org \in 1..Cardinality(orgs')
  BY <1>5 DEF RowsInv
<1>7. ASSUME NEW o, Owners(o) # {},
             o = row.org /\ written /\ role # "owner" =>
                 row \in members /\ (row.role = "owner" => Owners(o) # {row})
      PROVE  Owners(o)' # {}
  <2>1. PICK m \in members : m.org = o /\ m.role = "owner" /\
                             (o = row.org /\ written /\ role # "owner" => m.id # row.id)
    <3>1. CASE o = row.org /\ written /\ role # "owner"
      <4>1. row \in members
        BY <1>7, <3>1
      <4>2. PICK m \in Owners(o) : m # row
        <5>1. CASE row.role = "owner"
          BY <1>7, <3>1, <4>1, <5>1 DEF Owners
        <5>2. CASE row.role # "owner"
          BY <1>7, <5>2 DEF Owners
        <5> QED BY <5>1, <5>2
      <4>3. m.id # row.id
        BY <4>1, <4>2 DEF Owners, RowsInv, Numbered
      <4> QED BY <4>2, <4>3 DEF Owners
    <3>2. CASE ~(o = row.org /\ written /\ role # "owner")
      BY <1>7, <3>2 DEF Owners
    <3> QED BY <3>1, <3>2
  <2>2. f[m] \in members' /\ f[m].org = o
    BY <1>1, <1>2, <2>1
  <2>3. f[m].role = "owner"
    <3>1. CASE m.id = row.id /\ written
      <4>1. m.org = row.org
        BY <3>1 DEF KnownRow
      <4> QED BY <1>1, <2>1, <3>1, <4>1
    <3>2. CASE ~(m.id = row.id /\ written)
      BY <1>1, <2>1, <3>2
    <3> QED BY <3>1, <3>2
  <2> QED BY <2>2, <2>3 DEF Owners
<1> QED BY <1>3, <1>4, <1>5, <1>6, <1>7

\* Links that are rewritten keep their organisation and address.
LEMMA LinksRewritten ==
    ASSUME RowsInv, NEW f, DOMAIN f = invites,
           \A i \in invites : f[i] \in invites', \A j \in invites' : \E i \in invites : j = f[i],
           \A i \in invites : /\ f[i] \in InviteRows /\ f[i].id = i.id /\ f[i].org = i.org /\ f[i].user = i.user,
           orgs' = orgs
    PROVE  /\ IsFiniteSet(invites') /\ Cardinality(invites') = Cardinality(invites)
           /\ invites' \subseteq InviteRows /\ Numbered(invites', Cardinality(invites'))
           /\ \A i \in invites' : i.org \in 1..Cardinality(orgs')
           /\ \A i \in invites' : \E j \in invites : i = f[j] /\ j.id = i.id /\ j.org = i.org
<1>1. IsFiniteSet(invites') /\ Cardinality(invites') = Cardinality(invites) /\ Numbered(invites', Cardinality(invites'))
  <2>1. IsFiniteSet(invites) /\ Numbered(invites, Cardinality(invites))
    BY DEF RowsInv
  <2>2. \A i \in invites : f[i].id = i.id
    OBVIOUS
  <2>3. IsFiniteSet(invites') /\ Cardinality(invites') = Cardinality(invites) /\ Numbered(invites', Cardinality(invites))
    BY <2>1, <2>2, Rewritten
  <2> QED BY <2>3
<1>2. invites' \subseteq InviteRows
  OBVIOUS
<1>3. \A i \in invites' : \E j \in invites : i = f[j] /\ j.id = i.id /\ j.org = i.org
  OBVIOUS
<1>4. \A i \in invites' : i.org \in 1..Cardinality(orgs')
  BY <1>3 DEF RowsInv
<1> QED BY <1>1, <1>2, <1>3, <1>4

-----------------------------------------------------------------------------
(* Registration, organisations, projects. *)

LEMMA Registers ==
    ASSUME IInv, NEW r \in Requests, NEW u \in Users, AskRegister(r, u)
    PROVE  IInv'
<1>1. RowsInv' /\ BooksKept' /\ RowsStay
  <2>1. RowsStay
    BY Untouched DEF AskRegister, IInv
  <2>2. RowsInv'
    BY DEF AskRegister, IInv, RowsInv, Numbered
  <2>3. BooksKept'
    BY DEF AskRegister, IInv, BooksKept, Owners, Pending
  <2> QED BY <2>1, <2>2, <2>3
<1>2. RequestSound([step |-> "ensure", do |-> "register", by |-> u])
  BY DEF RequestSound
<1> QED BY <1>1, <1>2, GoesOn DEF AskRegister, IInv

LEMMA Asks ==
    ASSUME IInv, NEW r \in Requests, NEW u \in Users
    PROVE  /\ AskOrgs(r, u) => IInv'
           /\ AskNewOrg(r, u) => IInv'
<1>1. /\ RequestSound([step |-> "ensure", do |-> "list", by |-> u])
      /\ RequestSound([step |-> "slug", do |-> "create", by |-> u])
  BY DEF RequestSound
<1>2. ASSUME AskOrgs(r, u) PROVE IInv'
  <2>1. CASE SeatsOf(u) # {}
    BY <1>2, <2>1, ReadAnswered DEF AskOrgs, Answers
  <2>2. CASE SeatsOf(u) = {}
    BY <1>1, <1>2, <2>2, ReadStep DEF AskOrgs
  <2> QED BY <2>1, <2>2
<1>3. ASSUME AskNewOrg(r, u) PROVE IInv'
  BY <1>1, <1>3, ReadStep DEF AskNewOrg
<1> QED BY <1>2, <1>3

LEMMA Prepares ==
    ASSUME IInv, NEW r \in Requests, EnsureOrg(r) \/ PickSlug(r)
    PROVE  IInv'
<1>1. PICK q : q = req[r] /\ RequestSound(q)
  BY DEF IInv, RequestsInv
<1>2. CASE EnsureOrg(r)
  <2>1. q \in [step : {"ensure"}, do : {"register", "list"}, by : Users]
    BY <1>1, <1>2 DEF EnsureOrg, RequestSound
  <2>2. CASE Owned(q.by) # {}
    BY <1>1, <1>2, <2>2, ReadAnswered DEF EnsureOrg, Answers
  <2>3. CASE Owned(q.by) = {}
    <3>1. Becomes(r, [q EXCEPT !.step = "slug"]) /\ Reads
      BY <1>1, <1>2, <2>3 DEF EnsureOrg
    <3>2. RequestSound([q EXCEPT !.step = "slug"])
      <4>1. [q EXCEPT !.step = "slug"].step = "slug" /\ [q EXCEPT !.step = "slug"].by = q.by
        BY <1>1, <1>2 DEF EnsureOrg
      <4> QED BY <2>1, <4>1 DEF RequestSound
    <3> QED BY <3>1, <3>2, ReadStep
  <2> QED BY <2>2, <2>3
<1>3. CASE PickSlug(r)
  <2>1. RequestSound([step |-> "create", do |-> q.do, by |-> q.by, slug |-> FreeSlug])
    BY <1>1, <1>3 DEF PickSlug, RequestSound
  <2> QED BY <1>1, <1>3, <2>1, ReadStep DEF PickSlug
<1> QED BY <1>2, <1>3

\* A new organisation has its owner, and no link yet.
LEMMA Creates ==
    ASSUME IInv, NEW r \in Requests, CreateOrg(r)
    PROVE  IInv'
<1> DEFINE q == req[r]
           id == Cardinality(orgs) + 1
           org == [id |-> id, slug |-> q.slug]
           owner == [id |-> inserted + 1, org |-> id, user |-> q.by, role |-> "owner"]
<1>1. CASE \E o \in orgs : o.slug = q.slug
  BY <1>1, ReadAnswered DEF CreateOrg, Fails
<1>2. CASE ~(\E o \in orgs : o.slug = q.slug)
  <2>1. /\ orgs' = orgs \union {org} /\ members' = members \union {owner} /\ inserted' = inserted + 1
        /\ UNCHANGED <<users, invites, raced>>
        /\ \E got : Answers(r, got)
        /\ q.by \in Users
    BY <1>2 DEF CreateOrg, IInv, RequestsInv, RequestSound
  <2>2. /\ Cardinality(orgs) \in Nat /\ Cardinality(invites) \in Nat /\ inserted \in Nat
        /\ IsFiniteSet(orgs) /\ IsFiniteSet(members) /\ IsFiniteSet(invites)
        /\ \A o \in orgs : o.id \in 1..Cardinality(orgs)
    BY FS_CardinalityType DEF IInv, RowsInv
  <2>3. IsFiniteSet(orgs') /\ Cardinality(orgs') = id /\ org \notin orgs
    <3>1. org \notin orgs
      BY <2>2
    <3> QED BY <2>1, <2>2, <3>1, FS_AddElement
  <2>4. IsFiniteSet(members')
    BY <2>1, <2>2, FS_AddElement
  <2>5. members' \subseteq MemberRows /\ Numbered(members', inserted')
    <3>1. owner \in MemberRows
      BY <2>1, <2>2 DEF MemberRows, Roles
    <3>2. members \subseteq MemberRows /\ Numbered(members, inserted)
      BY DEF IInv, RowsInv
    <3>3. Numbered(members', inserted')
      BY <2>1, <2>2, <3>2 DEF Numbered
    <3> QED BY <2>1, <3>1, <3>2, <3>3
  <2>6. \A m \in members' : m.org \in 1..Cardinality(orgs')
    BY <2>1, <2>2, <2>3 DEF IInv, RowsInv
  <2>7. RowsInv'
    <3>1. \A o \in orgs' : o.id \in 1..Cardinality(orgs')
      BY <2>1, <2>2, <2>3
    <3>2. \A i \in invites' : i.org \in 1..Cardinality(orgs')
      BY <2>1, <2>2, <2>3 DEF IInv, RowsInv
    <3>3. users' \subseteq Users /\ inserted' \in Nat /\ IsFiniteSet(invites') /\ invites' \subseteq InviteRows
          /\ Numbered(invites', Cardinality(invites'))
      BY <2>1, <2>2 DEF IInv, RowsInv
    <3> QED BY <2>3, <2>4, <2>5, <2>6, <3>1, <3>2, <3>3 DEF RowsInv
  <2>8. RowsStay
    BY <2>1, <2>2, <2>3 DEF RowsStay
  <2>9. BooksKept'
    <3> SUFFICES ASSUME NEW o \in orgs' PROVE Kept(o)'
      BY DEF BooksKept, Kept
    <3>1. CASE o = org
      <4>1. owner \in Owners(o.id)'
        BY <2>1, <3>1 DEF Owners
      <4>2. \A i \in invites' : i.org # o.id
        BY <2>1, <2>2, <3>1 DEF IInv, RowsInv
      <4> QED BY <4>1, <4>2 DEF Kept
    <3>2. CASE o \in orgs
      <4>1. Kept(o)
        BY <3>2 DEF IInv, BooksKept, Kept
      <4>2. Owners(o.id) \subseteq Owners(o.id)'
        BY <2>1 DEF Owners
      <4> QED BY <2>1, <4>1, <4>2 DEF Kept, Pending
    <3> QED BY <2>1, <3>1, <3>2
  <2> QED BY <2>1, <2>7, <2>8, <2>9, AnswerGoesOn DEF IInv, Answers
<1> QED BY <1>1, <1>2

LEMMA CreatesProject ==
    ASSUME IInv, NEW r \in Requests, NEW u, NEW o, CreateProject(r, u, o)
    PROVE  IInv'
  BY SameRows, AnswerGoesOn DEF CreateProject, IInv, Answers

-----------------------------------------------------------------------------
(* Members. *)

LEMMA AsksForMember ==
    ASSUME IInv, NEW r \in Requests, NEW caller \in members, NEW user
    PROVE  /\ \A role \in Roles : AskChange(r, caller, user, role) => IInv'
           /\ AskRemove(r, caller, user) => IInv'
<1>1. KnownRow(caller)
  BY DEF KnownRow, IInv, RowsInv, Numbered
<1>2. \A role \in Roles \union {None} :
          RequestSound([step |-> "find", caller |-> caller, user |-> user, role |-> role])
  BY <1>1 DEF RequestSound
<1>3. ASSUME NEW role \in Roles, AskChange(r, caller, user, role) PROVE IInv'
  BY <1>2, <1>3, ReadStep DEF AskChange
<1>4. ASSUME AskRemove(r, caller, user) PROVE IInv'
  BY <1>2, <1>4, ReadStep DEF AskRemove
<1> QED BY <1>3, <1>4

LEMMA FindsMember ==
    ASSUME IInv, NEW r \in Requests, FindMember(r)
    PROVE  IInv'
<1>1. PICK q : q = req[r] /\ RequestSound(q)
  BY DEF IInv, RequestsInv
<1>2. q.step = "find" /\ KnownRow(q.caller) /\ q.role \in Roles \union {None}
  BY <1>1 DEF FindMember, RequestSound
<1>3. CASE RowsOf(q.user, q.caller.org) = {} /\ Fails(r)
  BY <1>3, ReadAnswered DEF FindMember, Fails
<1>4. ASSUME NEW row \in RowsOf(q.user, q.caller.org),
             LET m == Found(q, row)
                 ownerLeaves == m.role = "owner" /\ q.role # "owner" IN
             Becomes(r, [step |-> IF ownerLeaves THEN "count" ELSE "write", row |-> m, role |-> q.role, others |-> FALSE])
      PROVE  IInv'
  <2> DEFINE m == Found(q, row)
             p == [step |-> IF m.role = "owner" /\ q.role # "owner" THEN "count" ELSE "write",
                   row |-> m, role |-> q.role, others |-> FALSE]
  <2>1. KnownRow(m)
    <3>1. KnownRow(row)
      BY DEF KnownRow, IInv, RowsInv, Numbered, RowsOf
    <3> QED BY <1>2, <3>1 DEF Found
  <2>2. RequestSound(p)
    <3>1. CASE m.role = "owner" /\ q.role # "owner"
      <4>1. p \in [step : {"count"}, row : MemberRows, role : Roles \union {None}, others : BOOLEAN]
        BY <1>2, <2>1, <3>1 DEF KnownRow
      <4>2. p.step = "count" /\ p.row = m /\ p.role = q.role
        BY <3>1
      <4> HIDE DEF p, m
      <4> QED BY <1>2, <2>1, <4>1, <4>2 DEF RequestSound
    <3>2. CASE ~(m.role = "owner" /\ q.role # "owner")
      <4>1. p.step = "write" /\ p.row = m /\ p.role = q.role
        BY <3>2
      <4> HIDE DEF p, m
      <4> QED BY <1>2, <2>1, <3>2, <4>1 DEF RequestSound, OwnerLeaves
    <3> QED BY <3>1, <3>2
  <2> QED BY <1>4, <2>2, ReadStep DEF FindMember
<1> QED BY <1>1, <1>3, <1>4 DEF FindMember

LEMMA CountsOwners ==
    ASSUME IInv, NEW r \in Requests, CountOwners(r)
    PROVE  IInv'
<1>1. PICK q : q = req[r] /\ RequestSound(q)
  BY DEF IInv, RequestsInv
<1>2. q.step = "count" /\ KnownRow(q.row) /\ q.role \in Roles \union {None}
  BY <1>1 DEF CountOwners, RequestSound
<1>3. CASE LastOwner(q.row.org)
  BY <1>1, <1>3, ReadAnswered DEF CountOwners, Fails
<1>4. CASE ~LastOwner(q.row.org)
  <2> DEFINE n == Cardinality(Owners(q.row.org))
             p == [q EXCEPT !.step = "write", !.others = n > 1]
  <2>1. Becomes(r, p) /\ Reads
    BY <1>1, <1>4 DEF CountOwners
  <2>2. n > 1
    <3>1. IsFiniteSet(Owners(q.row.org))
      BY FS_Subset DEF IInv, RowsInv, Owners
    <3> QED BY <1>4, <3>1, FS_CardinalityType DEF LastOwner
  <2>3. p = [q EXCEPT !.step = "write", !.others = TRUE]
    <3>1. (n > 1) = TRUE
      BY <2>2
    <3> QED BY <3>1
  <2>4. q \in [step : {"count"}, row : MemberRows, role : Roles \union {None}, others : BOOLEAN]
    BY <1>1, <1>2 DEF RequestSound
  <2>5. p.step = "write" /\ p.others = TRUE /\ p.row = q.row /\ p.role = q.role
    BY <2>3, <2>4
  <2> HIDE DEF p
  <2>6. RequestSound(p)
    BY <1>2, <2>5 DEF RequestSound
  <2> QED BY <2>1, <2>6, ReadStep
<1> QED BY <1>3, <1>4

\* A role is rewritten or an owner deleted only while another one is left, or the
\* organisation is marked: what was read is no longer so.
LEMMA Removes ==
    ASSUME IInv, NEW r \in Requests, RemoveMember(r)
    PROVE  IInv'
<1>1. PICK q : q = req[r] /\ RequestSound(q)
  BY DEF IInv, RequestsInv
<1>2. q.step = "write" /\ q.role = None /\ KnownRow(q.row) /\ (q.row.role = "owner" => q.others)
  BY <1>1, NoneAssumption DEF RemoveMember, RequestSound, OwnerLeaves, Roles
<1>3. /\ members' = {m \in members : m.id # q.row.id}
      /\ Races(q) /\ Answers(r, q.row.org)
      /\ UNCHANGED <<users, orgs, inserted, invites, projects>>
  BY <1>1 DEF RemoveMember
<1>4. RowsStay
  BY <1>3, FS_CardinalityType DEF RowsStay, IInv, RowsInv
<1>5. RowsInv'
  <2>1. IsFiniteSet(members')
    BY <1>3, FS_Subset DEF IInv, RowsInv
  <2> QED BY <1>3, <2>1 DEF IInv, RowsInv, Numbered
<1>6. BooksKept'
  <2> SUFFICES ASSUME NEW o \in orgs, o.id \notin raced' PROVE Kept(o)'
    BY <1>3 DEF BooksKept, Kept
  <2>1. Kept(o) /\ o.id \notin raced
    BY <1>3 DEF IInv, BooksKept, Kept, Races
  <2>2. Owners(o.id)' # {}
    <3>1. CASE q.row.org = o.id
      <4>1. q.row \in members /\ (q.row.role = "owner" => Owners(o.id) # {q.row})
        BY <1>2, <1>3, <3>1 DEF Races, Outdated
      <4>2. PICK m \in Owners(o.id) : m # q.row
        <5>1. CASE q.row.role = "owner"
          BY <2>1, <3>1, <4>1, <5>1 DEF Kept
        <5>2. CASE q.row.role # "owner"
          BY <2>1, <5>2 DEF Kept, Owners
        <5> QED BY <5>1, <5>2
      <4>3. m.id # q.row.id
        BY <4>1, <4>2 DEF Owners, IInv, RowsInv, Numbered
      <4> QED BY <1>3, <4>2, <4>3 DEF Owners
    <3>2. CASE q.row.org # o.id
      <4>1. PICK m \in Owners(o.id) : TRUE
        BY <2>1 DEF Kept
      <4>2. m.id # q.row.id
        BY <1>2, <3>2, <4>1 DEF KnownRow, Owners
      <4> QED BY <1>3, <4>1, <4>2 DEF Owners
    <3> QED BY <3>1, <3>2
  <2> QED BY <1>3, <2>1, <2>2 DEF Kept, Pending
<1> QED BY <1>3, <1>4, <1>5, <1>6, AnswerGoesOn DEF IInv, Answers

LEMMA Changes ==
    ASSUME IInv, NEW r \in Requests, ChangeMemberRole(r)
    PROVE  IInv'
<1>1. PICK q : q = req[r] /\ RequestSound(q)
  BY DEF IInv, RequestsInv
<1>2. q.step = "write" /\ q.role \in Roles /\ KnownRow(q.row) /\ (OwnerLeaves(q) => q.others)
  BY <1>1 DEF ChangeMemberRole, RequestSound
<1>4. PICK row \in MemberRows, role \in Roles, written \in BOOLEAN :
          row = q.row /\ role = q.role /\ written = (q.role # q.row.role)
  BY <1>2 DEF KnownRow
<1>3. /\ members' = {IF m.id = row.id /\ written THEN [m EXCEPT !.role = role] ELSE m : m \in members}
      /\ Races(q) /\ Answers(r, q.row.org)
      /\ UNCHANGED <<users, orgs, inserted, invites, projects>>
  BY <1>1, <1>4 DEF ChangeMemberRole
<1>5. /\ IsFiniteSet(members') /\ members' \subseteq MemberRows /\ Numbered(members', inserted')
      /\ \A m \in members' : m.org \in 1..Cardinality(orgs')
      /\ \A m \in members' : \E n \in members : n.id = m.id /\ n.org = m.org
      /\ \A o : /\ Owners(o) # {}
                /\ o = row.org /\ written /\ role # "owner" =>
                       row \in members /\ (row.role = "owner" => Owners(o) # {row})
                => Owners(o)' # {}
  <2>1. KnownRow(row) /\ RowsInv
    BY <1>2, <1>4 DEF IInv
  <2>2. /\ \A m \in members : Rewrite(m, row, role, written) \in members'
        /\ \A n \in members' : \E m \in members : n = Rewrite(m, row, role, written)
    BY <1>3 DEF Rewrite
  <2>3. orgs' = orgs /\ inserted' = inserted
    BY <1>3
  <2> QED BY <2>1, <2>2, <2>3, RoleRewritten
<1>6. RowsStay
  BY <1>3, <1>5, FS_CardinalityType DEF RowsStay, IInv, RowsInv
<1>7. RowsInv'
  BY <1>3, <1>5 DEF IInv, RowsInv
<1>8. BooksKept'
  <2> SUFFICES ASSUME NEW o \in orgs, o.id \notin raced' PROVE Kept(o)'
    BY <1>3 DEF BooksKept, Kept
  <2>1. Kept(o) /\ o.id \notin raced
    BY <1>3 DEF IInv, BooksKept, Kept, Races
  <2>2. o.id = q.row.org /\ q.role # "owner" =>
            q.row \in members /\ (q.row.role = "owner" => Owners(o.id) # {q.row})
    BY <1>2, <1>3 DEF Races, Outdated, OwnerLeaves
  <2>3. Owners(o.id)' # {}
    BY <1>4, <1>5, <2>1, <2>2 DEF Kept
  <2> QED BY <1>3, <2>1, <2>3 DEF Kept, Pending
<1> QED BY <1>3, <1>6, <1>7, <1>8, AnswerGoesOn DEF IInv, Answers

-----------------------------------------------------------------------------
(* Invitations. *)

Linked(o) ==
    /\ \A i, j \in invites : Pending(i) /\ Pending(j) /\ i.org = o /\ j.org = o /\ i.user = j.user => i = j
    /\ \A i \in invites : i.org = o => ~(i.accepted /\ i.revoked)

\* Links that are rewritten, and never become pending again: an address has at
\* most one pending link as before.
LEMMA LinksStay ==
    ASSUME RowsInv, NEW f, DOMAIN f = invites,
           \A i \in invites : f[i] \in invites', \A j \in invites' : \E i \in invites : j = f[i],
           \A i \in invites : /\ f[i] \in InviteRows /\ f[i].id = i.id /\ f[i].org = i.org /\ f[i].user = i.user
                              /\ Pending(f[i]) => Pending(i),
           NEW o, Linked(o), \A i \in invites : i.org = o => ~(f[i].accepted /\ f[i].revoked)
    PROVE  Linked(o)'
<1>1. ASSUME NEW i \in invites'
      PROVE  \E j \in invites : i = f[j] /\ j.org = i.org /\ j.user = i.user /\ (Pending(i) => Pending(j))
  <2>1. PICK j \in invites : i = f[j]
    OBVIOUS
  <2>2. j.org = i.org /\ j.user = i.user /\ (Pending(i) => Pending(j))
    BY <2>1
  <2> QED BY <2>1, <2>2
<1>2. \A i \in invites' : i.org = o => ~(i.accepted /\ i.revoked)
  BY <1>1
<1>3. ASSUME NEW i \in invites', NEW j \in invites', Pending(i), Pending(j), i.org = o, j.org = o, i.user = j.user
      PROVE  i = j
  <2>1. PICK k \in invites : i = f[k] /\ k.org = i.org /\ k.user = i.user /\ (Pending(i) => Pending(k))
    BY <1>1
  <2>2. PICK l \in invites : j = f[l] /\ l.org = j.org /\ l.user = j.user /\ (Pending(j) => Pending(l))
    BY <1>1
  <2>3. k = l
    BY <1>3, <2>1, <2>2 DEF Linked
  <2> QED BY <2>1, <2>2, <2>3
<1> QED BY <1>2, <1>3 DEF Linked, Pending

LEMMA RevokesLink ==
    ASSUME IInv, NEW r \in Requests, RevokeInvitation(r)
    PROVE  IInv'
<1>1. PICK q : q = req[r] /\ RequestSound(q)
  BY DEF IInv, RequestsInv
<1>2. PICK inv : inv = q.invite /\ KnownInvite(inv)
  BY <1>1 DEF RevokeInvitation, RequestSound
<1> DEFINE f == [i \in invites |-> IF i.id = inv.id THEN [i EXCEPT !.revoked = TRUE] ELSE i]
<1>3. /\ DOMAIN f = invites
      /\ \A i \in invites : f[i] \in invites'
      /\ \A j \in invites' : \E i \in invites : j = f[i]
      /\ \A i \in invites : f[i] = IF i.id = inv.id THEN [i EXCEPT !.revoked = TRUE] ELSE i
      /\ InviteRaces(inv, FALSE) /\ Answers(r, inv.org)
      /\ UNCHANGED <<users, orgs, members, inserted, projects>>
  BY <1>1, <1>2 DEF RevokeInvitation
<1> HIDE DEF f
<1>4. ASSUME NEW i \in invites
      PROVE  /\ f[i] \in InviteRows /\ f[i].id = i.id /\ f[i].org = i.org /\ f[i].user = i.user
             /\ Pending(f[i]) => Pending(i)
             /\ f[i].accepted = i.accepted
             /\ f[i].revoked => i.id = inv.id \/ i.revoked
  <2>1. i \in InviteRows
    BY DEF IInv, RowsInv
  <2>2. CASE i.id = inv.id
    <3>1. f[i] = [i EXCEPT !.revoked = TRUE]
      BY <1>3, <2>2
    <3> QED BY <2>1, <2>2, <3>1 DEF InviteRows, Pending
  <2>3. CASE i.id # inv.id
    <3>1. f[i] = i
      BY <1>3, <2>3
    <3> QED BY <2>1, <3>1
  <2> QED BY <2>2, <2>3
<1>5. orgs' = orgs
  BY <1>3
<1>6. /\ IsFiniteSet(invites') /\ Cardinality(invites') = Cardinality(invites)
      /\ invites' \subseteq InviteRows /\ Numbered(invites', Cardinality(invites'))
      /\ \A i \in invites' : i.org \in 1..Cardinality(orgs')
      /\ \A i \in invites' : \E j \in invites : i = f[j] /\ j.id = i.id /\ j.org = i.org
  BY <1>3, <1>4, <1>5, LinksRewritten DEF IInv
<1>7. RowsStay
  BY <1>3, <1>6, FS_CardinalityType DEF RowsStay, IInv, RowsInv
<1>8. RowsInv'
  BY <1>3, <1>6 DEF IInv, RowsInv
<1>9. BooksKept'
  <2> SUFFICES ASSUME NEW o \in orgs, o.id \notin raced' PROVE Kept(o)'
    BY <1>3 DEF BooksKept, Kept
  <2>1. Kept(o) /\ o.id \notin raced /\ (o.id = inv.org => ~Consumed(inv))
    BY <1>3 DEF IInv, BooksKept, Kept, InviteRaces
  <2>2. \A i \in invites : i.org = o.id => ~(f[i].accepted /\ f[i].revoked)
    BY <1>2, <1>4, <2>1 DEF Kept, KnownInvite, Consumed, Pending
  <2>3. Linked(o.id)
    BY <2>1 DEF Kept, Linked
  <2>4. Linked(o.id)'
    BY <1>3, <1>4, <2>2, <2>3, LinksStay DEF IInv
  <2>5. Owners(o.id)' # {}
    BY <1>3, <2>1 DEF Kept, Owners
  <2> QED BY <2>4, <2>5 DEF Kept, Linked
<1> QED BY <1>3, <1>7, <1>8, <1>9, AnswerGoesOn DEF IInv, Answers

\* A link that is consumed is pending no more, and had not been revoked, or its
\* organisation is marked.
LEMMA Consumes ==
    ASSUME IInv, NEW inv, KnownInvite(inv), Consume(inv), orgs' = orgs
    PROVE  /\ IsFiniteSet(invites') /\ Cardinality(invites') = Cardinality(invites)
           /\ invites' \subseteq InviteRows /\ Numbered(invites', Cardinality(invites'))
           /\ \A i \in invites' : i.org \in 1..Cardinality(orgs')
           /\ \A i \in invites' : \E j \in invites : j.id = i.id /\ j.org = i.org
           /\ \A o : Linked(o) /\ (o = inv.org => ~Consumed(inv)) => Linked(o)'
<1> DEFINE f == [i \in invites |-> IF i.id = inv.id THEN [i EXCEPT !.accepted = TRUE] ELSE i]
<1>1. /\ DOMAIN f = invites
      /\ \A i \in invites : f[i] \in invites'
      /\ \A j \in invites' : \E i \in invites : j = f[i]
      /\ \A i \in invites : f[i] = IF i.id = inv.id THEN [i EXCEPT !.accepted = TRUE] ELSE i
  BY DEF Consume
<1> HIDE DEF f
<1>2. ASSUME NEW i \in invites
      PROVE  /\ f[i] \in InviteRows /\ f[i].id = i.id /\ f[i].org = i.org /\ f[i].user = i.user
             /\ Pending(f[i]) => Pending(i)
             /\ f[i].accepted => i.id = inv.id \/ i.accepted
             /\ f[i].revoked = i.revoked
  <2>1. i \in InviteRows
    BY DEF IInv, RowsInv
  <2>2. CASE i.id = inv.id
    <3>1. f[i] = [i EXCEPT !.accepted = TRUE]
      BY <1>1, <2>2
    <3> QED BY <2>1, <2>2, <3>1 DEF InviteRows, Pending
  <2>3. CASE i.id # inv.id
    <3>1. f[i] = i
      BY <1>1, <2>3
    <3> QED BY <2>1, <3>1
  <2> QED BY <2>2, <2>3
<1>3. /\ IsFiniteSet(invites') /\ Cardinality(invites') = Cardinality(invites)
      /\ invites' \subseteq InviteRows /\ Numbered(invites', Cardinality(invites'))
      /\ \A i \in invites' : i.org \in 1..Cardinality(orgs')
      /\ \A i \in invites' : \E j \in invites : i = f[j] /\ j.id = i.id /\ j.org = i.org
  BY <1>1, <1>2, LinksRewritten DEF IInv
<1>4. ASSUME NEW o, Linked(o), o = inv.org => ~Consumed(inv) PROVE Linked(o)'
  <2>1. \A i \in invites : i.org = o => ~(f[i].accepted /\ f[i].revoked)
    BY <1>2, <1>4 DEF Linked, KnownInvite, Consumed, Pending
  <2> QED BY <1>1, <1>2, <1>4, <2>1, LinksStay DEF IInv
<1> QED BY <1>3, <1>4

\* A link that expires stays as pending as it was.
LEMMA Expires ==
    ASSUME IInv, NEW inv \in invites, Expire(inv)
    PROVE  IInv'
<1> DEFINE f == [i \in invites |-> IF i = inv THEN [i EXCEPT !.expired = TRUE] ELSE i]
<1>1. /\ DOMAIN f = invites
      /\ \A i \in invites : f[i] \in invites'
      /\ \A j \in invites' : \E i \in invites : j = f[i]
      /\ \A i \in invites : f[i] = IF i = inv THEN [i EXCEPT !.expired = TRUE] ELSE i
      /\ UNCHANGED <<users, orgs, members, inserted, projects, req, raced>>
  BY DEF Expire
<1> HIDE DEF f
<1>2. ASSUME NEW i \in invites
      PROVE  /\ f[i] \in InviteRows /\ f[i].id = i.id /\ f[i].org = i.org /\ f[i].user = i.user
             /\ Pending(f[i]) => Pending(i)
             /\ f[i].accepted = i.accepted
             /\ f[i].revoked = i.revoked
  <2>1. i \in InviteRows
    BY DEF IInv, RowsInv
  <2>2. CASE i = inv
    <3>1. f[i] = [i EXCEPT !.expired = TRUE]
      BY <1>1, <2>2
    <3> QED BY <2>1, <3>1 DEF InviteRows, Pending
  <2>3. CASE i # inv
    <3>1. f[i] = i
      BY <1>1, <2>3
    <3> QED BY <2>1, <3>1
  <2> QED BY <2>2, <2>3
<1>3. /\ IsFiniteSet(invites') /\ Cardinality(invites') = Cardinality(invites)
      /\ invites' \subseteq InviteRows /\ Numbered(invites', Cardinality(invites'))
      /\ \A i \in invites' : i.org \in 1..Cardinality(orgs')
      /\ \A i \in invites' : \E j \in invites : i = f[j] /\ j.id = i.id /\ j.org = i.org
  BY <1>1, <1>2, LinksRewritten DEF IInv
<1>4. RowsInv'
  BY <1>1, <1>3 DEF IInv, RowsInv
<1>5. RowsStay
  BY <1>1, <1>3, FS_CardinalityType DEF RowsStay, IInv, RowsInv
<1>6. BooksKept'
  <2> SUFFICES ASSUME NEW o \in orgs, o.id \notin raced' PROVE Kept(o)'
    BY <1>1 DEF BooksKept, Kept
  <2>1. Kept(o) /\ o.id \notin raced
    BY <1>1 DEF IInv, BooksKept, Kept
  <2>2. Linked(o.id)
    BY <2>1 DEF Kept, Linked
  <2>3. Linked(o.id)'
    BY <1>1, <1>2, <2>2, LinksStay DEF IInv, Linked
  <2>4. Owners(o.id)' # {}
    BY <1>1, <2>1 DEF Kept, Owners
  <2> QED BY <2>3, <2>4 DEF Kept, Linked
<1>7. RequestsInv'
  <2>1. DOMAIN req' = Requests /\ \A s \in Requests : req'[s] = req[s] /\ RequestSound(req[s])
    BY <1>1 DEF IInv, RequestsInv
  <2>2. ASSUME NEW s \in Requests PROVE RequestSound(req[s])'
    <3>1. PICK p : p = req'[s] /\ RequestSound(p)
      BY <2>1
    <3>2. RequestSound(p)'
      BY <1>5, <3>1, SoundStays DEF RowsStay, IInv
    <3> QED BY <3>1, <3>2
  <2> QED BY <2>1, <2>2 DEF RequestsInv
<1> QED BY <1>4, <1>6, <1>7 DEF IInv

LEMMA AsksForLink ==
    ASSUME IInv, NEW r \in Requests
    PROVE  /\ \A i \in invites : AskAccept(r, i) => IInv'
           /\ \A u, i : i \in invites /\ AskRevoke(r, u, i) => IInv'
<1>1. \A i \in invites : KnownInvite(i)
  BY DEF KnownInvite, IInv, RowsInv, Numbered
<1>2. ASSUME NEW i \in invites, AskAccept(r, i) PROVE IInv'
  <2>1. RequestSound([step |-> "seat", invite |-> i])
    BY <1>1 DEF RequestSound
  <2> QED BY <1>2, <2>1, ReadStep DEF AskAccept
<1>3. ASSUME NEW u, NEW i \in invites, AskRevoke(r, u, i) PROVE IInv'
  <2>1. RequestSound([step |-> "revoke", invite |-> i])
    BY <1>1 DEF RequestSound
  <2> QED BY <1>3, <2>1, ReadStep DEF AskRevoke
<1> QED BY <1>2, <1>3

LEMMA SeatsMember ==
    ASSUME IInv, NEW r \in Requests, SeatMember(r)
    PROVE  IInv'
<1>1. PICK i : i = req[r].invite /\ KnownInvite(i)
  BY DEF SeatMember, IInv, RequestsInv, RequestSound
<1>2. CASE Becomes(r, [step |-> "accept", invite |-> i, row |-> None])
  <2>1. RequestSound([step |-> "accept", invite |-> i, row |-> None])
    BY <1>1 DEF RequestSound
  <2> QED BY <1>2, <2>1, ReadStep DEF SeatMember
<1>3. ASSUME NEW row \in RowsOf(i.user, i.org), Becomes(r, [step |-> "accept", invite |-> i, row |-> row])
      PROVE  IInv'
  <2>1. KnownRow(row) /\ row.org = i.org
    BY <1>3 DEF KnownRow, IInv, RowsInv, Numbered, RowsOf
  <2>2. RequestSound([step |-> "accept", invite |-> i, row |-> row])
    BY <1>1, <2>1 DEF RequestSound
  <2> QED BY <1>3, <2>2, ReadStep DEF SeatMember
<1> QED BY <1>1, <1>2, <1>3 DEF SeatMember

LEMMA SeatsNew ==
    ASSUME IInv, NEW r \in Requests, AcceptAsNew(r)
    PROVE  IInv'
<1>1. PICK inv : inv = req[r].invite /\ KnownInvite(inv)
  BY DEF AcceptAsNew, IInv, RequestsInv, RequestSound
<1>2. CASE RowsOf(inv.user, inv.org) # {}
  BY <1>1, <1>2, ReadAnswered DEF AcceptAsNew, Fails
<1>3. CASE RowsOf(inv.user, inv.org) = {}
  <2> DEFINE seat == [id |-> inserted + 1, org |-> inv.org, user |-> inv.user, role |-> inv.role]
  <2>1. /\ members' = members \union {seat} /\ inserted' = inserted + 1
        /\ Consume(inv) /\ InviteRaces(inv, FALSE) /\ Answers(r, inv.org)
        /\ UNCHANGED <<users, orgs, projects>>
    BY <1>1, <1>3 DEF AcceptAsNew
  <2>2. inserted \in Nat /\ Cardinality(orgs) \in Nat /\ inv.org \in 1..Cardinality(orgs)
    BY <1>1, FS_CardinalityType DEF KnownInvite, IInv, RowsInv
  <2>3. seat \in MemberRows
    BY <1>1, <2>2 DEF KnownInvite, InviteRows, MemberRows
  <2>4. /\ IsFiniteSet(members') /\ members' \subseteq MemberRows /\ Numbered(members', inserted')
        /\ \A m \in members' : m.org \in 1..Cardinality(orgs')
    <3>1. IsFiniteSet(members')
      BY <2>1, FS_AddElement DEF IInv, RowsInv
    <3>2. Numbered(members', inserted')
      BY <2>1, <2>2 DEF Numbered, IInv, RowsInv
    <3> QED BY <2>1, <2>2, <2>3, <3>1, <3>2 DEF IInv, RowsInv
  <2>5. /\ IsFiniteSet(invites') /\ Cardinality(invites') = Cardinality(invites)
        /\ invites' \subseteq InviteRows /\ Numbered(invites', Cardinality(invites'))
        /\ \A i \in invites' : i.org \in 1..Cardinality(orgs')
        /\ \A i \in invites' : \E j \in invites : j.id = i.id /\ j.org = i.org
        /\ \A o : Linked(o) /\ (o = inv.org => ~Consumed(inv)) => Linked(o)'
    <3>1. orgs' = orgs
      BY <2>1
    <3> QED BY <1>1, <2>1, <3>1, Consumes
  <2>6. RowsInv'
    BY <2>1, <2>2, <2>4, <2>5 DEF IInv, RowsInv
  <2>7. RowsStay
    <3>1. Cardinality(invites) \in Nat
      BY FS_CardinalityType DEF IInv, RowsInv
    <3>2. \A m \in members' : m.id > inserted \/ \E n \in members : n.id = m.id /\ n.org = m.org
      BY <2>1, <2>2
    <3> QED BY <2>1, <2>2, <2>5, <3>1, <3>2 DEF RowsStay, IInv, RowsInv
  <2>8. BooksKept'
    <3> SUFFICES ASSUME NEW o \in orgs, o.id \notin raced' PROVE Kept(o)'
      BY <2>1 DEF BooksKept, Kept
    <3>1. Kept(o) /\ o.id \notin raced /\ (o.id = inv.org => ~Consumed(inv))
      BY <2>1 DEF IInv, BooksKept, Kept, InviteRaces
    <3>2. Linked(o.id)'
      BY <2>5, <3>1 DEF Kept, Linked
    <3>3. Owners(o.id)' # {}
      BY <2>1, <3>1 DEF Kept, Owners
    <3> QED BY <3>2, <3>3 DEF Kept, Linked
  <2> QED BY <2>1, <2>6, <2>7, <2>8, AnswerGoesOn DEF IInv, Answers
<1> QED BY <1>2, <1>3

LEMMA Ranks == Rank["owner"] = 2 /\ \A role \in Roles : Rank[role] \in 0..2
<1>1. Rank["member"] = 0 /\ Rank["admin"] = 1 /\ Rank["owner"] = 2
  BY DEF Rank
<1> QED BY <1>1 DEF Roles

\* A role is only upgraded: nobody stops being an owner by accepting.
LEMMA SeatsAgain ==
    ASSUME IInv, NEW r \in Requests, AcceptAsMember(r)
    PROVE  IInv'
<1>1. PICK q : q = req[r] /\ RequestSound(q)
  BY DEF IInv, RequestsInv
<1>2. PICK inv, row : inv = q.invite /\ row = q.row /\ KnownInvite(inv) /\ KnownRow(row) /\ row.org = inv.org
  BY <1>1 DEF AcceptAsMember, RequestSound
<1>3. PICK role \in Roles, written \in BOOLEAN : role = inv.role /\ (written <=> Rank[inv.role] > Rank[row.role])
  <2>1. inv.role \in Roles
    BY <1>2 DEF KnownInvite, InviteRows
  <2>2. CASE Rank[inv.role] > Rank[row.role]
    BY <2>1, <2>2
  <2>3. CASE ~(Rank[inv.role] > Rank[row.role])
    BY <2>1, <2>3
  <2> QED BY <2>2, <2>3
<1>4. CASE Fails(r) /\ Reads
  BY <1>4, ReadAnswered DEF Fails
<1>5. CASE ~(Fails(r) /\ Reads)
  <2>1. /\ members' = {IF m.id = row.id /\ written THEN [m EXCEPT !.role = role] ELSE m : m \in members}
        /\ Consume(inv) /\ InviteRaces(inv, row \notin members) /\ Answers(r, inv.org)
        /\ UNCHANGED <<users, orgs, inserted, projects>>
    BY <1>1, <1>2, <1>3, <1>5 DEF AcceptAsMember
  <2>2. written => row.role # "owner"
    BY <1>3, Ranks
  <2>3. /\ IsFiniteSet(members') /\ members' \subseteq MemberRows /\ Numbered(members', inserted')
        /\ \A m \in members' : m.org \in 1..Cardinality(orgs')
        /\ \A m \in members' : \E n \in members : n.id = m.id /\ n.org = m.org
        /\ \A o : /\ Owners(o) # {}
                  /\ o = row.org /\ written /\ role # "owner" =>
                         row \in members /\ (row.role = "owner" => Owners(o) # {row})
                  => Owners(o)' # {}
    <3>1. /\ \A m \in members : Rewrite(m, row, role, written) \in members'
          /\ \A n \in members' : \E m \in members : n = Rewrite(m, row, role, written)
      BY <2>1 DEF Rewrite
    <3>2. orgs' = orgs /\ inserted' = inserted
      BY <2>1
    <3>3. RowsInv /\ KnownRow(row)
      BY <1>2 DEF IInv
    <3> QED BY <3>1, <3>2, <3>3, RoleRewritten
  <2>4. /\ IsFiniteSet(invites') /\ Cardinality(invites') = Cardinality(invites)
        /\ invites' \subseteq InviteRows /\ Numbered(invites', Cardinality(invites'))
        /\ \A i \in invites' : i.org \in 1..Cardinality(orgs')
        /\ \A i \in invites' : \E j \in invites : j.id = i.id /\ j.org = i.org
        /\ \A o : Linked(o) /\ (o = inv.org => ~Consumed(inv)) => Linked(o)'
    <3>1. orgs' = orgs
      BY <2>1
    <3> QED BY <1>2, <2>1, <3>1, Consumes
  <2>5. RowsInv'
    BY <2>1, <2>3, <2>4 DEF IInv, RowsInv
  <2>6. RowsStay
    BY <2>1, <2>3, <2>4, FS_CardinalityType DEF RowsStay, IInv, RowsInv
  <2>7. BooksKept'
    <3> SUFFICES ASSUME NEW o \in orgs, o.id \notin raced' PROVE Kept(o)'
      BY <2>1 DEF BooksKept, Kept
    <3>1. Kept(o) /\ o.id \notin raced /\ (o.id = inv.org => ~Consumed(inv) /\ row \in members)
      BY <2>1 DEF IInv, BooksKept, Kept, InviteRaces
    <3>2. Linked(o.id)'
      BY <2>4, <3>1 DEF Kept, Linked
    <3>3. Owners(o.id)' # {}
      BY <1>2, <2>2, <2>3, <3>1 DEF Kept
    <3> QED BY <3>2, <3>3 DEF Kept, Linked
  <2> QED BY <2>1, <2>5, <2>6, <2>7, AnswerGoesOn DEF IInv, Answers
<1> QED BY <1>4, <1>5

LEMMA AsksToInvite ==
    ASSUME IInv, NEW r \in Requests, NEW caller \in members, NEW user \in Users, NEW role \in Roles,
           AskInvite(r, caller, user, role)
    PROVE  IInv'
<1> DEFINE S == Stale(user, caller.org)
           q == [step |-> "mint", org |-> caller.org, user |-> user, role |-> role, stale |-> S]
<1>1. KnownStale(S, caller.org)
  BY DEF KnownStale, Stale, IInv, RowsInv, Numbered
<1>2. RequestSound(q)
  <2> HIDE DEF S
  <2>1. caller.org \in 1..Cardinality(orgs)
    BY DEF IInv, RowsInv
  <2> QED BY <1>1, <2>1 DEF RequestSound
<1> QED BY <1>2, ReadStep DEF AskInvite

\* The pending link of the address is revoked as its successor is minted, unless
\* another request has minted or settled one meanwhile: then the organisation is marked.
LEMMA Invites ==
    ASSUME IInv, NEW r \in Requests, CreateInvitation(r)
    PROVE  IInv'
<1>1. PICK q : q = req[r] /\ RequestSound(q)
  BY DEF IInv, RequestsInv
<1>2. q.org \in 1..Cardinality(orgs) /\ q.user \in Users /\ q.role \in Roles /\ KnownStale(q.stale, q.org)
  BY <1>1 DEF CreateInvitation, RequestSound
<1> DEFINE f == [i \in invites |-> IF i.id \in q.stale THEN [i EXCEPT !.revoked = TRUE] ELSE i]
           T == {f[i] : i \in invites}
           link == [id |-> Cardinality(invites) + 1, org |-> q.org, user |-> q.user, role |-> q.role,
                    accepted |-> FALSE, revoked |-> FALSE, expired |-> FALSE]
<1>3. /\ invites' = T \union {link}
      /\ raced' = IF Stale(q.user, q.org) = q.stale THEN raced ELSE raced \union {q.org}
      /\ Answers(r, q.org)
      /\ UNCHANGED <<users, orgs, members, inserted, projects>>
  BY <1>1 DEF CreateInvitation
<1>4. /\ DOMAIN f = invites
      /\ \A i \in invites : f[i] \in T
      /\ \A j \in T : \E i \in invites : j = f[i]
      /\ \A i \in invites : f[i] = IF i.id \in q.stale THEN [i EXCEPT !.revoked = TRUE] ELSE i
  OBVIOUS
<1> HIDE DEF f, T
<1>5. ASSUME NEW i \in invites
      PROVE  /\ f[i] \in InviteRows /\ f[i].id = i.id /\ f[i].org = i.org /\ f[i].user = i.user
             /\ Pending(f[i]) => Pending(i) /\ i.id \notin q.stale
             /\ f[i].accepted = i.accepted
             /\ f[i].revoked => i.id \in q.stale \/ i.revoked
  <2>1. i \in InviteRows
    BY DEF IInv, RowsInv
  <2>2. CASE i.id \in q.stale
    <3>1. f[i] = [i EXCEPT !.revoked = TRUE]
      BY <1>4, <2>2
    <3> QED BY <2>1, <2>2, <3>1 DEF InviteRows, Pending
  <2>3. CASE i.id \notin q.stale
    <3>1. f[i] = i
      BY <1>4, <2>3
    <3> QED BY <2>1, <2>3, <3>1
  <2> QED BY <2>2, <2>3
<1>6. IsFiniteSet(T) /\ Cardinality(T) = Cardinality(invites) /\ Numbered(T, Cardinality(T)) /\ Cardinality(invites) \in Nat
  <2>1. IsFiniteSet(invites) /\ Numbered(invites, Cardinality(invites))
    BY DEF IInv, RowsInv
  <2>2. \A i \in invites : f[i].id = i.id
    BY <1>5
  <2>3. IsFiniteSet(T) /\ Cardinality(T) = Cardinality(invites) /\ Numbered(T, Cardinality(invites))
    BY <1>4, <2>1, <2>2, Rewritten
  <2> QED BY <2>1, <2>3, FS_CardinalityType
<1>7. link \in InviteRows /\ link.id = Cardinality(T) + 1
  <2>1. Cardinality(orgs) \in Nat
    BY FS_CardinalityType DEF IInv, RowsInv
  <2> QED BY <1>2, <1>6, <2>1 DEF InviteRows
<1>8. IsFiniteSet(invites') /\ Cardinality(invites') = Cardinality(invites) + 1 /\ Numbered(invites', Cardinality(invites'))
  <2>1. /\ IsFiniteSet(T \union {link}) /\ Cardinality(T \union {link}) = Cardinality(T) + 1
        /\ Numbered(T \union {link}, Cardinality(T) + 1)
    <3> HIDE DEF link
    <3> QED BY <1>6, <1>7, OneMore
  <2> QED BY <1>3, <1>6, <2>1
<1>9. ASSUME NEW i \in invites' PROVE i = link \/ \E j \in invites : i = f[j]
  BY <1>3, <1>4
<1>10. /\ invites' \subseteq InviteRows
       /\ \A i \in invites' : i.org \in 1..Cardinality(orgs)
       /\ \A i \in invites' : i.id > Cardinality(invites) \/ \E j \in invites : j.id = i.id /\ j.org = i.org
  <2> SUFFICES ASSUME NEW i \in invites'
               PROVE  /\ i \in InviteRows /\ i.org \in 1..Cardinality(orgs)
                      /\ i.id > Cardinality(invites) \/ \E j \in invites : j.id = i.id /\ j.org = i.org
    OBVIOUS
  <2>1. CASE i = link
    BY <1>2, <1>6, <1>7, <2>1
  <2>2. ASSUME NEW j \in invites, i = f[j]
        PROVE  i \in InviteRows /\ i.org \in 1..Cardinality(orgs) /\ j.id = i.id /\ j.org = i.org
    BY <1>5, <2>2 DEF IInv, RowsInv
  <2> QED BY <1>9, <2>1, <2>2
<1>11. RowsInv'
  BY <1>3, <1>8, <1>10 DEF IInv, RowsInv
<1>12. RowsStay
  BY <1>3, <1>6, <1>8, <1>10, FS_CardinalityType DEF RowsStay, IInv, RowsInv
<1>13. BooksKept'
  <2> SUFFICES ASSUME NEW o \in orgs, o.id \notin raced' PROVE Kept(o)'
    BY <1>3 DEF BooksKept, Kept
  <2>1. Kept(o) /\ o.id \notin raced /\ (o.id = q.org => Stale(q.user, q.org) = q.stale)
    BY <1>3 DEF IInv, BooksKept, Kept
  <2>2. ASSUME NEW i \in invites' PROVE i.org = o.id => ~(i.accepted /\ i.revoked)
    <3>1. CASE i = link
      BY <3>1
    <3>2. ASSUME NEW j \in invites, i = f[j], i.org = o.id, i.accepted, i.revoked PROVE FALSE
      <4>1. j.accepted /\ j.org = o.id /\ ~j.revoked /\ j.id \in q.stale
        BY <1>5, <2>1, <3>2 DEF Kept
      <4>2. o.id = q.org
        BY <1>2, <4>1 DEF KnownStale
      <4>3. PICK k \in invites : k.id = j.id /\ Pending(k)
        BY <2>1, <4>1, <4>2 DEF Stale
      <4> QED BY <4>1, <4>3 DEF Pending, IInv, RowsInv, Numbered
    <3> QED BY <1>9, <3>1, <3>2
  <2>3. ASSUME NEW i \in invites', NEW j \in invites', Pending(i), Pending(j), i.org = o.id, j.org = o.id, i.user = j.user
        PROVE  i = j
    <3>1. ASSUME NEW k \in invites, Pending(f[k]), k.org = link.org, k.user = link.user, o.id = q.org PROVE FALSE
      BY <1>5, <2>1, <3>1 DEF Stale
    <3>2. CASE i = link /\ j = link
      BY <3>2
    <3>3. ASSUME j = link, NEW k \in invites, i = f[k] PROVE FALSE
      BY <1>5, <2>3, <3>1, <3>3
    <3>4. ASSUME i = link, NEW k \in invites, j = f[k] PROVE FALSE
      BY <1>5, <2>3, <3>1, <3>4
    <3>5. ASSUME NEW k \in invites, NEW l \in invites, i = f[k], j = f[l] PROVE i = j
      BY <1>5, <2>1, <2>3, <3>5 DEF Kept
    <3> QED BY <1>9, <3>2, <3>3, <3>4, <3>5
  <2>4. Owners(o.id)' # {}
    BY <1>3, <2>1 DEF Kept, Owners
  <2> QED BY <2>2, <2>3, <2>4 DEF Kept, Pending
<1> QED BY <1>3, <1>11, <1>12, <1>13, AnswerGoesOn DEF IInv, Answers

-----------------------------------------------------------------------------
(* The steps of the platform, and those of the tab that leave its rows alone. *)

LEMMA Serving ==
    ASSUME IInv, NEW r \in Requests, Serve(r)
    PROVE  IInv'
  BY Prepares, Creates, FindsMember, CountsOwners, Removes, Changes, Invites, SeatsMember,
     SeatsNew, SeatsAgain, RevokesLink DEF Serve

LEMMA Breaking ==
    ASSUME IInv, NEW r \in Requests, Break(r)
    PROVE  IInv'
  BY ReadAnswered DEF Break, Fails

\* Nothing of the platform changes.
LEMMA Idles ==
    ASSUME IInv, UNCHANGED tenancyVars
    PROVE  IInv'
<1>1. RowsInv' /\ BooksKept' /\ RowsStay
  BY SameRows DEF IInv, tenancyVars, rows
<1>2. RequestsInv'
  BY DEF tenancyVars, rows, IInv, RequestsInv, RequestSound, KnownRow, KnownInvite, KnownStale, OwnerLeaves
<1> QED BY <1>1, <1>2 DEF IInv

LEMMA AnswerTaken ==
    ASSUME IInv, NEW r \in Requests, Becomes(r, Idle), Reads
    PROVE  IInv'
<1>1. RequestSound(Idle)
  BY SettledIsSound DEF Idle
<1> QED BY <1>1, ReadStep

LEMMA TabStep ==
    ASSUME IInv, Post \in Requests, Get \in Requests, Effects \/ Arrives \/ Answered
    PROVE  IInv'
<1>1. CASE Effects
  <2>1. UNCHANGED tenancyVars
    BY <1>1 DEF Effects, Redirect, Observe, Bootstrap
  <2> QED BY <2>1, Idles
<1>2. CASE Arrives
  <2>1. CASE MeArrives \/ \E o \in Orgs : ProjectsArrive(o)
    <3>1. UNCHANGED tenancyVars
      BY <2>1 DEF MeArrives, ProjectsArrive
    <3> QED BY <3>1, Idles
  <2>2. CASE OrgsSent
    <3>1. CASE UNCHANGED tenancyVars
      BY <3>1, Idles
    <3>2. ASSUME NEW u, AskOrgs(Get, u) PROVE IInv'
      <4>1. u \in Users
        BY <3>2 DEF AskOrgs, IInv, RowsInv
      <4> QED BY <3>2, <4>1, Asks
    <3> QED BY <2>2, <3>1, <3>2 DEF OrgsSent
  <2>3. CASE OrgsArrive
    BY <2>3, AnswerTaken DEF OrgsArrive, Reads
  <2> QED BY <1>2, <2>1, <2>2, <2>3 DEF Arrives
<1>3. CASE Answered
  <2>1. Becomes(Post, Idle) /\ Reads
    BY <1>3 DEF Answered, Registered, OrgCreated, ProjectCreated, OrgLeft, Joined, Refused, Succeeds, Settled, Reads
  <2> QED BY <2>1, AnswerTaken
<1> QED BY <1>1, <1>2, <1>3

LEMMA UserStep ==
    ASSUME IInv, Post \in Requests, UserActs
    PROVE  IInv'
<1>1. CASE UNCHANGED tenancyVars
  BY <1>1, Idles
<1>2. ASSUME NEW u \in Users, SignUp(u) PROVE IInv'
  BY <1>2, Registers DEF SignUp
<1>3. CASE NewOrg
  <2>1. AskNewOrg(Post, cookie) /\ cookie \in Users
    BY <1>3 DEF NewOrg, AskNewOrg, IInv, RowsInv
  <2> QED BY <2>1, Asks
<1>4. ASSUME NEW o \in Orgs, NewProject(o) PROVE IInv'
  BY <1>4, CreatesProject DEF NewProject
<1>5. ASSUME NEW o \in Orgs, Leave(o) PROVE IInv'
  <2>1. PICK caller \in members : AskRemove(Post, caller, me.data)
    BY <1>5 DEF Leave, RowsOf
  <2> QED BY <2>1, AsksForMember
<1>6. ASSUME NEW i \in invites, Accept(i) PROVE IInv'
  BY <1>6, AsksForLink DEF Accept
<1>7. ASSUME \/ \E u \in Users : Login(u)
             \/ Logout \/ LeaveInvite \/ Visit
             \/ \E o \in Orgs : SelectOrg(o)
             \/ \E p \in 1..MaxProjects : SelectProject(p)
             \/ \E at \in {"shell", "invite"} : Load(at)
      PROVE  UNCHANGED tenancyVars
  BY <1>7 DEF Login, Logout, LeaveInvite, Visit, SelectOrg, SelectProject, Load
<1> QED BY <1>1, <1>2, <1>3, <1>4, <1>5, <1>6, <1>7 DEF UserActs

LEMMA OthersStep ==
    ASSUME IInv, OthersAct
    PROVE  IInv'
<1>1. ASSUME NEW r \in Requests, OthersAsk(r) PROVE IInv'
  <2>1. ASSUME NEW u \in Users, AskRegister(r, u) PROVE IInv'
    BY <2>1, Registers
  <2>2. ASSUME NEW u \in Users, AskOrgs(r, u) \/ AskNewOrg(r, u) PROVE IInv'
    BY <2>2, Asks
  <2>3. ASSUME NEW u \in Users, NEW o \in Orgs, CreateProject(r, u, o) PROVE IInv'
    BY <2>3, CreatesProject
  <2>4. ASSUME NEW caller \in members, NEW u \in Users,
               \/ \E role \in Roles : AskChange(r, caller, u, role) \/ AskInvite(r, caller, u, role)
               \/ AskRemove(r, caller, u)
        PROVE  IInv'
    BY <2>4, AsksForMember, AsksToInvite
  <2>5. ASSUME NEW i \in invites, AskAccept(r, i) \/ \E u \in Users : AskRevoke(r, u, i)
        PROVE  IInv'
    BY <2>5, AsksForLink
  <2> QED BY <1>1, <2>1, <2>2, <2>3, <2>4, <2>5 DEF OthersAsk
<1>2. ASSUME NEW i \in invites, Expire(i) PROVE IInv'
  BY <1>2, Expires
<1> QED BY <1>1, <1>2 DEF OthersAct, Others

LEMMA Founded ==
    ASSUME Init
    PROVE  IInv
<1>1. PICK creator \in Users, invited \in Users, role \in Roles : TenancyInit(creator, invited, role)
  BY DEF Init
<1> DEFINE org == [id |-> 1, slug |-> 1]
           seat == [id |-> 1, org |-> 1, user |-> creator, role |-> "owner"]
           link == [id |-> 1, org |-> 1, user |-> invited, role |-> role,
                    accepted |-> FALSE, revoked |-> FALSE, expired |-> FALSE]
<1>2. /\ users = {creator} /\ orgs = {org} /\ members = {seat} /\ inserted = 1 /\ invites = {link}
      /\ req = [r \in Requests |-> Idle] /\ raced = {}
  BY <1>1 DEF TenancyInit
<1>3. seat \in MemberRows /\ link \in InviteRows
  BY DEF MemberRows, InviteRows, Roles
<1>4. org.id = 1 /\ seat.id = 1 /\ seat.org = 1 /\ seat.role = "owner" /\ link.id = 1 /\ link.org = 1
      /\ link.accepted = FALSE /\ link.revoked = FALSE
  OBVIOUS
<1> HIDE DEF org, seat, link
<1>5. IsFiniteSet(orgs) /\ IsFiniteSet(members) /\ IsFiniteSet(invites) /\ Cardinality(orgs) = 1 /\ Cardinality(invites) = 1
  BY <1>2, FS_Singleton
<1>6. RowsInv
  BY <1>2, <1>3, <1>4, <1>5 DEF RowsInv, Numbered
<1>7. RequestsInv
  <2>1. RequestSound(Idle)
    BY SettledIsSound DEF Idle
  <2> QED BY <1>2, <2>1 DEF RequestsInv
<1>8. BooksKept
  BY <1>2, <1>4 DEF BooksKept, Owners, Pending
<1> QED BY <1>6, <1>7, <1>8 DEF IInv

LEMMA StepKeeps ==
    ASSUME IInv, [Next]_vars
    PROVE  IInv'
<1>1. {Post, Get} \subseteq Requests
  BY RequestsAssumption
<1>2. CASE UNCHANGED vars
  BY <1>2, Idles DEF vars
<1>3. ASSUME NEW r \in Requests, Serves(r) \/ Breaks(r) PROVE IInv'
  BY <1>3, Serving, Breaking DEF Serves, Breaks
<1>4. CASE Effects \/ Arrives \/ Answered
  BY <1>1, <1>4, TabStep
<1>5. CASE UserActs
  BY <1>1, <1>5, UserStep
<1>6. CASE OthersAct
  BY <1>6, OthersStep
<1> QED BY <1>2, <1>3, <1>4, <1>5, <1>6 DEF Next

\* Whoever registers, creates, invites, accepts, changes, leaves or declines, and
\* whatever breaks off in between: an organisation none of whose writes relied on
\* what was no longer so has an owner (_count_owners of members/service.py), one
\* pending link per address, and no link that is both accepted and revoked.
THEOREM AccountsKept == Spec => []BooksKept
<1>1. Init => IInv
  BY Founded
<1>2. IInv /\ [Next]_vars => IInv'
  BY StepKeeps
<1>3. IInv => BooksKept
  BY DEF IInv
<1> QED BY <1>1, <1>2, <1>3, PTL DEF Spec

\* What a request holds of the rows it has read: the number it writes or deletes
\* by has not been given to a row of another organisation, and an owner is written
\* only by a request that has counted another (find_member, _count_owners).
THEOREM RequestsKnow == Spec => [](RowsInv /\ RequestsInv)
<1>1. Init => IInv
  BY Founded
<1>2. IInv /\ [Next]_vars => IInv'
  BY StepKeeps
<1>3. IInv => RowsInv /\ RequestsInv
  BY DEF IInv
<1> QED BY <1>1, <1>2, <1>3, PTL DEF Spec
=============================================================================
