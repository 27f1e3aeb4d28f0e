------------------------------ MODULE Workspace ------------------------------
(***************************************************************************)
(* One browser tab of the dashboard over the platform's accounts           *)
(* (lib/auth.ts, lib/active.ts, lib/orgs.ts, lib/projects.ts, AppShell,    *)
(* ProtectedRoute, SignIn, SignUp, AcceptInvitation, the create dialogs).  *)
(* A cached read is refetched when it is invalidated or a component        *)
(* mounts on a stale one; its answer is that of the moment it was asked    *)
(* and arrives at any time.  The active organisation and project are kept  *)
(* in local storage.                                                       *)
(***************************************************************************)
EXTENDS Tenancy

CONSTANTS
    Unset,              \* nothing read yet, nothing mounted
    Post,               \* the request of the tab's one mutation at a time
    Get,                \* the request of its organisation list
    MaxClicks,          \* bound: what the user of the tab does
    MaxOthers           \* bound: requests of others, and links that expire

ASSUME RequestsAssumption == {Post, Get} \subseteq Requests

VARIABLES
    cookie,             \* whose session cookie the browser holds
    page,               \* "sign-in", "shell" (all that ProtectedRoute wraps), "invite"
    from,               \* the page to return to after signing in
    me, seen,           \* cached reads: the user, the ids of their organisations
    lists,              \* cached reads: organisation -> the ids of its projects
    watching,           \* the organisation the mounted AppShell observes the projects of
    active,             \* the organisation and project that are selected
    doing,              \* the mutation whose answer a component awaits
    clicks, others

cache == <<me, seen, lists>>
place == <<cookie, page, from>>
tab == <<cookie, page, from, me, seen, lists, watching, active, doing>>
vars == <<tenancyVars, tab, clicks, others>>

Fresh == [data |-> Unset, stale |-> FALSE, flight |-> None]
Orgs == 1..MaxOrgs

WorkspaceInit ==
    /\ cookie = None /\ page = "shell" /\ from = "shell"
    /\ me = [Fresh EXCEPT !.flight = [got |-> None]]
    /\ seen = Fresh
    /\ lists = [o \in Orgs |-> Fresh]
    /\ watching = Unset
    /\ active = [org |-> None, project |-> None]
    /\ doing = None
    /\ clicks = 0 /\ others = 0

-----------------------------------------------------------------------------
(* Cached reads. *)

\* A refetch gives up on the answer that is on its way, but the first read is
\* left to finish.
Refetched(e, f) == IF e.data = Unset /\ e.flight # None THEN e ELSE [e EXCEPT !.stale = TRUE, !.flight = f]
Invalidated(e, observed, f) == IF observed THEN Refetched(e, f) ELSE [e EXCEPT !.stale = TRUE]
Lacking(e) == (e.data = Unset \/ e.stale) /\ e.flight = None
Mounted(e, f) == IF Lacking(e) THEN [e EXCEPT !.flight = f] ELSE e
Arrived(e, data) == [data |-> data, stale |-> FALSE, flight |-> None]
Failed(e) == [e EXCEPT !.flight = None]

\* fetchMe; fetchProjects, a 403 for one who is not a member.
Whoami == [got |-> cookie]
ProjectsSeen(o) == [got |-> IF cookie # None /\ RowsOf(cookie, o) # {} THEN ProjectsOf(o) ELSE Unset]

\* fetchOrgs is answered by the request Get, when the platform gets to it.
Fetching == [by |-> cookie, sent |-> FALSE]

Shown == page = "shell" /\ me.data \notin {Unset, None}
SignedIn == me.data \notin {Unset, None}

-----------------------------------------------------------------------------
(* Effects of a render: they come before anything else happens. *)

ToSignIn == page = "shell" /\ me.data = None
FromSignIn == page = "sign-in" /\ SignedIn

\* ProtectedRoute, and SignIn for one who is signed in.
Redirect ==
    /\ \/ ToSignIn /\ page' = "sign-in" /\ from' = "shell"
       \/ FromSignIn /\ page' = from /\ UNCHANGED from
    /\ UNCHANGED <<tenancyVars, cookie, cache, watching, active, doing, clicks, others>>

Observes == IF Shown THEN active.org ELSE Unset

\* AppShell mounts, unmounts, or asks for the projects of another organisation.
Observe ==
    /\ watching # Observes /\ ~ToSignIn
    /\ watching' = Observes
    /\ lists' = IF Observes \in Orgs THEN [lists EXCEPT ![Observes] = Mounted(@, ProjectsSeen(Observes))] ELSE lists
    /\ seen' = IF watching = Unset THEN Mounted(seen, Fetching) ELSE seen
    /\ UNCHANGED <<tenancyVars, place, me, active, doing, clicks, others>>

First(S) == IF S = {} THEN None ELSE Min(S)
OrgChoice == IF seen.data = Unset \/ active.org \in seen.data THEN active.org ELSE First(seen.data)

ProjectChoice ==
    IF active.org = None \/ lists[active.org].data = Unset \/ active.project \in lists[active.org].data THEN active.project
    ELSE First(lists[active.org].data)

\* Both effects see the selection of the render, the second one writes last.
Chosen ==
    [org |-> OrgChoice,
     project |-> IF ProjectChoice # active.project THEN ProjectChoice
                 ELSE IF OrgChoice # active.org THEN None ELSE active.project]

\* useActiveBootstrap.
Bootstrap ==
    /\ Shown /\ watching = Observes
    /\ active # Chosen
    /\ active' = Chosen
    /\ UNCHANGED <<tenancyVars, place, cache, watching, doing, clicks, others>>

Effects == Redirect \/ Observe \/ Bootstrap
Rendered == ~ToSignIn /\ ~FromSignIn /\ watching = Observes /\ (Shown => active = Chosen)

-----------------------------------------------------------------------------
(* Answers. *)

MeArrives ==
    /\ Rendered /\ me.flight # None
    /\ me' = Arrived(me, me.flight.got)
    /\ UNCHANGED <<tenancyVars, place, seen, lists, watching, active, doing, clicks, others>>

\* Without a session the route answers 401.
OrgsSent ==
    /\ Rendered /\ req[Get] = Idle
    /\ seen.flight # None /\ ~seen.flight.sent
    /\ IF seen.flight.by = None THEN seen' = Failed(seen) /\ UNCHANGED tenancyVars
       ELSE seen' = [seen EXCEPT !.flight.sent = TRUE] /\ AskOrgs(Get, seen.flight.by)
    /\ UNCHANGED <<place, me, lists, watching, active, doing, clicks, others>>

\* The answer of a fetch that was given up on is dropped.
OrgsArrive ==
    /\ Rendered /\ req[Get].step \in {"ok", "failed"}
    /\ Becomes(Get, Idle)
    /\ seen' = IF seen.flight = None \/ ~seen.flight.sent THEN seen
               ELSE IF req[Get].step = "ok" THEN Arrived(seen, req[Get].got) ELSE Failed(seen)
    /\ UNCHANGED <<rows, place, me, lists, watching, active, doing, clicks, others>>

ProjectsArrive(o) ==
    /\ Rendered /\ lists[o].flight # None
    /\ LET got == lists[o].flight.got IN
       lists' = [lists EXCEPT ![o] = IF got = Unset THEN Failed(@) ELSE Arrived(@, got)]
    /\ UNCHANGED <<tenancyVars, place, me, seen, watching, active, doing, clicks, others>>

OrgsChanged == Invalidated(seen, watching # Unset, Fetching)
Settled == Rendered /\ req[Post].step \in {"ok", "failed"} /\ Becomes(Post, Idle) /\ doing' = None
Succeeds(d) == Settled /\ req[Post].step = "ok" /\ doing = d

\* Faulty variant: the user is not read anew.
LoggedInQuietly(u) == cookie' = u /\ UNCHANGED me

\* useLogin: the session, and the user read anew.
LoggedIn(u) ==
    /\ cookie' = u
    /\ me' = Invalidated(me, TRUE, [got |-> u])

\* SignUp: registered, then logged in.
Registered ==
    /\ Settled /\ req[Post].step = "ok" /\ doing \in Users
    /\ LoggedIn(doing)
    /\ page' = "sign-in" /\ from' = "shell"
    /\ UNCHANGED <<rows, seen, lists, watching, active, clicks, others>>

\* CreateOrgDialog: the new organisation becomes the active one.
OrgCreated ==
    /\ Succeeds("org")
    /\ seen' = OrgsChanged
    /\ active' = [org |-> req[Post].got, project |-> None]
    /\ UNCHANGED <<rows, place, me, lists, watching, clicks, others>>

\* CreateProjectDialog.
ProjectCreated ==
    /\ Succeeds("project")
    /\ LET id == req[Post].got
           o == (CHOOSE p \in projects : p.id = id).org IN
       /\ lists' = [lists EXCEPT ![o] = Invalidated(@, watching = o, ProjectsSeen(o))]
       /\ active' = [active EXCEPT !.project = id]
    /\ UNCHANGED <<rows, place, me, seen, watching, clicks, others>>

\* OrgSettings.onLeave: the bootstrap picks another one.
OrgLeft ==
    /\ Succeeds("leave")
    /\ seen' = OrgsChanged
    /\ active' = [org |-> None, project |-> None]
    /\ UNCHANGED <<rows, place, me, lists, watching, clicks, others>>

\* AcceptCard.onAccept.
Joined ==
    /\ Succeeds("accept")
    /\ seen' = OrgsChanged
    /\ me' = Invalidated(me, TRUE, Whoami)
    /\ active' = [org |-> req[Post].got, project |-> None]
    /\ page' = "shell"
    /\ UNCHANGED <<rows, cookie, from, lists, watching, clicks, others>>

\* The error is shown; or the page that asked is gone.
Refused ==
    /\ Settled
    /\ req[Post].step = "failed" \/ doing = None
    /\ UNCHANGED <<rows, place, cache, watching, active, clicks, others>>

Answered == Registered \/ OrgCreated \/ ProjectCreated \/ OrgLeft \/ Joined \/ Refused
Arrives == MeArrives \/ OrgsSent \/ OrgsArrive \/ \E o \in Orgs : ProjectsArrive(o)

-----------------------------------------------------------------------------
(* The user of the tab. *)

Click == Rendered /\ clicks < MaxClicks /\ clicks' = clicks + 1 /\ UNCHANGED others
Mutates(d) == doing = None /\ req[Post] = Idle /\ doing' = d
Works == Shown /\ cookie # None /\ seen.data # Unset

\* The form is filled in once the page knows that nobody is signed in.
SignInForm == page = "sign-in" /\ me.data = None /\ me.flight = None

Login(u) ==
    /\ Click /\ SignInForm /\ u \in users
    /\ LoggedIn(u)
    /\ UNCHANGED <<tenancyVars, page, from, seen, lists, watching, active, doing>>

SignUp(u) ==
    /\ Click /\ SignInForm
    /\ Mutates(u) /\ AskRegister(Post, u)
    /\ UNCHANGED <<place, cache, watching, active>>

\* useLogout, from AppShell and from EmailMismatchCard.  The user is read anew,
\* the organisations and the selection stay.
Logout ==
    /\ Click /\ SignedIn /\ page # "sign-in"
    /\ cookie' = None
    /\ me' = Invalidated(me, TRUE, [got |-> None])
    /\ page' = "sign-in" /\ from' = page
    /\ UNCHANGED <<tenancyVars, seen, lists, watching, active, doing>>

\* OrgProjectSwitcher, Orgs.
SelectOrg(o) ==
    /\ Click /\ Works /\ o \in seen.data
    /\ active' = [org |-> o, project |-> None]
    /\ UNCHANGED <<tenancyVars, place, cache, watching, doing>>

SelectProject(p) ==
    /\ Click /\ Works /\ active.org # None
    /\ lists[active.org].data # Unset /\ p \in lists[active.org].data
    /\ active' = [active EXCEPT !.project = p]
    /\ UNCHANGED <<tenancyVars, place, cache, watching, doing>>

NewOrg ==
    /\ Click /\ Works /\ Mutates("org") /\ AskNewOrg(Post, cookie)
    /\ UNCHANGED <<place, cache, watching, active>>

NewProject(o) ==
    /\ Click /\ Works /\ Mutates("project") /\ CreateProject(Post, cookie, o)
    /\ UNCHANGED <<place, cache, watching, active>>

Leave(o) ==
    /\ Click /\ Works /\ o \in seen.data /\ Mutates("leave")
    /\ \E caller \in RowsOf(cookie, o) : AskRemove(Post, caller, me.data)
    /\ UNCHANGED <<place, cache, watching, active>>

Accept(i) ==
    /\ Click /\ page = "invite" /\ me.data = i.user /\ cookie = i.user
    /\ Mutates("accept") /\ AskAccept(Post, i)
    /\ UNCHANGED <<place, cache, watching, active>>

\* SignedOutCard, and "Not now".
LeaveInvite ==
    /\ Click /\ page = "invite" /\ me.data # Unset
    /\ IF SignedIn THEN page' = "shell" /\ UNCHANGED from ELSE page' = "sign-in" /\ from' = "invite"
    /\ UNCHANGED <<tenancyVars, cookie, cache, watching, active, doing>>

\* The tab is loaded, at a page of the dashboard or by the link of an invitation:
\* only local storage and the cookie are left.
Load(at) ==
    /\ Click
    /\ page' = at /\ from' = "shell"
    /\ me' = [Fresh EXCEPT !.flight = Whoami]
    /\ seen' = Fresh /\ lists' = [o \in Orgs |-> Fresh]
    /\ watching' = Unset /\ doing' = None
    /\ UNCHANGED <<tenancyVars, cookie, active>>

\* A page is opened after the cached reads have gone stale.
Visit ==
    /\ Click /\ Works
    /\ me' = Mounted([me EXCEPT !.stale = TRUE], Whoami)
    /\ seen' = Mounted([seen EXCEPT !.stale = TRUE], Fetching)
    /\ lists' = [o \in Orgs |-> IF o = active.org THEN Mounted([lists[o] EXCEPT !.stale = TRUE], ProjectsSeen(o))
                                 ELSE [lists[o] EXCEPT !.stale = TRUE]]
    /\ UNCHANGED <<tenancyVars, place, watching, active, doing>>

UserActs ==
    \/ \E u \in Users : Login(u) \/ SignUp(u)
    \/ Logout \/ NewOrg \/ LeaveInvite \/ Visit
    \/ \E o \in Orgs : SelectOrg(o) \/ NewProject(o) \/ Leave(o)
    \/ \E p \in 1..MaxProjects : SelectProject(p)
    \/ \E i \in invites : Accept(i)
    \/ \E at \in {"shell", "invite"} : Load(at)

\* The requests that are not the tab's: of anybody, at other machines.
Others == Requests \ {Post, Get}

OthersAsk(r) ==
    \/ \E u \in Users :
           \/ AskRegister(r, u) \/ AskOrgs(r, u) \/ AskNewOrg(r, u)
           \/ \E o \in Orgs : CreateProject(r, u, o)
    \/ \E caller \in members, u \in Users :
           \/ \E role \in Roles : AskChange(r, caller, u, role) \/ AskInvite(r, caller, u, role)
           \/ AskRemove(r, caller, u)
    \/ \E i \in invites : AskAccept(r, i) \/ \E u \in Users : AskRevoke(r, u, i)

OthersAct ==
    /\ Rendered /\ others < MaxOthers /\ others' = others + 1 /\ UNCHANGED clicks
    /\ (\E r \in Others : OthersAsk(r)) \/ (\E i \in invites : Expire(i))
    /\ UNCHANGED tab

Serves(r) == Rendered /\ Serve(r) /\ UNCHANGED <<tab, clicks, others>>
Breaks(r) == Rendered /\ Break(r) /\ UNCHANGED <<tab, clicks, others>>

Next == Effects \/ Arrives \/ Answered \/ UserActs \/ OthersAct \/ \E r \in Requests : Serves(r) \/ Breaks(r)

\* Somebody has an organisation and has invited somebody to it.
Init == (\E creator, invited \in Users, role \in Roles : TenancyInit(creator, invited, role)) /\ WorkspaceInit

\* The browser renders and delivers answers, the platform answers.
Fairness == WF_vars(Effects) /\ WF_vars(Arrives \/ Answered) /\ \A r \in Requests : WF_vars(Serves(r))

Spec == Init /\ [][Next]_vars /\ Fairness

-----------------------------------------------------------------------------
(* Properties. *)

Agrees ==
    /\ me.data = cookie
    /\ page = "shell" => cookie # None
    /\ page = "sign-in" => cookie = None

Fits ==
    Shown /\ seen.data # Unset =>
        /\ active.org \in seen.data \union {None}
        /\ active.org \in Orgs => lists[active.org].data = Unset \/ active.project \in lists[active.org].data \union {None}

\* Whatever order logins, logouts, reloads and their answers come in, the tab comes
\* to rest on a page that fits the session (no redirect loop between SignIn and
\* ProtectedRoute, no former user left on display) with a selection out of what it
\* has read: "won't overwrite a valid existing selection", and never keeps another.
TabSettles == []<>(Agrees /\ Fits)
=============================================================================
