--------------------------- MODULE PolicyRelease ---------------------------
(***************************************************************************)
(* How the platform turns a project's policy into the bundles its agents   *)
(* fetch: the policy-module and role-binding store, its write-time checks, *)
(* the recompile that fans out over the agents, agent edits, first         *)
(* registration and the startup backfill (features/policy_modules and      *)
(* features/agents of platform/api/hexgate_api).  One project, one server  *)
(* process.  A write commits the store, compiles, and commits the bundles: *)
(* the steps of a handler are what lies between those two commits.         *)
(***************************************************************************)
EXTENDS FiniteSets, Naturals

CONSTANTS
    Writers,            \* requests in flight
    Agents,             \* agent names that may be registered
    Caps, Fences,       \* module paths of the capability and boundary tiers
    Contents,           \* module contents, among Kinds
    Bindings,           \* role bindings an admin may save, NoRoles among them
    Edits,              \* policy_yaml texts an operator may save
    Star,               \* "*", the generic agent
    Default,            \* "default", the role that always exists
    Free,               \* the project lock is free
    MaxWrites           \* bound: writes that start

\* What composition sees of a module: "plain" grants a tool or fences nothing,
\* "sets1" and "sets2" define consts.k, "uses" has a condition on consts.k,
\* "denies" denies a tool.
Kinds == {"plain", "sets1", "sets2", "uses", "denies"}
Absent == "absent"
Modules == Caps \union Fences

\* A saved policy_yaml is a generated starter, the deny-all text, or an edit;
\* "broken" is one that does not compile.
Texts == {"unregistered", "starter", "denyall"} \union Edits

\* role -> (agent or "*") -> imported capabilities.  No binding is classic mode.
NoRoles == [r \in {} |-> {}]
IsBinding(b) ==
    \A r \in DOMAIN b :
        \A a \in DOMAIN b[r] : a \in Agents \union {Star} /\ b[r][a] \subseteq Caps

ASSUME ContentsAssumption == Contents \subseteq Kinds
ASSUME TiersAssumption == Caps \intersect Fences = {}
ASSUME BindingsAssumption == NoRoles \in Bindings /\ \A b \in Bindings : IsBinding(b)
ASSUME EditsAssumption == "unregistered" \notin Edits
ASSUME LockAssumption == Free \notin Writers
ASSUME BoundAssumption == MaxWrites \in Nat

VARIABLES
    store,              \* PolicyModule rows
    binding,            \* RoleBinding rows
    agents,             \* Agent rows: policy_yaml and the bundle columns
    lock,               \* project_lock
    job,                \* what each request still has to do
    opa,                \* the opa binary can be run
    writes,             \* writes started (bound)
    debt                \* history: what the bundles owe the store

vars == <<store, binding, agents, lock, job, opa, writes, debt>>

-----------------------------------------------------------------------------
(* Composition (hexgate/security/linker.py, policy_set.py, rego.py).       *)

Stored(st) == {m \in Modules : st[m] # Absent}

\* The agent's own cell if it is named, else the generic one, else nothing.
Cell(b, r, a) ==
    CASE r \in DOMAIN b /\ a \in DOMAIN b[r] -> b[r][a]
      [] r \in DOMAIN b /\ a \notin DOMAIN b[r] /\ Star \in DOMAIN b[r] -> b[r][Star]
      [] OTHER -> {}

RolesOf(b) == DOMAIN b \union {Default}

\* The modules folded for one role: every boundary, and what the cell imports.
Layers(st, b, r, a) == (Fences \intersect Stored(st)) \union Cell(b, r, a)

Values(st, ms) == {st[m] : m \in ms} \intersect {"sets1", "sets2"}

RoleComposes(st, b, r, a) ==
    LET ms == Layers(st, b, r, a) IN
    /\ Cell(b, r, a) \subseteq Stored(st)
    /\ Cardinality(Values(st, ms)) <= 1
    /\ (\E m \in ms : st[m] = "uses") => Values(st, ms) # {}

\* resolve_for_project: the whole library is checked for denies, then each role.
Composes(st, b, a) ==
    /\ \A c \in Caps : st[c] # "denies"
    /\ \A r \in RolesOf(b) : RoleComposes(st, b, r, a)

\* _resolve_all_agents: the generic column and every named one.
ComposesForAll(st, b) ==
    \A a \in {Star} \union UNION {DOMAIN b[r] : r \in DOMAIN b} : Composes(st, b, a)

\* A const is one per rego module, so it must also agree across the roles.
Compiles(st, b, a) ==
    Cardinality(UNION {Values(st, Layers(st, b, r, a)) : r \in RolesOf(b)}) <= 1

\* The role-keyed policy of one agent's column.
Resolved(st, b, a) ==
    [r \in RolesOf(b) |-> {<<m, st[m]>> : m \in Layers(st, b, r, a)}]

-----------------------------------------------------------------------------
(* Bundles and rows.                                                       *)

NoBundle == [from |-> "none"]
OfYaml(y) == [from |-> "yaml", yaml |-> y]
OfModules(p) == [from |-> "modules", policy |-> p]

Modular == binding # NoRoles
Registered == {a \in Agents : agents[a].yaml # "unregistered"}

\* compile_bundle on a policy_yaml: no bundle without opa or when it is broken.
FromYaml(y) == IF opa /\ y # "broken" THEN OfYaml(y) ELSE NoBundle

\* The bundle an agent should have, were opa up throughout.
Buildable(a) == Composes(store, binding, a) /\ Compiles(store, binding, a)
Current(a) == OfModules(Resolved(store, binding, a))

\* bundle_for_agent.
BundleFor(a, y) ==
    CASE ~Modular -> FromYaml(y)
      [] Modular /\ opa /\ Buildable(a) -> Current(a)
      [] OTHER -> NoBundle

\* "fanout": a recompile of every agent; "flip": the one that makes a classic
\* project modular; "row": one agent's own row.
NoJob == [stage |-> "idle", kind |-> "row", ok |-> TRUE, rows |-> [a \in {} |-> {}]]
Stage(w) == job[w].stage

Init ==
    /\ store = [m \in Modules |-> Absent]
    /\ binding = NoRoles
    /\ agents = [a \in Agents |-> [yaml |-> "unregistered", bundle |-> NoBundle]]
    /\ lock = Free
    /\ job = [w \in Writers |-> NoJob]
    /\ opa \in BOOLEAN
    /\ writes = 0
    /\ debt = "none"

-----------------------------------------------------------------------------
(* A request takes the project lock, checks, and commits its store rows.   *)

\* Faulty variant: nobody waits for the lock.
EnterUnlocked(w) ==
    /\ Stage(w) = "idle"
    /\ writes < MaxWrites
    /\ writes' = writes + 1

\* async with project_lock(project_id).
Enter(w) ==
    /\ lock = Free
    /\ Stage(w) = "idle"
    /\ writes < MaxWrites
    /\ writes' = writes + 1

\* The request goes on to recompile, and keeps the lock.
Recompile(w, kind) ==
    /\ lock' = w
    /\ job' = [job EXCEPT ![w] = [NoJob EXCEPT !.stage = "compile", !.kind = kind]]
    /\ debt' = IF debt = "none" THEN "stale" ELSE debt

\* The request is over: the lock is taken and left between two of our steps.
Answer == UNCHANGED <<lock, job, debt>>

\* A boundary that would be conditional on consts.k is left out.
Writable(m) == IF m \in Fences THEN Contents \ {"uses", "denies"} ELSE Contents

\* PUT policy-modules/{tier}/{path}.  A modular project must still resolve with
\* the draft; an unchanged hash is not recompiled.
PutModule(w, m, c) ==
    /\ Enter(w)
    /\ Modular => ComposesForAll([store EXCEPT ![m] = c], binding)
    /\ store' = [store EXCEPT ![m] = c]
    /\ IF Modular /\ store[m] # c THEN Recompile(w, "fanout") ELSE Answer
    /\ UNCHANGED <<binding, agents, opa>>

\* roles_importing.
RolesImporting(c) ==
    {r \in DOMAIN binding : \E a \in DOMAIN binding[r] : c \in binding[r][a]}

\* Faulty variant: a capability is deleted under the roles that import it.
DeleteModuleInUse(w, m) ==
    /\ Enter(w)
    /\ store[m] # Absent
    /\ store' = [store EXCEPT ![m] = Absent]
    /\ IF Modular THEN Recompile(w, "fanout") ELSE Answer
    /\ UNCHANGED <<binding, agents, opa>>

\* DELETE policy-modules/{tier}/{path}.  Only a capability is checked, and only
\* for being imported.
DeleteModule(w, m) ==
    /\ Enter(w)
    /\ store[m] # Absent
    /\ m \in Caps => RolesImporting(m) = {}
    /\ store' = [store EXCEPT ![m] = Absent]
    /\ IF Modular THEN Recompile(w, "fanout") ELSE Answer
    /\ UNCHANGED <<binding, agents, opa>>

\* PUT policy-roles: a wholesale replace.  The first binding flips the project.
PutRoles(w, b) ==
    /\ Enter(w)
    /\ b # binding
    /\ b # NoRoles => ComposesForAll(store, b)
    /\ binding' = b
    /\ Recompile(w, IF Modular \/ b = NoRoles THEN "fanout" ELSE "flip")
    /\ UNCHANGED <<store, agents, opa>>

\* A request on one agent has its new row ready, and still has to commit it.
Prepare(w, a, row) ==
    /\ lock' = w
    /\ job' = [job EXCEPT ![w] = [stage |-> "install", kind |-> "row", ok |-> TRUE,
                                  rows |-> [x \in {a} |-> row]]]
    /\ UNCHANGED <<store, binding, agents, opa, debt>>

\* PUT agents/{name}, with an edited policy_yaml or the one it has.  Only a
\* classic agent is recompiled from it.
UpdateAgent(w, a, y) ==
    /\ Enter(w)
    /\ a \in Registered
    /\ y \in Edits \union {agents[a].yaml}
    /\ Prepare(w, a, [yaml |-> y,
                      bundle |-> IF Modular THEN agents[a].bundle ELSE FromYaml(y)])

\* POST /v1/agents for a new name.
Register(w, a) ==
    /\ Enter(w)
    /\ a \in Agents \ Registered
    /\ LET y == IF Modular THEN "denyall" ELSE "starter" IN
       Prepare(w, a, [yaml |-> y, bundle |-> BundleFor(a, y)])

-----------------------------------------------------------------------------
(* recompile_project, under the lock the request still holds.              *)

\* Faulty variant: a modular agent that cannot be built is blanked.
CompileBlanks(w) ==
    /\ Stage(w) = "compile"
    /\ job' = [job EXCEPT ![w].stage = "install",
                          ![w].rows = [a \in Registered |->
                              [agents[a] EXCEPT !.bundle = BundleFor(a, agents[a].yaml)]]]
    /\ UNCHANGED <<store, binding, agents, lock, opa, writes, debt>>

\* Resolve every agent and compile: a modular project all or nothing, a classic
\* one agent by agent, with no bundle where the policy_yaml does not compile.
Compile(w) ==
    /\ Stage(w) = "compile"
    /\ LET built == ~Modular \/ \A a \in Registered : opa /\ Buildable(a) IN
       job' = [job EXCEPT ![w].stage = "install",
                          ![w].ok = built,
                          ![w].rows = [a \in {x \in Registered : built} |->
                              [agents[a] EXCEPT !.bundle = BundleFor(a, agents[a].yaml)]]]
    /\ UNCHANGED <<store, binding, agents, lock, opa, writes, debt>>

Leave(w) == lock' = Free /\ job' = [job EXCEPT ![w] = NoJob]

\* Commit the rows of the job; the request is over.
Install(w) ==
    /\ Stage(w) = "install"
    /\ job[w].ok
    /\ agents' = [a \in Agents |->
                    IF a \in DOMAIN job[w].rows THEN job[w].rows[a] ELSE agents[a]]
    /\ debt' = IF job[w].kind = "row" THEN debt ELSE "none"
    /\ Leave(w)
    /\ UNCHANGED <<store, binding, opa, writes>>

\* Faulty variant: a flip that cannot be built is treated like any fan-out.
KeepAlways(w) ==
    /\ Stage(w) = "install"
    /\ ~job[w].ok
    /\ Leave(w)
    /\ UNCHANGED <<store, binding, agents, opa, writes, debt>>

\* Nothing could be built: live bundles are kept, and a flip is undone.
Keep(w) ==
    /\ Stage(w) = "install"
    /\ ~job[w].ok
    /\ IF job[w].kind = "flip"
       THEN job' = [job EXCEPT ![w].stage = "undo"] /\ UNCHANGED lock
       ELSE Leave(w)
    /\ UNCHANGED <<store, binding, agents, opa, writes, debt>>

\* The second commit fails: swallowed after a fan-out, an error for one agent.
InstallFails(w) ==
    /\ Stage(w) = "install"
    /\ job[w].ok
    /\ IF job[w].kind = "flip"
       THEN job' = [job EXCEPT ![w].stage = "undo"] /\ UNCHANGED <<lock, debt>>
       ELSE /\ Leave(w)
            /\ debt' = IF job[w].kind = "row" THEN debt ELSE "torn"
    /\ UNCHANGED <<store, binding, agents, opa, writes>>

\* set_roles(before): the project is classic again.
Undo(w) ==
    /\ Stage(w) = "undo"
    /\ binding' = NoRoles
    /\ debt' = IF debt = "stale" THEN "none" ELSE debt
    /\ Leave(w)
    /\ UNCHANGED <<store, agents, opa, writes>>

\* The rollback fails too: the error leaves the handler.
UndoFails(w) ==
    /\ Stage(w) = "undo"
    /\ debt' = "torn"
    /\ Leave(w)
    /\ UNCHANGED <<store, binding, agents, opa, writes>>

-----------------------------------------------------------------------------
(* The environment.                                                        *)

OpaComesAndGoes ==
    /\ opa' = ~opa
    /\ UNCHANGED <<store, binding, agents, lock, job, writes, debt>>

\* backfill_bundles: agents without a bundle get one, if they all resolve.
Backfilled ==
    LET bare == {a \in Registered : agents[a].bundle = NoBundle}
        resolves == ~Modular \/ \A a \in bare : Composes(store, binding, a)
    IN [a \in Agents |->
            IF a \in bare /\ resolves
            THEN [agents[a] EXCEPT !.bundle = BundleFor(a, agents[a].yaml)]
            ELSE agents[a]]

\* The server stops between any two steps, drops its requests and its locks,
\* and starts again.
Restart ==
    /\ agents' = Backfilled
    /\ lock' = Free
    /\ job' = [w \in Writers |-> NoJob]
    /\ debt' = IF \E w \in Writers : Stage(w) # "idle" /\ job[w].kind # "row"
               THEN "torn" ELSE debt
    /\ UNCHANGED <<store, binding, opa, writes>>

-----------------------------------------------------------------------------
WriterStep(w) ==
    \/ \E m \in Modules, c \in Contents : c \in Writable(m) /\ PutModule(w, m, c)
    \/ \E m \in Modules : DeleteModule(w, m)
    \/ \E b \in Bindings : PutRoles(w, b)
    \/ \E a \in Agents : Register(w, a)
    \/ \E a \in Agents, y \in Texts : UpdateAgent(w, a, y)
    \/ Compile(w) \/ Install(w) \/ Keep(w) \/ InstallFails(w) \/ Undo(w) \/ UndoFails(w)

Next == Restart \/ OpaComesAndGoes \/ \E w \in Writers : WriterStep(w)

Spec == Init /\ [][Next]_vars

-----------------------------------------------------------------------------
(* Safety.                                                                 *)

\* A project that has bindings links: what its roles import is stored, and no
\* capability of its library denies.  Store edits, deletes and binding changes
\* each check their own half of it (roles_importing, resolves_with_module,
\* resolves_proposed).
LibraryLinks ==
    Modular =>
        /\ \A r \in DOMAIN binding : \A a \in DOMAIN binding[r] :
              binding[r][a] \subseteq Stored(store)
        /\ \A c \in Caps : store[c] # "denies"

\* Unless a write has failed to build or was cut short since the last whole
\* fan-out, each agent's bundle is what its project's store says now: writes
\* that skip the recompile change nothing, and no older compile lands on top.
BundlesMatchStore ==
    debt = "none" =>
        \A a \in Registered :
            agents[a].bundle \in
                {NoBundle, IF Modular THEN Current(a) ELSE OfYaml(agents[a].yaml)}

\* A project is enforced in one mode: when no write is under way and none was
\* cut short, a modular project has no policy_yaml bundle and a classic one no
\* modular bundle, whichever builds failed on the way.
OneMode ==
    lock = Free /\ debt # "torn" =>
        \A a \in Agents : agents[a].bundle.from \in
            {"none", IF Modular THEN "modules" ELSE "yaml"}

\* No write, failed build or restart takes away a modular project's live bundle
\* while it stays modular (R-POL-002: leave the last good bundle in place).
LastGoodStays ==
    [][\A a \in Agents :
          (Modular /\ Modular' /\ agents[a].bundle # NoBundle)
              => agents'[a].bundle # NoBundle]_vars
=============================================================================
