--------------------------- MODULE PolicyEngines ---------------------------
(***************************************************************************)
(* One source, two engines (hexgate/security): loading a document resolves *)
(* inheritance (policy_set.py), linking a project folds its modules        *)
(* (linker.py); the pydantic engine looks a rule up and evaluates it       *)
(* (policy.py, models.py), compilation turns the roles into a set of Rego  *)
(* rules (rego.py) that the bundle evaluates (bundle.py).                  *)
(***************************************************************************)
EXTENDS Linking

CONSTANTS
    Docs,               \* documents: role -> policy as written
    Projects,           \* projects of modules, each with the agent it is linked for
    RoleOrder,          \* all role names in the order sorted() gives them
    Requests,           \* [role, tool, facts] of calls
    NoRole,             \* the caller has no role
    RoleFact,           \* role name or NoRole -> the value constraints see
    ToolFact            \* tool key -> the value constraints see

\* Tool keys are pairs: a tool, admission, or reaching a target by a mode.
Run == <<"agent.run", "">>
Reach(via, target) == <<via, target>>
IsReach(key) == key[1] \in {"tool:", "handoff:"}

\* An inherited field is written or not.
Written(x) == [written |-> TRUE, is |-> x]
Unwritten(x) == [written |-> FALSE, is |-> x]

VARIABLES
    doc,                \* the document, or None
    project,            \* the project, or None
    loaded,             \* role -> resolved policy, or None
    module,             \* the compiled rules and constants, or None
    asked               \* the request under decision, or None

vars == <<doc, project, loaded, module, asked>>

Init ==
    /\ \/ doc \in Docs /\ project = None
       \/ doc = None /\ project \in Projects
    /\ loaded = None
    /\ module = None
    /\ asked = None

-----------------------------------------------------------------------------
(* load_policy_map *)

\* Ancestry that ends: no cycle, no unknown parent.
RECURSIVE Ends(_, _)
Ends(r, chain) ==
    /\ r \in DOMAIN doc /\ r \notin chain
    /\ \A p \in Range(doc[r].inherits) : Ends(p, chain \union {r})

\* Faulty variant: earlier parents win over later ones.
OverlayFirst(merged, p) ==
    [tools |-> merged.tools @@ p.tools, agents |-> merged.agents @@ p.agents,
     consts |-> merged.consts @@ p.consts, default |-> p.default,
     admission |-> IF p.admission # None THEN p.admission ELSE merged.admission]

\* One parent over what is merged so far; a parent without admission keeps it.
Overlay(merged, p) ==
    [tools |-> p.tools @@ merged.tools, agents |-> p.agents @@ merged.agents,
     consts |-> p.consts @@ merged.consts, default |-> p.default,
     admission |-> IF p.admission # None THEN p.admission ELSE merged.admission]

\* _resolve_inheritance: parents left to right, the role's own fields last.
RECURSIVE Resolved(_)
Resolved(r) ==
    LET own == doc[r]
        empty == [tools |-> <<>>, agents |-> <<>>, consts |-> <<>>,
                  default |-> own.default.is, admission |-> own.admission.is]
        parents == [i \in DOMAIN own.inherits |-> Resolved(own.inherits[i])]
        merged == FoldLeft(Overlay, empty, parents) IN
    [tools |-> own.tools @@ merged.tools, agents |-> own.agents @@ merged.agents,
     consts |-> own.consts @@ merged.consts,
     default |-> IF own.default.written THEN own.default.is ELSE merged.default,
     admission |-> IF own.admission.written THEN own.admission.is ELSE merged.admission]

\* effective_tools: admission and targets as tool keys.
Effective(p) ==
    LET targets == {<<via, t>> : via \in {"tool:", "handoff:"}, t \in DOMAIN p.agents}
        listed == {k \in targets : k[1] \in p.agents[k[2]].via} IN
    [k \in listed |-> p.agents[k[2]].rule]
        @@ (IF p.admission = None THEN <<>> ELSE Run :> p.admission) @@ p.tools

\* _validate_const_refs
RulesOf(p) == Range(Effective(p)) \union {p.default}
ConstsKnown(p) == ConstsDefined(RulesOf(p), p.consts)

\* Mixins are dropped; without a "default" the first role by name stands in.
Concrete == {r \in DOMAIN doc : ~doc[r].mixin}
Fallback ==
    IF "default" \in Concrete THEN "default"
    ELSE Head(SelectSeq(RoleOrder, LAMBDA r : r \in Concrete))
Governs(role) == IF role \in Concrete THEN role ELSE Fallback

\* load_policy_map
Load ==
    /\ doc # None /\ loaded = None
    /\ Concrete # {}
    /\ \A r \in DOMAIN doc : Ends(r, {})
    /\ LET roles == [r \in Concrete \union {"default"} |-> Resolved(Governs(r))] IN
       /\ \A r \in DOMAIN roles : ConstsKnown(roles[r])
       /\ loaded' = roles
    /\ UNCHANGED <<doc, project, module, asked>>

\* The build of an agent's bundle: its project, resolved for it.
Link ==
    /\ project # None /\ loaded = None
    /\ Resolves(project, project.agent)
    /\ loaded' = Linked(project, project.agent)
    /\ UNCHANGED <<doc, project, module, asked>>

-----------------------------------------------------------------------------
(* The pydantic engine. *)

PolicyFor(role) == loaded[IF role \in DOMAIN loaded THEN role ELSE "default"]

\* get_tool_policy: what an unlisted key falls back to depends on its kind.
ToolRule(p, tool) ==
    IF tool \in DOMAIN Effective(p) THEN Effective(p)[tool]
    ELSE IF tool = Run THEN Allow
    ELSE IF IsReach(tool) THEN Deny
    ELSE p.default

Facts(req, role) ==
    Value("object", 0, <<"args", "ctx", "role", "tool">>, <<req.args, req.ctx, RoleFact[role], ToolFact[req.tool]>>)
Env(req, role, consts) == [doc |-> Facts(req, role), elem |-> Missing, consts |-> consts]

\* evaluate_tool_call
Decided(p, req) ==
    LET rule == ToolRule(p, req.tool)
        env == Env(req, req.role, p.consts) IN
    IF /\ rule.mode # "deny"
       /\ \A i \in DOMAIN rule.constraints : Py(rule.constraints[i], env)
       /\ rule.scoped => req.inScope
    THEN rule.mode ELSE "deny"
Pydantic(req) == Decided(PolicyFor(req.role), req)

-----------------------------------------------------------------------------
(* Compilation. *)

\* A guard names what it admits, or what it excludes.
Only(names) == [excludes |-> FALSE, names |-> names, reach |-> TRUE]
AllBut(names) == [excludes |-> TRUE, names |-> names, reach |-> TRUE]
Passes(guard, x) == (x \in guard.names) # guard.excludes

\* _role_guard: default speaks for every role that is not defined.
RoleGuard(r) == IF r = "default" THEN AllBut(DOMAIN loaded \ {r}) ELSE Only({r})

\* _gated_rules: deny is the absence of a rule.
Gated(roles, tools, rule) ==
    IF rule.mode = "deny" THEN {}
    ELSE {[roles |-> roles, tools |-> tools, mode |-> rule.mode, constraints |-> rule.constraints]}

\* _default_rules: every key that is not listed, except those that reach.
CatchAll(r, p) ==
    Gated(RoleGuard(r), [AllBut(DOMAIN Effective(p)) EXCEPT !.reach = FALSE], p.default)

\* _rules_for_role
RulesFor(r) ==
    LET p == loaded[r]
        e == Effective(p) IN
    CatchAll(r, p)
        \union UNION {Gated(RoleGuard(r), Only({k}), e[k]) : k \in DOMAIN e}
        \union (IF Run \in DOMAIN e THEN {} ELSE Gated(RoleGuard(r), Only({Run}), Allow))

\* _collect_consts: one value per name, the last role's, compared as Python does.
ConstNames == UNION {DOMAIN loaded[r].consts : r \in DOMAIN loaded}
ConstsConflict(roles) ==
    \E r, q \in DOMAIN roles : \E c \in DOMAIN roles[r].consts \intersect DOMAIN roles[q].consts :
        ~PythonEq(roles[r].consts[c], roles[q].consts[c])
MergedConsts ==
    [c \in ConstNames |->
        LET roles == SelectSeq(RoleOrder, LAMBDA r : r \in DOMAIN loaded /\ c \in DOMAIN loaded[r].consts) IN
        loaded[Last(roles)].consts[c]]

\* What the Rego engine cannot express is refused, where a rule would be emitted.
Unsupported(rule) ==
    rule.mode # "deny" /\ (rule.scoped \/ \E i \in DOMAIN rule.constraints : Refused(rule.constraints[i], FALSE))

\* What compile_to_rego does not refuse.
Compiles(roles) ==
    /\ ~ConstsConflict(roles)
    /\ \A r \in DOMAIN roles : \A rule \in RulesOf(roles[r]) : ~Unsupported(rule)

\* compile_to_rego
Compile ==
    /\ loaded # None /\ module = None
    /\ Compiles(loaded)
    /\ module' = [rules |-> UNION {RulesFor(r) : r \in DOMAIN loaded}, consts |-> MergedConsts]
    /\ UNCHANGED <<doc, project, loaded, asked>>

\* A caller without a role is sent as "default".
Sent(role) == IF role \in {NoRole, ""} THEN "default" ELSE role
Applies(rule, req) ==
    /\ Passes(rule.roles, Sent(req.role)) /\ Passes(rule.tools, req.tool)
    /\ IsReach(req.tool) => rule.tools.reach
WasmEnv(req) == Env(req, Sent(req.role), module.consts)

\* The decision document and verdict_from_rego.
Wasm(req) ==
    LET firing == {rule \in module.rules : Applies(rule, req) /\
                       \A i \in DOMAIN rule.constraints : Body(rule.constraints[i], WasmEnv(req))}
        modes == {rule.mode : rule \in firing} IN
    IF "allow" \in modes THEN "allow" ELSE IF "approval" \in modes THEN "approval" ELSE "deny"
Violations(req) ==
    UNION {{c \in Range(rule.constraints) : Negated(c, WasmEnv(req))} : rule \in {x \in module.rules : Applies(x, req)}}

-----------------------------------------------------------------------------
\* PolicyEnforcer.decide for one role, against either engine.
Ask ==
    /\ loaded # None /\ asked = None
    /\ asked' \in Requests
    /\ UNCHANGED <<doc, project, loaded, module>>

Next == Load \/ Link \/ Compile \/ Ask
Spec == Init /\ [][Next]_vars

-----------------------------------------------------------------------------
(* The lint on the fallback role (analyzer.py). *)

\* The other roles: neither default nor the role that stands in for it.
Others == DOMAIN loaded \ {"default", Fallback}

\* check_default_role_exposure: what only the fallback grants, key by key ...
Exposed ==
    LET grants(r) == {k \in DOMAIN Effective(loaded[r]) : IsGrant(Effective(loaded[r])[k])} IN
    grants("default") \ UNION {grants(r) : r \in Others}
\* ... and by its default policy.
OpenWorld == IsGrant(loaded["default"].default) /\ \A r \in Others : ~IsGrant(loaded[r].default)

-----------------------------------------------------------------------------
(* Properties. *)

\* Where the engines are known to part: see Divides; a constraint on the role of
\* a caller without one; a constant on which roles differ as Python cannot tell.
Apart(req) ==
    LET p == PolicyFor(req.role)
        rule == ToolRule(p, req.tool) IN
    \E i \in DOMAIN rule.constraints :
        \/ Divides(rule.constraints[i], Env(req, req.role, p.consts))
        \/ req.role # Sent(req.role) /\ Py(rule.constraints[i], Env(req, req.role, p.consts))
                                        # Py(rule.constraints[i], Env(req, Sent(req.role), p.consts))
        \/ \E c \in ConstsOf(rule.constraints[i]) : p.consts[c] # module.consts[c]

\* A denial by constraint names a constraint, and only then (rego.py, the
\* positive and the negated rule): rule and violations are each other's negation
\* whatever operand is missing or of the wrong type.
ViolationsExplain ==
    asked # None /\ module # None =>
        LET rules == {rule \in module.rules : Applies(rule, asked)} IN
        /\ rules # {} /\ Wasm(asked) = "deny" => Violations(asked) # {}
        /\ Cardinality(rules) = 1 /\ Violations(asked) # {} => Wasm(asked) = "deny"

\* The ancestors of a role in the order in which their fields are laid over
\* each other, itself last.
RECURSIVE Line(_)
Line(r) ==
    FoldLeft(LAMBDA s, p : s \o Line(p), <<>>, doc[r].inherits) \o <<r>>
LastWith(r, Defines(_)) ==
    LET line == SelectSeq(Line(r), Defines) IN IF line = <<>> THEN None ELSE Last(line)

\* Reaching another agent is a closed world (models.py, is_agent_reach_key): no
\* default policy, own, inherited or another role's, lets a caller hand over to
\* or call an agent that no ancestor of its role names for that mode.
ReachIsListed ==
    asked # None /\ IsReach(asked.tool) =>
        LET named == doc # None /\ \E a \in Range(Line(Governs(asked.role))) :
                         /\ asked.tool[2] \in DOMAIN doc[a].agents
                         /\ asked.tool[1] \in doc[a].agents[asked.tool[2]].via IN
        named \/ (Pydantic(asked) = "deny" /\ (module # None => Wasm(asked) = "deny"))

\* Both engines decide identically for every input (test_engine_parity.py),
\* whatever fallback, inheritance, fact or composition the answer comes from,
\* except where they are known to part; the violations explain the decision, and
\* the agents one can reach are those that are listed.
EnginesAgree ==
    /\ asked # None /\ module # None => Apart(asked) \/ Pydantic(asked) = Wasm(asked)
    /\ ViolationsExplain
    /\ ReachIsListed

\* Merging parent by parent gives each field to the last of the line that
\* defines it (policy_set.py, _resolve_inheritance), and a gate on admission is
\* lost only where a role writes that it has none.
InheritanceIsLinear ==
    doc # None /\ loaded # None =>
        \A r \in Concrete :
            /\ \A t \in UNION {DOMAIN doc[a].tools : a \in Range(Line(r))} :
                   loaded[r].tools[t] = doc[LastWith(r, LAMBDA a : t \in DOMAIN doc[a].tools)].tools[t]
            /\ \A t \in UNION {DOMAIN doc[a].agents : a \in Range(Line(r))} :
                   loaded[r].agents[t] = doc[LastWith(r, LAMBDA a : t \in DOMAIN doc[a].agents)].agents[t]
            /\ (\A a \in Range(Line(r)) : ~doc[a].admission.written \/ doc[a].admission.is # None) =>
                   LET a == LastWith(r, LAMBDA x : doc[x].admission.written) IN
                   loaded[r].admission = IF a = None THEN None ELSE doc[a].admission.is

\* The capabilities bound to a role, and whether a module's rule fits the request.
Bound(role) ==
    LET map == RoleMap(project, project.agent) IN map[IF role \in DOMAIN map THEN role ELSE "default"]
Lists(m) == asked.tool \in DOMAIN m.tools
Fits(m) ==
    LET env == Env(asked, asked.role, MergedOver(project.boundaries \o Bound(asked.role))) IN
    \A i \in DOMAIN m.tools[asked.tool].constraints : Py(m.tools[asked.tool].constraints[i], env)

\* What the layers say one by one (linker.py: fences intersect, grants union,
\* denies win), on the constraints as their authors meant them.
Layered ==
    LET grants(m) == Lists(m) /\ IsGrant(m.tools[asked.tool])
        fenced == \E b \in Range(project.boundaries) :
            \/ Lists(b) /\ ~grants(b) /\ Fits(b)
            \/ b.default.mode = "deny" /\ ~grants(b)
            \/ grants(b) /\ ~Fits(b)
        granted == \E c \in Range(Bound(asked.role)) : grants(c) /\ Fits(c)
        asks == \E m \in Range(project.boundaries \o Bound(asked.role)) :
                    Lists(m) /\ m.tools[asked.tool].mode = "approval" IN
    IF fenced \/ ~granted THEN "deny" ELSE IF asks THEN "approval" ELSE "allow"

\* The linked policy, assembled as text and parsed again, decides in both engines
\* as its layers do one by one: no layer loosens another, none is lost, and no
\* line changes its meaning by the lines it is joined to.
LayersCompose ==
    project # None /\ asked # None /\ loaded # None /\ asked.tool[1] = "tool" =>
        /\ Pydantic(asked) = Layered
        /\ module # None => Apart(asked) \/ Wasm(asked) = Layered

\* A capability gives a constant another value than a second one does; a line is
\* written that rego refuses.
ConstsDiffer == Clash(project.library)
LineRefused ==
    \E m \in Range(project.boundaries \o project.library) : \E t \in DOMAIN m.tools :
        \E c \in Range(m.tools[t].constraints) : Refused(c, FALSE)

\* A project the analyzer reports no link error for links for every agent, named
\* in the matrix or not (analyzer.py, check_project), and what is linked compiles
\* (rego.py, compile_to_rego), but for two things that the check does not look at:
\* a constant on which two capabilities differ, which two roles may import one
\* each, and a line that only the compiler refuses.
CheckedProjectsBuild ==
    project # None /\ loaded = None /\ LinkErrors(project) = {} =>
        \A a \in NamedAgents(project) \union {project.agent} :
            /\ Resolves(project, a)
            /\ ConstsDiffer \/ LineRefused \/ Compiles(Linked(project, a))

\* The capabilities of a role without one grant, or with one unconditional.
Without(caps, g) == [caps EXCEPT ![g[1]].tools = [t \in (DOMAIN @) \ {g[2]} |-> @[t]]]
Unconditional(caps, g) == [caps EXCEPT ![g[1]].tools[g[2]].constraints = <<>>]

\* No grant that only the fallback role holds, and that any caller reaches by an
\* unrecognised role name, goes unreported.  Two cases are left out: admission,
\* which every role grants unless it lists it; and a tool listed nowhere in the
\* fallback, where another role's default policy grants as well.
ExposureIsReported ==
    asked.role \notin DOMAIN loaded /\ DOMAIN loaded # {"default"} =>
        LET elsewhere == \E r \in Others : ToolRule(loaded[r], asked.tool).mode # "deny"
            silent == /\ asked.tool \notin DOMAIN Effective(loaded["default"])
                      /\ asked.tool = Run \/ \E r \in Others : IsGrant(loaded[r].default) IN
        Pydantic(asked) # "deny" => elsewhere \/ silent \/ OpenWorld \/ asked.tool \in Exposed

\* What the lints say is so (analyzer.py): a dead grant never fires; a repeated
\* grant, and the condition of an erased one, can go without changing a decision;
\* an unused capability without changing the policy of any role; and a document
\* is not silent about what its fallback role exposes.
LintsAreTrue ==
    /\ doc # None /\ asked # None => ExposureIsReported
    /\ project # None /\ loaded # None /\ asked = None =>
           \A name \in Unused(project) :
               Linked([project EXCEPT !.library = SelectSeq(@, LAMBDA m : m.name # name)], project.agent) = loaded
    /\ project # None /\ asked # None =>
           LET caps == Bound(asked.role)
               same(others) == Decided(Folded(project.boundaries, others), asked) = Pydantic(asked) IN
           \A g \in Grants(caps) : g[2] = asked.tool =>
               /\ g \in Dead(PolicyFor(asked.role), caps) => Pydantic(asked) = "deny"
               /\ g \in Redundant(caps) => same(Without(caps, g))
               /\ g \in Erased(caps) => same(Unconditional(caps, g))

\* What the analyzer says of a project holds of what is built from it: it links for
\* every agent, not only for the generic one it is checked for, and compiles where
\* only links are at stake; and what the lints claim is so.
AnalyzerIsRight == CheckedProjectsBuild /\ LintsAreTrue
=============================================================================
