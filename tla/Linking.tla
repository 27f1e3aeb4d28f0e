------------------------------ MODULE Linking ------------------------------
(***************************************************************************)
(* A project of policy modules: the linker that folds its layers into one  *)
(* policy per role (hexgate/security/linker.py), the constraint parser the *)
(* assembled texts go through (constraints.py), and the analyzer's lints   *)
(* (analyzer.py).                                                          *)
(*                                                                         *)
(* A module holds the constraints its author meant; TextOf writes one down.  *)
(***************************************************************************)
EXTENDS Constraints, FiniteSets, TLC

CONSTANT None

\* A rule: deny, allow or approval_required, under constraints, with a path scope
\* or not.
Rule(mode, constraints) == [mode |-> mode, constraints |-> constraints, scoped |-> FALSE]
Deny == Rule("deny", <<>>)
Allow == Rule("allow", <<>>)
GrantModes == {"allow", "approval"}
IsGrant(rule) == rule.mode \in GrantModes
ConstsDefined(rules, consts) ==
    \A rule \in rules : \A i \in DOMAIN rule.constraints : ConstsOf(rule.constraints[i]) \subseteq DOMAIN consts

-----------------------------------------------------------------------------
(* Texts: words and parentheses; a comparison, call or quantifier is one word. *)

Word(w) == [w |-> w, node |-> None]
Parens(text) == <<Word("(")>> \o text \o <<Word(")")>>
Joined(w, texts) == FoldLeft(LAMBDA s, t : IF s = <<>> THEN t ELSE s \o <<Word(w)>> \o t, <<>>, texts)

\* A constraint as an author writes it, with the parentheses the grammar needs.
RECURSIVE TextOf(_)
TextOf(node) ==
    CASE node.k = "or" -> Joined("or", [i \in DOMAIN node.parts |-> TextOf(node.parts[i])])
      [] node.k = "and" ->
             Joined("and", [i \in DOMAIN node.parts |->
                 IF node.parts[i].k = "or" THEN Parens(TextOf(node.parts[i])) ELSE TextOf(node.parts[i])])
      [] node.k = "not" ->
             <<Word("not")>> \o (IF node.inner.k \in {"and", "or"} THEN Parens(TextOf(node.inner)) ELSE TextOf(node.inner))
      [] OTHER -> <<[w |-> "atom", node |-> node]>>

\* Parentheses open before place i.
Depth(text, i) ==
    LET Before(w) == Cardinality({j \in 1..(i - 1) : text[j].w = w}) IN Before("(") - Before(")")

\* _split_bool: at the keyword, outside parentheses.
SplitBool(text, w) ==
    LET cuts == {i \in DOMAIN text : text[i].w = w /\ Depth(text, i) = 0}
        ends == <<0>> \o SetToSortSeq(cuts, <) \o <<Len(text) + 1>> IN
    [i \in 1..(Len(ends) - 1) |-> SubSeq(text, ends[i] + 1, ends[i + 1] - 1)]

\* _is_wholly_parenthesized: one group, not "(a) or (b)".
WhollyParenthesized(text) ==
    /\ text[1].w = "(" /\ text[Len(text)].w = ")"
    /\ \A i \in 2..Len(text) : Depth(text, i) > 0

\* parse_constraint: or binds loosest, then and, then not, then a primary.
RECURSIVE Parsed(_)
Parsed(text) ==
    LET ors == SplitBool(text, "or")
        ands == SplitBool(text, "and") IN
    IF Len(ors) > 1 THEN Or([i \in DOMAIN ors |-> Parsed(ors[i])])
    ELSE IF Len(ands) > 1 THEN And([i \in DOMAIN ands |-> Parsed(ands[i])])
    ELSE IF text[1].w = "not" THEN Not(Parsed(Tail(text)))
    ELSE IF WhollyParenthesized(text) THEN Parsed(SubSeq(text, 2, Len(text) - 1))
    ELSE text[1].node

-----------------------------------------------------------------------------
(* The fold of one role: fences intersect, grants union, denies win.  A module *)
(* has a name, a default, tools, constants and further fields it sets.         *)

\* The rules modules have for a tool, in their order.
RulesOn(tool, modules) ==
    LET listing == SelectSeq(modules, LAMBDA m : tool \in DOMAIN m.tools) IN
    [i \in DOMAIN listing |-> listing[i].tools[tool]]
TextsOf(rule) == [i \in DOMAIN rule.constraints |-> TextOf(rule.constraints[i])]

\* Faulty variant: the lines of a rule are joined as they are.
BareAnd(texts) == Joined("and", texts)

\* _and_expr
AndExpr(texts) == Joined("and", [i \in DOMAIN texts |-> Parens(texts[i])])

\* _union: one unconditional grant makes the union so; at most one line.
Union(grants) ==
    LET texts == [i \in DOMAIN grants |-> AndExpr(TextsOf(grants[i]))] IN
    IF \E i \in DOMAIN grants : grants[i].constraints = <<>> THEN <<>>
    ELSE IF Len(texts) = 1 THEN texts
    ELSE <<Joined("or", [i \in DOMAIN texts |-> Parens(texts[i])])>>

\* A boundary that denies by default permits only what it grants.
Ineligible(tool, boundaries) ==
    \E i \in DOMAIN boundaries :
        LET b == boundaries[i] IN
        b.default.mode = "deny" /\ ~(tool \in DOMAIN b.tools /\ IsGrant(b.tools[tool]))

\* _fold_tool: the rule of a tool, or None where no rule is emitted.
FoldTool(tool, boundaries, capabilities) ==
    LET fences == RulesOn(tool, boundaries)
        denies == SelectSeq(fences, LAMBDA r : r.mode = "deny")
        ceilings == SelectSeq(fences, IsGrant)
        grants == SelectSeq(RulesOn(tool, capabilities), IsGrant)
        subtracted == [i \in DOMAIN denies |-> <<Word("not")>> \o Parens(AndExpr(TextsOf(denies[i])))]
        texts == FlattenSeq([i \in DOMAIN ceilings |-> TextsOf(ceilings[i])]) \o Union(grants) \o subtracted
        asks == \E r \in Range(ceilings) \union Range(grants) : r.mode = "approval" IN
    IF \E i \in DOMAIN denies : denies[i].constraints = <<>> THEN Deny
    ELSE IF Ineligible(tool, boundaries) \/ grants = <<>> THEN None
    ELSE Rule(IF asks THEN "approval" ELSE "allow", [i \in DOMAIN texts |-> Parsed(texts[i])])

\* _merge_consts: a name defined twice needs equal values, as Python compares.
Clash(modules) ==
    \E i, j \in DOMAIN modules : \E c \in DOMAIN modules[i].consts \intersect DOMAIN modules[j].consts :
        ~PythonEq(modules[i].consts[c], modules[j].consts[c])
MergedOver(modules) == FoldLeft(LAMBDA merged, m : m.consts @@ merged, <<>>, modules)

\* What link refuses: path scopes, fields and constraints the fold would drop, a
\* capability that denies, a constant with two values.
Denies(module) == \E t \in DOMAIN module.tools : module.tools[t].mode = "deny"
Unlinkable(boundaries, capabilities) ==
    LET layers == boundaries \o capabilities IN
    \/ \E m \in Range(layers) : \/ \E t \in DOMAIN m.tools : m.tools[t].scoped
                                \/ m.extra # {}
                                \/ m.default.constraints # <<>>
    \/ \E m \in Range(capabilities) : Denies(m)
    \/ Clash(layers)

\* link: the effective policy denies whatever no layer grants.
Folded(boundaries, capabilities) ==
    LET layers == boundaries \o capabilities
        names == UNION {DOMAIN m.tools : m \in Range(layers)}
        rule == [t \in names |-> FoldTool(t, boundaries, capabilities)] IN
    [tools |-> [t \in {n \in names : rule[n] # None} |-> rule[t]], agents |-> <<>>,
     consts |-> MergedOver(layers), default |-> Deny, admission |-> None]

\* link_policy_set succeeds: the fold does, and the set it makes is valid.
Links(boundaries, capabilities) ==
    /\ ~Unlinkable(boundaries, capabilities)
    /\ LET p == Folded(boundaries, capabilities) IN ConstsDefined(Range(p.tools), p.consts)

-----------------------------------------------------------------------------
(* A project: boundaries, a library of capabilities, and the matrix that says *)
(* which capabilities a role imports for an agent, "*" standing for any other. *)

Wildcard == "*"

\* The names imported, role by role; without a matrix the default imports all.
Imports(p, agent) ==
    IF p.matrix = None THEN [r \in {"default"} |-> [i \in DOMAIN p.library |-> p.library[i].name]]
    ELSE [r \in DOMAIN p.matrix \union {"default"} |->
             IF r \notin DOMAIN p.matrix THEN <<>>
             ELSE IF agent \in DOMAIN p.matrix[r] THEN p.matrix[r][agent]
             ELSE IF Wildcard \in DOMAIN p.matrix[r] THEN p.matrix[r][Wildcard]
             ELSE <<>>]

\* resolve_role_map: the modules behind the names.
ModuleNamed(p, name) == CHOOSE m \in Range(p.library) : m.name = name
Known(p, agent) ==
    UNION {Range(names) : names \in Range(Imports(p, agent))} \subseteq {m.name : m \in Range(p.library)}
RoleMap(p, agent) ==
    LET imports == Imports(p, agent) IN
    [r \in DOMAIN imports |-> [i \in DOMAIN imports[r] |-> ModuleNamed(p, imports[r][i])]]

\* resolve_for_project, for one agent; every capability is looked at, bound or not.
Resolves(p, agent) ==
    /\ ~\E m \in Range(p.library) : Denies(m)
    /\ Known(p, agent)
    /\ \A r \in DOMAIN Imports(p, agent) : Links(p.boundaries, RoleMap(p, agent)[r])
Linked(p, agent) ==
    LET map == RoleMap(p, agent) IN [r \in DOMAIN map |-> Folded(p.boundaries, map[r])]

-----------------------------------------------------------------------------
(* The analyzer.  A grant is a module and one of the tools it grants. *)

Grants(capabilities) ==
    {g \in (DOMAIN capabilities) \X (UNION {DOMAIN m.tools : m \in Range(capabilities)}) :
        g[2] \in DOMAIN capabilities[g[1]].tools /\ IsGrant(capabilities[g[1]].tools[g[2]])}
RuleAt(capabilities, g) == capabilities[g[1]].tools[g[2]]

\* _dead_grants: the effective policy does not grant the tool.
Dead(effective, capabilities) ==
    {g \in Grants(capabilities) : ~(g[2] \in DOMAIN effective.tools /\ IsGrant(effective.tools[g[2]]))}

\* The same lines in any order.
SameLines(a, b) ==
    \A x \in Range(a) \union Range(b) : Cardinality({i \in DOMAIN a : a[i] = x}) = Cardinality({i \in DOMAIN b : b[i] = x})

\* Faulty variant: the mode is not compared.
RedundantAnyMode(capabilities) ==
    {g \in Grants(capabilities) : \E f \in Grants(capabilities) :
        f[1] < g[1] /\ f[2] = g[2] /\ SameLines(RuleAt(capabilities, f).constraints, RuleAt(capabilities, g).constraints)}

\* _redundant_grants: the mode and the lines, in any order, of an earlier grant.
Redundant(capabilities) ==
    {g \in Grants(capabilities) : \E f \in Grants(capabilities) :
        LET one == RuleAt(capabilities, f)
            other == RuleAt(capabilities, g) IN
        f[1] < g[1] /\ f[2] = g[2] /\ one.mode = other.mode /\ SameLines(one.constraints, other.constraints)}

\* _constraint_erased: a sibling grants the tool without condition.
Erased(capabilities) ==
    {g \in Grants(capabilities) : RuleAt(capabilities, g).constraints # <<>> /\
        \E f \in Grants(capabilities) : f[2] = g[2] /\ RuleAt(capabilities, f).constraints = <<>>}

\* _unused_capabilities, over every column of the matrix.
Imported(p) ==
    IF p.matrix = None THEN {m.name : m \in Range(p.library)}
    ELSE UNION {UNION {Range(names) : names \in Range(cells)} : cells \in Range(p.matrix)}
Unused(p) == {m.name : m \in Range(p.library)} \ Imported(p)

\* check_project: the columns that do not resolve, the generic one first.
NamedAgents(p) == IF p.matrix = None THEN {} ELSE UNION {DOMAIN cells : cells \in Range(p.matrix)} \ {Wildcard}
LinkErrors(p) ==
    IF ~Resolves(p, Wildcard) THEN {Wildcard} ELSE {a \in NamedAgents(p) : ~Resolves(p, a)}
=============================================================================
