-------------------------- MODULE MCPolicyEngines --------------------------
(* Two families of documents: one rule under every small constraint, asked   *)
(* with arguments of every type; and three policies that inherit from each   *)
(* other, asked for tools, admission and agents.  Two families of projects:  *)
(* every small pile of layers on one tool; and the ways a project can fail   *)
(* to link or differ by role and agent.                                      *)
EXTENDS PolicyEngines

MCRoleOrder == <<"admin", "default", "extra", "mix", "other">>
MCRoleFact == (None :> Null) @@ ("" :> Text(0)) @@ ("admin" :> Text(1)) @@ ("default" :> Text(2)) @@ ("stranger" :> Text(3))

T == <<"tool", "t">>
U == <<"tool", "u">>
HandTo(a) == Reach("handoff:", a)
Use(a) == Reach("tool:", a)
MCToolFact == [k \in {T, U, Run, HandTo("b"), Use("b"), HandTo("z")} |-> IF k = T THEN Text(1) ELSE Text(2)]

-----------------------------------------------------------------------------
(* One rule, every small constraint. *)

X == Ref(<<"args", "x">>)
Y == Ref(<<"args", "y">>)
One == Lit(Number(1))
Ones == Lit(List(<<Number(1)>>))
Limit == Const("limit")
Scalars == {One, Lit(Text(1)), Lit(Bool(TRUE)), Lit(Null)}

Comparisons ==
    {Cmp(l, op, r) : l \in {X, Count(<<"args", "x">>), Limit},
                     op \in Ordered \union {"==", "!="}, r \in Scalars \union {Ones, Y, Limit}}
        \union {Cmp(l, op, r) : l \in {X, Y, Lit(Bool(TRUE))}, op \in Membership, r \in {Ones, Lit(List(<<List(<<Number(1)>>)>>)), Limit}}
        \union {Cmp(l, op, r) : l \in {Ref(<<"ctx", "team">>), Ref(<<"role">>), Ref(<<"tool">>)},
                                op \in {"==", "!=", "<="}, r \in {Lit(Text(2)), Lit(Null)}}
Calls == {Call(a, Text(n)) : a \in {X, Y}, n \in {0, 1}}
Bodies ==
    {Cmp(Elem(<<>>), op, r) : op \in {"==", "<=", ">"}, r \in {One, Limit}}
        \union {Cmp(Elem(<<"k">>), "==", One), Cmp(Elem(<<>>), "not in", Ones), Call(Elem(<<>>), Text(1)), Cmp(Y, "<=", One)}
Quants == {Quant(kind, X, body) : kind \in {"every", "any"}, body \in Bodies}
Nested == {Quant(kind, X, Quant("any", Elem(<<>>), Cmp(Elem(<<>>), "==", One))) : kind \in {"every", "any"}}
Atoms == {Cmp(X, "<=", One), Cmp(X, "not in", Ones), Cmp(Y, "!=", One), Quant("any", X, Cmp(Elem(<<>>), "==", One))}
Compound ==
    UNION {{And(<<a, b>>), Or(<<a, Not(b)>>), Not(And(<<a, b>>)), Not(Or(<<Not(a), b>>))} : a \in Atoms, b \in Atoms}
Constraints1 == Comparisons \union Calls \union Quants \union Nested \union Compound \union {Not(c) : c \in Comparisons \union Quants}

NoAdmission == Unwritten(None)
Alone(rule, consts) ==
    ("default" :> [inherits |-> <<>>, mixin |-> FALSE, tools |-> (T :> rule), agents |-> <<>>, consts |-> consts,
                   default |-> Unwritten(Deny), admission |-> NoAdmission])
Limits(c) ==
    IF ConstsOf(c) = {} THEN {<<>>}
    ELSE {("limit" :> v) : v \in {Number(1), Text(1), List(<<Number(1)>>), Object("k" :> Number(1))}}
OneRule ==
    UNION {{Alone(Rule(mode, <<c>>), k) : mode \in (IF c \in Atoms THEN {"allow", "approval"} ELSE {"allow"}),
                                         k \in Limits(c)} : c \in Constraints1}

Xs == {Number(1), Number(2), Text(1), Bool(TRUE), Null, List(<<>>), List(<<Number(1), Number(2)>>),
       List(<<Bool(TRUE)>>), List(<<List(<<Number(1)>>)>>), Object("k" :> Number(1))}
ArgSets == {Object(<<>>), Object("y" :> Number(2))}
               \union {Object("x" :> x) : x \in Xs} \union {Object(("x" :> x) @@ ("y" :> Number(1))) : x \in Xs}
Ask1(args, role, ctx) == [role |-> role, tool |-> T, args |-> args, ctx |-> ctx, inScope |-> TRUE]

-----------------------------------------------------------------------------
(* Three policies. *)

Small == Rule("allow", <<Cmp(X, "<=", One)>>)
Policy(inherits, mixin, tools, agents, default, admission) ==
    [inherits |-> inherits, mixin |-> mixin, tools |-> tools, agents |-> agents, consts |-> <<>>,
     default |-> default, admission |-> admission]
Named(via, rule) == ("b" :> [via |-> via, rule |-> rule])
Both == {"tool:", "handoff:"}

Parents ==
    {Policy(<<>>, TRUE, T :> Small, <<>>, Written(Allow), NoAdmission),
     Policy(<<>>, TRUE, T :> Deny, Named({"handoff:"}, Allow), Unwritten(Deny), Written(Deny)),
     Policy(<<>>, TRUE, <<>>, Named(Both, Rule("approval", <<>>)), Written(Rule("approval", <<Cmp(X, "<=", One)>>)), Written(Small)),
     Policy(<<"mix">>, FALSE, U :> Allow, <<>>, Unwritten(Deny), Written(None)),
     Policy(<<"admin">>, FALSE, T :> Allow, <<>>, Unwritten(Deny), NoAdmission)}
Children ==
    {Policy(i, FALSE, t, <<>>, d, a) :
        i \in {<<>>, <<"mix", "other">>, <<"other", "mix">>, <<"extra">>}, t \in {<<>>, T :> [Allow EXCEPT !.scoped = TRUE]},
        d \in {Unwritten(Deny), Written(Allow), Written(Rule("approval", <<>>))},
        a \in {NoAdmission, Written(None), Written(Rule("approval", <<>>))}}
Heirs ==
    {("mix" :> m) @@ ("other" :> o) @@ ("admin" :> c) : m \in {p \in Parents : p.inherits = <<>>}, o \in Parents, c \in Children}

\* Two roles whose constants Python takes for equal, or not.
TwoRoles ==
    {Alone(Rule("allow", <<Cmp(X, op, Limit)>>), "limit" :> Number(1))
        @@ ("admin" :> Alone(Rule("allow", <<Cmp(X, op, Limit)>>), "limit" :> v)["default"]) :
        op \in {"==", "<="}, v \in {Number(1), Number(2), Bool(TRUE)}}

MCDocs == OneRule \union TwoRoles \union Heirs

MCRequests ==
    {Ask1(args, role, Object(<<>>)) : args \in ArgSets, role \in {None}}
        \union {Ask1(Object("x" :> Number(1)), role, Object("team" :> Text(2))) : role \in {None, "", "default", "admin"}}
        \union {[role |-> role, tool |-> k, args |-> Object("x" :> Number(n)), ctx |-> Object(<<>>), inScope |-> n = 1] :
                   role \in {None, "admin", "stranger"}, k \in {T, U, Run, HandTo("b"), Use("b"), HandTo("z")}, n \in {1, 2}}

-----------------------------------------------------------------------------
(* Projects. *)

Small1 == Cmp(X, "<=", One)
Other1 == Cmp(Y, "!=", One)
Module(name, default, tools, consts, extra) ==
    [name |-> name, default |-> default, tools |-> tools, consts |-> consts, extra |-> extra]
Plain(name, default, rule) == Module(name, default, T :> rule, <<>>, {})
Project(boundaries, library, matrix, agent) ==
    [boundaries |-> boundaries, library |-> library, matrix |-> matrix, agent |-> agent]

\* The layers of one tool: up to two boundaries, one or two capabilities.
Fences ==
    {Plain("b", d, r) : d \in {Allow, Deny},
        r \in {Deny, Allow, Rule("allow", <<Or(<<Small1, Other1>>), Other1>>), Rule("approval", <<Not(And(<<Small1, Other1>>))>>),
               Rule("deny", <<Small1>>), Rule("deny", <<Or(<<Other1, Not(Small1)>>), Small1>>)}}
        \union {Module("b", d, <<>>, <<>>, {}) : d \in {Allow, Deny}}
Seconds ==
    {Plain("d", Allow, Rule("deny", <<Other1>>)), Plain("d", Deny, Rule("approval", <<Or(<<Small1, Other1>>)>>))}
Packs ==
    {Allow, Rule("allow", <<Small1>>), Rule("approval", <<Small1>>),
     Rule("allow", <<Or(<<Small1, Other1>>), Not(Small1)>>), Rule("allow", <<Not(Small1), Or(<<Small1, Other1>>)>>)}
Seconders == {Allow, Rule("allow", <<Small1>>), Rule("approval", <<Small1>>), Rule("allow", <<Not(Small1), Or(<<Small1, Other1>>)>>)}
Piles ==
    {Project(bs, cs, None, "*") :
        bs \in {<<>>} \union {<<b>> : b \in Fences} \union {<<b, d>> : b \in Fences, d \in Seconds},
        cs \in {<<Plain("c", Allow, r)>> : r \in Packs} \union {<<Plain("c", Allow, r), Plain("e", Deny, q)>> : r \in Packs, q \in Seconders}}

\* One boundary; a library of two with a fault or none; a matrix by role and agent.
Ceiling(k) == Module("b", Allow, T :> Rule("allow", <<Cmp(X, "<=", Limit)>>), "limit" :> k, {})
Faults ==
    {Plain("c", Allow, Deny), Plain("c", Allow, [Allow EXCEPT !.scoped = TRUE]), Plain("c", Rule("allow", <<Small1>>), Allow),
     Module("c", Allow, T :> Allow, <<>>, {"admission"}), Module("c", Allow, T :> Allow, "limit" :> Number(2), {}),
     Module("c", Allow, T :> Allow, "limit" :> Bool(TRUE), {}), Plain("c", Allow, Rule("allow", <<Cmp(X, "<=", Const("floor"))>>)),
     Plain("c", Allow, Rule("approval", <<Small1>>)), Module("c", Allow, (T :> Allow) @@ (U :> Allow), "floor" :> Number(1), {})}
Cells == {"*" :> <<"c">>, ("*" :> <<"e">>) @@ ("bot" :> <<"c", "e">>), ("*" :> <<>>) @@ ("bot" :> <<"lost">>)}
Matrices ==
    {None, <<>>} \union {"admin" :> c : c \in Cells} \union {("admin" :> c) @@ ("default" :> d) : c \in Cells, d \in Cells}
Matrixed ==
    {Project(<<Ceiling(Number(1))>>, <<f, Plain("e", Allow, Rule("allow", <<Small1>>))>>, m, a) :
        f \in Faults, m \in Matrices, a \in {"*", "bot", "cook"}}

\* Two roles that import one capability each: a constant alike, alike to Python only,
\* or not; and a line that rego refuses.
Lined(name, v) == Module(name, Allow, T :> Rule("allow", <<Cmp(X, "<=", Limit)>>), "limit" :> v, {})
Unordered == Plain("c", Allow, Rule("allow", <<Quant("every", X, Cmp(Elem(<<>>), "<=", Y))>>))
Apiece ==
    {Project(<<>>, <<f, Lined("e", Number(1))>>, m, a) :
        f \in {Unordered} \union {Lined("c", v) : v \in {Number(1), Number(2), Bool(TRUE)}},
        m \in {("admin" :> ("*" :> <<"c">>)) @@ ("default" :> ("*" :> <<"e">>)),
               ("admin" :> ("*" :> <<"c">>)) @@ ("default" :> (("*" :> <<>>) @@ ("bot" :> <<"e">>)))},
        a \in {"*", "bot"}}

MCProjects == Piles \union Matrixed \union Apiece
=============================================================================
