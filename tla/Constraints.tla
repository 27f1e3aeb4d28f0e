---------------------------- MODULE Constraints ----------------------------
(***************************************************************************)
(* The constraint language of a policy (hexgate/security/constraints.py)   *)
(* in both engines: the pydantic evaluator, and the Rego it is compiled to *)
(* (hexgate/security/rego.py) under Rego's own semantics.                  *)
(*                                                                         *)
(* A text is a run of one letter, so its length is also its place in the   *)
(* order of texts and decides prefix, suffix and containment.              *)
(***************************************************************************)
EXTENDS Naturals, Sequences, SequencesExt

-----------------------------------------------------------------------------
(* JSON values.  One record shape, so that TLC can compare any two. *)

Value(t, n, keys, of) == [t |-> t, n |-> n, keys |-> keys, of |-> of]
Missing == Value("missing", 0, <<>>, <<>>)
Null == Value("null", 0, <<>>, <<>>)
Bool(b) == Value("bool", IF b THEN 1 ELSE 0, <<>>, <<>>)
Number(n) == Value("number", n, <<>>, <<>>)
Text(n) == Value("string", n, <<>>, <<>>)
List(s) == Value("list", 0, <<>>, s)
Object(f) ==
    LET keys == SetToSeq(DOMAIN f) IN Value("object", 0, keys, [i \in DOMAIN keys |-> f[keys[i]]])

Field(v, key) ==
    IF v.t = "object" /\ key \in Range(v.keys)
    THEN v.of[CHOOSE i \in DOMAIN v.keys : v.keys[i] = key] ELSE Missing
Walk(base, path) == FoldLeft(Field, base, path)

SizeOf(v) ==
    CASE v.t = "list" -> Number(Len(v.of))
      [] v.t = "object" -> Number(Len(v.keys))
      [] v.t = "string" -> Number(v.n)
      [] OTHER -> Missing

\* Python's ==, in which True is 1.
RECURSIVE PythonEq(_, _)
PythonEq(a, b) ==
    IF {a.t, b.t} \subseteq {"bool", "number"} THEN a.n = b.n
    ELSE /\ <<a.t, a.n, a.keys, Len(a.of)>> = <<b.t, b.n, b.keys, Len(b.of)>>
         /\ \A i \in DOMAIN a.of : PythonEq(a.of[i], b.of[i])

\* _json_eq tells a boolean from a number, but not inside a list.
JsonEq(a, b) == IF "bool" \in {a.t, b.t} THEN a = b ELSE PythonEq(a, b)
RegoEq(a, b) == a = b

-----------------------------------------------------------------------------
(* Syntax: the nodes and operands parse_constraint returns. *)

Lit(v) == [o |-> "lit", v |-> v]
Ref(path) == [o |-> "ref", path |-> path]
Count(path) == [o |-> "count", path |-> path]
Elem(path) == [o |-> "elem", path |-> path]
Const(name) == [o |-> "const", name |-> name]

Cmp(l, op, r) == [k |-> "cmp", left |-> l, op |-> op, right |-> r]
Call(arg, v) == [k |-> "call", arg |-> arg, value |-> v]
Quant(kind, ref, body) == [k |-> kind, ref |-> ref, body |-> body]
And(parts) == [k |-> "and", parts |-> parts]
Or(parts) == [k |-> "or", parts |-> parts]
Not(inner) == [k |-> "not", inner |-> inner]

Ordered == {"<", "<=", ">", ">="}
Membership == {"in", "not in"}

\* The environment: the document of facts, the constants, the element.
Resolve(x, env) ==
    CASE x.o = "lit" -> x.v
      [] x.o = "count" -> SizeOf(Walk(env.doc, x.path))
      [] x.o = "elem" -> Walk(env.elem, x.path)
      [] x.o = "const" -> env.consts[x.name]
      [] OTHER -> Walk(env.doc, x.path)

Bind(env, v) == [env EXCEPT !.elem = v]

RECURSIVE ConstsOf(_)
ConstsOf(node) ==
    CASE node.k = "cmp" -> {x.name : x \in {y \in {node.left, node.right} : y.o = "const"}}
      [] node.k = "call" -> {}
      [] node.k \in {"every", "any"} -> ConstsOf(node.body)
      [] node.k \in {"and", "or"} -> UNION {ConstsOf(node.parts[i]) : i \in DOMAIN node.parts}
      [] OTHER -> ConstsOf(node.inner)

-----------------------------------------------------------------------------
(* The pydantic engine. *)

Compare(op, a, b) ==
    CASE op = "<" -> a < b [] op = "<=" -> a <= b [] op = ">" -> a > b [] op = ">=" -> a >= b

Holds(node, env) ==
    LET a == Resolve(node.left, env)
        b == Resolve(node.right, env) IN
    /\ a # Missing /\ b # Missing
    /\ CASE node.op = "==" -> JsonEq(a, b)
         [] node.op = "!=" -> ~JsonEq(a, b)
         [] node.op \in Ordered -> a.t = b.t /\ a.t \in {"number", "string"} /\ Compare(node.op, a.n, b.n)
         [] node.op = "in" -> b.t = "list" /\ \E i \in DOMAIN b.of : JsonEq(a, b.of[i])
         [] OTHER -> b.t = "list" /\ \A i \in DOMAIN b.of : ~JsonEq(a, b.of[i])

\* startswith, endswith, contains and matches, on texts.
TextTest(x, v) == x.t = "string" /\ v.n <= x.n

RECURSIVE Py(_, _)
Py(node, env) ==
    CASE node.k = "cmp" -> Holds(node, env)
      [] node.k = "call" -> TextTest(Resolve(node.arg, env), node.value)
      [] node.k = "every" -> LET s == Resolve(node.ref, env) IN
             s.t = "list" /\ \A i \in DOMAIN s.of : Py(node.body, Bind(env, s.of[i]))
      [] node.k = "any" -> LET s == Resolve(node.ref, env) IN
             s.t = "list" /\ \E i \in DOMAIN s.of : Py(node.body, Bind(env, s.of[i]))
      [] node.k = "and" -> \A i \in DOMAIN node.parts : Py(node.parts[i], env)
      [] node.k = "or" -> \E i \in DOMAIN node.parts : Py(node.parts[i], env)
      [] OTHER -> ~Py(node.inner, env)

-----------------------------------------------------------------------------
(* The compiled constraint.  A line of a Rego body with an undefined operand *)
(* fails, under "not" too: the operand is looked up in a line of its own.    *)

\* Rego orders values of any two types.
Rank(t) ==
    CASE t = "null" -> 0 [] t = "bool" -> 1 [] t = "number" -> 2
      [] t = "string" -> 3 [] t = "list" -> 4 [] OTHER -> 5
RegoCompare(op, a, b) ==
    IF a.t = b.t THEN Compare(op, a.n, b.n) ELSE Compare(op, Rank(a.t), Rank(b.t))

\* _numstr_hint
Hint(x) ==
    CASE x.o = "count" -> "number"
      [] x.o = "lit" -> IF x.v.t \in {"number", "string"} THEN x.v.t ELSE "bad"
      [] OTHER -> "unknown"

\* Faulty variant: no type guard.
OrderedRegoUnguarded(node, a, b) == RegoCompare(node.op, a, b)

\* _ordered_cmp_rego: a type is guarded where it is not known.
OrderedRego(node, a, b) ==
    LET hints == {Hint(node.left), Hint(node.right)} IN
    /\ "bad" \notin hints
    /\ IF hints = {"unknown"} THEN a.t = b.t /\ a.t \in {"number", "string"}
       ELSE LET known == IF Hint(node.left) # "unknown" THEN Hint(node.left) ELSE Hint(node.right) IN
            /\ Hint(node.left) = "unknown" => a.t = known
            /\ Hint(node.right) = "unknown" => b.t = known
    /\ RegoCompare(node.op, a, b)

\* x in coll: elements of an array, values of an object, nothing of a scalar.
MemberOf(x, coll) == \E i \in DOMAIN coll.of : RegoEq(x, coll.of[i])

CmpRego(node, env) ==
    LET a == Resolve(node.left, env)
        b == Resolve(node.right, env) IN
    /\ a # Missing /\ b # Missing
    /\ CASE node.op = "==" -> RegoEq(a, b)
         [] node.op = "!=" -> ~RegoEq(a, b)
         [] node.op \in Ordered -> OrderedRego(node, a, b)
         [] node.op = "in" -> MemberOf(a, b)
         [] OTHER -> ~MemberOf(a, b)

\* every and some range over arrays and over the values of objects.
Ranges(s) == s.t \in {"list", "object"}

RECURSIVE Body(_, _)

\* A node is negated through a helper rule, which is true or false, never undefined.
Negated(node, env) == ~Body(node, env)

\* _inline, with the rules it refers to: the body holds when all its lines do.
Body(node, env) ==
    CASE node.k = "cmp" -> CmpRego(node, env)
      [] node.k = "call" -> TextTest(Resolve(node.arg, env), node.value)
      [] node.k = "every" -> LET s == Resolve(node.ref, env) IN
             Ranges(s) /\ \A i \in DOMAIN s.of : Body(node.body, Bind(env, s.of[i]))
      [] node.k = "any" -> LET s == Resolve(node.ref, env) IN
             Ranges(s) /\ \E i \in DOMAIN s.of : Body(node.body, Bind(env, s.of[i]))
      [] node.k = "and" -> \A i \in DOMAIN node.parts : Body(node.parts[i], env)
      [] node.k = "or" -> \E i \in DOMAIN node.parts : Body(node.parts[i], env)
      [] OTHER -> Negated(node.inner, env)

\* Compilation refuses two operands of unknown type ordered inside a quantifier.
RECURSIVE Refused(_, _)
Refused(node, inQuant) ==
    CASE node.k = "cmp" ->
             inQuant /\ node.op \in Ordered /\ {Hint(node.left), Hint(node.right)} = {"unknown"}
      [] node.k = "call" -> FALSE
      [] node.k \in {"every", "any"} -> Refused(node.body, TRUE)
      [] node.k \in {"and", "or"} -> \E i \in DOMAIN node.parts : Refused(node.parts[i], inQuant)
      [] OTHER -> Refused(node.inner, inQuant)

-----------------------------------------------------------------------------
(* Where the two engines are known to differ. *)

\* A quantifier over an object; membership in a constant that is no list; two
\* operands known to be of different types in an ordered comparison; a boolean
\* and a number equal in Python, inside lists.
RECURSIVE Divides(_, _)
Divides(node, env) ==
    CASE node.k = "cmp" ->
             LET a == Resolve(node.left, env)
                 b == Resolve(node.right, env) IN
             \/ node.op \in Membership /\ b.t # "list"
             \/ node.op \in Ordered /\ {Hint(node.left), Hint(node.right)} = {"number", "string"}
             \/ node.op \in {"==", "!="} /\ JsonEq(a, b) # RegoEq(a, b)
             \/ node.op \in Membership /\ \E i \in DOMAIN b.of : JsonEq(a, b.of[i]) # RegoEq(a, b.of[i])
      [] node.k = "call" -> FALSE
      [] node.k \in {"every", "any"} ->
             LET s == Resolve(node.ref, env) IN
             s.t = "object" \/ \E i \in DOMAIN s.of : Divides(node.body, Bind(env, s.of[i]))
      [] node.k \in {"and", "or"} -> \E i \in DOMAIN node.parts : Divides(node.parts[i], env)
      [] OTHER -> Divides(node.inner, env)
=============================================================================
