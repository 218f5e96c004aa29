-------------------------------- MODULE Binder --------------------------------
(***************************************************************************)
(* Name resolution and the compilation of patterns (src/dst/bind.cpp up to *)
(* the type checker).  A Match becomes a tree of Destructs, a DefMap a     *)
(* nest of DefBindings: values that use only what is outside, then groups  *)
(* of functions that use each other.                                       *)
(*                                                                         *)
(* env holds the names of the enclosing binders, what the symbols of the   *)
(* file stand for (defs, types, topics) and the constructors.              *)
(***************************************************************************)
EXTENDS Desugar, FiniteSets

DefBinding(val, fun, body) == [type |-> "DefBinding", val |-> val, fun |-> fun, body |-> body]

(* Pattern trees.  A tree without a sum is not expanded; var is the number *)
(* of its value in the prototype, 0 for a variable of a pattern, else -1.  *)
NoSum == [name |-> "", args |-> <<>>, members |-> <<>>, tags |-> <<>>, scoped |-> TRUE]
PatternTree(sum, cons, var, children, sig) ==
    [sum |-> sum, cons |-> cons, var |-> var, children |-> children, sig |-> sig]
Hole(var) == PatternTree(NoSum, 1, var, <<>>, NoType)
multiarg(n) ==
    [NoSum EXCEPT !.name = "multi", !.members = <<[name |-> "", args |-> [i \in 1..n |-> NoType]]>>]

RECURSIVE get_expansion(_, _)
get_expansion(tree, path) ==
    IF path = <<>> THEN tree ELSE get_expansion(tree.children[Head(path)], Tail(path))

RECURSIVE put_expansion(_, _, _)
put_expansion(tree, path, new) ==
    IF path = <<>> THEN new
    ELSE [tree EXCEPT !.children[Head(path)] = put_expansion(@, Tail(path), new)]

(* The first place where b is expanded and a is not.                       *)
RECURSIVE find_mismatch(_, _)
find_mismatch(a, b) ==
    LET kids == [i \in DOMAIN a.children |-> find_mismatch(a.children[i], b.children[i])]
        some == {i \in DOMAIN kids : kids[i].sum # NoSum}
        first == CHOOSE i \in some : \A j \in some : i <= j
    IN  CASE a.sum = NoSum -> [sum |-> b.sum, path |-> <<>>]
          [] a.sum # NoSum /\ some = {} -> [sum |-> NoSum, path |-> <<>>]
          [] OTHER -> [kids[first] EXCEPT !.path = <<first>> \o @]

VarA(i) == "_ a" \o ToString(i)
VarF(i) == "_ f" \o ToString(i)

RECURSIVE fill_pattern(_, _, _)
fill_pattern(expr, a, b) ==
    IF b.var >= 0 THEN App(expr, VarRef(VarA(a.var)))
    ELSE Fold(LAMBDA e, i : fill_pattern(e, a.children[i], b.children[i]),
                  expr, [i \in DOMAIN a.children |-> i])

RECURSIVE build_identity(_)
build_identity(tree) ==
    IF tree.sum = NoSum THEN VarRef(VarA(tree.var))
    ELSE Apps(Lambdas(Holes(Len(tree.children)), Construct(tree.sum, tree.cons)),
              [i \in DOMAIN tree.children |-> build_identity(tree.children[i])])

ascribe(expr, sig) == IF sig = NoType THEN expr ELSE Ascribe(sig, expr)
Fails(e) == e = BadExpr

----------------------------------------------------------------------------
(***************************************************************************)
(* expand_patterns.  st is the number of the next value, the patterns used *)
(* (-1 is the prototype) and the signatures already moved into an Ascribe: *)
(* the tree keeps an empty one, which names no type.                       *)
(***************************************************************************)
Moved == [NoType EXCEPT !.name = "moved"]

RECURSIVE expand_patterns(_, _, _)

(* The patterns that constructor c may match, expanded at path.            *)
Bucket(patterns, path, sum, c) ==
    LET args == Len(sum.members[c].args)
        Expanded(t) == [t EXCEPT !.sum = sum, !.cons = c, !.children = [i \in 1..args |-> Hole(-1)]]
        At(p) == get_expansion(p.tree, path)
    IN  [i \in DOMAIN SelectSeq(patterns, LAMBDA p : At(p).sum = NoSum \/ At(p).cons = c) |->
            LET p == SelectSeq(patterns, LAMBDA q : At(q).sum = NoSum \/ At(q).cons = c)[i]
            IN  IF At(p).sum # NoSum THEN p
                ELSE [p EXCEPT !.tree = put_expansion(@, path, Expanded(At(p)))]]

(* The members of constructor c with the signatures of the patterns.       *)
TypedGets(patterns, path, sum, c, taken) ==
    LET named == SelectSeq(patterns, LAMBDA p : LET t == get_expansion(p.tree, path)
                                                IN  t.sum # NoSum /\ t.cons = c)
        Sig(p, i) == get_expansion(p.tree, path).children[i].sig
        Key(p, i) == <<p.index, path, i>>
        Member(i) == Fold(LAMBDA e, p : ascribe(e, IF Key(p, i) \in taken /\ Sig(p, i) # NoType
                                                       THEN Moved ELSE Sig(p, i)),
                              Get(sum, c, i), named)
        args == DOMAIN sum.members[c].args
    IN  [gets |-> [i \in args |-> Member(i)],
         taken |-> taken \union {Key(named[n], i) : n \in DOMAIN named, i \in args}]

(* One case of the Destruct at path.                                       *)
ExpandCase(proto, patterns, path, sum, c, st) ==
    LET args == Len(sum.members[c].args)
        at == get_expansion(proto.tree, path)
        kids == [i \in 1..args |-> Hole(st.next + i - 1)]
        tree == put_expansion(proto.tree, path, [at EXCEPT !.sum = sum, !.cons = c, !.children = kids])
        Within(taken) == expand_patterns([proto EXCEPT !.tree = tree], Bucket(patterns, path, sum, c),
                                        [st EXCEPT !.next = @ + args, !.taken = taken])
        Defs(gets) == [i \in 1..args |-> Def(VarA(st.next + i - 1), gets[i], {})]
        Below(r, gets) ==
            [r EXCEPT !.expr = IF Fails(@) THEN BadExpr ELSE Lambda("_ tuple_case", DefMap(Defs(gets), @))]
        ExpandTyped(typed) == Below(Within(typed.taken), typed.gets)
    IN  ExpandTyped(TypedGets(patterns, path, sum, c, st.taken))

ExpandCases(proto, patterns, path, sum, st) ==
    LET var == get_expansion(proto.tree, path).var
        foreign == \E i \in DOMAIN patterns :
                       get_expansion(patterns[i].tree, path).sum \notin {NoSum, sum}
        Add(cases, e) == [cases |-> Append(cases, e.expr), st |-> e.st]
        Whole(r) == [expr |-> IF \E c \in DOMAIN r.cases : Fails(r.cases[c]) THEN BadExpr
                              ELSE Destruct(sum, r.cases, VarRef(VarA(var))),
                     st |-> r.st]
    IN  IF foreign THEN [expr |-> BadExpr, st |-> st]
        ELSE Whole(Fold(LAMBDA acc, c : Add(acc.cases, ExpandCase(proto, patterns, path, sum, c, acc.st)),
                        [cases |-> <<>>, st |-> st], [c \in DOMAIN sum.members |-> c]))

(* A guard decides between the pattern and the patterns after it.          *)
Guarded(rhs, otherwise, boolean) ==
    DefMap(<<Def("_ guardpair", rhs, {}),
             Def("_ rhs", App(VarRef("getPairFirst@wake"), VarRef("_ guardpair")), {}),
             Def("_ guard", App(VarRef("getPairSecond@wake"), VarRef("_ guardpair")), {})>>,
           Destruct(boolean,
                    <<Lambda("_", App(VarRef("_ rhs"), VarRef("Unit@wake"))), Lambda("_", otherwise)>>,
                    App(VarRef("_ guard"), VarRef("Unit@wake"))))

(* No pattern is left: what a match does with a value that none takes.     *)
Unmatched(proto, st) ==
    LET used == [st EXCEPT !.used = @ \union {-1}]
    IN  CASE proto.refutable = "identity" -> [expr |-> build_identity(proto.tree), st |-> used]
          [] proto.refutable = "otherwise" ->
                 [expr |-> App(VarRef("_ else"), VarRef("_ a0")), st |-> used]
          [] OTHER -> [expr |-> BadExpr, st |-> st]

expand_patterns(proto, patterns, st) ==
    LET p == Head(patterns)
        used == [st EXCEPT !.used = @ \union {p.index}]
        Taken(rhs) ==
            IF ~p.guard THEN [expr |-> App(rhs, VarRef("Unit@wake")), st |-> used]
            ELSE [expand_patterns(proto, Tail(patterns), used)
                     EXCEPT !.expr = IF Fails(@) THEN @ ELSE Guarded(rhs, @, proto.boolean)]
        Expand(at) ==
            IF at.sum # NoSum THEN ExpandCases(proto, patterns, at.path, at.sum, st)
            ELSE Taken(fill_pattern(VarRef(VarF(p.index)), proto.tree, p.tree))
    IN  IF patterns = <<>> THEN Unmatched(proto, st) ELSE Expand(find_mismatch(proto.tree, p.tree))

----------------------------------------------------------------------------
(* The tree of a pattern; every variable of it becomes a lambda around the *)
(* right-hand side, the first one outermost.                               *)
RECURSIVE cons_lookup(_, _, _, _)
cons_lookup(env, expr, ast, multi) ==
    LET name == IF ast.name \in DOMAIN env.defs THEN env.defs[ast.name] ELSE ast.name
        c == CASE ast.name = "" -> [sum |-> multi, index |-> 1]
               [] ast.name # "" /\ name \in DOMAIN env.cons -> env.cons[name]
               [] OTHER -> [sum |-> NoSum, index |-> 1]
        kids == FoldRight(LAMBDA a, acc : LET r == cons_lookup(env, acc.expr, a, NoSum)
                                          IN  [trees |-> <<r.tree>> \o acc.trees, expr |-> r.expr],
                          ast.args, [trees |-> <<>>, expr |-> expr])
    IN  CASE ast.kind = "hole" -> [tree |-> [Hole(-1) EXCEPT !.sig = ast.sig], expr |-> expr]
          [] ast.kind = "lower" -> [tree |-> [Hole(0) EXCEPT !.sig = ast.sig], expr |-> Lambda(ast.name, expr)]
          [] OTHER -> IF c.sum = NoSum \/ Len(c.sum.members[c.index].args) # Len(ast.args)
                      THEN [tree |-> Hole(0), expr |-> BadExpr]
                      ELSE [tree |-> PatternTree(c.sum, c.index, -1, kids.trees, ast.sig),
                            expr |-> kids.expr]

rebind_match(env, m) ==
    LET n == Len(m.args)
        ps == m.patterns
        multi == IF n = 1 THEN NoSum ELSE multiarg(n)
        Sig(p, i) == IF n = 1 THEN p.pattern.sig ELSE p.pattern.args[i].sig
        Arg(i) == Fold(LAMBDA e, p : ascribe(e, Sig(p, i)), m.args[i], ps)
        Rhs(p) == LET fn == Lambda("_", p.expr)
                  IN  IF p.guard = None THEN fn
                      ELSE Apps(VarRef("Pair@wake"), <<fn, Lambda("_", p.guard)>>)
        Looked(k) == cons_lookup(env, Rhs(ps[k]), ps[k].pattern, multi)
        else == IF m.otherwise = None THEN <<>> ELSE <<Def("_ else", Lambda("_", m.otherwise), {})>>
        proto == [tree |-> IF n = 1 THEN Hole(0)
                           ELSE PatternTree(multi, 1, -1, [i \in 1..n |-> Hole(i - 1)], NoType),
                  boolean |-> env.cons["True@wake"].sum,
                  refutable |-> CASE m.otherwise # None -> "otherwise"
                                  [] m.otherwise = None /\ m.refutable -> "identity"
                                  [] OTHER -> "total"]
        patterns == [k \in DOMAIN ps |-> [tree |-> Looked(k).tree, index |-> k - 1, guard |-> ps[k].guard # None]]
        Bound(r) ==
            IF \/ \E k \in DOMAIN ps : Fails(Looked(k).expr)
               \/ Fails(r.expr)
               \/ \E k \in DOMAIN ps : k - 1 \notin r.st.used
               \/ m.refutable /\ -1 \notin r.st.used
            THEN BadExpr
            ELSE DefMap(else \o [i \in 1..n |-> Def(VarA(i - 1), Arg(i), {})]
                             \o [k \in DOMAIN ps |-> Def(VarF(k - 1), Looked(k).expr, {})], r.expr)
    IN  IF \E k \in DOMAIN ps : multi # NoSum /\ ps[k].pattern.args = <<>> THEN BadExpr
        ELSE Bound(expand_patterns(proto, patterns, [next |-> n, used |-> {}, taken |-> {}]))

----------------------------------------------------------------------------
(* The names a resolved expression uses from outside.                      *)
RECURSIVE Edges(_)
Edges(e) ==
    LET All(seq) == UNION {Edges(seq[i]) : i \in DOMAIN seq}
        Defs(seq) == UNION {Edges(seq[i].body) : i \in DOMAIN seq}
        funs == Joined(e.fun)
        names == {e.val[i].name : i \in DOMAIN e.val} \union {funs[i].name : i \in DOMAIN funs}
    IN  CASE e.type = "VarRef" -> {e.name}
          [] e.type = "App" -> Edges(e.fn) \union Edges(e.val)
          [] e.type = "Lambda" -> Edges(e.body) \ {e.name}
          [] e.type = "Destruct" -> All(e.cases) \union Edges(e.arg)
          [] e.type = "Ascribe" -> Edges(e.body)
          [] e.type = "DefBinding" -> Defs(e.val) \union ((Defs(funs) \union Edges(e.body)) \ names)
          [] OTHER -> {}

IsLambda(def) == def.body.type = "Lambda"

(* fracture_binding, first half: a longest path.  A function is no deeper  *)
(* than what it uses, a value is one level further in; a level as great as *)
(* the number of definitions means a value that needs itself.              *)
RECURSIVE Relax(_, _, _)
Relax(defs, edges, d) ==
    LET Weight(i) == IF IsLambda(defs[i]) THEN 0 ELSE 1
        Over(j) == {d[j]} \union {d[i] + Weight(i) : i \in {k \in DOMAIN defs : j \in edges[k]}}
        next == [j \in DOMAIN defs |-> CHOOSE x \in Over(j) : \A y \in Over(j) : y <= x]
    IN  IF next = d \/ \E j \in DOMAIN d : d[j] >= Len(defs) THEN d ELSE Relax(defs, edges, next)

(* SCC: the functions of a level in groups that use each other, each after *)
(* the groups that it uses.                                                *)
RECURSIVE Reach(_, _)
Reach(edges, set) ==
    LET more == set \union UNION {edges[i] : i \in set}
    IN  IF more = set THEN set ELSE Reach(edges, more)

InOrder(seq, set) == SelectSeq([i \in DOMAIN seq |-> i], LAMBDA i : i \in set)

RECURSIVE SCC(_, _)
SCC(edges, left) ==
    IF left = {} THEN <<>>
    ELSE LET down == [i \in DOMAIN edges |-> edges[i] \intersect left]
             From(i) == Reach(down, {i})
             first == CHOOSE i \in left : \A j \in From(i) : i \in From(j)
         IN  <<InOrder(edges, From(first))>> \o SCC(edges, left \ From(first))

(* Second half: the definitions in the order of the levels d.              *)
Nested(defs, edges, d, body) ==
    LET Level(l) == {i \in DOMAIN defs : d[i] = l}
        Pick(set) == LET list == InOrder(defs, set) IN [k \in DOMAIN list |-> defs[list[k]]]
        Groups(l) == LET list == SCC(edges, {i \in Level(l) : IsLambda(defs[i])})
                     IN  [g \in DOMAIN list |-> [k \in DOMAIN list[g] |-> defs[list[g][k]]]]
        Wrap(out, l) == IF Level(l) = {} THEN out
                        ELSE DefBinding(Pick({i \in Level(l) : ~IsLambda(defs[i])}), Groups(l), out)
    IN  IF \E i \in DOMAIN defs : Fails(defs[i].body) \/ d[i] >= Len(defs) THEN BadExpr
        ELSE Fold(Wrap, body, [l \in DOMAIN defs |-> l - 1])

fracture_binding(defs, body) ==
    LET Order(edges) == Nested(defs, edges, Relax(defs, edges, [i \in DOMAIN defs |-> 0]), body)
    IN  Order([i \in DOMAIN defs |-> {j \in DOMAIN defs : defs[j].name \in Edges(defs[i].body)}])

----------------------------------------------------------------------------
(* Types are qualified by the symbols of the file they are written in.     *)
RECURSIVE qualify_type(_, _)
qualify_type(env, t) ==
    IF t.lower THEN t
    ELSE [t EXCEPT !.name = IF @ \in DOMAIN env.types THEN env.types[@] ELSE "BadType",
                   !.args = [i \in DOMAIN @ |-> qualify_type(env, @[i])]]

RECURSIVE Undefined(_)
Undefined(t) == t.name = "BadType" \/ \E i \in DOMAIN t.args : Undefined(t.args[i])

QualifySum(env, sum) ==
    IF sum.scoped THEN sum
    ELSE [sum EXCEPT !.scoped = TRUE,
                !.name = IF @ \in DOMAIN env.types THEN env.types[@] ELSE @,
                !.members = [c \in DOMAIN @ |->
                    [@[c] EXCEPT !.args = [i \in DOMAIN @ |-> qualify_type(env, @[i])]]]]

(* A name is first looked for among the binders, then among the symbols.   *)
rebind_ref(env, name) ==
    IF name \notin env.names /\ name \in DOMAIN env.defs THEN env.defs[name] ELSE name

Below(env, names) == [env EXCEPT !.names = @ \union names]

RECURSIVE fracture(_, _)
fracture(env, e) ==
    LET sig == qualify_type(env, e.signature)
        Names == {e.defs[i].name : i \in DOMAIN e.defs}
        Rebound(match) == IF Fails(match) THEN BadExpr ELSE fracture(env, match)
    IN  CASE e.type = "VarRef" -> VarRef(rebind_ref(env, e.name))
          [] e.type = "Subscribe" ->
                 IF e.name \in DOMAIN env.topics THEN VarRef("topic " \o env.topics[e.name]) ELSE BadExpr
          [] e.type = "App" -> App(fracture(env, e.fn), fracture(env, e.val))
          [] e.type = "Lambda" -> Lambda(e.name, fracture(Below(env, {e.name}), e.body))
          [] e.type = "Match" -> Rebound(rebind_match(env, e))
          [] e.type = "Destruct" ->
                 Destruct(e.sum, [i \in DOMAIN e.cases |-> fracture(env, e.cases[i])], fracture(env, e.arg))
          [] e.type = "DefMap" ->
                 fracture_binding([i \in DOMAIN e.defs |->
                                      [e.defs[i] EXCEPT !.body = fracture(Below(env, Names), @)]],
                                  fracture(Below(env, Names), e.body))
          [] e.type = "Construct" ->
                 LET sum == QualifySum(env, e.sum)
                     args == sum.members[e.cons].args
                 IN  IF \E i \in DOMAIN args : Undefined(args[i]) THEN BadExpr ELSE Construct(sum, e.cons)
          [] e.type = "Get" -> Get(QualifySum(env, e.sum), e.cons, e.index)
          [] e.type = "Ascribe" -> IF Undefined(sig) THEN BadExpr ELSE Ascribe(sig, fracture(env, e.body))
          [] OTHER -> e
=============================================================================
