------------------------------- MODULE Desugar -------------------------------
(***************************************************************************)
(* From the concrete syntax tree to the expressions that are bound         *)
(* (src/dst/todst.cpp).  A node of the tree is a record whose k is its     *)
(* CST_ kind; an expression is a record whose type is the class it has in  *)
(* expr.h.  Names are strings; a pattern says by its kind what the lexer   *)
(* reads off the first letter of its name.                                 *)
(***************************************************************************)
EXTENDS Integers, Sequences, SequencesExt, FiniteSetsExt, TLC

(* Expressions.                                                            *)
VarRef(name) == [type |-> "VarRef", name |-> name]
App(fn, val) == [type |-> "App", fn |-> fn, val |-> val]
Lambda(name, body) == [type |-> "Lambda", name |-> name, body |-> body]
Literal(value) == [type |-> "Literal", value |-> value]
Prim(name) == [type |-> "Prim", name |-> name]
Get(sum, cons, index) == [type |-> "Get", sum |-> sum, cons |-> cons, index |-> index]
Construct(sum, cons) == [type |-> "Construct", sum |-> sum, cons |-> cons]
Destruct(sum, cases, arg) == [type |-> "Destruct", sum |-> sum, cases |-> cases, arg |-> arg]
Ascribe(signature, body) == [type |-> "Ascribe", signature |-> signature, body |-> body]
Def(name, body, vars) == [name |-> name, body |-> body, vars |-> vars]
DefMap(defs, body) == [type |-> "DefMap", defs |-> defs, body |-> body]
Subscribe(name) == [type |-> "Subscribe", name |-> name]
Case(pattern, expr, guard) == [pattern |-> pattern, expr |-> expr, guard |-> guard]
Match(args, patterns) ==
    [type |-> "Match", args |-> args, patterns |-> patterns, refutable |-> FALSE,
     otherwise |-> [type |-> "none"]]
None == [type |-> "none"]
BadExpr == [type |-> "error"]

(* The members of a set, in some fixed order.                              *)
Listed(set) ==
    LET go[s \in SUBSET set] == IF s = {} THEN <<>>
                                ELSE LET x == CHOOSE y \in s : TRUE IN Append(go[s \ {x}], x)
    IN  go[set]

(* x, evaluated, for Op to use.  TLC evaluates an argument at its first    *)
(* use: left to itself it nests a computation inside the one it feeds.     *)
Then(x, Op(_)) == CHOOSE r \in {Op(y) : y \in {x}} : TRUE

Fold(op(_, _), base, seq) ==
    LET go[i \in 0..Len(seq)] == IF i = 0 THEN base
                                 ELSE CHOOSE r \in {op(acc, seq[i]) : acc \in {go[i - 1]}} : TRUE
    IN  go[Len(seq)]

Lambdas(names, body) ==
    LET n == Len(names)
        go[i \in 0..n] == IF i = 0 THEN body ELSE Lambda(names[n + 1 - i], go[i - 1])
    IN  go[n]
Apps(fn, vals) ==
    LET go[i \in 0..Len(vals)] == IF i = 0 THEN fn ELSE App(go[i - 1], vals[i])
    IN  go[Len(vals)]
Joined(seqs) ==
    LET go[i \in 0..Len(seqs)] == IF i = 0 THEN <<>> ELSE go[i - 1] \o seqs[i]
    IN  go[Len(seqs)]
Refs(names) == [i \in DOMAIN names |-> VarRef(names[i])]
Holes(n) == [i \in 1..n |-> "_"]

(* Patterns and types.                                                     *)
NoType == [name |-> "", args |-> <<>>, lower |-> FALSE]
AST(kind, name, args) == [kind |-> kind, name |-> name, args |-> args, value |-> 0, sig |-> NoType]
PHole == AST("hole", "_", <<>>)
PVar(name) == AST("lower", name, <<>>)
PCons(name, args) == AST("upper", name, args)
Typed(ast) == ast.sig # NoType
RECURSIVE lowerVars(_)
lowerVars(t) == (IF t.lower THEN {t.name} ELSE {}) \union UNION {lowerVars(t.args[i]) : i \in DOMAIN t.args}
RECURSIVE typeVars(_)
typeVars(ast) == lowerVars(ast.sig) \union UNION {typeVars(ast.args[i]) : i \in DOMAIN ast.args}

----------------------------------------------------------------------------
(* relabel_anon: every hole of the expression becomes an argument.  Holes  *)
(* below a definition or in the cases of a match have been named before.   *)
RECURSIVE relabel_descend(_, _)
relabel_descend(e, index) ==
    LET Both(r) == relabel_descend(e.val, r.index)
        fn == relabel_descend(e.fn, index)
        body == relabel_descend(e.body, index)
        args == Fold(LAMBDA acc, a : LET r == relabel_descend(a, acc.index)
                                         IN  [exprs |-> Append(acc.exprs, r.expr), index |-> r.index],
                         [exprs |-> <<>>, index |-> index], e.args)
    IN  CASE e.type = "VarRef" /\ e.name = "_" ->
                 [expr |-> VarRef("_ " \o ToString(index + 1)), index |-> index + 1]
          [] e.type = "App" -> [expr |-> App(fn.expr, Both(fn).expr), index |-> Both(fn).index]
          [] e.type \in {"Lambda", "Ascribe"} ->
                 [expr |-> [e EXCEPT !.body = body.expr], index |-> body.index]
          [] e.type = "Match" -> [expr |-> [e EXCEPT !.args = args.exprs], index |-> args.index]
          [] OTHER -> [expr |-> e, index |-> index]

relabel_anon(e) ==
    LET Closed(r) == Lambdas([i \in 1..r.index |-> "_ " \o ToString(i)], r.expr)
    IN  Closed(relabel_descend(e, 0))

----------------------------------------------------------------------------
(* dst_pattern names the literals of a pattern; each becomes a comparison  *)
(* in the guard.                                                           *)
RECURSIVE dst_pattern(_, _)
dst_pattern(p, lits) ==
    LET args == Fold(LAMBDA acc, a : LET r == dst_pattern(a, acc.lits)
                                         IN  [asts |-> Append(acc.asts, r.ast), lits |-> r.lits],
                         [asts |-> <<>>, lits |-> lits], p.args)
    IN  IF p.kind = "literal"
        THEN [ast |-> PVar("_ k" \o ToString(Len(lits))), lits |-> Append(lits, p.value)]
        ELSE [ast |-> [p EXCEPT !.args = args.asts], lits |-> args.lits]

add_literal_guards(guard, lits) ==
    Fold(LAMBDA g, i :
                 Match(<<Apps(Lambdas(Holes(2), Prim("icmp")),
                              <<Literal(lits[i]), VarRef("_ k" \o ToString(i - 1))>>)>>,
                       <<Case(PCons("LT@wake", <<>>), VarRef("False@wake"), None),
                         Case(PCons("GT@wake", <<>>), VarRef("False@wake"), None),
                         Case(PCons("EQ@wake", <<>>), g, None)>>),
             IF guard = None /\ lits # <<>> THEN VarRef("True@wake") ELSE guard,
             [i \in DOMAIN lits |-> i])

----------------------------------------------------------------------------
RECURSIVE dst_expr(_)

(* A definition by a constructor pattern: one definition for the whole,    *)
(* and one for every part, which matches it out of the whole.              *)
RECURSIVE extract_def(_, _, _, _)
extract_def(index, ast, vars, body) ==
    LET n == index + 1
        key == "_ extract " \o ToString(n)
        Part(i) == LET m == ast.args[i]
                       mname == "_ " \o m.name
                       parts == [j \in DOMAIN ast.args |->
                                    IF j = i THEN [PVar(mname) EXCEPT !.sig = m.sig] ELSE PHole]
                       match == Match(<<VarRef(key)>>,
                                      <<Case([ast EXCEPT !.args = parts, !.sig = IF i = 1 THEN @ ELSE NoType],
                                             VarRef(mname), None)>>)
                   IN  IF m.kind = "upper"
                       THEN extract_def(n, [m EXCEPT !.sig = NoType], vars, match)
                       ELSE <<Def(m.name, match, vars)>>
        discard == Def("_ discard " \o ToString(n),
                       Match(<<VarRef(key)>>, <<Case(PCons(ast.name, <<>>), VarRef(key), None)>>), vars)
    IN  <<Def(key, body, vars)>>
        \o (IF ast.args = <<>> THEN <<discard>> ELSE <<>>)
        \o Joined([i \in DOMAIN ast.args |-> Part(i)])

(* The arguments of a definition, and its body below them.                 *)
DefArgs(ast) == LET pattern == \E i \in DOMAIN ast.args : ast.args[i].kind = "upper"
                IN  [i \in DOMAIN ast.args |->
                        IF pattern THEN "_ " \o ToString(i - 1) ELSE ast.args[i].name]

DefBody(ast, body) ==
    LET pattern == \E i \in DOMAIN ast.args : ast.args[i].kind = "upper"
        typed == SelectSeq(ast.args, LAMBDA a : Typed(a))
        whole == IF Len(ast.args) > 1 THEN PCons("", ast.args) ELSE ast.args[1]
        checks == [i \in DOMAIN typed |->
                      Def("_type " \o typed[i].name, Ascribe(typed[i].sig, VarRef(typed[i].name)), {})]
        inner == CASE pattern -> Match(Refs(DefArgs(ast)), <<Case(whole, body, None)>>)
                   [] ~pattern /\ typed # <<>> -> DefMap(checks, body)
                   [] OTHER -> body
    IN  IF Typed(ast) THEN Ascribe(ast.sig, inner) ELSE inner

(* A target calls tget with its table, its body and its arguments.         *)
TargetBody(name, args, body) ==
    Apps(Lambda("_ target", Lambda("_ body", Lambdas(Holes(Len(args)), Prim("tget")))),
         <<VarRef("table " \o name), Lambda("_", body)>> \o Refs(args))

(* The literals of the table that only its messages show are left out.     *)
TargetTable(name, tohash) ==
    Def("table " \o name, App(Lambda("_", Prim("tnew")), Literal(tohash)), {})

(* n is the number of definitions before this one.                         *)
DefsOf(def, n, body) ==
    LET ast == def.ast
        inner == DefBody(ast, body)
        args == DefArgs(ast)
        name == IF ast.name = "_" THEN "_" \o ToString(n) \o " _" ELSE ast.name
    IN  CASE ast.kind = "upper" -> extract_def(n, ast, typeVars(ast), body)
          [] ast.kind # "upper" /\ def.k = "target" ->
                 <<TargetTable(name, def.tohash),
                   Def(name, Lambdas(args, TargetBody(name, args, inner)), typeVars(ast))>>
          [] OTHER -> <<Def(name, Lambdas(args, inner), typeVars(ast))>>

dst_body(e) == relabel_anon(dst_expr(e))
dst_def(def, n) == DefsOf(def, n, dst_body(def.body))

(* bind_def refuses a name that the map has.                               *)
Duplicates(defs) == \E i, j \in DOMAIN defs : i # j /\ defs[i].name = defs[j].name

dst_block(e) ==
    LET Block(defs) == IF Duplicates(defs) THEN BadExpr ELSE DefMap(defs, dst_body(e.body))
    IN  Block(Fold(LAMBDA acc, d : acc \o dst_def(d, Len(acc)), <<>>, e.defs))

dst_case(c) ==
    LET pats == dst_pattern(PCons("", c.patterns), <<>>)
        guard == IF c.guard = None THEN None ELSE dst_body(c.guard)
    IN  Case(IF Len(c.patterns) = 1 THEN pats.ast.args[1] ELSE pats.ast,
             dst_body(c.body), add_literal_guards(guard, pats.lits))

dst_require(e) ==
    LET p == dst_pattern(e.pattern, <<>>)
        block == dst_body(e.body)
        otherwise == IF e.otherwise = None THEN None ELSE dst_body(e.otherwise)
    IN  [Match(<<dst_body(e.rhs)>>,
               <<Case(p.ast, block, add_literal_guards(None, p.lits))>>)
            EXCEPT !.refutable = TRUE, !.otherwise = otherwise]

dst_lambda(e) ==
    LET ast == e.pattern
        body == dst_body(e.body)
    IN  CASE ast.kind = "upper" ->
                 Lambda("_ xx", Match(<<VarRef("_ xx")>>, <<Case(ast, body, None)>>))
          [] ast.kind # "upper" /\ Typed(ast) ->
                 Lambda("_ typed", DefMap(<<Def(ast.name, Ascribe(ast.sig, VarRef("_ typed")), {})>>, body))
          [] OTHER -> Lambda(ast.name, body)

dst_expr(e) ==
    CASE e.k = "id" -> VarRef(e.name)
      [] e.k = "hole" -> VarRef("_")
      [] e.k = "literal" -> Literal(e.value)
      [] e.k = "prim" -> Prim(e.name)
      [] e.k = "subscribe" -> Subscribe(e.name)
      [] e.k = "paren" -> dst_body(e.body)
      [] e.k = "app" -> App(dst_expr(e.fn), dst_expr(e.val))
      [] e.k = "ascribe" -> Ascribe(e.sig, dst_expr(e.body))
      [] e.k = "lambda" -> dst_lambda(e)
      [] e.k = "block" -> dst_block(e)
      [] e.k = "require" -> dst_require(e)
      [] e.k = "match" -> Match([i \in DOMAIN e.args |-> dst_expr(e.args[i])],
                                [i \in DOMAIN e.cases |-> dst_case(e.cases[i])])
      [] e.k = "if" -> Match(<<dst_body(e.cond)>>,
                             <<Case(PCons("True@wake", <<>>), dst_body(e.then), None),
                               Case(PCons("False@wake", <<>>), dst_body(e.else), None)>>)

----------------------------------------------------------------------------
(* A data type defines its constructors; a tuple also the functions that   *)
(* get, edit and set each of its members.                                  *)
dst_data(sum) ==
    [c \in DOMAIN sum.members |->
        Def(sum.members[c].name,
            Lambdas(Holes(Len(sum.members[c].args)), Construct(sum, c)), {})]

(* The fields of a copy are bound the last first: a Construct takes them   *)
(* in the order they were bound.                                           *)
Fields(sum, i, new) ==
    LET n == Len(sum.members[1].args)
    IN  [k \in 1..n |-> LET inner == n + 1 - k
                        IN  Def("_ a" \o ToString(k), IF inner = i THEN new ELSE Get(sum, 1, inner), {})]

dst_tuple(sum) ==
    LET tags == sum.tags
        Edited(i) == App(VarRef("fn" \o tags[i]), App(Lambda("_", Get(sum, 1, i)), VarRef("_ x")))
        Member(i) ==
            <<Def("get" \o sum.name \o tags[i], Lambda("_", Get(sum, 1, i)), {}),
              Def("edit" \o sum.name \o tags[i],
                  Lambda("fn" \o tags[i], Lambda("_ x", DefMap(Fields(sum, i, Edited(i)), Construct(sum, 1)))), {}),
              Def("set" \o sum.name \o tags[i],
                  Lambda(tags[i], Lambda("_ x", DefMap(Fields(sum, i, VarRef(tags[i])), Construct(sum, 1)))), {})>>
    IN  dst_data(sum) \o Joined([i \in DOMAIN tags |-> Member(i)])
=============================================================================
