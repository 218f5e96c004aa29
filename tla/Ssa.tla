-------------------------------- MODULE Ssa --------------------------------
(***************************************************************************)
(* The intermediate language of the compiler (src/optimizer/ssa.h): terms, *)
(* the stream that the passes rewrite them with, the translation of a      *)
(* bound expression into terms (tossa.cpp) and the final pass that turns   *)
(* references into (depth, offset) pairs (scope.cpp).                      *)
(*                                                                         *)
(* A function is a term that owns the terms of its body.  A reference is   *)
(* the flat index of a term in the stack of the enclosing bodies: the body *)
(* of the function at index f starts at f + 1.  The root is at index 0.    *)
(***************************************************************************)
EXTENDS Integers, Sequences, SequencesExt, FiniteSets, FiniteSetsExt, TLC

(* The members of a set, in some fixed order.                              *)
Listed(set) ==
    LET go[s \in SUBSET set] == IF s = {} THEN <<>>
                                ELSE LET x == CHOOSE y \in s : TRUE IN Append(go[s \ {x}], x)
    IN  go[set]

(* x, evaluated, for Op to use.  TLC evaluates an argument at its first    *)
(* use: left to itself it nests a computation inside the one it feeds.     *)
Then(x, Op(_)) == CHOOSE r \in {Op(y) : y \in {x}} : TRUE

Fold(op(_, _), base, seq) ==
    LET go[i \in 0..Len(seq)] == IF i = 0 THEN base
                                 ELSE CHOOSE r \in {op(acc, seq[i]) : acc \in {go[i - 1]}} : TRUE
    IN  go[Len(seq)]

(* An index of no term.                                                    *)
Invalid == -1

(***************************************************************************)
(* Terms.  x is what the class adds to its arguments: the value of an      *)
(* RLit, the name of an RPrim, the index of an RGet, the constructor of an *)
(* RCon.  flags holds the SSA_ flags and meta the scratch of a pass.  Of    *)
(* the labels only "_ guard" means something to a pass.                    *)
(***************************************************************************)
Term(op, args, x) ==
    [op |-> op, args |-> args, x |-> x, terms |-> <<>>, output |-> 0, flags |-> {}, meta |-> 0, label |-> ""]

RArg == [Term("arg", <<>>, 0) EXCEPT !.label = "arg"]
RLit(value) == Term("lit", <<>>, value)
RApp(fn, arg) == Term("app", <<fn, arg>>, 0)
RPrim(name, args) == Term("prim", args, name)
RGet(index, obj) == Term("get", <<obj>>, index)
RDes(args) == Term("des", args, 0)
RCon(kind, args) == Term("con", args, kind)
RFun(flags) == [Term("fun", <<>>, 0) EXCEPT !.flags = flags, !.label = "anon"]

(* The number of leading arguments of a function.                          *)
Arity(fun) == Cardinality({i \in DOMAIN fun.terms : \A j \in 1..i : fun.terms[j].op = "arg"})

SetFlag(term, flag, on) == [term EXCEPT !.flags = IF on THEN @ \union {flag} ELSE @ \ {flag}]

(***************************************************************************)
(* The primitives of the model and their flags: E has an effect, O         *)
(* observes the order, F calls its function argument.                      *)
(***************************************************************************)
PrimFlags(name) ==
    CASE name = "observe" -> {"O"}
      [] name \in {"print", "job"} -> {"E", "O"}
      [] name = "tnew" -> {"O"}
      [] name = "tget" -> {"F"}
      [] OTHER -> {}

(***************************************************************************)
(* A TermStream: scope is the stack of terms written so far, map the new   *)
(* index of every old one from start on.                                   *)
(***************************************************************************)
TermStream(scope, start) == [scope |-> scope, start |-> start, map |-> <<>>]

End(s) == Len(s.scope)
Place(s, at) == [s EXCEPT !.map = Append(@, at)]
Transfer(s, term) == Place([s EXCEPT !.scope = Append(@, term)], End(s))
At(s, i) == s.scope[i + 1]
Put(s, i, term) == [s EXCEPT !.scope[i + 1] = term]
Shared(s, i) == Put(s, i, SetFlag(At(s, i), "SINGLETON", FALSE))
Discard(s, at, singleton) == Place(IF singleton THEN s ELSE Shared(s, at), at)

(* SourceMap::operator[]                                                   *)
New(s, i) == IF i < s.start THEN i ELSE s.map[i - s.start + 1]
Update(s, term) ==
    IF term.op = "fun"
    THEN [term EXCEPT !.output = New(s, @)]
    ELSE [term EXCEPT !.args = [i \in DOMAIN @ |-> New(s, @[i])]]

(* TermStream::end pops the body that began when the stream was cp.        *)
Unwind(s, cp) == [s EXCEPT !.scope = SubSeq(@, 1, End(cp)), !.map = SubSeq(@, 1, Len(cp.map))]
Popped(s, cp) == SubSeq(s.scope, End(cp) + 1, End(s))

----------------------------------------------------------------------------
(***************************************************************************)
(* tossa.cpp.  A bound expression names a value by its distance on the     *)
(* stack of binders (env.stack holds the index of each) and a defined      *)
(* function by its name (env.fn).  A definition has values, then groups of *)
(* functions: the strongly connected components of their references.       *)
(***************************************************************************)
RECURSIVE doit(_, _, _)

(* Translate expressions in turn: the terms and the index of each.         *)
doAll(scope, env, exprs) ==
    Fold(LAMBDA acc, e : Then(doit(acc.scope, env, e), LAMBDA r :
                              [scope |-> r.scope, metas |-> Append(acc.metas, r.meta)]),
         [scope |-> scope, metas |-> <<>>], exprs)

Emit(scope, term) == [scope |-> Append(scope, term), meta |-> Len(scope)]

(* The body of the function at index at is what was written after it.      *)
CloseFun(scope, at, output) ==
    Append(SubSeq(scope, 1, at),
           [scope[at + 1] EXCEPT !.terms = SubSeq(scope, at + 2, Len(scope)), !.output = output])

doLambda(scope, env, e) ==
    LET at == Len(scope)
        flags == IF e.recursive THEN {"RECURSIVE"} ELSE {}
        inner == [stack |-> <<at + 1>> \o env.stack, fn |-> (e.name :> at) @@ env.fn]
    IN  Then(doit(scope \o <<RFun(flags), RArg>>, inner, e.body), LAMBDA body :
             [scope |-> CloseFun(body.scope, at, body.meta), meta |-> at])

(* A proxy finds function j of a mutual group by calling the group with    *)
(* itself, and applies it.                                                 *)
doProxy(scope, mid, j) ==
    LET at == Len(scope)
    IN  CloseFun(scope \o <<RFun({}), RArg, RApp(mid, mid), RGet(j, at + 2), RApp(at + 3, at + 1)>>,
                 at, at + 4)

doMutual(scope, env, group) ==
    LET mid == Len(scope)
        n == Len(group)
        proxies == Fold(LAMBDA s, j : doProxy(s, mid, j - 1),
                            scope \o <<RFun({"RECURSIVE"}), RArg>>, [j \in 1..n |-> j])
        names == [j \in 1..n |-> group[j].name]
        Bind(at) == [env EXCEPT !.fn = [f \in Range(names) |-> at - 1 + CHOOSE j \in 1..n : names[j] = f] @@ @]
        funs == Fold(LAMBDA acc, e :
                             LET r == doLambda(acc.scope, acc.env, e)
                             IN  [scope |-> r.scope, metas |-> Append(acc.metas, r.meta),
                                  env |-> [acc.env EXCEPT !.fn = (e.name :> r.meta) @@ @]],
                         [scope |-> proxies, metas |-> <<>>, env |-> Bind(mid + 2)], group)
        con == Emit(funs.scope, RCon([name |-> "array", index |-> 0], funs.metas))
        mutual == CloseFun(con.scope, mid, con.meta)
    IN  [scope |-> mutual \o <<RApp(mid, mid)>> \o [j \in 1..n |-> RGet(j - 1, mid + 1)],
         env |-> Bind(mid + 2)]

doGroup(scope, env, group) ==
    IF Len(group) = 1
    THEN Then(doLambda(scope, env, group[1]), LAMBDA r :
              [scope |-> r.scope, env |-> [env EXCEPT !.fn = (group[1].name :> r.meta) @@ @]])
    ELSE doMutual(scope, env, group)

(* A value that has no label yet gets the name it is defined with.         *)
Labelled(scope, metas, names) ==
    Fold(LAMBDA s, i : IF s[metas[i] + 1].label = "" THEN [s EXCEPT ![metas[i] + 1].label = names[i]] ELSE s,
         scope, [i \in DOMAIN names |-> i])

doDef(scope, env, e) ==
    LET Funs(vals) == Fold(LAMBDA acc, g : doGroup(acc.scope, acc.env, g),
                           [scope |-> vals.scope, env |-> [env EXCEPT !.stack = vals.metas \o @]], e.fun)
    IN  Then(Then(doAll(scope, env, e.val), Funs), LAMBDA funs :
             doit(Labelled(funs.scope, SubSeq(funs.env.stack, 1, Len(e.val)), e.names), funs.env, e.body))

(* The n innermost binders, outermost first.                               *)
Innermost(env, n) == [i \in 1..n |-> env.stack[n + 1 - i]]

doit(scope, env, e) ==
    CASE e.type = "VarRef" -> [scope |-> scope, meta |-> env.stack[e.index + 1]]
      [] e.type = "FunRef" -> [scope |-> scope, meta |-> env.fn[e.name]]
      [] e.type = "App" -> Then(doAll(scope, env, <<e.fn, e.val>>), LAMBDA r :
                                Emit(r.scope, RApp(r.metas[1], r.metas[2])))
      [] e.type = "Lambda" -> doLambda(scope, env, e)
      [] e.type = "DefBinding" -> doDef(scope, env, e)
      [] e.type = "Literal" -> Emit(scope, RLit(e.value))
      [] e.type = "Construct" -> Emit(scope, RCon(e.cons, Innermost(env, e.arity)))
      [] e.type = "Destruct" -> Then(doAll(scope, env, Append(e.cases, e.arg)), LAMBDA r :
                                     Emit(r.scope, RDes(r.metas)))
      [] e.type = "Prim" -> Emit(scope, RPrim(e.name, Innermost(env, e.args)))
      [] e.type = "Get" -> Emit(scope, RGet(e.index, env.stack[1]))

fromExpr(e) ==
    LET r == doit(<<RFun({}), RArg>>, [stack |-> <<>>, fn |-> <<>>], e)
    IN  CloseFun(r.scope, 0, r.meta)[1]

----------------------------------------------------------------------------
(***************************************************************************)
(* scope.cpp.  starts holds the index of the first term of every enclosing *)
(* body, innermost last.  The references of a function to outer terms are  *)
(* its escapes, in the order of their first use: output first.             *)
(***************************************************************************)
scope_arg(starts, i) ==
    LET owner == CHOOSE k \in DOMAIN starts :
                     /\ starts[k] <= i
                     /\ \A l \in DOMAIN starts : l > k => i < starts[l]
    IN  <<Len(starts) - owner, i - starts[owner]>>

RECURSIVE pass_scope(_, _, _)

(* The indices below start that a scoped term refers to, from the inside.  *)
Uses(term, start) ==
    SelectSeq(IF term.op = "fun" THEN term.x ELSE term.args, LAMBDA i : i < start)

Unique(seq) == Fold(LAMBDA acc, i : IF Contains(acc, i) THEN acc ELSE Append(acc, i), <<>>, seq)

(* index is the function's own.  Its x keeps the escapes as flat indices,  *)
(* its args become them as (depth, offset) pairs.                          *)
pass_scope(fun, starts, index) ==
    LET start == index + 1
        inner == Append(starts, start)
        kids == [i \in DOMAIN fun.terms |->
                    IF fun.terms[i].op = "fun"
                    THEN pass_scope(fun.terms[i], inner, index + i)
                    ELSE fun.terms[i]]
        flat == Fold(LAMBDA acc, t : acc \o Uses(t, start),
                         SelectSeq(<<fun.output>>, LAMBDA i : i < start), kids)
        escapes == Unique(flat)
        Pair(i) == scope_arg(inner, i)
    IN  [fun EXCEPT
            !.x = escapes,
            !.args = [k \in DOMAIN escapes |-> scope_arg(starts, escapes[k])],
            !.output = Pair(@),
            !.terms = [i \in DOMAIN kids |->
                          IF kids[i].op = "fun" THEN kids[i]
                          ELSE [kids[i] EXCEPT !.args = [k \in DOMAIN @ |-> Pair(@[k])]]]]

Scoped(root) == pass_scope(root, <<0>>, 0)

(* RFun::hash of a scoped function: its body, with its escapes numbered.   *)
(* A constructor counts by its name alone.                                 *)
RECURSIVE FunHash(_)
FunHash(fun) ==
    LET Code(a) == IF a[1] = 0 THEN a
                   ELSE <<1, CHOOSE k \in DOMAIN fun.args : fun.args[k] = <<a[1] - 1, a[2]>>>>
        Own(t) == CASE t.op = "fun" -> FunHash(t)
                    [] t.op = "con" -> t.x.name
                    [] OTHER -> t.x
    IN  <<Code(fun.output)>> \o
        [i \in DOMAIN fun.terms |->
            LET t == fun.terms[i] IN <<t.op, Own(t), [k \in DOMAIN t.args |-> Code(t.args[k])]>>]
=============================================================================
