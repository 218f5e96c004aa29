-------------------------------- MODULE Types --------------------------------
(***************************************************************************)
(* Type inference and the resolution of variables: explore of              *)
(* src/dst/bind.cpp on the type variables of src/types/type.cpp.  What it  *)
(* leaves is the bound expression that tossa.cpp reads.                    *)
(*                                                                         *)
(* st holds the type variables, numbered as they are made, the clock, the  *)
(* functions that are used by their own group, and whether all is well.    *)
(* A variable has the time of its birth, the variable it was united with   *)
(* (0 if none), and what its class shares: the least birth of the          *)
(* variables in it, the constructor ("" if free) and its arguments.        *)
(***************************************************************************)
EXTENDS Packages

TypeVar(dob, name, args) == [dob |-> dob, up |-> 0, free |-> dob, name |-> name, args |-> args]
NoTypes == [vars |-> <<>>, clock |-> 0, rec |-> {}, ok |-> TRUE]
FN == "binary =>@builtin"

Failed(st) == [st EXCEPT !.ok = FALSE]
Last1(st) == Len(st.vars)

(* setDOB of a variable never seen, and of one born with another.          *)
Fresh(st) == [st EXCEPT !.vars = Append(@, TypeVar(st.clock + 1, "", <<>>)), !.clock = @ + 1]
FreshWith(st, other) == [st EXCEPT !.vars = Append(@, TypeVar(st.vars[other].dob, "", <<>>))]

(* TypeVar(name, nargs): a constructor over fresh variables; it is last.   *)
Build(st, name, n) ==
    LET kids == [i \in 1..n |-> Len(st.vars) + i]
        new == [i \in 1..n |-> TypeVar(st.clock + 1 + i, "", <<>>)]
    IN  [st EXCEPT !.vars = @ \o Append(new, TypeVar(st.clock + 1, name, kids)), !.clock = @ + 1 + n]

RECURSIVE Rep(_, _)
Rep(st, v) == IF st.vars[v].up = 0 THEN v ELSE Rep(st, st.vars[v].up)
Payload(st, v) == st.vars[Rep(st, v)]
IsFree(st, v) == Payload(st, v).name = ""
Child(st, v, i) == IF st.ok THEN Payload(st, v).args[i] ELSE v

RECURSIVE contains(_, _, _)
contains(st, a, b) ==
    Rep(st, a) = Rep(st, b) \/ \E i \in DOMAIN Payload(st, a).args : contains(st, Payload(st, a).args[i], b)

do_cap_top(st, v, dob) ==
    [st EXCEPT !.vars[Rep(st, v)].free = IF dob < @ THEN dob ELSE @]

RECURSIVE do_cap(_, _, _)
do_cap(st, v, dob) ==
    Fold(LAMBDA s, k : do_cap(s, k, dob),
             [st EXCEPT !.vars[Rep(st, v)].free = IF dob < @ THEN dob ELSE @],
             Payload(st, v).args)

union_consume(st, a, b) ==
    IF Rep(st, a) = Rep(st, b) THEN st ELSE [st EXCEPT !.vars[Rep(st, b)].up = Rep(st, a)]

RECURSIVE do_unify(_, _, _)
do_unify(st, a, b) ==
    LET x == Payload(st, a)
        y == Payload(st, b)
        taken == [st EXCEPT !.vars[Rep(st, a)].name = y.name, !.vars[Rep(st, a)].args = y.args,
                            !.vars[Rep(st, a)].free = y.free]
        kids == Fold(LAMBDA s, i : do_unify(s, x.args[i], y.args[i]), st, [i \in DOMAIN x.args |-> i])
    IN  CASE ~st.ok \/ Rep(st, a) = Rep(st, b) -> st
          [] st.ok /\ Rep(st, a) # Rep(st, b) /\ (y.name = "" \/ x.name = "") ->
                 IF y.name = "" THEN IF contains(st, a, b) THEN Failed(st)
                                     ELSE union_consume(do_cap(st, a, y.free), a, b)
                 ELSE IF contains(st, b, a) THEN Failed(st)
                      ELSE union_consume(do_cap(taken, a, x.free), a, b)
          [] OTHER -> IF x.name # y.name \/ Len(x.args) # Len(y.args) THEN Failed(st)
                      ELSE IF kids.ok THEN union_consume(kids, a, b) ELSE kids

Unify(st, a, b) == do_unify(st, a, b)
UnifyBuilt(st, v, name, n) == LET b == Build(st, name, n) IN IF st.ok THEN Unify(b, v, Last1(b)) ELSE st

(* clone: a copy of the variables born since the definition began.  links  *)
(* keeps what two parts of the type share shared in the copy.              *)
RECURSIVE do_clone(_, _, _)
do_clone(acc, v, dob) ==
    LET st == Fresh(acc.st)
        out == Last1(st)
        r == Rep(st, v)
        p == st.vars[r]
        kids == Fold(LAMBDA a, k : LET c == do_clone(a, k, dob)
                                       IN  [st |-> c.st, links |-> c.links, outs |-> Append(a.outs, c.out)],
                         [st |-> st, links |-> (r :> out) @@ acc.links, outs |-> <<>>], p.args)
    IN  CASE p.name = "" /\ p.free < dob -> [st |-> union_consume(st, v, out), links |-> acc.links, out |-> out]
          [] ~(p.name = "" /\ p.free < dob) /\ r \in DOMAIN acc.links ->
                 [st |-> union_consume(st, acc.links[r], out), links |-> acc.links, out |-> out]
          [] OTHER -> [st |-> [kids.st EXCEPT !.vars[out].name = p.name, !.vars[out].args = kids.outs],
                       links |-> kids.links, out |-> out]

clone(st, v) == do_clone([st |-> st, links |-> <<>>], v, st.vars[v].dob)

(* AST::unify: a written type, with what its variables stand for.          *)
RECURSIVE ast_unify(_, _, _, _)
ast_unify(st, t, v, ids) ==
    LET b == UnifyBuilt(st, v, t.name, Len(t.args))
    IN  CASE ~st.ok -> st
          [] st.ok /\ t.lower -> IF t.name \in DOMAIN ids THEN Unify(st, v, ids[t.name]) ELSE Failed(st)
          [] OTHER -> Fold(LAMBDA s, i : ast_unify(s, t.args[i], Child(s, v, i), ids),
                               b, [i \in DOMAIN t.args |-> i])

----------------------------------------------------------------------------
(* The types of the primitives; args are the variables of the arguments.   *)
PrimType(st, name, args, out) ==
    LET Is(s, v, type) == UnifyBuilt(s, v, type, 0)
        int == "Integer@builtin"
        ints == Fold(LAMBDA s, v : Is(s, v, int), st, args)
        Arity(n) == Len(args) = n
        fn == UnifyBuilt(Is(st, args[1], "Target@builtin"), args[2], FN, 2)
        tget == Unify(Is(fn, Child(fn, args[2], 1), "Target@builtin"), out, Child(fn, args[2], 2))
    IN  CASE name \in {"add", "sub"} -> IF Arity(2) THEN Is(ints, out, int) ELSE Failed(st)
          [] name \in {"observe", "job"} -> IF Arity(1) THEN Is(ints, out, int) ELSE Failed(st)
          [] name = "print" -> IF Arity(1) THEN Is(ints, out, "Unit@wake") ELSE Failed(st)
          [] name = "icmp" -> IF Arity(2) THEN Is(ints, out, "Order@wake") ELSE Failed(st)
          [] name = "tnew" -> IF Arity(1) THEN Is(ints, out, "Target@builtin") ELSE Failed(st)
          [] name = "tget" -> IF Len(args) >= 2 THEN tget ELSE Failed(st)

----------------------------------------------------------------------------
(***************************************************************************)
(* NameBinding.  frames lists the enclosing binders, the innermost first:  *)
(* a Lambda, or a DefBinding with its values and functions in order and    *)
(* the number of them that are generalized by now.                         *)
(***************************************************************************)
LambdaFrame(name, var) == [k |-> "lambda", name |-> name, var |-> var, open |-> TRUE]
DefFrame(vals, funs, vars, gen) ==
    [k |-> "def", vals |-> vals, funs |-> funs, vars |-> vars, gen |-> gen, open |-> TRUE]
Close(frames) == IF frames = <<>> THEN frames ELSE [frames EXCEPT ![1].open = FALSE]
Width(frame) == IF frame.k = "lambda" THEN 1 ELSE Len(frame.vals)
Order(frame) == frame.vals \o frame.funs
Has(frame, x) == IF frame.k = "lambda" THEN frame.name = x ELSE Contains(Order(frame), x)

(* Where a name is bound: the frame, the place in it and the distance.     *)
RECURSIVE find(_, _, _)
find(frames, x, index) ==
    IF frames = <<>> THEN [kind |-> "none"]
    ELSE LET f == Head(frames)
             idx == CHOOSE i \in DOMAIN Order(f) : Order(f)[i] = x
         IN  CASE ~Has(f, x) -> find(Tail(frames), x, index + Width(f))
               [] Has(f, x) /\ f.k = "lambda" -> [kind |-> "lambda", index |-> index, var |-> f.var]
               [] OTHER -> [kind |-> IF idx <= Len(f.vals) THEN "val" ELSE "fun",
                            index |-> index + idx - 1, var |-> f.vars[idx], def |-> idx <= f.gen]

(* Whether exploring an expression closes the frame that it is in.         *)
RECURSIVE Closes(_)
Closes(e) == \/ e.type \in {"App", "DefBinding"}
             \/ e.type = "Ascribe" /\ Closes(e.body)
             \/ e.type = "Destruct" /\ Closes(e.arg)

RECURSIVE OpenLambdas(_)
OpenLambdas(frames) ==
    IF frames = <<>> \/ ~Head(frames).open \/ Head(frames).k # "lambda" THEN <<>>
    ELSE Append(OpenLambdas(Tail(frames)), Head(frames).var)

(* TypeScope: the type variables that a definition introduces.  Once it    *)
(* is explored they must still be free, of their own age, and distinct.    *)
OpenScope(st, names, ids, v) ==
    Fold(LAMBDA acc, n : LET s == FreshWith(acc.st, v)
                             IN  [st |-> s, ids |-> (n :> Last1(s)) @@ acc.ids],
             [st |-> st, ids |-> ids], Listed(names \ DOMAIN ids))
CloseScope(st, names, ids) ==
    IF \A n \in names : /\ IsFree(st, ids[n]) /\ st.vars[ids[n]].dob = Payload(st, ids[n]).free
                        /\ \A o \in names \ {n} : Rep(st, ids[n]) # Rep(st, ids[o])
    THEN st ELSE Failed(st)

----------------------------------------------------------------------------
(***************************************************************************)
(* explore, one node at a time.  t.tasks is what is left to do: the nodes  *)
(* to visit, and what follows once their parts are explored.  t.vs holds   *)
(* the type variables of the parts and t.outs the bound expressions they   *)
(* became, the last on top.  v is the type variable of an expression and   *)
(* ids what the type variables in scope stand for.                         *)
(***************************************************************************)
Visit(e, frames, ids) == [k |-> "visit", e |-> e, frames |-> frames, ids |-> ids]
Start(e) == [st |-> NoTypes, tasks |-> <<Visit(e, <<>>, <<>>)>>, vs |-> <<>>, outs |-> <<>>]

Top(seq, n) == seq[Len(seq) - n]
Least(seq, n) == SubSeq(seq, 1, Len(seq) - n)
Most(seq, n) == SubSeq(seq, Len(seq) - n + 1, Len(seq))

(* The task at hand is done, or makes others.                              *)
Do(t, st, tasks) == [t EXCEPT !.st = st, !.tasks = tasks \o Tail(@)]
(* The parts, whose variables are the last n, are made into expr.          *)
Made(t, st, n, parts, expr) ==
    [t EXCEPT !.st = st, !.tasks = Tail(@), !.vs = Least(@, n), !.outs = Append(Least(@, parts), expr)]

ExploreRef(t, e, v, frames) ==
    LET pos == find(frames, e.name, 0)
        c == clone(t.st, pos.var)
        own == [t.st EXCEPT !.rec = IF pos.kind = "fun" THEN @ \union {pos.var} ELSE @]
        bound == IF pos.kind = "fun" THEN [type |-> "FunRef", name |-> e.name]
                 ELSE [type |-> "VarRef", index |-> pos.index]
    IN  CASE pos.kind = "none" -> Do(t, Failed(t.st), <<>>)
          [] pos.kind # "none" /\ pos.kind # "lambda" /\ pos.def -> Made(t, Unify(c.st, v, c.out), 0, 0, bound)
          [] OTHER -> Made(t, Unify(own, v, pos.var), 0, 0, bound)

ExploreApp(t, e, v, frames, ids) ==
    Do(t, t.st, <<Visit(e.fn, Close(frames), ids), Visit(e.val, Close(frames), ids), [k |-> "app", v |-> v]>>)
Applied(t, v) ==
    LET fn == Top(t.vs, 1)
        st == UnifyBuilt(t.st, fn, FN, 2)
        arg == Unify(st, Child(st, fn, 1), Top(t.vs, 0))
    IN  Made(t, Unify(arg, Child(arg, fn, 2), v), 2, 2,
             [type |-> "App", fn |-> Top(t.outs, 1), val |-> Top(t.outs, 0)])

ExploreLambda(t, e, v, frames, ids) ==
    LET st == UnifyBuilt(t.st, v, FN, 2)
    IN  Do(t, st, <<Visit(e.body, <<LambdaFrame(e.name, Child(st, v, 1))>> \o frames, ids), [k |-> "lambda", v |-> v]>>)
Abstracted(t, v) ==
    Made(t, Unify(t.st, Child(t.st, v, 2), Top(t.vs, 0)), 1, 1,
         [type |-> "Lambda", name |-> "", recursive |-> FALSE, body |-> Top(t.outs, 0)])

(* A definition, in the scope of its own type variables.                   *)
Define(def, v, frames, ids) == [k |-> "define", def |-> def, v |-> v, frames |-> frames, ids |-> ids]
ExploreDef(t, x) ==
    LET scope == OpenScope(t.st, x.def.vars, x.ids, x.v)
    IN  Do(t, scope.st, <<[k |-> "at", e |-> x.def.body, v |-> x.v, frames |-> x.frames, ids |-> scope.ids],
                          [k |-> "close", names |-> x.def.vars \ DOMAIN x.ids, ids |-> scope.ids]>>)

(* The values are explored in turn, outside of the binding.                *)
ExploreDefBinding(t, e, v, frames, ids) ==
    Do(t, t.st, <<[k |-> "vals", e |-> e, v |-> v, outer |-> Close(frames), ids |-> ids, vars |-> <<>>, group |-> 1]>>)
ExploreVals(t, x) ==
    LET st == Fresh(t.st)
    IN  IF Len(x.vars) = Len(x.e.val) THEN Do(t, t.st, <<[x EXCEPT !.k = "funs"]>>)
        ELSE Do(t, st, <<Define(x.e.val[Len(x.vars) + 1], Last1(st), x.outer, x.ids),
                         [x EXCEPT !.vars = Append(@, Last1(st))]>>)

(* The functions of a group are born together; those of the groups before  *)
(* it, and the values, are generalized.                                    *)
Names(defs) == [i \in DOMAIN defs |-> defs[i].name]
ExploreFuns(t, x) ==
    LET n == Len(x.vars)
        more == x.group <= Len(x.e.fun)
        group == x.e.fun[x.group]
        first == Fresh(t.st)
        born == Fold(LAMBDA s, i : FreshWith(s, Last1(first)), first, Tail(group))
        vars == IF more THEN x.vars \o [i \in DOMAIN group |-> Last1(first) + i - 1] ELSE x.vars
        funs == SubSeq(Names(FlattenSeq(x.e.fun)), 1, Len(vars) - Len(x.e.val))
        frames == <<DefFrame(Names(x.e.val), funs, vars, n)>> \o x.outer
    IN  IF more THEN Do(t, born, [i \in DOMAIN group |-> Define(group[i], vars[n + i], frames, x.ids)]
                                 \o <<[x EXCEPT !.vars = vars, !.group = @ + 1]>>)
        ELSE Do(t, t.st, <<Visit(x.e.body, frames, x.ids), [x EXCEPT !.k = "binding"]>>)
Bound(t, x) ==
    LET vals == Len(x.e.val)
        parts == Most(t.outs, Len(x.vars) + 1)
        Before(g) == vals + Len(FlattenSeq(SubSeq(x.e.fun, 1, g - 1)))
        Fun(def, i) == [parts[i] EXCEPT !.name = def.name, !.recursive = x.vars[i] \in t.st.rec]
        Group(g) == [i \in DOMAIN x.e.fun[g] |-> Fun(x.e.fun[g][i], Before(g) + i)]
    IN  Made(t, Unify(t.st, x.v, Top(t.vs, 0)), 1, Len(parts),
             [type |-> "DefBinding", names |-> Names(x.e.val), val |-> SubSeq(parts, 1, vals), fun |-> [g \in DOMAIN x.e.fun |-> Group(g)],
              body |-> Top(parts, 0)])

(* The parameters of a data type stand for the arguments of v.             *)
Params(st, sum, v) == [n \in Range(sum.args) |-> Child(st, v, CHOOSE i \in DOMAIN sum.args : sum.args[i] = n)]

ExploreConstruct(t, e, v, frames) ==
    LET args == e.sum.members[e.cons].args
        n == Len(args)
        st == UnifyBuilt(t.st, v, e.sum.name, Len(e.sum.args))
        Field(i) == IF Head(frames).k = "lambda" THEN frames[n + 1 - i].var ELSE Head(frames).vars[n + 1 - i]
    IN  Made(t, Fold(LAMBDA s, i : ast_unify(s, args[i], Field(i), Params(st, e.sum, v)), st, [i \in 1..n |-> i]), 0, 0,
             [type |-> "Construct", arity |-> n, cons |-> [name |-> e.sum.members[e.cons].name, index |-> e.cons - 1]])

ExploreDestruct(t, e, v, frames, ids) ==
    LET inner == IF Closes(e.arg) THEN Close(frames) ELSE frames
        Each(i) == <<Visit(e.cases[i], inner, ids), [k |-> "case", v |-> v]>>
    IN  Do(t, t.st, <<Visit(e.arg, frames, ids), [k |-> "match", sum |-> e.sum]>>
                    \o FlattenSeq([i \in DOMAIN e.cases |-> Each(i)]) \o <<[k |-> "destruct", n |-> Len(e.cases)]>>)
CaseTyped(t, v) ==
    LET out == Unify(t.st, Child(t.st, Top(t.vs, 0), 2), v)
    IN  [Do(t, Unify(out, Child(out, Top(t.vs, 0), 1), Top(t.vs, 1)), <<>>) EXCEPT !.vs = Least(@, 1)]
Destructed(t, n) ==
    Made(t, t.st, 1, n + 1, [type |-> "Destruct", cases |-> Most(t.outs, n), arg |-> Top(t.outs, n)])

ExploreGet(t, e, v, frames) ==
    LET typ == SelectSeq(frames, LAMBDA f : f.k = "lambda")[1].var
        st == UnifyBuilt(t.st, typ, e.sum.name, Len(e.sum.args))
    IN  Made(t, ast_unify(st, e.sum.members[e.cons].args[e.index], v, Params(st, e.sum, typ)), 0, 0,
             [type |-> "Get", index |-> e.index - 1])

Ascribed(t, x) == Made(t, Unify(ast_unify(t.st, x.signature, x.v, x.ids), Top(t.vs, 0), x.v), 1, 1, Top(t.outs, 0))

ExplorePrim(t, e, v, args) ==
    Made(t, PrimType(t.st, e.name, args, v), 0, 0, [type |-> "Prim", name |-> e.name, args |-> Len(args)])

ExploreLiteral(t, e, v) ==
    Made(t, UnifyBuilt(t.st, v, "Integer@builtin", 0), 0, 0, [type |-> "Literal", value |-> [k |-> "int", n |-> e.value]])

explore(t, e, v, frames, ids) ==
    CASE e.type = "error" -> Do(t, Failed(t.st), <<>>)
      [] e.type = "VarRef" -> ExploreRef(t, e, v, frames)
      [] e.type = "App" -> ExploreApp(t, e, v, frames, ids)
      [] e.type = "Lambda" -> ExploreLambda(t, e, v, frames, ids)
      [] e.type = "DefBinding" -> ExploreDefBinding(t, e, v, frames, ids)
      [] e.type = "Literal" -> ExploreLiteral(t, e, v)
      [] e.type = "Construct" -> ExploreConstruct(t, e, v, frames)
      [] e.type = "Destruct" -> ExploreDestruct(t, e, v, frames, ids)
      [] e.type = "Ascribe" ->
             Do(t, t.st, <<Visit(e.body, frames, ids), [k |-> "ascribe", signature |-> e.signature, v |-> v, ids |-> ids]>>)
      [] e.type = "Prim" -> ExplorePrim(t, e, v, OpenLambdas(frames))
      [] e.type = "Get" -> ExploreGet(t, e, v, frames)

(* The next task; a failure ends the exploration.                          *)
Explored(t) == t.tasks = <<>> \/ ~t.st.ok
Step(t) ==
    LET x == Head(t.tasks)
        st == Fresh(t.st)
    IN  CASE x.k = "visit" -> explore([t EXCEPT !.st = st, !.vs = Append(@, Last1(st))], x.e, Last1(st), x.frames, x.ids)
          [] x.k = "at" -> explore(t, x.e, x.v, x.frames, x.ids)
          [] x.k = "define" -> ExploreDef(t, x)
          [] x.k = "close" -> Do(t, CloseScope(t.st, x.names, x.ids), <<>>)
          [] x.k = "app" -> Applied(t, x.v)
          [] x.k = "lambda" -> Abstracted(t, x.v)
          [] x.k = "vals" -> ExploreVals(t, x)
          [] x.k = "funs" -> ExploreFuns(t, x)
          [] x.k = "binding" -> Bound(t, x)
          [] x.k = "match" -> Do(t, UnifyBuilt(t.st, Top(t.vs, 0), x.sum.name, Len(x.sum.args)), <<>>)
          [] x.k = "case" -> CaseTyped(t, x.v)
          [] x.k = "destruct" -> Destructed(t, x.n)
          [] x.k = "ascribe" -> Ascribed(t, x)

(* bind_refs, from the flattened exports up to the exploration it begins.  *)
bind_refs(top) == Start(IF top.ok THEN fracture_top(top) ELSE BadExpr)
=============================================================================
