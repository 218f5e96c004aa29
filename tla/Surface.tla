------------------------------- MODULE Surface -------------------------------
(***************************************************************************)
(* What a program means, read off its source: the reference that the       *)
(* compiler is compared with.  Every definition without arguments is       *)
(* evaluated once, whatever the order they are written in; a function      *)
(* waits for its arguments; the first case that matches is taken; a target *)
(* remembers the result of every key.                                      *)
(*                                                                         *)
(* A name is looked up in the scopes of env, from the inside: variables,   *)
(* or the number of a frame of definitions in st.frames.  Frame 1 has the  *)
(* definitions of the packages under their qualified names, which env.defs *)
(* gives.  Types play no part; what they are to exclude is Wrong.          *)
(***************************************************************************)
EXTENDS Packages

IntVal(n) == [k |-> "int", n |-> n]
Rec(index, kids) == [k |-> "rec", index |-> index, kids |-> kids]
StuckVal == [k |-> "stuck"]
Wrong == [k |-> "wrong"]
Fn(n, code, env) == [k |-> "fn", n |-> n, code |-> code, env |-> env, got |-> <<>>]
Out(val, st) == [val |-> val, st |-> st]
Start == [frames |-> <<>>, log |-> <<>>, table |-> <<>>, targets |-> 0, bad |-> FALSE]
Bad(st) == Out(Wrong, [st EXCEPT !.bad = TRUE])

(* The entries of a frame: what defines a name, and its value if known.    *)
Entry(node, env) == [state |-> "todo", node |-> node, env |-> env, val |-> Wrong]

RECURSIVE VarsOf(_)
VarsOf(p) == (IF p.kind = "lower" THEN {p.name} ELSE {}) \union UNION {VarsOf(p.args[i]) : i \in DOMAIN p.args}

DefEntries(d, env, n, suffix) ==
    LET whole == "whole " \o ToString(n)
    IN  IF d.ast.kind = "upper"
        THEN (whole :> Entry([d EXCEPT !.ast = PVar(whole)], env))
             @@ [v \in VarsOf(d.ast) |-> Entry([k |-> "part", whole |-> whole \o suffix, pattern |-> d.ast, var |-> v], env)]
        ELSE (d.ast.name :> Entry(d, env))

SumEntries(sum, env, tuple) ==
    LET cons == [m \in {sum.members[i].name : i \in DOMAIN sum.members} |->
                    LET i == CHOOSE j \in DOMAIN sum.members : sum.members[j].name = m
                    IN  Entry([k |-> "con", index |-> i, n |-> Len(sum.members[i].args)], env)]
        Access(how, n) == [t \in {how \o sum.name \o sum.tags[i] : i \in DOMAIN sum.tags} |->
                              LET i == CHOOSE j \in DOMAIN sum.tags : how \o sum.name \o sum.tags[j] = t
                              IN  Entry([k |-> how, index |-> i, n |-> n], env)]
    IN  IF tuple THEN cons @@ Access("get", 1) @@ Access("edit", 2) @@ Access("set", 2) ELSE cons

(* The holes of an expression up to the places where they are closed, and  *)
(* the expression with the holes numbered.                                 *)
RECURSIVE Number(_, _)
Number(e, n) ==
    LET More(es, r) == [es |-> Append(es, r.e), n |-> r.n]
        All(list) == Fold(LAMBDA acc, a : More(acc.es, Number(a, acc.n)), [es |-> <<>>, n |-> n], list)
        OfApp(r) == [e |-> [e EXCEPT !.fn = r.es[1], !.val = r.es[2]], n |-> r.n]
        OfBody(r) == [e |-> [e EXCEPT !.body = r.e], n |-> r.n]
        OfMatch(r) == [e |-> [e EXCEPT !.args = r.es], n |-> r.n]
    IN  CASE e.k = "hole" -> [e |-> [k |-> "id", name |-> "_ " \o ToString(n + 1)], n |-> n + 1]
          [] e.k = "app" -> OfApp(All(<<e.fn, e.val>>))
          [] e.k = "ascribe" -> OfBody(Number(e.body, n))
          [] e.k = "match" -> OfMatch(All(e.args))
          [] OTHER -> [e |-> e, n |-> n]

(* The variables a pattern binds, or no match.                             *)
RECURSIVE Matches(_, _, _)
Matches(p, v, env) ==
    LET index == env.cons[IF p.name \in DOMAIN env.defs THEN env.defs[p.name] ELSE p.name].index
        no == [ok |-> FALSE, map |-> <<>>]
        Kids(kids) == IF \E i \in DOMAIN kids : ~kids[i].ok THEN no
                      ELSE [ok |-> TRUE, map |-> Fold(LAMBDA m, i : kids[i].map @@ m, <<>>, [i \in DOMAIN kids |-> i])]
    IN  CASE p.kind = "hole" -> [ok |-> TRUE, map |-> <<>>]
          [] p.kind = "lower" -> [ok |-> TRUE, map |-> (p.name :> v)]
          [] p.kind = "literal" -> [ok |-> v = IntVal(p.value), map |-> <<>>]
          [] OTHER -> IF v.k # "rec" \/ v.index # index - 1 THEN no
                      ELSE Kids([i \in DOMAIN p.args |-> Matches(p.args[i], v.kids[i], env)])

(* Values that patterns take one by one.                                   *)
MatchAll(pats, vals, env) ==
    LET All(ms) == [ok |-> \A i \in DOMAIN ms : ms[i].ok,
                    map |-> Fold(LAMBDA m, i : ms[i].map @@ m, <<>>, [i \in DOMAIN ms |-> i])]
    IN  All([i \in DOMAIN pats |-> Matches(pats[i], vals[i], env)])

Bind(env, map) == [env EXCEPT !.scopes = <<[k |-> "vars", map |-> map]>> \o @]

----------------------------------------------------------------------------
RECURSIVE Eval(_, _, _)
RECURSIVE Give(_, _, _)
RECURSIVE Force(_, _, _)

(* An expression in a place where its holes are closed.                    *)
Closed(e, env, st) ==
    LET pats(n) == [i \in 1..n |-> PVar("_ " \o ToString(i))]
        Over(r) == IF r.n = 0 THEN Eval(e, env, st)
                   ELSE Out(Fn(r.n, [c |-> "open", pats |-> pats(r.n), body |-> r.e], env), st)
    IN  Over(Number(e, 0))

Evals(es, env, st) ==
    LET More(vals, r) == [vals |-> Append(vals, r.val), st |-> r.st]
    IN  Fold(LAMBDA acc, e : More(acc.vals, Eval(e, env, acc.st)), [vals |-> <<>>, st |-> st], es)

Prims(name, a, st) ==
    LET note == [st EXCEPT !.log = Append(@, <<name, a>>)]
        Order(x, y) == IF x < y THEN 0 ELSE IF x = y THEN 1 ELSE 2
    IN  CASE \E i \in DOMAIN a : a[i] = StuckVal -> Out(StuckVal, st)
          [] \E i \in DOMAIN a : a[i].k # "int" -> Bad(st)
          [] name = "add" -> Out(IntVal(a[1].n + a[2].n), st)
          [] name = "sub" -> Out(IntVal(a[1].n - a[2].n), st)
          [] name = "icmp" -> Out(Rec(Order(a[1].n, a[2].n), <<>>), st)
          [] name = "observe" -> Out(a[1], note)
          [] name = "print" -> Out(Rec(0, <<>>), note)
          [] name = "job" -> Out(IntVal(a[1].n + 10), note)

(* The body of a function that has all its arguments.                      *)
Enter(f, st) ==
    LET code == f.code
        inner(map) == [Bind(f.env, map) EXCEPT !.params = IF code.c = "open" THEN @ \o f.got ELSE f.got]
        Within(r) == IF ~r.ok THEN Bad(st)
                     ELSE IF code.c = "open" THEN Eval(code.body, inner(r.map), st) ELSE Closed(code.body, inner(r.map), st)
    IN  Within(MatchAll(code.pats, f.got, f.env))

EnterTarget(f, st) ==
    LET key == <<f.code.id, SubSeq(f.got, 1, f.code.keys)>>
        Known(r) == Out(r.val, [r.st EXCEPT !.table = (key :> r.val) @@ @])
    IN  IF key \in DOMAIN st.table THEN Out(st.table[key], st)
        ELSE Known(Enter(f, [st EXCEPT !.table = (key :> StuckVal) @@ @]))

Access(f, st) ==
    LET i == f.code.index
        r == Last(f.got)
        Edited(new) == Out([r EXCEPT !.kids[i] = new.val], new.st)
    IN  CASE r.k # "rec" -> Bad(st)
          [] r.k = "rec" /\ f.code.c = "get" -> Out(r.kids[i], st)
          [] r.k = "rec" /\ f.code.c = "set" -> Out([r EXCEPT !.kids[i] = f.got[1]], st)
          [] OTHER -> Edited(Give(f.got[1], r.kids[i], st))

Give(fn, v, st) ==
    LET f == [fn EXCEPT !.got = Append(@, v)]
    IN  CASE fn.k = "stuck" -> Out(StuckVal, st)
          [] fn.k \notin {"fn", "stuck"} -> Bad(st)
          [] OTHER -> CASE Len(f.got) < f.n -> Out(f, st)
                        [] Len(f.got) = f.n /\ f.code.c \in {"body", "open"} -> Enter(f, st)
                        [] Len(f.got) = f.n /\ f.code.c = "target" -> EnterTarget(f, st)
                        [] Len(f.got) = f.n /\ f.code.c = "con" -> Out(Rec(f.code.index - 1, f.got), st)
                        [] OTHER -> Access(f, st)

(* The first case that takes the values; a guard may refuse.               *)
RECURSIVE Choose(_, _, _, _)
Choose(cases, vals, env, st) ==
    LET c == Head(cases)
        Decide(inner, guard) == IF guard.val = Rec(0, <<>>) THEN Closed(c.body, inner, guard.st)
                                 ELSE Choose(Tail(cases), vals, env, guard.st)
        Chosen(inner) == Decide(inner, IF c.guard = None THEN Out(Rec(0, <<>>), st) ELSE Closed(c.guard, inner, st))
        Try(r) == IF r.ok THEN Chosen(Bind(env, r.map)) ELSE Choose(Tail(cases), vals, env, st)
    IN  IF cases = <<>> THEN Bad(st) ELSE Try(MatchAll(c.patterns, vals, env))

----------------------------------------------------------------------------
(* A definition gives its value when it is first asked for.                *)
Defined1(id, node, env, st) ==
    LET pats == node.ast.args
        fn == Fn(Len(pats), [c |-> "body", pats |-> pats, body |-> node.body], env)
        target == [c |-> "target", pats |-> pats, body |-> node.body, id |-> st.targets, keys |-> node.tohash]
        Part(part, s) == IF part.ok THEN Out(part.map[node.var], s) ELSE Bad(s)
        Whole(whole) == Part(Matches(node.pattern, whole.val, env), whole.st)
    IN  CASE node.k = "part" -> Whole(Force(id, node.whole, st))
          [] node.k \in {"con", "get", "edit", "set"} ->
                 Out(IF node.n = 0 THEN Rec(node.index - 1, <<>>)
                     ELSE Fn(node.n, [c |-> node.k, index |-> node.index], env), st)
          [] node.k = "target" -> Out(Fn(Len(pats), target, env), [st EXCEPT !.targets = @ + 1])
          [] node.k = "def" -> IF pats = <<>> THEN Closed(node.body, [env EXCEPT !.params = <<>>], st) ELSE Out(fn, st)

Force(id, name, st) ==
    LET e == st.frames[id][name]
        Known(r) == Out(r.val, [r.st EXCEPT !.frames[id][name].state = "done", !.frames[id][name].val = r.val])
    IN  CASE e.state = "done" -> Out(e.val, st)
          [] e.state = "busy" -> Bad(st)
          [] OTHER -> Known(Defined1(id, e.node, e.env, [st EXCEPT !.frames[id][name].state = "busy"]))

ForceAll(id, st) == Fold(LAMBDA s, n : Force(id, n, s).st, st, Listed(DOMAIN st.frames[id]))

RECURSIVE Lookup(_, _, _, _)
Lookup(scopes, name, env, st) ==
    LET s == Head(scopes)
        global == IF name \in DOMAIN env.defs THEN env.defs[name] ELSE name
    IN  CASE scopes = <<>> -> IF global \in DOMAIN st.frames[1] THEN Force(1, global, st) ELSE Bad(st)
          [] scopes # <<>> /\ s.k = "vars" ->
                 IF name \in DOMAIN s.map THEN Out(s.map[name], st) ELSE Lookup(Tail(scopes), name, env, st)
          [] OTHER -> IF name \in DOMAIN st.frames[s.id] THEN Force(s.id, name, st)
                      ELSE Lookup(Tail(scopes), name, env, st)

Block(e, env, st) ==
    LET id == Len(st.frames) + 1
        inner == [env EXCEPT !.scopes = <<[k |-> "frame", id |-> id]>> \o @, !.params = <<>>]
        frame == Fold(LAMBDA f, n : f @@ DefEntries(e.defs[n], inner, n, ""), <<>>, [n \in DOMAIN e.defs |-> n])
        All(r) == Out(r.val, ForceAll(id, r.st))
    IN  All(Closed(e.body, inner, [st EXCEPT !.frames = Append(@, frame)]))

(* A topic is all that is published to it.                                 *)
RECURSIVE Concat(_, _)
Concat(a, b) == IF a.k # "rec" \/ a.index = 0 THEN b ELSE Rec(1, <<a.kids[1], Concat(a.kids[2], b)>>)

Subscribed(topic, env, st) ==
    LET list == SelectSeq(env.pubs, LAMBDA p : p.topic = topic)
        More(val, r) == Out(Concat(r.val, val), r.st)
    IN  Fold(LAMBDA acc, p : More(acc.val, Force(1, p.name, acc.st)), Out(Rec(0, <<>>), st), list)

Eval(e, env, st) ==
    LET Apply(two) == Give(two.vals[1], two.vals[2], two.st)
        TakeCase(args) == IF Contains(args.vals, StuckVal) THEN Out(StuckVal, args.st)
                       ELSE Choose(e.cases, args.vals, env, args.st)
        If(cond) == IF cond.val = StuckVal THEN cond
                    ELSE Closed(IF cond.val = Rec(0, <<>>) THEN e.then ELSE e.else, env, cond.st)
        Require(rhs, taken) ==
            IF taken.ok THEN Closed(e.body, Bind(env, taken.map), rhs.st)
            ELSE IF e.otherwise = None THEN rhs ELSE Closed(e.otherwise, env, rhs.st)
        Given(rhs) == IF rhs.val = StuckVal THEN rhs ELSE Require(rhs, Matches(e.pattern, rhs.val, env))
    IN  CASE e.k = "id" -> Lookup(env.scopes, e.name, env, st)
          [] e.k = "literal" -> Out(IntVal(e.value), st)
          [] e.k = "prim" -> Prims(e.name, env.params, st)
          [] e.k = "subscribe" -> Subscribed(env.topics[e.name], env, st)
          [] e.k = "paren" -> Closed(e.body, env, st)
          [] e.k = "app" -> Apply(Evals(<<e.fn, e.val>>, env, st))
          [] e.k = "ascribe" -> Eval(e.body, env, st)
          [] e.k = "lambda" -> Out(Fn(1, [c |-> "body", pats |-> <<e.pattern>>, body |-> e.body], env), st)
          [] e.k = "block" -> Block(e, env, st)
          [] e.k = "match" -> TakeCase(Evals(e.args, env, st))
          [] e.k = "if" -> If(Closed(e.cond, env, st))
          [] e.k = "require" -> Given(Closed(e.rhs, env, st))

----------------------------------------------------------------------------
(* A program: its files, the package of the command line and its body.     *)
Meaning(prog, top, cons) ==
    LET Map(syms, k) == [n \in DOMAIN syms[k] |-> Qualified(syms[k][n])]
        PubName(i, j) == "publish " \o ToString(i) \o " " \o ToString(j)
        Base(syms, pubs) == [scopes |-> <<>>, params |-> <<>>, defs |-> Map(syms, "defs"),
                             topics |-> Map(syms, "topics"), cons |-> cons, pubs |-> pubs]
        Pubs(i) == LET f == top.files[i]
                   IN  Reverse([j \in DOMAIN f.pubs |->
                                   [topic |-> Base(FileSymbols(top, f), <<>>).topics[f.pubs[j].ast.name],
                                    name |-> PubName(i, j)]])
        In(syms) == Base(syms, Joined([i \in DOMAIN top.files |-> Pubs(i)]))
        ItemEntries(it, n, env, pkg) == CASE it.k \in {"def", "target"} -> DefEntries(it, env, n, "@" \o pkg)
                                     [] it.k \in {"data", "tuple"} -> SumEntries(it.sum, env, it.k = "tuple")
                                     [] OTHER -> <<>>
        Entries(i, env) ==
            LET file == prog.files[i]
                all == Fold(LAMBDA m, n : m @@ ItemEntries(file.items[n], n, env, file.package), <<>>, [n \in DOMAIN file.items |-> n])
                own == [q \in {n \o "@" \o file.package : n \in DOMAIN all} |->
                           all[CHOOSE n \in DOMAIN all : n \o "@" \o file.package = q]]
                pub == top.files[i].pubs
            IN  own @@ [p \in {PubName(i, j) : j \in DOMAIN pub} |->
                           Entry([k |-> "def", ast |-> PVar("_"),
                                  body |-> pub[CHOOSE j \in DOMAIN pub : PubName(i, j) = p].body], env)]
        frame == Fold(LAMBDA m, i : m @@ Entries(i, In(FileSymbols(top, top.files[i]))), <<>>, [i \in DOMAIN prog.files |-> i])
        All(r) == Out(r.val, ForceAll(1, r.st))
    IN  All(Closed(prog.body, In(BodySymbols(top)), [Start EXCEPT !.frames = <<frame>>]))

Meant(prog, top) == Meaning(prog, top, Constructors(top))
=============================================================================
