------------------------------ MODULE MCLanguage ------------------------------
(* The programs that the language is checked on.                           *)
EXTENDS Language

(* Source text, in short.                                                  *)
Id(name) == [k |-> "id", name |-> name]
Lit(n) == [k |-> "literal", value |-> n]
Blank == [k |-> "hole"]
Prim(name) == [k |-> "prim", name |-> name]
Paren(e) == [k |-> "paren", body |-> e]
Ap(fn, vals) == FoldLeft(LAMBDA f, v : [k |-> "app", fn |-> f, val |-> v], fn, vals)
Call(name, vals) == Ap(Id(name), vals)
Fun(pattern, body) == [k |-> "lambda", pattern |-> pattern, body |-> body]
Let(defs, body) == [k |-> "block", defs |-> defs, body |-> body]
Has(type, e) == [k |-> "ascribe", sig |-> type, body |-> e]
Of(patterns, body) == [patterns |-> patterns, guard |-> Frontend!None, body |-> body]
When(patterns, guard, body) == [patterns |-> patterns, guard |-> guard, body |-> body]
MatchOn(args, cases) == [k |-> "match", args |-> args, cases |-> cases]
Require(p, rhs, else, body) == [k |-> "require", pattern |-> p, rhs |-> rhs, otherwise |-> else, body |-> body]
If(c, t, e) == [k |-> "if", cond |-> c, then |-> t, else |-> e]

PV(name) == Frontend!PVar(name)
PC(name, args) == Frontend!PCons(name, args)
P_ == Frontend!PHole
PLit(n) == [Frontend!AST("literal", "", <<>>) EXCEPT !.value = n]
Ty(p, type) == [p EXCEPT !.sig = type]
Vars(names) == [i \in DOMAIN names |-> PV(names[i])]

T(name, args) == [name |-> name, args |-> args, lower |-> FALSE]
TV(name) == [name |-> name, args |-> <<>>, lower |-> TRUE]
IntT == T("Integer", <<>>)
Arrow(a, b) == T("binary =>", <<a, b>>)

DefP(name, pats, body) == [k |-> "def", ast |-> [PV(name) EXCEPT !.args = pats], body |-> body, tohash |-> 0, flags |-> {}]
D(name, args, body) == DefP(name, Vars(args), body)
DefC(pattern, body) == [k |-> "def", ast |-> pattern, body |-> body, tohash |-> 0, flags |-> {}]
Tgt(name, args, keys, body) == [D(name, args, body) EXCEPT !.k = "target", !.tohash = keys]
Exp(item) == [item EXCEPT !.flags = {"export"}]

Member(name, args) == [name |-> name, args |-> args]
Data(name, params, members) ==
    [k |-> "data", flags |-> {"export"}, member_flags |-> <<>>,
     sum |-> [name |-> name, args |-> params, members |-> members, tags |-> <<>>, scoped |-> FALSE]]
Tuple(name, params, types, tags) ==
    [k |-> "tuple", flags |-> {"export"}, member_flags |-> [i \in DOMAIN tags |-> {"export"}],
     sum |-> [name |-> name, args |-> params, members |-> <<Member(name, types)>>, tags |-> tags, scoped |-> FALSE]]

File(package, items) ==
    [package |-> package, imports |-> <<>>, import_all |-> <<>>, exports |-> <<>>, items |-> items]
Program(files, body) == [files |-> files, def_package |-> "main", body |-> body]

(* The parts of the wake package that the compiler itself refers to.       *)
Boolean == Data("Boolean", <<>>, <<Member("True", <<>>), Member("False", <<>>)>>)
Order1 == Data("Order", <<>>, <<Member("LT", <<>>), Member("EQ", <<>>), Member("GT", <<>>)>>)
Unit == Data("Unit", <<>>, <<Member("Unit", <<>>)>>)
Pair == Tuple("Pair", <<"a", "b">>, <<TV("a"), TV("b")>>, <<"First", "Second">>)
Add == Exp(D("add", <<"x", "y">>, Prim("add")))
Sub1 == Exp(D("sub", <<"x", "y">>, Prim("sub")))
PrintD == Exp(D("print", <<"x">>, Prim("print")))
JobD == Exp(D("job", <<"x">>, Prim("job")))

ListT(a) == T("List", <<a>>)
List == Data("List", <<"a">>, <<Member("Nil", <<>>), Member("binary ,", <<TV("a"), ListT(TV("a"))>>)>>)
Cell(a, b) == Paren(Call("binary ,", <<a, b>>))
Cat == Exp(D("binary ++", <<"x", "y">>, MatchOn(<<Id("x")>>,
    <<Of(<<PC("Nil", <<>>)>>, Id("y")),
      Of(<<PC("binary ,", <<PV("h"), PV("t")>>)>>, Call("binary ,", <<Id("h"), Paren(Call("binary ++", <<Id("t"), Id("y")>>))>>))>>)))
Topic(name, type) == [k |-> "topic", name |-> name, sig |-> type, flags |-> {"export"}]
Publish(topic, body) == [k |-> "publish", ast |-> PV(topic), body |-> body, flags |-> {}]
Subscribe(name) == [k |-> "subscribe", name |-> name]
Import(kind, name, def, pkg) == [kind |-> kind, name |-> name, def |-> def, pkg |-> pkg]

Main(lib, items, body) == Program(<<File("wake", <<Boolean>> \o lib), File("main", items)>>, body)

Option == Data("Option", <<"a">>, <<Member("None", <<>>), Member("Some", <<TV("a")>>)>>)
Nat1 == Data("Nat", <<>>, <<Member("Zero", <<>>), Member("Succ", <<T("Nat", <<>>)>>)>>)
Zero == Id("Zero")
Succ(e) == Paren(Call("Succ", <<e>>))
Print1(n) == Call("print", <<Lit(n)>>)
OnNat(x, zero, y, succ) == MatchOn(<<Id(x)>>, <<Of(<<PC("Zero", <<>>)>>, zero), Of(<<PC("Succ", <<PV(y)>>)>>, succ)>>)

MCPrograms ==
    [sum |-> Main(<<Add>>, <<>>, Call("add", <<Lit(1), Lit(2)>>)),
     (* Some, or another case: a match with a default. *)
     match |-> Main(<<Add, Unit>>,
         <<Option, D("get", <<"x">>, MatchOn(<<Id("x")>>, <<Of(<<PC("Some", <<PV("y")>>)>>, Id("y")), Of(<<P_>>, Lit(0))>>))>>,
         Call("add", <<Paren(Call("get", <<Id("None")>>)), Paren(Call("get", <<Paren(Call("Some", <<Lit(3)>>))>>))>>)),
     (* Two equal prints whose results are not used. *)
     prints |-> Main(<<PrintD, Unit>>, <<>>,
         Let(<<D("x", <<>>, Print1(1)), D("y", <<>>, Print1(1))>>, Lit(7))),
     (* A function with an effect, given one argument at a time. *)
     partial |-> Main(<<Add, PrintD, Unit>>, <<D("f", <<"x", "y">>, Let(<<D("z", <<>>, Call("print", <<Id("x")>>))>>, Call("add", <<Id("x"), Id("y")>>)))>>,
         Let(<<D("g", <<>>, Call("f", <<Lit(1)>>))>>, Call("add", <<Paren(Call("g", <<Lit(2)>>)), Paren(Call("g", <<Lit(3)>>))>>))),
     (* Recursion. *)
     count |-> Main(<<Add, Unit>>, <<Nat1, D("count", <<"n">>, OnNat("n", Lit(0), "m", Call("add", <<Lit(1), Paren(Call("count", <<Id("m")>>))>>)))>>,
         Call("count", <<Succ(Succ(Zero))>>)),
     (* Mutual recursion. *)
     even |-> Main(<<Unit>>, <<Nat1,
             D("even", <<"n">>, OnNat("n", Lit(1), "m", Call("odd", <<Id("m")>>))),
             D("odd", <<"n">>, OnNat("n", Lit(0), "m", Call("even", <<Id("m")>>)))>>,
         Call("even", <<Succ(Succ(Zero))>>)),
     (* A target runs once for a key. *)
     target |-> Main(<<Add, PrintD, Unit>>,
         <<Tgt("t", <<"x", "y">>, 1, Let(<<D("z", <<>>, Call("print", <<Id("x")>>))>>, Call("add", <<Id("x"), Id("y")>>)))>>,
         Call("add", <<Paren(Call("t", <<Lit(1), Lit(2)>>)), Paren(Call("t", <<Lit(1), Lit(2)>>))>>)),
     (* A target that needs itself. *)
     loop |-> Main(<<Add, Unit>>, <<Tgt("t", <<"x">>, 1, Call("add", <<Paren(Call("t", <<Id("x")>>)), Lit(1)>>))>>,
         Call("t", <<Lit(1)>>)),
     (* Two jobs. *)
     jobs |-> Main(<<Add, JobD>>, <<>>, Call("add", <<Paren(Call("job", <<Lit(1)>>)), Paren(Call("job", <<Lit(2)>>))>>)),
     (* Holes. *)
     holes |-> Main(<<Add>>, <<D("f", <<>>, Call("add", <<Blank, Lit(1)>>))>>, Call("f", <<Lit(2)>>)),
     (* Literal patterns. *)
     literal |-> Main(<<Order1, Unit, Pair>>, <<D("f", <<"x">>, MatchOn(<<Id("x")>>, <<Of(<<PLit(1)>>, Lit(5)), Of(<<P_>>, Lit(6))>>))>>,
         Call("f", <<Lit(1)>>)),
     if |-> Main(<<Order1, Unit>>, <<>>, If(Id("False"), Lit(1), Lit(2))),
     (* Not well typed. *)
     applied |-> Main(<<Add>>, <<>>, Call("add", <<Id("True"), Lit(1)>>)),
     (* Not every case is there. *)
     missing |-> Main(<<Unit>>, <<Option, D("get", <<"x">>, MatchOn(<<Id("x")>>, <<Of(<<PC("Some", <<PV("y")>>)>>, Id("y"))>>))>>, Lit(1)),
     (* A variable of a function is not generalized inside of it. *)
     captured |-> Main(<<Add>>, <<D("f", <<"x">>, Let(<<D("g", <<"u">>, Id("x"))>>, Call("add", <<Paren(Ap(Paren(Call("g", <<Lit(0)>>)), <<Lit(1)>>)), Paren(Call("add", <<Paren(Call("g", <<Lit(0)>>)), Lit(1)>>))>>)))>>,
         Call("f", <<Lit(1)>>)),
     (* A recursive function of two arguments, called for its effect alone. *)
     tell |-> Main(<<PrintD, Unit>>, <<Nat1, D("tell", <<"n", "x">>, OnNat("n", Call("print", <<Id("x")>>), "m", Call("tell", <<Id("m"), Id("x")>>)))>>,
         Let(<<D("z", <<>>, Call("tell", <<Succ(Zero), Lit(1)>>))>>, Lit(7))),
     (* A result that two others wait for. *)
     shared |-> Main(<<Add, JobD>>, <<>>,
         Let(<<D("x", <<>>, Call("job", <<Lit(1)>>)), D("y", <<>>, Call("add", <<Id("x"), Lit(1)>>)), D("z", <<>>, Call("add", <<Id("x"), Lit(2)>>))>>,
             Call("add", <<Id("y"), Id("z")>>))),
     (* The type of x grows inside of g; what it grew is not general. *)
     grown |-> Main(<<Unit>>, <<Option, D("f", <<"x">>,
             Let(<<D("g", <<"u">>, MatchOn(<<Id("x")>>, <<Of(<<PC("Some", <<PV("y")>>)>>, Id("y")), Of(<<PC("None", <<>>)>>, Id("u"))>>))>>,
                 MatchOn(<<Call("g", <<Id("True")>>)>>, <<Of(<<PC("True", <<>>)>>, Call("g", <<Lit(1)>>)), Of(<<PC("False", <<>>)>>, Lit(2))>>)))>>,
         Call("f", <<Paren(Call("Some", <<Lit(3)>>))>>)),
     (* Two arguments, and patterns below patterns. *)
     both |-> Main(<<Add, Unit>>, <<Option, D("f", <<"x", "y">>,
             MatchOn(<<Id("x"), Id("y")>>, <<Of(<<PC("Some", <<PV("a")>>), PC("Some", <<PV("b")>>)>>, Call("add", <<Id("a"), Id("b")>>)),
                                             Of(<<PC("None", <<>>), P_>>, Lit(1)), Of(<<P_, P_>>, Lit(2))>>))>>,
         Call("f", <<Paren(Call("Some", <<Lit(3)>>)), Id("None")>>)),
     (* The last case is never reached. *)
     unreachable |-> Main(<<Unit>>, <<Option, D("f", <<"x">>,
             MatchOn(<<Id("x")>>, <<Of(<<PC("Some", <<P_>>)>>, Lit(1)), Of(<<PC("None", <<>>)>>, Lit(2)), Of(<<P_>>, Lit(3))>>))>>, Call("f", <<Id("None")>>)),
     (* A guard that refuses. *)
     guard |-> Main(<<Unit, Pair>>, <<>>,
         MatchOn(<<Id("True")>>, <<When(<<PC("True", <<>>)>>, Id("False"), Lit(1)), Of(<<P_>>, Lit(2))>>)),
     (* require, with and without else. *)
     require |-> Main(<<Unit>>, <<Option>>,
         Require(PC("Some", <<PV("x")>>), Call("Some", <<Lit(4)>>), Lit(9), Require(PC("None", <<>>), Call("Some", <<Lit(5)>>), Lit(8), Id("x")))),
     identity |-> Main(<<Unit>>, <<Option, D("f", <<"o">>, Require(PC("Some", <<PV("x")>>), Id("o"), Frontend!None, Call("Some", <<Lit(5)>>)))>>,
         Call("f", <<Id("None")>>)),
     (* The members of a tuple. *)
     tuple |-> Main(<<Add, Unit, Pair>>, <<>>,
         Let(<<D("p", <<>>, Call("setPairSecond", <<Lit(5), Paren(Call("editPairFirst", <<Paren(Call("add", <<Blank, Lit(1)>>)), Paren(Call("Pair", <<Lit(1), Lit(2)>>))>>))>>))>>,
             Call("add", <<Paren(Call("getPairFirst", <<Id("p")>>)), Paren(Call("getPairSecond", <<Id("p")>>))>>))),
     (* A definition by a pattern. *)
     parts |-> Main(<<Add, Unit, Pair>>, <<>>,
         Let(<<DefC(PC("Pair", <<PV("a"), PV("b")>>), Call("Pair", <<Lit(1), Lit(2)>>))>>, Call("add", <<Id("a"), Id("b")>>))),
     (* What is published is in the order of the files. *)
     topic |-> Main(<<Unit, List, Cat, Topic("nums", IntT)>>, <<Publish("nums", Cell(Lit(1), Id("Nil"))), Publish("nums", Cell(Lit(2), Id("Nil")))>>,
         Subscribe("nums")),
     (* A name imported under another name, from a package that re-exports it. *)
     import |-> Program(<<File("wake", <<Boolean, Unit, Add>>), File("low", <<Exp(D("one", <<>>, Lit(1)))>>),
             [File("mid", <<Exp(D("two", <<>>, Lit(2)))>>) EXCEPT !.exports = <<Import("defs", "uno", "one", "low")>>],
             [File("main", <<D("one", <<>>, Lit(5)), D("f", <<>>, Call("add", <<Id("first"), Paren(Call("add", <<Id("one"), Id("two")>>))>>))>>)
                 EXCEPT !.imports = <<Import("mixed", "first", "uno", "mid")>>, !.import_all = <<"wake", "mid", "low">>]>>,
         Id("f")),
     (* Two packages that re-export each other's name. *)
     circular |-> Program(<<File("wake", <<Boolean>>), [File("a", <<>>) EXCEPT !.exports = <<Import("defs", "x", "x", "b")>>],
             [File("main", <<>>) EXCEPT !.package = "b", !.exports = <<Import("defs", "x", "x", "a")>>]>>, Lit(1)),
     (* Types that are written down. *)
     typed |-> Main(<<Add, Unit>>, <<Option, D("f", <<"x">>, MatchOn(<<Id("x")>>, <<Of(<<PC("Some", <<Ty(PV("n"), IntT)>>)>>, Has(IntT, Id("n"))), Of(<<P_>>, Lit(3))>>))>>,
         Call("f", <<Paren(Call("Some", <<Lit(2)>>))>>)),
     wrong |-> Main(<<Unit>>, <<D("f", <<"x">>, Has(Arrow(TV("a"), TV("b")), Fun(PV("y"), Lit(1))))>>, Ap(Paren(Call("f", <<Lit(2)>>)), <<Lit(1)>>)),
     (* Guards that look the same, twice. *)
     guards |-> Main(<<Add, Unit, Pair, Order1>>, <<Nat1, D("f", <<"x", "y">>,
             MatchOn(<<Id("x")>>, <<When(<<PC("Zero", <<>>)>>, Id("y"), Lit(1)), When(<<PC("Zero", <<>>)>>, Id("y"), Lit(2)), Of(<<PC("Zero", <<>>)>>, Lit(3)), Of(<<PC("Succ", <<PV("z")>>)>>, Call("f", <<Id("z"), Id("y")>>))>>))>>,
         Call("f", <<Succ(Zero), Id("False")>>)),
     (* A match whose cases are functions. *)
     choice |-> Main(<<Add, Unit, Order1, JobD, Exp(D("icmp", <<"x", "y">>, Prim("icmp")))>>, <<D("f", <<"o">>, MatchOn(<<Id("o")>>, <<Of(<<PC("LT", <<>>)>>, Fun(PV("y"), Id("y"))), Of(<<PC("EQ", <<>>)>>, Fun(PV("y"), Id("y"))), Of(<<PC("GT", <<>>)>>, Fun(PV("y"), Call("add", <<Id("y"), Lit(1)>>)))>>))>>,
         Call("f", <<Paren(Call("icmp", <<Paren(Call("job", <<Lit(1)>>)), Lit(2)>>)), Lit(1)>>))]

(* Constructors of the same name in two packages, at different places.     *)
Merged ==
    [merged |-> Program(<<File("wake", <<Boolean, Unit, Add, PrintD>>),
         File("p", <<Data("T", <<>>, <<Member("A", <<>>), Member("B", <<>>)>>), Exp(D("pa", <<>>, Id("A"))),
                     Exp(D("fp", <<"x">>, MatchOn(<<Id("x")>>, <<Of(<<PC("A", <<>>)>>, Lit(1)), Of(<<PC("B", <<>>)>>, Call("fp", <<Id("A")>>))>>)))>>),
         File("q", <<Data("U", <<>>, <<Member("B", <<>>), Member("A", <<>>)>>), Exp(D("qa", <<>>, Id("A"))),
                     Exp(D("fq", <<"x">>, MatchOn(<<Id("x")>>, <<Of(<<PC("B", <<>>)>>, Lit(10)), Of(<<PC("A", <<>>)>>, Call("add", <<Lit(1), Paren(Call("fq", <<Id("B")>>))>>))>>)))>>),
         [File("main", <<>>) EXCEPT !.import_all = <<"wake", "p", "q">>]>>,
         Call("print", <<Paren(Call("add", <<Paren(Call("fp", <<Id("pa")>>)), Paren(Call("fq", <<Id("qa")>>))>>))>>))]

=============================================================================
