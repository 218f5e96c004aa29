------------------------------ MODULE Optimizer ------------------------------
(***************************************************************************)
(* The passes of the compiler over terms (src/optimizer): purity, usage,   *)
(* sweep, inline and common subexpressions, in the order of               *)
(* Term::optimize.  Each takes the root function and returns the root.     *)
(***************************************************************************)
EXTENDS Ssa, Folds

(* The sizes below which the two inline passes copy a function.            *)
CONSTANTS Threshold1, Threshold2

----------------------------------------------------------------------------
(***************************************************************************)
(* purity.cpp.  Bit 0 of a term's meta says that evaluating the term has   *)
(* no effect, bit n that applying its value to n arguments has none.  A    *)
(* word of Width bits is the set of its bits that are 1.                   *)
(***************************************************************************)
Width == 64
AllBits == 0..(Width - 1)
ShiftRight(x) == {b - 1 : b \in x \ {0}}
ShiftLeft(x, n) == {b + n : b \in x} \intersect AllBits
filter_lowest(x) == x \union (AllBits \ {0})

RECURSIVE purity(_, _, _)

AppPurityOnce(fn, n) == ShiftRight(fn \union {0})

(* p is the flag looked for and whether this is the first round.           *)
AppPurity(fn, n) ==
    Fold(LAMBDA acc, i : ShiftRight(acc) \intersect filter_lowest(acc),
             fn \union {0}, [i \in 1..n |-> i])

PrimPurity(term, metas, flag) ==
    IF "F" \in PrimFlags(term.x) THEN ShiftRight(metas[term.args[2] + 1])
    ELSE IF flag \in PrimFlags(term.x) THEN {} ELSE {0}

DesPurity(term, metas) ==
    ShiftRight(Fold(LAMBDA acc, h : acc \intersect metas[h + 1], AllBits, Front(term.args)))

FunPurity(fun, metas, p) ==
    LET save == IF p.first THEN AllBits ELSE fun.meta
        body == Fold(LAMBDA acc, t :
                    LET r == purity(t, acc.metas, p)
                    IN  [terms |-> Append(acc.terms, r.term),
                         metas |-> Append(acc.metas, r.term.meta),
                         fixed |-> acc.fixed /\ r.fixed],
                    [terms |-> <<>>, metas |-> Append(metas, save), fixed |-> TRUE], fun.terms)
        n == Arity(fun)
        quiet == \A i \in DOMAIN body.terms : 0 \in body.terms[i].meta
        acc == filter_lowest(IF quiet THEN {0} ELSE {}) \intersect body.metas[fun.output + 1]
        meta == ShiftLeft(acc, n) \union 0..(n - 1)
    IN  [term |-> [fun EXCEPT !.terms = body.terms, !.meta = meta],
         fixed |-> body.fixed /\ meta = save]

purity(term, metas, p) ==
    LET Quiet == [term |-> [term EXCEPT !.meta = {0}], fixed |-> TRUE]
        Judged(meta) == [term |-> SetFlag([term EXCEPT !.meta = meta], p.flag, 0 \notin meta),
                         fixed |-> TRUE]
    IN  CASE term.op = "arg" -> [Quiet EXCEPT !.term = SetFlag(@, p.flag, TRUE)]
          [] term.op \in {"lit", "get", "con"} -> Quiet
          [] term.op = "app" -> Judged(AppPurity(metas[term.args[1] + 1], Len(term.args) - 1))
          [] term.op = "prim" -> Judged(PrimPurity(term, metas, p.flag))
          [] term.op = "des" -> Judged(DesPurity(term, metas))
          [] term.op = "fun" -> FunPurity(term, metas, p)

(* Repeat until no function's meta changes.                                *)
pass_purity(root, flag) ==
    LET RECURSIVE Round(_, _)
        Round(term, first) ==
            LET r == purity(term, <<>>, [flag |-> flag, first |-> first])
            IN  IF r.fixed THEN r.term ELSE Round(r.term, FALSE)
    IN  Round(root, TRUE)

----------------------------------------------------------------------------
(***************************************************************************)
(* usage.cpp counts the uses of every term, from the last to the first:    *)
(* uses[i + 1] is the count of the term at index i.                        *)
(***************************************************************************)
CountUses(uses, args) == Fold(LAMBDA u, i : [u EXCEPT ![i + 1] = @ + 1], uses, args)

IsUsed(term, uses) == uses > 0 \/ "E" \in term.flags

RECURSIVE usage(_, _, _)
usage(fun, index, uses) ==
    LET n == Len(fun.terms)
        Step(acc, k) ==
            LET i == n + 1 - k
                id == index + i
                t == fun.terms[i]
                used == IsUsed(t, acc.uses[id + 1])
                marked == SetFlag(SetFlag(t, "USED", used), "SINGLETON", acc.uses[id + 1] = 1)
                r == CASE ~used -> [term |-> marked, uses |-> acc.uses]
                       [] used /\ t.op = "fun" -> usage(marked, id, acc.uses)
                       [] OTHER -> [term |-> marked, uses |-> CountUses(acc.uses, t.args)]
            IN  [terms |-> <<r.term>> \o acc.terms, uses |-> SubSeq(r.uses, 1, id)]
        r == Fold(Step, [terms |-> <<>>,
                             uses |-> CountUses(uses \o [i \in 1..n |-> 0], <<fun.output>>)],
                      [k \in 1..n |-> k])
    IN  [term |-> [fun EXCEPT !.terms = r.terms], uses |-> r.uses]

pass_usage(root) ==
    SetFlag(SetFlag(usage(root, 0, <<0>>).term, "USED", TRUE), "SINGLETON", TRUE)

----------------------------------------------------------------------------
(* sweep.cpp drops the terms that are not used.                            *)
RECURSIVE sweep(_, _)
sweep(s, term) ==
    LET cp == Transfer(s, term)
        Keep(q, t) == IF "USED" \in t.flags THEN sweep(q, t) ELSE Place(q, Invalid)
        body == Fold(Keep, cp, term.terms)
    IN  IF term.op # "fun"
        THEN Put(cp, End(s), Update(cp, term))
        ELSE Put(Unwind(body, cp), End(s), [Update(body, term) EXCEPT !.terms = Popped(body, cp)])

pass_sweep(root) == sweep(TermStream(<<>>, 0), root).scope[1]

----------------------------------------------------------------------------
(***************************************************************************)
(* cse.cpp.  c holds the stream, the table of the terms in scope by hash,  *)
(* the starts of the enclosing functions and the hashes that the innermost *)
(* one added.  A hash stands for what is hashed: a constructor counts by   *)
(* its name alone.                                                         *)
(***************************************************************************)
hash_arg(c, i) ==
    LET depth == CHOOSE d \in DOMAIN c.starts :
                     /\ c.starts[d] <= i
                     /\ \A e \in DOMAIN c.starts : e > d => i < c.starts[e]
    IN  <<depth - 1, i - c.starts[depth]>>

hash_redux(c, term) ==
    <<term.op, Len(term.args), IF term.op = "con" THEN term.x.name ELSE term.x>>
        \o [k \in DOMAIN term.args |-> hash_arg(c, term.args[k])]

cse_reduce(c, hash, term) ==
    LET known == hash \in DOMAIN c.table
    IN  IF known /\ "O" \notin term.flags
        THEN [c EXCEPT !.s = Discard(@, c.table[hash], FALSE)]
        ELSE [c EXCEPT !.s = Transfer(@, term),
                       !.undo = Append(@, hash),
                       !.table = @ @@ (hash :> End(c.s))]

RECURSIVE cse(_, _)

cse_fun(c, fun) ==
    LET enter == [c EXCEPT !.s = Transfer(@, fun), !.starts = Append(@, End(c.s)), !.undo = <<>>]
        body == Fold(cse, enter, fun.terms)
        me == [Update(body.s, fun) EXCEPT !.terms = Popped(body.s, enter.s)]
        codes == <<"fun", Len(body.starts), Arity(fun), Len(me.terms), hash_arg(body, me.output)>>
                     \o body.undo
        kept == DOMAIN body.table \ Range(body.undo)
    IN  cse_reduce([body EXCEPT !.s = Unwind(@, c.s), !.starts = c.starts, !.undo = c.undo,
                                !.table = [h \in kept |-> body.table[h]]],
                   codes, me)

cse(c, term) ==
    LET updated == Update(c.s, term)
    IN  CASE term.op = "arg" -> [c EXCEPT !.s = Transfer(@, term)]
          [] term.op = "lit" -> cse_reduce(c, <<"lit", term.x>>, term)
          [] term.op = "fun" -> cse_fun(c, term)
          [] OTHER -> cse_reduce(c, hash_redux(c, updated), updated)

pass_cse(root) ==
    cse([s |-> TermStream(<<>>, 0), table |-> <<>>, starts |-> <<>>, undo |-> <<>>], root).s.scope[1]
----------------------------------------------------------------------------
(***************************************************************************)
(* inline.cpp.  p holds the stream and the pool of constants.  meta is the *)
(* size of a term and the number of arguments its value still takes.       *)
(***************************************************************************)
Meta(size, args) == [size |-> size, args |-> args]
Pass(p, term) == [p EXCEPT !.s = Transfer(@, term)]
Leaf(term) == [term EXCEPT !.meta = Meta(1, 0)]

RECURSIVE inline(_, _)

(* A literal is shared with an equal one that is in scope.                 *)
InlineLit(p, term) ==
    LET value == term.x
        prior == p.pool[value]
        inScope == /\ value \in DOMAIN p.pool
                   /\ prior < End(p.s)
                   /\ At(p.s, prior).op = "lit"
                   /\ At(p.s, prior).x = value
    IN  IF inScope
        THEN [p EXCEPT !.s = Discard(@, prior, FALSE)]
        ELSE Pass([p EXCEPT !.pool = (value :> End(p.s)) @@ @], Leaf(term))

(* The function that a chain of applications ends in, all its arguments    *)
(* (the last first) and whether the chain is its only use.                 *)
RECURSIVE Chain(_, _, _, _)
Chain(s, app, fargs, singleton) ==
    LET own == Reverse(Tail(app.args))
        s1 == IF singleton THEN s ELSE Fold(Shared, s, own)
        fn == At(s1, app.args[1])
        only == singleton /\ "SINGLETON" \in fn.flags
    IN  IF fn.op = "app"
        THEN Chain(s1, fn, fargs \o own, only)
        ELSE [s |-> s1, fargs |-> fargs \o own, fnid |-> app.args[1],
              singleton |-> only \/ fn.label = "_ guard"]

(* All the references a term holds.                                        *)
RECURSIVE Refs(_)
Refs(term) == IF term.op = "fun"
              THEN {term.output} \union UNION {Refs(term.terms[i]) : i \in DOMAIN term.terms}
              ELSE Range(term.args)

(* RFun::clone: what a copied body refers to is no longer used once.       *)
Cloned(s, fnid) ==
    FoldSet(LAMBDA i, q : Shared(q, i), s, {i \in Refs(At(s, fnid)) : i >= 0 /\ i < fnid})

MayInline(fun, singleton, threshold) ==
    "RECURSIVE" \notin fun.flags /\ (singleton \/ fun.meta.size < threshold)

(* Write the body of the function in place of the application.             *)
InlineBody(p, self, c) ==
    LET fun == At(c.s, c.fnid)
        n == Len(c.fargs)
        s0 == IF c.singleton THEN c.s
              ELSE Put(Cloned(c.s, c.fnid), c.fnid, SetFlag(fun, "RECURSIVE", TRUE))
        named == Place([s0 EXCEPT !.start = c.fnid, !.map = <<>>], Invalid)
        bound == Fold(LAMBDA s, i : Discard(s, c.fargs[n + 1 - i],
                                                "SINGLETON" \in fun.terms[i].flags),
                          named, [i \in 1..n |-> i])
        body == Fold(inline, [p EXCEPT !.s = bound], SubSeq(fun.terms, n + 1, Len(fun.terms)))
        output == New(body.s, fun.output)
        left == IF c.singleton
                THEN [fun EXCEPT !.output = 0, !.terms = SubSeq(@, 1, n), !.meta = Meta(0, n),
                                 !.flags = @ \union {"MOVED"}]
                ELSE SetFlag(At(body.s, c.fnid), "RECURSIVE", FALSE)
        kept == IF self.label = "" THEN body.s
                ELSE Put(body.s, output, [At(body.s, output) EXCEPT !.label = self.label])
        resumed == [kept EXCEPT !.start = p.s.start, !.map = p.s.map]
    IN  [body EXCEPT !.s = Put(Discard(resumed, output, "SINGLETON" \in self.flags), c.fnid, left)]

rapp_inline(p, self) ==
    LET fnargs == At(p.s, self.args[1]).meta.args
        c == Chain(p.s, self, <<>>, TRUE)
        whole == [self EXCEPT !.args = <<c.fnid>> \o Reverse(c.fargs)]
        s1 == IF c.singleton THEN c.s ELSE Shared(c.s, c.fnid)
    IN  IF fnargs # Len(self.args) - 1
        THEN Pass(p, [self EXCEPT !.meta = Meta(1, IF fnargs = 0 THEN 0
                                                    ELSE fnargs + 1 - Len(self.args))])
        ELSE IF MayInline(At(c.s, c.fnid), c.singleton, p.threshold)
        THEN InlineBody(p, self, c)
        ELSE Pass([p EXCEPT !.s = s1], Leaf(whole))

InlineGet(p, term) ==
    LET con == At(p.s, term.args[1])
    IN  IF con.op = "con"
        THEN [p EXCEPT !.s = Discard(@, con.args[term.x + 1], FALSE)]
        ELSE Pass(p, Leaf(term))

(* A destruct of a destruct becomes one, whose handlers are compositions.  *)
Compose(p, term) ==
    LET des == At(p.s, Last(term.args))
        shared == Fold(Shared, p.s, Front(term.args) \o Front(des.args))
        Handler(acc, h) ==
            LET fnid == End(acc.p.s)
                f == [RFun({}) EXCEPT
                         !.label = At(acc.p.s, h).label,
                         !.output = fnid + 3,
                         !.terms = <<RArg, RApp(h, fnid + 1),
                                     RDes(Append(Front(term.args), fnid + 2))>>]
                q == inline([acc.p EXCEPT !.s.start = fnid, !.s.map = <<>>], f)
            IN  [p |-> q, fns |-> Append(acc.fns, fnid)]
        r == Fold(Handler, [p |-> [p EXCEPT !.s = shared], fns |-> <<>>], Front(des.args))
    IN  [p |-> [r.p EXCEPT !.s.start = p.s.start, !.s.map = p.s.map],
         args |-> Append(r.fns, Last(des.args))]

InlineDes(p, term) ==
    LET obj == Last(term.args)
        handlers == Front(term.args)
        input == At(p.s, obj)
        same == \A i \in DOMAIN handlers : handlers[i] = handlers[1]
        nested == "O" \notin input.flags /\ {"FRCON", "SINGLETON"} \subseteq input.flags
        r == IF nested THEN Compose(p, term) ELSE [p |-> p, args |-> term.args]
        known == \A h \in Range(Front(r.args)) : "FRCON" \in At(r.p.s, h).flags
        Apply(h) == rapp_inline(p, [RApp(h, obj) EXCEPT !.label = term.label])
    IN  CASE same -> Apply(handlers[1])
          [] ~same /\ input.op = "con" -> Apply(handlers[input.x.index + 1])
          [] OTHER -> Pass(r.p, SetFlag([Leaf(term) EXCEPT !.args = r.args], "FRCON", known))

(* A function that only returns a function takes over its arguments.       *)
RECURSIVE Eat(_, _, _, _)
Eat(p, cp, fun, ate) ==
    LET n == Arity(fun)
        have == Len(p.s.map) - Len(cp.map) - ate
        q == Fold(LAMBDA a, t : Pass(a, Leaf(t)), p, SubSeq(fun.terms, have + 1, n))
        child == fun.terms[n + 1]
        merge == /\ n = Len(fun.terms) - 1
                 /\ fun.output - ate = cp.start + Len(cp.map) + n
                 /\ child.op = "fun"
                 /\ "RECURSIVE" \notin child.flags
    IN  IF merge
        THEN Eat([q EXCEPT !.s = Place(@, Invalid)], cp,
                 [fun EXCEPT !.terms = SubSeq(@, 1, n) \o child.terms, !.output = child.output,
                             !.label = child.label],
                 ate + 1)
        ELSE [p |-> q, fun |-> fun, args |-> n]

InlineFun(p, term) ==
    LET at == End(p.s)
        cp == Transfer(p.s, term)
        e == Eat([p EXCEPT !.s = cp], cp, term, 0)
        start == [e.p EXCEPT !.s = Put(@, at, [e.fun EXCEPT !.meta = Meta(0, e.args)])]
        body == Fold(inline, start, SubSeq(e.fun.terms, e.args + 1, Len(e.fun.terms)))
        me == Update(body.s, [e.fun EXCEPT !.flags = At(body.s, at).flags])
        terms == Popped(body.s, cp)
        size == Fold(LAMBDA n, t : n + t.meta.size, 1, terms)
        done == SetFlag([me EXCEPT !.terms = terms, !.meta = Meta(size, e.args)],
                        "FRCON", "FRCON" \in At(body.s, me.output).flags)
    IN  [body EXCEPT !.s = Put(Unwind(@, cp), at, done)]

inline(p, t) ==
    LET term == Update(p.s, t)
    IN  CASE t.op = "arg" -> Pass(p, Leaf(t))
          [] t.op = "lit" -> InlineLit(p, t)
          [] t.op = "app" -> rapp_inline(p, term)
          [] t.op = "prim" -> Pass(p, Leaf(term))
          [] t.op = "get" -> InlineGet(p, term)
          [] t.op = "des" -> InlineDes(p, term)
          [] t.op = "con" -> Pass(p, SetFlag(Leaf(term), "FRCON", TRUE))
          [] t.op = "fun" -> InlineFun(p, t)

(* The functions of the root are copied, never moved.                      *)
pass_inline(root, threshold) ==
    LET top == [root EXCEPT !.terms = [i \in DOMAIN @ |-> SetFlag(@[i], "SINGLETON", FALSE)]]
    IN  inline([s |-> TermStream(<<>>, 0), pool |-> <<>>, threshold |-> threshold], top).s.scope[1]

----------------------------------------------------------------------------
(* Term::optimize, one pass after the other, and the pass that follows it. *)
optimize == <<"effect", "ordered", "usage", "sweep", "inline",
              "effect", "ordered", "usage", "sweep", "cse", "usage", "inline again",
              "effect", "ordered", "usage", "sweep", "cse">>

RunPass(pass, root) ==
    CASE pass = "effect" -> pass_purity(root, "E")
      [] pass = "ordered" -> pass_purity(root, "O")
      [] pass = "usage" -> pass_usage(root)
      [] pass = "sweep" -> pass_sweep(root)
      [] pass = "inline" -> pass_inline(root, Threshold1)
      [] pass = "inline again" -> pass_inline(root, Threshold2)
      [] pass = "cse" -> pass_cse(root)
=============================================================================
