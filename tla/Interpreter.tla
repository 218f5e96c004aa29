----------------------------- MODULE Interpreter -----------------------------
(***************************************************************************)
(* The interpreter of scoped terms (src/runtime: runtime.cpp, tuple.h,     *)
(* target.cpp, prim.cpp) and its copying heap (gc.h, gc.cpp).              *)
(*                                                                         *)
(* A machine m holds the heap, a sequence of objects whose indices are     *)
(* their addresses (0 is null), and the members of Runtime and Heap:       *)
(*   used, end, last   the pads in use, the end of the space in use, and   *)
(*                     the pads that the last collection kept              *)
(*   stack, output     the head of the list of work and the result         *)
(*   lits              the address of every literal (an RLit is a root)    *)
(*   jobs              the continuations of the jobs still running         *)
(*   need              the pads of a reserve that failed, or 0             *)
(*   owed              the pads that a collection was run for, until the   *)
(*                     work that lacked them is tried again                *)
(*   resume            whether the running Interpret goes on by itself     *)
(*   log, reported     the primitives called that are not pure, and        *)
(*                     whether a target reported an infinite recursion     *)
(*                                                                         *)
(* A slot of a tuple or of a target's table is a Promise: null, a value,   *)
(* or the head of the list of the continuations that wait for it.          *)
(***************************************************************************)
EXTENDS Ssa, Folds

(* heap_factor is FactorTenths / 10; heap_pivot is in pads.                *)
CONSTANTS FactorTenths, HeapPivot

Values == {"int", "rec", "clo", "scope", "target"}

----------------------------------------------------------------------------
(* Objects, and their sizes in pads of eight bytes.                        *)
Slots(n) == [i \in 1..n |-> 0]
Integer(n) == [kind |-> "int", n |-> n]
Record(cons, n) == [kind |-> "rec", cons |-> cons, at |-> Slots(n)]
Closure(fun, applied, scope) == [kind |-> "clo", fun |-> fun, applied |-> applied, scope |-> scope]
Scope(n, next) == [kind |-> "scope", at |-> Slots(n), up |-> next]
Target(keyargs) == [kind |-> "target", keyargs |-> keyargs, at |-> <<>>, keys |-> <<>>]
Interpret(fun, scope, cont) ==
    [kind |-> "interpret", next |-> 0, fun |-> fun, index |-> 0, scope |-> scope, cont |-> cont]

(* A continuation: what it waits to do with the value it is given.         *)
Cont(kind, refs, x) == [kind |-> kind, next |-> 0, value |-> 0, refs |-> refs, x |-> x]
FulFiller(tuple, i) == Cont("fulfiller", <<tuple>>, i)
CGet(cont, index) == Cont("get", <<cont>>, index)
CDes(scope, cont, des) == Cont("des", <<scope, cont>>, des)
CPrim(scope, output, prim) == Cont("prim", <<scope>>, [output |-> output, term |-> prim])
CApp(cont, caller, output, app) == Cont("app", <<cont, caller>>, [output |-> output, term |-> app])
CHash(obj, cont) == Cont("hash", <<obj, cont>>, 0)
CTargetArgs(target, body, list, cont) == Cont("targs", <<target, body, list, cont>>, 0)
CTargetFill(target, hash) == Cont("tfill", <<target>>, hash)
CInit == Cont("init", <<>>, 0)

TupleSize(n) == (IF n > 4 THEN 3 ELSE 2) + n
Size(o) ==
    CASE o.kind = "int" -> IF o.n = 0 THEN 2 ELSE 3
      [] o.kind \in {"rec", "scope"} -> TupleSize(Len(o.at))
      [] o.kind = "clo" -> 4
      [] o.kind = "target" -> 14
      [] o.kind = "interpret" -> 6
      [] o.kind = "init" -> 3
      [] o.kind \in {"fulfiller", "get", "hash"} -> 5
      [] o.kind \in {"des", "prim", "tfill"} -> 6
      [] o.kind = "app" -> 7
      [] o.kind = "targs" -> 8
fulfiller_pads == 5

----------------------------------------------------------------------------
(***************************************************************************)
(* The heap.  reserve compares unsigned numbers: an end below the objects  *)
(* would look like room without end.                                       *)
(***************************************************************************)
Room(m, pads) == m.end < m.used \/ m.end - m.used >= pads
NeedGC(m, pads) == [m EXCEPT !.need = pads]
Claim(m, o) == [m EXCEPT !.heap = Append(@, o), !.used = @ + Size(o)]
Top(m) == Len(m.heap)

Obj(m, a) == m.heap[a]

(* The addresses an object holds, and the object with them renamed.        *)
Kids(o) ==
    CASE o.kind = "int" -> {}
      [] o.kind = "rec" -> Range(o.at)
      [] o.kind = "clo" -> {o.scope}
      [] o.kind = "scope" -> Range(o.at) \union {o.up}
      [] o.kind = "target" -> Range(o.at)
      [] o.kind = "interpret" -> {o.next, o.scope, o.cont}
      [] OTHER -> {o.next, o.value} \union Range(o.refs)

Moved(o, to) ==
    LET All(f) == [i \in DOMAIN f |-> to[f[i]]]
    IN  CASE o.kind = "int" -> o
          [] o.kind \in {"rec", "target"} -> [o EXCEPT !.at = All(@)]
          [] o.kind = "clo" -> [o EXCEPT !.scope = to[@]]
          [] o.kind = "scope" -> [o EXCEPT !.at = All(@), !.up = to[@]]
          [] o.kind = "interpret" -> [o EXCEPT !.next = to[@], !.scope = to[@], !.cont = to[@]]
          [] OTHER -> [o EXCEPT !.next = to[@], !.value = to[@], !.refs = All(@)]

(* Objects are copied in the order they are found, the roots first.        *)
RECURSIVE Found(_, _, _)
Found(m, list, done) ==
    IF done = Len(list) THEN list
    ELSE LET new == (Kids(Obj(m, list[done + 1])) \ {0}) \ Range(list)
         IN  Found(m, list \o Listed(new), done + 1)

Roots(m) == ({m.stack, m.output} \union Range(m.lits) \union Range(m.jobs)) \ {0}

RECURSIVE Isqrt(_)
Isqrt(n) == IF n = 0 THEN 0
            ELSE LET r == 2 * Isqrt(n \div 4) + 1 IN IF r * r <= n THEN r ELSE r - 1

least(a, b) == IF a < b THEN a ELSE b
most(a, b) == IF a < b THEN b ELSE a

desired_size(live, requested) ==
    least((FactorTenths * live) \div 10,
          live + Isqrt((FactorTenths * FactorTenths * live * HeapPivot) \div 100)) + requested

(* A target that dies with an unfulfilled promise reports a recursion.     *)
Unfulfilled(m, a) == \E i \in DOMAIN Obj(m, a).at :
                         LET v == Obj(m, a).at[i] IN v = 0 \/ Obj(m, v).kind \notin Values
Reports(m, dead) == \E a \in dead : Obj(m, a).kind = "target" /\ Unfulfilled(m, a)

GC(m, requested) ==
    LET order == Found(m, Listed(Roots(m)), 0)
        to == [a \in Range(order) \union {0} |->
                  IF a = 0 THEN 0 ELSE CHOOSE i \in DOMAIN order : order[i] = a]
        heap == [i \in DOMAIN order |-> Moved(Obj(m, order[i]), to)]
        live == Fold(LAMBDA n, o : n + Size(o), 0, heap)
        elems == most(m.used + requested, desired_size(m.last, requested))
    IN  [m EXCEPT !.heap = heap, !.used = live, !.last = live, !.need = 0,
                  !.end = least(elems, desired_size(live, requested)),
                  !.stack = to[@], !.output = to[@],
                  !.lits = [v \in DOMAIN @ |-> to[@[v]]],
                  !.jobs = [i \in DOMAIN @ |-> to[@[i]]],
                  !.reported = @ \/ Reports(m, DOMAIN m.heap \ Range(order))]

----------------------------------------------------------------------------
(* Promises.  A reference to one is the object and the slot.               *)
Ref(o, i) == [o |-> o, i |-> i]
Get(m, ref) == Obj(m, ref.o).at[ref.i]
Set(m, ref, a) == [m EXCEPT !.heap[ref.o].at[ref.i] = a]
Fulfilled(m, ref) == Get(m, ref) # 0 /\ Obj(m, Get(m, ref)).kind \in Values

schedule(m, w) == [m EXCEPT !.heap[w].next = m.stack, !.stack = w]
resume(m, c, v) == schedule([m EXCEPT !.heap[c].value = v], c)

await(m, ref, c) ==
    IF Fulfilled(m, ref) THEN resume(m, c, Get(m, ref))
    ELSE Set([m EXCEPT !.heap[c].next = Get(m, ref)], ref, c)

(* Every waiting continuation gets the value; the list goes on the stack.  *)
RECURSIVE awaken(_, _, _)
awaken(m, c, v) ==
    LET given == [m EXCEPT !.heap[c].value = v]
    IN  IF Obj(m, c).next # 0 THEN awaken(given, Obj(m, c).next, v)
        ELSE [given EXCEPT !.heap[c].next = m.stack]

fulfill(m, ref, v) ==
    LET head == Get(m, ref)
    IN  Set(IF head = 0 THEN m ELSE [awaken(m, head, v) EXCEPT !.stack = head], ref, v)

(* Tuple::claim_instant_fulfiller                                          *)
Forward(m, ref, from) ==
    IF Fulfilled(m, from) THEN Set(m, ref, Get(m, from))
    ELSE LET c == Claim(m, [FulFiller(ref.o, ref.i) EXCEPT !.next = Get(m, from)])
         IN  Set(c, from, Top(c))

RECURSIVE Up(_, _, _)
Up(m, scope, depth) == IF depth = 0 THEN scope ELSE Up(m, Obj(m, scope).up, depth - 1)
Arg(m, scope, arg) == Ref(Up(m, scope, arg[1]), arg[2] + 1)

----------------------------------------------------------------------------
(***************************************************************************)
(* The terms.  ctx is the InterpretContext: the scope, the index of the    *)
(* term in it, the continuation of a tail call (or 0) and the Interpret    *)
(* that runs (0 in a tail call).                                           *)
(***************************************************************************)
Finish(m, ctx, a) == IF ctx.cont # 0 THEN resume(m, ctx.cont, a)
                     ELSE Set(m, Ref(ctx.scope, ctx.output + 1), a)

(* InterpretContext::defer: the continuation of the term.                  *)
Defer(m, ctx) == IF ctx.cont # 0 THEN m ELSE Claim(m, FulFiller(ctx.scope, ctx.output + 1))
Deferred(m, ctx) == IF ctx.cont # 0 THEN ctx.cont ELSE Top(m)

(* The running Interpret goes below the work it starts.                    *)
Reschedule(m, ctx) ==
    IF ctx.interpret # 0 THEN [schedule(m, ctx.interpret) EXCEPT !.resume = FALSE] ELSE m

(* A mutation: room for the bound scope is asked for, room to run it is not. *)
reserve_apply_scope(fun) == TupleSize(Len(fun.terms))

reserve_apply(fun) == TupleSize(Len(fun.terms)) + fulfiller_pads + 6

claim_apply(m, closure, value, cont) ==
    LET fun == Obj(m, closure).fun
        bind == Claim(m, Scope(Len(fun.terms), Obj(m, closure).scope))
        bound == Set(bind, Ref(Top(bind), 1), value)
        run == Claim(bound, Interpret(fun, Top(bind), cont))
    IN  schedule(run, Top(run))

InterpretLit(m, t, ctx) == Finish(m, ctx, m.lits[t.x])

InterpretFun(m, t, ctx) ==
    IF ~Room(m, 4) THEN NeedGC(m, 4)
    ELSE LET c == Claim(m, Closure(t, 0, ctx.scope)) IN Finish(c, ctx, Top(c))

InterpretCon(m, t, ctx) ==
    LET n == Len(t.args)
        pads == TupleSize(n) + n * fulfiller_pads
        bind == Claim(m, Record(t.x, n))
        filled == Fold(LAMBDA acc, i : Forward(acc, Ref(Top(bind), i), Arg(m, ctx.scope, t.args[i])),
                           bind, [i \in 1..n |-> i])
    IN  IF Room(m, pads) THEN Finish(filled, ctx, Top(bind)) ELSE NeedGC(m, pads)

InterpretGet(m, t, ctx) ==
    LET arg == Arg(m, ctx.scope, t.args[1])
        field == Ref(Get(m, arg), t.x + 1)
        pads == fulfiller_pads + IF Fulfilled(m, arg) THEN 0 ELSE 5
        d == Defer(m, ctx)
        c == Claim(d, CGet(Deferred(d, ctx), t.x))
    IN  CASE ~Room(m, pads) -> NeedGC(m, pads)
          [] Room(m, pads) /\ ~Fulfilled(m, arg) -> await(c, arg, Top(c))
          [] OTHER -> IF Fulfilled(m, field) THEN Finish(m, ctx, Get(m, field))
                      ELSE await(d, field, Deferred(d, ctx))

InterpretDes(m, t, ctx) ==
    LET arg == Arg(m, ctx.scope, Last(t.args))
        handler == Get(m, Arg(m, ctx.scope, t.args[Obj(m, Get(m, arg)).cons.index + 1]))
        pads == IF Fulfilled(m, arg) THEN reserve_apply(Obj(m, handler).fun) ELSE fulfiller_pads + 6
        now == Defer(Reschedule(m, ctx), ctx)
        d == Defer(m, ctx)
        c == Claim(d, CDes(ctx.scope, Deferred(d, ctx), t))
    IN  CASE ~Room(m, pads) -> NeedGC(m, pads)
          [] Room(m, pads) /\ Fulfilled(m, arg) ->
                 claim_apply(now, handler, Get(m, arg), Deferred(now, ctx))
          [] OTHER -> await(c, arg, Top(c))

----------------------------------------------------------------------------
(* RApp and CApp::doit.  The scopes of the arguments already applied are   *)
(* above the scope of the closure, the last first.                         *)
RECURSIVE Skip(_, _, _)
Skip(m, scope, pop) == IF pop = 0 THEN scope ELSE Skip(m, Obj(m, scope).up, pop - Len(Obj(m, scope).at))

RECURSIVE ForwardApplied(_, _, _, _)
ForwardApplied(m, bind, scope, pop) ==
    IF pop = 0 THEN m
    ELSE LET n == Len(Obj(m, scope).at)
             filled == Fold(LAMBDA acc, i : Forward(acc, Ref(bind, pop - n + i), Ref(scope, i)),
                                m, [i \in 1..n |-> i])
         IN  ForwardApplied(filled, bind, Obj(m, scope).up, pop - n)

(* Fill slots at + 1, ... of bind with the arguments of the application.   *)
ForwardArgs(m, bind, at, caller, app) ==
    Fold(LAMBDA acc, i : Forward(acc, Ref(bind, at + i), Arg(m, caller, app.args[i + 1])),
             m, [i \in 1..(Len(app.args) - 1) |-> i])

ApplyFully(m, c, cont, ctx, app) ==
    LET fun == c.fun
        bind == Claim(m, Scope(Len(fun.terms), Skip(m, c.scope, c.applied)))
        args == ForwardArgs(bind, Top(bind), c.applied, ctx.scope, app)
        all == ForwardApplied(args, Top(bind), c.scope, c.applied)
        d == Defer(all, [ctx EXCEPT !.cont = cont])
        run == Claim(d, Interpret(fun, Top(bind), Deferred(d, [ctx EXCEPT !.cont = cont])))
    IN  schedule(Reschedule(run, ctx), Top(run))

ApplyPartly(m, c, cont, ctx, app) ==
    LET n == Len(app.args) - 1
        bind == Claim(m, Scope(n, c.scope))
        args == ForwardArgs(bind, Top(bind), 0, ctx.scope, app)
        clo == Claim(args, Closure(c.fun, c.applied + n, Top(bind)))
    IN  IF cont # 0 THEN resume(clo, cont, Top(clo))
        ELSE fulfill(clo, Ref(ctx.scope, ctx.output + 1), Top(clo))

DoApp(m, closure, cont, ctx, app) ==
    LET c == Obj(m, closure)
        n == Len(app.args) - 1
        fargs == Arity(c.fun)
        full == c.applied + n = fargs
        pads == IF full THEN TupleSize(Len(c.fun.terms)) + (1 + fargs) * fulfiller_pads + 6
                ELSE TupleSize(n) + n * fulfiller_pads + 4
    IN  CASE ~Room(m, pads) -> NeedGC(m, pads)
          [] Room(m, pads) /\ full -> ApplyFully(m, c, cont, ctx, app)
          [] OTHER -> ApplyPartly(m, c, cont, ctx, app)

InterpretApp(m, t, ctx) ==
    LET fn == Arg(m, ctx.scope, t.args[1])
        c == Claim(m, CApp(ctx.cont, ctx.scope, ctx.output, t))
    IN  CASE Fulfilled(m, fn) -> DoApp(m, Get(m, fn), ctx.cont, ctx, t)
          [] ~Fulfilled(m, fn) /\ ~Room(m, 7) -> NeedGC(m, 7)
          [] OTHER -> await(c, fn, Top(c))

----------------------------------------------------------------------------
(***************************************************************************)
(* deep_hash: the objects in the order they are found, each by its place   *)
(* in that order or, the first time, by its shallow hash too.  What is     *)
(* found of an integer is its magnitude.                                   *)
(***************************************************************************)
shallow_hash(o) ==
    CASE o.kind = "int" -> <<"int", IF o.n < 0 THEN -o.n ELSE o.n>>
      [] o.kind = "rec" -> <<"rec", Len(o.at), o.cons.index>>
      [] o.kind = "clo" -> <<"clo", FunHash(o.fun), o.applied>>
      [] o.kind = "target" -> <<"target">>

(* Closure::explore_escape: the arguments applied, then the escapes.       *)
RECURSIVE Applied(_, _, _)
Applied(m, scope, left) ==
    IF left = 0 THEN <<>>
    ELSE LET n == Len(Obj(m, scope).at)
         IN  [j \in 1..n |-> Ref(scope, n + 1 - j)] \o Applied(m, Obj(m, scope).up, left - n)

explore(m, a) ==
    LET o == Obj(m, a)
        base == Skip(m, o.scope, o.applied)
    IN  CASE o.kind = "rec" -> [i \in DOMAIN o.at |-> Ref(a, i)]
          [] o.kind = "clo" -> Applied(m, o.scope, o.applied)
                               \o [k \in DOMAIN o.fun.args |-> Arg(m, base, o.fun.args[k])]
          [] OTHER -> <<>>

(* The code, and the last promise met that is not fulfilled.               *)
RECURSIVE deep_hash_imp(_, _, _, _)
deep_hash_imp(m, list, done, h) ==
    IF done = Len(list) THEN h
    ELSE LET a == list[done + 1]
             first == CHOOSE i \in DOMAIN list : list[i] = a /\ \A j \in 1..(i - 1) : list[j] # a
             refs == explore(m, a)
             good == SelectSeq(refs, LAMBDA r : Fulfilled(m, r))
             bad == SelectSeq(refs, LAMBDA r : ~Fulfilled(m, r))
         IN  IF first <= done
             THEN deep_hash_imp(m, list, done + 1, [h EXCEPT !.code = Append(@, <<first>>)])
             ELSE deep_hash_imp(m, list \o [i \in DOMAIN good |-> Get(m, good[i])], done + 1,
                      [code |-> Append(h.code, <<first, shallow_hash(Obj(m, a))>>),
                       broken |-> h.broken \o bad])

deep_hash(m, a) == deep_hash_imp(m, <<a>>, 0, [code |-> <<>>, broken |-> <<>>])

----------------------------------------------------------------------------
(***************************************************************************)
(* The primitives.  Each reserves what it needs before it does anything;   *)
(* args are the addresses of its arguments.                                *)
(***************************************************************************)
Note(m, name, args) ==
    IF PrimFlags(name) \intersect {"E", "O"} = {} THEN m
    ELSE [m EXCEPT !.log = Append(@, <<name, [i \in DOMAIN args |-> Obj(m, args[i]).n]>>)]

Return(m, scope, output, o) ==
    LET c == Claim(m, o) IN fulfill(c, Ref(scope, output + 1), Top(c))

UnitCons == [name |-> "Unit", index |-> 0]
alloc_order(a, b) == CASE a < b -> [name |-> "LT", index |-> 0]
                       [] a = b -> [name |-> "EQ", index |-> 1]
                       [] a > b -> [name |-> "GT", index |-> 2]
NilCons == [name |-> "Nil", index |-> 0]
ListCons == [name |-> "binary ,", index |-> 1]
reserve_list(n) == TupleSize(0) + n * TupleSize(2)

(* claim_list: the list of the addresses, its head on top of the heap.     *)
RECURSIVE claim_list(_, _)
claim_list(m, args) ==
    IF args = <<>> THEN Claim(m, Record(NilCons, 0))
    ELSE LET rest == claim_list(m, Tail(args))
         IN  Claim(rest, [Record(ListCons, 2) EXCEPT !.at = <<Head(args), Top(rest)>>])

prim_tget(m, scope, output, args) ==
    LET keys == SubSeq(args, 3, Len(args))
        pads == fulfiller_pads + reserve_list(Len(keys)) + 5 + 8
        d == Claim(m, FulFiller(scope, output + 1))
        list == claim_list(d, keys)
        targs == Claim(list, CTargetArgs(args[1], args[2], Top(list), Top(d)))
        hash == Claim(targs, CHash(Top(list), Top(targs)))
    IN  IF Room(m, pads) THEN schedule(hash, Top(hash)) ELSE NeedGC(m, pads)

(* A job is done later: its continuation waits with it.                    *)
prim_job(m, scope, output, args) ==
    LET c == Claim(Note(m, "job", args), FulFiller(scope, output + 1))
    IN  IF Room(m, fulfiller_pads)
        THEN [c EXCEPT !.jobs = Append(@, Top(c)), !.due = Append(@, Obj(m, args[1]).n + 10)]
        ELSE NeedGC(m, fulfiller_pads)

RunPrim(m, name, scope, output, args) ==
    LET noted == Note(m, name, args)
        Give(o) == IF Room(m, Size(o)) THEN Return(noted, scope, output, o)
                   ELSE NeedGC(m, Size(o))
        n(i) == Obj(m, args[i]).n
    IN  CASE name = "add" -> Give(Integer(n(1) + n(2)))
          [] name = "sub" -> Give(Integer(n(1) - n(2)))
          [] name = "icmp" -> Give(Record(alloc_order(n(1), n(2)), 0))
          [] name = "observe" -> fulfill(noted, Ref(scope, output + 1), args[1])
          [] name = "print" -> Give(Record(UnitCons, 0))
          [] name = "tnew" -> Give(Target(n(1)))
          [] name = "tget" -> prim_tget(m, scope, output, args)
          [] name = "job" -> prim_job(m, scope, output, args)

(* CPrim::doit: call the primitive, or wait for its first missing          *)
(* argument with self, or with a new continuation if there is none yet.    *)
DoPrim(m, scope, output, prim, self) ==
    LET refs == [i \in DOMAIN prim.args |-> Arg(m, scope, prim.args[i])]
        missing == SelectSeq(refs, LAMBDA r : ~Fulfilled(m, r))
        made == Claim(m, CPrim(scope, output, prim))
    IN  CASE missing = <<>> ->
               RunPrim(m, prim.x, scope, output, [i \in DOMAIN refs |-> Get(m, refs[i])])
          [] missing # <<>> /\ self # 0 -> await(m, missing[1], self)
          [] missing # <<>> /\ self = 0 -> await(made, missing[1], Top(made))

InterpretPrim(m, t, ctx) ==
    LET pads == fulfiller_pads + 6
    IN  IF Room(m, pads) THEN DoPrim(m, ctx.scope, ctx.output, t, 0) ELSE NeedGC(m, pads)

(* Term::interpret                                                         *)
InterpretTerm(m, t, ctx) ==
    CASE t.op = "arg" -> m
      [] t.op = "lit" -> InterpretLit(m, t, ctx)
      [] t.op = "fun" -> InterpretFun(m, t, ctx)
      [] t.op = "con" -> InterpretCon(m, t, ctx)
      [] t.op = "get" -> InterpretGet(m, t, ctx)
      [] t.op = "des" -> InterpretDes(m, t, ctx)
      [] t.op = "app" -> InterpretApp(m, t, ctx)
      [] t.op = "prim" -> InterpretPrim(m, t, ctx)

tailCallOk(t) == t.op \notin {"arg", "prim"} /\ ~(t.op = "fun" /\ "RECURSIVE" \in t.flags)

----------------------------------------------------------------------------
(***************************************************************************)
(* The work.  w has been taken off the stack; a machine with a need means  *)
(* that it was interrupted and will be executed again.                     *)
(***************************************************************************)
RECURSIVE InterpretExecute(_, _)
InterpretExecute(m, w) ==
    LET i == Obj(m, w)
        n == Len(i.fun.terms)
        tail == i.fun.output = <<0, n - 1>> /\ tailCallOk(Last(i.fun.terms))
        limit == IF tail THEN n - 1 ELSE n
        ctx == [scope |-> i.scope, output |-> i.index, cont |-> 0, interpret |-> w]
        Resumed(r) == IF r.need # 0 THEN r
                      ELSE IF r.resume THEN InterpretExecute([r EXCEPT !.heap[w].index = @ + 1], w)
                      ELSE [r EXCEPT !.heap[w].index = @ + 1]
    IN  CASE i.index < limit -> Resumed(InterpretTerm([m EXCEPT !.resume = TRUE], i.fun.terms[i.index + 1], ctx))
          [] i.index >= limit /\ tail ->
                 InterpretTerm(m, Last(i.fun.terms),
                               [scope |-> i.scope, output |-> limit, cont |-> i.cont, interpret |-> 0])
          [] OTHER -> await(m, Arg(m, i.scope, i.fun.output), i.cont)

CDesExecute(m, c) ==
    LET handler == Get(m, Arg(m, c.refs[1], c.x.args[Obj(m, c.value).cons.index + 1]))
        pads == reserve_apply(Obj(m, handler).fun)
    IN  IF Room(m, pads) THEN claim_apply(m, handler, c.value, c.refs[2]) ELSE NeedGC(m, pads)

(* The hash waits for everything the object holds.                         *)
CHashExecute(m, w) ==
    LET c == Obj(m, w)
        h == deep_hash(m, c.refs[1])
        code == Claim(m, Integer(1))
    IN  CASE ~Room(m, 4) -> NeedGC(m, 4)
          [] Room(m, 4) /\ h.broken # <<>> -> await(m, Last(h.broken), w)
          [] OTHER -> resume(code, c.refs[2], Top(code))

RECURSIVE ListOf(_, _)
ListOf(m, list) == IF Len(Obj(m, list).at) # 2 THEN <<>>
                   ELSE <<Obj(m, list).at[1]>> \o ListOf(m, Obj(m, list).at[2])

(* Everyone waits for the entry of the table; who adds it runs the body.   *)
CTargetArgsExecute(m, c) ==
    LET target == c.refs[1]
        t == Obj(m, target)
        hashes == [i \in DOMAIN ListOf(m, c.refs[3]) |-> deep_hash(m, ListOf(m, c.refs[3])[i]).code]
        hash == SubSeq(hashes, 1, t.keyargs)
        found == {i \in DOMAIN t.keys : t.keys[i] = hash}
        inserted == [m EXCEPT !.heap[target].keys = Append(@, hash), !.heap[target].at = Append(@, 0)]
        entry == Len(t.keys) + 1
        waits == await(inserted, Ref(target, entry), c.refs[4])
        fill == Claim(waits, CTargetFill(target, entry))
        pads == reserve_apply(Obj(m, c.refs[2]).fun) + 6
    IN  CASE ~Room(m, pads) -> NeedGC(m, pads)
          [] Room(m, pads) /\ found # {} -> await(m, Ref(target, CHOOSE i \in found : TRUE), c.refs[4])
          [] OTHER -> claim_apply(fill, c.refs[2], target, Top(fill))

Execute(m, w) ==
    LET c == Obj(m, w)
    IN  CASE c.kind = "interpret" -> InterpretExecute(m, w)
          [] c.kind = "fulfiller" -> fulfill(m, Ref(c.refs[1], c.x), c.value)
          [] c.kind = "get" -> await(m, Ref(c.value, c.x + 1), c.refs[1])
          [] c.kind = "des" -> CDesExecute(m, c)
          [] c.kind = "prim" -> DoPrim(m, c.refs[1], c.x.output, c.x.term, w)
          [] c.kind = "app" -> DoApp(m, c.value, c.refs[1],
                                     [scope |-> c.refs[2], output |-> c.x.output,
                                      cont |-> c.refs[1], interpret |-> 0], c.x.term)
          [] c.kind = "hash" -> CHashExecute(m, w)
          [] c.kind = "targs" -> CTargetArgsExecute(m, c)
          [] c.kind = "tfill" -> fulfill(m, Ref(c.refs[1], c.x), c.value)
          [] c.kind = "init" -> [m EXCEPT !.output = c.value]

(* One turn of Runtime::run: work that lacks room is put back.             *)
PutBack(e, w) ==
    IF e.need = 0 THEN e
    ELSE GC([e EXCEPT !.heap[w].next = e.stack, !.stack = w, !.owed = e.need], e.need)
Turn(m) == PutBack(Execute([m EXCEPT !.stack = Obj(m, m.stack).next, !.owed = 0], m.stack), m.stack)

(* Heap::guarantee                                                         *)
guarantee(m, pads) == IF Room(m, pads) THEN m ELSE GC(m, pads)

(* Runtime::init, on a heap of size pads that holds the literals.          *)
Boot(root, values, size) ==
    LET list == Listed(values)
        empty == [heap |-> <<>>, used |-> 0, end |-> size, last |-> 0, stack |-> 0, output |-> 0,
                  lits |-> <<>>, jobs |-> <<>>, due |-> <<>>, need |-> 0, owed |-> 0, resume |-> FALSE,
                  log |-> <<>>, reported |-> FALSE]
        Literal(m, v) == LET c == Claim(guarantee(m, 3), Integer(v.n))
                         IN  [c EXCEPT !.lits = (v :> Top(c)) @@ @]
        m == guarantee(Fold(Literal, empty, list), 3 + 4 + reserve_apply(root))
        done == Claim(m, CInit)
        clo == Claim(done, Closure(root, 0, 0))
    IN  claim_apply(clo, Top(clo), Top(clo), Top(done))

(* A job has ended: JobTable::wait resumes its continuation.               *)
JobDone(m, j) ==
    LET room == guarantee(m, 3)
        v == Claim(room, Integer(m.due[j]))
    IN  [resume(v, v.jobs[j], Top(v)) EXCEPT !.jobs = RemoveAt(@, j), !.due = RemoveAt(@, j)]
=============================================================================
