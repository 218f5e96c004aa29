------------------------------- MODULE Language -------------------------------
(***************************************************************************)
(* The life of a wake program: read, bound and typed, optimized pass by    *)
(* pass, and run by the interpreter while its jobs end in any order        *)
(* (tools/wake/main.cpp).                                                  *)
(***************************************************************************)
EXTENDS Optimizer, Interpreter

Frontend == INSTANCE Types
Source == INSTANCE Surface

(* The programs, by name, and the sizes that the heap may begin with.      *)
CONSTANTS Programs, HeapSizes

VARIABLES program, \* the program that is compiled and run
          mode,    \* source, read, flat, typing, rejected, compiled, run, woken, done
          top,     \* the files and packages of the program
          typing,  \* the exploration of the bound program
          term,    \* the terms of the program
          pass,    \* the number of passes done
          meaning, \* what the source means
          m        \* the machine
vars == <<program, mode, top, typing, term, pass, meaning, m>>

NoTop == [ok |-> FALSE]
NoTyping == Frontend!Start(Frontend!BadExpr)
NoTerm == RFun({})
Stuck == Source!StuckVal
NoMeaning == [val |-> Stuck, effects |-> <<>>, bad |-> FALSE]
Idle == [heap |-> <<>>, used |-> 0, end |-> 0, owed |-> 0, stack |-> 0, jobs |-> <<>>]

(* How often each effect is in a log.                                      *)
Effects(log) ==
    LET done == SelectSeq(log, LAMBDA e : "E" \in PrimFlags(e[1]))
    IN  [e \in Range(done) |-> Cardinality({i \in DOMAIN done : done[i] = e})]
Noted(log) == [i \in DOMAIN log |-> <<log[i][1], [a \in DOMAIN log[i][2] |-> log[i][2][a].n]>>]

Init ==
    /\ program \in DOMAIN Programs
    /\ mode = "source"
    /\ top = NoTop
    /\ typing = NoTyping
    /\ term = NoTerm
    /\ pass = 0
    /\ meaning = NoMeaning
    /\ m = Idle

(* Read the files, follow their exports and bind what they define.         *)
Read ==
    LET p == Programs[program]
    IN  /\ mode = "source"
        /\ mode' = "read"
        /\ top' = Frontend!Read(p.files, p.def_package, p.body)
        /\ UNCHANGED <<program, typing, term, pass, meaning, m>>

Flatten ==
    /\ mode = "read"
    /\ mode' = "flat"
    /\ top' = Frontend!flatten_exports(top)
    /\ UNCHANGED <<program, typing, term, pass, meaning, m>>

Bind ==
    /\ mode = "flat"
    /\ mode' = "typing"
    /\ typing' = Frontend!bind_refs(top)
    /\ UNCHANGED <<program, top, term, pass, meaning, m>>

Explore ==
    /\ mode = "typing"
    /\ ~Frontend!Explored(typing)
    /\ typing' = Frontend!Step(typing)
    /\ UNCHANGED <<program, mode, top, term, pass, meaning, m>>

(* An error ends without execution.                                        *)
Reject ==
    /\ mode = "typing"
    /\ ~typing.st.ok
    /\ mode' = "rejected"
    /\ top' = NoTop
    /\ typing' = NoTyping
    /\ UNCHANGED <<program, term, pass, meaning, m>>

Translate ==
    LET Known(r) == [val |-> r.val, effects |-> Effects(Noted(r.st.log)), bad |-> r.st.bad]
    IN  /\ mode = "typing"
        /\ typing.st.ok
        /\ typing.tasks = <<>>
        /\ mode' = "compiled"
        /\ top' = NoTop
        /\ typing' = NoTyping
        /\ term' = fromExpr(Last(typing.outs))
        /\ meaning' = Known(Source!Meant(Programs[program], top))
        /\ UNCHANGED <<program, pass, m>>

Optimize ==
    /\ mode = "compiled"
    /\ pass < Len(optimize)
    /\ term' = RunPass(optimize[pass + 1], term)
    /\ pass' = pass + 1
    /\ UNCHANGED <<program, mode, top, typing, meaning, m>>

RECURSIVE Literals(_)
Literals(t) == (IF t.op = "lit" THEN {t.x} ELSE {}) \union UNION {Literals(t.terms[i]) : i \in DOMAIN t.terms}

(* Optimization is all or nothing.                                         *)
Begin ==
    /\ mode = "compiled"
    /\ pass \in {0, Len(optimize)}
    /\ \E size \in HeapSizes : m' = Boot(Scoped(term), Literals(term), size)
    /\ mode' = "run"
    /\ UNCHANGED <<program, top, typing, term, pass, meaning>>

Turns ==
    /\ mode \in {"run", "woken"}
    /\ m.stack # 0
    /\ m' = Turn(m)
    /\ mode' = "run"
    /\ UNCHANGED <<program, top, typing, term, pass, meaning>>

(* JobTable::wait returns once a job, and maybe others, have ended.        *)
Complete ==
    /\ \/ mode = "run" /\ m.stack = 0
       \/ mode = "woken"
    /\ \E j \in DOMAIN m.jobs : m' = JobDone(m, j)
    /\ mode' = "woken"
    /\ UNCHANGED <<program, top, typing, term, pass, meaning>>

(* Nothing is left to do.  The heap goes, and with it every target.        *)
Exit ==
    /\ mode = "run"
    /\ m.stack = 0
    /\ m.jobs = <<>>
    /\ mode' = "done"
    /\ m' = [m EXCEPT !.reported = @ \/ Reports(m, DOMAIN m.heap)]
    /\ UNCHANGED <<program, top, typing, term, pass, meaning>>

(* The process is over.                                                    *)
Ended ==
    /\ mode \in {"done", "rejected"}
    /\ UNCHANGED vars

Next == Read \/ Flatten \/ Bind \/ Explore \/ Reject \/ Translate \/ Optimize \/ Begin \/ Turns \/ Complete \/ Exit \/ Ended

Spec == Init /\ [][Next]_vars

----------------------------------------------------------------------------
Accepted == mode \notin {"source", "read", "flat", "typing", "rejected"}

(* What a program that binds and types does is never an error: it applies  *)
(* only functions, takes apart only what has the right type, and some case *)
(* of every match takes the value.                                         *)
AcceptedIsSafe == Accepted => ~meaning.bad

(* The value at an address of the heap; none, if it is still promised.     *)
RECURSIVE Shown(_)
Shown(a) ==
    LET o == m.heap[a]
    IN  CASE a = 0 \/ o.kind \notin Values -> Stuck
          [] a # 0 /\ o.kind = "int" -> Source!IntVal(o.n)
          [] OTHER -> Source!Rec(o.cons.index, [i \in DOMAIN o.at |-> Shown(o.at[i])])

(* The effects of a run are exactly those of the program as it is written, *)
(* as the optimizer is to preserve them (types/primfn.h).                  *)
StraightLineEffects == mode = "done" => Effects(m.log) = meaning.effects

(* With and without the optimizer, whatever the heap begins with and in    *)
(* whatever order the jobs end, the interpreter comes to the result that   *)
(* the source means, with the same effects, each as often; and a program   *)
(* without a result is told that a target needs itself.                    *)
RunAgrees ==
    mode = "done" => /\ StraightLineEffects
                     /\ Shown(m.output) = meaning.val
                     /\ m.output = 0 => m.reported

(* What is claimed was reserved: no object lies beyond the end of the      *)
(* heap.                                                                   *)
ClaimsAreCovered == m.used <= m.end

(* Work that is put back for want of room finds the room after the         *)
(* collection: it is never put back for the same reserve again.            *)
RetrySucceeds == m.owed # 0 => Room(m, m.owed)
=============================================================================
