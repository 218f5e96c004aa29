------------------------------- MODULE Packages -------------------------------
(***************************************************************************)
(* Files, packages and their symbols: dst_top and what it calls            *)
(* (src/dst/todst.cpp), flatten_exports, process_import and the fracture   *)
(* of the whole program (src/dst/bind.cpp).                                *)
(*                                                                         *)
(* A file is a record: its package, its imports and re-exports (each with  *)
(* a kind, a name, and the def and pkg it stands for), the packages it     *)
(* imports in full, and its items: each with its k, its flags and content. *)
(***************************************************************************)
EXTENDS Binder

Kinds == {"defs", "types", "topics"}

(* A SymbolSource stands for def@pkg; a leaf is a definition.              *)
SymbolSource(def, pkg, leaf) == [def |-> def, pkg |-> pkg, leaf |-> leaf]
Qualified(sym) == sym.def \o "@" \o sym.pkg
Symbols == [k \in Kinds |-> <<>>]
Collide(a, b) == \E k \in Kinds : DOMAIN a[k] \intersect DOMAIN b[k] # {}
Join(a, b) == [k \in Kinds |-> a[k] @@ b[k]]

----------------------------------------------------------------------------
(* The definitions of an item, after the n of the items before it.         *)
ItemDefs(item, n) ==
    CASE item.k \in {"def", "target"} -> dst_def(item, n)
      [] item.k = "data" -> dst_data(item.sum)
      [] item.k = "tuple" -> dst_tuple(item.sum)
      [] OTHER -> <<>>

FileDefs(file) == Fold(LAMBDA acc, item : acc \o ItemDefs(item, Len(acc)), <<>>, file.items)

(* bind_global, bind_export, bind_type: the symbols an item gives to who   *)
(* has the flag.  A tuple gives each member's functions on their own, and  *)
(* its type with any of them.                                              *)
NamesIn(defs) == {defs[i].name : i \in DOMAIN defs}
Flagged(item, names, flag) ==
    LET has == flag \in item.flags
        Member(i) == {p \o item.sum.name \o item.sum.tags[i] : p \in {"get", "edit", "set"}}
        open == {i \in DOMAIN item.member_flags : flag \in item.member_flags[i]}
        own == {d \in names : item.k = "target" => d = item.ast.name}
    IN  CASE item.k \in {"def", "target"} ->
                 {<<"defs", d>> : d \in IF has /\ item.ast.name # "_" THEN own ELSE {}}
          [] item.k = "data" -> IF has THEN {<<"types", item.sum.name>>} \union {<<"defs", d>> : d \in names} ELSE {}
          [] item.k = "tuple" ->
                 (IF has \/ open # {} THEN {<<"types", item.sum.name>>} ELSE {})
                 \union (IF has THEN {<<"defs", item.sum.name>>} ELSE {})
                 \union {<<"defs", d>> : d \in UNION {Member(i) : i \in open}}
          [] item.k = "topic" -> IF has THEN {<<"topics", item.name>>} ELSE {}
          [] OTHER -> {}

(* All leaves that a file defines, as (kind, name) pairs.                  *)
Defined(file) ==
    LET items == {file.items[i] : i \in DOMAIN file.items}
    IN  {<<"defs", name>> : name \in NamesIn(FileDefs(file))}
        \union {<<"types", it.sum.name>> : it \in {x \in items : x.k \in {"data", "tuple"}}}
        \union {<<"topics", it.name>> : it \in {x \in items : x.k = "topic"}}

LeafSymbols(pairs, pkg) ==
    [k \in Kinds |-> [name \in {p[2] : p \in {q \in pairs : q[1] = k}} |-> SymbolSource(name, pkg, TRUE)]]

FlaggedIn(file, flag) ==
    UNION {Flagged(file.items[i], NamesIn(ItemDefs(file.items[i], 0)), flag) : i \in DOMAIN file.items}

(* dst_export: a re-export is a symbol of the file too.  When the file     *)
(* itself defines what it re-exports, the symbol is a leaf.                *)
Reexports(file) ==
    LET own == Defined(file)
        Sym(x) == SymbolSource(x.def, x.pkg, x.pkg = file.package /\ x.def = x.name /\ <<x.kind, x.name>> \in own)
    IN  Fold(LAMBDA syms, x : [syms EXCEPT ![x.kind] = @ @@ (x.name :> Sym(x))], Symbols, file.exports)

FileTop(file, defs, named, leaves) ==
    LET clash == \E k \in Kinds : \E n \in DOMAIN named[k] \intersect DOMAIN leaves[k] :
                     Qualified(named[k][n]) # Qualified(leaves[k][n])
        Twice(seq, Same(_, _)) == \E i, j \in DOMAIN seq : i < j /\ Same(seq[i], seq[j])
        types == SelectSeq(file.items, LAMBDA it : it.k \in {"data", "tuple"})
        topics == SelectSeq(file.items, LAMBDA it : it.k = "topic")
    IN  [ok |-> /\ ~Duplicates(defs)
                /\ ~clash
                /\ ~Twice(types, LAMBDA x, y : x.sum.name = y.sum.name)
                /\ ~Twice(topics, LAMBDA x, y : x.name = y.name)
                /\ ~Twice(file.imports \o file.exports, LAMBDA x, y : x.kind = y.kind /\ x.name = y.name),
         package |-> file.package,
         defs |-> defs,
         local |-> Join(named, leaves),
         exports |-> Join(named, LeafSymbols(FlaggedIn(file, "export"), file.package)),
         globals |-> LeafSymbols(FlaggedIn(file, "global"), file.package),
         pubs |-> SelectSeq(file.items, LAMBDA it : it.k = "publish"),
         topics |-> topics,
         imports |-> file.imports,
         import_all |-> IF file.imports = <<>> /\ file.import_all = <<>> THEN <<"wake">> ELSE file.import_all]

dst_top(file) == FileTop(file, FileDefs(file), Reexports(file), LeafSymbols(Defined(file), file.package))

----------------------------------------------------------------------------
(* Top: the files, the symbols of every package and the globals.           *)
FilesOf(top, pkg) == SelectSeq(top.files, LAMBDA f : f.package = pkg)
JoinAll(maps) == Fold(Join, Symbols, maps)
Clashes(maps) == \E i, j \in DOMAIN maps : i # j /\ Collide(maps[i], maps[j])

(* Top::Top: the types that every program has.                             *)
Builtins == [Symbols EXCEPT !["types"] = [n \in {"Integer", "binary =>"} |-> SymbolSource(n, "builtin", TRUE)]]

ReadAll(list, def_package, body) ==
    LET pkgs == {list[i].package : i \in DOMAIN list}
        Of(pkg) == SelectSeq(list, LAMBDA f : f.package = pkg)
        Local(fs) == [i \in DOMAIN fs |-> fs[i].local]
        globals == [i \in DOMAIN list |-> list[i].globals]
    IN  [files |-> list,
         ok |-> /\ \A i \in DOMAIN list : list[i].ok
                /\ ~Clashes(<<Builtins>> \o globals)
                /\ \A p \in pkgs : ~Clashes(Local(Of(p))),
         def_package |-> def_package,
         body |-> body,
         packages |-> ("builtin" :> Builtins) @@ [p \in pkgs |-> JoinAll(Local(Of(p)))],
         exports |-> ("builtin" :> Builtins)
                     @@ [p \in pkgs |-> JoinAll([i \in DOMAIN Of(p) |-> Of(p)[i].exports])],
         globals |-> JoinAll(<<Builtins>> \o globals)]

Read(files, def_package, body) == ReadAll([i \in DOMAIN files |-> dst_top(files[i])], def_package, dst_expr(body))

(* contract: follow re-exports to the definition; seen are the gray ones.  *)
NoSymbol == SymbolSource("", "", FALSE)
RECURSIVE contract(_, _, _, _)
contract(top, kind, sym, seen) ==
    CASE sym.leaf -> sym
      [] ~sym.leaf /\ Qualified(sym) \in seen -> NoSymbol
      [] OTHER -> IF sym.pkg \in DOMAIN top.exports /\ sym.def \in DOMAIN top.exports[sym.pkg][kind]
                  THEN contract(top, kind, top.exports[sym.pkg][kind][sym.def], seen \union {Qualified(sym)})
                  ELSE NoSymbol

sym_contract(top, syms) == [k \in Kinds |-> [n \in DOMAIN syms[k] |-> contract(top, k, syms[k][n], {})]]
Contracted(syms) == \A k \in Kinds : \A n \in DOMAIN syms[k] : syms[k][n] # NoSymbol

flatten_exports(top) ==
    LET All(maps) == [p \in DOMAIN maps |-> sym_contract(top, maps[p])]
        Checked(out) ==
            [out EXCEPT !.ok = /\ @
                               /\ \A p \in DOMAIN out.exports : Contracted(out.exports[p]) /\ Contracted(out.packages[p])
                               /\ \A i \in DOMAIN out.files : Contracted(out.files[i].local)]
    IN  Checked([top EXCEPT !.exports = All(@), !.packages = All(@),
                            !.files = [i \in DOMAIN @ |-> [@[i] EXCEPT !.local = sym_contract(top, @)]]])

(* process_import: what the imports by name give, and after it, where they *)
(* give nothing, the packages imported in full, the last first.  A name    *)
(* that a package does not export is only warned of; an import that names  *)
(* its kind keeps one that does not from giving a symbol of that kind.     *)
process_import(top, file) ==
    LET list == Range(file.imports)
        Given(x, k) == /\ \/ x.kind = k
                          \/ x.kind = "mixed" /\ ~\E y \in list : y.kind = k /\ y.name = x.name
                       /\ x.pkg \in DOMAIN top.exports
                       /\ x.def \in DOMAIN top.exports[x.pkg][k]
        named == [k \in Kinds |->
                     [n \in {x.name : x \in {y \in list : Given(y, k)}} |->
                         LET x == CHOOSE y \in list : Given(y, k) /\ y.name = n
                         IN  top.exports[x.pkg][k][x.def]]]
        all == SelectSeq(file.import_all, LAMBDA p : p \in DOMAIN top.exports)
    IN  JoinAll(<<named>> \o Reverse([i \in DOMAIN all |-> top.exports[all[i]]]))

----------------------------------------------------------------------------
(* The environment of a file, and of the body on the command line.         *)
Env(syms, cons) ==
    LET Map(k) == [n \in DOMAIN syms[k] |-> Qualified(syms[k][n])]
    IN  [names |-> {}, defs |-> Map("defs"), types |-> Map("types"), topics |-> Map("topics"), cons |-> cons]

FileSymbols(top, f) == JoinAll(<<f.local, process_import(top, f), top.packages[f.package], top.globals>>)

BodySymbols(top) ==
    LET files == FilesOf(top, top.def_package)
        all == Joined([i \in DOMAIN files |-> files[i].import_all])
        known == SelectSeq(all, LAMBDA p : p \in DOMAIN top.exports)
    IN  JoinAll(<<IF files = <<>> THEN Symbols ELSE top.packages[top.def_package]>>
                \o [i \in DOMAIN known |-> top.exports[known[i]]] \o <<top.globals>>)

(* The constructors of the program, by their qualified names.              *)
RECURSIVE Inner(_)
Inner(e) == IF e.type = "Lambda" THEN Inner(e.body) ELSE e
Constructors(top) ==
    LET Of(f) == {d \in {f.defs[i] : i \in DOMAIN f.defs} : Inner(d.body).type = "Construct"}
        env(f) == Env(FileSymbols(top, f), <<>>)
        Map(f) == [q \in {Qualified(f.local.defs[d.name]) : d \in Of(f)} |->
                      LET d == CHOOSE x \in Of(f) : Qualified(f.local.defs[x.name]) = q
                      IN  [sum |-> QualifySum(env(f), Inner(d.body).sum), index |-> Inner(d.body).cons]]
    IN  Fold(LAMBDA acc, f : acc @@ Map(f), <<>>, top.files)

(* Every publish of every file, with the topic that it reaches.            *)
Publishes(top, cons) ==
    LET Of(f, env) == [i \in DOMAIN f.pubs |->
                          [topic |-> IF f.pubs[i].ast.name \in DOMAIN env.topics
                                     THEN env.topics[f.pubs[i].ast.name] ELSE "",
                           body |-> fracture(env, dst_body(f.pubs[i].body))]]
        All(f) == Reverse(Of(f, Env(FileSymbols(top, f), cons)))
    IN  Joined([i \in DOMAIN top.files |-> All(top.files[i])])

(* A topic is the concatenation of what is published to it.                *)
TopicDef(name, sig, pubs) ==
    LET list == [name |-> "List@wake", args |-> <<sig>>, lower |-> FALSE]
        mine == SelectSeq([i \in DOMAIN pubs |-> i], LAMBDA i : pubs[i].topic = name)
        Publish(i) == VarRef("publish " \o ToString(i))
        Cat(acc, i) == Apps(VarRef("binary ++@wake"), <<Ascribe(list, Publish(i)), acc>>)
        empty == VarRef("Nil@wake")
    IN  Def("topic " \o name, IF mine = <<>> THEN Ascribe(list, empty) ELSE Fold(Cat, empty, mine), {})

FractureAll(top, cons, pubs) ==
    LET env(f) == Env(FileSymbols(top, f), cons)
        Defs(f) == [i \in DOMAIN f.defs |->
                       [f.defs[i] EXCEPT !.name = @ \o "@" \o f.package, !.body = fracture(env(f), @)]]
        Topics(f) == [i \in DOMAIN f.topics |->
                         TopicDef(f.topics[i].name \o "@" \o f.package, qualify_type(env(f), f.topics[i].sig), pubs)]
        bodies == Env(BodySymbols(top), cons)
        ForAll(Op(_)) == Joined([i \in DOMAIN top.files |-> Op(top.files[i])])
        untyped == \E i \in DOMAIN top.files : \E t \in Range(top.files[i].topics) :
                       Undefined(qualify_type(env(top.files[i]), t.sig))
    IN  IF ~top.ok \/ untyped \/ \E i \in DOMAIN pubs : pubs[i].topic = "" THEN BadExpr
        ELSE fracture_binding(ForAll(Defs) \o [i \in DOMAIN pubs |-> Def("publish " \o ToString(i), pubs[i].body, {})]
                              \o ForAll(Topics), fracture(bodies, top.body))

fracture_top(top) ==
    LET Known(cons) == FractureAll(top, cons, Publishes(top, cons))
    IN  Known(Constructors(top))
=============================================================================
