------------------------------ MODULE MCStartup ------------------------------
(* Startup on small families of invocations: each family varies one part of *)
(* the command line or of the machine and keeps the rest plain.             *)
EXTENDS Startup

-----------------------------------------------------------------------------
(* The plain invocation: `wake target` in a workspace that has been used.   *)
Nothing == [k \in Keys |-> Absent]
NoFile == [kind |-> "missing"]
Budget == [percent |-> "none", memory |-> "none", jobs |-> "none"]
Root == <<"w">>
Dirs == {<<>>, <<"w">>, <<"w", "a">>, <<"w", "a", "z">>, <<"v">>}
NoDatabase == [d \in Dirs |-> "none"]
Row == [run |-> 1, label |-> "l", hidden |-> FALSE, tags |-> {}, inputs |-> {"f"}, outputs |-> {"g"},
        starttime |-> 0, stat |-> FALSE, status |-> NULL, runner_status |-> NULL]
AnyJob == [jobs |-> {}, labels |-> {}, inputs |-> {}, outputs |-> {}, tags |-> {}]
Tree == [files |-> {}, unreadable |-> {}, ignore |-> NoRows, stdlib |-> FALSE, manifest |-> <<>>]
Lib == <<"/", "lib.wake">>

Plain ==
  [flags |-> {}, args |-> TRUE, fd_options |-> {}, open_fds |-> {1, 2}, cmd_budget |-> Budget,
   env_budget |-> Budget, in |-> "none", init_dir |-> Root, chdir |-> <<>>, script |-> Rel(<<"s">>),
   cwd |-> Root, kind |-> [d \in Dirs |-> "dir"], db |-> [NoDatabase EXCEPT ![Root] = "ready"],
   home |-> Root, wakeroots |-> {Root}, wakeroot |-> [kind |-> "blank"], userfiles |-> NoRows,
   env |-> Nothing, overrides |-> Nothing, sh |-> [HOME |-> <<<<"home">>>>, XDG_CONFIG_HOME |-> <<>>, works |-> TRUE], log_dirs |-> {"logs"}, writable |-> TRUE, store |-> TRUE,
   deletable |-> TRUE, seeded |-> TRUE, missing |-> {}, tree |-> Tree, lib |-> {Lib},
   package |-> (Lib :> "wake"), program |-> [flattens |-> TRUE, exporting |-> {}, errors |-> FALSE,
   warnings |-> FALSE, binds |-> TRUE], git |-> [fails |-> FALSE, files |-> <<>>], more |-> {},
   roots |-> {<<>>}, query |-> AnyJob, runs |-> NoRows, jobs |-> NoRows, locked |-> {},
   waiting |-> 0, new |-> {}, row |-> Row]

-----------------------------------------------------------------------------
(* Options that end the invocation early or change what it does.            *)
AnyFlag == {"help", "version", "lsp", "quiet", "verbose", "profile", "debug", "shebang", "config",
            "no-workspace", "list-outputs", "clean", "prune", "rm", "check", "fatal-warnings", "html",
            "globals", "stop-after-parse", "stop-after-ssa", "last", "json", "tag-dag", "init"}
Budgets == {[Budget EXCEPT ![b] = v] : b \in DOMAIN Budget, v \in {"none", "ok", "bad"}}

OptionCases ==
  {[Plain EXCEPT !.flags = f, !.args = a] : f \in {{x, y} : x \in AnyFlag, y \in AnyFlag}, a \in BOOLEAN}
  \union {[Plain EXCEPT !.cmd_budget = c, !.env_budget = e] : c \in Budgets, e \in Budgets}
  \union {[Plain EXCEPT !.fd_options = {3}, !.open_fds = o] : o \in SUBSET {1, 2, 3}}

(* One thing of the machine or the program out of order, under some options. *)
Broken ==
  {[Plain EXCEPT !.writable = FALSE], [Plain EXCEPT !.store = FALSE], [Plain EXCEPT !.deletable = FALSE],
   [Plain EXCEPT !.seeded = FALSE], [Plain EXCEPT !.git.fails = TRUE], [Plain EXCEPT !.in = "nowhere"],
   [Plain EXCEPT !.in = "wake"], [Plain EXCEPT !.kind[Root] = "file"],
   [Plain EXCEPT !.script = Rel(<<"a", "s">>), !.kind = @ @@ (<<"w", "a", "s">> :> "file")]}
  \union {[Plain EXCEPT !.program = [flattens |-> f, exporting |-> e, errors |-> r, warnings |-> w, binds |-> b]]
           : f \in BOOLEAN, e \in {{}, {"nothing"}}, r \in BOOLEAN, w \in BOOLEAN, b \in BOOLEAN}
  \union {[Plain EXCEPT !.db[Root] = s] : s \in {"empty", "other version"}}
BrokenCases ==
  {[b EXCEPT !.flags = f, !.args = a] : b \in Broken, a \in BOOLEAN,
     f \in {{}, {"last"}, {"clean"}, {"init"}, {"shebang"}, {"fatal-warnings"}, {"stop-after-parse"}}}

-----------------------------------------------------------------------------
(* A key in every layer.                                                    *)
Layer(k, s) == [Nothing EXCEPT ![k] = s]
File(k, s) == [kind |-> "object", json |-> Layer(k, s)]
Settings(v) == {Absent, IllTyped, Set(v)}

DefaultPath == <<"home", ".config", "wake.json">>
Tilde(parts) == [tilde |-> TRUE, parts |-> parts]

ConfigCases ==
  {[Plain EXCEPT !.wakeroot = r, !.userfiles = (DefaultPath :> u), !.env = Layer(k, e),
                 !.overrides = Layer(k, o)]
     : k \in {"cache_miss_on_failure", "bulk_logging_dir", "interpreter_runtime_warning_s", "heap_factor"},
       r \in {NoFile, [kind |-> "text"]} \union {File("cache_miss_on_failure", s) : s \in Settings("root")},
       u \in {NoFile, [kind |-> "text"]} \union {File(kk, s) : kk \in {"cache_miss_on_failure", "bulk_logging_dir"}, s \in Settings("logs")},
       e \in {Absent, Set("env")}, o \in {Absent, Set("line")}}
  \union {[Plain EXCEPT !.env = Layer("interpreter_runtime_warning_s", IllTyped)],
           [Plain EXCEPT !.overrides = Layer("heap_factor", IllTyped)]}

(* The path of the user's file given by a layer, and files to choose from.  *)
UserFileCases ==
  {[Plain EXCEPT !.wakeroot = r, !.env = Layer("user_config", e), !.overrides = Layer("user_config", o),
                 !.sh = [HOME |-> h, XDG_CONFIG_HOME |-> x, works |-> w],
                 !.userfiles = (<<"home", "u">> :> File("log_header", Set("A")))
                               @@ (<<"p">> :> File("log_header", Set("B")))
                               @@ (DefaultPath :> File("log_header", Set("C")))]
     : r \in {NoFile} \union {File("user_config", s) : s \in Settings(Tilde(<<"u">>))},
       e \in {Absent, Set(Literal(<<"p">>)), Set(Tilde(<<"u">>))},
       o \in {Absent, Set(Literal(<<"home", "u">>)), Set(Literal(<<"q">>))},
       h \in {<<>>, <<<<"home">>>>}, x \in {<<>>, <<<<"xdg">>>>}, w \in BOOLEAN}

VersionCases ==
  {[Plain EXCEPT !.wakeroot = File("version", Set(v))]
     : v \in {<<a, b, c>> : a \in 0..2, b \in 0..2, c \in 0..2} \union {<<1>>, <<1, -1>>, <<1, 1, 1, 1>>}}

-----------------------------------------------------------------------------
(* Where the user is, where -C leads, and which directories are workspaces. *)
Files == {<<"w", "f">>, <<"w", "a", "f">>}
Chdirs == {<<>>, <<Rel(<<"a">>)>>, <<Rel(<<"..">>)>>, <<Rel(<<"..", "w", "", "a", ".", "z">>)>>, <<Abs(<<"w", "a", "z">>)>>,
           <<Rel(<<"f">>)>>, <<Rel(<<"a", "f">>)>>, <<Abs(<<"w", "a", "f">>)>>, <<Rel(<<"x">>)>>}
PathCases ==
  {[Plain EXCEPT !.cwd = c, !.chdir = to, !.kind = @ @@ [f \in Files |-> "file"],
                 !.db = [d \in Dirs |-> IF d \in dbs THEN "ready" ELSE "none"], !.wakeroots = roots]
     : c \in Dirs, to \in Chdirs, dbs \in SUBSET {<<>>, <<"w">>, <<"w", "a">>},
       roots \in {{}, {<<"w">>}, {<<"w">>, <<"w", "a", "z">>}}}

-----------------------------------------------------------------------------
(* Wake files, .wakeignore files, a manifest, and packages.                 *)
WakeFiles == {<<"a", "j.wake">>, <<"a", "k.wake">>, <<"a", "z", "j.wake">>, <<"a", "z", "k.wake">>,
              <<"b", "k.wake">>, <<"k.wake">>, <<".build", "k.wake">>}
MCOrder == <<<<".build", "k.wake">>, Lib, <<"a", "j.wake">>, <<"a", "k.wake">>, <<"a", "z", "j.wake">>,
             <<"a", "z", "k.wake">>, <<"b", "k.wake">>, <<"k.wake">>>>
Deny(glob) == [allow |-> FALSE, glob |-> glob]
Allow(glob) == [allow |-> TRUE, glob |-> glob]
TopRules == {<<>>, <<Deny(<<"a", "*">>)>>, <<Deny(<<"**", "k.wake">>), Allow(<<"*">>)>>, <<Deny(<<"**">>)>>,
             <<Deny(<<"a", "**">>), Allow(<<"a", "**", "k.wake">>)>>}
InnerRules == {<<>>, <<Deny(<<"*">>)>>, <<Allow(<<"k.wake">>), Deny(<<"z", "*">>)>>, <<Deny(<<"k.wake">>)>>}
Trees ==
  {[Tree EXCEPT !.files = WakeFiles, !.unreadable = u, !.stdlib = l,
                !.ignore = (<<>> :> top) @@ (<<"a">> :> inner) @@ (<<"a", "z">> :> deep)]
     : u \in {{}, {<<"a", "z">>}}, l \in BOOLEAN, top \in TopRules, inner \in InnerRules, deep \in {<<>>, <<Allow(<<"*">>)>>}}
  \union {[Tree EXCEPT !.files = WakeFiles, !.manifest = <<<<"k.wake">>, <<"a", "k.wake">>, <<"z.wake">>>>]}
Package1 == [f \in WakeFiles \union {Lib} |-> IF f = Lib THEN "wake" ELSE IF Last(f) = "j.wake" THEN "P" ELSE "Q"]
Package2 == [Package1 EXCEPT ![<<"a", "j.wake">>] = "Q", ![<<"a", "z", "k.wake">>] = "P"]
WakefileCases ==
  {[Plain EXCEPT !.tree = t, !.package = p, !.chdir = to, !.flags = f]
     : t \in Trees, p \in {Package1, Package2}, to \in {<<>>, <<Rel(<<"a">>)>>, <<Rel(<<"a", "z">>)>>},
       f \in {{}, {"no-workspace"}}}

-----------------------------------------------------------------------------
(* Sources: 1 '.', 2 '/', 3 '0', 4 'a', 5 'b'.                              *)
Names == {<<4>>, <<4, 1, 4>>, <<4, 2, 4>>, <<4, 2, 4, 2, 5>>, <<4, 3>>, <<5>>}
SourceCases ==
  {[Plain EXCEPT !.git.files = SetToSeq(g), !.roots = {<<>>, <<4>>, <<4, 2, 4>>, <<5>>},
                 !.more = {<<x, y>> : x \in Names, y \in Names}]
     : g \in {{}, {<<4, 2, 4>>, <<4, 3>>, <<5>>}, Names}}
  \union {[Plain EXCEPT !.git.files = <<<<5>>, <<4, 2, 4>>, <<4, 2, 4>>>>, !.roots = {<<4>>}, !.more = {<<<<4, 1>>>>}]}

-----------------------------------------------------------------------------
(* Inspections of a database others use meanwhile.  Runs 1 and 2 are there:  *)
(* one has ended, one is open, held or left behind by a crash.               *)
Runs12 == (1 :> [end_time |-> 1, run_jobs |-> {1}]) @@ (2 :> [end_time |-> NULL, run_jobs |-> {1, 2}])
Jobs12 == (1 :> [Row EXCEPT !.stat = TRUE, !.status = 0, !.starttime = 1, !.tags = {"t"}])
          @@ (2 :> [Row EXCEPT !.run = 2, !.starttime = 1, !.inputs = {"f", "h"}])
Pattern(S, n) == [matches |-> S, negate |-> n]
Queries ==
  {AnyJob, [AnyJob EXCEPT !.jobs = {{Pattern({1, 3}, FALSE)}}], [AnyJob EXCEPT !.labels = {{Pattern({"l"}, TRUE)}}],
   [AnyJob EXCEPT !.tags = {{Pattern({"t"}, TRUE)}}],
   [AnyJob EXCEPT !.inputs = {{Pattern({"f"}, FALSE)}, {Pattern({"h"}, FALSE)}}],
   [AnyJob EXCEPT !.outputs = {{Pattern({"g"}, FALSE), Pattern({"h"}, FALSE)}}]}
Busy == [Plain EXCEPT !.args = FALSE, !.runs = Runs12, !.jobs = Jobs12, !.waiting = 1, !.new = {3}]
InspectCases ==
  {[Busy EXCEPT !.flags = f, !.locked = l]
     : f \in {{"ps"}, {"active"}, {"queued"}, {"in-flight"}, {"canceled"}, {"history"}, {"last"},
              {"last-executed"}, {"failed", "include-hidden"}, {"ps", "active"}, {"json"}},
       l \in {{}, {2}}}
  \union {[Busy EXCEPT !.flags = {"job"}, !.query = q, !.new = {}] : q \in Queries}
  \union {[Busy EXCEPT !.flags = f, !.missing = m, !.locked = l, !.new = {}]
           : f \in {{"clean"}, {"prune"}, {"rm"}, {"clean", "last"}, {"prune", "last"}, {"rm", "ps"}},
             m \in {{}, {"g"}}, l \in {{}, {2}}}

\* A checkout with a .wakeroot and no database yet, in which two wakes start.
Fresh == [Plain EXCEPT !.db = NoDatabase, !.seeded = FALSE, !.waiting = 1]
FreshCases == {Fresh, [Fresh EXCEPT !.flags = {"ps"}, !.args = FALSE]}

MCInvocations ==
  OptionCases \union BrokenCases \union ConfigCases \union UserFileCases \union VersionCases
  \union PathCases \union WakefileCases \union SourceCases \union InspectCases \union FreshCases

FreshInvocations == {Fresh}

MCWakeVersion == <<1, 1, 1>>
=============================================================================
