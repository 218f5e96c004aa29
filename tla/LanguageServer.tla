---------------------------- MODULE LanguageServer ----------------------------
(***************************************************************************)
(* lsp-wake: the language server of an editor (tools/lsp-wake).  The       *)
(* client keeps the texts of open files and tells of its edits; other      *)
(* programs change the files on disk, of which a watcher tells later.  The *)
(* server answers one message at a time.                                   *)
(*                                                                         *)
(* A text is a package, the rows that hold a comment, and a set of tokens, *)
(* each with its row, its columns, its name and its kind: a use, or a      *)
(* global or a local definition.  The syntax and the types of wake are not *)
(* part of this model: a use is bound to the definition of its name, and a *)
(* use without one is diagnosed.                                           *)
(***************************************************************************)
EXTENDS Integers, Sequences, FiniteSets, TLC

CONSTANTS Files,      \* the paths of the wake files, 1..n in their order
          Edited,     \* those that the client opens
          Texts,      \* what a file may hold
          Disks,      \* what the files hold at first
          Matches,    \* the pairs of a name and of a text that is a part of it
          Cursors,    \* where the client may ask: a file, a line and a character
          MaxQueue,   \* how many messages wait to be read
          MaxSends,   \* how many messages the client sends once it is ready,
                      \* the opening of files apart
          MaxChanges  \* how often another program changes a file

VARIABLES disk,    \* the files that exist, and what they hold
          buffer,  \* the files that are edited, and what the editor shows
          events,  \* changes on disk that the watcher has yet to tell of
          queue,   \* the messages that the server has yet to read
          s,       \* the server
          shown,   \* the diagnostics that the client shows, per file
          answer,  \* the last answer, with what it was given for
          budget   \* what is left of the bounds
vars == <<disk, buffer, events, queue, s, shown, answer, budget>>

Remove(map, f) == [g \in DOMAIN map \ {f} |-> map[g]]
Put(map, f, x) == (f :> x) @@ map

----------------------------------------------------------------------------
(* ASTree::diagnoseProject and explore: what is known of the texts.  tree  *)
(* is the texts it was built from; all that the server knows follows.      *)
Location(f, t) == [file |-> f, row |-> t.row, from |-> t.from, to |-> t.to]
Tokens(tree) == UNION {{[at |-> Location(f, t), name |-> t.name, kind |-> t.kind] : t \in tree[f].tokens} : f \in DOMAIN tree}
definitions(tree) == {t \in Tokens(tree) : t.kind # "use"}
packages(tree) == {[at |-> [file |-> f, row |-> 1, from |-> 1, to |-> 0], name |-> tree[f].package] : f \in DOMAIN tree}

Before(a, b) == \/ a.file < b.file
                \/ a.file = b.file /\ a.row < b.row
                \/ a.file = b.file /\ a.row = b.row /\ a.from <= b.from
Visible(tree, t) ==
    {d.at : d \in {x \in definitions(tree) : x.name = t.name /\ (x.kind = "global" \/ x.at.file = t.at.file)}}
Definition(tree, t) == CHOOSE a \in Visible(tree, t) : \A b \in Visible(tree, t) : Before(a, b)
Unbound(tree) == {t \in Tokens(tree) : t.kind = "use" /\ Visible(tree, t) = {}}
usages(tree) ==
    {[usage |-> t.at, definition |-> Definition(tree, t)] : t \in {x \in Tokens(tree) : x.kind = "use"} \ Unbound(tree)}

(* One list of diagnostics for every file there is, be it empty.           *)
Diagnostics(tree, f) == {t.at : t \in {x \in Unbound(tree) : x.at.file = f}}

(* The comments on the rows right above a definition document it.          *)
collectDocumentationComments(tree, loc) ==
    LET rows == tree[loc.file].comments
        go[r \in 0..loc.row] == IF r <= 1 \/ (r - 1) \notin rows THEN {} ELSE {r - 1} \union go[r - 1]
    IN  go[loc.row]

----------------------------------------------------------------------------
(* The client counts rows and columns from 0, and a range of its own ends  *)
(* after its last column; a cursor is an empty range.                      *)
getLocationFromJSON(m) == [file |-> m.file, row |-> m.line + 1, from |-> m.character + 1, to |-> m.character]
createRangeFromLocation(l) == [file |-> l.file, line |-> l.row - 1, start |-> l.from - 1, end |-> l.to]

contains(a, b) == a.file = b.file /\ a.row = b.row /\ a.from <= b.from /\ b.to <= a.to

(* The definition of what is at a place; none is no location.              *)
None == [file |-> 0]
Found(tree, loc) ==
    LET used == {u \in usages(tree) : contains(u.usage, loc)}
        defd == {d \in definitions(tree) : contains(d.at, loc)}
    IN  CASE used # {} -> (CHOOSE u \in used : TRUE).definition
          [] used = {} /\ defd # {} -> (CHOOSE d \in defd : TRUE).at
          [] OTHER -> None

findDefinitionLocation(tree, loc) == LET d == Found(tree, loc) IN IF d = None THEN {} ELSE {d}

findReferences(tree, loc) ==
    LET d == Found(tree, loc)
    IN  IF d = None THEN {} ELSE {u.usage : u \in {x \in usages(tree) : contains(x.definition, d)}}

findOccurrences(tree, loc) ==
    {l \in findReferences(tree, loc) \union findDefinitionLocation(tree, loc) : l.file = loc.file}

(* Where no use is, the cursor itself is looked for among the definitions. *)
findHoverInfo(tree, loc) ==
    LET used == {u \in usages(tree) : contains(u.usage, loc)}
        at == IF used = {} THEN loc ELSE (CHOOSE u \in used : TRUE).definition
        docs(l) == collectDocumentationComments(tree, l)
    IN  {<<d.name, IF d.kind = "global" THEN docs(d.at) ELSE {}>> : d \in {x \in definitions(tree) : contains(x.at, at)}}

Symbols(tree) == {d \in definitions(tree) : d.kind = "global"} \union packages(tree)
documentSymbol(tree, f) == {d.at : d \in {x \in Symbols(tree) : x.at.file = f}}
workspaceSymbol(tree, query) == {d.at : d \in {x \in Symbols(tree) : <<x.name, query>> \in Matches}}

Ranges(locs) == {createRangeFromLocation(l) : l \in locs}

----------------------------------------------------------------------------
(* The server.                                                             *)
NotStarted == [up |-> TRUE, init |-> FALSE, update |-> FALSE, ignored |-> 0, down |-> FALSE,
               built |-> FALSE, changed |-> <<>>, tree |-> <<>>, lost |-> "no", lag |-> 0, code |-> 0]
NoAnswer == [method |-> "none"]

Init ==
    /\ disk \in Disks
    /\ buffer = <<>>
    /\ events = {}
    /\ queue = <<>>
    /\ s = NotStarted
    /\ shown = [f \in Files |-> {}]
    /\ answer = NoAnswer
    /\ budget = [starts |-> 2, sends |-> MaxSends, changes |-> MaxChanges]

(* The texts as the server has them: those on disk, as they were changed.  *)
Now(S) == [f \in DOMAIN disk |-> IF f \in DOMAIN S.changed THEN S.changed[f] ELSE disk[f]]

diagnoseProject(S) == [S EXCEPT !.tree = Now(S), !.update = FALSE, !.built = TRUE, !.lost = "no"]
refresh(S) == LET T == [S EXCEPT !.ignored = 0] IN IF S.update THEN diagnoseProject(T) ELSE T

(* The diagnostics of a refresh are sent before the response.              *)
Sent(S) == [f \in Files |-> IF S.update /\ f \in DOMAIN disk THEN Diagnostics(Now(S), f) ELSE shown[f]]

(* A request that is often sent does not refresh at once.                  *)
Lazily(S) ==
    IF S.update /\ S.ignored + 1 > 2 THEN refresh(S)
    ELSE [S EXCEPT !.ignored = IF S.update THEN @ + 1 ELSE @]

(* The server reads a message of a method that it takes.                   *)
Reads(method) ==
    /\ s.up
    /\ queue # <<>>
    /\ Head(queue).method = method
    /\ method # "initialize" => s.init
    /\ ~s.down \/ method = "exit"
    /\ queue' = Tail(queue)
    /\ UNCHANGED <<disk, buffer, events, budget>>

(* It is answered with an error else, and so is a method it does not have; *)
(* a notification that is not for every server is passed over.             *)
Refuse ==
    /\ s.up
    /\ queue # <<>>
    /\ LET method == Head(queue).method
       IN  \/ ~s.init /\ method # "initialize"
           \/ s.down /\ method # "exit"
           \/ method \in {"unknown", "$/"}
    /\ queue' = Tail(queue)
    /\ answer' = NoAnswer
    /\ UNCHANGED <<disk, buffer, events, s, shown, budget>>

Initialize ==
    /\ Reads("initialize")
    /\ s' = [s EXCEPT !.init = Head(queue).valid]
    /\ answer' = NoAnswer
    /\ UNCHANGED shown

(* The tree is built again, whatever was known.                            *)
Rebuilds(S) ==
    LET T == [S EXCEPT !.update = TRUE]
    IN  s' = refresh(T) /\ shown' = Sent(T) /\ answer' = NoAnswer

Initialized ==
    /\ Reads("initialized")
    /\ Rebuilds(s)

DidOpen ==
    /\ Reads("didOpen")
    /\ answer' = NoAnswer
    /\ UNCHANGED <<s, shown>>

DidChangeQuietly ==
    /\ Reads("didChange")
    /\ LET m == Head(queue)
       IN  s' = [s EXCEPT !.changed = Put(@, m.file, m.text), !.ignored = 0]
    /\ answer' = NoAnswer
    /\ UNCHANGED shown

DidChange ==
    /\ Reads("didChange")
    /\ LET m == Head(queue)
       IN  s' = [s EXCEPT !.changed = Put(@, m.file, m.text), !.update = TRUE, !.ignored = 0, !.lag = 0]
    /\ answer' = NoAnswer
    /\ UNCHANGED shown

DidSave ==
    /\ Reads("didSave")
    /\ Rebuilds([s EXCEPT !.changed = Remove(@, Head(queue).file)])

DidCloseQuietly ==
    /\ Reads("didClose")
    /\ s' = [s EXCEPT !.changed = Remove(@, Head(queue).file)]
    /\ answer' = NoAnswer
    /\ UNCHANGED shown

(* Many files may be closed at once: nothing is rebuilt yet.               *)
DidClose ==
    /\ Reads("didClose")
    /\ LET f == Head(queue).file
       IN  s' = [s EXCEPT !.changed = Remove(@, f), !.update = @ \/ f \in DOMAIN s.changed]
    /\ answer' = NoAnswer
    /\ UNCHANGED shown

(* A file that changed on disk is read again, edited or not; of one that   *)
(* was deleted the diagnostics are cleared.                                *)
DidChangeWatchedFiles ==
    /\ Reads("watched")
    /\ LET changes == Head(queue).changes
           T == [s EXCEPT !.changed = [f \in DOMAIN @ \ {c.file : c \in changes} |-> @[f]], !.update = TRUE]
           gone == {c.file : c \in {x \in changes : x.deleted}}
       IN  /\ s' = refresh(T)
           /\ shown' = [f \in Files |-> IF f \in gone \ DOMAIN disk THEN {} ELSE Sent(T)[f]]
    /\ answer' = NoAnswer

(* A change of the file that the server has yet to be told of.             *)
Untold(f) ==
    \/ \E e \in events : e.file = f
    \/ \E i \in DOMAIN queue : \/ queue[i].method = "didSave" /\ queue[i].file = f
                               \/ queue[i].method = "watched" /\ \E c \in queue[i].changes : c.file = f

(* An answer, with the texts that it was to be about and whether the tree  *)
(* was of other texts.                                                     *)
Answers(S, m, result) ==
    /\ answer' = [method |-> m.method, about |-> m, now |-> Now(s),
                  told |-> \A f \in Files : ~Untold(f), result |-> result]
    /\ s' = [S EXCEPT !.lag = IF S.update THEN @ + 1 ELSE 0]
    /\ shown' = IF S.update THEN shown ELSE Sent(s)

GoToDefinition ==
    /\ Reads("definition")
    /\ LET m == Head(queue)
           S == refresh(s)
       IN  Answers(S, m, Ranges(findDefinitionLocation(S.tree, getLocationFromJSON(m))))

FindReportReferences ==
    /\ Reads("references")
    /\ LET m == Head(queue)
           S == refresh(s)
           loc == getLocationFromJSON(m)
           declaration == IF m.includeDeclaration THEN findDefinitionLocation(S.tree, loc) ELSE {}
       IN  Answers(S, m, Ranges(findReferences(S.tree, loc) \union declaration))

HighlightOccurrences ==
    /\ Reads("highlight")
    /\ LET m == Head(queue)
           S == Lazily(s)
       IN  Answers(S, m, Ranges(findOccurrences(S.tree, getLocationFromJSON(m))))

Hover ==
    /\ Reads("hover")
    /\ LET m == Head(queue)
           S == Lazily(s)
       IN  Answers(S, m, findHoverInfo(S.tree, getLocationFromJSON(m)))

DocumentSymbol ==
    /\ Reads("documentSymbol")
    /\ LET m == Head(queue)
           S == Lazily(s)
       IN  Answers(S, m, Ranges(documentSymbol(S.tree, m.file)))

WorkspaceSymbol ==
    /\ Reads("workspaceSymbol")
    /\ LET m == Head(queue)
           S == refresh(s)
       IN  Answers(S, m, Ranges(workspaceSymbol(S.tree, m.query)))

(* A name that no variable may have is refused: the response is an error,  *)
(* and with an error no diagnostics are sent.                              *)
Rename ==
    /\ Reads("rename")
    /\ LET m == Head(queue)
           S == refresh(s)
           loc == getLocationFromJSON(m)
           places == findReferences(S.tree, loc) \union findDefinitionLocation(S.tree, loc)
       IN  IF m.valid THEN Answers(S, m, Ranges(places))
           ELSE /\ s' = [S EXCEPT !.lost = IF s.update THEN "rename" ELSE @]
                /\ answer' = NoAnswer
                /\ UNCHANGED shown

Shutdown ==
    /\ Reads("shutdown")
    /\ s' = [s EXCEPT !.down = TRUE]
    /\ answer' = NoAnswer
    /\ UNCHANGED shown

ServerExit ==
    /\ Reads("exit")
    /\ s' = [NotStarted EXCEPT !.up = FALSE, !.code = IF s.down THEN 0 ELSE 1]
    /\ answer' = NoAnswer
    /\ UNCHANGED shown

(* The client is gone without a word.                                      *)
EndOfInput ==
    /\ s.up
    /\ queue = <<>>
    /\ s' = [NotStarted EXCEPT !.up = FALSE, !.code = 1]
    /\ answer' = NoAnswer
    /\ UNCHANGED <<disk, buffer, events, queue, shown, budget>>

(* Nothing to read for two seconds: the project is refreshed.  What that   *)
(* makes is dropped, its diagnostics with it.                              *)
Timeout ==
    /\ s.up
    /\ queue = <<>>
    /\ s' = [refresh(s) EXCEPT !.lost = IF s.update THEN "timeout" ELSE @]
    /\ answer' = NoAnswer
    /\ UNCHANGED <<disk, buffer, events, queue, shown, budget>>

Server ==
    \/ Refuse \/ Initialize \/ Initialized \/ DidOpen \/ DidChange \/ DidSave \/ DidClose
    \/ DidChangeWatchedFiles \/ GoToDefinition \/ FindReportReferences \/ HighlightOccurrences
    \/ Hover \/ DocumentSymbol \/ WorkspaceSymbol \/ Rename \/ Shutdown \/ ServerExit \/ EndOfInput \/ Timeout

----------------------------------------------------------------------------
(* The client and its user.  A client sends no more before it is ready.    *)
Ready == s.up /\ budget.starts = 0 /\ Len(queue) < MaxQueue
Sends(m) ==
    /\ Ready
    /\ budget.sends > 0
    /\ queue' = Append(queue, m)
    /\ budget' = [budget EXCEPT !.sends = @ - 1]
    /\ UNCHANGED <<s, shown, answer>>

Initialization ==
    CASE budget.starts = 2 -> {[method |-> "initialize", valid |-> b] : b \in BOOLEAN}
      [] budget.starts = 1 -> {[method |-> "initialized"]}
      [] OTHER -> {}
Start ==
    /\ s.up
    /\ \E m \in Initialization : queue' = Append(queue, m)
    /\ budget' = [budget EXCEPT !.starts = @ - 1]
    /\ UNCHANGED <<disk, buffer, events, s, shown, answer>>
Stop ==
    /\ \E method \in {"shutdown", "exit", "unknown", "$/"} : Sends([method |-> method])
    /\ UNCHANGED <<disk, buffer, events>>
Open(f) ==
    /\ f \in (Edited \intersect DOMAIN disk) \ DOMAIN buffer
    /\ Ready
    /\ buffer' = Put(buffer, f, disk[f])
    /\ queue' = Append(queue, [method |-> "didOpen", file |-> f])
    /\ UNCHANGED <<disk, events, s, shown, answer, budget>>
Edit(f, t) ==
    /\ f \in DOMAIN buffer
    /\ t # buffer[f]
    /\ buffer' = Put(buffer, f, t)
    /\ Sends([method |-> "didChange", file |-> f, text |-> t])
    /\ UNCHANGED <<disk, events>>
Save(f) ==
    /\ f \in DOMAIN buffer
    /\ disk' = Put(disk, f, buffer[f])
    /\ events' = events \union {[file |-> f, deleted |-> FALSE]}
    /\ Sends([method |-> "didSave", file |-> f])
    /\ UNCHANGED buffer
Shut(f) ==
    /\ f \in DOMAIN buffer
    /\ buffer' = Remove(buffer, f)
    /\ Sends([method |-> "didClose", file |-> f])
    /\ UNCHANGED <<disk, events>>
Ask ==
    /\ \E c \in Cursors, method \in {"definition", "highlight", "hover", "documentSymbol"} : Sends(("method" :> method) @@ c)
    /\ UNCHANGED <<disk, buffer, events>>
AskReferences ==
    /\ \E c \in Cursors, b \in BOOLEAN : Sends([method |-> "references", includeDeclaration |-> b] @@ c)
    /\ UNCHANGED <<disk, buffer, events>>
Look ==
    /\ \E q \in {x[2] : x \in Matches} : Sends([method |-> "workspaceSymbol", query |-> q])
    /\ UNCHANGED <<disk, buffer, events>>
AskRename ==
    /\ \E c \in Cursors, b \in BOOLEAN : Sends([method |-> "rename", valid |-> b] @@ c)
    /\ UNCHANGED <<disk, buffer, events>>
Watch ==
    /\ events # {}
    /\ events' = {}
    /\ Sends([method |-> "watched", changes |-> events])
    /\ UNCHANGED <<disk, buffer>>

(* Another program writes or deletes a file.                               *)
Terminal(f) ==
    /\ budget.changes > 0
    /\ budget' = [budget EXCEPT !.changes = @ - 1]
    /\ \/ /\ \E t \in Texts : disk' = Put(disk, f, t)
          /\ events' = {e \in events : e.file # f} \union {[file |-> f, deleted |-> FALSE]}
       \/ /\ f \in DOMAIN disk
          /\ disk' = Remove(disk, f)
          /\ events' = {e \in events : e.file # f} \union {[file |-> f, deleted |-> TRUE]}
    /\ UNCHANGED <<buffer, queue, s, shown, answer>>

Client ==
    \/ Start \/ Stop \/ Ask \/ AskReferences \/ Look \/ AskRename \/ Watch
    \/ \E f \in Files : Open(f) \/ Save(f) \/ Shut(f) \/ Terminal(f) \/ \E t \in Texts : Edit(f, t)

Next == Server \/ Client

Spec == Init /\ [][Next]_vars

----------------------------------------------------------------------------
(* Until it is shut down, and once it sees no need for an update, the tree *)
(* of the server is of the texts as                                        *)
(* they are: of every edit it was told of, and of the disk otherwise.      *)
TreeIsCurrent ==
    s.built /\ ~s.update /\ ~s.down =>
        \A f \in Files :
            \/ Untold(f)
            \/ f \notin DOMAIN s.tree \union DOMAIN disk
            \/ f \in DOMAIN s.tree \intersect DOMAIN disk /\ s.tree[f] = Now(s)[f]

(* What the texts say about a cursor, by the names alone.                  *)
Under(view, m) ==
    {t \in Tokens(view) : t.at.file = m.file /\ t.at.row = m.line + 1
                          /\ m.character \in (t.at.from - 1)..t.at.to}
Named(view, name) == {t \in Tokens(view) : t.name = name}

(* A rename, or a search for references, finds exactly the places that     *)
(* bear the name under the cursor, and a definition is one of them, in the *)
(* texts as the server was told of them when it answered: no position is   *)
(* of an older text.  The requests that do not wait for an update are      *)
(* answered from an older tree at most twice after an edit.                *)
AnswersAreCurrent ==
    /\ s.lag <= 2
    /\ answer.method \in {"rename", "references", "definition"} /\ answer.told =>
        LET view == answer.now
            hit == Under(view, answer.about) \ Unbound(view)
            named == UNION {Named(view, t.name) : t \in hit}
            defs == Ranges({t.at : t \in {x \in named : x.kind # "use"}})
            all == Ranges({t.at : t \in named})
        IN  /\ hit = {} => answer.result = {}
            /\ Cardinality(defs) = 1 =>
                  answer.result = CASE answer.method = "definition" -> defs
                                    [] answer.method = "rename" -> all
                                    [] answer.method = "references" ->
                                          IF answer.about.includeDeclaration THEN all ELSE all \ defs

(* The client shows the diagnostics of the tree, those of a file that has  *)
(* none any more included.  Two refreshes have their diagnostics lost:     *)
(* that of a timeout, and that of a rename that is refused.                *)
ShownMatches == s.built => \A f \in DOMAIN s.tree : shown[f] = Diagnostics(s.tree, f)
DiagnosticsAreSent == s.lost = "no" => ShownMatches

(* What a comment of timeout() says: the diagnostics of the refresh on a   *)
(* timeout are sent, if there are any.                                     *)
TimeoutSendsDiagnostics == s.lost = "timeout" => ShownMatches
=============================================================================
