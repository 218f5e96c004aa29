--------------------------- MODULE MCLanguageServer ---------------------------
(***************************************************************************)
(* Two files and three texts: one that defines a name and documents it,    *)
(* one that uses the name, and one that does both a row lower, so that the *)
(* positions of an older text are wrong.                                   *)
(***************************************************************************)
EXTENDS LanguageServer

Token(name, kind, row, from, to) == [name |-> name, kind |-> kind, row |-> row, from |-> from, to |-> to]
Library == [package |-> "lib", comments |-> {1}, tokens |-> {Token("up", "global", 2, 5, 6)}]
App == [package |-> "app", comments |-> {},
        tokens |-> {Token("x", "local", 2, 5, 5), Token("up", "use", 2, 9, 10), Token("x", "use", 2, 12, 12)}]
Both == [package |-> "app", comments |-> {2}, tokens |-> {Token("up", "global", 3, 5, 6), Token("up", "use", 1, 9, 10)}]
MCTexts == {Library, App, Both}
MCDisks == {<<App, Library>>}
MCMatches == {<<"up", "u">>, <<"app", "p">>, <<"up", "p">>}
MCCursors ==
    {[file |-> 1, line |-> 1, character |-> 10],
     [file |-> 2, line |-> 1, character |-> 4]}
=============================================================================
