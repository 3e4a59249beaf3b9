------------------------------ MODULE MCBundle ------------------------------
(***************************************************************************)
(* Small instances of Bundle for TLC.                                      *)
(***************************************************************************)
EXTENDS Bundle, TLC

TreeFiles == {<<"x">>, <<"sub", "y">>, <<"sub", "a b">>, <<"100%">>}
TreeDirs == {<<>>, <<"sub", "">>}
TreeDisk == [f \in TreeFiles |-> IF f = <<"x">> THEN "h1" ELSE "h2"]

EscapedSpace == "a b" :> "a?b"

\* /, /edit/ and /edit
RootAndBelow == {<<"http://here", "">>, <<"http://here", "edit", "">>,
                 <<"http://here", "edit">>}

A == <<"x">>
B == <<"y">>
Statements_ == {
    Statement(A, "relativePath", <<>>, FALSE, None),
    Statement(A, "relativePath", <<"http://here", "edit", "..", "out">>, TRUE, None),
    Statement(B, "relativePath", <<"http://there", "edit", "x">>, TRUE, None),
    Statement(B, "relativePath", <<"/", "edit", "x">>, TRUE, None),
    Statement(B, "hash", Sha1("h1"), FALSE, None),
    Statement(A, "hash", Sha1("h1"), FALSE, A),
    Statement(A, "hash", Sha1("h2"), FALSE, A),
    Statement(A, "child", <<"..">>, FALSE, A),
    Statement(<<"_:", "n">>, "hash", <<"h1">>, TRUE, A),
    Statement(A, "hash", Sha1("h1"), FALSE, B)}

\* Pages outside and below the base, with content of their own.
OldPages == {<<"http://here", "out">>, <<"http://here", "edit", "">>,
             <<"http://here", "edit", "x">>, <<"http://there", "edit", "x">>}
OldQuads == {<<u, u, "hash", Sha1("h0")>> : u \in OldPages}

\* What TreeIsImported says of directories, it says of this one.
ASSUME TreeAssumption == OrdinaryTree

=============================================================================
