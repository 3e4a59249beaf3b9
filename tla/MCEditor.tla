------------------------------ MODULE MCEditor ------------------------------
(***************************************************************************)
(* Small instances of Editor for TLC: windows of one page, which have the  *)
(* same prefix.                                                            *)
(***************************************************************************)
EXTENDS Editor, TLC

CONSTANTS e1, e2, a, b, p1

SamePrefix == [e \in Editors |-> p1]
\* The windows are alike.
Alike == Permutations(Editors)

\* A window is opened with document a, or with a or without a document.
OnlyA == {a}
DocumentOrNone == {a, None}

\* Two windows as long as no document has been opened, one afterwards.
FewWithDocuments == [n \in 0 .. MaxOpens |-> IF n = 0 THEN 2 ELSE 1]

=============================================================================
