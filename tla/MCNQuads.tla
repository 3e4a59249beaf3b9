------------------------------ MODULE MCNQuads ------------------------------
(***************************************************************************)
(* Small instances of NQuads for TLC.                                      *)
(***************************************************************************)
EXTENDS NQuads

a == Iri(<<97>>)
b == Blank(<<98>>)
\* Characters that are escaped: one as \u0001, one as \u003e.
Control == Iri(<<97, 1>>)
Bracket == Iri(<<97, Greater>>)

\* Each kind of node and of escape, both literals that are refused, an empty
\* line, comments over two lines and with a carriage return.
SomeCalls == {
    WriteQuad(Statement(a, a, b, None)),
    WriteQuad(Statement(b, a, String(<<Quote, Backslash, LF>>), None)),
    WriteQuad(Statement(a, a, String(<<Number, Dot>>), Control)),
    WriteQuad(Statement(Bracket, a, a, a)),
    WriteQuad(Statement(a, a, LocString(<<>>, <<101>>), None)),
    WriteQuad(Statement(a, a, TypedString(<<>>, <<97>>), a)),
    WriteComment(<<97, LF, 97>>),
    WriteComment(<<CR, Less>>),
    WriteComment(<<CR, 97>>),
    WriteEmptyLine}

=============================================================================
