------------------------------- MODULE NQuads -------------------------------
(***************************************************************************)
(* graphs.nq, the part of a bundle that tells what its files are: what the *)
(* N-Quads writer puts in it, call after call, and what the reader makes   *)
(* of the bytes that arrive, all of them or the first few.                 *)
(*                                                                         *)
(* A character is its code point, as the escapes compute with it; only     *)
(* ASCII is written.  Every operator named after a method of Reader takes  *)
(* the text t and a position, and returns the error, the value (None for   *)
(* nil) and the position behind what it has consumed.                      *)
(***************************************************************************)
EXTENDS Integers, Sequences, FiniteSets, FiniteSetsExt, SequencesExt

CONSTANTS
    Calls,     \* calls of the writer's methods
    MaxCalls,  \* bound: calls
    None

VARIABLES
    calls,      \* history: what the writer was called with
    text,       \* what it wrote
    end,        \* how much of the text the reader is given
    at,         \* where the reader is
    eofIsError,
    part,       \* the part of the statement to read next: write before
                \* the reader starts, stop when it has returned
    statement,  \* what readStatement has read of it
    got,        \* the statements returned
    result      \* why reading stopped: nil at the end, or an error

vars == <<calls, text, end, at, eofIsError, part, statement, got, result>>

-----------------------------------------------------------------------------
(* Characters *)

Tab == 9          LF == 10         CR == 13         Space == 32
Quote == 34       Number == 35     Dot == 46        Colon == 58
Less == 60        Greater == 62    At == 64         Backslash == 92
Caret == 94       Underscore == 95 Lower_u == 117   Upper_U == 85

Spaces == {Tab, LF, CR, Space}
EscapeIriChars == {Quote, Less, Greater, Backslash, Caret, 96, 123, 124, 125} \cup 0 .. 32
EscapeStringMoreChars == {Quote, 39, CR, LF, Backslash, Tab, 8, 12, 0}

\* The letter of a short escape: \b \t \n \f \r \" \' \\
Letters ==
    [c \in {8, Tab, LF, 12, CR, Quote, 39, Backslash} |->
        CASE c = 8  -> 98  [] c = Tab -> 116 [] c = LF -> 110
          [] c = 12 -> 102 [] c = CR  -> 114 [] OTHER  -> c]

-----------------------------------------------------------------------------
(* The writer *)

HexDigit(d) == IF d < 10 THEN 48 + d ELSE 87 + d

EscapeRune(r, charsToEscape) ==
    IF r \notin charsToEscape THEN <<r>>
    ELSE IF r \in DOMAIN Letters THEN <<Backslash, Letters[r]>>
    ELSE <<Backslash, Lower_u, 48, 48, HexDigit(r \div 16), HexDigit(r % 16)>>

\* A backslash is in both sets of charsToEscape.
Escape(s, charsToEscape) ==
    FlattenSeq([i \in DOMAIN s |-> EscapeRune(s[i], charsToEscape)])

Node(kind, chars, tag) == [kind |-> kind, chars |-> chars, tag |-> tag]
Iri(s) == Node("iri", s, <<>>)
Blank(s) == Node("blank", s, <<>>)
String(s) == Node("string", s, <<>>)
LocString(s, lang) == Node("lang", s, lang)
TypedString(s, typeIri) == Node("typed", s, typeIri)

EncodeString(s) == <<Quote>> \o Escape(s, EscapeStringMoreChars) \o <<Quote>>
EncodeIri(s) == <<Less>> \o Escape(s, EscapeIriChars) \o <<Greater>>

EncodeAny(n) ==
    CASE n.kind = "iri"    -> EncodeIri(n.chars)
      [] n.kind = "blank"  -> <<Underscore, Colon>> \o n.chars
      [] n.kind = "string" -> EncodeString(n.chars)
      [] n.kind = "lang"   -> EncodeString(n.chars) \o <<At>> \o n.tag
      [] n.kind = "typed"  ->
            EncodeString(n.chars) \o <<Caret, Caret>> \o EncodeIri(n.tag)

Statement(s, p, o, g) == [subject |-> s, predicate |-> p, object |-> o, graph |-> g]
NoStatement == Statement(None, None, None, None)

\* What there is to write.  Subjects are IRIs or blank nodes, predicates and
\* graphs are strings; only the reader makes blank nodes, whose names end
\* at a space.
Texts == Seq(0 .. 127)
Plain(kinds) == [kind : kinds, chars : Texts, tag : {<<>>}]
Resources ==
    {n \in Plain({"iri", "blank"}) :
        n.kind = "blank" => Range(n.chars) \cap Spaces = {}}
Objects == Resources \cup Plain({"string"}) \cup [kind : {"lang", "typed"}, chars : Texts, tag : Texts]
Statements ==
    [subject : Resources, predicate : Plain({"iri"}), object : Objects,
     graph : Plain({"iri"}) \cup {None}]

WriteQuad(st) == [kind |-> "statement", st |-> st, comment |-> <<>>]
WriteComment(s) == [kind |-> "comment", st |-> NoStatement, comment |-> s]
WriteEmptyLine == [kind |-> "empty", st |-> NoStatement, comment |-> <<>>]

ASSUME CallsAssumption ==
    Calls \subseteq [kind : {"statement"}, st : Statements, comment : {<<>>}]
                    \cup [kind : {"comment"}, st : {NoStatement}, comment : Texts]
                    \cup {WriteEmptyLine}
ASSUME MaxCallsAssumption == MaxCalls \in Nat
ASSUME NoneAssumption ==
    None \notin [kind : {"iri", "blank", "string", "lang", "typed"},
                chars : Seq(Nat), tag : Seq(Nat)]

\* Mutant of Comment: only the first line is one.
CommentOnce(s) == <<Number>> \o s \o <<LF>>

Comment(s) ==
    <<Number>>
    \o FlattenSeq([i \in DOMAIN s |-> IF s[i] = LF THEN <<LF, Number>> ELSE <<s[i]>>])
    \o <<LF>>

\* WriteQuad, or WriteTriple without a graph.
Quad(st) ==
    EncodeAny(st.subject) \o <<Space>> \o EncodeAny(st.predicate)
    \o <<Space>> \o EncodeAny(st.object)
    \o (IF st.graph = None THEN <<>> ELSE <<Space>> \o EncodeAny(st.graph))
    \o <<Space, Dot, LF>>

Line(c) ==
    CASE c.kind = "statement" -> Quad(c.st)
      [] c.kind = "comment"   -> Comment(c.comment)
      [] OTHER                -> <<LF>>

-----------------------------------------------------------------------------
(* The reader's methods *)

Read(val, pos) == [err |-> "nil", val |-> val, at |-> pos]
Fail(err) == [err |-> err, val |-> None, at |-> 0]
EOF == Fail("EOF")

\* The first position from i on with one of the characters, or past the end.
Find(t, i, chars) ==
    Min({j \in i .. Len(t) : t[j] \in chars} \cup {Len(t) + 1})

\* A comment lasts until the end of its line; past the end of t is EOF.
readSpaces(t, i) ==
    LET skip[j \in 1 .. Len(t) + 1] ==
            IF j > Len(t) THEN j
            ELSE IF t[j] = Number THEN skip[Find(t, j, {CR, LF})]
            ELSE IF t[j] \in Spaces THEN skip[j + 1]
            ELSE j
    IN  skip[i]

\* The test for A to F, c >= 'A' || c <= 'F', lets every byte pass.
HexValue(c) ==
    CASE c \in 48 .. 57  -> c - 48
      [] c \in 97 .. 102 -> c - 87
      [] OTHER           -> (c - 55) % 256

\* A rune made of four bytes; string() replaces what is no code point.
Rune(b3, b2, b1, b0) ==
    IF b3 > 0 \/ b2 > 16 \/ (b2 = 0 /\ b1 \in 216 .. 223) THEN 65533
    ELSE b2 * 65536 + b1 * 256 + b0

\* Every digit of \u and \U is shifted by a byte.
readEscapeSeq(t, i) ==
    IF i > Len(t) THEN EOF
    ELSE IF \E r \in DOMAIN Letters : Letters[r] = t[i]
    THEN Read(CHOOSE r \in DOMAIN Letters : Letters[r] = t[i], i + 1)
    ELSE IF t[i] \notin {Lower_u, Upper_U} THEN Fail("UnexpectedEscapeSequence")
    ELSE LET numDigits == IF t[i] = Lower_u THEN 4 ELSE 8
             last == i + numDigits
             h(k) == HexValue(t[last - k])
         IN  IF last > Len(t) THEN EOF
             ELSE IF \E k \in 4 .. numDigits - 1 : h(k) # 0
             THEN Fail("Unsupported64bitsRune")
             ELSE Read(Rune(h(3), h(2), h(1), h(0)), last + 1)

\* Mutant of readUntil: no character is special but the last one.
ReadUntilFirst(t, i, close) ==
    LET e == Find(t, i, {close})
    IN  IF e > Len(t) THEN EOF ELSE Read(SubSeq(t, i, e - 1), e + 1)

\* The loop of readIri and of readLiteral.
readUntil(t, i, close) ==
    LET rest[j \in 1 .. Len(t) + 1] ==
            IF j > Len(t) THEN EOF
            ELSE IF t[j] = close THEN Read(<<>>, j + 1)
            ELSE LET r == IF t[j] = Backslash THEN readEscapeSeq(t, j + 1)
                          ELSE Read(t[j], j + 1)
                     next == rest[r.at]
                 IN  IF r.err # "nil" THEN r
                     ELSE IF next.err # "nil" THEN next
                     ELSE Read(<<r.val>> \o next.val, next.at)
    IN  rest[i]

Map(r, Op(_)) == IF r.err = "nil" THEN Read(Op(r.val), r.at) ELSE r

readIri(t, i) ==
    LET j == readSpaces(t, i)
    IN  IF j > Len(t) THEN EOF
        ELSE IF t[j] # Less THEN Read(None, j)
        ELSE Map(readUntil(t, j + 1, Greater), Iri)

\* Peek(2) fails when a single byte is left; the name ends at a space only.
readBlank(t, i) ==
    LET j == readSpaces(t, i)
        e == Find(t, j + 2, Spaces)
    IN  IF j + 1 > Len(t) THEN EOF
        ELSE IF SubSeq(t, j, j + 1) # <<Underscore, Colon>> THEN Read(None, j)
        ELSE IF e > Len(t) THEN EOF
        ELSE Read(Blank(SubSeq(t, j + 2, e - 1)), e)

readSubject(t, i) ==
    LET iri == readIri(t, i)
    IN  IF iri.err # "nil" \/ iri.val # None THEN iri ELSE readBlank(t, iri.at)

\* What Peek has shown is still to be read: readIri finds the ^^ and the
\* language tag starts with the @.
readLiteral(t, i) ==
    LET j == readSpaces(t, i)
        content == readUntil(t, j + 1, Quote)
        k == readSpaces(t, content.at)
        type == readIri(t, k)
    IN  IF j > Len(t) THEN EOF
        ELSE IF t[j] # Quote THEN Read(None, j)
        ELSE IF content.err # "nil" THEN content
        ELSE IF k + 1 > Len(t) THEN EOF
        ELSE IF SubSeq(t, k, k + 1) = <<Caret, Caret>>
        THEN IF type.val = None THEN Fail("ExpectedLiteralType")
             ELSE Read(TypedString(content.val, type.val.chars), type.at)
        ELSE IF t[k] = At THEN Fail("InvalidCharacterInLanguageTag")
        ELSE Read(String(content.val), k)

readObject(t, i) ==
    LET node == readSubject(t, i)
    IN  IF node.err # "nil" \/ node.val # None THEN node ELSE readLiteral(t, node.at)

-----------------------------------------------------------------------------
Init ==
    /\ calls = <<>> /\ text = <<>> /\ end = 0
    /\ at = 1 /\ eofIsError = FALSE
    /\ part = "write"
    /\ statement = NoStatement
    /\ got = <<>> /\ result = "none"

readerVars == <<end, at, eofIsError, part, statement, got, result>>

Write(c) ==
    /\ part = "write" /\ Len(calls) < MaxCalls
    /\ calls' = Append(calls, c)
    /\ text' = text \o Line(c)
    /\ UNCHANGED readerVars

\* The reader is given the first n bytes of the text.
Open(n) ==
    /\ part = "write" /\ n <= Len(text)
    /\ end' = n /\ part' = "subject"
    /\ UNCHANGED <<calls, text, at, eofIsError, statement, got, result>>

given == SubSeq(text, 1, end)

\* Mutant of Stop: the end of the text is the end, wherever it is.
StopQuietly(err) ==
    /\ part' = "stop"
    /\ result' = IF err = "EOF" THEN "nil" ELSE err
    /\ UNCHANGED <<calls, text, end, at, eofIsError, statement, got>>

\* ReadStatement returns; its callers read no more after nil or an error.
Stop(err) ==
    /\ part' = "stop"
    /\ result' = IF err = "EOF" /\ ~eofIsError THEN "nil" ELSE err
    /\ UNCHANGED <<calls, text, end, at, eofIsError, statement, got>>

Keep(field, r, next) ==
    /\ statement' = [statement EXCEPT ![field] = r.val]
    /\ at' = r.at /\ part' = next
    /\ UNCHANGED <<calls, text, end, got, result>>

\* Mutant of ReadSubject: the end of the text stays no error.
ReadSubjectUnmarked ==
    /\ part = "subject"
    /\ LET r == readSubject(given, at)
       IN  IF r.err # "nil" THEN Stop(r.err)
           ELSE IF r.val = None THEN Stop("ExpectedStatement")
           ELSE Keep("subject", r, "predicate") /\ UNCHANGED eofIsError

\* eofIsError is already FALSE at the start of a statement.
ReadSubject ==
    /\ part = "subject"
    /\ LET r == readSubject(given, at)
       IN  IF r.err # "nil" THEN Stop(r.err)
           ELSE IF r.val = None THEN Stop("ExpectedStatement")
           ELSE Keep("subject", r, "predicate") /\ eofIsError' = TRUE

ReadPredicate ==
    /\ part = "predicate"
    /\ LET r == readIri(given, at)
       IN  IF r.err # "nil" THEN Stop(r.err)
           ELSE IF r.val = None THEN Stop("ExpectedPredicate")
           ELSE Keep("predicate", r, "object") /\ UNCHANGED eofIsError

ReadObject ==
    /\ part = "object"
    /\ LET r == readObject(given, at)
       IN  IF r.err # "nil" THEN Stop(r.err)
           ELSE IF r.val = None THEN Stop("ExpectedObject")
           ELSE Keep("object", r, "graph") /\ UNCHANGED eofIsError

\* The graph of a triple is nil.
ReadGraph ==
    /\ part = "graph"
    /\ LET r == readIri(given, at)
       IN  IF r.err # "nil" THEN Stop(r.err)
           ELSE Keep("graph", r, "dot") /\ UNCHANGED eofIsError

ReadDot ==
    /\ part = "dot"
    /\ LET j == readSpaces(given, at)
       IN  IF j > end THEN Stop("EOF")
           ELSE IF given[j] # Dot THEN Stop("ExpectedFinalDot")
           ELSE /\ got' = Append(got, statement)
                /\ at' = j + 1 /\ part' = "subject" /\ eofIsError' = FALSE
                /\ statement' = NoStatement
                /\ UNCHANGED <<calls, text, end, result>>

ReadStatement == ReadSubject \/ ReadPredicate \/ ReadObject \/ ReadGraph \/ ReadDot

Next ==
    \/ \E c \in Calls : Write(c)
    \/ \E n \in 0 .. Len(text) : Open(n)
    \/ ReadStatement

Spec == Init /\ [][Next]_vars

-----------------------------------------------------------------------------
(* Type correctness: the reader stays within the text it is given, and the *)
(* end of the text is an error exactly between a subject and its dot       *)
(* (nquads/reader.go:66-132).                                              *)
TypeOK ==
    /\ calls \in Seq(Calls) /\ Len(calls) <= MaxCalls
    /\ text = FlattenSeq([i \in DOMAIN calls |-> Line(calls[i])])
    /\ end \in 0 .. Len(text) /\ at \in 1 .. end + 1
    /\ part \in {"write", "subject", "predicate", "object", "graph", "dot", "stop"}
    /\ part # "stop" => eofIsError = (part \notin {"write", "subject"})
    /\ part = "stop" <=> result # "none"

\* The characters that are written \uXXXX and read back as they were.
Survives(n) ==
    \/ n.kind \in {"string", "blank"}
    \/ n.kind = "iri"
       /\ \A i \in DOMAIN n.chars :
             n.chars[i] \in EscapeIriChars \ DOMAIN Letters => n.chars[i] < 16

Nodes(st) == {st.subject, st.predicate, st.object, st.graph} \ {None}
Intact(st) == \A n \in Nodes(st) : Survives(n)
Readable(st) == st.object.kind \notin {"lang", "typed"}

IsStatement(c) == c.kind = "statement"
StatementsTo(i) == Cardinality({j \in 1 .. i : IsStatement(calls[j])})

\* The reader ends a comment at a carriage return, the writer does not.
OneLine(c) == CR \notin Range(c.comment)

(* What was written reads back as it was, each statement at its own place: *)
(* comments, escapes, spaces and neighbours whose characters are misread   *)
(* never merge two statements or turn one into another                     *)
(* (nquads/writer.go:22-65, turtle/escape.go:15-40, reader.go:66-413).     *)
ReadBack ==
    (\A i \in DOMAIN calls : OneLine(calls[i])) =>
        /\ Len(got) <= StatementsTo(Len(calls))
        /\ \A i \in DOMAIN calls :
              (/\ IsStatement(calls[i]) /\ Intact(calls[i].st)
               /\ StatementsTo(i) <= Len(got))
              => got[StatementsTo(i)] = calls[i].st

(* A text that arrives whole is read to its end, unless a literal in it    *)
(* has a type or a language or a comment a carriage return, which are the  *)
(* only things the writer writes and the reader refuses                    *)
(* (literals.go:73-79, reader.go:247-293, writer.go:22-25).                *)
WholeRead ==
    part = "stop" /\ end = Len(text) =>
        \/ result = "nil" /\ Len(got) = StatementsTo(Len(calls))
        \/ \E i \in DOMAIN calls :
              IF IsStatement(calls[i]) THEN ~Readable(calls[i].st) ELSE ~OneLine(calls[i])

\* How many bytes of the text come before call i.
Before(i) == Len(FlattenSeq([j \in 1 .. i - 1 |-> Line(calls[j])]))

(* A text that is cut, anywhere, and still ends without an error has lost  *)
(* no statement of which more than the subject had arrived: an import is   *)
(* never taken for complete with half a statement dropped.  A carriage     *)
(* return in a comment, the name of a file, may swallow what follows       *)
(* (reader.go:53-64, 69, 80, 129; bundle.go:192-194).                      *)
TruncationNoticed ==
    result = "nil" /\ (\A i \in DOMAIN calls : OneLine(calls[i])) =>
        \A i \in DOMAIN calls :
            (/\ IsStatement(calls[i])
             /\ end > Before(i) + Len(EncodeAny(calls[i].st.subject)))
            => StatementsTo(i) <= Len(got)

=============================================================================
