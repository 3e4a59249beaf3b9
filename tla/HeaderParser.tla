---------------------------- MODULE HeaderParser ----------------------------
(***************************************************************************)
(* The grammar of Authorization headers (server/headerparse.peg), as the   *)
(* generated parser runs it: a rule tries its alternatives in order and    *)
(* takes the first that matches, without coming back to it.                *)
(*                                                                         *)
(* A header is a sequence of characters, where a word stands for a run of  *)
(* letters and digits and counts as one.  A rule takes the buffer and a    *)
(* position, and returns whether it matches, the position behind it, and   *)
(* val: the text of its <> or the actions Execute will run.                *)
(*                                                                         *)
(* The rules match characters, but Execute cuts the texts out of the bytes *)
(* of the header at the positions of characters: behind a character that   *)
(* is not ASCII, which has several bytes, texts are cut too early.         *)
(***************************************************************************)
EXTENDS Integers, Sequences, FiniteSetsExt, SequencesExt

CONSTANT Utf8 \* the bytes of each character that is not ASCII

No == [ok |-> FALSE, at |-> 0, val |-> <<>>]
Yes(at, val) == [ok |-> TRUE, at |-> at, val |-> val]

Is(b, i, c) == i <= Len(b) /\ b[i] = c

\* The end of the longest run of characters that are, or are not, in a set.
Until(b, i, chars) == Min({j \in i .. Len(b) : b[j] \in chars} \cup {Len(b) + 1})

Space == " "
Quote == "\""
Backslash == "\\"
Comma == ","

\* The characters that end a token, and a token68 (grave is the accent, which
\* a TLA+ string cannot hold).
Signs == {"\t", Space, Comma, ";", "=", Quote, Backslash, "/", ":", "?", "@",
          "(", ")", "<", ">", "[", "]", "{", "}"}
Separators == Signs \cup DOMAIN Utf8
Separators68 == (Separators \ {"/"}) \cup
                {"!", "#", "$", "%", "&", "'", "*", "^", "grave", "|"}

ASSUME Utf8Assumption ==
    /\ DOMAIN Utf8 \cap Signs = {}
    /\ \A c \in DOMAIN Utf8 : Utf8[c] \in Seq(STRING) /\ Len(Utf8[c]) > 1

Ascii(s) == Range(s) \cap DOMAIN Utf8 = {}

\* p.Buffer, where p.buffer holds the characters.
Bytes(b) ==
    IF Ascii(b) THEN b
    ELSE FlattenSeq([i \in DOMAIN b |-> IF b[i] \in DOMAIN Utf8 THEN Utf8[b[i]] ELSE <<b[i]>>])

\* A rule behind another one, the first of two that matches, and one that may
\* follow.
Then(r, F(_)) == IF r.ok THEN F(r) ELSE No
Either(r, s) == IF r.ok THEN r ELSE s
Maybe(r, s) == IF s.ok THEN Yes(s.at, r.val \o s.val) ELSE r

\* A text of at least one character: buffer[begin:end].
Text(b, i, e) == IF e = i THEN No ELSE Yes(e, SubSeq(Bytes(b), i, e - 1))

token(b, i) == Text(b, i, Until(b, i, Separators))

\* rule*, for a rule of one character of the set.
Skip(b, i, chars) ==
    Min({j \in i .. Len(b) : b[j] \notin chars} \cup {Len(b) + 1})

ws(b, i) == Skip(b, i, {Space, "\t"})

token68(b, i) ==
    Then(Text(b, i, Until(b, i, Separators68)),
         LAMBDA word : Text(b, i, Skip(b, word.at, {"="})))

\* ws+ is tried first: after a space the comma is not looked for.
ws_or_comma(b, i) ==
    IF ws(b, i) > i THEN Yes(ws(b, i), <<>>)
    ELSE IF Is(b, i, Comma) THEN Yes(ws(b, i + 1), <<>>) ELSE No

\* Mutant of quoted_string: a backslash is a character like the others.
QuotedVerbatim(b, i) ==
    LET e == Until(b, i + 1, {Quote})
    IN  IF ~Is(b, i, Quote) \/ e > Len(b) THEN No
        ELSE Yes(e + 1, SubSeq(Bytes(b), i + 1, e - 1))

\* A backslash stands for the character behind it.
quoted_string(b, i) ==
    LET rest[j \in 1 .. Len(b) + 1] ==
            IF j > Len(b) THEN No
            ELSE IF b[j] = Quote THEN Yes(j + 1, <<>>)
            ELSE LET k == IF b[j] = Backslash THEN j + 1 ELSE j
                     next == rest[k + 1]
                 IN  IF k > Len(b) \/ ~next.ok THEN No
                     ELSE Yes(next.at, <<Bytes(b)[k]>> \o next.val)
    IN  IF Is(b, i, Quote) THEN rest[i + 1] ELSE No

auth_param_val(b, i) == Either(quoted_string(b, i), token(b, i))

\* The actions: addAuthScheme(name), setParam(name, text), setB64Param(text).
Action(do, name, text) == <<[do |-> do, name |-> name, text |-> text]>>

auth_params(b, i) ==
    LET Value(key, eq) ==
            IF Is(b, eq, "=") THEN auth_param_val(b, ws(b, eq + 1)) ELSE No
        Param(key) ==
            Then(Value(key, ws(b, key.at)),
                 LAMBDA val : Yes(val.at, Action("param", key.val, val.val)))
        params[j \in 1 .. Len(b) + 1] ==
            Then(ws_or_comma(b, j), LAMBDA sep :
            Then(token(b, sep.at), LAMBDA key :
            Then(Param(key), LAMBDA param : Maybe(param, params[param.at]))))
    IN  params[i]

challenge_cred(b, i) ==
    LET Scheme(name) ==
            Then(auth_params(b, name.at), LAMBDA params :
                 Yes(params.at, Action("scheme", name.val, <<>>) \o params.val))
    IN  Either(Then(token(b, i), Scheme),
               Then(token68(b, i), LAMBDA text :
                    Yes(text.at, Action("base64", <<>>, text.val))))

\* At most two, and nothing behind them.
start(b) ==
    LET Second(first, comma) ==
            Maybe(first, IF Is(b, comma, Comma) THEN challenge_cred(b, ws(b, comma + 1)) ELSE No)
        End(last) == IF ws(b, last.at) > Len(b) THEN last ELSE No
    IN  Then(Then(challenge_cred(b, ws(b, 1)),
                  LAMBDA first : Second(first, ws(b, first.at))), End)

-----------------------------------------------------------------------------
AuthMethod(name) == [Name |-> name, Params |-> [k \in {} |-> <<>>]]

\* What Execute makes of the actions; a parameter goes to the last method,
\* and without one the index is -1 and the handler panics.
Panics(actions) == actions # <<>> /\ Head(actions).do = "base64"

setParam(methods, key, value) ==
    LET params == Last(methods).Params
        set == [k \in DOMAIN params \cup {key} |-> IF k = key THEN value ELSE params[k]]
    IN  Append(Front(methods), [Last(methods) EXCEPT !.Params = set])

Apply(methods, a) ==
    CASE a.do = "scheme" -> Append(methods, AuthMethod(a.name))
      [] a.do = "param"  -> setParam(methods, a.name, a.text)
      [] a.do = "base64" -> setParam(methods, <<"base64">>, a.text)

\* Execute of the actions of a header; none if it is no header.
Execute(actions) ==
    [panics |-> Panics(actions),
     methods |-> IF Panics(actions) THEN <<>> ELSE FoldLeft(Apply, <<>>, actions)]

Methods(b) == Execute(start(b).val).methods

=============================================================================
