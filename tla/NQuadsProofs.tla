---------------------------- MODULE NQuadsProofs ----------------------------
(***************************************************************************)
(* Proofs about NQuads, for any calls of the writer, any number of them    *)
(* and any place where the text is cut: the reader stays within its text,  *)
(* finds each statement where the writer has put it and returns it, and    *)
(* knows whether the text was whole.                                       *)
(***************************************************************************)
EXTENDS NQuads, FiniteSetTheorems, SequenceTheorems, TLAPS

\* A set of naturals that is not empty has a least element.
LEMMA LeastNatural ==
    ASSUME NEW T \in SUBSET Nat, T # {}
    PROVE  \E n \in T : \A m \in T : n <= m
<1> DEFINE Below(n) == {k \in Nat : k < n}
           R == StrictSubsetOrdering(Nat)
           S == FiniteSubsetsOf(Nat)
           U == {Below(n) : n \in T}
<1>1. IsWellFoundedOn(R, S)
    BY FS_StrictSubsetOrderingWellFounded
<1>2. ASSUME NEW n \in Nat
      PROVE  Below(n) \in S
    <2>1. Below(n) \subseteq 0 .. n
        OBVIOUS
    <2>2. IsFiniteSet(0 .. n)
        BY FS_Interval
    <2> QED
        BY <2>1, <2>2, FS_Subset DEF FiniteSubsetsOf
<1>3. U \subseteq S /\ U # {}
    BY <1>2
<1>4. \E x \in U : \A y \in U : ~(<<y, x>> \in R)
    <2> HIDE DEF R, S, U
    <2> QED
        BY <1>1, <1>3, WFMin
<1>5. PICK n \in T : \A m \in T : ~(<<Below(m), Below(n)>> \in R)
    BY <1>4
<1>6. ASSUME NEW m \in T, m < n
      PROVE  FALSE
    <2>1. m \in Nat /\ n \in Nat
        OBVIOUS
    <2>2. m \in Below(n) /\ m \notin Below(m)
        BY <1>6, <2>1
    <2>3. \A k \in Below(m) : k \in Below(n)
        BY <1>6, <2>1
    <2>4. Below(m) \subseteq Below(n) /\ Below(m) # Below(n)
        BY <2>2, <2>3
    <2>5. Below(m) \subseteq Nat /\ Below(n) \subseteq Nat
        OBVIOUS
    <2>6. <<Below(m), Below(n)>> \in R
        BY <2>4, <2>5 DEF StrictSubsetOrdering
    <2> QED
        BY <2>6, <1>5
<1> QED
    BY <1>5, <1>6


(* Loops towards the end of a text.  What there is to say of a position    *)
(* follows from what there is to say of those behind it.                   *)

LooksBehind(F, N, S) ==
    \A j \in 1 .. N : \A g, h \in [1 .. N -> S] :
       (\A k \in 1 .. N : j < k => g[k] = h[k]) => F[<<j, g>>] = F[<<j, h>>]

Unfolds(f, F, N) == \A j \in 1 .. N : f[j] = F[<<j, f>>]

LEMMA Backwards ==
    ASSUME NEW N \in Nat, NEW S, NEW s0 \in S,
           NEW F \in [(1 .. N) \X [1 .. N -> S] -> S], LooksBehind(F, N, S)
    PROVE  \E f \in [1 .. N -> S] : Unfolds(f, F, N)
<1> DEFINE Has(k) == \E f \in [1 .. N -> S] :
                        \A j \in 1 .. N : N - k < j => f[j] = F[<<j, f>>]
           X == {k \in 0 .. N : ~Has(k)}
<1>1. ASSUME NEW k \in X, \A m \in X : k <= m
      PROVE  FALSE
    <2>1. k \in 0 .. N /\ k \in Nat /\ ~Has(k)
        <3> HIDE DEF Has
        <3> QED
            OBVIOUS
    <2>2. CASE k = 0
        <3> DEFINE f == [n \in 1 .. N |-> s0]
        <3>1. f \in [1 .. N -> S] /\ \A j \in 1 .. N : ~(N - k < j)
            BY <2>2
        <3> HIDE DEF f
        <3> QED
            BY <2>1, <3>1
    <2>3. CASE k > 0
        <3>1. PICK m \in 0 .. N : m = k - 1 /\ ~(k <= m)
            BY <2>1, <2>3
        <3>2. Has(m)
            <4> HIDE DEF Has
            <4> QED
                BY <1>1, <3>1
        <3>3. PICK f \in [1 .. N -> S] : \A j \in 1 .. N : N - m < j => f[j] = F[<<j, f>>]
            BY <3>2
        <3>4. PICK i \in 1 .. N : i = N - m
            BY <2>1, <3>1
        <3>5. F[<<i, f>>] \in S
            OBVIOUS
        <3> DEFINE g == [f EXCEPT ![i] = F[<<i, f>>]]
        <3>6. g \in [1 .. N -> S] /\ g[i] = F[<<i, f>>] /\ \A j \in 1 .. N : j # i => g[j] = f[j]
            BY <3>5
        <3> HIDE DEF g
        <3>7. ASSUME NEW j \in 1 .. N, N - k < j
              PROVE  g[j] = F[<<j, g>>]
            <4>1. j >= i
                BY <2>1, <3>1, <3>4, <3>7
            <4>2. \A n \in 1 .. N : j < n => f[n] = g[n]
                BY <3>4, <3>6, <4>1
            <4>3. F[<<j, f>>] = F[<<j, g>>]
                BY <3>6, <4>2 DEF LooksBehind
            <4>4. CASE j = i
                BY <3>6, <4>3, <4>4
            <4>5. CASE j # i
                <5>1. N - m < j
                    BY <3>4, <4>1, <4>5
                <5> QED
                    BY <3>3, <3>6, <4>3, <4>5, <5>1
            <4> QED
                BY <4>4, <4>5
        <3> QED
            BY <2>1, <3>6, <3>7
    <2> QED
        BY <2>1, <2>2, <2>3
<1>2. X = {}
    <2>1. X \in SUBSET Nat
        OBVIOUS
    <2> HIDE DEF X
    <2> QED
        BY <1>1, <2>1, LeastNatural
<1> HIDE DEF Has
<1>3. Has(N)
    BY <1>2
<1>4. PICK f \in [1 .. N -> S] : \A j \in 1 .. N : N - N < j => f[j] = F[<<j, f>>]
    BY <1>3 DEF Has
<1> QED
    BY <1>4 DEF Unfolds

\* Find returns the first such position, or the one past the end.
LEMMA Found ==
    ASSUME NEW t \in Seq(Nat), NEW i \in 1 .. Len(t) + 1, NEW C
    PROVE  /\ Find(t, i, C) \in i .. Len(t) + 1
           /\ Find(t, i, C) <= Len(t) => t[Find(t, i, C)] \in C
           /\ \A k \in i .. Find(t, i, C) - 1 : t[k] \notin C
<1> DEFINE T == {j \in i .. Len(t) : t[j] \in C} \cup {Len(t) + 1}
<1>1. T \in SUBSET Nat /\ T # {} /\ Len(t) \in Nat
    OBVIOUS
<1>2. \E n \in T : \A m \in T : n <= m
    <2> HIDE DEF T
    <2> QED
        BY <1>1, LeastNatural
<1>3. Find(t, i, C) \in T /\ \A m \in T : Find(t, i, C) <= m
    <2> HIDE DEF T
    <2>1. \E n \in T : \A m \in T : n =< m
        BY <1>2
    <2>2. Find(t, i, C) = CHOOSE n \in T : \A m \in T : n =< m
        BY DEF Find, Min, T
    <2> QED
        BY <2>1, <2>2
<1> DEFINE e == Find(t, i, C)
<1>4. e \in i .. Len(t) + 1 /\ (e <= Len(t) => t[e] \in C)
    <2> HIDE DEF e
    <2> QED
        BY <1>1, <1>3 DEF e
<1>5. ASSUME NEW k \in i .. e - 1
      PROVE  t[k] \notin C
    <2>1. k \in i .. Len(t) /\ ~(e <= k)
        <3> HIDE DEF e
        <3> QED
            BY <1>1, <1>4
    <2> QED
        BY <1>3, <2>1
<1> QED
    BY <1>4, <1>5

-----------------------------------------------------------------------------
(* Spaces and comments *)

LEMMA SpacesIs ==
    ASSUME NEW t \in Seq(Nat), NEW i \in 1 .. Len(t) + 1
    PROVE  /\ i > Len(t) => readSpaces(t, i) = i
           /\ i <= Len(t) /\ t[i] = Number
                 => readSpaces(t, i) = readSpaces(t, Find(t, i, {CR, LF}))
           /\ i <= Len(t) /\ t[i] \in Spaces => readSpaces(t, i) = readSpaces(t, i + 1)
           /\ i <= Len(t) /\ t[i] \notin Spaces \cup {Number} => readSpaces(t, i) = i
<1> DEFINE N == Len(t) + 1
           Row(f, j) ==
               IF j > Len(t) THEN j
               ELSE IF t[j] = Number THEN f[Find(t, j, {CR, LF})]
               ELSE IF t[j] \in Spaces THEN f[j + 1]
               ELSE j
           S == 1 .. N
           F == [x \in (1 .. N) \X [1 .. N -> S] |-> Row(x[2], x[1])]
           skip == CHOOSE f : f = [j \in 1 .. N |-> Row(f, j)]
<1>0. N \in Nat /\ Len(t) \in Nat /\ 1 \in S
    OBVIOUS
<1>1. \A j \in 1 .. N : readSpaces(t, j) = skip[j]
    BY Zenon DEF readSpaces
<1>2. ASSUME NEW j \in 1 .. N, j <= Len(t), t[j] = Number
      PROVE  Find(t, j, {CR, LF}) \in 1 .. N /\ j < Find(t, j, {CR, LF})
    <2>1. /\ Find(t, j, {CR, LF}) \in j .. Len(t) + 1
          /\ Find(t, j, {CR, LF}) <= Len(t) => t[Find(t, j, {CR, LF})] \in {CR, LF}
        BY Found
    <2> QED
        BY <1>2, <2>1 DEF Number, CR, LF
<1>3. ASSUME NEW j \in 1 .. N, NEW g \in [1 .. N -> S]
      PROVE  Row(g, j) \in S
    <2>1. CASE j > Len(t)
        BY <2>1
    <2>2. CASE j <= Len(t)
        <3>1. g[j + 1] \in S /\ j \in S
            BY <1>0, <2>2
        <3>2. t[j] = Number => g[Find(t, j, {CR, LF})] \in S
            BY <1>2, <2>2
        <3> HIDE DEF S
        <3> QED
            BY <3>1, <3>2
    <2> QED
        BY <1>0, <2>1, <2>2
<1>4. F \in [(1 .. N) \X [1 .. N -> S] -> S]
    BY <1>3
<1>5. \A j \in 1 .. N : \A g \in [1 .. N -> S] : F[<<j, g>>] = Row(g, j)
    OBVIOUS
<1>6. ASSUME NEW j \in 1 .. N, NEW g \in [1 .. N -> S], NEW h \in [1 .. N -> S],
             \A k \in 1 .. N : j < k => g[k] = h[k]
      PROVE  Row(g, j) = Row(h, j)
    <2>1. CASE j > Len(t)
        BY <2>1
    <2>2. CASE j <= Len(t)
        <3>1. j + 1 \in 1 .. N /\ j < j + 1
            BY <1>0, <2>2
        <3>2. g[j + 1] = h[j + 1]
            BY <1>6, <3>1
        <3>3. t[j] = Number => g[Find(t, j, {CR, LF})] = h[Find(t, j, {CR, LF})]
            BY <1>2, <1>6, <2>2
        <3> QED
            BY <3>2, <3>3
    <2> QED
        BY <1>0, <2>1, <2>2
<1>7. LooksBehind(F, N, S)
    <2> HIDE DEF F, Row, S
    <2> SUFFICES ASSUME NEW j \in 1 .. N, NEW g \in [1 .. N -> S], NEW h \in [1 .. N -> S],
                        \A k \in 1 .. N : j < k => g[k] = h[k]
                 PROVE  F[<<j, g>>] = F[<<j, h>>]
        BY DEF LooksBehind
    <2>1. Row(g, j) = Row(h, j)
        BY <1>6
    <2>2. F[<<j, g>>] = Row(g, j) /\ F[<<j, h>>] = Row(h, j)
        BY <1>5
    <2> QED
        BY <2>1, <2>2
<1>8. PICK f \in [1 .. N -> S] : \A j \in 1 .. N : f[j] = Row(f, j)
    <2> HIDE DEF F, Row, S, N
    <2>1. \E f \in [1 .. N -> S] : Unfolds(f, F, N)
        BY <1>0, <1>4, <1>7, Backwards
    <2> QED
        BY <1>5, <2>1 DEF Unfolds
<1> HIDE DEF Row, S
<1>9. f = [j \in 1 .. N |-> Row(f, j)]
    BY <1>8
<1>10. skip = [j \in 1 .. N |-> Row(skip, j)]
    BY <1>9
<1> HIDE DEF skip
<1>11. \A j \in 1 .. N : readSpaces(t, j) = Row(skip, j)
    BY <1>1, <1>10
<1>12. CASE i > Len(t)
    BY <1>11, <1>12 DEF Row
<1>13. CASE i <= Len(t)
    <2>1. i + 1 \in 1 .. N /\ (t[i] = Number => Find(t, i, {CR, LF}) \in 1 .. N)
        <3>1. i + 1 \in 1 .. N
            BY <1>0, <1>13
        <3> QED
            BY <1>2, <1>13, <3>1
    <2>2. /\ readSpaces(t, i + 1) = skip[i + 1]
          /\ t[i] = Number => readSpaces(t, Find(t, i, {CR, LF})) = skip[Find(t, i, {CR, LF})]
        BY <1>1, <2>1
    <2>3. readSpaces(t, i) = Row(skip, i)
        BY <1>11
    <2>4. Number \notin Spaces
        BY DEF Number, Spaces, Tab, LF, CR, Space
    <2> QED
        BY <1>0, <1>13, <2>2, <2>3, <2>4 DEF Row
<1> QED
    BY <1>0, <1>12, <1>13

\* What it returns is the place of something to read, or the end.
LEMMA SpacesEnd ==
    ASSUME NEW t \in Seq(Nat), NEW i \in 1 .. Len(t) + 1
    PROVE  /\ readSpaces(t, i) \in i .. Len(t) + 1
           /\ readSpaces(t, i) <= Len(t) => t[readSpaces(t, i)] \notin Spaces \cup {Number}
<1> DEFINE N == Len(t)
           Ends(j) == /\ readSpaces(t, j) \in j .. N + 1
                      /\ readSpaces(t, j) <= N => t[readSpaces(t, j)] \notin Spaces \cup {Number}
           X == {k \in 0 .. N : ~Ends(N + 1 - k)}
<1>0. N \in Nat
    OBVIOUS
<1>1. ASSUME NEW k \in X, \A m \in X : k <= m
      PROVE  FALSE
    <2>1. PICK j \in 1 .. N + 1 : j = N + 1 - k /\ ~Ends(j)
        BY <1>0
    <2>2. ASSUME NEW n \in 1 .. N + 1, j < n
          PROVE  Ends(n)
        <3>1. N + 1 - n \in 0 .. N /\ ~(k <= N + 1 - n) /\ N + 1 - (N + 1 - n) = n
            BY <1>0, <2>1, <2>2
        <3> HIDE DEF Ends
        <3> QED
            BY <1>1, <3>1
    <2>3. CASE j > N
        BY <1>0, <2>1, <2>3, SpacesIs
    <2>4. CASE j <= N /\ t[j] = Number
        <3>1. Find(t, j, {CR, LF}) \in 1 .. N + 1 /\ j < Find(t, j, {CR, LF})
            BY SMTT(30), <2>4, Found DEF Number, CR, LF
        <3>2. readSpaces(t, j) = readSpaces(t, Find(t, j, {CR, LF}))
            BY <2>4, SpacesIs
        <3>3. Ends(Find(t, j, {CR, LF}))
            BY <2>2, <3>1
        <3> QED
            BY <1>0, <2>1, <3>1, <3>2, <3>3
    <2>5. CASE j <= N /\ t[j] \in Spaces
        <3>1. j + 1 \in 1 .. N + 1 /\ j < j + 1
            BY <1>0, <2>5
        <3>2. readSpaces(t, j) = readSpaces(t, j + 1)
            BY <2>5, SpacesIs
        <3>3. Ends(j + 1)
            BY <2>2, <3>1
        <3> QED
            BY <1>0, <2>1, <3>1, <3>2, <3>3
    <2>6. CASE j <= N /\ t[j] \notin Spaces \cup {Number}
        <3>1. readSpaces(t, j) = j
            BY <2>6, SpacesIs
        <3> QED
            BY <1>0, <2>1, <2>6, <3>1
    <2> QED
        BY <1>0, <2>1, <2>3, <2>4, <2>5, <2>6
<1>2. X = {}
    <2>1. X \in SUBSET Nat
        OBVIOUS
    <2> HIDE DEF X
    <2> QED
        BY <1>1, <2>1, LeastNatural
<1>3. N + 1 - i \in 0 .. N /\ N + 1 - (N + 1 - i) = i
    BY <1>0
<1> HIDE DEF Ends
<1>4. Ends(i)
    BY <1>2, <1>3
<1> QED
    BY <1>4 DEF Ends

\* Where there is something to read no space is read.
LEMMA SpacesTwice ==
    ASSUME NEW t \in Seq(Nat), NEW i \in 1 .. Len(t) + 1
    PROVE  readSpaces(t, readSpaces(t, i)) = readSpaces(t, i)
<1>1. /\ readSpaces(t, i) \in 1 .. Len(t) + 1
      /\ readSpaces(t, i) <= Len(t) => t[readSpaces(t, i)] \notin Spaces \cup {Number}
    BY SpacesEnd
<1> DEFINE j == readSpaces(t, i)
<1> HIDE DEF j
<1> QED
    BY <1>1, SpacesIs DEF j

-----------------------------------------------------------------------------
(* What the methods return: an error, or a value and a position that is    *)
(* not before i and not past the end.                                      *)

Errors == {"EOF", "UnexpectedEscapeSequence", "Unsupported64bitsRune",
           "ExpectedLiteralType", "InvalidCharacterInLanguageTag"}

Results(V, t, i) ==
    {Fail(e) : e \in Errors} \cup {Read(x[1], x[2]) : x \in V \X (i .. Len(t) + 1)}

LEMMA ResultIs ==
    ASSUME NEW V, NEW t, NEW i, NEW r \in Results(V, t, i)
    PROVE  /\ r.err # "nil" => r.err \in Errors /\ r = Fail(r.err)
           /\ r.err = "nil" => r.val \in V /\ r.at \in i .. Len(t) + 1 /\ r = Read(r.val, r.at)
           /\ r.err \in Errors \cup {"nil"}
<1>1. CASE r \in {Fail(e) : e \in Errors}
    <2>1. PICK e \in Errors : r = Fail(e)
        BY <1>1
    <2> QED
        BY <2>1 DEF Fail, Errors
<1>2. CASE r \in {Read(x[1], x[2]) : x \in V \X (i .. Len(t) + 1)}
    <2>1. PICK x \in V \X (i .. Len(t) + 1) : r = Read(x[1], x[2])
        BY <1>2
    <2> QED
        BY <2>1 DEF Read
<1> QED
    BY <1>1, <1>2 DEF Results

LEMMA ResultMade ==
    ASSUME NEW V, NEW t, NEW i
    PROVE  /\ \A e \in Errors : Fail(e) \in Results(V, t, i)
           /\ EOF \in Results(V, t, i)
           /\ \A v \in V : \A j \in i .. Len(t) + 1 : Read(v, j) \in Results(V, t, i)
<1>1. ASSUME NEW v \in V, NEW j \in i .. Len(t) + 1
      PROVE  Read(v, j) \in Results(V, t, i)
    <2>1. <<v, j>> \in V \X (i .. Len(t) + 1) /\ <<v, j>>[1] = v /\ <<v, j>>[2] = j
        OBVIOUS
    <2> QED
        BY <2>1 DEF Results
<1> QED
    BY <1>1 DEF Results, Errors, EOF

-----------------------------------------------------------------------------
(* Escapes *)

LEMMA LettersAre ==
    /\ DOMAIN Letters = {8, 9, 10, 12, 13, 34, 39, 92}
    /\ Letters[8] = 98 /\ Letters[9] = 116 /\ Letters[10] = 110 /\ Letters[12] = 102
    /\ Letters[13] = 114 /\ Letters[34] = 34 /\ Letters[39] = 39 /\ Letters[92] = 92
BY DEF Letters, Tab, LF, CR, Quote, Backslash

LEMMA HexTyped ==
    ASSUME NEW c \in Nat
    PROVE  HexValue(c) \in Nat
BY DEF HexValue

LEMMA RuneTyped ==
    ASSUME NEW a \in Nat, NEW b \in Nat, NEW c \in Nat, NEW d \in Nat
    PROVE  Rune(a, b, c, d) \in Nat
BY DEF Rune

LEMMA EscapeEnd ==
    ASSUME NEW t \in Seq(Nat), NEW i \in 1 .. Len(t) + 1
    PROVE  readEscapeSeq(t, i) \in Results(Nat, t, i + 1)
<1> DEFINE R == Results(Nat, t, i + 1)
           numDigits == IF t[i] = Lower_u THEN 4 ELSE 8
           last == i + numDigits
           h(k) == HexValue(t[last - k])
           Letter == CHOOSE r \in DOMAIN Letters : Letters[r] = t[i]
<1>0. Len(t) \in Nat
    OBVIOUS
<1>1. EOF \in R /\ \A e \in Errors : Fail(e) \in R
    BY ResultMade
<1>2. ASSUME i <= Len(t), \E r \in DOMAIN Letters : Letters[r] = t[i]
      PROVE  Read(Letter, i + 1) \in R
    <2>1. Letter \in DOMAIN Letters
        BY <1>2
    <2> HIDE DEF Letter
    <2>2. Letter \in Nat
        BY <2>1, LettersAre
    <2>3. i + 1 \in i + 1 .. Len(t) + 1
        BY <1>0, <1>2
    <2> QED
        BY <2>2, <2>3, ResultMade
<1>3. ASSUME last <= Len(t)
      PROVE  Read(Rune(h(3), h(2), h(1), h(0)), last + 1) \in R
    <2>0. last = i + 4 \/ last = i + 8
        OBVIOUS
    <2>1. \A k \in 0 .. 3 : last - k \in 1 .. Len(t)
        <3> HIDE DEF last
        <3> QED
            BY SMTT(30), <1>0, <1>3, <2>0
    <2>2. ASSUME NEW k \in 0 .. 3
          PROVE  h(k) \in Nat
        <3>1. last - k \in 1 .. Len(t)
            BY <2>1
        <3> HIDE DEF last
        <3>2. t[last - k] \in Nat
            BY <3>1, ElementOfSeq
        <3> QED
            BY <3>2, HexTyped
    <2> HIDE DEF h
    <2>3. h(3) \in Nat /\ h(2) \in Nat /\ h(1) \in Nat /\ h(0) \in Nat
        BY <2>2
    <2>4. Rune(h(3), h(2), h(1), h(0)) \in Nat
        BY <2>3, RuneTyped
    <2>5. last + 1 \in i + 1 .. Len(t) + 1
        BY <1>0, <1>3
    <2> HIDE DEF last
    <2> QED
        BY <2>4, <2>5, ResultMade
<1>4. readEscapeSeq(t, i) =
         IF i > Len(t) THEN EOF
         ELSE IF \E r \in DOMAIN Letters : Letters[r] = t[i] THEN Read(Letter, i + 1)
         ELSE IF t[i] \notin {Lower_u, Upper_U} THEN Fail("UnexpectedEscapeSequence")
         ELSE IF last > Len(t) THEN EOF
         ELSE IF \E k \in 4 .. numDigits - 1 : h(k) # 0 THEN Fail("Unsupported64bitsRune")
         ELSE Read(Rune(h(3), h(2), h(1), h(0)), last + 1)
    BY Zenon DEF readEscapeSeq
<1>5. "UnexpectedEscapeSequence" \in Errors /\ "Unsupported64bitsRune" \in Errors
    BY DEF Errors
<1> HIDE DEF R, Letter
<1>6. i <= Len(t) \/ i > Len(t)
    BY <1>0
<1>7. last \in Nat /\ (last <= Len(t) \/ last > Len(t))
    BY <1>0
<1> HIDE DEF last, h, numDigits
<1> QED
    BY <1>1, <1>2, <1>3, <1>4, <1>5, <1>6, <1>7 DEF R

-----------------------------------------------------------------------------
(* The loop of readIri and of readLiteral *)

\* One character, escaped or not, and what follows from it and the rest.
ReadChar(t, i) ==
    IF t[i] = Backslash THEN readEscapeSeq(t, i + 1) ELSE Read(t[i], i + 1)

Joined(r, next) ==
    IF r.err # "nil" THEN r
    ELSE IF next.err # "nil" THEN next
    ELSE Read(<<r.val>> \o next.val, next.at)

LEMMA CharEnd ==
    ASSUME NEW t \in Seq(Nat), NEW i \in 1 .. Len(t)
    PROVE  ReadChar(t, i) \in Results(Nat, t, i + 1)
<1>0. Len(t) \in Nat
    OBVIOUS
<1>1. CASE t[i] = Backslash
    <2>1. i + 1 \in 1 .. Len(t) + 1
        BY <1>0
    <2>2. readEscapeSeq(t, i + 1) \in Results(Nat, t, i + 1 + 1)
        BY <2>1, EscapeEnd
    <2>3. Results(Nat, t, i + 1 + 1) \subseteq Results(Nat, t, i + 1)
        <3>1. i + 1 + 1 .. Len(t) + 1 \subseteq i + 1 .. Len(t) + 1
            BY <1>0
        <3> QED
            BY <3>1 DEF Results
    <2> QED
        BY <1>1, <2>2, <2>3 DEF ReadChar
<1>2. CASE t[i] # Backslash
    <2>1. t[i] \in Nat /\ i + 1 \in i + 1 .. Len(t) + 1
        BY <1>0
    <2> QED
        BY <1>2, <2>1, ResultMade DEF ReadChar
<1> QED
    BY <1>1, <1>2

LEMMA JoinedEnd ==
    ASSUME NEW t \in Seq(Nat), NEW i, NEW r \in Results(Nat, t, i),
           NEW j, NEW next, r.err = "nil" => next \in Results(Seq(Nat), t, j)
    PROVE  Joined(r, next) \in Results(Seq(Nat), t, j)
<1>1. CASE r.err # "nil"
    BY <1>1, ResultIs, ResultMade DEF Joined
<1>2. CASE r.err = "nil" /\ next.err # "nil"
    BY <1>2 DEF Joined
<1>3. CASE r.err = "nil" /\ next.err = "nil"
    <2>1. r.val \in Nat /\ next.val \in Seq(Nat) /\ next.at \in j .. Len(t) + 1
        BY <1>3, ResultIs
    <2>2. <<r.val>> \o next.val \in Seq(Nat)
        BY <2>1
    <2> QED
        BY <1>3, <2>1, <2>2, ResultMade DEF Joined
<1> QED
    BY <1>1, <1>2, <1>3

LEMMA UntilIs ==
    ASSUME NEW t \in Seq(Nat), NEW i \in 1 .. Len(t) + 1, NEW close
    PROVE  /\ i > Len(t) => readUntil(t, i, close) = EOF
           /\ i <= Len(t) /\ t[i] = close => readUntil(t, i, close) = Read(<<>>, i + 1)
           /\ i <= Len(t) /\ t[i] # close =>
                 readUntil(t, i, close) =
                    Joined(ReadChar(t, i), readUntil(t, ReadChar(t, i).at, close))
<1> DEFINE N == Len(t) + 1
           Row(f, j) ==
               IF j > Len(t) THEN EOF
               ELSE IF t[j] = close THEN Read(<<>>, j + 1)
               ELSE Joined(ReadChar(t, j), f[ReadChar(t, j).at])
           S == Results(Seq(Nat), t, 1)
           F == [x \in (1 .. N) \X [1 .. N -> S] |-> Row(x[2], x[1])]
           rest == CHOOSE f : f = [j \in 1 .. N |-> Row(f, j)]
<1>0. N \in Nat /\ Len(t) \in Nat /\ EOF \in S
    BY ResultMade
<1>1. \A j \in 1 .. N : readUntil(t, j, close) = rest[j]
    BY Zenon DEF readUntil, Joined, ReadChar
<1>2. ASSUME NEW j \in 1 .. N, j <= Len(t)
      PROVE  /\ ReadChar(t, j) \in Results(Nat, t, j + 1)
             /\ ReadChar(t, j).err = "nil" => ReadChar(t, j).at \in 1 .. N /\ j < ReadChar(t, j).at
    <2>1. j \in 1 .. Len(t)
        BY <1>0, <1>2
    <2>2. ReadChar(t, j) \in Results(Nat, t, j + 1)
        BY <2>1, CharEnd
    <2>3. ReadChar(t, j).err = "nil" => ReadChar(t, j).at \in j + 1 .. Len(t) + 1
        BY <2>2, ResultIs
    <2> QED
        BY <1>0, <2>2, <2>3
<1>3. ASSUME NEW j \in 1 .. N, NEW g \in [1 .. N -> S]
      PROVE  Row(g, j) \in S
    <2>1. CASE j > Len(t)
        BY <1>0, <2>1
    <2>2. CASE j <= Len(t) /\ t[j] = close
        <3>1. j + 1 \in 1 .. Len(t) + 1 /\ << >> \in Seq(Nat)
            BY <1>0, <2>2
        <3>2. Read(<<>>, j + 1) \in S
            BY <3>1, ResultMade
        <3>3. ~(j > Len(t))
            BY <1>0, <2>2
        <3> QED
            BY <2>2, <3>2, <3>3
    <2>3. CASE j <= Len(t) /\ t[j] # close
        <3>1. ReadChar(t, j).err = "nil" => g[ReadChar(t, j).at] \in S
            BY <1>2, <2>3
        <3>2. Joined(ReadChar(t, j), g[ReadChar(t, j).at]) \in S
            BY <1>2, <2>3, <3>1, JoinedEnd
        <3>3. ~(j > Len(t))
            BY <1>0, <2>3
        <3> QED
            BY <2>3, <3>2, <3>3
    <2> QED
        BY <1>0, <2>1, <2>2, <2>3
<1>4. F \in [(1 .. N) \X [1 .. N -> S] -> S]
    BY <1>3
<1>5. \A j \in 1 .. N : \A g \in [1 .. N -> S] : F[<<j, g>>] = Row(g, j)
    OBVIOUS
<1>6. ASSUME NEW j \in 1 .. N, NEW g \in [1 .. N -> S], NEW h \in [1 .. N -> S],
             \A k \in 1 .. N : j < k => g[k] = h[k]
      PROVE  Row(g, j) = Row(h, j)
    <2>1. CASE j > Len(t)
        BY <2>1
    <2>2. CASE j <= Len(t)
        <3>1. ReadChar(t, j).err = "nil" => g[ReadChar(t, j).at] = h[ReadChar(t, j).at]
            BY <1>2, <1>6, <2>2
        <3>2. Joined(ReadChar(t, j), g[ReadChar(t, j).at]) = Joined(ReadChar(t, j), h[ReadChar(t, j).at])
            BY <3>1 DEF Joined
        <3> QED
            BY <3>2
    <2> QED
        BY <1>0, <2>1, <2>2
<1>7. LooksBehind(F, N, S)
    <2> HIDE DEF F, Row, S
    <2> SUFFICES ASSUME NEW j \in 1 .. N, NEW g \in [1 .. N -> S], NEW h \in [1 .. N -> S],
                        \A k \in 1 .. N : j < k => g[k] = h[k]
                 PROVE  F[<<j, g>>] = F[<<j, h>>]
        BY DEF LooksBehind
    <2>1. Row(g, j) = Row(h, j)
        BY <1>6
    <2>2. F[<<j, g>>] = Row(g, j) /\ F[<<j, h>>] = Row(h, j)
        BY <1>5
    <2> QED
        BY <2>1, <2>2
<1>8. PICK f \in [1 .. N -> S] : \A j \in 1 .. N : f[j] = Row(f, j)
    <2> HIDE DEF F, Row, S, N
    <2>1. \E f \in [1 .. N -> S] : Unfolds(f, F, N)
        BY <1>0, <1>4, <1>7, Backwards
    <2> QED
        BY <1>5, <2>1 DEF Unfolds
<1> HIDE DEF Row, S
<1>9. f = [j \in 1 .. N |-> Row(f, j)]
    BY <1>8
<1>10. rest = [j \in 1 .. N |-> Row(rest, j)]
    BY <1>9
<1> HIDE DEF rest
<1>11. \A j \in 1 .. N : readUntil(t, j, close) = Row(rest, j)
    BY <1>1, <1>10
<1>12. CASE i > Len(t)
    BY <1>11, <1>12 DEF Row
<1>13. CASE i <= Len(t)
    <2>1. ~(i > Len(t)) /\ readUntil(t, i, close) = Row(rest, i)
        BY <1>0, <1>11, <1>13
    <2>2. ReadChar(t, i).err = "nil" =>
             rest[ReadChar(t, i).at] = readUntil(t, ReadChar(t, i).at, close)
        BY <1>1, <1>2, <1>13
    <2>3. Joined(ReadChar(t, i), rest[ReadChar(t, i).at]) =
          Joined(ReadChar(t, i), readUntil(t, ReadChar(t, i).at, close))
        BY <2>2 DEF Joined
    <2> QED
        BY <1>0, <2>1, <2>3 DEF Row
<1> QED
    BY <1>0, <1>12, <1>13

LEMMA UntilEnd ==
    ASSUME NEW t \in Seq(Nat), NEW i \in 1 .. Len(t) + 1, NEW close
    PROVE  readUntil(t, i, close) \in Results(Seq(Nat), t, i + 1)
<1> DEFINE N == Len(t)
           Ends(j) == readUntil(t, j, close) \in Results(Seq(Nat), t, j + 1)
           X == {k \in 0 .. N : ~Ends(N + 1 - k)}
<1>0. N \in Nat
    OBVIOUS
<1>1. ASSUME NEW k \in X, \A m \in X : k <= m
      PROVE  FALSE
    <2>1. PICK j \in 1 .. N + 1 : j = N + 1 - k /\ ~Ends(j)
        <3> HIDE DEF Ends
        <3> QED
            BY <1>0
    <2>2. ASSUME NEW n \in 1 .. N + 1, j < n
          PROVE  Ends(n)
        <3>1. N + 1 - n \in 0 .. N /\ ~(k <= N + 1 - n) /\ N + 1 - (N + 1 - n) = n
            BY <1>0, <2>1, <2>2
        <3> HIDE DEF Ends
        <3> QED
            BY <1>1, <3>1
    <2>3. CASE j > N
        BY <2>1, <2>3, UntilIs, ResultMade
    <2>4. CASE j <= N /\ t[j] = close
        <3>1. j + 1 \in j + 1 .. Len(t) + 1 /\ << >> \in Seq(Nat)
            BY <1>0, <2>4
        <3>2. readUntil(t, j, close) = Read(<<>>, j + 1)
            BY <2>4, UntilIs
        <3> HIDE DEF X
        <3>3. Read(<<>>, j + 1) \in Results(Seq(Nat), t, j + 1)
            BY <3>1, ResultMade, Zenon
        <3> QED
            BY <2>1, <3>2, <3>3
    <2>5. CASE j <= N /\ t[j] # close
        <3> DEFINE r == ReadChar(t, j)
                   next == readUntil(t, r.at, close)
        <3>1. j \in 1 .. Len(t)
            BY <1>0, <2>5
        <3>2. r \in Results(Nat, t, j + 1)
            BY <3>1, CharEnd
        <3>3. r.err = "nil" => r.at \in j + 1 .. Len(t) + 1
            BY <3>2, ResultIs
        <3>4. ASSUME r.err = "nil"
              PROVE  next \in Results(Seq(Nat), t, j + 1)
            <4>1. r.at \in 1 .. N + 1 /\ j < r.at /\ r.at + 1 .. Len(t) + 1 \subseteq j + 1 .. Len(t) + 1
                BY <1>0, <3>3, <3>4
            <4>2. next \in Results(Seq(Nat), t, r.at + 1)
                BY <2>2, <4>1
            <4> HIDE DEF next, r
            <4> QED
                BY <4>1, <4>2 DEF Results
        <3>5. readUntil(t, j, close) = Joined(r, next)
            BY <2>5, UntilIs
        <3> HIDE DEF r, next
        <3> QED
            BY <2>1, <3>2, <3>4, <3>5, JoinedEnd
    <2> QED
        BY <1>0, <2>1, <2>3, <2>4, <2>5
<1>2. X = {}
    <2>1. X \in SUBSET Nat
        OBVIOUS
    <2> HIDE DEF X
    <2> QED
        BY <1>1, <2>1, LeastNatural
<1>3. N + 1 - i \in 0 .. N /\ N + 1 - (N + 1 - i) = i
    BY <1>0
<1> HIDE DEF Ends
<1>4. Ends(i)
    BY <1>2, <1>3
<1> QED
    BY <1>4 DEF Ends

-----------------------------------------------------------------------------
(* What is written piece after piece *)

Pieces(f, ss, N) == \A i \in 1 .. N : f[i] = IF i = 1 THEN ss[i] ELSE f[i - 1] \o ss[i]

LEMMA PiecesJoin ==
    ASSUME NEW C, NEW N \in Nat, NEW ss, \A j \in 1 .. N : ss[j] \in Seq(C)
    PROVE  \E f \in [1 .. N -> Seq(C)] : Pieces(f, ss, N)
<1> DEFINE Has(k) == \E f \in [1 .. k -> Seq(C)] : Pieces(f, ss, k)
           X == {k \in 0 .. N : ~Has(k)}
<1>1. ASSUME NEW k \in X, \A m \in X : k <= m
      PROVE  FALSE
    <2>1. k \in 0 .. N /\ k \in Nat /\ ~Has(k)
        <3> HIDE DEF Has
        <3> QED
            OBVIOUS
    <2>2. CASE k = 0
        <3> DEFINE f == [n \in 1 .. 0 |-> << >>]
        <3>1. f \in [1 .. 0 -> Seq(C)] /\ Pieces(f, ss, 0)
            BY DEF Pieces
        <3> HIDE DEF f
        <3> QED
            BY <2>1, <2>2, <3>1
    <2>3. CASE k > 0
        <3>1. PICK j \in 0 .. N : j = k - 1 /\ ~(k <= j)
            BY <2>1, <2>3
        <3>2. Has(j)
            <4> HIDE DEF Has
            <4> QED
                BY <1>1, <3>1
        <3>3. PICK f \in [1 .. j -> Seq(C)] : Pieces(f, ss, j)
            BY <3>2
        <3>4. k \in 1 .. N /\ ss[k] \in Seq(C)
            BY <2>1, <2>3
        <3> DEFINE y == IF k = 1 THEN ss[k] ELSE f[j] \o ss[k]
                   g == [n \in 1 .. k |-> IF n = k THEN y ELSE f[n]]
        <3>5. y \in Seq(C)
            <4>1. CASE k = 1
                BY <3>4, <4>1
            <4>2. CASE k # 1
                <5>1. j \in 1 .. j
                    BY <2>1, <3>1, <3>4, <4>2
                <5>2. f[j] \in Seq(C)
                    BY <5>1
                <5>3. f[j] \o ss[k] \in Seq(C)
                    BY <3>4, <5>2
                <5> QED
                    BY <4>2, <5>3
            <4> QED
                BY <4>1, <4>2
        <3>6. \A n \in 1 .. k : n # k => n \in 1 .. j
            BY <2>1, <3>1
        <3> HIDE DEF y
        <3>7. g \in [1 .. k -> Seq(C)]
            BY <3>5, <3>6
        <3>8. ASSUME NEW n \in 1 .. k
              PROVE  g[n] = IF n = 1 THEN ss[n] ELSE g[n - 1] \o ss[n]
            <4>1. n # 1 => n - 1 \in 1 .. k /\ n - 1 # k
                BY <2>1
            <4>2. n # 1 => g[n - 1] = f[n - 1]
                BY <4>1
            <4>3. CASE n = k
                <5>1. g[n] = y /\ n - 1 = j
                    BY <3>1, <4>3
                <5> QED
                    BY <4>2, <4>3, <5>1 DEF y
            <4>4. CASE n # k
                <5>1. g[n] = f[n] /\ n \in 1 .. j
                    BY <3>6, <4>4
                <5> QED
                    BY <3>3, <4>2, <5>1 DEF Pieces
            <4> QED
                BY <4>3, <4>4
        <3> HIDE DEF g
        <3>9. Pieces(g, ss, k)
            BY <3>8 DEF Pieces
        <3> QED
            BY <2>1, <3>7, <3>9
    <2> QED
        BY <2>1, <2>2, <2>3
<1>2. X = {}
    <2>1. X \in SUBSET Nat
        OBVIOUS
    <2> HIDE DEF X
    <2> QED
        BY <1>1, <2>1, LeastNatural
<1> HIDE DEF Has
<1>3. Has(N)
    BY <1>2
<1> QED
    BY <1>3 DEF Has

\* The first n pieces, and all of them.
Upto(ss, n) == FlattenSeq([j \in 1 .. n |-> ss[j]])

LEMMA UptoIs ==
    ASSUME NEW C, NEW N \in Nat \ {0}, NEW ss, \A j \in 1 .. N : ss[j] \in Seq(C),
           NEW f, Pieces(f, ss, N)
    PROVE  Upto(ss, N) = f[N]
<1> DEFINE seqs == [j \in 1 .. N |-> ss[j]]
           Row(g, i) == IF i = 1 THEN seqs[i] ELSE g[i - 1] \o seqs[i]
           flatten == CHOOSE g : g = [i \in 1 .. N |-> Row(g, i)]
<1>1. seqs \in Seq(Seq(C)) /\ Len(seqs) = N
    OBVIOUS
<1>2. FlattenSeq(seqs) = flatten[N]
    <2> HIDE DEF seqs
    <2>1. FlattenSeq(seqs) =
             IF Len(seqs) = 0 THEN seqs
             ELSE (CHOOSE g : g = [i \in 1 .. Len(seqs) |->
                                      IF i = 1 THEN seqs[i] ELSE g[i - 1] \o seqs[i]])[Len(seqs)]
        BY Zenon DEF FlattenSeq
    <2> QED
        BY <1>1, <2>1
<1>3. \A j \in 1 .. N : seqs[j] = ss[j]
    OBVIOUS
<1> HIDE DEF seqs
<1>4. PICK h \in [1 .. N -> Seq(C)] : Pieces(h, ss, N)
    BY PiecesJoin
<1>5. h = [i \in 1 .. N |-> Row(h, i)]
    BY ZenonT(60), <1>3, <1>4 DEF Pieces
<1> HIDE DEF Row
<1>6. flatten = [i \in 1 .. N |-> Row(flatten, i)]
    BY <1>5
<1> HIDE DEF flatten
<1>7. \A i \in 1 .. N : flatten[i] = IF i = 1 THEN ss[i] ELSE flatten[i - 1] \o ss[i]
    <2>1. \A i \in 1 .. N : flatten[i] = Row(flatten, i)
        BY <1>6
    <2> QED
        BY <1>3, <2>1 DEF Row
<1> DEFINE X == {i \in 1 .. N : flatten[i] # f[i]}
<1>8. ASSUME NEW i \in X, \A m \in X : i <= m
      PROVE  FALSE
    <2>1. i \in 1 .. N /\ flatten[i] # f[i]
        OBVIOUS
    <2>2. CASE i = 1
        BY <1>7, <2>1, <2>2 DEF Pieces
    <2>3. CASE i # 1
        <3>1. i - 1 \in 1 .. N /\ ~(i <= i - 1)
            BY <2>1, <2>3
        <3>2. flatten[i - 1] = f[i - 1]
            BY <1>8, <3>1
        <3> QED
            BY <1>7, <2>1, <2>3, <3>2 DEF Pieces
    <2> QED
        BY <2>2, <2>3
<1>9. X = {}
    <2>1. X \in SUBSET Nat
        OBVIOUS
    <2> HIDE DEF X
    <2> QED
        BY <1>8, <2>1, LeastNatural
<1>10. flatten[N] = f[N]
    <2>1. N \in 1 .. N
        OBVIOUS
    <2> QED
        BY <1>9, <2>1
<1> QED
    BY <1>2, <1>10 DEF Upto, seqs

LEMMA UptoNone ==
    ASSUME NEW ss
    PROVE  Upto(ss, 0) = << >>
<1> DEFINE e == [j \in 1 .. 0 |-> ss[j]]
<1>1. e = << >> /\ Len(e) = 0
    OBVIOUS
<1> HIDE DEF e
<1>2. FlattenSeq(e) = << >>
    BY <1>1 DEF FlattenSeq
<1> QED
    BY <1>2 DEF Upto, e

LEMMA UptoNext ==
    ASSUME NEW C, NEW n \in Nat, NEW ss, \A j \in 1 .. n + 1 : ss[j] \in Seq(C)
    PROVE  /\ Upto(ss, 0) = << >>
           /\ Upto(ss, n) \in Seq(C)
           /\ Upto(ss, n + 1) = Upto(ss, n) \o ss[n + 1]
<1>1. Upto(ss, 0) = << >>
    BY UptoNone
<1>2. n + 1 \in Nat \ {0} /\ n + 1 \in 1 .. n + 1
    OBVIOUS
<1>3. PICK f \in [1 .. n + 1 -> Seq(C)] : Pieces(f, ss, n + 1)
    BY <1>2, PiecesJoin
<1>4. Upto(ss, n + 1) = f[n + 1]
    BY <1>2, <1>3, UptoIs
<1>5. CASE n = 0
    <2>1. f[n + 1] = ss[n + 1] /\ ss[n + 1] \in Seq(C)
        BY <1>2, <1>3, <1>5 DEF Pieces
    <2>2. << >> \in Seq(C) /\ << >> \o ss[n + 1] = ss[n + 1]
        BY <2>1, ConcatEmptySeq
    <2> QED
        BY <1>1, <1>4, <1>5, <2>1, <2>2
<1>6. CASE n # 0
    <2>1. n \in Nat \ {0} /\ n \in 1 .. n + 1 /\ 1 .. n \subseteq 1 .. n + 1 /\ n + 1 # 1 /\ (n + 1) - 1 = n
        BY <1>6
    <2>2. Pieces(f, ss, n) /\ \A j \in 1 .. n : ss[j] \in Seq(C)
        BY <1>3, <2>1 DEF Pieces
    <2>3. Upto(ss, n) = f[n]
        BY <2>1, <2>2, UptoIs
    <2>4. f[n + 1] = f[(n + 1) - 1] \o ss[n + 1]
        BY <1>2, <1>3, <2>1 DEF Pieces
    <2>5. f[n] \in Seq(C)
        BY <2>1
    <2> QED
        BY <1>1, <1>4, <2>1, <2>3, <2>4, <2>5
<1> QED
    BY <1>5, <1>6

LEMMA UptoAll ==
    ASSUME NEW ss, NEW n \in Nat, DOMAIN ss = 1 .. n, ss = [j \in 1 .. n |-> ss[j]]
    PROVE  FlattenSeq(ss) = Upto(ss, n)
BY DEF Upto

AreSeqs(ss, n, C) == \A j \in 1 .. n : ss[j] \in Seq(C)

\* Later pieces come behind the earlier ones.
LEMMA UptoGrows ==
    ASSUME NEW C, NEW n \in Nat, NEW ss, AreSeqs(ss, n, C), NEW m \in 0 .. n
    PROVE  /\ Upto(ss, m) \in Seq(C)
           /\ Len(Upto(ss, m)) <= Len(Upto(ss, n))
           /\ \A k \in 1 .. Len(Upto(ss, m)) : Upto(ss, n)[k] = Upto(ss, m)[k]
<1> DEFINE U(k) == Upto(ss, k)
           Grows(k) == /\ Len(U(m)) <= Len(U(k))
                       /\ \A i \in 1 .. Len(U(m)) : U(k)[i] = U(m)[i]
           X == {k \in m .. n : ~Grows(k)}
<1>1. ASSUME NEW k \in 0 .. n
      PROVE  U(k) \in Seq(C)
    <2>1. CASE k = 0
        <3>1. Upto(ss, 0) = << >> /\ << >> \in Seq(C)
            BY UptoNone
        <3> QED
            BY <2>1, <3>1
    <2>2. CASE k # 0
        <3>1. PICK j \in 0 .. n : k = j + 1
            BY <2>2
        <3>2. \A i \in 1 .. j + 1 : ss[i] \in Seq(C)
            BY <3>1 DEF AreSeqs
        <3>3. U(k) = U(j) \o ss[k] /\ U(j) \in Seq(C) /\ ss[k] \in Seq(C)
            BY <3>1, <3>2, UptoNext
        <3> QED
            BY <3>3
    <2> QED
        BY <2>1, <2>2
<1>2. ASSUME NEW k \in X, \A i \in X : k <= i
      PROVE  FALSE
    <2>1. k \in m .. n /\ ~Grows(k)
        <3> HIDE DEF Grows
        <3> QED
            OBVIOUS
    <2>2. k # m
        <3>1. Len(U(m)) \in Nat
            BY <1>1
        <3> HIDE DEF U
        <3> QED
            BY <2>1, <3>1
    <2>3. PICK j \in m .. n : k = j + 1 /\ ~(k <= j) /\ j \in Nat
        BY <2>1, <2>2
    <2>4. Grows(j)
        <3> HIDE DEF Grows
        <3> QED
            BY <1>2, <2>3
    <2>5. \A i \in 1 .. j + 1 : ss[i] \in Seq(C)
        BY <2>1, <2>3 DEF AreSeqs
    <2>6. U(k) = U(j) \o ss[k]
        BY <2>3, <2>5, UptoNext
    <2>7. U(j) \in Seq(C) /\ ss[k] \in Seq(C) /\ U(m) \in Seq(C)
        BY <1>1, <2>1, <2>3, <2>5
    <2> HIDE DEF U
    <2>8. Len(U(k)) = Len(U(j)) + Len(ss[k]) /\ Len(U(j)) \in Nat /\ Len(ss[k]) \in Nat /\ Len(U(m)) \in Nat
        BY <2>6, <2>7
    <2>9. \A i \in 1 .. Len(U(j)) : U(k)[i] = U(j)[i]
        BY <2>6, <2>7
    <2>10. \A i \in 1 .. Len(U(m)) : U(k)[i] = U(m)[i]
        BY <2>4, <2>8, <2>9
    <2>11. Len(U(m)) <= Len(U(k))
        BY <2>4, <2>8
    <2> QED
        BY <2>1, <2>10, <2>11
<1>3. X = {}
    <2>1. X \in SUBSET Nat
        OBVIOUS
    <2> HIDE DEF X
    <2> QED
        BY <1>2, <2>1, LeastNatural
<1> HIDE DEF Grows
<1>4. Grows(n)
    BY <1>3
<1> HIDE DEF U
<1> QED
    BY <1>1, <1>4 DEF Grows, U

\* s begins at position p + 1 of a.
HasPiece(a, p, s) ==
    /\ p \in Nat /\ Len(s) \in Nat /\ p + Len(s) <= Len(a)
    /\ \A k \in 1 .. Len(s) : a[p + k] = s[k]

LEMMA UptoPiece ==
    ASSUME NEW C, NEW n \in Nat, NEW ss, AreSeqs(ss, n, C), NEW m \in 1 .. n
    PROVE  /\ Len(Upto(ss, m)) = Len(Upto(ss, m - 1)) + Len(ss[m])
           /\ HasPiece(Upto(ss, n), Len(Upto(ss, m - 1)), ss[m])
<1> DEFINE U(k) == Upto(ss, k)
<1>1. PICK j \in 0 .. n : m = j + 1 /\ j = m - 1
    OBVIOUS
<1>2. \A i \in 1 .. j + 1 : ss[i] \in Seq(C)
    BY <1>1 DEF AreSeqs
<1>3. U(m) = U(j) \o ss[m] /\ U(j) \in Seq(C) /\ ss[m] \in Seq(C)
    BY <1>1, <1>2, UptoNext
<1>4. U(m) \in Seq(C) /\ Len(U(m)) <= Len(U(n)) /\ \A k \in 1 .. Len(U(m)) : U(n)[k] = U(m)[k]
    <2>1. m \in 0 .. n
        OBVIOUS
    <2> QED
        BY <2>1, UptoGrows
<1> HIDE DEF U
<1>5. Len(U(m)) = Len(U(j)) + Len(ss[m]) /\ Len(U(j)) \in Nat /\ Len(ss[m]) \in Nat
    BY <1>3
<1>6. ASSUME NEW k \in 1 .. Len(ss[m])
      PROVE  U(n)[Len(U(j)) + k] = ss[m][k]
    <2>1. Len(U(j)) + k \in 1 .. Len(U(m)) /\ Len(U(j)) + k \notin 1 .. Len(U(j))
        BY <1>5
    <2>2. U(m)[Len(U(j)) + k] = ss[m][k]
        BY <1>3, <1>5, <2>1
    <2> QED
        BY <1>4, <2>1, <2>2
<1> QED
    BY <1>1, <1>4, <1>5, <1>6 DEF U, HasPiece

-----------------------------------------------------------------------------
(* t shows s at i, as far as t goes *)

Shows(t, i, s) == \A k \in 1 .. Len(s) : i + k - 1 <= Len(t) => t[i + k - 1] = s[k]

LEMMA ShowsJoin ==
    ASSUME NEW C, NEW t, NEW i \in Nat, NEW a \in Seq(C), NEW b \in Seq(C), Shows(t, i, a \o b)
    PROVE  Shows(t, i, a) /\ Shows(t, i + Len(a), b)
<1>1. Len(a) \in Nat /\ Len(b) \in Nat /\ Len(a \o b) = Len(a) + Len(b)
    OBVIOUS
<1>2. Shows(t, i, a)
    <2>1. \A k \in 1 .. Len(a) : k \in 1 .. Len(a \o b) /\ (a \o b)[k] = a[k]
        BY <1>1
    <2> QED
        BY <2>1 DEF Shows
<1>3. ASSUME NEW k \in 1 .. Len(b), (i + Len(a)) + k - 1 <= Len(t)
      PROVE  t[(i + Len(a)) + k - 1] = b[k]
    <2>1. /\ Len(a) + k \in 1 .. Len(a \o b) /\ (a \o b)[Len(a) + k] = b[k]
          /\ i + (Len(a) + k) - 1 = (i + Len(a)) + k - 1
        BY <1>1
    <2> QED
        BY <1>3, <2>1 DEF Shows
<1> QED
    BY <1>2, <1>3 DEF Shows

\* A single character.
LEMMA ShowsOne ==
    ASSUME NEW t, NEW i \in Nat, NEW c
    PROVE  Shows(t, i, <<c>>) <=> (i <= Len(t) => t[i] = c)
<1> DEFINE s == <<c>>
<1>1. Len(s) = 1 /\ s[1] = c /\ i + 1 - 1 = i
    OBVIOUS
<1> HIDE DEF s
<1>2. \A k \in 1 .. Len(s) : k = 1
    BY <1>1
<1>3. 1 \in 1 .. Len(s)
    BY <1>1
<1>4. Shows(t, i, s) <=> (i <= Len(t) => t[i] = c)
    BY <1>1, <1>2, <1>3 DEF Shows
<1> QED
    BY <1>4 DEF s

LEMMA ShowsPiece ==
    ASSUME NEW C, NEW n \in Nat, NEW ss, AreSeqs(ss, n, C), NEW m \in 1 .. n,
           NEW t, NEW i \in Nat, Shows(t, i, Upto(ss, n))
    PROVE  Shows(t, i + Len(Upto(ss, m - 1)), ss[m])
<1>0. HasPiece(Upto(ss, n), Len(Upto(ss, m - 1)), ss[m])
    BY UptoPiece
<1> DEFINE p == Len(Upto(ss, m - 1))
<1>1. /\ p \in Nat /\ Len(ss[m]) \in Nat
      /\ p + Len(ss[m]) <= Len(Upto(ss, n))
      /\ \A k \in 1 .. Len(ss[m]) : Upto(ss, n)[p + k] = ss[m][k]
    BY <1>0 DEF HasPiece
<1>2. Len(Upto(ss, n)) \in Nat
    <2>1. Upto(ss, n) \in Seq(C)
        BY UptoGrows
    <2> QED
        BY <2>1
<1> HIDE DEF p
<1>3. ASSUME NEW k \in 1 .. Len(ss[m]), (i + p) + k - 1 <= Len(t)
      PROVE  t[(i + p) + k - 1] = ss[m][k]
    <2>1. p + k \in 1 .. Len(Upto(ss, n)) /\ i + (p + k) - 1 = (i + p) + k - 1
        BY <1>1, <1>2
    <2> QED
        BY <1>1, <1>3, <2>1 DEF Shows
<1> QED
    BY <1>3 DEF Shows, p

-----------------------------------------------------------------------------
(* An escaped character is read as one character *)

Escapes == {EscapeIriChars, EscapeStringMoreChars}

\* The character that is read in the place of c.
Decoded(c, charsToEscape) ==
    IF c \in charsToEscape \ DOMAIN Letters
    THEN Rune(0, 0, HexValue(HexDigit(c \div 16)), HexValue(HexDigit(c % 16)))
    ELSE c

LEMMA EscapedChars ==
    ASSUME NEW E \in Escapes
    PROVE  /\ 92 \in E /\ E \subseteq 0 .. 127
           /\ E = EscapeIriChars => Greater \in E
           /\ E = EscapeStringMoreChars => Quote \in E
BY DEF Escapes, EscapeIriChars, EscapeStringMoreChars, Quote, Less, Greater, Backslash, Caret, CR, LF, Tab

LEMMA RuneWritten ==
    ASSUME NEW E \in Escapes, NEW c \in 0 .. 127
    PROVE  /\ EscapeRune(c, E) \in Seq(0 .. 127)
           /\ Len(EscapeRune(c, E)) \in Nat \ {0}
           /\ c \notin E => EscapeRune(c, E) = <<c>>
           /\ c \in E \cap DOMAIN Letters => EscapeRune(c, E) = <<92, Letters[c]>>
           /\ c \in E \ DOMAIN Letters =>
                 EscapeRune(c, E) = <<92, 117, 48, 48, HexDigit(c \div 16), HexDigit(c % 16)>>
<1>1. HexDigit(c \div 16) \in 0 .. 127 /\ HexDigit(c % 16) \in 0 .. 127
    <2>1. c \div 16 \in 0 .. 7 /\ c % 16 \in 0 .. 15
        OBVIOUS
    <2> QED
        BY <2>1 DEF HexDigit
<1>2. CASE c \notin E
    BY <1>2 DEF EscapeRune
<1>3. CASE c \in E /\ c \in DOMAIN Letters
    <2>1. Letters[c] \in 0 .. 127
        BY <1>3, LettersAre
    <2>2. EscapeRune(c, E) = <<92, Letters[c]>>
        BY <1>3 DEF EscapeRune, Backslash
    <2> QED
        BY <1>3, <2>1, <2>2
<1>4. CASE c \in E /\ c \notin DOMAIN Letters
    <2>1. EscapeRune(c, E) = <<92, 117, 48, 48, HexDigit(c \div 16), HexDigit(c % 16)>>
        BY <1>4 DEF EscapeRune, Backslash, Lower_u
    <2> QED
        BY <1>1, <1>4, <2>1
<1> QED
    BY <1>2, <1>3, <1>4

LEMMA LetterReads ==
    ASSUME NEW t \in Seq(Nat), NEW i \in 1 .. Len(t), NEW c \in DOMAIN Letters,
           Shows(t, i, <<92, Letters[c]>>)
    PROVE  readEscapeSeq(t, i + 1) = IF i + 1 <= Len(t) THEN Read(c, i + 2) ELSE EOF
<1>0. Len(t) \in Nat /\ Len(<<92, Letters[c]>>) = 2
    OBVIOUS
<1>1. CASE i + 1 > Len(t)
    BY <1>0, <1>1 DEF readEscapeSeq
<1>2. CASE i + 1 <= Len(t)
    <2>1. t[i + 1] = Letters[c]
        <3>1. 2 \in 1 .. Len(<<92, Letters[c]>>) /\ i + 2 - 1 = i + 1
            BY <1>0
        <3>2. t[i + 2 - 1] = <<92, Letters[c]>>[2]
            BY <1>2, <3>1 DEF Shows
        <3> QED
            BY <3>1, <3>2
    <2>2. \A r \in DOMAIN Letters : Letters[r] = Letters[c] => r = c
        BY LettersAre
    <2>3. (CHOOSE r \in DOMAIN Letters : Letters[r] = t[i + 1]) = c
        BY <2>1, <2>2
    <2>4. ~(i + 1 > Len(t)) /\ (i + 1) + 1 = i + 2
        BY <1>0, <1>2
    <2> QED
        BY <1>2, <2>1, <2>3, <2>4 DEF readEscapeSeq
<1> QED
    BY <1>0, <1>1, <1>2

LEMMA NoLetter ==
    ~\E r \in DOMAIN Letters : Letters[r] = 117
<1> SUFFICES ASSUME NEW r \in DOMAIN Letters
             PROVE  Letters[r] # 117
    OBVIOUS
<1>1. r \in {8, 9, 10, 12, 13, 34, 39, 92}
    BY LettersAre
<1>2. CASE r = 8
    BY <1>2, LettersAre
<1>3. CASE r = 9
    BY <1>3, LettersAre
<1>4. CASE r = 10
    BY <1>4, LettersAre
<1>5. CASE r = 12
    BY <1>5, LettersAre
<1>6. CASE r = 13
    BY <1>6, LettersAre
<1>7. CASE r = 34 \/ r = 39 \/ r = 92
    BY <1>7, LettersAre
<1> QED
    BY <1>1, <1>2, <1>3, <1>4, <1>5, <1>6, <1>7

LEMMA HexReads ==
    ASSUME NEW t \in Seq(Nat), NEW i \in 1 .. Len(t), NEW x \in Nat, NEW y \in Nat,
           Shows(t, i, <<92, 117, 48, 48, x, y>>)
    PROVE  readEscapeSeq(t, i + 1) =
              IF i + 5 <= Len(t) THEN Read(Rune(0, 0, HexValue(x), HexValue(y)), i + 6) ELSE EOF
<1> DEFINE s == <<92, 117, 48, 48, x, y>>
<1>0. Len(t) \in Nat /\ Len(s) = 6
    OBVIOUS
<1>1. CASE i + 1 > Len(t)
    <2>1. ~(i + 5 <= Len(t))
        BY <1>0, <1>1
    <2> QED
        BY <1>1, <2>1 DEF readEscapeSeq
<1>2. CASE i + 1 <= Len(t)
    <2>1. t[i + 1] = 117
        <3>1. 2 \in 1 .. Len(s) /\ i + 2 - 1 = i + 1 /\ s[2] = 117
            BY <1>0
        <3> HIDE DEF s
        <3>2. t[i + 2 - 1] = s[2]
            BY <1>2, <3>1 DEF Shows, s
        <3> QED
            BY <3>1, <3>2
    <2>2. ~\E r \in DOMAIN Letters : Letters[r] = t[i + 1]
        BY <2>1, NoLetter
    <2> DEFINE h(k) == HexValue(t[i + 5 - k])
    <2>3. readEscapeSeq(t, i + 1) =
             IF i + 5 > Len(t) THEN EOF
             ELSE Read(Rune(h(3), h(2), h(1), h(0)), i + 6)
        <3> DEFINE numDigits == 4
                   last == (i + 1) + numDigits
                   g(k) == HexValue(t[last - k])
        <3>1. readEscapeSeq(t, i + 1) =
                 IF last > Len(t) THEN EOF
                 ELSE IF \E k \in 4 .. numDigits - 1 : g(k) # 0
                 THEN Fail("Unsupported64bitsRune")
                 ELSE Read(Rune(g(3), g(2), g(1), g(0)), last + 1)
            <4>1. ~(i + 1 > Len(t)) /\ t[i + 1] = Lower_u /\ t[i + 1] \in {Lower_u, Upper_U}
                BY <1>0, <1>2, <2>1 DEF Lower_u
            <4> HIDE DEF g, last
            <4> QED
                BY <2>2, <4>1, Zenon DEF readEscapeSeq, g, last
        <3>2. last = i + 5 /\ last + 1 = i + 6 /\ 4 .. numDigits - 1 = {}
            BY <1>0
        <3>3. g(3) = h(3) /\ g(2) = h(2) /\ g(1) = h(1) /\ g(0) = h(0)
            BY <3>2
        <3> HIDE DEF g, h, last
        <3> QED
            BY <3>1, <3>2, <3>3
    <2>4. CASE i + 5 > Len(t)
        BY <1>0, <2>3, <2>4
    <2>5. CASE i + 5 <= Len(t)
        <3>1. \A k \in 3 .. 6 : k \in 1 .. Len(s) /\ i + k - 1 <= Len(t)
            <4> HIDE DEF s
            <4> SUFFICES ASSUME NEW k \in 3 .. 6
                         PROVE  k \in 1 .. Len(s) /\ i + k - 1 <= Len(t)
                OBVIOUS
            <4>1. k \in 1 .. Len(s)
                BY <1>0
            <4>2. i + k - 1 <= Len(t)
                BY <1>0, <2>5
            <4> QED
                BY <4>1, <4>2
        <3>2. s[3] = 48 /\ s[4] = 48 /\ s[5] = x /\ s[6] = y
            OBVIOUS
        <3> HIDE DEF s
        <3>3. \A k \in 3 .. 6 : t[i + k - 1] = s[k]
            BY <3>1 DEF Shows, s
        <3>4. /\ i + 3 - 1 = i + 5 - 3 /\ i + 4 - 1 = i + 5 - 2
              /\ i + 5 - 1 = i + 5 - 1 /\ i + 6 - 1 = i + 5 - 0
            OBVIOUS
        <3>5. t[i + 5 - 3] = 48 /\ t[i + 5 - 2] = 48 /\ t[i + 5 - 1] = x /\ t[i + 5 - 0] = y
            <4>1. t[i + 3 - 1] = s[3] /\ t[i + 4 - 1] = s[4] /\ t[i + 5 - 1] = s[5] /\ t[i + 6 - 1] = s[6]
                BY <3>3
            <4> QED
                BY <3>2, <3>4, <4>1
        <3>6. HexValue(48) = 0
            BY DEF HexValue
        <3>7. h(3) = 0 /\ h(2) = 0 /\ h(1) = HexValue(x) /\ h(0) = HexValue(y)
            BY <3>5, <3>6
        <3> HIDE DEF h
        <3> QED
            BY <1>0, <2>3, <2>5, <3>7
    <2> QED
        BY <1>0, <2>4, <2>5
<1> QED
    BY <1>0, <1>1, <1>2

LEMMA CharReads ==
    ASSUME NEW t \in Seq(Nat), NEW i \in 1 .. Len(t), NEW E \in Escapes, NEW c \in 0 .. 127,
           Shows(t, i, EscapeRune(c, E))
    PROVE  /\ ReadChar(t, i) =
                 IF i + Len(EscapeRune(c, E)) <= Len(t) + 1
                 THEN Read(Decoded(c, E), i + Len(EscapeRune(c, E))) ELSE EOF
           /\ t[i] \notin E \ {92}
<1>0. Len(t) \in Nat
    OBVIOUS
<1>1. /\ EscapeRune(c, E) \in Seq(0 .. 127) /\ Len(EscapeRune(c, E)) \in Nat \ {0}
      /\ 92 \in E
    BY RuneWritten, EscapedChars
<1>2. t[i] = EscapeRune(c, E)[1]
    <2>1. 1 \in 1 .. Len(EscapeRune(c, E)) /\ i + 1 - 1 = i
        BY <1>1
    <2>2. t[i + 1 - 1] = EscapeRune(c, E)[1]
        BY <1>0, <2>1 DEF Shows
    <2> QED
        BY <2>1, <2>2
<1>3. CASE c \notin E
    <2>1. EscapeRune(c, E) = <<c>> /\ Len(<<c>>) = 1 /\ <<c>>[1] = c
        BY <1>3, RuneWritten
    <2>2. t[i] = c /\ c # 92
        BY <1>1, <1>2, <1>3, <2>1
    <2>3. i + 1 <= Len(t) + 1
        BY <1>0
    <2>4. Decoded(c, E) = c
        BY <1>3 DEF Decoded
    <2>5. ReadChar(t, i) = Read(c, i + 1)
        BY <2>2 DEF ReadChar, Backslash
    <2> QED
        BY <1>3, <2>1, <2>2, <2>3, <2>4, <2>5
<1>4. CASE c \in E /\ c \in DOMAIN Letters
    <2>1. EscapeRune(c, E) = <<92, Letters[c]>> /\ Len(<<92, Letters[c]>>) = 2 /\ <<92, Letters[c]>>[1] = 92
        BY <1>4, RuneWritten
    <2>2. readEscapeSeq(t, i + 1) = IF i + 1 <= Len(t) THEN Read(c, i + 2) ELSE EOF
        BY <1>4, <2>1, LetterReads
    <2>3. t[i] = 92 /\ Decoded(c, E) = c /\ (i + 1 <= Len(t) <=> i + 2 <= Len(t) + 1)
        BY <1>0, <1>2, <1>4, <2>1 DEF Decoded
    <2> QED
        BY <2>1, <2>2, <2>3 DEF ReadChar, Backslash
<1>5. CASE c \in E /\ c \notin DOMAIN Letters
    <2> DEFINE x == HexDigit(c \div 16)
               y == HexDigit(c % 16)
    <2>0. x \in Nat /\ y \in Nat
        <3>1. c \div 16 \in 0 .. 7 /\ c % 16 \in 0 .. 15
            OBVIOUS
        <3> QED
            BY <3>1 DEF HexDigit
    <2>1. EscapeRune(c, E) = <<92, 117, 48, 48, x, y>>
        BY <1>5, RuneWritten
    <2>2. Decoded(c, E) = Rune(0, 0, HexValue(x), HexValue(y))
        BY <1>5 DEF Decoded
    <2> HIDE DEF x, y
    <2>3. Len(<<92, 117, 48, 48, x, y>>) = 6 /\ <<92, 117, 48, 48, x, y>>[1] = 92
        OBVIOUS
    <2>4. readEscapeSeq(t, i + 1) =
              IF i + 5 <= Len(t) THEN Read(Rune(0, 0, HexValue(x), HexValue(y)), i + 6) ELSE EOF
        BY <2>0, <2>1, HexReads
    <2>5. t[i] = 92 /\ (i + 5 <= Len(t) <=> i + 6 <= Len(t) + 1)
        BY SMTT(30), <1>0, <1>2, <2>1, <2>3
    <2>6. ReadChar(t, i) = readEscapeSeq(t, i + 1)
        BY <2>5 DEF ReadChar, Backslash
    <2> QED
        BY <2>1, <2>2, <2>3, <2>4, <2>5, <2>6
<1> QED
    BY <1>3, <1>4, <1>5

LEMMA TextIs ==
    ASSUME NEW s \in Texts
    PROVE  Len(s) \in Nat /\ DOMAIN s = 1 .. Len(s) /\ \A k \in 1 .. Len(s) : s[k] \in 0 .. 127
<1>1. s \in Seq(0 .. 127)
    BY DEF Texts
<1>2. Len(s) \in Nat /\ DOMAIN s = 1 .. Len(s)
    BY <1>1, LenProperties
<1>3. \A k \in 1 .. Len(s) : s[k] \in 0 .. 127
    BY <1>1, ElementOfSeq
<1> QED
    BY <1>2, <1>3

\* One more value in front.
LEMMA ConsIs ==
    ASSUME NEW N \in Nat, NEW D, NEW v \in D, NEW b \in [1 .. N -> D]
    PROVE  <<v>> \o b = [k \in 1 .. N + 1 |-> IF k = 1 THEN v ELSE b[k - 1]]
<1> DEFINE a == <<v>>
<1>1. a \in Seq(D) /\ Len(a) = 1 /\ a[1] = v
    OBVIOUS
<1>2. b \in Seq(D) /\ Len(b) = N
    BY SeqDef
<1> HIDE DEF a
<1>3. /\ a \o b \in Seq(D) /\ Len(a \o b) = Len(a) + Len(b)
      /\ \A k \in 1 .. Len(a) + Len(b) :
            (a \o b)[k] = IF k <= Len(a) THEN a[k] ELSE b[k - Len(a)]
    BY <1>1, <1>2, ConcatProperties
<1> DEFINE c == a \o b
<1>4. c \in Seq(D) /\ Len(c) = N + 1
    BY <1>1, <1>2, <1>3
<1>5. ASSUME NEW k \in 1 .. N + 1
      PROVE  c[k] = IF k = 1 THEN v ELSE b[k - 1]
    <2>1. k \in 1 .. Len(a) + Len(b) /\ (k <= Len(a) <=> k = 1) /\ k - Len(a) = k - 1
        BY <1>1, <1>2
    <2> QED
        BY <1>1, <1>3, <2>1
<1> HIDE DEF c
<1>6. c = [k \in 1 .. N + 1 |-> c[k]]
    BY <1>4
<1>7. c = [k \in 1 .. N + 1 |-> IF k = 1 THEN v ELSE b[k - 1]]
    BY <1>5, <1>6
<1> QED
    BY <1>7 DEF a, c

LEMMA EscapeWritten ==
    ASSUME NEW s \in Texts, NEW E \in Escapes
    PROVE  LET ss == [i \in DOMAIN s |-> EscapeRune(s[i], E)]
           IN  /\ Escape(s, E) = Upto(ss, Len(s))
               /\ AreSeqs(ss, Len(s), 0 .. 127)
               /\ Escape(s, E) \in Texts
<1> DEFINE ss == [i \in DOMAIN s |-> EscapeRune(s[i], E)]
<1>1. Len(s) \in Nat /\ DOMAIN s = 1 .. Len(s) /\ \A i \in 1 .. Len(s) : s[i] \in 0 .. 127
    BY TextIs
<1>2. \A i \in 1 .. Len(s) : ss[i] \in Seq(0 .. 127)
    BY <1>1, RuneWritten
<1>3. DOMAIN ss = 1 .. Len(s) /\ ss = [i \in 1 .. Len(s) |-> ss[i]]
    BY <1>1
<1>4. Escape(s, E) = FlattenSeq(ss)
    BY DEF Escape
<1> HIDE DEF ss
<1>5. Escape(s, E) = Upto(ss, Len(s))
    BY <1>1, <1>3, <1>4, UptoAll
<1>6. AreSeqs(ss, Len(s), 0 .. 127)
    BY <1>2 DEF AreSeqs
<1>7. Len(s) \in 0 .. Len(s)
    BY <1>1
<1>8. Upto(ss, Len(s)) \in Seq(0 .. 127)
    BY <1>1, <1>6, <1>7, UptoGrows
<1> QED
    BY <1>5, <1>6, <1>8 DEF ss, Texts

Decode(s, E) == [k \in 1 .. Len(s) |-> Decoded(s[k], E)]

\* Reading back what Escape has written gives each character as it was, but
\* for those written \u, which come back as readEscapeSeq shifts their digits,
\* and stops behind the closing character; a text cut before it is EOF
\* (turtle/escape.go:15-40, nquads/reader.go:222-235, 316-329, 335-384).
THEOREM UntilReads ==
    ASSUME NEW t \in Seq(Nat), NEW i \in 1 .. Len(t) + 1, NEW s \in Texts, NEW E \in Escapes,
           NEW close \in E \ {92}, Shows(t, i, Escape(s, E) \o <<close>>)
    PROVE  readUntil(t, i, close) =
              IF i + Len(Escape(s, E)) <= Len(t)
              THEN Read(Decode(s, E), i + Len(Escape(s, E)) + 1) ELSE EOF
<1> DEFINE n == Len(s)
           ss == [k \in DOMAIN s |-> EscapeRune(s[k], E)]
           p(m) == i + Len(Upto(ss, m))
           tail(m) == [k \in 1 .. n - m |-> Decoded(s[m + k], E)]
           Claim(m) == p(m) <= Len(t) + 1 =>
                          readUntil(t, p(m), close) =
                             IF p(n) <= Len(t) THEN Read(tail(m), p(n) + 1) ELSE EOF
           X == {k \in 0 .. n : ~Claim(n - k)}
           C == 0 .. 127
<1>0. n \in Nat /\ Len(t) \in Nat /\ DOMAIN s = 1 .. n /\ \A k \in 1 .. n : s[k] \in 0 .. 127
    BY TextIs
<1>1. Escape(s, E) = Upto(ss, n) /\ AreSeqs(ss, n, C) /\ Escape(s, E) \in Seq(C)
    BY EscapeWritten DEF Texts
<1>2. \A k \in 1 .. n : ss[k] = EscapeRune(s[k], E)
    BY <1>0
<1>3. Shows(t, i, Upto(ss, n)) /\ Shows(t, p(n), <<close>>)
    <2>1. <<close>> \in Seq(0 .. 127)
        <3>1. close \in 0 .. 127
            BY EscapedChars
        <3> QED
            BY <3>1
    <2>2. i \in Nat
        BY <1>0
    <2> DEFINE w == Escape(s, E)
               b == <<close>>
    <2>3. w \in Seq(C) /\ w = Upto(ss, n) /\ b \in Seq(C)
        BY <1>1, <2>1
    <2>4. Shows(t, i, w \o b)
        OBVIOUS
    <2> HIDE DEF w, ss, b, C
    <2>5. Shows(t, i, w) /\ Shows(t, i + Len(w), b)
        BY <2>2, <2>3, <2>4, ShowsJoin
    <2> QED
        BY <2>3, <2>5 DEF b
<1> HIDE DEF C
<1>4. p(0) = i
    <2>1. Upto(ss, 0) = << >> /\ Len(<< >>) = 0 /\ i + 0 = i
        BY <1>0, UptoNone
    <2> HIDE DEF ss
    <2> QED
        BY <2>1
<1> HIDE DEF ss
<1>5. \A m \in 0 .. n : p(m) \in Nat /\ p(m) <= p(n) /\ p(m) >= i
    <2> SUFFICES ASSUME NEW m \in 0 .. n PROVE p(m) \in Nat /\ p(m) <= p(n) /\ p(m) >= i
        OBVIOUS
    <2>1. Upto(ss, m) \in Seq(C) /\ Len(Upto(ss, m)) <= Len(Upto(ss, n))
        BY <1>0, <1>1, UptoGrows
    <2>2. Len(Upto(ss, m)) \in Nat /\ Len(Upto(ss, n)) \in Nat
        BY <1>1, <2>1
    <2> QED
        BY <2>1, <2>2
<1>6. ASSUME NEW m \in 0 .. n - 1
      PROVE  /\ p(m + 1) = p(m) + Len(EscapeRune(s[m + 1], E))
             /\ Shows(t, p(m), EscapeRune(s[m + 1], E))
    <2>1. m + 1 \in 1 .. n /\ (m + 1) - 1 = m
        BY <1>0
    <2> DEFINE l == m + 1
    <2>9. l \in 1 .. n /\ i \in Nat
        BY <1>0, <2>1
    <2> HIDE DEF l, p, n
    <2>2. Len(Upto(ss, l)) = Len(Upto(ss, l - 1)) + Len(ss[l])
        <3>1. n \in Nat /\ AreSeqs(ss, n, C)
            BY <1>0, <1>1
        <3>2. /\ Len(Upto(ss, l)) = Len(Upto(ss, l - 1)) + Len(ss[l])
              /\ HasPiece(Upto(ss, n), Len(Upto(ss, l - 1)), ss[l])
            BY <2>9, <3>1, UptoPiece
        <3> QED
            BY <3>2
    <2>3. Shows(t, i + Len(Upto(ss, l - 1)), ss[l])
        BY <1>0, <1>1, <1>3, <2>9, ShowsPiece
    <2>4. Len(Upto(ss, m)) \in Nat /\ Len(EscapeRune(s[m + 1], E)) \in Nat
        <3>1. s[m + 1] \in 0 .. 127 /\ m \in 0 .. n
            BY <1>0, <2>1
        <3>2. Upto(ss, m) \in Seq(C)
            BY <1>0, <1>1, <3>1, UptoGrows
        <3>3. Len(EscapeRune(s[m + 1], E)) \in Nat
            BY <3>1, RuneWritten
        <3> QED
            BY <3>2, <3>3
    <2>5. ss[l] = EscapeRune(s[m + 1], E) /\ l - 1 = m
        BY <1>2, <2>1 DEF l
    <2>6. /\ Len(Upto(ss, l)) = Len(Upto(ss, m)) + Len(EscapeRune(s[m + 1], E))
          /\ Shows(t, p(m), EscapeRune(s[m + 1], E))
        BY <2>2, <2>3, <2>5 DEF p
    <2>7. p(l) = p(m) + Len(EscapeRune(s[m + 1], E))
        BY <2>4, <2>6, <2>9 DEF p
    <2> QED
        BY <2>6, <2>7 DEF l
<1>tails. ASSUME NEW m \in 0 .. n - 1
          PROVE  <<Decoded(s[m + 1], E)>> \o tail(m + 1) = tail(m)
    <2> DEFINE b == tail(m + 1)
               v == Decoded(s[m + 1], E)
    <2>1. n - (m + 1) \in Nat /\ n - (m + 1) + 1 = n - m
        BY <1>0
    <2> DEFINE D == {b[k] : k \in 1 .. n - (m + 1)} \cup {v}
    <2>2. b \in [1 .. n - (m + 1) -> D] /\ v \in D
        OBVIOUS
    <2>3. \A k \in 1 .. n - (m + 1) : b[k] = Decoded(s[(m + 1) + k], E)
        OBVIOUS
    <2> HIDE DEF b, v, D
    <2>4. <<v>> \o b = [k \in 1 .. n - m |-> IF k = 1 THEN v ELSE b[k - 1]]
        <3>1. PICK N \in Nat : N = n - (m + 1) /\ N + 1 = n - m
            BY <2>1
        <3>2. <<v>> \o b = [k \in 1 .. N + 1 |-> IF k = 1 THEN v ELSE b[k - 1]]
            BY SMTT(30), <2>2, <3>1, ConsIs
        <3> QED
            BY <3>1, <3>2
    <2>5. ASSUME NEW k \in 1 .. n - m
          PROVE  (IF k = 1 THEN v ELSE b[k - 1]) = Decoded(s[m + k], E)
        <3>1. CASE k = 1
            BY <3>1 DEF v
        <3>2. CASE k # 1
            <4>1. k - 1 \in 1 .. n - (m + 1) /\ (m + 1) + (k - 1) = m + k
                BY <1>0, <3>2
            <4>2. b[k - 1] = Decoded(s[(m + 1) + (k - 1)], E)
                BY <2>3, <4>1
            <4> QED
                BY <3>2, <4>1, <4>2
        <3> QED
            BY <3>1, <3>2
    <2> QED
        BY <2>4, <2>5 DEF b, v
<1> HIDE DEF p, tail
<1>7. Claim(n)
    <2> SUFFICES ASSUME p(n) <= Len(t) + 1
                 PROVE  readUntil(t, p(n), close) =
                           IF p(n) <= Len(t) THEN Read(tail(n), p(n) + 1) ELSE EOF
        OBVIOUS
    <2>1. n \in 0 .. n
        BY <1>0
    <2>2. p(n) \in 1 .. Len(t) + 1
        BY <1>0, <1>5, <2>1
    <2>3. CASE p(n) > Len(t)
        BY <1>0, <2>2, <2>3, UntilIs
    <2>4. CASE p(n) <= Len(t)
        <3>1. t[p(n)] = close
            <4>1. 1 \in 1 .. Len(<<close>>) /\ p(n) + 1 - 1 = p(n) /\ <<close>>[1] = close
                BY <2>2
            <4>2. t[p(n) + 1 - 1] = <<close>>[1]
                BY <1>3, <2>4, <4>1 DEF Shows
            <4> QED
                BY <4>1, <4>2
        <3>2. tail(n) = << >>
            BY <1>0 DEF tail
        <3>3. readUntil(t, p(n), close) = Read(<<>>, p(n) + 1)
            BY <2>2, <2>4, <3>1, UntilIs
        <3> QED
            BY <2>4, <3>2, <3>3
    <2> QED
        BY <1>0, <2>2, <2>3, <2>4
<1>8. ASSUME NEW m \in 0 .. n - 1, Claim(m + 1)
      PROVE  Claim(m)
    <2> SUFFICES ASSUME p(m) <= Len(t) + 1
                 PROVE  readUntil(t, p(m), close) =
                           IF p(n) <= Len(t) THEN Read(tail(m), p(n) + 1) ELSE EOF
        OBVIOUS
    <2> DEFINE c == s[m + 1]
               w == Len(EscapeRune(c, E))
               next == readUntil(t, p(m + 1), close)
    <2>1. /\ c \in 0 .. 127 /\ m \in 0 .. n /\ m + 1 \in 0 .. n /\ m + 1 \in 1 .. n
        BY <1>0
    <2>2. p(m) \in 1 .. Len(t) + 1 /\ p(m) <= p(n) /\ p(m + 1) <= p(n) /\ p(n) \in Nat /\ p(m + 1) \in Nat
        <3>1. n \in 0 .. n
            BY <1>0
        <3> QED
            BY <1>0, <1>5, <2>1, <3>1
    <2>3. p(m + 1) = p(m) + w /\ Shows(t, p(m), EscapeRune(c, E)) /\ w \in Nat \ {0}
        BY <1>6, <2>1, RuneWritten
    <2>4. CASE p(m) > Len(t)
        <3>1. ~(p(n) <= Len(t))
            BY <1>0, <2>2, <2>4
        <3> QED
            BY <2>2, <2>4, <3>1, UntilIs
    <2>5. CASE p(m) <= Len(t)
        <3>1. p(m) \in 1 .. Len(t)
            BY <2>2, <2>5
        <3>2. /\ ReadChar(t, p(m)) = IF p(m) + w <= Len(t) + 1
                                     THEN Read(Decoded(c, E), p(m) + w) ELSE EOF
              /\ t[p(m)] \notin E \ {92}
            BY ZenonT(60), <2>1, <2>3, <3>1, CharReads
        <3>3. readUntil(t, p(m), close) =
                 Joined(ReadChar(t, p(m)), readUntil(t, ReadChar(t, p(m)).at, close))
            BY ZenonT(60), <2>2, <2>5, <3>2, UntilIs
        <3>4. CASE ~(p(m) + w <= Len(t) + 1)
            <4>1. ReadChar(t, p(m)) = EOF /\ ~(p(n) <= Len(t))
                BY <1>0, <2>2, <2>3, <3>2, <3>4
            <4>2. EOF.err # "nil"
                BY DEF EOF, Fail
            <4> QED
                BY <3>3, <4>1, <4>2 DEF Joined
        <3>5. CASE p(m) + w <= Len(t) + 1
            <4>1. ReadChar(t, p(m)) = Read(Decoded(c, E), p(m + 1))
                BY <2>3, <3>2, <3>5
            <4>2. readUntil(t, p(m), close) = Joined(Read(Decoded(c, E), p(m + 1)), next)
                BY <3>3, <4>1 DEF Read
            <4>3. next = IF p(n) <= Len(t) THEN Read(tail(m + 1), p(n) + 1) ELSE EOF
                BY <1>8, <2>3, <3>5
            <4>4. CASE p(n) <= Len(t)
                <5>1. <<Decoded(c, E)>> \o tail(m + 1) = tail(m)
                    BY <1>tails, <2>1
                <5>2. next = Read(tail(m + 1), p(n) + 1)
                    BY <4>3, <4>4
                <5> HIDE DEF next
                <5> QED
                    BY <4>2, <4>4, <5>1, <5>2 DEF Joined, Read
            <4>5. CASE ~(p(n) <= Len(t))
                <5>1. next = EOF
                    BY <4>3, <4>5
                <5> HIDE DEF next
                <5> QED
                    BY <4>2, <4>5, <5>1 DEF Joined, Read, EOF, Fail
            <4> QED
                BY <4>4, <4>5
        <3> QED
            BY <3>4, <3>5
    <2> QED
        BY <1>0, <2>2, <2>4, <2>5
<1> HIDE DEF Claim
<1>9. ASSUME NEW k \in X, \A m \in X : k <= m
      PROVE  FALSE
    <2>1. k \in 0 .. n /\ ~Claim(n - k)
        OBVIOUS
    <2>2. k # 0
        BY <1>0, <1>7, <2>1
    <2>3. k - 1 \in 0 .. n /\ ~(k <= k - 1) /\ n - (k - 1) = (n - k) + 1 /\ n - k \in 0 .. n - 1
        BY <1>0, <2>1, <2>2
    <2>4. Claim(n - (k - 1))
        BY <1>9, <2>3
    <2> QED
        BY <1>8, <2>1, <2>3, <2>4
<1>10. X = {}
    <2>1. X \in SUBSET Nat
        OBVIOUS
    <2> HIDE DEF X
    <2> QED
        BY <1>9, <2>1, LeastNatural
<1>11. Claim(0)
    <2>1. n \in 0 .. n /\ n - n = 0
        BY <1>0
    <2> QED
        BY <1>10, <2>1
<1>12. readUntil(t, i, close) = IF p(n) <= Len(t) THEN Read(tail(0), p(n) + 1) ELSE EOF
    BY <1>4, <1>11 DEF Claim
<1>13. tail(0) = Decode(s, E)
    <2>1. n - 0 = n /\ \A k \in 1 .. n : 0 + k = k
        BY <1>0
    <2> QED
        BY <2>1 DEF tail, Decode
<1>14. p(n) = i + Len(Escape(s, E))
    BY <1>1 DEF p
<1> QED
    BY <1>12, <1>13, <1>14


-----------------------------------------------------------------------------
(* The methods return a node, None or an error, for any text *)

AnyNode ==
    [kind : {"iri", "blank", "string", "lang", "typed"}, chars : Seq(Nat), tag : Seq(Nat)]
MaybeNode == AnyNode \cup {None}
Iris == {Iri(s) : s \in Seq(Nat)}

LEMMA NodeMade ==
    ASSUME NEW s \in Seq(Nat), NEW u \in Seq(Nat)
    PROVE  /\ Iri(s) \in AnyNode /\ Blank(s) \in AnyNode /\ String(s) \in AnyNode
           /\ LocString(s, u) \in AnyNode /\ TypedString(s, u) \in AnyNode
           /\ Iri(s) \in Iris /\ Iri(s).chars = s
<1>1. << >> \in Seq(Nat)
    OBVIOUS
<1> QED
    BY <1>1 DEF AnyNode, Iris, Iri, Blank, String, LocString, TypedString, Node

LEMMA NoneIsNoNode == None \notin AnyNode /\ Iris \subseteq AnyNode /\ None \notin Iris
<1>1. None \notin AnyNode
    BY NoneAssumption DEF AnyNode
<1>2. Iris \subseteq AnyNode
    BY NodeMade DEF Iris
<1> QED
    BY <1>1, <1>2

LEMMA ResultLater ==
    ASSUME NEW V, NEW W, V \subseteq W, NEW t \in Seq(Nat), NEW i \in Nat, NEW j \in Nat, i <= j,
           NEW r \in Results(V, t, j)
    PROVE  r \in Results(W, t, i)
<1>1. Len(t) \in Nat
    OBVIOUS
<1>2. r.err # "nil" => r \in Results(W, t, i)
    BY ResultIs, ResultMade
<1>3. CASE r.err = "nil"
    <2>1. r.val \in V /\ r.at \in j .. Len(t) + 1 /\ r = Read(r.val, r.at)
        BY <1>3, ResultIs
    <2>2. r.val \in W /\ r.at \in i .. Len(t) + 1
        BY <1>1, <2>1
    <2> QED
        BY <2>1, <2>2, ResultMade
<1> QED
    BY <1>2, <1>3

LEMMA IriIs ==
    ASSUME NEW t, NEW i
    PROVE  LET j == readSpaces(t, i)
               r == readUntil(t, j + 1, Greater)
           IN  readIri(t, i) =
                  IF j > Len(t) THEN EOF
                  ELSE IF t[j] # Less THEN Read(None, j)
                  ELSE IF r.err = "nil" THEN Read(Iri(r.val), r.at) ELSE r
BY DEF readIri, Map

LEMMA IriEnd ==
    ASSUME NEW t \in Seq(Nat), NEW i \in 1 .. Len(t) + 1
    PROVE  readIri(t, i) \in Results(Iris \cup {None}, t, i)
<1> DEFINE j == readSpaces(t, i)
           r == readUntil(t, j + 1, Greater)
           V == Iris \cup {None}
<1>0. Len(t) \in Nat
    OBVIOUS
<1>1. j \in i .. Len(t) + 1 /\ j \in Nat /\ i \in Nat
    BY <1>0, SpacesEnd
<1>2. readIri(t, i) =
         IF j > Len(t) THEN EOF
         ELSE IF t[j] # Less THEN Read(None, j)
         ELSE IF r.err = "nil" THEN Read(Iri(r.val), r.at) ELSE r
    BY IriIs
<1>3. None \in V
    OBVIOUS
<1>4. CASE j > Len(t)
    BY <1>2, <1>4, ResultMade
<1>5. CASE j <= Len(t)
    <2>1. j + 1 \in 1 .. Len(t) + 1
        BY <1>0, <1>1, <1>5
    <2>2. r \in Results(Seq(Nat), t, (j + 1) + 1)
        BY <2>1, UntilEnd
    <2>3. r.err # "nil" => r.err \in Errors /\ r = Fail(r.err)
        BY <2>2, ResultIs
    <2>4. r.err = "nil" => r.val \in Seq(Nat) /\ r.at \in (j + 1) + 1 .. Len(t) + 1
        BY <2>2, ResultIs
    <2> HIDE DEF r, V
    <2>5. r.err = "nil" => Iri(r.val) \in V /\ r.at \in i .. Len(t) + 1
        BY <1>0, <1>1, <2>4, NodeMade DEF V
    <2>6. r.err = "nil" => Read(Iri(r.val), r.at) \in Results(V, t, i)
        BY <2>5, ResultMade
    <2>7. r.err # "nil" => r \in Results(V, t, i)
        BY <2>3, ResultMade
    <2>8. Read(None, j) \in Results(V, t, i)
        BY <1>1, <1>3, ResultMade
    <2>9. ~(j > Len(t))
        BY <1>0, <1>1, <1>5
    <2> QED
        BY <1>2, <2>6, <2>7, <2>8, <2>9 DEF V
<1> QED
    BY <1>0, <1>1, <1>4, <1>5

LEMMA BlankEnd ==
    ASSUME NEW t \in Seq(Nat), NEW i \in 1 .. Len(t) + 1
    PROVE  readBlank(t, i) \in Results(MaybeNode, t, i)
<1> DEFINE j == readSpaces(t, i)
           e == Find(t, j + 2, Spaces)
           name == SubSeq(t, j + 2, e - 1)
<1>0. Len(t) \in Nat
    OBVIOUS
<1>1. j \in i .. Len(t) + 1 /\ j \in Nat /\ i \in Nat
    BY <1>0, SpacesEnd
<1>2. readBlank(t, i) =
         IF j + 1 > Len(t) THEN EOF
         ELSE IF SubSeq(t, j, j + 1) # <<Underscore, Colon>> THEN Read(None, j)
         ELSE IF e > Len(t) THEN EOF
         ELSE Read(Blank(name), e)
    BY DEF readBlank
<1>3. CASE j + 1 > Len(t)
    BY <1>2, <1>3, ResultMade
<1>4. CASE ~(j + 1 > Len(t))
    <2>1. j + 2 \in 1 .. Len(t) + 1
        BY <1>0, <1>1, <1>4
    <2>2. e \in j + 2 .. Len(t) + 1
        BY <2>1, Found
    <2>3. name \in Seq(Nat)
        <3>1. \A k \in j + 2 .. e - 1 : k \in 1 .. Len(t)
            BY <1>0, <1>1, <2>2
        <3> HIDE DEF e
        <3> QED
            BY <1>1, <2>2, <3>1, SubSeqProperties
    <2> HIDE DEF name, e
    <2>4. Blank(name) \in MaybeNode /\ e \in i .. Len(t) + 1
        BY <1>0, <1>1, <2>2, <2>3, NodeMade DEF MaybeNode
    <2>5. Read(Blank(name), e) \in Results(MaybeNode, t, i)
        BY <2>4, ResultMade
    <2>6. Read(None, j) \in Results(MaybeNode, t, i)
        <3>1. None \in MaybeNode
            BY DEF MaybeNode
        <3> QED
            BY <1>1, <3>1, ResultMade
    <2>7. EOF \in Results(MaybeNode, t, i)
        BY ResultMade
    <2> HIDE DEF j
    <2> QED
        BY <1>2, <1>4, <2>5, <2>6, <2>7
<1> QED
    BY <1>3, <1>4

LEMMA SubjectEnd ==
    ASSUME NEW t \in Seq(Nat), NEW i \in 1 .. Len(t) + 1
    PROVE  readSubject(t, i) \in Results(MaybeNode, t, i)
<1> DEFINE r == readIri(t, i)
<1>0. Len(t) \in Nat /\ i \in Nat
    OBVIOUS
<1>1. r \in Results(Iris \cup {None}, t, i)
    BY IriEnd
<1>2. Iris \cup {None} \subseteq MaybeNode
    BY NoneIsNoNode DEF MaybeNode
<1>3. r \in Results(MaybeNode, t, i)
    BY <1>0, <1>1, <1>2, ResultLater
<1>4. readSubject(t, i) = IF r.err # "nil" \/ r.val # None THEN r ELSE readBlank(t, r.at)
    BY DEF readSubject
<1>5. CASE r.err = "nil"
    <2>1. r.at \in i .. Len(t) + 1
        BY <1>3, <1>5, ResultIs
    <2> HIDE DEF r
    <2>2. r.at \in 1 .. Len(t) + 1 /\ r.at \in Nat /\ i <= r.at
        BY <1>0, <2>1
    <2>3. readBlank(t, r.at) \in Results(MaybeNode, t, r.at)
        BY <2>2, BlankEnd
    <2>4. readBlank(t, r.at) \in Results(MaybeNode, t, i)
        BY <1>0, <2>2, <2>3, ResultLater
    <2> QED
        BY <1>3, <1>4, <2>4
<1> QED
    BY <1>3, <1>4, <1>5

LEMMA LiteralIs ==
    ASSUME NEW t, NEW i
    PROVE  LET j == readSpaces(t, i)
               content == readUntil(t, j + 1, Quote)
               k == readSpaces(t, content.at)
               type == readIri(t, k)
           IN  readLiteral(t, i) =
                  IF j > Len(t) THEN EOF
                  ELSE IF t[j] # Quote THEN Read(None, j)
                  ELSE IF content.err # "nil" THEN content
                  ELSE IF k + 1 > Len(t) THEN EOF
                  ELSE IF SubSeq(t, k, k + 1) = <<Caret, Caret>>
                  THEN IF type.val = None THEN Fail("ExpectedLiteralType")
                       ELSE Read(TypedString(content.val, type.val.chars), type.at)
                  ELSE IF t[k] = At THEN Fail("InvalidCharacterInLanguageTag")
                  ELSE Read(String(content.val), k)
BY DEF readLiteral

LEMMA LiteralEnd ==
    ASSUME NEW t \in Seq(Nat), NEW i \in 1 .. Len(t) + 1
    PROVE  readLiteral(t, i) \in Results(MaybeNode, t, i)
<1> DEFINE j == readSpaces(t, i)
           content == readUntil(t, j + 1, Quote)
           k == readSpaces(t, content.at)
           type == readIri(t, k)
<1>0. Len(t) \in Nat
    OBVIOUS
<1>1. j \in i .. Len(t) + 1 /\ j \in Nat /\ i \in Nat
    BY <1>0, SpacesEnd
<1>2. readLiteral(t, i) =
         IF j > Len(t) THEN EOF
         ELSE IF t[j] # Quote THEN Read(None, j)
         ELSE IF content.err # "nil" THEN content
         ELSE IF k + 1 > Len(t) THEN EOF
         ELSE IF SubSeq(t, k, k + 1) = <<Caret, Caret>>
         THEN IF type.val = None THEN Fail("ExpectedLiteralType")
              ELSE Read(TypedString(content.val, type.val.chars), type.at)
         ELSE IF t[k] = At THEN Fail("InvalidCharacterInLanguageTag")
         ELSE Read(String(content.val), k)
    BY LiteralIs
<1>3. EOF \in Results(MaybeNode, t, i) /\ \A e \in Errors : Fail(e) \in Results(MaybeNode, t, i)
    BY ResultMade
<1>4. CASE j > Len(t)
    BY <1>2, <1>3, <1>4
<1>5. CASE ~(j > Len(t))
    <2>1. j + 1 \in 1 .. Len(t) + 1
        BY <1>0, <1>1, <1>5
    <2>2. content \in Results(Seq(Nat), t, (j + 1) + 1)
        BY <2>1, UntilEnd
    <2>3. CASE t[j] # Quote
        <3>1. None \in MaybeNode
            BY DEF MaybeNode
        <3>2. Read(None, j) \in Results(MaybeNode, t, i)
            BY <1>1, <3>1, ResultMade
        <3> QED
            BY <1>2, <1>5, <2>3, <3>2
    <2>4. CASE t[j] = Quote /\ content.err # "nil"
        <3>1. content \in Results(MaybeNode, t, i)
            BY <1>3, <2>2, <2>4, ResultIs
        <3> QED
            BY <1>2, <1>5, <2>4, <3>1
    <2>5. CASE t[j] = Quote /\ content.err = "nil"
        <3>1. content.val \in Seq(Nat) /\ content.at \in (j + 1) + 1 .. Len(t) + 1
            BY <2>2, <2>5, ResultIs
        <3> HIDE DEF content
        <3>2. content.at \in 1 .. Len(t) + 1 /\ content.at >= i /\ content.at \in Nat
            BY <1>0, <1>1, <3>1
        <3>3. k \in content.at .. Len(t) + 1
            BY <3>2, SpacesEnd
        <3> HIDE DEF k
        <3>4. k \in i .. Len(t) + 1 /\ k \in 1 .. Len(t) + 1 /\ k \in Nat /\ i <= k
            BY <1>0, <1>1, <3>2, <3>3
        <3>5. type \in Results(Iris \cup {None}, t, k)
            BY <3>4, IriEnd
        <3>6. type.err # "nil" => type = Fail(type.err)
            BY <3>5, ResultIs
        <3>7. type.err = "nil" => type.val \in Iris \cup {None} /\ type.at \in k .. Len(t) + 1
            BY <3>5, ResultIs
        <3> HIDE DEF type
        <3>8. type.val # None => type.err = "nil"
            BY <3>6 DEF Fail
        <3>9. ASSUME type.val # None
              PROVE  Read(TypedString(content.val, type.val.chars), type.at) \in Results(MaybeNode, t, i)
            <4>1. type.val \in Iris /\ type.at \in i .. Len(t) + 1
                BY <1>0, <1>1, <3>4, <3>7, <3>8, <3>9
            <4>2. type.val.chars \in Seq(Nat)
                BY <4>1, NodeMade DEF Iris
            <4>3. TypedString(content.val, type.val.chars) \in MaybeNode
                BY <3>1, <4>2, NodeMade DEF MaybeNode
            <4> QED
                BY <4>1, <4>3, ResultMade
        <3>10. Read(String(content.val), k) \in Results(MaybeNode, t, i)
            <4>1. String(content.val) \in MaybeNode
                BY <3>1, NodeMade DEF MaybeNode
            <4> QED
                BY <3>4, <4>1, ResultMade
        <3>11. /\ Fail("ExpectedLiteralType") \in Results(MaybeNode, t, i)
               /\ Fail("InvalidCharacterInLanguageTag") \in Results(MaybeNode, t, i)
            BY <1>3 DEF Errors
        <3> HIDE DEF j
        <3> QED
            BY <1>2, <1>3, <1>5, <2>5, <3>9, <3>10, <3>11
    <2> QED
        BY <2>3, <2>4, <2>5
<1> QED
    BY <1>4, <1>5

LEMMA ObjectEnd ==
    ASSUME NEW t \in Seq(Nat), NEW i \in 1 .. Len(t) + 1
    PROVE  readObject(t, i) \in Results(MaybeNode, t, i)
<1> DEFINE r == readSubject(t, i)
<1>0. Len(t) \in Nat /\ i \in Nat
    OBVIOUS
<1>1. r \in Results(MaybeNode, t, i)
    BY SubjectEnd
<1>2. readObject(t, i) = IF r.err # "nil" \/ r.val # None THEN r ELSE readLiteral(t, r.at)
    BY DEF readObject
<1>3. CASE r.err = "nil"
    <2>1. r.at \in i .. Len(t) + 1
        BY <1>1, <1>3, ResultIs
    <2> HIDE DEF r
    <2>2. r.at \in 1 .. Len(t) + 1 /\ r.at \in Nat /\ i <= r.at
        BY <1>0, <2>1
    <2>3. readLiteral(t, r.at) \in Results(MaybeNode, t, r.at)
        BY <2>2, LiteralEnd
    <2>4. readLiteral(t, r.at) \in Results(MaybeNode, t, i)
        BY <1>0, <2>2, <2>3, ResultLater
    <2> QED
        BY <1>1, <1>2, <2>4
<1> QED
    BY <1>1, <1>2, <1>3

-----------------------------------------------------------------------------
(* What the writer writes *)

Ascii == 0 .. 127

LEMMA ConcatTyped ==
    ASSUME NEW C, NEW a \in Seq(C), NEW b \in Seq(C)
    PROVE  a \o b \in Seq(C)
OBVIOUS

LEMMA EncodedTyped ==
    ASSUME NEW s \in Texts
    PROVE  EncodeString(s) \in Seq(Ascii) /\ EncodeIri(s) \in Seq(Ascii)
<1>1. EscapeIriChars \in Escapes /\ EscapeStringMoreChars \in Escapes
    BY DEF Escapes
<1>2. Escape(s, EscapeIriChars) \in Seq(Ascii) /\ Escape(s, EscapeStringMoreChars) \in Seq(Ascii)
    BY <1>1, EscapeWritten DEF Texts, Ascii
<1>3. <<Quote>> \in Seq(Ascii) /\ <<Less>> \in Seq(Ascii) /\ <<Greater>> \in Seq(Ascii)
    BY DEF Quote, Less, Greater, Ascii
<1> DEFINE u == Escape(s, EscapeIriChars)
           v == Escape(s, EscapeStringMoreChars)
           q == <<Quote>>
           l == <<Less>>
           g == <<Greater>>
<1>4. EncodeString(s) = q \o v \o q /\ EncodeIri(s) = l \o u \o g
    BY DEF EncodeString, EncodeIri
<1> HIDE DEF u, v, q, l, g
<1>5. q \o v \in Seq(Ascii) /\ l \o u \in Seq(Ascii)
    BY <1>2, <1>3, ConcatTyped DEF u, v, q, l
<1> QED
    BY <1>3, <1>4, <1>5, ConcatTyped DEF q, g

\* The kinds of nodes, and what each is written as.
LEMMA ObjectIs ==
    ASSUME NEW n \in Objects
    PROVE  /\ n.chars \in Texts /\ n.kind \in {"iri", "blank", "string", "lang", "typed"}
           /\ n.kind \in {"iri", "blank", "string"} => n = Node(n.kind, n.chars, << >>)
           /\ n.kind \in {"iri", "blank"} => n \in Resources
           /\ n.kind = "blank" => Range(n.chars) \cap Spaces = {}
           /\ n.kind \in {"lang", "typed"} => n.tag \in Texts
           /\ n # None
<1>1. n # None
    <2>1. Texts \subseteq Seq(Nat)
        <3>1. 0 .. 127 \subseteq Nat
            OBVIOUS
        <3> QED
            BY <3>1, SeqMonotonic DEF Texts
    <2>2. n \in AnyNode
        <3>1. << >> \in Seq(Nat)
            OBVIOUS
        <3>2. n \in [kind : {"iri", "blank", "string", "lang", "typed"}, chars : Texts, tag : Texts \cup {<<>>}]
            BY DEF Objects, Resources, Plain
        <3> QED
            BY <2>1, <3>1, <3>2 DEF AnyNode
    <2> QED
        BY <2>2, NoneIsNoNode
<1>2. \A kinds : n \in Plain(kinds) => n = Node(n.kind, n.chars, << >>) /\ n.kind \in kinds /\ n.chars \in Texts
    BY DEF Plain, Node
<1>3. CASE n \in Resources
    <2>1. n \in Plain({"iri", "blank"}) /\ (n.kind = "blank" => Range(n.chars) \cap Spaces = {})
        BY <1>3 DEF Resources
    <2> QED
        BY <1>1, <1>2, <1>3, <2>1
<1>4. CASE n \in Plain({"string"})
    BY <1>1, <1>2, <1>4
<1>5. CASE n \in [kind : {"lang", "typed"}, chars : Texts, tag : Texts]
    BY <1>1, <1>5
<1> QED
    BY <1>3, <1>4, <1>5 DEF Objects

LEMMA EncodeIs ==
    ASSUME NEW n \in Objects
    PROVE  /\ n.kind = "iri" => EncodeAny(n) = EncodeIri(n.chars)
           /\ n.kind = "blank" => EncodeAny(n) = <<Underscore, Colon>> \o n.chars
           /\ n.kind = "string" => EncodeAny(n) = EncodeString(n.chars)
           /\ n.kind = "lang" => EncodeAny(n) = EncodeString(n.chars) \o <<At>> \o n.tag
           /\ n.kind = "typed" =>
                 EncodeAny(n) = EncodeString(n.chars) \o <<Caret, Caret>> \o EncodeIri(n.tag)
BY ObjectIs DEF EncodeAny

LEMMA EncodeTyped ==
    ASSUME NEW n \in Objects
    PROVE  EncodeAny(n) \in Seq(Ascii)
<1>1. n.chars \in Texts /\ n.chars \in Seq(Ascii)
    BY ObjectIs DEF Texts, Ascii
<1>2. n.kind \in {"lang", "typed"} => n.tag \in Texts /\ n.tag \in Seq(Ascii)
    BY ObjectIs DEF Texts, Ascii
<1>3. EncodeString(n.chars) \in Seq(Ascii) /\ EncodeIri(n.chars) \in Seq(Ascii)
    BY <1>1, EncodedTyped
<1>4. /\ <<Underscore, Colon>> \in Seq(Ascii) /\ <<At>> \in Seq(Ascii)
      /\ <<Caret, Caret>> \in Seq(Ascii)
    BY DEF Underscore, Colon, At, Caret, Ascii
<1>5. CASE n.kind = "iri" \/ n.kind = "string"
    BY <1>3, <1>5, EncodeIs
<1>6. CASE n.kind = "blank"
    BY <1>1, <1>4, <1>6, EncodeIs, ConcatTyped
<1>7. CASE n.kind = "lang"
    <2>1. EncodeString(n.chars) \o <<At>> \in Seq(Ascii)
        BY <1>3, <1>4, ConcatTyped
    <2>2. n.tag \in Seq(Ascii)
        BY <1>2, <1>7
    <2> QED
        BY <1>7, <2>1, <2>2, EncodeIs, ConcatTyped
<1>8. CASE n.kind = "typed"
    <2>1. EncodeString(n.chars) \o <<Caret, Caret>> \in Seq(Ascii)
        BY <1>3, <1>4, ConcatTyped
    <2>2. EncodeIri(n.tag) \in Seq(Ascii)
        BY <1>2, <1>8, EncodedTyped
    <2> QED
        BY <1>8, <2>1, <2>2, EncodeIs, ConcatTyped
<1> QED
    BY <1>5, <1>6, <1>7, <1>8, ObjectIs

LEMMA StatementIs ==
    ASSUME NEW st \in Statements
    PROVE  /\ st.subject \in Resources /\ st.predicate \in Objects /\ st.object \in Objects
           /\ st.subject \in Objects /\ st.predicate.kind = "iri"
           /\ st.graph # None => st.graph \in Objects /\ st.graph.kind = "iri"
           /\ st = Statement(st.subject, st.predicate, st.object, st.graph)
<1>1. Plain({"iri"}) \subseteq Resources
    BY DEF Plain, Resources
<1> QED
    BY <1>1 DEF Statements, Objects, Plain, Statement

LEMMA CallIs ==
    ASSUME NEW c \in Calls
    PROVE  /\ c.kind \in {"statement", "comment", "empty"}
           /\ c.kind = "statement" => c.st \in Statements /\ Line(c) = Quad(c.st) /\ c.comment = << >>
           /\ c.kind = "comment" => c.comment \in Texts /\ Line(c) = Comment(c.comment)
           /\ c.kind = "empty" => Line(c) = <<LF>> /\ c.comment = << >>
BY CallsAssumption DEF Line, WriteEmptyLine

-----------------------------------------------------------------------------
(* A statement: where each part of it begins *)

SubjectEnds(st) == Len(EncodeAny(st.subject))
PredicateEnds(st) == SubjectEnds(st) + 1 + Len(EncodeAny(st.predicate))
ObjectEnds(st) == PredicateEnds(st) + 1 + Len(EncodeAny(st.object))
GraphEnds(st) == ObjectEnds(st) + (IF st.graph = None THEN 0 ELSE 1 + Len(EncodeAny(st.graph)))

\* What t shows when it shows st at i.
ShowsParts(t, i, st) ==
    /\ Shows(t, i, EncodeAny(st.subject)) /\ Shows(t, i + SubjectEnds(st), <<Space>>)
    /\ Shows(t, i + SubjectEnds(st) + 1, EncodeAny(st.predicate))
    /\ Shows(t, i + PredicateEnds(st), <<Space>>)
    /\ Shows(t, i + PredicateEnds(st) + 1, EncodeAny(st.object))
    /\ Shows(t, i + ObjectEnds(st), <<Space>>)
    /\ st.graph # None => Shows(t, i + ObjectEnds(st) + 1, EncodeAny(st.graph))
    /\ Shows(t, i + GraphEnds(st), <<Space>>)
    /\ Shows(t, i + GraphEnds(st) + 1, <<Dot>>)
    /\ Shows(t, i + GraphEnds(st) + 2, <<LF>>)

LEMMA LengthsAre ==
    ASSUME NEW st \in Statements
    PROVE  /\ Len(EncodeAny(st.subject)) \in Nat /\ Len(EncodeAny(st.predicate)) \in Nat
           /\ Len(EncodeAny(st.object)) \in Nat
           /\ st.graph # None => Len(EncodeAny(st.graph)) \in Nat
           /\ SubjectEnds(st) \in Nat /\ PredicateEnds(st) \in Nat /\ ObjectEnds(st) \in Nat
           /\ GraphEnds(st) \in Nat
           /\ SubjectEnds(st) < PredicateEnds(st) /\ PredicateEnds(st) < ObjectEnds(st)
           /\ ObjectEnds(st) <= GraphEnds(st)
<1>1. /\ Len(EncodeAny(st.subject)) \in Nat /\ Len(EncodeAny(st.predicate)) \in Nat
      /\ Len(EncodeAny(st.object)) \in Nat
      /\ st.graph # None => Len(EncodeAny(st.graph)) \in Nat
    BY StatementIs, EncodeTyped, LenProperties
<1>2. SubjectEnds(st) \in Nat
    BY <1>1 DEF SubjectEnds
<1>3. PredicateEnds(st) \in Nat /\ SubjectEnds(st) < PredicateEnds(st)
    BY <1>1, <1>2 DEF PredicateEnds
<1>4. ObjectEnds(st) \in Nat /\ PredicateEnds(st) < ObjectEnds(st)
    BY <1>1, <1>3 DEF ObjectEnds
<1>5. GraphEnds(st) \in Nat /\ ObjectEnds(st) <= GraphEnds(st)
    BY <1>1, <1>4 DEF GraphEnds
<1> QED
    BY <1>1, <1>2, <1>3, <1>4, <1>5

LEMMA QuadIs ==
    ASSUME NEW st \in Statements
    PROVE  /\ Quad(st) \in Seq(Ascii) /\ Len(Quad(st)) = GraphEnds(st) + 3
           /\ \A t : \A i \in Nat : Shows(t, i, Quad(st)) => ShowsParts(t, i, st)
<1> DEFINE s == EncodeAny(st.subject)
           p == EncodeAny(st.predicate)
           o == EncodeAny(st.object)
           g == IF st.graph = None THEN << >> ELSE <<Space>> \o EncodeAny(st.graph)
           sp == <<Space>>
           z == <<Space, Dot, LF>>
           a1 == s \o sp
           a2 == a1 \o p
           a3 == a2 \o sp
           a4 == a3 \o o
           a5 == a4 \o g
<1>1. s \in Seq(Ascii) /\ p \in Seq(Ascii) /\ o \in Seq(Ascii)
    BY StatementIs, EncodeTyped
<1>2. sp \in Seq(Ascii) /\ z \in Seq(Ascii) /\ Len(sp) = 1 /\ Len(z) = 3
    BY DEF Space, Dot, LF, Ascii
<1>3. /\ g \in Seq(Ascii)
      /\ Len(g) = IF st.graph = None THEN 0 ELSE 1 + Len(EncodeAny(st.graph))
      /\ st.graph # None => g = sp \o EncodeAny(st.graph) /\ EncodeAny(st.graph) \in Seq(Ascii)
    <2>1. CASE st.graph = None
        <3>1. g = << >> /\ << >> \in Seq(Ascii) /\ Len(<< >>) = 0
            BY <2>1
        <3> QED
            BY <2>1, <3>1
    <2>2. CASE st.graph # None
        <3>1. EncodeAny(st.graph) \in Seq(Ascii)
            BY <2>2, StatementIs, EncodeTyped
        <3>2. g = sp \o EncodeAny(st.graph)
            BY <2>2
        <3> HIDE DEF g, sp
        <3>3. g \in Seq(Ascii) /\ Len(g) = Len(sp) + Len(EncodeAny(st.graph))
            BY <1>2, <3>1, <3>2, ConcatProperties
        <3> QED
            BY <1>2, <2>2, <3>1, <3>2, <3>3
    <2> QED
        BY <2>1, <2>2
<1>4. Quad(st) = a5 \o z
    BY DEF Quad
<1> HIDE DEF s, p, o, g, sp, z
<1>5. /\ a1 \in Seq(Ascii) /\ a2 \in Seq(Ascii) /\ a3 \in Seq(Ascii) /\ a4 \in Seq(Ascii)
      /\ a5 \in Seq(Ascii)
    BY <1>1, <1>2, <1>3, ConcatTyped
<1>6. /\ Len(a1) = Len(s) + 1 /\ Len(a2) = Len(a1) + Len(p) /\ Len(a3) = Len(a2) + 1
      /\ Len(a4) = Len(a3) + Len(o) /\ Len(a5) = Len(a4) + Len(g)
    <2>1. Len(a1) = Len(s) + Len(sp)
        BY <1>1, <1>2, ConcatProperties
    <2> HIDE DEF a1
    <2>2. Len(a2) = Len(a1) + Len(p)
        BY <1>1, <1>5, ConcatProperties
    <2> HIDE DEF a2
    <2>3. Len(a3) = Len(a2) + Len(sp)
        BY <1>2, <1>5, ConcatProperties
    <2> HIDE DEF a3
    <2>4. Len(a4) = Len(a3) + Len(o)
        BY <1>1, <1>5, ConcatProperties
    <2> HIDE DEF a4
    <2>5. Len(a5) = Len(a4) + Len(g)
        BY <1>3, <1>5, ConcatProperties
    <2> QED
        BY <1>2, <2>1, <2>2, <2>3, <2>4, <2>5
<1>7. Len(s) \in Nat /\ Len(p) \in Nat /\ Len(o) \in Nat /\ Len(g) \in Nat
    BY <1>1, <1>3, LenProperties
<1> DEFINE SE == SubjectEnds(st)
           PE == PredicateEnds(st)
           OE == ObjectEnds(st)
           GE == GraphEnds(st)
<1>8. Len(s) = SE /\ Len(a1) = SE + 1 /\ Len(a2) = PE /\ Len(a3) = PE + 1 /\ Len(a4) = OE /\ Len(a5) = GE
    <2>1. SE = Len(s) /\ PE = SE + 1 + Len(p) /\ OE = PE + 1 + Len(o) /\ GE = OE + Len(g)
        BY <1>3 DEF SubjectEnds, PredicateEnds, ObjectEnds, GraphEnds, s, p, o
    <2> HIDE DEF SE, PE, OE, GE, a1, a2, a3, a4, a5
    <2> QED
        BY <1>6, <1>7, <2>1
<1>9. Quad(st) \in Seq(Ascii) /\ Len(Quad(st)) = GE + 3
    <2>1. a5 \in Seq(Ascii) /\ Len(a5) = GE /\ z \in Seq(Ascii) /\ Len(z) = 3
        BY <1>2, <1>5, <1>8
    <2> HIDE DEF a5, GE
    <2>2. a5 \o z \in Seq(Ascii) /\ Len(a5 \o z) = Len(a5) + Len(z)
        BY <2>1, ConcatProperties
    <2> QED
        BY <1>4, <2>1, <2>2
<1>10. SE \in Nat /\ PE \in Nat /\ OE \in Nat /\ GE \in Nat
    BY LengthsAre
<1>11. ASSUME NEW t, NEW i \in Nat, Shows(t, i, Quad(st))
       PROVE  ShowsParts(t, i, st)
    <2> HIDE DEF SE, PE, OE, GE, a1, a2, a3, a4, a5
    <2>1. Shows(t, i, a5) /\ Shows(t, i + GE, z)
        BY <1>2, <1>4, <1>5, <1>8, <1>11, ShowsJoin
    <2>2. Shows(t, i, a4) /\ Shows(t, i + OE, g)
        BY <1>3, <1>5, <1>8, <2>1, ShowsJoin DEF a5
    <2>3. Shows(t, i, a3) /\ Shows(t, i + PE + 1, o)
        <3>1. Shows(t, i, a3) /\ Shows(t, i + (PE + 1), o)
            BY <1>1, <1>5, <1>8, <2>2, ShowsJoin DEF a4
        <3>2. i + (PE + 1) = i + PE + 1
            BY <1>10
        <3> QED
            BY <3>1, <3>2
    <2>4. Shows(t, i, a2) /\ Shows(t, i + PE, sp)
        BY <1>2, <1>5, <1>8, <2>3, ShowsJoin DEF a3
    <2>5. Shows(t, i, a1) /\ Shows(t, i + SE + 1, p)
        <3>1. Shows(t, i, a1) /\ Shows(t, i + (SE + 1), p)
            BY <1>1, <1>5, <1>8, <2>4, ShowsJoin DEF a2
        <3>2. i + (SE + 1) = i + SE + 1
            BY <1>10
        <3> QED
            BY <3>1, <3>2
    <2>6. Shows(t, i, s) /\ Shows(t, i + SE, sp)
        BY <1>1, <1>2, <1>8, <2>5, ShowsJoin DEF a1
    <2>7. Shows(t, i + GE, sp) /\ Shows(t, i + GE + 1, <<Dot>>) /\ Shows(t, i + GE + 2, <<LF>>)
        <3>1. i + GE \in Nat
            BY <1>10
        <3>2. z = <<Space, Dot, LF>>
            BY DEF z
        <3>3. \A k \in 1 .. 3 : (i + GE) + k - 1 <= Len(t) => t[(i + GE) + k - 1] = z[k]
            BY <1>2, <2>1 DEF Shows
        <3>4. z[1] = Space /\ z[2] = Dot /\ z[3] = LF
            BY <3>2
        <3>5. /\ (i + GE) + 1 - 1 = i + GE /\ (i + GE) + 2 - 1 = i + GE + 1
              /\ (i + GE) + 3 - 1 = i + GE + 2
            BY <3>1
        <3>6. /\ i + GE <= Len(t) => t[i + GE] = Space
              /\ i + GE + 1 <= Len(t) => t[i + GE + 1] = Dot
              /\ i + GE + 2 <= Len(t) => t[i + GE + 2] = LF
            BY <3>3, <3>4, <3>5
        <3>7. i + GE \in Nat /\ i + GE + 1 \in Nat /\ i + GE + 2 \in Nat
            BY <3>1
        <3> QED
            BY <3>6, <3>7, ShowsOne DEF sp
    <2>8. /\ st.graph = None => Shows(t, i + OE, sp)
          /\ st.graph # None => Shows(t, i + OE, sp) /\ Shows(t, i + OE + 1, EncodeAny(st.graph))
        <3>1. CASE st.graph = None
            <4>1. GE = OE
                BY <1>10, <3>1 DEF GE, OE, GraphEnds
            <4> QED
                BY <2>7, <3>1, <4>1
        <3>2. CASE st.graph # None
            <4>1. i + OE \in Nat
                BY <1>10
            <4>2. Shows(t, i + OE, sp) /\ Shows(t, (i + OE) + Len(sp), EncodeAny(st.graph))
                BY <1>2, <1>3, <2>2, <3>2, <4>1, ShowsJoin
            <4> QED
                BY <1>2, <3>2, <4>2
        <3> QED
            BY <3>1, <3>2
    <2> QED
        BY <2>2, <2>3, <2>4, <2>5, <2>6, <2>7, <2>8 DEF ShowsParts, s, p, o, sp, SE, PE, OE, GE
<1> QED
    BY <1>9, <1>11

-----------------------------------------------------------------------------
(* A comment: each line of it begins with a # *)

Marked(u) == \A k \in 1 .. Len(u) : u[k] = LF => k < Len(u) /\ u[k + 1] = Number

Clear(u) == \A k \in 1 .. Len(u) : u[k] # CR

LEMMA MarkedJoin ==
    ASSUME NEW a \in Seq(Ascii), NEW b \in Seq(Ascii), Marked(a), Marked(b)
    PROVE  Marked(a \o b) /\ (Clear(a) /\ Clear(b) => Clear(a \o b))
<1> DEFINE c == a \o b
<1>1. /\ Len(a) \in Nat /\ Len(b) \in Nat /\ Len(c) = Len(a) + Len(b)
      /\ \A k \in 1 .. Len(c) : c[k] = IF k <= Len(a) THEN a[k] ELSE b[k - Len(a)]
    BY ConcatProperties, LenProperties
<1> HIDE DEF c
<1>2. ASSUME NEW k \in 1 .. Len(c)
      PROVE  /\ c[k] = LF => k < Len(c) /\ c[k + 1] = Number
             /\ Clear(a) /\ Clear(b) => c[k] # CR
    <2>1. CASE k <= Len(a)
        <3>1. k \in 1 .. Len(a) /\ c[k] = a[k]
            BY <1>1, <2>1
        <3>2. ASSUME a[k] = LF
              PROVE  k < Len(c) /\ c[k + 1] = Number
            <4>1. k < Len(a) /\ a[k + 1] = Number
                BY <3>1, <3>2 DEF Marked
            <4>2. k + 1 \in 1 .. Len(c) /\ k + 1 <= Len(a) /\ k < Len(c)
                BY <1>1, <4>1
            <4> QED
                BY <1>1, <4>1, <4>2
        <3> QED
            BY <3>1, <3>2 DEF Clear
    <2>2. CASE ~(k <= Len(a))
        <3>1. k - Len(a) \in 1 .. Len(b) /\ c[k] = b[k - Len(a)]
            BY <1>1, <2>2
        <3>2. ASSUME b[k - Len(a)] = LF
              PROVE  k < Len(c) /\ c[k + 1] = Number
            <4>1. k - Len(a) < Len(b) /\ b[(k - Len(a)) + 1] = Number
                BY <3>1, <3>2 DEF Marked
            <4>2. k + 1 \in 1 .. Len(c) /\ ~(k + 1 <= Len(a)) /\ k < Len(c) /\ (k + 1) - Len(a) = (k - Len(a)) + 1
                BY <1>1, <2>2, <4>1
            <4> QED
                BY <1>1, <4>1, <4>2
        <3> QED
            BY <3>1, <3>2 DEF Clear
    <2> QED
        BY <2>1, <2>2
<1> QED
    BY <1>2 DEF Marked, Clear, c

LEMMA CommentBody ==
    ASSUME NEW s \in Texts
    PROVE  LET body == FlattenSeq([i \in DOMAIN s |-> IF s[i] = LF THEN <<LF, Number>> ELSE <<s[i]>>])
           IN  body \in Seq(Ascii) /\ Marked(body) /\ (CR \notin Range(s) => Clear(body))
<1> DEFINE n == Len(s)
           ss == [i \in DOMAIN s |-> IF s[i] = LF THEN <<LF, Number>> ELSE <<s[i]>>]
           Free == CR \notin Range(s)
           Good(m) == Marked(Upto(ss, m)) /\ (Free => Clear(Upto(ss, m)))
           X == {k \in 0 .. n : ~Good(k)}
<1>1. n \in Nat /\ DOMAIN s = 1 .. n /\ \A k \in 1 .. n : s[k] \in Ascii
    BY TextIs DEF Ascii
<1>2. ASSUME NEW k \in 1 .. n
      PROVE  ss[k] \in Seq(Ascii) /\ Marked(ss[k]) /\ (Free => Clear(ss[k]))
    <2>1. ss[k] = IF s[k] = LF THEN <<LF, Number>> ELSE <<s[k]>>
        BY <1>1
    <2>2. Free => s[k] # CR
        BY <1>1 DEF Range
    <2> HIDE DEF ss, Free
    <2>3. CASE s[k] = LF
        <3> DEFINE u == <<LF, Number>>
        <3>1. u \in Seq(Ascii) /\ Len(u) = 2 /\ u[1] = LF /\ u[2] = Number
            BY DEF LF, Number, Ascii
        <3> HIDE DEF u
        <3>2. Number # LF /\ Number # CR /\ LF # CR
            BY DEF LF, Number, CR
        <3>3. \A i \in 1 .. Len(u) : i = 1 \/ i = 2
            BY <3>1
        <3>4. Marked(u) /\ Clear(u)
            BY <3>1, <3>2, <3>3 DEF Marked, Clear
        <3> QED
            BY <2>1, <2>3, <3>1, <3>4 DEF u
    <2>4. CASE s[k] # LF
        <3> DEFINE u == <<s[k]>>
        <3>1. u \in Seq(Ascii) /\ Len(u) = 1 /\ u[1] = s[k]
            BY <1>1
        <3> HIDE DEF u
        <3>2. \A i \in 1 .. Len(u) : i = 1
            BY <3>1
        <3>3. Marked(u) /\ (Free => Clear(u))
            BY <2>2, <2>4, <3>1, <3>2 DEF Marked, Clear
        <3> QED
            BY <2>1, <2>4, <3>1, <3>3 DEF u
    <2> QED
        BY <2>3, <2>4
<1>3. DOMAIN ss = 1 .. n /\ ss = [k \in 1 .. n |-> ss[k]]
    BY <1>1
<1> HIDE DEF ss, Free
<1>4. AreSeqs(ss, n, Ascii)
    BY <1>2 DEF AreSeqs
<1> HIDE DEF n
<1>5. FlattenSeq(ss) = Upto(ss, n)
    BY <1>1, <1>3, UptoAll
<1>6. \A k \in 0 .. n : Upto(ss, k) \in Seq(Ascii)
    BY <1>1, <1>4, UptoGrows
<1>7. ASSUME NEW k \in X, \A m \in X : k <= m
      PROVE  FALSE
    <2>1. k \in 0 .. n /\ ~Good(k)
        <3> HIDE DEF Good
        <3> QED
            OBVIOUS
    <2>2. k # 0
        <3>1. Upto(ss, 0) = << >> /\ Len(<< >>) = 0 /\ 1 .. 0 = {}
            BY UptoNone
        <3>2. Good(0)
            BY <3>1 DEF Marked, Clear
        <3> QED
            BY <2>1, <3>2
    <2>3. PICK j \in 0 .. n : k = j + 1 /\ ~(k <= j) /\ j \in Nat
        BY <1>1, <2>1, <2>2
    <2>4. Good(j)
        <3> HIDE DEF Good
        <3> QED
            BY <1>7, <2>3
    <2>5. k \in 1 .. n /\ \A i \in 1 .. j + 1 : ss[i] \in Seq(Ascii)
        <3>1. k \in 1 .. n /\ j + 1 <= n
            BY <1>1, <2>1, <2>2, <2>3
        <3>2. \A i \in 1 .. j + 1 : i \in 1 .. n
            BY <1>1, <2>3, <3>1
        <3> QED
            BY <1>2, <3>1, <3>2
    <2>6. Upto(ss, k) = Upto(ss, j) \o ss[k]
        BY <2>3, <2>5, UptoNext
    <2>7. Upto(ss, j) \in Seq(Ascii)
        BY <1>6
    <2>8. Good(k)
        BY <1>2, <2>4, <2>5, <2>6, <2>7, MarkedJoin
    <2> QED
        BY <2>1, <2>8
<1>8. X = {}
    <2>1. X \in SUBSET Nat
        OBVIOUS
    <2> HIDE DEF X
    <2> QED
        BY <1>7, <2>1, LeastNatural
<1> HIDE DEF Good
<1>9. Good(n) /\ n \in 0 .. n
    BY <1>1, <1>8
<1> QED
    BY <1>5, <1>6, <1>9 DEF Good, ss, Free

Remark(w) ==
    /\ w \in Seq(Ascii) /\ Len(w) \in Nat /\ Len(w) >= 2
    /\ w[1] = Number /\ w[Len(w)] = LF
    /\ \A k \in 1 .. Len(w) - 1 : w[k] = LF => w[k + 1] = Number

LEMMA CommentShape ==
    ASSUME NEW s \in Texts
    PROVE  Remark(Comment(s)) /\ (CR \notin Range(s) => Clear(Comment(s)))
<1> DEFINE body == FlattenSeq([i \in DOMAIN s |-> IF s[i] = LF THEN <<LF, Number>> ELSE <<s[i]>>])
           h == <<Number>>
           z == <<LF>>
           hb == h \o body
           w == hb \o z
           n == Len(body)
<1>1. body \in Seq(Ascii) /\ Marked(body) /\ (CR \notin Range(s) => Clear(body))
    BY CommentBody
<1>2. Comment(s) = w
    BY DEF Comment
<1> HIDE DEF body
<1>3. h \in Seq(Ascii) /\ z \in Seq(Ascii) /\ Len(h) = 1 /\ Len(z) = 1 /\ h[1] = Number /\ z[1] = LF
    BY DEF Number, LF, Ascii
<1>4. n \in Nat
    BY <1>1, LenProperties
<1> HIDE DEF h, z
<1>5. /\ hb \in Seq(Ascii) /\ Len(hb) = n + 1
      /\ \A k \in 1 .. n + 1 : hb[k] = IF k <= 1 THEN h[k] ELSE body[k - 1]
    <2>1. /\ hb \in Seq(Ascii) /\ Len(hb) = Len(h) + Len(body)
          /\ \A k \in 1 .. Len(h) + Len(body) : hb[k] = IF k <= Len(h) THEN h[k] ELSE body[k - Len(h)]
        BY <1>1, <1>3, ConcatProperties
    <2>2. Len(h) + Len(body) = n + 1
        BY <1>3, <1>4
    <2> HIDE DEF hb
    <2> QED
        BY <1>3, <2>1, <2>2
<1> HIDE DEF hb
<1>6. /\ w \in Seq(Ascii) /\ Len(w) = n + 2
      /\ \A k \in 1 .. n + 2 : w[k] = IF k <= n + 1 THEN hb[k] ELSE z[k - (n + 1)]
    <2>1. /\ w \in Seq(Ascii) /\ Len(w) = Len(hb) + Len(z)
          /\ \A k \in 1 .. Len(hb) + Len(z) : w[k] = IF k <= Len(hb) THEN hb[k] ELSE z[k - Len(hb)]
        BY <1>3, <1>5, ConcatProperties
    <2>2. Len(hb) + Len(z) = n + 2
        BY <1>3, <1>4, <1>5
    <2> HIDE DEF w
    <2> QED
        BY <1>5, <2>1, <2>2
<1> HIDE DEF w, n
<1>7. /\ w[1] = Number /\ w[n + 2] = LF
      /\ \A k \in 2 .. n + 1 : w[k] = body[k - 1] /\ k - 1 \in 1 .. n
    <2>1. 1 \in 1 .. n + 2 /\ 1 <= n + 1 /\ 1 \in 1 .. n + 1
        BY <1>4
    <2>2. n + 2 \in 1 .. n + 2 /\ ~(n + 2 <= n + 1) /\ (n + 2) - (n + 1) = 1
        BY <1>4
    <2>3. \A k \in 2 .. n + 1 : k \in 1 .. n + 2 /\ k \in 1 .. n + 1 /\ k <= n + 1 /\ ~(k <= 1) /\ k - 1 \in 1 .. n
        BY <1>4
    <2> QED
        BY <1>3, <1>5, <1>6, <2>1, <2>2, <2>3
<1>8. Number # LF /\ Number # CR /\ LF # CR
    BY DEF LF, Number, CR
<1>9. ASSUME NEW k \in 1 .. n + 1, w[k] = LF
      PROVE  w[k + 1] = Number
    <2>1. k # 1
        BY <1>7, <1>8, <1>9
    <2>2. k \in 2 .. n + 1 /\ k - 1 \in 1 .. n
        BY <1>4, <2>1
    <2>3. body[k - 1] = LF
        BY <1>7, <1>9, <2>2
    <2>4. k - 1 < n /\ body[(k - 1) + 1] = Number
        BY <1>1, <2>2, <2>3 DEF Marked, n
    <2>5. k + 1 \in 2 .. n + 1 /\ (k + 1) - 1 = (k - 1) + 1
        BY <1>4, <2>2, <2>4
    <2> QED
        BY <1>7, <2>4, <2>5
<1>10. ASSUME CR \notin Range(s)
       PROVE  Clear(w)
    <2>1. \A k \in 1 .. n + 2 : k = 1 \/ k = n + 2 \/ k \in 2 .. n + 1
        BY <1>4
    <2>2. \A k \in 1 .. n : body[k] # CR
        BY <1>1, <1>10 DEF Clear, n
    <2>3. \A k \in 1 .. n + 2 : w[k] # CR
        BY <1>7, <1>8, <2>1, <2>2
    <2> QED
        BY <1>6, <2>3 DEF Clear
<1>11. Remark(w)
    <2>1. Len(w) \in Nat /\ Len(w) >= 2 /\ Len(w) - 1 = n + 1
        BY <1>4, <1>6
    <2> QED
        BY <1>6, <1>7, <1>9, <2>1 DEF Remark
<1> QED
    BY <1>2, <1>10, <1>11

\* Where a position stands in a text that may end before it.
Cut(t, p) == IF p <= Len(t) THEN p ELSE Len(t) + 1

\* A comment is skipped, to its last line end.
LEMMA CommentSkipped ==
    ASSUME NEW t \in Seq(Nat), NEW w, NEW i \in 1 .. Len(t) + 1, Remark(w), Clear(w), Shows(t, i, w)
    PROVE  readSpaces(t, i) = readSpaces(t, Cut(t, i + Len(w)))
<1> DEFINE n == Len(w)
           N == Len(t)
           z == Cut(t, i + n)
           p(k) == i + k - 1
           Claim(k) == /\ p(k) <= N + 1
                       /\ w[k] \in {Number, LF}
                       => readSpaces(t, p(k)) = readSpaces(t, z)
           X == {k \in 0 .. n - 1 : ~Claim(n - k)}
<1>0. n \in Nat /\ n >= 2 /\ N \in Nat /\ i \in Nat /\ i >= 1
    BY DEF Remark
<1>1. /\ w[1] = Number /\ w[n] = LF /\ \A k \in 1 .. n : w[k] # CR
      /\ \A k \in 1 .. n - 1 : w[k] = LF => w[k + 1] = Number
    BY DEF Remark, Clear
<1>2. \A k \in 1 .. n : i + k - 1 <= N => t[i + k - 1] = w[k]
    BY DEF Shows
<1>3. Number # LF /\ Number # CR /\ LF # CR /\ LF \in Spaces /\ Number \notin Spaces
    BY DEF LF, Number, CR, Spaces, Tab, Space
<1>4. z \in 1 .. N + 1 /\ (i + n <= N => z = i + n) /\ (~(i + n <= N) => z = N + 1)
    <2> HIDE DEF n
    <2> QED
        BY <1>0 DEF Cut
<1>5. readSpaces(t, N + 1) = N + 1
    <2>1. N + 1 \in 1 .. Len(t) + 1 /\ N + 1 > Len(t)
        BY <1>0
    <2> QED
        BY <2>1, SpacesIs
<1> HIDE DEF z, N, n
<1>6. ASSUME NEW k \in X, \A m \in X : k <= m
      PROVE  FALSE
    <2>1. PICK j \in 1 .. n : j = n - k /\ ~Claim(j)
        <3> HIDE DEF Claim
        <3> QED
            BY <1>0
    <2>2. ASSUME NEW m \in 1 .. n, j < m
          PROVE  Claim(m)
        <3>1. n - m \in 0 .. n - 1 /\ ~(k <= n - m) /\ n - (n - m) = m
            BY <1>0, <2>1, <2>2
        <3> HIDE DEF Claim
        <3> QED
            BY <1>6, <3>1
    <2>3. /\ p(j) <= N + 1 /\ w[j] \in {Number, LF}
          /\ readSpaces(t, p(j)) # readSpaces(t, z)
        BY <2>1
    <2>4. p(j) \in 1 .. N + 1 /\ p(j) \in Nat /\ p(j) >= i /\ p(j) < i + n
        BY <1>0, <2>3
    <2>5. CASE p(j) > N
        <3>1. p(j) = N + 1 /\ z = N + 1
            BY <1>0, <1>4, <2>4, <2>5
        <3> HIDE DEF p
        <3> QED
            BY <1>5, <2>3, <3>1
    <2>6. CASE p(j) <= N
        <3>0. p(j) \in 1 .. N
            BY <1>0, <2>4, <2>6
        <3>1. t[p(j)] = w[j]
            BY <1>2, <2>6
        <3>2. CASE w[j] = LF
            <4>1. readSpaces(t, p(j)) = readSpaces(t, p(j) + 1)
                BY <1>3, <2>4, <2>6, <3>1, <3>2, SpacesIs DEF N
            <4>2. CASE j = n
                <5>1. p(j) + 1 = i + n /\ z = i + n
                    BY <1>0, <1>4, <2>6, <4>2
                <5> QED
                    BY <2>3, <4>1, <5>1
            <4>3. CASE j # n
                <5>1. j + 1 \in 1 .. n /\ j < j + 1 /\ p(j + 1) = p(j) + 1 /\ p(j + 1) <= N + 1 /\ j \in 1 .. n - 1
                    BY <1>0, <2>6, <4>3
                <5>2. w[j + 1] = Number
                    BY <1>1, <3>2, <5>1
                <5>3. Claim(j + 1)
                    BY <2>2, <5>1
                <5> QED
                    BY <2>3, <4>1, <5>1, <5>2, <5>3
            <4> QED
                BY <4>2, <4>3
        <3>3. CASE w[j] = Number
            <4> DEFINE e == Find(t, p(j), {CR, LF})
            <4>1. readSpaces(t, p(j)) = readSpaces(t, e)
                BY <2>4, <2>6, <3>1, <3>3, SpacesIs DEF N
            <4>2. e \in p(j) .. N + 1 /\ (e <= N => t[e] \in {CR, LF}) /\ \A m \in p(j) .. e - 1 : t[m] \notin {CR, LF}
                BY <2>4, Found DEF N
            <4> HIDE DEF e
            <4>3. CASE e > N
                <5>1. e = N + 1
                    BY <1>0, <2>4, <4>2, <4>3
                <5>2. ~(i + n <= N)
                    <6> SUFFICES ASSUME i + n <= N PROVE FALSE
                        OBVIOUS
                    <6>1. i + n - 1 \in p(j) .. e - 1 /\ i + n - 1 <= N /\ n \in 1 .. n
                        BY <1>0, <2>4, <5>1
                    <6>2. t[i + n - 1] = LF
                        BY <1>1, <1>2, <6>1
                    <6> QED
                        BY <4>2, <6>1, <6>2
                <5> QED
                    BY <1>4, <2>3, <4>1, <5>1, <5>2
            <4>4. CASE e <= N
                <5>1. e <= i + n - 1
                    <6> SUFFICES ASSUME ~(e <= i + n - 1) PROVE FALSE
                        OBVIOUS
                    <6>1. i + n - 1 \in p(j) .. e - 1 /\ i + n - 1 <= N /\ n \in 1 .. n
                        BY <1>0, <2>4, <4>2, <4>4
                    <6>2. t[i + n - 1] = LF
                        BY <1>1, <1>2, <6>1
                    <6> QED
                        BY <4>2, <6>1, <6>2
                <5>2. PICK m \in 1 .. n : e = p(m) /\ m >= j
                    <6>1. e - i + 1 \in 1 .. n /\ e = i + (e - i + 1) - 1 /\ e - i + 1 >= j
                        BY <1>0, <2>4, <4>2, <5>1
                    <6> QED
                        BY <6>1
                <5>3. t[e] = w[m] /\ t[e] \in {CR, LF}
                    BY <1>2, <4>2, <4>4, <5>2
                <5>4. w[m] = LF /\ j < m
                    <6>1. w[m] = LF
                        BY <1>1, <5>3
                    <6>2. m # j
                        BY <1>3, <3>3, <6>1
                    <6> QED
                        BY <5>2, <6>1, <6>2
                <5>5. Claim(m)
                    BY <2>2, <5>4
                <5>6. p(m) <= N + 1
                    BY <1>0, <4>4, <5>2
                <5> QED
                    BY <2>3, <4>1, <5>2, <5>4, <5>5, <5>6
            <4> QED
                BY <1>0, <2>4, <4>2, <4>3, <4>4
        <3> QED
            BY <2>3, <3>2, <3>3
    <2> QED
        BY <1>0, <2>4, <2>5, <2>6
<1>7. X = {}
    <2>1. X \in SUBSET Nat
        OBVIOUS
    <2> HIDE DEF X
    <2> QED
        BY <1>6, <2>1, LeastNatural
<1> HIDE DEF Claim
<1>8. Claim(1)
    <2>1. n - 1 \in 0 .. n - 1 /\ n - (n - 1) = 1
        BY <1>0
    <2> QED
        BY <1>7, <2>1
<1>9. p(1) = i /\ i <= N + 1
    BY <1>0 DEF N
<1>10. readSpaces(t, i) = readSpaces(t, z)
    BY <1>1, <1>8, <1>9 DEF Claim
<1> QED
    BY <1>10 DEF z, n

-----------------------------------------------------------------------------
(* The text, call after call *)

LinesOf(cs) == [i \in DOMAIN cs |-> Line(cs[i])]

LEMMA LineTyped ==
    ASSUME NEW c \in Calls
    PROVE  Line(c) \in Seq(Ascii)
<1>1. <<LF>> \in Seq(Ascii)
    BY DEF LF, Ascii
<1>2. c.kind = "statement" => Line(c) \in Seq(Ascii)
    BY CallIs, QuadIs
<1>3. c.kind = "comment" => Line(c) \in Seq(Ascii)
    <2>1. ASSUME c.kind = "comment" PROVE Line(c) \in Seq(Ascii)
        <3>1. c.comment \in Texts /\ Line(c) = Comment(c.comment)
            BY <2>1, CallIs
        <3>2. Remark(Comment(c.comment))
            BY <3>1, CommentShape
        <3> QED
            BY <3>1, <3>2 DEF Remark
    <2> QED
        BY <2>1
<1> QED
    BY <1>1, <1>2, <1>3, CallIs

LEMMA CallsAre ==
    ASSUME NEW cs \in Seq(Calls)
    PROVE  /\ Len(cs) \in Nat /\ DOMAIN cs = 1 .. Len(cs) /\ \A i \in 1 .. Len(cs) : cs[i] \in Calls
           /\ DOMAIN LinesOf(cs) = 1 .. Len(cs)
           /\ \A i \in 1 .. Len(cs) : LinesOf(cs)[i] = Line(cs[i])
           /\ AreSeqs(LinesOf(cs), Len(cs), Ascii)
           /\ FlattenSeq(LinesOf(cs)) = Upto(LinesOf(cs), Len(cs))
           /\ FlattenSeq(LinesOf(cs)) \in Seq(Ascii)
<1>1. Len(cs) \in Nat /\ DOMAIN cs = 1 .. Len(cs)
    BY LenProperties
<1>2. \A i \in 1 .. Len(cs) : cs[i] \in Calls
    BY ElementOfSeq
<1>3. /\ DOMAIN LinesOf(cs) = 1 .. Len(cs)
      /\ \A i \in 1 .. Len(cs) : LinesOf(cs)[i] = Line(cs[i])
      /\ LinesOf(cs) = [i \in 1 .. Len(cs) |-> LinesOf(cs)[i]]
    BY <1>1 DEF LinesOf
<1>4. AreSeqs(LinesOf(cs), Len(cs), Ascii)
    BY <1>2, <1>3, LineTyped DEF AreSeqs
<1>5. FlattenSeq(LinesOf(cs)) = Upto(LinesOf(cs), Len(cs))
    BY <1>1, <1>3, UptoAll
<1>6. Len(cs) \in 0 .. Len(cs)
    BY <1>1
<1>7. Upto(LinesOf(cs), Len(cs)) \in Seq(Ascii)
    BY <1>1, <1>4, <1>6, UptoGrows
<1> QED
    BY <1>1, <1>2, <1>3, <1>4, <1>5, <1>7

LEMMA CallAdded ==
    ASSUME NEW cs \in Seq(Calls), NEW c \in Calls
    PROVE  FlattenSeq(LinesOf(Append(cs, c))) = FlattenSeq(LinesOf(cs)) \o Line(c)
<1> DEFINE n == Len(cs)
           ds == Append(cs, c)
           old == LinesOf(cs)
           new == LinesOf(ds)
<1>1. /\ ds \in Seq(Calls) /\ Len(ds) = n + 1 /\ n \in Nat /\ ds[n + 1] = c
      /\ \A i \in 1 .. n : ds[i] = cs[i]
    OBVIOUS
<1> HIDE DEF ds
<1>2. AreSeqs(new, n + 1, Ascii) /\ \A i \in 1 .. n + 1 : new[i] = Line(ds[i])
    BY <1>1, CallsAre
<1>3. FlattenSeq(new) = Upto(new, n + 1)
    BY <1>1, CallsAre
<1>4. FlattenSeq(old) = Upto(old, n) /\ \A i \in 1 .. n : old[i] = Line(cs[i])
    BY CallsAre
<1>5. \A i \in 1 .. n : i \in 1 .. n + 1 /\ new[i] = old[i]
    BY <1>1, <1>2, <1>4
<1>6. n + 1 \in 1 .. n + 1 /\ new[n + 1] = Line(c)
    BY <1>1, <1>2
<1> HIDE DEF old, new, n
<1>7. Upto(new, n) = Upto(old, n)
    <2>1. [i \in 1 .. n |-> new[i]] = [i \in 1 .. n |-> old[i]]
        BY <1>5
    <2> QED
        BY <2>1 DEF Upto
<1>8. Upto(new, n + 1) = Upto(new, n) \o new[n + 1]
    BY <1>1, <1>2, UptoNext DEF AreSeqs
<1> QED
    BY <1>3, <1>4, <1>6, <1>7, <1>8 DEF old, new, ds

LEMMA TextTyped ==
    ASSUME TypeOK
    PROVE  /\ calls \in Seq(Calls) /\ text = FlattenSeq(LinesOf(calls))
           /\ text \in Seq(Ascii) /\ text \in Seq(Nat) /\ Len(text) \in Nat
           /\ given \in Seq(Nat) /\ Len(given) = end /\ end \in Nat /\ end <= Len(text)
           /\ \A k \in 1 .. end : given[k] = text[k]
<1>1. calls \in Seq(Calls) /\ text = FlattenSeq(LinesOf(calls)) /\ end \in 0 .. Len(text)
    BY DEF TypeOK, LinesOf
<1>2. text \in Seq(Ascii)
    BY <1>1, CallsAre
<1>3. Ascii \subseteq Nat
    BY DEF Ascii
<1>4. text \in Seq(Nat) /\ Len(text) \in Nat
    BY <1>2, <1>3, SeqMonotonic, LenProperties
<1>5. end \in Nat /\ end <= Len(text)
    BY <1>1, <1>4
<1>6. given \in Seq(Nat) /\ Len(given) = end /\ \A k \in 1 .. end : given[k] = text[k]
    <2>1. \A k \in 1 .. end : text[k] \in Nat
        <3>1. \A k \in 1 .. end : k \in 1 .. Len(text)
            BY <1>4, <1>5
        <3> QED
            BY <1>4, <3>1, ElementOfSeq
    <2>2. given = [k \in 1 .. end |-> text[k]]
        BY <1>4, <1>5 DEF given
    <2> QED
        BY <1>5, <2>1, <2>2
<1> QED
    BY <1>1, <1>2, <1>4, <1>5, <1>6

-----------------------------------------------------------------------------
(* Types *)

readerParts == {"subject", "predicate", "object", "graph", "dot"}

Unread == part = "write" => at = 1 /\ end = 0 /\ got = << >> /\ result = "none"

LEMMA StopTyped ==
    ASSUME TypeOK, part \in readerParts, NEW err, err # "none", Stop(err)
    PROVE  TypeOK' /\ Unread'
BY DEF TypeOK, Stop, readerParts, Unread

LEMMA KeepTyped ==
    ASSUME TypeOK, part \in readerParts, NEW field, NEW r, r.at \in 1 .. end + 1,
           NEW next \in {"predicate", "object", "graph", "dot"}, Keep(field, r, next), eofIsError'
    PROVE  TypeOK' /\ Unread'
<1>1. eofIsError' = TRUE
    BY DEF TypeOK
<1> QED
    BY <1>1 DEF TypeOK, Keep, readerParts, Unread

LEMMA TypeStep ==
    ASSUME TypeOK, Unread, [Next]_vars
    PROVE  TypeOK' /\ Unread'
<1>1. ASSUME NEW c \in Calls, Write(c)
      PROVE  TypeOK' /\ Unread'
    <2>1. calls' = Append(calls, c) /\ text' = text \o Line(c) /\ calls \in Seq(Calls) /\ Len(calls) < MaxCalls
        BY <1>1 DEF Write, TypeOK
    <2>2. calls' \in Seq(Calls) /\ Len(calls') = Len(calls) + 1 /\ Len(calls) \in Nat
        BY <2>1
    <2>3. text' = FlattenSeq(LinesOf(calls'))
        BY <1>1, <2>1, CallAdded, TextTyped
    <2>4. text' \in Seq(Ascii) /\ text \in Seq(Ascii) /\ Line(c) \in Seq(Ascii)
        BY <1>1, <2>2, <2>3, CallsAre, TextTyped, LineTyped
    <2>5. Len(text') = Len(text) + Len(Line(c)) /\ Len(text) \in Nat /\ Len(Line(c)) \in Nat
        BY <2>1, <2>4, ConcatProperties, LenProperties
    <2>6. end' = end /\ end \in 0 .. Len(text) /\ end \in 0 .. Len(text')
        BY <1>1, <2>5 DEF Write, readerVars, TypeOK
    <2>7. text' = FlattenSeq([i \in DOMAIN calls' |-> Line(calls'[i])])
        BY <2>3 DEF LinesOf
    <2>8. Len(calls') <= MaxCalls
        BY <2>1, <2>2, MaxCallsAssumption
    <2> QED
        BY <1>1, <2>2, <2>6, <2>7, <2>8 DEF Write, readerVars, TypeOK, Unread
<1>2. ASSUME NEW n \in 0 .. Len(text), Open(n)
      PROVE  TypeOK' /\ Unread'
    <2>1. part = "write" /\ at = 1 /\ end' = n /\ at' = 1 /\ n \in Nat
        BY <1>2, TextTyped DEF Open, Unread
    <2>2. end' \in 0 .. Len(text) /\ at' \in 1 .. end' + 1
        BY <2>1
    <2> QED
        BY <1>2, <2>1, <2>2 DEF Open, TypeOK, Unread
<1>3. ASSUME ReadStatement
      PROVE  TypeOK' /\ Unread'
    <2> DEFINE t == given
    <2>1. t \in Seq(Nat) /\ Len(t) = end /\ at \in 1 .. Len(t) + 1 /\ end \in Nat
        BY TextTyped DEF TypeOK
    <2> HIDE DEF t
    <2>2. ASSUME NEW V, NEW r \in Results(V, t, at)
          PROVE  r.err # "none" /\ (r.err = "nil" => r.at \in 1 .. end + 1)
        <3>1. r.err \in Errors \cup {"nil"} /\ (r.err = "nil" => r.at \in at .. Len(t) + 1)
            BY ResultIs
        <3>2. \A j \in at .. Len(t) + 1 : j \in 1 .. end + 1
            BY <2>1
        <3>3. r.err # "none"
            BY <3>1 DEF Errors
        <3> QED
            BY <3>1, <3>2, <3>3
    <2>4. CASE ReadSubject
        <3> DEFINE r == readSubject(t, at)
        <3>1. r \in Results(MaybeNode, t, at)
            BY <2>1, SubjectEnd
        <3>2. /\ part = "subject"
              /\ IF r.err # "nil" THEN Stop(r.err)
                 ELSE IF r.val = None THEN Stop("ExpectedStatement")
                 ELSE Keep("subject", r, "predicate") /\ eofIsError' = TRUE
            BY <2>4 DEF ReadSubject, t
        <3> HIDE DEF r
        <3>3. part \in readerParts
            BY <3>2 DEF readerParts
        <3>4. r.err # "none" /\ (r.err = "nil" => r.at \in 1 .. end + 1)
            BY <2>2, <3>1
        <3> QED
            BY <3>2, <3>3, <3>4, StopTyped, KeepTyped
    <2>5. CASE ReadPredicate
        <3> DEFINE r == readIri(t, at)
        <3>1. r \in Results(Iris \cup {None}, t, at)
            BY <2>1, IriEnd
        <3>2. /\ part = "predicate"
              /\ IF r.err # "nil" THEN Stop(r.err)
                 ELSE IF r.val = None THEN Stop("ExpectedPredicate")
                 ELSE Keep("predicate", r, "object") /\ UNCHANGED eofIsError
            BY <2>5 DEF ReadPredicate, t
        <3> HIDE DEF r
        <3>3. part \in readerParts /\ eofIsError
            BY <3>2 DEF readerParts, TypeOK
        <3>4. r.err # "none" /\ (r.err = "nil" => r.at \in 1 .. end + 1)
            BY <2>2, <3>1
        <3> QED
            BY <3>2, <3>3, <3>4, StopTyped, KeepTyped
    <2>6. CASE ReadObject
        <3> DEFINE r == readObject(t, at)
        <3>1. r \in Results(MaybeNode, t, at)
            BY <2>1, ObjectEnd
        <3>2. /\ part = "object"
              /\ IF r.err # "nil" THEN Stop(r.err)
                 ELSE IF r.val = None THEN Stop("ExpectedObject")
                 ELSE Keep("object", r, "graph") /\ UNCHANGED eofIsError
            BY <2>6 DEF ReadObject, t
        <3> HIDE DEF r
        <3>3. part \in readerParts /\ eofIsError
            BY <3>2 DEF readerParts, TypeOK
        <3>4. r.err # "none" /\ (r.err = "nil" => r.at \in 1 .. end + 1)
            BY <2>2, <3>1
        <3> QED
            BY <3>2, <3>3, <3>4, StopTyped, KeepTyped
    <2>7. CASE ReadGraph
        <3> DEFINE r == readIri(t, at)
        <3>1. r \in Results(Iris \cup {None}, t, at)
            BY <2>1, IriEnd
        <3>2. /\ part = "graph"
              /\ IF r.err # "nil" THEN Stop(r.err)
                 ELSE Keep("graph", r, "dot") /\ UNCHANGED eofIsError
            BY <2>7 DEF ReadGraph, t
        <3> HIDE DEF r
        <3>3. part \in readerParts /\ eofIsError
            BY <3>2 DEF readerParts, TypeOK
        <3>4. r.err # "none" /\ (r.err = "nil" => r.at \in 1 .. end + 1)
            BY <2>2, <3>1
        <3> QED
            BY <3>2, <3>3, <3>4, StopTyped, KeepTyped
    <2>8. CASE ReadDot
        <3> DEFINE j == readSpaces(t, at)
        <3>1. j \in at .. Len(t) + 1
            BY <2>1, SpacesEnd
        <3>2. /\ part = "dot"
              /\ IF j > end THEN Stop("EOF")
                 ELSE IF t[j] # Dot THEN Stop("ExpectedFinalDot")
                 ELSE /\ got' = Append(got, statement)
                      /\ at' = j + 1 /\ part' = "subject" /\ eofIsError' = FALSE
                      /\ statement' = NoStatement
                      /\ UNCHANGED <<calls, text, end, result>>
            BY <2>8 DEF ReadDot, t
        <3> HIDE DEF j
        <3>3. part \in readerParts
            BY <3>2 DEF readerParts
        <3>4. Stop("EOF") \/ Stop("ExpectedFinalDot") => TypeOK' /\ Unread'
            BY <3>3, StopTyped
        <3>5. CASE ~(j > end) /\ t[j] = Dot
            <4>1. j + 1 \in 1 .. end + 1
                BY <2>1, <3>1, <3>5
            <4> QED
                BY <3>2, <3>5, <4>1 DEF TypeOK, Unread
        <3> QED
            BY <3>2, <3>4, <3>5
    <2> QED
        BY <1>3, <2>4, <2>5, <2>6, <2>7, <2>8 DEF ReadStatement
<1>4. CASE UNCHANGED vars
    BY <1>4 DEF vars, TypeOK, Unread
<1> QED
    BY <1>1, <1>2, <1>3, <1>4 DEF Next

LEMMA TypeInit == Init => TypeOK /\ Unread
<1> SUFFICES ASSUME Init PROVE TypeOK /\ Unread
    OBVIOUS
<1>1. calls = << >> /\ calls \in Seq(Calls) /\ Len(calls) = 0 /\ text = << >> /\ Len(text) = 0
    BY DEF Init
<1>2. FlattenSeq(LinesOf(calls)) = Upto(LinesOf(calls), 0)
    BY <1>1, CallsAre
<1>3. text = FlattenSeq([i \in DOMAIN calls |-> Line(calls[i])])
    BY <1>1, <1>2, UptoNone DEF LinesOf
<1>4. end = 0 /\ at = 1 /\ end \in 0 .. Len(text) /\ at \in 1 .. end + 1 /\ Len(calls) <= MaxCalls
    BY <1>1, MaxCallsAssumption DEF Init
<1>5. part = "write" /\ result = "none" /\ got = << >> /\ eofIsError = FALSE
    BY DEF Init
<1> QED
    BY <1>1, <1>3, <1>4, <1>5 DEF TypeOK, Unread

\* Whatever the text, and wherever it is cut, the reader stays within it, and
\* the end of the text is an error exactly between a subject and its dot
\* (nquads/reader.go:66-132).
THEOREM TypeCorrect == Spec => []TypeOK
<1>1. Init => TypeOK /\ Unread
    BY TypeInit
<1>2. TypeOK /\ Unread /\ [Next]_vars => TypeOK' /\ Unread'
    BY TypeStep
<1> QED
    BY <1>1, <1>2, PTL DEF Spec

-----------------------------------------------------------------------------
(* What has been written is found again *)

LEMMA FromSpaces ==
    ASSUME NEW t \in Seq(Nat), NEW i \in 1 .. Len(t) + 1
    PROVE  /\ readIri(t, readSpaces(t, i)) = readIri(t, i)
           /\ readSubject(t, readSpaces(t, i)) = readSubject(t, i)
           /\ readObject(t, readSpaces(t, i)) = readObject(t, i)
<1> DEFINE j == readSpaces(t, i)
<1>1. readSpaces(t, j) = j
    BY SpacesTwice
<1>2. readIri(t, j) = readIri(t, i)
    BY <1>1, Zenon DEF readIri
<1> HIDE DEF j
<1>3. readSubject(t, j) = readSubject(t, i)
    BY <1>2, Zenon DEF readSubject
<1>4. readObject(t, j) = readObject(t, i)
    BY <1>3, Zenon DEF readObject
<1> QED
    BY <1>2, <1>3, <1>4 DEF j

\* What is read for n.
Same(m, n) == Survives(n) => m = n

LEMMA DecodedSame ==
    ASSUME NEW c \in 0 .. 127, NEW E \in Escapes
    PROVE  /\ Decoded(c, E) \in Nat
           /\ (c \in E \ DOMAIN Letters => c < 16) => Decoded(c, E) = c
<1>1. CASE c \notin E \ DOMAIN Letters
    BY <1>1 DEF Decoded
<1>2. CASE c \in E \ DOMAIN Letters
    <2> DEFINE x == HexValue(HexDigit(c \div 16))
               y == HexValue(HexDigit(c % 16))
    <2>1. c \div 16 \in 0 .. 7 /\ c % 16 \in 0 .. 15
        OBVIOUS
    <2>2. HexDigit(c \div 16) \in Nat /\ HexDigit(c % 16) \in Nat
        BY <2>1 DEF HexDigit
    <2>3. x \in Nat /\ y \in Nat
        BY <2>2, HexTyped
    <2>4. Decoded(c, E) = Rune(0, 0, x, y)
        BY <1>2 DEF Decoded
    <2>5. ASSUME c < 16
          PROVE  x = 0 /\ y = c
        <3>1. c \div 16 = 0 /\ c % 16 = c
            BY <2>5
        <3>2. HexDigit(0) = 48 /\ HexValue(48) = 0
            BY DEF HexDigit, HexValue
        <3>3. HexValue(HexDigit(c)) = c
            <4>1. CASE c < 10
                <5>1. HexDigit(c) = 48 + c /\ 48 + c \in 48 .. 57
                    BY <4>1 DEF HexDigit
                <5>2. HexValue(48 + c) = (48 + c) - 48
                    BY <5>1 DEF HexValue
                <5> QED
                    BY <5>1, <5>2
            <4>2. CASE ~(c < 10)
                <5>1. HexDigit(c) = 87 + c /\ 87 + c \in 97 .. 102 /\ 87 + c \notin 48 .. 57
                    BY <2>5, <4>2 DEF HexDigit
                <5>2. HexValue(87 + c) = (87 + c) - 87
                    BY <5>1 DEF HexValue
                <5> QED
                    BY <5>1, <5>2
            <4> QED
                BY <4>1, <4>2
        <3> QED
            BY <3>1, <3>2, <3>3
    <2> HIDE DEF x, y
    <2>6. Rune(0, 0, x, y) \in Nat
        BY <2>3, RuneTyped
    <2>7. x = 0 => Rune(0, 0, x, y) = y
        BY <2>3 DEF Rune
    <2> QED
        BY <1>2, <2>4, <2>5, <2>6, <2>7
<1> QED
    BY <1>1, <1>2

LEMMA DecodeSame ==
    ASSUME NEW s \in Texts, NEW E \in Escapes
    PROVE  /\ Decode(s, E) \in Seq(Nat)
           /\ (\A k \in DOMAIN s : s[k] \in E \ DOMAIN Letters => s[k] < 16) => Decode(s, E) = s
<1>1. Len(s) \in Nat /\ DOMAIN s = 1 .. Len(s) /\ \A k \in 1 .. Len(s) : s[k] \in 0 .. 127
    BY TextIs
<1>2. \A k \in 1 .. Len(s) : Decoded(s[k], E) \in Nat
    BY <1>1, DecodedSame
<1>3. Decode(s, E) \in Seq(Nat)
    <2>1. Decode(s, E) \in [1 .. Len(s) -> Nat]
        BY <1>2 DEF Decode
    <2> QED
        BY <1>1, <2>1, SeqDef
<1>4. ASSUME \A k \in DOMAIN s : s[k] \in E \ DOMAIN Letters => s[k] < 16
      PROVE  Decode(s, E) = s
    <2>1. \A k \in 1 .. Len(s) : Decoded(s[k], E) = s[k]
        BY <1>1, <1>4, DecodedSame
    <2>2. s = [k \in 1 .. Len(s) |-> s[k]]
        <3>1. s \in Seq(0 .. 127)
            BY DEF Texts
        <3>2. s \in [1 .. Len(s) -> 0 .. 127]
            BY <3>1, LenProperties
        <3> QED
            BY <3>2
    <2> QED
        BY <2>1, <2>2 DEF Decode
<1> QED
    BY <1>3, <1>4

\* Something between an opening and a closing character.
Enclosed(open, s, E, close) == <<open>> \o Escape(s, E) \o <<close>>

LEMMA Concat3 ==
    ASSUME NEW C, NEW a \in Seq(C), NEW b \in Seq(C), NEW c \in Seq(C),
           NEW e, e = (a \o b) \o c
    PROVE  e = a \o (b \o c) /\ Len(e) = Len(a) + Len(b) + Len(c)
<1>1. (a \o b) \o c = a \o (b \o c)
    BY SMTT(30), ConcatAssociative
<1> DEFINE d == a \o b
<1>2. d \in Seq(C) /\ Len(d) = Len(a) + Len(b)
    BY ConcatProperties
<1> HIDE DEF d
<1>3. e = d \o c
    BY DEF d
<1>4. Len(e) = Len(d) + Len(c)
    BY <1>2, <1>3, ConcatProperties
<1>5. Len(a) \in Nat /\ Len(b) \in Nat /\ Len(c) \in Nat
    BY LenProperties
<1> QED
    BY <1>1, <1>2, <1>4, <1>5

LEMMA EnclosedReads ==
    ASSUME NEW t \in Seq(Nat), NEW i \in 1 .. Len(t) + 1, NEW s \in Texts, NEW E \in Escapes,
           NEW open \in Ascii, NEW close \in E \ {92},
           NEW w, w = Enclosed(open, s, E, close), Shows(t, i, w)
    PROVE  /\ Len(w) \in Nat /\ Len(w) >= 2
           /\ i <= Len(t) => /\ t[i] = open
                             /\ readUntil(t, i + 1, close) =
                                   IF i + Len(w) <= Len(t) + 1
                                   THEN Read(Decode(s, E), i + Len(w)) ELSE EOF
<1> DEFINE o == <<open>>
           x == Escape(s, E)
           z == <<close>>
           xz == x \o z
<1>0. Len(t) \in Nat /\ i \in Nat
    OBVIOUS
<1>1. close \in Ascii
    BY EscapedChars DEF Ascii
<1>2. o \in Seq(Ascii) /\ Len(o) = 1 /\ z \in Seq(Ascii) /\ Len(z) = 1
    BY <1>1
<1>3. x \in Seq(Ascii)
    BY EscapeWritten DEF Texts, Ascii
<1>4. Shows(t, i + 1, Escape(s, E) \o <<close>>) <=> Shows(t, i + 1, xz)
    OBVIOUS
<1>5. w = (o \o x) \o z
    BY DEF Enclosed
<1>6. Shows(t, i, <<open>>) <=> Shows(t, i, o)
    OBVIOUS
<1>7. Len(Escape(s, E)) = Len(x)
    OBVIOUS
<1> HIDE DEF o, x, z
<1>8. xz \in Seq(Ascii) /\ Len(xz) = Len(x) + 1 /\ Len(x) \in Nat
    <2>1. xz \in Seq(Ascii) /\ Len(xz) = Len(x) + Len(z)
        BY ZenonT(60), <1>2, <1>3, ConcatProperties
    <2>2. Len(x) \in Nat
        BY <1>3, LenProperties
    <2> QED
        BY <1>2, <2>1, <2>2
<1>9. w = o \o xz /\ Len(w) = Len(o) + Len(x) + Len(z)
    <2>0. o \in Seq(Ascii) /\ x \in Seq(Ascii) /\ z \in Seq(Ascii)
        BY <1>2, <1>3
    <2>1. w = o \o (x \o z)
        <3>1. (o \o x) \o z = o \o (x \o z)
            BY SMTT(30), <2>0, ConcatAssociative
        <3> QED
            BY <1>5, <3>1, Zenon
    <2>2. Len(w) = Len(o) + Len(x) + Len(z)
        BY <1>5, <2>0, Concat3
    <2> QED
        BY <2>1, <2>2
<1> HIDE DEF xz
<1>10. Len(w) = Len(x) + 2
    BY <1>2, <1>8, <1>9
<1>11. Shows(t, i, o) /\ Shows(t, i + 1, xz)
    <2>1. Shows(t, i, o \o xz)
        BY <1>9
    <2>2. Shows(t, i, o) /\ Shows(t, i + Len(o), xz)
        BY <1>0, <1>2, <1>8, <2>1, ShowsJoin
    <2> QED
        BY <1>2, <2>2
<1>12. ASSUME i <= Len(t)
       PROVE  /\ t[i] = open
              /\ readUntil(t, i + 1, close) =
                    IF i + Len(w) <= Len(t) + 1 THEN Read(Decode(s, E), i + Len(w)) ELSE EOF
    <2>1. t[i] = open
        BY <1>0, <1>6, <1>11, <1>12, ShowsOne
    <2>2. i + 1 \in 1 .. Len(t) + 1
        BY <1>0, <1>12
    <2>3. readUntil(t, i + 1, close) =
             IF (i + 1) + Len(Escape(s, E)) <= Len(t)
             THEN Read(Decode(s, E), (i + 1) + Len(Escape(s, E)) + 1) ELSE EOF
        BY <1>4, <1>11, <2>2, UntilReads
    <2>4. /\ (i + 1) + Len(x) <= Len(t) <=> i + Len(w) <= Len(t) + 1
          /\ (i + 1) + Len(x) + 1 = i + Len(w)
        BY <1>0, <1>8, <1>10
    <2> QED
        BY <1>7, <2>1, <2>3, <2>4
<1> QED
    BY <1>8, <1>10, <1>12

\* The first character of what may come next.
Firsts == {Less, Quote, Underscore, Dot}

LEMMA FirstsAre ==
    /\ \A c \in Firsts : c \notin Spaces \cup {Number} /\ c # Caret /\ c # At
    /\ Caret \notin Spaces \cup {Number} /\ At \notin Spaces \cup {Number}
    /\ Less # Quote /\ Less # Underscore /\ Less # Dot /\ Less # Caret /\ At # Caret
    /\ Quote # Underscore /\ Space \in Spaces /\ LF \in Spaces /\ Space # Number /\ LF # Number
    /\ Less \in Firsts /\ Quote \in Firsts /\ Underscore \in Firsts /\ Dot \in Firsts
BY DEF Firsts, Less, Quote, Underscore, Dot, Spaces, Tab, LF, CR, Space, Number, Caret, At

\* A space at p, and behind it something to read.
Ends(t, p) ==
    /\ Shows(t, p, <<Space>>)
    /\ p + 1 <= Len(t) => t[p + 1] \in Firsts

LEMMA AfterSpace ==
    ASSUME NEW t \in Seq(Nat), NEW p \in 1 .. Len(t) + 1, Ends(t, p)
    PROVE  readSpaces(t, p) = Cut(t, p + 1)
<1>0. Len(t) \in Nat /\ p \in Nat
    OBVIOUS
<1>1. CASE p > Len(t)
    <2>1. p = Len(t) + 1 /\ ~(p + 1 <= Len(t))
        BY <1>0, <1>1
    <2> QED
        BY <1>1, <2>1, SpacesIs DEF Cut
<1>2. CASE p <= Len(t)
    <2>1. t[p] = Space
        BY <1>0, <1>2, ShowsOne DEF Ends
    <2>2. readSpaces(t, p) = readSpaces(t, p + 1)
        BY <1>2, <2>1, FirstsAre, SpacesIs
    <2>3. p + 1 \in 1 .. Len(t) + 1
        BY <1>0, <1>2
    <2>4. CASE p + 1 <= Len(t)
        <3>1. t[p + 1] \notin Spaces \cup {Number}
            BY <2>4, FirstsAre DEF Ends
        <3>2. readSpaces(t, p + 1) = p + 1
            BY <2>3, <2>4, <3>1, SpacesIs
        <3> QED
            BY <2>2, <2>4, <3>2 DEF Cut
    <2>5. CASE ~(p + 1 <= Len(t))
        <3>1. p + 1 > Len(t) /\ p + 1 = Len(t) + 1
            BY <1>0, <1>2, <2>5
        <3>2. readSpaces(t, p + 1) = p + 1
            BY <2>3, <3>1, SpacesIs
        <3> QED
            BY <2>2, <2>5, <3>1, <3>2 DEF Cut
    <2> QED
        BY <2>4, <2>5
<1> QED
    BY <1>0, <1>1, <1>2

\* r is what is read of n, which ends at q; it is missing if t ends before k.
Arrives(t, r, n, q, k) ==
    \/ /\ r.err = "nil" /\ r.val # None /\ Same(r.val, n)
       /\ r.at \in 1 .. Len(t) + 1 /\ readSpaces(t, r.at) = Cut(t, q + 1)
    \/ r = EOF /\ Len(t) < k

LEMMA IriArrives ==
    ASSUME NEW t \in Seq(Nat), NEW i \in 1 .. Len(t) + 1, NEW n \in Objects, n.kind = "iri",
           Shows(t, i, EncodeAny(n)), Ends(t, i + Len(EncodeAny(n)))
    PROVE  LET q == i + Len(EncodeAny(n)) IN Arrives(t, readIri(t, i), n, q, q)
<1> DEFINE w == EncodeAny(n)
           q == i + Len(w)
           E == EscapeIriChars
           s == n.chars
<1>0. Len(t) \in Nat /\ i \in Nat
    OBVIOUS
<1>1. s \in Texts /\ n = Iri(s) /\ EncodeAny(n) = EncodeIri(s)
    BY ObjectIs, EncodeIs DEF Iri
<1>2. w = Enclosed(Less, s, E, Greater)
    BY <1>1 DEF EncodeIri, Enclosed
<1>3. E \in Escapes /\ Less \in Ascii /\ Greater \in E \ {92}
    BY DEF Escapes, Less, Ascii, Greater, EscapeIriChars
<1>4. Shows(t, i, w) /\ Ends(t, q)
    OBVIOUS
<1> HIDE DEF w, E, s
<1>5. /\ Len(w) \in Nat /\ Len(w) >= 2
      /\ i <= Len(t) => /\ t[i] = Less
                        /\ readUntil(t, i + 1, Greater) =
                              IF q <= Len(t) + 1 THEN Read(Decode(s, E), q) ELSE EOF
    BY <1>1, <1>2, <1>3, <1>4, EnclosedReads
<1> HIDE DEF q
<1>6. q \in Nat /\ q >= i + 2
    BY <1>0, <1>5 DEF q
<1>7. CASE i > Len(t)
    <2>1. readSpaces(t, i) = i
        BY <1>7, SpacesIs
    <2>2. readIri(t, i) = EOF
        BY <1>7, <2>1 DEF readIri
    <2>3. Len(t) < q
        BY <1>0, <1>6, <1>7
    <2> QED
        BY <2>2, <2>3 DEF Arrives, q, w
<1>8. CASE i <= Len(t)
    <2> DEFINE r == readUntil(t, i + 1, Greater)
    <2>1. t[i] = Less /\ r = IF q <= Len(t) + 1 THEN Read(Decode(s, E), q) ELSE EOF
        BY <1>5, <1>8
    <2>2. readSpaces(t, i) = i
        BY <1>8, <2>1, FirstsAre, SpacesIs
    <2>3. readIri(t, i) = IF r.err = "nil" THEN Read(Iri(r.val), r.at) ELSE r
        <3>1. ~(i > Len(t))
            BY <1>0, <1>8
        <3> QED
            BY <2>1, <2>2, <3>1, IriIs
    <2> HIDE DEF r
    <2>4. CASE q <= Len(t) + 1
        <3>1. readIri(t, i) = Read(Iri(Decode(s, E)), q)
            BY <2>1, <2>3, <2>4 DEF Read
        <3>2. Decode(s, E) \in Seq(Nat)
            BY <1>1, <1>3, DecodeSame
        <3>3. Iri(Decode(s, E)) # None
            BY <3>2, NodeMade, NoneIsNoNode
        <3>4. Same(Iri(Decode(s, E)), n)
            <4> SUFFICES ASSUME Survives(n) PROVE Iri(Decode(s, E)) = n
                BY DEF Same
            <4>1. \A k \in DOMAIN s : s[k] \in E \ DOMAIN Letters => s[k] < 16
                BY DEF Survives, s, E
            <4> QED
                BY <1>1, <1>3, <4>1, DecodeSame
        <3>5. q \in 1 .. Len(t) + 1
            BY <1>0, <1>6, <2>4
        <3>6. readSpaces(t, q) = Cut(t, q + 1)
            BY <1>4, <3>5, AfterSpace
        <3> QED
            BY <3>1, <3>3, <3>4, <3>5, <3>6 DEF Arrives, Read, q, w
    <2>5. CASE ~(q <= Len(t) + 1)
        <3>1. readIri(t, i) = EOF
            BY <2>1, <2>3, <2>5 DEF EOF, Fail
        <3>2. Len(t) < q
            BY <1>0, <1>6, <2>5
        <3> QED
            BY <3>1, <3>2 DEF Arrives, q, w
    <2> QED
        BY <2>4, <2>5
<1> QED
    BY <1>0, <1>7, <1>8

LEMMA NoIriThere ==
    ASSUME NEW t \in Seq(Nat), NEW i \in 1 .. Len(t), t[i] \in {Quote, Underscore, Dot, Caret}
    PROVE  readIri(t, i) = Read(None, i) /\ readSpaces(t, i) = i
<1>0. Len(t) \in Nat /\ i <= Len(t) /\ ~(i > Len(t)) /\ i \in 1 .. Len(t) + 1
    OBVIOUS
<1>1. t[i] \notin Spaces \cup {Number} /\ t[i] # Less
    BY FirstsAre
<1>2. readSpaces(t, i) = i
    BY <1>0, <1>1, SpacesIs
<1> QED
    BY <1>0, <1>1, <1>2 DEF readIri

\* The two bytes of Peek(2).
LEMMA PairIs ==
    ASSUME NEW t \in Seq(Nat), NEW i \in 1 .. Len(t), i + 1 <= Len(t)
    PROVE  SubSeq(t, i, i + 1) = <<t[i], t[i + 1]>>
<1> DEFINE a == SubSeq(t, i, i + 1)
           b == <<t[i], t[i + 1]>>
<1>0. Len(t) \in Nat /\ i \in Nat /\ t[i] \in Nat /\ t[i + 1] \in Nat
    OBVIOUS
<1>1. a \in Seq(Nat) /\ Len(a) = 2 /\ a[1] = t[i] /\ a[2] = t[i + 1]
    <2>1. PICK j \in Int : j = i + 1
        BY <1>0
    <2>2. \A k \in i .. j : t[k] \in Nat
        BY <1>0, <2>1
    <2> DEFINE x == SubSeq(t, i, j)
    <2>3. /\ x \in Seq(Nat) /\ Len(x) = IF i <= j THEN j - i + 1 ELSE 0
          /\ \A k \in 1 .. j - i + 1 : x[k] = t[i + k - 1]
        BY <1>0, <2>2, SubSeqProperties
    <2>4. x = a
        BY <2>1
    <2> HIDE DEF x, a
    <2>5. j - i + 1 = 2 /\ i <= j /\ i + 1 - 1 = i /\ i + 2 - 1 = i + 1
        BY <1>0, <2>1
    <2>6. x[1] = t[i + 1 - 1] /\ x[2] = t[i + 2 - 1]
        BY <2>3, <2>5
    <2> QED
        BY <2>3, <2>4, <2>5, <2>6
<1>2. b \in Seq(Nat) /\ Len(b) = 2 /\ b[1] = t[i] /\ b[2] = t[i + 1]
    BY <1>0
<1> HIDE DEF a, b
<1>3. \A k \in 1 .. Len(a) : k = 1 \/ k = 2
    BY <1>1
<1>4. \A k \in 1 .. Len(a) : a[k] = b[k]
    BY <1>1, <1>2, <1>3
<1>5. a = b
    BY <1>1, <1>2, <1>4, SeqEqual
<1> QED
    BY <1>5 DEF a, b

LEMMA BlankArrives ==
    ASSUME NEW t \in Seq(Nat), NEW i \in 1 .. Len(t) + 1, NEW n \in Objects, n.kind = "blank",
           Shows(t, i, EncodeAny(n)), Ends(t, i + Len(EncodeAny(n)))
    PROVE  LET q == i + Len(EncodeAny(n))
           IN  /\ i <= Len(t) => t[i] = Underscore
               /\ Arrives(t, readBlank(t, i), n, q, q)
<1> DEFINE w == EncodeAny(n)
           q == i + Len(w)
           s == n.chars
           h == <<Underscore, Colon>>
<1>0. Len(t) \in Nat /\ i \in Nat
    OBVIOUS
<1>1. s \in Texts /\ s \in Seq(Ascii) /\ n = Blank(s) /\ w = h \o s /\ Range(s) \cap Spaces = {}
    BY ObjectIs, EncodeIs DEF Blank, Texts, Ascii
<1>2. h \in Seq(Ascii) /\ Len(h) = 2 /\ h[1] = Underscore /\ h[2] = Colon
    BY DEF Underscore, Colon, Ascii
<1>3. Shows(t, i, w) /\ Ends(t, q)
    OBVIOUS
<1> HIDE DEF w, h, s
<1>4. Len(s) \in Nat /\ DOMAIN s = 1 .. Len(s) /\ \A k \in 1 .. Len(s) : s[k] \in Nat /\ s[k] \notin Spaces
    <2>1. Len(s) \in Nat /\ DOMAIN s = 1 .. Len(s) /\ \A k \in 1 .. Len(s) : s[k] \in 0 .. 127
        BY <1>1, TextIs
    <2>2. \A k \in 1 .. Len(s) : s[k] \in Range(s)
        BY <2>1 DEF Range
    <2>3. ASSUME NEW k \in 1 .. Len(s)
          PROVE  s[k] \in Nat /\ s[k] \notin Spaces
        <3>1. s[k] \in 0 .. 127 /\ s[k] \in Range(s)
            BY <2>1, <2>2
        <3>2. s[k] \notin Spaces
            BY <1>1, <3>1
        <3>3. 0 .. 127 \subseteq Nat
            OBVIOUS
        <3> QED
            BY <3>1, <3>2, <3>3, Zenon
    <2> QED
        BY <2>1, <2>3
<1>5. Len(w) = 2 + Len(s) /\ Shows(t, i, h) /\ Shows(t, i + 2, s)
    <2>1. Len(w) = Len(h) + Len(s)
        BY <1>1, <1>2, ConcatProperties
    <2>2. Shows(t, i, h \o s)
        BY <1>1, <1>3
    <2>3. Shows(t, i, h) /\ Shows(t, i + Len(h), s)
        BY <1>0, <1>1, <1>2, <2>2, ShowsJoin
    <2> QED
        BY <1>2, <2>1, <2>3
<1> HIDE DEF q
<1>6. q = i + 2 + Len(s) /\ q \in Nat
    BY <1>0, <1>4, <1>5 DEF q
<1>7. (i <= Len(t) => t[i] = Underscore) /\ (i + 1 <= Len(t) => t[i + 1] = Colon)
    <2>1. 1 \in 1 .. Len(h) /\ 2 \in 1 .. Len(h) /\ i + 1 - 1 = i /\ i + 2 - 1 = i + 1
        BY <1>0, <1>2
    <2>2. /\ i + 1 - 1 <= Len(t) => t[i + 1 - 1] = h[1]
          /\ i + 2 - 1 <= Len(t) => t[i + 2 - 1] = h[2]
        BY <1>5, <2>1 DEF Shows
    <2> QED
        BY <1>2, <2>1, <2>2
<1> DEFINE e == Find(t, i + 2, Spaces)
           name == SubSeq(t, i + 2, e - 1)
<1>8. CASE i + 1 > Len(t)
    <2>1. readSpaces(t, i) \in i .. Len(t) + 1
        BY SpacesEnd
    <2>2. readSpaces(t, i) + 1 > Len(t)
        BY <1>0, <1>8, <2>1
    <2>3. readBlank(t, i) = EOF
        BY <2>2 DEF readBlank
    <2>4. Len(t) < q
        BY <1>0, <1>4, <1>6, <1>8
    <2> QED
        BY <1>7, <2>3, <2>4 DEF Arrives, q, w
<1>9. CASE ~(i + 1 > Len(t))
    <2>1. i <= Len(t) /\ i + 1 <= Len(t) /\ i + 2 \in 1 .. Len(t) + 1
        BY <1>0, <1>9
    <2>2. readSpaces(t, i) = i
        BY <1>7, <2>1, FirstsAre, SpacesIs
    <2>3. SubSeq(t, i, i + 1) = <<Underscore, Colon>>
        <3>1. i \in 1 .. Len(t)
            BY <1>0, <2>1
        <3> QED
            BY <1>7, <2>1, <3>1, PairIs
    <2>4. readBlank(t, i) = IF e > Len(t) THEN EOF ELSE Read(Blank(name), e)
        BY <1>9, <2>2, <2>3 DEF readBlank
    <2>5. /\ e \in i + 2 .. Len(t) + 1 /\ (e <= Len(t) => t[e] \in Spaces)
          /\ \A k \in i + 2 .. e - 1 : t[k] \notin Spaces
        BY <2>1, Found
    <2> HIDE DEF e
    <2>6. \A k \in 1 .. Len(s) : (i + 2) + k - 1 <= Len(t) => t[(i + 2) + k - 1] = s[k]
        BY <1>5 DEF Shows
    <2>7. e >= q \/ e > Len(t)
        <3> SUFFICES ASSUME e < q, e <= Len(t) PROVE FALSE
            BY <1>0, <1>6, <2>5
        <3>1. e - i - 1 \in 1 .. Len(s) /\ (i + 2) + (e - i - 1) - 1 = e
            BY <1>0, <1>4, <1>6, <2>5
        <3>2. t[e] = s[e - i - 1]
            BY <2>6, <3>1
        <3> QED
            BY <1>4, <2>5, <3>1, <3>2
    <2>8. CASE e > Len(t)
        <3>1. Len(t) < q
            <4> SUFFICES ASSUME q <= Len(t) PROVE FALSE
                BY <1>0, <1>6
            <4>1. t[q] = Space
                BY <1>0, <1>3, <1>6, ShowsOne DEF Ends
            <4>2. q \in i + 2 .. e - 1
                BY <1>0, <1>4, <1>6, <2>5, <2>8
            <4> QED
                BY <2>5, <4>1, <4>2, FirstsAre
        <3> QED
            BY <1>7, <2>4, <2>8, <3>1 DEF Arrives, q, w
    <2>9. CASE ~(e > Len(t))
        <3>1. q <= Len(t)
            BY <1>0, <1>6, <2>5, <2>7, <2>9
        <3>2. t[q] = Space
            BY <1>0, <1>3, <1>6, <3>1, ShowsOne DEF Ends
        <3>3. e = q
            <4> SUFFICES ASSUME e # q PROVE FALSE
                OBVIOUS
            <4>1. q \in i + 2 .. e - 1
                BY <1>0, <1>4, <1>6, <2>5, <2>7, <2>9
            <4> QED
                BY <2>5, <3>2, <4>1, FirstsAre
        <3>4. name = s
            <4>1. name = [k \in 1 .. Len(s) |-> t[(i + 2) + k - 1]]
                <5>1. (e - 1) - (i + 2) + 1 = Len(s)
                    BY <1>0, <1>4, <1>6, <3>3
                <5>2. e - 1 \in Nat /\ i + 2 \in Nat
                    BY <1>0, <2>5
                <5>3. name = [k \in 1 .. (e - 1) - (i + 2) + 1 |-> t[(i + 2) + k - 1]]
                    BY <5>2
                <5> HIDE DEF name
                <5> QED
                    BY <5>1, <5>3
            <4>2. \A k \in 1 .. Len(s) : (i + 2) + k - 1 <= Len(t)
                BY <1>0, <1>4, <1>6, <3>1
            <4>3. s = [k \in 1 .. Len(s) |-> s[k]]
                <5>1. s \in [1 .. Len(s) -> Ascii]
                    BY <1>1, LenProperties
                <5> QED
                    BY <5>1
            <4> HIDE DEF name
            <4> QED
                BY <2>6, <4>1, <4>2, <4>3
        <3>5. readBlank(t, i) = Read(n, q)
            BY <1>1, <2>4, <2>9, <3>3, <3>4
        <3>6. q \in 1 .. Len(t) + 1
            BY <1>0, <1>4, <1>6, <3>1
        <3>7. readSpaces(t, q) = Cut(t, q + 1)
            BY <1>3, <3>6, AfterSpace
        <3>8. n # None /\ Same(n, n)
            BY ObjectIs DEF Same
        <3> QED
            BY <1>7, <3>5, <3>6, <3>7, <3>8 DEF Arrives, Read, q, w
    <2> QED
        BY <2>8, <2>9
<1> QED
    BY <1>8, <1>9

LEMMA ArrivesLater ==
    ASSUME NEW t \in Seq(Nat), NEW r, NEW n, NEW q, NEW k \in Nat, NEW l \in Nat, k <= l,
           Arrives(t, r, n, q, k)
    PROVE  Arrives(t, r, n, q, l)
<1>1. Len(t) \in Nat /\ (Len(t) < k => Len(t) < l)
    OBVIOUS
<1> QED
    BY <1>1 DEF Arrives

\* An IRI or a blank node, as a subject or as an object.
LEMMA SubjectArrives ==
    ASSUME NEW t \in Seq(Nat), NEW i \in 1 .. Len(t) + 1, NEW n \in Resources,
           Shows(t, i, EncodeAny(n)), Ends(t, i + Len(EncodeAny(n)))
    PROVE  LET q == i + Len(EncodeAny(n)) IN Arrives(t, readSubject(t, i), n, q, q)
<1> DEFINE q == i + Len(EncodeAny(n))
           r == readIri(t, i)
<1>0. Len(t) \in Nat /\ i \in Nat
    OBVIOUS
<1>1. n \in Objects /\ n.kind \in {"iri", "blank"}
    BY DEF Objects, Resources, Plain
<1>2. q \in Nat
    <2>1. Len(EncodeAny(n)) \in Nat
        BY <1>1, EncodeTyped, LenProperties
    <2> QED
        BY <1>0, <2>1
<1>3. readSubject(t, i) = IF r.err # "nil" \/ r.val # None THEN r ELSE readBlank(t, r.at)
    BY DEF readSubject
<1>4. EOF.err # "nil"
    BY DEF EOF, Fail
<1>5. CASE n.kind = "iri"
    <2>1. Arrives(t, r, n, q, q)
        BY <1>1, <1>5, IriArrives
    <2>2. readSubject(t, i) = r
        BY <1>3, <1>4, <2>1 DEF Arrives
    <2> QED
        BY <2>1, <2>2
<1>6. CASE n.kind = "blank"
    <2>1. (i <= Len(t) => t[i] = Underscore) /\ Arrives(t, readBlank(t, i), n, q, q)
        BY <1>1, <1>6, BlankArrives
    <2>2. CASE i <= Len(t)
        <3>1. r = Read(None, i)
            BY <2>1, <2>2, NoIriThere
        <3> HIDE DEF r
        <3>2. readSubject(t, i) = readBlank(t, i)
            BY <1>3, <3>1 DEF Read
        <3> QED
            BY <2>1, <3>2
    <2>3. CASE ~(i <= Len(t))
        <3>1. i > Len(t) /\ readSpaces(t, i) = i
            BY <1>0, <2>3, SpacesIs
        <3>2. r = EOF /\ readBlank(t, i) = EOF
            <4>1. i + 1 > Len(t)
                BY <1>0, <3>1
            <4> QED
                BY <3>1, <4>1 DEF readIri, readBlank
        <3>3. readSubject(t, i) = EOF
            BY <1>3, <1>4, <3>2
        <3> QED
            BY <2>1, <3>2, <3>3
    <2> QED
        BY <2>2, <2>3
<1> QED
    BY <1>1, <1>5, <1>6

\* Where a literal begins no other node does.
LEMMA NoResourceThere ==
    ASSUME NEW t \in Seq(Nat), NEW i \in 1 .. Len(t) + 1, i <= Len(t) => t[i] = Quote
    PROVE  IF i + 1 <= Len(t) THEN readObject(t, i) = readLiteral(t, i) ELSE readObject(t, i) = EOF
<1> DEFINE r == readIri(t, i)
           s == readSubject(t, i)
<1>0. Len(t) \in Nat /\ i \in Nat
    OBVIOUS
<1>1. /\ s = IF r.err # "nil" \/ r.val # None THEN r ELSE readBlank(t, r.at)
      /\ readObject(t, i) = IF s.err # "nil" \/ s.val # None THEN s ELSE readLiteral(t, s.at)
    BY DEF readSubject, readObject
<1>2. EOF.err # "nil"
    BY DEF EOF, Fail
<1>3. CASE i > Len(t)
    <2>1. readSpaces(t, i) = i
        BY <1>3, SpacesIs
    <2>2. r = EOF
        BY <1>3, <2>1 DEF readIri
    <2>3. ~(i + 1 <= Len(t))
        BY <1>0, <1>3
    <2> HIDE DEF r, s
    <2> QED
        BY <1>1, <1>2, <2>2, <2>3
<1>4. CASE i <= Len(t)
    <2>1. r = Read(None, i) /\ readSpaces(t, i) = i
        BY <1>4, NoIriThere
    <2> HIDE DEF r
    <2>2. s = readBlank(t, i)
        BY <1>1, <2>1 DEF Read
    <2>3. CASE i + 1 > Len(t)
        <3>1. readBlank(t, i) = EOF
            BY <2>1, <2>3 DEF readBlank
        <3>2. ~(i + 1 <= Len(t))
            BY <1>0, <2>3
        <3> HIDE DEF s
        <3> QED
            BY <1>1, <1>2, <2>2, <3>1, <3>2
    <2>4. CASE ~(i + 1 > Len(t))
        <3>1. SubSeq(t, i, i + 1) # <<Underscore, Colon>>
            <4>1. i \in 1 .. Len(t) /\ i + 1 <= Len(t)
                BY <1>0, <1>4, <2>4
            <4>2. SubSeq(t, i, i + 1) = <<t[i], t[i + 1]>>
                BY <4>1, PairIs
            <4> QED
                BY <1>4, <4>2, FirstsAre
        <3>2. readBlank(t, i) = Read(None, i)
            BY <2>1, <2>4, <3>1 DEF readBlank
        <3>3. i + 1 <= Len(t)
            BY <1>0, <2>4
        <3> HIDE DEF s
        <3> QED
            BY <1>1, <2>2, <3>2, <3>3 DEF Read
    <2> QED
        BY <2>3, <2>4
<1> QED
    BY <1>0, <1>3, <1>4

LEMMA QuotedReads ==
    ASSUME NEW t \in Seq(Nat), NEW i \in 1 .. Len(t) + 1, NEW s \in Texts,
           NEW w, w = EncodeString(s), Shows(t, i, w)
    PROVE  /\ Len(w) \in Nat /\ Len(w) >= 2
           /\ i <= Len(t) =>
                 /\ t[i] = Quote /\ readSpaces(t, i) = i
                 /\ readUntil(t, i + 1, Quote) =
                       IF i + Len(w) <= Len(t) + 1
                       THEN Read(Decode(s, EscapeStringMoreChars), i + Len(w)) ELSE EOF
<1> DEFINE E == EscapeStringMoreChars
<1>1. E \in Escapes /\ Quote \in Ascii /\ Quote \in E \ {92}
    BY DEF Escapes, Quote, Ascii, EscapeStringMoreChars
<1>2. w = Enclosed(Quote, s, E, Quote)
    BY DEF EncodeString, Enclosed
<1> HIDE DEF E
<1>3. /\ Len(w) \in Nat /\ Len(w) >= 2
      /\ i <= Len(t) => /\ t[i] = Quote
                        /\ readUntil(t, i + 1, Quote) =
                              IF i + Len(w) <= Len(t) + 1
                              THEN Read(Decode(s, E), i + Len(w)) ELSE EOF
    BY <1>1, <1>2, EnclosedReads
<1>4. i <= Len(t) => readSpaces(t, i) = i
    BY <1>3, FirstsAre, SpacesIs
<1> QED
    BY <1>3, <1>4 DEF E

LEMMA StringArrives ==
    ASSUME NEW t \in Seq(Nat), NEW i \in 1 .. Len(t) + 1, NEW n \in Objects, n.kind = "string",
           Shows(t, i, EncodeAny(n)), Ends(t, i + Len(EncodeAny(n)))
    PROVE  LET q == i + Len(EncodeAny(n)) IN Arrives(t, readObject(t, i), n, q, q + 2)
<1> DEFINE w == EncodeAny(n)
           q == i + Len(w)
           E == EscapeStringMoreChars
           s == n.chars
           d == Decode(s, E)
<1>0. Len(t) \in Nat /\ i \in Nat
    OBVIOUS
<1>1. s \in Texts /\ n = String(s) /\ w = EncodeString(s)
    BY ObjectIs, EncodeIs DEF String
<1>2. d = s /\ d \in Seq(Nat)
    <2>1. E \in Escapes /\ E \ DOMAIN Letters \subseteq {0}
        BY LettersAre DEF Escapes, EscapeStringMoreChars, Quote, CR, LF, Backslash, Tab
    <2>2. \A k \in DOMAIN s : s[k] \in E \ DOMAIN Letters => s[k] < 16
        BY <2>1
    <2> HIDE DEF s, E
    <2> QED
        BY <1>1, <2>1, <2>2, DecodeSame
<1>3. Shows(t, i, w) /\ Ends(t, q)
    OBVIOUS
<1> HIDE DEF w
<1>4. /\ Len(w) \in Nat /\ Len(w) >= 2
      /\ i <= Len(t) =>
            /\ t[i] = Quote /\ readSpaces(t, i) = i
            /\ readUntil(t, i + 1, Quote) = IF q <= Len(t) + 1 THEN Read(d, q) ELSE EOF
    BY <1>1, <1>3, QuotedReads
<1> HIDE DEF q, d, s, E
<1>5. q \in Nat /\ q >= i + 2
    BY <1>0, <1>4 DEF q
<1>6. EOF.err # "nil"
    BY DEF EOF, Fail
<1>7. CASE i + 1 > Len(t)
    <2>1. ~(i + 1 <= Len(t)) /\ Len(t) < q + 2
        BY <1>0, <1>5, <1>7
    <2>2. readObject(t, i) = EOF
        BY <1>4, <2>1, NoResourceThere
    <2> QED
        BY <2>1, <2>2 DEF Arrives, q, w
<1>8. CASE i + 1 <= Len(t)
    <2> DEFINE content == readUntil(t, i + 1, Quote)
               k == readSpaces(t, content.at)
               type == readIri(t, k)
    <2>1. i <= Len(t) /\ ~(i > Len(t))
        BY <1>0, <1>8
    <2>2. readObject(t, i) = readLiteral(t, i)
        BY <1>4, <1>8, NoResourceThere
    <2>3. readLiteral(t, i) =
             IF content.err # "nil" THEN content
             ELSE IF k + 1 > Len(t) THEN EOF
             ELSE IF SubSeq(t, k, k + 1) = <<Caret, Caret>>
             THEN IF type.val = None THEN Fail("ExpectedLiteralType")
                  ELSE Read(TypedString(content.val, type.val.chars), type.at)
             ELSE IF t[k] = At THEN Fail("InvalidCharacterInLanguageTag")
             ELSE Read(String(content.val), k)
        BY <1>4, <2>1, LiteralIs
    <2>4. content = IF q <= Len(t) + 1 THEN Read(d, q) ELSE EOF
        BY <1>4, <2>1
    <2> HIDE DEF content, type
    <2>5. CASE ~(q <= Len(t) + 1)
        <3>1. readObject(t, i) = EOF
            BY <1>6, <2>2, <2>3, <2>4, <2>5
        <3>2. Len(t) < q + 2
            BY <1>0, <1>5, <2>5
        <3> QED
            BY <3>1, <3>2 DEF Arrives, q, w
    <2>6. CASE q <= Len(t) + 1
        <3>1. content = Read(d, q) /\ q \in 1 .. Len(t) + 1
            BY <1>0, <1>5, <2>4, <2>6
        <3>2. content.err = "nil" /\ content.val = d /\ content.at = q
            BY <3>1 DEF Read
        <3>3. k = Cut(t, q + 1)
            BY <1>3, <3>1, <3>2, AfterSpace
        <3> HIDE DEF k
        <3>4. CASE k + 1 > Len(t)
            <4>1. readObject(t, i) = EOF
                BY <2>2, <2>3, <3>2, <3>4
            <4>2. Len(t) < q + 2
                BY <1>0, <1>5, <3>3, <3>4 DEF Cut
            <4> QED
                BY <4>1, <4>2 DEF Arrives, q, w
        <3>5. CASE ~(k + 1 > Len(t))
            <4>1. k = q + 1 /\ k <= Len(t) /\ k + 1 <= Len(t) /\ k \in 1 .. Len(t)
                BY <1>0, <1>5, <3>3, <3>5 DEF Cut
            <4>2. t[k] \in Firsts
                BY <1>3, <4>1 DEF Ends
            <4>3. t[k] # Caret /\ t[k] # At /\ t[k] \notin Spaces \cup {Number}
                BY <4>2, FirstsAre
            <4>4. SubSeq(t, k, k + 1) # <<Caret, Caret>>
                BY <4>1, <4>3, PairIs
            <4>5. readObject(t, i) = Read(String(d), k)
                BY <2>2, <2>3, <3>2, <3>5, <4>3, <4>4
            <4>6. String(d) = n /\ n # None /\ Same(n, n)
                BY <1>1, <1>2, ObjectIs DEF Same
            <4>7. k \in 1 .. Len(t) + 1 /\ readSpaces(t, k) = Cut(t, q + 1)
                <5>1. k \in 1 .. Len(t) + 1
                    BY <1>0, <4>1
                <5>2. readSpaces(t, k) = k
                    BY <4>1, <4>3, <5>1, SpacesIs
                <5> QED
                    BY <3>3, <5>1, <5>2
            <4> QED
                BY <4>5, <4>6, <4>7 DEF Arrives, Read, q, w
        <3> QED
            BY <3>4, <3>5
    <2> QED
        BY <2>5, <2>6
<1> QED
    BY <1>0, <1>7, <1>8

LEMMA ObjectArrives ==
    ASSUME NEW t \in Seq(Nat), NEW i \in 1 .. Len(t) + 1, NEW n \in Objects,
           n.kind \notin {"lang", "typed"},
           Shows(t, i, EncodeAny(n)), Ends(t, i + Len(EncodeAny(n)))
    PROVE  LET q == i + Len(EncodeAny(n)) IN Arrives(t, readObject(t, i), n, q, q + 2)
<1> DEFINE q == i + Len(EncodeAny(n))
           s == readSubject(t, i)
<1>1. q \in Nat /\ q + 2 \in Nat /\ q <= q + 2
    <2>1. Len(EncodeAny(n)) \in Nat
        BY EncodeTyped, LenProperties
    <2> QED
        BY <2>1
<1>2. CASE n.kind = "string"
    BY <1>2, StringArrives
<1>3. CASE n.kind # "string"
    <2>1. n \in Resources
        BY <1>3, ObjectIs
    <2>2. Arrives(t, s, n, q, q)
        BY <2>1, SubjectArrives
    <2>3. readObject(t, i) = IF s.err # "nil" \/ s.val # None THEN s ELSE readLiteral(t, s.at)
        BY DEF readObject
    <2>4. EOF.err # "nil"
        BY DEF EOF, Fail
    <2> HIDE DEF q, s
    <2>5. readObject(t, i) = s
        BY <2>2, <2>3, <2>4 DEF Arrives
    <2> QED
        BY <1>1, <2>2, <2>5, ArrivesLater DEF q
<1> QED
    BY <1>2, <1>3

\* What the reader makes of a type or a language.
LEMMA LiteralRefused ==
    ASSUME NEW t \in Seq(Nat), NEW i \in 1 .. Len(t) + 1, NEW n \in Objects,
           n.kind \in {"lang", "typed"}, Shows(t, i, EncodeAny(n))
    PROVE  readObject(t, i).err # "nil"
<1> DEFINE s == n.chars
           w == EncodeString(s)
           m == IF n.kind = "lang" THEN <<At>> ELSE <<Caret, Caret>>
           z == IF n.kind = "lang" THEN n.tag ELSE EncodeIri(n.tag)
           q == i + Len(w)
           d == Decode(s, EscapeStringMoreChars)
<1>0. Len(t) \in Nat /\ i \in Nat
    OBVIOUS
<1>1. s \in Texts /\ n.tag \in Texts /\ n.tag \in Seq(Ascii)
    BY ObjectIs DEF Texts, Ascii
<1>2. EncodeAny(n) = (w \o m) \o z
    BY EncodeIs
<1>3. w \in Seq(Ascii) /\ m \in Seq(Ascii) /\ z \in Seq(Ascii)
    <2>1. <<At>> \in Seq(Ascii) /\ <<Caret, Caret>> \in Seq(Ascii)
        BY DEF At, Caret, Ascii
    <2> HIDE DEF s
    <2> QED
        BY <1>1, <2>1, EncodedTyped
<1>4. /\ n.kind = "lang" => m = <<At>> /\ Len(m) = 1 /\ m[1] = At
      /\ n.kind = "typed" => m = <<Caret, Caret>> /\ Len(m) = 2 /\ m[1] = Caret /\ m[2] = Caret
    OBVIOUS
<1>5. Shows(t, i, w) /\ Shows(t, q, m)
    <2> DEFINE wm == w \o m
    <2>1. Shows(t, i, wm \o z)
        BY <1>2
    <2>2. wm \in Seq(Ascii)
        BY <1>3, ConcatTyped
    <2> HIDE DEF w, m, z, wm
    <2>3. Shows(t, i, wm)
        BY <1>0, <1>3, <2>1, <2>2, ShowsJoin
    <2>4. Shows(t, i, w \o m)
        BY <2>3 DEF wm
    <2> QED
        BY <1>0, <1>3, <2>4, ShowsJoin
<1>6. w = EncodeString(s)
    OBVIOUS
<1> HIDE DEF w, m, z
<1>7. /\ Len(w) \in Nat /\ Len(w) >= 2
      /\ i <= Len(t) =>
            /\ t[i] = Quote /\ readSpaces(t, i) = i
            /\ readUntil(t, i + 1, Quote) = IF q <= Len(t) + 1 THEN Read(d, q) ELSE EOF
    BY <1>1, <1>5, <1>6, QuotedReads
<1> HIDE DEF q, d, s
<1>8. q \in Nat /\ q >= i + 2
    BY <1>0, <1>7 DEF q
<1>9. EOF.err # "nil" /\ \A e : e # "nil" => Fail(e).err # "nil"
    BY DEF EOF, Fail
<1>10. CASE i + 1 > Len(t)
    <2>1. ~(i + 1 <= Len(t))
        BY <1>0, <1>10
    <2> QED
        BY <1>7, <1>9, <2>1, NoResourceThere
<1>11. CASE i + 1 <= Len(t)
    <2> DEFINE content == readUntil(t, i + 1, Quote)
               k == readSpaces(t, content.at)
               type == readIri(t, k)
    <2>1. i <= Len(t) /\ ~(i > Len(t))
        BY <1>0, <1>11
    <2>2. readObject(t, i) = readLiteral(t, i)
        BY <1>7, <1>11, NoResourceThere
    <2>3. readLiteral(t, i) =
             IF content.err # "nil" THEN content
             ELSE IF k + 1 > Len(t) THEN EOF
             ELSE IF SubSeq(t, k, k + 1) = <<Caret, Caret>>
             THEN IF type.val = None THEN Fail("ExpectedLiteralType")
                  ELSE Read(TypedString(content.val, type.val.chars), type.at)
             ELSE IF t[k] = At THEN Fail("InvalidCharacterInLanguageTag")
             ELSE Read(String(content.val), k)
        BY <1>7, <2>1, LiteralIs
    <2>4. content = IF q <= Len(t) + 1 THEN Read(d, q) ELSE EOF
        BY <1>7, <2>1
    <2> HIDE DEF content
    <2>5. CASE ~(q <= Len(t) + 1)
        BY <1>9, <2>2, <2>3, <2>4, <2>5
    <2>6. CASE q <= Len(t) + 1
        <3>1. content = Read(d, q) /\ q \in 1 .. Len(t) + 1
            BY <1>0, <1>8, <2>4, <2>6
        <3>2. content.err = "nil" /\ content.val = d /\ content.at = q
            BY <3>1 DEF Read
        <3>3. 1 \in 1 .. Len(m) /\ q + 1 - 1 = q
            BY <1>4, <1>8
        <3>4. q <= Len(t) => t[q] = m[1]
            BY <1>5, <3>3 DEF Shows
        <3>5. m[1] \in {At, Caret}
            BY <1>4
        <3>6. k = q
            <4>1. q <= Len(t) => t[q] \notin Spaces \cup {Number}
                BY <3>4, <3>5, FirstsAre
            <4>2. q > Len(t) \/ q <= Len(t)
                BY <1>0, <1>8
            <4> QED
                BY <3>1, <3>2, <4>1, <4>2, SpacesIs
        <3> HIDE DEF k, type
        <3>7. CASE k + 1 > Len(t)
            BY <1>9, <2>2, <2>3, <3>2, <3>7
        <3>8. CASE ~(k + 1 > Len(t))
            <4>1. q \in 1 .. Len(t) /\ q + 1 <= Len(t) /\ q <= Len(t)
                BY <1>0, <1>8, <3>6, <3>8
            <4>2. SubSeq(t, k, k + 1) = <<t[q], t[q + 1]>>
                BY <3>6, <4>1, PairIs
            <4>3. CASE n.kind = "lang"
                <5>1. t[q] = At
                    BY <1>4, <3>4, <4>1, <4>3
                <5>2. SubSeq(t, k, k + 1) # <<Caret, Caret>>
                    BY <4>2, <5>1, FirstsAre
                <5>3. readObject(t, i) = Fail("InvalidCharacterInLanguageTag")
                    BY <2>2, <2>3, <3>2, <3>6, <3>8, <5>1, <5>2
                <5> QED
                    BY <1>9, <5>3
            <4>4. CASE n.kind = "typed"
                <5>1. t[q] = Caret
                    BY <1>4, <3>4, <4>1, <4>4
                <5>2. t[q + 1] = Caret
                    <6>1. 2 \in 1 .. Len(m)
                        <7>1. Len(m) = 2
                            BY <1>4, <4>4
                        <7> QED
                            BY <7>1
                    <6>2. q + 2 - 1 = q + 1
                        BY <1>8
                    <6>3. t[q + 1] = m[2]
                        BY <1>5, <4>1, <6>1, <6>2 DEF Shows
                    <6> QED
                        BY <1>4, <4>4, <6>3
                <5>3. SubSeq(t, k, k + 1) = <<Caret, Caret>>
                    BY <4>2, <5>1, <5>2
                <5>4. type = Read(None, q)
                    BY <3>6, <4>1, <5>1, NoIriThere DEF type
                <5>5. readObject(t, i) = Fail("ExpectedLiteralType")
                    BY <2>2, <2>3, <3>2, <3>8, <5>3, <5>4 DEF Read
                <5> QED
                    BY <1>9, <5>5
            <4> QED
                BY <4>3, <4>4
        <3> QED
            BY <3>7, <3>8
    <2> QED
        BY <2>5, <2>6
<1> QED
    BY <1>0, <1>10, <1>11

-----------------------------------------------------------------------------
(* Where each call's line begins, and how many statements come before it *)

Start(cs, i) == Len(Upto(LinesOf(cs), i - 1)) + 1

\* t is what has arrived of the text that cs wrote.
Carries(t, cs) ==
    /\ t \in Seq(Nat) /\ cs \in Seq(Calls)
    /\ Shows(t, 1, Upto(LinesOf(cs), Len(cs)))
    /\ Len(t) < Start(cs, Len(cs) + 1)

LEMMA StartIs ==
    ASSUME NEW cs \in Seq(Calls)
    PROVE  /\ Start(cs, 1) = 1
           /\ Start(cs, Len(cs) + 1) = Len(FlattenSeq(LinesOf(cs))) + 1
           /\ \A i \in 1 .. Len(cs) + 1 : Start(cs, i) \in Nat \ {0}
           /\ \A i \in 1 .. Len(cs) :
                 /\ Start(cs, i + 1) = Start(cs, i) + Len(Line(cs[i])) /\ Len(Line(cs[i])) \in Nat
                 /\ \A t : Shows(t, 1, Upto(LinesOf(cs), Len(cs))) => Shows(t, Start(cs, i), Line(cs[i]))
<1> DEFINE ss == LinesOf(cs)
           n == Len(cs)
<1>1. /\ n \in Nat /\ AreSeqs(ss, n, Ascii) /\ FlattenSeq(ss) = Upto(ss, n)
      /\ \A i \in 1 .. n : ss[i] = Line(cs[i]) /\ cs[i] \in Calls
    BY CallsAre
<1> HIDE DEF ss, n
<1>2. ASSUME NEW i \in 1 .. n + 1
      PROVE  Len(Upto(ss, i - 1)) + 1 \in Nat \ {0}
    <2>1. i - 1 \in 0 .. n
        BY <1>1
    <2>2. Upto(ss, i - 1) \in Seq(Ascii)
        BY <1>1, <2>1, UptoGrows
    <2>3. Len(Upto(ss, i - 1)) \in Nat
        BY <2>2, LenProperties
    <2> QED
        BY <2>3
<1>3. ASSUME NEW i \in 1 .. n
      PROVE  /\ Len(Upto(ss, (i + 1) - 1)) + 1 = (Len(Upto(ss, i - 1)) + 1) + Len(Line(cs[i]))
             /\ Len(Line(cs[i])) \in Nat
             /\ \A t : Shows(t, 1, Upto(ss, n)) => Shows(t, Len(Upto(ss, i - 1)) + 1, Line(cs[i]))
    <2> DEFINE x == Len(Upto(ss, i - 1))
               y == Len(Line(cs[i]))
    <2>1. y \in Nat
        BY <1>1, LineTyped, LenProperties
    <2>2. i \in 1 .. n + 1 /\ (i + 1) - 1 = i
        BY <1>1
    <2>3. x + 1 \in Nat \ {0} /\ x \in Nat
        <3>1. x + 1 \in Nat \ {0}
            BY <1>2, <2>2
        <3>2. i - 1 \in 0 .. n
            BY <1>1
        <3>3. Upto(ss, i - 1) \in Seq(Ascii)
            BY <1>1, <3>2, UptoGrows
        <3>4. x \in Nat
            BY <3>3, LenProperties
        <3> QED
            BY <3>1, <3>4
    <2>4. Len(Upto(ss, i)) = x + Len(ss[i]) /\ ss[i] = Line(cs[i])
        BY <1>1, UptoPiece
    <2>5. ASSUME NEW t, Shows(t, 1, Upto(ss, n))
          PROVE  Shows(t, x + 1, Line(cs[i]))
        <3>1. Shows(t, 1 + x, ss[i])
            BY <1>1, <2>5, ShowsPiece
        <3>2. 1 + x = x + 1
            BY <2>3
        <3> QED
            BY <2>4, <3>1, <3>2
    <2> HIDE DEF x, y
    <2>6. x + y + 1 = (x + 1) + y
        BY <2>1, <2>3
    <2> QED
        BY <2>1, <2>2, <2>4, <2>5, <2>6 DEF x, y
<1>4. Len(Upto(ss, 1 - 1)) + 1 = 1
    BY UptoNone
<1>5. (n + 1) - 1 = n
    BY <1>1
<1> QED
    BY <1>1, <1>2, <1>3, <1>4, <1>5 DEF Start, ss, n

LEMMA StartGrows ==
    ASSUME NEW cs \in Seq(Calls), NEW i \in 1 .. Len(cs) + 1, NEW j \in i .. Len(cs) + 1
    PROVE  Start(cs, i) <= Start(cs, j)
<1> DEFINE ss == LinesOf(cs)
           n == Len(cs)
<1>1. n \in Nat /\ AreSeqs(ss, n, Ascii)
    BY CallsAre
<1> HIDE DEF ss
<1>2. AreSeqs(ss, j - 1, Ascii) /\ j - 1 \in Nat /\ i - 1 \in 0 .. j - 1
    BY <1>1 DEF AreSeqs
<1>3. Upto(ss, i - 1) \in Seq(Ascii) /\ Len(Upto(ss, i - 1)) <= Len(Upto(ss, j - 1))
    BY <1>2, UptoGrows
<1>4. j - 1 \in 0 .. j - 1
    BY <1>2
<1>5. Upto(ss, j - 1) \in Seq(Ascii)
    BY <1>2, <1>4, UptoGrows
<1>6. Len(Upto(ss, i - 1)) \in Nat /\ Len(Upto(ss, j - 1)) \in Nat
    BY <1>3, <1>5, LenProperties
<1> QED
    BY <1>3, <1>6 DEF Start, ss

CountTo(cs, i) == Cardinality({j \in 1 .. i : IsStatement(cs[j])})

LEMMA CountIs ==
    ASSUME NEW cs, NEW i \in Nat
    PROVE  /\ CountTo(cs, i) \in Nat
           /\ CountTo(cs, 0) = 0
           /\ IsStatement(cs[i + 1]) => CountTo(cs, i + 1) = CountTo(cs, i) + 1
           /\ ~IsStatement(cs[i + 1]) => CountTo(cs, i + 1) = CountTo(cs, i)
           /\ \A k \in Nat : i <= k => CountTo(cs, i) <= CountTo(cs, k)
           /\ \A k \in Nat : i < k /\ IsStatement(cs[k]) => CountTo(cs, i) < CountTo(cs, k)
           /\ \A k \in Nat : (\A j \in i + 1 .. k : ~IsStatement(cs[j])) /\ i <= k
                 => CountTo(cs, k) = CountTo(cs, i)
<1> DEFINE S(n) == {j \in 1 .. n : IsStatement(cs[j])}
<1>1. ASSUME NEW n \in Nat
      PROVE  IsFiniteSet(S(n)) /\ Cardinality(S(n)) \in Nat
    <2>1. IsFiniteSet(1 .. n)
        BY FS_Interval
    <2>2. S(n) \subseteq 1 .. n
        OBVIOUS
    <2> HIDE DEF S
    <2> QED
        BY <2>1, <2>2, FS_Subset, FS_CardinalityType
<1>2. S(0) = {} /\ Cardinality({}) = 0
    BY FS_EmptySet
<1>3. ASSUME NEW n \in Nat, IsStatement(cs[n + 1])
      PROVE  Cardinality(S(n + 1)) = Cardinality(S(n)) + 1
    <2>1. S(n + 1) = S(n) \cup {n + 1} /\ n + 1 \notin S(n)
        BY <1>3
    <2>2. IsFiniteSet(S(n))
        BY <1>1
    <2> HIDE DEF S
    <2> QED
        BY <2>1, <2>2, FS_AddElement
<1>4. ASSUME NEW n \in Nat, NEW k \in Nat, n <= k
      PROVE  Cardinality(S(n)) <= Cardinality(S(k))
    <2>1. S(n) \subseteq S(k)
        BY <1>4
    <2>2. IsFiniteSet(S(k))
        BY <1>1
    <2> HIDE DEF S
    <2> QED
        BY <2>1, <2>2, FS_Subset
<1>5. ASSUME NEW k \in Nat, \A j \in i + 1 .. k : ~IsStatement(cs[j]), i <= k
      PROVE  S(k) = S(i)
    BY <1>5
<1>6. ASSUME NEW k \in Nat, i < k, IsStatement(cs[k])
      PROVE  Cardinality(S(i)) < Cardinality(S(k))
    <2>1. k - 1 \in Nat /\ i <= k - 1 /\ (k - 1) + 1 = k
        BY <1>6
    <2>2. IsStatement(cs[(k - 1) + 1])
        BY <1>6, <2>1
    <2> HIDE DEF S
    <2> DEFINE m == k - 1
    <2>3. m \in Nat /\ i <= m /\ m + 1 = k /\ IsStatement(cs[m + 1])
        BY <2>1, <2>2
    <2> HIDE DEF m
    <2>4. Cardinality(S(m + 1)) = Cardinality(S(m)) + 1
        BY <1>3, <2>3
    <2>5. Cardinality(S(i)) <= Cardinality(S(m))
        BY <1>4, <2>3
    <2>6. Cardinality(S(i)) \in Nat /\ Cardinality(S(m)) \in Nat
        BY <1>1, <2>3
    <2> QED
        BY <2>3, <2>4, <2>5, <2>6
<1>7. ASSUME ~IsStatement(cs[i + 1])
      PROVE  S(i + 1) = S(i)
    BY <1>7
<1> HIDE DEF S
<1>8. \A n : CountTo(cs, n) = Cardinality(S(n))
    BY DEF CountTo, S
<1> QED
    BY <1>1, <1>2, <1>3, <1>4, <1>5, <1>6, <1>7, <1>8

-----------------------------------------------------------------------------
(* From one statement to the next *)

\* The first character of what is written for a node.
LEMMA FirstIs ==
    ASSUME NEW n \in Objects, NEW t, NEW p \in Nat, Shows(t, p, EncodeAny(n)), p <= Len(t)
    PROVE  t[p] = (CASE n.kind = "iri" -> Less [] n.kind = "blank" -> Underscore [] OTHER -> Quote)
<1> DEFINE x(s) == Escape(s, EscapeStringMoreChars)
           y(s) == Escape(s, EscapeIriChars)
<1>1. n.chars \in Texts /\ n.kind \in {"iri", "blank", "string", "lang", "typed"}
    BY ObjectIs
<1>2. \A s \in Texts : x(s) \in Seq(Ascii) /\ y(s) \in Seq(Ascii)
    BY EscapeWritten DEF Escapes, Texts, Ascii
<1>3. <<Less>> \in Seq(Ascii) /\ <<Greater>> \in Seq(Ascii) /\ <<Quote>> \in Seq(Ascii) /\ <<At>> \in Seq(Ascii)
      /\ <<Caret, Caret>> \in Seq(Ascii) /\ <<Underscore, Colon>> \in Seq(Ascii)
    BY DEF Less, Greater, Quote, At, Caret, Underscore, Colon, Ascii
<1> HIDE DEF x, y
<1>4. ASSUME NEW a \in Seq(Ascii), NEW b \in Seq(Ascii), NEW c \in Seq(Ascii), Shows(t, p, (a \o b) \o c)
      PROVE  Shows(t, p, a)
    <2> DEFINE ab == a \o b
    <2>1. ab \in Seq(Ascii) /\ Shows(t, p, ab \o c)
        BY <1>4, ConcatTyped
    <2> HIDE DEF ab
    <2>2. Shows(t, p, ab)
        BY <2>1, ShowsJoin
    <2>3. Shows(t, p, a \o b)
        BY <2>2 DEF ab
    <2> QED
        BY <2>3, ShowsJoin
<1>5. ASSUME NEW s \in Texts, Shows(t, p, EncodeString(s))
      PROVE  t[p] = Quote
    <2>1. Shows(t, p, (<<Quote>> \o x(s)) \o <<Quote>>)
        BY <1>5 DEF EncodeString, x
    <2>2. Shows(t, p, <<Quote>>)
        BY <1>2, <1>3, <1>4, <2>1
    <2> QED
        BY <2>2, ShowsOne
<1>6. CASE n.kind = "iri"
    <2>1. Shows(t, p, (<<Less>> \o y(n.chars)) \o <<Greater>>)
        BY <1>6, EncodeIs DEF EncodeIri, y
    <2>2. Shows(t, p, <<Less>>)
        BY <1>1, <1>2, <1>3, <1>4, <2>1
    <2>3. t[p] = Less
        BY <2>2, ShowsOne
    <2> QED
        BY <1>6, <2>3
<1>7. CASE n.kind = "blank"
    <2>1. n.chars \in Seq(Ascii)
        BY <1>1 DEF Texts, Ascii
    <2>2. Shows(t, p, <<Underscore, Colon>> \o n.chars)
        BY <1>7, EncodeIs
    <2>3. Shows(t, p, <<Underscore, Colon>>)
        BY <1>3, <2>1, <2>2, ShowsJoin
    <2>4. 1 \in 1 .. Len(<<Underscore, Colon>>) /\ <<Underscore, Colon>>[1] = Underscore /\ p + 1 - 1 = p
        OBVIOUS
    <2>5. t[p] = Underscore
        BY <2>3, <2>4 DEF Shows
    <2> QED
        BY <1>7, <2>5
<1>8. CASE n.kind \notin {"iri", "blank"}
    <2> DEFINE w == EncodeString(n.chars)
               z == EncodeIri(n.tag)
    <2>1. w \in Seq(Ascii)
        BY <1>1, EncodedTyped
    <2>2. n.kind \in {"lang", "typed"} => n.tag \in Seq(Ascii) /\ z \in Seq(Ascii)
        <3>1. n.kind \in {"lang", "typed"} => n.tag \in Texts
            BY ObjectIs
        <3> QED
            BY <3>1, EncodedTyped DEF Texts, Ascii
    <2>3. /\ n.kind = "string" => Shows(t, p, w)
          /\ n.kind = "lang" => Shows(t, p, (w \o <<At>>) \o n.tag)
          /\ n.kind = "typed" => Shows(t, p, (w \o <<Caret, Caret>>) \o z)
        BY EncodeIs
    <2> HIDE DEF w, z
    <2>4. Shows(t, p, w)
        BY <1>1, <1>3, <1>4, <1>8, <2>1, <2>2, <2>3
    <2>5. t[p] = Quote
        BY <1>1, <1>5, <2>4 DEF w
    <2> QED
        BY <1>8, <2>5
<1> QED
    BY <1>6, <1>7, <1>8

\* After each part of a statement there is a space, and the next part.
LEMMA EndsAre ==
    ASSUME NEW st \in Statements, NEW t \in Seq(Nat), NEW i \in Nat, ShowsParts(t, i, st)
    PROVE  /\ Ends(t, i + SubjectEnds(st)) /\ Ends(t, i + PredicateEnds(st))
           /\ Ends(t, i + ObjectEnds(st)) /\ Ends(t, i + GraphEnds(st))
<1>1. /\ SubjectEnds(st) \in Nat /\ PredicateEnds(st) \in Nat /\ ObjectEnds(st) \in Nat /\ GraphEnds(st) \in Nat
      /\ st.graph = None => GraphEnds(st) = ObjectEnds(st)
    BY LengthsAre DEF GraphEnds
<1>2. ASSUME NEW n \in Objects, NEW p \in Nat, Shows(t, p, EncodeAny(n)), p <= Len(t)
      PROVE  t[p] \in Firsts
    BY <1>2, FirstIs, FirstsAre
<1>3. /\ Shows(t, i + SubjectEnds(st), <<Space>>)
      /\ Shows(t, i + SubjectEnds(st) + 1, EncodeAny(st.predicate))
      /\ Shows(t, i + PredicateEnds(st), <<Space>>)
      /\ Shows(t, i + PredicateEnds(st) + 1, EncodeAny(st.object))
      /\ Shows(t, i + ObjectEnds(st), <<Space>>)
      /\ st.graph # None => Shows(t, i + ObjectEnds(st) + 1, EncodeAny(st.graph))
      /\ Shows(t, i + GraphEnds(st), <<Space>>)
      /\ Shows(t, i + GraphEnds(st) + 1, <<Dot>>)
    BY DEF ShowsParts
<1>4. st.predicate \in Objects /\ st.object \in Objects /\ (st.graph # None => st.graph \in Objects)
    BY StatementIs
<1> DEFINE a == SubjectEnds(st)
           b == PredicateEnds(st)
           c == ObjectEnds(st)
           d == GraphEnds(st)
<1> HIDE DEF a, b, c, d
<1>5. i + a + 1 \in Nat /\ i + b + 1 \in Nat /\ i + c + 1 \in Nat /\ i + d + 1 \in Nat
    BY SMTT(30), <1>1 DEF a, b, c, d
<1>6. Ends(t, i + a) /\ Ends(t, i + b)
    BY <1>2, <1>3, <1>4, <1>5 DEF Ends, a, b
<1>7. Ends(t, i + d)
    <2>1. i + d + 1 <= Len(t) => t[i + d + 1] = Dot
        BY <1>3, <1>5, ShowsOne DEF d
    <2> QED
        BY <1>3, <2>1, FirstsAre DEF Ends, d
<1>8. Ends(t, i + c)
    <2>1. CASE st.graph = None
        BY <1>1, <1>7, <2>1 DEF c, d
    <2>2. CASE st.graph # None
        BY <1>2, <1>3, <1>4, <1>5, <2>2 DEF Ends, c
    <2> QED
        BY <2>1, <2>2
<1> QED
    BY <1>6, <1>7, <1>8 DEF a, b, c, d

LEMMA CutIs ==
    ASSUME NEW t \in Seq(Nat), NEW p \in Nat \ {0}
    PROVE  /\ Cut(t, p) \in 1 .. Len(t) + 1
           /\ Len(t) \in Nat
           /\ p <= Len(t) => Cut(t, p) = p
           /\ p > Len(t) => Cut(t, p) = Len(t) + 1
           /\ readSpaces(t, Len(t) + 1) = Len(t) + 1
<1>1. Len(t) \in Nat /\ Len(t) + 1 \in 1 .. Len(t) + 1 /\ Len(t) + 1 > Len(t)
    OBVIOUS
<1>2. readSpaces(t, Len(t) + 1) = Len(t) + 1
    BY <1>1, SpacesIs
<1> QED
    BY <1>1, <1>2 DEF Cut

\* A line end at p.
LEMMA LineEndSkipped ==
    ASSUME NEW t \in Seq(Nat), NEW p \in Nat \ {0}, Shows(t, p, <<LF>>)
    PROVE  readSpaces(t, Cut(t, p)) = readSpaces(t, Cut(t, p + 1))
<1>1. Len(t) \in Nat /\ p + 1 \in Nat \ {0}
    OBVIOUS
<1>2. CASE p <= Len(t)
    <2>1. t[p] = LF
        BY <1>2, ShowsOne
    <2>2. readSpaces(t, p) = readSpaces(t, p + 1)
        <3>1. p \in 1 .. Len(t) + 1
            BY <1>1, <1>2
        <3> QED
            BY <1>2, <2>1, <3>1, FirstsAre, SpacesIs
    <2>3. Cut(t, p) = p /\ Cut(t, p + 1) = p + 1
        BY <1>1, <1>2 DEF Cut
    <2> QED
        BY <2>2, <2>3
<1>3. CASE ~(p <= Len(t))
    <2>1. Cut(t, p) = Len(t) + 1 /\ Cut(t, p + 1) = Len(t) + 1
        BY <1>1, <1>3 DEF Cut
    <2> QED
        BY <2>1
<1> QED
    BY <1>2, <1>3

\* A comment or an empty line is skipped.
LEMMA LineSkipped ==
    ASSUME NEW t, NEW cs, Carries(t, cs), NEW i \in 1 .. Len(cs), OneLine(cs[i]), ~IsStatement(cs[i])
    PROVE  readSpaces(t, Cut(t, Start(cs, i))) = readSpaces(t, Cut(t, Start(cs, i + 1)))
<1> DEFINE p == Start(cs, i)
           w == Line(cs[i])
<1>1. t \in Seq(Nat) /\ cs \in Seq(Calls) /\ Len(cs) \in Nat /\ cs[i] \in Calls
    BY CallsAre DEF Carries
<1>2. /\ p \in Nat \ {0} /\ Start(cs, i + 1) = p + Len(w) /\ Len(w) \in Nat
      /\ Shows(t, p, w)
    <2>1. i \in 1 .. Len(cs) + 1
        BY <1>1
    <2> QED
        BY <1>1, <2>1, StartIs DEF Carries
<1> HIDE DEF p
<1>3. Len(t) \in Nat
    BY <1>1
<1>4. CASE cs[i].kind = "comment"
    <2>1. cs[i].comment \in Texts /\ w = Comment(cs[i].comment)
        BY <1>1, <1>4, CallIs
    <2>2. Remark(w) /\ Clear(w)
        BY <2>1, CommentShape DEF OneLine
    <2> HIDE DEF w
    <2>3. CASE p <= Len(t)
        <3>1. p \in 1 .. Len(t) + 1 /\ Cut(t, p) = p
            BY <1>2, <1>3, <2>3 DEF Cut
        <3> QED
            BY <1>1, <1>2, <2>2, <3>1, CommentSkipped DEF p
    <2>4. CASE ~(p <= Len(t))
        <3>1. Cut(t, p) = Len(t) + 1 /\ Cut(t, p + Len(w)) = Len(t) + 1
            BY <1>2, <1>3, <2>4 DEF Cut
        <3> QED
            BY <1>2, <3>1 DEF p
    <2> QED
        BY <2>3, <2>4
<1>5. CASE cs[i].kind = "empty"
    <2>1. w = <<LF>>
        BY <1>1, <1>5, CallIs
    <2>2. Len(w) = 1 /\ Shows(t, p, <<LF>>)
        BY <1>2, <2>1
    <2> HIDE DEF w
    <2> QED
        BY <1>1, <1>2, <2>2, LineEndSkipped DEF p
<1> QED
    BY <1>1, <1>4, <1>5, CallIs DEF IsStatement

\* The parts of a statement where it stands in the text.
LEMMA StatementStands ==
    ASSUME NEW t, NEW cs, Carries(t, cs), NEW k \in 1 .. Len(cs), IsStatement(cs[k])
    PROVE  /\ cs[k].st \in Statements /\ t \in Seq(Nat)
           /\ ShowsParts(t, Start(cs, k), cs[k].st) /\ Start(cs, k) \in Nat \ {0}
           /\ Start(cs, k + 1) = Start(cs, k) + GraphEnds(cs[k].st) + 3
           /\ GraphEnds(cs[k].st) \in Nat
<1>1. t \in Seq(Nat) /\ cs \in Seq(Calls) /\ Len(cs) \in Nat /\ cs[k] \in Calls
    BY CallsAre DEF Carries
<1>2. cs[k].st \in Statements /\ Line(cs[k]) = Quad(cs[k].st)
    BY <1>1, CallIs DEF IsStatement
<1>3. k \in 1 .. Len(cs) + 1
    BY <1>1
<1>4. /\ Start(cs, k) \in Nat \ {0} /\ Start(cs, k + 1) = Start(cs, k) + Len(Line(cs[k]))
      /\ Shows(t, Start(cs, k), Line(cs[k]))
    BY <1>1, <1>3, StartIs DEF Carries
<1>5. Len(Quad(cs[k].st)) = GraphEnds(cs[k].st) + 3 /\ ShowsParts(t, Start(cs, k), cs[k].st)
    BY <1>2, <1>4, QuadIs
<1>6. GraphEnds(cs[k].st) \in Nat
    BY <1>2, LengthsAre
<1> DEFINE p == Start(cs, k)
           g == GraphEnds(cs[k].st)
<1>7. p + (g + 3) = p + g + 3
    <2> HIDE DEF p, g
    <2> QED
        BY <1>4, <1>6 DEF p, g
<1> QED
    BY <1>1, <1>2, <1>4, <1>5, <1>6, <1>7

\* From the beginning of a line the reader comes to the next statement.
LEMMA NextStatement ==
    ASSUME NEW t, NEW cs, Carries(t, cs), \A i \in DOMAIN cs : OneLine(cs[i]),
           NEW i \in 1 .. Len(cs) + 1
    PROVE  \E k \in i .. Len(cs) + 1 :
              /\ \A j \in i .. k - 1 : ~IsStatement(cs[j])
              /\ k <= Len(cs) => IsStatement(cs[k])
              /\ readSpaces(t, Cut(t, Start(cs, i))) = Cut(t, Start(cs, k))
<1> DEFINE n == Len(cs)
           T == {m \in i .. n + 1 : m = n + 1 \/ IsStatement(cs[m])}
<1>1. t \in Seq(Nat) /\ cs \in Seq(Calls) /\ n \in Nat /\ DOMAIN cs = 1 .. n /\ Len(t) \in Nat
    BY CallsAre DEF Carries
<1>2. T \in SUBSET Nat /\ n + 1 \in T
    BY <1>1
<1>3. PICK k \in T : \A m \in T : k <= m
    <2> HIDE DEF T
    <2> QED
        BY <1>2, LeastNatural
<1>4. k \in i .. n + 1 /\ (k <= n => IsStatement(cs[k]))
    BY <1>1, <1>3
<1>5. \A j \in i .. k - 1 : ~IsStatement(cs[j])
    <2> SUFFICES ASSUME NEW j \in i .. k - 1, IsStatement(cs[j]) PROVE FALSE
        OBVIOUS
    <2>1. j \in T /\ ~(k <= j)
        BY <1>1, <1>4
    <2> QED
        BY <1>3, <2>1
<1> HIDE DEF T
<1> DEFINE Behind(m) == readSpaces(t, Cut(t, Start(cs, m)))
           U == {m \in i .. k : Behind(m) # Behind(i)}
<1>6. U = {}
    <2> SUFFICES ASSUME U # {} PROVE FALSE
        OBVIOUS
    <2>1. U \in SUBSET Nat
        BY <1>1
    <2>2. PICK m \in U : \A l \in U : m <= l
        <3> HIDE DEF U
        <3> QED
            BY <2>1, LeastNatural
    <2>3. m \in i .. k /\ Behind(m) # Behind(i)
        OBVIOUS
    <2> HIDE DEF Behind
    <2>4. m # i
        BY <2>3
    <2>5. m - 1 \in i .. k - 1 /\ m - 1 \in i .. k /\ ~(m <= m - 1) /\ m - 1 \in 1 .. n /\ (m - 1) + 1 = m
        BY <1>1, <1>4, <2>3, <2>4
    <2>6. Behind(m - 1) = Behind(i)
        BY <2>2, <2>5
    <2> DEFINE l == m - 1
    <2>7. l \in 1 .. n /\ OneLine(cs[l]) /\ ~IsStatement(cs[l]) /\ l + 1 = m
        BY <1>1, <1>5, <2>5
    <2>8. Behind(l) = Behind(i)
        BY <2>6
    <2> HIDE DEF l
    <2>9. Behind(l) = Behind(l + 1)
        BY <2>7, LineSkipped DEF Behind
    <2> QED
        BY <2>3, <2>7, <2>8, <2>9
<1>7. Behind(k) = Behind(i)
    <2>1. k \in i .. k
        BY <1>1, <1>4
    <2> HIDE DEF Behind
    <2> QED
        BY <1>6, <2>1
<1>8. Behind(k) = Cut(t, Start(cs, k))
    <2>1. k \in 1 .. n + 1
        BY <1>1, <1>4
    <2>2. Start(cs, k) \in Nat \ {0}
        BY <1>1, <2>1, StartIs
    <2> DEFINE p == Start(cs, k)
    <2>3. CASE p > Len(t)
        <3>1. Cut(t, p) = Len(t) + 1
            BY <1>1, <2>2, <2>3, CutIs
        <3> HIDE DEF p
        <3>2. Behind(k) = readSpaces(t, Len(t) + 1)
            BY <3>1 DEF p
        <3> QED
            BY <1>1, <2>2, <3>1, <3>2, CutIs DEF p
    <2>4. CASE p <= Len(t)
        <3>1. k <= n
            <4> SUFFICES ASSUME k = n + 1 PROVE FALSE
                BY <1>1, <2>1
            <4>1. Len(t) < p
                BY DEF Carries
            <4> QED
                BY <1>1, <2>2, <2>4, <4>1
        <3>2. k \in 1 .. n /\ IsStatement(cs[k])
            BY <1>1, <1>4, <2>1, <3>1
        <3>3. cs[k].st \in Statements /\ ShowsParts(t, p, cs[k].st)
            BY <3>2, StatementStands
        <3>4. cs[k].st.subject \in Objects /\ Shows(t, p, EncodeAny(cs[k].st.subject))
            BY <3>3, StatementIs DEF ShowsParts
        <3> HIDE DEF p
        <3>5. t[p] \in Firsts
            BY <2>2, <2>4, <3>4, FirstIs, FirstsAre DEF p
        <3>6. t[p] \notin Spaces \cup {Number}
            BY <3>5, FirstsAre
        <3>7. p \in 1 .. Len(t) + 1 /\ Cut(t, p) = p
            BY <1>1, <2>2, <2>4 DEF Cut, p
        <3>8. readSpaces(t, p) = p
            BY <1>1, <2>4, <3>6, <3>7, SpacesIs
        <3> QED
            BY <3>7, <3>8 DEF p
    <2> QED
        BY <1>1, <2>2, <2>3, <2>4
<1> HIDE DEF Behind
<1>9. Behind(i) = Cut(t, Start(cs, k))
    BY <1>7, <1>8
<1> QED
    BY <1>4, <1>5, <1>9 DEF Behind

-----------------------------------------------------------------------------
(* What the reader finds before the place p, with spaces to read first *)

Comes(t, a, p) == a \in 1 .. Len(t) + 1 /\ readSpaces(t, a) = Cut(t, p)

LEMMA AtPlace ==
    ASSUME NEW t \in Seq(Nat), NEW p \in Nat \ {0}, NEW a, Comes(t, a, p)
    PROVE  /\ p <= Len(t) => /\ p \in 1 .. Len(t) + 1 /\ readSpaces(t, a) = p
                             /\ readIri(t, a) = readIri(t, p)
                             /\ readSubject(t, a) = readSubject(t, p)
                             /\ readObject(t, a) = readObject(t, p)
           /\ ~(p <= Len(t)) => /\ Len(t) < p /\ readSpaces(t, a) = Len(t) + 1
                                /\ readIri(t, a) = EOF /\ readSubject(t, a) = EOF /\ readObject(t, a) = EOF
<1>0. Len(t) \in Nat /\ a \in 1 .. Len(t) + 1 /\ readSpaces(t, a) = Cut(t, p)
    BY DEF Comes
<1> DEFINE c == readSpaces(t, a)
<1>1. readIri(t, c) = readIri(t, a) /\ readSubject(t, c) = readSubject(t, a) /\ readObject(t, c) = readObject(t, a)
    BY <1>0, FromSpaces
<1>2. c = Cut(t, p)
    BY <1>0
<1> HIDE DEF c
<1>3. CASE p <= Len(t)
    <2>1. c = p /\ p \in 1 .. Len(t) + 1
        BY <1>0, <1>2, <1>3 DEF Cut
    <2> QED
        BY <1>1, <1>3, <2>1 DEF c
<1>4. CASE ~(p <= Len(t))
    <2>1. c = Len(t) + 1 /\ Len(t) < p
        BY <1>0, <1>2, <1>4 DEF Cut
    <2> DEFINE e == Len(t) + 1
    <2>2. e \in 1 .. Len(t) + 1 /\ e > Len(t)
        BY <1>0
    <2> HIDE DEF e
    <2>3. readSpaces(t, e) = e
        BY <2>2, SpacesIs
    <2>4. readIri(t, e) = EOF
        BY <2>2, <2>3 DEF readIri
    <2>5. EOF.err # "nil"
        BY DEF EOF, Fail
    <2>6. readSubject(t, e) = EOF
        BY <2>4, <2>5 DEF readSubject
    <2>7. readObject(t, e) = EOF
        BY <2>5, <2>6 DEF readObject
    <2> QED
        BY <1>1, <1>4, <2>1, <2>4, <2>6, <2>7 DEF c, e
<1> QED
    BY <1>3, <1>4

\* The reader comes to an IRI, to a subject, to an object.
LEMMA IriComes ==
    ASSUME NEW t \in Seq(Nat), NEW p \in Nat \ {0}, NEW a, Comes(t, a, p),
           NEW n \in Objects, n.kind = "iri", Shows(t, p, EncodeAny(n)),
           NEW q, q = p + Len(EncodeAny(n)), Ends(t, q)
    PROVE  Arrives(t, readIri(t, a), n, q, q)
<1>1. Len(t) \in Nat /\ q \in Nat /\ p <= q
    <2>1. Len(EncodeAny(n)) \in Nat
        BY EncodeTyped, LenProperties
    <2> QED
        BY <2>1
<1>2. CASE p <= Len(t)
    <2>1. p \in 1 .. Len(t) + 1 /\ readIri(t, a) = readIri(t, p)
        BY <1>2, AtPlace
    <2> QED
        BY <2>1, IriArrives
<1>3. CASE ~(p <= Len(t))
    <2>1. readIri(t, a) = EOF /\ Len(t) < q
        BY <1>1, <1>3, AtPlace
    <2> QED
        BY <2>1 DEF Arrives
<1> QED
    BY <1>2, <1>3

LEMMA SubjectComes ==
    ASSUME NEW t \in Seq(Nat), NEW p \in Nat \ {0}, NEW a, Comes(t, a, p),
           NEW n \in Resources, Shows(t, p, EncodeAny(n)),
           NEW q, q = p + Len(EncodeAny(n)), Ends(t, q)
    PROVE  Arrives(t, readSubject(t, a), n, q, q)
<1>1. Len(t) \in Nat /\ q \in Nat /\ p <= q
    <2>1. n \in Objects
        BY DEF Objects
    <2>2. Len(EncodeAny(n)) \in Nat
        BY <2>1, EncodeTyped, LenProperties
    <2> QED
        BY <2>2
<1>2. CASE p <= Len(t)
    <2>1. p \in 1 .. Len(t) + 1 /\ readSubject(t, a) = readSubject(t, p)
        BY <1>2, AtPlace
    <2> QED
        BY <2>1, SubjectArrives
<1>3. CASE ~(p <= Len(t))
    <2>1. readSubject(t, a) = EOF /\ Len(t) < q
        BY <1>1, <1>3, AtPlace
    <2> QED
        BY <2>1 DEF Arrives
<1> QED
    BY <1>2, <1>3

LEMMA ObjectComes ==
    ASSUME NEW t \in Seq(Nat), NEW p \in Nat \ {0}, NEW a, Comes(t, a, p),
           NEW n \in Objects, Shows(t, p, EncodeAny(n)),
           NEW q, q = p + Len(EncodeAny(n)), Ends(t, q)
    PROVE  IF n.kind \in {"lang", "typed"} THEN readObject(t, a).err # "nil"
           ELSE Arrives(t, readObject(t, a), n, q, q + 2)
<1>1. Len(t) \in Nat /\ q \in Nat /\ p <= q
    <2>1. Len(EncodeAny(n)) \in Nat
        BY EncodeTyped, LenProperties
    <2> QED
        BY <2>1
<1>2. CASE p <= Len(t)
    <2>1. p \in 1 .. Len(t) + 1 /\ readObject(t, a) = readObject(t, p)
        BY <1>2, AtPlace
    <2>2. CASE n.kind \in {"lang", "typed"}
        BY <2>1, <2>2, LiteralRefused
    <2>3. CASE n.kind \notin {"lang", "typed"}
        BY <2>1, <2>3, ObjectArrives
    <2> QED
        BY <2>2, <2>3
<1>3. CASE ~(p <= Len(t))
    <2>1. readObject(t, a) = EOF /\ Len(t) < q + 2
        BY <1>1, <1>3, AtPlace
    <2>2. EOF.err # "nil"
        BY DEF EOF, Fail
    <2> QED
        BY <2>1, <2>2 DEF Arrives
<1> QED
    BY <1>2, <1>3

\* Before the dot no IRI is read.
LEMMA NoGraphComes ==
    ASSUME NEW t \in Seq(Nat), NEW p \in Nat \ {0}, NEW a, Comes(t, a, p), Shows(t, p, <<Dot>>)
    PROVE  \/ readIri(t, a) = Read(None, p) /\ Comes(t, p, p)
           \/ readIri(t, a) = EOF /\ Len(t) < p
<1>1. Len(t) \in Nat
    OBVIOUS
<1>2. CASE p <= Len(t)
    <2>1. p \in 1 .. Len(t) + 1 /\ readIri(t, a) = readIri(t, p) /\ p \in 1 .. Len(t)
        BY <1>1, <1>2, AtPlace
    <2>2. t[p] = Dot
        BY <1>2, ShowsOne
    <2>3. readIri(t, p) = Read(None, p) /\ readSpaces(t, p) = p
        BY <2>1, <2>2, NoIriThere
    <2>4. Cut(t, p) = p
        BY <1>2 DEF Cut
    <2> QED
        BY <2>1, <2>3, <2>4 DEF Comes
<1>3. CASE ~(p <= Len(t))
    BY <1>3, AtPlace
<1> QED
    BY <1>2, <1>3

\* Behind the dot and the end of its line.
LEMMA DotComes ==
    ASSUME NEW t \in Seq(Nat), NEW p \in Nat \ {0}, NEW a, Comes(t, a, p),
           Shows(t, p, <<Dot>>), Shows(t, p + 1, <<LF>>)
    PROVE  LET j == readSpaces(t, a)
           IN  IF j > Len(t) THEN Len(t) < p
               ELSE /\ t[j] = Dot /\ j + 1 \in 1 .. Len(t) + 1
                    /\ readSpaces(t, j + 1) = readSpaces(t, Cut(t, p + 2))
<1> DEFINE j == readSpaces(t, a)
<1>1. Len(t) \in Nat
    OBVIOUS
<1>2. CASE p <= Len(t)
    <2>1. j = p /\ ~(j > Len(t))
        BY <1>1, <1>2, AtPlace
    <2>2. t[p] = Dot
        BY <1>2, ShowsOne
    <2>3. p + 1 \in 1 .. Len(t) + 1 /\ p + 1 \in Nat \ {0} /\ (p + 1) + 1 = p + 2
        BY <1>1, <1>2
    <2>4. Cut(t, p + 1) = p + 1
        BY <1>1, <2>3 DEF Cut
    <2>5. readSpaces(t, Cut(t, p + 1)) = readSpaces(t, Cut(t, (p + 1) + 1))
        BY <2>3, LineEndSkipped
    <2> HIDE DEF j
    <2>6. readSpaces(t, p + 1) = readSpaces(t, Cut(t, p + 2))
        BY <2>3, <2>4, <2>5
    <2> QED
        BY <2>1, <2>2, <2>3, <2>6 DEF j
<1>3. CASE ~(p <= Len(t))
    <2>1. j = Len(t) + 1 /\ Len(t) < p
        BY <1>3, AtPlace
    <2>2. j > Len(t)
        BY <1>1, <2>1
    <2> QED
        BY <2>1, <2>2 DEF j
<1> QED
    BY <1>2, <1>3

-----------------------------------------------------------------------------
(* Where the reader is: before part pt of the statement of call k, or at   *)
(* the end; what it has read of that statement; and how many before it.    *)

Rows == [subject : MaybeNode, predicate : MaybeNode, object : MaybeNode, graph : MaybeNode]

Reached(pt, st) ==
    CASE pt = "predicate" -> SubjectEnds(st) + 1
      [] pt = "object"    -> PredicateEnds(st) + 1
      [] pt = "graph"     -> ObjectEnds(st) + 1
      [] pt = "dot"       -> GraphEnds(st) + 1
      [] OTHER            -> 0

Kept(pt, m, st) ==
    /\ pt # "subject" => Same(m.subject, st.subject)
    /\ pt \in {"object", "graph", "dot"} => Same(m.predicate, st.predicate)
    /\ pt \in {"graph", "dot"} => Same(m.object, st.object)
    /\ pt = "dot" => IF st.graph = None THEN m.graph = None ELSE Same(m.graph, st.graph)

InPlace(t, a, cs, pt, m, n, k) ==
    /\ CountTo(cs, k - 1) = n
    /\ IF k > Len(cs) THEN pt = "subject" /\ Comes(t, a, Start(cs, k))
       ELSE /\ IsStatement(cs[k]) /\ Kept(pt, m, cs[k].st)
            /\ Comes(t, a, Start(cs, k) + Reached(pt, cs[k].st))

\* A statement that is read and survives is the statement that was written.
LEMMA RowIs ==
    ASSUME NEW m \in Rows, NEW st \in Statements, Kept("dot", m, st), Intact(st)
    PROVE  m = st
<1>1. m = Statement(m.subject, m.predicate, m.object, m.graph)
    BY DEF Rows, Statement
<1>2. /\ st = Statement(st.subject, st.predicate, st.object, st.graph)
      /\ st.subject # None /\ st.predicate # None /\ st.object # None
    BY StatementIs, ObjectIs
<1>3. Survives(st.subject) /\ Survives(st.predicate) /\ Survives(st.object) /\ (st.graph # None => Survives(st.graph))
    BY <1>2 DEF Intact, Nodes
<1>4. m.subject = st.subject /\ m.predicate = st.predicate /\ m.object = st.object /\ m.graph = st.graph
    BY <1>3 DEF Kept, Same
<1> QED
    BY <1>1, <1>2, <1>4

LEMMA PlaceSubject ==
    ASSUME NEW t, NEW cs, Carries(t, cs), NEW k \in 1 .. Len(cs) + 1, NEW a, NEW m \in Rows, NEW n,
           InPlace(t, a, cs, "subject", m, n, k),
           NEW r, r = readSubject(t, a), NEW v, v = [m EXCEPT !["subject"] = r.val]
    PROVE  \/ /\ r.err = "nil" /\ r.val # None /\ r.at \in 1 .. Len(t) + 1
              /\ r.val \in MaybeNode => InPlace(t, r.at, cs, "predicate", v, n, k)
           \/ /\ r = EOF
              /\ k <= Len(cs) => IsStatement(cs[k]) /\ Len(t) < Start(cs, k) + SubjectEnds(cs[k].st)
<1>1. t \in Seq(Nat) /\ cs \in Seq(Calls) /\ Len(cs) \in Nat /\ Len(t) \in Nat /\ Start(cs, k) \in Nat \ {0}
    BY CallsAre, StartIs DEF Carries
<1>2. CASE k > Len(cs)
    <2>1. k = Len(cs) + 1 /\ ~(k <= Len(cs))
        BY <1>1, <1>2
    <2>2. Comes(t, a, Start(cs, k)) /\ ~(Start(cs, k) <= Len(t))
        BY <1>1, <1>2, <2>1 DEF InPlace, Carries
    <2>3. r = EOF
        BY <1>1, <2>2, AtPlace
    <2> QED
        BY <2>1, <2>3
<1>3. CASE ~(k > Len(cs))
    <2> DEFINE st == cs[k].st
               p == Start(cs, k)
               s == st.subject
    <2>1. k \in 1 .. Len(cs) /\ IsStatement(cs[k]) /\ CountTo(cs, k - 1) = n
        BY <1>1, <1>3 DEF InPlace
    <2>2. st \in Statements /\ ShowsParts(t, p, st) /\ p \in Nat \ {0}
        BY <2>1, StatementStands
    <2>3. Comes(t, a, p + 0)
        BY <1>3 DEF InPlace, Reached
    <2> HIDE DEF p
    <2>4. Comes(t, a, p) /\ p \in Nat
        <3>1. p + 0 = p /\ p \in Nat
            BY <2>2
        <3> QED
            BY <2>3, <3>1
    <2> HIDE DEF st
    <2>5. s \in Resources /\ Shows(t, p, EncodeAny(s)) /\ SubjectEnds(st) = Len(EncodeAny(s)) /\ SubjectEnds(st) \in Nat
        BY <2>2, StatementIs, LengthsAre DEF ShowsParts, SubjectEnds
    <2>6. Ends(t, p + SubjectEnds(st))
        BY <1>1, <2>2, <2>4, EndsAre
    <2> DEFINE q == p + SubjectEnds(st)
    <2>7. Arrives(t, r, s, q, q)
        BY <1>1, <2>2, <2>4, <2>5, <2>6, SubjectComes
    <2>8. CASE r = EOF /\ Len(t) < q
        BY <1>3, <2>1, <2>8 DEF p, st
    <2>9. CASE /\ r.err = "nil" /\ r.val # None /\ Same(r.val, s)
               /\ r.at \in 1 .. Len(t) + 1 /\ readSpaces(t, r.at) = Cut(t, q + 1)
        <3>1. q + 1 = p + Reached("predicate", st)
            <4>1. Reached("predicate", st) = SubjectEnds(st) + 1
                BY DEF Reached
            <4> QED
                BY <2>4, <2>5, <4>1
        <3> HIDE DEF q
        <3>2. Comes(t, r.at, p + Reached("predicate", st))
            BY <2>9, <3>1 DEF Comes
        <3>3. ASSUME r.val \in MaybeNode
              PROVE  InPlace(t, r.at, cs, "predicate", v, n, k)
            <4>1. v.subject = r.val
                BY <3>3 DEF Rows
            <4>2. Kept("predicate", v, st)
                BY <2>9, <4>1 DEF Kept
            <4> QED
                BY <1>3, <2>1, <3>2, <4>2 DEF InPlace, p, st
        <3> QED
            BY <2>9, <3>3
    <2> QED
        BY <2>7, <2>8, <2>9 DEF Arrives
<1> QED
    BY <1>2, <1>3

\* A text that ends in the line of call k, or before it.
Short(t, cs, k) == Len(t) + 1 < Start(cs, k + 1)

\* A part of the statement of call k: what there is to say of it where it is.
LEMMA PartStands ==
    ASSUME NEW t, NEW cs, Carries(t, cs), NEW k \in 1 .. Len(cs) + 1, NEW a, NEW m, NEW n,
           NEW pt \in {"predicate", "object", "graph", "dot"}, InPlace(t, a, cs, pt, m, n, k)
    PROVE  /\ k \in 1 .. Len(cs) /\ IsStatement(cs[k]) /\ cs[k].st \in Statements
           /\ CountTo(cs, k - 1) = n /\ Kept(pt, m, cs[k].st)
           /\ t \in Seq(Nat) /\ Len(t) \in Nat /\ Start(cs, k) \in Nat \ {0}
           /\ Comes(t, a, Start(cs, k) + Reached(pt, cs[k].st))
           /\ ShowsParts(t, Start(cs, k), cs[k].st)
           /\ Start(cs, k + 1) = Start(cs, k) + GraphEnds(cs[k].st) + 3
<1>1. cs \in Seq(Calls) /\ Len(cs) \in Nat
    BY CallsAre DEF Carries
<1>2. ~(k > Len(cs))
    BY DEF InPlace
<1>3. k \in 1 .. Len(cs) /\ IsStatement(cs[k])
    BY <1>1, <1>2 DEF InPlace
<1> QED
    BY <1>2, <1>3, StatementStands DEF InPlace

LEMMA PlacePredicate ==
    ASSUME NEW t, NEW cs, Carries(t, cs), NEW k \in 1 .. Len(cs) + 1, NEW a, NEW m \in Rows, NEW n,
           InPlace(t, a, cs, "predicate", m, n, k),
           NEW r, r = readIri(t, a), NEW v, v = [m EXCEPT !["predicate"] = r.val]
    PROVE  \/ /\ r.err = "nil" /\ r.val # None /\ r.at \in 1 .. Len(t) + 1
              /\ r.val \in MaybeNode => InPlace(t, r.at, cs, "object", v, n, k)
           \/ r = EOF /\ Short(t, cs, k)
<1> DEFINE st == cs[k].st
           p == Start(cs, k)
           s == st.predicate
           x == SubjectEnds(st)
           y == PredicateEnds(st)
           z == GraphEnds(st)
<1>1. /\ k \in 1 .. Len(cs) /\ IsStatement(cs[k]) /\ st \in Statements
      /\ CountTo(cs, k - 1) = n /\ Kept("predicate", m, st) /\ t \in Seq(Nat) /\ Len(t) \in Nat
      /\ p \in Nat \ {0} /\ Comes(t, a, p + Reached("predicate", st)) /\ ShowsParts(t, p, st)
      /\ Start(cs, k + 1) = p + z + 3
    BY PartStands
<1>2. ~(k > Len(cs))
    <2>1. Len(cs) \in Nat
        BY CallsAre DEF Carries
    <2> QED
        BY <1>1, <2>1
<1> HIDE DEF st, p
<1>3. x \in Nat /\ y \in Nat /\ z \in Nat /\ x < y /\ y <= z
    BY <1>1, LengthsAre
<1>4. s \in Objects /\ Shows(t, p + x + 1, EncodeAny(s)) /\ y = x + 1 + Len(EncodeAny(s))
      /\ Len(EncodeAny(s)) \in Nat /\ s.kind = "iri"
    BY <1>1, StatementIs, LengthsAre DEF ShowsParts, PredicateEnds
<1>5. Ends(t, p + y)
    BY <1>1, EndsAre
<1>6. Reached("predicate", st) = x + 1 /\ Reached("object", st) = y + 1
    BY DEF Reached
<1> HIDE DEF x, y, z, s
<1> DEFINE b == p + x + 1
           q == b + Len(EncodeAny(s))
<1>7. b \in Nat \ {0} /\ q = p + y /\ p + (x + 1) = b /\ q + 1 = p + (y + 1) /\ q \in Nat
    BY <1>1, <1>3, <1>4
<1>8. Comes(t, a, b) /\ Shows(t, b, EncodeAny(s)) /\ Ends(t, q)
    BY <1>1, <1>4, <1>5, <1>6, <1>7
<1>9. q + 2 < Start(cs, k + 1)
    BY <1>1, <1>3, <1>7
<1> HIDE DEF b
<1>10. Arrives(t, r, s, q, q)
    BY <1>1, <1>4, <1>7, <1>8, IriComes
<1>11. CASE r = EOF /\ Len(t) < q + 2
    <2>1. Len(t) + 1 < Start(cs, k + 1)
        BY <1>1, <1>3, <1>7, <1>9, <1>11
    <2> QED
        BY <1>11, <2>1 DEF Short
<1>12. CASE /\ r.err = "nil" /\ r.val # None /\ Same(r.val, s)
            /\ r.at \in 1 .. Len(t) + 1 /\ readSpaces(t, r.at) = Cut(t, q + 1)
    <2> HIDE DEF q
    <2>1. Comes(t, r.at, p + Reached("object", st))
        BY <1>6, <1>7, <1>12 DEF Comes
    <2>2. ASSUME r.val \in MaybeNode
          PROVE  InPlace(t, r.at, cs, "object", v, n, k)
        <3>1. v.predicate = r.val /\ v.subject = m.subject
            BY <2>2 DEF Rows
        <3>2. Kept("object", v, st)
            BY <1>1, <1>12, <3>1 DEF Kept, s
        <3> QED
            BY <1>1, <1>2, <2>1, <3>2 DEF InPlace, p, st
    <2> QED
        BY <1>12, <2>2
<1>13. Len(t) < q => Len(t) < q + 2
    <2> HIDE DEF q
    <2> QED
        BY <1>1, <1>7
<1> QED
    BY <1>10, <1>11, <1>12, <1>13 DEF Arrives

LEMMA PlaceObject ==
    ASSUME NEW t, NEW cs, Carries(t, cs), NEW k \in 1 .. Len(cs) + 1, NEW a, NEW m \in Rows, NEW n,
           InPlace(t, a, cs, "object", m, n, k),
           NEW r, r = readObject(t, a), NEW v, v = [m EXCEPT !["object"] = r.val]
    PROVE  \/ /\ r.err = "nil" /\ r.val # None /\ r.at \in 1 .. Len(t) + 1
              /\ r.val \in MaybeNode => InPlace(t, r.at, cs, "graph", v, n, k)
           \/ r = EOF /\ Short(t, cs, k)
           \/ r.err # "nil" /\ k \in 1 .. Len(cs) /\ IsStatement(cs[k]) /\ ~Readable(cs[k].st)
<1> DEFINE st == cs[k].st
           p == Start(cs, k)
           s == st.object
           x == PredicateEnds(st)
           y == ObjectEnds(st)
           z == GraphEnds(st)
<1>1. /\ k \in 1 .. Len(cs) /\ IsStatement(cs[k]) /\ st \in Statements
      /\ CountTo(cs, k - 1) = n /\ Kept("object", m, st) /\ t \in Seq(Nat) /\ Len(t) \in Nat
      /\ p \in Nat \ {0} /\ Comes(t, a, p + Reached("object", st)) /\ ShowsParts(t, p, st)
      /\ Start(cs, k + 1) = p + z + 3
    BY PartStands
<1>2. ~(k > Len(cs))
    <2>1. Len(cs) \in Nat
        BY CallsAre DEF Carries
    <2> QED
        BY <1>1, <2>1
<1> HIDE DEF st, p
<1>3. x \in Nat /\ y \in Nat /\ z \in Nat /\ x < y /\ y <= z
    BY <1>1, LengthsAre
<1>4. s \in Objects /\ Shows(t, p + x + 1, EncodeAny(s)) /\ y = x + 1 + Len(EncodeAny(s))
      /\ Len(EncodeAny(s)) \in Nat
    BY <1>1, StatementIs, LengthsAre DEF ShowsParts, ObjectEnds
<1>5. Ends(t, p + y)
    BY <1>1, EndsAre
<1>6. Reached("object", st) = x + 1 /\ Reached("graph", st) = y + 1
    BY DEF Reached
<1> HIDE DEF x, y, z, s
<1> DEFINE b == p + x + 1
           q == b + Len(EncodeAny(s))
<1>7. b \in Nat \ {0} /\ q = p + y /\ p + (x + 1) = b /\ q + 1 = p + (y + 1) /\ q \in Nat
    BY <1>1, <1>3, <1>4
<1>8. Comes(t, a, b) /\ Shows(t, b, EncodeAny(s)) /\ Ends(t, q)
    BY <1>1, <1>4, <1>5, <1>6, <1>7
<1>9. q + 2 < Start(cs, k + 1)
    BY <1>1, <1>3, <1>7
<1> HIDE DEF b
<1>10. IF s.kind \in {"lang", "typed"} THEN r.err # "nil" ELSE Arrives(t, r, s, q, q + 2)
    BY <1>1, <1>4, <1>7, <1>8, ObjectComes
<1>11. CASE r = EOF /\ Len(t) < q + 2
    <2>1. Len(t) + 1 < Start(cs, k + 1)
        BY <1>1, <1>3, <1>7, <1>9, <1>11
    <2> QED
        BY <1>11, <2>1 DEF Short
<1>12. CASE /\ r.err = "nil" /\ r.val # None /\ Same(r.val, s)
            /\ r.at \in 1 .. Len(t) + 1 /\ readSpaces(t, r.at) = Cut(t, q + 1)
    <2> HIDE DEF q
    <2>1. Comes(t, r.at, p + Reached("graph", st))
        BY <1>6, <1>7, <1>12 DEF Comes
    <2>2. ASSUME r.val \in MaybeNode
          PROVE  InPlace(t, r.at, cs, "graph", v, n, k)
        <3>1. v.object = r.val /\ v.subject = m.subject /\ v.predicate = m.predicate
            BY <2>2 DEF Rows
        <3>2. Kept("graph", v, st)
            BY <1>1, <1>12, <3>1 DEF Kept, s
        <3> QED
            BY <1>1, <1>2, <2>1, <3>2 DEF InPlace, p, st
    <2> QED
        BY <1>12, <2>2
<1>13. CASE s.kind \in {"lang", "typed"}
    BY <1>1, <1>10, <1>13 DEF Readable, s, st
<1> QED
    BY <1>10, <1>11, <1>12, <1>13 DEF Arrives

LEMMA PlaceGraph ==
    ASSUME NEW t, NEW cs, Carries(t, cs), NEW k \in 1 .. Len(cs) + 1, NEW a, NEW m \in Rows, NEW n,
           InPlace(t, a, cs, "graph", m, n, k),
           NEW r, r = readIri(t, a), NEW v, v = [m EXCEPT !["graph"] = r.val]
    PROVE  \/ /\ r.err = "nil" /\ r.at \in 1 .. Len(t) + 1
              /\ r.val \in MaybeNode => InPlace(t, r.at, cs, "dot", v, n, k)
           \/ r = EOF /\ Short(t, cs, k)
<1> DEFINE st == cs[k].st
           p == Start(cs, k)
           s == st.graph
           x == ObjectEnds(st)
           z == GraphEnds(st)
<1>1. /\ k \in 1 .. Len(cs) /\ IsStatement(cs[k]) /\ st \in Statements
      /\ CountTo(cs, k - 1) = n /\ Kept("graph", m, st) /\ t \in Seq(Nat) /\ Len(t) \in Nat
      /\ p \in Nat \ {0} /\ Comes(t, a, p + Reached("graph", st)) /\ ShowsParts(t, p, st)
      /\ Start(cs, k + 1) = p + z + 3
    BY PartStands
<1>2. ~(k > Len(cs))
    <2>1. Len(cs) \in Nat
        BY CallsAre DEF Carries
    <2> QED
        BY <1>1, <2>1
<1> HIDE DEF st, p
<1>3. x \in Nat /\ z \in Nat /\ x <= z
    BY <1>1, LengthsAre
<1>4. Reached("graph", st) = x + 1 /\ Reached("dot", st) = z + 1
    BY DEF Reached
<1>5. ASSUME r.val \in MaybeNode, Comes(t, r.at, p + (z + 1)),
             IF s = None THEN r.val = None ELSE Same(r.val, s)
      PROVE  InPlace(t, r.at, cs, "dot", v, n, k)
    <2>1. v.graph = r.val /\ v.subject = m.subject /\ v.predicate = m.predicate /\ v.object = m.object
        BY <1>5 DEF Rows
    <2>2. Kept("dot", v, st)
        BY <1>1, <1>5, <2>1 DEF Kept
    <2> QED
        BY <1>1, <1>2, <1>4, <1>5, <2>2 DEF InPlace, p, st
<1>6. CASE s = None
    <2> DEFINE b == p + x + 1
    <2>1. z = x
        BY <1>3, <1>6 DEF GraphEnds
    <2>2. Shows(t, p + z + 1, <<Dot>>)
        BY <1>1 DEF ShowsParts
    <2> HIDE DEF x, z, s
    <2>3. b \in Nat \ {0} /\ p + (x + 1) = b /\ p + (z + 1) = b /\ p + z + 1 = b /\ b + 2 = Start(cs, k + 1)
        BY <1>1, <1>3, <2>1
    <2> HIDE DEF b
    <2>4. Comes(t, a, b) /\ Shows(t, b, <<Dot>>)
        BY <1>1, <1>4, <2>2, <2>3
    <2>5. \/ r = Read(None, b) /\ Comes(t, b, b)
          \/ r = EOF /\ Len(t) < b
        BY <1>1, <2>3, <2>4, NoGraphComes
    <2>6. CASE r = EOF /\ Len(t) < b
        <3>1. Len(t) + 1 < Start(cs, k + 1)
            BY <1>1, <2>3, <2>6
        <3> QED
            BY <2>6, <3>1 DEF Short
    <2>7. CASE r = Read(None, b) /\ Comes(t, b, b)
        <3>1. r.err = "nil" /\ r.val = None /\ r.at = b
            BY <2>7 DEF Read
        <3>2. b \in 1 .. Len(t) + 1
            BY <2>7 DEF Comes
        <3>3. r.val \in MaybeNode => InPlace(t, r.at, cs, "dot", v, n, k)
            BY <1>5, <1>6, <2>3, <2>7, <3>1
        <3> QED
            BY <3>1, <3>2, <3>3
    <2> QED
        BY <2>5, <2>6, <2>7
<1>7. CASE s # None
    <2>1. s \in Objects /\ s.kind = "iri" /\ Shows(t, p + x + 1, EncodeAny(s)) /\ Len(EncodeAny(s)) \in Nat
        BY <1>1, <1>7, StatementIs, LengthsAre DEF ShowsParts
    <2>2. z = x + (1 + Len(EncodeAny(s)))
        BY <1>7 DEF GraphEnds
    <2>3. Ends(t, p + z)
        BY <1>1, EndsAre
    <2> HIDE DEF x, z, s
    <2> DEFINE b == p + x + 1
               q == b + Len(EncodeAny(s))
    <2>4. b \in Nat \ {0} /\ q = p + z /\ p + (x + 1) = b /\ q + 1 = p + (z + 1) /\ q \in Nat
          /\ q + 3 = Start(cs, k + 1)
        BY <1>1, <1>3, <2>1, <2>2
    <2>5. Comes(t, a, b) /\ Shows(t, b, EncodeAny(s)) /\ Ends(t, q)
        BY <1>1, <1>4, <2>1, <2>3, <2>4
    <2> HIDE DEF b
    <2>6. Arrives(t, r, s, q, q)
        BY <1>1, <2>1, <2>4, <2>5, IriComes
    <2> HIDE DEF q
    <2>7. CASE r = EOF /\ Len(t) < q
        <3>1. Len(t) + 1 < Start(cs, k + 1)
            BY <1>1, <2>4, <2>7
        <3> QED
            BY <2>7, <3>1 DEF Short
    <2>8. CASE /\ r.err = "nil" /\ r.val # None /\ Same(r.val, s)
               /\ r.at \in 1 .. Len(t) + 1 /\ readSpaces(t, r.at) = Cut(t, q + 1)
        <3>1. Comes(t, r.at, p + (z + 1))
            BY <2>4, <2>8 DEF Comes
        <3> QED
            BY <1>5, <1>7, <2>8, <3>1
    <2> QED
        BY <2>6, <2>7, <2>8 DEF Arrives
<1> QED
    BY <1>6, <1>7

\* The dot ends the statement, and what follows leads to the next one.
LEMMA PlaceDot ==
    ASSUME NEW t, NEW cs, Carries(t, cs), \A i \in DOMAIN cs : OneLine(cs[i]),
           NEW k \in 1 .. Len(cs) + 1, NEW a, NEW m \in Rows, NEW n,
           InPlace(t, a, cs, "dot", m, n, k), NEW j, j = readSpaces(t, a)
    PROVE  IF j > Len(t) THEN Short(t, cs, k)
           ELSE /\ t[j] = Dot /\ j + 1 \in 1 .. Len(t) + 1
                /\ k \in 1 .. Len(cs) /\ IsStatement(cs[k]) /\ CountTo(cs, k) = n + 1
                /\ cs[k].st \in Statements /\ (Intact(cs[k].st) => m = cs[k].st)
                /\ \A w : \E l \in 1 .. Len(cs) + 1 : InPlace(t, j + 1, cs, "subject", w, n + 1, l)
<1> DEFINE st == cs[k].st
           p == Start(cs, k)
           z == GraphEnds(st)
<1>1. /\ k \in 1 .. Len(cs) /\ IsStatement(cs[k]) /\ st \in Statements
      /\ CountTo(cs, k - 1) = n /\ Kept("dot", m, st) /\ t \in Seq(Nat) /\ Len(t) \in Nat
      /\ p \in Nat \ {0} /\ Comes(t, a, p + Reached("dot", st)) /\ ShowsParts(t, p, st)
      /\ Start(cs, k + 1) = p + z + 3
    BY PartStands
<1>2. Len(cs) \in Nat
    BY CallsAre DEF Carries
<1>3. Intact(st) => m = st
    BY <1>1, RowIs
<1> HIDE DEF st, p
<1>4. z \in Nat /\ Reached("dot", st) = z + 1 /\ Shows(t, p + z + 1, <<Dot>>) /\ Shows(t, p + z + 2, <<LF>>)
    BY <1>1, LengthsAre DEF Reached, ShowsParts
<1> HIDE DEF z
<1> DEFINE b == p + z + 1
<1>5. b \in Nat \ {0} /\ p + (z + 1) = b /\ p + z + 2 = b + 1 /\ Start(cs, k + 1) = b + 2
    BY <1>1, <1>4
<1>6. Comes(t, a, b) /\ Shows(t, b, <<Dot>>) /\ Shows(t, b + 1, <<LF>>)
    BY <1>1, <1>4, <1>5
<1> HIDE DEF b
<1>7. IF j > Len(t) THEN Len(t) < b
      ELSE t[j] = Dot /\ j + 1 \in 1 .. Len(t) + 1 /\ readSpaces(t, j + 1) = readSpaces(t, Cut(t, b + 2))
    BY <1>1, <1>5, <1>6, DotComes
<1>8. CASE j > Len(t)
    <2>1. Len(t) + 1 < Start(cs, k + 1)
        BY <1>1, <1>5, <1>7, <1>8
    <2> QED
        BY <1>8, <2>1 DEF Short
<1>9. CASE ~(j > Len(t))
    <2>1. CountTo(cs, k) = n + 1
        <3>1. k - 1 \in Nat /\ (k - 1) + 1 = k
            BY <1>1, <1>2
        <3> DEFINE h == k - 1
        <3>2. h \in Nat /\ h + 1 = k /\ IsStatement(cs[h + 1]) /\ CountTo(cs, h) = n
            BY <1>1, <3>1
        <3> HIDE DEF h
        <3> QED
            BY <3>2, CountIs
    <2>2. k + 1 \in 1 .. Len(cs) + 1
        BY <1>1, <1>2
    <2> DEFINE i == k + 1
    <2>3. i \in 1 .. Len(cs) + 1 /\ Start(cs, i) = b + 2
        BY <1>5, <2>2
    <2> HIDE DEF i
    <2>4. PICK l \in i .. Len(cs) + 1 :
              /\ \A g \in i .. l - 1 : ~IsStatement(cs[g])
              /\ l <= Len(cs) => IsStatement(cs[l])
              /\ readSpaces(t, Cut(t, Start(cs, i))) = Cut(t, Start(cs, l))
        BY <2>3, NextStatement
    <2>5. Comes(t, j + 1, Start(cs, l))
        BY <1>7, <1>9, <2>3, <2>4 DEF Comes
    <2>6. l \in 1 .. Len(cs) + 1 /\ l - 1 \in Nat /\ k \in Nat /\ k <= l - 1
        BY <1>1, <1>2, <2>2, <2>4 DEF i
    <2>7. CountTo(cs, l - 1) = n + 1
        <3> DEFINE h == l - 1
        <3>1. h \in Nat /\ k \in Nat /\ k <= h /\ \A g \in k + 1 .. h : ~IsStatement(cs[g])
            BY <2>4, <2>6 DEF i
        <3> HIDE DEF h
        <3>2. CountTo(cs, h) = CountTo(cs, k)
            BY <3>1, CountIs
        <3> QED
            BY <2>1, <3>2 DEF h
    <2>8. ASSUME NEW w
          PROVE  InPlace(t, j + 1, cs, "subject", w, n + 1, l)
        <3>1. CASE l > Len(cs)
            BY <2>5, <2>7, <3>1 DEF InPlace
        <3>2. CASE ~(l > Len(cs))
            <4>1. IsStatement(cs[l]) /\ Start(cs, l) \in Nat \ {0}
                BY <1>2, <2>4, <2>6, <3>2, StartIs DEF Carries
            <4>2. Start(cs, l) + Reached("subject", cs[l].st) = Start(cs, l)
                BY <4>1 DEF Reached
            <4>3. Kept("subject", w, cs[l].st)
                BY DEF Kept
            <4> QED
                BY <2>5, <2>7, <3>2, <4>1, <4>2, <4>3 DEF InPlace
        <3> QED
            BY <3>1, <3>2
    <2> QED
        BY <1>1, <1>3, <1>7, <1>9, <2>1, <2>6, <2>8 DEF st
<1> QED
    BY <1>8, <1>9

\* Where the reader begins.
LEMMA PlaceFirst ==
    ASSUME NEW t, NEW cs, Carries(t, cs), \A i \in DOMAIN cs : OneLine(cs[i]), NEW w
    PROVE  \E l \in 1 .. Len(cs) + 1 : InPlace(t, 1, cs, "subject", w, 0, l)
<1>1. /\ Len(cs) \in Nat /\ 1 \in 1 .. Len(cs) + 1 /\ Start(cs, 1) = 1
      /\ t \in Seq(Nat) /\ Len(t) \in Nat /\ cs \in Seq(Calls)
    BY CallsAre, StartIs DEF Carries
<1>2. PICK l \in 1 .. Len(cs) + 1 :
          /\ \A g \in 1 .. l - 1 : ~IsStatement(cs[g])
          /\ l <= Len(cs) => IsStatement(cs[l])
          /\ readSpaces(t, Cut(t, Start(cs, 1))) = Cut(t, Start(cs, l))
    BY <1>1, NextStatement
<1>3. Cut(t, 1) = 1 /\ 1 \in 1 .. Len(t) + 1
    BY <1>1 DEF Cut
<1>4. Comes(t, 1, Start(cs, l))
    BY <1>1, <1>2, <1>3 DEF Comes
<1>5. CountTo(cs, l - 1) = 0
    <2> DEFINE h == l - 1
    <2>1. h \in Nat /\ 0 \in Nat /\ 0 <= h /\ \A g \in 0 + 1 .. h : ~IsStatement(cs[g])
        BY <1>1, <1>2
    <2> HIDE DEF h
    <2>2. CountTo(cs, h) = CountTo(cs, 0) /\ CountTo(cs, 0) = 0
        BY <2>1, CountIs
    <2> QED
        BY <2>2 DEF h
<1>6. CASE l > Len(cs)
    BY <1>4, <1>5, <1>6 DEF InPlace
<1>7. CASE ~(l > Len(cs))
    <2>1. IsStatement(cs[l]) /\ Start(cs, l) \in Nat \ {0}
        BY <1>1, <1>2, <1>7, StartIs
    <2>2. Start(cs, l) + Reached("subject", cs[l].st) = Start(cs, l)
        BY <2>1 DEF Reached
    <2>3. Kept("subject", w, cs[l].st)
        BY DEF Kept
    <2> QED
        BY <1>4, <1>5, <1>7, <2>1, <2>2, <2>3 DEF InPlace
<1> QED
    BY <1>6, <1>7

-----------------------------------------------------------------------------
(* The invariant: the reader is where the writer has put the part that it  *)
(* reads next, and has got the statements before it.                       *)

AllOneLine == \A i \in DOMAIN calls : OneLine(calls[i])

RowsOK == statement \in Rows /\ got \in Seq(Rows)

Place == \E k \in 1 .. Len(calls) + 1 : InPlace(given, at, calls, part, statement, Len(got), k)

IInv ==
    /\ TypeOK /\ Unread /\ RowsOK
    /\ ReadBack /\ WholeRead /\ TruncationNoticed
    /\ part \in readerParts /\ AllOneLine => Place

\* The properties, of values.
Back(cs, g) ==
    (\A i \in DOMAIN cs : OneLine(cs[i])) =>
        /\ Len(g) <= CountTo(cs, Len(cs))
        /\ \A i \in DOMAIN cs :
              IsStatement(cs[i]) /\ Intact(cs[i].st) /\ CountTo(cs, i) <= Len(g)
              => g[CountTo(cs, i)] = cs[i].st

Refused(cs) ==
    \E i \in DOMAIN cs : IF IsStatement(cs[i]) THEN ~Readable(cs[i].st) ELSE ~OneLine(cs[i])

\* No statement of which more than the subject is in the first e characters
\* is missing.
NoneLost(cs, e, g) ==
    \A i \in DOMAIN cs :
       IsStatement(cs[i]) /\ e > Len(Upto(LinesOf(cs), i - 1)) + SubjectEnds(cs[i].st)
       => CountTo(cs, i) <= Len(g)

LEMMA BeforeIs ==
    ASSUME NEW cs \in Seq(Calls), NEW i \in DOMAIN cs
    PROVE  Len(FlattenSeq([j \in 1 .. i - 1 |-> Line(cs[j])])) = Len(Upto(LinesOf(cs), i - 1))
<1>1. Len(cs) \in Nat /\ DOMAIN cs = 1 .. Len(cs) /\ \A j \in 1 .. Len(cs) : LinesOf(cs)[j] = Line(cs[j])
    BY CallsAre
<1>2. \A j \in 1 .. i - 1 : LinesOf(cs)[j] = Line(cs[j])
    BY <1>1
<1>3. [j \in 1 .. i - 1 |-> Line(cs[j])] = [j \in 1 .. i - 1 |-> LinesOf(cs)[j]]
    BY <1>2
<1> QED
    BY <1>3 DEF Upto

LEMMA BackIs == (ReadBack <=> Back(calls, got)) /\ (ReadBack' <=> Back(calls', got'))
BY Zenon DEF ReadBack, Back, StatementsTo, CountTo

LEMMA WholeIs ==
    /\ WholeRead <=> (/\ part = "stop" /\ end = Len(text)
                      => (result = "nil" /\ Len(got) = CountTo(calls, Len(calls))) \/ Refused(calls))
    /\ WholeRead' <=> (/\ part' = "stop" /\ end' = Len(text')
                       => (result' = "nil" /\ Len(got') = CountTo(calls', Len(calls'))) \/ Refused(calls'))
BY Zenon DEF WholeRead, Refused, StatementsTo, CountTo

LEMMA TruncationIs ==
    /\ calls \in Seq(Calls)
       => (TruncationNoticed <=>
             (result = "nil" /\ (\A i \in DOMAIN calls : OneLine(calls[i])) => NoneLost(calls, end, got)))
    /\ calls' \in Seq(Calls)
       => (TruncationNoticed' <=>
             (result' = "nil" /\ (\A i \in DOMAIN calls' : OneLine(calls'[i])) => NoneLost(calls', end', got')))
<1>1. ASSUME calls \in Seq(Calls)
      PROVE  (\A i \in DOMAIN calls :
                (/\ IsStatement(calls[i])
                 /\ end > Before(i) + Len(EncodeAny(calls[i].st.subject)))
                => StatementsTo(i) <= Len(got)) <=> NoneLost(calls, end, got)
    <2>1. \A i \in DOMAIN calls : Before(i) = Len(Upto(LinesOf(calls), i - 1))
        BY <1>1, BeforeIs DEF Before
    <2>2. \A i \in DOMAIN calls : StatementsTo(i) = CountTo(calls, i)
        BY Zenon DEF StatementsTo, CountTo
    <2> QED
        BY <2>1, <2>2, Zenon DEF NoneLost, SubjectEnds
<1>2. ASSUME calls' \in Seq(Calls)
      PROVE  (\A i \in DOMAIN calls' :
                (/\ IsStatement(calls'[i])
                 /\ end' > Before(i)' + Len(EncodeAny(calls'[i].st.subject)))
                => StatementsTo(i)' <= Len(got')) <=> NoneLost(calls', end', got')
    <2>1. \A i \in DOMAIN calls' : Before(i)' = Len(Upto(LinesOf(calls'), i - 1))
        BY <1>2, BeforeIs DEF Before
    <2>2. \A i \in DOMAIN calls' : StatementsTo(i)' = CountTo(calls', i)
        BY Zenon DEF StatementsTo, CountTo
    <2> QED
        BY <2>1, <2>2, Zenon DEF NoneLost, SubjectEnds
<1> QED
    BY <1>1, <1>2, Zenon DEF TruncationNoticed

\* A comment with a carriage return is refused.
LEMMA NotOneLine ==
    ASSUME TypeOK, ~AllOneLine
    PROVE  Refused(calls)
<1>1. PICK i \in DOMAIN calls : ~OneLine(calls[i])
    BY DEF AllOneLine
<1>2. calls[i] \in Calls
    BY TextTyped, CallsAre
<1>3. CR \notin Range(<< >>)
    BY DEF Range
<1>4. ~IsStatement(calls[i])
    BY <1>1, <1>2, <1>3, CallIs DEF OneLine, IsStatement
<1> QED
    BY <1>1, <1>4 DEF Refused

LEMMA GivenCarries ==
    ASSUME TypeOK
    PROVE  Carries(given, calls)
<1>1. /\ calls \in Seq(Calls) /\ text = FlattenSeq(LinesOf(calls)) /\ Len(text) \in Nat
      /\ given \in Seq(Nat) /\ Len(given) = end /\ end \in Nat /\ end <= Len(text)
      /\ \A k \in 1 .. end : given[k] = text[k]
    BY TextTyped
<1>2. FlattenSeq(LinesOf(calls)) = Upto(LinesOf(calls), Len(calls))
    BY <1>1, CallsAre
<1>3. Start(calls, Len(calls) + 1) = Len(text) + 1
    BY <1>1, StartIs
<1>4. Shows(given, 1, text)
    <2>1. ASSUME NEW k \in 1 .. Len(text), 1 + k - 1 <= Len(given)
          PROVE  given[1 + k - 1] = text[k]
        <3>1. k \in 1 .. end /\ 1 + k - 1 = k
            BY <1>1, <2>1
        <3> QED
            BY <1>1, <3>1
    <2> QED
        BY <2>1 DEF Shows
<1>5. Len(given) < Start(calls, Len(calls) + 1)
    BY <1>1, <1>3
<1> QED
    BY <1>1, <1>2, <1>4, <1>5 DEF Carries

-----------------------------------------------------------------------------
(* Every step keeps the invariant *)

\* The reader stops: at the end if nothing is lost, or else for a reason.
LEMMA StopRight ==
    ASSUME IInv, part \in readerParts, NEW err, err # "none", Stop(err), TypeOK', Unread',
           AllOneLine =>
              \/ /\ result' = "nil" /\ NoneLost(calls, end, got)
                 /\ end = Len(text) => Len(got) = CountTo(calls, Len(calls))
              \/ result' # "nil" /\ (end < Len(text) \/ Refused(calls))
    PROVE  IInv'
<1>1. /\ calls' = calls /\ text' = text /\ end' = end /\ got' = got /\ statement' = statement
      /\ part' = "stop" /\ calls \in Seq(Calls)
    BY TextTyped DEF Stop, IInv
<1>2. RowsOK' /\ part' \notin readerParts
    BY <1>1 DEF IInv, RowsOK, readerParts
<1>3. ReadBack'
    BY <1>1, BackIs DEF IInv
<1>4. Len(text) \in Nat /\ end \in Nat
    BY TextTyped DEF IInv
<1>5. ~AllOneLine => Refused(calls)
    BY NotOneLine DEF IInv
<1>6. end = Len(text) => (result' = "nil" /\ Len(got) = CountTo(calls, Len(calls))) \/ Refused(calls)
    BY <1>4, <1>5
<1>7. WholeRead'
    <2>1. part' = "stop" /\ end' = Len(text')
             => (result' = "nil" /\ Len(got') = CountTo(calls', Len(calls'))) \/ Refused(calls')
        BY <1>1, <1>6
    <2> QED
        BY <2>1, WholeIs
<1>8. TruncationNoticed'
    <2>1. result' = "nil" /\ AllOneLine => NoneLost(calls, end, got)
        OBVIOUS
    <2>2. result' = "nil" /\ (\A i \in DOMAIN calls' : OneLine(calls'[i])) => NoneLost(calls', end', got')
        BY <1>1, <2>1 DEF AllOneLine
    <2> QED
        BY <1>1, <2>2, TruncationIs
<1> QED
    BY <1>2, <1>3, <1>7, <1>8 DEF IInv

\* The reader goes on: it has not stopped yet.
LEMMA GoesOn ==
    ASSUME IInv, calls' = calls, text' = text, end' = end, result' = result,
           part' \in readerParts, TypeOK', Unread', RowsOK', ReadBack',
           AllOneLine => Place'
    PROVE  IInv'
<1>1. part' # "stop" /\ result' = "none"
    BY DEF TypeOK, readerParts
<1>2. calls' \in Seq(Calls)
    BY DEF TypeOK
<1>3. WholeRead' /\ TruncationNoticed'
    BY <1>1, <1>2, WholeIs, TruncationIs
<1>4. AllOneLine' <=> AllOneLine
    BY DEF AllOneLine
<1> QED
    BY <1>3, <1>4 DEF IInv

\* The part that is read leads to the next part, or the reader stops.
LEMMA KeepRight ==
    ASSUME IInv, part \in readerParts, NEW f \in {"subject", "predicate", "object", "graph"},
           NEW r, r.val \in MaybeNode, NEW next \in {"predicate", "object", "graph", "dot"},
           Keep(f, r, next), TypeOK', Unread',
           AllOneLine =>
              \E k \in 1 .. Len(calls) + 1 :
                 InPlace(given, r.at, calls, next, [statement EXCEPT ![f] = r.val], Len(got), k)
    PROVE  IInv'
<1>1. /\ calls' = calls /\ text' = text /\ end' = end /\ got' = got /\ result' = result
      /\ statement' = [statement EXCEPT ![f] = r.val] /\ at' = r.at /\ part' = next
    BY DEF Keep
<1>2. RowsOK'
    <2>1. statement \in Rows /\ got \in Seq(Rows)
        BY DEF IInv, RowsOK
    <2>2. [statement EXCEPT ![f] = r.val] \in Rows
        BY <2>1 DEF Rows
    <2> QED
        BY <1>1, <2>1, <2>2 DEF RowsOK
<1>3. ReadBack'
    BY <1>1, BackIs DEF IInv
<1>4. AllOneLine => Place'
    BY <1>1 DEF Place, given
<1>5. part' \in readerParts
    BY <1>1 DEF readerParts
<1> QED
    BY <1>1, <1>2, <1>3, <1>4, <1>5, GoesOn

\* Where a text ends that shows no more of call k than its subject.
LEMMA EndAtSubject ==
    ASSUME IInv, NEW k \in 1 .. Len(calls) + 1, CountTo(calls, k - 1) = Len(got),
           k <= Len(calls) => IsStatement(calls[k])
                              /\ end < Start(calls, k) + SubjectEnds(calls[k].st)
    PROVE  /\ NoneLost(calls, end, got)
           /\ end = Len(text) => Len(got) = CountTo(calls, Len(calls))
<1>1. /\ calls \in Seq(Calls) /\ text = FlattenSeq(LinesOf(calls)) /\ Len(text) \in Nat
      /\ end \in Nat /\ end <= Len(text)
    BY TextTyped DEF IInv
<1>2. /\ Len(calls) \in Nat /\ DOMAIN calls = 1 .. Len(calls)
      /\ \A i \in 1 .. Len(calls) : calls[i] \in Calls
    BY <1>1, CallsAre
<1>3. /\ \A i \in 1 .. Len(calls) + 1 : Start(calls, i) \in Nat \ {0}
      /\ Start(calls, Len(calls) + 1) = Len(text) + 1
    BY <1>1, StartIs
<1>4. k \in Nat /\ k - 1 \in Nat
    BY <1>2
<1>5. ASSUME k <= Len(calls)
      PROVE  /\ k + 1 \in 1 .. Len(calls) + 1 /\ Start(calls, k) + SubjectEnds(calls[k].st) < Start(calls, k + 1)
             /\ SubjectEnds(calls[k].st) \in Nat
    <2>1. k \in 1 .. Len(calls) /\ IsStatement(calls[k])
        BY <1>2, <1>5
    <2>2. calls[k].st \in Statements /\ Line(calls[k]) = Quad(calls[k].st)
        BY <1>2, <2>1, CallIs DEF IsStatement
    <2>3. Start(calls, k + 1) = Start(calls, k) + (GraphEnds(calls[k].st) + 3)
        BY <1>1, <2>1, <2>2, QuadIs, StartIs
    <2>4. /\ SubjectEnds(calls[k].st) \in Nat /\ GraphEnds(calls[k].st) \in Nat
          /\ SubjectEnds(calls[k].st) < GraphEnds(calls[k].st)
        <3> DEFINE st == calls[k].st
        <3>1. st \in Statements
            BY <2>2
        <3> HIDE DEF st
        <3>2. /\ SubjectEnds(st) \in Nat /\ PredicateEnds(st) \in Nat /\ ObjectEnds(st) \in Nat
              /\ GraphEnds(st) \in Nat /\ SubjectEnds(st) < PredicateEnds(st)
              /\ PredicateEnds(st) < ObjectEnds(st) /\ ObjectEnds(st) <= GraphEnds(st)
            BY <3>1, LengthsAre
        <3>3. SubjectEnds(st) < GraphEnds(st)
            BY <3>2
        <3> QED
            BY <3>2, <3>3 DEF st
    <2>5. Start(calls, k) \in Nat
        BY <1>3
    <2> QED
        BY <1>2, <2>1, <2>3, <2>4, <2>5
<1>6. NoneLost(calls, end, got)
    <2> SUFFICES ASSUME NEW i \in DOMAIN calls, IsStatement(calls[i]),
                        end > Len(Upto(LinesOf(calls), i - 1)) + SubjectEnds(calls[i].st)
                 PROVE  CountTo(calls, i) <= Len(got)
        BY DEF NoneLost
    <2>1. i \in 1 .. Len(calls) /\ i \in 1 .. Len(calls) + 1 /\ i \in Nat
        BY <1>2
    <2>2. calls[i].st \in Statements
        BY <1>2, <2>1, CallIs DEF IsStatement
    <2>3. SubjectEnds(calls[i].st) \in Nat
        BY <2>2, LengthsAre
    <2> DEFINE b == Len(Upto(LinesOf(calls), i - 1))
    <2>4. Start(calls, i) = b + 1
        BY DEF Start
    <2>5. b \in Nat
        <3>1. i - 1 \in 0 .. Len(calls) /\ AreSeqs(LinesOf(calls), Len(calls), Ascii)
            BY <1>1, <1>2, <2>1, CallsAre
        <3>2. Upto(LinesOf(calls), i - 1) \in Seq(Ascii)
            BY <1>2, <3>1, UptoGrows
        <3> QED
            BY <3>2, LenProperties
    <2> HIDE DEF b
    <2>6. end >= Start(calls, i) + SubjectEnds(calls[i].st)
        BY <1>1, <2>3, <2>4, <2>5 DEF b
    <2>7. i < k
        <3> SUFFICES ASSUME ~(i < k) PROVE FALSE
            OBVIOUS
        <3>1. k <= Len(calls) /\ k <= i
            BY <1>2, <1>4, <2>1
        <3>2. end < Start(calls, k) + SubjectEnds(calls[k].st)
            BY <3>1
        <3>3. CASE i = k
            <4>1. SubjectEnds(calls[k].st) \in Nat /\ Start(calls, k) \in Nat
                BY <1>3, <1>5, <3>1
            <4> QED
                BY <1>1, <2>6, <3>2, <3>3, <4>1
        <3>4. CASE i # k
            <4>1. k + 1 \in 1 .. Len(calls) + 1 /\ i \in k + 1 .. Len(calls) + 1
                BY <1>2, <1>4, <2>1, <3>1, <3>4
            <4>2. Start(calls, k + 1) <= Start(calls, i)
                <5> DEFINE l == k + 1
                <5>1. l \in 1 .. Len(calls) + 1 /\ i \in l .. Len(calls) + 1
                    BY <4>1
                <5> HIDE DEF l
                <5>2. Start(calls, l) <= Start(calls, i)
                    BY <1>1, <5>1, StartGrows
                <5> QED
                    BY <5>2 DEF l
            <4>3. Start(calls, k) + SubjectEnds(calls[k].st) < Start(calls, k + 1) /\ SubjectEnds(calls[k].st) \in Nat
                BY <1>5, <3>1
            <4>4. Start(calls, k) \in Nat /\ Start(calls, k + 1) \in Nat /\ Start(calls, i) \in Nat
                BY <1>3, <2>1, <4>1
            <4> QED
                BY SMTT(30), <1>1, <2>3, <2>6, <3>2, <4>2, <4>3, <4>4
        <3> QED
            BY <3>3, <3>4
    <2>8. i <= k - 1
        BY <1>4, <2>1, <2>7
    <2>9. CountTo(calls, i) <= CountTo(calls, k - 1)
        <3> DEFINE h == k - 1
        <3>1. h \in Nat /\ i <= h
            BY <1>4, <2>8
        <3> HIDE DEF h
        <3>2. CountTo(calls, i) <= CountTo(calls, h)
            BY <2>1, <3>1, CountIs
        <3> QED
            BY <3>2 DEF h
    <2> QED
        BY <2>9
<1>7. ASSUME end = Len(text)
      PROVE  Len(got) = CountTo(calls, Len(calls))
    <2>1. k = Len(calls) + 1
        <3> SUFFICES ASSUME k <= Len(calls) PROVE FALSE
            BY <1>2, <1>4
        <3>1. end < Start(calls, k) + SubjectEnds(calls[k].st)
            OBVIOUS
        <3> DEFINE l == k + 1
        <3>2. l \in 1 .. Len(calls) + 1 /\ Start(calls, k) + SubjectEnds(calls[k].st) < Start(calls, l)
              /\ SubjectEnds(calls[k].st) \in Nat
            BY <1>5
        <3> HIDE DEF l
        <3>3. Len(calls) + 1 \in l .. Len(calls) + 1
            BY <1>2, <3>2
        <3>4. Start(calls, l) <= Len(text) + 1
            BY <1>1, <1>3, <3>2, <3>3, StartGrows
        <3>5. Start(calls, k) \in Nat /\ Start(calls, l) \in Nat
            BY <1>3, <3>2
        <3> QED
            BY <1>1, <1>7, <3>1, <3>2, <3>4, <3>5
    <2>2. k - 1 = Len(calls)
        BY <1>2, <2>1
    <2> QED
        BY <2>2
<1> QED
    BY <1>6, <1>7

\* A text that ends in a line has lost something of it.
LEMMA ShortEnds ==
    ASSUME TypeOK, NEW k \in 1 .. Len(calls), Short(given, calls, k)
    PROVE  end < Len(text)
<1>1. /\ calls \in Seq(Calls) /\ text = FlattenSeq(LinesOf(calls)) /\ Len(text) \in Nat
      /\ end \in Nat /\ Len(given) = end /\ Len(calls) \in Nat
    BY TextTyped, CallsAre
<1> DEFINE l == k + 1
<1>2. l \in 1 .. Len(calls) + 1 /\ Len(calls) + 1 \in l .. Len(calls) + 1 /\ end + 1 < Start(calls, l)
    BY <1>1 DEF Short
<1> HIDE DEF l
<1>3. Start(calls, l) <= Start(calls, Len(calls) + 1) /\ Start(calls, l) \in Nat
    BY <1>1, <1>2, StartGrows, StartIs
<1>4. Start(calls, Len(calls) + 1) = Len(text) + 1
    BY <1>1, StartIs
<1> QED
    BY <1>1, <1>2, <1>3, <1>4

LEMMA WriteRight ==
    ASSUME IInv, NEW c \in Calls, Write(c), TypeOK', Unread'
    PROVE  IInv'
<1>1. got = << >> /\ got' = got /\ statement' = statement /\ part = "write" /\ part' = part /\ result' = result
      /\ result = "none" /\ calls' \in Seq(Calls)
    BY DEF IInv, Unread, Write, readerVars, TypeOK
<1>2. RowsOK' /\ part' \notin readerParts
    BY <1>1 DEF IInv, RowsOK, readerParts
<1>3. Back(calls', << >>)
    <2>1. Len(calls') \in Nat /\ DOMAIN calls' = 1 .. Len(calls')
        BY <1>1, CallsAre
    <2>2. CountTo(calls', Len(calls')) \in Nat
        BY <2>1, CountIs
    <2>3. ASSUME NEW i \in DOMAIN calls', IsStatement(calls'[i])
          PROVE  CountTo(calls', i) > 0
        <3>1. i \in Nat /\ 0 < i /\ 0 \in Nat
            BY <2>1
        <3>2. CountTo(calls', 0) < CountTo(calls', i) /\ CountTo(calls', 0) = 0
            BY <2>3, <3>1, CountIs
        <3> QED
            BY <3>1, <3>2, CountIs
    <2>4. \A i \in DOMAIN calls' : IsStatement(calls'[i]) => ~(CountTo(calls', i) <= 0)
        <3> SUFFICES ASSUME NEW i \in DOMAIN calls', IsStatement(calls'[i]) PROVE ~(CountTo(calls', i) <= 0)
            OBVIOUS
        <3>1. i \in Nat
            BY <2>1
        <3>2. CountTo(calls', i) \in Nat
            BY <3>1, CountIs
        <3> QED
            BY <2>3, <3>2
    <2>5. Len(<< >>) = 0
        OBVIOUS
    <2>6. Len(<< >>) <= CountTo(calls', Len(calls'))
        BY <2>2, <2>5
    <2> QED
        BY <2>4, <2>5, <2>6 DEF Back
<1>4. ReadBack' /\ WholeRead' /\ TruncationNoticed'
    BY <1>1, <1>3, BackIs, WholeIs, TruncationIs
<1> QED
    BY <1>2, <1>4 DEF IInv

LEMMA OpenRight ==
    ASSUME IInv, NEW n \in 0 .. Len(text), Open(n), TypeOK', Unread'
    PROVE  IInv'
<1>1. /\ got = << >> /\ got' = got /\ statement' = statement /\ part' = "subject" /\ result' = result
      /\ calls' = calls /\ text' = text /\ at = 1 /\ at' = at /\ result = "none"
    BY DEF IInv, Unread, Open
<1>2. RowsOK' /\ part' \in readerParts
    BY <1>1 DEF IInv, RowsOK, readerParts
<1>3. ReadBack'
    BY <1>1, BackIs DEF IInv
<1>4. TypeOK' => Carries(given', calls')
    <2>1. TypeOK' => Carries(given, calls)'
        BY GivenCarries, PTL
    <2> QED
        BY <2>1 DEF given
<1>5. AllOneLine' => Place'
    <2> SUFFICES ASSUME AllOneLine' PROVE Place'
        OBVIOUS
    <2>1. \A i \in DOMAIN calls' : OneLine(calls'[i])
        BY DEF AllOneLine
    <2>2. \E l \in 1 .. Len(calls') + 1 : InPlace(given', 1, calls', "subject", statement', 0, l)
        BY <1>4, <2>1, PlaceFirst
    <2>3. Len(got') = 0
        BY <1>1
    <2> QED
        BY <1>1, <2>2, <2>3 DEF Place
<1>6. WholeRead' /\ TruncationNoticed'
    <2>1. part' # "stop" /\ result' # "nil" /\ calls' \in Seq(Calls)
        BY <1>1 DEF TypeOK
    <2> QED
        BY <2>1, WholeIs, TruncationIs
<1> QED
    BY <1>2, <1>3, <1>5, <1>6 DEF IInv

LEMMA ReadSubjectRight ==
    ASSUME IInv, ReadSubject, TypeOK', Unread'
    PROVE  IInv'
<1> DEFINE t == given
           r == readSubject(t, at)
           u == [statement EXCEPT !["subject"] = r.val]
<1>1. /\ part = "subject" /\ part \in readerParts
      /\ IF r.err # "nil" THEN Stop(r.err)
         ELSE IF r.val = None THEN Stop("ExpectedStatement")
         ELSE Keep("subject", r, "predicate")
    BY DEF ReadSubject, readerParts
<1>2. TypeOK /\ statement \in Rows /\ t \in Seq(Nat) /\ Len(t) = end /\ at \in 1 .. Len(t) + 1 /\ Carries(t, calls)
    BY TextTyped, GivenCarries DEF IInv, TypeOK, RowsOK
<1>3. r.err # "none" /\ (r.err = "nil" => r.val \in MaybeNode)
    <2>1. r \in Results(MaybeNode, t, at)
        BY <1>2, SubjectEnd
    <2> HIDE DEF r
    <2>2. r.err \in Errors \cup {"nil"} /\ (r.err = "nil" => r.val \in MaybeNode)
        BY <2>1, ResultIs
    <2> QED
        BY <2>2, NoneIsNoNode DEF Errors, MaybeNode
<1>4. EOF.err = "EOF"
    BY DEF EOF, Fail
<1>5. AllOneLine =>
         \E k \in 1 .. Len(calls) + 1 : InPlace(t, at, calls, "subject", statement, Len(got), k)
    BY <1>1 DEF IInv, Place
<1> HIDE DEF t
<1>6. AllOneLine =>
         \E k \in 1 .. Len(calls) + 1 :
            /\ CountTo(calls, k - 1) = Len(got)
            /\ \/ /\ r.err = "nil" /\ r.val # None
                  /\ r.val \in MaybeNode => InPlace(t, r.at, calls, "predicate", u, Len(got), k)
               \/ /\ r = EOF
                  /\ k <= Len(calls) => IsStatement(calls[k]) /\ Len(t) < Start(calls, k) + SubjectEnds(calls[k].st)
    <2> SUFFICES ASSUME AllOneLine
                 PROVE  \E k \in 1 .. Len(calls) + 1 :
                           /\ CountTo(calls, k - 1) = Len(got)
                           /\ \/ /\ r.err = "nil" /\ r.val # None
                                 /\ r.val \in MaybeNode => InPlace(t, r.at, calls, "predicate", u, Len(got), k)
                              \/ /\ r = EOF
                                 /\ k <= Len(calls) => IsStatement(calls[k]) /\ Len(t) < Start(calls, k) + SubjectEnds(calls[k].st)
        OBVIOUS
    <2>1. PICK k \in 1 .. Len(calls) + 1 : InPlace(t, at, calls, "subject", statement, Len(got), k)
        BY <1>5
    <2>2. CountTo(calls, k - 1) = Len(got)
        BY <2>1 DEF InPlace
    <2>3. \/ /\ r.err = "nil" /\ r.val # None /\ r.at \in 1 .. Len(t) + 1
             /\ r.val \in MaybeNode => InPlace(t, r.at, calls, "predicate", u, Len(got), k)
          \/ /\ r = EOF
             /\ k <= Len(calls) => IsStatement(calls[k]) /\ Len(t) < Start(calls, k) + SubjectEnds(calls[k].st)
        BY <1>2, <2>1, PlaceSubject
    <2> HIDE DEF r, u
    <2> QED
        BY <2>2, <2>3
<1> HIDE DEF r, u
<1>7. CASE r.err # "nil"
    <2>1. Stop(r.err)
        BY <1>1, <1>7
    <2>2. ASSUME AllOneLine
          PROVE  \/ /\ result' = "nil" /\ NoneLost(calls, end, got)
                    /\ end = Len(text) => Len(got) = CountTo(calls, Len(calls))
                 \/ result' # "nil" /\ (end < Len(text) \/ Refused(calls))
        <3>1. PICK k \in 1 .. Len(calls) + 1 :
                 /\ CountTo(calls, k - 1) = Len(got) /\ r = EOF
                 /\ k <= Len(calls) => IsStatement(calls[k]) /\ Len(t) < Start(calls, k) + SubjectEnds(calls[k].st)
            BY <1>6, <1>7, <2>2
        <3>2. eofIsError = FALSE
            BY <1>1, <1>2 DEF TypeOK
        <3>3. result' = "nil"
            BY <1>4, <2>1, <3>1, <3>2 DEF Stop
        <3>4. /\ NoneLost(calls, end, got)
              /\ end = Len(text) => Len(got) = CountTo(calls, Len(calls))
            BY <1>2, <3>1, EndAtSubject
        <3> QED
            BY <3>3, <3>4
    <2> QED
        BY <1>1, <1>3, <2>1, <2>2, StopRight
<1>8. CASE r.err = "nil" /\ r.val = None
    <2>1. Stop("ExpectedStatement") /\ ~AllOneLine
        BY <1>1, <1>4, <1>6, <1>8
    <2> QED
        BY <1>1, <2>1, StopRight
<1>9. CASE r.err = "nil" /\ r.val # None
    <2>1. Keep("subject", r, "predicate") /\ r.val \in MaybeNode
        BY <1>1, <1>3, <1>9
    <2>2. AllOneLine => \E k \in 1 .. Len(calls) + 1 : InPlace(t, r.at, calls, "predicate", u, Len(got), k)
        BY <1>4, <1>6, <1>9, <2>1
    <2> QED
        BY <1>1, <2>1, <2>2, KeepRight DEF t, u
<1> QED
    BY <1>7, <1>8, <1>9

LEMMA ReadPredicateRight ==
    ASSUME IInv, ReadPredicate, TypeOK', Unread'
    PROVE  IInv'
<1> DEFINE t == given
           r == readIri(t, at)
           u == [statement EXCEPT !["predicate"] = r.val]
<1>1. /\ part = "predicate" /\ part \in readerParts
      /\ IF r.err # "nil" THEN Stop(r.err)
         ELSE IF r.val = None THEN Stop("ExpectedPredicate")
         ELSE Keep("predicate", r, "object")
    BY DEF ReadPredicate, readerParts
<1>2. TypeOK /\ statement \in Rows /\ t \in Seq(Nat) /\ Len(t) = end /\ at \in 1 .. Len(t) + 1 /\ Carries(t, calls)
    BY TextTyped, GivenCarries DEF IInv, TypeOK, RowsOK
<1>3. r.err # "none" /\ (r.err = "nil" => r.val \in MaybeNode)
    <2>1. r \in Results(Iris \cup {None}, t, at)
        BY <1>2, IriEnd
    <2> HIDE DEF r
    <2>2. r.err \in Errors \cup {"nil"} /\ (r.err = "nil" => r.val \in Iris \cup {None})
        BY <2>1, ResultIs
    <2> QED
        BY <2>2, NoneIsNoNode DEF Errors, MaybeNode
<1>4. EOF.err = "EOF"
    BY DEF EOF, Fail
<1>5. AllOneLine =>
         \E k \in 1 .. Len(calls) + 1 : InPlace(t, at, calls, "predicate", statement, Len(got), k)
    BY <1>1 DEF IInv, Place
<1> HIDE DEF t
<1>6. ASSUME AllOneLine
      PROVE  \E k \in 1 .. Len(calls) + 1 :
                \/ /\ r.err = "nil" /\ r.val # None
                   /\ r.val \in MaybeNode => InPlace(t, r.at, calls, "object", u, Len(got), k)
                \/ r = EOF /\ end < Len(text)
    <2>1. PICK k \in 1 .. Len(calls) + 1 : InPlace(t, at, calls, "predicate", statement, Len(got), k)
        BY <1>5, <1>6
    <2>2. k \in 1 .. Len(calls)
        BY <1>2, <2>1, PartStands
    <2>3. \/ /\ r.err = "nil" /\ r.val # None /\ r.at \in 1 .. Len(t) + 1
             /\ r.val \in MaybeNode => InPlace(t, r.at, calls, "object", u, Len(got), k)
          \/ r = EOF /\ Short(t, calls, k)
        BY <1>2, <2>1, PlacePredicate
    <2> HIDE DEF r, u
    <2>4. Short(t, calls, k) => end < Len(text)
        BY <1>2, <2>2, ShortEnds DEF t
    <2> QED
        BY <2>3, <2>4
<1> HIDE DEF r, u
<1>7. CASE r.err # "nil"
    <2>1. Stop(r.err)
        BY <1>1, <1>7
    <2>2. AllOneLine => end < Len(text) \/ Refused(calls)
        BY <1>6, <1>7
    <2>3. result' # "nil"
        <3>1. eofIsError = TRUE
            BY <1>1, <1>2 DEF TypeOK
        <3> QED
            BY <1>7, <2>1, <3>1 DEF Stop
    <2> QED
        BY <1>1, <1>3, <2>1, <2>2, <2>3, StopRight
<1>8. CASE r.err = "nil" /\ r.val = None
    <2>1. Stop("ExpectedPredicate") /\ ~AllOneLine
        BY <1>1, <1>4, <1>6, <1>8
    <2> QED
        BY <1>1, <2>1, StopRight
<1>9. CASE r.err = "nil" /\ r.val # None
    <2>1. Keep("predicate", r, "object") /\ r.val \in MaybeNode
        BY <1>1, <1>3, <1>9
    <2>2. AllOneLine => \E k \in 1 .. Len(calls) + 1 : InPlace(t, r.at, calls, "object", u, Len(got), k)
        BY <1>4, <1>6, <1>9, <2>1
    <2> QED
        BY <1>1, <2>1, <2>2, KeepRight DEF t, u
<1> QED
    BY <1>7, <1>8, <1>9

LEMMA ReadObjectRight ==
    ASSUME IInv, ReadObject, TypeOK', Unread'
    PROVE  IInv'
<1> DEFINE t == given
           r == readObject(t, at)
           u == [statement EXCEPT !["object"] = r.val]
<1>1. /\ part = "object" /\ part \in readerParts
      /\ IF r.err # "nil" THEN Stop(r.err)
         ELSE IF r.val = None THEN Stop("ExpectedObject")
         ELSE Keep("object", r, "graph")
    BY DEF ReadObject, readerParts
<1>2. TypeOK /\ statement \in Rows /\ t \in Seq(Nat) /\ Len(t) = end /\ at \in 1 .. Len(t) + 1 /\ Carries(t, calls)
    BY TextTyped, GivenCarries DEF IInv, TypeOK, RowsOK
<1>3. r.err # "none" /\ (r.err = "nil" => r.val \in MaybeNode)
    <2>1. r \in Results(MaybeNode, t, at)
        BY <1>2, ObjectEnd
    <2> HIDE DEF r
    <2>2. r.err \in Errors \cup {"nil"} /\ (r.err = "nil" => r.val \in MaybeNode)
        BY <2>1, ResultIs
    <2> QED
        BY <2>2, NoneIsNoNode DEF Errors, MaybeNode
<1>4. EOF.err = "EOF"
    BY DEF EOF, Fail
<1>5. AllOneLine =>
         \E k \in 1 .. Len(calls) + 1 : InPlace(t, at, calls, "object", statement, Len(got), k)
    BY <1>1 DEF IInv, Place
<1> HIDE DEF t
<1>6. ASSUME AllOneLine
      PROVE  \E k \in 1 .. Len(calls) + 1 :
                \/ /\ r.err = "nil" /\ r.val # None
                   /\ r.val \in MaybeNode => InPlace(t, r.at, calls, "graph", u, Len(got), k)
                \/ r = EOF /\ end < Len(text)
                \/ r.err # "nil" /\ Refused(calls)
    <2>1. PICK k \in 1 .. Len(calls) + 1 : InPlace(t, at, calls, "object", statement, Len(got), k)
        BY <1>5, <1>6
    <2>2. k \in 1 .. Len(calls)
        BY <1>2, <2>1, PartStands
    <2>3. \/ /\ r.err = "nil" /\ r.val # None /\ r.at \in 1 .. Len(t) + 1
             /\ r.val \in MaybeNode => InPlace(t, r.at, calls, "graph", u, Len(got), k)
          \/ r = EOF /\ Short(t, calls, k)
          \/ r.err # "nil" /\ k \in 1 .. Len(calls) /\ IsStatement(calls[k]) /\ ~Readable(calls[k].st)
        BY <1>2, <2>1, PlaceObject
    <2> HIDE DEF r, u
    <2>4. Short(t, calls, k) => end < Len(text)
        BY <1>2, <2>2, ShortEnds DEF t
    <2>5. IsStatement(calls[k]) /\ ~Readable(calls[k].st) => Refused(calls)
        <3>1. DOMAIN calls = 1 .. Len(calls)
            BY <1>2, CallsAre DEF TypeOK
        <3> QED
            BY <2>2, <3>1 DEF Refused
    <2> QED
        BY <2>3, <2>4, <2>5
<1> HIDE DEF r, u
<1>7. CASE r.err # "nil"
    <2>1. Stop(r.err)
        BY <1>1, <1>7
    <2>2. AllOneLine => end < Len(text) \/ Refused(calls)
        BY <1>6, <1>7
    <2>3. result' # "nil"
        <3>1. eofIsError = TRUE
            BY <1>1, <1>2 DEF TypeOK
        <3> QED
            BY <1>7, <2>1, <3>1 DEF Stop
    <2> QED
        BY <1>1, <1>3, <2>1, <2>2, <2>3, StopRight
<1>8. CASE r.err = "nil" /\ r.val = None
    <2>1. Stop("ExpectedObject") /\ ~AllOneLine
        BY <1>1, <1>4, <1>6, <1>8
    <2> QED
        BY <1>1, <2>1, StopRight
<1>9. CASE r.err = "nil" /\ r.val # None
    <2>1. Keep("object", r, "graph") /\ r.val \in MaybeNode
        BY <1>1, <1>3, <1>9
    <2>2. AllOneLine => \E k \in 1 .. Len(calls) + 1 : InPlace(t, r.at, calls, "graph", u, Len(got), k)
        BY <1>4, <1>6, <1>9, <2>1
    <2> QED
        BY <1>1, <2>1, <2>2, KeepRight DEF t, u
<1> QED
    BY <1>7, <1>8, <1>9

LEMMA ReadGraphRight ==
    ASSUME IInv, ReadGraph, TypeOK', Unread'
    PROVE  IInv'
<1> DEFINE t == given
           r == readIri(t, at)
           u == [statement EXCEPT !["graph"] = r.val]
<1>1. /\ part = "graph" /\ part \in readerParts
      /\ IF r.err # "nil" THEN Stop(r.err)
         ELSE Keep("graph", r, "dot")
    BY DEF ReadGraph, readerParts
<1>2. TypeOK /\ statement \in Rows /\ t \in Seq(Nat) /\ Len(t) = end /\ at \in 1 .. Len(t) + 1 /\ Carries(t, calls)
    BY TextTyped, GivenCarries DEF IInv, TypeOK, RowsOK
<1>3. r.err # "none" /\ (r.err = "nil" => r.val \in MaybeNode)
    <2>1. r \in Results(Iris \cup {None}, t, at)
        BY <1>2, IriEnd
    <2> HIDE DEF r
    <2>2. r.err \in Errors \cup {"nil"} /\ (r.err = "nil" => r.val \in Iris \cup {None})
        BY <2>1, ResultIs
    <2> QED
        BY <2>2, NoneIsNoNode DEF Errors, MaybeNode
<1>4. EOF.err = "EOF"
    BY DEF EOF, Fail
<1>5. AllOneLine =>
         \E k \in 1 .. Len(calls) + 1 : InPlace(t, at, calls, "graph", statement, Len(got), k)
    BY <1>1 DEF IInv, Place
<1> HIDE DEF t
<1>6. ASSUME AllOneLine
      PROVE  \E k \in 1 .. Len(calls) + 1 :
                \/ /\ r.err = "nil"
                   /\ r.val \in MaybeNode => InPlace(t, r.at, calls, "dot", u, Len(got), k)
                \/ r = EOF /\ end < Len(text)
    <2>1. PICK k \in 1 .. Len(calls) + 1 : InPlace(t, at, calls, "graph", statement, Len(got), k)
        BY <1>5, <1>6
    <2>2. k \in 1 .. Len(calls)
        BY <1>2, <2>1, PartStands
    <2>3. \/ /\ r.err = "nil" /\ r.at \in 1 .. Len(t) + 1
             /\ r.val \in MaybeNode => InPlace(t, r.at, calls, "dot", u, Len(got), k)
          \/ r = EOF /\ Short(t, calls, k)
        BY <1>2, <2>1, PlaceGraph
    <2> HIDE DEF r, u
    <2>4. Short(t, calls, k) => end < Len(text)
        BY <1>2, <2>2, ShortEnds DEF t
    <2> QED
        BY <2>3, <2>4
<1> HIDE DEF r, u
<1>7. CASE r.err # "nil"
    <2>1. Stop(r.err)
        BY <1>1, <1>7
    <2>2. AllOneLine => end < Len(text) \/ Refused(calls)
        BY <1>6, <1>7
    <2>3. result' # "nil"
        <3>1. eofIsError = TRUE
            BY <1>1, <1>2 DEF TypeOK
        <3> QED
            BY <1>7, <2>1, <3>1 DEF Stop
    <2> QED
        BY <1>1, <1>3, <2>1, <2>2, <2>3, StopRight
<1>9. CASE r.err = "nil"
    <2>1. Keep("graph", r, "dot") /\ r.val \in MaybeNode
        BY <1>1, <1>3, <1>9
    <2>2. AllOneLine => \E k \in 1 .. Len(calls) + 1 : InPlace(t, r.at, calls, "dot", u, Len(got), k)
        BY <1>4, <1>6, <1>9, <2>1
    <2> QED
        BY <1>1, <2>1, <2>2, KeepRight DEF t, u
<1> QED
    BY <1>7, <1>9

LEMMA ReadDotRight ==
    ASSUME IInv, ReadDot, TypeOK', Unread'
    PROVE  IInv'
<1> DEFINE t == given
           j == readSpaces(t, at)
           n == Len(got)
<1>1. /\ part = "dot" /\ part \in readerParts
      /\ IF j > end THEN Stop("EOF")
         ELSE IF t[j] # Dot THEN Stop("ExpectedFinalDot")
         ELSE /\ got' = Append(got, statement)
              /\ at' = j + 1 /\ part' = "subject" /\ eofIsError' = FALSE
              /\ statement' = NoStatement
              /\ UNCHANGED <<calls, text, end, result>>
    BY DEF ReadDot, readerParts
<1>2. TypeOK /\ statement \in Rows /\ t \in Seq(Nat) /\ Len(t) = end /\ at \in 1 .. Len(t) + 1 /\ Carries(t, calls)
      /\ got \in Seq(Rows)
    BY TextTyped, GivenCarries DEF IInv, TypeOK, RowsOK
<1>3. AllOneLine => \E k \in 1 .. Len(calls) + 1 : InPlace(t, at, calls, "dot", statement, n, k)
    BY <1>1 DEF IInv, Place
<1> HIDE DEF t
<1>4. ASSUME AllOneLine
      PROVE  \E k \in 1 .. Len(calls) + 1 :
                IF j > Len(t) THEN end < Len(text)
                ELSE /\ t[j] = Dot
                     /\ k \in 1 .. Len(calls) /\ IsStatement(calls[k]) /\ CountTo(calls, k) = n + 1
                     /\ Intact(calls[k].st) => statement = calls[k].st
                     /\ \A w : \E l \in 1 .. Len(calls) + 1 : InPlace(t, j + 1, calls, "subject", w, n + 1, l)
    <2>1. PICK k \in 1 .. Len(calls) + 1 : InPlace(t, at, calls, "dot", statement, n, k)
        BY <1>3, <1>4
    <2>2. k \in 1 .. Len(calls)
        BY <1>2, <2>1, PartStands
    <2>3. \A i \in DOMAIN calls : OneLine(calls[i])
        BY <1>4 DEF AllOneLine
    <2>4. IF j > Len(t) THEN Short(t, calls, k)
          ELSE /\ t[j] = Dot /\ j + 1 \in 1 .. Len(t) + 1
               /\ k \in 1 .. Len(calls) /\ IsStatement(calls[k]) /\ CountTo(calls, k) = n + 1
               /\ calls[k].st \in Statements /\ (Intact(calls[k].st) => statement = calls[k].st)
               /\ \A w : \E l \in 1 .. Len(calls) + 1 : InPlace(t, j + 1, calls, "subject", w, n + 1, l)
        BY <1>2, <2>1, <2>3, PlaceDot
    <2>5. Short(t, calls, k) => end < Len(text)
        BY <1>2, <2>2, ShortEnds DEF t
    <2> HIDE DEF j, n
    <2> QED
        BY <2>4, <2>5
<1>5. eofIsError = TRUE
    BY <1>1, <1>2 DEF TypeOK
<1> HIDE DEF j
<1>6. CASE j > end
    <2>1. Stop("EOF") /\ result' # "nil"
        BY <1>1, <1>5, <1>6 DEF Stop
    <2>2. AllOneLine => end < Len(text)
        BY <1>2, <1>4, <1>6
    <2> QED
        BY <1>1, <2>1, <2>2, StopRight
<1>7. CASE ~(j > end) /\ t[j] # Dot
    <2>1. Stop("ExpectedFinalDot") /\ ~AllOneLine
        BY <1>1, <1>2, <1>4, <1>7
    <2> QED
        BY <1>1, <2>1, StopRight
<1>8. CASE ~(j > end) /\ t[j] = Dot
    <2>1. /\ got' = Append(got, statement) /\ at' = j + 1 /\ part' = "subject"
          /\ statement' = NoStatement /\ calls' = calls /\ text' = text /\ end' = end /\ result' = result
        BY <1>1, <1>8
    <2>2. n \in Nat /\ Len(got') = n + 1 /\ got'[n + 1] = statement /\ (\A i \in 1 .. n : got'[i] = got[i])
          /\ got' \in Seq(Rows)
        BY <1>2, <2>1
    <2>3. RowsOK' /\ part' \in readerParts
        BY <2>1, <2>2 DEF RowsOK, readerParts, Rows, NoStatement, Statement, MaybeNode
    <2> HIDE DEF n
    <2>4. AllOneLine => Place'
        <3> SUFFICES ASSUME AllOneLine PROVE Place'
            OBVIOUS
        <3>1. \E l \in 1 .. Len(calls) + 1 : InPlace(t, j + 1, calls, "subject", NoStatement, n + 1, l)
            BY <1>2, <1>4, <1>8
        <3>2. given' = given
            BY <2>1 DEF given
        <3> QED
            BY <2>1, <2>2, <3>1, <3>2 DEF Place, t
    <2>5. ReadBack'
        <3> SUFFICES ASSUME \A i \in DOMAIN calls : OneLine(calls[i]) PROVE Back(calls, got')
            BY <2>1, BackIs DEF Back
        <3>1. AllOneLine
            BY DEF AllOneLine
        <3>2. PICK k \in 1 .. Len(calls) :
                 IsStatement(calls[k]) /\ CountTo(calls, k) = n + 1 /\ (Intact(calls[k].st) => statement = calls[k].st)
            BY <1>2, <1>4, <1>8, <3>1
        <3>3. calls \in Seq(Calls) /\ Len(calls) \in Nat /\ DOMAIN calls = 1 .. Len(calls)
            BY <1>2, CallsAre DEF TypeOK
        <3>4. k \in Nat /\ k <= Len(calls)
            BY <3>3
        <3>5. n + 1 <= CountTo(calls, Len(calls))
            BY <3>2, <3>3, <3>4, CountIs
        <3>6. ASSUME NEW i \in DOMAIN calls, IsStatement(calls[i]), Intact(calls[i].st), CountTo(calls, i) <= n + 1
              PROVE  got'[CountTo(calls, i)] = calls[i].st
            <4>1. i \in Nat /\ 0 < i
                BY <3>3
            <4>2. CountTo(calls, i) \in Nat /\ CountTo(calls, k) \in Nat /\ CountTo(calls, 0) < CountTo(calls, i)
                  /\ CountTo(calls, 0) = 0
                BY <3>4, <3>6, <4>1, CountIs
            <4>3. CASE i = k
                BY <2>2, <3>2, <3>6, <4>3
            <4>4. CASE i < k
                <5>1. CountTo(calls, i) < CountTo(calls, k)
                    BY <3>2, <3>4, <4>1, <4>4, CountIs
                <5>2. CountTo(calls, i) \in 1 .. n /\ CountTo(calls, i) <= n
                    BY <2>2, <3>2, <4>2, <5>1
                <5>3. got[CountTo(calls, i)] = calls[i].st
                    <6>1. Back(calls, got)
                        BY BackIs DEF IInv
                    <6> QED
                        BY <3>1, <3>6, <5>2, <6>1 DEF Back, AllOneLine, n
                <5> QED
                    BY <2>2, <5>2, <5>3
            <4>5. CASE k < i
                <5>1. CountTo(calls, k) < CountTo(calls, i)
                    BY <3>4, <3>6, <4>1, <4>5, CountIs
                <5> QED
                    BY <2>2, <3>2, <3>6, <4>2, <5>1
            <4> QED
                BY <3>4, <4>1, <4>3, <4>4, <4>5
        <3> QED
            BY <2>2, <3>5, <3>6 DEF Back
    <2> QED
        BY <2>1, <2>3, <2>4, <2>5, GoesOn
<1> QED
    BY <1>6, <1>7, <1>8

LEMMA StandsStill ==
    ASSUME IInv, UNCHANGED vars, TypeOK', Unread'
    PROVE  IInv'
<1>1. /\ calls' = calls /\ text' = text /\ end' = end /\ at' = at /\ part' = part
      /\ statement' = statement /\ got' = got /\ result' = result
    BY DEF vars
<1>2. RowsOK'
    BY <1>1 DEF IInv, RowsOK
<1>3. ReadBack' /\ WholeRead'
    BY <1>1, BackIs, WholeIs DEF IInv
<1>4. calls \in Seq(Calls) /\ calls' \in Seq(Calls)
    BY <1>1 DEF IInv, TypeOK
<1>5. TruncationNoticed'
    BY <1>1, <1>4, TruncationIs DEF IInv
<1>6. part' \in readerParts /\ AllOneLine' => Place'
    BY <1>1 DEF IInv, AllOneLine, Place, given
<1> QED
    BY <1>2, <1>3, <1>5, <1>6 DEF IInv

LEMMA InvStep ==
    ASSUME IInv, [Next]_vars
    PROVE  IInv'
<1>1. TypeOK' /\ Unread'
    BY TypeStep DEF IInv
<1>2. CASE \E c \in Calls : Write(c)
    BY <1>1, <1>2, WriteRight
<1>3. CASE \E n \in 0 .. Len(text) : Open(n)
    BY <1>1, <1>3, OpenRight
<1>4. CASE ReadStatement
    BY <1>1, <1>4, ReadSubjectRight, ReadPredicateRight, ReadObjectRight, ReadGraphRight, ReadDotRight
       DEF ReadStatement
<1>5. CASE UNCHANGED vars
    BY <1>1, <1>5, StandsStill
<1> QED
    BY <1>2, <1>3, <1>4, <1>5 DEF Next

LEMMA InvInit == Init => IInv
<1> SUFFICES ASSUME Init PROVE IInv
    OBVIOUS
<1>1. TypeOK /\ Unread
    BY TypeInit
<1>2. /\ calls = << >> /\ Len(calls) = 0 /\ DOMAIN calls = {} /\ got = << >> /\ Len(got) = 0
      /\ part = "write" /\ result = "none" /\ statement = NoStatement /\ calls \in Seq(Calls)
    BY DEF Init
<1>3. RowsOK
    BY <1>2 DEF RowsOK, Rows, NoStatement, Statement, MaybeNode
<1>4. ReadBack
    <2>1. CountTo(calls, 0) = 0
        BY CountIs
    <2>2. Back(calls, got)
        BY <1>2, <2>1 DEF Back
    <2> QED
        BY <2>2, BackIs
<1>5. WholeRead /\ TruncationNoticed
    BY <1>2, WholeIs, TruncationIs
<1> QED
    BY <1>1, <1>2, <1>3, <1>4, <1>5 DEF IInv, readerParts

LEMMA Invariant == Spec => []IInv
<1>1. Init => IInv
    BY InvInit
<1>2. IInv /\ [Next]_vars => IInv'
    BY InvStep
<1> QED
    BY <1>1, <1>2, PTL DEF Spec

\* What was written reads back as it was, each statement at its own place,
\* whatever its characters and its neighbours are (nquads/writer.go:22-65,
\* turtle/escape.go:15-40, reader.go:66-413).
THEOREM ReadsBack == Spec => []ReadBack
<1>1. IInv => ReadBack
    BY DEF IInv
<1> QED
    BY <1>1, Invariant, PTL

\* A text that arrives whole is read to its end, but for a literal with a type
\* or a language and a comment with a carriage return (literals.go:73-79,
\* reader.go:247-293, writer.go:22-25).
THEOREM ReadsToTheEnd == Spec => []WholeRead
<1>1. IInv => WholeRead
    BY DEF IInv
<1> QED
    BY <1>1, Invariant, PTL

\* Wherever the text is cut, if reading ends without an error no statement is
\* missing of which more than the subject had arrived (reader.go:53-64, 69,
\* 80, 129).
THEOREM NoticesTruncation == Spec => []TruncationNoticed
<1>1. IInv => TruncationNoticed
    BY DEF IInv
<1> QED
    BY <1>1, Invariant, PTL

=============================================================================
