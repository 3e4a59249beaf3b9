---------------------------- MODULE BundleProofs ----------------------------
(***************************************************************************)
(* Proofs about Bundle, for any directory, any statements of bundles made  *)
(* by hand, any target of the POST and any content of the RDF store: what  *)
(* the inserters write is read back, token by token, as what the           *)
(* statements mean, and a directory that was packed arrives.               *)
(***************************************************************************)
EXTENDS Bundle, FiniteSetTheorems, SequenceTheorems, TLAPS

\* A set of naturals that is not empty has a least element.
LEMMA LeastNatural ==
    ASSUME NEW T \in SUBSET Nat, T # {}
    PROVE  \E n \in T : \A m \in T : n <= m
<1> DEFINE Below(n) == {k \in Nat : k < n}
           R == StrictSubsetOrdering(Nat)
           S == FiniteSubsetsOf(Nat)
           U == {Below(n) : n \in T}
<1>1. IsWellFoundedOn(R, S)
    BY FS_StrictSubsetOrderingWellFounded
<1>2. ASSUME NEW n \in Nat
      PROVE  Below(n) \in S
    <2>1. Below(n) \subseteq 0 .. n
        OBVIOUS
    <2>2. IsFiniteSet(0 .. n)
        BY FS_Interval
    <2> QED
        BY <2>1, <2>2, FS_Subset DEF FiniteSubsetsOf
<1>3. U \subseteq S /\ U # {}
    BY <1>2
<1>4. \E x \in U : \A y \in U : ~(<<y, x>> \in R)
    <2> HIDE DEF R, S, U
    <2> QED
        BY <1>1, <1>3, WFMin
<1>5. PICK n \in T : \A m \in T : ~(<<Below(m), Below(n)>> \in R)
    BY <1>4
<1>6. ASSUME NEW m \in T, m < n
      PROVE  FALSE
    <2>1. m \in Nat /\ n \in Nat
        OBVIOUS
    <2>2. m \in Below(n) /\ m \notin Below(m)
        BY <1>6, <2>1
    <2>3. \A k \in Below(m) : k \in Below(n)
        BY <1>6, <2>1
    <2>4. Below(m) \subseteq Below(n) /\ Below(m) # Below(n)
        BY <2>2, <2>3
    <2>5. Below(m) \subseteq Nat /\ Below(n) \subseteq Nat
        OBVIOUS
    <2>6. <<Below(m), Below(n)>> \in R
        BY <2>4, <2>5 DEF StrictSubsetOrdering
    <2> QED
        BY <2>6, <1>5
<1> QED
    BY <1>5, <1>6


(* Loops over a sequence.  A state follows from the one before and the     *)
(* next element, by a step that is a function.                             *)

Runs(f, a, step, ts, N) ==
    /\ f[0] = a
    /\ \A n \in 1 .. N : f[n] = step[<<f[n - 1], ts[n]>>]

LEMMA LoopRuns ==
    ASSUME NEW S, NEW T, NEW a \in S, NEW step \in [S \X T -> S], NEW ts \in Seq(T)
    PROVE  \E f \in [0 .. Len(ts) -> S] : Runs(f, a, step, ts, Len(ts))
<1> DEFINE N == Len(ts)
           Has(k) == \E f \in [0 .. k -> S] : Runs(f, a, step, ts, k)
           X == {k \in 0 .. N : ~Has(k)}
<1>0. N \in Nat /\ \A n \in 1 .. N : ts[n] \in T
    OBVIOUS
<1> HIDE DEF N
<1>1. ASSUME NEW k \in X, \A m \in X : k <= m
      PROVE  FALSE
    <2>1. k \in 0 .. N /\ k \in Nat /\ ~Has(k)
        BY <1>0
    <2>2. CASE k = 0
        <3> DEFINE f == [n \in 0 .. 0 |-> a]
        <3>1. f \in [0 .. 0 -> S] /\ Runs(f, a, step, ts, 0)
            BY DEF Runs
        <3> HIDE DEF f
        <3> QED
            BY <2>1, <2>2, <3>1
    <2>3. CASE k > 0
        <3>1. PICK j \in 0 .. N : j = k - 1 /\ j < k
            BY <1>0, <2>1, <2>3
        <3>2. j \in Nat /\ ~(k <= j) /\ k \in 1 .. N
            BY <1>0, <2>1, <2>3, <3>1
        <3>3. PICK f \in [0 .. j -> S] : Runs(f, a, step, ts, j)
            <4> HIDE DEF Has
            <4>1. Has(j)
                BY <1>1, <3>1, <3>2
            <4> QED
                BY <4>1 DEF Has
        <3> DEFINE y == step[<<f[j], ts[k]>>]
                   g == [n \in 0 .. k |-> IF n = k THEN y ELSE f[n]]
        <3>4. y \in S
            <4>1. f[j] \in S /\ ts[k] \in T
                BY <1>0, <3>2
            <4> QED
                BY <4>1
        <3> HIDE DEF y
        <3>5. \A n \in 0 .. k : n # k => n \in 0 .. j
            BY <3>1, <3>2
        <3>6. g \in [0 .. k -> S]
            BY <3>4, <3>5
        <3>7. g[0] = a
            BY <2>1, <2>3, <3>3 DEF Runs
        <3>8. ASSUME NEW n \in 1 .. k
              PROVE  g[n] = step[<<g[n - 1], ts[n]>>]
            <4>1. n - 1 \in 0 .. j /\ n - 1 \in 0 .. k /\ n - 1 # k /\ n \in 0 .. k
                BY <2>1, <3>1, <3>2
            <4>2. g[n - 1] = f[n - 1]
                BY <4>1
            <4>3. CASE n = k
                <5>1. g[n] = y /\ n - 1 = j
                    BY <3>1, <4>1, <4>3
                <5> QED
                    BY <4>2, <4>3, <5>1 DEF y
            <4>4. CASE n # k
                <5>1. g[n] = f[n] /\ n \in 1 .. j
                    BY <3>1, <3>2, <4>1, <4>4
                <5> QED
                    BY <3>3, <4>2, <5>1 DEF Runs
            <4> QED
                BY <4>3, <4>4
        <3> HIDE DEF g
        <3>9. Runs(g, a, step, ts, k)
            BY <3>7, <3>8 DEF Runs
        <3> QED
            BY <2>1, <3>6, <3>9
    <2> QED
        BY <2>1, <2>2, <2>3
<1>2. X = {}
    <2>1. X \in SUBSET Nat
        OBVIOUS
    <2> HIDE DEF X
    <2> QED
        BY <1>1, <2>1, LeastNatural
<1> HIDE DEF Has
<1>3. Has(N)
    BY <1>0, <1>2
<1> QED
    BY <1>3 DEF Has, N

\* Two runs that agree on their elements agree.
LEMMA LoopsAgree ==
    ASSUME NEW N \in Nat, NEW a, NEW step, NEW ts, NEW us, NEW f, NEW g,
           Runs(f, a, step, ts, N), Runs(g, a, step, us, N),
           \A n \in 1 .. N : ts[n] = us[n]
    PROVE  f[N] = g[N]
<1> DEFINE X == {k \in 0 .. N : f[k] # g[k]}
<1>1. ASSUME NEW k \in X, \A m \in X : k <= m
      PROVE  FALSE
    <2>1. k \in 0 .. N /\ k \in Nat /\ f[k] # g[k] /\ k # 0
        BY DEF Runs
    <2>2. PICK j \in 0 .. N : j = k - 1 /\ j < k
        BY <2>1
    <2>3. ~(k <= j)
        BY <2>1, <2>2
    <2>4. f[j] = g[j]
        BY <1>1, <2>2, <2>3
    <2>5. k \in 1 .. N
        BY <2>1
    <2> QED
        BY <2>1, <2>2, <2>4, <2>5 DEF Runs
<1>2. X \in SUBSET Nat
    OBVIOUS
<1> HIDE DEF X
<1>3. X = {}
    BY <1>1, <1>2, LeastNatural
<1> QED
    BY <1>3 DEF X

-----------------------------------------------------------------------------
(* The text of an Update, read *)

Terms == Refs \cup STRING \cup {None}
Tokens == [k : {"DROP", "INSERT", "GRAPH", "term", "semicolon", "dot", "comma", "close"}, v : Terms]

At(at, g, s, p, Q) == [at |-> at, g |-> g, s |-> s, p |-> p, quads |-> Q]

\* All a reader of an Update of Q may be.
Readers(Q) ==
    [at : {"start", "end", "data", "triples", "verb", "object", "after", "error"},
     g : Terms, s : Terms, p : Terms,
     quads : SUBSET (Q \cup (Terms \X Terms \X Terms \X Terms))]

LEMMA ReaderStep ==
    ASSUME NEW Q, NEW r \in Readers(Q), NEW t \in Tokens
    PROVE  ReadToken(r, t) \in Readers(Q)
<1> DEFINE U == Q \cup (Terms \X Terms \X Terms \X Terms)
           Goto(at) == [r EXCEPT !.at = at]
<1>1. /\ \A q \in r.quads : q \in U
      /\ r.g \in Terms /\ r.s \in Terms /\ r.p \in Terms /\ t.v \in Terms
    BY DEF Readers, Tokens
<1>2. {q \in r.quads : q[1] # t.v} \in SUBSET U
    BY <1>1
<1>3. r.quads \cup {<<r.g, r.s, r.p, t.v>>} \in SUBSET U
    BY <1>1
<1> HIDE DEF U
<1>4. \A at \in {"start", "end", "data", "triples", "verb", "object", "after", "error"} :
         /\ Goto(at) \in Readers(Q)
         /\ Goto(at).quads = r.quads /\ Goto(at).g = r.g
         /\ Goto(at).s = r.s /\ Goto(at).p = r.p
    BY DEF Readers, U
<1>5. \A x \in Readers(Q) : \A V \in SUBSET U : [x EXCEPT !.quads = V] \in Readers(Q)
    BY DEF Readers, U
<1>6. \A x \in Readers(Q) : \A y \in Terms :
         /\ [x EXCEPT !.g = y] \in Readers(Q)
         /\ [x EXCEPT !.s = y] \in Readers(Q)
         /\ [x EXCEPT !.p = y] \in Readers(Q)
    BY DEF Readers
<1> HIDE DEF Goto
<1>7. [Goto("end") EXCEPT !.quads = {q \in @ : q[1] # t.v}] \in Readers(Q)
    BY <1>2, <1>4, <1>5
<1>8. [Goto("after") EXCEPT !.quads = @ \cup {<<r.g, r.s, r.p, t.v>>}] \in Readers(Q)
    BY <1>3, <1>4, <1>5
<1>9. /\ [Goto("triples") EXCEPT !.g = t.v] \in Readers(Q)
      /\ [Goto("verb") EXCEPT !.s = t.v] \in Readers(Q)
      /\ [Goto("object") EXCEPT !.p = t.v] \in Readers(Q)
    BY <1>1, <1>4, <1>6
<1>10. \A at \in {"start", "end", "data", "triples", "verb", "object", "after", "error"} :
         Goto(at) \in Readers(Q)
    BY <1>4
<1> QED
    BY <1>7, <1>8, <1>9, <1>10 DEF ReadToken, Goto

StartOf(Q) == At("start", None, None, None, Q)

ReadStep(Q) == [x \in Readers(Q) \X Tokens |-> ReadToken(x[1], x[2])]

\* Execute is that loop.
LEMMA ExecuteRuns ==
    ASSUME NEW Q, NEW ts \in Seq(Tokens)
    PROVE  \E f \in [0 .. Len(ts) -> Readers(Q)] :
              /\ Runs(f, StartOf(Q), ReadStep(Q), ts, Len(ts))
              /\ f[Len(ts)] = Execute(Q, ts)
<1> DEFINE N == Len(ts)
           Row(f, n) ==
               IF n = 0
               THEN [at |-> "start", g |-> None, s |-> None, p |-> None, quads |-> Q]
               ELSE LET r == f[n - 1] IN ReadToken(r, ts[n])
           loop == CHOOSE f : f = [n \in 0 .. N |-> Row(f, n)]
<1>1. Execute(Q, ts) = loop[N]
    BY Zenon DEF Execute
<1>2. StartOf(Q) \in Readers(Q)
    BY DEF StartOf, At, Readers, Terms
<1>3. ReadStep(Q) \in [Readers(Q) \X Tokens -> Readers(Q)]
    BY ReaderStep DEF ReadStep
<1>4. PICK f \in [0 .. N -> Readers(Q)] : Runs(f, StartOf(Q), ReadStep(Q), ts, N)
    BY <1>2, <1>3, LoopRuns
<1>5. N \in Nat /\ \A n \in 1 .. N : ts[n] \in Tokens
    OBVIOUS
<1> HIDE DEF N
<1>6. ASSUME NEW n \in 0 .. N
      PROVE  f[n] = Row(f, n)
    <2>1. CASE n = 0
        BY <1>4, <2>1 DEF Runs, StartOf, At
    <2>2. CASE n # 0
        <3>1. n \in 1 .. N /\ n - 1 \in 0 .. N
            BY <1>5, <2>2
        <3>2. f[n] = ReadStep(Q)[<<f[n - 1], ts[n]>>]
            BY <1>4, <3>1 DEF Runs
        <3>3. <<f[n - 1], ts[n]>> \in Readers(Q) \X Tokens
            BY <1>4, <1>5, <3>1
        <3>4. f[n] = ReadToken(f[n - 1], ts[n])
            BY <3>2, <3>3 DEF ReadStep
        <3> QED
            BY <2>2, <3>4
    <2> QED
        BY <2>1, <2>2
<1> HIDE DEF Row
<1>7. f = [n \in 0 .. N |-> Row(f, n)]
    BY <1>4, <1>6
<1>8. loop = [n \in 0 .. N |-> Row(loop, n)]
    BY <1>7
<1> HIDE DEF loop
<1>9. \A n \in 0 .. N : loop[n] = Row(loop, n)
    BY <1>8
<1>10. ASSUME NEW k \in 0 .. N
       PROVE  loop[k] = f[k]
    <2> DEFINE X == {j \in 0 .. N : loop[j] # f[j]}
    <2>1. ASSUME NEW n \in X, \A m \in X : n <= m
          PROVE  FALSE
        <3>1. n \in 0 .. N /\ n \in Nat /\ loop[n] # f[n]
            BY <1>5
        <3>2. n # 0
            BY <1>6, <1>9, <3>1 DEF Row
        <3>3. PICK j \in 0 .. N : j = n - 1 /\ j < n
            BY <1>5, <3>1, <3>2
        <3>4. loop[j] = f[j]
            <4>1. ~(n <= j)
                BY <3>1, <3>3
            <4> QED
                BY <2>1, <3>3, <4>1
        <3>5. loop[n] = ReadToken(loop[j], ts[n]) /\ f[n] = ReadToken(f[j], ts[n])
            BY <1>6, <1>9, <3>1, <3>2, <3>3 DEF Row
        <3> QED
            BY <3>1, <3>4, <3>5
    <2>2. X \in SUBSET Nat
        OBVIOUS
    <2> HIDE DEF X
    <2>3. X = {}
        BY <2>1, <2>2, LeastNatural
    <2> QED
        BY <2>3 DEF X
<1>11. N \in 0 .. N
    BY <1>5
<1> QED
    BY <1>1, <1>4, <1>10, <1>11 DEF N

LEMMA ReadsNothing ==
    ASSUME NEW Q
    PROVE  Execute(Q, <<>>) = StartOf(Q)
<1>1. << >> \in Seq(Tokens) /\ Len(<< >>) = 0
    OBVIOUS
<1>2. PICK f \in [0 .. 0 -> Readers(Q)] :
         Runs(f, StartOf(Q), ReadStep(Q), << >>, 0) /\ f[0] = Execute(Q, << >>)
    BY <1>1, ExecuteRuns
<1> QED
    BY <1>2 DEF Runs

\* One token more is read after the others.
LEMMA ReadsOn ==
    ASSUME NEW Q, NEW ts \in Seq(Tokens), NEW t \in Tokens
    PROVE  Execute(Q, Append(ts, t)) = ReadToken(Execute(Q, ts), t)
<1> DEFINE us == Append(ts, t)
           N == Len(ts)
<1>1. /\ us \in Seq(Tokens) /\ Len(us) = N + 1 /\ N \in Nat
      /\ \A n \in 1 .. N : us[n] = ts[n]
      /\ us[N + 1] = t
    OBVIOUS
<1> HIDE DEF us, N
<1>2. PICK f \in [0 .. N -> Readers(Q)] :
         Runs(f, StartOf(Q), ReadStep(Q), ts, N) /\ f[N] = Execute(Q, ts)
    BY ExecuteRuns DEF N
<1>3. PICK g \in [0 .. N + 1 -> Readers(Q)] :
         Runs(g, StartOf(Q), ReadStep(Q), us, N + 1) /\ g[N + 1] = Execute(Q, us)
    BY <1>1, ExecuteRuns
<1>4. Runs(g, StartOf(Q), ReadStep(Q), us, N)
    BY <1>1, <1>3 DEF Runs
<1>5. f[N] = g[N]
    BY <1>1, <1>2, <1>4, LoopsAgree
<1>6. g[N + 1] = ReadStep(Q)[<<g[N], t>>]
    <2>1. N + 1 \in 1 .. N + 1 /\ (N + 1) - 1 = N
        BY <1>1
    <2>2. g[N + 1] = ReadStep(Q)[<<g[(N + 1) - 1], us[N + 1]>>]
        BY <1>3, <2>1 DEF Runs
    <2> QED
        BY <1>1, <2>1, <2>2
<1>7. <<g[N], t>> \in Readers(Q) \X Tokens
    BY <1>1, <1>3
<1> QED
    BY <1>2, <1>3, <1>5, <1>6, <1>7 DEF ReadStep, us

LEMMA TokensRead ==
    ASSUME NEW g, NEW s, NEW p, NEW Q
    PROVE  /\ ReadToken(At("end", g, s, p, Q), Token("semicolon")) = At("start", g, s, p, Q)
           /\ ReadToken(At("start", g, s, p, Q), Token("INSERT")) = At("data", g, s, p, Q)
           /\ ReadToken(At("data", g, s, p, Q), Token("close")) = At("end", g, s, p, Q)
           /\ ReadToken(At("after", g, s, p, Q), Token("comma")) = At("object", g, s, p, Q)
           /\ ReadToken(At("after", g, s, p, Q), Token("semicolon")) = At("verb", g, s, p, Q)
           /\ ReadToken(At("after", g, s, p, Q), Token("dot")) = At("triples", g, s, p, Q)
           /\ ReadToken(At("after", g, s, p, Q), Token("close")) = At("data", g, s, p, Q)
<1>1. ReadToken(At("end", g, s, p, Q), Token("semicolon")) = At("start", g, s, p, Q)
    BY DEF ReadToken, At, Token
<1>2. ReadToken(At("start", g, s, p, Q), Token("INSERT")) = At("data", g, s, p, Q)
    BY DEF ReadToken, At, Token
<1>3. ReadToken(At("data", g, s, p, Q), Token("close")) = At("end", g, s, p, Q)
    BY DEF ReadToken, At, Token
<1>4. ReadToken(At("after", g, s, p, Q), Token("comma")) = At("object", g, s, p, Q)
    BY DEF ReadToken, At, Token
<1>5. ReadToken(At("after", g, s, p, Q), Token("semicolon")) = At("verb", g, s, p, Q)
    BY DEF ReadToken, At, Token
<1>6. ReadToken(At("after", g, s, p, Q), Token("dot")) = At("triples", g, s, p, Q)
    BY DEF ReadToken, At, Token
<1>7. ReadToken(At("after", g, s, p, Q), Token("close")) = At("data", g, s, p, Q)
    BY DEF ReadToken, At, Token
<1> QED
    BY <1>1, <1>2, <1>3, <1>4, <1>5, <1>6, <1>7

LEMMA DropRead ==
    ASSUME NEW g, NEW s, NEW p, NEW Q, NEW v
    PROVE  ReadToken(At("start", g, s, p, Q), [k |-> "DROP", v |-> v]) = At("end", g, s, p, {q \in Q : q[1] # v})
BY DEF ReadToken, At

LEMMA GraphRead ==
    ASSUME NEW g, NEW s, NEW p, NEW Q, NEW v
    PROVE  ReadToken(At("data", g, s, p, Q), [k |-> "GRAPH", v |-> v]) = At("triples", v, s, p, Q)
BY DEF ReadToken, At

LEMMA SubjectRead ==
    ASSUME NEW g, NEW s, NEW p, NEW Q, NEW v
    PROVE  ReadToken(At("triples", g, s, p, Q), Term(v)) = At("verb", g, v, p, Q)
BY DEF ReadToken, At, Term

LEMMA PredicateRead ==
    ASSUME NEW g, NEW s, NEW p, NEW Q, NEW v
    PROVE  ReadToken(At("verb", g, s, p, Q), Term(v)) = At("object", g, s, v, Q)
BY DEF ReadToken, At, Term

LEMMA ObjectRead ==
    ASSUME NEW g, NEW s, NEW p, NEW Q, NEW v
    PROVE  ReadToken(At("object", g, s, p, Q), Term(v)) = At("after", g, s, p, Q \cup {<<g, s, p, v>>})
BY DEF ReadToken, At, Term

\* Wherever the text goes on after a reader is done with a whole operation, it
\* takes the reader there and adds the quads N.
Yields(text, at, g, s, p, N) ==
    \A Q, R : \A ts \in Seq(Tokens) :
        Execute(Q, ts) = StartOf(R) =>
            Execute(Q, ts \o text) = At(at, g, s, p, R \cup N)

LEMMA YieldsOn ==
    ASSUME NEW text \in Seq(Tokens), NEW t \in Tokens,
           NEW at, NEW g, NEW s, NEW p, NEW N,
           NEW at2, NEW g2, NEW s2, NEW p2, NEW M,
           Yields(text, at, g, s, p, N),
           \A R : ReadToken(At(at, g, s, p, R \cup N), t) = At(at2, g2, s2, p2, (R \cup N) \cup M)
    PROVE  Yields(Append(text, t), at2, g2, s2, p2, N \cup M)
<1> SUFFICES ASSUME NEW Q, NEW R, NEW ts \in Seq(Tokens), Execute(Q, ts) = StartOf(R)
             PROVE  Execute(Q, ts \o Append(text, t)) = At(at2, g2, s2, p2, R \cup (N \cup M))
    BY DEF Yields
<1>1. Execute(Q, ts \o text) = At(at, g, s, p, R \cup N)
    BY DEF Yields
<1>2. ts \o text \in Seq(Tokens) /\ ts \o Append(text, t) = Append(ts \o text, t)
    OBVIOUS
<1>3. Execute(Q, ts \o Append(text, t)) = ReadToken(Execute(Q, ts \o text), t)
    <2> DEFINE us == ts \o text
    <2>1. us \in Seq(Tokens) /\ ts \o Append(text, t) = Append(us, t)
        BY <1>2
    <2> HIDE DEF us
    <2>2. Execute(Q, Append(us, t)) = ReadToken(Execute(Q, us), t)
        BY <2>1, ReadsOn
    <2>3. Execute(Q, ts \o Append(text, t)) = ReadToken(Execute(Q, us), t)
        BY <2>1, <2>2
    <2> QED
        BY <2>3 DEF us
<1>4. (R \cup N) \cup M = R \cup (N \cup M)
    OBVIOUS
<1>5. ReadToken(At(at, g, s, p, R \cup N), t) = At(at2, g2, s2, p2, (R \cup N) \cup M)
    OBVIOUS
<1> QED
    BY <1>1, <1>3, <1>4, <1>5

\* The same for a token that adds nothing.
LEMMA YieldsSame ==
    ASSUME NEW text \in Seq(Tokens), NEW t \in Tokens,
           NEW at, NEW g, NEW s, NEW p, NEW N,
           NEW at2, NEW g2, NEW s2, NEW p2,
           Yields(text, at, g, s, p, N),
           \A R : ReadToken(At(at, g, s, p, R), t) = At(at2, g2, s2, p2, R)
    PROVE  Yields(Append(text, t), at2, g2, s2, p2, N)
<1>1. \A R : ReadToken(At(at, g, s, p, R \cup N), t) = At(at2, g2, s2, p2, (R \cup N) \cup {})
    <2>1. \A R : R \cup N = (R \cup N) \cup {}
        OBVIOUS
    <2> QED
        BY <2>1
<1>2. Yields(Append(text, t), at2, g2, s2, p2, N \cup {})
    BY <1>1, YieldsOn
<1>3. N \cup {} = N
    OBVIOUS
<1> QED
    BY <1>2, <1>3

-----------------------------------------------------------------------------
(* The inserter of data *)

Inserters ==
    [out : Seq(Tokens), stmt : {None, "DROP", "DATA"}, graph : Refs \cup {None},
     subj : Refs \cup {None}, pred : STRING \cup {None}, inObj : BOOLEAN]

\* After a call of insertData the text ends behind an object, and what the
\* inserter remembers is what the reader of its text knows.
Behind(i, N) ==
    /\ i.stmt = "DATA" /\ i.graph # None /\ i.subj # None /\ i.pred # None /\ i.inObj
    /\ Yields(i.out, "after", i.graph, i.subj, i.pred, N)

Writes(i, N) ==
    /\ i \in Inserters
    /\ (i = NoInserter /\ N = {}) \/ Behind(i, N)

LEMMA Separate ==
    /\ \A x \in Refs : x # None
    /\ \A x \in STRING : x # None
    /\ None # "DATA" /\ None # "DROP"
BY NoneAssumption

LEMMA TokensAre ==
    /\ Token("INSERT") \in Tokens /\ Token("close") \in Tokens /\ Token("dot") \in Tokens
    /\ Token("semicolon") \in Tokens /\ Token("comma") \in Tokens
BY DEF Token, Tokens, Terms

LEMMA TermsAre ==
    ASSUME NEW v \in Terms
    PROVE  /\ Term(v) \in Tokens
           /\ [k |-> "GRAPH", v |-> v] \in Tokens
           /\ [k |-> "DROP", v |-> v] \in Tokens
BY DEF Term, Tokens

LEMMA EmitIs ==
    ASSUME NEW i \in Inserters, NEW t \in Tokens
    PROVE  /\ Emit(i, t) \in Inserters /\ Emit(i, t).out = Append(i.out, t)
           /\ Emit(i, t).stmt = i.stmt /\ Emit(i, t).graph = i.graph
           /\ Emit(i, t).subj = i.subj /\ Emit(i, t).pred = i.pred
           /\ Emit(i, t).inObj = i.inObj
<1>1. Append(i.out, t) \in Seq(Tokens)
    BY DEF Inserters
<1> QED
    BY <1>1 DEF Emit, Inserters

\* Inside INSERT DATA, in the group of g.
InGraph(i, g, N) ==
    /\ i \in Inserters /\ i.stmt = "DATA" /\ i.graph = g
    /\ \/ Behind(i, N)
       \/ /\ i.subj = None /\ i.pred = None /\ ~i.inObj
          /\ \E s, p : Yields(i.out, "triples", g, s, p, N)

\* With the subject s.
InSubject(i, g, s, N) ==
    /\ i \in Inserters /\ i.stmt = "DATA" /\ i.graph = g /\ i.subj = s
    /\ \/ Behind(i, N)
       \/ i.pred = None /\ ~i.inObj /\ \E p : Yields(i.out, "verb", g, s, p, N)

\* With the predicate p.
InPredicate(i, g, s, p, N) ==
    /\ i \in Inserters /\ i.stmt = "DATA" /\ i.graph = g /\ i.subj = s /\ i.pred = p
    /\ \/ Behind(i, N)
       \/ ~i.inObj /\ Yields(i.out, "object", g, s, p, N)

Inside(i) ==
    IF i.stmt = "DATA" THEN i
    ELSE [Emit(closeStatement(i, <<Token("semicolon")>>), Token("INSERT")) EXCEPT !.stmt = "DATA"]

AtGraph(a, g) ==
    IF a.graph = g THEN a
    ELSE [Emit(closeGraph(a), [k |-> "GRAPH", v |-> g]) EXCEPT !.graph = g]

AtSubject(b, s) ==
    IF b.subj = s THEN b ELSE [Emit(closeSubject(b), Term(s)) EXCEPT !.subj = s]

AtPredicate(c, p) ==
    IF c.pred = p THEN c ELSE [Emit(closePredicate(c), Term(p)) EXCEPT !.pred = p]

LEMMA InsideData ==
    ASSUME NEW i, NEW N, Writes(i, N)
    PROVE  /\ Inside(i) \in Inserters /\ Inside(i).stmt = "DATA"
           /\ \/ Behind(Inside(i), N)
              \/ /\ Inside(i).graph = None /\ Inside(i).subj = None
                 /\ Inside(i).pred = None /\ ~Inside(i).inObj
                 /\ \E g, s, p : Yields(Inside(i).out, "data", g, s, p, N)
<1>1. CASE Behind(i, N)
    BY <1>1 DEF Behind, Writes, Inside
<1>2. CASE i = NoInserter /\ N = {}
    <2>1. i \in Inserters /\ i.out = << >> /\ i.stmt = None /\ i.graph = None
          /\ i.subj = None /\ i.pred = None /\ ~i.inObj
        BY <1>2 DEF Writes, NoInserter
    <2>2. Yields(<< >>, "start", None, None, None, {})
        <3> SUFFICES ASSUME NEW Q, NEW R, NEW ts \in Seq(Tokens), Execute(Q, ts) = StartOf(R)
                     PROVE  Execute(Q, ts \o << >>) = At("start", None, None, None, R \cup {})
            BY DEF Yields
        <3>1. ts \o << >> = ts /\ R \cup {} = R
            OBVIOUS
        <3> QED
            BY <3>1 DEF StartOf
    <2>3. closeStatement(i, <<Token("semicolon")>>) = i
        BY <2>1, Separate DEF closeStatement
    <2> DEFINE e == Emit(i, Token("INSERT"))
    <2>4. /\ e \in Inserters /\ e.out = Append(<< >>, Token("INSERT"))
          /\ e.graph = None /\ e.subj = None /\ e.pred = None /\ ~e.inObj
        <3>1. Token("INSERT") \in Tokens
            BY TokensAre
        <3>2. /\ e \in Inserters /\ e.out = Append(i.out, Token("INSERT"))
              /\ e.graph = i.graph /\ e.subj = i.subj /\ e.pred = i.pred
              /\ e.inObj = i.inObj
            BY <2>1, <3>1, EmitIs
        <3> QED
            BY <2>1, <3>2
    <2>5. Inside(i) = [e EXCEPT !.stmt = "DATA"]
        BY <2>1, <2>3, Separate DEF Inside
    <2>6. Yields(Append(<< >>, Token("INSERT")), "data", None, None, None, {})
        <3>1. << >> \in Seq(Tokens) /\ Token("INSERT") \in Tokens
            BY TokensAre
        <3>2. \A R : ReadToken(At("start", None, None, None, R), Token("INSERT"))
                       = At("data", None, None, None, R)
            BY TokensRead
        <3> QED
            BY <2>2, <3>1, <3>2, YieldsSame
    <2> HIDE DEF e
    <2>7. /\ Inside(i) \in Inserters /\ Inside(i).stmt = "DATA" /\ Inside(i).out = e.out
          /\ Inside(i).graph = None /\ Inside(i).subj = None
          /\ Inside(i).pred = None /\ ~Inside(i).inObj
        BY <2>4, <2>5 DEF Inserters
    <2> QED
        BY <1>2, <2>4, <2>6, <2>7
<1> QED
    BY <1>1, <1>2 DEF Writes

LEMMA GraphOpened ==
    ASSUME NEW a \in Inserters, NEW N, NEW g \in Refs, a.stmt = "DATA",
           \/ Behind(a, N)
           \/ /\ a.graph = None /\ a.subj = None /\ a.pred = None /\ ~a.inObj
              /\ \E h, s, p : Yields(a.out, "data", h, s, p, N)
    PROVE  InGraph(AtGraph(a, g), g, N)
<1>1. CASE a.graph = g
    <2>1. g # None
        BY Separate
    <2> QED
        BY <1>1, <2>1 DEF AtGraph, InGraph
<1>2. CASE a.graph # g
    <2> DEFINE c == closeGraph(a)
    <2>1. /\ c \in Inserters /\ c.stmt = "DATA"
          /\ c.subj = None /\ c.pred = None /\ ~c.inObj
          /\ \E h, s, p : Yields(c.out, "data", h, s, p, N)
        <3>1. CASE Behind(a, N)
            <4> DEFINE e == Emit(a, Token("close"))
            <4>1. Token("close") \in Tokens
                BY TokensAre
            <4>2. e \in Inserters /\ e.out = Append(a.out, Token("close")) /\ e.stmt = "DATA"
                BY <4>1, EmitIs
            <4>3. \A R : ReadToken(At("after", a.graph, a.subj, a.pred, R), Token("close"))
                         = At("data", a.graph, a.subj, a.pred, R)
                BY TokensRead
            <4>4. a.out \in Seq(Tokens)
                BY DEF Inserters
            <4>5. Yields(e.out, "data", a.graph, a.subj, a.pred, N)
                BY <3>1, <4>1, <4>2, <4>3, <4>4, YieldsSame DEF Behind
            <4>6. c = [e EXCEPT !.graph = None, !.subj = None, !.pred = None, !.inObj = FALSE]
                BY <3>1 DEF closeGraph, Behind
            <4> HIDE DEF c, e
            <4>7. /\ c \in Inserters /\ c.stmt = "DATA" /\ c.out = e.out
                  /\ c.subj = None /\ c.pred = None /\ ~c.inObj
                BY <4>2, <4>6 DEF Inserters
            <4> QED
                BY <4>5, <4>7
        <3>2. CASE ~Behind(a, N)
            <4>1. c = a
                BY <3>2 DEF closeGraph
            <4> QED
                BY <3>2, <4>1
        <3> QED
            BY <3>1, <3>2
    <2> HIDE DEF c
    <2> DEFINE t == [k |-> "GRAPH", v |-> g]
               e == Emit(c, t)
    <2>2. t \in Tokens
        BY TermsAre DEF Terms
    <2>3. AtGraph(a, g) = [e EXCEPT !.graph = g]
        BY <1>2 DEF AtGraph, c
    <2>4. PICK h, s, p : Yields(c.out, "data", h, s, p, N)
        BY <2>1
    <2>5. \A R : ReadToken(At("data", h, s, p, R), t) = At("triples", g, s, p, R)
        BY GraphRead
    <2> HIDE DEF t
    <2>6. /\ e \in Inserters /\ e.out = Append(c.out, t) /\ e.stmt = "DATA"
          /\ e.subj = None /\ e.pred = None /\ ~e.inObj
        BY <2>1, <2>2, EmitIs
    <2>7. c.out \in Seq(Tokens)
        BY <2>1 DEF Inserters
    <2>8. Yields(e.out, "triples", g, s, p, N)
        BY <2>2, <2>4, <2>5, <2>6, <2>7, YieldsSame
    <2> HIDE DEF e
    <2>9. /\ AtGraph(a, g) \in Inserters /\ AtGraph(a, g).stmt = "DATA"
          /\ AtGraph(a, g).out = e.out /\ AtGraph(a, g).graph = g
          /\ AtGraph(a, g).subj = None /\ AtGraph(a, g).pred = None /\ ~AtGraph(a, g).inObj
        BY <2>3, <2>6 DEF Inserters
    <2> QED
        BY <2>8, <2>9 DEF InGraph
<1> QED
    BY <1>1, <1>2

LEMMA SubjectOpened ==
    ASSUME NEW b, NEW N, NEW g \in Refs, NEW s \in Refs, InGraph(b, g, N)
    PROVE  InSubject(AtSubject(b, s), g, s, N)
<1>0. b \in Inserters /\ b.stmt = "DATA" /\ b.graph = g
    BY DEF InGraph
<1>1. CASE b.subj = s
    <2>1. s # None
        BY Separate
    <2> QED
        BY <1>1, <2>1 DEF AtSubject, InSubject, InGraph
<1>2. CASE b.subj # s
    <2> DEFINE c == closeSubject(b)
    <2>1. /\ c \in Inserters /\ c.stmt = "DATA" /\ c.graph = g
          /\ c.pred = None /\ ~c.inObj
          /\ \E x, p : Yields(c.out, "triples", g, x, p, N)
        <3>1. CASE Behind(b, N)
            <4> DEFINE e == Emit(b, Token("dot"))
            <4>1. Token("dot") \in Tokens
                BY TokensAre
            <4>2. /\ e \in Inserters /\ e.out = Append(b.out, Token("dot"))
                  /\ e.stmt = "DATA" /\ e.graph = g
                BY <1>0, <4>1, EmitIs
            <4>3. \A R : ReadToken(At("after", b.graph, b.subj, b.pred, R), Token("dot"))
                         = At("triples", b.graph, b.subj, b.pred, R)
                BY TokensRead
            <4>4. b.out \in Seq(Tokens)
                BY <1>0 DEF Inserters
            <4>5. Yields(e.out, "triples", b.graph, b.subj, b.pred, N)
                BY <3>1, <4>1, <4>2, <4>3, <4>4, YieldsSame DEF Behind
            <4>6. c = [e EXCEPT !.subj = None, !.pred = None, !.inObj = FALSE]
                BY <3>1 DEF closeSubject, Behind
            <4> HIDE DEF c, e
            <4>7. /\ c \in Inserters /\ c.stmt = "DATA" /\ c.out = e.out /\ c.graph = g
                  /\ c.pred = None /\ ~c.inObj
                BY <4>2, <4>6 DEF Inserters
            <4> QED
                BY <1>0, <4>5, <4>7
        <3>2. CASE ~Behind(b, N)
            <4>1. c = b
                BY <3>2 DEF closeSubject, InGraph
            <4> QED
                BY <1>0, <3>2, <4>1 DEF InGraph
        <3> QED
            BY <3>1, <3>2
    <2> HIDE DEF c
    <2> DEFINE t == Term(s)
               e == Emit(c, t)
    <2>2. t \in Tokens
        BY TermsAre DEF Terms
    <2>3. AtSubject(b, s) = [e EXCEPT !.subj = s]
        BY <1>2 DEF AtSubject, c
    <2>4. PICK x, p : Yields(c.out, "triples", g, x, p, N)
        BY <2>1
    <2>5. \A R : ReadToken(At("triples", g, x, p, R), t) = At("verb", g, s, p, R)
        BY SubjectRead
    <2> HIDE DEF t
    <2>6. /\ e \in Inserters /\ e.out = Append(c.out, t) /\ e.stmt = "DATA"
          /\ e.graph = g /\ e.pred = None /\ ~e.inObj
        BY <2>1, <2>2, EmitIs
    <2>7. c.out \in Seq(Tokens)
        BY <2>1 DEF Inserters
    <2>8. Yields(e.out, "verb", g, s, p, N)
        BY <2>2, <2>4, <2>5, <2>6, <2>7, YieldsSame
    <2> HIDE DEF e
    <2>9. /\ AtSubject(b, s) \in Inserters /\ AtSubject(b, s).stmt = "DATA"
          /\ AtSubject(b, s).out = e.out /\ AtSubject(b, s).graph = g
          /\ AtSubject(b, s).subj = s /\ AtSubject(b, s).pred = None /\ ~AtSubject(b, s).inObj
        BY <2>3, <2>6 DEF Inserters
    <2> QED
        BY <2>8, <2>9 DEF InSubject
<1> QED
    BY <1>1, <1>2

LEMMA PredicateOpened ==
    ASSUME NEW c, NEW N, NEW g \in Refs, NEW s \in Refs, NEW p \in STRING,
           InSubject(c, g, s, N)
    PROVE  InPredicate(AtPredicate(c, p), g, s, p, N)
<1>0. c \in Inserters /\ c.stmt = "DATA" /\ c.graph = g /\ c.subj = s
    BY DEF InSubject
<1>1. CASE c.pred = p
    <2>1. p # None
        BY Separate
    <2> QED
        BY <1>1, <2>1 DEF AtPredicate, InPredicate, InSubject
<1>2. CASE c.pred # p
    <2> DEFINE d == closePredicate(c)
    <2>1. /\ d \in Inserters /\ d.stmt = "DATA" /\ d.graph = g /\ d.subj = s /\ ~d.inObj
          /\ \E x : Yields(d.out, "verb", g, s, x, N)
        <3>1. CASE Behind(c, N)
            <4> DEFINE e == Emit(c, Token("semicolon"))
            <4>1. Token("semicolon") \in Tokens
                BY TokensAre
            <4>2. /\ e \in Inserters /\ e.out = Append(c.out, Token("semicolon"))
                  /\ e.stmt = "DATA" /\ e.graph = g /\ e.subj = s
                BY <1>0, <4>1, EmitIs
            <4>3. \A R : ReadToken(At("after", c.graph, c.subj, c.pred, R), Token("semicolon"))
                         = At("verb", c.graph, c.subj, c.pred, R)
                BY TokensRead
            <4>4. c.out \in Seq(Tokens)
                BY <1>0 DEF Inserters
            <4>5. Yields(e.out, "verb", c.graph, c.subj, c.pred, N)
                BY <3>1, <4>1, <4>2, <4>3, <4>4, YieldsSame DEF Behind
            <4>6. d = [e EXCEPT !.pred = None, !.inObj = FALSE]
                BY <3>1 DEF closePredicate, Behind
            <4> HIDE DEF d, e
            <4>7. /\ d \in Inserters /\ d.stmt = "DATA" /\ d.out = e.out
                  /\ d.graph = g /\ d.subj = s /\ ~d.inObj
                BY <4>2, <4>6 DEF Inserters
            <4> QED
                BY <1>0, <4>5, <4>7
        <3>2. CASE ~Behind(c, N)
            <4>1. d = c
                BY <3>2 DEF closePredicate, InSubject
            <4> QED
                BY <1>0, <3>2, <4>1 DEF InSubject
        <3> QED
            BY <3>1, <3>2
    <2> HIDE DEF d
    <2> DEFINE t == Term(p)
               e == Emit(d, t)
    <2>2. t \in Tokens
        BY TermsAre DEF Terms
    <2>3. AtPredicate(c, p) = [e EXCEPT !.pred = p]
        BY <1>2 DEF AtPredicate, d
    <2>4. PICK x : Yields(d.out, "verb", g, s, x, N)
        BY <2>1
    <2>5. \A R : ReadToken(At("verb", g, s, x, R), t) = At("object", g, s, p, R)
        BY PredicateRead
    <2> HIDE DEF t
    <2>6. /\ e \in Inserters /\ e.out = Append(d.out, t) /\ e.stmt = "DATA"
          /\ e.graph = g /\ e.subj = s /\ ~e.inObj
        BY <2>1, <2>2, EmitIs
    <2>7. d.out \in Seq(Tokens)
        BY <2>1 DEF Inserters
    <2>8. Yields(e.out, "object", g, s, p, N)
        BY <2>2, <2>4, <2>5, <2>6, <2>7, YieldsSame
    <2> HIDE DEF e
    <2>9. /\ AtPredicate(c, p) \in Inserters /\ AtPredicate(c, p).stmt = "DATA"
          /\ AtPredicate(c, p).out = e.out /\ AtPredicate(c, p).graph = g
          /\ AtPredicate(c, p).subj = s /\ AtPredicate(c, p).pred = p
          /\ ~AtPredicate(c, p).inObj
        BY <2>3, <2>6 DEF Inserters
    <2> QED
        BY <2>8, <2>9 DEF InPredicate
<1> QED
    BY <1>1, <1>2

AtObject(d, o) == [Emit(closeObject(d), Term(o)) EXCEPT !.inObj = TRUE]

LEMMA ObjectAdded ==
    ASSUME NEW d, NEW N, NEW g \in Refs, NEW s \in Refs, NEW p \in STRING, NEW o \in Refs,
           InPredicate(d, g, s, p, N)
    PROVE  Writes(AtObject(d, o), N \cup {<<g, s, p, o>>})
<1>0. d \in Inserters /\ d.stmt = "DATA" /\ d.graph = g /\ d.subj = s /\ d.pred = p
    BY DEF InPredicate
<1> DEFINE c == closeObject(d)
<1>1. /\ c \in Inserters /\ c.stmt = "DATA" /\ c.graph = g /\ c.subj = s /\ c.pred = p
      /\ Yields(c.out, "object", g, s, p, N)
    <2>1. CASE d.inObj
        <3> DEFINE e == Emit(d, Token("comma"))
        <3>1. Token("comma") \in Tokens
            BY TokensAre
        <3>2. /\ e \in Inserters /\ e.out = Append(d.out, Token("comma"))
              /\ e.stmt = "DATA" /\ e.graph = g /\ e.subj = s /\ e.pred = p
            BY <1>0, <3>1, EmitIs
        <3>3. \A R : ReadToken(At("after", g, s, p, R), Token("comma")) = At("object", g, s, p, R)
            BY TokensRead
        <3>4. d.out \in Seq(Tokens) /\ Yields(d.out, "after", g, s, p, N)
            BY <1>0, <2>1 DEF Inserters, InPredicate, Behind
        <3>5. Yields(e.out, "object", g, s, p, N)
            BY <3>1, <3>2, <3>3, <3>4, YieldsSame
        <3>6. c = [e EXCEPT !.inObj = FALSE]
            BY <2>1 DEF closeObject
        <3> HIDE DEF c, e
        <3>7. /\ c \in Inserters /\ c.stmt = "DATA" /\ c.out = e.out
              /\ c.graph = g /\ c.subj = s /\ c.pred = p
            BY <3>2, <3>6 DEF Inserters
        <3> QED
            BY <3>5, <3>7
    <2>2. CASE ~d.inObj
        <3>1. c = d
            BY <2>2 DEF closeObject
        <3> QED
            BY <1>0, <2>2, <3>1 DEF InPredicate, Behind
    <2> QED
        BY <2>1, <2>2
<1> HIDE DEF c
<1> DEFINE t == Term(o)
           e == Emit(c, t)
           M == {<<g, s, p, o>>}
<1>2. t \in Tokens
    BY TermsAre DEF Terms
<1>3. AtObject(d, o) = [e EXCEPT !.inObj = TRUE]
    BY DEF AtObject, c
<1>4. \A R : ReadToken(At("object", g, s, p, R), t) = At("after", g, s, p, R \cup M)
    BY ObjectRead
<1> HIDE DEF t, M
<1>5. /\ e \in Inserters /\ e.out = Append(c.out, t) /\ e.stmt = "DATA"
      /\ e.graph = g /\ e.subj = s /\ e.pred = p
    BY <1>1, <1>2, EmitIs
<1>6. c.out \in Seq(Tokens)
    BY <1>1 DEF Inserters
<1>7. \A R : ReadToken(At("object", g, s, p, R \cup N), t) = At("after", g, s, p, (R \cup N) \cup M)
    BY <1>4
<1>8. Yields(e.out, "after", g, s, p, N \cup M)
    <2>1. Yields(Append(c.out, t), "after", g, s, p, N \cup M)
        <3> DEFINE text == c.out
        <3>1. text \in Seq(Tokens) /\ Yields(text, "object", g, s, p, N)
            BY <1>1, <1>6
        <3> HIDE DEF text
        <3>2. Yields(Append(text, t), "after", g, s, p, N \cup M)
            BY <1>2, <1>7, <3>1, YieldsOn
        <3> QED
            BY <3>2 DEF text
    <2> QED
        BY <1>5, <2>1
<1> HIDE DEF e
<1>9. /\ AtObject(d, o) \in Inserters /\ AtObject(d, o).stmt = "DATA"
      /\ AtObject(d, o).out = e.out /\ AtObject(d, o).graph = g
      /\ AtObject(d, o).subj = s /\ AtObject(d, o).pred = p /\ AtObject(d, o).inObj
    BY <1>3, <1>5 DEF Inserters
<1>10. g # None /\ s # None /\ p # None
    BY Separate
<1> QED
    BY <1>8, <1>9, <1>10 DEF Writes, Behind, M

LEMMA DataInserted ==
    ASSUME NEW i, NEW N, NEW g \in Refs, NEW s \in Refs, NEW p \in STRING, NEW o \in Refs,
           Writes(i, N)
    PROVE  Writes(insertData(i, s, p, o, g), N \cup {<<g, s, p, o>>})
<1> DEFINE a == Inside(i)
           b == AtGraph(a, g)
           c == AtSubject(b, s)
           d == AtPredicate(c, p)
<1>1. insertData(i, s, p, o, g) = AtObject(d, o)
    BY DEF insertData, Inside, AtGraph, AtSubject, AtPredicate, AtObject
<1>2. InGraph(b, g, N)
    BY InsideData, GraphOpened
<1> HIDE DEF b
<1>3. InSubject(c, g, s, N)
    BY <1>2, SubjectOpened
<1> HIDE DEF c
<1>4. InPredicate(d, g, s, p, N)
    BY <1>3, PredicateOpened
<1> HIDE DEF d
<1>5. Writes(AtObject(d, o), N \cup {<<g, s, p, o>>})
    BY <1>4, ObjectAdded
<1> QED
    BY <1>1, <1>5

-----------------------------------------------------------------------------
(* The inserter of DROPs, and the Update *)

Without(Q, D) == {q \in Q : q[1] \notin D}

Drops(d, D) ==
    /\ d \in Inserters
    /\ \/ d = NoInserter /\ D = {}
       \/ /\ d.stmt = "DROP" /\ d.out # << >>
          /\ \A Q : Execute(Q, d.out) = At("end", None, None, None, Without(Q, D))

LEMMA GraphDropped ==
    ASSUME NEW d, NEW D, NEW u \in Refs, Drops(d, D)
    PROVE  Drops(deleteGraph(d, u), D \cup {u})
<1> DEFINE c == closeStatement(d, <<Token("semicolon")>>)
           t == [k |-> "DROP", v |-> u]
           e == Emit(c, t)
           W == D \cup {u}
<1>0. t \in Tokens
    BY TermsAre DEF Terms
<1>1. c \in Inserters /\ \A Q : Execute(Q, c.out) = StartOf(Without(Q, D))
    <2>1. CASE d = NoInserter /\ D = {}
        <3>1. d.stmt = None /\ d.out = << >>
            BY <2>1 DEF NoInserter
        <3>2. c = d
            BY <3>1, Separate DEF closeStatement
        <3>3. \A Q : Without(Q, D) = Q
            BY <2>1 DEF Without
        <3>4. \A Q : Execute(Q, << >>) = StartOf(Q)
            BY ReadsNothing
        <3>5. c.out = << >>
            BY <3>1, <3>2
        <3> HIDE DEF c
        <3>6. \A Q : Execute(Q, c.out) = StartOf(Without(Q, D))
            BY <3>3, <3>4, <3>5
        <3> QED
            BY <3>2, <3>6 DEF Drops
    <2>2. CASE /\ d.stmt = "DROP"
               /\ \A Q : Execute(Q, d.out) = At("end", None, None, None, Without(Q, D))
        <3> DEFINE x == Token("semicolon")
                   text == d.out
        <3>1. text \in Seq(Tokens) /\ x \in Tokens /\ d \in Inserters
            BY TokensAre DEF Drops, Inserters
        <3>2. c = [d EXCEPT !.out = @ \o <<x>>, !.stmt = None]
            BY <2>2, Separate DEF closeStatement
        <3> HIDE DEF x
        <3>3. text \o <<x>> = Append(text, x) /\ Append(text, x) \in Seq(Tokens)
            BY <3>1
        <3>4. c.out = Append(text, x) /\ c \in Inserters
            <4> DEFINE y == Append(text, x)
            <4>1. c = [d EXCEPT !.out = y, !.stmt = None]
                BY <3>2, <3>3
            <4>2. y \in Seq(Tokens)
                BY <3>3
            <4> HIDE DEF c, y
            <4>3. c.out = y /\ c \in Inserters
                BY <3>1, <4>1, <4>2 DEF Inserters
            <4> QED
                BY <4>3 DEF y
        <3> HIDE DEF c
        <3>5. ASSUME NEW Q
              PROVE  Execute(Q, c.out) = StartOf(Without(Q, D))
            <4>1. Execute(Q, text) = At("end", None, None, None, Without(Q, D))
                BY <2>2
            <4> HIDE DEF text
            <4>2. Execute(Q, Append(text, x)) = ReadToken(Execute(Q, text), x)
                BY <3>1, ReadsOn
            <4>3. ReadToken(At("end", None, None, None, Without(Q, D)), x)
                  = At("start", None, None, None, Without(Q, D))
                BY TokensRead DEF x
            <4> QED
                BY <3>4, <4>1, <4>2, <4>3 DEF StartOf
        <3> QED
            BY <3>4, <3>5
    <2> QED
        BY <2>1, <2>2 DEF Drops
<1>2. deleteGraph(d, u) = [e EXCEPT !.stmt = "DROP"]
    BY DEF deleteGraph
<1> HIDE DEF c
<1>3. c.out \in Seq(Tokens)
    BY <1>1 DEF Inserters
<1> HIDE DEF t
<1>4. e \in Inserters /\ e.out = Append(c.out, t)
    BY <1>0, <1>1, EmitIs
<1> HIDE DEF e
<1>5. /\ deleteGraph(d, u) \in Inserters /\ deleteGraph(d, u).stmt = "DROP"
      /\ deleteGraph(d, u).out = Append(c.out, t)
    BY <1>2, <1>4 DEF Inserters
<1>6. ASSUME NEW Q
      PROVE  Execute(Q, Append(c.out, t)) = At("end", None, None, None, Without(Q, W))
    <2>1. Execute(Q, Append(c.out, t)) = ReadToken(Execute(Q, c.out), t)
        BY <1>0, <1>3, ReadsOn
    <2>2. Execute(Q, c.out) = At("start", None, None, None, Without(Q, D))
        BY <1>1 DEF StartOf
    <2> DEFINE V == Without(Q, D)
    <2>3. ReadToken(At("start", None, None, None, V), t)
          = At("end", None, None, None, {q \in V : q[1] # u})
        BY DropRead DEF t
    <2>4. {q \in V : q[1] # u} = Without(Q, W)
        BY DEF Without
    <2> QED
        BY <2>1, <2>2, <2>3, <2>4
<1>7. Append(c.out, t) # << >>
    BY <1>3
<1> HIDE DEF W
<1> QED
    BY <1>5, <1>6, <1>7 DEF Drops, W

\* The end of the inserter of data.
LEMMA DataEnds ==
    ASSUME NEW i, NEW N, Writes(i, N)
    PROVE  /\ terminate(i) \in Seq(Tokens)
           /\ \A Q, R : \A ts \in Seq(Tokens) :
                 Execute(Q, ts) = StartOf(R) =>
                    /\ Legal(Execute(Q, ts \o terminate(i)))
                    /\ Execute(Q, ts \o terminate(i)).quads = R \cup N
<1>1. CASE i = NoInserter /\ N = {}
    <2>1. terminate(i) = << >>
        <3>1. i.stmt = None /\ i.out = << >>
            BY <1>1 DEF NoInserter
        <3> QED
            BY <3>1, Separate DEF terminate, closeStatement
    <2> SUFFICES ASSUME NEW Q, NEW R, NEW ts \in Seq(Tokens), Execute(Q, ts) = StartOf(R)
                 PROVE  Legal(Execute(Q, ts)) /\ Execute(Q, ts).quads = R \cup N
        <3>1. \A ts \in Seq(Tokens) : ts \o << >> = ts
            OBVIOUS
        <3>2. << >> \in Seq(Tokens)
            OBVIOUS
        <3> QED
            BY <2>1, <3>1, <3>2
    <2> QED
        BY <1>1 DEF StartOf, At, Legal
<1>2. CASE Behind(i, N)
    <2> DEFINE x == Token("close")
               e == Emit(i, x)
               c == closeGraph(i)
               f == Emit(c, x)
    <2>0. x \in Tokens /\ i \in Inserters
        BY TokensAre DEF Writes
    <2>1. i.out \in Seq(Tokens) /\ Yields(i.out, "after", i.graph, i.subj, i.pred, N)
        BY <1>2, <2>0 DEF Inserters, Behind
    <2>2. /\ \A R : ReadToken(At("after", i.graph, i.subj, i.pred, R), x)
                    = At("data", i.graph, i.subj, i.pred, R)
          /\ \A R : ReadToken(At("data", i.graph, i.subj, i.pred, R), x)
                    = At("end", i.graph, i.subj, i.pred, R)
        BY TokensRead
    <2>3. c = [e EXCEPT !.graph = None, !.subj = None, !.pred = None, !.inObj = FALSE]
        BY <1>2 DEF closeGraph, Behind
    <2>4. terminate(i) = f.out \o << >>
        <3>1. closeStatement(i, << >>) = [f EXCEPT !.out = @ \o << >>, !.stmt = None]
            BY <1>2, Separate DEF closeStatement, Behind
        <3>2. f.out = Append(c.out, x) /\ f = [c EXCEPT !.out = Append(@, x)]
            BY DEF Emit
        <3> HIDE DEF f
        <3>3. [f EXCEPT !.out = @ \o << >>, !.stmt = None].out = f.out \o << >>
            <4>1. f \in Inserters
                <5>1. e \in Inserters
                    BY <2>0, EmitIs
                <5> HIDE DEF c, e
                <5>2. c \in Inserters
                    BY <2>3, <5>1 DEF Inserters
                <5> QED
                    BY <2>0, <5>2, EmitIs DEF f
            <4> QED
                BY <4>1 DEF Inserters
        <3> QED
            BY <3>1, <3>3 DEF terminate
    <2> HIDE DEF x
    <2>5. e \in Inserters /\ e.out = Append(i.out, x)
        BY <2>0, EmitIs
    <2> HIDE DEF e
    <2>6. c \in Inserters /\ c.out = e.out
        BY <2>3, <2>5 DEF Inserters
    <2> HIDE DEF c
    <2>7. f.out = Append(c.out, x)
        BY <2>0, <2>6, EmitIs
    <2> HIDE DEF f
    <2>8. c.out \in Seq(Tokens) /\ Yields(c.out, "data", i.graph, i.subj, i.pred, N)
        <3>1. Yields(Append(i.out, x), "data", i.graph, i.subj, i.pred, N)
            BY <2>0, <2>1, <2>2, YieldsSame
        <3>2. c.out = Append(i.out, x) /\ c.out \in Seq(Tokens)
            BY <2>5, <2>6 DEF Inserters
        <3> QED
            BY <3>1, <3>2
    <2>9. f.out \in Seq(Tokens) /\ Yields(f.out, "end", i.graph, i.subj, i.pred, N)
        <3>1. Yields(Append(c.out, x), "end", i.graph, i.subj, i.pred, N)
            BY <2>0, <2>2, <2>8, YieldsSame
        <3>2. f.out \in Seq(Tokens)
            BY <2>0, <2>7, <2>8
        <3> QED
            BY <2>7, <3>1, <3>2
    <2>10. terminate(i) = f.out
        BY <2>4, <2>9
    <2> SUFFICES ASSUME NEW Q, NEW R, NEW ts \in Seq(Tokens), Execute(Q, ts) = StartOf(R)
                 PROVE  /\ Legal(Execute(Q, ts \o f.out))
                        /\ Execute(Q, ts \o f.out).quads = R \cup N
        BY <2>9, <2>10
    <2>11. Execute(Q, ts \o f.out) = At("end", i.graph, i.subj, i.pred, R \cup N)
        BY <2>9 DEF Yields
    <2> QED
        BY <2>11 DEF At, Legal
<1> QED
    BY <1>1, <1>2 DEF Writes

\* What makeStatements returns drops the graphs D and then adds the quads N.
LEMMA UpdateDoes ==
    ASSUME NEW D, NEW N, NEW Q, Drops(drop, D), Writes(ins, N)
    PROVE  /\ Legal(Execute(Q, Statements))
           /\ Execute(Q, Statements).quads = Without(Q, D) \cup N
<1> DEFINE x == Token("semicolon")
           u == terminate(ins)
<1>0. x \in Tokens /\ u \in Seq(Tokens) /\ drop \in Inserters
    BY TokensAre, DataEnds DEF Drops
<1>1. PICK ts \in Seq(Tokens) :
         Statements = ts \o u /\ Execute(Q, ts) = StartOf(Without(Q, D))
    <2>1. CASE drop = NoInserter /\ D = {}
        <3>1. drop.stmt = None /\ drop.out = << >>
            BY <2>1 DEF NoInserter
        <3>2. terminate(drop) = << >>
            BY <3>1, Separate DEF terminate, closeStatement
        <3>3. Statements = (<< >> \o << >>) \o u
            BY <3>2 DEF Statements
        <3>4. << >> \o << >> = << >> /\ << >> \in Seq(Tokens)
            OBVIOUS
        <3>5. Without(Q, D) = Q
            BY <2>1 DEF Without
        <3>6. Execute(Q, << >>) = StartOf(Q)
            BY ReadsNothing
        <3> QED
            BY <3>3, <3>4, <3>5, <3>6
    <2>2. CASE /\ drop.stmt = "DROP" /\ drop.out # << >>
               /\ Execute(Q, drop.out) = At("end", None, None, None, Without(Q, D))
        <3> DEFINE text == drop.out
        <3>1. text \in Seq(Tokens) /\ text # << >>
            BY <1>0, <2>2 DEF Inserters
        <3>2. terminate(drop) = text
            <4>1. closeStatement(drop, << >>) = [drop EXCEPT !.out = @ \o << >>, !.stmt = None]
                BY <2>2, Separate DEF closeStatement
            <4>2. text \o << >> = text
                BY <3>1
            <4>3. closeStatement(drop, << >>) = [drop EXCEPT !.out = text, !.stmt = None]
                BY <4>1, <4>2
            <4> HIDE DEF text
            <4>4. closeStatement(drop, << >>).out = text
                BY <1>0, <4>3 DEF Inserters
            <4> QED
                BY <4>4 DEF terminate
        <3> HIDE DEF x
        <3>3. Statements = (text \o <<x>>) \o u
            BY <3>1, <3>2 DEF Statements, x
        <3>4. text \o <<x>> = Append(text, x) /\ Append(text, x) \in Seq(Tokens)
            BY <1>0, <3>1
        <3>5. Execute(Q, text) = At("end", None, None, None, Without(Q, D))
            BY <2>2
        <3> HIDE DEF text
        <3>6. Execute(Q, Append(text, x)) = ReadToken(Execute(Q, text), x)
            BY <1>0, <3>1, ReadsOn
        <3>7. ReadToken(At("end", None, None, None, Without(Q, D)), x)
              = At("start", None, None, None, Without(Q, D))
            BY TokensRead DEF x
        <3>8. Execute(Q, Append(text, x)) = StartOf(Without(Q, D))
            BY <3>5, <3>6, <3>7 DEF StartOf
        <3> QED
            BY <3>3, <3>4, <3>8
    <2> QED
        BY <2>1, <2>2 DEF Drops
<1> QED
    BY <1>1, DataEnds

-----------------------------------------------------------------------------
(* References *)

\* For any set: the provers treat STRING in a way of their own.
LEMMA SeqFacts ==
    ASSUME NEW S
    PROVE  /\ << >> \in Seq(S)
           /\ \A x \in S : <<x>> \in Seq(S)
           /\ \A x, y \in S : <<x, y>> \in Seq(S)
           /\ \A w \in Seq(S) : \A x \in S : Append(w, x) \in Seq(S)
           /\ \A w, x \in Seq(S) : w \o x \in Seq(S)
           /\ \A w \in Seq(S) : w # << >> => Tail(w) \in Seq(S)
OBVIOUS

LEMMA FrontIs ==
    ASSUME NEW w \in Refs
    PROVE  Front(w) \in Refs
<1>1. Len(w) \in Nat /\ w \in Seq(STRING)
    BY DEF Refs
<1>2. \A k \in 1 .. Len(w) - 1 : w[k] \in STRING
    BY <1>1
<1>3. SubSeq(w, 1, Len(w) - 1) \in Seq(STRING)
    BY <1>1, <1>2, SubSeqProperties
<1> QED
    BY <1>3 DEF Front, Refs

LEMMA SubSeqNext ==
    ASSUME NEW S, NEW w \in Seq(S), NEW j \in Nat, j + 1 <= Len(w)
    PROVE  Append(SubSeq(w, 1, j), w[j + 1]) = SubSeq(w, 1, j + 1)
<1> DEFINE a == SubSeq(w, 1, j)
           b == SubSeq(w, 1, j + 1)
           x == w[j + 1]
<1>1. a \in Seq(S) /\ Len(a) = j /\ \A i \in 1 .. j : a[i] = w[i]
    OBVIOUS
<1>2. b \in Seq(S) /\ Len(b) = j + 1 /\ \A i \in 1 .. j + 1 : b[i] = w[i]
    OBVIOUS
<1>3. x \in S
    OBVIOUS
<1> HIDE DEF a, b
<1>4. Append(a, x) \in Seq(S) /\ Len(Append(a, x)) = j + 1
    BY <1>1, <1>3
<1>5. \A i \in 1 .. j + 1 : Append(a, x)[i] = b[i]
    BY <1>1, <1>2, <1>3
<1> HIDE DEF x
<1>6. Append(a, x) = b
    BY <1>2, <1>4, <1>5, SeqEqual
<1> QED
    BY <1>6 DEF a, b, x

\* What the loop of Clean goes through.
LEMMA CleanLoop ==
    ASSUME NEW path \in Refs
    PROVE  \E loop :
              /\ loop[0] = << >>
              /\ \A n \in 1 .. Len(path) : loop[n] = Up(loop[n - 1], path[n])
              /\ Clean(path) = loop[Len(path)]
                                \o (IF path # << >> /\ Last(path) = Dots THEN <<Empty>> ELSE << >>)
<1> DEFINE N == Len(path)
           Row(f, n) == IF n = 0 THEN << >> ELSE Up(f[n - 1], path[n])
           loop == CHOOSE f : f = [n \in 0 .. N |-> Row(f, n)]
           step == [x \in Refs \X STRING |-> Up(x[1], x[2])]
           tail == IF path # << >> /\ Last(path) = Dots THEN <<Empty>> ELSE << >>
<1>1. Clean(path) = loop[N] \o tail
    BY Zenon DEF Clean
<1>2. << >> \in Refs
    BY SeqFacts DEF Refs
<1> HIDE DEF tail
<1>3. step \in [Refs \X STRING -> Refs]
    <2> SUFFICES ASSUME NEW w \in Refs, NEW z \in STRING
                 PROVE  Up(w, z) \in Refs
        OBVIOUS
    <2>1. Append(w, z) \in Refs
        BY SeqFacts DEF Refs
    <2>2. Front(w) \in Refs
        BY FrontIs
    <2> QED
        BY <1>2, <2>1, <2>2 DEF Up
<1>4. N \in Nat /\ \A n \in 1 .. N : path[n] \in STRING
    BY DEF Refs
<1>5. PICK f \in [0 .. N -> Refs] : Runs(f, << >>, step, path, N)
    <2>1. path \in Seq(STRING)
        BY DEF Refs
    <2> HIDE DEF step
    <2> QED
        BY <1>2, <1>3, <2>1, LoopRuns
<1> HIDE DEF N
<1>6. ASSUME NEW n \in 0 .. N
      PROVE  f[n] = Row(f, n)
    <2>1. CASE n = 0
        BY <1>5, <2>1 DEF Runs
    <2>2. CASE n # 0
        <3>1. n \in 1 .. N /\ n - 1 \in 0 .. N
            BY <1>4, <2>2
        <3>2. f[n] = step[<<f[n - 1], path[n]>>]
            BY <1>5, <3>1 DEF Runs
        <3>3. f[n - 1] \in Refs /\ path[n] \in STRING
            BY <1>4, <1>5, <3>1
        <3> QED
            BY <2>2, <3>2, <3>3
    <2> QED
        BY <2>1, <2>2
<1> HIDE DEF Row
<1>7. f = [n \in 0 .. N |-> Row(f, n)]
    BY <1>5, <1>6
<1>8. loop = [n \in 0 .. N |-> Row(loop, n)]
    BY <1>7
<1> HIDE DEF loop
<1>9. \A n \in 0 .. N : loop[n] = Row(loop, n)
    BY <1>8
<1>10. loop[0] = << >>
    <2>1. 0 \in 0 .. N
        BY <1>4
    <2>2. loop[0] = Row(loop, 0)
        BY <1>9, <2>1
    <2> QED
        BY <2>2 DEF Row
<1>11. ASSUME NEW n \in 1 .. N
       PROVE  loop[n] = Up(loop[n - 1], path[n])
    BY <1>4, <1>9 DEF Row
<1> QED
    BY <1>1, <1>10, <1>11 DEF N, tail

LEMMA CleanIs ==
    ASSUME NEW path \in Refs
    PROVE  Clean(path) \in Refs
<1> DEFINE N == Len(path)
           tail == IF path # << >> /\ Last(path) = Dots THEN <<Empty>> ELSE << >>
<1>1. PICK loop : /\ loop[0] = << >>
                  /\ \A n \in 1 .. N : loop[n] = Up(loop[n - 1], path[n])
                  /\ Clean(path) = loop[N] \o tail
    BY CleanLoop
<1>2. tail \in Refs /\ << >> \in Refs
    <2>1. Empty \in STRING
        BY NoneAssumption
    <2>2. <<Empty>> \in Refs /\ << >> \in Refs
        BY <2>1, SeqFacts DEF Refs
    <2> QED
        BY <2>2
<1> HIDE DEF tail
<1>3. ASSUME NEW w \in Refs, NEW z \in STRING
      PROVE  Up(w, z) \in Refs
    <2>1. Append(w, z) \in Refs
        BY SeqFacts DEF Refs
    <2>2. Front(w) \in Refs
        BY FrontIs
    <2> QED
        BY <1>2, <2>1, <2>2 DEF Up
<1>4. N \in Nat /\ \A n \in 1 .. N : path[n] \in STRING
    BY DEF Refs
<1> DEFINE X == {j \in 0 .. N : loop[j] \notin Refs}
<1> HIDE DEF N
<1>5. ASSUME NEW n \in X, \A m \in X : n <= m
      PROVE  FALSE
    <2>1. n \in 0 .. N /\ n \in Nat /\ loop[n] \notin Refs
        BY <1>4
    <2>2. n # 0
        BY <1>1, <1>2, <2>1
    <2>3. PICK j \in 0 .. N : j = n - 1 /\ j < n
        BY <1>4, <2>1, <2>2
    <2>4. loop[j] \in Refs
        <3>1. ~(n <= j)
            BY <2>1, <2>3
        <3> QED
            BY <1>5, <2>3, <3>1
    <2>5. n \in 1 .. N /\ path[n] \in STRING
        BY <1>4, <2>1, <2>2
    <2>6. loop[n] = Up(loop[j], path[n])
        BY <1>1, <2>3, <2>5
    <2> QED
        BY <1>3, <2>1, <2>4, <2>5, <2>6
<1>6. X = {}
    <2>1. X \in SUBSET Nat
        OBVIOUS
    <2> HIDE DEF X
    <2> QED
        BY <1>5, <2>1, LeastNatural
<1>7. loop[N] \in Refs
    BY <1>4, <1>6
<1> QED
    BY <1>1, <1>2, <1>7, SeqFacts DEF Refs

\* Nothing is cleaned of a path without "..".
LEMMA CleanSame ==
    ASSUME NEW path \in Refs, \A i \in DOMAIN path : path[i] # Dots, path # << >>
    PROVE  Clean(path) = path
<1> DEFINE N == Len(path)
           tail == IF path # << >> /\ Last(path) = Dots THEN <<Empty>> ELSE << >>
<1>1. PICK loop : /\ loop[0] = << >>
                  /\ \A n \in 1 .. N : loop[n] = Up(loop[n - 1], path[n])
                  /\ Clean(path) = loop[N] \o tail
    BY CleanLoop
<1>2. path \in Seq(STRING) /\ N \in Nat \ {0} /\ DOMAIN path = 1 .. N
    BY DEF Refs
<1>3. tail = << >>
    <2>1. N \in DOMAIN path
        BY <1>2
    <2> QED
        BY <2>1 DEF Last
<1> HIDE DEF N, tail
<1> DEFINE Y == {j \in 0 .. N : loop[j] # SubSeq(path, 1, j)}
<1>4. ASSUME NEW n \in Y, \A m \in Y : n <= m
      PROVE  FALSE
    <2>1. n \in 0 .. N /\ n \in Nat /\ loop[n] # SubSeq(path, 1, n)
        BY <1>2
    <2>2. n # 0
        <3>1. SubSeq(path, 1, 0) = << >>
            BY <1>2
        <3> QED
            BY <1>1, <2>1, <3>1
    <2>3. PICK j \in 0 .. N : j = n - 1 /\ j < n /\ n = j + 1
        BY <1>2, <2>1, <2>2
    <2>4. loop[j] = SubSeq(path, 1, j)
        <3>1. ~(n <= j)
            BY <2>1, <2>3
        <3> QED
            BY <1>4, <2>3, <3>1
    <2>5. n \in 1 .. N /\ path[n] # Dots
        BY <1>2, <2>1, <2>2
    <2>6. loop[n] = Append(SubSeq(path, 1, j), path[n])
        BY <1>1, <2>3, <2>4, <2>5 DEF Up
    <2>7. Append(SubSeq(path, 1, j), path[n]) = SubSeq(path, 1, n)
        BY <1>2, <2>3, <2>5, SubSeqNext DEF N
    <2> QED
        BY <2>1, <2>6, <2>7
<1>5. Y = {}
    <2>1. Y \in SUBSET Nat
        OBVIOUS
    <2> HIDE DEF Y
    <2> QED
        BY <1>4, <2>1, LeastNatural
<1>6. loop[N] = SubSeq(path, 1, N)
    BY <1>2, <1>5
<1>7. SubSeq(path, 1, N) = path /\ path \o << >> = path
    BY <1>2 DEF N
<1> QED
    BY <1>1, <1>3, <1>6, <1>7

\* A segment in front of a path.
LEMMA InFront ==
    ASSUME NEW S, NEW x \in S, NEW w \in Seq(S)
    PROVE  /\ <<x>> \o w \in Seq(S) /\ Len(<<x>> \o w) = 1 + Len(w)
           /\ <<x>> \o w # <<>> /\ (<<x>> \o w)[1] = x
           /\ \A i \in 1 .. Len(w) : (<<x>> \o w)[i + 1] = w[i]
<1>1. <<x>> \in Seq(S) /\ Len(<<x>>) = 1 /\ Len(w) \in Nat
    OBVIOUS
<1>2. <<x>> \o w \in Seq(S) /\ Len(<<x>> \o w) = 1 + Len(w)
    BY <1>1
<1>3. <<x>> \o w # <<>>
    BY <1>1, <1>2
<1>4. (<<x>> \o w)[1] = x /\ \A i \in 1 .. Len(w) : (<<x>> \o w)[i + 1] = w[i]
    BY <1>1
<1> QED
    BY <1>2, <1>3, <1>4

LEMMA ResolveIs ==
    ASSUME NEW b \in Refs \ {<<>>}, NEW r \in Refs
    PROVE  Resolve(b, r) \in Refs \ {<<>>} /\ IRIRelLiteral(b, r) \in Refs
<1>1. \A w \in Refs \ {<<>>} : Tail(w) \in Refs /\ Head(w) \in STRING
    BY DEF Refs
<1>2. Front(Tail(b)) \o r \in Refs
    <2>1. Front(Tail(b)) \in Refs
        BY <1>1, FrontIs
    <2> QED
        BY <2>1 DEF Refs
<1>3. Clean(Front(Tail(b)) \o r) \in Refs
    BY <1>2, CleanIs
<1>4. r # << >> => Clean(Tail(r)) \in Refs
    BY <1>1, CleanIs
<1>5. ASSUME NEW x \in STRING, NEW w \in Refs
      PROVE  <<x>> \o w \in Refs \ {<<>>}
    <2>1. w \in Seq(STRING)
        BY DEF Refs
    <2>2. <<x>> \o w \in Seq(STRING) /\ <<x>> \o w # <<>>
        BY <2>1, InFront
    <2> QED
        BY <2>2 DEF Refs
<1>6. Resolve(b, r) \in Refs \ {<<>>}
    <2>1. CASE r = <<>> \/ Head(r) \in Opaque
        BY <2>1 DEF Resolve
    <2>2. CASE r # <<>> /\ Head(r) \notin Opaque /\ Head(r) \in Hosts
        BY <1>1, <1>4, <1>5, <2>2 DEF Resolve
    <2>3. CASE r # <<>> /\ Head(r) \notin Opaque /\ Head(r) \notin Hosts
        <3>1. Head(b) \in STRING
            BY <1>1
        <3>2. Resolve(b, r) = <<Head(b)>> \o
                 Clean(IF Head(r) = Slash THEN Tail(r) ELSE Front(Tail(b)) \o r)
            BY <2>3 DEF Resolve
        <3>3. CASE Head(r) = Slash
            <4>1. Resolve(b, r) = <<Head(b)>> \o Clean(Tail(r))
                BY <3>2, <3>3
            <4> QED
                BY <1>4, <1>5, <2>3, <3>1, <4>1
        <3>4. CASE Head(r) # Slash
            <4>1. Resolve(b, r) = <<Head(b)>> \o Clean(Front(Tail(b)) \o r)
                BY <3>2, <3>4
            <4> QED
                BY <1>3, <1>5, <3>1, <4>1
        <3> QED
            BY <3>3, <3>4
    <2> QED
        BY <2>1, <2>2, <2>3
<1> QED
    BY <1>6 DEF IRIRelLiteral

LEMMA AsReadIs ==
    ASSUME NEW st \in AllStatements
    PROVE  AsRead(st) \in AllStatements
<1> DEFINE Seg(x) == IF x \in DOMAIN Misread THEN Misread[x] ELSE x
           Iri(r) == IF r = None THEN None ELSE [i \in DOMAIN r |-> Seg(r[i])]
<1>1. ASSUME NEW r \in Refs
      PROVE  Iri(r) \in Refs
    <2>1. \A x \in STRING : Seg(x) \in STRING
        BY NamesAssumption
    <2> HIDE DEF Seg
    <2>2. Len(r) \in Nat /\ DOMAIN r = 1 .. Len(r) /\ \A i \in DOMAIN r : r[i] \in STRING
        BY DEF Refs
    <2> DEFINE f == [i \in 1 .. Len(r) |-> Seg(r[i])]
    <2>3. f \in [1 .. Len(r) -> STRING]
        BY <2>1, <2>2
    <2>4. Iri(r) = f
        BY <2>2, Separate
    <2> HIDE DEF f, Iri
    <2>5. f \in Seq(STRING)
        BY <2>2, <2>3
    <2> QED
        BY <2>4, <2>5 DEF Refs
<1>2. Iri(st.s) \in Refs /\ Iri(st.o) \in Refs /\ Iri(st.g) \in Refs \cup {None}
    <2>1. st.s \in Refs /\ st.o \in Refs /\ st.g \in Refs \cup {None}
        BY DEF AllStatements
    <2>2. Iri(None) = None
        OBVIOUS
    <2> HIDE DEF Iri
    <2> QED
        BY <1>1, <2>1, <2>2
<1>3. AsRead(st) = [st EXCEPT !.s = Iri(@), !.g = Iri(@), !.o = IF st.lit THEN @ ELSE Iri(@)]
    BY Zenon DEF AsRead
<1> HIDE DEF Iri
<1> QED
    BY <1>2, <1>3 DEF AllStatements

-----------------------------------------------------------------------------
(* What makeStatements has made of the first n statements of G, for b *)

ReadAt(G, i) == AsRead(G[i])
Aim(G, b, i) == Resolve(b, RelUri(ReadAt(G, i)))

\* Accepted, by position.
Taken(G, b, i) ==
    /\ Registers(ReadAt(G, i)) /\ Parses(RelUri(ReadAt(G, i)))
    /\ isSubUrl(b, Aim(G, b, i))

\* The statements before i that register its graph; the last one counts.
Placing(G, b, i) == {j \in 1 .. i - 1 : Taken(G, b, j) /\ ReadAt(G, j).s = ReadAt(G, i).g}

Quad(G, b, i) ==
    <<Aim(G, b, Max(Placing(G, b, i))), IRIRelLiteral(b, ReadAt(G, i).s),
      ReadAt(G, i).p, Object(b, ReadAt(G, i))>>

Targets(G, b, n) == {Aim(G, b, j) : j \in {k \in 1 .. n : Taken(G, b, k)}}
Quads(G, b, n) == {Quad(G, b, j) : j \in {k \in 1 .. n : Placing(G, b, k) # {}}}

LastFor(G, b, g, j, n) ==
    /\ j \in 1 .. n /\ Taken(G, b, j) /\ ReadAt(G, j).s = g
    /\ \A k \in 1 .. n : Taken(G, b, k) /\ ReadAt(G, k).s = g => k <= j

RelOK(G, b, rl, n) ==
    /\ \A k \in 1 .. n : Taken(G, b, k) => ReadAt(G, k).s \in DOMAIN rl
    /\ \A g \in DOMAIN rl : \E j : LastFor(G, b, g, j, n) /\ rl[g] = Aim(G, b, j)

Made(G, b, rl, d, i, n) ==
    RelOK(G, b, rl, n) /\ Drops(d, Targets(G, b, n)) /\ Writes(i, Quads(G, b, n))

LEMMA StatementIs ==
    ASSUME NEW G \in Seq(AllStatements), NEW b \in Refs \ {<<>>}, NEW i \in 1 .. Len(G)
    PROVE  /\ ReadAt(G, i) \in AllStatements
           /\ ReadAt(G, i).s \in Refs /\ ReadAt(G, i).p \in STRING
           /\ ReadAt(G, i).g \in Refs \cup {None}
           /\ Aim(G, b, i) \in Refs \ {<<>>}
           /\ IRIRelLiteral(b, ReadAt(G, i).s) \in Refs
           /\ Object(b, ReadAt(G, i)) \in Refs
<1> DEFINE st == ReadAt(G, i)
<1>1. st \in AllStatements
    <2>1. G[i] \in AllStatements
        OBVIOUS
    <2> QED
        BY <2>1, AsReadIs DEF ReadAt
<1> HIDE DEF st
<1>2. st.s \in Refs /\ st.p \in STRING /\ st.g \in Refs \cup {None} /\ st.o \in Refs
    BY <1>1 DEF AllStatements
<1>3. RelUri(st) \in Refs
    <2>1. << >> \in Refs
        BY SeqFacts DEF Refs
    <2> QED
        BY <1>2, <2>1 DEF RelUri
<1>4. Resolve(b, RelUri(st)) \in Refs \ {<<>>}
    BY <1>3, ResolveIs
<1>5. IRIRelLiteral(b, st.s) \in Refs /\ IRIRelLiteral(b, st.o) \in Refs
    BY <1>2, ResolveIs
<1>6. <<"literal">> \o st.o \in Refs
    <2>1. "literal" \in STRING
        BY NoneAssumption
    <2>2. <<"literal">> \in Refs
        BY <2>1, SeqFacts DEF Refs
    <2> QED
        BY <1>2, <2>2, SeqFacts DEF Refs
<1>7. Object(b, st) \in Refs
    BY <1>5, <1>6 DEF Object
<1> QED
    BY <1>1, <1>2, <1>4, <1>5, <1>7 DEF st, Aim

\* Nothing is made of nothing.
LEMMA MadeFirst ==
    ASSUME NEW G, NEW b
    PROVE  Made(G, b, [r \in {} |-> None], NoInserter, NoInserter, 0)
<1>1. 1 .. 0 = {}
    OBVIOUS
<1>2. Targets(G, b, 0) = {}
    BY <1>1 DEF Targets
<1>3. Quads(G, b, 0) = {}
    BY <1>1 DEF Quads
<1>4. RelOK(G, b, [r \in {} |-> None], 0)
    BY <1>1 DEF RelOK
<1>5. NoInserter \in Inserters
    <2>1. << >> \in Seq(Tokens)
        BY SeqFacts
    <2> QED
        BY <2>1 DEF NoInserter, Inserters
<1> QED
    BY <1>2, <1>3, <1>4, <1>5 DEF Made, Drops, Writes

LEMMA TargetsOn ==
    ASSUME NEW G, NEW b, NEW n \in Nat
    PROVE  /\ Taken(G, b, n + 1) => Targets(G, b, n + 1) = Targets(G, b, n) \cup {Aim(G, b, n + 1)}
           /\ ~Taken(G, b, n + 1) => Targets(G, b, n + 1) = Targets(G, b, n)
<1>1. 1 .. n + 1 = (1 .. n) \cup {n + 1}
    OBVIOUS
<1>2. ASSUME Taken(G, b, n + 1)
      PROVE  Targets(G, b, n + 1) = Targets(G, b, n) \cup {Aim(G, b, n + 1)}
    BY Zenon, <1>1, <1>2 DEF Targets
<1>3. ASSUME ~Taken(G, b, n + 1)
      PROVE  Targets(G, b, n + 1) = Targets(G, b, n)
    BY Zenon, <1>1, <1>3 DEF Targets
<1> QED
    BY <1>2, <1>3

LEMMA QuadsOn ==
    ASSUME NEW G, NEW b, NEW n \in Nat
    PROVE  /\ Placing(G, b, n + 1) # {} => Quads(G, b, n + 1) = Quads(G, b, n) \cup {Quad(G, b, n + 1)}
           /\ Placing(G, b, n + 1) = {} => Quads(G, b, n + 1) = Quads(G, b, n)
<1>1. 1 .. n + 1 = (1 .. n) \cup {n + 1}
    OBVIOUS
<1>2. ASSUME Placing(G, b, n + 1) # {}
      PROVE  Quads(G, b, n + 1) = Quads(G, b, n) \cup {Quad(G, b, n + 1)}
    BY Zenon, <1>1, <1>2 DEF Quads
<1>3. ASSUME Placing(G, b, n + 1) = {}
      PROVE  Quads(G, b, n + 1) = Quads(G, b, n)
    BY Zenon, <1>1, <1>3 DEF Quads
<1> QED
    BY <1>2, <1>3

\* A statement that registers nothing leaves the table right.
LEMMA RelKept ==
    ASSUME NEW G, NEW b, NEW rl, NEW n \in Nat, RelOK(G, b, rl, n), ~Taken(G, b, n + 1)
    PROVE  RelOK(G, b, rl, n + 1)
<1>1. \A k \in 1 .. n + 1 : Taken(G, b, k) => k \in 1 .. n
    <2>1. \A k \in 1 .. n + 1 : k = n + 1 \/ k \in 1 .. n
        OBVIOUS
    <2> QED
        BY Zenon, <2>1
<1>2. \A j \in 1 .. n : j \in 1 .. n + 1
    OBVIOUS
<1>3. ASSUME NEW g, NEW j, LastFor(G, b, g, j, n)
      PROVE  LastFor(G, b, g, j, n + 1)
    BY Zenon, <1>1, <1>2, <1>3 DEF LastFor
<1> QED
    BY Zenon, <1>1, <1>3 DEF RelOK

\* The table tells whether the graph of the next statement is registered, and where it is.
LEMMA PlacingIs ==
    ASSUME NEW G, NEW b, NEW rl, NEW n \in Nat, RelOK(G, b, rl, n)
    PROVE  LET g == ReadAt(G, n + 1).g
           IN  /\ Placing(G, b, n + 1) # {} <=> g \in DOMAIN rl
               /\ g \in DOMAIN rl => rl[g] = Aim(G, b, Max(Placing(G, b, n + 1)))
<1> DEFINE g == ReadAt(G, n + 1).g
           S == Placing(G, b, n + 1)
<1>1. S = {j \in 1 .. n : Taken(G, b, j) /\ ReadAt(G, j).s = g}
    <2>1. (n + 1) - 1 = n
        OBVIOUS
    <2> QED
        BY <2>1 DEF Placing
<1> HIDE DEF g, S
<1>2. \A j \in S : j \in 1 .. n /\ Taken(G, b, j) /\ ReadAt(G, j).s = g
    BY <1>1
<1>3. S # {} => g \in DOMAIN rl
    BY Zenon, <1>2 DEF RelOK
<1>4. ASSUME g \in DOMAIN rl
      PROVE  S # {} /\ rl[g] = Aim(G, b, Max(S))
    <2>1. PICK j : LastFor(G, b, g, j, n) /\ rl[g] = Aim(G, b, j)
        BY <1>4 DEF RelOK
    <2>2. j \in S /\ j \in 1 .. n
        BY <1>1, <2>1 DEF LastFor
    <2>3. \A k \in S : k <= j
        BY <1>2, <2>1 DEF LastFor
    <2>4. \A k \in S : k \in 1 .. n
        BY <1>2
    <2>5. Max(S) \in S /\ \A k \in S : Max(S) >= k
        <3>1. \A k \in S : j >= k
            BY <2>2, <2>3, <2>4
        <3> QED
            BY <2>2, <3>1 DEF Max
    <2>6. Max(S) = j
        <3>1. Max(S) <= j /\ Max(S) >= j /\ Max(S) \in 1 .. n
            BY <2>2, <2>3, <2>4, <2>5
        <3> QED
            BY <2>2, <3>1
    <2> QED
        BY <2>1, <2>2, <2>6
<1> QED
    BY <1>3, <1>4 DEF g, S

\* Skip: the statement is neither accepted nor in a registered graph.
LEMMA Skipped ==
    ASSUME NEW G, NEW b, NEW rl, NEW d, NEW i, NEW n \in Nat,
           Made(G, b, rl, d, i, n), ~Taken(G, b, n + 1),
           ReadAt(G, n + 1).g \notin DOMAIN rl
    PROVE  Made(G, b, rl, d, i, n + 1)
<1>1. RelOK(G, b, rl, n)
    BY DEF Made
<1>2. RelOK(G, b, rl, n + 1)
    BY <1>1, RelKept
<1>3. Placing(G, b, n + 1) = {}
    BY <1>1, PlacingIs
<1>4. Quads(G, b, n + 1) = Quads(G, b, n)
    BY <1>3, QuadsOn
<1>5. Targets(G, b, n + 1) = Targets(G, b, n)
    BY TargetsOn
<1> QED
    BY <1>2, <1>4, <1>5 DEF Made

\* Insert.
LEMMA Inserted ==
    ASSUME NEW G \in Seq(AllStatements), NEW b \in Refs \ {<<>>}, NEW rl, NEW d, NEW i,
           NEW n \in Nat, n + 1 \in 1 .. Len(G),
           Made(G, b, rl, d, i, n), ReadAt(G, n + 1).g \in DOMAIN rl
    PROVE  LET st == ReadAt(G, n + 1)
               k == insertData(i, IRIRelLiteral(b, st.s), st.p, Object(b, st), rl[st.g])
           IN  Made(G, b, rl, d, k, n + 1)
<1> DEFINE st == ReadAt(G, n + 1)
           s == IRIRelLiteral(b, st.s)
           o == Object(b, st)
           k == insertData(i, s, st.p, o, rl[st.g])
<1>1. RelOK(G, b, rl, n) /\ Drops(d, Targets(G, b, n)) /\ Writes(i, Quads(G, b, n))
    BY DEF Made
<1>2. st.g \in Refs
    <2>1. PICK j : LastFor(G, b, st.g, j, n)
        BY <1>1 DEF RelOK
    <2>2. j \in 1 .. Len(G) /\ ReadAt(G, j).s = st.g
        <3>1. n <= Len(G) /\ Len(G) \in Nat
            OBVIOUS
        <3> QED
            BY <2>1, <3>1 DEF LastFor
    <2> QED
        BY <2>2, StatementIs
<1>3. ~Taken(G, b, n + 1)
    BY <1>2, Separate DEF Taken, Registers
<1>4. rl[st.g] = Aim(G, b, Max(Placing(G, b, n + 1))) /\ Placing(G, b, n + 1) # {}
    BY <1>1, PlacingIs
<1>5. rl[st.g] \in Refs
    <2>1. PICK j : LastFor(G, b, st.g, j, n) /\ rl[st.g] = Aim(G, b, j)
        BY <1>1 DEF RelOK
    <2>2. j \in 1 .. Len(G)
        <3>1. n <= Len(G) /\ Len(G) \in Nat
            OBVIOUS
        <3> QED
            BY <2>1, <3>1 DEF LastFor
    <2> QED
        BY <2>1, <2>2, StatementIs
<1>6. s \in Refs /\ st.p \in STRING /\ o \in Refs
    BY StatementIs
<1>7. Quad(G, b, n + 1) = <<rl[st.g], s, st.p, o>>
    BY <1>4 DEF Quad
<1>8. Quads(G, b, n + 1) = Quads(G, b, n) \cup {<<rl[st.g], s, st.p, o>>}
    <2>1. Placing(G, b, n + 1) # {}
        BY <1>4
    <2>2. Quads(G, b, n + 1) = Quads(G, b, n) \cup {Quad(G, b, n + 1)}
        BY <2>1, QuadsOn
    <2> QED
        BY <1>7, <2>2
<1>9. Targets(G, b, n + 1) = Targets(G, b, n)
    BY <1>3, TargetsOn
<1>10. RelOK(G, b, rl, n + 1)
    BY <1>1, <1>3, RelKept
<1> HIDE DEF st, s, o
<1>11. Writes(k, Quads(G, b, n) \cup {<<rl[st.g], s, st.p, o>>})
    BY <1>1, <1>5, <1>6, DataInserted
<1> HIDE DEF k
<1>12. Made(G, b, rl, d, k, n + 1)
    BY <1>1, <1>8, <1>9, <1>10, <1>11 DEF Made
<1> QED
    BY <1>12 DEF k, s, o, st

\* Register.
LEMMA Registered ==
    ASSUME NEW G \in Seq(AllStatements), NEW b \in Refs \ {<<>>}, NEW rl, NEW d, NEW i,
           NEW n \in Nat, n + 1 \in 1 .. Len(G),
           Made(G, b, rl, d, i, n), Taken(G, b, n + 1)
    PROVE  LET st == ReadAt(G, n + 1)
               u == Aim(G, b, n + 1)
               table == [r \in DOMAIN rl \cup {st.s} |-> IF r = st.s THEN u ELSE rl[r]]
           IN  Made(G, b, table, deleteGraph(d, u), i, n + 1)
<1> DEFINE st == ReadAt(G, n + 1)
           u == Aim(G, b, n + 1)
           table == [r \in DOMAIN rl \cup {st.s} |-> IF r = st.s THEN u ELSE rl[r]]
<1>1. RelOK(G, b, rl, n) /\ Drops(d, Targets(G, b, n)) /\ Writes(i, Quads(G, b, n))
    BY DEF Made
<1>2. u \in Refs
    BY StatementIs
<1>3. Targets(G, b, n + 1) = Targets(G, b, n) \cup {u}
    BY TargetsOn
<1>4. Drops(deleteGraph(d, u), Targets(G, b, n + 1))
    BY <1>1, <1>2, <1>3, GraphDropped
<1>5. Placing(G, b, n + 1) = {}
    <2> SUFFICES ASSUME NEW j \in Placing(G, b, n + 1)
                 PROVE  FALSE
        OBVIOUS
    <2>1. j \in 1 .. n /\ ReadAt(G, j).s = st.g
        BY DEF Placing
    <2>2. j \in 1 .. Len(G)
        <3>1. n <= Len(G) /\ Len(G) \in Nat
            OBVIOUS
        <3> QED
            BY <2>1, <3>1
    <2>3. ReadAt(G, j).s \in Refs
        BY <2>2, StatementIs
    <2>4. st.g = None
        BY DEF Taken, Registers
    <2> QED
        BY <2>1, <2>3, <2>4, Separate
<1>6. Quads(G, b, n + 1) = Quads(G, b, n)
    BY <1>5, QuadsOn
<1>7. \A k \in 1 .. n + 1 : k = n + 1 \/ k \in 1 .. n
    OBVIOUS
<1>8. \A j \in 1 .. n : j \in 1 .. n + 1
    OBVIOUS
<1>9. ASSUME NEW k \in 1 .. n + 1, Taken(G, b, k)
      PROVE  ReadAt(G, k).s \in DOMAIN table
    BY <1>1, <1>7, <1>9 DEF RelOK
<1>10. ASSUME NEW g \in DOMAIN table
       PROVE  \E j : LastFor(G, b, g, j, n + 1) /\ table[g] = Aim(G, b, j)
    <2>1. CASE g = st.s
        <3>1. table[g] = u
            BY <2>1
        <3>2. n + 1 \in 1 .. n + 1 /\ \A k \in 1 .. n + 1 : k <= n + 1
            OBVIOUS
        <3>3. LastFor(G, b, g, n + 1, n + 1)
            BY <2>1, <3>2 DEF LastFor
        <3> QED
            BY <3>1, <3>3
    <2>2. CASE g # st.s
        <3>1. g \in DOMAIN rl /\ table[g] = rl[g]
            BY <1>10, <2>2
        <3>2. PICK j : LastFor(G, b, g, j, n) /\ rl[g] = Aim(G, b, j)
            BY <1>1, <3>1 DEF RelOK
        <3> HIDE DEF table
        <3>3. LastFor(G, b, g, j, n + 1)
            BY <1>7, <1>8, <2>2, <3>2 DEF LastFor
        <3> QED
            BY <3>1, <3>2, <3>3
    <2> QED
        BY <2>1, <2>2
<1> HIDE DEF table
<1>11. RelOK(G, b, table, n + 1)
    BY <1>9, <1>10 DEF RelOK
<1> HIDE DEF u
<1>12. Made(G, b, table, deleteGraph(d, u), i, n + 1)
    BY <1>1, <1>4, <1>6, <1>11 DEF Made
<1> QED
    BY <1>12 DEF table, u

-----------------------------------------------------------------------------
(* The invariant *)

\* What swbundle writes: the object of a hash is a digest.
Written ==
    {st \in AllStatements :
        st.p = "hash" /\ ~st.lit => st.o \in {Sha1(h) : h \in Contents}}

Visits == [dir : Dirs, left : SUBSET (Files \cup Dirs)]

PackOK ==
    /\ source \in {"none", "walk", "hand"}
    /\ disk \in [Files -> Contents] /\ members \subseteq Contents
    /\ opened \in Files \cup {None} /\ digest \in Contents \cup {None}
    /\ changed \subseteq Files /\ failed \in BOOLEAN
    /\ todo \in Seq(Visits)
    /\ opened # None \/ todo # << >> => phase = "packing" /\ source = "walk"
    /\ graphs \in Seq(AllStatements)
    /\ source = "walk" => graphs \in Seq(Written)

MadeOf(n) == Made(graphs, base, rel, drop, ins, n)

\* What was received has been made into the Update, and what is on its way is
\* the next statement.
ChanOK ==
    /\ phase \in {"packing", "packed"} =>
          /\ sent = 0 /\ chan = NoMessage
          /\ rel = [r \in {} |-> None] /\ drop = NoInserter /\ ins = NoInserter
    /\ phase = "importing" =>
          \/ chan = NoMessage /\ sent \in 0 .. Len(graphs) /\ MadeOf(sent)
          \/ /\ sent \in 1 .. Len(graphs) /\ MadeOf(sent - 1)
             /\ chan = Message("statement", ReadAt(graphs, sent))
          \/ chan = Message("closed", None) /\ MadeOf(Len(graphs))
          \/ chan = Message("error", None)
    /\ phase = "updating" => MadeOf(Len(graphs))

ImportOK ==
    /\ phase \in {"packing", "packed", "importing", "updating", "stored", "refused", "crashed"}
    /\ base \in Bases /\ files \subseteq Contents
    /\ sent \in 0 .. Len(graphs) + 1
    /\ \A q \in store : q[1] \in Refs
    /\ ChanOK

Inv == PackOK /\ ImportOK

LEMMA WordsAre ==
    /\ "type" \in STRING /\ "relativePath" \in STRING /\ "child" \in STRING
    /\ "hash" \in STRING /\ "contentType" \in STRING /\ "text" \in STRING
    /\ "RelocatableGraph" \in STRING /\ SwScheme \in STRING /\ Sha1Scheme \in STRING
BY NoneAssumption

LEMMA HashIs ==
    ASSUME NEW p \in Refs, NEW h \in Contents
    PROVE  Hash(p, h) \in Written
<1>1. h \in STRING
    BY DiskAssumption
<1>2. Sha1(h) \in Refs
    BY <1>1, WordsAre, SeqFacts DEF Sha1, Refs
<1> QED
    BY <1>2, WordsAre DEF Hash, Statement, Written, AllStatements

LEMMA StatementsAre ==
    ASSUME NEW p \in Refs, NEW d \in Refs
    PROVE  /\ TypeTriple \in Written /\ RelativePath(p) \in Written
           /\ Child(d, p) \in Written /\ ContentType(p) \in Written
<1> USE DEF Statement
<1>1. << >> \in Refs /\ <<"text">> \in Refs /\ <<SwScheme, "RelocatableGraph">> \in Refs
    BY WordsAre, SeqFacts DEF Refs
<1>2. TypeTriple \in Written
    BY <1>1, WordsAre DEF TypeTriple, Written, AllStatements
<1>3. RelativePath(p) \in Written
    BY WordsAre DEF RelativePath, Written, AllStatements
<1>4. Child(d, p) \in Written
    BY WordsAre DEF Child, Written, AllStatements
<1>5. ContentType(p) \in Written
    BY <1>1, WordsAre DEF ContentType, Written, AllStatements
<1> QED
    BY <1>2, <1>3, <1>4, <1>5

\* A bundle that goes on: statements of swbundle are statements.
LEMMA GoesOn ==
    ASSUME NEW G \in Seq(Written), NEW x \in Written
    PROVE  /\ Append(G, x) \in Seq(Written) /\ Append(G, x) \in Seq(AllStatements)
           /\ \A y \in Written : /\ G \o <<x, y>> \in Seq(Written)
                                 /\ G \o <<x, y>> \in Seq(AllStatements)
           /\ \A y, z \in Written : /\ G \o <<x, y, z>> \in Seq(Written)
                                    /\ G \o <<x, y, z>> \in Seq(AllStatements)
<1>1. Append(G, x) \in Seq(Written)
    BY SeqFacts
<1>2. \A y \in Written : G \o <<x, y>> \in Seq(Written)
    OBVIOUS
<1>3. \A y, z \in Written : G \o <<x, y, z>> \in Seq(Written)
    OBVIOUS
<1>4. \A w \in Seq(Written) : w \in Seq(AllStatements)
    <2>1. Written \subseteq AllStatements
        BY DEF Written
    <2> HIDE DEF Written, AllStatements
    <2> QED
        BY <2>1
<1> QED
    BY <1>1, <1>2, <1>3, <1>4

LEMMA Initial == Init => Inv
<1> SUFFICES ASSUME Init PROVE Inv
    OBVIOUS
<1>1. << >> \in Seq(Visits) /\ << >> \in Seq(AllStatements)
    BY SeqFacts
<1>2. PackOK
    BY <1>1, DiskAssumption DEF Init, PackOK
<1>3. \A q \in store : q[1] \in Refs
    BY BeforeAssumption DEF Init
<1>4. ChanOK
    BY DEF Init, ChanOK
<1>5. ImportOK
    BY <1>3, <1>4 DEF Init, ImportOK
<1> QED
    BY <1>2, <1>5 DEF Inv

-----------------------------------------------------------------------------
(* Packing *)

LEMMA VisitIs ==
    ASSUME NEW dir \in Dirs
    PROVE  Visit(dir) \in Visits
<1>1. Entries(dir) \in SUBSET (Files \cup Dirs)
    BY DEF Entries
<1> HIDE DEF Visits
<1>2. Visit(dir) = [dir |-> dir, left |-> Entries(dir)]
    BY DEF Visit
<1> QED
    BY <1>1, <1>2 DEF Visits

LEMMA TodoIs ==
    ASSUME NEW t \in Seq(Visits), t # << >>
    PROVE  /\ Last(t).dir \in Dirs
           /\ \A p : LET left == [t EXCEPT ![Len(t)].left = @ \ {p}]
                     IN  left \in Seq(Visits) /\ left # << >>
           /\ Front(t) \in Seq(Visits)
           /\ Front(t) # << >> => Len(t) # 1
<1>1. Len(t) \in 1 .. Len(t) /\ t[Len(t)] \in Visits
    OBVIOUS
<1>2. Last(t).dir \in Dirs
    BY <1>1 DEF Last, Visits
<1>3. ASSUME NEW p
      PROVE  LET left == [t EXCEPT ![Len(t)].left = @ \ {p}]
             IN  left \in Seq(Visits) /\ left # << >>
    <2> DEFINE v == [t[Len(t)] EXCEPT !.left = @ \ {p}]
               left == [t EXCEPT ![Len(t)] = v]
    <2>1. v \in Visits
        BY <1>1 DEF Visits
    <2> HIDE DEF v
    <2>2. left \in Seq(Visits) /\ Len(left) = Len(t)
        BY <1>1, <2>1
    <2>3. left # << >>
        BY <1>1, <2>2
    <2> HIDE DEF left
    <2>4. left = [t EXCEPT ![Len(t)].left = @ \ {p}]
        BY DEF left, v
    <2> QED
        BY <2>2, <2>3, <2>4
<1>4. Front(t) \in Seq(Visits) /\ (Front(t) # << >> => Len(t) # 1)
    <2>1. Len(t) \in Nat /\ \A k \in 1 .. Len(t) - 1 : t[k] \in Visits
        OBVIOUS
    <2>2. /\ SubSeq(t, 1, Len(t) - 1) \in Seq(Visits)
          /\ Len(t) = 1 => Len(SubSeq(t, 1, Len(t) - 1)) = 0
        BY <2>1, SubSeqProperties
    <2>3. \A s \in Seq(Visits) : Len(s) = 0 => s = << >>
        OBVIOUS
    <2> QED
        BY <2>2, <2>3 DEF Front
<1> QED
    BY <1>2, <1>3, <1>4

Packs == PackOK' /\ phase = "packing" /\ phase' \in {"packing", "packed"} /\ UNCHANGED importVars

LEMMA StartWalkStep == ASSUME Inv, StartWalk PROVE Packs
<1> USE DEF StartWalk
<1>1. PackOK
    BY DEF Inv
<1>2. TypeTriple \in Written /\ RelativePath(<<>>) \in Written
    <2>1. << >> \in Refs
        BY SeqFacts DEF Refs
    <2> QED
        BY <2>1, StatementsAre
<1>3. graphs' \in Seq(Written) /\ graphs' \in Seq(AllStatements)
    <2>1. << >> \in Seq(Written) /\ \A x, y : << >> \o <<x, y>> = <<x, y>>
        BY SeqFacts
    <2> QED
        BY <1>2, <2>1, GoesOn
<1>4. todo' \in Seq(Visits)
    <2>1. Visit(<<>>) \in Visits
        BY VisitIs, DiskAssumption
    <2> QED
        BY <2>1, SeqFacts
<1> QED
    BY <1>1, <1>3, <1>4 DEF Packs, PackOK

LEMMA EnterDirStep == ASSUME Inv, NEW p \in Dirs, EnterDir(p) PROVE Packs
<1> USE DEF EnterDir, Walking
<1>1. PackOK
    BY DEF Inv
<1>2. source = "walk" /\ graphs \in Seq(Written) /\ todo \in Seq(Visits) /\ todo # << >>
    BY <1>1 DEF PackOK
<1>3. graphs' \in Seq(Written) /\ graphs' \in Seq(AllStatements)
    <2>1. Last(todo).dir \in Refs /\ p \in Refs
        BY <1>2, TodoIs, DiskAssumption
    <2>2. RelativePath(p) \in Written /\ Child(Last(todo).dir, p) \in Written
        BY <2>1, StatementsAre
    <2> QED
        BY <1>2, <2>2, GoesOn
<1>4. todo' \in Seq(Visits) /\ todo' # << >>
    <2>1. Visit(p) \in Visits /\ Remaining(p) \in Seq(Visits)
        BY <1>2, VisitIs, TodoIs DEF Remaining
    <2> QED
        BY <2>1, SeqFacts
<1> QED
    BY <1>1, <1>2, <1>3, <1>4 DEF Packs, PackOK

LEMMA OpenFileStep == ASSUME Inv, NEW p \in Files, OpenFile(p) PROVE Packs
<1> USE DEF OpenFile, Walking
<1>1. PackOK
    BY DEF Inv
<1>2. source = "walk" /\ graphs \in Seq(Written) /\ todo \in Seq(Visits) /\ todo # << >>
    BY <1>1 DEF PackOK
<1>3. graphs' \in Seq(Written) /\ graphs' \in Seq(AllStatements)
    <2>1. Last(todo).dir \in Refs /\ p \in Refs
        BY <1>2, TodoIs, DiskAssumption
    <2>2. Child(Last(todo).dir, p) \in Written
        BY <2>1, StatementsAre
    <2> QED
        BY <1>2, <2>2, GoesOn
<1>4. todo' \in Seq(Visits)
    BY <1>2, TodoIs DEF Remaining
<1> QED
    BY <1>1, <1>2, <1>3, <1>4 DEF Packs, PackOK

LEMMA HashFileStep == ASSUME Inv, HashFile PROVE Packs
BY DEF Inv, PackOK, Packs, HashFile

LEMMA CopyFileStep == ASSUME Inv, CopyFile PROVE Packs
<1> USE DEF CopyFile
<1>1. PackOK
    BY DEF Inv
<1>2. /\ phase = "packing" /\ source = "walk" /\ graphs \in Seq(Written)
      /\ opened \in Files /\ digest \in Contents
    BY <1>1 DEF PackOK
<1>3. graphs' \in Seq(Written) /\ graphs' \in Seq(AllStatements)
    <2>1. opened \in Refs
        BY <1>2, DiskAssumption
    <2>2. /\ RelativePath(opened) \in Written /\ Hash(opened, digest) \in Written
          /\ ContentType(opened) \in Written
        BY <1>2, <2>1, StatementsAre, HashIs
    <2> QED
        BY <1>2, <2>2, GoesOn DEF Described
<1>4. members' \subseteq Contents
    BY <1>1, <1>2 DEF PackOK
<1> QED
    BY <1>1, <1>2, <1>3, <1>4 DEF Packs, PackOK

LEMMA LeaveDirStep == ASSUME Inv, LeaveDir PROVE Packs
<1> USE DEF LeaveDir, Walking
<1>1. PackOK
    BY DEF Inv
<1>2. todo \in Seq(Visits) /\ todo # << >> /\ source = "walk"
    BY <1>1 DEF PackOK
<1>3. todo' \in Seq(Visits) /\ (todo' # << >> => phase' = "packing")
    BY <1>2, TodoIs
<1> QED
    BY <1>1, <1>2, <1>3 DEF Packs, PackOK

LEMMA PackFailsStep == ASSUME Inv, PackFails PROVE Packs
<1>1. << >> \in Seq(Visits)
    BY SeqFacts
<1> QED
    BY <1>1 DEF Inv, PackOK, Packs, PackFails

LEMMA FileChangesStep == ASSUME Inv, NEW h \in Contents, FileChanges(h) PROVE Packs
BY DEF Inv, PackOK, Packs, FileChanges

LEMMA WriteByHandStep == ASSUME Inv, NEW st \in HandMade, WriteByHand(st) PROVE Packs
<1> USE DEF WriteByHand
<1>1. PackOK
    BY DEF Inv
<1>2. graphs' \in Seq(AllStatements)
    <2>1. st \in AllStatements /\ graphs \in Seq(AllStatements)
        BY <1>1, HandMadeAssumption DEF PackOK
    <2> QED
        BY <2>1, SeqFacts
<1>3. opened = None /\ todo = << >>
    BY <1>1 DEF PackOK
<1> QED
    BY <1>1, <1>2, <1>3 DEF Packs, PackOK, packVars

LEMMA PackStep == ASSUME Inv, Pack PROVE Packs
BY StartWalkStep, EnterDirStep, OpenFileStep, HashFileStep, CopyFileStep, LeaveDirStep,
   PackFailsStep, FileChangesStep, WriteByHandStep DEF Pack

\* While a bundle is packed nothing is imported.
LEMMA PackKeeps == ASSUME Inv, Packs PROVE Inv'
<1>1. ImportOK /\ PackOK' /\ phase = "packing" /\ phase' \in {"packing", "packed"}
    BY DEF Inv, Packs
<1>2. /\ base' = base /\ sent' = sent /\ chan' = chan /\ rel' = rel /\ drop' = drop
      /\ ins' = ins /\ store' = store /\ files' = files
    BY DEF Packs, importVars, makeVars
<1>3. ChanOK'
    BY <1>1, <1>2 DEF ImportOK, ChanOK
<1>4. sent' \in 0 .. Len(graphs') + 1
    <2>1. sent' = 0 /\ Len(graphs') \in Nat
        BY <1>1, <1>2 DEF ImportOK, ChanOK, PackOK
    <2> QED
        BY <2>1
<1>5. ImportOK'
    BY <1>1, <1>2, <1>3, <1>4 DEF ImportOK
<1> QED
    BY <1>1, <1>5 DEF Inv

-----------------------------------------------------------------------------
(* Importing *)

LEMMA PackSame ==
    ASSUME Inv, UNCHANGED <<source, packVars, graphs>>,
           phase' = phase \/ (opened = None /\ todo = << >>)
    PROVE  PackOK'
BY DEF Inv, PackOK, packVars

LEMMA NotPacking ==
    ASSUME Inv, phase # "packing"
    PROVE  opened = None /\ todo = << >>
BY DEF Inv, PackOK

LEMMA BaseIs ==
    ASSUME Inv
    PROVE  /\ base \in Refs \ {<<>>} /\ Len(base) \in Nat /\ Len(base) > 1
           /\ graphs \in Seq(AllStatements) /\ Len(graphs) \in Nat
<1>1. base \in Bases /\ graphs \in Seq(AllStatements)
    BY DEF Inv, ImportOK, PackOK
<1>2. base \in Refs /\ Len(base) > 1
    BY <1>1, BasesAssumption
<1>3. Len(base) \in Nat /\ base # <<>>
    BY <1>2 DEF Refs
<1> QED
    BY <1>1, <1>2, <1>3

LEMMA MadeSame ==
    ASSUME UNCHANGED <<graphs, base, makeVars>>
    PROVE  \A n : MadeOf(n)' = MadeOf(n)
BY DEF MadeOf, makeVars

LEMMA PostStep == ASSUME Inv, Post PROVE Inv'
<1> USE DEF Post
<1>1. opened = None /\ todo = << >> /\ phase \in {"packing", "packed"}
    BY DEF Inv, PackOK
<1>2. PackOK'
    BY <1>1, PackSame
<1>3. /\ sent = 0 /\ chan = NoMessage
      /\ rel = [r \in {} |-> None] /\ drop = NoInserter /\ ins = NoInserter
    BY <1>1 DEF Inv, ImportOK, ChanOK
<1>4. MadeOf(0)
    BY <1>3, MadeFirst DEF MadeOf
<1>5. MadeOf(0)'
    BY <1>4, MadeSame DEF importVars
<1>6. 0 \in 0 .. Len(graphs) /\ 0 \in 0 .. Len(graphs) + 1
    BY BaseIs
<1>7. ChanOK'
    BY <1>3, <1>5, <1>6 DEF ChanOK, importVars
<1>8. ImportOK'
    BY <1>3, <1>6, <1>7 DEF Inv, ImportOK, importVars
<1> QED
    BY <1>2, <1>8 DEF Inv

LEMMA ProduceFacts ==
    ASSUME Inv, NEW m, Produce(m)
    PROVE  /\ PackOK' /\ phase = "importing" /\ phase' = "importing" /\ chan' = m
           /\ sent \in 0 .. Len(graphs) /\ MadeOf(sent)
           /\ graphs' = graphs /\ base' = base /\ store' = store /\ files' = files
           /\ \A n : MadeOf(n)' = MadeOf(n)
<1> USE DEF Produce
<1>1. PackOK'
    <2>1. UNCHANGED <<source, packVars, graphs>> /\ phase' = phase
        OBVIOUS
    <2> QED
        BY <2>1, PackSame
<1>2. sent \in 0 .. Len(graphs) /\ MadeOf(sent)
    BY DEF Inv, ImportOK, ChanOK, NoMessage, Message
<1> QED
    BY <1>1, <1>2, MadeSame

LEMMA SenderStep ==
    ASSUME Inv, SendStatement \/ CloseChannel \/ SendError PROVE Inv'
<1>1. Len(graphs) \in Nat
    BY BaseIs
<1>2. ASSUME NEW m, Produce(m), sent' \in 0 .. Len(graphs) + 1,
             \/ /\ sent' \in 1 .. Len(graphs) /\ MadeOf(sent' - 1)
                /\ m = Message("statement", ReadAt(graphs, sent'))
             \/ m = Message("closed", None) /\ MadeOf(Len(graphs))
             \/ m = Message("error", None)
      PROVE  Inv'
    <2>1. /\ PackOK' /\ phase' = "importing" /\ chan' = m
          /\ graphs' = graphs /\ base' = base /\ store' = store /\ files' = files
          /\ \A n : MadeOf(n)' = MadeOf(n)
        BY <1>2, ProduceFacts
    <2>2. ChanOK'
        BY <1>2, <2>1 DEF ChanOK
    <2>3. ImportOK'
        BY <1>2, <2>1, <2>2 DEF Inv, ImportOK
    <2> QED
        BY <2>1, <2>3 DEF Inv
<1>3. CASE SendStatement
    <2> DEFINE m == Message("statement", AsRead(graphs[sent + 1]))
    <2>1. Produce(m) /\ sent < Len(graphs) /\ sent' = sent + 1
        BY <1>3 DEF SendStatement
    <2>2. sent \in 0 .. Len(graphs) /\ MadeOf(sent)
        BY <2>1, ProduceFacts
    <2>3. /\ sent' \in 1 .. Len(graphs) /\ sent' - 1 = sent
          /\ sent' \in 0 .. Len(graphs) + 1
        BY <1>1, <2>1, <2>2
    <2>4. m = Message("statement", ReadAt(graphs, sent'))
        BY <2>1 DEF ReadAt
    <2> HIDE DEF m
    <2>5. MadeOf(sent' - 1)
        BY <2>2, <2>3
    <2> QED
        BY <1>2, <2>1, <2>3, <2>4, <2>5
<1>4. CASE CloseChannel
    <2>1. Produce(Message("closed", None)) /\ sent = Len(graphs) /\ sent' = sent
        BY <1>4 DEF CloseChannel
    <2>2. MadeOf(Len(graphs))
        BY <2>1, ProduceFacts
    <2>3. sent' \in 0 .. Len(graphs) + 1
        BY <1>1, <2>1
    <2> QED
        BY <1>2, <2>1, <2>2, <2>3
<1>5. CASE SendError
    <2>1. Produce(Message("error", None)) /\ sent' = Len(graphs) + 1
        BY <1>5 DEF SendError
    <2>2. sent' \in 0 .. Len(graphs) + 1
        BY <1>1, <2>1
    <2> QED
        BY <1>2, <2>1, <2>2
<1> QED
    BY <1>3, <1>4, <1>5

LEMMA NoGraphsStep == ASSUME Inv, NoGraphs PROVE Inv'
<1> USE DEF NoGraphs, importVars
<1>1. PackOK'
    BY NotPacking, PackSame
<1>2. ChanOK'
    BY DEF ChanOK
<1> QED
    BY <1>1, <1>2 DEF Inv, ImportOK

\* What is received is the next statement.
LEMMA ReceivedIs ==
    ASSUME Inv, Received
    PROVE  \E n \in Nat :
              /\ sent = n + 1 /\ n + 1 \in 1 .. Len(graphs)
              /\ Made(graphs, base, rel, drop, ins, n)
              /\ chan.st = ReadAt(graphs, n + 1)
<1>1. phase = "importing" /\ chan.kind = "statement"
    BY DEF Received
<1>2. /\ sent \in 1 .. Len(graphs) /\ MadeOf(sent - 1)
      /\ chan = Message("statement", ReadAt(graphs, sent))
    BY <1>1 DEF Inv, ImportOK, ChanOK, NoMessage, Message
<1>3. PICK n \in Nat : n = sent - 1 /\ sent = n + 1
    BY <1>2, BaseIs
<1> QED
    BY <1>2, <1>3 DEF MadeOf, Message

LEMMA Loops ==
    ASSUME Inv, NEW n \in Nat, sent = n + 1, n + 1 \in 1 .. Len(graphs),
           phase = "importing",
           Made(graphs, base, rel', drop', ins', n + 1), chan' = NoMessage,
           UNCHANGED <<phase, source, packVars, graphs, base, sent, store, files>>
    PROVE  Inv'
<1>1. PackOK'
    <2>1. UNCHANGED <<source, packVars, graphs>> /\ phase' = phase
        OBVIOUS
    <2> QED
        BY <2>1, PackSame
<1>2. MadeOf(sent)'
    BY DEF MadeOf
<1>3. sent' \in 0 .. Len(graphs)'
    BY BaseIs
<1>4. ChanOK'
    BY <1>2, <1>3 DEF ChanOK
<1>5. ImportOK'
    BY <1>4 DEF Inv, ImportOK
<1> QED
    BY <1>1, <1>5 DEF Inv

LEMMA RegisterStep == ASSUME Inv, Register(chan.st) PROVE Inv'
<1>1. PICK n \in Nat :
         /\ sent = n + 1 /\ n + 1 \in 1 .. Len(graphs)
         /\ Made(graphs, base, rel, drop, ins, n)
         /\ chan.st = ReadAt(graphs, n + 1)
    BY ReceivedIs DEF Register
<1> DEFINE st == ReadAt(graphs, n + 1)
           u == Aim(graphs, base, n + 1)
<1>2. /\ Accepted(st) /\ phase = "importing" /\ chan' = NoMessage /\ ins' = ins
      /\ rel' = [r \in DOMAIN rel \cup {st.s} |-> IF r = st.s THEN u ELSE rel[r]]
      /\ drop' = deleteGraph(drop, u)
      /\ UNCHANGED <<phase, source, packVars, graphs, base, sent, store, files>>
    BY <1>1 DEF Register, Received, Aim
<1>3. Taken(graphs, base, n + 1)
    BY <1>2 DEF Taken, Accepted, Aim
<1>4. Made(graphs, base, rel', drop', ins', n + 1)
    BY <1>1, <1>2, <1>3, BaseIs, Registered
<1> QED
    BY <1>1, <1>2, <1>4, Loops

LEMMA InsertStep == ASSUME Inv, Insert(chan.st) PROVE Inv'
<1>1. PICK n \in Nat :
         /\ sent = n + 1 /\ n + 1 \in 1 .. Len(graphs)
         /\ Made(graphs, base, rel, drop, ins, n)
         /\ chan.st = ReadAt(graphs, n + 1)
    BY ReceivedIs DEF Insert
<1> DEFINE st == ReadAt(graphs, n + 1)
<1>2. /\ st.g \in DOMAIN rel /\ phase = "importing" /\ chan' = NoMessage
      /\ rel' = rel /\ drop' = drop
      /\ ins' = insertData(ins, IRIRelLiteral(base, st.s), st.p, Object(base, st), rel[st.g])
      /\ UNCHANGED <<phase, source, packVars, graphs, base, sent, store, files>>
    BY <1>1 DEF Insert, Received
<1>3. Made(graphs, base, rel', drop', ins', n + 1)
    BY <1>1, <1>2, BaseIs, Inserted
<1> QED
    BY <1>1, <1>2, <1>3, Loops

LEMMA SkipStep == ASSUME Inv, Skip(chan.st) PROVE Inv'
<1>1. PICK n \in Nat :
         /\ sent = n + 1 /\ n + 1 \in 1 .. Len(graphs)
         /\ Made(graphs, base, rel, drop, ins, n)
         /\ chan.st = ReadAt(graphs, n + 1)
    BY ReceivedIs DEF Skip
<1> DEFINE st == ReadAt(graphs, n + 1)
<1>2. /\ IF Registers(st) THEN ~Accepted(st) ELSE st.g \notin DOMAIN rel
      /\ phase = "importing" /\ chan' = NoMessage
      /\ rel' = rel /\ drop' = drop /\ ins' = ins
      /\ UNCHANGED <<phase, source, packVars, graphs, base, sent, store, files>>
    BY <1>1 DEF Skip, Received, makeVars
<1>3. ~Taken(graphs, base, n + 1)
    BY <1>2 DEF Taken, Accepted, Aim
<1>4. st.g \notin DOMAIN rel
    <2>1. CASE Registers(st)
        <3> SUFFICES ASSUME st.g \in DOMAIN rel PROVE FALSE
            OBVIOUS
        <3>1. PICK j : LastFor(graphs, base, st.g, j, n)
            BY <1>1 DEF Made, RelOK
        <3>2. j \in 1 .. Len(graphs) /\ ReadAt(graphs, j).s = st.g
            <4>1. n <= Len(graphs) /\ Len(graphs) \in Nat
                BY <1>1, BaseIs
            <4> QED
                BY <3>1, <4>1 DEF LastFor
        <3>3. ReadAt(graphs, j).s \in Refs
            BY <3>2, BaseIs, StatementIs
        <3> QED
            BY <2>1, <3>2, <3>3, Separate DEF Registers
    <2> QED
        BY <1>2, <2>1
<1>5. Made(graphs, base, rel', drop', ins', n + 1)
    BY <1>1, <1>2, <1>3, <1>4, Skipped
<1> QED
    BY <1>1, <1>2, <1>5, Loops

LEMMA RefuseStep == ASSUME Inv, Refuse PROVE Inv'
<1> USE DEF Refuse
<1>1. PackOK'
    BY NotPacking, PackSame
<1>2. ChanOK'
    BY DEF ChanOK
<1> QED
    BY <1>1, <1>2 DEF Inv, ImportOK

LEMMA StoreFilesStep == ASSUME Inv, StoreFiles PROVE Inv'
<1> USE DEF StoreFiles
<1>1. PackOK'
    BY NotPacking, PackSame
<1>2. MadeOf(Len(graphs))
    BY DEF Inv, ImportOK, ChanOK, NoMessage, Message
<1>3. MadeOf(Len(graphs))'
    BY <1>2 DEF MadeOf, makeVars
<1>4. ChanOK'
    BY <1>3 DEF ChanOK
<1>5. files' \subseteq Contents
    BY DEF Inv, ImportOK, PackOK
<1> QED
    BY <1>1, <1>4, <1>5 DEF Inv, ImportOK

LEMMA MaxIn ==
    ASSUME NEW m \in Nat, NEW S \in SUBSET (1 .. m), S # {}
    PROVE  Max(S) \in S
<1> DEFINE T == {m - k : k \in S}
<1>1. T \in SUBSET Nat /\ T # {}
    <2>1. \A k \in S : k \in 1 .. m
        OBVIOUS
    <2>2. \A k \in 1 .. m : m - k \in Nat
        OBVIOUS
    <2>3. PICK k \in S : TRUE
        OBVIOUS
    <2>4. m - k \in T
        BY <2>3
    <2> QED
        BY <2>1, <2>2, <2>4
<1>2. PICK t \in T : \A x \in T : t <= x
    BY <1>1, LeastNatural
<1>3. PICK k \in S : t = m - k
    OBVIOUS
<1>4. \A x \in S : k >= x
    <2> SUFFICES ASSUME NEW x \in S PROVE k >= x
        OBVIOUS
    <2>1. m - k <= m - x /\ x \in 1 .. m /\ k \in 1 .. m
        BY <1>2, <1>3
    <2> QED
        BY <2>1
<1> QED
    BY <1>4 DEF Max

\* A quad goes to a graph that the Update empties first.
LEMMA QuadAt ==
    ASSUME NEW G, NEW b, NEW n \in Nat, NEW q \in Quads(G, b, n)
    PROVE  q[1] \in Targets(G, b, n)
<1>1. PICK j \in 1 .. n : Placing(G, b, j) # {} /\ q = Quad(G, b, j)
    BY DEF Quads
<1> DEFINE k == Max(Placing(G, b, j))
<1>2. k \in Placing(G, b, j)
    <2>1. j - 1 \in Nat /\ Placing(G, b, j) \subseteq 1 .. j - 1
        BY DEF Placing
    <2> QED
        BY <1>1, <2>1, MaxIn
<1> HIDE DEF k
<1>3. k \in 1 .. n /\ Taken(G, b, k)
    BY <1>2 DEF Placing
<1>4. q[1] = Aim(G, b, k)
    BY <1>1 DEF Quad, k
<1> QED
    BY <1>3, <1>4 DEF Targets

LEMMA TargetsAre ==
    ASSUME NEW G \in Seq(AllStatements), NEW b \in Refs \ {<<>>},
           NEW u \in Targets(G, b, Len(G))
    PROVE  u \in Refs \ {<<>>} /\ isSubUrl(b, u)
<1>1. PICK j \in 1 .. Len(G) : Taken(G, b, j) /\ u = Aim(G, b, j)
    BY DEF Targets
<1>2. u \in Refs \ {<<>>}
    BY <1>1, StatementIs
<1> QED
    BY <1>1, <1>2 DEF Taken

\* What the Update does to the RDF store.
LEMMA UpdateIs ==
    ASSUME Inv, phase = "updating"
    PROVE  /\ Legal(Execute(store, Statements))
           /\ Execute(store, Statements).quads =
                 Without(store, Targets(graphs, base, Len(graphs)))
                 \cup Quads(graphs, base, Len(graphs))
<1>1. Made(graphs, base, rel, drop, ins, Len(graphs))
    BY DEF Inv, ImportOK, ChanOK, MadeOf
<1>2. /\ Drops(drop, Targets(graphs, base, Len(graphs)))
      /\ Writes(ins, Quads(graphs, base, Len(graphs)))
    BY <1>1 DEF Made
<1> QED
    BY <1>2, UpdateDoes

LEMMA UpdateStep == ASSUME Inv, Update PROVE Inv'
<1> DEFINE D == Targets(graphs, base, Len(graphs))
           N == Quads(graphs, base, Len(graphs))
<1>1. /\ phase = "updating" /\ phase' \in {"stored", "refused"}
      /\ store' = store \/ store' = Without(store, D) \cup N
      /\ UNCHANGED <<source, packVars, graphs, base, sent, chan, makeVars, files>>
    BY UpdateIs DEF Update
<1>2. PackOK'
    BY <1>1, NotPacking, PackSame
<1>3. ChanOK'
    BY <1>1 DEF ChanOK
<1>4. \A q \in N : q[1] \in Refs
    <2>1. \A q \in N : q[1] \in D
        BY BaseIs, QuadAt
    <2> QED
        BY <2>1, BaseIs, TargetsAre
<1> HIDE DEF D, N
<1>5. \A q \in store' : q[1] \in Refs
    BY <1>1, <1>4 DEF Without, Inv, ImportOK
<1> QED
    BY <1>1, <1>2, <1>3, <1>5 DEF Inv, ImportOK

LEMMA Steps == Inv /\ [Next]_vars => Inv'
<1> SUFFICES ASSUME Inv, [Next]_vars
             PROVE  Inv'
    OBVIOUS
<1>1. CASE Pack
    BY <1>1, PackStep, PackKeeps
<1>2. CASE Post
    BY <1>2, PostStep
<1>3. CASE Reader
    BY <1>3, SenderStep, NoGraphsStep DEF Reader
<1>4. CASE Handler
    BY <1>4, RegisterStep, InsertStep, SkipStep, RefuseStep, StoreFilesStep DEF Handler
<1>5. CASE Update
    BY <1>5, UpdateStep
<1>6. CASE UNCHANGED vars
    <2>1. PackOK'
        BY <1>6 DEF Inv, PackOK, vars, packVars
    <2>2. ChanOK'
        BY <1>6 DEF Inv, ImportOK, ChanOK, MadeOf, vars, makeVars
    <2> QED
        BY <1>6, <2>1, <2>2 DEF Inv, ImportOK, vars
<1> QED
    BY <1>1, <1>2, <1>3, <1>4, <1>5, <1>6 DEF Next

LEMMA Invariant == Spec => []Inv
BY Initial, Steps, PTL DEF Spec

-----------------------------------------------------------------------------
(* Theorems *)

(***************************************************************************)
(* Digests and references have their shapes, and what is imported is a     *)
(* statement that was read, whatever is packed and whatever a bundle made  *)
(* by hand holds (bundle/writer.go, bundle.go).                            *)
(***************************************************************************)
THEOREM TypeCorrect == Spec => []TypeOK
<1>1. Inv => TypeOK
    <2> SUFFICES ASSUME Inv PROVE TypeOK
        OBVIOUS
    <2>1. ASSUME source = "walk", NEW i \in DOMAIN graphs,
                 graphs[i].p = "hash", ~graphs[i].lit
          PROVE  graphs[i].o \in {Sha1(h) : h \in Contents}
        <3>1. graphs \in Seq(Written)
            BY <2>1 DEF Inv, PackOK
        <3>2. graphs[i] \in Written
            BY <3>1
        <3> QED
            BY <2>1, <3>2 DEF Written
    <2> QED
        BY <2>1 DEF Inv, PackOK, ImportOK, TypeOK
<1> QED
    BY <1>1, Invariant, PTL

\* What the statements mean, by definition, is what the loop makes of them.
LEMMA MeantIs ==
    ASSUME Inv
    PROVE  Meant(store) = Without(store, Targets(graphs, base, Len(graphs)))
                          \cup Quads(graphs, base, Len(graphs))
<1> DEFINE G == graphs
           L == Len(graphs)
           read == [i \in DOMAIN graphs |-> AsRead(graphs[i])]
           named == [i \in DOMAIN read |->
                       IF Accepted(read[i]) THEN Resolve(base, RelUri(read[i])) ELSE None]
           registers(i) == {j \in 1 .. i - 1 : named[j] # None /\ read[j].s = read[i].g}
           kept == {i \in DOMAIN read : registers(i) # {}}
           left == {q \in store : \A i \in DOMAIN named : named[i] # q[1]}
           added == {<<named[Max(registers(i))], IRIRelLiteral(base, read[i].s),
                       read[i].p, Object(base, read[i])>> : i \in kept}
<1>1. Meant(store) = left \cup added
    BY Zenon DEF Meant
<1>2. G \in Seq(AllStatements) /\ base \in Refs \ {<<>>} /\ L \in Nat /\ DOMAIN graphs = 1 .. L
    BY BaseIs
<1>3. /\ DOMAIN read = 1 .. L /\ DOMAIN named = 1 .. L
      /\ \A i \in 1 .. L : read[i] = ReadAt(G, i)
    BY <1>2 DEF ReadAt
<1> HIDE DEF read
<1>4. \A i \in 1 .. L : named[i] = IF Taken(G, base, i) THEN Aim(G, base, i) ELSE None
    BY <1>3 DEF Taken, Accepted, Aim
<1>5. \A i \in 1 .. L : Aim(G, base, i) \in Refs /\ Aim(G, base, i) # None
    BY <1>2, StatementIs, Separate
<1> HIDE DEF named, L
<1>6. \A i \in 1 .. L : named[i] # None <=> Taken(G, base, i)
    BY <1>4, <1>5
<1>7. \A i \in 1 .. L : registers(i) = Placing(G, base, i)
    <2> SUFFICES ASSUME NEW i \in 1 .. L
                 PROVE  registers(i) = Placing(G, base, i)
        OBVIOUS
    <2>1. \A j \in 1 .. i - 1 : j \in 1 .. L
        BY <1>2
    <2> QED
        BY <1>3, <1>6, <2>1 DEF Placing
<1>8. left = Without(store, Targets(G, base, L))
    <2> SUFFICES ASSUME NEW q \in store
                 PROVE  (\A i \in DOMAIN named : named[i] # q[1]) <=> q[1] \notin Targets(G, base, L)
        BY DEF Without
    <2>1. q[1] # None
        BY Separate DEF Inv, ImportOK
    <2> QED
        BY <1>3, <1>4, <2>1 DEF Targets
<1>9. ASSUME NEW i \in 1 .. L, Placing(G, base, i) # {}
      PROVE  <<named[Max(registers(i))], IRIRelLiteral(base, read[i].s),
               read[i].p, Object(base, read[i])>> = Quad(G, base, i)
    <2> DEFINE k == Max(Placing(G, base, i))
    <2>1. k \in Placing(G, base, i)
        <3>1. i - 1 \in Nat /\ Placing(G, base, i) \subseteq 1 .. i - 1
            BY <1>2 DEF Placing
        <3> QED
            BY <1>9, <3>1, MaxIn
    <2>2. k \in 1 .. L /\ Taken(G, base, k)
        BY <1>2, <2>1 DEF Placing
    <2> HIDE DEF k
    <2>3. named[k] = Aim(G, base, k)
        BY <1>4, <2>2
    <2>4. Max(registers(i)) = k
        BY <1>7 DEF k
    <2> HIDE DEF registers
    <2>5. Quad(G, base, i) = <<Aim(G, base, k), IRIRelLiteral(base, ReadAt(G, i).s),
                              ReadAt(G, i).p, Object(base, ReadAt(G, i))>>
        BY DEF Quad, k
    <2> QED
        BY <1>3, <2>3, <2>4, <2>5
<1>10. kept = {i \in 1 .. L : Placing(G, base, i) # {}}
    BY <1>3, <1>7
<1>11. added = Quads(G, base, L)
    <2> HIDE DEF registers, kept
    <2> QED
        BY <1>9, <1>10 DEF Quads
<1> QED
    BY <1>1, <1>8, <1>11 DEF L

(***************************************************************************)
(* The text of the Update is legal SPARQL and does exactly what the        *)
(* statements mean, however graphs, subjects and predicates alternate and  *)
(* whatever the RDF store holds (bundle.go:182-363).                       *)
(***************************************************************************)
THEOREM UpdateIsMeant == Spec => []UpdateMeans
<1>1. Inv => UpdateMeans
    BY UpdateIs, MeantIs DEF UpdateMeans
<1> QED
    BY <1>1, Invariant, PTL

LEMMA SubSeqIs ==
    ASSUME NEW S, NEW w \in Seq(S), NEW k \in 0 .. Len(w)
    PROVE  /\ Len(SubSeq(w, 1, k)) = k
           /\ \A i \in 1 .. k : SubSeq(w, 1, k)[i] = w[i]
           /\ k = Len(w) => SubSeq(w, 1, k) = w
<1>1. k \in Int /\ Len(w) \in Nat /\ \A i \in 1 .. k : w[i] \in S
    OBVIOUS
<1>2. SubSeq(w, 1, k) \in Seq(S)
    BY <1>1, SubSeqProperties
<1>3. /\ Len(SubSeq(w, 1, k)) = k
      /\ \A i \in 1 .. k : SubSeq(w, 1, k)[i] = w[i]
    BY <1>1
<1>4. ASSUME k = Len(w)
      PROVE  SubSeq(w, 1, k) = w
    BY <1>2, <1>3, <1>4, SeqEqual
<1> QED
    BY <1>3, <1>4

LEMMA PrefixIs ==
    ASSUME NEW x \in Refs, NEW y \in Refs
    PROVE  IsPrefix(x, y) <=> Len(x) <= Len(y) /\ \A i \in 1 .. Len(x) : x[i] = y[i]
<1> DEFINE n == Len(x)
<1>1. x \in Seq(STRING) /\ y \in Seq(STRING) /\ n \in Nat /\ Len(y) \in Nat /\ n \in 0 .. n
    BY DEF Refs
<1>2. SubSeq(x, 1, n) = x
    BY <1>1, SubSeqIs
<1> HIDE DEF n
<1>3. CASE n <= Len(y)
    <2>1. n \in 0 .. Len(y)
        BY <1>1, <1>3
    <2> DEFINE z == SubSeq(y, 1, n)
    <2>2. z \in Seq(STRING) /\ Len(z) = n /\ \A i \in 1 .. n : z[i] = y[i]
        BY <1>1, <2>1, SubSeqIs
    <2> HIDE DEF z
    <2>3. (\A i \in 1 .. n : x[i] = z[i]) => x = z
        BY <1>1, <2>2, SeqEqual DEF n
    <2> QED
        BY <1>2, <1>3, <2>2, <2>3 DEF IsPrefix, n, z
<1>4. CASE ~(n <= Len(y))
    BY <1>4 DEF IsPrefix, n
<1> QED
    BY <1>3, <1>4

\* The origin of a URL is its first segment.
LEMMA OriginFirst ==
    ASSUME NEW x \in Refs \ {<<>>}, NEW y \in Refs \ {<<>>}
    PROVE  /\ Head(x) = Head(y) /\ Tail(x) = Tail(y) <=> x = y
           /\ Head(x) = Head(y) /\ IsStrictPrefix(Tail(x), Tail(y)) <=> IsStrictPrefix(x, y)
<1>1. \A w \in Refs \ {<<>>} :
         /\ Tail(w) \in Refs /\ Head(w) = w[1] /\ w \in Seq(STRING)
         /\ Len(w) \in Nat \ {0} /\ Len(Tail(w)) = Len(w) - 1
         /\ \A i \in 1 .. Len(w) - 1 : Tail(w)[i] = w[i + 1]
    BY DEF Refs
<1>2. Head(x) = Head(y) /\ Tail(x) = Tail(y) => x = y
    <2> SUFFICES ASSUME Head(x) = Head(y), Tail(x) = Tail(y) PROVE x = y
        OBVIOUS
    <2>1. Len(x) = Len(y)
        BY <1>1
    <2>2. ASSUME NEW i \in 1 .. Len(x)
          PROVE  x[i] = y[i]
        <3>1. CASE i = 1
            BY <1>1, <3>1
        <3>2. CASE i # 1
            <4>1. i - 1 \in 1 .. Len(x) - 1 /\ (i - 1) + 1 = i
                BY <1>1, <3>2
            <4>2. Tail(x)[i - 1] = x[i] /\ Tail(y)[i - 1] = y[i]
                BY <1>1, <2>1, <4>1
            <4> QED
                BY <4>2
        <3> QED
            BY <3>1, <3>2
    <2> QED
        BY <1>1, <2>1, <2>2, SeqEqual
<1>3. Head(x) = Head(y) => (IsPrefix(Tail(x), Tail(y)) <=> IsPrefix(x, y))
    <2> SUFFICES ASSUME Head(x) = Head(y)
                 PROVE  IsPrefix(Tail(x), Tail(y)) <=> IsPrefix(x, y)
        OBVIOUS
    <2>1. IsPrefix(Tail(x), Tail(y)) <=>
             Len(x) - 1 <= Len(y) - 1 /\ \A i \in 1 .. Len(x) - 1 : Tail(x)[i] = Tail(y)[i]
        <3>1. Tail(x) \in Refs /\ Tail(y) \in Refs
            BY <1>1
        <3>2. IsPrefix(Tail(x), Tail(y)) <=>
                 /\ Len(Tail(x)) <= Len(Tail(y))
                 /\ \A i \in 1 .. Len(Tail(x)) : Tail(x)[i] = Tail(y)[i]
            BY <3>1, PrefixIs
        <3>3. Len(Tail(x)) = Len(x) - 1 /\ Len(Tail(y)) = Len(y) - 1
            BY <1>1
        <3> QED
            BY Zenon, <3>2, <3>3
    <2>2. IsPrefix(x, y) <=> Len(x) <= Len(y) /\ \A i \in 1 .. Len(x) : x[i] = y[i]
        BY PrefixIs
    <2>3. Len(x) - 1 <= Len(y) - 1 <=> Len(x) <= Len(y)
        BY <1>1
    <2>4. ASSUME Len(x) <= Len(y)
          PROVE  (\A i \in 1 .. Len(x) - 1 : Tail(x)[i] = Tail(y)[i])
                 <=> \A i \in 1 .. Len(x) : x[i] = y[i]
        <3>1. ASSUME NEW i \in 1 .. Len(x) - 1
              PROVE  i + 1 \in 1 .. Len(x) /\ Tail(x)[i] = x[i + 1] /\ Tail(y)[i] = y[i + 1]
            BY <1>1, <2>4
        <3>2. ASSUME NEW i \in 1 .. Len(x), i # 1
              PROVE  i - 1 \in 1 .. Len(x) - 1 /\ (i - 1) + 1 = i
            BY <1>1, <3>2
        <3>3. x[1] = y[1]
            BY <1>1
        <3>4. ASSUME \A i \in 1 .. Len(x) - 1 : Tail(x)[i] = Tail(y)[i], NEW i \in 1 .. Len(x)
              PROVE  x[i] = y[i]
            <4>1. CASE i = 1
                BY <3>3, <4>1
            <4>2. CASE i # 1
                <5>1. i - 1 \in 1 .. Len(x) - 1 /\ (i - 1) + 1 = i
                    BY <3>2, <4>2
                <5>2. Tail(x)[i - 1] = x[(i - 1) + 1] /\ Tail(y)[i - 1] = y[(i - 1) + 1]
                    BY <3>1, <5>1
                <5>3. Tail(x)[i - 1] = Tail(y)[i - 1]
                    BY <3>4, <5>1
                <5> QED
                    BY <5>1, <5>2, <5>3
            <4> QED
                BY <4>1, <4>2
        <3>5. ASSUME \A i \in 1 .. Len(x) : x[i] = y[i], NEW i \in 1 .. Len(x) - 1
              PROVE  Tail(x)[i] = Tail(y)[i]
            <4>1. i + 1 \in 1 .. Len(x) /\ Tail(x)[i] = x[i + 1] /\ Tail(y)[i] = y[i + 1]
                BY <3>1
            <4> QED
                BY <3>5, <4>1
        <3> QED
            BY <3>4, <3>5
    <2> QED
        BY <2>1, <2>2, <2>3, <2>4
<1>4. IsPrefix(x, y) => Head(x) = Head(y)
    <2>1. 1 \in 1 .. Len(x)
        BY <1>1
    <2> QED
        BY <1>1, <2>1, PrefixIs
<1> QED
    BY <1>2, <1>3, <1>4 DEF IsStrictPrefix

\* isSubUrl compares segments, the origin included.
LEMMA SubUrlIs ==
    ASSUME NEW b \in Refs, Len(b) > 1, NEW u \in Refs \ {<<>>}
    PROVE  LET dir == IF Last(b) = Empty THEN Front(b) ELSE b
           IN  isSubUrl(b, u) <=> u = b \/ IsStrictPrefix(dir, u)
<1> DEFINE dir == IF Last(b) = Empty THEN Front(b) ELSE b
<1>1. b \in Seq(STRING) /\ Len(b) \in Nat /\ b # <<>> /\ Len(b) - 1 \in 0 .. Len(b)
    BY DEF Refs
<1>2. dir \in Refs \ {<<>>} /\ Head(dir) = Head(b)
    <2>1. Front(b) \in Refs /\ Len(Front(b)) = Len(b) - 1
          /\ \A i \in 1 .. Len(b) - 1 : Front(b)[i] = b[i]
        BY <1>1, FrontIs, SubSeqIs DEF Front
    <2>2. Front(b) \in Seq(STRING) /\ 1 \in 1 .. Len(b) - 1 /\ Front(b) # <<>>
        BY <1>1, <2>1 DEF Refs
    <2>3. Head(Front(b)) = Head(b)
        BY <1>1, <2>1, <2>2
    <2> QED
        BY <1>1, <2>1, <2>2, <2>3
<1>3. isSubUrl(b, u) <=>
         Head(u) = Head(b) /\ (Tail(u) = Tail(b) \/ IsStrictPrefix(Tail(dir), Tail(u)))
    BY Zenon DEF isSubUrl
<1> HIDE DEF dir
<1>4. Head(u) = Head(b) /\ Tail(u) = Tail(b) <=> u = b
    BY <1>1, OriginFirst
<1>5. Head(dir) = Head(u) /\ IsStrictPrefix(Tail(dir), Tail(u)) <=> IsStrictPrefix(dir, u)
    BY <1>2, OriginFirst
<1>6. isSubUrl(b, u) <=> u = b \/ IsStrictPrefix(dir, u)
    BY <1>2, <1>3, <1>4, <1>5
<1> QED
    BY <1>6 DEF dir

LEMMA SubUrlBelow ==
    ASSUME NEW b \in Refs, Len(b) > 1, NEW u \in Refs \ {<<>>}, isSubUrl(b, u)
    PROVE  /\ Len(u) >= Len(b)
           /\ \A i \in DOMAIN b : u[i] = b[i] \/ (i = Len(b) /\ b[i] = Empty)
<1> DEFINE dir == IF Last(b) = Empty THEN Front(b) ELSE b
<1>1. b \in Seq(STRING) /\ u \in Seq(STRING) /\ Len(b) \in Nat /\ Len(u) \in Nat
      /\ Len(b) - 1 \in 0 .. Len(b)
    BY DEF Refs
<1>2. /\ dir \in Refs /\ Len(dir) \in {Len(b) - 1, Len(b)}
      /\ \A i \in DOMAIN b : \/ (i \in 1 .. Len(dir) /\ dir[i] = b[i])
                            \/ (i = Len(b) /\ b[i] = Empty)
    <2>1. CASE Last(b) = Empty
        <3>1. dir = Front(b) /\ dir \in Refs
            BY <2>1, FrontIs
        <3>2. Len(Front(b)) = Len(b) - 1 /\ \A i \in 1 .. Len(b) - 1 : Front(b)[i] = b[i]
            BY <1>1, SubSeqIs DEF Front
        <3>3. b[Len(b)] = Empty /\ DOMAIN b = 1 .. Len(b)
            BY <1>1, <2>1 DEF Last
        <3>4. \A i \in DOMAIN b : i \in 1 .. Len(b) - 1 \/ (i = Len(b) /\ b[i] = Empty)
            BY <1>1, <3>3
        <3>5. Len(dir) = Len(b) - 1 /\ \A i \in 1 .. Len(b) - 1 : dir[i] = b[i]
            BY <3>1, <3>2
        <3> HIDE DEF dir
        <3> QED
            BY <3>1, <3>4, <3>5
    <2>2. CASE Last(b) # Empty
        <3>1. dir = b /\ DOMAIN b = 1 .. Len(b)
            BY <1>1, <2>2
        <3> HIDE DEF dir
        <3> QED
            BY <3>1
    <2> QED
        BY <2>1, <2>2
<1>3. u = b \/ IsStrictPrefix(dir, u)
    BY SubUrlIs
<1> HIDE DEF dir
<1>4. CASE u = b
    BY <1>1, <1>4
<1>5. CASE IsStrictPrefix(dir, u)
    <2>1. Len(dir) <= Len(u) /\ \A i \in 1 .. Len(dir) : dir[i] = u[i]
        BY <1>2, <1>5, PrefixIs DEF IsStrictPrefix
    <2>2. Len(dir) # Len(u)
        <3> SUFFICES ASSUME Len(dir) = Len(u) PROVE dir = u
            BY <1>5 DEF IsStrictPrefix
        <3>1. dir \in Seq(STRING)
            BY <1>2 DEF Refs
        <3> QED
            BY <1>1, <2>1, <3>1, SeqEqual
    <2>3. Len(u) >= Len(b)
        BY <1>1, <1>2, <2>1, <2>2
    <2> QED
        BY <1>2, <2>1, <2>3
<1> QED
    BY <1>3, <1>4, <1>5

(***************************************************************************)
(* An import changes no graph outside the URL it is posted to, neither on  *)
(* that server nor on another, whatever references the bundle holds        *)
(* (bundle.go:165-180, 205-210).                                           *)
(***************************************************************************)
THEOREM ImportStaysBelow == Spec => StaysBelow
<1> DEFINE Below(q) ==
              /\ Len(q[1]) >= Len(base)
              /\ \A i \in DOMAIN base :
                    q[1][i] = base[i] \/ (i = Len(base) /\ base[i] = Empty)
           Step == \A q \in (store \ store') \cup (store' \ store) : Below(q)
<1>1. ASSUME Inv, [Next]_vars
      PROVE  [Step]_vars
    <2>1. CASE Update
        <3> DEFINE D == Targets(graphs, base, Len(graphs))
                   N == Quads(graphs, base, Len(graphs))
        <3>1. store' = store \/ store' = Without(store, D) \cup N
            BY <1>1, <2>1, UpdateIs DEF Update
        <3>2. \A q \in N : q[1] \in D
            BY <1>1, BaseIs, QuadAt
        <3>3. ASSUME NEW q, q[1] \in D
              PROVE  Below(q)
            <4>1. q[1] \in Refs \ {<<>>} /\ isSubUrl(base, q[1])
                  /\ base \in Refs /\ Len(base) > 1
                BY <1>1, <3>3, BaseIs, TargetsAre
            <4> QED
                BY <4>1, SubUrlBelow
        <3> HIDE DEF D, N, Below
        <3>4. \A q \in (store \ store') \cup (store' \ store) : q[1] \in D
            BY <3>1, <3>2 DEF Without
        <3> QED
            BY <3>3, <3>4
    <2>2. CASE Pack
        <3>1. store' = store
            BY <1>1, <2>2, PackStep DEF Packs, importVars
        <3> QED
            BY <3>1
    <2>3. CASE Post \/ Reader \/ Handler
        <3>1. store' = store
            BY <2>3 DEF Post, Reader, Handler, SendStatement, CloseChannel, SendError, Produce,
                        NoGraphs, Register, Insert, Skip, Refuse, StoreFiles, importVars
        <3> QED
            BY <3>1
    <2>4. CASE UNCHANGED vars
        BY <2>4
    <2> QED
        BY <1>1, <2>1, <2>2, <2>3, <2>4 DEF Next
<1>2. [][Step]_vars <=> StaysBelow
    BY DEF StaysBelow
<1> QED
    BY <1>1, <1>2, Invariant, PTL DEF Spec

-----------------------------------------------------------------------------
(* What swbundle has written of a directory, and what it has yet to write *)

Paths == Files \cup Dirs

Has(G, st) == \E i \in 1 .. Len(G) : G[i] = st

\* st comes behind the triple that registers p.
After(G, p, st) ==
    \E i \in 1 .. Len(G) : G[i] = st /\ \E j \in 1 .. i - 1 : G[j] = RelativePath(p)

\* h is what p holds, or held when it was packed.
Held(p, h) == h = disk[p] \/ p \in changed

IsLine(st) ==
    \/ st = TypeTriple
    \/ \E p \in Paths :
          \/ st = RelativePath(p) \/ st = ContentType(p)
          \/ \E d \in Dirs : st = Child(d, p)
    \/ \E p \in Files, h \in Contents : st = Hash(p, h) /\ Held(p, h)

Pending(d, p) == \E k \in 1 .. Len(todo) : todo[k].dir = d /\ p \in todo[k].left

Listed(d, p) ==
    /\ After(graphs, d, Child(d, p))
    /\ p \in Dirs => Has(graphs, RelativePath(p))
    /\ p \in Files => opened = p \/ \E h \in Contents : After(graphs, p, Hash(p, h))

LinesOK == \A st : Has(graphs, st) => IsLine(st)
TodoOK == \A k \in 1 .. Len(todo) : Has(graphs, RelativePath(todo[k].dir))
MembersOK ==
    \A f \in Files :
        (\E h \in Contents : Has(graphs, Hash(f, h))) => f \in changed \/ disk[f] \in members
EntriesOK ==
    \A d \in Dirs : Has(graphs, RelativePath(d)) =>
        \A p \in Entries(d) : Pending(d, p) \/ Listed(d, p)

WalkOK ==
    /\ digest # None => opened # None /\ Held(opened, digest)
    /\ source = "walk" /\ ~failed =>
          /\ LinesOK /\ TodoOK /\ MembersOK /\ EntriesOK
          /\ Has(graphs, RelativePath(<<>>))

\* A hash that is inserted is wanted, and stored if a member has it.
HashKept(j) ==
    /\ Placing(graphs, base, j) # {}
    /\ ReadAt(graphs, j).p = "hash" /\ ~ReadAt(graphs, j).lit

WantedOK(n) == \A j \in 1 .. n : HashKept(j) => ReadAt(graphs, j).o \in wanted

FilesOK ==
    \A j \in 1 .. Len(graphs) : HashKept(j) =>
        \A h \in members : ReadAt(graphs, j).o = Sha1(h) => h \in files

StoredOK ==
    LET N == Quads(graphs, base, Len(graphs))
    IN  /\ N \subseteq store
        /\ \A q \in store : q[1] \in Targets(graphs, base, Len(graphs)) => q \in N

ArrivesOK ==
    /\ phase = "importing" =>
          \/ chan = NoMessage /\ WantedOK(sent)
          \/ chan.kind = "statement" /\ WantedOK(sent - 1)
          \/ chan.kind = "closed" /\ WantedOK(Len(graphs))
          \/ chan.kind = "error"
    /\ phase \in {"updating", "stored"} => FilesOK
    /\ phase = "stored" => StoredOK

TreeInv == Inv /\ WalkOK /\ ArrivesOK

-----------------------------------------------------------------------------
(* graphs.nq grows *)

\* What was there is there, and the new lines come behind it in their order.
LEMMA Grows ==
    ASSUME NEW S, NEW G \in Seq(S), NEW E \in Seq(S)
    PROVE  /\ \A st : Has(G, st) => Has(G \o E, st)
           /\ \A p, st : After(G, p, st) => After(G \o E, p, st)
           /\ \A st : Has(G \o E, st) => Has(G, st) \/ Has(E, st)
           /\ \A st : Has(E, st) => Has(G \o E, st)
           /\ \A p, st : Has(E, st) /\ Has(G, RelativePath(p)) => After(G \o E, p, st)
           /\ \A p, st : After(E, p, st) => After(G \o E, p, st)
<1> DEFINE H == G \o E
           m == Len(G)
           n == Len(E)
<1>1. m \in Nat /\ n \in Nat /\ Len(H) = m + n
    OBVIOUS
<1>2. \A i \in 1 .. m : H[i] = G[i]
    OBVIOUS
<1>3. \A i \in 1 .. n : H[m + i] = E[i]
    OBVIOUS
<1>4. \A i \in 1 .. m + n : i \in 1 .. m \/ \E j \in 1 .. n : i = m + j
    <2> SUFFICES ASSUME NEW i \in 1 .. m + n, i \notin 1 .. m
                 PROVE  \E j \in 1 .. n : i = m + j
        OBVIOUS
    <2>1. i - m \in 1 .. n /\ i = m + (i - m)
        BY <1>1
    <2> QED
        BY <2>1
<1> HIDE DEF H, m, n
<1>5. \A i \in 1 .. m : i \in 1 .. Len(H)
    BY <1>1
<1>6. \A i \in 1 .. n : m + i \in 1 .. Len(H)
    BY <1>1
<1>7. ASSUME NEW st, Has(G, st)
      PROVE  Has(H, st)
    BY <1>2, <1>5, <1>7 DEF Has, m
<1>8. ASSUME NEW p, NEW st, After(G, p, st)
      PROVE  After(H, p, st)
    <2>1. PICK i \in 1 .. m : G[i] = st /\ \E j \in 1 .. i - 1 : G[j] = RelativePath(p)
        BY <1>8 DEF After, m
    <2>2. \A j \in 1 .. i - 1 : j \in 1 .. m
        BY <1>1
    <2> QED
        BY <1>2, <1>5, <2>1, <2>2 DEF After
<1>9. ASSUME NEW st, Has(H, st)
      PROVE  Has(G, st) \/ Has(E, st)
    <2>1. PICK i \in 1 .. m + n : H[i] = st
        BY <1>1, <1>9 DEF Has
    <2> QED
        BY <1>2, <1>3, <1>4, <2>1 DEF Has, m, n
<1>10. ASSUME NEW st, Has(E, st)
       PROVE  Has(H, st)
    BY <1>3, <1>6, <1>10 DEF Has, n
<1>11. ASSUME NEW p, NEW st, Has(E, st), Has(G, RelativePath(p))
       PROVE  After(H, p, st)
    <2>1. PICK i \in 1 .. n : E[i] = st
        BY <1>11 DEF Has, n
    <2>2. PICK j \in 1 .. m : G[j] = RelativePath(p)
        BY <1>11 DEF Has, m
    <2>3. j \in 1 .. (m + i) - 1
        BY <1>1
    <2>4. m + i \in 1 .. Len(H) /\ H[m + i] = st /\ H[j] = RelativePath(p)
        BY <1>2, <1>3, <1>6, <2>1, <2>2
    <2> QED
        BY <2>3, <2>4 DEF After
<1>12. ASSUME NEW p, NEW st, After(E, p, st)
       PROVE  After(H, p, st)
    <2>1. PICK i \in 1 .. n : E[i] = st /\ \E j \in 1 .. i - 1 : E[j] = RelativePath(p)
        BY <1>12 DEF After, n
    <2>2. PICK j \in 1 .. i - 1 : E[j] = RelativePath(p)
        BY <2>1
    <2>3. j \in 1 .. n /\ m + j \in 1 .. (m + i) - 1
        BY <1>1
    <2>4. m + i \in 1 .. Len(H) /\ H[m + i] = st /\ H[m + j] = RelativePath(p)
        BY <1>3, <1>6, <2>1, <2>2, <2>3
    <2> QED
        BY <2>3, <2>4 DEF After
<1> QED
    BY <1>7, <1>8, <1>9, <1>10, <1>11, <1>12 DEF H

\* The lines that are written at once.
LEMMA FewLines ==
    ASSUME NEW x, NEW y, NEW z
    PROVE  /\ \A st : Has(<<x>>, st) <=> st = x
           /\ \A st : Has(<<x, y>>, st) <=> st \in {x, y}
           /\ \A st : Has(<<x, y, z>>, st) <=> st \in {x, y, z}
           /\ \A p : x = RelativePath(p) => After(<<x, y, z>>, p, y) /\ After(<<x, y, z>>, p, z)
<1>1. \A st : Has(<<x>>, st) <=> st = x
    BY DEF Has
<1>2. \A st : Has(<<x, y>>, st) <=> st \in {x, y}
    <2>1. 1 .. Len(<<x, y>>) = {1, 2}
        OBVIOUS
    <2> QED
        BY <2>1 DEF Has
<1> DEFINE E == <<x, y, z>>
<1>3. 1 .. Len(E) = {1, 2, 3} /\ E[1] = x /\ E[2] = y /\ E[3] = z
    OBVIOUS
<1> HIDE DEF E
<1>4. \A st : Has(E, st) <=> st \in {x, y, z}
    BY <1>3 DEF Has
<1>5. ASSUME NEW p, x = RelativePath(p)
      PROVE  After(E, p, y) /\ After(E, p, z)
    <2>1. 1 \in 1 .. 2 - 1 /\ 1 \in 1 .. 3 - 1
        OBVIOUS
    <2> QED
        BY <1>3, <1>5, <2>1 DEF After
<1> QED
    BY <1>1, <1>2, <1>4, <1>5 DEF E

\* What tells the lines apart.
LEMMA LinesApart ==
    /\ \A p : RelativePath(p).p = "relativePath" /\ RelativePath(p).s = p
    /\ \A p, h : Hash(p, h).p = "hash" /\ Hash(p, h).s = p /\ Hash(p, h).o = Sha1(h)
    /\ \A d, p : Child(d, p).p = "child"
    /\ \A p : ContentType(p).p = "contentType"
    /\ TypeTriple.p = "type"
    /\ \A h, k : Sha1(h) = Sha1(k) => h = k
BY DEF RelativePath, Hash, Child, ContentType, TypeTriple, Statement, Sha1

LEMMA LineKinds ==
    ASSUME NEW st, IsLine(st)
    PROVE  /\ st.p = "relativePath" => \E p \in Paths : st = RelativePath(p)
           /\ st.p = "hash" => \E p \in Files, h \in Contents : st = Hash(p, h) /\ Held(p, h)
BY LinesApart DEF IsLine

-----------------------------------------------------------------------------
(* The walk *)

\* A name is a file's or a directory's, and a file is no directory.
LEMMA Apart ==
    ASSUME OrdinaryTree
    PROVE  Files \cap Dirs = {}
<1> SUFFICES ASSUME NEW p \in Files, p \in Dirs
             PROVE  FALSE
    OBVIOUS
<1>1. Ordinary(p)
    BY DEF OrdinaryTree
<1>2. p # << >> /\ Last(p) = Empty
    BY <1>1 DEF OrdinaryTree, Ordinary
<1>3. p \in Seq(STRING)
    BY DiskAssumption DEF Refs
<1>4. Len(p) \in DOMAIN p /\ p[Len(p)] = Empty
    BY <1>2, <1>3 DEF Last
<1> QED
    BY <1>1, <1>4 DEF Ordinary

LEMMA NoneApart == None \notin Files \cup Dirs
BY DiskAssumption, NoneAssumption

LEMMA ReplacedIs ==
    ASSUME NEW S, NEW w \in Seq(S), NEW n \in 1 .. Len(w), NEW x \in S
    PROVE  /\ [w EXCEPT ![n] = x] \in Seq(S) /\ Len([w EXCEPT ![n] = x]) = Len(w)
           /\ \A k \in 1 .. Len(w) : [w EXCEPT ![n] = x][k] = IF k = n THEN x ELSE w[k]
OBVIOUS

\* What is left of the directories on the way when p has been visited.
LEMMA RemainingIs ==
    ASSUME todo \in Seq(Visits), todo # << >>, NEW p
    PROVE  /\ Remaining(p) \in Seq(Visits) /\ Len(Remaining(p)) = Len(todo)
           /\ \A k \in 1 .. Len(todo) : Remaining(p)[k].dir = todo[k].dir
           /\ \A k \in 1 .. Len(todo) : \A q : q \in todo[k].left =>
                 q \in Remaining(p)[k].left \/ (k = Len(todo) /\ q = p)
<1> DEFINE n == Len(todo)
           v == [todo[n] EXCEPT !.left = @ \ {p}]
           left == [todo EXCEPT ![n] = v]
<1>1. n \in 1 .. n /\ todo[n] \in Visits
    OBVIOUS
<1>2. /\ v \in Visits /\ v.dir = todo[n].dir
      /\ \A q : q \in todo[n].left => q \in v.left \/ q = p
    BY <1>1 DEF Visits
<1>3. Remaining(p) = left
    BY DEF Remaining
<1> HIDE DEF v
<1>4. left \in Seq(Visits) /\ Len(left) = n
    BY <1>1, <1>2, ReplacedIs
<1>5. \A k \in 1 .. n : left[k] = IF k = n THEN v ELSE todo[k]
    BY <1>1, <1>2, ReplacedIs
<1> HIDE DEF left
<1>6. \A k \in 1 .. n : left[k].dir = todo[k].dir
    BY <1>2, <1>5
<1>7. \A k \in 1 .. n : \A q : q \in todo[k].left => q \in left[k].left \/ (k = n /\ q = p)
    BY <1>2, <1>5
<1> QED
    BY <1>3, <1>4, <1>6, <1>7

LEMMA TodoDirs ==
    ASSUME WalkOK, source = "walk", ~failed, Walking, todo \in Seq(Visits)
    PROVE  Has(graphs, RelativePath(Last(todo).dir)) /\ Last(todo).dir \in Dirs
<1>1. Len(todo) \in 1 .. Len(todo) /\ Last(todo) = todo[Len(todo)]
    BY DEF Walking, Last
<1> QED
    BY <1>1, TodoIs DEF WalkOK, TodoOK, Walking

\* Lines that were right are right while no file changes.
LEMMA LinesStay ==
    ASSUME UNCHANGED <<disk, changed>>
    PROVE  /\ \A st : IsLine(st)' <=> IsLine(st)
           /\ \A p, h : Held(p, h)' <=> Held(p, h)
BY DEF IsLine, Held

LEMMA WalkBegins == ASSUME Inv, WalkOK, StartWalk PROVE WalkOK'
<1> USE DEF StartWalk
<1>1. digest' # None => opened' # None /\ Held(opened, digest)'
    BY DEF WalkOK, Held
<1>2. <<>> \in Dirs /\ \A st : Has(graphs', st) <=> st \in {TypeTriple, RelativePath(<<>>)}
    BY FewLines, DiskAssumption
<1>3. LinesOK'
    BY <1>2 DEF LinesOK, IsLine, Paths
<1>4. todo' = <<Visit(<<>>)>> /\ Visit(<<>>).dir = <<>> /\ Visit(<<>>).left = Entries(<<>>)
    BY DEF Visit
<1>5. /\ \A k \in 1 .. Len(todo') : todo'[k].dir = <<>>
      /\ 1 \in 1 .. Len(todo') /\ todo'[1].dir = <<>> /\ todo'[1].left = Entries(<<>>)
    BY <1>4
<1>6. TodoOK'
    BY <1>2, <1>5 DEF TodoOK
<1>7. MembersOK'
    BY <1>2, LinesApart DEF MembersOK
<1>8. EntriesOK'
    <2> SUFFICES ASSUME NEW d \in Dirs, Has(graphs', RelativePath(d)), NEW p \in Entries(d)
                 PROVE  Pending(d, p)'
        BY DEF EntriesOK
    <2>1. d = <<>>
        BY <1>2, LinesApart
    <2> QED
        BY <1>5, <2>1 DEF Pending
<1> QED
    BY <1>1, <1>2, <1>3, <1>6, <1>7, <1>8 DEF WalkOK

\* What has been said of an entry stays said.
LEMMA ListedStays ==
    ASSUME NEW d, NEW q, Listed(d, q),
           \A st : Has(graphs, st) => Has(graphs', st),
           \A p, st : After(graphs, p, st) => After(graphs', p, st),
           q \in Files /\ opened = q =>
              opened' = q \/ \E h \in Contents : After(graphs', q, Hash(q, h))
    PROVE  Listed(d, q)'
BY DEF Listed

LEMMA WalkEnters == ASSUME OrdinaryTree, Inv, WalkOK, NEW p \in Dirs, EnterDir(p) PROVE WalkOK'
<1> USE DEF EnterDir
<1> DEFINE dir == Last(todo).dir
           E == <<RelativePath(p), Child(dir, p)>>
           n == Len(todo)
<1>1. /\ source = "walk" /\ graphs \in Seq(Written) /\ todo \in Seq(Visits) /\ todo # << >>
      /\ Walking /\ opened = None
    BY DEF Inv, PackOK, Walking
<1>2. digest' # None => opened' # None /\ Held(opened, digest)'
    BY DEF WalkOK, Held
<1> SUFFICES ASSUME ~failed
             PROVE  LinesOK' /\ TodoOK' /\ MembersOK' /\ EntriesOK' /\ Has(graphs, RelativePath(<<>>))'
    BY <1>2 DEF WalkOK
<1>3. /\ LinesOK /\ TodoOK /\ MembersOK /\ EntriesOK /\ Has(graphs, RelativePath(<<>>))
      /\ Has(graphs, RelativePath(dir)) /\ dir \in Dirs
    BY <1>1, TodoDirs DEF WalkOK
<1>4. RelativePath(p) \in Written /\ Child(dir, p) \in Written
    BY <1>3, StatementsAre, DiskAssumption
<1>5. E \in Seq(Written)
    BY <1>4, SeqFacts
<1>6. \A st : Has(E, st) <=> st \in {RelativePath(p), Child(dir, p)}
    <2> HIDE DEF dir
    <2> QED
        BY FewLines
<1>7. graphs' = graphs \o E
    OBVIOUS
<1>8. todo' = Append(Remaining(p), Visit(p)) /\ opened' = opened /\ members' = members
    OBVIOUS
<1> HIDE DEF EnterDir, E
<1>9. /\ \A st : Has(graphs, st) => Has(graphs', st)
      /\ \A q, st : After(graphs, q, st) => After(graphs', q, st)
      /\ \A st : Has(graphs', st) => Has(graphs, st) \/ st \in {RelativePath(p), Child(dir, p)}
      /\ Has(graphs', RelativePath(p)) /\ After(graphs', dir, Child(dir, p))
    BY <1>1, <1>3, <1>5, <1>6, <1>7, Grows
<1>10. LinesOK'
    <2>1. IsLine(RelativePath(p)) /\ IsLine(Child(dir, p))
        BY <1>3 DEF IsLine, Paths
    <2>2. \A st : Has(graphs', st) => IsLine(st)
        BY <1>3, <1>9, <2>1 DEF LinesOK
    <2>3. \A st : IsLine(st)' <=> IsLine(st)
        BY LinesStay DEF EnterDir
    <2> QED
        BY <2>2, <2>3 DEF LinesOK
<1>11. /\ Remaining(p) \in Seq(Visits) /\ Len(Remaining(p)) = n
       /\ \A k \in 1 .. n : Remaining(p)[k].dir = todo[k].dir
       /\ \A k \in 1 .. n : \A q : q \in todo[k].left =>
             q \in Remaining(p)[k].left \/ (k = n /\ q = p)
    BY <1>1, RemainingIs
<1>12. /\ Len(todo') = n + 1 /\ todo'[n + 1] = Visit(p)
       /\ \A k \in 1 .. n : todo'[k] = Remaining(p)[k]
       /\ n \in Nat
    BY <1>8, <1>11, VisitIs
<1>13. TodoOK'
    <2> SUFFICES ASSUME NEW k \in 1 .. Len(todo')
                 PROVE  Has(graphs', RelativePath(todo'[k].dir))
        BY DEF TodoOK
    <2>1. CASE k = n + 1
        BY <1>9, <1>12, <2>1 DEF Visit
    <2>2. CASE k # n + 1
        <3>1. k \in 1 .. n
            BY <1>12, <2>2
        <3>2. todo'[k].dir = todo[k].dir
            BY <1>11, <1>12, <3>1
        <3> QED
            BY <1>3, <1>9, <3>1, <3>2 DEF TodoOK
    <2> QED
        BY <2>1, <2>2
<1>14. MembersOK'
    <2>1. \A f, h : Has(graphs', Hash(f, h)) => Has(graphs, Hash(f, h))
        BY <1>9, LinesApart
    <2>2. disk' = disk /\ changed' = changed
        BY DEF EnterDir
    <2> QED
        BY <1>3, <1>8, <2>1, <2>2 DEF MembersOK
<1>15. EntriesOK'
    <2> SUFFICES ASSUME NEW d \in Dirs, Has(graphs', RelativePath(d)), NEW q \in Entries(d)
                 PROVE  Pending(d, q)' \/ Listed(d, q)'
        BY DEF EntriesOK
    <2>1. CASE d = p
        <3>1. n + 1 \in 1 .. Len(todo') /\ todo'[n + 1].dir = d /\ q \in todo'[n + 1].left
            BY <1>12, <2>1 DEF Visit
        <3> QED
            BY <3>1 DEF Pending
    <2>2. CASE d # p
        <3>1. Has(graphs, RelativePath(d))
            BY <1>9, <2>2, LinesApart
        <3>2. CASE Listed(d, q)
            <4>1. opened = q => opened' = q
                BY <1>8
            <4> QED
                BY <1>9, <3>2, <4>1, ListedStays
        <3>3. CASE Pending(d, q)
            <4>1. PICK k \in 1 .. n : todo[k].dir = d /\ q \in todo[k].left
                BY <3>3 DEF Pending
            <4>2. CASE q \in Remaining(p)[k].left
                <5>1. k \in 1 .. Len(todo') /\ todo'[k].dir = d /\ q \in todo'[k].left
                    BY <1>11, <1>12, <4>1, <4>2
                <5> QED
                    BY <5>1 DEF Pending
            <4>3. CASE k = n /\ q = p
                <5>1. d = dir /\ q \in Dirs /\ q \notin Files
                    BY <4>1, <4>3, Apart DEF Last
                <5> QED
                    BY <1>9, <4>3, <5>1 DEF Listed
            <4> QED
                BY <1>11, <4>1, <4>2, <4>3
        <3> QED
            BY <1>3, <3>1, <3>2, <3>3 DEF EntriesOK
    <2> QED
        BY <2>1, <2>2
<1> QED
    BY <1>3, <1>9, <1>10, <1>13, <1>14, <1>15

LEMMA WalkOpens == ASSUME OrdinaryTree, Inv, WalkOK, NEW p \in Files, OpenFile(p) PROVE WalkOK'
<1> USE DEF OpenFile
<1> DEFINE dir == Last(todo).dir
           E == <<Child(dir, p)>>
           n == Len(todo)
<1>1. /\ source = "walk" /\ graphs \in Seq(Written) /\ todo \in Seq(Visits) /\ todo # << >>
      /\ Walking /\ opened = None
    BY DEF Inv, PackOK, Walking
<1>2. digest' # None => opened' # None /\ Held(opened, digest)'
    BY <1>1 DEF WalkOK
<1> SUFFICES ASSUME ~failed
             PROVE  LinesOK' /\ TodoOK' /\ MembersOK' /\ EntriesOK' /\ Has(graphs, RelativePath(<<>>))'
    BY <1>2 DEF WalkOK
<1>3. /\ LinesOK /\ TodoOK /\ MembersOK /\ EntriesOK /\ Has(graphs, RelativePath(<<>>))
      /\ Has(graphs, RelativePath(dir)) /\ dir \in Dirs
    BY <1>1, TodoDirs DEF WalkOK
<1>4. Child(dir, p) \in Written
    BY <1>3, StatementsAre, DiskAssumption
<1>5. E \in Seq(Written)
    BY <1>4, SeqFacts
<1>6. \A st : Has(E, st) <=> st = Child(dir, p)
    BY FewLines
<1>7. graphs' = graphs \o E
    BY <1>1, <1>4
<1>8. todo' = Remaining(p) /\ opened' = p /\ members' = members
    OBVIOUS
<1> HIDE DEF OpenFile, E
<1>9. /\ \A st : Has(graphs, st) => Has(graphs', st)
      /\ \A q, st : After(graphs, q, st) => After(graphs', q, st)
      /\ \A st : Has(graphs', st) => Has(graphs, st) \/ st = Child(dir, p)
      /\ After(graphs', dir, Child(dir, p))
    BY <1>1, <1>3, <1>5, <1>6, <1>7, Grows
<1>10. LinesOK'
    <2>1. IsLine(Child(dir, p))
        BY <1>3 DEF IsLine, Paths
    <2>2. \A st : Has(graphs', st) => IsLine(st)
        BY <1>3, <1>9, <2>1 DEF LinesOK
    <2>3. \A st : IsLine(st)' <=> IsLine(st)
        BY LinesStay DEF OpenFile
    <2> QED
        BY <2>2, <2>3 DEF LinesOK
<1>11. /\ Len(todo') = n
       /\ \A k \in 1 .. n : todo'[k].dir = todo[k].dir
       /\ \A k \in 1 .. n : \A q : q \in todo[k].left =>
             q \in todo'[k].left \/ (k = n /\ q = p)
    BY <1>1, <1>8, RemainingIs
<1>12. TodoOK'
    BY <1>3, <1>9, <1>11 DEF TodoOK
<1>13. \A f : /\ \A h : Has(graphs', Hash(f, h)) => Has(graphs, Hash(f, h))
              /\ Has(graphs', RelativePath(f)) => Has(graphs, RelativePath(f))
    BY <1>9, LinesApart
<1>14. MembersOK'
    <2>1. disk' = disk /\ changed' = changed
        BY DEF OpenFile
    <2> QED
        BY <1>3, <1>8, <1>13, <2>1 DEF MembersOK
<1>15. EntriesOK'
    <2> SUFFICES ASSUME NEW d \in Dirs, Has(graphs', RelativePath(d)), NEW q \in Entries(d)
                 PROVE  Pending(d, q)' \/ Listed(d, q)'
        BY DEF EntriesOK
    <2>1. Has(graphs, RelativePath(d))
        BY <1>13
    <2>2. CASE Listed(d, q)
        <3>1. ~(q \in Files /\ opened = q)
            BY <1>1, NoneApart
        <3> QED
            BY <1>9, <2>2, <3>1, ListedStays
    <2>3. CASE Pending(d, q)
        <3>1. PICK k \in 1 .. n : todo[k].dir = d /\ q \in todo[k].left
            BY <2>3 DEF Pending
        <3>2. CASE q \in todo'[k].left
            BY <1>11, <3>1, <3>2 DEF Pending
        <3>3. CASE k = n /\ q = p
            <4>1. d = dir /\ q \in Files /\ q \notin Dirs
                BY <3>1, <3>3, Apart DEF Last
            <4> QED
                BY <1>8, <1>9, <3>3, <4>1 DEF Listed
        <3> QED
            BY <1>11, <3>1, <3>2, <3>3
    <2> QED
        BY <1>3, <2>1, <2>2, <2>3 DEF EntriesOK
<1> QED
    BY <1>3, <1>9, <1>10, <1>12, <1>14, <1>15

\* WalkOK depends on these only.
LEMMA WalkSame ==
    ASSUME WalkOK, UNCHANGED <<source, packVars, graphs>>
    PROVE  WalkOK'
<1> USE DEF packVars
<1>1. \A st : IsLine(st)' <=> IsLine(st)
    BY LinesStay
<1>2. \A p, h : Held(p, h)' <=> Held(p, h)
    BY LinesStay
<1>3. \A d, p : (Pending(d, p)' <=> Pending(d, p)) /\ (Listed(d, p)' <=> Listed(d, p))
    BY DEF Pending, Listed
<1>4. LinesOK' <=> LinesOK
    BY <1>1 DEF LinesOK
<1>5. TodoOK' <=> TodoOK
    BY DEF TodoOK
<1>6. MembersOK' <=> MembersOK
    BY DEF MembersOK
<1>7. EntriesOK' <=> EntriesOK
    BY <1>3 DEF EntriesOK
<1> QED
    BY <1>2, <1>4, <1>5, <1>6, <1>7 DEF WalkOK

LEMMA WalkHashes == ASSUME Inv, WalkOK, HashFile PROVE WalkOK'
<1> USE DEF HashFile
<1>1. digest' # None => opened' # None /\ Held(opened, digest)'
    BY DEF Held
<1>2. LinesOK' <=> LinesOK
    <2>1. \A st : IsLine(st)' <=> IsLine(st)
        BY LinesStay
    <2> QED
        BY <2>1 DEF LinesOK
<1>3. (TodoOK' <=> TodoOK) /\ (MembersOK' <=> MembersOK)
    BY DEF TodoOK, MembersOK
<1>4. EntriesOK' <=> EntriesOK
    <2>1. \A d, p : (Pending(d, p)' <=> Pending(d, p)) /\ (Listed(d, p)' <=> Listed(d, p))
        BY DEF Pending, Listed
    <2> QED
        BY <2>1 DEF EntriesOK
<1> QED
    BY <1>1, <1>2, <1>3, <1>4 DEF WalkOK

LEMMA WalkCopies == ASSUME OrdinaryTree, Inv, WalkOK, CopyFile PROVE WalkOK'
<1> USE DEF CopyFile
<1> DEFINE p == opened
           h == digest
           E == Described(p, h)
<1>1. /\ source = "walk" /\ graphs \in Seq(Written) /\ p \in Files /\ h \in Contents
      /\ Held(p, h)
    BY DEF Inv, PackOK, WalkOK
<1> SUFFICES ASSUME ~failed
             PROVE  LinesOK' /\ TodoOK' /\ MembersOK' /\ EntriesOK' /\ Has(graphs, RelativePath(<<>>))'
    BY DEF WalkOK
<1>2. LinesOK /\ TodoOK /\ MembersOK /\ EntriesOK /\ Has(graphs, RelativePath(<<>>))
    BY <1>1 DEF WalkOK
<1>3. RelativePath(p) \in Written /\ Hash(p, h) \in Written /\ ContentType(p) \in Written
    BY <1>1, StatementsAre, HashIs, DiskAssumption
<1>4. /\ graphs' = graphs \o E /\ members' = members \cup {disk[p]}
      /\ todo' = todo /\ disk' = disk /\ changed' = changed /\ opened' = None
    OBVIOUS
<1> HIDE DEF CopyFile, p, h
<1>5. E \in Seq(Written)
    BY <1>3 DEF Described
<1>6. /\ \A st : Has(E, st) <=> st \in {RelativePath(p), Hash(p, h), ContentType(p)}
      /\ After(E, p, Hash(p, h))
    BY FewLines DEF Described
<1> HIDE DEF E
<1>7. /\ \A st : Has(graphs, st) => Has(graphs', st)
      /\ \A q, st : After(graphs, q, st) => After(graphs', q, st)
      /\ \A st : Has(graphs', st) =>
            Has(graphs, st) \/ st \in {RelativePath(p), Hash(p, h), ContentType(p)}
      /\ After(graphs', p, Hash(p, h))
    BY <1>1, <1>4, <1>5, <1>6, Grows
<1>8. LinesOK'
    <2>1. IsLine(RelativePath(p)) /\ IsLine(Hash(p, h)) /\ IsLine(ContentType(p))
        BY <1>1 DEF IsLine, Paths
    <2>2. \A st : Has(graphs', st) => IsLine(st)
        BY <1>2, <1>7, <2>1 DEF LinesOK
    <2>3. \A st : IsLine(st)' <=> IsLine(st)
        BY <1>4, LinesStay
    <2> QED
        BY <2>2, <2>3 DEF LinesOK
<1>9. TodoOK'
    BY <1>2, <1>4, <1>7 DEF TodoOK
<1>10. MembersOK'
    <2> SUFFICES ASSUME NEW f \in Files, NEW k \in Contents, Has(graphs', Hash(f, k))
                 PROVE  f \in changed' \/ disk'[f] \in members'
        BY DEF MembersOK
    <2>1. Has(graphs, Hash(f, k)) \/ f = p
        BY <1>7, LinesApart
    <2> QED
        BY <1>2, <1>4, <2>1 DEF MembersOK
<1>11. EntriesOK'
    <2> SUFFICES ASSUME NEW d \in Dirs, Has(graphs', RelativePath(d)), NEW q \in Entries(d)
                 PROVE  Pending(d, q)' \/ Listed(d, q)'
        BY DEF EntriesOK
    <2>1. d # p
        BY <1>1, Apart
    <2>2. Has(graphs, RelativePath(d))
        BY <1>7, <2>1, LinesApart
    <2>3. CASE Pending(d, q)
        BY <1>4, <2>3 DEF Pending
    <2>4. CASE Listed(d, q)
        <3>1. opened = q => After(graphs', q, Hash(q, h)) /\ h \in Contents
            BY <1>1, <1>7 DEF p
        <3> QED
            BY <1>7, <2>4, <3>1, ListedStays
    <2> QED
        BY <1>2, <2>2, <2>3, <2>4 DEF EntriesOK
<1> QED
    BY <1>2, <1>7, <1>8, <1>9, <1>10, <1>11

LEMMA WalkLeaves == ASSUME Inv, WalkOK, LeaveDir PROVE WalkOK'
<1> USE DEF LeaveDir, Walking
<1> DEFINE n == Len(todo)
<1>1. todo \in Seq(Visits) /\ todo # << >> /\ todo[n].left = {}
    BY DEF Inv, PackOK, Last
<1>2. n \in Nat /\ n > 0
    BY <1>1
<1>3. Len(todo') = n - 1 /\ \A k \in 1 .. n - 1 : todo'[k] = todo[k]
    <2>1. todo' = SubSeq(todo, 1, n - 1)
        BY DEF Front
    <2>2. n - 1 \in 0 .. n
        BY <1>2
    <2> QED
        BY <1>1, <2>1, <2>2, SubSeqIs
<1>4. UNCHANGED <<source, disk, opened, digest, failed, graphs, members, changed>>
    OBVIOUS
<1> HIDE DEF LeaveDir, Walking
<1>5. \A k \in 1 .. n - 1 : k \in 1 .. n
    BY <1>2
<1>6. TodoOK => TodoOK'
    BY <1>3, <1>4, <1>5 DEF TodoOK
<1>7. \A d, p : /\ Pending(d, p) => Pending(d, p)'
                /\ Listed(d, p) => Listed(d, p)'
    <2>1. ASSUME NEW d, NEW p, Pending(d, p)
          PROVE  Pending(d, p)'
        <3>1. PICK k \in 1 .. n : todo[k].dir = d /\ p \in todo[k].left
            BY <2>1 DEF Pending
        <3>2. k # n
            BY <1>1, <3>1
        <3>3. k \in 1 .. n - 1
            BY <1>2, <3>2
        <3> QED
            BY <1>3, <3>1, <3>3 DEF Pending
    <2> QED
        BY <1>4, <2>1 DEF Listed
<1>8. EntriesOK => EntriesOK'
    BY <1>4, <1>7 DEF EntriesOK
<1>9. LinesOK => LinesOK'
    BY <1>4, LinesStay DEF LinesOK
<1>10. MembersOK => MembersOK'
    BY <1>4 DEF MembersOK
<1>11. \A p, h : Held(p, h) => Held(p, h)'
    BY <1>4, LinesStay
<1> QED
    BY <1>4, <1>6, <1>8, <1>9, <1>10, <1>11 DEF WalkOK

LEMMA WalkFails == ASSUME WalkOK, PackFails PROVE WalkOK'
BY DEF WalkOK, PackFails

LEMMA WalkMeetsChange == ASSUME Inv, WalkOK, NEW x \in Contents, FileChanges(x) PROVE WalkOK'
<1> USE DEF FileChanges
<1>1. /\ opened \in Files /\ changed = {} /\ changed' = {opened}
      /\ disk \in [Files -> Contents] /\ disk' = [disk EXCEPT ![opened] = x]
      /\ UNCHANGED <<source, todo, opened, digest, failed, graphs, members>>
    BY DEF Inv, PackOK
<1> HIDE DEF FileChanges
<1>2. \A p \in Files : p \in changed' \/ disk'[p] = disk[p]
    BY <1>1
<1>3. \A p \in Files : \A h : Held(p, h) => Held(p, h)'
    BY <1>1, <1>2 DEF Held
<1>4. LinesOK => LinesOK'
    <2>1. \A st : IsLine(st) => IsLine(st)'
        BY <1>3 DEF IsLine
    <2> QED
        BY <1>1, <2>1 DEF LinesOK
<1>5. TodoOK => TodoOK'
    BY <1>1 DEF TodoOK
<1>6. MembersOK => MembersOK'
    BY <1>1, <1>2 DEF MembersOK
<1>7. EntriesOK => EntriesOK'
    <2>1. \A d, p : (Pending(d, p) => Pending(d, p)') /\ (Listed(d, p) => Listed(d, p)')
        BY <1>1 DEF Pending, Listed
    <2> QED
        BY <1>1, <2>1 DEF EntriesOK
<1> QED
    BY <1>1, <1>3, <1>4, <1>5, <1>6, <1>7 DEF WalkOK

LEMMA WalkByHand == ASSUME WalkOK, NEW st \in HandMade, WriteByHand(st) PROVE WalkOK'
<1>1. source' = "hand" /\ UNCHANGED packVars
    BY DEF WriteByHand
<1>2. \A p, h : Held(p, h)' <=> Held(p, h)
    BY <1>1, LinesStay DEF packVars
<1> QED
    BY <1>1, <1>2 DEF WalkOK, packVars

LEMMA Walked == ASSUME OrdinaryTree, Inv, WalkOK, [Next]_vars PROVE WalkOK'
<1>1. CASE Pack
    BY <1>1, WalkBegins, WalkEnters, WalkOpens, WalkHashes, WalkCopies, WalkLeaves, WalkFails,
       WalkMeetsChange, WalkByHand DEF Pack
<1>2. CASE ~Pack
    <2>1. UNCHANGED <<source, packVars, graphs>>
        BY <1>2 DEF Next, Post, Reader, SendStatement, CloseChannel, SendError, NoGraphs, Produce,
           Handler, Register, Insert, Skip, Refuse, StoreFiles, Update, vars
    <2> QED
        BY <2>1, WalkSame
<1> QED
    BY <1>1, <1>2

-----------------------------------------------------------------------------
(* The members of a bundle arrive *)

LEMMA KeptSame ==
    ASSUME UNCHANGED <<graphs, base>>
    PROVE  \A j : HashKept(j)' <=> HashKept(j)
BY DEF HashKept

\* The arrival is right once more statements have been received.
LEMMA ReceivedOn ==
    ASSUME Inv, ArrivesOK, Received, UNCHANGED <<graphs, base, phase, sent>>, chan' = NoMessage,
           wanted \subseteq wanted',
           HashKept(sent) => ReadAt(graphs, sent).o \in wanted'
    PROVE  ArrivesOK'
<1>1. phase = "importing" /\ chan.kind = "statement"
    BY DEF Received
<1>2. WantedOK(sent - 1) /\ sent \in Nat \ {0}
    <2>1. sent \in Nat \ {0}
        BY ReceivedIs
    <2> QED
        BY <1>1, <2>1 DEF ArrivesOK, NoMessage, Message
<1>3. \A j : HashKept(j)' <=> HashKept(j)
    BY KeptSame
<1>4. WantedOK(sent)'
    <2> SUFFICES ASSUME NEW j \in 1 .. sent, HashKept(j)
                 PROVE  ReadAt(graphs, j).o \in wanted'
        BY <1>3 DEF WantedOK
    <2>1. j = sent \/ j \in 1 .. sent - 1
        BY <1>2
    <2> QED
        BY <1>2, <2>1 DEF WantedOK
<1> QED
    BY <1>1, <1>4 DEF ArrivesOK

LEMMA ArrivesRegister == ASSUME Inv, ArrivesOK, Register(chan.st) PROVE ArrivesOK'
<1>1. PICK n \in Nat : sent = n + 1 /\ chan.st = ReadAt(graphs, n + 1)
    BY ReceivedIs DEF Register
<1>2. ReadAt(graphs, sent).p = "relativePath"
    BY <1>1 DEF Register, Accepted, Registers
<1>3. ~HashKept(sent)
    BY <1>2 DEF HashKept
<1> QED
    BY <1>3, ReceivedOn DEF Register

LEMMA ArrivesInsert == ASSUME Inv, ArrivesOK, Insert(chan.st) PROVE ArrivesOK'
<1>1. PICK n \in Nat : sent = n + 1 /\ chan.st = ReadAt(graphs, n + 1)
    BY ReceivedIs DEF Insert
<1>2. HashKept(sent) => ReadAt(graphs, sent).o \in wanted'
    BY <1>1 DEF HashKept, Insert
<1>3. wanted \subseteq wanted'
    BY DEF Insert
<1> QED
    BY <1>2, <1>3, ReceivedOn DEF Insert

LEMMA ArrivesSkip == ASSUME Inv, ArrivesOK, Skip(chan.st) PROVE ArrivesOK'
<1>1. PICK n \in Nat :
         /\ sent = n + 1 /\ chan.st = ReadAt(graphs, n + 1)
         /\ Made(graphs, base, rel, drop, ins, n)
    BY ReceivedIs DEF Skip
<1>2. ~HashKept(sent)
    <2> SUFFICES ASSUME HashKept(sent) PROVE FALSE
        OBVIOUS
    <2>1. ReadAt(graphs, n + 1).p = "hash" /\ Placing(graphs, base, n + 1) # {}
        BY <1>1 DEF HashKept
    <2>2. ReadAt(graphs, n + 1).g \in DOMAIN rel
        BY <1>1, <2>1, PlacingIs DEF Made
    <2>3. ~Registers(ReadAt(graphs, n + 1))
        BY <2>1 DEF Registers
    <2> QED
        BY <1>1, <2>2, <2>3 DEF Skip
<1> QED
    BY <1>2, ReceivedOn DEF Skip, makeVars

LEMMA ArrivesStored == ASSUME Inv, ArrivesOK, StoreFiles PROVE ArrivesOK'
<1> USE DEF StoreFiles
<1>1. WantedOK(Len(graphs))
    BY DEF ArrivesOK, NoMessage, Message
<1>2. FilesOK'
    <2> SUFFICES ASSUME NEW j \in 1 .. Len(graphs), HashKept(j), NEW h \in members,
                        ReadAt(graphs, j).o = Sha1(h)
                 PROVE  h \in files'
        BY KeptSame DEF FilesOK, packVars
    <2>1. Sha1(h) \in wanted
        BY <1>1 DEF WantedOK
    <2> QED
        BY <2>1
<1> QED
    BY <1>2 DEF ArrivesOK

LEMMA ArrivesUpdate == ASSUME Inv, ArrivesOK, Update PROVE ArrivesOK'
<1> USE DEF Update
<1> DEFINE D == Targets(graphs, base, Len(graphs))
           N == Quads(graphs, base, Len(graphs))
<1>1. phase = "updating" /\ phase' \in {"stored", "refused"} /\ FilesOK
    BY DEF ArrivesOK
<1>2. UNCHANGED <<graphs, base, members, files>>
    BY DEF packVars
<1>3. FilesOK'
    BY <1>1, <1>2, KeptSame DEF FilesOK
<1>4. phase' = "stored" => store' = Without(store, D) \cup N
    BY UpdateIs
<1>5. phase' = "stored" => StoredOK'
    <2>1. D' = D /\ N' = N
        BY <1>2
    <2> HIDE DEF D, N
    <2>2. phase' = "stored" => N \subseteq store' /\ \A q \in store' : q[1] \in D => q \in N
        BY <1>4 DEF Without
    <2> QED
        BY <2>1, <2>2 DEF StoredOK, D, N
<1> QED
    BY <1>1, <1>3, <1>5 DEF ArrivesOK

LEMMA ArrivesSender ==
    ASSUME Inv, ArrivesOK, SendStatement \/ CloseChannel \/ SendError PROVE ArrivesOK'
<1>1. ASSUME NEW m, Produce(m),
             \/ m.kind = "error"
             \/ m.kind = "closed" /\ sent = Len(graphs)
             \/ m.kind = "statement" /\ sent' = sent + 1
      PROVE  ArrivesOK'
    <2>1. /\ phase = "importing" /\ phase' = "importing" /\ chan = NoMessage /\ chan' = m
          /\ UNCHANGED <<graphs, base, wanted>>
        BY <1>1 DEF Produce, makeVars
    <2>2. sent \in Nat
        BY <1>1, ProduceFacts, BaseIs
    <2>3. WantedOK(sent)
        BY <2>1 DEF ArrivesOK, NoMessage, Message
    <2>4. ASSUME NEW n, WantedOK(n)
          PROVE  WantedOK(n)'
        BY <2>1, <2>4, KeptSame DEF WantedOK
    <2>5. CASE m.kind = "error"
        BY <2>1, <2>5 DEF ArrivesOK
    <2>6. CASE m.kind = "closed" /\ sent = Len(graphs)
        <3>1. WantedOK(Len(graphs))
            BY <2>3, <2>6
        <3>2. \A j \in 1 .. Len(graphs) : HashKept(j) => ReadAt(graphs, j).o \in wanted
            BY <3>1 DEF WantedOK
        <3>3. WantedOK(Len(graphs))'
            BY <2>1, <3>2, KeptSame DEF WantedOK
        <3> QED
            BY <2>1, <2>6, <3>3 DEF ArrivesOK
    <2>7. CASE m.kind = "statement" /\ sent' = sent + 1
        <3>1. sent' - 1 = sent
            BY <2>2, <2>7
        <3>2. WantedOK(sent' - 1)
            BY <2>3, <3>1
        <3>3. \A j \in 1 .. sent' - 1 : HashKept(j) => ReadAt(graphs, j).o \in wanted
            BY <3>2 DEF WantedOK
        <3>4. WantedOK(sent - 1)'
            BY <2>1, <3>3, KeptSame DEF WantedOK
        <3> QED
            BY <2>1, <2>7, <3>4 DEF ArrivesOK
    <2> QED
        BY <1>1, <2>5, <2>6, <2>7
<1>2. \A k, st : Message(k, st).kind = k
    BY DEF Message
<1>3. CASE SendStatement
    BY <1>1, <1>2, <1>3 DEF SendStatement
<1>4. CASE CloseChannel
    BY <1>1, <1>2, <1>4 DEF CloseChannel
<1>5. CASE SendError
    <2>1. Produce(Message("error", None))
        BY <1>5 DEF SendError
    <2>2. Message("error", None).kind = "error"
        BY <1>2
    <2> QED
        BY <1>1, <2>1, <2>2
<1> QED
    BY <1>3, <1>4, <1>5

LEMMA ArrivesPost == ASSUME Inv, Post PROVE ArrivesOK'
<1> USE DEF Post
<1>1. phase \in {"packing", "packed"}
    BY DEF Inv, PackOK
<1>2. sent = 0 /\ chan = NoMessage
    BY <1>1 DEF Inv, ImportOK, ChanOK
<1>3. WantedOK(sent)'
    <2>1. 1 .. sent' = {}
        BY <1>2 DEF importVars
    <2> QED
        BY <2>1 DEF WantedOK
<1> QED
    BY <1>2, <1>3 DEF ArrivesOK, importVars

LEMMA Arrives == ASSUME Inv, ArrivesOK, [Next]_vars PROVE ArrivesOK'
<1>1. CASE Pack
    <2>1. phase' \in {"packing", "packed"}
        BY <1>1, PackStep DEF Packs
    <2> QED
        BY <2>1 DEF ArrivesOK
<1>2. CASE Post
    BY <1>2, ArrivesPost
<1>3. CASE Reader
    <2>1. NoGraphs => ArrivesOK'
        BY DEF NoGraphs, ArrivesOK
    <2> QED
        BY <1>3, <2>1, ArrivesSender DEF Reader
<1>4. CASE Handler
    <2>1. Refuse => ArrivesOK'
        BY DEF Refuse, ArrivesOK
    <2> QED
        BY <1>4, <2>1, ArrivesRegister, ArrivesInsert, ArrivesSkip, ArrivesStored DEF Handler
<1>5. CASE Update
    BY <1>5, ArrivesUpdate
<1>6. CASE UNCHANGED vars
    <2>1. /\ UNCHANGED <<phase, chan, sent, wanted, store, files, members>>
          /\ UNCHANGED <<graphs, base>>
        BY <1>6 DEF vars, packVars, makeVars
    <2>2. \A j : HashKept(j)' <=> HashKept(j)
        BY <2>1, KeptSame
    <2>3. \A n : WantedOK(n)' <=> WantedOK(n)
        BY <2>1, <2>2 DEF WantedOK
    <2>4. (WantedOK(sent)' <=> WantedOK(sent)) /\ (WantedOK(sent - 1)' <=> WantedOK(sent - 1))
        BY <2>1, <2>2 DEF WantedOK
    <2>5. (WantedOK(Len(graphs))' <=> WantedOK(Len(graphs)))
        BY <2>1, <2>2 DEF WantedOK
    <2>6. (FilesOK' <=> FilesOK) /\ (StoredOK' <=> StoredOK)
        BY <2>1, <2>2 DEF FilesOK, StoredOK
    <2> QED
        BY <2>1, <2>4, <2>5, <2>6 DEF ArrivesOK
<1> QED
    BY <1>1, <1>2, <1>3, <1>4, <1>5, <1>6 DEF Next

LEMMA TreeInvariant == OrdinaryTree => (Spec => []TreeInv)
<1> SUFFICES ASSUME OrdinaryTree
             PROVE  Spec => []TreeInv
    OBVIOUS
<1>1. Init => TreeInv
    <2>1. Init => WalkOK /\ ArrivesOK
        BY DEF Init, WalkOK, ArrivesOK
    <2> QED
        BY <2>1, Initial DEF TreeInv
<1>2. TreeInv /\ [Next]_vars => TreeInv'
    BY Steps, Walked, Arrives DEF TreeInv
<1> QED
    BY <1>1, <1>2, PTL DEF Spec

-----------------------------------------------------------------------------
(* What is read of a line *)

Decoded(r) == AsRead(RelativePath(r)).s

LEMMA LineRead ==
    ASSUME NEW d, NEW p \in Refs, NEW h
    PROVE  /\ AsRead(RelativePath(p)) = Statement(Decoded(p), "relativePath", p, TRUE, None)
           /\ AsRead(Child(d, p)) = Statement(Decoded(d), "child", Decoded(p), FALSE, Decoded(d))
           /\ AsRead(Hash(p, h)) =
                 Statement(Decoded(p), "hash", Decoded(Sha1(h)), FALSE, Decoded(p))
           /\ Decoded(p) \in Refs
           /\ Plain(p) => Decoded(p) = p
<1> DEFINE Seg(x) == IF x \in DOMAIN Misread THEN Misread[x] ELSE x
           Iri(r) == IF r = None THEN None ELSE [i \in DOMAIN r |-> Seg(r[i])]
<1>1. \A st : AsRead(st) =
         [st EXCEPT !.s = Iri(@), !.g = Iri(@), !.o = IF st.lit THEN @ ELSE Iri(@)]
    BY Zenon DEF AsRead
<1>2. Iri(None) = None
    OBVIOUS
<1>3. p # None /\ p \in Seq(STRING)
    BY Separate DEF Refs
<1>4. Plain(p) => Iri(p) = p
    <2> SUFFICES ASSUME Plain(p) PROVE Iri(p) = p
        OBVIOUS
    <2>1. \A i \in DOMAIN p : p[i] \notin DOMAIN Misread
        BY DEF Plain
    <2>2. \A i \in DOMAIN p : Seg(p[i]) = p[i]
        BY <2>1
    <2>3. Iri(p) = [i \in DOMAIN p |-> Seg(p[i])]
        BY <1>3
    <2> HIDE DEF Seg, Iri
    <2>4. Iri(p) = [i \in DOMAIN p |-> p[i]]
        BY <2>2, <2>3
    <2> QED
        BY <1>3, <2>4
<1> HIDE DEF Iri
<1>5. ASSUME NEW r
      PROVE  /\ Decoded(r) = Iri(r)
             /\ AsRead(RelativePath(r)) = Statement(Iri(r), "relativePath", r, TRUE, None)
    <2> DEFINE st == Statement(r, "relativePath", r, TRUE, None)
    <2>1. AsRead(st) =
             [st EXCEPT !.s = Iri(@), !.g = Iri(@), !.o = IF st.lit THEN @ ELSE Iri(@)]
        BY <1>1
    <2>2. AsRead(st) = Statement(Iri(r), "relativePath", r, TRUE, Iri(None))
        BY <2>1 DEF Statement
    <2>3. AsRead(st) = Statement(Iri(r), "relativePath", r, TRUE, None)
        BY Zenon, <1>2, <2>2
    <2>4. Statement(Iri(r), "relativePath", r, TRUE, None).s = Iri(r)
        BY DEF Statement
    <2> QED
        BY Zenon, <2>3, <2>4 DEF Decoded, RelativePath
<1>6. AsRead(Child(d, p)) = Statement(Iri(d), "child", Iri(p), FALSE, Iri(d))
    BY <1>1 DEF Child, Statement
<1>7. AsRead(Hash(p, h)) = Statement(Iri(p), "hash", Iri(Sha1(h)), FALSE, Iri(p))
    BY <1>1 DEF Hash, Statement
<1>8. Decoded(p) \in Refs
    <2>1. RelativePath(p) \in AllStatements
        BY StatementsAre DEF Written
    <2>2. AsRead(RelativePath(p)) \in AllStatements
        BY <2>1, AsReadIs
    <2> QED
        BY <2>2 DEF Decoded, AllStatements
<1>9. Decoded(p) = Iri(p) /\ Decoded(d) = Iri(d) /\ Decoded(Sha1(h)) = Iri(Sha1(h))
    BY Zenon, <1>5
<1>10. AsRead(RelativePath(p)) = Statement(Decoded(p), "relativePath", p, TRUE, None)
    BY Zenon, <1>5
<1>11. AsRead(Child(d, p)) = Statement(Decoded(d), "child", Decoded(p), FALSE, Decoded(d))
    BY Zenon, <1>6, <1>9
<1>12. AsRead(Hash(p, h)) = Statement(Decoded(p), "hash", Decoded(Sha1(h)), FALSE, Decoded(p))
    BY Zenon, <1>7, <1>9
<1> QED
    BY Zenon, <1>4, <1>8, <1>9, <1>10, <1>11, <1>12

LEMMA RegisteringRead ==
    ASSUME NEW p \in Refs
    PROVE  /\ AsRead(RelativePath(p)) = Statement(Decoded(p), "relativePath", p, TRUE, None)
           /\ Plain(p) => Decoded(p) = p
BY LineRead

-----------------------------------------------------------------------------
(* Where a path goes *)

\* A name that means a page below the base.
Tidy(p) == p = <<>> \/ (Head(p) \notin Absolute \cup {Slash} /\ \A i \in DOMAIN p : p[i] # Dots)

Url(b, p) == IF p = <<>> THEN b ELSE Front(b) \o p

LEMMA PathsTidy ==
    ASSUME OrdinaryTree, NEW p \in Paths
    PROVE  Tidy(p) /\ p \in Refs
<1>1. p \in Refs
    BY DiskAssumption DEF Paths
<1>2. ASSUME NEW q \in Refs, Ordinary(q)
      PROVE  q # <<>> /\ Head(q) \notin Absolute \cup {Slash} /\ \A i \in DOMAIN q : q[i] # Dots
    <2>1. q \in Seq(STRING) /\ q # <<>>
        BY <1>2 DEF Refs, Ordinary
    <2>2. 1 \in DOMAIN q /\ Head(q) = q[1]
        BY <2>1
    <2> QED
        BY <1>2, <2>1, <2>2 DEF Ordinary
<1>3. CASE p \in Files
    <2>1. Ordinary(p)
        BY <1>3 DEF OrdinaryTree
    <2> QED
        BY <1>1, <1>2, <2>1 DEF Tidy
<1>4. CASE p \in Dirs /\ p # <<>>
    <2> DEFINE n == Len(p)
               q == Front(p)
    <2>1. Last(p) = Empty /\ Ordinary(q) /\ q \in Refs
        BY <1>1, <1>4, FrontIs DEF OrdinaryTree
    <2>2. p \in Seq(STRING) /\ n \in Nat \ {0} /\ DOMAIN p = 1 .. n /\ p[n] = Empty
        BY <1>1, <1>4, <2>1 DEF Refs, Last
    <2>3. q \in Seq(STRING) /\ Len(q) = n - 1 /\ \A i \in 1 .. n - 1 : q[i] = p[i]
        <3>1. q = SubSeq(p, 1, n - 1) /\ n - 1 \in 0 .. n
            BY <2>2 DEF Front
        <3> QED
            BY <2>1, <2>2, <3>1, SubSeqIs DEF Refs
    <2> HIDE DEF q, n
    <2>4. q # <<>> /\ Head(q) \notin Absolute \cup {Slash} /\ \A i \in DOMAIN q : q[i] # Dots
        BY <1>2, <2>1
    <2>5. n - 1 >= 1 /\ DOMAIN q = 1 .. n - 1
        BY <2>2, <2>3, <2>4
    <2>6. Head(p) = Head(q)
        BY <1>4, <2>2, <2>3, <2>5
    <2>7. ASSUME NEW i \in DOMAIN p
          PROVE  p[i] # Dots
        <3>1. i = n \/ i \in 1 .. n - 1
            BY <2>2
        <3>2. Empty # Dots
            BY DEF Empty, Dots
        <3> QED
            BY <2>2, <2>3, <2>4, <2>5, <3>1, <3>2
    <2>8. Head(p) \notin Absolute \cup {Slash}
        BY <2>4, <2>6
    <2> QED
        BY <1>1, <2>7, <2>8 DEF Tidy
<1> QED
    BY <1>1, <1>3, <1>4 DEF Paths, Tidy

\* What is before the last slash of a URL, and a path behind it.
LEMMA BelowIs ==
    ASSUME NEW b \in Refs \ {<<>>}, NEW p \in Refs
    PROVE  LET m == Len(b) - 1
               u == Front(b) \o p
           IN  /\ m \in Nat /\ u \in Refs /\ Len(u) = m + Len(p)
               /\ \A i \in 1 .. m : u[i] = b[i] /\ Front(b)[i] = b[i]
               /\ \A i \in 1 .. Len(p) : u[m + i] = p[i]
               /\ Len(Front(b)) = m
<1> DEFINE m == Len(b) - 1
           c == Front(b)
           u == c \o p
<1>1. b \in Seq(STRING) /\ p \in Seq(STRING) /\ m \in Nat /\ m \in 0 .. Len(b)
    BY DEF Refs
<1>2. c \in Seq(STRING)
    BY FrontIs DEF Refs
<1>3. Len(c) = m /\ \A i \in 1 .. m : c[i] = b[i]
    BY <1>1, SubSeqIs DEF Front
<1> HIDE DEF c, m
<1>4. u \in Seq(STRING) /\ Len(u) = m + Len(p)
    BY <1>1, <1>2, <1>3
<1>5. \A i \in 1 .. m : u[i] = c[i]
    BY <1>1, <1>2, <1>3
<1>6. \A i \in 1 .. Len(p) : u[m + i] = p[i]
    BY <1>1, <1>2, <1>3
<1> QED
    BY <1>1, <1>3, <1>4, <1>5, <1>6 DEF c, m, Refs

LEMMA ResolveTo ==
    ASSUME OrdinaryTree, NEW b \in Bases, NEW p \in Refs, Tidy(p)
    PROVE  Resolve(b, p) = Url(b, p)
<1>1. CASE p = <<>>
    BY <1>1 DEF Resolve, Url
<1>2. CASE p # <<>>
    <2> DEFINE t == Tail(b)
               m == Len(t) - 1
               u == Front(t) \o p
    <2>1. b \in Refs \ {<<>>} /\ b \in Seq(STRING) /\ Len(b) \in Nat /\ Len(b) > 1
        BY BasesAssumption DEF Refs
    <2>2. t \in Refs \ {<<>>} /\ Len(t) = Len(b) - 1 /\ \A i \in 1 .. Len(t) : t[i] = b[i + 1]
        <3>1. t \in Seq(STRING)
            BY <2>1, SeqFacts
        <3>2. Len(t) = Len(b) - 1 /\ \A i \in 1 .. Len(b) - 1 : t[i] = b[i + 1]
            BY <2>1
        <3> HIDE DEF t
        <3>3. Len(t) # 0
            BY <2>1, <3>2
        <3>4. t # <<>>
            BY <3>3
        <3> QED
            BY <3>1, <3>2, <3>4 DEF Refs
    <2> HIDE DEF t
    <2>3. /\ m \in Nat /\ u \in Refs /\ Len(u) = m + Len(p)
          /\ \A i \in 1 .. m : u[i] = t[i]
          /\ \A i \in 1 .. Len(p) : u[m + i] = p[i]
        BY <2>2, BelowIs
    <2>4. /\ p \in Seq(STRING) /\ DOMAIN p = 1 .. Len(p) /\ Len(p) \in Nat \ {0}
          /\ DOMAIN b = 1 .. Len(b) /\ Len(b) = m + 2
        BY <1>2, <2>1, <2>2 DEF Refs
    <2>5. \A i \in 1 .. m : t[i] # Dots
        <3>1. \A i \in DOMAIN b : b[i] # Dots
            BY DEF OrdinaryTree
        <3>2. ASSUME NEW i \in 1 .. m
              PROVE  i + 1 \in 1 .. Len(b) /\ i \in 1 .. Len(t)
            BY <2>2, <2>3, <2>4
        <3> HIDE DEF m
        <3> QED
            BY <2>2, <2>4, <3>1, <3>2
    <2>6. \A i \in DOMAIN p : p[i] # Dots
        BY <1>2 DEF Tidy
    <2> HIDE DEF u, m
    <2>7. ASSUME NEW i \in DOMAIN u
          PROVE  u[i] # Dots
        <3>1. i \in 1 .. m + Len(p)
            BY <2>3 DEF Refs
        <3>2. CASE i \in 1 .. m
            BY <2>3, <2>5, <3>2
        <3>3. CASE i \notin 1 .. m
            <4>1. i - m \in 1 .. Len(p) /\ i = m + (i - m)
                BY <2>3, <2>4, <3>1, <3>3
            <4>2. u[i] = p[i - m]
                BY <2>3, <4>1
            <4> QED
                BY <2>4, <2>6, <4>1, <4>2
        <3> QED
            BY <3>2, <3>3
    <2>8. u # <<>>
        BY <2>3, <2>4
    <2>9. Clean(u) = u
        BY <2>3, <2>7, <2>8, CleanSame
    <2>10. Resolve(b, p) = <<Head(b)>> \o Clean(u)
        BY <1>2 DEF Resolve, Tidy, Absolute, u, t
    <2>11. <<Head(b)>> \o u = Front(b) \o p
        <3> DEFINE v == <<Head(b)>> \o u
                   w == Front(b) \o p
        <3>1. u \in Seq(STRING) /\ Len(u) \in Nat /\ Head(b) = b[1] /\ Head(b) \in STRING
            BY <2>1, <2>3 DEF Refs
        <3>2. /\ v \in Seq(STRING) /\ Len(v) = 1 + Len(u) /\ v[1] = b[1]
              /\ \A i \in 1 .. Len(u) : v[i + 1] = u[i]
            BY <3>1
        <3>3. /\ Len(b) - 1 \in Nat /\ w \in Refs /\ Len(w) = (Len(b) - 1) + Len(p)
              /\ \A i \in 1 .. Len(b) - 1 : w[i] = b[i]
              /\ \A i \in 1 .. Len(p) : w[(Len(b) - 1) + i] = p[i]
            BY <2>1, BelowIs
        <3>4. w \in Seq(STRING)
            BY <3>3 DEF Refs
        <3> HIDE DEF v, w
        <3>5. /\ Len(v) = Len(w) /\ Len(w) = (m + 1) + Len(p)
              /\ \A i \in 1 .. m + 1 : w[i] = b[i]
              /\ \A i \in 1 .. Len(p) : w[(m + 1) + i] = p[i]
            BY <2>3, <2>4, <3>2, <3>3
        <3>6. ASSUME NEW i \in 1 .. Len(v)
              PROVE  v[i] = w[i]
            <4>1. CASE i = 1
                BY <2>3, <3>2, <3>5, <4>1
            <4>2. CASE i \in 2 .. m + 1
                <5>1. i - 1 \in 1 .. m /\ i - 1 \in 1 .. Len(u) /\ i - 1 \in 1 .. Len(t) /\ (i - 1) + 1 = i
                    BY <2>2, <2>3, <2>4, <4>2
                <5>2. v[i] = u[i - 1] /\ u[i - 1] = t[i - 1] /\ t[i - 1] = b[i]
                    BY <2>2, <2>3, <3>2, <5>1
                <5> QED
                    BY <2>3, <3>5, <4>2, <5>2
            <4>3. CASE i \notin 1 .. m + 1
                <5>1. /\ i - (m + 1) \in 1 .. Len(p) /\ i - 1 \in 1 .. Len(u)
                      /\ i - 1 = m + (i - (m + 1)) /\ i = (m + 1) + (i - (m + 1)) /\ (i - 1) + 1 = i
                    BY <2>3, <2>4, <3>2, <4>3
                <5>2. v[i] = u[i - 1] /\ u[i - 1] = p[i - (m + 1)]
                    BY <2>3, <3>2, <5>1
                <5> QED
                    BY <3>5, <5>1, <5>2
            <4> QED
                BY <2>3, <4>1, <4>2, <4>3
        <3>7. v = w
            BY <3>2, <3>4, <3>5, <3>6, SeqEqual
        <3> QED
            BY <3>7 DEF v, w
    <2> QED
        BY <1>2, <2>9, <2>10, <2>11 DEF Url
<1> QED
    BY <1>1, <1>2

\* A path is below a directory's URL, and only a file's own path goes to its URL.
LEMMA UrlIs ==
    ASSUME NEW b \in Refs, Len(b) > 1, Last(b) = Empty, NEW p \in Refs
    PROVE  /\ isSubUrl(b, Url(b, p))
           /\ \A f \in Refs : Ordinary(f) /\ Url(b, p) = Url(b, f) => p = f
<1> DEFINE m == Len(b) - 1
           c == Front(b)
<1>0. b \in Refs \ {<<>>}
    BY DEF Refs
<1>1. /\ m \in Nat /\ b \in Seq(STRING) /\ Len(b) = m + 1 /\ c \in Seq(STRING) /\ Len(c) = m
    BY <1>0, BelowIs, FrontIs DEF Refs
<1>2. b[m + 1] = Empty
    BY <1>1 DEF Last
<1>3. ASSUME NEW q \in Refs
      PROVE  /\ Len(c \o q) = m + Len(q) /\ Len(q) \in Nat /\ q \in Seq(STRING)
             /\ \A i \in 1 .. Len(q) : (c \o q)[m + i] = q[i]
    <2>1. /\ Len(c \o q) = m + Len(q)
          /\ \A i \in 1 .. Len(q) : (c \o q)[m + i] = q[i]
        BY <1>0, BelowIs
    <2> QED
        BY <2>1 DEF Refs
<1> HIDE DEF c, m
<1>4. isSubUrl(b, Url(b, p))
    <2>1. CASE p = <<>>
        BY <1>0, <2>1, SubUrlIs DEF Url
    <2>2. CASE p # <<>>
        <3>1. Len(c \o p) = m + Len(p) /\ Len(p) \in Nat \ {0} /\ p \in Seq(STRING)
            BY <1>3, <2>2
        <3>2. \A i \in 1 .. m : (c \o p)[i] = c[i]
            BY <1>1, <3>1
        <3>3. c \o p \in Seq(STRING) /\ m \in 0 .. Len(c \o p) /\ m \in 0 .. Len(c)
            BY <1>1, <3>1
        <3>4. SubSeq(c \o p, 1, m) = SubSeq(c, 1, m)
            <4>1. /\ Len(SubSeq(c, 1, m)) = m /\ Len(SubSeq(c \o p, 1, m)) = m
                  /\ \A i \in 1 .. m : SubSeq(c \o p, 1, m)[i] = SubSeq(c, 1, m)[i]
                BY <1>1, <3>2, <3>3, SubSeqIs
            <4>2. SubSeq(c, 1, m) \in Seq(STRING) /\ SubSeq(c \o p, 1, m) \in Seq(STRING)
                BY <1>1, <3>3
            <4> QED
                BY <4>1, <4>2, SeqEqual
        <3>5. c # c \o p /\ Len(c) <= Len(c \o p)
            BY <1>1, <3>1
        <3>6. IsStrictPrefix(c, c \o p)
            BY <1>1, <3>4, <3>5 DEF IsStrictPrefix, IsPrefix
        <3>7. c \o p \in Refs \ {<<>>}
            BY <3>1, <3>3, <1>1 DEF Refs
        <3> QED
            BY <2>2, <3>6, <3>7, SubUrlIs DEF Url, c
    <2> QED
        BY <2>1, <2>2
<1>5. ASSUME NEW f \in Refs, Ordinary(f), Url(b, p) = Url(b, f)
      PROVE  p = f
    <2>1. f # <<>> /\ \A i \in DOMAIN f : f[i] # Empty
        BY <1>5 DEF Ordinary
    <2>2. Url(b, f) = c \o f
        BY <2>1 DEF Url, c
    <2>3. /\ Len(c \o f) = m + Len(f) /\ Len(f) \in Nat /\ f \in Seq(STRING)
          /\ \A i \in 1 .. Len(f) : (c \o f)[m + i] = f[i]
        BY <1>3
    <2>4. p # <<>>
        <3> SUFFICES ASSUME p = <<>> PROVE FALSE
            OBVIOUS
        <3>1. b = c \o f
            BY <1>5, <2>2 DEF Url
        <3>2. Len(f) = 1
            <4>1. Len(b) = Len(c \o f)
                BY Zenon, <3>1
            <4>2. m + 1 = m + Len(f)
                BY Zenon, <1>1, <2>3, <4>1
            <4>3. m \in Nat /\ Len(f) \in Nat
                BY <1>1, <2>3
            <4>4. \A k, l \in Nat : k + 1 = k + l => l = 1
                OBVIOUS
            <4> QED
                BY Zenon, <4>2, <4>3, <4>4
        <3>3. f[1] = Empty /\ 1 \in DOMAIN f
            BY <1>2, <2>3, <3>1, <3>2
        <3> QED
            BY <2>1, <3>3
    <2>5. c \o p = c \o f
        BY <1>5, <2>2, <2>4 DEF Url, c
    <2>6. /\ Len(c \o p) = m + Len(p) /\ Len(p) \in Nat /\ p \in Seq(STRING)
          /\ \A i \in 1 .. Len(p) : (c \o p)[m + i] = p[i]
        BY <1>3
    <2>7. Len(p) = Len(f)
        BY <1>1, <2>3, <2>5, <2>6
    <2>8. \A i \in 1 .. Len(p) : p[i] = f[i]
        BY <2>3, <2>5, <2>6, <2>7
    <2> QED
        BY <2>3, <2>6, <2>7, <2>8, SeqEqual
<1> QED
    BY <1>4, <1>5

-----------------------------------------------------------------------------
(* What is imported of a directory *)

\* A directory was packed without error, and is imported at a directory's URL.
Packed == OrdinaryTree /\ TreeInv /\ source = "walk" /\ ~failed /\ Last(base) = Empty

LEMMA PackedIs ==
    ASSUME Packed
    PROVE  /\ base \in Bases /\ base \in Refs \ {<<>>} /\ Len(base) > 1 /\ graphs \in Seq(AllStatements)
           /\ \A i \in 1 .. Len(graphs) : IsLine(graphs[i])
           /\ \A i \in 1 .. Len(graphs) : ReadAt(graphs, i).p = graphs[i].p
<1>1. Inv /\ base \in Bases
    BY DEF Packed, TreeInv, Inv, ImportOK
<1>2. graphs \in Seq(AllStatements) /\ base \in Refs \ {<<>>} /\ Len(base) > 1
    BY <1>1, BaseIs
<1>3. \A i \in 1 .. Len(graphs) : Has(graphs, graphs[i])
    BY DEF Has
<1>4. \A i \in 1 .. Len(graphs) : IsLine(graphs[i])
    BY <1>3 DEF Packed, TreeInv, WalkOK, LinesOK
<1>5. \A st \in AllStatements : AsRead(st).p = st.p
    <2> SUFFICES ASSUME NEW st \in AllStatements PROVE AsRead(st).p = st.p
        OBVIOUS
    <2> DEFINE Seg(x) == IF x \in DOMAIN Misread THEN Misread[x] ELSE x
               Iri(r) == IF r = None THEN None ELSE [i \in DOMAIN r |-> Seg(r[i])]
    <2>1. AsRead(st) = [st EXCEPT !.s = Iri(@), !.g = Iri(@), !.o = IF st.lit THEN @ ELSE Iri(@)]
        BY Zenon DEF AsRead
    <2> HIDE DEF Iri
    <2> QED
        BY <2>1 DEF AllStatements
<1>6. \A i \in 1 .. Len(graphs) : ReadAt(graphs, i).p = graphs[i].p
    BY <1>2, <1>5 DEF ReadAt
<1> QED
    BY <1>1, <1>2, <1>4, <1>6

\* The triple that registers a path, as it is read.
LEMMA Registering ==
    ASSUME Packed, NEW k \in 1 .. Len(graphs), NEW p \in Paths, graphs[k] = RelativePath(p)
    PROVE  /\ ReadAt(graphs, k).s = Decoded(p) /\ Aim(graphs, base, k) = Url(base, p)
           /\ Plain(p) => Taken(graphs, base, k) /\ ReadAt(graphs, k).s = p
<1>1. p \in Refs /\ Tidy(p)
    BY PathsTidy DEF Packed
<1> DEFINE st == Statement(Decoded(p), "relativePath", p, TRUE, None)
<1>2. ReadAt(graphs, k) = st
    <2>1. AsRead(RelativePath(p)) = st
        BY <1>1, RegisteringRead
    <2> QED
        BY <2>1 DEF ReadAt
<1>3. st.s = Decoded(p) /\ st.p = "relativePath" /\ st.g = None /\ RelUri(st) = p
    BY DEF Statement, RelUri
<1> HIDE DEF st
<1>4. Aim(graphs, base, k) = Url(base, p)
    BY <1>1, <1>2, <1>3, PackedIs, ResolveTo DEF Aim, Packed
<1>5. ASSUME Plain(p)
      PROVE  Taken(graphs, base, k) /\ Decoded(p) = p
    <2>1. Parses(p)
        BY <1>5 DEF Plain, Parses
    <2>2. isSubUrl(base, Url(base, p))
        BY <1>1, PackedIs, UrlIs DEF Packed
    <2>3. Decoded(p) = p
        BY <1>1, <1>5, RegisteringRead
    <2> QED
        BY <1>2, <1>3, <1>4, <2>1, <2>2, <2>3 DEF Taken, Registers
<1> QED
    BY <1>2, <1>3, <1>4, <1>5

\* What is accepted registers a path of the directory.
LEMMA TakenIs ==
    ASSUME Packed, NEW k \in 1 .. Len(graphs), Taken(graphs, base, k)
    PROVE  \E p \in Paths :
              /\ graphs[k] = RelativePath(p)
              /\ ReadAt(graphs, k).s = Decoded(p) /\ Aim(graphs, base, k) = Url(base, p)
<1>1. ReadAt(graphs, k).p = "relativePath"
    BY DEF Taken, Registers
<1>2. IsLine(graphs[k]) /\ graphs[k].p = "relativePath"
    BY <1>1, PackedIs
<1>3. PICK p \in Paths : graphs[k] = RelativePath(p)
    BY <1>2, LineKinds
<1> QED
    BY <1>3, Registering

\* A line about a path goes to the page of the path.
LEMMA PlacedAt ==
    ASSUME Packed, NEW p \in Paths, Plain(p),
           NEW i \in 1 .. Len(graphs), ReadAt(graphs, i).g = p,
           NEW j \in 1 .. i - 1, graphs[j] = RelativePath(p)
    PROVE  /\ Placing(graphs, base, i) # {}
           /\ Aim(graphs, base, Max(Placing(graphs, base, i))) = Url(base, p)
<1> DEFINE S == Placing(graphs, base, i)
<1>1. Len(graphs) \in Nat /\ i - 1 \in Nat /\ \A k \in 1 .. i - 1 : k \in 1 .. Len(graphs)
    BY PackedIs
<1>2. j \in S
    <2>1. j \in 1 .. Len(graphs)
        BY <1>1
    <2>2. Taken(graphs, base, j) /\ ReadAt(graphs, j).s = p
        BY <2>1, Registering
    <2> QED
        BY <2>2 DEF Placing
<1>3. S \subseteq 1 .. i - 1 /\ \A k \in S : Taken(graphs, base, k) /\ ReadAt(graphs, k).s = p
    BY DEF Placing
<1> HIDE DEF S
<1>4. ASSUME NEW k \in S
      PROVE  Aim(graphs, base, k) = Url(base, p)
    <2>1. PICK q \in Paths : ReadAt(graphs, k).s = Decoded(q) /\ Aim(graphs, base, k) = Url(base, q)
        BY <1>1, <1>3, TakenIs
    <2>2. Decoded(q) = p
        BY <1>3, <2>1
    <2>3. q = p
        BY <2>2 DEF Packed, OrdinaryTree, Paths, Decoded
    <2> QED
        BY <2>1, <2>3
<1>5. Max(S) \in S
    BY <1>1, <1>2, <1>3, MaxIn
<1> QED
    BY <1>2, <1>4, <1>5 DEF S

-----------------------------------------------------------------------------
(* Every directory has been walked *)

\* The directory above is shorter, and its name has no escapes that a name in it has not.
LEMMA Above ==
    ASSUME OrdinaryTree, NEW d \in Dirs \ {<<>>}, NEW p \in Refs, IsPrefix(Front(d), p)
    PROVE  /\ Len(Front(d)) = Len(d) - 1 /\ Len(d) \in Nat
           /\ Plain(p) => Plain(d)
<1> DEFINE n == Len(d)
           c == Front(d)
<1>1. d \in Refs /\ d \in Seq(STRING) /\ n \in Nat \ {0} /\ DOMAIN d = 1 .. n /\ p \in Seq(STRING)
    BY DiskAssumption DEF Refs
<1>2. Last(d) = Empty
    BY DEF OrdinaryTree
<1>3. d[n] = Empty
    BY <1>1, <1>2 DEF Last
<1>4. c = SubSeq(d, 1, n - 1) /\ n - 1 \in 0 .. n /\ c \in Seq(STRING)
    BY <1>1, FrontIs DEF Front, Refs
<1>5. Len(c) = n - 1 /\ \A i \in 1 .. n - 1 : c[i] = d[i]
    BY <1>1, <1>4, SubSeqIs
<1> HIDE DEF c, n
<1>6. n - 1 <= Len(p) /\ SubSeq(c, 1, n - 1) = SubSeq(p, 1, n - 1)
    BY <1>5 DEF IsPrefix, c
<1>7. \A i \in 1 .. n - 1 : d[i] = p[i] /\ i \in DOMAIN p
    <2>1. n - 1 \in 0 .. Len(c) /\ n - 1 \in 0 .. Len(p)
        BY <1>1, <1>4, <1>5, <1>6
    <2>2. \A i \in 1 .. n - 1 : SubSeq(c, 1, n - 1)[i] = c[i]
        BY <1>4, <2>1, SubSeqIs
    <2>3. \A i \in 1 .. n - 1 : SubSeq(p, 1, n - 1)[i] = p[i]
        BY <1>1, <2>1, SubSeqIs
    <2>4. \A i \in 1 .. n - 1 : i \in DOMAIN p
        BY <1>1, <2>1
    <2> QED
        BY <1>5, <1>6, <2>2, <2>3, <2>4
<1>8. ASSUME Plain(p)
      PROVE  Plain(d)
    <2> SUFFICES ASSUME NEW i \in 1 .. n
                 PROVE  d[i] \notin Unparsable \cup DOMAIN Misread
        BY <1>1 DEF Plain
    <2>1. CASE i = n
        <3>1. Plain(<<Empty>>)
            BY DEF OrdinaryTree
        <3>2. 1 \in DOMAIN <<Empty>> /\ <<Empty>>[1] = Empty
            OBVIOUS
        <3> QED
            BY <1>3, <2>1, <3>1, <3>2 DEF Plain
    <2>2. CASE i # n
        <3>1. i \in 1 .. n - 1
            BY <1>1, <2>2
        <3> QED
            BY <1>7, <1>8, <3>1 DEF Plain
    <2> QED
        BY <2>1, <2>2
<1> QED
    BY <1>1, <1>5, <1>8 DEF c, n

\* The directory that a path is in.
LEMMA InDir ==
    ASSUME OrdinaryTree, NEW p \in Paths \ {<<>>}
    PROVE  \E d \in Dirs : /\ p \in Entries(d)
                           /\ p \in Dirs => Len(d) < Len(p)
                           /\ Plain(p) => Plain(d)
<1>1. PICK d \in Dirs : p \in Entries(d)
    BY DEF OrdinaryTree, Paths
<1>2. p \in Refs /\ d \in Refs /\ Len(p) \in Nat
    BY DiskAssumption DEF Paths, Refs
<1>3. CASE d = <<>>
    <2>1. Plain(d) /\ Len(d) = 0
        BY <1>3 DEF Plain
    <2>2. p \in Dirs => Len(p) = Len(<<>>) + 2
        BY <1>1, <1>3, Apart DEF Entries
    <2> QED
        BY <1>1, <1>2, <2>1, <2>2
<1>4. CASE d # <<>>
    <2>1. IsPrefix(Front(d), p)
        BY <1>1, <1>4 DEF Entries
    <2>2. p \in Dirs => Len(p) = Len(Front(d)) + 2
        BY <1>1, <1>4, Apart DEF Entries
    <2>3. Len(Front(d)) = Len(d) - 1 /\ Len(d) \in Nat /\ (Plain(p) => Plain(d))
        BY <1>2, <1>4, <2>1, Above
    <2> QED
        BY <1>1, <2>2, <2>3
<1> QED
    BY <1>3, <1>4

\* After the walk every directory is registered, and its entries are listed.
LEMMA Visited ==
    ASSUME Packed, phase = "stored"
    PROVE  \A d \in Dirs : /\ Has(graphs, RelativePath(d))
                           /\ \A p \in Entries(d) : Listed(d, p)
<1>1. todo = <<>> /\ opened = None
    BY NotPacking DEF Packed, TreeInv
<1>2. \A d, p : ~Pending(d, p)
    BY <1>1 DEF Pending
<1>3. EntriesOK /\ Has(graphs, RelativePath(<<>>))
    BY DEF Packed, TreeInv, WalkOK
<1>4. \A d \in Dirs : Has(graphs, RelativePath(d)) => \A p \in Entries(d) : Listed(d, p)
    BY <1>2, <1>3 DEF EntriesOK
<1> DEFINE X == {Len(d) : d \in {e \in Dirs : ~Has(graphs, RelativePath(e))}}
<1>5. X \in SUBSET Nat
    BY DiskAssumption DEF Refs
<1>6. ASSUME NEW n \in X, \A m \in X : n <= m
      PROVE  FALSE
    <2>1. PICK d \in Dirs : n = Len(d) /\ ~Has(graphs, RelativePath(d))
        OBVIOUS
    <2>2. d # <<>>
        BY <1>3, <2>1
    <2>3. PICK e \in Dirs : d \in Entries(e) /\ Len(e) < Len(d)
        BY <2>2, InDir DEF Packed, Paths
    <2>4. Len(e) \in Nat /\ Len(d) \in Nat
        BY DiskAssumption DEF Refs
    <2>5. Has(graphs, RelativePath(e))
        <3> SUFFICES ASSUME ~Has(graphs, RelativePath(e)) PROVE FALSE
            OBVIOUS
        <3>1. Len(e) \in X
            OBVIOUS
        <3>2. n <= Len(e)
            BY <1>6, <3>1
        <3> QED
            BY <2>1, <2>3, <2>4, <3>2
    <2>6. Has(graphs, RelativePath(d))
        BY <1>4, <2>3, <2>5 DEF Listed
    <2> QED
        BY <2>1, <2>6
<1>7. X = {}
    <2> HIDE DEF X
    <2> QED
        BY <1>5, <1>6, LeastNatural
<1>8. \A d \in Dirs : Has(graphs, RelativePath(d))
    BY <1>7
<1> QED
    BY <1>4, <1>8

-----------------------------------------------------------------------------
(* Every file is a page, and is linked *)

\* An IRI that means itself or a page below the base.
LEMMA ObjectIs ==
    ASSUME OrdinaryTree, NEW b \in Bases
    PROVE  /\ \A p \in Paths : Plain(p) => IRIRelLiteral(b, p) = Url(b, p)
           /\ \A h \in Contents : /\ Decoded(Sha1(h)) = Sha1(h)
                                  /\ IRIRelLiteral(b, Sha1(h)) = Sha1(h)
<1>1. ASSUME NEW p \in Paths, Plain(p)
      PROVE  IRIRelLiteral(b, p) = Url(b, p)
    <2>1. p \in Refs /\ Tidy(p)
        BY PathsTidy
    <2>2. Parses(p)
        BY <1>1 DEF Plain, Parses
    <2> QED
        BY <2>1, <2>2, ResolveTo DEF IRIRelLiteral
<1>2. ASSUME NEW h \in Contents
      PROVE  Decoded(Sha1(h)) = Sha1(h) /\ IRIRelLiteral(b, Sha1(h)) = Sha1(h)
    <2>1. Plain(<<Sha1Scheme>>) /\ Plain(<<h>>)
        BY DEF OrdinaryTree
    <2>2. \A w : DOMAIN <<w>> = {1} /\ <<w>>[1] = w
        OBVIOUS
    <2>3. Sha1Scheme \notin Unparsable \cup DOMAIN Misread /\ h \notin Unparsable \cup DOMAIN Misread
        BY <2>1, <2>2 DEF Plain
    <2> DEFINE r == Sha1(h)
    <2>4. DOMAIN r = {1, 2} /\ r[1] = Sha1Scheme /\ r[2] = h
        BY DEF Sha1
    <2>5. r \in Refs /\ r # <<>> /\ Head(r) = Sha1Scheme
        <3>1. h \in STRING
            BY DiskAssumption
        <3> QED
            BY <3>1, WordsAre, SeqFacts DEF Sha1, Refs
    <2> HIDE DEF r
    <2>6. Plain(r) /\ Parses(r)
        BY <2>3, <2>4 DEF Plain, Parses
    <2>7. Decoded(r) = r
        BY <2>5, <2>6, RegisteringRead
    <2>8. Resolve(b, r) = r
        BY <2>5 DEF Resolve, Opaque
    <2> QED
        BY <2>6, <2>7, <2>8 DEF IRIRelLiteral, r
<1> QED
    BY <1>1, <1>2

\* A quad of the bundle is in the store.
LEMMA QuadStored ==
    ASSUME Packed, phase = "stored", NEW i \in 1 .. Len(graphs), Placing(graphs, base, i) # {}
    PROVE  Quad(graphs, base, i) \in store
<1>1. StoredOK
    BY DEF Packed, TreeInv, ArrivesOK
<1>2. Quad(graphs, base, i) \in Quads(graphs, base, Len(graphs))
    BY DEF Quads
<1> QED
    BY <1>1, <1>2 DEF StoredOK

\* A listed entry is linked from the page of its directory.
LEMMA LinkStored ==
    ASSUME Packed, phase = "stored", NEW d \in Dirs, NEW p \in Entries(d), Plain(d), Plain(p)
    PROVE  Linked(Url(base, d), Url(base, p))
<1>1. d \in Paths /\ p \in Paths /\ d \in Refs /\ p \in Refs
    BY DiskAssumption DEF Paths, Entries
<1>2. After(graphs, d, Child(d, p))
    BY Visited DEF Listed
<1>3. PICK i \in 1 .. Len(graphs) :
         graphs[i] = Child(d, p) /\ \E j \in 1 .. i - 1 : graphs[j] = RelativePath(d)
    BY <1>2 DEF After
<1>4. ReadAt(graphs, i) = Statement(d, "child", p, FALSE, d)
    <2>1. Decoded(d) = d /\ Decoded(p) = p
        BY <1>1, RegisteringRead
    <2>2. AsRead(Child(d, p)) = Statement(Decoded(d), "child", Decoded(p), FALSE, Decoded(d))
        BY <1>1, LineRead
    <2> QED
        BY Zenon, <1>3, <2>1, <2>2 DEF ReadAt
<1>5. ReadAt(graphs, i).g = d
    BY <1>4 DEF Statement
<1>6. /\ Placing(graphs, base, i) # {}
      /\ Aim(graphs, base, Max(Placing(graphs, base, i))) = Url(base, d)
    BY <1>1, <1>3, <1>5, PlacedAt
<1>7. IRIRelLiteral(base, d) = Url(base, d) /\ IRIRelLiteral(base, p) = Url(base, p)
    BY <1>1, ObjectIs, PackedIs DEF Packed
<1>8. Quad(graphs, base, i) = <<Url(base, d), Url(base, d), "child", Url(base, p)>>
    BY <1>4, <1>6, <1>7 DEF Quad, Object, Statement
<1> QED
    BY <1>6, <1>8, QuadStored DEF Linked

\* How the hash of a file is read.
LEMMA HashRead ==
    ASSUME Packed, NEW i \in 1 .. Len(graphs), NEW p \in Files, NEW h \in Contents,
           graphs[i] = Hash(p, h)
    PROVE  /\ ReadAt(graphs, i).s = Decoded(p) /\ ReadAt(graphs, i).g = Decoded(p)
           /\ ReadAt(graphs, i).p = "hash" /\ ~ReadAt(graphs, i).lit
           /\ ReadAt(graphs, i).o = Sha1(h) /\ Object(base, ReadAt(graphs, i)) = Sha1(h)
<1>1. p \in Refs
    BY DiskAssumption
<1>2. Decoded(Sha1(h)) = Sha1(h) /\ IRIRelLiteral(base, Sha1(h)) = Sha1(h)
    BY ObjectIs, PackedIs DEF Packed
<1>3. ReadAt(graphs, i) = Statement(Decoded(p), "hash", Sha1(h), FALSE, Decoded(p))
    <2>1. AsRead(Hash(p, h)) = Statement(Decoded(p), "hash", Decoded(Sha1(h)), FALSE, Decoded(p))
        BY <1>1, LineRead
    <2> QED
        BY Zenon, <1>2, <2>1 DEF ReadAt
<1> QED
    BY <1>2, <1>3 DEF Statement, Object

\* The hash of a file that has been packed is its page's, and its content is stored.
LEMMA HashStored ==
    ASSUME Packed, phase = "stored", NEW f \in Files, Plain(f)
    PROVE  \E h \in Contents :
              /\ <<Url(base, f), Url(base, f), "hash", Sha1(h)>> \in store /\ Held(f, h)
              /\ f \notin changed => h \in files
              /\ Url(base, f) \in Targets(graphs, base, Len(graphs))
<1>1. f \in Paths \ {<<>>} /\ f \in Refs /\ f \in Paths
    BY DiskAssumption DEF Paths, Packed, OrdinaryTree, Ordinary
<1>2. PICK d \in Dirs : f \in Entries(d)
    BY <1>1, InDir DEF Packed
<1>3. opened = None
    BY NotPacking DEF Packed, TreeInv
<1>4. PICK h \in Contents : After(graphs, f, Hash(f, h))
    BY <1>2, <1>3, Visited, NoneApart DEF Listed
<1>5. PICK i \in 1 .. Len(graphs) :
         graphs[i] = Hash(f, h) /\ \E j \in 1 .. i - 1 : graphs[j] = RelativePath(f)
    BY <1>4 DEF After
<1>6. Decoded(f) = f
    BY <1>1, RegisteringRead
<1>7. /\ ReadAt(graphs, i).s = f /\ ReadAt(graphs, i).g = f
      /\ ReadAt(graphs, i).p = "hash" /\ ~ReadAt(graphs, i).lit
      /\ ReadAt(graphs, i).o = Sha1(h) /\ Object(base, ReadAt(graphs, i)) = Sha1(h)
    BY <1>5, <1>6, HashRead
<1>8. /\ Placing(graphs, base, i) # {}
      /\ Aim(graphs, base, Max(Placing(graphs, base, i))) = Url(base, f)
    BY <1>1, <1>5, <1>7, PlacedAt
<1>9. <<Url(base, f), Url(base, f), "hash", Sha1(h)>> \in store
    <2>1. IRIRelLiteral(base, f) = Url(base, f)
        BY <1>1, ObjectIs, PackedIs DEF Packed
    <2>2. Quad(graphs, base, i) = <<Url(base, f), Url(base, f), "hash", Sha1(h)>>
        BY <1>7, <1>8, <2>1 DEF Quad
    <2> QED
        BY <1>8, <2>2, QuadStored
<1>10. Held(f, h)
    <2>1. IsLine(Hash(f, h)) /\ Hash(f, h).p = "hash"
        BY <1>5, PackedIs, LinesApart
    <2>2. PICK p \in Files, k \in Contents : Hash(f, h) = Hash(p, k) /\ Held(p, k)
        BY <2>1, LineKinds
    <2>3. p = f /\ k = h
        BY <2>2, LinesApart
    <2> QED
        BY <2>2, <2>3
<1>11. ASSUME f \notin changed
       PROVE  h \in files
    <2>1. h = disk[f]
        BY <1>10, <1>11 DEF Held
    <2>2. Has(graphs, Hash(f, h))
        BY <1>5 DEF Has
    <2>3. h \in members
        BY <1>11, <2>1, <2>2 DEF Packed, TreeInv, WalkOK, MembersOK
    <2>4. HashKept(i)
        BY <1>7, <1>8 DEF HashKept
    <2> QED
        BY <1>7, <2>3, <2>4 DEF Packed, TreeInv, ArrivesOK, FilesOK
<1>12. Url(base, f) \in Targets(graphs, base, Len(graphs))
    <2>1. PICK j \in 1 .. i - 1 : graphs[j] = RelativePath(f)
        BY <1>5
    <2>2. j \in 1 .. Len(graphs)
        BY PackedIs
    <2>3. Taken(graphs, base, j) /\ Aim(graphs, base, j) = Url(base, f)
        BY <1>1, <2>1, <2>2, Registering
    <2> QED
        BY <2>2, <2>3 DEF Targets
<1> QED
    BY <1>9, <1>10, <1>11, <1>12

\* And nothing else is.
LEMMA OnlyHash ==
    ASSUME Packed, phase = "stored", NEW f \in Files, Plain(f),
           Url(base, f) \in Targets(graphs, base, Len(graphs)),
           NEW q \in store, q[1] = Url(base, f), q[3] = "hash"
    PROVE  \E h \in Contents : q[4] = Sha1(h) /\ Held(f, h)
<1>1. f \in Paths /\ f \in Refs /\ Ordinary(f) /\ Decoded(f) = f
    BY DiskAssumption, RegisteringRead DEF Paths, Packed, OrdinaryTree
<1>2. q \in Quads(graphs, base, Len(graphs))
    BY DEF Packed, TreeInv, ArrivesOK, StoredOK
<1>3. PICK i \in 1 .. Len(graphs) : Placing(graphs, base, i) # {} /\ q = Quad(graphs, base, i)
    BY <1>2 DEF Quads
<1> DEFINE k == Max(Placing(graphs, base, i))
<1>4. k \in 1 .. i - 1 /\ Taken(graphs, base, k) /\ ReadAt(graphs, k).s = ReadAt(graphs, i).g
    <2>1. i - 1 \in Nat /\ Placing(graphs, base, i) \subseteq 1 .. i - 1
        BY DEF Placing
    <2>2. k \in Placing(graphs, base, i)
        BY <1>3, <2>1, MaxIn
    <2> QED
        BY <2>2 DEF Placing
<1>5. Aim(graphs, base, k) = Url(base, f)
    BY <1>3 DEF Quad
<1> HIDE DEF k
<1>6. k \in 1 .. Len(graphs)
    BY <1>4, PackedIs
<1>7. PICK p \in Paths : ReadAt(graphs, k).s = Decoded(p) /\ Aim(graphs, base, k) = Url(base, p)
    BY <1>4, <1>6, TakenIs
<1>8. p = f
    <2>1. p \in Refs
        BY DiskAssumption DEF Paths
    <2> QED
        BY <1>1, <1>5, <1>7, <2>1, PackedIs, UrlIs DEF Packed
<1>9. ReadAt(graphs, i).g = f
    BY <1>1, <1>4, <1>7, <1>8
<1>10. ReadAt(graphs, i).p = "hash"
    BY <1>3 DEF Quad
<1>11. IsLine(graphs[i]) /\ graphs[i].p = "hash"
    BY <1>10, PackedIs
<1>12. PICK g \in Files, h \in Contents : graphs[i] = Hash(g, h) /\ Held(g, h)
    BY <1>11, LineKinds
<1>13. g = f
    <2>1. Decoded(g) = f
        BY <1>9, <1>12, HashRead
    <2> QED
        BY <2>1 DEF Packed, OrdinaryTree, Decoded
<1>14. q[4] = Sha1(h)
    <2>1. Object(base, ReadAt(graphs, i)) = Sha1(h)
        BY <1>12, HashRead
    <2> QED
        BY <1>3, <2>1 DEF Quad
<1> QED
    BY <1>12, <1>13, <1>14

LEMMA ServedIs ==
    ASSUME Packed, phase = "stored", NEW f \in Files, Plain(f)
    PROVE  Served(f)
<1> DEFINE u(p) == Front(base) \o p
           Parents == {d \in Dirs : d # <<>> /\ IsPrefix(Front(d), f)}
<1>1. OrdinaryTree /\ f \in Refs /\ f # <<>>
    BY DiskAssumption DEF Packed, OrdinaryTree, Ordinary
<1>2. u(f) = Url(base, f)
    BY <1>1 DEF Url
<1>3. ASSUME f \notin changed
      PROVE  Page(u(f)) = {Sha1(disk[f])} /\ disk[f] \in files
    <2>1. PICK h \in Contents :
             /\ <<Url(base, f), Url(base, f), "hash", Sha1(h)>> \in store /\ Held(f, h)
             /\ h \in files /\ Url(base, f) \in Targets(graphs, base, Len(graphs))
        BY <1>3, HashStored
    <2>2. h = disk[f]
        BY <1>3, <2>1 DEF Held
    <2>3. ASSUME NEW q \in store, q[1] = Url(base, f), q[3] = "hash"
          PROVE  q[4] = Sha1(disk[f])
        <3>1. PICK k \in Contents : q[4] = Sha1(k) /\ Held(f, k)
            BY <2>1, <2>3, OnlyHash
        <3> QED
            BY <1>3, <3>1 DEF Held
    <2> DEFINE v == Url(base, f)
               x == <<v, v, "hash", Sha1(h)>>
    <2>4. x \in store /\ x[1] = v /\ x[2] = v /\ x[3] = "hash" /\ x[4] = Sha1(h)
        BY <2>1
    <2> HIDE DEF v, x
    <2>5. Page(v) = {Sha1(disk[f])}
        <3>1. Sha1(disk[f]) \in Page(v)
            BY <2>2, <2>4 DEF Page
        <3>2. \A y \in Page(v) : y = Sha1(disk[f])
            BY <2>3 DEF Page, v
        <3> QED
            BY <3>1, <3>2
    <2> QED
        BY <1>2, <2>1, <2>2, <2>5 DEF v
<1>4. ASSUME NEW p \in Parents \cup {f}
      PROVE  \E d \in Dirs : Linked(IF d = <<>> THEN base ELSE u(d), u(p))
    <2>1. p \in Paths \ {<<>>} /\ Plain(p)
        BY <1>1, Above DEF Paths
    <2>2. PICK d \in Dirs : p \in Entries(d) /\ Plain(d)
        BY <1>1, <2>1, InDir
    <2>3. Linked(Url(base, d), Url(base, p))
        BY <2>1, <2>2, LinkStored
    <2>4. u(p) = Url(base, p) /\ (IF d = <<>> THEN base ELSE u(d)) = Url(base, d)
        BY <2>1 DEF Url
    <2> HIDE DEF u
    <2> QED
        BY <2>3, <2>4
<1> HIDE DEF u, Parents
<1> QED
    BY <1>3, <1>4 DEF Served, u, Parents

(***************************************************************************)
(* For any directory of ordinary names, walked in any order, and any URL   *)
(* of a directory that it is imported at: every file whose name needs no   *)
(* escape is a page with its content, which is stored, and is linked from  *)
(* its parents (swbundle/main.go:75-157, writer.go:54-99,                  *)
(* bundle.go:182-268).                                                     *)
(***************************************************************************)
THEOREM TreeIsImported == OrdinaryTree => (Spec => []ImportedTree)
<1> SUFFICES ASSUME OrdinaryTree
             PROVE  Spec => []ImportedTree
    OBVIOUS
<1>1. TreeInv => ImportedTree
    BY ServedIs DEF ImportedTree, Imported, Packed
<1> QED
    BY <1>1, TreeInvariant, PTL

=============================================================================
