---------------------------- MODULE AccessProofs ----------------------------
(***************************************************************************)
(* Proofs about Access, for any ACLs, graphs and requests.                 *)
(***************************************************************************)
EXTENDS Access, FiniteSetTheorems, SequenceTheorems, TLAPS

\* A set of naturals that is not empty has a least element.
LEMMA LeastNatural ==
    ASSUME NEW T \in SUBSET Nat, T # {}
    PROVE  \E n \in T : \A m \in T : n <= m
<1> DEFINE Lower(n) == {k \in Nat : k < n}
           R == StrictSubsetOrdering(Nat)
           S == FiniteSubsetsOf(Nat)
           U == {Lower(n) : n \in T}
<1>1. IsWellFoundedOn(R, S)
    BY FS_StrictSubsetOrderingWellFounded
<1>2. ASSUME NEW n \in Nat
      PROVE  Lower(n) \in S
    <2>1. Lower(n) \subseteq 0 .. n
        OBVIOUS
    <2>2. IsFiniteSet(0 .. n)
        BY FS_Interval
    <2> QED
        BY <2>1, <2>2, FS_Subset DEF FiniteSubsetsOf
<1>3. U \subseteq S /\ U # {}
    BY <1>2
<1>4. \E x \in U : \A y \in U : ~(<<y, x>> \in R)
    <2> HIDE DEF R, S, U
    <2> QED
        BY <1>1, <1>3, WFMin
<1>5. PICK n \in T : \A m \in T : ~(<<Lower(m), Lower(n)>> \in R)
    BY <1>4
<1>6. ASSUME NEW m \in T, m < n
      PROVE  FALSE
    <2>1. m \in Nat /\ n \in Nat
        OBVIOUS
    <2>2. m \in Lower(n) /\ m \notin Lower(m)
        BY <1>6, <2>1
    <2>3. \A k \in Lower(m) : k \in Lower(n)
        BY <1>6, <2>1
    <2>4. Lower(m) \subseteq Lower(n) /\ Lower(m) # Lower(n)
        BY <2>2, <2>3
    <2>5. Lower(m) \subseteq Nat /\ Lower(n) \subseteq Nat
        OBVIOUS
    <2>6. <<Lower(m), Lower(n)>> \in R
        BY <2>4, <2>5 DEF StrictSubsetOrdering
    <2> QED
        BY <2>6, <1>5
<1> QED
    BY <1>5, <1>6

(* Types, and what a request may read *)

Steps == {"new", "check", "admitted", "listed", "done", "denied", "failed"}

TypeInv ==
    /\ acl \subseteq AclRows /\ graphs \subseteq Graphs
    /\ pc \in [Reqs -> Steps] /\ call \in [Reqs -> Calls]
    /\ users \in [Reqs -> Seq(STRING)]
    /\ allowed \in [Reqs -> SUBSET Urls] /\ reads \in [Reqs -> SUBSET Urls]
    /\ changes \in 0 .. MaxChanges

\* Nothing is read before the list is there, and only what is on the list.
ReadsInv ==
    \A r \in Reqs :
        /\ pc[r] = "done" /\ call[r].sparql => reads[r] # {}
        /\ pc[r] \in {"new", "check", "admitted", "denied"} => allowed[r] = {}
        /\ pc[r] # "done" => reads[r] = {}
        /\ reads[r] \subseteq allowed[r]

Within(g, u) == g = u \/ Below(g, u)

\* The list has graphs below the URL that is asked.
ListInv == \A r \in Reqs : \A g \in allowed[r] : Within(g, QueriedUrl(call[r]))

Inv == TypeInv /\ ReadsInv /\ ListInv

LEMMA Strings == Empty \in STRING /\ Anonymous \in STRING
BY GraphsAssumption

Queries == Seq(STRING) \ {<<Empty>>}

LEMMA QueryTypes == NoQuery \in Queries /\ Urls = [path : Seq(STRING) \ {<<>>}, query : Queries]
BY DEF NoQuery, Queries, Urls

LEMMA QueriedType ==
    ASSUME NEW c \in Calls
    PROVE  QueriedUrl(c) \in Urls /\ c.url \in Urls /\ c.certs \in Seq(STRING)
<1>1. c.url \in Urls /\ c.certs \in Seq(STRING)
    BY CallsAssumption
<1>2. Url(c.url.path, NoQuery) \in Urls
    <2>1. c.url.path \in Seq(STRING) \ {<<>>}
        BY <1>1 DEF Urls
    <2> QED
        BY <2>1, QueryTypes DEF Url
<1> QED
    BY <1>1, <1>2 DEF QueriedUrl

\* The graphs whose names start with a directory's are below it.
LEMMA SubGraphsBelow ==
    ASSUME NEW u \in Urls, graphs \subseteq Graphs
    PROVE  SubGraphs(u) \subseteq Urls /\ \A g \in SubGraphs(u) : Within(g, u)
<1>1. CASE IsDirectory(u) /\ u.query = NoQuery
    BY <1>1, GraphsAssumption DEF SubGraphs, Within, Below, Above, IsDirectory, StartsWith
<1>3. CASE IsDirectory(u) /\ u.query # NoQuery
    <2>1. u.query \in Seq(STRING) /\ u.query # <<>>
        BY <1>3 DEF Urls, NoQuery
    <2>2. Len(u.query) \in Nat \ {0}
        BY <2>1
    <2>3. \A g \in SubGraphs(u) :
             g \in graphs /\ g.path = u.path /\ Len(g.query) >= Len(u.query)
        BY <1>3 DEF SubGraphs, StartsWith
    <2>4. \A g \in SubGraphs(u) : g.query # NoQuery
        BY <2>2, <2>3 DEF NoQuery
    <2> QED
        BY <1>3, <2>3, <2>4, GraphsAssumption DEF Within, Below
<1>2. CASE ~IsDirectory(u)
    BY <1>2 DEF SubGraphs, Within
<1> QED
    BY <1>1, <1>2, <1>3

LEMMA ListChecked ==
    ASSUME NEW permitted, NEW list
    PROVE  graphListCheck(permitted, list) \subseteq permitted
BY DEF graphListCheck

LEMMA Initial == Init => Inv
<1> SUFFICES ASSUME Init
             PROVE  Inv
    OBVIOUS
<1>1. TypeInv
    BY MaxChangesAssumption DEF Init, TypeInv, Steps
<1>2. ReadsInv
    BY DEF Init, ReadsInv
<1>3. ListInv
    BY DEF Init, ListInv
<1> QED
    BY <1>1, <1>2, <1>3 DEF Inv

\* A step that only takes a request from one place to another.
LEMMA MoveStep ==
    ASSUME Inv, NEW r \in Reqs, NEW p \in Steps, NEW us \in Seq(STRING),
           pc' = [pc EXCEPT ![r] = p], users' = [users EXCEPT ![r] = us],
           UNCHANGED <<storeVars, call, allowed, reads>>,
           p = "done" => pc[r] = "done" \/ ~call[r].sparql,
           p \in {"new", "check", "admitted", "denied"} =>
               pc[r] \in {"new", "check", "admitted", "denied"},
           p # "done" => pc[r] # "done"
    PROVE  Inv'
<1>1. /\ acl' = acl /\ graphs' = graphs /\ changes' = changes
      /\ call' = call /\ allowed' = allowed /\ reads' = reads
    BY DEF storeVars
<1>2. TypeInv'
    BY <1>1 DEF Inv, TypeInv
<1>3. \A q \in Reqs \ {r} : pc'[q] = pc[q]
    BY DEF Inv, TypeInv
<1>4. pc'[r] = p
    BY DEF Inv, TypeInv
<1>5. ReadsInv'
    BY <1>1, <1>3, <1>4 DEF Inv, ReadsInv
<1>6. ListInv'
    BY <1>1 DEF Inv, ListInv, QueriedUrl, Within
<1> QED
    BY <1>2, <1>5, <1>6 DEF Inv

LEMMA SingletonSeq == \A S : \A x \in S : <<x>> \in Seq(S)
OBVIOUS

LEMMA ArriveStep == ASSUME Inv, NEW r \in Reqs, Arrive(r) PROVE Inv'
<1> DEFINE us == IF call[r].tls THEN call[r].certs ELSE <<Anonymous>>
<1>1. us \in Seq(STRING)
    <2>1. call[r].certs \in Seq(STRING)
        BY QueriedType DEF Inv, TypeInv
    <2>2. <<Anonymous>> \in Seq(STRING)
        <3>1. Anonymous \in STRING
            BY GraphsAssumption
        <3> QED
            BY <3>1, SingletonSeq, Zenon
    <2> QED
        BY <2>1, <2>2
<1> QED
    BY <1>1, MoveStep DEF Arrive, Goto, Steps

LEMMA CheckStep == ASSUME Inv, NEW r \in Reqs, Check(r) PROVE Inv'
<1>1. Tail(users[r]) \in Seq(STRING)
    BY DEF Check, Inv, TypeInv
<1>2. \E p \in {"admitted", "check"} : pc' = [pc EXCEPT ![r] = p]
    BY DEF Check
<1>3. pc[r] = "check" /\ users' = [users EXCEPT ![r] = Tail(users[r])]
      /\ UNCHANGED <<storeVars, call, allowed, reads>>
    BY DEF Check
<1> QED
    BY <1>1, <1>2, <1>3, MoveStep DEF Steps

\* The request ends, or goes on, without another change.
LEMMA EndStep ==
    ASSUME Inv, NEW r \in Reqs, CheckFails(r) \/ Deny(r) \/ Handle(r) \/ QueryFails(r)
           \/ (Goto(r, "admitted", "failed")
               /\ UNCHANGED <<storeVars, call, users, allowed, reads>>)
    PROVE  Inv'
<1>1. users[r] \in Seq(STRING) /\ users' = [users EXCEPT ![r] = users[r]]
      /\ UNCHANGED <<storeVars, call, allowed, reads>>
    BY DEF CheckFails, Deny, Handle, QueryFails, Inv, TypeInv
<1>2. \/ pc[r] = "check" /\ pc' = [pc EXCEPT ![r] = "failed"]
      \/ pc[r] = "check" /\ pc' = [pc EXCEPT ![r] = "denied"]
      \/ pc[r] = "admitted" /\ ~call[r].sparql /\ pc' = [pc EXCEPT ![r] = "done"]
      \/ pc[r] = "listed" /\ pc' = [pc EXCEPT ![r] = "failed"]
      \/ pc[r] = "admitted" /\ pc' = [pc EXCEPT ![r] = "failed"]
    BY DEF CheckFails, Deny, Handle, QueryFails, Goto
<1> QED
    BY <1>1, <1>2, MoveStep DEF Steps

LEMMA ListStep == ASSUME Inv, NEW r \in Reqs, List(r) PROVE Inv'
<1> DEFINE u == QueriedUrl(call[r])
<1>1. CASE /\ Goto(r, "admitted", "listed")
           /\ allowed' = [allowed EXCEPT ![r] = SubGraphs(u)]
    <2>1. /\ acl' = acl /\ graphs' = graphs /\ changes' = changes
          /\ call' = call /\ users' = users /\ reads' = reads
        BY DEF List, storeVars
    <2>2. u \in Urls
        BY QueriedType DEF Inv, TypeInv
    <2> HIDE DEF u
    <2>3. SubGraphs(u) \subseteq Urls /\ \A g \in SubGraphs(u) : Within(g, u)
        BY <2>2, SubGraphsBelow DEF Inv, TypeInv
    <2>4. pc[r] = "admitted" /\ pc' = [pc EXCEPT ![r] = "listed"]
        BY <1>1 DEF Goto
    <2>5. TypeInv'
        BY <1>1, <2>1, <2>3, <2>4 DEF Inv, TypeInv, Steps
    <2>6. /\ pc'[r] = "listed" /\ \A q \in Reqs \ {r} : pc'[q] = pc[q]
          /\ allowed'[r] = SubGraphs(u)
          /\ \A q \in Reqs \ {r} : allowed'[q] = allowed[q]
        BY <1>1, <2>4 DEF Inv, TypeInv
    <2>7. ReadsInv'
        BY <2>1, <2>4, <2>6 DEF Inv, ReadsInv
    <2>8. ListInv'
        <3>1. \A q \in Reqs : QueriedUrl(call[q])' = QueriedUrl(call[q])
            BY <2>1
        <3>2. \A q \in Reqs : \A g \in allowed'[q] : Within(g, QueriedUrl(call[q]))
            BY <2>3, <2>6 DEF Inv, ListInv, u
        <3> QED
            BY <3>1, <3>2 DEF ListInv
    <2> QED
        BY <2>5, <2>7, <2>8 DEF Inv
<1>2. CASE Goto(r, "admitted", "failed") /\ UNCHANGED allowed
    BY <1>2, EndStep DEF List
<1> QED
    BY <1>1, <1>2 DEF List

LEMMA ForwardStep == ASSUME Inv, NEW r \in Reqs, Forward(r) PROVE Inv'
<1> DEFINE R == Default(r) \cup Named(r)
<1>1. /\ acl' = acl /\ graphs' = graphs /\ changes' = changes
      /\ call' = call /\ users' = users /\ allowed' = allowed
      /\ reads' = [reads EXCEPT ![r] = R]
      /\ pc[r] = "listed" /\ pc' = [pc EXCEPT ![r] = "done"]
    BY DEF Forward, Goto, storeVars
<1>2. R \subseteq allowed[r] /\ R # {}
    BY ListChecked DEF Forward, Default, Named
<1>3. R \subseteq Urls
    BY <1>2 DEF Inv, TypeInv
<1> HIDE DEF R
<1>4. TypeInv'
    BY <1>1, <1>3 DEF Inv, TypeInv, Steps
<1>5. /\ pc'[r] = "done" /\ \A q \in Reqs \ {r} : pc'[q] = pc[q]
      /\ reads'[r] = R /\ \A q \in Reqs \ {r} : reads'[q] = reads[q]
    BY <1>1 DEF Inv, TypeInv
<1>6. ReadsInv'
    BY <1>1, <1>2, <1>5 DEF Inv, ReadsInv
<1>7. ListInv'
    BY <1>1 DEF Inv, ListInv, QueriedUrl, Within
<1> QED
    BY <1>4, <1>6, <1>7 DEF Inv

LEMMA StoreStep == ASSUME Inv, StoreChanges PROVE Inv'
<1>1. UNCHANGED <<pc, call, users, allowed, reads>>
    BY DEF StoreChanges
<1>2. changes' \in 0 .. MaxChanges /\ acl' \subseteq AclRows /\ graphs' \subseteq Graphs
    BY MaxChangesAssumption DEF StoreChanges, Inv, TypeInv
<1>3. TypeInv'
    BY <1>1, <1>2 DEF Inv, TypeInv
<1>4. ReadsInv' /\ ListInv'
    BY <1>1 DEF Inv, ReadsInv, ListInv, QueriedUrl, Within
<1> QED
    BY <1>3, <1>4 DEF Inv

LEMMA NextStep == Inv /\ [Next]_vars => Inv'
<1> SUFFICES ASSUME Inv, [Next]_vars
             PROVE  Inv'
    OBVIOUS
<1>1. CASE UNCHANGED vars
    BY <1>1 DEF vars, Inv, TypeInv, ReadsInv, ListInv, QueriedUrl, Within
<1>2. CASE Next
    BY <1>2, ArriveStep, CheckStep, EndStep, ListStep, ForwardStep, StoreStep DEF Next
<1> QED
    BY <1>1, <1>2

LEMMA Invariant == Spec => []Inv
BY Initial, NextStep, PTL DEF Spec

(* The URLs above a URL *)

LEMMA ToSetConcat ==
    ASSUME NEW S, NEW s \in Seq(S), NEW t \in Seq(S)
    PROVE  s \o t \in Seq(S) /\ ToSet(s \o t) = ToSet(s) \cup ToSet(t)
<1>1. /\ s \o t \in Seq(S) /\ Len(s \o t) = Len(s) + Len(t)
      /\ \A i \in 1 .. Len(s) + Len(t) :
            (s \o t)[i] = IF i <= Len(s) THEN s[i] ELSE t[i - Len(s)]
    BY ConcatProperties
<1>2. /\ Len(s) \in Nat /\ Len(t) \in Nat /\ DOMAIN s = 1 .. Len(s) /\ DOMAIN t = 1 .. Len(t)
      /\ DOMAIN (s \o t) = 1 .. Len(s) + Len(t)
    BY <1>1, LenProperties
<1>3. ToSet(s \o t) \subseteq ToSet(s) \cup ToSet(t)
    BY <1>1, <1>2 DEF ToSet
<1>4. ToSet(s) \subseteq ToSet(s \o t)
    BY <1>1, <1>2 DEF ToSet
<1>5. ASSUME NEW j \in DOMAIN t
      PROVE  t[j] \in ToSet(s \o t)
    <2>1. j + Len(s) \in 1 .. Len(s) + Len(t) /\ ~(j + Len(s) <= Len(s))
          /\ (j + Len(s)) - Len(s) = j
        BY <1>2
    <2>2. (s \o t)[j + Len(s)] = t[j]
        BY <1>1, <2>1
    <2> QED
        BY <1>2, <2>1, <2>2 DEF ToSet
<1>6. ToSet(t) \subseteq ToSet(s \o t)
    BY <1>5 DEF ToSet
<1> QED
    BY <1>1, <1>3, <1>4, <1>6

\* How many directories are above a path.
Height(p) == IF Last(p) = Empty THEN Len(p) - 1 ELSE Len(p)
Up(p, m) == Url(SubSeq(p, 1, m) \o <<Empty>>, NoQuery)

LEMMA ParentsSet ==
    ASSUME NEW u \in Urls
    PROVE  LET p == u.path
           IN  /\ p \in Seq(STRING) /\ Len(p) \in Nat \ {0} /\ Height(p) \in 0 .. Len(p)
               /\ \A m \in 0 .. Len(p) : Up(p, m) \in Urls
               /\ ToSet(urlParents(u)) =
                    {u, Url(p, NoQuery)} \cup {Up(p, m) : m \in 0 .. Height(p) - 1}
<1> DEFINE p == u.path
           n == IF Last(p) = Empty THEN Len(p) - 1 ELSE Len(p)
           up(k) == Url(SubSeq(p, 1, n - k) \o <<Empty>>, NoQuery)
           a == IF u.query = NoQuery THEN <<>> ELSE <<u>>
           b == <<Url(p, NoQuery)>>
           d == [k \in 1 .. n |-> up(k)]
<1>1. urlParents(u) = (a \o b) \o d
    BY Zenon DEF urlParents
<1>2. p \in Seq(STRING) /\ p # <<>> /\ u.query \in Queries /\ Empty \in STRING
      /\ u = [path |-> p, query |-> u.query]
    BY Strings, QueryTypes
<1>3. Len(p) \in Nat \ {0}
    BY <1>2
<1>4. n \in 0 .. Len(p) /\ n \in Nat /\ Height(p) = n
    BY <1>3 DEF Height
<1>5. \A m \in 0 .. Len(p) : Up(p, m) \in Urls
    <2> SUFFICES ASSUME NEW m \in 0 .. Len(p)
                 PROVE  Up(p, m) \in Urls
        OBVIOUS
    <2>1. PICK S : S = STRING /\ p \in Seq(S) /\ Empty \in S
        BY <1>2
    <2>2. <<Empty>> \in Seq(S) /\ SubSeq(p, 1, m) \in Seq(S)
        BY <1>3, <2>1, SingletonSeq
    <2>3. SubSeq(p, 1, m) \o <<Empty>> \in Seq(S) /\ Len(SubSeq(p, 1, m) \o <<Empty>>) = m + 1
        BY <1>3, <2>1, <2>2
    <2>4. SubSeq(p, 1, m) \o <<Empty>> # <<>>
        BY <2>3
    <2> QED
        BY <2>1, <2>3, <2>4, QueryTypes DEF Up, Url
<1>6. Url(p, NoQuery) \in Urls
    BY <1>2, QueryTypes DEF Url
<1>7. \A k \in 1 .. n : up(k) = Up(p, n - k) /\ up(k) \in Urls
    BY <1>4, <1>5 DEF Up
<1>8. d \in [1 .. n -> Urls]
    BY <1>7
<1>9. d \in Seq(Urls)
    <2> HIDE DEF d, n
    <2> QED
        BY <1>4, <1>8, SeqDef
<1>10. a \in Seq(Urls) /\ ToSet(a) = IF u.query = NoQuery THEN {} ELSE {u}
    BY DEF ToSet
<1>11. b \in Seq(Urls) /\ ToSet(b) = {Url(p, NoQuery)}
    BY <1>6 DEF ToSet
<1>12. ToSet(d) = {Up(p, m) : m \in 0 .. n - 1}
    <2>1. \A k \in 1 .. n : n - k \in 0 .. n - 1 /\ d[k] = Up(p, n - k)
        BY <1>4, <1>7
    <2>2. \A m \in 0 .. n - 1 : n - m \in 1 .. n /\ d[n - m] = Up(p, m)
        <3> SUFFICES ASSUME NEW m \in 0 .. n - 1
                     PROVE  n - m \in 1 .. n /\ d[n - m] = Up(p, m)
            OBVIOUS
        <3>1. n - m \in 1 .. n /\ n - (n - m) = m
            BY <1>4
        <3> QED
            BY <2>1, <3>1
    <2>3. DOMAIN d = 1 .. n
        OBVIOUS
    <2> HIDE DEF d
    <2> QED
        BY <2>1, <2>2, <2>3 DEF ToSet
<1>13. Url(p, NoQuery) = u \/ u.query # NoQuery
    BY <1>2 DEF Url
<1> HIDE DEF a, b, d, n
<1>14. a \o b \in Seq(Urls) /\ ToSet(a \o b) = ToSet(a) \cup ToSet(b)
    BY <1>10, <1>11, ToSetConcat
<1>15. ToSet((a \o b) \o d) = (ToSet(a) \cup ToSet(b)) \cup ToSet(d)
    <2>1. PICK c \in Seq(Urls) : c = a \o b
        BY <1>14
    <2>2. ToSet(c \o d) = ToSet(c) \cup ToSet(d)
        BY <1>9, ToSetConcat
    <2> QED
        BY <1>14, <2>1, <2>2
<1>16. ToSet(urlParents(u)) = {u, Url(p, NoQuery)} \cup {Up(p, m) : m \in 0 .. Height(p) - 1}
    BY <1>1, <1>4, <1>10, <1>11, <1>12, <1>13, <1>15
<1> QED
    BY <1>2, <1>3, <1>4, <1>5, <1>16

\* A directory above, read off the path.
LEMMA UpIs ==
    ASSUME NEW p \in Seq(STRING), NEW m \in 0 .. Len(p), NEW w \in Seq(STRING), w # <<>>
    PROVE  w = SubSeq(p, 1, m) \o <<Empty>>
             <=> /\ Len(w) = m + 1 /\ Last(w) = Empty
                 /\ SubSeq(w, 1, m) = SubSeq(p, 1, m)
<1>1. PICK S : Empty \in S /\ p \in Seq(S) /\ w \in Seq(S)
    BY Strings
<1>2. Len(p) \in Nat /\ Len(w) \in Nat /\ m \in Nat
    BY <1>1
<1>3. SubSeq(p, 1, m) \in Seq(S) /\ Len(SubSeq(p, 1, m)) = m
      /\ <<Empty>> \in Seq(S) /\ Len(<<Empty>>) = 1
    BY <1>1, <1>2, SingletonSeq
<1> DEFINE x == SubSeq(p, 1, m) \o <<Empty>>
<1>4. /\ x \in Seq(S) /\ Len(x) = m + 1 /\ x[m + 1] = Empty
      /\ \A i \in 1 .. m : x[i] = p[i]
    BY <1>1, <1>2, <1>3
<1> HIDE DEF x
<1>5. ASSUME w = x
      PROVE  Len(w) = m + 1 /\ Last(w) = Empty /\ SubSeq(w, 1, m) = SubSeq(p, 1, m)
    <2>1. \A i \in 1 .. m : x[i] = p[i]
        BY <1>4
    <2>2. SubSeq(x, 1, m) = SubSeq(p, 1, m)
        BY <1>1, <1>2, <1>4, <2>1
    <2> QED
        BY <1>4, <1>5, <2>2 DEF Last
<1>6. ASSUME Len(w) = m + 1, Last(w) = Empty, SubSeq(w, 1, m) = SubSeq(p, 1, m)
      PROVE  w = x
    <2>1. \A i \in 1 .. m : SubSeq(w, 1, m)[i] = w[i] /\ SubSeq(p, 1, m)[i] = p[i]
        BY <1>1, <1>2, <1>6
    <2>2. \A i \in 1 .. m : w[i] = x[i]
        BY <1>4, <1>6, <2>1
    <2>3. w[m + 1] = x[m + 1]
        BY <1>4, <1>6 DEF Last
    <2>4. \A i \in 1 .. Len(w) : w[i] = x[i]
        BY <1>2, <1>6, <2>2, <2>3
    <2> QED
        BY <1>1, <1>4, <1>6, <2>4, SeqEqual
<1> QED
    BY <1>5, <1>6 DEF x

\* urlParents yields the URLs above a URL, and no others.
LEMMA ParentsAbove ==
    ASSUME NEW u \in Urls, NEW page \in Urls
    PROVE  page \in ToSet(urlParents(u)) <=> Above(u, page)
<1> DEFINE p == u.path
           w == page.path
<1>1. /\ p \in Seq(STRING) /\ Len(p) \in Nat \ {0} /\ Height(p) \in 0 .. Len(p)
      /\ ToSet(urlParents(u)) = {u, Url(p, NoQuery)} \cup {Up(p, m) : m \in 0 .. Height(p) - 1}
    BY ParentsSet
<1>2. /\ w \in Seq(STRING) /\ w # <<>> /\ Len(w) \in Nat \ {0}
      /\ page = [path |-> w, query |-> page.query]
    BY DEF Urls
<1>0. \A x : page = Url(x, NoQuery) <=> page.query = NoQuery /\ w = x
    BY <1>2 DEF Url
<1>3. page = Url(p, NoQuery) <=> page.query = NoQuery /\ w = p
    BY <1>0
<1>4. \A m : page = Up(p, m) <=> page.query = NoQuery /\ w = SubSeq(p, 1, m) \o <<Empty>>
    BY <1>0, Zenon DEF Up
<1> DEFINE k == Len(w) - 1
<1>5. Above(u, page) <=>
        \/ page = u
        \/ /\ page.query = NoQuery
           /\ \/ w = p
              \/ Last(w) = Empty /\ Len(p) >= Len(w) /\ IsPrefix(Front(w), p)
    BY DEF Above
<1> HIDE DEF p, w
<1>6. IsPrefix(Front(w), p) <=> k <= Len(p) /\ SubSeq(w, 1, k) = SubSeq(p, 1, k)
    <2>0. k \in 0 .. Len(w) /\ Front(w) = SubSeq(w, 1, k)
        BY <1>2 DEF Front
    <2>1. Front(w) = SubSeq(w, 1, k) /\ Len(Front(w)) = k /\ k \in Nat
        <3> HIDE DEF k
        <3> QED
            BY <1>2, <2>0
    <2>2. SubSeq(Front(w), 1, k) = SubSeq(w, 1, k)
        BY <1>2, <2>1
    <2> QED
        BY <2>1, <2>2 DEF IsPrefix
<1>7. ASSUME NEW m \in 0 .. Height(p) - 1, page = Up(p, m)
      PROVE  Above(u, page)
    <2>1. m \in 0 .. Len(p) /\ m + 1 <= Len(p)
        BY <1>1
    <2>2. w = SubSeq(p, 1, m) \o <<Empty>> /\ page.query = NoQuery
        BY <1>4, <1>7
    <2>3. Len(w) = m + 1 /\ Last(w) = Empty /\ SubSeq(w, 1, m) = SubSeq(p, 1, m)
        BY <1>1, <1>2, <2>1, <2>2, UpIs, ZenonT(30)
    <2>4. k = m /\ Len(p) >= Len(w) /\ k <= Len(p)
        BY <1>1, <2>1, <2>3
    <2>5. SubSeq(w, 1, k) = SubSeq(p, 1, k)
        BY <2>3, <2>4
    <2> HIDE DEF k
    <2> QED
        BY <1>5, <1>6, <2>2, <2>3, <2>4, <2>5
<1>8. ASSUME page.query = NoQuery, Last(w) = Empty, Len(p) >= Len(w), IsPrefix(Front(w), p)
      PROVE  w = p \/ \E m \in 0 .. Height(p) - 1 : page = Up(p, m)
    <2>1. k \in 0 .. Len(p) /\ k + 1 <= Len(p) /\ Len(w) = k + 1
        BY <1>1, <1>2, <1>8
    <2>2. SubSeq(w, 1, k) = SubSeq(p, 1, k)
        BY <1>6, <1>8
    <2> HIDE DEF k
    <2>3. w = SubSeq(p, 1, k) \o <<Empty>>
        BY <1>1, <1>2, <1>8, <2>1, <2>2, UpIs
    <2>4. page = Up(p, k)
        BY <1>4, <1>8, <2>3
    <2>5. CASE k <= Height(p) - 1
        BY <1>1, <2>1, <2>4, <2>5
    <2>6. CASE ~(k <= Height(p) - 1)
        <3>1. Height(p) = Len(p) - 1 /\ Last(p) = Empty /\ Len(p) = k + 1
            BY <1>1, <2>1, <2>6 DEF Height
        <3>2. p = SubSeq(p, 1, k) \o <<Empty>>
            <4>1. p # <<>>
                BY <1>1
            <4> QED
                BY <1>1, <2>1, <3>1, <4>1, UpIs
        <3> QED
            BY <2>3, <3>2
    <2> QED
        BY <2>5, <2>6
<1>9. page \in ToSet(urlParents(u)) <=>
        page = u \/ page = Url(p, NoQuery) \/ \E m \in 0 .. Height(p) - 1 : page = Up(p, m)
    BY <1>1
<1>10. page = u => Above(u, page)
    BY <1>5
<1> QED
    BY <1>3, <1>5, <1>7, <1>8, <1>9

\* So the solutions are the rows the rule looks at.
LEMMA SolutionsAre ==
    ASSUME acl \subseteq AclRows, NEW c \in Calls, NEW user
    PROVE  Solutions(c.url, c.method, user) =
             {r \in acl : /\ Above(c.url, r.graph) /\ Above(c.url, r.page)
                          /\ r.user \in {user, Anonymous}
                          /\ r.act \in {c.method, "Default"}}
<1>1. c.url \in Urls
    BY QueriedType
<1>2. \A r \in acl : r.graph \in Urls /\ r.page \in Urls
    BY RowsAssumption
<1>3. \A r \in acl :
         /\ r.graph \in ToSet(urlParents(c.url)) <=> Above(c.url, r.graph)
         /\ r.page \in ToSet(urlParents(c.url)) <=> Above(c.url, r.page)
    BY <1>1, <1>2, ParentsAbove
<1> QED
    BY <1>3 DEF Solutions

\* A sequence of a finite set lists all of it.
LEMMA ListedAll ==
    ASSUME NEW S, IsFiniteSet(S), NEW rows \in SetToSeqs(S)
    PROVE  /\ rows \in Seq(S) /\ DOMAIN rows = 1 .. Len(rows) /\ Len(rows) \in Nat
           /\ \A r \in S : \E i \in 1 .. Len(rows) : rows[i] = r
<1> DEFINE n == Cardinality(S)
<1>1. n \in Nat
    BY FS_CardinalityType
<1>2. rows \in [1 .. n -> S] /\ \A i, j \in 1 .. n : i # j => rows[i] # rows[j]
    BY DEF SetToSeqs
<1> HIDE DEF n
<1>3. rows \in Seq(S) /\ Len(rows) = n
    BY <1>1, <1>2, SeqDef
<1>4. rows \in Injection(1 .. n, S)
    BY <1>2 DEF Injection, IsInjective
<1>5. IsFiniteSet(1 .. n) /\ Cardinality(1 .. n) = n
    <2>1. Cardinality(1 .. n) = IF 1 > n THEN 0 ELSE n - 1 + 1
        BY <1>1, FS_Interval
    <2> QED
        BY <1>1, <2>1, FS_Interval
<1>6. rows \in Surjection(1 .. n, S)
    BY <1>4, <1>5, FS_Injection DEF n
<1> QED
    BY <1>1, <1>2, <1>3, <1>6 DEF Surjection

(* The loop over the rows *)

\* The record after each row, of the loop as it is defined.
LEMMA LoopIs ==
    ASSUME NEW rows, Len(rows) \in Nat
    PROVE  \E after :
             /\ after[0] = Undecided
             /\ \A n \in 1 .. Len(rows) : after[n] = CheckRow(after[n - 1], rows[n])
             /\ checkAuth(rows) <=>
                  (IF after[Len(rows)].action # Empty THEN after[Len(rows)].action
                   ELSE after[Len(rows)].default) = "allow"
<1> DEFINE N == Len(rows)
           Row(f, n) == IF n = 0 THEN Undecided ELSE CheckRow(f[n - 1], rows[n])
           loop == CHOOSE f : f = [n \in 0 .. N |-> Row(f, n)]
           Runs(k) == \E f : f = [n \in 0 .. k |-> Row(f, n)]
           T == {k \in 0 .. N : ~Runs(k)}
<1>1. checkAuth(rows) <=>
        (IF loop[N].action # Empty THEN loop[N].action ELSE loop[N].default) = "allow"
    BY Zenon DEF checkAuth
<1>2. \A f : \A n : Row(f, n) = IF n = 0 THEN Undecided ELSE CheckRow(f[n - 1], rows[n])
    OBVIOUS
<1> HIDE DEF Row
<1>3. ASSUME NEW k \in T, \A m \in T : k <= m
      PROVE  FALSE
    <2>1. k \in 0 .. N /\ k \in Nat /\ ~Runs(k)
        OBVIOUS
    <2>2. CASE k = 0
        <3> DEFINE f == [n \in 0 .. 0 |-> Undecided]
        <3>1. \A n \in 0 .. 0 : f[n] = Row(f, n)
            BY <1>2
        <3>2. f = [n \in 0 .. 0 |-> Row(f, n)]
            BY <3>1
        <3> QED
            BY <2>1, <2>2, <3>2
    <2>3. CASE k > 0
        <3>1. k - 1 \in 0 .. N /\ k - 1 \notin T
            BY <1>3, <2>1, <2>3
        <3>2. PICK f : f = [n \in 0 .. k - 1 |-> Row(f, n)]
            BY <3>1
        <3>3. \A n \in 0 .. k - 1 : f[n] = Row(f, n)
            BY <3>2
        <3> DEFINE g == [n \in 0 .. k |-> IF n = k THEN CheckRow(f[k - 1], rows[k]) ELSE f[n]]
        <3>4. ASSUME NEW n \in 0 .. k
              PROVE  g[n] = Row(g, n)
            <4>1. CASE n = 0
                BY <1>2, <2>1, <2>3, <3>3, <4>1
            <4>2. CASE n # 0 /\ n # k
                <5>1. n \in 0 .. k - 1 /\ n - 1 \in 0 .. k /\ n - 1 # k
                    BY <2>1, <4>2
                <5>2. g[n] = f[n] /\ g[n - 1] = f[n - 1]
                    BY <4>2, <5>1
                <5>3. f[n] = CheckRow(f[n - 1], rows[n])
                    BY <1>2, <3>3, <4>2, <5>1
                <5> QED
                    BY <1>2, <4>2, <5>2, <5>3
            <4>3. CASE n # 0 /\ n = k
                <5>1. k - 1 \in 0 .. k /\ k - 1 # k
                    BY <2>1, <2>3
                <5>2. g[n] = CheckRow(f[k - 1], rows[k]) /\ g[k - 1] = f[k - 1]
                    BY <4>3, <5>1
                <5> QED
                    BY <1>2, <4>3, <5>2
            <4> QED
                BY <4>1, <4>2, <4>3
        <3>5. g = [n \in 0 .. k |-> g[n]]
            OBVIOUS
        <3> HIDE DEF g
        <3>6. g = [n \in 0 .. k |-> Row(g, n)]
            BY <3>4, <3>5
        <3> QED
            BY <2>1, <3>6
    <2> QED
        BY <2>1, <2>2, <2>3
<1>4. T = {}
    <2>1. T \in SUBSET Nat
        OBVIOUS
    <2> HIDE DEF T
    <2> QED
        BY <1>3, <2>1, LeastNatural
<1>5. Runs(N)
    BY <1>4
<1>6. loop = [n \in 0 .. N |-> Row(loop, n)]
    BY <1>5
<1> HIDE DEF loop
<1>7. \A n \in 0 .. N : loop[n] = Row(loop, n)
    BY <1>6
<1>8. loop[0] = Undecided
    BY <1>2, <1>7
<1>9. \A n \in 1 .. N : loop[n] = CheckRow(loop[n - 1], rows[n])
    BY <1>2, <1>7
<1> QED
    BY <1>1, <1>8, <1>9

LEMMA NearerAsymmetric ==
    ASSUME NEW p \in Urls, NEW q \in Urls, Nearer(p, q)
    PROVE  ~Nearer(q, p)
<1>1. Len(p.path) \in Nat /\ Len(q.path) \in Nat
    BY DEF Urls
<1> QED
    BY <1>1 DEF Nearer

\* An answer so far stands for the rows it was merged from.
Stands(answer, auths) ==
    /\ answer = Empty <=> auths = {}
    /\ answer = "allow" <=> auths = {"allow"}

LEMMA MergeStands ==
    ASSUME NEW answer, NEW auths, Stands(answer, auths), NEW row \in {"allow", "deny"}
    PROVE  Stands(Merge(answer, row), auths \cup {row})
<1>1. Empty \notin {"allow", "deny", "denied"}
    BY DEF Empty
<1> QED
    BY <1>1 DEF Stands, Merge

Answers == {Empty, "allow", "deny", "denied"}
Loop == [page : SUBSET Urls, action : Answers, default : Answers, stop : BOOLEAN]

LEMMA RowIs ==
    ASSUME NEW d \in Loop, NEW r, r.page \in Urls, r.auth \in {"allow", "deny"}
    PROVE  LET e == CheckRow(d, r)
           IN  /\ e \in Loop
               /\ IF d.stop \/ d.page \notin {{}, {r.page}}
                  THEN e.stop /\ e.page = d.page /\ e.action = d.action /\ e.default = d.default
                  ELSE /\ ~e.stop /\ e.page = {r.page}
                       /\ IF r.act = "Default"
                          THEN e.action = d.action /\ e.default = Merge(d.default, r.auth)
                          ELSE e.default = d.default /\ e.action = Merge(d.action, r.auth)
<1>1. \A x \in Answers : Merge(x, r.auth) \in Answers
    BY DEF Answers, Merge
<1>2. /\ d.page \in SUBSET Urls /\ d.action \in Answers /\ d.default \in Answers
      /\ d.stop \in BOOLEAN /\ {r.page} \in SUBSET Urls
    BY DEF Loop
<1>3. d = [page |-> d.page, action |-> d.action, default |-> d.default, stop |-> d.stop]
    BY DEF Loop
<1>4. CASE d.stop \/ d.page \notin {{}, {r.page}}
    <2>1. CheckRow(d, r) = [d EXCEPT !.stop = TRUE]
        BY <1>4 DEF CheckRow
    <2>2. CheckRow(d, r) =
            [page |-> d.page, action |-> d.action, default |-> d.default, stop |-> TRUE]
        BY <1>3, <2>1
    <2> QED
        BY <1>2, <1>4, <2>2 DEF Loop
<1>5. CASE ~(d.stop \/ d.page \notin {{}, {r.page}}) /\ r.act = "Default"
    <2> DEFINE x == Merge(d.default, r.auth)
    <2>1. CheckRow(d, r) = [d EXCEPT !.page = {r.page}, !.default = x]
        BY <1>5 DEF CheckRow
    <2>2. x \in Answers
        BY <1>1, <1>2
    <2> HIDE DEF x
    <2>3. CheckRow(d, r) =
            [page |-> {r.page}, action |-> d.action, default |-> x, stop |-> d.stop]
        BY <1>3, <2>1
    <2>4. /\ CheckRow(d, r) \in Loop /\ ~CheckRow(d, r).stop
          /\ CheckRow(d, r).page = {r.page} /\ CheckRow(d, r).action = d.action
          /\ CheckRow(d, r).default = x
        BY <1>2, <1>5, <2>2, <2>3 DEF Loop
    <2> QED
        BY <1>5, <2>4 DEF x
<1>6. CASE ~(d.stop \/ d.page \notin {{}, {r.page}}) /\ r.act # "Default"
    <2> DEFINE x == Merge(d.action, r.auth)
    <2>1. CheckRow(d, r) = [d EXCEPT !.page = {r.page}, !.action = x]
        BY <1>6 DEF CheckRow
    <2>2. x \in Answers
        BY <1>1, <1>2
    <2> HIDE DEF x
    <2>3. CheckRow(d, r) =
            [page |-> {r.page}, action |-> x, default |-> d.default, stop |-> d.stop]
        BY <1>3, <2>1
    <2>4. /\ CheckRow(d, r) \in Loop /\ ~CheckRow(d, r).stop
          /\ CheckRow(d, r).page = {r.page} /\ CheckRow(d, r).default = d.default
          /\ CheckRow(d, r).action = x
        BY <1>2, <1>6, <2>2, <2>3 DEF Loop
    <2> QED
        BY <1>6, <2>4 DEF x
<1> QED
    BY <1>4, <1>5, <1>6

\* The answers of the first n rows for the first page, by the kind of act.
Own(rows, n) ==
    {rows[i].auth : i \in {j \in 1 .. n : rows[j].page = rows[1].page
                                          /\ rows[j].act # "Default"}}
Dflt(rows, n) ==
    {rows[i].auth : i \in {j \in 1 .. n : rows[j].page = rows[1].page
                                          /\ rows[j].act = "Default"}}

\* What the loop knows after n rows.
Known(d, rows, n) ==
    /\ d \in Loop
    /\ d.page = IF n = 0 THEN {} ELSE {rows[1].page}
    /\ d.stop <=> \E i \in 1 .. n : rows[i].page # rows[1].page
    /\ Stands(d.action, Own(rows, n)) /\ Stands(d.default, Dflt(rows, n))

LEMMA KnownStep ==
    ASSUME NEW rows, NEW n \in Nat, NEW d, Known(d, rows, n),
           \A i \in 1 .. n + 1 : rows[i].page \in Urls /\ rows[i].auth \in {"allow", "deny"},
           rows[n + 1].page = rows[1].page =>
               \A i \in 1 .. n : rows[i].page = rows[1].page
    PROVE  Known(CheckRow(d, rows[n + 1]), rows, n + 1)
<1> DEFINE r == rows[n + 1]
           e == CheckRow(d, r)
           first == rows[1].page
<1>1. n + 1 \in 1 .. n + 1 /\ 1 .. n + 1 = 1 .. n \cup {n + 1} /\ n + 1 # 0
      /\ (n = 0 => n + 1 = 1)
    OBVIOUS
<1>2. r.page \in Urls /\ r.auth \in {"allow", "deny"}
    BY <1>1
<1>3. (\E i \in 1 .. n + 1 : rows[i].page # first)
        <=> r.page # first \/ \E i \in 1 .. n : rows[i].page # first
    BY <1>1
<1>4. /\ d \in Loop /\ d.page = IF n = 0 THEN {} ELSE {first}
      /\ d.stop <=> \E i \in 1 .. n : rows[i].page # first
      /\ Stands(d.action, Own(rows, n)) /\ Stands(d.default, Dflt(rows, n))
    BY DEF Known
<1>5. /\ Own(rows, n + 1) = IF r.page = first /\ r.act # "Default"
                            THEN Own(rows, n) \cup {r.auth} ELSE Own(rows, n)
      /\ Dflt(rows, n + 1) = IF r.page = first /\ r.act = "Default"
                             THEN Dflt(rows, n) \cup {r.auth} ELSE Dflt(rows, n)
    <2> DEFINE Mine(m) == {j \in 1 .. m : rows[j].page = first /\ rows[j].act # "Default"}
               Rest(m) == {j \in 1 .. m : rows[j].page = first /\ rows[j].act = "Default"}
    <2>1. Mine(n + 1) = IF r.page = first /\ r.act # "Default"
                        THEN Mine(n) \cup {n + 1} ELSE Mine(n)
        BY <1>1
    <2>2. Rest(n + 1) = IF r.page = first /\ r.act = "Default"
                        THEN Rest(n) \cup {n + 1} ELSE Rest(n)
        BY <1>1
    <2>3. \A m : Own(rows, m) = {rows[i].auth : i \in Mine(m)}
                 /\ Dflt(rows, m) = {rows[i].auth : i \in Rest(m)}
        BY DEF Own, Dflt
    <2>4. \A M : {rows[i].auth : i \in M \cup {n + 1}} = {rows[i].auth : i \in M} \cup {r.auth}
        OBVIOUS
    <2> HIDE DEF Mine, Rest, first, r
    <2>5. Own(rows, n + 1) = IF r.page = first /\ r.act # "Default"
                             THEN Own(rows, n) \cup {r.auth} ELSE Own(rows, n)
        BY <2>1, <2>3, <2>4, ZenonT(30)
    <2>6. Dflt(rows, n + 1) = IF r.page = first /\ r.act = "Default"
                              THEN Dflt(rows, n) \cup {r.auth} ELSE Dflt(rows, n)
        BY <2>2, <2>3, <2>4, Zenon
    <2> QED
        BY <2>5, <2>6
<1>6. n = 0 => r.page = first
    BY <1>1
<1>7. r.page = first => ~d.stop
    BY <1>4
<1>8. d.page \notin {{}, {r.page}} <=> r.page # first
    BY <1>4, <1>6
<1> HIDE DEF r, first
<1>9. CASE r.page # first
    <2>1. e \in Loop /\ e.stop /\ e.page = d.page /\ e.action = d.action
          /\ e.default = d.default
        BY <1>2, <1>4, <1>8, <1>9, RowIs, ZenonT(30)
    <2>2. e.page = {first}
        BY <1>4, <1>6, <1>9, <2>1
    <2> HIDE DEF e
    <2> QED
        BY <1>1, <1>3, <1>4, <1>5, <1>9, <2>1, <2>2 DEF Known, first, e, r
<1>10. CASE r.page = first
    <2>1. /\ e \in Loop /\ ~e.stop /\ e.page = {r.page}
          /\ IF r.act = "Default"
             THEN e.action = d.action /\ e.default = Merge(d.default, r.auth)
             ELSE e.default = d.default /\ e.action = Merge(d.action, r.auth)
        BY <1>2, <1>4, <1>7, <1>8, <1>10, RowIs
    <2>2. Stands(e.action, Own(rows, n + 1)) /\ Stands(e.default, Dflt(rows, n + 1))
        <3> HIDE DEF e
        <3>1. Stands(Merge(d.action, r.auth), Own(rows, n) \cup {r.auth})
            BY <1>2, <1>4, MergeStands
        <3>2. Stands(Merge(d.default, r.auth), Dflt(rows, n) \cup {r.auth})
            BY <1>2, <1>4, MergeStands
        <3> QED
            BY <1>4, <1>5, <1>10, <2>1, <3>1, <3>2
    <2>3. ~(\E i \in 1 .. n + 1 : rows[i].page # first)
        BY <1>3, <1>4, <1>7, <1>10
    <2> HIDE DEF e
    <2> QED
        BY <1>1, <1>10, <2>1, <2>2, <2>3 DEF Known, first, e, r
<1> QED
    BY <1>9, <1>10

\* Rows that come with the nearest page first have all of its rows in front.
LEMMA FirstTogether ==
    ASSUME NEW rows, NEW N \in Nat, DOMAIN rows = 1 .. N, NearestFirst(rows),
           \A i \in 1 .. N : rows[i].page \in Urls
    PROVE  \A j \in 1 .. N : rows[j].page = rows[1].page =>
               \A i \in 1 .. j : rows[i].page = rows[1].page
<1> SUFFICES ASSUME NEW j \in 1 .. N, rows[j].page = rows[1].page,
                    NEW i \in 1 .. j, rows[i].page # rows[1].page
             PROVE  FALSE
    OBVIOUS
<1>1. i \in 1 .. N /\ 1 \in 1 .. N /\ i # 1 /\ i # j
    OBVIOUS
<1>2. 1 < i /\ i < j
    BY <1>1
<1>3. Nearer(rows[1].page, rows[i].page)
    BY <1>1, <1>2 DEF NearestFirst
<1>4. Nearer(rows[i].page, rows[1].page)
    BY <1>1, <1>2 DEF NearestFirst
<1> QED
    BY <1>1, <1>3, <1>4, NearerAsymmetric

\* After the last row, the loop knows the answers of the first page.
LEMMA LoopKnows ==
    ASSUME NEW S \in SUBSET AclRows, NEW rows \in SetToSeqs(S), NearestFirst(rows)
    PROVE  \E d : /\ Known(d, rows, Len(rows))
                  /\ checkAuth(rows) <=>
                       (IF d.action # Empty THEN d.action ELSE d.default) = "allow"
<1> DEFINE N == Len(rows)
<1>1. IsFiniteSet(S)
    BY RowsAssumption, FS_Subset
<1>2. rows \in Seq(S) /\ DOMAIN rows = 1 .. N /\ N \in Nat
    BY <1>1, ListedAll
<1>3. \A i \in 1 .. N : rows[i] \in AclRows
    BY <1>2
<1>4. \A i \in 1 .. N : rows[i].page \in Urls /\ rows[i].auth \in {"allow", "deny"}
    BY <1>3, RowsAssumption
<1>5. PICK after :
         /\ after[0] = Undecided
         /\ \A n \in 1 .. N : after[n] = CheckRow(after[n - 1], rows[n])
         /\ checkAuth(rows) <=>
              (IF after[N].action # Empty THEN after[N].action ELSE after[N].default) = "allow"
    BY <1>2, LoopIs
<1>6. \A j \in 1 .. N : rows[j].page = rows[1].page =>
         \A i \in 1 .. j : rows[i].page = rows[1].page
    BY <1>2, <1>4, FirstTogether
<1> HIDE DEF N
<1> DEFINE T == {n \in 0 .. N : ~Known(after[n], rows, n)}
<1>7. Known(after[0], rows, 0)
    <2>1. Own(rows, 0) = {} /\ Dflt(rows, 0) = {}
        BY DEF Own, Dflt
    <2>2. Empty # "allow"
        BY DEF Empty
    <2>3. Stands(Empty, {})
        BY <2>2 DEF Stands
    <2>4. Undecided \in Loop /\ Undecided.page = {} /\ ~Undecided.stop
          /\ Undecided.action = Empty /\ Undecided.default = Empty
        BY DEF Undecided, Loop, Answers
    <2>5. ~(\E i \in 1 .. 0 : rows[i].page # rows[1].page)
        OBVIOUS
    <2> QED
        BY <1>5, <2>1, <2>3, <2>4, <2>5 DEF Known
<1>8. ASSUME NEW n \in T, \A m \in T : n <= m
      PROVE  FALSE
    <2>1. n \in 0 .. N /\ n \in Nat /\ n # 0 /\ n \in 1 .. N
        BY <1>2, <1>7
    <2>2. n - 1 \in Nat /\ n - 1 \in 0 .. N /\ n - 1 \notin T /\ (n - 1) + 1 = n
        <3>1. N \in Nat
            BY <1>2 DEF N
        <3>2. PICK k \in 0 .. N : k = n - 1 /\ k + 1 = n /\ k < n
            BY <2>1, <3>1
        <3> HIDE DEF T
        <3>3. ~(n <= k)
            BY <2>1, <3>2
        <3>4. k \notin T
            BY <1>8, <3>3
        <3> QED
            BY <3>1, <3>2, <3>4
    <2>3. Known(after[n - 1], rows, n - 1)
        BY <2>2
    <2>4. rows[n].page = rows[1].page =>
             \A i \in 1 .. n - 1 : rows[i].page = rows[1].page
        BY <1>6, <2>1
    <2>5. \A i \in 1 .. n : rows[i].page \in Urls /\ rows[i].auth \in {"allow", "deny"}
        BY <1>2, <1>4, <2>1
    <2>6. PICK k \in Nat : k = n - 1 /\ k + 1 = n
        BY <2>2
    <2>7. Known(CheckRow(after[k], rows[k + 1]), rows, k + 1)
        BY <2>3, <2>4, <2>5, <2>6, KnownStep
    <2>8. after[n] = CheckRow(after[k], rows[k + 1])
        BY <1>5, <2>1, <2>6
    <2> QED
        BY <2>6, <2>7, <2>8
<1>9. T = {}
    <2>1. T \in SUBSET Nat
        OBVIOUS
    <2> HIDE DEF T
    <2> QED
        BY <1>8, <2>1, LeastNatural
<1>10. Known(after[N], rows, N)
    BY <1>2, <1>9
<1> QED
    BY <1>5, <1>10 DEF N

LEMMA Decides ==
    ASSUME acl \subseteq AclRows, NEW c \in Calls, NEW user,
           NEW rows \in SetToSeqs(Solutions(c.url, c.method, user)), NearestFirst(rows)
    PROVE  checkAuth(rows) <=> Rule(c, user)
<1> DEFINE S == Solutions(c.url, c.method, user)
           near == {r \in S : \A x \in S : x.page = r.page \/ Nearer(r.page, x.page)}
           own == {r \in near : r.act # "Default"}
           deciding == IF own # {} THEN own ELSE near
           N == Len(rows)
<1>1. Rule(c, user) <=> deciding # {} /\ \A r \in deciding : r.auth = "allow"
    <2>1. S = {r \in acl : /\ Above(c.url, r.graph) /\ Above(c.url, r.page)
                           /\ r.user \in {user, Anonymous}
                           /\ r.act \in {c.method, "Default"}}
        BY SolutionsAre
    <2> QED
        BY <2>1, Zenon DEF Rule
<1>2. S \in SUBSET AclRows
    BY DEF Solutions
<1>3. \A r \in S : r.page \in Urls /\ r.auth \in {"allow", "deny"}
    BY <1>2, RowsAssumption
<1>4. IsFiniteSet(S)
    BY <1>2, RowsAssumption, FS_Subset
<1>5. /\ rows \in Seq(S) /\ DOMAIN rows = 1 .. N /\ N \in Nat
      /\ \A r \in S : \E i \in 1 .. N : rows[i] = r
    BY <1>4, ListedAll
<1>6. PICK d : /\ Known(d, rows, N)
               /\ checkAuth(rows) <=>
                    (IF d.action # Empty THEN d.action ELSE d.default) = "allow"
    BY <1>2, LoopKnows
<1> HIDE DEF S, N
<1>7. \A i \in 1 .. N : rows[i] \in S
    BY <1>5
<1>8. \A r \in S : r \in near <=> r.page = rows[1].page
    <2> SUFFICES ASSUME NEW r \in S
                 PROVE  r \in near <=> r.page = rows[1].page
        OBVIOUS
    <2>1. PICK i \in 1 .. N : rows[i] = r
        BY <1>5
    <2>2. 1 \in 1 .. N /\ rows[1] \in S
        BY <1>5, <1>7, <2>1
    <2>3. \A j \in 1 .. N : rows[j].page = rows[1].page
                            \/ Nearer(rows[1].page, rows[j].page)
        <3>1. \A j \in 1 .. N : j = 1 \/ 1 < j
            BY <1>5
        <3> QED
            BY <1>5, <2>2, <3>1 DEF NearestFirst
    <2>4. \A x \in S : x.page = rows[1].page \/ Nearer(rows[1].page, x.page)
        BY <1>5, <2>3
    <2>5. ASSUME r.page = rows[1].page
          PROVE  r \in near
        BY <2>4, <2>5
    <2>6. ASSUME r \in near
          PROVE  r.page = rows[1].page
        <3>1. rows[1].page = r.page \/ Nearer(r.page, rows[1].page)
            BY <2>2, <2>6
        <3>2. ~(r.page # rows[1].page /\ Nearer(r.page, rows[1].page))
            BY <1>3, <2>2, <2>4, NearerAsymmetric
        <3> QED
            BY <3>1, <3>2
    <2> QED
        BY <2>5, <2>6
<1>9. near \subseteq S
    OBVIOUS
<1> HIDE DEF near
<1>10. Own(rows, N) = {r.auth : r \in own}
    <2>1. \A i \in 1 .. N : rows[i].page = rows[1].page /\ rows[i].act # "Default"
                            <=> rows[i] \in own
        BY <1>7, <1>8
    <2>2. \A r \in own : \E i \in 1 .. N : rows[i] = r
        BY <1>5, <1>9
    <2> HIDE DEF own
    <2> QED
        BY <2>1, <2>2 DEF Own
<1>11. Dflt(rows, N) = {r.auth : r \in near \ own}
    <2>1. \A i \in 1 .. N : rows[i].page = rows[1].page /\ rows[i].act = "Default"
                            <=> rows[i] \in near \ own
        BY <1>7, <1>8
    <2>2. \A r \in near \ own : \E i \in 1 .. N : rows[i] = r
        BY <1>5, <1>9
    <2> HIDE DEF own
    <2> QED
        BY <2>1, <2>2 DEF Dflt
<1>12. Stands(d.action, Own(rows, N)) /\ Stands(d.default, Dflt(rows, N))
    BY <1>6 DEF Known
<1>13. CASE own # {}
    <2>1. d.action # Empty
        BY <1>10, <1>12, <1>13 DEF Stands
    <2>2. d.action = "allow" <=> \A r \in own : r.auth = "allow"
        BY <1>10, <1>12, <1>13 DEF Stands
    <2> QED
        BY <1>1, <1>6, <1>13, <2>1, <2>2
<1>14. CASE own = {}
    <2>1. d.action = Empty
        BY <1>10, <1>12, <1>14 DEF Stands
    <2>2. d.default = "allow" <=> near # {} /\ \A r \in near : r.auth = "allow"
        BY <1>11, <1>12, <1>14 DEF Stands
    <2> QED
        BY <1>1, <1>6, <1>14, <2>1, <2>2
<1> QED
    BY <1>13, <1>14

(***************************************************************************)
(* Requests, lists of graphs and the RDF store keep their types, and a     *)
(* query is forwarded with at least one graph, whatever ACLs and graphs    *)
(* come and go (sparql.go:94-102).                                         *)
(***************************************************************************)
THEOREM TypeCorrect == Spec => []TypeOK
<1>1. Inv => TypeOK
    BY DEF Inv, TypeInv, ReadsInv, TypeOK, Steps
<1> QED
    BY Invariant, <1>1, PTL

(***************************************************************************)
(* A forwarded query reads graphs below the URL it was sent to, or that    *)
(* URL's own, even if graphs come and go between the listing and the query *)
(* (sparql.go:38-108).                                                     *)
(***************************************************************************)
THEOREM ReadsStayBelow == Spec => []QueryBelow
<1>1. Inv => QueryBelow
    BY DEF Inv, ReadsInv, ListInv, Within, QueryBelow
<1> QED
    BY Invariant, <1>1, PTL

(***************************************************************************)
(* For all ACLs and URLs, and in whatever order the RDF store returns the  *)
(* rows of a page: when the nearest page's rows come first, the loop over  *)
(* the rows allows what the rule allows (auth.go:11-69, server.go:150-175).*)
(***************************************************************************)
THEOREM DecidesByTheRule == Spec => []DecisionRight
<1>1. Inv => DecisionRight
    BY Decides DEF Inv, TypeInv, DecisionRight
<1> QED
    BY Invariant, <1>1, PTL

=============================================================================
