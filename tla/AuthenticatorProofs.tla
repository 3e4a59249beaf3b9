------------------------ MODULE AuthenticatorProofs ------------------------
(***************************************************************************)
(* Proofs about Authenticator, for any rules, names, requests and bounds.  *)
(***************************************************************************)
EXTENDS Authenticator, SequenceTheorems, FiniteSetTheorems, TLAPS

Realms == {Auth(e, n).realm : e \in Entries, n \in Range(Names)}
Domains == Range(Names) \ {Anonymous}
Certs == {q.certs : q \in Requests}

(* Types of requests, handlers and nonces *)

Requested ==
    [entry : Entries, method : Verbs, certs : Certs, header : Texts,
     basis : Bases \cup {None}]

\* A request is one of Requests, or a reply with the credentials of its basis.
ReqOK(q) ==
    /\ q \in Requested
    /\ q.basis = None => q \in Requests
    /\ q.basis # None =>
          q.header = Credentials(q.basis.ch.nonce, q.basis.ch.opaque,
                                 q.basis.username, q.basis.password)

Handlers ==
    [pc : {"idle", "purge", "digest", "issue"}, req : Requested \cup {None},
     now : Nat, methods : Seq(Digests), allow : BOOLEAN, found : BOOLEAN,
     stale : BOOLEAN, auths : SUBSET Domains, offers : Seq(Challenges)]

Answers == [granted : BOOLEAN, challenges : Seq(Challenges)]

Stored == [time : Nat, opaque : STRING, domain : Domains, realm : Realms]

Generated == {Nonces[i] : i \in 1 .. generated}

BaseInv ==
    /\ clock \in 0 .. MaxClock /\ restarts \in 0 .. MaxRestarts
    /\ visits \in 0 .. MaxVisits + MaxReplies
    /\ generated \in 0 .. Len(Nonces)
    /\ DOMAIN nonces \subseteq Generated
    /\ nonces \in [DOMAIN nonces -> Stored]
    /\ \A n \in DOMAIN nonces : nonces[n].time <= clock /\ nonces[n].opaque = Opaque[n]
    /\ answer \in [Clients -> Answers]
    /\ handler \in [Clients -> Handlers]
    /\ \A c \in Clients :
          /\ handler[c].now <= clock
          /\ handler[c].pc # "idle" => ReqOK(handler[c].req)

(* The challenges that handlers and clients hold *)

\* What a challenge tells of the nonces: while it is good and the process
\* goes on, its nonce is in the map, as it was stored.
ChallengeOK(ch) ==
    /\ ch.nonce \in Generated /\ ch.opaque = Opaque[ch.nonce]
    /\ ch.process <= restarts
    /\ ch.nonce \in DOMAIN nonces =>
          /\ ch.process = restarts
          /\ nonces[ch.nonce].time = ch.time /\ nonces[ch.nonce].domain = ch.domain
    /\ ch.process = restarts /\ ch.time + Validity > clock =>
          ch.nonce \in DOMAIN nonces

Answering(c) == handler[c].pc # "idle" /\ handler[c].req.basis # None

ChallengesInv ==
    \A c \in Clients :
        /\ \A i \in DOMAIN handler[c].offers : ChallengeOK(handler[c].offers[i])
        /\ \A i \in DOMAIN answer[c].challenges : ChallengeOK(answer[c].challenges[i])
        /\ Answering(c) => ChallengeOK(handler[c].req.basis.ch)

(* What a handler has found out *)

Answered(b) ==
    [nonce |-> <<b.ch.nonce>>, opaque |-> <<Opaque[b.ch.nonce]>>,
     username |-> <<b.username>>, response |-> <<b.password>>, supported |-> TRUE]

\* The methods that are left to be looked at.
MethodsLeft(h) ==
    /\ h.methods # <<>>
    /\ IF h.req.basis = None THEN h.methods \in Seq(Foreign)
                             ELSE h.methods = <<Answered(h.req.basis)>>

Perm(q, name) == getAuthPerms[q.entry][name][q.method]

CertNames(q) == {n \in authList[q.entry] : q.certs \cap Auth(q.entry, n).certs # {}}

\* The permissions of the names in W, none of which allows.
Weighed(h, W) ==
    /\ h.found = \E n \in W : Perm(h.req, n) # None
    /\ \A n \in W : Perm(h.req, n) # "allow"

\* When it has decided: a name that was proven allows, or all the names that
\* are still proven have been weighed, and no others than were proven.
Allowed(h) ==
    h.found /\ \E n \in Proven(h.req, h.now) \cup {Anonymous} : Perm(h.req, n) = "allow"

NotAllowed(h) ==
    \E W \in SUBSET (Proven(h.req, h.now) \cup {Anonymous}) :
        Proven(h.req, clock) \cup {Anonymous} \subseteq W /\ Weighed(h, W)

StaleOK(h) ==
    h.stale /\ h.req.basis # None =>
        \/ h.req.basis.ch.process # restarts
        \/ h.req.basis.ch.time + Validity <= clock

HandlerOK(h) ==
    /\ h.pc \in {"idle", "purge", "digest"} => h.auths = {} /\ h.offers = <<>> /\ ~h.allow
    /\ h.pc = "purge" => ~h.found /\ ~h.stale
    /\ h.pc = "digest" => MethodsLeft(h) /\ Weighed(h, CertNames(h.req)) /\ StaleOK(h)
    /\ h.pc = "issue" =>
          /\ IF h.allow THEN Allowed(h) ELSE NotAllowed(h)
          /\ h.auths = {} /\ h.offers = <<>> <=> authList[h.req.entry] = {}
          /\ StaleOK(h)

HandlersInv == \A c \in Clients : HandlerOK(handler[c])

-----------------------------------------------------------------------------
(* Lemmas about the operators *)

\* A set of naturals that is not empty has a least element.
LEMMA LeastNatural ==
    ASSUME NEW T \in SUBSET Nat, T # {}
    PROVE  \E n \in T : \A m \in T : n <= m
<1> DEFINE Below(n) == {k \in Nat : k < n}
           R == StrictSubsetOrdering(Nat)
           S == FiniteSubsetsOf(Nat)
           U == {Below(n) : n \in T}
<1>1. IsWellFoundedOn(R, S)
    BY FS_StrictSubsetOrderingWellFounded
<1>2. ASSUME NEW n \in Nat
      PROVE  Below(n) \in S
    <2>1. Below(n) \subseteq 0 .. n
        OBVIOUS
    <2>2. IsFiniteSet(0 .. n)
        BY FS_Interval
    <2> QED
        BY <2>1, <2>2, FS_Subset DEF FiniteSubsetsOf
<1>3. U \subseteq S /\ U # {}
    BY <1>2
<1>4. \E x \in U : \A y \in U : ~(<<y, x>> \in R)
    <2> HIDE DEF R, S, U
    <2> QED
        BY <1>1, <1>3, WFMin
<1>5. PICK n \in T : \A m \in T : ~(<<Below(m), Below(n)>> \in R)
    BY <1>4
<1>6. ASSUME NEW m \in T, m < n
      PROVE  FALSE
    <2>1. m \in Nat /\ n \in Nat
        OBVIOUS
    <2>2. m \in Below(n) /\ m \notin Below(m)
        BY <1>6, <2>1
    <2>3. \A k \in Below(m) : k \in Below(n)
        BY <1>6, <2>1
    <2>4. Below(m) \subseteq Below(n) /\ Below(m) # Below(n)
        BY <2>2, <2>3
    <2>5. Below(m) \subseteq Nat /\ Below(n) \subseteq Nat
        OBVIOUS
    <2>6. <<Below(m), Below(n)>> \in R
        BY <2>4, <2>5 DEF StrictSubsetOrdering
    <2> QED
        BY <2>6, <1>5
<1> QED
    BY <1>5, <1>6

LEMMA MinIn ==
    ASSUME NEW T \in SUBSET Nat, T # {}
    PROVE  Min(T) \in T /\ \A m \in T : Min(T) <= m
<1>1. \E n \in T : \A m \in T : n <= m
    BY LeastNatural
<1> QED
    BY <1>1 DEF Min

LEMMA FirstOfIn ==
    ASSUME NEW names \in SUBSET Range(Names), names # {}
    PROVE  FirstOf(names) \in names
<1> DEFINE I == {i \in DOMAIN Names : Names[i] \in names}
<1>1. I \in SUBSET Nat /\ I # {}
    BY NamesAssumption DEF Range
<1>2. Min(I) \in I
    BY <1>1, MinIn
<1> QED
    BY <1>2 DEF FirstOf

LEMMA AuthListType == \A e \in Entries : authList[e] \in SUBSET Domains
BY DEF authList, Domains

\* The next key is none of those generated before.
LEMMA NextKey ==
    ASSUME NEW g \in Nat, g < Len(Nonces)
    PROVE  /\ Nonces[g + 1] \in Range(Nonces) \cap STRING
           /\ \A i \in 1 .. g : Nonces[i] # Nonces[g + 1]
<1>1. \A i \in 1 .. g + 1 : i \in DOMAIN Nonces
    BY NoncesAssumption
<1> QED
    BY <1>1, NoncesAssumption DEF Range, IsInjective

LEMMA RequestOK ==
    ASSUME NEW q \in Requests
    PROVE  ReqOK(q) /\ q.basis = None
<1>1. q = Request(q.entry, q.method, q.certs, q.header)
    BY RequestsAssumption
<1>2. q.entry \in Entries /\ q.method \in Verbs /\ q.certs \in Certs /\ q.header \in Texts
    BY DEF Entries, Verbs, Certs, Texts
<1>3. q = [entry |-> q.entry, method |-> q.method, certs |-> q.certs,
           header |-> q.header, basis |-> None]
    BY <1>1, Zenon DEF Request
<1>4. q.basis = None
    BY <1>3
<1>5. q \in Requested
    BY <1>2, <1>3 DEF Requested
<1> QED
    BY <1>4, <1>5 DEF ReqOK

LEMMA ReplyOK ==
    ASSUME NEW q \in Requests, NEW ch \in Challenges, ch.opaque = Opaque[ch.nonce],
           NEW u \in {"guest", "member"}, NEW p \in {Password, "wrong"}
    PROVE  /\ ReqOK(Reply(q, ch, u, p))
           /\ Reply(q, ch, u, p).basis # None /\ Reply(q, ch, u, p).basis.ch = ch
<1> DEFINE b == [ch |-> ch, username |-> u, password |-> p]
           t == Credentials(ch.nonce, ch.opaque, u, p)
<1>1. q.entry \in Entries /\ q.method \in Verbs /\ q.certs \in Certs
      /\ q = [entry |-> q.entry, method |-> q.method, certs |-> q.certs,
              header |-> q.header, basis |-> None]
    BY RequestsAssumption, Zenon DEF Entries, Verbs, Certs, Request
<1>2. b \in Bases /\ b # None
    BY BasesAssumption DEF Bases
<1>3. t \in Texts
    <2>1. ch.nonce \in Range(Nonces) /\ t = Credentials(ch.nonce, Opaque[ch.nonce], u, p)
        BY DEF Challenges
    <2> DEFINE T == {Credentials(n, Opaque[n], v, w) :
               n \in Range(Nonces), v \in {"guest", "member"}, w \in {Password, "wrong"}}
    <2>2. Credentials(ch.nonce, Opaque[ch.nonce], u, p) \in T
        BY <2>1
    <2>3. Texts = {r.header : r \in Requests} \cup T
        BY DEF Texts
    <2> HIDE DEF T, t
    <2>4. t \in T
        BY <2>1, <2>2
    <2> QED
        BY <2>3, <2>4
<1>4. Reply(q, ch, u, p) = [entry |-> q.entry, method |-> q.method,
                            certs |-> q.certs, header |-> t, basis |-> b]
    <2>1. Reply(q, ch, u, p) = [q EXCEPT !.header = t, !.basis = b]
        BY Zenon DEF Reply
    <2> HIDE DEF t, b
    <2> QED
        BY <1>1, <2>1
<1> HIDE DEF t
<1>5. Reply(q, ch, u, p) \in Requested
    BY <1>1, <1>2, <1>3, <1>4 DEF Requested
<1>6. /\ Reply(q, ch, u, p).basis = b /\ Reply(q, ch, u, p).header = t
      /\ b.ch = ch /\ b.username = u /\ b.password = p
    BY <1>4
<1>7. t = Credentials(b.ch.nonce, b.ch.opaque, b.username, b.password)
    BY <1>6, Zenon DEF t
<1> QED
    BY <1>2, <1>5, <1>6, <1>7 DEF ReqOK

LEMMA PermIs ==
    ASSUME NEW q \in Requested, NEW name \in Range(Names)
    PROVE  Perm(q, name) = Permission(q.entry, name, q.method)
BY DEF Perm, getAuthPerms, Requested

LEMMA ConcludeFacts ==
    ASSUME NEW h \in Handlers, h.req \in Requested
    PROVE  LET g == Conclude(h)
           IN  /\ g \in Handlers /\ g.pc = "issue" /\ g.auths = authList[h.req.entry]
               /\ g.req = h.req /\ g.now = h.now /\ g.methods = h.methods
               /\ g.offers = h.offers /\ g.allow = h.allow /\ g.found = h.found
               /\ g.stale = h.stale
<1>1. h.req.entry \in Entries
    BY DEF Requested
<1>2. authList[h.req.entry] \in SUBSET Domains
    BY <1>1, AuthListType
<1> DEFINE a == authList[h.req.entry]
<1>3. Conclude(h) = [h EXCEPT !.pc = "issue", !.auths = a]
    BY DEF Conclude
<1> HIDE DEF a
<1>4. a \in SUBSET Domains
    BY <1>2 DEF a
<1> QED
    BY <1>3, <1>4 DEF Handlers, a

\* The name is weighed, and the decision is there if it allows.
LEMMA WeighFacts ==
    ASSUME NEW h \in Handlers, h.req \in Requested, NEW name \in Range(Names)
    PROVE  LET g == Weigh(h, name)
           IN  /\ g \in Handlers /\ g.req = h.req /\ g.now = h.now
               /\ g.methods = h.methods /\ g.offers = h.offers
               /\ IF Perm(h.req, name) = "allow"
                  THEN /\ g.pc = "issue" /\ g.auths = authList[h.req.entry]
                       /\ g.allow /\ g.found /\ ~g.stale
                  ELSE /\ g.pc = h.pc /\ g.auths = h.auths /\ g.allow = h.allow
                       /\ g.found = (h.found \/ Perm(h.req, name) # None)
                       /\ g.stale = h.stale
<1> DEFINE P == Perm(h.req, name)
           f == [h EXCEPT !.found = @ \/ P # None]
           g == [f EXCEPT !.allow = TRUE, !.stale = FALSE]
<1>1. Weigh(h, name) = IF P # "allow" THEN f ELSE Conclude(g)
    BY DEF Weigh, Perm
<1> HIDE DEF P
<1>2. /\ f \in Handlers /\ f.req = h.req /\ f.now = h.now /\ f.methods = h.methods
      /\ f.offers = h.offers /\ f.pc = h.pc /\ f.auths = h.auths /\ f.allow = h.allow
      /\ f.stale = h.stale /\ f.found = (h.found \/ P # None)
    BY DEF Handlers
<1> HIDE DEF f
<1>3. /\ g \in Handlers /\ g.req = h.req /\ g.now = h.now /\ g.methods = h.methods
      /\ g.offers = h.offers /\ g.allow /\ ~g.stale /\ g.found = f.found
    BY <1>2 DEF Handlers
<1> HIDE DEF g
<1>4. CASE P = "allow"
    <2>1. f.found = TRUE
        BY <1>2, <1>4, NamesAssumption
    <2>2. LET k == Conclude(g)
          IN  /\ k \in Handlers /\ k.pc = "issue" /\ k.auths = authList[g.req.entry]
              /\ k.req = g.req /\ k.now = g.now /\ k.methods = g.methods
              /\ k.offers = g.offers /\ k.allow = g.allow /\ k.found = g.found
              /\ k.stale = g.stale
        BY <1>3, ConcludeFacts
    <2> QED
        BY <1>1, <1>3, <1>4, <2>1, <2>2 DEF P
<1>5. CASE P # "allow"
    BY <1>1, <1>2, <1>5 DEF P
<1> QED
    BY <1>4, <1>5

LEMMA AnonymousFacts ==
    ASSUME NEW h \in Handlers, h.req \in Requested
    PROVE  LET g == CheckAnonymous(h)
               P == Perm(h.req, Anonymous)
           IN  /\ g \in Handlers /\ g.req = h.req /\ g.now = h.now
               /\ g.methods = h.methods /\ g.offers = h.offers
               /\ g.pc = "issue" /\ g.auths = authList[h.req.entry]
               /\ g.allow = (h.allow \/ P = "allow")
               /\ g.found = (h.found \/ P # None) /\ g.stale = h.stale
<1> DEFINE w == Weigh(h, Anonymous)
           g == [w EXCEPT !.stale = h.stale]
           P == Perm(h.req, Anonymous)
<1>1. Anonymous \in Range(Names)
    BY NamesAssumption
<1>2. /\ w \in Handlers /\ w.req = h.req /\ w.now = h.now
      /\ w.methods = h.methods /\ w.offers = h.offers
      /\ IF P = "allow" THEN w.allow /\ w.found
                        ELSE w.allow = h.allow /\ w.found = (h.found \/ P # None)
    BY <1>1, WeighFacts
<1>3. CheckAnonymous(h) = Conclude(g)
    BY DEF CheckAnonymous
<1>4. P = "allow" => P # None
    BY NamesAssumption
<1> HIDE DEF w, P
<1>5. /\ g \in Handlers /\ g.req = h.req /\ g.now = h.now
      /\ g.methods = h.methods /\ g.offers = h.offers /\ g.stale = h.stale
      /\ g.allow = w.allow /\ g.found = w.found
    BY <1>2 DEF Handlers
<1> HIDE DEF g
<1>6. LET k == Conclude(g)
      IN  /\ k \in Handlers /\ k.pc = "issue" /\ k.auths = authList[g.req.entry]
          /\ k.req = g.req /\ k.now = g.now /\ k.methods = g.methods
          /\ k.offers = g.offers /\ k.allow = g.allow /\ k.found = g.found
          /\ k.stale = g.stale
    BY <1>2, <1>5, ConcludeFacts
<1>7. w.allow \in BOOLEAN /\ w.found \in BOOLEAN /\ h.allow \in BOOLEAN /\ h.found \in BOOLEAN
    BY <1>2 DEF Handlers
<1>8. w.allow = (h.allow \/ P = "allow") /\ w.found = (h.found \/ P # None)
    BY <1>2, <1>4, <1>7
<1> QED
    BY <1>2, <1>3, <1>5, <1>6, <1>8 DEF P

\* The certificates' domains are weighed, up to one that allows.
LEMMA CertificatesFacts ==
    ASSUME NEW h \in Handlers, h.req \in Requested
    PROVE  LET g == CheckCertificates(h)
           IN  /\ g \in Handlers /\ g.req = h.req /\ g.now = h.now
               /\ g.methods = h.methods /\ g.offers = h.offers /\ g.stale = h.stale
               /\ g.found = \E n \in CertNames(h.req) : Perm(h.req, n) # None
               /\ IF \E n \in CertNames(h.req) : Perm(h.req, n) = "allow"
                  THEN g.pc = "issue" /\ g.auths = authList[h.req.entry] /\ g.allow
                  ELSE g.pc = h.pc /\ g.auths = h.auths /\ g.allow = h.allow
<1> DEFINE shown == {name \in authList[h.req.entry] :
                       \E cert \in h.req.certs : getAuthCredsCert(h.req.entry, name, cert)}
           perms == {getAuthPerms[h.req.entry][name][h.req.method] : name \in shown}
           f == [h EXCEPT !.found = perms \ {None} # {}]
           g == [f EXCEPT !.allow = TRUE]
<1>1. CheckCertificates(h) = IF "allow" \in perms THEN Conclude(g) ELSE f
    BY DEF CheckCertificates
<1>2. shown = CertNames(h.req)
    BY DEF CertNames, getAuthCredsCert
<1>3. perms = {Perm(h.req, n) : n \in CertNames(h.req)}
    BY <1>2 DEF Perm
<1>4. ("allow" \in perms) <=> \E n \in CertNames(h.req) : Perm(h.req, n) = "allow"
    BY <1>3
<1>5. (perms \ {None} # {}) <=> \E n \in CertNames(h.req) : Perm(h.req, n) # None
    BY <1>3
<1> HIDE DEF perms, shown
<1>6. /\ f \in Handlers /\ f.req = h.req /\ f.now = h.now /\ f.methods = h.methods
      /\ f.offers = h.offers /\ f.pc = h.pc /\ f.auths = h.auths /\ f.allow = h.allow
      /\ f.stale = h.stale /\ f.found = (perms \ {None} # {})
    BY DEF Handlers
<1> HIDE DEF f
<1>7. /\ g \in Handlers /\ g.req = h.req /\ g.now = h.now /\ g.methods = h.methods
      /\ g.offers = h.offers /\ g.allow /\ g.stale = h.stale /\ g.found = f.found
    BY <1>6 DEF Handlers
<1> HIDE DEF g
<1>8. CASE "allow" \in perms
    <2>1. LET k == Conclude(g)
          IN  /\ k \in Handlers /\ k.pc = "issue" /\ k.auths = authList[g.req.entry]
              /\ k.req = g.req /\ k.now = g.now /\ k.methods = g.methods
              /\ k.offers = g.offers /\ k.allow = g.allow /\ k.found = g.found
              /\ k.stale = g.stale
        BY <1>7, ConcludeFacts
    <2>2. CheckCertificates(h) = Conclude(g)
        BY <1>1, <1>8
    <2>3. \E n \in CertNames(h.req) : Perm(h.req, n) = "allow"
        BY <1>4, <1>8
    <2>4. g.found = \E n \in CertNames(h.req) : Perm(h.req, n) # None
        BY <1>5, <1>6, <1>7
    <2> HIDE DEF CertNames, Perm
    <2> QED
        BY <1>6, <1>7, <2>1, <2>2, <2>3, <2>4
<1>9. CASE "allow" \notin perms
    <2>1. CheckCertificates(h) = f
        BY <1>1, <1>9
    <2>2. ~(\E n \in CertNames(h.req) : Perm(h.req, n) = "allow")
        BY <1>4, <1>9
    <2> QED
        BY <1>5, <1>6, <2>1, <2>2
<1> QED
    BY <1>8, <1>9

-----------------------------------------------------------------------------
(* The parser (HeaderParser): how its rules read the challenges            *)

(* Loops towards the end of a text.  What there is to say of a position    *)
(* follows from what there is to say of those behind it.                   *)

LooksBehind(F, N, S) ==
    \A j \in 1 .. N : \A g, h \in [1 .. N -> S] :
       (\A k \in 1 .. N : j < k => g[k] = h[k]) => F[<<j, g>>] = F[<<j, h>>]

Unfolds(f, F, N) == \A j \in 1 .. N : f[j] = F[<<j, f>>]

LEMMA Backwards ==
    ASSUME NEW N \in Nat, NEW S, NEW s0 \in S,
           NEW F \in [(1 .. N) \X [1 .. N -> S] -> S], LooksBehind(F, N, S)
    PROVE  \E f \in [1 .. N -> S] : Unfolds(f, F, N)
<1> DEFINE Has(k) == \E f \in [1 .. N -> S] :
                        \A j \in 1 .. N : N - k < j => f[j] = F[<<j, f>>]
           X == {k \in 0 .. N : ~Has(k)}
<1>1. ASSUME NEW k \in X, \A m \in X : k <= m
      PROVE  FALSE
    <2>1. k \in 0 .. N /\ k \in Nat /\ ~Has(k)
        <3> HIDE DEF Has
        <3> QED
            OBVIOUS
    <2>2. CASE k = 0
        <3> DEFINE f == [n \in 1 .. N |-> s0]
        <3>1. f \in [1 .. N -> S] /\ \A j \in 1 .. N : ~(N - k < j)
            BY <2>2
        <3> HIDE DEF f
        <3> QED
            BY <2>1, <3>1
    <2>3. CASE k > 0
        <3>1. PICK m \in 0 .. N : m = k - 1 /\ ~(k <= m)
            BY <2>1, <2>3
        <3>2. Has(m)
            <4> HIDE DEF Has
            <4> QED
                BY <1>1, <3>1
        <3>3. PICK f \in [1 .. N -> S] : \A j \in 1 .. N : N - m < j => f[j] = F[<<j, f>>]
            BY <3>2
        <3>4. PICK i \in 1 .. N : i = N - m
            BY <2>1, <3>1
        <3>5. F[<<i, f>>] \in S
            OBVIOUS
        <3> DEFINE g == [f EXCEPT ![i] = F[<<i, f>>]]
        <3>6. g \in [1 .. N -> S] /\ g[i] = F[<<i, f>>] /\ \A j \in 1 .. N : j # i => g[j] = f[j]
            BY <3>5
        <3> HIDE DEF g
        <3>7. ASSUME NEW j \in 1 .. N, N - k < j
              PROVE  g[j] = F[<<j, g>>]
            <4>1. j >= i
                BY <2>1, <3>1, <3>4, <3>7
            <4>2. \A n \in 1 .. N : j < n => f[n] = g[n]
                BY <3>4, <3>6, <4>1
            <4>3. F[<<j, f>>] = F[<<j, g>>]
                BY <3>6, <4>2 DEF LooksBehind
            <4>4. CASE j = i
                BY <3>6, <4>3, <4>4
            <4>5. CASE j # i
                <5>1. N - m < j
                    BY <3>4, <4>1, <4>5
                <5> QED
                    BY <3>3, <3>6, <4>3, <4>5, <5>1
            <4> QED
                BY <4>4, <4>5
        <3> QED
            BY <2>1, <3>6, <3>7
    <2> QED
        BY <2>1, <2>2, <2>3
<1>2. X = {}
    <2>1. X \in SUBSET Nat
        OBVIOUS
    <2> HIDE DEF X
    <2> QED
        BY <1>1, <2>1, LeastNatural
<1> HIDE DEF Has
<1>3. Has(N)
    BY <1>2
<1>4. PICK f \in [1 .. N -> S] : \A j \in 1 .. N : N - N < j => f[j] = F[<<j, f>>]
    BY <1>3 DEF Has
<1> QED
    BY <1>4 DEF Unfolds

\* What holds of a position if it holds of those behind it, holds of all.
Inherits(T, N) == \A j \in 1 .. N : (\A k \in 1 .. N : j < k => k \in T) => j \in T

LEMMA AllInherit ==
    ASSUME NEW N \in Nat, NEW T, Inherits(T, N)
    PROVE  \A j \in 1 .. N : j \in T
<1> DEFINE Same(m) == \A j \in 1 .. N : N - m < j => j \in T
           X == {m \in 0 .. N : ~Same(m)}
<1>1. ASSUME NEW m \in X, \A n \in X : m <= n
      PROVE  FALSE
    <2>1. m \in 0 .. N /\ ~Same(m)
        <3> HIDE DEF Same
        <3> QED
            OBVIOUS
    <2>2. PICK j \in 1 .. N : N - m < j /\ j \notin T
        BY <2>1
    <2>3. m - 1 \in 0 .. N /\ ~(m <= m - 1)
        BY <2>1, <2>2
    <2>4. Same(m - 1)
        <3> HIDE DEF Same
        <3> QED
            BY <1>1, <2>3
    <2>5. \A k \in 1 .. N : j < k => N - (m - 1) < k
        BY <2>1, <2>2
    <2>6. \A k \in 1 .. N : j < k => k \in T
        BY <2>4, <2>5
    <2> QED
        BY <2>2, <2>6 DEF Inherits
<1>2. X = {}
    <2>1. X \in SUBSET Nat
        OBVIOUS
    <2> HIDE DEF X
    <2> QED
        BY <1>1, <2>1, LeastNatural
<1> HIDE DEF Same
<1>3. Same(N)
    BY <1>2
<1> QED
    BY <1>3 DEF Same

(* ASCII characters: names stand for them where a prover cannot read them *)

Keys == {"realm", "domain", "nonce", "opaque", "stale", "algorithm", "qop", "username", "response"}
Values == {"/", "true", "MD5", "auth", "guest", "member", "wrong"}
Char ==
    (STRING \cup {Space, Quote, Backslash, Comma, "=", "Digest"} \cup Keys \cup Values)
    \ DOMAIN Utf8
Blanks == {Space, "\t"}

LEMMA Characters ==
    /\ Quote \in Char /\ Backslash \in Char /\ Comma \in Char /\ Space \in Char /\ "=" \in Char
    /\ Quote # Backslash /\ Comma # Backslash /\ Comma # Quote
    /\ Quote \notin Blanks /\ Comma \notin Blanks
    /\ Quote \in Separators /\ Comma \in Separators /\ Space \in Separators /\ "=" \in Separators
    /\ Quote # "=" /\ Space \in Blanks /\ Blanks \subseteq Separators /\ "=" \notin Blanks
<1>1. /\ Quote \in Signs /\ Backslash \in Signs /\ Comma \in Signs /\ Space \in Signs
      /\ "=" \in Signs /\ "\t" \in Signs
    BY Zenon DEF Signs
<1>2. \A c \in Signs : c \notin DOMAIN Utf8 /\ c \in Separators
    BY Utf8Assumption, Zenon DEF Separators
<1>3. /\ Quote \in Char /\ Backslash \in Char /\ Comma \in Char /\ Space \in Char /\ "=" \in Char
    BY <1>1, <1>2, Zenon DEF Char
<1>4. /\ Quote # Backslash /\ Comma # Backslash /\ Comma # Quote
      /\ Quote \notin Blanks /\ Comma \notin Blanks
      /\ Quote # "=" /\ Space \in Blanks /\ "=" \notin Blanks
    BY Zenon DEF Quote, Backslash, Comma, Space, Blanks
<1>5. Blanks \subseteq Separators
    BY <1>1, <1>2, Zenon DEF Blanks
<1> QED
    BY <1>1, <1>2, <1>3, <1>4, <1>5, Zenon

\* A text of ASCII characters is its own bytes.
LEMMA BytesIs == \A b \in Seq(Char) : Bytes(b) = b
<1> SUFFICES ASSUME NEW b \in Seq(Char)
             PROVE  Bytes(b) = b
    OBVIOUS
<1>1. \A c \in Range(b) : c \in Char
    BY DEF Range
<1>2. Ascii(b)
    BY <1>1, Zenon DEF Ascii, Char
<1> QED
    BY <1>2, Zenon DEF Bytes

(* Runs of characters: where they end *)

LEMMA UntilIs ==
    ASSUME NEW b \in Seq(Char), NEW i \in 1 .. Len(b) + 1, NEW chars
    PROVE  /\ Until(b, i, chars) \in i .. Len(b) + 1
           /\ \A j \in i .. Len(b) : j < Until(b, i, chars) => b[j] \notin chars
           /\ Until(b, i, chars) <= Len(b) => b[Until(b, i, chars)] \in chars
<1> DEFINE T == {j \in i .. Len(b) : b[j] \in chars} \cup {Len(b) + 1}
           e == Until(b, i, chars)
<1>1. T \in SUBSET Nat /\ T # {} /\ \A j \in T : j \in i .. Len(b) + 1
    OBVIOUS
<1>2. e = Min(T)
    BY DEF Until
<1>3. e \in T /\ \A j \in T : e <= j
    <2> HIDE DEF T, e
    <2> QED
        BY <1>1, <1>2, MinIn
<1>4. e \in i .. Len(b) + 1 /\ (e <= Len(b) => b[e] \in chars)
    <2> HIDE DEF e
    <2> QED
        BY <1>1, <1>3
<1>5. ASSUME NEW j \in i .. Len(b), j < e
      PROVE  b[j] \notin chars
    <2> HIDE DEF e
    <2> QED
        BY <1>3, <1>4, <1>5
<1> QED
    BY <1>4, <1>5

LEMMA SkipIs ==
    ASSUME NEW b \in Seq(Char), NEW i \in 1 .. Len(b) + 1, NEW chars
    PROVE  /\ Skip(b, i, chars) \in i .. Len(b) + 1
           /\ \A j \in i .. Len(b) : j < Skip(b, i, chars) => b[j] \in chars
           /\ Skip(b, i, chars) <= Len(b) => b[Skip(b, i, chars)] \notin chars
<1> DEFINE T == {j \in i .. Len(b) : b[j] \notin chars} \cup {Len(b) + 1}
           e == Skip(b, i, chars)
<1>1. T \in SUBSET Nat /\ T # {} /\ \A j \in T : j \in i .. Len(b) + 1
    OBVIOUS
<1>2. e = Min(T)
    BY DEF Skip
<1>3. e \in T /\ \A j \in T : e <= j
    <2> HIDE DEF T, e
    <2> QED
        BY <1>1, <1>2, MinIn
<1>4. e \in i .. Len(b) + 1 /\ (e <= Len(b) => b[e] \notin chars)
    <2> HIDE DEF e
    <2> QED
        BY <1>1, <1>3
<1>5. ASSUME NEW j \in i .. Len(b), j < e
      PROVE  b[j] \in chars
    <2> HIDE DEF e
    <2> QED
        BY <1>3, <1>4, <1>5
<1> QED
    BY <1>4, <1>5

LEMMA WsIs ==
    ASSUME NEW b \in Seq(Char), NEW i \in 1 .. Len(b) + 1
    PROVE  /\ ws(b, i) \in i .. Len(b) + 1
           /\ i > Len(b) \/ b[i] \notin Blanks => ws(b, i) = i
           /\ i <= Len(b) /\ b[i] \in Blanks /\ (i = Len(b) \/ b[i + 1] \notin Blanks) =>
                 ws(b, i) = i + 1
<1> DEFINE e == Skip(b, i, Blanks)
<1>1. ws(b, i) = e
    BY DEF ws, Blanks
<1>2. /\ e \in i .. Len(b) + 1
      /\ \A j \in i .. Len(b) : j < e => b[j] \in Blanks
      /\ e <= Len(b) => b[e] \notin Blanks
    BY SkipIs
<1> HIDE DEF e
<1>3. i > Len(b) \/ b[i] \notin Blanks => e = i
    BY <1>2
<1>4. ASSUME i <= Len(b), b[i] \in Blanks, i = Len(b) \/ b[i + 1] \notin Blanks
      PROVE  e = i + 1
    <2>1. e # i
        BY <1>2, <1>4
    <2>2. i + 1 < e => i + 1 \in i .. Len(b)
        BY <1>2
    <2> QED
        BY <1>2, <1>4, <2>1, <2>2
<1> QED
    BY <1>1, <1>2, <1>3, <1>4

LEMMA TokenIs ==
    ASSUME NEW b \in Seq(Char), NEW i \in 1 .. Len(b) + 1
    PROVE  LET e == Until(b, i, Separators)
           IN  /\ e \in i .. Len(b) + 1
               /\ e = i => token(b, i) = No
               /\ e # i => token(b, i) = Yes(e, SubSeq(b, i, e - 1))
               /\ e = i <=> i > Len(b) \/ b[i] \in Separators
               /\ i < Len(b) /\ b[i] \notin Separators /\ b[i + 1] \in Separators =>
                     token(b, i) = Yes(i + 1, <<b[i]>>)
<1> DEFINE e == Until(b, i, Separators)
<1>1. /\ e \in i .. Len(b) + 1
      /\ \A j \in i .. Len(b) : j < e => b[j] \notin Separators
      /\ e <= Len(b) => b[e] \in Separators
    BY UntilIs
<1>2. /\ e = i => token(b, i) = No
      /\ e # i => token(b, i) = Yes(e, SubSeq(b, i, e - 1))
    BY BytesIs DEF token, Text
<1> HIDE DEF e
<1>3. e = i <=> i > Len(b) \/ b[i] \in Separators
    BY <1>1
<1>4. ASSUME i < Len(b), b[i] \notin Separators, b[i + 1] \in Separators
      PROVE  token(b, i) = Yes(i + 1, <<b[i]>>)
    <2>1. e # i /\ i + 1 \in i .. Len(b)
        BY <1>3, <1>4
    <2>2. e = i + 1
        BY <1>1, <1>4, <2>1
    <2>3. SubSeq(b, i, i) = <<b[i]>>
        <3>1. SubSeq(b, i, i) = <<b[i]>> \o SubSeq(b, i + 1, i) /\ SubSeq(b, i + 1, i) = <<>>
            BY <1>4, SubSeqRecursiveFirst, SubSeqEmpty
        <3>2. <<b[i]>> \in Seq(Char)
            BY <1>4
        <3> QED
            BY <3>1, <3>2, ConcatEmptySeq
    <2>4. e - 1 = i
        BY <2>2
    <2> QED
        BY <1>2, <2>1, <2>2, <2>3, <2>4
<1> QED
    BY <1>1, <1>2, <1>3, <1>4 DEF e

(* Quoted strings *)

\* What a rule returns, for values in V; and that it has gone on.
Parsed(b, V) == [ok : BOOLEAN, at : 0 .. Len(b) + 1, val : V]
GoesOn(r, b, i, V) == r \in Parsed(b, V) /\ (r.ok => i < r.at)

LEMMA ParsedBy ==
    ASSUME NEW b \in Seq(Char), NEW V, <<>> \in V
    PROVE  /\ \A i : No \in Parsed(b, V) /\ GoesOn(No, b, i, V)
           /\ \A at \in 0 .. Len(b) + 1, v \in V :
                 Yes(at, v) \in Parsed(b, V) /\ Yes(at, v).ok /\ Yes(at, v).at = at /\ Yes(at, v).val = v
BY DEF Parsed, GoesOn, No, Yes

LEMMA YesGoesOn ==
    ASSUME NEW b \in Seq(Char), NEW i \in Nat, NEW at \in 0 .. Len(b) + 1, i < at, NEW V, NEW v \in V
    PROVE  GoesOn(Yes(at, v), b, i, V)
BY DEF Parsed, GoesOn, Yes

\* The characters of a quoted string from position j on.
Quotes(b, g, j) ==
    LET k == IF b[j] = Backslash THEN j + 1 ELSE j
        next == g[k + 1]
    IN  IF k > Len(b) \/ ~next.ok THEN No
        ELSE Yes(next.at, <<Bytes(b)[k]>> \o next.val)

RestAt(b, g, j) ==
    IF j > Len(b) THEN No
    ELSE IF b[j] = Quote THEN Yes(j + 1, <<>>)
    ELSE Quotes(b, g, j)

RestOf(b, g) == \A j \in 1 .. Len(b) + 1 : g[j] = RestAt(b, g, j)

LEMMA QuotesNext ==
    ASSUME NEW b \in Seq(Char), NEW j \in 1 .. Len(b), NEW g \in [1 .. Len(b) + 1 -> Parsed(b, Seq(Char))]
    PROVE  LET k == IF b[j] = Backslash THEN j + 1 ELSE j
           IN  /\ k > Len(b) \/ (k + 1 \in 1 .. Len(b) + 1 /\ k + 1 > j)
               /\ Quotes(b, g, j) = No
                  \/ /\ k <= Len(b) /\ b[k] \in Char
                     /\ k + 1 \in 1 .. Len(b) + 1 /\ k + 1 > j
                     /\ g[k + 1].ok
                     /\ Quotes(b, g, j) = Yes(g[k + 1].at, <<b[k]>> \o g[k + 1].val)
               /\ Quotes(b, g, j) \in Parsed(b, Seq(Char))
<1> DEFINE k == IF b[j] = Backslash THEN j + 1 ELSE j
<1>1. k \in j .. j + 1
    OBVIOUS
<1>2. Quotes(b, g, j) = IF k > Len(b) \/ ~g[k + 1].ok THEN No
                        ELSE Yes(g[k + 1].at, <<b[k]>> \o g[k + 1].val)
    BY BytesIs, Zenon DEF Quotes
<1> HIDE DEF k
<1>3. k <= Len(b) => b[k] \in Char /\ k + 1 \in 1 .. Len(b) + 1 /\ k + 1 > j
    BY <1>1
<1>4. CASE k > Len(b) \/ ~g[k + 1].ok
    <2>1. No \in Parsed(b, Seq(Char))
        BY DEF Parsed, No
    <2> QED
        BY <1>1, <1>2, <1>3, <1>4, <2>1 DEF k
<1>5. CASE ~(k > Len(b)) /\ g[k + 1].ok
    <2>1. k + 1 \in 1 .. Len(b) + 1 /\ k <= Len(b)
        BY <1>1, <1>3, <1>5
    <2>2. g[k + 1] \in Parsed(b, Seq(Char))
        BY <2>1
    <2>3. g[k + 1].at \in 0 .. Len(b) + 1 /\ g[k + 1].val \in Seq(Char)
        BY <2>2 DEF Parsed
    <2>4. <<b[k]>> \o g[k + 1].val \in Seq(Char)
        BY <1>3, <2>1, <2>3
    <2>5. Yes(g[k + 1].at, <<b[k]>> \o g[k + 1].val) \in Parsed(b, Seq(Char))
        BY <2>3, <2>4, ParsedBy, EmptySeq
    <2> QED
        BY <1>2, <1>3, <1>5, <2>1, <2>5 DEF k
<1> QED
    BY <1>1, <1>4, <1>5

LEMMA RestOK ==
    ASSUME NEW b \in Seq(Char), NEW j \in 1 .. Len(b) + 1, NEW g \in [1 .. Len(b) + 1 -> Parsed(b, Seq(Char))]
    PROVE  RestAt(b, g, j) \in Parsed(b, Seq(Char))
<1>1. CASE j > Len(b) \/ b[j] = Quote
    <2>1. No \in Parsed(b, Seq(Char)) /\ \A at \in 0 .. Len(b) + 1 : Yes(at, <<>>) \in Parsed(b, Seq(Char))
        BY ParsedBy, EmptySeq
    <2>2. j <= Len(b) => j + 1 \in 0 .. Len(b) + 1
        OBVIOUS
    <2> QED
        BY <1>1, <2>1, <2>2 DEF RestAt
<1>2. CASE ~(j > Len(b) \/ b[j] = Quote)
    <2>1. j \in 1 .. Len(b) /\ RestAt(b, g, j) = Quotes(b, g, j)
        BY <1>2 DEF RestAt
    <2> QED
        BY <2>1, QuotesNext
<1> QED
    BY <1>1, <1>2

LEMMA RestSame ==
    ASSUME NEW b \in Seq(Char), NEW j \in 1 .. Len(b) + 1,
           NEW g, NEW h,
           \A k \in 1 .. Len(b) + 1 : j < k => g[k] = h[k]
    PROVE  RestAt(b, g, j) = RestAt(b, h, j)
<1> DEFINE k == IF b[j] = Backslash THEN j + 1 ELSE j
<1>1. k > Len(b) \/ g[k + 1] = h[k + 1]
    <2>1. k \in j .. j + 1
        OBVIOUS
    <2>2. k <= Len(b) => k + 1 \in 1 .. Len(b) + 1 /\ j < k + 1
        BY <2>1
    <2> HIDE DEF k
    <2> QED
        BY <2>1, <2>2
<1>2. Quotes(b, g, j) = Quotes(b, h, j)
    <2>1. \A f : Quotes(b, f, j) = IF k > Len(b) \/ ~f[k + 1].ok THEN No
                                   ELSE Yes(f[k + 1].at, <<b[k]>> \o f[k + 1].val)
        BY BytesIs, Zenon DEF Quotes
    <2> HIDE DEF k
    <2> QED
        BY <1>1, <2>1
<1> QED
    BY <1>2 DEF RestAt

LEMMA QuotedIs ==
    ASSUME NEW b \in Seq(Char)
    PROVE  \E rest \in [1 .. Len(b) + 1 -> Parsed(b, Seq(Char))] :
              /\ RestOf(b, rest)
              /\ \A i \in 1 .. Len(b) + 1 :
                    quoted_string(b, i) = IF Is(b, i, Quote) THEN rest[i + 1] ELSE No
<1> DEFINE N == Len(b) + 1
           S == Parsed(b, Seq(Char))
           rest == CHOOSE g : g = [j \in 1 .. N |->
                      IF j > Len(b) THEN No
                      ELSE IF b[j] = Quote THEN Yes(j + 1, <<>>)
                      ELSE LET k == IF b[j] = Backslash THEN j + 1 ELSE j
                               next == g[k + 1]
                           IN  IF k > Len(b) \/ ~next.ok THEN No
                               ELSE Yes(next.at, <<Bytes(b)[k]>> \o next.val)]
           F == [a \in (1 .. N) \X [1 .. N -> S] |-> RestAt(b, a[2], a[1])]
<1>0. N \in Nat
    OBVIOUS
<1>1. \A i \in 1 .. N : quoted_string(b, i) = IF Is(b, i, Quote) THEN rest[i + 1] ELSE No
    BY Zenon DEF quoted_string
<1>2. rest = CHOOSE g : g = [j \in 1 .. N |-> RestAt(b, g, j)]
    BY Zenon DEF RestAt, Quotes
<1> HIDE DEF rest
<1>3. No \in S
    BY ParsedBy, EmptySeq
<1>4. F \in [(1 .. N) \X [1 .. N -> S] -> S]
    <2>1. \A j \in 1 .. N, g \in [1 .. N -> S] : RestAt(b, g, j) \in S
        BY RestOK
    <2> HIDE DEF S, N
    <2> QED
        BY <2>1
<1>5. \A j \in 1 .. N : \A g \in [1 .. N -> S] : F[<<j, g>>] = RestAt(b, g, j)
    <2> HIDE DEF S, N
    <2> QED
        OBVIOUS
<1>6. LooksBehind(F, N, S)
    <2> HIDE DEF F, S
    <2> SUFFICES ASSUME NEW j \in 1 .. N, NEW g \in [1 .. N -> S], NEW h \in [1 .. N -> S],
                        \A k \in 1 .. N : j < k => g[k] = h[k]
                 PROVE  F[<<j, g>>] = F[<<j, h>>]
        BY DEF LooksBehind
    <2>1. RestAt(b, g, j) = RestAt(b, h, j)
        BY RestSame
    <2>2. F[<<j, g>>] = RestAt(b, g, j) /\ F[<<j, h>>] = RestAt(b, h, j)
        BY <1>5
    <2> QED
        BY <2>1, <2>2
<1>7. PICK f \in [1 .. N -> S] : \A j \in 1 .. N : f[j] = RestAt(b, f, j)
    <2> HIDE DEF F, S, N
    <2>1. \E f \in [1 .. N -> S] : Unfolds(f, F, N)
        BY <1>0, <1>3, <1>4, <1>6, Backwards
    <2> QED
        BY <1>5, <2>1 DEF Unfolds
<1> HIDE DEF S, F
<1>8. f = [j \in 1 .. N |-> RestAt(b, f, j)]
    BY <1>7
<1>9. rest = [j \in 1 .. N |-> RestAt(b, rest, j)]
    BY <1>2, <1>8
<1>10. \A j \in 1 .. N : rest[j] = RestAt(b, rest, j)
    BY <1>9
<1> DEFINE T == {j \in 1 .. N : rest[j] = f[j]}
<1>11. \A j \in 1 .. N : j \in T
    <2>1. ASSUME NEW j \in 1 .. N, \A k \in 1 .. N : j < k => k \in T
          PROVE  j \in T
        <3>1. \A k \in 1 .. N : j < k => rest[k] = f[k]
            BY <2>1
        <3>2. RestAt(b, rest, j) = RestAt(b, f, j)
            BY <3>1, RestSame
        <3> QED
            BY <1>7, <1>10, <3>2
    <2> HIDE DEF N, T
    <2>2. Inherits(T, N)
        BY <2>1 DEF Inherits
    <2> QED
        BY <1>0, <2>2, AllInherit
<1>12. rest \in [1 .. N -> S]
    BY <1>9, <1>11
<1>13. RestOf(b, rest)
    BY <1>10 DEF RestOf
<1> HIDE DEF N
<1> QED
    BY <1>1, <1>12, <1>13 DEF S, N

Pieces(f, ss, N) == \A i \in 1 .. N : f[i] = IF i = 1 THEN ss[i] ELSE f[i - 1] \o ss[i]

LEMMA PiecesJoin ==
    ASSUME NEW C, NEW N \in Nat, NEW ss, \A j \in 1 .. N : ss[j] \in Seq(C)
    PROVE  \E f \in [1 .. N -> Seq(C)] : Pieces(f, ss, N)
<1> DEFINE Has(k) == \E f \in [1 .. k -> Seq(C)] : Pieces(f, ss, k)
           X == {k \in 0 .. N : ~Has(k)}
<1>1. ASSUME NEW k \in X, \A m \in X : k <= m
      PROVE  FALSE
    <2>1. k \in 0 .. N /\ k \in Nat /\ ~Has(k)
        <3> HIDE DEF Has
        <3> QED
            OBVIOUS
    <2>2. CASE k = 0
        <3> DEFINE f == [n \in 1 .. 0 |-> << >>]
        <3>1. f \in [1 .. 0 -> Seq(C)] /\ Pieces(f, ss, 0)
            BY DEF Pieces
        <3> HIDE DEF f
        <3> QED
            BY <2>1, <2>2, <3>1
    <2>3. CASE k > 0
        <3>1. PICK j \in 0 .. N : j = k - 1 /\ ~(k <= j)
            BY <2>1, <2>3
        <3>2. Has(j)
            <4> HIDE DEF Has
            <4> QED
                BY <1>1, <3>1
        <3>3. PICK f \in [1 .. j -> Seq(C)] : Pieces(f, ss, j)
            BY <3>2
        <3>4. k \in 1 .. N /\ ss[k] \in Seq(C)
            BY <2>1, <2>3
        <3> DEFINE y == IF k = 1 THEN ss[k] ELSE f[j] \o ss[k]
                   g == [n \in 1 .. k |-> IF n = k THEN y ELSE f[n]]
        <3>5. y \in Seq(C)
            <4>1. CASE k = 1
                BY <3>4, <4>1
            <4>2. CASE k # 1
                <5>1. j \in 1 .. j
                    BY <2>1, <3>1, <3>4, <4>2
                <5>2. f[j] \in Seq(C)
                    BY <5>1
                <5>3. f[j] \o ss[k] \in Seq(C)
                    BY <3>4, <5>2
                <5> QED
                    BY <4>2, <5>3
            <4> QED
                BY <4>1, <4>2
        <3>6. \A n \in 1 .. k : n # k => n \in 1 .. j
            BY <2>1, <3>1
        <3> HIDE DEF y
        <3>7. g \in [1 .. k -> Seq(C)]
            BY <3>5, <3>6
        <3>8. ASSUME NEW n \in 1 .. k
              PROVE  g[n] = IF n = 1 THEN ss[n] ELSE g[n - 1] \o ss[n]
            <4>1. n # 1 => n - 1 \in 1 .. k /\ n - 1 # k
                BY <2>1
            <4>2. n # 1 => g[n - 1] = f[n - 1]
                BY <4>1
            <4>3. CASE n = k
                <5>1. g[n] = y /\ n - 1 = j
                    BY <3>1, <4>3
                <5> QED
                    BY <4>2, <4>3, <5>1 DEF y
            <4>4. CASE n # k
                <5>1. g[n] = f[n] /\ n \in 1 .. j
                    BY <3>6, <4>4
                <5> QED
                    BY <3>3, <4>2, <5>1 DEF Pieces
            <4> QED
                BY <4>3, <4>4
        <3> HIDE DEF g
        <3>9. Pieces(g, ss, k)
            BY <3>8 DEF Pieces
        <3> QED
            BY <2>1, <3>7, <3>9
    <2> QED
        BY <2>1, <2>2, <2>3
<1>2. X = {}
    <2>1. X \in SUBSET Nat
        OBVIOUS
    <2> HIDE DEF X
    <2> QED
        BY <1>1, <2>1, LeastNatural
<1> HIDE DEF Has
<1>3. Has(N)
    BY <1>2
<1> QED
    BY <1>3 DEF Has

LEMMA FlattenIs ==
    ASSUME NEW C, NEW N \in Nat \ {0}, NEW ss \in [1 .. N -> Seq(C)]
    PROVE  \E f \in [1 .. N -> Seq(C)] : Pieces(f, ss, N) /\ FlattenSeq(ss) = f[N]
<1> DEFINE Row(g, i) == IF i = 1 THEN ss[i] ELSE g[i - 1] \o ss[i]
           flatten == CHOOSE g : g = [i \in 1 .. N |-> Row(g, i)]
<1>1. Len(ss) = N /\ N # 0
    <2>1. ss \in Seq(Seq(C)) /\ DOMAIN ss = 1 .. N
        BY IsASeq
    <2>2. DOMAIN ss = 1 .. Len(ss) /\ Len(ss) \in Nat
        BY <2>1, LenProperties
    <2> QED
        BY <2>1, <2>2
<1>2. FlattenSeq(ss) = flatten[N]
    <2>1. FlattenSeq(ss) =
             IF Len(ss) = 0 THEN ss
             ELSE (CHOOSE g : g = [i \in 1 .. Len(ss) |->
                                      IF i = 1 THEN ss[i] ELSE g[i - 1] \o ss[i]])[Len(ss)]
        BY Zenon DEF FlattenSeq
    <2> QED
        BY <1>1, <2>1, Zenon
<1>3. PICK h \in [1 .. N -> Seq(C)] : Pieces(h, ss, N)
    BY PiecesJoin
<1>4. h = [i \in 1 .. N |-> Row(h, i)]
    BY ZenonT(60), <1>3 DEF Pieces
<1> HIDE DEF Row
<1>5. flatten = [i \in 1 .. N |-> Row(flatten, i)]
    BY <1>4
<1> HIDE DEF flatten
<1>6. \A i \in 1 .. N : flatten[i] = IF i = 1 THEN ss[i] ELSE flatten[i - 1] \o ss[i]
    <2>1. \A i \in 1 .. N : flatten[i] = Row(flatten, i)
        BY <1>5
    <2> QED
        BY <2>1 DEF Row
<1> DEFINE X == {i \in 1 .. N : flatten[i] # h[i]}
<1>7. ASSUME NEW i \in X, \A m \in X : i <= m
      PROVE  FALSE
    <2>1. i \in 1 .. N /\ flatten[i] # h[i]
        OBVIOUS
    <2>2. CASE i = 1
        BY <1>3, <1>6, <2>1, <2>2 DEF Pieces
    <2>3. CASE i # 1
        <3>1. i - 1 \in 1 .. N /\ ~(i <= i - 1)
            BY <2>1, <2>3
        <3>2. flatten[i - 1] = h[i - 1]
            BY <1>7, <3>1
        <3> QED
            BY <1>3, <1>6, <2>1, <2>3, <3>2 DEF Pieces
    <2> QED
        BY <2>2, <2>3
<1>8. X = {}
    <2>1. X \in SUBSET Nat
        OBVIOUS
    <2> HIDE DEF X
    <2> QED
        BY <1>7, <2>1, LeastNatural
<1>9. flatten[N] = h[N]
    <2>1. N \in 1 .. N
        OBVIOUS
    <2> QED
        BY <1>8, <2>1
<1> QED
    BY <1>2, <1>3, <1>9

\* What is written for a character, and for those up to a position.
EscapeOf(c) == IF c \in {Quote, Backslash} THEN <<Backslash, c>> ELSE <<c>>

Escapes(U, x) ==
    /\ U \in [0 .. Len(x) -> Seq(Char)] /\ U[0] = <<>>
    /\ \A k \in 1 .. Len(x) : U[k] = U[k - 1] \o EscapeOf(x[k])

LEMMA EscapeOfIs == \A c \in Char : EscapeOf(c) \in Seq(Char)
<1> SUFFICES ASSUME NEW c \in Char
             PROVE  EscapeOf(c) \in Seq(Char)
    OBVIOUS
<1>1. <<c>> \in Seq(Char) /\ <<Backslash, c>> \in Seq(Char)
    BY Characters
<1> QED
    BY <1>1, Zenon DEF EscapeOf

LEMMA EscapeIs ==
    ASSUME NEW x \in Seq(Char)
    PROVE  \E U : Escapes(U, x) /\ escape(x) = U[Len(x)]
<1> DEFINE N == Len(x)
           ss == [i \in 1 .. N |-> EscapeOf(x[i])]
<1>1. N \in Nat /\ DOMAIN x = 1 .. N /\ \A i \in 1 .. N : x[i] \in Char
    OBVIOUS
<1>2. escape(x) = FlattenSeq(ss)
    <2>1. escape(x) = FlattenSeq([i \in DOMAIN x |-> EscapeOf(x[i])])
        BY Zenon DEF escape, EscapeOf
    <2> HIDE DEF N
    <2> QED
        BY <1>1, <2>1
<1> HIDE DEF N
<1>3. \A i \in 1 .. N : ss[i] = EscapeOf(x[i]) /\ ss[i] \in Seq(Char)
    BY <1>1, EscapeOfIs
<1>4. CASE N = 0
    <2>1. ss = <<>>
        BY <1>4
    <2> HIDE DEF ss
    <2>2. FlattenSeq(ss) = <<>>
        BY <2>1 DEF FlattenSeq
    <2> DEFINE U == [k \in 0 .. N |-> <<>>]
    <2>3. Escapes(U, x) /\ U[N] = <<>>
        BY <1>1, <1>4 DEF Escapes, N
    <2> HIDE DEF U
    <2> QED
        BY <1>2, <2>2, <2>3 DEF N
<1>5. CASE N # 0
    <2>1. N \in Nat \ {0} /\ ss \in [1 .. N -> Seq(Char)]
        <3>1. \A i \in 1 .. N : EscapeOf(x[i]) \in Seq(Char)
            BY <1>1, EscapeOfIs
        <3> QED
            BY <1>1, <1>5, <3>1
    <2> HIDE DEF ss
    <2>2. PICK f \in [1 .. N -> Seq(Char)] : Pieces(f, ss, N) /\ FlattenSeq(ss) = f[N]
        BY <2>1, FlattenIs
    <2> DEFINE U == [k \in 0 .. N |-> IF k = 0 THEN <<>> ELSE f[k]]
    <2>3. U \in [0 .. N -> Seq(Char)] /\ U[0] = <<>> /\ U[N] = f[N] /\ \A k \in 1 .. N : U[k] = f[k]
        <3>1. <<>> \in Seq(Char)
            OBVIOUS
        <3>2. \A k \in 0 .. N : k # 0 => k \in 1 .. N
            BY <1>1
        <3>3. N \in 0 .. N /\ 0 \in 0 .. N /\ \A k \in 1 .. N : k \in 0 .. N /\ k # 0
            BY <1>1
        <3> QED
            BY <1>5, <3>1, <3>2, <3>3
    <2>4. ASSUME NEW k \in 1 .. N
          PROVE  U[k] = U[k - 1] \o EscapeOf(x[k])
        <3>1. CASE k = 1
            <4>1. U[k - 1] = <<>>
                BY <2>3, <3>1
            <4>2. f[k] = ss[k]
                BY <2>2, <3>1 DEF Pieces
            <4>3. U[k] = EscapeOf(x[k]) /\ EscapeOf(x[k]) \in Seq(Char)
                BY <1>3, <2>3, <4>2
            <4>4. <<>> \o EscapeOf(x[k]) = EscapeOf(x[k])
                BY <4>3, ConcatEmptySeq
            <4> QED
                BY <4>1, <4>3, <4>4
        <3>2. CASE k # 1
            <4>1. k - 1 \in 1 .. N
                BY <1>1, <3>2
            <4>2. U[k - 1] = f[k - 1] /\ U[k] = f[k]
                BY <2>3, <4>1
            <4>3. f[k] = f[k - 1] \o ss[k]
                BY <2>2, <3>2 DEF Pieces
            <4> QED
                BY <1>3, <4>2, <4>3
        <3> QED
            BY <3>1, <3>2
    <2> HIDE DEF U
    <2>5. Escapes(U, x)
        BY <2>3, <2>4 DEF Escapes, N
    <2> QED
        BY <1>2, <2>2, <2>3, <2>5 DEF N
<1> QED
    BY <1>4, <1>5

LEMMA EscapeWord ==
    ASSUME NEW w \in Char, w \notin {Quote, Backslash}
    PROVE  escape(<<w>>) = <<w>>
<1>1. <<w>> \in Seq(Char) /\ Len(<<w>>) = 1 /\ <<w>>[1] = w
    OBVIOUS
<1>2. PICK U : Escapes(U, <<w>>) /\ escape(<<w>>) = U[1]
    BY <1>1, EscapeIs
<1>3. U[1] = U[0] \o <<w>> /\ U[0] = <<>>
    <2> DEFINE x == <<w>>
    <2>1. EscapeOf(x[1]) = <<w>>
        BY <1>1, Zenon DEF EscapeOf
    <2>2. Escapes(U, x)
        BY <1>2
    <2>3. 1 \in 1 .. Len(x) /\ 1 - 1 = 0
        BY <1>1
    <2> HIDE DEF x
    <2>4. U[1] = U[1 - 1] \o EscapeOf(x[1]) /\ U[0] = <<>>
        BY <2>2, <2>3, Zenon DEF Escapes
    <2> QED
        BY <2>1, <2>3, <2>4, Zenon
<1> QED
    BY <1>1, <1>2, <1>3, ConcatEmptySeq

(* What stands in a text behind a position *)

From(b, p, t) ==
    /\ b \in Seq(Char) /\ t \in Seq(Char) /\ p \in Nat /\ Len(b) = p + Len(t)
    /\ \A k \in 1 .. Len(t) : b[p + k] = t[k]

LEMMA FromIs ==
    ASSUME NEW b, NEW p, NEW t, From(b, p, t)
    PROVE  /\ Len(b) = p + Len(t) /\ Len(b) \in Nat /\ Len(t) \in Nat
           /\ \A k \in 1 .. Len(t) : b[p + k] = t[k]
BY DEF From

LEMMA FromConcat ==
    ASSUME NEW b, NEW p, NEW s \in Seq(Char), NEW t \in Seq(Char), From(b, p, s \o t)
    PROVE  /\ From(b, p + Len(s), t)
           /\ p + Len(s) <= Len(b) /\ \A k \in 1 .. Len(s) : b[p + k] = s[k]
<1>1. /\ Len(s) \in Nat /\ Len(t) \in Nat /\ Len(s \o t) = Len(s) + Len(t)
      /\ \A k \in 1 .. Len(s) + Len(t) : (s \o t)[k] = IF k <= Len(s) THEN s[k] ELSE t[k - Len(s)]
    BY ConcatProperties
<1>2. /\ b \in Seq(Char) /\ p \in Nat /\ Len(b) = p + Len(s \o t)
      /\ \A k \in 1 .. Len(s \o t) : b[p + k] = (s \o t)[k]
    BY DEF From
<1>3. \A k \in 1 .. Len(s) : b[p + k] = s[k]
    <2>1. \A k \in 1 .. Len(s) : k \in 1 .. Len(s \o t) /\ (s \o t)[k] = s[k]
        BY <1>1
    <2> QED
        BY <1>2, <2>1
<1>4. ASSUME NEW k \in 1 .. Len(t)
      PROVE  b[p + Len(s) + k] = t[k]
    <2> DEFINE m == Len(s) + k
    <2>1. m \in 1 .. Len(s \o t) /\ m - Len(s) = k /\ ~(m <= Len(s)) /\ p + m = p + Len(s) + k
        BY <1>1, <1>2
    <2> HIDE DEF m
    <2>2. b[p + m] = (s \o t)[m] /\ (s \o t)[m] = t[m - Len(s)]
        BY <1>1, <1>2, <2>1
    <2> QED
        BY <2>1, <2>2
<1> QED
    BY <1>1, <1>2, <1>3, <1>4 DEF From

LEMMA QuotedReads ==
    ASSUME NEW b \in Seq(Char), NEW p \in Nat, NEW x \in Seq(Char), NEW U, Escapes(U, x),
           p + Len(U[Len(x)]) + 2 <= Len(b), b[p + 1] = Quote,
           \A k \in 1 .. Len(U[Len(x)]) : b[p + 1 + k] = U[Len(x)][k],
           b[p + Len(U[Len(x)]) + 2] = Quote
    PROVE  quoted_string(b, p + 1) = Yes(p + Len(U[Len(x)]) + 3, x)
<1> DEFINE n == Len(x)
           L(k) == Len(U[k])
           e == p + L(n) + 3
           Holds(k) == /\ L(k) <= L(n)
                       /\ \A m \in 1 .. L(k) : b[p + 1 + m] = U[k][m]
<1>1. /\ n \in Nat /\ \A k \in 1 .. n : x[k] \in Char
      /\ U \in [0 .. n -> Seq(Char)] /\ U[0] = <<>>
      /\ \A k \in 1 .. n : U[k] = U[k - 1] \o EscapeOf(x[k])
    <2>1. n \in Nat /\ \A k \in 1 .. n : x[k] \in Char
        OBVIOUS
    <2>2. /\ U \in [0 .. n -> Seq(Char)] /\ U[0] = <<>>
          /\ \A k \in 1 .. n : U[k] = U[k - 1] \o EscapeOf(x[k])
        BY Zenon DEF Escapes
    <2> QED
        BY <2>1, <2>2
<1>2. PICK rest \in [1 .. Len(b) + 1 -> Parsed(b, Seq(Char))] :
              /\ RestOf(b, rest)
              /\ \A i \in 1 .. Len(b) + 1 :
                    quoted_string(b, i) = IF Is(b, i, Quote) THEN rest[i + 1] ELSE No
    BY QuotedIs
<1> HIDE DEF n
<1>3. \A k \in 0 .. n : U[k] \in Seq(Char) /\ L(k) \in Nat
    BY <1>1
<1>0. /\ p + L(n) + 2 <= Len(b) /\ b[p + L(n) + 2] = Quote
      /\ \A k \in 1 .. L(n) : b[p + 1 + k] = U[n][k]
    BY DEF n
<1> HIDE DEF L
<1>4. e \in Nat /\ e >= 2 /\ e <= Len(b) + 1 /\ Len(b) \in Nat /\ b[e - 1] = Quote /\ e - 1 = p + 2 + L(n)
    <2>1. Len(b) \in Nat /\ n \in 0 .. n
        BY <1>1
    <2>2. L(n) \in Nat
        BY <1>3, <2>1
    <2>3. e - 1 = p + L(n) + 2 /\ e - 1 = p + 2 + L(n) /\ e \in Nat /\ e <= Len(b) + 1 /\ e >= 2
        BY <1>0, <2>1, <2>2
    <2> HIDE DEF e
    <2> QED
        BY <1>0, <2>1, <2>3
<1> DEFINE Reads(k) == rest[p + 2 + L(k)] = Yes(e, SubSeq(x, k + 1, n))
           T == {j \in 1 .. n + 1 : Holds(j - 1) /\ Reads(j - 1)}
<1>5. Holds(n)
    <2>1. L(n) <= L(n)
        BY <1>1, <1>3
    <2> QED
        BY <1>0, <2>1
<1>6. Reads(n)
    <2> HIDE DEF e
    <2>1. e - 1 \in 1 .. Len(b) + 1 /\ ~(e - 1 > Len(b)) /\ e - 1 + 1 = e
        BY <1>4
    <2>2. rest[e - 1] = Yes(e, <<>>)
        BY <1>2, <1>4, <2>1 DEF RestOf, RestAt
    <2>3. SubSeq(x, n + 1, n) = <<>>
        BY <1>1, SubSeqEmpty
    <2> QED
        BY <1>4, <2>2, <2>3
<1>7. ASSUME NEW k \in 1 .. n, Holds(k), Reads(k)
      PROVE  Holds(k - 1) /\ Reads(k - 1)
    <2> DEFINE c == x[k]
               E == EscapeOf(c)
               q == p + 2 + L(k - 1)
    <2>1. c \in Char /\ E \in Seq(Char) /\ U[k] = U[k - 1] \o E
          /\ U[k - 1] \in Seq(Char) /\ U[k] \in Seq(Char)
          /\ k - 1 \in 0 .. n /\ k \in 0 .. n
        <3>1. k - 1 \in 0 .. n /\ k \in 0 .. n /\ c \in Char
            BY <1>1
        <3>2. E \in Seq(Char)
            BY <3>1, EscapeOfIs
        <3> QED
            BY <1>1, <1>3, <3>1, <3>2, Zenon
    <2> HIDE DEF c, E
    <2>2. /\ L(k) = L(k - 1) + Len(E) /\ L(k) \in Nat /\ L(k - 1) \in Nat /\ Len(E) \in Nat
          /\ \A m \in 1 .. L(k - 1) + Len(E) :
                U[k][m] = IF m <= L(k - 1) THEN U[k - 1][m] ELSE E[m - L(k - 1)]
        BY <2>1, ConcatProperties DEF L
    <2>3. Holds(k - 1)
        <3>1. \A m \in 1 .. L(k - 1) : m \in 1 .. L(k) /\ U[k][m] = U[k - 1][m]
            BY <2>2
        <3>2. L(k - 1) <= L(n)
            <4>1. L(n) \in Nat /\ L(k) <= L(n)
                BY <1>1, <1>3, <1>7
            <4> QED
                BY <2>2, <4>1
        <3> QED
            BY <1>7, <3>1, <3>2
    <2>4. \A m \in 1 .. Len(E) : b[q - 1 + m] = E[m]
        <3> SUFFICES ASSUME NEW m \in 1 .. Len(E)
                     PROVE  b[q - 1 + m] = E[m]
            OBVIOUS
        <3> DEFINE r == L(k - 1) + m
        <3>1. r \in 1 .. L(k) /\ ~(r <= L(k - 1)) /\ r - L(k - 1) = m /\ q - 1 + m = p + 1 + r
            <4> DEFINE l == L(k - 1)
            <4>1. L(k) = l + Len(E) /\ l \in Nat /\ Len(E) \in Nat
                BY <2>2
            <4> HIDE DEF l
            <4>2. l + m \in 1 .. L(k) /\ ~(l + m <= l) /\ (l + m) - l = m
                  /\ (p + 2 + l) - 1 + m = p + 1 + (l + m)
                BY <4>1
            <4> QED
                BY <4>2, Zenon DEF l
        <3> HIDE DEF r
        <3>2. b[p + 1 + r] = U[k][r] /\ U[k][r] = E[r - L(k - 1)]
            BY <1>7, <2>2, <3>1
        <3> QED
            BY <3>1, <3>2
    <2>5. q + Len(E) = p + 2 + L(k) /\ q \in Nat /\ q >= 1 /\ q + Len(E) <= Len(b)
        <3>1. L(n) \in Nat /\ L(k) <= L(n) /\ Len(b) \in Nat /\ p + L(n) + 2 <= Len(b)
            BY <1>0, <1>1, <1>3, <1>4, <1>7
        <3> DEFINE l == L(k - 1)
        <3>2. L(k) = l + Len(E) /\ l \in Nat /\ Len(E) \in Nat
            BY <2>2
        <3> HIDE DEF l
        <3>3. p + 2 + l + Len(E) = p + 2 + L(k) /\ p + 2 + l \in Nat /\ p + 2 + l >= 1
              /\ p + 2 + l + Len(E) <= Len(b)
            BY <3>1, <3>2
        <3> QED
            BY <3>3 DEF l
    <2>6. rest[q + Len(E)] = Yes(e, SubSeq(x, k + 1, n))
        BY <1>7, <2>5
    <2> HIDE DEF q
    <2>7. rest[q] = Yes(e, <<c>> \o SubSeq(x, k + 1, n))
        <3> DEFINE next == Yes(e, SubSeq(x, k + 1, n))
        <3>1. next.ok /\ next.at = e /\ next.val = SubSeq(x, k + 1, n)
            BY DEF Yes
        <3> HIDE DEF next, e
        <3>2. CASE c \in {Quote, Backslash}
            <4>1. E = <<Backslash, c>>
                BY <3>2 DEF E, EscapeOf
            <4>2. Len(E) = 2 /\ E[1] = Backslash /\ E[2] = c
                BY <4>1
            <4>3. b[q] = Backslash /\ b[q + 1] = c /\ rest[q + 1 + 1] = next
                BY <2>4, <2>5, <2>6, <4>2 DEF next
            <4>4. q \in 1 .. Len(b) + 1 /\ ~(q > Len(b)) /\ ~(q + 1 > Len(b))
                BY <1>4, <2>5, <4>2
            <4>5. Quotes(b, rest, q) = Yes(next.at, <<c>> \o next.val)
                BY <3>1, <4>3, <4>4, BytesIs, Zenon DEF Quotes
            <4>6. rest[q] = Quotes(b, rest, q)
                BY <1>2, <4>3, <4>4, Characters, Zenon DEF RestOf, RestAt
            <4> QED
                BY <3>1, <4>5, <4>6
        <3>3. CASE c \notin {Quote, Backslash}
            <4>1. E = <<c>>
                BY <3>3 DEF E, EscapeOf
            <4>2. Len(E) = 1 /\ E[1] = c
                BY <4>1
            <4>3. b[q] = c /\ rest[q + 1] = next
                BY <2>4, <2>5, <2>6, <4>2 DEF next
            <4>4. q \in 1 .. Len(b) + 1 /\ ~(q > Len(b))
                BY <1>4, <2>5, <4>2
            <4>5. Quotes(b, rest, q) = Yes(next.at, <<c>> \o next.val)
                BY <3>1, <3>3, <4>3, <4>4, BytesIs, Zenon DEF Quotes
            <4>6. rest[q] = Quotes(b, rest, q)
                BY <1>2, <3>3, <4>3, <4>4, Zenon DEF RestOf, RestAt
            <4> QED
                BY <3>1, <4>5, <4>6
        <3> QED
            BY <3>2, <3>3
    <2>8. <<c>> \o SubSeq(x, k + 1, n) = SubSeq(x, k, n)
        <3>1. k \in 1 .. Len(x) /\ n \in k .. Len(x)
            BY <1>1 DEF n
        <3> QED
            BY <3>1, SubSeqRecursiveFirst DEF c
    <2>9. k - 1 + 1 = k
        OBVIOUS
    <2> QED
        BY <2>3, <2>7, <2>8, <2>9 DEF q
<1>8. \A j \in 1 .. n + 1 : j \in T
    <2> SUFFICES ASSUME NEW j \in 1 .. n + 1, \A k \in 1 .. n + 1 : j < k => k \in T
                 PROVE  j \in T
        <3> HIDE DEF T
        <3>1. n + 1 \in Nat
            BY <1>1
        <3>2. Inherits(T, n + 1) => \A j \in 1 .. n + 1 : j \in T
            BY <3>1, AllInherit
        <3> QED
            BY <3>2 DEF Inherits
    <2> HIDE DEF Holds, Reads
    <2>1. CASE j = n + 1
        <3>1. j - 1 = n
            BY <1>1, <2>1
        <3> QED
            BY <1>5, <1>6, <3>1
    <2>2. CASE j # n + 1
        <3>1. j \in 1 .. n /\ j + 1 \in 1 .. n + 1 /\ j < j + 1 /\ j + 1 - 1 = j
            BY <1>1, <2>2
        <3>2. j + 1 \in T
            BY <3>1
        <3>3. Holds(j) /\ Reads(j)
            BY <3>1, <3>2
        <3>4. Holds(j - 1) /\ Reads(j - 1)
            BY <1>7, <3>1, <3>3
        <3> QED
            BY <3>4
    <2> QED
        BY <2>1, <2>2
<1>9. Reads(0)
    <2>1. 1 \in 1 .. n + 1 /\ 1 - 1 = 0
        BY <1>1
    <2>2. 1 \in T
        BY <1>8, <2>1
    <2> HIDE DEF Holds, Reads
    <2>3. Reads(1 - 1)
        BY <2>2
    <2> QED
        BY <2>1, <2>3
<1>10. rest[p + 2] = Yes(e, x)
    <2>1. L(0) = 0 /\ p + 2 + L(0) = p + 2 /\ 0 + 1 = 1
        BY <1>1 DEF L
    <2>2. SubSeq(x, 1, n) = x
        BY SubSeqFull DEF n
    <2> QED
        BY <1>9, <2>1, <2>2
<1>11. quoted_string(b, p + 1) = rest[p + 2]
    <2>1. p + 1 \in 1 .. Len(b) + 1 /\ p + 1 <= Len(b) /\ p + 1 + 1 = p + 2
        BY <1>3, <1>4
    <2> QED
        BY <1>2, <2>1 DEF Is
<1> QED
    BY <1>10, <1>11 DEF n, L

(* Parameters *)

Actions == [do : {"scheme", "param", "base64"}, name : Seq(Char), text : Seq(Char)]

\* One parameter, and those that follow it.
OneParam(b, j) ==
    LET sep == ws_or_comma(b, j)
        key == token(b, sep.at)
        eq == ws(b, key.at)
        val == auth_param_val(b, ws(b, eq + 1))
    IN  IF sep.ok /\ key.ok /\ Is(b, eq, "=") /\ val.ok
        THEN Yes(val.at, Action("param", key.val, val.val))
        ELSE No

ParamsAt(b, g, j) ==
    LET param == OneParam(b, j)
    IN  IF param.ok THEN Maybe(param, g[param.at]) ELSE No

\* As the grammar has it.
ParamsRule(b, g, j) ==
    LET Value(key, eq) ==
            IF Is(b, eq, "=") THEN auth_param_val(b, ws(b, eq + 1)) ELSE No
        OneOf(key) ==
            Then(Value(key, ws(b, key.at)),
                 LAMBDA val : Yes(val.at, Action("param", key.val, val.val)))
    IN  Then(ws_or_comma(b, j), LAMBDA sep :
        Then(token(b, sep.at), LAMBDA key :
        Then(OneOf(key), LAMBDA param : Maybe(param, g[param.at]))))

LEMMA ParamsBody == \A b, j, g : ParamsRule(b, g, j) = ParamsAt(b, g, j)
<1> SUFFICES ASSUME NEW b, NEW j, NEW g
             PROVE  ParamsRule(b, g, j) = ParamsAt(b, g, j)
    OBVIOUS
<1> DEFINE sep == ws_or_comma(b, j)
           key == token(b, sep.at)
           eq == ws(b, key.at)
           val == auth_param_val(b, ws(b, eq + 1))
           value == IF Is(b, eq, "=") THEN val ELSE No
           param == IF value.ok THEN Yes(value.at, Action("param", key.val, value.val)) ELSE No
<1>1. ParamsAt(b, g, j) =
         IF ~sep.ok \/ ~key.ok \/ ~param.ok THEN No ELSE Maybe(param, g[param.at])
    <2> HIDE DEF sep, key, eq, val
    <2>1. No.ok = FALSE
        BY DEF No
    <2>2. \A at, v : Yes(at, v).ok = TRUE
        BY DEF Yes
    <2>3. OneParam(b, j) = IF sep.ok /\ key.ok /\ Is(b, eq, "=") /\ val.ok
                           THEN Yes(val.at, Action("param", key.val, val.val)) ELSE No
        BY Zenon DEF OneParam, sep, key, eq, val
    <2> QED
        BY <2>1, <2>2, <2>3, Zenon DEF ParamsAt
<1> QED
    BY <1>1, Zenon DEF Then, ParamsRule

LEMMA TokenGoesOn ==
    ASSUME NEW b \in Seq(Char), NEW i \in 1 .. Len(b) + 1
    PROVE  GoesOn(token(b, i), b, i, Seq(Char))
<1>0. i \in Nat
    OBVIOUS
<1> DEFINE e == Until(b, i, Separators)
<1>1. e \in i .. Len(b) + 1 /\ (e = i => token(b, i) = No)
      /\ (e # i => token(b, i) = Yes(e, SubSeq(b, i, e - 1)))
    BY TokenIs
<1> HIDE DEF e
<1>2. <<>> \in Seq(Char)
    OBVIOUS
<1>3. CASE e = i
    BY <1>1, <1>2, <1>3, ParsedBy
<1>4. CASE e # i
    <2>1. \A k \in i .. e - 1 : b[k] \in Char
        BY <1>1
    <2>2. SubSeq(b, i, e - 1) \in Seq(Char)
        BY <1>1, <2>1, SubSeqProperties
    <2>3. e \in 0 .. Len(b) + 1 /\ i < e
        BY <1>1, <1>4
    <2> QED
        BY <1>0, <1>1, <1>4, <2>2, <2>3, YesGoesOn, Zenon
<1> QED
    BY <1>3, <1>4

LEMMA SeparatorGoesOn ==
    ASSUME NEW b \in Seq(Char), NEW i \in 1 .. Len(b) + 1
    PROVE  GoesOn(ws_or_comma(b, i), b, i, Seq(Char))
<1>0. i \in Nat
    OBVIOUS
<1>1. <<>> \in Seq(Char)
    OBVIOUS
<1>2. ws(b, i) \in i .. Len(b) + 1
    BY WsIs
<1>3. CASE ws(b, i) > i
    <2>1. ws_or_comma(b, i) = Yes(ws(b, i), <<>>) /\ ws(b, i) \in 0 .. Len(b) + 1 /\ i < ws(b, i)
        BY <1>2, <1>3 DEF ws_or_comma
    <2> QED
        BY <1>0, <1>1, <2>1, YesGoesOn, Zenon
<1>4. CASE ~(ws(b, i) > i) /\ Is(b, i, Comma)
    <2>1. i + 1 \in 1 .. Len(b) + 1
        BY <1>4 DEF Is
    <2>2. ws(b, i + 1) \in i + 1 .. Len(b) + 1
        BY <2>1, WsIs
    <2>3. ws_or_comma(b, i) = Yes(ws(b, i + 1), <<>>) /\ ws(b, i + 1) \in 0 .. Len(b) + 1 /\ i < ws(b, i + 1)
        BY <1>4, <2>2 DEF ws_or_comma
    <2> QED
        BY <1>0, <1>1, <2>3, YesGoesOn, Zenon
<1>5. CASE ~(ws(b, i) > i) /\ ~Is(b, i, Comma)
    <2>1. ws_or_comma(b, i) = No
        BY <1>5 DEF ws_or_comma
    <2> QED
        BY <1>1, <2>1, ParsedBy
<1> QED
    BY <1>3, <1>4, <1>5

LEMMA QuotedGoesOn ==
    ASSUME NEW b \in Seq(Char), NEW i \in 1 .. Len(b) + 1
    PROVE  GoesOn(quoted_string(b, i), b, i, Seq(Char))
<1> DEFINE N == Len(b) + 1
<1>0. N \in Nat /\ <<>> \in Seq(Char)
    OBVIOUS
<1>1. PICK rest \in [1 .. N -> Parsed(b, Seq(Char))] :
              /\ RestOf(b, rest)
              /\ \A k \in 1 .. N :
                    quoted_string(b, k) = IF Is(b, k, Quote) THEN rest[k + 1] ELSE No
    BY QuotedIs
<1> DEFINE T == {j \in 1 .. N : rest[j].ok => j < rest[j].at}
<1>2. ASSUME NEW j \in 1 .. N, \A k \in 1 .. N : j < k => k \in T
      PROVE  j \in T
    <2>1. rest[j] = RestAt(b, rest, j)
        BY <1>1 DEF RestOf
    <2>2. No.ok = FALSE /\ \A at, v : Yes(at, v).ok = TRUE /\ Yes(at, v).at = at
        BY DEF No, Yes
    <2>3. CASE j > Len(b)
        <3>1. rest[j] = No
            BY <2>1, <2>3 DEF RestAt
        <3> QED
            BY <2>2, <3>1
    <2>4. CASE ~(j > Len(b)) /\ b[j] = Quote
        <3>1. rest[j] = Yes(j + 1, <<>>)
            BY <2>1, <2>4 DEF RestAt
        <3> QED
            BY <2>2, <3>1
    <2>5. CASE ~(j > Len(b)) /\ b[j] # Quote
        <3>1. rest[j] = Quotes(b, rest, j) /\ j \in 1 .. Len(b)
            BY <2>1, <2>5 DEF RestAt
        <3> DEFINE k == IF b[j] = Backslash THEN j + 1 ELSE j
        <3>2. Quotes(b, rest, j) = No
              \/ /\ k + 1 \in 1 .. Len(b) + 1 /\ k + 1 > j
                 /\ rest[k + 1].ok
                 /\ Quotes(b, rest, j) = Yes(rest[k + 1].at, <<b[k]>> \o rest[k + 1].val)
            BY <3>1, QuotesNext
        <3> HIDE DEF k
        <3>3. CASE Quotes(b, rest, j) = No
            BY <2>2, <3>1, <3>3
        <3>4. CASE Quotes(b, rest, j) # No
            <4>1. k + 1 \in T /\ rest[k + 1].ok /\ k + 1 > j /\ k + 1 \in 1 .. N
                BY <1>2, <3>2, <3>4
            <4>2. k + 1 < rest[k + 1].at /\ rest[k + 1].at \in 0 .. N
                <5>1. rest[k + 1] \in Parsed(b, Seq(Char))
                    BY <4>1
                <5> QED
                    BY <4>1, <5>1 DEF Parsed
            <4>3. rest[j].at = rest[k + 1].at
                BY <2>2, <3>1, <3>2, <3>4
            <4>4. j < rest[j].at
                <5> HIDE DEF N, T
                <5>1. rest[k + 1].at \in Nat /\ k + 1 \in Nat /\ j \in Nat
                    BY <1>0, <4>1, <4>2
                <5> QED
                    BY <4>1, <4>2, <4>3, <5>1
            <4> QED
                BY <4>4
        <3> QED
            BY <3>3, <3>4
    <2> QED
        BY <2>3, <2>4, <2>5
<1>3. \A j \in 1 .. N : j \in T
    <2> HIDE DEF N, T
    <2>1. Inherits(T, N)
        BY <1>2 DEF Inherits
    <2> QED
        BY <1>0, <2>1, AllInherit
<1>4. CASE Is(b, i, Quote)
    <2>1. i + 1 \in 1 .. N
        BY <1>4 DEF Is
    <2>2. quoted_string(b, i) = rest[i + 1] /\ rest[i + 1] \in Parsed(b, Seq(Char))
          /\ (rest[i + 1].ok => i + 1 < rest[i + 1].at)
        BY <1>1, <1>3, <1>4, <2>1
    <2>3. rest[i + 1].at \in 0 .. N
        BY <2>2 DEF Parsed
    <2>4. rest[i + 1].ok => i < rest[i + 1].at
        BY <2>2, <2>3
    <2> QED
        BY <2>2, <2>4 DEF GoesOn
<1>5. CASE ~Is(b, i, Quote)
    <2>1. quoted_string(b, i) = No
        BY <1>1, <1>5
    <2> QED
        BY <1>0, <2>1, ParsedBy
<1> QED
    BY <1>4, <1>5

LEMMA ValueGoesOn ==
    ASSUME NEW b \in Seq(Char), NEW i \in 1 .. Len(b) + 1
    PROVE  GoesOn(auth_param_val(b, i), b, i, Seq(Char))
BY QuotedGoesOn, TokenGoesOn, Zenon DEF auth_param_val, Either

LEMMA OneGoesOn ==
    ASSUME NEW b \in Seq(Char), NEW j \in 1 .. Len(b) + 1
    PROVE  GoesOn(OneParam(b, j), b, j, Seq(Actions))
<1> DEFINE sep == ws_or_comma(b, j)
           key == token(b, sep.at)
           eq == ws(b, key.at)
           i == ws(b, eq + 1)
           val == auth_param_val(b, i)
           N == Len(b) + 1
<1>0. N \in Nat /\ <<>> \in Seq(Actions)
    OBVIOUS
<1>1. OneParam(b, j) = IF sep.ok /\ key.ok /\ Is(b, eq, "=") /\ val.ok
                       THEN Yes(val.at, Action("param", key.val, val.val)) ELSE No
    BY Zenon DEF OneParam
<1>2. CASE ~(sep.ok /\ key.ok /\ Is(b, eq, "=") /\ val.ok)
    <2>1. OneParam(b, j) = No
        BY <1>1, <1>2
    <2> QED
        BY <1>0, <2>1, ParsedBy
<1>3. CASE sep.ok /\ key.ok /\ Is(b, eq, "=") /\ val.ok
    <2>1. sep.at \in 1 .. N /\ j < sep.at
        <3>1. GoesOn(sep, b, j, Seq(Char))
            BY SeparatorGoesOn
        <3> HIDE DEF sep
        <3> QED
            BY <1>3, <3>1 DEF GoesOn, Parsed
    <2>2. key.at \in 1 .. N /\ sep.at < key.at /\ key.val \in Seq(Char)
        <3>1. GoesOn(key, b, sep.at, Seq(Char))
            BY <2>1, TokenGoesOn
        <3> HIDE DEF sep, key
        <3> QED
            BY <1>3, <2>1, <3>1 DEF GoesOn, Parsed
    <2>3. eq \in key.at .. N /\ eq <= Len(b)
        <3>1. eq \in key.at .. N
            BY <2>2, WsIs
        <3> QED
            BY <1>3, <3>1 DEF Is
    <2>4. i \in eq + 1 .. N
        <3>1. eq + 1 \in 1 .. N
            BY <2>2, <2>3
        <3> QED
            BY <3>1, WsIs
    <2>5. val.at \in 1 .. N /\ i < val.at /\ val.val \in Seq(Char)
        <3>1. i \in 1 .. N
            BY <2>2, <2>3, <2>4
        <3>2. GoesOn(val, b, i, Seq(Char))
            BY <3>1, ValueGoesOn
        <3> HIDE DEF val, i
        <3> QED
            BY <1>3, <3>1, <3>2 DEF GoesOn, Parsed
    <2>6. Action("param", key.val, val.val) \in Seq(Actions)
        BY <2>2, <2>5 DEF Action, Actions
    <2> HIDE DEF sep, key, eq, i, val
    <2>7. j < val.at /\ val.at \in 0 .. N
        BY <2>1, <2>2, <2>3, <2>4, <2>5
    <2> QED
        BY <1>1, <1>3, <2>6, <2>7, YesGoesOn
<1> QED
    BY <1>2, <1>3

\* Those that follow.
LEMMA ParamsNext ==
    ASSUME NEW b \in Seq(Char), NEW j \in 1 .. Len(b) + 1
    PROVE  LET at == OneParam(b, j).at
           IN  /\ OneParam(b, j).ok => at \in 1 .. Len(b) + 1 /\ j < at
               /\ \A g : (OneParam(b, j).ok => g[at] \in Parsed(b, Seq(Actions))) =>
                       ParamsAt(b, g, j) \in Parsed(b, Seq(Actions))
               /\ \A g : (OneParam(b, j).ok => GoesOn(g[at], b, at, Seq(Actions))) =>
                       GoesOn(ParamsAt(b, g, j), b, j, Seq(Actions))
<1> DEFINE r == OneParam(b, j)
           V == Seq(Actions)
<1>1. r \in Parsed(b, V) /\ (r.ok => j < r.at) /\ r.at \in 0 .. Len(b) + 1 /\ r.val \in V
    <2>1. GoesOn(r, b, j, V)
        BY OneGoesOn
    <2> HIDE DEF r, V
    <2> QED
        BY <2>1 DEF GoesOn, Parsed
<1>2. \A g : ParamsAt(b, g, j) =
         IF r.ok THEN (IF g[r.at].ok THEN Yes(g[r.at].at, r.val \o g[r.at].val) ELSE r) ELSE No
    BY Zenon DEF ParamsAt, Maybe
<1>3. No \in Parsed(b, V) /\ GoesOn(No, b, j, V) /\ <<>> \in V
    <2>1. <<>> \in V
        OBVIOUS
    <2> HIDE DEF V
    <2> QED
        BY <2>1, ParsedBy
<1>4. \A v, w \in V : v \o w \in V
    OBVIOUS
<1> HIDE DEF r, V
<1>5. r.ok => r.at \in 1 .. Len(b) + 1 /\ j < r.at
    BY <1>1
<1>6. ASSUME NEW g, r.ok => g[r.at] \in Parsed(b, V)
      PROVE  ParamsAt(b, g, j) \in Parsed(b, V)
    <2>1. CASE r.ok /\ g[r.at].ok
        <3>1. g[r.at].at \in 0 .. Len(b) + 1 /\ g[r.at].val \in V
            BY <1>6, <2>1 DEF Parsed
        <3>2. r.val \o g[r.at].val \in V
            BY <1>1, <1>4, <3>1
        <3>3. Yes(g[r.at].at, r.val \o g[r.at].val) \in Parsed(b, V)
            BY <1>3, <3>1, <3>2, ParsedBy
        <3> QED
            BY <1>2, <2>1, <3>3
    <2>2. CASE r.ok /\ ~g[r.at].ok
        BY <1>1, <1>2, <2>2
    <2>3. CASE ~r.ok
        BY <1>2, <1>3, <2>3
    <2> QED
        BY <2>1, <2>2, <2>3
<1>7. ASSUME NEW g, r.ok => GoesOn(g[r.at], b, r.at, V)
      PROVE  GoesOn(ParamsAt(b, g, j), b, j, V)
    <2>1. CASE r.ok /\ g[r.at].ok
        <3>1. g[r.at].at \in 0 .. Len(b) + 1 /\ g[r.at].val \in V /\ r.at < g[r.at].at
            BY <1>7, <2>1 DEF GoesOn, Parsed
        <3>2. r.val \o g[r.at].val \in V
            BY <1>1, <1>4, <3>1
        <3>3. j \in Nat /\ j < g[r.at].at
            BY <1>1, <2>1, <3>1
        <3>4. GoesOn(Yes(g[r.at].at, r.val \o g[r.at].val), b, j, V)
            BY <3>1, <3>2, <3>3, YesGoesOn
        <3> QED
            BY <1>2, <2>1, <3>4
    <2>2. CASE r.ok /\ ~g[r.at].ok
        BY <1>1, <1>2, <2>2 DEF GoesOn
    <2>3. CASE ~r.ok
        BY <1>2, <1>3, <2>3
    <2> QED
        BY <2>1, <2>2, <2>3
<1> QED
    BY <1>5, <1>6, <1>7 DEF r, V

LEMMA ParamsSame ==
    ASSUME NEW b \in Seq(Char), NEW j \in 1 .. Len(b) + 1, NEW g, NEW h,
           \A k \in 1 .. Len(b) + 1 : j < k => g[k] = h[k]
    PROVE  ParamsAt(b, g, j) = ParamsAt(b, h, j)
<1> DEFINE r == OneParam(b, j)
<1>1. r.ok => g[r.at] = h[r.at]
    <2>1. r.ok => r.at \in 1 .. Len(b) + 1 /\ j < r.at
        BY ParamsNext
    <2> HIDE DEF r
    <2> QED
        BY <2>1
<1>2. \A f : ParamsAt(b, f, j) = IF r.ok THEN Maybe(r, f[r.at]) ELSE No
    BY Zenon DEF ParamsAt
<1> HIDE DEF r
<1> QED
    BY <1>1, <1>2

\* The grammar's rule auth_params: a parameter, and those behind it.
LEMMA ParamsIs ==
    ASSUME NEW b \in Seq(Char)
    PROVE  \A j \in 1 .. Len(b) + 1 :
              /\ auth_params(b, j) =
                    IF OneParam(b, j).ok
                    THEN Maybe(OneParam(b, j), auth_params(b, OneParam(b, j).at))
                    ELSE No
              /\ GoesOn(auth_params(b, j), b, j, Seq(Actions))
<1> DEFINE N == Len(b) + 1
           S == Parsed(b, Seq(Actions))
           params == CHOOSE g : g = [j \in 1 .. N |-> ParamsRule(b, g, j)]
           F == [a \in (1 .. N) \X [1 .. N -> S] |-> ParamsAt(b, a[2], a[1])]
<1>0. N \in Nat /\ <<>> \in Seq(Actions)
    OBVIOUS
<1>1. \A j : auth_params(b, j) = params[j]
    BY Zenon DEF auth_params, ParamsRule
<1> HIDE DEF params
<1>3. No \in S
    BY <1>0, ParsedBy
<1>4. F \in [(1 .. N) \X [1 .. N -> S] -> S]
    <2>1. ASSUME NEW j \in 1 .. N, NEW g \in [1 .. N -> S]
          PROVE  ParamsAt(b, g, j) \in S
        <3>1. OneParam(b, j).ok => OneParam(b, j).at \in 1 .. N
            BY ParamsNext
        <3>2. OneParam(b, j).ok => g[OneParam(b, j).at] \in S
            <4> HIDE DEF N, S
            <4> QED
                BY <3>1
        <3> QED
            BY <3>2, ParamsNext
    <2> HIDE DEF S, N
    <2> QED
        BY <2>1
<1>5. \A j \in 1 .. N : \A g \in [1 .. N -> S] : F[<<j, g>>] = ParamsAt(b, g, j)
    <2> HIDE DEF S, N
    <2> QED
        OBVIOUS
<1>6. LooksBehind(F, N, S)
    <2> HIDE DEF F, S
    <2> SUFFICES ASSUME NEW j \in 1 .. N, NEW g \in [1 .. N -> S], NEW h \in [1 .. N -> S],
                        \A k \in 1 .. N : j < k => g[k] = h[k]
                 PROVE  F[<<j, g>>] = F[<<j, h>>]
        BY DEF LooksBehind
    <2>1. ParamsAt(b, g, j) = ParamsAt(b, h, j)
        BY ParamsSame
    <2>2. F[<<j, g>>] = ParamsAt(b, g, j) /\ F[<<j, h>>] = ParamsAt(b, h, j)
        BY <1>5
    <2> QED
        BY <2>1, <2>2
<1>7. PICK f \in [1 .. N -> S] : \A j \in 1 .. N : f[j] = ParamsAt(b, f, j)
    <2> HIDE DEF F, S, N
    <2>1. \E f \in [1 .. N -> S] : Unfolds(f, F, N)
        BY <1>0, <1>3, <1>4, <1>6, Backwards
    <2> QED
        BY <1>5, <2>1 DEF Unfolds
<1> HIDE DEF S, F
<1>8. f = [j \in 1 .. N |-> ParamsRule(b, f, j)]
    BY <1>7, ParamsBody
<1>9. params = [j \in 1 .. N |-> ParamsRule(b, params, j)]
    BY <1>8, Zenon DEF params
<1>10. \A j \in 1 .. N : params[j] = ParamsAt(b, params, j)
    BY <1>9, ParamsBody
<1> DEFINE T == {j \in 1 .. N : GoesOn(params[j], b, j, Seq(Actions))}
<1>11. \A j \in 1 .. N : j \in T
    <2>1. ASSUME NEW j \in 1 .. N, \A k \in 1 .. N : j < k => k \in T
          PROVE  j \in T
        <3> DEFINE at == OneParam(b, j).at
        <3>1. OneParam(b, j).ok => at \in 1 .. N /\ j < at
            BY ParamsNext
        <3>2. OneParam(b, j).ok => GoesOn(params[at], b, at, Seq(Actions))
            <4> HIDE DEF N, at
            <4> QED
                BY <2>1, <3>1
        <3>3. GoesOn(ParamsAt(b, params, j), b, j, Seq(Actions))
            BY <3>2, ParamsNext
        <3> QED
            BY <1>10, <3>3
    <2> HIDE DEF N, T
    <2>2. Inherits(T, N)
        BY <2>1 DEF Inherits
    <2> QED
        BY <1>0, <2>2, AllInherit
<1>12. ASSUME NEW j \in 1 .. N
       PROVE  params[j] = IF OneParam(b, j).ok
                          THEN Maybe(OneParam(b, j), params[OneParam(b, j).at]) ELSE No
    BY <1>10, Zenon DEF ParamsAt
<1> QED
    BY <1>1, <1>11, <1>12, Zenon

(* A parameter as it is written *)

Commas == {<<Space>>, <<Comma>>, <<Comma, Space>>}

LEMMA CommasIs == \A sep \in Commas : sep \in Seq(Char) /\ Len(sep) \in Nat
<1>1. <<Space>> \in Seq(Char) /\ <<Comma>> \in Seq(Char) /\ <<Comma, Space>> \in Seq(Char)
    BY Characters
<1>2. \A sep \in Commas : sep \in Seq(Char)
    BY <1>1, Zenon DEF Commas
<1> QED
    BY <1>2

LEMMA SeparatorReads ==
    ASSUME NEW b \in Seq(Char), NEW p \in Nat, NEW sep \in Commas,
           p + Len(sep) + 1 <= Len(b), \A k \in 1 .. Len(sep) : b[p + k] = sep[k],
           b[p + Len(sep) + 1] \notin Blanks
    PROVE  ws_or_comma(b, p + 1) = Yes(p + Len(sep) + 1, <<>>)
<1>1. Len(b) \in Nat
    OBVIOUS
<1>2. CASE sep = <<Space>>
    <2>1. Len(sep) = 1 /\ sep[1] = Space
        BY <1>2
    <2>2. b[p + 1] = Space /\ b[p + 1 + 1] \notin Blanks /\ p + 1 \in 1 .. Len(b) + 1 /\ p + 1 <= Len(b)
        <3>1. 1 \in 1 .. Len(sep) /\ p + Len(sep) + 1 = p + 1 + 1
            BY <2>1
        <3> QED
            BY <1>1, <2>1, <3>1
    <2>3. ws(b, p + 1) = p + 1 + 1
        BY <2>2, WsIs, Characters
    <2> QED
        BY <2>1, <2>3 DEF ws_or_comma
<1>3. CASE sep = <<Comma>> \/ sep = <<Comma, Space>>
    <2>1. Len(sep) \in Nat /\ Len(sep) >= 1 /\ sep[1] = Comma
        <3>1. CASE sep = <<Comma>>
            BY <3>1
        <3>2. CASE sep = <<Comma, Space>>
            BY <3>2
        <3> QED
            BY <1>3, <3>1, <3>2
    <2>2. b[p + 1] = Comma /\ p + 1 \in 1 .. Len(b) + 1 /\ p + 1 <= Len(b) /\ p + 2 \in 1 .. Len(b) + 1
        <3>1. 1 \in 1 .. Len(sep)
            BY <2>1
        <3> QED
            BY <1>1, <2>1, <3>1
    <2>3. ws(b, p + 1) = p + 1 /\ ~(ws(b, p + 1) > p + 1)
        <3>1. ws(b, p + 1) = p + 1
            BY <2>2, WsIs, Characters
        <3> QED
            BY <3>1
    <2>4. ws(b, p + 2) = p + Len(sep) + 1
        <3>1. CASE sep = <<Comma>>
            <4>1. Len(sep) = 1
                BY <3>1
            <4>2. p + Len(sep) + 1 = p + 2
                BY <4>1
            <4> QED
                BY <2>2, <4>2, WsIs
        <3>2. CASE sep = <<Comma, Space>>
            <4>1. Len(sep) = 2 /\ sep[2] = Space
                BY <3>2
            <4>2. p + Len(sep) + 1 = p + 2 + 1 /\ 2 \in 1 .. Len(sep)
                BY <4>1
            <4>3. b[p + 2] = Space /\ b[p + 2 + 1] \notin Blanks /\ p + 2 <= Len(b)
                BY <1>1, <4>1, <4>2
            <4> QED
                BY <2>2, <4>2, <4>3, WsIs, Characters
        <3> QED
            BY <1>3, <3>1, <3>2
    <2>5. Is(b, p + 1, Comma) /\ p + 1 + 1 = p + 2
        BY <2>2 DEF Is
    <2> QED
        BY <2>3, <2>4, <2>5 DEF ws_or_comma
<1> QED
    BY <1>2, <1>3 DEF Commas

\* A separator, a word, "=" and what is no blank.
LEMMA OneReads ==
    ASSUME NEW b \in Seq(Char), NEW p \in Nat, NEW sep \in Commas, NEW key \in Char \ Separators,
           p + Len(sep) + 3 <= Len(b), \A k \in 1 .. Len(sep) : b[p + k] = sep[k],
           b[p + Len(sep) + 1] = key, b[p + Len(sep) + 2] = "=",
           b[p + Len(sep) + 3] \notin Blanks,
           auth_param_val(b, p + Len(sep) + 3).ok
    PROVE  LET val == auth_param_val(b, p + Len(sep) + 3)
           IN  OneParam(b, p + 1) = Yes(val.at, Action("param", <<key>>, val.val))
<1>1. Len(b) \in Nat /\ Len(sep) \in Nat
    BY CommasIs
<1> DEFINE q == p + Len(sep)
           val == auth_param_val(b, q + 3)
<1>2. /\ q \in Nat /\ q + 3 <= Len(b)
      /\ b[q + 1] = key /\ b[q + 2] = "=" /\ b[q + 3] \notin Blanks /\ val.ok
    BY <1>1
<1>3. ws_or_comma(b, p + 1) = Yes(q + 1, <<>>)
    <2>1. p + Len(sep) + 1 <= Len(b) /\ key \notin Blanks
        BY <1>1, Characters
    <2> QED
        BY <2>1, SeparatorReads
<1> HIDE DEF q
<1>4. token(b, q + 1) = Yes(q + 2, <<key>>)
    <2>1. q + 1 \in 1 .. Len(b) + 1 /\ q + 1 < Len(b) /\ q + 1 + 1 = q + 2
        BY <1>1, <1>2
    <2>2. b[q + 1] \notin Separators /\ b[q + 1 + 1] \in Separators
        BY <1>2, <2>1, Characters
    <2>3. token(b, q + 1) = Yes(q + 1 + 1, <<b[q + 1]>>)
        BY <2>1, <2>2, TokenIs
    <2> QED
        BY <1>2, <2>1, <2>3
<1>5. ws(b, q + 2) = q + 2 /\ Is(b, q + 2, "=") /\ ws(b, q + 2 + 1) = q + 3
    <2>1. /\ q + 2 \in 1 .. Len(b) + 1 /\ q + 3 \in 1 .. Len(b) + 1
          /\ q + 2 <= Len(b) /\ q + 2 + 1 = q + 3
        BY <1>1, <1>2
    <2>2. b[q + 2] \notin Blanks
        BY <1>2, Characters
    <2> QED
        BY <1>2, <2>1, <2>2, WsIs DEF Is
<1> HIDE DEF val
<1>6. OneParam(b, p + 1) = Yes(val.at, Action("param", <<key>>, val.val))
    <2>1. \A at, v : Yes(at, v).ok = TRUE /\ Yes(at, v).at = at /\ Yes(at, v).val = v
        BY DEF Yes
    <2> DEFINE sp == ws_or_comma(b, p + 1)
               k == token(b, sp.at)
               eq == ws(b, k.at)
               v == auth_param_val(b, ws(b, eq + 1))
    <2>2. OneParam(b, p + 1) = IF sp.ok /\ k.ok /\ Is(b, eq, "=") /\ v.ok
                               THEN Yes(v.at, Action("param", k.val, v.val)) ELSE No
        BY Zenon DEF OneParam
    <2>3. sp.ok = TRUE /\ sp.at = q + 1
        BY <1>3, <2>1
    <2>4. k.ok = TRUE /\ k.at = q + 2 /\ k.val = <<key>>
        BY <1>4, <2>1, <2>3
    <2>5. eq = q + 2 /\ v = val
        BY <1>5, <2>4, Zenon DEF val
    <2> HIDE DEF sp, k, eq, v
    <2> QED
        BY <1>2, <1>5, <2>2, <2>3, <2>4, <2>5 DEF val
<1> QED
    BY <1>6 DEF val, q

\* Where a quoted parameter stands, and an unquoted one.
QuotedAt(b, p, sep, key, x, t) ==
    From(b, p, sep \o (<<key, "=", Quote>> \o (escape(x) \o (<<Quote>> \o t))))
WordAt(b, p, sep, key, w, t) == From(b, p, sep \o (<<key, "=", w>> \o t))

\* One parameter is read, and the text goes on with t.
ReadsOne(b, p, key, x, t) ==
    \E e \in Nat : /\ OneParam(b, p + 1) = Yes(e + 1, Action("param", <<key>>, x))
                   /\ From(b, e, t)

LEMMA QuotedParam ==
    ASSUME NEW b \in Seq(Char), NEW p, NEW sep \in Commas, NEW key \in Char \ Separators,
           NEW x \in Seq(Char), NEW t \in Seq(Char)
    PROVE  QuotedAt(b, p, sep, key, x, t) => ReadsOne(b, p, key, x, t)
<1> SUFFICES ASSUME From(b, p, sep \o (<<key, "=", Quote>> \o (escape(x) \o (<<Quote>> \o t))))
             PROVE  \E e \in Nat : /\ OneParam(b, p + 1) = Yes(e + 1, Action("param", <<key>>, x))
                                   /\ From(b, e, t)
    BY Zenon DEF QuotedAt, ReadsOne
<1> DEFINE E == escape(x)
           t1 == <<Quote>> \o t
           t2 == E \o t1
           k3 == <<key, "=", Quote>>
           t3 == k3 \o t2
<1>0. PICK U : Escapes(U, x) /\ E = U[Len(x)]
    BY EscapeIs
<1>1. E \in Seq(Char)
    <2>1. Len(x) \in 0 .. Len(x)
        OBVIOUS
    <2> HIDE DEF E
    <2> QED
        BY <1>0, <2>1 DEF Escapes
<1>3. <<Quote>> \in Seq(Char) /\ Len(<<Quote>>) = 1 /\ <<Quote>>[1] = Quote
    BY Characters
<1>4. k3 \in Seq(Char) /\ Len(k3) = 3 /\ k3[1] = key /\ k3[2] = "=" /\ k3[3] = Quote
    BY Characters
<1>5. sep \in Seq(Char) /\ Len(sep) \in Nat
    BY CommasIs
<1> HIDE DEF E
<1>6. t1 \in Seq(Char) /\ t2 \in Seq(Char) /\ t3 \in Seq(Char)
    <2> HIDE DEF k3
    <2> QED
        BY <1>1, <1>3, <1>4
<1>7. From(b, p, sep \o t3)
    BY DEF E
<1> HIDE DEF k3, t1, t2, t3
<1>8. From(b, p + Len(sep), t3) /\ \A k \in 1 .. Len(sep) : b[p + k] = sep[k]
    BY <1>5, <1>6, <1>7, FromConcat
<1> DEFINE q == p + Len(sep)
<1>9. From(b, q, k3 \o t2)
    BY <1>8 DEF t3
<1>10. p \in Nat /\ q \in Nat
    BY <1>5, <1>7 DEF From
<1> HIDE DEF q
<1>11. From(b, q + 3, t2) /\ b[q + 1] = key /\ b[q + 2] = "=" /\ b[q + 3] = Quote
    <2>1. From(b, q + Len(k3), t2) /\ \A k \in 1 .. Len(k3) : b[q + k] = k3[k]
        <3>1. k3 \in Seq(Char)
            BY <1>4
        <3> QED
            BY <1>6, <1>9, <3>1, FromConcat
    <2>2. 1 \in 1 .. Len(k3) /\ 2 \in 1 .. Len(k3) /\ 3 \in 1 .. Len(k3)
        BY <1>4
    <2> QED
        BY <1>4, <2>1, <2>2
<1>12. From(b, q + 3 + Len(E), t1) /\ \A k \in 1 .. Len(E) : b[q + 3 + k] = E[k]
    BY <1>1, <1>6, <1>11, FromConcat DEF t2
<1> DEFINE e == q + 3 + Len(E) + 1
<1>13. From(b, e, t) /\ b[e] = Quote /\ e <= Len(b)
    <2>1. From(b, q + 3 + Len(E), <<Quote>> \o t)
        BY <1>12 DEF t1
    <2>2. From(b, q + 3 + Len(E) + Len(<<Quote>>), t)
          /\ q + 3 + Len(E) + Len(<<Quote>>) <= Len(b)
          /\ \A k \in 1 .. Len(<<Quote>>) : b[q + 3 + Len(E) + k] = <<Quote>>[k]
        <3> DEFINE s == <<Quote>>
        <3>1. s \in Seq(Char) /\ From(b, q + 3 + Len(E), s \o t)
            BY <1>3, <2>1
        <3> HIDE DEF s
        <3>2. From(b, q + 3 + Len(E) + Len(s), t)
              /\ q + 3 + Len(E) + Len(s) <= Len(b)
              /\ \A k \in 1 .. Len(s) : b[q + 3 + Len(E) + k] = s[k]
            BY <3>1, FromConcat
        <3> QED
            BY <3>2 DEF s
    <2>3. 1 \in 1 .. Len(<<Quote>>)
        BY <1>3
    <2> QED
        BY <1>3, <2>2, <2>3
<1>14. Len(E) \in Nat /\ e \in Nat /\ Len(b) \in Nat
    BY <1>1, <1>10
<1>15. quoted_string(b, q + 3) = Yes(e + 1, x)
    <2> DEFINE r == q + 2
    <2>1. r \in Nat /\ r + 1 = q + 3 /\ r + Len(E) + 2 = e /\ r + Len(E) + 3 = e + 1
          /\ \A k \in 1 .. Len(E) : r + 1 + k = q + 3 + k
        BY <1>10, <1>14
    <2> HIDE DEF r, e
    <2>2. r + Len(E) + 2 <= Len(b) /\ b[r + 1] = Quote /\ b[r + Len(E) + 2] = Quote
        BY <1>11, <1>13, <2>1
    <2>3. \A k \in 1 .. Len(E) : b[r + 1 + k] = E[k]
        BY <1>12, <2>1
    <2>4. quoted_string(b, r + 1) = Yes(r + Len(E) + 3, x)
        BY <1>0, <2>1, <2>2, <2>3, QuotedReads
    <2> QED
        BY <2>1, <2>4
<1> HIDE DEF e
<1>16. auth_param_val(b, q + 3) = Yes(e + 1, x)
    BY <1>15 DEF auth_param_val, Either, Yes
<1>17. auth_param_val(b, q + 3).ok /\ auth_param_val(b, q + 3).at = e + 1 /\ auth_param_val(b, q + 3).val = x
    BY <1>16 DEF Yes
<1>18. q + 3 <= Len(b) /\ b[q + 3] \notin Blanks
    <2>1. q + 3 + Len(t2) = Len(b) /\ Len(t2) \in Nat
        BY <1>6, <1>11 DEF From
    <2> QED
        BY <1>10, <1>11, <2>1, Characters
<1>19. OneParam(b, p + 1) = Yes(e + 1, Action("param", <<key>>, x))
    BY <1>8, <1>10, <1>11, <1>17, <1>18, OneReads DEF q
<1> QED
    BY <1>13, <1>14, <1>19

\* A value that is not quoted ends at a separator.
LEMMA WordParam ==
    ASSUME NEW b \in Seq(Char), NEW p, NEW sep \in Commas, NEW key \in Char \ Separators,
           NEW w \in Char \ Separators, NEW t \in Seq(Char), t = <<>> \/ t[1] \in Separators
    PROVE  WordAt(b, p, sep, key, w, t) => ReadsOne(b, p, key, <<w>>, t)
<1> SUFFICES ASSUME From(b, p, sep \o (<<key, "=", w>> \o t))
             PROVE  \E e \in Nat : /\ OneParam(b, p + 1) = Yes(e + 1, Action("param", <<key>>, <<w>>))
                                   /\ From(b, e, t)
    BY Zenon DEF WordAt, ReadsOne
<1> DEFINE k3 == <<key, "=", w>>
           t3 == k3 \o t
<1>4. k3 \in Seq(Char) /\ Len(k3) = 3 /\ k3[1] = key /\ k3[2] = "=" /\ k3[3] = w
    BY Characters
<1>5. sep \in Seq(Char) /\ Len(sep) \in Nat
    BY CommasIs
<1>6. t3 \in Seq(Char)
    <2> HIDE DEF k3
    <2> QED
        BY <1>4
<1>7. From(b, p, sep \o t3)
    OBVIOUS
<1> HIDE DEF k3, t3
<1>8. From(b, p + Len(sep), t3) /\ \A k \in 1 .. Len(sep) : b[p + k] = sep[k]
    BY <1>5, <1>6, <1>7, FromConcat
<1> DEFINE q == p + Len(sep)
<1>9. From(b, q, k3 \o t)
    BY <1>8 DEF t3
<1>10. p \in Nat /\ q \in Nat
    BY <1>5, <1>7 DEF From
<1> HIDE DEF q
<1>11. From(b, q + 3, t) /\ b[q + 1] = key /\ b[q + 2] = "=" /\ b[q + 3] = w
    <2>1. From(b, q + Len(k3), t) /\ \A k \in 1 .. Len(k3) : b[q + k] = k3[k]
        <3>1. k3 \in Seq(Char)
            BY <1>4
        <3> QED
            BY <1>6, <1>9, <3>1, FromConcat
    <2>2. 1 \in 1 .. Len(k3) /\ 2 \in 1 .. Len(k3) /\ 3 \in 1 .. Len(k3)
        BY <1>4
    <2> QED
        BY <1>4, <2>1, <2>2
<1>12. q + 3 <= Len(b) /\ q + 3 \in 1 .. Len(b) + 1 /\ Len(b) \in Nat
       /\ (t = <<>> => q + 3 = Len(b)) /\ (t # <<>> => q + 3 < Len(b) /\ b[q + 3 + 1] = t[1])
    <2>1. Len(b) = q + 3 + Len(t) /\ Len(b) \in Nat /\ Len(t) \in Nat
          /\ \A k \in 1 .. Len(t) : b[q + 3 + k] = t[k]
        <3>1. From(b, q + 3, t)
            BY <1>11
        <3> QED
            BY <3>1, FromIs
    <2>2. CASE t = <<>>
        <3>1. Len(t) = 0
            BY <2>2
        <3> QED
            BY <1>10, <2>1, <2>2, <3>1
    <2>3. CASE t # <<>>
        <3>1. 1 \in 1 .. Len(t)
            BY <2>3
        <3>2. Len(t) >= 1
            BY <3>1
        <3>3. q + 3 < Len(b) /\ q + 3 \in 1 .. Len(b) + 1
            BY <1>10, <2>1, <3>2
        <3> QED
            BY <2>1, <2>3, <3>1, <3>3
    <2> QED
        BY <2>2, <2>3
<1> DEFINE r == q + 3
<1>13. r \in 1 .. Len(b) + 1 /\ r <= Len(b) /\ Len(b) \in Nat /\ b[r] = w
       /\ (r = Len(b) \/ (r < Len(b) /\ b[r + 1] \in Separators))
    BY <1>11, <1>12
<1> HIDE DEF r
<1>14. token(b, r) = Yes(r + 1, <<w>>)
    <2>1. CASE r < Len(b) /\ b[r + 1] \in Separators
        BY <1>13, <2>1, TokenIs
    <2>2. CASE r = Len(b)
        <3> DEFINE e == Until(b, r, Separators)
        <3>1. e \in r .. Len(b) + 1 /\ (e = r <=> r > Len(b) \/ b[r] \in Separators)
              /\ (e # r => token(b, r) = Yes(e, SubSeq(b, r, e - 1)))
            BY <1>13, TokenIs
        <3> HIDE DEF e
        <3>2. e = r + 1
            BY <1>13, <2>2, <3>1
        <3>3. SubSeq(b, r, r) = <<w>>
            <4>1. SubSeq(b, r, r) = <<b[r]>> \o SubSeq(b, r + 1, r) /\ SubSeq(b, r + 1, r) = <<>>
                BY <1>13, SubSeqRecursiveFirst, SubSeqEmpty
            <4>2. <<b[r]>> \in Seq(Char)
                BY <1>13
            <4> QED
                BY <1>13, <4>1, <4>2, ConcatEmptySeq
        <3>4. e - 1 = r /\ e # r
            BY <1>13, <3>2
        <3> QED
            BY <3>1, <3>2, <3>3, <3>4
    <2> QED
        BY <1>13, <2>1, <2>2
<1>15. quoted_string(b, r) = No
    <2>1. ~Is(b, r, Quote)
        BY <1>13, Characters DEF Is
    <2> QED
        BY <2>1, QuotedIs, <1>13
<1>16. auth_param_val(b, r) = Yes(r + 1, <<w>>)
    BY <1>14, <1>15 DEF auth_param_val, Either, No
<1>17. auth_param_val(b, r).ok /\ auth_param_val(b, r).at = r + 1 /\ auth_param_val(b, r).val = <<w>>
    BY <1>16 DEF Yes
<1>18. w \notin Blanks
    BY Characters
<1>19. OneParam(b, p + 1) = Yes(r + 1, Action("param", <<key>>, <<w>>))
    <2>1. r = q + 3 /\ q = p + Len(sep)
        BY DEF q, r
    <2>2. /\ p + Len(sep) + 3 <= Len(b) /\ b[p + Len(sep) + 1] = key
          /\ b[p + Len(sep) + 2] = "=" /\ b[p + Len(sep) + 3] \notin Blanks
          /\ p + Len(sep) + 3 = r
        BY <1>11, <1>13, <1>18, <2>1
    <2>3. auth_param_val(b, p + Len(sep) + 3).ok
        BY <1>17, <2>2
    <2>4. OneParam(b, p + 1) = Yes(auth_param_val(b, p + Len(sep) + 3).at,
             Action("param", <<key>>, auth_param_val(b, p + Len(sep) + 3).val))
        BY <1>8, <1>10, <2>2, <2>3, OneReads
    <2> QED
        BY <1>17, <2>2, <2>4
<1>20. r \in Nat /\ From(b, r, t)
    BY <1>11, <1>13 DEF r
<1> QED
    BY <1>19, <1>20

(* What Execute makes of actions, one after the other *)

FoldsTo(F, seq, n) == F[0] = <<>> /\ \A k \in 1 .. n : F[k] = Apply(F[k - 1], seq[k])

LEMMA MaxIs ==
    ASSUME NEW n \in Nat, NEW s \in SUBSET (1 .. n), s # {}
    PROVE  Max(s) \in s /\ \A k \in s : k <= Max(s)
<1> DEFINE T == {n - k : k \in s}
<1>1. T \in SUBSET Nat /\ T # {}
    <2>1. \A k \in s : n - k \in Nat
        OBVIOUS
    <2>2. \A m \in T : m \in Nat
        BY <2>1
    <2>3. PICK k \in s : TRUE
        OBVIOUS
    <2>4. n - k \in T
        BY <2>3
    <2> HIDE DEF T
    <2> QED
        BY <2>2, <2>4
<1>2. PICK j \in T : \A m \in T : j <= m
    <2> HIDE DEF T
    <2> QED
        BY <1>1, LeastNatural
<1>3. PICK i \in s : j = n - i
    OBVIOUS
<1>4. \A k \in s : i >= k
    <2> SUFFICES ASSUME NEW k \in s
                 PROVE  i >= k
        OBVIOUS
    <2>1. n - k \in T /\ k \in Nat /\ i \in Nat
        OBVIOUS
    <2>2. j <= n - k
        BY <1>2, <2>1
    <2> QED
        BY <1>3, <2>1, <2>2
<1>5. Max(s) \in s /\ \A k \in s : Max(s) >= k
    BY <1>4 DEF Max
<1> QED
    BY <1>5

\* A step of the fold, over the elements at positions s.
FoldStep(h, s, seq) == IF s = {} THEN <<>> ELSE Apply(h[s \ {Max(s)}], seq[Max(s)])

LEMMA FoldExists ==
    ASSUME NEW n \in Nat, NEW seq
    PROVE  \E h : h = [s \in SUBSET (1 .. n) |-> FoldStep(h, s, seq)]
<1> DEFINE Has(m) == \E h : h = [s \in SUBSET (1 .. m) |-> FoldStep(h, s, seq)]
           X == {m \in 0 .. n : ~Has(m)}
<1>1. ASSUME NEW m \in X, \A k \in X : m <= k
      PROVE  FALSE
    <2>1. m \in 0 .. n /\ m \in Nat /\ ~Has(m)
        <3> HIDE DEF Has
        <3> QED
            OBVIOUS
    <2>2. CASE m = 0
        <3> DEFINE h == [s \in SUBSET (1 .. 0) |-> <<>>]
        <3>1. 1 .. 0 = {}
            OBVIOUS
        <3>2. \A s \in SUBSET (1 .. 0) : s = {}
            BY <3>1
        <3>3. h = [s \in SUBSET (1 .. 0) |-> FoldStep(h, s, seq)]
            BY <3>2 DEF FoldStep
        <3> HIDE DEF h
        <3> QED
            BY <2>1, <2>2, <3>3
    <2>3. CASE m > 0
        <3>1. PICK k \in 0 .. n : m = k + 1 /\ ~(m <= k)
            <4>1. m - 1 \in 0 .. n /\ m = (m - 1) + 1 /\ ~(m <= m - 1)
                BY <2>1, <2>3
            <4> QED
                BY <4>1
        <3>2. Has(k)
            <4> HIDE DEF Has
            <4> QED
                BY <1>1, <3>1
        <3>3. PICK h : h = [s \in SUBSET (1 .. k) |-> FoldStep(h, s, seq)]
            BY <3>2
        <3> DEFINE g == [s \in SUBSET (1 .. m) |->
                            IF m \in s THEN Apply(h[s \ {m}], seq[m]) ELSE h[s]]
        <3>4. ASSUME NEW s \in SUBSET (1 .. m)
              PROVE  g[s] = FoldStep(g, s, seq)
            <4>1. CASE m \in s
                <5>1. Max(s) = m
                    <6>1. Max(s) \in s /\ \A i \in s : i <= Max(s)
                        BY <2>1, <4>1, MaxIs
                    <6>2. Max(s) \in 1 .. m /\ m <= Max(s)
                        BY <4>1, <6>1
                    <6> QED
                        BY <2>1, <6>2
                <5>2. s \ {m} \in SUBSET (1 .. m) /\ m \notin s \ {m}
                    OBVIOUS
                <5>3. g[s] = Apply(h[s \ {m}], seq[m]) /\ g[s \ {m}] = h[s \ {m}]
                    BY <4>1, <5>2
                <5> HIDE DEF g
                <5> QED
                    BY <4>1, <5>1, <5>3 DEF FoldStep
            <4>2. CASE m \notin s
                <5>1. s \in SUBSET (1 .. k)
                    BY <2>1, <3>1, <4>2
                <5>2. g[s] = h[s] /\ h[s] = FoldStep(h, s, seq)
                    BY <3>3, <4>2, <5>1
                <5>3. s # {} => s \ {Max(s)} \in SUBSET (1 .. m) /\ m \notin s \ {Max(s)}
                    BY <4>2
                <5>4. s # {} => g[s \ {Max(s)}] = h[s \ {Max(s)}]
                    BY <5>3
                <5> HIDE DEF g
                <5> QED
                    BY <5>2, <5>4 DEF FoldStep
            <4> QED
                BY <4>1, <4>2
        <3>5. g = [s \in SUBSET (1 .. m) |-> g[s]]
            OBVIOUS
        <3> HIDE DEF g
        <3>6. g = [s \in SUBSET (1 .. m) |-> FoldStep(g, s, seq)]
            BY <3>4, <3>5
        <3> QED
            BY <2>1, <3>6
    <2> QED
        BY <2>1, <2>2, <2>3
<1>2. X = {}
    <2>1. X \in SUBSET Nat
        OBVIOUS
    <2> HIDE DEF X
    <2> QED
        BY <1>1, <2>1, LeastNatural
<1> HIDE DEF Has
<1>3. Has(n)
    BY <1>2
<1> QED
    BY <1>3 DEF Has

LEMMA FoldIs ==
    ASSUME NEW n \in Nat, NEW seq, DOMAIN seq = 1 .. n
    PROVE  \E F : FoldsTo(F, seq, n) /\ FoldLeft(Apply, <<>>, seq) = F[n]
<1> DEFINE iter == CHOOSE h : h = [s \in SUBSET (1 .. n) |-> FoldStep(h, s, seq)]
           F == [k \in 0 .. n |-> iter[1 .. k]]
<1>1. FoldLeft(Apply, <<>>, seq) = iter[1 .. n]
    <2>1. FoldLeft(Apply, <<>>, seq) =
             (CHOOSE h : h = [s \in SUBSET DOMAIN seq |->
                 IF s = {} THEN <<>> ELSE Apply(h[s \ {Max(s)}], seq[Max(s)])])[DOMAIN seq]
        BY Zenon DEF FoldLeft, MapThenFoldSet
    <2> QED
        BY <2>1, Zenon DEF FoldStep
<1>2. iter = [s \in SUBSET (1 .. n) |-> FoldStep(iter, s, seq)]
    BY FoldExists
<1> HIDE DEF iter
<1>3. F[0] = <<>>
    <2>1. 1 .. 0 = {} /\ 0 \in 0 .. n /\ {} \in SUBSET (1 .. n)
        OBVIOUS
    <2>2. iter[{}] = FoldStep(iter, {}, seq)
        BY <1>2, <2>1
    <2> QED
        BY <2>1, <2>2 DEF FoldStep
<1>4. ASSUME NEW k \in 1 .. n
      PROVE  F[k] = Apply(F[k - 1], seq[k])
    <2>1. 1 .. k \in SUBSET (1 .. n) /\ 1 .. k # {} /\ k \in 1 .. k /\ (1 .. k) \ {k} = 1 .. k - 1
          /\ k \in 0 .. n /\ k - 1 \in 0 .. n
        <3>1. \A i : i \in (1 .. k) \ {k} <=> i \in 1 .. k - 1
            OBVIOUS
        <3>2. (1 .. k) \ {k} = 1 .. k - 1
            BY <3>1, Zenon
        <3>3. k \in 1 .. k /\ k \in 0 .. n /\ k - 1 \in 0 .. n
            OBVIOUS
        <3>4. \A i \in 1 .. k : i \in 1 .. n
            OBVIOUS
        <3> QED
            BY <3>2, <3>3, <3>4, Zenon
    <2>2. Max(1 .. k) = k
        <3>1. Max(1 .. k) \in 1 .. k /\ \A i \in 1 .. k : i <= Max(1 .. k)
            BY <2>1, MaxIs
        <3>2. k <= Max(1 .. k)
            BY <2>1, <3>1
        <3> QED
            BY <3>1, <3>2
    <2>3. iter[1 .. k] = FoldStep(iter, 1 .. k, seq)
        BY <1>2, <2>1
    <2>4. iter[1 .. k] = Apply(iter[1 .. k - 1], seq[k])
        BY <2>1, <2>2, <2>3 DEF FoldStep
    <2>5. F[k] = iter[1 .. k] /\ F[k - 1] = iter[1 .. k - 1]
        BY <2>1
    <2> QED
        BY <2>4, <2>5
<1>5. F[n] = iter[1 .. n]
    OBVIOUS
<1> HIDE DEF F
<1>6. FoldsTo(F, seq, n)
    BY <1>3, <1>4 DEF FoldsTo
<1> QED
    BY <1>1, <1>5, <1>6

LEMMA FoldAppend ==
    ASSUME NEW S, NEW s \in Seq(S), NEW a \in S
    PROVE  FoldLeft(Apply, <<>>, s \o <<a>>) = Apply(FoldLeft(Apply, <<>>, s), a)
<1> DEFINE n == Len(s)
           t == s \o <<a>>
<1>1. n \in Nat /\ DOMAIN s = 1 .. n /\ DOMAIN t = 1 .. n + 1 /\ n + 1 \in Nat
      /\ t[n + 1] = a /\ \A k \in 1 .. n : t[k] = s[k]
    <2>1. n \in Nat /\ DOMAIN s = 1 .. n /\ n + 1 \in Nat
        OBVIOUS
    <2>2. <<a>> \in Seq(S) /\ Len(<<a>>) = 1 /\ <<a>>[1] = a
        <3>1. Len(<<a>>) = 1 /\ <<a>>[1] = a
            OBVIOUS
        <3>2. <<a>> \in Seq(S)
            OBVIOUS
        <3> QED
            BY <3>1, <3>2
    <2>3. /\ t \in Seq(S) /\ Len(t) = n + 1
          /\ \A k \in 1 .. n + 1 : t[k] = IF k <= n THEN s[k] ELSE <<a>>[k - n]
        BY <2>2, ConcatProperties
    <2> HIDE DEF n, t
    <2>4. DOMAIN t = 1 .. n + 1
        BY <2>3
    <2>5. n + 1 \in 1 .. n + 1 /\ ~(n + 1 <= n) /\ (n + 1) - n = 1
        BY <2>1
    <2>6. t[n + 1] = a
        BY <2>2, <2>3, <2>5
    <2>7. \A k \in 1 .. n : t[k] = s[k]
        BY <2>1, <2>3
    <2> QED
        BY <2>1, <2>4, <2>6, <2>7
<1> HIDE DEF n, t
<1>2. PICK F : FoldsTo(F, s, n) /\ FoldLeft(Apply, <<>>, s) = F[n]
    BY <1>1, FoldIs
<1>3. PICK G : FoldsTo(G, t, n + 1) /\ FoldLeft(Apply, <<>>, t) = G[n + 1]
    BY <1>1, FoldIs
<1> DEFINE X == {k \in 0 .. n : F[k] # G[k]}
<1>4. ASSUME NEW k \in X, \A m \in X : k <= m
      PROVE  FALSE
    <2>1. k \in 0 .. n /\ F[k] # G[k]
        OBVIOUS
    <2>2. CASE k = 0
        BY <1>2, <1>3, <2>1, <2>2 DEF FoldsTo
    <2>3. CASE k # 0
        <3>1. k \in 1 .. n /\ k \in 1 .. n + 1 /\ k - 1 \in 0 .. n /\ ~(k <= k - 1)
            BY <1>1, <2>1, <2>3
        <3>2. F[k - 1] = G[k - 1]
            BY <1>4, <3>1
        <3>3. F[k] = Apply(F[k - 1], s[k]) /\ G[k] = Apply(G[k - 1], t[k])
            BY <1>2, <1>3, <3>1 DEF FoldsTo
        <3> QED
            BY <1>1, <2>1, <3>1, <3>2, <3>3
    <2> QED
        BY <2>2, <2>3
<1>5. X = {}
    <2>1. X \in SUBSET Nat
        OBVIOUS
    <2> HIDE DEF X
    <2> QED
        BY <1>4, <2>1, LeastNatural
<1>6. F[n] = G[n]
    <2>1. n \in 0 .. n
        BY <1>1
    <2> QED
        BY <1>5, <2>1
<1>7. G[n + 1] = Apply(G[n], a)
    <2>1. n + 1 \in 1 .. n + 1 /\ n + 1 - 1 = n
        BY <1>1
    <2> QED
        BY <1>1, <1>3, <2>1 DEF FoldsTo
<1> QED
    BY <1>2, <1>3, <1>6, <1>7 DEF t

(* The method that the actions make *)

SchemeAction == [do |-> "scheme", name |-> <<"Digest">>, text |-> <<>>]
ParamAction(key, x) == [do |-> "param", name |-> <<key>>, text |-> x]
With(P, key, x) == [k \in DOMAIN P \cup {<<key>>} |-> IF k = <<key>> THEN x ELSE P[k]]
Method(P) == [Name |-> <<"Digest">>, Params |-> P]
NoParams == [k \in {} |-> <<>>]

LEMMA ApplyScheme == Apply(<<>>, SchemeAction) = <<Method(NoParams)>>
<1>1. SchemeAction.do = "scheme" /\ SchemeAction.name = <<"Digest">>
    BY DEF SchemeAction
<1>2. Apply(<<>>, SchemeAction) = Append(<<>>, AuthMethod(<<"Digest">>))
    BY <1>1 DEF Apply
<1>3. AuthMethod(<<"Digest">>) = Method(NoParams)
    BY DEF AuthMethod, Method, NoParams
<1> QED
    BY <1>2, <1>3

LEMMA ApplyParam ==
    ASSUME NEW P, NEW key, NEW x
    PROVE  Apply(<<Method(P)>>, ParamAction(key, x)) = <<Method(With(P, key, x))>>
<1> DEFINE m == Method(P)
           s == <<m>>
<1>1. ParamAction(key, x).do = "param" /\ ParamAction(key, x).name = <<key>> /\ ParamAction(key, x).text = x
    BY DEF ParamAction
<1>2. Apply(s, ParamAction(key, x)) = setParam(s, <<key>>, x)
    <2>1. "param" # "scheme"
        OBVIOUS
    <2> QED
        BY <1>1, <2>1 DEF Apply
<1>3. Last(s) = m /\ Front(s) = <<>>
    <2>1. Len(s) = 1 /\ s[1] = m
        OBVIOUS
    <2> HIDE DEF s
    <2>2. SubSeq(s, 1, 0) = <<>>
        BY SubSeqEmpty
    <2> QED
        BY <2>1, <2>2 DEF Last, Front
<1>4. m.Params = P /\ [m EXCEPT !.Params = With(P, key, x)] = Method(With(P, key, x))
    BY DEF Method
<1> HIDE DEF m, s
<1>5. setParam(s, <<key>>, x) = Append(<<>>, [m EXCEPT !.Params = With(P, key, x)])
    BY <1>3, <1>4, Zenon DEF setParam, With
<1> QED
    BY <1>2, <1>4, <1>5 DEF m, s

LEMMA GetWith ==
    ASSUME NEW P, NEW key, NEW x
    PROVE  /\ Get(With(P, key, x), key) = x
           /\ \A k : k # key => Get(With(P, key, x), k) = Get(P, k)
<1>1. \A k : <<k>> = <<key>> <=> k = key
    OBVIOUS
<1>2. DOMAIN With(P, key, x) = DOMAIN P \cup {<<key>>}
    BY DEF With
<1>3. \A q \in DOMAIN P \cup {<<key>>} : With(P, key, x)[q] = IF q = <<key>> THEN x ELSE P[q]
    BY DEF With
<1> QED
    BY <1>1, <1>2, <1>3, Zenon DEF Get

LEMMA GetNone == \A k : Get(NoParams, k) = <<>>
BY DEF Get, NoParams

-----------------------------------------------------------------------------
(* Texts and what the parser makes of them wherever they stand             *)

\* The actions of the parameters from p + 1 to the end.
ReadAs(b, p, acts) ==
    IF acts = <<>> THEN p = Len(b) /\ auth_params(b, p + 1) = No
    ELSE auth_params(b, p + 1) = Yes(Len(b) + 1, acts)

\* A text that may follow a parameter.
MayFollow(t) == t \in Seq(Char) /\ (t = <<>> \/ t[1] \in Separators)

Ending(t, acts) ==
    /\ MayFollow(t) /\ acts \in Seq(Actions)
    /\ \A b, p : From(b, p, t) => ReadAs(b, p, acts)

\* A text in front of others.
Adds(u, acts) ==
    /\ u \in Seq(Char) /\ acts \in Seq(Actions) /\ acts # <<>>
    /\ \A t, bs : Ending(t, bs) => Ending(u \o t, acts \o bs)

LEMMA EndingNone == Ending(<<>>, <<>>)
<1> DEFINE e == <<>>
<1>1. MayFollow(e) /\ e \in Seq(Actions) /\ Len(e) = 0
    BY DEF MayFollow
<1>2. ASSUME NEW b, NEW p, From(b, p, e)
      PROVE  ReadAs(b, p, e)
    <2>1. b \in Seq(Char) /\ p \in Nat /\ Len(b) = p
        <3> HIDE DEF e
        <3> QED
            BY <1>1, <1>2 DEF From
    <2>2. p + 1 \in 1 .. Len(b) + 1 /\ p + 1 > Len(b)
        BY <2>1
    <2>3. ws(b, p + 1) = p + 1 /\ ~(ws(b, p + 1) > p + 1)
        <3>1. ws(b, p + 1) = p + 1
            BY <2>1, <2>2, WsIs
        <3> QED
            BY <2>1, <3>1
    <2>4. ~Is(b, p + 1, Comma)
        BY <2>1, <2>2 DEF Is
    <2>5. ws_or_comma(b, p + 1) = No
        BY <2>3, <2>4, Zenon DEF ws_or_comma
    <2>6. ~ws_or_comma(b, p + 1).ok
        BY <2>5 DEF No
    <2>7. OneParam(b, p + 1) = No
        BY <2>6, Zenon DEF OneParam
    <2>8. ~OneParam(b, p + 1).ok
        BY <2>7 DEF No
    <2>9. auth_params(b, p + 1) = No
        BY <2>1, <2>2, <2>8, ParamsIs
    <2> QED
        BY <2>1, <2>9 DEF ReadAs
<1> QED
    BY <1>1, <1>2 DEF Ending

LEMMA OneBefore ==
    ASSUME NEW b \in Seq(Char), NEW p \in Nat, NEW e \in Nat, p + 1 <= Len(b) + 1,
           NEW a \in Actions, OneParam(b, p + 1) = Yes(e + 1, <<a>>),
           NEW bs \in Seq(Actions), ReadAs(b, e, bs)
    PROVE  ReadAs(b, p, <<a>> \o bs)
<1>1. p + 1 \in 1 .. Len(b) + 1
    OBVIOUS
<1>2. /\ OneParam(b, p + 1).ok /\ OneParam(b, p + 1).at = e + 1 /\ OneParam(b, p + 1).val = <<a>>
    BY DEF Yes
<1>3. auth_params(b, p + 1) = Maybe(OneParam(b, p + 1), auth_params(b, e + 1))
    BY <1>1, <1>2, ParamsIs
<1>4. <<a>> \in Seq(Actions) /\ <<a>> \o bs # <<>>
    <2>1. <<a>> \in Seq(Actions) /\ <<a>> # <<>>
        OBVIOUS
    <2> QED
        BY <2>1, ConcatEqualIffEmpty
<1>5. CASE bs = <<>>
    <2>1. e = Len(b) /\ ~auth_params(b, e + 1).ok
        BY <1>5 DEF ReadAs, No
    <2>2. auth_params(b, p + 1) = Yes(Len(b) + 1, <<a>>)
        BY <1>3, <2>1, Zenon DEF Maybe
    <2>3. <<a>> \o bs = <<a>>
        BY <1>4, <1>5, ConcatEmptySeq
    <2> QED
        BY <1>4, <2>2, <2>3 DEF ReadAs
<1>6. CASE bs # <<>>
    <2>1. auth_params(b, e + 1).ok /\ auth_params(b, e + 1).at = Len(b) + 1 /\ auth_params(b, e + 1).val = bs
        BY <1>6 DEF ReadAs, Yes
    <2>2. auth_params(b, p + 1) = Yes(Len(b) + 1, <<a>> \o bs)
        BY <1>2, <1>3, <2>1, Zenon DEF Maybe
    <2> QED
        BY <1>4, <2>2 DEF ReadAs
<1> QED
    BY <1>5, <1>6

\* Texts and lists of actions are joined in either order.
LEMMA Joins ==
    ASSUME NEW S, NEW s \in Seq(S), NEW t \in Seq(S), NEW u \in Seq(S)
    PROVE  /\ (s \o t) \o u = s \o (t \o u)
           /\ s \o t \in Seq(S) /\ (s \o t = <<>> <=> s = <<>> /\ t = <<>>)
<1>1. (s \o t) \o u = s \o (t \o u)
    BY ConcatAssociative
<1>2. s \o t \in Seq(S)
    OBVIOUS
<1>3. s \o t = <<>> <=> s = <<>> /\ t = <<>>
    BY ConcatEqualIffEmpty
<1> QED
    BY <1>1, <1>2, <1>3

LEMMA TextsJoin ==
    ASSUME NEW s \in Seq(Char), NEW t \in Seq(Char), NEW u \in Seq(Char)
    PROVE  (s \o t) \o u = s \o (t \o u)
BY Joins

LEMMA ActionsJoin ==
    ASSUME NEW s \in Seq(Actions), NEW t \in Seq(Actions), NEW u \in Seq(Actions)
    PROVE  (s \o t) \o u = s \o (t \o u)
BY Joins

LEMMA ActionsBoth ==
    ASSUME NEW s \in Seq(Actions), NEW t \in Seq(Actions), s # <<>>
    PROVE  s \o t \in Seq(Actions) /\ s \o t # <<>>
BY Joins

\* The concatenation as a symbol of its own, for the provers.
Cat(s, t) == s \o t

LEMMA CatJoins ==
    /\ \A s \in Seq(Char), t \in Seq(Char) : Cat(s, t) \in Seq(Char)
    /\ \A s \in Seq(Char), t \in Seq(Char), u \in Seq(Char) : Cat(Cat(s, t), u) = Cat(s, Cat(t, u))
<1>1. \A s \in Seq(Char), t \in Seq(Char) : s \o t \in Seq(Char)
    OBVIOUS
<1>2. \A s \in Seq(Char), t \in Seq(Char), u \in Seq(Char) : (s \o t) \o u = s \o (t \o u)
    BY TextsJoin
<1> QED
    BY <1>1, <1>2, Zenon DEF Cat

LEMMA CatIs ==
    /\ \A s \in Seq(Char), t \in Seq(Char) :
          /\ Cat(s, t) \in Seq(Char) /\ Len(Cat(s, t)) = Len(s) + Len(t)
          /\ \A i \in 1 .. Len(s) + Len(t) : Cat(s, t)[i] = IF i <= Len(s) THEN s[i] ELSE t[i - Len(s)]
    /\ \A s \in Seq(Actions), t \in Seq(Actions) :
          /\ Cat(s, t) \in Seq(Actions) /\ Len(Cat(s, t)) = Len(s) + Len(t)
          /\ \A i \in 1 .. Len(s) + Len(t) : Cat(s, t)[i] = IF i <= Len(s) THEN s[i] ELSE t[i - Len(s)]
<1>1. ASSUME NEW S, NEW s \in Seq(S), NEW t \in Seq(S)
      PROVE  /\ s \o t \in Seq(S) /\ Len(s \o t) = Len(s) + Len(t)
             /\ \A i \in 1 .. Len(s) + Len(t) : (s \o t)[i] = IF i <= Len(s) THEN s[i] ELSE t[i - Len(s)]
    BY ConcatProperties
<1> QED
    BY <1>1, Zenon DEF Cat

LEMMA CatActions ==
    /\ \A s \in Seq(Actions), t \in Seq(Actions) : Cat(s, t) \in Seq(Actions)
    /\ \A s \in Seq(Actions), t \in Seq(Actions), u \in Seq(Actions) :
          Cat(Cat(s, t), u) = Cat(s, Cat(t, u))
<1>1. \A s \in Seq(Actions), t \in Seq(Actions) : s \o t \in Seq(Actions)
    OBVIOUS
<1>2. \A s \in Seq(Actions), t \in Seq(Actions), u \in Seq(Actions) : (s \o t) \o u = s \o (t \o u)
    BY ActionsJoin
<1> QED
    BY <1>1, <1>2, Zenon DEF Cat

\* The parts of a quoted parameter, in the order they are read.
LEMMA PartsJoin ==
    ASSUME NEW s \in Seq(Char), NEW k \in Seq(Char), NEW q \in Seq(Char), NEW e \in Seq(Char),
           NEW t \in Seq(Char)
    PROVE  Cat(Cat(s, Cat(k, Cat(Cat(q, e), q))), t) = Cat(s, Cat(Cat(k, q), Cat(e, Cat(q, t))))
BY CatJoins

\* Short texts in one piece.
LEMMA OneJoinsOne ==
    ASSUME NEW x \in Char, NEW y \in Char
    PROVE  <<x>> \o <<y>> = <<x, y>>
<1> DEFINE s == <<x>>
           t == <<y>>
           u == <<x, y>>
           w == s \o t
<1>1. s \in Seq(Char) /\ t \in Seq(Char) /\ u \in Seq(Char)
      /\ Len(s) = 1 /\ Len(t) = 1 /\ Len(u) = 2 /\ s[1] = x /\ t[1] = y /\ u[1] = x /\ u[2] = y
    OBVIOUS
<1> HIDE DEF s, t, u
<1>2. /\ w \in Seq(Char) /\ Len(w) = Len(s) + Len(t)
      /\ \A i \in 1 .. Len(s) + Len(t) : w[i] = IF i <= Len(s) THEN s[i] ELSE t[i - Len(s)]
    BY <1>1, ConcatProperties
<1> HIDE DEF w
<1>3. Len(w) = 2 /\ w[1] = x /\ w[2] = y
    <2>1. \A i \in 1 .. 2 : w[i] = IF i <= 1 THEN s[i] ELSE t[i - 1]
        BY <1>1, <1>2
    <2>2. 1 \in 1 .. 2 /\ 2 \in 1 .. 2 /\ 2 - 1 = 1 /\ ~(2 <= 1)
        OBVIOUS
    <2> QED
        BY <1>1, <1>2, <2>1, <2>2
<1>4. w = u
    BY <1>1, <1>2, <1>3
<1> QED
    BY <1>4 DEF w, s, t, u

LEMMA TwoJoinOne ==
    ASSUME NEW x \in Char, NEW y \in Char, NEW z \in Char
    PROVE  <<x, y>> \o <<z>> = <<x, y, z>>
<1> DEFINE s == <<x, y>>
           t == <<z>>
           u == <<x, y, z>>
           w == s \o t
<1>1. s \in Seq(Char) /\ t \in Seq(Char) /\ u \in Seq(Char)
      /\ Len(s) = 2 /\ Len(t) = 1 /\ Len(u) = 3 /\ s[1] = x /\ s[2] = y /\ t[1] = z
      /\ u[1] = x /\ u[2] = y /\ u[3] = z
    OBVIOUS
<1> HIDE DEF s, t, u
<1>2. /\ w \in Seq(Char) /\ Len(w) = Len(s) + Len(t)
      /\ \A i \in 1 .. Len(s) + Len(t) : w[i] = IF i <= Len(s) THEN s[i] ELSE t[i - Len(s)]
    BY <1>1, ConcatProperties
<1> HIDE DEF w
<1>3. Len(w) = 3 /\ w[1] = x /\ w[2] = y /\ w[3] = z
    <2>1. \A i \in 1 .. 3 : w[i] = IF i <= 2 THEN s[i] ELSE t[i - 2]
        BY <1>1, <1>2
    <2>2. 1 \in 1 .. 3 /\ 2 \in 1 .. 3 /\ 3 \in 1 .. 3 /\ 3 - 2 = 1 /\ ~(3 <= 2)
        OBVIOUS
    <2> QED
        BY <1>1, <1>2, <2>1, <2>2
<1>4. w = u
    BY <1>1, <1>2, <1>3
<1> QED
    BY <1>4 DEF w, s, t, u

LEMMA ParamActionOK ==
    ASSUME NEW key \in Char, NEW x \in Seq(Char)
    PROVE  /\ ParamAction(key, x) \in Actions /\ <<ParamAction(key, x)>> \in Seq(Actions)
           /\ <<ParamAction(key, x)>> # <<>>
           /\ Action("param", <<key>>, x) = <<ParamAction(key, x)>>
<1>1. <<key>> \in Seq(Char)
    OBVIOUS
<1>2. ParamAction(key, x) \in Actions
    BY <1>1 DEF ParamAction, Actions
<1>3. Action("param", <<key>>, x) = <<ParamAction(key, x)>>
    BY Zenon DEF Action, ParamAction
<1> QED
    BY <1>2, <1>3

LEMMA CommasFirst ==
    ASSUME NEW sep \in Commas, NEW s \in Seq(Char)
    PROVE  MayFollow(sep \o s)
<1>1. sep \in Seq(Char) /\ Len(sep) \in Nat
    BY CommasIs
<1>2. Len(sep) >= 1 /\ sep[1] \in Separators
    <2>1. CASE sep = <<Space>>
        BY <2>1, Characters
    <2>2. CASE sep = <<Comma>>
        BY <2>2, Characters
    <2>3. CASE sep = <<Comma, Space>>
        BY <2>3, Characters
    <2> QED
        BY <2>1, <2>2, <2>3 DEF Commas
<1>3. sep \o s \in Seq(Char) /\ (sep \o s)[1] = sep[1]
    <2>1. 1 \in 1 .. Len(sep) + Len(s) /\ 1 <= Len(sep)
        BY <1>1, <1>2
    <2> QED
        BY <1>1, <2>1, ConcatProperties
<1> QED
    BY <1>2, <1>3 DEF MayFollow

LEMMA AddsQuoted ==
    ASSUME NEW sep \in Commas, NEW key \in Char \ Separators, NEW x \in Seq(Char)
    PROVE  Adds(sep \o Param(key, escape(x)), <<ParamAction(key, x)>>)
<1> DEFINE E == escape(x)
           q == <<Quote>>
           k2 == <<key, "=">>
           k3 == <<key, "=", Quote>>
           u == sep \o Param(key, E)
           a == ParamAction(key, x)
<1>1. E \in Seq(Char)
    <2>1. PICK U : Escapes(U, x) /\ E = U[Len(x)]
        BY EscapeIs
    <2>2. Len(x) \in 0 .. Len(x)
        OBVIOUS
    <2> HIDE DEF E
    <2> QED
        BY <2>1, <2>2 DEF Escapes
<1>2. q \in Seq(Char) /\ k2 \in Seq(Char) /\ k3 \in Seq(Char) /\ sep \in Seq(Char) /\ k2 \o q = k3
    <2>1. Quote \in Char /\ "=" \in Char /\ key \in Char
        BY Characters
    <2>2. q \in Seq(Char) /\ k2 \in Seq(Char) /\ k3 \in Seq(Char)
        BY <2>1
    <2>3. sep \in Seq(Char)
        BY CommasIs
    <2>4. k2 \o q = k3
        BY <2>1, TwoJoinOne
    <2> QED
        BY <2>2, <2>3, <2>4
<1>3. u = sep \o (k2 \o ((q \o E) \o q))
    BY Zenon DEF Param, Quoted
<1>4. a \in Actions /\ <<a>> \in Seq(Actions) /\ <<a>> # <<>> /\ Action("param", <<key>>, x) = <<a>>
    BY ParamActionOK
<1> HIDE DEF E, q, k2, k3, u, a
<1>5. k2 \o ((q \o E) \o q) \in Seq(Char) /\ u \in Seq(Char)
    BY <1>1, <1>2, <1>3
<1>6. ASSUME NEW t, NEW bs, Ending(t, bs)
      PROVE  Ending(u \o t, <<a>> \o bs)
    <2>1. t \in Seq(Char) /\ bs \in Seq(Actions)
        BY <1>6 DEF Ending, MayFollow
    <2>2. <<a>> \o bs \in Seq(Actions)
        BY <1>4, <2>1
    <2> DEFINE r == k3 \o (E \o (q \o t))
    <2>3. u \o t = sep \o r
        <3> HIDE DEF r
        <3>1. /\ sep \in Seq(Char) /\ k2 \in Seq(Char) /\ q \in Seq(Char) /\ E \in Seq(Char)
              /\ t \in Seq(Char)
            BY <1>1, <1>2, <2>1
        <3>2. u \o t = (sep \o (k2 \o ((q \o E) \o q))) \o t
            BY <1>3
        <3>3. (sep \o (k2 \o ((q \o E) \o q))) \o t = sep \o ((k2 \o q) \o (E \o (q \o t)))
            <4>1. Cat(Cat(sep, Cat(k2, Cat(Cat(q, E), q))), t) = Cat(sep, Cat(Cat(k2, q), Cat(E, Cat(q, t))))
                BY <3>1, PartsJoin
            <4> QED
                BY <4>1, Zenon DEF Cat
        <3>4. (k2 \o q) \o (E \o (q \o t)) = r
            BY <1>2 DEF r
        <3> QED
            BY <3>2, <3>3, <3>4
    <2>4. r \in Seq(Char)
        BY <1>1, <1>2, <2>1
    <2>5. MayFollow(u \o t)
        <3> HIDE DEF r
        <3> QED
            BY <2>3, <2>4, CommasFirst
    <2>6. ASSUME NEW b, NEW p, From(b, p, u \o t)
          PROVE  ReadAs(b, p, <<a>> \o bs)
        <3>1. b \in Seq(Char) /\ p \in Nat /\ p + 1 <= Len(b) + 1
            <4>1. u \o t \in Seq(Char)
                BY <1>5, <2>1
            <4> QED
                BY <2>6, <4>1 DEF From
        <3>2. QuotedAt(b, p, sep, key, x, t)
            BY <2>3, <2>6, Zenon DEF k3, E, q, QuotedAt
        <3>3. PICK e \in Nat : /\ OneParam(b, p + 1) = Yes(e + 1, Action("param", <<key>>, x))
                               /\ From(b, e, t)
            <4>1. ReadsOne(b, p, key, x, t)
                BY <2>1, <3>1, <3>2, QuotedParam
            <4> QED
                BY <4>1, Zenon DEF ReadsOne
        <3>4. ReadAs(b, e, bs)
            BY <1>6, <3>3 DEF Ending
        <3> QED
            BY <1>4, <2>1, <3>1, <3>3, <3>4, OneBefore
    <2> QED
        BY <2>2, <2>5, <2>6 DEF Ending
<1>7. Adds(u, <<a>>)
    BY <1>4, <1>5, <1>6 DEF Adds
<1> QED
    BY <1>7 DEF u, a, E

LEMMA AddsWord ==
    ASSUME NEW sep \in Commas, NEW key \in Char \ Separators, NEW w \in Char \ Separators
    PROVE  Adds(sep \o <<key, "=", w>>, <<ParamAction(key, <<w>>)>>)
<1> DEFINE k3 == <<key, "=", w>>
           u == sep \o k3
           x == <<w>>
           a == ParamAction(key, x)
<1>2. k3 \in Seq(Char) /\ sep \in Seq(Char) /\ x \in Seq(Char)
    BY Characters, CommasIs
<1>4. a \in Actions /\ <<a>> \in Seq(Actions) /\ <<a>> # <<>> /\ Action("param", <<key>>, x) = <<a>>
    BY <1>2, ParamActionOK
<1> HIDE DEF k3, a, x
<1>5. u \in Seq(Char)
    BY <1>2
<1>6. ASSUME NEW t, NEW bs, Ending(t, bs)
      PROVE  Ending(u \o t, <<a>> \o bs)
    <2>1. t \in Seq(Char) /\ bs \in Seq(Actions) /\ (t = <<>> \/ t[1] \in Separators)
        BY <1>6 DEF Ending, MayFollow
    <2>2. <<a>> \o bs \in Seq(Actions)
        BY <1>4, <2>1
    <2>3. u \o t = sep \o (k3 \o t)
        BY <1>2, <2>1, TextsJoin
    <2>4. k3 \o t \in Seq(Char)
        BY <1>2, <2>1
    <2> HIDE DEF u
    <2>5. MayFollow(u \o t)
        BY <2>3, <2>4, CommasFirst
    <2>6. ASSUME NEW b, NEW p, From(b, p, u \o t)
          PROVE  ReadAs(b, p, <<a>> \o bs)
        <3>1. b \in Seq(Char) /\ p \in Nat /\ p + 1 <= Len(b) + 1
            <4>1. u \o t \in Seq(Char)
                BY <1>5, <2>1
            <4> QED
                BY <2>6, <4>1 DEF From
        <3>2. WordAt(b, p, sep, key, w, t)
            BY <2>3, <2>6, Zenon DEF k3, WordAt
        <3>3. PICK e \in Nat : /\ OneParam(b, p + 1) = Yes(e + 1, Action("param", <<key>>, <<w>>))
                               /\ From(b, e, t)
            <4>1. ReadsOne(b, p, key, <<w>>, t)
                BY <2>1, <3>1, <3>2, WordParam
            <4> QED
                BY <4>1, Zenon DEF ReadsOne
        <3>4. ReadAs(b, e, bs)
            BY <1>6, <3>3 DEF Ending
        <3> QED
            BY <1>4, <2>1, <3>1, <3>3, <3>4, OneBefore DEF x
    <2> QED
        BY <2>2, <2>5, <2>6 DEF Ending
<1>7. Adds(u, <<a>>)
    BY <1>4, <1>5, <1>6 DEF Adds
<1> QED
    BY <1>7 DEF u, a, x, k3

LEMMA AddsConcat ==
    ASSUME NEW u, NEW v, NEW acts, NEW bs, Adds(u, acts), Adds(v, bs)
    PROVE  Adds(u \o v, acts \o bs)
<1>1. u \in Seq(Char) /\ v \in Seq(Char) /\ acts \in Seq(Actions) /\ bs \in Seq(Actions) /\ acts # <<>>
    BY DEF Adds
<1>2. u \o v \in Seq(Char) /\ acts \o bs \in Seq(Actions) /\ acts \o bs # <<>>
    <2>1. u \o v \in Seq(Char)
        BY <1>1
    <2> QED
        BY <1>1, <2>1, ActionsBoth
<1>3. ASSUME NEW t, NEW cs, Ending(t, cs)
      PROVE  Ending((u \o v) \o t, (acts \o bs) \o cs)
    <2>1. t \in Seq(Char) /\ cs \in Seq(Actions)
        BY <1>3 DEF Ending, MayFollow
    <2>2. Ending(u \o (v \o t), acts \o (bs \o cs))
        BY <1>3 DEF Adds
    <2>3. (u \o v) \o t = u \o (v \o t) /\ (acts \o bs) \o cs = acts \o (bs \o cs)
        <3>1. (u \o v) \o t = u \o (v \o t)
            BY <1>1, <2>1, TextsJoin
        <3>2. (acts \o bs) \o cs = acts \o (bs \o cs)
            BY <1>1, <2>1, ActionsJoin
        <3> QED
            BY <3>1, <3>2
    <2> QED
        BY <2>2, <2>3
<1> QED
    BY <1>2, <1>3 DEF Adds

-----------------------------------------------------------------------------
(* Texts that are read as a Digest method *)

LEMMA Words ==
    /\ \A w \in Keys \cup {"Digest", "MD5", "auth"} : w \in Char \ Separators
    /\ \A w \in Values : w \in Char /\ w \notin {Quote, Backslash}
<1>0. \A w \in Keys \cup Values \cup {"Digest"} : w \notin DOMAIN Utf8
    <2>1. \A w \in {"Digest", "realm", "domain", "nonce", "opaque", "stale", "algorithm", "qop",
                    "username", "response", "true", "MD5", "auth", "guest", "member", "wrong"} :
             w \notin DOMAIN Utf8
        BY WordsAssumption, Zenon
    <2>2. "/" \notin DOMAIN Utf8
        <3>1. "/" \in Signs
            BY Zenon DEF Signs
        <3> QED
            BY <3>1, Utf8Assumption, Zenon
    <2> QED
        BY <2>1, <2>2, Zenon DEF Keys, Values
<1>1. \A w \in Keys \cup {"Digest", "MD5", "auth"} : w \notin Separators
    <2>1. \A w \in Keys \cup {"Digest", "MD5", "auth"} : w \notin Signs
        BY Zenon DEF Keys, Signs, Space, Comma, Quote, Backslash
    <2>2. {"MD5", "auth"} \subseteq Values
        BY DEF Values
    <2> QED
        BY <1>0, <2>1, <2>2, Zenon DEF Separators
<1>2. \A w \in Values : w \notin {Quote, Backslash}
    BY Zenon DEF Values, Quote, Backslash
<1>3. {"MD5", "auth"} \subseteq Values
    BY DEF Values
<1> QED
    BY <1>0, <1>1, <1>2, <1>3, Zenon DEF Char

Digested(u, P) ==
    \E v, acts : /\ u = <<"Digest">> \o v /\ Adds(v, acts)
               /\ FoldLeft(Apply, <<>>, <<SchemeAction>> \o acts) = <<Method(P)>>

LEMMA SchemeActionOK == SchemeAction \in Actions /\ <<SchemeAction>> \in Seq(Actions)
<1>1. "Digest" \in Char
    BY Words
<1>2. <<"Digest">> \in Seq(Char) /\ <<>> \in Seq(Char)
    BY <1>1
<1>3. SchemeAction \in Actions
    BY <1>2 DEF SchemeAction, Actions
<1> QED
    BY <1>3

LEMMA FoldScheme == FoldLeft(Apply, <<>>, <<SchemeAction>>) = <<Method(NoParams)>>
<1> DEFINE e == <<>>
<1>1. DOMAIN e = 1 .. 0 /\ 0 \in Nat /\ e \in Seq(Actions)
    OBVIOUS
<1>2. FoldLeft(Apply, <<>>, e) = <<>>
    <2>1. PICK F : FoldsTo(F, e, 0) /\ FoldLeft(Apply, <<>>, e) = F[0]
        BY <1>1, FoldIs
    <2> QED
        BY <2>1, Zenon DEF FoldsTo
<1>3. e \o <<SchemeAction>> = <<SchemeAction>>
    BY SchemeActionOK, ConcatEmptySeq
<1> HIDE DEF e
<1>4. FoldLeft(Apply, <<>>, e \o <<SchemeAction>>) = Apply(FoldLeft(Apply, <<>>, e), SchemeAction)
    BY <1>1, SchemeActionOK, FoldAppend
<1> QED
    BY <1>2, <1>3, <1>4, ApplyScheme, Zenon

LEMMA DigestMore ==
    ASSUME NEW u, NEW P, NEW key \in Char, NEW x \in Seq(Char), NEW w
    PROVE  Digested(u, P) /\ Adds(w, <<ParamAction(key, x)>>) => Digested(u \o w, With(P, key, x))
<1> DEFINE a == ParamAction(key, x)
<1>1. SUFFICES ASSUME Digested(u, P), Adds(w, <<a>>)
               PROVE  Digested(u \o w, With(P, key, x))
    OBVIOUS
<1>2. PICK v, acts : /\ u = <<"Digest">> \o v /\ Adds(v, acts)
                   /\ FoldLeft(Apply, <<>>, <<SchemeAction>> \o acts) = <<Method(P)>>
    BY <1>1, Zenon DEF Digested
<1> DEFINE d == <<"Digest">>
           s == <<SchemeAction>>
           l == <<a>>
<1>3. a \in Actions /\ l \in Seq(Actions) /\ s \in Seq(Actions)
    BY ParamActionOK, SchemeActionOK
<1>4. d \in Seq(Char)
    BY Words
<1>5. v \in Seq(Char) /\ w \in Seq(Char) /\ acts \in Seq(Actions)
    BY <1>1, <1>2, Zenon DEF Adds
<1>6. Adds(v \o w, acts \o l)
    BY <1>1, <1>2, AddsConcat, Zenon
<1> HIDE DEF d, s, l, a
<1>7. (d \o v) \o w = d \o (v \o w)
    BY <1>4, <1>5, CatJoins, Zenon DEF Cat
<1>8. (s \o acts) \o l = s \o (acts \o l)
    BY <1>3, <1>5, CatActions, Zenon DEF Cat
<1>9. s \o acts \in Seq(Actions)
    BY <1>3, <1>5, CatActions, Zenon DEF Cat
<1>10. FoldLeft(Apply, <<>>, (s \o acts) \o <<a>>) = Apply(FoldLeft(Apply, <<>>, s \o acts), a)
    <2> DEFINE t == s \o acts
    <2>1. t \in Seq(Actions)
        BY <1>9
    <2> HIDE DEF t
    <2>2. FoldLeft(Apply, <<>>, t \o <<a>>) = Apply(FoldLeft(Apply, <<>>, t), a)
        BY <1>3, <2>1, FoldAppend
    <2> QED
        BY <2>2, Zenon DEF t
<1>11. FoldLeft(Apply, <<>>, s \o (acts \o l)) = <<Method(With(P, key, x))>>
    BY <1>2, <1>8, <1>10, ApplyParam, Zenon DEF s, l, a
<1>12. u \o w = d \o (v \o w)
    BY <1>2, <1>7, Zenon DEF d
<1> QED
    BY <1>6, <1>11, <1>12, Zenon DEF Digested, d, s

LEMMA ParamIs ==
    ASSUME NEW key \in Char, NEW x \in Seq(Char)
    PROVE  Param(key, escape(x)) \in Seq(Char)
<1> DEFINE E == escape(x)
           k2 == <<key, "=">>
           q == <<Quote>>
<1>1. E \in Seq(Char)
    <2>1. PICK U : Escapes(U, x) /\ E = U[Len(x)]
        BY EscapeIs
    <2>2. Len(x) \in 0 .. Len(x)
        OBVIOUS
    <2> HIDE DEF E
    <2> QED
        BY <2>1, <2>2 DEF Escapes
<1>2. k2 \in Seq(Char) /\ q \in Seq(Char)
    BY Characters
<1>3. Param(key, escape(x)) = k2 \o ((q \o E) \o q)
    BY Zenon DEF Param, Quoted
<1> HIDE DEF E, k2, q
<1>4. k2 \o ((q \o E) \o q) \in Seq(Char)
    BY <1>1, <1>2
<1> QED
    BY <1>3, <1>4

LEMMA DigestQuoted ==
    ASSUME NEW u, NEW P, NEW sep \in Commas, NEW key \in Char \ Separators, NEW x \in Seq(Char)
    PROVE  Digested(u, P) => Digested((u \o sep) \o Param(key, escape(x)), With(P, key, x))
<1> DEFINE r == Param(key, escape(x))
<1>1. SUFFICES ASSUME Digested(u, P)
               PROVE  Digested((u \o sep) \o r, With(P, key, x))
    OBVIOUS
<1>2. PICK v, acts : u = <<"Digest">> \o v /\ Adds(v, acts)
    BY <1>1, Zenon DEF Digested
<1>3. v \in Seq(Char) /\ <<"Digest">> \in Seq(Char)
    <2>1. v \in Seq(Char)
        BY <1>2, Zenon DEF Adds
    <2>2. "Digest" \in Char
        BY Words
    <2> QED
        BY <2>1, <2>2
<1>4. u \in Seq(Char)
    BY <1>2, <1>3, CatJoins, Zenon DEF Cat
<1>5. r \in Seq(Char) /\ sep \in Seq(Char)
    BY ParamIs, CommasIs
<1>6. Adds(sep \o r, <<ParamAction(key, x)>>)
    BY AddsQuoted
<1> HIDE DEF r
<1>7. Digested(u \o (sep \o r), With(P, key, x))
    BY <1>1, <1>6, DigestMore
<1>8. (u \o sep) \o r = u \o (sep \o r)
    BY <1>4, <1>5, CatJoins, Zenon DEF Cat
<1> QED
    BY <1>7, <1>8, Zenon

LEMMA DigestWord ==
    ASSUME NEW u, NEW P, NEW sep \in Commas, NEW key \in Char \ Separators,
           NEW w \in Char \ Separators
    PROVE  Digested(u, P) => Digested(u \o (sep \o <<key, "=", w>>), With(P, key, <<w>>))
<1>1. <<w>> \in Seq(Char)
    OBVIOUS
<1>2. Adds(sep \o <<key, "=", w>>, <<ParamAction(key, <<w>>)>>)
    BY AddsWord
<1> QED
    BY <1>1, <1>2, DigestMore, Zenon

LEMMA DigestFirst ==
    ASSUME NEW key \in Char \ Separators, NEW x \in Seq(Char)
    PROVE  Digested(<<"Digest", Space>> \o Param(key, escape(x)), With(NoParams, key, x))
<1> DEFINE r == Param(key, escape(x))
           d == <<"Digest">>
           sp == <<Space>>
           two == <<"Digest", Space>>
           a == ParamAction(key, x)
           l == <<a>>
           s == <<SchemeAction>>
<1>1. sp \in Commas
    BY Zenon DEF Commas
<1>2. Adds(sp \o r, l)
    BY <1>1, AddsQuoted, Zenon
<1>3. d \in Seq(Char) /\ sp \in Seq(Char) /\ two = d \o sp
    <2>1. "Digest" \in Char /\ Space \in Char
        BY Words, Characters
    <2>2. d \in Seq(Char)
        BY <2>1
    <2>3. sp \in Seq(Char)
        BY <2>1
    <2>4. d \o sp = two
        BY <2>1, OneJoinsOne
    <2> QED
        BY <2>2, <2>3, <2>4
<1>4. r \in Seq(Char)
    BY ParamIs
<1>5. a \in Actions /\ s \in Seq(Actions)
    BY ParamActionOK, SchemeActionOK
<1> HIDE DEF r, d, sp, two, a, s
<1>6. two \o r = d \o (sp \o r)
    BY <1>3, <1>4, CatJoins, Zenon DEF Cat
<1>7. FoldLeft(Apply, <<>>, s \o <<a>>) = Apply(FoldLeft(Apply, <<>>, s), a)
    BY <1>5, FoldAppend
<1>8. FoldLeft(Apply, <<>>, s \o l) = <<Method(With(NoParams, key, x))>>
    BY <1>7, FoldScheme, ApplyParam, Zenon DEF s, a
<1> QED
    BY <1>2, <1>6, <1>8, Zenon DEF Digested, d, s, r, two

\* Such a text is a header with one method.
LEMMA DigestReads ==
    ASSUME NEW u, NEW P, Digested(u, P)
    PROVE  Execute(start(u).val) = [panics |-> FALSE, methods |-> <<Method(P)>>]
<1> DEFINE d == <<"Digest">>
           s == <<SchemeAction>>
<1>1. PICK v, acts : /\ u = d \o v /\ Adds(v, acts)
                   /\ FoldLeft(Apply, <<>>, s \o acts) = <<Method(P)>>
    BY Zenon DEF Digested
<1>2. "Digest" \in Char \ Separators
    BY Words
<1>3. d \in Seq(Char) /\ Len(d) = 1 /\ d[1] = "Digest"
    BY <1>2
<1>4. v \in Seq(Char) /\ acts \in Seq(Actions) /\ acts # <<>>
    BY <1>1, Zenon DEF Adds
<1>5. s \in Seq(Actions) /\ SchemeAction \in Actions
    BY SchemeActionOK
<1>6. Ending(v, acts)
    <2> DEFINE e == <<>>
               f == <<>>
    <2>1. Ending(e, f)
        BY EndingNone
    <2>2. v \o e = v /\ acts \o f = acts
        BY <1>4, ConcatEmptySeq
    <2>3. Ending(v \o e, acts \o f)
        BY <1>1, <2>1, Zenon DEF Adds
    <2> HIDE DEF e, f
    <2> QED
        BY <2>2, <2>3, Zenon
<1>7. MayFollow(v) /\ \A b, p : From(b, p, v) => ReadAs(b, p, acts)
    BY <1>6, Zenon DEF Ending
<1> HIDE DEF d, s
<1>8. /\ u \in Seq(Char) /\ Len(u) = 1 + Len(v) /\ Len(v) \in Nat /\ u[1] = "Digest"
      /\ \A k \in 1 .. Len(v) : u[1 + k] = v[k]
    <2> DEFINE w == Cat(d, v)
    <2>1. /\ w \in Seq(Char) /\ Len(w) = Len(d) + Len(v) /\ Len(v) \in Nat
          /\ \A i \in 1 .. Len(d) + Len(v) : w[i] = IF i <= Len(d) THEN d[i] ELSE v[i - Len(d)]
        <3>1. Len(v) \in Nat
            BY <1>4
        <3> QED
            BY <1>3, <1>4, <3>1, CatIs
    <2>2. w = u
        BY <1>1, Zenon DEF Cat
    <2> HIDE DEF w
    <2>3. \A i \in 1 .. 1 + Len(v) : w[i] = IF i <= 1 THEN d[i] ELSE v[i - 1]
        BY <1>3, <2>1
    <2>4. w[1] = "Digest"
        <3>1. 1 \in 1 .. 1 + Len(v)
            BY <2>1
        <3> QED
            BY <1>3, <2>3, <3>1
    <2>5. \A k \in 1 .. Len(v) : w[1 + k] = v[k]
        <3> SUFFICES ASSUME NEW k \in 1 .. Len(v)
                     PROVE  w[1 + k] = v[k]
            OBVIOUS
        <3>1. 1 + k \in 1 .. 1 + Len(v) /\ ~(1 + k <= 1) /\ 1 + k - 1 = k
            BY <2>1
        <3> QED
            BY <2>3, <3>1
    <2> QED
        BY <1>3, <2>1, <2>2, <2>4, <2>5
<1>9. From(u, 1, v)
    BY <1>4, <1>8 DEF From
<1>10. auth_params(u, 2) = Yes(Len(u) + 1, acts)
    <2>1. ReadAs(u, 1, acts)
        BY <1>7, <1>9, Zenon
    <2>2. auth_params(u, 1 + 1) = Yes(Len(u) + 1, acts)
        BY <1>4, <2>1, Zenon DEF ReadAs
    <2>3. 1 + 1 = 2
        OBVIOUS
    <2> QED
        BY <2>2, <2>3, Zenon
<1>11. v # <<>>
    <2> SUFFICES ASSUME v = <<>>
                 PROVE  FALSE
        OBVIOUS
    <2>1. Len(v) = 0 /\ v \in Seq(Char)
        BY <1>4
    <2>2. From(v, 0, v)
        BY <2>1 DEF From
    <2>3. ReadAs(v, 0, acts) /\ ReadAs(v, 0, <<>>)
        <3>1. \A p : From(v, p, v) => ReadAs(v, p, <<>>)
            BY EndingNone, Zenon DEF Ending
        <3> QED
            BY <1>7, <2>2, <3>1
    <2> QED
        BY <1>4, <2>3 DEF ReadAs, Yes, No
<1> DEFINE N == Len(u) + 1
<1>12. /\ 1 \in 1 .. Len(u) + 1 /\ 1 < Len(u) /\ N \in 1 .. Len(u) + 1 /\ N > Len(u)
       /\ u[1] \notin Separators /\ u[2] \in Separators /\ u[1] \notin Blanks
    <2>1. Len(v) >= 1 /\ 1 \in 1 .. Len(v) /\ v[1] \in Separators
        BY <1>4, <1>7, <1>11 DEF MayFollow
    <2>2. u[1 + 1] = v[1] /\ 1 + 1 = 2
        BY <1>8, <2>1
    <2> QED
        BY <1>2, <1>8, <2>1, <2>2, Characters
<1>13. ws(u, 1) = 1
    BY <1>8, <1>12, WsIs
<1>14. token(u, 1) = Yes(2, d)
    <2>1. token(u, 1) = Yes(1 + 1, <<u[1]>>) /\ 1 + 1 = 2
        <3>1. 1 + 1 = 2
            OBVIOUS
        <3> QED
            BY <1>8, <1>12, <3>1, TokenIs
    <2> QED
        BY <1>8, <2>1 DEF d
<1> DEFINE first == Yes(N, s \o acts)
<1> HIDE DEF N
<1>15. \A at, w : Yes(at, w).ok = TRUE /\ Yes(at, w).at = at /\ Yes(at, w).val = w
    BY DEF Yes
<1>16. challenge_cred(u, 1) = first
    <2> DEFINE Scheme(name) ==
                   Then(auth_params(u, name.at), LAMBDA params :
                        Yes(params.at, Action("scheme", name.val, <<>>) \o params.val))
               R == Then(token(u, 1), Scheme)
               T == Then(token68(u, 1), LAMBDA text :
                         Yes(text.at, Action("base64", <<>>, text.val)))
    <2>1. challenge_cred(u, 1) = IF R.ok THEN R ELSE T
        BY Zenon DEF challenge_cred, Either
    <2>2. Action("scheme", d, <<>>) = s
        BY Zenon DEF Action, s, SchemeAction, d
    <2>3. R = first
        <3> DEFINE k == token(u, 1)
                   a == auth_params(u, k.at)
                   y == Yes(a.at, Action("scheme", k.val, <<>>) \o a.val)
        <3>1. R = IF k.ok THEN (IF a.ok THEN y ELSE No) ELSE No
            BY Zenon DEF Then
        <3>2. k.ok = TRUE /\ k.at = 2 /\ k.val = d
            BY <1>14 DEF Yes
        <3>3. a.ok = TRUE /\ a.at = N /\ a.val = acts
            <4>1. a = Yes(N, acts)
                BY <1>10, <3>2, Zenon DEF N
            <4>2. Yes(N, acts).ok = TRUE /\ Yes(N, acts).at = N /\ Yes(N, acts).val = acts
                BY <1>15, Zenon
            <4> HIDE DEF a
            <4> QED
                BY <4>1, <4>2, Zenon
        <3>4. y = first
            BY <2>2, <3>2, <3>3, Zenon
        <3> HIDE DEF k, a, y, first
        <3> QED
            BY <3>1, <3>2, <3>3, <3>4
    <2>4. R.ok = TRUE
        BY <1>15, <2>3, Zenon
    <2> HIDE DEF R, T, first
    <2> QED
        BY <2>1, <2>3, <2>4
<1>17. ws(u, N) = N /\ ~Is(u, N, Comma)
    BY <1>8, <1>12, WsIs DEF Is
<1>18. start(u) = first
    <2> DEFINE Second(one, comma) ==
                   Maybe(one, IF Is(u, comma, Comma) THEN challenge_cred(u, ws(u, comma + 1)) ELSE No)
               End(last) == IF ws(u, last.at) > Len(u) THEN last ELSE No
               c == challenge_cred(u, 1)
               both == Second(c, ws(u, c.at))
    <2>1. c.ok = TRUE /\ c.at = N /\ c = first
        BY <1>15, <1>16, Zenon
    <2>2. both = first
        <3>1. both = Maybe(c, No)
            BY <1>17, <2>1, Zenon
        <3>2. No.ok = FALSE
            BY DEF No
        <3> QED
            BY <2>1, <3>1, <3>2, Zenon DEF Maybe
    <2>3. start(u) = Then(Then(challenge_cred(u, ws(u, 1)),
                  LAMBDA one : Second(one, ws(u, one.at))), End)
        BY Zenon DEF start
    <2>4. start(u) = Then(both, End)
        <3>1. Then(c, LAMBDA one : Second(one, ws(u, one.at))) = both
            BY <2>1, Zenon DEF Then
        <3> QED
            BY <1>13, <2>3, <3>1, Zenon
    <2>5. both.ok = TRUE /\ both.at = N
        BY <1>15, <2>2, Zenon
    <2>6. Then(both, End) = End(both)
        BY <2>5, Zenon DEF Then
    <2>7. End(both) = both
        BY <1>12, <1>17, <2>5, Zenon
    <2> QED
        BY <2>2, <2>4, <2>6, <2>7, Zenon
<1>19. start(u).val = s \o acts
    <2>1. Yes(N, s \o acts).val = s \o acts
        BY <1>15, Zenon
    <2> QED
        BY <1>18, <2>1, Zenon
<1>20. Panics(s \o acts) = FALSE
    <2> DEFINE l == Cat(s, acts)
    <2>1. Len(s) = 1 /\ s[1] = SchemeAction /\ Len(acts) \in Nat
        <3>1. Len(acts) \in Nat
            BY <1>4
        <3>2. Len(<<SchemeAction>>) = 1 /\ <<SchemeAction>>[1] = SchemeAction
            OBVIOUS
        <3> QED
            BY <3>1, <3>2, Zenon DEF s
    <2>2. l \in Seq(Actions) /\ Len(l) = Len(s) + Len(acts)
          /\ \A i \in 1 .. Len(s) + Len(acts) : l[i] = IF i <= Len(s) THEN s[i] ELSE acts[i - Len(s)]
        BY <1>4, <1>5, CatIs
    <2> HIDE DEF l
    <2>3. Head(l) = SchemeAction /\ l # <<>>
        <3>1. 1 \in 1 .. Len(s) + Len(acts) /\ 1 <= Len(s)
            BY <2>1
        <3>2. l[1] = s[1]
            BY <2>2, <3>1
        <3>3. Len(l) # 0
            BY <2>1, <2>2
        <3>4. l # <<>>
            BY <2>2, <3>3
        <3>5. Head(l) = l[1]
            BY <2>2, <3>4
        <3> QED
            BY <2>1, <3>2, <3>4, <3>5, Zenon
    <2>4. SchemeAction.do # "base64"
        BY DEF SchemeAction
    <2>5. Panics(l) = FALSE
        BY <2>3, <2>4, Zenon DEF Panics
    <2> QED
        BY <2>5, Zenon DEF l, Cat
<1> QED
    BY <1>1, <1>19, <1>20, Zenon DEF Execute

-----------------------------------------------------------------------------
(* Challenges and credentials *)

LEMMA DigestedIs ==
    ASSUME NEW u, NEW P, Digested(u, P)
    PROVE  u \in Seq(Char)
<1>1. PICK v, acts : u = <<"Digest">> \o v /\ Adds(v, acts)
    BY Zenon DEF Digested
<1>2. v \in Seq(Char)
    BY <1>1, Zenon DEF Adds
<1>3. <<"Digest">> \in Seq(Char)
    <2>1. "Digest" \in Char
        BY Words
    <2> QED
        BY <2>1
<1> QED
    BY <1>1, <1>2, <1>3, CatJoins, Zenon DEF Cat

Plain == Char \ {Quote, Backslash}

LEMMA PlainParam ==
    ASSUME NEW key, NEW w \in Plain
    PROVE  /\ Param(key, escape(<<w>>)) = Param(key, <<w>>)
           /\ <<w>> \in Seq(Char)
<1>1. escape(<<w>>) = <<w>>
    <2>1. w \in Char /\ w \notin {Quote, Backslash}
        BY DEF Plain
    <2> QED
        BY <2>1, EscapeWord
<1>2. <<w>> \in Seq(Char)
    <2>1. w \in Char
        BY DEF Plain
    <2> QED
        BY <2>1
<1> QED
    BY <1>1, <1>2, Zenon

LEMMA DigestPlain ==
    ASSUME NEW u, NEW P, NEW sep \in Commas, NEW key \in Char \ Separators, NEW w \in Plain
    PROVE  Digested(u, P) =>
              /\ Digested((u \o sep) \o Param(key, <<w>>), With(P, key, <<w>>))
              /\ Digested(u \o (sep \o Param(key, <<w>>)), With(P, key, <<w>>))
<1> SUFFICES ASSUME Digested(u, P)
             PROVE  /\ Digested((u \o sep) \o Param(key, <<w>>), With(P, key, <<w>>))
                    /\ Digested(u \o (sep \o Param(key, <<w>>)), With(P, key, <<w>>))
    OBVIOUS
<1> DEFINE x == <<w>>
           r == Param(key, x)
<1>1. r = Param(key, escape(x)) /\ x \in Seq(Char)
    BY PlainParam
<1>2. u \in Seq(Char) /\ sep \in Seq(Char)
    BY DigestedIs, CommasIs
<1>3. r \in Seq(Char)
    <2>1. Param(key, escape(x)) \in Seq(Char)
        <3> HIDE DEF x
        <3> QED
            BY <1>1, ParamIs
    <2> QED
        BY <1>1, <2>1, Zenon
<1> HIDE DEF r, x
<1>4. Digested((u \o sep) \o Param(key, escape(x)), With(P, key, x))
    BY <1>1, DigestQuoted
<1>5. (u \o sep) \o r = u \o (sep \o r)
    BY <1>2, <1>3, CatJoins, Zenon DEF Cat
<1>6. Digested((u \o sep) \o r, With(P, key, x))
    BY <1>1, <1>4, Zenon
<1>7. Digested(u \o (sep \o r), With(P, key, x))
    BY <1>5, <1>6, Zenon
<1> QED
    BY <1>6, <1>7, Zenon DEF r, x

\* What is read of a challenge, for any realm.
LEMMA ChallengeReads ==
    ASSUME NEW c, c.realm \in Seq(Char), c.nonce \in Plain, c.opaque \in Plain, c.stale \in BOOLEAN
    PROVE  \E P : /\ Execute(start(ChallengeText(c)).val) = [panics |-> FALSE, methods |-> <<Method(P)>>]
                  /\ Get(P, "realm") = c.realm /\ Get(P, "nonce") = <<c.nonce>>
                  /\ Get(P, "opaque") = <<c.opaque>>
                  /\ Get(P, "stale") = IF c.stale THEN <<"true">> ELSE <<>>
                  /\ Get(P, "algorithm") = <<"MD5">> /\ Get(P, "qop") = <<"auth">>
<1> DEFINE sep == <<Comma, Space>>
           P1 == With(NoParams, "realm", c.realm)
           P2 == With(P1, "domain", <<"/">>)
           P3 == With(P2, "nonce", <<c.nonce>>)
           P4 == With(P3, "opaque", <<c.opaque>>)
           P5 == IF c.stale THEN With(P4, "stale", <<"true">>) ELSE P4
           P6 == With(P5, "algorithm", <<"MD5">>)
           P7 == With(P6, "qop", <<"auth">>)
           u1 == <<"Digest", Space>> \o Param("realm", escape(c.realm))
           u2 == (u1 \o sep) \o Param("domain", escape(<<"/">>))
           u3 == (u2 \o sep) \o Param("nonce", <<c.nonce>>)
           u4 == (u3 \o sep) \o Param("opaque", <<c.opaque>>)
           u5 == u4 \o (IF c.stale THEN sep \o Param("stale", <<"true">>) ELSE <<>>)
           u6 == (u5 \o sep) \o Param("algorithm", <<"MD5">>)
           u7 == (u6 \o sep) \o Param("qop", <<"auth">>)
<1>1. ChallengeText(c) = u7
    BY Zenon DEF ChallengeText
<1>2. sep \in Commas
    BY Zenon DEF Commas
<1>3. /\ \A w \in {"realm", "domain", "nonce", "opaque", "stale", "algorithm", "qop"} : w \in Char \ Separators
      /\ \A w \in {"/", "true", "MD5", "auth"} : w \in Plain
    BY Words, Zenon DEF Keys, Values, Plain
<1> HIDE DEF sep, P1, P2, P3, P4, P5, P6, P7, u1, u2, u3, u4, u5, u6, u7
<1>4. Digested(u1, P1)
    <2>1. "realm" \in Char \ Separators
        BY <1>3, Zenon
    <2>2. Digested(<<"Digest", Space>> \o Param("realm", escape(c.realm)), With(NoParams, "realm", c.realm))
        BY <2>1, DigestFirst, Zenon
    <2> QED
        BY <2>2, Zenon DEF u1, P1
<1>5. Digested(u2, P2)
    <2>1. "domain" \in Char \ Separators /\ "/" \in Plain
        BY <1>3, Zenon
    <2>2. Digested((u1 \o sep) \o Param("domain", <<"/">>), With(P1, "domain", <<"/">>))
        BY <1>2, <1>4, <2>1, DigestPlain, Zenon
    <2>3. Param("domain", escape(<<"/">>)) = Param("domain", <<"/">>)
        BY <2>1, PlainParam, Zenon
    <2> QED
        BY <2>2, <2>3, Zenon DEF u2, P2
<1>6. Digested(u3, P3)
    <2>1. "nonce" \in Char \ Separators
        BY <1>3, Zenon
    <2> QED
        BY <1>2, <1>5, <2>1, DigestPlain, Zenon DEF u3, P3
<1>7. Digested(u4, P4)
    <2>1. "opaque" \in Char \ Separators
        BY <1>3, Zenon
    <2> QED
        BY <1>2, <1>6, <2>1, DigestPlain, Zenon DEF u4, P4
<1>8. Digested(u5, P5)
    <2>1. "stale" \in Char \ Separators /\ "true" \in Plain
        BY <1>3, Zenon
    <2>2. CASE c.stale
        <3>1. Digested(u4 \o (sep \o Param("stale", <<"true">>)), With(P4, "stale", <<"true">>))
            BY <1>2, <1>7, <2>1, DigestPlain, Zenon
        <3> QED
            BY <2>2, <3>1, Zenon DEF u5, P5
    <2>3. CASE ~c.stale
        <3>1. u4 \in Seq(Char)
            BY <1>7, DigestedIs, Zenon
        <3>2. u4 \o <<>> = u4
            BY <3>1, ConcatEmptySeq
        <3> QED
            BY <1>7, <2>3, <3>2, Zenon DEF u5, P5
    <2> QED
        BY <2>2, <2>3
<1>9. Digested(u6, P6)
    <2>1. "algorithm" \in Char \ Separators /\ "MD5" \in Plain
        BY <1>3, Zenon
    <2> QED
        BY <1>2, <1>8, <2>1, DigestPlain, Zenon DEF u6, P6
<1>10. Digested(u7, P7)
    <2>1. "qop" \in Char \ Separators /\ "auth" \in Plain
        BY <1>3, Zenon
    <2> QED
        BY <1>2, <1>9, <2>1, DigestPlain, Zenon DEF u7, P7
<1>11. Execute(start(ChallengeText(c)).val) = [panics |-> FALSE, methods |-> <<Method(P7)>>]
    BY <1>1, <1>10, DigestReads, Zenon
<1>12. \A k : /\ k # "qop" => Get(P7, k) = Get(P6, k)
              /\ k # "algorithm" => Get(P6, k) = Get(P5, k)
              /\ k # "stale" => Get(P5, k) = Get(P4, k)
              /\ k # "opaque" => Get(P4, k) = Get(P3, k)
              /\ k # "nonce" => Get(P3, k) = Get(P2, k)
              /\ k # "domain" => Get(P2, k) = Get(P1, k)
              /\ k # "realm" => Get(P1, k) = <<>>
    <2>1. \A k : k # "qop" => Get(P7, k) = Get(P6, k)
        BY GetWith DEF P7
    <2>2. \A k : k # "algorithm" => Get(P6, k) = Get(P5, k)
        BY GetWith DEF P6
    <2>3. \A k : k # "stale" => Get(P5, k) = Get(P4, k)
        <3>1. \A k : k # "stale" => Get(With(P4, "stale", <<"true">>), k) = Get(P4, k)
            BY GetWith
        <3>2. P5 = With(P4, "stale", <<"true">>) \/ P5 = P4
            BY Zenon DEF P5
        <3> QED
            BY <3>1, <3>2, Zenon
    <2>4. \A k : k # "opaque" => Get(P4, k) = Get(P3, k)
        BY GetWith DEF P4
    <2>5. \A k : k # "nonce" => Get(P3, k) = Get(P2, k)
        BY GetWith DEF P3
    <2>6. \A k : k # "domain" => Get(P2, k) = Get(P1, k)
        BY GetWith DEF P2
    <2>7. \A k : k # "realm" => Get(P1, k) = <<>>
        BY GetWith, GetNone DEF P1
    <2> QED
        BY <2>1, <2>2, <2>3, <2>4, <2>5, <2>6, <2>7, Zenon
<1>13. /\ Get(P7, "qop") = <<"auth">> /\ Get(P6, "algorithm") = <<"MD5">>
       /\ Get(P4, "opaque") = <<c.opaque>> /\ Get(P3, "nonce") = <<c.nonce>>
       /\ Get(P1, "realm") = c.realm
       /\ c.stale => Get(P5, "stale") = <<"true">>
       /\ ~c.stale => P5 = P4
    <2>1. Get(P7, "qop") = <<"auth">>
        BY GetWith DEF P7
    <2>2. Get(P6, "algorithm") = <<"MD5">>
        BY GetWith DEF P6
    <2>3. Get(P4, "opaque") = <<c.opaque>>
        BY GetWith DEF P4
    <2>4. Get(P3, "nonce") = <<c.nonce>>
        BY GetWith DEF P3
    <2>5. Get(P1, "realm") = c.realm
        BY GetWith DEF P1
    <2>6. c.stale => Get(P5, "stale") = <<"true">>
        BY GetWith DEF P5
    <2>7. ~c.stale => P5 = P4
        BY Zenon DEF P5
    <2> QED
        BY <2>1, <2>2, <2>3, <2>4, <2>5, <2>6, <2>7, Zenon
<1>14. Get(P7, "realm") = c.realm
    <2>1. /\ "realm" # "qop" /\ "realm" # "algorithm" /\ "realm" # "stale" /\ "realm" # "opaque"
          /\ "realm" # "nonce" /\ "realm" # "domain"
        OBVIOUS
    <2> QED
        BY <1>12, <1>13, <2>1, Zenon
<1>15. Get(P7, "nonce") = <<c.nonce>>
    <2>1. "nonce" # "qop" /\ "nonce" # "algorithm" /\ "nonce" # "stale" /\ "nonce" # "opaque"
        OBVIOUS
    <2> QED
        BY <1>12, <1>13, <2>1, Zenon
<1>16. Get(P7, "opaque") = <<c.opaque>>
    <2>1. "opaque" # "qop" /\ "opaque" # "algorithm" /\ "opaque" # "stale"
        OBVIOUS
    <2> QED
        BY <1>12, <1>13, <2>1, Zenon
<1>17. Get(P7, "stale") = IF c.stale THEN <<"true">> ELSE <<>>
    <2>1. /\ "stale" # "qop" /\ "stale" # "algorithm" /\ "stale" # "opaque" /\ "stale" # "nonce"
          /\ "stale" # "domain" /\ "stale" # "realm"
        OBVIOUS
    <2>2. Get(P7, "stale") = Get(P5, "stale")
        BY <1>12, <2>1, Zenon
    <2>3. Get(P4, "stale") = <<>>
        BY <1>12, <2>1, Zenon
    <2> QED
        BY <1>13, <2>2, <2>3, Zenon
<1>18. Get(P7, "algorithm") = <<"MD5">>
    <2>1. "algorithm" # "qop"
        OBVIOUS
    <2> QED
        BY <1>12, <1>13, <2>1, Zenon
<1> QED
    BY <1>11, <1>13, <1>14, <1>15, <1>16, <1>17, <1>18, Zenon

\* Literals in one piece, and as predicates of their characters.
Five(a, b, x, y, z) == <<a, b>> \o <<x, y, z>> = <<a, b, x, y, z>>
Ten(a, b, x, y, z, d, e, f, g, h) ==
    <<a, b, x, y, z>> \o <<d, e, f, g, h>> = <<a, b, x, y, z, d, e, f, g, h>>

LEMMA SameText ==
    ASSUME NEW s \in Seq(Char), NEW t \in Seq(Char), Len(s) = Len(t), \A i \in 1 .. Len(s) : s[i] = t[i]
    PROVE  s = t
BY SeqEqual

LEMMA TwoJoinThree ==
    ASSUME NEW a \in Char, NEW b \in Char, NEW x \in Char, NEW y \in Char, NEW z \in Char
    PROVE  Five(a, b, x, y, z)
<1> DEFINE s == <<a, b>>
           t == <<x, y, z>>
           u == <<a, b, x, y, z>>
           w == Cat(s, t)
<1>1. s \in Seq(Char) /\ Len(s) = 2 /\ s[1] = a /\ s[2] = b
    OBVIOUS
<1>2. t \in Seq(Char) /\ Len(t) = 3 /\ t[1] = x /\ t[2] = y /\ t[3] = z
    OBVIOUS
<1>3. u \in Seq(Char) /\ Len(u) = 5 /\ u[1] = a /\ u[2] = b /\ u[3] = x /\ u[4] = y /\ u[5] = z
    OBVIOUS
<1> HIDE DEF s, t, u, w
<1>4. /\ w \in Seq(Char) /\ Len(w) = Len(s) + Len(t)
      /\ \A i \in 1 .. Len(s) + Len(t) : w[i] = IF i <= Len(s) THEN s[i] ELSE t[i - Len(s)]
    BY <1>1, <1>2, CatIs DEF w
<1>5. \A i \in 1 .. 5 : w[i] = IF i <= 2 THEN s[i] ELSE t[i - 2]
    BY <1>1, <1>2, <1>4
<1>6. w[1] = a /\ w[2] = b
    <2>1. 1 \in 1 .. 5 /\ 2 \in 1 .. 5
        OBVIOUS
    <2> QED
        BY <1>1, <1>5, <2>1
<1>7. w[3] = x /\ w[4] = y /\ w[5] = z
    <2>1. 3 \in 1 .. 5 /\ 4 \in 1 .. 5 /\ 5 \in 1 .. 5 /\ 3 - 2 = 1 /\ 4 - 2 = 2 /\ 5 - 2 = 3
        OBVIOUS
    <2> QED
        BY <1>2, <1>5, <2>1
<1>8. w = u
    <2>1. Len(w) = 5
        BY <1>1, <1>2, <1>4
    <2>2. \A i \in 1 .. 5 : w[i] = u[i]
        BY <1>3, <1>6, <1>7
    <2> QED
        BY <1>3, <1>4, <2>1, <2>2, SameText
<1> QED
    BY <1>8, Zenon DEF w, s, t, u, Cat, Five

LEMMA FiveJoinFive ==
    ASSUME NEW a \in Char, NEW b \in Char, NEW x \in Char, NEW y \in Char, NEW z \in Char,
           NEW d \in Char, NEW e \in Char, NEW f \in Char, NEW g \in Char, NEW h \in Char
    PROVE  Ten(a, b, x, y, z, d, e, f, g, h)
<1> DEFINE s == <<a, b, x, y, z>>
           t == <<d, e, f, g, h>>
           u == <<a, b, x, y, z, d, e, f, g, h>>
           w == Cat(s, t)
<1>1. s \in Seq(Char) /\ Len(s) = 5 /\ s[1] = a /\ s[2] = b /\ s[3] = x /\ s[4] = y /\ s[5] = z
    OBVIOUS
<1>2. t \in Seq(Char) /\ Len(t) = 5 /\ t[1] = d /\ t[2] = e /\ t[3] = f /\ t[4] = g /\ t[5] = h
    OBVIOUS
<1>3. /\ u \in Seq(Char) /\ Len(u) = 10 /\ u[1] = a /\ u[2] = b /\ u[3] = x /\ u[4] = y /\ u[5] = z
      /\ u[6] = d /\ u[7] = e /\ u[8] = f /\ u[9] = g /\ u[10] = h
    OBVIOUS
<1> HIDE DEF s, t, u, w
<1>4. /\ w \in Seq(Char) /\ Len(w) = Len(s) + Len(t)
      /\ \A i \in 1 .. Len(s) + Len(t) : w[i] = IF i <= Len(s) THEN s[i] ELSE t[i - Len(s)]
    BY <1>1, <1>2, CatIs DEF w
<1>5. \A i \in 1 .. 10 : w[i] = IF i <= 5 THEN s[i] ELSE t[i - 5]
    BY <1>1, <1>2, <1>4
<1>6. w[1] = a /\ w[2] = b /\ w[3] = x /\ w[4] = y /\ w[5] = z
    <2>1. 1 \in 1 .. 10 /\ 2 \in 1 .. 10 /\ 3 \in 1 .. 10 /\ 4 \in 1 .. 10 /\ 5 \in 1 .. 10
        OBVIOUS
    <2> QED
        BY <1>1, <1>5, <2>1
<1>7. w[6] = d /\ w[7] = e /\ w[8] = f /\ w[9] = g /\ w[10] = h
    <2>1. /\ 6 \in 1 .. 10 /\ 7 \in 1 .. 10 /\ 8 \in 1 .. 10 /\ 9 \in 1 .. 10 /\ 10 \in 1 .. 10
          /\ 6 - 5 = 1 /\ 7 - 5 = 2 /\ 8 - 5 = 3 /\ 9 - 5 = 4 /\ 10 - 5 = 5
        OBVIOUS
    <2> QED
        BY <1>2, <1>5, <2>1
<1>8. w = u
    <2>1. Len(w) = 10
        BY <1>1, <1>2, <1>4
    <2>2. \A i \in 1 .. 10 : w[i] = u[i]
        BY <1>3, <1>6, <1>7
    <2> QED
        BY <1>3, <1>4, <2>1, <2>2, SameText
<1> QED
    BY <1>8, Zenon DEF w, s, t, u, Cat, Ten

\* What is read of credentials.
LEMMA CredentialsReads ==
    ASSUME NEW n \in Plain, NEW o \in Plain, NEW u \in Plain, NEW p \in Plain
    PROVE  LET m == [nonce |-> <<n>>, opaque |-> <<o>>, username |-> <<u>>, response |-> <<p>>,
                     supported |-> TRUE]
           IN  \E P : /\ Execute(start(Credentials(n, o, u, p)).val)
                            = [panics |-> FALSE, methods |-> <<Method(P)>>]
                      /\ Digest(Method(P)) = m
<1> DEFINE sep == <<Comma, Space>>
           cm == <<Comma>>
           P1 == With(NoParams, "username", <<u>>)
           P2 == With(P1, "nonce", <<n>>)
           P3 == With(P2, "response", <<p>>)
           P4 == With(P3, "opaque", <<o>>)
           P5 == With(P4, "algorithm", <<"MD5">>)
           P6 == With(P5, "qop", <<"auth">>)
           wa == sep \o <<"algorithm", "=", "MD5">>
           wq == sep \o <<"qop", "=", "auth">>
           end == <<Comma, Space, "algorithm", "=", "MD5", Comma, Space, "qop", "=", "auth">>
           u1 == <<"Digest", Space>> \o Param("username", <<u>>)
           u2 == (u1 \o cm) \o Param("nonce", <<n>>)
           u3 == (u2 \o sep) \o Param("response", <<p>>)
           u4 == (u3 \o sep) \o Param("opaque", <<o>>)
           u5 == u4 \o wa
           u6 == u5 \o wq
<1>1. Credentials(n, o, u, p) = u4 \o end
    BY Zenon DEF Credentials
<1>2. sep \in Commas /\ cm \in Commas
    BY Zenon DEF Commas
<1>3. /\ \A w \in {"username", "nonce", "response", "opaque", "algorithm", "qop"} : w \in Char \ Separators
      /\ "MD5" \in Char \ Separators /\ "auth" \in Char \ Separators
    BY Words, Zenon DEF Keys
<1>4. end = wa \o wq /\ wa \in Seq(Char) /\ wq \in Seq(Char)
    <2>1. /\ Comma \in Char /\ Space \in Char /\ "=" \in Char /\ "algorithm" \in Char /\ "qop" \in Char
          /\ "MD5" \in Char /\ "auth" \in Char
        <3>1. Comma \in Char /\ Space \in Char /\ "=" \in Char
            BY Characters
        <3>2. "algorithm" \in Char /\ "qop" \in Char /\ "MD5" \in Char /\ "auth" \in Char
            BY <1>3, Zenon
        <3> QED
            BY <3>1, <3>2
    <2>2. wa = <<Comma, Space, "algorithm", "=", "MD5">>
        <3>1. Five(Comma, Space, "algorithm", "=", "MD5")
            BY <2>1, TwoJoinThree
        <3> QED
            BY <3>1, Zenon DEF Five
    <2>3. wq = <<Comma, Space, "qop", "=", "auth">>
        <3>1. Five(Comma, Space, "qop", "=", "auth")
            BY <2>1, TwoJoinThree
        <3> QED
            BY <3>1, Zenon DEF Five
    <2>4. <<Comma, Space, "algorithm", "=", "MD5">> \o <<Comma, Space, "qop", "=", "auth">> = end
        <3>1. Ten(Comma, Space, "algorithm", "=", "MD5", Comma, Space, "qop", "=", "auth")
            BY <2>1, FiveJoinFive
        <3> QED
            BY <3>1, Zenon DEF Ten
    <2>5. <<Comma, Space, "algorithm", "=", "MD5">> \in Seq(Char)
        BY <2>1
    <2>6. <<Comma, Space, "qop", "=", "auth">> \in Seq(Char)
        BY <2>1
    <2> HIDE DEF wa, wq, end
    <2> QED
        BY <2>2, <2>3, <2>4, <2>5, <2>6, Zenon
<1> HIDE DEF sep, cm, P1, P2, P3, P4, P5, P6, wa, wq, end, u1, u2, u3, u4, u5, u6
<1>5. Digested(u1, P1)
    <2>1. "username" \in Char \ Separators
        BY <1>3, Zenon
    <2>2. Param("username", escape(<<u>>)) = Param("username", <<u>>) /\ <<u>> \in Seq(Char)
        BY PlainParam
    <2>3. Digested(<<"Digest", Space>> \o Param("username", escape(<<u>>)), With(NoParams, "username", <<u>>))
        BY <2>1, <2>2, DigestFirst, Zenon
    <2> QED
        BY <2>2, <2>3, Zenon DEF u1, P1
<1>6. Digested(u2, P2)
    <2>1. "nonce" \in Char \ Separators
        BY <1>3, Zenon
    <2> QED
        BY <1>2, <1>5, <2>1, DigestPlain, Zenon DEF u2, P2
<1>7. Digested(u3, P3)
    <2>1. "response" \in Char \ Separators
        BY <1>3, Zenon
    <2> QED
        BY <1>2, <1>6, <2>1, DigestPlain, Zenon DEF u3, P3
<1>8. Digested(u4, P4)
    <2>1. "opaque" \in Char \ Separators
        BY <1>3, Zenon
    <2> QED
        BY <1>2, <1>7, <2>1, DigestPlain, Zenon DEF u4, P4
<1>9. Digested(u5, P5)
    <2>1. "algorithm" \in Char \ Separators
        BY <1>3, Zenon
    <2> QED
        BY <1>2, <1>3, <1>8, <2>1, DigestWord, Zenon DEF u5, wa, P5
<1>10. Digested(u6, P6)
    <2>1. "qop" \in Char \ Separators
        BY <1>3, Zenon
    <2> QED
        BY <1>2, <1>3, <1>9, <2>1, DigestWord, Zenon DEF u6, wq, P6
<1>11. Credentials(n, o, u, p) = u6
    <2>1. u4 \in Seq(Char)
        BY <1>8, DigestedIs, Zenon
    <2>2. (u4 \o wa) \o wq = u4 \o (wa \o wq)
        BY <1>4, <2>1, CatJoins, Zenon DEF Cat
    <2> QED
        BY <1>1, <1>4, <2>2, Zenon DEF u5, u6
<1>12. Execute(start(Credentials(n, o, u, p)).val) = [panics |-> FALSE, methods |-> <<Method(P6)>>]
    BY <1>10, <1>11, DigestReads, Zenon
<1>13. /\ Get(P6, "nonce") = <<n>> /\ Get(P6, "opaque") = <<o>> /\ Get(P6, "username") = <<u>>
       /\ Get(P6, "response") = <<p>> /\ Get(P6, "algorithm") = <<"MD5">> /\ Get(P6, "qop") = <<"auth">>
    <2>1. \A k : k # "qop" => Get(P6, k) = Get(P5, k)
        BY GetWith DEF P6
    <2>2. \A k : k # "algorithm" => Get(P5, k) = Get(P4, k)
        BY GetWith DEF P5
    <2>3. \A k : k # "opaque" => Get(P4, k) = Get(P3, k)
        BY GetWith DEF P4
    <2>4. \A k : k # "response" => Get(P3, k) = Get(P2, k)
        BY GetWith DEF P3
    <2>5. \A k : k # "nonce" => Get(P2, k) = Get(P1, k)
        BY GetWith DEF P2
    <2>6. Get(P6, "qop") = <<"auth">>
        BY GetWith DEF P6
    <2>7. Get(P5, "algorithm") = <<"MD5">>
        BY GetWith DEF P5
    <2>8. Get(P4, "opaque") = <<o>>
        BY GetWith DEF P4
    <2>9. Get(P3, "response") = <<p>>
        BY GetWith DEF P3
    <2>10. Get(P2, "nonce") = <<n>>
        BY GetWith DEF P2
    <2>11. Get(P1, "username") = <<u>>
        BY GetWith DEF P1
    <2> QED
        BY <2>1, <2>2, <2>3, <2>4, <2>5, <2>6, <2>7, <2>8, <2>9, <2>10, <2>11, Zenon
<1>14. Digest(Method(P6)) = [nonce |-> <<n>>, opaque |-> <<o>>, username |-> <<u>>,
                             response |-> <<p>>, supported |-> TRUE]
    <2>1. Method(P6).Name = <<"Digest">> /\ Method(P6).Params = P6
        BY DEF Method
    <2> QED
        BY <1>13, <2>1, Zenon DEF Digest
<1> QED
    BY <1>12, <1>14, Zenon

LEMMA StringsAreCharacters == STRING \ DOMAIN Utf8 \subseteq Char
BY Zenon DEF Char

LEMMA NonceWords ==
    ASSUME NEW n \in Range(Nonces)
    PROVE  n \in Plain /\ Opaque[n] \in Plain
<1>1. n \in STRING
    BY NoncesAssumption DEF Range
<1>2. Opaque[n] \in STRING /\ Opaque[n] \in Range(Opaque)
    BY NoncesAssumption DEF Range
<1>3. /\ n \notin {Quote, Backslash} /\ Opaque[n] \notin {Quote, Backslash}
      /\ n \notin DOMAIN Utf8 /\ Opaque[n] \notin DOMAIN Utf8
    BY <1>2, WordsAssumption, Zenon
<1> QED
    BY <1>1, <1>2, <1>3, StringsAreCharacters, Zenon DEF Plain

LEMMA CredentialWords ==
    /\ \A u \in {"guest", "member"} : u \in Plain
    /\ \A p \in {Password, "wrong"} : p \in Plain
<1>1. "guest" \in Plain /\ "member" \in Plain /\ "wrong" \in Plain
    BY Words, Zenon DEF Values, Plain
<1>2. Password \in Plain
    <2>1. Password \in STRING
        BY BasesAssumption, Zenon
    <2>2. Password \notin {Quote, Backslash} /\ Password \notin DOMAIN Utf8
        BY WordsAssumption, Zenon
    <2> QED
        BY <2>1, <2>2, StringsAreCharacters, Zenon DEF Plain
<1> QED
    BY <1>1, <1>2, Zenon

LEMMA MethodsReplaced ==
    ASSUME NEW a, NEW v, NEW w
    PROVE  [[panics |-> a, methods |-> v] EXCEPT !.methods = w] = [panics |-> a, methods |-> w]
OBVIOUS

\* The server reads what the client was asked to write.
LEMMA CredentialsRead ==
    \A n \in Range(Nonces), u \in {"guest", "member"}, p \in {Password, "wrong"} :
        getAuthParams[Credentials(n, Opaque[n], u, p)] =
            [panics |-> FALSE,
             methods |-> <<[nonce |-> <<n>>, opaque |-> <<Opaque[n]>>, username |-> <<u>>,
                            response |-> <<p>>, supported |-> TRUE]>>]
<1> SUFFICES ASSUME NEW n \in Range(Nonces), NEW u \in {"guest", "member"},
                    NEW p \in {Password, "wrong"}
             PROVE  getAuthParams[Credentials(n, Opaque[n], u, p)] =
                        [panics |-> FALSE,
                         methods |-> <<[nonce |-> <<n>>, opaque |-> <<Opaque[n]>>,
                                        username |-> <<u>>, response |-> <<p>>,
                                        supported |-> TRUE]>>]
    BY Zenon
<1> DEFINE o == Opaque[n]
           t == Credentials(n, o, u, p)
           m == [nonce |-> <<n>>, opaque |-> <<o>>, username |-> <<u>>, response |-> <<p>>,
                 supported |-> TRUE]
           read == Execute(start(t).val)
<1>1. t \in Texts
    BY DEF Texts
<1>2. n \in Plain /\ o \in Plain /\ u \in Plain /\ p \in Plain
    BY NonceWords, CredentialWords, Zenon
<1>3. PICK P : read = [panics |-> FALSE, methods |-> <<Method(P)>>] /\ Digest(Method(P)) = m
    BY <1>2, CredentialsReads, Zenon
<1>4. getAuthParams[t] = [read EXCEPT !.methods = [i \in DOMAIN @ |-> Digest(@[i])]]
    BY <1>1, Zenon DEF getAuthParams
<1> HIDE DEF t, m, read
<1>5. [read EXCEPT !.methods = [i \in DOMAIN @ |-> Digest(@[i])]]
        = [panics |-> FALSE, methods |-> <<m>>]
    <2> DEFINE x == Method(P)
    <2>1. [i \in DOMAIN <<x>> |-> Digest(<<x>>[i])] = <<Digest(x)>>
        <3> HIDE DEF x
        <3> QED
            OBVIOUS
    <2> HIDE DEF x
    <2>2. read = [panics |-> FALSE, methods |-> <<x>>] /\ Digest(x) = m
        BY <1>3 DEF x
    <2>3. <<Digest(x)>> = <<m>>
        BY <2>2, Zenon
    <2>4. read.methods = <<x>>
        BY <2>2
    <2>5. [i \in DOMAIN read.methods |-> Digest(read.methods[i])] = <<m>>
        BY <2>1, <2>3, <2>4, Zenon
    <2> DEFINE y == [i \in DOMAIN read.methods |-> Digest(read.methods[i])]
    <2>6. [read EXCEPT !.methods = y] = [panics |-> FALSE, methods |-> y]
        <3> HIDE DEF y
        <3>1. [[panics |-> FALSE, methods |-> <<x>>] EXCEPT !.methods = y]
                = [panics |-> FALSE, methods |-> y]
            BY MethodsReplaced
        <3>2. read = [panics |-> FALSE, methods |-> <<x>>]
            BY <2>2
        <3> QED
            BY <3>1, <3>2, Zenon
    <2> QED
        BY <2>5, <2>6, Zenon
<1> QED
    BY <1>4, <1>5, Zenon DEF t, m

(* What a step makes of a handler *)

Inv == BaseInv /\ ChallengesInv /\ HandlersInv

Good(b, time) == b.ch.process = restarts /\ b.ch.time + Validity > time

Knows(q) ==
    LET users == Auth(q.entry, q.basis.ch.domain).users
    IN  /\ <<q.basis.username>> \in DOMAIN users
        /\ users[<<q.basis.username>>] = <<q.basis.password>>

LEMMA ProvenIs ==
    ASSUME NEW q, NEW t
    PROVE  /\ q.basis = None => Proven(q, t) = CertNames(q)
           /\ q.basis # None =>
                Proven(q, t) = CertNames(q) \cup {n \in {q.basis.ch.domain} :
                                                    Good(q.basis, t) /\ Knows(q)}
BY DEF Proven, CertNames, Good, Knows

LEMMA DecidedOK ==
    ASSUME NEW g, g.pc = "issue", StaleOK(g),
           IF g.allow THEN Allowed(g) ELSE NotAllowed(g),
           g.auths = {} /\ g.offers = <<>> <=> authList[g.req.entry] = {}
    PROVE  HandlerOK(g)
BY DEF HandlerOK

\* The handler whose digests are done and that has weighed the names in W.
LEMMA Concluding ==
    ASSUME BaseInv, NEW h \in Handlers, ReqOK(h.req), h.offers = <<>>, ~h.allow,
           NEW W \in SUBSET Proven(h.req, h.now), Proven(h.req, clock) \subseteq W,
           Weighed(h, W), StaleOK(h)
    PROVE  HandlerOK(CheckAnonymous(h))
<1> DEFINE g == CheckAnonymous(h)
           V == W \cup {Anonymous}
<1>1. h.req \in Requested
    BY DEF ReqOK
<1>2. /\ g \in Handlers /\ g.req = h.req /\ g.now = h.now
      /\ g.methods = h.methods /\ g.offers = h.offers
      /\ g.pc = "issue" /\ g.auths = authList[h.req.entry]
      /\ g.allow = (h.allow \/ Perm(h.req, Anonymous) = "allow")
      /\ g.found = (h.found \/ Perm(h.req, Anonymous) # None) /\ g.stale = h.stale
    BY <1>1, AnonymousFacts
<1> HIDE DEF g
<1>3. StaleOK(g)
    BY <1>2 DEF StaleOK
<1>4. g.auths = {} /\ g.offers = <<>> <=> authList[g.req.entry] = {}
    BY <1>2
<1>5. CASE Perm(h.req, Anonymous) = "allow"
    <2>1. g.allow /\ g.found
        BY <1>2, <1>5, NamesAssumption
    <2>2. Allowed(g)
        BY <1>2, <1>5, <2>1 DEF Allowed
    <2> QED
        BY <1>2, <1>3, <1>4, <2>1, <2>2, DecidedOK DEF g
<1>6. CASE Perm(h.req, Anonymous) # "allow"
    <2>1. ~g.allow
        BY <1>2, <1>6
    <2>2. g.found = \E n \in V : Perm(g.req, n) # None
        BY <1>2 DEF Weighed
    <2>3. \A n \in V : Perm(g.req, n) # "allow"
        BY <1>2, <1>6 DEF Weighed
    <2>4. V \in SUBSET (Proven(g.req, g.now) \cup {Anonymous})
          /\ Proven(g.req, clock) \cup {Anonymous} \subseteq V
        BY <1>2
    <2> HIDE DEF V
    <2>5. NotAllowed(g)
        BY <2>2, <2>3, <2>4 DEF NotAllowed, Weighed
    <2> QED
        BY <1>2, <1>3, <1>4, <2>1, <2>5, DecidedOK DEF g
<1> QED
    BY <1>5, <1>6

\* A name that was proven allows.
LEMMA Allowing ==
    ASSUME NEW g \in Handlers, g.offers = <<>>, g.pc = "issue", g.allow, g.found, ~g.stale,
           g.auths = authList[g.req.entry],
           NEW n \in Proven(g.req, g.now), Perm(g.req, n) = "allow"
    PROVE  HandlerOK(g)
<1>1. Allowed(g)
    BY DEF Allowed
<1>2. StaleOK(g)
    BY DEF StaleOK
<1>3. g.auths = {} /\ g.offers = <<>> <=> authList[g.req.entry] = {}
    OBVIOUS
<1> QED
    BY <1>1, <1>2, <1>3 DEF HandlerOK

LEMMA NoHandlerFacts ==
    /\ NoHandler \in Handlers /\ NoHandler.pc = "idle" /\ NoHandler.now = 0
    /\ NoHandler.methods = <<>> /\ ~NoHandler.allow /\ ~NoHandler.found
    /\ ~NoHandler.stale /\ NoHandler.auths = {} /\ NoHandler.offers = <<>>
BY DEF NoHandler, Handlers

LEMMA IdleOK == HandlerOK(NoHandler)
BY NoHandlerFacts DEF HandlerOK

\* What the parser makes of a header that is sent.
LEMMA HeaderFacts ==
    ASSUME NEW q, ReqOK(q),
           q.basis # None => q.basis.ch.opaque = Opaque[q.basis.ch.nonce]
    PROVE  LET header == getAuthParams[q.header]
           IN  /\ header.methods \in Seq(Digests)
               /\ q.basis = None => header.methods \in Seq(Foreign)
               /\ q.basis # None => ~header.panics /\ header.methods = <<Answered(q.basis)>>
<1>1. CASE q.basis = None
    <2>1. getAuthParams[q.header].methods \in Seq(Foreign)
        BY <1>1, RequestsAssumption DEF ReqOK
    <2>2. Foreign \subseteq Digests
        BY DEF Foreign
    <2> QED
        BY <1>1, <2>1, <2>2, SeqMonotonic
<1>2. CASE q.basis # None
    <2> DEFINE b == q.basis
    <2>1. b \in Bases /\ b.ch.nonce \in Range(Nonces) /\ b.username \in {"guest", "member"}
          /\ b.password \in {Password, "wrong"}
        BY <1>2 DEF ReqOK, Requested, Bases, Challenges
    <2>2. q.header = Credentials(b.ch.nonce, Opaque[b.ch.nonce], b.username, b.password)
        BY <1>2 DEF ReqOK
    <2>3. getAuthParams[q.header] = [panics |-> FALSE, methods |-> <<Answered(b)>>]
        <3>1. getAuthParams[Credentials(b.ch.nonce, Opaque[b.ch.nonce], b.username, b.password)]
                = [panics |-> FALSE, methods |-> <<Answered(b)>>]
            <4> HIDE DEF b
            <4> QED
                BY <2>1, CredentialsRead, Zenon DEF Answered
        <3> QED
            BY <2>2, <3>1
    <2>4. Answered(b) \in Digests
        <3>1. Opaque[b.ch.nonce] \in STRING /\ b.ch.nonce \in STRING
            BY <2>1, NoncesAssumption DEF Range
        <3> HIDE DEF b
        <3>2. b.username \in STRING /\ b.password \in STRING
            BY <2>1, BasesAssumption
        <3> QED
            BY <3>1, <3>2 DEF Answered, Digests
    <2> HIDE DEF b
    <2>5. <<Answered(b)>> \in Seq(Digests)
        BY <2>4
    <2> QED
        BY <1>2, <2>3, <2>5 DEF b
<1> QED
    BY <1>1, <1>2

\* A step of checkRequest goes on with the same request.
Follows(h, g) ==
    /\ g \in Handlers /\ g.now \in {0, h.now} /\ g.offers = <<>>
    /\ g.pc # "idle" => g.req = h.req /\ h.pc # "idle"

LEMMA HandlerFacts ==
    ASSUME Inv, NEW c \in Clients, handler[c].pc # "idle"
    PROVE  LET h == handler[c]
           IN  /\ h \in Handlers /\ ReqOK(h.req) /\ h.req \in Requested
               /\ HandlerOK(h) /\ h.now \in Nat /\ h.now <= clock /\ clock \in Nat
               /\ h.req.basis # None =>
                    /\ h.req.basis \in Bases /\ ChallengeOK(h.req.basis.ch)
                    /\ h.req.basis.ch.opaque = Opaque[h.req.basis.ch.nonce]
<1>1. handler[c] \in Handlers /\ ReqOK(handler[c].req) /\ handler[c].now <= clock
    BY DEF Inv, BaseInv
<1>2. HandlerOK(handler[c])
    BY DEF Inv, HandlersInv
<1>3. handler[c].req.basis # None => ChallengeOK(handler[c].req.basis.ch)
    BY DEF Inv, ChallengesInv, Answering
<1>4. clock \in Nat
    BY TimeAssumption DEF Inv, BaseInv
<1>5. handler[c].now \in Nat
    BY <1>1 DEF Handlers
<1>6. handler[c].req \in Requested
    BY <1>1 DEF ReqOK
<1>7. handler[c].req.basis # None => handler[c].req.basis \in Bases
    BY <1>6 DEF Requested
<1> QED
    BY <1>1, <1>2, <1>3, <1>4, <1>5, <1>6, <1>7 DEF ChallengeOK

LEMMA FollowsNone == ASSUME NEW h PROVE Follows(h, NoHandler) /\ HandlerOK(NoHandler)
BY NoHandlerFacts, IdleOK DEF Follows

\* The handler whose certificates do not allow, with the methods of its header.
LEMMA ParsedOK ==
    ASSUME Inv, NEW f \in Handlers, ReqOK(f.req), f.offers = <<>>, ~f.allow, f.auths = {},
           f.pc = "digest", ~f.stale, Weighed(f, CertNames(f.req)), f.now <= clock,
           f.req.basis = None => f.methods \in Seq(Foreign),
           f.req.basis # None => f.methods = <<Answered(f.req.basis)>>
    PROVE  HandlerOK(Proceed(f)) /\ Follows(f, Proceed(f))
<1> DEFINE g == CheckAnonymous(f)
<1>1. CASE f.methods = <<>>
    <2>1. Proceed(f) = g
        BY <1>1 DEF Proceed
    <2>2. f.req.basis = None
        BY <1>1
    <2>3. Proven(f.req, f.now) = CertNames(f.req) /\ Proven(f.req, clock) = CertNames(f.req)
        BY <2>2, ProvenIs
    <2>4. StaleOK(f)
        BY DEF StaleOK
    <2>5. BaseInv /\ CertNames(f.req) \in SUBSET Proven(f.req, f.now)
        BY <2>3 DEF Inv
    <2>6. HandlerOK(g)
        BY <2>3, <2>4, <2>5, Concluding
    <2>7. g \in Handlers /\ g.req = f.req /\ g.now = f.now /\ g.offers = f.offers
        BY AnonymousFacts DEF ReqOK
    <2> HIDE DEF g
    <2> QED
        BY <2>1, <2>6, <2>7 DEF Follows
<1>2. CASE f.methods # <<>>
    <2>1. Proceed(f) = f
        BY <1>2 DEF Proceed
    <2>2. MethodsLeft(f) /\ StaleOK(f)
        BY <1>2 DEF MethodsLeft, StaleOK
    <2>3. HandlerOK(f)
        BY <2>2 DEF HandlerOK
    <2> QED
        BY <2>1, <2>3 DEF Follows
<1> QED
    BY <1>1, <1>2

LEMMA PurgeOutcome ==
    ASSUME Inv, NEW c \in Clients, Purge(c)
    PROVE  \E g \in Handlers : Set(c, g) /\ HandlerOK(g) /\ Follows(handler[c], g)
<1> DEFINE h == handler[c]
           d == [h EXCEPT !.pc = "digest"]
           k == CheckCertificates(d)
           header == getAuthParams[k.req.header]
           f == [k EXCEPT !.methods = header.methods]
<1>1. h.pc = "purge"
    BY DEF Purge
<1>2. \/ k.allow /\ Set(c, k)
      \/ ~k.allow /\ header.panics /\ Set(c, NoHandler)
      \/ ~k.allow /\ ~header.panics /\ Set(c, Proceed(f))
    <2>1. \E x \in {k} : LET head == getAuthParams[x.req.header]
                         IN  IF x.allow THEN Set(c, x)
                             ELSE IF head.panics THEN Set(c, NoHandler)
                             ELSE Set(c, Proceed([x EXCEPT !.methods = head.methods]))
        BY DEF Purge
    <2> HIDE DEF k
    <2> QED
        BY <2>1
<1>3. /\ h \in Handlers /\ ReqOK(h.req) /\ h.req \in Requested
      /\ h.now \in Nat /\ h.now <= clock /\ HandlerOK(h)
      /\ h.req.basis # None => h.req.basis.ch.opaque = Opaque[h.req.basis.ch.nonce]
    BY <1>1, HandlerFacts
<1>4. h.auths = {} /\ h.offers = <<>> /\ ~h.allow /\ ~h.stale
    BY <1>1, <1>3 DEF HandlerOK
<1> HIDE DEF h
<1>5. /\ d \in Handlers /\ d.pc = "digest" /\ d.req = h.req /\ d.now = h.now
      /\ d.auths = {} /\ d.offers = <<>> /\ ~d.allow /\ ~d.stale
    BY <1>3, <1>4 DEF Handlers
<1> HIDE DEF d
<1>6. /\ k \in Handlers /\ k.req = d.req /\ k.now = d.now
      /\ k.methods = d.methods /\ k.offers = d.offers /\ k.stale = d.stale
      /\ k.found = \E n \in CertNames(d.req) : Perm(d.req, n) # None
      /\ IF \E n \in CertNames(d.req) : Perm(d.req, n) = "allow"
         THEN k.pc = "issue" /\ k.auths = authList[d.req.entry] /\ k.allow
         ELSE k.pc = d.pc /\ k.auths = d.auths /\ k.allow = d.allow
    BY <1>3, <1>5, CertificatesFacts
<1> HIDE DEF k
<1>7. CASE k.allow
    <2>1. PICK n \in CertNames(d.req) : Perm(d.req, n) = "allow"
        BY <1>5, <1>6, <1>7
    <2>2. k.found
        BY <1>6, <2>1, NamesAssumption
    <2>3. n \in Proven(k.req, k.now)
        BY <1>6, <2>1, ProvenIs
    <2>4. k.pc = "issue" /\ k.auths = authList[k.req.entry] /\ k.offers = <<>> /\ ~k.stale
          /\ Perm(k.req, n) = "allow"
        BY <1>5, <1>6, <2>1
    <2>5. HandlerOK(k)
        BY <1>6, <1>7, <2>2, <2>3, <2>4, Allowing
    <2>6. Follows(h, k)
        BY <1>1, <1>5, <1>6, <2>4 DEF Follows, h
    <2> QED
        BY <1>2, <1>6, <1>7, <2>5, <2>6 DEF h
<1>8. CASE ~k.allow /\ ~header.panics
    <2>1. /\ header.methods \in Seq(Digests)
          /\ h.req.basis = None => header.methods \in Seq(Foreign)
          /\ h.req.basis # None => header.methods = <<Answered(h.req.basis)>>
        <3>1. header = getAuthParams[h.req.header]
            BY <1>5, <1>6
        <3> QED
            BY <1>3, <3>1, HeaderFacts
    <2> HIDE DEF header
    <2>2. /\ f \in Handlers /\ f.req = h.req /\ f.now = h.now /\ f.offers = <<>> /\ ~f.allow
          /\ f.auths = k.auths /\ f.pc = k.pc /\ ~f.stale /\ f.methods = header.methods
          /\ f.found = k.found
        BY <1>5, <1>6, <1>8, <2>1 DEF Handlers
    <2> HIDE DEF f
    <2>3. /\ ~\E n \in CertNames(d.req) : Perm(d.req, n) = "allow"
          /\ k.pc = "digest" /\ k.auths = {}
        BY <1>5, <1>6, <1>8
    <2>4. Weighed(f, CertNames(f.req))
        BY <1>5, <1>6, <2>2, <2>3 DEF Weighed
    <2>5. HandlerOK(Proceed(f)) /\ Follows(f, Proceed(f))
        BY <1>3, <2>1, <2>2, <2>3, <2>4, ParsedOK
    <2>6. Follows(h, Proceed(f))
        BY <1>1, <2>2, <2>5 DEF Follows, h
    <2> QED
        BY <1>2, <1>8, <2>5, <2>6 DEF Follows, h
<1>9. CASE ~k.allow /\ header.panics
    BY <1>2, <1>9, FollowsNone, NoHandlerFacts
<1> QED
    BY <1>7, <1>8, <1>9

LEMMA UsersFacts ==
    ASSUME NEW e, NEW n, NEW u, NEW p
    PROVE  getAuthCreds(e, n, u) # None /\ p = getAuthCreds(e, n, u)
               <=> u \in DOMAIN Auth(e, n).users /\ Auth(e, n).users[u] = p
<1> DEFINE users == Auth(e, n).users
<1>1. CASE <<e, n>> \in DOMAIN Rules
    <2>1. users = Rules[<<e, n>>].users
        BY <1>1 DEF Auth
    <2>2. \A v \in DOMAIN users : users[v] # None
        BY <1>1, <2>1, NamesAssumption
    <2> HIDE DEF users
    <2>3. getAuthCreds(e, n, u) = IF u \in DOMAIN users THEN users[u] ELSE None
        BY Zenon DEF getAuthCreds, users
    <2> QED
        BY <2>2, <2>3 DEF users
<1>2. CASE <<e, n>> \notin DOMAIN Rules
    <2>1. users = [v \in {} |-> None]
        BY <1>2 DEF Auth, NoRule
    <2> HIDE DEF users
    <2>2. DOMAIN users = {}
        BY <2>1
    <2>3. getAuthCreds(e, n, u) = IF u \in DOMAIN users THEN users[u] ELSE None
        BY Zenon DEF getAuthCreds, users
    <2> QED
        BY <2>2, <2>3 DEF users
<1> QED
    BY <1>1, <1>2

LEMMA ProceedIssued ==
    ASSUME NEW g, g.pc = "issue"
    PROVE  Proceed(g) = g
BY DEF Proceed

\* A method of a visitor's own header: its nonce was never generated.
LEMMA ForeignOutcome ==
    ASSUME Inv, NEW c \in Clients, CheckDigest(c), handler[c].req.basis = None
    PROVE  \E g \in Handlers : Set(c, g) /\ HandlerOK(g) /\ Follows(handler[c], g)
<1> DEFINE o == handler[c]
           h == [o EXCEPT !.methods = Tail(@)]
           s == [h EXCEPT !.stale = TRUE]
           m == Head(o.methods)
           key == IF Len(m.nonce) = 1 THEN m.nonce[1] ELSE None
<1>1. o.pc = "digest" /\ o.methods # <<>>
    BY DEF CheckDigest
<1>2. /\ o \in Handlers /\ ReqOK(o.req) /\ o.req \in Requested
      /\ o.now \in Nat /\ o.now <= clock /\ HandlerOK(o)
    BY <1>1, HandlerFacts
<1>3. /\ o.auths = {} /\ o.offers = <<>> /\ ~o.allow
      /\ o.methods \in Seq(Foreign) /\ Weighed(o, CertNames(o.req))
    BY <1>1, <1>2 DEF HandlerOK, MethodsLeft
<1>4. m \in Foreign /\ Tail(o.methods) \in Seq(Foreign)
    BY <1>1, <1>3, HeadTailProperties
<1>5. DOMAIN nonces \subseteq Range(Nonces)
    BY NoncesAssumption DEF Inv, BaseInv, Generated, Range
<1>6. m.supported => key \notin DOMAIN nonces
    BY <1>4, <1>5, NoncesAssumption DEF Foreign
<1>7. Set(c, Proceed(h)) \/ Set(c, Proceed(s))
    BY <1>6, Zenon DEF CheckDigest
<1> HIDE DEF o, m, key
<1>8. Tail(o.methods) \in Seq(Digests)
    <2>1. Foreign \subseteq Digests
        BY DEF Foreign
    <2> QED
        BY <1>4, <2>1, SeqMonotonic
<1>9. /\ h \in Handlers /\ h.req = o.req /\ h.now = o.now /\ h.offers = <<>> /\ ~h.allow
      /\ h.auths = {} /\ h.pc = "digest" /\ h.found = o.found
      /\ h.methods = Tail(o.methods)
    BY <1>1, <1>2, <1>3, <1>8 DEF Handlers
<1> HIDE DEF h
<1>10. /\ s \in Handlers /\ s.req = o.req /\ s.now = o.now /\ s.offers = <<>> /\ ~s.allow
       /\ s.auths = {} /\ s.pc = "digest" /\ s.found = o.found
       /\ s.methods = Tail(o.methods)
    BY <1>9 DEF Handlers
<1> HIDE DEF s
<1>11. ASSUME NEW f \in Handlers, f.req = o.req, f.now = o.now, f.offers = <<>>, ~f.allow,
              f.auths = {}, f.pc = "digest", f.found = o.found, f.methods = Tail(o.methods)
       PROVE  HandlerOK(Proceed(f)) /\ Follows(o, Proceed(f))
    <2>1. o.req.basis = None
        BY DEF o
    <2>2. Proven(f.req, f.now) = CertNames(f.req) /\ Proven(f.req, clock) = CertNames(f.req)
        BY <1>11, <2>1, ProvenIs
    <2>3. Weighed(f, CertNames(f.req)) /\ StaleOK(f)
        BY <1>3, <1>11, <2>1 DEF Weighed, StaleOK
    <2>4. CASE f.methods = <<>>
        <3>1. Proceed(f) = CheckAnonymous(f)
            BY <1>11, <2>4 DEF Proceed
        <3>2. HandlerOK(CheckAnonymous(f))
            BY <1>2, <1>11, <2>2, <2>3, Concluding DEF Inv
        <3>3. LET g == CheckAnonymous(f)
              IN  g \in Handlers /\ g.req = f.req /\ g.now = f.now /\ g.offers = f.offers
            BY <1>2, <1>11, AnonymousFacts
        <3> QED
            BY <1>1, <1>11, <3>1, <3>2, <3>3 DEF Follows
    <2>5. CASE f.methods # <<>>
        <3>1. Proceed(f) = f
            BY <2>5 DEF Proceed
        <3>2. MethodsLeft(f)
            BY <1>4, <1>11, <2>1, <2>5 DEF MethodsLeft
        <3>3. HandlerOK(f)
            BY <1>11, <2>3, <3>2 DEF HandlerOK
        <3> QED
            BY <1>1, <1>11, <3>1, <3>3 DEF Follows
    <2> QED
        BY <2>4, <2>5
<1>12. HandlerOK(Proceed(h)) /\ Follows(o, Proceed(h))
    BY <1>9, <1>11
<1>13. HandlerOK(Proceed(s)) /\ Follows(o, Proceed(s))
    BY <1>10, <1>11
<1> QED
    BY <1>7, <1>12, <1>13 DEF Follows, o

LEMMA KnowsIs ==
    ASSUME NEW q
    PROVE  LET b == q.basis
               creds == getAuthCreds(q.entry, b.ch.domain, <<b.username>>)
           IN  creds # None /\ <<b.password>> = creds <=> Knows(q)
<1> DEFINE e == q.entry
           n == q.basis.ch.domain
           u == <<q.basis.username>>
           p == <<q.basis.password>>
<1>1. Knows(q) <=> u \in DOMAIN Auth(e, n).users /\ Auth(e, n).users[u] = p
    BY DEF Knows
<1> HIDE DEF e, n, u, p
<1>2. getAuthCreds(e, n, u) # None /\ p = getAuthCreds(e, n, u)
         <=> u \in DOMAIN Auth(e, n).users /\ Auth(e, n).users[u] = p
    BY UsersFacts
<1> QED
    BY <1>1, <1>2 DEF e, n, u, p

\* The credentials of a reply: its challenge is good exactly if the nonce is
\* in the map and valid, unless the time has come since the handler began.
LEMMA AnsweredOutcome ==
    ASSUME Inv, NEW c \in Clients, CheckDigest(c), handler[c].req.basis # None
    PROVE  \E g \in Handlers : Set(c, g) /\ HandlerOK(g) /\ Follows(handler[c], g)
<1> DEFINE o == handler[c]
           q == o.req
           b == q.basis
           key == b.ch.nonce
           valid == key \in DOMAIN nonces /\ Valid(nonces[key], o.now)
           h == [o EXCEPT !.methods = Tail(@)]
           s == [h EXCEPT !.stale = TRUE]
           w == Weigh(h, b.ch.domain)
<1>1. o.pc = "digest" /\ o.methods # <<>>
    BY DEF CheckDigest
<1>2. /\ o \in Handlers /\ ReqOK(q) /\ q \in Requested
      /\ o.now \in Nat /\ o.now <= clock /\ clock \in Nat /\ HandlerOK(o)
      /\ b \in Bases /\ ChallengeOK(b.ch)
    BY <1>1, HandlerFacts
<1>3. /\ o.auths = {} /\ o.offers = <<>> /\ ~o.allow /\ StaleOK(o)
      /\ o.methods = <<Answered(b)>> /\ Weighed(o, CertNames(q))
    BY <1>1, <1>2 DEF HandlerOK, MethodsLeft
<1>4. Head(o.methods) = Answered(b) /\ Tail(o.methods) = <<>>
    BY <1>3
<1>5. Len(<<key>>) = 1 /\ <<key>>[1] = key
    OBVIOUS
<1>6. LET m == Answered(b)
      IN  /\ m.nonce = <<key>> /\ m.opaque = <<Opaque[key]>> /\ m.supported
          /\ m.username = <<b.username>> /\ m.response = <<b.password>>
    BY DEF Answered
<1>7. key \in DOMAIN nonces =>
         /\ b.ch.process = restarts /\ nonces[key].time = b.ch.time
         /\ nonces[key].domain = b.ch.domain /\ nonces[key].opaque = Opaque[key]
    BY <1>2 DEF ChallengeOK, Inv, BaseInv
<1>8. valid <=> key \in DOMAIN nonces /\ Good(b, o.now)
    BY <1>7 DEF Valid, Good
<1>9. /\ ~valid => Set(c, Proceed(s))
      /\ valid => IF Knows(q) THEN Set(c, Proceed(w)) ELSE Set(c, Proceed(h))
    <2> DEFINE m == Head(o.methods)
               k == IF Len(m.nonce) = 1 THEN m.nonce[1] ELSE None
               name == nonces[k].domain
               creds == getAuthCreds(q.entry, name, m.username)
    <2>1. k = key
        BY <1>4, <1>5, <1>6
    <2>2. IF ~m.supported THEN Set(c, Proceed(h))
          ELSE IF ~(k \in DOMAIN nonces /\ Valid(nonces[k], o.now)) THEN Set(c, Proceed(s))
          ELSE IF m.opaque = <<nonces[k].opaque>> /\ creds # None /\ m.response = creds
          THEN Set(c, Proceed(Weigh(h, name))) ELSE Set(c, Proceed(h))
        <3>1. h.req = q /\ h.now = o.now
            BY <1>2 DEF Handlers
        <3> DEFINE pw == getAuthCreds(h.req.entry, name, m.username)
        <3>2. IF ~m.supported THEN Set(c, Proceed(h)) /\ UNCHANGED nonces
              ELSE IF ~(k \in DOMAIN nonces /\ Valid(nonces[k], h.now))
              THEN /\ Set(c, Proceed(s))
                   /\ nonces' = Restrict(nonces, DOMAIN nonces \ {k})
              ELSE /\ IF m.opaque = <<nonces[k].opaque>> /\ pw # None /\ m.response = pw
                      THEN Set(c, Proceed(Weigh(h, name)))
                      ELSE Set(c, Proceed(h))
                   /\ UNCHANGED nonces
            BY Zenon DEF CheckDigest
        <3>3. pw = creds
            BY <3>1
        <3> HIDE DEF m, k, h, s, name, creds, pw, o
        <3> QED
            BY <3>1, <3>2, <3>3
    <2>3. m.supported /\ m.opaque = <<Opaque[key]>> /\ m.username = <<b.username>>
          /\ m.response = <<b.password>>
        BY <1>4, <1>6
    <2> HIDE DEF m, k, h, s, valid
    <2>4. ~valid => Set(c, Proceed(s))
        BY <2>1, <2>2, <2>3 DEF valid
    <2>5. ASSUME valid
          PROVE  IF Knows(q) THEN Set(c, Proceed(w)) ELSE Set(c, Proceed(h))
        <3>1. name = b.ch.domain /\ <<nonces[k].opaque>> = m.opaque
            BY <1>7, <2>1, <2>3, <2>5 DEF valid
        <3>2. creds # None /\ m.response = creds <=> Knows(q)
            <4>1. creds = getAuthCreds(q.entry, b.ch.domain, <<b.username>>)
                BY <2>3, <3>1
            <4> QED
                BY <2>3, <4>1, KnowsIs
        <3> QED
            BY <2>1, <2>2, <2>3, <2>5, <3>1, <3>2 DEF valid
    <2> QED
        BY <2>4, <2>5
<1> HIDE DEF o, key, valid
<1>10. /\ h \in Handlers /\ h.req = q /\ h.now = o.now /\ h.offers = <<>> /\ ~h.allow
       /\ h.auths = {} /\ h.pc = "digest" /\ h.found = o.found /\ h.methods = <<>>
       /\ h.stale = o.stale
    <2>1. <<>> \in Seq(Digests)
        OBVIOUS
    <2> QED
        BY <1>1, <1>2, <1>3, <1>4, <2>1 DEF Handlers
<1> HIDE DEF h
<1>11. /\ s \in Handlers /\ s.req = q /\ s.now = o.now /\ s.offers = <<>> /\ ~s.allow
       /\ s.auths = {} /\ s.pc = "digest" /\ s.found = o.found /\ s.methods = <<>>
    BY <1>10 DEF Handlers
<1> HIDE DEF s
<1>12. b.ch.domain \in Range(Names)
    BY <1>2 DEF Bases, Challenges, Domains
<1>13. /\ w \in Handlers /\ w.req = q /\ w.now = o.now /\ w.methods = <<>> /\ w.offers = <<>>
       /\ IF Perm(q, b.ch.domain) = "allow"
          THEN w.pc = "issue" /\ w.auths = authList[q.entry] /\ w.allow /\ w.found /\ ~w.stale
          ELSE /\ w.pc = "digest" /\ w.auths = {} /\ ~w.allow
               /\ w.found = (o.found \/ Perm(q, b.ch.domain) # None) /\ w.stale = o.stale
    BY <1>2, <1>10, <1>12, WeighFacts
<1> HIDE DEF w
<1>14. b # None
    BY DEF o
<1>15. /\ Proven(q, o.now) = CertNames(q) \cup
              {n \in {b.ch.domain} : Good(b, o.now) /\ Knows(q)}
       /\ Proven(q, clock) = CertNames(q) \cup
              {n \in {b.ch.domain} : Good(b, clock) /\ Knows(q)}
    BY <1>14, ProvenIs
<1>16. b.ch.time \in Nat /\ b.ch.process \in Nat
    BY <1>2 DEF Bases, Challenges
<1>17. Good(b, clock) => Good(b, o.now)
    BY <1>2, <1>16, TimeAssumption DEF Good
<1>18. Good(b, clock) => valid
    BY <1>2, <1>8, <1>17 DEF ChallengeOK, Good, key
<1>19. ASSUME NEW f \in Handlers, f.req = q, f.now = o.now, f.offers = <<>>, ~f.allow,
              f.pc = "digest", f.methods = <<>>, StaleOK(f),
              NEW W \in SUBSET Proven(q, o.now), Proven(q, clock) \subseteq W, Weighed(f, W)
       PROVE  HandlerOK(Proceed(f)) /\ Follows(o, Proceed(f))
    <2>1. Proceed(f) = CheckAnonymous(f)
        BY <1>19 DEF Proceed
    <2>2. HandlerOK(CheckAnonymous(f))
        BY <1>2, <1>19, Concluding DEF Inv
    <2>3. LET g == CheckAnonymous(f)
          IN  g \in Handlers /\ g.req = f.req /\ g.now = f.now /\ g.offers = f.offers
        BY <1>2, <1>19, AnonymousFacts
    <2> QED
        BY <1>1, <1>19, <2>1, <2>2, <2>3 DEF Follows
<1>20. CASE ~valid
    <2>1. ~Good(b, clock)
        BY <1>18, <1>20
    <2>2. StaleOK(s)
        BY <1>2, <1>11, <1>16, <2>1, TimeAssumption, SMTT(30) DEF StaleOK, Good, Inv, BaseInv
    <2>3. Proven(q, clock) = CertNames(q) /\ CertNames(q) \in SUBSET Proven(q, o.now)
        BY <1>15, <2>1
    <2>4. Weighed(s, CertNames(q))
        BY <1>3, <1>11 DEF Weighed
    <2>5. HandlerOK(Proceed(s)) /\ Follows(o, Proceed(s))
        BY <1>11, <1>19, <2>2, <2>3, <2>4
    <2> QED
        BY <1>9, <1>20, <2>5 DEF Follows, o
<1>21. CASE valid /\ ~Knows(q)
    <2>1. Proven(q, clock) = CertNames(q) /\ CertNames(q) \in SUBSET Proven(q, o.now)
        BY <1>15, <1>21
    <2>2. Weighed(h, CertNames(q)) /\ StaleOK(h)
        BY <1>3, <1>10 DEF Weighed, StaleOK
    <2>3. HandlerOK(Proceed(h)) /\ Follows(o, Proceed(h))
        BY <1>10, <1>19, <2>1, <2>2
    <2> QED
        BY <1>9, <1>21, <2>3 DEF Follows, o
<1>22. CASE valid /\ Knows(q)
    <2>1. b.ch.domain \in Proven(q, o.now) /\ Good(b, o.now)
        BY <1>8, <1>15, <1>22
    <2>2. CASE Perm(q, b.ch.domain) = "allow"
        <3>1. w.pc = "issue" /\ w.auths = authList[q.entry] /\ w.allow /\ w.found /\ ~w.stale
            BY <1>13, <2>2
        <3>2. HandlerOK(w)
            BY <1>13, <2>1, <2>2, <3>1, Allowing
        <3>3. Proceed(w) = w
            BY <3>1, ProceedIssued
        <3>4. Follows(o, w)
            BY <1>1, <1>13 DEF Follows
        <3> QED
            BY <1>9, <1>22, <3>2, <3>3, <3>4 DEF Follows, o
    <2>3. CASE Perm(q, b.ch.domain) # "allow"
        <3> DEFINE W == CertNames(q) \cup {b.ch.domain}
        <3>1. /\ w.pc = "digest" /\ ~w.allow /\ w.stale = o.stale
              /\ w.found = (o.found \/ Perm(q, b.ch.domain) # None)
            BY <1>13, <2>3
        <3>2. Weighed(w, W)
            BY <1>3, <1>13, <2>3, <3>1 DEF Weighed
        <3>3. StaleOK(w)
            BY <1>3, <1>13, <3>1 DEF StaleOK
        <3>4. W \in SUBSET Proven(q, o.now) /\ Proven(q, clock) \subseteq W
            BY <1>15, <2>1
        <3> HIDE DEF W
        <3>5. HandlerOK(Proceed(w)) /\ Follows(o, Proceed(w))
            BY <1>13, <1>19, <3>1, <3>2, <3>3, <3>4
        <3> QED
            BY <1>9, <1>22, <3>5 DEF Follows, o
    <2> QED
        BY <2>2, <2>3
<1> QED
    BY <1>20, <1>21, <1>22

LEMMA DigestOutcome ==
    ASSUME Inv, NEW c \in Clients, CheckDigest(c)
    PROVE  \E g \in Handlers : Set(c, g) /\ HandlerOK(g) /\ Follows(handler[c], g)
BY ForeignOutcome, AnsweredOutcome

(* The steps keep the invariant *)

LEMMA SetFacts ==
    ASSUME BaseInv, NEW c \in Clients, NEW g \in Handlers, Set(c, g)
    PROVE  /\ handler' \in [Clients -> Handlers] /\ handler'[c] = g
           /\ \A d \in Clients \ {c} : handler'[d] = handler[d]
BY DEF BaseInv, Set

LEMMA SameProven ==
    ASSUME UNCHANGED restarts
    PROVE  \A q, t : Proven(q, t)' = Proven(q, t)
BY DEF Proven

\* What a handler has found out depends on the clock and the process only.
LEMMA SameOK ==
    ASSUME UNCHANGED <<clock, restarts>>
    PROVE  \A h : HandlerOK(h) => HandlerOK(h)'
<1> SUFFICES ASSUME NEW h, HandlerOK(h)
             PROVE  HandlerOK(h)'
    OBVIOUS
<1>1. \A q, t : Proven(q, t)' = Proven(q, t)
    BY SameProven
<1>2. Allowed(h)' <=> Allowed(h)
    BY <1>1 DEF Allowed
<1>3. NotAllowed(h)' <=> NotAllowed(h)
    BY <1>1 DEF NotAllowed
<1>4. StaleOK(h)' <=> StaleOK(h)
    BY DEF StaleOK
<1> QED
    BY <1>2, <1>3, <1>4 DEF HandlerOK

\* Time only takes proofs away, and makes nonces stale.
LEMMA LaterOK ==
    ASSUME Inv, UNCHANGED restarts, clock' = clock + 1,
           NEW c \in Clients
    PROVE  HandlerOK(handler[c])'
              \/ handler'[c] # handler[c]
<1> SUFFICES ASSUME handler'[c] = handler[c]
             PROVE  HandlerOK(handler[c])'
    OBVIOUS
<1> DEFINE h == handler[c]
<1>1. HandlerOK(h) /\ clock \in Nat /\ h \in Handlers
    BY TimeAssumption DEF Inv, HandlersInv, BaseInv
<1>2. \A q, t : Proven(q, t)' = Proven(q, t)
    BY SameProven
<1>3. h.pc # "idle" /\ h.req.basis # None =>
        h.req.basis.ch.time \in Nat /\ h.req.basis.ch.process \in Nat
    BY HandlerFacts DEF Bases, Challenges
<1>4. h.pc # "idle" => (StaleOK(h) => StaleOK(h)')
    BY <1>1, <1>3, TimeAssumption DEF StaleOK
<1>5. h.pc # "idle" => Proven(h.req, clock + 1) \subseteq Proven(h.req, clock)
    <2>1. h.pc # "idle" /\ h.req.basis # None =>
            (Good(h.req.basis, clock + 1) => Good(h.req.basis, clock))
        BY <1>1, <1>3, TimeAssumption DEF Good
    <2> QED
        BY <2>1, ProvenIs
<1>6. Allowed(h) => Allowed(h)'
    BY <1>2 DEF Allowed
<1>7. h.pc # "idle" => (NotAllowed(h) => NotAllowed(h)')
    <2> SUFFICES ASSUME h.pc # "idle", NotAllowed(h)
                 PROVE  NotAllowed(h)'
        OBVIOUS
    <2>1. PICK W \in SUBSET (Proven(h.req, h.now) \cup {Anonymous}) :
             Proven(h.req, clock) \cup {Anonymous} \subseteq W /\ Weighed(h, W)
        BY DEF NotAllowed
    <2>2. /\ W \in SUBSET (Proven(h.req, h.now)' \cup {Anonymous})
          /\ Proven(h.req, clock)' \cup {Anonymous} \subseteq W
        BY <1>2, <1>5, <2>1
    <2>3. Weighed(h, W)'
        BY <2>1 DEF Weighed
    <2> QED
        BY <2>2, <2>3 DEF NotAllowed
<1> QED
    BY <1>1, <1>4, <1>6, <1>7 DEF HandlerOK

\* Nonces go when they have expired, and new ones have keys of their own.
LEMMA ChallengeStep ==
    ASSUME Inv, NEW ch \in Challenges, ChallengeOK(ch),
           clock' \in {clock, clock + 1}, generated' \in {generated, generated + 1},
           UNCHANGED restarts,
           \A n \in Generated : n \in DOMAIN nonces' =>
                n \in DOMAIN nonces /\ nonces'[n] = nonces[n],
           \A n \in DOMAIN nonces \ DOMAIN nonces' : nonces[n].time + Validity <= clock'
    PROVE  ChallengeOK(ch)'
<1>1. clock \in Nat /\ restarts \in Nat /\ generated \in Nat
    BY TimeAssumption, BoundsAssumption DEF Inv, BaseInv
<1>2. ch.time \in Nat /\ ch.process \in Nat
    BY DEF Challenges
<1>3. ch.nonce \in Generated /\ ch.nonce \in Generated'
    BY <1>1 DEF ChallengeOK, Generated
<1>4. ch.nonce \in DOMAIN nonces' =>
         /\ ch.process = restarts
         /\ nonces'[ch.nonce].time = ch.time /\ nonces'[ch.nonce].domain = ch.domain
    BY <1>3 DEF ChallengeOK
<1>5. ch.process = restarts /\ ch.time + Validity > clock' => ch.nonce \in DOMAIN nonces'
    <2> SUFFICES ASSUME ch.process = restarts, ch.time + Validity > clock',
                        ch.nonce \notin DOMAIN nonces'
                 PROVE  FALSE
        OBVIOUS
    <2>1. ch.time + Validity > clock
        BY <1>1, <1>2, TimeAssumption
    <2>2. ch.nonce \in DOMAIN nonces /\ nonces[ch.nonce].time = ch.time
        BY <2>1 DEF ChallengeOK
    <2>3. ch.time + Validity <= clock'
        BY <2>2
    <2> QED
        BY <1>1, <1>2, <2>3, TimeAssumption
<1> QED
    BY <1>3, <1>4, <1>5 DEF ChallengeOK

LEMMA HeldChallenges ==
    ASSUME Inv, NEW c \in Clients
    PROVE  /\ \A i \in DOMAIN handler[c].offers : handler[c].offers[i] \in Challenges
           /\ \A i \in DOMAIN answer[c].challenges : answer[c].challenges[i] \in Challenges
           /\ Answering(c) => handler[c].req.basis.ch \in Challenges
<1>1. handler[c].offers \in Seq(Challenges) /\ answer[c].challenges \in Seq(Challenges)
    BY DEF Inv, BaseInv, Handlers, Answers
<1>2. Answering(c) => handler[c].req.basis.ch \in Challenges
    BY HandlerFacts DEF Answering, Bases
<1> QED
    BY <1>1, <1>2

LEMMA CheckingStep ==
    ASSUME Inv, NEW c \in Clients, NEW g \in Handlers, Set(c, g), HandlerOK(g),
           Follows(handler[c], g), Keep, UNCHANGED <<generated, answer>>,
           NEW S \in SUBSET DOMAIN nonces, nonces' = Restrict(nonces, S),
           \A n \in DOMAIN nonces \ S : nonces[n].time + Validity <= clock
    PROVE  Inv'
<1>1. clock' = clock /\ restarts' = restarts /\ visits' = visits
    BY DEF Keep
<1>2. /\ handler' \in [Clients -> Handlers] /\ handler'[c] = g
      /\ \A d \in Clients \ {c} : handler'[d] = handler[d]
    BY SetFacts DEF Inv
<1>3. DOMAIN nonces' = S /\ \A n \in S : nonces'[n] = nonces[n]
    BY DEF Restrict
<1>4. clock \in Nat
    BY TimeAssumption DEF Inv, BaseInv
<1>5. g.now <= clock /\ (g.pc # "idle" => ReqOK(g.req))
    BY <1>4, HandlerFacts DEF Follows, Inv, BaseInv
<1>6. nonces' \in [DOMAIN nonces' -> Stored]
    BY <1>3 DEF Restrict, Inv, BaseInv
<1>7. Generated' = Generated
    BY DEF Generated
<1>8. BaseInv'
    <2>1. \A d \in Clients : handler'[d].now <= clock
                             /\ (handler'[d].pc # "idle" => ReqOK(handler'[d].req))
        BY <1>2, <1>5 DEF Inv, BaseInv
    <2>2. \A n \in DOMAIN nonces' : nonces'[n].time <= clock /\ nonces'[n].opaque = Opaque[n]
        BY <1>3 DEF Inv, BaseInv
    <2> QED
        BY <1>1, <1>2, <1>3, <1>6, <1>7, <2>1, <2>2 DEF Inv, BaseInv
<1>9. \A ch \in Challenges : ChallengeOK(ch) => ChallengeOK(ch)'
    BY <1>1, <1>3, ChallengeStep
<1>10. ChallengesInv'
    <2> SUFFICES ASSUME NEW d \in Clients
                 PROVE  /\ \A i \in DOMAIN handler'[d].offers : ChallengeOK(handler[d].offers[i])'
                        /\ \A i \in DOMAIN answer'[d].challenges :
                              ChallengeOK(answer[d].challenges[i])'
                        /\ Answering(d)' => ChallengeOK(handler[d].req.basis.ch)'
        BY DEF ChallengesInv
    <2>1. answer'[d] = answer[d]
        OBVIOUS
    <2>2. \A i \in DOMAIN answer'[d].challenges : ChallengeOK(answer[d].challenges[i])'
        BY <1>9, <2>1, HeldChallenges DEF Inv, ChallengesInv
    <2>3. CASE d = c
        <3>1. handler'[d].offers = <<>>
            BY <1>2, <2>3 DEF Follows
        <3>2. Answering(d)' => Answering(d) /\ handler'[d].req = handler[d].req
            BY <1>2, <2>3 DEF Follows, Answering
        <3> QED
            BY <1>9, <2>2, <3>1, <3>2, HeldChallenges DEF Inv, ChallengesInv
    <2>4. CASE d # c
        <3>1. handler'[d] = handler[d] /\ (Answering(d)' <=> Answering(d))
            BY <1>2, <2>4 DEF Answering
        <3> QED
            BY <1>9, <2>2, <3>1, HeldChallenges DEF Inv, ChallengesInv
    <2> QED
        BY <2>3, <2>4
<1>11. HandlersInv'
    <2>1. \A h : HandlerOK(h) => HandlerOK(h)'
        BY <1>1, SameOK
    <2>2. \A d \in Clients : HandlerOK(handler[d])'
        BY <1>2, <2>1 DEF Inv, HandlersInv
    <2> QED
        BY <2>2 DEF HandlersInv
<1> QED
    BY <1>8, <1>10, <1>11 DEF Inv

LEMMA PurgeStep ==
    ASSUME Inv, NEW c \in Clients, Purge(c)
    PROVE  Inv'
<1> DEFINE S == {n \in DOMAIN nonces : ~Expired(nonces[n], handler[c].now)}
<1>1. PICK g \in Handlers : Set(c, g) /\ HandlerOK(g) /\ Follows(handler[c], g)
    BY PurgeOutcome
<1>2. nonces' = Restrict(nonces, S) /\ Keep /\ UNCHANGED <<generated, answer>>
    BY DEF Purge
<1>3. \A n \in DOMAIN nonces \ S : nonces[n].time + Validity <= clock
    <2>1. handler[c].pc # "idle"
        BY DEF Purge
    <2>2. handler[c].now \in Nat /\ handler[c].now <= clock /\ clock \in Nat
        BY <2>1, HandlerFacts
    <2>3. \A n \in DOMAIN nonces : nonces[n].time \in Nat
        BY DEF Inv, BaseInv, Stored
    <2> QED
        BY <2>2, <2>3, TimeAssumption DEF Expired
<1> HIDE DEF S
<1>4. S \in SUBSET DOMAIN nonces
    BY DEF S
<1> QED
    BY <1>1, <1>2, <1>3, <1>4, CheckingStep

LEMMA DigestStep ==
    ASSUME Inv, NEW c \in Clients, CheckDigest(c)
    PROVE  Inv'
<1>1. PICK g \in Handlers : Set(c, g) /\ HandlerOK(g) /\ Follows(handler[c], g)
    BY DigestOutcome
<1>2. Keep /\ UNCHANGED <<generated, answer>> /\ handler[c].pc # "idle"
    BY DEF CheckDigest
<1>3. \/ UNCHANGED nonces
      \/ \E key : /\ ~(key \in DOMAIN nonces /\ Valid(nonces[key], handler[c].now))
                  /\ nonces' = Restrict(nonces, DOMAIN nonces \ {key})
    <2> DEFINE m == Head(handler[c].methods)
               h == [handler[c] EXCEPT !.methods = Tail(@)]
               key == IF Len(m.nonce) = 1 THEN m.nonce[1] ELSE None
    <2>1. handler[c] \in Handlers
        BY DEF Inv, BaseInv
    <2>2. h.now = handler[c].now
        BY <2>1 DEF Handlers
    <2>3. \/ UNCHANGED nonces
          \/ /\ ~(key \in DOMAIN nonces /\ Valid(nonces[key], h.now))
             /\ nonces' = Restrict(nonces, DOMAIN nonces \ {key})
        BY DEF CheckDigest
    <2> HIDE DEF key, h
    <2> QED
        BY <2>2, <2>3
<1>4. CASE UNCHANGED nonces
    <2>1. nonces' = Restrict(nonces, DOMAIN nonces)
        BY <1>4 DEF Inv, BaseInv, Restrict
    <2> QED
        BY <1>1, <1>2, <2>1, CheckingStep
<1>5. CASE \E key : /\ ~(key \in DOMAIN nonces /\ Valid(nonces[key], handler[c].now))
                    /\ nonces' = Restrict(nonces, DOMAIN nonces \ {key})
    <2>1. PICK key : /\ ~(key \in DOMAIN nonces /\ Valid(nonces[key], handler[c].now))
                     /\ nonces' = Restrict(nonces, DOMAIN nonces \ {key})
        BY <1>5
    <2>2. handler[c].now \in Nat /\ handler[c].now <= clock /\ clock \in Nat
        BY <1>2, HandlerFacts
    <2>3. \A n \in DOMAIN nonces : nonces[n].time \in Nat
        BY DEF Inv, BaseInv, Stored
    <2>4. \A n \in DOMAIN nonces \ (DOMAIN nonces \ {key}) :
             nonces[n].time + Validity <= clock
        BY <2>1, <2>2, <2>3, TimeAssumption DEF Valid
    <2> QED
        BY <1>1, <1>2, <2>1, <2>4, CheckingStep
<1> QED
    BY <1>3, <1>4, <1>5

\* What a handler adds to its offers, when the domain has a path.
Offer(h, name, key) ==
    [realm |-> Auth(h.req.entry, name).realm, nonce |-> key, opaque |-> Opaque[key],
     stale |-> h.stale, time |-> h.now, domain |-> name, process |-> restarts]

Offering(h, name, key) ==
    [h EXCEPT !.auths = @ \ {name}, !.offers = Append(@, Offer(h, name, key))]

\* A challenge is of a domain that is still to be told, with a fresh nonce.
LEMMA IssueFacts ==
    ASSUME Inv, NEW c \in Clients, Issue(c)
    PROVE  LET h == handler[c]
               name == FirstOf(h.auths)
               key == Nonces[generated + 1]
               n == [time |-> h.now, opaque |-> Opaque[key], domain |-> name,
                     realm |-> Auth(h.req.entry, name).realm]
           IN  /\ h.pc = "issue" /\ name \in h.auths /\ name \in Domains
               /\ key \in Range(Nonces) /\ key \notin Generated
               /\ Opaque[key] \in STRING /\ n \in Stored
               /\ generated' = generated + 1 /\ generated + 1 \in 0 .. Len(Nonces)
               /\ nonces' = Put(nonces, key, n)
               /\ Set(c, NoHandler) \/ Set(c, Offering(h, name, key))
               /\ Offer(h, name, key) \in Challenges
               /\ Keep /\ UNCHANGED answer
<1> DEFINE h == handler[c]
           name == FirstOf(h.auths)
           key == Nonces[generated + 1]
           realm == Auth(h.req.entry, name).realm
           n == [time |-> h.now, opaque |-> Opaque[key], domain |-> name, realm |-> realm]
<1>1. /\ h.pc = "issue" /\ h.auths # {}
      /\ generated < Len(Nonces) /\ generated' = generated + 1
      /\ nonces' = Put(nonces, key, Nonce(key, h.now, name, realm))
      /\ Keep /\ UNCHANGED answer
    BY DEF Issue
<1>2. Set(c, NoHandler) \/ Set(c, Offering(h, name, key))
    BY DEF Issue, Offering, Offer
<1>3. h.pc # "idle" /\ h \in Handlers /\ h.req \in Requested /\ h.now \in Nat
    BY <1>1, HandlerFacts
<1>4. h.auths \in SUBSET Domains /\ h.stale \in BOOLEAN
    BY <1>3 DEF Handlers
<1>5. h.auths \in SUBSET Range(Names)
    BY <1>4 DEF Domains
<1>6. name \in h.auths /\ name \in Domains /\ name \in Range(Names)
    BY <1>1, <1>4, <1>5, FirstOfIn
<1>7. generated \in Nat /\ generated + 1 \in 0 .. Len(Nonces)
    BY <1>1, NoncesAssumption DEF Inv, BaseInv
<1>8. key \in Range(Nonces) /\ \A i \in 1 .. generated : Nonces[i] # key
    BY <1>1, <1>7, NextKey
<1>9. key \notin Generated
    BY <1>8 DEF Generated
<1>10. Opaque[key] \in STRING
    BY <1>8, NoncesAssumption
<1>11. realm \in Realms
    BY <1>3, <1>6 DEF Realms, Requested
<1>12. n \in Stored /\ Nonce(key, h.now, name, realm) = n
    BY <1>3, <1>6, <1>10, <1>11 DEF Stored, Nonce
<1>13. restarts \in Nat
    BY BoundsAssumption DEF Inv, BaseInv
<1> HIDE DEF name, key, h
<1>14. Offer(h, name, key) \in Challenges
    BY <1>3, <1>4, <1>6, <1>8, <1>10, <1>11, <1>13 DEF Offer, Challenges, Realms, Domains
<1>15. nonces' = Put(nonces, key, n)
    BY <1>1, <1>12
<1> HIDE DEF n
<1>16. /\ h.pc = "issue" /\ name \in h.auths /\ name \in Domains
       /\ key \in Range(Nonces) /\ key \notin Generated
       /\ Opaque[key] \in STRING /\ n \in Stored
       /\ generated' = generated + 1 /\ generated + 1 \in 0 .. Len(Nonces)
       /\ nonces' = Put(nonces, key, n)
       /\ Set(c, NoHandler) \/ Set(c, Offering(h, name, key))
       /\ Offer(h, name, key) \in Challenges
       /\ Keep /\ UNCHANGED answer
    BY <1>1, <1>2, <1>6, <1>7, <1>8, <1>9, <1>10, <1>12, <1>14, <1>15
<1> QED
    BY <1>16 DEF n, name, key, h, realm

LEMMA OfferingOK ==
    ASSUME NEW h \in Handlers, HandlerOK(h), h.pc = "issue",
           NEW name \in h.auths, NEW key, Offer(h, name, key) \in Challenges
    PROVE  LET g == Offering(h, name, key)
           IN  /\ g \in Handlers /\ HandlerOK(g) /\ g.pc = "issue"
               /\ g.req = h.req /\ g.now = h.now
               /\ g.offers = Append(h.offers, Offer(h, name, key))
<1> DEFINE g == Offering(h, name, key)
           x == Offer(h, name, key)
<1>1. h.offers \in Seq(Challenges) /\ h.auths \in SUBSET Domains
    BY DEF Handlers
<1> HIDE DEF x
<1>2. /\ g.pc = "issue" /\ g.req = h.req /\ g.now = h.now /\ g.allow = h.allow
      /\ g.found = h.found /\ g.stale = h.stale /\ g.offers = Append(h.offers, x)
      /\ g.auths = h.auths \ {name}
    BY DEF Offering, Handlers, x
<1>3. Append(h.offers, x) \in Seq(Challenges) /\ Append(h.offers, x) # <<>>
    BY <1>1 DEF x
<1>4. g \in Handlers
    BY <1>1, <1>3 DEF Offering, Handlers, x
<1> HIDE DEF g
<1>5. authList[h.req.entry] # {}
    BY DEF HandlerOK
<1>6. Allowed(g) <=> Allowed(h)
    BY <1>2 DEF Allowed
<1>7. NotAllowed(g) <=> NotAllowed(h)
    BY <1>2 DEF NotAllowed, Weighed
<1>8. StaleOK(g) <=> StaleOK(h)
    BY <1>2 DEF StaleOK
<1>9. HandlerOK(g)
    BY <1>2, <1>3, <1>5, <1>6, <1>7, <1>8 DEF HandlerOK
<1> QED
    BY <1>2, <1>4, <1>9 DEF g, x

LEMMA IssueStep ==
    ASSUME Inv, NEW c \in Clients, Issue(c)
    PROVE  Inv'
<1> DEFINE h == handler[c]
           name == FirstOf(h.auths)
           key == Nonces[generated + 1]
           n == [time |-> h.now, opaque |-> Opaque[key], domain |-> name,
                 realm |-> Auth(h.req.entry, name).realm]
           x == Offer(h, name, key)
<1>1. /\ h.pc = "issue" /\ name \in h.auths /\ name \in Domains
      /\ key \in Range(Nonces) /\ key \notin Generated
      /\ Opaque[key] \in STRING /\ n \in Stored
      /\ generated' = generated + 1 /\ generated + 1 \in 0 .. Len(Nonces)
      /\ nonces' = Put(nonces, key, n)
      /\ Set(c, NoHandler) \/ Set(c, Offering(h, name, key))
      /\ x \in Challenges
      /\ Keep /\ UNCHANGED answer
    BY IssueFacts
<1>2. /\ x.nonce = key /\ x.opaque = Opaque[key] /\ x.time = h.now
      /\ x.domain = name /\ x.process = restarts
    BY DEF Offer
<1>3. n.time = h.now /\ n.opaque = Opaque[key] /\ n.domain = name
    OBVIOUS
<1>4. h \in Handlers /\ h.req \in Requested /\ ReqOK(h.req) /\ HandlerOK(h)
      /\ h.now \in Nat /\ h.now <= clock /\ clock \in Nat
    BY <1>1, HandlerFacts DEF Inv, HandlersInv
<1>5. key = Nonces[generated + 1]
    OBVIOUS
<1> HIDE DEF h, name, key, n, x
<1>6. PICK g \in Handlers :
         /\ Set(c, g) /\ HandlerOK(g) /\ g.now <= clock
         /\ g.pc # "idle" => g.pc = "issue" /\ g.req = h.req
         /\ g.offers = <<>> \/ g.offers = Append(h.offers, x)
    <2>1. CASE Set(c, NoHandler)
        BY <1>4, <2>1, NoHandlerFacts, IdleOK
    <2>2. CASE Set(c, Offering(h, name, key))
        <3>1. Offer(h, name, key) \in Challenges
            BY <1>1 DEF x
        <3>2. /\ Offering(h, name, key) \in Handlers /\ HandlerOK(Offering(h, name, key))
              /\ Offering(h, name, key).pc = "issue" /\ Offering(h, name, key).req = h.req
              /\ Offering(h, name, key).now = h.now
              /\ Offering(h, name, key).offers = Append(h.offers, x)
            BY <1>1, <1>4, <3>1, OfferingOK DEF x
        <3> QED
            BY <1>4, <2>2, <3>2
    <2> QED
        BY <1>1, <2>1, <2>2
<1>7. /\ handler' \in [Clients -> Handlers] /\ handler'[c] = g
      /\ \A d \in Clients \ {c} : handler'[d] = handler[d]
    BY <1>6, SetFacts DEF Inv
<1>8. clock' = clock /\ restarts' = restarts /\ visits' = visits
    BY <1>1 DEF Keep
<1>9. /\ DOMAIN nonces' = DOMAIN nonces \cup {key} /\ nonces'[key] = n
      /\ \A k \in DOMAIN nonces \ {key} : nonces'[k] = nonces[k]
      /\ nonces' = [k \in DOMAIN nonces' |-> nonces'[k]]
    BY <1>1 DEF Put
<1>10. generated \in Nat
    BY NoncesAssumption DEF Inv, BaseInv
<1>11. Generated \subseteq Generated' /\ key \in Generated'
    BY <1>1, <1>5, <1>10 DEF Generated
<1>12. BaseInv'
    <2>1. \A d \in Clients : handler'[d].now <= clock
                             /\ (handler'[d].pc # "idle" => ReqOK(handler'[d].req))
        BY <1>4, <1>6, <1>7 DEF Inv, BaseInv
    <2>2. \A k \in DOMAIN nonces' : nonces'[k].time <= clock /\ nonces'[k].opaque = Opaque[k]
        BY <1>3, <1>4, <1>9 DEF Inv, BaseInv
    <2>3. \A k \in DOMAIN nonces' : nonces'[k] \in Stored
        BY <1>1, <1>9 DEF Inv, BaseInv
    <2>4. nonces' \in [DOMAIN nonces' -> Stored]
        BY <1>9, <2>3
    <2>5. DOMAIN nonces' \subseteq Generated'
        BY <1>9, <1>11 DEF Inv, BaseInv
    <2>6. answer' \in [Clients -> Answers]
        BY <1>1 DEF Inv, BaseInv
    <2> QED
        BY <1>1, <1>7, <1>8, <2>1, <2>2, <2>4, <2>5, <2>6 DEF Inv, BaseInv
<1>13. \A ch \in Challenges : ChallengeOK(ch) => ChallengeOK(ch)'
    <2>1. \A k \in Generated : k \in DOMAIN nonces' =>
             k \in DOMAIN nonces /\ nonces'[k] = nonces[k]
        BY <1>1, <1>9
    <2>2. \A k \in DOMAIN nonces \ DOMAIN nonces' : nonces[k].time + Validity <= clock'
        BY <1>9
    <2> QED
        BY <1>1, <1>8, <2>1, <2>2, ChallengeStep
<1>14. PICK y \in Challenges : y = x
    BY <1>1
<1>17. ChallengeOK(y)'
    <2>1. restarts \in Nat
        BY BoundsAssumption DEF Inv, BaseInv
    <2>2. /\ y.nonce = key /\ y.opaque = Opaque[key] /\ y.time = n.time
          /\ y.domain = n.domain /\ y.process = restarts
        BY <1>2, <1>3, <1>14
    <2>3. nonces'[y.nonce] = n /\ y.nonce \in DOMAIN nonces' /\ y.nonce \in Generated'
        BY <1>9, <1>11, <2>2
    <2> QED
        BY <1>8, <2>1, <2>2, <2>3 DEF ChallengeOK
<1>15. ChallengesInv'
    <2> SUFFICES ASSUME NEW d \in Clients
                 PROVE  /\ \A i \in DOMAIN handler'[d].offers : ChallengeOK(handler[d].offers[i])'
                        /\ \A i \in DOMAIN answer'[d].challenges :
                              ChallengeOK(answer[d].challenges[i])'
                        /\ Answering(d)' => ChallengeOK(handler[d].req.basis.ch)'
        BY DEF ChallengesInv
    <2>1. answer'[d] = answer[d]
        BY <1>1
    <2>2. \A i \in DOMAIN answer'[d].challenges : ChallengeOK(answer[d].challenges[i])'
        BY <1>13, <2>1, HeldChallenges DEF Inv, ChallengesInv
    <2>3. CASE d = c
        <3>1. \A i \in DOMAIN handler'[d].offers : ChallengeOK(handler[d].offers[i])'
            <4>1. CASE g.offers = <<>>
                BY <1>7, <2>3, <4>1
            <4>2. CASE g.offers = Append(h.offers, x)
                <5>1. h.offers \in Seq(Challenges)
                    BY <1>4 DEF Handlers
                <5>2. \A i \in DOMAIN g.offers :
                         g.offers[i] = y \/ (i \in DOMAIN h.offers /\ g.offers[i] = h.offers[i])
                    BY <1>14, <4>2, <5>1
                <5>3. \A i \in DOMAIN h.offers :
                         h.offers[i] \in Challenges /\ ChallengeOK(h.offers[i])
                    BY HeldChallenges DEF Inv, ChallengesInv, h
                <5>4. handler'[d] = g
                    BY <1>7, <2>3
                <5>5. ASSUME NEW i \in DOMAIN g.offers
                      PROVE  ChallengeOK(g.offers[i])'
                    <6>1. PICK z \in Challenges : z = g.offers[i] /\ (z = y \/ ChallengeOK(z))
                        BY <1>14, <5>2, <5>3
                    <6>2. ChallengeOK(z)'
                        BY <1>13, <1>17, <6>1
                    <6> QED
                        BY <6>1, <6>2
                <5> QED
                    BY <5>4, <5>5
            <4> QED
                BY <1>6, <4>1, <4>2
        <3>2. Answering(d)' => Answering(d) /\ handler'[d].req = handler[d].req
            BY <1>1, <1>6, <1>7, <2>3 DEF Answering, h
        <3> QED
            BY <1>13, <2>2, <3>1, <3>2, HeldChallenges DEF Inv, ChallengesInv
    <2>4. CASE d # c
        <3>1. handler'[d] = handler[d] /\ (Answering(d)' <=> Answering(d))
            BY <1>7, <2>4 DEF Answering
        <3> QED
            BY <1>13, <2>2, <3>1, HeldChallenges DEF Inv, ChallengesInv
    <2> QED
        BY <2>3, <2>4
<1>16. HandlersInv'
    <2>1. \A k : HandlerOK(k) => HandlerOK(k)'
        BY <1>8, SameOK
    <2>2. \A d \in Clients : HandlerOK(handler[d])'
        BY <1>6, <1>7, <2>1 DEF Inv, HandlersInv
    <2> QED
        BY <2>2 DEF HandlersInv
<1> QED
    BY <1>12, <1>15, <1>16 DEF Inv

LEMMA AnswerStep ==
    ASSUME Inv, NEW c \in Clients, Answer(c)
    PROVE  Inv'
<1> DEFINE h == handler[c]
           a == [granted |-> Authorized(h), challenges |-> h.offers]
<1>1. /\ h.pc = "issue" /\ Set(c, NoHandler) /\ answer' = [answer EXCEPT ![c] = a]
      /\ UNCHANGED <<clock, visits, restarts, nonces, generated>>
    BY DEF Answer, Keep
<1>2. h \in Handlers
    BY <1>1, HandlerFacts
<1>3. a \in Answers /\ a.challenges = h.offers
    <2>1. Authorized(h) \in BOOLEAN
        BY <1>2 DEF Authorized, Handlers
    <2>2. h.offers \in Seq(Challenges)
        BY <1>2 DEF Handlers
    <2> QED
        BY <2>1, <2>2 DEF Answers
<1> HIDE DEF a
<1>4. /\ handler' \in [Clients -> Handlers] /\ handler'[c] = NoHandler
      /\ \A d \in Clients \ {c} : handler'[d] = handler[d]
    BY <1>1, SetFacts, NoHandlerFacts DEF Inv
<1>5. /\ answer' \in [Clients -> Answers] /\ answer'[c] = a
      /\ \A d \in Clients \ {c} : answer'[d] = answer[d]
    BY <1>1, <1>3 DEF Inv, BaseInv
<1>6. clock \in Nat
    BY TimeAssumption DEF Inv, BaseInv
<1>7. Generated' = Generated
    BY <1>1 DEF Generated
<1>8. BaseInv'
    <2>1. \A d \in Clients : handler'[d].now <= clock
                             /\ (handler'[d].pc # "idle" => ReqOK(handler'[d].req))
        BY <1>4, <1>6, NoHandlerFacts DEF Inv, BaseInv
    <2> QED
        BY <1>1, <1>4, <1>5, <1>7, <2>1 DEF Inv, BaseInv
<1>9. \A ch : ChallengeOK(ch) => ChallengeOK(ch)'
    BY <1>1, <1>7 DEF ChallengeOK
<1>10. ChallengesInv'
    <2> SUFFICES ASSUME NEW d \in Clients
                 PROVE  /\ \A i \in DOMAIN handler'[d].offers : ChallengeOK(handler[d].offers[i])'
                        /\ \A i \in DOMAIN answer'[d].challenges :
                              ChallengeOK(answer[d].challenges[i])'
                        /\ Answering(d)' => ChallengeOK(handler[d].req.basis.ch)'
        BY DEF ChallengesInv
    <2>1. CASE d = c
        <3>1. handler'[d].offers = <<>> /\ ~Answering(d)'
            BY <1>4, <2>1, NoHandlerFacts DEF Answering
        <3>2. answer'[d].challenges = h.offers
            BY <1>3, <1>5, <2>1
        <3>3. ASSUME NEW i \in DOMAIN answer'[d].challenges
              PROVE  ChallengeOK(answer[d].challenges[i])'
            <4>1. PICK z : z = h.offers[i] /\ ChallengeOK(z)
                BY <3>2, <3>3 DEF Inv, ChallengesInv
            <4>2. ChallengeOK(z)'
                BY <1>9, <4>1
            <4>3. answer'[d].challenges[i] = z
                BY <3>2, <4>1
            <4> QED
                BY <4>2, <4>3
        <3> QED
            BY <3>1, <3>3
    <2>2. CASE d # c
        <3>1. handler'[d] = handler[d] /\ answer'[d] = answer[d]
              /\ (Answering(d)' <=> Answering(d))
            BY <1>4, <1>5, <2>2 DEF Answering
        <3> QED
            BY <1>9, <3>1 DEF Inv, ChallengesInv
    <2> QED
        BY <2>1, <2>2
<1>11. HandlersInv'
    <2>1. \A k : HandlerOK(k) => HandlerOK(k)'
        BY <1>1, SameOK
    <2>2. \A d \in Clients : HandlerOK(handler[d])'
        BY <1>4, <2>1, IdleOK DEF Inv, HandlersInv
    <2> QED
        BY <2>2 DEF HandlersInv
<1> QED
    BY <1>8, <1>10, <1>11 DEF Inv

LEMMA ArriveStep ==
    ASSUME Inv, NEW c \in Clients, NEW q, ReqOK(q), Arrive(c, q),
           q.basis # None => q.basis.ch \in Challenges /\ ChallengeOK(q.basis.ch),
           visits' \in 0 .. MaxVisits + MaxReplies
    PROVE  Inv'
<1> DEFINE g == [NoHandler EXCEPT !.pc = "purge", !.req = q, !.now = clock]
<1>1. /\ Set(c, g) /\ answer' = [answer EXCEPT ![c] = NoAnswer]
      /\ UNCHANGED <<clock, nonces, generated, restarts>>
    BY DEF Arrive
<1>2. clock \in Nat
    BY TimeAssumption DEF Inv, BaseInv
<1>3. /\ g.pc = "purge" /\ g.req = q /\ g.now = clock /\ g.offers = <<>> /\ g.auths = {}
      /\ ~g.allow /\ ~g.found /\ ~g.stale
    BY DEF NoHandler
<1>4. g \in Handlers
    <2>1. q \in Requested \cup {None}
        BY DEF ReqOK
    <2>2. <<>> \in Seq(Digests) /\ <<>> \in Seq(Challenges) /\ {} \in SUBSET Domains
        OBVIOUS
    <2>3. g = [pc |-> "purge", req |-> q, now |-> clock, methods |-> <<>>, allow |-> FALSE,
               found |-> FALSE, stale |-> FALSE, auths |-> {}, offers |-> <<>>]
        <3>1. PICK r \in Handlers : r = NoHandler
            BY NoHandlerFacts
        <3>2. g = [r EXCEPT !.pc = "purge", !.req = q, !.now = clock]
            BY <3>1
        <3> HIDE DEF g
        <3>3. g = [pc |-> "purge", req |-> q, now |-> clock, methods |-> r.methods,
                   allow |-> r.allow, found |-> r.found, stale |-> r.stale,
                   auths |-> r.auths, offers |-> r.offers]
            BY <3>2 DEF Handlers
        <3>4. /\ r.methods = <<>> /\ r.auths = {} /\ r.offers = <<>>
              /\ r.allow = FALSE /\ r.found = FALSE /\ r.stale = FALSE
            BY <3>1, Zenon DEF NoHandler
        <3> QED
            BY <3>3, <3>4
    <2> HIDE DEF g
    <2> QED
        BY <1>2, <2>1, <2>2, <2>3 DEF Handlers
<1> HIDE DEF g
<1>5. HandlerOK(g)
    BY <1>3 DEF HandlerOK
<1>6. /\ handler' \in [Clients -> Handlers] /\ handler'[c] = g
      /\ \A d \in Clients \ {c} : handler'[d] = handler[d]
    BY <1>1, <1>4, SetFacts DEF Inv
<1>7. NoAnswer \in Answers /\ NoAnswer.challenges = <<>>
    BY DEF NoAnswer, Answers
<1>8. /\ answer' \in [Clients -> Answers] /\ answer'[c] = NoAnswer
      /\ \A d \in Clients \ {c} : answer'[d] = answer[d]
    BY <1>1, <1>7 DEF Inv, BaseInv
<1>9. Generated' = Generated
    BY <1>1 DEF Generated
<1>10. BaseInv'
    <2>1. \A d \in Clients : handler'[d].now <= clock
                             /\ (handler'[d].pc # "idle" => ReqOK(handler'[d].req))
        BY <1>2, <1>3, <1>6 DEF Inv, BaseInv
    <2> QED
        BY <1>1, <1>6, <1>8, <1>9, <2>1 DEF Inv, BaseInv
<1>11. \A ch : ChallengeOK(ch) => ChallengeOK(ch)'
    BY <1>1, <1>9 DEF ChallengeOK
<1>12. ChallengesInv'
    <2> SUFFICES ASSUME NEW d \in Clients
                 PROVE  /\ \A i \in DOMAIN handler'[d].offers : ChallengeOK(handler[d].offers[i])'
                        /\ \A i \in DOMAIN answer'[d].challenges :
                              ChallengeOK(answer[d].challenges[i])'
                        /\ Answering(d)' => ChallengeOK(handler[d].req.basis.ch)'
        BY DEF ChallengesInv
    <2>1. CASE d = c
        <3>1. handler'[d] = g /\ g.offers = <<>> /\ answer'[d].challenges = <<>>
            BY <1>3, <1>6, <1>7, <1>8, <2>1
        <3>2. Answering(d)' => q.basis # None
            BY <1>3, <3>1 DEF Answering
        <3>3. q.basis # None => ChallengeOK(q.basis.ch)'
            BY <1>11
        <3> QED
            BY <1>3, <3>1, <3>2, <3>3
    <2>2. CASE d # c
        <3>1. handler'[d] = handler[d] /\ answer'[d] = answer[d]
              /\ (Answering(d)' <=> Answering(d))
            BY <1>6, <1>8, <2>2 DEF Answering
        <3> QED
            BY <1>11, <3>1 DEF Inv, ChallengesInv
    <2> QED
        BY <2>1, <2>2
<1>13. HandlersInv'
    <2>1. \A k : HandlerOK(k) => HandlerOK(k)'
        BY <1>1, SameOK
    <2>2. \A d \in Clients : HandlerOK(handler[d])'
        BY <1>5, <1>6, <2>1 DEF Inv, HandlersInv
    <2> QED
        BY <2>2 DEF HandlersInv
<1> QED
    BY <1>10, <1>12, <1>13 DEF Inv

\* A challenge that a client was told is one to answer.
LEMMA ToldFacts ==
    ASSUME Inv, NEW c \in Clients, NEW i \in DOMAIN answer[c].challenges
    PROVE  LET ch == answer[c].challenges[i]
           IN  ch \in Challenges /\ ChallengeOK(ch) /\ ch.opaque = Opaque[ch.nonce]
BY HeldChallenges DEF Inv, ChallengesInv, ChallengeOK

LEMMA ReplyStep ==
    ASSUME Inv, NEW c \in Clients, NEW q \in Requests,
           NEW i \in DOMAIN answer[c].challenges,
           NEW u \in {"guest", "member"}, NEW p \in {Password, "wrong"},
           Arrive(c, Reply(q, answer[c].challenges[i], u, p)),
           visits' \in 0 .. MaxVisits + MaxReplies
    PROVE  Inv'
<1>1. PICK ch : ch = answer[c].challenges[i]
    OBVIOUS
<1>2. ch \in Challenges /\ ChallengeOK(ch) /\ ch.opaque = Opaque[ch.nonce]
    BY <1>1, ToldFacts
<1>3. ReqOK(Reply(q, ch, u, p)) /\ Reply(q, ch, u, p).basis.ch = ch
    BY <1>2, ReplyOK
<1>4. PICK r : r = Reply(q, ch, u, p)
    OBVIOUS
<1>5. ReqOK(r) /\ r.basis.ch = ch /\ Arrive(c, r)
    BY <1>1, <1>3, <1>4
<1> QED
    BY <1>2, <1>5, ArriveStep

LEMMA VisitStep ==
    ASSUME Inv, NEW c \in Visitors, NEW q \in Requests, Visit(c, q)
    PROVE  Inv'
<1>1. c \in Clients
    BY DEF Clients
<1>2. visits \in 0 .. MaxVisits + MaxReplies /\ visits' = visits + 1
      /\ MaxVisits \in Nat /\ MaxReplies \in Nat
    BY BoundsAssumption DEF Visit, Inv, BaseInv
<1>3. CASE visits < MaxVisits /\ Arrive(c, q)
    <2>1. visits' \in 0 .. MaxVisits + MaxReplies
        BY <1>2, <1>3
    <2>2. ReqOK(q) /\ q.basis = None
        BY RequestOK
    <2> QED
        BY <1>1, <1>3, <2>1, <2>2, ArriveStep
<1>4. CASE /\ visits < MaxVisits + MaxReplies
           /\ \E ch \in Range(answer[c].challenges) : Arrive(c, Reply(q, ch, "guest", "wrong"))
    <2>1. visits' \in 0 .. MaxVisits + MaxReplies
        BY <1>2, <1>4
    <2>2. PICK i \in DOMAIN answer[c].challenges :
             Arrive(c, Reply(q, answer[c].challenges[i], "guest", "wrong"))
        BY <1>4 DEF Range
    <2> QED
        BY <1>1, <2>1, <2>2, ReplyStep
<1> QED
    BY <1>3, <1>4 DEF Visit

LEMMA RetryStep ==
    ASSUME Inv, Retry
    PROVE  Inv'
<1> DEFINE told == answer[Member].challenges
           own == {i \in DOMAIN told : told[i].realm = Realm}
<1>1. Member \in Clients
    BY DEF Clients
<1>2. MemberRequest \in Requests
    BY RequestsAssumption
<1>3. visits' = visits /\ visits' \in 0 .. MaxVisits + MaxReplies
    BY DEF Retry, Inv, BaseInv
<1>4. IF own = {} THEN Arrive(Member, MemberRequest)
      ELSE Arrive(Member, Reply(MemberRequest, told[Min(own)], "member", Password))
    BY DEF Retry
<1>5. told \in Seq(Challenges)
    BY <1>1 DEF Inv, BaseInv, Answers
<1>6. CASE own = {}
    <2>1. ReqOK(MemberRequest) /\ MemberRequest.basis = None
        BY <1>2, RequestOK
    <2> QED
        BY <1>1, <1>3, <1>4, <1>6, <2>1, ArriveStep
<1>7. CASE own # {}
    <2>1. own \in SUBSET Nat
        BY <1>5
    <2>2. Min(own) \in own
        BY <1>7, <2>1, MinIn
    <2>3. PICK i \in DOMAIN answer[Member].challenges : i = Min(own)
        BY <2>2
    <2>4. Arrive(Member, Reply(MemberRequest, answer[Member].challenges[i], "member", Password))
        BY <1>4, <1>7, <2>3
    <2> HIDE DEF own, told
    <2> QED
        BY <1>1, <1>2, <1>3, <2>4, ReplyStep
<1> QED
    BY <1>6, <1>7

LEMMA RestartStep ==
    ASSUME Inv, Restart
    PROVE  Inv'
<1>1. /\ restarts < MaxRestarts /\ restarts' = restarts + 1
      /\ nonces' = [n \in {} |-> None] /\ handler' = [c \in Clients |-> NoHandler]
      /\ UNCHANGED <<clock, generated, answer, visits>>
    BY DEF Restart
<1>2. restarts \in 0 .. MaxRestarts /\ restarts' \in 0 .. MaxRestarts
      /\ restarts \in Nat /\ clock \in Nat
    BY <1>1, BoundsAssumption, TimeAssumption DEF Inv, BaseInv
<1>3. DOMAIN nonces' = {} /\ nonces' \in [DOMAIN nonces' -> Stored]
    BY <1>1
<1>4. handler' \in [Clients -> Handlers] /\ \A c \in Clients : handler'[c] = NoHandler
    BY <1>1, NoHandlerFacts
<1>5. Generated' = Generated
    BY <1>1 DEF Generated
<1>6. BaseInv'
    BY <1>1, <1>2, <1>3, <1>4, <1>5, NoHandlerFacts DEF Inv, BaseInv
<1>7. \A ch \in Challenges : ChallengeOK(ch) => ChallengeOK(ch)'
    <2>1. \A ch \in Challenges : ch.process \in Nat
        BY DEF Challenges
    <2> QED
        BY <1>1, <1>2, <1>3, <1>5, <2>1 DEF ChallengeOK
<1>8. ChallengesInv'
    <2>1. \A d \in Clients : handler'[d].offers = <<>> /\ ~Answering(d)'
                             /\ answer'[d] = answer[d]
        BY <1>1, <1>4, NoHandlerFacts DEF Answering
    <2> QED
        BY <1>7, <2>1, HeldChallenges DEF Inv, ChallengesInv
<1>9. HandlersInv'
    <2>1. HandlerOK(NoHandler)'
        BY NoHandlerFacts DEF HandlerOK
    <2> QED
        BY <1>4, <2>1 DEF HandlersInv
<1> QED
    BY <1>6, <1>8, <1>9 DEF Inv

LEMMA TickStep ==
    ASSUME Inv, Tick
    PROVE  Inv'
<1>1. /\ clock < MaxClock /\ clock' = clock + 1
      /\ UNCHANGED <<nonces, generated, handler, answer, visits, restarts>>
    BY DEF Tick
<1>2. clock \in Nat /\ clock' \in 0 .. MaxClock
    BY <1>1, TimeAssumption DEF Inv, BaseInv
<1>3. Generated' = Generated
    BY <1>1 DEF Generated
<1>4. BaseInv'
    <2>1. \A n \in DOMAIN nonces : nonces[n].time \in Nat
        BY DEF Inv, BaseInv, Stored
    <2>2. \A d \in Clients : handler[d].now \in Nat
        BY DEF Inv, BaseInv, Handlers
    <2>3. \A n \in DOMAIN nonces' : nonces'[n].time <= clock' /\ nonces'[n].opaque = Opaque[n]
        BY <1>1, <1>2, <2>1 DEF Inv, BaseInv
    <2>4. \A d \in Clients : handler'[d].now <= clock'
                             /\ (handler'[d].pc # "idle" => ReqOK(handler'[d].req))
        BY <1>1, <1>2, <2>2 DEF Inv, BaseInv
    <2> QED
        BY <1>1, <1>2, <1>3, <2>3, <2>4 DEF Inv, BaseInv
<1>5. \A ch \in Challenges : ChallengeOK(ch) => ChallengeOK(ch)'
    <2>1. \A n \in Generated : n \in DOMAIN nonces' =>
             n \in DOMAIN nonces /\ nonces'[n] = nonces[n]
        BY <1>1
    <2>2. \A n \in DOMAIN nonces \ DOMAIN nonces' : nonces[n].time + Validity <= clock'
        BY <1>1
    <2> QED
        BY <1>1, <2>1, <2>2, ChallengeStep
<1>6. ChallengesInv'
    <2>1. \A d \in Clients : handler'[d] = handler[d] /\ answer'[d] = answer[d]
                             /\ (Answering(d)' <=> Answering(d))
        BY <1>1 DEF Answering
    <2> QED
        BY <1>5, <2>1, HeldChallenges DEF Inv, ChallengesInv
<1>7. HandlersInv'
    <2>1. \A d \in Clients : HandlerOK(handler[d])'
        BY <1>1, LaterOK
    <2> QED
        BY <2>1 DEF HandlersInv
<1> QED
    BY <1>4, <1>6, <1>7 DEF Inv

LEMMA Initial == Init => Inv
<1> SUFFICES ASSUME Init
             PROVE  Inv
    OBVIOUS
<1>1. /\ \A c \in Clients : handler[c] = NoHandler /\ answer[c] = NoAnswer
      /\ handler \in [Clients -> Handlers]
    BY NoHandlerFacts DEF Init
<1>2. NoAnswer \in Answers /\ NoAnswer.challenges = <<>>
    BY DEF NoAnswer, Answers
<1>3. answer \in [Clients -> Answers]
    BY <1>2 DEF Init
<1>4. DOMAIN nonces = {} /\ nonces \in [DOMAIN nonces -> Stored]
    BY DEF Init
<1>5. BaseInv
    BY <1>1, <1>3, <1>4, NoHandlerFacts, TimeAssumption, BoundsAssumption, NoncesAssumption
       DEF Init, BaseInv
<1>6. ChallengesInv
    BY <1>1, <1>2, NoHandlerFacts DEF ChallengesInv, Answering
<1>7. HandlersInv
    BY <1>1, IdleOK DEF HandlersInv
<1> QED
    BY <1>5, <1>6, <1>7 DEF Inv

LEMMA Steps == Inv /\ [Next]_vars => Inv'
<1> SUFFICES ASSUME Inv, [Next]_vars
             PROVE  Inv'
    OBVIOUS
<1>1. CASE \E c \in Visitors, q \in Requests : Visit(c, q)
    BY <1>1, VisitStep
<1>2. CASE Retry
    BY <1>2, RetryStep
<1>3. CASE \E c \in Clients : Authenticate(c)
    BY <1>3, PurgeStep, DigestStep, IssueStep, AnswerStep DEF Authenticate
<1>4. CASE Restart
    BY <1>4, RestartStep
<1>5. CASE Tick
    BY <1>5, TickStep
<1>6. CASE UNCHANGED vars
    <2>1. UNCHANGED <<clock, restarts>>
        BY <1>6 DEF vars
    <2>2. /\ clock' = clock /\ nonces' = nonces /\ generated' = generated
          /\ handler' = handler /\ answer' = answer /\ visits' = visits
          /\ restarts' = restarts
        BY <1>6 DEF vars
    <2>3. Generated' = Generated
        BY <2>2 DEF Generated
    <2>4. BaseInv'
        BY <2>2, <2>3 DEF Inv, BaseInv
    <2>5. ChallengesInv'
        <3> SUFFICES ASSUME NEW c \in Clients
                     PROVE  /\ \A i \in DOMAIN handler[c].offers : ChallengeOK(handler[c].offers[i])'
                            /\ \A i \in DOMAIN answer[c].challenges : ChallengeOK(answer[c].challenges[i])'
                            /\ Answering(c) => ChallengeOK(handler[c].req.basis.ch)'
            BY <2>2 DEF ChallengesInv, Answering
        <3>1. \A i \in DOMAIN handler[c].offers : ChallengeOK(handler[c].offers[i])'
            BY <2>2, <2>3 DEF Inv, ChallengesInv, ChallengeOK
        <3>2. \A i \in DOMAIN answer[c].challenges : ChallengeOK(answer[c].challenges[i])'
            BY <2>2, <2>3 DEF Inv, ChallengesInv, ChallengeOK
        <3>3. Answering(c) => ChallengeOK(handler[c].req.basis.ch)'
            BY <2>2, <2>3 DEF Inv, ChallengesInv, ChallengeOK
        <3> QED
            BY <3>1, <3>2, <3>3
    <2>6. HandlersInv'
        BY <2>1, <2>2, SameOK DEF Inv, HandlersInv
    <2> QED
        BY <2>4, <2>5, <2>6 DEF Inv
<1> QED
    BY <1>1, <1>2, <1>3, <1>4, <1>5, <1>6 DEF Next

LEMMA Invariant == Spec => []Inv
BY Initial, Steps, PTL DEF Spec

(* The loop over the enclosing directories finds what the rules say *)

Dir(e, n) == Entry(SubSeq(e.dirs, 1, n), None)

\* An entry of the loop: a directory, or a file with a long name in one.
Reached(ent) ==
    /\ ent = Entry(ent.dirs, ent.file) /\ ent.dirs \in Seq(STRING)
    /\ ent.file \notin ShortNames
    /\ ent.file # None => ent.dirs # <<>>
    /\ None \notin [dirs : Seq(STRING), file : {None, ent.file}]

Least == IF RootHasDot THEN 0 ELSE 1
Above(ent) == IF ent.file = None THEN Len(ent.dirs) - 1 ELSE Len(ent.dirs)

LEMMA AroundIs ==
    ASSUME NEW ent, Reached(ent)
    PROVE  LET A == Around(ent)
               k == Above(ent) + 1 - Least
           IN  /\ Above(ent) \in Int /\ Least \in {0, 1}
               /\ DOMAIN A = 1 .. (IF k > 0 THEN k ELSE 0) + 1
               /\ A[1] = ent
               /\ \A i \in DOMAIN A : i > 1 => A[i] = Dir(ent, Above(ent) + 2 - i)
<1> DEFINE k == Above(ent) + 1 - Least
           rest == [n \in 1 .. k |-> Entry(SubSeq(ent.dirs, 1, Above(ent) + 1 - n), None)]
           A == <<ent>> \o rest
<1>1. Around(ent) = A
    BY Zenon DEF Around, Above, Least
<1>2. Above(ent) \in Int /\ Least \in {0, 1}
    BY DEF Reached, Above, Least
<1>3. PICK m \in Nat : m = (IF k > 0 THEN k ELSE 0) /\ 1 .. k = 1 .. m
    BY <1>2
<1> DEFINE S == {Dir(ent, n) : n \in Int} \cup {ent}
<1>4. /\ rest \in [1 .. m -> S] /\ DOMAIN rest = 1 .. m
      /\ \A n \in 1 .. m : rest[n] = Dir(ent, Above(ent) + 1 - n)
    BY <1>2, <1>3 DEF Dir
<1> HIDE DEF rest, S
<1>5. rest \in Seq(S)
    BY <1>4, SeqDef
<1>6. Len(rest) = m
    BY <1>4, <1>5, LenProperties
<1>7. <<ent>> \in Seq(S)
    BY DEF S
<1>8. /\ DOMAIN A = 1 .. m + 1 /\ A[1] = ent
      /\ \A i \in 2 .. m + 1 : A[i] = rest[i - 1]
    BY <1>3, <1>5, <1>6, <1>7
<1> HIDE DEF A
<1>9. \A i \in DOMAIN A : i > 1 => A[i] = Dir(ent, Above(ent) + 2 - i)
    BY <1>2, <1>3, <1>4, <1>8
<1> QED
    BY <1>1, <1>2, <1>3, <1>8, <1>9

\* The next entry that is read, if any, is the first directory around.
LEMMA ParentIs ==
    ASSUME NEW ent, Reached(ent)
    PROVE  /\ Parent(ent) = None <=> Above(ent) < Least
           /\ Above(ent) >= Least =>
                /\ Above(ent) \in 0 .. Len(ent.dirs)
                /\ Parent(ent) = Dir(ent, Above(ent))
                /\ Reached(Parent(ent)) /\ Above(Parent(ent)) = Above(ent) - 1
                /\ \A n \in 0 .. Above(ent) : Dir(Parent(ent), n) = Dir(ent, n)
<1> DEFINE ds == ent.dirs
           k == Above(ent)
<1>1. ds \in Seq(STRING) /\ Len(ds) \in Nat /\ ent.file \notin ShortNames
    BY DEF Reached
<1>2. k \in Int /\ Least \in {0, 1} /\ k <= Len(ds) /\ k >= -1
    BY <1>1 DEF Above, Least
<1>3. CASE ds = <<>>
    <2>1. Parent(ent) = None /\ k = -1
        BY <1>1, <1>3 DEF Parent, Above, Reached
    <2> QED
        BY <1>2, <2>1
<1>4. CASE ds # <<>>
    <2>1. k \in 0 .. Len(ds)
        BY <1>1, <1>4 DEF Above
    <2>2. Enclosing(ent) = SubSeq(ds, 1, k)
        <3>1. CASE ent.file = None
            BY <3>1 DEF Enclosing, Above, Front
        <3>2. CASE ent.file # None
            <4>1. SubSeq(ds, 1, Len(ds)) = ds
                BY <1>1
            <4> QED
                BY <1>1, <3>2, <4>1 DEF Enclosing, Above
        <3> QED
            BY <3>1, <3>2
    <2>3. SubSeq(ds, 1, k) \in Seq(STRING) /\ Len(SubSeq(ds, 1, k)) = k
        BY <1>1, <2>1
    <2>4. SubSeq(ds, 1, k) = <<>> <=> k = 0
        BY <2>1, <2>3
    <2>5. Parent(ent) = IF k < Least THEN None ELSE Dir(ent, k)
        <3>1. Parent(ent) = IF Enclosing(ent) = <<>> /\ ~RootHasDot THEN None
                            ELSE Entry(Enclosing(ent), None)
            BY <1>4 DEF Parent
        <3>2. (Enclosing(ent) = <<>> /\ ~RootHasDot) <=> k < Least
            BY <2>1, <2>2, <2>4, EntriesAssumption DEF Least
        <3> QED
            BY <2>2, <3>1, <3>2 DEF Dir
    <2>6. Dir(ent, k).dirs = SubSeq(ds, 1, k) /\ Dir(ent, k).file = None
          /\ Dir(ent, k) = Entry(Dir(ent, k).dirs, Dir(ent, k).file)
        BY DEF Dir, Entry
    <2>7. Dir(ent, k) # None
        BY <2>3, SMTT(30) DEF Dir, Entry, Reached
    <2>8. Reached(Dir(ent, k))
        <3>1. [dirs : Seq(STRING), file : {None, None}]
                  \subseteq [dirs : Seq(STRING), file : {None, ent.file}]
            OBVIOUS
        <3>2. None \notin [dirs : Seq(STRING), file : {None, None}]
            BY <3>1 DEF Reached
        <3> QED
            BY <2>3, <2>6, <3>2, NamesAssumption DEF Reached
    <2>9. Above(Dir(ent, k)) = k - 1
        BY <2>3, <2>6 DEF Above
    <2>10. ASSUME NEW n \in 0 .. k
           PROVE  Dir(Dir(ent, k), n) = Dir(ent, n)
        <3>1. SubSeq(SubSeq(ds, 1, k), 1, n) = SubSeq(ds, 1, n)
            BY <1>1, <2>1, <2>3
        <3> QED
            BY <2>6, <3>1, Zenon DEF Dir
    <2> HIDE DEF k, ds
    <2>11. k \in 0 .. Len(ent.dirs)
        BY <2>1 DEF ds
    <2>12. /\ Parent(ent) = None <=> k < Least
           /\ k >= Least => Parent(ent) = Dir(ent, k)
        BY <1>2, <2>5, <2>7
    <2>13. k >= Least =>
             /\ Reached(Parent(ent)) /\ Above(Parent(ent)) = k - 1
             /\ \A n \in 0 .. k : Dir(Parent(ent), n) = Dir(ent, n)
        BY <2>8, <2>9, <2>10, <2>12
    <2> QED
        BY <2>11, <2>12, <2>13 DEF k
<1> QED
    BY <1>3, <1>4

LEMMA AroundStep ==
    ASSUME NEW ent, Reached(ent)
    PROVE  LET A == Around(ent)
               B == Around(Parent(ent))
           IN  \E m \in Nat :
                 /\ DOMAIN A = 1 .. m + 1 /\ A[1] = ent
                 /\ Parent(ent) = None => m = 0
                 /\ Parent(ent) # None =>
                      DOMAIN B = 1 .. m /\ \A i \in 1 .. m : A[i + 1] = B[i]
<1> DEFINE A == Around(ent)
           B == Around(Parent(ent))
           k == Above(ent) + 1 - Least
<1>1. /\ Above(ent) \in Int /\ Least \in {0, 1}
      /\ DOMAIN A = 1 .. (IF k > 0 THEN k ELSE 0) + 1 /\ A[1] = ent
      /\ \A i \in DOMAIN A : i > 1 => A[i] = Dir(ent, Above(ent) + 2 - i)
    BY AroundIs
<1> HIDE DEF A, B
<1>2. CASE Parent(ent) = None
    <2>1. Above(ent) < Least
        BY <1>2, ParentIs
    <2>2. DOMAIN A = 1 .. 0 + 1 /\ A[1] = ent
        BY <1>1, <2>1
    <2> QED
        BY <1>2, <2>2 DEF A
<1>3. CASE Parent(ent) # None
    <2> DEFINE p == Parent(ent)
    <2>1. /\ Above(ent) >= Least /\ Above(ent) \in 0 .. Len(ent.dirs)
          /\ p = Dir(ent, Above(ent)) /\ Reached(p) /\ Above(p) = Above(ent) - 1
          /\ \A n \in 0 .. Above(ent) : Dir(p, n) = Dir(ent, n)
        BY <1>1, <1>3, ParentIs
    <2>2. Len(ent.dirs) \in Nat
        BY DEF Reached
    <2> HIDE DEF p
    <2>3. /\ DOMAIN Around(p) = 1 .. (IF k - 1 > 0 THEN k - 1 ELSE 0) + 1
          /\ Around(p)[1] = p
          /\ \A i \in DOMAIN Around(p) : i > 1 => Around(p)[i] = Dir(p, Above(p) + 2 - i)
        <3>1. Above(p) + 1 - Least = k - 1
            BY <1>1, <2>1
        <3> QED
            BY <2>1, <3>1, AroundIs
    <2>4. B = Around(p)
        BY DEF B, p
    <2>5. k \in Nat /\ k > 0
        BY <1>1, <2>1
    <2>6. DOMAIN A = 1 .. k + 1 /\ DOMAIN B = 1 .. k
        BY <1>1, <2>3, <2>4, <2>5
    <2>7. ASSUME NEW i \in 1 .. k
          PROVE  A[i + 1] = B[i]
        <3>1. A[i + 1] = Dir(ent, Above(ent) + 1 - i)
            <4>1. i + 1 \in DOMAIN A /\ i + 1 > 1 /\ Above(ent) + 2 - (i + 1) = Above(ent) + 1 - i
                BY <1>1, <2>5, <2>6
            <4> HIDE DEF k
            <4> QED
                BY <1>1, <4>1
        <3>2. CASE i = 1
            BY <1>1, <2>1, <2>3, <2>4, <3>1, <3>2
        <3>3. CASE i > 1
            <4>1. B[i] = Dir(p, Above(ent) + 1 - i)
                BY <1>1, <2>1, <2>3, <2>4, <2>6, <3>3, SMTT(30)
            <4>2. Above(ent) + 1 - i \in 0 .. Above(ent)
                BY <1>1, <2>1, <2>2, <3>3
            <4> QED
                BY <2>1, <3>1, <4>1, <4>2
        <3> QED
            BY <2>5, <3>2, <3>3
    <2> QED
        BY <1>1, <1>3, <2>5, <2>6, <2>7 DEF A, B
<1> QED
    BY <1>2, <1>3

Speaks(ent, name, method) ==
    {method, "default"} \cap DOMAIN Auth(ent, name).perm # {}

Spoken(ent, name, method) ==
    LET perm == Auth(ent, name).perm
    IN  IF method \in DOMAIN perm THEN perm[method] ELSE perm["default"]

Hits(e, name, method) ==
    {i \in DOMAIN Around(e) : Speaks(Around(e)[i], name, method)}

LEMMA SaysIs ==
    ASSUME NEW e, Reached(e), NEW name, NEW method
    PROVE  LET hits == Hits(e, name, method)
           IN  /\ hits \in SUBSET Nat /\ hits \subseteq DOMAIN Around(e)
               /\ Says(e, name, method) =
                    IF hits = {} \/ \E i \in 1 .. Min(hits) - 1 :
                                       Auth(Around(e)[i], name).inherit THEN None
                    ELSE Spoken(Around(e)[Min(hits)], name, method)
<1> DEFINE A == Around(e)
           rule == [i \in DOMAIN A |-> Auth(A[i], name)]
           hits == {i \in DOMAIN rule : {method, "default"} \cap DOMAIN rule[i].perm # {}}
           perm == rule[Min(hits)].perm
           H == Hits(e, name, method)
           k == Above(e) + 1 - Least
<1>1. k \in Int /\ DOMAIN A = 1 .. (IF k > 0 THEN k ELSE 0) + 1
    BY AroundIs
<1>2. PICK m \in Nat : DOMAIN A = 1 .. m
    BY <1>1
<1>3. Says(e, name, method) =
        IF hits = {} \/ \E i \in 1 .. Min(hits) - 1 : rule[i].inherit THEN None
        ELSE IF method \in DOMAIN perm THEN perm[method] ELSE perm["default"]
    BY Zenon DEF Says
<1>4. hits = H
    BY DEF Hits, Speaks
<1> HIDE DEF A
<1>5. H \in SUBSET Nat /\ H \subseteq DOMAIN A
    BY <1>2 DEF Hits, A
<1>6. \A i \in DOMAIN A : rule[i] = Auth(A[i], name)
    OBVIOUS
<1> HIDE DEF H, hits, rule
<1>7. CASE H = {}
    BY <1>3, <1>4, <1>5, <1>7 DEF H, A
<1>8. CASE H # {}
    <2>1. Min(H) \in DOMAIN A
        BY <1>5, <1>8, MinIn
    <2>2. rule[Min(hits)] = Auth(A[Min(H)], name)
        BY <1>4, <1>6, <2>1
    <2>3. \A i \in 1 .. Min(hits) - 1 : rule[i] = Auth(A[i], name)
        BY <1>2, <1>4, <1>6, <2>1
    <2>4. Says(e, name, method) =
            IF \E i \in 1 .. Min(H) - 1 : Auth(A[i], name).inherit THEN None
            ELSE Spoken(A[Min(H)], name, method)
        BY <1>3, <1>4, <1>8, <2>2, <2>3 DEF Spoken
    <2> QED
        BY <1>5, <1>8, <2>4 DEF H, A
<1> QED
    BY <1>7, <1>8

\* The rules say what the entry itself has, or what they say of its parent.
LEMMA SaysStep ==
    ASSUME NEW ent, Reached(ent), NEW name, NEW method
    PROVE  Says(ent, name, method) =
             IF Speaks(ent, name, method) THEN Spoken(ent, name, method)
             ELSE IF Auth(ent, name).inherit \/ Parent(ent) = None THEN None
             ELSE Says(Parent(ent), name, method)
<1> DEFINE A == Around(ent)
           H == Hits(ent, name, method)
<1>1. PICK m \in Nat :
         /\ DOMAIN A = 1 .. m + 1 /\ A[1] = ent
         /\ Parent(ent) = None => m = 0
         /\ Parent(ent) # None =>
              /\ DOMAIN Around(Parent(ent)) = 1 .. m
              /\ \A i \in 1 .. m : A[i + 1] = Around(Parent(ent))[i]
    BY AroundStep
<1>2. /\ H \in SUBSET Nat /\ H \subseteq DOMAIN A
      /\ Says(ent, name, method) =
           IF H = {} \/ \E i \in 1 .. Min(H) - 1 : Auth(A[i], name).inherit THEN None
           ELSE Spoken(A[Min(H)], name, method)
    BY SaysIs
<1>3. \A i \in DOMAIN A : i \in H <=> Speaks(A[i], name, method)
    BY DEF Hits
<1> HIDE DEF A, H
<1>4. CASE Speaks(ent, name, method)
    <2>1. 1 \in H
        BY <1>1, <1>3, <1>4
    <2>2. Min(H) = 1
        <3>1. Min(H) \in H /\ Min(H) <= 1
            BY <1>2, <2>1, MinIn
        <3>2. Min(H) \in 1 .. m + 1
            BY <1>1, <1>2, <3>1
        <3> QED
            BY <3>1, <3>2
    <2>3. H # {} /\ ~(\E i \in 1 .. Min(H) - 1 : Auth(A[i], name).inherit)
        BY <2>1, <2>2
    <2>4. A[Min(H)] = ent
        BY <1>1, <2>2
    <2>5. Says(ent, name, method) = Spoken(A[Min(H)], name, method)
        BY <1>2, <2>3, Zenon
    <2> QED
        BY <1>4, <2>4, <2>5
<1>5. CASE ~Speaks(ent, name, method)
    <2>1. 1 \notin H
        BY <1>1, <1>3, <1>5
    <2>2. CASE Parent(ent) = None
        <3>1. H = {}
            BY <1>1, <1>2, <2>1, <2>2
        <3> QED
            BY <1>2, <1>5, <2>2, <3>1
    <2>3. CASE Parent(ent) # None
        <3> DEFINE p == Parent(ent)
                   B == Around(p)
                   G == Hits(p, name, method)
        <3>1. Reached(p)
            <4>1. Above(ent) \in Int /\ Least \in {0, 1}
                BY AroundIs
            <4>2. Above(ent) >= Least
                BY <2>3, <4>1, ParentIs
            <4> QED
                BY <4>2, ParentIs
        <3>2. DOMAIN B = 1 .. m /\ \A i \in 1 .. m : A[i + 1] = B[i]
            BY <1>1, <2>3
        <3> HIDE DEF p
        <3>3. /\ G \in SUBSET Nat /\ G \subseteq DOMAIN B
              /\ Says(p, name, method) =
                   IF G = {} \/ \E i \in 1 .. Min(G) - 1 : Auth(B[i], name).inherit THEN None
                   ELSE Spoken(B[Min(G)], name, method)
            BY <3>1, SaysIs
        <3>4. \A i \in DOMAIN B : i \in G <=> Speaks(B[i], name, method)
            BY DEF Hits
        <3> HIDE DEF B, G
        <3>5. \A i \in 1 .. m : i + 1 \in H <=> i \in G
            BY <1>1, <1>3, <3>2, <3>4
        <3>6. H = {} <=> G = {}
            <4>1. ASSUME NEW i \in H
                  PROVE  i - 1 \in G
                <5>1. i \in 1 .. m + 1 /\ i # 1
                    BY <1>1, <1>2, <2>1
                <5>2. i - 1 \in 1 .. m /\ (i - 1) + 1 = i
                    BY <5>1
                <5> QED
                    BY <3>5, <5>2
            <4>2. \A i \in G : i + 1 \in H
                BY <3>2, <3>3, <3>5
            <4> QED
                BY <4>1, <4>2
        <3>7. CASE H = {}
            BY <1>2, <1>5, <2>3, <3>3, <3>6, <3>7 DEF p
        <3>8. CASE H # {}
            <4>1. Min(H) \in H /\ \A i \in H : Min(H) <= i
                BY <1>2, <3>8, MinIn
            <4>2. Min(G) \in G /\ \A i \in G : Min(G) <= i
                BY <3>3, <3>6, <3>8, MinIn
            <4>3. Min(G) \in 1 .. m /\ Min(H) \in 2 .. m + 1
                <5>1. Min(G) \in DOMAIN B
                    BY <3>3, <4>2
                <5>2. Min(H) \in DOMAIN A /\ Min(H) # 1
                    BY <1>2, <2>1, <4>1
                <5>3. Min(H) \in 1 .. m + 1
                    BY <1>1, <5>2
                <5> QED
                    BY <3>2, <5>1, <5>2, <5>3
            <4>4. Min(H) = Min(G) + 1
                <5>1. Min(G) + 1 \in H
                    BY <3>5, <4>2, <4>3
                <5>2. Min(H) - 1 \in 1 .. m /\ (Min(H) - 1) + 1 = Min(H)
                    BY <4>3
                <5>3. Min(H) - 1 \in G
                    BY <3>5, <4>1, <5>2
                <5>4. Min(H) <= Min(G) + 1 /\ Min(G) <= Min(H) - 1
                    BY <4>1, <4>2, <5>1, <5>3
                <5> QED
                    BY <4>3, <5>4
            <4>5. A[Min(H)] = B[Min(G)]
                BY <3>2, <4>3, <4>4
            <4>6. (\E i \in 1 .. Min(H) - 1 : Auth(A[i], name).inherit)
                    <=> \/ Auth(ent, name).inherit
                        \/ \E i \in 1 .. Min(G) - 1 : Auth(B[i], name).inherit
                <5>1. ASSUME NEW i \in 1 .. Min(H) - 1
                      PROVE  i = 1 \/ (i - 1 \in 1 .. Min(G) - 1 /\ A[i] = B[i - 1])
                    <6>1. i = 1 \/ (i - 1 \in 1 .. Min(G) - 1 /\ i - 1 \in 1 .. m
                                   /\ (i - 1) + 1 = i)
                        BY <4>3, <4>4
                    <6> QED
                        BY <3>2, <6>1
                <5>2. \A i \in 1 .. Min(G) - 1 :
                         i + 1 \in 1 .. Min(H) - 1 /\ A[i + 1] = B[i]
                    BY <3>2, <4>3, <4>4
                <5>3. 1 \in 1 .. Min(H) - 1 /\ A[1] = ent
                    BY <1>1, <4>3
                <5> QED
                    BY <5>1, <5>2, <5>3
            <4> QED
                BY <1>2, <1>5, <2>3, <3>3, <3>6, <3>8, <4>5, <4>6 DEF p
        <3> QED
            BY <3>7, <3>8
    <2> QED
        BY <2>2, <2>3
<1> QED
    BY <1>4, <1>5

LEMMA EntryReached ==
    ASSUME NEW e \in Entries, e.file \notin ShortNames
    PROVE  /\ Reached(e) /\ e.dirs # <<>> /\ e # None
           /\ \A n \in 0 .. Len(e.dirs) : Reached(Dir(e, n)) /\ Dir(e, n) # None
<1>1. /\ e = Entry(e.dirs, e.file) /\ e.dirs \in Seq(STRING) /\ e.dirs # <<>>
      /\ None \notin [dirs : Seq(STRING), file : {None, e.file}]
    BY EntriesAssumption
<1>2. e # None
    BY <1>1 DEF Entry
<1>3. ASSUME NEW n \in 0 .. Len(e.dirs)
      PROVE  Reached(Dir(e, n)) /\ Dir(e, n) # None
    <2>1. SubSeq(e.dirs, 1, n) \in Seq(STRING)
        BY <1>1
    <2>2. /\ Dir(e, n).dirs = SubSeq(e.dirs, 1, n) /\ Dir(e, n).file = None
          /\ Dir(e, n) = Entry(Dir(e, n).dirs, Dir(e, n).file)
          /\ Dir(e, n) \in [dirs : Seq(STRING), file : {None, e.file}]
        BY <2>1 DEF Dir, Entry
    <2>3. [dirs : Seq(STRING), file : {None, None}]
              \subseteq [dirs : Seq(STRING), file : {None, e.file}]
        OBVIOUS
    <2> QED
        BY <1>1, <2>1, <2>2, <2>3, NamesAssumption DEF Reached
<1> QED
    BY <1>1, <1>2, <1>3 DEF Reached

\* The loop goes from an entry it visits to another, a directory nearer to
\* the root.
LEMMA NextVisited ==
    ASSUME NEW e \in Entries, e.file \notin ShortNames
    PROVE  /\ Parent(e) \in {None} \cup {Dir(e, n) : n \in 0 .. Len(e.dirs)}
           /\ \A n \in 0 .. Len(e.dirs) :
                 Parent(Dir(e, n)) = None
                 \/ (n > 0 /\ Parent(Dir(e, n)) = Dir(e, n - 1))
<1>1. /\ Reached(e) /\ e.dirs \in Seq(STRING)
      /\ \A n \in 0 .. Len(e.dirs) : Reached(Dir(e, n))
    BY EntryReached DEF Reached
<1>2. Parent(e) \in {None} \cup {Dir(e, n) : n \in 0 .. Len(e.dirs)}
    <2>1. Above(e) \in Int /\ Least \in {0, 1}
        BY <1>1, AroundIs
    <2>2. Above(e) < Least \/ Above(e) >= Least
        BY <2>1
    <2> QED
        BY <1>1, <2>2, ParentIs
<1>3. ASSUME NEW n \in 0 .. Len(e.dirs)
      PROVE  Parent(Dir(e, n)) = None \/ (n > 0 /\ Parent(Dir(e, n)) = Dir(e, n - 1))
    <2> DEFINE d == Dir(e, n)
    <2>1. d.dirs = SubSeq(e.dirs, 1, n) /\ d.file = None
        BY DEF Dir, Entry
    <2>2. Len(d.dirs) = n
        BY <1>1, <2>1
    <2>3. Above(d) = n - 1 /\ Least \in {0, 1}
        BY <2>1, <2>2 DEF Above, Least
    <2>4. Reached(d)
        BY <1>1
    <2>5. CASE Above(d) < Least
        BY <2>4, <2>5, ParentIs
    <2>6. CASE Above(d) >= Least
        <3>1. n > 0 /\ n - 1 \in 0 .. n
            BY <2>3, <2>6
        <3>2. Parent(d) = Dir(d, n - 1)
            BY <2>3, <2>4, <2>6, ParentIs
        <3>3. SubSeq(SubSeq(e.dirs, 1, n), 1, n - 1) = SubSeq(e.dirs, 1, n - 1)
            BY <1>1, <3>1
        <3>4. Dir(d, n - 1) = Dir(e, n - 1)
            BY <2>1, <3>3, Zenon DEF Dir
        <3> QED
            BY <3>1, <3>2, <3>4
    <2>7. Above(d) \in Int
        BY <2>3
    <2> QED
        BY <2>3, <2>5, <2>6, <2>7
<1> QED
    BY <1>2, <1>3

\* The loop over the directories finds what the rules say.
LEMMA PermissionRight ==
    ASSUME NEW e \in Entries, e.file \notin ShortNames, NEW name, NEW method
    PROVE  Permission(e, name, method) = Says(e, name, method)
<1> DEFINE D == {None, e} \cup {Entry(SubSeq(e.dirs, 1, n), None) : n \in 0 .. Len(e.dirs)}
           Round(f, ent) ==
               IF ent = None THEN None
               ELSE LET perm == Auth(ent, name).perm
                    IN  IF method \in DOMAIN perm THEN perm[method]
                        ELSE IF "default" \in DOMAIN perm THEN perm["default"]
                        ELSE IF Auth(ent, name).inherit THEN None
                        ELSE f[Parent(ent)]
           W == [ent \in D |-> IF ent = None THEN None ELSE Says(ent, name, method)]
           walk == CHOOSE f : f = [ent \in D |-> Round(f, ent)]
<1>1. Permission(e, name, method) = walk[e]
    BY Zenon DEF Permission
<1>2. ASSUME NEW f, NEW ent
      PROVE  Round(f, ent) =
               IF ent = None THEN None
               ELSE IF Speaks(ent, name, method) THEN Spoken(ent, name, method)
               ELSE IF Auth(ent, name).inherit THEN None
               ELSE f[Parent(ent)]
    BY DEF Speaks, Spoken
<1>3. D = {None, e} \cup {Dir(e, n) : n \in 0 .. Len(e.dirs)}
    BY DEF Dir
<1> HIDE DEF Round, D
<1>4. ASSUME NEW ent \in D, ent # None
      PROVE  Reached(ent) /\ Parent(ent) \in D
    <2>1. CASE ent = e
        BY <1>3, <2>1, EntryReached, NextVisited
    <2>2. CASE \E n \in 0 .. Len(e.dirs) : ent = Dir(e, n)
        <3>1. PICK n \in 0 .. Len(e.dirs) : ent = Dir(e, n)
            BY <2>2
        <3>2. Reached(ent)
            BY <3>1, EntryReached
        <3>3. Parent(ent) = None \/ (n > 0 /\ Parent(ent) = Dir(e, n - 1))
            BY <3>1, NextVisited
        <3>4. n > 0 => n - 1 \in 0 .. Len(e.dirs)
            BY EntriesAssumption
        <3> QED
            BY <1>3, <3>2, <3>3, <3>4
    <2> QED
        BY <1>3, <1>4, <2>1, <2>2
<1>5. ASSUME NEW ent \in D
      PROVE  W[ent] = Round(W, ent)
    <2>1. CASE ent = None
        BY <1>2, <2>1
    <2>2. CASE ent # None
        <3>1. Reached(ent) /\ Parent(ent) \in D
            BY <1>4, <2>2
        <3>2. W[ent] = Says(ent, name, method)
            BY <2>2
        <3>3. W[Parent(ent)] = IF Parent(ent) = None THEN None
                               ELSE Says(Parent(ent), name, method)
            BY <3>1
        <3>4. Says(ent, name, method) =
                 IF Speaks(ent, name, method) THEN Spoken(ent, name, method)
                 ELSE IF Auth(ent, name).inherit \/ Parent(ent) = None THEN None
                 ELSE Says(Parent(ent), name, method)
            BY <3>1, SaysStep
        <3>5. Round(W, ent) =
                 IF Speaks(ent, name, method) THEN Spoken(ent, name, method)
                 ELSE IF Auth(ent, name).inherit THEN None
                 ELSE W[Parent(ent)]
            BY <1>2, <2>2
        <3> HIDE DEF W
        <3> QED
            BY <3>2, <3>3, <3>4, <3>5
    <2> QED
        BY <2>1, <2>2
<1>6. W = [ent \in D |-> Round(W, ent)]
    <2>1. W = [ent \in D |-> W[ent]]
        OBVIOUS
    <2> HIDE DEF W
    <2> QED
        BY <1>5, <2>1
<1> HIDE DEF W
<1>7. walk = [ent \in D |-> Round(walk, ent)]
    BY <1>6
<1> HIDE DEF walk
<1>8. ASSUME NEW ent \in D
      PROVE  walk[ent] = Round(walk, ent)
    BY <1>7
<1>9. None \in D => walk[None] = None /\ W[None] = None
    BY <1>2, <1>8 DEF W
<1>10. ASSUME NEW ent \in D, ent # None, walk[Parent(ent)] = W[Parent(ent)]
       PROVE  walk[ent] = W[ent]
    BY <1>2, <1>5, <1>8, <1>10
<1>11. \A n \in 0 .. Len(e.dirs) : walk[Dir(e, n)] = W[Dir(e, n)]
    <2> DEFINE T == {n \in 0 .. Len(e.dirs) : walk[Dir(e, n)] # W[Dir(e, n)]}
    <2> SUFFICES ASSUME T # {}
                 PROVE  FALSE
        OBVIOUS
    <2>1. Len(e.dirs) \in Nat
        BY EntriesAssumption
    <2>2. T \in SUBSET Nat
        BY <2>1
    <2>3. PICK n \in T : \A m \in T : n <= m
        BY <2>2, LeastNatural
    <2>4. n \in 0 .. Len(e.dirs) /\ n \in Nat /\ Dir(e, n) \in D /\ Dir(e, n) # None
        BY <1>3, <2>2, <2>3, EntryReached
    <2>5. Parent(Dir(e, n)) = None \/ (n > 0 /\ Parent(Dir(e, n)) = Dir(e, n - 1))
        BY <2>4, NextVisited
    <2>6. n > 0 => n - 1 \in 0 .. Len(e.dirs) /\ n - 1 \notin T
        BY <2>1, <2>3, <2>4
    <2>7. walk[Parent(Dir(e, n))] = W[Parent(Dir(e, n))]
        BY <1>3, <1>9, <2>5, <2>6
    <2>8. walk[Dir(e, n)] = W[Dir(e, n)]
        BY <1>10, <2>4, <2>7
    <2> QED
        BY <2>3, <2>8
<1>12. walk[e] = W[e]
    <2>1. e \in D /\ e # None
        BY <1>3, EntryReached
    <2>2. walk[Parent(e)] = W[Parent(e)]
        BY <1>3, <1>9, <1>11, NextVisited
    <2> QED
        BY <1>10, <2>1, <2>2
<1>13. W[e] = Says(e, name, method)
    BY <1>3, EntryReached DEF W
<1> QED
    BY <1>1, <1>12, <1>13 DEF walk

(***************************************************************************)
(* A nonce is kept under a key that RandomKey returned, for a domain that  *)
(* has rules, and its time is not in the future (auth.go:31-37, 93-114).   *)
(***************************************************************************)
THEOREM TypeCorrect == Spec => []TypeOK
<1>1. Inv => TypeOK
    <2> SUFFICES ASSUME Inv
                 PROVE  TypeOK
        OBVIOUS
    <2>1. /\ clock \in 0 .. MaxClock /\ restarts \in 0 .. MaxRestarts
          /\ visits \in 0 .. MaxVisits + MaxReplies /\ generated \in 0 .. Len(Nonces)
        BY DEF Inv, BaseInv
    <2>2. DOMAIN nonces \subseteq {Nonces[i] : i \in 1 .. generated}
        BY DEF Inv, BaseInv, Generated
    <2>3. clock \in Nat
        BY <2>1, TimeAssumption
    <2>4. ASSUME NEW n \in DOMAIN nonces
          PROVE  /\ nonces[n].time \in 0 .. clock
                 /\ nonces[n].opaque = Opaque[n] /\ nonces[n].domain \in Range(Names)
        BY <2>3 DEF Inv, BaseInv, Stored, Domains
    <2>5. ASSUME NEW c \in Clients
          PROVE  /\ handler[c].pc \in {"idle", "purge", "digest", "issue"}
                 /\ handler[c].now \in 0 .. clock
                 /\ answer[c].granted \in BOOLEAN
        BY <2>3 DEF Inv, BaseInv, Handlers, Answers
    <2> QED
        BY <2>1, <2>2, <2>4, <2>5 DEF TypeOK
<1> QED
    BY Invariant, <1>1, PTL

(***************************************************************************)
(* A client is told that its nonce is stale only when the nonce has        *)
(* expired or the process that issued it has ended (auth.go:189-193,       *)
(* 267-270).                                                               *)
(***************************************************************************)
THEOREM StaleIsExpired == Spec => []StaleOnlyExpired
<1>1. Inv => StaleOnlyExpired
    <2> SUFFICES ASSUME Inv, NEW c \in Clients, handler[c].pc # "idle", handler[c].stale,
                        handler[c].req.basis # None
                 PROVE  LET b == handler[c].req.basis
                        IN  b.ch.process # restarts \/ b.ch.time + Validity <= clock
        BY Zenon DEF StaleOnlyExpired
    <2>1. HandlerOK(handler[c]) /\ handler[c] \in Handlers
        BY DEF Inv, HandlersInv, BaseInv
    <2>2. StaleOK(handler[c])
        BY <2>1 DEF HandlerOK, Handlers
    <2> QED
        BY <2>2 DEF StaleOK
<1> QED
    BY Invariant, <1>1, PTL

\* Who proves something has rules that list the domain.
LEMMA ProvenListed ==
    ASSUME NEW q, ReqOK(q), NEW t
    PROVE  /\ Proven(q, t) \subseteq authList[q.entry]
           /\ Proven(q, t) \cup {Anonymous} \subseteq Range(Names)
<1>1. q \in Requested /\ q.entry \in Entries
    BY DEF ReqOK, Requested
<1>2. CertNames(q) \subseteq authList[q.entry]
    BY DEF CertNames
<1>3. ASSUME q.basis # None, Knows(q)
      PROVE  q.basis.ch.domain \in authList[q.entry]
    <2> DEFINE n == q.basis.ch.domain
    <2>1. q.basis \in Bases
        BY <1>1, <1>3 DEF Requested
    <2>2. n \in Range(Names) \ {Anonymous}
        BY <2>1 DEF Bases, Challenges
    <2>3. DOMAIN Auth(q.entry, n).users # {}
        BY <1>3 DEF Knows
    <2>4. <<q.entry, n>> \in DOMAIN Rules
        <3>1. DOMAIN NoRule.users = {}
            BY DEF NoRule
        <3> QED
            BY <2>3, <3>1 DEF Auth
    <2> QED
        BY <1>1, <2>2, <2>4 DEF authList
<1>4. Proven(q, t) \subseteq authList[q.entry]
    BY <1>2, <1>3, ProvenIs
<1>5. authList[q.entry] \subseteq Range(Names)
    BY <1>1, AuthListType DEF Domains
<1> QED
    BY <1>4, <1>5, NamesAssumption

\* The permissions that were weighed are what the rules say.
LEMMA SaysPerm ==
    ASSUME NEW q, ReqOK(q), q.entry.file \notin ShortNames, NEW t
    PROVE  \A n \in Proven(q, t) \cup {Anonymous} : Perm(q, n) = Says(q.entry, n, q.method)
<1>1. q \in Requested /\ q.entry \in Entries
    BY DEF ReqOK, Requested
<1> QED
    BY <1>1, ProvenListed, PermIs, PermissionRight

(***************************************************************************)
(* Nobody is let in whom the rules do not let in with a proof that was     *)
(* good when the request arrived, however the handlers' steps interleave   *)
(* and whatever the rules are (auth.go:116-131, 133-239, 281-285,          *)
(* 404-426).                                                               *)
(***************************************************************************)
THEOREM RightlyGranted == Spec => []GrantedRightly
<1>1. Inv => GrantedRightly
    <2> SUFFICES ASSUME Inv, NEW c \in Clients, Decided(c), Authorized(handler[c])
                 PROVE  Entitled(handler[c].req, handler[c].now)
        BY DEF GrantedRightly
    <2> DEFINE h == handler[c]
               q == h.req
               P == Proven(q, h.now) \cup {Anonymous}
               says == {Says(q.entry, n, q.method) : n \in P}
    <2>1. h.pc = "issue" /\ q.entry.file \notin ShortNames /\ h \in Handlers
          /\ ReqOK(q) /\ HandlerOK(h)
        BY HandlerFacts DEF Decided, Inv, HandlersInv
    <2>2. \A n \in P : Perm(q, n) = Says(q.entry, n, q.method)
        BY <2>1, SaysPerm
    <2>3. Entitled(q, h.now) <=>
            IF says = {None} THEN authList[q.entry] = {} ELSE "allow" \in says
        BY DEF Entitled
    <2>4. IF h.allow THEN Allowed(h) ELSE NotAllowed(h)
        BY <2>1 DEF HandlerOK
    <2>5. IF h.found THEN h.allow ELSE h.auths = {} /\ h.offers = <<>>
        BY DEF Authorized
    <2>6. h.auths = {} /\ h.offers = <<>> <=> authList[q.entry] = {}
        BY <2>1 DEF HandlerOK
    <2>7. CASE h.allow
        <3>1. \E n \in P : Perm(q, n) = "allow"
            BY <2>4, <2>7 DEF Allowed
        <3>2. "allow" \in says
            BY <2>2, <3>1
        <3>3. says # {None}
            BY <3>2, NamesAssumption
        <3> QED
            BY <2>3, <3>2, <3>3
    <2>8. CASE ~h.allow
        <3>1. ~h.found /\ authList[q.entry] = {}
            BY <2>1, <2>5, <2>6, <2>8
        <3>2. Proven(q, h.now) = {}
            BY <2>1, <3>1, ProvenListed
        <3>3. PICK W \in SUBSET P : Anonymous \in W /\ Weighed(h, W)
            BY <2>4, <2>8 DEF NotAllowed
        <3>4. Perm(q, Anonymous) = None
            BY <3>1, <3>3 DEF Weighed
        <3>5. says = {None}
            BY <2>2, <3>2, <3>4
        <3> QED
            BY <2>3, <3>1, <3>5
    <2> QED
        BY <2>7, <2>8
<1> QED
    BY Invariant, <1>1, PTL

(***************************************************************************)
(* Nobody is turned away whose proof is still good when the decision is    *)
(* there: neither another handler's purge nor a request that was slower    *)
(* takes a good nonce away (auth.go:84-91, 116-131).                       *)
(***************************************************************************)
THEOREM RightlyDenied == Spec => []DeniedRightly
<1>1. Inv => DeniedRightly
    <2> SUFFICES ASSUME Inv, NEW c \in Clients, Decided(c), ~Authorized(handler[c]),
                        Entitled(handler[c].req, clock)
                 PROVE  FALSE
        BY DEF DeniedRightly
    <2> DEFINE h == handler[c]
               q == h.req
               P == Proven(q, clock) \cup {Anonymous}
               says == {Says(q.entry, n, q.method) : n \in P}
    <2>1. h.pc = "issue" /\ q.entry.file \notin ShortNames /\ h \in Handlers
          /\ ReqOK(q) /\ HandlerOK(h)
        BY HandlerFacts DEF Decided, Inv, HandlersInv
    <2>2. \A n \in P : Perm(q, n) = Says(q.entry, n, q.method)
        BY <2>1, SaysPerm
    <2>3. IF says = {None} THEN authList[q.entry] = {} ELSE "allow" \in says
        BY DEF Entitled
    <2>4. IF h.allow THEN Allowed(h) ELSE NotAllowed(h)
        BY <2>1 DEF HandlerOK
    <2>5. ~(IF h.found THEN h.allow ELSE h.auths = {} /\ h.offers = <<>>)
        BY DEF Authorized
    <2>6. h.auths = {} /\ h.offers = <<>> <=> authList[q.entry] = {}
        BY <2>1 DEF HandlerOK
    <2>7. ~h.allow
        BY <2>4, <2>5 DEF Allowed
    <2>8. PICK W \in SUBSET (Proven(q, h.now) \cup {Anonymous}) :
             P \subseteq W /\ Weighed(h, W)
        BY <2>4, <2>7 DEF NotAllowed
    <2>9. "allow" \notin says
        BY <2>2, <2>8 DEF Weighed
    <2>10. says = {None} /\ authList[q.entry] = {}
        BY <2>3, <2>9
    <2>11. h.found
        BY <2>5, <2>6, <2>10
    <2>12. Proven(q, h.now) = {}
        BY <2>1, <2>10, ProvenListed
    <2>13. Perm(q, Anonymous) # None
        BY <2>8, <2>11, <2>12 DEF Weighed
    <2>14. Says(q.entry, Anonymous, q.method) \in says
        OBVIOUS
    <2> QED
        BY <2>2, <2>10, <2>13, <2>14
<1> QED
    BY Invariant, <1>1, PTL

LEMMA RealmsAreTexts == \A ch \in Challenges : Ascii(ch.realm) => ch.realm \in Seq(Char)
<1> SUFFICES ASSUME NEW ch \in Challenges, Ascii(ch.realm)
             PROVE  ch.realm \in Seq(Char)
    OBVIOUS
<1>1. PICK e \in Entries, n \in Range(Names) : ch.realm = Auth(e, n).realm
    BY DEF Challenges
<1>2. CASE <<e, n>> \in DOMAIN Rules
    <2>1. ch.realm \in Seq(STRING)
        BY <1>1, <1>2, WordsAssumption DEF Auth
    <2>2. \A c \in Range(ch.realm) : c \notin DOMAIN Utf8
        BY Zenon DEF Ascii
    <2>3. \A i \in 1 .. Len(ch.realm) :
             ch.realm[i] \in Range(ch.realm) /\ ch.realm[i] \in STRING
        BY <2>1 DEF Range
    <2>4. \A i \in 1 .. Len(ch.realm) : ch.realm[i] \in Char
        BY <2>2, <2>3, StringsAreCharacters, Zenon
    <2> QED
        BY <2>1, <2>4
<1>3. CASE <<e, n>> \notin DOMAIN Rules
    <2>1. ch.realm = <<>>
        BY <1>1, <1>3 DEF Auth, NoRule
    <2> QED
        BY <2>1
<1> QED
    BY <1>2, <1>3

(* The challenge that a handler has last made ready is read back as one    *)
(* Digest method with the very parameters that went in, for any realm of   *)
(* ASCII characters, whatever quotes, backslashes and separators it has    *)
(* (auth.go:54-56, 263-278, headerparse.peg).                              *)
THEOREM ChallengesAreReadable == Spec => []ChallengesReadable
<1>1. Inv => ChallengesReadable
    <2> SUFFICES ASSUME Inv, NEW c \in Clients, handler[c].offers # <<>>,
                        Ascii(Last(handler[c].offers).realm)
                 PROVE  LET ch == Last(handler[c].offers)
                            read == Methods(ChallengeText(ch))
                            Field(key) == Get(read[1].Params, key)
                        IN  /\ Len(read) = 1 /\ read[1].Name = <<"Digest">>
                            /\ Field("realm") = ch.realm /\ Field("nonce") = <<ch.nonce>>
                            /\ Field("opaque") = <<ch.opaque>>
                            /\ Field("stale") = IF ch.stale THEN <<"true">> ELSE <<>>
                            /\ Digest(read[1]).supported
        BY Zenon DEF ChallengesReadable
    <2> DEFINE s == handler[c].offers
               ch == Last(s)
               read == Methods(ChallengeText(ch))
    <2>1. s \in Seq(Challenges)
        BY DEF Inv, BaseInv, Handlers
    <2>2. \A i \in DOMAIN s : s[i].opaque = Opaque[s[i].nonce]
        BY DEF Inv, ChallengesInv, ChallengeOK
    <2>3. ch \in Challenges /\ ch.opaque = Opaque[ch.nonce]
        <3>1. s # <<>>
            OBVIOUS
        <3> HIDE DEF s
        <3>2. Len(s) \in DOMAIN s /\ ch = s[Len(s)]
            BY <2>1, <3>1 DEF Last
        <3> QED
            BY <2>1, <2>2, <3>2
    <2>0. Ascii(ch.realm)
        OBVIOUS
    <2> HIDE DEF s, ch
    <2>4. ch.nonce \in Range(Nonces) /\ ch.stale \in BOOLEAN
        BY <2>3 DEF Challenges
    <2>5. ch.nonce \in Plain /\ ch.opaque \in Plain
        BY <2>3, <2>4, NonceWords, Zenon
    <2>6. ch.realm \in Seq(Char)
        BY <2>0, <2>3, RealmsAreTexts
    <2>7. PICK P : /\ Execute(start(ChallengeText(ch)).val)
                           = [panics |-> FALSE, methods |-> <<Method(P)>>]
                   /\ Get(P, "realm") = ch.realm /\ Get(P, "nonce") = <<ch.nonce>>
                   /\ Get(P, "opaque") = <<ch.opaque>>
                   /\ Get(P, "stale") = IF ch.stale THEN <<"true">> ELSE <<>>
                   /\ Get(P, "algorithm") = <<"MD5">> /\ Get(P, "qop") = <<"auth">>
        BY <2>4, <2>5, <2>6, ChallengeReads, Zenon
    <2> DEFINE x == Method(P)
    <2>8. x.Name = <<"Digest">> /\ x.Params = P
        BY DEF Method
    <2>9. Digest(x).supported
        <3>1. Digest(x).supported = (/\ x.Name = <<"Digest">>
                                     /\ Get(x.Params, "algorithm") = <<"MD5">>
                                     /\ Get(x.Params, "qop") = <<"auth">>)
            <4> HIDE DEF x
            <4> QED
                BY DEF Digest
        <3> HIDE DEF x
        <3> QED
            BY <2>7, <2>8, <3>1, Zenon
    <2> HIDE DEF x
    <2>10. read = <<x>>
        <3>1. read = Execute(start(ChallengeText(ch)).val).methods
            BY Zenon DEF Methods
        <3> DEFINE done == Execute(start(ChallengeText(ch)).val)
        <3>2. done = [panics |-> FALSE, methods |-> <<x>>]
            BY <2>7 DEF x
        <3> HIDE DEF done
        <3>3. done.methods = <<x>>
            BY <3>2
        <3> QED
            BY <3>1, <3>3, Zenon DEF done
    <2> HIDE DEF read
    <2>11. Len(read) = 1 /\ read[1] = x
        BY <2>10
    <2> QED
        BY <2>7, <2>8, <2>9, <2>11, Zenon DEF read, ch, s
<1> QED
    BY Invariant, <1>1, PTL

=============================================================================
