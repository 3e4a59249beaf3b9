--------------------------- MODULE Authenticator ---------------------------
(***************************************************************************)
(* Who may do what on the first server (server/auth.go): the rules kept in *)
(* the auth parameters of entries, and the nonces of Digest authentication,*)
(* a map of the process that every handler reads and writes.  ServeHTTP    *)
(* has a value receiver, so each handler locks a copy of the mutex and the *)
(* steps of two handlers interleave.                                       *)
(*                                                                         *)
(* An entry is [dirs, file]: the names from the host's directory down, and *)
(* the last name, or None for a directory.  The hashes of a Digest         *)
(* response are abstracted to the password they were computed with: the    *)
(* other values are those of the request itself.                           *)
(***************************************************************************)
EXTENDS HeaderParser, FiniteSets

CONSTANTS
    Visitors,   \* clients that send any request of Requests
    Member,     \* a client that answers challenges until it is let in
    Requests,   \* what visitors send, and
    Replies,    \* those they send again as an answer to a challenge
    MemberRequest, Password, \* the member's request; the right password
    Realm,      \* the realm the member has a password for
    Rules,      \* auth parameters: a function of <<entry, name>>
    Names,      \* the names in Rules, sorted
    ShortNames, \* file names of one or two characters
    RootHasDot, \* the last name in the server's path has a dot
    Nonces,     \* keys RandomKey returns, and
    Opaque,     \* the opaque value that comes with each
    Validity,   \* nonceValidity, in ticks
    MaxClock, MaxRestarts, MaxVisits, MaxReplies, \* bounds
    None

Clients == Visitors \cup {Member}
Anonymous == "anonymous"
NoRule == [perm |-> [m \in {} |-> "deny"], users |-> [u \in {} |-> None],
           certs |-> {}, realm |-> <<>>, inherit |-> FALSE]

ASSUME NoncesAssumption ==
    /\ Nonces \in Seq(STRING) /\ IsInjective(Nonces) /\ None \notin Range(Nonces)
    /\ Opaque \in [Range(Nonces) -> STRING] /\ IsInjective(Opaque)
ASSUME TimeAssumption == Validity \in Nat \ {0} /\ MaxClock \in Nat
ASSUME BoundsAssumption ==
    MaxRestarts \in Nat /\ MaxVisits \in Nat /\ MaxReplies \in Nat
ASSUME NamesAssumption ==
    /\ Names \in Seq(STRING) /\ Anonymous \in Range(Names)
    /\ None \notin {"allow", "deny"} /\ None \notin ShortNames
    /\ \A k \in DOMAIN Rules : \A u \in DOMAIN Rules[k].users : Rules[k].users[u] # None

\* RandomKey returns base64 (auth.go:48-52), and a response is hexadecimal
\* digits: neither has a character that is quoted or one beyond ASCII, nor has
\* a word of the protocol.  A realm is any text.
ASSUME WordsAssumption ==
    /\ (Range(Nonces) \cup Range(Opaque) \cup {Password}) \cap {Quote, Backslash} = {}
    /\ (Range(Nonces) \cup Range(Opaque) \cup {Password}) \cap DOMAIN Utf8 = {}
    /\ {"Digest", "realm", "domain", "nonce", "opaque", "stale", "algorithm", "qop",
        "username", "response", "true", "MD5", "auth", "guest", "member", "wrong"}
          \cap DOMAIN Utf8 = {}
    /\ \A k \in DOMAIN Rules : Rules[k].realm \in Seq(STRING)

VARIABLES
    clock,
    nonces,    \* auth.nonces
    generated, \* keys RandomKey has returned
    handler,   \* the handler that serves each client
    answer,    \* what each client was last told
    visits,    \* requests sent by visitors
    restarts

vars == <<clock, nonces, generated, handler, answer, visits, restarts>>

-----------------------------------------------------------------------------
(* Entries and their rules (server/filesystem.go) *)

Entry(dirs, file) == [dirs |-> dirs, file |-> file]

\* Parent cuts four characters off the path and goes to the directory that
\* is left: behind a short name it has cut into the directory's name.
Enclosing(e) ==
    IF e.file = None \/ e.file \in ShortNames THEN Front(e.dirs) ELSE e.dirs

\* The host's directory has the server's root as its parent if a dot is
\* found in its path.
Parent(e) ==
    IF e.dirs = <<>> THEN None
    ELSE IF Enclosing(e) = <<>> /\ ~RootHasDot THEN None
    ELSE Entry(Enclosing(e), None)

Auth(e, name) ==
    IF <<e, name>> \in DOMAIN Rules THEN Rules[<<e, name>>] ELSE NoRule

\* allow or deny, or None when no permission is found.  Exists tells the
\* opposite of its name (75-78): an inherit mark stops the search.
Permission(e, name, method) ==
    LET walk[ent \in {None, e} \cup {Entry(SubSeq(e.dirs, 1, n), None) :
                                       n \in 0 .. Len(e.dirs)}] ==
            IF ent = None THEN None
            ELSE LET perm == Auth(ent, name).perm
                 IN  IF method \in DOMAIN perm THEN perm[method]
                     ELSE IF "default" \in DOMAIN perm THEN perm["default"]
                     ELSE IF Auth(ent, name).inherit THEN None
                     ELSE walk[Parent(ent)]
    IN  walk[e]

Entries == {q.entry : q \in Requests \cup {MemberRequest}}
Verbs == {q.method : q \in Requests \cup {MemberRequest}}

ASSUME EntriesAssumption ==
    /\ RootHasDot \in BOOLEAN
    /\ \A e \in Entries :
          e = Entry(e.dirs, e.file) /\ e.dirs \in Seq(STRING) \ {<<>>}
    /\ \A e \in Entries : None \notin [dirs : Seq(STRING), file : {None, e.file}]

getAuthPerms ==
    [e \in Entries |-> [name \in Range(Names) |->
        [method \in Verbs |-> Permission(e, name, method)]]]

\* The loops over the ancestors read the entry's own parameters each time.
authList ==
    [e \in Entries |->
        {name \in Range(Names) \ {Anonymous} : <<e, name>> \in DOMAIN Rules}]

\* Names are listed in their order.
FirstOf(names) == Names[Min({i \in DOMAIN Names : Names[i] \in names})]

getAuthCreds(e, name, username) ==
    LET users == Auth(e, name).users
    IN  IF username \in DOMAIN users THEN users[username] ELSE None

getAuthCredsCert(e, name, cert) == cert \in Auth(e, name).certs

\* Mutant of DomainPanics: Exists tells what its name says.
DomainPanicsUnmarked(e, name) == ~Auth(e, name).inherit

\* The domain's Entry is set exactly when there is a mark, and getPath of an
\* entry calls a method of its last parent, which is nil.
DomainPanics(e, name) == Auth(e, name).inherit

-----------------------------------------------------------------------------
(* Headers *)

escape(s) ==
    FlattenSeq([i \in DOMAIN s |-> IF s[i] \in {Quote, Backslash} THEN <<Backslash, s[i]>> ELSE <<s[i]>>])

Quoted(s) == <<Quote>> \o s \o <<Quote>>
Param(key, value) == <<key, "=">> \o Quoted(value)

\* WWW-Authenticate: the path of a domain without an Entry is "/".
ChallengeText(c) ==
    <<"Digest", Space>> \o Param("realm", escape(c.realm)) \o <<Comma, Space>>
    \o Param("domain", escape(<<"/">>)) \o <<Comma, Space>>
    \o Param("nonce", <<c.nonce>>) \o <<Comma, Space>>
    \o Param("opaque", <<c.opaque>>)
    \o (IF c.stale THEN <<Comma, Space>> \o Param("stale", <<"true">>) ELSE <<>>)
    \o <<Comma, Space>> \o Param("algorithm", <<"MD5">>)
    \o <<Comma, Space>> \o Param("qop", <<"auth">>)

\* What a client answers.
Credentials(nonce, opaque, username, password) ==
    <<"Digest", Space>> \o Param("username", <<username>>)
    \o <<Comma>> \o Param("nonce", <<nonce>>) \o <<Comma, Space>>
    \o Param("response", <<password>>) \o <<Comma, Space>>
    \o Param("opaque", <<opaque>>)
    \o <<Comma, Space, "algorithm", "=", "MD5", Comma, Space, "qop", "=", "auth">>

Get(params, key) == IF <<key>> \in DOMAIN params THEN params[<<key>>] ELSE <<>>

\* The parameters checkRequest looks at.
Digest(m) ==
    [nonce |-> Get(m.Params, "nonce"), opaque |-> Get(m.Params, "opaque"),
     username |-> Get(m.Params, "username"), response |-> Get(m.Params, "response"),
     supported |-> /\ m.Name = <<"Digest">>
                   /\ Get(m.Params, "algorithm") = <<"MD5">>
                   /\ Get(m.Params, "qop") = <<"auth">>]

\* The texts of Authorization that are sent.
Texts ==
    {q.header : q \in Requests}
    \cup {Credentials(n, Opaque[n], u, p) :
            n \in Range(Nonces), u \in {"guest", "member"}, p \in {Password, "wrong"}}

\* The methods of each text, and whether Execute survives it.
getAuthParams ==
    LET Digests(read) ==
            [read EXCEPT !.methods = [i \in DOMAIN @ |-> Digest(@[i])]]
    IN  [text \in Texts |-> Digests(Execute(start(text).val))]

-----------------------------------------------------------------------------
\* The nonces of visitors' own headers are not those that will be generated.
Digests ==
    [nonce : Seq(STRING), opaque : Seq(STRING), username : Seq(STRING),
     response : Seq(STRING), supported : BOOLEAN]
Foreign ==
    {m \in Digests : m.supported => Len(m.nonce) # 1 \/ m.nonce[1] \notin Range(Nonces)}

\* A request: the header is the text of Authorization, <<>> without one, and
\* basis is history: the challenge it answers, by whom and with what.
Request(entry, method, certs, header) ==
    [entry |-> entry, method |-> method, certs |-> certs, header |-> header,
     basis |-> None]

ASSUME RequestsAssumption ==
    /\ Replies \cup {MemberRequest} \subseteq Requests
    /\ \A q \in Requests :
          /\ q = Request(q.entry, q.method, q.certs, q.header)
          /\ getAuthParams[q.header].methods \in Seq(Foreign)

\* A client's proof: a challenge, a name and a password.
Challenges ==
    [realm : {Auth(e, n).realm : e \in Entries, n \in Range(Names)},
     nonce : Range(Nonces), opaque : STRING, stale : BOOLEAN, time : Nat,
     domain : Range(Names) \ {Anonymous}, process : Nat]
Bases ==
    [ch : Challenges, username : {"guest", "member"}, password : {Password, "wrong"}]

ASSUME BasesAssumption ==
    None \notin Bases /\ {Password, "wrong", "guest", "member"} \subseteq STRING

Reply(q, ch, username, password) ==
    [q EXCEPT !.header = Credentials(ch.nonce, ch.opaque, username, password),
              !.basis = [ch |-> ch, username |-> username, password |-> password]]

NoHandler == [pc |-> "idle", req |-> None, now |-> 0, methods |-> <<>>,
              allow |-> FALSE, found |-> FALSE, stale |-> FALSE,
              auths |-> {}, offers |-> <<>>]

NoAnswer == [granted |-> FALSE, challenges |-> <<>>]

Init ==
    /\ clock = 0 /\ generated = 0
    /\ nonces = [n \in {} |-> None]
    /\ handler = [c \in Clients |-> NoHandler]
    /\ answer = [c \in Clients |-> NoAnswer]
    /\ visits = 0 /\ restarts = 0

Set(c, h) == handler' = [handler EXCEPT ![c] = h]
Keep == UNCHANGED <<clock, visits, restarts>>

\* The clock is read as soon as the request arrives.
Arrive(c, q) ==
    /\ handler[c].pc = "idle"
    /\ Set(c, [NoHandler EXCEPT !.pc = "purge", !.req = q, !.now = clock])
    /\ answer' = [answer EXCEPT ![c] = NoAnswer]
    /\ UNCHANGED <<clock, nonces, generated, restarts>>

\* Mutant of Expired: the nonces of this very tick are expired too.
ExpiredNow(n, now) == n.time <= now

Expired(n, now) == n.time + Validity < now

\* checkRequest returns; the domains to issue challenges for are listed.
Conclude(h) == [h EXCEPT !.pc = "issue", !.auths = authList[h.req.entry]]

\* The permissions of one more name, which conclude if they allow.
Weigh(h, name) ==
    LET perm == getAuthPerms[h.req.entry][name][h.req.method]
        g == [h EXCEPT !.found = @ \/ perm # None]
    IN  IF perm # "allow" THEN g
        ELSE Conclude([g EXCEPT !.allow = TRUE, !.stale = FALSE])

\* The permissions of the anonymous name, when nothing else allows.
CheckAnonymous(h) ==
    Conclude([Weigh(h, Anonymous) EXCEPT !.stale = h.stale])

\* The rules do not change: a step goes on to the next use of the map.
Proceed(h) == IF h.pc = "digest" /\ h.methods = <<>> THEN CheckAnonymous(h) ELSE h

\* The certificates' domains, until one allows.
CheckCertificates(h) ==
    LET e == h.req.entry
        shown == {name \in authList[e] :
                    \E cert \in h.req.certs : getAuthCredsCert(e, name, cert)}
        perms == {getAuthPerms[e][name][h.req.method] : name \in shown}
        g == [h EXCEPT !.found = perms \ {None} # {}]
    IN  IF "allow" \in perms THEN Conclude([g EXCEPT !.allow = TRUE]) ELSE g

\* Old nonces go, the certificates are checked and the header is parsed. A
\* panic closes the connection.
Purge(c) ==
    /\ handler[c].pc = "purge"
    /\ nonces' = Restrict(nonces, {n \in DOMAIN nonces : ~Expired(nonces[n], handler[c].now)})
    /\ \E h \in {CheckCertificates([handler[c] EXCEPT !.pc = "digest"])} :
          LET header == getAuthParams[h.req.header]
          IN  IF h.allow THEN Set(c, h)
              ELSE IF header.panics THEN Set(c, NoHandler)
              ELSE Set(c, Proceed([h EXCEPT !.methods = header.methods]))
    /\ Keep /\ UNCHANGED <<generated, answer>>

\* Mutant of Valid: a nonce is good as long as it is in the map.
ValidWhileKept(n, now) == TRUE

Valid(n, now) == n.time + Validity > now

\* One method of the header; checkNonce drops a nonce that has expired.
CheckDigest(c) ==
    LET h == [handler[c] EXCEPT !.methods = Tail(@)]
        m == Head(handler[c].methods)
        key == IF Len(m.nonce) = 1 THEN m.nonce[1] ELSE None
        issued == key \in DOMAIN nonces
        valid == issued /\ Valid(nonces[key], h.now)
        name == nonces[key].domain
        password == getAuthCreds(h.req.entry, name, m.username)
    IN  /\ handler[c].pc = "digest" /\ handler[c].methods # <<>>
        /\ IF ~m.supported THEN Set(c, Proceed(h)) /\ UNCHANGED nonces
           ELSE IF ~valid
           THEN /\ Set(c, Proceed([h EXCEPT !.stale = TRUE]))
                /\ nonces' = Restrict(nonces, DOMAIN nonces \ {key})
           ELSE /\ IF m.opaque = <<nonces[key].opaque>> /\ password # None
                      /\ m.response = password
                   THEN Set(c, Proceed(Weigh(h, name)))
                   ELSE Set(c, Proceed(h))
                /\ UNCHANGED nonces
        /\ Keep /\ UNCHANGED <<generated, answer>>

Put(f, k, v) == [x \in DOMAIN f \cup {k} |-> IF x = k THEN v ELSE f[x]]

\* Mutant of Nonce: the end of its validity is stored as its time.
NonceUntil(key, time, domain, realm) ==
    [time |-> time + Validity, opaque |-> Opaque[key], domain |-> domain, realm |-> realm]

Nonce(key, time, domain, realm) ==
    [time |-> time, opaque |-> Opaque[key], domain |-> domain, realm |-> realm]

\* A challenge for the next of the entry's domains, whatever was decided.
\* Its time, domain and process are history.
Issue(c) ==
    LET h == handler[c]
        name == FirstOf(h.auths)
        realm == Auth(h.req.entry, name).realm
        key == Nonces[generated + 1]  \* RandomKey
    IN  /\ h.pc = "issue" /\ h.auths # {}
        /\ generated < Len(Nonces) /\ generated' = generated + 1
        /\ nonces' = Put(nonces, key, Nonce(key, h.now, name, realm))
        /\ Set(c, IF DomainPanics(h.req.entry, name) THEN NoHandler
                  ELSE [h EXCEPT !.auths = @ \ {name}, !.offers = Append(@,
                          [realm |-> realm, nonce |-> key, opaque |-> Opaque[key],
                           stale |-> h.stale, time |-> h.now, domain |-> name,
                           process |-> restarts])])
        /\ Keep /\ UNCHANGED answer

Authorized(h) == IF h.found THEN h.allow ELSE h.auths = {} /\ h.offers = <<>>

Answer(c) ==
    LET h == handler[c]
    IN  /\ h.pc = "issue" /\ h.auths = {}
        /\ Set(c, NoHandler)
        /\ answer' = [answer EXCEPT ![c] =
              [granted |-> Authorized(h), challenges |-> h.offers]]
        /\ Keep /\ UNCHANGED <<nonces, generated>>

\* The process ends, by the system or because the Go runtime found two
\* handlers in the map at once, and is started again.
Restart ==
    /\ restarts < MaxRestarts
    /\ restarts' = restarts + 1
    /\ nonces' = [n \in {} |-> None]
    /\ handler' = [c \in Clients |-> NoHandler]
    /\ UNCHANGED <<clock, generated, answer, visits>>

Tick ==
    /\ clock < MaxClock /\ clock' = clock + 1
    /\ UNCHANGED <<nonces, generated, handler, answer, visits, restarts>>

-----------------------------------------------------------------------------
(* Clients *)

\* A visitor sends a header of its own or, when MaxVisits requests have been
\* sent or before, answers a challenge it has with a wrong password.
Visit(c, q) ==
    /\ visits' = visits + 1
    /\ \/ visits < MaxVisits /\ Arrive(c, q)
       \/ /\ visits < MaxVisits + MaxReplies /\ q \in Replies
          /\ \E ch \in Range(answer[c].challenges) :
                Arrive(c, Reply(q, ch, "guest", "wrong"))

\* The member tries without credentials, then answers the challenge it has
\* of its realm.
Retry ==
    /\ ~answer[Member].granted
    /\ LET told == answer[Member].challenges
           own == {i \in DOMAIN told : told[i].realm = Realm}
       IN  IF own = {} THEN Arrive(Member, MemberRequest)
           ELSE Arrive(Member, Reply(MemberRequest, told[Min(own)], "member", Password))
    /\ UNCHANGED visits

Authenticate(c) ==
    Purge(c) \/ CheckDigest(c) \/ Issue(c) \/ Answer(c)

Next ==
    \/ \E c \in Visitors, q \in Requests : Visit(c, q)
    \/ Retry
    \/ \E c \in Clients : Authenticate(c)
    \/ Restart \/ Tick

\* Handlers run, and the member does not give up.
Fairness == WF_vars(Retry) /\ \A c \in Clients : WF_vars(Authenticate(c))

Spec == Init /\ [][Next]_vars /\ Fairness

-----------------------------------------------------------------------------
(* Type correctness: a nonce is a key that was generated, of a domain that *)
(* has rules, and not from the future (auth.go:31-37, 93-114).             *)
TypeOK ==
    /\ clock \in 0 .. MaxClock /\ restarts \in 0 .. MaxRestarts
    /\ visits \in 0 .. MaxVisits + MaxReplies
    /\ generated \in 0 .. Len(Nonces)
    /\ DOMAIN nonces \subseteq {Nonces[i] : i \in 1 .. generated}
    /\ \A n \in DOMAIN nonces :
          /\ nonces[n].time \in 0 .. clock
          /\ nonces[n].opaque = Opaque[n] /\ nonces[n].domain \in Range(Names)
    /\ \A c \in Clients :
          /\ handler[c].pc \in {"idle", "purge", "digest", "issue"}
          /\ handler[c].now \in 0 .. clock
          /\ answer[c].granted \in BOOLEAN

\* What the rules say, by definition: of the entry itself and the
\* directories around it, the nearest that has a permission for the method
\* decides, unless a mark nearer by stops the search.
Around(e) ==
    LET least == IF RootHasDot THEN 0 ELSE 1
        last == IF e.file = None THEN Len(e.dirs) - 1 ELSE Len(e.dirs)
        Dir(n) == Entry(SubSeq(e.dirs, 1, last + 1 - n), None)
    IN  <<e>> \o [n \in 1 .. last + 1 - least |-> Dir(n)]

Says(e, name, method) ==
    LET rule == [i \in DOMAIN Around(e) |-> Auth(Around(e)[i], name)]
        hits == {i \in DOMAIN rule : {method, "default"} \cap DOMAIN rule[i].perm # {}}
        perm == rule[Min(hits)].perm
    IN  IF hits = {} \/ \E i \in 1 .. Min(hits) - 1 : rule[i].inherit THEN None
        ELSE IF method \in DOMAIN perm THEN perm[method] ELSE perm["default"]

\* The names a request has a proof of at a time: a certificate, or the
\* password and an unexpired challenge of this very process.
Proven(q, time) ==
    LET e == q.entry
        b == q.basis
    IN  {n \in authList[e] : q.certs \cap Auth(e, n).certs # {}}
        \cup (IF b = None THEN {} ELSE
               {n \in {b.ch.domain} :
                   /\ b.ch.process = restarts /\ b.ch.time + Validity > time
                   /\ <<b.username>> \in DOMAIN Auth(e, n).users
                   /\ Auth(e, n).users[<<b.username>>] = <<b.password>>})

\* Anybody may do what no rule speaks of, if there is nobody to be.
Entitled(q, time) ==
    LET says == {Says(q.entry, n, q.method) : n \in Proven(q, time) \cup {Anonymous}}
    IN  IF says = {None} THEN authList[q.entry] = {} ELSE "allow" \in says

\* A decision, for an entry whose parent is the directory it is in.
Decided(c) == handler[c].pc = "issue" /\ handler[c].req.entry.file \notin ShortNames

(* Nobody is let in whom the rules, read by their definition, do not let   *)
(* in with a proof that was good when the request arrived: not with a      *)
(* nonce that has expired, was issued for another domain or before a       *)
(* restart, however the handlers' steps interleave                         *)
(* (auth.go:116-131, 133-239, 281-285, 404-426).  This is said of entries  *)
(* whose names have at least three characters: of the others the code      *)
(* takes a wrong directory for the parent, and may decide wrongly.         *)
GrantedRightly ==
    \A c \in Clients :
        LET h == handler[c]
        IN  Decided(c) /\ Authorized(h) => Entitled(h.req, h.now)

(* Nobody is turned away whose proof is still good when the decision is    *)
(* there: another handler's purge, or a request that arrived earlier and   *)
(* was slower, never takes a good nonce away (auth.go:84-91, 116-131).     *)
(* Entries with names of one or two characters are excepted, as above.     *)
DeniedRightly ==
    \A c \in Clients :
        LET h == handler[c]
        IN  Decided(c) /\ ~Authorized(h) => ~Entitled(h.req, clock)

(* A client is told that its nonce is stale only if it is: it has expired  *)
(* or the process that issued it has ended (auth.go:189-193, 267-270).     *)
StaleOnlyExpired ==
    \A c \in Clients :
        LET b == handler[c].req.basis
        IN  handler[c].pc # "idle" /\ handler[c].stale /\ b # None =>
                b.ch.process # restarts \/ b.ch.time + Validity <= clock

(* The server's own parser reads each challenge the server writes as one   *)
(* Digest method with the very parameters that went in, whatever ASCII     *)
(* characters the realm has, the quoted ones among them (auth.go:54-56,    *)
(* 275-277, headerparse.peg).  With any other character in the realm it    *)
(* does not: the texts behind it are cut in the wrong places.              *)
ChallengesReadable ==
    \A c \in Clients :
        LET ch == Last(handler[c].offers)
            read == Methods(ChallengeText(ch))
            Field(key) == Get(read[1].Params, key)
        IN  handler[c].offers # <<>> /\ Ascii(ch.realm) =>
            /\ Len(read) = 1 /\ read[1].Name = <<"Digest">>
            /\ Field("realm") = ch.realm /\ Field("nonce") = <<ch.nonce>>
            /\ Field("opaque") = <<ch.opaque>>
            /\ Field("stale") = IF ch.stale THEN <<"true">> ELSE <<>>
            /\ Digest(read[1]).supported

(* A member with the right password who answers challenges gets in,        *)
(* whatever other clients do, though nonces expire and the process         *)
(* restarts a few times (auth.go:241-286).                                 *)
MemberAdmitted == <>answer[Member].granted

=============================================================================
