------------------------------- MODULE Bundle -------------------------------
(***************************************************************************)
(* Bundles: swbundle walks a directory and writes a ZIP file of its        *)
(* contents and of quads that describe them; POST reads the quads back,    *)
(* moves them below the URL it was sent to and turns them into one SPARQL  *)
(* Update, written token by token by two inserters.                        *)
(*                                                                         *)
(* Paths and relative references are sequences of segments, the last one   *)
(* is "" for a directory.  URLs and absolute references begin with their   *)
(* origin, which stands for scheme, user and host: the URL of a server's   *)
(* root is <<its origin, "">>.                                             *)
(* What the server does with files and with a failed Update is in          *)
(* ContentStore.                                                           *)
(***************************************************************************)
EXTENDS Integers, Sequences, FiniteSets, FiniteSetsExt, SequencesExt

CONSTANTS
    Files, Dirs,   \* what DIR holds; Dirs holds <<>>
    Contents,      \* digests of file contents
    Disk0,         \* the content of each file
    Misread,       \* names whose \u escapes readEscapeSeq decodes wrongly
    Unparsable,    \* names that are not part of any URL
    Hosts,         \* origins of URLs that have a path
    Bases,         \* URLs a bundle is posted to
    HandMade,      \* statements of bundles not made by swbundle
    Before,        \* quads in the RDF store before the import
    MaxStatements, \* bound: statements of a bundle made by hand
    None

\* Names of paths: the one behind a last slash, the directory above, and the
\* root, which a reference may start with.
Empty == ""
Dots == ".."
Slash == "/"

\* What absolute references start with: a scheme whose URLs have no path
\* (Opaque), and blank nodes, or the origin of a URL that has one.
Sha1Scheme == "sha1:"
SwScheme == "sw:"
Opaque == {Sha1Scheme, SwScheme, "_:"}
Absolute == Opaque \cup Hosts

Refs == Seq(STRING)

AllStatements ==
    [s : Refs, p : STRING, o : Refs, lit : BOOLEAN, g : Refs \cup {None}]

ASSUME DiskAssumption ==
    /\ Disk0 \in [Files -> Contents] /\ Contents \subseteq STRING
    /\ Files \cup Dirs \subseteq Refs /\ <<>> \in Dirs
ASSUME HostsAssumption == Hosts \subseteq STRING \ Opaque
\* ServeHTTP gives the URL of a request the scheme and the Host.
ASSUME BasesAssumption ==
    \A b \in Bases : b \in Refs /\ Len(b) > 1 /\ Head(b) \in Hosts
ASSUME NamesAssumption == Misread \in [DOMAIN Misread -> STRING]
ASSUME HandMadeAssumption == HandMade \subseteq AllStatements
\* Pages are described in graphs of their own.
ASSUME BeforeAssumption == Before \subseteq Refs \X Refs \X STRING \X Refs
ASSUME NoneAssumption ==
    /\ None \notin Refs \cup STRING \cup {"DROP", "DATA"}
    \* What the provers need be told.
    /\ {Empty, Sha1Scheme, SwScheme, "type", "relativePath", "child", "hash",
        "contentType", "RelocatableGraph", "text", "literal"} \subseteq STRING

VARIABLES
    phase,   \* packing, packed, importing, updating, stored, refused
             \* or crashed
    source,  \* who makes the bundle: none yet, walk or hand
    disk,    \* what the files of DIR hold
    todo,    \* readDir's recursion: directories and names left to visit
    opened, digest, \* InsertFile: the file being added, its SHA1
    failed,  \* swbundle ended with an error
    graphs,  \* graphs.nq
    members, \* contents of the ZIP file's "sha1:" members
    base,    \* baseUri
    sent, chan, \* the goroutine of GraphStatements and its channel
    rel,     \* graphsRelUri
    drop, ins, \* the inserters of makeStatements
    wanted,  \* wantedHashes
    store,   \* the RDF store
    files,   \* digests of the server's content files
    changed  \* history: files that changed while they were packed

packVars == <<disk, todo, opened, digest, failed, members, changed>>
makeVars == <<rel, drop, ins, wanted>>
vars == <<phase, source, packVars, graphs, base, sent, chan, makeVars, store,
          files>>

-----------------------------------------------------------------------------
(* Statements: lit tells a literal object from an IRI *)

Statement(s, p, o, lit, g) == [s |-> s, p |-> p, o |-> o, lit |-> lit, g |-> g]

Sha1(h) == <<Sha1Scheme, h>>
TypeTriple == Statement(<<>>, "type", <<SwScheme, "RelocatableGraph">>, FALSE, None)
RelativePath(p) == Statement(p, "relativePath", p, TRUE, None)
Child(d, p) == Statement(d, "child", p, FALSE, d)
Hash(p, h) == Statement(p, "hash", Sha1(h), FALSE, p)
ContentType(p) == Statement(p, "contentType", <<"text">>, TRUE, p)

\* EscapeIri writes \u escapes, and readEscapeSeq shifts every digit by 8
\* bits; literals never need one.
AsRead(st) ==
    LET Seg(x) == IF x \in DOMAIN Misread THEN Misread[x] ELSE x
        Iri(r) == IF r = None THEN None ELSE [i \in DOMAIN r |-> Seg(r[i])]
    IN  [st EXCEPT !.s = Iri(@), !.g = Iri(@), !.o = IF st.lit THEN @ ELSE Iri(@)]

(* URLs *)

Parses(r) == \A i \in DOMAIN r : r[i] \notin Unparsable

Up(path, seg) ==
    IF seg # Dots THEN Append(path, seg)
    ELSE IF path = <<>> THEN <<>> ELSE Front(path)

Clean(path) ==
    LET after[n \in 0 .. Len(path)] ==
            IF n = 0 THEN <<>> ELSE Up(after[n - 1], path[n])
    IN  after[Len(path)] \o
        (IF path # <<>> /\ Last(path) = Dots THEN <<Empty>> ELSE <<>>)

\* base.Parse
Resolve(b, r) ==
    IF r = <<>> THEN b
    ELSE IF Head(r) \in Opaque THEN r
    ELSE IF Head(r) \in Hosts THEN <<Head(r)>> \o Clean(Tail(r))
    ELSE <<Head(b)>> \o
         Clean(IF Head(r) = Slash THEN Tail(r) ELSE Front(Tail(b)) \o r)

IRIRelLiteral(b, r) == IF Parses(r) THEN Resolve(b, r) ELSE r

\* Mutant of isSubUrl: only the paths are compared.
AnyHost(b, u) ==
    LET dir == IF Last(b) = Empty THEN Front(b) ELSE b
    IN  Tail(u) = Tail(b) \/ IsStrictPrefix(Tail(dir), Tail(u))

\* The origins are the same, and the path is that of b or below it.
isSubUrl(b, u) ==
    LET dir == IF Last(b) = Empty THEN Front(b) ELSE b
    IN  /\ Head(u) = Head(b)
        /\ Tail(u) = Tail(b) \/ IsStrictPrefix(Tail(dir), Tail(u))

-----------------------------------------------------------------------------
(* The inserter.  Tokens are [k |-> kind, v |-> value]. *)

NoInserter == [out |-> <<>>, stmt |-> None, graph |-> None, subj |-> None,
               pred |-> None, inObj |-> FALSE]

Token(k) == [k |-> k, v |-> None]
Term(v) == [k |-> "term", v |-> v]
Emit(i, t) == [i EXCEPT !.out = Append(@, t)]

closeObject(i) ==
    IF i.inObj THEN [Emit(i, Token("comma")) EXCEPT !.inObj = FALSE] ELSE i

closePredicate(i) ==
    IF i.pred = None THEN i
    ELSE [Emit(i, Token("semicolon")) EXCEPT !.pred = None, !.inObj = FALSE]

closeSubject(i) ==
    IF i.subj = None THEN i
    ELSE [Emit(i, Token("dot")) EXCEPT !.subj = None, !.pred = None, !.inObj = FALSE]

\* Mutant of closeGraph: the next graph inherits the subject.
CloseGraphOnly(i) ==
    IF i.graph = None THEN i
    ELSE [Emit(i, Token("close")) EXCEPT !.graph = None]

closeGraph(i) ==
    IF i.graph = None THEN i
    ELSE [Emit(i, Token("close")) EXCEPT !.graph = None, !.subj = None,
                                     !.pred = None, !.inObj = FALSE]

\* The suffix is " ;" between statements and nothing at the end.
closeStatement(i, suffix) ==
    CASE i.stmt = None   -> i
      [] i.stmt = "DATA" ->
            LET c == Emit(closeGraph(i), Token("close"))
            IN  [c EXCEPT !.out = @ \o suffix, !.stmt = None]
      [] OTHER           -> [i EXCEPT !.out = @ \o suffix, !.stmt = None]

deleteGraph(i, u) ==
    LET c == closeStatement(i, <<Token("semicolon")>>)
    IN  [Emit(c, [k |-> "DROP", v |-> u]) EXCEPT !.stmt = "DROP"]

insertData(i, s, p, o, g) ==
    LET a == IF i.stmt = "DATA" THEN i
             ELSE [Emit(closeStatement(i, <<Token("semicolon")>>), Token("INSERT"))
                   EXCEPT !.stmt = "DATA"]
        b == IF a.graph = g THEN a
             ELSE [Emit(closeGraph(a), [k |-> "GRAPH", v |-> g])
                   EXCEPT !.graph = g]
        c == IF b.subj = s THEN b
             ELSE [Emit(closeSubject(b), Term(s)) EXCEPT !.subj = s]
        d == IF c.pred = p THEN c
             ELSE [Emit(closePredicate(c), Term(p)) EXCEPT !.pred = p]
    IN  [Emit(closeObject(d), Term(o)) EXCEPT !.inObj = TRUE]

terminate(i) == closeStatement(i, <<>>).out

\* What makeStatements returns.
Statements ==
    LET d == terminate(drop)
    IN  d \o (IF d = <<>> THEN <<>> ELSE <<Token("semicolon")>>) \o terminate(ins)

-----------------------------------------------------------------------------
(* The RDF store reads the Update (SPARQL 1.1 Update, sections 3.1 and     *)
(* 3.2): DROP removes a graph, INSERT DATA adds quads, in their order.     *)

ReadToken(r, t) ==
    LET Goto(at) == [r EXCEPT !.at = at]
    IN  CASE r.at = "start" /\ t.k = "DROP" ->
                [Goto("end") EXCEPT !.quads = {q \in @ : q[1] # t.v}]
          [] r.at = "start" /\ t.k = "INSERT" -> Goto("data")
          [] r.at = "end" /\ t.k = "semicolon" -> Goto("start")
          [] r.at = "data" /\ t.k = "GRAPH" -> [Goto("triples") EXCEPT !.g = t.v]
          [] r.at = "data" /\ t.k = "close" -> Goto("end")
          [] r.at = "triples" /\ t.k = "term" -> [Goto("verb") EXCEPT !.s = t.v]
          [] r.at = "triples" /\ t.k = "close" -> Goto("data")
          [] r.at = "verb" /\ t.k = "term" -> [Goto("object") EXCEPT !.p = t.v]
          [] r.at = "object" /\ t.k = "term" ->
                [Goto("after") EXCEPT !.quads = @ \cup {<<r.g, r.s, r.p, t.v>>}]
          [] r.at = "after" /\ t.k = "comma" -> Goto("object")
          [] r.at = "after" /\ t.k = "semicolon" -> Goto("verb")
          [] r.at = "after" /\ t.k = "dot" -> Goto("triples")
          [] r.at = "after" /\ t.k = "close" -> Goto("data")
          [] OTHER -> Goto("error")

Execute(Q, tokens) ==
    LET reads[n \in 0 .. Len(tokens)] ==
            IF n = 0
            THEN [at |-> "start", g |-> None, s |-> None, p |-> None, quads |-> Q]
            ELSE LET r == reads[n - 1] IN ReadToken(r, tokens[n])
    IN  reads[Len(tokens)]

Legal(r) == r.at \in {"start", "end"}

-----------------------------------------------------------------------------
Message(kind, st) == [kind |-> kind, st |-> st]
NoMessage == Message("none", None)

Init ==
    /\ phase = "packing" /\ source = "none"
    /\ disk = Disk0
    /\ todo = <<>> /\ opened = None /\ digest = None /\ failed = FALSE
    /\ graphs = <<>> /\ members = {}
    /\ base \in Bases
    /\ sent = 0 /\ chan = NoMessage
    /\ rel = [r \in {} |-> None]
    /\ drop = NoInserter /\ ins = NoInserter
    /\ wanted = {}
    /\ store = Before /\ files = {} /\ changed = {}

importVars == <<base, sent, chan, makeVars, store, files>>

(* swbundle FILE DIR *)

Entries(dir) ==
    LET d == IF dir = <<>> THEN <<>> ELSE Front(dir)
    IN  {p \in Files : IsPrefix(d, p) /\ Len(p) = Len(d) + 1}
        \cup {p \in Dirs : IsPrefix(d, p) /\ Len(p) = Len(d) + 2}

Visit(dir) == [dir |-> dir, left |-> Entries(dir)]

StartWalk ==
    /\ phase = "packing" /\ source = "none"
    /\ source' = "walk"
    /\ graphs' = <<TypeTriple, RelativePath(<<>>)>>
    /\ todo' = <<Visit(<<>>)>>
    /\ UNCHANGED <<phase, disk, opened, digest, failed, members, changed, importVars>>

Walking == phase = "packing" /\ todo # <<>> /\ opened = None

Remaining(p) == [todo EXCEPT ![Len(todo)].left = @ \ {p}]

EnterDir(p) ==
    /\ Walking /\ p \in Last(todo).left \cap Dirs
    /\ todo' = Append(Remaining(p), Visit(p))
    /\ graphs' = graphs \o <<RelativePath(p), Child(Last(todo).dir, p)>>
    /\ UNCHANGED <<phase, source, disk, opened, digest, failed, members,
                   changed, importVars>>

OpenFile(p) ==
    /\ Walking /\ p \in Last(todo).left \cap Files
    /\ todo' = Remaining(p)
    /\ graphs' = Append(graphs, Child(Last(todo).dir, p))
    /\ opened' = p
    /\ UNCHANGED <<phase, source, disk, digest, failed, members, changed, importVars>>

\* InsertFile reads the file once to hash it, then again to copy it.
HashFile ==
    /\ opened # None /\ digest = None
    /\ digest' = disk[opened]
    /\ UNCHANGED <<phase, source, disk, todo, opened, failed, graphs, members,
                   changed, importVars>>

\* Mutant of Described: the quads come before the triple that registers them.
DescribedLate(p, h) == <<Hash(p, h), ContentType(p), RelativePath(p)>>

Described(p, h) == <<RelativePath(p), Hash(p, h), ContentType(p)>>

\* Mutant of CopyFile: the quads are written before the file is hashed.
CopyUnhashed ==
    /\ opened # None
    /\ members' = members \cup {disk[opened]}
    /\ graphs' = graphs \o Described(opened, digest)
    /\ opened' = None /\ digest' = None
    /\ UNCHANGED <<phase, source, disk, todo, failed, changed, importVars>>

CopyFile ==
    /\ opened # None /\ digest # None
    /\ members' = members \cup {disk[opened]}
    /\ graphs' = graphs \o Described(opened, digest)
    /\ opened' = None /\ digest' = None
    /\ UNCHANGED <<phase, source, disk, todo, failed, changed, importVars>>

LeaveDir ==
    /\ Walking /\ Last(todo).left = {}
    /\ todo' = Front(todo)
    /\ phase' = IF Len(todo) = 1 THEN "packed" ELSE phase
    /\ UNCHANGED <<source, disk, opened, digest, failed, graphs, members,
                   changed, importVars>>

\* A file or directory cannot be read; Close is deferred and writes graphs.nq.
PackFails ==
    /\ phase = "packing" /\ source = "walk"
    /\ failed' = TRUE /\ phase' = "packed"
    /\ todo' = <<>> /\ opened' = None /\ digest' = None
    /\ UNCHANGED <<source, disk, graphs, members, changed, importVars>>

\* Bound: one change, to a file that is being packed.
FileChanges(h) ==
    /\ opened # None /\ changed = {} /\ h # disk[opened]
    /\ disk' = [disk EXCEPT ![opened] = h]
    /\ changed' = {opened}
    /\ UNCHANGED <<phase, source, todo, opened, digest, failed, graphs, members, importVars>>

\* Some other program makes a bundle.
WriteByHand(st) ==
    /\ phase = "packing" /\ source # "walk"
    /\ Len(graphs) < MaxStatements
    /\ source' = "hand"
    /\ graphs' = Append(graphs, st)
    /\ UNCHANGED <<phase, packVars, importVars>>

-----------------------------------------------------------------------------
(* POST *)

Post ==
    /\ phase = "packed" \/ (source = "hand" /\ phase = "packing")
    /\ phase' = "importing"
    /\ UNCHANGED <<source, packVars, graphs, importVars>>

(* The goroutine of GraphStatements; the channel is not buffered *)

Produce(message) ==
    /\ phase = "importing" /\ chan = NoMessage
    /\ chan' = message
    /\ UNCHANGED <<phase, source, packVars, graphs, base, makeVars, store, files>>

SendStatement ==
    /\ sent < Len(graphs)
    /\ Produce(Message("statement", AsRead(graphs[sent + 1])))
    /\ sent' = sent + 1

CloseChannel == sent = Len(graphs) /\ Produce(Message("closed", None)) /\ UNCHANGED sent

\* Mutant of SendError: the goroutine returns and says nothing.
SendNoError ==
    /\ sent <= Len(graphs) /\ sent' = Len(graphs) + 1
    /\ phase = "importing" /\ chan = NoMessage
    /\ UNCHANGED <<phase, source, packVars, graphs, base, chan, makeVars, store, files>>

\* A bundle that is damaged, or has a syntax error.
SendError ==
    /\ sent <= Len(graphs) /\ sent' = Len(graphs) + 1
    /\ Produce(Message("error", None))

\* Without graphs.nq, Graph returns nil, whose ReadStatement panics.
NoGraphs ==
    /\ source = "hand" /\ phase = "importing" /\ sent = 0 /\ chan = NoMessage
    /\ phase' = "crashed"
    /\ UNCHANGED <<source, packVars, graphs, importVars>>

(* The loop of makeStatements *)

Received == phase = "importing" /\ chan.kind = "statement"

\* A relativePath triple; an object that is no literal reads as "".
RelUri(st) == IF st.lit THEN st.o ELSE <<>>

Registers(st) == st.g = None /\ st.p = "relativePath"
Accepted(st) ==
    /\ Registers(st) /\ Parses(RelUri(st))
    /\ isSubUrl(base, Resolve(base, RelUri(st)))

Register(st) ==
    /\ Received /\ Accepted(st)
    /\ LET u == Resolve(base, RelUri(st))
       IN  /\ rel' = [r \in DOMAIN rel \cup {st.s} |-> IF r = st.s THEN u ELSE rel[r]]
           /\ drop' = deleteGraph(drop, u)
    /\ chan' = NoMessage
    /\ UNCHANGED <<phase, source, packVars, graphs, base, sent, ins, wanted, store, files>>

Object(b, st) ==
    IF st.lit THEN <<"literal">> \o st.o ELSE IRIRelLiteral(b, st.o)

Insert(st) ==
    /\ Received /\ st.g \in DOMAIN rel
    /\ wanted' = IF st.p = "hash" /\ ~st.lit THEN wanted \cup {st.o} ELSE wanted
    /\ ins' = insertData(ins, IRIRelLiteral(base, st.s), st.p, Object(base, st), rel[st.g])
    /\ chan' = NoMessage
    /\ UNCHANGED <<phase, source, packVars, graphs, base, sent, rel, drop, store, files>>

\* The statement is only logged.
Skip(st) ==
    /\ Received
    /\ IF Registers(st) THEN ~Accepted(st) ELSE st.g \notin DOMAIN rel
    /\ chan' = NoMessage
    /\ UNCHANGED <<phase, source, packVars, graphs, base, sent, makeVars, store, files>>

Refuse ==
    /\ phase = "importing" /\ chan.kind = "error"
    /\ phase' = "refused" /\ chan' = NoMessage
    /\ UNCHANGED <<source, packVars, graphs, base, sent, makeVars, store, files>>

\* The members whose content has a wanted digest are stored, under that
\* digest; a member's name only tells that it is one.
StoreFiles ==
    /\ phase = "importing" /\ chan.kind = "closed"
    /\ phase' = "updating" /\ chan' = NoMessage
    /\ files' = files \cup {h \in members : Sha1(h) \in wanted}
    /\ UNCHANGED <<source, packVars, graphs, base, sent, makeVars, store>>

\* The RDF store executes the Update, or refuses one that is not legal.
Update ==
    /\ phase = "updating"
    /\ LET r == Execute(store, Statements)
       IN  IF Legal(r) THEN store' = r.quads /\ phase' = "stored"
           ELSE phase' = "refused" /\ UNCHANGED store
    /\ UNCHANGED <<source, packVars, graphs, base, sent, chan, makeVars, files>>

Pack ==
    \/ StartWalk \/ HashFile \/ CopyFile \/ LeaveDir \/ PackFails
    \/ \E p \in Dirs : EnterDir(p)
    \/ \E p \in Files : OpenFile(p)
    \/ \E h \in Contents : FileChanges(h)
    \/ \E st \in HandMade : WriteByHand(st)

Reader == SendStatement \/ CloseChannel \/ SendError \/ NoGraphs

Handler ==
    \/ Register(chan.st) \/ Insert(chan.st) \/ Skip(chan.st)
    \/ Refuse \/ StoreFiles

Next == Pack \/ Post \/ Reader \/ Handler \/ Update

\* The goroutine and the handler run; nobody need make or post a bundle.
Fairness == WF_vars(Reader) /\ WF_vars(Handler)

Spec == Init /\ [][Next]_vars /\ Fairness

-----------------------------------------------------------------------------
(* Type correctness: digests and references have their shapes, and what is *)
(* imported is a statement that was read (bundle/writer.go, bundle.go).    *)
TypeOK ==
    /\ phase \in {"packing", "packed", "importing", "updating", "stored", "refused", "crashed"}
    /\ source \in {"none", "walk", "hand"}
    /\ disk \in [Files -> Contents]
    /\ opened \in Files \cup {None} /\ digest \in Contents \cup {None}
    /\ members \subseteq Contents /\ files \subseteq Contents
    /\ source = "walk" => \A i \in DOMAIN graphs :
          graphs[i].p = "hash" /\ ~graphs[i].lit => graphs[i].o \in {Sha1(h) : h \in Contents}
    /\ sent \in 0 .. Len(graphs) + 1
    /\ base \in Bases /\ changed \subseteq Files /\ failed \in BOOLEAN

\* What the statements mean, by definition: every accepted relativePath
\* triple empties the graph it names, and every quad goes to the graph that
\* the last such triple before it registered.
Meant(Q) ==
    LET read == [i \in DOMAIN graphs |-> AsRead(graphs[i])]
        named == [i \in DOMAIN read |->
                    IF Accepted(read[i]) THEN Resolve(base, RelUri(read[i])) ELSE None]
        registers(i) == {j \in 1 .. i - 1 : named[j] # None /\ read[j].s = read[i].g}
        kept == {i \in DOMAIN read : registers(i) # {}}
    IN  {q \in Q : \A i \in DOMAIN named : named[i] # q[1]}
        \cup {<<named[Max(registers(i))], IRIRelLiteral(base, read[i].s),
                read[i].p, Object(base, read[i])>> : i \in kept}

(* The text of the Update is legal SPARQL and does exactly what the         *)
(* statements read mean: however graphs, subjects and predicates alternate, *)
(* no quad is attached to the wrong graph, subject or predicate, lost or    *)
(* added, and graphs are emptied before and not after they are filled       *)
(* (bundle.go:182-363).                                                     *)
UpdateMeans ==
    phase = "updating" =>
        LET r == Execute(store, Statements)
        IN  Legal(r) /\ r.quads = Meant(store)

(* An import changes no graph outside the URL it is posted to, on that     *)
(* server or another, whatever references the bundle holds                 *)
(* (bundle.go:165-180, 205-210).                                           *)
StaysBelow ==
    [][\A q \in (store \ store') \cup (store' \ store) :
          /\ Len(q[1]) >= Len(base)
          /\ \A i \in DOMAIN base :
                q[1][i] = base[i] \/ (i = Len(base) /\ base[i] = Empty)]_vars

Plain(p) == \A i \in DOMAIN p : p[i] \notin Unparsable \cup DOMAIN Misread

\* A directory in which everything is in a directory, no name means anything
\* else in a reference, and no name is read as another that is read as it is;
\* and URLs without "..".
Ordinary(p) ==
    /\ p # <<>> /\ Head(p) \notin Absolute
    /\ \A i \in DOMAIN p : p[i] \notin {Empty, Dots, Slash}

OrdinaryTree ==
    /\ \A f \in Files : Ordinary(f)
    /\ \A d \in Dirs \ {<<>>} : Last(d) = Empty /\ Ordinary(Front(d))
    /\ \A p \in (Files \cup Dirs) \ {<<>>} : \E d \in Dirs : p \in Entries(d)
    /\ \A p, q \in Files \cup Dirs :
          Plain(q) /\ AsRead(RelativePath(p)).s = q => p = q
    /\ \A w \in {Empty, Sha1Scheme} \cup Contents : Plain(<<w>>)
    /\ \A b \in Bases : \A i \in DOMAIN b : b[i] # Dots

Page(u) == {q[4] : q \in {x \in store : x[1] = u /\ x[2] = u /\ x[3] = "hash"}}

Linked(d, u) == <<d, d, "child", u>> \in store

Served(f) ==
    LET u(p) == Front(base) \o p
        Parents == {d \in Dirs : d # <<>> /\ IsPrefix(Front(d), f)}
    IN  /\ f \notin changed => Page(u(f)) = {Sha1(disk[f])} /\ disk[f] \in files
        /\ \A p \in Parents \cup {f} : \E d \in Dirs :
              Linked(IF d = <<>> THEN base ELSE u(d), u(p))

Imported == phase = "stored" /\ source = "walk" /\ ~failed /\ Last(base) = Empty

(* After swbundle has packed a directory without error and the bundle was  *)
(* imported at a directory URL, every file whose name needs no escape is a *)
(* page with the file's content, linked from its parents, whatever the     *)
(* order of the walk; only a file that changed while it was packed may be  *)
(* missing (swbundle/main.go:75-157, writer.go:54-99, bundle.go:182-268).  *)
ImportedTree == Imported => \A f \in Files : Plain(f) => Served(f)

(* Every import gets its Update or is refused, unless the server crashes:  *)
(* the loop over the channel never waits for a goroutine that has returned *)
(* (bundle/reader.go:55-76, bundle.go:187-191).                            *)
ImportEnds == phase = "importing" ~> phase \in {"updating", "refused", "crashed"}

=============================================================================
