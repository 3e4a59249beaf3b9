----------------------------- MODULE StoreData -----------------------------
(***************************************************************************)
(* Requests to the SmartWeb2 file server and the quads they put in the RDF *)
(* store: what the server (ContentStore) and its promise (PageStore) share.*)
(***************************************************************************)
EXTENDS Integers, FiniteSets

CONSTANTS
    Urls,        \* absolute URLs of pages (and names of their graphs)
    Hashes,      \* SHA1 digests: the content of a file is its name
    Reqs,        \* identities of HTTP requests; each is sent once
    Offers,      \* what each of Reqs may turn out to be
    None,
    Malformed    \* a Referer header that is not a URL

Methods == {"GET", "PUT", "POST", "DELETE", "OTHER"}

\* A quad <<g, s, h>>: in graph g, "s sw:hash h".
Quad == Urls \X Urls \X Hashes

\* A bundle: the hashes of its members, the graphs its relativePath triples
\* register, and the sw:hash quads it holds in those graphs.
Bundle == [files : SUBSET Hashes, drops : SUBSET Urls, quads : SUBSET Quad]

EmptyBundle == [files |-> {}, drops |-> {}, quads |-> {}]

\* A request, HEAD counting as GET; a referer of None is an absent header.
Call == [method  : Methods,
         url     : Urls,
         hash    : Hashes \cup {None},
         bundle  : Bundle,
         referer : Urls \cup {None, Malformed}]

NoCall == [method |-> "NONE", url |-> None, hash |-> None,
           bundle |-> EmptyBundle, referer |-> None]

\* PUT carries a body; makeStatements keeps only quads of registered graphs.
WellFormed(q) ==
    /\ q.method = "PUT" => q.hash \in Hashes
    /\ \A e \in q.bundle.quads : e[1] \in q.bundle.drops

ASSUME NoneAssumption == None \notin Urls \cup Hashes
ASSUME MalformedAssumption == Malformed \notin Urls \cup {None}
ASSUME OffersAssumption ==
    /\ Offers \in [Reqs -> SUBSET Call]
    /\ \A r \in Reqs : \A q \in Offers[r] : WellFormed(q)

-----------------------------------------------------------------------------
\* handleGET's pattern: GRAPH u { u sw:hash ?hash }.
Page(Q, u) == {h \in Hashes : <<u, u, h>> \in Q}

(* What a request's SPARQL Update does: drop graphs, then insert quads *)

DroppedGraphs(q) == IF q.method = "POST" THEN q.bundle.drops ELSE {q.url}

InsertedQuads(q) ==
    CASE q.method = "PUT"  -> {<<q.url, q.url, q.hash>>}
      [] q.method = "POST" -> q.bundle.quads
      [] OTHER             -> {}

\* makeStatements' wantedHashes, and PUT's digest: what the Update refers to.
Wanted(q) == {h \in Hashes : \E e \in InsertedQuads(q) : e[3] = h}

\* Mutant of AfterUpdate: INSERT without CLEAR.
AfterInsert(Q, q) == Q \cup InsertedQuads(q)

AfterUpdate(Q, q) ==
    {e \in Q : e[1] \notin DroppedGraphs(q)} \cup InsertedQuads(q)

\* Hashes that a bundle refers to without holding the file: nothing in
\* handlePOSTBundle compares wantedHashes with the members it found.
Missing(q) ==
    IF q.method = "POST" THEN Wanted(q) \ q.bundle.files ELSE {}

=============================================================================
