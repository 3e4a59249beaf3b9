------------------------------- MODULE Access -------------------------------
(***************************************************************************)
(* Who may do what on the SmartWeb2 server, and which graphs a SPARQL      *)
(* query may read: the ACL check of ServeHTTP, one Select for each client  *)
(* certificate, and the query endpoint, whose list of graphs is read       *)
(* before the query is forwarded.  Other requests change the RDF store at  *)
(* any time in between.                                                    *)
(*                                                                         *)
(* A URL is [path, query]; both are sequences of the segments between      *)
(* slashes, the last one "" where the text ends with a slash.              *)
(***************************************************************************)
EXTENDS Integers, Sequences, FiniteSets, SequencesExt

CONSTANTS
    Reqs,      \* requests; each is sent once
    Calls,     \* what a request may be
    AclRows,   \* rows <graph, page, user, auth, act> that ACLs may have
    Graphs,    \* names of graphs that may exist
    Anonymous,
    MaxChanges \* bound: changes of the RDF store by others

\* The name behind a last slash, and the query of a URL without one.
Empty == ""
NoQuery == <<>>

Urls == [path : Seq(STRING) \ {<<>>}, query : Seq(STRING) \ {<<Empty>>}]

ASSUME MaxChangesAssumption == MaxChanges \in Nat
ASSUME GraphsAssumption == Graphs \subseteq Urls /\ {Empty, Anonymous} \subseteq STRING
ASSUME RowsAssumption ==
    /\ IsFiniteSet(AclRows)
    /\ AclRows \subseteq [graph : Urls, page : Urls, user : STRING,
                         auth : {"allow", "deny"}, act : STRING]
ASSUME CallsAssumption ==
    /\ Calls \subseteq [method : STRING, url : Urls, tls : BOOLEAN, certs : Seq(STRING),
                       sparql : BOOLEAN, form : BOOLEAN,
                       defaultGraphs : SUBSET Urls, namedGraphs : SUBSET Urls]
    \* Go cleans a path on the way up: there is no empty name to lose in it.
    /\ \A c \in Calls : \A i \in 1 .. Len(c.url.path) - 1 : c.url.path[i] # Empty

VARIABLES
    acl,      \* the rows in the RDF store
    graphs,   \* its non-empty graphs
    pc,       \* where the handler of each request is
    call,     \* the request
    users,    \* whom it may still act for: one for each certificate
    allowed,  \* allowedGraphs
    reads,    \* the graphs of the forwarded query
    changes   \* counter of MaxChanges

vars == <<acl, graphs, pc, call, users, allowed, reads, changes>>

-----------------------------------------------------------------------------
Url(path, query) == [path |-> path, query |-> query]

\* The URL, the URL without its query, and the directories above it.
urlParents(u) ==
    LET p == u.path
        n == IF Last(p) = Empty THEN Len(p) - 1 ELSE Len(p)
        up(k) == Url(SubSeq(p, 1, n - k) \o <<Empty>>, NoQuery)
    IN  (IF u.query = NoQuery THEN <<>> ELSE <<u>>) \o <<Url(p, NoQuery)>>
            \o [k \in 1 .. n |-> up(k)]

\* The solutions of checkAuth's query: ACLs in the graphs of the parents,
\* about one of the parents.
Solutions(u, method, user) ==
    LET parents == ToSet(urlParents(u))
    IN  {r \in acl : /\ r.graph \in parents /\ r.page \in parents
                     /\ r.user \in {user, Anonymous}
                     /\ r.act \in {method, "Default"}}

Undecided == [page |-> {}, action |-> Empty, default |-> Empty, stop |-> FALSE]

\* Mutant of Merge: the last row wins.
MergeLast(auth, row) == row

Merge(auth, row) == IF auth # Empty /\ auth # row THEN "denied" ELSE row

\* The body of the loop over the rows.
CheckRow(d, r) ==
    IF d.stop \/ d.page \notin {{}, {r.page}} THEN [d EXCEPT !.stop = TRUE]
    ELSE IF r.act = "Default"
         THEN [d EXCEPT !.page = {r.page}, !.default = Merge(@, r.auth)]
         ELSE [d EXCEPT !.page = {r.page}, !.action = Merge(@, r.auth)]

checkAuth(rows) ==
    LET after[n \in 0 .. Len(rows)] ==
            IF n = 0 THEN Undecided ELSE CheckRow(after[n - 1], rows[n])
        d == after[Len(rows)]
    IN  (IF d.action # Empty THEN d.action ELSE d.default) = "allow"

\* Mutant of graphListCheck: one allowed graph is enough.
GraphListSome(permitted, list) ==
    IF list = {} THEN permitted
    ELSE IF list \cap permitted # {} THEN list ELSE {}

graphListCheck(permitted, list) ==
    IF list = {} THEN permitted
    ELSE IF list \subseteq permitted THEN list ELSE {}

\* The URL's text ends with "/": its query does, or its path if it has none.
IsDirectory(u) == Last(IF u.query = NoQuery THEN u.path ELSE u.query) = Empty

\* A text that starts with that of d, which ends with "/".
StartsWith(d, text) == IsPrefix(Front(d), text) /\ Len(text) >= Len(d)

\* listSubGraphs: str(?g) starts with the URL, when that ends with "/".
SubGraphs(u) ==
    IF ~IsDirectory(u) THEN {u}
    ELSE IF u.query = NoQuery THEN {g \in graphs : StartsWith(u.path, g.path)}
    ELSE {g \in graphs : g.path = u.path /\ StartsWith(u.query, g.query)}

\* GET and application/sparql-query drop the query part of the URL; a form
\* does not.
QueriedUrl(c) == IF c.form THEN c.url ELSE Url(c.url.path, NoQuery)

-----------------------------------------------------------------------------
Init ==
    /\ acl \in SUBSET AclRows /\ graphs = Graphs
    /\ pc = [r \in Reqs |-> "new"]
    /\ call \in [Reqs -> Calls]
    /\ users = [r \in Reqs |-> <<>>]
    /\ allowed = [r \in Reqs |-> {}]
    /\ reads = [r \in Reqs |-> {}]
    /\ changes = 0

storeVars == <<acl, graphs, changes>>

Goto(r, from, to) == pc[r] = from /\ pc' = [pc EXCEPT ![r] = to]

\* Without TLS the client is Anonymous; with TLS it is each of its
\* certificates in turn, and nobody when it has none.
Arrive(r) ==
    /\ Goto(r, "new", "check")
    /\ users' = [users EXCEPT ![r] = IF call[r].tls THEN call[r].certs ELSE <<Anonymous>>]
    /\ UNCHANGED <<storeVars, call, allowed, reads>>

Check(r) ==
    /\ pc[r] = "check" /\ users[r] # <<>>
    /\ users' = [users EXCEPT ![r] = Tail(@)]
    /\ \E rows \in SetToSeqs(Solutions(call[r].url, call[r].method, Head(users[r]))) :
          pc' = [pc EXCEPT ![r] = IF checkAuth(rows) THEN "admitted" ELSE "check"]
    /\ UNCHANGED <<storeVars, call, allowed, reads>>

\* The Select fails: 500.
CheckFails(r) ==
    /\ users[r] # <<>> /\ Goto(r, "check", "failed")
    /\ UNCHANGED <<storeVars, call, users, allowed, reads>>

Deny(r) ==
    /\ users[r] = <<>> /\ Goto(r, "check", "denied")
    /\ UNCHANGED <<storeVars, call, users, allowed, reads>>

\* A SPARQL query: listSubGraphs' Select, or its failure.
List(r) ==
    /\ call[r].sparql
    /\ \/ /\ Goto(r, "admitted", "listed")
          /\ allowed' = [allowed EXCEPT ![r] = SubGraphs(QueriedUrl(call[r]))]
       \/ /\ IsDirectory(QueriedUrl(call[r]))
          /\ Goto(r, "admitted", "failed") /\ UNCHANGED allowed
    /\ UNCHANGED <<storeVars, call, users, reads>>

\* Any other request goes to the handlers of ContentStore.
Handle(r) ==
    /\ ~call[r].sparql /\ Goto(r, "admitted", "done")
    /\ UNCHANGED <<storeVars, call, users, allowed, reads>>

Default(r) == graphListCheck(allowed[r], call[r].defaultGraphs)
Named(r) == graphListCheck(allowed[r], call[r].namedGraphs)

\* Mutant of Forward: empty lists of graphs are sent.
ForwardEmpty(r) ==
    /\ Goto(r, "listed", "done")
    /\ reads' = [reads EXCEPT ![r] = Default(r) \cup Named(r)]
    /\ UNCHANGED <<storeVars, call, users, allowed>>

Forward(r) ==
    /\ Default(r) # {} /\ Named(r) # {}
    /\ Goto(r, "listed", "done")
    /\ reads' = [reads EXCEPT ![r] = Default(r) \cup Named(r)]
    /\ UNCHANGED <<storeVars, call, users, allowed>>

\* 400, or 500 when the RDF store does not answer.
QueryFails(r) ==
    /\ Goto(r, "listed", "failed")
    /\ UNCHANGED <<storeVars, call, users, allowed, reads>>

\* Other requests add and remove ACLs and graphs.
StoreChanges ==
    /\ changes < MaxChanges /\ changes' = changes + 1
    /\ \/ /\ \E row \in AclRows :
                acl' = IF row \in acl THEN acl \ {row} ELSE acl \cup {row}
          /\ UNCHANGED graphs
       \/ /\ \E g \in Graphs :
                graphs' = IF g \in graphs THEN graphs \ {g} ELSE graphs \cup {g}
          /\ UNCHANGED acl
    /\ UNCHANGED <<pc, call, users, allowed, reads>>

Next ==
    \/ \E r \in Reqs :
          \/ Arrive(r) \/ Check(r) \/ CheckFails(r) \/ Deny(r)
          \/ List(r) \/ Handle(r) \/ Forward(r) \/ QueryFails(r)
    \/ StoreChanges

Spec == Init /\ [][Next]_vars

-----------------------------------------------------------------------------
(* Type correctness; a query is forwarded with at least one graph, so that *)
(* the RDF store does not fall back on its default dataset                 *)
(* (server2/sparql.go:94-102).                                             *)
TypeOK ==
    /\ acl \subseteq AclRows /\ graphs \subseteq Graphs
    /\ pc \in [Reqs -> {"new", "check", "admitted", "listed", "done", "denied", "failed"}]
    /\ call \in [Reqs -> Calls]
    /\ \A r \in Reqs :
          /\ pc[r] = "done" /\ call[r].sparql => reads[r] # {}
          /\ pc[r] \in {"new", "check", "denied"} => reads[r] = {} /\ allowed[r] = {}
    /\ changes \in 0 .. MaxChanges

\* The rule: the nearest page that has an ACL for the user decides, with the
\* rows of the method if there are any and the default rows otherwise, and
\* all of them must allow.
Above(u, page) ==
    \/ page = u
    \/ /\ page.query = NoQuery
       /\ \/ page.path = u.path
          \/ /\ Last(page.path) = Empty /\ Len(u.path) >= Len(page.path)
             /\ IsPrefix(Front(page.path), u.path)

\* Of two pages above a URL: it is nearer with its query than without, and
\* each directory is nearer than those above it.
Nearer(p, q) ==
    \/ p.query # NoQuery /\ q.query = NoQuery
    \/ /\ p.query = q.query
       /\ \/ Len(p.path) > Len(q.path)
          \/ Len(p.path) = Len(q.path) /\ Last(p.path) # Empty /\ Last(q.path) = Empty

Rule(c, user) ==
    LET rows == {r \in acl : /\ Above(c.url, r.graph) /\ Above(c.url, r.page)
                             /\ r.user \in {user, Anonymous}
                             /\ r.act \in {c.method, "Default"}}
        near == {r \in rows : \A x \in rows : x.page = r.page \/ Nearer(r.page, x.page)}
        own == {r \in near : r.act # "Default"}
        deciding == IF own # {} THEN own ELSE near
    IN  deciding # {} /\ \A r \in deciding : r.auth = "allow"

NearestFirst(rows) ==
    \A i, j \in DOMAIN rows :
        i < j => rows[i].page = rows[j].page \/ Nearer(rows[i].page, rows[j].page)

(* When the RDF store returns the rows of the nearest page first, as in    *)
(* the query's VALUES, checkAuth decides by the rule whatever the order of *)
(* a page's rows (server2/auth.go:11-69).                                  *)
DecisionRight ==
    \A r \in Reqs : \A user \in ToSet(call[r].certs) \cup {Anonymous} :
        \A rows \in SetToSeqs(Solutions(call[r].url, call[r].method, user)) :
            NearestFirst(rows) => (checkAuth(rows) <=> Rule(call[r], user))

\* Below a URL without a query is what it is above of; below a page with a
\* query are the same page's URLs with queries.
Below(g, u) ==
    \/ Above(g, u)
    \/ u.query # NoQuery /\ g.query # NoQuery /\ g.path = u.path

(* A forwarded query reads graphs below the URL it was sent to, or that    *)
(* URL's own, even if graphs come and go between the listing and the query *)
(* (server2/sparql.go:38-108).                                             *)
QueryBelow ==
    \A r \in Reqs : \A g \in reads[r] :
        g = QueriedUrl(call[r]) \/ Below(g, QueriedUrl(call[r]))

=============================================================================
