---------------------------- MODULE ContentStore ----------------------------
(***************************************************************************)
(* The SmartWeb2 file server (server2/server.go, server2/bundle.go).       *)
(*                                                                         *)
(* A page is described in the RDF store by quads of its own named graph    *)
(* and its bytes lie in a file named after their SHA1.  The two stores are *)
(* written by separate steps of the handlers, nothing locks them, and a    *)
(* goroutine left behind by DELETE removes files nothing refers to.        *)
(*                                                                         *)
(* One action is one step of a handler, or of a goroutine it started,      *)
(* between two accesses to shared state.  Every access to the RDF store is *)
(* one SPARQL request; an Update is applied atomically by the store, at    *)
(* some time after it was sent, possibly after the server stopped waiting  *)
(* for the reply, and possibly never.                                      *)
(***************************************************************************)
EXTENDS StoreData

CONSTANTS
    UseAcl,      \* SmartServer.useAcl
    MaxCrashes   \* bound: how often the server process dies

ASSUME AclAssumption == UseAcl \in BOOLEAN
ASSUME CrashAssumption == MaxCrashes \in Nat

VARIABLES
    quads,    \* RDF store: the sw:hash quads
    refs,     \* RDF store: <<u, v>> when graph u says "u sw:hasReferer v"
    blobs,    \* server.Root: the hashes that have a file
    temps,    \* server.Root: <<r, kind>> for the files named temp:*
    pc,       \* where the handler of each request is
    req,      \* the request being served
    seen,     \* the hash the handler holds in a local variable
    todo,     \* POST: members of the bundle still to be copied
    wire,     \* the request's SPARQL Update: none, sent, applied or lost
    status,   \* the HTTP status answered, 0 when there is none
    bg,       \* the goroutine left behind: none, count, remove, rmtemp
    refq,     \* the goroutine that records the referer is still to run
    crashes,  \* how often the process died
    \* History, read by no guard:
    window,   \* what the page was while the request was open
    collected,\* hashes whose file a collector removed at some time
    raced     \* those of them that were in use when their file was removed

graphVars == <<quads, refs>>
diskVars  == <<blobs, temps>>
histVars  == <<window, collected, raced>>
vars == <<quads, refs, blobs, temps, pc, req, seen, todo, wire, status, bg,
          refq, crashes, window, collected, raced>>

PcStates == {"new", "auth", "start", "open", "body", "rename", "files",
             "member", "await", "done"}
Statuses == {0, 200, 201, 204, 400, 403, 404, 405, 500}

-----------------------------------------------------------------------------
(* Queries of the RDF store *)

\* handleDELETE's pattern: u sw:hash ?hash, in the union of all graphs.
About(u) == {h \in Hashes : \E g \in Urls : <<g, u, h>> \in quads}

\* The collector's pattern: ?subj sw:hash h, in the union of all graphs.
Referenced(h) == \E g, s \in Urls : <<g, s, h>> \in quads

-----------------------------------------------------------------------------
Open(r) == pc[r] \notin {"new", "done"}

Goto(r, here, there) == pc[r] = here /\ pc' = [pc EXCEPT ![r] = there]

\* handleError, WriteHeader: the handler answers and returns.
Answer(r, s) ==
    /\ pc' = [pc EXCEPT ![r] = "done"]
    /\ status' = [status EXCEPT ![r] = s]

\* History: the files whose presence r has seen to and whose quads are not
\* in the store yet.
Installed(r) ==
    IF wire[r] = "sent" THEN Wanted(req[r])
    ELSE IF pc[r] \in {"files", "member"} THEN Wanted(req[r]) \ todo[r]
    ELSE {}

InUse(h) == Referenced(h) \/ \E r \in Reqs : h \in Installed(r)

-----------------------------------------------------------------------------
Init ==
    /\ quads = {} /\ refs = {} /\ blobs = {} /\ temps = {}
    /\ pc = [r \in Reqs |-> "new"]
    /\ req = [r \in Reqs |-> NoCall]
    /\ seen = [r \in Reqs |-> None]
    /\ todo = [r \in Reqs |-> {}]
    /\ wire = [r \in Reqs |-> "none"]
    /\ status = [r \in Reqs |-> 0]
    /\ bg = [r \in Reqs |-> "none"]
    /\ refq = [r \in Reqs |-> FALSE]
    /\ crashes = 0
    /\ window = [r \in Reqs |-> {}]
    /\ collected = {} /\ raced = {}

(* ServeHTTP *)

\* A request reaches ServeHTTP.
Arrive(r) ==
    /\ Goto(r, "new", "auth")
    /\ \E q \in Offers[r] :
          /\ req' = [req EXCEPT ![r] = q]
          /\ window' = [window EXCEPT ![r] = {Page(quads, q.url)}]
    /\ UNCHANGED <<graphVars, diskVars, seen, todo, wire, status, bg, refq,
                   crashes, collected, raced>>

\* checkAuth allows it (or ACLs are off): the referer goroutine starts,
\* which ends at once if url.Parse fails, and the method is dispatched.
Admit(r) ==
    /\ Goto(r, "auth", "start")
    /\ refq' = [refq EXCEPT ![r] = req[r].referer # Malformed]
    /\ UNCHANGED <<graphVars, diskVars, req, seen, todo, wire, status, bg,
                   crashes, histVars>>

\* checkAuth denies it, or its query fails.
Refuse(r) ==
    /\ UseAcl /\ pc[r] = "auth"
    /\ \E s \in {403, 500} : Answer(r, s)
    /\ UNCHANGED <<graphVars, diskVars, req, seen, todo, wire, bg, refq,
                   crashes, histVars>>

\* The method is none of those the server knows, the handler's Select or
\* TempFile fails, or a member of the bundle cannot be read.
GiveUp(r) ==
    /\ pc[r] \in {"start", "files"}
    /\ Answer(r, IF req[r].method = "OTHER" THEN 405 ELSE 500)
    /\ UNCHANGED <<graphVars, diskVars, req, seen, todo, wire, bg, refq,
                   crashes, histVars>>

\* The goroutine of ServeHTTP: AddQuad(u, u, hasReferer, referer), where an
\* empty Referer resolves to u itself; it may fail.
RecordReferer(r) ==
    /\ refq[r]
    /\ refq' = [refq EXCEPT ![r] = FALSE]
    /\ LET u == req[r].url
           v == IF req[r].referer = None THEN u ELSE req[r].referer
       IN refs' \in {refs, refs \cup {<<u, v>>}}
    /\ UNCHANGED <<quads, diskVars, pc, req, seen, todo, wire, status, bg,
                   crashes, histVars>>

-----------------------------------------------------------------------------
(* handleGET *)

GetSelect(r) ==
    /\ pc[r] = "start" /\ req[r].method = "GET"
    /\ LET page == Page(quads, req[r].url) IN
       \/ page = {} /\ Answer(r, 404) /\ UNCHANGED seen
       \/ \E h \in page :
             /\ seen' = [seen EXCEPT ![r] = h]
             /\ pc' = [pc EXCEPT ![r] = "open"]
             /\ UNCHANGED status
    /\ UNCHANGED <<graphVars, diskVars, req, todo, wire, bg, refq, crashes,
                   histVars>>

GetOpen(r) ==
    /\ pc[r] = "open"
    /\ Answer(r, IF seen[r] \in blobs THEN 200 ELSE 404)
    /\ UNCHANGED <<graphVars, diskVars, req, seen, todo, wire, bg, refq,
                   crashes, histVars>>

-----------------------------------------------------------------------------
(* handlePUT; handlePOSTBundle up to the end of the download *)

CreateTemp(r) ==
    /\ req[r].method \in {"PUT", "POST"}
    /\ Goto(r, "start", "body")
    /\ temps' = temps \cup {<<r, "body">>}
    /\ UNCHANGED <<graphVars, blobs, req, seen, todo, wire, status, bg, refq,
                   crashes, histVars>>

\* io.Copy ends; a bundle's members are known once its graphs are read.
ReceiveBody(r) ==
    /\ Goto(r, "body", IF req[r].method = "PUT" THEN "rename" ELSE "files")
    /\ todo' = [todo EXCEPT ![r] =
                    IF req[r].method = "PUT" THEN {}
                    ELSE Wanted(req[r]) \cap req[r].bundle.files]
    /\ UNCHANGED <<graphVars, diskVars, req, seen, wire, status, bg, refq,
                   crashes, histVars>>

\* io.Copy fails, or the bundle is not one: the temp file stays.
RejectBody(r) ==
    /\ pc[r] = "body"
    /\ \E s \in {400, 500} :
          (req[r].method = "PUT" => s = 500) /\ Answer(r, s)
    /\ UNCHANGED <<graphVars, diskVars, req, seen, todo, wire, bg, refq,
                   crashes, histVars>>

\* The file takes its final name; the Update that refers to it is sent.
PutRename(r) ==
    /\ Goto(r, "rename", "await")
    /\ temps' = temps \ {<<r, "body">>}
    /\ blobs' = blobs \cup {req[r].hash}
    /\ raced' = raced \ {req[r].hash}
    /\ wire' = [wire EXCEPT ![r] = "sent"]
    /\ UNCHANGED <<graphVars, req, seen, todo, status, bg, refq, crashes,
                   window, collected>>

\* Mutant of RenameFails: the error is reported, but PUT goes on.
RenameErrorIgnored(r) ==
    /\ Goto(r, "rename", "await")
    /\ wire' = [wire EXCEPT ![r] = "sent"]
    /\ UNCHANGED <<graphVars, diskVars, req, seen, todo, status, bg, refq,
                   crashes, histVars>>

RenameFails(r) ==
    /\ pc[r] \in {"rename", "member"}
    /\ Answer(r, 500)
    /\ bg' = [bg EXCEPT ![r] = "rmtemp"]
    /\ UNCHANGED <<graphVars, diskVars, req, seen, todo, wire, refq, crashes,
                   histVars>>

\* go os.Remove(f.Name())
RemoveTemp(r) ==
    /\ bg[r] = "rmtemp"
    /\ bg' = [bg EXCEPT ![r] = "none"]
    /\ temps' = temps \ {<<r, IF req[r].method = "PUT" THEN "body"
                                                       ELSE "member">>}
    /\ UNCHANGED <<graphVars, blobs, pc, req, seen, todo, wire, status, refq,
                   crashes, histVars>>

-----------------------------------------------------------------------------
(* handlePOSTBundle: the members one by one, then one Update for all graphs *)

MemberTemp(r) ==
    /\ Goto(r, "files", "member")
    /\ \E h \in todo[r] : seen' = [seen EXCEPT ![r] = h]
    /\ temps' = temps \cup {<<r, "member">>}
    /\ UNCHANGED <<graphVars, blobs, req, todo, wire, status, bg, refq,
                   crashes, histVars>>

MemberRename(r) ==
    /\ Goto(r, "member", "files")
    /\ temps' = temps \ {<<r, "member">>}
    /\ blobs' = blobs \cup {seen[r]}
    /\ raced' = raced \ {seen[r]}
    /\ todo' = [todo EXCEPT ![r] = @ \ {seen[r]}]
    /\ UNCHANGED <<graphVars, req, seen, wire, status, bg, refq, crashes,
                   window, collected>>

\* Mutant of SendBundle: the Update is sent while members remain.
SendBundleEarly(r) ==
    /\ Goto(r, "files", "await")
    /\ wire' = [wire EXCEPT ![r] = "sent"]
    /\ UNCHANGED <<graphVars, diskVars, req, seen, todo, status, bg, refq,
                   crashes, histVars>>

SendBundle(r) ==
    /\ todo[r] = {}
    /\ Goto(r, "files", "await")
    /\ wire' = [wire EXCEPT ![r] = "sent"]
    /\ UNCHANGED <<graphVars, diskVars, req, seen, todo, status, bg, refq,
                   crashes, histVars>>

-----------------------------------------------------------------------------
(* handleDELETE *)

\* Mutant of DeleteLookup: all the bindings are taken for the hash.
DeleteLookupAll(r) ==
    /\ pc[r] = "start" /\ req[r].method = "DELETE"
    /\ seen' = [seen EXCEPT ![r] = About(req[r].url)]
    /\ wire' = [wire EXCEPT ![r] = "sent"]
    /\ pc' = [pc EXCEPT ![r] = "await"]
    /\ UNCHANGED <<graphVars, diskVars, req, todo, status, bg, refq, crashes,
                   histVars>>

DeleteLookup(r) ==
    /\ pc[r] = "start" /\ req[r].method = "DELETE"
    /\ LET about == About(req[r].url) IN
       \/ about = {} /\ Answer(r, 404) /\ UNCHANGED <<seen, wire>>
       \/ \E h \in about :
             /\ seen' = [seen EXCEPT ![r] = h]
             /\ wire' = [wire EXCEPT ![r] = "sent"]
             /\ pc' = [pc EXCEPT ![r] = "await"]
             /\ UNCHANGED status
    /\ UNCHANGED <<graphVars, diskVars, req, todo, bg, refq, crashes,
                   histVars>>

-----------------------------------------------------------------------------
(* The Update of PUT, POST and DELETE, and its reply *)

\* The RDF store applies it, whether or not anyone still waits for it.
StoreApplies(r) ==
    /\ wire[r] = "sent"
    /\ wire' = [wire EXCEPT ![r] = "applied"]
    /\ quads' = AfterUpdate(quads, req[r])
    /\ refs' = {e \in refs : e[1] \notin DroppedGraphs(req[r])}
    /\ window' = [x \in Reqs |->
                    IF Open(x) THEN window[x] \cup {Page(quads', req[x].url)}
                               ELSE window[x]]
    /\ UNCHANGED <<diskVars, pc, req, seen, todo, status, bg, refq, crashes,
                   collected, raced>>

\* Mutant of UpdateSucceeds: PUT and DELETE do not wait for the store.
UpdateAssumed(r) ==
    /\ pc[r] = "await"
    /\ Answer(r, CASE req[r].method = "PUT"  -> 201
                   [] req[r].method = "POST" -> 200
                   [] OTHER                  -> 204)
    /\ UNCHANGED <<graphVars, diskVars, req, seen, todo, wire, bg, refq,
                   crashes, histVars>>

UpdateSucceeds(r) ==
    /\ pc[r] = "await" /\ wire[r] = "applied"
    /\ Answer(r, CASE req[r].method = "PUT"  -> 201
                   [] req[r].method = "POST" -> 200
                   [] OTHER                  -> 204)
    /\ bg' = IF req[r].method = "DELETE" THEN [bg EXCEPT ![r] = "count"]
                                         ELSE bg
    /\ UNCHANGED <<graphVars, diskVars, req, seen, todo, wire, refq, crashes,
                   histVars>>

\* Mutant of UpdateFails: the Update is sent again in the background.
UpdateResent(r) ==
    /\ pc[r] = "await" /\ Answer(r, 500)
    /\ wire' = [wire EXCEPT ![r] = "sent"]
    /\ UNCHANGED <<graphVars, diskVars, req, seen, todo, bg, refq, crashes,
                   histVars>>

\* Mutant of UpdateFails: the collector starts although DELETE failed.
UpdateFailsCollecting(r) ==
    /\ pc[r] = "await" /\ Answer(r, 500)
    /\ bg' = IF req[r].method = "DELETE" THEN [bg EXCEPT ![r] = "count"]
                                         ELSE bg
    /\ UNCHANGED <<graphVars, diskVars, req, seen, todo, wire, refq, crashes,
                   histVars>>

\* Mutant of UpdateFails: a failed Update is tried again, without a limit.
UpdateRetried(r) ==
    /\ pc[r] = "await"
    /\ wire' = [wire EXCEPT ![r] = "sent"]
    /\ UNCHANGED <<graphVars, diskVars, pc, req, seen, todo, status, bg, refq,
                   crashes, histVars>>

\* The connection breaks or the store reports an error: the Update may have
\* been applied, may be applied later, or never.
UpdateFails(r) ==
    /\ pc[r] = "await"
    /\ Answer(r, 500)
    /\ wire' \in {wire, IF wire[r] = "sent" THEN [wire EXCEPT ![r] = "lost"]
                                            ELSE wire}
    /\ UNCHANGED <<graphVars, diskVars, req, seen, todo, bg, refq, crashes,
                   histVars>>

-----------------------------------------------------------------------------
(* The collector: the goroutine of handleDELETE *)

\* Mutant of GcCount: the comparison with 0 is the wrong way round.
GcCountInverted(r) ==
    /\ bg[r] = "count"
    /\ bg' = [bg EXCEPT ![r] = IF Referenced(seen[r]) THEN "remove"
                                                     ELSE "none"]
    /\ UNCHANGED <<graphVars, diskVars, pc, req, seen, todo, wire, status,
                   refq, crashes, histVars>>

GcCount(r) ==
    /\ bg[r] = "count"
    /\ bg' = [bg EXCEPT ![r] = IF Referenced(seen[r]) THEN "none"
                                                     ELSE "remove"]
    /\ UNCHANGED <<graphVars, diskVars, pc, req, seen, todo, wire, status,
                   refq, crashes, histVars>>

GcRemove(r) ==
    /\ bg[r] = "remove"
    /\ bg' = [bg EXCEPT ![r] = "none"]
    /\ blobs' = blobs \ {seen[r]}
    /\ collected' = collected \cup (blobs \cap {seen[r]})
    /\ raced' = raced \cup {h \in blobs \cap {seen[r]} : InUse(h)}
    /\ UNCHANGED <<graphVars, temps, pc, req, seen, todo, wire, status, refq,
                   crashes, window>>

-----------------------------------------------------------------------------
(* The process dies: handlers and goroutines are gone, both stores stay.    *)
(* What was sent to the RDF store may still be applied.                     *)

Crash ==
    /\ crashes < MaxCrashes
    /\ crashes' = crashes + 1
    /\ pc' = [r \in Reqs |-> IF Open(r) THEN "done" ELSE pc[r]]
    /\ bg' = [r \in Reqs |-> "none"]
    /\ \E sent \in SUBSET Reqs :
          refq' = [r \in Reqs |-> refq[r] /\ r \in sent]
    /\ UNCHANGED <<graphVars, diskVars, req, seen, todo, wire, status,
                   histVars>>

\* The count query fails: the goroutine logs the error, then dereferences
\* the nil result, which ends the process.
GcCountFails(r) == bg[r] = "count" /\ Crash

-----------------------------------------------------------------------------
HandlerStep(r) ==
    \/ Admit(r) \/ Refuse(r) \/ GiveUp(r)
    \/ GetSelect(r) \/ GetOpen(r)
    \/ CreateTemp(r) \/ PutRename(r) \/ RenameFails(r)
    \/ MemberTemp(r) \/ MemberRename(r) \/ SendBundle(r)
    \/ DeleteLookup(r) \/ UpdateSucceeds(r) \/ UpdateFails(r)

BodyStep(r) == ReceiveBody(r) \/ RejectBody(r)

CollectorStep(r) == GcCount(r) \/ GcRemove(r)

Next ==
    \/ \E r \in Reqs : \/ Arrive(r) \/ HandlerStep(r) \/ BodyStep(r)
                        \/ RecordReferer(r) \/ StoreApplies(r)
                        \/ CollectorStep(r) \/ GcCountFails(r)
                        \/ RemoveTemp(r)
    \/ Crash

Spec == Init /\ [][Next]_vars

\* r's handler waits for a reply of the RDF store: to the query of checkAuth,
\* to the Select of handleGET or handleDELETE, or to its Update.
AsksStore(r) ==
    \/ pc[r] = "auth" /\ UseAcl
    \/ pc[r] = "start" /\ req[r].method \in {"GET", "DELETE"}
    \/ pc[r] = "await"

StoreReply(r) == AsksStore(r) /\ HandlerStep(r)
LocalStep(r) == ~AsksStore(r) /\ HandlerStep(r)

\* The Go scheduler runs every goroutine that can run.  Nobody promises that
\* a client sends the body it announced, nor that the RDF store ever replies
\* or drops the connection: http.Client has no timeout here.
Fairness ==
    \A r \in Reqs : /\ WF_vars(LocalStep(r))
                    /\ WF_vars(GcRemove(r))
                    /\ WF_vars(RemoveTemp(r))

FairSpec == Spec /\ Fairness

-----------------------------------------------------------------------------
TypeOK ==
    /\ quads \subseteq Quad
    /\ refs \subseteq Urls \X Urls
    /\ blobs \subseteq Hashes
    /\ temps \subseteq Reqs \X {"body", "member"}
    /\ pc \in [Reqs -> PcStates]
    /\ req \in [Reqs -> Call \cup {NoCall}]
    /\ \A r \in Reqs : pc[r] # "new" => req[r] \in Offers[r]
    /\ seen \in [Reqs -> Hashes \cup {None}]
    /\ todo \in [Reqs -> SUBSET Hashes]
    /\ wire \in [Reqs -> {"none", "sent", "applied", "lost"}]
    /\ status \in [Reqs -> Statuses]
    /\ bg \in [Reqs -> {"none", "count", "remove", "rmtemp"}]
    /\ refq \in [Reqs -> BOOLEAN]
    /\ crashes \in 0 .. MaxCrashes
    /\ window \in [Reqs -> SUBSET SUBSET Hashes]
    /\ collected \subseteq Hashes
    /\ raced \subseteq collected

-----------------------------------------------------------------------------
(* Safety *)

\* Hashes whose files bundles promised and did not hold.
Unbacked == UNION {Missing(req[r]) : r \in Reqs}

\* What the store refers to has its file, through crashes, failed and late
\* Updates and any interleaving of handlers, unless a collector took the
\* file while it was in use, or a bundle never had it.  The order of
\* handlePUT and handlePOSTBundle, first the file and then the Update, is
\* what makes it so; and a second upload of the content heals it.
DanglingOnlyByRace ==
    \A h \in Hashes : InUse(h) => h \in blobs \cup raced \cup Unbacked

\* As long as nobody sends a DELETE and bundles hold their members, every
\* page the store describes has its data, whatever else fails or dies.
SafeUntilDelete ==
    (\A r \in Reqs : req[r].method # "DELETE") /\ Unbacked = {}
        => \A e \in quads : e[3] \in blobs

\* CLEAR and INSERT travel in one Update: a page never has two contents,
\* whatever order concurrent PUTs, bundles and late Updates take effect in.
OneHash ==
    \A d, e \in quads : d[1] = e[1] => d = e

\* Every answer describes the page as it was at some moment while the
\* request was being served: a 200 of GET gives content the page had, a 404
\* says it had none (or that a collector took the file), a 201 and a 204
\* mean that the change was seen.
AnswerJustified(r) ==
    LET m == req[r].method
        s == status[r]
        Saw(p) == p \in window[r]
    IN /\ m = "GET" /\ s = 200 => \E p \in window[r] : seen[r] \in p
       /\ m = "GET" /\ s = 404 =>
             Saw({}) \/ \E p \in window[r] :
                           p \cap (collected \cup Unbacked) # {}
       /\ m = "PUT" /\ s = 201 => Saw({req[r].hash})
       /\ m = "POST" /\ s = 200 /\ req[r].url \in req[r].bundle.drops =>
             Saw(Page(req[r].bundle.quads, req[r].url))
       /\ m = "DELETE" /\ s = 404 => Saw({})
       /\ m = "DELETE" /\ s = 204 => Saw({}) /\ window[r] # {{}}

AnswersJustified == \A r \in Reqs : AnswerJustified(r)

\* A file disappears only in the wake of an acknowledged DELETE of a page
\* that had that content.
CollectedOnlyAfterDelete ==
    \A h \in collected :
        \E r \in Reqs : /\ req[r].method = "DELETE" /\ status[r] = 204
                        /\ \E p \in window[r] : h \in p

-----------------------------------------------------------------------------
(* What the documentation says, and the code does not do *)

\* "GET return the data contained in the entry": a page that had data all
\* the time is not answered 404.
GetReturnsEntry ==
    \A r \in Reqs :
        req[r].method = "GET" /\ status[r] = 404 => {} \in window[r]

-----------------------------------------------------------------------------
(* Liveness, under FairSpec *)

\* Only the client that withholds its body, or the store that does not reply
\* to this very request, can keep a handler from answering: not the other
\* requests, the collectors, the members of a bundle or an earlier death of
\* the process.  What becomes of the answer on its way to the client is not
\* modelled (README.md:54-55 reports bundle imports whose response never
\* arrived).
HandlersAnswer ==
    \A r \in Reqs : WF_vars(StoreReply(r)) =>
        \A k \in 0 .. MaxCrashes :
            (Open(r) /\ crashes = k)
                ~> (status[r] # 0 \/ pc[r] = "body" \/ crashes > k)

\* A DELETE of a page that had h, and nothing else, until it was dropped has
\* h reclaimed if the store replies to its count, unless h is or comes back
\* in use or the process dies meanwhile.  (When a PUT gives the page another
\* content between the Select of handleDELETE and its DROP, or a bundle gave
\* it a hash in a graph of another page, what is dropped is not what is
\* counted: its file stays.)
DeletedContentReclaimed ==
    \A r \in Reqs : WF_vars(GcCount(r)) =>
        \A h \in Hashes, k \in 0 .. MaxCrashes :
            (bg[r] = "count" /\ window[r] = {{h}, {}} /\ crashes = k)
                ~> (h \notin blobs \/ InUse(h) \/ crashes > k)

-----------------------------------------------------------------------------
(* The server keeps PageStore's promise *)

Phase(r) == IF Open(r) THEN "open" ELSE IF pc[r] = "new" THEN "idle" ELSE "done"

Returned(r) ==
    IF req[r].method = "GET" /\ status[r] = 200 THEN seen[r] ELSE None

PS == INSTANCE PageStore WITH
          page    <- [u \in Urls |-> Page(quads, u)],
          call    <- req,
          phase   <- [r \in Reqs |-> Phase(r)],
          applied <- {r \in Reqs : wire[r] = "applied"},
          reply   <- status,
          body    <- [r \in Reqs |-> Returned(r)],
          lost    <- collected

ImplementsPageStore == PS!PSSpec

=============================================================================
