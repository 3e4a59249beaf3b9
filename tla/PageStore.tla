------------------------------ MODULE PageStore ------------------------------
(***************************************************************************)
(* What the clients of the SmartWeb2 file server may rely on, with neither *)
(* stores nor handlers: pages, requests, and the answers they get.         *)
(*                                                                         *)
(* A request that writes takes effect at most once, on all its pages at    *)
(* the same time.  It has taken effect when it is acknowledged; when it    *)
(* failed or was cut off it may still take effect later.  An answer tells  *)
(* how the page was at some moment while the request was open, with one    *)
(* exception: the data of a page may have been lost, to a DELETE of the    *)
(* same content.                                                           *)
(***************************************************************************)
EXTENDS StoreData

VARIABLES
    page,     \* the contents of each page: empty or one hash
    call,     \* the requests
    phase,    \* idle, open or done
    applied,  \* the requests that took effect
    reply,    \* the status answered, 0 when there is none
    body,     \* the content answered by a GET
    window,   \* what the page was while the request was open
    lost      \* contents whose file was removed at some time

pageVars == <<page, call, phase, applied, reply, body, window, lost>>

PSInit ==
    /\ page = [u \in Urls |-> {}]
    /\ call = [r \in Reqs |-> NoCall]
    /\ phase = [r \in Reqs |-> "idle"]
    /\ applied = {}
    /\ reply = [r \in Reqs |-> 0]
    /\ body = [r \in Reqs |-> None]
    /\ window = [r \in Reqs |-> {}]
    /\ lost = {}

Begin(r) ==
    /\ phase[r] = "idle"
    /\ phase' = [phase EXCEPT ![r] = "open"]
    /\ \E q \in Offers[r] :
          /\ call' = [call EXCEPT ![r] = q]
          /\ window' = [window EXCEPT ![r] = {page[q.url]}]
    /\ UNCHANGED <<page, applied, reply, body, lost>>

\* A writer not told that it failed for good takes effect, once.
TakeEffect(r) ==
    /\ phase[r] # "idle" /\ r \notin applied /\ reply[r] \in {0, 500}
    /\ call[r].method \in {"PUT", "POST", "DELETE"}
    /\ call[r].method = "DELETE" => {p \in window[r] : p # {}} # {}
    /\ applied' = applied \cup {r}
    /\ page' = [u \in Urls |->
                   IF u \in DroppedGraphs(call[r])
                   THEN Page(InsertedQuads(call[r]), u) ELSE page[u]]
    /\ window' = [x \in Reqs |->
                    IF phase[x] = "open"
                    THEN window[x] \cup {page'[call[x].url]} ELSE window[x]]
    /\ UNCHANGED <<call, phase, reply, body, lost>>

\* The answers a request may get.
Justified(r, s, h) ==
    LET Saw(p) == p \in window[r] IN
    CASE call[r].method = "GET" /\ s = 200 -> \E p \in window[r] : h \in p
      [] call[r].method = "GET" /\ s = 404 ->
            \/ Saw({})
            \/ \E p \in window[r] : p \cap lost # {}
            \/ \E p \in window[r], x \in Reqs : p \cap Missing(call[x]) # {}
      [] call[r].method = "DELETE" /\ s = 404 -> Saw({}) /\ r \notin applied
      [] call[r].method = "DELETE" /\ s = 204 -> r \in applied
      [] call[r].method = "PUT"  /\ s = 201   -> r \in applied
      [] call[r].method = "POST" /\ s = 200   -> r \in applied
      [] call[r].method = "OTHER" -> s \in {403, 405, 500}
      [] OTHER -> s \in {400, 403, 500} /\ (s # 500 => r \notin applied)

Respond(r) ==
    /\ phase[r] = "open"
    /\ phase' = [phase EXCEPT ![r] = "done"]
    /\ \E s \in {200, 201, 204, 400, 403, 404, 405, 500} :
       \E h \in Hashes \cup {None} :
          /\ Justified(r, s, h)
          /\ (h # None) <=> (call[r].method = "GET" /\ s = 200)
          /\ reply' = [reply EXCEPT ![r] = s]
          /\ body' = [body EXCEPT ![r] = h]
    /\ UNCHANGED <<page, call, applied, window, lost>>

\* The server dies: open requests are cut off.
CutOff ==
    /\ phase' = [r \in Reqs |-> IF phase[r] = "open" THEN "done"
                                                     ELSE phase[r]]
    /\ UNCHANGED <<page, call, applied, reply, body, window, lost>>

Lose(h) ==
    /\ \E r \in Reqs : /\ call[r].method = "DELETE" /\ reply[r] = 204
                       /\ \E p \in window[r] : h \in p
    /\ lost' = lost \cup {h}
    /\ UNCHANGED <<page, call, phase, applied, reply, body, window>>

PSNext ==
    \/ \E r \in Reqs : Begin(r) \/ TakeEffect(r) \/ Respond(r)
    \/ \E h \in Hashes : Lose(h)
    \/ CutOff

PSSpec == PSInit /\ [][PSNext]_pageVars

=============================================================================
