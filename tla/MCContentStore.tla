--------------------------- MODULE MCContentStore ---------------------------
(***************************************************************************)
(* Small instances of ContentStore for TLC.                                *)
(***************************************************************************)
EXTENDS ContentStore, TLC

CONSTANTS a, b, h1, h2, r1, r2, r3, r4

Request(m, u, h, v) ==
    [method |-> m, url |-> u, hash |-> h, bundle |-> EmptyBundle,
     referer |-> v]

Gets    == {Request("GET", u, None, Malformed) : u \in Urls}
Puts    == {Request("PUT", u, h, Malformed) : u \in Urls, h \in Hashes}
Deletes == {Request("DELETE", u, None, Malformed) : u \in Urls}

\* A bundle that gives each of two pages a content and holds both members.
Import(u, f) ==
    [method |-> "POST", url |-> u, hash |-> None, referer |-> Malformed,
     bundle |-> [files |-> {f[v] : v \in DOMAIN f}, drops |-> DOMAIN f,
                 quads |-> {<<v, v, f[v]>> : v \in DOMAIN f}]]

Imports == {Import(a, f) : f \in [{a, b} -> Hashes]}

\* A PUT, a DELETE and any third request, on pages that may share content.
PutDeleteAny ==
    (r1 :> {Request("PUT", u, h1, Malformed) : u \in Urls} @@
     r2 :> {Request("DELETE", a, None, Malformed)} @@
     r3 :> Gets \cup Puts \cup Deletes \cup Imports
           \cup {Request("OTHER", a, None, Malformed)})

\* Two pages with the same content: one is deleted while the other is
\* written and read.
SharedContent ==
    (r1 :> {Request("PUT", a, h1, Malformed)} @@
     r2 :> {Request("DELETE", a, None, Malformed)} @@
     r3 :> {Request("PUT", b, h1, Malformed)} @@
     r4 :> {Request("GET", b, None, Malformed)})

\* A page is written and deleted; meanwhile it gets other content, a visitor
\* comes, its content is used elsewhere, or a bundle of two members arrives.
WriteDeleteAny ==
    (r1 :> {Request("PUT", a, h1, Malformed)} @@
     r2 :> {Request("DELETE", a, None, Malformed)} @@
     r3 :> {Request("PUT", b, h1, None), Request("PUT", a, h2, Malformed),
            Request("GET", a, None, b), Import(a, (a :> h1 @@ b :> h2))})

=============================================================================
