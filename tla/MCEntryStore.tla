---------------------------- MODULE MCEntryStore ----------------------------
(***************************************************************************)
(* Small instances of EntryStore for TLC.                                  *)
(***************************************************************************)
EXTENDS EntryStore, TLC

CONSTANTS page, r1, r2, r3

Request(m, e, t) == [method |-> m, entry |-> e, typed |-> t]

\* A PUT of a page with a Content-Type, a PUT or a DELETE, and any third
\* request.
PutWriteAny ==
    (r1 :> {Request("PUT", page, TRUE)} @@
     r2 :> {Request("PUT", page, FALSE), Request("DELETE", page, FALSE)} @@
     r3 :> {Request(m, page, FALSE) : m \in Methods} \cup {Request("PUT", page, TRUE)})

=============================================================================
