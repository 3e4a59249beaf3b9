-------------------------- MODULE MCAuthenticator --------------------------
(***************************************************************************)
(* A small instance of Authenticator for TLC.                              *)
(***************************************************************************)
EXTENDS Authenticator, TLC

CONSTANTS mem, vis

Docs == <<"host", "docs">>
Page == Entry(Docs, "page")      \* no rules of its own
Secret == Entry(Docs, "secret")  \* a domain, and a mark on what is around
Lodge == Entry(Docs, "lodge")    \* a domain of certificates
Broken == Entry(Docs, "broken")  \* a mark on its only domain
Short == Entry(Docs, "x")        \* a short name

Guests == <<"guest">> :> <<"pw">> @@ <<"member">> :> <<"pw">>

SomeRules ==
    <<Entry(<<"host">>, None), Anonymous>> :>
        [NoRule EXCEPT !.perm = "default" :> "allow"]
    @@ <<Entry(Docs, None), Anonymous>> :>
        [NoRule EXCEPT !.perm = "PUT" :> "deny"]
    @@ <<Entry(Docs, None), "staff">> :>
        [NoRule EXCEPT !.perm = "PUT" :> "allow"]
    @@ <<Secret, Anonymous>> :> [NoRule EXCEPT !.inherit = TRUE]
    @@ <<Secret, "staff">> :>
        [NoRule EXCEPT !.users = Guests, !.realm = <<"a", "\"", "\\", ",">>]
    @@ <<Lodge, "club">> :>
        [NoRule EXCEPT !.perm = "GET" :> "allow", !.certs = {"cert"},
                       !.realm = <<"u umlaut">>]
    @@ <<Broken, "staff">> :> [NoRule EXCEPT !.inherit = TRUE]

\* Its two bytes.
Encoding == "u umlaut" :> <<"C3", "BC">>

\* No header, a nonce nobody has issued after another method, a character
\* behind which the texts are cut elsewhere, a lone word.
Headers == {
    <<>>,
    <<"Digest", " ", "a", "=", "\"", "u umlaut", "\"", ",", "nonce", "=", "n0">>,
    <<"Other", " ", "a", "=", "b", ",", " ">> \o Credentials("n0", "o1", "guest", "pw"),
    <<"Digest">>}

SomeRequests ==
    {Request(e, "PUT", {}, <<>>) : e \in {Page, Short, Broken}}
    \cup {Request(Lodge, "GET", {"cert"}, <<>>)}
    \cup {Request(Secret, "PUT", {}, h) : h \in Headers}
    \cup {Request(Secret, "GET", {}, <<>>)}

SomeReplies == {Request(Secret, "PUT", {}, <<>>)}

SortedNames == <<"anonymous", "club", "staff">>
StaffRealm == <<"a", "\"", "\\", ",">>
Put_ == Request(Secret, "PUT", {}, <<>>)

Keys == <<"n1", "n2", "n3", "n4", "n5", "n6", "n7", "n8", "n9">>
OpaqueOf == [n \in Range(Keys) |-> "o" \o n]

=============================================================================
