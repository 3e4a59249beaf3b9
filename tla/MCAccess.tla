------------------------------ MODULE MCAccess ------------------------------
(***************************************************************************)
(* Small instances of Access for TLC.                                      *)
(***************************************************************************)
EXTENDS Access

CONSTANT r1

Root == Url(<<"">>, NoQuery)
Dir == Url(<<"d", "">>, NoQuery)
Page == Url(<<"d", "x">>, NoQuery)
PageQuery == Url(<<"d", "x">>, <<"q">>)
QueryDir == Url(<<"d", "x">>, <<"q", "">>)
QueryBeneath == Url(<<"d", "x">>, <<"q", "y">>)
File == Url(<<"d">>, NoQuery)
Other == Url(<<"e">>, NoQuery)

Row(graph, page, user, auth, act) ==
    [graph |-> graph, page |-> page, user |-> user, auth |-> auth, act |-> act]

SomeRows == {
    Row(Root, Root, "anonymous", "allow", "Default"),
    Row(Root, Root, "alice", "deny", "GET"),
    Row(Dir, Dir, "anonymous", "deny", "Default"),
    Row(Dir, Dir, "alice", "allow", "GET"),
    Row(Dir, Dir, "alice", "allow", "Default"),
    Row(Dir, Page, "alice", "allow", "Default"),
    Row(Dir, PageQuery, "alice", "deny", "Default"),
    Row(Other, Page, "alice", "deny", "GET")}

SomeGraphs == {Dir, File, Page, Other, QueryBeneath}

Request(url, tls, certs, sparql, form, default, named) ==
    [method |-> IF form THEN "POST" ELSE "GET", url |-> url, tls |-> tls,
     certs |-> certs, sparql |-> sparql, form |-> form,
     defaultGraphs |-> default, namedGraphs |-> named]

SomeCalls == {
    Request(Page, TRUE, <<"bob", "alice">>, FALSE, FALSE, {}, {}),
    Request(PageQuery, FALSE, <<>>, TRUE, FALSE, {}, {}),
    Request(PageQuery, TRUE, <<"alice">>, TRUE, TRUE, {}, {}),
    Request(QueryDir, TRUE, <<"alice">>, TRUE, TRUE, {}, {}),
    Request(QueryDir, TRUE, <<"alice">>, TRUE, TRUE, {QueryBeneath}, {Page}),
    Request(Dir, TRUE, <<"alice">>, TRUE, FALSE, {}, {Page}),
    Request(Dir, TRUE, <<"alice">>, TRUE, FALSE, {Page, Other}, {}),
    Request(File, TRUE, <<"alice">>, TRUE, FALSE, {}, {}),
    Request(Root, TRUE, <<>>, FALSE, FALSE, {}, {})}

=============================================================================
