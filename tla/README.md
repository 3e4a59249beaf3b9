# SmartWeb verification

TLA+ models of the SmartWeb servers, the bundle tool and the page editor, TLC
configurations that check them on small instances, and TLAPS proofs about eight
of the models for every instance. Paths below are relative to `src/`.

## The system

SmartWeb is a web server whose pages can be written (PUT, DELETE, POST) as well
as read, with the metadata of pages in RDF. The repository holds two servers:
`cmd/smartweb` with `server/` keeps everything in files, `cmd/smartweb2` with
`server2/` keeps the bytes in files named after their SHA1 and everything else
in an RDF store reached by SPARQL over HTTP. Around them are a tool that packs a
directory into a bundle, and a web page that edits pages of the server.

| Component | State it keeps | Operations | Module |
|---|---|---|---|
| SmartWeb2 file server (`server2/server.go`, `server2/bundle.go`) | the RDF store's graphs, the content files and temp files, the handlers' and goroutines' locals | GET, HEAD, PUT, DELETE, POST of a bundle, the referer goroutine, the collector goroutine, process death | `ContentStore` (promise: `PageStore`, data: `StoreData`) |
| Bundles (`cmd/swbundle`, `bundle/`, `nquads/nquads.go`, `server2/bundle.go`) | the archive, the quads channel, two inserters that write one Update | pack, read, relocate, make statements, import | `Bundle` |
| Access control and SPARQL endpoint (`server2/auth.go`, `server2/sparql.go`) | none; reads ACL rows and the list of graphs | check a request, list graphs, forward a query | `Access` |
| Multiplexer and process start (`httpmux/`, `cmd/smartweb2`) | key and certificate files, the accept loop, the byte read ahead | start, accept, dispatch to HTTP or TLS, Read, WriteTo | `HttpMux` |
| SmartWeb1 file server (`server/server.go`, `server/filesystem.go`) | the entries' files and their `-tmp` files | GET, HEAD, PUT, DELETE, process death | `EntryStore` |
| Page editor (`saveurl/plugin.js`, `edit.html`) | per window: document, hash, text, snapshot, timers, loads, dialog; shared: `localStorage` | load, edit, save, save as, automatic backup, restore, close | `Editor` |
| N-Quads reader and writer (`nquads/reader.go`, `writer.go`, `literals.go`, `turtle/`) | the text written so far, the reader's place | write a quad, a comment, an empty line; read a statement | `NQuads` |
| SmartWeb1 authenticator (`server/auth.go`) | the process's map of nonces, shared by handlers without a lock | decide a request by certificates, Digest answers and the rules of the entries around; issue challenges | `Authenticator` |
| Header parser (`server/headerparse*`) | none between headers | parse an `Authorization` header, run its actions | `HeaderParser` |
| SPARQL client (`sparql/`) | none | Select, Update, quoting | its outcomes are part of `ContentStore`, `Access`, `Bundle` |
| Keygen, Redland binding, copied auth library, web components, scripts | none of the system's | | not modelled, see the end |

How they interact. A connection is accepted and dispatched by `httpmux`, then
`ServeHTTP` checks the ACL with a SPARQL query, starts the referer goroutine and
calls a handler. The handlers talk to the RDF store (one HTTP request per Select
or Update) and to the directory of content files. DELETE leaves a goroutine that
counts the references to the content and removes its file. POST reads a bundle
made by `swbundle` and sends one Update for all its graphs. The editor is a client:
it GETs and PUTs pages and keeps backups in the browser.

What is hard in this code: no lock anywhere. Two stores are written by separate
steps; handlers, the collector, the referer goroutine and process death
interleave; an Update that failed may be applied later; the collector counts and
removes in two steps; the first server's temporary files have the same name for
all requests; the Update of a bundle is assembled token by token in an order the
bundle dictates; the editor's callbacks, timers and answers come in any order and
windows share one store; `ServeHTTP` of the first server has a value receiver, so the
handlers lock copies of the mutex and share the nonces unguarded. `PROJECT.json` lists each hazard at its line.

## The modules

### StoreData, PageStore, ContentStore

`StoreData` has what the server and its promise share: requests, bundles, and what
an Update does to the quads (`AfterUpdate`: drop graphs, then insert). Only
`sw:hash` quads are kept; `sw:contentType` and `sw:child` triples decide nothing
here and are modelled in `Bundle`.

`PageStore` is the promise to clients, without stores and handlers: a write takes
effect at most once and on all its pages at once, before it is acknowledged;
after a failure it may still take effect; an answer describes the page at some
moment while the request was open; content is lost only after an acknowledged
DELETE of a page that had it.

`ContentStore` is the code. One action is one step of a handler or goroutine
between two accesses to shared state. `pc` is the handler's place: `auth` (ACL
query), `start` (dispatch), `open` (handleGET between Select and Open), `body`
(io.Copy), `rename`, `files`/`member` (the members of a bundle), `await` (the Update
was sent), `done`. `wire` follows the Update: `sent`, `applied`, or `lost`;
`StoreApplies` may happen after `UpdateFails` or `Crash`. `bg` is the goroutine left
behind. `GcCountFails` is the nil dereference after a failed count
(`server2/server.go:214-216`): it is a process death. `blobs` and `temps` are the files in
`Root`. `window`, `collected` and `raced` are history and read by no guard.

Notes on faithfulness. `handleDELETE` and the collector query the union of all graphs
(`About`, `Referenced`), `handleGET` only the page's own graph (`Page`). A member of a
bundle that the archive lacks is not noticed (`Missing`). The archive's temp file
is never removed. `os.Remove` is taken not to fail. The file system is taken to
keep what was renamed (the code never calls fsync; loss of power is left out).
Quads of a bundle go only to graphs the bundle registers (`WellFormed`); `Bundle`
checks that of `makeStatements` (`UpdateMeans`).

### Bundle

Packing (`readDir`'s recursion, `InsertFile` that reads a file twice: once for the
digest and once for the archive, so a file may change in between), the goroutine that
reads `graphs.nq` into an unbuffered channel (`chan` is what a blocked sender offers), `makeStatements` with its drop and
insert inserters, and `Execute`, which reads the tokens they wrote as SPARQL does.
Paths and URLs are sequences of segments, the last one empty for a directory; a URL's first segment is its
origin, which stands for scheme, user and host (`Hosts`), and `isSubUrl` compares it before the paths. A bundle is posted to the
URL `ServeHTTP` makes of `Host` and the request's path (`server2/server.go:240-243`), so it has no user; requests whose
line holds a whole URL, as to a proxy, are left out. References may be relative, begin with a slash, or be absolute: of this
or another host, which are cleaned of `..` as `url.Parse` does it, or of a scheme without paths (`Opaque`). Queries and fragments of references
are left out: `isSubUrl` does not look at them.
`EscapeIri` writes `\u` escapes and `readEscapeSeq` shifts each digit by 8 bits, so a
name with such a character is read as another (`Misread`); `NQuads` has the text itself. A bundle may also be
made by hand from any sequence of statements; the tokens of the Update are named for what they are in SPARQL. A ZIP file without `graphs.nq` makes
`GraphStatements` fail on a nil reader; that is the `crashed` phase.

### Access

`urlParents`, the rows of `checkAuth`'s query in any order the store may return
them, the loop over them, then `listSubGraphs`, `graphListCheck` and the forwarded
query. ACL rows and graphs change at any time. Not in it: the server started
without ACLs, the `?keygen` request that is served before the check
(`server2/server.go:250`), groups (`sw:user+`).
Facts met while modelling, which no document contradicts: with TLS and no client
certificate nobody is admitted, not even as Anonymous; a form keeps the URL's query
part, so it lists no graphs below its page, and if the query part ends with a slash, the
same page's URLs whose query parts begin with it (`HasSuffix` and `strstarts` look at the whole text, which
`IsDirectory` and `SubGraphs` follow: path and query are sequences of the segments between slashes); ACLs of sub graphs are not
consulted (the FIXME at `server2/sparql.go:83`).
`Nearer`, which the rule of `DecisionRight` rests on, orders the pages above a URL: with its query first, then from the
deepest. A first form of it was no order when the URL has a query, which its proof showed; a row about
a page with a query now has TLC look there too.

### HttpMux

`main` loads the key pair; when that fails for any reason (`Regenerate` is enabled whatever the files
hold) it truncates both files, makes a pair, writes the two files and listens. It may fail or die at
each step and be started again. `misread` counts the loads that failed although both files held a pair: after
such a load the server does get another identity, and `IdentityKept` allows one for each. The accept loop
takes one connection, reads its first byte without a deadline, what else is there
under a deadline (which in practice always expires first, as the second `Read` waits
for more), and hands the connection over with a reader that first
returns what was read ahead. `Read` and `WriteTo` may be mixed. Whether a reset
connection ends `Serve` depends on whether the error is temporary, which differs
between versions of Go: both are possible.

### EntryStore

Files are objects and names point to them: `Create` truncates whatever file has the
`data-tmp` name or makes one, writes go to the open file, `Commit` renames
whatever file has the `-tmp` name, also when the write failed. A GET opens the data, then
reads the header entries (`GetHeaders`), then copies what it opened, so a PUT may come between each;
`sent` and `beside` remember what was served. `Exists` is inverted in
the code (`server/filesystem.go:75-78`) and in the model; `handleError` answers
404 whatever the error. `RemoveAll` of the meta entries is one step.

### Editor

One action is one callback of a window: commands, the change event, timers,
answers. CKEditor need not raise the change event for a text set by a program, so
it may or may not. The notices shown while a document loads are a text. A
backup's key is the window's prefix and document; windows with the same prefix
share it. A window without a document has `documentURL` undefined, which is a key and a URL like others.
`openUrl` is run by a change of the hash, which nothing prevents while another load, a PUT or a
dialog is under way, or by the toolbar, which asks in a dialog; loads end in any order, each of them
replacing the text. A dialog covers the window, so that the user does not type, until it is dismissed, which
it may be before the answer it waits for. `open`, `loads`, `hash` and `dialog` are that. `autoSave` fails because another
backup is there or because `setItem` throws, by when `autoSaveAlready` has been set.

`BackedUpOrSoon` follows the variable `dirty`, which is what the editor tells the user: while it is false, what differs
from the saved text is in the backup, unless another window has removed or replaced that since it was made
(`disturbed`); while it is true a timer is pending, unless a backup failed since the text was last clean (`failed`: the
timer is then gone and `plugin.js:75` keeps all later changes from starting one). `CleanExplained` excuses the answers
that declare a text clean they know nothing of (`excused`); `editor_lost` shows them.

Left out: `setData` and its callback are one step; so are the questions of `confirm` and what depends on them. The
hash `#undefined` written when a window without a document refuses `openUrl`, which would have the browser ask for a
document of that name, and a hash emptied by hand are not entered again. No server of the repository sends a `Location`,
so `httpPutFile` always returns the URL it was given.

### NQuads

Texts are sequences of character codes, as the properties are about escapes. The writer's
calls append to one text; the text is then cut anywhere (a truncated archive, or the
end of a read) and read: `ReadSubject` to `ReadDot` are the parts of `readStatement`, and the operators named after
the reader's methods say for a text and a position what they return and where they leave the reader, bytes that
were only peeked at included. `Statements` is what there is to write: predicates and graphs are strings, subjects
IRIs or blank nodes, and only the reader makes a blank node, whose name ends at a space. `Survives` names the characters written as `\u` escapes that come back as they were: those below 16.
An import reads back only what survives; the rest still stays in its own statement.
Three things the code does and the model keeps: literals with a language or a type are written but
refused by the reader, a carriage return in a file name ends the comment the writer put it in,
and a text that ends inside a statement is an error and not the end.

### HeaderParser, Authenticator

`HeaderParser` is the PEG as the generated parser runs it: a rule tries its alternatives in order
and never returns to one; `Then`, `Either` and `Maybe` are sequence, choice and option. Letters and digits
come in words, all else is one character a step. `Execute` runs the actions, so a parameter
goes to the last method. The rules match characters, but `Execute` cuts the texts out of the header's bytes at
the same positions (`Bytes`, `Text`): behind a character that is not ASCII, which has several bytes, every text
is cut too early. `Utf8` gives such characters their bytes; a word counts as one character and one byte. As written, the grammar does not match a header with a space before a comma, or
with a token68 behind a scheme (Basic, Bearer): such a request has no methods. A lone word is taken for
a token68 and makes the handler panic, which ends its connection.

`Authenticator` is `auth.go`. A handler is `purge` (its clock is read on arrival; expired nonces go,
certificates are checked), `digest` (one method of the header a step, with one access to the map
each), `issue` (a challenge for each domain, one insertion a step, whatever was
decided), then answered. `nonces` is the map; `Restart` empties it, and stands also for the runtime stopping a
process that writes a map twice at once. Time is `clock`, in units of which `Validity` is one. Hashes are
abstracted to the password they are made from. `basis` and the fields `time`, `domain` and `process` of a
challenge are history, read by no guard.

Facts met while modelling, which are in the model: `Exists` is inverted, so an `inherit` mark stops the search for
permissions instead of letting it go on, and makes `getPath` of the domain panic (`DomainPanics`); the loops that
inherit credentials read the entry's own parameters each time round; the parent of an entry with a name of one
or two characters is one directory too high (four characters are cut off its path), and properties are stated
for other names; the nonce count is never looked at (the FIXME at `server/auth.go:117`). A challenge whose realm
is not all ASCII is misread behind the realm, and so is a header with such a user name:
`ChallengesReadable` speaks of realms of ASCII characters only. In `auth` the realm of the entry "lodge" and one of
the visitor's headers have such a character, and without the premise TLC finds the invariant violated.

## The runs

| Run | Instance | Shows |
|---|---|---|
| `store_safety` | a PUT, a DELETE, any third request (a bundle of two pages or an unknown method included), 2 pages, 2 contents, 1 crash | files stand behind pages, one content per page, every answer is justified, collection only after DELETE, and the refinement of `PageStore` |
| `store_live` | a PUT, a DELETE of the same page, and a PUT of other content to it, of the same content elsewhere, a GET or a bundle of two members, 1 crash, fairness | a handler answers if it has its body and the store replies to it, whatever becomes of the others; deleted content is reclaimed |
| `store_race` | two PUTs of one content, a DELETE, a GET | finding: GET answers 404 for a page that always had data |
| `bundle_import` | a tree of four files (a name with a space, one that is no URL), at the root, a target with and one without final slash, or any 4 of 10 statements (two absolute references) | the Update means what the statements say, stays below the target, the tree arrives, the import ends |
| `nquads` | up to 3 of 10 calls of the writer, cut at every byte | what was written is read back, or the character that was misread is a named one; no statement is invented, or lost unless a cut leaves at most its subject, where the code ends without an error |
| `auth` | a member and a visitor, 5 entries with their rules (one realm with quoted characters, one beyond ASCII), 9 nonces, 2 ticks of clock, 1 restart, 1 visit and 1 wrong reply | decisions follow rules and good proofs in both directions, only expired nonces are called stale, challenges with an ASCII realm parse back, the member gets in |
| `access` | one request of 9 kinds (two forms sent to a URL whose query ends with a slash), any subset of 8 ACL rows (one about a page with a query), 5 graphs, 2 changes | the decision is the nearest page's, queries stay below their URL and never have an empty list |
| `mux` | 2 clients, 2 bytes each, 2 starts whose loads and writes may fail, crashes | streams intact, identity kept but for a load that fails on a whole pair, only silence blocks, bytes arrive |
| `entry_safety` | a typed PUT, a PUT or DELETE, any third request, 2 chunks, 1 crash | what the temporary files protect, and that a GET serves data and a type that were there while it was open |
| `entry_torn` | the same without crashes | finding: overlapping PUTs leave mixed data |
| `editor_safety` | 1 window, opened with a document or without, 2 documents of which 2 are opened, or 2 windows and none; 2 edits, 1 PUT | clean texts are explained, unsaved texts are in the backup or a timer is pending, also when another window restores, removes or replaces them |
| `editor_lost` | 1 window, opened with a document, 2 edits, 2 PUTs, 2 documents opened | finding: a text is taken for saved that never reached the server |

`CHECK_DEADLOCK FALSE` is in every configuration: requests, edits and starts are finite
in number, so every instance comes to rest.

Why the bounds are enough. The hazards of the stores are between a writer, a deleter
(with its collector) and one more party, on two pages that share a content: three
requests, two URLs, two hashes. A second crash meets no state
that the first could not meet, since a crash leaves only the two stores and the
Updates in flight. Two chunks are the least that let a writer be interrupted in
its file. Four statements let a graph be registered twice with quads before, between
and after. Two starts are the least for a second pair; two clients for one waiting
behind another. In `store_safety` the requests have a malformed referer, which
ends the referer goroutine at once: the backlink table does not influence the
properties of that run, and `store_live` has it.
Three calls put a statement, a comment or an empty line before and after a statement that is cut. In `auth`
two ticks pass the validity of one tick both for a nonce of time 0 and beside one of time 1; each client takes three
rounds at most, so nine keys are more than are ever used, which `TypeOK` checks. In `editor_safety` two documents opened
are enough for two loads to be under way; two edits are one before and one after an answer or a timer, or one in
each window. `MaxWindows` says how many windows may be open when so many documents have been opened: two while
there is none, as what windows share is the backup, which is restored, or declined and removed, by the same
function whether a document was loaded or not (and a PUT gives a window a document all the same), and one
afterwards. Two windows that load documents are covered by the theorems only.

Symmetry is used in `editor_safety` only, where the windows are alike and no liveness
is checked.

Each property of a passing run has a mutant, a change of one definition as a slip in
the code could make it (an ignored error, INSERT without CLEAR, a missing wait, a deadline that
stays), which the property catches in the same run.

### Fairness

`ContentStore`: weak fairness of the steps a handler takes by itself (`LocalStep`), of a
collector's removal and of the removal of temp files: the Go scheduler runs what can run. None
for a step that waits for the RDF store (the ACL query, a Select, an Update, the collector's
count): the server's `http.Client` has no timeout, so nothing bounds that wait. The two
properties ask for a reply to the one request, or count, they speak of
(`WF_vars(StoreReply(r)) => ...`) and to no other, so a handler that the store leaves waiting
must not hold up another. None for `ReceiveBody` (clients promise nothing), `StoreApplies`,
`Crash`, `Arrive`. An answer is given when the handler writes its status. How it travels to
the client is not modelled: README.md:54-55 says of bundle imports that "a bug prevents the HTTP response
from being received"; the time limits of 10 seconds that would explain it, with the minute README.md:54 speaks of, are
commented out in this version (`cmd/smartweb2/main.go:125-126`), and nothing in `handlePOSTBundle` itself keeps it
from its `WriteHeader`, which is what `HandlersAnswer` shows.
`HttpMux`: the accept loop and each connection's reader; none for clients and `main`.
Readers are taken to go on reading what they are given. `Authenticator`: each
handler's steps, and the member's next try; nonces may expire and the process restart only as often as
the bounds say, which is what makes the tries succeed in the end. `Bundle`: the import loop and
the goroutine it reads from; the packing has none.

## Findings

Runs that TLC must find violated, each for a sentence of the documentation:

1. `store_race`: the collector counts and removes in two steps, and a PUT of the same
   content in between is acknowledged and then loses its file.
2. `entry_torn`: two PUTs of an entry share one temporary file.
3. `editor_lost`: the answer to a PUT declares the text at that time clean, not the one sent.

Also known, in the models or beside them, and not given a run:

- a second PUT of a page clears its graph, and with it the backlinks kept there (`server2/server.go:131`);
- a name that needs a `\u` escape is read back as another (`nquads/reader.go:376`);
- in the first server a DELETE of a directory keeps its children's data (README.md:145-146 against
  `server/filesystem.go:166`), and a PUT without a Content-Type is served with the one of the PUT before
  (README.md:140-141 against `server/server.go:103-111`);
- in the editor the notice shown while a document loads is a change of a dirty text, and its backup replaces the one
  `openUrl` has just made (`saveurl/plugin.js:357`, 82), under the key of the document before;
- `autoSaveAlready` is never reset (`saveurl/plugin.js:27`), so a window that has restored or made any backup replaces
  the one of another open window, of which `plugin.js:39` would say "Not Saved: another editor is open";
- the facts listed under `Access`, `NQuads` and `Authenticator` above. The table of nonces also grows with
  each request that is let in, as challenges are issued then too.

## The proofs

All are for any value of the constants: any pages, entries, rules, graphs, rows, clients, windows and
requests, and any bounds. Each theorem is `Spec => []P` unless it says otherwise.

| Module | Theorem | `P` | Inductive invariant |
|---|---|---|---|
| `ContentStoreProofs` | `TypeCorrect` | `TypeOK` | `TypeInv` |
| | `FilesBehindPages` | `DanglingOnlyByRace` | `TypeInv` and itself |
| | `NothingLostBeforeDelete` | `SafeUntilDelete` | the above and `LossNeedsDelete` |
| | `OneContentPerPage` | `OneHash` | `OwnSubject`; assumes `OrderlyBundles` |
| | `AnswersTellTheTruth` | `AnswersJustified` | `WitnessInv`; assumes `OrderlyBundles` |
| | `LossFollowsDelete` | `CollectedOnlyAfterDelete` | `WitnessInv`; assumes `OrderlyBundles` |
| | `KeepsThePromise` | `Spec => ImplementsPageStore` | all of it; assumes `OrderlyBundles` |
| `EntryStoreProofs` | `TypeCorrect` | `TypeOK` | `TypeInv` |
| | `OldDataStaysAway` | `OldDataNeverReturns` | `OldInv` |
| | `DeletedStaysGone` | `DeletedIsGone` | `DeleteInv` |
| | `DataIsWhole` | `DataWhole` | `WholeInv` |
| | `GetIsWhole` | `GetWhole` | `GetInv` |
| `HttpMuxProofs` | `TypeCorrect` | `TypeOK` | `TypeInv` |
| | `StreamsStayIntact` | `StreamIntact` | `StreamInv` |
| | `IdentityIsKept` | `IdentityKept` | `IdentityInv` |
| `AuthenticatorProofs` | `TypeCorrect` | `TypeOK` | `Inv` |
| | `StaleIsExpired` | `StaleOnlyExpired` | `Inv` |
| | `RightlyGranted` | `GrantedRightly` | `Inv`, with `PermissionRight` |
| | `RightlyDenied` | `DeniedRightly` | `Inv`, with `PermissionRight` |
| | `ChallengesAreReadable` | `ChallengesReadable` | `Inv`, with `ChallengeReads` |
| `AccessProofs` | `TypeCorrect` | `TypeOK` | `Inv` |
| | `ReadsStayBelow` | `QueryBelow` | `Inv` |
| | `DecidesByTheRule` | `DecisionRight` | `TypeInv`, with `Decides` |
| `EditorProofs` | `TypeCorrect` | `TypeOK` | `TypeInv` |
| | `CleanIsExplained` | `CleanExplained` | `TypeInv` and `BaseExplained` |
| | `BackupIsDue` | `BackedUpOrSoon` | `BackupInv` |
| `BundleProofs` | `TypeCorrect` | `TypeOK` | `Inv` |
| | `UpdateIsMeant` | `UpdateMeans` | `Inv`, with `UpdateDoes` and `MeantIs` |
| | `ImportStaysBelow` | `Spec => StaysBelow` | `Inv`, with `UpdateIs` |
| | `TreeIsImported` | `ImportedTree` | `TreeInv`; assumes `OrdinaryTree` |
| `NQuadsProofs` | `TypeCorrect` | `TypeOK` | `TypeOK` and `Unread` |
| | `UntilReads` | what `readUntil` makes of what `Escape` has written | |
| | `ReadsBack` | `ReadBack` | `IInv`, with `Place` |
| | `ReadsToTheEnd` | `WholeRead` | `IInv`, with `Place` |
| | `NoticesTruncation` | `TruncationNoticed` | `IInv`, with `Place` |

### The arguments

**ContentStore.** `TypeOK` is not inductive: that a renamed file is a hash and that the
collector removes one depends on what the handler's locals hold at each place. `LocalsOK`
says so for every request. `DanglingOnlyByRace` is about what is *in use*, which includes
the files a handler has installed for an Update it has not sent or that was not applied yet
(`Installed`); so stated it is inductive. The answers need to know what a request has
*witnessed* (`Witnessed`): the current page is in its window, every content in a window has
its file or had it, and the hash a handler holds is one it saw. With that, each action maps
to a step of `PageStore` or to a stutter: `Arrive` to `Begin`, `StoreApplies` to
`TakeEffect`, the answers to `Respond`, `GcRemove` to `Lose`, `Crash` and `GcCountFails` to
`CutOff`.

`OrderlyBundles`: a bundle's quads describe the graph they are in and give no page two
contents. `swbundle` makes such bundles; the server does not enforce it, and a bundle made
by hand may give a page two contents.

**EntryStore.** Everything rests on what the names point to. A file is made once and for one
name (`FreshOK`, `HomeOK`), and while it has the temporary name it never had the final one
(`TmpOK`); so a rename cannot bring back a file that was replaced. What a name had when a
handler started it still has or has given up (`BeforeOK`), which is what an acknowledged
DELETE needs. A file that no two handlers touched has one writer, which wrote all that is in
it, and none once it is published (`WriterOK`, `PosOK`); hence published data are whole
(`WholeOK`). A GET reads in several steps, so its theorem also needs that handlers open at
once know of each other (`BesideOK`), that what a handler holds is a file of its entry
(`HeldOK`), and how the data's author and the Content-Type beside them can come apart
(`AuthorOK`, `PutTypeOK`, `EntryTypeOK`, `ReadOK`): only by a handler that was open beside
the PUT, a PUT that failed, or one on its way.

**HttpMux.** A stream is intact only if the bytes put back into the reader come before those
still in the socket: `BrOK` says when the reader may hold any, and that `WriteTo` has
emptied it before it copies from the socket. The key pair: `FilesOK` follows the pair from
memory into the two files, through each error and death. `ListenedOK` counts: the pairs listened with are at most
as many as the loads that failed on a whole pair (`misread`), and one more only while one of them is
still whole in both files. Such a pair is lost only with another `misread`, and a new one
joins only from the files.

**Authenticator.** `BaseInv` relates the table to the keys generated, `ChallengesInv` says
of every challenge that a handler or a client holds where it is in the table and until when,
and `HandlersInv` what a handler has found out at each step: whose permissions it has
weighed, and that none of those allowed so far (`Weighed`). A decision to deny is right
because the names weighed include all whose proof is *still* good, one to grant because
those that were allowed had a proof good *on arrival*; both for any steps of other handlers
in between. That the permissions are those of the rules is `PermissionRight`: the loop over
the enclosing directories finds the nearest entry that speaks (`SaysIs`), which is an
induction over the depth of the entry.

`ChallengesAreReadable` is about the grammar: `HeaderParser`'s rules, as the generated parser runs
them, undo what `escape` and `Authenticate` write, for a realm of any ASCII characters, which are
their own bytes (`BytesIs`); of other realms it is false, as the code cuts bytes. The loops of the
grammar, over the characters of a quoted string and over the parameters, are recursive functions.
Each of them exists and stays inside the buffer, from its last position backwards (`Backwards`),
and behind a quote the string's rule gives back what went into `escape`, by least counterexample
over the characters left. A parameter is then one building block (`Adds`): a comma, a key and a
value, put in front of any text that is empty or begins with a separator, add one action to what
is read of that text. So the text of a challenge is built up parameter by parameter (`Digested`,
`DigestQuoted`, `DigestWord`), and what `Execute` has made of the actions so far is a method with
one more parameter (`With`). `ChallengeReads` says so of the challenges, and `CredentialsReads` of
what a client answers, which is what the decisions above rest on (`CredentialsRead`).

**Access.** `ReadsInv` and `ListInv` follow the list of graphs from its query to the
forwarded one. `DecidesByTheRule` is about the loop over the rows: the URLs `urlParents`
lists are those above the URL (`ParentsAbove`, `ListedAll`), the rows of the nearest page
are the first ones (`FirstTogether`), what the loop knows after each row is what those rows
say (`LoopKnows`), and when it stops it has what the rule asks for (`Decides`).

**Editor.** `CleanExplained` follows from the explanation of the texts that windows compare
with (`BaseExplained`), clean or not. `BackedUpOrSoon` needs that each window with something
to back up, open or not, has a timer or has failed (`TimerRuns`), and that what a window puts into
`localStorage` spares the others or marks them `disturbed` (`Spares`). That timers do not pile up
is a count (`TimersOK`): the timers of a window, its loads under way and one if it is not dirty
(`Weight`) are at most the loads begun and the PUTs answered (`Answered`), and one, as only those make a text clean.

**Bundle.** The Update is a text that is written by one side and read by the other.
`Yields(text, at, g, s, p, N)` says what a text does wherever it is read: it takes the
reader from the start of an operation to the place `at`, with graph `g`, subject `s` and
predicate `p`, and has added the quads `N`. After each call of `insertData` what the
inserter remembers is what the reader of its text knows (`Behind`, `Writes`), which each of
its optional openings and closings preserves (`GraphOpened`, `SubjectOpened`,
`PredicateOpened`, `ObjectAdded`); likewise `Drops` for `deleteGraph`. `Made` says of the
first `n` statements that the table `rel` holds the last registration of each graph and that
the two inserters have dropped and written what those statements mean, so `ChanOK` relates
it to what was sent and received. `StaysBelow` follows, as every quad goes to a graph that
`isSubUrl` accepted (`QuadAt`), which has the target's origin and path in front of it (`SubUrlIs`, `SubUrlBelow`).

`TreeIsImported` adds to `Inv` what the walk has written so far (`WalkOK`): every line is one of
swbundle's, an entry of a registered directory is still pending or is listed behind the triple
that registers the directory (`EntriesOK`), and a content that was packed under its digest is a
member, unless the file changed (`MembersOK`); and how members arrive (`ArrivesOK`): the hashes
inserted so far are wanted, then stored, and the store holds in the bundle's graphs what the
Update put there. From that: every directory was walked (`Visited`, by least counterexample over
the length of its path), a line about a path goes to the path's page (`PlacedAt`: whatever
registered it, the last registration names the same URL), and no other file's hash gets there
(`OnlyHash`). `OrdinaryTree` is what the premise of the theorem asks of the constants: a name is
not empty, `..` or a scheme, what is in a directory has that directory in `Dirs`, the base has no
`..`, and no path is misread as another path that needs no escape. Without the last one the
property fails: the page of the second file then has two contents. swbundle does not check it.

**NQuads.** The text is the lines of the calls, one behind the other (`Start`), and what has
arrived shows each of them up to where it was cut (`Shows`, `Carries`). What a method makes of a
part that stands at its place is said once for each kind of part: it returns what was written,
up to the `\u` escapes (`Same`), or EOF if the text was cut before the part's end
(`Arrives`: `IriArrives`, `BlankArrives`, `StringArrives`; `LiteralRefused` for a literal with
a language or a type). Under them is `UntilReads`: escaping never writes a closing character, so the
reader's loop stops at the right one. Between statements `readSpaces` goes over empty lines and
comments, which begin with `#` again behind each line feed (`CommentSkipped`), to the next
statement or the end (`NextStatement`). The invariant `IInv` says with `Place` that there is a
call `k` such that the reader stands where the part it reads next begins in the statement of
that call, has kept the parts before it, and has returned as many statements as come before
`k`. `Place` needs that no comment holds a carriage return (`AllOneLine`), as the properties do.
`ReadBack` alone is not inductive: it does not say where the reader is.

Inductions, over positions and over texts, are by least counterexample: `LeastNatural` is derived from
a theorem about finite sets, as the library's induction rules take an operator as parameter. That the
reader's recursive functions exist at all (`skip` of `readSpaces`, `rest` of `readUntil`) is proved
in the same way, from their last position backwards (`Backwards`).

### What is assumed of constants

Each assumption has a name in the module that declares the constant, and TLC evaluates it in
every run. They say what the constants are and that `None` is something else. These say
more: `Utf8Assumption` (`HeaderParser`) says that a character beyond ASCII has at least two bytes
and is none of the grammar's own. `WordsAssumption` (`Authenticator`) says that neither a nonce nor a
response has a quote, a backslash or a character beyond ASCII, as they are base64 and hexadecimal digits
(`server/auth.go:48-62`), nor has a word of the protocol, and that realms are texts, of any characters. `BeforeAssumption`
(`Bundle`) says that the RDF store's graphs have names. `RequestsAssumption` says that the
clients' own headers do not guess a nonce yet to be generated. `CallsAssumption` (`NQuads`) says
that what is written is ASCII and that only statements have nodes; it leaves out
no call. `CallsAssumption` (`Access`)
leaves out requests with an empty name inside their path, which `filepath.Dir` drops on the
way up (`server2/server.go:162-173`). `OrderlyBundles` is a premise of the theorems that
need it, not an assumption; likewise `OrdinaryTree`, which TLC evaluates for the tree of
`bundle_import` (`TreeAssumption` in `MCBundle`).

### Only model-checked

- Everything temporal beyond `[]`, which the provers cannot do: `HandlersAnswer`,
  `DeletedContentReclaimed`, `BlockedOnlyBySilence`, `BytesArrive`, `ImportEnds`,
  `MemberAdmitted`.
- What `HeaderParser` makes of headers that neither the server nor a client of it wrote: TLC evaluates it on
  those of `Headers` in `MCAuthenticator`, and no theorem is about them.

## Not modelled

- `server2/keygen.go`: signs the key of a form and answers; it changes no state, and what it does is in
  `crypto/x509`.
- RDF graph and query requests of the first server: they forward to `rdf/`, a cgo binding of a C library
  that is not in the repository; and the first server's URL to file mapping.
- Of `server/auth.go`: members whose names are not ASCII, several `Authorization` lines, a failing random generator, the numbers of `nc`.
- Of `server/headerparse*`: the printing of syntax trees and errors.
- `auth/`: a copy of a library that nothing imports. `XMLBinding.js`, `template.js`, `webcomponents-lite.js`:
  experiments and a polyfill. Shell scripts: clients. `cmd/smartweb`: flags and listeners.
- N-Quads characters beyond ASCII, MIME types, SPARQL result encodings, the layout of the editor's dialogs.

## Plan

Done, in this order: `StoreData`, `ContentStore`, `PageStore` and their proofs (the core),
`EntryStore`, `Editor`, `Bundle`, `HttpMux`, `Access`, then `NQuads`, `HeaderParser`, `Authenticator` and the
header entries in `EntryStore`.

The invariants of every run are proved. What is left to TLC is liveness.

`Bundle` composed with `ContentStore` (the quads `makeStatements` yields in place of the `Bundle` records of
`StoreData`) multiplies the states of two runs that are already large, and would check again what
`UpdateMeans` and `WellFormed` state on each side of the boundary; it is left out.
