----------------------------- MODULE EntryStore -----------------------------
(***************************************************************************)
(* The entries of the first SmartWeb server (server/server.go and          *)
(* server/filesystem.go): files on disk, no database.                      *)
(*                                                                         *)
(* An entry has its data and, among its meta entries, the Content-Type     *)
(* header.  A PUT writes each of the two to a file "data-tmp" next to the  *)
(* one it is to replace, whose name does not depend on the request, and    *)
(* renames it.  Handlers run concurrently and nothing locks a file: what a *)
(* handler holds is an open file, and names may be given to other files    *)
(* meanwhile.                                                              *)
(***************************************************************************)
EXTENDS Integers, Sequences, FiniteSets

CONSTANTS
    Entries,     \* entries of the tree
    Reqs,        \* identities of HTTP requests; each is sent once
    Offers,      \* what each of Reqs may turn out to be
    Chunks,      \* io.Copy moves a body in that many pieces
    None,
    MaxCrashes   \* bound: how often the server process dies

Methods == {"GET", "PUT", "DELETE", "OTHER"}

\* A request; typed tells whether a PUT has a Content-Type header.
Call == [method : Methods, entry : Entries, typed : BOOLEAN]

NoCall == [method |-> "NONE", entry |-> None, typed |-> FALSE]

\* The two files of an entry.
Slots == {"data", "ctype"}
Names == Entries \X Slots

\* Files are named after the request that created them.
Files == Reqs \X Slots

ASSUME OffersAssumption == Offers \in [Reqs -> SUBSET Call]
ASSUME ChunksAssumption == Chunks \in Nat \ {0}
ASSUME NoneAssumption == None \notin Entries \cup Reqs \cup Files
ASSUME CrashAssumption == MaxCrashes \in Nat

VARIABLES
    at,       \* the file behind each name, None when there is none
    tmp,      \* the file behind each name with "-tmp" appended
    content,  \* pieces of each file: the request each comes from
    pc,       \* where the handler of each request is
    call,     \* the request being served
    fd,       \* the file the handler has open
    pos,      \* pieces of the body copied so far
    exists,   \* PUT: what entry.Exists said
    sent,     \* GET: the stored Content-Type it answers with
    got,      \* GET: the body sent so far
    status,   \* the HTTP status answered, 0 when there is none
    crashes,  \* how often the process died
    \* History, read by no guard:
    mixed,    \* files that two PUTs wrote, or one wrote and another renamed
    before,   \* the files the request's entry had when the handler started
    retired,  \* the files each name had before
    beside    \* the requests that were served while each was

diskVars == <<at, tmp, content>>
vars == <<at, tmp, content, pc, call, fd, pos, exists, sent, got, status,
          crashes, mixed, before, retired, beside>>

PcStates == {"new", "start", "tcreate", "twrite", "tcommit", "create",
             "copy", "commit", "headers", "read", "removemeta", "done"}

-----------------------------------------------------------------------------
Data(r)  == <<call[r].entry, "data">>
CType(r) == <<call[r].entry, "ctype">>

Open(r) == pc[r] \notin {"new", "done"}

\* What a body of r leaves in a file.
Body(r) == [k \in 1 .. Chunks |-> r]

\* Handlers that write to file f.
Writing == {"twrite", "tcommit", "copy", "commit"}
Writers(f) == {r \in Reqs : fd[r] = f /\ pc[r] \in Writing}

\* FSEntry.Exists: os.Stat returned an error.
Exists(e) == at[<<e, "data">>] = None

Goto(r, there) == pc' = [pc EXCEPT ![r] = there]

Answer(r, s) ==
    /\ pc' = [pc EXCEPT ![r] = "done"]
    /\ status' = [status EXCEPT ![r] = s]

Init ==
    /\ at = [n \in Names |-> None] /\ tmp = [n \in Names |-> None]
    /\ content = [f \in Files |-> << >>]
    /\ pc = [r \in Reqs |-> "new"]
    /\ call = [r \in Reqs |-> NoCall]
    /\ fd = [r \in Reqs |-> None]
    /\ pos = [r \in Reqs |-> 0]
    /\ exists = [r \in Reqs |-> FALSE]
    /\ sent = [r \in Reqs |-> None]
    /\ got = [r \in Reqs |-> << >>]
    /\ status = [r \in Reqs |-> 0]
    /\ crashes = 0
    /\ mixed = {}
    /\ before = [r \in Reqs |-> {}]
    /\ retired = [n \in Names |-> {}]
    /\ beside = [r \in Reqs |-> {}]

\* A request reaches ServeHTTP.
Arrive(r) ==
    /\ pc[r] = "new" /\ Goto(r, "start")
    /\ \E c \in Offers[r] :
          /\ call' = [call EXCEPT ![r] = c]
          /\ before' = [before EXCEPT ![r] =
                {at[<<c.entry, s>>] : s \in Slots} \ {None}]
    /\ LET others == {q \in Reqs : Open(q)} IN
       beside' = [q \in Reqs |-> IF q = r THEN others
                                 ELSE beside[q] \cup (IF q \in others THEN {r} ELSE {})]
    /\ UNCHANGED <<diskVars, fd, pos, exists, sent, got, status, crashes,
                   mixed, retired>>

\* Authenticate refuses it, or its method is unknown.
Refuse(r) ==
    /\ pc[r] = "start"
    /\ \/ Answer(r, 401)
       \/ call[r].method = "OTHER" /\ Answer(r, 405)
    /\ UNCHANGED <<diskVars, call, fd, pos, exists, sent, got, crashes, mixed,
                   before, retired, beside>>

\* A call of the operating system fails, or the body breaks off: the handler
\* gives up, and handleError answers 404 whatever status it was told.
Fail(r) ==
    /\ pc[r] \in {"start", "tcreate", "create", "copy", "commit",
                  "removemeta"}
    /\ call[r].method # "OTHER"
    /\ Answer(r, 404)
    /\ UNCHANGED <<diskVars, call, fd, pos, exists, sent, got, crashes, mixed,
                   before, retired, beside>>

-----------------------------------------------------------------------------
(* FSEntry.Create and FSEntryWriter.Commit *)

\* os.Create makes the file, or truncates the one that has the name.
CreateTmp(r, n) ==
    LET f == IF tmp[n] = None THEN <<r, n[2]>> ELSE tmp[n] IN
    /\ tmp' = [tmp EXCEPT ![n] = f]
    /\ content' = [content EXCEPT ![f] = << >>]
    /\ fd' = [fd EXCEPT ![r] = f]
    /\ mixed' = IF Writers(f) = {} THEN mixed ELSE mixed \cup {f}

\* Mutant of WriteAt: the file was opened for appending.
WriteAtEnd(s, k, r) == Append(s, r)

\* Writes one piece where the handler's offset is; what was truncated before
\* it reads as zeroes.
WriteAt(s, k, r) ==
    [j \in 1 .. (IF k > Len(s) THEN k ELSE Len(s)) |->
        IF j = k THEN r ELSE IF j <= Len(s) THEN s[j] ELSE None]

\* Mutant of Rename: the file is linked, its temporary name stays.
Link(r, n) ==
    /\ tmp[n] # None
    /\ at' = [at EXCEPT ![n] = tmp[n]]
    /\ mixed' = IF tmp[n] = fd[r] THEN mixed ELSE mixed \cup {tmp[n]}
    /\ retired' = [retired EXCEPT ![n] = @ \cup ({at[n]} \ {None})]
    /\ UNCHANGED tmp

\* os.Rename of whatever file has the temporary name.
Rename(r, n) ==
    /\ tmp[n] # None
    /\ at' = [at EXCEPT ![n] = tmp[n]]
    /\ tmp' = [tmp EXCEPT ![n] = None]
    /\ mixed' = IF tmp[n] = fd[r] THEN mixed ELSE mixed \cup {tmp[n]}
    /\ retired' = [retired EXCEPT ![n] = @ \cup ({at[n]} \ {None})]

\* The deferred Commit of FSEntry.Write: nobody looks at its error.
CommitAnyway(r, n) ==
    \/ Rename(r, n)
    \/ tmp[n] = None /\ UNCHANGED <<at, tmp, mixed, retired>>

-----------------------------------------------------------------------------
(* handlePUT *)

\* entry.Exists, and headers.DeleteAll, which removes the data and the meta
\* entries of "headers/" but none of the headers below it.
PutStart(r) ==
    /\ pc[r] = "start" /\ call[r].method = "PUT"
    /\ exists' = [exists EXCEPT ![r] = Exists(call[r].entry)]
    /\ Goto(r, IF call[r].typed THEN "tcreate" ELSE "create")
    /\ UNCHANGED <<diskVars, call, fd, pos, sent, got, status, crashes, mixed,
                   before, retired, beside>>

TypeCreate(r) ==
    /\ pc[r] = "tcreate" /\ Goto(r, "twrite")
    /\ CreateTmp(r, CType(r))
    /\ UNCHANGED <<at, call, pos, exists, sent, got, status, crashes, before,
                   retired, beside>>

TypeWrite(r) ==
    /\ pc[r] = "twrite" /\ Goto(r, "tcommit")
    /\ content' = [content EXCEPT ![fd[r]] = WriteAt(@, 1, r)]
    /\ UNCHANGED <<at, tmp, call, fd, pos, exists, sent, got, status, crashes,
                   mixed, before, retired, beside>>

TypeCommit(r) ==
    /\ pc[r] = "tcommit" /\ Goto(r, "create")
    /\ CommitAnyway(r, CType(r))
    /\ fd' = [fd EXCEPT ![r] = None]
    /\ UNCHANGED <<content, call, pos, exists, sent, got, status, crashes,
                   before, beside>>

\* The write fails, and the deferred Commit takes place all the same.
TypeFails(r) ==
    /\ pc[r] = "twrite" /\ Answer(r, 404)
    /\ CommitAnyway(r, CType(r))
    /\ UNCHANGED <<content, call, fd, pos, exists, sent, got, crashes, before,
                   beside>>

DataCreate(r) ==
    /\ pc[r] = "create" /\ Goto(r, "copy")
    /\ CreateTmp(r, Data(r))
    /\ UNCHANGED <<at, call, pos, exists, sent, got, status, crashes, before,
                   retired, beside>>

\* Mutant of DataWrite: a short read is taken for the end of the body.
DataWriteShort(r) ==
    /\ pc[r] = "copy" /\ pos[r] < Chunks
    /\ pos' = [pos EXCEPT ![r] = @ + 1]
    /\ content' = [content EXCEPT ![fd[r]] = WriteAt(@, pos'[r], r)]
    /\ Goto(r, "commit")
    /\ UNCHANGED <<at, tmp, call, fd, exists, sent, got, status, crashes,
                   mixed, before, retired, beside>>

DataWrite(r) ==
    /\ pc[r] = "copy" /\ pos[r] < Chunks
    /\ pos' = [pos EXCEPT ![r] = @ + 1]
    /\ content' = [content EXCEPT ![fd[r]] = WriteAt(@, pos'[r], r)]
    /\ Goto(r, IF pos'[r] = Chunks THEN "commit" ELSE "copy")
    /\ UNCHANGED <<at, tmp, call, fd, exists, sent, got, status, crashes,
                   mixed, before, retired, beside>>

DataCommit(r) ==
    /\ pc[r] = "commit"
    /\ Rename(r, Data(r))
    /\ Answer(r, IF exists[r] THEN 204 ELSE 201)
    /\ UNCHANGED <<content, call, fd, pos, exists, sent, got, crashes, before,
                   beside>>

-----------------------------------------------------------------------------
(* handleGET and handleDELETE *)

GetOpen(r) ==
    /\ pc[r] = "start" /\ call[r].method = "GET"
    /\ IF at[Data(r)] = None
          THEN Answer(r, 404) /\ UNCHANGED fd
          ELSE /\ Goto(r, "headers")
               /\ fd' = [fd EXCEPT ![r] = at[Data(r)]]
               /\ UNCHANGED status
    /\ UNCHANGED <<diskVars, call, pos, exists, sent, got, crashes, mixed,
                   before, retired, beside>>

\* The Content-Type is the one the entry has by now, or is guessed.
GetHeaders(r) ==
    /\ pc[r] = "headers" /\ Goto(r, "read")
    /\ sent' = [sent EXCEPT ![r] =
          IF at[CType(r)] = None THEN None ELSE content[at[CType(r)]]]
    /\ UNCHANGED <<diskVars, call, fd, pos, exists, got, status, crashes,
                   mixed, before, retired, beside>>

\* Mutant of GetRead: the file is opened by its name again for each piece.
GetReadByName(r) ==
    LET f == at[Data(r)] IN
    /\ pc[r] = "read"
    /\ IF f # None /\ pos[r] < Len(content[f])
          THEN /\ pos' = [pos EXCEPT ![r] = @ + 1]
               /\ got' = [got EXCEPT ![r] = Append(@, content[f][pos'[r]])]
               /\ UNCHANGED <<pc, status>>
          ELSE Answer(r, 200) /\ UNCHANGED <<pos, got>>
    /\ UNCHANGED <<diskVars, call, fd, exists, crashes, mixed, before,
                   retired, sent, beside>>

GetRead(r) ==
    /\ pc[r] = "read"
    /\ IF pos[r] < Len(content[fd[r]])
          THEN /\ pos' = [pos EXCEPT ![r] = @ + 1]
               /\ got' = [got EXCEPT ![r] = Append(@, content[fd[r]][pos'[r]])]
               /\ UNCHANGED <<pc, status>>
          ELSE Answer(r, 200) /\ UNCHANGED <<pos, got>>
    /\ UNCHANGED <<diskVars, call, fd, exists, crashes, mixed, before,
                   retired, sent, beside>>

\* DeleteAll removes the data of the entry, which may not exist, ...
DeleteData(r) ==
    /\ pc[r] = "start" /\ call[r].method = "DELETE"
    /\ Goto(r, "removemeta")
    /\ at' = [at EXCEPT ![Data(r)] = None]
    /\ retired' = [retired EXCEPT ![Data(r)] = @ \cup ({at[Data(r)]} \ {None})]
    /\ UNCHANGED <<tmp, content, call, fd, pos, exists, sent, got, status,
                   crashes, mixed, before, beside>>

\* Mutant of DeleteMeta: the meta entries of an entry that has
\* data again are kept.
DeleteMetaKept(r) ==
    /\ pc[r] = "removemeta" /\ Answer(r, 204)
    /\ at' = [at EXCEPT ![CType(r)] = IF at[Data(r)] = None THEN None ELSE @]
    /\ UNCHANGED <<tmp, content, call, fd, pos, exists, sent, got, crashes,
                   mixed, before, retired, beside>>

\* ... then all its meta entries.
DeleteMeta(r) ==
    /\ pc[r] = "removemeta" /\ Answer(r, 204)
    /\ at' = [at EXCEPT ![CType(r)] = None]
    /\ tmp' = [tmp EXCEPT ![CType(r)] = None]
    /\ retired' = [retired EXCEPT ![CType(r)] =
                      @ \cup ({at[CType(r)]} \ {None})]
    /\ UNCHANGED <<content, call, fd, pos, exists, sent, got, crashes, mixed,
                   before, beside>>

-----------------------------------------------------------------------------
\* The process dies: open files are closed, the disk stays.
Crash ==
    /\ crashes < MaxCrashes
    /\ crashes' = crashes + 1
    /\ pc' = [r \in Reqs |-> IF Open(r) THEN "done" ELSE pc[r]]
    /\ UNCHANGED <<diskVars, call, fd, pos, exists, sent, got, status, mixed,
                   before, retired, beside>>

Next ==
    \/ \E r \in Reqs :
          \/ Arrive(r) \/ Refuse(r) \/ Fail(r)
          \/ PutStart(r) \/ TypeCreate(r) \/ TypeWrite(r) \/ TypeCommit(r)
          \/ TypeFails(r) \/ DataCreate(r) \/ DataWrite(r) \/ DataCommit(r)
          \/ GetOpen(r) \/ GetHeaders(r) \/ GetRead(r) \/ DeleteData(r) \/ DeleteMeta(r)
    \/ Crash

Spec == Init /\ [][Next]_vars

-----------------------------------------------------------------------------
TypeOK ==
    /\ at \in [Names -> Files \cup {None}]
    /\ tmp \in [Names -> Files \cup {None}]
    /\ DOMAIN content = Files
    /\ \A f \in Files : /\ content[f] \in Seq(Reqs \cup {None})
                        /\ Len(content[f]) <= Chunks
    /\ pc \in [Reqs -> PcStates]
    /\ call \in [Reqs -> Call \cup {NoCall}]
    /\ fd \in [Reqs -> Files \cup {None}]
    /\ pos \in [Reqs -> 0 .. Chunks]
    /\ exists \in [Reqs -> BOOLEAN]
    /\ sent \in [Reqs -> Seq(Reqs \cup {None}) \cup {None}]
    /\ got \in [Reqs -> Seq(Reqs \cup {None})]
    /\ status \in [Reqs -> {0, 200, 201, 204, 401, 404, 405}]
    /\ crashes \in 0 .. MaxCrashes
    /\ mixed \subseteq Files
    /\ before \in [Reqs -> SUBSET Files]
    /\ retired \in [Names -> SUBSET Files]
    /\ beside \in [Reqs -> SUBSET Reqs]

-----------------------------------------------------------------------------
(* Safety *)

\* A name that has data has the whole data of one request, and stays so
\* while it is replaced, deleted, or a handler fails or dies half way: the
\* point of the "-tmp" files.  The exception are files that two overlapping
\* PUTs of the same entry got hold of.
DataWhole ==
    \A e \in Entries : LET f == at[<<e, "data">>] IN
        f \notin mixed \cup {None} => \E r \in Reqs : content[f] = Body(r)

\* A PUT or DELETE was served beside r or beside x, or a PUT gave up between
\* the Content-Type and the data.
Disturbed(r, x) ==
    \E y \in Reqs \ {r, x} :
        \/ y \in beside[r] \cup beside[x]
        \/ call[y].method = "PUT" /\ status[y] \in {0, 404}

\* What a GET sends is the whole data of one request, with the same
\* exception, although it reads piece by piece a file that may have been
\* replaced or deleted since it was opened; and it comes with the
\* Content-Type of that request, which is another file read later, unless
\* another request was served meanwhile or failed half way.
GetWhole ==
    \A r \in Reqs : call[r].method = "GET" /\ status[r] = 200
                       /\ fd[r] \notin mixed
        => \E x \in Reqs : /\ got[r] = Body(x)
                           /\ call[x].typed => sent[r] = <<x>> \/ Disturbed(r, x)

\* After a DELETE was acknowledged nothing of what the entry had when it
\* started is there, whatever other handlers commit meanwhile.
DeletedIsGone ==
    \A r \in Reqs : call[r].method = "DELETE" /\ status[r] = 204 =>
        \A s \in Slots : at[<<call[r].entry, s>>] \notin before[r]

\* Data that was replaced or deleted never comes back.
OldDataNeverReturns ==
    \A n \in Names : at[n] \notin retired[n]

-----------------------------------------------------------------------------
(* What the documentation says, and the code does not do *)

\* "PUT set the entry to the data contained in the request": when all is
\* quiet, an entry has the data of one request.
PutSetsData ==
    (\A r \in Reqs : ~Open(r)) =>
        \A e \in Entries : LET f == at[<<e, "data">>] IN
            f # None => \E r \in Reqs : content[f] = Body(r)

=============================================================================
