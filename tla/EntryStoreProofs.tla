-------------------------- MODULE EntryStoreProofs --------------------------
(***************************************************************************)
(* Proofs about EntryStore, for every value of its constants.              *)
(***************************************************************************)
EXTENDS EntryStore, SequenceTheorems, TLAPS

(***************************************************************************)
(* Type correctness, with what a handler knows from where it is: the       *)
(* method of its request, and that it has a file open.                     *)
(***************************************************************************)
Pieces == Seq(Reqs \cup {None})

NamesOK ==
    /\ at \in [Names -> Files \cup {None}]
    /\ tmp \in [Names -> Files \cup {None}]
    /\ retired \in [Names -> SUBSET Files]

Putting == {"tcreate", "twrite", "tcommit", "create", "copy", "commit"}
Getting == {"headers", "read"}
Holding == Writing \cup Getting

HandlersOK ==
    /\ pc \in [Reqs -> PcStates]
    /\ call \in [Reqs -> Call \cup {NoCall}]
    /\ fd \in [Reqs -> Files \cup {None}]
    /\ \A r \in Reqs :
          /\ pc[r] # "new" => call[r] \in Call
          /\ pc[r] = "new" => call[r] = NoCall
          /\ pc[r] \in Holding => fd[r] \in Files
          /\ pc[r] \in Putting => call[r].method = "PUT"
          /\ pc[r] \in Getting => call[r].method = "GET"
          /\ pc[r] = "removemeta" => call[r].method = "DELETE"

ContentOK ==
    /\ content \in [Files -> Pieces]
    /\ \A f \in Files : Len(content[f]) <= Chunks
    /\ pos \in [Reqs -> 0 .. Chunks]
    /\ sent \in [Reqs -> Pieces \cup {None}]
    /\ got \in [Reqs -> Pieces]

RestOK ==
    /\ exists \in [Reqs -> BOOLEAN]
    /\ status \in [Reqs -> {0, 200, 201, 204, 401, 404, 405}]
    /\ \A r \in Reqs : pc[r] # "done" => status[r] = 0
    /\ crashes \in 0 .. MaxCrashes
    /\ mixed \subseteq Files
    /\ before \in [Reqs -> SUBSET Files]
    /\ beside \in [Reqs -> SUBSET Reqs]

TypeInv == NamesOK /\ HandlersOK /\ ContentOK /\ RestOK

(***************************************************************************)
(* A file is made once, for one name; while it has the temporary name it   *)
(* never had the final one.                                                *)
(***************************************************************************)
Unmade(r, s) ==
    \/ pc[r] \in {"new", "start", "tcreate"}
    \/ s = "data" /\ pc[r] \in {"twrite", "tcommit", "create"}

Behind(n) == ({at[n], tmp[n]} \ {None}) \cup retired[n]

FreshOK ==
    \A r \in Reqs, s \in Slots : Unmade(r, s) =>
        /\ \A n \in Names : <<r, s>> \notin Behind(n)
        /\ \A q \in Reqs : fd[q] # <<r, s>>

HomeOK ==
    \A n \in Names : \A f \in Behind(n) : n = <<call[f[1]].entry, f[2]>>

TmpOK ==
    \A n \in Names : tmp[n] # None => tmp[n] \notin retired[n] \cup {at[n]}

OldInv == TypeInv /\ FreshOK /\ HomeOK /\ TmpOK /\ OldDataNeverReturns

(***************************************************************************)
(* What a name had when a handler started it still has or had before; a    *)
(* DELETE knows which are gone.                                            *)
(***************************************************************************)
BeforeOK ==
    \A r \in Reqs : \A f \in before[r] :
        LET n == <<call[r].entry, f[2]>> IN
        /\ pc[r] # "new" /\ n \in Names
        /\ f = at[n] \/ f \in retired[n]
        /\ pc[r] = "removemeta" /\ f[2] = "data" => f \in retired[n]
        /\ call[r].method = "DELETE" /\ status[r] = 204 => f \in retired[n]

DeleteInv == OldInv /\ BeforeOK

(***************************************************************************)
(* A file that no two handlers touched has at most one writer, which wrote *)
(* what is in it, and none once it has the final name.                     *)
(***************************************************************************)
Published(f) == \E n \in Names : f = at[n] \/ f \in retired[n]

WriterOK ==
    \A r \in Reqs : pc[r] \in Writing /\ fd[r] \notin mixed =>
        /\ Writers(fd[r]) = {r} /\ ~Published(fd[r])
        /\ pc[r] \in {"copy", "commit"} => content[fd[r]] = [k \in 1 .. pos[r] |-> r]
        /\ pc[r] = "twrite" => content[fd[r]] = << >>

PosOK ==
    \A r \in Reqs :
        /\ pc[r] \in {"new", "start", "tcreate", "twrite", "tcommit", "create", "headers"}
              => pos[r] = 0
        /\ pc[r] = "copy" => pos[r] < Chunks
        /\ pc[r] = "commit" => pos[r] = Chunks

WholeOK ==
    \A f \in Files \ mixed : Published(f) /\ f[2] = "data" =>
        \E x \in Reqs : content[f] = Body(x)

WholeInv == OldInv /\ WriterOK /\ PosOK /\ WholeOK

(***************************************************************************)
(* Handlers that are open at once know of each other, and what a handler   *)
(* has open is a file of its entry.                                        *)
(***************************************************************************)
BesideOK ==
    \A x, y \in Reqs : x # y /\ Open(x) /\ Open(y) => y \in beside[x]

Reader(r) == pc[r] \in Getting \/ (call[r].method = "GET" /\ status[r] = 200)

Of(f, r, s) == f \in Files /\ f[2] = s /\ call[f[1]].entry = call[r].entry

HeldOK ==
    \A r \in Reqs :
        /\ pc[r] \in {"twrite", "tcommit"} => Of(fd[r], r, "ctype")
        /\ pc[r] \in {"copy", "commit"} => Of(fd[r], r, "data")
        /\ Reader(r) => Of(fd[r], r, "data") /\ Published(fd[r])
        /\ pc[r] \in {"new", "start"} => got[r] = << >>

(***************************************************************************)
(* Who wrote the data of a file, and who may have come between x and its   *)
(* Content-Type: a handler that was open beside it, a PUT that failed, or  *)
(* one that is on its way.                                                 *)
(***************************************************************************)
Author(f, x) == f \notin mixed \cup {None} /\ content[f] = Body(x)

AuthorOK ==
    \A f \in Files : \A x \in Reqs :
        Published(f) /\ f[2] = "data" /\ Author(f, x) =>
            pc[x] = "done" /\ call[x].method = "PUT"

TypeIs(e, x) ==
    LET f == at[<<e, "ctype">>] IN f # None /\ content[f] = <<x>>

Beside(y, x) == y \in beside[x] /\ call[y].method \in {"PUT", "DELETE"}
Failed(y) == call[y].method = "PUT" /\ pc[y] = "done" /\ status[y] \in {0, 404}

Meddled(e, x) ==
    \E y \in Reqs \ {x} :
        Beside(y, x) \/ Failed(y) \/ (pc[y] \in Putting /\ call[y].entry = e)

DisturbedForGood(r, x) ==
    \E y \in Reqs \ {r, x} : y \in beside[r] \cup beside[x] \/ Failed(y)

\* A PUT leaves its Content-Type, unless another handler was beside it.
Leaves(x) ==
    /\ pc[x] = "twrite" => tmp[CType(x)] = fd[x] /\ content[fd[x]] = << >>
    /\ pc[x] = "tcommit" => tmp[CType(x)] = fd[x] /\ content[fd[x]] = <<x>>
    /\ pc[x] \in {"create", "copy", "commit"} /\ call[x].typed
          => TypeIs(call[x].entry, x)

PutTypeOK == \A x \in Reqs : Leaves(x) \/ \E y \in Reqs \ {x} : Beside(y, x)

\* The data an entry has is there with its Content-Type; a DELETE that is
\* half way was beside the PUT of that data.
EntryTypeOK ==
    \A e \in Entries : \A x \in Reqs : Author(at[<<e, "data">>], x) =>
        /\ call[x].typed => TypeIs(e, x) \/ Meddled(e, x)
        /\ \A y \in Reqs : pc[y] = "removemeta" /\ call[y].entry = e => y \in beside[x]

ReadRight(r, x) ==
    /\ got[r] = [k \in 1 .. pos[r] |-> x]
    /\ status[r] = 200 => pos[r] = Chunks
    /\ call[x].typed =>
          \/ DisturbedForGood(r, x)
          \/ IF pc[r] = "headers" THEN TypeIs(call[r].entry, x)
                                  ELSE sent[r] = <<x>>

ReadOK ==
    \A r \in Reqs : \A x \in Reqs :
        Reader(r) /\ Author(fd[r], x) => ReadRight(r, x)

GetInv ==
    /\ WholeInv /\ BesideOK /\ HeldOK /\ AuthorOK
    /\ PutTypeOK /\ EntryTypeOK /\ ReadOK

TmpFile(r, n) == IF tmp[n] = None THEN <<r, n[2]>> ELSE tmp[n]

Made(r, n, f) ==
    /\ tmp' = [tmp EXCEPT ![n] = f]
    /\ content' = [content EXCEPT ![f] = << >>]
    /\ fd' = [fd EXCEPT ![r] = f]
    /\ mixed' = IF Writers(f) = {} THEN mixed ELSE mixed \cup {f}

Makes(r, n, f) ==
    /\ f = <<r, n[2]>>
    /\ \/ n = CType(r) /\ pc[r] = "tcreate" /\ pc'[r] = "twrite"
       \/ n = Data(r) /\ pc[r] = "create" /\ pc'[r] = "copy"

\* The handler of x opens a file to write to.
Opens(x) ==
    LET f == fd'[x] IN
    /\ f \in Files /\ ~Published(f) /\ (Writers(f) = {} \/ f \in mixed')
    /\ content'[f] = << >> /\ pos'[x] = 0 /\ pc'[x] \in {"twrite", "copy"}
    /\ \A y \in Reqs \ {x} : pc'[y] = pc[y] /\ fd'[y] = fd[y]

-----------------------------------------------------------------------------
(* Files *)

LEMMA TmpFileMade ==
    ASSUME TypeInv, NEW r \in Reqs, pc[r] # "new"
    PROVE  \A n \in {Data(r), CType(r)} :
              /\ n \in Names
              /\ TmpFile(r, n) \in Files
              /\ CreateTmp(r, n) => Made(r, n, TmpFile(r, n))
<1>1. Data(r) \in Names /\ CType(r) \in Names
    BY DEF TypeInv, HandlersOK, Call, Data, CType, Names, Slots
<1>2. \A n \in Names : TmpFile(r, n) \in Files
    BY DEF TypeInv, NamesOK, TmpFile, Names, Files
<1>3. \A n : CreateTmp(r, n) => Made(r, n, TmpFile(r, n))
    BY DEF CreateTmp, Made, TmpFile
<1> QED
    BY <1>1, <1>2, <1>3

LEMMA WriteAtType ==
    ASSUME NEW s \in Pieces, NEW k \in 1 .. Chunks, NEW r \in Reqs, Len(s) <= Chunks
    PROVE  WriteAt(s, k, r) \in Pieces /\ Len(WriteAt(s, k, r)) <= Chunks
<1> DEFINE n == IF k > Len(s) THEN k ELSE Len(s)
<1>1. Len(s) \in Nat /\ n \in Nat /\ n <= Chunks
    BY ChunksAssumption DEF Pieces
<1>2. \A j \in 1 .. n :
          (IF j = k THEN r ELSE IF j <= Len(s) THEN s[j] ELSE None) \in Reqs \cup {None}
    BY <1>1, ElementOfSeq DEF Pieces
<1>3. WriteAt(s, k, r) = [j \in 1 .. n |->
          IF j = k THEN r ELSE IF j <= Len(s) THEN s[j] ELSE None]
    BY DEF WriteAt
<1> HIDE DEF n
<1> QED
    BY <1>1, <1>2, <1>3 DEF Pieces
-----------------------------------------------------------------------------
(* Type correctness *)

LEMMA TypeInit == Init => TypeInv
<1> SUFFICES ASSUME Init PROVE TypeInv
    OBVIOUS
<1> USE ChunksAssumption, CrashAssumption DEF Init
<1>1. NamesOK
    BY DEF NamesOK
<1>2. HandlersOK
    BY DEF HandlersOK, PcStates, Holding, Writing, Getting, Putting
<1>3. ContentOK
    <2>1. << >> \in Pieces /\ Len(<< >>) = 0
        BY DEF Pieces
    <2> QED
        BY <2>1 DEF ContentOK
<1>4. RestOK
    BY DEF RestOK
<1> QED
    BY <1>1, <1>2, <1>3, <1>4 DEF TypeInv

LEMMA NamesStep == TypeInv /\ [Next]_vars => NamesOK'
<1> SUFFICES ASSUME TypeInv, [Next]_vars PROVE NamesOK'
    OBVIOUS
<1>0. /\ NamesOK /\ pc \in [Reqs -> PcStates] /\ call \in [Reqs -> Call \cup {NoCall}]
      /\ \A r \in Reqs : pc[r] # "new" => Data(r) \in Names /\ CType(r) \in Names
    BY DEF TypeInv, HandlersOK, Call, Data, CType, Names, Slots
<1> USE <1>0 DEF NamesOK, diskVars
<1>1. ASSUME NEW r \in Reqs, Arrive(r) PROVE NamesOK'
    BY <1>1 DEF Arrive, Goto, Open
<1>2. ASSUME NEW r \in Reqs, Refuse(r) PROVE NamesOK'
    BY <1>2 DEF Refuse, Answer
<1>3. ASSUME NEW r \in Reqs, Fail(r) PROVE NamesOK'
    BY <1>3 DEF Fail, Answer
<1>4. ASSUME NEW r \in Reqs, PutStart(r) PROVE NamesOK'
    BY <1>4 DEF PutStart, Goto
<1>5. ASSUME NEW r \in Reqs, TypeCreate(r) PROVE NamesOK'
    <2> DEFINE f == TmpFile(r, CType(r))
    <2>1. /\ f \in Files /\ Made(r, CType(r), f) /\ pc[r] # "new"
        BY <1>5, TmpFileMade DEF TypeCreate
    <2> HIDE DEF f
    <2> QED
        BY <1>5, <2>1 DEF TypeCreate, Made, Goto
<1>6. ASSUME NEW r \in Reqs, TypeWrite(r) PROVE NamesOK'
    BY <1>6 DEF TypeWrite, Goto
<1>7. ASSUME NEW r \in Reqs, TypeCommit(r) PROVE NamesOK'
    BY <1>7 DEF TypeCommit, CommitAnyway, Rename, Goto
<1>8. ASSUME NEW r \in Reqs, TypeFails(r) PROVE NamesOK'
    BY <1>8 DEF TypeFails, CommitAnyway, Rename, Answer
<1>9. ASSUME NEW r \in Reqs, DataCreate(r) PROVE NamesOK'
    <2> DEFINE f == TmpFile(r, Data(r))
    <2>1. /\ f \in Files /\ Made(r, Data(r), f) /\ pc[r] # "new"
        BY <1>9, TmpFileMade DEF DataCreate
    <2> HIDE DEF f
    <2> QED
        BY <1>9, <2>1 DEF DataCreate, Made, Goto
<1>10. ASSUME NEW r \in Reqs, DataWrite(r) PROVE NamesOK'
    BY <1>10 DEF DataWrite, Goto
<1>11. ASSUME NEW r \in Reqs, DataCommit(r) PROVE NamesOK'
    BY <1>11 DEF DataCommit, Rename, Answer
<1>12. ASSUME NEW r \in Reqs, GetOpen(r) PROVE NamesOK'
    BY <1>12 DEF GetOpen, Goto, Answer
<1>13. ASSUME NEW r \in Reqs, GetHeaders(r) PROVE NamesOK'
    BY <1>13 DEF GetHeaders, Goto
<1>14. ASSUME NEW r \in Reqs, GetRead(r) PROVE NamesOK'
    BY <1>14 DEF GetRead, Answer
<1>15. ASSUME NEW r \in Reqs, DeleteData(r) PROVE NamesOK'
    BY <1>15 DEF DeleteData, Goto
<1>16. ASSUME NEW r \in Reqs, DeleteMeta(r) PROVE NamesOK'
    BY <1>16 DEF DeleteMeta, Answer
<1>17. CASE Crash
    BY <1>17 DEF Crash, Open
<1>18. CASE UNCHANGED vars
    BY <1>18 DEF vars
<1> HIDE DEF NamesOK
<1> QED
    BY <1>1, <1>2, <1>3, <1>4, <1>5, <1>6, <1>7, <1>8, <1>9, <1>10,
       <1>11, <1>12, <1>13, <1>14, <1>15, <1>16, <1>17, <1>18
       DEF Next

LEMMA HandlersStep == TypeInv /\ [Next]_vars => HandlersOK'
<1> SUFFICES ASSUME TypeInv, [Next]_vars PROVE HandlersOK'
    OBVIOUS
<1>0. /\ HandlersOK /\ NamesOK
      /\ \A r \in Reqs : pc[r] # "new" => Data(r) \in Names /\ CType(r) \in Names
    BY DEF TypeInv, HandlersOK, Call, Data, CType, Names, Slots
<1> USE <1>0 DEF HandlersOK, PcStates, Holding, Writing, Getting, Putting, diskVars
<1>1. ASSUME NEW r \in Reqs, Arrive(r) PROVE HandlersOK'
    <2>1. PICK c \in Offers[r] :
             /\ call' = [call EXCEPT ![r] = c]
             /\ before' = [before EXCEPT ![r] = {at[<<c.entry, s>>] : s \in Slots} \ {None}]
        BY <1>1 DEF Arrive
    <2>2. c \in Call
        BY OffersAssumption
    <2> QED
        BY <1>1, <2>1, <2>2 DEF Arrive, Goto
<1>2. ASSUME NEW r \in Reqs, Refuse(r) PROVE HandlersOK'
    BY <1>2 DEF Refuse, Answer
<1>3. ASSUME NEW r \in Reqs, Fail(r) PROVE HandlersOK'
    BY <1>3 DEF Fail, Answer
<1>4. ASSUME NEW r \in Reqs, PutStart(r) PROVE HandlersOK'
    BY <1>4 DEF PutStart, Goto
<1>5. ASSUME NEW r \in Reqs, TypeCreate(r) PROVE HandlersOK'
    <2> DEFINE f == TmpFile(r, CType(r))
    <2>1. /\ f \in Files /\ Made(r, CType(r), f) /\ pc[r] # "new"
        BY <1>5, TmpFileMade DEF TypeCreate
    <2> HIDE DEF f
    <2> QED
        BY <1>5, <2>1 DEF TypeCreate, Made, Goto
<1>6. ASSUME NEW r \in Reqs, TypeWrite(r) PROVE HandlersOK'
    BY <1>6 DEF TypeWrite, Goto
<1>7. ASSUME NEW r \in Reqs, TypeCommit(r) PROVE HandlersOK'
    BY <1>7 DEF TypeCommit, CommitAnyway, Rename, Goto
<1>8. ASSUME NEW r \in Reqs, TypeFails(r) PROVE HandlersOK'
    BY <1>8 DEF TypeFails, CommitAnyway, Rename, Answer
<1>9. ASSUME NEW r \in Reqs, DataCreate(r) PROVE HandlersOK'
    <2> DEFINE f == TmpFile(r, Data(r))
    <2>1. /\ f \in Files /\ Made(r, Data(r), f) /\ pc[r] # "new"
        BY <1>9, TmpFileMade DEF DataCreate
    <2> HIDE DEF f
    <2> QED
        BY <1>9, <2>1 DEF DataCreate, Made, Goto
<1>10. ASSUME NEW r \in Reqs, DataWrite(r) PROVE HandlersOK'
    BY <1>10 DEF DataWrite, Goto
<1>11. ASSUME NEW r \in Reqs, DataCommit(r) PROVE HandlersOK'
    BY <1>11 DEF DataCommit, Rename, Answer
<1>12. ASSUME NEW r \in Reqs, GetOpen(r) PROVE HandlersOK'
    <2>1. CASE at[Data(r)] = None
        BY <1>12, <2>1 DEF GetOpen, Answer
    <2>2. CASE at[Data(r)] # None
        <3>1. at[Data(r)] \in Files
            BY <1>12, <2>2 DEF GetOpen, NamesOK
        <3> QED
            BY <1>12, <2>2, <3>1 DEF GetOpen, Goto
    <2> QED
        BY <2>1, <2>2
<1>13. ASSUME NEW r \in Reqs, GetHeaders(r) PROVE HandlersOK'
    BY <1>13 DEF GetHeaders, Goto
<1>14. ASSUME NEW r \in Reqs, GetRead(r) PROVE HandlersOK'
    BY <1>14 DEF GetRead, Answer
<1>15. ASSUME NEW r \in Reqs, DeleteData(r) PROVE HandlersOK'
    BY <1>15 DEF DeleteData, Goto
<1>16. ASSUME NEW r \in Reqs, DeleteMeta(r) PROVE HandlersOK'
    BY <1>16 DEF DeleteMeta, Answer
<1>17. CASE Crash
    BY <1>17 DEF Crash, Open
<1>18. CASE UNCHANGED vars
    BY <1>18 DEF vars
<1> HIDE DEF HandlersOK
<1> QED
    BY <1>1, <1>2, <1>3, <1>4, <1>5, <1>6, <1>7, <1>8, <1>9, <1>10,
       <1>11, <1>12, <1>13, <1>14, <1>15, <1>16, <1>17, <1>18
       DEF Next

LEMMA ContentStep == TypeInv /\ [Next]_vars => ContentOK'
<1> SUFFICES ASSUME TypeInv, [Next]_vars PROVE ContentOK'
    OBVIOUS
<1>0. /\ ContentOK /\ at \in [Names -> Files \cup {None}]
      /\ \A r \in Reqs : pc[r] # "new" => CType(r) \in Names
      /\ << >> \in Pieces /\ Len(<< >>) = 0
    BY DEF TypeInv, NamesOK, HandlersOK, Call, CType, Names, Slots, Pieces
<1> USE <1>0, ChunksAssumption DEF ContentOK, diskVars
<1>1. ASSUME NEW r \in Reqs, Arrive(r) PROVE ContentOK'
    BY <1>1 DEF Arrive, Goto, Open
<1>2. ASSUME NEW r \in Reqs, Refuse(r) PROVE ContentOK'
    BY <1>2 DEF Refuse, Answer
<1>3. ASSUME NEW r \in Reqs, Fail(r) PROVE ContentOK'
    BY <1>3 DEF Fail, Answer
<1>4. ASSUME NEW r \in Reqs, PutStart(r) PROVE ContentOK'
    BY <1>4 DEF PutStart, Goto
<1>5. ASSUME NEW r \in Reqs, TypeCreate(r) PROVE ContentOK'
    <2> DEFINE f == TmpFile(r, CType(r))
    <2>1. /\ f \in Files /\ Made(r, CType(r), f) /\ pc[r] # "new"
        BY <1>5, TmpFileMade DEF TypeCreate
    <2> HIDE DEF f
    <2> QED
        BY <1>5, <2>1 DEF TypeCreate, Made, Goto
<1>6. ASSUME NEW r \in Reqs, TypeWrite(r) PROVE ContentOK'
    <2>1. fd[r] \in Files
        BY <1>6 DEF TypeWrite, TypeInv, HandlersOK, Holding, Writing
    <2>2. 1 \in 1 .. Chunks /\ content[fd[r]] \in Pieces /\ Len(content[fd[r]]) <= Chunks
        BY <2>1
    <2>3. WriteAt(content[fd[r]], 1, r) \in Pieces /\ Len(WriteAt(content[fd[r]], 1, r)) <= Chunks
        BY <2>2, WriteAtType
    <2> QED
        BY <1>6, <2>1, <2>3 DEF TypeWrite
<1>7. ASSUME NEW r \in Reqs, TypeCommit(r) PROVE ContentOK'
    BY <1>7 DEF TypeCommit, CommitAnyway, Rename, Goto
<1>8. ASSUME NEW r \in Reqs, TypeFails(r) PROVE ContentOK'
    BY <1>8 DEF TypeFails, CommitAnyway, Rename, Answer
<1>9. ASSUME NEW r \in Reqs, DataCreate(r) PROVE ContentOK'
    <2> DEFINE f == TmpFile(r, Data(r))
    <2>1. /\ f \in Files /\ Made(r, Data(r), f) /\ pc[r] # "new"
        BY <1>9, TmpFileMade DEF DataCreate
    <2> HIDE DEF f
    <2> QED
        BY <1>9, <2>1 DEF DataCreate, Made, Goto
<1>10. ASSUME NEW r \in Reqs, DataWrite(r) PROVE ContentOK'
    <2>1. fd[r] \in Files /\ pos[r] + 1 \in 1 .. Chunks
        BY <1>10 DEF DataWrite, TypeInv, HandlersOK, Holding, Writing
    <2>2. /\ WriteAt(content[fd[r]], pos[r] + 1, r) \in Pieces
          /\ Len(WriteAt(content[fd[r]], pos[r] + 1, r)) <= Chunks
        BY <2>1, WriteAtType
    <2>3. /\ pos' = [pos EXCEPT ![r] = pos[r] + 1]
          /\ content' = [content EXCEPT ![fd[r]] = WriteAt(content[fd[r]], pos[r] + 1, r)]
          /\ UNCHANGED <<sent, got>>
        BY <1>10 DEF DataWrite
    <2> QED
        BY <2>1, <2>2, <2>3
<1>11. ASSUME NEW r \in Reqs, DataCommit(r) PROVE ContentOK'
    BY <1>11 DEF DataCommit, Rename, Answer
<1>12. ASSUME NEW r \in Reqs, GetOpen(r) PROVE ContentOK'
    BY <1>12 DEF GetOpen, Goto, Answer
<1>13. ASSUME NEW r \in Reqs, GetHeaders(r) PROVE ContentOK'
    <2>1. at[CType(r)] # None => at[CType(r)] \in Files
        BY <1>13 DEF GetHeaders
    <2> QED
        BY <1>13, <2>1 DEF GetHeaders
<1>14. ASSUME NEW r \in Reqs, GetRead(r) PROVE ContentOK'
    <2>1. fd[r] \in Files
        BY <1>14 DEF GetRead, TypeInv, HandlersOK, Holding, Getting
    <2>2. CASE pos[r] < Len(content[fd[r]])
        <3>1. pos[r] + 1 \in 1 .. Len(content[fd[r]])
            BY <2>1, <2>2 DEF Pieces
        <3>2. Append(got[r], content[fd[r]][pos[r] + 1]) \in Pieces
            BY <2>1, <3>1, AppendProperties, ElementOfSeq DEF Pieces
        <3>3. /\ pos' = [pos EXCEPT ![r] = pos[r] + 1]
              /\ got' = [got EXCEPT ![r] = Append(got[r], content[fd[r]][pos[r] + 1])]
              /\ UNCHANGED <<content, sent>>
            BY <1>14, <2>2 DEF GetRead
        <3>4. pos[r] + 1 \in 0 .. Chunks
            BY <2>1, <3>1
        <3> QED
            BY <3>2, <3>3, <3>4
    <2>3. CASE ~(pos[r] < Len(content[fd[r]]))
        BY <1>14, <2>3 DEF GetRead
    <2> QED
        BY <2>2, <2>3
<1>15. ASSUME NEW r \in Reqs, DeleteData(r) PROVE ContentOK'
    BY <1>15 DEF DeleteData, Goto
<1>16. ASSUME NEW r \in Reqs, DeleteMeta(r) PROVE ContentOK'
    BY <1>16 DEF DeleteMeta, Answer
<1>17. CASE Crash
    BY <1>17 DEF Crash, Open
<1>18. CASE UNCHANGED vars
    BY <1>18 DEF vars
<1> HIDE DEF ContentOK
<1> QED
    BY <1>1, <1>2, <1>3, <1>4, <1>5, <1>6, <1>7, <1>8, <1>9, <1>10,
       <1>11, <1>12, <1>13, <1>14, <1>15, <1>16, <1>17, <1>18
       DEF Next

LEMMA RestStep == TypeInv /\ [Next]_vars => RestOK'
<1> SUFFICES ASSUME TypeInv, [Next]_vars PROVE RestOK'
    OBVIOUS
<1>0. /\ RestOK /\ HandlersOK /\ NamesOK
      /\ \A r \in Reqs : pc[r] # "new" => Data(r) \in Names /\ CType(r) \in Names
    BY DEF TypeInv, HandlersOK, Call, Data, CType, Names, Slots
<1> USE <1>0 DEF RestOK, HandlersOK, NamesOK, PcStates, diskVars
<1>1. ASSUME NEW r \in Reqs, Arrive(r) PROVE RestOK'
    <2>1. PICK c \in Offers[r] :
             /\ call' = [call EXCEPT ![r] = c]
             /\ before' = [before EXCEPT ![r] = {at[<<c.entry, s>>] : s \in Slots} \ {None}]
        BY <1>1 DEF Arrive
    <2>2. c \in Call
        BY OffersAssumption
    <2>3. before' \in [Reqs -> SUBSET Files]
        <3> DEFINE B == {at[<<c.entry, s>>] : s \in Slots} \ {None}
        <3>1. \A s \in Slots : <<c.entry, s>> \in Names
            BY <2>2 DEF Call, Names
        <3>2. \A s \in Slots : at[<<c.entry, s>>] \in Files \cup {None}
            BY <3>1
        <3>3. before' = [before EXCEPT ![r] = B] /\ before \in [Reqs -> SUBSET Files]
            BY <2>1
        <3> HIDE DEF HandlersOK, RestOK, NamesOK
        <3>4. B \subseteq Files
            BY <3>2
        <3> HIDE DEF B
        <3> QED
            BY <3>3, <3>4
    <2>4. beside' \in [Reqs -> SUBSET Reqs]
        BY <1>1 DEF Arrive
    <2>5. \A q \in Reqs : pc'[q] # "done" => status'[q] = 0
        BY <1>1 DEF Arrive, Goto
    <2> QED
        BY <1>1, <2>3, <2>4, <2>5 DEF Arrive
<1>2. ASSUME NEW r \in Reqs, Refuse(r) PROVE RestOK'
    BY <1>2 DEF Refuse, Answer
<1>3. ASSUME NEW r \in Reqs, Fail(r) PROVE RestOK'
    BY <1>3 DEF Fail, Answer
<1>4. ASSUME NEW r \in Reqs, PutStart(r) PROVE RestOK'
    <2>1. exists' \in [Reqs -> BOOLEAN]
        BY <1>4 DEF PutStart, Exists
    <2>2. \A q \in Reqs : pc'[q] # "done" => status'[q] = 0
        BY <1>4 DEF PutStart, Goto
    <2> QED
        BY <1>4, <2>1, <2>2 DEF PutStart
<1>5. ASSUME NEW r \in Reqs, TypeCreate(r) PROVE RestOK'
    <2> DEFINE f == TmpFile(r, CType(r))
    <2>1. /\ f \in Files /\ Made(r, CType(r), f) /\ pc[r] # "new"
        BY <1>5, TmpFileMade DEF TypeCreate
    <2> HIDE DEF f
    <2> QED
        BY <1>5, <2>1 DEF TypeCreate, Made, Goto
<1>6. ASSUME NEW r \in Reqs, TypeWrite(r) PROVE RestOK'
    BY <1>6 DEF TypeWrite, Goto
<1>7. ASSUME NEW r \in Reqs, TypeCommit(r) PROVE RestOK'
    BY <1>7 DEF TypeCommit, CommitAnyway, Rename, Goto
<1>8. ASSUME NEW r \in Reqs, TypeFails(r) PROVE RestOK'
    BY <1>8 DEF TypeFails, CommitAnyway, Rename, Answer
<1>9. ASSUME NEW r \in Reqs, DataCreate(r) PROVE RestOK'
    <2> DEFINE f == TmpFile(r, Data(r))
    <2>1. /\ f \in Files /\ Made(r, Data(r), f) /\ pc[r] # "new"
        BY <1>9, TmpFileMade DEF DataCreate
    <2> HIDE DEF f
    <2> QED
        BY <1>9, <2>1 DEF DataCreate, Made, Goto
<1>10. ASSUME NEW r \in Reqs, DataWrite(r) PROVE RestOK'
    BY <1>10 DEF DataWrite, Goto
<1>11. ASSUME NEW r \in Reqs, DataCommit(r) PROVE RestOK'
    BY <1>11 DEF DataCommit, Rename, Answer
<1>12. ASSUME NEW r \in Reqs, GetOpen(r) PROVE RestOK'
    BY <1>12 DEF GetOpen, Goto, Answer
<1>13. ASSUME NEW r \in Reqs, GetHeaders(r) PROVE RestOK'
    BY <1>13 DEF GetHeaders, Goto
<1>14. ASSUME NEW r \in Reqs, GetRead(r) PROVE RestOK'
    BY <1>14 DEF GetRead, Answer
<1>15. ASSUME NEW r \in Reqs, DeleteData(r) PROVE RestOK'
    BY <1>15 DEF DeleteData, Goto
<1>16. ASSUME NEW r \in Reqs, DeleteMeta(r) PROVE RestOK'
    BY <1>16 DEF DeleteMeta, Answer
<1>17. CASE Crash
    <2>1. \A q \in Reqs : pc'[q] # "done" => status'[q] = 0
        BY <1>17 DEF Crash, Open
    <2>2. crashes' \in 0 .. MaxCrashes
        BY <1>17, CrashAssumption DEF Crash
    <2> QED
        BY <1>17, <2>1, <2>2 DEF Crash
<1>18. CASE UNCHANGED vars
    BY <1>18 DEF vars
<1> HIDE DEF RestOK
<1> QED
    BY <1>1, <1>2, <1>3, <1>4, <1>5, <1>6, <1>7, <1>8, <1>9, <1>10,
       <1>11, <1>12, <1>13, <1>14, <1>15, <1>16, <1>17, <1>18
       DEF Next

LEMMA TypeStep == TypeInv /\ [Next]_vars => TypeInv'
BY NamesStep, HandlersStep, ContentStep, RestStep DEF TypeInv

\* Disk, handlers and answers stay well formed, and offsets in the bounds of
\* the body, whatever handlers overlap, fail or die (filesystem.go, server.go).
THEOREM TypeCorrect == Spec => []TypeOK
<1>1. TypeInv => TypeOK
    BY DEF TypeInv, NamesOK, HandlersOK, ContentOK, RestOK, TypeOK, Pieces
<1> QED
    BY TypeInit, TypeStep, <1>1, PTL DEF Spec

-----------------------------------------------------------------------------
(* Names *)

\* A handler is past "new" for good, and so is what it has made.
LEMMA CallStep ==
    ASSUME TypeInv, [Next]_vars, NEW q \in Reqs
    PROVE  /\ pc[q] # "new" => pc'[q] # "new" /\ call'[q] = call[q]
           /\ \A s \in Slots : Unmade(q, s)' => Unmade(q, s)
<1> DEFINE Goal == /\ pc[q] # "new" => pc'[q] # "new" /\ call'[q] = call[q]
                   /\ \A s \in Slots : Unmade(q, s)' => Unmade(q, s)
<1> SUFFICES Goal
    OBVIOUS
<1>0. pc \in [Reqs -> PcStates] /\ call \in [Reqs -> Call \cup {NoCall}]
    BY DEF TypeInv, HandlersOK
<1> USE <1>0 DEF Unmade, Slots, diskVars
<1>1. ASSUME NEW r \in Reqs, Arrive(r) PROVE Goal
    BY <1>1 DEF Arrive, Goto, Open
<1>2. ASSUME NEW r \in Reqs, Refuse(r) PROVE Goal
    BY <1>2 DEF Refuse, Answer
<1>3. ASSUME NEW r \in Reqs, Fail(r) PROVE Goal
    BY <1>3 DEF Fail, Answer
<1>4. ASSUME NEW r \in Reqs, PutStart(r) PROVE Goal
    BY <1>4 DEF PutStart, Goto
<1>5. ASSUME NEW r \in Reqs, TypeCreate(r) PROVE Goal
    BY <1>5 DEF TypeCreate, CreateTmp, Goto
<1>6. ASSUME NEW r \in Reqs, TypeWrite(r) PROVE Goal
    BY <1>6 DEF TypeWrite, Goto
<1>7. ASSUME NEW r \in Reqs, TypeCommit(r) PROVE Goal
    BY <1>7 DEF TypeCommit, CommitAnyway, Rename, Goto
<1>8. ASSUME NEW r \in Reqs, TypeFails(r) PROVE Goal
    BY <1>8 DEF TypeFails, CommitAnyway, Rename, Answer
<1>9. ASSUME NEW r \in Reqs, DataCreate(r) PROVE Goal
    BY <1>9 DEF DataCreate, CreateTmp, Goto
<1>10. ASSUME NEW r \in Reqs, DataWrite(r) PROVE Goal
    BY <1>10 DEF DataWrite, Goto
<1>11. ASSUME NEW r \in Reqs, DataCommit(r) PROVE Goal
    BY <1>11 DEF DataCommit, Rename, Answer
<1>12. ASSUME NEW r \in Reqs, GetOpen(r) PROVE Goal
    BY <1>12 DEF GetOpen, Goto, Answer
<1>13. ASSUME NEW r \in Reqs, GetHeaders(r) PROVE Goal
    BY <1>13 DEF GetHeaders, Goto
<1>14. ASSUME NEW r \in Reqs, GetRead(r) PROVE Goal
    BY <1>14 DEF GetRead, Answer
<1>15. ASSUME NEW r \in Reqs, DeleteData(r) PROVE Goal
    BY <1>15 DEF DeleteData, Goto
<1>16. ASSUME NEW r \in Reqs, DeleteMeta(r) PROVE Goal
    BY <1>16 DEF DeleteMeta, Answer
<1>17. CASE Crash
    BY <1>17 DEF Crash, Open
<1>18. CASE UNCHANGED vars
    BY <1>18 DEF vars
<1> HIDE DEF Goal
<1> QED
    BY <1>1, <1>2, <1>3, <1>4, <1>5, <1>6, <1>7, <1>8, <1>9, <1>10,
       <1>11, <1>12, <1>13, <1>14, <1>15, <1>16, <1>17, <1>18
       DEF Next

LEMMA BehindStep ==
    ASSUME TypeInv, [Next]_vars
    PROVE  /\ \A n \in Names : \A f \in Behind(n)' :
                 f \in Behind(n) \/ \E r \in Reqs : Makes(r, n, f)
           /\ \A q \in Reqs :
                 \/ fd'[q] \in {fd[q], None}
                 \/ \E n \in Names : \/ fd'[q] \in Behind(n)
                                     \/ \E r \in Reqs : Makes(r, n, fd'[q])
<1> DEFINE Goal ==
        /\ \A n \in Names : \A f \in Behind(n)' :
              f \in Behind(n) \/ \E r \in Reqs : Makes(r, n, f)
        /\ \A q \in Reqs :
              \/ fd'[q] \in {fd[q], None}
              \/ \E n \in Names : \/ fd'[q] \in Behind(n)
                                  \/ \E r \in Reqs : Makes(r, n, fd'[q])
<1> SUFFICES Goal
    OBVIOUS
<1>0. /\ NamesOK /\ pc \in [Reqs -> PcStates] /\ fd \in [Reqs -> Files \cup {None}]
      /\ \A r \in Reqs : pc[r] # "new" => Data(r) \in Names /\ CType(r) \in Names
    BY DEF TypeInv, HandlersOK, Call, Data, CType, Names, Slots
<1> USE <1>0, NoneAssumption DEF Behind, NamesOK, diskVars
<1>1. ASSUME NEW r \in Reqs, Arrive(r) PROVE Goal
    BY <1>1 DEF Arrive, Goto, Open
<1>2. ASSUME NEW r \in Reqs, Refuse(r) PROVE Goal
    BY <1>2 DEF Refuse, Answer
<1>3. ASSUME NEW r \in Reqs, Fail(r) PROVE Goal
    BY <1>3 DEF Fail, Answer
<1>4. ASSUME NEW r \in Reqs, PutStart(r) PROVE Goal
    BY <1>4 DEF PutStart, Goto
<1>5. ASSUME NEW r \in Reqs, TypeCreate(r) PROVE Goal
    <2> DEFINE f == TmpFile(r, CType(r))
    <2>1. /\ f \in Files /\ Made(r, CType(r), f) /\ pc[r] # "new"
        BY <1>5, TmpFileMade DEF TypeCreate
    <2> HIDE DEF f
    <2>2. (f = tmp[CType(r)] /\ f \in Behind(CType(r))) \/ Makes(r, CType(r), f)
        BY <1>5 DEF TypeCreate, Goto, Makes, TmpFile, f
    <2>3. UNCHANGED <<at, retired>>
        BY <1>5 DEF TypeCreate
    <2> HIDE DEF Behind
    <2>4. ASSUME NEW n \in Names, NEW g \in Behind(n)', g \notin Behind(n)
          PROVE  n = CType(r) /\ g = f
        BY <2>1, <2>3, <2>4 DEF Made, Behind
    <2>5. \A q \in Reqs : fd'[q] \in {fd[q], f}
        BY <2>1 DEF Made
    <2>6. CType(r) \in Names
        BY <2>1
    <2> QED
        BY <2>2, <2>4, <2>5, <2>6
<1>6. ASSUME NEW r \in Reqs, TypeWrite(r) PROVE Goal
    BY <1>6 DEF TypeWrite, Goto
<1>7. ASSUME NEW r \in Reqs, TypeCommit(r) PROVE Goal
    BY <1>7 DEF TypeCommit, CommitAnyway, Rename, Goto
<1>8. ASSUME NEW r \in Reqs, TypeFails(r) PROVE Goal
    BY <1>8 DEF TypeFails, CommitAnyway, Rename, Answer
<1>9. ASSUME NEW r \in Reqs, DataCreate(r) PROVE Goal
    <2> DEFINE f == TmpFile(r, Data(r))
    <2>1. /\ f \in Files /\ Made(r, Data(r), f) /\ pc[r] # "new"
        BY <1>9, TmpFileMade DEF DataCreate
    <2> HIDE DEF f
    <2>2. (f = tmp[Data(r)] /\ f \in Behind(Data(r))) \/ Makes(r, Data(r), f)
        BY <1>9 DEF DataCreate, Goto, Makes, TmpFile, f
    <2>3. UNCHANGED <<at, retired>>
        BY <1>9 DEF DataCreate
    <2> HIDE DEF Behind
    <2>4. ASSUME NEW n \in Names, NEW g \in Behind(n)', g \notin Behind(n)
          PROVE  n = Data(r) /\ g = f
        BY <2>1, <2>3, <2>4 DEF Made, Behind
    <2>5. \A q \in Reqs : fd'[q] \in {fd[q], f}
        BY <2>1 DEF Made
    <2>6. Data(r) \in Names
        BY <2>1
    <2> QED
        BY <2>2, <2>4, <2>5, <2>6
<1>10. ASSUME NEW r \in Reqs, DataWrite(r) PROVE Goal
    BY <1>10 DEF DataWrite, Goto
<1>11. ASSUME NEW r \in Reqs, DataCommit(r) PROVE Goal
    BY <1>11 DEF DataCommit, Rename, Answer
<1>12. ASSUME NEW r \in Reqs, GetOpen(r) PROVE Goal
    BY <1>12 DEF GetOpen, Goto, Answer
<1>13. ASSUME NEW r \in Reqs, GetHeaders(r) PROVE Goal
    BY <1>13 DEF GetHeaders, Goto
<1>14. ASSUME NEW r \in Reqs, GetRead(r) PROVE Goal
    BY <1>14 DEF GetRead, Answer
<1>15. ASSUME NEW r \in Reqs, DeleteData(r) PROVE Goal
    BY <1>15 DEF DeleteData, Goto
<1>16. ASSUME NEW r \in Reqs, DeleteMeta(r) PROVE Goal
    BY <1>16 DEF DeleteMeta, Answer
<1>17. CASE Crash
    BY <1>17 DEF Crash, Open
<1>18. CASE UNCHANGED vars
    BY <1>18 DEF vars
<1> HIDE DEF Goal
<1> QED
    BY <1>1, <1>2, <1>3, <1>4, <1>5, <1>6, <1>7, <1>8, <1>9, <1>10,
       <1>11, <1>12, <1>13, <1>14, <1>15, <1>16, <1>17, <1>18
       DEF Next

LEMMA HomeStep ==
    TypeInv /\ FreshOK /\ HomeOK /\ [Next]_vars => FreshOK' /\ HomeOK'
<1> SUFFICES ASSUME TypeInv, FreshOK, HomeOK, [Next]_vars
             PROVE  FreshOK' /\ HomeOK'
    OBVIOUS
<1>1. ASSUME NEW n \in Names, NEW f, f \in Behind(n)
      PROVE  /\ f \in Files /\ f = <<f[1], f[2]>> /\ f[1] \in Reqs /\ f[2] \in Slots
             /\ pc[f[1]] # "new" /\ call'[f[1]] = call[f[1]]
             /\ n = <<call[f[1]].entry, f[2]>>
    <2>1. f \in Files /\ f = <<f[1], f[2]>> /\ f[1] \in Reqs /\ f[2] \in Slots
        BY <1>1 DEF TypeInv, NamesOK, Behind, Files
    <2>2. pc[f[1]] # "new"
        BY <1>1, <2>1 DEF FreshOK, Unmade
    <2> QED
        BY <1>1, <2>1, <2>2, CallStep DEF HomeOK
<1>2. ASSUME NEW r \in Reqs, NEW n \in Names, NEW f, Makes(r, n, f)
      PROVE  /\ f = <<r, n[2]>> /\ n = <<call'[r].entry, n[2]>>
             /\ ~Unmade(r, n[2])'
    <2>1. pc[r] # "new"
        BY <1>2 DEF Makes
    <2> QED
        BY <1>2, <2>1, CallStep DEF Makes, Data, CType, Unmade
<1>3. HomeOK'
    <2> SUFFICES ASSUME NEW n \in Names, NEW f, f \in Behind(n)'
                 PROVE  n = <<call'[f[1]].entry, f[2]>>
        BY DEF HomeOK
    <2>1. CASE f \in Behind(n)
        BY <1>1, <2>1
    <2>2. ASSUME NEW r \in Reqs, Makes(r, n, f) PROVE n = <<call'[f[1]].entry, f[2]>>
        <3>1. f = <<r, n[2]>> /\ n = <<call'[r].entry, n[2]>>
            BY <1>2, <2>2
        <3>2. f[1] = r /\ f[2] = n[2]
            BY <3>1
        <3> QED
            BY <3>1, <3>2
    <2> QED
        BY <2>1, <2>2, BehindStep
<1>4. FreshOK'
    <2> SUFFICES ASSUME NEW r \in Reqs, NEW s \in Slots, Unmade(r, s)'
                 PROVE  /\ \A n \in Names : <<r, s>> \notin Behind(n)'
                        /\ \A q \in Reqs : fd'[q] # <<r, s>>
        BY DEF FreshOK
    <2>1. Unmade(r, s)
        BY CallStep
    <2>2. /\ \A n \in Names : <<r, s>> \notin Behind(n)
          /\ \A q \in Reqs : fd[q] # <<r, s>>
        BY <2>1 DEF FreshOK
    <2>3. ASSUME NEW n \in Names, NEW q \in Reqs, Makes(q, n, <<r, s>>) PROVE FALSE
        <3>1. <<r, s>> = <<q, n[2]>> /\ ~Unmade(q, n[2])'
            BY <1>2, <2>3
        <3>2. r = q /\ s = n[2]
            BY <3>1
        <3> QED
            BY <3>1, <3>2
    <2>4. <<r, s>> # None
        BY NoneAssumption DEF Files
    <2> QED
        BY <2>2, <2>3, <2>4, BehindStep
<1> QED
    BY <1>3, <1>4

LEMMA OldStep ==
    TypeInv /\ FreshOK /\ TmpOK /\ OldDataNeverReturns /\ [Next]_vars
        => TmpOK' /\ OldDataNeverReturns'
<1> SUFFICES ASSUME TypeInv, FreshOK, TmpOK, OldDataNeverReturns, [Next]_vars
             PROVE  (TmpOK /\ OldDataNeverReturns)'
    OBVIOUS
<1>0. /\ NamesOK /\ pc \in [Reqs -> PcStates]
      /\ \A r \in Reqs : pc[r] # "new" => Data(r) \in Names /\ CType(r) \in Names
    BY DEF TypeInv, HandlersOK, Call, Data, CType, Names, Slots
<1> USE <1>0, NoneAssumption DEF TmpOK, OldDataNeverReturns, NamesOK, diskVars
<1>1. ASSUME NEW r \in Reqs, Arrive(r) PROVE (TmpOK /\ OldDataNeverReturns)'
    BY <1>1 DEF Arrive, Goto, Open
<1>2. ASSUME NEW r \in Reqs, Refuse(r) PROVE (TmpOK /\ OldDataNeverReturns)'
    BY <1>2 DEF Refuse, Answer
<1>3. ASSUME NEW r \in Reqs, Fail(r) PROVE (TmpOK /\ OldDataNeverReturns)'
    BY <1>3 DEF Fail, Answer
<1>4. ASSUME NEW r \in Reqs, PutStart(r) PROVE (TmpOK /\ OldDataNeverReturns)'
    BY <1>4 DEF PutStart, Goto
<1>5. ASSUME NEW r \in Reqs, TypeCreate(r)
       PROVE  (TmpOK /\ OldDataNeverReturns)'
    <2> DEFINE f == TmpFile(r, CType(r))
    <2>1. /\ f \in Files /\ Made(r, CType(r), f) /\ pc[r] # "new"
        BY <1>5, TmpFileMade DEF TypeCreate
    <2> HIDE DEF f
    <2>2. \/ f = tmp[CType(r)]
          \/ f \notin retired[CType(r)] \cup {at[CType(r)]}
        <3>1. f = tmp[CType(r)] \/ f = <<r, CType(r)[2]>>
            BY DEF f, TmpFile
        <3>2. CType(r)[2] = "ctype" /\ Unmade(r, "ctype") /\ CType(r) \in Names
            BY <1>5, <2>1 DEF TypeCreate, CType, Unmade
        <3>3. <<r, "ctype">> \notin Behind(CType(r)) /\ <<r, "ctype">> # None
            <4>1. "ctype" \in Slots /\ <<r, "ctype">> \in Files
                BY DEF Slots, Files
            <4>2. <<r, "ctype">> \notin Behind(CType(r))
                BY <3>2, <4>1 DEF FreshOK
            <4> QED
                BY <4>1, <4>2
        <3> QED
            BY <3>1, <3>2, <3>3 DEF Behind
    <2> QED
        BY <1>5, <2>1, <2>2 DEF TypeCreate, Made
<1>6. ASSUME NEW r \in Reqs, TypeWrite(r)
       PROVE  (TmpOK /\ OldDataNeverReturns)'
    BY <1>6 DEF TypeWrite, Goto
<1>7. ASSUME NEW r \in Reqs, TypeCommit(r)
       PROVE  (TmpOK /\ OldDataNeverReturns)'
    BY <1>7 DEF TypeCommit, CommitAnyway, Rename, Goto
<1>8. ASSUME NEW r \in Reqs, TypeFails(r)
       PROVE  (TmpOK /\ OldDataNeverReturns)'
    BY <1>8 DEF TypeFails, CommitAnyway, Rename, Answer
<1>9. ASSUME NEW r \in Reqs, DataCreate(r)
       PROVE  (TmpOK /\ OldDataNeverReturns)'
    <2> DEFINE f == TmpFile(r, Data(r))
    <2>1. /\ f \in Files /\ Made(r, Data(r), f) /\ pc[r] # "new"
        BY <1>9, TmpFileMade DEF DataCreate
    <2> HIDE DEF f
    <2>2. \/ f = tmp[Data(r)]
          \/ f \notin retired[Data(r)] \cup {at[Data(r)]}
        <3>1. f = tmp[Data(r)] \/ f = <<r, Data(r)[2]>>
            BY DEF f, TmpFile
        <3>2. Data(r)[2] = "data" /\ Unmade(r, "data") /\ Data(r) \in Names
            BY <1>9, <2>1 DEF DataCreate, Data, Unmade
        <3>3. <<r, "data">> \notin Behind(Data(r)) /\ <<r, "data">> # None
            <4>1. "data" \in Slots /\ <<r, "data">> \in Files
                BY DEF Slots, Files
            <4>2. <<r, "data">> \notin Behind(Data(r))
                BY <3>2, <4>1 DEF FreshOK
            <4> QED
                BY <4>1, <4>2
        <3> QED
            BY <3>1, <3>2, <3>3 DEF Behind
    <2> QED
        BY <1>9, <2>1, <2>2 DEF DataCreate, Made
<1>10. ASSUME NEW r \in Reqs, DataWrite(r)
       PROVE  (TmpOK /\ OldDataNeverReturns)'
    BY <1>10 DEF DataWrite, Goto
<1>11. ASSUME NEW r \in Reqs, DataCommit(r)
       PROVE  (TmpOK /\ OldDataNeverReturns)'
    BY <1>11 DEF DataCommit, Rename, Answer
<1>12. ASSUME NEW r \in Reqs, GetOpen(r) PROVE (TmpOK /\ OldDataNeverReturns)'
    BY <1>12 DEF GetOpen, Goto, Answer
<1>13. ASSUME NEW r \in Reqs, GetHeaders(r)
       PROVE  (TmpOK /\ OldDataNeverReturns)'
    BY <1>13 DEF GetHeaders, Goto
<1>14. ASSUME NEW r \in Reqs, GetRead(r) PROVE (TmpOK /\ OldDataNeverReturns)'
    BY <1>14 DEF GetRead, Answer
<1>15. ASSUME NEW r \in Reqs, DeleteData(r)
       PROVE  (TmpOK /\ OldDataNeverReturns)'
    BY <1>15 DEF DeleteData, Goto
<1>16. ASSUME NEW r \in Reqs, DeleteMeta(r)
       PROVE  (TmpOK /\ OldDataNeverReturns)'
    BY <1>16 DEF DeleteMeta, Answer
<1>17. CASE Crash
    BY <1>17 DEF Crash, Open
<1>18. CASE UNCHANGED vars
    BY <1>18 DEF vars
<1> HIDE DEF TmpOK, OldDataNeverReturns
<1> QED
    BY <1>1, <1>2, <1>3, <1>4, <1>5, <1>6, <1>7, <1>8, <1>9, <1>10,
       <1>11, <1>12, <1>13, <1>14, <1>15, <1>16, <1>17, <1>18
       DEF Next

LEMMA OldInit == Init => OldInv
<1> SUFFICES ASSUME Init PROVE OldInv
    OBVIOUS
<1>1. FreshOK /\ HomeOK
    BY NoneAssumption DEF Init, FreshOK, HomeOK, Behind, Unmade, Files
<1>2. TmpOK /\ OldDataNeverReturns
    BY DEF Init, TmpOK, OldDataNeverReturns
<1> QED
    BY TypeInit, <1>1, <1>2 DEF OldInv

LEMMA OldInvStep == OldInv /\ [Next]_vars => OldInv'
BY TypeStep, HomeStep, OldStep DEF OldInv

\* A file that was replaced or deleted is never again behind the name it had:
\* the file a PUT renames was made for that name after the others, whoever
\* made it (filesystem.go:114-129, 165-178).
THEOREM OldDataStaysAway == Spec => []OldDataNeverReturns
<1>1. OldInv => OldDataNeverReturns
    BY DEF OldInv
<1> QED
    BY OldInit, OldInvStep, <1>1, PTL DEF Spec

-----------------------------------------------------------------------------
(* DELETE *)

\* What a name has it keeps or had: nothing is lost sight of.
LEMMA KeptStep ==
    ASSUME TypeInv, [Next]_vars, NEW n \in Names
    PROVE  /\ retired[n] \subseteq retired'[n]
           /\ at'[n] = at[n] \/ at[n] = None \/ at[n] \in retired'[n]
<1> DEFINE Goal == /\ retired[n] \subseteq retired'[n]
                   /\ at'[n] = at[n] \/ at[n] = None \/ at[n] \in retired'[n]
<1> SUFFICES Goal
    OBVIOUS
<1>0. NamesOK
    BY DEF TypeInv
<1> USE <1>0 DEF NamesOK, diskVars
<1>1. ASSUME NEW r \in Reqs, Arrive(r) PROVE Goal
    BY <1>1 DEF Arrive, Goto, Open
<1>2. ASSUME NEW r \in Reqs, Refuse(r) PROVE Goal
    BY <1>2 DEF Refuse, Answer
<1>3. ASSUME NEW r \in Reqs, Fail(r) PROVE Goal
    BY <1>3 DEF Fail, Answer
<1>4. ASSUME NEW r \in Reqs, PutStart(r) PROVE Goal
    BY <1>4 DEF PutStart, Goto
<1>5. ASSUME NEW r \in Reqs, TypeCreate(r) PROVE Goal
    BY <1>5 DEF TypeCreate, CreateTmp, Goto
<1>6. ASSUME NEW r \in Reqs, TypeWrite(r) PROVE Goal
    BY <1>6 DEF TypeWrite, Goto
<1>7. ASSUME NEW r \in Reqs, TypeCommit(r) PROVE Goal
    BY <1>7 DEF TypeCommit, CommitAnyway, Rename, Goto
<1>8. ASSUME NEW r \in Reqs, TypeFails(r) PROVE Goal
    BY <1>8 DEF TypeFails, CommitAnyway, Rename, Answer
<1>9. ASSUME NEW r \in Reqs, DataCreate(r) PROVE Goal
    BY <1>9 DEF DataCreate, CreateTmp, Goto
<1>10. ASSUME NEW r \in Reqs, DataWrite(r) PROVE Goal
    BY <1>10 DEF DataWrite, Goto
<1>11. ASSUME NEW r \in Reqs, DataCommit(r) PROVE Goal
    BY <1>11 DEF DataCommit, Rename, Answer
<1>12. ASSUME NEW r \in Reqs, GetOpen(r) PROVE Goal
    BY <1>12 DEF GetOpen, Goto, Answer
<1>13. ASSUME NEW r \in Reqs, GetHeaders(r) PROVE Goal
    BY <1>13 DEF GetHeaders, Goto
<1>14. ASSUME NEW r \in Reqs, GetRead(r) PROVE Goal
    BY <1>14 DEF GetRead, Answer
<1>15. ASSUME NEW r \in Reqs, DeleteData(r) PROVE Goal
    BY <1>15 DEF DeleteData, Goto
<1>16. ASSUME NEW r \in Reqs, DeleteMeta(r) PROVE Goal
    BY <1>16 DEF DeleteMeta, Answer
<1>17. CASE Crash
    BY <1>17 DEF Crash, Open
<1>18. CASE UNCHANGED vars
    BY <1>18 DEF vars
<1> HIDE DEF Goal
<1> QED
    BY <1>1, <1>2, <1>3, <1>4, <1>5, <1>6, <1>7, <1>8, <1>9, <1>10,
       <1>11, <1>12, <1>13, <1>14, <1>15, <1>16, <1>17, <1>18
       DEF Next

LEMMA WhoStep ==
    ASSUME TypeInv, [Next]_vars, NEW q \in Reqs
    PROVE  /\ before'[q] = before[q] \/ Arrive(q)
           /\ pc'[q] = "removemeta" => pc[q] = "removemeta" \/ DeleteData(q)
           /\ call'[q].method = "DELETE" /\ status'[q] = 204
                => (call'[q] = call[q] /\ status[q] = 204) \/ DeleteMeta(q)
<1> DEFINE Goal ==
        /\ before'[q] = before[q] \/ Arrive(q)
        /\ pc'[q] = "removemeta" => pc[q] = "removemeta" \/ DeleteData(q)
        /\ call'[q].method = "DELETE" /\ status'[q] = 204
             => (call'[q] = call[q] /\ status[q] = 204) \/ DeleteMeta(q)
<1> SUFFICES Goal
    OBVIOUS
<1>0. /\ pc \in [Reqs -> PcStates] /\ call \in [Reqs -> Call \cup {NoCall}]
      /\ status \in [Reqs -> {0, 200, 201, 204, 401, 404, 405}]
      /\ before \in [Reqs -> SUBSET Files]
      /\ \A r \in Reqs : pc[r] # "done" => status[r] = 0
      /\ \A r \in Reqs : pc[r] \in Putting => call[r].method = "PUT"
    BY DEF TypeInv, HandlersOK, RestOK
<1> USE <1>0 DEF Putting, diskVars
<1>1. ASSUME NEW r \in Reqs, Arrive(r) PROVE Goal
    <2>1. CASE q = r
        <3>1. pc'[q] = "start" /\ status'[q] = 0
            BY <1>1, <2>1 DEF Arrive, Goto
        <3> QED
            BY <1>1, <2>1, <3>1
    <2>2. CASE q # r
        BY <1>1, <2>2 DEF Arrive, Goto
    <2> QED
        BY <2>1, <2>2
<1>2. ASSUME NEW r \in Reqs, Refuse(r) PROVE Goal
    BY <1>2 DEF Refuse, Answer
<1>3. ASSUME NEW r \in Reqs, Fail(r) PROVE Goal
    BY <1>3 DEF Fail, Answer
<1>4. ASSUME NEW r \in Reqs, PutStart(r) PROVE Goal
    BY <1>4 DEF PutStart, Goto
<1>5. ASSUME NEW r \in Reqs, TypeCreate(r) PROVE Goal
    BY <1>5 DEF TypeCreate, CreateTmp, Goto
<1>6. ASSUME NEW r \in Reqs, TypeWrite(r) PROVE Goal
    BY <1>6 DEF TypeWrite, Goto
<1>7. ASSUME NEW r \in Reqs, TypeCommit(r) PROVE Goal
    BY <1>7 DEF TypeCommit, CommitAnyway, Rename, Goto
<1>8. ASSUME NEW r \in Reqs, TypeFails(r) PROVE Goal
    BY <1>8 DEF TypeFails, CommitAnyway, Rename, Answer
<1>9. ASSUME NEW r \in Reqs, DataCreate(r) PROVE Goal
    BY <1>9 DEF DataCreate, CreateTmp, Goto
<1>10. ASSUME NEW r \in Reqs, DataWrite(r) PROVE Goal
    BY <1>10 DEF DataWrite, Goto
<1>11. ASSUME NEW r \in Reqs, DataCommit(r) PROVE Goal
    BY <1>11 DEF DataCommit, Rename, Answer
<1>12. ASSUME NEW r \in Reqs, GetOpen(r) PROVE Goal
    BY <1>12 DEF GetOpen, Goto, Answer
<1>13. ASSUME NEW r \in Reqs, GetHeaders(r) PROVE Goal
    BY <1>13 DEF GetHeaders, Goto
<1>14. ASSUME NEW r \in Reqs, GetRead(r) PROVE Goal
    BY <1>14 DEF GetRead, Answer
<1>15. ASSUME NEW r \in Reqs, DeleteData(r) PROVE Goal
    BY <1>15, ZenonT(30) DEF DeleteData, Goto
<1>16. ASSUME NEW r \in Reqs, DeleteMeta(r) PROVE Goal
    <2>1. before' = before /\ pc'[q] \in {pc[q], "done"}
        BY <1>16 DEF DeleteMeta, Answer
    <2>2. CASE q = r
        BY <1>16, <2>1, <2>2
    <2>3. CASE q # r
        BY <1>16, <2>1, <2>3 DEF DeleteMeta, Answer
    <2> QED
        BY <2>2, <2>3
<1>17. CASE Crash
    BY <1>17 DEF Crash, Open
<1>18. CASE UNCHANGED vars
    BY <1>18 DEF vars
<1> HIDE DEF Goal
<1> QED
    BY <1>1, <1>2, <1>3, <1>4, <1>5, <1>6, <1>7, <1>8, <1>9, <1>10,
       <1>11, <1>12, <1>13, <1>14, <1>15, <1>16, <1>17, <1>18
       DEF Next

LEMMA BeforeStep ==
    OldInv /\ BeforeOK /\ [Next]_vars => BeforeOK'
<1> SUFFICES ASSUME OldInv, BeforeOK, [Next]_vars,
                    NEW r \in Reqs, NEW f \in before'[r]
             PROVE  LET n == <<call'[r].entry, f[2]>> IN
                    /\ pc'[r] # "new" /\ n \in Names
                    /\ f = at'[n] \/ f \in retired'[n]
                    /\ pc'[r] = "removemeta" /\ f[2] = "data" => f \in retired'[n]
                    /\ call'[r].method = "DELETE" /\ status'[r] = 204
                          => f \in retired'[n]
    BY DEF BeforeOK
<1> DEFINE n == <<call'[r].entry, f[2]>>
<1>0. TypeInv /\ NamesOK /\ HandlersOK /\ before \in [Reqs -> SUBSET Files]
    BY DEF OldInv, TypeInv, RestOK
<1>1. CASE Arrive(r)
    <2>1. PICK c \in Offers[r] :
             /\ call' = [call EXCEPT ![r] = c]
             /\ before' = [before EXCEPT ![r] = {at[<<c.entry, s>>] : s \in Slots} \ {None}]
        BY <1>1 DEF Arrive
    <2>2. c \in Call
        BY OffersAssumption
    <2>3. PICK s \in Slots : f = at[<<c.entry, s>>] /\ f # None
        BY <2>1, <1>0
    <2>4. <<c.entry, s>> \in Names
        BY <2>2 DEF Call, Names
    <2>5. <<c.entry, s>> = <<call[f[1]].entry, f[2]>>
        BY <2>3, <2>4 DEF OldInv, HomeOK, Behind
    <2>6. f[2] = s /\ call'[r] = c
        BY <2>1, <2>5, <1>0 DEF HandlersOK
    <2>7. pc'[r] = "start" /\ at' = at /\ status'[r] = 0
        BY <1>1, <1>0 DEF Arrive, Goto, HandlersOK, diskVars, TypeInv, RestOK
    <2> QED
        BY <2>3, <2>4, <2>6, <2>7
<1>2. CASE f \in before[r]
    <2>1. /\ pc[r] # "new" /\ pc'[r] # "new" /\ call'[r] = call[r] /\ n \in Names
          /\ f = at[n] \/ f \in retired[n]
          /\ pc[r] = "removemeta" /\ f[2] = "data" => f \in retired[n]
          /\ call[r].method = "DELETE" /\ status[r] = 204 => f \in retired[n]
        BY <1>0, <1>2, CallStep DEF BeforeOK
    <2>2. f \in Files /\ f # None /\ f[2] \in Slots
        BY <1>0, <1>2, NoneAssumption DEF Files
    <2>3. /\ retired[n] \subseteq retired'[n]
          /\ at'[n] = at[n] \/ at[n] = None \/ at[n] \in retired'[n]
        BY <1>0, <2>1, KeptStep
    <2>4. f = at'[n] \/ f \in retired'[n]
        BY <2>1, <2>2, <2>3
    <2>5. ASSUME pc'[r] = "removemeta", f[2] = "data" PROVE f \in retired'[n]
        <3>1. CASE pc[r] = "removemeta"
            BY <2>1, <2>3, <2>5, <3>1
        <3>2. CASE DeleteData(r)
            <4>1. n = Data(r) /\ at'[n] = None
                BY <1>0, <2>1, <2>5, <3>2 DEF DeleteData, Data, NamesOK
            <4> QED
                BY <2>2, <2>4, <4>1
        <3> QED
            BY <1>0, <2>5, <3>1, <3>2, WhoStep
    <2>6. ASSUME call'[r].method = "DELETE", status'[r] = 204
          PROVE  f \in retired'[n]
        <3>1. CASE status[r] = 204
            BY <2>1, <2>3, <2>6, <3>1
        <3>2. CASE DeleteMeta(r)
            <4>1. CASE f[2] = "data"
                BY <2>1, <2>3, <3>2, <4>1 DEF DeleteMeta
            <4>2. CASE f[2] = "ctype"
                <5>1. n = CType(r) /\ at'[n] = None
                    BY <1>0, <2>1, <3>2, <4>2 DEF DeleteMeta, CType, NamesOK
                <5> QED
                    BY <2>2, <2>4, <5>1
            <4> QED
                BY <2>2, <4>1, <4>2 DEF Slots
        <3> QED
            BY <1>0, <2>6, <3>1, <3>2, WhoStep
    <2> QED
        BY <2>1, <2>4, <2>5, <2>6
<1> QED
    BY <1>0, <1>1, <1>2, WhoStep

\* An acknowledged DELETE has removed all the entry had when it started, the
\* data and the Content-Type, although it takes them one after the other and
\* PUTs commit in between (server.go:193-227, filesystem.go:165-178).
THEOREM DeletedStaysGone == Spec => []DeletedIsGone
<1>1. Init => DeleteInv
    BY OldInit DEF Init, DeleteInv, BeforeOK
<1>2. DeleteInv /\ [Next]_vars => DeleteInv'
    BY OldInvStep, BeforeStep DEF DeleteInv
<1>3. DeleteInv => DeletedIsGone
    <2> SUFFICES ASSUME DeleteInv, NEW r \in Reqs, call[r].method = "DELETE",
                        status[r] = 204, NEW s \in Slots,
                        at[<<call[r].entry, s>>] \in before[r]
                 PROVE  FALSE
        BY DEF DeletedIsGone
    <2> DEFINE n == <<call[r].entry, s>>
    <2>1. at[n] \in Files /\ at[n] # None
        BY NoneAssumption DEF DeleteInv, OldInv, TypeInv, RestOK
    <2>2. <<call[r].entry, at[n][2]>> \in Names /\ pc[r] # "new"
        BY DEF DeleteInv, BeforeOK
    <2>3. n \in Names
        BY <2>2 DEF Names
    <2>4. at[n][2] = s
        BY <2>1, <2>3 DEF DeleteInv, OldInv, HomeOK, Behind
    <2>5. at[n] \in retired[n]
        BY <2>4 DEF DeleteInv, BeforeOK
    <2> QED
        BY <2>3, <2>5 DEF DeleteInv, OldInv, OldDataNeverReturns
<1> QED
    BY <1>1, <1>2, <1>3, PTL DEF Spec

-----------------------------------------------------------------------------
(* The data of an entry *)

LEMMA WriteNext ==
    ASSUME NEW m \in Nat, NEW r
    PROVE  WriteAt([k \in 1 .. m |-> r], m + 1, r) = [k \in 1 .. m + 1 |-> r]
<1>1. Len([k \in 1 .. m |-> r]) = m
    OBVIOUS
<1> QED
    BY <1>1 DEF WriteAt

LEMMA PosStep == TypeInv /\ PosOK /\ [Next]_vars => PosOK'
<1> SUFFICES ASSUME TypeInv, PosOK, [Next]_vars PROVE PosOK'
    OBVIOUS
<1>0. /\ pc \in [Reqs -> PcStates] /\ pos \in [Reqs -> 0 .. Chunks]
      /\ Chunks \in Nat \ {0}
    BY ChunksAssumption DEF TypeInv, HandlersOK, ContentOK
<1> USE <1>0 DEF PosOK, diskVars
<1>1. ASSUME NEW r \in Reqs, Arrive(r) PROVE PosOK'
    BY <1>1 DEF Arrive, Goto, Open
<1>2. ASSUME NEW r \in Reqs, Refuse(r) PROVE PosOK'
    BY <1>2 DEF Refuse, Answer
<1>3. ASSUME NEW r \in Reqs, Fail(r) PROVE PosOK'
    BY <1>3 DEF Fail, Answer
<1>4. ASSUME NEW r \in Reqs, PutStart(r) PROVE PosOK'
    BY <1>4 DEF PutStart, Goto
<1>5. ASSUME NEW r \in Reqs, TypeCreate(r) PROVE PosOK'
    BY <1>5 DEF TypeCreate, CreateTmp, Goto
<1>6. ASSUME NEW r \in Reqs, TypeWrite(r) PROVE PosOK'
    BY <1>6 DEF TypeWrite, Goto
<1>7. ASSUME NEW r \in Reqs, TypeCommit(r) PROVE PosOK'
    BY <1>7 DEF TypeCommit, CommitAnyway, Rename, Goto
<1>8. ASSUME NEW r \in Reqs, TypeFails(r) PROVE PosOK'
    BY <1>8 DEF TypeFails, CommitAnyway, Rename, Answer
<1>9. ASSUME NEW r \in Reqs, DataCreate(r) PROVE PosOK'
    BY <1>9 DEF DataCreate, CreateTmp, Goto
<1>10. ASSUME NEW r \in Reqs, DataWrite(r) PROVE PosOK'
    BY <1>10 DEF DataWrite, Goto
<1>11. ASSUME NEW r \in Reqs, DataCommit(r) PROVE PosOK'
    BY <1>11 DEF DataCommit, Rename, Answer
<1>12. ASSUME NEW r \in Reqs, GetOpen(r) PROVE PosOK'
    BY <1>12 DEF GetOpen, Goto, Answer
<1>13. ASSUME NEW r \in Reqs, GetHeaders(r) PROVE PosOK'
    BY <1>13 DEF GetHeaders, Goto
<1>14. ASSUME NEW r \in Reqs, GetRead(r) PROVE PosOK'
    BY <1>14 DEF GetRead, Answer
<1>15. ASSUME NEW r \in Reqs, DeleteData(r) PROVE PosOK'
    BY <1>15 DEF DeleteData, Goto
<1>16. ASSUME NEW r \in Reqs, DeleteMeta(r) PROVE PosOK'
    BY <1>16 DEF DeleteMeta, Answer
<1>17. CASE Crash
    BY <1>17 DEF Crash, Open
<1>18. CASE UNCHANGED vars
    BY <1>18 DEF vars
<1> HIDE DEF PosOK
<1> QED
    BY <1>1, <1>2, <1>3, <1>4, <1>5, <1>6, <1>7, <1>8, <1>9, <1>10,
       <1>11, <1>12, <1>13, <1>14, <1>15, <1>16, <1>17, <1>18
       DEF Next

\* A file about to be written has not had its final name.
LEMMA TmpUnpublished ==
    ASSUME OldInv, NEW r \in Reqs,
           NEW n \in {Data(r), CType(r)}, pc[r] # "new",
           n = Data(r) => Unmade(r, "data"), n = CType(r) => Unmade(r, "ctype")
    PROVE  ~Published(TmpFile(r, n))
<1> DEFINE f == TmpFile(r, n)
<1>0. /\ NamesOK /\ n \in Names /\ n[2] \in Slots /\ Unmade(r, n[2])
    BY DEF OldInv, TypeInv, HandlersOK, Call, Data, CType, Names, Slots
<1>1. CASE tmp[n] = None
    <2>1. f = <<r, n[2]>> /\ f # None
        BY <1>0, <1>1, NoneAssumption DEF TmpFile, Files
    <2>2. \A m \in Names : f \notin Behind(m)
        BY <1>0, <2>1 DEF OldInv, FreshOK
    <2> QED
        BY <2>1, <2>2 DEF Published, Behind
<1>2. CASE tmp[n] # None
    <2>1. f = tmp[n] /\ f \in Behind(n) /\ f # None
        BY <1>0, <1>2 DEF TmpFile, Behind
    <2>2. ASSUME NEW m \in Names, f = at[m] \/ f \in retired[m] PROVE FALSE
        <3>1. f \in Behind(m)
            BY <2>1, <2>2 DEF Behind
        <3>2. m = n
            BY <1>0, <2>1, <3>1 DEF OldInv, HomeOK
        <3> QED
            BY <1>0, <1>2, <2>1, <2>2, <3>2 DEF OldInv, TmpOK
    <2> QED
        BY <2>2 DEF Published
<1> QED
    BY <1>1, <1>2

\* Who opens a file, who writes to one, and who gives it its final name.
LEMMA WriteStep ==
    ASSUME OldInv, PosOK, [Next]_vars
    PROVE  /\ mixed \subseteq mixed'
           /\ \A x \in Reqs : pc'[x] \in Writing =>
                 \/ Opens(x)
                 \/ /\ pc[x] \in Writing /\ fd'[x] = fd[x]
                    /\ \/ TypeWrite(x) \/ DataWrite(x)
                       \/ pc'[x] = pc[x] /\ pos'[x] = pos[x]
           /\ \A g \in Files : content'[g] # content[g] =>
                 \E x \in Reqs : \/ Opens(x) /\ fd'[x] = g
                                 \/ fd[x] = g /\ (TypeWrite(x) \/ DataWrite(x))
           /\ \A g \in Files : Published(g)' /\ ~Published(g) /\ g \notin mixed' =>
                 \E x \in Writers(g) :
                    pc'[x] \notin Writing /\ (g[2] = "data" => DataCommit(x))
<1> DEFINE
        Grows == mixed \subseteq mixed'
        Holds == \A x \in Reqs : pc'[x] \in Writing =>
                 \/ Opens(x)
                 \/ /\ pc[x] \in Writing /\ fd'[x] = fd[x]
                    /\ \/ TypeWrite(x) \/ DataWrite(x)
                       \/ pc'[x] = pc[x] /\ pos'[x] = pos[x]
        Writes == \A g \in Files : content'[g] # content[g] =>
                 \E x \in Reqs : \/ Opens(x) /\ fd'[x] = g
                                 \/ fd[x] = g /\ (TypeWrite(x) \/ DataWrite(x))
        Names2 == \A g \in Files : Published(g)' /\ ~Published(g) /\ g \notin mixed' =>
                 \E x \in Writers(g) :
                    pc'[x] \notin Writing /\ (g[2] = "data" => DataCommit(x))
        Goal == Grows /\ Holds /\ Writes /\ Names2
<1> SUFFICES Goal
    OBVIOUS
<1>0. /\ NamesOK /\ pc \in [Reqs -> PcStates] /\ fd \in [Reqs -> Files \cup {None}]
      /\ content \in [Files -> Pieces] /\ pos \in [Reqs -> 0 .. Chunks]
      /\ \A r \in Reqs : pc[r] # "new" => Data(r) \in Names /\ CType(r) \in Names
    BY DEF OldInv, TypeInv, HandlersOK, ContentOK, Call, Data, CType, Names, Slots
<1> USE <1>0, NoneAssumption DEF NamesOK, Published, Writing, diskVars
<1>1. ASSUME NEW r \in Reqs, Arrive(r) PROVE Goal
    BY <1>1 DEF Arrive, Goto, Open
<1>2. ASSUME NEW r \in Reqs, Refuse(r) PROVE Goal
    BY <1>2 DEF Refuse, Answer
<1>3. ASSUME NEW r \in Reqs, Fail(r) PROVE Goal
    BY <1>3 DEF Fail, Answer
<1>4. ASSUME NEW r \in Reqs, PutStart(r) PROVE Goal
    BY <1>4 DEF PutStart, Goto
<1>5. ASSUME NEW r \in Reqs, TypeCreate(r) PROVE Goal
    <2> DEFINE f == TmpFile(r, CType(r))
    <2>1. /\ TypeInv /\ f \in Files /\ Made(r, CType(r), f) /\ pc[r] # "new"
        BY <1>5, TmpFileMade DEF OldInv, TypeCreate
    <2> HIDE DEF f
    <2>2. ~Published(f)
        <3>1. CType(r) # Data(r) /\ Unmade(r, "ctype")
            BY <1>5 DEF TypeCreate, Data, CType, Unmade
        <3> QED
            BY <2>1, <3>1, TmpUnpublished DEF f
    <2>3. pos[r] = 0
        BY <1>5 DEF TypeCreate, PosOK
    <2>4. /\ pc' = [pc EXCEPT ![r] = "twrite"] /\ pos' = pos
          /\ at' = at /\ retired' = retired
        BY <1>5 DEF TypeCreate, Goto
    <2>5. Opens(r) /\ fd'[r] = f
        BY <2>1, <2>2, <2>3, <2>4 DEF Opens, Made
    <2>6. Grows /\ Holds
        BY <2>1, <2>4, <2>5 DEF Made
    <2>7. Writes
        BY <2>1, <2>5 DEF Made
    <2>8. Names2
        BY <2>4
    <2> QED
        BY <2>6, <2>7, <2>8
<1>6. ASSUME NEW r \in Reqs, TypeWrite(r) PROVE Goal
    <2>1. /\ \A x \in Reqs \ {r} : pc'[x] = pc[x] /\ pos'[x] = pos[x]
          /\ pc[r] \in Writing /\ fd' = fd /\ mixed' = mixed
          /\ \A g \in Files : g # fd[r] => content'[g] = content[g]
          /\ UNCHANGED <<at, retired>>
        BY <1>6 DEF TypeWrite, Goto
    <2> QED
        BY <1>6, <2>1
<1>7. ASSUME NEW r \in Reqs, TypeCommit(r) PROVE Goal
    <2>1. \/ Rename(r, CType(r))
          \/ UNCHANGED <<at, tmp, mixed, retired>>
        BY <1>7 DEF TypeCommit, CommitAnyway
    <2>2. /\ \A x \in Reqs \ {r} : pc'[x] = pc[x] /\ fd'[x] = fd[x]
          /\ pc'[r] \notin Writing /\ content' = content /\ pos' = pos
          /\ pc[r] \in Writing /\ CType(r) \in Names
        BY <1>7 DEF TypeCommit, Goto, Answer
    <2>3. Grows /\ Holds /\ Writes
        BY <2>1, <2>2 DEF Rename
    <2>4. Names2
        <3> SUFFICES ASSUME NEW g \in Files, Published(g)', ~Published(g), g \notin mixed'
                     PROVE  r \in Writers(g) /\ (g[2] = "data" => DataCommit(r))
            BY <2>2
        <3>1. Rename(r, CType(r)) /\ g = tmp[CType(r)] /\ g # None
            BY <2>1, <2>2 DEF Rename
        <3>2. fd[r] = g
            BY <3>1 DEF Rename
        <3>3. g \in Behind(CType(r))
            BY <3>1 DEF Behind
        <3>4. g[2] = "ctype"
            BY <1>7, <2>2, <3>3 DEF TypeCommit, OldInv, HomeOK, CType
        <3> QED
            BY <2>2, <3>2, <3>4 DEF Writers
    <2> QED
        BY <2>3, <2>4
<1>8. ASSUME NEW r \in Reqs, TypeFails(r) PROVE Goal
    <2>1. \/ Rename(r, CType(r))
          \/ UNCHANGED <<at, tmp, mixed, retired>>
        BY <1>8 DEF TypeFails, CommitAnyway
    <2>2. /\ \A x \in Reqs \ {r} : pc'[x] = pc[x] /\ fd'[x] = fd[x]
          /\ pc'[r] \notin Writing /\ content' = content /\ pos' = pos
          /\ pc[r] \in Writing /\ CType(r) \in Names
        BY <1>8 DEF TypeFails, Goto, Answer
    <2>3. Grows /\ Holds /\ Writes
        BY <2>1, <2>2 DEF Rename
    <2>4. Names2
        <3> SUFFICES ASSUME NEW g \in Files, Published(g)', ~Published(g), g \notin mixed'
                     PROVE  r \in Writers(g) /\ (g[2] = "data" => DataCommit(r))
            BY <2>2
        <3>1. Rename(r, CType(r)) /\ g = tmp[CType(r)] /\ g # None
            BY <2>1, <2>2 DEF Rename
        <3>2. fd[r] = g
            BY <3>1 DEF Rename
        <3>3. g \in Behind(CType(r))
            BY <3>1 DEF Behind
        <3>4. g[2] = "ctype"
            BY <1>8, <2>2, <3>3 DEF TypeFails, OldInv, HomeOK, CType
        <3> QED
            BY <2>2, <3>2, <3>4 DEF Writers
    <2> QED
        BY <2>3, <2>4
<1>9. ASSUME NEW r \in Reqs, DataCreate(r) PROVE Goal
    <2> DEFINE f == TmpFile(r, Data(r))
    <2>1. /\ TypeInv /\ f \in Files /\ Made(r, Data(r), f) /\ pc[r] # "new"
        BY <1>9, TmpFileMade DEF OldInv, DataCreate
    <2> HIDE DEF f
    <2>2. ~Published(f)
        <3>1. Data(r) # CType(r) /\ Unmade(r, "data")
            BY <1>9 DEF DataCreate, Data, CType, Unmade
        <3> QED
            BY <2>1, <3>1, TmpUnpublished DEF f
    <2>3. pos[r] = 0
        BY <1>9 DEF DataCreate, PosOK
    <2>4. /\ pc' = [pc EXCEPT ![r] = "copy"] /\ pos' = pos
          /\ at' = at /\ retired' = retired
        BY <1>9 DEF DataCreate, Goto
    <2>5. Opens(r) /\ fd'[r] = f
        BY <2>1, <2>2, <2>3, <2>4 DEF Opens, Made
    <2>6. Grows /\ Holds
        BY <2>1, <2>4, <2>5 DEF Made
    <2>7. Writes
        BY <2>1, <2>5 DEF Made
    <2>8. Names2
        BY <2>4
    <2> QED
        BY <2>6, <2>7, <2>8
<1>10. ASSUME NEW r \in Reqs, DataWrite(r) PROVE Goal
    <2>1. /\ \A x \in Reqs \ {r} : pc'[x] = pc[x] /\ pos'[x] = pos[x]
          /\ pc[r] \in Writing /\ fd' = fd /\ mixed' = mixed
          /\ \A g \in Files : g # fd[r] => content'[g] = content[g]
          /\ UNCHANGED <<at, retired>>
        BY <1>10 DEF DataWrite, Goto
    <2> QED
        BY <1>10, <2>1
<1>11. ASSUME NEW r \in Reqs, DataCommit(r) PROVE Goal
    <2>1. \/ Rename(r, Data(r))
          \/ UNCHANGED <<at, tmp, mixed, retired>>
        BY <1>11 DEF DataCommit, CommitAnyway
    <2>2. /\ \A x \in Reqs \ {r} : pc'[x] = pc[x] /\ fd'[x] = fd[x]
          /\ pc'[r] \notin Writing /\ content' = content /\ pos' = pos
          /\ pc[r] \in Writing /\ Data(r) \in Names
        BY <1>11 DEF DataCommit, Goto, Answer
    <2>3. Grows /\ Holds /\ Writes
        BY <2>1, <2>2 DEF Rename
    <2>4. Names2
        <3> SUFFICES ASSUME NEW g \in Files, Published(g)', ~Published(g), g \notin mixed'
                     PROVE  r \in Writers(g) /\ (g[2] = "data" => DataCommit(r))
            BY <2>2
        <3>1. Rename(r, Data(r)) /\ g = tmp[Data(r)] /\ g # None
            BY <2>1, <2>2 DEF Rename
        <3>2. fd[r] = g
            BY <3>1 DEF Rename
        <3>3. g \in Behind(Data(r))
            BY <3>1 DEF Behind
        <3>4. DataCommit(r)
            BY <1>11, <2>2, <3>3 DEF DataCommit, OldInv, HomeOK, Data
        <3> QED
            BY <2>2, <3>2, <3>4 DEF Writers
    <2> QED
        BY <2>3, <2>4
<1>12. ASSUME NEW r \in Reqs, GetOpen(r) PROVE Goal
    BY <1>12 DEF GetOpen, Goto, Answer
<1>13. ASSUME NEW r \in Reqs, GetHeaders(r) PROVE Goal
    BY <1>13 DEF GetHeaders, Goto
<1>14. ASSUME NEW r \in Reqs, GetRead(r) PROVE Goal
    BY <1>14 DEF GetRead, Answer
<1>15. ASSUME NEW r \in Reqs, DeleteData(r) PROVE Goal
    BY <1>15 DEF DeleteData, Goto
<1>16. ASSUME NEW r \in Reqs, DeleteMeta(r) PROVE Goal
    BY <1>16 DEF DeleteMeta, Answer
<1>17. CASE Crash
    BY <1>17 DEF Crash, Open
<1>18. CASE UNCHANGED vars
    BY <1>18 DEF vars
<1> HIDE DEF Goal
<1> QED
    BY <1>1, <1>2, <1>3, <1>4, <1>5, <1>6, <1>7, <1>8, <1>9, <1>10,
       <1>11, <1>12, <1>13, <1>14, <1>15, <1>16, <1>17, <1>18
       DEF Next

LEMMA WriterStep ==
    OldInv /\ PosOK /\ WriterOK /\ [Next]_vars => WriterOK'
<1> SUFFICES ASSUME OldInv, PosOK, WriterOK, [Next]_vars,
                    NEW q \in Reqs, pc'[q] \in Writing, fd'[q] \notin mixed'
             PROVE  /\ Writers(fd[q])' = {q} /\ ~Published(fd[q])'
                    /\ pc'[q] \in {"copy", "commit"} =>
                          content'[fd'[q]] = [k \in 1 .. pos'[q] |-> q]
                    /\ pc'[q] = "twrite" => content'[fd'[q]] = << >>
    BY DEF WriterOK
<1> DEFINE g == fd'[q]
<1>0. /\ \A r \in Reqs : pc[r] \in Writing => fd[r] \in Files
      /\ fd \in [Reqs -> Files \cup {None}] /\ content \in [Files -> Pieces]
      /\ pos \in [Reqs -> 0 .. Chunks] /\ pc \in [Reqs -> PcStates]
      /\ mixed \subseteq mixed'
    BY WriteStep DEF OldInv, TypeInv, HandlersOK, ContentOK, Holding
<1>1. CASE Opens(q)
    <2>1. /\ g \in Files /\ ~Published(g) /\ Writers(g) = {}
          /\ content'[g] = << >> /\ pos'[q] = 0 /\ pc'[q] \in {"twrite", "copy"}
        BY <1>1 DEF Opens
    <2>2. ASSUME NEW x \in Reqs, pc'[x] \in Writing, fd'[x] = g PROVE x = q
        <3>1. ~(pc[x] \in Writing /\ fd[x] = g)
            BY <2>1 DEF Writers
        <3> QED
            BY <1>1, <2>2, <3>1 DEF Opens
    <2>3. Writers(fd[q])' = {q}
        BY <2>2 DEF Writers
    <2>4. ~Published(fd[q])'
        BY <2>1, WriteStep
    <2>5. [k \in 1 .. pos'[q] |-> q] = << >>
        BY <2>1
    <2> QED
        BY <2>1, <2>3, <2>4, <2>5
<1>2. CASE ~Opens(q)
    <2>1. /\ pc[q] \in Writing /\ fd[q] = g /\ g \in Files /\ g \notin mixed
          /\ \/ TypeWrite(q) \/ DataWrite(q)
             \/ pc'[q] = pc[q] /\ pos'[q] = pos[q]
        BY <1>0, <1>2, WriteStep
    <2>2. /\ Writers(g) = {q} /\ ~Published(g)
          /\ pc[q] \in {"copy", "commit"} => content[g] = [k \in 1 .. pos[q] |-> q]
          /\ pc[q] = "twrite" => content[g] = << >>
        BY <2>1 DEF WriterOK
    <2>3. ASSUME NEW x \in Reqs, Opens(x) PROVE fd'[x] # g
        BY <2>2, <2>3 DEF Opens
    <2>4. Writers(fd[q])' = {q}
        <3> SUFFICES ASSUME NEW x \in Reqs, pc'[x] \in Writing, fd'[x] = g PROVE x = q
            BY DEF Writers
        <3>1. pc[x] \in Writing /\ fd[x] = g
            BY <2>3, WriteStep
        <3> QED
            BY <2>2, <3>1 DEF Writers
    <2>5. ~Published(fd[q])'
        <3> SUFFICES ASSUME Published(fd[q])' PROVE FALSE
            OBVIOUS
        <3>1. PICK x \in Writers(g) : pc'[x] \notin Writing
            BY <2>1, <2>2, WriteStep
        <3> QED
            BY <2>2, <3>1
    <2>6. content'[g] = content[g] \/ TypeWrite(q) \/ DataWrite(q)
        <3> SUFFICES ASSUME content'[g] # content[g] PROVE TypeWrite(q) \/ DataWrite(q)
            OBVIOUS
        <3>1. PICK x \in Reqs : fd[x] = g /\ (TypeWrite(x) \/ DataWrite(x))
            BY <2>1, <2>3, WriteStep
        <3>2. x \in Writers(g)
            BY <3>1 DEF Writers, TypeWrite, DataWrite, Writing
        <3> QED
            BY <2>2, <3>1, <3>2
    <2>7. CASE TypeWrite(q)
        BY <1>0, <2>4, <2>5, <2>7 DEF TypeWrite, Goto
    <2>8. CASE DataWrite(q)
        <3>1. /\ pc[q] = "copy" /\ pos'[q] = pos[q] + 1 /\ pos[q] \in Nat
              /\ content'[g] = WriteAt(content[g], pos[q] + 1, q)
              /\ pc'[q] \in {"copy", "commit"}
            BY <1>0, <2>1, <2>8, ChunksAssumption DEF DataWrite, Goto
        <3>2. content[g] = [k \in 1 .. pos[q] |-> q]
            BY <2>2, <3>1
        <3>3. WriteAt(content[g], pos[q] + 1, q) = [k \in 1 .. pos[q] + 1 |-> q]
            <4>1. pos[q] \in Nat
                BY <3>1
            <4>2. WriteAt([k \in 1 .. pos[q] |-> q], pos[q] + 1, q)
                    = [k \in 1 .. pos[q] + 1 |-> q]
                BY <4>1, WriteNext, Zenon
            <4> QED
                BY <3>2, <4>2, Zenon
        <3>4. content'[g] = [k \in 1 .. pos'[q] |-> q]
            BY <3>1, <3>3
        <3> QED
            BY <2>4, <2>5, <3>1, <3>4
    <2>9. CASE ~TypeWrite(q) /\ ~DataWrite(q)
        BY <2>1, <2>2, <2>4, <2>5, <2>6, <2>9
    <2> QED
        BY <2>7, <2>8, <2>9
<1> QED
    BY <1>1, <1>2

\* Nobody writes to a file that has its final name.
LEMMA PublishedStays ==
    ASSUME OldInv, PosOK, WriterOK, [Next]_vars,
           NEW g \in Files, g \notin mixed', Published(g)
    PROVE  g \notin mixed /\ content'[g] = content[g]
<1>1. g \notin mixed
    BY WriteStep
<1>2. Writers(g) = {}
    BY <1>1 DEF WriterOK, Writers
<1> SUFFICES ASSUME content'[g] # content[g] PROVE FALSE
    BY <1>1
<1>3. PICK y \in Reqs : \/ Opens(y) /\ fd'[y] = g
                        \/ fd[y] = g /\ (TypeWrite(y) \/ DataWrite(y))
    BY WriteStep
<1>4. ~(Opens(y) /\ fd'[y] = g)
    BY DEF Opens
<1>5. y \in Writers(g)
    BY <1>3, <1>4 DEF Writers, TypeWrite, DataWrite, Writing
<1> QED
    BY <1>2, <1>5

LEMMA WholeStep ==
    OldInv /\ PosOK /\ WriterOK /\ WholeOK /\ [Next]_vars => WholeOK'
<1> SUFFICES ASSUME OldInv, PosOK, WriterOK, WholeOK, [Next]_vars,
                    NEW g \in Files, g \notin mixed', Published(g)', g[2] = "data"
             PROVE  \E x \in Reqs : content'[g] = Body(x)
    BY DEF WholeOK, Body
<1>0. g \notin mixed
    BY WriteStep
<1>1. CASE Published(g)
    <2>1. PICK x \in Reqs : content[g] = Body(x)
        BY <1>0, <1>1 DEF WholeOK
    <2> QED
        BY <1>1, <2>1, PublishedStays
<1>2. CASE ~Published(g)
    <2>1. PICK x \in Writers(g) : DataCommit(x) /\ pc[x] = "commit"
        BY <1>2, WriteStep DEF DataCommit
    <2>2. x \in Reqs /\ fd[x] = g /\ pc[x] \in Writing
        BY DEF Writers
    <2>3. Writers(g) = {x} /\ content[g] = [k \in 1 .. pos[x] |-> x]
        BY <1>0, <2>1, <2>2 DEF WriterOK
    <2>4. content[g] = Body(x)
        BY <2>1, <2>2, <2>3 DEF PosOK, Body
    <2>5. content'[g] = content[g]
        <3> SUFFICES ASSUME content'[g] # content[g] PROVE FALSE
            OBVIOUS
        <3>1. PICK y \in Reqs : \/ Opens(y) /\ fd'[y] = g
                                \/ fd[y] = g /\ (TypeWrite(y) \/ DataWrite(y))
            BY WriteStep
        <3>2. ~(Opens(y) /\ fd'[y] = g)
            BY <2>3 DEF Opens
        <3>3. y \in Writers(g) /\ pc[y] # "commit"
            BY <3>1, <3>2 DEF Writers, TypeWrite, DataWrite, Writing
        <3> QED
            BY <2>1, <2>3, <3>3
    <2> QED
        BY <2>2, <2>4, <2>5
<1> QED
    BY <1>1, <1>2

\* The data of an entry is the whole body of one PUT, whatever handlers do
\* meanwhile and wherever they break off, unless two PUTs had the temporary
\* file at once (filesystem.go:114-155, server.go:102-145).
THEOREM DataIsWhole == Spec => []DataWhole
<1>1. Init => WholeInv
    <2> SUFFICES ASSUME Init PROVE WholeInv
        OBVIOUS
    <2>1. WriterOK /\ PosOK
        BY DEF Init, WriterOK, PosOK, Writing
    <2>2. WholeOK
        BY NoneAssumption DEF Init, WholeOK, Published, Files
    <2> QED
        BY OldInit, <2>1, <2>2 DEF WholeInv
<1>2. WholeInv /\ [Next]_vars => WholeInv'
    BY OldInvStep, PosStep, WriterStep, WholeStep DEF WholeInv, OldInv
<1>3. WholeInv => DataWhole
    <2> SUFFICES ASSUME WholeInv, NEW e \in Entries,
                        at[<<e, "data">>] \notin mixed \cup {None}
                 PROVE  \E r \in Reqs : content[at[<<e, "data">>]] = Body(r)
        BY DEF DataWhole
    <2> DEFINE n == <<e, "data">>
    <2>1. n \in Names /\ at[n] \in Files \ mixed /\ Published(at[n])
        BY DEF WholeInv, OldInv, TypeInv, NamesOK, Names, Slots, Published
    <2>2. at[n][2] = "data"
        BY <2>1 DEF WholeInv, OldInv, HomeOK, Behind
    <2> QED
        BY <2>1, <2>2 DEF WholeInv, WholeOK
<1> QED
    BY <1>1, <1>2, <1>3, PTL DEF Spec

-----------------------------------------------------------------------------
(* What a GET sends *)

LEMMA BesideStep == TypeInv /\ BesideOK /\ [Next]_vars => BesideOK'
<1> SUFFICES ASSUME TypeInv, BesideOK, [Next]_vars PROVE BesideOK'
    OBVIOUS
<1>0. pc \in [Reqs -> PcStates] /\ beside \in [Reqs -> SUBSET Reqs]
    BY DEF TypeInv, HandlersOK, RestOK
<1> USE <1>0 DEF BesideOK, Open
<1>1. ASSUME NEW r \in Reqs, Arrive(r) PROVE BesideOK'
    BY <1>1 DEF Arrive, Goto, Open
<1>2. ASSUME NEW r \in Reqs, Refuse(r) PROVE BesideOK'
    BY <1>2 DEF Refuse, Answer
<1>3. ASSUME NEW r \in Reqs, Fail(r) PROVE BesideOK'
    BY <1>3 DEF Fail, Answer
<1>4. ASSUME NEW r \in Reqs, PutStart(r) PROVE BesideOK'
    BY <1>4 DEF PutStart, Goto
<1>5. ASSUME NEW r \in Reqs, TypeCreate(r) PROVE BesideOK'
    BY <1>5 DEF TypeCreate, CreateTmp, Goto
<1>6. ASSUME NEW r \in Reqs, TypeWrite(r) PROVE BesideOK'
    BY <1>6 DEF TypeWrite, Goto
<1>7. ASSUME NEW r \in Reqs, TypeCommit(r) PROVE BesideOK'
    BY <1>7 DEF TypeCommit, CommitAnyway, Rename, Goto
<1>8. ASSUME NEW r \in Reqs, TypeFails(r) PROVE BesideOK'
    BY <1>8 DEF TypeFails, CommitAnyway, Rename, Answer
<1>9. ASSUME NEW r \in Reqs, DataCreate(r) PROVE BesideOK'
    BY <1>9 DEF DataCreate, CreateTmp, Goto
<1>10. ASSUME NEW r \in Reqs, DataWrite(r) PROVE BesideOK'
    BY <1>10 DEF DataWrite, Goto
<1>11. ASSUME NEW r \in Reqs, DataCommit(r) PROVE BesideOK'
    BY <1>11 DEF DataCommit, Rename, Answer
<1>12. ASSUME NEW r \in Reqs, GetOpen(r) PROVE BesideOK'
    BY <1>12 DEF GetOpen, Goto, Answer
<1>13. ASSUME NEW r \in Reqs, GetHeaders(r) PROVE BesideOK'
    BY <1>13 DEF GetHeaders, Goto
<1>14. ASSUME NEW r \in Reqs, GetRead(r) PROVE BesideOK'
    BY <1>14 DEF GetRead, Answer
<1>15. ASSUME NEW r \in Reqs, DeleteData(r) PROVE BesideOK'
    BY <1>15 DEF DeleteData, Goto
<1>16. ASSUME NEW r \in Reqs, DeleteMeta(r) PROVE BesideOK'
    BY <1>16 DEF DeleteMeta, Answer
<1>17. CASE Crash
    BY <1>17 DEF Crash, Open
<1>18. CASE UNCHANGED vars
    BY <1>18 DEF vars
<1> HIDE DEF BesideOK
<1> QED
    BY <1>1, <1>2, <1>3, <1>4, <1>5, <1>6, <1>7, <1>8, <1>9, <1>10,
       <1>11, <1>12, <1>13, <1>14, <1>15, <1>16, <1>17, <1>18
       DEF Next

\* How a handler gets the file it holds.
LEMMA HoldStep ==
    ASSUME TypeInv, [Next]_vars, NEW q \in Reqs
    PROVE  /\ pc'[q] \in {"twrite", "tcommit"} =>
                TypeCreate(q) \/ (pc[q] \in {"twrite", "tcommit"} /\ fd'[q] = fd[q])
           /\ pc'[q] \in {"copy", "commit"} =>
                DataCreate(q) \/ (pc[q] \in {"copy", "commit"} /\ fd'[q] = fd[q])
           /\ Reader(q)' =>
                \/ GetOpen(q) /\ pc'[q] = "headers"
                \/ /\ Reader(q) /\ fd'[q] = fd[q]
                   /\ \/ GetHeaders(q) \/ GetRead(q)
                      \/ /\ pc'[q] = pc[q]
                         /\ status'[q] = status[q]
                         /\ got'[q] = got[q] /\ pos'[q] = pos[q] /\ sent'[q] = sent[q]
           /\ pc'[q] \in {"new", "start"} =>
                pc[q] \in {"new", "start"} /\ got'[q] = got[q]
<1> DEFINE
        Types == pc'[q] \in {"twrite", "tcommit"} =>
            TypeCreate(q) \/ (pc[q] \in {"twrite", "tcommit"} /\ fd'[q] = fd[q])
        Datas == pc'[q] \in {"copy", "commit"} =>
            DataCreate(q) \/ (pc[q] \in {"copy", "commit"} /\ fd'[q] = fd[q])
        Reads == Reader(q)' =>
            \/ GetOpen(q) /\ pc'[q] = "headers"
            \/ /\ Reader(q) /\ fd'[q] = fd[q]
               /\ \/ GetHeaders(q) \/ GetRead(q)
                  \/ /\ pc'[q] = pc[q]
                     /\ status'[q] = status[q]
                     /\ got'[q] = got[q] /\ pos'[q] = pos[q] /\ sent'[q] = sent[q]
        Starts == pc'[q] \in {"new", "start"} =>
            pc[q] \in {"new", "start"} /\ got'[q] = got[q]
        Goal == Types /\ Datas /\ Reads /\ Starts
<1> SUFFICES Goal
    OBVIOUS
<1>0. /\ pc \in [Reqs -> PcStates] /\ call \in [Reqs -> Call \cup {NoCall}]
      /\ fd \in [Reqs -> Files \cup {None}]
      /\ status \in [Reqs -> {0, 200, 201, 204, 401, 404, 405}]
      /\ got \in [Reqs -> Pieces] /\ pos \in [Reqs -> 0 .. Chunks]
      /\ sent \in [Reqs -> Pieces \cup {None}]
      /\ \A r \in Reqs : pc[r] # "done" => status[r] = 0
      /\ \A r \in Reqs : pc[r] = "new" => call[r] = NoCall
      /\ \A r \in Reqs : pc[r] \in Putting => call[r].method = "PUT"
      /\ \A r \in Reqs : pc[r] = "removemeta" => call[r].method = "DELETE"
    BY DEF TypeInv, HandlersOK, RestOK, ContentOK
<1> USE <1>0 DEF Reader, Getting, Putting, diskVars
<1>1. ASSUME NEW r \in Reqs, Arrive(r) PROVE Goal
    BY <1>1 DEF Arrive, Goto, Open
<1>2. ASSUME NEW r \in Reqs, Refuse(r) PROVE Goal
    BY <1>2 DEF Refuse, Answer
<1>3. ASSUME NEW r \in Reqs, Fail(r) PROVE Goal
    BY <1>3 DEF Fail, Answer
<1>4. ASSUME NEW r \in Reqs, PutStart(r) PROVE Goal
    BY <1>4 DEF PutStart, Goto
<1>5. ASSUME NEW r \in Reqs, TypeCreate(r) PROVE Goal
    <2>1. /\ pc' = [pc EXCEPT ![r] = "twrite"] /\ pc[r] \in Putting
          /\ UNCHANGED <<call, pos, sent, got, status>>
          /\ \A x \in Reqs \ {r} : fd'[x] = fd[x]
        BY <1>5 DEF TypeCreate, CreateTmp, Goto
    <2> QED
        BY <1>5, <2>1
<1>6. ASSUME NEW r \in Reqs, TypeWrite(r) PROVE Goal
    BY <1>6 DEF TypeWrite, Goto
<1>7. ASSUME NEW r \in Reqs, TypeCommit(r) PROVE Goal
    BY <1>7 DEF TypeCommit, CommitAnyway, Rename, Goto
<1>8. ASSUME NEW r \in Reqs, TypeFails(r) PROVE Goal
    BY <1>8 DEF TypeFails, CommitAnyway, Rename, Answer
<1>9. ASSUME NEW r \in Reqs, DataCreate(r) PROVE Goal
    <2>1. /\ pc' = [pc EXCEPT ![r] = "copy"] /\ pc[r] \in Putting
          /\ UNCHANGED <<call, pos, sent, got, status>>
          /\ \A x \in Reqs \ {r} : fd'[x] = fd[x]
        BY <1>9 DEF DataCreate, CreateTmp, Goto
    <2> QED
        BY <1>9, <2>1
<1>10. ASSUME NEW r \in Reqs, DataWrite(r) PROVE Goal
    BY <1>10 DEF DataWrite, Goto
<1>11. ASSUME NEW r \in Reqs, DataCommit(r) PROVE Goal
    BY <1>11 DEF DataCommit, Rename, Answer
<1>12. ASSUME NEW r \in Reqs, GetOpen(r) PROVE Goal
    BY <1>12 DEF GetOpen, Goto, Answer
<1>13. ASSUME NEW r \in Reqs, GetHeaders(r) PROVE Goal
    <2>1. /\ pc[r] = "headers" /\ pc' = [pc EXCEPT ![r] = "read"]
          /\ UNCHANGED <<call, fd, pos, got, status>>
          /\ \A x \in Reqs \ {r} : sent'[x] = sent[x]
        BY <1>13 DEF GetHeaders, Goto
    <2> QED
        BY <1>13, <2>1
<1>14. ASSUME NEW r \in Reqs, GetRead(r) PROVE Goal
    BY <1>14 DEF GetRead, Answer
<1>15. ASSUME NEW r \in Reqs, DeleteData(r) PROVE Goal
    BY <1>15 DEF DeleteData, Goto
<1>16. ASSUME NEW r \in Reqs, DeleteMeta(r) PROVE Goal
    BY <1>16 DEF DeleteMeta, Answer
<1>17. CASE Crash
    BY <1>17 DEF Crash, Open
<1>18. CASE UNCHANGED vars
    BY <1>18 DEF vars
<1> HIDE DEF Goal
<1> QED
    BY <1>1, <1>2, <1>3, <1>4, <1>5, <1>6, <1>7, <1>8, <1>9, <1>10,
       <1>11, <1>12, <1>13, <1>14, <1>15, <1>16, <1>17, <1>18
       DEF Next

LEMMA HeldStep ==
    WholeInv /\ HeldOK /\ [Next]_vars => HeldOK'
<1> SUFFICES ASSUME WholeInv, HeldOK, [Next]_vars, NEW q \in Reqs
             PROVE  /\ pc'[q] \in {"twrite", "tcommit"} => Of(fd[q], q, "ctype")'
                    /\ pc'[q] \in {"copy", "commit"} => Of(fd[q], q, "data")'
                    /\ Reader(q)' => Of(fd[q], q, "data")' /\ Published(fd[q])'
                    /\ pc'[q] \in {"new", "start"} => got'[q] = << >>
    BY DEF HeldOK
<1>0. /\ OldInv /\ TypeInv /\ NamesOK /\ pc \in [Reqs -> PcStates]
      /\ fd \in [Reqs -> Files \cup {None}]
      /\ \A r \in Reqs : pc[r] # "new" => Data(r) \in Names /\ CType(r) \in Names
    BY DEF WholeInv, OldInv, TypeInv, HandlersOK, Call, Data, CType, Names, Slots
<1>1. ASSUME NEW f \in Files, NEW s \in Slots, Of(f, q, s), f = fd[q] \/ Published(f),
             pc[q] # "new"
      PROVE  f[2] = s /\ call'[f[1]].entry = call'[q].entry
    <2>1. f = <<f[1], f[2]>> /\ f[1] \in Reqs /\ f[2] \in Slots /\ f # None
        BY NoneAssumption DEF Files
    <2>2. pc[f[1]] # "new"
        <3>1. CASE f = fd[q]
            BY <1>0, <2>1, <3>1 DEF OldInv, FreshOK, Unmade
        <3>2. CASE Published(f)
            BY <1>0, <2>1, <3>2 DEF OldInv, FreshOK, Unmade, Published, Behind
        <3> QED
            BY <1>1, <3>1, <3>2
    <2>3. f[2] = s /\ call[f[1]].entry = call[q].entry
        BY <1>1 DEF Of
    <2> QED
        BY <1>0, <1>1, <2>1, <2>2, <2>3, CallStep
<1>2. ASSUME NEW n \in {Data(q), CType(q)}, pc[q] # "new", CreateTmp(q, n)
      PROVE  /\ fd'[q] \in Files /\ fd'[q][2] = n[2]
             /\ call[fd'[q][1]].entry = call[q].entry /\ call[fd'[q][1]] = call'[fd'[q][1]]
    <2> DEFINE f == TmpFile(q, n)
    <2>1. n \in Names /\ f \in Files /\ fd'[q] = f
        BY <1>0, <1>2, TmpFileMade DEF Made
    <2>2. n = <<call[q].entry, n[2]>>
        BY DEF Data, CType
    <2>3. f = <<f[1], f[2]>> /\ f[1] \in Reqs /\ f[2] \in Slots
        BY <2>1 DEF Files
    <2>4. CASE tmp[n] = None
        <3>1. f = <<q, n[2]>>
            BY <2>4 DEF TmpFile
        <3>2. f[1] = q /\ f[2] = n[2]
            BY <3>1
        <3> QED
            BY <1>0, <1>2, <2>1, <3>2, CallStep
    <2>5. CASE tmp[n] # None
        <3>1. f \in Behind(n) /\ f # None
            BY <2>5 DEF TmpFile, Behind
        <3>2. n = <<call[f[1]].entry, f[2]>>
            BY <1>0, <2>1, <3>1 DEF OldInv, HomeOK
        <3>3. pc[f[1]] # "new"
            BY <1>0, <2>1, <2>3, <3>1 DEF OldInv, FreshOK, Unmade
        <3>4. f[2] = n[2] /\ call[f[1]].entry = call[q].entry
            BY <2>2, <3>2
        <3> QED
            BY <1>0, <2>1, <2>3, <3>3, <3>4, CallStep
    <2> QED
        BY <2>4, <2>5
<1>3. ASSUME pc'[q] \in {"twrite", "tcommit"} PROVE Of(fd[q], q, "ctype")'
    <2>1. CASE TypeCreate(q)
        <3>1. CreateTmp(q, CType(q)) /\ pc[q] # "new" /\ call' = call
            BY <2>1 DEF TypeCreate
        <3>2. CType(q)[2] = "ctype"
            BY DEF CType
        <3> QED
            BY <1>2, <3>1, <3>2 DEF Of
    <2>2. CASE pc[q] \in {"twrite", "tcommit"} /\ fd'[q] = fd[q]
        <3>1. Of(fd[q], q, "ctype")
            BY <2>2 DEF HeldOK
        <3>2. fd[q] \in Files
            BY <3>1 DEF Of
        <3> QED
            BY <1>1, <2>2, <3>1, <3>2 DEF Of, Slots
    <2> QED
        BY <1>0, <1>3, <2>1, <2>2, HoldStep
<1>4. ASSUME pc'[q] \in {"copy", "commit"} PROVE Of(fd[q], q, "data")'
    <2>1. CASE DataCreate(q)
        <3>1. CreateTmp(q, Data(q)) /\ pc[q] # "new" /\ call' = call
            BY <2>1 DEF DataCreate
        <3>2. Data(q)[2] = "data"
            BY DEF Data
        <3> QED
            BY <1>2, <3>1, <3>2 DEF Of
    <2>2. CASE pc[q] \in {"copy", "commit"} /\ fd'[q] = fd[q]
        <3>1. Of(fd[q], q, "data")
            BY <2>2 DEF HeldOK
        <3>2. fd[q] \in Files
            BY <3>1 DEF Of
        <3> QED
            BY <1>1, <2>2, <3>1, <3>2 DEF Of, Slots
    <2> QED
        BY <1>0, <1>4, <2>1, <2>2, HoldStep
<1>5. ASSUME Reader(q)' PROVE Of(fd[q], q, "data")' /\ Published(fd[q])'
    <2>1. CASE GetOpen(q) /\ pc'[q] = "headers"
        <3>1. /\ pc[q] = "start" /\ fd'[q] = at[Data(q)] /\ at[Data(q)] # None
              /\ Data(q) \in Names /\ call' = call /\ at' = at
            BY <1>0, <2>1 DEF GetOpen, Answer, diskVars
        <3>2. fd'[q] \in Files /\ fd'[q] \in Behind(Data(q))
            BY <1>0, <3>1 DEF NamesOK, Behind
        <3>3. Data(q) = <<call[fd'[q][1]].entry, fd'[q][2]>>
            BY <1>0, <3>1, <3>2 DEF OldInv, HomeOK
        <3>4. Of(fd[q], q, "data")'
            BY <3>1, <3>2, <3>3 DEF Of, Data
        <3> QED
            BY <3>1, <3>4 DEF Published
    <2>2. CASE Reader(q) /\ fd'[q] = fd[q]
        <3>1. Of(fd[q], q, "data") /\ Published(fd[q]) /\ fd[q] \in Files
            BY <2>2 DEF HeldOK, Of
        <3>2. pc[q] # "new"
            BY <1>0, <2>2 DEF Reader, Getting, TypeInv, RestOK
        <3>3. Of(fd[q], q, "data")'
            BY <1>1, <2>2, <3>1, <3>2 DEF Of, Slots
        <3>4. PICK n \in Names : fd[q] = at[n] \/ fd[q] \in retired[n]
            BY <3>1 DEF Published
        <3>5. fd[q] = at'[n] \/ fd[q] \in retired'[n]
            BY <1>0, <3>1, <3>4, KeptStep, NoneAssumption
        <3> QED
            BY <2>2, <3>3, <3>5 DEF Published
    <2> QED
        BY <1>0, <1>5, <2>1, <2>2, HoldStep
<1>6. pc'[q] \in {"new", "start"} => got'[q] = << >>
    BY <1>0, HoldStep DEF HeldOK
<1> QED
    BY <1>3, <1>4, <1>5, <1>6

\* What has happened to a handler or beside it stays so.
LEMMA StayStep ==
    ASSUME TypeInv, [Next]_vars, NEW q \in Reqs
    PROVE  /\ pc[q] # "new" => beside[q] \subseteq beside'[q]
           /\ pc[q] = "done" => pc'[q] = "done"
           /\ Failed(q) => Failed(q)'
           /\ pc[q] \in Putting => pc'[q] \in Putting \/ Failed(q)' \/ DataCommit(q)
<1> DEFINE Goal ==
        /\ pc[q] # "new" => beside[q] \subseteq beside'[q]
        /\ pc[q] = "done" => pc'[q] = "done"
        /\ Failed(q) => Failed(q)'
        /\ pc[q] \in Putting => pc'[q] \in Putting \/ Failed(q)' \/ DataCommit(q)
<1> SUFFICES Goal
    OBVIOUS
<1>0. /\ pc \in [Reqs -> PcStates] /\ call \in [Reqs -> Call \cup {NoCall}]
      /\ status \in [Reqs -> {0, 200, 201, 204, 401, 404, 405}]
      /\ beside \in [Reqs -> SUBSET Reqs]
      /\ \A r \in Reqs : pc[r] # "done" => status[r] = 0
      /\ \A r \in Reqs : pc[r] \in Putting => call[r].method = "PUT"
    BY DEF TypeInv, HandlersOK, RestOK
<1> USE <1>0 DEF Failed, Putting, diskVars
<1>1. ASSUME NEW r \in Reqs, Arrive(r) PROVE Goal
    <2>1. /\ pc[r] = "new" /\ pc'[r] = "start" /\ status' = status
          /\ \A x \in Reqs \ {r} : pc'[x] = pc[x] /\ call'[x] = call[x]
        BY <1>1 DEF Arrive, Goto
    <2>2. q # r => beside[q] \subseteq beside'[q]
        BY <1>1 DEF Arrive
    <2> QED
        BY <2>1, <2>2
<1>2. ASSUME NEW r \in Reqs, Refuse(r) PROVE Goal
    BY <1>2 DEF Refuse, Answer
<1>3. ASSUME NEW r \in Reqs, Fail(r) PROVE Goal
    BY <1>3 DEF Fail, Answer
<1>4. ASSUME NEW r \in Reqs, PutStart(r) PROVE Goal
    BY <1>4 DEF PutStart, Goto
<1>5. ASSUME NEW r \in Reqs, TypeCreate(r) PROVE Goal
    BY <1>5 DEF TypeCreate, CreateTmp, Goto
<1>6. ASSUME NEW r \in Reqs, TypeWrite(r) PROVE Goal
    BY <1>6 DEF TypeWrite, Goto
<1>7. ASSUME NEW r \in Reqs, TypeCommit(r) PROVE Goal
    BY <1>7 DEF TypeCommit, CommitAnyway, Rename, Goto
<1>8. ASSUME NEW r \in Reqs, TypeFails(r) PROVE Goal
    BY <1>8 DEF TypeFails, CommitAnyway, Rename, Answer
<1>9. ASSUME NEW r \in Reqs, DataCreate(r) PROVE Goal
    BY <1>9 DEF DataCreate, CreateTmp, Goto
<1>10. ASSUME NEW r \in Reqs, DataWrite(r) PROVE Goal
    BY <1>10 DEF DataWrite, Goto
<1>11. ASSUME NEW r \in Reqs, DataCommit(r) PROVE Goal
    <2>1. /\ pc[r] = "commit" /\ call' = call /\ beside' = beside
          /\ \A x \in Reqs \ {r} : pc'[x] = pc[x] /\ status'[x] = status[x]
        BY <1>11 DEF DataCommit, Answer
    <2> QED
        BY <1>11, <2>1
<1>12. ASSUME NEW r \in Reqs, GetOpen(r) PROVE Goal
    BY <1>12 DEF GetOpen, Goto, Answer
<1>13. ASSUME NEW r \in Reqs, GetHeaders(r) PROVE Goal
    BY <1>13 DEF GetHeaders, Goto
<1>14. ASSUME NEW r \in Reqs, GetRead(r) PROVE Goal
    BY <1>14 DEF GetRead, Answer
<1>15. ASSUME NEW r \in Reqs, DeleteData(r) PROVE Goal
    BY <1>15 DEF DeleteData, Goto
<1>16. ASSUME NEW r \in Reqs, DeleteMeta(r) PROVE Goal
    BY <1>16 DEF DeleteMeta, Answer
<1>17. CASE Crash
    BY <1>17 DEF Crash, Open
<1>18. CASE UNCHANGED vars
    BY <1>18 DEF vars
<1> HIDE DEF Goal
<1> QED
    BY <1>1, <1>2, <1>3, <1>4, <1>5, <1>6, <1>7, <1>8, <1>9, <1>10,
       <1>11, <1>12, <1>13, <1>14, <1>15, <1>16, <1>17, <1>18
       DEF Next

\* Who can take the Content-Type of an entry away.
LEMMA TypeIsStep ==
    ASSUME WholeInv, HeldOK, [Next]_vars, NEW e \in Entries, NEW x \in Reqs,
           TypeIs(e, x)
    PROVE  \/ TypeIs(e, x)'
           \/ \E y \in Reqs : /\ call[y].entry = e
                              /\ pc[y] \in {"twrite", "tcommit", "removemeta"}
<1> DEFINE n == <<e, "ctype">>
           Goal == \/ TypeIs(e, x)'
                   \/ \E y \in Reqs : /\ call[y].entry = e
                                      /\ pc[y] \in {"twrite", "tcommit", "removemeta"}
<1> SUFFICES Goal
    OBVIOUS
<1>0. /\ OldInv /\ TypeInv /\ NamesOK /\ n \in Names /\ PosOK
      /\ pc \in [Reqs -> PcStates] /\ content \in [Files -> Pieces]
      /\ at[n] \in Files /\ at[n] # None /\ content[at[n]] = <<x>>
      /\ n = <<call[at[n][1]].entry, at[n][2]>> /\ at[n][2] = "ctype"
    <2>1. OldInv /\ TypeInv /\ NamesOK /\ n \in Names /\ PosOK
          /\ pc \in [Reqs -> PcStates] /\ content \in [Files -> Pieces]
        BY DEF WholeInv, OldInv, TypeInv, HandlersOK, ContentOK, Names, Slots
    <2>2. at[n] \in Files /\ at[n] # None /\ content[at[n]] = <<x>>
        BY <2>1 DEF TypeIs, NamesOK
    <2>3. n = <<call[at[n][1]].entry, at[n][2]>>
        BY <2>1, <2>2 DEF OldInv, HomeOK, Behind
    <2> QED
        BY <2>1, <2>2, <2>3
<1>a. ASSUME at'[n] = at[n], content'[at[n]] = content[at[n]] PROVE TypeIs(e, x)'
    BY <1>0, <1>a DEF TypeIs
<1> HIDE DEF n
<1>1. ASSUME NEW r \in Reqs, Arrive(r) PROVE Goal
    <2>1. at'[n] = at[n] /\ content'[at[n]] = content[at[n]]
        BY <1>1, <1>0 DEF Arrive, Goto, Open, diskVars
    <2> QED
        BY <2>1, <1>a
<1>2. ASSUME NEW r \in Reqs, Refuse(r) PROVE Goal
    <2>1. at'[n] = at[n] /\ content'[at[n]] = content[at[n]]
        BY <1>2, <1>0 DEF Refuse, Answer, diskVars
    <2> QED
        BY <2>1, <1>a
<1>3. ASSUME NEW r \in Reqs, Fail(r) PROVE Goal
    <2>1. at'[n] = at[n] /\ content'[at[n]] = content[at[n]]
        BY <1>3, <1>0 DEF Fail, Answer, diskVars
    <2> QED
        BY <2>1, <1>a
<1>4. ASSUME NEW r \in Reqs, PutStart(r) PROVE Goal
    <2>1. at'[n] = at[n] /\ content'[at[n]] = content[at[n]]
        BY <1>4, <1>0 DEF PutStart, Goto, diskVars
    <2> QED
        BY <2>1, <1>a
<1>5. ASSUME NEW r \in Reqs, TypeCreate(r) PROVE Goal
    <2> DEFINE f == TmpFile(r, CType(r))
    <2>1. /\ f \in Files /\ Made(r, CType(r), f) /\ at' = at /\ pc[r] # "new"
        BY <1>5, <1>0, TmpFileMade DEF TypeCreate
    <2>2. CType(r) # Data(r) /\ Unmade(r, "ctype")
        BY <1>5 DEF TypeCreate, Data, CType, Unmade
    <2>3. ~Published(f)
        BY <1>0, <2>1, <2>2, TmpUnpublished
    <2>4. at[n] # f
        BY <1>0, <2>3 DEF Published
    <2> HIDE DEF f
    <2>5. content'[at[n]] = content[at[n]]
        BY <1>0, <2>1, <2>4 DEF Made
    <2> QED
        BY <2>1, <2>5, <1>a
<1>6. ASSUME NEW r \in Reqs, TypeWrite(r) PROVE Goal
    <2>1. pc[r] = "twrite" /\ at' = at
        BY <1>6 DEF TypeWrite
    <2>2. CASE fd[r] = at[n]
        <3>1. Of(fd[r], r, "ctype")
            BY <2>1 DEF HeldOK
        <3>2. call[r].entry = e
            BY <1>0, <2>2, <3>1 DEF Of, n
        <3> QED
            BY <2>1, <3>2
    <2>3. CASE fd[r] # at[n]
        <3>1. content'[at[n]] = content[at[n]]
            BY <1>6, <1>0, <2>3 DEF TypeWrite
        <3> QED
            BY <2>1, <3>1, <1>a
    <2> QED
        BY <2>2, <2>3
<1>7. ASSUME NEW r \in Reqs, TypeCommit(r) PROVE Goal
    <2>1. /\ pc[r] \in {"twrite", "tcommit", "removemeta"} /\ content' = content
        BY <1>7 DEF TypeCommit
    <2>2. CASE CType(r) = n
        BY <2>1, <2>2 DEF CType, n
    <2>3. CASE CType(r) # n
        <3>1. at'[n] = at[n]
            BY <1>7, <1>0, <2>3 DEF TypeCommit, CommitAnyway, Rename, NamesOK
        <3> QED
            BY <2>1, <3>1, <1>a
    <2> QED
        BY <2>2, <2>3
<1>8. ASSUME NEW r \in Reqs, TypeFails(r) PROVE Goal
    <2>1. /\ pc[r] \in {"twrite", "tcommit", "removemeta"} /\ content' = content
        BY <1>8 DEF TypeFails
    <2>2. CASE CType(r) = n
        BY <2>1, <2>2 DEF CType, n
    <2>3. CASE CType(r) # n
        <3>1. at'[n] = at[n]
            BY <1>8, <1>0, <2>3 DEF TypeFails, CommitAnyway, Rename, NamesOK
        <3> QED
            BY <2>1, <3>1, <1>a
    <2> QED
        BY <2>2, <2>3
<1>9. ASSUME NEW r \in Reqs, DataCreate(r) PROVE Goal
    <2> DEFINE f == TmpFile(r, Data(r))
    <2>1. /\ f \in Files /\ Made(r, Data(r), f) /\ at' = at /\ pc[r] # "new"
        BY <1>9, <1>0, TmpFileMade DEF DataCreate
    <2>2. Data(r) # CType(r) /\ Unmade(r, "data")
        BY <1>9 DEF DataCreate, Data, CType, Unmade
    <2>3. ~Published(f)
        BY <1>0, <2>1, <2>2, TmpUnpublished
    <2>4. at[n] # f
        BY <1>0, <2>3 DEF Published
    <2> HIDE DEF f
    <2>5. content'[at[n]] = content[at[n]]
        BY <1>0, <2>1, <2>4 DEF Made
    <2> QED
        BY <2>1, <2>5, <1>a
<1>10. ASSUME NEW r \in Reqs, DataWrite(r) PROVE Goal
    <2>1. at' = at /\ Of(fd[r], r, "data")
        BY <1>10 DEF DataWrite, HeldOK
    <2>2. fd[r] # at[n]
        BY <1>0, <2>1 DEF Of
    <2>3. content'[at[n]] = content[at[n]]
        BY <1>10, <1>0, <2>2 DEF DataWrite
    <2> QED
        BY <2>1, <2>3, <1>a
<1>11. ASSUME NEW r \in Reqs, DataCommit(r) PROVE Goal
    <2>1. n # Data(r) /\ content' = content
        BY <1>11 DEF DataCommit, Data, n
    <2>2. at'[n] = at[n]
        BY <1>11, <1>0, <2>1 DEF DataCommit, Rename, NamesOK
    <2> QED
        BY <2>1, <2>2, <1>a
<1>12. ASSUME NEW r \in Reqs, GetOpen(r) PROVE Goal
    <2>1. at'[n] = at[n] /\ content'[at[n]] = content[at[n]]
        BY <1>12, <1>0 DEF GetOpen, Goto, Answer, diskVars
    <2> QED
        BY <2>1, <1>a
<1>13. ASSUME NEW r \in Reqs, GetHeaders(r) PROVE Goal
    <2>1. at'[n] = at[n] /\ content'[at[n]] = content[at[n]]
        BY <1>13, <1>0 DEF GetHeaders, Goto, diskVars
    <2> QED
        BY <2>1, <1>a
<1>14. ASSUME NEW r \in Reqs, GetRead(r) PROVE Goal
    <2>1. at'[n] = at[n] /\ content'[at[n]] = content[at[n]]
        BY <1>14, <1>0 DEF GetRead, Answer, diskVars
    <2> QED
        BY <2>1, <1>a
<1>15. ASSUME NEW r \in Reqs, DeleteData(r) PROVE Goal
    <2>1. n # Data(r) /\ content' = content
        BY <1>15 DEF DeleteData, Data, n
    <2>2. at'[n] = at[n]
        BY <1>15, <1>0, <2>1 DEF DeleteData, Rename, NamesOK
    <2> QED
        BY <2>1, <2>2, <1>a
<1>16. ASSUME NEW r \in Reqs, DeleteMeta(r) PROVE Goal
    <2>1. /\ pc[r] \in {"twrite", "tcommit", "removemeta"} /\ content' = content
        BY <1>16 DEF DeleteMeta
    <2>2. CASE CType(r) = n
        BY <2>1, <2>2 DEF CType, n
    <2>3. CASE CType(r) # n
        <3>1. at'[n] = at[n]
            BY <1>16, <1>0, <2>3 DEF DeleteMeta, CommitAnyway, Rename, NamesOK
        <3> QED
            BY <2>1, <3>1, <1>a
    <2> QED
        BY <2>2, <2>3
<1>17. CASE Crash
    <2>1. at'[n] = at[n] /\ content'[at[n]] = content[at[n]]
        BY <1>17, <1>0 DEF Crash, Open, diskVars
    <2> QED
        BY <2>1, <1>a
<1>18. CASE UNCHANGED vars
    <2>1. at'[n] = at[n] /\ content'[at[n]] = content[at[n]]
        BY <1>18 DEF vars, diskVars
    <2> QED
        BY <2>1, <1>a
<1> HIDE DEF Goal
<1> QED
    BY <1>1, <1>2, <1>3, <1>4, <1>5, <1>6, <1>7, <1>8, <1>9, <1>10,
       <1>11, <1>12, <1>13, <1>14, <1>15, <1>16, <1>17, <1>18
       DEF Next

\* Which step gives data to an entry.
LEMMA DataNameStep ==
    ASSUME TypeInv, [Next]_vars, NEW e \in Entries
    PROVE  \/ at'[<<e, "data">>] \in {at[<<e, "data">>], None}
           \/ \E w \in Reqs : DataCommit(w) /\ Data(w) = <<e, "data">>
<1> DEFINE n == <<e, "data">>
           Goal == \/ at'[n] \in {at[n], None}
                   \/ \E w \in Reqs : DataCommit(w) /\ Data(w) = n
<1> SUFFICES Goal
    OBVIOUS
<1>0. NamesOK /\ n \in Names /\ \A r \in Reqs : CType(r) # n
    BY DEF TypeInv, Names, Slots, CType
<1> HIDE DEF n
<1> USE <1>0 DEF NamesOK, diskVars
<1>1. ASSUME NEW r \in Reqs, Arrive(r) PROVE Goal
    BY <1>1 DEF Arrive, Goto, Open
<1>2. ASSUME NEW r \in Reqs, Refuse(r) PROVE Goal
    BY <1>2 DEF Refuse, Answer
<1>3. ASSUME NEW r \in Reqs, Fail(r) PROVE Goal
    BY <1>3 DEF Fail, Answer
<1>4. ASSUME NEW r \in Reqs, PutStart(r) PROVE Goal
    BY <1>4 DEF PutStart, Goto
<1>5. ASSUME NEW r \in Reqs, TypeCreate(r) PROVE Goal
    BY <1>5 DEF TypeCreate, CreateTmp, Goto
<1>6. ASSUME NEW r \in Reqs, TypeWrite(r) PROVE Goal
    BY <1>6 DEF TypeWrite, Goto
<1>7. ASSUME NEW r \in Reqs, TypeCommit(r) PROVE Goal
    BY <1>7 DEF TypeCommit, CommitAnyway, Rename, Goto
<1>8. ASSUME NEW r \in Reqs, TypeFails(r) PROVE Goal
    BY <1>8 DEF TypeFails, CommitAnyway, Rename, Answer
<1>9. ASSUME NEW r \in Reqs, DataCreate(r) PROVE Goal
    BY <1>9 DEF DataCreate, CreateTmp, Goto
<1>10. ASSUME NEW r \in Reqs, DataWrite(r) PROVE Goal
    BY <1>10 DEF DataWrite, Goto
<1>11. ASSUME NEW r \in Reqs, DataCommit(r) PROVE Goal
    <2>1. Data(r) # n => at'[n] = at[n]
        BY <1>11 DEF DataCommit, Rename
    <2> QED
        BY <1>11, <2>1
<1>12. ASSUME NEW r \in Reqs, GetOpen(r) PROVE Goal
    BY <1>12 DEF GetOpen, Goto, Answer
<1>13. ASSUME NEW r \in Reqs, GetHeaders(r) PROVE Goal
    BY <1>13 DEF GetHeaders, Goto
<1>14. ASSUME NEW r \in Reqs, GetRead(r) PROVE Goal
    BY <1>14 DEF GetRead, Answer
<1>15. ASSUME NEW r \in Reqs, DeleteData(r) PROVE Goal
    BY <1>15 DEF DeleteData, Goto
<1>16. ASSUME NEW r \in Reqs, DeleteMeta(r) PROVE Goal
    BY <1>16 DEF DeleteMeta, Answer
<1>17. CASE Crash
    BY <1>17 DEF Crash, Open
<1>18. CASE UNCHANGED vars
    BY <1>18 DEF vars
<1> HIDE DEF Goal
<1> QED
    BY <1>1, <1>2, <1>3, <1>4, <1>5, <1>6, <1>7, <1>8, <1>9, <1>10,
       <1>11, <1>12, <1>13, <1>14, <1>15, <1>16, <1>17, <1>18
       DEF Next

LEMMA PutTypeStep ==
    ASSUME WholeInv, BesideOK, HeldOK, PutTypeOK, [Next]_vars, NEW x \in Reqs,
           \A y \in Reqs \ {x} : ~Beside(y, x)'
    PROVE  Leaves(x)'
<1> DEFINE Goal == Leaves(x)'
           Late == {"twrite", "tcommit", "create", "copy", "commit"}
<1> SUFFICES Goal
    OBVIOUS
<1>0. /\ OldInv /\ TypeInv /\ NamesOK /\ pc \in [Reqs -> PcStates]
      /\ content \in [Files -> Pieces] /\ fd \in [Reqs -> Files \cup {None}]
      /\ tmp \in [Names -> Files \cup {None}] /\ at \in [Names -> Files \cup {None}]
      /\ \A r \in Reqs : pc[r] \in Putting => call[r].method = "PUT"
      /\ \A r \in Reqs : pc[r] = "removemeta" => call[r].method = "DELETE"
      /\ \A r \in Reqs : pc[r] # "new" => Data(r) \in Names /\ CType(r) \in Names
    BY DEF WholeInv, OldInv, TypeInv, NamesOK, HandlersOK, ContentOK, Call, Data,
           CType, Names, Slots
<1>a. ASSUME pc[x] \in Late PROVE Leaves(x)
    <2>1. ASSUME NEW y \in Reqs \ {x}, Beside(y, x) PROVE FALSE
        <3>1. beside[x] \subseteq beside'[x]
            BY <1>0, <1>a, StayStep
        <3>2. call'[y] = call[y]
            <4>1. pc[y] # "new"
                BY <2>1 DEF Beside, WholeInv, OldInv, TypeInv, HandlersOK, NoCall
            <4> QED
                BY <1>0, <4>1, CallStep
        <3> QED
            BY <2>1, <3>1, <3>2 DEF Beside
    <2> QED
        BY <2>1 DEF PutTypeOK
<1>b. ASSUME NEW r \in Reqs \ {x}, pc[x] \in Late, Open(r),
             call[r].method \in {"PUT", "DELETE"}
      PROVE  FALSE
    <2>1. r \in beside[x] /\ beside[x] \subseteq beside'[x]
        BY <1>0, <1>b, StayStep DEF BesideOK, Open
    <2>2. call'[r] = call[r]
        BY <1>0, <1>b, CallStep DEF Open
    <2>3. Beside(r, x)'
        BY <1>b, <2>1, <2>2 DEF Beside
    <2> QED
        BY <2>3
<1>c. ASSUME pc'[x] = pc[x], fd'[x] = fd[x], call'[x] = call[x],
             UNCHANGED <<at, tmp, content>> \/ pc[x] \notin Late
      PROVE  Leaves(x)'
    BY <1>a, <1>c DEF Leaves, TypeIs, CType
<1>d. ASSUME pc[x] \in {"create", "copy"}, TypeIs(call[x].entry, x)
      PROVE  TypeIs(call[x].entry, x)' \/ call'[x] # call[x]
    <2>1. call[x].entry \in Entries /\ call'[x] = call[x]
        BY <1>0, <1>d, CallStep DEF TypeInv, HandlersOK, Call
    <2>2. ASSUME NEW y \in Reqs, pc[y] \in {"twrite", "tcommit", "removemeta"} PROVE FALSE
        <3>1. y # x
            BY <1>d, <2>2
        <3>2. Open(y) /\ call[y].method \in {"PUT", "DELETE"}
            BY <1>0, <2>2 DEF Open, Putting
        <3> QED
            BY <1>b, <1>d, <3>1, <3>2
    <2>3. \A e \in Entries : TypeIs(e, x) => TypeIs(e, x)'
        BY <2>2, TypeIsStep
    <2> QED
        BY <1>d, <2>1, <2>3 DEF TypeIs
<1>1. ASSUME NEW r \in Reqs, Arrive(r) PROVE Goal
    <2>1. CASE r # x
        <3>1. pc'[x] = pc[x] /\ fd'[x] = fd[x] /\ call'[x] = call[x]
            BY <1>1, <1>0, <2>1 DEF Arrive, Goto, Open
        <3>2. UNCHANGED <<at, tmp, content>>
            BY <1>1 DEF Arrive, diskVars
        <3> QED
            BY <1>c, <3>1, <3>2
    <2>2. CASE r = x
        <3>1. pc'[x] \notin Late
            BY <1>1, <1>0, <2>2 DEF Arrive, Goto, Open
        <3> QED
            BY <3>1 DEF Leaves
    <2> QED
        BY <2>1, <2>2
<1>2. ASSUME NEW r \in Reqs, Refuse(r) PROVE Goal
    <2>1. CASE r # x
        <3>1. pc'[x] = pc[x] /\ fd'[x] = fd[x] /\ call'[x] = call[x]
            BY <1>2, <1>0, <2>1 DEF Refuse, Answer
        <3>2. UNCHANGED <<at, tmp, content>>
            BY <1>2 DEF Refuse, diskVars
        <3> QED
            BY <1>c, <3>1, <3>2
    <2>2. CASE r = x
        <3>1. pc'[x] \notin Late
            BY <1>2, <1>0, <2>2 DEF Refuse, Answer
        <3> QED
            BY <3>1 DEF Leaves
    <2> QED
        BY <2>1, <2>2
<1>3. ASSUME NEW r \in Reqs, Fail(r) PROVE Goal
    <2>1. CASE r # x
        <3>1. pc'[x] = pc[x] /\ fd'[x] = fd[x] /\ call'[x] = call[x]
            BY <1>3, <1>0, <2>1 DEF Fail, Answer
        <3>2. UNCHANGED <<at, tmp, content>>
            BY <1>3 DEF Fail, diskVars
        <3> QED
            BY <1>c, <3>1, <3>2
    <2>2. CASE r = x
        <3>1. pc'[x] \notin Late
            BY <1>3, <1>0, <2>2 DEF Fail, Answer
        <3> QED
            BY <3>1 DEF Leaves
    <2> QED
        BY <2>1, <2>2
<1>4. ASSUME NEW r \in Reqs, PutStart(r) PROVE Goal
    <2>1. CASE r # x
        <3>1. pc'[x] = pc[x] /\ fd'[x] = fd[x] /\ call'[x] = call[x]
            BY <1>4, <1>0, <2>1 DEF PutStart, Goto
        <3>2. UNCHANGED <<at, tmp, content>>
            BY <1>4 DEF PutStart, diskVars
        <3> QED
            BY <1>c, <3>1, <3>2
    <2>2. CASE r = x
        <3>1. /\ pc'[x] = IF call[x].typed THEN "tcreate" ELSE "create"
              /\ call' = call
            BY <1>4, <1>0, <2>2 DEF PutStart, Goto
        <3> QED
            BY <3>1 DEF Leaves
    <2> QED
        BY <2>1, <2>2
<1>5. ASSUME NEW r \in Reqs, TypeCreate(r) PROVE Goal
    <2>1. CASE r # x
        <3>1. pc'[x] = pc[x] /\ fd'[x] = fd[x] /\ call'[x] = call[x]
            BY <1>5, <1>0, <2>1 DEF TypeCreate, CreateTmp, Goto
        <3>2. pc[x] \notin Late
            BY <1>5, <1>0, <1>b, <2>1 DEF TypeCreate, Open, Putting
        <3> QED
            BY <1>c, <3>1, <3>2
    <2>2. CASE r = x
        <3> DEFINE f == TmpFile(x, CType(x))
        <3>1. f \in Files /\ Made(x, CType(x), f) /\ CType(x) \in Names
            BY <1>5, <1>0, <2>2, TmpFileMade DEF TypeCreate
        <3>2. pc'[x] = "twrite" /\ call' = call
            BY <1>5, <1>0, <2>2 DEF TypeCreate, Goto
        <3> HIDE DEF f
        <3>3. tmp'[CType(x)] = f /\ content'[f] = << >> /\ fd'[x] = f
            BY <1>0, <3>1 DEF Made
        <3> QED
            BY <3>2, <3>3 DEF Leaves, CType
    <2> QED
        BY <2>1, <2>2
<1>6. ASSUME NEW r \in Reqs, TypeWrite(r) PROVE Goal
    <2>1. CASE r # x
        <3>1. pc'[x] = pc[x] /\ fd'[x] = fd[x] /\ call'[x] = call[x]
            BY <1>6, <1>0, <2>1 DEF TypeWrite, Goto
        <3>2. pc[x] \notin Late
            BY <1>6, <1>0, <1>b, <2>1 DEF TypeWrite, Open, Putting
        <3> QED
            BY <1>c, <3>1, <3>2
    <2>2. CASE r = x
        <3>1. /\ pc[x] = "twrite" /\ pc'[x] = "tcommit" /\ tmp' = tmp /\ fd' = fd
              /\ call' = call /\ content' = [content EXCEPT ![fd[x]] = WriteAt(@, 1, x)]
            BY <1>6, <1>0, <2>2 DEF TypeWrite, Goto
        <3>2. tmp[CType(x)] = fd[x] /\ content[fd[x]] = << >> /\ fd[x] \in Files
            BY <1>a, <3>1 DEF Leaves, HeldOK, Of
        <3>3. WriteAt(<< >>, 1, x) = <<x>>
            BY DEF WriteAt
        <3>4. content'[fd[x]] = <<x>>
            BY <1>0, <3>1, <3>2, <3>3
        <3> QED
            BY <3>1, <3>2, <3>4 DEF Leaves, CType
    <2> QED
        BY <2>1, <2>2
<1>7. ASSUME NEW r \in Reqs, TypeCommit(r) PROVE Goal
    <2>1. CASE r # x
        <3>1. pc'[x] = pc[x] /\ fd'[x] = fd[x] /\ call'[x] = call[x]
            BY <1>7, <1>0, <2>1 DEF TypeCommit, CommitAnyway, Rename, Goto
        <3>2. pc[x] \notin Late
            BY <1>7, <1>0, <1>b, <2>1 DEF TypeCommit, Open, Putting
        <3> QED
            BY <1>c, <3>1, <3>2
    <2>2. CASE r = x
        <3>1. /\ pc[x] = "tcommit" /\ pc'[x] = "create" /\ content' = content
              /\ call' = call /\ CommitAnyway(x, CType(x)) /\ CType(x) \in Names
            BY <1>7, <1>0, <2>2 DEF TypeCommit, Goto
        <3>2. tmp[CType(x)] = fd[x] /\ content[fd[x]] = <<x>> /\ fd[x] # None
            BY <1>a, <3>1, NoneAssumption DEF Leaves, HeldOK, Of
        <3>3. at'[CType(x)] = fd[x]
            BY <1>0, <3>1, <3>2 DEF CommitAnyway, Rename
        <3> QED
            BY <3>1, <3>2, <3>3 DEF Leaves, TypeIs, CType
    <2> QED
        BY <2>1, <2>2
<1>8. ASSUME NEW r \in Reqs, TypeFails(r) PROVE Goal
    <2>1. CASE r # x
        <3>1. pc'[x] = pc[x] /\ fd'[x] = fd[x] /\ call'[x] = call[x]
            BY <1>8, <1>0, <2>1 DEF TypeFails, CommitAnyway, Rename, Answer
        <3>2. pc[x] \notin Late
            BY <1>8, <1>0, <1>b, <2>1 DEF TypeFails, Open, Putting
        <3> QED
            BY <1>c, <3>1, <3>2
    <2>2. CASE r = x
        <3>1. pc'[x] \notin Late
            BY <1>8, <1>0, <2>2 DEF TypeFails, CommitAnyway, Rename, Answer
        <3> QED
            BY <3>1 DEF Leaves
    <2> QED
        BY <2>1, <2>2
<1>9. ASSUME NEW r \in Reqs, DataCreate(r) PROVE Goal
    <2>1. CASE r # x
        <3>1. pc'[x] = pc[x] /\ fd'[x] = fd[x] /\ call'[x] = call[x]
            BY <1>9, <1>0, <2>1 DEF DataCreate, CreateTmp, Goto
        <3>2. pc[x] \notin Late
            BY <1>9, <1>0, <1>b, <2>1 DEF DataCreate, Open, Putting
        <3> QED
            BY <1>c, <3>1, <3>2
    <2>2. CASE r = x
        <3>1. pc[x] = "create" /\ pc'[x] = "copy" /\ call' = call
            BY <1>9, <1>0, <2>2 DEF DataCreate, Goto
        <3>2. call[x].typed => TypeIs(call[x].entry, x)
            BY <1>a, <3>1 DEF Leaves
        <3>3. call[x].typed => TypeIs(call[x].entry, x)'
            BY <1>b, <1>d, <3>1, <3>2
        <3> QED
            BY <3>1, <3>3 DEF Leaves, TypeIs
    <2> QED
        BY <2>1, <2>2
<1>10. ASSUME NEW r \in Reqs, DataWrite(r) PROVE Goal
    <2>1. CASE r # x
        <3>1. pc'[x] = pc[x] /\ fd'[x] = fd[x] /\ call'[x] = call[x]
            BY <1>10, <1>0, <2>1 DEF DataWrite, Goto
        <3>2. pc[x] \notin Late
            BY <1>10, <1>0, <1>b, <2>1 DEF DataWrite, Open, Putting
        <3> QED
            BY <1>c, <3>1, <3>2
    <2>2. CASE r = x
        <3>1. pc[x] = "copy" /\ pc'[x] \in {"copy", "commit"} /\ call' = call
            BY <1>10, <1>0, <2>2 DEF DataWrite, Goto
        <3>2. call[x].typed => TypeIs(call[x].entry, x)
            BY <1>a, <3>1 DEF Leaves
        <3>3. call[x].typed => TypeIs(call[x].entry, x)'
            BY <1>b, <1>d, <3>1, <3>2
        <3> QED
            BY <3>1, <3>3 DEF Leaves, TypeIs
    <2> QED
        BY <2>1, <2>2
<1>11. ASSUME NEW r \in Reqs, DataCommit(r) PROVE Goal
    <2>1. CASE r # x
        <3>1. pc'[x] = pc[x] /\ fd'[x] = fd[x] /\ call'[x] = call[x]
            BY <1>11, <1>0, <2>1 DEF DataCommit, Rename, Answer
        <3>2. pc[x] \notin Late
            BY <1>11, <1>0, <1>b, <2>1 DEF DataCommit, Open, Putting
        <3> QED
            BY <1>c, <3>1, <3>2
    <2>2. CASE r = x
        <3>1. pc'[x] \notin Late
            BY <1>11, <1>0, <2>2 DEF DataCommit, Rename, Answer
        <3> QED
            BY <3>1 DEF Leaves
    <2> QED
        BY <2>1, <2>2
<1>12. ASSUME NEW r \in Reqs, GetOpen(r) PROVE Goal
    <2>1. CASE r # x
        <3>1. pc'[x] = pc[x] /\ fd'[x] = fd[x] /\ call'[x] = call[x]
            BY <1>12, <1>0, <2>1 DEF GetOpen, Goto, Answer
        <3>2. UNCHANGED <<at, tmp, content>>
            BY <1>12 DEF GetOpen, diskVars
        <3> QED
            BY <1>c, <3>1, <3>2
    <2>2. CASE r = x
        <3>1. pc'[x] \notin Late
            BY <1>12, <1>0, <2>2 DEF GetOpen, Goto, Answer
        <3> QED
            BY <3>1 DEF Leaves
    <2> QED
        BY <2>1, <2>2
<1>13. ASSUME NEW r \in Reqs, GetHeaders(r) PROVE Goal
    <2>1. CASE r # x
        <3>1. pc'[x] = pc[x] /\ fd'[x] = fd[x] /\ call'[x] = call[x]
            BY <1>13, <1>0, <2>1 DEF GetHeaders, Goto
        <3>2. UNCHANGED <<at, tmp, content>>
            BY <1>13 DEF GetHeaders, diskVars
        <3> QED
            BY <1>c, <3>1, <3>2
    <2>2. CASE r = x
        <3>1. pc'[x] \notin Late
            BY <1>13, <1>0, <2>2 DEF GetHeaders, Goto
        <3> QED
            BY <3>1 DEF Leaves
    <2> QED
        BY <2>1, <2>2
<1>14. ASSUME NEW r \in Reqs, GetRead(r) PROVE Goal
    <2>1. CASE r # x
        <3>1. pc'[x] = pc[x] /\ fd'[x] = fd[x] /\ call'[x] = call[x]
            BY <1>14, <1>0, <2>1 DEF GetRead, Answer
        <3>2. UNCHANGED <<at, tmp, content>>
            BY <1>14 DEF GetRead, diskVars
        <3> QED
            BY <1>c, <3>1, <3>2
    <2>2. CASE r = x
        <3>1. pc'[x] \notin Late
            BY <1>14, <1>0, <2>2 DEF GetRead, Answer
        <3> QED
            BY <3>1 DEF Leaves
    <2> QED
        BY <2>1, <2>2
<1>15. ASSUME NEW r \in Reqs, DeleteData(r) PROVE Goal
    <2>1. CASE r # x
        <3>1. pc'[x] = pc[x] /\ fd'[x] = fd[x] /\ call'[x] = call[x]
            BY <1>15, <1>0, <2>1 DEF DeleteData, Goto
        <3>2. pc[x] \notin Late
            BY <1>15, <1>0, <1>b, <2>1 DEF DeleteData, Open, Putting
        <3> QED
            BY <1>c, <3>1, <3>2
    <2>2. CASE r = x
        <3>1. pc'[x] \notin Late
            BY <1>15, <1>0, <2>2 DEF DeleteData, Goto
        <3> QED
            BY <3>1 DEF Leaves
    <2> QED
        BY <2>1, <2>2
<1>16. ASSUME NEW r \in Reqs, DeleteMeta(r) PROVE Goal
    <2>1. CASE r # x
        <3>1. pc'[x] = pc[x] /\ fd'[x] = fd[x] /\ call'[x] = call[x]
            BY <1>16, <1>0, <2>1 DEF DeleteMeta, Answer
        <3>2. pc[x] \notin Late
            BY <1>16, <1>0, <1>b, <2>1 DEF DeleteMeta, Open, Putting
        <3> QED
            BY <1>c, <3>1, <3>2
    <2>2. CASE r = x
        <3>1. pc'[x] \notin Late
            BY <1>16, <1>0, <2>2 DEF DeleteMeta, Answer
        <3> QED
            BY <3>1 DEF Leaves
    <2> QED
        BY <2>1, <2>2
<1>17. CASE Crash
    <2>1. /\ pc'[x] \in {pc[x], "done"} /\ fd'[x] = fd[x] /\ call'[x] = call[x]
          /\ UNCHANGED <<at, tmp, content>>
        BY <1>17, <1>0 DEF Crash, diskVars
    <2>2. CASE pc'[x] = pc[x]
        BY <1>c, <2>1, <2>2
    <2>3. CASE pc'[x] = "done"
        BY <2>3 DEF Leaves
    <2> QED
        BY <2>1, <2>2, <2>3
<1>18. CASE UNCHANGED vars
    <2>1. /\ pc' = pc /\ fd' = fd /\ call' = call
          /\ UNCHANGED <<at, tmp, content>>
        BY <1>18 DEF vars, diskVars
    <2> QED
        BY <1>c, <2>1
<1> HIDE DEF Goal
<1> QED
    BY <1>1, <1>2, <1>3, <1>4, <1>5, <1>6, <1>7, <1>8, <1>9, <1>10,
       <1>11, <1>12, <1>13, <1>14, <1>15, <1>16, <1>17, <1>18
       DEF Next

LEMMA BodiesDiffer ==
    ASSUME NEW x \in Reqs, NEW y \in Reqs, Body(x) = Body(y)
    PROVE  x = y
<1>1. 1 \in 1 .. Chunks
    BY ChunksAssumption
<1>2. Body(x)[1] = x /\ Body(y)[1] = y
    BY <1>1 DEF Body
<1> QED
    BY <1>2

\* The author of data that gets its final name is the one who commits it.
LEMMA CommitAuthor ==
    ASSUME WholeInv, [Next]_vars, NEW w \in Reqs, DataCommit(w),
           NEW x \in Reqs, Author(fd[w], x)', fd' = fd
    PROVE  x = w
<1>1. /\ pc[w] = "commit" /\ content' = content /\ fd[w] \notin mixed
      /\ content[fd[w]] = Body(x)
    BY WriteStep DEF WholeInv, DataCommit, Author, Body
<1>2. content[fd[w]] = Body(w)
    BY <1>1 DEF WholeInv, WriterOK, PosOK, Writing, Body
<1> QED
    BY <1>1, <1>2, BodiesDiffer

LEMMA AuthorStep ==
    WholeInv /\ HeldOK /\ AuthorOK /\ [Next]_vars => AuthorOK'
<1> SUFFICES ASSUME WholeInv, HeldOK, AuthorOK, [Next]_vars,
                    NEW f \in Files, NEW x \in Reqs,
                    Published(f)', f[2] = "data", Author(f, x)'
             PROVE  pc'[x] = "done" /\ call'[x].method = "PUT"
    BY DEF AuthorOK
<1>0. OldInv /\ TypeInv /\ PosOK /\ WriterOK /\ f \notin mixed'
      /\ content'[f] = Body(x)
    BY DEF WholeInv, OldInv, Author, Body
<1>1. CASE Published(f)
    <2>1. Author(f, x)
        BY <1>0, <1>1, PublishedStays, NoneAssumption DEF Author
    <2>2. pc[x] = "done" /\ call[x].method = "PUT"
        BY <1>1, <2>1 DEF AuthorOK
    <2> QED
        BY <1>0, <2>2, StayStep, CallStep
<1>2. CASE ~Published(f)
    <2>1. PICK w \in Writers(f) : DataCommit(w)
        BY <1>0, <1>2, WriteStep
    <2>2. w \in Reqs /\ fd[w] = f /\ fd' = fd
        BY <2>1 DEF Writers, DataCommit
    <2>3. Author(fd[w], x)'
        BY <2>2 DEF Author, Body
    <2>4. x = w
        BY <2>1, <2>2, <2>3, CommitAuthor
    <2> QED
        BY <1>0, <2>1, <2>2, <2>4
           DEF DataCommit, Answer, TypeInv, HandlersOK, Putting
<1> QED
    BY <1>1, <1>2

LEMMA MeddledStep ==
    ASSUME WholeInv, HeldOK, [Next]_vars, NEW e \in Entries, NEW x \in Reqs,
           pc[x] = "done", Meddled(e, x),
           \A w \in Reqs : ~(DataCommit(w) /\ Data(w) = <<e, "data">>)
    PROVE  Meddled(e, x)'
<1>0. TypeInv
    BY DEF WholeInv, OldInv
<1>1. PICK y \in Reqs \ {x} :
         Beside(y, x) \/ Failed(y) \/ (pc[y] \in Putting /\ call[y].entry = e)
    BY DEF Meddled
<1>2. pc[y] # "new" /\ call'[y] = call[y]
    <2>1. pc[y] # "new"
        BY <1>0, <1>1 DEF Beside, Failed, Putting, TypeInv, HandlersOK, NoCall
    <2> QED
        BY <1>0, <2>1, CallStep
<1>3. CASE Beside(y, x)
    <2>1. Beside(y, x)'
        BY <1>0, <1>2, <1>3, StayStep DEF Beside
    <2> QED
        BY <2>1 DEF Meddled
<1>4. CASE Failed(y)
    BY <1>0, <1>4, StayStep DEF Meddled
<1>5. CASE pc[y] \in Putting /\ call[y].entry = e
    <2>1. ~DataCommit(y)
        BY <1>5 DEF Data
    <2>2. pc'[y] \in Putting \/ Failed(y)'
        BY <1>0, <1>5, <2>1, StayStep
    <2> QED
        BY <1>2, <1>5, <2>2 DEF Meddled
<1> QED
    BY <1>1, <1>3, <1>4, <1>5

LEMMA EntryTypeStep ==
    ASSUME WholeInv, BesideOK, HeldOK, AuthorOK, PutTypeOK, EntryTypeOK,
           PutTypeOK', [Next]_vars,
           NEW e \in Entries, NEW x \in Reqs, Author(at[<<e, "data">>], x)'
    PROVE  /\ call'[x].typed => TypeIs(e, x)' \/ Meddled(e, x)'
           /\ \A y \in Reqs : pc'[y] = "removemeta" /\ call'[y].entry = e
                 => y \in beside'[x]
<1> DEFINE n == <<e, "data">>
<1>0. /\ OldInv /\ TypeInv /\ PosOK /\ WriterOK /\ NamesOK /\ n \in Names
      /\ at'[n] \notin mixed' /\ at'[n] # None /\ content'[at'[n]] = Body(x)
    BY DEF WholeInv, OldInv, TypeInv, Author, Body, Names, Slots
<1>1. ASSUME NEW y \in Reqs, pc'[y] = "removemeta", call'[y].entry = e
      PROVE  pc[y] = "removemeta" /\ call[y].entry = e
    <2>1. ~DeleteData(y)
        <3> SUFFICES ASSUME DeleteData(y) PROVE FALSE
            OBVIOUS
        <3>1. call' = call /\ at' = [at EXCEPT ![Data(y)] = None]
            BY DEF DeleteData
        <3>2. Data(y) = n
            BY <1>1, <3>1 DEF Data
        <3> QED
            BY <1>0, <3>1, <3>2 DEF NamesOK
    <2>2. pc[y] = "removemeta"
        BY <1>0, <1>1, <2>1, WhoStep
    <2> QED
        BY <1>0, <1>1, <2>2, CallStep
<1>2. CASE at'[n] = at[n]
    <2>1. at[n] \in Files /\ Published(at[n])
        BY <1>0, <1>2 DEF NamesOK, Published
    <2>2. Author(at[n], x)
        BY <1>0, <1>2, <2>1, PublishedStays DEF Author
    <2>3. at[n][2] = "data"
        BY <1>0, <2>1, NoneAssumption DEF OldInv, HomeOK, Behind
    <2>4. pc[x] = "done" /\ call[x].method = "PUT"
        BY <2>1, <2>2, <2>3 DEF AuthorOK
    <2>5. call'[x] = call[x] /\ beside[x] \subseteq beside'[x]
        BY <1>0, <2>4, CallStep, StayStep
    <2>6. ASSUME NEW w \in Reqs, DataCommit(w), Data(w) = n PROVE FALSE
        <3>1. tmp[n] # None /\ at' = [at EXCEPT ![n] = tmp[n]]
            BY <2>6 DEF DataCommit, Rename
        <3> QED
            BY <1>0, <1>2, <3>1 DEF NamesOK, OldInv, TmpOK
    <2>7. \A y \in Reqs : pc[y] = "removemeta" /\ call[y].entry = e => y \in beside[x]
        BY <2>2 DEF EntryTypeOK
    <2>8. ASSUME call[x].typed PROVE TypeIs(e, x)' \/ Meddled(e, x)'
        <3>1. CASE Meddled(e, x)
            BY <2>4, <2>6, <3>1, MeddledStep
        <3>2. CASE TypeIs(e, x)
            <4>1. ASSUME NEW y \in Reqs, call[y].entry = e,
                         pc[y] \in {"twrite", "tcommit", "removemeta"}
                  PROVE  Meddled(e, x)
                <5>1. y # x
                    BY <2>4, <4>1
                <5>2. CASE pc[y] \in {"twrite", "tcommit"}
                    BY <4>1, <5>1, <5>2 DEF Meddled, Putting
                <5>3. CASE pc[y] = "removemeta"
                    <6>1. y \in beside[x] /\ call[y].method = "DELETE"
                        BY <1>0, <2>7, <4>1, <5>3 DEF TypeInv, HandlersOK
                    <6> QED
                        BY <5>1, <6>1 DEF Meddled, Beside
                <5> QED
                    BY <4>1, <5>2, <5>3
            <4> QED
                BY <3>2, <4>1, TypeIsStep, <2>4, <2>6, MeddledStep
        <3> QED
            BY <2>2, <2>8, <3>1, <3>2 DEF EntryTypeOK
    <2> QED
        BY <1>1, <2>5, <2>7, <2>8
<1>3. CASE at'[n] # at[n]
    <2>1. PICK w \in Reqs : DataCommit(w) /\ Data(w) = n
        BY <1>0, <1>3, DataNameStep
    <2>2. /\ pc[w] = "commit" /\ Rename(w, n) /\ content' = content /\ fd' = fd
          /\ call' = call /\ at' = [at EXCEPT ![n] = tmp[n]] /\ beside' = beside
        BY <2>1 DEF DataCommit, Rename
    <2>3. at'[n] = tmp[n] /\ tmp[n] = fd[w]
        BY <1>0, <2>2 DEF Rename, NamesOK
    <2>4. x = w
        <3>1. fd'[w] = at'[n]
            BY <2>2, <2>3
        <3>2. Author(fd[w], x)'
            BY <1>0, <3>1 DEF Author, Body
        <3> QED
            BY <2>1, <2>2, <3>2, CommitAuthor
    <2>5. ASSUME call[x].typed PROVE TypeIs(e, x)' \/ Meddled(e, x)'
        <3>1. call[x].entry = e
            BY <2>1, <2>4 DEF Data
        <3>2. CASE TypeIs(e, x)
            <4>1. <<e, "ctype">> # n
                OBVIOUS
            <4>2. at'[<<e, "ctype">>] = at[<<e, "ctype">>]
                BY <1>0, <2>2, <4>1 DEF NamesOK
            <4> QED
                BY <2>2, <3>2, <4>2 DEF TypeIs
        <3>3. ASSUME NEW y \in Reqs \ {x}, Beside(y, x) PROVE Meddled(e, x)'
            BY <2>2, <3>3 DEF Beside, Meddled
        <3> QED
            BY <2>2, <2>4, <2>5, <3>1, <3>2, <3>3 DEF PutTypeOK, Leaves
    <2>6. ASSUME NEW y \in Reqs, pc[y] = "removemeta" PROVE y \in beside'[x]
        BY <2>2, <2>4, <2>6 DEF BesideOK, Open
    <2> QED
        BY <1>1, <2>2, <2>5, <2>6
<1> QED
    BY <1>2, <1>3

LEMMA ForGoodStep ==
    ASSUME TypeInv, [Next]_vars, NEW r \in Reqs, NEW x \in Reqs,
           pc[r] # "new", pc[x] # "new", DisturbedForGood(r, x)
    PROVE  DisturbedForGood(r, x)'
<1>1. PICK y \in Reqs \ {r, x} : y \in beside[r] \cup beside[x] \/ Failed(y)
    BY DEF DisturbedForGood
<1>2. y \in beside'[r] \cup beside'[x] \/ Failed(y)'
    BY <1>1, StayStep
<1> QED
    BY <1>2 DEF DisturbedForGood

LEMMA ReadStep ==
    ASSUME WholeInv, BesideOK, HeldOK, AuthorOK, EntryTypeOK, ReadOK, [Next]_vars,
           NEW r \in Reqs, NEW x \in Reqs, Reader(r)', Author(fd[r], x)'
    PROVE  /\ got'[r] = [k \in 1 .. pos'[r] |-> x]
           /\ status'[r] = 200 => pos'[r] = Chunks
           /\ call'[x].typed =>
                 \/ DisturbedForGood(r, x)'
                 \/ IF pc'[r] = "headers" THEN TypeIs(call[r].entry, x)'
                                          ELSE sent'[r] = <<x>>
<1>0. /\ OldInv /\ TypeInv /\ PosOK /\ WriterOK /\ NamesOK
      /\ pc \in [Reqs -> PcStates] /\ fd \in [Reqs -> Files \cup {None}]
      /\ got \in [Reqs -> Pieces] /\ pos \in [Reqs -> 0 .. Chunks]
      /\ sent \in [Reqs -> Pieces \cup {None}]
      /\ \A q \in Reqs : pc[q] # "done" => status[q] = 0
      /\ status \in [Reqs -> {0, 200, 201, 204, 401, 404, 405}]
    BY DEF WholeInv, OldInv, TypeInv, HandlersOK, ContentOK, RestOK
<1>1. fd'[r] \notin mixed' \cup {None} /\ content'[fd'[r]] = Body(x)
    BY DEF Author, Body
<1>2. CASE GetOpen(r) /\ pc'[r] = "headers"
    <2> DEFINE e == call[r].entry
               n == <<e, "data">>
    <2>1. /\ pc[r] = "start" /\ call[r].method = "GET" /\ fd'[r] = at[n]
          /\ UNCHANGED <<at, content, mixed, pos, got, status, call, beside>>
          /\ \A q \in Reqs \ {r} : pc'[q] = pc[q]
        BY <1>0, <1>2 DEF GetOpen, Answer, Goto, Data, diskVars
    <2>2. e \in Entries
        BY <1>0, <2>1 DEF TypeInv, HandlersOK, Call
    <2>3. Author(at[n], x)
        BY <1>1, <2>1 DEF Author
    <2>4. pos[r] = 0 /\ got[r] = << >> /\ status[r] = 0
        BY <1>0, <2>1 DEF PosOK, HeldOK
    <2>5. got'[r] = [k \in 1 .. pos'[r] |-> x]
        BY <2>1, <2>4
    <2>6. ASSUME call[x].typed PROVE DisturbedForGood(r, x)' \/ TypeIs(e, x)
        <3>1. CASE TypeIs(e, x)
            BY <3>1
        <3>2. ASSUME NEW y \in Reqs \ {x}, Beside(y, x) PROVE DisturbedForGood(r, x)'
            <4>1. y # r
                BY <2>1, <3>2 DEF Beside
            <4> QED
                BY <2>1, <3>2, <4>1 DEF Beside, DisturbedForGood
        <3>3. ASSUME NEW y \in Reqs \ {x}, Failed(y) PROVE DisturbedForGood(r, x)'
            <4>1. y # r
                BY <2>1, <3>3 DEF Failed
            <4>2. Failed(y)'
                BY <2>1, <3>3, <4>1 DEF Failed
            <4> QED
                BY <4>1, <4>2 DEF DisturbedForGood
        <3>4. ASSUME NEW y \in Reqs \ {x}, pc[y] \in Putting PROVE DisturbedForGood(r, x)'
            <4>1. y # r /\ y \in beside[r]
                BY <2>1, <3>4 DEF BesideOK, Open, Putting
            <4> QED
                BY <2>1, <4>1 DEF DisturbedForGood
        <3> QED
            BY <2>2, <2>3, <2>6, <3>1, <3>2, <3>3, <3>4 DEF EntryTypeOK, Meddled
    <2>7. TypeIs(e, x) => TypeIs(call[r].entry, x)'
        BY <2>1 DEF TypeIs
    <2> QED
        BY <1>2, <2>1, <2>4, <2>5, <2>6, <2>7
<1>3. ASSUME Reader(r), fd'[r] = fd[r]
      PROVE  /\ Author(fd[r], x) /\ fd[r] \in Files /\ content[fd[r]] = Body(x)
             /\ pc[r] # "new" /\ call'[r] = call[r]
             /\ pc[x] = "done" /\ call'[x] = call[x]
             /\ DisturbedForGood(r, x) => DisturbedForGood(r, x)'
    <2>1. fd[r] \in Files /\ fd[r][2] = "data" /\ Published(fd[r])
        BY <1>3 DEF HeldOK, Of
    <2>2. Author(fd[r], x) /\ content[fd[r]] = Body(x)
        BY <1>0, <1>1, <1>3, <2>1, PublishedStays DEF Author
    <2>3. pc[x] = "done"
        BY <2>1, <2>2 DEF AuthorOK
    <2>4. pc[r] # "new"
        BY <1>0, <1>3 DEF Reader, Getting
    <2> QED
        BY <1>0, <2>1, <2>2, <2>3, <2>4, CallStep, ForGoodStep
<1>4. CASE Reader(r) /\ fd'[r] = fd[r] /\ GetHeaders(r)
    <2>1. /\ pc[r] = "headers" /\ pc'[r] = "read"
          /\ UNCHANGED <<pos, got, status>>
          /\ at[CType(r)] # None => sent'[r] = content[at[CType(r)]]
        BY <1>0, <1>4 DEF GetHeaders, Goto
    <2>2. TypeIs(call[r].entry, x) => sent'[r] = <<x>>
        BY <2>1 DEF TypeIs, CType
    <2> QED
        BY <1>0, <1>3, <1>4, <2>1, <2>2 DEF ReadOK, ReadRight
<1>5. CASE Reader(r) /\ fd'[r] = fd[r] /\ GetRead(r)
    <2>1. /\ pc[r] = "read" /\ sent' = sent /\ status[r] = 0
        BY <1>0, <1>5 DEF GetRead
    <2>2. /\ got[r] = [k \in 1 .. pos[r] |-> x] /\ Len(content[fd[r]]) = Chunks
          /\ content[fd[r]] = [k \in 1 .. Chunks |-> x]
        <3>1. got[r] = [k \in 1 .. pos[r] |-> x]
            BY <1>3, <1>5 DEF ReadOK, ReadRight
        <3>2. content[fd[r]] = [k \in 1 .. Chunks |-> x]
            BY <1>3, <1>5, Zenon DEF Body
        <3>3. Len([k \in 1 .. Chunks |-> x]) = Chunks
            BY ChunksAssumption
        <3>4. Len(content[fd[r]]) = Chunks
            BY <3>2, <3>3, Zenon
        <3> QED
            BY <3>1, <3>2, <3>4
    <2>3. CASE pos[r] < Chunks
        <3>1. /\ pos'[r] = pos[r] + 1 /\ pc'[r] = "read" /\ status'[r] = 0
              /\ got'[r] = Append(got[r], content[fd[r]][pos[r] + 1])
            BY <1>0, <1>5, <2>1, <2>2, <2>3 DEF GetRead
        <3>2. content[fd[r]][pos[r] + 1] = x /\ pos[r] \in Nat
            BY <1>0, <2>2, <2>3, ChunksAssumption
        <3>3. got'[r] = [k \in 1 .. pos[r] + 1 |-> x]
            <4>1. \A m \in Nat : Append([k \in 1 .. m |-> x], x) = [k \in 1 .. m + 1 |-> x]
                OBVIOUS
            <4>2. got'[r] = Append([k \in 1 .. pos[r] |-> x], x)
                BY <2>2, <3>1, <3>2, Zenon
            <4> QED
                BY <3>2, <4>1, <4>2, Zenon
        <3>4. call[x].typed => DisturbedForGood(r, x) \/ sent[r] = <<x>>
            BY <1>3, <1>5, <2>1 DEF ReadOK, ReadRight
        <3>5. got'[r] = [k \in 1 .. pos'[r] |-> x]
            BY <3>1, <3>3, Zenon
        <3>6. (call[x].typed)' => DisturbedForGood(r, x)' \/ sent'[r] = <<x>>
            BY <1>3, <1>5, <2>1, <3>4
        <3>7. status'[r] # 200 /\ pc'[r] # "headers"
            BY <3>1
        <3> QED
            BY <3>5, <3>6, <3>7
    <2>4. CASE ~(pos[r] < Chunks)
        <3>1. /\ pos' = pos /\ got' = got /\ pc'[r] = "done" /\ pos[r] = Chunks
            BY <1>0, <1>5, <2>2, <2>4, ChunksAssumption DEF GetRead, Answer
        <3> QED
            BY <1>3, <1>5, <2>1, <2>2, <3>1 DEF ReadOK, ReadRight
    <2> QED
        BY <2>3, <2>4
<1>6. CASE /\ Reader(r) /\ fd'[r] = fd[r] /\ pc'[r] = pc[r] /\ status'[r] = status[r]
           /\ got'[r] = got[r] /\ pos'[r] = pos[r] /\ sent'[r] = sent[r]
    <2>1. /\ got[r] = [k \in 1 .. pos[r] |-> x]
          /\ status[r] = 200 => pos[r] = Chunks
          /\ call[x].typed =>
                \/ DisturbedForGood(r, x)
                \/ IF pc[r] = "headers" THEN TypeIs(call[r].entry, x)
                                        ELSE sent[r] = <<x>>
        BY <1>3, <1>6 DEF ReadOK, ReadRight
    <2>2. ASSUME pc[r] = "headers", TypeIs(call[r].entry, x)
          PROVE  TypeIs(call[r].entry, x)' \/ DisturbedForGood(r, x)'
        <3>1. call[r].entry \in Entries
            BY <1>0, <2>2 DEF TypeInv, HandlersOK, Call
        <3>2. ASSUME NEW y \in Reqs, pc[y] \in {"twrite", "tcommit", "removemeta"}
              PROVE  DisturbedForGood(r, x)
            <4>1. y # r /\ y # x /\ y \in beside[r]
                BY <1>3, <1>6, <2>2, <3>2 DEF BesideOK, Open
            <4> QED
                BY <4>1 DEF DisturbedForGood
        <3>3. TypeIs(call[r].entry, x)' \/ DisturbedForGood(r, x)
            <4>1. \A e \in Entries : TypeIs(e, x) => TypeIs(e, x)' \/ DisturbedForGood(r, x)
                BY <3>2, TypeIsStep
            <4>2. call'[r].entry = call[r].entry
                BY <1>3, <1>6
            <4> QED
                BY <2>2, <3>1, <4>1, <4>2 DEF TypeIs
        <3> QED
            BY <1>3, <1>6, <3>3
    <2> QED
        BY <1>3, <1>6, <2>1, <2>2
<1> QED
    BY <1>0, <1>2, <1>4, <1>5, <1>6, HoldStep

\* What a GET sends is the whole body of one PUT, with the Content-Type of the
\* same PUT unless another handler was served beside either of them or a PUT
\* failed, although names and Content-Type change between the pieces
\* (server.go:56-145, filesystem.go:114-178).
THEOREM GetIsWhole == Spec => []GetWhole
<1>1. Init => GetInv
    <2> SUFFICES ASSUME Init PROVE GetInv
        OBVIOUS
    <2>1. WholeInv
        <3>1. WriterOK /\ PosOK
            BY DEF Init, WriterOK, PosOK, Writing
        <3>2. WholeOK
            BY NoneAssumption DEF Init, WholeOK, Published, Files
        <3> QED
            BY OldInit, <3>1, <3>2 DEF WholeInv
    <2>2. \A r \in Reqs : pc[r] = "new" /\ status[r] = 0 /\ ~Reader(r)
        BY DEF Init, Reader, Getting
    <2>3. BesideOK /\ HeldOK /\ PutTypeOK /\ ReadOK
        BY <2>2 DEF Init, BesideOK, Open, HeldOK, PutTypeOK, Leaves, ReadOK, ReadRight
    <2>4. \A f \in Files : ~Published(f)
        BY NoneAssumption DEF Init, Published, Files
    <2>5. AuthorOK
        BY <2>4 DEF AuthorOK
    <2>6. EntryTypeOK
        <3>1. \A e \in Entries : at[<<e, "data">>] = None
            BY DEF Init, Names, Slots
        <3> QED
            BY <3>1 DEF EntryTypeOK, Author
    <2> QED
        BY <2>1, <2>3, <2>5, <2>6 DEF GetInv
<1>2. GetInv /\ [Next]_vars => GetInv'
    <2> SUFFICES ASSUME GetInv, [Next]_vars PROVE GetInv'
        OBVIOUS
    <2>0. /\ WholeInv /\ BesideOK /\ HeldOK /\ AuthorOK
          /\ PutTypeOK /\ EntryTypeOK /\ ReadOK /\ OldInv /\ TypeInv
        BY DEF GetInv, WholeInv, OldInv
    <2>1. WholeInv'
        BY <2>0, OldInvStep, PosStep, WriterStep, WholeStep DEF WholeInv
    <2>2. BesideOK' /\ HeldOK' /\ AuthorOK'
        BY <2>0, BesideStep, HeldStep, AuthorStep
    <2>3. PutTypeOK'
        BY <2>0, PutTypeStep DEF PutTypeOK
    <2>4. EntryTypeOK'
        BY <2>0, <2>3, EntryTypeStep DEF EntryTypeOK
    <2>5. ReadOK'
        BY <2>0, ReadStep DEF ReadOK, ReadRight
    <2> QED
        BY <2>1, <2>2, <2>3, <2>4, <2>5 DEF GetInv
<1>3. GetInv => GetWhole
    <2> SUFFICES ASSUME GetInv, NEW r \in Reqs, call[r].method = "GET",
                        status[r] = 200, fd[r] \notin mixed
                 PROVE  \E x \in Reqs :
                           /\ got[r] = Body(x)
                           /\ call[x].typed => sent[r] = <<x>> \/ Disturbed(r, x)
        BY DEF GetWhole
    <2>1. fd[r] \in Files /\ fd[r][2] = "data" /\ Published(fd[r]) /\ Reader(r)
        BY DEF Reader, GetInv, HeldOK, Of
    <2>2. PICK x \in Reqs : content[fd[r]] = Body(x)
        BY <2>1 DEF GetInv, WholeInv, WholeOK
    <2>3. Author(fd[r], x)
        BY <2>1, <2>2, NoneAssumption DEF Author
    <2>4. pc[r] # "headers"
        BY DEF GetInv, WholeInv, OldInv, TypeInv, RestOK
    <2>5. /\ got[r] = Body(x)
          /\ call[x].typed => DisturbedForGood(r, x) \/ sent[r] = <<x>>
        <3>1. /\ got[r] = [k \in 1 .. pos[r] |-> x]
              /\ status[r] = 200 => pos[r] = Chunks
              /\ call[x].typed => DisturbedForGood(r, x) \/ sent[r] = <<x>>
            <4>1. ReadOK
                BY DEF GetInv
            <4>2. /\ got[r] = [k \in 1 .. pos[r] |-> x]
                  /\ status[r] = 200 => pos[r] = Chunks
                  /\ call[x].typed =>
                        \/ DisturbedForGood(r, x)
                        \/ IF pc[r] = "headers" THEN TypeIs(call[r].entry, x)
                                                ELSE sent[r] = <<x>>
                <5>1. ReadRight(r, x)
                    BY <4>1, <2>1, <2>3, Zenon DEF ReadOK
                <5> QED
                    BY <5>1, Zenon DEF ReadRight
            <4> HIDE DEF GetInv
            <4>3. call[x].typed => DisturbedForGood(r, x) \/ sent[r] = <<x>>
                BY <4>2, <2>4
            <4> QED
                BY <4>2, <4>3
        <3>2. got[r] = [k \in 1 .. Chunks |-> x]
            BY <3>1, Zenon
        <3> QED
            BY <3>1, <3>2, Zenon DEF Body
    <2>6. DisturbedForGood(r, x) => Disturbed(r, x)
        BY DEF DisturbedForGood, Disturbed, Failed
    <2> QED
        BY <2>5, <2>6
<1> QED
    BY <1>1, <1>2, <1>3, PTL DEF Spec

=============================================================================
