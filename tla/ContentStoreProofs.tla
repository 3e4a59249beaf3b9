------------------------- MODULE ContentStoreProofs -------------------------
(***************************************************************************)
(* Proofs about ContentStore, for every value of its constants, and that   *)
(* it implements PageStore.                                                *)
(***************************************************************************)
EXTENDS ContentStore, TLAPS

(***************************************************************************)
(* The local variables of a handler and of the goroutine it leaves behind: *)
(* what a reader of the code takes for granted at each of its lines.       *)
(***************************************************************************)
BeforeUpdate == {"new", "auth", "start", "open", "body", "rename", "files",
                 "member"}

Fresh(r) ==
    pc[r] = "new" => /\ bg[r] = "none" /\ refq[r] = FALSE
                     /\ req[r] = NoCall /\ status[r] = 0

Locals(r) ==
    /\ pc[r] \in BeforeUpdate => wire[r] = "none"
    /\ pc[r] = "body" => req[r].method \in {"PUT", "POST"}
    /\ pc[r] = "rename" => req[r].method = "PUT"
    /\ pc[r] \in {"files", "member"} => req[r].method = "POST"
    /\ pc[r] = "open" => req[r].method = "GET"
    /\ pc[r] \in {"open", "member"} => seen[r] \in Hashes
    /\ pc[r] = "await" /\ req[r].method = "DELETE" => seen[r] \in Hashes
    /\ refq[r] => req[r].referer # Malformed

\* A collector works for a DELETE that was acknowledged.
Collecting(r) ==
    bg[r] \in {"count", "remove"} =>
        /\ pc[r] = "done" /\ req[r].method = "DELETE" /\ status[r] = 204
        /\ seen[r] \in Hashes

LocalsOK == \A r \in Reqs : Fresh(r) /\ Locals(r) /\ Collecting(r)

TypeInv == TypeOK /\ LocalsOK

-----------------------------------------------------------------------------
(* Requests and their Updates have the types they should have. *)

LEMMA OfferedCall ==
    ASSUME NEW r \in Reqs, NEW q \in Offers[r]
    PROVE  q \in Call /\ WellFormed(q)
BY OffersAssumption

LEMMA UpdateTyped ==
    ASSUME NEW Q \in SUBSET Quad, NEW q \in Call, WellFormed(q)
    PROVE  /\ InsertedQuads(q) \subseteq Quad
           /\ AfterUpdate(Q, q) \subseteq Quad
BY DEF InsertedQuads, AfterUpdate, Quad, Call, WellFormed, Bundle

LEMMA TypeInit == Init => TypeInv
BY CrashAssumption DEF Init, TypeInv, TypeOK, LocalsOK, Fresh, Locals,
   Collecting, BeforeUpdate, PcStates, Statuses, NoCall

LEMMA TypeStep == TypeInv /\ [Next]_vars => TypeInv'
<1> SUFFICES ASSUME TypeInv, [Next]_vars PROVE TypeInv'
    OBVIOUS
<1> USE DEF TypeInv, TypeOK, LocalsOK, Fresh, Locals, Collecting
<1> USE DEF BeforeUpdate, PcStates, Statuses, Goto, Answer
<1> USE DEF graphVars, diskVars, histVars
<1>1. ASSUME NEW r \in Reqs, Arrive(r) PROVE TypeInv'
    <2>1. PICK q \in Offers[r] : /\ req' = [req EXCEPT ![r] = q]
                                 /\ window' = [window EXCEPT ![r] =
                                                  {Page(quads, q.url)}]
        BY <1>1 DEF Arrive
    <2>2. q \in Call /\ WellFormed(q)
        BY OfferedCall
    <2>3. {Page(quads, q.url)} \in SUBSET SUBSET Hashes
        BY DEF Page
    <2>4. TypeOK'
        BY <1>1, <2>1, <2>2, <2>3 DEF Arrive
    <2>5. LocalsOK'
        BY <1>1, <2>1, <2>2 DEF Arrive
    <2> QED
        BY <2>4, <2>5
<1>2. ASSUME NEW r \in Reqs, Admit(r) PROVE TypeInv'
    BY <1>2 DEF Admit
<1>3. ASSUME NEW r \in Reqs, Refuse(r) PROVE TypeInv'
    BY <1>3 DEF Refuse
<1>4. ASSUME NEW r \in Reqs, GiveUp(r) PROVE TypeInv'
    BY <1>4 DEF GiveUp
<1>5. ASSUME NEW r \in Reqs, RecordReferer(r) PROVE TypeInv'
    <2>1. req[r] \in Call
        BY <1>5, OfferedCall DEF RecordReferer
    <2>2. refs' \subseteq Urls \X Urls
        BY <1>5, <2>1 DEF RecordReferer, Call
    <2> QED
        BY <1>5, <2>2 DEF RecordReferer
<1>6. ASSUME NEW r \in Reqs, GetSelect(r) PROVE TypeInv'
    <2>1. CASE Answer(r, 404) /\ UNCHANGED seen
        BY <1>6, <2>1 DEF GetSelect
    <2>2. ASSUME NEW h \in Page(quads, req[r].url),
                 seen' = [seen EXCEPT ![r] = h],
                 pc' = [pc EXCEPT ![r] = "open"],
                 UNCHANGED status
          PROVE  TypeInv'
        <3>1. h \in Hashes
            BY DEF Page
        <3> QED
            BY <1>6, <2>2, <3>1 DEF GetSelect
    <2> QED
        BY <1>6, <2>1, <2>2, ZenonT(30) DEF GetSelect
<1>7. ASSUME NEW r \in Reqs, GetOpen(r) PROVE TypeInv'
    BY <1>7 DEF GetOpen
<1>8. ASSUME NEW r \in Reqs, CreateTemp(r) PROVE TypeInv'
    BY <1>8 DEF CreateTemp
<1>9. ASSUME NEW r \in Reqs, ReceiveBody(r) PROVE TypeInv'
    <2>1. req[r].bundle.files \in SUBSET Hashes
        BY <1>9, OfferedCall DEF ReceiveBody, Call, Bundle
    <2>2. Wanted(req[r]) \in SUBSET Hashes
        BY DEF Wanted
    <2>3. TypeOK'
        BY <1>9, <2>1, <2>2 DEF ReceiveBody
    <2>4. LocalsOK'
        BY <1>9 DEF ReceiveBody
    <2> QED
        BY <2>3, <2>4
<1>10. ASSUME NEW r \in Reqs, RejectBody(r) PROVE TypeInv'
    BY <1>10 DEF RejectBody
<1>11. ASSUME NEW r \in Reqs, PutRename(r) PROVE TypeInv'
    <2>1. req[r].hash \in Hashes
        BY <1>11, OfferedCall DEF PutRename, WellFormed
    <2>2. TypeOK'
        BY <1>11, <2>1 DEF PutRename
    <2>3. LocalsOK'
        BY <1>11 DEF PutRename
    <2> QED
        BY <2>2, <2>3
<1>12. ASSUME NEW r \in Reqs, RenameFails(r) PROVE TypeInv'
    BY <1>12 DEF RenameFails
<1>13. ASSUME NEW r \in Reqs, RemoveTemp(r) PROVE TypeInv'
    BY <1>13 DEF RemoveTemp
<1>14. ASSUME NEW r \in Reqs, MemberTemp(r) PROVE TypeInv'
    BY <1>14 DEF MemberTemp
<1>15. ASSUME NEW r \in Reqs, MemberRename(r) PROVE TypeInv'
    BY <1>15 DEF MemberRename
<1>16. ASSUME NEW r \in Reqs, SendBundle(r) PROVE TypeInv'
    BY <1>16 DEF SendBundle
<1>17. ASSUME NEW r \in Reqs, DeleteLookup(r) PROVE TypeInv'
    <2>1. CASE Answer(r, 404) /\ UNCHANGED <<seen, wire>>
        BY <1>17, <2>1 DEF DeleteLookup
    <2>2. ASSUME NEW h \in About(req[r].url),
                 seen' = [seen EXCEPT ![r] = h],
                 wire' = [wire EXCEPT ![r] = "sent"],
                 pc' = [pc EXCEPT ![r] = "await"],
                 UNCHANGED status
          PROVE  TypeInv'
        <3>1. h \in Hashes
            BY DEF About
        <3> QED
            BY <1>17, <2>2, <3>1 DEF DeleteLookup
    <2> QED
        BY <1>17, <2>1, <2>2, ZenonT(30) DEF DeleteLookup
<1>18. ASSUME NEW r \in Reqs, StoreApplies(r) PROVE TypeInv'
    <2>1. quads' \subseteq Quad
        BY <1>18, OfferedCall, UpdateTyped DEF StoreApplies
    <2>2. window' \in [Reqs -> SUBSET SUBSET Hashes]
        BY <1>18 DEF StoreApplies, Page
    <2>3. TypeOK'
        BY <1>18, <2>1, <2>2 DEF StoreApplies
    <2>4. LocalsOK'
        BY <1>18 DEF StoreApplies
    <2> QED
        BY <2>3, <2>4
<1>19. ASSUME NEW r \in Reqs, UpdateSucceeds(r) PROVE TypeInv'
    BY <1>19 DEF UpdateSucceeds
<1>20. ASSUME NEW r \in Reqs, UpdateFails(r) PROVE TypeInv'
    BY <1>20 DEF UpdateFails
<1>21. ASSUME NEW r \in Reqs, GcCount(r) PROVE TypeInv'
    BY <1>21 DEF GcCount
<1>22. ASSUME NEW r \in Reqs, GcRemove(r) PROVE TypeInv'
    BY <1>22 DEF GcRemove
<1>23. CASE Crash
    <2>1. crashes' \in 0 .. MaxCrashes
        BY <1>23, CrashAssumption DEF Crash
    <2>2. /\ pc' = [r \in Reqs |-> IF Open(r) THEN "done" ELSE pc[r]]
          /\ bg' = [r \in Reqs |-> "none"]
        BY <1>23 DEF Crash
    <2>3. PICK sent \in SUBSET Reqs :
             refq' = [r \in Reqs |-> refq[r] /\ r \in sent]
        BY <1>23 DEF Crash
    <2>4. UNCHANGED <<quads, refs, blobs, temps, req, seen, todo, wire, status,
                      window, collected, raced>>
        BY <1>23 DEF Crash
    <2>5. \A r \in Reqs : /\ refq'[r] \in BOOLEAN
                          /\ refq'[r] => refq[r]
        BY <2>3, Zenon
    <2>6. refq' \in [Reqs -> BOOLEAN]
        BY <2>3
    <2>7. \A r \in Reqs :
             /\ bg'[r] = "none"
             /\ pc'[r] = "done" \/ (pc'[r] = "new" /\ pc[r] = "new")
        <3> TAKE r \in Reqs
        <3>1. CASE Open(r)
            BY <2>2, <3>1
        <3>2. CASE ~Open(r)
            BY <2>2, <3>2 DEF Open
        <3> QED
            BY <3>1, <3>2
    <2>8. TypeOK'
        <3>1. /\ pc' \in [Reqs -> PcStates]
              /\ bg' \in [Reqs -> {"none", "count", "remove", "rmtemp"}]
            BY <2>2
        <3>2. \A r \in Reqs : pc'[r] # "new" => pc[r] # "new"
            BY <2>2, Zenon DEF Open
        <3> QED
            BY <2>1, <2>4, <2>6, <3>1, <3>2
    <2>9. LocalsOK'
        BY <2>2, <2>4, <2>5, <2>6, <2>7
    <2> QED
        BY <2>8, <2>9
<1>24. ASSUME NEW r \in Reqs, GcCountFails(r) PROVE TypeInv'
    BY <1>24, <1>23 DEF GcCountFails
<1>25. CASE UNCHANGED vars
    BY <1>25 DEF vars
<1> QED
    BY <1>1, <1>2, <1>3, <1>4, <1>5, <1>6, <1>7, <1>8, <1>9, <1>10, <1>11, <1>12, <1>13, <1>14, <1>15, <1>16, <1>17, <1>18, <1>19, <1>20, <1>21, <1>22, <1>23, <1>24, <1>25, ZenonT(30) DEF Next, HandlerStep, BodyStep, CollectorStep

\* Every variable keeps its type, and every handler finds in its local
\* variables what its next line takes for granted.
THEOREM TypeCorrect == Spec => []TypeOK
<1>1. TypeInv => TypeOK
    BY DEF TypeInv
<1> QED
    BY TypeInit, TypeStep, <1>1, PTL DEF Spec

-----------------------------------------------------------------------------
(***************************************************************************)
(* DanglingOnlyByRace is inductive once the types are known: Installed     *)
(* counts what the handlers have promised but not written yet.             *)
(***************************************************************************)

\* A step that brings no hash into use without its file keeps it.
LEMMA BackedLater ==
    ASSUME DanglingOnlyByRace,
           \A h \in Hashes : Referenced(h)' => InUse(h),
           \A r \in Reqs, h \in Hashes :
               h \in Installed(r)' =>
                   \/ h \in Installed(r)
                   \/ h \in blobs' \cup Unbacked',
           blobs \subseteq blobs',
           raced \subseteq raced' \cup blobs',
           Unbacked \subseteq Unbacked'
    PROVE  DanglingOnlyByRace'
BY DEF DanglingOnlyByRace, InUse

LEMMA ReferencedInUse ==
    ASSUME quads' = quads, NEW h \in Hashes, Referenced(h)'
    PROVE  InUse(h)
BY DEF Referenced, InUse

LEMMA BackedStep == TypeInv /\ DanglingOnlyByRace /\ [Next]_vars
                        => DanglingOnlyByRace'
<1> SUFFICES ASSUME TypeInv, DanglingOnlyByRace, [Next]_vars
             PROVE  DanglingOnlyByRace'
    OBVIOUS
<1> USE DEF TypeInv, LocalsOK, Fresh, Locals, BeforeUpdate
<1> USE DEF graphVars, diskVars, histVars
<1>0. pc \in [Reqs -> PcStates] /\ wire \in [Reqs -> {"none", "sent", "applied", "lost"}]
    BY DEF TypeOK
<1>q. ASSUME UNCHANGED <<quads, blobs, raced, req>>,
             \A r \in Reqs : Installed(r)' \subseteq Installed(r)
      PROVE  DanglingOnlyByRace'
    BY <1>q, BackedLater, ReferencedInUse DEF Unbacked
<1>1. ASSUME NEW r \in Reqs, Arrive(r) PROVE DanglingOnlyByRace'
    <2>1. \A x \in Reqs : Installed(x)' \subseteq Installed(x)
        BY <1>1, <1>0 DEF Arrive, Goto, Installed
    <2>2. Unbacked \subseteq Unbacked'
        BY <1>1 DEF Arrive, Goto, Unbacked, Missing, NoCall
    <2> QED
        BY <1>1, <2>1, <2>2, BackedLater, ReferencedInUse DEF Arrive
<1>2. ASSUME NEW r \in Reqs, Admit(r) PROVE DanglingOnlyByRace'
    BY <1>2, <1>0, <1>q DEF Admit, Goto, Answer, Installed
<1>3. ASSUME NEW r \in Reqs, Refuse(r) PROVE DanglingOnlyByRace'
    BY <1>3, <1>0, <1>q DEF Refuse, Goto, Answer, Installed
<1>4. ASSUME NEW r \in Reqs, GiveUp(r) PROVE DanglingOnlyByRace'
    BY <1>4, <1>0, <1>q DEF GiveUp, Goto, Answer, Installed
<1>5. ASSUME NEW r \in Reqs, RecordReferer(r) PROVE DanglingOnlyByRace'
    BY <1>5, <1>0, <1>q DEF RecordReferer, Goto, Answer, Installed
<1>6. ASSUME NEW r \in Reqs, GetSelect(r) PROVE DanglingOnlyByRace'
    BY <1>6, <1>0, <1>q DEF GetSelect, Goto, Answer, Installed
<1>7. ASSUME NEW r \in Reqs, GetOpen(r) PROVE DanglingOnlyByRace'
    BY <1>7, <1>0, <1>q DEF GetOpen, Goto, Answer, Installed
<1>8. ASSUME NEW r \in Reqs, CreateTemp(r) PROVE DanglingOnlyByRace'
    BY <1>8, <1>0, <1>q DEF CreateTemp, Goto, Answer, Installed
<1>9. ASSUME NEW r \in Reqs, ReceiveBody(r) PROVE DanglingOnlyByRace'
    <2>1. Unbacked' = Unbacked
        BY <1>9 DEF ReceiveBody, Unbacked
    <2>2. \A x \in Reqs \ {r} : Installed(x)' = Installed(x)
        BY <1>9, <1>0 DEF ReceiveBody, Goto, Installed
    <2>3. Installed(r)' \subseteq Unbacked
        BY <1>9, <1>0 DEF ReceiveBody, Goto, Installed, Unbacked, Missing, TypeOK
    <2> QED
        BY <1>9, <2>1, <2>2, <2>3, BackedLater, ReferencedInUse DEF ReceiveBody
<1>10. ASSUME NEW r \in Reqs, RejectBody(r) PROVE DanglingOnlyByRace'
    BY <1>10, <1>0, <1>q DEF RejectBody, Goto, Answer, Installed
<1>11. ASSUME NEW r \in Reqs, PutRename(r) PROVE DanglingOnlyByRace'
    <2>1. Unbacked' = Unbacked
        BY <1>11 DEF PutRename, Unbacked
    <2>2. \A x \in Reqs \ {r} : Installed(x)' = Installed(x)
        BY <1>11, <1>0 DEF PutRename, Goto, Installed
    <2>3. Installed(r)' \subseteq blobs'
        BY <1>11, <1>0 DEF PutRename, Goto, Installed, Wanted, InsertedQuads
    <2> QED
        BY <1>11, <2>1, <2>2, <2>3, BackedLater, ReferencedInUse DEF PutRename
<1>12. ASSUME NEW r \in Reqs, RenameFails(r) PROVE DanglingOnlyByRace'
    BY <1>12, <1>0, <1>q DEF RenameFails, Goto, Answer, Installed
<1>13. ASSUME NEW r \in Reqs, RemoveTemp(r) PROVE DanglingOnlyByRace'
    BY <1>13, <1>0, <1>q DEF RemoveTemp, Goto, Answer, Installed
<1>14. ASSUME NEW r \in Reqs, MemberTemp(r) PROVE DanglingOnlyByRace'
    BY <1>14, <1>0, <1>q DEF MemberTemp, Goto, Answer, Installed
<1>15. ASSUME NEW r \in Reqs, MemberRename(r) PROVE DanglingOnlyByRace'
    <2>1. Unbacked' = Unbacked
        BY <1>15 DEF MemberRename, Unbacked
    <2>2. \A x \in Reqs \ {r} : Installed(x)' = Installed(x)
        BY <1>15, <1>0 DEF MemberRename, Goto, Installed
    <2>3. Installed(r)' \subseteq Installed(r) \cup blobs'
        BY <1>15, <1>0 DEF MemberRename, Goto, Installed, TypeOK
    <2> QED
        BY <1>15, <2>1, <2>2, <2>3, BackedLater, ReferencedInUse DEF MemberRename
<1>16. ASSUME NEW r \in Reqs, SendBundle(r) PROVE DanglingOnlyByRace'
    BY <1>16, <1>0, <1>q DEF SendBundle, Goto, Answer, Installed
<1>17. ASSUME NEW r \in Reqs, DeleteLookup(r) PROVE DanglingOnlyByRace'
    <2>1. \A x \in Reqs \ {r} : Installed(x)' = Installed(x)
        BY <1>17, <1>0 DEF DeleteLookup, Answer, Installed
    <2>2. Installed(r)' = {}
        BY <1>17, <1>0 DEF DeleteLookup, Answer, Installed, Wanted, InsertedQuads
    <2> QED
        BY <1>17, <2>1, <2>2, <1>q DEF DeleteLookup
<1>18. ASSUME NEW r \in Reqs, StoreApplies(r) PROVE DanglingOnlyByRace'
    <2>1. Unbacked' = Unbacked
        BY <1>18 DEF StoreApplies, Unbacked
    <2>2. \A x \in Reqs : Installed(x)' \subseteq Installed(x)
        BY <1>18, <1>0 DEF StoreApplies, Installed
    <2>3. \A h \in Hashes : Referenced(h)' => Referenced(h) \/ h \in Wanted(req[r])
        BY <1>18 DEF StoreApplies, Referenced, AfterUpdate, Wanted
    <2>4. Wanted(req[r]) = Installed(r)
        BY <1>18 DEF StoreApplies, Installed
    <2>5. \A h \in Hashes : Referenced(h)' => InUse(h)
        BY <2>3, <2>4 DEF InUse
    <2> QED
        BY <1>18, <2>1, <2>2, <2>5, BackedLater DEF StoreApplies
<1>19. ASSUME NEW r \in Reqs, UpdateSucceeds(r) PROVE DanglingOnlyByRace'
    BY <1>19, <1>0, <1>q DEF UpdateSucceeds, Goto, Answer, Installed
<1>20. ASSUME NEW r \in Reqs, UpdateFails(r) PROVE DanglingOnlyByRace'
    BY <1>20, <1>0, <1>q DEF UpdateFails, Goto, Answer, Installed
<1>21. ASSUME NEW r \in Reqs, GcCount(r) PROVE DanglingOnlyByRace'
    BY <1>21, <1>0, <1>q DEF GcCount, Goto, Answer, Installed
<1>22. ASSUME NEW r \in Reqs, GcRemove(r) PROVE DanglingOnlyByRace'
    <2>1. Unbacked' = Unbacked
        BY <1>22 DEF GcRemove, Unbacked
    <2>2. \A h \in Hashes : InUse(h)' => InUse(h)
        BY <1>22 DEF GcRemove, InUse, Referenced, Installed
    <2> QED
        BY <1>22, <2>1, <2>2 DEF GcRemove, DanglingOnlyByRace
<1>23. CASE Crash
    <2>1. \A x \in Reqs : Installed(x)' \subseteq Installed(x)
        BY <1>23, <1>0 DEF Crash, Open, Installed
    <2> QED
        BY <1>23, <2>1, <1>q DEF Crash
<1>24. ASSUME NEW r \in Reqs, GcCountFails(r) PROVE DanglingOnlyByRace'
    BY <1>24, <1>23 DEF GcCountFails
<1>25. CASE UNCHANGED vars
    BY <1>25, <1>q DEF vars, Installed
<1> QED
    BY <1>1, <1>2, <1>3, <1>4, <1>5, <1>6, <1>7, <1>8, <1>9, <1>10, <1>11, <1>12, <1>13, <1>14, <1>15, <1>16, <1>17, <1>18, <1>19, <1>20, <1>21, <1>22, <1>23, <1>24, <1>25 DEF Next, HandlerStep, BodyStep, CollectorStep

\* What the RDF store refers to has its file, unless a collector removed the
\* file while it was in use or a bundle never held it.
THEOREM FilesBehindPages == Spec => []DanglingOnlyByRace
<1>1. Init => DanglingOnlyByRace
    BY DEF Init, DanglingOnlyByRace, InUse, Referenced, Installed
<1> QED
    BY TypeInit, TypeStep, BackedStep, <1>1, PTL DEF Spec

-----------------------------------------------------------------------------
(* Nothing is collected before somebody sends a DELETE. *)

LossNeedsDelete == collected = {} \/ \E r \in Reqs : req[r].method = "DELETE"

LEMMA LossStep ==
    ASSUME TypeInv, LossNeedsDelete, [Next]_vars
    PROVE  LossNeedsDelete'
<1>1. req \in [Reqs -> Call \cup {NoCall}]
    BY DEF TypeInv, TypeOK
<1>2. CASE UNCHANGED <<req, collected>>
    BY <1>2 DEF LossNeedsDelete
<1>3. ASSUME NEW r \in Reqs, Arrive(r) PROVE LossNeedsDelete'
    <2>1. req[r].method # "DELETE"
        BY <1>3 DEF Arrive, Goto, TypeInv, LocalsOK, Fresh, NoCall
    <2>2. collected' = collected /\ \A x \in Reqs \ {r} : req'[x] = req[x]
        BY <1>1, <1>3 DEF Arrive
    <2> QED
        BY <2>1, <2>2 DEF LossNeedsDelete
<1>4. ASSUME NEW r \in Reqs, GcRemove(r) PROVE LossNeedsDelete'
    BY <1>4 DEF GcRemove, LossNeedsDelete, TypeInv, LocalsOK, Collecting
<1>5. \/ UNCHANGED <<req, collected>>
      \/ \E r \in Reqs : Arrive(r) \/ GcRemove(r)
    BY DEF Next, HandlerStep, BodyStep, CollectorStep, vars, histVars,
       Admit, Refuse, GiveUp, RecordReferer, GetSelect, GetOpen,
       CreateTemp, ReceiveBody, RejectBody, PutRename, RenameFails,
       RemoveTemp, MemberTemp, MemberRename, SendBundle, DeleteLookup,
       StoreApplies, UpdateSucceeds, UpdateFails, GcCount, GcCountFails, Crash
<1> QED
    BY <1>2, <1>3, <1>4, <1>5

\* Until a DELETE is sent, every page has its data, through crashes, failed
\* and late Updates.
THEOREM NothingLostBeforeDelete == Spec => []SafeUntilDelete
<1> DEFINE Inv == TypeInv /\ DanglingOnlyByRace /\ LossNeedsDelete
<1>1. Init => Inv
    BY TypeInit DEF Init, DanglingOnlyByRace, InUse, Referenced, Installed,
       LossNeedsDelete
<1>2. Inv /\ [Next]_vars => Inv'
    BY TypeStep, BackedStep, LossStep
<1>3. Inv => SafeUntilDelete
    BY DEF TypeInv, TypeOK, DanglingOnlyByRace, LossNeedsDelete,
       SafeUntilDelete, InUse, Referenced, Quad
<1> QED
    BY <1>1, <1>2, <1>3, PTL DEF Spec

-----------------------------------------------------------------------------
(***************************************************************************)
(* Bundles made by swbundle describe each page in its own graph and once   *)
(* (bundle/writer.go, InsertFile); from one that does not, a page may get  *)
(* two contents, or be deleted by a request that never saw it.             *)
(***************************************************************************)
Orderly(q) ==
    \A d, e \in q.bundle.quads : d[1] = d[2] /\ (d[1] = e[1] => d = e)

OrderlyBundles == \A r \in Reqs : \A q \in Offers[r] : Orderly(q)

OwnSubject == \A e \in quads : e[1] = e[2]

LEMMA OrderlyUpdates ==
    ASSUME NEW q \in Call, WellFormed(q), Orderly(q)
    PROVE  /\ \A e \in InsertedQuads(q) : e[1] = e[2] /\ e[1] \in DroppedGraphs(q)
           /\ \A d, e \in InsertedQuads(q) : d[1] = e[1] => d = e
BY DEF WellFormed, Orderly, InsertedQuads, DroppedGraphs, Call

LEMMA OrderlyStep ==
    ASSUME OrderlyBundles, TypeInv, OneHash, OwnSubject, [Next]_vars
    PROVE  OneHash' /\ OwnSubject'
<1>1. CASE quads' = quads
    BY <1>1 DEF OneHash, OwnSubject
<1>2. ASSUME NEW r \in Reqs, StoreApplies(r) PROVE OneHash' /\ OwnSubject'
    <2>1. req[r] \in Offers[r]
        BY <1>2 DEF StoreApplies, TypeInv, TypeOK, LocalsOK, Locals, BeforeUpdate
    <2>2. /\ \A e \in InsertedQuads(req[r]) :
                e[1] = e[2] /\ e[1] \in DroppedGraphs(req[r])
          /\ \A d, e \in InsertedQuads(req[r]) : d[1] = e[1] => d = e
        BY <2>1, OfferedCall, OrderlyUpdates DEF OrderlyBundles
    <2> QED
        BY <1>2, <2>2 DEF StoreApplies, AfterUpdate, OneHash, OwnSubject
<1>3. quads' = quads \/ \E r \in Reqs : StoreApplies(r)
    BY DEF Next, HandlerStep, BodyStep, CollectorStep, vars, graphVars,
       Arrive, Admit, Refuse, GiveUp, RecordReferer, GetSelect, GetOpen,
       CreateTemp, ReceiveBody, RejectBody, PutRename, RenameFails,
       RemoveTemp, MemberTemp, MemberRename, SendBundle, DeleteLookup,
       UpdateSucceeds, UpdateFails, GcCount, GcRemove, GcCountFails, Crash
<1> QED
    BY <1>1, <1>2, <1>3

\* A page never has two contents, if no single bundle gives it two.
THEOREM OneContentPerPage == OrderlyBundles => (Spec => []OneHash)
<1> SUFFICES ASSUME OrderlyBundles PROVE Spec => []OneHash
    OBVIOUS
<1> DEFINE Inv == TypeInv /\ OneHash /\ OwnSubject
<1>1. Init => Inv
    BY TypeInit DEF Init, OneHash, OwnSubject
<1>2. Inv /\ [Next]_vars => Inv'
    BY TypeStep, OrderlyStep
<1>3. Inv => OneHash
    OBVIOUS
<1> QED
    BY <1>1, <1>2, <1>3, PTL DEF Spec

-----------------------------------------------------------------------------
(***************************************************************************)
(* ContentStore implements PageStore: what each request has witnessed, the *)
(* answers that follow from it, and the step simulation.                   *)
(***************************************************************************)

(***************************************************************************)
(* What a request has witnessed: the link between the local variables of a *)
(* handler, the two stores and the history of its page.                    *)
(***************************************************************************)
Witnessed(r) ==
    /\ Open(r) => Page(quads, req[r].url) \in window[r] /\ status[r] = 0
    /\ \A p \in window[r] : p \subseteq blobs \cup collected \cup Unbacked
    /\ pc[r] = "open" => \E p \in window[r] : seen[r] \in p
    /\ wire[r] # "none" => req[r].method \in {"PUT", "POST", "DELETE"}
    /\ wire[r] # "none" /\ req[r].method = "DELETE" =>
           \E p \in window[r] : seen[r] \in p
    /\ wire[r] = "sent" => status[r] \in {0, 500}
    /\ bg[r] \in {"count", "remove"} => wire[r] = "applied"
    /\ Open(r) /\ wire[r] = "applied" =>
           \A u \in DroppedGraphs(req[r]) :
              u = req[r].url => Page(InsertedQuads(req[r]), u) \in window[r]

WitnessInv == \A r \in Reqs : Witnessed(r)

\* A step that leaves a request, the pages and the files alone.
LEMMA WitnessFrame ==
    ASSUME NEW x \in Reqs, Witnessed(x), quads' = quads,
           blobs \subseteq blobs' \cup collected', collected \subseteq collected',
           Unbacked \subseteq Unbacked',
           pc'[x] = pc[x], req'[x] = req[x], seen'[x] = seen[x],
           wire'[x] = wire[x], status'[x] = status[x], bg'[x] = bg[x],
           window'[x] = window[x]
    PROVE  Witnessed(x)'
BY DEF Witnessed, Open

\* What a page holds has its file, or had it until a collector came.
LEMMA PageBacked ==
    ASSUME TypeInv, DanglingOnlyByRace, NEW u \in Urls
    PROVE  Page(quads, u) \subseteq blobs \cup collected \cup Unbacked
BY DEF TypeInv, TypeOK, DanglingOnlyByRace, InUse, Referenced, Page

LEMMA WitnessStep ==
    ASSUME OrderlyBundles, TypeInv, DanglingOnlyByRace, OwnSubject,
           WitnessInv, [Next]_vars
    PROVE  WitnessInv'
<1> USE DEF TypeInv, LocalsOK, Fresh, Locals, Collecting, BeforeUpdate
<1> USE DEF graphVars, diskVars, histVars, Goto, Answer
<1>t. /\ pc \in [Reqs -> PcStates]
      /\ req \in [Reqs -> Call \cup {NoCall}]
      /\ seen \in [Reqs -> Hashes \cup {None}]
      /\ wire \in [Reqs -> {"none", "sent", "applied", "lost"}]
      /\ status \in [Reqs -> Statuses]
      /\ bg \in [Reqs -> {"none", "count", "remove", "rmtemp"}]
      /\ window \in [Reqs -> SUBSET SUBSET Hashes]
    BY DEF TypeOK
<1>w. \A x \in Reqs : Witnessed(x)
    BY DEF WitnessInv
<1>u. \A r \in Reqs : pc[r] # "new" => req[r] \in Offers[r] /\ req[r].url \in Urls
    BY OfferedCall DEF TypeOK, Call
<1>1. ASSUME NEW r \in Reqs, Arrive(r) PROVE WitnessInv'
    <2>1. PICK q \in Offers[r] : /\ req' = [req EXCEPT ![r] = q]
                                 /\ window' = [window EXCEPT ![r] =
                                                  {Page(quads, q.url)}]
        BY <1>1 DEF Arrive
    <2>2. q \in Call
        BY OfferedCall
    <2>3. Unbacked \subseteq Unbacked'
        BY <1>1 DEF Arrive, Unbacked, Missing, NoCall
    <2>4. Page(quads, q.url) \subseteq blobs' \cup collected' \cup Unbacked'
        BY <1>1, <2>2, <2>3, PageBacked DEF Arrive, Call
    <2>5. status[r] = 0
        BY <1>1 DEF Arrive
    <2>6. Witnessed(r)'
        BY <1>1, <1>t, <2>1, <2>4, <2>5 DEF Arrive, Witnessed, Open
    <2> QED
        BY <1>1, <1>t, <1>w, <2>1, <2>3, <2>6, WitnessFrame DEF Arrive, WitnessInv
<1>2. ASSUME NEW r \in Reqs, Admit(r) PROVE WitnessInv'
    <2>1. Unbacked' = Unbacked
        BY <1>2 DEF Admit, Unbacked
    <2>2. \A x \in Reqs \ {r} : Witnessed(x)'
        BY <1>2, <1>t, <1>w, <2>1, WitnessFrame DEF Admit
    <2>3. Witnessed(r)'
        BY <1>2, <1>t, <1>w, <2>1 DEF Admit, Witnessed, Open
    <2> QED
        BY <2>2, <2>3 DEF WitnessInv
<1>3. ASSUME NEW r \in Reqs, Refuse(r) PROVE WitnessInv'
    <2>1. Unbacked' = Unbacked
        BY <1>3 DEF Refuse, Unbacked
    <2>2. \A x \in Reqs \ {r} : Witnessed(x)'
        BY <1>3, <1>t, <1>w, <2>1, WitnessFrame DEF Refuse
    <2>3. Witnessed(r)'
        BY <1>3, <1>t, <1>w, <2>1 DEF Refuse, Witnessed, Open
    <2> QED
        BY <2>2, <2>3 DEF WitnessInv
<1>4. ASSUME NEW r \in Reqs, GiveUp(r) PROVE WitnessInv'
    <2>1. Unbacked' = Unbacked
        BY <1>4 DEF GiveUp, Unbacked
    <2>2. \A x \in Reqs \ {r} : Witnessed(x)'
        BY <1>4, <1>t, <1>w, <2>1, WitnessFrame DEF GiveUp
    <2>3. Witnessed(r)'
        BY <1>4, <1>t, <1>w, <2>1 DEF GiveUp, Witnessed, Open
    <2> QED
        BY <2>2, <2>3 DEF WitnessInv
<1>5. ASSUME NEW r \in Reqs, RecordReferer(r) PROVE WitnessInv'
    <2>1. Unbacked' = Unbacked
        BY <1>5 DEF RecordReferer, Unbacked
    <2>2. \A x \in Reqs \ {r} : Witnessed(x)'
        BY <1>5, <1>t, <1>w, <2>1, WitnessFrame DEF RecordReferer
    <2>3. Witnessed(r)'
        BY <1>5, <1>t, <1>w, <2>1 DEF RecordReferer, Witnessed, Open
    <2> QED
        BY <2>2, <2>3 DEF WitnessInv
<1>6. ASSUME NEW r \in Reqs, GetSelect(r) PROVE WitnessInv'
    <2>1. Unbacked' = Unbacked
        BY <1>6 DEF GetSelect, Unbacked
    <2>2. \A x \in Reqs \ {r} : Witnessed(x)'
        BY <1>6, <1>t, <1>w, <2>1, WitnessFrame DEF GetSelect
    <2>3. Page(quads, req[r].url) \in window[r]
        BY <1>6, <1>w DEF GetSelect, Witnessed, Open
    <2>4. Witnessed(r)'
        BY <1>6, <1>t, <1>w, <2>1, <2>3 DEF GetSelect, Witnessed, Open
    <2> QED
        BY <2>2, <2>4 DEF WitnessInv
<1>7. ASSUME NEW r \in Reqs, GetOpen(r) PROVE WitnessInv'
    <2>1. Unbacked' = Unbacked
        BY <1>7 DEF GetOpen, Unbacked
    <2>2. \A x \in Reqs \ {r} : Witnessed(x)'
        BY <1>7, <1>t, <1>w, <2>1, WitnessFrame DEF GetOpen
    <2>3. Witnessed(r)'
        BY <1>7, <1>t, <1>w, <2>1 DEF GetOpen, Witnessed, Open
    <2> QED
        BY <2>2, <2>3 DEF WitnessInv
<1>8. ASSUME NEW r \in Reqs, CreateTemp(r) PROVE WitnessInv'
    <2>1. Unbacked' = Unbacked
        BY <1>8 DEF CreateTemp, Unbacked
    <2>2. \A x \in Reqs \ {r} : Witnessed(x)'
        BY <1>8, <1>t, <1>w, <2>1, WitnessFrame DEF CreateTemp
    <2>3. Witnessed(r)'
        BY <1>8, <1>t, <1>w, <2>1 DEF CreateTemp, Witnessed, Open
    <2> QED
        BY <2>2, <2>3 DEF WitnessInv
<1>9. ASSUME NEW r \in Reqs, ReceiveBody(r) PROVE WitnessInv'
    <2>1. Unbacked' = Unbacked
        BY <1>9 DEF ReceiveBody, Unbacked
    <2>2. \A x \in Reqs \ {r} : Witnessed(x)'
        BY <1>9, <1>t, <1>w, <2>1, WitnessFrame DEF ReceiveBody
    <2>3. Witnessed(r)'
        BY <1>9, <1>t, <1>w, <2>1 DEF ReceiveBody, Witnessed, Open
    <2> QED
        BY <2>2, <2>3 DEF WitnessInv
<1>10. ASSUME NEW r \in Reqs, RejectBody(r) PROVE WitnessInv'
    <2>1. Unbacked' = Unbacked
        BY <1>10 DEF RejectBody, Unbacked
    <2>2. \A x \in Reqs \ {r} : Witnessed(x)'
        BY <1>10, <1>t, <1>w, <2>1, WitnessFrame DEF RejectBody
    <2>3. Witnessed(r)'
        BY <1>10, <1>t, <1>w, <2>1 DEF RejectBody, Witnessed, Open
    <2> QED
        BY <2>2, <2>3 DEF WitnessInv
<1>11. ASSUME NEW r \in Reqs, PutRename(r) PROVE WitnessInv'
    <2>1. Unbacked' = Unbacked
        BY <1>11 DEF PutRename, Unbacked
    <2>2. \A x \in Reqs \ {r} : Witnessed(x)'
        BY <1>11, <1>t, <1>w, <2>1, WitnessFrame DEF PutRename
    <2>3. Witnessed(r)'
        BY <1>11, <1>t, <1>w, <2>1 DEF PutRename, Witnessed, Open
    <2> QED
        BY <2>2, <2>3 DEF WitnessInv
<1>12. ASSUME NEW r \in Reqs, RenameFails(r) PROVE WitnessInv'
    <2>1. Unbacked' = Unbacked
        BY <1>12 DEF RenameFails, Unbacked
    <2>2. \A x \in Reqs \ {r} : Witnessed(x)'
        BY <1>12, <1>t, <1>w, <2>1, WitnessFrame DEF RenameFails
    <2>3. Witnessed(r)'
        BY <1>12, <1>t, <1>w, <2>1 DEF RenameFails, Witnessed, Open
    <2> QED
        BY <2>2, <2>3 DEF WitnessInv
<1>13. ASSUME NEW r \in Reqs, RemoveTemp(r) PROVE WitnessInv'
    <2>1. Unbacked' = Unbacked
        BY <1>13 DEF RemoveTemp, Unbacked
    <2>2. \A x \in Reqs \ {r} : Witnessed(x)'
        BY <1>13, <1>t, <1>w, <2>1, WitnessFrame DEF RemoveTemp
    <2>3. Witnessed(r)'
        BY <1>13, <1>t, <1>w, <2>1 DEF RemoveTemp, Witnessed, Open
    <2> QED
        BY <2>2, <2>3 DEF WitnessInv
<1>14. ASSUME NEW r \in Reqs, MemberTemp(r) PROVE WitnessInv'
    <2>1. Unbacked' = Unbacked
        BY <1>14 DEF MemberTemp, Unbacked
    <2>2. \A x \in Reqs \ {r} : Witnessed(x)'
        BY <1>14, <1>t, <1>w, <2>1, WitnessFrame DEF MemberTemp
    <2>3. Witnessed(r)'
        BY <1>14, <1>t, <1>w, <2>1 DEF MemberTemp, Witnessed, Open
    <2> QED
        BY <2>2, <2>3 DEF WitnessInv
<1>15. ASSUME NEW r \in Reqs, MemberRename(r) PROVE WitnessInv'
    <2>1. Unbacked' = Unbacked
        BY <1>15 DEF MemberRename, Unbacked
    <2>2. \A x \in Reqs \ {r} : Witnessed(x)'
        BY <1>15, <1>t, <1>w, <2>1, WitnessFrame DEF MemberRename
    <2>3. Witnessed(r)'
        BY <1>15, <1>t, <1>w, <2>1 DEF MemberRename, Witnessed, Open
    <2> QED
        BY <2>2, <2>3 DEF WitnessInv
<1>16. ASSUME NEW r \in Reqs, SendBundle(r) PROVE WitnessInv'
    <2>1. Unbacked' = Unbacked
        BY <1>16 DEF SendBundle, Unbacked
    <2>2. \A x \in Reqs \ {r} : Witnessed(x)'
        BY <1>16, <1>t, <1>w, <2>1, WitnessFrame DEF SendBundle
    <2>3. Witnessed(r)'
        BY <1>16, <1>t, <1>w, <2>1 DEF SendBundle, Witnessed, Open
    <2> QED
        BY <2>2, <2>3 DEF WitnessInv
<1>17. ASSUME NEW r \in Reqs, DeleteLookup(r) PROVE WitnessInv'
    <2>1. Unbacked' = Unbacked
        BY <1>17 DEF DeleteLookup, Unbacked
    <2>2. \A x \in Reqs \ {r} : Witnessed(x)'
        BY <1>17, <1>t, <1>w, <2>1, WitnessFrame DEF DeleteLookup
    <2>3. About(req[r].url) \subseteq Page(quads, req[r].url)
        BY DEF About, Page, OwnSubject
    <2>4. Page(quads, req[r].url) \in window[r] /\ status[r] = 0
        BY <1>17, <1>w DEF DeleteLookup, Witnessed, Open
    <2>5. Witnessed(r)'
        BY <1>17, <1>t, <1>w, <2>1, <2>3, <2>4 DEF DeleteLookup, Witnessed, Open
    <2> QED
        BY <2>2, <2>5 DEF WitnessInv
<1>18. ASSUME NEW r \in Reqs, StoreApplies(r) PROVE WitnessInv'
    <2>1. Unbacked' = Unbacked
        BY <1>18 DEF StoreApplies, Unbacked
    <2>2. TypeInv' /\ DanglingOnlyByRace'
        BY TypeStep, BackedStep
    <2>3. \A x \in Reqs : Open(x) =>
             /\ Page(quads', req[x].url) \in window'[x]
             /\ window'[x] = window[x] \cup {Page(quads', req[x].url)}
        BY <1>18, <1>t DEF StoreApplies
    <2>4. \A x \in Reqs : Open(x) =>
             Page(quads', req[x].url) \subseteq blobs' \cup collected' \cup Unbacked'
        BY <1>18, <1>u, <2>2 DEF StoreApplies, Open, TypeOK, DanglingOnlyByRace, InUse, Referenced, Page
    <2>5. \A u \in DroppedGraphs(req[r]) : Page(quads', u) = Page(InsertedQuads(req[r]), u)
        BY <1>18 DEF StoreApplies, AfterUpdate, Page
    <2>6. \A x \in Reqs : window[x] \subseteq window'[x] /\ (~Open(x) => window'[x] = window[x])
        BY <1>18, <1>t DEF StoreApplies
    <2>7. \A x \in Reqs \ {r} : Witnessed(x)'
        BY <1>18, <1>t, <1>w, <2>1, <2>3, <2>4, <2>6 DEF StoreApplies, Witnessed, Open
    <2>8. Witnessed(r)'
        BY <1>18, <1>t, <1>w, <2>1, <2>3, <2>4, <2>5, <2>6 DEF StoreApplies, Witnessed, Open
    <2> QED
        BY <2>7, <2>8 DEF WitnessInv
<1>19. ASSUME NEW r \in Reqs, UpdateSucceeds(r) PROVE WitnessInv'
    <2>1. Unbacked' = Unbacked
        BY <1>19 DEF UpdateSucceeds, Unbacked
    <2>2. \A x \in Reqs \ {r} : Witnessed(x)'
        BY <1>19, <1>t, <1>w, <2>1, WitnessFrame DEF UpdateSucceeds
    <2>3. Witnessed(r)'
        BY <1>19, <1>t, <1>w, <2>1 DEF UpdateSucceeds, Witnessed, Open
    <2> QED
        BY <2>2, <2>3 DEF WitnessInv
<1>20. ASSUME NEW r \in Reqs, UpdateFails(r) PROVE WitnessInv'
    <2>1. Unbacked' = Unbacked
        BY <1>20 DEF UpdateFails, Unbacked
    <2>2. \A x \in Reqs \ {r} : Witnessed(x)'
        BY <1>20, <1>t, <1>w, <2>1, WitnessFrame DEF UpdateFails
    <2>3. Witnessed(r)'
        BY <1>20, <1>t, <1>w, <2>1 DEF UpdateFails, Witnessed, Open
    <2> QED
        BY <2>2, <2>3 DEF WitnessInv
<1>21. ASSUME NEW r \in Reqs, GcCount(r) PROVE WitnessInv'
    <2>1. Unbacked' = Unbacked
        BY <1>21 DEF GcCount, Unbacked
    <2>2. \A x \in Reqs \ {r} : Witnessed(x)'
        BY <1>21, <1>t, <1>w, <2>1, WitnessFrame DEF GcCount
    <2>3. Witnessed(r)'
        BY <1>21, <1>t, <1>w, <2>1 DEF GcCount, Witnessed, Open
    <2> QED
        BY <2>2, <2>3 DEF WitnessInv
<1>22. ASSUME NEW r \in Reqs, GcRemove(r) PROVE WitnessInv'
    <2>1. Unbacked' = Unbacked
        BY <1>22 DEF GcRemove, Unbacked
    <2>2. \A x \in Reqs \ {r} : Witnessed(x)'
        BY <1>22, <1>t, <1>w, <2>1, WitnessFrame DEF GcRemove
    <2>3. Witnessed(r)'
        BY <1>22, <1>t, <1>w, <2>1 DEF GcRemove, Witnessed, Open
    <2> QED
        BY <2>2, <2>3 DEF WitnessInv
<1>23. CASE Crash
    <2>1. Unbacked' = Unbacked
        BY <1>23 DEF Crash, Unbacked
    <2>2. \A x \in Reqs : /\ pc'[x] \in {pc[x], "done"} /\ ~Open(x)'
                          /\ bg'[x] = "none"
        BY <1>23, <1>t DEF Crash, Open
    <2>3. \A x \in Reqs : Open(x) => status[x] = 0
        BY <1>w DEF Witnessed
    <2> QED
        BY <1>23, <1>w, <2>1, <2>2, <2>3 DEF Crash, Witnessed, Open, WitnessInv
<1>24. ASSUME NEW r \in Reqs, GcCountFails(r) PROVE WitnessInv'
    BY <1>24, <1>23 DEF GcCountFails
<1>25. CASE UNCHANGED vars
    BY <1>25, <1>w, WitnessFrame DEF vars, WitnessInv, Unbacked
<1> QED
    BY <1>1, <1>2, <1>3, <1>4, <1>5, <1>6, <1>7, <1>8, <1>9, <1>10, <1>11, <1>12, <1>13, <1>14, <1>15, <1>16, <1>17, <1>18, <1>19, <1>20, <1>21, <1>22, <1>23, <1>24, <1>25 DEF Next, HandlerStep, BodyStep, CollectorStep


-----------------------------------------------------------------------------
(***************************************************************************)
(* The answers: an answer is justified when it is given, and what          *)
(* justifies it never goes away.                                           *)
(***************************************************************************)

LEMMA AnswerFrame ==
    ASSUME NEW x \in Reqs, AnswerJustified(x), status'[x] = status[x],
           status[x] # 0 => /\ req'[x] = req[x] /\ seen'[x] = seen[x]
                            /\ window'[x] = window[x],
           collected \subseteq collected', Unbacked \subseteq Unbacked'
    PROVE  AnswerJustified(x)'
BY DEF AnswerJustified

LEMMA AnswersStep ==
    ASSUME TypeInv, OwnSubject, WitnessInv, AnswersJustified, [Next]_vars
    PROVE  AnswersJustified'
<1> USE DEF graphVars, diskVars, histVars, Goto, Answer
<1>t. /\ pc \in [Reqs -> PcStates]
      /\ req \in [Reqs -> Call \cup {NoCall}]
      /\ seen \in [Reqs -> Hashes \cup {None}]
      /\ status \in [Reqs -> Statuses]
      /\ window \in [Reqs -> SUBSET SUBSET Hashes]
    BY DEF TypeInv, TypeOK
<1>l. \A x \in Reqs : Fresh(x) /\ Locals(x) /\ Witnessed(x) /\ AnswerJustified(x)
    BY DEF TypeInv, LocalsOK, WitnessInv, AnswersJustified
<1>s. \A x \in Reqs : Open(x) \/ pc[x] = "new" => status[x] = 0
    BY <1>l DEF Witnessed, Fresh
<1>q. ASSUME UNCHANGED <<req, status, window>>, collected \subseteq collected',
             \A x \in Reqs : status[x] # 0 => seen'[x] = seen[x]
      PROVE  AnswersJustified'
    BY <1>q, <1>l, AnswerFrame DEF AnswersJustified, Unbacked
<1>1. ASSUME NEW r \in Reqs, Arrive(r) PROVE AnswersJustified'
    <2>1. Unbacked \subseteq Unbacked'
        BY <1>1, <1>t, <1>l DEF Arrive, Unbacked, Missing, NoCall, Fresh
    <2> QED
        BY <1>1, <1>t, <1>l, <1>s, <2>1, AnswerFrame DEF Arrive, AnswersJustified
<1>2. ASSUME NEW r \in Reqs, Admit(r) PROVE AnswersJustified'
    BY <1>2, <1>t, <1>s, <1>q DEF Admit, Open
<1>3. ASSUME NEW r \in Reqs, Refuse(r) PROVE AnswersJustified'
    <2>1. Unbacked' = Unbacked
        BY <1>3 DEF Refuse, Unbacked
    <2>2. \A x \in Reqs \ {r} : AnswerJustified(x)'
        BY <1>3, <1>t, <1>l, <2>1, AnswerFrame DEF Refuse
    <2>3. AnswerJustified(r)'
        BY <1>3, <1>t, <1>s DEF Refuse, AnswerJustified
    <2> QED
        BY <2>2, <2>3 DEF AnswersJustified
<1>4. ASSUME NEW r \in Reqs, GiveUp(r) PROVE AnswersJustified'
    <2>1. Unbacked' = Unbacked
        BY <1>4 DEF GiveUp, Unbacked
    <2>2. \A x \in Reqs \ {r} : AnswerJustified(x)'
        BY <1>4, <1>t, <1>l, <2>1, AnswerFrame DEF GiveUp
    <2>3. AnswerJustified(r)'
        BY <1>4, <1>t, <1>s DEF GiveUp, AnswerJustified
    <2> QED
        BY <2>2, <2>3 DEF AnswersJustified
<1>5. ASSUME NEW r \in Reqs, RecordReferer(r) PROVE AnswersJustified'
    BY <1>5, <1>t, <1>s, <1>q DEF RecordReferer, Open
<1>6. ASSUME NEW r \in Reqs, GetSelect(r) PROVE AnswersJustified'
    <2>1. Unbacked' = Unbacked
        BY <1>6 DEF GetSelect, Unbacked
    <2>2. \A x \in Reqs \ {r} : AnswerJustified(x)'
        BY <1>6, <1>t, <1>l, <2>1, AnswerFrame DEF GetSelect
    <2>3. AnswerJustified(r)'
        <3>1. /\ req' = req /\ window' = window /\ req[r].method = "GET"
              /\ status[r] = 0 /\ Open(r)
            BY <1>6, <1>s DEF GetSelect, Open
        <3>2. CASE Page(quads, req[r].url) = {} /\ Answer(r, 404)
            <4>1. status'[r] = 404
                BY <3>2, <1>t
            <4>2. {} \in window[r]
                BY <3>1, <3>2, <1>l, ZenonT(30) DEF Witnessed
            <4> QED
                BY <3>1, <4>1, <4>2 DEF AnswerJustified
        <3>3. CASE UNCHANGED status
            BY <3>1, <3>3 DEF AnswerJustified
        <3> QED
            BY <1>6, <3>2, <3>3 DEF GetSelect
    <2> QED
        BY <2>2, <2>3 DEF AnswersJustified
<1>7. ASSUME NEW r \in Reqs, GetOpen(r) PROVE AnswersJustified'
    <2>1. Unbacked' = Unbacked
        BY <1>7 DEF GetOpen, Unbacked
    <2>2. \A x \in Reqs \ {r} : AnswerJustified(x)'
        BY <1>7, <1>t, <1>l, <2>1, AnswerFrame DEF GetOpen
    <2>3. AnswerJustified(r)'
        <3>1. PICK p \in window[r] :
                 seen[r] \in p /\ p \subseteq blobs \cup collected \cup Unbacked
            BY <1>7, <1>l DEF GetOpen, Witnessed
        <3>2. /\ req' = req /\ window' = window /\ seen' = seen
              /\ collected' = collected /\ req[r].method = "GET"
              /\ seen[r] \in Hashes
            BY <1>7, <1>l DEF GetOpen, Locals
        <3>3. CASE seen[r] \in blobs
            <4>1. status'[r] = 200
                BY <1>7, <1>t, <3>3 DEF GetOpen
            <4> QED
                BY <3>1, <3>2, <4>1 DEF AnswerJustified
        <3>4. CASE seen[r] \notin blobs
            <4>1. status'[r] = 404
                BY <1>7, <1>t, <3>4 DEF GetOpen
            <4>2. p \cap (collected' \cup Unbacked') # {}
                BY <2>1, <3>1, <3>2, <3>4
            <4> QED
                BY <3>1, <3>2, <4>1, <4>2 DEF AnswerJustified
        <3> QED
            BY <3>3, <3>4
    <2> QED
        BY <2>2, <2>3 DEF AnswersJustified
<1>8. ASSUME NEW r \in Reqs, CreateTemp(r) PROVE AnswersJustified'
    BY <1>8, <1>t, <1>s, <1>q DEF CreateTemp, Open
<1>9. ASSUME NEW r \in Reqs, ReceiveBody(r) PROVE AnswersJustified'
    BY <1>9, <1>t, <1>s, <1>q DEF ReceiveBody, Open
<1>10. ASSUME NEW r \in Reqs, RejectBody(r) PROVE AnswersJustified'
    <2>1. Unbacked' = Unbacked
        BY <1>10 DEF RejectBody, Unbacked
    <2>2. \A x \in Reqs \ {r} : AnswerJustified(x)'
        BY <1>10, <1>t, <1>l, <2>1, AnswerFrame DEF RejectBody
    <2>3. AnswerJustified(r)'
        BY <1>10, <1>t, <1>s DEF RejectBody, AnswerJustified
    <2> QED
        BY <2>2, <2>3 DEF AnswersJustified
<1>11. ASSUME NEW r \in Reqs, PutRename(r) PROVE AnswersJustified'
    BY <1>11, <1>t, <1>s, <1>q DEF PutRename, Open
<1>12. ASSUME NEW r \in Reqs, RenameFails(r) PROVE AnswersJustified'
    <2>1. Unbacked' = Unbacked
        BY <1>12 DEF RenameFails, Unbacked
    <2>2. \A x \in Reqs \ {r} : AnswerJustified(x)'
        BY <1>12, <1>t, <1>l, <2>1, AnswerFrame DEF RenameFails
    <2>3. AnswerJustified(r)'
        BY <1>12, <1>t, <1>s DEF RenameFails, AnswerJustified
    <2> QED
        BY <2>2, <2>3 DEF AnswersJustified
<1>13. ASSUME NEW r \in Reqs, RemoveTemp(r) PROVE AnswersJustified'
    BY <1>13, <1>t, <1>s, <1>q DEF RemoveTemp, Open
<1>14. ASSUME NEW r \in Reqs, MemberTemp(r) PROVE AnswersJustified'
    BY <1>14, <1>t, <1>s, <1>q DEF MemberTemp, Open
<1>15. ASSUME NEW r \in Reqs, MemberRename(r) PROVE AnswersJustified'
    BY <1>15, <1>t, <1>s, <1>q DEF MemberRename, Open
<1>16. ASSUME NEW r \in Reqs, SendBundle(r) PROVE AnswersJustified'
    BY <1>16, <1>t, <1>s, <1>q DEF SendBundle, Open
<1>17. ASSUME NEW r \in Reqs, DeleteLookup(r) PROVE AnswersJustified'
    <2>1. Unbacked' = Unbacked
        BY <1>17 DEF DeleteLookup, Unbacked
    <2>2. \A x \in Reqs \ {r} : AnswerJustified(x)'
        BY <1>17, <1>t, <1>l, <2>1, AnswerFrame DEF DeleteLookup
    <2>3. AnswerJustified(r)'
        <3>1. req[r] \in Call /\ status[r] = 0
            BY <1>17, <1>s, OfferedCall DEF DeleteLookup, TypeInv, TypeOK, Open
        <3>2. About(req[r].url) = {} => Page(quads, req[r].url) = {}
            BY <3>1 DEF About, Page, Call
        <3>3. /\ req' = req /\ window' = window /\ req[r].method = "DELETE"
              /\ Open(r)
            BY <1>17 DEF DeleteLookup, Open
        <3>4. CASE About(req[r].url) = {} /\ Answer(r, 404)
            <4>1. status'[r] = 404
                BY <3>4, <1>t
            <4>2. {} \in window[r]
                BY <3>2, <3>3, <3>4, <1>l, ZenonT(30) DEF Witnessed
            <4> QED
                BY <3>3, <4>1, <4>2 DEF AnswerJustified
        <3>5. CASE UNCHANGED status
            BY <3>1, <3>3, <3>5 DEF AnswerJustified
        <3> QED
            BY <1>17, <3>4, <3>5 DEF DeleteLookup
    <2> QED
        BY <2>2, <2>3 DEF AnswersJustified
<1>18. ASSUME NEW r \in Reqs, StoreApplies(r) PROVE AnswersJustified'
    <2>1. \A x \in Reqs : status[x] # 0 => window'[x] = window[x]
        BY <1>18, <1>t, <1>s DEF StoreApplies
    <2> QED
        BY <1>18, <1>l, <2>1, AnswerFrame DEF StoreApplies, AnswersJustified, Unbacked
<1>19. ASSUME NEW r \in Reqs, UpdateSucceeds(r) PROVE AnswersJustified'
    <2>1. Unbacked' = Unbacked
        BY <1>19 DEF UpdateSucceeds, Unbacked
    <2>2. \A x \in Reqs \ {r} : AnswerJustified(x)'
        BY <1>19, <1>t, <1>l, <2>1, AnswerFrame DEF UpdateSucceeds
    <2>3. AnswerJustified(r)'
        <3>1. /\ wire[r] = "applied" /\ Open(r)
              /\ req[r].method \in {"PUT", "POST", "DELETE"}
            BY <1>19, <1>l DEF UpdateSucceeds, Witnessed, Open
        <3>2. req[r].url \in DroppedGraphs(req[r]) =>
                 Page(InsertedQuads(req[r]), req[r].url) \in window[r]
            BY <3>1, <1>l DEF Witnessed
        <3>3. req[r] \in Call /\ WellFormed(req[r])
            BY <3>1, OfferedCall DEF TypeInv, TypeOK, Open
        <3>4. CASE req[r].method = "PUT"
            <4>1. Page(InsertedQuads(req[r]), req[r].url) = {req[r].hash}
                BY <3>3, <3>4 DEF Page, InsertedQuads, WellFormed
            <4>2. req[r].url \in DroppedGraphs(req[r])
                BY <3>4 DEF DroppedGraphs
            <4> QED
                BY <1>19, <1>t, <3>2, <3>4, <4>1, <4>2 DEF UpdateSucceeds, AnswerJustified
        <3>5. CASE req[r].method = "POST"
            BY <1>19, <1>t, <3>2, <3>5
            DEF UpdateSucceeds, AnswerJustified, DroppedGraphs, InsertedQuads
        <3>6. CASE req[r].method = "DELETE"
            <4>1. Page(InsertedQuads(req[r]), req[r].url) = {}
                BY <3>6 DEF Page, InsertedQuads
            <4>2. req[r].url \in DroppedGraphs(req[r])
                BY <3>6 DEF DroppedGraphs
            <4>3. \E p \in window[r] : seen[r] \in p
                BY <3>1, <3>6, <1>l DEF Witnessed
            <4> QED
                BY <1>19, <1>t, <3>2, <3>6, <4>1, <4>2, <4>3 DEF UpdateSucceeds, AnswerJustified
        <3> QED
            BY <3>1, <3>4, <3>5, <3>6
    <2> QED
        BY <2>2, <2>3 DEF AnswersJustified
<1>20. ASSUME NEW r \in Reqs, UpdateFails(r) PROVE AnswersJustified'
    <2>1. Unbacked' = Unbacked
        BY <1>20 DEF UpdateFails, Unbacked
    <2>2. \A x \in Reqs \ {r} : AnswerJustified(x)'
        BY <1>20, <1>t, <1>l, <2>1, AnswerFrame DEF UpdateFails
    <2>3. AnswerJustified(r)'
        BY <1>20, <1>t, <1>s DEF UpdateFails, AnswerJustified
    <2> QED
        BY <2>2, <2>3 DEF AnswersJustified
<1>21. ASSUME NEW r \in Reqs, GcCount(r) PROVE AnswersJustified'
    BY <1>21, <1>t, <1>s, <1>q DEF GcCount, Open
<1>22. ASSUME NEW r \in Reqs, GcRemove(r) PROVE AnswersJustified'
    BY <1>22, <1>t, <1>s, <1>q DEF GcRemove, Open
<1>23. CASE Crash
    BY <1>23, <1>q DEF Crash
<1>24. ASSUME NEW r \in Reqs, GcCountFails(r) PROVE AnswersJustified'
    BY <1>24, <1>23 DEF GcCountFails
<1>25. CASE UNCHANGED vars
    BY <1>25, <1>q DEF vars
<1> QED
    BY <1>1, <1>2, <1>3, <1>4, <1>5, <1>6, <1>7, <1>8, <1>9, <1>10, <1>11, <1>12, <1>13, <1>14, <1>15, <1>16, <1>17, <1>18, <1>19, <1>20, <1>21, <1>22, <1>23, <1>24, <1>25 DEF Next, HandlerStep, BodyStep, CollectorStep

LEMMA CollectedStep ==
    ASSUME TypeInv, WitnessInv, CollectedOnlyAfterDelete, [Next]_vars
    PROVE  CollectedOnlyAfterDelete'
<1>t. /\ pc \in [Reqs -> PcStates]
      /\ req \in [Reqs -> Call \cup {NoCall}]
      /\ status \in [Reqs -> Statuses]
      /\ window \in [Reqs -> SUBSET SUBSET Hashes]
    BY DEF TypeInv, TypeOK
<1>s. \A x \in Reqs : Open(x) \/ pc[x] = "new" => status[x] = 0
    BY DEF TypeInv, LocalsOK, Fresh, WitnessInv, Witnessed
<1>1. ASSUME collected' = collected,
             \A x \in Reqs : status[x] = 204 =>
                 /\ req'[x] = req[x] /\ status'[x] = 204
                 /\ window'[x] = window[x]
      PROVE  CollectedOnlyAfterDelete'
    BY <1>1 DEF CollectedOnlyAfterDelete
<1>2. ASSUME NEW r \in Reqs, GcRemove(r) PROVE CollectedOnlyAfterDelete'
    <2>1. /\ req[r].method = "DELETE" /\ status[r] = 204
          /\ \E p \in window[r] : seen[r] \in p
        BY <1>2 DEF GcRemove, TypeInv, LocalsOK, Collecting, WitnessInv, Witnessed
    <2> QED
        BY <1>2, <2>1 DEF GcRemove, CollectedOnlyAfterDelete
<1>3. ASSUME NEW r \in Reqs, StoreApplies(r) PROVE CollectedOnlyAfterDelete'
    BY <1>3, <1>t, <1>s, <1>1 DEF StoreApplies
<1>4. CASE Crash \/ UNCHANGED vars
    BY <1>4, <1>1 DEF Crash, vars, graphVars, histVars
<1>5. ASSUME NEW r \in Reqs, Arrive(r) PROVE CollectedOnlyAfterDelete'
    BY <1>5, <1>t, <1>s, <1>1 DEF Arrive, Goto
<1>6. ASSUME NEW r \in Reqs, NEW s \in Statuses, pc[r] # "done", pc[r] # "new",
             status' = [status EXCEPT ![r] = s],
             UNCHANGED <<req, window, collected>>
      PROVE  CollectedOnlyAfterDelete'
    BY <1>6, <1>t, <1>s, <1>1 DEF Open
<1>7. ASSUME NEW r \in Reqs,
             \/ Refuse(r) \/ GiveUp(r) \/ GetSelect(r) \/ GetOpen(r)
             \/ RejectBody(r) \/ RenameFails(r) \/ DeleteLookup(r)
             \/ UpdateSucceeds(r) \/ UpdateFails(r)
      PROVE  \/ UNCHANGED <<req, status, window, collected>>
             \/ \E s \in Statuses : /\ pc[r] # "done" /\ pc[r] # "new"
                                    /\ status' = [status EXCEPT ![r] = s]
                                    /\ UNCHANGED <<req, window, collected>>
    BY <1>7 DEF Refuse, GiveUp, GetSelect, GetOpen, RejectBody, RenameFails,
       DeleteLookup, UpdateSucceeds, UpdateFails, Answer, Statuses, histVars
<1>8. ASSUME NEW r \in Reqs,
             \/ Admit(r) \/ RecordReferer(r) \/ CreateTemp(r) \/ ReceiveBody(r)
             \/ PutRename(r) \/ RemoveTemp(r) \/ MemberTemp(r)
             \/ MemberRename(r) \/ SendBundle(r) \/ GcCount(r)
      PROVE  UNCHANGED <<req, status, window, collected>>
    BY <1>8 DEF Admit, RecordReferer, CreateTemp, ReceiveBody, PutRename,
       RemoveTemp, MemberTemp, MemberRename, SendBundle, GcCount, histVars
<1>9. CASE UNCHANGED <<req, status, window, collected>>
    BY <1>9, <1>1
<1> QED
    BY <1>2, <1>3, <1>4, <1>5, <1>6, <1>7, <1>8, <1>9
    DEF Next, HandlerStep, BodyStep, CollectorStep, GcCountFails

-----------------------------------------------------------------------------
(***************************************************************************)
(* ContentStore implements PageStore: each of its steps is a step of the   *)
(* abstract specification, or changes nothing a client can tell.           *)
(***************************************************************************)

LEMMA InitMaps == Init => PS!PSInit
BY DEF Init, PS!PSInit, Page, Phase, Open, Returned, NoCall, PS!NoCall,
   PS!EmptyBundle, EmptyBundle

\* Steps a client cannot tell.
LEMMA StepHidden ==
    ASSUME UNCHANGED <<quads, req, status, window, collected>>,
           \A x \in Reqs : /\ Phase(x)' = Phase(x)
                           /\ wire'[x] = "applied" <=> wire[x] = "applied"
                           /\ Returned(x)' = Returned(x)
    PROVE  UNCHANGED PS!pageVars
BY DEF PS!pageVars, Page

\* Steps that answer.
LEMMA StepAnswers ==
    ASSUME TypeInv, NEW r \in Reqs, Open(r),
           NEW s \in Statuses \ {0}, NEW h \in Hashes \cup {None},
           Answer(r, s),
           UNCHANGED <<quads, req, window, collected>>,
           \A x \in Reqs : wire'[x] = "applied" <=> wire[x] = "applied",
           \A x \in Reqs \ {r} : Returned(x)' = Returned(x),
           Returned(r)' = h,
           (h # None) <=> (req[r].method = "GET" /\ s = 200),
           PS!Justified(r, s, h)
    PROVE  PS!Respond(r)
<1>1. pc \in [Reqs -> PcStates] /\ status \in [Reqs -> Statuses]
    BY DEF TypeInv, TypeOK
<1>2. Phase(r) = "open" /\ Phase(r)' = "done"
    BY <1>1 DEF Phase, Answer, Open
<1>3. \A x \in Reqs \ {r} : Phase(x)' = Phase(x)
    BY <1>1 DEF Phase, Answer, Open
<1>4. [x \in Reqs |-> Phase(x)]' = [[x \in Reqs |-> Phase(x)] EXCEPT ![r] = "done"]
    BY <1>2, <1>3
<1>5. [x \in Reqs |-> Returned(x)]' = [[x \in Reqs |-> Returned(x)] EXCEPT ![r] = h]
    OBVIOUS
<1>6. UNCHANGED {x \in Reqs : wire[x] = "applied"}
    OBVIOUS
<1>7. UNCHANGED [u \in Urls |-> Page(quads, u)]
    OBVIOUS
<1>8. [x \in Reqs |-> Phase(x)][r] = "open"
    BY <1>2
<1>9. s \in {200, 201, 204, 400, 403, 404, 405, 500}
    BY DEF Statuses
<1>10. status' = [status EXCEPT ![r] = s]
    BY DEF Answer
<1>11. UNCHANGED <<[u \in Urls |-> Page(quads, u)], req,
                   {x \in Reqs : wire[x] = "applied"}, window, collected>>
    BY <1>6, <1>7
<1> DEFINE Fits(t, g) ==
          /\ PS!Justified(r, t, g)
          /\ (g # None) <=> (req[r].method = "GET" /\ t = 200)
          /\ status' = [status EXCEPT ![r] = t]
          /\ [x \in Reqs |-> Returned(x)]' =
                [[x \in Reqs |-> Returned(x)] EXCEPT ![r] = g]
<1>12. Fits(s, h)
    BY <1>5, <1>10
<1> HIDE DEF Fits
<1>13. \E t \in {200, 201, 204, 400, 403, 404, 405, 500} :
       \E g \in Hashes \cup {None} : Fits(t, g)
    BY <1>9, <1>12
<1> USE DEF Fits
<1> QED
    BY <1>4, <1>8, <1>11, <1>13, ZenonT(30) DEF PS!Respond



LEMMA SameData ==
    ASSUME NEW q
    PROVE  /\ PS!DroppedGraphs(q) = DroppedGraphs(q)
           /\ PS!InsertedQuads(q) = InsertedQuads(q)
           /\ PS!Missing(q) = Missing(q)
           /\ \A Q, u : PS!Page(Q, u) = Page(Q, u)
BY DEF PS!DroppedGraphs, DroppedGraphs, PS!InsertedQuads, InsertedQuads,
   PS!Missing, Missing, PS!Wanted, Wanted, PS!Page, Page

LEMMA StepMaps ==
    ASSUME OrderlyBundles, TypeInv, OwnSubject, WitnessInv, [Next]_vars
    PROVE  [PS!PSNext]_(PS!pageVars)
<1> USE DEF graphVars, diskVars, histVars
<1>t. /\ pc \in [Reqs -> PcStates]
      /\ req \in [Reqs -> Call \cup {NoCall}]
      /\ seen \in [Reqs -> Hashes \cup {None}]
      /\ wire \in [Reqs -> {"none", "sent", "applied", "lost"}]
      /\ status \in [Reqs -> Statuses]
      /\ bg \in [Reqs -> {"none", "count", "remove", "rmtemp"}]
      /\ window \in [Reqs -> SUBSET SUBSET Hashes]
    BY DEF TypeInv, TypeOK
<1>l. \A x \in Reqs : Fresh(x) /\ Locals(x) /\ Collecting(x) /\ Witnessed(x)
    BY DEF TypeInv, LocalsOK, WitnessInv
<1>o. \A x \in Reqs : Open(x) => req[x] \in Call
    BY OfferedCall DEF TypeInv, TypeOK, Open
<1>s. \A x \in Reqs : Open(x) => status[x] = 0
    BY <1>l DEF Witnessed
<1>1. ASSUME NEW r \in Reqs, Arrive(r) PROVE [PS!PSNext]_(PS!pageVars)
    <2>1. PICK q \in Offers[r] :
             /\ req' = [req EXCEPT ![r] = q]
             /\ window' = [window EXCEPT ![r] = {Page(quads, q.url)}]
        BY <1>1 DEF Arrive
    <2>2. q.url \in Urls
        BY OfferedCall DEF Call
    <2>3. [u \in Urls |-> Page(quads, u)][q.url] = Page(quads, q.url)
        BY <2>2
    <2>4. Phase(r) = "idle" /\ Phase(r)' = "open"
        BY <1>1, <1>t DEF Arrive, Goto, Phase, Open
    <2>5. \A x \in Reqs \ {r} : Phase(x)' = Phase(x)
        BY <1>1, <1>t DEF Arrive, Goto, Phase, Open
    <2>6. \A x \in Reqs : Returned(x)' = Returned(x)
        BY <1>1, <1>t, <1>l, <2>1 DEF Arrive, Goto, Returned, Fresh
    <2>7. [x \in Reqs |-> Phase(x)]' =
             [[x \in Reqs |-> Phase(x)] EXCEPT ![r] = "open"]
        BY <2>4, <2>5
    <2>8. UNCHANGED <<quads, wire, status, collected>>
        BY <1>1 DEF Arrive
    <2>9. UNCHANGED <<[u \in Urls |-> Page(quads, u)],
                      {x \in Reqs : wire[x] = "applied"}, status,
                      [x \in Reqs |-> Returned(x)], collected>>
        BY <2>6, <2>8
    <2>10. PS!Begin(r)
        BY <2>1, <2>3, <2>4, <2>7, <2>9 DEF PS!Begin
    <2> QED
        BY <2>10 DEF PS!PSNext
<1>2. ASSUME NEW r \in Reqs, Admit(r) PROVE [PS!PSNext]_(PS!pageVars)
    <2>1. \A x \in Reqs : Phase(x)' = Phase(x)
        BY <1>2, <1>t, <1>l DEF Admit, Goto, Phase, Open
    <2>2. \A x \in Reqs : wire'[x] = "applied" <=> wire[x] = "applied"
        BY <1>2, <1>t, <1>l DEF Admit, Goto, Locals, BeforeUpdate
    <2>3. \A x \in Reqs : Returned(x)' = Returned(x)
        BY <1>2, <1>t, <1>l DEF Admit, Goto, Returned, Locals
    <2> QED
        BY <1>2, <2>1, <2>2, <2>3, StepHidden DEF Admit
<1>3. ASSUME NEW r \in Reqs, Refuse(r) PROVE [PS!PSNext]_(PS!pageVars)
    <2>1. PICK s \in {400, 403, 405, 500} :
             /\ Answer(r, s)
             /\ req[r].method = "OTHER" => s \in {403, 405, 500}
             /\ req[r].method # "OTHER" => s \in {400, 403, 500}
             /\ s # 500 => wire[r] = "none"
        BY <1>3, <1>l, <1>t DEF Refuse, Locals, BeforeUpdate
    <2>2. Open(r)
        BY <1>3 DEF Refuse, Open
    <2>3. /\ \A x \in Reqs : wire'[x] = "applied" <=> wire[x] = "applied"
          /\ \A x \in Reqs \ {r} : Returned(x)' = Returned(x)
          /\ Returned(r)' = None
        BY <1>3, <1>t, <2>1 DEF Refuse, Answer, Returned
    <2>4. PS!Justified(r, s, None)
        BY <2>1 DEF PS!Justified
    <2>5. UNCHANGED <<quads, req, window, collected>>
        BY <1>3 DEF Refuse
    <2>6. PS!Respond(r)
        BY <2>1, <2>2, <2>3, <2>4, <2>5, StepAnswers DEF Statuses
    <2> QED
        BY <2>6 DEF PS!PSNext
<1>4. ASSUME NEW r \in Reqs, GiveUp(r) PROVE [PS!PSNext]_(PS!pageVars)
    <2>1. PICK s \in {400, 403, 405, 500} :
             /\ Answer(r, s)
             /\ req[r].method = "OTHER" => s \in {403, 405, 500}
             /\ req[r].method # "OTHER" => s \in {400, 403, 500}
             /\ s # 500 => wire[r] = "none"
        BY <1>4, <1>l, <1>t DEF GiveUp, Locals, BeforeUpdate
    <2>2. Open(r)
        BY <1>4 DEF GiveUp, Open
    <2>3. /\ \A x \in Reqs : wire'[x] = "applied" <=> wire[x] = "applied"
          /\ \A x \in Reqs \ {r} : Returned(x)' = Returned(x)
          /\ Returned(r)' = None
        BY <1>4, <1>t, <2>1 DEF GiveUp, Answer, Returned
    <2>4. PS!Justified(r, s, None)
        BY <2>1 DEF PS!Justified
    <2>5. UNCHANGED <<quads, req, window, collected>>
        BY <1>4 DEF GiveUp
    <2>6. PS!Respond(r)
        BY <2>1, <2>2, <2>3, <2>4, <2>5, StepAnswers DEF Statuses
    <2> QED
        BY <2>6 DEF PS!PSNext
<1>5. ASSUME NEW r \in Reqs, RecordReferer(r) PROVE [PS!PSNext]_(PS!pageVars)
    <2>1. \A x \in Reqs : Phase(x)' = Phase(x)
        BY <1>5, <1>t, <1>l DEF RecordReferer, Goto, Phase, Open
    <2>2. \A x \in Reqs : wire'[x] = "applied" <=> wire[x] = "applied"
        BY <1>5, <1>t, <1>l DEF RecordReferer, Goto, Locals, BeforeUpdate
    <2>3. \A x \in Reqs : Returned(x)' = Returned(x)
        BY <1>5, <1>t, <1>l DEF RecordReferer, Goto, Returned, Locals
    <2> QED
        BY <1>5, <2>1, <2>2, <2>3, StepHidden DEF RecordReferer
<1>6. ASSUME NEW r \in Reqs, GetSelect(r) PROVE [PS!PSNext]_(PS!pageVars)
    <2>1. CASE Answer(r, 404)
        <3>1. Open(r) /\ Open(r)' = FALSE
            BY <1>6, <2>1, <1>t DEF GetSelect, Open, Answer
        <3>2. UNCHANGED <<quads, req, window, collected, wire, seen>>
            BY <1>6, <2>1, <1>t DEF GetSelect, Answer
        <3>3. /\ \A x \in Reqs \ {r} : Returned(x)' = Returned(x)
              /\ Returned(r)' = None
            BY <2>1, <3>2, <1>t DEF Answer, Returned
        <3>4. Page(quads, req[r].url) = {}
            BY <1>6, <2>1, <1>t, <1>o, <3>1, ZenonT(30) DEF GetSelect, Answer, About, Page, Call
        <3>5. {} \in window[r] /\ wire[r] # "applied"
            BY <1>6, <3>1, <3>4, <1>l, ZenonT(30) DEF GetSelect, Witnessed, Locals, BeforeUpdate
        <3>6. PS!Justified(r, 404, None)
            BY <1>6, <3>5 DEF GetSelect, PS!Justified
        <3>7. PS!Respond(r)
            BY <2>1, <3>1, <3>2, <3>3, <3>6, StepAnswers DEF Statuses
        <3> QED
            BY <3>7 DEF PS!PSNext
    <2>2. ASSUME NEW h \in Page(quads, req[r].url),
                 seen' = [seen EXCEPT ![r] = h],
                 pc'[r] \in {"open", "await"},
                 pc' = [pc EXCEPT ![r] = pc'[r]],
                 wire'[r] # "applied", wire' = [wire EXCEPT ![r] = wire'[r]],
                 UNCHANGED status
          PROVE  [PS!PSNext]_(PS!pageVars)
        <3>1. \A x \in Reqs : Phase(x)' = Phase(x)
            BY <1>6, <2>2, <1>t DEF GetSelect, Phase, Open
        <3>2. \A x \in Reqs : wire'[x] = "applied" <=> wire[x] = "applied"
            BY <1>6, <2>2, <1>t, <1>l DEF GetSelect, Locals, BeforeUpdate
        <3>3. \A x \in Reqs : Returned(x)' = Returned(x)
            <4>1. status[r] = 0
                BY <1>6, <1>s DEF GetSelect, Open
            <4> QED
                BY <1>6, <2>2, <1>t, <4>1 DEF GetSelect, Returned
        <3> QED
            BY <1>6, <2>2, <3>1, <3>2, <3>3, StepHidden DEF GetSelect
    <2> QED
        BY <1>6, <1>t, <1>l, <2>1, <2>2 DEF GetSelect, Locals, BeforeUpdate
<1>7. ASSUME NEW r \in Reqs, GetOpen(r) PROVE [PS!PSNext]_(PS!pageVars)
    <2>1. Open(r) /\ req[r] \in Call /\ req[r].method = "GET" /\ seen[r] \in Hashes
        BY <1>7, <1>l, <1>o DEF GetOpen, Open, Locals
    <2>2. UNCHANGED <<quads, req, window, collected, wire, seen>>
        BY <1>7 DEF GetOpen
    <2>3. PICK p \in window[r] : seen[r] \in p
        BY <1>7, <1>l DEF GetOpen, Witnessed
    <2>4. CASE seen[r] \in blobs
        <3>1. Answer(r, 200)
            BY <1>7, <2>4 DEF GetOpen
        <3>2. /\ \A x \in Reqs \ {r} : Returned(x)' = Returned(x)
              /\ Returned(r)' = seen[r]
            BY <2>1, <2>2, <3>1, <1>t DEF Answer, Returned
        <3>3. PS!Justified(r, 200, seen[r])
            BY <2>1, <2>3 DEF PS!Justified
        <3>4. seen[r] # None
            BY <2>1, NoneAssumption
        <3>5. PS!Respond(r)
            BY <2>1, <2>2, <3>1, <3>2, <3>3, <3>4, StepAnswers DEF Statuses
        <3> QED
            BY <3>5 DEF PS!PSNext
    <2>5. CASE seen[r] \notin blobs
        <3>1. Answer(r, 404)
            BY <1>7, <2>5 DEF GetOpen
        <3>2. /\ \A x \in Reqs \ {r} : Returned(x)' = Returned(x)
              /\ Returned(r)' = None
            BY <2>1, <2>2, <3>1, <1>t DEF Answer, Returned
        <3>3. p \subseteq blobs \cup collected \cup Unbacked
            BY <2>3, <1>l DEF Witnessed
        <3>4. \/ p \cap collected # {}
              \/ \E x \in Reqs : p \cap PS!Missing(req[x]) # {}
            BY <2>3, <2>5, <3>3, SameData DEF Unbacked
        <3>5. PS!Justified(r, 404, None)
            BY <2>1, <2>3, <3>4 DEF PS!Justified
        <3>6. PS!Respond(r)
            BY <2>1, <2>2, <3>1, <3>2, <3>5, StepAnswers DEF Statuses
        <3> QED
            BY <3>6 DEF PS!PSNext
    <2> QED
        BY <2>4, <2>5
<1>8. ASSUME NEW r \in Reqs, CreateTemp(r) PROVE [PS!PSNext]_(PS!pageVars)
    <2>1. \A x \in Reqs : Phase(x)' = Phase(x)
        BY <1>8, <1>t, <1>l DEF CreateTemp, Goto, Phase, Open
    <2>2. \A x \in Reqs : wire'[x] = "applied" <=> wire[x] = "applied"
        BY <1>8, <1>t, <1>l DEF CreateTemp, Goto, Locals, BeforeUpdate
    <2>3. \A x \in Reqs : Returned(x)' = Returned(x)
        BY <1>8, <1>t, <1>l DEF CreateTemp, Goto, Returned, Locals
    <2> QED
        BY <1>8, <2>1, <2>2, <2>3, StepHidden DEF CreateTemp
<1>9. ASSUME NEW r \in Reqs, ReceiveBody(r) PROVE [PS!PSNext]_(PS!pageVars)
    <2>1. \A x \in Reqs : Phase(x)' = Phase(x)
        BY <1>9, <1>t, <1>l DEF ReceiveBody, Goto, Phase, Open
    <2>2. \A x \in Reqs : wire'[x] = "applied" <=> wire[x] = "applied"
        BY <1>9, <1>t, <1>l DEF ReceiveBody, Goto, Locals, BeforeUpdate
    <2>3. \A x \in Reqs : Returned(x)' = Returned(x)
        BY <1>9, <1>t, <1>l DEF ReceiveBody, Goto, Returned, Locals
    <2> QED
        BY <1>9, <2>1, <2>2, <2>3, StepHidden DEF ReceiveBody
<1>10. ASSUME NEW r \in Reqs, RejectBody(r) PROVE [PS!PSNext]_(PS!pageVars)
    <2>1. PICK s \in {400, 403, 405, 500} :
             /\ Answer(r, s)
             /\ req[r].method = "OTHER" => s \in {403, 405, 500}
             /\ req[r].method # "OTHER" => s \in {400, 403, 500}
             /\ s # 500 => wire[r] = "none"
        BY <1>10, <1>l, <1>t DEF RejectBody, Locals, BeforeUpdate
    <2>2. Open(r)
        BY <1>10 DEF RejectBody, Open
    <2>3. /\ \A x \in Reqs : wire'[x] = "applied" <=> wire[x] = "applied"
          /\ \A x \in Reqs \ {r} : Returned(x)' = Returned(x)
          /\ Returned(r)' = None
        BY <1>10, <1>t, <2>1 DEF RejectBody, Answer, Returned
    <2>4. PS!Justified(r, s, None)
        BY <2>1 DEF PS!Justified
    <2>5. UNCHANGED <<quads, req, window, collected>>
        BY <1>10 DEF RejectBody
    <2>6. PS!Respond(r)
        BY <2>1, <2>2, <2>3, <2>4, <2>5, StepAnswers DEF Statuses
    <2> QED
        BY <2>6 DEF PS!PSNext
<1>11. ASSUME NEW r \in Reqs, PutRename(r) PROVE [PS!PSNext]_(PS!pageVars)
    <2>1. \A x \in Reqs : Phase(x)' = Phase(x)
        BY <1>11, <1>t, <1>l DEF PutRename, Goto, Phase, Open
    <2>2. \A x \in Reqs : wire'[x] = "applied" <=> wire[x] = "applied"
        BY <1>11, <1>t, <1>l DEF PutRename, Goto, Locals, BeforeUpdate
    <2>3. \A x \in Reqs : Returned(x)' = Returned(x)
        BY <1>11, <1>t, <1>l DEF PutRename, Goto, Returned, Locals
    <2> QED
        BY <1>11, <2>1, <2>2, <2>3, StepHidden DEF PutRename
<1>12. ASSUME NEW r \in Reqs, RenameFails(r) PROVE [PS!PSNext]_(PS!pageVars)
    <2>1. PICK s \in {400, 403, 405, 500} :
             /\ Answer(r, s)
             /\ req[r].method = "OTHER" => s \in {403, 405, 500}
             /\ req[r].method # "OTHER" => s \in {400, 403, 500}
             /\ s # 500 => wire[r] = "none"
        BY <1>12, <1>l, <1>t DEF RenameFails, Locals, BeforeUpdate
    <2>2. Open(r)
        BY <1>12 DEF RenameFails, Open
    <2>3. /\ \A x \in Reqs : wire'[x] = "applied" <=> wire[x] = "applied"
          /\ \A x \in Reqs \ {r} : Returned(x)' = Returned(x)
          /\ Returned(r)' = None
        BY <1>12, <1>t, <2>1 DEF RenameFails, Answer, Returned
    <2>4. PS!Justified(r, s, None)
        BY <2>1 DEF PS!Justified
    <2>5. UNCHANGED <<quads, req, window, collected>>
        BY <1>12 DEF RenameFails
    <2>6. PS!Respond(r)
        BY <2>1, <2>2, <2>3, <2>4, <2>5, StepAnswers DEF Statuses
    <2> QED
        BY <2>6 DEF PS!PSNext
<1>13. ASSUME NEW r \in Reqs, RemoveTemp(r) PROVE [PS!PSNext]_(PS!pageVars)
    <2>1. \A x \in Reqs : Phase(x)' = Phase(x)
        BY <1>13, <1>t, <1>l DEF RemoveTemp, Goto, Phase, Open
    <2>2. \A x \in Reqs : wire'[x] = "applied" <=> wire[x] = "applied"
        BY <1>13, <1>t, <1>l DEF RemoveTemp, Goto, Locals, BeforeUpdate
    <2>3. \A x \in Reqs : Returned(x)' = Returned(x)
        BY <1>13, <1>t, <1>l DEF RemoveTemp, Goto, Returned, Locals
    <2> QED
        BY <1>13, <2>1, <2>2, <2>3, StepHidden DEF RemoveTemp
<1>14. ASSUME NEW r \in Reqs, MemberTemp(r) PROVE [PS!PSNext]_(PS!pageVars)
    <2>1. \A x \in Reqs : Phase(x)' = Phase(x)
        BY <1>14, <1>t, <1>l DEF MemberTemp, Goto, Phase, Open
    <2>2. \A x \in Reqs : wire'[x] = "applied" <=> wire[x] = "applied"
        BY <1>14, <1>t, <1>l DEF MemberTemp, Goto, Locals, BeforeUpdate
    <2>3. \A x \in Reqs : Returned(x)' = Returned(x)
        BY <1>14, <1>t, <1>l DEF MemberTemp, Goto, Returned, Locals
    <2> QED
        BY <1>14, <2>1, <2>2, <2>3, StepHidden DEF MemberTemp
<1>15. ASSUME NEW r \in Reqs, MemberRename(r) PROVE [PS!PSNext]_(PS!pageVars)
    <2>1. \A x \in Reqs : Phase(x)' = Phase(x)
        BY <1>15, <1>t, <1>l DEF MemberRename, Goto, Phase, Open
    <2>2. \A x \in Reqs : wire'[x] = "applied" <=> wire[x] = "applied"
        BY <1>15, <1>t, <1>l DEF MemberRename, Goto, Locals, BeforeUpdate
    <2>3. \A x \in Reqs : Returned(x)' = Returned(x)
        BY <1>15, <1>t, <1>l DEF MemberRename, Goto, Returned, Locals
    <2> QED
        BY <1>15, <2>1, <2>2, <2>3, StepHidden DEF MemberRename
<1>16. ASSUME NEW r \in Reqs, SendBundle(r) PROVE [PS!PSNext]_(PS!pageVars)
    <2>1. \A x \in Reqs : Phase(x)' = Phase(x)
        BY <1>16, <1>t, <1>l DEF SendBundle, Goto, Phase, Open
    <2>2. \A x \in Reqs : wire'[x] = "applied" <=> wire[x] = "applied"
        BY <1>16, <1>t, <1>l DEF SendBundle, Goto, Locals, BeforeUpdate
    <2>3. \A x \in Reqs : Returned(x)' = Returned(x)
        BY <1>16, <1>t, <1>l DEF SendBundle, Goto, Returned, Locals
    <2> QED
        BY <1>16, <2>1, <2>2, <2>3, StepHidden DEF SendBundle
<1>17. ASSUME NEW r \in Reqs, DeleteLookup(r) PROVE [PS!PSNext]_(PS!pageVars)
    <2>1. CASE Answer(r, 404)
        <3>1. Open(r) /\ Open(r)' = FALSE
            BY <1>17, <2>1, <1>t DEF DeleteLookup, Open, Answer
        <3>2. UNCHANGED <<quads, req, window, collected, wire, seen>>
            BY <1>17, <2>1, <1>t DEF DeleteLookup, Answer
        <3>3. /\ \A x \in Reqs \ {r} : Returned(x)' = Returned(x)
              /\ Returned(r)' = None
            BY <2>1, <3>2, <1>t DEF Answer, Returned
        <3>4. Page(quads, req[r].url) = {}
            BY <1>17, <2>1, <1>t, <1>o, <3>1 DEF DeleteLookup, Answer, About, Page, Call
        <3>5. {} \in window[r] /\ wire[r] # "applied"
            BY <1>17, <3>1, <3>4, <1>l, ZenonT(30) DEF DeleteLookup, Witnessed, Locals, BeforeUpdate
        <3>6. PS!Justified(r, 404, None)
            BY <1>17, <3>5 DEF DeleteLookup, PS!Justified
        <3>7. PS!Respond(r)
            BY <2>1, <3>1, <3>2, <3>3, <3>6, StepAnswers DEF Statuses
        <3> QED
            BY <3>7 DEF PS!PSNext
    <2>2. ASSUME NEW h \in About(req[r].url),
                 seen' = [seen EXCEPT ![r] = h],
                 pc'[r] \in {"open", "await"},
                 pc' = [pc EXCEPT ![r] = pc'[r]],
                 wire'[r] # "applied", wire' = [wire EXCEPT ![r] = wire'[r]],
                 UNCHANGED status
          PROVE  [PS!PSNext]_(PS!pageVars)
        <3>1. \A x \in Reqs : Phase(x)' = Phase(x)
            BY <1>17, <2>2, <1>t DEF DeleteLookup, Phase, Open
        <3>2. \A x \in Reqs : wire'[x] = "applied" <=> wire[x] = "applied"
            BY <1>17, <2>2, <1>t, <1>l DEF DeleteLookup, Locals, BeforeUpdate
        <3>3. \A x \in Reqs : Returned(x)' = Returned(x)
            <4>1. status[r] = 0
                BY <1>17, <1>s DEF DeleteLookup, Open
            <4> QED
                BY <1>17, <2>2, <1>t, <4>1 DEF DeleteLookup, Returned
        <3> QED
            BY <1>17, <2>2, <3>1, <3>2, <3>3, StepHidden DEF DeleteLookup
    <2> QED
        BY <1>17, <1>t, <1>l, <2>1, <2>2 DEF DeleteLookup, Locals, BeforeUpdate
<1>18. ASSUME NEW r \in Reqs, StoreApplies(r) PROVE [PS!PSNext]_(PS!pageVars)
    <2>1. /\ wire[r] = "sent" /\ pc[r] # "new"
          /\ status[r] \in {0, 500}
          /\ req[r].method \in {"PUT", "POST", "DELETE"}
          /\ req[r].method = "DELETE" => {p \in window[r] : p # {}} # {}
        BY <1>18, <1>l DEF StoreApplies, Locals, BeforeUpdate, Witnessed
    <2>2. req[r] \in Call /\ WellFormed(req[r]) /\ Orderly(req[r])
        BY <2>1, OfferedCall DEF TypeInv, TypeOK, OrderlyBundles
    <2>3. /\ quads' = AfterUpdate(quads, req[r])
          /\ wire' = [wire EXCEPT ![r] = "applied"]
          /\ window' = [x \in Reqs |->
                          IF Open(x) THEN window[x] \cup {Page(quads', req[x].url)}
                                     ELSE window[x]]
          /\ UNCHANGED <<req, pc, seen, status, collected>>
        BY <1>18 DEF StoreApplies
    <2>4. \A u \in Urls :
             Page(quads', u) = IF u \in DroppedGraphs(req[r])
                               THEN Page(InsertedQuads(req[r]), u)
                               ELSE Page(quads, u)
        BY <2>2, <2>3, OrderlyUpdates DEF AfterUpdate, Page
    <2>5. [u \in Urls |-> Page(quads, u)]' =
             [u \in Urls |-> IF u \in PS!DroppedGraphs(req[r])
                             THEN PS!Page(PS!InsertedQuads(req[r]), u)
                             ELSE [v \in Urls |-> Page(quads, v)][u]]
        BY <2>4, SameData
    <2>6. \A x \in Reqs : Open(x) =>
             [u \in Urls |-> Page(quads, u)]'[req[x].url] = Page(quads', req[x].url)
        BY <1>o, <2>3 DEF Call
    <2>7. \A x \in Reqs : Open(x) <=> [y \in Reqs |-> Phase(y)][x] = "open"
        BY DEF Phase
    <2>8. window' = [x \in Reqs |->
                       IF [y \in Reqs |-> Phase(y)][x] = "open"
                       THEN window[x] \cup
                              {[u \in Urls |-> Page(quads, u)]'[req'[x].url]}
                       ELSE window[x]]
        BY <2>3, <2>6, <2>7
    <2>9. {x \in Reqs : wire[x] = "applied"}' =
             {x \in Reqs : wire[x] = "applied"} \cup {r}
        BY <2>3, <1>t
    <2>10. UNCHANGED <<req, [x \in Reqs |-> Phase(x)], status,
                       [x \in Reqs |-> Returned(x)], collected>>
        BY <2>3 DEF Phase, Open, Returned
    <2>11. /\ [x \in Reqs |-> Phase(x)][r] # "idle"
           /\ r \notin {x \in Reqs : wire[x] = "applied"}
        BY <2>1 DEF Phase, Open
    <2>12. PS!TakeEffect(r)
        BY <2>1, <2>5, <2>8, <2>9, <2>10, <2>11 DEF PS!TakeEffect
    <2> QED
        BY <2>12 DEF PS!PSNext
<1>19. ASSUME NEW r \in Reqs, UpdateSucceeds(r) PROVE [PS!PSNext]_(PS!pageVars)
    <2>1. Open(r) /\ wire[r] = "applied" /\ req[r].method \in {"PUT", "POST", "DELETE"}
        BY <1>19, <1>l DEF UpdateSucceeds, Open, Witnessed
    <2>2. PICK s \in {200, 201, 204} :
             /\ Answer(r, s)
             /\ req[r].method = "PUT" => s = 201
             /\ req[r].method = "POST" => s = 200
             /\ req[r].method = "DELETE" => s = 204
        BY <1>19, <2>1 DEF UpdateSucceeds
    <2>3. UNCHANGED <<quads, req, window, collected, wire, seen>>
        BY <1>19 DEF UpdateSucceeds
    <2>4. /\ \A x \in Reqs \ {r} : Returned(x)' = Returned(x)
          /\ Returned(r)' = None
        BY <2>1, <2>2, <2>3, <1>t DEF Answer, Returned
    <2>5. PS!Justified(r, s, None)
        BY <2>1, <2>2 DEF PS!Justified
    <2>6. PS!Respond(r)
        BY <2>1, <2>2, <2>3, <2>4, <2>5, StepAnswers DEF Statuses
    <2> QED
        BY <2>6 DEF PS!PSNext
<1>20. ASSUME NEW r \in Reqs, UpdateFails(r) PROVE [PS!PSNext]_(PS!pageVars)
    <2>1. PICK s \in {400, 403, 405, 500} :
             /\ Answer(r, s)
             /\ req[r].method = "OTHER" => s \in {403, 405, 500}
             /\ req[r].method # "OTHER" => s \in {400, 403, 500}
             /\ s # 500 => wire[r] = "none"
        BY <1>20, <1>l, <1>t DEF UpdateFails, Locals, BeforeUpdate
    <2>2. Open(r)
        BY <1>20 DEF UpdateFails, Open
    <2>3. /\ \A x \in Reqs : wire'[x] = "applied" <=> wire[x] = "applied"
          /\ \A x \in Reqs \ {r} : Returned(x)' = Returned(x)
          /\ Returned(r)' = None
        BY <1>20, <1>t, <2>1 DEF UpdateFails, Answer, Returned
    <2>4. PS!Justified(r, s, None)
        BY <2>1 DEF PS!Justified
    <2>5. UNCHANGED <<quads, req, window, collected>>
        BY <1>20 DEF UpdateFails
    <2>6. PS!Respond(r)
        BY <2>1, <2>2, <2>3, <2>4, <2>5, StepAnswers DEF Statuses
    <2> QED
        BY <2>6 DEF PS!PSNext
<1>21. ASSUME NEW r \in Reqs, GcCount(r) PROVE [PS!PSNext]_(PS!pageVars)
    <2>1. \A x \in Reqs : Phase(x)' = Phase(x)
        BY <1>21, <1>t, <1>l DEF GcCount, Goto, Phase, Open
    <2>2. \A x \in Reqs : wire'[x] = "applied" <=> wire[x] = "applied"
        BY <1>21, <1>t, <1>l DEF GcCount, Goto, Locals, BeforeUpdate
    <2>3. \A x \in Reqs : Returned(x)' = Returned(x)
        BY <1>21, <1>t, <1>l DEF GcCount, Goto, Returned, Locals
    <2> QED
        BY <1>21, <2>1, <2>2, <2>3, StepHidden DEF GcCount
<1>22. ASSUME NEW r \in Reqs, GcRemove(r) PROVE [PS!PSNext]_(PS!pageVars)
    <2>1. /\ UNCHANGED <<quads, req, pc, seen, wire, status, window>>
          /\ collected' = collected \cup (blobs \cap {seen[r]})
        BY <1>22 DEF GcRemove
    <2>2. /\ req[r].method = "DELETE" /\ status[r] = 204 /\ seen[r] \in Hashes
          /\ \E p \in window[r] : seen[r] \in p
        BY <1>22, <1>l DEF GcRemove, Collecting, Witnessed
    <2>3. UNCHANGED <<[u \in Urls |-> Page(quads, u)], req,
                      [x \in Reqs |-> Phase(x)],
                      {x \in Reqs : wire[x] = "applied"}, status,
                      [x \in Reqs |-> Returned(x)], window>>
        BY <2>1 DEF Phase, Open, Returned
    <2>4. CASE collected' = collected
        BY <2>3, <2>4 DEF PS!pageVars
    <2>5. CASE collected' = collected \cup {seen[r]}
        <3>1. PS!Lose(seen[r])
            BY <2>2, <2>3, <2>5 DEF PS!Lose
        <3> QED
            BY <2>2, <3>1 DEF PS!PSNext
    <2> QED
        BY <2>1, <2>4, <2>5
<1>23. CASE Crash
    <2>1. /\ UNCHANGED <<quads, req, seen, wire, status, window, collected>>
          /\ pc' = [r \in Reqs |-> IF Open(r) THEN "done" ELSE pc[r]]
        BY <1>23 DEF Crash
    <2>2. \A x \in Reqs : Phase(x)' = IF Phase(x) = "open" THEN "done" ELSE Phase(x)
        BY <2>1, <1>t DEF Phase, Open
    <2>3. [x \in Reqs |-> Phase(x)]' =
             [x \in Reqs |-> IF [y \in Reqs |-> Phase(y)][x] = "open" THEN "done"
                             ELSE [y \in Reqs |-> Phase(y)][x]]
        BY <2>2
    <2>4. UNCHANGED <<[u \in Urls |-> Page(quads, u)], req,
                      {x \in Reqs : wire[x] = "applied"}, status,
                      [x \in Reqs |-> Returned(x)], window, collected>>
        BY <2>1 DEF Returned
    <2>5. PS!CutOff
        BY <2>3, <2>4 DEF PS!CutOff
    <2> QED
        BY <2>5 DEF PS!PSNext
<1>24. ASSUME NEW r \in Reqs, GcCountFails(r) PROVE [PS!PSNext]_(PS!pageVars)
    BY <1>24, <1>23 DEF GcCountFails
<1>25. CASE UNCHANGED vars
    BY <1>25 DEF vars, PS!pageVars, Phase, Open, Returned
<1> QED
    BY <1>1, <1>2, <1>3, <1>4, <1>5, <1>6, <1>7, <1>8, <1>9, <1>10, <1>11, <1>12, <1>13, <1>14, <1>15, <1>16, <1>17, <1>18, <1>19, <1>20, <1>21, <1>22, <1>23, <1>24, <1>25 DEF Next, HandlerStep, BodyStep, CollectorStep

WholeInv == /\ TypeInv /\ DanglingOnlyByRace /\ OneHash /\ OwnSubject
            /\ WitnessInv /\ AnswersJustified /\ CollectedOnlyAfterDelete

LEMMA WholeInitially == Init => WholeInv
BY TypeInit DEF Init, WholeInv, DanglingOnlyByRace, InUse, Referenced,
   Installed, OneHash, OwnSubject, WitnessInv, Witnessed, Open,
   AnswersJustified, AnswerJustified, CollectedOnlyAfterDelete

LEMMA WholeStep ==
    ASSUME OrderlyBundles, WholeInv, [Next]_vars
    PROVE  WholeInv'
BY TypeStep, BackedStep, OrderlyStep, WitnessStep, AnswersStep, CollectedStep
DEF WholeInv

\* Every answer describes the page as it was while the request was served.
THEOREM AnswersTellTheTruth == OrderlyBundles => (Spec => []AnswersJustified)
<1> SUFFICES ASSUME OrderlyBundles PROVE Spec => []AnswersJustified
    OBVIOUS
<1>1. WholeInv => AnswersJustified
    BY DEF WholeInv
<1>2. WholeInv /\ [Next]_vars => WholeInv'
    BY WholeStep
<1> QED
    BY WholeInitially, <1>1, <1>2, PTL DEF Spec

\* A file disappears only after the DELETE of a page that had its content.
THEOREM LossFollowsDelete == OrderlyBundles => (Spec => []CollectedOnlyAfterDelete)
<1> SUFFICES ASSUME OrderlyBundles PROVE Spec => []CollectedOnlyAfterDelete
    OBVIOUS
<1>1. WholeInv => CollectedOnlyAfterDelete
    BY DEF WholeInv
<1>2. WholeInv /\ [Next]_vars => WholeInv'
    BY WholeStep
<1> QED
    BY WholeInitially, <1>1, <1>2, PTL DEF Spec

\* The server keeps the promise of PageStore, when bundles are orderly.
THEOREM KeepsThePromise == OrderlyBundles => (Spec => ImplementsPageStore)
<1> SUFFICES ASSUME OrderlyBundles PROVE Spec => ImplementsPageStore
    OBVIOUS
<1>1. WholeInv /\ [Next]_vars => WholeInv'
    BY WholeStep
<1>2. WholeInv /\ [Next]_vars => [PS!PSNext]_(PS!pageVars)
    BY StepMaps DEF WholeInv
<1> QED
    BY WholeInitially, InitMaps, <1>1, <1>2, PTL
    DEF Spec, ImplementsPageStore, PS!PSSpec

=============================================================================
