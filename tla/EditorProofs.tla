---------------------------- MODULE EditorProofs ----------------------------
(***************************************************************************)
(* Proofs about Editor, for every value of its constants.                  *)
(***************************************************************************)
EXTENDS Editor, FiniteSetTheorems, TLAPS

(***************************************************************************)
(* What TypeOK says of windows and of requests.                            *)
(***************************************************************************)
WindowsOK ==
    /\ open \subseteq Editors
    /\ loads \in [Editors -> SUBSET Load]
    /\ opens \in 0 .. MaxOpens
    /\ docURL \in [Editors -> Docs] /\ hash \in [Editors -> Docs]
    /\ dirty \in [Editors -> BOOLEAN]
    /\ already \in [Editors -> BOOLEAN]
    /\ dialog \in [Editors -> Dialogs]
    /\ disturbed \subseteq Editors /\ failed \subseteq Editors

RequestsOK ==
    /\ sent \in 0 .. MaxPuts
    /\ puts \subseteq Put
    /\ onServer \subseteq Texts /\ excused \subseteq Texts

(***************************************************************************)
(* A text is known once it has been typed: no variable holds the number of *)
(* an edit still to come.                                                  *)
(***************************************************************************)
Typed == 0 .. edits \cup {Placeholder}

KnownTexts ==
    /\ edits \in 0 .. MaxEdits
    /\ text \in [Editors -> Typed] /\ base \in [Editors -> Typed]
    /\ server \in [Docs -> Typed]
    /\ store \in [Keys -> Typed \cup {None}]
    /\ \A p \in puts : p.data \in Typed

(***************************************************************************)
(* A timer is started when dirty is set, and dirty is reset when a timer   *)
(* fires, a load ends or a PUT is answered: timers, loads under way and a  *)
(* window that is not dirty weigh against the loads started and the PUTs   *)
(* answered.  A closed window has neither timers nor loads.                *)
(***************************************************************************)
Waited == {p \in puts : p.by # None}
Answered == sent - Cardinality(Waited)
Weight(e) == timers[e] + (IF dirty[e] THEN 0 ELSE 1)

AnswersOK == IsFiniteSet(Waited) /\ Answered \in Nat

TimersOK ==
    /\ AnswersOK
    /\ timers \in [Editors -> Nat]
    /\ \A e \in Editors :
          /\ IsFiniteSet(loads[e])
          /\ Weight(e) + Cardinality(loads[e]) <= 1 + opens + Answered
          /\ e \notin open => timers[e] = 0 /\ loads[e] = {}

TypeInv == WindowsOK /\ RequestsOK /\ KnownTexts /\ TimersOK

(***************************************************************************)
(* What the text is compared with is explained whether or not the text is  *)
(* clean; a closed window has the text windows are opened with.            *)
(***************************************************************************)
BaseExplained ==
    /\ 0 \in onServer
    /\ \A u \in Docs : server[u] \in onServer
    /\ \A p \in puts : p.stored => p.data \in onServer
    /\ \A e \in Editors : base[e] \in onServer \cup excused \cup {Placeholder}
    /\ \A e \in Editors \ open : text[e] = 0

(***************************************************************************)
(* A window that has something to back up, and failed at no backup since   *)
(* its text was clean, has a timer running.                                *)
(***************************************************************************)
TimerRuns == \A e \in Editors : dirty[e] => timers[e] > 0 \/ e \in failed

BackupInv == TypeInv /\ TimerRuns /\ BackedUpOrSoon

-----------------------------------------------------------------------------
(* Type correctness *)

LEMMA TypeInit == Init => TypeInv
<1> SUFFICES ASSUME Init PROVE TypeInv
    OBVIOUS
<1> USE BoundsAssumption DEF Init
<1>1. WindowsOK
    BY DEF WindowsOK, Docs, Dialogs
<1>2. RequestsOK
    BY DEF RequestsOK, Texts
<1>3. KnownTexts
    BY DEF KnownTexts, Typed
<1>4. AnswersOK /\ Answered = 0
    <2>1. Waited = {}
        BY DEF Waited
    <2> QED
        BY <2>1, FS_EmptySet DEF AnswersOK, Answered
<1>5. TimersOK
    BY <1>4, FS_EmptySet DEF TimersOK, Weight
<1> QED
    BY <1>1, <1>2, <1>3, <1>5 DEF TypeInv

LEMMA WindowsStep == TypeInv /\ [Next]_vars => WindowsOK'
<1> SUFFICES ASSUME TypeInv, [Next]_vars PROVE WindowsOK'
    OBVIOUS
<1>0. WindowsOK /\ puts \subseteq Put
    BY DEF TypeInv, RequestsOK
<1>01. /\ 0 \in 0 .. MaxOpens
       /\ \A i \in 0 .. MaxOpens : i < MaxOpens => i + 1 \in 1 .. MaxOpens
    BY BoundsAssumption
<1>02. \A i \in 1 .. MaxOpens, u \in Urls, a \in BOOLEAN :
          [id |-> i, url |-> u, asked |-> a] \in Load
    BY DEF Load
<1>03. /\ \A l \in Load : l.url \in Docs
       /\ \A p \in Put : p.url \in Docs /\ p.by \in Editors \cup {None}
    BY DEF Load, Put, Docs
<1>04. Urls \subseteq Docs /\ StartUrls \subseteq Docs /\ None \in Docs
       /\ \A u \in StartUrls : u = None \/ u \in Urls
    BY StartAssumption DEF Docs
<1>05. ASSUME NEW e \in Editors, NEW u \in Urls, NEW a \in BOOLEAN, NEW t,
              Begins(e, u, a, t)
       PROVE  /\ loads' \in [Editors -> SUBSET Load] /\ opens' \in 0 .. MaxOpens
              /\ UNCHANGED docURL
    <2>1. [id |-> opens + 1, url |-> u, asked |-> a] \in Load /\ opens' \in 0 .. MaxOpens
        BY <1>0, <1>01, <1>02, <1>05 DEF Begins, WindowsOK
    <2> QED
        BY <1>0, <1>05, <2>1 DEF Begins, WindowsOK
<1> USE <1>0, <1>01, <1>02, <1>03, <1>04 DEF WindowsOK, Dialogs
<1> USE DEF docVars, saveVars, netVars, backups
<1>1. ASSUME NEW e \in Editors, Edit(e) PROVE WindowsOK'
    BY <1>1 DEF Edit, Free, Changed
<1>2. ASSUME NEW e \in Editors, OpenSame(e) PROVE WindowsOK'
    BY <1>2 DEF OpenSame
<1>3. ASSUME NEW e \in Editors, AskUrl(e) PROVE WindowsOK'
    BY <1>3 DEF AskUrl, BacksUp, Free, Dirty, AutoSaves, Put2Store
<1>4. ASSUME NEW e \in Editors, OpenUrlFails(e) PROVE WindowsOK'
    BY <1>4 DEF OpenUrlFails, AutoSaveFails, Free, Dirty
<1>5. ASSUME NEW e \in Editors, Save(e) PROVE WindowsOK'
    BY <1>5 DEF Save, Sends, Free
<1>6. ASSUME NEW e \in Editors, AskWhere(e) PROVE WindowsOK'
    BY <1>6 DEF AskWhere, Free
<1>7. ASSUME NEW e \in Editors, Dismiss(e) PROVE WindowsOK'
    BY <1>7 DEF Dismiss
<1>8. ASSUME NEW e \in Editors, Close(e) PROVE WindowsOK'
    BY <1>8 DEF Close, Unwaited
<1>9. ASSUME NEW e \in Editors, TimerFires(e) PROVE WindowsOK'
    BY <1>9 DEF TimerFires, AutoSaves, AutoSaveFails, Put2Store
<1>10. ASSUME NEW e \in Editors, NEW u \in Urls, OpenUrl(e, u) PROVE WindowsOK'
    <2>1. /\ hash' \in [Editors -> Docs] /\ already' \in [Editors -> BOOLEAN]
          /\ disturbed' \subseteq Editors /\ UNCHANGED <<failed, dialog>>
        BY <1>10 DEF OpenUrl, BacksUp, AutoSaves, Put2Store
    <2>2. dirty' \in [Editors -> BOOLEAN]
        BY <1>10 DEF OpenUrl, MayChange, Changed
    <2>3. /\ loads' \in [Editors -> SUBSET Load] /\ opens' \in 0 .. MaxOpens
          /\ UNCHANGED <<open, docURL>>
        BY <1>10, <1>05 DEF OpenUrl
    <2> QED
        BY <2>1, <2>2, <2>3
<1>11. ASSUME NEW e \in Editors, NEW u \in Urls, Chosen(e, u) PROVE WindowsOK'
    BY <1>11, <1>05 DEF Chosen
<1>12. ASSUME NEW e \in Editors, NEW u \in Urls, SaveAs(e, u) PROVE WindowsOK'
    BY <1>12 DEF SaveAs, Sends
<1>13. ASSUME NEW e \in Editors, NEW u \in StartUrls, Start(e, u) PROVE WindowsOK'
    <2>1. CASE u = None
        BY <1>13, <2>1 DEF Start, Restore, Reset, Put2Store, MayChange, Changed
    <2>2. CASE u # None
        <3>1. Begins(e, u, FALSE, Placeholder) /\ u \in Urls
            BY <1>13, <2>2, <1>04 DEF Start
        <3>2. /\ loads' \in [Editors -> SUBSET Load] /\ opens' \in 0 .. MaxOpens
              /\ UNCHANGED docURL
            BY <3>1, <1>05
        <3>3. dirty' \in [Editors -> BOOLEAN]
            BY <1>13, <2>2 DEF Start, Begins, MayChange, Changed
        <3>4. open' \subseteq Editors /\ hash' \in [Editors -> Docs]
            BY <1>13 DEF Start
        <3>5. UNCHANGED <<dialog, already, failed, disturbed>>
            BY <1>13, <2>2 DEF Start, Begins
        <3> QED
            BY <3>2, <3>3, <3>4, <3>5
    <2> QED
        BY <2>1, <2>2
<1>14. ASSUME NEW e \in Editors, NEW l \in loads[e], Loaded(e, l) PROVE WindowsOK'
    BY <1>14 DEF Loaded, Hides, Restore, Reset, Put2Store, MayChange, Changed
<1>15. ASSUME NEW p \in puts, Stores(p) PROVE WindowsOK'
    BY <1>15 DEF Stores
<1>16. ASSUME NEW p \in puts, PutDone(p) PROVE WindowsOK'
    BY <1>16 DEF PutDone, Hides, Reset, Put2Store, Unwaited
<1>17. ASSUME NEW p \in puts, PutRefused(p) PROVE WindowsOK'
    BY <1>17 DEF PutRefused, Hides
<1>18. CASE UNCHANGED vars
    BY <1>18 DEF vars
<1> HIDE DEF WindowsOK
<1> QED
    BY <1>1, <1>2, <1>3, <1>4, <1>5, <1>6, <1>7, <1>8, <1>9,
       <1>10, <1>11, <1>12, <1>13, <1>14, <1>15, <1>16, <1>17, <1>18
       DEF Next

LEMMA RequestsStep == TypeInv /\ [Next]_vars => RequestsOK'
<1> SUFFICES ASSUME TypeInv, [Next]_vars PROVE RequestsOK'
    OBVIOUS
<1>0. /\ RequestsOK /\ edits \in 0 .. MaxEdits
      /\ text \in [Editors -> Typed] /\ Typed \subseteq Texts
      /\ docURL \in [Editors -> Docs]
    BY BoundsAssumption DEF TypeInv, KnownTexts, WindowsOK, Typed, Texts
<1>01. ASSUME NEW p \in Put
       PROVE  /\ [p EXCEPT !.by = None] \in Put
              /\ [p EXCEPT !.stored = TRUE] \in Put
              /\ p.by \in Editors \cup {None} /\ p.data \in Texts
    BY DEF Put
<1>02. ASSUME NEW e \in Editors, NEW u \in Docs, NEW d \in {"saveUrl", "saveUrlAs"},
              Sends(e, u, d)
       PROVE  RequestsOK'
    <2>1. sent + 1 \in 1 .. MaxPuts /\ text[e] \in Texts
        BY <1>0, <1>02, BoundsAssumption DEF Sends, RequestsOK
    <2>2. [id |-> sent + 1, by |-> e, url |-> u, from |-> d, data |-> text[e],
           stored |-> FALSE] \in Put
        BY <2>1 DEF Put
    <2>3. /\ puts' = puts \cup {[id |-> sent + 1, by |-> e, url |-> u, from |-> d,
                              data |-> text[e], stored |-> FALSE]}
          /\ sent' = sent + 1 /\ UNCHANGED <<onServer, excused>>
        BY <1>02 DEF Sends
    <2>4. puts' \subseteq Put
        BY <1>0, <2>2, <2>3 DEF RequestsOK
    <2>5. sent' \in 0 .. MaxPuts
        BY <2>1, <2>3
    <2> QED
        BY <1>0, <2>3, <2>4, <2>5 DEF RequestsOK
<1>03. ASSUME NEW P \in SUBSET Put PROVE Unwaited(P) \subseteq Put
    BY <1>01 DEF Unwaited
<1> USE <1>0, <1>01 DEF RequestsOK
<1> USE DEF docVars, saveVars, netVars, backups
<1>1. ASSUME NEW e \in Editors, Edit(e) PROVE RequestsOK'
    BY <1>1 DEF Edit, Free, Changed
<1>2. ASSUME NEW e \in Editors, OpenSame(e) PROVE RequestsOK'
    BY <1>2 DEF OpenSame
<1>3. ASSUME NEW e \in Editors, AskUrl(e) PROVE RequestsOK'
    BY <1>3 DEF AskUrl, BacksUp, Free, Dirty, AutoSaves, Put2Store
<1>4. ASSUME NEW e \in Editors, OpenUrlFails(e) PROVE RequestsOK'
    BY <1>4 DEF OpenUrlFails, AutoSaveFails, Free, Dirty
<1>5. ASSUME NEW e \in Editors, Save(e) PROVE RequestsOK'
    BY <1>5, <1>02 DEF Save, WindowsOK, TypeInv
<1>6. ASSUME NEW e \in Editors, AskWhere(e) PROVE RequestsOK'
    BY <1>6 DEF AskWhere, Free
<1>7. ASSUME NEW e \in Editors, Dismiss(e) PROVE RequestsOK'
    BY <1>7 DEF Dismiss
<1>8. ASSUME NEW e \in Editors, Close(e) PROVE RequestsOK'
    <2>1. {p \in puts : p.by = e} \in SUBSET Put
        OBVIOUS
    <2>2. Unwaited({p \in puts : p.by = e}) \subseteq Put
        BY <2>1, <1>03
    <2>3. puts' \subseteq Put
        BY <1>8, <2>2 DEF Close
    <2> QED
        BY <1>8, <2>3 DEF Close
<1>9. ASSUME NEW e \in Editors, TimerFires(e) PROVE RequestsOK'
    BY <1>9 DEF TimerFires, AutoSaves, AutoSaveFails, Put2Store
<1>10. ASSUME NEW e \in Editors, NEW u \in Urls, OpenUrl(e, u) PROVE RequestsOK'
    BY <1>10 DEF OpenUrl, BacksUp, Begins, Dirty, AutoSaves, Put2Store, MayChange, Changed
<1>11. ASSUME NEW e \in Editors, NEW u \in Urls, Chosen(e, u) PROVE RequestsOK'
    BY <1>11 DEF Chosen, Begins
<1>12. ASSUME NEW e \in Editors, NEW u \in Urls, SaveAs(e, u) PROVE RequestsOK'
    BY <1>12, <1>02 DEF SaveAs, Docs
<1>13. ASSUME NEW e \in Editors, NEW u \in StartUrls, Start(e, u) PROVE RequestsOK'
    BY <1>13 DEF Start, Begins, Restore, Reset, Put2Store, MayChange, Changed
<1>14. ASSUME NEW e \in Editors, NEW l \in loads[e], Loaded(e, l) PROVE RequestsOK'
    BY <1>14 DEF Loaded, Hides, Restore, Reset, Put2Store, MayChange, Changed
<1>15. ASSUME NEW p \in puts, Stores(p) PROVE RequestsOK'
    BY <1>15 DEF Stores
<1>16. ASSUME NEW p \in puts, PutDone(p) PROVE RequestsOK'
    <2>1. Unwaited({p}) \subseteq Put
        BY <1>03
    <2>2. puts' \subseteq Put
        BY <1>16, <2>1 DEF PutDone
    <2> QED
        BY <1>16, <2>2 DEF PutDone
<1>17. ASSUME NEW p \in puts, PutRefused(p) PROVE RequestsOK'
    BY <1>17 DEF PutRefused, Hides
<1>18. CASE UNCHANGED vars
    BY <1>18 DEF vars
<1> HIDE DEF RequestsOK
<1> QED
    BY <1>1, <1>2, <1>3, <1>4, <1>5, <1>6, <1>7, <1>8, <1>9,
       <1>10, <1>11, <1>12, <1>13, <1>14, <1>15, <1>16, <1>17, <1>18
       DEF Next

LEMMA TextsStep == TypeInv /\ [Next]_vars => KnownTexts'
<1> SUFFICES ASSUME TypeInv, [Next]_vars PROVE KnownTexts'
    OBVIOUS
<1>0. /\ KnownTexts /\ puts \subseteq Put
      /\ docURL \in [Editors -> Docs] /\ loads \in [Editors -> SUBSET Load]
    BY DEF TypeInv, WindowsOK, RequestsOK
<1>01. /\ \A l \in Load : l.url \in Docs
       /\ \A p \in Put : p.url \in Docs /\ p.by \in Editors \cup {None}
       /\ \A p \in Put : [p EXCEPT !.by = None].data = p.data
       /\ \A p \in Put : [p EXCEPT !.stored = TRUE].data = p.data
    BY DEF Load, Put, Docs
<1>02. /\ \A e \in Editors : Key(e) \in Keys
       /\ \A e \in Editors, u \in Docs : <<Prefix[e], u>> \in Keys
    BY <1>0, PrefixAssumption DEF Key, Keys
<1>03. ASSUME NEW P \in SUBSET puts, NEW q \in Unwaited(P) PROVE q.data \in Typed
    <2>1. PICK p \in P : q = [p EXCEPT !.by = None]
        BY <1>03 DEF Unwaited
    <2>2. q.data = p.data
        BY <1>0, <1>01, <2>1
    <2> QED
        BY <1>0, <2>2 DEF KnownTexts
<1>04. ASSUME NEW e \in Editors, NEW k \in Keys, NEW t \in Typed, Restore(e, k, t)
       PROVE  /\ text' \in [Editors -> Typed] /\ base' \in [Editors -> Typed]
              /\ store' \in [Keys -> Typed \cup {None}]
    <2>1. CASE text' = [text EXCEPT ![e] = t] /\ Reset(e, k)
        <3>1. text' \in [Editors -> Typed]
            BY <1>0, <2>1 DEF KnownTexts
        <3>2. base' \in [Editors -> Typed]
            BY <1>0, <2>1, <3>1 DEF KnownTexts, Reset
        <3>3. store' \in [Keys -> Typed \cup {None}]
            BY <1>0, <2>1 DEF KnownTexts, Reset, Put2Store
        <3> QED
            BY <3>1, <3>2, <3>3
    <2>2. CASE /\ store[k] # None /\ text' = [text EXCEPT ![e] = store[k]]
               /\ UNCHANGED <<base, store>>
        BY <1>0, <2>2 DEF KnownTexts
    <2> QED
        BY <1>04, <2>1, <2>2 DEF Restore
<1>05. KnownTexts => server \in [Docs -> Typed] /\ 0 \in Typed
    BY BoundsAssumption DEF KnownTexts, Typed
<1> USE <1>0, <1>01, <1>02, BoundsAssumption DEF KnownTexts, Typed
<1> USE DEF docVars, saveVars, netVars, backups
<1>1. ASSUME NEW e \in Editors, Edit(e) PROVE KnownTexts'
    BY <1>1 DEF Edit, Free, Changed
<1>2. ASSUME NEW e \in Editors, OpenSame(e) PROVE KnownTexts'
    BY <1>2 DEF OpenSame
<1>3. ASSUME NEW e \in Editors, AskUrl(e) PROVE KnownTexts'
    BY <1>3 DEF AskUrl, BacksUp, Free, Dirty, AutoSaves, Put2Store
<1>4. ASSUME NEW e \in Editors, OpenUrlFails(e) PROVE KnownTexts'
    BY <1>4 DEF OpenUrlFails, AutoSaveFails, Free, Dirty
<1>5. ASSUME NEW e \in Editors, Save(e) PROVE KnownTexts'
    BY <1>5 DEF Save, Sends, Free
<1>6. ASSUME NEW e \in Editors, AskWhere(e) PROVE KnownTexts'
    BY <1>6 DEF AskWhere, Free
<1>7. ASSUME NEW e \in Editors, Dismiss(e) PROVE KnownTexts'
    BY <1>7 DEF Dismiss
<1>8. ASSUME NEW e \in Editors, Close(e) PROVE KnownTexts'
    <2>1. \A q \in puts' : q.data \in Typed
        BY <1>8, <1>03 DEF Close
    <2> QED
        BY <1>8, <2>1 DEF Close
<1>9. ASSUME NEW e \in Editors, TimerFires(e) PROVE KnownTexts'
    BY <1>9 DEF TimerFires, AutoSaves, AutoSaveFails, Put2Store
<1>10. ASSUME NEW e \in Editors, NEW u \in Urls, OpenUrl(e, u) PROVE KnownTexts'
    BY <1>10, SMTT(30) DEF OpenUrl, BacksUp, Begins, Dirty, AutoSaves, Put2Store, MayChange, Changed
<1>11. ASSUME NEW e \in Editors, NEW u \in Urls, Chosen(e, u) PROVE KnownTexts'
    BY <1>11 DEF Chosen, Begins
<1>12. ASSUME NEW e \in Editors, NEW u \in Urls, SaveAs(e, u) PROVE KnownTexts'
    BY <1>12 DEF SaveAs, Sends
<1>13. ASSUME NEW e \in Editors, NEW u \in StartUrls, Start(e, u) PROVE KnownTexts'
    <2>1. UNCHANGED <<edits, server, puts>>
        BY <1>13 DEF Start
    <2>2. CASE u # None
        <3>1. text' = [text EXCEPT ![e] = Placeholder] /\ UNCHANGED <<base, store>>
            BY <1>13, <2>2 DEF Start, Begins
        <3> QED
            BY <2>1, <3>1
    <2>3. CASE u = None
        <3>1. Restore(e, Key(e), text[e])
            BY <1>13, <2>3 DEF Start
        <3>2. Key(e) \in Keys /\ text[e] \in Typed
            OBVIOUS
        <3>3. /\ text' \in [Editors -> Typed] /\ base' \in [Editors -> Typed]
              /\ store' \in [Keys -> Typed \cup {None}]
            BY <1>04, <3>1, <3>2
        <3> QED
            BY <2>1, <3>3
    <2> QED
        BY <2>2, <2>3
<1>14. ASSUME NEW e \in Editors, NEW l \in loads[e], Loaded(e, l) PROVE KnownTexts'
    <2>1. UNCHANGED <<edits, server, puts>>
        BY <1>14 DEF Loaded
    <2>2. l.url \in Docs
        BY <1>14
    <2>3. PICK t \in {server[l.url], 0} : Restore(e, <<Prefix[e], l.url>>, t)
        BY <1>14 DEF Loaded
    <2>4. t \in Typed /\ <<Prefix[e], l.url>> \in Keys
        BY <1>05, <2>2, <2>3
    <2>5. /\ text' \in [Editors -> Typed] /\ base' \in [Editors -> Typed]
          /\ store' \in [Keys -> Typed \cup {None}]
        BY <1>04, <2>3, <2>4
    <2> QED
        BY <2>1, <2>5
<1>15. ASSUME NEW p \in puts, Stores(p) PROVE KnownTexts'
    BY <1>15 DEF Stores
<1>16. ASSUME NEW p \in puts, PutDone(p) PROVE KnownTexts'
    <2>1. \A q \in puts' : q.data \in Typed
        BY <1>16, <1>03 DEF PutDone
    <2> QED
        BY <1>16, <2>1 DEF PutDone, Reset, Put2Store
<1>17. ASSUME NEW p \in puts, PutRefused(p) PROVE KnownTexts'
    BY <1>17 DEF PutRefused, Hides
<1>18. CASE UNCHANGED vars
    BY <1>18 DEF vars
<1> HIDE DEF KnownTexts
<1> QED
    BY <1>1, <1>2, <1>3, <1>4, <1>5, <1>6, <1>7, <1>8, <1>9,
       <1>10, <1>11, <1>12, <1>13, <1>14, <1>15, <1>16, <1>17, <1>18
       DEF Next

(* Counting *)

LEMMA AtMostOneMore ==
    ASSUME NEW S, NEW T, NEW x, IsFiniteSet(S), T \subseteq S \cup {x}
    PROVE  IsFiniteSet(T) /\ Cardinality(T) \in Nat /\ Cardinality(T) <= Cardinality(S) + 1
<1>1. /\ IsFiniteSet(S \cup {x}) /\ Cardinality(S) \in Nat
      /\ Cardinality(S \cup {x}) <= Cardinality(S) + 1
    <2>1. IsFiniteSet(S \cup {x}) /\ Cardinality(S) \in Nat
        BY FS_AddElement, FS_CardinalityType
    <2>2. CASE x \in S
        <3>1. S \cup {x} = S
            BY <2>2
        <3> QED
            BY <2>1, <3>1
    <2>3. CASE x \notin S
        <3>1. Cardinality(S \cup {x}) = Cardinality(S) + 1
            BY <2>3, FS_AddElement
        <3> QED
            BY <2>1, <3>1
    <2> QED
        BY <2>2, <2>3
<1>2. T \in SUBSET (S \cup {x})
    OBVIOUS
<1>3. IsFiniteSet(T) /\ Cardinality(T) <= Cardinality(S \cup {x})
    BY <1>1, <1>2, FS_Subset
<1>4. Cardinality(T) \in Nat /\ Cardinality(S \cup {x}) \in Nat
    BY <1>1, <1>3, FS_CardinalityType
<1> QED
    BY <1>1, <1>3, <1>4

LEMMA OneLess ==
    ASSUME NEW S, NEW T, NEW x \in S, IsFiniteSet(S), T \subseteq S \ {x}
    PROVE  IsFiniteSet(T) /\ Cardinality(T) \in Nat /\ Cardinality(T) <= Cardinality(S) - 1
<1>1. /\ IsFiniteSet(S \ {x}) /\ Cardinality(S) \in Nat
      /\ Cardinality(S \ {x}) = Cardinality(S) - 1
    BY FS_RemoveElement, FS_CardinalityType
<1>2. T \in SUBSET (S \ {x})
    OBVIOUS
<1>3. IsFiniteSet(T) /\ Cardinality(T) <= Cardinality(S \ {x})
    BY <1>1, <1>2, FS_Subset
<1>4. Cardinality(T) \in Nat
    BY <1>3, FS_CardinalityType
<1> QED
    BY <1>1, <1>3, <1>4

LEMMA NoMore ==
    ASSUME NEW S, NEW T, IsFiniteSet(S), T \subseteq S
    PROVE  IsFiniteSet(T) /\ Cardinality(T) \in Nat /\ Cardinality(T) <= Cardinality(S)
<1>1. T \in SUBSET S
    OBVIOUS
<1>2. IsFiniteSet(T) /\ Cardinality(T) <= Cardinality(S)
    BY <1>1, FS_Subset
<1> QED
    BY <1>2, FS_CardinalityType

\* An answer to a PUT is one more.
LEMMA OneAnswered ==
    ASSUME TypeInv, NEW p \in puts, PutDone(p) \/ PutRefused(p)
    PROVE  AnswersOK' /\ Answered' >= Answered + 1
<1>1. /\ sent \in Nat /\ IsFiniteSet(Waited) /\ Answered \in Nat
      /\ Cardinality(Waited) \in Nat
    BY FS_CardinalityType, BoundsAssumption DEF TypeInv, RequestsOK, TimersOK, AnswersOK
<1>2. p \in Waited
    BY DEF Waited, PutDone, PutRefused
<1>3. Waited' \subseteq Waited \ {p}
    <2>1. puts \subseteq Put
        BY DEF TypeInv, RequestsOK
    <2>2. ASSUME NEW q \in Unwaited({p}) PROVE q.by = None
        BY <2>1, <2>2 DEF Unwaited, Put
    <2> QED
        BY <2>2 DEF Waited, PutDone, PutRefused
<1>4. sent' = sent
    BY DEF PutDone, PutRefused, netVars
<1>5. /\ IsFiniteSet(Waited') /\ Cardinality(Waited') \in Nat
      /\ Cardinality(Waited') <= Cardinality(Waited) - 1
    BY <1>1, <1>2, <1>3, OneLess
<1> QED
    BY <1>1, <1>4, <1>5 DEF AnswersOK, Answered

LEMMA AnswersStep ==
    TypeInv /\ [Next]_vars => AnswersOK' /\ Answered' >= Answered
<1> DEFINE Goal == AnswersOK' /\ Answered' >= Answered
<1> SUFFICES ASSUME TypeInv, [Next]_vars PROVE Goal
    OBVIOUS
<1>0. /\ sent \in Nat /\ IsFiniteSet(Waited) /\ Answered \in Nat
      /\ Cardinality(Waited) \in Nat /\ puts \subseteq Put
    BY FS_CardinalityType, BoundsAssumption DEF TypeInv, RequestsOK, TimersOK, AnswersOK
<1>01. ASSUME UNCHANGED <<puts, sent>> PROVE Goal
    <2>1. Waited' = Waited
        BY <1>01 DEF Waited
    <2> QED
        BY <1>0, <1>01, <2>1 DEF AnswersOK, Answered
<1>02. ASSUME NEW e \in Editors, NEW u, NEW d, Sends(e, u, d) PROVE Goal
    <2>1. sent' = sent + 1
        BY <1>02 DEF Sends
    <2>2. Waited' \subseteq Waited \cup
              {[id |-> sent', by |-> e, url |-> u, from |-> d, data |-> text[e],
                stored |-> FALSE]}
        BY <1>02 DEF Sends, Waited
    <2>3. /\ IsFiniteSet(Waited') /\ Cardinality(Waited') \in Nat
          /\ Cardinality(Waited') <= Cardinality(Waited) + 1
        BY <1>0, <2>2, AtMostOneMore
    <2> QED
        BY <1>0, <2>1, <2>3 DEF AnswersOK, Answered
<1>03. ASSUME NEW e \in Editors, Close(e) PROVE Goal
    <2>1. ASSUME NEW P \in SUBSET puts, NEW q \in Unwaited(P) PROVE q.by = None
        BY <1>0, <2>1 DEF Unwaited, Put
    <2>2. Waited' \subseteq Waited /\ sent' = sent
        BY <1>03, <2>1 DEF Close, Waited
    <2>3. /\ IsFiniteSet(Waited') /\ Cardinality(Waited') \in Nat
          /\ Cardinality(Waited') <= Cardinality(Waited)
        BY <1>0, <2>2, NoMore
    <2> QED
        BY <1>0, <2>2, <2>3 DEF AnswersOK, Answered
<1>04. ASSUME NEW p \in puts, Stores(p) PROVE Goal
    <2>1. sent' = sent
        BY <1>04 DEF Stores
    <2>2. CASE p.by = None
        <3>1. Waited' \subseteq Waited
            BY <1>04, <2>2 DEF Stores, Waited
        <3>2. /\ IsFiniteSet(Waited') /\ Cardinality(Waited') \in Nat
              /\ Cardinality(Waited') <= Cardinality(Waited)
            BY <1>0, <3>1, NoMore
        <3> QED
            BY <1>0, <2>1, <3>2 DEF AnswersOK, Answered
    <2>3. CASE p.by # None
        <3>1. p \in Waited
            BY <2>3 DEF Waited
        <3>2. /\ IsFiniteSet(Waited \ {p})
              /\ Cardinality(Waited \ {p}) = Cardinality(Waited) - 1
            BY <1>0, <3>1, FS_RemoveElement
        <3>3. Waited' \subseteq (Waited \ {p}) \cup {[p EXCEPT !.stored = TRUE]}
            BY <1>04, <2>3 DEF Stores, Waited
        <3>4. /\ IsFiniteSet(Waited') /\ Cardinality(Waited') \in Nat
              /\ Cardinality(Waited') <= Cardinality(Waited \ {p}) + 1
            BY <3>2, <3>3, AtMostOneMore
        <3> QED
            BY <1>0, <2>1, <3>2, <3>4 DEF AnswersOK, Answered
    <2> QED
        BY <2>2, <2>3
<1> HIDE DEF Goal
<1> USE <1>01 DEF docVars, saveVars, netVars, backups
<1>1. ASSUME NEW e \in Editors, Edit(e) PROVE Goal
    BY <1>1 DEF Edit, Free, Changed
<1>2. ASSUME NEW e \in Editors, OpenSame(e) PROVE Goal
    BY <1>2 DEF OpenSame
<1>3. ASSUME NEW e \in Editors, AskUrl(e) PROVE Goal
    BY <1>3 DEF AskUrl, BacksUp, Free, Dirty, AutoSaves, Put2Store
<1>4. ASSUME NEW e \in Editors, OpenUrlFails(e) PROVE Goal
    BY <1>4 DEF OpenUrlFails, AutoSaveFails, Free, Dirty
<1>5. ASSUME NEW e \in Editors, Save(e) PROVE Goal
    BY <1>5, <1>02 DEF Save
<1>6. ASSUME NEW e \in Editors, AskWhere(e) PROVE Goal
    BY <1>6 DEF AskWhere, Free
<1>7. ASSUME NEW e \in Editors, Dismiss(e) PROVE Goal
    BY <1>7 DEF Dismiss
<1>8. ASSUME NEW e \in Editors, Close(e) PROVE Goal
    BY <1>8, <1>03
<1>9. ASSUME NEW e \in Editors, TimerFires(e) PROVE Goal
    BY <1>9 DEF TimerFires, AutoSaves, AutoSaveFails, Put2Store
<1>10. ASSUME NEW e \in Editors, NEW u \in Urls, OpenUrl(e, u) PROVE Goal
    BY <1>10 DEF OpenUrl, BacksUp, Begins, Dirty, AutoSaves, Put2Store, MayChange, Changed
<1>11. ASSUME NEW e \in Editors, NEW u \in Urls, Chosen(e, u) PROVE Goal
    BY <1>11 DEF Chosen, Begins
<1>12. ASSUME NEW e \in Editors, NEW u \in Urls, SaveAs(e, u) PROVE Goal
    BY <1>12, <1>02 DEF SaveAs
<1>13. ASSUME NEW e \in Editors, NEW u \in StartUrls, Start(e, u) PROVE Goal
    BY <1>13 DEF Start, Begins, Restore, Reset, Put2Store, MayChange, Changed
<1>14. ASSUME NEW e \in Editors, NEW l \in loads[e], Loaded(e, l) PROVE Goal
    BY <1>14 DEF Loaded, Hides, Restore, Reset, Put2Store, MayChange, Changed
<1>15. ASSUME NEW p \in puts, Stores(p) PROVE Goal
    BY <1>15, <1>04
<1>16. ASSUME NEW p \in puts, PutDone(p) PROVE Goal
    <2>1. AnswersOK' /\ Answered' >= Answered + 1 /\ Answered \in Nat
        BY <1>16, <1>0, OneAnswered
    <2> QED
        BY <2>1 DEF Goal, AnswersOK
<1>17. ASSUME NEW p \in puts, PutRefused(p) PROVE Goal
    <2>1. AnswersOK' /\ Answered' >= Answered + 1 /\ Answered \in Nat
        BY <1>17, <1>0, OneAnswered
    <2> QED
        BY <2>1 DEF Goal, AnswersOK
<1>18. CASE UNCHANGED vars
    BY <1>18 DEF vars
<1> QED
    BY <1>1, <1>2, <1>3, <1>4, <1>5, <1>6, <1>7, <1>8, <1>9,
       <1>10, <1>11, <1>12, <1>13, <1>14, <1>15, <1>16, <1>17, <1>18
       DEF Next

LEMMA TimersStep == TypeInv /\ [Next]_vars => TimersOK'
<1> SUFFICES ASSUME TypeInv, [Next]_vars PROVE TimersOK'
    OBVIOUS
<1>0. /\ TimersOK /\ open \subseteq Editors /\ opens \in Nat
      /\ loads \in [Editors -> SUBSET Load]
      /\ dirty \in [Editors -> BOOLEAN] /\ puts \subseteq Put
      /\ AnswersOK' /\ Answered' >= Answered /\ Answered \in Nat /\ Answered' \in Nat
    BY AnswersStep, BoundsAssumption
       DEF TypeInv, WindowsOK, RequestsOK, TimersOK, AnswersOK
<1>01. \A e \in Editors : Cardinality(loads[e]) \in Nat
    BY <1>0, FS_CardinalityType DEF TimersOK
<1>02. ASSUME NEW e \in Editors, Changed(e) \/ MayChange(e)
       PROVE  /\ timers' \in [Editors -> Nat]
              /\ \A x \in Editors : Weight(x)' = Weight(x)
              /\ \A x \in Editors \ {e} : timers'[x] = timers[x]
    BY <1>0, <1>02, SMTT(30) DEF Changed, MayChange, TimersOK, Weight
<1>03. ASSUME NEW e \in Editors, NEW u, NEW a, NEW t, Begins(e, u, a, t)
       PROVE  /\ opens' = opens + 1
              /\ \A x \in Editors : /\ IsFiniteSet(loads'[x]) /\ Cardinality(loads'[x]) \in Nat
                                    /\ Cardinality(loads'[x]) <= Cardinality(loads[x]) + 1
              /\ \A x \in Editors \ {e} : loads'[x] = loads[x]
    <2>1. /\ opens' = opens + 1
          /\ loads'[e] \subseteq loads[e] \cup {[id |-> opens', url |-> u, asked |-> a]}
          /\ \A x \in Editors \ {e} : loads'[x] = loads[x]
        BY <1>0, <1>03 DEF Begins
    <2>2. \A x \in Editors : IsFiniteSet(loads[x])
        BY <1>0 DEF TimersOK
    <2>3. /\ IsFiniteSet(loads'[e]) /\ Cardinality(loads'[e]) \in Nat
          /\ Cardinality(loads'[e]) <= Cardinality(loads[e]) + 1
        BY <2>1, <2>2, AtMostOneMore
    <2> QED
        BY <1>01, <2>1, <2>2, <2>3
<1>04. /\ IsFiniteSet({}) /\ Cardinality({}) = 0
       /\ \A l : IsFiniteSet({l}) /\ Cardinality({l}) = 1
    BY FS_EmptySet, FS_Singleton
<1>06. \A x \in Editors : Weight(x) \in Nat
    BY <1>0 DEF TimersOK, Weight
<1>07. ASSUME timers' \in [Editors -> Nat], opens' \in Nat,
              \A x \in Editors : /\ IsFiniteSet(loads'[x]) /\ Cardinality(loads'[x]) \in Nat
                                 /\ Weight(x)' \in Nat
                                 /\ Weight(x)' + Cardinality(loads'[x])
                                       <= 1 + opens' + Answered'
                                 /\ x \notin open' => timers'[x] = 0 /\ loads'[x] = {}
       PROVE  TimersOK'
    BY <1>0, <1>07 DEF TimersOK
<1>08. ASSUME timers' \in [Editors -> Nat], UNCHANGED <<loads, opens>>,
              \A x \in Editors : Weight(x)' \in Nat /\ Weight(x)' <= Weight(x),
              \A x \in Editors : x \notin open' => x \notin open /\ timers'[x] = timers[x]
       PROVE  TimersOK'
    BY <1>0, <1>01, <1>06, <1>07, <1>08 DEF TimersOK
<1>09. ASSUME UNCHANGED <<loads, opens, open, timers, dirty>> PROVE TimersOK'
    <2>1. \A x \in Editors : Weight(x)' = Weight(x)
        BY <1>09 DEF Weight
    <2>2. timers' \in [Editors -> Nat]
        BY <1>0, <1>09 DEF TimersOK
    <2> QED
        BY <1>06, <1>08, <1>09, <2>1, <2>2
<1>20. ASSUME NEW e \in open, timers' \in [Editors -> Nat],
              \A x \in Editors : Weight(x)' = Weight(x),
              \A x \in Editors \ {e} : timers'[x] = timers[x],
              NEW u, NEW a, NEW t, Begins(e, u, a, t), UNCHANGED open
       PROVE  TimersOK'
    <2>1. open' = open
        BY <1>20
    <2>2. /\ opens' = opens + 1
          /\ \A x \in Editors : /\ IsFiniteSet(loads'[x]) /\ Cardinality(loads'[x]) \in Nat
                                /\ Cardinality(loads'[x]) <= Cardinality(loads[x]) + 1
          /\ \A x \in Editors \ {e} : loads'[x] = loads[x]
        BY <1>0, <1>03, <1>20
    <2>3. \A x \in Editors : /\ Weight(x)' + Cardinality(loads'[x]) <= 1 + opens' + Answered'
                             /\ x \notin open' => timers'[x] = 0 /\ loads'[x] = {}
        BY <1>0, <1>01, <1>06, <1>20, <2>1, <2>2 DEF TimersOK
    <2> QED
        BY <1>0, <1>06, <1>07, <1>20, <2>2, <2>3
<1> USE DEF docVars, saveVars, netVars, backups
<1>1. ASSUME NEW e \in Editors, Edit(e) PROVE TimersOK'
    <2>1. /\ timers' \in [Editors -> Nat]
          /\ \A x \in Editors : Weight(x)' = Weight(x)
          /\ \A x \in Editors \ {e} : timers'[x] = timers[x]
        BY <1>1, <1>02 DEF Edit
    <2>2. UNCHANGED <<loads, opens, open>> /\ e \in open
        BY <1>1 DEF Edit, Free
    <2> QED
        BY <2>1, <2>2, <1>06, <1>08
<1>2. ASSUME NEW e \in Editors, OpenSame(e) PROVE TimersOK'
    BY <1>2, <1>09 DEF OpenSame
<1>3. ASSUME NEW e \in Editors, AskUrl(e) PROVE TimersOK'
    BY <1>3, <1>09 DEF AskUrl
<1>4. ASSUME NEW e \in Editors, OpenUrlFails(e) PROVE TimersOK'
    BY <1>4, <1>09 DEF OpenUrlFails
<1>5. ASSUME NEW e \in Editors, Save(e) PROVE TimersOK'
    BY <1>5, <1>09 DEF Save, Sends
<1>6. ASSUME NEW e \in Editors, AskWhere(e) PROVE TimersOK'
    BY <1>6, <1>09 DEF AskWhere
<1>7. ASSUME NEW e \in Editors, Dismiss(e) PROVE TimersOK'
    BY <1>7, <1>09 DEF Dismiss
<1>8. ASSUME NEW e \in Editors, Close(e) PROVE TimersOK'
    <2>1. /\ timers' = [timers EXCEPT ![e] = 0] /\ dirty' = [dirty EXCEPT ![e] = FALSE]
          /\ loads' = [loads EXCEPT ![e] = {}] /\ opens' = opens /\ open' = open \ {e}
        BY <1>8 DEF Close
    <2>2. /\ timers' \in [Editors -> Nat] /\ Weight(e)' = 1
          /\ loads'[e] = {} /\ timers'[e] = 0
          /\ \A x \in Editors \ {e} :
                Weight(x)' = Weight(x) /\ loads'[x] = loads[x] /\ timers'[x] = timers[x]
        BY <1>0, <2>1 DEF TimersOK, Weight
    <2>3. \A x \in Editors : /\ IsFiniteSet(loads'[x]) /\ Cardinality(loads'[x]) \in Nat
                             /\ Weight(x)' \in Nat
                             /\ Weight(x)' + Cardinality(loads'[x]) <= 1 + opens' + Answered'
                             /\ x \notin open' => timers'[x] = 0 /\ loads'[x] = {}
        BY <1>0, <1>01, <1>04, <1>06, <2>1, <2>2 DEF TimersOK
    <2> QED
        BY <1>0, <1>07, <2>1, <2>2, <2>3
<1>9. ASSUME NEW e \in Editors, TimerFires(e) PROVE TimersOK'
    <2>1. timers' \in [Editors -> Nat]
        BY <1>9, <1>0 DEF TimerFires, TimersOK
    <2>2. \A x \in Editors : /\ Weight(x)' \in Nat /\ Weight(x)' <= Weight(x)
                             /\ x # e => timers'[x] = timers[x]
        BY <1>9, <1>0 DEF TimerFires, TimersOK, Weight
    <2>3. UNCHANGED <<loads, opens, open>> /\ e \in open
        BY <1>9 DEF TimerFires
    <2> QED
        BY <2>1, <2>2, <2>3, <1>08
<1>10. ASSUME NEW e \in Editors, NEW u \in Urls, OpenUrl(e, u) PROVE TimersOK'
    <2>1. CASE Begins(e, u, FALSE, Placeholder) /\ MayChange(e)
        <3>1. /\ timers' \in [Editors -> Nat]
              /\ \A x \in Editors : Weight(x)' = Weight(x)
              /\ \A x \in Editors \ {e} : timers'[x] = timers[x]
            BY <2>1, <1>02
        <3> QED
            BY <1>10, <2>1, <3>1, <1>20 DEF OpenUrl
    <2>2. CASE UNCHANGED <<loads, docURL, text, base, opens, dirty, timers>>
        BY <1>10, <2>2, <1>09 DEF OpenUrl
    <2> QED
        BY <1>10, <2>1, <2>2 DEF OpenUrl
<1>11. ASSUME NEW e \in Editors, NEW u \in Urls, Chosen(e, u) PROVE TimersOK'
    <2>1. /\ timers' \in [Editors -> Nat]
          /\ \A x \in Editors : Weight(x)' = Weight(x)
          /\ \A x \in Editors \ {e} : timers'[x] = timers[x]
        BY <1>11, <1>0 DEF Chosen, TimersOK, Weight
    <2> QED
        BY <1>11, <2>1, <1>20 DEF Chosen
<1>12. ASSUME NEW e \in Editors, NEW u \in Urls, SaveAs(e, u) PROVE TimersOK'
    BY <1>12, <1>09 DEF SaveAs, Sends
<1>13. ASSUME NEW e \in Editors, NEW u \in StartUrls, Start(e, u) PROVE TimersOK'
    <2>1. timers[e] = 0 /\ loads[e] = {} /\ open' = open \cup {e}
        BY <1>13, <1>0 DEF Start, TimersOK
    <2>2. /\ timers' \in [Editors -> Nat] /\ timers'[e] \in 0 .. 1
          /\ Weight(e)' \in 0 .. 1
          /\ \A x \in Editors \ {e} : Weight(x)' = Weight(x) /\ timers'[x] = timers[x]
        <3>1. CASE Changed(e) \/ MayChange(e)
            <4>1. /\ timers' \in [Editors -> Nat]
                  /\ \A x \in Editors : Weight(x)' = Weight(x)
                  /\ \A x \in Editors \ {e} : timers'[x] = timers[x]
                BY <1>02, <3>1
            <4>2. Weight(e) \in 0 .. 1
                BY <2>1 DEF Weight
            <4>3. timers'[e] \in 0 .. 1
                BY <1>0, <2>1, <3>1 DEF MayChange, Changed, TimersOK
            <4> QED
                BY <4>1, <4>2, <4>3
        <3>2. CASE Reset(e, Key(e))
            BY <1>0, <2>1, <3>2 DEF Reset, TimersOK, Weight
        <3> QED
            BY <1>13, <3>1, <3>2 DEF Start, Restore
    <2>3. /\ IsFiniteSet(loads'[e]) /\ Cardinality(loads'[e]) \in 0 .. 1
          /\ \A x \in Editors \ {e} : loads'[x] = loads[x]
          /\ opens' \in {opens, opens + 1}
          /\ Cardinality(loads'[e]) + opens <= opens'
        <3>1. CASE u = None
            <4>1. loads' = loads /\ opens' = opens
                BY <1>13, <3>1 DEF Start
            <4> QED
                BY <1>0, <1>04, <2>1, <4>1
        <3>2. CASE u # None
            <4>1. Begins(e, u, FALSE, Placeholder)
                BY <1>13, <3>2 DEF Start
            <4>2. /\ opens' = opens + 1
                  /\ \A x \in Editors \ {e} : loads'[x] = loads[x]
                BY <4>1, <1>03
            <4>3. loads'[e] = {[id |-> opens', url |-> u, asked |-> FALSE]}
                BY <4>1, <1>0, <2>1 DEF Begins
            <4>4. IsFiniteSet(loads'[e]) /\ Cardinality(loads'[e]) = 1
                BY <1>04, <4>3
            <4> QED
                BY <1>0, <4>2, <4>4
        <3> QED
            BY <3>1, <3>2
    <2>4. \A x \in Editors : /\ IsFiniteSet(loads'[x]) /\ Cardinality(loads'[x]) \in Nat
                             /\ Weight(x)' \in Nat
                             /\ Weight(x)' + Cardinality(loads'[x]) <= 1 + opens' + Answered'
                             /\ x \notin open' => timers'[x] = 0 /\ loads'[x] = {}
        BY <1>0, <1>01, <1>06, <2>1, <2>2, <2>3 DEF TimersOK
    <2> QED
        BY <1>0, <1>07, <2>1, <2>2, <2>3, <2>4
<1>14. ASSUME NEW e \in Editors, NEW l \in loads[e], Loaded(e, l) PROVE TimersOK'
    <2>1. e \in open /\ IsFiniteSet(loads[e])
        BY <1>14, <1>0 DEF Loaded, TimersOK
    <2>2. /\ IsFiniteSet(loads'[e]) /\ Cardinality(loads'[e]) \in Nat
          /\ Cardinality(loads'[e]) <= Cardinality(loads[e]) - 1
          /\ \A x \in Editors \ {e} : loads'[x] = loads[x]
        <3>1. /\ loads'[e] = loads[e] \ {l}
              /\ \A x \in Editors \ {e} : loads'[x] = loads[x]
            BY <1>14, <1>0 DEF Loaded
        <3>2. /\ IsFiniteSet(loads'[e]) /\ Cardinality(loads'[e]) \in Nat
              /\ Cardinality(loads'[e]) <= Cardinality(loads[e]) - 1
            BY <2>1, <3>1, OneLess
        <3> QED
            BY <3>1, <3>2
    <2>3. /\ timers' \in [Editors -> Nat] /\ Weight(e)' <= Weight(e) + 1 /\ Weight(e)' \in Nat
          /\ \A x \in Editors \ {e} : Weight(x)' = Weight(x) /\ timers'[x] = timers[x]
        <3>1. CASE MayChange(e)
            BY <1>02, <1>06, <3>1
        <3>2. CASE Reset(e, <<Prefix[e], l.url>>)
            BY <1>0, <3>2 DEF Reset, TimersOK, Weight
        <3> QED
            BY <1>14, <3>1, <3>2 DEF Loaded, Restore
    <2>4. UNCHANGED <<open, opens>>
        BY <1>14 DEF Loaded
    <2>5. \A x \in Editors : /\ IsFiniteSet(loads'[x]) /\ Cardinality(loads'[x]) \in Nat
                             /\ Weight(x)' \in Nat
                             /\ Weight(x)' + Cardinality(loads'[x]) <= 1 + opens' + Answered'
                             /\ x \notin open' => timers'[x] = 0 /\ loads'[x] = {}
        BY <1>0, <1>01, <1>06, <2>1, <2>2, <2>3, <2>4 DEF TimersOK
    <2> QED
        BY <1>0, <1>07, <2>3, <2>4, <2>5
<1>15. ASSUME NEW p \in puts, Stores(p) PROVE TimersOK'
    BY <1>15, <1>09 DEF Stores
<1>16. ASSUME NEW p \in puts, PutDone(p) PROVE TimersOK'
    <2>1. Answered' >= Answered + 1
        BY <1>16, OneAnswered
    <2>2. UNCHANGED <<open, opens, loads>> /\ Reset(p.by, <<Prefix[p.by], p.url>>)
        BY <1>16 DEF PutDone
    <2>3. /\ timers' \in [Editors -> Nat] /\ timers' = timers
          /\ \A x \in Editors : Weight(x)' <= Weight(x) + 1 /\ Weight(x)' \in Nat
        BY <1>0, <2>2 DEF Reset, TimersOK, Weight
    <2>4. \A x \in Editors : /\ IsFiniteSet(loads'[x]) /\ Cardinality(loads'[x]) \in Nat
                             /\ Weight(x)' + Cardinality(loads'[x]) <= 1 + opens' + Answered'
                             /\ x \notin open' => timers'[x] = 0 /\ loads'[x] = {}
        BY <1>0, <1>01, <1>06, <2>1, <2>2, <2>3 DEF TimersOK
    <2> QED
        BY <1>0, <1>07, <2>2, <2>3, <2>4
<1>17. ASSUME NEW p \in puts, PutRefused(p) PROVE TimersOK'
    BY <1>17, <1>09 DEF PutRefused
<1>18. CASE UNCHANGED vars
    BY <1>18, <1>09 DEF vars
<1> QED
    BY <1>1, <1>2, <1>3, <1>4, <1>5, <1>6, <1>7, <1>8, <1>9,
       <1>10, <1>11, <1>12, <1>13, <1>14, <1>15, <1>16, <1>17, <1>18
       DEF Next

LEMMA TypeStep == TypeInv /\ [Next]_vars => TypeInv'
BY WindowsStep, RequestsStep, TextsStep, TimersStep DEF TypeInv

\* Windows, documents, loads, PUTs and backups stay what they are, and no
\* window has more timers pending than times its text can have become clean,
\* and one: change events do not pile timers up (plugin.js:73-95).
THEOREM TypeCorrect == Spec => []TypeOK
<1>1. TypeInv => TypeOK
    <2> SUFFICES ASSUME TypeInv PROVE TypeOK
        OBVIOUS
    <2> USE BoundsAssumption
    <2>1. WindowsOK /\ RequestsOK /\ KnownTexts /\ TimersOK
        BY DEF TypeInv
    <2>2. Typed \subseteq Texts
        BY <2>1 DEF KnownTexts, Typed, Texts
    <2>3. ASSUME NEW e \in Editors PROVE timers[e] \in 0 .. MaxOpens + MaxPuts + 1
        <3>1. /\ timers[e] \in Nat /\ Cardinality(loads[e]) \in Nat /\ dirty[e] \in BOOLEAN
              /\ Weight(e) + Cardinality(loads[e]) <= 1 + opens + Answered
            BY <2>1, FS_CardinalityType DEF TimersOK, WindowsOK
        <3>2. Answered \in Nat /\ Answered <= sent
            BY <2>1, FS_CardinalityType DEF TimersOK, AnswersOK, Answered, RequestsOK
        <3>3. opens \in 0 .. MaxOpens /\ sent \in 0 .. MaxPuts
            BY <2>1 DEF WindowsOK, RequestsOK
        <3> QED
            BY <3>1, <3>2, <3>3 DEF Weight
    <2>4. timers \in [Editors -> 0 .. MaxOpens + MaxPuts + 1]
        BY <2>1, <2>3 DEF TimersOK
    <2>5. /\ text \in [Editors -> Texts] /\ base \in [Editors -> Texts]
          /\ server \in [Docs -> Texts] /\ store \in [Keys -> Texts \cup {None}]
        BY <2>1, <2>2 DEF KnownTexts
    <2> QED
        BY <2>1, <2>4, <2>5 DEF WindowsOK, RequestsOK, KnownTexts, TypeOK
<1> QED
    BY TypeInit, TypeStep, <1>1, PTL DEF Spec

-----------------------------------------------------------------------------
(* Texts declared clean *)

LEMMA ExplainedStep ==
    TypeInv /\ BaseExplained /\ [Next]_vars => BaseExplained'
<1> SUFFICES ASSUME TypeInv, BaseExplained, [Next]_vars PROVE BaseExplained'
    OBVIOUS
<1>0. /\ puts \subseteq Put /\ loads \in [Editors -> SUBSET Load]
      /\ text \in [Editors -> Typed] /\ base \in [Editors -> Typed]
      /\ server \in [Docs -> Typed]
      /\ open \subseteq Editors /\ \A e \in Editors : loads[e] # {} => e \in open
    BY DEF TypeInv, WindowsOK, RequestsOK, KnownTexts, TimersOK
<1>01. /\ \A l \in Load : l.url \in Docs
       /\ \A p \in Put : p.url \in Docs /\ p.by \in Editors \cup {None}
       /\ \A p \in Put : [p EXCEPT !.stored = TRUE].data = p.data
    BY DEF Load, Put, Docs
<1>02. ASSUME NEW P \in SUBSET puts, NEW q \in Unwaited(P) PROVE ~q.stored
    BY <1>0, <1>02 DEF Unwaited, Put
<1> USE <1>0, <1>01 DEF BaseExplained
<1> USE DEF docVars, saveVars, netVars, backups
<1>1. ASSUME NEW e \in Editors, Edit(e) PROVE BaseExplained'
    BY <1>1 DEF Edit, Free, Changed
<1>2. ASSUME NEW e \in Editors, OpenSame(e) PROVE BaseExplained'
    BY <1>2 DEF OpenSame
<1>3. ASSUME NEW e \in Editors, AskUrl(e) PROVE BaseExplained'
    BY <1>3 DEF AskUrl, BacksUp, Free, Dirty, AutoSaves, Put2Store
<1>4. ASSUME NEW e \in Editors, OpenUrlFails(e) PROVE BaseExplained'
    BY <1>4 DEF OpenUrlFails, AutoSaveFails, Free, Dirty
<1>5. ASSUME NEW e \in Editors, Save(e) PROVE BaseExplained'
    BY <1>5 DEF Save, Sends, Free
<1>6. ASSUME NEW e \in Editors, AskWhere(e) PROVE BaseExplained'
    BY <1>6 DEF AskWhere, Free
<1>7. ASSUME NEW e \in Editors, Dismiss(e) PROVE BaseExplained'
    BY <1>7 DEF Dismiss
<1>8. ASSUME NEW e \in Editors, Close(e) PROVE BaseExplained'
    <2>1. \A q \in puts' : q.stored => q.data \in onServer
        BY <1>8, <1>02 DEF Close
    <2> QED
        BY <1>8, <2>1 DEF Close
<1>9. ASSUME NEW e \in Editors, TimerFires(e) PROVE BaseExplained'
    BY <1>9 DEF TimerFires, AutoSaves, AutoSaveFails, Put2Store
<1>10. ASSUME NEW e \in Editors, NEW u \in Urls, OpenUrl(e, u) PROVE BaseExplained'
    BY <1>10 DEF OpenUrl, BacksUp, Begins, Dirty, AutoSaves, Put2Store, MayChange, Changed
<1>11. ASSUME NEW e \in Editors, NEW u \in Urls, Chosen(e, u) PROVE BaseExplained'
    BY <1>11 DEF Chosen, Begins
<1>12. ASSUME NEW e \in Editors, NEW u \in Urls, SaveAs(e, u) PROVE BaseExplained'
    BY <1>12 DEF SaveAs, Sends
<1>13. ASSUME NEW e \in Editors, NEW u \in StartUrls, Start(e, u) PROVE BaseExplained'
    <2>1. CASE u = None
        BY <1>13, <2>1 DEF Start, Restore, Reset
    <2>2. CASE u # None
        BY <1>13, <2>2 DEF Start, Begins
    <2> QED
        BY <2>1, <2>2
<1>14. ASSUME NEW e \in Editors, NEW l \in loads[e], Loaded(e, l) PROVE BaseExplained'
    BY <1>14 DEF Loaded, Hides, Restore, Reset, Put2Store, MayChange, Changed
<1>15. ASSUME NEW p \in puts, Stores(p) PROVE BaseExplained'
    BY <1>15 DEF Stores
<1>16. ASSUME NEW p \in puts, PutDone(p) PROVE BaseExplained'
    <2>1. \A q \in puts' : q.stored => q.data \in onServer
        BY <1>16, <1>02 DEF PutDone
    <2> QED
        BY <1>16, <2>1 DEF PutDone, Reset
<1>17. ASSUME NEW p \in puts, PutRefused(p) PROVE BaseExplained'
    BY <1>17 DEF PutRefused, Hides
<1>18. CASE UNCHANGED vars
    BY <1>18 DEF vars
<1> HIDE DEF BaseExplained
<1> QED
    BY <1>1, <1>2, <1>3, <1>4, <1>5, <1>6, <1>7, <1>8, <1>9,
       <1>10, <1>11, <1>12, <1>13, <1>14, <1>15, <1>16, <1>17, <1>18
       DEF Next

\* A window closes without a warning only over a text that the server has
\* held, or that an answer about an older text, or a broken connection, has
\* declared clean (plugin.js:11-20, 51-57, 144-178).
THEOREM CleanIsExplained == Spec => []CleanExplained
<1>1. Init => TypeInv /\ BaseExplained
    BY TypeInit DEF Init, BaseExplained
<1>2. TypeInv /\ BaseExplained /\ [Next]_vars => (TypeInv /\ BaseExplained)'
    BY TypeStep, ExplainedStep
<1>3. TypeInv /\ BaseExplained => CleanExplained
    BY DEF TypeInv, WindowsOK, BaseExplained, CleanExplained, Dirty
<1> QED
    BY <1>1, <1>2, <1>3, PTL DEF Spec

-----------------------------------------------------------------------------
(* The backup *)

LEMMA TimerRunsStep == TypeInv /\ TimerRuns /\ [Next]_vars => TimerRuns'
<1> SUFFICES ASSUME TypeInv, TimerRuns, [Next]_vars PROVE TimerRuns'
    OBVIOUS
<1>0. /\ timers \in [Editors -> Nat] /\ dirty \in [Editors -> BOOLEAN]
      /\ puts \subseteq Put /\ failed \subseteq Editors
    BY DEF TypeInv, TimersOK, WindowsOK, RequestsOK
<1> USE <1>0 DEF TimerRuns
<1> USE DEF docVars, saveVars, netVars, backups
<1>1. ASSUME NEW e \in Editors, Edit(e) PROVE TimerRuns'
    BY <1>1 DEF Edit, Free, Changed
<1>2. ASSUME NEW e \in Editors, OpenSame(e) PROVE TimerRuns'
    BY <1>2 DEF OpenSame
<1>3. ASSUME NEW e \in Editors, AskUrl(e) PROVE TimerRuns'
    BY <1>3 DEF AskUrl, BacksUp, Free, Dirty, AutoSaves, Put2Store
<1>4. ASSUME NEW e \in Editors, OpenUrlFails(e) PROVE TimerRuns'
    BY <1>4 DEF OpenUrlFails, AutoSaveFails, Free, Dirty
<1>5. ASSUME NEW e \in Editors, Save(e) PROVE TimerRuns'
    BY <1>5 DEF Save, Sends, Free
<1>6. ASSUME NEW e \in Editors, AskWhere(e) PROVE TimerRuns'
    BY <1>6 DEF AskWhere, Free
<1>7. ASSUME NEW e \in Editors, Dismiss(e) PROVE TimerRuns'
    BY <1>7 DEF Dismiss
<1>8. ASSUME NEW e \in Editors, Close(e) PROVE TimerRuns'
    BY <1>8 DEF Close, Unwaited
<1>9. ASSUME NEW e \in Editors, TimerFires(e) PROVE TimerRuns'
    BY <1>9 DEF TimerFires, AutoSaves, AutoSaveFails, Put2Store
<1>10. ASSUME NEW e \in Editors, NEW u \in Urls, OpenUrl(e, u) PROVE TimerRuns'
    BY <1>10 DEF OpenUrl, BacksUp, Begins, Dirty, AutoSaves, Put2Store, MayChange, Changed
<1>11. ASSUME NEW e \in Editors, NEW u \in Urls, Chosen(e, u) PROVE TimerRuns'
    BY <1>11 DEF Chosen, Begins
<1>12. ASSUME NEW e \in Editors, NEW u \in Urls, SaveAs(e, u) PROVE TimerRuns'
    BY <1>12 DEF SaveAs, Sends
<1>13. ASSUME NEW e \in Editors, NEW u \in StartUrls, Start(e, u) PROVE TimerRuns'
    <2>1. CASE u = None
        BY <1>13, <2>1 DEF Start, Restore, Reset, MayChange, Changed
    <2>2. CASE u # None
        BY <1>13, <2>2 DEF Start, Begins, MayChange, Changed
    <2> QED
        BY <2>1, <2>2
<1>14. ASSUME NEW e \in Editors, NEW l \in loads[e], Loaded(e, l) PROVE TimerRuns'
    BY <1>14 DEF Loaded, Hides, Restore, Reset, Put2Store, MayChange, Changed
<1>15. ASSUME NEW p \in puts, Stores(p) PROVE TimerRuns'
    BY <1>15 DEF Stores
<1>16. ASSUME NEW p \in puts, PutDone(p) PROVE TimerRuns'
    BY <1>16 DEF PutDone, Hides, Reset, Put2Store, Unwaited
<1>17. ASSUME NEW p \in puts, PutRefused(p) PROVE TimerRuns'
    BY <1>17 DEF PutRefused, Hides
<1>18. CASE UNCHANGED vars
    BY <1>18 DEF vars
<1> HIDE DEF TimerRuns
<1> QED
    BY <1>1, <1>2, <1>3, <1>4, <1>5, <1>6, <1>7, <1>8, <1>9,
       <1>10, <1>11, <1>12, <1>13, <1>14, <1>15, <1>16, <1>17, <1>18
       DEF Next

LEMMA BackupStep ==
    TypeInv /\ TimerRuns /\ BackedUpOrSoon /\ [Next]_vars => BackedUpOrSoon'
<1> SUFFICES ASSUME TypeInv, TimerRuns, BackedUpOrSoon, [Next]_vars
             PROVE  BackedUpOrSoon'
    OBVIOUS
<1>0. /\ open \subseteq Editors
      /\ docURL \in [Editors -> Docs] /\ loads \in [Editors -> SUBSET Load]
      /\ dirty \in [Editors -> BOOLEAN] /\ timers \in [Editors -> Nat]
      /\ text \in [Editors -> Typed] /\ base \in [Editors -> Typed]
      /\ store \in [Keys -> Typed \cup {None}] /\ puts \subseteq Put
      /\ TimerRuns'
    BY TimerRunsStep DEF TypeInv, TimersOK, WindowsOK, RequestsOK, KnownTexts
<1>01. \A e \in Editors : Key(e) \in Keys
    BY <1>0, PrefixAssumption DEF Key, Keys
<1> DEFINE Spares(e) == \A x \in Editors \ {e} :
               store[Key(x)] = text[x] \/ x \in disturbed =>
                   store'[Key(x)] = text[x] \/ x \in disturbed'
           Backed(x) == Dirty(x) /\ text[x] # Placeholder =>
               IF dirty[x] THEN timers[x] > 0 \/ x \in failed
                           ELSE store[Key(x)] = text[x] \/ x \in disturbed
<1>02. ASSUME NEW k \in Keys, NEW v, NEW e \in Editors, Put2Store(e, k, v)
       PROVE  store'[k] = v /\ Spares(e)
    <2>1. store'[k] = v /\ \A k2 \in Keys \ {k} : store'[k2] = store[k2]
        BY <1>0, <1>02 DEF Put2Store
    <2>2. ASSUME NEW x \in Editors \ {e}, store[Key(x)] = text[x] \/ x \in disturbed
          PROVE  store'[Key(x)] = text[x] \/ x \in disturbed'
        <3>1. CASE x \in disturbed
            BY <1>02, <3>1 DEF Put2Store
        <3>2. CASE store[Key(x)] = text[x] /\ Key(x) # k
            BY <1>01, <2>1, <3>2
        <3>3. CASE store[Key(x)] = text[x] /\ Key(x) = k
            BY <1>02, <2>1, <3>3 DEF Put2Store
        <3> QED
            BY <2>2, <3>1, <3>2, <3>3
    <2> QED
        BY <2>1, <2>2
\* The windows other than e keep what they show.
<1>03. ASSUME NEW e \in Editors, Backed(e)', open' \subseteq open \cup {e}, Spares(e),
              \A x \in Editors \ {e} :
                 /\ docURL'[x] = docURL[x] /\ text'[x] = text[x]
                 /\ base'[x] = base[x] /\ dirty'[x] = dirty[x]
       PROVE  BackedUpOrSoon'
    <2> SUFFICES ASSUME NEW x \in open', x # e PROVE Backed(x)'
        BY <1>03 DEF BackedUpOrSoon
    <2>1. x \in Editors /\ x \in open /\ Backed(x) /\ Key(x)' = Key(x)
        BY <1>0, <1>03 DEF BackedUpOrSoon, Key
    <2>2. /\ docURL'[x] = docURL[x] /\ text'[x] = text[x]
          /\ base'[x] = base[x] /\ dirty'[x] = dirty[x]
          /\ store[Key(x)] = text[x] \/ x \in disturbed =>
                 store'[Key(x)] = text[x] \/ x \in disturbed'
        BY <1>03, <2>1
    <2>3. dirty'[x] => timers'[x] > 0 \/ x \in failed'
        BY <1>0, <2>1 DEF TimerRuns
    <2> HIDE DEF Spares
    <2> QED
        BY <2>1, <2>2, <2>3 DEF Dirty
<1>07. ASSUME UNCHANGED <<store, disturbed>>, NEW e \in Editors PROVE Spares(e)
    BY <1>07
\* What is shown when a load is over, or when there is none.
<1>04. ASSUME NEW e \in Editors, NEW u \in Docs, NEW t \in Typed,
              docURL'[e] = u, Restore(e, <<Prefix[e], u>>, t)
       PROVE  /\ Backed(e)'
              /\ \A x \in Editors \ {e} :
                    text'[x] = text[x] /\ base'[x] = base[x] /\ dirty'[x] = dirty[x]
              /\ Spares(e)
    <2>1. <<Prefix[e], u>> \in Keys /\ Key(e)' = <<Prefix[e], u>>
        BY <1>04, PrefixAssumption DEF Key, Keys
    <2>2. CASE text' = [text EXCEPT ![e] = t] /\ Reset(e, <<Prefix[e], u>>)
        <3>1. base'[e] = text'[e]
            BY <1>0, <2>2 DEF Reset
        <3>2. \A x \in Editors \ {e} :
                 text'[x] = text[x] /\ base'[x] = base[x] /\ dirty'[x] = dirty[x]
            BY <1>0, <2>2 DEF Reset
        <3>3. Spares(e)
            BY <1>02, <2>1, <2>2 DEF Reset
        <3> QED
            BY <2>1, <2>2, <3>1, <3>2, <3>3 DEF Dirty
    <2>3. CASE /\ text' = [text EXCEPT ![e] = store[<<Prefix[e], u>>]]
               /\ disturbed' = disturbed \ {e}
               /\ UNCHANGED <<base, store, failed>> /\ MayChange(e)
        <3>1. store'[Key(e)'] = text'[e]
            BY <1>0, <2>1, <2>3
        <3>2. dirty'[e] => timers'[e] > 0 \/ e \in failed'
            BY <1>0 DEF TimerRuns
        <3>3. \A x \in Editors \ {e} :
                 text'[x] = text[x] /\ base'[x] = base[x] /\ dirty'[x] = dirty[x]
            BY <1>0, <2>3 DEF MayChange, Changed
        <3>4. Spares(e)
            BY <2>3
        <3> QED
            BY <2>3, <3>1, <3>2, <3>3, <3>4
    <2> QED
        BY <1>04, <2>2, <2>3 DEF Restore
<1>08. server \in [Docs -> Typed] /\ 0 \in Typed
    BY DEF TypeInv, KnownTexts, Typed
<1>05. ASSUME NEW e \in Editors, AutoSaves(e)
       PROVE  /\ Spares(e)
              /\ store'[Key(e)] = text[e]
    <2>1. Put2Store(e, Key(e), text[e]) /\ Key(e) \in Keys /\ text[e] \in Typed
        BY <1>0, <1>01, <1>05 DEF AutoSaves
    <2> QED
        BY <1>02, <2>1
<1>06. ASSUME NEW e \in Editors, BacksUp(e)
       PROVE  Spares(e) /\ (Dirty(e) => store'[Key(e)] = text[e])
    BY <1>05, <1>06, <1>07 DEF BacksUp, backups
<1> USE <1>0, <1>01
<1> USE DEF docVars, saveVars, netVars, backups
<1>1. ASSUME NEW e \in Editors, Edit(e) PROVE BackedUpOrSoon'
    BY <1>1 DEF Edit, Free, Changed, BackedUpOrSoon, TimerRuns, Dirty, Key
<1>2. ASSUME NEW e \in Editors, OpenSame(e) PROVE BackedUpOrSoon'
    BY <1>2 DEF OpenSame, BackedUpOrSoon, TimerRuns, Dirty, Key
<1>3. ASSUME NEW e \in Editors, AskUrl(e) PROVE BackedUpOrSoon'
    <2>1. UNCHANGED <<open, docURL, text, base, dirty, timers, failed>>
        BY <1>3 DEF AskUrl
    <2>2. /\ Spares(e)
          /\ Dirty(e) => store'[Key(e)] = text[e]
        BY <1>3, <1>06 DEF AskUrl
    <2>3. Backed(e)'
        BY <2>1, <2>2 DEF Dirty, Key, TimerRuns
    <2> QED
        BY <1>03, <2>1, <2>2, <2>3
<1>4. ASSUME NEW e \in Editors, OpenUrlFails(e) PROVE BackedUpOrSoon'
    BY <1>4 DEF OpenUrlFails, AutoSaveFails, Free, Dirty, BackedUpOrSoon, TimerRuns, Key
<1>5. ASSUME NEW e \in Editors, Save(e) PROVE BackedUpOrSoon'
    BY <1>5 DEF Save, Sends, Free, BackedUpOrSoon, TimerRuns, Dirty, Key
<1>6. ASSUME NEW e \in Editors, AskWhere(e) PROVE BackedUpOrSoon'
    BY <1>6 DEF AskWhere, Free, BackedUpOrSoon, TimerRuns, Dirty, Key
<1>7. ASSUME NEW e \in Editors, Dismiss(e) PROVE BackedUpOrSoon'
    BY <1>7 DEF Dismiss, BackedUpOrSoon, TimerRuns, Dirty, Key
<1>8. ASSUME NEW e \in Editors, Close(e) PROVE BackedUpOrSoon'
    BY <1>8 DEF Close, Unwaited, BackedUpOrSoon, TimerRuns, Dirty, Key
<1>9. ASSUME NEW e \in Editors, TimerFires(e) PROVE BackedUpOrSoon'
    <2>1. UNCHANGED <<open, docURL, text, base>> /\ e \in open /\ Key(e)' = Key(e)
        BY <1>9 DEF TimerFires, Key
    <2>2. \A x \in Editors \ {e} : dirty'[x] = dirty[x]
        BY <1>9 DEF TimerFires
    <2>3. CASE ~dirty[e] /\ UNCHANGED <<dirty, already, backups, failed>>
        BY <1>03, <1>07, <2>1, <2>3 DEF BackedUpOrSoon, TimerRuns, Dirty
    <2>4. CASE AutoSaves(e)
        <3>1. Backed(e)'
            BY <1>05, <2>1, <2>4 DEF TimerRuns
        <3> QED
            BY <1>03, <1>05, <2>1, <2>2, <2>4, <3>1
    <2>5. CASE AutoSaveFails(e) /\ dirty[e] /\ UNCHANGED dirty
        <3>1. UNCHANGED <<store, disturbed>>
            BY <2>5 DEF AutoSaveFails
        <3>2. Backed(e)'
            BY <2>1, <2>5 DEF TimerRuns
        <3> QED
            BY <1>03, <1>07, <2>1, <2>2, <3>1, <3>2
    <2> QED
        BY <1>9, <2>3, <2>4, <2>5 DEF TimerFires
<1>10. ASSUME NEW e \in Editors, NEW u \in Urls, OpenUrl(e, u) PROVE BackedUpOrSoon'
    <2>1. CASE Begins(e, u, FALSE, Placeholder) /\ MayChange(e)
        <3>1. UNCHANGED <<open, docURL, base>> /\ text' = [text EXCEPT ![e] = Placeholder]
            BY <1>10, <2>1 DEF OpenUrl, Begins
        <3>2. \A x \in Editors \ {e} : dirty'[x] = dirty[x]
            BY <2>1 DEF MayChange, Changed
        <3>3. text'[e] = Placeholder
            BY <3>1
        <3>4. Backed(e)'
            BY <3>3
        <3>5. Spares(e)
            BY <1>10, <1>06 DEF OpenUrl
        <3> QED
            BY <1>03, <3>1, <3>2, <3>4, <3>5
    <2>2. CASE UNCHANGED <<loads, docURL, text, base, opens, dirty, timers>>
        <3>1. /\ Spares(e) /\ UNCHANGED open
              /\ Dirty(e) => store'[Key(e)] = text[e]
            BY <1>10, <1>06 DEF OpenUrl
        <3>2. Backed(e)'
            BY <2>2, <3>1 DEF Dirty, Key, TimerRuns
        <3> QED
            BY <1>03, <2>2, <3>1, <3>2
    <2> QED
        BY <1>10, <2>1, <2>2 DEF OpenUrl
<1>11. ASSUME NEW e \in Editors, NEW u \in Urls, Chosen(e, u) PROVE BackedUpOrSoon'
    BY <1>11 DEF Chosen, Begins, BackedUpOrSoon, TimerRuns, Dirty, Key
<1>12. ASSUME NEW e \in Editors, NEW u \in Urls, SaveAs(e, u) PROVE BackedUpOrSoon'
    BY <1>12 DEF SaveAs, Sends, BackedUpOrSoon, TimerRuns, Dirty, Key
<1>13. ASSUME NEW e \in Editors, NEW u \in StartUrls, Start(e, u) PROVE BackedUpOrSoon'
    <2>1. open' \subseteq open \cup {e} /\ UNCHANGED docURL
        BY <1>13 DEF Start, Begins
    <2>2. CASE u # None
        <3>1. /\ text' = [text EXCEPT ![e] = Placeholder]
              /\ UNCHANGED <<base, store, disturbed>> /\ MayChange(e)
            BY <1>13, <2>2 DEF Start, Begins
        <3>2. text'[e] = Placeholder /\ \A x \in Editors \ {e} : dirty'[x] = dirty[x]
            BY <3>1 DEF MayChange, Changed
        <3>3. Backed(e)'
            BY <3>2
        <3> QED
            BY <1>03, <1>07, <2>1, <3>1, <3>2, <3>3
    <2>3. CASE u = None
        <3>1. Restore(e, <<Prefix[e], docURL[e]>>, text[e])
            BY <1>13, <2>3 DEF Start, Key
        <3>2. docURL[e] \in Docs /\ text[e] \in Typed /\ docURL'[e] = docURL[e]
            BY <2>1
        <3> QED
            BY <1>03, <1>04, <2>1, <3>1, <3>2
    <2> QED
        BY <2>2, <2>3
<1>14. ASSUME NEW e \in Editors, NEW l \in loads[e], Loaded(e, l) PROVE BackedUpOrSoon'
    <2>1. l.url \in Docs /\ l \in loads[e]
        BY <1>14 DEF Loaded, Load, Docs
    <2>2. /\ docURL' = [docURL EXCEPT ![e] = l.url] /\ UNCHANGED open
          /\ \E t \in Typed : Restore(e, <<Prefix[e], l.url>>, t)
        BY <1>14, <1>08, <2>1 DEF Loaded
    <2> QED
        BY <1>03, <1>04, <2>1, <2>2
<1>15. ASSUME NEW p \in puts, Stores(p) PROVE BackedUpOrSoon'
    BY <1>15 DEF Stores, BackedUpOrSoon, TimerRuns, Dirty, Key
<1>16. ASSUME NEW p \in puts, PutDone(p) PROVE BackedUpOrSoon'
    BY <1>16 DEF PutDone, Hides, Reset, Put2Store, Unwaited, BackedUpOrSoon, TimerRuns, Dirty, Key
<1>17. ASSUME NEW p \in puts, PutRefused(p) PROVE BackedUpOrSoon'
    BY <1>17 DEF PutRefused, Hides, BackedUpOrSoon, TimerRuns, Dirty, Key
<1>18. CASE UNCHANGED vars
    BY <1>18 DEF vars, BackedUpOrSoon, TimerRuns, Dirty, Key
<1> QED
    BY <1>1, <1>2, <1>3, <1>4, <1>5, <1>6, <1>7, <1>8, <1>9,
       <1>10, <1>11, <1>12, <1>13, <1>14, <1>15, <1>16, <1>17, <1>18
       DEF Next

\* A text that is not saved is in the backup whenever the editor has told the
\* user so, unless another window has taken it; as long as the editor knows
\* that it is not, a timer runs, or a backup has failed since the text was
\* last clean (plugin.js:35-95, 132-178).
THEOREM BackupIsDue == Spec => []BackedUpOrSoon
<1>1. Init => BackupInv
    BY TypeInit DEF Init, BackupInv, TimerRuns, BackedUpOrSoon
<1>2. BackupInv /\ [Next]_vars => BackupInv'
    BY TypeStep, TimerRunsStep, BackupStep DEF BackupInv
<1>3. BackupInv => BackedUpOrSoon
    BY DEF BackupInv
<1> QED
    BY <1>1, <1>2, <1>3, PTL DEF Spec


=============================================================================
