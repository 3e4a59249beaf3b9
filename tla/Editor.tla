------------------------------- MODULE Editor -------------------------------
(***************************************************************************)
(* The page editor's saveurl plugin (saveurl/plugin.js) in its page        *)
(* (edit.html): loading, saving with PUT, the automatic backup in          *)
(* localStorage and the warning before the window is closed.               *)
(*                                                                         *)
(* A window runs one callback at a time: user commands, change events,     *)
(* timers and answers of XMLHttpRequests come in any order.  Windows of    *)
(* one origin share localStorage; backups have the same key when their     *)
(* prefix (autosave_SaveKey) and their document are the same.              *)
(***************************************************************************)
EXTENDS Integers, FiniteSets

CONSTANTS
    Editors,     \* windows
    Urls,        \* documents
    Prefixes,    \* values of autoSaveKeyPrefix
    Prefix,      \* the prefix of each window
    StartUrls,   \* config.autosave_open: what windows are opened with
    None,        \* undefined, null
    Placeholder, \* the texts "Loading..." and "Opening ..."
    MaxEdits,    \* bound: edits of all windows
    MaxPuts,     \* bound: PUTs of all windows
    MaxOpens,    \* bound: documents opened, in all windows
    MaxWindows   \* bound: windows that are open, by documents opened so far

ASSUME PrefixAssumption == Prefix \in [Editors -> Prefixes]
ASSUME StartAssumption == StartUrls \subseteq Urls \cup {None}
ASSUME BoundsAssumption == /\ {MaxEdits, MaxPuts, MaxOpens} \subseteq Nat
                           /\ MaxWindows \in [0 .. MaxOpens -> Nat]
ASSUME NoneAssumption == None \notin Urls \cup Editors \cup {Placeholder} \cup Nat
ASSUME PlaceholderAssumption == Placeholder \notin Nat

\* Each edit gives a text never seen before; 0 is what documents start with,
\* what a window shows without one, and what a failed load shows.
Texts == 0 .. MaxEdits \cup {Placeholder}
\* An undefined documentURL is a URL like others: "undefined".
Docs == Urls \cup {None}
Keys == Prefixes \X Docs
Put  == [id : 1 .. MaxPuts, by : Editors \cup {None}, url : Docs,
         from : {"saveUrl", "saveUrlAs"}, data : Texts, stored : BOOLEAN]
\* asked: the load was asked for in the dialog, which its callback hides.
Load == [id : 1 .. MaxOpens, url : Urls, asked : BOOLEAN]
Dialogs == {"none", "openUrl", "saveUrl", "saveUrlAs"}

VARIABLES
    open,     \* the windows that are open
    loads,    \* the loads under way in each window
    docURL,   \* editor.documentURL
    hash,     \* location.hash, None when it names no document
    text,     \* what the editor shows
    base,     \* the snapshot checkDirty compares it with
    dirty,    \* the variable dirty: there is something to back up
    timers,   \* how many setTimeouts of the change handler are pending
    already,  \* autoSaveAlready
    dialog,   \* the dialog that covers the window; none can be edited under
    puts,     \* PUTs that were sent; by is None when no window waits
    server,   \* the text of each document on the server
    store,    \* localStorage
    edits, sent, opens, \* counters: edits, PUTs, loads
    \* History, read by no guard:
    onServer, \* texts the server held at some time
    excused,  \* texts declared clean by an answer that was not about them
    disturbed,\* windows whose backup another has removed or replaced since
              \* they made it
    failed    \* windows with a failed backup since the text was last clean

docVars  == <<open, loads, docURL, hash, text, base, opens>>
saveVars == <<dirty, timers, already, failed>>
netVars  == <<puts, server, sent, onServer>>
backups  == <<store, disturbed>>
vars == <<docVars, saveVars, netVars, dialog, backups, edits, excused>>

-----------------------------------------------------------------------------
Init ==
    /\ open = {}
    /\ loads = [e \in Editors |-> {}]
    /\ docURL = [e \in Editors |-> None]
    /\ hash = [e \in Editors |-> None]
    /\ text = [e \in Editors |-> 0]
    /\ base = [e \in Editors |-> 0]
    /\ dirty = [e \in Editors |-> FALSE]
    /\ timers = [e \in Editors |-> 0]
    /\ already = [e \in Editors |-> FALSE]
    /\ dialog = [e \in Editors |-> "none"]
    /\ puts = {}
    /\ server = [u \in Docs |-> 0]
    /\ store = [k \in Keys |-> None]
    /\ edits = 0 /\ sent = 0 /\ opens = 0
    /\ onServer = {0}
    /\ excused = {} /\ disturbed = {} /\ failed = {}

Dirty(e) == text[e] # base[e]                \* editor.checkDirty
Key(e) == <<Prefix[e], docURL[e]>>           \* autoSaveKey
Free(e) == e \in open /\ dialog[e] = "none"  \* the user can type

\* Mutant of Changed: each change starts a timer, dirty or not.
ChangedAgain(e) ==
    IF text'[e] = base'[e] THEN UNCHANGED <<dirty, timers>>
    ELSE /\ dirty' = [dirty EXCEPT ![e] = TRUE]
         /\ timers' = [timers EXCEPT ![e] = @ + 1]

\* The change handler, once text' and base' are known.
Changed(e) ==
    IF dirty[e] \/ text'[e] = base'[e] THEN UNCHANGED <<dirty, timers>>
    ELSE /\ dirty' = [dirty EXCEPT ![e] = TRUE]
         /\ timers' = [timers EXCEPT ![e] = @ + 1]

\* CKEditor need not raise the event for a text set by the program.
MayChange(e) == Changed(e) \/ UNCHANGED <<dirty, timers>>

\* localStorage gets value v at key k, from window e: others may lose the
\* backup of what they show.
Put2Store(e, k, v) ==
    /\ store' = [store EXCEPT ![k] = v]
    /\ disturbed' = (disturbed \ {e}) \cup
          {x \in Editors \ {e} : Key(x) = k /\ store[k] = text[x] /\ v # text[x]}

\* No other editor is open, as far as autoSave can tell.
MaySave(e) == already[e] \/ store[Key(e)] = None

\* Mutant of AutoSaves: that another editor is open is not an error.
AutoSavesQuietly(e) ==
    IF MaySave(e)
    THEN already' = [already EXCEPT ![e] = TRUE] /\ Put2Store(e, Key(e), text[e])
    ELSE UNCHANGED <<already, backups>>

AutoSaves(e) ==
    /\ MaySave(e)
    /\ already' = [already EXCEPT ![e] = TRUE]
    /\ Put2Store(e, Key(e), text[e])

\* autoSave fails: another editor is open, or localStorage is full, which
\* is found out when autoSaveAlready has been set.
AutoSaveFails(e) ==
    /\ failed' = failed \cup {e}
    /\ \/ ~MaySave(e) /\ UNCHANGED already
       \/ MaySave(e) /\ already' = [already EXCEPT ![e] = TRUE]
    /\ UNCHANGED backups

\* autoSaveReset: the backup is removed and the text declared clean.
Reset(e, k) ==
    /\ Put2Store(e, k, None)
    /\ base' = [base EXCEPT ![e] = text'[e]]
    /\ dirty' = [dirty EXCEPT ![e] = FALSE]
    /\ failed' = failed \ {e}
    /\ UNCHANGED <<timers, already>>

\* autoSaveRestore, over text t: a backup replaces it if the user says so,
\* and is removed if not.
Restore(e, k, t) ==
    \/ text' = [text EXCEPT ![e] = t] /\ Reset(e, k)
    \/ /\ store[k] # None
       /\ text' = [text EXCEPT ![e] = store[k]]
       /\ already' = [already EXCEPT ![e] = TRUE]
       /\ disturbed' = disturbed \ {e}
       /\ UNCHANGED <<base, store, failed>> /\ MayChange(e)

-----------------------------------------------------------------------------
(* User commands *)

\* The user types something new, or undoes it all.
Edit(e) ==
    /\ Free(e) /\ edits < MaxEdits
    /\ edits' = edits + 1
    /\ \E t \in {edits', base[e]} : text' = [text EXCEPT ![e] = t]
    /\ UNCHANGED base /\ Changed(e)
    /\ UNCHANGED <<open, loads, docURL, hash, opens, already, failed, netVars,
                   dialog, excused, backups>>

\* The bound on windows, once open' and opens' are known.
FewWindows == Cardinality(open') <= MaxWindows[opens']

\* A load starts; t is what the window shows meanwhile.
Begins(e, u, asked, t) ==
    /\ opens < MaxOpens /\ opens' = opens + 1
    /\ FewWindows
    /\ loads' = [loads EXCEPT ![e] = @ \cup {[id |-> opens', url |-> u, asked |-> asked]}]
    /\ text' = [text EXCEPT ![e] = t]
    /\ UNCHANGED <<docURL, base>>

\* Unsaved changes are backed up before the user is asked to go on.
BacksUp(e) ==
    IF Dirty(e) THEN AutoSaves(e) ELSE UNCHANGED <<already, backups>>

\* Command openUrl with a URL: location.hash has changed, which no dialog
\* prevents.  If the user does not go on, the hash is put back.
OpenUrl(e, u) ==
    /\ e \in open /\ u \notin {hash[e], docURL[e]}
    /\ BacksUp(e)
    /\ UNCHANGED open
    /\ \/ /\ Begins(e, u, FALSE, Placeholder) /\ MayChange(e)
          /\ hash' = [hash EXCEPT ![e] = u]
       \/ /\ Dirty(e)
          /\ hash' = [hash EXCEPT ![e] = docURL[e]]
          /\ UNCHANGED <<loads, docURL, text, base, opens, dirty, timers>>
    /\ UNCHANGED <<failed, netVars, dialog, edits, excused>>

\* The same for the document the window already has: what is being loaded is
\* not given up.
OpenSame(e) ==
    /\ e \in open /\ docURL[e] \notin {hash[e], None}
    /\ hash' = [hash EXCEPT ![e] = docURL[e]]
    /\ UNCHANGED <<open, loads, docURL, text, base, opens, saveVars, netVars,
                   dialog, edits, excused, backups>>

\* Command openUrl of the toolbar: the same questions, then the dialog.
AskUrl(e) ==
    /\ Free(e) /\ opens < MaxOpens
    /\ BacksUp(e)
    /\ \/ dialog' = [dialog EXCEPT ![e] = "openUrl"]
       \/ Dirty(e) /\ UNCHANGED dialog
    /\ UNCHANGED <<docVars, dirty, timers, failed, netVars, edits, excused>>

\* Command openUrl when the backup cannot be made.
OpenUrlFails(e) ==
    /\ e \in open /\ Dirty(e)
    /\ AutoSaveFails(e)
    /\ \/ hash' = [hash EXCEPT ![e] = docURL[e]]
       \/ Free(e) /\ UNCHANGED hash
    /\ UNCHANGED <<open, loads, docURL, text, base, opens, dirty, timers,
                   netVars,
                   dialog, edits, excused>>

\* OK in the dialog openUrl, which goes on covering the window.
Chosen(e, u) ==
    /\ e \in open /\ dialog[e] = "openUrl"
    /\ UNCHANGED <<open, hash>> /\ Begins(e, u, TRUE, text[e])
    /\ UNCHANGED <<saveVars, netVars, dialog, edits, excused, backups>>

\* Nobody waits for the answers to PUTs P any more: what the server has not
\* stored it may yet store.
Unwaited(P) == {[p EXCEPT !.by = None] : p \in {q \in P : ~q.stored}}

\* httpPutEditor.
Sends(e, u, d) ==
    /\ sent < MaxPuts /\ sent' = sent + 1
    /\ puts' = puts \cup {[id |-> sent', by |-> e, url |-> u, from |-> d,
                           data |-> text[e], stored |-> FALSE]}
    /\ dialog' = [dialog EXCEPT ![e] = d]
    /\ UNCHANGED <<docVars, saveVars, server, onServer, edits, excused,
                   backups>>

\* Command saveUrl, with or without a document: its dialog sends the PUT.
Save(e) == Free(e) /\ Sends(e, docURL[e], "saveUrl")

\* Command saveUrlAs: its dialog.
AskWhere(e) ==
    /\ Free(e) /\ sent < MaxPuts
    /\ dialog' = [dialog EXCEPT ![e] = "saveUrlAs"]
    /\ UNCHANGED <<docVars, saveVars, netVars, edits, excused, backups>>

\* OK in the dialog saveUrlAs.
SaveAs(e, u) ==
    /\ e \in open /\ dialog[e] = "saveUrlAs"
    /\ Sends(e, u, "saveUrlAs")

\* The user closes the dialog, or the time of the dialog saveUrl is over.
Dismiss(e) ==
    /\ e \in open /\ dialog[e] # "none"
    /\ dialog' = [dialog EXCEPT ![e] = "none"]
    /\ UNCHANGED <<docVars, saveVars, netVars, edits, excused, backups>>

\* A window is opened: with a document to load, or with a backup to restore.
Start(e, u) ==
    /\ e \notin open
    /\ open' = open \cup {e}
    /\ hash' = [hash EXCEPT ![e] = u]
    /\ \/ /\ u # None
          /\ Begins(e, u, FALSE, Placeholder) /\ MayChange(e)
          /\ UNCHANGED <<already, failed, backups>>
       \/ /\ u = None
          /\ UNCHANGED <<loads, docURL, opens>> /\ FewWindows
          /\ Restore(e, Key(e), text[e])
    /\ UNCHANGED <<netVars, dialog, edits, excused>>

\* The window is closed, the user having been warned of unsaved changes, or
\* dies: what remains are localStorage and the PUTs under way.
Close(e) ==
    /\ e \in open
    /\ open' = open \ {e}
    /\ loads' = [loads EXCEPT ![e] = {}]
    /\ docURL' = [docURL EXCEPT ![e] = None]
    /\ hash' = [hash EXCEPT ![e] = None]
    /\ text' = [text EXCEPT ![e] = 0]
    /\ base' = [base EXCEPT ![e] = 0]
    /\ dirty' = [dirty EXCEPT ![e] = FALSE]
    /\ timers' = [timers EXCEPT ![e] = 0]
    /\ already' = [already EXCEPT ![e] = FALSE]
    /\ dialog' = [dialog EXCEPT ![e] = "none"]
    /\ puts' = {p \in puts : p.by # e} \cup Unwaited({p \in puts : p.by = e})
    /\ disturbed' = disturbed \ {e} /\ failed' = failed \ {e}
    /\ UNCHANGED <<opens, server, sent, onServer, store, edits, excused>>

-----------------------------------------------------------------------------
(* Callbacks *)

\* The timer of the change handler.
TimerFires(e) ==
    /\ e \in open /\ timers[e] > 0
    /\ timers' = [timers EXCEPT ![e] = @ - 1]
    /\ \/ ~dirty[e] /\ UNCHANGED <<dirty, already, backups, failed>>
       \/ /\ dirty[e] /\ AutoSaves(e)
          /\ dirty' = [dirty EXCEPT ![e] = FALSE]
          /\ UNCHANGED failed
       \/ dirty[e] /\ AutoSaveFails(e) /\ UNCHANGED dirty
    /\ UNCHANGED <<docVars, netVars, dialog, edits, excused>>

\* Dialog d of window e is hidden, if it is shown.
Hides(e, d) == dialog' = [dialog EXCEPT ![e] = IF @ = d THEN "none" ELSE @]

\* A document has been loaded, or cannot be; loads end in any order.
Loaded(e, l) ==
    /\ l \in loads[e]
    /\ loads' = [loads EXCEPT ![e] = @ \ {l}]
    /\ docURL' = [docURL EXCEPT ![e] = l.url]
    /\ hash' = [hash EXCEPT ![e] = l.url]
    /\ IF l.asked THEN Hides(e, "openUrl") ELSE UNCHANGED dialog
    /\ \E t \in {server[l.url], 0} : Restore(e, <<Prefix[e], l.url>>, t)
    /\ UNCHANGED <<open, opens, netVars, edits, excused>>

\* The server stores the document.
Stores(p) ==
    /\ p \in puts /\ ~p.stored
    /\ puts' = (puts \ {p}) \cup
          (IF p.by = None THEN {} ELSE {[p EXCEPT !.stored = TRUE]})
    /\ server' = [server EXCEPT ![p.url] = p.data]
    /\ onServer' = onServer \cup {p.data}
    /\ UNCHANGED <<docVars, saveVars, dialog, sent, edits, excused, backups>>

\* The PUT succeeded, or the connection broke: status 0 counts as success.
PutDone(p) ==
    LET e == p.by IN
    /\ p \in puts /\ e # None
    /\ puts' = (puts \ {p}) \cup Unwaited({p})
    /\ docURL' = [docURL EXCEPT ![e] = p.url]
    /\ hash' = [hash EXCEPT ![e] = p.url]
    /\ UNCHANGED <<open, loads, text, opens>>
    /\ Reset(e, <<Prefix[e], p.url>>)
    /\ excused' = IF p.stored /\ text[e] = p.data THEN excused
                                                ELSE excused \cup {text[e]}
    /\ IF p.from = "saveUrlAs" THEN Hides(e, "saveUrlAs") ELSE UNCHANGED dialog
    /\ UNCHANGED <<server, sent, onServer, edits>>

\* Mutant of PutRefused: the text is declared clean all the same.
PutRefusedReset(p) ==
    LET e == p.by IN
    /\ p \in puts /\ e # None /\ ~p.stored
    /\ puts' = puts \ {p}
    /\ UNCHANGED <<open, loads, docURL, hash, text, opens>>
    /\ Reset(e, <<Prefix[e], p.url>>)
    /\ IF p.from = "saveUrlAs" THEN Hides(e, "saveUrlAs") ELSE UNCHANGED dialog
    /\ UNCHANGED <<server, sent, onServer, edits, excused>>

\* The server answers with an error.
PutRefused(p) ==
    /\ p \in puts /\ p.by # None /\ ~p.stored
    /\ puts' = puts \ {p}
    /\ IF p.from = "saveUrlAs" THEN Hides(p.by, "saveUrlAs") ELSE UNCHANGED dialog
    /\ UNCHANGED <<docVars, saveVars, server, sent, onServer, edits, excused,
                   backups>>

Next ==
    \/ \E e \in Editors :
          \/ Edit(e) \/ OpenSame(e) \/ AskUrl(e) \/ OpenUrlFails(e)
          \/ Save(e) \/ AskWhere(e) \/ Dismiss(e)
          \/ Close(e) \/ TimerFires(e)
          \/ \E u \in Urls : OpenUrl(e, u) \/ Chosen(e, u) \/ SaveAs(e, u)
          \/ \E u \in StartUrls : Start(e, u)
          \/ \E l \in loads[e] : Loaded(e, l)
    \/ \E p \in puts : Stores(p) \/ PutDone(p) \/ PutRefused(p)

Spec == Init /\ [][Next]_vars

-----------------------------------------------------------------------------
\* A timer needs a text that was clean before: timers are no more than the
\* times a text can have become clean, by a load or a PUT, and one.
TypeOK ==
    /\ open \subseteq Editors
    /\ loads \in [Editors -> SUBSET Load]
    /\ docURL \in [Editors -> Docs] /\ hash \in [Editors -> Docs]
    /\ text \in [Editors -> Texts] /\ base \in [Editors -> Texts]
    /\ dirty \in [Editors -> BOOLEAN]
    /\ timers \in [Editors -> 0 .. MaxOpens + MaxPuts + 1]
    /\ already \in [Editors -> BOOLEAN]
    /\ dialog \in [Editors -> Dialogs]
    /\ puts \subseteq Put
    /\ server \in [Docs -> Texts]
    /\ store \in [Keys -> Texts \cup {None}]
    /\ edits \in 0 .. MaxEdits /\ sent \in 0 .. MaxPuts
    /\ opens \in 0 .. MaxOpens
    /\ onServer \subseteq Texts /\ excused \subseteq Texts
    /\ disturbed \subseteq Editors /\ failed \subseteq Editors

-----------------------------------------------------------------------------
(* Safety *)

\* A text the editor takes for clean, so that the window closes without a
\* warning, is one the server has held, unless the answer that declared it
\* clean was about an older text, or was no answer at all.
CleanExplained ==
    \A e \in open : ~Dirty(e) =>
        text[e] \in onServer \cup excused \cup {Placeholder}

\* A text the user typed that is not saved is in the backup whenever the
\* editor says so (dirty is false: "Saved in memory"), unless another window
\* has removed or replaced it since it was made.  As long as the editor
\* knows better (dirty), a timer that will back the text up is pending; only
\* after a failed backup is there none, until the text is clean again.
BackedUpOrSoon ==
    \A e \in open : Dirty(e) /\ text[e] # Placeholder =>
        IF dirty[e] THEN timers[e] > 0 \/ e \in failed
                    ELSE store[Key(e)] = text[e] \/ e \in disturbed

-----------------------------------------------------------------------------
(* What the plugin says of itself *)

\* "Warn before closing the window": what is clean is on the server.
CleanMeansSaved ==
    \A e \in open : ~Dirty(e) => text[e] \in onServer \cup {Placeholder}

=============================================================================
