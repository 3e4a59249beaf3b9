------------------------------ MODULE HttpMux ------------------------------
(***************************************************************************)
(* The front of smartweb2: main loads or makes the server's key pair, then *)
(* listens; httpmux accepts connections one at a time, reads the first     *)
(* byte to tell HTTP from TLS and gives that byte back to the reader.      *)
(*                                                                         *)
(* Bytes of a connection are numbered as the client sends them; only the   *)
(* class of the first one matters.  The kernel queues connections and      *)
(* buffers bytes; net/http and crypto/tls read the connections they get.   *)
(***************************************************************************)
EXTENDS Integers, Sequences, FiniteSets

CONSTANTS
    Conns,     \* connections, each made once
    MaxBytes,  \* bound: bytes of each connection
    MaxStarts, \* bound: starts of the process
    None

ASSUME BoundsAssumption == MaxBytes \in Nat \ {0} /\ MaxStarts \in Nat \ {0}
ASSUME NoneAssumption == None \notin Conns \cup Nat

VARIABLES
    process,  \* down, or where main is
    keyFile, certFile, \* key.pem, cert.pem: None, 0 for a truncated file or a pair
    pair,     \* the pair in memory
    err,      \* err1 or err2 of main
    generated, starts, \* counters: pairs made, starts
    acceptor, \* the connection in DispatchConnection
    stage,    \* how far DispatchConnection is
    conn,     \* idle, queued, accepted, http, tls, or over
    client,   \* the client's end: open, closed or reset
    lead,     \* the class of the first byte
    sent,     \* bytes the client has sent
    wire,     \* those the kernel holds
    br,       \* those the bytes.Reader holds
    got,      \* those net/http or crypto/tls has read
    copying,  \* WriteTo is in io.Copy
    expired,  \* the read deadline has passed
    listened, \* history: pairs the server has listened with
    misread   \* history: how many loads failed though the files held a pair

fileVars == <<keyFile, certFile, pair, err, generated, starts, listened, misread>>
acceptVars == <<acceptor, stage>>
connVars == <<client, lead, sent, wire, br, got, copying, expired>>
vars == <<process, fileVars, acceptVars, conn, connVars>>

Init ==
    /\ process = "down"
    /\ keyFile = None /\ certFile = None /\ pair = None /\ err = FALSE
    /\ generated = 0 /\ starts = 0 /\ listened = {} /\ misread = 0
    /\ acceptor = None /\ stage = "none"
    /\ conn = [c \in Conns |-> "idle"]
    /\ client = [c \in Conns |-> "open"]
    /\ lead \in [Conns -> {"printable", "tab", "other"}]
    /\ sent = [c \in Conns |-> 0]
    /\ wire = [c \in Conns |-> <<>>]
    /\ br = [c \in Conns |-> <<>>]
    /\ got = [c \in Conns |-> <<>>]
    /\ copying = [c \in Conns |-> FALSE]
    /\ expired = [c \in Conns |-> FALSE]

\* The process ends, and with it every connection.
Stop ==
    /\ process' = "down"
    /\ acceptor' = None /\ stage' = "none"
    /\ conn' = [c \in Conns |-> IF conn[c] = "idle" THEN "idle" ELSE "over"]

-----------------------------------------------------------------------------
(* main *)

\* The two files hold one pair.
Whole == keyFile = certFile /\ keyFile \notin {None, 0}

\* tls.LoadX509KeyPair gives the pair of the files.
LoadX509KeyPair ==
    /\ Whole
    /\ pair' = keyFile /\ process' = "ready" /\ err' = FALSE
    /\ UNCHANGED <<keyFile, certFile, misread>>

\* It returns an error, whatever the files hold (one cannot be opened or
\* read, say), and main makes a new pair.  os.Create truncates the files it
\* opens; it may fail for each.
Regenerate ==
    /\ process' = "generating"
    /\ keyFile' \in {keyFile, 0} /\ certFile' \in {certFile, 0}
    /\ err' = (keyFile' # 0 \/ certFile' # 0)
    /\ misread' = IF Whole THEN misread + 1 ELSE misread
    /\ UNCHANGED pair

Start ==
    /\ process = "down" /\ starts < MaxStarts
    /\ starts' = starts + 1
    /\ LoadX509KeyPair \/ Regenerate
    /\ UNCHANGED <<generated, listened, acceptVars, conn, connVars>>

\* NewSelfSignedRSAConfig.
Generate ==
    /\ process = "generating"
    /\ generated' = generated + 1 /\ pair' = generated + 1
    /\ process' = IF err THEN "ready" ELSE "writingKey"
    /\ UNCHANGED <<keyFile, certFile, err, starts, listened, misread, acceptVars,
                   conn, connVars>>

GenerateFails ==
    /\ process = "generating"
    /\ Stop
    /\ UNCHANGED <<fileVars, connVars>>

\* A write may fail; main looks at both errors after both writes.
WriteKey ==
    /\ process = "writingKey" /\ process' = "writingCert"
    /\ \/ keyFile' = pair /\ UNCHANGED err
       \/ err' = TRUE /\ UNCHANGED keyFile
    /\ UNCHANGED <<certFile, pair, generated, starts, listened, misread, acceptVars,
                   conn, connVars>>

WriteCert ==
    /\ process = "writingCert" /\ process' = "ready"
    /\ \/ certFile' = pair /\ UNCHANGED err
       \/ err' = TRUE /\ UNCHANGED certFile
    /\ UNCHANGED <<keyFile, pair, generated, starts, listened, misread, acceptVars,
                   conn, connVars>>

\* Mutant of Listen: the errors of the writes are not looked at.
ListenAnyway ==
    /\ process = "ready" /\ process' = "listening"
    /\ listened' = listened \cup {pair}
    /\ UNCHANGED <<keyFile, certFile, pair, err, generated, starts, misread,
                   acceptVars, conn, connVars>>

Listen ==
    /\ process = "ready" /\ ~err /\ process' = "listening"
    /\ listened' = listened \cup {pair}
    /\ UNCHANGED <<keyFile, certFile, pair, err, generated, starts, misread,
                   acceptVars, conn, connVars>>

\* log.Fatalf, or net.Listen fails.
ListenFails ==
    /\ process = "ready"
    /\ Stop
    /\ UNCHANGED <<fileVars, connVars>>

Crash ==
    /\ process # "down"
    /\ Stop
    /\ UNCHANGED <<fileVars, connVars>>

-----------------------------------------------------------------------------
(* Clients *)

Connect(c) ==
    /\ process = "listening" /\ conn[c] = "idle"
    /\ conn' = [conn EXCEPT ![c] = "queued"]
    /\ UNCHANGED <<process, fileVars, acceptVars, connVars>>

Send(c) ==
    /\ conn[c] \notin {"idle", "over"} /\ client[c] = "open" /\ sent[c] < MaxBytes
    /\ sent' = [sent EXCEPT ![c] = @ + 1]
    /\ wire' = [wire EXCEPT ![c] = Append(@, sent[c] + 1)]
    /\ UNCHANGED <<process, fileVars, acceptVars, conn, client, lead, br, got,
                   copying, expired>>

Leave(c, how) ==
    /\ conn[c] \notin {"idle", "over"} /\ client[c] = "open"
    /\ client' = [client EXCEPT ![c] = how]
    /\ UNCHANGED <<process, fileVars, acceptVars, conn, lead, sent, wire, br,
                   got, copying, expired>>

-----------------------------------------------------------------------------
(* http.Server.Serve calls Accept, which calls DispatchConnection *)

\* Mutant of Accept: each connection is dispatched on its own.
AcceptMore(c) ==
    /\ process = "listening" /\ conn[c] = "queued"
    /\ acceptor' = c /\ stage' = "first"
    /\ conn' = [conn EXCEPT ![c] = "accepted"]
    /\ UNCHANGED <<process, fileVars, connVars>>

Accept(c) ==
    /\ process = "listening" /\ acceptor = None /\ conn[c] = "queued"
    /\ acceptor' = c /\ stage' = "first"
    /\ conn' = [conn EXCEPT ![c] = "accepted"]
    /\ UNCHANGED <<process, fileVars, connVars>>

\* io.ReadFull of one byte, which waits as long as it takes.
ReadFirst(c) ==
    /\ acceptor = c /\ stage = "first" /\ wire[c] # <<>>
    /\ br' = [br EXCEPT ![c] = <<Head(wire[c])>>]
    /\ wire' = [wire EXCEPT ![c] = Tail(@)]
    /\ stage' = "rest"
    /\ UNCHANGED <<process, fileVars, acceptor, conn, client, lead, sent, got,
                   copying, expired>>

Gone(c, how) == acceptor = c /\ stage = "first" /\ wire[c] = <<>> /\ client[c] = how

\* The client has gone without a byte.  Accept returns io.EOF, which is not
\* temporary: Serve returns and main ends.  For a reset that depends on the
\* version of Go.
AcceptFails(c) ==
    /\ Gone(c, "closed") \/ Gone(c, "reset")
    /\ Stop
    /\ UNCHANGED <<fileVars, connVars>>

AcceptAgain(c) ==
    /\ Gone(c, "reset")
    /\ acceptor' = None /\ stage' = "none"
    /\ conn' = [conn EXCEPT ![c] = "over"]
    /\ UNCHANGED <<process, fileVars, connVars>>

\* Mutant of ReadRest: the deadline is not set, so the read waits.
ReadRestWaiting(c) ==
    /\ acceptor = c /\ stage = "rest" /\ wire[c] # <<>>
    /\ stage' = "classify"
    /\ UNCHANGED <<process, fileVars, acceptor, conn, connVars>>

\* The second read has a deadline that has passed: it gets nothing.
ReadRest(c) ==
    /\ acceptor = c /\ stage = "rest"
    /\ expired' = [expired EXCEPT ![c] = TRUE]
    /\ stage' = "classify"
    /\ UNCHANGED <<process, fileVars, acceptor, conn, client, lead, sent, wire,
                   br, got, copying>>

isHttp(c) == \A i \in DOMAIN br[c] : br[c][i] = 1 => lead[c] \in {"printable", "tab"}

\* Mutant of Dispatch: the deadline stays.
DispatchExpired(c) ==
    /\ acceptor = c /\ stage = "classify"
    /\ conn' = [conn EXCEPT ![c] = IF isHttp(c) THEN "http" ELSE "tls"]
    /\ acceptor' = None /\ stage' = "none"
    /\ UNCHANGED <<process, fileVars, connVars>>

Dispatch(c) ==
    /\ acceptor = c /\ stage = "classify"
    /\ expired' = [expired EXCEPT ![c] = FALSE]
    /\ conn' = [conn EXCEPT ![c] = IF isHttp(c) THEN "http" ELSE "tls"]
    /\ acceptor' = None /\ stage' = "none"
    /\ UNCHANGED <<process, fileVars, client, lead, sent, wire, br, got, copying>>

-----------------------------------------------------------------------------
(* Readers of the connection *)

Reading(c) == conn[c] \in {"http", "tls"}

\* conn.Read: the MultiReader drains br, then reads the socket.
Read(c) ==
    /\ Reading(c) /\ ~copying[c]
    /\ \/ /\ br[c] # <<>>
          /\ got' = [got EXCEPT ![c] = Append(@, Head(br[c]))]
          /\ br' = [br EXCEPT ![c] = Tail(@)]
          /\ UNCHANGED wire
       \/ /\ br[c] = <<>> /\ wire[c] # <<>> /\ ~expired[c]
          /\ got' = [got EXCEPT ![c] = Append(@, Head(wire[c]))]
          /\ wire' = [wire EXCEPT ![c] = Tail(@)]
          /\ UNCHANGED br
    /\ UNCHANGED <<process, fileVars, acceptVars, conn, client, lead, sent,
                   copying, expired>>

\* Mutant of WriteTo: only the socket is copied.
WriteToCopy(c) ==
    /\ conn[c] = "http" /\ ~copying[c]
    /\ copying' = [copying EXCEPT ![c] = TRUE]
    /\ UNCHANGED <<process, fileVars, acceptVars, conn, client, lead, sent,
                   wire, br, got, expired>>

\* io.Copy from the connection calls WriteTo; what Read has left comes first.
WriteTo(c) ==
    /\ conn[c] = "http" /\ ~copying[c]
    /\ got' = [got EXCEPT ![c] = @ \o br[c]]
    /\ br' = [br EXCEPT ![c] = <<>>]
    /\ copying' = [copying EXCEPT ![c] = TRUE]
    /\ UNCHANGED <<process, fileVars, acceptVars, conn, client, lead, sent,
                   wire, expired>>

Copy(c) ==
    /\ Reading(c) /\ copying[c] /\ wire[c] # <<>> /\ ~expired[c]
    /\ got' = [got EXCEPT ![c] = Append(@, Head(wire[c]))]
    /\ wire' = [wire EXCEPT ![c] = Tail(@)]
    /\ UNCHANGED <<process, fileVars, acceptVars, conn, client, lead, sent, br,
                   copying, expired>>

\* The reader gets EOF, an error or a timeout, and closes.
ReadEnds(c) ==
    /\ Reading(c) /\ br[c] = <<>>
    /\ expired[c] \/ (wire[c] = <<>> /\ client[c] # "open")
    /\ conn' = [conn EXCEPT ![c] = "over"]
    /\ UNCHANGED <<process, fileVars, acceptVars, connVars>>

-----------------------------------------------------------------------------
Main == Start \/ Generate \/ GenerateFails \/ WriteKey \/ WriteCert \/ Listen \/ ListenFails

Serve(c) ==
    \/ Accept(c) \/ ReadFirst(c) \/ AcceptFails(c) \/ AcceptAgain(c)
    \/ ReadRest(c) \/ Dispatch(c)

Reader(c) == Read(c) \/ Copy(c) \/ ReadEnds(c)

Client(c) ==
    \/ Connect(c) \/ Send(c)
    \/ \E how \in {"closed", "reset"} : Leave(c, how)

Next ==
    \/ Main \/ Crash
    \/ \E c \in Conns : Serve(c) \/ Reader(c) \/ WriteTo(c) \/ Client(c)

\* The loop of Serve runs, and readers read; clients need do nothing.
Fairness ==
    /\ WF_vars(\E c \in Conns : Serve(c))
    /\ \A c \in Conns : WF_vars(Reader(c))

Spec == Init /\ [][Next]_vars /\ Fairness

-----------------------------------------------------------------------------
Pairs == 1 .. MaxStarts

(* Type correctness; a connection is in DispatchConnection exactly when it *)
(* is the one that was accepted last (httpmux.go:102-169).                 *)
TypeOK ==
    /\ process \in {"down", "generating", "writingKey", "writingCert",
                    "ready", "listening"}
    /\ {keyFile, certFile} \subseteq {None, 0} \cup Pairs
    /\ pair \in Pairs \cup {None} /\ err \in BOOLEAN
    /\ generated \in 0 .. MaxStarts /\ starts \in 0 .. MaxStarts
    /\ misread \in 0 .. starts
    /\ stage \in {"none", "first", "rest", "classify"}
    /\ conn \in [Conns -> {"idle", "queued", "accepted", "http", "tls", "over"}]
    /\ \A c \in Conns : conn[c] = "accepted" <=> acceptor = c
    /\ client \in [Conns -> {"open", "closed", "reset"}]
    /\ sent \in [Conns -> 0 .. MaxBytes]
    /\ {copying, expired} \subseteq [Conns -> BOOLEAN]

(* Looking at the first byte neither loses, repeats nor reorders a byte:   *)
(* what the reader got, with Read and WriteTo in any mix, then what br and *)
(* the socket hold is what the client sent (httpmux.go:110-132, 156-162).  *)
StreamIntact ==
    \A c \in Conns : got[c] \o br[c] \o wire[c] = [i \in 1 .. sent[c] |-> i]

(* The server keeps its identity: however starts fail or end half-way, it  *)
(* listens with another pair than before only if, in between, a load failed*)
(* although both files held the pair (smartweb2/main.go:81-111).           *)
IdentityKept == Cardinality(listened) <= 1 + misread

(* A client that has sent a byte waits only for a client that has not: the *)
(* accept loop reaches it, or stands at a silent connection                *)
(* (httpmux.go:102-108, 134-142).                                          *)
BlockedOnlyBySilence ==
    \A c \in Conns :
        conn[c] = "queued" /\ sent[c] > 0 ~>
            \/ conn[c] \notin {"queued", "accepted"}
            \/ acceptor # None /\ wire[acceptor] = <<>> /\ sent[acceptor] = 0

(* What a client sends on a connection that was dispatched reaches the     *)
(* reader while the server runs: the deadline of the second read is gone   *)
(* (httpmux.go:144-154).                                                   *)
BytesArrive ==
    \A c \in Conns :
        Reading(c) /\ Len(got[c]) < sent[c] ~>
            Len(got[c]) = sent[c] \/ process = "down"

=============================================================================
