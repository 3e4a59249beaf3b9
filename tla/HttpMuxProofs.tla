--------------------------- MODULE HttpMuxProofs ---------------------------
(***************************************************************************)
(* Proofs about HttpMux, for every value of its constants.                 *)
(***************************************************************************)
EXTENDS HttpMux, SequenceTheorems, FiniteSetTheorems, TLAPS

(***************************************************************************)
(* What the steps rely on: where the accept loop is, that a start makes at *)
(* most one pair, that there is a pair to be written, and that streams are *)
(* sequences of bytes.                                                     *)
(***************************************************************************)
LoopOK ==
    /\ acceptor \in Conns \cup {None}
    /\ acceptor = None <=> stage = "none"

PairsOK ==
    /\ generated <= starts
    /\ process = "generating" => generated < starts
    /\ process \in {"writingKey", "writingCert"} => pair \in Pairs

StreamsOK ==
    /\ wire \in [Conns -> Seq(Nat)]
    /\ br \in [Conns -> Seq(Nat)]
    /\ got \in [Conns -> Seq(Nat)]

BaseInv == TypeOK /\ LoopOK /\ PairsOK
TypeInv == BaseInv /\ StreamsOK

(***************************************************************************)
(* Nothing is in the bytes.Reader before the first byte has been read, nor *)
(* once WriteTo has emptied it.                                            *)
(***************************************************************************)
Unread(c) ==
    \/ conn[c] \in {"idle", "queued"}
    \/ acceptor = c /\ stage = "first"

BrOK ==
    \A c \in Conns :
        /\ Unread(c) => br[c] = <<>> /\ ~copying[c]
        /\ conn[c] = "accepted" => ~copying[c]
        /\ copying[c] => br[c] = <<>>

StreamInv == TypeInv /\ BrOK /\ StreamIntact

(***************************************************************************)
(* How far the pair in memory is in the files; the files are rewritten     *)
(* only after both were truncated.  Each pair the server has listened with *)
(* is still in the files, or a load of a whole pair has failed since.      *)
(***************************************************************************)
OnFile(p) == keyFile = p /\ certFile = p /\ p \in Pairs

FilesOK ==
    /\ process = "generating" /\ ~err => keyFile = 0 /\ certFile = 0
    /\ process = "writingKey" => ~err /\ keyFile = 0 /\ certFile = 0
    /\ process = "writingCert" => certFile = 0
    /\ process = "writingCert" /\ ~err => keyFile = pair
    /\ process = "ready" /\ ~err => OnFile(pair)

Known == \E p \in listened : OnFile(p)

ListenedOK ==
    /\ IsFiniteSet(listened)
    /\ Cardinality(listened) <= misread + (IF Known THEN 1 ELSE 0)

IdentityInv == TypeInv /\ FilesOK /\ ListenedOK

-----------------------------------------------------------------------------
(* Sequences *)

\* The first element of a stream may be appended to what came before it.
LEMMA MoveHead ==
    ASSUME NEW s \in Seq(Nat), NEW t \in Seq(Nat), t # <<>>
    PROVE  /\ Head(t) \in Nat /\ Tail(t) \in Seq(Nat)
           /\ Append(s, Head(t)) \in Seq(Nat) /\ <<Head(t)>> \in Seq(Nat)
           /\ Append(s, Head(t)) \o Tail(t) = s \o t
           /\ <<Head(t)>> \o Tail(t) = t
<1>1. /\ Head(t) \in Nat /\ Tail(t) \in Seq(Nat)
      /\ Len(Tail(t)) = Len(t) - 1
      /\ \A i \in 1 .. Len(Tail(t)) : Tail(t)[i] = t[i + 1]
    BY HeadTailProperties
<1>2. Append(s, Head(t)) \in Seq(Nat) /\ <<Head(t)>> \in Seq(Nat)
    BY <1>1, AppendProperties
<1>3. <<Head(t)>> \o Tail(t) = t
    BY <1>1
<1>4. Append(s, Head(t)) \o Tail(t) = s \o t
    BY <1>1
<1> QED
    BY <1>1, <1>2, <1>3, <1>4

\* The numbers up to n, and one more.
LEMMA OneMore ==
    ASSUME NEW n \in Nat
    PROVE  /\ [i \in 1 .. n |-> i] \in Seq(Nat)
           /\ Append([i \in 1 .. n |-> i], n + 1) = [i \in 1 .. n + 1 |-> i]
<1>1. [i \in 1 .. n |-> i] \in Seq(Nat)
    OBVIOUS
<1> QED
    BY <1>1

\* Something appended to the last of three streams.
LEMMA AppendLast ==
    ASSUME NEW s \in Seq(Nat), NEW t \in Seq(Nat), NEW u \in Seq(Nat), NEW n \in Nat
    PROVE  (s \o t) \o Append(u, n) = Append((s \o t) \o u, n)
OBVIOUS

-----------------------------------------------------------------------------
(* Type correctness *)

LEMMA TypeInit == Init => TypeInv
<1> SUFFICES ASSUME Init PROVE TypeInv
    OBVIOUS
<1> USE BoundsAssumption, NoneAssumption DEF Init
<1>1. TypeOK
    <2>1. copying \in [Conns -> BOOLEAN] /\ expired \in [Conns -> BOOLEAN]
        OBVIOUS
    <2>2. conn \in [Conns -> {"idle", "queued", "accepted", "http", "tls", "over"}]
        OBVIOUS
    <2>3. client \in [Conns -> {"open", "closed", "reset"}]
        OBVIOUS
    <2>4. sent \in [Conns -> 0 .. MaxBytes]
        OBVIOUS
    <2>5. generated \in 0 .. MaxStarts /\ starts \in 0 .. MaxStarts
        OBVIOUS
    <2>6. misread \in 0 .. starts
        OBVIOUS
    <2> QED
        BY <2>1, <2>2, <2>3, <2>4, <2>5, <2>6 DEF TypeOK
<1>2. LoopOK /\ PairsOK
    BY DEF LoopOK, PairsOK
<1>3. StreamsOK
    BY DEF StreamsOK
<1> QED
    BY <1>1, <1>2, <1>3 DEF TypeInv, BaseInv

LEMMA BaseStep == BaseInv /\ [Next]_vars => BaseInv'
<1> SUFFICES ASSUME BaseInv, [Next]_vars PROVE BaseInv'
    OBVIOUS
<1> USE BoundsAssumption, NoneAssumption
<1> USE DEF BaseInv, TypeOK, LoopOK, PairsOK, Pairs
<1> USE DEF fileVars, acceptVars, connVars, Stop, Reading
<1>1. CASE Start
    <2>1. /\ starts' \in 0 .. MaxStarts /\ starts' = starts + 1 /\ generated' < starts'
          /\ UNCHANGED <<generated, listened, acceptVars, conn, connVars>>
        BY <1>1 DEF Start
    <2>2. CASE LoadX509KeyPair
        <3>1. keyFile \in 1 .. MaxStarts
            BY <2>2 DEF LoadX509KeyPair, Whole
        <3>2. /\ pair' \in 1 .. MaxStarts /\ process' = "ready" /\ err' = FALSE
              /\ UNCHANGED <<keyFile, certFile, misread>>
            BY <2>2, <3>1 DEF LoadX509KeyPair
        <3>3. pair' \in Pairs \cup {None} /\ {keyFile', certFile'} \subseteq {None, 0} \cup Pairs
            BY <3>2
        <3>4. PairsOK'
            BY <2>1, <3>2
        <3>5. LoopOK'
            BY <2>1
        <3>6. misread' \in 0 .. starts'
            BY <2>1, <3>2
        <3> QED
            BY <2>1, <3>2, <3>3, <3>4, <3>5, <3>6
    <2>3. CASE Regenerate
        <3>1. /\ keyFile' \in {keyFile, 0} /\ certFile' \in {certFile, 0}
              /\ err' \in BOOLEAN /\ process' = "generating" /\ pair' = pair
            BY <2>3 DEF Regenerate
        <3>2. misread' \in 0 .. starts'
            BY <2>1, <2>3 DEF Regenerate
        <3> QED
            BY <2>1, <3>1, <3>2
    <2> QED
        BY <1>1, <2>2, <2>3 DEF Start
<1>2. CASE Generate
    <2>1. generated + 1 \in 1 .. MaxStarts /\ generated + 1 <= starts
        BY <1>2 DEF Generate
    <2> QED
        BY <1>2, <2>1 DEF Generate
<1>3. CASE GenerateFails
    BY <1>3 DEF GenerateFails
<1>4. CASE WriteKey
    BY <1>4 DEF WriteKey
<1>5. CASE WriteCert
    BY <1>5 DEF WriteCert
<1>6. CASE Listen
    BY <1>6 DEF Listen
<1>7. CASE ListenFails
    BY <1>7 DEF ListenFails
<1>8. CASE Crash
    BY <1>8 DEF Crash
<1>9. ASSUME NEW c \in Conns, Accept(c) PROVE BaseInv'
    BY <1>9 DEF Accept
<1>10. ASSUME NEW c \in Conns, ReadFirst(c) PROVE BaseInv'
    BY <1>10 DEF ReadFirst
<1>11. ASSUME NEW c \in Conns, AcceptFails(c) PROVE BaseInv'
    BY <1>11 DEF AcceptFails, Gone
<1>12. ASSUME NEW c \in Conns, AcceptAgain(c) PROVE BaseInv'
    BY <1>12 DEF AcceptAgain, Gone
<1>13. ASSUME NEW c \in Conns, ReadRest(c) PROVE BaseInv'
    BY <1>13 DEF ReadRest
<1>14. ASSUME NEW c \in Conns, Dispatch(c) PROVE BaseInv'
    BY <1>14 DEF Dispatch
<1>15. ASSUME NEW c \in Conns, Read(c) PROVE BaseInv'
    BY <1>15 DEF Read
<1>16. ASSUME NEW c \in Conns, Copy(c) PROVE BaseInv'
    BY <1>16 DEF Copy
<1>17. ASSUME NEW c \in Conns, ReadEnds(c) PROVE BaseInv'
    BY <1>17 DEF ReadEnds
<1>18. ASSUME NEW c \in Conns, WriteTo(c) PROVE BaseInv'
    BY <1>18 DEF WriteTo
<1>19. ASSUME NEW c \in Conns, Connect(c) PROVE BaseInv'
    BY <1>19 DEF Connect
<1>20. ASSUME NEW c \in Conns, Send(c) PROVE BaseInv'
    BY <1>20 DEF Send
<1>21. ASSUME NEW c \in Conns, NEW how \in {"closed", "reset"}, Leave(c, how)
       PROVE  BaseInv'
    BY <1>21 DEF Leave
<1>22. CASE UNCHANGED vars
    BY <1>22 DEF vars
<1> HIDE DEF BaseInv
<1> QED
    BY <1>1, <1>2, <1>3, <1>4, <1>5, <1>6, <1>7, <1>8, <1>9, <1>10,
       <1>11, <1>12, <1>13, <1>14, <1>15, <1>16, <1>17, <1>18, <1>19,
       <1>20, <1>21, <1>22
       DEF Next, Main, Serve, Reader, Client

LEMMA StreamsStep == TypeInv /\ [Next]_vars => StreamsOK'
<1> SUFFICES ASSUME TypeInv, [Next]_vars PROVE StreamsOK'
    OBVIOUS
<1>0. StreamsOK
    BY DEF TypeInv
<1> USE <1>0 DEF StreamsOK
<1> USE DEF fileVars, acceptVars, connVars
<1>1. CASE Start
    BY <1>1 DEF Start
<1>2. CASE Generate
    BY <1>2 DEF Generate
<1>3. CASE GenerateFails
    BY <1>3 DEF GenerateFails
<1>4. CASE WriteKey
    BY <1>4 DEF WriteKey
<1>5. CASE WriteCert
    BY <1>5 DEF WriteCert
<1>6. CASE Listen
    BY <1>6 DEF Listen
<1>7. CASE ListenFails
    BY <1>7 DEF ListenFails
<1>8. CASE Crash
    BY <1>8 DEF Crash
<1>9. ASSUME NEW c \in Conns, Accept(c) PROVE StreamsOK'
    BY <1>9 DEF Accept
<1>10. ASSUME NEW c \in Conns, ReadFirst(c) PROVE StreamsOK'
    BY <1>10, MoveHead DEF ReadFirst
<1>11. ASSUME NEW c \in Conns, AcceptFails(c) PROVE StreamsOK'
    BY <1>11 DEF AcceptFails, Gone
<1>12. ASSUME NEW c \in Conns, AcceptAgain(c) PROVE StreamsOK'
    BY <1>12 DEF AcceptAgain, Gone
<1>13. ASSUME NEW c \in Conns, ReadRest(c) PROVE StreamsOK'
    BY <1>13 DEF ReadRest
<1>14. ASSUME NEW c \in Conns, Dispatch(c) PROVE StreamsOK'
    BY <1>14 DEF Dispatch
<1>15. ASSUME NEW c \in Conns, Read(c) PROVE StreamsOK'
    <2>1. CASE br[c] # <<>> /\ got' = [got EXCEPT ![c] = Append(@, Head(br[c]))]
                /\ br' = [br EXCEPT ![c] = Tail(@)] /\ UNCHANGED wire
        BY <2>1, MoveHead
    <2>2. CASE wire[c] # <<>> /\ got' = [got EXCEPT ![c] = Append(@, Head(wire[c]))]
                /\ wire' = [wire EXCEPT ![c] = Tail(@)] /\ UNCHANGED br
        BY <2>2, MoveHead
    <2> QED
        BY <1>15, <2>1, <2>2 DEF Read
<1>16. ASSUME NEW c \in Conns, Copy(c) PROVE StreamsOK'
    BY <1>16, MoveHead DEF Copy
<1>17. ASSUME NEW c \in Conns, ReadEnds(c) PROVE StreamsOK'
    BY <1>17 DEF ReadEnds
<1>18. ASSUME NEW c \in Conns, WriteTo(c) PROVE StreamsOK'
    BY <1>18 DEF WriteTo
<1>19. ASSUME NEW c \in Conns, Connect(c) PROVE StreamsOK'
    BY <1>19 DEF Connect
<1>20. ASSUME NEW c \in Conns, Send(c) PROVE StreamsOK'
    <2>1. sent[c] + 1 \in Nat
        BY DEF TypeInv, BaseInv, TypeOK
    <2> QED
        BY <1>20, <2>1 DEF Send
<1>21. ASSUME NEW c \in Conns, NEW how \in {"closed", "reset"}, Leave(c, how)
       PROVE  StreamsOK'
    BY <1>21 DEF Leave
<1>22. CASE UNCHANGED vars
    BY <1>22 DEF vars
<1> HIDE DEF StreamsOK
<1> QED
    BY <1>1, <1>2, <1>3, <1>4, <1>5, <1>6, <1>7, <1>8, <1>9, <1>10,
       <1>11, <1>12, <1>13, <1>14, <1>15, <1>16, <1>17, <1>18, <1>19,
       <1>20, <1>21, <1>22
       DEF Next, Main, Serve, Reader, Client

LEMMA TypeStep == TypeInv /\ [Next]_vars => TypeInv'
BY BaseStep, StreamsStep DEF TypeInv

\* The counters stay in bounds, files hold a pair or nothing, and one
\* connection at most is in DispatchConnection (httpmux.go:102-178).
THEOREM TypeCorrect == Spec => []TypeOK
<1>1. TypeInv => TypeOK
    BY DEF TypeInv, BaseInv
<1> QED
    BY TypeInit, TypeStep, <1>1, PTL DEF Spec

-----------------------------------------------------------------------------
(* The stream of a connection *)

\* Ways to move bytes towards the reader that keep the stream.
LEMMA KeepStream ==
    ASSUME NEW a \in Seq(Nat), NEW b \in Seq(Nat), NEW w \in Seq(Nat)
    PROVE  /\ b # <<>> => Append(a, Head(b)) \o Tail(b) \o w = a \o b \o w
           /\ w # <<>> /\ b = <<>> =>
                /\ a \o <<Head(w)>> \o Tail(w) = a \o b \o w
                /\ Append(a, Head(w)) \o b \o Tail(w) = a \o b \o w
           /\ (a \o b) \o <<>> \o w = a \o b \o w
<1>1. b # <<>> => Append(a, Head(b)) \o Tail(b) = a \o b
    BY MoveHead
<1>2. ASSUME w # <<>>, b = <<>>
      PROVE  /\ a \o <<Head(w)>> \o Tail(w) = a \o b \o w
             /\ Append(a, Head(w)) \o b \o Tail(w) = a \o b \o w
    <2>1. a \o b = a
        BY <1>2
    <2>2. /\ Head(w) \in Nat /\ Append(a, Head(w)) \in Seq(Nat)
          /\ Append(a, Head(w)) \o Tail(w) = a \o w
        BY <1>2, MoveHead
    <2>3. Append(a, Head(w)) \o b = Append(a, Head(w))
        BY <1>2, <2>2
    <2>4. a \o <<Head(w)>> = Append(a, Head(w))
        BY <2>2
    <2> QED
        BY <2>1, <2>2, <2>3, <2>4
<1>3. (a \o b) \o <<>> = a \o b
    BY ConcatProperties
<1> QED
    BY <1>1, <1>2, <1>3

LEMMA BrStep == TypeInv /\ BrOK /\ [Next]_vars => BrOK'
<1> SUFFICES ASSUME TypeInv, BrOK, [Next]_vars PROVE BrOK'
    OBVIOUS
<1>0. /\ conn \in [Conns -> {"idle", "queued", "accepted", "http", "tls", "over"}]
      /\ \A c \in Conns : conn[c] = "accepted" <=> acceptor = c
      /\ copying \in [Conns -> BOOLEAN] /\ br \in [Conns -> Seq(Nat)]
      /\ acceptor = None <=> stage = "none"
      /\ acceptor \in Conns \cup {None}
    BY DEF TypeInv, BaseInv, TypeOK, LoopOK, StreamsOK
<1> USE <1>0, NoneAssumption DEF BrOK, Unread
<1> USE DEF fileVars, acceptVars, connVars, Stop, Reading
<1>1. CASE Start
    BY <1>1 DEF Start
<1>2. CASE Generate
    BY <1>2 DEF Generate
<1>3. CASE GenerateFails
    BY <1>3 DEF GenerateFails
<1>4. CASE WriteKey
    BY <1>4 DEF WriteKey
<1>5. CASE WriteCert
    BY <1>5 DEF WriteCert
<1>6. CASE Listen
    BY <1>6 DEF Listen
<1>7. CASE ListenFails
    BY <1>7 DEF ListenFails
<1>8. CASE Crash
    BY <1>8 DEF Crash
<1>9. ASSUME NEW c \in Conns, Accept(c) PROVE BrOK'
    BY <1>9 DEF Accept
<1>10. ASSUME NEW c \in Conns, ReadFirst(c) PROVE BrOK'
    BY <1>10 DEF ReadFirst
<1>11. ASSUME NEW c \in Conns, AcceptFails(c) PROVE BrOK'
    BY <1>11 DEF AcceptFails, Gone
<1>12. ASSUME NEW c \in Conns, AcceptAgain(c) PROVE BrOK'
    BY <1>12 DEF AcceptAgain, Gone
<1>13. ASSUME NEW c \in Conns, ReadRest(c) PROVE BrOK'
    BY <1>13 DEF ReadRest
<1>14. ASSUME NEW c \in Conns, Dispatch(c) PROVE BrOK'
    BY <1>14 DEF Dispatch
<1>15. ASSUME NEW c \in Conns, Read(c) PROVE BrOK'
    BY <1>15 DEF Read
<1>16. ASSUME NEW c \in Conns, Copy(c) PROVE BrOK'
    BY <1>16 DEF Copy
<1>17. ASSUME NEW c \in Conns, ReadEnds(c) PROVE BrOK'
    BY <1>17 DEF ReadEnds
<1>18. ASSUME NEW c \in Conns, WriteTo(c) PROVE BrOK'
    BY <1>18 DEF WriteTo
<1>19. ASSUME NEW c \in Conns, Connect(c) PROVE BrOK'
    BY <1>19 DEF Connect
<1>20. ASSUME NEW c \in Conns, Send(c) PROVE BrOK'
    BY <1>20 DEF Send
<1>21. ASSUME NEW c \in Conns, NEW how \in {"closed", "reset"}, Leave(c, how)
       PROVE  BrOK'
    BY <1>21 DEF Leave
<1>22. CASE UNCHANGED vars
    BY <1>22 DEF vars
<1> HIDE DEF BrOK
<1> QED
    BY <1>1, <1>2, <1>3, <1>4, <1>5, <1>6, <1>7, <1>8, <1>9, <1>10,
       <1>11, <1>12, <1>13, <1>14, <1>15, <1>16, <1>17, <1>18, <1>19,
       <1>20, <1>21, <1>22
       DEF Next, Main, Serve, Reader, Client

LEMMA IntactStep ==
    TypeInv /\ BrOK /\ StreamIntact /\ [Next]_vars => StreamIntact'
<1> SUFFICES ASSUME TypeInv, BrOK, StreamIntact, [Next]_vars
             PROVE  StreamIntact'
    OBVIOUS
<1>0. /\ got \in [Conns -> Seq(Nat)] /\ br \in [Conns -> Seq(Nat)]
      /\ wire \in [Conns -> Seq(Nat)] /\ sent \in [Conns -> Nat]
    BY BoundsAssumption DEF TypeInv, BaseInv, TypeOK, StreamsOK
<1> USE <1>0 DEF StreamIntact
<1> USE DEF fileVars, acceptVars, connVars, Reading
<1>1. CASE Start
    BY <1>1 DEF Start
<1>2. CASE Generate
    BY <1>2 DEF Generate
<1>3. CASE GenerateFails
    BY <1>3 DEF GenerateFails
<1>4. CASE WriteKey
    BY <1>4 DEF WriteKey
<1>5. CASE WriteCert
    BY <1>5 DEF WriteCert
<1>6. CASE Listen
    BY <1>6 DEF Listen
<1>7. CASE ListenFails
    BY <1>7 DEF ListenFails
<1>8. CASE Crash
    BY <1>8 DEF Crash
<1>9. ASSUME NEW c \in Conns, Accept(c) PROVE StreamIntact'
    BY <1>9 DEF Accept
<1>10. ASSUME NEW c \in Conns, ReadFirst(c) PROVE StreamIntact'
    <2> DEFINE Kept(d) == got'[d] \o br'[d] \o wire'[d] = [i \in 1 .. sent'[d] |-> i]
    <2>1. \A d \in Conns \ {c} : Kept(d)
        BY <1>10 DEF ReadFirst
    <2>2. /\ br[c] = <<>> /\ wire[c] # <<>>
          /\ br'[c] = <<Head(wire[c])>> /\ wire'[c] = Tail(wire[c])
          /\ got'[c] = got[c] /\ sent'[c] = sent[c]
        BY <1>10 DEF ReadFirst, BrOK, Unread
    <2>3. got[c] \in Seq(Nat) /\ br[c] \in Seq(Nat) /\ wire[c] \in Seq(Nat)
        OBVIOUS
    <2>4. got'[c] \o br'[c] \o wire'[c] = got[c] \o br[c] \o wire[c]
        <3> HIDE <1>0 DEF StreamIntact
        <3>1. /\ wire[c] # <<>> /\ br[c] = <<>> =>
                  got[c] \o <<Head(wire[c])>> \o Tail(wire[c]) = got[c] \o br[c] \o wire[c]
            BY <2>3, KeepStream, Zenon
        <3> QED
            BY <2>2, <3>1, Zenon
    <2>5. Kept(c)
        BY <2>2, <2>4
    <2> QED
        BY <2>1, <2>5
<1>11. ASSUME NEW c \in Conns, AcceptFails(c) PROVE StreamIntact'
    BY <1>11 DEF AcceptFails, Gone
<1>12. ASSUME NEW c \in Conns, AcceptAgain(c) PROVE StreamIntact'
    BY <1>12 DEF AcceptAgain, Gone
<1>13. ASSUME NEW c \in Conns, ReadRest(c) PROVE StreamIntact'
    BY <1>13 DEF ReadRest
<1>14. ASSUME NEW c \in Conns, Dispatch(c) PROVE StreamIntact'
    BY <1>14 DEF Dispatch
<1>15. ASSUME NEW c \in Conns, Read(c) PROVE StreamIntact'
    <2> DEFINE Kept(d) == got'[d] \o br'[d] \o wire'[d] = [i \in 1 .. sent'[d] |-> i]
    <2>1. \A d \in Conns \ {c} : Kept(d)
        BY <1>15 DEF Read
    <2>2. /\ sent'[c] = sent[c]
          /\ \/ /\ br[c] # <<>> /\ got'[c] = Append(got[c], Head(br[c]))
                /\ br'[c] = Tail(br[c]) /\ wire'[c] = wire[c]
             \/ /\ wire[c] # <<>> /\ got'[c] = Append(got[c], Head(wire[c]))
                /\ wire'[c] = Tail(wire[c]) /\ br[c] = <<>> /\ br'[c] = br[c]
        BY <1>15 DEF Read
    <2>3. got[c] \in Seq(Nat) /\ br[c] \in Seq(Nat) /\ wire[c] \in Seq(Nat)
        OBVIOUS
    <2>4. got'[c] \o br'[c] \o wire'[c] = got[c] \o br[c] \o wire[c]
        <3> HIDE <1>0 DEF StreamIntact
        <3>1. /\ br[c] # <<>> =>
                  Append(got[c], Head(br[c])) \o Tail(br[c]) \o wire[c]
                    = got[c] \o br[c] \o wire[c]
              /\ wire[c] # <<>> /\ br[c] = <<>> =>
                  Append(got[c], Head(wire[c])) \o br[c] \o Tail(wire[c])
                    = got[c] \o br[c] \o wire[c]
            BY <2>3, KeepStream, Zenon
        <3> QED
            BY <2>2, <3>1, Zenon
    <2>5. Kept(c)
        BY <2>2, <2>4
    <2> QED
        BY <2>1, <2>5
<1>16. ASSUME NEW c \in Conns, Copy(c) PROVE StreamIntact'
    <2> DEFINE Kept(d) == got'[d] \o br'[d] \o wire'[d] = [i \in 1 .. sent'[d] |-> i]
    <2>1. \A d \in Conns \ {c} : Kept(d)
        BY <1>16 DEF Copy
    <2>2. /\ br[c] = <<>> /\ br'[c] = br[c] /\ wire[c] # <<>> /\ sent'[c] = sent[c]
          /\ got'[c] = Append(got[c], Head(wire[c])) /\ wire'[c] = Tail(wire[c])
        BY <1>16 DEF Copy, BrOK
    <2>3. got[c] \in Seq(Nat) /\ br[c] \in Seq(Nat) /\ wire[c] \in Seq(Nat)
        OBVIOUS
    <2>4. got'[c] \o br'[c] \o wire'[c] = got[c] \o br[c] \o wire[c]
        <3> HIDE <1>0 DEF StreamIntact
        <3>1. /\ wire[c] # <<>> /\ br[c] = <<>> =>
                  Append(got[c], Head(wire[c])) \o br[c] \o Tail(wire[c])
                    = got[c] \o br[c] \o wire[c]
            BY <2>3, KeepStream, Zenon
        <3> QED
            BY <2>2, <3>1, Zenon
    <2>5. Kept(c)
        BY <2>2, <2>4
    <2> QED
        BY <2>1, <2>5
<1>17. ASSUME NEW c \in Conns, ReadEnds(c) PROVE StreamIntact'
    BY <1>17 DEF ReadEnds
<1>18. ASSUME NEW c \in Conns, WriteTo(c) PROVE StreamIntact'
    <2> DEFINE Kept(d) == got'[d] \o br'[d] \o wire'[d] = [i \in 1 .. sent'[d] |-> i]
    <2>1. \A d \in Conns \ {c} : Kept(d)
        BY <1>18 DEF WriteTo
    <2>2. /\ got'[c] = got[c] \o br[c] /\ br'[c] = <<>>
          /\ wire'[c] = wire[c] /\ sent'[c] = sent[c]
        BY <1>18 DEF WriteTo
    <2>3. got[c] \in Seq(Nat) /\ br[c] \in Seq(Nat) /\ wire[c] \in Seq(Nat)
        OBVIOUS
    <2>4. got'[c] \o br'[c] \o wire'[c] = got[c] \o br[c] \o wire[c]
        <3> HIDE <1>0 DEF StreamIntact
        <3>1. (got[c] \o br[c]) \o <<>> \o wire[c] = got[c] \o br[c] \o wire[c]
            BY <2>3, KeepStream, Zenon
        <3> QED
            BY <2>2, <3>1, Zenon
    <2>5. Kept(c)
        BY <2>2, <2>4
    <2> QED
        BY <2>1, <2>5
<1>19. ASSUME NEW c \in Conns, Connect(c) PROVE StreamIntact'
    BY <1>19 DEF Connect
<1>20. ASSUME NEW c \in Conns, Send(c) PROVE StreamIntact'
    <2> DEFINE Kept(d) == got'[d] \o br'[d] \o wire'[d] = [i \in 1 .. sent'[d] |-> i]
    <2>1. \A d \in Conns \ {c} : Kept(d)
        BY <1>20 DEF Send
    <2>2. /\ wire'[c] = Append(wire[c], sent[c] + 1) /\ sent'[c] = sent[c] + 1
          /\ got'[c] = got[c] /\ br'[c] = br[c]
        BY <1>20 DEF Send
    <2>3. /\ got[c] \in Seq(Nat) /\ br[c] \in Seq(Nat) /\ wire[c] \in Seq(Nat)
          /\ sent[c] \in Nat /\ sent[c] + 1 \in Nat
        OBVIOUS
    <2>4. got[c] \o br[c] \o Append(wire[c], sent[c] + 1)
            = Append(got[c] \o br[c] \o wire[c], sent[c] + 1)
        <3> HIDE <1>0 DEF StreamIntact
        <3> QED
            BY <2>3, AppendLast
    <2>5. Kept(c)
        BY <2>2, <2>3, <2>4, OneMore
    <2> QED
        BY <2>1, <2>5
<1>21. ASSUME NEW c \in Conns, NEW how \in {"closed", "reset"}, Leave(c, how)
       PROVE  StreamIntact'
    BY <1>21 DEF Leave
<1>22. CASE UNCHANGED vars
    BY <1>22 DEF vars
<1> HIDE DEF StreamIntact
<1> QED
    BY <1>1, <1>2, <1>3, <1>4, <1>5, <1>6, <1>7, <1>8, <1>9, <1>10,
       <1>11, <1>12, <1>13, <1>14, <1>15, <1>16, <1>17, <1>18, <1>19,
       <1>20, <1>21, <1>22
       DEF Next, Main, Serve, Reader, Client

\* Telling HTTP from TLS by the first byte neither loses, repeats nor reorders
\* a byte of any connection, however many bytes the clients send and however
\* Read and WriteTo take turns (httpmux.go:117-178).
THEOREM StreamsStayIntact == Spec => []StreamIntact
<1>1. Init => StreamInv
    <2> SUFFICES ASSUME Init PROVE StreamInv
        OBVIOUS
    <2>1. TypeInv
        BY TypeInit
    <2>2. BrOK
        BY DEF Init, BrOK
    <2>3. StreamIntact
        BY DEF Init, StreamIntact
    <2> QED
        BY <2>1, <2>2, <2>3 DEF StreamInv
<1>2. StreamInv /\ [Next]_vars => StreamInv'
    BY TypeStep, BrStep, IntactStep DEF StreamInv
<1>3. StreamInv => StreamIntact
    BY DEF StreamInv
<1> QED
    BY <1>1, <1>2, <1>3, PTL DEF Spec

-----------------------------------------------------------------------------
(* The server's key pair *)

\* ListenedOK speaks of the key files, the history and nothing else.
LEMMA ListenedKept ==
    ASSUME ListenedOK, UNCHANGED <<listened, misread, keyFile, certFile>>
    PROVE  ListenedOK'
BY DEF ListenedOK, Known, OnFile, Pairs

\* While no pair that was listened with is in the files, rewriting them
\* cannot break it.
LEMMA ListenedUnknown ==
    ASSUME ListenedOK, ~Known, UNCHANGED <<listened, misread>>, misread \in Nat
    PROVE  ListenedOK'
<1>1. IsFiniteSet(listened') /\ Cardinality(listened') <= misread'
    BY DEF ListenedOK
<1>2. Cardinality(listened') \in Nat /\ misread' \in Nat
    BY <1>1, FS_CardinalityType
<1>3. CASE Known'
    BY <1>1, <1>2, <1>3 DEF ListenedOK
<1>4. CASE ~Known'
    BY <1>1, <1>2, <1>4 DEF ListenedOK
<1> QED
    BY <1>3, <1>4

LEMMA FilesStep ==
    TypeInv /\ FilesOK /\ ListenedOK /\ [Next]_vars => FilesOK' /\ ListenedOK'
<1> SUFFICES ASSUME TypeInv, FilesOK, ListenedOK, [Next]_vars
             PROVE  FilesOK' /\ ListenedOK'
    OBVIOUS
<1>0. /\ keyFile \in {None, 0} \cup Pairs
      /\ process \in {"writingKey", "writingCert"} => pair \in Pairs
      /\ misread \in Nat
    BY BoundsAssumption DEF TypeInv, BaseInv, TypeOK, PairsOK
<1> USE <1>0, BoundsAssumption, NoneAssumption
<1> USE DEF FilesOK, OnFile, Pairs
<1> USE DEF fileVars, acceptVars, connVars, Stop, Reading
<1>1. CASE Start
    <2>0. listened' = listened
        BY <1>1 DEF Start
    <2>1. CASE LoadX509KeyPair
        <3>1. keyFile \in Pairs /\ OnFile(keyFile)
            BY <2>1 DEF LoadX509KeyPair, Whole
        <3>2. FilesOK'
            BY <2>1, <3>1 DEF LoadX509KeyPair
        <3>3. ListenedOK'
            BY <2>0, <2>1, ListenedKept DEF LoadX509KeyPair
        <3> QED
            BY <3>2, <3>3
    <2>2. CASE Regenerate
        <3>1. FilesOK'
            BY <2>2 DEF Regenerate
        <3>2. CASE Whole
            <4>1. misread' = misread + 1
                BY <2>2, <3>2 DEF Regenerate
            <4>2. IsFiniteSet(listened') /\ Cardinality(listened) <= misread'
                <5>1. IsFiniteSet(listened) /\ Cardinality(listened) \in Nat
                    BY FS_CardinalityType DEF ListenedOK
                <5>2. CASE Known
                    BY <2>0, <4>1, <5>1, <5>2 DEF ListenedOK
                <5>3. CASE ~Known
                    BY <2>0, <4>1, <5>1, <5>3 DEF ListenedOK
                <5> QED
                    BY <5>2, <5>3
            <4>3. Cardinality(listened') \in Nat /\ misread' \in Nat
                BY <2>0, <4>1, <4>2, FS_CardinalityType
            <4>4. CASE Known'
                BY <2>0, <3>1, <4>2, <4>3, <4>4 DEF ListenedOK
            <4>5. CASE ~Known'
                BY <2>0, <3>1, <4>2, <4>3, <4>5 DEF ListenedOK
            <4> QED
                BY <4>4, <4>5
        <3>3. CASE ~Whole
            <4>1. ~Known
                BY <3>3 DEF Whole, Known
            <4>2. misread' = misread
                BY <2>2, <3>3 DEF Regenerate
            <4> QED
                BY <2>0, <3>1, <4>1, <4>2, ListenedUnknown
        <3> QED
            BY <3>2, <3>3
    <2> QED
        BY <1>1, <2>1, <2>2 DEF Start
<1>2. CASE Generate
    <2>1. FilesOK'
        BY <1>2 DEF Generate
    <2>2. ListenedOK'
        BY <1>2, ListenedKept DEF Generate
    <2> QED
        BY <2>1, <2>2
<1>3. CASE GenerateFails
    BY <1>3, ListenedKept DEF GenerateFails
<1>4. CASE WriteKey
    <2>1. FilesOK'
        BY <1>4 DEF WriteKey
    <2>2. ~Known
        BY <1>4 DEF WriteKey, Known
    <2>3. ListenedOK'
        BY <1>4, <2>2, ListenedUnknown DEF WriteKey
    <2> QED
        BY <2>1, <2>3
<1>5. CASE WriteCert
    <2>1. FilesOK'
        BY <1>5 DEF WriteCert
    <2>2. ~Known
        BY <1>5 DEF WriteCert, Known
    <2>3. ListenedOK'
        BY <1>5, <2>2, ListenedUnknown DEF WriteCert
    <2> QED
        BY <2>1, <2>3
<1>6. CASE Listen
    <2>1. OnFile(pair) /\ listened' = listened \cup {pair}
          /\ UNCHANGED <<keyFile, certFile, misread>>
        BY <1>6 DEF Listen
    <2>2. FilesOK'
        BY <1>6 DEF Listen
    <2>3. Known'
        BY <2>1 DEF Known
    <2>4. IsFiniteSet(listened) /\ Cardinality(listened) \in Nat
        BY FS_CardinalityType DEF ListenedOK
    <2>5. IsFiniteSet(listened') /\ Cardinality(listened') <= misread + 1
        <3>1. CASE pair \in listened
            <4>1. listened' = listened
                BY <2>1, <3>1
            <4> QED
                BY <2>4, <4>1 DEF ListenedOK
        <3>2. CASE pair \notin listened
            <4>1. ~Known
                BY <2>1, <3>2 DEF Known
            <4>2. Cardinality(listened) <= misread
                BY <4>1 DEF ListenedOK
            <4>3. /\ IsFiniteSet(listened \cup {pair})
                  /\ Cardinality(listened \cup {pair}) = Cardinality(listened) + 1
                BY <2>4, <3>2, FS_AddElement
            <4> QED
                BY <2>1, <2>4, <4>2, <4>3
        <3> QED
            BY <3>1, <3>2
    <2>6. ListenedOK'
        BY <2>1, <2>3, <2>5 DEF ListenedOK
    <2> QED
        BY <2>2, <2>6
<1>7. CASE ListenFails
    BY <1>7, ListenedKept DEF ListenFails
<1>8. CASE Crash
    BY <1>8, ListenedKept DEF Crash
<1>9. ASSUME NEW c \in Conns, Accept(c) PROVE FilesOK' /\ ListenedOK'
    BY <1>9, ListenedKept DEF Accept
<1>10. ASSUME NEW c \in Conns, ReadFirst(c) PROVE FilesOK' /\ ListenedOK'
    BY <1>10, ListenedKept DEF ReadFirst
<1>11. ASSUME NEW c \in Conns, AcceptFails(c) PROVE FilesOK' /\ ListenedOK'
    BY <1>11, ListenedKept DEF AcceptFails, Gone
<1>12. ASSUME NEW c \in Conns, AcceptAgain(c) PROVE FilesOK' /\ ListenedOK'
    BY <1>12, ListenedKept DEF AcceptAgain, Gone
<1>13. ASSUME NEW c \in Conns, ReadRest(c) PROVE FilesOK' /\ ListenedOK'
    BY <1>13, ListenedKept DEF ReadRest
<1>14. ASSUME NEW c \in Conns, Dispatch(c) PROVE FilesOK' /\ ListenedOK'
    BY <1>14, ListenedKept DEF Dispatch
<1>15. ASSUME NEW c \in Conns, Read(c) PROVE FilesOK' /\ ListenedOK'
    BY <1>15, ListenedKept DEF Read
<1>16. ASSUME NEW c \in Conns, Copy(c) PROVE FilesOK' /\ ListenedOK'
    BY <1>16, ListenedKept DEF Copy
<1>17. ASSUME NEW c \in Conns, ReadEnds(c) PROVE FilesOK' /\ ListenedOK'
    BY <1>17, ListenedKept DEF ReadEnds
<1>18. ASSUME NEW c \in Conns, WriteTo(c) PROVE FilesOK' /\ ListenedOK'
    BY <1>18, ListenedKept DEF WriteTo
<1>19. ASSUME NEW c \in Conns, Connect(c) PROVE FilesOK' /\ ListenedOK'
    BY <1>19, ListenedKept DEF Connect
<1>20. ASSUME NEW c \in Conns, Send(c) PROVE FilesOK' /\ ListenedOK'
    BY <1>20, ListenedKept DEF Send
<1>21. ASSUME NEW c \in Conns, NEW how \in {"closed", "reset"}, Leave(c, how)
       PROVE  FilesOK' /\ ListenedOK'
    BY <1>21, ListenedKept DEF Leave
<1>22. CASE UNCHANGED vars
    BY <1>22, ListenedKept DEF vars
<1> HIDE DEF FilesOK
<1> QED
    BY <1>1, <1>2, <1>3, <1>4, <1>5, <1>6, <1>7, <1>8, <1>9, <1>10,
       <1>11, <1>12, <1>13, <1>14, <1>15, <1>16, <1>17, <1>18, <1>19,
       <1>20, <1>21, <1>22
       DEF Next, Main, Serve, Reader, Client

\* The server keeps its identity over any number of starts, failed writes and
\* crashes: a start listens only with the pair that is whole in both files, and
\* a later start takes another only if its load of that pair fails
\* (smartweb2/main.go:79-111).
THEOREM IdentityIsKept == Spec => []IdentityKept
<1>1. Init => IdentityInv
    <2> SUFFICES ASSUME Init PROVE IdentityInv
        OBVIOUS
    <2>1. TypeInv
        BY TypeInit
    <2>2. FilesOK /\ ListenedOK
        <3>1. listened = {} /\ misread = 0 /\ process = "down"
            BY DEF Init
        <3> QED
            BY <3>1, FS_EmptySet DEF FilesOK, ListenedOK, Known
    <2> QED
        BY <2>1, <2>2 DEF IdentityInv
<1>2. IdentityInv /\ [Next]_vars => IdentityInv'
    BY TypeStep, FilesStep DEF IdentityInv
<1>3. IdentityInv => IdentityKept
    <2> SUFFICES ASSUME IdentityInv PROVE Cardinality(listened) <= 1 + misread
        BY DEF IdentityKept
    <2>1. misread \in Nat
        BY BoundsAssumption DEF IdentityInv, TypeInv, BaseInv, TypeOK
    <2>2. /\ Cardinality(listened) \in Nat
          /\ Cardinality(listened) <= misread + (IF Known THEN 1 ELSE 0)
        BY FS_CardinalityType DEF IdentityInv, ListenedOK
    <2> QED
        BY <2>1, <2>2
<1> QED
    BY <1>1, <1>2, <1>3, PTL DEF Spec

=============================================================================
