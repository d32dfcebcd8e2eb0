-------------------------- MODULE ChatStreamProofs --------------------------
(***************************************************************************)
(* Proofs about ChatStream for any number of lines and any gRPC window.    *)
(***************************************************************************)
EXTENDS ChatStream, TLAPS

USE DEF provider, upstream, stream, producer, chans, handler, written

\* A line yields a number of events (the translator).
LEMMA YieldNat ==
  ASSUME TypeOK, NEW n \in 1 .. Len(lines)
  PROVE  Yield[lines[n]] \in Nat
<1>1. lines[n] \in Kinds
  BY DEF TypeOK
<1> QED BY <1>1 DEF Yield, Kinds

\* A step that touches neither the provider's lines nor the client's view, and
\* does not end the handler, keeps what is said of the client's view.
LEMMA ClientViewKept ==
  ASSUME StreamInv,
         UNCHANGED <<format, client, lines, source, out, done, handPc, answer>>
  PROVE  NoGap' /\ DoneIsEarned' /\ NoSilentEnd'
BY DEF StreamInv, NoGap, DoneIsEarned, NoSilentEnd, Delivered

\* The provider sends a line (Emit).
LEMMA EmitKeeps ==
  ASSUME StreamInv, NEW kind \in Kinds, Emit(kind)
  PROVE  StreamInv'
<1> USE DEF Emit
<1>1. TypeOK'
  BY StreamAssumptions DEF StreamInv, TypeOK, Kinds
<1>2. RelayInv'
  BY DEF StreamInv, TypeOK, RelayInv
<1>3. ProducerInv'
  BY DEF StreamInv, TypeOK, RelayInv, ProducerInv, HandlerInv, Complete, UpToDate
<1>4. HandlerInv'
  BY DEF StreamInv, TypeOK, HandlerInv, ProducerInv
<1>5. NoGap'
  BY DEF StreamInv, TypeOK, NoGap, HandlerInv, RelayInv
<1>6. DoneIsEarned'
  BY DEF StreamInv, DoneIsEarned, Delivered
<1>7. NoSilentEnd'
  BY DEF StreamInv, NoSilentEnd, Delivered, HandlerInv
<1>8. ErrorIsJust'
  BY DEF StreamInv, ErrorIsJust, RelayInv, HandlerInv
<1> QED BY <1>1, <1>2, <1>3, <1>4, <1>5, <1>6, <1>7, <1>8 DEF StreamInv

\* The provider's body ends.
LEMMA BodyEndsKeeps ==
  ASSUME StreamInv, NEW how \in {"eof", "broken"}, BodyEnds(how)
  PROVE  StreamInv'
<1> USE DEF BodyEnds
<1>1. TypeOK'
  BY DEF StreamInv, TypeOK
<1>2. RelayInv'
  BY DEF StreamInv, TypeOK, RelayInv
<1>3. ProducerInv'
  BY DEF StreamInv, TypeOK, RelayInv, ProducerInv, HandlerInv, Complete, UpToDate
<1>4. HandlerInv'
  BY DEF StreamInv, TypeOK, HandlerInv, ProducerInv
<1>5. NoGap'
  BY DEF StreamInv, TypeOK, NoGap, HandlerInv, RelayInv
<1>6. DoneIsEarned'
  BY DEF StreamInv, DoneIsEarned, Delivered
<1>7. NoSilentEnd'
  BY DEF StreamInv, NoSilentEnd, Delivered, HandlerInv
<1>8. ErrorIsJust'
  BY DEF StreamInv, ErrorIsJust, RelayInv, HandlerInv
<1> QED BY <1>1, <1>2, <1>3, <1>4, <1>5, <1>6, <1>7, <1>8 DEF StreamInv

\* The client leaves.
LEMMA DisconnectKeeps ==
  ASSUME StreamInv, Disconnect
  PROVE  StreamInv'
<1> USE DEF Disconnect
<1>1. TypeOK'
  BY DEF StreamInv, TypeOK
<1>2. RelayInv'
  BY DEF StreamInv, TypeOK, RelayInv
<1>3. ProducerInv'
  BY DEF StreamInv, TypeOK, RelayInv, ProducerInv, HandlerInv, Complete, UpToDate
<1>4. HandlerInv'
  BY DEF StreamInv, TypeOK, HandlerInv, ProducerInv
<1>5. NoGap'
  BY DEF StreamInv, TypeOK, NoGap, HandlerInv, RelayInv
<1>6. DoneIsEarned'
  BY DEF StreamInv, DoneIsEarned, Delivered
<1>7. NoSilentEnd'
  BY DEF StreamInv, NoSilentEnd, Delivered, HandlerInv
<1>8. ErrorIsJust'
  BY DEF StreamInv, ErrorIsJust, RelayInv, HandlerInv
<1> QED BY <1>1, <1>2, <1>3, <1>4, <1>5, <1>6, <1>7, <1>8 DEF StreamInv

\* The context is canceled.
LEMMA ContextCanceledKeeps ==
  ASSUME StreamInv, ContextCanceled
  PROVE  StreamInv'
<1> USE DEF ContextCanceled
<1>1. TypeOK'
  BY DEF StreamInv, TypeOK
<1>2. RelayInv'
  BY DEF StreamInv, TypeOK, RelayInv
<1>3. ProducerInv'
  BY DEF StreamInv, TypeOK, RelayInv, ProducerInv, HandlerInv, Complete, UpToDate
<1>4. HandlerInv'
  BY DEF StreamInv, TypeOK, HandlerInv, ProducerInv
<1>5. NoGap' /\ DoneIsEarned' /\ NoSilentEnd'
  BY ClientViewKept
<1>6. ErrorIsJust'
  BY DEF StreamInv, ErrorIsJust, RelayInv, HandlerInv
<1> QED BY <1>1, <1>2, <1>3, <1>4, <1>5, <1>6 DEF StreamInv

\* The cancellation reaches the upstream service.
LEMMA CancelReachesKeeps ==
  ASSUME StreamInv, CancelReaches
  PROVE  StreamInv'
<1> USE DEF CancelReaches
<1>1. TypeOK'
  BY DEF StreamInv, TypeOK
<1>2. RelayInv'
  BY DEF StreamInv, TypeOK, RelayInv
<1>3. ProducerInv'
  BY DEF StreamInv, TypeOK, RelayInv, ProducerInv, HandlerInv, Complete, UpToDate
<1>4. HandlerInv'
  BY DEF StreamInv, TypeOK, HandlerInv, ProducerInv
<1>5. NoGap' /\ DoneIsEarned' /\ NoSilentEnd'
  BY ClientViewKept
<1>6. ErrorIsJust'
  BY DEF StreamInv, ErrorIsJust, RelayInv, HandlerInv
<1> QED BY <1>1, <1>2, <1>3, <1>4, <1>5, <1>6 DEF StreamInv

\* The connection between the services breaks.
LEMMA RpcBreaksKeeps ==
  ASSUME StreamInv, RpcBreaks
  PROVE  StreamInv'
<1> USE DEF RpcBreaks
<1>1. TypeOK'
  BY DEF StreamInv, TypeOK
<1>2. RelayInv'
  BY DEF StreamInv, TypeOK, RelayInv
<1>3. ProducerInv'
  BY DEF StreamInv, TypeOK, RelayInv, ProducerInv, HandlerInv, Complete, UpToDate
<1>4. HandlerInv'
  BY DEF StreamInv, TypeOK, HandlerInv, ProducerInv
<1>5. NoGap' /\ DoneIsEarned' /\ NoSilentEnd'
  BY ClientViewKept
<1>6. ErrorIsJust'
  BY DEF StreamInv, ErrorIsJust, RelayInv, HandlerInv
<1> QED BY <1>1, <1>2, <1>3, <1>4, <1>5, <1>6 DEF StreamInv

\* ChatStream starts its goroutine.
LEMMA StartStreamKeeps ==
  ASSUME StreamInv, StartStream
  PROVE  StreamInv'
<1> USE DEF StartStream
<1>1. TypeOK'
  BY DEF StreamInv, TypeOK
<1>2. RelayInv'
  BY DEF StreamInv, TypeOK, RelayInv
<1>3. ProducerInv'
  BY DEF StreamInv, TypeOK, RelayInv, ProducerInv, HandlerInv, Complete, UpToDate
<1>4. HandlerInv'
  BY DEF StreamInv, TypeOK, HandlerInv, ProducerInv
<1>5. NoGap'
  BY DEF StreamInv, TypeOK, NoGap, HandlerInv, RelayInv
<1>6. DoneIsEarned'
  BY DEF StreamInv, DoneIsEarned, Delivered
<1>7. NoSilentEnd'
  BY DEF StreamInv, NoSilentEnd, Delivered, HandlerInv
<1>8. ErrorIsJust'
  BY DEF StreamInv, ErrorIsJust, RelayInv, HandlerInv
<1> QED BY <1>1, <1>2, <1>3, <1>4, <1>5, <1>6, <1>7, <1>8 DEF StreamInv

\* ChatStream finds no route.
LEMMA NoRouteKeeps ==
  ASSUME StreamInv, NoRoute
  PROVE  StreamInv'
<1> USE DEF NoRoute
<1>1. TypeOK'
  BY DEF StreamInv, TypeOK
<1>2. RelayInv'
  BY DEF StreamInv, TypeOK, RelayInv
<1>3. ProducerInv'
  BY DEF StreamInv, TypeOK, RelayInv, ProducerInv, HandlerInv, Complete, UpToDate
<1>4. HandlerInv'
  BY DEF StreamInv, TypeOK, HandlerInv, ProducerInv
<1>5. NoGap'
  BY DEF StreamInv, TypeOK, NoGap, HandlerInv, RelayInv
<1>6. DoneIsEarned'
  BY DEF StreamInv, DoneIsEarned, Delivered
<1>7. NoSilentEnd'
  BY DEF StreamInv, NoSilentEnd, Delivered, HandlerInv
<1>8. ErrorIsJust'
  BY DEF StreamInv, ErrorIsJust, RelayInv, HandlerInv
<1> QED BY <1>1, <1>2, <1>3, <1>4, <1>5, <1>6, <1>7, <1>8 DEF StreamInv

\* The provider answers the call.
LEMMA ConnectKeeps ==
  ASSUME StreamInv, Connect
  PROVE  StreamInv'
<1> USE DEF Connect, UpReturns
<1>1. TypeOK'
  BY DEF StreamInv, TypeOK
<1>2. RelayInv'
  BY DEF StreamInv, TypeOK, RelayInv
<1>3. ProducerInv'
  BY DEF StreamInv, TypeOK, RelayInv, ProducerInv, HandlerInv, Complete, UpToDate
<1>4. HandlerInv'
  BY DEF StreamInv, TypeOK, HandlerInv, ProducerInv
<1>5. NoGap' /\ DoneIsEarned' /\ NoSilentEnd'
  BY ClientViewKept
<1>6. ErrorIsJust'
  BY DEF StreamInv, ErrorIsJust, RelayInv, HandlerInv
<1> QED BY <1>1, <1>2, <1>3, <1>4, <1>5, <1>6 DEF StreamInv

\* The scanner returns a line.
LEMMA ScanKeeps ==
  ASSUME StreamInv, Scan
  PROVE  StreamInv'
<1> USE DEF Scan
<1>1. TypeOK'
  BY DEF StreamInv, TypeOK
<1>2. RelayInv'
  BY DEF StreamInv, TypeOK, RelayInv
<1>3. ProducerInv'
  BY DEF StreamInv, TypeOK, RelayInv, ProducerInv, HandlerInv, Complete, UpToDate
<1>4. HandlerInv'
  BY DEF StreamInv, TypeOK, HandlerInv, ProducerInv
<1>5. NoGap' /\ DoneIsEarned' /\ NoSilentEnd'
  BY ClientViewKept
<1>6. ErrorIsJust'
  BY DEF StreamInv, ErrorIsJust, RelayInv, HandlerInv
<1> QED BY <1>1, <1>2, <1>3, <1>4, <1>5, <1>6 DEF StreamInv

\* A line goes on the gRPC stream.
LEMMA SendKeeps ==
  ASSUME StreamInv, Send
  PROVE  StreamInv'
<1> USE DEF Send
<1>1. TypeOK'
  BY DEF StreamInv, TypeOK
<1>2. RelayInv'
  BY DEF StreamInv, TypeOK, RelayInv
<1>3. ProducerInv'
  BY DEF StreamInv, TypeOK, RelayInv, ProducerInv, HandlerInv, Complete, UpToDate
<1>4. HandlerInv'
  BY DEF StreamInv, TypeOK, HandlerInv, ProducerInv
<1>5. NoGap' /\ DoneIsEarned' /\ NoSilentEnd'
  BY ClientViewKept
<1>6. ErrorIsJust'
  BY DEF StreamInv, ErrorIsJust, RelayInv, HandlerInv
<1> QED BY <1>1, <1>2, <1>3, <1>4, <1>5, <1>6 DEF StreamInv

\* The scan is over.
LEMMA StreamEndsKeeps ==
  ASSUME StreamInv, StreamEnds
  PROVE  StreamInv'
<1> USE DEF StreamEnds, UpReturns, BodyStatus
<1>1. TypeOK'
  BY DEF StreamInv, TypeOK
<1>2. RelayInv'
  BY DEF StreamInv, TypeOK, RelayInv
<1>3. ProducerInv'
  BY DEF StreamInv, TypeOK, RelayInv, ProducerInv, HandlerInv, Complete, UpToDate
<1>4. HandlerInv'
  BY DEF StreamInv, TypeOK, HandlerInv, ProducerInv
<1>5. NoGap' /\ DoneIsEarned' /\ NoSilentEnd'
  BY ClientViewKept
<1>6. ErrorIsJust'
  BY DEF StreamInv, ErrorIsJust, RelayInv, HandlerInv
<1> QED BY <1>1, <1>2, <1>3, <1>4, <1>5, <1>6 DEF StreamInv

\* The upstream handler is canceled.
LEMMA UpCanceledKeeps ==
  ASSUME StreamInv, UpCanceled
  PROVE  StreamInv'
<1> USE DEF UpCanceled, UpReturns
<1>1. TypeOK'
  BY DEF StreamInv, TypeOK
<1>2. RelayInv'
  BY DEF StreamInv, TypeOK, RelayInv
<1>3. ProducerInv'
  BY DEF StreamInv, TypeOK, RelayInv, ProducerInv, HandlerInv, Complete, UpToDate
<1>4. HandlerInv'
  BY DEF StreamInv, TypeOK, HandlerInv, ProducerInv
<1>5. NoGap' /\ DoneIsEarned' /\ NoSilentEnd'
  BY ClientViewKept
<1>6. ErrorIsJust'
  BY DEF StreamInv, ErrorIsJust, RelayInv, HandlerInv
<1> QED BY <1>1, <1>2, <1>3, <1>4, <1>5, <1>6 DEF StreamInv

\* The goroutine opens the gRPC stream.
LEMMA OpenStreamKeeps ==
  ASSUME StreamInv, OpenStream
  PROVE  StreamInv'
<1> USE DEF OpenStream, ProducerFails
<1>1. TypeOK'
  <2>1. /\ prodPc' \in {"receiving", "closing"} /\ rpc' \in {"open", rpc}
        /\ upPc' \in {"connecting", upPc} /\ err' \in {TRUE, err}
    OBVIOUS
  <2>2. UNCHANGED <<format, client, lines, source, read, terminalSeen, upDone, sent, received,
                    event, errClosed, respClosed, handPc, started, respNil, errNil, answer,
                    ctxDone, out, done>>
    OBVIOUS
  <2> HIDE DEF OpenStream, ProducerFails
  <2>3. /\ prodPc' \in {"none", "opening", "receiving", "sending", "finishing", "closing", "ended"}
        /\ rpc' \in {"none", "open", "ok", "error"}
        /\ upPc' \in {"idle", "connecting", "scanning", "sending", "ended"}
    BY <2>1 DEF StreamInv, TypeOK
  <2>4. err' \in BOOLEAN
    BY <2>1 DEF StreamInv, TypeOK
  <2> QED BY <2>2, <2>3, <2>4 DEF StreamInv, TypeOK
<1>2. RelayInv'
  BY DEF StreamInv, TypeOK, RelayInv, ProducerInv
<1>3. ProducerInv'
  BY DEF StreamInv, TypeOK, RelayInv, ProducerInv, HandlerInv, Complete, UpToDate
<1>4. HandlerInv'
  BY DEF StreamInv, TypeOK, HandlerInv, ProducerInv
<1>5. NoGap' /\ DoneIsEarned' /\ NoSilentEnd'
  BY ClientViewKept
<1>6. ErrorIsJust'
  BY DEF StreamInv, ErrorIsJust, RelayInv, ProducerInv, HandlerInv
<1> QED BY <1>1, <1>2, <1>3, <1>4, <1>5, <1>6 DEF StreamInv

\* Recv returns a line.
LEMMA RecvKeeps ==
  ASSUME StreamInv, Recv
  PROVE  StreamInv'
<1> USE DEF Recv
<1>1. TypeOK'
  BY DEF StreamInv, TypeOK
<1>2. RelayInv'
  BY DEF StreamInv, TypeOK, RelayInv
<1>3. ProducerInv'
  <2>1. received + 1 \in 1 .. Len(lines)
    BY DEF StreamInv, TypeOK, RelayInv
  <2>2. Yield[lines[received + 1]] \in Nat
    BY <2>1, YieldNat DEF StreamInv
  <2>3. handPc # "returned" => UpToDate'
    <3> SUFFICES ASSUME handPc # "returned",
                        NEW n \in 1 .. received + 1, NEW k \in 1 .. Yield[lines[n]],
                        <<n, k>> \notin out
                 PROVE  prodPc' = "sending" /\ n = received + 1 /\ k >= 1
      BY DEF UpToDate
    <3>1. UpToDate /\ received \in Nat
      BY DEF StreamInv, ProducerInv, TypeOK
    <3>2. n = received + 1
      BY <3>1 DEF UpToDate
    <3> QED BY <2>2, <3>2
  <2> QED BY <2>1, <2>2, <2>3 DEF StreamInv, TypeOK, RelayInv, ProducerInv, HandlerInv
<1>4. HandlerInv'
  BY DEF StreamInv, TypeOK, HandlerInv, ProducerInv
<1>5. NoGap' /\ DoneIsEarned' /\ NoSilentEnd'
  BY ClientViewKept
<1>6. ErrorIsJust'
  BY DEF StreamInv, ErrorIsJust, RelayInv, HandlerInv
<1> QED BY <1>1, <1>2, <1>3, <1>4, <1>5, <1>6 DEF StreamInv

\* Recv returns io.EOF.
LEMMA RecvEndKeeps ==
  ASSUME StreamInv, RecvEnd
  PROVE  StreamInv'
<1> USE DEF RecvEnd
<1>1. TypeOK'
  BY DEF StreamInv, TypeOK
<1>2. RelayInv'
  BY DEF StreamInv, TypeOK, RelayInv
<1>3. ProducerInv'
  BY DEF StreamInv, TypeOK, RelayInv, ProducerInv, HandlerInv, Complete, UpToDate
<1>4. HandlerInv'
  BY DEF StreamInv, TypeOK, HandlerInv, ProducerInv
<1>5. NoGap' /\ DoneIsEarned' /\ NoSilentEnd'
  BY ClientViewKept
<1>6. ErrorIsJust'
  BY DEF StreamInv, ErrorIsJust, RelayInv, HandlerInv
<1> QED BY <1>1, <1>2, <1>3, <1>4, <1>5, <1>6 DEF StreamInv

\* Recv returns an error.
LEMMA RecvErrorKeeps ==
  ASSUME StreamInv, RecvError
  PROVE  StreamInv'
<1> USE DEF RecvError, ProducerFails
<1>1. TypeOK'
  BY DEF StreamInv, TypeOK
<1>2. RelayInv'
  BY DEF StreamInv, TypeOK, RelayInv
<1>3. ProducerInv'
  BY DEF StreamInv, TypeOK, RelayInv, ProducerInv, HandlerInv, Complete, UpToDate
<1>4. HandlerInv'
  BY DEF StreamInv, TypeOK, HandlerInv, ProducerInv
<1>5. NoGap' /\ DoneIsEarned' /\ NoSilentEnd'
  BY ClientViewKept
<1>6. ErrorIsJust'
  BY DEF StreamInv, ErrorIsJust, RelayInv, HandlerInv
<1> QED BY <1>1, <1>2, <1>3, <1>4, <1>5, <1>6 DEF StreamInv

\* A send gives way to the canceled context.
LEMMA SendAbortedKeeps ==
  ASSUME StreamInv, SendAborted
  PROVE  StreamInv'
<1> USE DEF SendAborted
<1>1. TypeOK'
  BY DEF StreamInv, TypeOK
<1>2. RelayInv'
  BY DEF StreamInv, TypeOK, RelayInv
<1>3. ProducerInv'
  BY DEF StreamInv, TypeOK, RelayInv, ProducerInv, HandlerInv, Complete, UpToDate
<1>4. HandlerInv'
  BY DEF StreamInv, TypeOK, HandlerInv, ProducerInv
<1>5. NoGap' /\ DoneIsEarned' /\ NoSilentEnd'
  BY ClientViewKept
<1>6. ErrorIsJust'
  BY DEF StreamInv, ErrorIsJust, RelayInv, HandlerInv
<1> QED BY <1>1, <1>2, <1>3, <1>4, <1>5, <1>6 DEF StreamInv

\* errchan is closed.
LEMMA CloseErrKeeps ==
  ASSUME StreamInv, CloseErr
  PROVE  StreamInv'
<1> USE DEF CloseErr
<1>1. TypeOK'
  BY DEF StreamInv, TypeOK
<1>2. RelayInv'
  BY DEF StreamInv, TypeOK, RelayInv
<1>3. ProducerInv'
  BY DEF StreamInv, TypeOK, RelayInv, ProducerInv, HandlerInv, Complete, UpToDate
<1>4. HandlerInv'
  BY DEF StreamInv, TypeOK, HandlerInv, ProducerInv
<1>5. NoGap' /\ DoneIsEarned' /\ NoSilentEnd'
  BY ClientViewKept
<1>6. ErrorIsJust'
  BY DEF StreamInv, ErrorIsJust, RelayInv, HandlerInv
<1> QED BY <1>1, <1>2, <1>3, <1>4, <1>5, <1>6 DEF StreamInv

\* respchan is closed.
LEMMA CloseRespKeeps ==
  ASSUME StreamInv, CloseResp
  PROVE  StreamInv'
<1> USE DEF CloseResp
<1>1. TypeOK'
  BY DEF StreamInv, TypeOK
<1>2. RelayInv'
  BY DEF StreamInv, TypeOK, RelayInv
<1>3. ProducerInv'
  BY DEF StreamInv, TypeOK, RelayInv, ProducerInv, HandlerInv, Complete, UpToDate
<1>4. HandlerInv'
  BY DEF StreamInv, TypeOK, HandlerInv, ProducerInv
<1>5. NoGap' /\ DoneIsEarned' /\ NoSilentEnd'
  BY ClientViewKept
<1>6. ErrorIsJust'
  BY DEF StreamInv, ErrorIsJust, RelayInv, HandlerInv
<1> QED BY <1>1, <1>2, <1>3, <1>4, <1>5, <1>6 DEF StreamInv

\* The handler takes [DONE] and writes it.
LEMMA HandleFinishKeeps ==
  ASSUME StreamInv, HandleEvent, prodPc = "finishing"
  PROVE  StreamInv'
<1>1. /\ handPc = "loop" /\ prodPc' = "closing"
      /\ UNCHANGED <<format, client, lines, source, upPc, read, terminalSeen, upDone, sent, rpc,
                     received, event, err, errClosed, respClosed, respNil, errNil, out>>
      /\ \/ /\ started' = TRUE /\ done' = TRUE
            /\ UNCHANGED <<handPc, answer, ctxDone>>
         \/ /\ client = "gone" /\ handPc' = "returned" /\ answer' = "gone" /\ ctxDone' = TRUE
            /\ UNCHANGED <<started, done>>
  BY DEF HandleEvent, Sent, Returns
<1>2. Delivered /\ UpToDate
  <2>1. UpToDate /\ rpc = "ok" /\ received = sent
    BY <1>1 DEF StreamInv, ProducerInv
  <2> QED BY <2>1 DEF UpToDate, Delivered, StreamInv, RelayInv, TypeOK
<1>3. Delivered' /\ UpToDate'
  BY <1>1, <1>2 DEF Delivered, UpToDate
<1>4. TypeOK'
  <2>1. CASE started' = TRUE /\ done' = TRUE /\ UNCHANGED <<handPc, answer, ctxDone>>
    BY <1>1, <2>1 DEF StreamInv, TypeOK
  <2>2. CASE /\ handPc' = "returned" /\ answer' = "gone" /\ ctxDone' = TRUE
             /\ UNCHANGED <<started, done>>
    BY <1>1, <2>2 DEF StreamInv, TypeOK
  <2> QED BY <1>1, <2>1, <2>2
<1>5. RelayInv'
  BY <1>1 DEF StreamInv, RelayInv
<1>6. ProducerInv'
  BY <1>1, <1>3 DEF StreamInv, ProducerInv, Complete
<1>7. HandlerInv'
  BY <1>1 DEF StreamInv, HandlerInv, ProducerInv
<1>8. NoGap'
  BY <1>1 DEF StreamInv, NoGap
<1>9. DoneIsEarned' /\ NoSilentEnd' /\ ErrorIsJust'
  BY <1>1, <1>3 DEF StreamInv, DoneIsEarned, NoSilentEnd, ErrorIsJust, HandlerInv
<1> QED BY <1>4, <1>5, <1>6, <1>7, <1>8, <1>9 DEF StreamInv

\* The handler takes an event of the last line received and writes it, or
\* finds that the client has gone.
LEMMA HandleEventKeeps ==
  ASSUME StreamInv, HandleEvent, prodPc = "sending"
  PROVE  StreamInv'
<1> DEFINE y == Yield[lines[received]]
<1>1. /\ handPc = "loop" /\ UpToDate
      /\ received \in 1 .. Len(lines) /\ event \in 1 .. y
  BY DEF HandleEvent, StreamInv, ProducerInv
<1>2. received \in Nat /\ event \in Nat /\ y \in Nat
  BY <1>1, YieldNat DEF StreamInv, TypeOK
<1>3. /\ UNCHANGED <<format, client, lines, source, upPc, read, terminalSeen, upDone, sent, rpc,
                     received, err, errClosed, respClosed, respNil, errNil, done>>
      /\ \/ event < y /\ event' = event + 1 /\ prodPc' = "sending"
         \/ event = y /\ event' = event /\ prodPc' = "receiving"
      /\ \/ /\ started' = TRUE /\ out' = out \cup {<<received, event>>}
            /\ UNCHANGED <<handPc, answer, ctxDone>>
         \/ /\ client = "gone" /\ handPc' = "returned" /\ answer' = "gone" /\ ctxDone' = TRUE
            /\ UNCHANGED <<started, out>>
  BY <1>1, <1>2 DEF HandleEvent, Sent, Returns
<1> HIDE DEF y
<1>4. TypeOK'
  <2>1. event' \in Nat /\ prodPc' \in {"sending", "receiving"}
    BY <1>2, <1>3
  <2>2. CASE started' = TRUE /\ out' = out \cup {<<received, event>>}
             /\ UNCHANGED <<handPc, answer, ctxDone>>
    BY <1>2, <1>3, <2>1, <2>2 DEF StreamInv, TypeOK
  <2>3. CASE /\ handPc' = "returned" /\ answer' = "gone" /\ ctxDone' = TRUE
             /\ UNCHANGED <<started, out>>
    BY <1>3, <2>1, <2>3 DEF StreamInv, TypeOK
  <2> QED BY <1>3, <2>2, <2>3
<1>5. RelayInv'
  BY <1>3 DEF StreamInv, RelayInv
<1>6. handPc' # "returned" => UpToDate'
  <2> SUFFICES ASSUME handPc' # "returned",
                      NEW n \in 1 .. received, NEW k \in 1 .. Yield[lines[n]],
                      <<n, k>> \notin out'
               PROVE  prodPc' = "sending" /\ n = received /\ k >= event'
    BY <1>3 DEF UpToDate
  <2>1. out' = out \cup {<<received, event>>}
    BY <1>3
  <2>2. <<n, k>> \notin out /\ <<n, k>> # <<received, event>>
    BY <2>1
  <2>3. n = received /\ k >= event /\ k # event /\ k <= y
    BY <1>1, <2>2 DEF UpToDate, y
  <2> QED BY <1>2, <1>3, <2>3
<1>7. ProducerInv'
  <2>1. prodPc' = "sending" => event' \in 1 .. Yield[lines[received]]
    BY <1>1, <1>2, <1>3 DEF y
  <2> QED BY <1>1, <1>3, <1>6, <2>1 DEF StreamInv, ProducerInv
<1>8. HandlerInv'
  BY <1>1, <1>2, <1>3 DEF StreamInv, HandlerInv
<1>9. NoGap'
  <2>1. \A n \in 1 .. received : \A k \in 1 .. Yield[lines[n]] :
          n < received \/ k < event => <<n, k>> \in out
    BY <1>1, <1>2 DEF UpToDate
  <2>2. \A e \in out' : e \in out \/ e = <<received, event>>
    BY <1>3
  <2>3. out \subseteq out'
    BY <1>3
  <2>4. ASSUME NEW e \in out', NEW n \in 1 .. e[1], NEW k \in 1 .. Yield[lines[n]],
               n < e[1] \/ k < e[2]
        PROVE  <<n, k>> \in out'
    BY <2>1, <2>2, <2>3, <2>4 DEF StreamInv, NoGap
  <2> QED BY <1>3, <2>4 DEF NoGap
<1>10. DoneIsEarned'
  BY <1>3 DEF StreamInv, DoneIsEarned, Delivered
<1>11. NoSilentEnd' /\ ErrorIsJust'
  BY <1>1, <1>3 DEF StreamInv, NoSilentEnd, ErrorIsJust, HandlerInv
<1> QED BY <1>4, <1>5, <1>7, <1>8, <1>9, <1>10, <1>11 DEF StreamInv

\* The handler finds respchan closed.
LEMMA HandleRespClosedKeeps ==
  ASSUME StreamInv, HandleRespClosed
  PROVE  StreamInv'
<1> USE DEF HandleRespClosed
<1>1. TypeOK'
  BY DEF StreamInv, TypeOK
<1>2. RelayInv'
  BY DEF StreamInv, TypeOK, RelayInv
<1>3. ProducerInv'
  BY DEF StreamInv, TypeOK, RelayInv, ProducerInv, HandlerInv, Complete, UpToDate
<1>4. HandlerInv'
  BY DEF StreamInv, TypeOK, HandlerInv, ProducerInv
<1>5. NoGap' /\ DoneIsEarned' /\ NoSilentEnd'
  BY ClientViewKept
<1>6. ErrorIsJust'
  BY DEF StreamInv, ErrorIsJust, RelayInv, HandlerInv
<1> QED BY <1>1, <1>2, <1>3, <1>4, <1>5, <1>6 DEF StreamInv

\* The handler reports an error.
LEMMA HandleErrorKeeps ==
  ASSUME StreamInv, HandleError
  PROVE  StreamInv'
<1> USE DEF HandleError, Returns
<1>1. TypeOK'
  <2>1. answer' \in {"stream_error", "http_error"}
    OBVIOUS
  <2>2. /\ handPc' = "returned"
        /\ UNCHANGED <<format, client, lines, source, upPc, read, terminalSeen, upDone, sent, rpc,
                       prodPc, received, event, errClosed, respClosed, started, respNil, errNil,
                       out, done>>
    OBVIOUS
  <2>3. ctxDone' \in BOOLEAN /\ err' \in BOOLEAN
    OBVIOUS
  <2> HIDE DEF HandleError, Returns
  <2>4. answer' \in {"none", "complete", "http_error", "stream_error", "gone"}
    BY <2>1
  <2> QED BY <2>2, <2>3, <2>4 DEF StreamInv, TypeOK
<1>2. RelayInv'
  BY DEF StreamInv, TypeOK, RelayInv
<1>3. ProducerInv'
  BY DEF StreamInv, TypeOK, RelayInv, ProducerInv, HandlerInv, Complete, UpToDate
<1>4. HandlerInv'
  BY DEF StreamInv, TypeOK, HandlerInv, ProducerInv
<1>5. NoGap'
  BY DEF StreamInv, TypeOK, NoGap, HandlerInv, RelayInv
<1>6. DoneIsEarned'
  BY DEF StreamInv, DoneIsEarned, Delivered
<1>7. NoSilentEnd'
  BY DEF StreamInv, NoSilentEnd, Delivered, HandlerInv
<1>8. ErrorIsJust'
  BY DEF StreamInv, ErrorIsJust, ProducerInv
<1> QED BY <1>1, <1>2, <1>3, <1>4, <1>5, <1>6, <1>7, <1>8 DEF StreamInv

\* The handler finds errchan closed.
LEMMA HandleErrClosedKeeps ==
  ASSUME StreamInv, HandleErrClosed
  PROVE  StreamInv'
<1> USE DEF HandleErrClosed
<1>1. TypeOK'
  BY DEF StreamInv, TypeOK
<1>2. RelayInv'
  BY DEF StreamInv, TypeOK, RelayInv
<1>3. ProducerInv'
  BY DEF StreamInv, TypeOK, RelayInv, ProducerInv, HandlerInv, Complete, UpToDate
<1>4. HandlerInv'
  BY DEF StreamInv, TypeOK, HandlerInv, ProducerInv
<1>5. NoGap' /\ DoneIsEarned' /\ NoSilentEnd'
  BY ClientViewKept
<1>6. ErrorIsJust'
  BY DEF StreamInv, ErrorIsJust, RelayInv, HandlerInv
<1> QED BY <1>1, <1>2, <1>3, <1>4, <1>5, <1>6 DEF StreamInv

\* The handler finds its context canceled.
LEMMA HandleDoneKeeps ==
  ASSUME StreamInv, HandleDone
  PROVE  StreamInv'
<1> USE DEF HandleDone, Returns
<1>1. TypeOK'
  BY DEF StreamInv, TypeOK
<1>2. RelayInv'
  BY DEF StreamInv, TypeOK, RelayInv
<1>3. ProducerInv'
  BY DEF StreamInv, TypeOK, RelayInv, ProducerInv, HandlerInv, Complete, UpToDate
<1>4. HandlerInv'
  BY DEF StreamInv, TypeOK, HandlerInv, ProducerInv
<1>5. NoGap'
  BY DEF StreamInv, TypeOK, NoGap, HandlerInv, RelayInv
<1>6. DoneIsEarned'
  BY DEF StreamInv, DoneIsEarned, Delivered
<1>7. NoSilentEnd'
  BY DEF StreamInv, NoSilentEnd, Delivered, HandlerInv
<1>8. ErrorIsJust'
  BY DEF StreamInv, ErrorIsJust, RelayInv, HandlerInv
<1> QED BY <1>1, <1>2, <1>3, <1>4, <1>5, <1>6, <1>7, <1>8 DEF StreamInv

\* The handler's loop is over.
LEMMA HandleEndKeeps ==
  ASSUME StreamInv, HandleEnd
  PROVE  StreamInv'
<1> USE DEF HandleEnd, Returns, LoopOver
<1>1. TypeOK'
  BY DEF StreamInv, TypeOK
<1>2. RelayInv'
  BY DEF StreamInv, TypeOK, RelayInv
<1>3. ProducerInv'
  BY DEF StreamInv, TypeOK, RelayInv, ProducerInv, HandlerInv, Complete, UpToDate
<1>4. HandlerInv'
  BY DEF StreamInv, TypeOK, HandlerInv, ProducerInv
<1>5. NoGap'
  BY DEF StreamInv, TypeOK, NoGap, HandlerInv, RelayInv
<1>6. DoneIsEarned'
  BY DEF StreamInv, DoneIsEarned, Delivered
<1>7. NoSilentEnd'
  <2>1. SUFFICES ASSUME client = "connected"
                 PROVE  Delivered' /\ (format = "openai" => done)
    BY DEF NoSilentEnd
  <2>2. Complete /\ prodPc # "sending"
    BY <2>1 DEF StreamInv, HandlerInv, ProducerInv
  <2>3. source = "eof" /\ received = Len(lines) /\ \E n \in 1 .. read : lines[n] = "final"
    BY <2>2 DEF StreamInv, RelayInv, Complete
  <2> QED BY <2>2, <2>3 DEF Complete, UpToDate, Delivered, StreamInv, RelayInv, TypeOK
<1>8. ErrorIsJust'
  BY DEF StreamInv, ErrorIsJust, RelayInv, HandlerInv
<1> QED BY <1>1, <1>2, <1>3, <1>4, <1>5, <1>6, <1>7, <1>8 DEF StreamInv

\* Every step keeps the invariant.
LEMMA StreamStep == StreamInv /\ [Next]_vars => StreamInv'
<1>1. ASSUME StreamInv, UNCHANGED vars PROVE StreamInv'
  BY <1>1 DEF vars, StreamInv, TypeOK, RelayInv, ProducerInv, HandlerInv, NoGap, DoneIsEarned,
              NoSilentEnd, ErrorIsJust, Delivered, Complete, UpToDate
<1>2. ASSUME StreamInv, UpstreamStep PROVE StreamInv'
  BY <1>2, ConnectKeeps, ScanKeeps, SendKeeps, StreamEndsKeeps, UpCanceledKeeps DEF UpstreamStep
<1>3. ASSUME StreamInv, ProducerStep PROVE StreamInv'
  BY <1>3, OpenStreamKeeps, RecvKeeps, RecvEndKeeps, RecvErrorKeeps, SendAbortedKeeps,
     CloseErrKeeps, CloseRespKeeps DEF ProducerStep
<1>4. ASSUME StreamInv, HandleEvent PROVE StreamInv'
  BY <1>4, HandleEventKeeps, HandleFinishKeeps DEF HandleEvent
<1>5. ASSUME StreamInv, HandlerStep PROVE StreamInv'
  BY <1>4, <1>5, HandleRespClosedKeeps, HandleErrorKeeps, HandleErrClosedKeeps,
     HandleDoneKeeps, HandleEndKeeps DEF HandlerStep
<1> QED BY <1>1, <1>2, <1>3, <1>5, EmitKeeps, BodyEndsKeeps, DisconnectKeeps,
           ContextCanceledKeeps, CancelReachesKeeps, RpcBreaksKeeps, StartStreamKeeps,
           NoRouteKeeps DEF Next

\* The invariant holds when the request arrives.
LEMMA StreamInit == Init => StreamInv
<1> SUFFICES ASSUME Init PROVE StreamInv
  OBVIOUS
<1>1. TypeOK
  <2>1. lines \in Seq(Kinds) /\ Len(lines) <= MaxLines
    BY StreamAssumptions DEF Init
  <2>2. format \in {"openai", "other"} /\ out \subseteq Nat \X Nat
    BY DEF Init
  <2> QED BY <2>1, <2>2 DEF Init, TypeOK
<1>2. RelayInv /\ ProducerInv /\ HandlerInv
  BY DEF Init, RelayInv, ProducerInv, HandlerInv, UpToDate
<1>3. NoGap /\ DoneIsEarned /\ NoSilentEnd /\ ErrorIsJust
  BY DEF Init, NoGap, DoneIsEarned, NoSilentEnd, ErrorIsJust
<1> QED BY <1>1, <1>2, <1>3 DEF StreamInv

\* The inductive invariant of the relay, for every number of lines and window.
THEOREM StreamInvariance == Spec => []StreamInv
BY StreamInit, StreamStep, PTL DEF Spec

\* A response that ends without an error is the provider's whole answer: what
\* Stream's check of the terminal event, the order of the deferred closes and
\* the handler's loop over both channels achieve together.
THEOREM StreamsEndHonestly == Spec => []NoSilentEnd
<1>1. StreamInv => NoSilentEnd
  BY DEF StreamInv
<1> QED BY <1>1, StreamInvariance, PTL

\* Events reach the client in order and without a gap.
THEOREM StreamsHaveNoGap == Spec => []NoGap
<1>1. StreamInv => NoGap
  BY DEF StreamInv
<1> QED BY <1>1, StreamInvariance, PTL

\* [DONE] follows only a complete answer.
THEOREM DoneFollowsAll == Spec => []DoneIsEarned
<1>1. StreamInv => DoneIsEarned
  BY DEF StreamInv
<1> QED BY <1>1, StreamInvariance, PTL

\* Errors are reported only for streams that failed.
THEOREM ErrorsAreJust == Spec => []ErrorIsJust
<1>1. StreamInv => ErrorIsJust
  BY DEF StreamInv
<1> QED BY <1>1, StreamInvariance, PTL
=============================================================================
