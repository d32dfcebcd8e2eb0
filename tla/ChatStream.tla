----------------------------- MODULE ChatStream -----------------------------
(***************************************************************************)
(* One streaming chat request, from the provider's event stream to the     *)
(* client: Stream and ChatStream of the upstream service relay the lines   *)
(* of the provider over a gRPC stream, a goroutine of the API receives     *)
(* them, translates them and hands the events to the handler over a        *)
(* channel, and the handler writes them to the client (modules/chat,       *)
(* upstreamserver/chat.go).  The client may leave, the provider may stop   *)
(* or break off, and the connection between the services may break.        *)
(*                                                                         *)
(* A line is known by its number and by how it is treated; the translator  *)
(* (a library) turns it into Yield[kind] events.  Every registered route   *)
(* translates (chat/route/init.go), so lines are never passed through.     *)
(* gRPC delivers in order: the messages in flight are the lines            *)
(* received + 1 .. sent.                                                   *)
(***************************************************************************)
EXTENDS Naturals, Sequences

CONSTANTS
  MaxLines,  \* bound: lines the provider sends
  Window     \* messages the gRPC stream takes before Send blocks

ASSUME StreamAssumptions == MaxLines \in Nat /\ Window \in Nat \ {0}

\* "final" is response.completed, response.incomplete or response.failed; a
\* "quiet" line (blank, event name, comment) yields no event.
Kinds == {"quiet", "data", "final"}
Yield == [k \in Kinds |-> IF k = "quiet" THEN 0 ELSE IF k = "data" THEN 1 ELSE 2]

VARIABLES
  format,       \* the client's protocol: Chat Completions ("openai") or another
  client,       \* "connected" or "gone"
  lines,        \* the lines the provider has sent
  source,       \* the provider's body: "open", "eof" or "broken"
  upPc,         \* the upstream service's handler
  read,         \* lines scanned by it
  terminalSeen,
  upDone,       \* its context is canceled
  sent,         \* messages that are, or were, on the gRPC stream
  rpc,          \* how the gRPC stream ended: "none", "open", "ok" or "error"
  prodPc,       \* the goroutine of ChatService.ChatStream
  received,     \* messages it has received
  event,        \* the event of line received it sends next
  err,          \* errchan (capacity 1) holds an error
  errClosed, respClosed,
  handPc,       \* ChatHandler.Chat
  started, respNil, errNil,
  answer,       \* how the handler ended
  ctxDone,      \* the context of the request is canceled
  out,          \* the events written to the client: <<line, number>>
  done          \* "data: [DONE]" was written

provider == <<lines, source>>
upstream == <<upPc, read, terminalSeen, upDone>>
stream == <<sent, rpc>>
producer == <<prodPc, received, event>>
chans == <<err, errClosed, respClosed>>
handler == <<handPc, started, respNil, errNil, answer>>
written == <<out, done>>
vars == <<format, client, provider, upstream, stream, producer, chans, handler,
          ctxDone, written>>

Init ==
  /\ format \in {"openai", "other"}
  /\ client = "connected"
  /\ lines = <<>> /\ source = "open"
  /\ upPc = "idle" /\ read = 0 /\ terminalSeen = FALSE /\ upDone = FALSE
  /\ sent = 0 /\ rpc = "none"
  /\ prodPc = "none" /\ received = 0 /\ event = 1
  /\ err = FALSE /\ errClosed = FALSE /\ respClosed = FALSE
  /\ handPc = "calling" /\ started = FALSE /\ respNil = FALSE /\ errNil = FALSE
  /\ answer = "none"
  /\ ctxDone = FALSE
  /\ out = {} /\ done = FALSE

-----------------------------------------------------------------------------
(* The surroundings: provider, client, connections.                        *)

\* The provider sends the next line of a 2xx response, or its body ends.
Emit(kind) ==
  /\ upPc \in {"scanning", "sending"}
  /\ source = "open" /\ Len(lines) < MaxLines
  /\ lines' = Append(lines, kind)
  /\ UNCHANGED <<format, client, source, upstream, stream, producer, chans, handler,
                 ctxDone, written>>

BodyEnds(how) ==
  /\ upPc \in {"scanning", "sending"}
  /\ source = "open"
  /\ source' = how
  /\ UNCHANGED <<format, client, lines, upstream, stream, producer, chans, handler,
                 ctxDone, written>>

Disconnect ==
  /\ client = "connected" /\ handPc # "returned"
  /\ client' = "gone"
  /\ UNCHANGED <<format, provider, upstream, stream, producer, chans, handler,
                 ctxDone, written>>

\* net/http notices that the client has gone and cancels the request's context.
ContextCanceled ==
  /\ client = "gone" /\ ~ctxDone
  /\ ctxDone' = TRUE
  /\ UNCHANGED <<format, client, provider, upstream, stream, producer, chans, handler,
                 written>>

\* The cancellation of the API's call reaches the upstream service.
CancelReaches ==
  /\ ctxDone /\ ~upDone /\ upPc \notin {"idle", "ended"}
  /\ upDone' = TRUE
  /\ UNCHANGED <<format, client, provider, upPc, read, terminalSeen, stream, producer,
                 chans, handler, ctxDone, written>>

\* The connection between the services breaks: messages and status that were
\* under way may be lost, the caller sees an error, the callee a cancellation.
RpcBreaks ==
  /\ rpc \in {"open", "ok"} /\ prodPc \in {"receiving", "sending"}
  /\ rpc' = "error"
  /\ sent' \in received .. sent
  /\ upDone' = TRUE
  /\ UNCHANGED <<format, client, provider, upPc, read, terminalSeen, producer, chans,
                 handler, ctxDone, written>>

-----------------------------------------------------------------------------
(* The upstream service: server.ChatStream and Stream.                     *)

\* The handler of the RPC returns, with the status of the stream.
UpReturns(status) ==
  /\ upPc' = "ended"
  /\ rpc' = IF rpc = "open" THEN status ELSE rpc
  /\ UNCHANGED <<format, client, provider, read, terminalSeen, upDone, sent, producer,
                 chans, handler, ctxDone, written>>

\* The provider answers 2xx, or it refuses, fails or sends no header in time.
Connect ==
  /\ upPc = "connecting"
  /\ \/ /\ upPc' = "scanning"
        /\ UNCHANGED <<format, client, provider, read, terminalSeen, upDone, stream,
                       producer, chans, handler, ctxDone, written>>
     \/ UpReturns("error")

Scan ==
  /\ upPc = "scanning" /\ read < Len(lines)
  /\ read' = read + 1
  /\ terminalSeen' = (terminalSeen \/ lines[read + 1] = "final")
  /\ upPc' = "sending"
  /\ UNCHANGED <<format, client, provider, upDone, stream, producer, chans, handler,
                 ctxDone, written>>

Send ==
  /\ upPc = "sending"
  /\ rpc = "open" /\ sent - received < Window
  /\ sent' = sent + 1
  /\ upPc' = "scanning"
  /\ UNCHANGED <<format, client, provider, read, terminalSeen, upDone, rpc, producer,
                 chans, handler, ctxDone, written>>

\* A body that ends before a terminal event is io.ErrUnexpectedEOF.
BodyStatus == IF source = "eof" /\ terminalSeen THEN "ok" ELSE "error"

StreamEnds ==
  /\ upPc = "scanning" /\ read = Len(lines) /\ source # "open"
  /\ UpReturns(BodyStatus)

\* A canceled context ends the provider call, the scan and the Send.
UpCanceled ==
  /\ upDone /\ upPc \in {"connecting", "scanning", "sending"}
  /\ UpReturns("error")

-----------------------------------------------------------------------------
(* The goroutine of ChatService.ChatStream.                                *)

\* Mutant: the context is canceled when ChatStream returns its channels, as
\* ChatNonStream does with its own.
StartStream_CancelsOnReturn ==
  /\ handPc = "calling"
  /\ handPc' = "loop"
  /\ ctxDone' = TRUE
  /\ prodPc' = "opening"
  /\ UNCHANGED <<format, client, provider, upstream, stream, received, event, chans,
                 started, respNil, errNil, answer, written>>

\* The handler calls ChatStream, which finds a route and starts the goroutine.
StartStream ==
  /\ handPc = "calling"
  /\ handPc' = "loop"
  /\ prodPc' = "opening"
  /\ UNCHANGED <<format, client, provider, upstream, stream, received, event, chans,
                 started, respNil, errNil, answer, ctxDone, written>>

\* There is no route for the model: both channels are returned closed.
NoRoute ==
  /\ handPc = "calling"
  /\ handPc' = "loop"
  /\ prodPc' = "ended"
  /\ err' = TRUE /\ errClosed' = TRUE /\ respClosed' = TRUE
  /\ UNCHANGED <<format, client, provider, upstream, stream, received, event,
                 started, respNil, errNil, answer, ctxDone, written>>

\* Mutant: errchan has no buffer, so the send waits for the handler.
ProducerFails_Unbuffered ==
  /\ handPc = "loop" /\ ~errNil
  /\ prodPc' = "closing"
  /\ err' = TRUE
  /\ UNCHANGED <<received, event, errClosed, respClosed>>

\* errchan <- err, which has room for it, and the goroutine returns.
ProducerFails ==
  /\ prodPc' = "closing"
  /\ err' = TRUE
  /\ UNCHANGED <<received, event, errClosed, respClosed>>

OpenStream ==
  /\ prodPc = "opening"
  /\ \/ /\ prodPc' = "receiving"
        /\ rpc' = "open"
        /\ upPc' = "connecting"
        /\ UNCHANGED <<received, event, chans>>
     \/ ProducerFails /\ UNCHANGED <<rpc, upPc>>
  /\ UNCHANGED <<format, client, provider, read, terminalSeen, upDone, sent, handler,
                 ctxDone, written>>

\* Recv returns a line; its events, if any, are sent one by one.
Recv ==
  /\ prodPc = "receiving" /\ received < sent
  /\ received' = received + 1
  /\ event' = 1
  /\ prodPc' = IF Yield[lines[received + 1]] = 0 THEN "receiving" ELSE "sending"
  /\ UNCHANGED <<format, client, provider, upstream, stream, chans, handler,
                 ctxDone, written>>

\* Recv returns io.EOF: a Chat Completions client is owed a [DONE].
RecvEnd ==
  /\ prodPc = "receiving" /\ received = sent /\ rpc = "ok"
  /\ prodPc' = IF format = "openai" THEN "finishing" ELSE "closing"
  /\ UNCHANGED <<format, client, provider, upstream, stream, received, event, chans,
                 handler, ctxDone, written>>

\* Recv returns an error: the stream failed, or the own context is canceled.
RecvError ==
  /\ prodPc = "receiving"
  /\ ctxDone \/ (received = sent /\ rpc = "error")
  /\ ProducerFails
  /\ UNCHANGED <<format, client, provider, upstream, stream, handler, ctxDone, written>>

\* Mutant: a break in the select leaves the select only, and the loop goes on.
SendAborted_Continues ==
  /\ prodPc \in {"sending", "finishing"} /\ ctxDone
  /\ prodPc' = IF prodPc = "sending" THEN "receiving" ELSE "closing"
  /\ UNCHANGED <<format, client, provider, upstream, stream, received, event, chans,
                 handler, ctxDone, written>>

\* The other branch of the select around a send.
SendAborted ==
  /\ prodPc \in {"sending", "finishing"} /\ ctxDone
  /\ prodPc' = "closing"
  /\ UNCHANGED <<format, client, provider, upstream, stream, received, event, chans,
                 handler, ctxDone, written>>

\* The deferred calls: close(errchan), then close(respchan).
CloseErr ==
  /\ prodPc = "closing" /\ ~errClosed
  /\ errClosed' = TRUE
  /\ UNCHANGED <<format, client, provider, upstream, stream, producer, err, respClosed,
                 handler, ctxDone, written>>

CloseResp ==
  /\ prodPc = "closing" /\ errClosed
  /\ respClosed' = TRUE
  /\ prodPc' = "ended"
  /\ UNCHANGED <<format, client, provider, upstream, stream, received, event, err,
                 errClosed, handler, ctxDone, written>>

-----------------------------------------------------------------------------
(* ChatHandler.Chat: the select loop over ctx, respchan and errchan.       *)

\* The handler returns, and its deferred cancel runs.
Returns(how) ==
  /\ handPc' = "returned"
  /\ answer' = how
  /\ ctxDone' = TRUE

\* The goroutine after the handler has taken its event.
Sent ==
  IF prodPc = "sending" /\ event < Yield[lines[received]]
  THEN event' = event + 1 /\ UNCHANGED prodPc
  ELSE /\ prodPc' = IF prodPc = "sending" THEN "receiving" ELSE "closing"
       /\ UNCHANGED event

\* Both sides of the unbuffered respchan meet, and the handler writes what it
\* got; a write to a client that has gone may fail.
HandleEvent ==
  /\ handPc = "loop" /\ ~respNil
  /\ prodPc \in {"sending", "finishing"}
  /\ Sent
  /\ \/ /\ started' = TRUE
        /\ IF prodPc = "sending"
           THEN out' = out \cup {<<received, event>>} /\ UNCHANGED done
           ELSE done' = TRUE /\ UNCHANGED out
        /\ UNCHANGED <<handPc, answer, ctxDone>>
     \/ /\ client = "gone"
        /\ Returns("gone")
        /\ UNCHANGED <<started, written>>
  /\ UNCHANGED <<format, client, provider, upstream, stream, received, chans,
                 respNil, errNil>>

HandleRespClosed ==
  /\ handPc = "loop" /\ ~respNil /\ respClosed
  /\ respNil' = TRUE
  /\ UNCHANGED <<format, client, provider, upstream, stream, producer, chans, handPc,
                 started, errNil, answer, ctxDone, written>>

\* An error before the first byte is an HTTP status, later an event.
HandleError ==
  /\ handPc = "loop" /\ ~errNil /\ err
  /\ err' = FALSE
  /\ Returns(IF started THEN "stream_error" ELSE "http_error")
  /\ UNCHANGED <<format, client, provider, upstream, stream, producer, errClosed,
                 respClosed, started, respNil, errNil, written>>

HandleErrClosed ==
  /\ handPc = "loop" /\ ~errNil /\ errClosed /\ ~err
  /\ errNil' = TRUE
  /\ UNCHANGED <<format, client, provider, upstream, stream, producer, chans, handPc,
                 started, respNil, answer, ctxDone, written>>

HandleDone ==
  /\ handPc = "loop" /\ ctxDone
  /\ Returns("gone")
  /\ UNCHANGED <<format, client, provider, upstream, stream, producer, chans,
                 started, respNil, errNil, written>>

\* Mutant: the loop runs until respchan is closed.
LoopOver_RespOnly == respNil

\* for respchan != nil || errchan != nil
LoopOver == respNil /\ errNil

HandleEnd ==
  /\ handPc = "loop" /\ LoopOver
  /\ Returns("complete")
  /\ UNCHANGED <<format, client, provider, upstream, stream, producer, chans,
                 started, respNil, errNil, written>>

-----------------------------------------------------------------------------
UpstreamStep == Connect \/ Scan \/ Send \/ StreamEnds \/ UpCanceled
ProducerStep == OpenStream \/ Recv \/ RecvEnd \/ RecvError \/ SendAborted \/ CloseErr \/ CloseResp
HandlerStep ==
  \/ HandleEvent \/ HandleRespClosed \/ HandleError \/ HandleErrClosed
  \/ HandleDone \/ HandleEnd

\* Everything the request started has come to its end.
Quiescent == handPc = "returned" /\ prodPc = "ended" /\ upPc \in {"idle", "ended"}

Next ==
  \/ \E kind \in Kinds : Emit(kind)
  \/ \E how \in {"eof", "broken"} : BodyEnds(how)
  \/ Disconnect \/ ContextCanceled \/ CancelReaches \/ RpcBreaks
  \/ StartStream \/ NoRoute
  \/ UpstreamStep \/ ProducerStep \/ HandlerStep
  \/ Quiescent /\ UNCHANGED vars

Spec == Init /\ [][Next]_vars

\* Goroutines run, a cancellation travels, and the provider's header arrives
\* or its timeout fires.  Nothing is assumed of the provider's body.
Fairness ==
  /\ WF_vars(StartStream \/ NoRoute)
  /\ WF_vars(ContextCanceled) /\ WF_vars(CancelReaches)
  /\ WF_vars(UpstreamStep) /\ WF_vars(ProducerStep) /\ WF_vars(HandlerStep)

FairSpec == Spec /\ Fairness

-----------------------------------------------------------------------------
(* Properties                                                              *)

\* Every variable holds a value of its kind.
TypeOK ==
  /\ format \in {"openai", "other"}
  /\ client \in {"connected", "gone"}
  /\ lines \in Seq(Kinds) /\ Len(lines) <= MaxLines
  /\ source \in {"open", "eof", "broken"}
  /\ upPc \in {"idle", "connecting", "scanning", "sending", "ended"}
  /\ read \in Nat /\ sent \in Nat /\ received \in Nat /\ event \in Nat
  /\ terminalSeen \in BOOLEAN /\ upDone \in BOOLEAN
  /\ rpc \in {"none", "open", "ok", "error"}
  /\ prodPc \in {"none", "opening", "receiving", "sending", "finishing", "closing", "ended"}
  /\ err \in BOOLEAN /\ errClosed \in BOOLEAN /\ respClosed \in BOOLEAN
  /\ handPc \in {"calling", "loop", "returned"}
  /\ started \in BOOLEAN /\ respNil \in BOOLEAN /\ errNil \in BOOLEAN
  /\ answer \in {"none", "complete", "http_error", "stream_error", "gone"}
  /\ ctxDone \in BOOLEAN /\ done \in BOOLEAN
  /\ out \subseteq Nat \X Nat

\* The provider's answer ended properly and the client has all of it.
Delivered ==
  /\ source = "eof"
  /\ \E n \in 1 .. Len(lines) : lines[n] = "final"
  /\ \A n \in 1 .. Len(lines) : \A k \in 1 .. Yield[lines[n]] : <<n, k>> \in out

\* A response that ends without an error, to a client that is still there, is
\* the whole answer of the provider: a body cut short, a broken connection or a
\* late error is never passed off as a normal end.
NoSilentEnd ==
  /\ handPc = "returned" /\ client = "connected"
  /\ answer \notin {"http_error", "stream_error"}
  => Delivered /\ (format = "openai" => done)

\* [DONE] is written only behind the last event of a complete answer.
DoneIsEarned == done => Delivered

\* Events reach the client in order and without a gap, across the gRPC stream,
\* the translation and the channel, and whatever fails on the way.
NoGap ==
  \A e \in out : \A n \in 1 .. e[1] : \A k \in 1 .. Yield[lines[n]] :
    n < e[1] \/ k < e[2] => <<n, k>> \in out

\* A client that is still there gets an error only if the stream really
\* failed, never because the request canceled its own work.
ErrorIsJust ==
  answer \in {"http_error", "stream_error"} /\ client = "connected"
    => rpc = "error" \/ upPc = "idle"

\* Once the client leaves, the body ends or the connection breaks, the handler,
\* the goroutine and the upstream call all come to their end, although the
\* provider may keep its side open for ever: nothing leaks.
WindsDown == (client = "gone" \/ source # "open" \/ rpc = "error") ~> Quiescent

-----------------------------------------------------------------------------
(* The inductive invariant behind the safety properties.                   *)

\* How far the lines have come, and what the end of the stream says of them.
RelayInv ==
  /\ received <= sent /\ sent <= read /\ read <= Len(lines)
  /\ upPc \in {"idle", "connecting"} => read = 0 /\ source = "open"
  /\ rpc = "none" <=> upPc = "idle"
  /\ rpc = "open" => /\ upPc = "sending" => read = sent + 1
                     /\ upPc \in {"connecting", "scanning"} => read = sent
                     /\ upPc # "ended"
  /\ rpc = "ok" => /\ upPc = "ended" /\ terminalSeen /\ source = "eof"
                   /\ sent = Len(lines)
  /\ terminalSeen => \E n \in 1 .. read : lines[n] = "final"

\* The events of the lines received, but for those of the last line that are
\* still to be sent, are with the client.
UpToDate ==
  \A n \in 1 .. received : \A k \in 1 .. Yield[lines[n]] :
    <<n, k>> \in out \/ (prodPc = "sending" /\ n = received /\ k >= event)

Complete == rpc = "ok" /\ received = sent /\ UpToDate /\ (format = "openai" => done)

\* What the goroutine has done and how it came to close its channels.
ProducerInv ==
  /\ prodPc \in {"none", "opening"} => received = 0 /\ rpc = "none"
  /\ prodPc = "none" <=> handPc = "calling"
  /\ prodPc = "sending" => /\ received \in 1 .. Len(lines)
                           /\ event \in 1 .. Yield[lines[received]]
  /\ prodPc = "finishing" => rpc = "ok" /\ received = sent /\ format = "openai"
  /\ handPc # "returned" /\ prodPc \in {"receiving", "sending", "finishing"} => UpToDate
  /\ handPc # "returned" /\ prodPc \in {"closing", "ended"} => err \/ ctxDone \/ Complete
  /\ err => prodPc \in {"closing", "ended"}
  /\ err /\ client = "connected" /\ handPc # "returned" => rpc = "error" \/ upPc = "idle"
  /\ errClosed => prodPc \in {"closing", "ended"}
  /\ respClosed => prodPc = "ended"

\* While the handler runs, only a client that left cancels the context.
HandlerInv ==
  /\ ctxDone /\ handPc # "returned" => client = "gone"
  /\ errNil => errClosed /\ ~err
  /\ respNil => respClosed
  /\ handPc # "returned" => answer = "none"
  /\ prodPc \in {"none", "opening"} => out = {} /\ ~done /\ answer \in {"none", "gone"}
  /\ \A e \in out : e[1] \in 1 .. received

StreamInv ==
  /\ TypeOK
  /\ RelayInv
  /\ ProducerInv
  /\ HandlerInv
  /\ NoGap
  /\ DoneIsEarned
  /\ NoSilentEnd
  /\ ErrorIsJust
=============================================================================
