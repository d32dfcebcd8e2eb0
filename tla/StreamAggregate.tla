-------------------------- MODULE StreamAggregate --------------------------
(***************************************************************************)
(* One chat request without streaming.  Every registered route makes the   *)
(* provider stream all the same (ForceStream in chat/route/init.go), so    *)
(* ChatNonStream has to put the answer together from the event stream:     *)
(* streamtoNonStream joins the data lines of an event, collects the output *)
(* items that arrive one by one, and stops at the first final event        *)
(* (modules/chat/service.go).  The result is translated, and the handler   *)
(* turns a failure into an HTTP status (modules/chat/handler.go).          *)
(*                                                                         *)
(* The relay in between (module ChatStream) keeps the lines in order; here *)
(* only its verdict on the end of the body is left of it.                  *)
(***************************************************************************)
EXTENDS Integers, Sequences, FiniteSets

CONSTANTS
  Contents,  \* contents of output items
  NoItem,    \* an event without a valid item
  MaxIndex,  \* bound: output indexes run from -1 to MaxIndex
  MaxEvents  \* bound: events the provider sends

ASSUME AggregateAssumptions ==
  /\ NoItem \notin Contents
  /\ MaxIndex \in Nat /\ MaxEvents \in Nat

Indexes == 0 .. MaxIndex

\* An event's "output" is the output list of its response; "lists" says
\* whether there is one, "absent", "list", or "invalid" (null or no list).
Event(type, index, item, lists, output) ==
  [type |-> type, index |-> index, item |-> item, lists |-> lists, output |-> output]

Plain(type) == Event(type, 0, NoItem, "absent", <<>>)

\* An output item, and a final event: response.completed or response.incomplete.
ItemEvents ==
  {Event("item", i, x, "absent", <<>>) : i \in -1 .. MaxIndex, x \in Contents \cup {NoItem}}
FinalEvents ==
  {Event("final", 0, NoItem, l, <<>>) : l \in {"absent", "list", "invalid"}}
  \cup {Event("final", 0, NoItem, "list", <<x>>) : x \in Contents}

\* "bare" is a final event without a response, "failed" response.failed, "other"
\* any other JSON event.
PlainEvents == {Plain(type) : type \in {"other", "failed", "error", "garbage", "bare"}}

Events == PlainEvents \cup ItemEvents \cup FinalEvents

\* A line of the body: a data line with an event or a part of one, the blank
\* line that ends an event, or another field (event name, comment).
Data(part, e) == [kind |-> "data", part |-> part, event |-> e]
Blank == [kind |-> "blank", part |-> "none", event |-> Plain("other")]
Field == [kind |-> "field", part |-> "none", event |-> Plain("other")]

\* The ways to write an event as lines.
Encodings(e) ==
  {<<Data("whole", e), Blank>>, <<Field, Data("whole", e), Blank>>,
   <<Data("head", e), Data("tail", e), Blank>>,
   <<Field, Data("head", e), Data("tail", e), Blank>>}

\* How a call of the provider fails.
Failures == {"canceled", "deadline", "400", "401", "403", "404", "429", "504", "500", "402",
             "network", "eof", "read"}

VARIABLES
  pc,
  emitted,       \* the events the provider has begun to send
  wire,          \* the lines of the last one that are not received yet
  body,          \* the provider's body: "open", "clean" or "broken"
  terminalSeen,  \* the relay has seen a final event in a data line
  data,          \* data lines since the last blank line
  items,         \* output items by index
  output,        \* the output of the final event, as it will be answered
  status,        \* the HTTP status of the answer, 0 before
  fault          \* observation: what the surroundings did wrong

vars == <<pc, emitted, wire, body, terminalSeen, data, items, output, status, fault>>

Init ==
  /\ pc = "routing"
  /\ emitted = <<>> /\ wire = <<>>
  /\ body = "open" /\ terminalSeen = FALSE
  /\ data = <<>>
  /\ items = [i \in Indexes |-> NoItem]
  /\ output = <<>>
  /\ status = 0
  /\ fault = "none"

-----------------------------------------------------------------------------
(* Error classes.                                                          *)

\* chatStreamErrorCode of the upstream service.
ErrorCode(failure) ==
  CASE failure = "canceled" -> "Canceled"
    [] failure \in {"deadline", "504"} -> "DeadlineExceeded"
    [] failure = "400" -> "InvalidArgument"
    [] failure = "401" -> "Unauthenticated"
    [] failure = "403" -> "PermissionDenied"
    [] failure = "404" -> "NotFound"
    [] failure = "429" -> "ResourceExhausted"
    [] failure \in {"500", "network", "eof"} -> "Unavailable"
    [] OTHER -> "Internal"

\* The switch of the handler.
HttpStatus(code) ==
  CASE code \in {"Unsupported", "InvalidArgument"} -> 400
    [] code = "Unauthenticated" -> 401
    [] code = "PermissionDenied" -> 403
    [] code = "ResourceExhausted" -> 429
    [] code = "Unavailable" -> 503
    [] code = "DeadlineExceeded" -> 504
    [] OTHER -> 502

Fails(code) ==
  /\ pc' = "answered"
  /\ status' = HttpStatus(code)
  /\ UNCHANGED <<emitted, output>>

-----------------------------------------------------------------------------
(* Opening the stream.                                                     *)

\* There is no route for the model, or the translated request is no JSON object.
RequestRefused(code) ==
  /\ pc = "routing"
  /\ fault' = "request"
  /\ Fails(code)
  /\ UNCHANGED <<wire, body, terminalSeen, data, items>>

OpenStream ==
  /\ pc = "routing"
  /\ pc' = "receiving"
  /\ UNCHANGED <<emitted, wire, body, terminalSeen, data, items, output, status, fault>>

\* The provider cannot be reached or does not answer 2xx, or the stream breaks
\* later: the API sees it at its next Recv.
StreamFails(failure) ==
  /\ pc = "receiving"
  /\ fault' = failure
  /\ Fails(ErrorCode(failure))
  /\ UNCHANGED <<wire, body, terminalSeen, data, items>>

-----------------------------------------------------------------------------
(* The provider's body.                                                    *)

Emit(e, lines) ==
  /\ pc = "receiving" /\ body = "open" /\ wire = <<>>
  /\ Len(emitted) < MaxEvents
  /\ emitted' = Append(emitted, e)
  /\ wire' = lines
  /\ UNCHANGED <<pc, body, terminalSeen, data, items, output, status, fault>>

KeepAlive ==
  /\ pc = "receiving" /\ body = "open" /\ wire = <<>>
  /\ wire' = <<Field, Blank>>
  /\ UNCHANGED <<pc, emitted, body, terminalSeen, data, items, output, status, fault>>

\* It may end in the middle of an event, or before the blank line behind it.
BodyEnds(how) ==
  /\ pc = "receiving" /\ body = "open"
  /\ body' = how
  /\ wire' = <<>>
  /\ UNCHANGED <<pc, emitted, terminalSeen, data, items, output, status, fault>>

-----------------------------------------------------------------------------
(* streamtoNonStream                                                       *)

\* What the data lines joined by newlines parse to.
Parse(d) ==
  CASE Len(d) = 1 /\ d[1].part = "whole" -> d[1].event
    [] Len(d) = 2 /\ d[1].part = "head" /\ d[2] = [d[1] EXCEPT !.part = "tail"] -> d[1].event
    [] OTHER -> Plain("garbage")

Known == {i \in Indexes : items[i] # NoItem}

ItemsComplete == Known # {} /\ 0 .. Cardinality(Known) - 1 \subseteq Known

\* Mutant: an output list that is empty is taken as it is.
NeedsItems_Absent(e) == e.lists = "absent"

\* The final event does not list the output that was sent item by item.
NeedsItems(e) == e.lists = "absent" \/ (e.output = <<>> /\ Known # {})

Refused(e) ==
  \/ e.type \in {"failed", "error", "garbage", "bare"}
  \/ e.type = "item" /\ (e.index < 0 \/ e.item = NoItem)
  \/ e.type = "final" /\ (e.lists = "invalid" \/ (NeedsItems(e) /\ ~ItemsComplete))

Assembled(e) ==
  IF NeedsItems(e) THEN [i \in 1 .. Cardinality(Known) |-> items[i - 1]] ELSE e.output

\* consume refuses the event.
EventRefused(e) ==
  /\ Refused(e)
  /\ Fails("Internal")
  /\ UNCHANGED items

\* consume returns the final response.
EventFinal(e) ==
  /\ e.type = "final" /\ ~Refused(e)
  /\ output' = Assembled(e)
  /\ pc' = "translating"
  /\ UNCHANGED <<emitted, items, status>>

\* consume returns nothing: an output item, or an event of no interest.
EventTaken(e) ==
  /\ e.type \in {"item", "other"} /\ ~Refused(e)
  /\ items' = IF e.type = "item" THEN [items EXCEPT ![e.index] = e.item] ELSE items
  /\ UNCHANGED <<pc, emitted, output, status>>

\* The relay looks at every data line by itself.
RelaySees(line) ==
  LET terminal == line.part = "whole" /\ line.event.type \in {"final", "bare", "failed"}
  IN terminalSeen' = (terminalSeen \/ terminal)

\* A blank line: the event before it, if any, is consumed.
RecvBlank ==
  /\ pc = "receiving" /\ wire # <<>> /\ Head(wire).kind = "blank"
  /\ wire' = Tail(wire)
  /\ data' = <<>>
  /\ LET e == Parse(data) IN
       \/ data # <<>> /\ (EventRefused(e) \/ EventFinal(e) \/ EventTaken(e))
       \/ data = <<>> /\ UNCHANGED <<pc, emitted, items, output, status>>
  /\ UNCHANGED <<body, terminalSeen, fault>>

RecvData ==
  /\ pc = "receiving" /\ wire # <<>> /\ Head(wire).kind = "data"
  /\ wire' = Tail(wire)
  /\ RelaySees(Head(wire))
  /\ data' = Append(data, Head(wire))
  /\ UNCHANGED <<pc, emitted, body, items, output, status, fault>>

RecvField ==
  /\ pc = "receiving" /\ wire # <<>> /\ Head(wire).kind = "field"
  /\ wire' = Tail(wire)
  /\ UNCHANGED <<pc, emitted, body, terminalSeen, data, items, output, status, fault>>

\* Mutant: an event that no blank line ends is forgotten.
RecvEOF_NoConsume ==
  /\ pc = "receiving" /\ wire = <<>> /\ body = "clean" /\ terminalSeen
  /\ data' = <<>>
  /\ Fails("Unavailable")
  /\ UNCHANGED <<wire, body, terminalSeen, items, fault>>

\* The stream ends with io.EOF: the relay had seen a final event.  The event
\* that no blank line ended is consumed.
RecvEOF ==
  /\ pc = "receiving" /\ wire = <<>> /\ body = "clean" /\ terminalSeen
  /\ data' = <<>>
  /\ LET e == Parse(data) IN
       \/ data # <<>> /\ (EventRefused(e) \/ EventFinal(e))
       \/ (data = <<>> \/ (e.type \in {"item", "other"} /\ ~Refused(e)))
          /\ Fails("Unavailable") /\ UNCHANGED items
  /\ UNCHANGED <<wire, body, terminalSeen, fault>>

\* The body broke off, or ended before a final event.
RecvError ==
  /\ pc = "receiving" /\ wire = <<>>
  /\ \/ body = "clean" /\ ~terminalSeen /\ Fails(ErrorCode("eof"))
     \/ body = "broken" /\ \E failure \in {"network", "eof", "deadline", "read"} :
                             Fails(ErrorCode(failure))
  /\ UNCHANGED <<wire, body, terminalSeen, data, items, fault>>

-----------------------------------------------------------------------------
(* The answer.                                                             *)

Answer ==
  /\ pc = "translating"
  /\ pc' = "answered"
  /\ status' = 200
  /\ UNCHANGED <<emitted, wire, body, terminalSeen, data, items, output, fault>>

\* What the translator returns is no JSON object.
BadTranslation ==
  /\ pc = "translating"
  /\ fault' = "translator"
  /\ Fails("Internal")
  /\ UNCHANGED <<wire, body, terminalSeen, data, items>>

Terminated == pc = "answered" /\ UNCHANGED vars

Next ==
  \/ \E code \in {"Unsupported", "InvalidArgument"} : RequestRefused(code)
  \/ OpenStream
  \/ \E failure \in Failures : StreamFails(failure)
  \/ \E e \in Events : \E lines \in Encodings(e) : Emit(e, lines)
  \/ KeepAlive
  \/ \E how \in {"clean", "broken"} : BodyEnds(how)
  \/ RecvBlank \/ RecvData \/ RecvField \/ RecvEOF \/ RecvError
  \/ Answer \/ BadTranslation
  \/ Terminated

Spec == Init /\ [][Next]_vars

-----------------------------------------------------------------------------
(* Properties                                                              *)

\* Every variable holds a value of its kind.
TypeOK ==
  /\ pc \in {"routing", "receiving", "translating", "answered"}
  /\ emitted \in Seq(Events)
  /\ body \in {"open", "clean", "broken"}
  /\ terminalSeen \in BOOLEAN
  /\ items \in [Indexes -> Contents \cup {NoItem}]
  /\ output \in Seq(Contents)
  /\ status \in {0, 200, 400, 401, 403, 429, 502, 503, 504}
  /\ fault \in Failures \cup {"none", "request", "translator"}

Last == emitted[Len(emitted)]

\* Of the first m events, those that carry an item of index i.
CarriersUpTo(m, i) == {n \in 1 .. m : emitted[n].type = "item" /\ emitted[n].index = i}

\* The events before the last one that carry an item of index i.
Carriers(i) == CarriersUpTo(Len(emitted) - 1, i)

\* The item of index i as the provider sent it last.
IsItem(x, i) ==
  \E n \in Carriers(i) : x = emitted[n].item /\ \A k \in Carriers(i) : k <= n

\* The output list that the whole stream stands for: the final event's own, or
\* the items in the order of their indexes, none left out.
IsOutput(list) ==
  IF Last.output # <<>> \/ (Last.lists = "list" /\ \A i \in Indexes : Carriers(i) = {})
    THEN list = Last.output
    ELSE /\ list # <<>>
         /\ \A i \in 1 .. Len(list) : IsItem(list[i], i - 1)
         /\ \A i \in Indexes : Carriers(i) # {} => i < Len(list)

\* Success is the whole answer: the provider has sent its final event, and the
\* output is the one its stream stands for, however it was cut into lines and
\* in whatever order the items came.
AnswerIsWhole ==
  status = 200 => emitted # <<>> /\ Last.type = "final" /\ IsOutput(output)

\* The stream ends in a final event from which an answer can be made.
Answerable ==
  /\ emitted # <<>> /\ Last.type = "final" /\ Last.lists # "invalid"
  /\ \/ Last.output # <<>>
     \/ Last.lists = "list" /\ \A i \in Indexes : Carriers(i) = {}
     \/ \E n \in 1 .. MaxIndex + 1 : \A i \in Indexes : Carriers(i) # {} <=> i < n

\* A request fails only for a reason: the surroundings failed, the body ended
\* before all data lines of its last event, or the events themselves cannot be
\* answered.  In particular the last event needs no blank line behind it.  The
\* client is blamed (4xx) only for what this service or the provider refused
\* with 4xx, never for a failure of the stream or of the answer.
RefusalHasCause ==
  pc = "answered" /\ status # 200 =>
    /\ \/ fault # "none"
       \/ ~Answerable
       \/ body = "broken"
       \/ body = "clean" /\ ~terminalSeen
    /\ status < 500 => fault \in {"request", "400", "401", "403", "429"}

-----------------------------------------------------------------------------
(* The invariant behind them                                               *)

\* An event that consume takes and goes on.
Accepted(e) ==
  \/ e.type = "other"
  \/ e.type = "item" /\ e.index \in Indexes /\ e.item \in Contents

\* The items are those of the first m events, the last one of an index, and none
\* of these events is final or refused.
Collected(m) ==
  /\ \A n \in 1 .. m : Accepted(emitted[n])
  /\ \A i \in Indexes :
       \/ items[i] = NoItem /\ CarriersUpTo(m, i) = {}
       \/ \E n \in CarriersUpTo(m, i) :
            items[i] = emitted[n].item /\ \A k \in CarriersUpTo(m, i) : k <= n

\* No event is on its way.
Quiet ==
  /\ body = "open" /\ data = <<>> /\ wire \in {<<>>, <<Blank>>, <<Field, Blank>>}
  /\ ~terminalSeen
  /\ Collected(Len(emitted))

\* The last event is under way, the aggregator has some of its data lines.
Coming ==
  /\ body = "open" /\ emitted # <<>>
  /\ \/ data = <<>> /\ wire \in Encodings(Last)
     \/ data = <<Data("whole", Last)>> /\ wire = <<Blank>>
     \/ data = <<Data("head", Last)>> /\ wire = <<Data("tail", Last), Blank>>
     \/ data = <<Data("head", Last), Data("tail", Last)>> /\ wire = <<Blank>>
  /\ terminalSeen =>
       data = <<Data("whole", Last)>> /\ Last.type \in {"final", "bare", "failed"}
  /\ Collected(Len(emitted) - 1)

\* The body has ended, perhaps within the last event.
Ended ==
  /\ body # "open" /\ wire = <<>>
  /\ \/ data = <<>> /\ ~terminalSeen
     \/ /\ emitted # <<>>
        /\ data \in {<<Data("whole", Last)>>, <<Data("head", Last)>>,
                     <<Data("head", Last), Data("tail", Last)>>}
        /\ terminalSeen => data = <<Data("whole", Last)>>
        /\ Collected(Len(emitted) - 1)

\* What is about to be answered is the whole answer.
ResultInv ==
  pc = "translating" => emitted # <<>> /\ Last.type = "final" /\ IsOutput(output)

\* Every step preserves the conjunction.
AggregateInv ==
  /\ TypeOK
  /\ pc = "routing" => Quiet
  /\ pc = "receiving" => Quiet \/ Coming \/ Ended
  /\ pc # "answered" => status = 0
  /\ ResultInv
  /\ AnswerIsWhole
  /\ RefusalHasCause
=============================================================================
