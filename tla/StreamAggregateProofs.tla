----------------------- MODULE StreamAggregateProofs -----------------------
(***************************************************************************)
(* Proofs about StreamAggregate: a 200 is the whole answer and a failure   *)
(* has a cause, for any number of events, items and contents.              *)
(***************************************************************************)
EXTENDS StreamAggregate, FiniteSetTheorems, SequenceTheorems, TLAPS

-----------------------------------------------------------------------------
(* Lines.                                                                  *)

\* The lines of the body are what their names say.
LEMMA LineFacts ==
  ASSUME NEW part, NEW e
  PROVE  /\ Data(part, e).kind = "data" /\ Data(part, e).part = part /\ Data(part, e).event = e
         /\ Blank.kind = "blank" /\ Field.kind = "field"
  BY DEF Data, Blank, Field

\* The first line of a short sequence, and what is left behind it.
LEMMA Peel ==
  ASSUME NEW a, NEW b, NEW c, NEW d
  PROVE  /\ <<a>> # <<>> /\ Head(<<a>>) = a /\ Tail(<<a>>) = <<>>
         /\ <<a, b>> # <<>> /\ Head(<<a, b>>) = a /\ Tail(<<a, b>>) = <<b>>
         /\ <<a, b, c>> # <<>> /\ Head(<<a, b, c>>) = a /\ Tail(<<a, b, c>>) = <<b, c>>
         /\ <<a, b, c, d>> # <<>> /\ Head(<<a, b, c, d>>) = a
         /\ Tail(<<a, b, c, d>>) = <<b, c, d>>
  OBVIOUS

\* Data lines that are added.
LEMMA Push ==
  ASSUME NEW a, NEW b
  PROVE  /\ Append(<<>>, a) = <<a>> /\ Append(<<a>>, b) = <<a, b>>
         /\ Len(<<a>>) = 1 /\ <<a>>[1] = a
         /\ Len(<<a, b>>) = 2 /\ <<a, b>>[1] = a /\ <<a, b>>[2] = b
<1>1. Append(<<>>, a) = <<a>>
  OBVIOUS
<1>2. Append(<<a>>, b) = <<a, b>>
  <2> DEFINE s == Append(<<a>>, b)
             t == <<a, b>>
  <2>1. s \in Seq({a, b}) /\ Len(s) = 2 /\ s[1] = a /\ s[2] = b
    OBVIOUS
  <2>2. t \in Seq({a, b}) /\ Len(t) = 2 /\ t[1] = a /\ t[2] = b
    OBVIOUS
  <2> HIDE DEF s, t
  <2>3. \A i \in 1 .. Len(s) : s[i] = t[i]
    BY <2>1, <2>2
  <2>4. s = t
    BY <2>1, <2>2, <2>3, SeqEqual
  <2> QED
    BY <2>4 DEF s, t
<1>3. Len(<<a>>) = 1 /\ <<a>>[1] = a
  OBVIOUS
<1>4. Len(<<a, b>>) = 2 /\ <<a, b>>[1] = a /\ <<a, b>>[2] = b
  OBVIOUS
<1> QED
  BY <1>1, <1>2, <1>3, <1>4

\* Whole lines, and heads with their tails, parse to their event.
LEMMA ParseFacts ==
  ASSUME NEW e
  PROVE  /\ Parse(<<Data("whole", e)>>) = e
         /\ Parse(<<Data("head", e), Data("tail", e)>>) = e
         /\ Parse(<<Data("head", e)>>) = Plain("garbage")
  BY Push DEF Parse, Data

\* The events of the provider.
LEMMA EventFacts ==
  ASSUME NEW e \in Events
  PROVE  /\ e.type \in {"other", "failed", "error", "garbage", "bare", "item", "final"}
         /\ e.type = "item" => e.index \in -1 .. MaxIndex /\ e.item \in Contents \cup {NoItem}
         /\ e.type = "final" => e.lists \in {"absent", "list", "invalid"}
         /\ e.output \in Seq(Contents)
         /\ e.lists \in {"absent", "invalid"} => e.output = <<>>
<1>1. <<>> \in Seq(Contents)
  OBVIOUS
<1>2. CASE e \in PlainEvents
  <2>1. PICK type \in {"other", "failed", "error", "garbage", "bare"} : e = Plain(type)
    BY <1>2 DEF PlainEvents
  <2> QED
    BY <1>1, <2>1 DEF Plain, Event
<1>3. CASE e \in ItemEvents
  <2>1. PICK i \in -1 .. MaxIndex, x \in Contents \cup {NoItem} :
          e = Event("item", i, x, "absent", <<>>)
    BY <1>3 DEF ItemEvents
  <2> QED
    BY <1>1, <2>1 DEF Event
<1>4. CASE e \in FinalEvents
  <2>1. CASE \E l \in {"absent", "list", "invalid"} : e = Event("final", 0, NoItem, l, <<>>)
    BY <1>1, <2>1 DEF Event
  <2>2. CASE \E x \in Contents : e = Event("final", 0, NoItem, "list", <<x>>)
    <3>1. PICK x \in Contents : e = Event("final", 0, NoItem, "list", <<x>>)
      BY <2>2
    <3>2. <<x>> \in Seq(Contents)
      OBVIOUS
    <3> QED
      BY <3>1, <3>2 DEF Event
  <2> QED
    BY <1>4, <2>1, <2>2 DEF FinalEvents
<1> QED
  BY <1>2, <1>3, <1>4 DEF Events

\* The status of an error.
LEMMA StatusFacts ==
  ASSUME NEW code
  PROVE  /\ HttpStatus(code) \in {400, 401, 403, 429, 502, 503, 504}
         /\ code \in {"Internal", "Unavailable", "DeadlineExceeded", "Canceled", "NotFound"} =>
              HttpStatus(code) \in {502, 503, 504}
  BY DEF HttpStatus

-----------------------------------------------------------------------------
(* Items.                                                                  *)

\* The last event is one of the provider's.
LEMMA LastFacts ==
  ASSUME emitted \in Seq(Events), emitted # <<>>
  PROVE  Last \in Events /\ Len(emitted) \in Nat \ {0}
  BY DEF Last

\* The items in hand are those of the events before the last one.
LEMMA KnownFacts ==
  ASSUME TypeOK, Collected(Len(emitted) - 1), NEW i \in Indexes
  PROVE  /\ i \in Known <=> Carriers(i) # {}
         /\ i \in Known => IsItem(items[i], i) /\ items[i] \in Contents
<1>1. CASE items[i] = NoItem /\ Carriers(i) = {}
  BY <1>1 DEF Known
<1>2. CASE \E n \in Carriers(i) :
             items[i] = emitted[n].item /\ \A k \in Carriers(i) : k <= n
  <2>1. PICK n \in Carriers(i) : items[i] = emitted[n].item
    BY <1>2
  <2>2. emitted[n].type = "item" /\ n \in 1 .. Len(emitted) - 1
    BY <2>1 DEF Carriers, CarriersUpTo
  <2>3. emitted[n].item \in Contents
    BY <2>2 DEF Collected, Accepted
  <2> QED
    BY <1>2, <2>1, <2>3, AggregateAssumptions DEF Known, IsItem, AggregateAssumptions
<1> QED
  BY <1>1, <1>2 DEF Collected, Carriers

\* The number of items in hand.
LEMMA KnownIsFinite ==
  /\ IsFiniteSet(Known) /\ Cardinality(Known) \in Nat /\ Known \subseteq Indexes
  /\ Cardinality(Known) = 0 <=> Known = {}
<1>1. IsFiniteSet(Indexes) /\ Known \in SUBSET Indexes
  BY FS_Interval, AggregateAssumptions DEF AggregateAssumptions, Indexes, Known
<1>2. IsFiniteSet(Known)
  BY <1>1, FS_Subset
<1> QED
  BY <1>1, <1>2, FS_CardinalityType, FS_EmptySet

\* The first n numbers from zero are n.
LEMMA Count ==
  ASSUME NEW n \in Nat
  PROVE  IsFiniteSet(0 .. n - 1) /\ Cardinality(0 .. n - 1) = n
<1>1. 0 \in Int /\ n - 1 \in Int
  OBVIOUS
<1>2. IsFiniteSet(0 .. n - 1) /\ Cardinality(0 .. n - 1) = IF 0 > n - 1 THEN 0 ELSE n - 1 - 0 + 1
  BY <1>1, FS_Interval
<1> QED
  BY <1>2

\* Complete items are the first ones, without a gap.
LEMMA CompleteFacts ==
  ItemsComplete => Known # {} /\ Known = 0 .. Cardinality(Known) - 1
<1> SUFFICES ASSUME ItemsComplete PROVE Known # {} /\ Known = 0 .. Cardinality(Known) - 1
  OBVIOUS
<1> DEFINE n == Cardinality(Known)
<1>1. n \in Nat /\ IsFiniteSet(Known)
  BY KnownIsFinite
<1>2. 0 .. n - 1 \in SUBSET Known /\ Known # {}
  BY DEF ItemsComplete
<1> HIDE DEF n
<1>3. Cardinality(0 .. n - 1) = n
  BY <1>1, Count
<1>4. n = Cardinality(Known)
  BY DEF n
<1>5. Cardinality(Known) = Cardinality(0 .. n - 1) => Known = 0 .. n - 1
  BY <1>1, <1>2, FS_Subset
<1> QED
  BY <1>2, <1>3, <1>4, <1>5

\* A final event that is accepted yields the whole answer.
LEMMA FinalIsWhole ==
  ASSUME TypeOK, emitted # <<>>, Last.type = "final", ~Refused(Last),
         Collected(Len(emitted) - 1)
  PROVE  IsOutput(Assembled(Last)) /\ Assembled(Last) \in Seq(Contents)
<1>1. Last \in Events
  BY LastFacts DEF TypeOK
<1>2. /\ Last.lists \in {"absent", "list"} /\ Last.output \in Seq(Contents)
      /\ Last.lists = "absent" => Last.output = <<>>
  BY <1>1, EventFacts DEF Refused
<1>3. \A i \in Indexes : i \in Known <=> Carriers(i) # {}
  BY KnownFacts
<1>4. CASE ~NeedsItems(Last)
  <2>1. Assembled(Last) = Last.output /\ Last.lists = "list"
        /\ (Last.output # <<>> \/ Known = {})
    BY <1>2, <1>4 DEF NeedsItems, Assembled
  <2>2. Known = {} => \A i \in Indexes : Carriers(i) = {}
    BY <1>3
  <2> QED
    BY <1>2, <2>1, <2>2 DEF IsOutput
<1>5. CASE NeedsItems(Last)
  <2> DEFINE n == Cardinality(Known)
             list == [i \in 1 .. n |-> items[i - 1]]
  <2>1. Assembled(Last) = list
    BY <1>5 DEF Assembled
  <2>2. ItemsComplete
    BY <1>5 DEF Refused
  <2>3. n \in Nat \ {0} /\ Known = 0 .. n - 1 /\ Known # {} /\ Known \subseteq Indexes
    BY <2>2, CompleteFacts, KnownIsFinite
  <2> HIDE DEF n
  <2>4. \A i \in 1 .. n : i - 1 \in Known /\ i - 1 \in Indexes
    BY <2>3
  <2>5. \A i \in 1 .. n : list[i] = items[i - 1] /\ list[i] \in Contents /\ IsItem(list[i], i - 1)
    BY <2>4, KnownFacts
  <2>6. list \in Seq(Contents) /\ Len(list) = n
    BY <2>3, <2>5
  <2>7. Last.output = <<>>
    BY <1>2, <1>5 DEF NeedsItems
  <2>8. ~(Last.lists = "list" /\ \A i \in Indexes : Carriers(i) = {})
    BY <1>3, <2>3
  <2>9. \A i \in Indexes : Carriers(i) # {} => i < n
    BY <1>3, <2>3
  <2>10. list # <<>>
    BY <2>3, <2>6
  <2> HIDE DEF list
  <2>11. IsOutput(list)
    BY <2>5, <2>6, <2>7, <2>8, <2>9, <2>10 DEF IsOutput
  <2> QED
    BY <2>1, <2>6, <2>11
<1> QED
  BY <1>4, <1>5

\* A last event that is refused cannot be answered.
LEMMA RefusedIsNotAnswerable ==
  ASSUME TypeOK, emitted # <<>>, Refused(Last), Collected(Len(emitted) - 1)
  PROVE  ~Answerable
<1> SUFFICES ASSUME Answerable PROVE FALSE
  OBVIOUS
<1>1. Last.type = "final" /\ Last.lists # "invalid"
  BY DEF Answerable
<1>2. NeedsItems(Last) /\ ~ItemsComplete
  BY <1>1 DEF Refused
<1>3. Last \in Events
  BY LastFacts DEF TypeOK
<1>4. Last.output = <<>>
  BY <1>2, <1>3, EventFacts DEF NeedsItems
<1>5. \A i \in Indexes : i \in Known <=> Carriers(i) # {}
  BY KnownFacts
<1>6. CASE Last.lists = "list" /\ \A i \in Indexes : Carriers(i) = {}
  <2>1. Known = {}
    BY <1>5, <1>6, KnownIsFinite
  <2> QED
    BY <1>2, <1>6, <2>1 DEF NeedsItems
<1>7. CASE \E n \in 1 .. MaxIndex + 1 : \A i \in Indexes : Carriers(i) # {} <=> i < n
  <2>1. PICK n \in 1 .. MaxIndex + 1 : \A i \in Indexes : Carriers(i) # {} <=> i < n
    BY <1>7
  <2>2. MaxIndex \in Nat
    BY AggregateAssumptions DEF AggregateAssumptions
  <2>3. Known = 0 .. n - 1
    <3>1. \A i \in 0 .. n - 1 : i \in Known
      BY <1>5, <2>1, <2>2 DEF Indexes
    <3>2. \A i \in Known : i \in 0 .. n - 1
      BY <1>5, <2>1, <2>2, KnownIsFinite DEF Indexes
    <3> QED
      BY <3>1, <3>2
  <2>4. Cardinality(Known) = n
    BY <2>2, <2>3, Count
  <2>5. 0 \in Known
    BY <2>2, <2>3
  <2> QED
    BY <1>2, <2>3, <2>4, <2>5 DEF ItemsComplete
<1> QED
  BY <1>4, <1>6, <1>7 DEF Answerable

-----------------------------------------------------------------------------
(* Steps.                                                                  *)

\* What the provider has sent decides what can be answered.
LEMMA Frame ==
  ASSUME UNCHANGED emitted
  PROVE  /\ Last' = Last /\ Answerable' = Answerable
         /\ \A list : IsOutput(list)' = IsOutput(list)
<1>1. Last' = Last /\ \A i : Carriers(i)' = Carriers(i)
  BY DEF Last, Carriers, CarriersUpTo
<1>2. Answerable' = Answerable
  BY <1>1 DEF Answerable
<1>3. \A x, i : IsItem(x, i)' = IsItem(x, i)
  BY <1>1 DEF IsItem
<1>4. \A list : IsOutput(list)' = IsOutput(list)
  BY <1>1, <1>3 DEF IsOutput
<1> QED
  BY <1>1, <1>2, <1>4

\* The items and the events together decide what is collected.
LEMMA CollectedFrame ==
  ASSUME UNCHANGED <<emitted, items>>, NEW m
  PROVE  Collected(m)' = Collected(m)
<1>1. \A i : CarriersUpTo(m, i)' = CarriersUpTo(m, i)
  BY DEF CarriersUpTo
<1> QED
  BY <1>1 DEF Collected

\* A request that fails leaves the invariant if the failure has a cause.
LEMMA FailureKeeps ==
  ASSUME AggregateInv, NEW code, Fails(code),
         \/ fault' # "none"
         \/ ~Answerable
         \/ body' = "broken"
         \/ body' = "clean" /\ ~terminalSeen',
         HttpStatus(code) < 500 => fault' \in {"request", "400", "401", "403", "429"},
         UNCHANGED <<body, terminalSeen, items>>,
         fault' \in Failures \cup {"none", "request", "translator"}
  PROVE  AggregateInv'
<1>1. pc' = "answered" /\ status' = HttpStatus(code) /\ UNCHANGED <<emitted, output>>
  BY DEF Fails
<1>2. status' \in {400, 401, 403, 429, 502, 503, 504}
  BY <1>1, StatusFacts
<1>3. TypeOK'
  BY <1>1, <1>2 DEF AggregateInv, TypeOK
<1>4. Answerable' = Answerable
  BY <1>1, Frame
<1>5. RefusalHasCause'
  <2>1. \/ fault' # "none"
        \/ ~Answerable'
        \/ body' = "broken"
        \/ body' = "clean" /\ ~terminalSeen'
    BY <1>4
  <2>2. status' < 500 => fault' \in {"request", "400", "401", "403", "429"}
    BY <1>1
  <2> QED
    BY <2>1, <2>2 DEF RefusalHasCause
<1>6. AnswerIsWhole'
  BY <1>2 DEF AnswerIsWhole
<1>7. ResultInv'
  BY <1>1 DEF ResultInv
<1> QED
  BY <1>1, <1>3, <1>5, <1>6, <1>7 DEF AggregateInv

\* A step that only changes what is on its way keeps the invariant if the phase
\* stays one of the three.
LEMMA ReceivingKeeps ==
  ASSUME AggregateInv, pc = "receiving", UNCHANGED <<pc, status>>, TypeOK',
         Quiet' \/ Coming' \/ Ended'
  PROVE  AggregateInv'
<1>1. status' = 0 /\ pc' = "receiving"
  BY DEF AggregateInv
<1> QED
  BY <1>1 DEF AggregateInv, ResultInv, AnswerIsWhole, RefusalHasCause

\* Different data lines make different sequences.
LEMMA DataDiffer ==
  ASSUME NEW e
  PROVE  /\ <<Data("head", e)>> # <<Data("whole", e)>>
         /\ <<Data("head", e), Data("tail", e)>> # <<Data("whole", e)>>
         /\ <<Data("whole", e)>> # <<>> /\ <<Data("head", e)>> # <<>>
         /\ <<Data("head", e), Data("tail", e)>> # <<>>
<1>1. <<Data("head", e)>> # <<Data("whole", e)>>
  <2>1. <<Data("head", e)>>[1] = Data("head", e) /\ <<Data("whole", e)>>[1] = Data("whole", e)
    BY Push
  <2>2. Data("head", e).part = "head" /\ Data("whole", e).part = "whole"
    BY LineFacts
  <2> QED
    BY <2>1, <2>2
<1>2. <<Data("head", e), Data("tail", e)>> # <<Data("whole", e)>>
  BY Push
<1> QED
  BY <1>1, <1>2, Push

\* The first line of an encoding is a field or a data line, and what is left.
LEMMA EncodingFacts ==
  ASSUME NEW e, NEW w \in Encodings(e)
  PROVE  /\ w # <<>> /\ Head(w).kind # "blank"
         /\ Head(w).kind = "field" => Tail(w) \in Encodings(e)
         /\ Head(w).kind = "data" =>
              \/ Head(w) = Data("whole", e) /\ Tail(w) = <<Blank>>
              \/ Head(w) = Data("head", e) /\ Tail(w) = <<Data("tail", e), Blank>>
<1>1. CASE w = <<Data("whole", e), Blank>>
  BY <1>1, Peel, LineFacts
<1>2. CASE w = <<Field, Data("whole", e), Blank>>
  BY <1>2, Peel, LineFacts DEF Encodings
<1>3. CASE w = <<Data("head", e), Data("tail", e), Blank>>
  BY <1>3, Peel, LineFacts
<1>4. CASE w = <<Field, Data("head", e), Data("tail", e), Blank>>
  BY <1>4, Peel, LineFacts DEF Encodings
<1> QED
  BY <1>1, <1>2, <1>3, <1>4 DEF Encodings

\* The initial states satisfy the invariant.
LEMMA InitInv == Init => AggregateInv
<1> SUFFICES ASSUME Init PROVE AggregateInv
  OBVIOUS
<1>1. emitted = <<>> /\ Len(emitted) = 0 /\ items = [i \in Indexes |-> NoItem]
  BY DEF Init
<1>2. TypeOK
  <2>1. emitted \in Seq(Events) /\ output \in Seq(Contents)
    BY DEF Init
  <2>2. items \in [Indexes -> Contents \cup {NoItem}]
    BY <1>1
  <2> QED
    BY <2>1, <2>2 DEF Init, TypeOK
<1>3. Collected(Len(emitted))
  <2>1. \A i \in Indexes : items[i] = NoItem /\ CarriersUpTo(0, i) = {}
    BY <1>1 DEF CarriersUpTo
  <2> QED
    BY <1>1, <2>1 DEF Collected
<1>4. Quiet
  BY <1>3 DEF Init, Quiet
<1>5. ResultInv /\ AnswerIsWhole /\ RefusalHasCause
  BY DEF Init, ResultInv, AnswerIsWhole, RefusalHasCause
<1> QED
  BY <1>2, <1>4, <1>5 DEF Init, AggregateInv

\* A refused request fails for its own fault.
LEMMA RequestRefusedKeeps ==
  ASSUME AggregateInv, NEW code, RequestRefused(code)
  PROVE  AggregateInv'
<1>1. fault' = "request" /\ Fails(code) /\ UNCHANGED <<body, terminalSeen, items>>
  BY DEF RequestRefused
<1> QED
  BY <1>1, FailureKeeps

\* The open stream has nothing on its way.
LEMMA OpenStreamKeeps ==
  ASSUME AggregateInv, OpenStream
  PROVE  AggregateInv'
<1>1. pc' = "receiving" /\ pc = "routing" /\ status = 0 /\ status' = 0
  BY DEF OpenStream, AggregateInv
<1>2. UNCHANGED <<emitted, wire, body, terminalSeen, data, items, output, fault>>
  BY DEF OpenStream
<1>3. TypeOK'
  BY <1>1, <1>2 DEF AggregateInv, TypeOK
<1>4. Quiet
  BY <1>1 DEF AggregateInv
<1>5. Collected(Len(emitted))'
  BY <1>2, <1>4, CollectedFrame DEF Quiet
<1>6. Quiet'
  BY <1>2, <1>4, <1>5 DEF Quiet
<1> QED
  BY <1>1, <1>3, <1>6 DEF AggregateInv, ResultInv, AnswerIsWhole, RefusalHasCause

\* A failing provider is the cause of the failure, and only its own 4xx are passed on.
LEMMA StreamFailsKeeps ==
  ASSUME AggregateInv, NEW failure \in Failures, StreamFails(failure)
  PROVE  AggregateInv'
<1>1. /\ fault' = failure /\ Fails(ErrorCode(failure))
      /\ UNCHANGED <<body, terminalSeen, items>>
  BY DEF StreamFails
<1>2. fault' # "none"
  BY <1>1 DEF Failures
<1>3. HttpStatus(ErrorCode(failure)) < 500 => failure \in {"400", "401", "403", "429"}
  <2>1. CASE failure \in {"400", "401", "403", "429"}
    BY <2>1
  <2>2. CASE failure \notin {"400", "401", "403", "429"}
    <3>1. ErrorCode(failure) \in {"Internal", "Unavailable", "DeadlineExceeded", "Canceled",
                                  "NotFound"}
      BY <2>2 DEF ErrorCode
    <3>2. HttpStatus(ErrorCode(failure)) \in {502, 503, 504}
      BY <3>1, StatusFacts
    <3> QED
      BY <3>2
  <2> QED
    BY <2>1, <2>2
<1> QED
  BY <1>1, <1>2, <1>3, FailureKeeps

\* The event that begins is the last one; those before it are collected.
LEMMA EmitKeeps ==
  ASSUME AggregateInv, NEW e \in Events, NEW lines \in Encodings(e), Emit(e, lines)
  PROVE  AggregateInv'
<1>1. /\ pc = "receiving" /\ body = "open" /\ wire = <<>>
      /\ emitted' = Append(emitted, e) /\ wire' = lines
      /\ UNCHANGED <<pc, body, terminalSeen, data, items, output, status, fault>>
  BY DEF Emit
<1>2. emitted \in Seq(Events)
  BY DEF AggregateInv, TypeOK
<1>3. /\ emitted' \in Seq(Events) /\ Len(emitted') = Len(emitted) + 1 /\ Len(emitted) \in Nat
      /\ emitted' # <<>> /\ emitted'[Len(emitted')] = e
      /\ \A n \in 1 .. Len(emitted) : emitted'[n] = emitted[n]
  BY <1>1, <1>2
<1>4. TypeOK'
  BY <1>1, <1>3 DEF AggregateInv, TypeOK
<1>5. Quiet
  <2>1. ~Ended
    BY <1>1 DEF Ended
  <2>2. ~Coming
    BY <1>1, EncodingFacts, Peel DEF Coming
  <2> QED
    BY <1>1, <2>1, <2>2 DEF AggregateInv
<1>6. Last' = e
  BY <1>3 DEF Last
<1>7. Collected(Len(emitted) - 1)'
  <2>0. PICK m \in Nat : m = Len(emitted)
    BY <1>3
  <2>1. Len(emitted') - 1 = m /\ Collected(m)
    BY <1>3, <1>5, <2>0 DEF Quiet
  <2>2. \A i : CarriersUpTo(m, i)' = CarriersUpTo(m, i)
    BY <1>3, <2>0 DEF CarriersUpTo
  <2>3. \A i : \A n \in CarriersUpTo(m, i) : emitted'[n] = emitted[n]
    BY <1>3, <2>0 DEF CarriersUpTo
  <2>4. \A n \in 1 .. m : Accepted(emitted'[n])
    BY <1>3, <2>0, <2>1 DEF Collected
  <2>5. items' = items
    BY <1>1
  <2>6. \A i \in Indexes :
          \/ items'[i] = NoItem /\ CarriersUpTo(m, i)' = {}
          \/ \E n \in CarriersUpTo(m, i)' :
               items'[i] = emitted'[n].item /\ \A k \in CarriersUpTo(m, i)' : k <= n
    BY <2>1, <2>2, <2>3, <2>5 DEF Collected
  <2> QED
    BY <2>1, <2>4, <2>6 DEF Collected
<1>8. Coming'
  BY <1>1, <1>3, <1>5, <1>6, <1>7 DEF Coming, Quiet
<1> QED
  BY <1>1, <1>4, <1>8, ReceivingKeeps

\* A comment line between two events carries nothing.
LEMMA KeepAliveKeeps ==
  ASSUME AggregateInv, KeepAlive
  PROVE  AggregateInv'
<1>1. /\ pc = "receiving" /\ body = "open" /\ wire = <<>> /\ wire' = <<Field, Blank>>
      /\ UNCHANGED <<pc, emitted, body, terminalSeen, data, items, output, status, fault>>
  BY DEF KeepAlive
<1>2. TypeOK'
  BY <1>1 DEF AggregateInv, TypeOK
<1>3. Quiet
  <2>1. ~Ended
    BY <1>1 DEF Ended
  <2>2. ~Coming
    BY <1>1, EncodingFacts, Peel DEF Coming
  <2> QED
    BY <1>1, <2>1, <2>2 DEF AggregateInv
<1>4. Collected(Len(emitted))'
  BY <1>1, <1>3, CollectedFrame DEF Quiet
<1>5. Quiet'
  BY <1>1, <1>3, <1>4 DEF Quiet
<1> QED
  BY <1>1, <1>2, <1>5, ReceivingKeeps

\* The body ends with whatever data lines have arrived.
LEMMA BodyEndsKeeps ==
  ASSUME AggregateInv, NEW how \in {"clean", "broken"}, BodyEnds(how)
  PROVE  AggregateInv'
<1>1. /\ pc = "receiving" /\ body = "open" /\ body' = how /\ wire' = <<>>
      /\ UNCHANGED <<pc, emitted, terminalSeen, data, items, output, status, fault>>
  BY DEF BodyEnds
<1>2. TypeOK'
  BY <1>1 DEF AggregateInv, TypeOK
<1>3. body' # "open" /\ wire' = <<>>
  BY <1>1
<1>4. Ended'
  <2>1. CASE Quiet
    BY <1>1, <1>3, <2>1 DEF Quiet, Ended
  <2>2. CASE Coming /\ data = <<>>
    <3>1. ~terminalSeen
      BY <2>2, DataDiffer DEF Coming
    <3> QED
      BY <1>1, <1>3, <2>2, <3>1 DEF Ended
  <2>3. CASE Coming /\ data # <<>>
    <3>1. /\ emitted # <<>>
          /\ data \in {<<Data("whole", Last)>>, <<Data("head", Last)>>,
                       <<Data("head", Last), Data("tail", Last)>>}
          /\ terminalSeen => data = <<Data("whole", Last)>>
          /\ Collected(Len(emitted) - 1)
      BY <2>3 DEF Coming
    <3>2. Collected(Len(emitted) - 1)'
      BY <1>1, <3>1, CollectedFrame
    <3>3. Last' = Last
      BY <1>1, Frame
    <3> QED
      BY <1>1, <1>3, <3>1, <3>2, <3>3 DEF Ended
  <2>4. ~Ended
    BY <1>1 DEF Ended
  <2> QED
    BY <1>1, <2>1, <2>2, <2>3, <2>4 DEF AggregateInv
<1> QED
  BY <1>1, <1>2, <1>4, ReceivingKeeps

\* Another field is passed over.
LEMMA RecvFieldKeeps ==
  ASSUME AggregateInv, RecvField
  PROVE  AggregateInv'
<1>1. /\ pc = "receiving" /\ wire # <<>> /\ Head(wire).kind = "field" /\ wire' = Tail(wire)
      /\ UNCHANGED <<pc, emitted, body, terminalSeen, data, items, output, status, fault>>
  BY DEF RecvField
<1>2. TypeOK'
  BY <1>1 DEF AggregateInv, TypeOK
<1>3. Last' = Last /\ (\A m : Collected(m)' = Collected(m)) /\ Len(emitted') = Len(emitted)
  BY <1>1, Frame, CollectedFrame
<1>4. CASE Quiet
  <2>1. wire = <<Field, Blank>>
    BY <1>1, <1>4, Peel, LineFacts DEF Quiet
  <2>2. wire' = <<Blank>>
    BY <1>1, <2>1, Peel
  <2>3. Quiet'
    BY <1>1, <1>3, <1>4, <2>2 DEF Quiet
  <2> QED
    BY <1>1, <1>2, <2>3, ReceivingKeeps
<1>5. CASE Coming
  <2>1. data = <<>> /\ wire \in Encodings(Last)
    BY <1>1, <1>5, Peel, LineFacts DEF Coming
  <2>2. wire' \in Encodings(Last)
    BY <1>1, <2>1, EncodingFacts
  <2>3. Coming'
    BY <1>1, <1>3, <1>5, <2>1, <2>2 DEF Coming
  <2> QED
    BY <1>1, <1>2, <2>3, ReceivingKeeps
<1>6. ~Ended
  BY <1>1 DEF Ended
<1> QED
  BY <1>1, <1>4, <1>5, <1>6 DEF AggregateInv

\* The relay remembers a final event only when it sees one whole.
LEMMA RelayFacts ==
  ASSUME NEW line, RelaySees(line), ~terminalSeen
  PROVE  terminalSeen' => line.part = "whole" /\ line.event.type \in {"final", "bare", "failed"}
  BY DEF RelaySees

\* A data line joins those of the same event.
LEMMA RecvDataKeeps ==
  ASSUME AggregateInv, RecvData
  PROVE  AggregateInv'
<1>1. /\ pc = "receiving" /\ wire # <<>> /\ Head(wire).kind = "data" /\ wire' = Tail(wire)
      /\ data' = Append(data, Head(wire)) /\ RelaySees(Head(wire))
      /\ UNCHANGED <<pc, emitted, body, items, output, status, fault>>
  BY DEF RecvData
<1>2. TypeOK'
  BY <1>1 DEF AggregateInv, TypeOK, RelaySees
<1>3. Last' = Last /\ (\A m : Collected(m)' = Collected(m)) /\ Len(emitted') = Len(emitted)
  BY <1>1, Frame, CollectedFrame
<1>4. ~Quiet /\ ~Ended
  BY <1>1, Peel, LineFacts DEF Quiet, Ended
<1>5. Coming
  BY <1>1, <1>4 DEF AggregateInv
<1>6. /\ body = "open" /\ emitted # <<>> /\ Collected(Len(emitted) - 1)
  BY <1>5 DEF Coming
<1>7. CASE data = <<>> /\ wire \in Encodings(Last)
  <2>1. ~terminalSeen
    BY <1>5, <1>7, DataDiffer DEF Coming
  <2>2. CASE Head(wire) = Data("whole", Last) /\ Tail(wire) = <<Blank>>
    <3>1. data' = <<Data("whole", Last)>> /\ wire' = <<Blank>>
      BY <1>1, <1>7, <2>2, Push
    <3>2. terminalSeen' => Last.type \in {"final", "bare", "failed"}
      BY <1>1, <2>1, <2>2, LineFacts, RelayFacts
    <3> QED
      BY <1>1, <1>3, <1>6, <3>1, <3>2, <1>2, ReceivingKeeps DEF Coming
  <2>3. CASE Head(wire) = Data("head", Last) /\ Tail(wire) = <<Data("tail", Last), Blank>>
    <3>1. data' = <<Data("head", Last)>> /\ wire' = <<Data("tail", Last), Blank>>
      BY <1>1, <1>7, <2>3, Push
    <3>2. ~terminalSeen'
      BY <1>1, <2>1, <2>3, LineFacts, RelayFacts
    <3> QED
      BY <1>1, <1>3, <1>6, <3>1, <3>2, <1>2, ReceivingKeeps DEF Coming
  <2> QED
    BY <1>1, <1>7, <2>2, <2>3, EncodingFacts
<1>8. CASE data = <<Data("head", Last)>> /\ wire = <<Data("tail", Last), Blank>>
  <2>1. Head(wire) = Data("tail", Last) /\ Tail(wire) = <<Blank>>
    BY <1>8, Peel
  <2>2. data' = <<Data("head", Last), Data("tail", Last)>> /\ wire' = <<Blank>>
    BY <1>1, <1>8, <2>1, Push
  <2>3. ~terminalSeen
    BY <1>5, <1>8, DataDiffer DEF Coming
  <2>4. ~terminalSeen'
    BY <1>1, <2>1, <2>3, LineFacts, RelayFacts
  <2> QED
    BY <1>1, <1>3, <1>6, <2>2, <2>4, <1>2, ReceivingKeeps DEF Coming
<1> QED
  BY <1>1, <1>5, <1>7, <1>8, Peel, LineFacts DEF Coming

\* The item of an event that is taken is added to those of the events before.
LEMMA TakenIsCollected ==
  ASSUME TypeOK, emitted # <<>>, Collected(Len(emitted) - 1), EventTaken(Last)
  PROVE  /\ Collected(Len(emitted))'
         /\ items' \in [Indexes -> Contents \cup {NoItem}]
<1>1. /\ emitted' = emitted /\ Len(emitted) \in Nat \ {0} /\ Last \in Events
      /\ items \in [Indexes -> Contents \cup {NoItem}]
  BY LastFacts DEF EventTaken, TypeOK
<1>2. PICK m \in Nat \ {0} : m = Len(emitted)
  BY <1>1
<1>3. Last = emitted[m] /\ Last.type \in {"item", "other"} /\ ~Refused(Last)
  BY <1>2 DEF Last, EventTaken
<1>4. Accepted(Last)
  <2>1. CASE Last.type = "item"
    <3>1. Last.index \in -1 .. MaxIndex /\ Last.item \in Contents \cup {NoItem}
      BY <1>1, <2>1, EventFacts
    <3>2. Last.index \in Indexes /\ Last.item \in Contents
      BY <1>3, <2>1, <3>1, AggregateAssumptions DEF AggregateAssumptions, Refused, Indexes
    <3> QED
      BY <2>1, <3>2 DEF Accepted
  <2> QED
    BY <1>3, <2>1 DEF Accepted
<1>5. \A n \in 1 .. m : Accepted(emitted[n])
  <2>1. \A n \in 1 .. m - 1 : Accepted(emitted[n])
    BY <1>2 DEF Collected
  <2> QED
    BY <1>3, <1>4, <2>1
<1>6. \A i : CarriersUpTo(m, i) =
         CarriersUpTo(m - 1, i) \cup (IF Last.type = "item" /\ Last.index = i THEN {m} ELSE {})
  BY <1>3 DEF CarriersUpTo
<1>7. \A i : \A k \in CarriersUpTo(m - 1, i) : k \in 1 .. m - 1
  BY DEF CarriersUpTo
<1>8. \A i \in Indexes :
        \/ items[i] = NoItem /\ CarriersUpTo(m - 1, i) = {}
        \/ \E n \in CarriersUpTo(m - 1, i) :
             items[i] = emitted[n].item /\ \A k \in CarriersUpTo(m - 1, i) : k <= n
  BY <1>2 DEF Collected
<1>9. ASSUME NEW i \in Indexes
      PROVE  \/ items'[i] = NoItem /\ CarriersUpTo(m, i) = {}
             \/ \E n \in CarriersUpTo(m, i) :
                  items'[i] = emitted[n].item /\ \A k \in CarriersUpTo(m, i) : k <= n
  <2>1. CASE Last.type = "item" /\ Last.index = i
    <3>1. items'[i] = Last.item
      BY <1>1, <2>1 DEF EventTaken
    <3>2. m \in CarriersUpTo(m, i) /\ \A k \in CarriersUpTo(m, i) : k <= m
      BY <1>6, <1>7, <2>1
    <3> QED
      BY <1>3, <3>1, <3>2
  <2>2. CASE ~(Last.type = "item" /\ Last.index = i)
    <3>1. items'[i] = items[i]
      BY <1>1, <2>2 DEF EventTaken
    <3>2. CarriersUpTo(m, i) = CarriersUpTo(m - 1, i)
      BY <1>6, <2>2
    <3> QED
      BY <1>8, <3>1, <3>2
  <2> QED
    BY <2>1, <2>2
<1>10. \A i : CarriersUpTo(m, i)' = CarriersUpTo(m, i)
  BY <1>1 DEF CarriersUpTo
<1>11. Collected(m)'
  BY <1>1, <1>5, <1>9, <1>10 DEF Collected
<1>12. items' \in [Indexes -> Contents \cup {NoItem}]
  BY <1>1, <1>4 DEF EventTaken, Accepted
<1> QED
  BY <1>1, <1>2, <1>11, <1>12

\* The final event is answered with the whole answer.
LEMMA FinalKeeps ==
  ASSUME AggregateInv, pc = "receiving", emitted # <<>>, Collected(Len(emitted) - 1),
         EventFinal(Last), UNCHANGED <<body, terminalSeen, fault>>
  PROVE  AggregateInv'
<1>1. /\ Last.type = "final" /\ ~Refused(Last) /\ output' = Assembled(Last)
      /\ pc' = "translating" /\ UNCHANGED <<emitted, items, status>>
  BY DEF EventFinal
<1>2. TypeOK /\ status = 0 /\ status' = 0
  BY <1>1 DEF AggregateInv
<1>3. IsOutput(output') /\ output' \in Seq(Contents)
  BY <1>1, <1>2, FinalIsWhole
<1>4. TypeOK'
  BY <1>1, <1>2, <1>3 DEF TypeOK
<1>5. ResultInv'
  BY <1>1, <1>3, Frame DEF ResultInv
<1> QED
  BY <1>1, <1>2, <1>4, <1>5 DEF AggregateInv, AnswerIsWhole, RefusalHasCause

\* An event that is refused is a failure with a cause.
LEMMA RefusedKeeps ==
  ASSUME AggregateInv, emitted # <<>>, Collected(Len(emitted) - 1),
         EventRefused(Last), UNCHANGED <<body, terminalSeen, fault>>
  PROVE  AggregateInv'
<1>1. Refused(Last) /\ Fails("Internal") /\ UNCHANGED items
  BY DEF EventRefused
<1>2. ~Answerable
  BY <1>1, RefusedIsNotAnswerable DEF AggregateInv
<1>3. HttpStatus("Internal") \in {502, 503, 504}
  BY StatusFacts
<1>4. fault' \in Failures \cup {"none", "request", "translator"}
  BY DEF AggregateInv, TypeOK
<1> QED
  BY <1>1, <1>2, <1>3, <1>4, FailureKeeps

\* A blank line has the last event consumed whole.
LEMMA RecvBlankKeeps ==
  ASSUME AggregateInv, RecvBlank
  PROVE  AggregateInv'
<1>1. /\ pc = "receiving" /\ wire # <<>> /\ Head(wire).kind = "blank" /\ wire' = Tail(wire)
      /\ data' = <<>> /\ UNCHANGED <<body, terminalSeen, fault>>
  BY DEF RecvBlank
<1>2. CASE Quiet
  <2>1. data = <<>> /\ wire = <<Blank>>
    BY <1>1, <1>2, Peel, LineFacts DEF Quiet
  <2>2. wire' = <<>> /\ UNCHANGED <<pc, emitted, items, output, status>>
    BY <1>1, <2>1, Peel DEF RecvBlank
  <2>3. TypeOK'
    BY <1>1, <2>2 DEF AggregateInv, TypeOK
  <2>4. Collected(Len(emitted))'
    BY <1>2, <2>2, CollectedFrame DEF Quiet
  <2>5. Quiet'
    BY <1>1, <1>2, <2>2, <2>4 DEF Quiet
  <2> QED
    BY <1>1, <2>2, <2>3, <2>5, ReceivingKeeps
<1>3. CASE Coming
  <2>1. /\ wire = <<Blank>>
        /\ data \in {<<Data("whole", Last)>>, <<Data("head", Last), Data("tail", Last)>>}
    <3>1. wire \notin Encodings(Last)
      BY <1>1, EncodingFacts
    <3>2. wire # <<Data("tail", Last), Blank>>
      BY <1>1, Peel, LineFacts
    <3> QED
      BY <1>3, <3>1, <3>2 DEF Coming
  <2>2. Parse(data) = Last /\ data # <<>> /\ wire' = <<>>
    BY <1>1, <2>1, ParseFacts, DataDiffer, Peel
  <2>3. emitted # <<>> /\ Collected(Len(emitted) - 1)
    BY <1>3 DEF Coming
  <2>4. EventRefused(Last) \/ EventFinal(Last) \/ EventTaken(Last)
    BY <2>2 DEF RecvBlank
  <2>5. CASE EventTaken(Last)
    <3>1. UNCHANGED <<pc, emitted, output, status>> /\ Last.type \in {"item", "other"}
      BY <2>5 DEF EventTaken
    <3>2. Collected(Len(emitted))' /\ items' \in [Indexes -> Contents \cup {NoItem}]
      BY <2>3, <2>5, TakenIsCollected DEF AggregateInv
    <3>3. TypeOK'
      BY <1>1, <3>1, <3>2 DEF AggregateInv, TypeOK
    <3>4. ~terminalSeen /\ body = "open"
      BY <1>3, <3>1 DEF Coming
    <3>5. Quiet'
      BY <1>1, <2>2, <3>2, <3>4 DEF Quiet
    <3> QED
      BY <1>1, <3>1, <3>3, <3>5, ReceivingKeeps
  <2> QED
    BY <1>1, <2>3, <2>4, <2>5, FinalKeeps, RefusedKeeps
<1>4. ~Ended
  BY <1>1 DEF Ended
<1> QED
  BY <1>1, <1>2, <1>3, <1>4 DEF AggregateInv

\* At the end of the stream the last event is consumed without its blank line.
LEMMA RecvEOFKeeps ==
  ASSUME AggregateInv, RecvEOF
  PROVE  AggregateInv'
<1>1. /\ pc = "receiving" /\ wire = <<>> /\ body = "clean" /\ terminalSeen
      /\ UNCHANGED <<body, terminalSeen, fault>>
  BY DEF RecvEOF
<1>2. Ended
  BY <1>1 DEF AggregateInv, Quiet, Coming
<1>3. emitted # <<>> /\ data = <<Data("whole", Last)>> /\ Collected(Len(emitted) - 1)
  BY <1>1, <1>2 DEF Ended
<1>4. Parse(data) = Last /\ data # <<>>
  BY <1>3, ParseFacts, DataDiffer
<1>5. \/ EventRefused(Last) \/ EventFinal(Last)
      \/ Last.type \in {"item", "other"} /\ Fails("Unavailable") /\ UNCHANGED items
  BY <1>4 DEF RecvEOF
<1>6. CASE Last.type \in {"item", "other"} /\ Fails("Unavailable") /\ UNCHANGED items
  <2>1. ~Answerable
    BY <1>6 DEF Answerable
  <2>2. HttpStatus("Unavailable") \in {502, 503, 504}
    BY StatusFacts
  <2>3. fault' \in Failures \cup {"none", "request", "translator"}
    BY <1>1 DEF AggregateInv, TypeOK
  <2> QED
    BY <1>1, <1>6, <2>1, <2>2, <2>3, FailureKeeps
<1> QED
  BY <1>1, <1>3, <1>5, <1>6, FinalKeeps, RefusedKeeps

\* A body that broke off, or ended early, is the cause of the failure.
LEMMA RecvErrorKeeps ==
  ASSUME AggregateInv, RecvError
  PROVE  AggregateInv'
<1>1. UNCHANGED <<wire, body, terminalSeen, data, items, fault>>
  BY DEF RecvError
<1>2. PICK failure \in {"network", "eof", "deadline", "read"} : Fails(ErrorCode(failure))
  BY DEF RecvError
<1>3. body' = "broken" \/ (body' = "clean" /\ ~terminalSeen')
  BY <1>1 DEF RecvError
<1>4. ErrorCode(failure) \in {"Internal", "Unavailable", "DeadlineExceeded", "Canceled", "NotFound"}
  BY <1>2 DEF ErrorCode
<1>5. HttpStatus(ErrorCode(failure)) \in {502, 503, 504}
  BY <1>4, StatusFacts
<1>6. fault' \in Failures \cup {"none", "request", "translator"}
  BY <1>1 DEF AggregateInv, TypeOK
<1> QED
  BY <1>1, <1>2, <1>3, <1>5, <1>6, FailureKeeps

\* The answer is the output that was assembled.
LEMMA AnswerKeeps ==
  ASSUME AggregateInv, Answer
  PROVE  AggregateInv'
<1>1. /\ pc = "translating" /\ pc' = "answered" /\ status' = 200
      /\ UNCHANGED <<emitted, wire, body, terminalSeen, data, items, output, fault>>
  BY DEF Answer
<1>2. TypeOK'
  BY <1>1 DEF AggregateInv, TypeOK
<1>3. AnswerIsWhole'
  <2>1. emitted # <<>> /\ Last.type = "final" /\ IsOutput(output)
    BY <1>1 DEF AggregateInv, ResultInv
  <2>2. Last' = Last /\ IsOutput(output)'
    BY <1>1, <2>1, Frame
  <2> QED
    BY <1>1, <2>1, <2>2 DEF AnswerIsWhole
<1> QED
  BY <1>1, <1>2, <1>3 DEF AggregateInv, ResultInv, RefusalHasCause

\* A translation that fails is a fault of the translator.
LEMMA BadTranslationKeeps ==
  ASSUME AggregateInv, BadTranslation
  PROVE  AggregateInv'
<1>1. fault' = "translator" /\ Fails("Internal") /\ UNCHANGED <<body, terminalSeen, items>>
  BY DEF BadTranslation
<1>2. HttpStatus("Internal") \in {502, 503, 504}
  BY StatusFacts
<1> QED
  BY <1>1, <1>2, FailureKeeps

\* A stuttering step changes nothing.
LEMMA StutterKeeps ==
  ASSUME AggregateInv, UNCHANGED vars
  PROVE  AggregateInv'
<1>1. UNCHANGED <<pc, emitted, wire, body, terminalSeen, data, items, output, status, fault>>
  BY DEF vars
<1>2. Last' = Last /\ Answerable' = Answerable /\ IsOutput(output)' = IsOutput(output)
  BY <1>1, Frame
<1>3. \A m : Collected(m)' = Collected(m)
  BY <1>1, CollectedFrame
<1>4. TypeOK'
  BY <1>1 DEF AggregateInv, TypeOK
<1>5. Quiet' = Quiet /\ Coming' = Coming /\ Ended' = Ended
  BY <1>1, <1>2, <1>3 DEF Quiet, Coming, Ended
<1>6. ResultInv' = ResultInv /\ AnswerIsWhole' = AnswerIsWhole
  BY <1>1, <1>2 DEF ResultInv, AnswerIsWhole
<1>7. RefusalHasCause' = RefusalHasCause
  BY <1>1, <1>2 DEF RefusalHasCause
<1> QED
  BY <1>1, <1>4, <1>5, <1>6, <1>7 DEF AggregateInv

\* Every step keeps the invariant.
LEMMA StepInv == AggregateInv /\ [Next]_vars => AggregateInv'
<1> SUFFICES ASSUME AggregateInv, [Next]_vars PROVE AggregateInv'
  OBVIOUS
<1>1. CASE \E code \in {"Unsupported", "InvalidArgument"} : RequestRefused(code)
  BY <1>1, RequestRefusedKeeps
<1>2. CASE OpenStream
  BY <1>2, OpenStreamKeeps
<1>3. CASE \E failure \in Failures : StreamFails(failure)
  BY <1>3, StreamFailsKeeps
<1>4. CASE \E e \in Events : \E lines \in Encodings(e) : Emit(e, lines)
  BY <1>4, EmitKeeps
<1>5. CASE KeepAlive
  BY <1>5, KeepAliveKeeps
<1>6. CASE \E how \in {"clean", "broken"} : BodyEnds(how)
  BY <1>6, BodyEndsKeeps
<1>7. CASE RecvBlank \/ RecvData \/ RecvField
  BY <1>7, RecvBlankKeeps, RecvDataKeeps, RecvFieldKeeps
<1>8. CASE RecvEOF \/ RecvError
  BY <1>8, RecvEOFKeeps, RecvErrorKeeps
<1>9. CASE Answer \/ BadTranslation
  BY <1>9, AnswerKeeps, BadTranslationKeeps
<1>10. CASE Terminated \/ UNCHANGED vars
  BY <1>10, StutterKeeps DEF Terminated
<1> QED
  BY <1>1, <1>2, <1>3, <1>4, <1>5, <1>6, <1>7, <1>8, <1>9, <1>10 DEF Next

-----------------------------------------------------------------------------
(* Theorems.                                                               *)

\* Between two blank lines the aggregator holds the data lines of one event of
\* the provider, and its items are those of the events before that one, each
\* index with the item sent last: for any number of events, indexes and contents.
THEOREM AggregateInvariance == Spec => []AggregateInv
<1>1. Init => AggregateInv
  BY InitInv
<1>2. AggregateInv /\ [Next]_vars => AggregateInv'
  BY StepInv
<1> QED
  BY <1>1, <1>2, PTL DEF Spec

\* ChatNonStream answers 200 only with the output the whole stream stands for,
\* after the provider's final event.
THEOREM AnswersAreWhole == Spec => []AnswerIsWhole
<1>1. AggregateInv => AnswerIsWhole
  BY DEF AggregateInv
<1> QED
  BY <1>1, AggregateInvariance, PTL

\* The handler answers a failure only where the surroundings, the body or the
\* events gave a cause, and blames the client only for a refusal with 4xx.
THEOREM RefusalsHaveCause == Spec => []RefusalHasCause
<1>1. AggregateInv => RefusalHasCause
  BY DEF AggregateInv
<1> QED
  BY <1>1, AggregateInvariance, PTL
=============================================================================
