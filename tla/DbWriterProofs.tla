--------------------------- MODULE DbWriterProofs ---------------------------
(* The safety of the database writer, for any number of events, outages    *)
(* and ends of the program.  The argument has two parts.  Every step       *)
(* leaves the pipeline (table, transaction, hand, library, queue) as it    *)
(* is, appends the event just published, or cuts a piece out of it; the    *)
(* last needs an outage or an end (LEMMA PipelineStep).  And a sequence in *)
(* order stays so under each of the three.                                 *)
EXTENDS DbWriter, SequenceTheorems, TLAPS

-----------------------------------------------------------------------------
(* Sequences of numbers                                                    *)

Ordered(s) == \A i, j \in DOMAIN s : i < j => s[i] < s[j]

(* s with a piece cut out.                                                 *)
CutFrom(t, s) ==
  \E a, b, c \in Seq(Nat) : s = (a \o b) \o c /\ t = a \o c

LEMMA OrderedCut ==
  ASSUME NEW s \in Seq(Nat), NEW t, Ordered(s), CutFrom(t, s)
  PROVE  t \in Seq(Nat) /\ Ordered(t)
<1>1. PICK a \in Seq(Nat), b \in Seq(Nat), c \in Seq(Nat) : s = (a \o b) \o c /\ t = a \o c
  BY DEF CutFrom
<1>2. /\ a \o b \in Seq(Nat) /\ Len(a \o b) = Len(a) + Len(b)
      /\ \A i \in 1 .. Len(a) + Len(b) : (a \o b)[i] = IF i <= Len(a) THEN a[i] ELSE b[i - Len(a)]
  BY ConcatProperties
<1>3. /\ Len(s) = Len(a) + Len(b) + Len(c)
      /\ \A i \in 1 .. Len(s) :
           s[i] = IF i <= Len(a) + Len(b) THEN (a \o b)[i] ELSE c[i - (Len(a) + Len(b))]
  BY <1>1, <1>2, ConcatProperties
<1>4. /\ t \in Seq(Nat) /\ Len(t) = Len(a) + Len(c)
      /\ \A i \in 1 .. Len(t) : t[i] = IF i <= Len(a) THEN a[i] ELSE c[i - Len(a)]
  BY <1>1, ConcatProperties
<1>5. Len(a) \in Nat /\ Len(b) \in Nat /\ Len(c) \in Nat
  OBVIOUS
<1> DEFINE place(i) == IF i <= Len(a) THEN i ELSE i + Len(b)
<1>0. \A i \in Nat : IF i <= Len(a) THEN place(i) = i ELSE place(i) = i + Len(b)
  OBVIOUS
<1> HIDE DEF place
<1>6. \A i \in 1 .. Len(t) : place(i) \in 1 .. Len(s) /\ t[i] = s[place(i)]
  <2> SUFFICES ASSUME NEW i \in 1 .. Len(t) PROVE place(i) \in 1 .. Len(s) /\ t[i] = s[place(i)]
    OBVIOUS
  <2>0. i \in Nat /\ 1 <= i /\ i <= Len(a) + Len(c)
    BY <1>4, <1>5
  <2>1. CASE i <= Len(a)
    <3>1. place(i) = i /\ i \in 1 .. Len(s) /\ i \in 1 .. Len(a) + Len(b) /\ i <= Len(a) + Len(b)
      BY <2>0, <2>1, <1>0, <1>3, <1>5
    <3>2. s[i] = (a \o b)[i] /\ (a \o b)[i] = a[i] /\ t[i] = a[i]
      BY <2>1, <3>1, <1>2, <1>3, <1>4
    <3> QED BY <3>1, <3>2
  <2>2. CASE ~ i <= Len(a)
    <3>1. /\ place(i) = i + Len(b) /\ i + Len(b) \in 1 .. Len(s) /\ ~ i + Len(b) <= Len(a) + Len(b)
          /\ (i + Len(b)) - (Len(a) + Len(b)) = i - Len(a)
      BY <2>0, <2>2, <1>0, <1>3, <1>5
    <3>2. s[i + Len(b)] = c[i - Len(a)] /\ t[i] = c[i - Len(a)]
      BY <2>2, <3>1, <1>3, <1>4
    <3> QED BY <3>1, <3>2
  <2> QED BY <2>1, <2>2
<1>7. \A i, j \in 1 .. Len(t) : i < j => place(i) < place(j)
  <2> SUFFICES ASSUME NEW i \in 1 .. Len(t), NEW j \in 1 .. Len(t), i < j PROVE place(i) < place(j)
    OBVIOUS
  <2>1. i \in Nat /\ j \in Nat
    BY <1>4, <1>5
  <2>2. CASE i <= Len(a)
    <3>1. place(i) = i /\ place(j) \in {j, j + Len(b)}
      BY <2>1, <2>2, <1>0
    <3> QED BY <2>1, <3>1, <1>5
  <2>3. CASE ~ i <= Len(a)
    <3>1. ~ j <= Len(a)
      BY <2>1, <2>3, <1>5
    <3>2. place(i) = i + Len(b) /\ place(j) = j + Len(b)
      BY <2>1, <2>3, <3>1, <1>0
    <3> QED BY <2>1, <3>2, <1>5
  <2> QED BY <2>2, <2>3
<1>8. DOMAIN t = 1 .. Len(t) /\ DOMAIN s = 1 .. Len(s)
  BY <1>4
<1> QED BY <1>4, <1>6, <1>7, <1>8 DEF Ordered

LEMMA OrderedAppend ==
  ASSUME NEW s \in Seq(Nat), NEW n \in Nat, Ordered(s), \A i \in DOMAIN s : s[i] < n
  PROVE  Ordered(Append(s, n))
<1>1. /\ Len(Append(s, n)) = Len(s) + 1 /\ Append(s, n) \in Seq(Nat)
      /\ \A i \in 1 .. Len(s) : Append(s, n)[i] = s[i]
      /\ Append(s, n)[Len(s) + 1] = n
  BY AppendProperties
<1> QED BY <1>1 DEF Ordered

-----------------------------------------------------------------------------
(* Types                                                                   *)

LEMMA TypeStep == TypeOK /\ [Next]_vars => TypeOK'
<1> SUFFICES ASSUME TypeOK, [Next]_vars PROVE TypeOK'
  OBVIOUS
<1> USE DEF TypeOK
<1>1. CASE Publish
  <2>1. published' = published + 1 /\ Event \subseteq Event' /\ published + 1 \in Event'
    BY <1>1 DEF Publish, Event
  <2>2. queue \in Seq(Event') /\ inbox \in Seq(Event') /\ work \in Seq(Event') /\ rows \in Seq(Event')
    BY <2>1, SeqMonotonic
  <2>3. queue' \in Seq(Event')
    BY <1>1, <2>1, <2>2, AppendProperties DEF Publish, Enqueue
  <2>4. event \in 0 .. published'
    BY <2>1
  <2> QED BY <1>1, <2>1, <2>2, <2>3, <2>4 DEF Publish, Enqueue, database
<1>2. CASE Loop
  <2>1. UNCHANGED Event
    BY <1>2 DEF Loop, counts, Event
  <2>2. CASE Reconnect /\ UNCHANGED <<database, counts>>
    BY <2>1, <2>2 DEF Reconnect, Consume, ConnectFails, Wake, Noticed, database, counts
  <2>3. CASE Deliver /\ UNCHANGED <<database, counts>>
    <3>1. Head(queue) \in Event /\ Tail(queue) \in Seq(Event)
      BY <2>3, HeadTailProperties DEF Deliver
    <3> QED BY <2>1, <2>3, <3>1, AppendProperties DEF Deliver, database, counts
  <2>4. CASE OutageEnds /\ UNCHANGED <<database, counts>>
    BY <2>1, <2>4 DEF OutageEnds, database, counts
  <2> QED BY <1>2, <2>2, <2>3, <2>4 DEF Loop
<1>3. CASE callback
  <2>1. Head(inbox) \in Event /\ Tail(inbox) \in Seq(Event)
    BY <1>3, HeadTailProperties DEF callback, Take
  <2> QED BY <1>3, <2>1 DEF callback, Take, counts, Event
<1>4. CASE execute
  <2>1. event \in Event /\ UNCHANGED Event
    BY <1>4 DEF execute, Event, counts
  <2> QED BY <1>4, <2>1, AppendProperties DEF execute, consumer, counts
<1>5. CASE commit
  <2>1. rows \o work \in Seq(Event) /\ <<>> \in Seq(Event)
    BY ConcatProperties, EmptySeq
  <2>2. UNCHANGED Event
    BY <1>5 DEF commit, counts, Event
  <2> QED BY <1>5, <2>1, <2>2 DEF commit, Return, counts
<1>6. CASE Stop
  <2>1. rows \o work \in Seq(Event) /\ <<>> \in Seq(Event)
    BY ConcatProperties, EmptySeq
  <2>2. UNCHANGED Event
    BY <1>6 DEF Stop, Event
  <2>3. rows' \in Seq(Event') /\ work' \in Seq(Event') /\ inbox' \in Seq(Event') /\ queue' \in Seq(Event')
    BY <1>6, <2>1, <2>2 DEF Stop, End
  <2> QED BY <1>6, <2>3 DEF Stop, End
<1>7. CASE BrokerLeaves
  <2>1. PICK n \in 0 .. Len(inbox) : inbox' = SubSeq(inbox, 1, n)
    BY <1>7 DEF BrokerLeaves, Outage
  <2>2. SubSeq(inbox, 1, n) \in Seq(Event)
    BY SubSeqProperties, ElementOfSeq
  <2>3. UNCHANGED Event /\ inbox' \in Seq(Event)
    BY <1>7, <2>1, <2>2 DEF BrokerLeaves, Event
  <2>4. outages' \in Nat /\ link' \in {"off", "up", "broken"} /\ reachable' = FALSE
    BY <1>7 DEF BrokerLeaves, Outage
  <2> QED BY <1>7, <2>3, <2>4 DEF BrokerLeaves, Outage, database
<1>8. CASE UNCHANGED vars
  BY <1>8 DEF vars, consumer, database, counts, Event
<1> QED BY <1>1, <1>2, <1>3, <1>4, <1>5, <1>6, <1>7, <1>8 DEF Next

(* Type correctness, and that no transaction outlives its callback.        *)
THEOREM TypeCorrect == Spec => []TypeOK
<1>1. Init => TypeOK
  BY EmptySeq DEF Init, ConsumerInit, TypeOK, Event
<1> QED BY <1>1, TypeStep, PTL DEF Spec
-----------------------------------------------------------------------------
(* The pipeline                                                            *)

Hand == IF event = 0 THEN <<>> ELSE <<event>>

Undisturbed == outages + stops = 0

LEMMA PartsType ==
  ASSUME TypeOK
  PROVE  /\ rows \in Seq(Event) /\ work \in Seq(Event) /\ Hand \in Seq(Event)
         /\ inbox \in Seq(Event) /\ queue \in Seq(Event)
         /\ Pipeline = (((rows \o work) \o Hand) \o inbox) \o queue
         /\ Pipeline \in Seq(Event)
<1>1. Hand \in Seq(Event)
  <2>1. event # 0 => event \in Event
    BY DEF TypeOK, Event
  <2> QED BY <2>1, EmptySeq DEF Hand
<1>2. Pipeline = (((rows \o work) \o Hand) \o inbox) \o queue
  BY <1>1, ConcatAssociative, ConcatProperties DEF Pipeline, Hand, TypeOK
<1> QED BY <1>1, <1>2, ConcatProperties DEF TypeOK

LEMMA Associative ==
  ASSUME NEW s \in Seq(Nat), NEW t \in Seq(Nat), NEW u \in Seq(Nat)
  PROVE  (s \o t) \o u = s \o (t \o u)
<1> DEFINE left == (s \o t) \o u
           right == s \o (t \o u)
<1>1. /\ s \o t \in Seq(Nat) /\ Len(s \o t) = Len(s) + Len(t)
      /\ t \o u \in Seq(Nat) /\ Len(t \o u) = Len(t) + Len(u)
  BY ConcatProperties
<1>2. left \in Seq(Nat) /\ Len(left) = Len(s) + Len(t) + Len(u)
  BY <1>1, ConcatProperties
<1>3. right \in Seq(Nat) /\ Len(right) = Len(s) + Len(t) + Len(u)
  BY <1>1, ConcatProperties
<1>4. ASSUME NEW i \in 1 .. Len(left) PROVE left[i] = right[i]
  <2>1. i \in 1 .. Len(s) + Len(t) + Len(u) /\ Len(s) \in Nat /\ Len(t) \in Nat /\ Len(u) \in Nat
    BY <1>2
  <2>2. left[i] = IF i <= Len(s) + Len(t) THEN (s \o t)[i] ELSE u[i - (Len(s) + Len(t))]
    BY <1>1, <2>1, ConcatProperties
  <2>3. right[i] = IF i <= Len(s) THEN s[i] ELSE (t \o u)[i - Len(s)]
    BY <1>1, <2>1, ConcatProperties
  <2> QED BY <2>1, <2>2, <2>3, ConcatProperties
<1> HIDE DEF left, right
<1>5. left = right
  BY <1>2, <1>3, <1>4, SeqEqual
<1> QED BY <1>5 DEF left, right

(* Appending at the end, and moving the head of b to the end of a.         *)
LEMMA ConcatAppend ==
  ASSUME NEW a \in Seq(Nat), NEW b \in Seq(Nat), NEW n \in Nat
  PROVE  a \o Append(b, n) = Append(a \o b, n)
<1>1. <<n>> \in Seq(Nat) /\ a \o b \in Seq(Nat) /\ Append(b, n) = b \o <<n>>
  BY AppendIsConcat, ConcatProperties
<1>2. Append(a \o b, n) = (a \o b) \o <<n>>
  BY <1>1, AppendIsConcat
<1>3. (a \o b) \o <<n>> = a \o (b \o <<n>>)
  BY <1>1, Associative
<1> QED BY <1>1, <1>2, <1>3

LEMMA HeadMoved ==
  ASSUME NEW a \in Seq(Nat), NEW b \in Seq(Nat), b # <<>>
  PROVE  Append(a, Head(b)) \o Tail(b) = a \o b
<1>1. /\ Head(b) \in Nat /\ Tail(b) \in Seq(Nat) /\ <<Head(b)>> \in Seq(Nat)
      /\ b = <<Head(b)>> \o Tail(b)
  BY HeadTailProperties, ConcatProperties
<1>2. Append(a, Head(b)) = a \o <<Head(b)>>
  BY <1>1, AppendIsConcat
<1>3. (a \o <<Head(b)>>) \o Tail(b) = a \o (<<Head(b)>> \o Tail(b))
  BY <1>1, Associative
<1> QED BY <1>1, <1>2, <1>3

(* The parts, and the pipeline, as sequences of numbers.                   *)
Parts ==
  /\ rows \in Seq(Nat) /\ work \in Seq(Nat) /\ Hand \in Seq(Nat)
  /\ inbox \in Seq(Nat) /\ queue \in Seq(Nat) /\ Pipeline \in Seq(Nat)
  /\ Pipeline = (((rows \o work) \o Hand) \o inbox) \o queue

LEMMA PartsAreNumbers == TypeOK => Parts
<1> SUFFICES ASSUME TypeOK PROVE Parts
  OBVIOUS
<1>1. Event \subseteq Nat
  BY DEF Event, TypeOK
<1> QED BY <1>1, PartsType, SeqMonotonic DEF Parts

LEMMA PartsAreNumbersNext == TypeOK' => Parts'
BY PartsAreNumbers, PTL

(* The bounds' counters only grow.                                         *)
LEMMA Disturbed ==
  ASSUME TypeOK, [Next]_vars
  PROVE  /\ Undisturbed' => Undisturbed
         /\ outages' = outages + 1 => ~Undisturbed'
         /\ stops' = stops + 1 => ~Undisturbed'
<1>1. outages \in Nat /\ stops \in Nat
  BY DEF TypeOK
<1>2. \/ UNCHANGED <<outages, stops>>
      \/ outages' = outages + 1 /\ stops' = stops
      \/ outages' = outages /\ stops' = stops + 1
  BY DEF Next, vars, counts, Publish, Loop, callback, execute, commit, Stop, BrokerLeaves
<1> QED BY <1>1, <1>2 DEF Undisturbed

LEMMA EmptyNat == <<>> \in Seq(Nat)
OBVIOUS

LEMMA PipelineStep ==
  ASSUME TypeOK, [Next]_vars
  PROVE  \/ Pipeline' = Pipeline /\ published' = published
         \/ Pipeline' = Append(Pipeline, published + 1) /\ published' = published + 1
         \/ /\ CutFrom(Pipeline', Pipeline) /\ published' = published
            /\ link = "broken" \/ ~Undisturbed'
<1> DEFINE kept == (rows \o work) \o Hand
<1>1. TypeOK'
  BY TypeStep
<1>2. /\ Pipeline = (kept \o inbox) \o queue
      /\ Pipeline' = (kept' \o inbox') \o queue'
      /\ rows \in Seq(Nat) /\ work \in Seq(Nat) /\ Hand \in Seq(Nat)
      /\ inbox \in Seq(Nat) /\ queue \in Seq(Nat)
  BY <1>1, PartsAreNumbers, PartsAreNumbersNext DEF Parts
<1>3. rows \o work \in Seq(Nat) /\ kept \in Seq(Nat) /\ kept \o inbox \in Seq(Nat)
  BY <1>2, ConcatProperties
<1>4. CASE Publish
  <2>1. UNCHANGED <<kept, inbox>> /\ queue' = Append(queue, published + 1)
        /\ published' = published + 1 /\ published + 1 \in Nat
    BY <1>4 DEF Publish, Enqueue, database, Hand, TypeOK
  <2>2. (kept \o inbox) \o Append(queue, published + 1) = Append((kept \o inbox) \o queue, published + 1)
    BY <1>2, <1>3, <2>1, ConcatAppend
  <2> QED BY <1>2, <2>1, <2>2
<1>5. CASE Loop
  <2>1. UNCHANGED <<kept, published>>
    BY <1>5 DEF Loop, database, counts, Hand
  <2>2. CASE Noticed
    <3>1. kept' = kept /\ inbox' = <<>> /\ queue' = queue /\ link = "broken"
      BY <2>1, <2>2 DEF Noticed
    <3>2. kept \o <<>> = kept
      BY <1>3, ConcatEmptySeq
    <3>3. CutFrom(Pipeline', Pipeline)
      BY <1>2, <1>3, <3>1, <3>2 DEF CutFrom
    <3> QED BY <2>1, <3>1, <3>3
  <2>3. CASE Deliver
    <3>1. queue # <<>> /\ inbox' = Append(inbox, Head(queue)) /\ queue' = Tail(queue) /\ kept' = kept
      BY <2>1, <2>3 DEF Deliver
    <3>2. Head(queue) \in Nat /\ Tail(queue) \in Seq(Nat)
      BY <1>2, <3>1, HeadTailProperties
    <3>3. kept \o Append(inbox, Head(queue)) = Append(kept \o inbox, Head(queue))
      BY <1>2, <1>3, <3>2, ConcatAppend
    <3>4. Append(kept \o inbox, Head(queue)) \o Tail(queue) = (kept \o inbox) \o queue
      BY <1>2, <1>3, <3>1, HeadMoved
    <3> QED BY <1>2, <2>1, <3>1, <3>3, <3>4
  <2>4. CASE Consume \/ ConnectFails \/ Wake \/ OutageEnds
    <3>1. UNCHANGED <<inbox, queue>>
      BY <2>4 DEF Consume, ConnectFails, Wake, OutageEnds
    <3> QED BY <1>2, <2>1, <3>1
  <2> QED BY <1>5, <2>2, <2>3, <2>4 DEF Loop, Reconnect
<1>6. CASE callback
  <2>1. /\ inbox # <<>> /\ inbox' = Tail(inbox) /\ UNCHANGED <<rows, work, queue, published>>
        /\ event = 0 /\ event' = Head(inbox)
    BY <1>6 DEF callback, Take, counts, TypeOK
  <2>2. event' # 0
    <3>1. Head(inbox) \in Event
      BY <2>1, HeadTailProperties DEF TypeOK
    <3> QED BY <2>1, <3>1 DEF Event
  <2>3. Hand = <<>> /\ Hand' = <<Head(inbox)>>
    BY <2>1, <2>2 DEF Hand
  <2>4. kept = rows \o work
    BY <1>3, <2>3, ConcatEmptySeq
  <2>5. Head(inbox) \in Nat /\ Tail(inbox) \in Seq(Nat)
    BY <1>2, <2>1, HeadTailProperties
  <2>6. kept' = Append(kept, Head(inbox))
    BY <1>3, <2>1, <2>3, <2>4, <2>5, AppendIsConcat
  <2>7. Append(kept, Head(inbox)) \o Tail(inbox) = kept \o inbox
    BY <1>2, <1>3, <2>1, HeadMoved
  <2> QED BY <1>2, <2>1, <2>6, <2>7
<1>7. CASE execute
  <2>1. /\ event # 0 /\ event' = 0 /\ work' = Append(work, event) /\ UNCHANGED <<rows, inbox, queue, published>>
    BY <1>7 DEF execute, consumer, counts
  <2>2. event \in Nat /\ Hand = <<event>> /\ Hand' = <<>>
    BY <2>1 DEF Hand, TypeOK
  <2>3. rows \o Append(work, event) = Append(rows \o work, event)
    BY <1>2, <2>2, ConcatAppend
  <2>4. Append(rows \o work, event) = (rows \o work) \o <<event>>
    BY <1>3, <2>2, AppendIsConcat
  <2>5. kept' = (rows \o Append(work, event)) \o <<>> /\ kept = (rows \o work) \o <<event>>
    BY <2>1, <2>2
  <2>6. kept' = kept
    BY <1>3, <2>3, <2>4, <2>5, <2>2, ConcatEmptySeq
  <2> QED BY <1>2, <2>1, <2>6
<1>8. CASE commit
  <2>1. /\ event = 0 /\ rows' = rows \o work /\ work' = <<>> /\ event' = 0
        /\ UNCHANGED <<inbox, queue, published>>
    BY <1>8 DEF commit, Return, counts
  <2>2. Hand = <<>> /\ Hand' = <<>>
    BY <2>1 DEF Hand
  <2>3. (rows \o work) \o <<>> = rows \o work
    BY <1>3, ConcatEmptySeq
  <2>4. kept' = kept
    BY <2>1, <2>2, <2>3
  <2> QED BY <1>2, <2>1, <2>4
<1>9. CASE Stop
  <2>1. /\ rows' \in {rows, rows \o work} /\ work' = <<>> /\ event' = 0 /\ inbox' = <<>>
        /\ UNCHANGED <<queue, published>> /\ stops' = stops + 1
    BY <1>9 DEF Stop, End
  <2>2. ~Undisturbed'
    BY <2>1, Disturbed
  <2>3. rows' \in Seq(Nat) /\ Pipeline' = rows' \o queue
    <3>1. rows' \in Seq(Nat) /\ Hand' = <<>>
      BY <1>2, <1>3, <2>1 DEF Hand
    <3>2. Pipeline' = (((rows' \o <<>>) \o <<>>) \o <<>>) \o queue
      BY <1>2, <2>1, <3>1
    <3> QED BY <3>1, <3>2, ConcatEmptySeq
  <2>4. \E b \in Seq(Nat) : kept \o inbox = rows' \o b
    <3>1. CASE rows' = rows
      <4>1. kept = rows \o (work \o Hand) /\ work \o Hand \in Seq(Nat)
        BY <1>2, Associative, ConcatProperties
      <4>2. (rows \o (work \o Hand)) \o inbox = rows \o ((work \o Hand) \o inbox)
        BY <1>2, <4>1, Associative
      <4>3. (work \o Hand) \o inbox \in Seq(Nat)
        BY <1>2, <4>1, ConcatProperties
      <4> QED BY <3>1, <4>1, <4>2, <4>3
    <3>2. CASE rows' = rows \o work
      <4>1. ((rows \o work) \o Hand) \o inbox = (rows \o work) \o (Hand \o inbox)
        <5>1. rows \o work \in Seq(Nat) /\ Hand \in Seq(Nat) /\ inbox \in Seq(Nat)
          BY <1>2, <1>3
        <5> QED BY <5>1, Associative
      <4>2. Hand \o inbox \in Seq(Nat)
        BY <1>2, ConcatProperties
      <4> QED BY <3>2, <4>1, <4>2
    <3> QED BY <2>1, <3>1, <3>2
  <2>5. CutFrom(Pipeline', Pipeline)
    BY <1>2, <2>3, <2>4 DEF CutFrom
  <2> QED BY <2>1, <2>2, <2>5
<1>10. CASE BrokerLeaves
  <2>1. UNCHANGED <<kept, queue, published>> /\ outages' = outages + 1
    BY <1>10 DEF BrokerLeaves, Outage, database, Hand
  <2>2. PICK n \in 0 .. Len(inbox) : inbox' = SubSeq(inbox, 1, n)
    BY <1>10 DEF BrokerLeaves, Outage
  <2>3. ~Undisturbed'
    BY <2>1, Disturbed
  <2> DEFINE front == SubSeq(inbox, 1, n)
             rest == SubSeq(inbox, n + 1, Len(inbox))
  <2>4. front \in Seq(Nat) /\ rest \in Seq(Nat)
    <3>1. n \in Nat /\ n <= Len(inbox) /\ Len(inbox) \in Nat /\ \A i \in 1 .. Len(inbox) : inbox[i] \in Nat
      BY <1>2, ElementOfSeq
    <3>2. /\ \A i \in 1 .. n : inbox[i] \in Nat
          /\ \A i \in n + 1 .. Len(inbox) : inbox[i] \in Nat
      BY <3>1
    <3> QED BY <3>1, <3>2, SubSeqProperties
  <2>5. front \o rest = inbox
    <3>1. 1 \in 1 .. Len(inbox) + 1 /\ n \in 1 - 1 .. Len(inbox) /\ Len(inbox) \in n .. Len(inbox)
      BY <1>2
    <3>2. front \o rest = SubSeq(inbox, 1, Len(inbox))
      BY <1>2, <3>1, ConcatAdjacentSubSeq
    <3> QED BY <1>2, <3>2, SubSeqFull
  <2> HIDE DEF front, rest
  <2>6. (kept \o front) \o rest = kept \o inbox /\ kept \o front \in Seq(Nat)
    BY <1>3, <2>4, <2>5, Associative, ConcatProperties
  <2>7. Pipeline' = (kept \o front) \o queue /\ Pipeline = ((kept \o front) \o rest) \o queue
    BY <1>2, <2>1, <2>2, <2>6 DEF front
  <2>8. CutFrom(Pipeline', Pipeline)
    BY <1>2, <2>4, <2>6, <2>7 DEF CutFrom
  <2> QED BY <2>1, <2>3, <2>8
<1>11. CASE UNCHANGED vars
  <2>1. UNCHANGED <<kept, inbox, queue, published>>
    BY <1>11 DEF vars, consumer, database, counts, Hand
  <2> QED BY <1>2, <2>1
<1> QED BY <1>4, <1>5, <1>6, <1>7, <1>8, <1>9, <1>10, <1>11 DEF Next

-----------------------------------------------------------------------------
(* The theorems                                                            *)

(* While nothing has gone wrong the connection is not broken, so that no   *)
(* step cuts the pipeline.                                                 *)
Inv == TypeOK /\ (Undisturbed => link # "broken") /\ NothingIsLost /\ StoredInOrder

LEMMA InitInv == Init => Inv
<1> SUFFICES ASSUME Init PROVE Inv
  OBVIOUS
<1>1. TypeOK
  BY EmptySeq DEF Init, ConsumerInit, TypeOK, Event
<1>2. Pipeline = <<>>
  <2>1. Pipeline = (((<<>> \o <<>>) \o <<>>) \o <<>>) \o <<>>
    BY DEF Init, ConsumerInit, Pipeline
  <2> QED BY <2>1, EmptyNat, ConcatEmptySeq
<1>3. Len(Pipeline) = 0 /\ DOMAIN Pipeline = {}
  BY <1>2
<1>4. link = "off" /\ published = 0
  BY DEF Init, ConsumerInit
<1>5. NothingIsLost /\ StoredInOrder
  BY <1>3, <1>4 DEF NothingIsLost, StoredInOrder
<1> QED BY <1>1, <1>4, <1>5 DEF Inv

LEMMA StepInv == Inv /\ [Next]_vars => Inv'
<1> SUFFICES ASSUME Inv, [Next]_vars PROVE Inv'
  OBVIOUS
<1>1. TypeOK /\ TypeOK' /\ Pipeline \in Seq(Event) /\ Pipeline \in Seq(Nat)
  BY TypeStep, PartsType, PartsAreNumbers DEF Inv, Parts
<1>2. /\ Undisturbed' => Undisturbed
      /\ Undisturbed' => link' # "broken"
  <2>2. Undisturbed' => Undisturbed
    BY <1>1, Disturbed
  <2>3. ASSUME Undisturbed' PROVE link' # "broken"
    <3>1. link # "broken" /\ outages' # outages + 1 /\ stops' # stops + 1
      BY <1>1, <2>2, <2>3, Disturbed DEF Inv
    <3> QED BY <3>1 DEF Next, vars, consumer, Publish, Enqueue, Loop, Reconnect, Consume, ConnectFails,
                 Wake, Noticed, Deliver, OutageEnds, callback, Take, execute, commit, Return,
                 Stop, BrokerLeaves
  <2> QED BY <2>2, <2>3
<1>3. NothingIsLost'
  <2> SUFFICES ASSUME Undisturbed' PROVE Len(Pipeline') = published'
    BY DEF NothingIsLost, Undisturbed
  <2>1. Undisturbed /\ link # "broken" /\ Len(Pipeline) = published
    BY <1>2 DEF Inv, NothingIsLost, Undisturbed
  <2>2. published + 1 \in Nat
    BY <1>1 DEF TypeOK
  <2>3. Len(Append(Pipeline, published + 1)) = Len(Pipeline) + 1
    BY <1>1, <2>2, AppendProperties
  <2> QED BY <1>1, <2>1, <2>3, PipelineStep
<1>4. StoredInOrder'
  <2>1. Ordered(Pipeline) /\ (StoredInOrder' <=> Ordered(Pipeline'))
    BY DEF Inv, StoredInOrder, Ordered
  <2>2. published + 1 \in Nat /\ \A i \in DOMAIN Pipeline : Pipeline[i] < published + 1
    <3>1. \A i \in DOMAIN Pipeline : Pipeline[i] \in Event
      BY <1>1, ElementOfSeq
    <3> QED BY <1>1, <3>1 DEF Event, TypeOK
  <2>3. Ordered(Append(Pipeline, published + 1))
    BY <1>1, <2>1, <2>2, OrderedAppend
  <2>4. CutFrom(Pipeline', Pipeline) => Ordered(Pipeline')
    BY <1>1, <2>1, OrderedCut
  <2> QED BY <1>1, <2>1, <2>3, <2>4, PipelineStep
<1> QED BY <1>1, <1>2, <1>3, <1>4 DEF Inv

LEMMA Invariant == Spec => []Inv
BY InitInv, StepInv, PTL DEF Spec

(* From the table to the queue the events stay in the order they were      *)
(* published, each at most once, through any outages and ends.             *)
THEOREM StoredInOrderHolds == Spec => []StoredInOrder
<1>1. Inv => StoredInOrder
  BY DEF Inv
<1> QED BY <1>1, Invariant, PTL

(* Only an outage or the end of the program loses an event.                *)
THEOREM NothingIsLostHolds == Spec => []NothingIsLost
<1>1. Inv => NothingIsLost
  BY DEF Inv
<1> QED BY <1>1, Invariant, PTL
=============================================================================
