-------------------------- MODULE K8sEventsProofs --------------------------
(***************************************************************************)
(* Theorems about K8sEvents, for any events, reasons and bounds.           *)
(***************************************************************************)
EXTENDS K8sEvents, DataLemmas, FiniteSetTheorems

-----------------------------------------------------------------------------
\* What the operators return.

LEMMA CountType ==
    ASSUME NEW batch \in Seq(Items), NEW these
    PROVE  Count(batch, these) \in Nat
<1>1. Len(batch) \in Nat /\ DOMAIN batch = 1 .. Len(batch)
  OBVIOUS
<1>2. IsFiniteSet(1 .. Len(batch))
  BY <1>1, FS_Interval
<1>3. IsFiniteSet({n \in DOMAIN batch : batch[n][1] \in these})
  BY <1>1, <1>2, FS_Subset
<1> QED BY <1>3, FS_CardinalityType DEF Count

LEMMA SummaryType ==
    ASSUME NEW batch \in Seq(Items)
    PROVE  Summary(batch) \in [counts : [Types \X Reasons -> Nat], warnings : Nat, oom : Nat,
                               evicted : Nat, unscheduled : Nat, crashloop : Nat]
  BY CountType DEF Summary

LEMMA NoneType == << >> \in Seq(Items) /\ << >> \in Seq(Notes)
  OBVIOUS

\* The notifications with which a watch starts.
LEMMA OrderType ==
    ASSUME TypeOK, NEW order \in SetToSeqs(DOMAIN store)
    PROVE  [n \in DOMAIN order |-> [type |-> "Added", item |-> <<order[n], store[order[n]]>>]]
               \in Seq(Notes)
<1>1. DOMAIN store \subseteq Events
  BY DEF TypeOK
<1>2. IsFiniteSet(DOMAIN store)
  BY <1>1, EventsAssumption, FS_Subset
<1>3. Cardinality(DOMAIN store) \in Nat
  BY <1>2, FS_CardinalityType
<1>4. order \in [1 .. Cardinality(DOMAIN store) -> DOMAIN store]
  BY DEF SetToSeqs
<1>5. \A n \in DOMAIN order : <<order[n], store[order[n]]>> \in Items
  BY <1>1, <1>4 DEF TypeOK, Items
<1>6. \A n \in DOMAIN order :
          [type |-> "Added", item |-> <<order[n], store[order[n]]>>] \in Notes
  BY <1>5 DEF Notes
<1> HIDE DEF Items, Notes
<1> QED BY <1>3, <1>4, <1>6

LEMMA PublishType ==
    ASSUME stream \in Seq(Notes), NEW note \in Notes, Publish(note)
    PROVE  stream' \in Seq(Notes)
  BY DEF Publish

LEMMA AddType ==
    ASSUME events \in Seq(Items), arrived \in Seq(Items), NEW item \in Items, addEvent(item)
    PROVE  events' \in Seq(Items) /\ arrived' \in Seq(Items)
<1>1. Append(events, item) \in Seq(Items)
  OBVIOUS
<1>2. KeepNewest(Append(events, item), MaxEvents, KeepEvents) \in Seq(Items)
  BY <1>1, WindowAssumption, KeepNewestType
<1> QED BY <1>2 DEF addEvent

-----------------------------------------------------------------------------
\* Type correctness.

LEMMA InitType == Init => TypeOK
<1> SUFFICES ASSUME Init PROVE TypeOK
  OBVIOUS
<1>1. MaxVersion \in Nat \ {0} /\ MaxWatches \in Nat /\ Stored \subseteq Events
  BY EventsAssumption, WindowAssumption
<1>2. DOMAIN store \subseteq Events /\ \A e \in DOMAIN store : store[e] \in 1 .. MaxVersion
  BY <1>1 DEF Init
<1>3. summary \in [counts : [Types \X Reasons -> Nat], warnings : Nat, oom : Nat,
                   evicted : Nat, unscheduled : Nat, crashloop : Nat]
  BY SummaryType, NoneType DEF Init
<1>4. 0 \in 0 .. MaxWatches
  BY <1>1
<1> QED BY <1>2, <1>3, <1>4, NoneType DEF Init, TypeOK

\* The store and what is published of it.
LEMMA StoreType ==
    ASSUME TypeOK, NEW e \in Events, Appear(e) \/ Recur(e) \/ Expire(e)
    PROVE  TypeOK'
<1>1. MaxVersion \in Nat \ {0}
  BY WindowAssumption
<1>2. CASE Appear(e)
  <2>1. /\ DOMAIN store' = DOMAIN store \cup {e}
        /\ \A f \in DOMAIN store' : store'[f] \in 1 .. MaxVersion
    BY <1>1, <1>2 DEF Appear, TypeOK
  <2>2. Note("Added", e) \in Notes
    BY <2>1 DEF Note, Notes, Items
  <2>3. stream' \in Seq(Notes)
    BY <1>2, <2>2, PublishType DEF Appear, TypeOK
  <2> QED BY <1>2, <2>1, <2>3 DEF Appear, TypeOK
<1>3. CASE Recur(e)
  <2>1. /\ DOMAIN store' = DOMAIN store
        /\ \A f \in DOMAIN store' : store'[f] \in 1 .. MaxVersion
    BY <1>1, <1>3 DEF Recur, TypeOK
  <2>2. Note("Modified", e) \in Notes
    BY <1>3, <2>1 DEF Recur, Note, Notes, Items
  <2>3. stream' \in Seq(Notes)
    BY <1>3, <2>2, PublishType DEF Recur, TypeOK
  <2> QED BY <1>3, <2>1, <2>3 DEF Recur, TypeOK
<1>4. CASE Expire(e)
  <2>1. [type |-> "Deleted", item |-> <<e, store[e]>>] \in Notes
    BY <1>4 DEF Expire, TypeOK, Notes, Items
  <2>2. stream' \in Seq(Notes)
    BY <1>4, <2>1, PublishType DEF Expire, TypeOK
  <2> QED BY <1>4, <2>2 DEF Expire, TypeOK
<1> QED BY <1>2, <1>3, <1>4

LEMMA EnvironmentType ==
    ASSUME TypeOK, EndWatch \/ CancelContext \/ Stop
    PROVE  TypeOK'
<1>1. CASE EndWatch
  <2>1. PICK n \in 0 .. Len(stream), last \in {<< >>, <<ErrorNote>>} :
            stream' = SubSeq(stream, 1, n) \o last
    BY <1>1 DEF EndWatch
  <2>2. stream \in Seq(Notes) /\ last \in Seq(Notes)
    <3>1. ErrorNote \in Notes
      BY DEF Notes
    <3>2. <<ErrorNote>> \in Seq(Notes)
      BY <3>1
    <3>3. last \in Seq(Notes)
      BY <3>2, NoneType
    <3> QED BY <3>3 DEF TypeOK
  <2>3. SubSeq(stream, 1, n) \in Seq(Notes)
    BY <2>2, SubSeqProperties
  <2>4. stream' \in Seq(Notes)
    BY <2>1, <2>2, <2>3
  <2> QED BY <1>1, <2>4 DEF EndWatch, envVars, TypeOK
<1>2. CASE CancelContext \/ Stop
  BY <1>2 DEF CancelContext, Stop, TypeOK
<1> QED BY <1>1, <1>2

LEMMA WatchType ==
    ASSUME TypeOK, watchEvents
    PROVE  TypeOK'
<1>1. CASE Watch
  <2>1. stream' \in Seq(Notes)
    BY <1>1, OrderType DEF Watch
  <2>2. watches' \in 0 .. MaxWatches
    BY <1>1, WindowAssumption DEF Watch, TypeOK
  <2> QED BY <1>1, <2>1, <2>2 DEF Watch, envVars, TypeOK
<1>2. CASE ProcessEvent
  <2> DEFINE note == Head(stream)
  <2>1. note \in Notes /\ stream' \in Seq(Notes)
    BY <1>2 DEF ProcessEvent, TypeOK
  <2>2. note.type \in CountedTypes => note.item \in Items
    BY <2>1 DEF Notes, ErrorNote, CountedTypes
  <2>3. events' \in Seq(Items) /\ arrived' \in Seq(Items)
    BY <1>2, <2>2, AddType DEF ProcessEvent, TypeOK
  <2> QED BY <1>2, <2>1, <2>3 DEF ProcessEvent, envVars, TypeOK
<1>3. CASE LeaveWatch
  BY <1>3, NoneType DEF LeaveWatch, envVars, TypeOK
<1>4. CASE CheckStop \/ WatchFails \/ WakeUp
  BY <1>4 DEF CheckStop, WatchFails, WakeUp, envVars, TypeOK
<1> QED BY <1>1, <1>2, <1>3, <1>4 DEF watchEvents

LEMMA CollectType ==
    ASSUME TypeOK, CollectMetrics
    PROVE  TypeOK'
<1>1. summary' \in [counts : [Types \X Reasons -> Nat], warnings : Nat, oom : Nat,
                    evicted : Nat, unscheduled : Nat, crashloop : Nat]
  BY SummaryType DEF CollectMetrics, TypeOK
<1>2. taken' \in Seq(Items) /\ events' \in Seq(Items)
  BY NoneType DEF CollectMetrics, TypeOK
<1> QED BY <1>1, <1>2 DEF CollectMetrics, envVars, TypeOK

\* Whatever the API server delivers and however it ends a watch, the buffer and
\* the counts hold events and numbers only (k8s_events.go:99-166).
THEOREM TypeCorrect == Spec => []TypeOK
<1>1. TypeOK /\ [Next]_vars => TypeOK'
  <2> SUFFICES ASSUME TypeOK, [Next]_vars PROVE TypeOK'
    OBVIOUS
  <2>1. CASE UNCHANGED vars
    BY <2>1 DEF vars, TypeOK
  <2> QED BY <2>1, StoreType, EnvironmentType, WatchType, CollectType DEF Next, Environment
<1> QED BY <1>1, InitType, PTL DEF Spec

-----------------------------------------------------------------------------
\* The buffer of events implements LossyBuffer.

Waiting == EndsWith(arrived, events) /\ Len(events) <= MaxEvents

LEMMA InitWaiting == Init => Waiting
  BY WindowAssumption DEF Init, Waiting, EndsWith

\* An event that is added is a Put.
LEMMA AddPuts ==
    ASSUME TypeOK, Waiting, NEW item \in Items, addEvent(item), taken' = taken
    PROVE  Waiting' /\ Buffer!Put
<1>1. /\ arrived \in Seq(Items) /\ events \in Seq(Items) /\ <<item>> \in Seq(Items)
      /\ MaxEvents \in Nat /\ KeepEvents \in Nat \ {0} /\ KeepEvents <= MaxEvents
  BY WindowAssumption DEF TypeOK
<1>2. /\ events' = KeepNewest(events \o <<item>>, MaxEvents, KeepEvents)
      /\ arrived' = arrived \o <<item>>
  <2>1. Append(events, item) = events \o <<item>> /\ Append(arrived, item) = arrived \o <<item>>
    BY <1>1
  <2> QED BY <2>1 DEF addEvent
<1>3. Appends(arrived, events, arrived', events', MaxEvents, KeepEvents)
  <2>1. <<item>> # << >> /\ EndsWith(arrived, events)
    BY DEF Waiting
  <2>2. Appends(arrived, events, arrived \o <<item>>,
                KeepNewest(events \o <<item>>, MaxEvents, KeepEvents), MaxEvents, KeepEvents)
    BY <1>1, <2>1, KeepNewestAppends
  <2> QED BY <1>2, <2>2
<1>4. Waiting'
  BY <1>3 DEF Appends, Waiting
<1>5. Len(arrived') \in Nat /\ Len(events') \in Nat /\ Len(arrived) \in Nat /\ Len(events) \in Nat
  <2>1. arrived' \in Seq(Items) /\ events' \in Seq(Items)
    BY <1>1, AddType
  <2> QED BY <1>1, <2>1
<1>6. Buffer!Put
  BY <1>3, <1>5 DEF Appends, Buffer!Put, Buffer!waiting
<1> QED BY <1>4, <1>6

\* A collection is a Take.
LEMMA CollectTakes ==
    ASSUME TypeOK, Waiting, CollectMetrics
    PROVE  Waiting' /\ Buffer!Take
<1>1. arrived \in Seq(Items) /\ events \in Seq(Items) /\ arrived' = arrived /\ events' = << >>
  BY DEF TypeOK, CollectMetrics
<1>2. events = SubSeq(arrived, Len(arrived) - Len(events) + 1, Len(arrived))
  BY <1>1, EndsWithSubSeq DEF Waiting
<1>3. Waiting'
  BY <1>1, WindowAssumption DEF Waiting, EndsWith
<1>4. Len(arrived) - Len(events)' = Len(arrived)
  BY <1>1
<1> QED BY <1>1, <1>2, <1>3, <1>4 DEF Buffer!Take, CollectMetrics

LEMMA NextWaiting == TypeOK /\ Waiting /\ [Next]_vars => Waiting' /\ [Buffer!Next]_(Buffer!vars)
<1> SUFFICES ASSUME TypeOK, Waiting, [Next]_vars
             PROVE  Waiting' /\ [Buffer!Next]_(Buffer!vars)
  OBVIOUS
<1>1. ASSUME UNCHANGED <<events, arrived, taken>>
      PROVE  Waiting' /\ [Buffer!Next]_(Buffer!vars)
  BY <1>1 DEF Waiting, EndsWith, Buffer!vars
<1>2. CASE ProcessEvent
  <2> DEFINE note == Head(stream)
  <2>1. note \in Notes /\ taken' = taken
    BY <1>2 DEF ProcessEvent, TypeOK
  <2>2. note.type \in CountedTypes => note.item \in Items
    BY <2>1 DEF Notes, ErrorNote, CountedTypes
  <2>3. \/ note.item \in Items /\ addEvent(note.item)
        \/ UNCHANGED <<events, arrived>>
    BY <1>2, <2>2 DEF ProcessEvent
  <2> QED BY <1>1, <2>1, <2>3, AddPuts DEF Buffer!Next
<1>3. CASE CollectMetrics
  BY <1>3, CollectTakes DEF Buffer!Next
<1>4. CASE watchEvents /\ ~ProcessEvent
  BY <1>1, <1>4 DEF watchEvents, CheckStop, Watch, WatchFails, WakeUp, LeaveWatch
<1>5. CASE Environment \/ UNCHANGED vars
  BY <1>1, <1>5 DEF Environment, Appear, Recur, Expire, EndWatch, CancelContext, Stop, vars
<1> QED BY <1>2, <1>3, <1>4, <1>5 DEF Next

\* The buffer of events implements LossyBuffer whatever watches end and start
\* again: for any limits, collections take events in order, none twice, and only
\* an overflow drops any, the oldest (k8s_events.go:150-165, 298).
THEOREM EventBufferIsLossyBuffer == Spec => BufferSpec
<1>1. Init => Buffer!Init
  BY DEF Init, Buffer!Init
<1> QED BY <1>1, InitWaiting, NextWaiting, TypeCorrect, PTL DEF Spec, BufferSpec, Buffer!Spec

-----------------------------------------------------------------------------
\* How often an occurrence of an event is buffered.

Announces(note, item) == note.type \in CountedTypes /\ note.item = item

\* Where an occurrence was buffered, and whether the current watch may yet deliver
\* it.
Occurrences(item) == {n \in DOMAIN arrived : arrived[n] = item}
Undelivered(item) == \E n \in DOMAIN stream : Announces(stream[n], item)

\* An occurrence that has happened: a version of the event as it is or was stored.
Known(item) ==
    /\ item[1] \in DOMAIN store \cup expired
    /\ item[1] \in DOMAIN store => item[2] <= store[item[1]]

\* The current watch has delivered no occurrence that it has yet to deliver, and
\* will deliver each once.
OnceInv ==
    /\ streamOpen => watches > 0
    /\ \A item \in Items :
           /\ Cardinality(Occurrences(item)) <= watches
           /\ Undelivered(item) => Cardinality(Occurrences(item)) < watches
           /\ Undelivered(item) \/ Occurrences(item) # {} => Known(item)
           /\ \A m, n \in DOMAIN stream :
                  Announces(stream[m], item) /\ Announces(stream[n], item) => m = n

LEMMA OccurrencesType ==
    ASSUME arrived \in Seq(Items), NEW item
    PROVE  IsFiniteSet(Occurrences(item)) /\ Cardinality(Occurrences(item)) \in Nat
<1>1. Len(arrived) \in Nat /\ DOMAIN arrived = 1 .. Len(arrived)
  OBVIOUS
<1>2. IsFiniteSet(1 .. Len(arrived))
  BY <1>1, FS_Interval
<1>3. Occurrences(item) \subseteq 1 .. Len(arrived)
  BY <1>1 DEF Occurrences
<1>4. IsFiniteSet(Occurrences(item))
  BY <1>2, <1>3, FS_Subset
<1> QED BY <1>4, FS_CardinalityType

LEMMA InitOnce == Init => OnceInv
<1> SUFFICES ASSUME Init PROVE OnceInv
  OBVIOUS
<1>1. \A item : Occurrences(item) = {}
  BY DEF Init, Occurrences
<1>2. \A item : Cardinality(Occurrences(item)) = 0
  BY <1>1, FS_EmptySet
<1>3. watches = 0 /\ streamOpen = FALSE /\ stream = << >>
  BY DEF Init
<1>4. \A item : ~Undelivered(item)
  BY <1>3 DEF Undelivered
<1> QED BY <1>1, <1>2, <1>3, <1>4 DEF OnceInv

\* What the API server publishes when an event appears, recurs or expires is an
\* occurrence that no one has seen.
LEMMA PublishOnce ==
    ASSUME TypeOK, OnceInv, NEW note \in Notes, Publish(note),
           UNCHANGED <<arrived, watches, streamOpen>>,
           \A item \in Items : Known(item) => Known(item)',
           \A item \in Items : Announces(note, item) => ~Known(item) /\ Known(item)'
    PROVE  OnceInv'
<1>1. stream \in Seq(Notes) /\ arrived \in Seq(Items) /\ watches \in Nat
  BY WindowAssumption DEF TypeOK
<1>2. CASE ~streamOpen
  <2>1. stream' = stream
    BY <1>2 DEF Publish
  <2> QED BY <2>1 DEF OnceInv, Undelivered, Occurrences
<1>3. CASE streamOpen
  <2>1. /\ stream' = Append(stream, note) /\ watches > 0
        /\ DOMAIN stream' = 1 .. Len(stream) + 1 /\ DOMAIN stream = 1 .. Len(stream)
        /\ stream'[Len(stream) + 1] = note /\ Len(stream) \in Nat
        /\ \A n \in DOMAIN stream : stream'[n] = stream[n]
    BY <1>1, <1>3 DEF Publish, OnceInv
  <2>2. ASSUME NEW item \in Items
        PROVE  /\ Cardinality(Occurrences(item))' <= watches
               /\ Undelivered(item)' => Cardinality(Occurrences(item))' < watches
               /\ Undelivered(item)' \/ Occurrences(item)' # {} => Known(item)'
               /\ \A m, n \in DOMAIN stream' :
                      Announces(stream'[m], item) /\ Announces(stream'[n], item) => m = n
    <3>1. Occurrences(item)' = Occurrences(item)
      BY DEF Occurrences
    <3>2. Undelivered(item)' => Undelivered(item) \/ Announces(note, item)
      BY <2>1 DEF Undelivered
    <3>3. Announces(note, item) => Occurrences(item) = {} /\ ~Undelivered(item)
      BY DEF OnceInv
    <3>4. Announces(note, item) => Cardinality(Occurrences(item)) < watches
      BY <2>1, <3>3, FS_EmptySet
    <3>5. \A m, n \in DOMAIN stream :
              Announces(stream[m], item) /\ Announces(stream[n], item) => m = n
      BY DEF OnceInv
    <3>6. \A m, n \in DOMAIN stream' :
              Announces(stream'[m], item) /\ Announces(stream'[n], item) => m = n
      <4> SUFFICES ASSUME NEW m \in DOMAIN stream', NEW n \in DOMAIN stream',
                          Announces(stream'[m], item), Announces(stream'[n], item)
                   PROVE  m = n
        OBVIOUS
      <4>1. CASE m \in DOMAIN stream /\ n \in DOMAIN stream
        BY <2>1, <3>5, <4>1
      <4>2. CASE m \notin DOMAIN stream \/ n \notin DOMAIN stream
        <5>1. Announces(note, item)
          BY <2>1, <4>2
        <5>2. m \notin DOMAIN stream /\ n \notin DOMAIN stream
          BY <2>1, <3>3, <5>1 DEF Undelivered
        <5> QED BY <2>1, <5>2
      <4> QED BY <4>1, <4>2
    <3> QED BY <3>1, <3>2, <3>4, <3>6 DEF OnceInv
  <2> QED BY <2>1, <2>2 DEF OnceInv
<1> QED BY <1>2, <1>3

LEMMA StoreOnce ==
    ASSUME TypeOK, OnceInv, NEW e \in Events, Appear(e) \/ Recur(e) \/ Expire(e)
    PROVE  OnceInv'
<1>1. \A item \in Items : item[1] \in Events /\ item[2] \in Nat
  BY WindowAssumption DEF Items
<1>2. \A f \in DOMAIN store : store[f] \in Nat
  BY WindowAssumption DEF TypeOK
<1>3. MaxVersion \in Nat \ {0}
  BY WindowAssumption
<1>4. CASE Appear(e)
  <2>1. /\ DOMAIN store' = DOMAIN store \cup {e} /\ e \notin DOMAIN store \cup expired
        /\ store'[e] = 1 /\ \A f \in DOMAIN store : store'[f] = store[f]
        /\ expired' = expired
    BY <1>4 DEF Appear
  <2>2. Note("Added", e) = [type |-> "Added", item |-> <<e, 1>>]
    BY <2>1 DEF Note
  <2>3. Note("Added", e) \in Notes
    BY <1>3, <2>2 DEF Notes, Items
  <2>4. \A item \in Items : Known(item) => Known(item)'
    BY <2>1 DEF Known
  <2>5. ASSUME NEW item \in Items, Announces(Note("Added", e), item)
        PROVE  ~Known(item) /\ Known(item)'
    <3>1. item = <<e, 1>>
      BY <2>2, <2>5 DEF Announces
    <3> QED BY <2>1, <3>1 DEF Known
  <2> QED BY <1>4, <2>3, <2>4, <2>5, PublishOnce DEF Appear
<1>5. CASE Recur(e)
  <2>1. /\ DOMAIN store' = DOMAIN store /\ e \in DOMAIN store
        /\ store'[e] = store[e] + 1 /\ \A f \in DOMAIN store : f # e => store'[f] = store[f]
        /\ expired' = expired /\ store[e] \in 1 .. MaxVersion /\ store[e] < MaxVersion
    BY <1>5 DEF Recur, TypeOK
  <2>2. Note("Modified", e) = [type |-> "Modified", item |-> <<e, store[e] + 1>>]
    BY <2>1 DEF Note
  <2>3. Note("Modified", e) \in Notes
    BY <1>3, <2>1, <2>2 DEF Notes, Items
  <2>4. \A item \in Items : Known(item) => Known(item)'
    BY <1>1, <1>2, <2>1 DEF Known
  <2>5. ASSUME NEW item \in Items, Announces(Note("Modified", e), item)
        PROVE  ~Known(item) /\ Known(item)'
    <3>1. item = <<e, store[e] + 1>>
      BY <2>2, <2>5 DEF Announces
    <3> QED BY <1>2, <2>1, <3>1 DEF Known
  <2> QED BY <1>5, <2>3, <2>4, <2>5, PublishOnce DEF Recur
<1>6. CASE Expire(e)
  <2> DEFINE note == [type |-> "Deleted", item |-> <<e, store[e]>>]
  <2>1. /\ DOMAIN store' = DOMAIN store \ {e} /\ e \in DOMAIN store
        /\ \A f \in DOMAIN store' : store'[f] = store[f]
        /\ expired' = expired \cup {e}
    BY <1>6 DEF Expire
  <2>2. note \in Notes
    BY <2>1 DEF TypeOK, Notes, Items
  <2>3. \A item \in Items : Known(item) => Known(item)'
    BY <2>1 DEF Known
  <2>4. \A item \in Items : ~Announces(note, item)
    BY DEF Announces, CountedTypes
  <2>5. Publish(note) /\ UNCHANGED <<arrived, watches, streamOpen>>
    BY <1>6 DEF Expire
  <2> HIDE DEF note
  <2> QED BY <2>2, <2>3, <2>4, <2>5, PublishOnce
<1> QED BY <1>4, <1>5, <1>6

\* A stream that only gets shorter announces nothing more.
LEMMA EndOnce ==
    ASSUME TypeOK, OnceInv, EndWatch
    PROVE  OnceInv'
<1>1. PICK n \in 0 .. Len(stream), last \in {<< >>, <<ErrorNote>>} :
        stream' = SubSeq(stream, 1, n) \o last
  BY DEF EndWatch
<1>2. stream \in Seq(Notes) /\ Len(stream) \in Nat
  BY DEF TypeOK
<1>3. /\ \A m \in 1 .. n : m \in DOMAIN stream /\ SubSeq(stream, 1, n)[m] = stream[m]
      /\ SubSeq(stream, 1, n) \in Seq(Notes) /\ Len(SubSeq(stream, 1, n)) = n
  BY <1>2, SubSeqProperties
<1>4. ErrorNote \in Notes /\ \A item : ~Announces(ErrorNote, item)
  BY DEF ErrorNote, Notes, Announces, CountedTypes
<1>5. \A m \in DOMAIN stream' : \/ m \in DOMAIN stream /\ stream'[m] = stream[m]
                                \/ stream'[m] = ErrorNote
  <2>1. CASE last = << >>
    <3>1. stream' = SubSeq(stream, 1, n)
      BY <1>1, <1>3, <2>1
    <3> QED BY <1>3, <3>1
  <2>2. CASE last = <<ErrorNote>>
    <3> DEFINE s == SubSeq(stream, 1, n)
    <3>1. stream' = Append(s, ErrorNote)
      <4>1. s \in Seq(Notes) /\ stream' = s \o <<ErrorNote>>
        BY <1>1, <1>3, <2>2
      <4> HIDE DEF s
      <4> QED BY <1>4, <4>1
    <3> QED BY <1>3, <1>4, <3>1
  <2> QED BY <2>1, <2>2
<1>6. \A item : Undelivered(item)' => Undelivered(item)
  BY <1>4, <1>5 DEF Undelivered
<1>7. /\ watches' = watches /\ streamOpen' = FALSE
      /\ store' = store /\ expired' = expired /\ arrived' = arrived
  BY DEF EndWatch, envVars
<1>8. \A item \in Items : \A l, m \in DOMAIN stream' :
          Announces(stream'[l], item) /\ Announces(stream'[m], item) => l = m
  BY <1>4, <1>5 DEF OnceInv
<1>9. \A item \in Items : Occurrences(item)' = Occurrences(item) /\ Known(item)' = Known(item)
  BY <1>7 DEF Occurrences, Known
<1> QED BY <1>6, <1>7, <1>8, <1>9 DEF OnceInv

\* A new watch may deliver everything in the store again, once.
LEMMA WatchOnce ==
    ASSUME TypeOK, OnceInv, Watch
    PROVE  OnceInv'
<1>1. PICK order \in SetToSeqs(DOMAIN store) :
        stream' = [n \in DOMAIN order |->
                      [type |-> "Added", item |-> <<order[n], store[order[n]]>>]]
  BY DEF Watch
<1>2. /\ watches' = watches + 1 /\ store' = store /\ expired' = expired
      /\ arrived' = arrived /\ watches \in Nat
  BY WindowAssumption DEF Watch, envVars, TypeOK
<1>3. /\ \A n \in DOMAIN order : order[n] \in DOMAIN store
      /\ \A m, n \in DOMAIN order : order[m] = order[n] => m = n
  BY DEF SetToSeqs
<1>4. \A n \in DOMAIN stream' : \A item :
          Announces(stream'[n], item) => n \in DOMAIN order /\ item = <<order[n], store[order[n]]>>
  BY <1>1 DEF Announces
<1>5. ASSUME NEW item \in Items
      PROVE  /\ Cardinality(Occurrences(item))' < watches'
             /\ Undelivered(item)' \/ Occurrences(item)' # {} => Known(item)'
             /\ \A m, n \in DOMAIN stream' :
                    Announces(stream'[m], item) /\ Announces(stream'[n], item) => m = n
  <2>1. Occurrences(item)' = Occurrences(item) /\ (Known(item)' <=> Known(item))
    BY <1>2 DEF Occurrences, Known
  <2>2. Cardinality(Occurrences(item)) \in Nat /\ Cardinality(Occurrences(item)) <= watches
    BY OccurrencesType DEF OnceInv, TypeOK
  <2>3. Occurrences(item) # {} => Known(item)
    BY DEF OnceInv
  <2>4. Undelivered(item)' => Known(item)
    <3> SUFFICES ASSUME NEW n \in DOMAIN stream', Announces(stream'[n], item)
                 PROVE  Known(item)
      BY DEF Undelivered
    <3>1. n \in DOMAIN order /\ item = <<order[n], store[order[n]]>>
      BY <1>4
    <3>2. store[order[n]] \in Nat
      BY <1>3, <3>1, WindowAssumption DEF TypeOK
    <3> QED BY <1>3, <3>1, <3>2 DEF Known
  <2>5. \A m, n \in DOMAIN stream' :
            Announces(stream'[m], item) /\ Announces(stream'[n], item) => m = n
    BY <1>3, <1>4
  <2> QED BY <1>2, <2>1, <2>2, <2>3, <2>4, <2>5
<1>6. \A item \in Items : Cardinality(Occurrences(item))' \in Nat
  BY <1>2, OccurrencesType DEF TypeOK, Occurrences
<1> QED BY <1>2, <1>5, <1>6 DEF OnceInv

\* A notification that is processed is an occurrence of the current watch.
LEMMA AddOccurrence ==
    ASSUME arrived \in Seq(Items), NEW item \in Items, addEvent(item), NEW other
    PROVE  /\ Occurrences(other)' = Occurrences(other)
                                    \cup (IF other = item THEN {Len(arrived) + 1} ELSE {})
           /\ Cardinality(Occurrences(other))'
                  = Cardinality(Occurrences(other)) + (IF other = item THEN 1 ELSE 0)
<1>1. /\ arrived' = Append(arrived, item) /\ Len(arrived) \in Nat
      /\ DOMAIN arrived = 1 .. Len(arrived) /\ DOMAIN arrived' = 1 .. Len(arrived) + 1
      /\ arrived'[Len(arrived) + 1] = item
      /\ \A n \in DOMAIN arrived : arrived'[n] = arrived[n]
  BY DEF addEvent
<1>2. Occurrences(other)' = Occurrences(other)
                            \cup (IF other = item THEN {Len(arrived) + 1} ELSE {})
  BY <1>1 DEF Occurrences
<1>3. Len(arrived) + 1 \notin Occurrences(other)
  BY <1>1 DEF Occurrences
<1>4. IsFiniteSet(Occurrences(other)) /\ Cardinality(Occurrences(other)) \in Nat
  BY OccurrencesType
<1>5. CASE other = item
  <2>1. Occurrences(other)' = Occurrences(other) \cup {Len(arrived) + 1}
    BY <1>2, <1>5
  <2> QED BY <1>2, <1>3, <1>4, <1>5, <2>1, FS_AddElement
<1>6. CASE other # item
  <2>1. Occurrences(other)' = Occurrences(other)
    BY <1>2, <1>6
  <2> QED BY <1>2, <1>4, <1>6, <2>1
<1> QED BY <1>5, <1>6

LEMMA ProcessOnce ==
    ASSUME TypeOK, OnceInv, ProcessEvent
    PROVE  OnceInv'
<1>1. /\ stream \in Seq(Notes) /\ stream # << >> /\ stream' = Tail(stream)
      /\ arrived \in Seq(Items) /\ watches' = watches /\ streamOpen' = streamOpen
      /\ store' = store /\ expired' = expired /\ watches \in Nat
  BY WindowAssumption DEF ProcessEvent, envVars, TypeOK
<1>2. /\ Head(stream) = stream[1] /\ Head(stream) \in Notes /\ 1 \in DOMAIN stream
      /\ \A n \in DOMAIN stream' : n + 1 \in DOMAIN stream /\ stream'[n] = stream[n + 1]
                                   /\ n \in Nat \ {0}
  BY <1>1
<1>3. ASSUME NEW item \in Items
      PROVE  /\ Undelivered(item)' => Undelivered(item)
             /\ Announces(Head(stream), item) => Undelivered(item) /\ ~Undelivered(item)'
             /\ \A m, n \in DOMAIN stream' :
                    Announces(stream'[m], item) /\ Announces(stream'[n], item) => m = n
  <2>1. \A m, n \in DOMAIN stream :
            Announces(stream[m], item) /\ Announces(stream[n], item) => m = n
    BY DEF OnceInv
  <2>2. Undelivered(item)' => Undelivered(item)
    BY <1>2 DEF Undelivered
  <2>3. Announces(Head(stream), item) => Undelivered(item) /\ ~Undelivered(item)'
    <3> SUFFICES ASSUME Announces(Head(stream), item) PROVE Undelivered(item) /\ ~Undelivered(item)'
      OBVIOUS
    <3>1. Undelivered(item)
      BY <1>2 DEF Undelivered
    <3>2. ASSUME NEW n \in DOMAIN stream', Announces(stream'[n], item) PROVE FALSE
      BY <1>2, <2>1, <3>2
    <3> QED BY <3>1, <3>2 DEF Undelivered
  <2>4. \A m, n \in DOMAIN stream' :
            Announces(stream'[m], item) /\ Announces(stream'[n], item) => m = n
    <3> SUFFICES ASSUME NEW m \in DOMAIN stream', NEW n \in DOMAIN stream',
                        Announces(stream'[m], item), Announces(stream'[n], item)
                 PROVE  m = n
      OBVIOUS
    <3>1. m + 1 = n + 1 /\ m \in Nat /\ n \in Nat
      BY <1>2, <2>1
    <3> QED BY <3>1
  <2> QED BY <2>2, <2>3, <2>4
<1>4. \A item : Known(item)' <=> Known(item)
  BY <1>1 DEF Known
<1>5. CASE UNCHANGED <<events, arrived>>
  <2>1. \A item : Occurrences(item)' = Occurrences(item)
    BY <1>5 DEF Occurrences
  <2> QED BY <1>1, <1>3, <1>4, <2>1 DEF OnceInv
<1>6. CASE Head(stream).type \in CountedTypes /\ addEvent(Head(stream).item)
  <2> DEFINE item == Head(stream).item
  <2>1. item \in Items /\ Announces(Head(stream), item)
    BY <1>2, <1>6 DEF Notes, ErrorNote, CountedTypes, Announces
  <2> HIDE DEF item
  <2>2. ASSUME NEW other \in Items
        PROVE  /\ Cardinality(Occurrences(other))' <= watches
               /\ Undelivered(other)' => Cardinality(Occurrences(other))' < watches
               /\ Undelivered(other)' \/ Occurrences(other)' # {} => Known(other)
    <3>1. /\ Cardinality(Occurrences(other)) <= watches
          /\ Undelivered(other) => Cardinality(Occurrences(other)) < watches
          /\ Undelivered(other) \/ Occurrences(other) # {} => Known(other)
      BY DEF OnceInv
    <3>2. Cardinality(Occurrences(other)) \in Nat
      BY <1>1, OccurrencesType
    <3>3. /\ Occurrences(other)' = Occurrences(other)
                                   \cup (IF other = item THEN {Len(arrived) + 1} ELSE {})
          /\ Cardinality(Occurrences(other))'
                 = Cardinality(Occurrences(other)) + (IF other = item THEN 1 ELSE 0)
      BY <1>1, <1>6, <2>1, AddOccurrence DEF item
    <3>4. CASE other = item
      <4>1. Undelivered(other) /\ ~Undelivered(other)'
        BY <1>3, <2>1, <3>4
      <4> QED BY <1>1, <3>1, <3>2, <3>3, <3>4, <4>1
    <3>5. CASE other # item
      <4>1. Occurrences(other)' = Occurrences(other)
        BY <3>3, <3>5
      <4> QED BY <1>3, <3>1, <4>1
    <3> QED BY <3>4, <3>5
  <2> QED BY <1>1, <1>3, <1>4, <2>2 DEF OnceInv
<1> QED BY <1>5, <1>6 DEF ProcessEvent

LEMMA NextOnce == TypeOK /\ OnceInv /\ [Next]_vars => OnceInv'
<1> SUFFICES ASSUME TypeOK, OnceInv, [Next]_vars PROVE OnceInv'
  OBVIOUS
<1>1. ASSUME UNCHANGED <<store, expired, stream, streamOpen, watches, arrived>>
      PROVE  OnceInv'
  BY <1>1 DEF OnceInv, Undelivered, Occurrences, Known
<1>2. CASE LeaveWatch
  <2>1. \A item : ~Undelivered(item)'
    BY <1>2 DEF LeaveWatch, Undelivered
  <2>2. \A item : Occurrences(item)' = Occurrences(item) /\ (Known(item)' <=> Known(item))
    BY <1>2 DEF LeaveWatch, envVars, Occurrences, Known
  <2>3. watches' = watches /\ streamOpen' = FALSE /\ stream' = << >>
    BY <1>2 DEF LeaveWatch
  <2> QED BY <2>1, <2>2, <2>3 DEF OnceInv
<1>3. CASE CheckStop \/ WatchFails \/ WakeUp \/ CollectMetrics
  BY <1>1, <1>3 DEF CheckStop, WatchFails, WakeUp, CollectMetrics, envVars
<1>4. CASE CancelContext \/ Stop \/ UNCHANGED vars
  BY <1>1, <1>4 DEF CancelContext, Stop, vars
<1> QED BY <1>2, <1>3, <1>4, StoreOnce, EndOnce, WatchOnce, ProcessOnce
        DEF Next, Environment, watchEvents

\* Watches that end and start again repeat occurrences of events, but a single one
\* repeats none: an occurrence is counted once per watch at most, for any store
\* and any way a watch ends (k8s_events.go:99-166).
THEOREM RepeatsComeFromWatches == Spec => []OncePerWatch
<1>1. TypeOK /\ OnceInv => OncePerWatch
  <2> SUFFICES ASSUME TypeOK, OnceInv, NEW n \in DOMAIN arrived
               PROVE  Cardinality({m \in DOMAIN arrived : arrived[m] = arrived[n]}) <= watches
    BY DEF OncePerWatch
  <2>1. arrived[n] \in Items
    BY DEF TypeOK
  <2>2. Cardinality(Occurrences(arrived[n])) <= watches
    BY <2>1 DEF OnceInv
  <2> QED BY <2>2 DEF Occurrences
<1> QED BY <1>1, InitOnce, NextOnce, TypeCorrect, PTL DEF Spec

-----------------------------------------------------------------------------
\* What a collection counts.  The reasons of an event class and the classes are
\* finitely many.

LEMMA ReasonsFinite == IsFiniteSet(Reasons) /\ IsFiniteSet(Types \X Reasons)
<1> DEFINE r == [e \in Events |-> ReasonOf[e]]
<1>1. r \in Surjection(Events, Reasons)
  BY DEF Surjection, Reasons
<1>2. IsFiniteSet(Reasons)
  BY <1>1, EventsAssumption, FS_Surjection
<1>3. IsFiniteSet(Types)
  <2>1. IsFiniteSet({"Warning"})
    BY FS_Singleton
  <2>2. IsFiniteSet({"Warning"} \cup {"Normal"})
    BY <2>1, FS_AddElement
  <2>3. {"Warning"} \cup {"Normal"} = Types
    BY DEF Types
  <2> QED BY <2>2, <2>3
<1> QED BY <1>2, <1>3, FS_Product

\* The sums of the properties are the totals of the lemmas.
ClassSum(c, K) == MapThenSumSet(LAMBDA k : c[k], K)
WarningSum(c, K) == MapThenSumSet(LAMBDA reason : c[<<"Warning", reason>>], K)

LEMMA ClassSumIsTotal ==
    ASSUME NEW c, NEW K, IsFiniteSet(K), \A k \in K : c[k] \in Int
    PROVE  ClassSum(c, K) = Total(c, K)
<1> DEFINE Sums(f) == f = [t \in SUBSET K |->
                 IF t = {} THEN 0
                 ELSE c[CHOOSE x \in t : TRUE] + f[t \ {CHOOSE x \in t : TRUE}]]
           h == CHOOSE f : Sums(f)
<1>1. ClassSum(c, K) = h[K]
  BY DEF ClassSum, MapThenSumSet, MapThenFoldSet
<1>2. ASSUME NEW f PROVE Sums(f) <=> IsFold(f, c, K)
  BY DEF IsFold
<1> HIDE DEF Sums
<1>3. \E f : Sums(f)
  BY <1>2, FoldExists
<1>4. Sums(h)
  BY <1>3
<1> HIDE DEF h
<1>5. h[K] = Total(c, K)
  BY <1>2, <1>4, TotalIsFold
<1> QED BY <1>1, <1>5

LEMMA WarningSumIsTotal ==
    ASSUME NEW c, NEW K, IsFiniteSet(K), \A k \in K : c[<<"Warning", k>>] \in Int
    PROVE  WarningSum(c, K) = Total([k \in K |-> c[<<"Warning", k>>]], K)
<1> DEFINE g == [k \in K |-> c[<<"Warning", k>>]]
           Sums(f) == f = [t \in SUBSET K |->
                 IF t = {} THEN 0
                 ELSE c[<<"Warning", CHOOSE x \in t : TRUE>>] + f[t \ {CHOOSE x \in t : TRUE}]]
           h == CHOOSE f : Sums(f)
<1>1. WarningSum(c, K) = h[K]
  BY DEF WarningSum, MapThenSumSet, MapThenFoldSet
<1>2. \A x \in K : g[x] \in Int
  OBVIOUS
<1>3. ASSUME NEW f PROVE Sums(f) <=> IsFold(f, g, K)
  <2>1. \A t \in SUBSET K : t # {} =>
            c[<<"Warning", CHOOSE x \in t : TRUE>>] = g[CHOOSE x \in t : TRUE]
    OBVIOUS
  <2> HIDE DEF g
  <2> QED BY <2>1, ZenonT(30) DEF IsFold
<1> HIDE DEF Sums, g
<1>4. \E f : Sums(f)
  BY <1>2, <1>3, FoldExists
<1>5. Sums(h)
  BY <1>4
<1> HIDE DEF h
<1>6. h[K] = Total(g, K)
  BY <1>2, <1>3, <1>5, TotalIsFold
<1> QED BY <1>1, <1>6 DEF g

\* Where a batch has the events of a set.
Places(batch, these) == {n \in DOMAIN batch : batch[n][1] \in these}

LEMMA PlacesFinite ==
    ASSUME NEW batch \in Seq(Items), NEW these
    PROVE  IsFiniteSet(Places(batch, these)) /\ Count(batch, these) = Cardinality(Places(batch, these))
<1>1. Len(batch) \in Nat /\ DOMAIN batch = 1 .. Len(batch)
  OBVIOUS
<1>2. IsFiniteSet(1 .. Len(batch))
  BY <1>1, FS_Interval
<1>3. Places(batch, these) \subseteq 1 .. Len(batch)
  BY <1>1 DEF Places
<1> QED BY <1>2, <1>3, FS_Subset DEF Count, Places

ClassOf(k) == {e \in Events : <<TypeOf[e], ReasonOf[e]>> = k}

LEMMA SummaryIs ==
    ASSUME NEW batch \in Seq(Items)
    PROVE  /\ \A k \in Types \X Reasons : /\ Summary(batch).counts[k] = Count(batch, ClassOf(k))
                                          /\ Summary(batch).counts[k] \in Nat
           /\ Summary(batch).warnings = Count(batch, Warnings)
           /\ Summary(batch).oom = Count(batch, WithReason({"OOMKilling", "OOMKilled"}))
           /\ Summary(batch).evicted = Count(batch, WithReason({"Evicted"}))
           /\ Summary(batch).unscheduled = Count(batch, WithReason({"FailedScheduling"}))
           /\ Summary(batch).crashloop = Count(batch, WithReason({"BackOff"}))
  BY CountType DEF Summary, ClassOf

\* The class counts of a batch sum up to its length ...
LEMMA ClassesOfBatch ==
    ASSUME NEW batch \in Seq(Items)
    PROVE  ClassSum(Summary(batch).counts, Types \X Reasons) = Len(batch)
<1> DEFINE K == Types \X Reasons
           S == DOMAIN batch
           f == [n \in S |-> <<TypeOf[batch[n][1]], ReasonOf[batch[n][1]]>>]
           c == Summary(batch).counts
<1>1. S = 1 .. Len(batch) /\ IsFiniteSet(S) /\ Cardinality(S) = Len(batch)
  <2>1. Len(batch) \in Nat
    OBVIOUS
  <2> QED BY <2>1, FS_Interval
<1>2. \A n \in S : batch[n][1] \in Events
  BY <1>1 DEF Items
<1>3. f \in [S -> K]
  BY <1>2, EventsAssumption DEF Reasons
<1>4. \A k \in K : c[k] = Cardinality({n \in S : f[n] = k}) /\ c[k] \in Int
  <2> SUFFICES ASSUME NEW k \in K
               PROVE  c[k] = Cardinality({n \in S : f[n] = k}) /\ c[k] \in Int
    OBVIOUS
  <2>1. c[k] = Count(batch, ClassOf(k)) /\ c[k] \in Nat
    BY SummaryIs
  <2>2. Places(batch, ClassOf(k)) = {n \in S : f[n] = k}
    BY <1>2 DEF Places, ClassOf
  <2>3. Count(batch, ClassOf(k)) = Cardinality(Places(batch, ClassOf(k)))
    BY PlacesFinite
  <2> HIDE DEF c, f
  <2> QED BY <2>1, <2>2, <2>3
<1>5. IsFiniteSet(K)
  BY ReasonsFinite
<1> HIDE DEF K, S, f, c
<1>6. Total(c, K) = Cardinality(S)
  BY <1>1, <1>3, <1>4, <1>5, ClassesAddUp
<1>7. ClassSum(c, K) = Total(c, K)
  BY <1>4, <1>5, ClassSumIsTotal
<1> QED BY <1>1, <1>6, <1>7 DEF K, c

\* ... and those of its warnings to the number of its warnings.
LEMMA WarningsOfBatch ==
    ASSUME NEW batch \in Seq(Items)
    PROVE  WarningSum(Summary(batch).counts, Reasons) = Summary(batch).warnings
<1> DEFINE S == Places(batch, Warnings)
           f == [n \in S |-> ReasonOf[batch[n][1]]]
           c == Summary(batch).counts
           g == [k \in Reasons |-> c[<<"Warning", k>>]]
<1>1. IsFiniteSet(S) /\ Summary(batch).warnings = Cardinality(S)
  BY PlacesFinite, SummaryIs
<1>2. \A n \in DOMAIN batch : batch[n][1] \in Events
  BY DEF Items
<1>3. f \in [S -> Reasons]
  BY <1>2 DEF Reasons, Places
<1>4. ASSUME NEW k \in Reasons
      PROVE  /\ c[<<"Warning", k>>] \in Int
             /\ g[k] = Cardinality({n \in S : f[n] = k})
  <2> DEFINE w == <<"Warning", k>>
  <2>1. w \in Types \X Reasons
    BY DEF Types
  <2>2. c[w] = Count(batch, ClassOf(w)) /\ c[w] \in Nat
    BY <2>1, SummaryIs
  <2>3. Places(batch, ClassOf(w)) = {n \in S : f[n] = k}
    BY <1>2 DEF Places, ClassOf, Warnings
  <2>4. Count(batch, ClassOf(w)) = Cardinality(Places(batch, ClassOf(w)))
    BY PlacesFinite
  <2>5. g[k] = c[w]
    OBVIOUS
  <2>6. c[w] = Cardinality({n \in S : f[n] = k}) /\ c[w] \in Int
    <3> HIDE DEF c, f, S, w
    <3> QED BY <2>2, <2>3, <2>4
  <2> QED BY <2>5, <2>6
<1>5. IsFiniteSet(Reasons)
  BY ReasonsFinite
<1> HIDE DEF S, f, c
<1>6. WarningSum(c, Reasons) = Total(g, Reasons)
  BY <1>4, <1>5, WarningSumIsTotal
<1>7. Total(g, Reasons) = Cardinality(S)
  <2>1. \A k \in Reasons : g[k] = Cardinality({n \in S : f[n] = k})
    BY <1>4
  <2> HIDE DEF g
  <2> QED BY <1>1, <1>3, <1>5, <2>1, ClassesAddUp
<1> QED BY <1>1, <1>6, <1>7 DEF c

\* Four disjoint parts of a finite set are no more than the whole.
LEMMA FourPartsFit ==
    ASSUME NEW W, IsFiniteSet(W),
           NEW A \in SUBSET W, NEW B \in SUBSET W, NEW C \in SUBSET W, NEW D \in SUBSET W,
           A \cap B = {}, (A \cup B) \cap C = {}, (A \cup B \cup C) \cap D = {}
    PROVE  Cardinality(A) + Cardinality(B) + Cardinality(C) + Cardinality(D) <= Cardinality(W)
<1> DEFINE AB == A \cup B
           ABC == AB \cup C
           ABCD == ABC \cup D
<1>1. IsFiniteSet(A) /\ IsFiniteSet(B) /\ IsFiniteSet(C) /\ IsFiniteSet(D)
  BY FS_Subset
<1>2. ABCD \subseteq W /\ AB \cap C = {} /\ ABC \cap D = {}
  OBVIOUS
<1>3. IsFiniteSet(AB) /\ Cardinality(AB) = Cardinality(A) + Cardinality(B) - Cardinality({})
  BY <1>1, FS_Union
<1> HIDE DEF AB
<1>4. IsFiniteSet(ABC) /\ Cardinality(ABC) = Cardinality(AB) + Cardinality(C) - Cardinality({})
  BY <1>1, <1>2, <1>3, FS_Union
<1> HIDE DEF ABC
<1>5. IsFiniteSet(ABCD) /\ Cardinality(ABCD) = Cardinality(ABC) + Cardinality(D) - Cardinality({})
  BY <1>1, <1>2, <1>4, FS_Union
<1> HIDE DEF ABCD
<1>6. Cardinality(ABCD) <= Cardinality(W)
  BY <1>2, FS_Subset
<1>7. Cardinality({}) = 0
  BY FS_EmptySet
<1>8. /\ Cardinality(A) \in Nat /\ Cardinality(B) \in Nat /\ Cardinality(C) \in Nat
      /\ Cardinality(D) \in Nat /\ Cardinality(W) \in Nat
  BY <1>1, FS_CardinalityType
<1> QED BY <1>3, <1>4, <1>5, <1>6, <1>7, <1>8

\* The buffer holds important events only.
Important(batch) == \A n \in DOMAIN batch : isImportantEvent(batch[n][1])

\* A Normal event with one of the reasons CollectMetrics counts is not important.
LEMMA CountedReasonsAreWarnings ==
    ASSUME NEW batch \in Seq(Items), Important(batch), NEW reasons,
           reasons \cap ImportantReasons = {}
    PROVE  Places(batch, WithReason(reasons)) \subseteq Places(batch, Warnings)
<1> SUFFICES ASSUME NEW n \in DOMAIN batch, batch[n][1] \in WithReason(reasons)
             PROVE  batch[n][1] \in Warnings
  BY DEF Places
<1>1. isImportantEvent(batch[n][1])
  BY DEF Important
<1> QED BY <1>1 DEF isImportantEvent, WithReason, Warnings

LEMMA SummaryOfImportantAddsUp ==
    ASSUME NEW batch \in Seq(Items), Important(batch)
    PROVE  Summary(batch).oom + Summary(batch).evicted + Summary(batch).unscheduled
               + Summary(batch).crashloop <= Summary(batch).warnings
<1> DEFINE Oom == {"OOMKilling", "OOMKilled"}
           A == Places(batch, WithReason(Oom))
           B == Places(batch, WithReason({"Evicted"}))
           C == Places(batch, WithReason({"FailedScheduling"}))
           D == Places(batch, WithReason({"BackOff"}))
           W == Places(batch, Warnings)
<1>1. /\ Oom \cap ImportantReasons = {} /\ {"Evicted"} \cap ImportantReasons = {}
      /\ {"FailedScheduling"} \cap ImportantReasons = {}
      /\ {"BackOff"} \cap ImportantReasons = {}
  BY DEF ImportantReasons
<1>2. A \in SUBSET W /\ B \in SUBSET W /\ C \in SUBSET W /\ D \in SUBSET W
  <2> HIDE DEF Oom
  <2> QED BY <1>1, CountedReasonsAreWarnings
<1>3. A \cap B = {} /\ (A \cup B) \cap C = {} /\ (A \cup B \cup C) \cap D = {}
  BY DEF Places, WithReason
<1>4. /\ Summary(batch).oom = Cardinality(A) /\ Summary(batch).evicted = Cardinality(B)
      /\ Summary(batch).unscheduled = Cardinality(C) /\ Summary(batch).crashloop = Cardinality(D)
      /\ Summary(batch).warnings = Cardinality(W) /\ IsFiniteSet(W)
  BY SummaryIs, PlacesFinite
<1> HIDE DEF A, B, C, D, W
<1> QED BY <1>2, <1>3, <1>4, FourPartsFit

\* What SummaryAddsUp says of the last summary.
AddsUp(s) ==
    /\ s.warnings = WarningSum(s.counts, Reasons)
    /\ s.oom + s.evicted + s.unscheduled + s.crashloop <= s.warnings

LEMMA SummaryAddsUpIs == SummaryAddsUp <=> AddsUp(summary)
  BY Zenon DEF SummaryAddsUp, AddsUp, WarningSum

LEMMA KeepsImportant ==
    ASSUME events \in Seq(Items), Important(events), NEW item \in Items,
           isImportantEvent(item[1]), addEvent(item)
    PROVE  Important(events')
<1> DEFINE D == {i \in Items : isImportantEvent(i[1])}
<1>1. \A batch \in Seq(Items) : Important(batch) <=> batch \in Seq(D)
  <2> SUFFICES ASSUME NEW batch \in Seq(Items) PROVE Important(batch) <=> batch \in Seq(D)
    OBVIOUS
  <2>1. /\ Len(batch) \in Nat /\ DOMAIN batch = 1 .. Len(batch)
        /\ batch = [n \in 1 .. Len(batch) |-> batch[n]]
        /\ \A n \in 1 .. Len(batch) : batch[n] \in Items
    OBVIOUS
  <2> QED BY <2>1 DEF Important
<1>2. D \subseteq Items /\ item \in D
  OBVIOUS
<1> HIDE DEF D
<1>3. events' \in Seq(D)
  BY <1>1, <1>2, WindowAssumption, KeepNewestOfAppend DEF addEvent
<1>4. events' \in Seq(Items)
  BY <1>2, <1>3
<1> QED BY <1>1, <1>3, <1>4

\* The buffer holds important events only: with this, SummaryAddsUp is inductive.
ImportantInv == Important(events) /\ AddsUp(summary)

LEMMA InitImportant == Init => ImportantInv
<1> SUFFICES ASSUME Init PROVE ImportantInv
  OBVIOUS
<1>1. Important(<< >>)
  BY DEF Important
<1>2. AddsUp(Summary(<< >>))
  BY <1>1, NoneType, WarningsOfBatch, SummaryOfImportantAddsUp DEF AddsUp
<1> QED BY <1>1, <1>2 DEF Init, ImportantInv

LEMMA NextImportant == TypeOK /\ ImportantInv /\ [Next]_vars => ImportantInv'
<1> SUFFICES ASSUME TypeOK, ImportantInv, [Next]_vars PROVE ImportantInv'
  OBVIOUS
<1>1. ASSUME UNCHANGED <<events, summary>>
      PROVE  ImportantInv'
  BY <1>1 DEF ImportantInv, AddsUp, Important
<1>2. CASE ProcessEvent
  <2> DEFINE note == Head(stream)
  <2>1. note \in Notes /\ summary' = summary
    BY <1>2 DEF ProcessEvent, TypeOK
  <2>2. note.type \in CountedTypes => note.item \in Items
    BY <2>1 DEF Notes, ErrorNote, CountedTypes
  <2>3. \/ note.item \in Items /\ isImportantEvent(note.item[1]) /\ addEvent(note.item)
        \/ UNCHANGED events
    BY <1>2, <2>2 DEF ProcessEvent
  <2>4. Important(events')
    BY <1>1, <2>3, KeepsImportant DEF ImportantInv, TypeOK
  <2> QED BY <2>1, <2>4 DEF ImportantInv
<1>3. CASE CollectMetrics
  <2>1. events \in Seq(Items) /\ Important(events)
    BY DEF TypeOK, ImportantInv
  <2>2. AddsUp(Summary(events))
    BY <2>1, WarningsOfBatch, SummaryOfImportantAddsUp DEF AddsUp
  <2>3. Important(<< >>)
    BY DEF Important
  <2> QED BY <1>3, <2>2, <2>3 DEF CollectMetrics, ImportantInv
<1>4. CASE watchEvents /\ ~ProcessEvent
  BY <1>1, <1>4 DEF watchEvents, CheckStop, Watch, WatchFails, WakeUp, LeaveWatch
<1>5. CASE Environment \/ UNCHANGED vars
  BY <1>1, <1>5 DEF Environment, Appear, Recur, Expire, EndWatch, CancelContext, Stop, vars
<1> QED BY <1>2, <1>3, <1>4, <1>5 DEF Next

\* The numbers of a collection agree, for any events and reasons: the warnings
\* are the classes of Warning events, and OOM kills, evictions, failed
\* schedulings and back-offs are disjoint parts of them, because no Normal event
\* with such a reason is buffered (k8s_events.go:123-142, 169-297).
THEOREM CollectedCountsAddUp == Spec => []SummaryAddsUp
<1>1. ImportantInv => SummaryAddsUp
  BY SummaryAddsUpIs DEF ImportantInv
<1> QED BY <1>1, InitImportant, NextImportant, TypeCorrect, PTL DEF Spec

\* Whatever a collection takes is in exactly one of the classes it reports, for
\* any batch, events that recur included (k8s_events.go:169-209, 298).
THEOREM TakenEventsAreCounted == Spec => EveryTakenEventIsCounted
<1> DEFINE Counted == Len(taken') > Len(taken) =>
                          Len(taken') - Len(taken) = ClassSum(summary'.counts, Types \X Reasons)
<1>1. TypeOK /\ [Next]_vars => Counted
  <2> SUFFICES ASSUME TypeOK, [Next]_vars PROVE Counted
    OBVIOUS
  <2>1. ASSUME taken' = taken PROVE Counted
    BY <2>1 DEF TypeOK
  <2>2. CASE CollectMetrics
    <3>1. taken \in Seq(Items) /\ events \in Seq(Items)
      BY DEF TypeOK
    <3>2. taken' = taken \o events /\ summary' = Summary(events)
      BY <2>2 DEF CollectMetrics
    <3>3. Len(taken') = Len(taken) + Len(events) /\ Len(taken) \in Nat /\ Len(events) \in Nat
      BY <3>1, <3>2
    <3>4. ClassSum(summary'.counts, Types \X Reasons) = Len(events)
      BY <3>1, <3>2, ClassesOfBatch
    <3> QED BY <3>3, <3>4
  <2>3. CASE watchEvents
    BY <2>1, <2>3 DEF watchEvents, CheckStop, Watch, WatchFails, WakeUp, ProcessEvent, LeaveWatch
  <2>4. CASE Environment \/ UNCHANGED vars
    BY <2>1, <2>4 DEF Environment, Appear, Recur, Expire, EndWatch, CancelContext, Stop, envVars, vars
  <2> QED BY <2>2, <2>3, <2>4 DEF Next
<1>2. Counted <=> (Len(taken') > Len(taken) =>
                     Len(taken') - Len(taken) =
                         MapThenSumSet(LAMBDA k : summary'.counts[k], Types \X Reasons))
  BY Zenon DEF ClassSum
<1> QED BY <1>1, <1>2, TypeCorrect, PTL DEF Spec, EveryTakenEventIsCounted

=============================================================================
