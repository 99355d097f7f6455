------------------------- MODULE HTTPTracingProofs -------------------------
(***************************************************************************)
(* Theorems about HTTPTracing, for any requests, threads and sizes of the  *)
(* two maps.                                                               *)
(***************************************************************************)
EXTENDS HTTPTracing, PercentilesProofs, SequenceTheorems, TLAPS

Answers == Requests \cup {Other}
Events == {Kernel!EventOf(r, x) : r \in Requests, x \in Answers}

\* Everything that is or was in flight has been sent, under its own key.
InflightInv ==
    /\ app \in [Requests -> {"new", "sent", "answered", "closed"}]
    /\ submitted \in Seq(Events)
    /\ dropped \subseteq Requests
    /\ \A k \in DOMAIN inflight :
           /\ inflight[k] \in Recognised
           /\ k = Kernel!KeyOf(Descriptor[inflight[k]], Thread[inflight[k]])
           /\ app[inflight[k]] # "new"
    /\ \A n \in DOMAIN submitted : app[submitted[n].request] # "new"
    /\ \A r \in dropped : app[r] # "new"

-----------------------------------------------------------------------------
\* What the probes do.

LEMMA RequestsType == Recognised \subseteq Requests /\ Duration \in [Requests -> Nat]
                      /\ \A r \in Requests : Path[r] \in Paths
  BY RequestsAssumption DEF Paths

LEMMA EventType ==
    ASSUME NEW r \in Requests, NEW x \in Answers
    PROVE  Kernel!EventOf(r, x) \in Events /\ Kernel!EventOf(r, x).request = r
           /\ Kernel!EventOf(r, x).answer = x
  BY RequestsType DEF Kernel!EventOf, Events

LEMMA EventsType ==
    /\ None \notin Events
    /\ \A e \in Events : e.request \in Requests /\ e.path \in Paths /\ e.duration \in Nat
  BY NoneAssumption, RequestsType DEF Events, Answers, Kernel!EventOf

\* Some descriptor that is scanned is the lowest.
LEMMA LowestExists ==
    ASSUME NEW found \in SUBSET (0 .. 9), found # {}
    PROVE  Kernel!Min(found) \in found
<1>1. \E m \in found : \A fd \in found : m <= fd
  <2> SUFFICES ASSUME \A m \in found : \E fd \in found : fd < m
               PROVE  FALSE
    OBVIOUS
  <2>1. 0 \notin found
    OBVIOUS
  <2>2. 1 \notin found
    BY <2>1
  <2>3. 2 \notin found
    BY <2>1, <2>2
  <2>4. 3 \notin found
    BY <2>1, <2>2, <2>3
  <2>5. 4 \notin found
    BY <2>1, <2>2, <2>3, <2>4
  <2>6. 5 \notin found
    BY <2>1, <2>2, <2>3, <2>4, <2>5
  <2>7. 6 \notin found
    BY <2>1, <2>2, <2>3, <2>4, <2>5, <2>6
  <2>8. 7 \notin found
    BY <2>1, <2>2, <2>3, <2>4, <2>5, <2>6, <2>7
  <2>9. 8 \notin found
    BY <2>1, <2>2, <2>3, <2>4, <2>5, <2>6, <2>7, <2>8
  <2>10. 9 \notin found
    BY <2>1, <2>2, <2>3, <2>4, <2>5, <2>6, <2>7, <2>8, <2>9
  <2>11. PICK fd \in found : fd \in 0 .. 9
    OBVIOUS
  <2> QED BY <2>1, <2>2, <2>3, <2>4, <2>5, <2>6, <2>7, <2>8, <2>9, <2>10, <2>11
<1> QED BY <1>1 DEF Kernel!Min

\* The probe on recvfrom leaves everything alone, or takes one entry of the
\* thread out of the map and submits or drops its event.
NoneFound(t) == \A fd \in Kernel!Scanned : Kernel!KeyOf(fd, t) \notin DOMAIN inflight
TakesOut(key, x) ==
    /\ key \in DOMAIN inflight
    /\ inflight' = [k \in DOMAIN inflight \ {key} |-> inflight[k]]
    /\ \/ /\ submitted' = Append(submitted, Kernel!EventOf(inflight[key], x))
          /\ dropped' = dropped
       \/ /\ submitted' = submitted
          /\ dropped' = dropped \cup {inflight[key]}

LEMMA RecvEffect ==
    ASSUME NEW t, NEW x, Kernel!trace_recv_exit(t, x)
    PROVE  \/ NoneFound(t) /\ UNCHANGED <<inflight, submitted, dropped>>
           \/ \E fd \in Kernel!Scanned : TakesOut(Kernel!KeyOf(fd, t), x)
<1> DEFINE found == {fd \in Kernel!Scanned : Kernel!KeyOf(fd, t) \in DOMAIN inflight}
<1>1. CASE found = {}
  BY <1>1 DEF Kernel!trace_recv_exit, NoneFound
<1>2. CASE found # {}
  <2>1. Kernel!Min(found) \in found
    BY <1>2, LowestExists DEF Kernel!Scanned
  <2>2. TakesOut(Kernel!KeyOf(Kernel!Min(found), t), x)
    BY <1>2, <2>1 DEF Kernel!trace_recv_exit, TakesOut, Kernel!Restrict
  <2> QED BY <2>1, <2>2
<1> QED BY <1>1, <1>2

-----------------------------------------------------------------------------
\* Each request is reported once.

OnceInv == InflightInv /\ ReportedOnce

LEMMA OnceInit == Init => OnceInv
  BY DEF Init, Kernel!Init, OnceInv, InflightInv, ReportedOnce, Kernel!ReportedOnce,
         Kernel!InFlight, Kernel!Submitted

LEMMA SubmittedType ==
    ASSUME InflightInv
    PROVE  \A n \in DOMAIN submitted : submitted[n].request \in Requests
<1>1. submitted \in Seq(Events)
  BY DEF InflightInv
<1>2. \A n \in DOMAIN submitted : submitted[n] \in Events
  BY <1>1
<1>3. \A e \in Events : e.request \in Requests
  BY EventsType
<1> QED BY <1>2, <1>3

\* Sending a request that is new.
LEMMA OnceSend ==
    ASSUME OnceInv, NEW r \in Requests, Kernel!Send(r)
    PROVE  OnceInv'
<1> DEFINE key == Kernel!KeyOf(Descriptor[r], Thread[r])
<1>1. /\ app[r] = "new" /\ app' = [app EXCEPT ![r] = "sent"]
      /\ submitted' = submitted /\ dropped' = dropped
  BY DEF Kernel!Send
<1>2. \/ inflight' = inflight
      \/ /\ r \in Recognised
         /\ inflight' = [k \in DOMAIN inflight \cup {key} |-> IF k = key THEN r ELSE inflight[k]]
  BY DEF Kernel!Send, Kernel!trace_send
<1>3. \A s \in Requests : app[s] # "new" => app'[s] = app[s]
  BY <1>1 DEF OnceInv, InflightInv
<1>4. app' \in [Requests -> {"new", "sent", "answered", "closed"}]
  BY <1>1 DEF OnceInv, InflightInv
<1>5. \A k \in DOMAIN inflight' :
        /\ inflight'[k] \in Recognised
        /\ k = Kernel!KeyOf(Descriptor[inflight'[k]], Thread[inflight'[k]])
        /\ app'[inflight'[k]] # "new"
  BY <1>1, <1>2, <1>3, <1>4, RequestsType DEF OnceInv, InflightInv
<1>6. ASSUME NEW n \in DOMAIN submitted
      PROVE  submitted[n].request \in Requests
  BY SubmittedType DEF OnceInv
<1>7. InflightInv'
  BY <1>1, <1>3, <1>4, <1>5, <1>6 DEF OnceInv, InflightInv
<1>8. r \notin Kernel!Submitted \cup dropped
  BY <1>1 DEF OnceInv, InflightInv, Kernel!Submitted
<1>9. Kernel!InFlight' \subseteq Kernel!InFlight \cup {r}
  BY <1>2 DEF Kernel!InFlight
<1>10. ReportedOnce'
  BY <1>1, <1>8, <1>9 DEF OnceInv, ReportedOnce, Kernel!ReportedOnce, Kernel!Submitted
<1> QED BY <1>7, <1>10 DEF OnceInv

\* Taking an entry out.
LEMMA OnceTakesOut ==
    ASSUME OnceInv, NEW key, NEW x \in Answers, TakesOut(key, x),
           app' \in [Requests -> {"new", "sent", "answered", "closed"}],
           \A s \in Requests : app[s] # "new" => app'[s] # "new"
    PROVE  OnceInv'
<1> DEFINE r == inflight[key]
           event_ == Kernel!EventOf(r, x)
<1>1. /\ r \in Requests /\ app[r] # "new"
      /\ \A k \in DOMAIN inflight : inflight[k] = r => k = key
  BY RequestsType DEF TakesOut, OnceInv, InflightInv
<1>2. event_ \in Events /\ event_.request = r
  BY <1>1, EventType
<1>3. submitted \in Seq(Events)
  BY DEF OnceInv, InflightInv
<1>4. \A n \in DOMAIN submitted : submitted[n].request \in Requests
  BY SubmittedType DEF OnceInv
<1>5. r \notin Kernel!Submitted \cup dropped
  BY DEF TakesOut, OnceInv, ReportedOnce, Kernel!ReportedOnce, Kernel!InFlight
<1>6. /\ Kernel!InFlight' \subseteq Kernel!InFlight
      /\ r \notin Kernel!InFlight'
  BY <1>1 DEF TakesOut, Kernel!InFlight
<1>7. \A k \in DOMAIN inflight' :
        /\ inflight'[k] \in Recognised
        /\ k = Kernel!KeyOf(Descriptor[inflight'[k]], Thread[inflight'[k]])
        /\ app'[inflight'[k]] # "new"
  BY RequestsType DEF TakesOut, OnceInv, InflightInv
<1>8. CASE submitted' = Append(submitted, event_) /\ dropped' = dropped
  <2> HIDE DEF event_
  <2>1. /\ submitted' \in Seq(Events)
        /\ DOMAIN submitted' = 1 .. Len(submitted) + 1
        /\ \A n \in DOMAIN submitted' :
               \/ n \in DOMAIN submitted /\ submitted'[n] = submitted[n]
               \/ n = Len(submitted) + 1 /\ submitted'[n] = event_
    BY <1>2, <1>3, <1>8
  <2>2. InflightInv'
    <3>1. \A n \in DOMAIN submitted' : app'[submitted'[n].request] # "new"
      BY <1>1, <1>2, <1>4, <2>1 DEF OnceInv, InflightInv
    <3> QED BY <1>7, <1>8, <2>1, <3>1 DEF OnceInv, InflightInv
  <2>3. Kernel!Submitted' \subseteq Kernel!Submitted \cup {r}
    BY <1>2, <2>1 DEF Kernel!Submitted
  <2>4. \A m, n \in DOMAIN submitted' :
            m # n => submitted'[m].request # submitted'[n].request
    <3>1. \A n \in DOMAIN submitted : submitted[n].request # r
      BY <1>5 DEF Kernel!Submitted
    <3>2. \A m, n \in DOMAIN submitted :
              m # n => submitted[m].request # submitted[n].request
      BY DEF OnceInv, ReportedOnce, Kernel!ReportedOnce
    <3> HIDE DEF r
    <3> QED BY <1>2, <2>1, <3>1, <3>2
  <2>5. Kernel!InFlight' \cap (Kernel!Submitted' \cup dropped') = {}
    BY <1>6, <1>8, <2>3 DEF OnceInv, ReportedOnce, Kernel!ReportedOnce
  <2>6. ReportedOnce'
    BY <2>4, <2>5 DEF ReportedOnce, Kernel!ReportedOnce
  <2> QED BY <2>2, <2>6 DEF OnceInv
<1>9. CASE submitted' = submitted /\ dropped' = dropped \cup {r}
  <2>1. InflightInv'
    BY <1>1, <1>4, <1>7, <1>9 DEF OnceInv, InflightInv
  <2>2. ReportedOnce'
    BY <1>6, <1>9 DEF OnceInv, ReportedOnce, Kernel!ReportedOnce, Kernel!Submitted
  <2> QED BY <2>1, <2>2 DEF OnceInv
<1> QED BY <1>8, <1>9 DEF TakesOut

\* Receiving, whatever it is.
LEMMA OnceRecv ==
    ASSUME OnceInv, NEW t, NEW x \in Answers, Kernel!trace_recv_exit(t, x),
           app' \in [Requests -> {"new", "sent", "answered", "closed"}],
           \A s \in Requests : app[s] # "new" => app'[s] # "new"
    PROVE  OnceInv'
<1>1. CASE UNCHANGED <<inflight, submitted, dropped>>
  <2>1. \A n \in DOMAIN submitted : submitted[n].request \in Requests
    BY SubmittedType DEF OnceInv
  <2>2. \A k \in DOMAIN inflight : inflight[k] \in Requests
    BY RequestsType DEF OnceInv, InflightInv
  <2>3. InflightInv'
    BY <1>1, <2>1, <2>2 DEF OnceInv, InflightInv
  <2>4. ReportedOnce'
    BY <1>1 DEF OnceInv, ReportedOnce, Kernel!ReportedOnce, Kernel!InFlight, Kernel!Submitted
  <2> QED BY <2>3, <2>4 DEF OnceInv
<1> QED BY <1>1, RecvEffect, OnceTakesOut

LEMMA OnceStep == OnceInv /\ [Next]_vars => OnceInv'
<1> SUFFICES ASSUME OnceInv, [Next]_vars PROVE OnceInv'
  OBVIOUS
<1>1. ASSUME NEW r \in Requests, Kernel!RecvAnswer(r) \/ Kernel!RecvPart(r) PROVE OnceInv'
  <2>1. Kernel!trace_recv_exit(Thread[r], r) /\ r \in Answers
    BY <1>1 DEF Kernel!RecvAnswer, Kernel!RecvPart, Answers
  <2>2. app' = [app EXCEPT ![r] = "answered"] \/ app' = app
    BY <1>1 DEF Kernel!RecvAnswer, Kernel!RecvPart
  <2> QED BY <2>1, <2>2, OnceRecv DEF OnceInv, InflightInv
<1>2. ASSUME NEW t, Kernel!RecvOther(t) PROVE OnceInv'
  BY <1>2, OnceRecv DEF Kernel!RecvOther, Answers, OnceInv, InflightInv
<1>3. ASSUME NEW r \in Requests, Kernel!Abandon(r) PROVE OnceInv'
  BY <1>3, RequestsType
     DEF Kernel!Abandon, OnceInv, InflightInv, ReportedOnce, Kernel!ReportedOnce,
         Kernel!InFlight, Kernel!Submitted, Events
<1>4. CASE UNCHANGED kernelVars
  BY <1>4 DEF kernelVars, OnceInv, InflightInv, ReportedOnce, Kernel!ReportedOnce,
              Kernel!InFlight, Kernel!Submitted
<1> QED BY <1>1, <1>2, <1>3, <1>4, OnceSend
        DEF Next, Probes, Collector, Kernel!Next, vars

\* However many calls read an answer, however a thread mixes its connections and
\* whatever the collector does meanwhile, no request is reported twice: its entry
\* leaves the map with its event (http_trace.c:163-186).
THEOREM OneEventPerRequest == FairSpec => []ReportedOnce
<1>1. OnceInv => ReportedOnce
  BY DEF OnceInv
<1> QED BY <1>1, OnceInit, OnceStep, PTL DEF FairSpec

-----------------------------------------------------------------------------
\* Serial threads are traced right.

SerialRequests == Kernel!SerialRequests

\* What a serial thread has sent and not got the answer of is in flight, unless
\* the map was full, and nothing else of it is.
SentInv ==
    /\ \A k \in DOMAIN inflight :
           inflight[k] \in SerialRequests => app[inflight[k]] = "sent"
    /\ \A r, s \in Requests :
           Thread[r] \in Serial /\ Thread[r] = Thread[s] /\ app[r] = "sent" /\ app[s] = "sent"
               => r = s
    /\ \A r \in SerialRequests : app[r] = "sent" => r \in Kernel!InFlight \cup refused

SerialInv == OnceInv /\ SentInv /\ SerialIsTraced

LEMMA SerialInit == Init => SentInv /\ SerialIsTraced
<1> SUFFICES ASSUME Init PROVE SentInv /\ SerialIsTraced
  OBVIOUS
<1>1. DOMAIN inflight = {} /\ DOMAIN submitted = {} /\ \A r \in Requests : app[r] = "new"
  BY DEF Init, Kernel!Init
<1> QED BY <1>1, RequestsType DEF SentInv, SerialIsTraced, Kernel!SerialIsTraced,
        SerialRequests, Kernel!SerialRequests

LEMMA EntryThread ==
    ASSUME OnceInv, NEW fd, NEW t, Kernel!KeyOf(fd, t) \in DOMAIN inflight
    PROVE  LET r == inflight[Kernel!KeyOf(fd, t)]
           IN  r \in Recognised /\ Thread[r] = t
  BY DEF OnceInv, InflightInv, Kernel!KeyOf

\* What a taken-out entry adds to the history.
LEMMA TakesOutHistory ==
    ASSUME OnceInv, NEW key, NEW x \in Answers, TakesOut(key, x)
    PROVE  /\ \A n \in DOMAIN submitted' :
                  \/ n \in DOMAIN submitted /\ submitted'[n] = submitted[n]
                  \/ submitted'[n].request = inflight[key] /\ submitted'[n].answer = x
           /\ Kernel!Submitted \cup dropped \cup {inflight[key]}
                  \subseteq Kernel!Submitted' \cup dropped'
           /\ Kernel!InFlight \ {inflight[key]} \subseteq Kernel!InFlight'
<1> DEFINE event_ == Kernel!EventOf(inflight[key], x)
<1>1. inflight[key] \in Requests
  BY RequestsType DEF TakesOut, OnceInv, InflightInv
<1>2. event_ \in Events /\ event_.request = inflight[key] /\ event_.answer = x
  BY <1>1, EventType
<1>3. submitted \in Seq(Events)
  BY DEF OnceInv, InflightInv
<1>4. Kernel!InFlight \ {inflight[key]} \subseteq Kernel!InFlight'
  BY DEF TakesOut, Kernel!InFlight
<1>5. CASE submitted' = Append(submitted, event_) /\ dropped' = dropped
  <2> HIDE DEF event_
  <2>1. /\ DOMAIN submitted' = DOMAIN submitted \cup {Len(submitted) + 1}
        /\ \A n \in DOMAIN submitted : submitted'[n] = submitted[n]
        /\ submitted'[Len(submitted) + 1] = event_
    BY <1>2, <1>3, <1>5
  <2>2. Kernel!Submitted \subseteq Kernel!Submitted' /\ inflight[key] \in Kernel!Submitted'
    BY <1>2, <2>1 DEF Kernel!Submitted
  <2>3. \A n \in DOMAIN submitted' :
            \/ n \in DOMAIN submitted /\ submitted'[n] = submitted[n]
            \/ submitted'[n].request = inflight[key] /\ submitted'[n].answer = x
    BY <1>2, <2>1
  <2> QED BY <1>4, <1>5, <2>2, <2>3
<1>6. CASE submitted' = submitted /\ dropped' = dropped \cup {inflight[key]}
  BY <1>4, <1>6 DEF Kernel!Submitted
<1> QED BY <1>5, <1>6 DEF TakesOut

LEMMA SerialSend ==
    ASSUME SerialInv, NEW r \in Requests, Kernel!Send(r)
    PROVE  SentInv' /\ SerialIsTraced'
<1> DEFINE key == Kernel!KeyOf(Descriptor[r], Thread[r])
<1>1. /\ app[r] = "new" /\ app' = [app EXCEPT ![r] = "sent"]
      /\ submitted' = submitted /\ dropped' = dropped
      /\ Thread[r] \in Serial => \A s \in Requests : Thread[s] = Thread[r] => app[s] # "sent"
  BY DEF Kernel!Send
<1>2. app' \in [Requests -> {"new", "sent", "answered", "closed"}]
      /\ \A s \in Requests : app'[s] = IF s = r THEN "sent" ELSE app[s]
  BY <1>1 DEF SerialInv, OnceInv, InflightInv
<1>3. \/ r \notin Recognised /\ inflight' = inflight /\ refused' = refused
      \/ /\ r \in Recognised
         /\ inflight' = [k \in DOMAIN inflight \cup {key} |-> IF k = key THEN r ELSE inflight[k]]
         /\ refused' = refused
      \/ r \in Recognised /\ inflight' = inflight /\ refused' = refused \cup {r}
  BY DEF Kernel!Send, Kernel!trace_send
<1>4. \A k \in DOMAIN inflight' :
          inflight'[k] \in SerialRequests => app'[inflight'[k]] = "sent"
  BY <1>2, <1>3, RequestsType DEF SerialInv, SentInv, OnceInv, InflightInv
<1>5. \A s, u \in Requests :
          Thread[s] \in Serial /\ Thread[s] = Thread[u] /\ app'[s] = "sent" /\ app'[u] = "sent"
              => s = u
  BY <1>1, <1>2 DEF SerialInv, SentInv
<1>6. ASSUME NEW s \in SerialRequests, app'[s] = "sent"
      PROVE  s \in Kernel!InFlight' \cup refused'
  <2>1. s \in Recognised /\ s \in Requests /\ Thread[s] \in Serial
    BY <1>6, RequestsType DEF SerialRequests, Kernel!SerialRequests
  <2>2. CASE s = r
    BY <1>3, <2>1, <2>2 DEF Kernel!InFlight
  <2>3. CASE s # r
    <3>1. app[s] = "sent" /\ s \in Kernel!InFlight \cup refused
      BY <1>2, <1>6, <2>1, <2>3 DEF SerialInv, SentInv
    <3>2. CASE s \in refused
      BY <1>3, <3>2
    <3>3. CASE s \in Kernel!InFlight
      <4>1. PICK k \in DOMAIN inflight : inflight[k] = s
        BY <3>3 DEF Kernel!InFlight
      <4>2. k # key
        BY <1>1, <2>1, <3>1, <4>1, EntryThread DEF SerialInv
      <4> QED BY <1>3, <4>1, <4>2 DEF Kernel!InFlight
    <3> QED BY <3>1, <3>2, <3>3
  <2> QED BY <2>2, <2>3
<1>7. SentInv'
  BY <1>4, <1>5, <1>6 DEF SentInv, SerialRequests, Kernel!SerialRequests
<1>8. SerialIsTraced'
  <2>1. \A s \in SerialRequests : app'[s] = "answered" => app[s] = "answered"
    BY <1>2, RequestsType DEF SerialRequests, Kernel!SerialRequests
  <2>2. refused \subseteq refused'
    BY <1>3
  <2> QED BY <1>1, <2>1, <2>2 DEF SerialInv, SerialIsTraced, Kernel!SerialIsTraced,
          Kernel!Submitted, SerialRequests, Kernel!SerialRequests
<1> QED BY <1>7, <1>8

\* What another thread receives does not touch what serial threads sent.
LEMMA SerialRecvOther ==
    ASSUME SerialInv, NEW t, t \notin Serial, NEW x \in Answers,
           Kernel!trace_recv_exit(t, x), refused' = refused,
           app' \in [Requests -> {"new", "sent", "answered", "closed"}],
           \A s \in Requests : Thread[s] \in Serial => app'[s] = app[s]
    PROVE  SentInv' /\ SerialIsTraced'
<1>1. \A s \in SerialRequests : s \in Requests /\ Thread[s] \in Serial /\ app'[s] = app[s]
  BY RequestsType DEF SerialRequests, Kernel!SerialRequests
<1>2. CASE UNCHANGED <<inflight, submitted, dropped>>
  BY <1>1, <1>2 DEF SerialInv, SentInv, SerialIsTraced, Kernel!SerialIsTraced,
     Kernel!InFlight, Kernel!Submitted, SerialRequests, Kernel!SerialRequests
<1>3. ASSUME NEW fd, TakesOut(Kernel!KeyOf(fd, t), x)
      PROVE  SentInv' /\ SerialIsTraced'
  <2> DEFINE e == inflight[Kernel!KeyOf(fd, t)]
  <2>1. e \notin SerialRequests
    BY <1>3, EntryThread DEF TakesOut, SerialInv, SerialRequests, Kernel!SerialRequests
  <2>2. /\ \A n \in DOMAIN submitted' :
               \/ n \in DOMAIN submitted /\ submitted'[n] = submitted[n]
               \/ submitted'[n].request = e
        /\ Kernel!Submitted \cup dropped \subseteq Kernel!Submitted' \cup dropped'
        /\ Kernel!InFlight \ {e} \subseteq Kernel!InFlight'
    BY <1>3, TakesOutHistory DEF SerialInv
  <2>3. \A k \in DOMAIN inflight' : k \in DOMAIN inflight /\ inflight'[k] = inflight[k]
    BY <1>3 DEF TakesOut
  <2> HIDE DEF e
  <2>4. SentInv'
    BY <1>1, <2>1, <2>2, <2>3 DEF SerialInv, SentInv, SerialRequests, Kernel!SerialRequests
  <2>5. SerialIsTraced'
    BY <1>1, <2>1, <2>2 DEF SerialInv, SerialIsTraced, Kernel!SerialIsTraced,
       SerialRequests, Kernel!SerialRequests
  <2> QED BY <2>4, <2>5
<1> QED BY <1>2, <1>3, RecvEffect

\* A serial thread that receives an answer has only the request it answers in
\* flight.
LEMMA SerialAnswer ==
    ASSUME \A s \in SerialRequests : Descriptor[s] \in Kernel!Scanned,
           SerialInv, NEW r \in Requests, Thread[r] \in Serial, Kernel!RecvAnswer(r)
    PROVE  SentInv' /\ SerialIsTraced'
<1>1. /\ app[r] = "sent" /\ app' = [app EXCEPT ![r] = "answered"]
      /\ Kernel!trace_recv_exit(Thread[r], r) /\ refused' = refused
      /\ r \in Answers
  BY DEF Kernel!RecvAnswer, Answers
<1>2. \A s \in Requests : app'[s] = IF s = r THEN "answered" ELSE app[s]
  BY <1>1 DEF SerialInv, OnceInv, InflightInv
<1>3. \A s \in SerialRequests : s \in Requests /\ s \in Recognised /\ Thread[s] \in Serial
  BY RequestsType DEF SerialRequests, Kernel!SerialRequests
<1>4. \A s, u \in Requests :
          Thread[s] \in Serial /\ Thread[s] = Thread[u] /\ app'[s] = "sent" /\ app'[u] = "sent"
              => s = u
  BY <1>2 DEF SerialInv, SentInv
<1>5. CASE NoneFound(Thread[r]) /\ UNCHANGED <<inflight, submitted, dropped>>
  <2>1. r \notin Kernel!InFlight \/ r \notin SerialRequests
    <3> SUFFICES ASSUME r \in SerialRequests, NEW k \in DOMAIN inflight, inflight[k] = r
                 PROVE  FALSE
      BY DEF Kernel!InFlight
    <3>1. k = Kernel!KeyOf(Descriptor[r], Thread[r])
      BY DEF SerialInv, OnceInv, InflightInv
    <3> QED BY <1>5, <3>1 DEF NoneFound
  <2>2. r \in SerialRequests => r \in refused
    BY <1>1, <2>1 DEF SerialInv, SentInv
  <2>3. \A k \in DOMAIN inflight : inflight[k] \in SerialRequests => inflight[k] # r
    BY <2>1 DEF Kernel!InFlight
  <2>4. SentInv'
    BY <1>1, <1>2, <1>3, <1>4, <1>5, <2>3
       DEF SerialInv, SentInv, Kernel!InFlight, SerialRequests, Kernel!SerialRequests
  <2>5. SerialIsTraced'
    BY <1>1, <1>2, <1>3, <1>5, <2>2 DEF SerialInv, SerialIsTraced, Kernel!SerialIsTraced,
       Kernel!Submitted, SerialRequests, Kernel!SerialRequests
  <2> QED BY <2>4, <2>5
<1>6. ASSUME NEW fd, TakesOut(Kernel!KeyOf(fd, Thread[r]), r)
      PROVE  SentInv' /\ SerialIsTraced'
  <2> DEFINE e == inflight[Kernel!KeyOf(fd, Thread[r])]
  <2>1. e \in Recognised /\ Thread[e] = Thread[r] /\ e \in SerialRequests
    BY <1>6, EntryThread DEF TakesOut, SerialInv, SerialRequests, Kernel!SerialRequests
  <2>2. app[e] = "sent"
    BY <1>6, <2>1 DEF TakesOut, SerialInv, SentInv
  <2>3. e = r
    BY <1>1, <1>3, <2>1, <2>2 DEF SerialInv, SentInv
  <2>4. /\ \A n \in DOMAIN submitted' :
               \/ n \in DOMAIN submitted /\ submitted'[n] = submitted[n]
               \/ submitted'[n].request = e /\ submitted'[n].answer = r
        /\ Kernel!Submitted \cup dropped \cup {e} \subseteq Kernel!Submitted' \cup dropped'
        /\ Kernel!InFlight \ {e} \subseteq Kernel!InFlight'
    BY <1>1, <1>6, TakesOutHistory DEF SerialInv
  <2>5. \A k \in DOMAIN inflight' :
            k \in DOMAIN inflight /\ inflight'[k] = inflight[k] /\ inflight'[k] # r
    <3>1. \A k \in DOMAIN inflight : inflight[k] = e => k = Kernel!KeyOf(fd, Thread[r])
      BY <1>6 DEF TakesOut, SerialInv, OnceInv, InflightInv
    <3> QED BY <1>6, <2>3, <3>1 DEF TakesOut
  <2> HIDE DEF e
  <2>6. SentInv'
    BY <1>1, <1>2, <1>3, <1>4, <2>3, <2>4, <2>5
       DEF SerialInv, SentInv, SerialRequests, Kernel!SerialRequests
  <2>7. SerialIsTraced'
    BY <1>1, <1>2, <1>3, <2>3, <2>4 DEF SerialInv, SerialIsTraced, Kernel!SerialIsTraced,
       SerialRequests, Kernel!SerialRequests
  <2> QED BY <2>6, <2>7
<1> QED BY <1>1, <1>5, <1>6, RecvEffect

\* A thread that has one exchange at a time, on a descriptor below 10, has every
\* recognised request it got the answer of reported, with that answer, unless one
\* of the two maps was full; nothing the other threads or the collector do
\* changes that (http_trace.c:138-139, 163-186).
THEOREM SerialThreadsAreTraced ==
    ASSUME \A r \in SerialRequests : Descriptor[r] \in Kernel!Scanned
    PROVE  FairSpec => []SerialIsTraced
<1>1. Init => SerialInv
  BY OnceInit, SerialInit DEF SerialInv
<1>2. SerialInv /\ [Next]_vars => SerialInv'
  <2> SUFFICES ASSUME SerialInv, [Next]_vars PROVE SerialInv'
    OBVIOUS
  <2>1. OnceInv'
    BY OnceStep DEF SerialInv
  <2>2. ASSUME NEW r \in Requests, Thread[r] \notin Serial,
               Kernel!RecvAnswer(r) \/ Kernel!RecvPart(r)
        PROVE  SentInv' /\ SerialIsTraced'
    <3>1. Kernel!trace_recv_exit(Thread[r], r) /\ refused' = refused /\ r \in Answers
      BY <2>2 DEF Kernel!RecvAnswer, Kernel!RecvPart, Answers
    <3>2. app' = [app EXCEPT ![r] = "answered"] \/ app' = app
      BY <2>2 DEF Kernel!RecvAnswer, Kernel!RecvPart
    <3>3. /\ app' \in [Requests -> {"new", "sent", "answered", "closed"}]
          /\ \A s \in Requests : Thread[s] \in Serial => app'[s] = app[s]
      BY <2>2, <3>2 DEF SerialInv, OnceInv, InflightInv
    <3> QED BY <2>2, <3>1, <3>3, SerialRecvOther
  <2>3. ASSUME NEW r \in Requests, Kernel!RecvAnswer(r) \/ Kernel!RecvPart(r)
        PROVE  SentInv' /\ SerialIsTraced'
    BY <2>2, <2>3, SerialAnswer DEF Kernel!RecvPart
  <2>4. ASSUME NEW t, Kernel!RecvOther(t) PROVE SentInv' /\ SerialIsTraced'
    BY <2>4, SerialRecvOther DEF Kernel!RecvOther, Answers, SerialInv, OnceInv, InflightInv
  <2>5. ASSUME NEW r \in Requests, Kernel!Abandon(r) PROVE SentInv' /\ SerialIsTraced'
    <3>1. \A s \in SerialRequests : s \in Requests /\ Thread[s] \in Serial /\ app'[s] = app[s]
      BY <2>5, RequestsType DEF SerialRequests, Kernel!SerialRequests, Kernel!Abandon,
                                SerialInv, OnceInv, InflightInv
    <3>2. \A s \in Requests : app'[s] = "sent" => app[s] = "sent"
      BY <2>5 DEF Kernel!Abandon, SerialInv, OnceInv, InflightInv
    <3> QED BY <2>5, <3>1, <3>2 DEF Kernel!Abandon, SerialInv, SentInv, SerialIsTraced,
            Kernel!SerialIsTraced, Kernel!InFlight, Kernel!Submitted, SerialRequests,
            Kernel!SerialRequests
  <2>6. ASSUME UNCHANGED kernelVars PROVE SentInv' /\ SerialIsTraced'
    BY <2>6 DEF kernelVars, SerialInv, SentInv, SerialIsTraced, Kernel!SerialIsTraced,
       Kernel!InFlight, Kernel!Submitted, SerialRequests, Kernel!SerialRequests
  <2>7. SentInv' /\ SerialIsTraced'
    BY <2>3, <2>4, <2>5, <2>6, SerialSend DEF Next, Probes, Collector, Kernel!Next, vars
  <2> QED BY <2>1, <2>7 DEF SerialInv
<1>3. SerialInv => SerialIsTraced
  BY DEF SerialInv
<1> QED BY <1>1, <1>2, <1>3, PTL DEF FairSpec

-----------------------------------------------------------------------------
\* Every event is in one place, in order.

LEMMA AppendIsConcatOfOne ==
    ASSUME NEW S, NEW s \in Seq(S), NEW e \in S
    PROVE  Append(s, e) = s \o <<e>> /\ <<e>> \in Seq(S)
<1>1. /\ Append(s, e) \in Seq(S) /\ <<e>> \in Seq(S)
      /\ Len(Append(s, e)) = Len(s) + 1 /\ Len(<<e>>) = 1
  OBVIOUS
<1>2. /\ s \o <<e>> \in Seq(S)
      /\ Len(s \o <<e>>) = Len(s) + 1
      /\ \A i \in 1 .. Len(s) + 1 : (s \o <<e>>)[i] = IF i <= Len(s) THEN s[i] ELSE e
  BY <1>1, ConcatProperties
<1>3. \A i \in 1 .. Len(s) + 1 : Append(s, e)[i] = IF i <= Len(s) THEN s[i] ELSE e
  OBVIOUS
<1> QED BY <1>1, <1>2, <1>3, SeqEqual

LEMMA HeadAndTail ==
    ASSUME NEW S, NEW s \in Seq(S), s # << >>
    PROVE  /\ s = <<Head(s)>> \o Tail(s)
           /\ Head(s) \in S /\ Tail(s) \in Seq(S) /\ <<Head(s)>> \in Seq(S)
<1>1. /\ Head(s) \in S /\ Head(s) = s[1]
      /\ Tail(s) \in Seq(S) /\ Len(Tail(s)) = Len(s) - 1
      /\ \A i \in 1 .. Len(Tail(s)) : Tail(s)[i] = s[i + 1]
      /\ <<Head(s)>> \in Seq(S) /\ Len(<<Head(s)>>) = 1
  BY HeadTailProperties
<1> DEFINE t == <<Head(s)>> \o Tail(s)
<1>2. /\ t \in Seq(S)
      /\ Len(t) = Len(s)
      /\ \A i \in 1 .. Len(s) :
             t[i] = IF i <= 1 THEN <<Head(s)>>[i] ELSE Tail(s)[i - 1]
  BY <1>1, ConcatProperties
<1>3. \A i \in 1 .. Len(s) : t[i] = s[i]
  BY <1>1, <1>2
<1> QED BY <1>1, <1>2, <1>3, SeqEqual

\* What the reader has in its hand, and everything that is submitted and not
\* reported: counted, in the hand, in the ring.
Hand == IF event = None THEN << >> ELSE <<event>>
Unreported == since \o Hand \o ring

PlaceInv ==
    /\ submitted \in Seq(Events) /\ ring \in Seq(Events) /\ since \in Seq(Events)
    /\ pc \in {"top", "read", "process", "exited"}
    /\ IF pc = "process" THEN event \in Events ELSE event = None
    /\ \E past \in Seq(Events) :
           /\ submitted = past \o Unreported
           /\ answers = {past[n].request : n \in DOMAIN past}

LEMMA UnreportedType ==
    ASSUME PlaceInv
    PROVE  Hand \in Seq(Events) /\ Unreported \in Seq(Events)
  BY ConcatProperties DEF PlaceInv, Hand, Unreported

\* The probes put an event at the end of both, or leave both alone.
LEMMA RecvPlaces ==
    ASSUME NEW t, NEW x, Kernel!trace_recv_exit(t, x)
    PROVE  \/ UNCHANGED <<ring, submitted>>
           \/ \E fd \in Kernel!Scanned :
                  LET key == Kernel!KeyOf(fd, t)
                      e == Kernel!EventOf(inflight[key], x)
                  IN  /\ key \in DOMAIN inflight /\ Len(ring) < MaxRing
                      /\ ring' = Append(ring, e) /\ submitted' = Append(submitted, e)
<1> DEFINE found == {fd \in Kernel!Scanned : Kernel!KeyOf(fd, t) \in DOMAIN inflight}
<1>1. CASE found = {}
  BY <1>1 DEF Kernel!trace_recv_exit
<1>2. CASE found # {}
  <2>1. Kernel!Min(found) \in found
    BY <1>2, LowestExists DEF Kernel!Scanned
  <2> QED BY <1>2, <2>1 DEF Kernel!trace_recv_exit
<1> QED BY <1>1, <1>2

LEMMA PlaceProbes ==
    ASSUME InflightInv, InflightInv', PlaceInv, Probes
    PROVE  PlaceInv'
<1>1. UNCHANGED <<pc, event, since, answers>>
  BY DEF Probes, userVars
<1>2. submitted' \in Seq(Events)
  BY DEF InflightInv
<1>3. CASE UNCHANGED <<ring, submitted>>
  BY <1>1, <1>3 DEF PlaceInv, Unreported, Hand
<1>4. ASSUME NEW e \in Events, ring' = Append(ring, e), submitted' = Append(submitted, e)
      PROVE  PlaceInv'
  <2>1. PICK past \in Seq(Events) :
            /\ submitted = past \o Unreported
            /\ answers = {past[n].request : n \in DOMAIN past}
    BY DEF PlaceInv
  <2>2. /\ submitted \in Seq(Events) /\ ring \in Seq(Events) /\ since \in Seq(Events)
        /\ Hand \in Seq(Events) /\ Unreported \in Seq(Events)
    BY UnreportedType DEF PlaceInv
  <2>3. /\ ring' = ring \o <<e>> /\ submitted' = submitted \o <<e>> /\ <<e>> \in Seq(Events)
        /\ ring' \in Seq(Events)
    BY <1>4, <2>2, AppendIsConcatOfOne
  <2>4. Unreported' = Unreported \o <<e>>
    <3>1. Unreported' = (since \o Hand) \o (ring \o <<e>>)
      BY <1>1, <2>3 DEF Unreported, Hand
    <3>2. since \o Hand \in Seq(Events)
      BY <2>2, ConcatProperties
    <3>3. ((since \o Hand) \o ring) \o <<e>> = (since \o Hand) \o (ring \o <<e>>)
      <4>1. PICK front \in Seq(Events) : front = since \o Hand
        BY <3>2
      <4>2. ring \in Seq(Events) /\ <<e>> \in Seq(Events)
        BY <2>2, <2>3
      <4>3. (front \o ring) \o <<e>> = front \o (ring \o <<e>>)
        BY <4>2, ConcatAssociative
      <4> QED BY <4>1, <4>3
    <3> QED BY <3>1, <3>3 DEF Unreported
  <2>5. submitted' = past \o Unreported'
    BY <2>1, <2>2, <2>3, <2>4, ConcatAssociative, SMTT(30)
  <2> QED BY <1>1, <1>2, <2>1, <2>3, <2>5 DEF PlaceInv
<1>5. ASSUME NEW t, NEW x \in Answers, Kernel!trace_recv_exit(t, x)
      PROVE  PlaceInv'
  <2>1. \A k \in DOMAIN inflight : Kernel!EventOf(inflight[k], x) \in Events
    BY RequestsType, EventType DEF InflightInv
  <2> QED BY <1>3, <1>4, <1>5, <2>1, RecvPlaces
<1>6. \A r \in Requests : r \in Answers
  BY DEF Answers
<1>7. Other \in Answers
  BY DEF Answers
<1>8. \/ UNCHANGED <<ring, submitted>>
      \/ \E t : \E x \in Answers : Kernel!trace_recv_exit(t, x)
  BY <1>6, <1>7 DEF Probes, Kernel!Next, Kernel!Send, Kernel!Abandon, Kernel!RecvAnswer,
     Kernel!RecvPart, Kernel!RecvOther
<1> QED BY <1>3, <1>5, <1>8

LEMMA PlaceTake ==
    ASSUME PlaceInv, User!Take, UNCHANGED kernelVars
    PROVE  PlaceInv'
<1>1. /\ ring # << >> /\ event' = Head(ring) /\ ring' = Tail(ring) /\ pc' = "process"
      /\ UNCHANGED <<submitted, since, answers>>
      /\ Hand = << >>
  BY DEF User!Take, kernelVars, PlaceInv, Hand
<1>2. /\ ring \in Seq(Events) /\ since \in Seq(Events)
  BY DEF PlaceInv
<1>3. /\ ring = <<event'>> \o ring' /\ event' \in Events /\ ring' \in Seq(Events)
      /\ <<event'>> \in Seq(Events)
  BY <1>1, <1>2, HeadAndTail
<1>4. Unreported' = Unreported
  <2>1. Unreported = since \o (<<event'>> \o ring')
    BY <1>1, <1>2, <1>3, ConcatEmptySeq DEF Unreported
  <2>2. Unreported' = (since \o <<event'>>) \o ring'
    BY <1>1, <1>3, EventsType DEF Unreported, Hand
  <2> QED BY <1>2, <1>3, <2>1, <2>2, ConcatAssociative
<1> QED BY <1>1, <1>3, <1>4 DEF PlaceInv

LEMMA PlaceProcess ==
    ASSUME PlaceInv, User!Process, UNCHANGED kernelVars
    PROVE  PlaceInv'
<1>1. /\ since' = Append(since, event) /\ event' = None /\ pc' = "top" /\ event \in Events
      /\ UNCHANGED <<submitted, ring, answers>>
  BY DEF User!Process, kernelVars, PlaceInv
<1>2. since \in Seq(Events)
  BY DEF PlaceInv
<1>3. since' = since \o <<event>> /\ since' \in Seq(Events)
  BY <1>1, <1>2, AppendIsConcatOfOne
<1>4. Unreported' = Unreported
  BY <1>1, <1>3, EventsType, ConcatEmptySeq DEF Unreported, Hand
<1> QED BY <1>1, <1>3, <1>4 DEF PlaceInv

LEMMA PlaceCollect ==
    ASSUME PlaceInv, User!CollectMetrics, UNCHANGED kernelVars
    PROVE  PlaceInv'
<1>1. /\ since' = << >> /\ answers' = answers \cup {since[n].request : n \in DOMAIN since}
      /\ UNCHANGED <<submitted, ring, pc, event>>
  BY DEF User!CollectMetrics, kernelVars
<1>2. PICK past \in Seq(Events) :
          /\ submitted = past \o Unreported
          /\ answers = {past[n].request : n \in DOMAIN past}
  BY DEF PlaceInv
<1>3. since \in Seq(Events) /\ ring \in Seq(Events) /\ Hand \in Seq(Events)
  BY UnreportedType DEF PlaceInv
<1> DEFINE reported == past \o since
<1>4. /\ reported \in Seq(Events)
      /\ Len(reported) = Len(past) + Len(since)
      /\ \A i \in 1 .. Len(past) + Len(since) :
             reported[i] = IF i <= Len(past) THEN past[i] ELSE since[i - Len(past)]
  BY <1>3, ConcatProperties
<1>5. submitted = reported \o Unreported'
  <2>1. Unreported' = Hand \o ring /\ Hand \o ring \in Seq(Events)
    BY <1>1, <1>3, ConcatEmptySeq, ConcatProperties DEF Unreported, Hand
  <2>2. Unreported = since \o (Hand \o ring)
    BY <1>3, ConcatAssociative DEF Unreported
  <2>3. (past \o since) \o (Hand \o ring) = past \o (since \o (Hand \o ring))
    <3> DEFINE rest == Hand \o ring
    <3>1. rest \in Seq(Events)
      BY <2>1
    <3> HIDE DEF rest
    <3>2. (past \o since) \o rest = past \o (since \o rest)
      BY <1>3, <3>1, ConcatAssociative
    <3> QED BY <3>2 DEF rest
  <2> QED BY <1>2, <2>1, <2>2, <2>3
<1>6. answers' = {reported[n].request : n \in DOMAIN reported}
  <2> HIDE DEF reported
  <2>1. /\ DOMAIN reported = 1 .. Len(past) + Len(since)
        /\ DOMAIN past = 1 .. Len(past) /\ DOMAIN since = 1 .. Len(since)
        /\ Len(past) \in Nat /\ Len(since) \in Nat
    BY <1>3, <1>4
  <2>2. \A n \in DOMAIN past : n \in DOMAIN reported /\ reported[n] = past[n]
    BY <1>4, <2>1
  <2>3. \A n \in DOMAIN since :
            /\ Len(past) + n \in DOMAIN reported
            /\ reported[Len(past) + n] = since[n]
    BY <1>4, <2>1
  <2>4. \A n \in DOMAIN reported :
            \/ n \in DOMAIN past /\ reported[n] = past[n]
            \/ n - Len(past) \in DOMAIN since /\ reported[n] = since[n - Len(past)]
    BY <1>4, <2>1
  <2> QED BY <1>1, <1>2, <2>2, <2>3, <2>4
<1>7. since' \in Seq(Events)
  BY <1>1
<1> HIDE DEF reported
<1> QED BY <1>1, <1>4, <1>5, <1>6, <1>7 DEF PlaceInv

LEMMA PlaceStep == InflightInv /\ InflightInv' /\ PlaceInv /\ [Next]_vars => PlaceInv'
<1> SUFFICES ASSUME InflightInv, InflightInv', PlaceInv, [Next]_vars PROVE PlaceInv'
  OBVIOUS
<1>1. CASE Probes
  BY <1>1, PlaceProbes
<1>2. CASE User!Next /\ UNCHANGED kernelVars
  <2>1. CASE \/ User!Top \/ User!ReadFails \/ User!SeeClosed \/ User!Signal
             \/ User!CloseReader
    BY <1>2, <2>1 DEF User!Top, User!ReadFails, User!SeeClosed, User!Signal, User!CloseReader,
       kernelVars, PlaceInv, Unreported, Hand
  <2> QED BY <1>2, <2>1, PlaceTake, PlaceProcess, PlaceCollect DEF User!Next, User!Reader
<1>3. CASE UNCHANGED vars
  BY <1>3 DEF vars, kernelVars, userVars, PlaceInv, Unreported, Hand
<1> QED BY <1>1, <1>2, <1>3 DEF Next, Collector

LEMMA PlaceInit == Init => PlaceInv
<1> SUFFICES ASSUME Init PROVE PlaceInv
  OBVIOUS
<1>1. /\ submitted = << >> /\ ring = << >> /\ since = << >> /\ pc = "top" /\ event = None
      /\ answers = {}
  BY DEF Init, Kernel!Init, User!Init
<1>2. << >> \in Seq(Events)
  OBVIOUS
<1>3. Unreported = << >>
  BY <1>1, <1>2, ConcatEmptySeq DEF Unreported, Hand
<1>4. submitted = << >> \o Unreported /\ answers = {<< >>[n].request : n \in DOMAIN << >>}
  BY <1>1, <1>2, <1>3, ConcatEmptySeq
<1> QED BY <1>1, <1>2, <1>4 DEF PlaceInv

LEMMA PlaceAccounts == PlaceInv => EventsAccounted
<1> SUFFICES ASSUME PlaceInv PROVE EventsAccounted
  OBVIOUS
<1>1. PICK past \in Seq(Events) :
          /\ submitted = past \o Unreported
          /\ answers = {past[n].request : n \in DOMAIN past}
  BY DEF PlaceInv
<1>2. /\ submitted \in Seq(Events) /\ since \in Seq(Events) /\ ring \in Seq(Events)
      /\ Hand \in Seq(Events) /\ Unreported \in Seq(Events)
  BY UnreportedType DEF PlaceInv
<1>3. SubSeq(submitted, 1, Len(submitted) - Len(Unreported)) = past
  <2> DEFINE n == Len(submitted) - Len(Unreported)
  <2>1. /\ Len(submitted) = Len(past) + Len(Unreported)
        /\ n = Len(past) /\ n \in Nat /\ n <= Len(submitted)
        /\ \A i \in 1 .. n : submitted[i] = past[i] /\ submitted[i] \in Events
    BY <1>1, <1>2, ConcatProperties
  <2>2. /\ SubSeq(submitted, 1, n) \in Seq(Events)
        /\ Len(SubSeq(submitted, 1, n)) = n
        /\ \A i \in 1 .. n : SubSeq(submitted, 1, n)[i] = submitted[i]
    BY <1>2, <2>1, SubSeqProperties
  <2> QED BY <2>1, <2>2, SeqEqual
<1>4. ((past \o since) \o Hand) \o ring = past \o Unreported
  <2>1. PICK gone \in Seq(Events) : gone = since \o Hand
    BY <1>2, ConcatProperties
  <2>2. (past \o since) \o Hand = past \o gone
    BY <1>2, <2>1, ConcatAssociative, SMTT(30)
  <2>3. ring \in Seq(Events)
    BY <1>2
  <2>4. (past \o gone) \o ring = past \o (gone \o ring)
    BY <2>3, ConcatAssociative
  <2> QED BY <2>1, <2>2, <2>4 DEF Unreported
<1> QED BY <1>1, <1>3, <1>4 DEF EventsAccounted, Unreported, Hand

\* Every event the probes put into the ring is in the ring, in the reader's hand,
\* counted or reported, in one of them and in their order, whatever the
\* interleaving of probes, reader and collections and wherever a Stop finds them:
\* what is read is counted before the next read and what is counted is reported
\* before it is reset (http_trace.c:179-183, ebpf.go:149-171, 210-299).
THEOREM EventsAreAccounted == FairSpec => []EventsAccounted
<1>1. Init => OnceInv /\ PlaceInv
  BY OnceInit, PlaceInit
<1>2. OnceInv /\ PlaceInv /\ [Next]_vars => (OnceInv /\ PlaceInv)'
  BY OnceStep, PlaceStep DEF OnceInv
<1>3. OnceInv /\ PlaceInv => EventsAccounted
  BY PlaceAccounts
<1> QED BY <1>1, <1>2, <1>3, PTL DEF FairSpec

-----------------------------------------------------------------------------
\* The types, and the bounds of the ring and of the latencies.

MetricsType ==
    /\ DOMAIN pathMetrics \subseteq Paths
    /\ \A p \in DOMAIN pathMetrics :
           /\ pathMetrics[p].latencies \in Seq(Nat)
           /\ Len(pathMetrics[p].latencies) \in 1 .. MaxLatencies
RestType ==
    /\ Len(ring) <= MaxRing
    /\ refused \subseteq Requests
    /\ stop \in {"no", "signalled", "closed"}
TypeInv == OnceInv /\ PlaceInv /\ MetricsType /\ RestType

LEMMA CountedType ==
    ASSUME NEW latencies \in Seq(Nat), NEW d \in Nat
    PROVE  /\ User!KeepNewest(Append(latencies, d), MaxLatencies, KeepLatencies) \in Seq(Nat)
           /\ Len(User!KeepNewest(Append(latencies, d), MaxLatencies, KeepLatencies))
                  \in 1 .. MaxLatencies
<1>1. MaxLatencies \in Nat /\ KeepLatencies \in Nat \ {0} /\ KeepLatencies <= MaxLatencies
  BY LimitsAssumption
<1>2. /\ KeepNewest(Append(latencies, d), MaxLatencies, KeepLatencies) \in Seq(Nat)
      /\ Len(KeepNewest(Append(latencies, d), MaxLatencies, KeepLatencies)) \in 1 .. MaxLatencies
  BY <1>1, KeepNewestOfAppend
<1> QED BY <1>2 DEF KeepNewest, User!KeepNewest

LEMMA ProcessType ==
    ASSUME PlaceInv, MetricsType, User!Process
    PROVE  MetricsType'
<1> DEFINE old == IF event.path \in DOMAIN pathMetrics THEN pathMetrics[event.path]
                  ELSE User!Fresh
           new == User!Counted(old, event)
<1>1. event.path \in Paths /\ event.duration \in Nat
  BY EventsType DEF User!Process, PlaceInv
<1>2. old.latencies \in Seq(Nat)
  BY DEF MetricsType, User!Fresh
<1>3. new.latencies = User!KeepNewest(Append(old.latencies, event.duration),
                                      MaxLatencies, KeepLatencies)
  BY DEF User!Counted
<1>4. new.latencies \in Seq(Nat) /\ Len(new.latencies) \in 1 .. MaxLatencies
  BY <1>1, <1>2, <1>3, CountedType
<1>5. pathMetrics' = [q \in DOMAIN pathMetrics \cup {event.path} |->
                         IF q = event.path THEN new ELSE pathMetrics[q]]
  BY DEF User!Process
<1> HIDE DEF new
<1> QED BY <1>1, <1>4, <1>5 DEF MetricsType

LEMMA RestProbes ==
    ASSUME InflightInv, PlaceInv, RestType, Probes
    PROVE  RestType'
<1>1. ring \in Seq(Events) /\ stop' = stop
  BY DEF PlaceInv, Probes, userVars
<1>2. refused' \subseteq Requests
  BY DEF RestType, Probes, Kernel!Next, Kernel!Send, Kernel!trace_send, Kernel!Abandon,
         Kernel!RecvAnswer, Kernel!RecvPart, Kernel!RecvOther
<1>3. \/ ring' = ring
      \/ \E t : \E x \in Answers : Kernel!trace_recv_exit(t, x)
  BY DEF Answers, Probes, Kernel!Next, Kernel!Send, Kernel!Abandon, Kernel!RecvAnswer,
         Kernel!RecvPart, Kernel!RecvOther
<1>4. ASSUME NEW t, NEW x \in Answers, Kernel!trace_recv_exit(t, x)
      PROVE  Len(ring') <= MaxRing
  <2>1. CASE ring' = ring
    BY <2>1 DEF RestType
  <2>2. ASSUME NEW e \in Events, Len(ring) < MaxRing, ring' = Append(ring, e)
        PROVE  Len(ring') <= MaxRing
    BY <1>1, <2>2, LimitsAssumption
  <2>3. \A k \in DOMAIN inflight : Kernel!EventOf(inflight[k], x) \in Events
    BY RequestsType, EventType DEF InflightInv
  <2> QED BY <1>4, <2>1, <2>2, <2>3, RecvPlaces
<1> QED BY <1>1, <1>2, <1>3, <1>4 DEF RestType

LEMMA TypeInit == Init => TypeInv
  BY OnceInit, PlaceInit, LimitsAssumption
     DEF Init, Kernel!Init, User!Init, TypeInv, MetricsType, RestType

LEMMA TypeStep == TypeInv /\ [Next]_vars => TypeInv'
<1> SUFFICES ASSUME TypeInv, [Next]_vars PROVE TypeInv'
  OBVIOUS
<1>1. OnceInv' /\ PlaceInv'
  BY OnceStep, PlaceStep DEF TypeInv, OnceInv
<1>2. CASE Probes
  BY <1>1, <1>2, RestProbes DEF Probes, userVars, TypeInv, OnceInv, MetricsType
<1>3. CASE User!Next /\ UNCHANGED kernelVars
  <2>1. CASE User!Process
    BY <1>1, <1>3, <2>1, ProcessType DEF TypeInv, RestType, User!Process, kernelVars
  <2>2. CASE User!CollectMetrics
    BY <1>1, <1>3, <2>2 DEF TypeInv, MetricsType, RestType, User!CollectMetrics, kernelVars
  <2>3. CASE User!Take
    <3>1. ring \in Seq(Events) /\ ring # << >> /\ ring' = Tail(ring)
      BY <2>3 DEF TypeInv, PlaceInv, User!Take
    <3>2. Len(ring') <= MaxRing
      BY <3>1, HeadTailProperties, LimitsAssumption DEF TypeInv, RestType
    <3> QED BY <1>1, <1>3, <2>3, <3>2 DEF TypeInv, MetricsType, RestType, User!Take, kernelVars
  <2>4. CASE User!Top \/ User!ReadFails \/ User!SeeClosed \/ User!Signal \/ User!CloseReader
    BY <1>1, <1>3, <2>4 DEF TypeInv, MetricsType, RestType, User!Top, User!ReadFails,
       User!SeeClosed, User!Signal, User!CloseReader, kernelVars
  <2> QED BY <1>3, <2>1, <2>2, <2>3, <2>4 DEF User!Next, User!Reader
<1>4. CASE UNCHANGED vars
  BY <1>1, <1>4 DEF vars, kernelVars, userVars, TypeInv, MetricsType, RestType
<1> QED BY <1>2, <1>3, <1>4 DEF Next, Collector

\* The probes and the collector keep their types: what is in flight is of a
\* recognised request, the reader has an event in its hand exactly while it
\* processes one, and however many events come between two collections the
\* latencies of a path never exceed their limit (http_trace.c:94-137;
\* ebpf.go:149-207).
THEOREM TracingTypes == FairSpec => []TypeOK
<1>1. TypeInv => TypeOK
  BY EventsType DEF TypeInv, OnceInv, InflightInv, PlaceInv, MetricsType, RestType, TypeOK,
     Kernel!InFlight
<1> QED BY <1>1, TypeInit, TypeStep, PTL DEF FairSpec

-----------------------------------------------------------------------------
\* The percentiles.

\* The collector's definitions are those the theorems of PercentilesProofs are about.
LEMMA CollectorsPercentiles ==
    /\ \A s : User!calculatePercentiles(s) = calculatePercentiles(s)
    /\ \A s : User!calculateTracePercentiles(s) = calculateTracePercentiles(s)
    /\ \A ps, s : User!ArePercentiles(ps, s) = ArePercentiles(ps, s)
<1>1. \A s : User!PercentilesOf(s) = PercentilesOf(s)
  BY DEF At, User!At, PercentilesOf, User!PercentilesOf
<1>2. \A s : User!SortedSlice(s) = SortedSlice(s)
  BY DEF Cardinality, User!Cardinality, Below, User!Below, NotAbove, User!NotAbove,
         SortedSlice, User!SortedSlice, Range, User!Range
<1>3. \A s : User!ExchangeSort(s) = ExchangeSort(s)
  BY DEF ExchangeRound, User!ExchangeRound, Exchange, User!Exchange, FoldLeft, User!FoldLeft,
         MapThenFoldSet, User!MapThenFoldSet, Max, User!Max, ExchangeSort, User!ExchangeSort
<1>4. \A ps, s : User!ArePercentiles(ps, s) = ArePercentiles(ps, s)
  BY DEF ArePercentiles, User!ArePercentiles, IsPercentile, User!IsPercentile,
         Cardinality, User!Cardinality, Below, User!Below, NotAbove, User!NotAbove
<1>5. \A s : User!calculatePercentiles(s) = calculatePercentiles(s)
  BY <1>1, <1>2 DEF calculatePercentiles, User!calculatePercentiles, NoPercentiles,
     User!NoPercentiles
<1>6. \A s : User!calculateTracePercentiles(s) = calculateTracePercentiles(s)
  BY <1>1, <1>3 DEF calculateTracePercentiles, User!calculateTracePercentiles, NoPercentiles,
     User!NoPercentiles
<1> QED BY <1>4, <1>5, <1>6

\* Whatever latencies a path has gathered, the receiver's percentiles of them
\* would be the same as the tracer's, and so they are of any other slice, where
\* they are percentiles (ebpf.go:307-328, otel_receiver.go:495-522).
THEOREM CollectedPercentilesAgree == FairSpec => []PercentilesAgree
<1>1. ASSUME TypeInv PROVE PercentilesAgree
  <2>1. \A p \in DOMAIN pathMetrics : pathMetrics[p].latencies \in Seq(Int)
    BY <1>1 DEF TypeInv, MetricsType
  <2>2. \A s \in Slices : s \in Seq(Int) /\ s # << >>
    BY SlicesAssumption
  <2>3. SlicesAgree
    BY <2>2, CollectorsPercentiles, TheTwoSortsAgree, PercentilesArePercentiles DEF SlicesAgree
  <2>4. User!PercentilesAgree
    BY <2>1, CollectorsPercentiles, TheTwoSortsAgree DEF User!PercentilesAgree
  <2> QED BY <2>3, <2>4 DEF PercentilesAgree
<1> QED BY <1>1, TypeInit, TypeStep, PTL DEF FairSpec

-----------------------------------------------------------------------------
\* What is reported of a path.

Of(events, p) == User!Of(events, p)
With(found, e, p) == IF e.path = p THEN Append(found, e) ELSE found

\* The events of a path are found one after another.
LEMMA OfSteps ==
    ASSUME NEW events \in Seq(Events), NEW p, NEW n \in Nat, n = Len(events)
    PROVE  \E h : /\ h[0] = << >>
                  /\ \A k \in 1 .. n : h[k] = With(h[k - 1], events[k], p)
                  /\ \A k \in 0 .. n : h[k] \in Seq(Events)
                  /\ h[n] = Of(events, p)
<1> DEFINE Raw(f) == f = [t \in SUBSET DOMAIN events |->
                             IF t = {} THEN << >>
                             ELSE With(f[t \ {User!Max(t)}], events[User!Max(t)], p)]
           f == CHOOSE f : Raw(f)
<1>1. Of(events, p) = f[DOMAIN events]
  BY DEF Of, User!Of, User!FoldLeft, User!MapThenFoldSet, With
<1>2. DOMAIN events = 1 .. n
  OBVIOUS
<1>3. \A t \in SUBSET (1 .. n) : t # {} => User!Max(t) = Largest(t) /\ Largest(t) \in t
  BY LargestIn DEF Largest, User!Max
<1> DEFINE T == Seq(Events)
<1>4. \E e : Raw(e) /\ \A t \in SUBSET (1 .. n) : e[t] \in T
  <2> DEFINE g == [x \in T \X (1 .. n) |-> With(x[1], events[x[2]], p)]
  <2>1. g \in [T \X (1 .. n) -> T] /\ << >> \in T
    BY <1>2 DEF With
  <2> HIDE DEF g
  <2>2. PICK e : IsFoldOf(e, n, T, << >>, g)
    <3> HIDE DEF T
    <3> QED BY <2>1, FoldStepsExist
  <2>3. ASSUME NEW t \in SUBSET (1 .. n), t # {}
        PROVE  e[t] = With(e[t \ {User!Max(t)}], events[User!Max(t)], p)
    <3> DEFINE before == t \ {Largest(t)}
    <3>1. before \in SUBSET (1 .. n) /\ e[before] \in T /\ Largest(t) \in 1 .. n
      BY <1>3, <2>2, <2>3 DEF IsFoldOf
    <3>2. e[t] = g[<<e[before], Largest(t)>>]
      BY <2>2, <2>3 DEF IsFoldOf
    <3>3. before = t \ {User!Max(t)} /\ User!Max(t) = Largest(t)
      BY <1>3, <2>3
    <3> HIDE DEF T, before
    <3>4. g[<<e[before], Largest(t)>>] = With(e[before], events[Largest(t)], p)
      BY <3>1 DEF g
    <3> QED BY <3>2, <3>3, <3>4
  <2>4. /\ e = [t \in SUBSET (1 .. n) |-> e[t]]
        /\ \A t \in SUBSET (1 .. n) : e[t] \in T
        /\ \A t \in SUBSET (1 .. n) : t = {} => e[t] = << >>
    BY <2>2 DEF IsFoldOf
  <2>5. Raw(e)
    BY <1>2, <2>3, <2>4
  <2> QED BY <2>4, <2>5
<1>5. Raw(f)
  <2> HIDE DEF Raw
  <2> QED BY <1>4
<1> HIDE DEF f
<1>6. \A t \in SUBSET (1 .. n) :
          f[t] = IF t = {} THEN << >> ELSE With(f[t \ {User!Max(t)}], events[User!Max(t)], p)
  BY <1>2, <1>5
<1> DEFINE h == [k \in 0 .. n |-> f[1 .. k]]
<1>7. h[0] = << >>
  <2>1. 1 .. 0 = {} /\ {} \in SUBSET (1 .. n)
    OBVIOUS
  <2>2. f[{}] = << >>
    BY <1>6
  <2> QED BY <2>1, <2>2
<1>8. ASSUME NEW k \in 1 .. n PROVE h[k] = With(h[k - 1], events[k], p)
  <2> DEFINE t == 1 .. k
  <2>1. t \in SUBSET (1 .. n) /\ t # {} /\ Largest(t) = k /\ t \ {k} = 1 .. k - 1
    <3>1. k \in Nat \ {0} /\ t \in SUBSET (1 .. n)
      OBVIOUS
    <3> QED BY <3>1, PrefixSteps
  <2>2. User!Max(t) = k
    BY <1>3, <2>1
  <2>3. h[k] = f[t] /\ h[k - 1] = f[1 .. k - 1]
    OBVIOUS
  <2> HIDE DEF t, h
  <2> QED BY <1>6, <2>1, <2>2, <2>3
<1>9. h[n] = Of(events, p)
  BY <1>1, <1>2
<1> HIDE DEF h
<1>10. \A k \in 0 .. n : h[k] \in T
  <2> DEFINE Good == {k \in 0 .. n : h[k] \in T}
  <2>1. 0 \in Good
    <3>1. 0 \in 0 .. n /\ << >> \in T
      OBVIOUS
    <3> QED BY <1>7, <3>1
  <2>2. \A k \in 0 .. n - 1 : k \in Good => k + 1 \in Good
    <3> SUFFICES ASSUME NEW k \in 0 .. n - 1, h[k] \in T PROVE h[k + 1] \in T
      OBVIOUS
    <3>1. PICK j \in 1 .. n : j = k + 1 /\ j - 1 = k
      OBVIOUS
    <3>2. h[j] = With(h[k], events[j], p) /\ events[j] \in Events
      BY <1>2, <1>8, <3>1
    <3> QED BY <3>1, <3>2 DEF With
  <2> HIDE DEF Good
  <2>3. \A k \in 0 .. n : k \in Good
    BY <2>1, <2>2, CountingUp
  <2> QED BY <2>3 DEF Good
<1> QED BY <1>7, <1>8, <1>9, <1>10

LEMMA OfNone == \A p : Of(<< >>, p) = << >>
<1> SUFFICES ASSUME NEW p PROVE Of(<< >>, p) = << >>
  OBVIOUS
<1>1. PICK n \in Nat : n = Len(<< >>) /\ n = 0 /\ << >> \in Seq(Events)
  OBVIOUS
<1>2. PICK h : h[0] = << >> /\ h[n] = Of(<< >>, p)
  BY <1>1, OfSteps
<1> QED BY <1>1, <1>2

LEMMA OfType ==
    ASSUME NEW events \in Seq(Events), NEW p
    PROVE  Of(events, p) \in Seq(Events)
<1>1. PICK n \in Nat : n = Len(events)
  OBVIOUS
<1> QED BY <1>1, OfSteps

LEMMA OfAppend ==
    ASSUME NEW events \in Seq(Events), NEW e \in Events, NEW p
    PROVE  Of(Append(events, e), p) = With(Of(events, p), e, p)
<1> DEFINE n == Len(events)
           more == Append(events, e)
<1>1. /\ n \in Nat /\ more \in Seq(Events) /\ Len(more) = n + 1 /\ more[n + 1] = e
      /\ \A k \in 1 .. n : more[k] = events[k]
  OBVIOUS
<1> HIDE DEF more, n
<1>2. PICK h : /\ h[0] = << >>
               /\ \A k \in 1 .. n : h[k] = With(h[k - 1], events[k], p)
               /\ h[n] = Of(events, p)
  BY <1>1, OfSteps DEF n
<1>3. PICK m \in Nat : m = n + 1
  BY <1>1
<1>4. PICK g : /\ g[0] = << >>
               /\ \A k \in 1 .. m : g[k] = With(g[k - 1], more[k], p)
               /\ g[m] = Of(more, p)
  <2>1. m = Len(more) /\ more \in Seq(Events)
    BY <1>1, <1>3
  <2> QED BY <2>1, OfSteps
<1> DEFINE Good == {k \in 0 .. n : g[k] = h[k]}
<1>5. \A k \in 0 .. n - 1 : k \in Good => k + 1 \in Good
  <2> SUFFICES ASSUME NEW k \in 0 .. n - 1, g[k] = h[k] PROVE g[k + 1] = h[k + 1]
    BY <1>1
  <2>1. PICK j \in 1 .. n : j = k + 1 /\ j - 1 = k /\ j \in 1 .. m
    BY <1>1, <1>3
  <2> QED BY <1>1, <1>2, <1>4, <2>1
<1>6. 0 \in Good
  BY <1>1, <1>2, <1>4
<1> HIDE DEF Good
<1>7. \A k \in 0 .. n : k \in Good
  BY <1>1, <1>5, <1>6, CountingUp
<1>8. g[n] = h[n]
  BY <1>1, <1>7 DEF Good
<1>9. g[m] = With(g[n], more[m], p)
  <2>1. m \in 1 .. m /\ m - 1 = n
    BY <1>1, <1>3
  <2> QED BY <1>4, <2>1
<1> QED BY <1>1, <1>2, <1>3, <1>4, <1>8, <1>9 DEF more

\* The sum of the property is the total of the lemmas.
LEMMA SumIsTotal ==
    ASSUME NEW s \in Seq(Nat)
    PROVE  User!SumOf(s) = SeqTotal(s)
<1> DEFINE D == DOMAIN s
           Sums(f) == f = [t \in SUBSET D |->
                 IF t = {} THEN 0
                 ELSE s[CHOOSE x \in t : TRUE] + f[t \ {CHOOSE x \in t : TRUE}]]
           h == CHOOSE f : Sums(f)
<1>1. User!SumOf(s) = h[D]
  BY DEF User!SumOf, User!MapThenSumSet, User!MapThenFoldSet
<1>2. IsFiniteSet(D) /\ \A x \in D : s[x] \in Int
  <2>1. D = 1 .. Len(s) /\ Len(s) \in Nat
    OBVIOUS
  <2>2. IsFiniteSet(1 .. Len(s))
    BY <2>1, FS_Interval
  <2> QED BY <2>1, <2>2
<1> HIDE DEF D
<1>3. ASSUME NEW f PROVE Sums(f) <=> IsFold(f, s, D)
  BY DEF IsFold
<1> HIDE DEF Sums
<1>4. \E f : Sums(f)
  BY <1>2, <1>3, FoldExists
<1>5. Sums(h)
  BY <1>4
<1> HIDE DEF h
<1>6. h[D] = Total(s, D)
  BY <1>2, <1>3, <1>5, TotalIsFold
<1> QED BY <1>1, <1>6 DEF SeqTotal, D

\* What the metrics of a path say of the durations that came: all of them are
\* counted, the latencies are the newest of them, and only more than the limit
\* are cut.
PathReported(pm, durations) ==
    /\ pm.count = Len(durations)
    /\ pm.total = SeqTotal(durations)
    /\ EndsWith(durations, pm.latencies)
    /\ \/ Len(pm.latencies) = Len(durations)
       \/ Len(durations) > MaxLatencies /\ Len(pm.latencies) >= KeepLatencies

\* One more.
LEMMA CountedIsReported ==
    ASSUME NEW pm, pm.latencies \in Seq(Nat), NEW durations \in Seq(Nat),
           PathReported(pm, durations), NEW e, e.duration \in Nat
    PROVE  PathReported(User!Counted(pm, e), Append(durations, e.duration))
<1>1. PICK d \in Nat, buffer \in Seq(Nat) : d = e.duration /\ buffer = pm.latencies
  OBVIOUS
<1> DEFINE new == User!Counted(pm, e)
           kept == KeepNewest(buffer \o <<d>>, MaxLatencies, KeepLatencies)
           log == durations \o <<d>>
<1>2. /\ Append(durations, d) = log /\ Append(buffer, d) = buffer \o <<d>>
      /\ <<d>> \in Seq(Nat)
  <2>1. \A s \in Seq(Nat) : Append(s, d) = s \o <<d>> /\ <<d>> \in Seq(Nat)
    BY AppendIsConcat
  <2> QED BY <2>1
<1>3. new.count = pm.count + 1 /\ new.total = pm.total + d /\ new.latencies = kept
  BY <1>1, <1>2 DEF User!Counted, User!KeepNewest, KeepNewest
<1>4. /\ Len(log) = Len(durations) + 1
      /\ Len(durations) \in Nat /\ Len(buffer) \in Nat
  OBVIOUS
<1>5. SeqTotal(log) = SeqTotal(durations) + d
  <2>1. durations \in Seq(Int) /\ <<d>> \in Seq(Int)
    OBVIOUS
  <2>2. SeqTotal(<<d>>) = d
    <3>1. DOMAIN <<d>> = {1} /\ <<d>>[1] = d /\ d \in Int
      OBVIOUS
    <3>2. IsFiniteSet({1})
      BY FS_Singleton
    <3> QED BY <3>1, <3>2, TotalSingle DEF SeqTotal
  <2> QED BY <2>1, <2>2, SeqTotalConcat
<1>6. PICK max \in Nat, keep \in Nat \ {0} :
          max = MaxLatencies /\ keep = KeepLatencies /\ keep <= max
  BY LimitsAssumption
<1>7. Appends(durations, buffer, log, kept, max, keep)
  <2>1. EndsWith(durations, buffer) /\ <<d>> # << >>
    BY <1>1 DEF PathReported
  <2> QED BY <1>2, <1>6, <2>1, KeepNewestAppends
<1>8. kept \in Seq(Nat)
  BY <1>6, KeepNewestOfAppend, <1>2
<1> HIDE DEF new, kept, log
<1>9. EndsWith(log, kept)
  BY <1>7 DEF Appends
<1>10. \/ Len(kept) = Len(log)
       \/ Len(log) > MaxLatencies /\ Len(kept) >= KeepLatencies
  <2>1. Len(kept) \in Nat /\ Len(log) \in Nat
    BY <1>4, <1>8
  <2>2. Len(buffer) <= Len(durations)
    BY <1>1, <1>4 DEF PathReported, EndsWith
  <2>3. \/ Len(buffer) = Len(durations)
        \/ Len(durations) > max /\ Len(buffer) >= keep
    BY <1>1, <1>6 DEF PathReported
  <2>4. CASE Len(log) - Len(kept) = Len(durations) - Len(buffer)
    BY <1>4, <1>6, <2>1, <2>3, <2>4
  <2>5. CASE Len(log) - (Len(durations) - Len(buffer)) > max /\ Len(kept) >= keep
    BY <1>4, <1>6, <2>1, <2>2, <2>5
  <2> QED BY <1>7, <2>4, <2>5 DEF Appends
<1> QED BY <1>1, <1>2, <1>3, <1>4, <1>5, <1>9, <1>10 DEF PathReported, new

Durations(p) == User!DurationsOf(Of(since, p))
ReportInv ==
    /\ DOMAIN pathMetrics = {since[n].path : n \in DOMAIN since}
    /\ \A p \in Paths : IF p \in DOMAIN pathMetrics
                         THEN PathReported(pathMetrics[p], Durations(p))
                         ELSE Durations(p) = << >>

LEMMA DurationsType ==
    ASSUME NEW events \in Seq(Events)
    PROVE  User!DurationsOf(events) \in Seq(Nat)
<1>1. DOMAIN events = 1 .. Len(events) /\ Len(events) \in Nat
      /\ \A n \in 1 .. Len(events) : events[n] \in Events
  OBVIOUS
<1>2. \A n \in 1 .. Len(events) : events[n].duration \in Nat
  BY <1>1, EventsType
<1> QED BY <1>1, <1>2, IsASeq DEF User!DurationsOf

LEMMA DurationsAppend ==
    ASSUME NEW events \in Seq(Events), NEW e \in Events
    PROVE  User!DurationsOf(Append(events, e)) = Append(User!DurationsOf(events), e.duration)
<1> DEFINE s == User!DurationsOf(Append(events, e))
           t == Append(User!DurationsOf(events), e.duration)
<1>1. /\ User!DurationsOf(events) \in Seq(Nat) /\ s \in Seq(Nat) /\ e.duration \in Nat
  <2>1. Append(events, e) \in Seq(Events)
    OBVIOUS
  <2> QED BY <2>1, DurationsType, EventsType
<1>2. /\ Len(s) = Len(events) + 1 /\ Len(User!DurationsOf(events)) = Len(events)
      /\ \A n \in 1 .. Len(events) : s[n] = User!DurationsOf(events)[n]
      /\ s[Len(events) + 1] = e.duration
  BY DEF User!DurationsOf
<1>3. t \in Seq(Nat) /\ Len(t) = Len(s) /\ \A n \in 1 .. Len(s) : t[n] = s[n]
  BY <1>1, <1>2
<1> QED BY <1>1, <1>3, SeqEqual

LEMMA ReportProcess ==
    ASSUME PlaceInv, MetricsType, ReportInv, User!Process
    PROVE  ReportInv'
<1>0. PICK p \in Paths : p = event.path
  BY EventsType DEF User!Process, PlaceInv
<1> DEFINE old == IF p \in DOMAIN pathMetrics THEN pathMetrics[p] ELSE User!Fresh
<1>1. /\ event \in Events /\ event.duration \in Nat
      /\ since \in Seq(Events) /\ since' = Append(since, event)
  BY EventsType DEF User!Process, PlaceInv
<1>2. pathMetrics' = [q \in DOMAIN pathMetrics \cup {p} |->
                         IF q = p THEN User!Counted(old, event) ELSE pathMetrics[q]]
  BY <1>0 DEF User!Process
<1>3. DOMAIN pathMetrics' = {since'[n].path : n \in DOMAIN since'}
  <2>1. /\ DOMAIN since' = DOMAIN since \cup {Len(since) + 1}
        /\ \A n \in DOMAIN since : since'[n] = since[n]
        /\ since'[Len(since) + 1] = event
    BY <1>1
  <2>2. DOMAIN pathMetrics' = DOMAIN pathMetrics \cup {p}
    BY <1>2
  <2> QED BY <1>0, <2>1, <2>2 DEF ReportInv
<1>4. \A q \in Paths : Durations(q)' = User!DurationsOf(With(Of(since, q), event, q))
  BY <1>1, OfAppend DEF Durations, Of
<1>5. \A q \in Paths : Durations(q) \in Seq(Nat) /\ Of(since, q) \in Seq(Events)
  BY <1>1, OfType, DurationsType DEF Durations
<1>6. PathReported(old, Durations(p)) /\ old.latencies \in Seq(Nat)
  <2>1. CASE p \in DOMAIN pathMetrics
    BY <1>1, <2>1 DEF ReportInv, MetricsType
  <2>2. CASE p \notin DOMAIN pathMetrics
    <3>1. Durations(p) = << >> /\ old = User!Fresh
      BY <2>2 DEF ReportInv
    <3>2. /\ User!Fresh.count = 0 /\ User!Fresh.total = 0 /\ User!Fresh.latencies = << >>
          /\ Len(<< >>) = 0
      BY DEF User!Fresh
    <3> HIDE DEF old
    <3> QED BY <3>1, <3>2, SeqTotalEmpty DEF PathReported, EndsWith
  <2> QED BY <2>1, <2>2
<1> HIDE DEF old
<1>7. PathReported(pathMetrics'[p], Durations(p)')
  <2>1. Durations(p)' = Append(Durations(p), event.duration)
    <3>1. With(Of(since, p), event, p) = Append(Of(since, p), event)
      BY <1>0 DEF With
    <3> QED BY <1>1, <1>4, <1>5, <3>1, DurationsAppend DEF Durations
  <2> QED BY <1>1, <1>2, <1>5, <1>6, <2>1, CountedIsReported
<1>8. ASSUME NEW q \in Paths, q # p
      PROVE  /\ Durations(q)' = Durations(q)
             /\ q \in DOMAIN pathMetrics' <=> q \in DOMAIN pathMetrics
             /\ q \in DOMAIN pathMetrics => pathMetrics'[q] = pathMetrics[q]
  <2>1. With(Of(since, q), event, q) = Of(since, q)
    BY <1>0, <1>8 DEF With
  <2> QED BY <1>2, <1>4, <1>8, <2>1 DEF Durations
<1>9. p \in DOMAIN pathMetrics'
  BY <1>2
<1>10. ASSUME NEW q \in Paths
       PROVE  IF q \in DOMAIN pathMetrics' THEN PathReported(pathMetrics'[q], Durations(q)')
              ELSE Durations(q)' = << >>
  BY <1>7, <1>8, <1>9 DEF ReportInv
<1> QED BY <1>3, <1>10 DEF ReportInv, PathReported

LEMMA ReportStep == TypeInv /\ ReportInv /\ [Next]_vars => ReportInv'
<1> SUFFICES ASSUME TypeInv, ReportInv, [Next]_vars PROVE ReportInv'
  OBVIOUS
<1>1. CASE UNCHANGED <<pathMetrics, since>>
  BY <1>1 DEF ReportInv, Durations, PathReported
<1>2. CASE User!CollectMetrics
  <2>1. DOMAIN pathMetrics' = {} /\ since' = << >> /\ DOMAIN << >> = {}
    BY <1>2 DEF User!CollectMetrics
  <2>2. \A p \in Paths : Durations(p)' = << >>
    BY <2>1, OfNone DEF Durations, Of, User!DurationsOf
  <2> QED BY <2>1, <2>2 DEF ReportInv
<1>3. CASE User!Process
  BY <1>3, ReportProcess DEF TypeInv
<1>4. \/ UNCHANGED <<pathMetrics, since>> \/ User!CollectMetrics \/ User!Process
  BY DEF Next, Probes, Collector, User!Next, User!Reader, User!Top, User!Take, User!ReadFails,
     User!SeeClosed, User!Signal, User!CloseReader, vars, userVars
<1> QED BY <1>1, <1>2, <1>3, <1>4

LEMMA ReportInit == Init => ReportInv
<1> SUFFICES ASSUME Init PROVE ReportInv
  OBVIOUS
<1>1. DOMAIN pathMetrics = {} /\ since = << >> /\ DOMAIN << >> = {}
  BY DEF Init, User!Init
<1>2. \A p \in Paths : Durations(p) = << >>
  BY <1>1, OfNone DEF Durations, Of, User!DurationsOf
<1> QED BY <1>1, <1>2 DEF ReportInv

LEMMA ReportHolds ==
    ASSUME PlaceInv, MetricsType, ReportInv
    PROVE  ReportIsRight
<1>1. ASSUME NEW p \in DOMAIN pathMetrics
      PROVE  LET durations == User!DurationsOf(User!Of(since, p))
                 report == User!ReportOf(pathMetrics[p])
             IN  /\ report.count = Len(durations)
                 /\ report.total = User!SumOf(durations)
                 /\ \/ report.samples = Len(durations)
                    \/ Len(durations) > MaxLatencies /\ report.samples >= KeepLatencies
                 /\ User!ArePercentiles(report.percentiles,
                        SubSeq(durations, Len(durations) - report.samples + 1, Len(durations)))
  <2>1. PICK durations \in Seq(Nat) : durations = User!DurationsOf(User!Of(since, p))
    BY OfType, DurationsType DEF PlaceInv, Of
  <2>2. p \in Paths /\ PathReported(pathMetrics[p], durations)
    BY <1>1, <2>1 DEF MetricsType, ReportInv, Durations, Of
  <2>3. PICK latencies \in Seq(Nat) :
            latencies = pathMetrics[p].latencies /\ latencies # << >>
    BY <1>1 DEF MetricsType
  <2> DEFINE report == User!ReportOf(pathMetrics[p])
  <2>4. /\ report.count = Len(durations)
        /\ report.total = SeqTotal(durations)
        /\ report.samples = Len(latencies)
        /\ report.percentiles = calculatePercentiles(latencies)
    BY <2>2, <2>3, CollectorsPercentiles DEF PathReported, User!ReportOf
  <2>5. latencies = SubSeq(durations, Len(durations) - Len(latencies) + 1, Len(durations))
    BY <2>2, <2>3, EndsWithSubSeq DEF PathReported
  <2>6. User!ArePercentiles(calculatePercentiles(latencies), latencies)
    <3>1. latencies \in Seq(Int)
      OBVIOUS
    <3> QED BY <2>3, <3>1, PercentilesArePercentiles, CollectorsPercentiles
  <2>7. \/ Len(latencies) = Len(durations)
        \/ Len(durations) > MaxLatencies /\ Len(latencies) >= KeepLatencies
    BY <2>2, <2>3 DEF PathReported
  <2>8. User!SumOf(durations) = SeqTotal(durations)
    BY SumIsTotal
  <2> HIDE DEF report
  <2> QED BY <2>1, <2>4, <2>5, <2>6, <2>7, <2>8 DEF report
<1> QED BY <1>1 DEF ReportIsRight, User!ReportIsRight, ReportInv

\* Whatever a path is collected with is exactly what came since the collection
\* before: as many requests, all their time, and percentiles that are percentiles
\* of the newest latencies: of all of them as long as no more than the limit
\* came, and else of at least as many as a cut leaves (ebpf.go:174-207, 210-305).
THEOREM ReportsAreRight == FairSpec => []ReportIsRight
<1>1. Init => TypeInv /\ ReportInv
  BY TypeInit, ReportInit
<1>2. (TypeInv /\ ReportInv) /\ [Next]_vars => (TypeInv /\ ReportInv)'
  BY TypeStep, ReportStep
<1>3. TypeInv /\ ReportInv => ReportIsRight
  BY ReportHolds DEF TypeInv
<1> QED BY <1>1, <1>2, <1>3, PTL DEF FairSpec

=============================================================================
