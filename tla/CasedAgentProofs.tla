-------------------------- MODULE CasedAgentProofs --------------------------
(***************************************************************************)
(* The agent uses its receiver as OTelReceiver specifies: composing the    *)
(* loop with it adds no behaviour to it, so what is proved of the receiver *)
(* alone holds of the receiver inside the agent.  With that, what becomes  *)
(* of each span once the loop has taken it from the receiver's buffer.     *)
(***************************************************************************)
EXTENDS CasedAgent, DataLemmas, NodeMetricsProofs

-----------------------------------------------------------------------------
\* The refinement.

LEMMA LoopStepsReceiver ==
    Loop => Receiver!CollectMetrics \/ Receiver!CollectSpans \/ UNCHANGED receiverVars
<1>1. CollectTraces => Receiver!CollectMetrics
  BY DEF CollectTraces
<1>2. TakeSpans => Receiver!CollectSpans
  BY DEF TakeSpans
<1>3. TakeTick \/ SeeDone \/ Exit \/ CollectNode \/ SendBatch \/ ForwardSpans \/ EndRound
      => UNCHANGED receiverVars
  BY DEF TakeTick, SeeDone, Exit, CollectNode, SendBatch, ForwardSpans, EndRound
<1>4. ListPods \/ ListHangs \/ SeeCancel => UNCHANGED receiverVars
  BY DEF ListPods, ListHangs, SeeCancel, CollectOthers
<1> QED BY <1>1, <1>2, <1>3, <1>4 DEF Loop

LEMMA NextStepsReceiver == [Next]_vars => [Receiver!Next]_(Receiver!vars)
<1> SUFFICES ASSUME [Next]_vars
             PROVE  [Receiver!Next]_(Receiver!vars)
  OBVIOUS
<1>1. ASSUME NEW r \in Requests, Accept(r) PROVE Receiver!Next
  BY <1>1 DEF Accept, Receiver!Next
<1>2. ASSUME NEW r \in Requests, Serve(r) PROVE Receiver!Next
  BY <1>2 DEF Serve, Receiver!Next
<1>3. CASE Loop
  BY <1>3, LoopStepsReceiver DEF Receiver!Next, Receiver!vars, receiverVars
<1>4. CASE Tick \/ Cancel \/ LateAnswer \/ UNCHANGED vars
  BY <1>4 DEF Tick, Cancel, LateAnswer, CollectOthers, vars, Receiver!vars, receiverVars
<1> QED BY <1>1, <1>2, <1>3, <1>4 DEF Next

\* Every behaviour of the agent is, seen from the receiver, one that
\* OTelReceiver allows (main.go:345, 396: the loop touches the receiver
\* through CollectMetrics and CollectSpans only).
THEOREM AgentImplementsReceiver == Spec => Receiver!Spec
<1>1. Init => Receiver!Init
  BY DEF Init
<1> QED BY <1>1, NextStepsReceiver, PTL DEF Spec, Receiver!Spec

-----------------------------------------------------------------------------
\* The theorems about the receiver, instantiated with the agent's receiver.
\* R and Receiver are two instances of one specification, so their definitions
\* agree; that is shown action by action.

R == INSTANCE OTelReceiverProofs

LEMMA SameConstants ==
    /\ R!Parsed = Receiver!Parsed
    /\ R!Malformed = Receiver!Malformed
    /\ R!Resource = Receiver!Resource
    /\ R!SpanIds = Receiver!SpanIds
<1>1. R!Span = Receiver!Span
  BY DEF R!Span, Receiver!Span
<1>2. R!SpanIds = Receiver!SpanIds
  BY DEF R!SpanIds, Receiver!SpanIds, R!Resources, Receiver!Resources
<1> QED BY <1>1, <1>2 DEF R!Parsed, Receiver!Parsed, R!Malformed, Receiver!Malformed,
                          R!Resource, Receiver!Resource

LEMMA SameInit == Receiver!Init => R!Init
  BY DEF Receiver!Init, R!Init

LEMMA SameHandlers ==
    ASSUME NEW r \in Requests,
           Receiver!RefuseBody(r) \/ Receiver!ParseBody(r) \/ Receiver!Handle(r)
    PROVE  R!RefuseBody(r) \/ R!ParseBody(r) \/ R!Handle(r)
<1> USE DEF Receiver!Goto, R!Goto, Receiver!Answer, R!Answer,
            Receiver!IsProtobuf, R!IsProtobuf, Receiver!AtEnd, R!AtEnd,
            Receiver!Current, R!Current, Receiver!Resources, R!Resources
<1>1. Receiver!RefuseBody(r) => R!RefuseBody(r)
  BY SameConstants DEF Receiver!RefuseBody, R!RefuseBody
<1>2. Receiver!ParseBody(r) => R!ParseBody(r)
  BY SameConstants DEF Receiver!ParseBody, R!ParseBody
<1>3. Receiver!LockMetrics(r) => R!LockMetrics(r)
  BY DEF Receiver!LockMetrics, R!LockMetrics
<1>4. Receiver!OpenResource(r) => R!OpenResource(r)
  BY DEF Receiver!OpenResource, R!OpenResource, Receiver!NoMetrics, R!NoMetrics
<1>5. Receiver!CountSpan(r) => R!CountSpan(r)
  BY DEF Receiver!CountSpan, R!CountSpan, Receiver!Counted, R!Counted,
         Receiver!AsDuration, R!AsDuration, Receiver!KeepNewest, R!KeepNewest
<1>6. Receiver!CloseResource(r) => R!CloseResource(r)
  BY DEF Receiver!CloseResource, R!CloseResource
<1>7. Receiver!FinishJSON(r) => R!FinishJSON(r)
  BY DEF Receiver!FinishJSON, R!FinishJSON
<1>8. Receiver!BufferSpans(r) => R!BufferSpans(r)
  BY DEF Receiver!BufferSpans, R!BufferSpans, Receiver!KeepNewest, R!KeepNewest
<1>9. Receiver!AnswerOK(r) => R!AnswerOK(r)
  BY DEF Receiver!AnswerOK, R!AnswerOK
<1> QED BY <1>1, <1>2, <1>3, <1>4, <1>5, <1>6, <1>7, <1>8, <1>9
        DEF Receiver!Handle, R!Handle

LEMMA SameNext == [Receiver!Next]_(Receiver!vars) => [R!Next]_(R!vars)
<1> SUFFICES ASSUME [Receiver!Next]_(Receiver!vars) PROVE [R!Next]_(R!vars)
  OBVIOUS
<1>1. ASSUME NEW r \in Requests,
             Receiver!RefuseBody(r) \/ Receiver!ParseBody(r) \/ Receiver!Handle(r)
      PROVE  R!Next
  BY <1>1, SameHandlers DEF R!Next
<1>2. Receiver!CollectMetrics => R!CollectMetrics
  BY DEF Receiver!CollectMetrics, R!CollectMetrics, Receiver!Reportable, R!Reportable,
         Receiver!handlerVars, R!handlerVars
<1>3. Receiver!CollectSpans => R!CollectSpans
  BY DEF Receiver!CollectSpans, R!CollectSpans, Receiver!handlerVars, R!handlerVars
<1>4. UNCHANGED Receiver!vars => UNCHANGED R!vars
  BY DEF Receiver!vars, R!vars
<1> QED BY <1>1, <1>2, <1>3, <1>4 DEF Receiver!Next, R!Next

\* What is proved of the receiver holds of the receiver inside the agent.
LEMMA ReceiverInvariance == Spec => [](R!Inv /\ R!ForwardInv)
<1>1. Init => R!Init
  BY SameInit DEF Init
<1>2. [Next]_vars => [R!Next]_(R!vars)
  BY NextStepsReceiver, SameNext
<1>3. Spec => R!Spec
  BY <1>1, <1>2, PTL DEF Spec, R!Spec
<1>4. R!Spec => [](R!Inv /\ R!ForwardInv)
  BY R!Forwarding, ReceiverAssumption, SameConstants
<1> QED BY <1>3, <1>4, PTL

-----------------------------------------------------------------------------
\* The way of a span.  The spans log of what arrived at the receiver is in order
\* and without repetition; what has left the buffer is its beginning.

Behind == Len(arrived) - Len(spanBuffer)
HasLeft(id) == \E n \in 1 .. Behind : arrived[n] = id
Before(a, b) == \E m, n \in DOMAIN arrived : m < n /\ arrived[m] = a /\ arrived[n] = b
InOrder(s) == \A m, n \in DOMAIN s : m < n => Before(s[m], s[n])

PostedTypes ==
    /\ apiSpans \in Seq(R!SpanIds)
    /\ spans \in Seq(R!SpanIds)
    /\ spans # << >> => loop = "forward"

\* Everything that has left the receiver is in one of three places ...
Places ==
    /\ ToSet(outSpans) = ToSet(apiSpans) \cup lostSpans \cup ToSet(spans)
    /\ ToSet(apiSpans) \cap lostSpans = {}
    /\ ToSet(apiSpans) \cap ToSet(spans) = {}
    /\ lostSpans \cap ToSet(spans) = {}
    /\ \A id \in ToSet(apiSpans) \cup lostSpans \cup ToSet(spans) : HasLeft(id)

\* ... in the order of arrival, the spans to be posted after all posted ones.
Orders ==
    /\ InOrder(apiSpans)
    /\ InOrder(spans)
    /\ \A a \in ToSet(apiSpans), b \in ToSet(spans) : Before(a, b)

PostedInv == R!WaitingSpans /\ PostedTypes /\ Places /\ Orders

LEMMA ToSetConcat ==
    ASSUME NEW S, NEW s \in Seq(S), NEW t \in Seq(S)
    PROVE  ToSet(s \o t) = ToSet(s) \cup ToSet(t)
<1>1. ASSUME NEW x \in ToSet(s \o t) PROVE x \in ToSet(s) \cup ToSet(t)
  <2>1. PICK n \in 1 .. Len(s) + Len(t) : x = (s \o t)[n]
    BY <1>1 DEF ToSet
  <2>2. CASE n <= Len(s)
    BY <2>1, <2>2 DEF ToSet
  <2>3. CASE n > Len(s)
    <3>1. n - Len(s) \in 1 .. Len(t) /\ x = t[n - Len(s)]
      BY <2>1, <2>3
    <3> QED BY <3>1 DEF ToSet
  <2> QED BY <2>1, <2>2, <2>3
<1>2. ASSUME NEW x \in ToSet(s) PROVE x \in ToSet(s \o t)
  <2>1. PICK n \in 1 .. Len(s) : x = s[n]
    BY <1>2 DEF ToSet
  <2>2. n \in 1 .. Len(s \o t) /\ x = (s \o t)[n]
    BY <2>1
  <2> QED BY <2>2 DEF ToSet
<1>3. ASSUME NEW x \in ToSet(t) PROVE x \in ToSet(s \o t)
  <2>1. PICK n \in 1 .. Len(t) : x = t[n]
    BY <1>3 DEF ToSet
  <2>2. Len(s) + n \in 1 .. Len(s \o t) /\ x = (s \o t)[Len(s) + n]
    BY <2>1
  <2> QED BY <2>2 DEF ToSet
<1> QED BY <1>1, <1>2, <1>3

\* The receiver only adds to the end of what arrived, and what left stays away.
LEMMA ArrivedGrows ==
    ASSUME R!Inv, R!WaitingSpans, [R!Next]_(R!vars)
    PROVE  /\ R!WaitingSpans'
           /\ \A id : HasLeft(id) => HasLeft(id)'
           /\ \A a, b : Before(a, b) => Before(a, b)'
<1>1. R!WaitingSpans' /\ [R!Buffer!Next]_(R!Buffer!vars)
  BY R!NextWaiting, ReceiverAssumption, SameConstants DEF R!Inv
<1>2. /\ arrived \in Seq(R!SpanIds) /\ spanBuffer \in Seq(R!SpanIds)
      /\ arrived' \in Seq(R!SpanIds) /\ spanBuffer' \in Seq(R!SpanIds)
  <2>1. R!TypeOK'
    BY R!NextType, ReceiverAssumption, SameConstants
  <2> QED BY <2>1 DEF R!Inv, R!TypeOK
<1>3. /\ DOMAIN arrived \subseteq DOMAIN arrived'
      /\ \A n \in DOMAIN arrived : arrived'[n] = arrived[n]
      /\ 1 .. Behind \subseteq 1 .. Behind'
      /\ 1 .. Behind \subseteq DOMAIN arrived
  <2>1. 1 .. Behind \subseteq DOMAIN arrived
    BY <1>2 DEF Behind
  <2>2. CASE R!Buffer!Put
    <3>1. /\ Len(arrived') > Len(arrived)
          /\ SubSeq(arrived', 1, Len(arrived)) = arrived
          /\ Behind' \in Behind .. Len(arrived')
      BY <2>2 DEF R!Buffer!Put, Behind
    <3>2. \A n \in DOMAIN arrived : arrived'[n] = arrived[n]
      BY <1>2, <3>1
    <3>3. Behind \in Int /\ Behind' \in Int
      BY <1>2 DEF Behind
    <3> QED BY <1>2, <2>1, <3>1, <3>2, <3>3
  <2>3. CASE R!Buffer!Take
    BY <1>2, <2>1, <2>3 DEF R!Buffer!Take, Behind
  <2>4. CASE UNCHANGED R!Buffer!vars
    BY <1>2, <2>1, <2>4 DEF R!Buffer!vars, Behind
  <2> QED BY <1>1, <2>2, <2>3, <2>4 DEF R!Buffer!Next
<1>4. ASSUME NEW id, HasLeft(id) PROVE HasLeft(id)'
  BY <1>3, <1>4 DEF HasLeft
<1>5. ASSUME NEW a, NEW b, Before(a, b) PROVE Before(a, b)'
  <2>1. PICK m, n \in DOMAIN arrived : m < n /\ arrived[m] = a /\ arrived[n] = b
    BY <1>5 DEF Before
  <2>2. /\ m \in DOMAIN arrived' /\ n \in DOMAIN arrived'
        /\ arrived'[m] = a /\ arrived'[n] = b
    BY <1>3, <2>1
  <2> QED BY <2>1, <2>2 DEF Before
<1> QED BY <1>1, <1>4, <1>5

\* A step that posts nothing and takes nothing.
LEMMA StillPosted ==
    ASSUME R!Inv, PostedInv, [R!Next]_(R!vars),
           UNCHANGED <<outSpans, apiSpans, lostSpans, spans>>,
           loop = "forward" => loop' = "forward"
    PROVE  PostedInv'
<1>1. /\ R!WaitingSpans'
      /\ \A id : HasLeft(id) => HasLeft(id)'
      /\ \A a, b : Before(a, b) => Before(a, b)'
  BY ArrivedGrows DEF PostedInv
<1>2. PostedTypes'
  BY DEF PostedInv, PostedTypes
<1>3. Places'
  BY <1>1 DEF PostedInv, Places, ToSet
<1>4. Orders'
  BY <1>1 DEF PostedInv, Orders, InOrder, ToSet
<1> QED BY <1>1, <1>2, <1>3, <1>4 DEF PostedInv

\* The loop takes the buffer: its spans have not been seen before, and they came
\* after all that were.
LEMMA TakeSpansPosted ==
    ASSUME R!Inv, R!ForwardInv, PostedInv, TakeSpans, [R!Next]_(R!vars)
    PROVE  PostedInv'
<1> DEFINE buffer == ToSet(spanBuffer)
<1>1. /\ arrived \in Seq(R!SpanIds) /\ spanBuffer \in Seq(R!SpanIds)
      /\ outSpans \in Seq(R!SpanIds)
  BY DEF R!Inv, R!TypeOK
<1>2. /\ Len(spanBuffer) <= Len(arrived)
      /\ \A i \in DOMAIN spanBuffer : spanBuffer[i] = arrived[Behind + i]
  BY <1>1 DEF PostedInv, R!WaitingSpans, R!EndsWith, Behind
<1>3. \A m, n \in DOMAIN arrived : m # n => arrived[m] # arrived[n]
  BY DEF R!ForwardInv, R!ForwardedOnceWhole
<1>4. /\ arrived' = arrived /\ spanBuffer' = << >> /\ spans' = spanBuffer
      /\ outSpans' = outSpans \o spanBuffer
      /\ apiSpans' = apiSpans /\ lostSpans' = lostSpans
      /\ loop = "send" /\ (spanBuffer # << >> => loop' = "forward")
  BY DEF TakeSpans, Receiver!CollectSpans, historyVars
<1>5. spans = << >> /\ ToSet(spans) = {}
  BY <1>4 DEF PostedInv, PostedTypes, ToSet
<1>6. Behind \in Nat /\ Behind + Len(spanBuffer) = Len(arrived) /\ Behind' = Len(arrived)
  BY <1>1, <1>2, <1>4 DEF Behind
<1>7. ASSUME NEW a, NEW b \in buffer, HasLeft(a)
      PROVE  a # b /\ Before(a, b)
  <2>1. PICK m \in 1 .. Behind : arrived[m] = a
    BY <1>7 DEF HasLeft
  <2>2. PICK i \in DOMAIN spanBuffer : spanBuffer[i] = b
    BY <1>7 DEF ToSet
  <2>3. /\ m \in DOMAIN arrived /\ Behind + i \in DOMAIN arrived
        /\ m < Behind + i /\ arrived[Behind + i] = b
    BY <1>1, <1>2, <1>6, <2>1, <2>2
  <2> QED BY <1>3, <2>1, <2>3 DEF Before
<1>8. ASSUME NEW id \in buffer PROVE HasLeft(id)'
  <2>1. PICK i \in DOMAIN spanBuffer : spanBuffer[i] = id
    BY <1>8 DEF ToSet
  <2>2. Behind + i \in 1 .. Behind' /\ arrived'[Behind + i] = id
    BY <1>1, <1>2, <1>4, <1>6, <2>1
  <2> QED BY <2>2 DEF HasLeft
<1>9. InOrder(spanBuffer)
  <2>1. ASSUME NEW m \in DOMAIN spanBuffer, NEW n \in DOMAIN spanBuffer, m < n
        PROVE  Before(spanBuffer[m], spanBuffer[n])
    <3>1. /\ Behind + m \in DOMAIN arrived /\ Behind + n \in DOMAIN arrived
          /\ Behind + m < Behind + n
      BY <1>1, <1>6, <2>1
    <3> QED BY <1>2, <3>1 DEF Before
  <2> QED BY <2>1 DEF InOrder
<1>10. /\ R!WaitingSpans'
       /\ \A id : HasLeft(id) => HasLeft(id)'
       /\ \A a, b : Before(a, b) => Before(a, b)'
  BY ArrivedGrows DEF PostedInv
<1>11. PostedTypes'
  BY <1>1, <1>4 DEF PostedInv, PostedTypes
<1>12. Places'
  <2>1. ToSet(outSpans') = ToSet(outSpans) \cup buffer
    BY <1>1, <1>4, ToSetConcat
  <2>2. /\ ToSet(outSpans) = ToSet(apiSpans) \cup lostSpans
        /\ ToSet(apiSpans) \cap lostSpans = {}
        /\ \A id \in ToSet(apiSpans) \cup lostSpans : HasLeft(id)
    BY <1>5 DEF PostedInv, Places
  <2>3. ToSet(apiSpans) \cap buffer = {} /\ lostSpans \cap buffer = {}
    BY <1>7, <2>2
  <2>4. \A id \in ToSet(apiSpans) \cup lostSpans \cup buffer : HasLeft(id)'
    BY <1>8, <1>10, <2>2
  <2>5. ToSet(apiSpans)' = ToSet(apiSpans) /\ ToSet(spans)' = buffer
        /\ ToSet(outSpans)' = ToSet(outSpans')
    BY <1>4 DEF ToSet
  <2> HIDE DEF buffer
  <2> QED BY <1>4, <2>1, <2>2, <2>3, <2>4, <2>5 DEF Places
<1>13. Orders'
  <2>1. \A a \in ToSet(apiSpans), b \in buffer : Before(a, b)
    BY <1>7 DEF PostedInv, Places
  <2>2. InOrder(apiSpans)
    BY DEF PostedInv, Orders
  <2> QED BY <1>4, <1>9, <1>10, <2>1, <2>2 DEF Orders, InOrder, ToSet
<1> QED BY <1>10, <1>11, <1>12, <1>13 DEF PostedInv

\* The post of the spans: the API takes all of them, after those it has, or they
\* are lost together.
LEMMA ForwardSpansPosted ==
    ASSUME R!Inv, PostedInv, ForwardSpans, [R!Next]_(R!vars)
    PROVE  PostedInv'
<1>1. /\ R!WaitingSpans'
      /\ \A id : HasLeft(id) => HasLeft(id)'
      /\ \A a, b : Before(a, b) => Before(a, b)'
  BY ArrivedGrows DEF PostedInv
<1>2. spans' = << >> /\ outSpans' = outSpans
  BY DEF ForwardSpans, receiverVars
<1>3. ToSet(spans)' = {} /\ ToSet(outSpans)' = ToSet(outSpans)
  BY <1>2 DEF ToSet
<1>4. apiSpans \in Seq(R!SpanIds) /\ spans \in Seq(R!SpanIds)
  BY DEF PostedInv, PostedTypes
<1>5. CASE apiSpans' = apiSpans \o spans /\ lostSpans' = lostSpans
  <2>1. ToSet(apiSpans)' = ToSet(apiSpans) \cup ToSet(spans)
    <3>1. ToSet(apiSpans \o spans) = ToSet(apiSpans) \cup ToSet(spans)
      BY <1>4, ToSetConcat
    <3> QED BY <1>5, <3>1
  <2>2. PostedTypes'
    <3>1. apiSpans \o spans \in Seq(R!SpanIds)
      BY <1>4
    <3> QED BY <1>2, <1>5, <3>1 DEF PostedTypes
  <2>3. Places'
    BY <1>1, <1>3, <1>5, <2>1 DEF PostedInv, Places
  <2>4. ASSUME NEW m \in DOMAIN apiSpans', NEW n \in DOMAIN apiSpans', m < n
        PROVE  Before(apiSpans'[m], apiSpans'[n])
    <3>1. /\ m \in 1 .. Len(apiSpans) + Len(spans) /\ n \in 1 .. Len(apiSpans) + Len(spans)
          /\ apiSpans'[m] = (apiSpans \o spans)[m] /\ apiSpans'[n] = (apiSpans \o spans)[n]
      BY <1>4, <1>5, <2>4
    <3>2. CASE n <= Len(apiSpans)
      <4>1. /\ m \in DOMAIN apiSpans /\ n \in DOMAIN apiSpans
            /\ apiSpans'[m] = apiSpans[m] /\ apiSpans'[n] = apiSpans[n]
        BY <1>4, <2>4, <3>1, <3>2
      <4> QED BY <2>4, <4>1 DEF PostedInv, Orders, InOrder
    <3>3. CASE m > Len(apiSpans)
      <4> DEFINE i == m - Len(apiSpans)
                 j == n - Len(apiSpans)
      <4>1. /\ i \in DOMAIN spans /\ j \in DOMAIN spans /\ i < j
            /\ apiSpans'[m] = spans[i] /\ apiSpans'[n] = spans[j]
        BY <1>4, <2>4, <3>1, <3>3
      <4> QED BY <4>1 DEF PostedInv, Orders, InOrder
    <3>4. CASE m <= Len(apiSpans) /\ n > Len(apiSpans)
      <4> DEFINE j == n - Len(apiSpans)
      <4>1. /\ m \in DOMAIN apiSpans /\ j \in DOMAIN spans
            /\ apiSpans'[m] = apiSpans[m] /\ apiSpans'[n] = spans[j]
        BY <1>4, <2>4, <3>1, <3>4
      <4>2. apiSpans[m] \in ToSet(apiSpans) /\ spans[j] \in ToSet(spans)
        BY <4>1 DEF ToSet
      <4> QED BY <4>1, <4>2 DEF PostedInv, Orders
    <3> QED BY <1>4, <3>1, <3>2, <3>3, <3>4
  <2>5. Orders'
    BY <1>1, <1>2, <1>3, <2>4 DEF Orders, InOrder
  <2> QED BY <1>1, <2>2, <2>3, <2>5 DEF PostedInv
<1>6. CASE apiSpans' = apiSpans /\ lostSpans' = lostSpans \cup ToSet(spans)
  <2>1. PostedTypes'
    BY <1>2, <1>6, <1>4 DEF PostedTypes
  <2>2. Places'
    BY <1>1, <1>3, <1>6 DEF PostedInv, Places, ToSet
  <2>3. Orders'
    BY <1>1, <1>2, <1>3, <1>6 DEF PostedInv, Orders, InOrder, ToSet
  <2> QED BY <1>1, <2>1, <2>2, <2>3 DEF PostedInv
<1> QED BY <1>5, <1>6 DEF ForwardSpans

LEMMA InitPosted == Init => PostedInv
<1> SUFFICES ASSUME Init PROVE PostedInv
  OBVIOUS
<1>1. R!WaitingSpans
  BY SameInit, R!InitWaiting, ReceiverAssumption, SameConstants DEF Init
<1>2. /\ spans = << >> /\ apiSpans = << >> /\ lostSpans = {} /\ outSpans = << >>
  BY DEF Init, Receiver!Init
<1> QED BY <1>1, <1>2 DEF PostedInv, PostedTypes, Places, Orders, InOrder, ToSet

LEMMA NextPosted ==
    R!Inv /\ R!ForwardInv /\ PostedInv /\ [Next]_vars => PostedInv'
<1> SUFFICES ASSUME R!Inv, R!ForwardInv, PostedInv, [Next]_vars PROVE PostedInv'
  OBVIOUS
<1>1. [R!Next]_(R!vars)
  BY NextStepsReceiver, SameNext
<1> DEFINE Still == /\ UNCHANGED <<outSpans, apiSpans, lostSpans, spans>>
                    /\ loop = "forward" => loop' = "forward"
<1>2. Still => PostedInv'
  BY <1>1, StillPosted
<1>3. CASE TakeSpans
  BY <1>1, <1>3, TakeSpansPosted
<1>4. CASE ForwardSpans
  BY <1>1, <1>4, ForwardSpansPosted
<1>5. CASE Tick \/ Cancel \/ TakeTick \/ SeeDone \/ Exit \/ EndRound
  BY <1>2, <1>5 DEF Tick, Cancel, TakeTick, SeeDone, Exit, EndRound, receiverVars, historyVars
<1>6. CASE CollectNode \/ ListPods \/ ListHangs \/ SeeCancel \/ LateAnswer
  BY <1>2, <1>6 DEF CollectNode, ListPods, ListHangs, SeeCancel, LateAnswer, CollectOthers,
                    receiverVars, historyVars
<1>7. CASE CollectTraces
  <2>1. outSpans' = outSpans
    BY <1>7 DEF CollectTraces, Receiver!CollectMetrics
  <2> QED BY <1>2, <1>7, <2>1 DEF CollectTraces
<1>8. CASE SendBatch
  BY <1>2, <1>8 DEF SendBatch, receiverVars
<1>9. ASSUME NEW r \in Requests, Accept(r) PROVE PostedInv'
  <2>1. outSpans' = outSpans
    BY <1>9 DEF Accept, Receiver!RefuseBody, Receiver!ParseBody
  <2> QED BY <1>2, <1>9, <2>1 DEF Accept, loopVars, historyVars
<1>10. ASSUME NEW r \in Requests, Serve(r) PROVE PostedInv'
  <2>1. outSpans' = outSpans
    BY <1>10 DEF Serve, Receiver!Handle, Receiver!LockMetrics, Receiver!OpenResource,
                 Receiver!CountSpan, Receiver!CloseResource, Receiver!FinishJSON,
                 Receiver!BufferSpans, Receiver!AnswerOK
  <2> QED BY <1>2, <1>10, <2>1 DEF Serve, loopVars, historyVars
<1>11. CASE UNCHANGED vars
  BY <1>2, <1>11 DEF vars, receiverVars, loopVars, historyVars
<1> QED BY <1>3, <1>4, <1>5, <1>6, <1>7, <1>8, <1>9, <1>10, <1>11 DEF Next, Loop

\* Each span that left the buffer is in one place, and the API has its spans in
\* the order they arrived.
LEMMA PlacedOnce ==
    ASSUME R!Inv, R!ForwardInv, PostedInv
    PROVE  SpansArePostedOnce
<1> DEFINE at(id) == CHOOSE n \in DOMAIN arrived : arrived[n] = id
           places == <<ToSet(apiSpans), lostSpans, ToSet(spans), ToSet(spanBuffer)>>
<1>1. \A m, n \in DOMAIN arrived : m # n => arrived[m] # arrived[n]
  BY DEF R!ForwardInv, R!ForwardedOnceWhole
<1>2. \A m \in DOMAIN arrived : at(arrived[m]) = m
  BY <1>1
<1>3. ASSUME NEW id, HasLeft(id) PROVE id \notin ToSet(spanBuffer)
  <2>1. arrived \in Seq(R!SpanIds) /\ spanBuffer \in Seq(R!SpanIds)
    BY DEF R!Inv, R!TypeOK
  <2>2. PICK m \in 1 .. Behind : arrived[m] = id
    BY <1>3 DEF HasLeft
  <2>3. SUFFICES ASSUME NEW i \in DOMAIN spanBuffer, spanBuffer[i] = id PROVE FALSE
    BY DEF ToSet
  <2>4. arrived[Behind + i] = id /\ Len(spanBuffer) <= Len(arrived)
    BY <2>1, <2>3 DEF PostedInv, R!WaitingSpans, R!EndsWith, Behind
  <2>5. m \in DOMAIN arrived /\ Behind + i \in DOMAIN arrived /\ m # Behind + i
    BY <2>1, <2>2, <2>3, <2>4 DEF Behind
  <2> QED BY <1>1, <2>2, <2>4, <2>5
<1>4. \A m, n \in DOMAIN places : m # n => places[m] \cap places[n] = {}
  <2> DEFINE posted == ToSet(apiSpans)
             toPost == ToSet(spans)
             waiting == ToSet(spanBuffer)
  <2>1. /\ posted \cap lostSpans = {} /\ posted \cap toPost = {} /\ lostSpans \cap toPost = {}
        /\ posted \cap waiting = {} /\ lostSpans \cap waiting = {} /\ toPost \cap waiting = {}
    BY <1>3 DEF PostedInv, Places
  <2>2. places = <<posted, lostSpans, toPost, waiting>> /\ DOMAIN places = 1 .. 4
    OBVIOUS
  <2> HIDE DEF posted, toPost, waiting
  <2> QED BY <2>1, <2>2
<1>5. ASSUME NEW m \in DOMAIN apiSpans, NEW n \in DOMAIN apiSpans, m < n
      PROVE  at(apiSpans[m]) < at(apiSpans[n])
  <2>1. PICK i, j \in DOMAIN arrived :
            i < j /\ arrived[i] = apiSpans[m] /\ arrived[j] = apiSpans[n]
    BY <1>5 DEF PostedInv, Orders, InOrder, Before
  <2>2. at(apiSpans[m]) = i /\ at(apiSpans[n]) = j
    BY <1>2, <2>1
  <2> QED BY <2>1, <2>2
<1>6. ToSet(outSpans) = ToSet(apiSpans) \cup lostSpans \cup ToSet(spans)
  BY DEF PostedInv, Places
<1> QED BY <1>4, <1>5, <1>6 DEF SpansArePostedOnce

\* A span is posted at most once and never given up by more than a failed post
\* or the buffer's bound, and the API receives spans in the order they arrived,
\* whatever handlers, failing posts and a cancelled context interleave
\* (main.go:342-353, 1160-1195, otel_receiver.go:148-155, 311-319).
THEOREM AgentPostsSpansOnce == Spec => []SpansArePostedOnce
<1>1. Init => PostedInv
  BY InitPosted
<1>2. R!Inv /\ R!ForwardInv /\ PostedInv /\ [Next]_vars => PostedInv'
  BY NextPosted
<1>3. R!Inv /\ R!ForwardInv /\ PostedInv => SpansArePostedOnce
  BY PlacedOnce
<1> QED BY <1>1, <1>2, <1>3, ReceiverInvariance, PTL DEF Spec

-----------------------------------------------------------------------------
\* The way of a span count.  SpanCounts is a sum over the indices of metrics.

MetricType == [of : Services \cup {Host}, name : ToSet(Names) \cup {"host"},
               spans : Nat, finite : BOOLEAN]
Count(m, s) == IF m.of = s /\ m.name = "span_count" THEN m.spans ELSE 0
Counts(ms, s) == [n \in DOMAIN ms |-> Count(ms[n], s)]

LEMMA CountsType ==
    ASSUME NEW s, NEW ms \in Seq(MetricType)
    PROVE  /\ Counts(ms, s) \in Seq(Nat) /\ Counts(ms, s) \in Seq(Int)
           /\ Len(Counts(ms, s)) = Len(ms) /\ DOMAIN Counts(ms, s) = 1 .. Len(ms)
           /\ \A n \in 1 .. Len(ms) : Counts(ms, s)[n] = Count(ms[n], s)
<1>1. \A m \in MetricType : Count(m, s) \in Nat
  BY DEF Count, MetricType
<1>2. \A n \in 1 .. Len(ms) : Count(ms[n], s) \in Nat
  BY <1>1
<1> QED BY <1>2 DEF Counts

LEMMA SpanCountsIsTotal ==
    ASSUME NEW s, NEW ms \in Seq(MetricType)
    PROVE  SpanCounts(ms, s) = SeqTotal(Counts(ms, s))
<1> DEFINE D == DOMAIN ms
           g == Counts(ms, s)
           c(t) == CHOOSE x \in t : TRUE
           Sums(f) == f = [t \in SUBSET D |->
                          IF t = {} THEN 0
                          ELSE IF ms[c(t)].of = s /\ ms[c(t)].name = "span_count"
                               THEN f[t \ {c(t)}] + ms[c(t)].spans
                               ELSE f[t \ {c(t)}]]
           iter == CHOOSE f : Sums(f)
<1>1. SpanCounts(ms, s) = iter[D]
  BY DEF SpanCounts, FoldSeq, FoldFunction, FoldFunctionOnSet, MapThenFoldSet
<1>2. D = 1 .. Len(ms) /\ IsFiniteSet(D) /\ D = DOMAIN g
  BY FS_Interval DEF Counts
<1>3. \A x \in D : g[x] \in Int /\ g[x] = Count(ms[x], s) /\ ms[x].spans \in Int
  <2>0. \A m \in MetricType : m.spans \in Int
    BY DEF MetricType
  <2>1. \A x \in D : ms[x].spans \in Int
    BY <2>0
  <2> QED BY <1>2, <2>1, CountsType
<1>4. ASSUME NEW t \in SUBSET D, t # {}, NEW n \in Int
      PROVE  (IF ms[c(t)].of = s /\ ms[c(t)].name = "span_count"
              THEN n + ms[c(t)].spans ELSE n) = g[c(t)] + n
  <2>1. c(t) \in D
    BY <1>4
  <2> HIDE DEF c, g, D
  <2> QED BY <1>3, <2>1 DEF Count
<1> HIDE DEF g, D
<1>5. \E f : Sums(f)
  <2>1. PICK f \in [SUBSET D -> Int] : IsFold(f, g, D)
    BY <1>2, <1>3, FoldExists
  <2> DEFINE e == [t \in SUBSET D |->
                          IF t = {} THEN 0
                          ELSE IF ms[c(t)].of = s /\ ms[c(t)].name = "span_count"
                               THEN f[t \ {c(t)}] + ms[c(t)].spans
                               ELSE f[t \ {c(t)}]]
  <2>2. ASSUME NEW t \in SUBSET D PROVE f[t] = e[t]
    <3>1. CASE t = {}
      BY <2>1, <3>1 DEF IsFold
    <3>2. CASE t # {}
      <4>1. f[t] = g[c(t)] + f[t \ {c(t)}]
        BY <2>1, <3>2 DEF IsFold
      <4>2. f[t \ {c(t)}] \in Int
        <5>1. t \ {c(t)} \in SUBSET D
          OBVIOUS
        <5> HIDE DEF c
        <5> QED BY <2>1, <5>1
      <4>3. (IF ms[c(t)].of = s /\ ms[c(t)].name = "span_count"
             THEN f[t \ {c(t)}] + ms[c(t)].spans ELSE f[t \ {c(t)}])
            = g[c(t)] + f[t \ {c(t)}]
        BY <1>4, <3>2, <4>2
      <4> HIDE DEF c
      <4> QED BY <3>2, <4>1, <4>3
    <3> QED BY <3>1, <3>2
  <2>3. f = e
    BY <2>1, <2>2
  <2> HIDE DEF e
  <2>4. Sums(f)
    BY <2>3 DEF e
  <2> QED BY <2>4, ZenonT(30)
<1>6. Sums(iter)
  <2> HIDE DEF Sums
  <2> QED BY <1>5
<1> HIDE DEF iter
<1>7. iter[{}] = 0
  BY <1>6
<1>8. ASSUME NEW t \in SUBSET D, t # {}, iter[t \ {c(t)}] \in Int
      PROVE  iter[t] = g[c(t)] + iter[t \ {c(t)}]
  <2>1. iter[t] = IF ms[c(t)].of = s /\ ms[c(t)].name = "span_count"
                  THEN iter[t \ {c(t)}] + ms[c(t)].spans
                  ELSE iter[t \ {c(t)}]
    BY <1>6, <1>8
  <2> QED BY <1>4, <1>8, <2>1
<1>9. iter[D] = Total(g, D)
  <2> HIDE DEF Sums
  <2>1. \A t \in SUBSET D :
            t # {} /\ iter[t \ {CHOOSE x \in t : TRUE}] \in Int
            => iter[t] = g[CHOOSE x \in t : TRUE] + iter[t \ {CHOOSE x \in t : TRUE}]
    BY <1>8
  <2>2. \A x \in D : g[x] \in Int
    BY <1>3
  <2> QED BY <1>2, <1>7, <2>1, <2>2, TotalIsComputed
<1> QED BY <1>1, <1>2, <1>9 DEF SeqTotal, g

LEMMA SpanCountsNat ==
    ASSUME NEW s, NEW ms \in Seq(MetricType)
    PROVE  SpanCounts(ms, s) \in Nat
  BY SpanCountsIsTotal, CountsType, SeqTotalNat

LEMMA SpanCountsConcat ==
    ASSUME NEW s, NEW ms \in Seq(MetricType), NEW ns \in Seq(MetricType)
    PROVE  SpanCounts(ms \o ns, s) = SpanCounts(ms, s) + SpanCounts(ns, s)
<1> DEFINE both == ms \o ns
           f == Counts(ms, s)
           g == Counts(ns, s)
           h == Counts(both, s)
<1>1. /\ both \in Seq(MetricType) /\ Len(both) = Len(ms) + Len(ns)
      /\ \A n \in 1 .. Len(ms) + Len(ns) :
             both[n] = IF n <= Len(ms) THEN ms[n] ELSE ns[n - Len(ms)]
      /\ Len(ms) \in Nat /\ Len(ns) \in Nat
  BY ConcatProperties
<1> HIDE DEF both
<1>2. /\ f \in Seq(Int) /\ Len(f) = Len(ms)
      /\ \A n \in 1 .. Len(ms) : f[n] = Count(ms[n], s)
  BY CountsType
<1>3. /\ g \in Seq(Int) /\ Len(g) = Len(ns)
      /\ \A n \in 1 .. Len(ns) : g[n] = Count(ns[n], s)
  BY CountsType
<1>4. /\ h \in Seq(Int) /\ Len(h) = Len(both)
      /\ \A n \in 1 .. Len(both) : h[n] = Count(both[n], s)
  BY <1>1, CountsType
<1> HIDE DEF f, g, h
<1> DEFINE fg == f \o g
<1>5. /\ fg \in Seq(Int) /\ Len(fg) = Len(f) + Len(g)
      /\ \A n \in 1 .. Len(f) + Len(g) :
             fg[n] = IF n <= Len(f) THEN f[n] ELSE g[n - Len(f)]
  <2>1. f \in Seq(Int) /\ g \in Seq(Int)
    BY <1>2, <1>3
  <2> QED BY <2>1, ConcatProperties, Zenon
<1> HIDE DEF fg
<1>6. ASSUME NEW n \in 1 .. Len(h) PROVE h[n] = fg[n]
  <2>1. h[n] = Count(both[n], s) /\ n \in 1 .. Len(ms) + Len(ns)
    BY <1>1, <1>4
  <2>2. CASE n <= Len(ms)
    <3>1. n \in 1 .. Len(ms) /\ both[n] = ms[n] /\ fg[n] = f[n]
      BY <1>1, <1>2, <1>3, <1>5, <2>1, <2>2
    <3> QED BY <1>2, <2>1, <3>1
  <2>3. CASE n > Len(ms)
    <3> DEFINE k == n - Len(ms)
    <3>1. k \in 1 .. Len(ns) /\ both[n] = ns[k] /\ fg[n] = g[k]
      BY <1>1, <1>2, <1>3, <1>5, <2>1, <2>3
    <3> HIDE DEF k
    <3> QED BY <1>3, <2>1, <3>1
  <2> QED BY <1>1, <2>1, <2>2, <2>3
<1>7. h = fg
  BY <1>1, <1>2, <1>3, <1>4, <1>5, <1>6, SeqEqual
<1>8. SeqTotal(h) = SeqTotal(f) + SeqTotal(g)
  BY <1>2, <1>3, <1>7, SeqTotalConcat DEF fg
<1> QED BY <1>1, <1>8, SpanCountsIsTotal DEF f, g, h, both

\* Metrics without a span count of s add nothing.
LEMMA SpanCountsOfOthers ==
    ASSUME NEW s, NEW ms \in Seq(MetricType), \A n \in DOMAIN ms : ms[n].of # s
    PROVE  SpanCounts(ms, s) = 0
<1>1. \A n \in DOMAIN ms : Count(ms[n], s) = 0
  BY DEF Count
<1>2. Counts(ms, s) \in Seq(Int) /\ \A n \in DOMAIN Counts(ms, s) : Counts(ms, s)[n] = 0
  BY <1>1, CountsType
<1> QED BY <1>2, SpanCountsIsTotal, SeqTotalZero

LEMMA MadeMetric ==
    ASSUME NEW o \in Services \cup {Host}, NEW m \in ToSet(Names) \cup {"host"},
           NEW n \in Nat, NEW f \in BOOLEAN
    PROVE  [of |-> o, name |-> m, spans |-> n, finite |-> f] \in MetricType
  BY DEF MetricType

\* The metrics of one service carry its span count once.
LEMMA SpanCountsOfService ==
    ASSUME R!TypeOK, NEW t \in Receiver!Reportable, NEW s \in Services
    PROVE  /\ MetricsOf(t) \in Seq(MetricType)
           /\ SpanCounts(MetricsOf(t), s) = IF s = t THEN serviceMetrics[t].spans ELSE 0
<1> DEFINE ms == MetricsOf(t)
           n == IF serviceMetrics[t].durations = << >> THEN 3 ELSE 6
<1>1. t \in Services /\ serviceMetrics[t].spans \in Nat
  BY DEF R!TypeOK, Receiver!Reportable
<1>2. /\ \A k \in 1 .. 6 : Names[k] \in ToSet(Names)
      /\ Names[1] = "span_count" /\ \A k \in 2 .. 6 : Names[k] # "span_count"
  <2>1. /\ Names[1] = "span_count" /\ Names[2] = "error_rate" /\ Names[3] = "duration_avg"
        /\ Names[4] = "duration_p50" /\ Names[5] = "duration_p95"
        /\ Names[6] = "duration_p99" /\ DOMAIN Names = 1 .. 6
    BY DEF Names
  <2>2. \A k \in 1 .. 6 : Names[k] \in ToSet(Names)
    BY <2>1 DEF ToSet
  <2>3. \A k \in 2 .. 6 : k = 2 \/ k = 3 \/ k = 4 \/ k = 5 \/ k = 6
    OBVIOUS
  <2> QED BY <2>1, <2>2, <2>3
<1>3. /\ n \in 3 .. 6 /\ ms = [k \in 1 .. n |-> ms[k]]
      /\ \A k \in 1 .. n :
             ms[k] = [of |-> t, name |-> Names[k], spans |-> serviceMetrics[t].spans,
                      finite |-> TRUE]
  BY DEF MetricsOf
<1> HIDE DEF ms, n
<1>4. \A k \in 1 .. n : ms[k] \in MetricType
  <2>1. \A k \in 1 .. n : Names[k] \in ToSet(Names)
    BY <1>2, <1>3
  <2> QED BY <1>1, <1>3, <2>1, MadeMetric
<1>5. ms \in Seq(MetricType) /\ Len(ms) = n
  BY <1>3, <1>4
<1>6. CASE s # t
  <2>1. \A k \in DOMAIN ms : ms[k].of # s
    BY <1>3, <1>6
  <2>2. SpanCounts(ms, s) = 0
    BY <1>5, <2>1, SpanCountsOfOthers
  <2> QED BY <1>5, <1>6, <2>2 DEF ms
<1>7. CASE s = t
  <2> DEFINE g == Counts(ms, s)
  <2>1. DOMAIN g = 1 .. n /\ \A k \in 1 .. n : g[k] = Count(ms[k], s)
    BY <1>5, CountsType
  <2>2. g[1] = serviceMetrics[t].spans /\ \A k \in (1 .. n) \ {1} : g[k] = 0
    <3>1. \A k \in 1 .. n : g[k] = IF Names[k] = "span_count" THEN serviceMetrics[t].spans ELSE 0
      BY <1>3, <1>7, <2>1 DEF Count
    <3> HIDE DEF g
    <3> QED BY <1>2, <1>3, <3>1
  <2> HIDE DEF g
  <2> DEFINE D == 1 .. n
  <2>3. IsFiniteSet(D) /\ 1 \in D
    BY <1>3, FS_Interval
  <2>4. Total(g, D) = g[1]
    <3>1. g[1] \in Int /\ \A k \in D \ {1} : g[k] = 0
      BY <1>1, <2>2
    <3> HIDE DEF D
    <3> QED BY <2>3, <3>1, TotalSingle
  <2>5. SpanCounts(ms, s) = serviceMetrics[t].spans
    BY <1>5, <2>1, <2>2, <2>4, SpanCountsIsTotal DEF g, SeqTotal
  <2> QED BY <1>5, <1>7, <2>5 DEF ms
<1> QED BY <1>6, <1>7

LEMMA SpanCountsOfFlat ==
    ASSUME NEW s, NEW seqs \in Seq(Seq(MetricType))
    PROVE  /\ FlattenSeq(seqs) \in Seq(MetricType)
           /\ SpanCounts(FlattenSeq(seqs), s) =
                  SeqTotal([k \in DOMAIN seqs |-> SpanCounts(seqs[k], s)])
<1> DEFINE n == Len(seqs)
           g == [k \in DOMAIN seqs |-> SpanCounts(seqs[k], s)]
           flat == CHOOSE f : IsFlatten(f, seqs, n)
<1>1. n \in Nat /\ DOMAIN seqs = 1 .. n /\ \A k \in 1 .. n : seqs[k] \in Seq(MetricType)
  OBVIOUS
<1>2. DOMAIN g = 1 .. n /\ \A k \in 1 .. n : g[k] = SpanCounts(seqs[k], s) /\ g[k] \in Int
  BY <1>1, SpanCountsNat
<1>3. g \in Seq(Int) /\ Len(g) = n
  <2> HIDE DEF g
  <2>1. g = [k \in 1 .. n |-> g[k]]
    BY <1>2 DEF g
  <2> QED BY <1>1, <1>2, <2>1
<1>4. CASE n = 0
  <2>1. FlattenSeq(seqs) = << >> /\ << >> \in Seq(MetricType) /\ g = << >>
    BY <1>3, <1>4 DEF FlattenSeq
  <2>2. Counts(<< >>, s) = << >>
    BY DEF Counts
  <2>3. SpanCounts(<< >>, s) = 0 /\ SeqTotal(g) = 0
    BY <2>1, <2>2, SpanCountsIsTotal, SeqTotalEmpty
  <2> QED BY <2>1, <2>3
<1>5. CASE n # 0
  <2>1. FlattenSeq(seqs) = flat[n]
    BY <1>5 DEF FlattenSeq, IsFlatten
  <2>2. IsFlatten(flat, seqs, n)
    BY <1>1, FlattenExists
  <2> HIDE DEF flat, g
  <2>3. \A i \in 1 .. n : flat[i] = IF i = 1 THEN seqs[i] ELSE flat[i - 1] \o seqs[i]
    BY <2>2 DEF IsFlatten
  <2> DEFINE Good == {i \in 0 .. n : i > 0 => /\ flat[i] \in Seq(MetricType)
                                             /\ SpanCounts(flat[i], s) = Total(g, 1 .. i)}
  <2>4. 0 \in Good
    BY <1>1
  <2>5. ASSUME NEW m \in 0 .. n - 1, m \in Good PROVE m + 1 \in Good
    <3>1. m + 1 \in 1 .. n /\ m + 1 \in 0 .. n /\ (m + 1) - 1 = m
      BY <1>1, <2>5
    <3>2. Total(g, 1 .. m + 1) = Total(g, 1 .. m) + SpanCounts(seqs[m + 1], s)
      BY <1>2, <1>3, <2>5, <3>1, TotalOfPrefix
    <3>3. seqs[m + 1] \in Seq(MetricType) /\ SpanCounts(seqs[m + 1], s) \in Int
      BY <1>1, <1>2, <3>1
    <3>4. CASE m = 0
      <4>1. 1 .. m = {} /\ flat[m + 1] = seqs[m + 1]
        BY <2>3, <3>1, <3>4
      <4>2. Total(g, 1 .. m) = 0
        BY <4>1, TotalEmpty
      <4> QED BY <3>1, <3>2, <3>3, <4>1, <4>2
    <3>5. CASE m # 0
      <4>1. flat[m + 1] = flat[m] \o seqs[m + 1]
        <5>1. PICK k \in 1 .. n : k = m + 1
          BY <3>1
        <5>2. k # 1 /\ k - 1 = m
          BY <3>1, <3>5, <5>1
        <5>3. flat[k] = flat[k - 1] \o seqs[k]
          BY <2>3, <5>2
        <5> QED BY <5>1, <5>2, <5>3
      <4>2. flat[m] \in Seq(MetricType) /\ SpanCounts(flat[m], s) = Total(g, 1 .. m)
        BY <2>5, <3>5
      <4>3. SpanCounts(flat[m + 1], s) = SpanCounts(flat[m], s) + SpanCounts(seqs[m + 1], s)
        BY <3>3, <4>1, <4>2, SpanCountsConcat
      <4>4. flat[m + 1] \in Seq(MetricType)
        BY <3>3, <4>1, <4>2, ConcatProperties, Zenon
      <4> QED BY <3>1, <3>2, <4>2, <4>3, <4>4
    <3> QED BY <3>4, <3>5
  <2> HIDE DEF Good
  <2>6. n \in Good
    <3>1. \A m \in 0 .. n - 1 : m \in Good => m + 1 \in Good
      BY <2>5
    <3> HIDE DEF n
    <3>2. \A m \in 0 .. n : m \in Good
      BY <1>1, <2>4, <3>1, CountingUp
    <3> QED BY <1>1, <3>2
  <2>7. flat[n] \in Seq(MetricType) /\ SpanCounts(flat[n], s) = SeqTotal(g)
    BY <1>1, <1>2, <1>5, <2>6 DEF Good, SeqTotal
  <2> QED BY <2>1, <2>7 DEF g
<1> QED BY <1>4, <1>5

Locations == {"collect", "pods", "hung", "traces", "send", "forward", "end", "wait",
              "stopping", "exited"}
Gathering == {"pods", "hung", "traces"}
Flags == {ticked, cancelled, ready, succeeded} \subseteq BOOLEAN
HostOnly(ms) == \A n \in DOMAIN ms : ms[n].of = Host

\* A collection that has not come to the receiver yet holds no span counts.
CountsInv ==
    /\ loop \in Locations
    /\ metrics \in Seq(MetricType)
    /\ next \in Nat
    /\ Flags
    /\ delivered \in [Services -> Nat] /\ lost \in [Services -> Nat]
    /\ loop \in Gathering => HostOnly(metrics)
    /\ IsFiniteSet(DOMAIN serviceMetrics)
    /\ SpanCountsArePosted

LEMMA InitCounts == Init => CountsInv
<1> SUFFICES ASSUME Init PROVE CountsInv
  OBVIOUS
<1>1. reported = [s \in Services |-> [spans |-> 0, errors |-> 0, total |-> 0]]
      /\ serviceMetrics = << >>
  BY DEF Init, Receiver!Init
<1>2. SpanCountsArePosted
  BY <1>1 DEF Init, SpanCountsArePosted
<1>3. IsFiniteSet(DOMAIN serviceMetrics)
  <2>1. DOMAIN serviceMetrics = {}
    BY <1>1
  <2> QED BY <2>1, FS_EmptySet
<1>4. Flags
  BY DEF Init, Flags
<1> QED BY <1>2, <1>3, <1>4 DEF Init, CountsInv, Locations, Gathering

\* The map of the services only grows by the one whose resource is opened.
LEMMA EntriesFinite ==
    ASSUME IsFiniteSet(DOMAIN serviceMetrics), [R!Next]_(R!vars)
    PROVE  IsFiniteSet(DOMAIN serviceMetrics')
<1>1. CASE \E r \in Requests : R!OpenResource(r)
  <2>1. PICK r \in Requests : R!OpenResource(r)
    BY <1>1
  <2>2. DOMAIN serviceMetrics' = DOMAIN serviceMetrics \cup {R!Current(r).service}
    BY <2>1 DEF R!OpenResource
  <2> QED BY <2>2, FS_AddElement
<1>2. CASE R!CollectMetrics
  <2>1. DOMAIN serviceMetrics' \subseteq DOMAIN serviceMetrics
    BY <1>2 DEF R!CollectMetrics
  <2> QED BY <2>1, FS_Subset
<1>3. ASSUME NEW r \in Requests, R!CountSpan(r)
      PROVE  DOMAIN serviceMetrics' = DOMAIN serviceMetrics
  BY <1>3 DEF R!CountSpan
<1>4. ASSUME NEW r \in Requests,
             \/ R!RefuseBody(r) \/ R!ParseBody(r) \/ R!LockMetrics(r) \/ R!CloseResource(r)
             \/ R!FinishJSON(r) \/ R!BufferSpans(r) \/ R!AnswerOK(r)
      PROVE  serviceMetrics' = serviceMetrics
  BY <1>4 DEF R!RefuseBody, R!ParseBody, R!LockMetrics, R!CloseResource, R!FinishJSON,
              R!BufferSpans, R!AnswerOK
<1>5. R!CollectSpans \/ UNCHANGED R!vars => serviceMetrics' = serviceMetrics
  BY DEF R!CollectSpans, R!vars
<1> QED BY <1>1, <1>2, <1>3, <1>4, <1>5 DEF R!Next, R!Handle

\* A step that neither collects from the receiver nor posts.
LEMMA StillCounted ==
    ASSUME CountsInv, [R!Next]_(R!vars),
           UNCHANGED <<metrics, next, delivered, lost, reported>>,
           loop' \in Locations, Flags',
           loop' = "send" <=> loop = "send",
           loop' \in Gathering => loop \in Gathering
    PROVE  CountsInv'
<1>1. IsFiniteSet(DOMAIN serviceMetrics')
  BY EntriesFinite DEF CountsInv
<1>2. SpanCountsArePosted'
  BY DEF CountsInv, SpanCountsArePosted
<1> QED BY <1>1, <1>2 DEF CountsInv, HostOnly

LEMMA HostMetricType == \A f \in BOOLEAN : HostMetric(f) \in MetricType /\ HostMetric(f).of = Host
  BY MadeMetric DEF HostMetric

LEMMA CollectNodeCounted ==
    ASSUME CountsInv, CollectNode, [R!Next]_(R!vars)
    PROVE  CountsInv'
<1>1. PICK finite \in NodeSeries : metrics' = [n \in DOMAIN finite |-> HostMetric(finite[n])]
  BY DEF CollectNode
<1>2. PICK proc \in ProcFiles :
          \E at : finite = [n \in 1 .. Cardinality(collectNodeMetrics(proc)) |-> n \notin at]
  BY ZenonT(30) DEF NodeSeries
<1> PICK at : finite = [n \in 1 .. Cardinality(collectNodeMetrics(proc)) |-> n \notin at]
  BY <1>2
<1> DEFINE size == Cardinality(collectNodeMetrics(proc))
<1>3. size \in Nat
  BY ProcFilesAssumption, NodeMetricsFinite, FS_CardinalityType
<1> HIDE DEF size
<1>4. metrics' = [n \in 1 .. size |-> HostMetric(n \notin at)]
  BY <1>1, <1>2 DEF size
<1>5. \A n \in 1 .. size : metrics'[n] \in MetricType /\ metrics'[n].of = Host
  BY <1>4, HostMetricType
<1>6. metrics' \in Seq(MetricType) /\ HostOnly(metrics')
  BY <1>3, <1>4, <1>5 DEF HostOnly
<1>7. /\ loop = "collect" /\ loop' = "pods"
      /\ UNCHANGED <<next, ticked, cancelled, ready, delivered, lost, succeeded, reported>>
  BY DEF CollectNode, receiverVars, historyVars
<1>8. IsFiniteSet(DOMAIN serviceMetrics')
  BY EntriesFinite DEF CountsInv
<1>9. SpanCountsArePosted'
  BY <1>7 DEF CountsInv, SpanCountsArePosted
<1> QED BY <1>6, <1>7, <1>8, <1>9 DEF CountsInv, Flags, Locations, Gathering, HostOnly

LEMMA CollectOthersCounted ==
    ASSUME CountsInv, CollectOthers, [R!Next]_(R!vars), loop \in Gathering
    PROVE  CountsInv'
<1>1. PICK k \in Others : metrics' = metrics \o [i \in 1 .. k |-> HostMetric(TRUE)]
  BY DEF CollectOthers
<1> DEFINE more == [i \in 1 .. k |-> HostMetric(TRUE)]
<1>2. k \in Nat
  BY SizesAssumption
<1>3. /\ more = [n \in 1 .. k |-> more[n]]
      /\ \A n \in 1 .. k : more[n] \in MetricType /\ more[n].of = Host
  BY HostMetricType
<1> HIDE DEF more
<1>4. more \in Seq(MetricType) /\ HostOnly(more)
  BY <1>2, <1>3 DEF HostOnly
<1>5. metrics \in Seq(MetricType) /\ HostOnly(metrics)
  BY DEF CountsInv
<1>6. metrics \o more \in Seq(MetricType) /\ HostOnly(metrics \o more)
  BY <1>4, <1>5 DEF HostOnly
<1>7. metrics' \in Seq(MetricType) /\ HostOnly(metrics')
  BY <1>1, <1>6 DEF more
<1>8. /\ loop # "send" /\ loop' = "traces"
      /\ UNCHANGED <<next, ticked, cancelled, ready, delivered, lost, succeeded, reported>>
  BY DEF CollectOthers, receiverVars, historyVars, Gathering
<1>9. IsFiniteSet(DOMAIN serviceMetrics')
  BY EntriesFinite DEF CountsInv
<1>10. SpanCountsArePosted'
  BY <1>8 DEF CountsInv, SpanCountsArePosted
<1> QED BY <1>7, <1>8, <1>9, <1>10 DEF CountsInv, Flags, Locations, Gathering, HostOnly

LEMMA SpanCountsEmpty == ASSUME NEW s PROVE SpanCounts(<< >>, s) = 0
<1>1. << >> \in Seq(MetricType) /\ DOMAIN << >> = {}
  OBVIOUS
<1> QED BY <1>1, SpanCountsOfOthers

\* What CollectTraces adds to metrics carries the counts that CollectMetrics
\* returned, each once, in whatever order the services come.
LEMMA TracesCounted ==
    ASSUME R!TypeOK, IsFiniteSet(DOMAIN serviceMetrics),
           NEW order \in SetToSeqs(Receiver!Reportable), NEW s \in Services
    PROVE  LET seqs == [k \in DOMAIN order |-> MetricsOf(order[k])]
           IN  /\ seqs \in Seq(Seq(MetricType))
               /\ SpanCounts(FlattenSeq(seqs), s) =
                      IF s \in Receiver!Reportable THEN serviceMetrics[s].spans ELSE 0
<1> DEFINE seqs == [k \in DOMAIN order |-> MetricsOf(order[k])]
           g == [k \in DOMAIN seqs |-> SpanCounts(seqs[k], s)]
           S == Receiver!Reportable
           c == Cardinality(S)
           D == 1 .. c
<1>1. IsFiniteSet(S) /\ c \in Nat
  BY FS_Subset, FS_CardinalityType DEF Receiver!Reportable
<1>2. order \in [D -> S] /\ \A i, j \in D : i # j => order[i] # order[j]
  BY DEF SetToSeqs
<1>3. \A t \in S : t \in Services /\ serviceMetrics[t].spans \in Nat
  BY DEF R!TypeOK, Receiver!Reportable
<1> HIDE DEF S, c
<1>4. IsFiniteSet(D) /\ Cardinality(D) = c
  BY <1>1, FS_Interval
<1>5. \A t \in S : \E k \in D : order[k] = t
  <2>1. order \in Injection(D, S)
    BY <1>2 DEF Injection, IsInjective
  <2>2. order \in Surjection(D, S)
    BY <1>1, <1>4, <2>1, FS_Injection DEF c
  <2> QED BY <2>2 DEF Surjection
<1>6. \A k \in D : /\ MetricsOf(order[k]) \in Seq(MetricType)
                   /\ SpanCounts(MetricsOf(order[k]), s) =
                          IF s = order[k] THEN serviceMetrics[order[k]].spans ELSE 0
  BY <1>2, SpanCountsOfService DEF S
<1>7. /\ seqs = [k \in D |-> seqs[k]] /\ DOMAIN seqs = D
      /\ \A k \in D : seqs[k] = MetricsOf(order[k])
  BY <1>2
<1> HIDE DEF seqs
<1>8. seqs \in Seq(Seq(MetricType))
  BY <1>1, <1>6, <1>7
<1>9. DOMAIN g = D /\ \A k \in D : g[k] = IF s = order[k] THEN serviceMetrics[s].spans ELSE 0
  BY <1>6, <1>7
<1>10. SpanCounts(FlattenSeq(seqs), s) = Total(g, D)
  BY <1>8, <1>9, SpanCountsOfFlat DEF SeqTotal
<1> HIDE DEF g, D
<1>11. CASE s \in S
  <2>1. PICK a \in D : order[a] = s
    BY <1>5, <1>11
  <2>2. g[a] = serviceMetrics[s].spans /\ g[a] \in Int /\ \A k \in D \ {a} : g[k] = 0
    BY <1>2, <1>3, <1>9, <1>11, <2>1
  <2>3. Total(g, D) = g[a]
    BY <1>4, <2>2, TotalSingle
  <2> QED BY <1>8, <1>10, <1>11, <2>2, <2>3 DEF seqs, S
<1>12. CASE s \notin S
  <2>1. \A k \in D : g[k] = 0
    BY <1>2, <1>9, <1>12
  <2>2. Total(g, D) = 0
    BY <1>4, <2>1, TotalZero
  <2> QED BY <1>8, <1>10, <1>12, <2>2 DEF seqs, S
<1> QED BY <1>11, <1>12

LEMMA CollectTracesCounted ==
    ASSUME R!Inv, CountsInv, CollectTraces, [R!Next]_(R!vars)
    PROVE  CountsInv'
<1> DEFINE S == Receiver!Reportable
<1>1. PICK order \in SetToSeqs(S) :
          metrics' = metrics \o FlattenSeq([k \in DOMAIN order |-> MetricsOf(order[k])])
  BY DEF CollectTraces
<1> DEFINE seqs == [k \in DOMAIN order |-> MetricsOf(order[k])]
           flat == FlattenSeq(seqs)
<1>2. R!TypeOK /\ IsFiniteSet(DOMAIN serviceMetrics)
  BY DEF R!Inv, CountsInv
<1>3. ASSUME NEW s \in Services
      PROVE  /\ seqs \in Seq(Seq(MetricType))
             /\ SpanCounts(flat, s) = IF s \in S THEN serviceMetrics[s].spans ELSE 0
  BY <1>2, TracesCounted
<1>4. flat \in Seq(MetricType)
  <2>1. CASE Services = {}
    <3>1. S = {} /\ DOMAIN order = 1 .. 0
      <4>1. S = {}
        BY <1>2, <2>1 DEF R!TypeOK, Receiver!Reportable
      <4>2. Cardinality(S) = 0
        BY <4>1, FS_EmptySet
      <4>3. DOMAIN order = 1 .. Cardinality(S)
        BY DEF SetToSeqs
      <4> QED BY <4>1, <4>2, <4>3
    <3>2. seqs = << >>
      BY <3>1
    <3> HIDE DEF seqs
    <3>3. seqs \in Seq(Seq(MetricType))
      BY <3>2
    <3> QED BY <3>3, SpanCountsOfFlat
  <2>2. CASE Services # {}
    <3>1. seqs \in Seq(Seq(MetricType))
      BY <1>3, <2>2
    <3> HIDE DEF seqs
    <3> QED BY <3>1, SpanCountsOfFlat
  <2> QED BY <2>1, <2>2
<1> HIDE DEF seqs, flat
<1>5. metrics' = metrics \o flat
  BY <1>1 DEF seqs, flat
<1>6. metrics \in Seq(MetricType) /\ HostOnly(metrics)
  BY DEF CountsInv, CollectTraces, Gathering
<1>7. metrics' \in Seq(MetricType)
  <2>1. metrics \o flat \in Seq(MetricType)
    BY <1>4, <1>6, ConcatProperties, Zenon
  <2> QED BY <1>5, <2>1
<1>8. ASSUME NEW s \in Services
      PROVE  reported'[s].spans = delivered[s] + lost[s] + SpanCounts(metrics', s)
  <2>1. reported[s].spans = delivered[s] + lost[s]
    BY DEF CountsInv, SpanCountsArePosted, CollectTraces
  <2>2. reported'[s].spans = reported[s].spans + SpanCounts(flat, s)
    <3>1. reported'[s] = IF s \in S
                         THEN [spans  |-> reported[s].spans + serviceMetrics[s].spans,
                               errors |-> reported[s].errors + serviceMetrics[s].errors,
                               total  |-> reported[s].total + serviceMetrics[s].total]
                         ELSE reported[s]
      BY DEF CollectTraces, Receiver!CollectMetrics
    <3>2. reported[s].spans \in Nat
      BY <1>2 DEF R!TypeOK
    <3> HIDE DEF S
    <3> QED BY <1>3, <3>1, <3>2
  <2>3. SpanCounts(metrics', s) = SpanCounts(metrics, s) + SpanCounts(flat, s)
    BY <1>4, <1>5, <1>6, SpanCountsConcat
  <2>4. SpanCounts(metrics, s) = 0
    <3>1. \A n \in DOMAIN metrics : metrics[n].of # s
      BY <1>6, HostAssumption DEF HostOnly
    <3> QED BY <1>6, <3>1, SpanCountsOfOthers
  <2>5. delivered[s] \in Nat /\ lost[s] \in Nat /\ SpanCounts(flat, s) \in Nat
    BY <1>4, SpanCountsNat DEF CountsInv
  <2> QED BY <2>1, <2>2, <2>3, <2>4, <2>5
<1>9. /\ next' = 0 /\ loop' = (IF metrics' = << >> THEN "end" ELSE "send")
      /\ succeeded' = (succeeded \/ metrics' # << >>)
      /\ UNCHANGED <<ticked, cancelled, ready, delivered, lost>>
  BY DEF CollectTraces
<1>10. SpanCountsArePosted'
  <2>1. SUFFICES ASSUME NEW s \in Services
                 PROVE  reported'[s].spans =
                            delivered'[s] + lost'[s] +
                            (IF loop' = "send"
                             THEN SpanCounts(SubSeq(metrics', next' + 1, Len(metrics')), s)
                             ELSE 0)
    BY DEF SpanCountsArePosted
  <2>2. CASE metrics' = << >>
    <3>1. SpanCounts(metrics', s) = 0
      BY <2>2, SpanCountsEmpty
    <3> QED BY <1>8, <1>9, <2>2, <3>1
  <2>3. CASE metrics' # << >>
    <3>1. SubSeq(metrics', 0 + 1, Len(metrics')) = metrics'
      <4>1. PICK ms \in Seq(MetricType) : ms = metrics'
        BY <1>7
      <4>2. SubSeq(ms, 1, Len(ms)) = ms
        OBVIOUS
      <4> QED BY <4>1, <4>2
    <3> QED BY <1>8, <1>9, <2>3, <3>1
  <2> QED BY <2>2, <2>3
<1>11. IsFiniteSet(DOMAIN serviceMetrics')
  BY EntriesFinite DEF CountsInv
<1>12. Flags' /\ loop' \in Locations /\ loop' \notin Gathering
  BY <1>9 DEF CountsInv, Flags, Locations, Gathering
<1> QED BY <1>7, <1>9, <1>10, <1>11, <1>12 DEF CountsInv

LEMMA SendBatchCounted ==
    ASSUME CountsInv, SendBatch, [R!Next]_(R!vars)
    PROVE  CountsInv'
<1> DEFINE j == Min({next + BatchSize, Len(metrics)})
           batch == SubSeq(metrics, next + 1, j)
           rest == SubSeq(metrics, j + 1, Len(metrics))
<1>1. metrics \in Seq(MetricType) /\ next \in Nat /\ next < Len(metrics) /\ BatchSize \in Nat \ {0}
  BY SizesAssumption DEF CountsInv, SendBatch
<1>2. j = IF next + BatchSize <= Len(metrics) THEN next + BatchSize ELSE Len(metrics)
  <2> DEFINE e == next + BatchSize
             l == Len(metrics)
  <2>1. e \in Int /\ l \in Int
    BY <1>1
  <2> HIDE DEF e, l
  <2>2. Min({e, l}) = IF e <= l THEN e ELSE l
    BY <2>1 DEF Min
  <2> QED BY <2>2 DEF e, l
<1> HIDE DEF j
<1>3. next \in 0 .. Len(metrics) /\ j \in next .. Len(metrics)
  BY <1>1, <1>2
<1>4. /\ batch \in Seq(MetricType) /\ rest \in Seq(MetricType)
      /\ SubSeq(metrics, next + 1, Len(metrics)) = batch \o rest
  BY <1>1, <1>3, SubSeqSplit
<1>5. /\ BatchFrom(next) = batch /\ loop = "send"
      /\ next' = next + BatchSize
      /\ UNCHANGED <<loop, metrics, ticked, cancelled, ready, succeeded, reported>>
  BY DEF BatchFrom, SendBatch, j, receiverVars
<1>6. SubSeq(metrics, next' + 1, Len(metrics)) = rest
  <2>1. CASE next + BatchSize <= Len(metrics)
    BY <1>2, <1>5, <2>1
  <2>2. CASE next + BatchSize > Len(metrics)
    <3>1. j = Len(metrics) /\ next' \in Nat /\ next' > Len(metrics) /\ Len(metrics) \in Nat
      BY <1>1, <1>2, <1>5, <2>2
    <3>2. SubSeq(metrics, next' + 1, Len(metrics)) = << >>
      BY <3>1, SubSeqEmpty
    <3>3. rest = << >>
      BY <3>1, SubSeqEmpty
    <3> QED BY <3>2, <3>3
  <2>3. next + BatchSize <= Len(metrics) \/ next + BatchSize > Len(metrics)
    BY <1>1
  <2> HIDE DEF rest
  <2> QED BY <2>1, <2>2, <2>3
<1> HIDE DEF batch, rest
<1>7. ASSUME NEW s \in Services
      PROVE  /\ reported[s].spans =
                    delivered[s] + lost[s] + (SpanCounts(batch, s) + SpanCounts(rest, s))
             /\ SpanCounts(batch, s) \in Nat /\ SpanCounts(rest, s) \in Nat
             /\ delivered[s] \in Nat /\ lost[s] \in Nat
  <2>1. reported[s].spans =
            delivered[s] + lost[s] + SpanCounts(SubSeq(metrics, next + 1, Len(metrics)), s)
    BY <1>5 DEF CountsInv, SpanCountsArePosted
  <2>2. SpanCounts(batch \o rest, s) = SpanCounts(batch, s) + SpanCounts(rest, s)
    BY <1>4, SpanCountsConcat
  <2>3. SpanCounts(batch, s) \in Nat /\ SpanCounts(rest, s) \in Nat
    BY <1>4, SpanCountsNat
  <2>4. delivered[s] \in Nat /\ lost[s] \in Nat
    BY DEF CountsInv
  <2> QED BY <1>4, <2>1, <2>2, <2>3, <2>4
<1> DEFINE counts == [s \in Services |-> SpanCounts(batch, s)]
<1>8. \/ /\ delivered' = [s \in Services |-> delivered[s] + counts[s]]
         /\ lost' = lost
      \/ /\ lost' = [s \in Services |-> lost[s] + counts[s]]
         /\ delivered' = delivered
  <2>1. PICK taken \in Answers :
          /\ delivered' = IF taken /\ Marshals(batch) THEN With(delivered, batch) ELSE delivered
          /\ lost' = IF Excused(batch, taken) THEN With(lost, batch) ELSE lost
    BY <1>5 DEF SendBatch
  <2>2. taken /\ Marshals(batch) <=> ~Excused(batch, taken)
    BY DEF Marshals, Excused
  <2>3. \A n : With(n, batch) = [s \in Services |-> n[s] + counts[s]]
    BY DEF With
  <2> QED BY <2>1, <2>2, <2>3, Zenon
<1>9. ASSUME NEW s \in Services
      PROVE  /\ delivered'[s] \in Nat /\ lost'[s] \in Nat
             /\ reported[s].spans = delivered'[s] + lost'[s] + SpanCounts(rest, s)
  <2>1. counts[s] = SpanCounts(batch, s)
    OBVIOUS
  <2> HIDE DEF counts
  <2>2. CASE delivered'[s] = delivered[s] + counts[s] /\ lost'[s] = lost[s]
    BY <1>7, <2>1, <2>2
  <2>3. CASE delivered'[s] = delivered[s] /\ lost'[s] = lost[s] + counts[s]
    BY <1>7, <2>1, <2>3
  <2> QED BY <1>8, <2>2, <2>3
<1>10. delivered' \in [Services -> Nat] /\ lost' \in [Services -> Nat]
  BY <1>8, <1>9 DEF CountsInv
<1>11. SpanCountsArePosted'
  BY <1>5, <1>6, <1>9 DEF SpanCountsArePosted
<1>12. IsFiniteSet(DOMAIN serviceMetrics')
  BY EntriesFinite DEF CountsInv
<1>13. next' \in Nat
  BY <1>1, <1>5
<1> QED BY <1>5, <1>10, <1>11, <1>12, <1>13 DEF CountsInv, Flags, Locations, Gathering

LEMMA TakeSpansCounted ==
    ASSUME CountsInv, TakeSpans, [R!Next]_(R!vars)
    PROVE  CountsInv'
<1>1. /\ loop = "send" /\ loop' \in {"end", "forward"}
      /\ UNCHANGED <<metrics, next, ticked, cancelled, ready, succeeded, delivered, lost, reported>>
      /\ next >= Len(metrics)
  BY DEF TakeSpans, Receiver!CollectSpans, historyVars
<1>2. metrics \in Seq(MetricType) /\ next \in Nat
  BY DEF CountsInv
<1>3. SubSeq(metrics, next + 1, Len(metrics)) = << >>
  <2>1. next + 1 \in Int /\ Len(metrics) \in Int /\ Len(metrics) < next + 1
    BY <1>1, <1>2
  <2> QED BY <2>1, SubSeqEmpty
<1>4. SpanCountsArePosted'
  <2>1. ASSUME NEW s \in Services
        PROVE  reported[s].spans = delivered[s] + lost[s] + 0
    BY <1>1, <1>3, SpanCountsEmpty DEF CountsInv, SpanCountsArePosted
  <2> QED BY <1>1, <2>1 DEF SpanCountsArePosted
<1>5. IsFiniteSet(DOMAIN serviceMetrics')
  BY EntriesFinite DEF CountsInv
<1> QED BY <1>1, <1>4, <1>5 DEF CountsInv, Flags, Locations, Gathering

LEMMA NextCounts == R!Inv /\ CountsInv /\ [Next]_vars => CountsInv'
<1> SUFFICES ASSUME R!Inv, CountsInv, [Next]_vars PROVE CountsInv'
  OBVIOUS
<1>1. [R!Next]_(R!vars)
  BY NextStepsReceiver, SameNext
<1> DEFINE Still == /\ UNCHANGED <<metrics, next, delivered, lost, reported>>
                    /\ loop' \in Locations /\ Flags'
                    /\ loop' = "send" <=> loop = "send"
                    /\ loop' \in Gathering => loop \in Gathering
<1>2. Still => CountsInv'
  BY <1>1, StillCounted
<1>3. loop \in Locations /\ Flags
  BY DEF CountsInv
<1>4. CASE Tick \/ Cancel \/ TakeTick \/ SeeDone \/ Exit \/ EndRound
  <2>1. Still
    BY <1>3, <1>4 DEF Tick, Cancel, TakeTick, SeeDone, Exit, EndRound, receiverVars,
                      historyVars, Locations, Gathering, Flags
  <2> QED BY <1>2, <2>1
<1>5. CASE ListHangs
  <2>1. Still
    BY <1>3, <1>5 DEF ListHangs, receiverVars, historyVars, Locations, Gathering, Flags
  <2> QED BY <1>2, <2>1
<1>6. CASE ForwardSpans
  <2>1. Still
    BY <1>3, <1>6 DEF ForwardSpans, receiverVars, Locations, Gathering, Flags
  <2> QED BY <1>2, <2>1
<1>7. CASE CollectNode
  BY <1>1, <1>7, CollectNodeCounted
<1>8. CASE ListPods \/ SeeCancel \/ LateAnswer
  <2>1. CollectOthers /\ loop \in Gathering
    BY <1>8 DEF ListPods, SeeCancel, LateAnswer, Gathering
  <2> QED BY <1>1, <2>1, CollectOthersCounted
<1>9. CASE CollectTraces
  BY <1>1, <1>9, CollectTracesCounted
<1>10. CASE SendBatch
  BY <1>1, <1>10, SendBatchCounted
<1>11. CASE TakeSpans
  BY <1>1, <1>11, TakeSpansCounted
<1>12. ASSUME NEW r \in Requests, Accept(r) \/ Serve(r) PROVE CountsInv'
  <2>1. reported' = reported
    BY <1>12 DEF Accept, Serve, Receiver!RefuseBody, Receiver!ParseBody, Receiver!Handle,
                 Receiver!LockMetrics, Receiver!OpenResource, Receiver!CountSpan,
                 Receiver!CloseResource, Receiver!FinishJSON, Receiver!BufferSpans,
                 Receiver!AnswerOK
  <2>2. UNCHANGED <<loopVars, historyVars>>
    BY <1>12 DEF Accept, Serve
  <2>3. Still
    BY <1>3, <2>1, <2>2 DEF loopVars, historyVars, Flags
  <2> QED BY <1>2, <2>3
<1>13. CASE UNCHANGED vars
  <2>1. Still
    BY <1>3, <1>13 DEF vars, receiverVars, loopVars, historyVars, Flags
  <2> QED BY <1>2, <2>1
<1> QED BY <1>4, <1>5, <1>6, <1>7, <1>8, <1>9, <1>10, <1>11, <1>12, <1>13 DEF Next, Loop

\* Every span count that leaves the receiver is posted in exactly one batch: the
\* batches of collectAndSend neither overlap nor skip a metric, whatever the
\* batch size and the order of the services, and a batch that fails or cannot be
\* encoded is given up as a whole (main.go:323-340, otel_receiver.go:399-490).
THEOREM AgentPostsSpanCountsOnce == Spec => []SpanCountsArePosted
<1>1. Init => CountsInv
  BY InitCounts
<1>2. R!Inv /\ CountsInv /\ [Next]_vars => CountsInv'
  BY NextCounts
<1>3. CountsInv => SpanCountsArePosted
  BY DEF CountsInv
<1> QED BY <1>1, <1>2, <1>3, ReceiverInvariance, PTL DEF Spec

\* The agent's variables, its receiver's among them, have their types
\* (main.go:108-124, otel_receiver.go:73-120).
THEOREM AgentTypeCorrect == Spec => []TypeOK
<1>1. Init => CountsInv /\ PostedInv
  BY InitCounts, InitPosted
<1>2. R!Inv /\ R!ForwardInv /\ (CountsInv /\ PostedInv) /\ [Next]_vars
      => (CountsInv /\ PostedInv)'
  BY NextCounts, NextPosted
<1>3. R!Inv /\ CountsInv /\ PostedInv => TypeOK
  <2> SUFFICES ASSUME R!Inv, CountsInv, PostedInv PROVE TypeOK
    OBVIOUS
  <2>1. Receiver!TypeOK /\ outSpans \in Seq(R!SpanIds)
    BY SameConstants DEF R!Inv, R!TypeOK, Receiver!TypeOK
  <2>2. lostSpans \subseteq R!SpanIds
    <3>1. lostSpans \subseteq ToSet(outSpans)
      BY DEF PostedInv, Places
    <3>2. ToSet(outSpans) \subseteq R!SpanIds
      BY <2>1 DEF ToSet
    <3> QED BY <3>1, <3>2
  <2>3. /\ spans \in Seq(Receiver!SpanIds) /\ (spans # << >> => loop = "forward")
        /\ apiSpans \in Seq(Receiver!SpanIds) /\ lostSpans \subseteq Receiver!SpanIds
    BY <2>2, SameConstants DEF PostedInv, PostedTypes
  <2>4. /\ loop \in Locations /\ metrics \in Seq(MetricType) /\ next \in Nat
        /\ Flags /\ delivered \in [Services -> Nat] /\ lost \in [Services -> Nat]
    BY DEF CountsInv
  <2> QED BY <2>1, <2>3, <2>4, Zenon DEF TypeOK, Locations, MetricType, Flags
<1> QED BY <1>1, <1>2, <1>3, ReceiverInvariance, PTL DEF Spec

=============================================================================
