----------------------------- MODULE HTTPTrace -----------------------------
(***************************************************************************)
(* The kernel side of the HTTP tracer (src/ebpf/http_trace.c): a probe on  *)
(* sendto remembers the requests a thread sends, a probe on the return of  *)
(* recvfrom takes what the thread receives for the answer to one of them,  *)
(* and puts an event into the ring buffer the agent reads.                 *)
(*                                                                         *)
(* The applications are the environment.  A serial thread has one exchange *)
(* at a time and reads each answer with one call; any other thread keeps   *)
(* several connections, reads an answer in pieces, reads other sockets and *)
(* closes connections whose answer never came.                             *)
(***************************************************************************)
EXTENDS Integers, Sequences, FiniteSets, FiniteSetsExt, Functions

CONSTANTS
    Requests,    \* the requests applications may send
    Thread,      \* request -> the thread that sends it
    Descriptor,  \* request -> the socket it is sent on
    Path,        \* request -> its method and path
    Recognised,  \* those of at most 256 bytes whose method is known
    Serial,      \* the threads that are serial
    Other,       \* bytes that are no answer to a request
    Duration,    \* request -> the time until something is taken for its answer
    MaxInflight, \* max_entries of inflight_requests (10000)
    MaxRing      \* the events http_events has room for (256 KiB)

VARIABLES
    app,        \* request -> "new", "sent", "answered" or "closed"
    inflight,   \* inflight_requests: <<descriptor, thread>> -> the request
    ring,       \* http_events: the events not read yet
    \* history
    submitted,  \* the events ever put into the ring, in order
    refused,    \* the requests inflight_requests had no room for
    dropped     \* the requests whose event the ring had no room for

vars == <<app, inflight, ring, submitted, refused, dropped>>

Init ==
    /\ app = [r \in Requests |-> "new"]
    /\ inflight = [k \in {} |-> Other]
    /\ ring = << >>
    /\ submitted = << >>
    /\ refused = {}
    /\ dropped = {}

-----------------------------------------------------------------------------

\* A fault of KeyOf: the thread is left out.
KeyOfSocket(fd, thread) == <<fd, 0>>

KeyOf(fd, thread) == <<fd, thread>>

\* trace_send: a full map takes no new key, an old key's entry is replaced.
trace_send(r) ==
    LET key == KeyOf(Descriptor[r], Thread[r])
        room == key \in DOMAIN inflight \/ Cardinality(DOMAIN inflight) < MaxInflight
    IN  IF r \notin Recognised THEN UNCHANGED <<inflight, refused>>
        ELSE IF room
        THEN /\ inflight' = [k \in DOMAIN inflight \cup {key} |->
                                IF k = key THEN r ELSE inflight[k]]
             /\ UNCHANGED refused
        ELSE /\ refused' = refused \cup {r}
             /\ UNCHANGED inflight

\* A thread sends a request.
Send(r) ==
    /\ app[r] = "new"
    /\ Thread[r] \in Serial =>
           \A s \in Requests : Thread[s] = Thread[r] => app[s] # "sent"
    /\ app' = [app EXCEPT ![r] = "sent"]
    /\ trace_send(r)
    /\ UNCHANGED <<ring, submitted, dropped>>

\* The descriptors trace_recv_exit tries, in order.
Scanned == 0 .. 9

\* The event of request r, when the bytes x were taken for its answer.  Nothing
\* assigns status_code: parse_http_status is never called.
EventOf(r, x) ==
    [request |-> r, answer |-> x, path |-> Path[r], duration |-> Duration[r], status |-> 0]

\* A fault of trace_recv_exit: the entry stays when the event was submitted.
trace_recv_exit_keeping(t, x) ==
    LET found == {fd \in Scanned : KeyOf(fd, t) \in DOMAIN inflight}
        key == KeyOf(Min(found), t)
    IN  IF found = {} THEN UNCHANGED <<inflight, ring, submitted, dropped>>
        ELSE /\ IF Len(ring) < MaxRing
                THEN /\ ring' = Append(ring, EventOf(inflight[key], x))
                     /\ submitted' = Append(submitted, EventOf(inflight[key], x))
                     /\ UNCHANGED dropped
                ELSE /\ dropped' = dropped \cup {inflight[key]}
                     /\ UNCHANGED <<ring, submitted>>
             /\ UNCHANGED inflight

\* trace_recv_exit: thread t has received the bytes x.  Whichever of its
\* requests has the lowest descriptor is taken for the one they answer; its
\* entry goes, even when the ring has no room for the event.
trace_recv_exit(t, x) ==
    LET found == {fd \in Scanned : KeyOf(fd, t) \in DOMAIN inflight}
        key == KeyOf(Min(found), t)
    IN  IF found = {} THEN UNCHANGED <<inflight, ring, submitted, dropped>>
        ELSE /\ IF Len(ring) < MaxRing
                THEN /\ ring' = Append(ring, EventOf(inflight[key], x))
                     /\ submitted' = Append(submitted, EventOf(inflight[key], x))
                     /\ UNCHANGED dropped
                ELSE /\ dropped' = dropped \cup {inflight[key]}
                     /\ UNCHANGED <<ring, submitted>>
             /\ inflight' = Restrict(inflight, DOMAIN inflight \ {key})

\* A thread has read the answer to its request, the last of it or all.
RecvAnswer(r) ==
    /\ app[r] = "sent"
    /\ app' = [app EXCEPT ![r] = "answered"]
    /\ trace_recv_exit(Thread[r], r)
    /\ UNCHANGED refused

\* A thread has read the first of an answer, or something else.
RecvPart(r) ==
    /\ app[r] = "sent" /\ Thread[r] \notin Serial
    /\ trace_recv_exit(Thread[r], r)
    /\ UNCHANGED <<app, refused>>
RecvOther(t) ==
    /\ t \notin Serial
    /\ trace_recv_exit(t, Other)
    /\ UNCHANGED <<app, refused>>

\* A connection is closed before its answer came; no probe sees that.
Abandon(r) ==
    /\ app[r] = "sent" /\ Thread[r] \notin Serial
    /\ app' = [app EXCEPT ![r] = "closed"]
    /\ UNCHANGED <<inflight, ring, submitted, refused, dropped>>

Next ==
    \/ \E r \in Requests : Send(r) \/ RecvAnswer(r) \/ RecvPart(r) \/ Abandon(r)
    \/ \E t \in {Thread[r] : r \in Requests} : RecvOther(t)

Spec == Init /\ [][Next]_vars

-----------------------------------------------------------------------------
\* The properties.

InFlight == {inflight[k] : k \in DOMAIN inflight}
Submitted == {submitted[n].request : n \in DOMAIN submitted}
SerialRequests == {r \in Recognised : Thread[r] \in Serial}

\* A request is reported once, however many calls read its answer, and its
\* entry leaves inflight_requests when it is.
ReportedOnce ==
    /\ \A m, n \in DOMAIN submitted : m # n => submitted[m].request # submitted[n].request
    /\ InFlight \cap (Submitted \cup dropped) = {}

\* What serial threads do is traced right, whatever the other threads of the
\* node do: an event of theirs pairs a request with its own answer, and an
\* answered request has its event unless one of the two maps was full.
SerialIsTraced ==
    /\ \A n \in DOMAIN submitted :
           submitted[n].request \in SerialRequests => submitted[n].answer = submitted[n].request
    /\ \A r \in SerialRequests :
           app[r] = "answered" => r \in Submitted \cup dropped \cup refused

=============================================================================
