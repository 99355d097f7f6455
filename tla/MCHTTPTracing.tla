--------------------------- MODULE MCHTTPTracing ---------------------------
(***************************************************************************)
(* Instances of HTTPTracing for TLC: a serial thread that sends GET /a     *)
(* twice on one connection, and a thread that has two connections, the     *)
(* second request of one of which is GET /b.                               *)
(***************************************************************************)
EXTENDS HTTPTracing, TLC

CONSTANTS a1, a2, b1, b2, serial, mixed

Exchanges == {a1, a2, b1, b2}
Threads == (a1 :> serial) @@ (a2 :> serial) @@ (b1 :> mixed) @@ (b2 :> mixed)
TwoSockets == (a1 :> 9) @@ (a2 :> 9) @@ (b1 :> 9) @@ (b2 :> 5)
Targets == (a1 :> "GET /a") @@ (a2 :> "GET /a") @@ (b1 :> "GET /a") @@ (b2 :> "GET /b")
Lasting == (a1 :> 2) @@ (a2 :> 1) @@ (b1 :> 3) @@ (b2 :> 1)
Answers == (a1 :> 200) @@ (a2 :> 404) @@ (b1 :> 200) @@ (b2 :> 200)

\* Every slice of up to five durations out of three, and a longer one.
ManyLatencies == UNION {[1 .. n -> 1 .. 3] : n \in 1 .. 5} \cup {[n \in 1 .. 12 |-> (n * 7) % 13]}

=============================================================================
