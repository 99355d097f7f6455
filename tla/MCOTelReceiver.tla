--------------------------- MODULE MCOTelReceiver ---------------------------
(***************************************************************************)
(* Instances of OTelReceiver for TLC.                                      *)
(*                                                                         *)
(* Two protobuf exports and a JSON export send spans of two services; the  *)
(* bounds are two and three, so that one protobuf export overflows both    *)
(* the durations of a service and the span buffer.  A duration of 5 wraps  *)
(* at the limit of 4, and so does the sum 2 + 2.  The other requests are   *)
(* an empty export and two that do not parse.                              *)
(***************************************************************************)
EXTENDS OTelReceiver, TLC

Sp(d, e) == [duration |-> d, error |-> e]
Res(s, spans) == [service |-> s, spans |-> spans]

CONSTANTS p0, p1, p2, j1, badJSON, badProto, cart, auth

Names == {cart, auth}

\* A service in two resources of one request, a service two requests share, a
\* resource without spans, spans without a duration.
Bodies == [r \in Requests |->
    CASE r = p0 -> [kind |-> "protobuf", resources |-> << >>]
      [] r = p1 -> [kind |-> "protobuf",
                    resources |-> << Res(cart, <<Sp(2, FALSE), Sp(5, TRUE)>>),
                                     Res(auth, <<Sp(1, FALSE)>>) >>]
      [] r = p2 -> [kind |-> "protobuf",
                    resources |-> << Res(cart, <<Sp(2, FALSE)>>),
                                     Res(cart, <<Sp(0, TRUE), Sp(1, FALSE)>>) >>]
      [] r = j1 -> [kind |-> "json",
                    resources |-> << Res(auth, <<Sp(3, TRUE)>>), Res(cart, << >>) >>]
      [] r = badJSON  -> [kind |-> "bad_json", resources |-> << Res(auth, <<Sp(1, FALSE)>>) >>]
      [] r = badProto -> [kind |-> "bad_protobuf", resources |-> << Res(auth, <<Sp(1, FALSE)>>) >>]]

=============================================================================
