---------------------------- MODULE MCCasedAgent ----------------------------
(***************************************************************************)
(* Instances of CasedAgent for TLC.                                        *)
(*                                                                         *)
(* One protobuf export of two services whose spans overflow the buffer, a  *)
(* second one, and JSON that does not parse.                               *)
(***************************************************************************)
EXTENDS CasedAgent, TLC

CONSTANTS p1, p2, bad, cart, auth

Names2 == {cart, auth}
Sp(d, e) == [duration |-> d, error |-> e]
Res(s, list) == [service |-> s, spans |-> list]

AllBodies ==
    (p1 :> [kind |-> "protobuf",
            resources |-> << Res(cart, <<Sp(1, TRUE)>>),
                             Res(auth, <<Sp(0, FALSE), Sp(1, FALSE)>>) >>]) @@
    (p2 :> [kind |-> "protobuf", resources |-> << Res(cart, <<Sp(0, FALSE)>>) >>]) @@
    (bad :> [kind |-> "bad_json", resources |-> << >>])
Bodies == Restrict(AllBodies, Requests)

\* /proc unreadable, or with the times of the CPU all zero, as on kernels that
\* keep none, or as usual.
NoProc == [stat |-> << >>, meminfo |-> << >>, net |-> << >>]
NoTimes == [NoProc EXCEPT !.stat = <<0, 0, 0, 0>>]
Header == [kind |-> "header"]
Interface(name, n) == ("kind" :> name) @@ [f \in NetworkCounters |-> n]
FullProc ==
    [stat |-> <<2, 0, 1, 4, 1>>, meminfo |-> ("total" :> 8) @@ ("available" :> 6),
     net |-> <<Header, Header, Interface("lo", 1), Interface("eth", 2), Interface("eth", 3)>>]
NoneOrZero == {NoProc, NoTimes}
Usual == {FullProc}

=============================================================================
