-------------------------- MODULE MCContainerRates --------------------------
(***************************************************************************)
(* Instances of ContainerRates for TLC: two containers, of a Burstable and *)
(* a BestEffort pod whose UIDs are spelt with "_" in the slice, of a       *)
(* Guaranteed pod, or of Docker Compose, whose cgroups are docker/<id>;    *)
(* a busy and a throttled way to work.                                     *)
(***************************************************************************)
EXTENDS ContainerRates, TLC

CONSTANTS web, db

WebPod == "1234-5678"
DbPod == "abcd-efgh"
Spellings == ("1234_5678" :> WebPod) @@ ("abcd_efgh" :> DbPod)

Burstable == PathInClass("-burstable", "1234_5678", "w")
BestEffort == PathInClass("-besteffort", "abcd_efgh", "d")
Guaranteed == PathGuaranteed("abcd_efgh", "d")
Compose(id) == << <<"docker">>, <<id>> >>

TwoPods == (web :> Burstable) @@ (db :> BestEffort)
WithGuaranteed == (web :> Burstable) @@ (db :> Guaranteed)
ComposePaths == (web :> Compose("w64")) @@ (db :> Compose("d64"))
LongIDs == {"w64", "d64"}

OwnPods == (web :> WebPod) @@ (db :> DbPod)
NoPods == (web :> NoPod) @@ (db :> NoPod)

Busy == [cpu |-> 2, periods |-> 1, throttled |-> 0, disk |-> 1, rx |-> 1]
Throttled == [cpu |-> 1, periods |-> 2, throttled |-> 2, disk |-> 0, rx |-> 0]
BusyOrThrottled == {Busy, Throttled}
OnlyBusy == {Busy}

=============================================================================
