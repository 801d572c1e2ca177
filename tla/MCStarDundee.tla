---------------------------- MODULE MCStarDundee ----------------------------
(* Small instance of StarDundee: two packets arrive on the first of the two  *)
(* channels and one on the second; two packets are sent on the second, one   *)
(* without data on the first, and one to a port there is not.                *)
EXTENDS StarDundee, TLC

CONSTANTS p0, p1, q0, t0, t1, t2, t3

MCPackets == {p0, p1, q0}
MCChannelOf == (p0 :> 0) @@ (p1 :> 0) @@ (q0 :> 1)

MCTxPackets == {t0, t1, t2, t3}
MCPortOf == (t0 :> 0) @@ (t1 :> 1) @@ (t2 :> 2) @@ (t3 :> 1)

MCtrim == (" 30170316" :> "30170316") @@ ("30170316" :> "30170316") @@ ("other" :> "other")
MCDeviceLists == {<<>>, <<"other">>, <<" 30170316", "other", "30170316">>}
=============================================================================
