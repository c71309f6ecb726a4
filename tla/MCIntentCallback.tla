-------------------------- MODULE MCIntentCallback --------------------------
(* Instances of IntentCallback for TLC. *)
EXTENDS IntentCallback, TLC

CONSTANTS l1, l2, d1, d2, p1, e1, e2

(* Two listeners contend for e1; the second runs with --once. *)
TwoListeners == l1 :> e1 @@ l2 :> e1
OneListener == l1 :> e1
(* Every link of the first instances goes to e1. *)
LinksAndPeer == d1 :> e1 @@ d2 :> e1 @@ p1 :> e1
LinksOnly == d1 :> e1 @@ d2 :> e1
=============================================================================
