---------------------------- MODULE MCWorkerGate ----------------------------
(* Instances of WorkerGate for TLC: one finder, or one at each tier. *)
EXTENDS WorkerGate, TLC

CONSTANTS p1, p2

OnePoller == {p1}
TwoPollers == {p1, p2}
OneMode == (p1 :> "low")
TwoModes == (p1 :> "low" @@ p2 :> "high")
=============================================================================
