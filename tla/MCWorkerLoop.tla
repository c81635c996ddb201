---------------------------- MODULE MCWorkerLoop ----------------------------
(***************************************************************************)
(* Instances of WorkerLoop for TLC.                                         *)
(***************************************************************************)
EXTENDS WorkerLoop

CONSTANTS p1, p2

\* Two loops, and a call by hand beside the second.
Calls == {<<p1, "tick">>, <<p2, "tick">>, <<p2, "once">>}
=============================================================================
