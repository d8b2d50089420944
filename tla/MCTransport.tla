----------------------------- MODULE MCTransport -----------------------------
(***************************************************************************)
(* Small instances of Transport for TLC.                                   *)
(***************************************************************************)
EXTENDS Transport, TLC

CONSTANTS m, w1, w2, p1, p2

TwoWorkers == {w1, w2}
OneWorker == {w1}
TwoPeers == {p1, p2}
WorkerSymmetry == Permutations(TwoWorkers)
=============================================================================
