----------------------------- MODULE MCHookJobs -----------------------------
(* Instances of HookJobs for TLC.                                          *)
EXTENDS HookJobs, TLC

CONSTANTS w1, w2, h1, h2

OneWorker == {w1}
TwoWorkers == {w1, w2}
OneHook == {h1}
TwoHooks == {h1, h2}

(* Workers are interchangeable in the safety run.                          *)
Interchangeable == Permutations(TwoWorkers)
=============================================================================
