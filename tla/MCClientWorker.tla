--------------------------- MODULE MCClientWorker ---------------------------
(* ClientWorker on a small instance for TLC *)
EXTENDS ClientWorker, TLC

Symmetric == Permutations(Tests)
=============================================================================
