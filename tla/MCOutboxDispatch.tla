--------------------------- MODULE MCOutboxDispatch ---------------------------
(* Small instances of OutboxDispatch for TLC.                              *)
EXTENDS OutboxDispatch, TLC

(* Workers are interchangeable; sound for safety only.                     *)
WorkerSymmetry == Permutations(Workers)
=============================================================================
