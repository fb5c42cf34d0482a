---------------------------- MODULE MCReceiptWorker ----------------------------
(* Instances of ReceiptWorker for TLC. *)
EXTENDS ReceiptWorkerLedger, TLC

\* Jobs are interchangeable: their order of creation is part of the row.
JobSymmetry == Permutations(Jobs)
===============================================================================
