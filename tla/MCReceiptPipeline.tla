-------------------------- MODULE MCReceiptPipeline --------------------------
(* ReceiptPipeline for TLC: receipts are interchangeable.                   *)
EXTENDS ReceiptPipeline, TLC

Symmetry == Permutations(Receipts)
=============================================================================
