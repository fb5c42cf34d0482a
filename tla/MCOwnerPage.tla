------------------------------ MODULE MCOwnerPage ------------------------------
(* Instances of OwnerPage for TLC. *)
EXTENDS OwnerPage
===============================================================================
