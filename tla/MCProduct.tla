------------------------------ MODULE MCProduct ------------------------------
(* Instances of the product service for TLC. *)
EXTENDS ProductProperties, TLC

(* Requests that run side by side are interchangeable. *)
Symmetry == Permutations(Workers)
=============================================================================
