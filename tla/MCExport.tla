------------------------------ MODULE MCExport ------------------------------
(* An instance of the export for TLC. *)
EXTENDS ProductExport

OldestFirst(i, j) == i < j
=============================================================================
