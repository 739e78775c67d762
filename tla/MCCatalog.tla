------------------------------ MODULE MCCatalog -----------------------------
(***************************************************************************)
(* Catalog with three queue names, two of which ("a-b" and "a_b") share a  *)
(* table name.                                                             *)
(***************************************************************************)
EXTENDS Catalog, TLC

CONSTANTS dash, under, other, tab, tother

Sanitized == (dash :> tab) @@ (under :> tab) @@ (other :> tother)

=============================================================================
