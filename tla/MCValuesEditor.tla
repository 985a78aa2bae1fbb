--------------------------- MODULE MCValuesEditor ---------------------------
(***************************************************************************)
(* One driver and one amount of three values, three things the user starts *)
(* (each of which may take several requests), one reading at a time.       *)
(***************************************************************************)
EXTENDS ValuesEditor
=============================================================================
