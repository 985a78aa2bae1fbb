---------------------------- MODULE MCSheetGrid -----------------------------
(***************************************************************************)
(* Three rows, one of them computed, two months, and a handful of events.  *)
(***************************************************************************)
EXTENDS SheetGrid
=============================================================================
