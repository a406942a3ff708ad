---------------------------- MODULE MCEpubRenderer -----------------------------
(******************************************************************************)
(* A cover and two pages of text: a page of either kind beside the other, and *)
(* two operations in the rendition's queue at once.                           *)
(******************************************************************************)
EXTENDS EpubRenderer

\* A cover and two pages of text.
PagesOfBook == {1, 2, 3}
================================================================================
