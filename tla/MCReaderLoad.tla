----------------------------- MODULE MCReaderLoad ------------------------------
(******************************************************************************)
(* Two documents, and two effects whose loads may be under way at once; the   *)
(* route comes and goes as often as it likes.                                 *)
(******************************************************************************)
EXTENDS ReaderLoad
================================================================================
