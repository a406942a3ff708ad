------------------------------ MODULE MCR2Session ------------------------------
(****************************************************************************)
(* Two calls that overlap in every way, uploads or downloads: one starts a     *)
(* refresh, the other joins it, or starts the next. One retry stands for      *)
(* three. Nothing else needs a bound: a call refreshes twice at most.         *)
(****************************************************************************)
EXTENDS R2Session

CONSTANTS c1, c2

================================================================================
