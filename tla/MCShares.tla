-------------------------------- MODULE MCShares --------------------------------
(****************************************************************************)
(* Two shares and four requests: a creation with three copies and revocations *)
(* that overlap, or two of each; one recipient; --clean-db runs at any time,   *)
(* any number of times.                                                       *)
(****************************************************************************)
EXTENDS Shares, TLC

CONSTANTS s1, s2, q1, q2, q3, q4, r1

\* Requests differ only in what they do.
MCSymmetry == Permutations(Requests) \cup Permutations(Shares)

================================================================================
