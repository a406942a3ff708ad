------------------------------- MODULE MCBookmarks -------------------------------
(****************************************************************************)
(* Two readers with four operations and a cap of two, so that a creation may    *)
(* evict a bookmark that a reader still lists, or the wrong one, and a          *)
(* deletion may be overtaken by another deletion and a creation.               *)
(****************************************************************************)
EXTENDS Bookmarks, TLC

CONSTANTS t1, t2, q1, q2, q3, q4, cfi1, cfi2

MCSymmetry ==
  Permutations(Requests) \cup Permutations(Tabs) \cup Permutations(Cfis)

================================================================================
