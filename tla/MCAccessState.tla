----------------------------- MODULE MCAccessState -----------------------------
(****************************************************************************)
(* Two devices and two calls, of one of them or of both, on a document that     *)
(* nobody has opened or one that has been read. Each call may open the book    *)
(* (it sets the time), turn a page (it sets the position only) or remove the   *)
(* book from the recent shelf.                                                *)
(****************************************************************************)
EXTENDS AccessState, TLC

CONSTANTS tab1, tab2, c1, c2, cfi1, cfi2

MCOpen == [kind |-> "update", cfi |-> cfi1, time |-> 1]
MCTurn == [kind |-> "update", cfi |-> cfi2, time |-> Null]
MCForget == [kind |-> "clear", cfi |-> Null, time |-> Null]

\* NeverRead, and a position that was reached before.
MCEarlier == {[cfi |-> Null, time |-> 0], [cfi |-> cfi1, time |-> 0]}

\* Which device or call is which makes no difference.
MCSymmetry == Permutations(Clients) \cup Permutations(Calls)

MCRequests == {MCOpen, MCTurn, MCForget}

================================================================================
