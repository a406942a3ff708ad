---------------------------- MODULE MCReadingSession ----------------------------
(****************************************************************************)
(* Two positions; a grace period of two ticks, a debounce of one and an upload *)
(* interval of four stand for 6, 2 and 15 seconds; timers up to one tick late. *)
(****************************************************************************)
EXTENDS ReadingSession, TLC

CONSTANTS cfi1, cfi2

MCSymmetry == Permutations(Cfis)

================================================================================
