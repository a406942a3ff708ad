----------------------------- MODULE MCVaultSession ----------------------------
(******************************************************************************)
(* Two requests, so that an answer can come after its run was superseded, and *)
(* clocks at the edges of what the Worker takes for fresh.                    *)
(******************************************************************************)
EXTENDS VaultSession

\* Milliseconds: the edges of what the Worker takes for a fresh proof, the first and the last
\* of a second, the first retry's time-out and pause, and the least and the most of an attempt.
ClockSkews == {-34001, -34000, 15000, 15001}
SignMoments == {0, 999}
FirstRetry == {10250}
AttemptDelays == {0, 10000}
================================================================================
