-------------------------------- MODULE Ticks --------------------------------
(***************************************************************************)
(* The clock the monitors of a box run by.  A tick is the period of the    *)
(* timers (two minutes for the limits and the competition, ten seconds for *)
(* the bottleneck).                                                        *)
(***************************************************************************)
EXTENDS Integers, FiniteSets, Sequences, TLC, SequencesExt

CONSTANT None

VARIABLE now

SetMin(S) == CHOOSE x \in S : \A y \in S : x <= y
SetMax(S) == CHOOSE x \in S : \A y \in S : x >= y
=============================================================================
