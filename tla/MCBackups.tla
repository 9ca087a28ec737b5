----------------------------- MODULE MCBackups -----------------------------
(***************************************************************************)
(* Two ticks to a day, a month of two days.                                *)
(***************************************************************************)
EXTENDS Backups, TLC

=============================================================================
