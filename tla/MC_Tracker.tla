----------------------------- MODULE MC_Tracker -----------------------------
(* A small instance of Tracker for TLC. *)
EXTENDS Tracker

MCPercents == {-1, 50, 100}
=============================================================================
