---------------------------- MODULE MCLiveUpdates ----------------------------
(* A small instance of LiveUpdates for TLC. *)
EXTENDS LiveUpdates

\* The table without a trigger changes once; every change of it is alike.
MCLiveSpec ==
    LiveInit /\ [][LiveNext /\ db'["user"] <= 1]_live /\ LiveFairness
=============================================================================
