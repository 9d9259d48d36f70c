-------------------------- MODULE MCSupervisionLive --------------------------
(* Supervision for TLC, without the history: the rows of the restart table.*)
EXTENDS Supervision, TLC

CONSTANTS p1

OneRow == p1 :> 1
NoRows == <<>>
=============================================================================
