-------------------------- MODULE MCDefaultGrader --------------------------
(* An instance of DefaultGrader for TLC: scores below, at and above zero. *)
EXTENDS DefaultGrader

MCScores == {-1, 0, 2}
=============================================================================
