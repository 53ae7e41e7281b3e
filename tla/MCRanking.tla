----------------------------- MODULE MCRanking ------------------------------
(* Small instances of Ranking for TLC: see the .cfg files. *)
EXTENDS Ranking
=============================================================================
