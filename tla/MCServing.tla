----------------------------- MODULE MCServing ------------------------------
(* A small instance of Serving for TLC: see Serving.cfg. *)
EXTENDS Serving
=============================================================================
