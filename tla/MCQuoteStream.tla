--------------------------- MODULE MCQuoteStream ----------------------------
(* A small instance of QuoteStream for TLC: see QuoteStream.cfg. *)
EXTENDS QuoteStream
=============================================================================
