---------------------------- MODULE MCHttpClient ----------------------------
(* Small instances of HttpClient for TLC: see the .cfg file. *)
EXTENDS HttpClient
=============================================================================
