--------------------------- MODULE MCResourceKeys ---------------------------
(* Pairs of keys over two letters and the slash. *)
EXTENDS ResourceKeys

MCLetters == {"a", "b"}
=============================================================================
