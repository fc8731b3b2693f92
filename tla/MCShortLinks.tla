--------------------------- MODULE MCShortLinks ---------------------------
(* A small instance of ShortLinks for TLC: requests are interchangeable, and *)
(* so are codes and destinations.                                            *)
EXTENDS ShortLinks, TLC

Symmetry == Permutations(Requests) \cup Permutations(Codes) \cup Permutations(Dests)
=============================================================================
