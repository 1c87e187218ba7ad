-------------------------- MODULE MCPrintDispatch --------------------------
(* Values of the constants of PrintDispatch for TLC. *)
EXTENDS PrintDispatch, TLC

\* Requests and mappings are interchangeable.
Symmetry == Permutations(Requests) \cup Permutations(Mappings)
=============================================================================
