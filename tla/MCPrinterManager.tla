-------------------------- MODULE MCPrinterManager --------------------------
(* Values of the constants of PrinterManager for TLC. *)
EXTENDS PrinterManager, TLC

\* Adapters and calls are interchangeable.
Symmetry == Permutations(Adapters) \cup Permutations(Calls)
=============================================================================
