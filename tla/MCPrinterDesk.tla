----------------------------- MODULE MCPrinterDesk --------------------------
(* Values of the constants of PrinterDesk for TLC: model values in the cfg.    *)
EXTENDS PrinterDesk
=============================================================================
