------------------------------ MODULE MCWebClient ---------------------------
(* Values of the constants of WebClient for TLC: model values in the cfg.      *)
EXTENDS WebClient
=============================================================================
