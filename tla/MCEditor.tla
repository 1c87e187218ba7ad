------------------------------- MODULE MCEditor -----------------------------
(* Values of the constants of Editor for TLC. *)
EXTENDS Editor

\* A plain model, one with an embedded cutter, one of two plates.
MCFiles == [f \in {"simple", "cut", "two"} |->
    [plates |-> IF f = "two" THEN 2 ELSE 1,
     children |-> IF f = "cut" THEN <<"negative">> ELSE <<>>]]
=============================================================================
