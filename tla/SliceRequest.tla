---------------------------- MODULE SliceRequest ----------------------------
(* What a slice request stands on: the paint that is saved before it is sent,  *)
(* and the 3MF that is made of it. The two parts share only the rows' colours, *)
(* which SliceInput takes as they are, so a run watches one at a time.         *)
EXTENDS SliceInput, Painting

CONSTANT Focus  \* bound: subset of {"input", "paint"}

VARIABLE focus
requestVars == <<vars, paintVars, focus>>

RequestInit ==
    /\ Init /\ PaintInit /\ focus \in Focus
    /\ focus = "paint" => upload = CHOOSE a \in Archives : TRUE

RequestNext ==
    /\ UNCHANGED focus
    /\ \/ focus = "input" /\ Next /\ UNCHANGED paintVars
       \/ focus = "paint" /\ PaintNext /\ UNCHANGED vars

RequestSpec == RequestInit /\ [][RequestNext]_requestVars
=============================================================================
