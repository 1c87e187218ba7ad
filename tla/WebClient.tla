------------------------------- MODULE WebClient ----------------------------
(* One browser: sign-in, the jobs panel, a page with a printer. The two parts  *)
(* share nothing but the session, so a run watches one of them.                *)
EXTENDS JobBoard, PrinterPage

CONSTANT Focus  \* bound: subset of {"jobs", "printer"}

VARIABLE focus
vars == <<sessionVars, jobVars, pageVars, focus>>

Init == SessionInit /\ JobsInit /\ PageInit /\ focus \in Focus

\* The application appears with the gate and goes down with it.
Up == IF focus = "jobs" THEN Mounted /\ UNCHANGED pageVars ELSE PageMounted /\ UNCHANGED jobVars
Down == Unmounted /\ PageUnmounted

Opens(action) == action /\ IF gate' = "ready" THEN Up ELSE UNCHANGED <<jobVars, pageVars>>

Next ==
    /\ UNCHANGED focus
    /\ \/ Opens(StatusAnswered) \/ Opens(StatusUnreachable) \/ Opens(Login) \/ Opens(SetUp)
       \/ (SetUpElsewhere \/ SessionEnds) /\ UNCHANGED <<jobVars, pageVars>>
       \/ Visit /\ Down
       \/ focus = "jobs" /\ JobsNext /\ UNCHANGED pageVars
       \/ focus = "printer" /\ PageNext /\ UNCHANGED jobVars

Spec == Init /\ [][Next]_vars /\ JobsFairness /\ PageFairness

-----------------------------------------------------------------------------
(* Properties                                                                  *)

\* The board of a page that stays open comes to show how a slice has ended, however
\* ticks overtake each other and answers get lost, unless the user cancelled it (a
\* late reply of the cancel may cover what came after) or a late list took it off.
FinishedShown ==
    \A j \in Jobs : (board[j] # Off /\ stage[j] = "over" /\ j \notin stopped) ~>
        board[j] \in {row[j], Off} \/ gate # "ready"

\* A session that ends under an unfinished board leads back to the sign-in screen.
ExpiryNoticed ==
    (gate = "ready" /\ ~Admitted /\ Unfinished # {}) ~> (gate # "ready" \/ Unfinished = {})

\* A page that was connected reads a list after every gap of its stream ("Resync
\* live status after a reconnect gap").
GapIsRead ==
    (page # "manage" /\ missed /\ opened /\ stream = "connecting" /\ asks < MaxLoads) ~>
        (~missed \/ gate # "ready" \/ ~Admitted)
=============================================================================
