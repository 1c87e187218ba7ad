------------------------------- MODULE Session ------------------------------
(* Signing in: the guard and the routes of plugins/auth.ts, the cookie of one  *)
(* browser, and AuthGate, which shows the application or a sign-in screen.     *)
EXTENDS Naturals

VARIABLES password, \* the instance has one
          cookie,   \* "none" | "valid" | "dead": expired, or signed with an old secret
          gate      \* what the page shows: "loading" | "setup" | "login" | "ready"

sessionVars == <<password, cookie, gate>>

\* makeAuthGuard for everything but /api/auth/ and /api/health.
Admitted == password /\ cookie = "valid"

SessionInit ==
    /\ password \in BOOLEAN
    /\ cookie = "none"
    /\ gate = "loading"

\* The answer of /api/auth/status, or none after all retries.
StatusAnswered ==
    /\ gate = "loading"
    /\ gate' = IF ~password THEN "setup" ELSE IF cookie = "valid" THEN "ready" ELSE "login"
    /\ UNCHANGED <<password, cookie>>
StatusUnreachable ==
    /\ gate = "loading"
    /\ gate' = "login"
    /\ UNCHANGED <<password, cookie>>

\* POST /api/auth/login with the right password; any other is refused.
Login ==
    /\ gate = "login" /\ password
    /\ cookie' = "valid" /\ gate' = "ready"
    /\ UNCHANGED password

\* POST /api/auth/setup; refused once there is a password.
SetUp ==
    /\ gate = "setup" /\ ~password
    /\ password' = TRUE /\ cookie' = "valid" /\ gate' = "ready"

SetUpElsewhere ==
    /\ ~password
    /\ password' = TRUE
    /\ UNCHANGED <<cookie, gate>>

\* Thirty days are over, or a restart brought another secret.
SessionEnds ==
    /\ cookie = "valid"
    /\ cookie' = "dead"
    /\ UNCHANGED <<password, gate>>

\* The page is loaded anew.
Visit ==
    /\ gate # "loading"
    /\ gate' = "loading"
    /\ UNCHANGED <<password, cookie>>

\* apiFetch sees a 401 and tells AuthGate, which takes the application down.
Unauthorized ==
    /\ ~Admitted
    /\ gate' = "login"
    /\ UNCHANGED <<password, cookie>>
=============================================================================
