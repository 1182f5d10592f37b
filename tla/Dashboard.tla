------------------------------ MODULE Dashboard ------------------------------
(***************************************************************************)
(* The gate of the dashboard: RequireAuth asks /users/me at every change   *)
(* of route, the interceptor of api/client.ts answers every 401 with a     *)
(* visit to /login, and the answers arrive in any order.                   *)
(***************************************************************************)
EXTENDS Naturals

CONSTANT MaxChecks  \* bound of the model: calls of /users/me

ASSUME ChecksAssumption == MaxChecks \in Nat

Checks == 1 .. MaxChecks

VARIABLES page,    \* app or login
          cookie,  \* whether the session cookie is valid
          jwt,     \* the token of localStorage: none, valid or expired
          check,   \* the check of the mounted effect, 0 when there is none
          stage,   \* of each check: new, sent, answered or done
          code,    \* of its answer: 200, 401 or 0 for an error of the network
          status   \* what RequireAuth shows

dashboardVars == <<page, cookie, jwt, check, stage, code, status>>

DashboardInit ==
    /\ page = "login" /\ cookie = FALSE /\ jwt = "none"
    /\ check = 0
    /\ stage = [c \in Checks |-> "new"]
    /\ code = [c \in Checks |-> 0]
    /\ status = "loading"

Unused(c) == stage[c] = "new" /\ \A d \in Checks : stage[d] = "new" => c <= d

\* The effect: the check before it, if any, is cancelled by not being `check` any more.
Ask ==
    /\ \E c \in Checks : Unused(c) /\ stage' = [stage EXCEPT ![c] = "sent"] /\ check' = c
    /\ UNCHANGED code

\* A navigation inside the application keeps the status until the answer arrives.
Navigate ==
    /\ page = "app"
    /\ Ask
    /\ UNCHANGED <<page, cookie, jwt, status>>

\* A login, or a reload (the button of the error included): the checks of the page
\* before are gone with it.
Visit ==
    /\ \E c \in Checks :
           /\ Unused(c)
           /\ stage' = [d \in Checks |-> IF d = c THEN "sent"
                                      ELSE IF stage[d] = "new" THEN "new" ELSE "done"]
           /\ check' = c
    /\ status' = "loading"
    /\ UNCHANGED code

Login ==
    /\ page = "login"
    /\ page' = "app"
    /\ cookie' = TRUE /\ jwt' = "valid"
    /\ Visit

Reload ==
    /\ page = "app"
    /\ Visit
    /\ UNCHANGED <<page, cookie, jwt>>

\* A wrong password: the interceptor drops the token and stays.
LoginRefused ==
    /\ page = "login"
    /\ jwt' = "none"
    /\ UNCHANGED <<page, cookie, check, stage, code, status>>

Expire ==
    /\ \/ cookie' = FALSE /\ UNCHANGED jwt
       \/ jwt = "valid" /\ jwt' = "expired" /\ UNCHANGED cookie
    /\ UNCHANGED <<page, check, stage, code, status>>

\* The backend prefers the Authorization header to the cookie.
Respond(c) ==
    /\ stage[c] = "sent"
    /\ stage' = [stage EXCEPT ![c] = "answered"]
    /\ \E a \in {0, IF jwt = "valid" \/ (jwt = "none" /\ cookie) THEN 200 ELSE 401} :
           code' = [code EXCEPT ![c] = a]
    /\ UNCHANGED <<page, cookie, jwt, check, status>>

Shown(a) == IF a = 200 THEN "authenticated" ELSE "error"

\* Variant: no check is ever cancelled.
DeliverAny(c) ==
    /\ stage[c] = "answered" /\ code[c] # 401
    /\ stage' = [stage EXCEPT ![c] = "done"]
    /\ status' = Shown(code[c])
    /\ UNCHANGED <<page, cookie, jwt, check, code>>

\* then() and catch(), of a check that was not cancelled
Deliver(c) ==
    /\ stage[c] = "answered" /\ code[c] # 401
    /\ stage' = [stage EXCEPT ![c] = "done"]
    /\ status' = IF c = check THEN Shown(code[c]) ELSE status
    /\ UNCHANGED <<page, cookie, jwt, check, code>>

\* The interceptor comes first, for a cancelled check too: the page is replaced.
Deliver401(c) ==
    /\ stage[c] = "answered" /\ code[c] = 401
    /\ page' = "login" /\ jwt' = "none"
    /\ stage' = [d \in Checks |-> IF stage[d] = "new" THEN "new" ELSE "done"]
    /\ check' = 0
    /\ UNCHANGED <<cookie, code, status>>

DashboardNext ==
    \/ Navigate \/ Login \/ Reload \/ LoginRefused \/ Expire
    \/ \E c \in Checks : Respond(c) \/ Deliver(c) \/ Deliver401(c)

DashboardSpec == DashboardInit /\ [][DashboardNext]_dashboardVars

-----------------------------------------------------------------------------
(* Properties.                                                             *)

\* Once the check of the route that is shown has been answered, the page shows that
\* answer: an answer to an earlier route that arrives late never shows the children to
\* somebody the latest check did not find, nor hides them.
LatestCheckDecides ==
    page = "app" /\ stage[check] = "done" => status = Shown(code[check])
==============================================================================
