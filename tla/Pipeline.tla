------------------------------ MODULE Pipeline ------------------------------
(* What stands between a request and its handler: the application of        *)
(* index.js (CORS, body, rate limit, CSRF), the guards of the routers       *)
(* (auth.js, audit.js) and the error handler. A request is                  *)
(*   origin     "none", "allowed" or "other"                                *)
(*   body       whether it parses                                           *)
(*   throttled  whether the address has used up its window                  *)
(*   method, route                                                          *)
(*   header     the Authorization header: "none", "basic" or "bearer"       *)
(*   bearer, session  the tokens of the header and of the session cookie    *)
(*   mirror     whether X-CSRF-Token repeats the CSRF cookie                *)
(*   outcome    what the handler does: a status, or an error it passes on   *)
(*   insert     whether PostgreSQL takes the row of the audit log           *)
(* and a token is a role (an access token), "refresh", "invalid" or "none". *)
EXTENDS Naturals, Sequences, SequencesExt

CONSTANT Production

ROLE_RANK == [viewer |-> 0, operator |-> 1, supervisor |-> 2, admin |-> 3]

SAFE_METHODS == {"GET", "HEAD", "OPTIONS"}
\* Variant: deletions are forgotten.
MUTATING_WITHOUT_DELETE == {"POST", "PUT", "PATCH"}

MUTATING_METHODS == {"POST", "PUT", "PATCH", "DELETE"}
BOOTSTRAP_POSTS == {"login", "refresh", "contact"}

extractToken(req) ==
    IF req.header = "bearer" THEN [source |-> "bearer", token |-> req.bearer]
    ELSE IF req.session # "none" THEN [source |-> "cookie", token |-> req.session]
    ELSE [source |-> "none", token |-> "none"]

\* req.user: its role, or "anonymous" when requireAuth answers 401
User(req) ==
    LET token == extractToken(req).token
    IN CASE token \in DOMAIN ROLE_RANK        -> token
         [] token = "none" /\ ~Production     -> "admin"
         [] OTHER                             -> "anonymous"

requireAuth(req) == IF User(req) = "anonymous" THEN 401 ELSE 0

requireRole(req, role) ==
    IF User(req) = "anonymous" THEN 403
    ELSE IF ROLE_RANK[User(req)] < ROLE_RANK[role] THEN 403 ELSE 0

\* Variant: any Authorization header is taken for a bearer token.
csrfByHeader(req) ==
    IF \/ req.method \in SAFE_METHODS
       \/ req.header # "none"
       \/ req.route \in BOOTSTRAP_POSTS
       \/ req.mirror
    THEN 0 ELSE 403

csrfMiddleware(req) ==
    IF \/ req.method \in SAFE_METHODS
       \/ req.header = "bearer"
       \/ req.route \in BOOTSTRAP_POSTS
       \/ req.mirror
    THEN 0 ELSE 403

\* The guards a route meets, in the order the routers are mounted. The router of the
\* attestations is mounted at /api and asks for a user before it looks at the path: what
\* is mounted after it, or nowhere, meets that question too.
Guards == [health |-> <<>>, login |-> <<>>, refresh |-> <<>>,
           logout |-> <<"auth">>, me |-> <<"auth", "audit">>,
           users |-> <<"auth", "audit", "admin">>,
           devices |-> <<"auth", "audit">>, metrics |-> <<"auth">>,
           issue |-> <<"auth", "audit", "auth", "supervisor">>,
           verify |-> <<"auth">>, revoke |-> <<"auth", "admin">>,
           contact |-> <<"auth">>, unknown |-> <<"auth", "missing">>]

Refusal(req, guard) ==
    CASE guard = "auth"               -> requireAuth(req)
      [] guard = "audit"              -> 0
      [] guard = "missing"            -> 404
      [] guard \in DOMAIN ROLE_RANK   -> requireRole(req, guard)

\* What the application asks before any router
Entry(req) ==
    CASE req.origin = "other"      -> 500
      [] ~req.body                 -> 400
      [] req.throttled             -> 429
      [] csrfMiddleware(req) # 0   -> csrfMiddleware(req)
      [] OTHER                     -> 0

\* The guards of the route that let the request pass, up to the first that does not
Met(req) ==
    LET guards == Guards[req.route]
        stops  == {i \in DOMAIN guards : Refusal(req, guards[i]) # 0}
    IN IF stops = {} THEN Len(guards) ELSE Min(stops) - 1

\* buildProblem: the status of an error, and whether its message is sent
Problem(status) ==
    [status |-> IF status >= 400 THEN status ELSE 500, told |-> status < 500]

\* errorHandler: an error of the handler has the status its object carries, 500 when it
\* carries none (0 here).
Handled(outcome) ==
    CASE outcome.kind = "answer" -> [status |-> outcome.status, told |-> FALSE]
      [] outcome.status = 0      -> Problem(500)
      [] OTHER                   -> Problem(outcome.status)

\* auditMiddleware, once the response is finished; writeAuditRow() logs an INSERT that fails.
Recorded(req, status) ==
    /\ req.method \in MUTATING_METHODS
    /\ status < 400 \/ status \in {401, 403}
    /\ req.insert

\* reached: whether the handler ran, and so did what it does
Serve(req) ==
    LET guards == Guards[req.route]
        met    == Met(req)
        reply  == CASE Entry(req) # 0     -> Problem(Entry(req))
                    [] met < Len(guards)  -> Problem(Refusal(req, guards[met + 1]))
                    [] OTHER              -> Handled(req.outcome)
    IN [status |-> reply.status, told |-> reply.told,
        reached |-> Entry(req) = 0 /\ met = Len(guards),
        user |-> User(req), source |-> extractToken(req).source,
        audited |-> /\ Entry(req) = 0
                    /\ Contains(SubSeq(guards, 1, met), "audit")
                    /\ Recorded(req, reply.status)]

-----------------------------------------------------------------------------
(* POST /contact behind its two limiters. The form is                       *)
(*   disabled, limited, valid (consent given), bot (the honeypot is filled),*)
(*   smtp ("none", "down", "up"), reply (the autoreply can be sent)         *)
contact(form) ==
    CASE form.limited          -> [status |-> 429, sent |-> FALSE]
      [] form.disabled         -> [status |-> 503, sent |-> FALSE]
      [] ~form.valid           -> [status |-> 400, sent |-> FALSE]
      [] form.bot              -> [status |-> 200, sent |-> FALSE]
      [] form.smtp = "none"    -> [status |-> 503, sent |-> FALSE]
      [] form.smtp = "down"    -> [status |-> 500, sent |-> FALSE]
      [] OTHER                 -> [status |-> 200, sent |-> TRUE]
=============================================================================
