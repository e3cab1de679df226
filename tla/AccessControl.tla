--------------------------- MODULE AccessControl ---------------------------
(***************************************************************************)
(* Who may browse and who may delete: AUTH_MODE, the two independent       *)
(* logins (the UI identity and the user's own registry credentials), the   *)
(* session cookie that carries both, and the guards of deps.py, across     *)
(* restarts that change the mode, the secret or ALLOW_REGISTRY_LOGIN.      *)
(*                                                                         *)
(* The session is the cookie: the server keeps none.  A request carries    *)
(* the cookie its browser had when it was sent, the handler works on a     *)
(* private copy, and the copy comes back with the response.  A browser's   *)
(* requests overlap, so copies cross on the way.  (SessionMiddleware is    *)
(* Starlette's: it rejects a cookie signed with another secret, writes a   *)
(* changed session, clears an emptied one, and may or may not write an     *)
(* unchanged one again.)                                                   *)
(***************************************************************************)
EXTENDS Integers

CONSTANTS
    Browsers,      \* cookie jars
    Requests,      \* places for requests in flight
    Admin,         \* settings.admin_username
    RegUsers,      \* accounts of the upstream registry
    MaxRestarts,   \* bound on the restarts
    None

Modes == {"public", "protected", "admin"}

VARIABLES
    settings,      \* get_settings() of the running process
    cookie,        \* cookie[b]: the signed session browser b holds, or None
    req,           \* req[q]: a request in flight, or None
    audit,         \* manifest_deleted events: the browser, the actor, the key
    epoch,         \* history: how often the mode has changed
    restarts,
    minted,        \* history: the identities issued, with browser and key
    out            \* history: browsers signed out, with nothing else in flight

vars == << settings, cookie, req, audit, epoch, restarts, minted, out >>

Identity == [username : {Admin}, roles : SUBSET {"admin"}, mode : Modes, born : Nat]
Creds == [user : RegUsers, key : Nat]
Session == [identity : Identity \cup {None}, reg : Creds \cup {None}]
Empty == [identity |-> None, reg |-> None]
Cookie == [key : Nat, session : Session]

ASSUME NoneAssumption == None \notin Cookie

-----------------------------------------------------------------------------
\* Mutant of Loaded: the cookie's signature is not checked.
Loaded_Unsigned(b) == IF cookie[b] # None THEN cookie[b].session ELSE Empty

\* The session a request starts with: that of its cookie, if the signature is
\* the running process's.
Loaded(b) ==
    IF cookie[b] # None /\ cookie[b].key = settings.secret THEN cookie[b].session ELSE Empty

\* Identity.from_session and get_identity; None stands for ANONYMOUS.
GetIdentity(s) ==
    IF s.identity # None /\ s.identity.mode = settings.mode THEN s.identity ELSE None

\* require_browse_access; a request that is let through waits for the registry.
BrowseAccess(s) ==
    IF settings.mode = "public" \/ GetIdentity(s) # None THEN "pending" ELSE "401"

\* Mutants of AdminAccess: nobody needs to have logged in; the login is asked for
\* before the mode is looked at.
AdminAccess_Anybody(s) == IF settings.mode # "admin" THEN "403" ELSE "pending"
AdminAccess_LoginFirst(s) ==
    IF GetIdentity(s) = None THEN "401"
    ELSE IF "admin" \notin GetIdentity(s).roles THEN "403" ELSE "pending"

\* require_admin
AdminAccess(s) ==
    IF settings.mode # "admin" THEN "403"
    ELSE IF GetIdentity(s) = None THEN "401"
    ELSE IF "admin" \notin GetIdentity(s).roles THEN "403"
    ELSE "pending"

\* Mutant of GrantedRoles: every login gets the mode's name for a role.
GrantedRoles_Mode == {settings.mode}

\* get_auth_provider: what a successful login grants.
GrantedRoles == IF settings.mode = "admin" THEN {"admin"} ELSE {}

\* _session_actor: the identity's name, else the registry user's, else a marker.
Actor(s) ==
    IF s.identity # None THEN s.identity.username
    ELSE IF s.reg # None THEN s.reg.user ELSE "env-creds"

\* _session_credentials: the registry login the request goes upstream with; None
\* means the credentials of the environment.
SessionCredentials(s) ==
    IF s.reg # None /\ s.reg.key = settings.secret THEN s.reg.user ELSE None

-----------------------------------------------------------------------------
\* Browser b sends a request of the given kind through the free place q; the
\* handler turns the session s it was sent with into s2.  `asked' remembers
\* whether the application let it through to the registry.
InFlight(b) == {q \in Requests : req[q] # None /\ req[q].b = b}

Arrive(b, q, kind, s, s2, status) ==
    /\ req[q] = None
    /\ req' = [p \in Requests |->
                  IF p = q THEN [b |-> b, kind |-> kind, before |-> s, after |-> s2,
                                 status |-> status, asked |-> status = "pending",
                                 alone |-> InFlight(b) = {}]
                  ELSE IF p \in InFlight(b) THEN [req[p] EXCEPT !.alone = FALSE]
                  ELSE req[p]]
    /\ UNCHANGED << settings, cookie, audit, epoch, restarts >>

Browse(b, q) ==
    LET s == Loaded(b) IN
    /\ Arrive(b, q, "browse", s, s, BrowseAccess(s))
    /\ UNCHANGED << minted, out >>

Delete(b, q) ==
    LET s == Loaded(b) IN
    /\ Arrive(b, q, "delete", s, s, AdminAccess(s))
    /\ UNCHANGED << minted, out >>

\* POST /api/auth/ui-login and the form at /web/auth/login: only the first
\* drops the old identity when the password is wrong.
UiLogin(b, q, valid, api) ==
    LET s == Loaded(b)
        id == [username |-> Admin, roles |-> GrantedRoles, mode |-> settings.mode, born |-> epoch]
    IN  \/ /\ settings.mode = "public"
           /\ Arrive(b, q, "ui_login", s, s, "403")
           /\ UNCHANGED << minted, out >>
        \/ /\ settings.mode # "public" /\ valid
           /\ Arrive(b, q, "ui_login", s, [s EXCEPT !.identity = id], "ok")
           /\ minted' = minted \cup {[b |-> b, key |-> settings.secret, id |-> id]}
           /\ out' = [out EXCEPT ![b] = FALSE]
        \/ /\ settings.mode # "public" /\ ~ valid
           /\ Arrive(b, q, "ui_login", s, IF api THEN [s EXCEPT !.identity = None] ELSE s, "401")
           /\ UNCHANGED << minted, out >>

\* Mutants of UiLogout: the wrong half of the session goes, or both halves go.
UiLogout_Wrong(b, q) ==
    LET s == Loaded(b) IN
    /\ Arrive(b, q, "ui_logout", s, [s EXCEPT !.reg = None], "ok")
    /\ UNCHANGED << minted, out >>
UiLogout_Clears(b, q) ==
    /\ Arrive(b, q, "ui_logout", Loaded(b), Empty, "ok")
    /\ UNCHANGED << minted, out >>

UiLogout(b, q) ==
    LET s == Loaded(b) IN
    /\ Arrive(b, q, "ui_logout", s, [s EXCEPT !.identity = None], "ok")
    /\ UNCHANGED << minted, out >>

Logout(b, q) ==
    /\ Arrive(b, q, "logout", Loaded(b), Empty, "ok")
    /\ UNCHANGED << minted, out >>

\* POST /api/auth/login and the form at /login, up to the probe of the registry.
RegLogin(b, q) ==
    LET s == Loaded(b) IN
    /\ Arrive(b, q, "reg_login", s, s, IF settings.allow THEN "pending" ELSE "403")
    /\ UNCHANGED << minted, out >>

-----------------------------------------------------------------------------
\* The awaits of a handler end.

Pending(q, kind) == req[q] # None /\ req[q].kind = kind /\ req[q].status = "pending"

\* What the client of a request that went to the registry is answered: the
\* registry's own refusal is passed on (main.py:66), `failed' stands for every
\* other status.  A web page tells the error itself, which is "ok".
Answers == {"ok", "401", "403", "failed"}

BrowseDone(q, answer) ==
    /\ Pending(q, "browse")
    /\ req' = [req EXCEPT ![q].status = answer]
    /\ UNCHANGED << settings, cookie, audit, epoch, restarts, minted, out >>

\* The registry has deleted the manifest, or would not.
DeleteDone(q, answer) ==
    /\ Pending(q, "delete")
    /\ req' = [req EXCEPT ![q].status = answer]
    /\ audit' = IF answer = "ok"
                THEN audit \cup {[b |-> req[q].b, actor |-> Actor(req[q].before),
                                  key |-> settings.secret]}
                ELSE audit
    /\ UNCHANGED << settings, cookie, epoch, restarts, minted, out >>

\* The registry accepted user u's credentials.
ProbeAccepted(q, u) ==
    /\ Pending(q, "reg_login")
    /\ req' = [req EXCEPT ![q].status = "ok",
                          ![q].after.reg = [user |-> u, key |-> settings.secret]]
    /\ UNCHANGED << settings, cookie, audit, epoch, restarts, minted, out >>

\* ... or not: only the API handler drops the old credentials.
ProbeRejected(q, api) ==
    /\ Pending(q, "reg_login")
    /\ req' = [req EXCEPT ![q].status = "401",
                          ![q].after.reg = IF api THEN None ELSE req[q].after.reg]
    /\ UNCHANGED << settings, cookie, audit, epoch, restarts, minted, out >>

-----------------------------------------------------------------------------
\* The response reaches the browser with the handler's copy of the session.
SetCookie(b, before, after) ==
    LET written == [key |-> settings.secret, session |-> after] IN
    IF after # before THEN {IF after = Empty THEN None ELSE written}
    ELSE {cookie[b]} \cup (IF after = Empty THEN {} ELSE {written})

Respond(q) ==
    /\ req[q] # None
    /\ req[q].status # "pending"
    /\ LET b == req[q].b IN
       /\ \E c \in SetCookie(b, req[q].before, req[q].after) :
             cookie' = [cookie EXCEPT ![b] = c]
       /\ out' = IF /\ req[q].kind \in {"ui_logout", "logout"}
                    /\ req[q].before.identity # None /\ InFlight(b) = {q}
                 THEN [out EXCEPT ![b] = TRUE] ELSE out
    /\ req' = [req EXCEPT ![q] = None]
    /\ UNCHANGED << settings, audit, epoch, restarts, minted >>

\* The operator restarts the application, with other settings or the same.
\* A secret that is not configured is generated anew.
Restart(mode, allow, rotate) ==
    /\ restarts < MaxRestarts
    /\ restarts' = restarts + 1
    /\ settings' = [mode |-> mode, allow |-> allow,
                    secret |-> settings.secret + (IF rotate THEN 1 ELSE 0)]
    /\ epoch' = epoch + (IF mode # settings.mode THEN 1 ELSE 0)
    /\ req' = [q \in Requests |-> None]
    /\ UNCHANGED << cookie, audit, minted, out >>

-----------------------------------------------------------------------------
Init ==
    /\ settings \in [mode : Modes, allow : BOOLEAN, secret : {0}]
    /\ cookie = [b \in Browsers |-> None]
    /\ req = [q \in Requests |-> None]
    /\ audit = {}
    /\ epoch = 0
    /\ restarts = 0
    /\ minted = {}
    /\ out = [b \in Browsers |-> FALSE]

Next ==
    \/ \E b \in Browsers, q \in Requests :
          \/ Browse(b, q) \/ Delete(b, q)
          \/ \E valid, api \in BOOLEAN : UiLogin(b, q, valid, api)
          \/ UiLogout(b, q) \/ Logout(b, q) \/ RegLogin(b, q)
    \/ \E q \in Requests :
          \/ \E answer \in Answers : BrowseDone(q, answer) \/ DeleteDone(q, answer)
          \/ \E u \in RegUsers : ProbeAccepted(q, u)
          \/ \E api \in BOOLEAN : ProbeRejected(q, api)
          \/ Respond(q)
    \/ \E mode \in Modes, allow, rotate \in BOOLEAN : Restart(mode, allow, rotate)

Spec == Init /\ [][Next]_vars

-----------------------------------------------------------------------------
Request == [b : Browsers, kind : {"browse", "delete", "ui_login", "ui_logout", "logout", "reg_login"},
            before : Session, after : Session,
            status : Answers \cup {"pending"}, asked : BOOLEAN, alone : BOOLEAN]

\* The session in the cookie of b, whoever signed it.
Held(b) == IF cookie[b] = None THEN Empty ELSE cookie[b].session

\* The sets the variables range over.
TypeOK ==
    /\ settings \in [mode : Modes, allow : BOOLEAN, secret : Nat]
    /\ cookie \in [Browsers -> Cookie \cup {None}]
    /\ req \in [Requests -> Request \cup {None}]
    /\ audit \subseteq [b : Browsers, actor : {Admin, "env-creds"} \cup RegUsers, key : Nat]
    /\ epoch \in Nat /\ restarts \in Nat
    /\ minted \subseteq [b : Browsers, key : Nat, id : Identity]
    /\ out \in [Browsers -> BOOLEAN]

\* Every delete that went through was made by someone who had logged in from
\* that browser, in admin mode and under the secret in force when the delete was
\* made, and the audit event names that person: whatever the modes the process
\* went through, an identity of protected mode, of another browser or of an
\* earlier secret never deletes (require_admin, from_session, _session_actor).
DeleteAuthorized ==
    \A e \in audit : \E m \in minted :
        /\ m.b = e.b /\ m.key = e.key
        /\ m.id.mode = "admin" /\ "admin" \in m.id.roles
        /\ m.id.username = e.actor

\* A refusal says truly whether logging in helps: the application itself answers
\* 401 (which sends a browser to the login page) only when UI login is open, and
\* answers a delete 403 only when no login of this mode may delete.  The
\* registry's own 401 and 403 look the same; they are passed on only to people
\* who need not log in or have done so.
RefusalsHelp ==
    \A q \in Requests : req[q] # None /\ req[q].kind \in {"browse", "delete"} =>
        /\ req[q].status = "401" /\ ~ req[q].asked => settings.mode # "public"
        /\ req[q].status = "403" /\ ~ req[q].asked =>
              req[q].kind = "delete" /\ settings.mode # "admin"
        /\ req[q].asked =>
              \/ req[q].kind = "browse" /\ settings.mode = "public"
              \/ GetIdentity(req[q].before) # None

\* A sign-out answered after everything else the browser had asked for is final:
\* whatever crossed it on the way, and whatever the browser asks for after it
\* (failed logins, registry logins, restarts into other modes), it holds no
\* identity until its next successful UI login (api/auth.py:125, routes.py:895).
StaysOut ==
    \A b \in Browsers : out[b] => Held(b).identity = None

KeepsOther ==
    \A q \in Requests, b \in Browsers :
        Respond(q) /\ req[q].b = b /\ req[q].alone /\ req[q].before = Held(b) =>
            /\ req[q].kind \in {"ui_login", "ui_logout"} => Held(b)'.reg = Held(b).reg
            /\ req[q].kind = "reg_login" => Held(b)'.identity = Held(b).identity

\* The two logins are independent (web/routes.py:862): a UI login or logout,
\* successful or not, leaves the registry credentials in the cookie as they
\* were, and a registry login leaves the identity, when the browser's requests
\* do not overlap (of those the last response wins) and its cookie is still valid.
Orthogonal == [][KeepsOther]_vars

\* Whoever is logged in to the registry goes upstream under that name: a session
\* the process accepts never holds credentials it cannot decrypt, so it never
\* falls back to the environment's without a word (deps.py:77-93, sessions.py:12).
CredentialsReadable ==
    \A b \in Browsers :
        LET s == Loaded(b) IN s.reg # None => SessionCredentials(s) = s.reg.user

\* CHANGELOG.md:133 "Flipping the mode in env [...] invalidates all existing UI
\* sessions on the next request - users land on /login and re-authenticate": an
\* identity that a guard accepts was issued after the latest change of the mode.
FlipForcesLogin ==
    \A q \in Requests :
        req[q] # None /\ req[q].kind \in {"browse", "delete"} =>
            LET id == GetIdentity(req[q].before) IN id # None => id.born = epoch

=============================================================================
