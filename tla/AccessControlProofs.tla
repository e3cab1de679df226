------------------------ MODULE AccessControlProofs ------------------------
(***************************************************************************)
(* The invariants of AccessControl, for any number of browsers, requests   *)
(* in flight and restarts.                                                 *)
(*                                                                         *)
(* The argument: every identity a browser or a request holds was issued to *)
(* that browser, under the secret that signs the copy (SessionOK), and what*)
(* a handler did to its copy depends only on its kind and its status       *)
(* (HandlerOK).  A delete waits for the registry only if the identity it   *)
(* arrived with is one of admin mode, and those all have the admin role.   *)
(***************************************************************************)
EXTENDS AccessControl, TLAPS

\* Session s, held for browser b in a copy signed with key, is what was issued,
\* where issued is the set of logins so far.
SessionOK(issued, b, key, s) ==
    /\ s.identity # None => [b |-> b, key |-> key, id |-> s.identity] \in issued
    /\ s.reg # None => s.reg.key = key

\* What the handlers of each kind may have made of session s and answered, asked
\* being whether they let the request through to the registry.
HandlerOK(kind, s, s2, status, asked) ==
    /\ kind \in {"browse", "delete"} => s2 = s
    /\ kind \in {"ui_login", "ui_logout"} => s2.reg = s.reg
    /\ kind = "reg_login" => s2.identity = s.identity
    /\ kind \in {"ui_logout", "logout"} => s2.identity = None
    /\ status = "pending" => asked /\ kind \in {"browse", "delete", "reg_login"}
    /\ kind = "delete" /\ asked =>
          settings.mode = "admin" /\ s.identity # None /\ s.identity.mode = "admin"
    /\ kind = "browse" /\ asked => settings.mode = "public" \/ GetIdentity(s) # None
    /\ kind \in {"browse", "delete"} /\ ~ asked /\ status = "401" => settings.mode # "public"
    /\ kind \in {"browse", "delete"} /\ ~ asked /\ status = "403" =>
          kind = "delete" /\ settings.mode # "admin"

CookiesOK ==
    \A b \in Browsers : cookie[b] # None => SessionOK(minted, b, cookie[b].key, cookie[b].session)

RequestsOK ==
    \A q \in Requests : req[q] # None =>
        /\ SessionOK(minted, req[q].b, settings.secret, req[q].before)
        /\ SessionOK(minted, req[q].b, settings.secret, req[q].after)
        /\ HandlerOK(req[q].kind, req[q].before, req[q].after, req[q].status, req[q].asked)

\* Identities of admin mode were granted the admin role.
RolesOK == \A m \in minted : m.id.mode = "admin" => "admin" \in m.id.roles

\* Nothing a signed-out browser has in flight holds an identity.
QuietOK ==
    \A b \in Browsers : out[b] =>
        /\ Held(b).identity = None
        /\ \A q \in Requests : req[q] # None /\ req[q].b = b =>
              req[q].before.identity = None /\ req[q].after.identity = None

\* The inductive invariant.
IInv == TypeOK /\ CookiesOK /\ RequestsOK /\ RolesOK /\ QuietOK /\ DeleteAuthorized

-----------------------------------------------------------------------------
\* A request starts with a session that was issued to its browser under the
\* running process's secret (Loaded), and without an identity if the browser
\* holds none.
LEMMA LoadedOK ==
    ASSUME TypeOK, CookiesOK, NEW b \in Browsers
    PROVE  /\ Loaded(b) \in Session
           /\ SessionOK(minted, b, settings.secret, Loaded(b))
           /\ Held(b).identity = None => Loaded(b).identity = None
<1>1. cookie[b] # None => cookie[b] \in [key : Nat, session : Session]
  BY DEF TypeOK, Cookie
<1>2. CASE cookie[b] # None /\ cookie[b].key = settings.secret
  BY <1>1, <1>2 DEF Loaded, Held, CookiesOK
<1>3. CASE ~ (cookie[b] # None /\ cookie[b].key = settings.secret)
  BY <1>3 DEF Loaded, Session, Empty, SessionOK
<1> QED BY <1>2, <1>3

\* A request that arrives keeps the invariant when its session was issued, its
\* handler kept to HandlerOK and it brings no identity to a signed-out browser
\* (Arrive).
LEMMA ArrivalOK ==
    ASSUME IInv, NEW b \in Browsers, NEW q \in Requests,
           NEW kind \in {"browse", "delete", "ui_login", "ui_logout", "logout", "reg_login"},
           NEW s \in Session, NEW s2 \in Session,
           NEW status \in {"ok", "pending", "401", "403"},
           Arrive(b, q, kind, s, s2, status),
           minted \subseteq minted',
           minted' \subseteq [b : Browsers, key : Nat, id : Identity],
           RolesOK',
           out' \in [Browsers -> BOOLEAN],
           \A c \in Browsers : out'[c] => out[c],
           SessionOK(minted', b, settings.secret, s),
           SessionOK(minted', b, settings.secret, s2),
           HandlerOK(kind, s, s2, status, status = "pending"),
           out'[b] => s.identity = None /\ s2.identity = None
    PROVE  IInv'
<1> USE DEF IInv
<1> DEFINE new == [b |-> b, kind |-> kind, before |-> s, after |-> s2,
                   status |-> status, asked |-> status = "pending", alone |-> InFlight(b) = {}]
<1>1. /\ cookie' = cookie /\ settings' = settings /\ audit' = audit
      /\ epoch' = epoch /\ restarts' = restarts
  BY DEF Arrive
<1>2. /\ new \in Request
      /\ new.b = b /\ new.kind = kind /\ new.before = s /\ new.after = s2
      /\ new.status = status /\ new.asked = (status = "pending")
  BY DEF Request, Answers
<1>3. /\ req'[q] = new
      /\ \A p \in Requests \ {q} :
            \/ req'[p] = req[p]
            \/ req[p] # None /\ req'[p] = [req[p] EXCEPT !.alone = FALSE]
  BY DEF Arrive, InFlight
<1>a. req' = [p \in Requests |-> req'[p]]
  BY DEF Arrive
<1> HIDE DEF new
<1>4. req' \in [Requests -> Request \cup {None}]
  <2>1. \A p \in Requests : req[p] # None => req[p] \in Request
    BY DEF TypeOK
  <2>2. \A r \in Request : [r EXCEPT !.alone = FALSE] \in Request
    BY DEF Request
  <2>3. \A p \in Requests : req'[p] \in Request \cup {None}
    <3>1. ASSUME NEW p \in Requests \ {q}  PROVE req'[p] \in Request \cup {None}
      <4>1. CASE req'[p] = req[p]
        BY <2>1, <4>1
      <4>2. CASE req[p] # None /\ req'[p] = [req[p] EXCEPT !.alone = FALSE]
        <5>1. [req[p] EXCEPT !.alone = FALSE] \in Request
          BY <2>1, <2>2, <4>2
        <5> QED BY <4>2, <5>1
      <4> QED BY <1>3, <4>1, <4>2
    <3> QED BY <1>2, <1>3, <3>1
  <2>4. req' = [p \in Requests |-> req'[p]]
    BY <1>a
  <2> QED BY <2>3, <2>4
<1>5. TypeOK'
  BY <1>1, <1>4 DEF TypeOK
<1>6. \A p \in Requests \ {q} : req'[p] # None =>
         /\ req[p] # None
         /\ req'[p].b = req[p].b /\ req'[p].kind = req[p].kind
         /\ req'[p].before = req[p].before /\ req'[p].after = req[p].after
         /\ req'[p].status = req[p].status /\ req'[p].asked = req[p].asked
  <2>1. \A r \in Request : LET r2 == [r EXCEPT !.alone = FALSE] IN
           r2.b = r.b /\ r2.kind = r.kind /\ r2.before = r.before
           /\ r2.after = r.after /\ r2.status = r.status /\ r2.asked = r.asked
    BY DEF Request
  <2>2. \A p \in Requests : req[p] # None => req[p] \in Request
    BY DEF TypeOK
  <2> QED BY <1>3, <2>1, <2>2
<1>7. CookiesOK'
  BY <1>1 DEF CookiesOK, SessionOK
<1>8. RequestsOK'
  <2>1. ASSUME NEW p \in Requests, req'[p] # None, p # q
        PROVE  /\ SessionOK(minted', req'[p].b, settings'.secret, req'[p].before)
               /\ SessionOK(minted', req'[p].b, settings'.secret, req'[p].after)
               /\ HandlerOK(req[p].kind, req[p].before, req[p].after, req[p].status, req[p].asked)'
    BY <1>1, <1>6, <2>1 DEF RequestsOK, SessionOK, HandlerOK, GetIdentity
  <2>2. /\ SessionOK(minted', req'[q].b, settings'.secret, req'[q].before)
        /\ SessionOK(minted', req'[q].b, settings'.secret, req'[q].after)
        /\ HandlerOK(req[q].kind, req[q].before, req[q].after, req[q].status, req[q].asked)'
    BY <1>1, <1>2, <1>3 DEF SessionOK, HandlerOK, GetIdentity
  <2> QED BY <2>1, <2>2 DEF RequestsOK
<1>9. QuietOK'
  BY <1>1, <1>2, <1>3, <1>6 DEF QuietOK, Held
<1>10. DeleteAuthorized'
  BY <1>1 DEF DeleteAuthorized
<1> QED BY <1>5, <1>7, <1>8, <1>9, <1>10

-----------------------------------------------------------------------------
\* Initially nobody holds anything.
LEMMA InitOK == Init => IInv
BY DEF Init, IInv, TypeOK, CookiesOK, RequestsOK, RolesOK, QuietOK, DeleteAuthorized,
       Modes, Held, Empty, Identity, Session

\* The guards and the login and logout handlers keep the invariant (deps.py:165,
\* deps.py:184, api/auth.py:61-129, web/routes.py:799-910).
LEMMA ArrivalsOK ==
    ASSUME IInv, NEW b \in Browsers, NEW q \in Requests,
           \/ Browse(b, q) \/ Delete(b, q)
           \/ \E valid, api \in BOOLEAN : UiLogin(b, q, valid, api)
           \/ UiLogout(b, q) \/ Logout(b, q) \/ RegLogin(b, q)
    PROVE  IInv'
<1> DEFINE s == Loaded(b)
<1>1. s \in Session /\ SessionOK(minted, b, settings.secret, s)
  BY LoadedOK DEF IInv
<1>2. out[b] => s.identity = None
  BY LoadedOK DEF IInv, QuietOK
<1>3. /\ s.identity \in Identity \cup {None} /\ s.reg \in Creds \cup {None}
      /\ Empty \in Session /\ [s EXCEPT !.identity = None] \in Session
  BY <1>1 DEF Session, Empty
<1>4. /\ minted \subseteq [b : Browsers, key : Nat, id : Identity]
      /\ out \in [Browsers -> BOOLEAN] /\ RolesOK
      /\ settings.mode \in Modes /\ settings.secret \in Nat /\ epoch \in Nat
  BY DEF IInv, TypeOK
<1>5. ASSUME minted' = minted, out' = out, settings' = settings,
             NEW s2 \in Session, s2.identity \in {s.identity, None}, s2.reg \in {s.reg, None}
      PROVE  /\ SessionOK(minted', b, settings.secret, s) /\ SessionOK(minted', b, settings.secret, s2)
             /\ out'[b] => s.identity = None /\ s2.identity = None
             /\ RolesOK'
             /\ \A c \in Browsers : out'[c] => out[c]
  BY <1>1, <1>2, <1>4, <1>5 DEF SessionOK, RolesOK
<1>6. CASE Browse(b, q)
  <2>1. Arrive(b, q, "browse", s, s, BrowseAccess(s)) /\ minted' = minted /\ out' = out
        /\ settings' = settings
    BY <1>6 DEF Browse, Arrive
  <2>2. /\ BrowseAccess(s) \in {"pending", "401"}
        /\ HandlerOK("browse", s, s, BrowseAccess(s), BrowseAccess(s) = "pending")
    BY DEF BrowseAccess, HandlerOK
  <2> QED BY <1>1, <1>4, <1>5, <2>1, <2>2, ArrivalOK
<1>7. CASE Delete(b, q)
  <2>1. Arrive(b, q, "delete", s, s, AdminAccess(s)) /\ minted' = minted /\ out' = out
        /\ settings' = settings
    BY <1>7 DEF Delete, Arrive
  <2>2. GetIdentity(s) # None =>
           GetIdentity(s) = s.identity /\ s.identity # None /\ s.identity.mode = settings.mode
    BY DEF GetIdentity
  <2>3. GetIdentity(s) # None /\ settings.mode = "admin" => "admin" \in GetIdentity(s).roles
    <3> SUFFICES ASSUME GetIdentity(s) # None, settings.mode = "admin"
                 PROVE  "admin" \in s.identity.roles
      BY <2>2
    <3>1. [b |-> b, key |-> settings.secret, id |-> s.identity] \in minted
      BY <1>1, <2>2 DEF SessionOK
    <3> QED BY <3>1, <2>2, <1>4 DEF RolesOK
  <2>4. /\ AdminAccess(s) \in {"401", "403", "pending"}
        /\ HandlerOK("delete", s, s, AdminAccess(s), AdminAccess(s) = "pending")
    BY <2>2, <2>3 DEF AdminAccess, HandlerOK
  <2> QED BY <1>1, <1>4, <1>5, <2>1, <2>4, ArrivalOK
<1>8. ASSUME NEW valid \in BOOLEAN, NEW api \in BOOLEAN, UiLogin(b, q, valid, api)
      PROVE  IInv'
  <2> DEFINE id == [username |-> Admin, roles |-> GrantedRoles, mode |-> settings.mode,
                    born |-> epoch]
             s2 == [s EXCEPT !.identity = id]
             s3 == IF api THEN [s EXCEPT !.identity = None] ELSE s
  <2>1. CASE Arrive(b, q, "ui_login", s, s, "403") /\ UNCHANGED << minted, out >>
    <3>1. HandlerOK("ui_login", s, s, "403", FALSE)
      BY DEF HandlerOK
    <3>2. settings' = settings
      BY <2>1 DEF Arrive
    <3> QED BY <1>1, <1>4, <1>5, <2>1, <3>1, <3>2, ArrivalOK
  <2>2. CASE /\ Arrive(b, q, "ui_login", s, s2, "ok")
             /\ minted' = minted \cup {[b |-> b, key |-> settings.secret, id |-> id]}
             /\ out' = [out EXCEPT ![b] = FALSE]
    <3>1. id \in Identity /\ (id.mode = "admin" => "admin" \in id.roles)
      BY <1>4 DEF Identity, GrantedRoles
    <3>2. s2 \in Session /\ s2.identity = id /\ s2.reg = s.reg
      BY <1>1, <3>1 DEF Session
    <3>3. settings' = settings
      BY <2>2 DEF Arrive
    <3>4. SessionOK(minted', b, settings.secret, s) /\ SessionOK(minted', b, settings.secret, s2)
      BY <1>1, <2>2, <3>2, <3>3 DEF SessionOK
    <3>5. RolesOK' /\ minted' \subseteq [b : Browsers, key : Nat, id : Identity]
      BY <1>4, <2>2, <3>1 DEF RolesOK
    <3>6. /\ out' \in [Browsers -> BOOLEAN] /\ ~ out'[b]
          /\ \A c \in Browsers : out'[c] => out[c]
      BY <1>4, <2>2
    <3>7. HandlerOK("ui_login", s, s2, "ok", FALSE)
      BY <3>2 DEF HandlerOK
    <3> QED BY <1>1, <2>2, <3>2, <3>4, <3>5, <3>6, <3>7, ArrivalOK
  <2>3. CASE Arrive(b, q, "ui_login", s, s3, "401") /\ UNCHANGED << minted, out >>
    <3>1. s3 \in Session /\ s3.identity \in {s.identity, None} /\ s3.reg = s.reg
      BY <1>1, <1>3 DEF Session
    <3>2. HandlerOK("ui_login", s, s3, "401", FALSE)
      BY <3>1 DEF HandlerOK
    <3>3. settings' = settings
      BY <2>3 DEF Arrive
    <3> QED BY <1>1, <1>4, <1>5, <2>3, <3>1, <3>2, <3>3, ArrivalOK
  <2> QED BY <1>8, <2>1, <2>2, <2>3 DEF UiLogin
<1>9. CASE UiLogout(b, q)
  <2> DEFINE s2 == [s EXCEPT !.identity = None]
  <2>1. Arrive(b, q, "ui_logout", s, s2, "ok") /\ minted' = minted /\ out' = out
        /\ settings' = settings
    BY <1>9 DEF UiLogout, Arrive
  <2>2. s2 \in Session /\ s2.identity = None /\ s2.reg = s.reg
    BY <1>1, <1>3 DEF Session
  <2>3. HandlerOK("ui_logout", s, s2, "ok", FALSE)
    BY <2>2 DEF HandlerOK
  <2> QED BY <1>1, <1>4, <1>5, <2>1, <2>2, <2>3, ArrivalOK
<1>10. CASE Logout(b, q)
  <2>1. Arrive(b, q, "logout", s, Empty, "ok") /\ minted' = minted /\ out' = out
        /\ settings' = settings
    BY <1>10 DEF Logout, Arrive
  <2>2. Empty.identity = None /\ Empty.reg = None
    BY DEF Empty
  <2>3. HandlerOK("logout", s, Empty, "ok", FALSE)
    BY <2>2 DEF HandlerOK
  <2> QED BY <1>1, <1>3, <1>4, <1>5, <2>1, <2>2, <2>3, ArrivalOK
<1>11. CASE RegLogin(b, q)
  <2> DEFINE status == IF settings.allow THEN "pending" ELSE "403"
  <2>1. Arrive(b, q, "reg_login", s, s, status) /\ minted' = minted /\ out' = out
        /\ settings' = settings
    BY <1>11 DEF RegLogin, Arrive
  <2>2. status \in {"pending", "403"} /\ HandlerOK("reg_login", s, s, status, status = "pending")
    BY DEF HandlerOK
  <2> QED BY <1>1, <1>4, <1>5, <2>1, <2>2, ArrivalOK
<1> QED BY <1>6, <1>7, <1>8, <1>9, <1>10, <1>11

-----------------------------------------------------------------------------
\* The registry's answers keep the invariant: the audit event of a delete is of
\* the identity it arrived with (DeleteDone), a login changes only the
\* credentials (ProbeAccepted, ProbeRejected).
LEMMA AnswersOK ==
    ASSUME IInv, NEW q \in Requests,
           \/ \E answer \in Answers : BrowseDone(q, answer) \/ DeleteDone(q, answer)
           \/ \E u \in RegUsers : ProbeAccepted(q, u)
           \/ \E api \in BOOLEAN : ProbeRejected(q, api)
    PROVE  IInv'
<1> USE DEF IInv
<1>1. /\ req[q] # None /\ req[q].status = "pending"
      /\ req[q] \in Request
      /\ req[q].before \in Session /\ req[q].after \in Session
      /\ req[q].b \in Browsers
      /\ req[q].kind \in {"browse", "delete", "ui_login", "ui_logout", "logout", "reg_login"}
  BY DEF BrowseDone, DeleteDone, ProbeAccepted, ProbeRejected, Pending, TypeOK, Request
<1>2. /\ settings' = settings /\ cookie' = cookie /\ epoch' = epoch
      /\ restarts' = restarts /\ minted' = minted /\ out' = out
  BY DEF BrowseDone, DeleteDone, ProbeAccepted, ProbeRejected
<1>3. SessionOK(minted, req[q].b, settings.secret, req[q].before)
      /\ SessionOK(minted, req[q].b, settings.secret, req[q].after)
      /\ HandlerOK(req[q].kind, req[q].before, req[q].after, req[q].status, req[q].asked)
  BY <1>1 DEF RequestsOK
<1>4. ASSUME NEW s2 \in Session, NEW status \in Answers,
             req' = [req EXCEPT ![q] = [@ EXCEPT !.status = status, !.after = s2]],
             SessionOK(minted, req[q].b, settings.secret, s2),
             HandlerOK(req[q].kind, req[q].before, s2, status, req[q].asked),
             s2.identity = req[q].after.identity
      PROVE  /\ req' \in [Requests -> Request \cup {None}]
             /\ CookiesOK' /\ RequestsOK' /\ RolesOK' /\ QuietOK'
  <2> DEFINE new == [req[q] EXCEPT !.status = status, !.after = s2]
  <2>1. /\ new \in Request /\ new.b = req[q].b /\ new.kind = req[q].kind
        /\ new.before = req[q].before /\ new.after = s2 /\ new.status = status
        /\ new.asked = req[q].asked
    BY <1>1 DEF Request
  <2>2. req \in [Requests -> Request \cup {None}]
    BY DEF TypeOK
  <2>3. req'[q] = new /\ \A p \in Requests \ {q} : req'[p] = req[p]
    BY <1>4, <2>2
  <2>4. req' \in [Requests -> Request \cup {None}]
    BY <1>4, <2>1, <2>2
  <2> HIDE DEF new
  <2>5. CookiesOK' /\ RolesOK'
    BY <1>2 DEF CookiesOK, RolesOK, SessionOK
  <2>6. RequestsOK'
    <3>1. ASSUME NEW p \in Requests, req'[p] # None, p # q
          PROVE  /\ SessionOK(minted', req'[p].b, settings'.secret, req'[p].before)
                 /\ SessionOK(minted', req'[p].b, settings'.secret, req'[p].after)
                 /\ HandlerOK(req[p].kind, req[p].before, req[p].after, req[p].status, req[p].asked)'
      BY <1>2, <2>3, <3>1 DEF RequestsOK, SessionOK, HandlerOK, GetIdentity
    <3>2. /\ SessionOK(minted', req'[q].b, settings'.secret, req'[q].before)
          /\ SessionOK(minted', req'[q].b, settings'.secret, req'[q].after)
          /\ HandlerOK(req[q].kind, req[q].before, req[q].after, req[q].status, req[q].asked)'
      BY <1>2, <1>3, <1>4, <2>1, <2>3 DEF SessionOK, HandlerOK, GetIdentity
    <3> QED BY <3>1, <3>2 DEF RequestsOK
  <2>7. QuietOK'
    BY <1>1, <1>2, <1>4, <2>1, <2>3 DEF QuietOK, Held
  <2> QED BY <2>4, <2>5, <2>6, <2>7
<1>5. ASSUME NEW answer \in Answers, DeleteDone(q, answer)
      PROVE  IInv'
  <2>1. req' = [req EXCEPT ![q] = [@ EXCEPT !.status = answer, !.after = req[q].after]]
    <3>1. [req[q] EXCEPT !.status = answer]
             = [req[q] EXCEPT !.status = answer, !.after = req[q].after]
      BY <1>1 DEF Request
    <3> QED BY <1>5, <3>1 DEF DeleteDone
  <2>2. HandlerOK(req[q].kind, req[q].before, req[q].after, answer, req[q].asked)
    BY <1>1, <1>3, <1>5 DEF HandlerOK, DeleteDone, Pending
  <2>3. /\ req' \in [Requests -> Request \cup {None}]
        /\ CookiesOK' /\ RequestsOK' /\ RolesOK' /\ QuietOK'
    BY <1>1, <1>3, <1>4, <2>1, <2>2
  <2>4. /\ req[q].kind = "delete" /\ settings.mode = "admin"
        /\ req[q].before.identity # None /\ req[q].before.identity.mode = "admin"
    BY <1>1, <1>3, <1>5 DEF HandlerOK, DeleteDone, Pending
  <2> DEFINE m == [b |-> req[q].b, key |-> settings.secret, id |-> req[q].before.identity]
             e == [b |-> req[q].b, actor |-> Actor(req[q].before), key |-> settings.secret]
  <2>5. m \in minted /\ "admin" \in m.id.roles
    BY <1>3, <2>4 DEF SessionOK, RolesOK
  <2>6. e.actor = m.id.username /\ e.actor = Admin
    BY <2>4, <2>5 DEF Actor, TypeOK, Identity
  <2>7. audit' = audit \/ audit' = audit \cup {e}
    BY <1>5 DEF DeleteDone
  <2>8. DeleteAuthorized'
    BY <1>2, <2>4, <2>5, <2>6, <2>7 DEF DeleteAuthorized
  <2>9. TypeOK'
    BY <1>1, <1>2, <2>3, <2>6, <2>7 DEF TypeOK
  <2> QED BY <2>3, <2>8, <2>9
<1>6. ASSUME audit' = audit,
             req' \in [Requests -> Request \cup {None}],
             CookiesOK', RequestsOK', RolesOK', QuietOK'
      PROVE  IInv'
  <2>1. TypeOK'
    BY <1>2, <1>6 DEF TypeOK
  <2>2. DeleteAuthorized'
    BY <1>2, <1>6 DEF DeleteAuthorized
  <2> QED BY <1>6, <2>1, <2>2
<1>7. ASSUME NEW u \in RegUsers, ProbeAccepted(q, u)
      PROVE  IInv'
  <2> DEFINE s2 == [req[q].after EXCEPT !.reg = [user |-> u, key |-> settings.secret]]
  <2>1. /\ s2 \in Session /\ s2.identity = req[q].after.identity
        /\ s2.reg = [user |-> u, key |-> settings.secret]
    BY <1>1 DEF Session, Creds, TypeOK
  <2>2. req' = [req EXCEPT ![q] = [@ EXCEPT !.status = "ok", !.after = s2]]
    BY <1>7 DEF ProbeAccepted
  <2> HIDE DEF s2
  <2>3. SessionOK(minted, req[q].b, settings.secret, s2)
    BY <1>3, <2>1 DEF SessionOK
  <2>4. HandlerOK(req[q].kind, req[q].before, s2, "ok", req[q].asked)
    BY <1>3, <1>7, <2>1 DEF HandlerOK, ProbeAccepted, Pending
  <2>5. audit' = audit
    BY <1>7 DEF ProbeAccepted
  <2> QED BY <1>4, <1>6, <2>1, <2>2, <2>3, <2>4, <2>5 DEF Answers
<1>8. ASSUME NEW api \in BOOLEAN, ProbeRejected(q, api)
      PROVE  IInv'
  <2> DEFINE kept == IF api THEN None ELSE req[q].after.reg
             s2 == [req[q].after EXCEPT !.reg = kept]
  <2>a. req' = [req EXCEPT ![q].status = "401", ![q].after.reg = kept]
    BY <1>8 DEF ProbeRejected
  <2>b. kept \in {None, req[q].after.reg}
    OBVIOUS
  <2> HIDE DEF kept
  <2>1. /\ s2 \in Session /\ s2.identity = req[q].after.identity
        /\ s2.reg \in {None, req[q].after.reg}
    BY <1>1, <2>b DEF Session
  <2>2. req' = [req EXCEPT ![q] = [@ EXCEPT !.status = "401", !.after = s2]]
    BY <2>a
  <2> HIDE DEF s2
  <2>3. SessionOK(minted, req[q].b, settings.secret, s2)
    BY <1>3, <2>1 DEF SessionOK
  <2>4. HandlerOK(req[q].kind, req[q].before, s2, "401", req[q].asked)
    BY <1>3, <1>8, <2>1 DEF HandlerOK, ProbeRejected, Pending
  <2>5. audit' = audit
    BY <1>8 DEF ProbeRejected
  <2> QED BY <1>4, <1>6, <2>1, <2>2, <2>3, <2>4, <2>5 DEF Answers
<1>9. ASSUME NEW answer \in Answers, BrowseDone(q, answer)
      PROVE  IInv'
  <2>1. req' = [req EXCEPT ![q] = [@ EXCEPT !.status = answer, !.after = req[q].after]]
    <3>1. [req[q] EXCEPT !.status = answer]
             = [req[q] EXCEPT !.status = answer, !.after = req[q].after]
      BY <1>1 DEF Request
    <3> QED BY <1>9, <3>1 DEF BrowseDone
  <2>2. HandlerOK(req[q].kind, req[q].before, req[q].after, answer, req[q].asked)
    BY <1>1, <1>3, <1>9 DEF HandlerOK, BrowseDone, Pending
  <2>3. /\ req' \in [Requests -> Request \cup {None}]
        /\ CookiesOK' /\ RequestsOK' /\ RolesOK' /\ QuietOK'
    BY <1>1, <1>3, <1>4, <2>1, <2>2
  <2>4. audit' = audit
    BY <1>9 DEF BrowseDone
  <2> QED BY <1>6, <2>3, <2>4
<1> QED BY <1>5, <1>7, <1>8, <1>9

-----------------------------------------------------------------------------
\* A response keeps the invariant: the browser gets the handler's copy, or keeps
\* what it has (Respond).
LEMMA RespondOK ==
    ASSUME IInv, NEW q \in Requests, Respond(q)
    PROVE  IInv'
<1> USE DEF IInv
<1>1. /\ req[q] # None /\ req[q] \in Request
      /\ req[q].b \in Browsers /\ req[q].before \in Session /\ req[q].after \in Session
  BY DEF Respond, TypeOK, Request
<1>b. PICK b \in Browsers : req[q].b = b
  BY <1>1
<1> DEFINE s == req[q].before
           s2 == req[q].after
<1>2. /\ settings' = settings /\ audit' = audit /\ epoch' = epoch
      /\ restarts' = restarts /\ minted' = minted
      /\ req' = [req EXCEPT ![q] = None]
  BY DEF Respond
<1>3. PICK c \in SetCookie(b, s, s2) : cookie' = [cookie EXCEPT ![b] = c]
  BY <1>b DEF Respond
<1>4. /\ SessionOK(minted, b, settings.secret, s)
      /\ SessionOK(minted, b, settings.secret, s2)
      /\ HandlerOK(req[q].kind, s, s2, req[q].status, req[q].asked)
  BY <1>1, <1>b DEF RequestsOK
<1> DEFINE written == [key |-> settings.secret, session |-> s2]
<1>5. c = None \/ c = written \/ (c = cookie[b] /\ s2 = s)
  BY <1>3 DEF SetCookie
<1>6. /\ settings.secret \in Nat
      /\ cookie \in [Browsers -> Cookie \cup {None}]
      /\ req \in [Requests -> Request \cup {None}]
      /\ out \in [Browsers -> BOOLEAN]
  BY DEF TypeOK
<1>7. written \in Cookie /\ written.key = settings.secret
      /\ written.session = s2
  BY <1>1, <1>6 DEF Cookie
<1> DEFINE signedOut == /\ req[q].kind \in {"ui_logout", "logout"}
                        /\ s.identity # None /\ InFlight(b) = {q}
<1>8. out' = IF signedOut THEN [out EXCEPT ![b] = TRUE] ELSE out
  BY <1>b DEF Respond
<1>9. TypeOK'
  <2>1. c \in Cookie \cup {None}
    BY <1>1, <1>5, <1>6, <1>7
  <2>2. cookie' \in [Browsers -> Cookie \cup {None}]
    BY <1>3, <1>6, <2>1
  <2>3. req' \in [Requests -> Request \cup {None}]
    BY <1>2, <1>6
  <2>4. out' \in [Browsers -> BOOLEAN]
    BY <1>6, <1>8
  <2> QED BY <1>2, <2>2, <2>3, <2>4 DEF TypeOK
<1>10. cookie'[b] = c /\ \A d \in Browsers \ {b} : cookie'[d] = cookie[d]
  BY <1>1, <1>3, <1>6
<1>11. req'[q] = None /\ \A p \in Requests \ {q} : req'[p] = req[p]
  BY <1>2, <1>6
<1>12. CookiesOK'
  <2> SUFFICES ASSUME NEW d \in Browsers, cookie'[d] # None
               PROVE  SessionOK(minted', d, cookie'[d].key, cookie'[d].session)
    BY DEF CookiesOK
  <2>1. CASE cookie'[d] = cookie[d]
    BY <1>2, <2>1 DEF CookiesOK
  <2>2. CASE d = b /\ c = written
    BY <1>2, <1>4, <1>7, <1>10, <2>2
  <2> QED BY <1>5, <1>10, <2>1, <2>2
<1>13. RequestsOK'
  BY <1>2, <1>11 DEF RequestsOK, SessionOK, HandlerOK, GetIdentity
<1>14. RolesOK' /\ DeleteAuthorized'
  BY <1>2 DEF RolesOK, DeleteAuthorized
<1>15. QuietOK'
  <2> SUFFICES ASSUME NEW d \in Browsers, out'[d]
               PROVE  /\ Held(d)'.identity = None
                      /\ \A p \in Requests : req'[p] # None /\ req'[p].b = d =>
                            req'[p].before.identity = None /\ req'[p].after.identity = None
    BY DEF QuietOK
  <2>1. CASE d # b
    <3>1. out[d]
      BY <1>6, <1>8, <1>1, <2>1
    <3>2. Held(d)' = Held(d)
      BY <1>10, <2>1 DEF Held
    <3> QED BY <1>11, <3>1, <3>2 DEF QuietOK
  <2>2. CASE d = b /\ signedOut
    <3>1. s2.identity = None
      BY <1>4, <2>2 DEF HandlerOK
    <3>2. c = None \/ c = written
      BY <1>5, <2>2, <3>1
    <3>3. Held(b)'.identity = None
      BY <1>7, <1>10, <3>1, <3>2 DEF Held, Empty
    <3>4. \A p \in Requests : req'[p] = None \/ req'[p].b # b
      BY <1>11, <2>2 DEF InFlight
    <3> QED BY <2>2, <3>3, <3>4
  <2>3. CASE d = b /\ ~ signedOut
    <3>1. out[b]
      BY <1>8, <2>3
    <3>2. s.identity = None /\ s2.identity = None /\ Held(b).identity = None
      BY <1>1, <1>b, <3>1 DEF QuietOK
    <3>3. Held(b)'.identity = None
      BY <1>5, <1>7, <1>10, <3>2 DEF Held, Empty
    <3> QED BY <1>11, <2>3, <3>1, <3>3 DEF QuietOK
  <2> QED BY <2>1, <2>2, <2>3
<1> QED BY <1>9, <1>12, <1>13, <1>14, <1>15

\* A restart drops what was in flight and changes no cookie (Restart).
LEMMA RestartOK ==
    ASSUME IInv, NEW mode \in Modes, NEW allow \in BOOLEAN, NEW rotate \in BOOLEAN,
           Restart(mode, allow, rotate)
    PROVE  IInv'
<1>1. TypeOK'
  BY DEF IInv, TypeOK, Restart
<1>2. CookiesOK' /\ RolesOK' /\ DeleteAuthorized'
  BY DEF IInv, Restart, CookiesOK, SessionOK, RolesOK, DeleteAuthorized
<1>3. \A q \in Requests : req'[q] = None
  BY DEF Restart
<1>4. RequestsOK'
  BY <1>3 DEF RequestsOK
<1>5. QuietOK'
  BY <1>3 DEF IInv, Restart, QuietOK, Held
<1> QED BY <1>1, <1>2, <1>4, <1>5 DEF IInv

LEMMA Invariance == Spec => []IInv
<1>1. ASSUME IInv, Next
      PROVE  IInv'
  <2>1. ASSUME NEW b \in Browsers, NEW q \in Requests,
               \/ Browse(b, q) \/ Delete(b, q)
               \/ \E valid, api \in BOOLEAN : UiLogin(b, q, valid, api)
               \/ UiLogout(b, q) \/ Logout(b, q) \/ RegLogin(b, q)
        PROVE  IInv'
    BY <1>1, <2>1, ArrivalsOK
  <2>2. ASSUME NEW q \in Requests,
               \/ \E answer \in Answers : BrowseDone(q, answer) \/ DeleteDone(q, answer)
               \/ \E u \in RegUsers : ProbeAccepted(q, u)
               \/ \E api \in BOOLEAN : ProbeRejected(q, api)
        PROVE  IInv'
    BY <1>1, <2>2, AnswersOK
  <2>3. ASSUME NEW q \in Requests, Respond(q)
        PROVE  IInv'
    BY <1>1, <2>3, RespondOK
  <2>4. ASSUME NEW mode \in Modes, NEW allow \in BOOLEAN, NEW rotate \in BOOLEAN,
               Restart(mode, allow, rotate)
        PROVE  IInv'
    BY <1>1, <2>4, RestartOK
  <2> QED BY <1>1, <2>1, <2>2, <2>3, <2>4 DEF Next
<1>2. ASSUME IInv, UNCHANGED vars
      PROVE  IInv'
  BY <1>2 DEF IInv, vars, TypeOK, CookiesOK, RequestsOK, SessionOK, HandlerOK, GetIdentity, RolesOK,
              QuietOK, Held, DeleteAuthorized
<1> QED BY InitOK, <1>1, <1>2, PTL DEF Spec

-----------------------------------------------------------------------------
\* The variables keep their types, whatever the numbers of browsers, of
\* requests in flight and of restarts.
THEOREM TypeCorrect == Spec => []TypeOK
BY Invariance, PTL DEF IInv

\* Deletes are made by people who logged in from that browser, in admin mode,
\* under the secret in force (require_admin, Identity.from_session, _session_actor).
THEOREM Authorized == Spec => []DeleteAuthorized
BY Invariance, PTL DEF IInv

\* 401 and 403 are told apart as the guards' docstrings promise (deps.py:165-206).
THEOREM Refusals == Spec => []RefusalsHelp
<1>1. IInv => RefusalsHelp
  BY DEF IInv, RequestsOK, HandlerOK, GetIdentity, RefusalsHelp
<1> QED BY <1>1, Invariance, PTL

\* A sign-out nothing was left to overtake is final (api/auth.py:89-129).
THEOREM SignOutFinal == Spec => []StaysOut
<1>1. IInv => StaysOut
  BY DEF IInv, QuietOK, StaysOut
<1> QED BY <1>1, Invariance, PTL

\* Registry credentials in an accepted session can be decrypted (deps.py:77-93).
THEOREM Readable == Spec => []CredentialsReadable
<1>1. IInv => CredentialsReadable
  BY LoadedOK DEF IInv, SessionOK, CredentialsReadable, SessionCredentials
<1> QED BY <1>1, Invariance, PTL

\* The two logins leave each other alone (web/routes.py:862, api/auth.py:110).
THEOREM Independence == Spec => Orthogonal
<1>1. ASSUME IInv, NEW q \in Requests, NEW b \in Browsers,
             Respond(q), req[q].b = b, req[q].before = Held(b)
      PROVE  /\ req[q].kind \in {"ui_login", "ui_logout"} => Held(b)'.reg = Held(b).reg
             /\ req[q].kind = "reg_login" => Held(b)'.identity = Held(b).identity
  <2> DEFINE s2 == req[q].after
             written == [key |-> settings.secret, session |-> s2]
  <2>1. HandlerOK(req[q].kind, Held(b), s2, req[q].status, req[q].asked)
    BY <1>1 DEF IInv, RequestsOK, Respond
  <2>2. PICK c \in SetCookie(b, Held(b), s2) : cookie' = [cookie EXCEPT ![b] = c]
    BY <1>1 DEF Respond
  <2>3. cookie'[b] = c
    BY <1>1, <2>2 DEF IInv, TypeOK
  <2>4. (c = None /\ s2 = Empty) \/ c = written \/ (c = cookie[b] /\ s2 = Held(b))
    BY <2>2 DEF SetCookie
  <2>5. written.session = s2 /\ written # None
    <3>1. settings.secret \in Nat /\ s2 \in Session
      BY <1>1 DEF IInv, TypeOK, Request, Respond
    <3> QED BY <3>1, NoneAssumption DEF Cookie
  <2>6. CASE c = None /\ s2 = Empty
    <3>1. Held(b)' = s2
      BY <2>3, <2>6 DEF Held
    <3> QED BY <2>1, <3>1 DEF HandlerOK
  <2>7. CASE c = written
    <3>1. Held(b)' = s2
      BY <2>3, <2>5, <2>7 DEF Held
    <3> QED BY <2>1, <3>1 DEF HandlerOK
  <2>8. CASE c = cookie[b] /\ s2 = Held(b)
    <3>1. Held(b)' = Held(b)
      BY <2>3, <2>8 DEF Held
    <3> QED BY <3>1
  <2> QED BY <2>4, <2>6, <2>7, <2>8
<1>2. IInv => KeepsOther
  BY <1>1 DEF KeepsOther
<1>3. IInv => [KeepsOther]_vars
  BY <1>2
<1> QED BY <1>3, Invariance, PTL DEF Orthogonal

=============================================================================
