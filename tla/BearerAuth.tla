----------------------------- MODULE BearerAuth -----------------------------
(***************************************************************************)
(* registry/bearer.py (class BearerAuth, class TokenCache): the token dance*)
(* of requests that run concurrently through one client and one token      *)
(* cache, against a registry and a token server: tokens die, answers are   *)
(* slow or never come, the registry's service name may change.  A request  *)
(* awaits up to three exchanges: the first try, the token, the second try. *)
(***************************************************************************)
EXTENDS Integers, Sequences

CONSTANTS
    Requests,      \* requests, each made once
    Ops,           \* what they ask the registry
    Services,      \* the names the registry may give itself in a challenge
    FirstName,     \* the one it starts with
    TTLs,          \* lifetimes the token server gives (or _TOKEN_DEFAULT_TTL)
    Grace,         \* _TOKEN_EXPIRY_GRACE
    MaxTime,       \* bound on the clock
    MaxRenames,    \* bound on the changes of the service's name
    None

ASSUME NameAssumption == FirstName \in Services
ASSUME OpsAssumption == Ops \subseteq {"probe", "catalog", "pull", "delete", "referrers"}
ASSUME TimesAssumption == TTLs \subseteq Nat /\ Grace \in Nat /\ MaxTime \in Nat

VARIABLES
    service,       \* the registry's service name
    renames,
    now,
    tokens,        \* TokenCache._tokens: its items in the dict's order
    req            \* req[r]: where request r stands

vars == << service, renames, now, tokens, req >>

Scopes == {"", "catalog", "pull", "delete", "*"}

\* Mutant of InferScope: every method counts as one that changes something.
InferScope_Star(op) == CASE op \in {"probe", "referrers"} -> "" [] op = "catalog" -> "catalog"
                         [] op \in {"pull", "delete"} -> "*"

\* infer_scope: the scope guessed from the method and the path ("" for none).  The
\* path of an image's referrers is none it knows.
InferScope(op) == CASE op \in {"probe", "referrers"} -> "" [] op = "catalog" -> "catalog"
                    [] op = "pull" -> "pull" [] op = "delete" -> "*"

\* The scope the registry's challenge names and its tokens need (external).
Needed(op) == CASE op = "probe" -> "" [] op = "referrers" -> "pull" [] OTHER -> op

-----------------------------------------------------------------------------
\* TokenCache.  A token of the server is [svc, scope, born, dies]; an item of the
\* cache is [tok, exp], filed under the token's service and scope.

\* Mutant of IsExpired: no grace period.
IsExpired_Late(item) == now >= item.exp

IsExpired(item) == now >= item.exp - Grace

\* The items of a scope that find_any may return.
Usable(scope) == {i \in DOMAIN tokens : tokens[i].tok.scope = scope /\ ~ IsExpired(tokens[i])}

\* find_any: the first of them, of whatever service.
FindAny(scope) ==
    IF Usable(scope) = {} THEN None
    ELSE tokens[CHOOSE i \in Usable(scope) : \A j \in Usable(scope) : i <= j]

\* Mutant of Put: a token is added beside the one it should replace.
Put_Beside(item) == Append(tokens, item)

\* put: an item for the same service and scope is replaced in its place.
Put(item) ==
    LET same == {i \in DOMAIN tokens : /\ tokens[i].tok.svc = item.tok.svc
                                       /\ tokens[i].tok.scope = item.tok.scope}
    IN  IF same = {} THEN Append(tokens, item)
        ELSE [i \in DOMAIN tokens |-> IF i \in same THEN item ELSE tokens[i]]

-----------------------------------------------------------------------------
\* The registry and the token server (external).

\* The registry takes a token that is of its service and scope and is alive.
Accepts(tok, op) ==
    tok # None /\ tok.svc = service /\ tok.scope = Needed(op) /\ now < tok.dies

Asked(r, where) == req[r].pc \in where /\ req[r].ans = None
Answer(r, ans) == req' = [req EXCEPT ![r].ans = ans]

\* Why the registry does not take the token of r: one that r has just fetched may
\* have died, or lost its service, on the way.
Reason(r) ==
    IF req[r].pc = "second" /\ now >= req[r].tok.dies THEN "late"
    ELSE IF req[r].pc = "second" /\ service # req[r].svc THEN "renamed"
    ELSE "unfit"

\* It serves the request (with success or an error of its own), or challenges.
ServeRequest(r) ==
    /\ Asked(r, {"first", "second"})
    /\ IF Accepts(req[r].tok, req[r].op) THEN Answer(r, [kind |-> "served"])
       ELSE Answer(r, [kind |-> "challenge", svc |-> service, why |-> Reason(r)])

\* It challenges although the token is good: the account lacks the right; or it
\* answers 401 without a Bearer challenge the client understands.
ServeRefusal(r, kind) ==
    /\ Asked(r, {"first", "second"})
    /\ Answer(r, [kind |-> kind, svc |-> service, why |-> "denied"])

ServeToken(r, ttl) ==
    /\ Asked(r, {"token"})
    /\ Answer(r, [kind |-> "token",
                  tok |-> [svc |-> req[r].svc, scope |-> Needed(req[r].op),
                           born |-> now, dies |-> now + ttl]])

\* Any status but 200, a body that is not JSON, or no token in it.
ServeNoToken(r) ==
    /\ Asked(r, {"token"})
    /\ Answer(r, [kind |-> "failed"])

Serve(r) ==
    /\ \/ ServeRequest(r)
       \/ \E kind \in {"challenge", "plain401"} : ServeRefusal(r, kind)
       \/ \E ttl \in TTLs : ServeToken(r, ttl)
       \/ ServeNoToken(r)
    /\ UNCHANGED << service, renames, now, tokens >>

Rename(s) ==
    /\ renames < MaxRenames
    /\ renames' = renames + 1
    /\ service' = s
    /\ UNCHANGED << now, tokens, req >>

-----------------------------------------------------------------------------
\* async_auth_flow.

Running(r) == req[r].pc \in {"first", "token", "second"}

\* Up to the first yield: pre-attach a token of the inferred scope.
Send(r, op) ==
    LET item == FindAny(InferScope(op)) IN
    /\ req[r].pc = "idle"
    /\ req' = [req EXCEPT ![r] =
          [pc |-> "first", op |-> op, item |-> item, sent |-> now,
           tok |-> IF item = None THEN None ELSE item.tok,
           ans |-> None, svc |-> None,
           fits |-> item # None /\ Accepts(item.tok, op),
           couldFit |-> \E i \in DOMAIN tokens :
                          ~ IsExpired(tokens[i]) /\ Accepts(tokens[i].tok, op)]]
    /\ UNCHANGED << service, renames, now, tokens >>

Done(result, why) == [pc |-> "done", result |-> result, why |-> why]

\* Mutant of ReceiveFirst: a request that had a token is not tried again.
ReceiveFirst_Final(r) ==
    LET a == req[r].ans IN
    /\ req[r].pc = "first" /\ a # None
    /\ req' = [req EXCEPT ![r] =
          IF a.kind = "served" THEN Done("served", None)
          ELSE IF a.kind = "challenge" /\ req[r].item = None
               THEN [@ EXCEPT !.pc = "token", !.svc = a.svc, !.ans = None]
               ELSE Done("401", a.why)]
    /\ UNCHANGED << service, renames, now, tokens >>

\* The first answer: a 401 with a Bearer challenge starts the dance.
ReceiveFirst(r) ==
    LET a == req[r].ans IN
    /\ req[r].pc = "first" /\ a # None
    /\ req' = [req EXCEPT ![r] =
          CASE a.kind = "served" -> Done("served", None)
            [] a.kind = "plain401" -> Done("401", a.why)
            [] a.kind = "challenge" -> [@ EXCEPT !.pc = "token", !.svc = a.svc, !.ans = None]]
    /\ UNCHANGED << service, renames, now, tokens >>

\* _fetch_token's answer: the cache gets the token and the request is sent again.
ReceiveToken(r) ==
    LET a == req[r].ans IN
    /\ req[r].pc = "token" /\ a # None
    /\ IF a.kind = "token"
       THEN /\ tokens' = Put([tok |-> a.tok, exp |-> now + (a.tok.dies - a.tok.born)])
            /\ req' = [req EXCEPT ![r].pc = "second", ![r].tok = a.tok, ![r].ans = None]
       ELSE /\ UNCHANGED tokens
            /\ req' = [req EXCEPT ![r] = Done("error", None)]
    /\ UNCHANGED << service, renames, now >>

\* The second answer is the caller's, a 401 too.
ReceiveSecond(r) ==
    LET a == req[r].ans IN
    /\ req[r].pc = "second" /\ a # None
    /\ req' = [req EXCEPT ![r] = IF a.kind = "served" THEN Done("served", None)
                                 ELSE Done("401", a.why)]
    /\ UNCHANGED << service, renames, now, tokens >>

Receive(r) == ReceiveFirst(r) \/ ReceiveToken(r) \/ ReceiveSecond(r)

\* Mutant of GiveUp: the token server is waited for without a timeout.
GiveUp_NotToken(r) ==
    /\ Running(r) /\ req[r].pc # "token"
    /\ req' = [req EXCEPT ![r] = Done("error", None)]
    /\ UNCHANGED << service, renames, now, tokens >>

\* The registry or the token server does not answer in time, or not at all.
GiveUp(r) ==
    /\ Running(r)
    /\ req' = [req EXCEPT ![r] = Done("error", None)]
    /\ UNCHANGED << service, renames, now, tokens >>

Tick ==
    /\ now < MaxTime
    /\ now' = now + 1
    /\ UNCHANGED << service, renames, tokens, req >>

-----------------------------------------------------------------------------
Init ==
    /\ service = FirstName
    /\ renames = 0
    /\ now = 0
    /\ tokens = << >>
    /\ req = [r \in Requests |-> [pc |-> "idle"]]

Next ==
    \/ \E r \in Requests :
          \/ \E op \in Ops : Send(r, op)
          \/ Serve(r) \/ Receive(r) \/ GiveUp(r)
    \/ \E s \in Services \ {service} : Rename(s)
    \/ Tick

Spec == Init /\ [][Next]_vars

\* httpx ends every wait and the event loop runs on whatever has come.
FairSpec == Spec /\ \A r \in Requests : WF_vars(Receive(r) \/ GiveUp(r))

-----------------------------------------------------------------------------
Token == [svc : Services, scope : Scopes, born : Nat, dies : Nat]
Item == [tok : Token, exp : Nat]
ASSUME NoneAssumption == None \notin Token /\ None \notin Item

\* The cache's items have distinct keys, and every request is where it can be.
TypeOK ==
    /\ service \in Services /\ renames \in Nat /\ now \in Nat
    /\ tokens \in Seq(Item)
    /\ \A i, j \in DOMAIN tokens :
          tokens[i].tok.svc = tokens[j].tok.svc /\ tokens[i].tok.scope = tokens[j].tok.scope
              => i = j
    /\ \A r \in Requests :
          /\ req[r].pc \in {"idle", "first", "token", "second", "done"}
          /\ Running(r) => /\ req[r].op \in Ops /\ req[r].sent <= now
                           /\ req[r].tok \in Token \cup {None}
                           /\ req[r].item \in Item \cup {None}

\* A token attached from the cache is alive when it is attached, if the token
\* server's answer was not under way longer than the grace period: the cache
\* counts a token's life from the moment the answer is read, the server from the
\* moment it was issued (bearer.py:115, bearer.py:130).
AttachedAlive ==
    \A r \in Requests : Running(r) /\ req[r].item # None =>
        LET i == req[r].item IN i.exp - i.tok.dies <= Grace => req[r].sent < i.tok.dies

\* Nothing in the cache can cost a request its answer: a caller gets a 401 only
\* if the registry would not have the account, or the token fetched for this very
\* request died or lost its service before the second try; never because of what
\* was cached (too old, of another service, put there by another request in the
\* meantime), which costs a round trip at most (bearer.py:88-92).  A 401 without a
\* Bearer challenge counts as the registry's no, whatever token the request had.
NoNeedless401 ==
    \A r \in Requests : req[r].pc = "done" /\ req[r].result = "401" => req[r].why # "unfit"

\* Every request gets an answer or an error: no circle of challenges.
Answers == \A r \in Requests : Running(r) ~> req[r].pc = "done"

\* Requests skip the dance (bearer.py:15): a probe, a catalog page or a read of
\* manifests, blobs or tags goes out with a token the registry accepts whenever the
\* cache holds one, whoever fetched it and for whichever operation, as long as the
\* registry keeps its service name.  (A delete and a listing of referrers dance
\* again: the scope guessed for them is not the one a registry asks for; and a
\* token of an earlier name may stand in front of the good one.)
SkipsDance ==
    renames = 0 => \A r \in Requests :
        Running(r) /\ req[r].op \in {"probe", "catalog", "pull"} /\ req[r].couldFit
            => req[r].fits

=============================================================================
