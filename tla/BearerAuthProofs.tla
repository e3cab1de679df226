-------------------------- MODULE BearerAuthProofs --------------------------
(***************************************************************************)
(* The invariants of BearerAuth, for any number of requests, services,     *)
(* lifetimes and ticks.                                                    *)
(*                                                                         *)
(* The argument: whatever a request was sent with at first, before its     *)
(* second try it holds a token of the service and scope of the challenge it*)
(* got (Fetched), so the registry can refuse that one only if it died or   *)
(* the service was renamed meanwhile.  While nothing was renamed, every    *)
(* token in the cache is of the one service (Unrenamed), so find_any finds *)
(* the only token of a scope.                                              *)
(***************************************************************************)
EXTENDS BearerAuth, SequenceTheorems, WellFoundedInduction, TLAPS

\* The fields of a request on its way.
IsRun(x) ==
    {"pc", "op", "item", "sent", "tok", "ans", "svc", "fits", "couldFit"} \subseteq DOMAIN x

\* Token tok is of the service and scope that request x was challenged for.
Fetched(x, tok) == tok \in Token /\ tok.svc = x.svc /\ tok.scope = Needed(x.op)

\* What the answer a that x may have at pc says, the registry being named svc
\* after ren renamings.
AnswerOK(x, a, svc, ren) ==
    /\ x.pc = "first" =>
          /\ a.kind \in {"served", "challenge", "plain401"}
          /\ a.kind = "plain401" => a.why = "denied"
          /\ a.kind = "challenge" => a.svc \in Services /\ (ren = 0 => a.svc = svc)
    /\ x.pc = "token" =>
          /\ a.kind \in {"token", "failed"}
          /\ a.kind = "token" => Fetched(x, a.tok) /\ a.tok.born <= a.tok.dies
    /\ x.pc = "second" =>
          /\ a.kind \in {"served", "challenge", "plain401"}
          /\ a.kind # "served" => a.why \in {"late", "renamed", "denied"}

\* What a request was sent with.
SentOK(x, t, ren) ==
    /\ x.op \in Ops /\ x.sent \in Nat /\ x.sent <= t
    /\ x.item \in Item \cup {None}
    /\ x.item # None => (x.item.exp - x.item.tok.dies <= Grace => x.sent < x.item.tok.dies)
    /\ ren = 0 /\ x.op \in {"probe", "catalog", "pull"} /\ x.couldFit => x.fits

RunningOK(x, t, svc, ren) ==
    /\ IsRun(x) /\ SentOK(x, t, ren)
    /\ x.tok \in Token \cup {None}
    /\ x.pc \in {"token", "second"} => x.svc \in Services /\ (ren = 0 => x.svc = svc)
    /\ x.pc = "second" => Fetched(x, x.tok)
    /\ x.ans # None => AnswerOK(x, x.ans, svc, ren)

RequestOK(x, t, svc, ren) ==
    \/ x.pc = "idle"
    \/ x.pc \in {"first", "token", "second"} /\ RunningOK(x, t, svc, ren)
    \/ x.pc = "done" /\ (x.result = "401" => x.why # "unfit")

\* The cache has one item for a service and scope.
Distinct(seq) ==
    \A i, j \in DOMAIN seq :
        seq[i].tok.svc = seq[j].tok.svc /\ seq[i].tok.scope = seq[j].tok.scope => i = j

Unrenamed == renames = 0 => \A i \in DOMAIN tokens : tokens[i].tok.svc = service

CacheOK == tokens \in Seq(Item) /\ Distinct(tokens) /\ Unrenamed

IInv ==
    /\ service \in Services /\ renames \in Nat /\ now \in Nat
    /\ CacheOK
    /\ DOMAIN req = Requests
    /\ \A r \in Requests : RequestOK(req[r], now, service, renames)

-----------------------------------------------------------------------------
\* TokenCache.

\* A set of natural numbers that has elements has a least one.
LEMMA LeastPlace ==
    ASSUME NEW T \in SUBSET Nat, T # {}
    PROVE  \E i \in T : \A j \in T : i <= j
<1>1. PICK i \in T : \A j \in T : << j, i >> \notin OpToRel(<, Nat)
  BY NatLessThanWellFounded, WFMin
<1>2. \A j \in T : ~ (j < i)
  BY <1>1 DEF OpToRel
<1> QED BY <1>2

\* find_any returns nothing only if nothing is usable, else a usable item.
LEMMA FindAnyReturns ==
    ASSUME NEW STATE scope, CacheOK
    PROVE  \/ FindAny(scope) = None /\ Usable(scope) = {}
           \/ \E i \in Usable(scope) : FindAny(scope) = tokens[i]
<1>1. DOMAIN tokens \subseteq Nat
  BY LenProperties DEF CacheOK
<1>2. Usable(scope) \subseteq Nat
  BY <1>1 DEF Usable
<1>3. CASE Usable(scope) # {}
  <2>1. \E i \in Usable(scope) : \A j \in Usable(scope) : i <= j
    BY <1>2, <1>3, LeastPlace
  <2> QED BY <1>3, <2>1 DEF FindAny
<1> QED BY <1>3 DEF FindAny

\* put leaves one item for each service and scope.
LEMMA PutKeeps ==
    ASSUME CacheOK, NEW STATE item, item \in Item, renames = 0 => item.tok.svc = service
    PROVE  /\ Put(item) \in Seq(Item) /\ Distinct(Put(item))
           /\ renames = 0 => \A i \in DOMAIN Put(item) : Put(item)[i].tok.svc = service
<1> DEFINE same == {i \in DOMAIN tokens : /\ tokens[i].tok.svc = item.tok.svc
                                          /\ tokens[i].tok.scope = item.tok.scope}
           new == Put(item)
<1>1. /\ tokens \in Seq(Item) /\ Len(tokens) \in Nat /\ DOMAIN tokens = 1 .. Len(tokens)
      /\ \A i \in DOMAIN tokens : tokens[i] \in Item
  BY LenProperties, ElementOfSeq DEF CacheOK
<1>2. CASE same = {}
  <2>1. new = Append(tokens, item)
    BY <1>2 DEF Put
  <2>2. /\ new \in Seq(Item) /\ DOMAIN new = 1 .. Len(tokens) + 1
        /\ \A i \in 1 .. Len(tokens) : new[i] = tokens[i]
        /\ new[Len(tokens) + 1] = item
    BY <1>1, <2>1, AppendProperties, LenProperties
  <2>3. \A i \in 1 .. Len(tokens) + 1 : i \in DOMAIN tokens \/ i = Len(tokens) + 1
    BY <1>1
  <2>4. \A i \in DOMAIN tokens :
            ~(tokens[i].tok.svc = item.tok.svc /\ tokens[i].tok.scope = item.tok.scope)
    BY <1>2
  <2> HIDE DEF new, same
  <2>5. Distinct(new)
    BY <1>1, <2>2, <2>3, <2>4 DEF Distinct, CacheOK
  <2>6. renames = 0 => \A i \in DOMAIN new : new[i].tok.svc = service
    BY <1>1, <2>2, <2>3 DEF CacheOK, Unrenamed
  <2> QED BY <2>2, <2>5, <2>6 DEF new
<1>3. CASE same # {}
  <2>1. new = [i \in DOMAIN tokens |-> IF i \in same THEN item ELSE tokens[i]]
    BY <1>3 DEF Put
  <2>2. new \in [1 .. Len(tokens) -> Item]
    BY <1>1, <2>1
  <2>3. new \in Seq(Item)
    BY <1>1, <2>2, SeqDef
  <2>4. \A i \in DOMAIN new : /\ i \in DOMAIN tokens
                              /\ new[i].tok.svc = tokens[i].tok.svc
                              /\ new[i].tok.scope = tokens[i].tok.scope
    BY <2>1
  <2> HIDE DEF new, same
  <2>5. Distinct(new)
    BY <2>4 DEF Distinct, CacheOK
  <2>6. renames = 0 => \A i \in DOMAIN new : new[i].tok.svc = service
    BY <2>4 DEF CacheOK, Unrenamed
  <2> QED BY <2>3, <2>5, <2>6 DEF new
<1> QED BY <1>2, <1>3

-----------------------------------------------------------------------------
\* Requests.

\* While nothing was renamed, a request whose scope is guessed right goes out with
\* the token of that scope if there is one.
LEMMA SkipsHere ==
    ASSUME CacheOK, NEW op \in {"probe", "catalog", "pull"}, renames = 0,
           NEW i \in DOMAIN tokens, ~IsExpired(tokens[i]), Accepts(tokens[i].tok, op)
    PROVE  LET item == FindAny(InferScope(op)) IN item # None /\ Accepts(item.tok, op)
<1>1. InferScope(op) = Needed(op)
  BY DEF InferScope, Needed
<1>2. i \in Usable(InferScope(op))
  BY <1>1 DEF Usable, Accepts
<1>3. PICK j \in Usable(InferScope(op)) : FindAny(InferScope(op)) = tokens[j]
  BY <1>2, FindAnyReturns
<1>4. /\ i \in DOMAIN tokens /\ j \in DOMAIN tokens
      /\ tokens[i].tok.svc = tokens[j].tok.svc /\ tokens[i].tok.scope = tokens[j].tok.scope
  BY <1>1 DEF Usable, Accepts, CacheOK, Unrenamed
<1>5. i = j
  BY <1>4 DEF CacheOK, Distinct
<1>6. tokens[i] \in Item
  BY ElementOfSeq, LenProperties DEF CacheOK
<1> QED BY <1>3, <1>5, <1>6, NoneAssumption

\* Time that passes does not matter.
LEMMA LaterOK ==
    ASSUME NEW STATE x, NEW STATE t, t \in Nat, NEW STATE svc, NEW STATE ren,
           RequestOK(x, t, svc, ren)
    PROVE  RequestOK(x, t + 1, svc, ren)
BY DEF RequestOK, RunningOK, SentOK

\* Nor does another name, to what is said only of unrenamed registries.
LEMMA RenamedOK ==
    ASSUME NEW STATE x, NEW STATE t, NEW STATE svc, NEW STATE svc2, NEW STATE ren,
           ren \in Nat, RequestOK(x, t, svc, ren)
    PROVE  RequestOK(x, t, svc2, ren + 1)
<1>1. ren + 1 # 0
  BY SMT
<1> QED BY <1>1 DEF RequestOK, RunningOK, SentOK, AnswerOK

\* An answer on its way to x changes x no further.
LEMMA AnsweredOK ==
    ASSUME NEW STATE x, NEW STATE a, x.pc \in {"first", "token", "second"},
           RequestOK(x, now, service, renames),
           RunningOK(x, now, service, renames) => AnswerOK(x, a, service, renames)
    PROVE  RequestOK([x EXCEPT !.ans = a], now, service, renames)
<1> DEFINE y == [x EXCEPT !.ans = a]
<1>1. RunningOK(x, now, service, renames)
  BY DEF RequestOK
<1>2. IsRun(x)
  BY <1>1 DEF RunningOK
<1>3. /\ IsRun(y) /\ y.pc = x.pc /\ y.op = x.op /\ y.item = x.item /\ y.sent = x.sent
      /\ y.tok = x.tok /\ y.svc = x.svc /\ y.fits = x.fits /\ y.couldFit = x.couldFit
      /\ y.ans = a
  BY <1>2 DEF IsRun
<1> HIDE DEF y
<1>4. SentOK(y, now, renames)
  BY <1>1, <1>3 DEF RunningOK, SentOK
<1>5. AnswerOK(y, a, service, renames)
  BY <1>1, <1>3 DEF AnswerOK, Fetched
<1>6. RunningOK(y, now, service, renames)
  BY <1>1, <1>3, <1>4, <1>5 DEF RunningOK, Fetched
<1>7. RequestOK(y, now, service, renames)
  BY <1>3, <1>6 DEF RequestOK
<1> QED BY <1>7 DEF y

LEMMA DoneOK ==
    ASSUME NEW STATE result, NEW STATE why, result = "401" => why # "unfit"
    PROVE  RequestOK(Done(result, why), now, service, renames)
BY DEF RequestOK, Done

\* A step of one request that leaves everything else alone.
LEMMA OneRequest ==
    ASSUME IInv, NEW r \in Requests, NEW STATE x, RequestOK(x, now, service, renames),
           req' = [req EXCEPT ![r] = x], UNCHANGED << service, renames, now, tokens >>
    PROVE  IInv'
<1>1. DOMAIN req' = Requests
  BY DEF IInv
<1>2. \A s \in Requests : req'[s] = IF s = r THEN x ELSE req[s]
  BY DEF IInv
<1>3. \A s \in Requests : RequestOK(req'[s], now, service, renames)
  BY <1>2 DEF IInv
<1>4. CacheOK'
  BY DEF IInv, CacheOK, Distinct, Unrenamed
<1> QED BY <1>1, <1>3, <1>4 DEF IInv

-----------------------------------------------------------------------------
\* The steps.

LEMMA ServeStep ==
    ASSUME IInv, NEW r \in Requests, Serve(r)
    PROVE  IInv'
<1> DEFINE x == req[r]
           With(a) == [x EXCEPT !.ans = a]
<1>1. RequestOK(x, now, service, renames) /\ UNCHANGED << service, renames, now, tokens >>
  BY DEF IInv, Serve
<1>2. ASSUME NEW STATE a, Answer(r, a), x.pc \in {"first", "token", "second"},
             RunningOK(x, now, service, renames) => AnswerOK(x, a, service, renames)
      PROVE  IInv'
  <2>1. req' = [req EXCEPT ![r] = With(a)]
    BY <1>2 DEF Answer
  <2>2. RequestOK(With(a), now, service, renames)
    BY <1>1, <1>2, AnsweredOK
  <2> HIDE DEF With
  <2> QED BY <1>1, <2>1, <2>2, OneRequest
<1>3. CASE ServeRequest(r)
  <2> DEFINE no == [kind |-> "challenge", svc |-> service, why |-> Reason(r)]
             yes == [kind |-> "served"]
  <2>1. /\ x.pc \in {"first", "second"}
        /\ Answer(r, yes) \/ (~Accepts(x.tok, x.op) /\ Answer(r, no))
    BY <1>3 DEF ServeRequest, Asked
  <2>2. RunningOK(x, now, service, renames) => AnswerOK(x, yes, service, renames)
    BY <2>1 DEF AnswerOK
  <2>3. ~Accepts(x.tok, x.op) /\ RunningOK(x, now, service, renames)
            => AnswerOK(x, no, service, renames)
    <3>1. x.pc = "second" /\ Fetched(x, x.tok) /\ ~Accepts(x.tok, x.op)
              => now >= x.tok.dies \/ service # x.svc
      BY NoneAssumption DEF IInv, Accepts, Fetched, Token
    <3> QED BY <2>1, <3>1 DEF AnswerOK, RunningOK, Reason, IInv
  <2> HIDE DEF no, yes
  <2> QED BY <1>2, <2>1, <2>2, <2>3
<1>4. ASSUME NEW kind \in {"challenge", "plain401"}, ServeRefusal(r, kind)
      PROVE  IInv'
  <2> DEFINE a == [kind |-> kind, svc |-> service, why |-> "denied"]
  <2>1. x.pc \in {"first", "second"} /\ Answer(r, a)
    BY <1>4 DEF ServeRefusal, Asked
  <2>2. AnswerOK(x, a, service, renames)
    BY <2>1 DEF AnswerOK, IInv
  <2> HIDE DEF a
  <2> QED BY <1>2, <2>1, <2>2
<1>5. ASSUME NEW ttl \in TTLs, ServeToken(r, ttl)
      PROVE  IInv'
  <2> DEFINE tok == [svc |-> x.svc, scope |-> Needed(x.op), born |-> now, dies |-> now + ttl]
             a == [kind |-> "token", tok |-> tok]
  <2>1. x.pc = "token" /\ Answer(r, a)
    BY <1>5 DEF ServeToken, Asked
  <2>2. ASSUME RunningOK(x, now, service, renames)
        PROVE  AnswerOK(x, a, service, renames)
    <3>1. Needed(x.op) \in Scopes
      BY <2>2, OpsAssumption DEF RunningOK, SentOK, Needed, Scopes
    <3>2. now \in Nat /\ now + ttl \in Nat /\ now <= now + ttl
      BY TimesAssumption DEF IInv
    <3>3. tok \in Token
      BY <2>1, <2>2, <3>1, <3>2 DEF RunningOK, Token
    <3>4. /\ a.kind = "token" /\ a.tok = tok /\ tok.svc = x.svc /\ tok.scope = Needed(x.op)
          /\ tok.born <= tok.dies
      BY <3>2
    <3> HIDE DEF a, tok
    <3> QED BY <2>1, <3>3, <3>4 DEF AnswerOK, Fetched
  <2> HIDE DEF a
  <2> QED BY <1>2, <2>1, <2>2
<1>6. CASE ServeNoToken(r)
  <2> DEFINE a == [kind |-> "failed"]
  <2>1. x.pc = "token" /\ Answer(r, a)
    BY <1>6 DEF ServeNoToken, Asked
  <2>2. AnswerOK(x, a, service, renames)
    BY <2>1 DEF AnswerOK
  <2> HIDE DEF a
  <2> QED BY <1>2, <2>1, <2>2
<1> QED BY <1>3, <1>4, <1>5, <1>6 DEF Serve

LEMMA SendStep ==
    ASSUME IInv, NEW r \in Requests, NEW op \in Ops, Send(r, op)
    PROVE  IInv'
<1> DEFINE item == FindAny(InferScope(op))
           couldFit == \E i \in DOMAIN tokens :
                           ~ IsExpired(tokens[i]) /\ Accepts(tokens[i].tok, op)
           fits == item # None /\ Accepts(item.tok, op)
           tok == IF item = None THEN None ELSE item.tok
           x == [pc |-> "first", op |-> op, item |-> item, sent |-> now, tok |-> tok,
                 ans |-> None, svc |-> None, fits |-> fits, couldFit |-> couldFit]
<1>1. req' = [req EXCEPT ![r] = x] /\ UNCHANGED << service, renames, now, tokens >>
  BY DEF Send
<1>2. /\ IsRun(x) /\ x.pc = "first" /\ x.op = op /\ x.item = item /\ x.sent = now
      /\ x.tok = tok /\ x.ans = None /\ x.fits = fits /\ x.couldFit = couldFit
  BY DEF IsRun
<1>3. item = None \/ \E i \in Usable(InferScope(op)) : item = tokens[i]
  BY FindAnyReturns DEF IInv
<1>4. item \in Item \cup {None} /\ tok \in Token \cup {None}
  <2>1. \A i \in DOMAIN tokens : tokens[i] \in Item
    BY ElementOfSeq, LenProperties DEF IInv, CacheOK
  <2> QED BY <1>3, <2>1 DEF Usable, Item
<1>5. item # None => now < item.exp - Grace
  BY <1>3, <1>4, TimesAssumption DEF Usable, IsExpired, IInv, Item
<1>6. item # None => (item.exp - item.tok.dies <= Grace => now < item.tok.dies)
  BY <1>4, <1>5, TimesAssumption DEF IInv, Item, Token
<1>7. renames = 0 /\ op \in {"probe", "catalog", "pull"} /\ couldFit => fits
  BY SkipsHere DEF IInv
<1> HIDE DEF x, item, tok, couldFit, fits
<1>8. SentOK(x, now, renames)
  BY <1>2, <1>4, <1>6, <1>7 DEF SentOK, IInv
<1>9. RequestOK(x, now, service, renames)
  BY <1>2, <1>4, <1>8 DEF RequestOK, RunningOK
<1> QED BY <1>1, <1>9, OneRequest

LEMMA ReceiveFirstStep ==
    ASSUME IInv, NEW r \in Requests, ReceiveFirst(r)
    PROVE  IInv'
<1> DEFINE x == req[r]
           a == x.ans
           y == [x EXCEPT !.pc = "token", !.svc = a.svc, !.ans = None]
           z == CASE a.kind = "served" -> Done("served", None)
                  [] a.kind = "plain401" -> Done("401", a.why)
                  [] a.kind = "challenge" -> y
<1>1. /\ x.pc = "first" /\ a # None /\ req' = [req EXCEPT ![r] = z]
      /\ UNCHANGED << service, renames, now, tokens >>
  BY DEF ReceiveFirst
<1>2. RunningOK(x, now, service, renames)
  BY <1>1 DEF IInv, RequestOK
<1>3. AnswerOK(x, a, service, renames)
  BY <1>1, <1>2 DEF RunningOK
<1>4. a.kind \in {"served", "plain401", "challenge"} /\ (a.kind = "plain401" => a.why = "denied")
  BY <1>1, <1>3 DEF AnswerOK
<1>5. z = Done("served", None) \/ z = Done("401", "denied") \/ (a.kind = "challenge" /\ z = y)
  BY <1>4, Zenon
<1>6. /\ IsRun(y) /\ y.pc = "token" /\ y.op = x.op /\ y.item = x.item /\ y.sent = x.sent
      /\ y.tok = x.tok /\ y.svc = a.svc /\ y.fits = x.fits /\ y.couldFit = x.couldFit
      /\ y.ans = None
  BY <1>2 DEF RunningOK, IsRun
<1> HIDE DEF y, z
<1>7. SentOK(y, now, renames)
  BY <1>2, <1>6 DEF RunningOK, SentOK
<1>8. a.kind = "challenge" => RequestOK(y, now, service, renames)
  BY <1>1, <1>2, <1>3, <1>6, <1>7 DEF RequestOK, RunningOK, AnswerOK
<1>9. RequestOK(z, now, service, renames)
  BY <1>5, <1>8, DoneOK
<1> QED BY <1>1, <1>9, OneRequest

LEMMA ReceiveTokenStep ==
    ASSUME IInv, NEW r \in Requests, ReceiveToken(r)
    PROVE  IInv'
<1> DEFINE x == req[r]
           a == x.ans
           y == [x EXCEPT !.pc = "second", !.tok = a.tok, !.ans = None]
           item == [tok |-> a.tok, exp |-> now + (a.tok.dies - a.tok.born)]
<1>1. x.pc = "token" /\ a # None /\ UNCHANGED << service, renames, now >>
  BY DEF ReceiveToken
<1>2. RunningOK(x, now, service, renames)
  BY <1>1 DEF IInv, RequestOK
<1>3. AnswerOK(x, a, service, renames)
  BY <1>1, <1>2 DEF RunningOK
<1>4. CASE a.kind = "token"
  <2>1. tokens' = Put(item) /\ req' = [req EXCEPT ![r] = y]
    BY <1>4 DEF ReceiveToken
  <2>2. Fetched(x, a.tok) /\ a.tok.born <= a.tok.dies
    BY <1>1, <1>3, <1>4 DEF AnswerOK
  <2>3. item \in Item
    BY <2>2 DEF Fetched, IInv, Token, Item
  <2>4. renames = 0 => item.tok.svc = service
    BY <1>1, <1>2, <2>2 DEF RunningOK, Fetched
  <2>5. CacheOK'
    <3> HIDE DEF item
    <3> QED BY <1>1, <2>1, <2>3, <2>4, PutKeeps DEF IInv, CacheOK, Unrenamed
  <2>6. /\ IsRun(y) /\ y.pc = "second" /\ y.op = x.op /\ y.item = x.item /\ y.sent = x.sent
        /\ y.tok = a.tok /\ y.svc = x.svc /\ y.fits = x.fits /\ y.couldFit = x.couldFit
        /\ y.ans = None
    BY <1>2 DEF RunningOK, IsRun
  <2> HIDE DEF y, item
  <2>7. SentOK(y, now, renames)
    BY <1>2, <2>6 DEF RunningOK, SentOK
  <2>8. RequestOK(y, now, service, renames)
    BY <1>1, <1>2, <2>2, <2>6, <2>7 DEF RequestOK, RunningOK, Fetched
  <2>9. \A s \in Requests : req'[s] = IF s = r THEN y ELSE req[s]
    BY <2>1 DEF IInv
  <2>10. DOMAIN req' = Requests
    BY <2>1 DEF IInv
  <2> QED BY <1>1, <2>5, <2>8, <2>9, <2>10 DEF IInv
<1>5. CASE a.kind # "token"
  <2>1. UNCHANGED tokens /\ req' = [req EXCEPT ![r] = Done("error", None)]
    BY <1>5 DEF ReceiveToken
  <2>2. RequestOK(Done("error", None), now, service, renames)
    BY DoneOK
  <2> QED BY <1>1, <2>1, <2>2, OneRequest
<1> QED BY <1>4, <1>5

LEMMA ReceiveSecondStep ==
    ASSUME IInv, NEW r \in Requests, ReceiveSecond(r)
    PROVE  IInv'
<1> DEFINE x == req[r]
           a == x.ans
           z == IF a.kind = "served" THEN Done("served", None) ELSE Done("401", a.why)
<1>1. /\ x.pc = "second" /\ a # None /\ req' = [req EXCEPT ![r] = z]
      /\ UNCHANGED << service, renames, now, tokens >>
  BY DEF ReceiveSecond
<1>2. RunningOK(x, now, service, renames)
  BY <1>1 DEF IInv, RequestOK
<1>3. a.kind # "served" => a.why # "unfit"
  BY <1>1, <1>2 DEF RunningOK, AnswerOK
<1>4. RequestOK(z, now, service, renames)
  BY <1>3, DoneOK
<1> HIDE DEF z
<1> QED BY <1>1, <1>4, OneRequest

LEMMA GiveUpStep ==
    ASSUME IInv, NEW r \in Requests, GiveUp(r)
    PROVE  IInv'
<1>1. RequestOK(Done("error", None), now, service, renames)
  BY DoneOK
<1> QED BY <1>1, OneRequest DEF GiveUp

LEMMA TickStep == ASSUME IInv, Tick PROVE IInv'
<1>1. now \in Nat /\ now' = now + 1 /\ UNCHANGED << service, renames, tokens, req >>
  BY DEF Tick, IInv
<1>2. \A r \in Requests : RequestOK(req[r], now + 1, service, renames)
  BY <1>1, LaterOK DEF IInv
<1> QED BY <1>1, <1>2 DEF IInv, CacheOK, Distinct, Unrenamed

LEMMA RenameStep == ASSUME IInv, NEW s \in Services, Rename(s) PROVE IInv'
<1>1. /\ renames \in Nat /\ renames' = renames + 1 /\ service' = s
      /\ UNCHANGED << now, tokens, req >>
  BY DEF Rename, IInv
<1>2. \A r \in Requests : RequestOK(req[r], now, s, renames + 1)
  BY <1>1, RenamedOK DEF IInv
<1>3. renames' \in Nat /\ renames' # 0
  BY <1>1
<1> QED BY <1>1, <1>2, <1>3 DEF IInv, CacheOK, Distinct, Unrenamed

-----------------------------------------------------------------------------

LEMMA InitInductive == Init => IInv
<1> SUFFICES ASSUME Init PROVE IInv
  OBVIOUS
<1>1. tokens \in Seq(Item) /\ DOMAIN tokens = {}
  BY DEF Init
<1>2. DOMAIN req = Requests /\ \A r \in Requests : req[r].pc = "idle"
  BY DEF Init
<1>3. service \in Services /\ renames = 0 /\ now = 0
  BY NameAssumption DEF Init
<1> QED BY <1>1, <1>2, <1>3 DEF IInv, CacheOK, Distinct, Unrenamed, RequestOK

LEMMA NextInductive == IInv /\ [Next]_vars => IInv'
<1> SUFFICES ASSUME IInv, [Next]_vars PROVE IInv'
  OBVIOUS
<1>1. ASSUME NEW r \in Requests, NEW op \in Ops, Send(r, op) PROVE IInv'
  BY <1>1, SendStep
<1>2. ASSUME NEW r \in Requests, Serve(r) \/ Receive(r) \/ GiveUp(r) PROVE IInv'
  BY <1>2, ServeStep, ReceiveFirstStep, ReceiveTokenStep, ReceiveSecondStep, GiveUpStep
     DEF Receive
<1>3. CASE UNCHANGED vars
  BY <1>3 DEF vars, IInv, CacheOK, Distinct, Unrenamed
<1> QED BY <1>1, <1>2, <1>3, TickStep, RenameStep DEF Next

LEMMA Inductive == Spec => []IInv
BY InitInductive, NextInductive, PTL DEF Spec

\* One item for a service and scope, and every request where it can be.
THEOREM TypeCorrect == Spec => []TypeOK
<1>1. IInv => TypeOK
  BY DEF IInv, CacheOK, Distinct, RequestOK, RunningOK, SentOK, Running, TypeOK
<1> QED BY <1>1, Inductive, PTL

\* A token attached from the cache is alive, if its answer was not under way longer
\* than the grace period.
THEOREM Alive == Spec => []AttachedAlive
<1>1. IInv => AttachedAlive
  BY DEF IInv, RequestOK, RunningOK, SentOK, Running, AttachedAlive
<1> QED BY <1>1, Inductive, PTL

\* What is in the cache never costs a request its answer.
THEOREM CacheIsHarmless == Spec => []NoNeedless401
<1>1. IInv => NoNeedless401
  BY DEF IInv, RequestOK, NoNeedless401
<1> QED BY <1>1, Inductive, PTL

\* While nothing is renamed, a request whose scope infer_scope guesses right (a probe,
\* the catalog, a read of manifests, blobs or tags) goes out with a token that the
\* registry accepts whenever the cache holds one.
THEOREM Skips == Spec => []SkipsDance
<1>1. IInv => SkipsDance
  BY DEF IInv, RequestOK, RunningOK, SentOK, Running, SkipsDance
<1> QED BY <1>1, Inductive, PTL
=============================================================================
