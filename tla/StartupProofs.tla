--------------------------- MODULE StartupProofs ---------------------------
(***************************************************************************)
(* Proofs about what the application starts with (config.py,               *)
(* config_secrets.py) and the provider built from it, for every            *)
(* combination of variables and files and any number of starts: who is let *)
(* in, that somebody can be, and when a restart keeps the sessions.        *)
(***************************************************************************)
EXTENDS Startup, TLAPS

-----------------------------------------------------------------------------
\* The inductive invariant.

\* The password a process that read the files f checks logins against.
HashFrom(f) ==
    LET h == IF f.password # None THEN f.password ELSE env.hash
    IN  IF h = Blank THEN None ELSE h

\* The Settings p are those that the variables and the files p read come to, and
\* Settings() did not raise on them.
Settled(p) ==
    /\ p.mode = env.mode
    /\ p.username = Resolve(env.username, p.read.username)
    /\ p.hash = HashFrom(p.read)
    /\ p.autogenerated <=> env.secret = Blank /\ p.read.secret = None
    /\ ~ p.autogenerated => p.secret = Resolve(env.secret, p.read.secret)
    /\ ~ Broken(p.read.username) /\ ~ Broken(p.read.password) /\ ~ Broken(p.read.secret)
    /\ p.mode # "public" => p.username \notin {None, Blank} /\ p.hash # None

\* A generated secret is the number it was generated as.
Numbered(p) == p.autogenerated => p.secret \in 1 .. generated

\* The secret of the process that runs was generated after its predecessor's.
Newer == proc.autogenerated /\ previous.autogenerated => previous.secret < proc.secret

\* A login is answered from the Settings of the process that runs.
Answered ==
    login # None /\ login.answer = "ok" =>
        /\ proc.mode # "public" /\ Provider = "env"
        /\ Authenticates(login.user, login.password)

IInv ==
    /\ TypeOK
    /\ Up => Settled(proc) /\ Numbered(proc) /\ Answered
    /\ previous # None => Settled(previous) /\ Numbered(previous)
    /\ Up /\ previous # None => Newer

-----------------------------------------------------------------------------
\* The Settings a process starts with.

\* What Settings() makes of the variables and the files.
Made ==
    [pc |-> "up", mode |-> env.mode, username |-> Username,
     hash |-> PasswordHash, read |-> file, autogenerated |-> NoSecret,
     secret |-> IF NoSecret THEN generated + 1 ELSE Resolve(env.secret, file.secret)]

\* The fields of the Settings.
LEMMA MadeFields ==
    /\ Made.pc = "up" /\ Made.mode = env.mode /\ Made.username = Username
    /\ Made.hash = PasswordHash /\ Made.read = file
    /\ Made.autogenerated = NoSecret
    /\ Made.secret = IF NoSecret THEN generated + 1 ELSE Resolve(env.secret, file.secret)
  BY DEF Made

\* A user name comes from a file that could be read and was not empty, or from
\* the variable; so do the password and the secret.
LEMMA ResolvedTypes ==
    ASSUME TypeOK, ~ Rejected
    PROVE  /\ Username \in Users \cup {Blank, None}
           /\ PasswordHash \in Passwords \cup {Malformed, None}
           /\ ~ NoSecret => Resolve(env.secret, file.secret) \in Secrets
<1>1. /\ file.username \in Users \cup {Blank, Unreadable, None}
      /\ file.password \in Passwords \cup {Blank, Unreadable, None}
      /\ file.secret \in Secrets \cup {Blank, Unreadable, None}
  BY DEF TypeOK, File
<1>2. /\ env.username \in Users \cup {Blank, None}
      /\ env.hash \in Passwords \cup {Blank, Malformed, None}
      /\ env.secret \in Secrets \cup {Blank}
  BY DEF TypeOK, Env
<1>3. \A x \in {file.username, file.password, file.secret} : x # Blank /\ x # Unreadable
  BY DEF Rejected, Broken
<1> QED BY <1>1, <1>2, <1>3 DEF Username, PasswordHash, NoSecret, Resolve

\* Nothing starts with a file that is missing, unreadable or empty.
LEMMA ReadSound ==
    ASSUME TypeOK, ~ Rejected
    PROVE  file \in Sound
<1>1. file \in File
  BY DEF TypeOK
<1>2. \A x \in {file.username, file.password, file.secret} : x # Blank /\ x # Unreadable
  BY DEF Rejected, Broken
<1> QED BY <1>1, <1>2 DEF File, Sound

\* They are Settings.
LEMMA MadeRunning ==
    ASSUME TypeOK, ~ Rejected
    PROVE  Made \in Running
<1>1. env.mode \in Modes /\ file \in Sound /\ generated \in Nat
  BY ReadSound DEF TypeOK, Env
<1>2. generated + 1 \in Nat
  BY <1>1
<1>3. NoSecret \in BOOLEAN
  BY DEF NoSecret
<1>4. (IF NoSecret THEN generated + 1 ELSE Resolve(env.secret, file.secret)) \in Secrets \cup Nat
  BY <1>2, ResolvedTypes
<1> QED BY <1>1, <1>3, <1>4, ResolvedTypes, Zenon DEF Made, Running

\* Settings that are accepted are settled.
LEMMA MadeSettled ==
    ASSUME ~ Rejected
    PROVE  Settled(Made)
<1> HIDE DEF Made
<1>1. ~ Broken(file.username) /\ ~ Broken(file.password) /\ ~ Broken(file.secret)
  BY DEF Rejected
<1>2. env.mode # "public" => Username \notin {None, Blank} /\ PasswordHash # None
  BY DEF Rejected
<1>3. PasswordHash = HashFrom(file)
  BY DEF PasswordHash, HashFrom
<1>4. Made.autogenerated <=> env.secret = Blank /\ file.secret = None
  BY MadeFields DEF NoSecret
<1>5. ~ Made.autogenerated => Made.secret = Resolve(env.secret, file.secret)
  BY MadeFields
<1> QED BY <1>1, <1>2, <1>3, <1>4, <1>5, MadeFields DEF Settled, Username

-----------------------------------------------------------------------------
\* The steps.

\* The start of the process: a secret it generates was never used before.
LEMMA StartStep ==
    ASSUME IInv, Start
    PROVE  IInv'
<1>1. /\ env' = env /\ file' = file /\ previous' = previous /\ edits' = edits
      /\ login' = None /\ starts' = starts + 1 /\ starts \in Nat /\ generated \in Nat
  BY DEF Start, IInv, TypeOK
<1>2. previous # None => Settled(previous)' /\ Numbered(previous)
  BY <1>1 DEF IInv, Settled, HashFrom
<1>3. ~ Answered' => login' # None
  BY DEF Answered
<1>4. CASE Rejected
  <2>1. proc' = [pc |-> "refused"] /\ generated' = generated
    BY <1>4 DEF Start
  <2>2. ~ Up'
    BY <2>1 DEF Up
  <2>3. TypeOK'
    <3>1. proc' \in Running \cup {Down, [pc |-> "refused"]}
      BY <2>1
    <3> QED BY <1>1, <2>1, <3>1 DEF IInv, TypeOK, Running
  <2>4. previous # None => Numbered(previous)'
    BY <1>1, <1>2, <2>1 DEF Numbered
  <2> QED BY <1>1, <1>2, <2>2, <2>3, <2>4 DEF IInv
<1>5. CASE ~ Rejected
  <2>1. proc' = Made /\ generated' = IF NoSecret THEN generated + 1 ELSE generated
    BY <1>5 DEF Start, Made
  <2>2. proc' \in Running /\ Settled(Made) /\ TypeOK
    BY <1>5, <2>1, MadeRunning, MadeSettled DEF IInv
  <2>3. generated' \in Nat /\ generated <= generated'
    BY <1>1, <2>1
  <2>4. TypeOK'
    <3>1. proc' \in Running \cup {Down, [pc |-> "refused"]}
      BY <2>2
    <3> QED BY <1>1, <2>2, <2>3, <3>1 DEF TypeOK, Running
  <2>5. Settled(proc)'
    BY <1>1, <2>1, <2>2 DEF Settled, HashFrom
  <2>6. Numbered(proc)'
    BY <1>1, <2>1, MadeFields DEF Numbered
  <2>7. previous # None => Numbered(previous)'
    BY <1>1, <1>2, <2>3 DEF Numbered
  <2>8. previous # None => Newer'
    BY <1>1, <1>2, <2>1, MadeFields DEF Newer, Numbered
  <2> QED BY <1>1, <1>2, <1>3, <2>4, <2>5, <2>6, <2>7, <2>8 DEF IInv
<1> QED BY <1>4, <1>5

\* The end of the process: its Settings become the history.
LEMMA StopStep ==
    ASSUME IInv, Stop
    PROVE  IInv'
<1>1. /\ Up /\ proc' = Down /\ previous' = proc
      /\ UNCHANGED << env, file, generated, login, starts, edits >>
  BY DEF Stop
<1>2. ~ Up'
  BY <1>1 DEF Up, Down
<1>3. proc \in Running
  BY <1>1 DEF IInv, TypeOK, Up, Down
<1>4. TypeOK'
  BY <1>1, <1>3 DEF IInv, TypeOK, Running
<1>5. Settled(proc) /\ Numbered(proc)
  BY <1>1 DEF IInv
<1>6. Settled(previous)' /\ Numbered(previous)'
  BY <1>1, <1>5 DEF Settled, HashFrom, Numbered
<1> QED BY <1>2, <1>4, <1>6 DEF IInv

\* A changed file changes nothing of a process that has read it.
LEMMA EditStep ==
    ASSUME IInv, NEW name, NEW v, [file EXCEPT ![name] = v] \in File, Edit(name, v)
    PROVE  IInv'
<1>1. /\ file' \in File /\ edits \in Nat /\ edits' = edits + 1
      /\ UNCHANGED << env, proc, previous, generated, login, starts >>
  BY DEF Edit, IInv, TypeOK
<1>2. TypeOK'
  BY <1>1 DEF IInv, TypeOK, Running
<1> QED BY <1>1, <1>2 DEF IInv, Up, Settled, HashFrom, Numbered, Newer, Answered, Provider, Authenticates

\* What Login makes of a name and a password.
Answer(user, password) ==
    [user |-> user, password |-> password,
     answer |-> CASE Provider = "ValueError" -> "500"
                  [] Provider # "ValueError" /\ (proc.mode = "public" \/ Provider = "none") -> "403"
                  [] OTHER -> IF Authenticates(user, password) THEN "ok" ELSE "401"]

\* A login is let in only by the provider of a mode that is not public.
LEMMA AnswerMeaning ==
    ASSUME NEW user, NEW password
    PROVE  /\ Answer(user, password).user = user
           /\ Answer(user, password).password = password
           /\ Answer(user, password).answer = "ok" =>
                 /\ proc.mode # "public" /\ Provider = "env"
                 /\ Authenticates(user, password)
<1>1. Provider \in {"none", "ValueError", "env"}
  BY DEF Provider
<1>2. CASE Provider = "ValueError"
  BY <1>2 DEF Answer
<1>3. CASE Provider # "ValueError" /\ (proc.mode = "public" \/ Provider = "none")
  BY <1>3 DEF Answer
<1>4. CASE Provider # "ValueError" /\ proc.mode # "public" /\ Provider # "none"
  BY <1>1, <1>4 DEF Answer
<1> QED BY <1>2, <1>3, <1>4

\* A login changes its own answer only.
LEMMA LoginStep ==
    ASSUME IInv, NEW user \in Users, NEW password \in Passwords, Login(user, password)
    PROVE  IInv'
<1>1. /\ login' = Answer(user, password)
      /\ UNCHANGED << env, file, proc, previous, generated, starts, edits >>
  BY DEF Login, Answer
<1>2. TypeOK'
  BY <1>1, AnswerMeaning DEF IInv, TypeOK, Running
<1>3. Answered'
  <2>1. Provider' = Provider
    BY <1>1 DEF Provider
  <2> QED BY <1>1, <2>1, AnswerMeaning DEF Answered, Authenticates
<1> QED BY <1>1, <1>2, <1>3 DEF IInv, Up, Settled, HashFrom, Numbered, Newer

\* The invariant is inductive.
LEMMA Invariance == Spec => []IInv
<1>1. Init => IInv
  BY DEF Init, IInv, TypeOK, Up, Down
<1>2. IInv /\ [Next]_vars => IInv'
  <2> SUFFICES ASSUME IInv, [Next]_vars PROVE IInv'
    OBVIOUS
  <2>1. CASE Start
    BY <2>1, StartStep
  <2>2. CASE Stop
    BY <2>2, StopStep
  <2>3. ASSUME NEW name \in DOMAIN file, NEW v, [file EXCEPT ![name] = v] \in File, Edit(name, v)
        PROVE  IInv'
    BY <2>3, EditStep
  <2>4. ASSUME NEW user \in Users, NEW password \in Passwords, Login(user, password)
        PROVE  IInv'
    BY <2>4, LoginStep
  <2>5. CASE UNCHANGED vars
    BY <2>5 DEF vars, IInv, TypeOK, Running, Up, Settled, HashFrom, Numbered, Newer,
                Answered, Provider, Authenticates
  <2> QED BY <2>1, <2>2, <2>3, <2>4, <2>5 DEF Next
<1> QED BY <1>1, <1>2, PTL DEF Spec

-----------------------------------------------------------------------------
\* The Settings of a process that started are of their types, and the files they
\* were read from were all there, readable and not empty.
THEOREM TypeCorrect == Spec => []TypeOK
<1>1. IInv => TypeOK
  BY DEF IInv
<1> QED BY <1>1, Invariance, PTL

\* Whoever is let in gave the configured name and password, the file's before the
\* variable's, as they were when the process started, whatever was written since.
THEOREM Configured == Spec => []LoginsAreConfigured
<1>1. IInv => LoginsAreConfigured
  <2> SUFFICES ASSUME IInv, Up, login # None, login.answer = "ok"
               PROVE  /\ env.mode # "public"
                      /\ login.user = (IF proc.read.username # None THEN proc.read.username ELSE env.username)
                      /\ login.password = (IF proc.read.password # None THEN proc.read.password ELSE env.hash)
    BY DEF LoginsAreConfigured
  <2>1. Settled(proc) /\ proc.mode # "public" /\ Provider = "env"
    BY DEF IInv, Answered
  <2>2. proc.username = login.user /\ proc.hash = login.password
    BY DEF IInv, Answered, Authenticates
  <2>3. proc.hash # None
    BY <2>1 DEF Settled
  <2> QED BY <2>1, <2>2, <2>3 DEF Settled, Resolve, HashFrom
<1> QED BY <1>1, Invariance, PTL

\* An application whose mode demands a login has a name and a password that are
\* accepted, unless the hash is malformed: _validate_auth_config refuses every
\* other combination.
THEOREM Possible == Spec => []SomeoneCanLogIn
<1>1. IInv => SomeoneCanLogIn
  <2> SUFFICES ASSUME IInv, Up, proc.mode # "public", proc.hash # Malformed
               PROVE  /\ Provider = "env"
                      /\ \E user \in Users, password \in Passwords : Authenticates(user, password)
    BY DEF SomeoneCanLogIn
  <2>1. proc.username \notin {None, Blank} /\ proc.hash # None
    BY DEF IInv, Settled
  <2>2. proc \in Running
    BY DEF IInv, TypeOK, Up, Down
  <2>3. proc.username \in Users /\ proc.hash \in Passwords
    BY <2>1, <2>2 DEF Running
  <2> QED BY <2>1, <2>3 DEF Provider, Authenticates
<1> QED BY <1>1, Invariance, PTL

\* A restart keeps the sessions exactly if a secret is configured: a generated one
\* was never used before.
THEOREM Survival == Spec => []SessionsSurvive
<1>1. IInv => SessionsSurvive
  <2> SUFFICES ASSUME IInv, Up, previous # None, previous.read = file, proc.read = file
               PROVE  proc.secret = previous.secret <=> env.secret # Blank \/ file.secret # None
    BY DEF SessionsSurvive
  <2>1. Settled(proc) /\ Settled(previous) /\ Newer /\ Numbered(proc) /\ Numbered(previous)
    BY DEF IInv
  <2>2. CASE env.secret # Blank \/ file.secret # None
    BY <2>1, <2>2 DEF Settled
  <2>3. CASE ~ (env.secret # Blank \/ file.secret # None)
    <3>1. proc.autogenerated /\ previous.autogenerated
      BY <2>1, <2>3 DEF Settled
    <3>2. /\ previous.secret < proc.secret
          /\ previous.secret \in 1 .. generated /\ proc.secret \in 1 .. generated
      BY <2>1, <3>1 DEF Newer, Numbered
    <3>3. proc.secret # previous.secret
      BY <3>2 DEF IInv, TypeOK
    <3> QED BY <2>3, <3>3
  <2> QED BY <2>2, <2>3
<1> QED BY <1>1, Invariance, PTL

=============================================================================
