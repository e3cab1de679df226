------------------------------ MODULE Startup ------------------------------
(***************************************************************************)
(* config.py (class Settings), config_secrets.py and the login provider    *)
(* built from them: which combinations of environment variables and secret *)
(* files the application starts with, who can log in then, and what a      *)
(* restart keeps.  Everything is read once, when the process starts; the   *)
(* operator may change a secret's file at any time.                        *)
(***************************************************************************)
EXTENDS Integers

CONSTANTS
    Users, Passwords, Secrets,   \* non-empty values
    MaxStarts,                   \* bound on the starts of the process
    MaxEdits,                    \* bound on the changes of files
    Blank,                       \* the empty string, or an empty file
    Malformed,                   \* a hash bcrypt cannot read
    Unreadable,                  \* a file that is missing or may not be read
    None                         \* a variable that is not set

Modes == {"public", "protected", "admin"}

VARIABLES
    env,       \* the environment variables, and where ADMIN_PASSWORD is set
    file,      \* the contents of the *_FILE files; None where no file is named
    proc,      \* the process: down, refused (it did not start), or its Settings
    previous,  \* history: the process that ran before this one, or None
    generated, \* how many session secrets were generated
    login,     \* the last UI login and its answer, or None
    starts, edits

vars == << env, file, proc, previous, generated, login, starts, edits >>

Env == [mode : Modes, username : Users \cup {Blank, None},
        hash : Passwords \cup {Blank, Malformed, None},
        password : Passwords \cup {Blank, None}, passwordIn : {"environ", "dotenv"},
        secret : Secrets \cup {Blank}]

File == [username : Users \cup {Blank, Unreadable, None},
         password : Passwords \cup {Blank, Unreadable, None},
         secret : Secrets \cup {Blank, Unreadable, None}]

Down == [pc |-> "down"]
Up == proc.pc = "up"

-----------------------------------------------------------------------------
\* Mutant of Broken: what is read of an empty file is used.
Broken_Missing(f) == f = Unreadable

\* _read_secret_file fails on a file that cannot be read or is empty.
Broken(f) == f \in {Blank, Unreadable}

\* Mutant of Resolve: the inline value wins.
Resolve_Inline(value, f) == IF value \in {None, Blank} /\ f # None THEN f ELSE value

\* resolve_secret: the file wins over the inline value.
Resolve(value, f) == IF f # None THEN f ELSE value

Username == Resolve(env.username, file.username)

\* The effective hash, a password standing for its hash: the hash of what is in
\* the file, else the inline one; an empty one counts as none.
PasswordHash ==
    LET h == IF file.password # None THEN file.password ELSE env.hash
    IN  IF h = Blank THEN None ELSE h

\* The plaintext guard of _validate_auth_config, which looks at os.environ.
PlaintextGuard ==
    /\ env.password \in Passwords /\ env.passwordIn = "environ"
    /\ env.hash \in {None, Blank} /\ file.password = None

\* Mutant of Rejected: a user name that is set to nothing will do.
Rejected_Unset ==
    \/ Broken(file.secret) \/ Broken(file.username) \/ Broken(file.password)
    \/ PlaintextGuard
    \/ env.mode # "public" /\ (Username = None \/ PasswordHash = None)

\* What makes Settings() raise.
Rejected ==
    \/ Broken(file.secret) \/ Broken(file.username) \/ Broken(file.password)
    \/ PlaintextGuard
    \/ env.mode # "public" /\ (Username \in {None, Blank} \/ PasswordHash = None)

\* Mutant of NoSecret: a secret's file alone does not count.
NoSecret_Inline == env.secret = Blank

\* A secret that is not configured is generated: every generated one is new.
NoSecret == env.secret = Blank /\ file.secret = None

Start ==
    /\ ~ Up /\ starts < MaxStarts
    /\ starts' = starts + 1
    /\ IF Rejected
       THEN proc' = [pc |-> "refused"] /\ UNCHANGED generated
       ELSE /\ proc' = [pc |-> "up", mode |-> env.mode, username |-> Username,
                        hash |-> PasswordHash, read |-> file, autogenerated |-> NoSecret,
                        secret |-> IF NoSecret THEN generated + 1
                                   ELSE Resolve(env.secret, file.secret)]
            /\ generated' = IF NoSecret THEN generated + 1 ELSE generated
    /\ login' = None
    /\ UNCHANGED << env, file, previous, edits >>

Stop ==
    /\ Up
    /\ proc' = Down
    /\ previous' = proc
    /\ UNCHANGED << env, file, generated, login, starts, edits >>

\* The operator writes another value to a secret's file, or breaks it.
Edit(name, v) ==
    /\ edits < MaxEdits
    /\ file[name] \notin {None, v}
    /\ edits' = edits + 1
    /\ file' = [file EXCEPT ![name] = v]
    /\ UNCHANGED << env, proc, previous, generated, login, starts >>

-----------------------------------------------------------------------------
\* get_auth_provider: no provider, one, or EnvAdminProvider's ValueError.
Provider ==
    IF proc.username = None \/ proc.hash = None THEN "none"
    ELSE IF proc.username = Blank THEN "ValueError" ELSE "env"

\* authenticate: a hash bcrypt cannot read never matches.
Authenticates(user, password) == proc.username = user /\ proc.hash = password

\* The provider is a dependency of the handlers: it is built before they look at
\* the mode.
Login(user, password) ==
    /\ Up
    /\ login' = [user |-> user, password |-> password,
                 answer |-> CASE Provider = "ValueError" -> "500"
                              [] Provider # "ValueError" /\ (proc.mode = "public" \/ Provider = "none") -> "403"
                              [] OTHER -> IF Authenticates(user, password) THEN "ok" ELSE "401"]
    /\ UNCHANGED << env, file, proc, previous, generated, starts, edits >>

-----------------------------------------------------------------------------
Init ==
    /\ env \in Env
    /\ file \in File
    /\ proc = Down
    /\ previous = None
    /\ generated = 0
    /\ login = None
    /\ starts = 0 /\ edits = 0

Next ==
    \/ Start
    \/ Stop
    \/ \E name \in DOMAIN file, v \in Users \cup Passwords \cup Secrets \cup {Blank, Unreadable} :
          [file EXCEPT ![name] = v] \in File /\ Edit(name, v)
    \/ \E user \in Users, password \in Passwords : Login(user, password)

Spec == Init /\ [][Next]_vars

-----------------------------------------------------------------------------
\* Files that are all readable and not empty.
Sound == [username : Users \cup {None}, password : Passwords \cup {None},
          secret : Secrets \cup {None}]

Running == [pc : {"up"}, mode : Modes, username : Users \cup {Blank, None},
            hash : Passwords \cup {Malformed, None}, read : Sound,
            autogenerated : BOOLEAN, secret : Secrets \cup Nat]

\* A process that runs has read no file that is missing, unreadable or empty
\* (config_secrets.py:72-87); an empty name can only be the variable's.
TypeOK ==
    /\ env \in Env /\ file \in File
    /\ proc \in Running \cup {Down, [pc |-> "refused"]}
    /\ previous \in Running \cup {None}
    /\ generated \in Nat /\ starts \in Nat /\ edits \in Nat
    /\ login # None => login.user \in Users /\ login.password \in Passwords

\* Whoever is let in gave the name and the password that the operator had
\* configured when the process started: the file's where one is named, although
\* the variable is set too, and not what was written to the file since; a hash
\* bcrypt cannot read lets nobody in (config_secrets.py:31-69, env_provider.py:65).
LoginsAreConfigured ==
    Up /\ login # None /\ login.answer = "ok" =>
        /\ env.mode # "public"
        /\ login.user = (IF proc.read.username # None THEN proc.read.username ELSE env.username)
        /\ login.password = (IF proc.read.password # None THEN proc.read.password ELSE env.hash)

\* An application that demands a login can be logged in to: whatever combination
\* of variables and files it started with, if UI login is on then some name and
\* password are accepted, unless the operator's hash is malformed (config.py:247-257).
SomeoneCanLogIn ==
    Up /\ proc.mode # "public" /\ proc.hash # Malformed =>
        /\ Provider = "env"
        /\ \E user \in Users, password \in Passwords : Authenticates(user, password)

\* A restart keeps the sessions exactly if a secret is configured, in the variable
\* or in a file: with nothing changed in between, the new process signs with the
\* old one's secret, and otherwise with one that was never used (config.py:169-184).
SessionsSurvive ==
    Up /\ previous # None /\ previous.read = file /\ proc.read = file =>
        (proc.secret = previous.secret <=> env.secret # Blank \/ file.secret # None)

\* README.md:98 "Plaintext ADMIN_PASSWORD in env is rejected at startup".  (The tests
\* have it as the code does: tests/test_auth_config.py:199-210.)
PlaintextRejected == env.password \in Passwords /\ env.passwordIn = "environ" => ~ Up

=============================================================================
