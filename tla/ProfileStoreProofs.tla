------------------------- MODULE ProfileStoreProofs -------------------------
(***************************************************************************)
(* The types of the two files and of what each process holds in memory,     *)
(* and that a personal access token is only sent with its own account; then *)
(* what commands keep that run one after the other.                         *)
(*                                                                          *)
(* The first two need one inductive invariant.  A request is safe at the    *)
(* moment it is sent because of what Validate saw two or more steps         *)
(* earlier: so the invariant follows the resolved auth of a process from    *)
(* there, through a refresh, and says that no other step gives a request an *)
(* auth.                                                                    *)
(*                                                                          *)
(* The others need a second one, TurnInv: a command changes the files one   *)
(* after the other, so it speaks of them as the command under way will have *)
(* written them.                                                            *)
(***************************************************************************)
EXTENDS ProfileStore, FiniteSetTheorems, TLAPS

Auth    == [kind : Logins, acct : Accts, tok : Token]
Follows == {"begin", "storeToken", "removeToken", "resolve", "use", "done"}

Types ==
  /\ config \in Config /\ creds \in Partial(Token)
  /\ pc \in [Procs -> Labels] /\ then \in [Procs -> Follows] /\ DOMAIN cmd = Procs
  /\ cfg \in [Procs -> Config] /\ crd \in [Procs -> Partial(Token)]
  /\ auth \in [Procs -> Auth \cup {Nobody}]
  /\ ids \subseteq Procs /\ latest \in [Profiles -> Procs \cup {NoOne}]

Sound(p) ==
  /\ pc[p] = "idle" => auth[p] = Nobody /\ then[p] = "done"
  /\ pc[p] # "idle" => cmd[p] \in Command(p)
  /\ pc[p] \in {"ask", "signin", "storeToken"} \/ then[p] = "storeToken" => cmd[p].kind \in Logins
  /\ pc[p] \in {"update", "exchange"} => auth[p] # Nobody
  /\ pc[p] = "resolveToken" => Name(p) \in DOMAIN cfg[p].profiles
  /\ then[p] = "begin" => pc[p] \in {"saveConfig", "fillConfig"} /\ cfg[p].tid \in Procs
  /\ cmd[p].kind = "api" /\ auth[p].kind = "pat" => auth[p].acct = auth[p].tok.acct

IInv == Types /\ \A p \in Procs : Sound(p)
-----------------------------------------------------------------------------
(* The files as partial functions *)

\* What it is to be a file with entries in S.
LEMMA PartialIs ==
  ASSUME NEW S, NEW f
  PROVE f \in Partial(S) <=> DOMAIN f \subseteq Profiles /\ f \in [DOMAIN f -> S]
BY DEF Partial

\* The empty file.
LEMMA EmptyType == <<>> \in Partial(Token) /\ Empty \in Config
<1>1. ASSUME NEW S PROVE <<>> \in Partial(S)
  <2>1. <<>> \in [{} -> S]
    OBVIOUS
  <2> QED BY <2>1 DEF Partial
<1> QED BY <1>1 DEF Empty, Config

\* Adding an entry.
LEMMA PutType ==
  ASSUME NEW S, NEW f \in Partial(S), NEW n \in Profiles, NEW v \in S
  PROVE Put(f, n, v) \in Partial(S)
BY PartialIs DEF Put

\* Removing one.
LEMMA WithoutType ==
  ASSUME NEW S, NEW f \in Partial(S), NEW n
  PROVE Without(f, n) \in Partial(S)
BY PartialIs DEF Without, Restrict

\* What Entry returns is an entry.
LEMMA EntryType ==
  ASSUME NEW S, NEW f \in Partial(S), NEW n, NEW v \in Entry(f, n)
  PROVE v \in S /\ n \in DOMAIN f /\ v = f[n]
BY PartialIs DEF Entry

\* A change of one field of one profile.
LEMMA EditType ==
  ASSUME NEW c \in Config, NEW n \in DOMAIN c.profiles, NEW b \in BOOLEAN
  PROVE /\ [c EXCEPT !.profiles[n].scoped = @ \/ b] \in Config
        /\ [c EXCEPT !.profiles[n].known = TRUE] \in Config
<1>1. c.profiles \in Partial(Profile) /\ c.tid \in Procs \cup {NoOne}
  BY DEF Config
<1>2. c.profiles \in [DOMAIN c.profiles -> Profile] /\ DOMAIN c.profiles \subseteq Profiles
  BY <1>1, PartialIs
<1>3. ASSUME NEW g \in Profile
      PROVE [c EXCEPT !.profiles = [c.profiles EXCEPT ![n] = g]] \in Config
  <2>1. [c.profiles EXCEPT ![n] = g] \in [DOMAIN c.profiles -> Profile]
    BY <1>2
  <2>2. [c.profiles EXCEPT ![n] = g] \in Partial(Profile)
    BY <1>2, <2>1 DEF Partial
  <2> QED BY <1>1, <2>2 DEF Config
<1>4. [c.profiles[n] EXCEPT !.scoped = @ \/ b] \in Profile /\ [c.profiles[n] EXCEPT !.known = TRUE] \in Profile
  BY <1>2 DEF Profile
<1>5. /\ [c EXCEPT !.profiles[n].scoped = @ \/ b] = [c EXCEPT !.profiles = [c.profiles EXCEPT ![n] = [c.profiles[n] EXCEPT !.scoped = @ \/ b]]]
      /\ [c EXCEPT !.profiles[n].known = TRUE] = [c EXCEPT !.profiles = [c.profiles EXCEPT ![n] = [c.profiles[n] EXCEPT !.known = TRUE]]]
  BY <1>2 DEF Config
<1> QED BY <1>3, <1>4, <1>5

-----------------------------------------------------------------------------
\* The files as earlier commands left them.
LEMMA InitIInv == Init => IInv
<1> SUFFICES ASSUME Init PROVE IInv
  OBVIOUS
<1>1. creds \in Partial(Token)
  BY PartialIs DEF Init
<1>2. config \in Config
  <2>1. PICK known \in BOOLEAN :
          config = [profiles |-> [n \in DOMAIN creds |->
                   [kind |-> creds[n].kind, acct |-> creds[n].acct, scoped |-> TRUE, known |-> known]], tid |-> NoOne]
    BY DEF Init
  <2>2. config.profiles \in [DOMAIN creds -> Profile]
    <3>1. ASSUME NEW n \in DOMAIN creds PROVE creds[n] \in Token
      BY <1>1, PartialIs
    <3>2. ASSUME NEW n \in DOMAIN creds
          PROVE [kind |-> creds[n].kind, acct |-> creds[n].acct, scoped |-> TRUE, known |-> known] \in Profile
      BY <3>1 DEF Token, Profile
    <3> QED BY <2>1, <3>2
  <2>3. config.profiles \in Partial(Profile)
    BY <1>1, <2>2, PartialIs DEF Partial
  <2> QED BY <2>1, <2>3 DEF Config
<1>3. Types
  BY <1>1, <1>2, EmptyType DEF Init, Types, Labels, Ended, Writing, Follows
<1> QED BY <1>3 DEF Init, IInv, Sound, Nobody
-----------------------------------------------------------------------------
(* One lemma per kind of step; each says what the step does to one process. *)

Alone(p) ==
  \A q \in Procs \ {p} : /\ pc'[q] = pc[q] /\ cmd'[q] = cmd[q] /\ cfg'[q] = cfg[q]
                         /\ auth'[q] = auth[q] /\ then'[q] = then[q]

\* A step of p that leaves the others alone need only be looked at in p.
LEMMA OnlyOne ==
  ASSUME NEW p \in Procs, IInv, Types', Sound(p)', Alone(p)
  PROVE IInv'
BY DEF IInv, Sound, Alone, Name, Command

USE DEF At, Labels, Ended, Writing, Follows

\* A command that fails forgets what it had in memory.
LEMMA FailStep == ASSUME NEW p \in Procs, IInv, NEW l \in Labels \ {"idle"}, Fail(p, l) PROVE IInv'
<1>1. Types'
  BY EmptyType DEF IInv, Types, Fail, Forget, fileVars, ghostVars
<1>2. Sound(p)'
  BY DEF IInv, Types, Sound, Name, Fail, Forget, fileVars, ghostVars, Nobody, Command
<1>3. Alone(p)
  BY DEF IInv, Types, Alone, Fail, Forget, fileVars, ghostVars
<1> QED BY <1>1, <1>2, <1>3, OnlyOne

\* A command that is about to save a config has one in memory.
LEMMA SaveConfigStep ==
  ASSUME NEW p \in Procs, IInv, NEW l \in Labels \ {"idle"}, NEW c \in Config, NEW k \in Follows \ {"begin"},
         k = "storeToken" => cmd[p].kind \in Logins,
         At(p, l, "saveConfig"), SaveConfig(p, c, k), UNCHANGED <<fileVars, cmd, ghostVars>>
  PROVE IInv'
<1>1. Types'
  BY DEF IInv, Types, SaveConfig, fileVars, ghostVars
<1>2. Sound(p)'
  BY DEF IInv, Types, Sound, Name, SaveConfig, fileVars, ghostVars, Command
<1>3. Alone(p)
  BY DEF IInv, Types, Alone, SaveConfig, fileVars, ghostVars
<1> QED BY <1>1, <1>2, <1>3, OnlyOne

\* Replacing the profiles of a config gives a config.
LEMMA ConfigType ==
  ASSUME NEW c \in Config, NEW f \in Partial(Profile)
  PROVE [c EXCEPT !.profiles = f] \in Config /\ c.profiles \in Partial(Profile)
BY DEF Config

\* A command starts with nothing in memory.
LEMMA StartStep == ASSUME NEW p \in Procs, IInv, Start(p) PROVE IInv'
<1> USE DEF Start
<1>1. Types'
  BY EmptyType DEF IInv, Types, Forget, fileVars, memVars, ghostVars, Running, Command, Nobody
<1>2. Sound(p)'
  BY EmptyType DEF IInv, Types, Sound, Name, Forget, fileVars, memVars, ghostVars, Running, Command, Nobody
<1>3. Alone(p)
  BY DEF IInv, Types, Alone, Forget, fileVars, memVars, ghostVars, Running, Command, Nobody
<1> QED BY <1>1, <1>2, <1>3, OnlyOne

\* The id a process is about to persist is its own.
LEMMA TelemetryStep == ASSUME NEW p \in Procs, IInv, Telemetry(p) PROVE IInv'
<1> USE DEF Telemetry
<1>1. Types'
  BY EmptyType DEF IInv, Types, Forget, fileVars, memVars, ghostVars, SaveConfig, Config, Empty
<1>2. Sound(p)'
  BY EmptyType DEF IInv, Types, Sound, Name, Forget, fileVars, memVars, ghostVars, SaveConfig, Config, Empty
<1>3. Alone(p)
  BY DEF IInv, Types, Alone, Forget, fileVars, memVars, ghostVars, SaveConfig, Config, Empty
<1> QED BY <1>1, <1>2, <1>3, OnlyOne

\* Emptying either file leaves files.
LEMMA OpenConfigStep == ASSUME NEW p \in Procs, IInv, OpenConfig(p) PROVE IInv'
<1> USE DEF OpenConfig
<1>1. Types'
  BY EmptyType DEF IInv, Types, Forget, fileVars, memVars, ghostVars
<1>2. Sound(p)'
  BY EmptyType DEF IInv, Types, Sound, Name, Forget, fileVars, memVars, ghostVars
<1>3. Alone(p)
  BY DEF IInv, Types, Alone, Forget, fileVars, memVars, ghostVars
<1> QED BY <1>1, <1>2, <1>3, OnlyOne

\* Likewise.
LEMMA OpenCredsStep == ASSUME NEW p \in Procs, IInv, OpenCreds(p) PROVE IInv'
<1> USE DEF OpenCreds
<1>1. Types'
  BY EmptyType DEF IInv, Types, Forget, fileVars, memVars, ghostVars
<1>2. Sound(p)'
  BY EmptyType DEF IInv, Types, Sound, Name, Forget, fileVars, memVars, ghostVars
<1>3. Alone(p)
  BY DEF IInv, Types, Alone, Forget, fileVars, memVars, ghostVars
<1> QED BY <1>1, <1>2, <1>3, OnlyOne

\* What a process writes is what it had in memory.
LEMMA FillConfigStep == ASSUME NEW p \in Procs, IInv, FillConfig(p) PROVE IInv'
<1> USE DEF FillConfig
<1>1. ids' \subseteq Procs
  BY DEF IInv, Types, Sound
<1>2. Types'
  BY <1>1, EmptyType DEF IInv, Types
<1>3. Sound(p)'
  BY DEF IInv, Types, Sound, Name, Config, Empty
<1>4. Alone(p)
  BY DEF IInv, Types, Alone
<1> QED BY <1>2, <1>3, <1>4, OnlyOne

\* Likewise.
LEMMA FillCredsStep == ASSUME NEW p \in Procs, IInv, FillCreds(p) PROVE IInv'
<1> USE DEF FillCreds
<1>1. Types'
  BY EmptyType DEF IInv, Types, Forget, fileVars, memVars, ghostVars, Config, Empty, Command
<1>2. Sound(p)'
  BY EmptyType DEF IInv, Types, Sound, Name, Forget, fileVars, memVars, ghostVars, Config, Empty, Command
<1>3. Alone(p)
  BY DEF IInv, Types, Alone, Forget, fileVars, memVars, ghostVars, Config, Empty, Command
<1> QED BY <1>1, <1>2, <1>3, OnlyOne

\* A failed write, and a crash, leave the process without memory.
LEMMA FullStep == ASSUME NEW p \in Procs, IInv, Full(p) PROVE IInv'
<1> USE DEF Full
<1>1. Types'
  BY EmptyType DEF IInv, Types, Forget, fileVars, memVars, ghostVars, Nobody, Empty
<1>2. Sound(p)'
  BY EmptyType DEF IInv, Types, Sound, Name, Forget, fileVars, memVars, ghostVars, Nobody, Empty
<1>3. Alone(p)
  BY DEF IInv, Types, Alone, Forget, fileVars, memVars, ghostVars, Nobody, Empty
<1> QED BY <1>1, <1>2, <1>3, OnlyOne

\* Likewise.
LEMMA CrashStep == ASSUME NEW p \in Procs, IInv, Crash(p) PROVE IInv'
<1> USE DEF Crash
<1>1. Types'
  BY EmptyType DEF IInv, Types, Forget, fileVars, memVars, ghostVars, Nobody, Running, Empty
<1>2. Sound(p)'
  BY EmptyType DEF IInv, Types, Sound, Name, Forget, fileVars, memVars, ghostVars, Nobody, Running, Empty
<1>3. Alone(p)
  BY DEF IInv, Types, Alone, Forget, fileVars, memVars, ghostVars, Nobody, Running, Empty
<1> QED BY <1>1, <1>2, <1>3, OnlyOne

\* A login keeps the config it has read.
LEMMA LoginStep == ASSUME NEW p \in Procs, IInv, Login(p) PROVE IInv'
<1> USE DEF Login
<1>1. Types'
  BY EmptyType DEF IInv, Types, Fail, Forget, fileVars, memVars, ghostVars, Logins, Command, Nobody
<1>2. Sound(p)'
  BY EmptyType DEF IInv, Types, Sound, Name, Fail, Forget, fileVars, memVars, ghostVars, Logins, Command, Nobody
<1>3. Alone(p)
  BY DEF IInv, Types, Alone, Fail, Forget, fileVars, memVars, ghostVars, Logins, Command, Nobody
<1> QED BY <1>1, <1>2, <1>3, OnlyOne

\* Likewise.
LEMMA AskSsoStep == ASSUME NEW p \in Procs, IInv, AskSso(p) PROVE IInv'
<1> USE DEF AskSso
<1>1. Types'
  BY EmptyType DEF IInv, Types, Fail, Forget, fileVars, memVars, ghostVars, Nobody
<1>2. Sound(p)'
  BY EmptyType DEF IInv, Types, Sound, Name, Fail, Forget, fileVars, memVars, ghostVars, Nobody
<1>3. Alone(p)
  BY DEF IInv, Types, Alone, Fail, Forget, fileVars, memVars, ghostVars, Nobody
<1> QED BY <1>1, <1>2, <1>3, OnlyOne

\* The new profile is one.
LEMMA SignInStep == ASSUME NEW p \in Procs, IInv, SignIn(p) PROVE IInv'
<1>1. CASE Fail(p, "signin")
  BY <1>1, FailStep
<1>2. ASSUME NEW scoped \in BOOLEAN, NEW known \in BOOLEAN, At(p, "signin", "saveConfig"),
             SaveConfig(p, [cfg[p] EXCEPT !.profiles = Put(@, Name(p), NewProfile(p, scoped, known))], "storeToken"),
             UNCHANGED <<fileVars, cmd, ghostVars>>, cmd[p].kind \in Logins
      PROVE IInv'
  <2>1. cmd[p] \in Command(p) /\ cfg[p] \in Config
    BY <1>2 DEF IInv, Types, Sound
  <2>2. Name(p) \in Profiles /\ cmd[p].acct \in Accts
    BY <1>2, <2>1 DEF Command, Name
  <2>3. NewProfile(p, scoped, known) \in Profile
    BY <1>2, <2>2 DEF NewProfile, Profile
  <2>4. Put(cfg[p].profiles, Name(p), NewProfile(p, scoped, known)) \in Partial(Profile)
    BY <2>1, <2>2, <2>3, ConfigType, PutType DEF Config
  <2>5. [cfg[p] EXCEPT !.profiles = Put(@, Name(p), NewProfile(p, scoped, known))] \in Config
    BY <2>1, <2>4, ConfigType
  <2>6. "signin" \in Labels \ {"idle"} /\ "storeToken" \in Follows \ {"begin"}
    OBVIOUS
  <2> HIDE DEF At, Labels, Ended, Writing, Follows
  <2> QED BY <1>2, <2>5, <2>6, SaveConfigStep
<1>3. pc[p] = "signin" => cmd[p].kind \in Logins
  BY DEF IInv, Sound
<1> QED BY <1>1, <1>2, <1>3 DEF SignIn

\* The new token is one.
LEMMA StoreTokenStep == ASSUME NEW p \in Procs, IInv, StoreToken(p) PROVE IInv'
<1> USE DEF SaveCreds
<1>0. PICK age \in Issues(cmd[p].kind) :
        /\ At(p, "storeToken", "saveCreds") /\ SaveCreds(p, Put(creds, Name(p), NewToken(p, age)), "resolve")
        /\ UNCHANGED <<fileVars, cmd, auth, ghostVars>>
  BY DEF StoreToken
<1> USE <1>0
<1>1. cmd[p] \in Command(p) /\ cmd[p].kind \in Logins
  BY DEF IInv, Sound
<1>2. Name(p) \in Profiles /\ NewToken(p, age) \in Token
  BY <1>1 DEF Command, Name, NewToken, Token, Issues
<1>3. Put(creds, Name(p), NewToken(p, age)) \in Partial(Token)
  BY <1>2, PutType DEF IInv, Types
<1>4. Types'
  BY <1>3 DEF IInv, Types, fileVars, ghostVars
<1>5. Sound(p)'
  BY DEF IInv, Types, Sound, Name, fileVars, ghostVars, Command
<1>6. Alone(p)
  BY DEF IInv, Types, Alone
<1> QED BY <1>4, <1>5, <1>6, OnlyOne

\* Logging out.
LEMMA LogoutStep == ASSUME NEW p \in Procs, IInv, Logout(p) PROVE IInv'
<1>1. CASE Absent(p)
  BY <1>1, FailStep DEF Absent
<1>2. ASSUME At(p, "begin", "saveConfig"), UNCHANGED <<fileVars, cmd, ghostVars>>,
             SaveConfig(p, [config EXCEPT !.profiles = Without(@, Name(p))], "removeToken")
      PROVE IInv'
  <2>1. config \in Config
    BY DEF IInv, Types
  <2>2. [config EXCEPT !.profiles = Without(@, Name(p))] \in Config
    BY <2>1, WithoutType DEF Config
  <2>3. "begin" \in Labels \ {"idle"} /\ "removeToken" \in Follows \ {"begin"}
    OBVIOUS
  <2> HIDE DEF At, Labels, Ended, Writing, Follows
  <2> QED BY <1>2, <2>2, <2>3, SaveConfigStep
<1> QED BY <1>1, <1>2 DEF Logout

\* Likewise.
LEMMA RemoveTokenStep == ASSUME NEW p \in Procs, IInv, RemoveToken(p) PROVE IInv'
<1> USE DEF RemoveToken
<1>1. Types'
  BY EmptyType, WithoutType DEF IInv, Types, Fail, Forget, fileVars, memVars, ghostVars, SaveCreds
<1>2. Sound(p)'
  BY EmptyType DEF IInv, Types, Sound, Name, Fail, Forget, fileVars, memVars, ghostVars, SaveCreds
<1>3. Alone(p)
  BY DEF IInv, Types, Alone, Fail, Forget, fileVars, memVars, ghostVars, SaveCreds
<1> QED BY <1>1, <1>2, <1>3, OnlyOne

\* Setting the scope.
LEMMA ScopeStep == ASSUME NEW p \in Procs, IInv, Scope(p) PROVE IInv'
<1>1. CASE Absent(p)
  BY <1>1, FailStep DEF Absent
<1>2. ASSUME At(p, "begin", "saveConfig"), Name(p) \in DOMAIN config.profiles, UNCHANGED <<fileVars, cmd, ghostVars>>,
             NEW complete \in BOOLEAN,
             SaveConfig(p, [config EXCEPT !.profiles[Name(p)].scoped = @ \/ complete], "resolve")
      PROVE IInv'
  <2>1. config \in Config
    BY DEF IInv, Types
  <2>2. [config EXCEPT !.profiles[Name(p)].scoped = @ \/ complete] \in Config
    BY <1>2, <2>1, EditType
  <2>3. "begin" \in Labels \ {"idle"} /\ "resolve" \in Follows \ {"begin"}
    OBVIOUS
  <2> HIDE DEF At, Labels, Ended, Writing, Follows
  <2> QED BY <1>2, <2>2, <2>3, SaveConfigStep
<1> QED BY <1>1, <1>2 DEF Scope

\* The commands that only read.
LEMMA OtherStep == ASSUME NEW p \in Procs, IInv, Other(p) PROVE IInv'
<1> USE DEF Other
<1>1. Types'
  BY EmptyType DEF IInv, Types, Fail, Forget, fileVars, memVars, ghostVars
<1>2. Sound(p)'
  BY EmptyType DEF IInv, Types, Sound, Name, Fail, Forget, fileVars, memVars, ghostVars
<1>3. Alone(p)
  BY DEF IInv, Types, Alone, Fail, Forget, fileVars, memVars, ghostVars
<1> QED BY <1>1, <1>2, <1>3, OnlyOne

\* The profile a process has resolved is in the config it holds.
LEMMA ResolveStep == ASSUME NEW p \in Procs, IInv, Resolve(p) PROVE IInv'
<1>1. CASE Fail(p, "resolve")
  BY <1>1, FailStep
<1>2. ASSUME At(p, "resolve", "resolveToken"), Name(p) \in DOMAIN config.profiles, cfg' = [cfg EXCEPT ![p] = config],
             UNCHANGED <<fileVars, cmd, crd, auth, then, ghostVars>>
      PROVE IInv'
  <2>1. Types'
    BY <1>2 DEF IInv, Types, fileVars, ghostVars
  <2>2. Sound(p)'
    BY <1>2 DEF IInv, Types, Sound, Name, fileVars, ghostVars, Command
  <2>3. Alone(p)
    BY <1>2 DEF IInv, Types, Alone
  <2> QED BY <2>1, <2>2, <2>3, OnlyOne
<1> QED BY <1>1, <1>2 DEF Resolve

\* The one step that gives a process an auth: Validate has seen it.
LEMMA ResolveTokenStep == ASSUME NEW p \in Procs, IInv, ResolveToken(p) PROVE IInv'
<1> DEFINE prof == cfg[p].profiles[Name(p)]
           fits(t) == t.kind = prof.kind /\ (cmd[p].kind = "api" => Valid(prof, t))
           next == IF cmd[p].kind # "refresh" THEN "update" ELSE IF prof.kind = "sso" THEN "exchange" ELSE "failed"
           a(t) == [kind |-> prof.kind, acct |-> prof.acct, tok |-> t]
<1>1. CASE Fail(p, "resolveToken")
  BY <1>1, FailStep
<1>2. ASSUME NEW t \in Entry(creds, Name(p)), fits(t), At(p, "resolveToken", next),
             auth' = [auth EXCEPT ![p] = a(t)], cfg' = [cfg EXCEPT ![p] = Empty],
             UNCHANGED <<fileVars, cmd, crd, then, ghostVars>>
      PROVE IInv'
  <2>1. t \in Token
    BY EntryType DEF IInv, Types
  <2>2. prof \in Profile
    <3>1. cfg[p].profiles \in Partial(Profile) /\ Name(p) \in DOMAIN cfg[p].profiles
      BY <1>2 DEF IInv, Types, Sound, Config
    <3> QED BY <3>1, PartialIs
  <2>3. a(t) \in Auth
    BY <2>1, <2>2 DEF Auth, Profile
  <2>4. a(t) # Nobody /\ (cmd[p].kind = "api" /\ prof.kind = "pat" => prof.acct = t.acct)
    <3>1. a(t).kind \in Logins /\ Nobody.kind = "none"
      BY <2>2 DEF Profile, Nobody
    <3> QED BY <1>2, <3>1 DEF Valid, Logins
  <2> HIDE DEF prof, fits
  <2>5. Types'
    BY <1>2, <2>3, EmptyType DEF IInv, Types, fileVars, ghostVars
  <2>6. Sound(p)'
    BY <1>2, <2>4 DEF IInv, Types, Sound, Name, fileVars, ghostVars, Command
  <2>7. Alone(p)
    BY <1>2 DEF IInv, Types, Alone
  <2> QED BY <2>5, <2>6, <2>7, OnlyOne
<1> QED BY <1>1, <1>2 DEF ResolveToken

\* The token is as it was, or is about to be renewed.
LEMMA UpdateStep == ASSUME NEW p \in Procs, IInv, Update(p) PROVE IInv'
<1> USE DEF Update
<1>1. Types'
  BY EmptyType DEF IInv, Types, Fail, Forget, fileVars, memVars, ghostVars, Nobody
<1>2. Sound(p)'
  BY EmptyType DEF IInv, Types, Sound, Name, Fail, Forget, fileVars, memVars, ghostVars, Nobody
<1>3. Alone(p)
  BY DEF IInv, Types, Alone, Fail, Forget, fileVars, memVars, ghostVars, Nobody
<1> QED BY <1>1, <1>2, <1>3, OnlyOne

\* A renewed token is of the account of the old one.
LEMMA ExchangeStep == ASSUME NEW p \in Procs, IInv, Exchange(p) PROVE IInv'
<1>1. CASE Fail(p, "exchange")
  BY <1>1, FailStep
<1>2. ASSUME NEW age \in Issues("sso"), At(p, "exchange", "saveCreds"), Keep(p, Name(p), Renewed(p, age)),
             UNCHANGED <<fileVars, cmd, ghostVars>>
      PROVE IInv'
  <2> USE DEF Keep, SaveCreds
  <2>1. auth[p] \in Auth /\ cmd[p] \in Command(p)
    BY <1>2 DEF IInv, Types, Sound
  <2>2. Renewed(p, age) \in Token /\ Renewed(p, age).acct = auth[p].tok.acct
    BY <2>1 DEF Renewed, Auth, Token, Issues
  <2>3. Put(creds, Name(p), Renewed(p, age)) \in Partial(Token)
    BY <2>1, <2>2, PutType DEF IInv, Types, Name, Command
  <2>4. auth'[p] = [auth[p] EXCEPT !.tok = Renewed(p, age)]
    BY <1>2 DEF IInv, Types
  <2>5. auth'[p] \in Auth /\ auth'[p].kind = auth[p].kind /\ auth'[p].acct = auth[p].acct /\ auth'[p].tok = Renewed(p, age)
    BY <2>1, <2>2, <2>4 DEF Auth
  <2>6. Types'
    BY <1>2, <2>3, <2>5 DEF IInv, Types, fileVars, ghostVars
  <2>7. Sound(p)'
    BY <1>2, <2>2, <2>5 DEF IInv, Types, Sound, Name, fileVars, ghostVars, Command
  <2>8. Alone(p)
    BY <1>2 DEF IInv, Types, Alone
  <2> QED BY <2>6, <2>7, <2>8, OnlyOne
<1> QED BY <1>1, <1>2 DEF Exchange

\* Sending.
LEMMA UseStep == ASSUME NEW p \in Procs, IInv, Use(p) PROVE IInv'
<1> USE DEF Use
<1>1. Types'
  BY EmptyType DEF IInv, Types, Fail, Forget, fileVars, memVars, ghostVars, Nobody
<1>2. Sound(p)'
  BY EmptyType DEF IInv, Types, Sound, Name, Fail, Forget, fileVars, memVars, ghostVars, Nobody
<1>3. Alone(p)
  BY DEF IInv, Types, Alone, Fail, Forget, fileVars, memVars, ghostVars, Nobody
<1> QED BY <1>1, <1>2, <1>3, OnlyOne

\* Saving what a check has found.
LEMMA IdentifyStep == ASSUME NEW p \in Procs, IInv, Identify(p) PROVE IInv'
<1>1. ASSUME At(p, "identify", "done"), UNCHANGED <<fileVars, cmd, memVars, ghostVars>>
      PROVE IInv'
  <2>1. Types'
    BY <1>1 DEF IInv, Types, fileVars, memVars, ghostVars
  <2>2. Sound(p)'
    BY <1>1 DEF IInv, Types, Sound, Name, fileVars, memVars, ghostVars, Command
  <2>3. Alone(p)
    BY <1>1 DEF IInv, Types, Alone, memVars
  <2> QED BY <2>1, <2>2, <2>3, OnlyOne
<1>2. ASSUME At(p, "identify", "saveConfig"), UNCHANGED <<fileVars, cmd, ghostVars>>,
             NEW prof \in Entry(config.profiles, Name(p)),
             SaveConfig(p, [config EXCEPT !.profiles[Name(p)].known = TRUE], "done")
      PROVE IInv'
  <2>1. config \in Config
    BY DEF IInv, Types
  <2>2. Name(p) \in DOMAIN config.profiles
    BY <1>2 DEF Entry
  <2>3. [config EXCEPT !.profiles[Name(p)].known = TRUE] \in Config
    BY <2>1, <2>2, EditType
  <2>4. "identify" \in Labels \ {"idle"} /\ "done" \in Follows \ {"begin"}
    OBVIOUS
  <2> HIDE DEF At, Labels, Ended, Writing, Follows
  <2> QED BY <1>2, <2>3, <2>4, SaveConfigStep
<1> QED BY <1>1, <1>2 DEF Identify
-----------------------------------------------------------------------------
(* The theorems *)

\* The invariant is kept by every step.
LEMMA NextIInv == IInv /\ [Next]_vars => IInv'
<1> SUFFICES ASSUME IInv, [Next]_vars PROVE IInv'
  OBVIOUS
<1>1. CASE UNCHANGED vars
  BY <1>1 DEF vars, fileVars, memVars, ghostVars, IInv, Types, Sound, Name, Command
<1>2. ASSUME NEW p \in Procs,
             \/ Start(p) \/ Telemetry(p) \/ OpenConfig(p) \/ FillConfig(p) \/ OpenCreds(p) \/ FillCreds(p)
             \/ Full(p) \/ Crash(p) \/ Login(p) \/ AskSso(p) \/ SignIn(p) \/ StoreToken(p)
      PROVE IInv'
  BY <1>2, StartStep, TelemetryStep, OpenConfigStep, FillConfigStep, OpenCredsStep, FillCredsStep,
     FullStep, CrashStep, LoginStep, AskSsoStep, SignInStep, StoreTokenStep
<1>3. ASSUME NEW p \in Procs,
             \/ Logout(p) \/ RemoveToken(p) \/ Scope(p) \/ Other(p) \/ Resolve(p) \/ ResolveToken(p)
             \/ Update(p) \/ Exchange(p) \/ Use(p) \/ Identify(p)
      PROVE IInv'
  BY <1>3, LogoutStep, RemoveTokenStep, ScopeStep, OtherStep, ResolveStep, ResolveTokenStep,
     UpdateStep, ExchangeStep, UseStep, IdentifyStep
<1> QED BY <1>1, <1>2, <1>3 DEF Next

\* The invariant holds throughout, for any number of processes, profiles and accounts.
THEOREM Invariant == Spec => []IInv
<1> QED BY InitIInv, NextIInv, PTL DEF Spec

\* Both files only ever hold well-formed entries of profiles, whoever writes them when.
THEOREM TypeCorrect == Spec => []TypeOK
<1>1. IInv => TypeOK
  <2> SUFFICES ASSUME IInv PROVE TypeOK
    OBVIOUS
  <2>1. config.tid \in Procs \cup {NoOne} /\ config.profiles \in Partial(Profile) /\ creds \in Partial(Token)
    BY DEF IInv, Types, Config
  <2>2. /\ DOMAIN config.profiles \subseteq Profiles /\ \A n \in DOMAIN config.profiles : config.profiles[n] \in Profile
        /\ DOMAIN creds \subseteq Profiles /\ \A n \in DOMAIN creds : creds[n] \in Token
    BY <2>1, PartialIs
  <2>3. \A p \in Procs : pc[p] \in Labels /\ (Running(p) => cmd[p] \in Command(p))
    BY DEF IInv, Types, Sound, Running
  <2> QED BY <2>1, <2>2, <2>3 DEF TypeOK, IInv, Types
<1> QED BY <1>1, Invariant, PTL

\* A personal access token never goes out with an account that is not its own, whatever
\* logins, logouts, crashes and failed writes happen between the reads of a request.
THEOREM TokensKeepTheirAccount == Spec => []NeverMixed
<1>1. IInv => NeverMixed
  BY DEF IInv, Sound, NeverMixed
<1> QED BY <1>1, Invariant, PTL
-----------------------------------------------------------------------------
(* Commands in turn.  Such a command is alone with the files, but it changes them in up to four steps, and a
   write is lost in the middle of each.  So the invariant is about the files as the command under way will
   have written them: what it holds in memory, while it writes that, and the file on disk otherwise. *)

HIDE DEF At, Labels, Ended, Writing, Follows

\* The file that p writes as it will be, and the other one as it is.
NewConfig(p) == IF pc[p] \in {"saveConfig", "fillConfig"} THEN cfg[p].profiles ELSE config.profiles
NewTid(p)    == IF pc[p] \in {"saveConfig", "fillConfig"} THEN cfg[p].tid ELSE config.tid
NewCreds(p)  == IF pc[p] \in {"saveCreds", "fillCreds"} THEN crd[p] ELSE creds

\* After its config, p still has to write the token of its profile, or to remove it.
Storing(p)  == pc[p] = "storeToken" \/ (pc[p] \in {"saveConfig", "fillConfig"} /\ then[p] = "storeToken")
Removing(p) == pc[p] = "removeToken" \/ (pc[p] \in {"saveConfig", "fillConfig"} /\ then[p] = "removeToken")
Half(p) == Storing(p) \/ Removing(p)

\* Profiles f and tokens d are in step at n.
InStep(f, d, n) ==
  /\ n \in DOMAIN d <=> n \in DOMAIN f
  /\ n \in DOMAIN d => d[n].kind = f[n].kind /\ d[n].acct = f[n].acct

Named == {Name(q) : q \in {r \in Procs : cmd[r] # Nobody}}
\* They are those of the start at a profile that no command was run for.
Original(f, d, n) == Entry(f, n) = Entry(first.config.profiles, n) /\ Entry(d, n) = Entry(first.creds, n)
\* The token of n is that of its last refresh.
Refreshed(d, n) == latest[n] # NoOne => n \in DOMAIN d /\ d[n].by = latest[n]

\* With no command under way, the files are whole.
Rest ==
  /\ \A n \in Profiles : InStep(config.profiles, creds, n) /\ Refreshed(creds, n)
  /\ \A n \in Profiles \ Named : Original(config.profiles, creds, n)
  /\ ids \subseteq {config.tid}

\* With p under way, they will be, but for the token of its profile if that is still to be written.
Under(p) ==
  /\ \A n \in Profiles : n # Name(p) \/ ~Half(p) => InStep(NewConfig(p), NewCreds(p), n)
  /\ \A n \in Profiles : n # Name(p) \/ pc[p] \notin {"saveCreds", "fillCreds"} => Refreshed(NewCreds(p), n)
  /\ \A n \in Profiles \ Named : Original(NewConfig(p), NewCreds(p), n)
  /\ ids \subseteq {NewTid(p)}

\* What p knows of the files it has read, and of the file it is to write.
Knows(p) ==
  /\ pc[p] \in {"ask", "signin"} => cfg[p] = config
  /\ pc[p] = "ask" => cmd[p].kind = "sso"
  /\ pc[p] \in {"update", "exchange"} => Name(p) \in DOMAIN creds /\ creds[Name(p)] = auth[p].tok
  /\ pc[p] \in {"saveConfig", "fillConfig"} => then[p] # "use"
  /\ pc[p] \in {"saveCreds", "fillCreds"} => then[p] \in {"resolve", "done", "use"}
  /\ pc[p] \in {"saveCreds", "fillCreds"} /\ then[p] = "use" => Name(p) \in DOMAIN crd[p] /\ crd[p][Name(p)].by = p
  /\ Storing(p) => /\ cmd[p].kind \in Logins /\ Name(p) \in DOMAIN NewConfig(p)
                   /\ NewConfig(p)[Name(p)].kind = cmd[p].kind /\ NewConfig(p)[Name(p)].acct = cmd[p].acct
  /\ Removing(p) => Name(p) \notin DOMAIN NewConfig(p)

\* A login that replaces a profile has been told to, or its session is over.
Over(f, d, n) == n \in DOMAIN f /\ f[n].kind = "sso" /\ n \in DOMAIN d /\ d[n].kind = "sso" /\ d[n].age \in {"over", "unread"}
Ready(p) == pc[p] = "signin" \/ (pc[p] = "saveConfig" /\ then[p] = "storeToken")
Asked(p) ==
  Ready(p) /\ ~cmd[p].consent =>
    \/ Name(p) \notin DOMAIN config.profiles
    \/ cmd[p].kind = "sso" /\ Over(config.profiles, creds, Name(p))

InTurn ==
  /\ \A p, q \in Procs : Running(p) /\ Running(q) => p = q
  /\ (\A p \in Procs : ~Running(p)) => Rest
  /\ \A p \in Procs : Running(p) => Under(p) /\ Knows(p) /\ Asked(p)
  /\ OthersKept /\ RefreshKept

Unborn == \A p \in Procs : pc[p] = "idle" => cmd[p] = Nobody
TurnInv == Unborn /\ (~disturbed => InTurn)
-----------------------------------------------------------------------------
(* Entries of a file, one at a time *)

\* An entry is there or not.
LEMMA EntryIs == ASSUME NEW f, NEW n PROVE Entry(f, n) = IF n \in DOMAIN f THEN {f[n]} ELSE {}
BY DEF Entry

\* Files that agree at n have the same entry there.
LEMMA EntrySame ==
  ASSUME NEW f, NEW g, NEW n, n \in DOMAIN f <=> n \in DOMAIN g, n \in DOMAIN f => f[n] = g[n]
  PROVE Entry(f, n) = Entry(g, n)
BY EntryIs

\* An entry that is put is there, and the others are as they were.
LEMMA PutIs ==
  ASSUME NEW f, NEW m, NEW v, NEW n
  PROVE /\ n \in DOMAIN Put(f, m, v) <=> n = m \/ n \in DOMAIN f
        /\ n = m => Put(f, m, v)[n] = v
        /\ n # m /\ n \in DOMAIN f => Put(f, m, v)[n] = f[n]
BY DEF Put

\* An entry that is taken out is gone, and the others are as they were.
LEMMA WithoutIs ==
  ASSUME NEW f, NEW m, NEW n
  PROVE /\ n \in DOMAIN Without(f, m) <=> n # m /\ n \in DOMAIN f
        /\ n # m /\ n \in DOMAIN f => Without(f, m)[n] = f[n]
BY DEF Without, Restrict

-----------------------------------------------------------------------------
(* The step of a command that is alone: what has to be shown of it *)

Saving == {"saveConfig", "fillConfig", "saveCreds", "fillCreds", "storeToken", "removeToken"}
Plain  == Labels \ (Saving \cup Ended \cup {"idle"})

\* Nothing of the other commands changes, nor what commands there are.
Only(p) ==
  /\ \A q \in Procs \ {p} : pc'[q] = pc[q]
  /\ pc'[p] # "idle" /\ cmd' = cmd /\ first' = first

\* The command under way may be looked at alone.
LEMMA Turned ==
  ASSUME NEW p \in Procs, InTurn, Running(p), Only(p), pc \in [Procs -> Labels],
         Under(p)', Running(p)' => Knows(p)' /\ Asked(p)',
         pc'[p] \in {"saveConfig", "saveCreds"} => pc[p] \notin Writing /\ UNCHANGED <<fileVars, latest>>
  PROVE InTurn'
<1>1. /\ \A q \in Procs \ {p} : ~Running(q) /\ ~Running(q)'
      /\ \A q \in Procs \ {p} : pc[q] \notin Writing /\ pc'[q] \notin Writing
  BY DEF InTurn, Running, Only, Writing, Ended
<1>2. Named' = Named
  BY DEF Named, Name, Only
<1>3. pc'[p] \notin Saving => NewConfig(p)' = config'.profiles /\ NewTid(p)' = config'.tid /\ NewCreds(p)' = creds' /\ ~Half(p)'
  BY DEF Saving, NewConfig, NewTid, NewCreds, Half, Storing, Removing
<1>4. ~Running(p)' => pc'[p] \in Ended /\ pc'[p] \notin Saving
  BY DEF Running, Only, Ended, Saving
<1>5. (\A q \in Procs : ~Running(q)') => Rest'
  <2> SUFFICES ASSUME ~Running(p)' PROVE Rest'
    OBVIOUS
  <2>1. pc'[p] \notin {"saveCreds", "fillCreds"}
    BY <1>4 DEF Saving
  <2> QED BY <1>3, <1>4, <2>1 DEF Under, Rest
<1>6. OthersKept'
  <2> SUFFICES ASSUME Quiet', NEW n \in Profiles \ Named
               PROVE Entry(config'.profiles, n) = Entry(first.config.profiles, n) /\ Entry(creds', n) = Entry(first.creds, n)
    BY <1>2 DEF OthersKept, Named, Only, Name
  <2>1. CASE pc'[p] \in {"saveConfig", "saveCreds"}
    <3>1. Quiet
      BY <1>1, <2>1 DEF Quiet
    <3> QED BY <2>1, <3>1 DEF InTurn, OthersKept, Named, fileVars
  <2>2. CASE pc'[p] \notin {"saveConfig", "saveCreds"}
    <3>1. pc'[p] \notin {"fillConfig", "fillCreds"}
      BY DEF Quiet, Writing
    <3>2. NewConfig(p)' = config'.profiles /\ NewCreds(p)' = creds'
      BY <2>2, <3>1 DEF NewConfig, NewCreds
    <3>3. Original(NewConfig(p), NewCreds(p), n)'
      BY <1>2 DEF Under
    <3> QED BY <3>2, <3>3 DEF Original, Only
  <2> QED BY <2>1, <2>2
<1>7. RefreshKept'
  <2> SUFFICES ASSUME Quiet', NEW n \in Profiles, latest'[n] # NoOne PROVE \E t \in Entry(creds', n) : t.by = latest'[n]
    BY DEF RefreshKept
  <2>1. CASE pc'[p] \in {"saveConfig", "saveCreds"}
    <3>1. Quiet
      BY <1>1, <2>1 DEF Quiet
    <3> QED BY <2>1, <3>1 DEF InTurn, RefreshKept, fileVars
  <2>2. CASE pc'[p] \notin {"saveConfig", "saveCreds"}
    <3>1. pc'[p] \notin {"fillConfig", "fillCreds"}
      BY DEF Quiet, Writing
    <3>2. NewCreds(p)' = creds'
      BY <2>2, <3>1 DEF NewCreds
    <3>3. Refreshed(NewCreds(p), n)'
      BY <2>2, <3>1 DEF Under
    <3>4. n \in DOMAIN creds' /\ creds'[n].by = latest'[n]
      BY <3>2, <3>3 DEF Refreshed
    <3> QED BY <3>4, EntryIs
  <2> QED BY <2>1, <2>2
<1> QED BY <1>1, <1>5, <1>6, <1>7 DEF InTurn

\* A step between two saves, which neither writes nor prepares to.
LEMMA PlainStep ==
  ASSUME NEW p \in Procs, InTurn, Running(p), Only(p), pc \in [Procs -> Labels],
         pc[p] \in Plain, pc'[p] \in Plain \cup Ended, UNCHANGED <<fileVars, latest>>,
         ids' \subseteq ids \cup {config.tid}, pc'[p] \in Plain => Knows(p)' /\ Asked(p)'
  PROVE InTurn'
<1>1. Under(p)
  BY DEF InTurn
<1>2. pc[p] \notin Saving /\ pc'[p] \notin Saving
  BY DEF Plain, Saving, Ended
<1>3. /\ NewConfig(p) = config.profiles /\ NewTid(p) = config.tid /\ NewCreds(p) = creds /\ ~Half(p)
      /\ NewConfig(p)' = config.profiles /\ NewTid(p)' = config.tid /\ NewCreds(p)' = creds /\ ~Half(p)'
  BY <1>2 DEF Saving, NewConfig, NewTid, NewCreds, Half, Storing, Removing, fileVars
<1>4. Named' = Named
  BY DEF Named, Name, Only
<1>5. \A n : Original(config.profiles, creds, n)' <=> Original(config.profiles, creds, n)
  BY DEF Original, fileVars, Only
<1>6. Under(p)'
  <2>1. \A n \in Profiles : InStep(NewConfig(p)', NewCreds(p)', n)
    BY <1>1, <1>3 DEF Under
  <2>2. \A n \in Profiles : Refreshed(NewCreds(p), n)'
    <3>1. pc[p] \notin {"saveCreds", "fillCreds"}
      BY <1>2 DEF Saving
    <3> QED BY <1>1, <1>3, <3>1 DEF Under, Refreshed
  <2>3. \A n \in Profiles \ Named : Original(NewConfig(p), NewCreds(p), n)'
    BY <1>1, <1>3, <1>5 DEF Under, Original, Only
  <2>4. ids' \subseteq {NewTid(p)'}
    BY <1>1, <1>3 DEF Under
  <2> QED BY <1>4, <2>1, <2>2, <2>3, <2>4 DEF Under
<1>7. Running(p)' => Knows(p)' /\ Asked(p)'
  BY DEF Running, Plain, Ended
<1> QED BY <1>2, <1>6, <1>7, Turned DEF Saving
-----------------------------------------------------------------------------
(* The steps between two saves *)

\* A command at step l that moves on to l2 leaves the others where they are.
LEMMA AtOnly ==
  ASSUME NEW p \in Procs, IInv, NEW l, NEW l2 \in Labels \ {"idle"}, At(p, l, l2), cmd' = cmd, first' = first
  PROVE Only(p) /\ pc[p] = l /\ pc'[p] = l2 /\ pc \in [Procs -> Labels]
BY DEF At, IInv, Types, Only

\* The steps are what they are.
LEMMA PlainIs ==
  /\ Plain = {"telemetry", "begin", "ask", "signin", "resolve", "resolveToken", "update", "exchange", "use", "identify"}
  /\ Ended = {"done", "failed", "dead"} /\ Plain \subseteq Labels /\ Saving \subseteq Labels /\ Ended \subseteq Labels
  /\ "idle" \notin Plain \cup Saving \cup Ended /\ Plain \cap Saving = {} /\ Plain \cap Ended = {} /\ Saving \cap Ended = {}
BY DEF Plain, Saving, Ended, Labels, Writing

\* What a command that prepares no save has to know.
LEMMA PlainKnows ==
  ASSUME NEW p \in Procs, pc'[p] \in Plain, UNCHANGED <<fileVars, cmd>>,
         pc'[p] \in {"ask", "signin"} => cfg'[p] = config, pc'[p] = "ask" => cmd[p].kind = "sso",
         pc'[p] \in {"update", "exchange"} => Name(p) \in DOMAIN creds /\ creds[Name(p)] = auth'[p].tok,
         pc'[p] = "signin" /\ ~cmd[p].consent =>
            Name(p) \notin DOMAIN config.profiles \/ (cmd[p].kind = "sso" /\ Over(config.profiles, creds, Name(p)))
  PROVE Knows(p)' /\ Asked(p)'
<1>1. pc'[p] \notin Saving
  BY PlainIs
<1>2. Knows(p)'
  BY <1>1 DEF Saving, Knows, Storing, Removing, Name, fileVars
<1>3. Asked(p)'
  BY <1>1 DEF Saving, Asked, Ready, Name, fileVars, Over
<1> QED BY <1>2, <1>3

\* Giving up between two saves leaves the files whole.
LEMMA FailTurn == ASSUME NEW p \in Procs, IInv, InTurn, NEW l \in Plain, Fail(p, l) PROVE InTurn'
<1>1. Only(p) /\ pc[p] = l /\ pc'[p] = "failed" /\ pc \in [Procs -> Labels]
  <2>1. "failed" \in Labels \ {"idle"}
    BY DEF Labels, Ended
  <2> QED BY <2>1, AtOnly DEF Fail, ghostVars
<1>2. Running(p) /\ "failed" \in Ended /\ "failed" \notin Plain
  BY <1>1, PlainIs DEF Running
<1> QED BY <1>1, <1>2, PlainStep DEF Fail, ghostVars, fileVars

\* A step that moves on between two saves.
LEMMA MoveTurn ==
  ASSUME NEW p \in Procs, IInv, InTurn, NEW l \in Plain, NEW l2 \in Plain \cup Ended, At(p, l, l2),
         UNCHANGED <<fileVars, cmd, first, latest>>, ids' \subseteq ids \cup {config.tid},
         l2 \in {"ask", "signin"} => cfg'[p] = config, l2 = "ask" => cmd[p].kind = "sso",
         l2 \in {"update", "exchange"} => Name(p) \in DOMAIN creds /\ creds[Name(p)] = auth'[p].tok,
         l2 = "signin" /\ ~cmd[p].consent =>
            Name(p) \notin DOMAIN config.profiles \/ (cmd[p].kind = "sso" /\ Over(config.profiles, creds, Name(p)))
  PROVE InTurn'
<1>1. Only(p) /\ pc[p] = l /\ pc'[p] = l2 /\ pc \in [Procs -> Labels]
  BY AtOnly, PlainIs
<1>2. Running(p)
  BY <1>1, PlainIs DEF Running
<1>3. pc'[p] \in Plain => Knows(p)' /\ Asked(p)'
  BY <1>1, PlainKnows
<1> QED BY <1>1, <1>2, <1>3, PlainStep

\* A command that is under way knows what it knows.
LEMMA TurnOf ==
  ASSUME NEW p \in Procs, InTurn, pc[p] \in Plain \cup Saving
  PROVE Running(p) /\ Under(p) /\ Knows(p) /\ Asked(p)
BY PlainIs DEF InTurn, Running

\* Between two saves, the files are in step at every profile.
LEMMA PlainInStep ==
  ASSUME NEW p \in Procs, InTurn, pc[p] \in Plain, NEW n \in Profiles
  PROVE /\ InStep(config.profiles, creds, n) /\ Refreshed(creds, n) /\ ids \subseteq {config.tid}
        /\ n \notin Named => Original(config.profiles, creds, n)
<1>1. Under(p) /\ pc[p] \notin Saving
  BY TurnOf, PlainIs
<1>2. NewConfig(p) = config.profiles /\ NewTid(p) = config.tid /\ NewCreds(p) = creds /\ ~Half(p)
  BY <1>1 DEF Saving, NewConfig, NewTid, NewCreds, Half, Storing, Removing
<1> QED BY <1>1, <1>2 DEF Under, Saving

\* The profile of a command is one.
LEMMA NameIs == ASSUME NEW p \in Procs, IInv, pc[p] # "idle" PROVE Name(p) \in Profiles /\ Name(p) \in Named
<1>1. cmd[p] \in Command(p)
  BY DEF IInv, Sound
<1>2. Name(p) \in Profiles
  BY <1>1 DEF Command, Name
<1>3. cmd[p] # Nobody
  BY <1>1 DEF Command, Nobody, Logins
<1> QED BY <1>2, <1>3 DEF Named

\* Reading the id.
LEMMA TelemetryReads ==
  ASSUME NEW p \in Procs, IInv, InTurn, At(p, "telemetry", "begin"),
         ids' = (IF config.tid = NoOne THEN ids ELSE ids \cup {config.tid}),
         UNCHANGED <<fileVars, cmd, memVars, first, latest>>
  PROVE InTurn'
<1>1. ids' \subseteq ids \cup {config.tid}
  OBVIOUS
<1> QED BY <1>1, PlainIs, MoveTurn

\* A login with a token asks before it begins; one by SSO asks next.
LEMMA LoginTurn == ASSUME NEW p \in Procs, IInv, InTurn, Login(p) PROVE InTurn'
<1>1. CASE Fail(p, "begin")
  BY <1>1, FailTurn, PlainIs
<1>2. ASSUME At(p, "begin", IF cmd[p].kind = "sso" THEN "ask" ELSE "signin"), cmd[p].kind \in Logins,
             ~(cmd[p].kind = "pat" /\ Name(p) \in DOMAIN config.profiles /\ ~cmd[p].consent),
             cfg' = [cfg EXCEPT ![p] = config], UNCHANGED <<fileVars, cmd, crd, auth, then, ghostVars>>
      PROVE InTurn'
  <2>1. cfg'[p] = config /\ (cmd[p].kind = "sso" \/ cmd[p].kind = "pat")
    BY <1>2 DEF IInv, Types, Logins
  <2> QED BY <1>2, <2>1, MoveTurn, PlainIs DEF ghostVars
<1> QED BY <1>1, <1>2 DEF Login

\* A login by SSO goes on where there is no profile, with consent, or when the session is over: with the two
\* files in step, a token of another kind is none that it could meet.
LEMMA AskTurn == ASSUME NEW p \in Procs, IInv, InTurn, AskSso(p) PROVE InTurn'
<1>1. CASE Fail(p, "ask")
  BY <1>1, FailTurn, PlainIs
<1>2. ASSUME At(p, "ask", "signin"), UNCHANGED <<fileVars, cmd, memVars, ghostVars>>,
             Name(p) \notin DOMAIN cfg[p].profiles \/ cmd[p].consent \/ SessionExpired(Name(p), cfg[p])
      PROVE InTurn'
  <2>1. pc[p] = "ask" /\ pc[p] \in Plain
    BY <1>2, PlainIs DEF At
  <2>2. cfg[p] = config /\ cmd[p].kind = "sso"
    BY <2>1, TurnOf DEF Knows
  <2>3. Name(p) \in Profiles
    BY <2>1, NameIs
  <2>4. InStep(config.profiles, creds, Name(p))
    BY <2>1, <2>3, PlainInStep
  <2>5. ASSUME SessionExpired(Name(p), config) PROVE Over(config.profiles, creds, Name(p))
    <3>1. Name(p) \in DOMAIN config.profiles /\ config.profiles[Name(p)].kind = "sso"
      BY <2>5, EntryIs DEF SessionExpired
    <3>2. Name(p) \in DOMAIN creds /\ (creds[Name(p)].kind = "pat" \/ creds[Name(p)].age \in {"over", "unread"})
      BY <2>5, EntryIs DEF SessionExpired
    <3> QED BY <2>4, <3>1, <3>2 DEF InStep, Over
  <2>6. cfg'[p] = config
    BY <1>2, <2>2 DEF memVars
  <2> QED BY <1>2, <2>2, <2>5, <2>6, MoveTurn, PlainIs DEF ghostVars
<1> QED BY <1>1, <1>2 DEF AskSso

\* The token that a command resolves is the one in the file.
LEMMA ResolveTokenTurn == ASSUME NEW p \in Procs, IInv, InTurn, ResolveToken(p) PROVE InTurn'
<1> DEFINE next == IF cmd[p].kind # "refresh" THEN "update"
                   ELSE IF cfg[p].profiles[Name(p)].kind = "sso" THEN "exchange" ELSE "failed"
           a(t) == [kind |-> cfg[p].profiles[Name(p)].kind, acct |-> cfg[p].profiles[Name(p)].acct, tok |-> t]
<1>1. CASE Fail(p, "resolveToken")
  BY <1>1, FailTurn, PlainIs
<1>2. ASSUME NEW t \in Entry(creds, Name(p)), At(p, "resolveToken", next), auth' = [auth EXCEPT ![p] = a(t)],
             UNCHANGED <<fileVars, cmd, crd, then, ghostVars>>
      PROVE InTurn'
  <2>1. Name(p) \in DOMAIN creds /\ creds[Name(p)] = t
    BY <1>2, EntryIs
  <2>2. auth'[p].tok = t
    BY <1>2 DEF IInv, Types
  <2>3. next \in {"update", "exchange", "failed"}
    OBVIOUS
  <2> HIDE DEF next, a
  <2> QED BY <1>2, <2>1, <2>2, <2>3, MoveTurn, PlainIs DEF ghostVars
<1> QED BY <1>1, <1>2 DEF ResolveToken

\* The steps that only move on.
LEMMA OthersTurn ==
  ASSUME NEW p \in Procs, IInv, InTurn, Other(p) \/ Resolve(p) \/ Update(p) \/ Use(p)
  PROVE InTurn'
<1>1. CASE Other(p)
  BY <1>1, MoveTurn, PlainIs DEF Other, ghostVars
<1>2. CASE Resolve(p)
  <2>1. CASE Fail(p, "resolve")
    BY <2>1, FailTurn, PlainIs
  <2>2. CASE At(p, "resolve", "resolveToken") /\ UNCHANGED <<fileVars, cmd, crd, auth, then, ghostVars>>
    BY <2>2, MoveTurn, PlainIs DEF ghostVars
  <2> QED BY <1>2, <2>1, <2>2 DEF Resolve
<1>3. CASE Update(p)
  <2>1. CASE Fail(p, "update")
    BY <2>1, FailTurn, PlainIs
  <2>2. ASSUME NEW l2 \in {"exchange", "use"}, At(p, "update", l2), UNCHANGED <<fileVars, cmd, memVars, ghostVars>>
        PROVE InTurn'
    <3>1. pc[p] = "update" /\ pc[p] \in Plain
      BY <2>2, PlainIs DEF At
    <3>2. Name(p) \in DOMAIN creds /\ creds[Name(p)] = auth[p].tok
      BY <3>1, TurnOf DEF Knows
    <3>3. creds[Name(p)] = auth'[p].tok
      BY <2>2, <3>2 DEF memVars
    <3> QED BY <2>2, <3>2, <3>3, MoveTurn, PlainIs DEF ghostVars
  <2>3. (IF auth[p].tok.age = "stale" THEN "exchange" ELSE "use") \in {"exchange", "use"}
    OBVIOUS
  <2> QED BY <1>3, <2>1, <2>2, <2>3 DEF Update
<1>4. CASE Use(p)
  BY <1>4, MoveTurn, PlainIs DEF Use, ghostVars
<1> QED BY <1>1, <1>2, <1>3, <1>4
-----------------------------------------------------------------------------
(* The saves *)

\* A command is about to save a config c, which changes the entry of its own profile at most.
LEMMA ConfigTurn ==
  ASSUME NEW p \in Procs, IInv, InTurn, NEW l \in Plain, At(p, l, "saveConfig"), NEW c, NEW k \in Follows \ {"use"},
         SaveConfig(p, c, k), UNCHANGED <<fileVars, cmd, ghostVars>>,
         \A n \in Profiles \ {Name(p)} :
            /\ n \in DOMAIN c.profiles <=> n \in DOMAIN config.profiles
            /\ n \in DOMAIN config.profiles => c.profiles[n] = config.profiles[n],
         k \notin {"storeToken", "removeToken"} => InStep(c.profiles, creds, Name(p)),
         k = "storeToken" => /\ cmd[p].kind \in Logins /\ Name(p) \in DOMAIN c.profiles
                             /\ c.profiles[Name(p)].kind = cmd[p].kind /\ c.profiles[Name(p)].acct = cmd[p].acct
                             /\ l = "signin",
         k = "removeToken" => Name(p) \notin DOMAIN c.profiles,
         ids \subseteq {c.tid}
  PROVE InTurn'
<1> USE DEF ghostVars
<1>1. Only(p) /\ pc[p] = l /\ pc'[p] = "saveConfig" /\ pc \in [Procs -> Labels]
  <2>1. "saveConfig" \in Labels \ {"idle"}
    BY DEF Labels
  <2> QED BY <2>1, AtOnly
<1>2. Running(p) /\ Under(p) /\ Knows(p) /\ Asked(p) /\ Name(p) \in Named /\ l \notin Writing
  <2>1. "fillConfig" \in Saving /\ "fillCreds" \in Saving /\ l \notin Saving
    BY PlainIs DEF Saving
  <2> QED BY <1>1, <2>1, TurnOf, NameIs, PlainIs DEF Writing
<1>3. cfg'[p] = c /\ then'[p] = k /\ crd' = crd /\ config' = config /\ creds' = creds
  BY DEF SaveConfig, IInv, Types, fileVars
<1>4. /\ NewConfig(p)' = c.profiles /\ NewTid(p)' = c.tid /\ NewCreds(p)' = creds
      /\ Storing(p)' <=> k = "storeToken"
      /\ Removing(p)' <=> k = "removeToken"
  BY <1>1, <1>3 DEF NewConfig, NewTid, NewCreds, Storing, Removing
<1>5. Named' = Named /\ Name(p)' = Name(p)
  BY DEF Named, Name
<1>6. ASSUME NEW n \in Profiles, n # Name(p) \/ ~Half(p)' PROVE InStep(c.profiles, creds, n)
  <2>1. CASE n = Name(p)
    BY <1>4, <1>6, <2>1 DEF Half
  <2>2. CASE n # Name(p)
    BY <1>1, <2>2, PlainInStep DEF InStep
  <2> QED BY <2>1, <2>2
<1>7. ASSUME NEW n \in Profiles \ Named PROVE Original(c.profiles, creds, n)'
  <2>1. Original(config.profiles, creds, n) /\ n # Name(p)
    BY <1>1, <1>2, PlainInStep
  <2>2. Entry(c.profiles, n) = Entry(config.profiles, n)
    BY <2>1, EntrySame
  <2> QED BY <2>1, <2>2 DEF Original, fileVars
<1>8. ASSUME NEW n \in Profiles PROVE Refreshed(creds, n)'
  BY <1>1, PlainInStep DEF Refreshed, fileVars
<1>9. Under(p)'
  <2>1. \A n \in Profiles : n # Name(p)' \/ ~Half(p)' => InStep(NewConfig(p)', NewCreds(p)', n)
    BY <1>4, <1>5, <1>6
  <2>2. \A n \in Profiles : Refreshed(NewCreds(p), n)'
    BY <1>4, <1>8 DEF Refreshed, fileVars
  <2>3. \A n \in Profiles \ Named' : Original(NewConfig(p), NewCreds(p), n)'
    BY <1>4, <1>5, <1>7 DEF Original, fileVars
  <2>4. ids' \subseteq {NewTid(p)'}
    BY <1>4
  <2> QED BY <2>1, <2>2, <2>3, <2>4 DEF Under
<1>10. Knows(p)'
  BY <1>1, <1>3, <1>4, <1>5 DEF Knows
<1>11. Asked(p)'
  <2>1. CASE k # "storeToken"
    BY <1>1, <1>3, <2>1 DEF Asked, Ready
  <2>2. CASE k = "storeToken"
    BY <1>1, <1>2, <1>3, <1>5, <2>2 DEF Asked, Ready, Over, Name
  <2> QED BY <2>1, <2>2
<1> QED BY <1>1, <1>2, <1>9, <1>10, <1>11, Turned

\* A new id is given to no command before it is saved.
LEMMA TelemetryTurn == ASSUME NEW p \in Procs, IInv, InTurn, Telemetry(p) PROVE InTurn'
<1>1. CASE pc'[p] = "begin" /\ At(p, "telemetry", "begin") /\ ids' = (IF config.tid = NoOne THEN ids ELSE ids \cup {config.tid})
             /\ UNCHANGED <<fileVars, cmd, memVars, first, latest>>
  BY <1>1, TelemetryReads
<1>2. ASSUME At(p, "telemetry", "saveConfig"), config.tid = NoOne, SaveConfig(p, [config EXCEPT !.tid = p], "begin"),
             UNCHANGED <<fileVars, cmd, ghostVars>>
      PROVE InTurn'
  <2>1. pc[p] = "telemetry" /\ pc[p] \in Plain /\ "begin" \in Follows \ {"use"}
    BY <1>2, PlainIs DEF At, Follows
  <2>2. Name(p) \in Profiles /\ Name(p) \in Named
    BY <2>1, NameIs
  <2>3. InStep(config.profiles, creds, Name(p)) /\ ids \subseteq {config.tid}
    BY <2>1, <2>2, PlainInStep
  <2>4. ids = {}
    BY <1>2, <2>3, StoreConstants DEF IInv, Types
  <2>5. [config EXCEPT !.tid = p].profiles = config.profiles
    BY DEF IInv, Types, Config
  <2> QED BY <1>2, <2>1, <2>3, <2>4, <2>5, ConfigTurn
<1> QED BY <1>1, <1>2 DEF Telemetry, At, IInv, Types

\* A login saves its profile, in the config that it read when it began.
LEMMA SignInTurn == ASSUME NEW p \in Procs, IInv, InTurn, SignIn(p) PROVE InTurn'
<1>1. CASE Fail(p, "signin")
  BY <1>1, FailTurn, PlainIs
<1>2. ASSUME NEW scoped \in BOOLEAN, NEW known \in BOOLEAN, At(p, "signin", "saveConfig"),
             SaveConfig(p, [cfg[p] EXCEPT !.profiles = Put(@, Name(p), NewProfile(p, scoped, known))], "storeToken"),
             UNCHANGED <<fileVars, cmd, ghostVars>>
      PROVE InTurn'
  <2> DEFINE f == Put(config.profiles, Name(p), NewProfile(p, scoped, known))
             c == [config EXCEPT !.profiles = f]
  <2>1. pc[p] = "signin" /\ pc[p] \in Plain /\ "storeToken" \in Follows \ {"use"}
    BY <1>2, PlainIs DEF At, Follows
  <2>2. cfg[p] = config /\ cmd[p].kind \in Logins /\ Name(p) \in Profiles
    BY <2>1, TurnOf, NameIs DEF Knows, IInv, Sound
  <2>3. c.profiles = f /\ c.tid = config.tid
    BY DEF IInv, Types, Config
  <2>4. SaveConfig(p, c, "storeToken")
    BY <1>2, <2>2
  <2>5. Name(p) \in DOMAIN f /\ f[Name(p)] = NewProfile(p, scoped, known)
    BY PutIs
  <2>6. f[Name(p)].kind = cmd[p].kind /\ f[Name(p)].acct = cmd[p].acct
    BY <2>5 DEF NewProfile
  <2>7. ASSUME NEW n \in Profiles \ {Name(p)}
        PROVE /\ n \in DOMAIN f <=> n \in DOMAIN config.profiles
              /\ n \in DOMAIN config.profiles => f[n] = config.profiles[n]
    BY PutIs
  <2>8. ids \subseteq {config.tid}
    BY <2>1, <2>2, PlainInStep
  <2> HIDE DEF f, c
  <2> QED BY <1>2, <2>1, <2>2, <2>3, <2>4, <2>5, <2>6, <2>7, <2>8, ConfigTurn
<1> QED BY <1>1, <1>2 DEF SignIn

\* A logout takes its profile out.
LEMMA LogoutTurn == ASSUME NEW p \in Procs, IInv, InTurn, Logout(p) PROVE InTurn'
<1>1. CASE Absent(p)
  BY <1>1, FailTurn, PlainIs DEF Absent
<1>2. ASSUME At(p, "begin", "saveConfig"), UNCHANGED <<fileVars, cmd, ghostVars>>,
             SaveConfig(p, [config EXCEPT !.profiles = Without(@, Name(p))], "removeToken")
      PROVE InTurn'
  <2> DEFINE f == Without(config.profiles, Name(p))
             c == [config EXCEPT !.profiles = f]
  <2>1. pc[p] = "begin" /\ pc[p] \in Plain /\ "removeToken" \in Follows \ {"use"} /\ Name(p) \in Profiles
    BY <1>2, PlainIs, NameIs DEF At, Follows
  <2>2. c.profiles = f /\ c.tid = config.tid /\ SaveConfig(p, c, "removeToken")
    BY <1>2 DEF IInv, Types, Config
  <2>3. Name(p) \notin DOMAIN f
    BY WithoutIs
  <2>4. ASSUME NEW n \in Profiles \ {Name(p)}
        PROVE /\ n \in DOMAIN f <=> n \in DOMAIN config.profiles
              /\ n \in DOMAIN config.profiles => f[n] = config.profiles[n]
    BY WithoutIs
  <2>5. ids \subseteq {config.tid}
    BY <2>1, PlainInStep
  <2> HIDE DEF f, c
  <2> QED BY <1>2, <2>1, <2>2, <2>3, <2>4, <2>5, ConfigTurn
<1> QED BY <1>1, <1>2 DEF Logout

\* Setting the scope, and noting who the token belongs to, change neither the kind nor the account of a profile.
LEMMA EditTurn ==
  ASSUME NEW p \in Procs, IInv, InTurn, Scope(p) \/ Identify(p)
  PROVE InTurn'
<1>1. CASE Absent(p)
  BY <1>1, FailTurn, PlainIs DEF Absent
<1>2. CASE At(p, "identify", "done") /\ UNCHANGED <<fileVars, cmd, memVars, ghostVars>>
  BY <1>2, MoveTurn, PlainIs DEF ghostVars
<1>3. ASSUME NEW l \in {"begin", "identify"}, NEW k \in {"resolve", "done"}, At(p, l, "saveConfig"),
             Name(p) \in DOMAIN config.profiles, UNCHANGED <<fileVars, cmd, ghostVars>>, NEW g,
             g.kind = config.profiles[Name(p)].kind, g.acct = config.profiles[Name(p)].acct,
             SaveConfig(p, [config EXCEPT !.profiles = [config.profiles EXCEPT ![Name(p)] = g]], k)
      PROVE InTurn'
  <2> DEFINE f == [config.profiles EXCEPT ![Name(p)] = g]
             c == [config EXCEPT !.profiles = f]
  <2>1. pc[p] = l /\ l \in Plain /\ k \in Follows \ {"use"} /\ Name(p) \in Profiles
    BY <1>3, PlainIs, NameIs DEF At, Follows
  <2>2. c.profiles = f /\ c.tid = config.tid /\ SaveConfig(p, c, k)
    BY <1>3 DEF IInv, Types, Config
  <2>3. DOMAIN f = DOMAIN config.profiles /\ f[Name(p)] = g
    BY <1>3
  <2>4. ASSUME NEW n \in Profiles \ {Name(p)}
        PROVE /\ n \in DOMAIN f <=> n \in DOMAIN config.profiles
              /\ n \in DOMAIN config.profiles => f[n] = config.profiles[n]
    BY <2>3
  <2>5. InStep(config.profiles, creds, Name(p)) /\ ids \subseteq {config.tid}
    BY <2>1, PlainInStep
  <2>6. InStep(f, creds, Name(p))
    BY <1>3, <2>3, <2>5 DEF InStep
  <2> HIDE DEF f, c
  <2> QED BY <1>3, <2>1, <2>2, <2>4, <2>5, <2>6, ConfigTurn
<1>4. config.profiles \in Partial(Profile) /\ config = [profiles |-> config.profiles, tid |-> config.tid]
  BY DEF IInv, Types, Config
<1>5. Name(p) \in DOMAIN config.profiles => config.profiles[Name(p)] \in Profile
  BY <1>4, PartialIs
<1>6. ASSUME NEW complete \in BOOLEAN, Name(p) \in DOMAIN config.profiles, At(p, "begin", "saveConfig"),
             SaveConfig(p, [config EXCEPT !.profiles[Name(p)].scoped = @ \/ complete], "resolve"),
             UNCHANGED <<fileVars, cmd, ghostVars>>
      PROVE InTurn'
  <2> DEFINE g == [config.profiles[Name(p)] EXCEPT !.scoped = @ \/ complete]
  <2>1. g.kind = config.profiles[Name(p)].kind /\ g.acct = config.profiles[Name(p)].acct
    BY <1>5, <1>6 DEF Profile
  <2>2. [config EXCEPT !.profiles[Name(p)].scoped = @ \/ complete] = [config EXCEPT !.profiles = [config.profiles EXCEPT ![Name(p)] = g]]
    OBVIOUS
  <2> HIDE DEF g
  <2> QED BY <1>3, <1>6, <2>1, <2>2
<1>7. ASSUME NEW prof \in Entry(config.profiles, Name(p)), At(p, "identify", "saveConfig"),
             SaveConfig(p, [config EXCEPT !.profiles[Name(p)].known = TRUE], "done"),
             UNCHANGED <<fileVars, cmd, ghostVars>>
      PROVE InTurn'
  <2> DEFINE g == [config.profiles[Name(p)] EXCEPT !.known = TRUE]
  <2>0. Name(p) \in DOMAIN config.profiles
    BY EntryIs
  <2>1. g.kind = config.profiles[Name(p)].kind /\ g.acct = config.profiles[Name(p)].acct
    BY <1>5, <2>0 DEF Profile
  <2>2. [config EXCEPT !.profiles[Name(p)].known = TRUE] = [config EXCEPT !.profiles = [config.profiles EXCEPT ![Name(p)] = g]]
    OBVIOUS
  <2> HIDE DEF g
  <2> QED BY <1>3, <1>7, <2>0, <2>1, <2>2
<1> QED BY <1>1, <1>2, <1>6, <1>7 DEF Scope, Identify

\* A command is about to save tokens d, which change the token of its own profile at most.
LEMMA CredsTurn ==
  ASSUME NEW p \in Procs, IInv, InTurn, NEW l \in {"storeToken", "removeToken", "exchange"}, At(p, l, "saveCreds"),
         NEW d, NEW k \in {"resolve", "done", "use"}, SaveCreds(p, d, k), UNCHANGED <<fileVars, cmd, ghostVars>>,
         \A n \in Profiles \ {Name(p)} : (n \in DOMAIN d <=> n \in DOMAIN creds) /\ (n \in DOMAIN creds => d[n] = creds[n]),
         InStep(config.profiles, d, Name(p)), k = "use" => Name(p) \in DOMAIN d /\ d[Name(p)].by = p
  PROVE InTurn'
<1> USE DEF ghostVars
<1>1. Only(p) /\ pc[p] = l /\ pc'[p] = "saveCreds" /\ pc \in [Procs -> Labels]
  <2>1. "saveCreds" \in Labels \ {"idle"}
    BY DEF Labels
  <2> QED BY <2>1, AtOnly
<1>2. Running(p) /\ Under(p) /\ Name(p) \in Named /\ l \notin Writing /\ pc[p] # "idle"
  <2>1. l \in Plain \cup Saving /\ "fillConfig" \in Saving /\ "idle" \notin Plain \cup Saving
    BY PlainIs DEF Saving
  <2> QED BY <1>1, <2>1, TurnOf, NameIs DEF Writing
<1>3. crd'[p] = d /\ then'[p] = k /\ config' = config /\ creds' = creds
  BY DEF SaveCreds, IInv, Types, fileVars
<1>4. /\ NewConfig(p)' = config.profiles /\ NewTid(p)' = config.tid /\ NewCreds(p)' = d /\ ~Storing(p)' /\ ~Removing(p)'
      /\ NewConfig(p) = config.profiles /\ NewTid(p) = config.tid /\ NewCreds(p) = creds
  BY <1>1, <1>3 DEF NewConfig, NewTid, NewCreds, Storing, Removing
<1>5. Named' = Named /\ Name(p)' = Name(p)
  BY DEF Named, Name
<1>6. ASSUME NEW n \in Profiles PROVE InStep(config.profiles, d, n)
  <2>1. CASE n # Name(p)
    <3>1. InStep(config.profiles, creds, n)
      BY <1>2, <1>4, <2>1 DEF Under
    <3> QED BY <2>1, <3>1 DEF InStep
  <2> QED BY <2>1
<1>7. ASSUME NEW n \in Profiles \ Named PROVE Original(config.profiles, d, n)'
  <2>1. Original(config.profiles, creds, n) /\ n # Name(p)
    BY <1>2, <1>4 DEF Under
  <2>2. Entry(d, n) = Entry(creds, n)
    BY <2>1, EntrySame
  <2> QED BY <2>1, <2>2 DEF Original, fileVars
<1>8. ASSUME NEW n \in Profiles, n # Name(p) PROVE Refreshed(d, n)'
  <2>1. Refreshed(creds, n)
    BY <1>2, <1>4, <1>8 DEF Under
  <2> QED BY <1>8, <2>1 DEF Refreshed
<1>9. Under(p)'
  <2>1. \A n \in Profiles : InStep(NewConfig(p)', NewCreds(p)', n)
    BY <1>4, <1>6
  <2>2. \A n \in Profiles : n # Name(p)' => Refreshed(NewCreds(p), n)'
    BY <1>4, <1>5, <1>8 DEF Refreshed
  <2>3. \A n \in Profiles \ Named' : Original(NewConfig(p), NewCreds(p), n)'
    BY <1>4, <1>5, <1>7 DEF Original, fileVars
  <2>4. ids' \subseteq {NewTid(p)'}
    BY <1>2, <1>4 DEF Under
  <2> QED BY <1>1, <2>1, <2>2, <2>3, <2>4 DEF Under
<1>10. Knows(p)'
  BY <1>1, <1>3, <1>4, <1>5 DEF Knows
<1>11. Asked(p)'
  BY <1>1 DEF Asked, Ready
<1> QED BY <1>1, <1>2, <1>9, <1>10, <1>11, Turned

\* The token of a login is of the kind and account of the profile it has just saved.
LEMMA StoreTokenTurn == ASSUME NEW p \in Procs, IInv, InTurn, StoreToken(p) PROVE InTurn'
<1>0. PICK age \in Issues(cmd[p].kind) :
        At(p, "storeToken", "saveCreds") /\ SaveCreds(p, Put(creds, Name(p), NewToken(p, age)), "resolve")
  BY DEF StoreToken
<1> DEFINE d == Put(creds, Name(p), NewToken(p, age))
<1>1. pc[p] = "storeToken" /\ pc[p] \in Saving /\ At(p, "storeToken", "saveCreds") /\ SaveCreds(p, d, "resolve")
  BY <1>0 DEF At, Saving
<1>2. Knows(p) /\ Storing(p) /\ NewConfig(p) = config.profiles
  BY <1>1, TurnOf DEF Storing, NewConfig
<1>3. Name(p) \in DOMAIN config.profiles /\ config.profiles[Name(p)].kind = cmd[p].kind /\ config.profiles[Name(p)].acct = cmd[p].acct
  BY <1>2 DEF Knows
<1>4. Name(p) \in DOMAIN d /\ d[Name(p)] = NewToken(p, age)
  BY PutIs
<1>5. InStep(config.profiles, d, Name(p))
  BY <1>3, <1>4 DEF InStep, NewToken
<1>6. \A n \in Profiles \ {Name(p)} : (n \in DOMAIN d <=> n \in DOMAIN creds) /\ (n \in DOMAIN creds => d[n] = creds[n])
  BY PutIs
<1> HIDE DEF d
<1> QED BY <1>1, <1>5, <1>6, CredsTurn DEF StoreToken

\* A logout takes out the token of the profile it has just taken out.
LEMMA RemoveTokenTurn == ASSUME NEW p \in Procs, IInv, InTurn, RemoveToken(p) PROVE InTurn'
<1> DEFINE d == Without(creds, Name(p))
<1>1. pc[p] = "removeToken" /\ pc[p] \in Saving /\ At(p, "removeToken", "saveCreds") /\ SaveCreds(p, d, "done")
  BY DEF RemoveToken, At, Saving
<1>2. Knows(p) /\ Removing(p) /\ NewConfig(p) = config.profiles
  BY <1>1, TurnOf DEF Removing, NewConfig
<1>3. Name(p) \notin DOMAIN config.profiles /\ Name(p) \notin DOMAIN d
  BY <1>2, WithoutIs DEF Knows
<1>4. InStep(config.profiles, d, Name(p))
  BY <1>3 DEF InStep
<1>5. \A n \in Profiles \ {Name(p)} : (n \in DOMAIN d <=> n \in DOMAIN creds) /\ (n \in DOMAIN creds => d[n] = creds[n])
  BY WithoutIs
<1> HIDE DEF d
<1> QED BY <1>1, <1>4, <1>5, CredsTurn DEF RemoveToken

\* A refresh puts a token of the same kind and account in the place of the one it resolved, which is still there.
LEMMA ExchangeTurn == ASSUME NEW p \in Procs, IInv, InTurn, Exchange(p) PROVE InTurn'
<1>1. CASE Fail(p, "exchange")
  BY <1>1, FailTurn, PlainIs
<1>2. ASSUME NEW age \in Issues("sso"), At(p, "exchange", "saveCreds"), Keep(p, Name(p), Renewed(p, age)),
             UNCHANGED <<fileVars, cmd, ghostVars>>
      PROVE InTurn'
  <2> DEFINE d == Put(creds, Name(p), Renewed(p, age))
  <2>1. pc[p] = "exchange" /\ pc[p] \in Plain /\ SaveCreds(p, d, "use")
    BY <1>2, PlainIs DEF At, Keep
  <2>2. Name(p) \in DOMAIN creds /\ creds[Name(p)] = auth[p].tok /\ Name(p) \in Profiles
    BY <2>1, TurnOf, NameIs, PlainIs DEF Knows
  <2>3. auth[p].tok \in Token
    BY <2>1 DEF IInv, Types, Sound, Auth
  <2>4. Renewed(p, age).kind = auth[p].tok.kind /\ Renewed(p, age).acct = auth[p].tok.acct /\ Renewed(p, age).by = p
    BY <2>3 DEF Renewed, Token
  <2>5. Name(p) \in DOMAIN d /\ d[Name(p)] = Renewed(p, age)
    BY PutIs
  <2>6. InStep(config.profiles, d, Name(p))
    <3>1. InStep(config.profiles, creds, Name(p))
      BY <2>1, <2>2, PlainInStep
    <3> QED BY <2>2, <2>4, <2>5, <3>1 DEF InStep
  <2>7. \A n \in Profiles \ {Name(p)} : (n \in DOMAIN d <=> n \in DOMAIN creds) /\ (n \in DOMAIN creds => d[n] = creds[n])
    BY PutIs
  <2> HIDE DEF d
  <2> QED BY <1>2, <2>1, <2>4, <2>5, <2>6, <2>7, CredsTurn
<1> QED BY <1>1, <1>2 DEF Exchange

\* Emptying a file does not change what it will hold.
LEMMA OpenTurn ==
  ASSUME NEW p \in Procs, IInv, InTurn, OpenConfig(p) \/ OpenCreds(p)
  PROVE InTurn'
<1>1. /\ \/ At(p, "saveConfig", "fillConfig") /\ creds' = creds
         \/ At(p, "saveCreds", "fillCreds") /\ config' = config
      /\ cmd' = cmd /\ cfg' = cfg /\ crd' = crd /\ then' = then /\ first' = first /\ ids' = ids /\ latest' = latest
  BY DEF OpenConfig, OpenCreds, memVars, ghostVars
<1>2. /\ Only(p) /\ pc \in [Procs -> Labels]
      /\ \/ pc[p] = "saveConfig" /\ pc'[p] = "fillConfig" /\ creds' = creds
         \/ pc[p] = "saveCreds" /\ pc'[p] = "fillCreds" /\ config' = config
  <2>1. "fillConfig" \in Labels \ {"idle"} /\ "fillCreds" \in Labels \ {"idle"}
    BY DEF Labels, Writing
  <2> QED BY <1>1, <2>1, AtOnly
<1>3. Running(p) /\ Under(p) /\ Knows(p)
  <2>1. pc[p] \in Saving
    BY <1>2 DEF Saving
  <2> QED BY <2>1, TurnOf
<1>4. /\ NewConfig(p)' = NewConfig(p) /\ NewTid(p)' = NewTid(p) /\ NewCreds(p)' = NewCreds(p)
      /\ Storing(p)' <=> Storing(p)
      /\ Removing(p)' <=> Removing(p)
  BY <1>1, <1>2 DEF NewConfig, NewTid, NewCreds, Storing, Removing
<1>5. Named' = Named /\ Name(p)' = Name(p)
  BY <1>1 DEF Named, Name
<1>6. Under(p)'
  <2>1. \A n \in Profiles : n # Name(p)' \/ ~Half(p)' => InStep(NewConfig(p)', NewCreds(p)', n)
    BY <1>3, <1>4, <1>5 DEF Under, Half
  <2>2. \A n \in Profiles : n # Name(p)' \/ pc'[p] \notin {"saveCreds", "fillCreds"} => Refreshed(NewCreds(p), n)'
    BY <1>1, <1>2, <1>3, <1>4, <1>5 DEF Under, Refreshed
  <2>3. \A n \in Profiles \ Named' : Original(NewConfig(p), NewCreds(p), n)'
    BY <1>1, <1>3, <1>4, <1>5 DEF Under, Original
  <2>4. ids' \subseteq {NewTid(p)'}
    BY <1>1, <1>3, <1>4 DEF Under
  <2> QED BY <2>1, <2>2, <2>3, <2>4 DEF Under
<1>7. Knows(p)'
  BY <1>1, <1>2, <1>3, <1>4, <1>5 DEF Knows
<1>8. Asked(p)'
  BY <1>2 DEF Asked, Ready
<1> QED BY <1>2, <1>3, <1>6, <1>7, <1>8, Turned

\* Filling the config makes it what it was to be.
LEMMA FillConfigTurn == ASSUME NEW p \in Procs, IInv, InTurn, FillConfig(p) PROVE InTurn'
<1>1. /\ pc[p] = "fillConfig" /\ pc'[p] = then[p] /\ config' = cfg[p] /\ creds' = creds /\ cmd' = cmd /\ first' = first
      /\ latest' = latest /\ ids' = (IF then[p] = "begin" THEN ids \cup {cfg[p].tid} ELSE ids) /\ then'[p] = "done" /\ auth' = auth
  BY DEF FillConfig, At, IInv, Types
<1>2. Running(p) /\ Under(p) /\ Knows(p)
  <2>1. pc[p] \in Saving
    BY <1>1 DEF Saving
  <2> QED BY <2>1, TurnOf
<1>3. then[p] \in {"begin", "storeToken", "removeToken", "resolve", "done"}
  BY <1>1, <1>2 DEF Knows, IInv, Types, Follows
<1>4. Only(p) /\ pc \in [Procs -> Labels]
  <2>1. then[p] \in Labels \ {"idle"}
    BY <1>3 DEF Labels, Ended
  <2> QED BY <1>1, <2>1, AtOnly DEF FillConfig
<1>5. /\ NewConfig(p) = cfg[p].profiles /\ NewTid(p) = cfg[p].tid /\ NewCreds(p) = creds
      /\ NewConfig(p)' = cfg[p].profiles /\ NewTid(p)' = cfg[p].tid /\ NewCreds(p)' = creds
      /\ Storing(p)' <=> Storing(p)
      /\ Removing(p)' <=> Removing(p)
  BY <1>1, <1>3 DEF NewConfig, NewTid, NewCreds, Storing, Removing
<1>6. Named' = Named /\ Name(p)' = Name(p)
  BY <1>1 DEF Named, Name
<1>7. Under(p)'
  <2>1. \A n \in Profiles : n # Name(p)' \/ ~Half(p)' => InStep(NewConfig(p)', NewCreds(p)', n)
    BY <1>2, <1>5, <1>6 DEF Under, Half
  <2>2. \A n \in Profiles : Refreshed(NewCreds(p), n)'
    BY <1>1, <1>2, <1>5 DEF Under, Refreshed
  <2>3. \A n \in Profiles \ Named' : Original(NewConfig(p), NewCreds(p), n)'
    BY <1>1, <1>2, <1>5, <1>6 DEF Under, Original
  <2>4. ids' \subseteq {NewTid(p)'}
    BY <1>1, <1>2, <1>5 DEF Under
  <2> QED BY <2>1, <2>2, <2>3, <2>4 DEF Under
<1>8. Knows(p)'
  BY <1>1, <1>2, <1>3, <1>5, <1>6 DEF Knows
<1>9. Asked(p)'
  BY <1>1, <1>3 DEF Asked, Ready
<1> QED BY <1>1, <1>2, <1>3, <1>4, <1>7, <1>8, <1>9, Turned

\* Filling the credentials makes them what they were to be; the last refresh of the profile is this one, or none.
LEMMA FillCredsTurn == ASSUME NEW p \in Procs, IInv, InTurn, FillCreds(p) PROVE InTurn'
<1>1. /\ pc[p] = "fillCreds" /\ pc'[p] = then[p] /\ config' = config /\ creds' = crd[p] /\ cmd' = cmd /\ first' = first
      /\ latest' = [latest EXCEPT ![Name(p)] = IF then[p] = "use" THEN p ELSE NoOne] /\ ids' = ids /\ then'[p] = "done"
  BY DEF FillCreds, At, IInv, Types
<1>2. Running(p) /\ Under(p) /\ Knows(p) /\ Name(p) \in Profiles
  <2>1. pc[p] \in Saving
    BY <1>1 DEF Saving
  <2> QED BY <1>1, <2>1, TurnOf, NameIs
<1>3. then[p] \in {"resolve", "done", "use"}
  BY <1>1, <1>2 DEF Knows
<1>4. Only(p) /\ pc \in [Procs -> Labels]
  <2>1. then[p] \in Labels \ {"idle"}
    BY <1>3 DEF Labels, Ended
  <2> QED BY <1>1, <2>1, AtOnly DEF FillCreds
<1>5. /\ NewConfig(p) = config.profiles /\ NewTid(p) = config.tid /\ NewCreds(p) = crd[p]
      /\ NewConfig(p)' = config.profiles /\ NewTid(p)' = config.tid /\ NewCreds(p)' = crd[p]
      /\ ~Half(p) /\ ~Half(p)' /\ ~Storing(p)' /\ ~Removing(p)'
  BY <1>1, <1>3 DEF NewConfig, NewTid, NewCreds, Half, Storing, Removing
<1>6. Named' = Named /\ Name(p)' = Name(p)
  BY <1>1 DEF Named, Name
<1>7. Under(p)'
  <2>1. \A n \in Profiles : InStep(NewConfig(p)', NewCreds(p)', n)
    BY <1>2, <1>5 DEF Under
  <2>2. ASSUME NEW n \in Profiles, latest'[n] # NoOne PROVE n \in DOMAIN crd[p] /\ crd[p][n].by = latest'[n]
    <3>1. CASE n = Name(p)
      BY <1>1, <1>2, <1>3, <2>2, <3>1 DEF Knows, IInv, Types
    <3>2. CASE n # Name(p)
      <4>1. latest'[n] = latest[n] /\ Refreshed(crd[p], n)
        BY <1>1, <1>2, <1>5, <3>2 DEF Under, IInv, Types
      <4> QED BY <2>2, <4>1 DEF Refreshed
    <3> QED BY <3>1, <3>2
  <2>3. \A n \in Profiles : Refreshed(NewCreds(p), n)'
    BY <1>5, <2>2 DEF Refreshed
  <2>4. \A n \in Profiles \ Named' : Original(NewConfig(p), NewCreds(p), n)'
    BY <1>1, <1>2, <1>5, <1>6 DEF Under, Original
  <2>5. ids' \subseteq {NewTid(p)'}
    BY <1>1, <1>2, <1>5 DEF Under
  <2> QED BY <2>1, <2>3, <2>4, <2>5 DEF Under
<1>8. Knows(p)'
  BY <1>1, <1>3, <1>5 DEF Knows
<1>9. Asked(p)'
  BY <1>1, <1>3 DEF Asked, Ready
<1> QED BY <1>1, <1>2, <1>3, <1>4, <1>7, <1>8, <1>9, Turned
-----------------------------------------------------------------------------
(* A command begins, and the theorems *)

\* A command that begins with none under way finds whole files.
LEMMA StartTurn ==
  ASSUME NEW p \in Procs, IInv, InTurn, Unborn, Start(p), \A q \in Procs : ~Running(q)
  PROVE InTurn'
<1>1. PICK c \in Command(p) : cmd' = [cmd EXCEPT ![p] = c]
  BY DEF Start
<1>2. /\ pc[p] = "idle" /\ pc' = [pc EXCEPT ![p] = "telemetry"] /\ pc'[p] = "telemetry" /\ pc'[p] \notin Saving
      /\ config' = config /\ creds' = creds /\ first' = first /\ latest' = latest /\ ids' = ids
  BY DEF Start, At, IInv, Types, fileVars, ghostVars, Saving
<1>3. Rest /\ cmd[p] = Nobody /\ OthersKept /\ RefreshKept
  BY <1>2 DEF InTurn, Unborn
<1>4. \A q \in Procs \ {p} : ~Running(q)' /\ pc'[q] = pc[q] /\ cmd'[q] = cmd[q]
  BY <1>1, <1>2 DEF Running, IInv, Types
<1>5. Named \subseteq Named'
  <2> SUFFICES ASSUME NEW q \in Procs, cmd[q] # Nobody PROVE Name(q) \in Named'
    BY DEF Named
  <2>1. q # p /\ cmd'[q] = cmd[q]
    BY <1>3, <1>4
  <2> QED BY <2>1 DEF Named, Name
<1>6. /\ NewConfig(p)' = config.profiles /\ NewTid(p)' = config.tid /\ NewCreds(p)' = creds
      /\ ~Half(p)' /\ ~Storing(p)' /\ ~Removing(p)'
  BY <1>2 DEF Saving, NewConfig, NewTid, NewCreds, Half, Storing, Removing
<1>7. Under(p)'
  <2>1. \A n \in Profiles : InStep(NewConfig(p)', NewCreds(p)', n)
    BY <1>3, <1>6 DEF Rest
  <2>2. \A n \in Profiles : Refreshed(NewCreds(p), n)'
    BY <1>2, <1>3, <1>6 DEF Rest, Refreshed
  <2>3. \A n \in Profiles \ Named' : Original(NewConfig(p), NewCreds(p), n)'
    BY <1>2, <1>3, <1>5, <1>6 DEF Rest, Original
  <2>4. ids' \subseteq {NewTid(p)'}
    BY <1>2, <1>3, <1>6 DEF Rest
  <2> QED BY <2>1, <2>2, <2>3, <2>4 DEF Under
<1>8. Knows(p)' /\ Asked(p)'
  BY <1>2, <1>6 DEF Knows, Asked, Ready
<1>9. OthersKept' /\ RefreshKept'
  <2>1. \A n \in Profiles : Refreshed(creds, n)' /\ (n \notin Named' => Original(config.profiles, creds, n)')
    BY <1>2, <1>3, <1>5 DEF Rest, Refreshed, Original
  <2>2. OthersKept'
    BY <2>1 DEF OthersKept, Named, Name, Original
  <2>3. RefreshKept'
    <3> SUFFICES ASSUME NEW n \in Profiles, latest'[n] # NoOne PROVE \E t \in Entry(creds', n) : t.by = latest'[n]
      BY DEF RefreshKept
    <3>1. n \in DOMAIN creds' /\ creds'[n].by = latest'[n]
      BY <2>1 DEF Refreshed
    <3> QED BY <3>1, EntryIs
  <2> QED BY <2>2, <2>3
<1>10. Running(p)'
  BY <1>2 DEF Running, Ended
<1> QED BY <1>4, <1>7, <1>8, <1>9, <1>10 DEF InTurn

\* The files as earlier commands left them.
LEMMA InitTurn == Init => TurnInv
<1> SUFFICES ASSUME Init PROVE TurnInv
  OBVIOUS
<1>1. IInv
  BY InitIInv
<1>2. \A p \in Procs : ~Running(p) /\ cmd[p] = Nobody
  BY DEF Init, Running
<1>3. config.profiles = first.config.profiles /\ creds = first.creds /\ ids = {}
  BY DEF Init
<1>4. \A n \in Profiles : latest[n] = NoOne
  BY DEF Init
<1>5. \A n \in Profiles : InStep(config.profiles, creds, n)
  BY DEF Init, InStep
<1>6. Rest /\ OthersKept /\ RefreshKept
  BY <1>3, <1>4, <1>5 DEF Rest, Refreshed, Original, OthersKept, RefreshKept
<1> QED BY <1>2, <1>6 DEF TurnInv, Unborn, InTurn

\* Only its beginning gives a process a command.
LEMMA UnbornStep == ASSUME IInv, Unborn, [Next]_vars PROVE Unborn'
<1>1. CASE UNCHANGED vars
  BY <1>1 DEF vars, Unborn
<1>2. ASSUME NEW p \in Procs, NEW l, NEW l2 \in Labels \ {"idle"}, At(p, l, l2), cmd' = cmd PROVE Unborn'
  BY <1>2 DEF At, IInv, Types, Unborn
<1>3. ASSUME NEW p \in Procs, Start(p) PROVE Unborn'
  BY <1>3 DEF Start, At, IInv, Types, Unborn
<1>4. {"telemetry", "begin", "saveConfig", "saveCreds", "ask", "signin", "storeToken", "removeToken", "resolve", "resolveToken",
       "update", "exchange", "use", "identify", "fillConfig", "fillCreds", "done", "failed", "dead"} \subseteq Labels \ {"idle"}
  BY DEF Labels, Writing, Ended
<1>5. ASSUME NEW p \in Procs, NEW l, Fail(p, l) PROVE Unborn'
  BY <1>2, <1>4, <1>5 DEF Fail
<1>6. ASSUME NEW p \in Procs, FillConfig(p) \/ FillCreds(p) \/ Full(p) \/ Crash(p) PROVE Unborn'
  <2>1. then[p] \in Labels \ {"idle"}
    BY <1>4 DEF IInv, Types, Follows
  <2>2. CASE FillConfig(p) \/ FillCreds(p) \/ Full(p)
    BY <1>2, <1>4, <2>1, <2>2 DEF FillConfig, FillCreds, Full
  <2>3. CASE Crash(p)
    BY <2>3 DEF Crash, IInv, Types, Unborn
  <2> QED BY <1>6, <2>2, <2>3
<1>7. ASSUME NEW p \in Procs,
             \/ Telemetry(p) \/ OpenConfig(p) \/ OpenCreds(p) \/ Login(p) \/ AskSso(p) \/ SignIn(p) \/ StoreToken(p)
             \/ Logout(p) \/ RemoveToken(p) \/ Scope(p)
      PROVE Unborn'
  BY <1>2, <1>4, <1>5, <1>7 DEF Telemetry, OpenConfig, OpenCreds, Login, AskSso, SignIn, StoreToken, Logout, RemoveToken, Scope, Absent
<1>8. ASSUME NEW p \in Procs,
             Other(p) \/ Resolve(p) \/ ResolveToken(p) \/ Update(p) \/ Exchange(p) \/ Use(p) \/ Identify(p)
      PROVE Unborn'
  BY <1>2, <1>4, <1>5, <1>8 DEF Other, Resolve, ResolveToken, Update, Exchange, Use, Identify
<1> QED BY <1>1, <1>3, <1>6, <1>7, <1>8 DEF Next

\* The invariant of commands in turn is kept by every step.
LEMMA NextTurn == IInv /\ TurnInv /\ [Next]_vars => TurnInv'
<1> SUFFICES ASSUME IInv, TurnInv, [Next]_vars, ~disturbed' PROVE InTurn'
  BY UnbornStep DEF TurnInv
<1>1. CASE UNCHANGED vars
  <2>1. InTurn
    BY <1>1 DEF TurnInv, vars
  <2>2. UNCHANGED <<fileVars, pc, cmd, memVars, ghostVars>>
    BY <1>1 DEF vars
  <2>3. (\A p, q \in Procs : Running(p) /\ Running(q) => p = q)' /\ (\A p \in Procs : Running(p)' <=> Running(p))
    BY <2>1, <2>2 DEF InTurn, Running
  <2>4. Rest' <=> Rest
    BY <2>2 DEF fileVars, ghostVars, Rest, InStep, Original, Refreshed, Named, Name
  <2>5. ASSUME NEW p \in Procs PROVE Under(p)' <=> Under(p)
    BY <2>2 DEF fileVars, memVars, ghostVars, Under, Half, Storing, Removing, NewConfig, NewTid, NewCreds, InStep, Original,
         Refreshed, Named, Name
  <2>6. ASSUME NEW p \in Procs PROVE (Knows(p)' <=> Knows(p)) /\ (Asked(p)' <=> Asked(p))
    BY <2>2 DEF fileVars, memVars, Knows, Asked, Ready, Over, Storing, Removing, NewConfig, Name
  <2>7. (OthersKept' <=> OthersKept) /\ (RefreshKept' <=> RefreshKept)
    BY <2>2 DEF fileVars, ghostVars, OthersKept, RefreshKept, Quiet, Named, Name, Original, Running
  <2> QED BY <2>1, <2>3, <2>4, <2>5, <2>6, <2>7 DEF InTurn
<1>2. ASSUME NEW p \in Procs, Start(p), disturbed' = (disturbed \/ \E q \in Procs : Running(q)) PROVE InTurn'
  BY <1>2, StartTurn DEF TurnInv
<1>3. ASSUME NEW p \in Procs, disturbed' = disturbed,
             \/ Telemetry(p) \/ OpenConfig(p) \/ FillConfig(p) \/ OpenCreds(p) \/ FillCreds(p)
             \/ Login(p) \/ AskSso(p) \/ SignIn(p) \/ StoreToken(p)
      PROVE InTurn'
  BY <1>3, TelemetryTurn, OpenTurn, FillConfigTurn, FillCredsTurn, LoginTurn, AskTurn, SignInTurn, StoreTokenTurn DEF TurnInv
<1>4. ASSUME NEW p \in Procs, disturbed' = disturbed,
             \/ Logout(p) \/ RemoveToken(p) \/ Scope(p) \/ Other(p) \/ Resolve(p) \/ ResolveToken(p)
             \/ Update(p) \/ Exchange(p) \/ Use(p) \/ Identify(p)
      PROVE InTurn'
  BY <1>4, LogoutTurn, RemoveTokenTurn, EditTurn, OthersTurn, ResolveTokenTurn, ExchangeTurn DEF TurnInv
<1> QED BY <1>1, <1>2, <1>3, <1>4 DEF Next

\* Commands in turn that are not cut short keep the two files in step, change no profile but their own, and lose
\* neither the last refresh of a token nor the telemetry id, however many they are and on however many profiles.
THEOREM ChangesAlwaysKept == Spec => []ChangesKept
<1>1. IInv /\ TurnInv => ChangesKept
  <2> SUFFICES ASSUME IInv, InTurn PROVE FilesAgree /\ OthersKept /\ RefreshKept /\ TelemetryStable
    BY DEF TurnInv, ChangesKept
  <2>1. FilesAgree
    <3> SUFFICES ASSUME AllEnded
                 PROVE /\ DOMAIN creds = DOMAIN config.profiles
                       /\ \A n \in DOMAIN creds : creds[n].kind = config.profiles[n].kind /\ creds[n].acct = config.profiles[n].acct
      BY DEF FilesAgree
    <3>1. Rest
      BY DEF AllEnded, Running, InTurn
    <3>2. DOMAIN creds \subseteq Profiles /\ DOMAIN config.profiles \subseteq Profiles
      BY PartialIs DEF IInv, Types, Config
    <3> QED BY <3>1, <3>2 DEF Rest, InStep
  <2>2. \E x : ids \subseteq {x}
    BY DEF InTurn, Rest, Under
  <2>3. Cardinality(ids) <= 1
    <3>1. PICK x : ids \subseteq {x}
      BY <2>2
    <3>2. ids = {} \/ ids = {x}
      BY <3>1
    <3>3. Cardinality({}) = 0 /\ Cardinality({x}) = 1
      BY FS_EmptySet, FS_Singleton
    <3> QED BY <3>2, <3>3
  <2> QED BY <2>1, <2>3 DEF InTurn, TelemetryStable
<1> QED BY <1>1, InitTurn, NextTurn, Invariant, PTL DEF Spec

\* Such commands replace a profile only if they were told to, or if its session by SSO is over.
THEOREM LoginsAlwaysAsk == Spec => LoginsAsk
<1>1. IInv /\ TurnInv /\ [Next]_vars => [~disturbed => PatAsks /\ SsoAsks]_vars
  <2> SUFFICES ASSUME IInv, InTurn, NEW p \in Procs, NEW kind \in Logins, Overwrites(p, kind)
               PROVE kind = "sso" /\ Over(config.profiles, creds, Name(p))
    BY EntryIs DEF TurnInv, PatAsks, SsoAsks, Over, Logins
  <2>1. pc[p] = "saveConfig" /\ pc[p] \in Saving /\ then[p] = "storeToken" /\ ~cmd[p].consent /\ cmd[p].kind = kind
        /\ Name(p) \in DOMAIN config.profiles
    BY DEF Overwrites, Saving
  <2>2. Asked(p) /\ Ready(p)
    BY <2>1, TurnOf DEF Ready
  <2> QED BY <2>1, <2>2 DEF Asked
<1> QED BY <1>1, InitTurn, NextTurn, Invariant, PTL DEF Spec, LoginsAsk
=============================================================================
