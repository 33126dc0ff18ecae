---------------------------- MODULE ProfileStore ----------------------------
(***************************************************************************)
(* The two files under ~/.harness that every command shares: config.yaml    *)
(* (the profiles and the telemetry id) and credentials (their tokens).      *)
(* Each process runs one command.  A change reads a whole file, edits it in *)
(* memory and writes it back, without a lock and in place: os.WriteFile     *)
(* first empties the file, and an empty file parses as one without entries. *)
(*                                                                          *)
(* Names, URLs and token texts are reduced to what the code compares: the   *)
(* kind of a profile, its account, whether it has a scope (org and project) *)
(* and a known identity; the kind of a token, its account, and its age:     *)
(* "fresh", "stale" when it is to be refreshed, "over" when the refresh     *)
(* token has expired as well, "unread" when neither is known to be good and *)
(* the expiry of one cannot be read.  Tokens do not age in a behaviour.     *)
(***************************************************************************)
EXTENDS Naturals, FiniteSets, Functions

CONSTANTS
  Procs, Profiles, Accts,
  Kinds,        \* commands each process may run
  MaxActive,    \* processes that run at the same time
  Faults,       \* among "crash" (killed at any point) and "full" (a write fails)
  NoOne

Logins   == {"pat", "sso"}
AllKinds == Logins \cup {"api", "status", "refresh", "scope", "logout"}

ASSUME StoreConstants ==
  /\ Kinds \in [Procs -> SUBSET AllKinds] /\ Faults \subseteq {"crash", "full"}
  /\ MaxActive \in Nat \ {0} /\ NoOne \notin Procs

VARIABLES
  config,      \* config.yaml: the profiles, and the telemetry id
  creds,       \* credentials: the token of each profile
  pc, cmd,     \* of each process
  cfg, crd,    \* the Config and the credentials it has in memory
  auth,        \* its ResolvedAuth
  then,        \* what follows the save under way
  first,       \* both files at the start
  ids,         \* telemetry ids that processes were given
  latest,      \* the process whose refresh last replaced the token of each profile
  disturbed    \* whether two commands have overlapped, or one was cut short

fileVars  == <<config, creds>>
memVars   == <<cfg, crd, auth, then>>
ghostVars == <<first, ids, latest>>
vars == <<fileVars, pc, cmd, memVars, ghostVars, disturbed>>

Command(p) == [kind : Kinds[p] \cap Logins, profile : Profiles, acct : Accts, consent : BOOLEAN]
                \cup [kind : Kinds[p] \ Logins, profile : Profiles]
Profile == [kind : Logins, acct : Accts, scoped : BOOLEAN, known : BOOLEAN]
Token   == [kind : Logins, acct : Accts, age : {"fresh", "stale", "over", "unread"}, by : Procs \cup {NoOne}]
Nobody  == [kind |-> "none"]                \* no command, and nothing resolved
Partial(S) == UNION {[D -> S] : D \in SUBSET Profiles}
Config  == [profiles : Partial(Profile), tid : Procs \cup {NoOne}]
Empty   == [profiles |-> <<>>, tid |-> NoOne]
Entry(f, n) == {f[k] : k \in {n} \cap DOMAIN f}
Put(f, n, v) == [k \in DOMAIN f \cup {n} |-> IF k = n THEN v ELSE f[k]]
Without(f, n) == Restrict(f, DOMAIN f \ {n})

Writing == {"fillConfig", "fillCreds"}
Ended   == {"done", "failed", "dead"}
Running(p) == pc[p] \notin {"idle"} \cup Ended
Name(p) == cmd[p].profile

\* Both files as finished logins, and possibly a refresh, have left them.
Init ==
  /\ creds \in Partial({t \in Token : t.by = NoOne /\ (t.kind = "pat" => t.age = "fresh")})
  /\ \E known \in BOOLEAN :
       config = [profiles |-> [n \in DOMAIN creds |->
                   [kind |-> creds[n].kind, acct |-> creds[n].acct, scoped |-> TRUE, known |-> known]],
                 tid |-> NoOne]
  /\ pc = [p \in Procs |-> "idle"]
  /\ cmd = [p \in Procs |-> Nobody] /\ auth = cmd
  /\ cfg = [p \in Procs |-> Empty] /\ crd = [p \in Procs |-> <<>>]
  /\ then = [p \in Procs |-> "done"]
  /\ first = [config |-> config, creds |-> creds]
  /\ ids = {} /\ latest = [n \in Profiles |-> NoOne] /\ disturbed = FALSE

At(p, l, l2) == pc[p] = l /\ pc' = [pc EXCEPT ![p] = l2]
\* What p now holds in memory is to be written; what follows is k.
SaveConfig(p, c, k) == cfg' = [cfg EXCEPT ![p] = c] /\ then' = [then EXCEPT ![p] = k] /\ UNCHANGED <<crd, auth>>
SaveCreds(p, c, k)  == crd' = [crd EXCEPT ![p] = c] /\ then' = [then EXCEPT ![p] = k] /\ UNCHANGED cfg

\* What a process no longer reads is left out of the state.
Forget(p) ==
  /\ cfg' = [cfg EXCEPT ![p] = Empty] /\ crd' = [crd EXCEPT ![p] = <<>>]
  /\ auth' = [auth EXCEPT ![p] = Nobody] /\ then' = [then EXCEPT ![p] = "done"]

Start(p) ==
  /\ At(p, "idle", "telemetry")
  /\ Cardinality({q \in Procs : Running(q)}) < MaxActive
  /\ \E c \in Command(p) : cmd' = [cmd EXCEPT ![p] = c]
  /\ UNCHANGED <<fileVars, memVars, ghostVars>>

\* GetOrCreateTelemetryID: the id on disk, or on a terminal a new one once it is saved.
Telemetry(p) ==
  \/ /\ At(p, "telemetry", "begin")
     /\ ids' = IF config.tid = NoOne THEN ids ELSE ids \cup {config.tid}
     /\ UNCHANGED <<fileVars, cmd, memVars, first, latest>>
  \/ /\ At(p, "telemetry", "saveConfig")
     /\ config.tid = NoOne
     /\ SaveConfig(p, [config EXCEPT !.tid = p], "begin")
     /\ UNCHANGED <<fileVars, cmd, ghostVars>>

\* os.WriteFile, first half: open with O_TRUNC.
OpenConfig(p) ==
  /\ At(p, "saveConfig", "fillConfig")
  /\ config' = Empty
  /\ UNCHANGED <<creds, cmd, memVars, ghostVars>>
OpenCreds(p) ==
  /\ At(p, "saveCreds", "fillCreds")
  /\ creds' = <<>>
  /\ UNCHANGED <<config, cmd, memVars, ghostVars>>

\* Second half.  The last writer of two that overlap determines the content.
FillConfig(p) ==
  /\ At(p, "fillConfig", then[p])
  /\ config' = cfg[p] /\ cfg' = [cfg EXCEPT ![p] = Empty] /\ then' = [then EXCEPT ![p] = "done"]
  /\ ids' = IF then[p] = "begin" THEN ids \cup {cfg[p].tid} ELSE ids
  /\ UNCHANGED <<creds, cmd, crd, auth, first, latest>>
FillCreds(p) ==
  /\ At(p, "fillCreds", then[p])
  /\ creds' = crd[p] /\ crd' = [crd EXCEPT ![p] = <<>>] /\ then' = [then EXCEPT ![p] = "done"]
  /\ latest' = [latest EXCEPT ![Name(p)] = IF then[p] = "use" THEN p ELSE NoOne]
  /\ UNCHANGED <<config, cmd, cfg, auth, first, ids>>

\* The write fails: the telemetry id and the identity are best effort, the rest is an error.
Full(p) ==
  /\ "full" \in Faults
  /\ \E l \in Writing : At(p, l, IF then[p] \in {"begin", "done"} /\ l = "fillConfig" THEN then[p] ELSE "failed")
  /\ Forget(p) /\ UNCHANGED <<fileVars, cmd, ghostVars>>

Crash(p) ==
  /\ "crash" \in Faults /\ Running(p)
  /\ pc' = [pc EXCEPT ![p] = "dead"]
  /\ Forget(p) /\ UNCHANGED <<fileVars, cmd, ghostVars>>

Fail(p, l) == At(p, l, "failed") /\ Forget(p) /\ UNCHANGED <<fileVars, cmd, ghostVars>>
-----------------------------------------------------------------------------
(* auth login *)

\* LoginHandler reads the config it will write back, long before it does.
Login(p) ==
  /\ cmd[p].kind \in Logins
  /\ LET taken == cmd[p].kind = "pat" /\ Name(p) \in DOMAIN config.profiles /\ ~cmd[p].consent
     IN \/ Fail(p, "begin") /\ taken
        \/ /\ At(p, "begin", IF cmd[p].kind = "sso" THEN "ask" ELSE "signin")
           /\ ~taken
           /\ cfg' = [cfg EXCEPT ![p] = config]
           /\ UNCHANGED <<fileVars, cmd, crd, auth, then, ghostVars>>

\* Both tokens are over, or have no expiry that can be read: IsAccessTokenExpiringSoon takes
\* such a token, and the missing one of an entry with a PAT, for one that is over.
ExpiredEither(n, c) ==   \* Mutant: || in place of &&
  /\ \E prof \in Entry(c.profiles, n) : prof.kind = "sso"
  /\ \E t \in Entry(creds, n) : t.kind = "pat" \/ t.age \in {"stale", "over", "unread"}
SessionExpired(n, c) ==
  /\ \E prof \in Entry(c.profiles, n) : prof.kind = "sso"
  /\ \E t \in Entry(creds, n) : t.kind = "pat" \/ t.age \in {"over", "unread"}

AskSso(p) ==
  LET free == Name(p) \notin DOMAIN cfg[p].profiles \/ cmd[p].consent \/ SessionExpired(Name(p), cfg[p])
  IN \/ At(p, "ask", "signin") /\ free /\ UNCHANGED <<fileVars, cmd, memVars, ghostVars>>
     \/ Fail(p, "ask") /\ ~free

\* The wizard, the browser or the flags give a token; its account becomes the profile's.
NewProfile(p, scoped, known) == [kind |-> cmd[p].kind, acct |-> cmd[p].acct, scoped |-> scoped, known |-> known]
SignIn(p) ==
  \/ Fail(p, "signin")
  \/ /\ At(p, "signin", "saveConfig")
     /\ \E scoped, known \in BOOLEAN :
          SaveConfig(p, [cfg[p] EXCEPT !.profiles = Put(@, Name(p), NewProfile(p, scoped, known))], "storeToken")
     /\ UNCHANGED <<fileVars, cmd, ghostVars>>

\* SetCredential, SetSSOCredentials
NewToken(p, age) == [kind |-> cmd[p].kind, acct |-> cmd[p].acct, age |-> age, by |-> p]
Issues(kind) == IF kind = "sso" THEN {"fresh", "unread"} ELSE {"fresh"}
StoreToken(p) ==
  /\ At(p, "storeToken", "saveCreds")
  /\ \E age \in Issues(cmd[p].kind) : SaveCreds(p, Put(creds, Name(p), NewToken(p, age)), "resolve")
  /\ UNCHANGED <<fileVars, cmd, auth, ghostVars>>
-----------------------------------------------------------------------------
(* auth logout, auth setscope *)

Absent(p) == Fail(p, "begin") /\ Name(p) \notin DOMAIN config.profiles

Logout(p) ==
  /\ cmd[p].kind = "logout"
  /\ \/ Absent(p)
     \/ /\ At(p, "begin", "saveConfig")
        /\ Name(p) \in DOMAIN config.profiles
        /\ SaveConfig(p, [config EXCEPT !.profiles = Without(@, Name(p))], "removeToken")
        /\ UNCHANGED <<fileVars, cmd, ghostVars>>
RemoveToken(p) ==
  /\ At(p, "removeToken", "saveCreds")
  /\ SaveCreds(p, Without(creds, Name(p)), "done")
  /\ UNCHANGED <<fileVars, cmd, auth, ghostVars>>

\* The scope may stay incomplete: only one of org and project is given.
Scope(p) ==
  /\ cmd[p].kind = "scope"
  /\ \/ Absent(p)
     \/ /\ At(p, "begin", "saveConfig")
        /\ Name(p) \in DOMAIN config.profiles
        /\ \E complete \in BOOLEAN :
             SaveConfig(p, [config EXCEPT !.profiles[Name(p)].scoped = @ \/ complete], "resolve")
        /\ UNCHANGED <<fileVars, cmd, ghostVars>>
-----------------------------------------------------------------------------
(* what every other command, and the check after a login, does *)

Other(p) ==
  /\ cmd[p].kind \in {"api", "status", "refresh"}
  /\ At(p, "begin", "resolve")
  /\ UNCHANGED <<fileVars, cmd, memVars, ghostVars>>

\* resolveProfile reads the profile, and then the token of the kind the profile names.
Resolve(p) ==
  \/ Fail(p, "resolve") /\ Name(p) \notin DOMAIN config.profiles
  \/ /\ At(p, "resolve", "resolveToken")
     /\ Name(p) \in DOMAIN config.profiles
     /\ cfg' = [cfg EXCEPT ![p] = config]
     /\ UNCHANGED <<fileVars, cmd, crd, auth, then, ghostVars>>

\* Validate, which only the commands that call the API apply.
Valid(prof, t) == prof.scoped /\ (prof.kind = "pat" => t.acct = prof.acct)
\* Mutant: Load where Resolve was meant.
ResolveTokenAny(p) ==
  LET prof == cfg[p].profiles[Name(p)]
      fits(t) == t.kind = prof.kind
  IN \/ Fail(p, "resolveToken") /\ \A t \in Entry(creds, Name(p)) : ~fits(t)
     \/ /\ pc[p] = "resolveToken"
        /\ \E t \in Entry(creds, Name(p)) :
          /\ fits(t)
          /\ At(p, "resolveToken", IF cmd[p].kind # "refresh" THEN "update"
                                   ELSE IF prof.kind = "sso" THEN "exchange" ELSE "failed")
          /\ auth' = [auth EXCEPT ![p] = [kind |-> prof.kind, acct |-> prof.acct, tok |-> t]]
          /\ cfg' = [cfg EXCEPT ![p] = Empty]
          /\ UNCHANGED <<fileVars, cmd, crd, then, ghostVars>>
ResolveToken(p) ==
  LET prof == cfg[p].profiles[Name(p)]
      fits(t) == t.kind = prof.kind /\ (cmd[p].kind = "api" => Valid(prof, t))
  IN \/ Fail(p, "resolveToken") /\ \A t \in Entry(creds, Name(p)) : ~fits(t)
     \/ /\ pc[p] = "resolveToken"
        /\ \E t \in Entry(creds, Name(p)) :
          /\ fits(t)
          /\ At(p, "resolveToken", IF cmd[p].kind # "refresh" THEN "update"
                                   ELSE IF prof.kind = "sso" THEN "exchange" ELSE "failed")
          /\ auth' = [auth EXCEPT ![p] = [kind |-> prof.kind, acct |-> prof.acct, tok |-> t]]
          /\ cfg' = [cfg EXCEPT ![p] = Empty]
          /\ UNCHANGED <<fileVars, cmd, crd, then, ghostVars>>

\* CheckAndUpdateAccessToken
Update(p) ==
  \/ Fail(p, "update") /\ auth[p].tok.age \in {"over", "unread"}
  \/ /\ At(p, "update", IF auth[p].tok.age = "stale" THEN "exchange" ELSE "use")
     /\ auth[p].tok.age \notin {"over", "unread"}
     /\ UNCHANGED <<fileVars, cmd, memVars, ghostVars>>

\* RefreshSSOToken, and SetSSOCredentials up to its write.
RenewedOld(p, age) == auth[p].tok      \* Mutant: the old tokens are saved
Renewed(p, age) == [auth[p].tok EXCEPT !.age = age, !.by = p]
Keep(p, n, t) == SaveCreds(p, Put(creds, n, t), "use") /\ auth' = [auth EXCEPT ![p].tok = t]
\* Mutant: Source is not trimmed to the name of the profile.
ExchangeUntrimmed(p) ==
  \/ Fail(p, "exchange")
  \/ /\ At(p, "exchange", "saveCreds")
     /\ auth[p].tok.age # "over"
     /\ \E age \in Issues("sso") : Keep(p, <<"profile", Name(p)>>, Renewed(p, age))
     /\ UNCHANGED <<fileVars, cmd, ghostVars>>
Exchange(p) ==
  \/ Fail(p, "exchange")
  \/ /\ At(p, "exchange", "saveCreds")
     /\ auth[p].tok.age # "over"
     /\ \E age \in Issues("sso") : Keep(p, Name(p), Renewed(p, age))
     /\ UNCHANGED <<fileVars, cmd, ghostVars>>

\* The request is sent; a check may discover who the token belongs to.
Use(p) ==
  /\ \/ At(p, "use", "done")
     \/ cmd[p].kind \notin {"api", "refresh"} /\ At(p, "use", "identify")
  /\ Forget(p) /\ UNCHANGED <<fileVars, cmd, ghostVars>>

\* persistResolvedIdentity
Identify(p) ==
  LET new == \E prof \in Entry(config.profiles, Name(p)) : ~prof.known
  IN \/ At(p, "identify", "done") /\ ~new /\ UNCHANGED <<fileVars, cmd, memVars, ghostVars>>
     \/ /\ At(p, "identify", "saveConfig")
        /\ new
        /\ SaveConfig(p, [config EXCEPT !.profiles[Name(p)].known = TRUE], "done")
        /\ UNCHANGED <<fileVars, cmd, ghostVars>>

\* From the first overlap, kill or failed write on, commands are no longer in turn.
Next == \E p \in Procs :
  \/ Start(p) /\ disturbed' = (disturbed \/ \E q \in Procs : Running(q))
  \/ (Full(p) \/ Crash(p)) /\ disturbed' = TRUE
  \/ /\ \/ Telemetry(p)
        \/ OpenConfig(p) \/ FillConfig(p) \/ OpenCreds(p) \/ FillCreds(p)
        \/ Login(p) \/ AskSso(p) \/ SignIn(p) \/ StoreToken(p)
        \/ Logout(p) \/ RemoveToken(p) \/ Scope(p)
        \/ Other(p) \/ Resolve(p) \/ ResolveToken(p) \/ Update(p) \/ Exchange(p) \/ Use(p) \/ Identify(p)
     /\ UNCHANGED disturbed

Spec == Init /\ [][Next]_vars
-----------------------------------------------------------------------------
Labels == {"idle", "telemetry", "begin", "saveConfig", "saveCreds", "ask", "signin", "storeToken", "removeToken",
           "resolve", "resolveToken", "update", "exchange", "use", "identify"} \cup Writing \cup Ended

\* Entries are only ever those of profiles, each with an account and a kind of its own.
TypeOK ==
  /\ config.tid \in Procs \cup {NoOne} /\ DOMAIN config.profiles \subseteq Profiles /\ DOMAIN creds \subseteq Profiles
  /\ \A n \in DOMAIN config.profiles : config.profiles[n] \in Profile
  /\ \A n \in DOMAIN creds : creds[n] \in Token
  /\ \A p \in Procs : pc[p] \in Labels /\ (Running(p) => cmd[p] \in Command(p))
  /\ ids \subseteq Procs /\ \A n \in Profiles : latest[n] \in Procs \cup {NoOne}

Quiet == \A p \in Procs : pc[p] \notin Writing
AllEnded == \A p \in Procs : pc[p] \in {"idle"} \cup Ended

\* Whenever no command runs, the two files hold the same profiles, each with a token of
\* its kind and account: no login, logout or refresh leaves one file behind the other.
FilesAgree ==
  AllEnded => /\ DOMAIN creds = DOMAIN config.profiles
              /\ \A n \in DOMAIN creds : creds[n].kind = config.profiles[n].kind /\ creds[n].acct = config.profiles[n].acct

\* Between two writes, a profile that no command was run for has the entries of the start in
\* both files, although every write replaces them.
OthersKept ==
  Quiet => \A n \in Profiles \ {Name(p) : p \in {q \in Procs : cmd[q] # Nobody}} :
             /\ Entry(config.profiles, n) = Entry(first.config.profiles, n)
             /\ Entry(creds, n) = Entry(first.creds, n)

\* Between two writes, the token of a profile is the one its last refresh saved, until a
\* login or logout replaces it (pkg/auth/sso.go: the credentials file is updated in place).
RefreshKept ==
  Quiet => \A n \in Profiles : latest[n] # NoOne => \E t \in Entry(creds, n) : t.by = latest[n]

\* No two commands are given different telemetry ids (config.go: the stable UUID).
TelemetryStable == Cardinality(ids) <= 1

\* A personal access token is sent only with its own account, whatever other processes do
\* to the files and wherever they die.
NeverMixed ==
  \A p \in Procs : pc[p] = "use" /\ cmd[p].kind = "api" /\ auth[p].kind = "pat" => auth[p].acct = auth[p].tok.acct

Overwrites(p, kind) ==
  /\ pc[p] = "saveConfig" /\ pc'[p] = "fillConfig"
  /\ then[p] = "storeToken" /\ cmd[p].kind = kind /\ ~cmd[p].consent
  /\ Name(p) \in DOMAIN config.profiles

\* A login with a token never replaces an existing profile without consent, --overwrite or a yes.
PatAsks == \A p \in Procs : ~Overwrites(p, "pat")

\* A login by SSO without consent replaces only a profile whose session is over, or, against
\* "returns false if ... its expiry can't be determined" (login.go:251-256), one whose expiry
\* cannot be read, for which sso.go:183-189 says it is over: those sessions are left out here.
SsoAsks ==
  \A p \in Procs : Overwrites(p, "sso") =>
    /\ config.profiles[Name(p)].kind = "sso"
    /\ \E t \in Entry(creds, Name(p)) : t.kind = "sso" /\ t.age \in {"over", "unread"}

(* Commands that run one after the other and are not cut short keep the two files in step, touch only
   their own profile, and lose no refresh and no telemetry id (credentials.go, config.go, sso.go: every
   write replaces a whole file). *)
ChangesKept == ~disturbed => FilesAgree /\ OthersKept /\ RefreshKept /\ TelemetryStable

(* They replace no profile unasked (login.go: the overwrite check, and the session that is over or cannot
   be read). *)
LoginsAsk == [][~disturbed => PatAsks /\ SsoAsks]_vars
=============================================================================
