------------------------------ MODULE LoginWizard ------------------------------
(* The wizard of harness auth login: an API URL, a token, the check of both by
   the server, then an organization and a project of the token's account, or a
   hand-over to the browser. harness auth setscope runs its last two steps with
   the credentials of a profile.

   As in the program, an update makes of the model and a key or a message the
   next model and the commands to run; a command runs beside the screen with a
   copy of the fields it needs, and its end is a message. *)
EXTENDS Naturals, FiniteSets

CONSTANTS
  Urls,     \* API URLs that are offered
  Vanity,   \* URLs that may be typed
  Tokens,   \* tokens that may be typed
  Owner,    \* the account that a token names, or None
  OrgsOf,   \* account -> its organizations
  ProjectsOf, \* <<account, organization>> -> its projects
  Existing, \* the token that the profile has, or None
  None

VARIABLES
  model, \* what the screen holds
  cmds   \* commands that run

vars == <<model, cmds>>

(* Steps that show a spinner until a command ends. *)
Loading == {"validating", "orgLoad", "projectLoad"}
Picks == {"orgPick", "projectPick"}

Fresh ==
  [step |-> "url", typingUrl |-> FALSE, typing |-> Existing = None, setMode |-> FALSE,
   url |-> None, token |-> None, account |-> None, org |-> None, project |-> None,
   orgs |-> {}, projects |-> {}, taken |-> None, skippedAt |-> None, end |-> "no"]

(* RunSetWizard, after it has fetched the organizations: credentials that are valid, and no way back from the pick. *)
Scoping(t) ==
  LET u == CHOOSE u \in Urls : TRUE IN
  [Fresh EXCEPT !.step = "orgPick", !.setMode = TRUE, !.url = u, !.token = t, !.account = Owner[t],
                !.orgs = OrgsOf[Owner[t]], !.taken = <<u, t>>]

Init ==
  /\ model \in {Fresh} \cup {Scoping(t) : t \in {k \in Tokens : Owner[k] # None}}
  /\ cmds = {}

-----------------------------------------------------------------------------
Show(m) == model' = m /\ UNCHANGED cmds
Command(m, kind) == [kind |-> kind, url |-> m.url, token |-> m.token, account |-> m.account, org |-> m.org]
Run(m, kind) == model' = m /\ cmds' = cmds \cup {Command(m, kind)}

ToToken(m) == [m EXCEPT !.step = "token", !.typing = TRUE]
Quit(m, how) == [m EXCEPT !.end = how]

-----------------------------------------------------------------------------
(* Keys. *)

CtrlC == Show(Quit(model, "cancelled"))

(* Mutant of Esc: escape while the token is checked goes back to it, and the check goes on. *)
EscFromCheck ==
  IF model.step = "validating" THEN Show(ToToken(model))
  ELSE Show(IF model.step = "token" THEN [model EXCEPT !.step = "url", !.typingUrl = FALSE] ELSE Quit(model, "cancelled"))

Esc ==
  LET m == model IN
  Show(CASE m.step = "url" /\ m.typingUrl -> [m EXCEPT !.typingUrl = FALSE]
         [] m.step = "token" -> IF m.typing /\ Existing # None THEN [m EXCEPT !.typing = FALSE]
                                ELSE [m EXCEPT !.step = "url", !.typingUrl = FALSE]
         [] m.step = "orgPick" /\ ~m.setMode -> ToToken(m)
         [] m.step = "projectPick" -> [m EXCEPT !.step = "orgPick"]
         [] OTHER -> Quit(m, "cancelled"))

(* q, of the list. *)
LeaveList == model.step \in Picks /\ Show(Quit(model, "left"))

UrlChosen(u) == [model EXCEPT !.url = u, !.step = "token", !.typing = @ \/ Existing = None]

EnterUrl ==
  /\ model.step = "url"
  /\ IF model.typingUrl THEN \E u \in Vanity : Show(UrlChosen(u))
     ELSE \/ \E u \in Urls : Show(UrlChosen(u))
          \/ Show([model EXCEPT !.typingUrl = TRUE])
          \/ Show(Quit([model EXCEPT !.step = "done"], "sso"))

EnterToken ==
  /\ model.step = "token"
  /\ IF model.typing THEN \E t \in Tokens : Run([model EXCEPT !.token = t, !.step = "validating"], "validate")
     ELSE \/ Run([model EXCEPT !.token = Existing, !.step = "validating"], "validate")
          \/ Show([model EXCEPT !.typing = TRUE])

EnterOrg ==
  /\ model.step = "orgPick"
  /\ \E o \in model.orgs : Run([model EXCEPT !.org = o, !.step = "projectLoad"], "projects")

EnterProject ==
  /\ model.step = "projectPick"
  /\ \E p \in model.projects : Show(Quit([model EXCEPT !.project = p, !.step = "done"], "full"))

(* s: save without the rest of the scope. *)
Skip ==
  /\ model.step \in Picks /\ ~model.setMode
  /\ Show(Quit([model EXCEPT !.step = "done", !.skippedAt = model.step], "skipped"))

-----------------------------------------------------------------------------
(* Messages. A command that fails may have been forbidden: the token may not list. *)

Refused(c) ==
  /\ c.kind = "validate"
  /\ model' = ToToken(model) /\ cmds' = cmds \ {c}

(* A token that names no account is refused without a request. *)
Validated(c) ==
  /\ c.kind = "validate" /\ Owner[c.token] # None
  /\ model' = [model EXCEPT !.url = c.url, !.account = Owner[c.token], !.step = "orgLoad", !.taken = <<c.url, c.token>>]
  /\ cmds' = (cmds \ {c}) \cup {Command(model', "orgs")}

(* No organization at all is taken for a missing permission. *)
OrgsDone(c) ==
  /\ c.kind = "orgs" /\ cmds' = cmds \ {c}
  /\ \/ \E seen \in SUBSET OrgsOf[c.account] :
          model' = IF seen = {} THEN Quit(model, "denied") ELSE [model EXCEPT !.orgs = seen, !.step = "orgPick"]
     \/ model' = Quit(model, "denied")
     \/ model' = ToToken(model)

ProjectsDone(c) ==
  /\ c.kind = "projects" /\ cmds' = cmds \ {c}
  /\ \/ \E seen \in SUBSET ProjectsOf[<<c.account, c.org>>] : model' = [model EXCEPT !.projects = seen, !.step = "projectPick"]
     \/ model' = Quit(model, "denied")
     \/ model' = [model EXCEPT !.step = "orgPick"]

Answer(c) == Refused(c) \/ Validated(c) \/ OrgsDone(c) \/ ProjectsDone(c)

Key == CtrlC \/ Esc \/ LeaveList \/ EnterUrl \/ EnterToken \/ EnterOrg \/ EnterProject \/ Skip

Next == model.end = "no" /\ (Key \/ \E c \in cmds : Answer(c))

-----------------------------------------------------------------------------
(* RunLoginWizard and RunSetWizard: what the caller writes to the profile. *)
Result ==
  IF model.end \in {"full", "skipped"} \/ (model.end = "denied" /\ ~model.setMode)
  THEN [url |-> model.url, token |-> model.token, account |-> model.account,
        org |-> IF model.end = "denied" THEN None ELSE model.org,
        project |-> IF model.end = "full" THEN model.project ELSE None]
  ELSE None

(* What is saved belongs together: the account is the token's, it was the server at that URL that took the token, the
   organization is one of the account and the project one of it, whatever was picked, left and picked again. Left out
   is s at the list of organizations: "save without org/project" (loginwizard.go:801) saves the organization that was
   picked before, if any, even one of an earlier token's account (loginwizard.go:1021-1030, login.go:124). *)
OneAccount ==
  Result # None =>
    /\ model.taken = <<Result.url, Result.token>> /\ Result.account = Owner[Result.token]
    /\ Result.org # None /\ model.skippedAt # "orgPick" => Result.org \in OrgsOf[Result.account]
    /\ Result.project # None => Result.project \in ProjectsOf[<<Result.account, Result.org>>]

(* A message is for the screen that waits for it: at most one command runs, with the fields that the screen shows. *)
AnswersAreCurrent ==
  model.end = "no" =>
    /\ Cardinality(cmds) = IF model.step \in Loading THEN 1 ELSE 0
    /\ \A c \in cmds :
         /\ c.url = model.url /\ c.token = model.token
         /\ c.kind # "validate" => c.account = Owner[c.token]
         /\ c.kind = "projects" => c.org = model.org
=============================================================================
