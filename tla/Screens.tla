-------------------------------- MODULE Screens --------------------------------
(* The three full-screen programs of the CLI, each by itself: the wizard of auth
   login, the lists and details of --ui, and the viewer of an execution. Each is
   a loop of its own around a model, an update and the commands that updates ask
   for, and none is started from another. *)
EXTENDS Naturals, Sequences

CONSTANTS
  Urls, Vanity, Tokens, Owner, OrgsOf, ProjectsOf, Existing,          \* of the wizard
  Count, NoSearch, Size, Totals, MaxPage, MaxDepth, MaxRunning,       \* of the table
  Nodes, Silent, Whole, MaxStreams,                                   \* of the viewer
  None

VARIABLES
  screen, \* which of the three runs
  model, cmds, world

(* The term of no search is a term; a list has a length, and a page at least one row. *)
ASSUME TableAssumption ==
  /\ NoSearch \in DOMAIN Count /\ \A t \in DOMAIN Count : Count[t] \in Nat
  /\ Size \in Nat \ {0} /\ Totals \subseteq BOOLEAN

Line == {Whole[i] : i \in DOMAIN Whole}

(* A log is a sequence of lines; None is neither a step nor a log. *)
ASSUME ViewerAssumption == Whole \in Seq(Line) /\ None \notin Nodes /\ None \notin Seq(Line)

W == INSTANCE LoginWizard
T == INSTANCE TableView
V == INSTANCE LogViewer

vars == <<screen, model, cmds, world>>

Init ==
  \/ screen = "wizard" /\ W!Init /\ world = None
  \/ screen = "table" /\ T!Init /\ world = None
  \/ screen = "viewer" /\ V!Init

Next ==
  /\ UNCHANGED screen
  /\ \/ screen = "wizard" /\ W!Next /\ UNCHANGED world
     \/ screen = "table" /\ T!Next /\ UNCHANGED world
     \/ screen = "viewer" /\ V!Next

Spec == Init /\ [][Next]_vars

-----------------------------------------------------------------------------
(* What the wizard saves belongs to one account, and every answer is for the step that waits for it
   (loginwizard.go: steps that are left and picked again). *)
WizardIsSound == screen = "wizard" => W!OneAccount /\ W!AnswersAreCurrent

(* The rows and details of a table at rest are those that its screen names, and what loads will end
   (uitableview.go: pages and details that arrive in any order). *)
TableIsSound == screen = "table" => T!RowsAreAsked /\ T!DetailsAreOfTheItem /\ T!LoadingEnds

(* b brings back the list, and the cursor to the item from which it was left (uitableview.go, UILink). *)
BackRestores == [][screen = "table" => T!CursorIsBack]_vars

(* The panel, the streams, the logs and the polls of the viewer are those of the step on the screen,
   whatever arrives in the meantime (logviewer.go: messages of loads and streams). *)
ViewerIsSound ==
  screen = "viewer" => V!PanelIsOfTheStep /\ V!StreamsAreHeld /\ V!PollsGoOn /\ V!LogsAreTrue
=============================================================================
