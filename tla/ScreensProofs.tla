----------------------------- MODULE ScreensProofs -----------------------------
(* What the screens promise holds for any answers, lists, pages, steps and logs.
   Each of the three has an inductive invariant that says which commands run, and
   of what they were made: of what the screen still shows, for the wizard; for the
   table, of the page and the item that it names, unless two fetches crossed; and
   for the viewer, that a step that is not upset has one reader at most, of the
   one stream whose lines its log is made of. *)
EXTENDS Screens, FiniteSetTheorems, SequenceTheorems, TLAPS

\* How many commands there are, as each of the two screens counts them.
LEMMA Counting == \A S : W!Cardinality(S) = Cardinality(S) /\ V!Cardinality(S) = Cardinality(S)
  BY DEF W!Cardinality, V!Cardinality, Cardinality

-----------------------------------------------------------------------------
\* The wizard: only the answer that the step waits for is on its way.
WizardFields == {"step", "typingUrl", "typing", "setMode", "url", "token", "account", "org", "project",
                 "orgs", "projects", "taken", "skippedAt", "end"}

Awaited == [validating |-> "validate", orgLoad |-> "orgs", projectLoad |-> "projects"]

\* The only command that runs is the one that the step waits for, made of what the screen still shows.
Waits ==
  model.end = "no" =>
    cmds = IF model.step \in W!Loading THEN {W!Command(model, Awaited[model.step])} ELSE {}

\* From the check of the token on, the account is its owner, and the lists are what belongs to it.
Belongs ==
  /\ model.step \in {"url", "token", "validating", "done"} \cup W!Picks \cup W!Loading
  /\ model.step \in {"orgLoad", "projectLoad", "done"} \cup W!Picks /\ model.end # "sso" =>
       model.taken = <<model.url, model.token>> /\ model.account = Owner[model.token]
  /\ model.step \in {"projectLoad"} \cup W!Picks => model.orgs \subseteq OrgsOf[model.account]
  /\ model.step \in {"projectLoad", "projectPick"} => model.org \in OrgsOf[model.account]
  /\ model.step = "projectPick" => model.projects \subseteq ProjectsOf[<<model.account, model.org>>]
  /\ model.step = "done" => model.end # "no"

\* How the wizard may end, and where.
Ends ==
  /\ model.end \in {"no", "cancelled", "left", "sso", "full", "skipped", "denied"}
  /\ model.end = "denied" => model.step \in {"orgLoad", "projectLoad"}
  /\ model.end \in {"full", "skipped"} => model.step = "done"
  /\ model.end = "full" => /\ model.org \in OrgsOf[model.account]
                           /\ model.project \in ProjectsOf[<<model.account, model.org>>]
  /\ model.end = "skipped" /\ model.skippedAt # "orgPick" => model.org \in OrgsOf[model.account]

WizardInv == DOMAIN model = WizardFields /\ Waits /\ Belongs /\ Ends

LEMMA WizardInit == W!Init => WizardInv
<1> SUFFICES ASSUME W!Init PROVE WizardInv
  OBVIOUS
<1> USE DEF WizardInv, WizardFields, Waits, Belongs, Ends, W!Picks, W!Loading
<1>1. CASE model = W!Fresh
  BY <1>1 DEF W!Init, W!Fresh
<1>2. ASSUME NEW t \in Tokens, model = W!Scoping(t) PROVE WizardInv
  <2> DEFINE u == CHOOSE v \in Urls : TRUE
  <2>1. /\ DOMAIN model = WizardFields /\ model.step = "orgPick" /\ model.end = "no"
        /\ model.url = u /\ model.token = t /\ model.account = Owner[t] /\ model.orgs = OrgsOf[Owner[t]]
        /\ model.taken = <<u, t>>
    BY <1>2 DEF W!Fresh, W!Scoping
  <2>2. cmds = {}
    BY DEF W!Init
  <2> QED BY <2>1, <2>2
<1> QED BY <1>1, <1>2 DEF W!Init

LEMMA WizardKey ==
  ASSUME WizardInv, model.end = "no", W!Key
  PROVE  WizardInv'
<1> USE DEF WizardInv, WizardFields, Waits, Belongs, Ends, W!Picks, W!Loading, W!Show, W!Quit, W!ToToken
<1>1. CASE W!CtrlC
  BY <1>1 DEF W!CtrlC
<1>2. CASE W!Esc
  <2>1. CASE model.step = "url" /\ model.typingUrl
    BY <1>2, <2>1 DEF W!Esc
  <2>2. CASE model.step = "token"
    BY <1>2, <2>2 DEF W!Esc
  <2>3. CASE model.step = "orgPick" /\ ~model.setMode
    BY <1>2, <2>3 DEF W!Esc
  <2>4. CASE model.step = "projectPick"
    BY <1>2, <2>4 DEF W!Esc
  <2>5. CASE /\ ~(model.step = "url" /\ model.typingUrl) /\ model.step \notin {"token", "projectPick"}
             /\ ~(model.step = "orgPick" /\ ~model.setMode)
    BY <1>2, <2>5 DEF W!Esc
  <2> QED BY <2>1, <2>2, <2>3, <2>4, <2>5
<1>3. CASE W!LeaveList
  BY <1>3 DEF W!LeaveList
<1>4. CASE W!EnterUrl
  <2>1. model.step = "url" /\ cmds = {} /\ UNCHANGED cmds
    BY <1>4 DEF W!EnterUrl
  <2>2. CASE \E u \in Urls \cup Vanity : model' = W!UrlChosen(u)
    BY <2>1, <2>2 DEF W!UrlChosen
  <2>3. CASE model' = [model EXCEPT !.typingUrl = TRUE]
    BY <2>1, <2>3
  <2>4. CASE model' = W!Quit([model EXCEPT !.step = "done"], "sso")
    BY <2>1, <2>4
  <2> QED BY <1>4, <2>2, <2>3, <2>4 DEF W!EnterUrl
<1>5. CASE W!EnterToken
  <2>1. model.step = "token" /\ cmds = {}
    BY <1>5 DEF W!EnterToken
  <2>2. ASSUME NEW t, W!Run([model EXCEPT !.token = t, !.step = "validating"], "validate") PROVE WizardInv'
    <3>1. /\ DOMAIN model' = WizardFields /\ model'.step = "validating" /\ model'.end = "no"
          /\ cmds' = {W!Command(model', "validate")}
      BY <2>1, <2>2 DEF W!Run
    <3> QED BY <3>1 DEF Awaited
  <2>3. CASE model' = [model EXCEPT !.typing = TRUE] /\ UNCHANGED cmds
    BY <2>1, <2>3
  <2> QED BY <1>5, <2>2, <2>3 DEF W!EnterToken
<1>6. CASE W!EnterOrg
  BY <1>6 DEF W!EnterOrg, W!Run, W!Command, Awaited
<1>7. CASE W!EnterProject
  BY <1>7 DEF W!EnterProject
<1>8. CASE W!Skip
  BY <1>8 DEF W!Skip
<1> QED BY <1>1, <1>2, <1>3, <1>4, <1>5, <1>6, <1>7, <1>8 DEF W!Key

LEMMA WizardAnswer ==
  ASSUME WizardInv, model.end = "no", NEW c \in cmds, W!Answer(c)
  PROVE  WizardInv'
<1> USE DEF WizardInv, WizardFields, Waits, Belongs, Ends, W!Picks, W!Loading, W!Quit, W!ToToken
<1>0. cmds = {c} /\ model.step \in W!Loading /\ c = W!Command(model, Awaited[model.step])
  OBVIOUS
<1>1. CASE W!Refused(c)
  BY <1>0, <1>1 DEF W!Refused, W!Command, Awaited
<1>2. CASE W!Validated(c)
  BY <1>0, <1>2 DEF W!Validated, W!Command, Awaited
<1>3. CASE W!OrgsDone(c)
  <2>1. model.step = "orgLoad" /\ c.account = model.account /\ cmds' = {}
    <3>1. c.kind = "orgs" /\ cmds' = {}
      BY <1>0, <1>3 DEF W!OrgsDone
    <3>2. c.kind = Awaited[model.step] /\ c.account = model.account
      BY <1>0 DEF W!Command
    <3> QED BY <1>0, <3>1, <3>2 DEF Awaited
  <2>2. CASE \E seen \in SUBSET OrgsOf[c.account] : model' = [model EXCEPT !.orgs = seen, !.step = "orgPick"]
    BY <2>1, <2>2
  <2>3. CASE model' = W!Quit(model, "denied")
    BY <2>1, <2>3
  <2>4. CASE model' = W!ToToken(model)
    BY <2>1, <2>4
  <2> QED BY <1>3, <2>2, <2>3, <2>4 DEF W!OrgsDone
<1>4. CASE W!ProjectsDone(c)
  <2>1. model.step = "projectLoad" /\ c.account = model.account /\ c.org = model.org /\ cmds' = {}
    <3>1. c.kind = "projects" /\ cmds' = {}
      BY <1>0, <1>4 DEF W!ProjectsDone
    <3>2. c.kind = Awaited[model.step] /\ c.account = model.account /\ c.org = model.org
      BY <1>0 DEF W!Command
    <3> QED BY <1>0, <3>1, <3>2 DEF Awaited
  <2>2. CASE \E seen \in SUBSET ProjectsOf[<<c.account, c.org>>] :
                model' = [model EXCEPT !.projects = seen, !.step = "projectPick"]
    BY <2>1, <2>2
  <2>3. CASE model' = W!Quit(model, "denied")
    BY <2>1, <2>3
  <2>4. CASE model' = [model EXCEPT !.step = "orgPick"]
    BY <2>1, <2>4
  <2> QED BY <1>4, <2>2, <2>3, <2>4 DEF W!ProjectsDone
<1> QED BY <1>1, <1>2, <1>3, <1>4 DEF W!Answer

LEMMA WizardSound == WizardInv => W!OneAccount /\ W!AnswersAreCurrent
<1> SUFFICES ASSUME WizardInv PROVE W!OneAccount /\ W!AnswersAreCurrent
  OBVIOUS
<1>1. W!OneAccount
  BY DEF W!OneAccount, W!Result, WizardInv, Belongs, Ends
<1>2. W!AnswersAreCurrent
  <2> SUFFICES ASSUME model.end = "no" PROVE W!AnswersAreCurrent
    BY DEF W!AnswersAreCurrent
  <2>1. CASE model.step \in W!Loading
    <3>1. cmds = {W!Command(model, Awaited[model.step])}
      BY <2>1 DEF WizardInv, Waits
    <3>2. Cardinality(cmds) = 1
      BY <3>1, FS_Singleton
    <3>3. Awaited[model.step] # "validate" => model.account = Owner[model.token]
      BY <2>1 DEF WizardInv, Belongs, W!Loading, Awaited
    <3> QED BY <2>1, <3>1, <3>2, <3>3, Counting DEF W!AnswersAreCurrent, W!Command
  <2>2. CASE model.step \notin W!Loading
    BY <2>2, FS_EmptySet, Counting DEF WizardInv, Waits, W!AnswersAreCurrent
  <2> QED BY <2>1, <2>2
<1> QED BY <1>1, <1>2

-----------------------------------------------------------------------------
\* The table: what is fetched is what the screen names, until two fetches cross.
TableFields == {"screen", "page", "restore", "restored", "rows", "cursor", "loading", "failed", "last", "totals", "term",
                "detail", "id", "reading", "broken", "shown", "history", "end", "expected", "pagesCross", "detailsCross"}

RowsAt(p, t) == [page |-> p, term |-> t]

\* An item was left, and the rows were those of the page.
Sure(b) == b # T!Nowhere /\ ~b.lags

\* A link back to an item leads to a row that the list has.
Linked(l) ==
  /\ l.screen \in {"table", "detail"} /\ l.offset \in Nat /\ l.term \in T!Terms
  /\ Sure(l.back) =>
       /\ l.screen = "table" /\ l.back.item = l.offset + 1
       /\ \E p, r \in Nat : l.offset = p * Size + r /\ r < T!Length(RowsAt(p, l.term))

Trail(h) == h \in Seq({h[i] : i \in DOMAIN h}) /\ \A i \in DOMAIN h : Linked(h[i])

\* What the fields hold: the cursor is on a row whenever there is one.
Placed ==
  /\ DOMAIN model = TableFields /\ model.screen \in {"table", "detail"}
  /\ {model.restored, model.detail, model.reading, model.pagesCross, model.detailsCross} \subseteq BOOLEAN
  /\ model.page \in Nat /\ model.restore \in Nat /\ model.cursor \in Nat /\ model.term \in T!Terms
  /\ model.rows = T!NoRows \/ \E p \in Nat, t \in T!Terms : model.rows = RowsAt(p, t)
  /\ T!Length(model.rows) > 0 => model.cursor < T!Length(model.rows)
  /\ Trail(model.history)
  /\ model.screen = "detail" => model.detail
  /\ ~model.detail => ~model.reading

\* The commands that run were made of a page, or of an item.
Commanded ==
  \A c \in cmds : \/ c.kind = "page" /\ c.page \in Nat /\ c.term \in T!Terms
                  \/ c.kind = "detail"

\* Unless two fetches crossed, the page under way is the one that the screen names, and so are the rows at rest.
PagesFollow ==
  /\ model.screen = "detail" => ~T!Running("page")
  /\ ~model.pagesCross => \A c \in cmds : c.kind = "page" => c = T!PageOf(model)
  /\ T!RowsAreAsked
  /\ model.loading => T!Running("page")
  /\ ~model.pagesCross /\ T!Running("page") => model.loading

\* Details that were fetched are those of the item, whatever is on its way.
Told == T!Readable /\ ~model.detailsCross => model.shown = model.id

\* The same of the details.
DetailsFollow ==
  /\ ~model.detailsCross /\ model.detail => \A c \in cmds : c.kind = "detail" => c = T!DetailOf(model)
  /\ Told
  /\ model.reading => T!Running("detail")

\* Details over a list are those of the row under the cursor, unless the rows lag behind the page.
Opened ==
  model.screen = "table" /\ model.detail /\ ~model.pagesCross =>
    /\ ~T!Running("page")
    /\ ~model.failed => /\ model.rows = RowsAt(model.page, model.term) /\ T!Length(model.rows) > 0
                        /\ model.id = T!ItemAt(model.rows, model.cursor)

\* Until the rows of a screen that was gone back to are there, the cursor will be put back.
Restorable ==
  ~model.restored /\ Sure(model.expected) =>
    /\ model.screen = "table" /\ ~model.pagesCross
    /\ model.expected.item = model.page * Size + model.restore + 1
    /\ model.restore < T!Length(RowsAt(model.page, model.term))

TableInv == Placed /\ Told /\ (model.end = "no" => Commanded /\ PagesFollow /\ DetailsFollow /\ Opened /\ Restorable)

LEMMA RowsFacts ==
  ASSUME NEW p \in Nat, NEW t \in T!Terms
  PROVE /\ RowsAt(p, t) # T!NoRows /\ T!Length(RowsAt(p, t)) \in Nat /\ T!Length(RowsAt(p, t)) <= Size
        /\ RowsAt(p, t).page = p /\ RowsAt(p, t).term = t /\ T!Length(T!NoRows) = 0
<1>1. RowsAt(p, t).page = p /\ RowsAt(p, t).term = t /\ T!NoRows.page = -1
  BY DEF RowsAt, T!NoRows
<1>2. RowsAt(p, t) # T!NoRows
  BY <1>1
<1>3. T!Length(RowsAt(p, t)) = T!Most(0, T!Least(Size, Count[t] - p * Size)) /\ T!Length(T!NoRows) = 0
  BY <1>1, <1>2 DEF T!Length
<1>4. Count[t] \in Nat /\ Size \in Nat /\ p * Size \in Nat
  <2>1. Size \in Nat
    BY TableAssumption
  <2>2. Count[t] \in Nat
    BY TableAssumption DEF T!Terms
  <2> QED BY <2>1, <2>2
<1>5. T!Length(RowsAt(p, t)) \in Nat /\ T!Length(RowsAt(p, t)) <= Size
  BY <1>3, <1>4 DEF T!Most, T!Least
<1> QED BY <1>1, <1>2, <1>3, <1>5

LEMMA Division ==
  ASSUME NEW a \in Nat, NEW d \in Nat \ {0}
  PROVE a \div d \in Nat /\ (a \div d) * d <= a /\ a < (a \div d) * d + d /\ a % d = a - (a \div d) * d
OBVIOUS

\* A row's place in the list names its page and its place on it.
LEMMA PlaceFacts ==
  ASSUME NEW p \in Nat, NEW r \in Nat, r < Size
  PROVE  (p * Size + r) \div Size = p /\ (p * Size + r) % Size = r
<1>1. Size \in Nat \ {0} /\ p * Size \in Nat
  <2>1. Size \in Nat \ {0}
    BY TableAssumption
  <2> QED BY <2>1
<1> DEFINE a == p * Size + r
           q == a \div Size
<1>2. a \in Nat /\ q \in Nat /\ q * Size <= a /\ a < q * Size + Size /\ a % Size = a - q * Size
  <2>1. a \in Nat
    BY <1>1
  <2> HIDE DEF a
  <2> QED BY <1>1, <2>1, Division
<1>3. q = p
  <2>1. ~(q < p)
    <3> SUFFICES ASSUME q < p PROVE FALSE
      OBVIOUS
    <3> HIDE DEF q
    <3>1. PICK d \in Nat : p = q + 1 + d
      <4>1. p - (q + 1) \in Nat
        BY <1>2
      <4> QED BY <1>2, <4>1
    <3>2. p * Size = q * Size + Size + d * Size /\ d * Size \in Nat /\ q * Size \in Nat
      BY <1>1, <1>2, <3>1
    <3> QED BY <1>1, <1>2, <3>2
  <2>2. ~(p < q)
    <3> SUFFICES ASSUME p < q PROVE FALSE
      OBVIOUS
    <3> HIDE DEF q
    <3>1. PICK d \in Nat : q = p + 1 + d
      <4>1. q - (p + 1) \in Nat
        BY <1>2
      <4> QED BY <1>2, <4>1
    <3>2. q * Size = p * Size + Size + d * Size /\ d * Size \in Nat
      BY <1>1, <1>2, <3>1
    <3> QED BY <1>1, <1>2, <3>2
  <2> HIDE DEF q
  <2> QED BY <1>2, <2>1, <2>2
<1> HIDE DEF q
<1>4. a % Size = r
  BY <1>1, <1>2, <1>3
<1> QED BY <1>3, <1>4 DEF q

-----------------------------------------------------------------------------
\* The first screen waits for its first page.
LEMMA TableInit == T!Init => TableInv
<1> SUFFICES ASSUME T!Init PROVE TableInv
  OBVIOUS
<1>1. PICK totals \in Totals : model = T!Table(0, NoSearch, <<>>, T!Nowhere, totals)
  BY DEF T!Init
<1>2. 0 \div Size = 0 /\ 0 % Size = 0
  <2>1. Size \in Nat \ {0}
    BY TableAssumption
  <2> QED BY <2>1
<1>3. /\ DOMAIN model = TableFields /\ model.screen = "table" /\ model.page = 0 /\ model.restore = 0 /\ model.restored = FALSE
      /\ model.rows = T!NoRows /\ model.cursor = 0 /\ model.loading = TRUE /\ model.term = NoSearch
      /\ model.detail = FALSE /\ model.reading = FALSE /\ model.history = <<>> /\ model.expected = T!Nowhere
      /\ model.pagesCross = FALSE /\ model.detailsCross = FALSE
  BY <1>1, <1>2 DEF T!Table, TableFields
<1>4. cmds = {T!PageOf(model)} /\ T!PageOf(model).kind = "page" /\ T!PageOf(model).page = 0 /\ T!PageOf(model).term = NoSearch
  BY <1>3 DEF T!Init, T!PageOf
<1>5. Placed
  <2>1. T!Length(model.rows) = 0
    BY <1>3 DEF T!Length
  <2>2. NoSearch \in T!Terms
    BY TableAssumption DEF T!Terms
  <2>3. Trail(<<>>)
    BY DEF Trail
  <2>4. {model.restored, model.detail, model.reading, model.pagesCross, model.detailsCross} \subseteq BOOLEAN
    BY <1>3
  <2>5. T!Length(model.rows) > 0 => model.cursor < T!Length(model.rows)
    BY <2>1
  <2> QED BY <1>3, <2>2, <2>3, <2>4, <2>5 DEF Placed
<1>6. T!Running("page") /\ ~T!Running("detail")
  BY <1>4 DEF T!Running
<1>7. Commanded
  <2>1. NoSearch \in T!Terms
    BY TableAssumption DEF T!Terms
  <2> QED BY <1>4, <2>1 DEF Commanded
<1>8. PagesFollow
  BY <1>3, <1>4, <1>6 DEF PagesFollow, T!RowsAreAsked
<1>9. DetailsFollow /\ Opened /\ Restorable
  BY <1>3, <1>4, <1>6 DEF DetailsFollow, Told, T!Readable, Opened, Restorable, Sure
<1> QED BY <1>5, <1>7, <1>8, <1>9 DEF TableInv, DetailsFollow

\* A page is asked for, of this search or another.
LEMMA FetchKeeps ==
  ASSUME TableInv, model.end = "no", T!InList, NEW m, NEW p \in Nat, NEW t \in T!Terms,
         DOMAIN m = TableFields, m.page = p, m.term = t, \A x \in TableFields \ {"page", "term"} : m[x] = model[x],
         T!Fetch(m)
  PROVE  TableInv'
<1>0. DOMAIN model = TableFields /\ model.screen = "table" /\ ~model.detail /\ ~model.reading
  BY DEF TableInv, Placed, T!InList
<1>1. /\ model' = [m EXCEPT !.loading = TRUE, !.failed = FALSE, !.expected = T!Nowhere, !.pagesCross = T!Running("page")]
      /\ cmds' = cmds \cup {[kind |-> "page", page |-> p, term |-> t]}
  BY <1>0 DEF T!Fetch, T!PageOf, TableFields
<1>2. /\ DOMAIN model' = TableFields /\ model'.page = p /\ model'.term = t /\ model'.loading = TRUE
      /\ model'.expected = T!Nowhere /\ model'.pagesCross = T!Running("page")
      /\ \A x \in {"screen", "restore", "restored", "rows", "cursor", "detail", "id", "reading", "broken", "shown",
                   "history", "end", "detailsCross"} : model'[x] = model[x]
  BY <1>0, <1>1 DEF TableFields
<1>3. Placed'
  BY <1>0, <1>2 DEF TableInv, Placed, T!Running
<1>4. Commanded'
  BY <1>1 DEF TableInv, Commanded
<1>5. T!Running("page")' /\ (T!Running("detail")' <=> T!Running("detail"))
  <2> DEFINE d == [kind |-> "page", page |-> p, term |-> t]
  <2>1. d.kind = "page"
    OBVIOUS
  <2> HIDE DEF d
  <2>2. cmds' = cmds \cup {d}
    BY <1>1 DEF d
  <2> QED BY <2>1, <2>2 DEF T!Running
<1>6. PagesFollow'
  <2>1. T!PageOf(model)' = [kind |-> "page", page |-> p, term |-> t]
    BY <1>2 DEF T!PageOf
  <2>2. ~model'.pagesCross => \A c \in cmds' : c.kind = "page" => c = T!PageOf(model)'
    BY <1>1, <1>2, <2>1 DEF T!Running
  <2> QED BY <1>0, <1>2, <1>5, <2>2 DEF PagesFollow, T!RowsAreAsked
<1>7. DetailsFollow'
  BY <1>0, <1>2, <1>5 DEF DetailsFollow, Told, T!Readable
<1>8. Restorable' /\ Opened'
  BY <1>0, <1>2 DEF Restorable, Sure, Opened
<1> QED BY <1>3, <1>4, <1>6, <1>7, <1>8 DEF TableInv, DetailsFollow

\* Details are asked for.
LEMMA ReadKeeps ==
  ASSUME TableInv, model.end = "no", NEW i, NEW s,
         NEW m, DOMAIN m = TableFields, m.detail = TRUE, m.id = i, m.shown = s,
         \A x \in TableFields \ {"detail", "id", "shown"} : m[x] = model[x],
         \/ model.detail /\ i = model.id
         \/ ~model.loading /\ T!Length(model.rows) > 0 /\ i = T!ItemAt(model.rows, model.cursor),
         T!Read(m)
  PROVE  TableInv'
<1>0. DOMAIN model = TableFields
  BY DEF TableInv, Placed
<1>1. /\ model' = [m EXCEPT !.reading = TRUE, !.broken = FALSE, !.detailsCross = T!Running("detail")]
      /\ cmds' = cmds \cup {[kind |-> "detail", id |-> i]}
  BY <1>0 DEF T!Read, T!DetailOf, TableFields
<1>2. /\ DOMAIN model' = TableFields /\ model'.detail = TRUE /\ model'.id = i /\ model'.reading = TRUE
      /\ model'.detailsCross = T!Running("detail")
      /\ \A x \in {"screen", "page", "term", "restore", "restored", "rows", "cursor", "history", "end", "loading", "failed",
                   "expected", "pagesCross"} : model'[x] = model[x]
  BY <1>0, <1>1 DEF TableFields
<1>3. Placed'
  <2>1. {model'.restored, model'.detail, model'.reading, model'.pagesCross, model'.detailsCross} \subseteq BOOLEAN
    BY <1>2 DEF TableInv, Placed, T!Running
  <2>2. /\ model'.screen \in {"table", "detail"} /\ model'.page \in Nat /\ model'.restore \in Nat /\ model'.cursor \in Nat
        /\ model'.term \in T!Terms /\ model'.rows = model.rows /\ model'.history = model.history /\ model'.cursor = model.cursor
    BY <1>2 DEF TableInv, Placed
  <2>3. (T!Length(model.rows) > 0 => model.cursor < T!Length(model.rows))'
    BY <2>2 DEF TableInv, Placed
  <2> QED BY <1>2, <2>1, <2>2, <2>3 DEF TableInv, Placed
<1>4. Commanded'
  BY <1>1 DEF TableInv, Commanded
<1>5. T!Running("detail")' /\ (T!Running("page")' <=> T!Running("page"))
  <2> DEFINE d == [kind |-> "detail", id |-> i]
  <2>1. d.kind = "detail"
    OBVIOUS
  <2> HIDE DEF d
  <2>2. cmds' = cmds \cup {d}
    BY <1>1 DEF d
  <2> QED BY <2>1, <2>2 DEF T!Running
<1>6. PagesFollow'
  <2>1. T!PageOf(model)' = T!PageOf(model)
    BY <1>2 DEF T!PageOf
  <2> QED BY <1>1, <1>2, <1>5, <2>1 DEF TableInv, PagesFollow, T!RowsAreAsked
<1>7. DetailsFollow'
  <2>1. T!DetailOf(model)' = [kind |-> "detail", id |-> i]
    BY <1>2 DEF T!DetailOf
  <2>2. ~model'.detailsCross => \A c \in cmds' : c.kind = "detail" => c = T!DetailOf(model)'
    BY <1>1, <1>2, <2>1 DEF T!Running
  <2> QED BY <1>2, <1>5, <2>2 DEF DetailsFollow, Told, T!Readable
<1>8. Restorable'
  BY <1>2 DEF TableInv, Restorable
<1>9. Opened'
  <2>1. (T!Running("page")' <=> T!Running("page")) /\ TableInv
    BY <1>5
  <2>2. CASE model.detail /\ i = model.id
    BY <1>2, <2>1, <2>2 DEF TableInv, Opened
  <2>3. CASE ~model.loading /\ T!Length(model.rows) > 0 /\ i = T!ItemAt(model.rows, model.cursor)
    <3>1. ASSUME model.screen = "table", ~model.pagesCross
          PROVE  ~T!Running("page") /\ (~model.failed => model.rows = RowsAt(model.page, model.term))
      <4>1. ~T!Running("page") /\ (~model.failed => model.rows.page = model.page /\ model.rows.term = model.term)
        BY <2>3, <3>1 DEF TableInv, PagesFollow, T!RowsAreAsked
      <4>0. model.rows # T!NoRows
        <5>1. T!Length(T!NoRows) = 0
          BY DEF T!Length
        <5> QED BY <2>3, <5>1
      <4>2. PICK p \in Nat, t \in T!Terms : model.rows = RowsAt(p, t)
        BY <4>0 DEF TableInv, Placed
      <4>3. model.rows.page = p /\ model.rows.term = t
        BY <4>2, RowsFacts
      <4> QED BY <4>1, <4>2, <4>3
    <3> QED BY <1>2, <2>1, <2>3, <3>1 DEF Opened
  <2> QED BY <2>2, <2>3
<1> QED BY <1>3, <1>4, <1>6, <1>7, <1>8, <1>9 DEF TableInv, DetailsFollow

\* A new list.
LEMMA TableKeeps ==
  ASSUME TableInv, NEW o \in Nat, NEW t \in T!Terms, NEW h, NEW e,
         Trail(h),
         Sure(e) => e.item = o + 1 /\ \E p, r \in Nat : o = p * Size + r /\ r < T!Length(RowsAt(p, t)),
         T!Leave(T!Table(o, t, h, e, model.totals), T!PageOf(T!Table(o, t, h, e, model.totals)))
  PROVE  TableInv'
<1>1. o \div Size \in Nat /\ o % Size \in Nat
  <2>1. Size \in Nat \ {0}
    BY TableAssumption
  <2> QED BY <2>1
<1>2. /\ DOMAIN model' = TableFields /\ model'.screen = "table" /\ model'.page = o \div Size /\ model'.restore = o % Size
      /\ model'.restored = FALSE /\ model'.rows = T!NoRows /\ model'.cursor = 0 /\ model'.loading = TRUE /\ model'.term = t
      /\ model'.detail = FALSE /\ model'.reading = FALSE /\ model'.history = h /\ model'.expected = e
      /\ model'.pagesCross = FALSE /\ model'.detailsCross = FALSE
  BY DEF T!Leave, T!Table, TableFields
<1>3. cmds' = {T!PageOf(model)'} /\ T!PageOf(model)' = [kind |-> "page", page |-> o \div Size, term |-> t]
  BY <1>2 DEF T!Leave, T!PageOf
<1>4. Placed'
  <2>1. (T!Length(model.rows) = 0)'
    BY <1>2 DEF T!Length
  <2>2. Trail(model.history)'
    BY <1>2
  <2>4. DOMAIN model' = TableFields /\ model'.screen \in {"table", "detail"}
    BY <1>2
  <2>5. {model'.restored, model'.detail, model'.reading, model'.pagesCross, model'.detailsCross} \subseteq BOOLEAN
    BY <1>2
  <2>6. model'.page \in Nat /\ model'.restore \in Nat /\ model'.cursor \in Nat /\ model'.term \in T!Terms
    BY <1>1, <1>2
  <2>7. (T!Length(model.rows) > 0 => model.cursor < T!Length(model.rows))'
    BY <2>1
  <2> QED BY <1>2, <2>2, <2>4, <2>5, <2>6, <2>7 DEF Placed
<1>5. Commanded'
  BY <1>1, <1>3 DEF Commanded
<1>6. T!Running("page")' /\ ~T!Running("detail")'
  BY <1>3 DEF T!Running
<1>7. PagesFollow'
  BY <1>2, <1>3, <1>6 DEF PagesFollow, T!RowsAreAsked
<1>8. DetailsFollow'
  BY <1>2, <1>3, <1>6 DEF DetailsFollow, Told, T!Readable
<1>9. Restorable'
  <2> SUFFICES ASSUME Sure(e)
               PROVE e.item = (o \div Size) * Size + (o % Size) + 1 /\ o % Size < T!Length(RowsAt(o \div Size, t))
    BY <1>2 DEF Restorable
  <2>1. PICK p \in Nat, r \in Nat : o = p * Size + r /\ r < T!Length(RowsAt(p, t)) /\ e.item = o + 1
    OBVIOUS
  <2>2. r < Size
    <3>1. Size \in Nat
      BY TableAssumption
    <3> QED BY <2>1, <3>1, RowsFacts
  <2>3. o \div Size = p /\ o % Size = r
    BY <2>1, <2>2, PlaceFacts
  <2> QED BY <2>1, <2>3
<1>10. Opened'
  BY <1>2 DEF Opened
<1> QED BY <1>4, <1>5, <1>7, <1>8, <1>9, <1>10 DEF TableInv, DetailsFollow

\* Details without a list.
LEMMA DetailKeeps ==
  ASSUME TableInv, NEW i, NEW h,
         Trail(h),
         T!Leave(T!DetailOnly(i, [model EXCEPT !.history = h]), T!DetailOf(T!DetailOnly(i, [model EXCEPT !.history = h])))
  PROVE  TableInv'
<1>0. DOMAIN model = TableFields /\ NoSearch \in T!Terms
  BY TableAssumption DEF TableInv, Placed, T!Terms
<1>1. 0 \div Size \in Nat /\ 0 % Size \in Nat
  <2>1. Size \in Nat \ {0}
    BY TableAssumption
  <2> QED BY <2>1
<1>2. model' = [T!Table(0, NoSearch, h, T!Nowhere, model.totals) EXCEPT !.screen = "detail", !.detail = TRUE, !.id = i, !.reading = TRUE,
                                                             !.loading = FALSE]
  BY <1>0 DEF T!Leave, T!DetailOnly, TableFields
<1>3. /\ DOMAIN model' = TableFields /\ model'.screen = "detail" /\ model'.page = 0 \div Size /\ model'.restore = 0 % Size
      /\ model'.restored = FALSE /\ model'.rows = T!NoRows /\ model'.cursor = 0 /\ model'.loading = FALSE /\ model'.term = NoSearch
      /\ model'.detail = TRUE /\ model'.id = i /\ model'.reading = TRUE /\ model'.history = h /\ model'.expected = T!Nowhere
      /\ model'.pagesCross = FALSE /\ model'.detailsCross = FALSE
  BY <1>2 DEF T!Table, TableFields
<1>4. cmds' = {T!DetailOf(model)'} /\ T!DetailOf(model)' = [kind |-> "detail", id |-> i]
  BY <1>3 DEF T!Leave, T!DetailOf
<1>5. Placed'
  <2>1. (T!Length(model.rows) = 0)'
    BY <1>3 DEF T!Length
  <2>2. Trail(model.history)'
    BY <1>3
  <2>4. (T!Length(model.rows) > 0 => model.cursor < T!Length(model.rows))'
    BY <2>1
  <2>5. {model'.restored, model'.detail, model'.reading, model'.pagesCross, model'.detailsCross} \subseteq BOOLEAN
    BY <1>3
  <2> QED BY <1>0, <1>1, <1>3, <2>2, <2>4, <2>5 DEF Placed
<1>6. Commanded'
  BY <1>4 DEF Commanded
<1>7. T!Running("detail")' /\ ~T!Running("page")'
  BY <1>4 DEF T!Running
<1>8. PagesFollow'
  <2>1. \A c \in cmds' : c.kind # "page"
    BY <1>7 DEF T!Running
  <2> QED BY <1>3, <1>7, <2>1 DEF PagesFollow, T!RowsAreAsked
<1>9. DetailsFollow'
  BY <1>3, <1>4, <1>7 DEF DetailsFollow, Told, T!Readable
<1>10. Restorable' /\ Opened'
  BY <1>3 DEF Restorable, Sure, Opened
<1> QED BY <1>5, <1>6, <1>8, <1>9, <1>10 DEF TableInv, DetailsFollow

\* The link back names the item whose details it was left from, when the rows are those of the page.
LEMMA LinkFacts == ASSUME TableInv, model.end = "no", T!Readable PROVE Linked(T!Link(model))
<1> DEFINE l == T!Link(model)
<1>0. /\ DOMAIN model = TableFields /\ model.screen \in {"table", "detail"} /\ model.page \in Nat /\ model.cursor \in Nat
      /\ model.term \in T!Terms /\ (T!Length(model.rows) > 0 => model.cursor < T!Length(model.rows)) /\ model.detail /\ Opened
  BY DEF TableInv, Placed, T!Readable
<1>1. /\ l.screen = model.screen /\ l.offset = model.page * Size + model.cursor /\ l.term = model.term
      /\ l.back = IF model.screen = "table" THEN [item |-> model.id, lags |-> model.failed \/ model.pagesCross] ELSE T!Nowhere
  BY DEF T!Link
<1>2. l.offset \in Nat
  <2>1. Size \in Nat
    BY TableAssumption
  <2> QED BY <1>0, <1>1, <2>1
<1> HIDE DEF l
<1>3. ASSUME Sure(l.back)
      PROVE /\ l.screen = "table" /\ l.back.item = l.offset + 1
            /\ \E p, r \in Nat : l.offset = p * Size + r /\ r < T!Length(RowsAt(p, l.term))
  <2>1. model.screen = "table" /\ ~model.failed /\ ~model.pagesCross /\ l.back.item = model.id
    <3>1. model.screen = "table"
      <4>1. ~Sure(T!Nowhere)
        BY DEF Sure
      <4> QED BY <1>1, <1>3, <4>1
    <3> DEFINE lag == model.failed \/ model.pagesCross
               i == model.id
    <3>2. l.back = [item |-> i, lags |-> lag]
      BY <1>1, <3>1
    <3> HIDE DEF lag, i
    <3>3. l.back.item = i /\ (l.back.lags <=> lag)
      BY <3>2
    <3>4. ~l.back.lags
      BY <1>3 DEF Sure
    <3>5. ~lag
      BY <3>3, <3>4
    <3> QED BY <3>1, <3>3, <3>5 DEF lag, i
  <2>2. model.rows = RowsAt(model.page, model.term) /\ T!Length(model.rows) > 0 /\ model.id = T!ItemAt(model.rows, model.cursor)
    BY <1>0, <2>1 DEF Opened
  <2>3. model.id = model.page * Size + model.cursor + 1
    BY <1>0, <2>2, RowsFacts DEF T!ItemAt
  <2> QED BY <1>0, <1>1, <2>1, <2>2, <2>3
<1>4. Linked(l)
  BY <1>0, <1>1, <1>2, <1>3 DEF Linked
<1> QED BY <1>4 DEF l

\* A link is added.
LEMMA TrailGrows ==
  ASSUME NEW h, Trail(h), NEW l, Linked(l)
  PROVE  Trail(Append(h, l))
<1> DEFINE S == {h[i] : i \in DOMAIN h}
           g == Append(h, l)
<1>1. h \in Seq(S) /\ (\A x \in S : Linked(x)) /\ \A x \in S \cup {l} : Linked(x)
  BY DEF Trail
<1>2. h \in Seq(S \cup {l})
  BY <1>1
<1> HIDE DEF S
<1>3. g \in Seq(S \cup {l})
  BY <1>2
<1> HIDE DEF g
<1>4. \A i \in DOMAIN g : g[i] \in S \cup {l}
  BY <1>3
<1>5. g \in Seq({g[i] : i \in DOMAIN g})
  BY <1>3
<1>6. Trail(g)
  BY <1>1, <1>4, <1>5 DEF Trail
<1> QED BY <1>6 DEF g

\* The last link is taken.
LEMMA TrailShrinks ==
  ASSUME NEW h, Trail(h), h # <<>>
  PROVE  Linked(h[Len(h)]) /\ Trail(SubSeq(h, 1, Len(h) - 1))
<1> DEFINE S == {h[i] : i \in DOMAIN h}
           g == SubSeq(h, 1, Len(h) - 1)
<1>1. h \in Seq(S) /\ \A x \in S : Linked(x)
  BY DEF Trail
<1> HIDE DEF S
<1>2. Len(h) \in Nat \ {0} /\ \A i \in 1..Len(h) : h[i] \in S
  BY <1>1
<1>3. g \in Seq(S)
  <2>1. 1 \in Int /\ Len(h) - 1 \in Int /\ \A i \in 1..(Len(h) - 1) : h[i] \in S
    BY <1>2
  <2> QED BY <2>1, SubSeqProperties
<1> HIDE DEF g
<1>4. \A i \in DOMAIN g : g[i] \in S
  BY <1>3
<1>5. g \in Seq({g[i] : i \in DOMAIN g})
  BY <1>3
<1>6. Trail(g) /\ Linked(h[Len(h)])
  BY <1>1, <1>2, <1>4, <1>5 DEF Trail
<1> QED BY <1>6 DEF g

\* Keys.
LEMMA TableKey ==
  ASSUME TableInv, model.end = "no", T!Key
  PROVE  TableInv'
<1>0. DOMAIN model = TableFields /\ model.page \in Nat /\ model.term \in T!Terms
  BY DEF TableInv, Placed
<1>1. CASE T!Move
  <2>1. PICK i \in 0..(T!Length(model.rows) - 1) : model' = [model EXCEPT !.cursor = i] /\ UNCHANGED cmds
    BY <1>1 DEF T!Move, T!Show
  <2>2. T!Length(model.rows) \in Nat
    <3>1. CASE model.rows = T!NoRows
      BY <3>1 DEF T!Length
    <3>2. ASSUME NEW p \in Nat, NEW t \in T!Terms, model.rows = RowsAt(p, t) PROVE T!Length(model.rows) \in Nat
      BY <3>2, RowsFacts
    <3> QED BY <3>1, <3>2 DEF TableInv, Placed
  <2>3. i \in Nat /\ i < T!Length(model.rows)
    BY <2>2
  <2>4. /\ DOMAIN model' = TableFields /\ model'.cursor = i
        /\ \A x \in TableFields \ {"cursor"} : model'[x] = model[x]
    BY <1>0, <2>1 DEF TableFields
  <2>5. Placed'
    BY <2>3, <2>4 DEF TableInv, Placed, TableFields
  <2>6. T!PageOf(model)' = T!PageOf(model) /\ T!DetailOf(model)' = T!DetailOf(model) /\ (\A kind : T!Running(kind)' <=> T!Running(kind))
    BY <2>1, <2>4 DEF T!PageOf, T!DetailOf, T!Running, TableFields
  <2>7. Commanded'
    BY <2>1 DEF TableInv, Commanded
  <2>8. PagesFollow'
    BY <2>1, <2>4, <2>6 DEF TableInv, PagesFollow, T!RowsAreAsked, TableFields
  <2>9. DetailsFollow'
    BY <2>1, <2>4, <2>6 DEF TableInv, DetailsFollow, Told, T!Readable, TableFields
  <2>10. Restorable' /\ Opened'
    <3>1. ~model.detail
      BY <1>1 DEF T!Move, T!InList
    <3> QED BY <2>4, <3>1 DEF TableInv, Restorable, Opened, TableFields
  <2> QED BY <2>5, <2>7, <2>8, <2>9, <2>10 DEF TableInv, DetailsFollow
<1>2. CASE T!Right
  <2> DEFINE m == [model EXCEPT !.page = @ + 1]
  <2>1. DOMAIN m = TableFields /\ m.page = model.page + 1 /\ \A x \in TableFields \ {"page"} : m[x] = model[x]
    BY <1>0 DEF TableFields
  <2>2. model.page + 1 \in Nat
    BY <1>0
  <2>3. T!InList /\ T!Fetch(m)
    BY <1>2 DEF T!Right
  <2> HIDE DEF m
  <2>4. m.term = model.term
    BY <2>1 DEF TableFields
  <2> QED BY <1>0, <2>1, <2>2, <2>3, <2>4, FetchKeeps
<1>3. CASE T!Left
  <2> DEFINE m == [model EXCEPT !.page = @ - 1]
  <2>1. DOMAIN m = TableFields /\ m.page = model.page - 1 /\ \A x \in TableFields \ {"page"} : m[x] = model[x]
    BY <1>0 DEF TableFields
  <2>2. model.page - 1 \in Nat
    BY <1>0, <1>3 DEF T!Left
  <2>3. T!InList /\ T!Fetch(m)
    BY <1>3 DEF T!Left
  <2> HIDE DEF m
  <2>4. m.term = model.term
    BY <2>1 DEF TableFields
  <2> QED BY <1>0, <2>1, <2>2, <2>3, <2>4, FetchKeeps
<1>4. CASE T!Open
  <2> DEFINE i == T!ItemAt(model.rows, model.cursor)
             m == [model EXCEPT !.detail = TRUE, !.id = i, !.shown = T!NoItem]
  <2>1. T!Read(m) /\ ~model.loading /\ T!Length(model.rows) > 0 /\ i = T!ItemAt(model.rows, model.cursor)
    BY <1>4 DEF T!Open
  <2> HIDE DEF i
  <2>2. DOMAIN m = TableFields /\ m.detail = TRUE /\ m.id = i /\ m.shown = T!NoItem
        /\ \A x \in TableFields \ {"detail", "id", "shown"} : m[x] = model[x]
    BY <1>0 DEF TableFields
  <2> HIDE DEF m
  <2> QED BY <2>1, <2>2, ReadKeeps
<1>5. CASE T!Search
  <2>1. PICK t \in T!Terms : T!InList /\ T!Fetch([model EXCEPT !.term = t, !.page = 0])
    BY <1>5 DEF T!Search
  <2> DEFINE m == [model EXCEPT !.term = t, !.page = 0]
  <2>2. DOMAIN m = TableFields /\ m.page = 0 /\ m.term = t /\ \A x \in TableFields \ {"page", "term"} : m[x] = model[x]
    BY <1>0 DEF TableFields
  <2>3. T!Fetch(m)
    BY <2>1
  <2> HIDE DEF m
  <2>4. 0 \in Nat
    OBVIOUS
  <2> QED BY <2>1, <2>2, <2>3, <2>4, FetchKeeps
<1>6. CASE T!Columns
  BY <1>0, <1>6, FetchKeeps DEF T!Columns
<1>7. CASE T!Close
  <2>1. /\ model.detail /\ model.screen = "table" /\ UNCHANGED cmds
        /\ model' = [model EXCEPT !.detail = FALSE, !.id = T!NoItem, !.shown = T!NoItem, !.reading = FALSE, !.broken = FALSE]
    BY <1>7 DEF T!Close, T!Show, T!Closed
  <2>2. /\ DOMAIN model' = TableFields /\ model'.detail = FALSE /\ model'.reading = FALSE
        /\ \A x \in TableFields \ {"detail", "id", "shown", "reading", "broken"} : model'[x] = model[x]
    BY <1>0, <2>1 DEF TableFields
  <2>3. Placed'
    BY <2>1, <2>2 DEF TableInv, Placed, TableFields
  <2>4. T!PageOf(model)' = T!PageOf(model) /\ (\A kind : T!Running(kind)' <=> T!Running(kind))
    BY <2>1, <2>2 DEF T!PageOf, T!Running, TableFields
  <2>5. Commanded'
    BY <2>1 DEF TableInv, Commanded
  <2>6. PagesFollow'
    BY <2>1, <2>2, <2>4 DEF TableInv, PagesFollow, T!RowsAreAsked, TableFields
  <2>7. DetailsFollow'
    BY <2>2 DEF DetailsFollow, Told, T!Readable
  <2>8. Restorable' /\ Opened'
    BY <2>2 DEF TableInv, Restorable, Opened, TableFields
  <2> QED BY <2>3, <2>5, <2>6, <2>7, <2>8 DEF TableInv, DetailsFollow
<1>8. CASE T!OtherText
  <2>1. model.detail = TRUE
    BY <1>8 DEF T!OtherText, T!Readable, TableInv, Placed
  <2> QED BY <1>0, <1>8, <2>1, ReadKeeps DEF T!OtherText
<1>9. CASE T!Follow
  <2> DEFINE h == Append(model.history, T!Link(model))
  <2>1. Linked(T!Link(model))
    BY <1>9, LinkFacts DEF T!Follow
  <2>2. Trail(h)
    BY <2>1, TrailGrows DEF TableInv, Placed
  <2>3. 0 \in Nat /\ NoSearch \in T!Terms
    BY TableAssumption DEF T!Terms
  <2> HIDE DEF h
  <2>4. \/ T!Leave(T!Table(0, NoSearch, h, T!Nowhere, model.totals), T!PageOf(T!Table(0, NoSearch, h, T!Nowhere, model.totals)))
        \/ T!Leave(T!DetailOnly(model.shown, [model EXCEPT !.history = h]), T!DetailOf(T!DetailOnly(model.shown, [model EXCEPT !.history = h])))
    BY <1>9 DEF T!Follow, h
  <2>5. ~Sure(T!Nowhere)
    BY DEF Sure
  <2>6. CASE T!Leave(T!Table(0, NoSearch, h, T!Nowhere, model.totals), T!PageOf(T!Table(0, NoSearch, h, T!Nowhere, model.totals)))
    BY <2>2, <2>3, <2>5, <2>6, TableKeeps
  <2> QED BY <2>2, <2>4, <2>6, DetailKeeps
<1>10. CASE T!Back
  <2> DEFINE n == Len(model.history)
             link == model.history[n]
             rest == SubSeq(model.history, 1, n - 1)
  <2>1. Linked(link) /\ Trail(rest)
    BY <1>10, TrailShrinks DEF T!Back, TableInv, Placed
  <2> HIDE DEF rest, link
  <2>3. CASE link.screen = "table"
    <3>1. T!Leave(T!Table(link.offset, link.term, rest, link.back, model.totals),
                T!PageOf(T!Table(link.offset, link.term, rest, link.back, model.totals)))
      BY <1>10, <2>3 DEF T!Back, link, rest
    <3> QED BY <2>1, <3>1, TableKeeps DEF Linked
  <2>4. CASE link.screen = "detail"
    <3>1. T!Leave(T!DetailOnly(link.id, [model EXCEPT !.history = rest]), T!DetailOf(T!DetailOnly(link.id, [model EXCEPT !.history = rest])))
      BY <1>10, <2>4 DEF T!Back, link, rest
    <3> QED BY <2>1, <3>1, DetailKeeps
  <2> QED BY <2>1, <2>3, <2>4 DEF Linked
<1>11. CASE T!Quit
  <2>1. model'.end = "quit" /\ DOMAIN model' = TableFields /\ \A x \in TableFields \ {"end"} : model'[x] = model[x]
    BY <1>0, <1>11 DEF T!Quit, TableFields
  <2>2. Placed'
    BY <2>1 DEF TableInv, Placed, TableFields
  <2>3. Told'
    BY <2>1 DEF TableInv, Told, T!Readable, TableFields
  <2> QED BY <2>1, <2>2, <2>3 DEF TableInv
<1> QED BY <1>1, <1>2, <1>3, <1>4, <1>5, <1>6, <1>7, <1>8, <1>9, <1>10, <1>11 DEF T!Key
\* Pages and details that arrive.
LEMMA TablePage ==
  ASSUME TableInv, model.end = "no", NEW c \in cmds, T!PageDone(c)
  PROVE  TableInv'
<1>0. DOMAIN model = TableFields /\ model.restore \in Nat /\ model.page \in Nat /\ model.screen = "table"
      /\ (model.screen = "detail" => ~T!Running("page")) /\ c.kind = "page"
      /\ c.page \in Nat /\ c.term \in T!Terms /\ cmds' = cmds \ {c}
  BY DEF TableInv, Placed, Commanded, PagesFollow, T!PageDone, T!Running
<1>1. Commanded'
  BY <1>0 DEF TableInv, Commanded
<1>2. T!Running("detail")' <=> T!Running("detail")
  BY <1>0 DEF T!Running
<1>3. CASE model' = [model EXCEPT !.loading = FALSE, !.failed = TRUE]
  <2>1. /\ DOMAIN model' = TableFields /\ model'.loading = FALSE /\ model'.failed = TRUE
        /\ \A x \in TableFields \ {"loading", "failed"} : model'[x] = model[x]
    BY <1>0, <1>3 DEF TableFields
  <2>2. Placed'
    BY <2>1 DEF TableInv, Placed, TableFields
  <2>3. T!PageOf(model)' = T!PageOf(model)
    BY <2>1 DEF T!PageOf, TableFields
  <2>4. PagesFollow'
    <3>1. ~model'.pagesCross => ~T!Running("page")'
      BY <1>0, <2>1 DEF TableInv, PagesFollow, TableFields, T!Running
    <3> QED BY <1>0, <2>1, <2>3, <3>1 DEF TableInv, PagesFollow, T!RowsAreAsked, TableFields
  <2>5. DetailsFollow'
    <3>1. T!DetailOf(model)' = T!DetailOf(model)
      BY <2>1 DEF T!DetailOf, TableFields
    <3> QED BY <1>0, <1>2, <2>1, <3>1 DEF TableInv, DetailsFollow, Told, T!Readable, TableFields
  <2>6. Restorable' /\ Opened'
    <3>1. ~(model.detail /\ ~model.pagesCross)
      BY <1>0 DEF TableInv, Opened, T!Running
    <3> QED BY <2>1, <3>1 DEF TableInv, Restorable, Opened, TableFields
  <2> QED BY <1>1, <2>2, <2>4, <2>5, <2>6 DEF TableInv, DetailsFollow
<1>4. ASSUME NEW b, model' = [model EXCEPT !.loading = FALSE, !.rows = T!RowsOf(c), !.restored = TRUE, !.restore = 0,
        !.cursor = IF model.restored THEN 0 ELSE T!Least(model.restore, T!Most(T!Length(T!RowsOf(c)) - 1, 0)),
        !.failed = FALSE, !.last = b]
      PROVE TableInv'
  <2>1. /\ DOMAIN model' = TableFields /\ model'.loading = FALSE /\ model'.failed = FALSE /\ model'.rows = T!RowsOf(c)
        /\ model'.restored = TRUE /\ model'.restore = 0
        /\ model'.cursor = IF model.restored THEN 0 ELSE T!Least(model.restore, T!Most(T!Length(T!RowsOf(c)) - 1, 0))
        /\ \A x \in TableFields \ {"loading", "failed", "rows", "restored", "restore", "cursor", "last"} : model'[x] = model[x]
    BY <1>0, <1>4 DEF TableFields
  <2>2. T!RowsOf(c) = RowsAt(c.page, c.term)
    BY DEF T!RowsOf, RowsAt
  <2>3. T!Length(T!RowsOf(c)) \in Nat /\ model'.rows.page = c.page /\ model'.rows.term = c.term
    BY <1>0, <2>1, <2>2, RowsFacts
  <2>4. model'.cursor \in Nat /\ (T!Length(T!RowsOf(c)) > 0 => model'.cursor < T!Length(T!RowsOf(c)))
    BY <1>0, <2>1, <2>3 DEF T!Least, T!Most
  <2>5. Placed'
    <3>1. (T!Length(model.rows) > 0 => model.cursor < T!Length(model.rows))'
      BY <2>1, <2>4
    <3>2. \E p \in Nat, t \in T!Terms : model'.rows = RowsAt(p, t)
      BY <1>0, <2>1, <2>2
    <3>3. model'.restored \in BOOLEAN
      BY <2>1
    <3>4. model'.restore \in Nat
      BY <2>1
    <3> QED BY <2>1, <2>4, <3>1, <3>2, <3>3, <3>4 DEF TableInv, Placed, TableFields
  <2>6. T!PageOf(model)' = T!PageOf(model) /\ (~model.pagesCross => c = T!PageOf(model))
    BY <1>0, <2>1 DEF T!PageOf, TableFields, TableInv, PagesFollow
  <2>7. PagesFollow'
    <3>1. ~model'.pagesCross => \A d \in cmds' : d.kind = "page" => d = T!PageOf(model)'
      BY <1>0, <2>1, <2>6 DEF TableInv, PagesFollow, TableFields
    <3>2. ~model'.pagesCross => model'.rows.page = model'.page /\ model'.rows.term = model'.term
      BY <2>1, <2>3, <2>6 DEF T!PageOf, TableFields
    <3>3. ~model'.pagesCross => ~T!Running("page")'
      BY <1>0, <2>1, <2>6 DEF TableInv, PagesFollow, TableFields, T!Running
    <3> QED BY <1>0, <2>1, <3>1, <3>2, <3>3 DEF PagesFollow, T!RowsAreAsked, TableFields
  <2>8. DetailsFollow'
    <3>1. T!DetailOf(model)' = T!DetailOf(model)
      BY <2>1 DEF T!DetailOf, TableFields
    <3> QED BY <1>0, <1>2, <2>1, <3>1 DEF TableInv, DetailsFollow, Told, T!Readable, TableFields
  <2>9. Restorable' /\ Opened'
    <3>1. ~(model.detail /\ ~model.pagesCross)
      BY <1>0 DEF TableInv, Opened, T!Running
    <3> QED BY <2>1, <3>1 DEF Restorable, Opened, TableFields
  <2> QED BY <1>1, <2>5, <2>7, <2>8, <2>9 DEF TableInv, DetailsFollow
<1>5. \/ model' = [model EXCEPT !.loading = FALSE, !.failed = TRUE]
      \/ \E b : model' = [model EXCEPT !.loading = FALSE, !.rows = T!RowsOf(c), !.restored = TRUE, !.restore = 0,
            !.cursor = IF model.restored THEN 0 ELSE T!Least(model.restore, T!Most(T!Length(T!RowsOf(c)) - 1, 0)),
            !.failed = FALSE, !.last = b]
  BY <1>0 DEF T!PageDone, T!Applied, TableFields
<1> QED BY <1>3, <1>4, <1>5

LEMMA TableDetail ==
  ASSUME TableInv, model.end = "no", NEW c \in cmds, T!DetailDone(c)
  PROVE  TableInv'
<1>0. DOMAIN model = TableFields /\ c.kind = "detail" /\ cmds' = cmds \ {c}
  BY DEF TableInv, Placed, T!DetailDone
<1>1. Commanded' /\ (T!Running("page")' <=> T!Running("page"))
  BY <1>0 DEF TableInv, Commanded, T!Running
<1>2. CASE ~model.detail
  <2>1. UNCHANGED model /\ ~model.reading
    BY <1>2 DEF T!DetailDone, TableInv, Placed
  <2>2. Placed' /\ Restorable' /\ Opened'
    BY <1>1, <2>1 DEF TableInv, Placed, Restorable, Opened
  <2>3. PagesFollow'
    BY <1>0, <1>1, <2>1 DEF TableInv, PagesFollow, T!RowsAreAsked, T!PageOf
  <2>4. DetailsFollow'
    BY <1>2, <2>1 DEF DetailsFollow, Told, T!Readable
  <2> QED BY <1>1, <2>2, <2>3, <2>4 DEF TableInv, DetailsFollow
<1>3. CASE model.detail
  <2>1. /\ DOMAIN model' = TableFields /\ model'.reading = FALSE
        /\ model'.broken = TRUE \/ model'.shown = c.id
        /\ \A x \in TableFields \ {"reading", "shown", "broken"} : model'[x] = model[x]
    <3>1. CASE model' = [model EXCEPT !.reading = FALSE, !.shown = c.id]
      BY <1>0, <3>1 DEF TableFields
    <3>2. CASE model' = [model EXCEPT !.reading = FALSE, !.broken = TRUE]
      BY <1>0, <3>2 DEF TableFields
    <3> QED BY <1>3, <3>1, <3>2 DEF T!DetailDone
  <2>2. Placed'
    <3>1. \A x \in {"screen", "page", "restore", "restored", "cursor", "term", "rows", "history", "detail", "pagesCross", "detailsCross"} :
            model'[x] = model[x]
      BY <2>1 DEF TableFields
    <3>2. {model'.restored, model'.detail, model'.reading, model'.pagesCross, model'.detailsCross} \subseteq BOOLEAN
      BY <2>1, <3>1 DEF TableInv, Placed
    <3>3. (T!Length(model.rows) > 0 => model.cursor < T!Length(model.rows))'
      BY <3>1 DEF TableInv, Placed
    <3>4. (model.screen = "detail" => model.detail)' /\ (~model.detail => ~model.reading)'
      BY <2>1, <3>1 DEF TableInv, Placed
    <3> QED BY <2>1, <3>1, <3>2, <3>3, <3>4 DEF TableInv, Placed
  <2>3. T!PageOf(model)' = T!PageOf(model) /\ T!DetailOf(model)' = T!DetailOf(model) /\ (~model.detailsCross => c = T!DetailOf(model))
    <3>1. model'.page = model.page /\ model'.term = model.term /\ model'.id = model.id
      BY <2>1 DEF TableFields
    <3>2. ~model.detailsCross => c = T!DetailOf(model)
      BY <1>0, <1>3 DEF TableInv, DetailsFollow
    <3> QED BY <3>1, <3>2 DEF T!PageOf, T!DetailOf
  <2>4. PagesFollow'
    BY <1>0, <1>1, <2>1, <2>3 DEF TableInv, PagesFollow, T!RowsAreAsked, TableFields
  <2>5. DetailsFollow'
    <3>1. ~model'.detailsCross /\ ~model'.broken => model'.shown = model'.id
      BY <2>1, <2>3 DEF T!DetailOf, TableFields
    <3>2. ~model'.detailsCross => \A d \in cmds' : d.kind = "detail" => d = T!DetailOf(model)'
      BY <1>0, <1>3, <2>1, <2>3 DEF TableInv, DetailsFollow, TableFields
    <3> QED BY <2>1, <3>1, <3>2 DEF DetailsFollow, Told, T!Readable
  <2>6. Restorable' /\ Opened'
    BY <1>1, <2>1 DEF TableInv, Restorable, Opened, TableFields
  <2> QED BY <1>1, <2>2, <2>4, <2>5, <2>6 DEF TableInv, DetailsFollow
<1> QED BY <1>2, <1>3

LEMMA TableStep == TableInv /\ T!Next => TableInv'
  BY TableKey, TablePage, TableDetail DEF T!Next, T!PageAnswers, T!DetailAnswers

\* The cursor is put back by the first rows alone.
LEMMA CursorStep == TableInv /\ T!Next => T!CursorIsBack
<1> SUFFICES ASSUME TableInv, T!Next, ~model.restored, model'.restored, Sure(model.expected)
             PROVE  T!ItemAt(model'.rows, model'.cursor) = model.expected.item
  BY DEF T!CursorIsBack, Sure
<1>0. DOMAIN model = TableFields /\ model.end = "no"
  BY DEF TableInv, Placed, T!Next
<1>1. ~T!Key
  <2>1. \A o, t, h, e, s : T!Table(o, t, h, e, s).restored = FALSE
    BY DEF T!Table
  <2>2. \A i, m : T!DetailOnly(i, m).restored = FALSE
    BY <2>1 DEF T!DetailOnly, T!Table
  <2>3. ASSUME T!Key PROVE model'.restored = FALSE
    <3>1. CASE T!Move \/ T!Close \/ T!Quit
      BY <1>0, <3>1 DEF T!Move, T!Close, T!Quit, T!Show, T!Closed, TableFields
    <3>2. CASE T!Right \/ T!Left \/ T!Search \/ T!Columns
      BY <1>0, <3>2 DEF T!Right, T!Left, T!Search, T!Columns, T!Fetch, TableFields
    <3>3. CASE T!Open \/ T!OtherText
      BY <1>0, <3>3 DEF T!Open, T!OtherText, T!Read, TableFields
    <3>4. CASE T!Follow
      BY <2>1, <2>2, <3>4 DEF T!Follow, T!Leave
    <3>5. CASE T!Back
      BY <2>1, <2>2, <3>5 DEF T!Back, T!Leave
    <3> QED BY <2>3, <3>1, <3>2, <3>3, <3>4, <3>5 DEF T!Key
  <2> QED BY <2>3
<1>2. ~T!DetailAnswers
  BY <1>0 DEF T!DetailAnswers, T!DetailDone, TableFields
<1>3. PICK c \in cmds : T!PageDone(c)
  BY <1>1, <1>2 DEF T!Next, T!PageAnswers
<1>4. /\ model.screen = "table" /\ ~model.pagesCross /\ model.expected.item = model.page * Size + model.restore + 1
      /\ model.restore < T!Length(RowsAt(model.page, model.term)) /\ c = T!PageOf(model)
      /\ model.page \in Nat /\ model.term \in T!Terms /\ model.restore \in Nat
  BY <1>0, <1>3 DEF TableInv, Restorable, PagesFollow, T!PageDone, Placed
<1>5. T!RowsOf(c) = RowsAt(model.page, model.term)
  BY <1>4 DEF T!RowsOf, RowsAt, T!PageOf
<1>6. T!Length(T!RowsOf(c)) \in Nat /\ T!RowsOf(c).page = model.page
  BY <1>4, <1>5, RowsFacts
<1>7. model'.rows = T!RowsOf(c) /\ model'.cursor = T!Least(model.restore, T!Most(T!Length(T!RowsOf(c)) - 1, 0))
  BY <1>0, <1>3 DEF T!PageDone, T!Applied, TableFields
<1>8. model'.cursor = model.restore
  BY <1>4, <1>5, <1>6, <1>7 DEF T!Least, T!Most
<1> QED BY <1>4, <1>6, <1>7, <1>8 DEF T!ItemAt

LEMMA TableSound == TableInv => T!RowsAreAsked /\ T!DetailsAreOfTheItem /\ T!LoadingEnds
  BY DEF TableInv, PagesFollow, DetailsFollow, Told, T!RowsAreAsked, T!DetailsAreOfTheItem, T!LoadingEnds

-----------------------------------------------------------------------------
\* The viewer: what its streams have brought is the beginning of their logs.
ViewerFields == {"state", "known", "selected", "tab", "cache", "stream", "loading", "shown", "over", "end", "upset", "before"}
Steps == [kind |-> "steps"]
Clock == [kind |-> "tick"]

Channel == [node : Nodes, sent : 0..Len(Whole), taken : 0..Len(Whole), open : BOOLEAN, cancelled : BOOLEAN]

\* What the viewer holds: a stream is of its step.
Shaped(m, w) ==
  /\ DOMAIN m = ViewerFields /\ m.selected \in Nodes \cup {None}
  /\ DOMAIN m.known = Nodes /\ DOMAIN m.cache = Nodes /\ DOMAIN m.stream = Nodes /\ DOMAIN m.before = Nodes
  /\ \A n \in Nodes : m.cache[n] \in Seq(Line) \cup {None} /\ m.before[n] \in Seq(Line)
  /\ DOMAIN w = {"status", "done", "chans"} /\ DOMAIN w.status = Nodes /\ w.done \in BOOLEAN /\ w.chans \in Seq(Channel)
  /\ \A n \in Nodes : m.stream[n] # 0 => m.stream[n] \in 1..Len(w.chans) /\ w.chans[m.stream[n]].node = n
  /\ \A n \in Nodes : m.known[n] = "ended" => w.status[n] = "ended"
  /\ \A i \in 1..Len(w.chans) : w.chans[i].taken <= w.chans[i].sent

\* The commands that run.
WaitOf(w, c) ==
  \E n \in Nodes, i \in 1..Len(w.chans) : (c = V!Wait(n, i, FALSE) \/ c = V!Wait(n, i, TRUE)) /\ w.chans[i].node = n
Given(w, q) == \A c \in q : c = Steps \/ c = Clock \/ (\E n \in Nodes : c = V!LogOf(n)) \/ WaitOf(w, c)

Panels(m) ==
  m.tab = "logs" /\ m.selected # None =>
    m.shown.node = m.selected /\ (m.shown.what = "log" => m.shown.text = m.cache[m.selected])

Held(m, w) ==
  \A i \in 1..Len(w.chans) :
    w.chans[i].open /\ ~w.chans[i].cancelled => m.end = "no" /\ m.stream[w.chans[i].node] = i

\* A stream has brought k lines after the text b; b is empty, or a stream before had brought all.
Brought(b, k) == b \o SubSeq(Whole, 1, k)
AfterAll(b) == b # <<>> => Len(b) >= Len(Whole) /\ SubSeq(b, Len(b) - Len(Whole) + 1, Len(b)) = Whole

\* The log of n, while n is not upset: what its stream has brought, and nothing else waits for its lines.
Faithful(m, w, q, n) ==
  /\ m.stream[n] # 0 => m.cache[n] = Brought(m.before[n], w.chans[m.stream[n]].taken)
  /\ m.stream[n] = 0 => m.cache[n] \in {None, Brought(m.before[n], Len(Whole))}
  /\ AfterAll(m.before[n])
  /\ \A c \in q : c.kind = "wait" /\ c.node = n => m.stream[n] # 0 /\ c = V!Wait(n, m.stream[n], FALSE)
  /\ V!LogOf(n) \in q => Whole = <<>> \/ (m.known[n] = "ended" /\ m.stream[n] = 0)

Polls(q) == {c \in q : c.kind \in {"steps", "tick"}}
Polled(m, q) ==
  IF m.over \/ m.state = "error" THEN Polls(q) = {} ELSE Polls(q) = {Steps} \/ Polls(q) = {Clock}

ViewerState(m, w, q) ==
  /\ Shaped(m, w) /\ Given(w, q) /\ Held(m, w)
  /\ \A n \in Nodes \ m.upset : Faithful(m, w, q, n)
  /\ m.end = "no" => Polled(m, q)

ViewerInv == ViewerState(model, world, cmds) /\ Panels(model)

-----------------------------------------------------------------------------
LEMMA Prefixes ==
  /\ Len(Whole) \in Nat /\ SubSeq(Whole, 1, 0) = <<>> /\ SubSeq(Whole, 1, Len(Whole)) = Whole
  /\ \A k \in 0..Len(Whole) : SubSeq(Whole, 1, k) \in Seq(Line) /\ Len(SubSeq(Whole, 1, k)) = k
  /\ \A k \in 0..(Len(Whole) - 1) : Whole[k + 1] \in Line /\ Append(SubSeq(Whole, 1, k), Whole[k + 1]) = SubSeq(Whole, 1, k + 1)
<1>1. Whole \in Seq(Line) /\ Len(Whole) \in Nat
  BY ViewerAssumption
<1>2. \A i \in 1..Len(Whole) : Whole[i] \in Line
  BY <1>1
<1>3. ASSUME NEW k \in 0..Len(Whole) PROVE /\ SubSeq(Whole, 1, k) \in Seq(Line) /\ Len(SubSeq(Whole, 1, k)) = k
                                           /\ \A i \in 1..k : SubSeq(Whole, 1, k)[i] = Whole[i]
  <2>1. k \in Nat /\ k <= Len(Whole) /\ 1 \in Int /\ \A i \in 1..k : Whole[i] \in Line
    BY <1>1, <1>2
  <2>2. SubSeq(Whole, 1, k) \in Seq(Line)
    BY <2>1, SubSeqProperties
  <2> QED BY <1>1, <2>1, <2>2
<1>4. SubSeq(Whole, 1, 0) = <<>>
  BY <1>1, <1>3
<1>5. SubSeq(Whole, 1, Len(Whole)) = Whole
  <2> DEFINE s == SubSeq(Whole, 1, Len(Whole))
  <2>1. s \in Seq(Line) /\ Len(s) = Len(Whole) /\ \A i \in 1..Len(s) : s[i] = Whole[i]
    BY <1>1, <1>3
  <2> HIDE DEF s
  <2>2. s = Whole
    BY <1>1, <2>1, SeqEqual
  <2> QED BY <2>2 DEF s
<1>6. ASSUME NEW k \in 0..(Len(Whole) - 1)
      PROVE  Whole[k + 1] \in Line /\ Append(SubSeq(Whole, 1, k), Whole[k + 1]) = SubSeq(Whole, 1, k + 1)
  <2> DEFINE s == SubSeq(Whole, 1, k)
             x == Whole[k + 1]
             t == SubSeq(Whole, 1, k + 1)
  <2>1. k \in 0..Len(Whole) /\ k + 1 \in 0..Len(Whole) /\ k + 1 \in 1..Len(Whole) /\ k \in Nat
    BY <1>1
  <2>2. s \in Seq(Line) /\ Len(s) = k /\ \A i \in 1..k : s[i] = Whole[i]
    BY <1>3, <2>1
  <2>3. t \in Seq(Line) /\ Len(t) = k + 1 /\ \A i \in 1..(k + 1) : t[i] = Whole[i]
    BY <1>3, <2>1
  <2>4. x \in Line /\ x = Whole[k + 1]
    BY <1>2, <2>1
  <2> HIDE DEF s, x, t
  <2>5. Append(s, x) \in Seq(Line) /\ Len(Append(s, x)) = k + 1 /\ Append(s, x)[k + 1] = x
        /\ \A i \in 1..k : Append(s, x)[i] = s[i]
    BY <2>1, <2>2, <2>4
  <2>6. \A i \in 1..(k + 1) : Append(s, x)[i] = t[i]
    BY <2>1, <2>2, <2>3, <2>4, <2>5
  <2>7. Append(s, x) = t
    BY <2>1, <2>3, <2>5, <2>6, SeqEqual
  <2> QED BY <2>4, <2>7 DEF s, x, t
<1> QED BY <1>1, <1>3, <1>4, <1>5, <1>6

\* What a stream brings.
LEMMA Bringing ==
  ASSUME NEW b \in Seq(Line)
  PROVE  /\ Brought(b, 0) = b /\ AfterAll(<<>>) /\ Brought(<<>>, Len(Whole)) = Whole
         /\ \A k \in 0..Len(Whole) : Brought(b, k) \in Seq(Line)
         /\ \A k \in 0..(Len(Whole) - 1) : Append(Brought(b, k), Whole[k + 1]) = Brought(b, k + 1)
         /\ AfterAll(Brought(b, Len(Whole))) /\ (Brought(b, Len(Whole)) = <<>> => Whole = <<>>)
<1>1. Whole \in Seq(Line) /\ Len(Whole) \in Nat /\ Len(b) \in Nat
  BY ViewerAssumption
<1>2. Brought(b, 0) = b /\ Brought(<<>>, Len(Whole)) = Whole /\ Brought(b, Len(Whole)) = b \o Whole
  BY <1>1, Prefixes DEF Brought
<1>3. ASSUME NEW k \in 0..Len(Whole) PROVE Brought(b, k) \in Seq(Line)
  <2>1. SubSeq(Whole, 1, k) \in Seq(Line)
    BY Prefixes
  <2> QED BY <2>1 DEF Brought
<1>4. ASSUME NEW k \in 0..(Len(Whole) - 1) PROVE Append(Brought(b, k), Whole[k + 1]) = Brought(b, k + 1)
  <2> DEFINE s == SubSeq(Whole, 1, k)
             x == Whole[k + 1]
  <2>1. k \in 0..Len(Whole)
    BY <1>1
  <2>2. s \in Seq(Line) /\ x \in Line /\ Append(s, x) = SubSeq(Whole, 1, k + 1)
    BY <2>1, Prefixes
  <2> HIDE DEF s, x
  <2>3. Append(b \o s, x) = b \o Append(s, x)
    <3>1. b \o s \in Seq(Line) /\ Append(s, x) \in Seq(Line) /\ Len(s) \in Nat
      BY <2>2
    <3>2. Append(b \o s, x) \in Seq(Line) /\ b \o Append(s, x) \in Seq(Line)
      BY <2>2, <3>1
    <3>3. Len(Append(b \o s, x)) = Len(b) + Len(s) + 1 /\ Len(b \o Append(s, x)) = Len(b) + Len(s) + 1
      BY <1>1, <2>2, <3>1
    <3>4. \A i \in 1..(Len(b) + Len(s) + 1) : Append(b \o s, x)[i] = (b \o Append(s, x))[i]
      BY <1>1, <2>2, <3>1
    <3> QED BY <3>2, <3>3, <3>4, SeqEqual
  <2> QED BY <2>2, <2>3 DEF Brought, s, x
<1>5. AfterAll(b \o Whole) /\ (b \o Whole = <<>> => Whole = <<>>)
  <2> DEFINE t == b \o Whole
             l == Len(b) + 1
             r == Len(t)
  <2>1. t \in Seq(Line) /\ Len(t) = Len(b) + Len(Whole) /\ \A i \in 1..Len(Whole) : t[Len(b) + i] = Whole[i]
    BY <1>1
  <2>2. t = <<>> => Whole = <<>>
    BY <1>1, <2>1
  <2> HIDE DEF t
  <2>3. l \in Int /\ r \in Int /\ r - l + 1 = Len(Whole) /\ l = Len(t) - Len(Whole) + 1 /\ \A i \in l..r : t[i] \in Line
    BY <1>1, <2>1
  <2>4. /\ SubSeq(t, l, r) \in Seq(Line) /\ Len(SubSeq(t, l, r)) = Len(Whole)
        /\ \A i \in 1..Len(Whole) : SubSeq(t, l, r)[i] = t[l + i - 1]
    <3> HIDE DEF l, r
    <3>1. SubSeq(t, l, r) \in Seq(Line) /\ Len(SubSeq(t, l, r)) = IF l <= r THEN r - l + 1 ELSE 0
      BY <2>3, SubSeqProperties
    <3>2. Len(SubSeq(t, l, r)) = Len(Whole)
      BY <1>1, <2>3, <3>1
    <3>3. \A i \in 1..(r - l + 1) : SubSeq(t, l, r)[i] = t[l + i - 1]
      BY <2>1, <2>3, SubSeqProperties
    <3> QED BY <2>3, <3>1, <3>2, <3>3
  <2>5. \A i \in 1..Len(Whole) : SubSeq(t, l, r)[i] = Whole[i]
    <3>1. \A i \in 1..Len(Whole) : l + i - 1 = Len(b) + i
      BY <1>1
    <3> HIDE DEF l, r
    <3> QED BY <2>1, <2>4, <3>1
  <2>6. SubSeq(t, l, r) = Whole
    <3> HIDE DEF l, r
    <3> QED BY <1>1, <2>4, <2>5, SeqEqual
  <2>7. SubSeq(t, Len(t) - Len(Whole) + 1, Len(t)) = Whole /\ Len(t) >= Len(Whole)
    BY <1>1, <2>1, <2>3, <2>6
  <2> QED BY <2>2, <2>7 DEF AfterAll, t
<1> QED BY <1>2, <1>3, <1>4, <1>5 DEF AfterAll

\* A channel is added.
LEMMA OneMore ==
  ASSUME NEW S, NEW s \in Seq(S), NEW x \in S
  PROVE  /\ Append(s, x) \in Seq(S) /\ Len(Append(s, x)) = Len(s) + 1 /\ Len(s) \in Nat
         /\ Append(s, x)[Len(s) + 1] = x /\ \A i \in 1..Len(s) : Append(s, x)[i] = s[i]
OBVIOUS

LEMMA ViewerInit == V!Init => ViewerInv
<1> SUFFICES ASSUME V!Init PROVE ViewerInv
  OBVIOUS
<1>1. /\ DOMAIN model = ViewerFields /\ model.selected = None /\ model.known = [n \in Nodes |-> "unseen"]
      /\ model.cache = [n \in Nodes |-> None] /\ model.stream = [n \in Nodes |-> 0] /\ model.over = FALSE
      /\ model.state = "loading" /\ model.upset = {} /\ model.end = "no"
      /\ model.before = [n \in Nodes |-> <<>>]
  BY DEF V!Init, ViewerFields
<1>2. world.chans = <<>> /\ world.done = FALSE /\ DOMAIN world = {"status", "done", "chans"} /\ DOMAIN world.status = Nodes /\ cmds = {Steps}
  BY DEF V!Init, Steps
<1>3. Shaped(model, world)
  <2>1. world.chans \in Seq(Channel) /\ Len(world.chans) = 0
    BY <1>2
  <2>2. \A n \in Nodes : model.known[n] # "ended" /\ model.stream[n] = 0 /\ model.cache[n] = None /\ model.before[n] = <<>>
    BY <1>1
  <2>3. \A n \in Nodes : model.cache[n] \in Seq(Line) \cup {None} /\ model.before[n] \in Seq(Line)
    <3>1. <<>> \in Seq(Line)
      OBVIOUS
    <3> QED BY <2>2, <3>1
  <2>4. /\ DOMAIN model.known = Nodes /\ DOMAIN model.cache = Nodes /\ DOMAIN model.stream = Nodes
        /\ DOMAIN model.before = Nodes /\ model.selected \in Nodes \cup {None} /\ world.done \in BOOLEAN
    BY <1>1, <1>2
  <2>5. \A i \in 1..Len(world.chans) : world.chans[i].taken <= world.chans[i].sent
    BY <2>1
  <2> QED BY <1>1, <1>2, <2>1, <2>2, <2>3, <2>4, <2>5 DEF Shaped
<1>4. Given(world, cmds) /\ Steps.kind = "steps"
  BY <1>2 DEF Given, Steps
<1>5. Held(model, world)
  BY <1>2 DEF Held
<1>6. ASSUME NEW n \in Nodes PROVE Faithful(model, world, cmds, n)
  <2>1. V!LogOf(n).kind = "log"
    BY DEF V!LogOf
  <2>2. AfterAll(model.before[n])
    BY <1>1 DEF AfterAll
  <2> QED BY <1>1, <1>2, <1>4, <2>1, <2>2 DEF Faithful
<1>7. Polled(model, cmds)
  <2>1. Polls(cmds) = {Steps}
    BY <1>2, <1>4 DEF Polls
  <2> QED BY <1>1, <2>1 DEF Polled
<1>8. Panels(model)
  BY <1>1 DEF Panels
<1> QED BY <1>3, <1>4, <1>5, <1>6, <1>7, <1>8 DEF ViewerInv, ViewerState

-----------------------------------------------------------------------------
\* What maybeLoadLog does: it shows something and perhaps asks for the log, or it opens a stream.
Shows(m, w, left) ==
  /\ world' = w /\ \A x \in ViewerFields \ {"shown", "loading"} : model'[x] = m[x]
  /\ \/ cmds' = left
     \/ /\ cmds' = left \cup {V!LogOf(m.selected)} /\ m.selected \in Nodes
        /\ m.known[m.selected] = "ended" /\ m.cache[m.selected] = None

Streams(m, w, left) ==
  /\ m.selected \in Nodes /\ m.known[m.selected] # "ended" /\ m.stream[m.selected] = 0
  /\ world' = [w EXCEPT !.chans = V!Opened(m.selected, @)]
  /\ cmds' = left \cup {V!Wait(m.selected, Len(w.chans) + 1, FALSE)}
  /\ \A x \in ViewerFields \ {"shown", "loading", "stream", "cache", "before"} : model'[x] = m[x]
  /\ model'.stream = [m.stream EXCEPT ![m.selected] = Len(w.chans) + 1]
  /\ model'.cache = [m.cache EXCEPT ![m.selected] = IF @ = None THEN <<>> ELSE @]
  /\ model'.before = [m.before EXCEPT ![m.selected] = IF m.cache[m.selected] = None THEN <<>> ELSE m.cache[m.selected]]

LEMMA PanelFacts ==
  ASSUME NEW m, DOMAIN m = ViewerFields, NEW what, NEW text
  PROVE  /\ DOMAIN V!Panel(m, what, text) = ViewerFields
         /\ \A x \in ViewerFields \ {"shown"} : V!Panel(m, what, text)[x] = m[x]
         /\ V!Panel(m, what, text).shown.node = m.selected /\ V!Panel(m, what, text).shown.what = what
         /\ V!Panel(m, what, text).shown.text = text
BY DEF V!Panel, ViewerFields

LEMMA LoadOutcome ==
  ASSUME NEW m, NEW w, NEW left, Shaped(m, w), V!MaybeLoad(m, w, left)
  PROVE  DOMAIN model' = ViewerFields /\ Panels(model') /\ (Shows(m, w, left) \/ Streams(m, w, left))
<1> DEFINE n == m.selected
<1>0. DOMAIN m = ViewerFields /\ n \in Nodes \cup {None} /\ DOMAIN m.cache = Nodes /\ DOMAIN m.stream = Nodes
  BY DEF Shaped
<1>1. CASE m.tab # "logs" \/ n = None
  BY <1>0, <1>1 DEF V!MaybeLoad, Shows, Panels
<1>2. ASSUME m.tab = "logs", n \in Nodes, NEW what, NEW text, model' = V!Panel(m, what, text), what = "log" => text = m.cache[n]
      PROVE  /\ DOMAIN model' = ViewerFields /\ Panels(model')
             /\ \A x \in ViewerFields \ {"shown", "loading"} : model'[x] = m[x]
  <2>1. /\ DOMAIN model' = ViewerFields /\ \A x \in ViewerFields \ {"shown"} : model'[x] = m[x]
        /\ model'.shown.node = n /\ model'.shown.what = what /\ model'.shown.text = text
    BY <1>0, <1>2, PanelFacts
  <2>2. model'.tab = m.tab /\ model'.selected = n /\ model'.cache = m.cache
    BY <2>1 DEF ViewerFields
  <2> HIDE DEF n
  <2> QED BY <1>2, <2>1, <2>2 DEF Panels
<1>3. CASE m.tab = "logs" /\ n \in Nodes /\ n \in Silent
  <2>1. model' = V!Panel(m, "none", <<>>) /\ world' = w /\ cmds' = left
    BY <1>3, ViewerAssumption DEF V!MaybeLoad
  <2> QED BY <1>2, <1>3, <2>1 DEF Shows
<1>4. CASE m.tab = "logs" /\ n \in Nodes /\ n \notin Silent /\ m.known[n] = "ended"
  <2>1. CASE m.cache[n] # None
    <3>1. model' = V!Panel(m, "log", m.cache[n]) /\ world' = w /\ cmds' = left
      BY <1>4, <2>1, ViewerAssumption DEF V!MaybeLoad, V!ShowCache
    <3> QED BY <1>2, <1>4, <3>1 DEF Shows
  <2>2. CASE m.cache[n] = None
    <3> DEFINE k == [m EXCEPT !.loading = TRUE]
    <3>1. model' = V!Panel(k, "loading", <<>>) /\ world' = w /\ cmds' = left \cup {V!LogOf(n)}
      BY <1>4, <2>2, ViewerAssumption DEF V!MaybeLoad
    <3>2. DOMAIN k = ViewerFields /\ \A x \in ViewerFields \ {"loading"} : k[x] = m[x]
      BY <1>0 DEF ViewerFields
    <3> HIDE DEF k
    <3>3. /\ DOMAIN model' = ViewerFields /\ \A x \in ViewerFields \ {"shown"} : model'[x] = k[x]
          /\ model'.shown.node = k.selected /\ model'.shown.what = "loading"
      BY <3>1, <3>2, PanelFacts
    <3>4. \A x \in ViewerFields \ {"shown", "loading"} : model'[x] = m[x]
      BY <3>2, <3>3
    <3>5. Panels(model')
      <4>1. model'.selected = n /\ k.selected = n
        BY <3>2, <3>3 DEF ViewerFields
      <4> QED BY <3>3, <4>1 DEF Panels
    <3> QED BY <1>4, <2>2, <3>1, <3>3, <3>4, <3>5 DEF Shows
  <2> QED BY <2>1, <2>2
<1>5. CASE m.tab = "logs" /\ n \in Nodes /\ n \notin Silent /\ m.known[n] # "ended"
  <2> DEFINE what == IF m.cache[n] # None THEN "log" ELSE "connecting"
             text == IF m.cache[n] # None THEN m.cache[n] ELSE <<>>
             p == V!Panel(m, what, text)
  <2>1. p = IF m.cache[n] # None THEN V!ShowCache(m) ELSE V!Panel(m, "connecting", <<>>)
    BY DEF V!ShowCache
  <2>2. IF m.stream[n] # 0 THEN model' = p /\ world' = w /\ cmds' = left ELSE V!Start(p, n, w, left)
    BY <1>5, <2>1, ViewerAssumption DEF V!MaybeLoad
  <2>3. what = "log" => text = m.cache[n] /\ m.cache[n] # None
    OBVIOUS
  <2>4. CASE m.stream[n] # 0
    <3> HIDE DEF what, text
    <3> QED BY <1>2, <1>5, <2>2, <2>3, <2>4 DEF Shows
  <2>5. CASE m.stream[n] = 0
    <3>1. /\ DOMAIN p = ViewerFields /\ \A x \in ViewerFields \ {"shown"} : p[x] = m[x]
          /\ p.shown.node = n /\ p.shown.what = what /\ p.shown.text = text
      <4> HIDE DEF what, text
      <4> QED BY <1>0, PanelFacts
    <3>2. V!Start(p, n, w, left)
      BY <2>2, <2>5
    <3> HIDE DEF p
    <3>3. p.stream = m.stream /\ p.cache = m.cache /\ p.before = m.before /\ p.selected = n /\ p.tab = m.tab
      BY <3>1 DEF ViewerFields
    <3> DEFINE ch == Len(w.chans) + 1
    <3>4. /\ world' = [w EXCEPT !.chans = V!Opened(n, @)] /\ cmds' = left \cup {V!Wait(n, ch, FALSE)}
          /\ model' = [p EXCEPT !.stream[n] = ch, !.cache[n] = IF @ = None THEN <<>> ELSE @,
                                !.before[n] = IF m.cache[n] = None THEN <<>> ELSE m.cache[n]]
      BY <3>2, <3>3 DEF V!Start
    <3> HIDE DEF ch, n, what, text
    <3>5. /\ DOMAIN model' = ViewerFields
          /\ \A x \in ViewerFields \ {"stream", "cache", "before"} : model'[x] = p[x]
          /\ model'.stream = [p.stream EXCEPT ![n] = ch]
          /\ model'.cache = [p.cache EXCEPT ![n] = IF @ = None THEN <<>> ELSE @]
          /\ model'.before = [p.before EXCEPT ![n] = IF m.cache[n] = None THEN <<>> ELSE m.cache[n]]
      BY <3>1, <3>4 DEF ViewerFields
    <3>6. Panels(model')
      <4>1. model'.selected = n /\ model'.shown = p.shown
        BY <3>3, <3>5 DEF ViewerFields
      <4>2. what = "log" => model'.cache[n] = m.cache[n]
        BY <1>0, <1>5, <2>3, <3>3, <3>5
      <4> QED BY <2>3, <3>1, <4>1, <4>2 DEF Panels
    <3>7. Streams(m, w, left)
      <4>1. \A x \in ViewerFields \ {"shown", "loading", "stream", "cache", "before"} : model'[x] = m[x]
        BY <3>1, <3>5
      <4> QED BY <1>5, <2>5, <3>3, <3>4, <3>5, <4>1 DEF Streams, ch, n
    <3> QED BY <3>5, <3>6, <3>7
  <2> QED BY <2>4, <2>5
<1> QED BY <1>0, <1>1, <1>3, <1>4, <1>5


LEMMA CommandFacts ==
  ASSUME NEW n, NEW i, NEW t
  PROVE  /\ V!LogOf(n).kind = "log" /\ V!LogOf(n).node = n
         /\ V!Wait(n, i, t).kind = "wait" /\ V!Wait(n, i, t).node = n /\ V!Wait(n, i, t).chan = i /\ V!Wait(n, i, t).twin = t
         /\ Steps.kind = "steps" /\ Clock.kind = "tick"
BY DEF V!LogOf, V!Wait, Steps, Clock

\* A command that is neither poll leaves the polls alone.
LEMMA PollsStay ==
  ASSUME NEW q, NEW c, c.kind \notin {"steps", "tick"}
  PROVE  Polls(q \cup {c}) = Polls(q) /\ Polls(q \ {c}) = Polls(q)
BY DEF Polls

LEMMA ShowsKeeps ==
  ASSUME NEW m, NEW w, NEW left, ViewerState(m, w, left), Shows(m, w, left), DOMAIN model' = ViewerFields
  PROVE  ViewerState(model', world', cmds')
<1>0. /\ world' = w /\ model'.known = m.known /\ model'.selected = m.selected /\ model'.cache = m.cache
      /\ model'.stream = m.stream /\ model'.over = m.over /\ model'.end = m.end /\ model'.upset = m.upset /\ model'.state = m.state
      /\ model'.before = m.before
  BY DEF Shows, ViewerFields
<1>1. Shaped(model', world')
  BY <1>0 DEF ViewerState, Shaped
<1>2. Held(model', world')
  BY <1>0 DEF ViewerState, Held
<1>3. CASE cmds' = left
  <2>1. Given(world', cmds')
    BY <1>0, <1>3 DEF ViewerState
  <2>2. \A n \in Nodes \ model'.upset : Faithful(model', world', cmds', n)
    <3> SUFFICES ASSUME NEW n \in Nodes \ m.upset PROVE Faithful(model', world', cmds', n)
      BY <1>0
    <3>1. Faithful(m, w, left, n)
      BY DEF ViewerState
    <3> QED BY <1>0, <1>3, <3>1 DEF Faithful
  <2>3. model'.end = "no" => Polled(model', cmds')
    BY <1>0, <1>3 DEF ViewerState, Polled
  <2> QED BY <1>1, <1>2, <2>1, <2>2, <2>3 DEF ViewerState
<1>4. ASSUME NEW k \in Nodes, cmds' = left \cup {V!LogOf(k)}, m.known[k] = "ended", m.cache[k] = None
      PROVE  ViewerState(model', world', cmds')
  <2>1. Given(world', cmds')
    BY <1>0, <1>4 DEF ViewerState, Given
  <2>2. ASSUME NEW n \in Nodes \ model'.upset PROVE Faithful(model', world', cmds', n)
    <3>1. Faithful(m, w, left, n)
      BY <1>0 DEF ViewerState
    <3>2. \A c \in cmds' : c.kind = "wait" => c \in left
      BY <1>4, CommandFacts
    <3>3. ASSUME V!LogOf(n) \in cmds', V!LogOf(n) \notin left PROVE m.known[n] = "ended" /\ m.stream[n] = 0
      <4>1. n = k
        BY <1>4, <3>3, CommandFacts
      <4>2. m.stream[n] # 0 => m.cache[n] \in Seq(Line)
        <5> SUFFICES ASSUME m.stream[n] # 0 PROVE m.cache[n] \in Seq(Line)
          OBVIOUS
        <5>1. m.stream[n] \in 1..Len(w.chans) /\ w.chans \in Seq(Channel)
          BY DEF ViewerState, Shaped
        <5>2. w.chans[m.stream[n]] \in Channel
          BY <5>1
        <5>3. w.chans[m.stream[n]].taken \in 0..Len(Whole)
          BY <5>2 DEF Channel
        <5>4. m.before[n] \in Seq(Line)
          BY DEF ViewerState, Shaped
        <5> QED BY <3>1, <5>3, <5>4, Bringing DEF Faithful
      <4> QED BY <1>4, <4>1, <4>2, ViewerAssumption
    <3>4. \A c \in cmds' : c.kind = "wait" /\ c.node = n => model'.stream[n] # 0 /\ c = V!Wait(n, model'.stream[n], FALSE)
      BY <1>0, <3>1, <3>2 DEF Faithful
    <3>5. V!LogOf(n) \in cmds' => Whole = <<>> \/ (model'.known[n] = "ended" /\ model'.stream[n] = 0)
      BY <1>0, <3>1, <3>3 DEF Faithful
    <3> QED BY <1>0, <3>1, <3>4, <3>5 DEF Faithful
  <2>3. model'.end = "no" => Polled(model', cmds')
    <3>1. Polls(cmds') = Polls(left)
      <4>1. V!LogOf(k).kind \notin {"steps", "tick"}
        BY CommandFacts
      <4> QED BY <1>4, <4>1, PollsStay
    <3> QED BY <1>0, <3>1 DEF ViewerState, Polled
  <2> QED BY <1>1, <1>2, <2>1, <2>2, <2>3 DEF ViewerState
<1> QED BY <1>3, <1>4 DEF Shows

LEMMA StreamsKeeps ==
  ASSUME NEW m, NEW w, NEW left, ViewerState(m, w, left), m.end = "no", Streams(m, w, left), DOMAIN model' = ViewerFields
  PROVE  ViewerState(model', world', cmds')
<1> DEFINE k == m.selected
           ch == Len(w.chans) + 1
           new == [node |-> k, sent |-> 0, taken |-> 0, open |-> TRUE, cancelled |-> FALSE]
<1>0. Shaped(m, w) /\ Given(w, left) /\ Held(m, w) /\ k \in Nodes /\ m.stream[k] = 0 /\ m.known[k] # "ended"
      /\ w.chans \in Seq(Channel)
  BY DEF ViewerState, Streams, Shaped
<1>1. /\ model'.known = m.known /\ model'.selected = k /\ model'.over = m.over /\ model'.end = m.end /\ model'.state = m.state
      /\ model'.upset = m.upset
  BY DEF Streams, ViewerFields
<1>2. new \in Channel
  BY <1>0, Prefixes DEF Channel
<1>3. new.node = k /\ new.sent = 0 /\ new.taken = 0
  OBVIOUS
<1> HIDE DEF new
<1>4. world'.chans = Append(w.chans, new) /\ world'.status = w.status /\ world'.done \in BOOLEAN /\ DOMAIN world' = {"status", "done", "chans"}
  BY <1>0 DEF Streams, V!Opened, Shaped, new
<1>5. /\ world'.chans \in Seq(Channel) /\ Len(world'.chans) = ch /\ ch \in Nat /\ world'.chans[ch] = new
      /\ Len(w.chans) \in Nat
      /\ \A i \in 1..Len(w.chans) : world'.chans[i] = w.chans[i]
  BY <1>0, <1>2, <1>4, OneMore
<1> HIDE DEF ch
<1>6. ch = Len(w.chans) + 1 /\ ch # 0 /\ \A i \in 1..ch : i \in 1..Len(w.chans) \/ i = ch
  BY <1>5 DEF ch
<1>7. /\ DOMAIN model'.stream = Nodes /\ model'.stream[k] = ch /\ \A n \in Nodes \ {k} : model'.stream[n] = m.stream[n]
      /\ DOMAIN model'.cache = Nodes /\ model'.cache[k] = (IF m.cache[k] = None THEN <<>> ELSE m.cache[k])
      /\ \A n \in Nodes \ {k} : model'.cache[n] = m.cache[n] /\ model'.before[n] = m.before[n]
      /\ DOMAIN model'.before = Nodes /\ model'.before[k] = model'.cache[k]
      /\ cmds' = left \cup {V!Wait(k, ch, FALSE)}
  <2>1. DOMAIN m.stream = Nodes /\ DOMAIN m.cache = Nodes /\ DOMAIN m.before = Nodes
    BY <1>0 DEF Shaped
  <2> QED BY <1>0, <2>1 DEF Streams, ch
<1> HIDE DEF k
<1>8. \A n \in Nodes : m.cache[n] \in Seq(Line) \cup {None} /\ m.before[n] \in Seq(Line) /\ <<>> \in Seq(Line)
  BY <1>0 DEF Shaped
<1>9. Shaped(model', world')
  <2>1. ASSUME NEW n \in Nodes PROVE model'.cache[n] \in Seq(Line) \cup {None} /\ model'.before[n] \in Seq(Line)
    <3>1. CASE n = k
      BY <1>0, <1>7, <1>8, <3>1
    <3>2. CASE n # k
      BY <1>7, <1>8, <3>2
    <3> QED BY <3>1, <3>2
  <2>2. ASSUME NEW n \in Nodes, model'.stream[n] # 0
        PROVE  model'.stream[n] \in 1..Len(world'.chans) /\ world'.chans[model'.stream[n]].node = n
    <3>1. CASE n = k
      BY <1>3, <1>5, <1>6, <1>7, <3>1
    <3>2. CASE n # k
      <4>1. m.stream[n] \in 1..Len(w.chans) /\ w.chans[m.stream[n]].node = n /\ model'.stream[n] = m.stream[n]
        BY <1>0, <1>7, <2>2, <3>2 DEF Shaped
      <4> QED BY <1>5, <1>6, <4>1
    <3> QED BY <3>1, <3>2
  <2>3. \A n \in Nodes : model'.known[n] = "ended" => world'.status[n] = "ended"
    BY <1>0, <1>1, <1>4 DEF Shaped
  <2>4. ASSUME NEW i \in 1..Len(world'.chans) PROVE world'.chans[i].taken <= world'.chans[i].sent
    <3>1. CASE i = ch
      BY <1>3, <1>5, <3>1
    <3>2. CASE i \in 1..Len(w.chans)
      BY <1>0, <1>5, <3>2 DEF Shaped
    <3> QED BY <1>5, <1>6, <3>1, <3>2
  <2>5. DOMAIN model'.known = Nodes /\ model'.selected \in Nodes \cup {None} /\ DOMAIN world'.status = Nodes
    BY <1>0, <1>1, <1>4 DEF Shaped
  <2> QED BY <1>4, <1>5, <1>7, <2>1, <2>2, <2>3, <2>4, <2>5 DEF Shaped
<1>10. Given(world', cmds')
  <2>1. WaitOf(world', V!Wait(k, ch, FALSE))
    <3>1. k \in Nodes /\ ch \in 1..Len(world'.chans) /\ world'.chans[ch].node = k
      BY <1>0, <1>3, <1>5, <1>6
    <3> QED BY <3>1 DEF WaitOf
  <2>2. ASSUME NEW c, WaitOf(w, c) PROVE WaitOf(world', c)
    <3>1. PICK n \in Nodes, i \in 1..Len(w.chans) : (c = V!Wait(n, i, FALSE) \/ c = V!Wait(n, i, TRUE)) /\ w.chans[i].node = n
      BY <2>2 DEF WaitOf
    <3>2. i \in 1..Len(world'.chans) /\ world'.chans[i] = w.chans[i]
      BY <1>5, <1>6
    <3> QED BY <3>1, <3>2 DEF WaitOf
  <2>3. ASSUME NEW c \in cmds' PROVE c = Steps \/ c = Clock \/ (\E n \in Nodes : c = V!LogOf(n)) \/ WaitOf(world', c)
    <3>1. CASE c \in left
      BY <1>0, <2>2, <3>1 DEF Given
    <3>2. CASE c = V!Wait(k, ch, FALSE)
      BY <2>1, <3>2
    <3> QED BY <1>7, <3>1, <3>2
  <2> QED BY <2>3 DEF Given
<1>11. Held(model', world')
  <2> SUFFICES ASSUME NEW i \in 1..Len(world'.chans), world'.chans[i].open, ~world'.chans[i].cancelled
               PROVE  model'.end = "no" /\ model'.stream[world'.chans[i].node] = i
    BY DEF Held
  <2>1. CASE i = ch
    BY <1>1, <1>3, <1>5, <1>7, <2>1
  <2>2. CASE i \in 1..Len(w.chans)
    <3>1. w.chans[i].open /\ ~w.chans[i].cancelled /\ world'.chans[i] = w.chans[i]
      BY <1>5, <2>2
    <3>2. m.stream[w.chans[i].node] = i /\ i # 0
      BY <1>0, <2>2, <3>1 DEF Held
    <3>3. w.chans[i] \in Channel
      BY <1>0, <2>2
    <3>4. w.chans[i].node \in Nodes \ {k}
      BY <1>0, <3>2, <3>3 DEF Channel
    <3> QED BY <1>1, <1>7, <3>1, <3>2, <3>4
  <2> QED BY <1>5, <1>6, <2>1, <2>2
<1>12. ASSUME NEW n \in Nodes \ model'.upset PROVE Faithful(model', world', cmds', n)
  <2>1. Faithful(m, w, left, n)
    BY <1>1 DEF ViewerState
  <2>2. CASE n = k
    <3>1. model'.cache[n] \in Seq(Line) /\ model'.before[n] = model'.cache[n]
      BY <1>0, <1>7, <1>8, <2>2
    <3>2. model'.cache[n] = Brought(model'.before[n], world'.chans[model'.stream[n]].taken)
      <4>1. world'.chans[model'.stream[n]].taken = 0
        BY <1>3, <1>5, <1>7, <2>2
      <4>2. Brought(model'.before[n], 0) = model'.before[n]
        BY <3>1, Bringing
      <4> QED BY <3>1, <4>1, <4>2
    <3>5. AfterAll(model'.before[n])
      <4>1. m.cache[n] = None \/ m.cache[n] = Brought(m.before[n], Len(Whole))
        BY <1>0, <2>1, <2>2 DEF Faithful
      <4>2. model'.before[n] = <<>> \/ model'.before[n] = Brought(m.before[n], Len(Whole))
        BY <1>7, <2>2, <4>1
      <4>3. m.before[n] \in Seq(Line)
        BY <1>8
      <4> QED BY <4>2, <4>3, Bringing
    <3>3. \A c \in cmds' : c.kind = "wait" /\ c.node = n => c = V!Wait(n, model'.stream[n], FALSE)
      BY <1>0, <1>7, <2>1, <2>2 DEF Faithful
    <3>4. V!LogOf(n) \in cmds' => Whole = <<>>
      <4>1. V!LogOf(n) # V!Wait(k, ch, FALSE)
        <5>1. V!LogOf(n).kind = "log" /\ V!Wait(k, ch, FALSE).kind = "wait"
          BY DEF V!LogOf, V!Wait
        <5> QED BY <5>1
      <4> QED BY <1>0, <1>7, <2>1, <2>2, <4>1 DEF Faithful
    <3> QED BY <1>6, <1>7, <2>2, <3>2, <3>3, <3>4, <3>5 DEF Faithful
  <2>3. CASE n # k
    <3>1. model'.stream[n] = m.stream[n] /\ model'.cache[n] = m.cache[n] /\ model'.before[n] = m.before[n]
      BY <1>7, <2>3
    <3>2. m.stream[n] # 0 => world'.chans[m.stream[n]] = w.chans[m.stream[n]]
      BY <1>0, <1>5 DEF Shaped
    <3>3. \A c \in cmds' : c.kind = "wait" /\ c.node = n => c \in left
      <4>1. V!Wait(k, ch, FALSE).node = k
        BY DEF V!Wait
      <4> QED BY <1>7, <2>3, <4>1
    <3>4. V!LogOf(n) \in cmds' => V!LogOf(n) \in left
      <4>1. V!LogOf(n).kind = "log" /\ V!Wait(k, ch, FALSE).kind = "wait"
        BY DEF V!LogOf, V!Wait
      <4> QED BY <1>7, <4>1
    <3> QED BY <1>1, <2>1, <3>1, <3>2, <3>3, <3>4 DEF Faithful
  <2> QED BY <2>2, <2>3
<1>13. model'.end = "no" => Polled(model', cmds')
  <2>1. V!Wait(k, ch, FALSE).kind \notin {"steps", "tick"}
    BY DEF V!Wait
  <2>2. Polls(cmds') = Polls(left)
    BY <1>7, <2>1, PollsStay
  <2> QED BY <1>1, <2>2 DEF ViewerState, Polled
<1> QED BY <1>9, <1>10, <1>11, <1>12, <1>13 DEF ViewerState

LEMMA LoadKeeps ==
  ASSUME NEW m, NEW w, NEW left, ViewerState(m, w, left), m.end = "no", V!MaybeLoad(m, w, left)
  PROVE  ViewerState(model', world', cmds') /\ Panels(model')
<1>1. Shaped(m, w)
  BY DEF ViewerState
<1> QED BY <1>1, LoadOutcome, ShowsKeeps, StreamsKeeps

\* Another step, another tab: nothing that runs is concerned.
LEMMA Elsewhere ==
  ASSUME NEW m, NEW w, NEW q, ViewerState(m, w, q), NEW k, DOMAIN k = ViewerFields, k.selected \in Nodes \cup {None},
         \A x \in ViewerFields \ {"selected", "tab", "shown", "loading"} : k[x] = m[x]
  PROVE  ViewerState(k, w, q)
<1>1. k.known = m.known /\ k.cache = m.cache /\ k.stream = m.stream /\ k.over = m.over /\ k.end = m.end /\ k.upset = m.upset
      /\ k.state = m.state /\ k.before = m.before
  BY DEF ViewerFields
<1>2. Shaped(k, w)
  BY <1>1 DEF ViewerState, Shaped
<1>3. Held(k, w)
  BY <1>1 DEF ViewerState, Held
<1>4. ASSUME NEW n \in Nodes \ k.upset PROVE Faithful(k, w, q, n)
  <2>1. Faithful(m, w, q, n)
    BY <1>1 DEF ViewerState
  <2> QED BY <1>1, <2>1 DEF Faithful
<1>5. k.end = "no" => Polled(k, q)
  BY <1>1 DEF ViewerState, Polled
<1> QED BY <1>2, <1>3, <1>4, <1>5 DEF ViewerState

\* The goroutines and the server go on: no line is taken.
LEMMA Rechanneled ==
  ASSUME NEW m, NEW w, NEW q, ViewerState(m, w, q), NEW v, DOMAIN v = {"status", "done", "chans"}, DOMAIN v.status = Nodes, v.done \in BOOLEAN,
         \A n \in Nodes : w.status[n] = "ended" => v.status[n] = "ended",
         v.chans \in Seq(Channel), Len(v.chans) = Len(w.chans),
         \A i \in 1..Len(w.chans) :
           /\ v.chans[i].node = w.chans[i].node /\ v.chans[i].taken = w.chans[i].taken /\ v.chans[i].taken <= v.chans[i].sent
           /\ v.chans[i].open /\ ~v.chans[i].cancelled => w.chans[i].open /\ ~w.chans[i].cancelled
  PROVE  ViewerState(m, v, q)
<1>1. Shaped(m, v)
  BY DEF ViewerState, Shaped
<1>2. Held(m, v)
  BY DEF ViewerState, Held
<1>3. Given(v, q)
  <2>1. ASSUME NEW c, WaitOf(w, c) PROVE WaitOf(v, c)
    <3>1. PICK n \in Nodes, i \in 1..Len(w.chans) : (c = V!Wait(n, i, FALSE) \/ c = V!Wait(n, i, TRUE)) /\ w.chans[i].node = n
      BY <2>1 DEF WaitOf
    <3>2. i \in 1..Len(v.chans) /\ v.chans[i].node = n
      BY <3>1
    <3> QED BY <3>1, <3>2 DEF WaitOf
  <2>2. Given(w, q)
    BY DEF ViewerState
  <2> QED BY <2>1, <2>2 DEF Given
<1>4. ASSUME NEW n \in Nodes \ m.upset PROVE Faithful(m, v, q, n)
  <2>1. Faithful(m, w, q, n) /\ (m.stream[n] # 0 => m.stream[n] \in 1..Len(w.chans))
    BY DEF ViewerState, Shaped
  <2> QED BY <2>1 DEF Faithful
<1>5. m.end = "no" => Polled(m, q)
  BY DEF ViewerState
<1> QED BY <1>1, <1>2, <1>3, <1>4, <1>5 DEF ViewerState

\* No channel of k is open and goes on.
Idle(w, k) == \A i \in 1..Len(w.chans) : w.chans[i].node = k => ~w.chans[i].open \/ w.chans[i].cancelled

\* The stream of k is given up, once it is cancelled.
GivesUp(m, w, q, k, h, p) ==
  /\ k \in Nodes /\ Idle(w, k) /\ DOMAIN h = ViewerFields /\ h.stream = [m.stream EXCEPT ![k] = 0]
  /\ \A x \in ViewerFields \ {"stream", "cache", "before", "upset", "shown", "loading"} : h[x] = m[x]
  /\ h.upset = m.upset \/ h.upset = m.upset \cup {k}
  /\ DOMAIN h.cache = Nodes /\ h.cache[k] \in Seq(Line) \cup {None} /\ DOMAIN h.before = Nodes /\ h.before[k] \in Seq(Line)
  /\ \A n \in Nodes \ {k} : h.cache[n] = m.cache[n] /\ h.before[n] = m.before[n]
  /\ Given(w, p) /\ Polls(p) = Polls(q)
  /\ \A c \in p : c \in q \/ (c.kind \in {"wait", "log"} /\ c.node = k)
  /\ k \notin h.upset => Faithful(h, w, p, k)

LEMMA GivenUp ==
  ASSUME NEW m, NEW w, NEW q, ViewerState(m, w, q), NEW k, NEW h, NEW p, GivesUp(m, w, q, k, h, p)
  PROVE  ViewerState(h, w, p)
<1>0. /\ k \in Nodes /\ Idle(w, k) /\ DOMAIN h = ViewerFields /\ h.stream = [m.stream EXCEPT ![k] = 0]
      /\ \A x \in ViewerFields \ {"stream", "cache", "before", "upset", "shown", "loading"} : h[x] = m[x]
      /\ h.upset = m.upset \/ h.upset = m.upset \cup {k}
      /\ DOMAIN h.cache = Nodes /\ h.cache[k] \in Seq(Line) \cup {None} /\ DOMAIN h.before = Nodes /\ h.before[k] \in Seq(Line)
      /\ \A n \in Nodes \ {k} : h.cache[n] = m.cache[n] /\ h.before[n] = m.before[n]
      /\ Given(w, p) /\ Polls(p) = Polls(q)
      /\ \A c \in p : c \in q \/ (c.kind \in {"wait", "log"} /\ c.node = k)
      /\ k \notin h.upset => Faithful(h, w, p, k)
  BY DEF GivesUp
<1>1. h.known = m.known /\ h.over = m.over /\ h.end = m.end /\ h.state = m.state /\ h.selected = m.selected
  BY <1>0 DEF ViewerFields
<1>2. DOMAIN h.stream = Nodes /\ h.stream[k] = 0 /\ \A n \in Nodes \ {k} : h.stream[n] = m.stream[n]
  BY <1>0 DEF ViewerState, Shaped
<1>3. Shaped(h, w)
  <2>1. ASSUME NEW n \in Nodes PROVE h.cache[n] \in Seq(Line) \cup {None} /\ h.before[n] \in Seq(Line)
    <3>1. m.cache[n] \in Seq(Line) \cup {None} /\ m.before[n] \in Seq(Line)
      BY DEF ViewerState, Shaped
    <3>2. CASE n = k
      BY <1>0, <3>2
    <3>3. CASE n # k
      BY <1>0, <3>1, <3>3
    <3> QED BY <3>2, <3>3
  <2>2. ASSUME NEW n \in Nodes, h.stream[n] # 0 PROVE h.stream[n] \in 1..Len(w.chans) /\ w.chans[h.stream[n]].node = n
    BY <1>2, <2>2 DEF ViewerState, Shaped
  <2> QED BY <1>0, <1>1, <1>2, <2>1, <2>2 DEF ViewerState, Shaped
<1>4. Held(h, w)
  <2> SUFFICES ASSUME NEW i \in 1..Len(w.chans), w.chans[i].open, ~w.chans[i].cancelled
               PROVE  h.end = "no" /\ h.stream[w.chans[i].node] = i
    BY DEF Held
  <2>1. m.end = "no" /\ m.stream[w.chans[i].node] = i
    BY DEF ViewerState, Held
  <2>2. w.chans[i] \in Channel /\ w.chans[i].node # k
    BY <1>0 DEF ViewerState, Shaped, Idle
  <2>3. w.chans[i].node \in Nodes \ {k}
    BY <2>2 DEF Channel
  <2> QED BY <1>1, <1>2, <2>1, <2>3
<1>5. ASSUME NEW n \in Nodes \ h.upset PROVE Faithful(h, w, p, n)
  <2>1. CASE n = k
    BY <1>0, <2>1
  <2>2. CASE n # k
    <3>1. Faithful(m, w, q, n)
      BY <1>0, <2>2 DEF ViewerState
    <3>2. h.stream[n] = m.stream[n] /\ h.cache[n] = m.cache[n] /\ h.before[n] = m.before[n]
      BY <1>0, <1>2, <2>2
    <3>3. \A c \in p : c.kind = "wait" /\ c.node = n => c \in q
      BY <1>0, <2>2
    <3>4. V!LogOf(n) \in p => V!LogOf(n) \in q
      <4>1. V!LogOf(n).node = n
        BY DEF V!LogOf
      <4> QED BY <1>0, <2>2, <4>1
    <3> QED BY <1>1, <3>1, <3>2, <3>3, <3>4 DEF Faithful
  <2> QED BY <2>1, <2>2
<1>6. h.end = "no" => Polled(h, p)
  BY <1>0, <1>1 DEF ViewerState, Polled
<1> QED BY <1>0, <1>3, <1>4, <1>5, <1>6 DEF ViewerState

\* A channel changes.
LEMMA OneOther ==
  ASSUME NEW S, NEW s \in Seq(S), NEW i \in 1..Len(s), NEW x \in S
  PROVE  /\ [s EXCEPT ![i] = x] \in Seq(S) /\ Len([s EXCEPT ![i] = x]) = Len(s)
         /\ [s EXCEPT ![i] = x][i] = x /\ \A j \in 1..Len(s) : j # i => [s EXCEPT ![i] = x][j] = s[j]
OBVIOUS

\* The stream of a step is cancelled.
LEMMA CancelledKeeps ==
  ASSUME ViewerState(model, world, cmds), NEW k \in Nodes
  PROVE  /\ ViewerState(model, V!Cancelled(k), cmds) /\ Idle(V!Cancelled(k), k) /\ Len(V!Cancelled(k).chans) = Len(world.chans)
         /\ \A i \in 1..Len(world.chans) :
              V!Cancelled(k).chans[i].node = world.chans[i].node /\ V!Cancelled(k).chans[i].taken = world.chans[i].taken
<1>0. Shaped(model, world) /\ Held(model, world) /\ world.chans \in Seq(Channel) /\ Len(world.chans) \in Nat
  BY DEF ViewerState, Shaped
<1>1. \A i \in 1..Len(world.chans) : world.chans[i] \in Channel /\ world.chans[i].node \in Nodes
  <2> SUFFICES ASSUME NEW i \in 1..Len(world.chans) PROVE world.chans[i] \in Channel /\ world.chans[i].node \in Nodes
    OBVIOUS
  <2>1. world.chans[i] \in Channel
    BY <1>0
  <2> QED BY <2>1 DEF Channel
<1>2. CASE model.stream[k] = 0
  <2>1. V!Cancelled(k) = world
    BY <1>2 DEF V!Cancelled
  <2>2. ASSUME NEW i \in 1..Len(world.chans), world.chans[i].node = k PROVE ~world.chans[i].open \/ world.chans[i].cancelled
    BY <1>0, <1>2, <2>2 DEF Held
  <2> QED BY <2>1, <2>2 DEF Idle
<1>3. CASE model.stream[k] # 0
  <2> DEFINE i == model.stream[k]
             r == [world.chans[i] EXCEPT !.cancelled = TRUE]
             v == V!Cancelled(k)
  <2>1. i \in 1..Len(world.chans) /\ world.chans[i] \in Channel /\ world.chans[i].node = k
    BY <1>0, <1>1, <1>3 DEF Shaped
  <2>2. r \in Channel /\ r.node = world.chans[i].node /\ r.taken = world.chans[i].taken /\ r.sent = world.chans[i].sent /\ r.cancelled
    BY <2>1 DEF Channel
  <2>3. v = [world EXCEPT !.chans = [world.chans EXCEPT ![i] = r]]
    BY <1>0, <1>3, <2>1 DEF V!Cancelled, Shaped
  <2> HIDE DEF r, v
  <2>4. v.chans = [world.chans EXCEPT ![i] = r] /\ v.status = world.status /\ v.done \in BOOLEAN /\ DOMAIN v = {"status", "done", "chans"}
    BY <1>0, <2>3 DEF Shaped
  <2> HIDE DEF i
  <2>5. v.chans \in Seq(Channel) /\ Len(v.chans) = Len(world.chans) /\ v.chans[i] = r
        /\ \A j \in 1..Len(world.chans) : j # i => v.chans[j] = world.chans[j]
    BY <1>0, <2>1, <2>2, <2>4, OneOther
  <2>6. ASSUME NEW j \in 1..Len(world.chans)
        PROVE  /\ v.chans[j].node = world.chans[j].node /\ v.chans[j].taken = world.chans[j].taken
               /\ v.chans[j].taken <= v.chans[j].sent
               /\ v.chans[j].open /\ ~v.chans[j].cancelled => world.chans[j].open /\ ~world.chans[j].cancelled
               /\ v.chans[j].node = k => ~v.chans[j].open \/ v.chans[j].cancelled
    <3>1. CASE j = i
      BY <1>0, <2>2, <2>5, <3>1 DEF Shaped
    <3>2. CASE j # i
      BY <1>0, <2>5, <3>2 DEF Shaped, Held, i
    <3> QED BY <3>1, <3>2
  <2>7. ViewerState(model, v, cmds)
    <3>1. DOMAIN v.status = Nodes /\ \A n \in Nodes : world.status[n] = "ended" => v.status[n] = "ended"
      BY <1>0, <2>4 DEF Shaped
    <3>2. \A j \in 1..Len(world.chans) :
            /\ v.chans[j].node = world.chans[j].node /\ v.chans[j].taken = world.chans[j].taken /\ v.chans[j].taken <= v.chans[j].sent
            /\ v.chans[j].open /\ ~v.chans[j].cancelled => world.chans[j].open /\ ~world.chans[j].cancelled
      BY <2>6
    <3>3. DOMAIN v = {"status", "done", "chans"} /\ v.done \in BOOLEAN /\ v.chans \in Seq(Channel) /\ Len(v.chans) = Len(world.chans)
      BY <2>4, <2>5
    <3> HIDE DEF v
    <3> QED BY <3>1, <3>2, <3>3, Rechanneled
  <2>8. Idle(v, k)
    BY <2>5, <2>6 DEF Idle
  <2> QED BY <2>5, <2>6, <2>7, <2>8 DEF v
<1> QED BY <1>2, <1>3

-----------------------------------------------------------------------------
\* Keys.
LEMMA SyncedFacts ==
  ASSUME NEW m, DOMAIN m = ViewerFields
  PROVE  DOMAIN V!Synced(m) = ViewerFields /\ \A x \in ViewerFields \ {"shown"} : V!Synced(m)[x] = m[x]
BY PanelFacts DEF V!Synced

LEMMA ViewerKey ==
  ASSUME ViewerInv, model.end = "no", V!Select \/ V!Tab \/ V!Refresh \/ V!Quit
  PROVE  ViewerInv'
<1>0. ViewerState(model, world, cmds) /\ Shaped(model, world) /\ DOMAIN model = ViewerFields
  BY DEF ViewerInv, ViewerState, Shaped
<1>1. ASSUME NEW m, DOMAIN m = ViewerFields, m.selected \in Nodes \cup {None}, V!MaybeLoad(V!Synced(m), world, cmds),
             \A x \in ViewerFields \ {"selected", "tab"} : m[x] = model[x]
      PROVE ViewerInv'
  <2> DEFINE k == V!Synced(m)
  <2>1. DOMAIN k = ViewerFields /\ \A x \in ViewerFields \ {"shown"} : k[x] = m[x]
    BY <1>1, SyncedFacts
  <2> HIDE DEF k
  <2>2. k.selected = m.selected /\ k.end = "no"
    BY <1>1, <2>1 DEF ViewerFields
  <2>3. ViewerState(k, world, cmds)
    BY <1>0, <1>1, <2>1, <2>2, Elsewhere
  <2>4. V!MaybeLoad(k, world, cmds)
    BY <1>1 DEF k
  <2>5. ViewerState(model', world', cmds') /\ Panels(model')
    BY <2>2, <2>3, <2>4, LoadKeeps
  <2> QED BY <2>5 DEF ViewerInv
<1>2. CASE V!Select
  <2>1. PICK n \in Nodes : V!MaybeLoad(V!Synced([model EXCEPT !.selected = n]), world, cmds)
    BY <1>2 DEF V!Select, V!Seen
  <2> DEFINE m == [model EXCEPT !.selected = n]
  <2>2. DOMAIN m = ViewerFields /\ m.selected = n /\ \A x \in ViewerFields \ {"selected"} : m[x] = model[x]
    BY <1>0 DEF ViewerFields
  <2> QED BY <1>1, <2>1, <2>2
<1>3. CASE V!Tab
  <2>1. PICK t \in {"logs", "details"} : V!MaybeLoad(V!Synced([model EXCEPT !.tab = t]), world, cmds)
    BY <1>3 DEF V!Tab
  <2> DEFINE m == [model EXCEPT !.tab = t]
  <2>2. DOMAIN m = ViewerFields /\ m.selected = model.selected /\ \A x \in ViewerFields \ {"tab"} : m[x] = model[x]
    BY <1>0 DEF ViewerFields
  <2>3. model.selected \in Nodes \cup {None}
    BY <1>0 DEF Shaped
  <2> QED BY <1>1, <2>1, <2>2, <2>3
<1>4. CASE V!Refresh
  <2> DEFINE n == model.selected
             m == [model EXCEPT !.cache[n] = None, !.before[n] = <<>>, !.stream[n] = 0,
                            !.upset = IF model.stream[n] # 0 THEN @ \cup {n} ELSE @]
  <2>1. n \in Nodes /\ V!MaybeLoad(m, V!Cancelled(n), cmds)
    BY <1>0, <1>4 DEF V!Refresh, Shaped
  <2> HIDE DEF n
  <2>2. /\ DOMAIN m = ViewerFields /\ m.stream = [model.stream EXCEPT ![n] = 0] /\ m.cache = [model.cache EXCEPT ![n] = None]
        /\ m.upset = (IF model.stream[n] # 0 THEN model.upset \cup {n} ELSE model.upset)
        /\ m.before = [model.before EXCEPT ![n] = <<>>]
        /\ \A x \in ViewerFields \ {"stream", "cache", "before", "upset"} : m[x] = model[x]
    BY <1>0 DEF ViewerFields
  <2> HIDE DEF m
  <2>3. ViewerState(model, V!Cancelled(n), cmds)
        /\ Idle(V!Cancelled(n), n)
    BY <1>0, <2>1, CancelledKeeps
  <2>4. /\ DOMAIN m.cache = Nodes /\ m.cache[n] = None /\ (\A k \in Nodes \ {n} : m.cache[k] = model.cache[k])
        /\ DOMAIN m.before = Nodes /\ m.before[n] = <<>> /\ (\A k \in Nodes \ {n} : m.before[k] = model.before[k])
        /\ m.stream[n] = 0 /\ m.known = model.known
    BY <1>0, <2>1, <2>2 DEF Shaped, ViewerFields
  <2>5. ASSUME n \notin m.upset PROVE Faithful(m, V!Cancelled(n), cmds, n)
    <3>1. model.stream[n] = 0 /\ n \notin model.upset
      BY <2>2, <2>5
    <3>2. Faithful(model, world, cmds, n)
      BY <1>0, <2>1, <3>1 DEF ViewerState
    <3> QED BY <2>4, <3>1, <3>2 DEF Faithful, AfterAll
  <2>6. Given(V!Cancelled(n), cmds)
    BY <2>3 DEF ViewerState
  <2>7. ViewerState(m, V!Cancelled(n), cmds)
    <3> DEFINE w == V!Cancelled(n)
    <3>1. \A x \in ViewerFields \ {"stream", "cache", "before", "upset", "shown", "loading"} : m[x] = model[x]
      BY <2>2
    <3>2. m.upset = model.upset \/ m.upset = model.upset \cup {n}
      BY <2>2
    <3>3. m.cache[n] \in Seq(Line) \cup {None} /\ m.before[n] \in Seq(Line) /\ DOMAIN m.before = Nodes
      BY <2>4
    <3>4. Polls(cmds) = Polls(cmds) /\ \A c \in cmds : c \in cmds \/ (c.kind \in {"wait", "log"} /\ c.node = n)
      OBVIOUS
    <3>5. /\ ViewerState(model, w, cmds) /\ Given(w, cmds) /\ (n \notin m.upset => Faithful(m, w, cmds, n))
          /\ Idle(w, n)
      BY <2>3, <2>5, <2>6
    <3>6. n \in Nodes /\ DOMAIN m = ViewerFields /\ m.stream = [model.stream EXCEPT ![n] = 0]
          /\ DOMAIN m.cache = Nodes /\ \A k \in Nodes \ {n} : m.cache[k] = model.cache[k] /\ m.before[k] = model.before[k]
      BY <2>1, <2>2, <2>4
    <3> HIDE DEF w
    <3>7. GivesUp(model, w, cmds, n, m, cmds)
      BY <3>1, <3>2, <3>3, <3>4, <3>5, <3>6 DEF GivesUp
    <3>8. ViewerState(m, w, cmds)
      BY <3>5, <3>7, GivenUp
    <3> QED BY <3>8 DEF w
  <2>8. m.end = "no"
    BY <2>2 DEF ViewerFields
  <2> QED BY <2>1, <2>7, <2>8, LoadKeeps DEF ViewerInv
<1>5. CASE V!Quit
  <2> DEFINE C(i) == IF \E n \in Nodes : model.stream[n] = i THEN [world.chans[i] EXCEPT !.cancelled = TRUE] ELSE world.chans[i]
  <2>0. world.chans \in Seq(Channel) /\ DOMAIN world.chans = 1..Len(world.chans) /\ Len(world.chans) \in Nat
        /\ \A i \in 1..Len(world.chans) : world.chans[i] \in Channel
    BY <1>0 DEF Shaped
  <2>1. /\ DOMAIN model' = ViewerFields /\ model'.end = "quit" /\ (\A x \in ViewerFields \ {"end"} : model'[x] = model[x])
        /\ cmds' = {}
    BY <1>0, <1>5 DEF V!Quit, ViewerFields
  <2>2. DOMAIN world' = {"status", "done", "chans"} /\ world'.status = world.status /\ world'.done \in BOOLEAN
        /\ world'.chans = [i \in 1..Len(world.chans) |-> C(i)]
    BY <1>0, <1>5, <2>0 DEF V!Quit, Shaped
  <2>3. ASSUME NEW i \in 1..Len(world.chans)
        PROVE  /\ C(i) \in Channel /\ C(i).node = world.chans[i].node /\ C(i).taken = world.chans[i].taken
               /\ C(i).sent = world.chans[i].sent /\ (C(i).open <=> world.chans[i].open)
               /\ (\E n \in Nodes : model.stream[n] = i) => C(i).cancelled
               /\ ~(\E n \in Nodes : model.stream[n] = i) => C(i) = world.chans[i]
    <3>1. world.chans[i] \in Channel
      BY <2>0
    <3> QED BY <3>1 DEF Channel
  <2> HIDE DEF C
  <2>4. world'.chans \in Seq(Channel) /\ Len(world'.chans) = Len(world.chans) /\ \A i \in 1..Len(world.chans) : world'.chans[i] = C(i)
    <3>1. \A i \in 1..Len(world.chans) : C(i) \in Channel
      BY <2>3
    <3> QED BY <2>0, <2>2, <3>1
  <2>5. Shaped(model', world')
    <3>1. model'.known = model.known /\ model'.cache = model.cache /\ model'.stream = model.stream /\ model'.selected = model.selected
          /\ model'.before = model.before
      BY <2>1 DEF ViewerFields
    <3>2. DOMAIN model' = ViewerFields /\ DOMAIN world' = {"status", "done", "chans"} /\ world'.status = world.status
          /\ world'.done \in BOOLEAN /\ world'.chans \in Seq(Channel)
      BY <2>1, <2>2, <2>4
    <3>3. \A i \in 1..Len(world'.chans) : world'.chans[i].taken <= world'.chans[i].sent
      BY <1>0, <2>3, <2>4 DEF Shaped
    <3>4. ASSUME NEW n \in Nodes, model.stream[n] # 0
          PROVE  model.stream[n] \in 1..Len(world'.chans) /\ world'.chans[model.stream[n]].node = n
      <4>1. model.stream[n] \in 1..Len(world.chans) /\ world.chans[model.stream[n]].node = n
        BY <1>0, <3>4 DEF Shaped
      <4> QED BY <2>3, <2>4, <4>1
    <3> QED BY <1>0, <3>1, <3>2, <3>3, <3>4 DEF Shaped
  <2>6. Held(model', world')
    <3> SUFFICES ASSUME NEW i \in 1..Len(world.chans) PROVE ~world'.chans[i].open \/ world'.chans[i].cancelled
      BY <2>4 DEF Held
    <3>1. CASE world.chans[i].open /\ ~world.chans[i].cancelled
      <4>1. model.stream[world.chans[i].node] = i /\ world.chans[i].node \in Nodes
        BY <1>0, <2>0, <3>1 DEF ViewerState, Held, Channel
      <4> QED BY <2>3, <2>4, <4>1
    <3>2. CASE ~world.chans[i].open
      BY <2>3, <2>4, <3>2
    <3>3. CASE world.chans[i].cancelled
      BY <2>3, <2>4, <3>3
    <3> QED BY <3>1, <3>2, <3>3
  <2>7. Given(world', cmds')
    BY <2>1 DEF Given
  <2>8. ASSUME NEW n \in Nodes \ model'.upset PROVE Faithful(model', world', cmds', n)
    <3>1. model'.stream = model.stream /\ model'.cache = model.cache /\ model'.upset = model.upset /\ model'.before = model.before
      BY <2>1 DEF ViewerFields
    <3>2. Faithful(model, world, cmds, n)
      BY <1>0, <3>1 DEF ViewerState
    <3>3. model.stream[n] # 0 => model.stream[n] \in 1..Len(world.chans)
      BY <1>0 DEF Shaped
    <3> QED BY <2>1, <2>3, <2>4, <3>1, <3>2, <3>3 DEF Faithful
  <2>9. Panels(model')
    <3>1. model'.tab = model.tab /\ model'.selected = model.selected /\ model'.shown = model.shown /\ model'.cache = model.cache
      BY <2>1 DEF ViewerFields
    <3> QED BY <3>1 DEF ViewerInv, Panels
  <2> QED BY <2>1, <2>5, <2>6, <2>7, <2>8, <2>9 DEF ViewerInv, ViewerState
<1> QED BY <1>2, <1>3, <1>4, <1>5

-----------------------------------------------------------------------------
\* Polls.
LEMMA ViewerPoll ==
  ASSUME ViewerInv, model.end = "no", V!StepsLoaded \/ V!Tick
  PROVE  ViewerInv'
<1>0. ViewerState(model, world, cmds) /\ Shaped(model, world) /\ DOMAIN model = ViewerFields /\ Polled(model, cmds)
  BY DEF ViewerInv, ViewerState, Shaped
<1>1. Steps.kind = "steps" /\ Clock.kind = "tick" /\ Steps # Clock
  <2>1. Steps.kind = "steps" /\ Clock.kind = "tick"
    BY DEF Steps, Clock
  <2> QED BY <2>1
\* What is waited for, and the logs, are not concerned by polls.
<1>2. ASSUME NEW m, NEW q, Shaped(m, world), Polled(m, q), \A c \in q : c \in cmds \/ c = Steps \/ c = Clock,
             m.cache = model.cache, m.stream = model.stream, m.upset = model.upset, m.before = model.before, m.end = "no",
             \A n \in Nodes : model.known[n] = "ended" => m.known[n] = "ended"
      PROVE  ViewerState(m, world, q)
  <2>1. Given(world, q)
    BY <1>0, <1>2 DEF ViewerState, Given
  <2>2. Held(m, world)
    BY <1>0, <1>2 DEF ViewerState, Held
  <2>3. ASSUME NEW n \in Nodes \ m.upset PROVE Faithful(m, world, q, n)
    <3>1. Faithful(model, world, cmds, n)
      BY <1>0, <1>2 DEF ViewerState
    <3>2. \A c \in q : c.kind = "wait" => c \in cmds
      BY <1>1, <1>2
    <3>3. V!LogOf(n) \in q => V!LogOf(n) \in cmds
      <4>1. V!LogOf(n).kind = "log"
        BY DEF V!LogOf
      <4> QED BY <1>1, <1>2, <4>1
    <3>4. (m.stream[n] # 0 => m.cache[n] = Brought(m.before[n], world.chans[m.stream[n]].taken))
          /\ (m.stream[n] = 0 => m.cache[n] \in {None, Brought(m.before[n], Len(Whole))}) /\ AfterAll(m.before[n])
      BY <1>2, <3>1 DEF Faithful
    <3>5. \A c \in q : c.kind = "wait" /\ c.node = n => m.stream[n] # 0 /\ c = V!Wait(n, m.stream[n], FALSE)
      BY <1>2, <3>1, <3>2 DEF Faithful
    <3>6. V!LogOf(n) \in q => Whole = <<>> \/ (m.known[n] = "ended" /\ m.stream[n] = 0)
      BY <1>2, <3>1, <3>3 DEF Faithful
    <3> QED BY <3>4, <3>5, <3>6 DEF Faithful
  <2> QED BY <1>2, <2>1, <2>2, <2>3 DEF ViewerState
<1>3. CASE V!Tick
  <2>1. UNCHANGED <<model, world>> /\ Clock \in cmds /\ cmds' = (cmds \ {Clock}) \cup (IF model.over THEN {} ELSE {Steps})
    BY <1>3 DEF V!Tick, Clock, Steps
  <2>2. ~model.over /\ model.state # "error" /\ Polls(cmds) = {Clock}
    BY <1>0, <1>1, <2>1 DEF Polled, Polls
  <2>3. cmds' = (cmds \ {Clock}) \cup {Steps}
    BY <2>1, <2>2
  <2>4. Polls(cmds') = {Steps}
    BY <1>1, <2>2, <2>3 DEF Polls
  <2>5. Polled(model, cmds')
    BY <2>2, <2>4 DEF Polled
  <2>6. \A c \in cmds' : c \in cmds \/ c = Steps \/ c = Clock
    BY <2>3
  <2>7. ViewerState(model, world, cmds')
    BY <1>0, <1>2, <2>5, <2>6
  <2> QED BY <2>1, <2>7 DEF ViewerInv
<1>4. CASE V!StepsLoaded
  <2> DEFINE left == cmds \ {Steps}
  <2>1. Steps \in cmds
    BY <1>4 DEF V!StepsLoaded, Steps
  <2>2. ~model.over /\ model.state # "error" /\ Polls(cmds) = {Steps}
    BY <1>0, <1>1, <2>1 DEF Polled, Polls
  <2>3. Polls(left) = {} /\ \A c \in left : c \in cmds
    BY <2>2 DEF Polls
  <2>4. CASE model' = [model EXCEPT !.state = "error"] /\ cmds' = left /\ UNCHANGED world
    <3> HIDE DEF left
    <3>1. DOMAIN model' = ViewerFields /\ model'.state = "error" /\ \A x \in ViewerFields \ {"state"} : model'[x] = model[x]
      BY <1>0, <2>4 DEF ViewerFields
    <3>2. /\ model'.cache = model.cache /\ model'.stream = model.stream /\ model'.upset = model.upset /\ model'.end = "no"
          /\ model'.known = model.known /\ model'.selected = model.selected /\ model'.tab = model.tab /\ model'.shown = model.shown
          /\ model'.before = model.before
      BY <3>1 DEF ViewerFields
    <3>3. Shaped(model', world)
      BY <1>0, <3>1, <3>2 DEF Shaped
    <3>4. Polled(model', cmds')
      BY <2>3, <2>4, <3>1 DEF Polled
    <3>5. ViewerState(model', world, cmds')
      BY <1>2, <2>3, <2>4, <3>2, <3>3, <3>4
    <3>6. Panels(model')
      BY <3>2 DEF ViewerInv, Panels
    <3> QED BY <2>4, <3>5, <3>6 DEF ViewerInv
  <2>5. ASSUME NEW new \in SUBSET (Nodes \ V!Seen(model)), NEW known, NEW over, NEW first,
               known = [n \in Nodes |-> IF n \in V!Seen(model) \cup new THEN world.status[n] ELSE "unseen"],
               first \in Nodes \cup {None}, over \in BOOLEAN,
               V!MaybeLoad([model EXCEPT !.state = "ready", !.known = known, !.over = over, !.selected = first],
                         world, IF over THEN left ELSE left \cup {Clock})
        PROVE  ViewerInv'
    <3> DEFINE m == [model EXCEPT !.state = "ready", !.known = known, !.over = over, !.selected = first]
               q == IF over THEN left ELSE left \cup {Clock}
    <3>1. /\ DOMAIN m = ViewerFields /\ m.state = "ready" /\ m.known = known /\ m.selected = first
          /\ \A x \in ViewerFields \ {"state", "known", "over", "selected"} : m[x] = model[x]
      BY <1>0 DEF ViewerFields
    <3>2. m.over = over
      BY <1>0 DEF ViewerFields
    <3>3. V!MaybeLoad(m, world, q)
      BY <2>5
    <3> HIDE DEF m
    <3>4. m.cache = model.cache /\ m.stream = model.stream /\ m.upset = model.upset /\ m.before = model.before /\ m.end = "no"
      BY <3>1 DEF ViewerFields
    <3>5. ASSUME NEW n \in Nodes, model.known[n] = "ended" PROVE m.known[n] = "ended"
      <4>1. n \in V!Seen(model) /\ world.status[n] = "ended"
        BY <1>0, <3>5 DEF V!Seen, Shaped
      <4> QED BY <2>5, <3>1, <4>1
    <3>6. ASSUME NEW n \in Nodes, m.known[n] = "ended" PROVE world.status[n] = "ended"
      BY <2>5, <3>1, <3>6
    <3>7. Shaped(m, world)
      BY <1>0, <2>5, <3>1, <3>4, <3>6 DEF Shaped
    <3>8. Polled(m, q)
      <4>1. CASE over
        BY <2>3, <3>2, <4>1 DEF Polled
      <4>2. CASE ~over
        <5>1. Polls(q) = {Clock}
          BY <1>1, <2>3, <4>2 DEF Polls
        <5> QED BY <3>1, <3>2, <4>2, <5>1 DEF Polled
      <4> QED BY <4>1, <4>2
    <3>9. \A c \in q : c \in cmds \/ c = Steps \/ c = Clock
      BY <2>3
    <3> HIDE DEF q
    <3>10. ViewerState(m, world, q)
      BY <1>2, <3>4, <3>5, <3>7, <3>8, <3>9
    <3> QED BY <3>3, <3>4, <3>10, LoadKeeps DEF ViewerInv
  <2> HIDE DEF left
  <2> DEFINE K(new) == [n \in Nodes |-> IF n \in V!Seen(model) \cup new THEN world.status[n] ELSE "unseen"]
             F(new) == IF model.selected = None /\ new # {} THEN CHOOSE n \in new : TRUE ELSE model.selected
  <2>6. ASSUME NEW new \in SUBSET (Nodes \ V!Seen(model)),
               V!MaybeLoad([model EXCEPT !.state = "ready", !.known = K(new), !.over = world.done, !.selected = F(new)],
                         world, IF world.done THEN left ELSE left \cup {Clock})
        PROVE  ViewerInv'
    <3> DEFINE known == K(new)
               over == world.done
               first == F(new)
    <3>1. first \in Nodes \cup {None}
      BY <1>0 DEF Shaped
    <3>2. over \in BOOLEAN
      BY <1>0 DEF Shaped
    <3>3. known = [n \in Nodes |-> IF n \in V!Seen(model) \cup new THEN world.status[n] ELSE "unseen"]
      OBVIOUS
    <3>4. V!MaybeLoad([model EXCEPT !.state = "ready", !.known = known, !.over = over, !.selected = first],
                    world, IF over THEN left ELSE left \cup {Clock})
      BY <2>6
    <3> HIDE DEF known, over, first
    <3> QED BY <2>5, <3>1, <3>2, <3>3, <3>4
  <2>7. \/ model' = [model EXCEPT !.state = "error"] /\ cmds' = left /\ UNCHANGED world
        \/ \E new \in SUBSET (Nodes \ V!Seen(model)) :
             V!MaybeLoad([model EXCEPT !.state = "ready", !.known = K(new), !.over = world.done, !.selected = F(new)],
                       world, IF world.done THEN left ELSE left \cup {Clock})
    BY <1>4, Zenon DEF V!StepsLoaded, left, Clock, Steps
  <2> HIDE DEF K, F
  <2> QED BY <2>4, <2>6, <2>7
<1> QED BY <1>3, <1>4

-----------------------------------------------------------------------------
\* A log that was fetched.
LEMMA ViewerLog ==
  ASSUME ViewerInv, model.end = "no", NEW c \in cmds, V!LogLoaded(c)
  PROVE  ViewerInv'
<1>0. /\ ViewerState(model, world, cmds) /\ Shaped(model, world) /\ DOMAIN model = ViewerFields
      /\ DOMAIN model.cache = Nodes /\ Panels(model) /\ UNCHANGED world /\ cmds' = cmds \ {c} /\ c.kind = "log"
  BY DEF ViewerInv, ViewerState, Shaped, V!LogLoaded
<1>1. PICK k \in Nodes : c = V!LogOf(k)
  <2>1. c # Steps /\ c # Clock /\ ~WaitOf(world, c)
    BY <1>0 DEF Steps, Clock, WaitOf, V!Wait
  <2> QED BY <1>0, <2>1 DEF ViewerState, Given
<1>2. c.node = k
  BY <1>1 DEF V!LogOf
<1>3. DOMAIN model' = ViewerFields /\ (\A x \in ViewerFields \ {"shown", "loading", "cache", "before"} : model'[x] = model[x])
      /\ \/ model'.cache = model.cache /\ model'.before = model.before
         \/ model'.cache = [model.cache EXCEPT ![k] = Whole] /\ model'.before = [model.before EXCEPT ![k] = <<>>]
      /\ Panels(model')
  <2> DEFINE m == [model EXCEPT !.loading = FALSE]
             got == [m EXCEPT !.cache[k] = Whole, !.before[k] = <<>>]
  <2>1. DOMAIN m = ViewerFields /\ \A x \in ViewerFields \ {"loading"} : m[x] = model[x]
    BY <1>0 DEF ViewerFields
  <2>2. /\ DOMAIN got = ViewerFields /\ got.cache = [model.cache EXCEPT ![k] = Whole]
        /\ got.before = [model.before EXCEPT ![k] = <<>>]
        /\ \A x \in ViewerFields \ {"loading", "cache", "before"} : got[x] = model[x]
    BY <1>0 DEF ViewerFields
  <2>3. \/ model' = IF V!OnLogOf(m, k) THEN V!ShowCache(got) ELSE got
        \/ model' = IF V!OnLogOf(m, k) THEN V!Panel(m, "error", <<>>) ELSE m
    BY <1>2 DEF V!LogLoaded
  <2> HIDE DEF m, got
  <2>4. m.selected = model.selected /\ m.tab = model.tab /\ got.selected = model.selected /\ got.tab = model.tab
        /\ m.cache = model.cache /\ m.before = model.before /\ m.shown = model.shown /\ got.shown = model.shown
    BY <2>1, <2>2 DEF ViewerFields
  <2>5. CASE model' = V!Panel(got, "log", got.cache[got.selected])
    <3>1. /\ DOMAIN model' = ViewerFields /\ \A x \in ViewerFields \ {"shown"} : model'[x] = got[x]
          /\ model'.shown.node = got.selected /\ model'.shown.text = got.cache[got.selected]
      BY <2>2, <2>5, PanelFacts
    <3>2. model'.cache = got.cache /\ model'.selected = got.selected /\ model'.before = got.before
      BY <3>1 DEF ViewerFields
    <3>3. Panels(model')
      BY <3>1, <3>2 DEF Panels
    <3> QED BY <2>2, <3>1, <3>2, <3>3
  <2>6. CASE model' = V!Panel(m, "error", <<>>)
    <3>1. /\ DOMAIN model' = ViewerFields /\ \A x \in ViewerFields \ {"shown"} : model'[x] = m[x]
          /\ model'.shown.node = m.selected /\ model'.shown.what = "error"
      BY <2>1, <2>6, PanelFacts
    <3>2. model'.cache = m.cache /\ model'.selected = m.selected /\ model'.before = m.before
      BY <3>1 DEF ViewerFields
    <3>3. Panels(model')
      BY <3>1, <3>2 DEF Panels
    <3> QED BY <2>1, <2>4, <3>1, <3>2, <3>3
  <2>7. CASE model' = m
    <3>1. Panels(model')
      BY <1>0, <2>4, <2>7 DEF Panels
    <3> QED BY <2>1, <2>4, <2>7, <3>1
  <2>8. CASE model' = got /\ ~V!OnLogOf(m, k)
    <3>1. model.tab = "logs" => model.selected # k
      BY <2>4, <2>8 DEF V!OnLogOf
    <3>2. \A n : n # k => got.cache[n] = model.cache[n]
      BY <1>0, <2>2
    <3>3. Panels(model')
      BY <1>0, <2>4, <2>8, <3>1, <3>2 DEF Panels
    <3> QED BY <2>2, <2>8, <3>3
  <2> QED BY <2>3, <2>5, <2>6, <2>7, <2>8 DEF V!ShowCache
<1>4. /\ model'.known = model.known /\ model'.stream = model.stream /\ model'.selected = model.selected
      /\ model'.upset = model.upset /\ model'.end = model.end /\ model'.over = model.over /\ model'.state = model.state
  BY <1>3 DEF ViewerFields
<1>5. DOMAIN model'.cache = Nodes /\ (\A n \in Nodes \ {k} : model'.cache[n] = model.cache[n])
      /\ DOMAIN model'.before = Nodes /\ (\A n \in Nodes \ {k} : model'.before[n] = model.before[n])
      /\ \/ model'.cache[k] = model.cache[k] /\ model'.before[k] = model.before[k]
         \/ model'.cache[k] = Whole /\ model'.before[k] = <<>>
  <2>1. DOMAIN model.before = Nodes
    BY <1>0 DEF Shaped
  <2> QED BY <1>0, <1>1, <1>3, <2>1
<1>6. Shaped(model', world)
  <2>1. ASSUME NEW n \in Nodes PROVE model'.cache[n] \in Seq(Line) \cup {None} /\ model'.before[n] \in Seq(Line)
    <3>1. model.cache[n] \in Seq(Line) \cup {None} /\ model.before[n] \in Seq(Line) /\ <<>> \in Seq(Line)
      BY <1>0 DEF Shaped
    <3> QED BY <1>5, <3>1, ViewerAssumption
  <2> QED BY <1>0, <1>3, <1>4, <1>5, <2>1 DEF Shaped
<1>7. Given(world, cmds')
  BY <1>0 DEF ViewerState, Given
<1>8. Held(model', world)
  BY <1>0, <1>4 DEF ViewerState, Held
<1>9. ASSUME NEW n \in Nodes \ model'.upset PROVE Faithful(model', world, cmds', n)
  <2>1. Faithful(model, world, cmds, n)
    BY <1>0, <1>4 DEF ViewerState
  <2>2. CASE model'.cache[n] = model.cache[n] /\ model'.before[n] = model.before[n]
    BY <1>0, <1>4, <2>1, <2>2 DEF Faithful
  <2>3. CASE n = k /\ model'.cache[k] = Whole /\ model'.before[k] = <<>>
    <3>0. <<>> \in Seq(Line) /\ AfterAll(<<>>) /\ Brought(<<>>, 0) = <<>> /\ Brought(<<>>, Len(Whole)) = Whole
      <4>1. <<>> \in Seq(Line)
        OBVIOUS
      <4> QED BY <4>1, Bringing
    <3>1. CASE model.stream[n] = 0
      BY <1>0, <1>4, <2>1, <2>3, <3>0, <3>1 DEF Faithful
    <3>2. CASE model.stream[n] # 0
      <4>1. Whole = <<>>
        BY <1>1, <2>1, <2>3, <3>2 DEF Faithful
      <4>2. world.chans[model.stream[n]] \in Channel
        BY <1>0, <3>2 DEF Shaped
      <4>3. world.chans[model.stream[n]].taken \in 0..Len(Whole)
        BY <4>2 DEF Channel
      <4>4. world.chans[model.stream[n]].taken = 0
        BY <4>1, <4>3
      <4>5. model'.cache[n] = Brought(model'.before[n], world.chans[model.stream[n]].taken)
        BY <2>3, <3>0, <4>1, <4>4
      <4> QED BY <1>0, <1>4, <2>1, <2>3, <3>0, <3>2, <4>5 DEF Faithful
    <3> QED BY <3>1, <3>2
  <2> QED BY <1>5, <2>2, <2>3
<1>10. model'.end = "no" => Polled(model', cmds')
  <2>1. Polls(cmds') = Polls(cmds)
    BY <1>0, PollsStay
  <2> QED BY <1>0, <1>4, <2>1 DEF ViewerState, Polled
<1> QED BY <1>0, <1>3, <1>6, <1>7, <1>8, <1>9, <1>10 DEF ViewerInv, ViewerState

-----------------------------------------------------------------------------
\* Whoever reads a channel reads it for the step that the channel is of.
LEMMA WhoReads ==
  ASSUME ViewerInv, NEW c \in cmds, c.kind = "wait"
  PROVE  /\ c.node \in Nodes /\ c.chan \in 1..Len(world.chans) /\ world.chans[c.chan].node = c.node
         /\ world.chans \in Seq(Channel) /\ world.chans[c.chan] \in Channel
         /\ WaitOf(world, c) /\ (c = V!Wait(c.node, c.chan, FALSE) \/ c = V!Wait(c.node, c.chan, TRUE))
<1>1. c # Steps /\ c # Clock /\ (\A n \in Nodes : c # V!LogOf(n))
  BY DEF Steps, Clock, V!LogOf
<1>2. WaitOf(world, c)
  BY <1>1 DEF ViewerInv, ViewerState, Given
<1>3. PICK n \in Nodes, i \in 1..Len(world.chans) : (c = V!Wait(n, i, FALSE) \/ c = V!Wait(n, i, TRUE)) /\ world.chans[i].node = n
  BY <1>2 DEF WaitOf
<1>4. c.node = n /\ c.chan = i
  BY <1>3 DEF V!Wait
<1>5. world.chans \in Seq(Channel)
  BY DEF ViewerInv, ViewerState, Shaped
<1>6. world.chans[i] \in Channel
  BY <1>5
<1> QED BY <1>2, <1>3, <1>4, <1>5, <1>6

\* One line more is taken.
LEMMA Taken ==
  ASSUME NEW x \in Channel, x.taken < x.sent
  PROVE  LET y == [x EXCEPT !.taken = @ + 1] IN
         /\ x.taken \in 0..(Len(Whole) - 1) /\ x.taken + 1 <= x.sent
         /\ y \in Channel /\ y.node = x.node /\ y.taken = x.taken + 1 /\ y.sent = x.sent
         /\ y.open = x.open /\ y.cancelled = x.cancelled
<1> DEFINE y == [x EXCEPT !.taken = @ + 1]
<1>1. Len(Whole) \in Nat /\ x.taken \in 0..Len(Whole) /\ x.sent \in 0..Len(Whole)
  BY Prefixes DEF Channel
<1>2. x.taken \in 0..(Len(Whole) - 1) /\ x.taken + 1 <= x.sent /\ x.taken + 1 \in 0..Len(Whole)
  BY <1>1
<1>3. y \in Channel
  BY <1>2 DEF Channel
<1>4. y.node = x.node /\ y.taken = x.taken + 1 /\ y.sent = x.sent /\ y.open = x.open /\ y.cancelled = x.cancelled
  BY DEF Channel
<1> QED BY <1>2, <1>3, <1>4

\* A line is taken, for the step that it is of.
LEMMA ViewerLine ==
  ASSUME ViewerInv, model.end = "no", NEW c \in cmds, V!StreamLine(c)
  PROVE  ViewerInv'
<1> DEFINE k == c.node
           i == c.chan
           line == Whole[world.chans[i].taken + 1]
           r == [world.chans[i] EXCEPT !.taken = @ + 1]
<1>0. /\ ViewerState(model, world, cmds) /\ Shaped(model, world) /\ DOMAIN model = ViewerFields /\ DOMAIN model.cache = Nodes
      /\ DOMAIN world = {"status", "done", "chans"} /\ Len(world.chans) \in Nat /\ Panels(model) /\ c.kind = "wait"
  <2>1. ViewerState(model, world, cmds) /\ Panels(model)
    BY DEF ViewerInv
  <2>2. Shaped(model, world)
    BY <2>1 DEF ViewerState
  <2>3. c.kind = "wait"
    BY DEF V!StreamLine
  <2> QED BY <2>1, <2>2, <2>3 DEF Shaped
<1>1. /\ k \in Nodes /\ i \in 1..Len(world.chans) /\ world.chans[i].node = k /\ world.chans[i] \in Channel
      /\ world.chans \in Seq(Channel)
  BY <1>0, WhoReads
<1>2. world.chans[i].taken < world.chans[i].sent
  BY DEF V!StreamLine
<1>3. world.chans[i].taken \in 0..(Len(Whole) - 1) /\ world.chans[i].taken + 1 <= world.chans[i].sent /\ line \in Line
  <2>1. world.chans[i].taken \in 0..(Len(Whole) - 1) /\ world.chans[i].taken + 1 <= world.chans[i].sent
    BY <1>1, <1>2, Taken
  <2> QED BY <2>1, Prefixes
<1>4. r \in Channel /\ r.node = k /\ r.taken = world.chans[i].taken + 1 /\ r.sent = world.chans[i].sent
      /\ r.open = world.chans[i].open /\ r.cancelled = world.chans[i].cancelled
  BY <1>1, <1>2, Taken
<1>5. world' = [world EXCEPT !.chans = [world.chans EXCEPT ![i] = r]]
  BY <1>0, <1>1 DEF V!StreamLine
<1>6. /\ DOMAIN model' = ViewerFields /\ (\A x \in ViewerFields \ {"shown", "cache"} : model'[x] = model[x]) /\ Panels(model')
      /\ IF model.cache[k] = None THEN model'.cache = model.cache
         ELSE model'.cache = [model.cache EXCEPT ![k] = Append(model.cache[k], line)]
  <2>1. CASE model.cache[k] = None
    <3>1. model' = model
      BY <1>0, <2>1 DEF V!StreamLine
    <3> QED BY <1>0, <2>1, <3>1
  <2>2. CASE model.cache[k] # None
    <3> DEFINE m == [model EXCEPT !.cache[k] = Append(@, line)]
    <3>1. /\ DOMAIN m = ViewerFields /\ m.cache = [model.cache EXCEPT ![k] = Append(model.cache[k], line)]
          /\ \A x \in ViewerFields \ {"cache"} : m[x] = model[x]
      BY <1>0 DEF ViewerFields
    <3>2. model' = IF V!OnLogOf(m, k) /\ m.cache[k] # None THEN V!Panel(m, "log", m.cache[m.selected]) ELSE m
      BY <2>2 DEF V!StreamLine, V!ShowCache
    <3> HIDE DEF m, line
    <3>3. m.cache[k] # None
      <4>1. model.cache[k] \in Seq(Line)
        BY <1>0, <1>1, <2>2 DEF Shaped
      <4>2. m.cache[k] = Append(model.cache[k], line)
        BY <1>0, <1>1, <3>1
      <4>3. Append(model.cache[k], line) \in Seq(Line)
        BY <1>3, <4>1
      <4> QED BY <4>2, <4>3, ViewerAssumption
    <3>4. m.selected = model.selected /\ m.tab = model.tab /\ m.shown = model.shown
      BY <3>1 DEF ViewerFields
    <3>5. CASE V!OnLogOf(m, k)
      <4>1. /\ DOMAIN model' = ViewerFields /\ \A x \in ViewerFields \ {"shown"} : model'[x] = m[x]
            /\ model'.shown.node = m.selected /\ model'.shown.text = m.cache[m.selected]
        BY <3>1, <3>2, <3>3, <3>5, PanelFacts
      <4>2. model'.cache = m.cache /\ model'.selected = m.selected
        BY <4>1 DEF ViewerFields
      <4>3. Panels(model')
        BY <4>1, <4>2 DEF Panels
      <4> QED BY <2>2, <3>1, <4>1, <4>2, <4>3
    <3>6. CASE ~V!OnLogOf(m, k)
      <4>1. model' = m
        BY <3>2, <3>6
      <4>2. model.tab = "logs" => model.selected # k
        BY <3>4, <3>6 DEF V!OnLogOf
      <4>3. \A n : n # k => m.cache[n] = model.cache[n]
        BY <1>0, <3>1
      <4>4. Panels(model')
        BY <1>0, <3>4, <4>1, <4>2, <4>3 DEF Panels
      <4> QED BY <2>2, <3>1, <4>1, <4>4
    <3> QED BY <3>5, <3>6
  <2> QED BY <2>1, <2>2
<1>7. cmds' = (cmds \ {c}) \cup (IF model.stream[k] = 0 THEN {}
                                 ELSE IF model.stream[k] = i THEN {c} ELSE {V!Waiting(k, model.stream[k])})
  BY DEF V!StreamLine
<1> HIDE DEF line, r
<1>8. /\ world'.chans = [world.chans EXCEPT ![i] = r] /\ world'.status = world.status
      /\ world'.done \in BOOLEAN /\ DOMAIN world' = {"status", "done", "chans"}
  BY <1>0, <1>5 DEF Shaped
<1> HIDE DEF i
<1>9. world'.chans \in Seq(Channel) /\ Len(world'.chans) = Len(world.chans) /\ world'.chans[i] = r
      /\ \A j \in 1..Len(world.chans) : j # i => world'.chans[j] = world.chans[j]
  BY <1>1, <1>4, <1>8, OneOther
<1> HIDE DEF k
<1>10. /\ model'.known = model.known /\ model'.stream = model.stream /\ model'.selected = model.selected
       /\ model'.upset = model.upset /\ model'.end = model.end /\ model'.over = model.over /\ model'.state = model.state
       /\ model'.before = model.before
  BY <1>6 DEF ViewerFields
<1>11. /\ DOMAIN model'.cache = Nodes /\ \A n \in Nodes \ {k} : model'.cache[n] = model.cache[n]
       /\ model.cache[k] = None => model'.cache[k] = None
       /\ model.cache[k] # None => model'.cache[k] = Append(model.cache[k], line)
  BY <1>0, <1>1, <1>6
<1>12. \A j \in 1..Len(world.chans) :
         /\ world'.chans[j].node = world.chans[j].node /\ world'.chans[j].taken <= world'.chans[j].sent
         /\ world'.chans[j].open = world.chans[j].open /\ world'.chans[j].cancelled = world.chans[j].cancelled
  <2> SUFFICES ASSUME NEW j \in 1..Len(world.chans)
               PROVE  /\ world'.chans[j].node = world.chans[j].node /\ world'.chans[j].taken <= world'.chans[j].sent
                      /\ world'.chans[j].open = world.chans[j].open /\ world'.chans[j].cancelled = world.chans[j].cancelled
    OBVIOUS
  <2>1. CASE j = i
    BY <1>1, <1>3, <1>4, <1>9, <2>1
  <2>2. CASE j # i
    BY <1>0, <1>9, <2>2 DEF Shaped
  <2> QED BY <2>1, <2>2
<1>13. Shaped(model', world')
  <2>1. ASSUME NEW n \in Nodes PROVE model'.cache[n] \in Seq(Line) \cup {None} /\ model'.before[n] \in Seq(Line)
    <3>1. model.cache[n] \in Seq(Line) \cup {None} /\ model.before[n] \in Seq(Line)
      BY <1>0 DEF Shaped
    <3>2. model.cache[n] \in Seq(Line) => Append(model.cache[n], line) \in Seq(Line)
      BY <1>3
    <3> QED BY <1>10, <1>11, <3>1, <3>2
  <2> QED BY <1>0, <1>6, <1>8, <1>9, <1>10, <1>11, <1>12, <2>1 DEF Shaped
<1>14. Given(world', cmds')
  <2>1. ASSUME NEW d, WaitOf(world, d) PROVE WaitOf(world', d)
    <3>1. PICK n \in Nodes, j \in 1..Len(world.chans) : (d = V!Wait(n, j, FALSE) \/ d = V!Wait(n, j, TRUE)) /\ world.chans[j].node = n
      BY <2>1 DEF WaitOf
    <3>2. j \in 1..Len(world'.chans) /\ world'.chans[j].node = n
      BY <1>9, <1>12, <3>1
    <3> QED BY <3>1, <3>2 DEF WaitOf
  <2>2. model.stream[k] # 0 => WaitOf(world, V!Waiting(k, model.stream[k]))
    BY <1>0, <1>1 DEF Shaped, WaitOf, V!Waiting
  <2>3. \A d \in cmds' : d \in cmds \/ (model.stream[k] # 0 /\ d = V!Waiting(k, model.stream[k]))
    BY <1>7
  <2>4. Given(world, cmds)
    BY <1>0 DEF ViewerState
  <2> QED BY <2>1, <2>2, <2>3, <2>4 DEF Given
<1>15. Held(model', world')
  <2> SUFFICES ASSUME NEW j \in 1..Len(world.chans), world'.chans[j].open, ~world'.chans[j].cancelled
               PROVE  model'.end = "no" /\ model'.stream[world'.chans[j].node] = j
    BY <1>9 DEF Held
  <2>1. world.chans[j].open /\ ~world.chans[j].cancelled /\ world'.chans[j].node = world.chans[j].node
    BY <1>12
  <2> QED BY <1>0, <1>10, <2>1 DEF ViewerState, Held
<1>16. ASSUME NEW n \in Nodes \ model'.upset PROVE Faithful(model', world', cmds', n)
  <2>1. Faithful(model, world, cmds, n)
    BY <1>0, <1>10 DEF ViewerState
  <2>2. V!LogOf(n) \in cmds' => V!LogOf(n) \in cmds
    <3>1. V!LogOf(n).kind = "log" /\ V!Waiting(k, model.stream[k]).kind = "wait"
      BY DEF V!LogOf, V!Waiting, V!Wait
    <3> QED BY <1>7, <3>1
  <2>3. CASE n = k
    <3>1. model.stream[n] = i /\ c = V!Wait(n, i, FALSE) /\ i # 0
      <4>1. model.stream[n] # 0 /\ c = V!Wait(n, model.stream[n], FALSE)
        BY <1>0, <2>1, <2>3 DEF Faithful, k
      <4>2. c.chan = model.stream[n]
        BY <4>1 DEF V!Wait
      <4> QED BY <4>1, <4>2 DEF i
    <3>2. cmds' = cmds
      BY <1>7, <2>3, <3>1
    <3> DEFINE b == model.before[n]
    <3>3. model.cache[n] = Brought(b, world.chans[i].taken) /\ b \in Seq(Line)
      BY <1>0, <2>1, <3>1 DEF Faithful, Shaped
    <3>4. model.cache[n] \in Seq(Line)
      <4>1. world.chans[i].taken \in 0..Len(Whole)
        BY <1>1 DEF Channel, i
      <4> QED BY <3>3, <4>1, Bringing
    <3>5. model'.cache[n] = Append(Brought(b, world.chans[i].taken), line)
      BY <1>11, <2>3, <3>3, <3>4, ViewerAssumption
    <3>6. model'.cache[n] = Brought(model'.before[n], world'.chans[i].taken)
      <4>1. world'.chans[i].taken = world.chans[i].taken + 1 /\ model'.before[n] = b
        BY <1>4, <1>9, <1>10 DEF i
      <4>2. Append(Brought(b, world.chans[i].taken), line) = Brought(b, world.chans[i].taken + 1)
        BY <1>3, <3>3, Bringing DEF line, i
      <4> QED BY <3>5, <4>1, <4>2
    <3> QED BY <1>10, <2>1, <3>1, <3>2, <3>6 DEF Faithful
  <2>4. CASE n # k
    <3>1. model'.cache[n] = model.cache[n]
      BY <1>11, <2>4
    <3>2. model.stream[n] # 0 => world'.chans[model.stream[n]] = world.chans[model.stream[n]]
      BY <1>0, <1>1, <1>9, <2>4 DEF Shaped, k
    <3>3. \A d \in cmds' : d.kind = "wait" /\ d.node = n => d \in cmds
      <4>1. V!Waiting(k, model.stream[k]).node = k
        BY DEF V!Waiting, V!Wait
      <4> QED BY <1>7, <2>4, <4>1
    <3> QED BY <1>10, <2>1, <2>2, <3>1, <3>2, <3>3 DEF Faithful
  <2> QED BY <2>3, <2>4
<1>17. model'.end = "no" => Polled(model', cmds')
  <2>1. \A d : d.kind \in {"steps", "tick"} => (d \in cmds' <=> d \in cmds)
    <3>1. V!Waiting(k, model.stream[k]).kind = "wait"
      BY DEF V!Waiting, V!Wait
    <3> QED BY <1>0, <1>7, <3>1
  <2>2. Polls(cmds') = Polls(cmds)
    BY <2>1 DEF Polls
  <2> QED BY <1>0, <1>10, <2>2 DEF ViewerState, Polled
<1> QED BY <1>6, <1>13, <1>14, <1>15, <1>16, <1>17 DEF ViewerInv, ViewerState

\* A channel is read out: the stream that the step has by now is given up.
LEMMA ViewerDone ==
  ASSUME ViewerInv, model.end = "no", NEW c \in cmds, V!StreamDone(c)
  PROVE  ViewerInv'
<1> DEFINE k == c.node
           w == V!Cancelled(k)
<1>0. /\ ViewerState(model, world, cmds) /\ Shaped(model, world) /\ DOMAIN model = ViewerFields /\ DOMAIN model.cache = Nodes
      /\ Panels(model) /\ c.kind = "wait" /\ world' = w
  <2>1. ViewerState(model, world, cmds) /\ Panels(model)
    BY DEF ViewerInv
  <2>2. Shaped(model, world)
    BY <2>1 DEF ViewerState
  <2>3. c.kind = "wait" /\ world' = w
    BY DEF V!StreamDone
  <2> QED BY <2>1, <2>2, <2>3 DEF Shaped
<1>1. /\ k \in Nodes /\ c.chan \in 1..Len(world.chans) /\ world.chans[c.chan] \in Channel
      /\ world.chans[c.chan].taken = world.chans[c.chan].sent
  BY <1>0, WhoReads DEF V!StreamDone
<1>2. /\ ViewerState(model, w, cmds) /\ Idle(w, k)
      /\ \A i \in 1..Len(world.chans) : w.chans[i].node = world.chans[i].node /\ w.chans[i].taken = world.chans[i].taken
  BY <1>0, <1>1, CancelledKeeps
<1>3. /\ DOMAIN model' = ViewerFields /\ model'.stream = [model.stream EXCEPT ![k] = 0]
      /\ (\A x \in ViewerFields \ {"stream", "upset", "shown", "loading"} : model'[x] = model[x])
      /\ model'.upset = IF world.chans[c.chan].sent < Len(Whole) \/ model.stream[k] # c.chan THEN model.upset \cup {k} ELSE model.upset
      /\ Panels(model')
      /\ \/ model.cache[k] \in {None, <<>>} /\ cmds' = (cmds \ {c}) \cup {V!LogOf(k)}
         \/ cmds' = cmds \ {c}
  <2> DEFINE m == [model EXCEPT !.stream[k] = 0,
                     !.upset = IF world.chans[c.chan].sent < Len(Whole) \/ model.stream[k] # c.chan THEN @ \cup {k} ELSE @]
             o == [m EXCEPT !.loading = TRUE]
  <2>1. /\ DOMAIN m = ViewerFields /\ m.stream = [model.stream EXCEPT ![k] = 0]
        /\ m.upset = (IF world.chans[c.chan].sent < Len(Whole) \/ model.stream[k] # c.chan THEN model.upset \cup {k} ELSE model.upset)
        /\ \A x \in ViewerFields \ {"stream", "upset"} : m[x] = model[x]
    BY <1>0 DEF ViewerFields
  <2>2. \/ m.cache[k] \in {None, <<>>} /\ model' = V!Panel(o, "loading", <<>>) /\ cmds' = (cmds \ {c}) \cup {V!LogOf(k)}
        \/ model' = m /\ cmds' = cmds \ {c}
    BY DEF V!StreamDone
  <2> HIDE DEF m
  <2>3. DOMAIN o = ViewerFields /\ \A x \in ViewerFields \ {"loading"} : o[x] = m[x]
    BY <2>1 DEF ViewerFields
  <2> HIDE DEF o
  <2>4. m.cache = model.cache /\ m.tab = model.tab /\ m.selected = model.selected /\ m.shown = model.shown
    BY <2>1 DEF ViewerFields
  <2>5. CASE model' = V!Panel(o, "loading", <<>>)
    <3>1. /\ DOMAIN model' = ViewerFields /\ \A x \in ViewerFields \ {"shown"} : model'[x] = o[x]
          /\ model'.shown.node = o.selected /\ model'.shown.what = "loading"
      BY <2>3, <2>5, PanelFacts
    <3>2. model'.selected = o.selected /\ model'.stream = m.stream /\ model'.upset = m.upset
      BY <2>3, <3>1 DEF ViewerFields
    <3>3. Panels(model')
      BY <3>1, <3>2 DEF Panels
    <3>4. \A x \in ViewerFields \ {"stream", "upset", "shown", "loading"} : model'[x] = model[x]
      BY <2>1, <2>3, <3>1
    <3> QED BY <2>1, <2>2, <2>4, <3>1, <3>2, <3>3, <3>4
  <2>6. CASE model' = m /\ cmds' = cmds \ {c}
    <3>1. Panels(model')
      BY <1>0, <2>4, <2>6 DEF Panels
    <3> QED BY <2>1, <2>6, <3>1
  <2> QED BY <2>2, <2>5, <2>6
<1> HIDE DEF w, k
<1>4. /\ model'.cache = model.cache /\ model'.stream[k] = 0 /\ model'.before = model.before
  <2>1. DOMAIN model.stream = Nodes
    BY <1>0 DEF Shaped
  <2> QED BY <1>1, <1>3, <2>1 DEF ViewerFields
<1>5. \A d \in cmds' : d \in cmds \/ d = V!LogOf(k)
  BY <1>3
<1>6. Given(w, cmds')
  <2>1. Given(w, cmds)
    BY <1>2 DEF ViewerState
  <2> QED BY <1>1, <1>5, <2>1 DEF Given
<1>7. Polls(cmds') = Polls(cmds)
  <2>1. V!LogOf(k).kind = "log"
    BY DEF V!LogOf
  <2>2. Polls(cmds \ {c}) = Polls(cmds)
    BY <1>0, PollsStay
  <2>3. Polls((cmds \ {c}) \cup {V!LogOf(k)}) = Polls(cmds \ {c})
    BY <2>1, PollsStay
  <2> QED BY <1>3, <2>2, <2>3
<1>8. \A d \in cmds' : d \in cmds \/ (d.kind \in {"wait", "log"} /\ d.node = k)
  BY <1>5 DEF V!LogOf
<1>9. ASSUME k \notin model'.upset PROVE Faithful(model', w, cmds', k)
  <2>1. k \notin model.upset /\ model.stream[k] = c.chan /\ ~(world.chans[c.chan].sent < Len(Whole))
    BY <1>3, <1>9
  <2>2. Faithful(model, world, cmds, k)
    BY <1>0, <1>1, <2>1 DEF ViewerState
  <2>3. c.chan # 0
    BY <1>1
  <2>4. c = V!Wait(k, model.stream[k], FALSE) /\ \A d \in cmds : d.kind = "wait" /\ d.node = k => d = c
    BY <1>0, <2>2 DEF Faithful, k
  <2>5. \A d \in cmds' : d.kind = "wait" /\ d.node = k => FALSE
    <3>1. V!LogOf(k).kind = "log"
      BY DEF V!LogOf
    <3> QED BY <1>3, <2>4, <3>1
  <2> DEFINE b == model.before[k]
  <2>8. b \in Seq(Line) /\ AfterAll(b)
    BY <1>0, <1>1, <2>2 DEF Shaped, Faithful
  <2>6. model.cache[k] = Brought(b, Len(Whole))
    <3>1. world.chans[c.chan].taken \in 0..Len(Whole) /\ world.chans[c.chan].sent \in 0..Len(Whole) /\ Len(Whole) \in Nat
      BY <1>1, Prefixes DEF Channel
    <3>2. world.chans[c.chan].taken = Len(Whole)
      BY <1>1, <2>1, <3>1
    <3>3. model.cache[k] = Brought(b, world.chans[c.chan].taken)
      BY <2>1, <2>2, <2>3 DEF Faithful
    <3> QED BY <3>2, <3>3
  <2>7. V!LogOf(k) \in cmds' => Whole = <<>>
    <3>1. V!LogOf(k) \in cmds => Whole = <<>>
      BY <2>1, <2>2, <2>3 DEF Faithful
    <3>2. model.cache[k] \in {None, <<>>} => Whole = <<>>
      <4>1. Brought(b, Len(Whole)) \in Seq(Line) /\ (Brought(b, Len(Whole)) = <<>> => Whole = <<>>)
        BY <2>8, Prefixes, Bringing
      <4> QED BY <2>6, <4>1, ViewerAssumption
    <3> QED BY <1>3, <3>1, <3>2
  <2> QED BY <1>4, <2>5, <2>6, <2>7, <2>8 DEF Faithful
<1>10. ViewerState(model', w, cmds')
  <2>1. \A x \in ViewerFields \ {"stream", "cache", "before", "upset", "shown", "loading"} : model'[x] = model[x]
    BY <1>3
  <2>2. model'.upset = model.upset \/ model'.upset = model.upset \cup {k}
    BY <1>3
  <2>3. DOMAIN model'.cache = Nodes /\ model'.cache[k] \in Seq(Line) \cup {None}
        /\ DOMAIN model'.before = Nodes /\ model'.before[k] \in Seq(Line)
        /\ \A n \in Nodes \ {k} : model'.cache[n] = model.cache[n] /\ model'.before[n] = model.before[n]
    BY <1>0, <1>1, <1>4 DEF Shaped
  <2>4. ViewerState(model, w, cmds) /\ Idle(w, k) /\ k \in Nodes /\ DOMAIN model' = ViewerFields
        /\ model'.stream = [model.stream EXCEPT ![k] = 0]
    BY <1>1, <1>2, <1>3
  <2> DEFINE h == model'
             p == cmds'
  <2>5. /\ ViewerState(model, w, cmds) /\ Idle(w, k) /\ k \in Nodes /\ DOMAIN h = ViewerFields
        /\ h.stream = [model.stream EXCEPT ![k] = 0]
        /\ \A x \in ViewerFields \ {"stream", "cache", "before", "upset", "shown", "loading"} : h[x] = model[x]
        /\ h.upset = model.upset \/ h.upset = model.upset \cup {k}
    BY <2>1, <2>2, <2>4
  <2>6. DOMAIN h.cache = Nodes /\ h.cache[k] \in Seq(Line) \cup {None} /\ DOMAIN h.before = Nodes /\ h.before[k] \in Seq(Line)
        /\ \A n \in Nodes \ {k} : h.cache[n] = model.cache[n] /\ h.before[n] = model.before[n]
    BY <2>3
  <2>7. /\ Given(w, p) /\ Polls(p) = Polls(cmds) /\ (\A d \in p : d \in cmds \/ (d.kind \in {"wait", "log"} /\ d.node = k))
        /\ k \notin h.upset => Faithful(h, w, p, k)
    BY <1>6, <1>7, <1>8, <1>9
  <2> HIDE DEF h, p
  <2>8. GivesUp(model, w, cmds, k, h, p)
    BY <2>5, <2>6, <2>7 DEF GivesUp
  <2>9. ViewerState(h, w, p)
    BY <2>5, <2>8, GivenUp
  <2> QED BY <2>9 DEF h, p
<1> QED BY <1>0, <1>3, <1>10 DEF ViewerInv

\* The steps end, and the goroutines go on.
LEMMA ViewerWorld ==
  ASSUME ViewerInv, V!Done \/ (\E n \in Nodes : V!Ended(n)) \/ (\E i \in DOMAIN world.chans : V!Send(i) \/ V!Close(i))
  PROVE  ViewerInv'
<1>0. ViewerState(model, world, cmds) /\ Shaped(model, world) /\ DOMAIN world = {"status", "done", "chans"} /\ DOMAIN world.status = Nodes
      /\ world.chans \in Seq(Channel) /\ DOMAIN world.chans = 1..Len(world.chans) /\ UNCHANGED <<model, cmds>>
  <2>1. ViewerState(model, world, cmds) /\ Shaped(model, world)
    BY DEF ViewerInv, ViewerState
  <2>2. UNCHANGED <<model, cmds>>
    BY DEF V!Done, V!Ended, V!Send, V!Close
  <2> QED BY <2>1, <2>2 DEF Shaped
<1>1. ASSUME V!Done \/ \E n \in Nodes : V!Ended(n) PROVE ViewerInv'
  <2>1. world'.chans = world.chans /\ DOMAIN world' = {"status", "done", "chans"} /\ world'.done \in BOOLEAN
        /\ (world'.status = world.status \/ \E n \in Nodes : world'.status = [world.status EXCEPT ![n] = "ended"])
    BY <1>0, <1>1 DEF V!Done, V!Ended, Shaped
  <2>2. DOMAIN world'.status = Nodes /\ \A k \in Nodes : world.status[k] = "ended" => world'.status[k] = "ended"
    BY <1>0, <2>1
  <2>3. Shaped(model, world')
    BY <1>0, <2>1, <2>2 DEF Shaped
  <2>4. Held(model, world') /\ Given(world', cmds)
    <3>1. Held(model, world) /\ Given(world, cmds)
      BY <1>0 DEF ViewerState
    <3>2. Held(model, world')
      BY <2>1, <3>1 DEF Held
    <3>3. \A d : WaitOf(world, d) <=> WaitOf(world', d)
      BY <2>1 DEF WaitOf
    <3> QED BY <3>1, <3>2, <3>3 DEF Given
  <2>5. ASSUME NEW k \in Nodes \ model.upset PROVE Faithful(model, world', cmds, k)
    <3>1. Faithful(model, world, cmds, k)
      BY <1>0 DEF ViewerState
    <3> QED BY <2>1, <3>1 DEF Faithful
  <2>6. ViewerState(model, world', cmds)
    BY <1>0, <2>3, <2>4, <2>5 DEF ViewerState
  <2> QED BY <1>0, <2>6 DEF ViewerInv
<1>2. ASSUME NEW i \in 1..Len(world.chans), NEW r \in Channel, world' = [world EXCEPT !.chans[i] = r],
             r.node = world.chans[i].node, r.taken = world.chans[i].taken, r.taken <= r.sent,
             r.open /\ ~r.cancelled => world.chans[i].open /\ ~world.chans[i].cancelled
      PROVE  ViewerInv'
  <2>1. world'.chans = [world.chans EXCEPT ![i] = r] /\ world'.status = world.status /\ world'.done = world.done /\ DOMAIN world' = {"status", "done", "chans"}
    <3>1. world' = [world EXCEPT !.chans = [world.chans EXCEPT ![i] = r]]
      BY <1>2
    <3> QED BY <1>0, <3>1
  <2>2. world'.chans \in Seq(Channel) /\ Len(world'.chans) = Len(world.chans) /\ world'.chans[i] = r
        /\ \A j \in 1..Len(world.chans) : j # i => world'.chans[j] = world.chans[j]
    BY <1>0, <2>1, OneOther
  <2>3. ASSUME NEW j \in 1..Len(world.chans)
        PROVE  /\ world'.chans[j].node = world.chans[j].node /\ world'.chans[j].taken = world.chans[j].taken
               /\ world'.chans[j].taken <= world'.chans[j].sent
               /\ world'.chans[j].open /\ ~world'.chans[j].cancelled => world.chans[j].open /\ ~world.chans[j].cancelled
    <3>1. CASE j = i
      BY <1>2, <2>2, <3>1
    <3>2. CASE j # i
      BY <1>0, <2>2, <3>2 DEF Shaped
    <3> QED BY <3>1, <3>2
  <2>4. DOMAIN world'.status = Nodes /\ world'.done \in BOOLEAN
        /\ \A n \in Nodes : world.status[n] = "ended" => world'.status[n] = "ended"
    BY <1>0, <2>1 DEF Shaped
  <2>5. ViewerState(model, world', cmds)
    <3> DEFINE v == world'
    <3>1. DOMAIN v = {"status", "done", "chans"} /\ DOMAIN v.status = Nodes /\ v.done \in BOOLEAN /\ v.chans \in Seq(Channel) /\ Len(v.chans) = Len(world.chans)
      BY <2>1, <2>2, <2>4
    <3>2. \A n \in Nodes : world.status[n] = "ended" => v.status[n] = "ended"
      BY <2>4
    <3>3. \A j \in 1..Len(world.chans) :
            /\ v.chans[j].node = world.chans[j].node /\ v.chans[j].taken = world.chans[j].taken /\ v.chans[j].taken <= v.chans[j].sent
            /\ v.chans[j].open /\ ~v.chans[j].cancelled => world.chans[j].open /\ ~world.chans[j].cancelled
      BY <2>3
    <3> HIDE DEF v
    <3>4. ViewerState(model, v, cmds)
      BY <1>0, <3>1, <3>2, <3>3, Rechanneled
    <3> QED BY <3>4 DEF v
  <2> QED BY <1>0, <2>5 DEF ViewerInv
<1>3. ASSUME NEW i \in 1..Len(world.chans), V!Send(i) PROVE ViewerInv'
  <2> DEFINE x == world.chans[i]
             r == [x EXCEPT !.sent = @ + 1]
  <2>1. x \in Channel /\ x.taken <= x.sent
    BY <1>0 DEF Shaped
  <2>2. x.sent < Len(Whole) /\ Len(Whole) \in Nat /\ x.open /\ ~x.cancelled
    BY <1>3, Prefixes DEF V!Send
  <2>3. world' = [world EXCEPT !.chans[i] = r]
    BY <1>0, <1>3 DEF V!Send
  <2> HIDE DEF x
  <2>4. x.sent \in 0..Len(Whole) /\ x.taken \in 0..Len(Whole)
    BY <2>1 DEF Channel
  <2>5. x.sent + 1 \in 0..Len(Whole) /\ x.taken <= x.sent + 1
    BY <2>1, <2>2, <2>4
  <2>6. r \in Channel /\ r.node = x.node /\ r.taken = x.taken /\ r.sent = x.sent + 1
    BY <2>1, <2>5 DEF Channel
  <2>7. r.taken <= r.sent /\ (r.open /\ ~r.cancelled => x.open /\ ~x.cancelled)
    BY <2>2, <2>5, <2>6
  <2> HIDE DEF r
  <2> QED BY <1>2, <2>3, <2>6, <2>7 DEF x
<1>4. ASSUME NEW i \in 1..Len(world.chans), V!Close(i) PROVE ViewerInv'
  <2> DEFINE x == world.chans[i]
             r == [x EXCEPT !.open = FALSE]
  <2>1. x \in Channel /\ x.taken <= x.sent
    BY <1>0 DEF Shaped
  <2>3. world' = [world EXCEPT !.chans[i] = r]
    BY <1>0, <1>4 DEF V!Close
  <2> HIDE DEF x
  <2>6. r \in Channel /\ r.node = x.node /\ r.taken = x.taken /\ r.sent = x.sent /\ ~r.open
    BY <2>1 DEF Channel
  <2>7. r.taken <= r.sent /\ (r.open /\ ~r.cancelled => x.open /\ ~x.cancelled)
    BY <2>1, <2>6
  <2> HIDE DEF r
  <2> QED BY <1>2, <2>3, <2>6, <2>7 DEF x
<1> QED BY <1>0, <1>1, <1>3, <1>4

LEMMA ViewerStep == ViewerInv /\ V!Next => ViewerInv'
  BY ViewerKey, ViewerPoll, ViewerLog, ViewerLine, ViewerDone, ViewerWorld DEF V!Next, V!Message

LEMMA ViewerSound == ViewerInv => V!PanelIsOfTheStep /\ V!StreamsAreHeld /\ V!PollsGoOn /\ V!LogsAreTrue
<1> SUFFICES ASSUME ViewerInv PROVE V!PanelIsOfTheStep /\ V!StreamsAreHeld /\ V!PollsGoOn /\ V!LogsAreTrue
  OBVIOUS
<1>0. Shaped(model, world) /\ world.chans \in Seq(Channel) /\ DOMAIN world.chans = 1..Len(world.chans)
  BY DEF ViewerInv, ViewerState, Shaped
<1>1. V!PanelIsOfTheStep
  BY DEF ViewerInv, Panels, V!PanelIsOfTheStep
<1>2. V!StreamsAreHeld
  BY <1>0 DEF ViewerInv, ViewerState, Held, V!StreamsAreHeld
<1>3. V!PollsGoOn
  <2> SUFFICES ASSUME model.end = "no", model.state # "error"
               PROVE  Cardinality(Polls(cmds)) = IF model.over THEN 0 ELSE 1
    BY Counting DEF V!PollsGoOn, Polls
  <2>1. IF model.over THEN Polls(cmds) = {} ELSE Polls(cmds) = {Steps} \/ Polls(cmds) = {Clock}
    BY DEF ViewerInv, ViewerState, Polled
  <2>2. Cardinality({}) = 0 /\ Cardinality({Steps}) = 1 /\ Cardinality({Clock}) = 1
    BY FS_EmptySet, FS_Singleton
  <2> QED BY <2>1, <2>2
<1>4. V!LogsAreTrue
  <2> DEFINE has(n) == model.cache[n]
             old(n) == model.before[n]
  <2>0. SUFFICES ASSUME NEW n \in Nodes \ model.upset, has(n) # None
                 PROVE  /\ \E k \in 0..Len(Whole) : has(n) = Brought(old(n), k)
                        /\ AfterAll(old(n))
                        /\ model.stream[n] = 0 => has(n) = old(n) \o Whole
    BY DEF V!LogsAreTrue, Brought, AfterAll
  <2>1. Faithful(model, world, cmds, n) /\ Len(Whole) \in Nat
    BY Prefixes DEF ViewerInv, ViewerState
  <2>2. CASE model.stream[n] = 0
    <3>1. has(n) = Brought(old(n), Len(Whole))
      BY <2>0, <2>1, <2>2 DEF Faithful
    <3>2. Brought(old(n), Len(Whole)) = old(n) \o Whole
      BY Prefixes DEF Brought
    <3>3. AfterAll(old(n)) /\ Len(Whole) \in 0..Len(Whole)
      BY <2>1 DEF Faithful
    <3> QED BY <3>1, <3>2, <3>3
  <2>3. CASE model.stream[n] # 0
    <3> DEFINE t == world.chans[model.stream[n]].taken
    <3>1. world.chans[model.stream[n]] \in Channel
      BY <1>0, <2>3 DEF Shaped
    <3>2. t \in 0..Len(Whole)
      BY <3>1 DEF Channel
    <3>3. has(n) = Brought(old(n), t) /\ AfterAll(old(n))
      BY <2>1, <2>3 DEF Faithful
    <3> HIDE DEF t
    <3> QED BY <2>3, <3>2, <3>3
  <2> QED BY <2>2, <2>3
<1> QED BY <1>1, <1>2, <1>3, <1>4
-----------------------------------------------------------------------------
\* One of the three runs, and keeps its invariant.
ScreensInv ==
  /\ screen = "wizard" => WizardInv
  /\ screen = "table" => TableInv
  /\ screen = "viewer" => ViewerInv

LEMMA WizardStep == WizardInv /\ W!Next => WizardInv'
  BY WizardKey, WizardAnswer DEF W!Next

LEMMA WizardRests == WizardInv /\ UNCHANGED <<model, cmds>> => WizardInv'
  BY DEF WizardInv, Waits, Belongs, Ends, W!Command

LEMMA TableRests == TableInv /\ UNCHANGED <<model, cmds>> => TableInv'
  BY DEF TableInv, Placed, Commanded, PagesFollow, DetailsFollow, Opened, Restorable, Told, T!RowsAreAsked,
         T!Readable, T!Running

LEMMA ViewerRests == ViewerInv /\ UNCHANGED <<model, cmds, world>> => ViewerInv'
  BY DEF ViewerInv

LEMMA ScreensInvariant == Spec => []ScreensInv
<1>1. Init => ScreensInv
  BY WizardInit, TableInit, ViewerInit DEF Init, ScreensInv
<1>2. ScreensInv /\ [Next]_vars => ScreensInv'
  <2> SUFFICES ASSUME ScreensInv, [Next]_vars PROVE ScreensInv'
    OBVIOUS
  <2>1. screen' = screen
    BY DEF Next, vars
  <2>2. CASE screen = "wizard"
    <3>1. W!Next \/ UNCHANGED <<model, cmds>>
      BY <2>2 DEF Next, vars
    <3>2. WizardInv'
      BY <2>2, <3>1, WizardStep, WizardRests DEF ScreensInv
    <3> QED BY <2>1, <2>2, <3>2 DEF ScreensInv
  <2>3. CASE screen = "table"
    <3>1. T!Next \/ UNCHANGED <<model, cmds>>
      BY <2>3 DEF Next, vars
    <3>2. TableInv'
      BY <2>3, <3>1, TableStep, TableRests DEF ScreensInv
    <3> QED BY <2>1, <2>3, <3>2 DEF ScreensInv
  <2>4. CASE screen = "viewer"
    <3>1. V!Next \/ UNCHANGED <<model, cmds, world>>
      BY <2>4 DEF Next, vars
    <3>2. ViewerInv'
      BY <2>4, <3>1, ViewerStep, ViewerRests DEF ScreensInv
    <3> QED BY <2>1, <2>4, <3>2 DEF ScreensInv
  <2> QED BY <2>1, <2>2, <2>3, <2>4 DEF ScreensInv
<1> QED BY <1>1, <1>2, PTL DEF Spec

(* What the wizard saves belongs to one account, except the organization of a save that is skipped at the list of
   organizations, and every answer is for the step that waits for it, for all URLs, tokens, accounts and what they
   hold (loginwizard.go: Update, handleEnter, RunSetWizard). *)
THEOREM WizardSafety == Spec => []WizardIsSound
<1>1. ScreensInv => WizardIsSound
  BY WizardSound DEF ScreensInv, WizardIsSound
<1> QED BY <1>1, ScreensInvariant, PTL

(* The rows and the details at rest are those that the screen names, and what loads will end, for all lists, terms and
   sizes of a page (uitableview.go: Update, applyPage, dispatchLink). *)
THEOREM TableSafety == Spec => []TableIsSound
<1>1. ScreensInv => TableIsSound
  BY TableSound DEF ScreensInv, TableIsSound
<1> QED BY <1>1, ScreensInvariant, PTL

(* Going back puts the cursor on the item that was left, whatever pages and searches came in between, unless the rows
   lagged behind their page when it was left, or the list is asked for again before its first rows are there
   (uitableview.go: currentScreenLink, dispatchLink, applyPage). *)
THEOREM CursorReturns == Spec => BackRestores
<1>1. ScreensInv /\ [Next]_vars => [screen = "table" => T!CursorIsBack]_vars
  <2> SUFFICES ASSUME ScreensInv, Next, screen = "table" PROVE T!CursorIsBack
    OBVIOUS
  <2>1. TableInv /\ T!Next
    BY DEF ScreensInv, Next
  <2> QED BY <2>1, CursorStep
<1> QED BY <1>1, ScreensInvariant, PTL DEF Spec, BackRestores

(* The panel is about the step that is selected, no stream goes on that was given up, the polls go on, and each stream
   that neither breaks nor is given up brings its log from the beginning, again after itself when it is opened a
   second time, for all steps and logs (logviewer.go: Update, maybeLoadLog, startSSEStream). *)
THEOREM ViewerSafety == Spec => []ViewerIsSound
<1>1. ScreensInv => ViewerIsSound
  BY ViewerSound DEF ScreensInv, ViewerIsSound
<1> QED BY <1>1, ScreensInvariant, PTL
=============================================================================
