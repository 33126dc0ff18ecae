------------------------------- MODULE TableView -------------------------------
(* The screens of --ui: a list shown page by page, with a search, a choice of
   columns and the details of an item over it, and details on their own. A key
   may leave for another screen; the links to the screens left are the history,
   and b goes back to the last of them.

   Pages and details are fetched by commands that run beside the screen. The
   list changes only with the search term; an item is its place in the list. *)
EXTENDS Integers, Sequences, FiniteSets

CONSTANTS
  Count,    \* search term -> length of the list
  NoSearch, \* the term of no search
  Size,     \* rows of a page, as many as fit in the terminal
  Totals,   \* whether the endpoint says how long the list is
  MaxPage,  \* bound on the pages turned, which a failed fetch does not take back
  MaxDepth, \* bound on the history
  MaxRunning \* bound on the commands that run together

VARIABLES
  model, \* what the screen holds
  cmds   \* commands that run

vars == <<model, cmds>>

Least(a, b) == IF a <= b THEN a ELSE b
Most(a, b) == IF a >= b THEN a ELSE b

Terms == DOMAIN Count
NoItem == 0
Nowhere == [item |-> NoItem, lags |-> FALSE]
NoRows == [page |-> -1, term |-> NoSearch]

PageOf(m) == [kind |-> "page", page |-> m.page, term |-> m.term]
DetailOf(m) == [kind |-> "detail", id |-> m.id]

(* newUITableModel; ctx.RestoreOffset is where the cursor was. *)
Table(offset, term, history, expected, totals) ==
  [screen |-> "table", page |-> offset \div Size, restore |-> offset % Size, restored |-> FALSE,
   rows |-> NoRows, cursor |-> 0, loading |-> TRUE, failed |-> FALSE, last |-> FALSE, totals |-> totals, term |-> term,
   detail |-> FALSE, id |-> NoItem, reading |-> FALSE, broken |-> FALSE, shown |-> NoItem,
   history |-> history, end |-> "no",
   expected |-> expected, pagesCross |-> FALSE, detailsCross |-> FALSE]

(* newUIDetailModel: no list underneath. *)
DetailOnly(id, m) ==
  [Table(0, NoSearch, m.history, Nowhere, m.totals) EXCEPT !.screen = "detail", !.detail = TRUE, !.id = id, !.reading = TRUE, !.loading = FALSE]

Init ==
  /\ \E totals \in Totals : model = Table(0, NoSearch, <<>>, Nowhere, totals)
  /\ cmds = {PageOf(model)}

-----------------------------------------------------------------------------
Length(rows) == IF rows = NoRows THEN 0 ELSE Most(0, Least(Size, Count[rows.term] - rows.page * Size))
ItemAt(rows, i) == rows.page * Size + i + 1
Show(m) == model' = m /\ UNCHANGED cmds
Running(kind) == \E c \in cmds : c.kind = kind

Fetch(m) ==
  /\ Cardinality(cmds) < MaxRunning
  /\ model' = [m EXCEPT !.loading = TRUE, !.failed = FALSE, !.expected = Nowhere, !.pagesCross = Running("page")]
  /\ cmds' = cmds \cup {PageOf(m)}

Read(m) ==
  /\ Cardinality(cmds) < MaxRunning
  /\ model' = [m EXCEPT !.reading = TRUE, !.broken = FALSE, !.detailsCross = Running("detail")]
  /\ cmds' = cmds \cup {DetailOf(m)}

(* The program ends, and with it what its commands would still have sent. *)
Leave(m, first) == model' = m /\ cmds' = {first}
Quit == model' = [model EXCEPT !.end = "quit"] /\ cmds' = {}

-----------------------------------------------------------------------------
(* Keys of the list. *)
InList == ~model.detail

Move == InList /\ \E i \in 0..(Length(model.rows) - 1) : Show([model EXCEPT !.cursor = i])

Right == InList /\ ~model.loading /\ ~model.last /\ model.page < MaxPage /\ Fetch([model EXCEPT !.page = @ + 1])
Left == InList /\ ~model.loading /\ model.page > 0 /\ Fetch([model EXCEPT !.page = @ - 1])

Open ==
  /\ InList /\ ~model.loading /\ Length(model.rows) > 0
  /\ Read([model EXCEPT !.detail = TRUE, !.id = ItemAt(model.rows, model.cursor), !.shown = NoItem])

(* Mutant of Search: the page that is fetched is the one before the search. *)
SearchOldPage ==
  InList /\ Cardinality(cmds) < MaxRunning /\ \E t \in Terms :
    LET m == [model EXCEPT !.term = t, !.loading = TRUE, !.failed = FALSE, !.pagesCross = Running("page")]
    IN model' = [m EXCEPT !.page = 0] /\ cmds' = cmds \cup {PageOf(m)}

(* A term is typed and entered, or escape drops the one in force. *)
Search == InList /\ \E t \in Terms : Fetch([model EXCEPT !.term = t, !.page = 0])

(* Other columns are chosen. *)
Columns == InList /\ Fetch(model)

(* Keys of the details. *)
Closed(m) == [m EXCEPT !.detail = FALSE, !.id = NoItem, !.shown = NoItem, !.reading = FALSE, !.broken = FALSE]
Close == model.detail /\ model.screen = "table" /\ Show(Closed(model))

Readable == model.detail /\ ~model.reading /\ ~model.broken

OtherText == Readable /\ Read(model)

(* Mutant of Link: the link leads back to the page, not to the row. *)
LinkToPage(m) ==
  [screen |-> m.screen, id |-> IF m.screen = "detail" THEN m.id ELSE NoItem, offset |-> m.page * Size, term |-> m.term,
   back |-> IF m.screen = "table" THEN [item |-> m.id, lags |-> m.failed \/ m.pagesCross] ELSE Nowhere]

(* Where a link leads back to: for a list a place, counted from the page that was asked for last. "back" is the item
   it is left from, and whether the rows lag behind that page: the fetch of the page has failed, with its number
   counted and the old rows still there to open and to leave from (uitableview.go:977-983, :784-786, :949-959,
   :1285), or two fetches have crossed. *)
Link(m) ==
  [screen |-> m.screen, id |-> IF m.screen = "detail" THEN m.id ELSE NoItem, offset |-> m.page * Size + m.cursor, term |-> m.term,
   back |-> IF m.screen = "table" THEN [item |-> m.id, lags |-> m.failed \/ m.pagesCross] ELSE Nowhere]

(* A command of the noun: a list of what belongs to the item, or another item. *)
Follow ==
  /\ Readable /\ Len(model.history) < MaxDepth
  /\ LET history == Append(model.history, Link(model)) IN
     \/ LET m == Table(0, NoSearch, history, Nowhere, model.totals) IN Leave(m, PageOf(m))
     \/ LET m == DetailOnly(model.shown, [model EXCEPT !.history = history]) IN Leave(m, DetailOf(m))

Back ==
  /\ model.history # <<>> /\ (InList \/ model.screen = "detail")
  /\ LET n == Len(model.history)
         link == model.history[n]
         rest == SubSeq(model.history, 1, n - 1)
         m == IF link.screen = "table" THEN Table(link.offset, link.term, rest, link.back, model.totals)
              ELSE DetailOnly(link.id, [model EXCEPT !.history = rest])
     IN Leave(m, IF link.screen = "table" THEN PageOf(m) ELSE DetailOf(m))

-----------------------------------------------------------------------------
(* applyPage: the cursor is put back with the first rows, and on top with all others. *)
Applied(m, rows) ==
  [m EXCEPT !.rows = rows, !.restored = TRUE, !.restore = 0,
            !.cursor = IF m.restored THEN 0 ELSE Least(m.restore, Most(Length(rows) - 1, 0))]

RowsOf(c) == [page |-> c.page, term |-> c.term]

PageDone(c) ==
  /\ c.kind = "page" /\ cmds' = cmds \ {c}
  /\ LET got == Length(RowsOf(c))
         m == [model EXCEPT !.loading = FALSE]
     IN \/ model' = [Applied(m, RowsOf(c)) EXCEPT !.failed = FALSE,
                       !.last = IF m.totals THEN c.page * Size + got >= Count[c.term] ELSE got < Size]
        \/ model' = [m EXCEPT !.failed = TRUE]

(* The message does not say which item it is about. *)
DetailDone(c) ==
  /\ c.kind = "detail" /\ cmds' = cmds \ {c}
  /\ IF ~model.detail THEN UNCHANGED model
     ELSE \/ model' = [model EXCEPT !.reading = FALSE, !.shown = c.id]
          \/ model' = [model EXCEPT !.reading = FALSE, !.broken = TRUE]

PageAnswers == \E c \in cmds : PageDone(c)
DetailAnswers == \E c \in cmds : DetailDone(c)

Key ==
  \/ Move \/ Right \/ Left \/ Open \/ Search \/ Columns
  \/ Close \/ OtherText \/ Follow \/ Back \/ Quit

Next == model.end = "no" /\ (Key \/ PageAnswers \/ DetailAnswers)

-----------------------------------------------------------------------------
(* At rest the rows are those of the page and the term that the screen names, unless two fetches of pages crossed. *)
RowsAreAsked ==
  model.screen = "table" /\ model.end = "no" /\ ~Running("page") /\ ~model.failed /\ ~model.pagesCross =>
    model.rows.page = model.page /\ model.rows.term = model.term

(* At rest the details are those of the item in the title, unless two fetches of details crossed. *)
DetailsAreOfTheItem ==
  Readable /\ ~Running("detail") /\ ~model.detailsCross => model.shown = model.id

(* b puts the cursor on the item whose details the list was left from, with the first rows that come. Left out are
   the lists left with rows that lag behind their page, to which b brings back another item, and a list that is asked
   for again, by a search or columns, before those rows are there. *)
CursorIsBack ==
  ~model.restored /\ model'.restored /\ model.expected # Nowhere /\ ~model.expected.lags =>
    ItemAt(model'.rows, model'.cursor) = model.expected.item

(* A screen that says it is loading has a command that will answer. *)
LoadingEnds ==
  model.end = "no" => (model.loading => Running("page")) /\ (model.reading => Running("detail"))
=============================================================================
