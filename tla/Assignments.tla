---------------------------- MODULE Assignments ----------------------------
(***************************************************************************)
(* The Responder's pages: the list of a unit's answers in one cycle        *)
(* (client/src/views/MyAssignments.tsx) and the form of a single answer    *)
(* (ResponseForm.tsx), over the handlers of server/routes/responses.ts.    *)
(*                                                                         *)
(* A click starts an async function that sends one request after another   *)
(* and, at the end, reads the list again.  Several of them run at the same *)
(* time: a save does not disable the other buttons, and a list that was    *)
(* read early may be shown late.  Submit-all gives up after 30 seconds,    *)
(* while the server may still execute it.  The page has no other way of    *)
(* learning what colleagues and Validators do.                             *)
(***************************************************************************)
EXTENDS Naturals, FiniteSets

CONSTANTS
    Rows,        \* the unit's answers in the cycle
    Tabs,        \* the material risks of the unit, one tab each
    TabOf,       \* the tab that shows a row, or NoTab
    NoTab,
    Scores,      \* compliance scores; 0 is "no score yet"
    Calls,       \* slots of handlers in flight
    MaxReturns   \* bound: answers Validators return

ASSUME AssignmentsAssumption ==
    /\ NoTab \notin Tabs /\ TabOf \in [Rows -> Tabs \cup {NoTab}]
    /\ MaxReturns \in Nat
    /\ Scores # {} /\ Scores \subseteq Nat \ {0}

VARIABLES
    cycle,    \* status of the cycle
    status,   \* responses.status
    score,    \* responses.compliance_score
    page,     \* the page of the browser, and the row of a form
    shown,    \* the statuses it shows, the cycle's included
    draft,    \* the scores it shows: those read and those picked since
    call,     \* the handlers in flight
    returns   \* answers that were returned

server == <<cycle, status, score>>
view == <<page, shown, draft>>
vars == <<server, view, call, returns>>

\* A draft may be in progress: neither the handlers nor the pages make a
\* difference between the two.
Status == {"draft", "submitted", "returned", "cancelled"}
NoScore == 0
Marks == Scores \cup {NoScore}

Pages == {"away", "loading", "list", "error"} \cup Rows
NoMarks == [k \in Rows |-> NoScore]
List == [cycle : {"distributed", "closed"}, rows : [Rows -> Status \cup {"none"}]]
Nothing == [cycle |-> "distributed", rows |-> [k \in Rows |-> "none"]]

\* A handler: what was clicked, the scores it sends, the request it awaits,
\* the list it was given, and whether the page that started it is still there.
Kinds == {"none", "load", "save", "one", "all"}
Steps == {"put", "submit", "post", "get", "answer"}
NoCall == [kind |-> "none", items |-> {}, marks |-> NoMarks,
           at |-> "get", list |-> Nothing, here |-> FALSE]

TypeOK ==
    /\ cycle \in {"distributed", "closed"}
    /\ status \in [Rows -> Status]
    /\ score \in [Rows -> Marks]
    /\ page \in Pages
    /\ shown \in List
    /\ draft \in [Rows -> Marks]
    /\ call \in [Calls -> [kind : Kinds, items : SUBSET Rows, marks : [Rows -> Marks],
                           at : Steps, list : List, here : BOOLEAN]]
    /\ returns \in 0 .. MaxReturns

Init ==
    /\ cycle = "distributed"
    /\ status = [k \in Rows |-> "draft"]
    /\ score = NoMarks
    /\ page = "away"
    /\ shown = Nothing
    /\ draft = NoMarks
    /\ call = [c \in Calls |-> NoCall]
    /\ returns = 0

-----------------------------------------------------------------------------
(* What the page offers *)

\* The statuses in which the server accepts a save or a submission.
Editable == {"draft", "returned"}

\* Mutant: the list, like the form, takes a returned answer for a finished one.
OffersM == {"draft"}

\* isEditable of the list.  The form leaves returned answers out.
Offers == {"draft", "returned"}

OnList == page = "list" /\ shown.cycle = "distributed"
OnForm(k) == page = k

\* Rows without a tab are in the list and not on the page.
CanEdit(k) ==
    \/ OnList /\ shown.rows[k] \in Offers /\ TabOf[k] # NoTab
    \/ OnForm(k) /\ shown.rows[k] = "draft"

Pending == {k \in Rows : shown.rows[k] \in Offers}

\* Mutant: only the tab that is on display has to be scored.
AllScoredM == \E t \in Tabs : \A k \in Pending : TabOf[k] = t => draft[k] # NoScore

\* allSubUnitsScored: "submission is only allowed when ALL sub-units are fully
\* scored".  A row no tab shows is submitted with the others.
AllScored == \A k \in Pending : TabOf[k] # NoTab => draft[k] # NoScore

Submitting == \E c \in Calls : call[c].kind = "all" /\ call[c].here

-----------------------------------------------------------------------------
(* Clicks *)

\* A click starts a handler in a free slot.
Start(c, kind, items, first) ==
    /\ call[c] = NoCall
    /\ call' = [call EXCEPT ![c] = [kind |-> kind, items |-> items,
                                    marks |-> [k \in Rows |-> IF k \in items THEN draft[k] ELSE NoScore],
                                    at |-> first, list |-> Nothing, here |-> TRUE]]

\* The page is opened, or opened again: the requests of the old one go on, and
\* what they would show is lost.  `to' is the list or the form of a row, which a
\* notification links to.
Open(c, to) ==
    /\ call[c] = NoCall
    /\ page # "loading"
    /\ page' = "loading"
    /\ call' = [d \in Calls |->
                  IF d = c THEN [NoCall EXCEPT !.kind = "load", !.here = TRUE,
                                               !.items = IF to \in Rows THEN {to} ELSE {}]
                  ELSE IF call[d].at \in {"get", "answer"} THEN NoCall
                  ELSE [call[d] EXCEPT !.here = FALSE]]
    /\ shown' = Nothing
    /\ draft' = NoMarks
    /\ UNCHANGED <<server, returns>>

Pick(k, s) ==
    /\ CanEdit(k)
    /\ draft' = [draft EXCEPT ![k] = s]
    /\ UNCHANGED <<server, page, shown, call, returns>>

\* The busy flag names one row, and is taken over by a click on another: a row
\* may be saved and submitted several times over.
ClickSave(c, k) ==
    /\ CanEdit(k)
    /\ Start(c, "save", {k}, "put")
    /\ UNCHANGED <<server, view, returns>>

\* Re-submit on the list, for returned answers only; Submit Response on the form.
ClickSubmit(c, k) ==
    /\ CanEdit(k)
    /\ OnList => shown.rows[k] = "returned"
    /\ draft[k] # NoScore
    /\ Start(c, "one", {k}, "put")
    /\ UNCHANGED <<server, view, returns>>

ClickSubmitAll(c) ==
    /\ OnList
    /\ \E k \in Pending : TabOf[k] # NoTab
    /\ AllScored
    /\ ~Submitting
    /\ Start(c, "all", Pending, "post")
    /\ UNCHANGED <<server, view, returns>>

-----------------------------------------------------------------------------
(* The server executes the request a handler awaits *)

Goto(c, step) == call' = [call EXCEPT ![c].at = step]

\* The last request of a handler reads the page again, if it is still there.
Again(h) == [h EXCEPT !.at = "get", !.marks = NoMarks,
                      !.items = IF page \in Rows THEN @ ELSE {}]
ReadAgain(c) == call' = [call EXCEPT ![c] = IF @.here THEN Again(@) ELSE NoCall]
Finish(c) == call' = [call EXCEPT ![c] = NoCall]
At(c, step) == call[c].kind # "none" /\ call[c].at = step

\* COALESCE
Kept(old, new) == IF new = NoScore THEN old ELSE new

\* PUT /responses/:id, refused for an answer that cannot be edited.  The form
\* does not read the answer again after a save, the list does.
Put(c) ==
    /\ At(c, "put")
    /\ \E k \in call[c].items :
         IF status[k] \in Editable
         THEN /\ score' = [score EXCEPT ![k] = Kept(@, call[c].marks[k])]
              /\ IF call[c].kind = "one" THEN Goto(c, "submit")
                 ELSE IF page \in Rows THEN Finish(c) ELSE ReadAgain(c)
         ELSE Finish(c) /\ UNCHANGED score
    /\ UNCHANGED <<cycle, status, view, returns>>

\* PUT /responses/:id/submit; the form shows that it is loading.
Submit(c) ==
    /\ At(c, "submit")
    /\ \E k \in call[c].items :
         IF status[k] \in Editable
         THEN /\ status' = [status EXCEPT ![k] = "submitted"]
              /\ page' = IF call[c].here /\ page \in Rows THEN "loading" ELSE page
              /\ ReadAgain(c)
         ELSE Finish(c) /\ UNCHANGED <<status, page>>
    /\ UNCHANGED <<cycle, score, shown, draft, returns>>

\* POST /responses/submit-all, one transaction: the scores sent replace what is
\* there.  It is refused when none of its answers can be submitted any more.
Post(c) ==
    /\ At(c, "post")
    /\ LET S == {k \in call[c].items : status[k] \in Editable} IN
         /\ status' = [k \in Rows |-> IF k \in S THEN "submitted" ELSE status[k]]
         /\ score' = [k \in Rows |-> IF k \in S THEN call[c].marks[k] ELSE score[k]]
         /\ IF S # {} THEN ReadAgain(c) ELSE Finish(c)
    /\ UNCHANGED <<cycle, view, returns>>

\* After 30 seconds the page gives up, and offers the button again; the request
\* is on its way.
GiveUp(c) ==
    /\ At(c, "post") /\ call[c].here
    /\ call' = [call EXCEPT ![c].here = FALSE]
    /\ UNCHANGED <<server, view, returns>>

\* GET /responses: of a closed cycle, only what was submitted.
Answered(h) ==
    [h EXCEPT !.at = "answer", !.marks = score,
              !.list = [cycle |-> cycle,
                        rows |-> [k \in Rows |->
                                    IF cycle = "closed" /\ status[k] # "submitted"
                                    THEN "none" ELSE status[k]]]]

Read(c) ==
    /\ At(c, "get")
    /\ call' = [call EXCEPT ![c] = Answered(@)]
    /\ UNCHANGED <<server, view, returns>>

\* The form shows its row, everything else the list.
Displayed(p, l, m) ==
    /\ page' = p
    /\ shown' = [l EXCEPT !.rows = [k \in Rows |-> IF p \notin Rows \/ k = p THEN @[k] ELSE "none"]]
    /\ draft' = [k \in Rows |-> IF p \notin Rows \/ k = p THEN m[k] ELSE NoScore]

\* What was read is shown, whatever has been shown since it was read.  A save
\* replaces the statuses only; every other handler loads the page again, and
\* with it the scores, those of rows that were not saved included.
Show(c) ==
    /\ At(c, "answer")
    /\ Finish(c)
    /\ IF call[c].kind # "save"
       THEN Displayed(IF call[c].items = {} THEN "list" ELSE CHOOSE k \in Rows : k \in call[c].items,
                      call[c].list, call[c].marks)
       ELSE /\ shown' = IF page = "list" THEN [shown EXCEPT !.rows = call[c].list.rows] ELSE shown
            /\ UNCHANGED <<page, draft>>
    /\ UNCHANGED <<server, returns>>

\* The cycles cannot be read, and a load shows the error; or the answers of one
\* cannot, and the list shows none.  A save leaves the page as it is.
ReadFails(c) ==
    /\ At(c, "get")
    /\ Finish(c)
    /\ IF call[c].kind = "save" THEN UNCHANGED view
       ELSE \/ Displayed("error", Nothing, NoMarks)
            \/ call[c].items = {} /\ Displayed("list", Nothing, NoMarks)
    /\ UNCHANGED <<server, returns>>

-----------------------------------------------------------------------------
(* The others *)

\* A colleague of the unit, on a page of their own.
ColleagueSubmits(k, s) ==
    /\ status[k] \in Editable
    /\ status' = [status EXCEPT ![k] = "submitted"]
    /\ score' = [score EXCEPT ![k] = s]
    /\ UNCHANGED <<cycle, view, call, returns>>

Return(k) ==
    /\ status[k] = "submitted"
    /\ returns < MaxReturns
    /\ returns' = returns + 1
    /\ status' = [status EXCEPT ![k] = "returned"]
    /\ UNCHANGED <<cycle, score, view, call>>

ForceClose ==
    /\ cycle = "distributed"
    /\ cycle' = "closed"
    /\ status' = [k \in Rows |-> IF status[k] = "submitted" THEN "submitted" ELSE "cancelled"]
    /\ UNCHANGED <<score, view, call, returns>>

Serve(c) == Put(c) \/ Submit(c) \/ Post(c) \/ Read(c) \/ Show(c)

Next ==
    \/ \E c \in Calls :
         \/ \E to \in Rows \cup {"list"} : Open(c, to)
         \/ \E k \in Rows : ClickSave(c, k) \/ ClickSubmit(c, k)
         \/ ClickSubmitAll(c)
         \/ Put(c) \/ Submit(c) \/ Post(c) \/ GiveUp(c) \/ Read(c) \/ Show(c) \/ ReadFails(c)
    \/ \E k \in Rows : \E s \in Scores : Pick(k, s) \/ ColleagueSubmits(k, s)
    \/ \E k \in Rows : Return(k)
    \/ ForceClose

ReadList == \E c \in Calls : call[c].items = {} /\ Read(c)

\* The server answers, and a list that is opened again and again is read at
\* last.  The Responder comes back to the list, and presses what it offers for a
\* returned answer.
Fairness ==
    /\ SF_vars(ReadList)
    /\ \A c \in Calls : WF_vars(Serve(c))
    /\ SF_vars(\E c \in Calls : Open(c, "list"))
    /\ \A k \in Rows : SF_vars(\E c \in Calls : ClickSubmit(c, k))

Spec == Init /\ [][Next]_vars /\ Fairness

-----------------------------------------------------------------------------
(* Properties *)

\* What a unit submits has a score: POST /responses/submit-all writes the scores
\* it is sent, none included, and leaves it to the page that there is one, over
\* all tabs and whatever was loaded, saved or given up meanwhile.  A row without
\* a tab is submitted with none.
SubmittedIsScored ==
    \A k \in Rows : status[k] = "submitted" /\ TabOf[k] # NoTab => score[k] # NoScore

\* "Your response ... has been returned to you for revision" (responses.ts): the
\* list offers a returned answer again, however stale it was, until it is
\* submitted or the cycle is closed.
ReturnedIsRevised ==
    \A k \in Rows :
        status[k] = "returned" /\ TabOf[k] # NoTab
            ~> status[k] # "returned" \/ cycle = "closed"
=============================================================================
