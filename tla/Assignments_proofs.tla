------------------------- MODULE Assignments_proofs -------------------------
(* That what a unit submits has a score, for any unit and any number of       *)
(* handlers in flight.                                                        *)
EXTENDS Assignments, TLAPS

Handler == [kind : Kinds, items : SUBSET Rows, marks : [Rows -> Marks],
            at : Steps, list : List, here : BOOLEAN]

AssignmentsType ==
    /\ cycle \in {"distributed", "closed"}
    /\ status \in [Rows -> Status]
    /\ score \in [Rows -> Marks]
    /\ draft \in [Rows -> Marks]
    /\ call \in [Calls -> Handler]

Shown(k) == TabOf[k] # NoTab

\* What a handler will submit has a score already, or gets one with it.
Scored(c) ==
    /\ call[c].kind = "one" /\ call[c].at = "put" =>
           \A j, k \in call[c].items : j = k /\ call[c].marks[k] # NoScore
    /\ call[c].at = "submit" => \A k \in call[c].items : Shown(k) => score[k] # NoScore
    /\ call[c].at = "post" =>
           \A k \in call[c].items : Shown(k) => call[c].marks[k] # NoScore

AssignmentsInv ==
    /\ AssignmentsType
    /\ SubmittedIsScored
    /\ \A c \in Calls : Scored(c)

LEMMA NoScoreNotScore == NoScore \notin Scores /\ Scores \subseteq Marks /\ NoScore \in Marks
BY AssignmentsAssumption DEF NoScore, Marks

LEMMA NothingListed == Nothing \in List /\ NoCall \in Handler /\ NoMarks \in [Rows -> Marks]
<1>1. NoMarks \in [Rows -> Marks]
    BY NoScoreNotScore DEF NoMarks
<1>2. Nothing \in List
    BY DEF Nothing, List
<1>3. QED
    BY <1>1, <1>2 DEF NoCall, Handler, Kinds, Steps

LEMMA InitScored == Init => AssignmentsInv
<1> SUFFICES ASSUME Init PROVE AssignmentsInv
    OBVIOUS
<1>1. AssignmentsType
    BY NothingListed DEF Init, AssignmentsType, Status
<1>2. \A c \in Calls : call[c].kind = "none" /\ call[c].at = "get"
    BY DEF Init, NoCall
<1>3. QED
    BY <1>1, <1>2 DEF Init, AssignmentsInv, SubmittedIsScored, Scored

\* The handler of c is done with what it submits, or was not touched.
Harmless(c) ==
    \/ call'[c].at \in {"get", "answer"}
    \/ /\ call'[c].kind = call[c].kind
       /\ call'[c].items = call[c].items
       /\ call'[c].marks = call[c].marks
       /\ call'[c].at = call[c].at

\* A step that takes no score away and submits nothing without one.
LEMMA Preserved ==
    ASSUME AssignmentsInv, AssignmentsType',
           \A k \in Rows : score[k] # NoScore /\ Shown(k) => score'[k] # NoScore,
           \A k \in Rows : status'[k] = "submitted" /\ Shown(k) =>
                               status[k] = "submitted" \/ score'[k] # NoScore,
           \A c \in Calls : Harmless(c) \/ Scored(c)'
    PROVE  AssignmentsInv'
<1>1. SubmittedIsScored'
    BY DEF AssignmentsInv, AssignmentsType, SubmittedIsScored, Shown
<1>2. ASSUME NEW c \in Calls, Harmless(c) PROVE Scored(c)'
    <2>1. CASE call'[c].at \in {"get", "answer"}
        BY <2>1 DEF Scored
    <2>2. CASE /\ call'[c].kind = call[c].kind
               /\ call'[c].items = call[c].items
               /\ call'[c].marks = call[c].marks
               /\ call'[c].at = call[c].at
        <3>1. call[c].items \subseteq Rows
            BY DEF AssignmentsInv, AssignmentsType, Handler
        <3>2. QED
            BY <2>2, <3>1 DEF AssignmentsInv, Scored, Shown
    <2>3. QED
        BY <1>2, <2>1, <2>2 DEF Harmless
<1>3. QED
    BY <1>1, <1>2 DEF AssignmentsInv

-----------------------------------------------------------------------------
(* What handlers do with their slot *)

LEMMA FinishFacts ==
    ASSUME AssignmentsType, NEW c \in Calls, Finish(c)
    PROVE  call' \in [Calls -> Handler] /\ \A d \in Calls : Harmless(d)
<1>1. \A d \in Calls : call'[d] = IF d = c THEN NoCall ELSE call[d]
    BY DEF Finish, AssignmentsType
<1>2. NoCall.at = "get"
    BY DEF NoCall
<1>3. QED
    BY <1>1, <1>2, NothingListed DEF Finish, AssignmentsType, Harmless

LEMMA ReadAgainFacts ==
    ASSUME AssignmentsType, NEW c \in Calls, ReadAgain(c)
    PROVE  call' \in [Calls -> Handler] /\ \A d \in Calls : Harmless(d)
<1>1. call[c] \in Handler
    BY DEF AssignmentsType
<1>2. Again(call[c]) \in Handler /\ Again(call[c]).at = "get"
    BY <1>1, NothingListed DEF Again, Handler, Steps
<1>3. NoCall.at = "get"
    BY DEF NoCall
<1>4. /\ \A d \in Calls \ {c} : call'[d] = call[d]
      /\ call'[c] = IF call[c].here THEN Again(call[c]) ELSE NoCall
    BY DEF ReadAgain, AssignmentsType
<1>5. call' \in [Calls -> Handler]
    BY <1>2, NothingListed DEF AssignmentsType, ReadAgain
<1>6. QED
    BY <1>2, <1>3, <1>4, <1>5 DEF Harmless

\* A handler starts with the scores the page shows of its rows.
LEMMA StartFacts ==
    ASSUME AssignmentsType, NEW c \in Calls, NEW kind \in Kinds, NEW items \in SUBSET Rows,
           NEW first \in Steps, Start(c, kind, items, first)
    PROVE  /\ call' \in [Calls -> Handler]
           /\ \A d \in Calls \ {c} : Harmless(d)
           /\ call'[c].kind = kind /\ call'[c].items = items /\ call'[c].at = first
           /\ \A k \in items : call'[c].marks[k] = draft[k]
<1> DEFINE new == [kind |-> kind, items |-> items,
                   marks |-> [k \in Rows |-> IF k \in items THEN draft[k] ELSE NoScore],
                   at |-> first, list |-> Nothing, here |-> TRUE]
<1>1. new \in Handler
    BY NothingListed, NoScoreNotScore DEF Handler, AssignmentsType
<1>2. \A d \in Calls : call'[d] = IF d = c THEN new ELSE call[d]
    BY DEF Start, AssignmentsType
<1>3. call' \in [Calls -> Handler]
    BY <1>1 DEF Start, AssignmentsType
<1>4. \A d \in Calls \ {c} : Harmless(d)
    BY <1>2 DEF Harmless
<1>5. call'[c] = new
    BY <1>2
<1>6. \A k \in items : call'[c].marks[k] = draft[k]
    BY <1>5
<1>7. call'[c].kind = kind /\ call'[c].items = items /\ call'[c].at = first
    BY <1>5
<1>8. QED
    BY <1>3, <1>4, <1>6, <1>7

\* A click leaves the server as it is.
LEMMA ClickKeeps ==
    ASSUME AssignmentsInv, NEW c \in Calls, NEW kind \in Kinds, NEW items \in SUBSET Rows,
           NEW first \in Steps, Start(c, kind, items, first), UNCHANGED <<server, view>>,
           first \in {"put", "post"},
           kind = "one" => \A j, k \in items : j = k,
           kind = "one" \/ first = "post" =>
               \A k \in items : Shown(k) \/ kind = "one" => draft[k] # NoScore
    PROVE  AssignmentsInv'
<1>1. /\ call' \in [Calls -> Handler]
      /\ \A d \in Calls \ {c} : Harmless(d)
      /\ call'[c].kind = kind /\ call'[c].items = items /\ call'[c].at = first
      /\ \A k \in items : call'[c].marks[k] = draft[k]
    <2>1. AssignmentsType
        BY DEF AssignmentsInv
    <2>2. QED
        BY <2>1, StartFacts
<1>2. Scored(c)'
    BY <1>1 DEF Scored, Shown
<1>3. AssignmentsType'
    BY <1>1 DEF AssignmentsInv, AssignmentsType, server, view
<1>4. QED
    BY <1>1, <1>2, <1>3, Preserved DEF server

\* A page that is opened takes nothing from what is under way but its place.
LEMMA OpenKeeps ==
    ASSUME AssignmentsInv, NEW c \in Calls, NEW to \in Rows \cup {"list"}, Open(c, to)
    PROVE  AssignmentsInv'
<1> DEFINE load == [NoCall EXCEPT !.kind = "load", !.here = TRUE,
                                  !.items = IF to \in Rows THEN {to} ELSE {}]
           next(d) == IF d = c THEN load
                      ELSE IF call[d].at \in {"get", "answer"} THEN NoCall
                      ELSE [call[d] EXCEPT !.here = FALSE]
<1>1. load \in Handler /\ load.at = "get"
    BY NothingListed DEF NoCall, Handler, Kinds, Steps, NoMarks
<1>2. \A d \in Calls : [call[d] EXCEPT !.here = FALSE] \in Handler
    BY DEF AssignmentsInv, AssignmentsType, Handler
<1>3. \A d \in Calls : next(d) \in Handler
    BY <1>1, <1>2, NothingListed
<1>4. call' = [d \in Calls |-> next(d)]
    BY DEF Open
<1>5. call' \in [Calls -> Handler]
    BY <1>3, <1>4
<1>6. AssignmentsType'
    BY <1>5, NothingListed DEF Open, server, AssignmentsInv, AssignmentsType
<1>7. ASSUME NEW d \in Calls PROVE Harmless(d)
    <2>1. call[d] \in Handler
        BY DEF AssignmentsInv, AssignmentsType
    <2>2. CASE d = c \/ call[d].at \in {"get", "answer"}
        BY <1>1, <1>4, <2>2 DEF Harmless, NoCall
    <2>3. CASE d # c /\ call[d].at \notin {"get", "answer"}
        BY <1>4, <2>1, <2>3 DEF Harmless, Handler
    <2>4. QED
        BY <2>2, <2>3
<1>8. QED
    BY <1>6, <1>7, Preserved DEF Open, server

-----------------------------------------------------------------------------
(* What the server executes *)

\* A save that is refused, or has been written, is done or reads the page again;
\* a score that was there stays.
LEMMA PutKeeps ==
    ASSUME AssignmentsInv, NEW c \in Calls, Put(c)
    PROVE  AssignmentsInv'
<1> USE DEF AssignmentsInv, AssignmentsType
<1>1. PICK k \in call[c].items :
           IF status[k] \in Editable
           THEN /\ score' = [score EXCEPT ![k] = Kept(@, call[c].marks[k])]
                /\ IF call[c].kind = "one" THEN Goto(c, "submit")
                   ELSE IF page \in Rows THEN Finish(c) ELSE ReadAgain(c)
           ELSE Finish(c) /\ UNCHANGED score
    BY DEF Put
<1>2. call[c] \in Handler /\ call[c].at = "put" /\ k \in Rows /\ call[c].marks[k] \in Marks
    BY DEF Put, At, Handler
<1>3. UNCHANGED <<cycle, status, draft>>
    BY DEF Put, view
<1>4. /\ score' \in [Rows -> Marks]
      /\ \A j \in Rows : score[j] # NoScore => score'[j] # NoScore
    <2>1. CASE score' = [score EXCEPT ![k] = Kept(@, call[c].marks[k])]
        BY <1>2, <2>1 DEF Kept
    <2>2. QED
        BY <1>1, <2>1
<1>5. CASE Finish(c) \/ ReadAgain(c)
    <2>1. call' \in [Calls -> Handler] /\ \A d \in Calls : Harmless(d)
        BY <1>5, FinishFacts, ReadAgainFacts
    <2>2. QED
        BY <1>3, <1>4, <2>1, Preserved
<1>6. CASE /\ score' = [score EXCEPT ![k] = Kept(@, call[c].marks[k])]
           /\ call[c].kind = "one" /\ Goto(c, "submit")
    <2> DEFINE h == [call[c] EXCEPT !.at = "submit"]
    <2>1. h \in Handler /\ h.at = "submit" /\ h.items = call[c].items
        BY <1>2 DEF Handler, Steps
    <2>2. \A d \in Calls : call'[d] = IF d = c THEN h ELSE call[d]
        BY <1>6 DEF Goto
    <2>3. call' \in [Calls -> Handler]
        BY <1>6, <2>1 DEF Goto
    <2>4. \A d \in Calls \ {c} : Harmless(d)
        BY <2>2 DEF Harmless
    <2>5. Scored(c)'
        <3>1. \A j \in call[c].items : j = k /\ call[c].marks[k] # NoScore
            BY <1>2, <1>6 DEF Scored
        <3>2. score'[k] # NoScore
            BY <1>2, <1>6, <3>1 DEF Kept
        <3>3. call'[c].at = "submit" /\ call'[c].items = call[c].items
            BY <2>1, <2>2
        <3>4. QED
            BY <3>1, <3>2, <3>3 DEF Scored
    <2>6. QED
        BY <1>3, <1>4, <2>3, <2>4, <2>5, Preserved
<1>7. QED
    BY <1>1, <1>5, <1>6

\* What is submitted alone has the score that was saved before.
LEMMA SubmitKeeps ==
    ASSUME AssignmentsInv, NEW c \in Calls, Submit(c)
    PROVE  AssignmentsInv'
<1> USE DEF AssignmentsInv, AssignmentsType
<1>1. PICK k \in call[c].items :
           IF status[k] \in Editable
           THEN status' = [status EXCEPT ![k] = "submitted"] /\ ReadAgain(c)
           ELSE Finish(c) /\ UNCHANGED status
    BY DEF Submit
<1>2. call[c] \in Handler /\ call[c].at = "submit" /\ k \in Rows
    BY DEF Submit, At, Handler
<1>3. call' \in [Calls -> Handler] /\ \A d \in Calls : Harmless(d)
    BY <1>1, FinishFacts, ReadAgainFacts
<1>4. Shown(k) => score[k] # NoScore
    BY <1>2 DEF Scored
<1>5. UNCHANGED <<cycle, score, draft>>
    BY DEF Submit
<1>6. status' \in [Rows -> Status]
    BY <1>1 DEF Status
<1>7. \A j \in Rows : status'[j] = "submitted" => status[j] = "submitted" \/ j = k
    BY <1>1
<1>8. QED
    BY <1>3, <1>4, <1>5, <1>6, <1>7, Preserved

\* What is submitted with the others has the score that is sent.
LEMMA PostKeeps ==
    ASSUME AssignmentsInv, NEW c \in Calls, Post(c)
    PROVE  AssignmentsInv'
<1> USE DEF AssignmentsInv, AssignmentsType
<1> DEFINE S == {k \in call[c].items : status[k] \in Editable}
<1>1. call[c] \in Handler /\ call[c].at = "post"
    BY DEF Post, At
<1>2. call[c].marks \in [Rows -> Marks] /\ call[c].items \subseteq Rows
    BY <1>1 DEF Handler
<1>3. /\ status' = [k \in Rows |-> IF k \in S THEN "submitted" ELSE status[k]]
      /\ score' = [k \in Rows |-> IF k \in S THEN call[c].marks[k] ELSE score[k]]
      /\ UNCHANGED <<cycle, draft>>
    BY DEF Post, view
<1>4. ReadAgain(c) \/ Finish(c)
    BY DEF Post
<1>5. call' \in [Calls -> Handler] /\ \A d \in Calls : Harmless(d)
    BY <1>4, FinishFacts, ReadAgainFacts
<1>6. \A k \in S : Shown(k) => call[c].marks[k] # NoScore
    BY <1>1 DEF Scored
<1>7. AssignmentsType'
    BY <1>2, <1>3, <1>5 DEF Status
<1>8. \A k \in Rows : /\ score[k] # NoScore /\ Shown(k) => score'[k] # NoScore
                      /\ status'[k] = "submitted" /\ Shown(k) =>
                             status[k] = "submitted" \/ score'[k] # NoScore
    BY <1>3, <1>6
<1>9. QED
    BY <1>5, <1>7, <1>8, Preserved

\* A page that reads or shows changes nothing.
LEMMA PageKeeps ==
    ASSUME AssignmentsInv, NEW c \in Calls, GiveUp(c) \/ Read(c) \/ Show(c) \/ ReadFails(c)
    PROVE  AssignmentsInv'
<1> USE DEF AssignmentsInv, AssignmentsType
<1>1. UNCHANGED <<cycle, status, score>>
    BY DEF GiveUp, Read, Show, ReadFails, server
<1>2. ASSUME UNCHANGED draft, call' \in [Calls -> Handler], \A d \in Calls : Harmless(d)
      PROVE  AssignmentsInv'
    BY <1>1, <1>2, Preserved
<1>3. call[c] \in Handler
    OBVIOUS
<1>4. CASE GiveUp(c)
    <2> DEFINE h == [call[c] EXCEPT !.here = FALSE]
    <2>1. h \in Handler /\ h.kind = call[c].kind /\ h.items = call[c].items
          /\ h.marks = call[c].marks /\ h.at = call[c].at
        BY <1>3 DEF Handler
    <2>2. \A d \in Calls : call'[d] = IF d = c THEN h ELSE call[d]
        BY <1>4 DEF GiveUp
    <2>3. call' \in [Calls -> Handler]
        BY <1>4, <2>1 DEF GiveUp
    <2>4. \A d \in Calls : Harmless(d)
        BY <2>1, <2>2 DEF Harmless
    <2>5. QED
        BY <1>2, <1>4, <2>3, <2>4 DEF GiveUp, view
<1>5. CASE Read(c)
    <2>1. Answered(call[c]).at = "answer"
        BY <1>3 DEF Answered, Handler
    <2>2. \A d \in Calls : call'[d] = IF d = c THEN Answered(call[c]) ELSE call[d]
        BY <1>5 DEF Read
    <2>3. Answered(call[c]) \in Handler
        <3>1. [cycle |-> cycle,
               rows |-> [k \in Rows |-> IF cycle = "closed" /\ status[k] # "submitted"
                                       THEN "none" ELSE status[k]]] \in List
            BY DEF List
        <3>2. QED
            BY <1>3, <3>1 DEF Answered, Handler, Steps
    <2>4. \A d \in Calls : Harmless(d)
        BY <2>1, <2>2 DEF Harmless
    <2>5. call' \in [Calls -> Handler]
        BY <1>5, <2>3 DEF Read
    <2>6. QED
        BY <1>2, <1>5, <2>4, <2>5 DEF Read, view
<1>6. ASSUME Finish(c), NEW p, NEW l, NEW m \in [Rows -> Marks], Displayed(p, l, m)
      PROVE  AssignmentsInv'
    <2>1. draft' \in [Rows -> Marks]
        BY <1>6, NoScoreNotScore DEF Displayed
    <2>2. call' \in [Calls -> Handler] /\ \A d \in Calls : Harmless(d)
        BY <1>6, FinishFacts
    <2>3. QED
        BY <1>1, <2>1, <2>2, Preserved
<1>7. ASSUME Finish(c), UNCHANGED draft
      PROVE  AssignmentsInv'
    BY <1>2, <1>7, FinishFacts
<1>8. CASE Show(c)
    <2>1. call[c].marks \in [Rows -> Marks]
        BY <1>3 DEF Handler
    <2>2. QED
        BY <1>6, <1>7, <1>8, <2>1 DEF Show
<1>9. CASE ReadFails(c)
    BY <1>6, <1>7, <1>9, NothingListed DEF ReadFails, view
<1>10. QED
    BY <1>4, <1>5, <1>8, <1>9

-----------------------------------------------------------------------------

LEMMA NextScored == AssignmentsInv /\ [Next]_vars => AssignmentsInv'
<1> SUFFICES ASSUME AssignmentsInv, [Next]_vars PROVE AssignmentsInv'
    OBVIOUS
<1>1. ASSUME UNCHANGED <<draft, call>>, AssignmentsType',
             \A k \in Rows : score[k] # NoScore => score'[k] # NoScore,
             \A k \in Rows : status'[k] = "submitted" =>
                                 status[k] = "submitted" \/ score'[k] # NoScore
      PROVE  AssignmentsInv'
    BY <1>1, Preserved DEF Harmless
<1>2. ASSUME NEW c \in Calls, NEW to \in Rows \cup {"list"}, Open(c, to)
      PROVE  AssignmentsInv'
    BY <1>2, OpenKeeps
<1>3. ASSUME NEW c \in Calls, NEW k \in Rows, ClickSave(c, k)
      PROVE  AssignmentsInv'
    <2>1. "save" \in Kinds /\ "put" \in Steps /\ {k} \in SUBSET Rows
        BY DEF Kinds, Steps
    <2>2. QED
        BY <1>3, <2>1, ClickKeeps DEF ClickSave
<1>4. ASSUME NEW c \in Calls, NEW k \in Rows, ClickSubmit(c, k)
      PROVE  AssignmentsInv'
    <2>1. "one" \in Kinds /\ "put" \in Steps /\ {k} \in SUBSET Rows
        BY DEF Kinds, Steps
    <2>2. QED
        BY <1>4, <2>1, ClickKeeps DEF ClickSubmit
<1>5. ASSUME NEW c \in Calls, ClickSubmitAll(c)
      PROVE  AssignmentsInv'
    <2>1. "all" \in Kinds /\ "post" \in Steps /\ Pending \in SUBSET Rows
        BY DEF Kinds, Steps, Pending
    <2>2. \A k \in Pending : Shown(k) => draft[k] # NoScore
        BY <1>5 DEF ClickSubmitAll, AllScored, Shown
    <2>3. QED
        BY <1>5, <2>1, <2>2, ClickKeeps DEF ClickSubmitAll
<1>6. ASSUME NEW c \in Calls, Put(c) \/ Submit(c) \/ Post(c)
      PROVE  AssignmentsInv'
    BY <1>6, PutKeeps, SubmitKeeps, PostKeeps
<1>7. ASSUME NEW c \in Calls, GiveUp(c) \/ Read(c) \/ Show(c) \/ ReadFails(c)
      PROVE  AssignmentsInv'
    BY <1>7, PageKeeps
<1>8. ASSUME NEW k \in Rows, NEW s \in Scores, Pick(k, s)
      PROVE  AssignmentsInv'
    <2>1. draft' \in [Rows -> Marks] /\ UNCHANGED <<server, call>>
        BY <1>8, NoScoreNotScore DEF Pick, AssignmentsInv, AssignmentsType
    <2>2. QED
        BY <2>1, Preserved DEF Harmless, server, AssignmentsInv, AssignmentsType
\* A colleague's page asks for a score as well.
<1>9. ASSUME NEW k \in Rows, NEW s \in Scores, ColleagueSubmits(k, s)
      PROVE  AssignmentsInv'
    BY <1>1, <1>9, NoScoreNotScore DEF ColleagueSubmits, view, AssignmentsInv, AssignmentsType,
        Status
<1>10. ASSUME NEW k \in Rows, Return(k)
       PROVE  AssignmentsInv'
    BY <1>1, <1>10 DEF Return, view, AssignmentsInv, AssignmentsType, Status
<1>11. CASE ForceClose
    BY <1>1, <1>11 DEF ForceClose, view, AssignmentsInv, AssignmentsType, Status
<1>12. CASE UNCHANGED vars
    BY <1>1, <1>12 DEF vars, server, view, AssignmentsInv, AssignmentsType
<1>13. QED
    BY <1>2, <1>3, <1>4, <1>5, <1>6, <1>7, <1>8, <1>9, <1>10, <1>11, <1>12 DEF Next

\* What a unit submits at the pages has a score, whatever was loaded, saved,
\* given up or returned meanwhile (MyAssignments.tsx, responses.ts).
THEOREM SubmissionsAreScored == Spec => []SubmittedIsScored
<1>1. AssignmentsInv => SubmittedIsScored
    BY DEF AssignmentsInv
<1>2. QED
    BY <1>1, InitScored, NextScored, PTL DEF Spec
=============================================================================
