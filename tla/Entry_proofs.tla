---------------------------- MODULE Entry_proofs ----------------------------
(***************************************************************************)
(* Proofs about SignIn, for any number of tabs, sessions and cookies, and  *)
(* about Startup, for any number of containers, images and files.          *)
(***************************************************************************)
EXTENDS SignIn, Startup, WellFoundedInduction, TLAPS

-----------------------------------------------------------------------------
(* Signing in: the server and the cookies *)

StoreType ==
    /\ jar \in [Indices -> Logins \cup {NoLogin}]
    /\ session \in [Logins -> Session]
    /\ issued \in [Tabs -> Logins \cup {NoLogin}]

\* A name that a cookie or an answer on its way has is the name of one session:
\* it is not free, and was given to one exchange.
OneSessionEach ==
    /\ \A i \in Indices : jar[i] # NoLogin => session[jar[i]] # Free
    /\ \A t \in Tabs : issued[t] # NoLogin =>
         /\ session[issued[t]] # Free
         /\ \A i \in Indices : jar[i] # issued[t]
         /\ \A u \in Tabs : issued[u] = issued[t] => u = t

\* A session is free as a whole.
Whole == \A n \in Logins : session[n].state = "free" => session[n] = Free

StoreInv == StoreType /\ OneSessionEach /\ Whole

\* What a browser still has after an answer is what it was.
LEMMA HeldIsKept ==
    ASSUME StoreType, Whole, NEW cookies \in [Indices -> Logins \cup {NoLogin}],
           NEW answers \in [Tabs -> Logins \cup {NoLogin}]
    PROVE  LET kept == Held(cookies, answers)
           IN  /\ kept \in [Logins -> Session]
               /\ \A n \in Logins : kept[n].state = "free" => kept[n] = Free
               /\ \A i \in Indices : cookies[i] # NoLogin => kept[cookies[i]] = session[cookies[i]]
               /\ \A t \in Tabs : answers[t] # NoLogin => kept[answers[t]] = session[answers[t]]
<1>1. Free \in Session
    BY DEF Free, Session, SessionState
<1>2. \A n \in Logins : Held(cookies, answers)[n] \in {session[n], Free}
    BY DEF Held
<1>3. Held(cookies, answers) \in [Logins -> Session]
    BY <1>1, <1>2 DEF Held, StoreType
<1>4. \A n \in Logins : (\E i \in Indices : cookies[i] = n) \/ (\E t \in Tabs : answers[t] = n)
                          => Held(cookies, answers)[n] = session[n]
    BY DEF Held
<1>5. QED
    BY <1>2, <1>3, <1>4, SignInAssumption DEF Whole

\* A step that takes names away from cookies and answers, and then forgets the
\* sessions nobody has.
LEMMA Forgetting ==
    ASSUME StoreInv, jar' \in [Indices -> Logins \cup {NoLogin}],
           issued' \in [Tabs -> Logins \cup {NoLogin}], session' = Held(jar', issued'),
           \A i \in Indices : jar'[i] \in {jar[i], NoLogin} \cup {issued[t] : t \in Tabs},
           \A t \in Tabs : /\ issued'[t] \in {issued[t], NoLogin}
                           /\ issued'[t] # NoLogin => \A i \in Indices : jar'[i] # issued[t]
    PROVE  StoreInv'
<1>1. StoreType' /\ Whole'
    BY HeldIsKept DEF StoreInv, StoreType, Whole
<1>2. /\ \A i \in Indices : jar'[i] # NoLogin => session'[jar'[i]] = session[jar'[i]]
      /\ \A t \in Tabs : issued'[t] # NoLogin => session'[issued'[t]] = session[issued'[t]]
    BY HeldIsKept DEF StoreInv
<1>3. OneSessionEach'
    BY <1>2 DEF StoreInv, OneSessionEach
<1>4. QED
    BY <1>1, <1>3 DEF StoreInv

LEMMA InitStore == Init => StoreInv
BY DEF Init, StoreInv, StoreType, OneSessionEach, Whole, Session, Free, SessionState, EmptyJar

LEMMA NextStore ==
    ASSUME StoreInv, [Next]_vars, \A t \in Tabs : page[t] = "exchanged" => issued[t] # NoLogin
    PROVE  StoreInv'
<1> USE DEF serverVars
<1>1. ASSUME UNCHANGED <<jar, session, issued>>
      PROVE  StoreInv'
    BY <1>1 DEF StoreInv, StoreType, OneSessionEach, Whole
<1>2. ASSUME Cleared, UNCHANGED issued
      PROVE  StoreInv'
    <2>1. EmptyJar \in [Indices -> Logins \cup {NoLogin}]
          /\ \A i \in Indices : EmptyJar[i] = NoLogin
        BY DEF EmptyJar
    <2>2. QED
        BY <1>2, <2>1, Forgetting, SignInAssumption
            DEF Cleared, StoreInv, StoreType, OneSessionEach
<1>3. ASSUME NEW t \in Tabs, Receive(t)
      PROVE  StoreInv'
    BY <1>1, <1>2, <1>3
        DEF Receive, ReceiveData, ReceiveUnauthorized, ReceiveExpired, ReceiveBye
<1>4. ASSUME NEW t \in Tabs, NEW n \in Logins, NEW size \in Sizes, NEW state \in TokenStates,
             Exchange(t, n, size, state)
      PROVE  StoreInv'
    <2>1. \A i \in Indices : jar[i] # n
        BY <1>4, SignInAssumption DEF Exchange, StoreInv, OneSessionEach
    <2>2. \A u \in Tabs : issued[u] # n
        BY <1>4, SignInAssumption DEF Exchange, StoreInv, OneSessionEach
    <2>3. [size |-> size, state |-> state] \in Session /\ state # "free"
        BY DEF Session, SessionState, TokenStates
    <2>4. /\ issued' \in [Tabs -> Logins \cup {NoLogin}] /\ issued'[t] = n
          /\ \A u \in Tabs \ {t} : issued'[u] = issued[u]
          /\ session' \in [Logins -> Session] /\ session'[n] = [size |-> size, state |-> state]
          /\ \A m \in Logins \ {n} : session'[m] = session[m]
          /\ jar' = jar
        BY <1>4, <2>3 DEF Exchange, StoreInv, StoreType
    <2>5. session'[n] # Free
        BY <2>3, <2>4 DEF Free
    <2>6. StoreType' /\ Whole'
        BY <2>3, <2>4 DEF StoreInv, StoreType, Whole
    <2>7. \A m \in Logins : session[m] # Free => session'[m] # Free
        BY <2>4, <2>5
    <2>8. OneSessionEach'
        BY <2>1, <2>2, <2>4, <2>5, <2>7, SignInAssumption DEF StoreInv, StoreType, OneSessionEach
    <2>9. QED
        BY <2>6, <2>8 DEF StoreInv
<1>5. ASSUME NEW t \in Tabs, SignedIn(t), page[t] = "exchanged" => issued[t] # NoLogin
      PROVE  StoreInv'
    <2>1. /\ jar' \in [Indices -> Logins \cup {NoLogin}]
          /\ \A i \in Indices : jar'[i] \in {issued[t], jar[i]}
        BY <1>5 DEF SignedIn, Stored, StoreInv, StoreType
    <2>2. /\ issued' \in [Tabs -> Logins \cup {NoLogin}]
          /\ issued'[t] = NoLogin /\ \A u \in Tabs \ {t} : issued'[u] = issued[u]
        BY <1>5 DEF SignedIn, StoreInv, StoreType
    <2>3. issued[t] # NoLogin
        BY <1>5 DEF SignedIn
    <2>4. \A u \in Tabs : issued'[u] # NoLogin => \A i \in Indices : jar'[i] # issued[u]
        BY <2>1, <2>2, <2>3 DEF StoreInv, OneSessionEach
    <2>5. QED
        BY <1>5, <2>1, <2>2, <2>4, Forgetting DEF SignedIn
<1>6. ASSUME NEW t \in Tabs, Proceed(t)
      PROVE  StoreInv'
    BY <1>1, <1>4, <1>5, <1>6
        DEF Proceed, AskSession, Enter, Load, GoToProvider, ComeBack, Refused, SignInFails
<1>7. ASSUME NEW t \in Tabs, Call(t) \/ Attend(t) \/ CooldownOver(t)
      PROVE  StoreInv'
    BY <1>1, <1>7 DEF Call, Attend, Logout, Retry, Load, Reload, TryAgain, CooldownOver
<1>8. ASSUME NEW n \in Logins, TokenExpires(n) \/ SessionExpires(n)
      PROVE  StoreInv'
    <2>1. PICK s \in SessionState \ {"free"} : session' = [session EXCEPT ![n].state = s]
        BY <1>8 DEF TokenExpires, SessionExpires, SessionState
    <2>2. /\ session' \in [Logins -> Session]
          /\ session'[n].state # "free" /\ session[n].state # "free"
          /\ \A m \in Logins \ {n} : session'[m] = session[m]
        BY <1>8, <2>1 DEF TokenExpires, SessionExpires, StoreInv, StoreType, Session
    <2>3. UNCHANGED <<jar, issued>>
        BY <1>8 DEF TokenExpires, SessionExpires
    <2>4. \A m \in Logins : session[m] # Free => session'[m] # Free
        BY <2>2 DEF Free
    <2>5. QED
        BY <2>2, <2>3, <2>4 DEF StoreInv, StoreType, OneSessionEach, Whole
<1>9. ASSUME NEW n \in Logins, CookiesExpire(n)
      PROVE  StoreInv'
    <2>1. /\ jar' \in [Indices -> Logins \cup {NoLogin}]
          /\ \A i \in Indices : jar'[i] \in {jar[i], NoLogin}
        BY <1>9 DEF CookiesExpire, StoreInv, StoreType
    <2>2. QED
        BY <1>9, <2>1, Forgetting, SignInAssumption
            DEF CookiesExpire, StoreInv, StoreType, OneSessionEach
<1>10. CASE RotateSecret
    <2>1. \A n \in Logins :
            session'[n] = IF session[n].state = "free" THEN Free
                          ELSE [session[n] EXCEPT !.state = "lost"]
        BY <1>10 DEF RotateSecret
    <2>2. /\ session' \in [Logins -> Session]
          /\ \A n \in Logins : /\ session'[n].state = "free" => session'[n] = Free
                               /\ session[n] # Free => session'[n] # Free
        BY <1>10, <2>1 DEF RotateSecret, StoreInv, StoreType, Whole, Session, SessionState, Free
    <2>3. QED
        BY <1>10, <2>2 DEF RotateSecret, StoreInv, StoreType, OneSessionEach, Whole
<1>11. QED
    BY <1>1, <1>3, <1>6, <1>7, <1>8, <1>9, <1>10 DEF Next, vars

-----------------------------------------------------------------------------
(* Signing in: the tabs *)

TabType ==
    /\ page \in [Tabs -> Page]
    /\ call \in [Tabs -> [Slots -> Answer]]
    /\ leaving \in [Tabs -> BOOLEAN]
    /\ recent \in [Tabs -> BOOLEAN]

\* The answer of /auth/exchange is on its way as long as its tab waits for it.
Awaited == \A t \in Tabs : page[t] = "exchanged" <=> issued[t] # NoLogin

LEMMA Shown ==
    ASSUME TabType, NEW t \in Tabs, NEW p \in Page, Show(t, p)
    PROVE  page' \in [Tabs -> Page] /\ page'[t] = p /\ \A u \in Tabs \ {t} : page'[u] = page[u]
BY DEF TabType, Show

LEMMA Called ==
    ASSUME TabType, NEW t \in Tabs, NEW s \in Slots, NEW a \in Answer,
           call' \in {[call EXCEPT ![t][s] = a], [call EXCEPT ![t] = NoCalls]}
    PROVE  call' \in [Tabs -> [Slots -> Answer]]
<1>1. NoCalls \in [Slots -> Answer]
    BY DEF NoCalls, Answer
<1>2. [call[t] EXCEPT ![s] = a] \in [Slots -> Answer]
    BY DEF TabType
<1>3. call' \in {[call EXCEPT ![t] = [call[t] EXCEPT ![s] = a]], [call EXCEPT ![t] = NoCalls]}
    OBVIOUS
<1>4. QED
    BY <1>1, <1>2, <1>3 DEF TabType

\* Only a page of the application has calls on their way, or has been told to
\* leave for the provider.
Working == {"loading", "app", "error"}
QuietElsewhere == \A t \in Tabs : page[t] \notin Working => call[t] = NoCalls /\ ~leaving[t]

TabInv == TabType /\ Awaited /\ QuietElsewhere

LEMMA InitTab == Init => TabInv
<1>1. NoCalls \in [Slots -> Answer]
    BY DEF NoCalls, Answer
<1>2. QED
    BY <1>1 DEF Init, TabInv, TabType, Awaited, QuietElsewhere, Page

\* One call of a page of the application is answered or made.
LEMMA OneCall ==
    ASSUME TabInv, NEW t \in Tabs, page[t] \in Working, UNCHANGED issued,
           UNCHANGED page \/ \E p \in Working : Show(t, p),
           \/ \E s \in Slots, a \in Answer : call' = [call EXCEPT ![t][s] = a]
           \/ call' = [call EXCEPT ![t] = NoCalls],
           leaving' \in [Tabs -> BOOLEAN], recent' \in [Tabs -> BOOLEAN],
           \A u \in Tabs \ {t} : leaving'[u] = leaving[u]
    PROVE  TabInv'
<1>1. Working \subseteq Page /\ "exchanged" \notin Working
    BY DEF Working, Page
<1>2. page' \in [Tabs -> Page] /\ page'[t] \in Working /\ \A u \in Tabs \ {t} : page'[u] = page[u]
    BY <1>1, Shown DEF TabInv, TabType
<1>3. call' \in [Tabs -> [Slots -> Answer]]
    <2>1. \E s \in Slots : TRUE
        BY DEF Slots
    <2>2. "none" \in Answer
        BY DEF Answer
    <2>3. QED
        BY <2>1, <2>2, Called DEF TabInv
<1>4. \A u \in Tabs \ {t} : call'[u] = call[u]
    BY DEF TabInv, TabType
<1>5. QED
    BY <1>1, <1>2, <1>3, <1>4 DEF TabInv, TabType, Awaited, QuietElsewhere

\* A tab goes from one page to another, none of which waits for the exchange.
LEMMA OtherPage ==
    ASSUME TabInv, NEW t \in Tabs, NEW p \in Page, Show(t, p), UNCHANGED issued,
           page[t] # "exchanged", p # "exchanged",
           \/ UNCHANGED <<call, leaving>> /\ page[t] \notin Working
           \/ UNCHANGED leaving /\ p \in Working /\ \E calls \in [Slots -> Answer] :
                                                      call' = [call EXCEPT ![t] = calls]
           \/ call' = [call EXCEPT ![t] = NoCalls] /\ leaving' = [leaving EXCEPT ![t] = FALSE],
           recent' \in {recent, [recent EXCEPT ![t] = FALSE]}
    PROVE  TabInv'
<1>1. page' \in [Tabs -> Page] /\ page'[t] = p /\ \A u \in Tabs \ {t} : page'[u] = page[u]
    BY Shown DEF TabInv
<1>2. NoCalls \in [Slots -> Answer]
    BY DEF NoCalls, Answer
<1>3. /\ call' \in [Tabs -> [Slots -> Answer]] /\ leaving' \in [Tabs -> BOOLEAN]
      /\ recent' \in [Tabs -> BOOLEAN]
      /\ \A u \in Tabs \ {t} : call'[u] = call[u] /\ leaving'[u] = leaving[u]
    <2>1. /\ call \in [Tabs -> [Slots -> Answer]] /\ leaving \in [Tabs -> BOOLEAN]
          /\ recent \in [Tabs -> BOOLEAN]
        BY DEF TabInv, TabType
    <2>2. \E calls \in [Slots -> Answer] : call' \in {call, [call EXCEPT ![t] = calls]}
        BY <1>2
    <2>3. leaving' \in {leaving, [leaving EXCEPT ![t] = FALSE]}
        OBVIOUS
    <2>4. call' \in [Tabs -> [Slots -> Answer]] /\ \A u \in Tabs \ {t} : call'[u] = call[u]
        BY <2>1, <2>2
    <2>5. leaving' \in [Tabs -> BOOLEAN] /\ \A u \in Tabs \ {t} : leaving'[u] = leaving[u]
        BY <2>1, <2>3
    <2>6. recent' \in [Tabs -> BOOLEAN]
        BY <2>1
    <2>7. QED
        BY <2>4, <2>5, <2>6
<1>4. p \notin Working => call'[t] = NoCalls /\ ~leaving'[t]
    BY DEF TabInv, TabType, QuietElsewhere
<1>5. QED
    BY <1>1, <1>3, <1>4 DEF TabInv, TabType, Awaited, QuietElsewhere

LEMMA NextTab ==
    ASSUME TabInv, StoreType, [Next]_vars
    PROVE  TabInv'
<1> USE DEF serverVars
<1>1. /\ page \in [Tabs -> Page] /\ leaving \in [Tabs -> BOOLEAN] /\ recent \in [Tabs -> BOOLEAN]
      /\ call \in [Tabs -> [Slots -> Answer]]
    BY DEF TabInv, TabType
<1>2. ASSUME NEW t \in Tabs, NEW s \in Slots, call[t][s] # "none"
      PROVE  page[t] \in Working
    BY <1>2 DEF TabInv, QuietElsewhere, NoCalls
<1>3. Verdict \in Answer
    BY DEF Verdict, Answer
<1>4. ASSUME NEW t \in Tabs, NEW s \in Slots, ReceiveData(t, s)
      PROVE  TabInv'
    <2>1. UNCHANGED page \/ \E p \in Working : Show(t, p)
        BY <1>4 DEF ReceiveData, Working
    <2>2. \/ \E a \in Answer : call' = [call EXCEPT ![t][s] = a]
          \/ call' = [call EXCEPT ![t] = NoCalls]
        BY <1>4 DEF ReceiveData, Answer
    <2>3. QED
        BY <1>1, <1>2, <1>4, <2>1, <2>2, OneCall DEF ReceiveData
<1>5. ASSUME NEW t \in Tabs, NEW s \in Slots, Unauthorized(t, s), call[t][s] # "none",
             UNCHANGED issued
      PROVE  TabInv'
    <2>1. UNCHANGED page \/ \E p \in Working : Show(t, p)
        BY <1>2, <1>5 DEF Unauthorized, Working
    <2>2. \E a \in Answer : call' = [call EXCEPT ![t][s] = a]
        BY <1>5 DEF Unauthorized, Answer
    <2>3. /\ leaving' \in [Tabs -> BOOLEAN] /\ recent' \in [Tabs -> BOOLEAN]
          /\ \A u \in Tabs \ {t} : leaving'[u] = leaving[u]
        BY <1>1, <1>5 DEF Unauthorized
    <2>4. /\ page[t] \in Working /\ UNCHANGED issued
          /\ \E a \in Slots, b \in Answer : call' = [call EXCEPT ![t][a] = b]
        BY <1>1, <1>2, <1>5, <2>2
    <2>5. QED
        BY <2>1, <2>3, <2>4, OneCall
<1>6. ASSUME NEW t \in Tabs, ReceiveBye(t)
      PROVE  TabInv'
    <2>1. "out" \in Page /\ "me" \in Slots
        BY DEF Page, Slots
    <2>2. page[t] # "exchanged"
        BY <1>2, <1>6, <2>1 DEF ReceiveBye, Working
    <2>3. QED
        BY <1>6, <2>1, <2>2, OtherPage DEF ReceiveBye
<1>7. ASSUME NEW t \in Tabs, Receive(t)
      PROVE  TabInv'
    BY <1>4, <1>5, <1>6, <1>7 DEF Receive, ReceiveUnauthorized, ReceiveExpired
<1>8. ASSUME NEW t \in Tabs, AskSession(t) \/ ComeBack(t) \/ Refused(t) \/ SignInFails(t) \/ TryAgain(t)
      PROVE  TabInv'
    <2>1. PICK p \in Page \ {"exchanged"} : Show(t, p)
        BY <1>8 DEF AskSession, ComeBack, Refused, SignInFails, TryAgain, Page
    <2>2. page[t] # "exchanged" /\ page[t] \notin Working
        BY <1>8 DEF AskSession, ComeBack, Refused, SignInFails, TryAgain, Working
    <2>3. QED
        BY <1>1, <1>8, <2>1, <2>2, OtherPage DEF AskSession, ComeBack, Refused, SignInFails, TryAgain
<1>9. ASSUME NEW t \in Tabs, Enter(t) \/ Retry(t)
      PROVE  TabInv'
    <2>1. "loading" \in Page /\ "loading" \in Working
        BY DEF Page, Working
    <2>2. [s \in Slots |-> Verdict] \in [Slots -> Answer]
        BY <1>3
    <2>3. QED
        BY <1>1, <1>9, <2>1, <2>2, OtherPage DEF Enter, Retry, Load
<1>10. ASSUME NEW t \in Tabs, GoToProvider(t) \/ Reload(t)
       PROVE  TabInv'
    <2>1. PICK p \in Page \ {"exchanged"} : Show(t, p)
        BY <1>10 DEF GoToProvider, Reload, Page
    <2>2. page[t] # "exchanged"
        BY <1>10 DEF GoToProvider, Reload, TabInv, QuietElsewhere, Working
    <2>3. QED
        BY <1>1, <1>10, <2>1, <2>2, OtherPage DEF GoToProvider, Reload
<1>11. ASSUME NEW t \in Tabs, NEW n \in Logins, NEW size \in Sizes, NEW state \in TokenStates,
              Exchange(t, n, size, state)
       PROVE  TabInv'
    <2>1. "exchanged" \in Page
        BY DEF Page
    <2>2. page' \in [Tabs -> Page] /\ page'[t] = "exchanged"
          /\ \A u \in Tabs \ {t} : page'[u] = page[u]
        BY <1>11, <2>1, Shown DEF Exchange, TabInv
    <2>3. issued'[t] = n /\ \A u \in Tabs \ {t} : issued'[u] = issued[u]
        BY <1>11 DEF Exchange, StoreType
    <2>4. page[t] \notin Working
        BY <1>11 DEF Exchange, Working
    <2>5. QED
        BY <1>1, <1>11, <2>2, <2>3, <2>4, SignInAssumption
            DEF Exchange, TabInv, TabType, Awaited, QuietElsewhere
<1>12. ASSUME NEW t \in Tabs, SignedIn(t)
       PROVE  TabInv'
    <2>1. "session_yes" \in Page
        BY DEF Page
    <2>2. page' \in [Tabs -> Page] /\ page'[t] = "session_yes"
          /\ \A u \in Tabs \ {t} : page'[u] = page[u]
        BY <1>12, <2>1, Shown DEF SignedIn, TabInv
    <2>3. issued'[t] = NoLogin /\ \A u \in Tabs \ {t} : issued'[u] = issued[u]
        BY <1>12 DEF SignedIn, StoreType
    <2>4. page[t] \notin Working
        BY <1>12 DEF SignedIn, Working
    <2>5. QED
        BY <1>1, <1>12, <2>2, <2>3, <2>4
            DEF SignedIn, TabInv, TabType, Awaited, QuietElsewhere
<1>13. ASSUME NEW t \in Tabs, Call(t) \/ Logout(t)
       PROVE  TabInv'
    <2>1. \E s \in Slots, a \in Answer : call' = [call EXCEPT ![t][s] = a]
        BY <1>3, <1>13 DEF Call, Logout, Slots, Answer
    <2>2. page[t] \in Working
        BY <1>13 DEF Call, Logout, Working
    <2>3. QED
        BY <1>1, <1>13, <2>1, <2>2, OneCall DEF Call, Logout
<1>14. ASSUME NEW t \in Tabs, CooldownOver(t)
       PROVE  TabInv'
    BY <1>1, <1>14 DEF CooldownOver, TabInv, TabType, Awaited, QuietElsewhere
<1>15. ASSUME UNCHANGED <<page, call, leaving, recent, issued>>
       PROVE  TabInv'
    BY <1>15 DEF TabInv, TabType, Awaited, QuietElsewhere
<1>16. QED
    BY <1>7, <1>8, <1>9, <1>10, <1>11, <1>12, <1>13, <1>14, <1>15
        DEF Next, Proceed, Attend, TokenExpires, SessionExpires, CookiesExpire, RotateSecret, vars

-----------------------------------------------------------------------------
(* Signing in: what follows *)

EntryInv == StoreInv /\ TabInv

LEMMA EntryInvariance == Spec => []EntryInv
<1>1. EntryInv /\ [Next]_vars => EntryInv'
    BY NextStore, NextTab DEF EntryInv, StoreInv, TabInv, Awaited
<1>2. QED
    BY <1>1, InitStore, InitTab, PTL DEF Spec, EntryInv

\* The state always has the form SignIn declares.
THEOREM SignInTypeCorrect == Spec => []TypeOK
<1>1. EntryInv => TypeOK
    BY DEF EntryInv, StoreInv, StoreType, TabInv, TabType, TypeOK
<1>2. QED
    BY <1>1, EntryInvariance, PTL

\* The names of sessions the model reuses do not mix sessions up: as long as a
\* cookie or an answer on its way has a name, nothing else is given it.
THEOREM NamesAreGivenOnce == Spec => []OneSessionEach
<1>1. EntryInv => OneSessionEach
    BY DEF EntryInv, StoreInv
<1>2. QED
    BY <1>1, EntryInvariance, PTL

-----------------------------------------------------------------------------
(* Starting up *)

\* schema_migrations names the version of each file that was run last, unless it
\* was told otherwise by --bootstrap (run-migrations.ts).
THEOREM RecordsAreTrue == StartupSpec => []RecordIsTrue
<1>1. StartupInit => RecordIsTrue
    BY DEF StartupInit, RecordIsTrue
<1>2. RecordIsTrue /\ [StartupNext]_startupVars => RecordIsTrue'
    <2> SUFFICES ASSUME RecordIsTrue, [StartupNext]_startupVars
                 PROVE  RecordIsTrue'
        OBVIOUS
    <2> USE DEF RecordIsTrue, database
    <2>1. ASSUME UNCHANGED <<recorded, schema, bootstrapped>>
          PROVE  RecordIsTrue'
        BY <2>1
    <2>2. ASSUME NEW c \in Containers, Commit(c)
          PROVE  RecordIsTrue'
        BY <2>2 DEF Commit
    <2>3. ASSUME NEW c \in Containers, Step(c)
          PROVE  RecordIsTrue'
        BY <2>1, <2>2, <2>3
            DEF Step, Ensure,
                CreateTable, CreateCollides,
                ReadApplied, Skip, RunContents,
                ContentsCollide, Serve, Restart, Fatal
    <2>4. ASSUME NEW c \in Containers, Stop(c)
          PROVE  RecordIsTrue'
        BY <2>1, <2>4 DEF Stop
    <2>5. ASSUME NEW c \in Containers, NEW f \in Files, Bootstrap(c, f)
          PROVE  RecordIsTrue'
        BY <2>5 DEF Bootstrap
    <2>6. ASSUME NEW c \in Containers, StatementFails(c)
          PROVE  RecordIsTrue'
        BY <2>1, <2>6 DEF StatementFails, Fatal
    <2>7. QED
        BY <2>1, <2>3, <2>4, <2>5, <2>6 DEF StartupNext, startupVars
<1>3. QED
    BY <1>1, <1>2, PTL DEF StartupSpec

\* What a container has done or is about to is recorded, once it is done.
Migrated(fs) == \A f \in fs : recorded[f] # None

RunnerInv ==
    /\ StartupType
    /\ \A c \in Containers :
         /\ Migrated({f \in Files : runner[c].applied[f] # None})
         /\ Migrated(runner[c].done)
         /\ runner[c].at = "commit" => Pending(c) # {}
         /\ runner[c].at = "serving" => Migrated({f \in Files : Image[c][f] # None})

\* The next file is one that is pending.
LEMMA NextIsPending ==
    ASSUME NEW c \in Containers, Pending(c) # {}
    PROVE  /\ Next1(c) \in Pending(c)
           /\ Image[c][Next1(c)] \in Versions
<1> DEFINE files == Pending(c)
<1>1. files \subseteq Nat
    BY StartupAssumption DEF Pending
<1>2. PICK m \in files : \A n \in files : ~(<<n, m>> \in OpToRel(<, Nat))
    BY <1>1, NatLessThanWellFounded, WFMin
<1>3. ASSUME NEW n \in files
      PROVE  m <= n
    <2>1. m \in Nat /\ n \in Nat
        BY <1>1, <1>2
    <2>2. ~(n < m)
        BY <1>2, <2>1 DEF OpToRel
    <2>3. QED
        BY <2>1, <2>2
<1>4. Next1(c) \in files
    BY <1>3 DEF Next1
<1>5. QED
    BY <1>4, StartupAssumption DEF Pending

LEMMA InitRunner == StartupInit => RunnerInv
<1> SUFFICES ASSUME StartupInit
             PROVE  RunnerInv
    OBVIOUS
<1>1. Unread \in [Files -> Versions \cup {None}]
    BY DEF Unread
<1>2. Begun \in [at : {"ensure"}, applied : [Files -> Versions \cup {None}],
                            done : SUBSET Files, drift : BOOLEAN]
    BY <1>1 DEF Begun
<1>3. StartupType
    <2>1. 0 \in 0 .. MaxStops
        BY StartupAssumption
    <2>2. [c \in Containers |-> Begun]
            \in [Containers -> [at : {"ensure"}, applied : [Files -> Versions \cup {None}],
                               done : SUBSET Files, drift : BOOLEAN]]
        BY <1>2
    <2>3. QED
        BY <1>1, <2>1, <2>2 DEF StartupInit, StartupType
<1>4. QED
    BY <1>3 DEF StartupInit, Begun, Unread, RunnerInv, Migrated

LEMMA NextRunner ==
    ASSUME RunnerInv, [StartupNext]_startupVars
    PROVE  RunnerInv'
<1> USE StartupAssumption DEF database, At
<1>1. Begun \in
        [at : {"ensure"}, applied : [Files -> {None}], done : {{}}, drift : {FALSE}]
    BY DEF Begun, Unread
\* A runner moves, and nothing that was recorded is forgotten.
<1>2. ASSUME NEW c \in Containers,
             NEW r \in [at : {"ensure", "create", "read", "files", "commit", "serving", "down"},
                        applied : [Files -> Versions \cup {None}],
                        done : SUBSET Files, drift : BOOLEAN],
             Set(c, r), UNCHANGED bootstrapped,
             table' \in BOOLEAN, stops' \in 0 .. MaxStops,
             schema' \in [Files -> Versions \cup {None}],
             recorded' \in [Files -> Versions \cup {None}],
             \A f \in Files : recorded[f] # None => recorded'[f] # None,
             Migrated({f \in Files : r.applied[f] # None})',
             Migrated(r.done)',
             r.at = "commit" => \E f \in Files \ r.done : Image[c][f] # None,
             r.at = "serving" => Migrated({f \in Files : Image[c][f] # None})'
      PROVE  RunnerInv'
    <2>1. /\ runner'[c] = r /\ \A d \in Containers \ {c} : runner'[d] = runner[d]
          /\ StartupType'
        BY <1>2 DEF RunnerInv, StartupType, Set
    <2> DEFINE InOrder(d) ==
            /\ Migrated({f \in Files : runner[d].applied[f] # None})
            /\ Migrated(runner[d].done)
            /\ runner[d].at = "commit" => Pending(d) # {}
            /\ runner[d].at = "serving" => Migrated({f \in Files : Image[d][f] # None})
    <2>2. InOrder(c)'
        BY <1>2, <2>1 DEF Migrated, Pending
    <2>3. ASSUME NEW d \in Containers \ {c}
          PROVE  InOrder(d)'
        <3>1. InOrder(d) /\ runner[d].done \subseteq Files
            BY DEF RunnerInv, StartupType
        <3>2. QED
            BY <1>2, <2>1, <3>1 DEF Migrated, Pending
    <2>4. QED
        BY <2>1, <2>2, <2>3 DEF RunnerInv
<1>3. \A c \in Containers :
        /\ runner[c] \in [at : {"ensure", "create", "read", "files", "commit", "serving", "down"},
                          applied : [Files -> Versions \cup {None}],
                          done : SUBSET Files, drift : BOOLEAN]
        /\ Migrated({f \in Files : runner[c].applied[f] # None}) /\ Migrated(runner[c].done)
    BY DEF RunnerInv, StartupType
<1>4. /\ table \in BOOLEAN /\ bootstrapped \in BOOLEAN /\ stops \in 0 .. MaxStops
      /\ recorded \in [Files -> Versions \cup {None}] /\ schema \in [Files -> Versions \cup {None}]
    BY DEF RunnerInv, StartupType
<1>5. ASSUME NEW c \in Containers,
             Fatal(c) \/ Restart(c) \/ Stop(c)
      PROVE  RunnerInv'
    <2>1. PICK p \in {"ensure", "down"} : Set(c, [Begun EXCEPT !.at = p])
        <3>1. Begun = [Begun EXCEPT !.at = "ensure"]
            BY <1>1
        <3>2. QED
            BY <1>5, <3>1 DEF Fatal, Restart, Stop
    <2> DEFINE r == [Begun EXCEPT !.at = p]
    <2>2. /\ r \in [at : {"ensure", "down"}, applied : [Files -> {None}],
                   done : {{}}, drift : {FALSE}]
        BY <1>1
    <2>3. UNCHANGED <<table, recorded, schema, bootstrapped>> /\ stops' \in 0 .. MaxStops
        BY <1>4, <1>5 DEF Fatal, Restart, Stop
    <2>4. Set(c, r)
        BY <2>1
    <2> HIDE DEF r
    <2>5. QED
        BY <1>2, <1>4, <2>2, <2>3, <2>4 DEF Migrated
<1>6. ASSUME NEW c \in Containers, Ensure(c) \/ CreateTable(c)
      PROVE  RunnerInv'
    <2>1. PICK p \in {"read", "create"} : Set(c, [runner[c] EXCEPT !.at = p])
        BY <1>6 DEF Ensure, CreateTable
    <2>2. UNCHANGED <<recorded, schema, bootstrapped, stops>> /\ table' \in BOOLEAN
        BY <1>4, <1>6 DEF Ensure, CreateTable
    <2> DEFINE r == [runner[c] EXCEPT !.at = p]
    <2>3. /\ r \in [at : {"read", "create"}, applied : [Files -> Versions \cup {None}],
                    done : SUBSET Files, drift : BOOLEAN]
          /\ r.applied = runner[c].applied /\ r.done = runner[c].done
        BY <1>3
    <2>4. Set(c, r)
        BY <2>1
    <2> HIDE DEF r
    <2>5. QED
        BY <1>2, <1>3, <1>4, <2>2, <2>3, <2>4 DEF Migrated
<1>7. ASSUME NEW c \in Containers, ReadApplied(c)
      PROVE  RunnerInv'
    <2> DEFINE r == [runner[c] EXCEPT !.at = "files", !.applied = recorded]
    <2>1. /\ r \in [at : {"files"}, applied : [Files -> Versions \cup {None}],
                    done : SUBSET Files, drift : BOOLEAN]
          /\ r.applied = recorded /\ r.done = runner[c].done
        BY <1>3, <1>4
    <2>2. Set(c, r) /\ UNCHANGED <<table, recorded, schema, bootstrapped, stops>>
        BY <1>7 DEF ReadApplied
    <2> HIDE DEF r
    <2>3. QED
        BY <1>2, <1>3, <1>4, <2>1, <2>2 DEF Migrated
<1>8. ASSUME NEW c \in Containers, Skip(c)
      PROVE  RunnerInv'
    <2> DEFINE f == Next1(c)
               r == [runner[c] EXCEPT !.done = @ \cup {f},
                                      !.drift = @ \/ runner[c].applied[f] # Image[c][f]]
    <2>1. f \in Files /\ runner[c].applied[f] # None /\ runner[c].at = "files"
        BY <1>8, NextIsPending DEF Skip, Pending
    <2>2. Set(c, r) /\ UNCHANGED <<table, recorded, schema, bootstrapped, stops>>
        BY <1>8 DEF Skip
    <2> HIDE DEF f
    <2>3. /\ r \in [at : {"files"}, applied : [Files -> Versions \cup {None}],
                    done : SUBSET Files, drift : BOOLEAN]
          /\ r.applied = runner[c].applied /\ r.done = runner[c].done \cup {f}
        BY <1>3, <2>1
    <2> HIDE DEF r
    <2>4. QED
        BY <1>2, <1>3, <1>4, <2>1, <2>2, <2>3 DEF Migrated
<1>9. ASSUME NEW c \in Containers, RunContents(c)
      PROVE  RunnerInv'
    <2> DEFINE r == [runner[c] EXCEPT !.at = "commit"]
    <2>1. /\ r \in [at : {"commit"}, applied : [Files -> Versions \cup {None}],
                    done : SUBSET Files, drift : BOOLEAN]
          /\ r.applied = runner[c].applied /\ r.done = runner[c].done
        BY <1>3
    <2>2. Set(c, r) /\ UNCHANGED <<table, recorded, schema, bootstrapped, stops>>
        BY <1>9 DEF RunContents
    <2>3. \E f \in Files \ r.done : Image[c][f] # None
        BY <1>9, <2>1 DEF RunContents, Pending
    <2> HIDE DEF r
    <2>4. QED
        BY <1>2, <1>3, <1>4, <2>1, <2>2, <2>3 DEF Migrated
<1>10. ASSUME NEW c \in Containers, Commit(c)
       PROVE  RunnerInv'
    <2> DEFINE f == Next1(c)
               r == [runner[c] EXCEPT !.at = "files", !.done = @ \cup {f}]
    <2>1. f \in Files /\ Image[c][f] \in Versions
        BY <1>10, NextIsPending DEF Commit, Pending, RunnerInv
    <2>2. /\ Set(c, r) /\ UNCHANGED <<table, bootstrapped, stops>>
          /\ schema' = [schema EXCEPT ![f] = Image[c][f]]
          /\ recorded' = [recorded EXCEPT ![f] = Image[c][f]]
        BY <1>10 DEF Commit
    <2> HIDE DEF f
    <2>3. /\ r \in [at : {"files"}, applied : [Files -> Versions \cup {None}],
                    done : SUBSET Files, drift : BOOLEAN]
          /\ r.applied = runner[c].applied /\ r.done = runner[c].done \cup {f}
        BY <1>3, <2>1
    <2> HIDE DEF r
    <2>4. /\ recorded' \in [Files -> Versions \cup {None}]
          /\ schema' \in [Files -> Versions \cup {None}]
          /\ recorded'[f] # None /\ \A g \in Files \ {f} : recorded'[g] = recorded[g]
        BY <1>4, <2>1, <2>2
    <2>5. QED
        BY <1>2, <1>3, <1>4, <2>1, <2>2, <2>3, <2>4 DEF Migrated
<1>11. ASSUME NEW c \in Containers, Serve(c)
       PROVE  RunnerInv'
    <2> DEFINE r == [Begun EXCEPT !.at = "serving"]
    <2>1. r \in [at : {"serving"}, applied : [Files -> {None}], done : {{}}, drift : {FALSE}]
        BY <1>1
    <2>2. Set(c, r) /\ UNCHANGED <<table, recorded, schema, bootstrapped, stops>>
        BY <1>11 DEF Serve
    <2>3. Migrated({f \in Files : Image[c][f] # None})
        BY <1>3, <1>11 DEF Serve, Pending, Migrated
    <2> HIDE DEF r
    <2>4. QED
        BY <1>2, <1>4, <2>1, <2>2, <2>3 DEF Migrated
<1>12. ASSUME NEW c \in Containers, NEW f \in Files, Bootstrap(c, f)
       PROVE  RunnerInv'
    <2>1. /\ recorded' \in [Files -> Versions \cup {None}]
          /\ \A g \in Files : recorded[g] # None => recorded'[g] # None
          /\ bootstrapped' = TRUE
          /\ UNCHANGED <<table, schema, runner, stops>>
        BY <1>4, <1>12 DEF Bootstrap
    <2>2. StartupType'
        BY <2>1 DEF RunnerInv, StartupType
    <2>3. ASSUME NEW d \in Containers
          PROVE  /\ Migrated({g \in Files : runner[d].applied[g] # None})'
                 /\ Migrated(runner[d].done)'
                 /\ (runner[d].at = "commit" => Pending(d) # {})'
                 /\ (runner[d].at = "serving" => Migrated({g \in Files : Image[d][g] # None}))'
        <3>1. /\ Migrated({g \in Files : runner[d].applied[g] # None})
              /\ Migrated(runner[d].done) /\ runner[d].done \subseteq Files
              /\ runner[d].at = "commit" => Pending(d) # {}
              /\ runner[d].at = "serving" => Migrated({g \in Files : Image[d][g] # None})
            BY <1>3 DEF RunnerInv
        <3>2. QED
            BY <2>1, <3>1 DEF Migrated, Pending
    <2>4. QED
        BY <2>2, <2>3 DEF RunnerInv
<1>13. CASE UNCHANGED startupVars
    BY <1>13 DEF startupVars, RunnerInv, StartupType, Migrated, Pending
<1>14. QED
    BY <1>5, <1>6, <1>7, <1>8, <1>9, <1>10, <1>11, <1>12, <1>13
        DEF StartupNext, Step, CreateCollides, ContentsCollide, StatementFails

LEMMA RunnerInvariance == StartupSpec => []RunnerInv
<1>1. RunnerInv /\ [StartupNext]_startupVars => RunnerInv'
    BY NextRunner
<1>2. StartupInit => RunnerInv
    BY InitRunner
<1>3. QED
    BY <1>1, <1>2, PTL DEF StartupSpec

\* The files of the image of whoever serves are recorded.
ServesMigrated ==
    \A c \in Containers : At(c, "serving") =>
        Migrated({f \in Files : Image[c][f] # None})

\* Whoever serves, on however many restarts, replicas and images it took, serves on
\* a database in which every file of its image is recorded (run-migrations.ts:
\* a runner that does not exit with an error has applied what was pending).
THEOREM ServingIsMigrated == StartupSpec => []ServesMigrated
<1>1. RunnerInv => ServesMigrated
    BY DEF RunnerInv, ServesMigrated, At
<1>2. QED
    BY <1>1, RunnerInvariance, PTL
=============================================================================
