------------------------------- MODULE SignIn -------------------------------
(***************************************************************************)
(* Signing in: the tabs of one browser, their cookies, and the server that *)
(* keeps the session in them.                                              *)
(*                                                                         *)
(* A session is encrypted and cut into chunks, one cookie each             *)
(* (lib/tokenEncryption.ts).  All tabs share the cookies; a request        *)
(* carries them as they are when it is sent, and what the answer sets or   *)
(* clears takes effect when the answer arrives, which may be after answers *)
(* to later requests.  A request is sent and judged (middleware/auth.ts,   *)
(* routes/auth.ts) in one step, its answer arrives in another.             *)
(*                                                                         *)
(* A tab is the page of auth/AuthGate.tsx and app/App.tsx with the calls   *)
(* of api/client.ts it waits for.  Signing in is switched on, the persona  *)
(* headers are off, and the user is one the server admits (Directory).     *)
(***************************************************************************)
EXTENDS Naturals, FiniteSets

CONSTANTS
    Tabs,
    Logins,     \* names of sessions; a name is free again once nothing holds it
    NoLogin,
    MaxChunks,  \* cookies a session may take
    Sizes       \* numbers of chunks a session may have

ASSUME SignInAssumption ==
    /\ NoLogin \notin Logins
    /\ MaxChunks \in Nat \ {0}
    /\ Sizes \subseteq 1 .. MaxChunks

VARIABLES
    jar,      \* the cookies: which session the chunk in each belongs to
    session,  \* size and state of each session
    page,     \* what each tab shows or does
    issued,   \* the session an answer of /auth/exchange brings to each tab
    call,     \* answers on their way to each tab
    leaving,  \* has the tab begun a sign-in it has not left for yet?
    recent    \* less than REAUTH_COOLDOWN_MS since it last did so after a 401

vars == <<jar, session, page, issued, call, leaving, recent>>
serverVars == <<jar, session>>

\* users and me are what App.tsx loads first; later the first carries any
\* call of the application and the second the logout.
Slots == {"users", "me"}
Answer == {"none", "data", "unauthorized", "expired", "bye", "done", "never"}

Page == {"gate", "session_yes", "idp", "callback", "exchanged",
         "loading", "app", "error", "failed", "out"}

\* live: readable, and its id_token verifies; unverified: the token has expired
\* or lacks the second factor; lost: encrypted under a secret since rotated.
SessionState == {"free", "live", "unverified", "expired", "lost"}

\* encryptTokens: the cookies a session takes are its encrypted chunks.
Session == [size : Sizes \cup {0}, state : SessionState]

\* isMfaAcceptable, and the verification of the id_token: the token of a new
\* session may be refused by both, and the session is set all the same.
TokenStates == {"live", "unverified"}

Free == [size |-> 0, state |-> "free"]
NoCalls == [s \in Slots |-> "none"]
Indices == 0 .. MaxChunks - 1
EmptyJar == [i \in Indices |-> NoLogin]

TypeOK ==
    /\ jar \in [Indices -> Logins \cup {NoLogin}]
    /\ session \in [Logins -> Session]
    /\ page \in [Tabs -> Page]
    /\ issued \in [Tabs -> Logins \cup {NoLogin}]
    /\ call \in [Tabs -> [Slots -> Answer]]
    /\ leaving \in [Tabs -> BOOLEAN]
    /\ recent \in [Tabs -> BOOLEAN]

Init ==
    /\ jar = EmptyJar
    /\ session = [n \in Logins |-> Free]
    /\ page = [t \in Tabs |-> "gate"]
    /\ issued = [t \in Tabs |-> NoLogin]
    /\ call = [t \in Tabs |-> NoCalls]
    /\ leaving = [t \in Tabs |-> FALSE]
    /\ recent = [t \in Tabs |-> FALSE]

-----------------------------------------------------------------------------
(* The server *)

\* getSessionChunks: the cookies from the first on, up to the first gap.
Sent == {i \in Indices : \A j \in 0 .. i : jar[j] # NoLogin}

\* decryptTokens: nothing but all chunks of one session, in a key still known.
Readable(n) ==
    /\ Sent = 0 .. session[n].size - 1
    /\ \A i \in Sent : jar[i] = n
    /\ session[n].state \notin {"free", "lost"}

\* GET /auth/session; whether the token still verifies is not looked at.
Authenticated == \E n \in Logins : Readable(n) /\ session[n].state # "expired"

\* authMiddleware.
Verdict ==
    IF \E n \in Logins : Readable(n) /\ session[n].state = "live" THEN "data"
    ELSE IF \E n \in Logins : Readable(n) /\ session[n].state = "expired" THEN "expired"
    ELSE "unauthorized"

\* A session no cookie and no answer holds is forgotten.
Held(cookies, answers) ==
    [n \in Logins |->
        IF \E i \in Indices : cookies[i] = n THEN session[n]
        ELSE IF \E t \in Tabs : answers[t] = n THEN session[n]
        ELSE Free]

\* setSessionCookies: chunks beyond the last one stay what they were.
Stored(n) == [i \in Indices |-> IF i < session[n].size THEN n ELSE jar[i]]

\* Time passes: the id_token expires, and the session with the access token,
\* and then the cookies.
TokenExpires(n) ==
    /\ session[n].state = "live"
    /\ session' = [session EXCEPT ![n].state = "unverified"]
    /\ UNCHANGED <<jar, page, issued, call, leaving, recent>>

SessionExpires(n) ==
    /\ session[n].state \in {"live", "unverified"}
    /\ session' = [session EXCEPT ![n].state = "expired"]
    /\ UNCHANGED <<jar, page, issued, call, leaving, recent>>

CookiesExpire(n) ==
    /\ session[n].state \in {"expired", "lost"}
    /\ \E i \in Indices : jar[i] = n
    /\ jar' = [i \in Indices |-> IF jar[i] = n THEN NoLogin ELSE jar[i]]
    /\ session' = Held(jar', issued)
    /\ UNCHANGED <<page, issued, call, leaving, recent>>

\* The server restarts with another secret.
RotateSecret ==
    /\ session' = [n \in Logins |->
                     IF session[n].state = "free" THEN Free
                     ELSE [session[n] EXCEPT !.state = "lost"]]
    /\ UNCHANGED <<jar, page, issued, call, leaving, recent>>

-----------------------------------------------------------------------------
(* AuthGate.tsx and oidc.ts *)

Show(t, p) == page' = [page EXCEPT ![t] = p]

\* fetchSession; if there is no session, or no answer, beginLogin leaves for the
\* identity provider.
AskSession(t) ==
    /\ page[t] = "gate"
    /\ \E p \in {"idp"} \cup IF Authenticated THEN {"session_yes"} ELSE {} : Show(t, p)
    /\ UNCHANGED <<serverVars, issued, call, leaving, recent>>

\* App is mounted, or loads again: /users and /users/me at the same time.
Load(t) ==
    /\ Show(t, "loading")
    /\ call' = [call EXCEPT ![t] = [s \in Slots |-> Verdict]]

Enter(t) ==
    /\ page[t] = "session_yes"
    /\ Load(t)
    /\ UNCHANGED <<serverVars, issued, leaving, recent>>

\* beginLogin after a 401.
GoToProvider(t) ==
    /\ leaving[t]
    /\ Show(t, "idp")
    /\ leaving' = [leaving EXCEPT ![t] = FALSE]
    /\ call' = [call EXCEPT ![t] = NoCalls]
    /\ UNCHANGED <<serverVars, issued, recent>>

\* The provider sends the browser back with a code.
ComeBack(t) ==
    /\ page[t] = "idp"
    /\ Show(t, "callback")
    /\ UNCHANGED <<serverVars, issued, call, leaving, recent>>

\* The provider sends it back with ?error= and without a code:
\* completeLoginIfCallback is false, and the gate begins anew.
Refused(t) ==
    /\ page[t] = "idp"
    /\ Show(t, "gate")
    /\ UNCHANGED <<serverVars, issued, call, leaving, recent>>

\* POST /auth/exchange: a code buys a session, whose token may be one the
\* middleware does not accept.
Exchange(t, n, size, state) ==
    /\ page[t] = "callback"
    /\ session[n] = Free
    /\ session' = [session EXCEPT ![n] = [size |-> size, state |-> state]]
    /\ issued' = [issued EXCEPT ![t] = n]
    /\ Show(t, "exchanged")
    /\ UNCHANGED <<jar, call, leaving, recent>>

\* The code or the state is not accepted, or the provider cannot be reached; or
\* the gate gets no configuration.
SignInFails(t) ==
    /\ page[t] \in {"gate", "callback"}
    /\ Show(t, "failed")
    /\ UNCHANGED <<serverVars, issued, call, leaving, recent>>

\* Mutant: after the exchange the gate asks for the session before it opens.
SignedInM(t) ==
    /\ page[t] = "exchanged"
    /\ jar' = Stored(issued[t])
    /\ issued' = [issued EXCEPT ![t] = NoLogin]
    /\ session' = Held(jar', issued')
    /\ Show(t, "gate")
    /\ UNCHANGED <<call, leaving, recent>>

\* completeLoginIfCallback: the answer sets the cookies and the gate opens.
SignedIn(t) ==
    /\ page[t] = "exchanged"
    /\ jar' = Stored(issued[t])
    /\ issued' = [issued EXCEPT ![t] = NoLogin]
    /\ session' = Held(jar', issued')
    /\ Show(t, "session_yes")
    /\ UNCHANGED <<call, leaving, recent>>

-----------------------------------------------------------------------------
(* App.tsx and client.ts *)

\* Mutant: every 401 starts a sign-in.
UnauthorizedM(t, s) ==
    /\ call' = [call EXCEPT ![t][s] = "never"]
    /\ leaving' = [leaving EXCEPT ![t] = TRUE]
    /\ UNCHANGED <<page, recent>>

\* reauthenticate: the first 401 starts a sign-in and the call never settles;
\* another within the cooldown is an error, which takes the page if it was
\* loading.
Unauthorized(t, s) ==
    IF recent[t]
    THEN /\ call' = [call EXCEPT ![t][s] = "none"]
         /\ Show(t, IF page[t] = "loading" THEN "error" ELSE page[t])
         /\ UNCHANGED <<leaving, recent>>
    ELSE /\ call' = [call EXCEPT ![t][s] = "never"]
         /\ leaving' = [leaving EXCEPT ![t] = TRUE]
         /\ recent' = [recent EXCEPT ![t] = TRUE]
         /\ UNCHANGED page

\* clearSessionCookies takes every cookie there is, whoever set it.
Cleared ==
    /\ jar' = EmptyJar
    /\ session' = Held(EmptyJar, issued)

\* loadInitial shows the application when both answers are there.
ReceiveData(t, s) ==
    /\ call[t][s] = "data"
    /\ IF page[t] # "loading"
       THEN call' = [call EXCEPT ![t][s] = "none"] /\ UNCHANGED page
       ELSE IF \A o \in Slots \ {s} : call[t][o] = "done"
       THEN call' = [call EXCEPT ![t] = NoCalls] /\ Show(t, "app")
       ELSE call' = [call EXCEPT ![t][s] = "done"] /\ UNCHANGED page
    /\ UNCHANGED <<serverVars, issued, leaving, recent>>

ReceiveUnauthorized(t, s) ==
    /\ call[t][s] = "unauthorized"
    /\ Unauthorized(t, s)
    /\ UNCHANGED <<serverVars, issued>>

ReceiveExpired(t, s) ==
    /\ call[t][s] = "expired"
    /\ Unauthorized(t, s)
    /\ Cleared
    /\ UNCHANGED issued

\* GET /auth/logout has cleared the cookies; on to the end of the session at
\* the provider.
ReceiveBye(t) ==
    /\ call[t]["me"] = "bye"
    /\ Cleared
    /\ Show(t, "out")
    /\ call' = [call EXCEPT ![t] = NoCalls]
    /\ leaving' = [leaving EXCEPT ![t] = FALSE]
    /\ UNCHANGED <<issued, recent>>

\* A view or the poll for notifications calls the server.
Call(t) ==
    /\ page[t] = "app"
    /\ call[t]["users"] = "none"
    /\ call' = [call EXCEPT ![t]["users"] = Verdict]
    /\ UNCHANGED <<serverVars, page, issued, leaving, recent>>

Logout(t) ==
    /\ page[t] = "app"
    /\ call[t]["me"] = "none"
    /\ call' = [call EXCEPT ![t]["me"] = "bye"]
    /\ UNCHANGED <<serverVars, page, issued, leaving, recent>>

\* The user presses Retry.
Retry(t) ==
    /\ page[t] = "error"
    /\ Load(t)
    /\ UNCHANGED <<serverVars, issued, leaving, recent>>

\* The user reloads the page, or comes back to it.
Reload(t) ==
    /\ page[t] \in {"app", "error", "out"}
    /\ Show(t, "gate")
    /\ call' = [call EXCEPT ![t] = NoCalls]
    /\ leaving' = [leaving EXCEPT ![t] = FALSE]
    /\ UNCHANGED <<serverVars, issued, recent>>

\* Try again, after a sign-in that failed, forgets all the tab has stored.
TryAgain(t) ==
    /\ page[t] = "failed"
    /\ Show(t, "gate")
    /\ recent' = [recent EXCEPT ![t] = FALSE]
    /\ UNCHANGED <<serverVars, issued, call, leaving>>

\* Half a minute has passed, be it at the provider.  Only a page that has calls
\* on their way reads the clock, and no other one needs to see it pass; a page
\* that is about to be left is gone by then.
CooldownOver(t) ==
    /\ recent[t]
    /\ ~leaving[t]
    /\ page[t] \in {"loading", "app", "error"}
    /\ recent' = [recent EXCEPT ![t] = FALSE]
    /\ UNCHANGED <<serverVars, page, issued, call, leaving>>

-----------------------------------------------------------------------------

Receive(t) ==
    \/ \E s \in Slots : ReceiveData(t, s) \/ ReceiveUnauthorized(t, s) \/ ReceiveExpired(t, s)
    \/ ReceiveBye(t)

\* What a tab does by itself.
Proceed(t) ==
    \/ AskSession(t) \/ Enter(t) \/ GoToProvider(t) \/ ComeBack(t) \/ Refused(t)
    \/ \E n \in Logins, size \in Sizes, state \in TokenStates :
         Exchange(t, n, size, state)
    \/ SignInFails(t) \/ SignedIn(t)

Attend(t) == Logout(t) \/ Retry(t) \/ Reload(t) \/ TryAgain(t)

Next ==
    \/ \E t \in Tabs :
         Receive(t) \/ Proceed(t) \/ Call(t) \/ Attend(t) \/ CooldownOver(t)
    \/ \E n \in Logins : TokenExpires(n) \/ SessionExpires(n) \/ CookiesExpire(n)
    \/ RotateSecret

\* The server answers, the provider sends the user back, the page is left for
\* it when it said so, and the application polls.  Nobody is obliged to press
\* a button, and nothing to expire.
Fairness == \A t \in Tabs : WF_vars(Receive(t)) /\ WF_vars(Proceed(t)) /\ WF_vars(Call(t))

Spec == Init /\ [][Next]_vars /\ Fairness

-----------------------------------------------------------------------------
(* Properties *)

Underway == {"gate", "session_yes", "idp", "callback", "exchanged", "loading"}

\* Signing in comes to an end, in the application or in a message, whatever the
\* cookies hold: the gate opens on the answer of the exchange and does not ask
\* for a session the server may be unable to read (AuthGate.tsx).  Two things
\* can keep a tab from it for ever: a provider that answers without a code each
\* time, and sessions the server does not accept, if half a minute passes
\* between two of its refusals each time.
SignInSettles ==
    \A t \in Tabs :
        \/ page[t] \in Underway ~> page[t] \notin Underway
        \/ []<><<Refused(t) \/ CooldownOver(t)>>_vars

\* client.ts: "bouncing to the IdP would spin forever".  A tab left alone is at
\* the provider again and again, sent there by a 401 or by the gate, only if
\* the cooldown runs out again and again, or the provider refuses.
NoEndlessBouncing ==
    \A t \in Tabs :
        []<>(page[t] = "idp") => []<><<CooldownOver(t) \/ Attend(t) \/ Refused(t)>>_vars
=============================================================================
