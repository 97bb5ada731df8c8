----------------------------- MODULE Directory ------------------------------
(***************************************************************************)
(* Who a request acts for, what administrators do to the users, and the    *)
(* notifications users get (middleware/auth.ts, routes/users.ts, notify.ts, *)
(* routes/notifications.ts and the bell of app/App.tsx).                   *)
(*                                                                         *)
(* An administrative request is admitted on the users as they are, or on   *)
(* what the directory says when they cannot be read, and writes later.  A  *)
(* notification is a SELECT of its recipients and one INSERT after         *)
(* another, awaited by nobody, about a cycle that may be deleted           *)
(* meanwhile; a bell asks for its unread rows every 30 seconds and shows   *)
(* the answer when it arrives.  The persona headers are off.               *)
(***************************************************************************)
EXTENDS Naturals, FiniteSets

CONSTANTS
    Ids,          \* users.id, and subjects of tokens
    Roles,
    NotifiedRole, \* the role the modelled notifications are for
    Groups,       \* mapped groups of the directory, with the role of each
    RoleOf,
    GroupsOf,     \* the mapped groups in the token of each subject
    GlobalAdmins, \* subjects whose e-mail is in GLOBAL_ADMIN_EMAILS
    Events,       \* notifications there are to send, each about one cycle
    Watchers,     \* the users whose browser is open
    Requests,     \* slots of administrative requests in flight
    None

ASSUME DirectoryAssumption ==
    /\ "Admin" \in Roles
    /\ NotifiedRole \in Roles
    /\ RoleOf \in [Groups -> Roles]
    /\ GroupsOf \in [Ids -> SUBSET Groups]
    /\ GlobalAdmins \subseteq Ids
    /\ Watchers \subseteq Ids
    /\ None \notin Ids \cup Roles
    /\ None \notin [role : Roles, active : BOOLEAN]

VARIABLES
    users,     \* role and is_active of each row, or None
    request,   \* administrative requests that have been admitted
    delivery,  \* what each notification still has to insert
    notice,    \* the rows: "none", "unread" or "read"
    bell,      \* what the bell of each user shows
    fetched,   \* the answer on its way to the bell, or None
    gone,      \* the notifications whose cycle has been deleted
    disturbed  \* has an administrative request been admitted that Disturbs?

noticeVars == <<delivery, notice, bell, fetched, gone>>
adminVars == <<users, request, disturbed>>
vars == <<noticeVars, adminVars>>

Rows == [role : Roles, active : BOOLEAN]
Operations ==
    [op : {"create", "update"}, id : Ids, role : Roles]
        \cup [op : {"toggle", "delete"}, id : Ids, role : {None}]
Idle == [at |-> "idle", left |-> {}]

TypeOK ==
    /\ users \in [Ids -> Rows \cup {None}]
    /\ request \in [Requests -> Operations \cup {None}]
    /\ delivery \in [Events -> [at : {"idle", "inserting", "done", "dropped"}, left : SUBSET Ids]]
    /\ notice \in [Events -> [Ids -> {"none", "unread", "read"}]]
    /\ bell \in [Watchers -> SUBSET Events]
    /\ fetched \in [Watchers -> SUBSET Events \cup {None}]
    /\ gone \subseteq Events
    /\ disturbed \in BOOLEAN

\* Somebody administers the users from the start (03-seed-users.sql).
Init ==
    /\ users \in [Ids -> Rows]
    /\ \E u \in Ids : users[u] = [role |-> "Admin", active |-> TRUE]
    /\ request = [r \in Requests |-> None]
    /\ delivery = [e \in Events |-> Idle]
    /\ notice = [e \in Events |-> [u \in Ids |-> "none"]]
    /\ bell = [u \in Watchers |-> {}]
    /\ fetched = [u \in Watchers |-> None]
    /\ gone = {}
    /\ disturbed = FALSE

-----------------------------------------------------------------------------
(* middleware/auth.ts: the role a verified token acts in *)

\* lib/groupRoles.ts, for who has no row in users: the allowlist, and then
\* exactly one mapped group.
Entitled(u) ==
    IF u \in GlobalAdmins THEN "Admin"
    ELSE IF Cardinality(GroupsOf[u]) = 1 THEN RoleOf[CHOOSE g \in GroupsOf[u] : TRUE]
    ELSE None

\* A row of users decides, when it can be read.  None: the request is refused.
RoleActed(u) ==
    IF users[u] = None THEN Entitled(u)
    ELSE IF users[u].active THEN users[u].role ELSE None

\* A lookup that fails is taken for no row.  The second one, of admitAs, still
\* finds a row the first has missed; if it fails too, the directory decides, also
\* for who has been disabled or given another role.
RolesActed(u) == {RoleActed(u), Entitled(u)} \ {None}

-----------------------------------------------------------------------------
(* routes/users.ts *)

\* Mutant: administrators may disable themselves.
MayAskM(actor, o) == "Admin" \in RolesActed(actor)

MayAsk(actor, o) ==
    /\ "Admin" \in RolesActed(actor)
    /\ o.op = "toggle" => o.id # actor

\* Another request is in flight, an administrator deletes himself or gives himself
\* another role, or a failed lookup admits one whose row refuses him.
Disturbs(actor, o) ==
    \/ \E q \in Requests : request[q] # None
    \/ /\ o.id = actor
       /\ o.op = "delete" \/ (o.op \in {"create", "update"} /\ o.role # "Admin")
    \/ RoleActed(actor) # "Admin"

\* The request is admitted; its statement has not been executed.
Ask(r, actor, o) ==
    /\ request[r] = None
    /\ MayAsk(actor, o)
    /\ request' = [request EXCEPT ![r] = o]
    /\ disturbed' = (disturbed \/ Disturbs(actor, o))
    /\ UNCHANGED <<users, noticeVars>>

\* The row an operation leaves: INSERT fails on one that is there, the others
\* find none (404).
Written(o) ==
    LET row == users[o.id]
    IN CASE o.op = "create" -> IF row = None THEN [role |-> o.role, active |-> TRUE] ELSE row
         [] o.op = "update" /\ row # None -> [row EXCEPT !.role = o.role]
         [] o.op = "toggle" /\ row # None -> [row EXCEPT !.active = ~@]
         [] OTHER -> None

\* Notifications are deleted with their user.
Execute(r) ==
    /\ request[r] # None
    /\ LET o == request[r]
       IN /\ users' = [users EXCEPT ![o.id] = Written(o)]
          /\ notice' = IF o.op = "delete"
                       THEN [e \in Events |-> [notice[e] EXCEPT ![o.id] = "none"]]
                       ELSE notice
    /\ request' = [request EXCEPT ![r] = None]
    /\ UNCHANGED <<delivery, bell, fetched, gone, disturbed>>

-----------------------------------------------------------------------------
(* notify.ts *)

Recipients == {u \in Ids : users[u] = [role |-> NotifiedRole, active |-> TRUE]}

\* notifyRole: SELECT id FROM users.
Notify(e) ==
    /\ delivery[e].at = "idle"
    /\ delivery' = [delivery EXCEPT ![e] = [at |-> "inserting", left |-> Recipients]]
    /\ UNCHANGED <<adminVars, notice, bell, fetched, gone>>

\* The foreign keys of notifications: user_id and cycle_id.
Accepted(e, u) == users[u] # None /\ e \notin gone

\* Mutant: the loop ends after the first row.
InsertM(e, u) ==
    /\ delivery[e].at = "inserting"
    /\ u \in delivery[e].left
    /\ Accepted(e, u)
    /\ notice' = [notice EXCEPT ![e][u] = "unread"]
    /\ delivery' = [delivery EXCEPT ![e] = [at |-> "done", left |-> {}]]
    /\ UNCHANGED <<adminVars, bell, fetched, gone>>

\* One INSERT of the loop, in the order the SELECT happened to return.
Insert(e, u) ==
    /\ delivery[e].at = "inserting"
    /\ u \in delivery[e].left
    /\ Accepted(e, u)
    /\ notice' = [notice EXCEPT ![e][u] = "unread"]
    /\ delivery' = [delivery EXCEPT ![e].left = @ \ {u}]
    /\ UNCHANGED <<adminVars, bell, fetched, gone>>

\* One fails: a foreign key refuses it, or the query or the server does not
\* survive.  The loop ends, and the rest is dropped.
InsertFails(e) ==
    /\ delivery[e].at = "inserting"
    /\ delivery[e].left # {}
    /\ delivery' = [delivery EXCEPT ![e] = [at |-> "dropped", left |-> {}]]
    /\ UNCHANGED <<adminVars, notice, bell, fetched, gone>>

Delivered(e) ==
    /\ delivery[e] = [at |-> "inserting", left |-> {}]
    /\ delivery' = [delivery EXCEPT ![e].at = "done"]
    /\ UNCHANGED <<adminVars, notice, bell, fetched, gone>>

\* DELETE /api/cycles/:id: the approved cycle goes, and its notifications.
DeleteCycle(e) ==
    /\ delivery[e].at # "idle"
    /\ e \notin gone
    /\ \E u \in Ids : "Admin" \in RolesActed(u)
    /\ gone' = gone \cup {e}
    /\ notice' = [notice EXCEPT ![e] = [u \in Ids |-> "none"]]
    /\ UNCHANGED <<adminVars, delivery, bell, fetched>>

-----------------------------------------------------------------------------
(* routes/notifications.ts and NotificationBell *)

Unread(u) == {e \in Events : notice[e][u] = "unread"}

\* GET /api/notifications, at the first display and every 30 seconds.
Fetch(u) ==
    /\ RolesActed(u) # {}
    /\ fetched[u] = None
    /\ fetched' = [fetched EXCEPT ![u] = Unread(u)]
    /\ UNCHANGED <<adminVars, delivery, notice, bell, gone>>

\* Mutant: the answer is added to what is shown.
ShowM(u) ==
    /\ fetched[u] # None
    /\ bell' = [bell EXCEPT ![u] = @ \cup fetched[u]]
    /\ fetched' = [fetched EXCEPT ![u] = None]
    /\ UNCHANGED <<adminVars, delivery, notice, gone>>

\* The answer arrives, however late.
Show(u) ==
    /\ fetched[u] # None
    /\ bell' = [bell EXCEPT ![u] = fetched[u]]
    /\ fetched' = [fetched EXCEPT ![u] = None]
    /\ UNCHANGED <<adminVars, delivery, notice, gone>>

\* What a click in the list of the bell may mark, if its request is admitted.
Listed(u) == IF RolesActed(u) = {} THEN {} ELSE bell[u]

MarkRead(u, e) ==
    /\ e \in Listed(u)
    /\ notice' = [notice EXCEPT ![e][u] = IF @ = "unread" THEN "read" ELSE @]
    /\ bell' = [bell EXCEPT ![u] = @ \ {e}]
    /\ UNCHANGED <<adminVars, delivery, fetched, gone>>

\* Every unread row, also one the bell has not shown yet.
MarkAllRead(u) ==
    /\ Listed(u) # {}
    /\ notice' = [e \in Events |->
                    [notice[e] EXCEPT ![u] = IF @ = "unread" THEN "read" ELSE @]]
    /\ bell' = [bell EXCEPT ![u] = {}]
    /\ UNCHANGED <<adminVars, delivery, fetched, gone>>

-----------------------------------------------------------------------------

Next ==
    \/ \E r \in Requests :
         \/ \E actor \in Ids, o \in Operations : Ask(r, actor, o)
         \/ Execute(r)
    \/ \E e \in Events :
         \/ Notify(e) \/ InsertFails(e) \/ Delivered(e) \/ DeleteCycle(e)
         \/ \E u \in Ids : Insert(e, u)
    \/ \E u \in Watchers :
         \/ Fetch(u) \/ Show(u) \/ MarkAllRead(u)
         \/ \E e \in Events : MarkRead(u, e)

\* Statements are executed, answers arrive and the bell of who is admitted polls.
Fairness ==
    /\ \A r \in Requests : WF_vars(Execute(r))
    /\ \A e \in Events :
         WF_vars(InsertFails(e) \/ Delivered(e) \/ \E u \in Ids : Insert(e, u))
    /\ \A u \in Watchers : WF_vars(RoleActed(u) # None /\ Fetch(u)) /\ WF_vars(Show(u))

Spec == Init /\ [][Next]_vars /\ Fairness

-----------------------------------------------------------------------------
(* Properties *)

\* Somebody can administer the users ("You cannot disable your own account",
\* users.ts:128), unless two administrative requests were in flight at the same
\* time, an administrator deleted himself or gave himself another role, or one
\* whose row refuses him acted while it could not be read (auth.ts:275-297);
\* nothing prevents any of them.
SomebodyAdministers ==
    ~disturbed => \E u \in Ids : RoleActed(u) = "Admin"

\* Every recipient of a notification gets his row, or one of its INSERTs fails:
\* only that ends the loop early, and whoever else it is that is deleted or
\* changed meanwhile (notify.ts).
RecipientsAreTold ==
    \A e \in Events, u \in Ids :
        delivery[e].at = "inserting" /\ u \in delivery[e].left
            ~> notice[e][u] # "none" \/ delivery[e].at = "dropped"

\* A bell does not go on showing what has been read, or has gone with its cycle
\* or its user: an answer that was on its way shows it again, the next one does
\* not.
BellForgets ==
    \A u \in Watchers, e \in Events :
        <>[](notice[e][u] # "unread" /\ RoleActed(u) # None) => <>[](e \notin bell[u])
=============================================================================
