--------------------------- MODULE GroupRoleCache ---------------------------
(***************************************************************************)
(* The in-memory cache of the AD group to role mapping (lib/groupRoles.ts) *)
(* between the requests the auth middleware resolves and the writes of     *)
(* routes/group-mappings.ts.                                               *)
(*                                                                         *)
(* The table is known by its version: every write makes a new one, and a   *)
(* cache or an answer is the version it was read from (0: the empty map a  *)
(* process starts with).  A request that finds the cache stale starts a    *)
(* reload or joins the one in flight; the reload awaits the database, so   *)
(* writes are committed and invalidate the cache while it waits.           *)
(***************************************************************************)
EXTENDS Naturals

CONSTANTS
    Requests,   \* slots of requests being authenticated at the same time
    Writers,    \* slots of create, update and delete requests
    MaxVersion  \* bound on the number of writes

ASSUME MaxVersionAssumption == MaxVersion \in Nat

VARIABLES
    version,  \* of group_role_mappings
    cache,    \* the version _cache was read from
    dirty,    \* _dirty
    fresh,    \* is _loadedAt less than CACHE_TTL_MS ago?
    request,  \* state of each request, the version it must see, the one it saw
    writer,   \* version a writer has committed and not yet announced, or 0
    acked,    \* newest version whose writer has announced it
    disturbed \* has a write overtaken the rows of a reload, or a reload failed?

vars == <<version, cache, dirty, fresh, request, writer, acked, disturbed>>

Loading == {"reading", "read"}
Waiting == Loading \cup {"waiting"}

TypeOK ==
    /\ version \in Nat
    /\ cache \in Nat
    /\ dirty \in BOOLEAN
    /\ fresh \in BOOLEAN
    /\ request \in [Requests -> [at : Waiting \cup {"idle", "answered"},
                                 since : Nat, saw : Nat]]
    /\ writer \in [Writers -> Nat]
    /\ acked \in Nat
    /\ disturbed \in BOOLEAN

Init ==
    /\ version = 1
    /\ cache = 0
    /\ dirty = TRUE
    /\ fresh = FALSE
    /\ request = [r \in Requests |-> [at |-> "idle", since |-> 0, saw |-> 0]]
    /\ writer = [w \in Writers |-> 0]
    /\ acked = 1
    /\ disturbed = FALSE

-----------------------------------------------------------------------------
(* Requests: resolveGroupRole and ensureFresh *)

\* Mutant: the age of the cache is not looked at.
StaleM == dirty

Stale == dirty \/ ~fresh

InFlight == \E r \in Requests : request[r].at \in Loading

\* A request enters ensureFresh; if it is answered at once it saw the cache.
Enter(r, point) ==
    /\ request[r].at \in {"idle", "answered"}
    /\ request' = [request EXCEPT ![r] = [at |-> point, since |-> acked, saw |-> cache]]
    /\ UNCHANGED <<version, cache, dirty, fresh, writer, acked, disturbed>>

Hit(r) == ~Stale /\ Enter(r, "answered")

\* Mutant: concurrent reloads are not coalesced.
StartReloadM(r) == Stale /\ Enter(r, "reading")

StartReload(r) == Stale /\ ~InFlight /\ Enter(r, "reading")

JoinReload(r) == Stale /\ InFlight /\ Enter(r, "waiting")

\* The database executes the SELECT; its rows are not delivered yet.
ReadTable(r) ==
    /\ request[r].at = "reading"
    /\ request' = [request EXCEPT ![r].at = "read", ![r].saw = version]
    /\ UNCHANGED <<version, cache, dirty, fresh, writer, acked, disturbed>>

\* The promise settles: the loader and all who joined it look the role up in
\* the cache as it is now.
AnswerAll(r, v) ==
    request' = [q \in Requests |->
                  IF q = r \/ request[q].at = "waiting"
                  THEN [request[q] EXCEPT !.at = "answered", !.saw = v]
                  ELSE request[q]]

ReloadDone(r) ==
    /\ request[r].at = "read"
    /\ cache' = request[r].saw
    /\ dirty' = FALSE
    /\ fresh' = TRUE
    /\ AnswerAll(r, cache')
    /\ UNCHANGED <<version, writer, acked, disturbed>>

\* Mutant: a failed reload never settles the promise the others wait for.
ReloadFailsM(r) ==
    /\ request[r].at \in Loading
    /\ request' = [request EXCEPT ![r].at = "answered", ![r].saw = cache]
    /\ disturbed' = TRUE
    /\ UNCHANGED <<version, cache, dirty, fresh, writer, acked>>

\* A database error is logged and the last good cache stays.
ReloadFails(r) ==
    /\ request[r].at \in Loading
    /\ AnswerAll(r, cache)
    /\ disturbed' = TRUE
    /\ UNCHANGED <<version, cache, dirty, fresh, writer, acked>>

\* CACHE_TTL_MS have passed since the last reload.
Expire ==
    /\ fresh
    /\ fresh' = FALSE
    /\ UNCHANGED <<version, cache, dirty, request, writer, acked, disturbed>>

-----------------------------------------------------------------------------
(* Writers: POST, PUT and DELETE /api/group-mappings *)

\* The database commits the write; the handler has not resumed yet.
Commit(w) ==
    /\ writer[w] = 0
    /\ version < MaxVersion
    /\ version' = version + 1
    /\ writer' = [writer EXCEPT ![w] = version']
    /\ disturbed' = (disturbed \/ \E r \in Requests : request[r].at = "read")
    /\ UNCHANGED <<cache, dirty, fresh, request, acked>>

\* Mutant: the write is answered without invalidating the cache.
InvalidateM(w) ==
    /\ writer[w] # 0
    /\ acked' = IF writer[w] > acked THEN writer[w] ELSE acked
    /\ writer' = [writer EXCEPT ![w] = 0]
    /\ UNCHANGED <<version, cache, dirty, fresh, request, disturbed>>

\* The handler invalidates the cache and answers the administrator.
Invalidate(w) ==
    /\ writer[w] # 0
    /\ dirty' = TRUE
    /\ acked' = IF writer[w] > acked THEN writer[w] ELSE acked
    /\ writer' = [writer EXCEPT ![w] = 0]
    /\ UNCHANGED <<version, cache, fresh, request, disturbed>>

-----------------------------------------------------------------------------

\* What requests and writers do when no reload fails.
Step ==
    \/ \E r \in Requests :
         Hit(r) \/ StartReload(r) \/ JoinReload(r) \/ ReadTable(r) \/ ReloadDone(r)
    \/ \E w \in Writers : Commit(w) \/ Invalidate(w)
    \/ Expire

Next == Step \/ \E r \in Requests : ReloadFails(r)

\* The database answers every query, time passes, and a handler resumes when
\* its query completes.  Nobody is obliged to send a request or to write.
Fairness ==
    /\ \A r \in Requests : WF_vars(ReadTable(r)) /\ WF_vars(ReloadDone(r) \/ ReloadFails(r))
    /\ \A w \in Writers : WF_vars(Invalidate(w))
    /\ WF_vars(Expire)

Spec == Init /\ [][Next]_vars /\ Fairness

ReliableSpec == Init /\ [][Step]_vars

-----------------------------------------------------------------------------
(* Properties *)

\* The mapping requests are resolved against never goes back to an older one:
\* since reloads are coalesced (ensureFresh), none overtakes another.
CacheNeverGoesBack == [][cache' >= cache]_vars

\* group-mappings.ts:7 "Every write invalidates the middleware's in-memory cache
\* so the change takes effect on the next request": a request that arrives after
\* a write has been answered is resolved against that write or a later one.
NextRequestSeesWrite ==
    \A r \in Requests : request[r].at = "answered" => request[r].saw >= request[r].since

\* That promise holds as long as no write was committed between the moment the
\* database executed a reload's SELECT and the moment its rows arrived, and no
\* reload failed: reload() (groupRoles.ts:47) clears _dirty after the await.
UndisturbedRequestSeesWrite == ~disturbed => NextRequestSeesWrite

\* An invalidation that a reload in flight swallows is not lost for good: once
\* the writes stop, the cache ends up reloaded or recognised as stale.
StalenessEnds == <>[](Stale \/ cache = version)

\* Every request that waits for a reload, its own or another's, is resolved,
\* also when the reload fails.
EveryRequestIsResolved ==
    \A r \in Requests : request[r].at \in Waiting ~> request[r].at = "answered"

-----------------------------------------------------------------------------
(* Inductive invariants of the proofs *)

\* At most one reload is in flight, and what it brings is no older than the
\* cache and no newer than the table.
Ordered ==
    /\ TypeOK
    /\ cache <= version
    /\ \A q, r \in Requests :
         request[q].at \in Loading /\ request[r].at \in Loading => q = r
    /\ \A r \in Requests :
         request[r].at = "read" => cache <= request[r].saw /\ request[r].saw <= version

\* Undisturbed, a reload brings the table itself, and a clean cache holds every
\* write that has been announced.
Announced ==
    /\ TypeOK
    /\ acked <= version
    /\ \A w \in Writers : writer[w] <= version
    /\ \A r \in Requests : request[r].at \in Waiting => request[r].since <= version
    /\ ~disturbed =>
         /\ ~dirty => acked <= cache
         /\ \A r \in Requests : request[r].at = "read" => request[r].saw = version
         /\ NextRequestSeesWrite
=============================================================================
