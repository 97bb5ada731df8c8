--------------------------- MODULE ConnectionPool ---------------------------
(***************************************************************************)
(* The pool of database connections (server/db.ts) under the one handler   *)
(* that holds a connection while it asks for another: submit-all           *)
(* (routes/responses.ts) keeps the client of its transaction until the     *)
(* finally block, and before that awaits the name of the cycle from        *)
(* query(), which takes a second connection.                               *)
(*                                                                         *)
(* pg's Pool serves waiting callers first come first served and, as        *)
(* configured, never times out a caller (no connectionTimeoutMillis).      *)
(***************************************************************************)
EXTENDS Naturals, Sequences, FiniteSets

CONSTANTS
    Batches,  \* slots of submit-all requests in flight at the same time
    Queries,  \* slots of every other use of query()
    PoolMax   \* DB_POOL_MAX

ASSUME PoolMaxAssumption == PoolMax \in Nat \ {0}
ASSUME SlotsAssumption == IsFiniteSet(Batches) /\ Batches \cap Queries = {}

VARIABLES
    held,   \* uses of the pool that have a connection
    queue,  \* uses of the pool that wait for one
    at      \* where each submit-all is

vars == <<held, queue, at>>

\* What a submit-all asks connections for; the last two it does not wait for.
Purposes == {"check", "transaction", "name", "audit", "notify"}
Background == {"audit", "notify"}
Uses == (Batches \X Purposes) \cup (Queries \X {"query"})

Queued == {queue[i] : i \in DOMAIN queue}

TypeOK ==
    /\ held \in SUBSET Uses
    /\ queue \in Seq(Uses)
    /\ at \in [Batches -> {"idle", "check", "transaction", "name"}]

Init ==
    /\ held = {}
    /\ queue = <<>>
    /\ at = [b \in Batches |-> "idle"]

-----------------------------------------------------------------------------
(* The pool *)

Outstanding(u) == u \in held \/ u \in Queued

Grant ==
    /\ queue # <<>>
    /\ Cardinality(held) < PoolMax
    /\ held' = held \cup {Head(queue)}
    /\ queue' = Tail(queue)
    /\ UNCHANGED at

\* Any other handler: one connection for one statement.
Ask(q) ==
    /\ ~Outstanding(<<q, "query">>)
    /\ queue' = Append(queue, <<q, "query">>)
    /\ UNCHANGED <<held, at>>

Answer(q) ==
    /\ <<q, "query">> \in held
    /\ held' = held \ {<<q, "query">>}
    /\ UNCHANGED <<queue, at>>

-----------------------------------------------------------------------------
(* POST /responses/submit-all *)

Arrive(b) ==
    /\ at[b] = "idle"
    /\ \A p \in Purposes : ~Outstanding(<<b, p>>)
    /\ at' = [at EXCEPT ![b] = "check"]
    /\ queue' = Append(queue, <<b, "check">>)
    /\ UNCHANGED held

\* Mutant: the connection of the check is kept while the client is asked for.
CheckM(b) ==
    /\ <<b, "check">> \in held
    /\ at[b] = "check"
    /\ at' = [at EXCEPT ![b] = "transaction"]
    /\ queue' = Append(queue, <<b, "transaction">>)
    /\ UNCHANGED held

\* The ownership check passes: pool.connect().
Check(b) ==
    /\ <<b, "check">> \in held
    /\ held' = held \ {<<b, "check">>}
    /\ at' = [at EXCEPT ![b] = "transaction"]
    /\ queue' = Append(queue, <<b, "transaction">>)

\* 403, or the query fails.
Refuse(b) ==
    /\ <<b, "check">> \in held
    /\ held' = held \ {<<b, "check">>}
    /\ at' = [at EXCEPT ![b] = "idle"]
    /\ UNCHANGED queue

\* BEGIN to COMMIT; the audit record is sent and the name of the cycle asked
\* for while the client is still held.
Commit(b) ==
    /\ at[b] = "transaction"
    /\ <<b, "transaction">> \in held
    /\ at' = [at EXCEPT ![b] = "name"]
    /\ queue' = queue \o <<<<b, "audit">>, <<b, "name">>>>
    /\ UNCHANGED held

\* Mutant: an early return that forgets to release the client.
RollBackM(b) ==
    /\ at[b] = "transaction"
    /\ <<b, "transaction">> \in held
    /\ at' = [at EXCEPT ![b] = "idle"]
    /\ UNCHANGED <<held, queue>>

\* Nothing was submittable, or a statement failed: ROLLBACK and release.
RollBack(b) ==
    /\ at[b] = "transaction"
    /\ <<b, "transaction">> \in held
    /\ at' = [at EXCEPT ![b] = "idle"]
    /\ held' = held \ {<<b, "transaction">>}
    /\ UNCHANGED queue

\* The name arrives: notify, answer, release.
NameRead(b) ==
    /\ <<b, "name">> \in held
    /\ at' = [at EXCEPT ![b] = "idle"]
    /\ held' = held \ {<<b, "name">>, <<b, "transaction">>}
    /\ queue' = Append(queue, <<b, "notify">>)

\* Mutant: the failure is swallowed before the answer and the release.
NameFailsM(b) ==
    /\ <<b, "name">> \in held
    /\ held' = held \ {<<b, "name">>}
    /\ UNCHANGED <<queue, at>>

\* The query for the name fails: ROLLBACK of nothing, release, 500.
NameFails(b) ==
    /\ <<b, "name">> \in held
    /\ at' = [at EXCEPT ![b] = "idle"]
    /\ held' = held \ {<<b, "name">>, <<b, "transaction">>}
    /\ UNCHANGED queue

\* The audit record or the notification is written.
Write(b, p) ==
    /\ <<b, p>> \in held
    /\ held' = held \ {<<b, p>>}
    /\ UNCHANGED <<queue, at>>

-----------------------------------------------------------------------------

\* A submit-all that has the connection it waits for goes on.
Proceed(b) ==
    \/ Check(b) \/ Refuse(b) \/ Commit(b) \/ RollBack(b) \/ NameRead(b) \/ NameFails(b)
    \/ \E p \in Background : Write(b, p)

Next ==
    \/ Grant
    \/ \E q \in Queries : Ask(q) \/ Answer(q)
    \/ \E b \in Batches : Arrive(b) \/ Proceed(b)

\* The database answers every statement it was sent, and the pool hands over
\* the connections that are free.
Fairness ==
    /\ WF_vars(Grant)
    /\ \A q \in Queries : WF_vars(Answer(q))
    /\ \A b \in Batches :
         /\ WF_vars(Check(b) \/ Refuse(b))
         /\ WF_vars(Commit(b) \/ RollBack(b))
         /\ WF_vars(NameRead(b) \/ NameFails(b))
         /\ \A p \in Background : WF_vars(Write(b, p))

Spec == Init /\ [][Next]_vars /\ Fairness

-----------------------------------------------------------------------------
(* Properties *)

\* Fewer concurrent submit-alls than connections.
Provisioned == Cardinality(Batches) < PoolMax

\* The use is not a connection kept by a handler that waits for another one.
Runs(u) == u[1] \in Batches /\ u[2] \notin Background => at[u[1]] = u[2]

\* While anything waits for a connection, one is free or is being used by
\* something that will give it back without needing another: submit-alls have
\* not taken the whole pool (responses.ts:262 and :319).
NeverExhausted ==
    queue # <<>> => Cardinality(held) < PoolMax \/ \E u \in held : Runs(u)

\* Where a submit-all is while a connection is held or asked for this purpose.
Stages(p) == CASE p = "transaction" -> {"transaction", "name"}
               [] p = "audit" -> {"name", "idle"}
               [] p = "notify" -> {"idle"}
               [] OTHER -> {p}

\* A request holds and waits for nothing but what the point it is at needs: on
\* every path, errors included, submit-all gives back both connections (the
\* finally block at responses.ts:333), so the pool loses none.
NothingLeaks ==
    \A b \in Batches :
        /\ \A p \in Purposes : Outstanding(<<b, p>>) => at[b] \in Stages(p)
        /\ at[b] = "name" => <<b, "transaction">> \in held

\* What the proofs carry from step to step: nobody asks for a connection twice.
PoolInv ==
    /\ TypeOK
    /\ IsFiniteSet(held)
    /\ NothingLeaks
    /\ held \cap Queued = {}
    /\ \A i, j \in DOMAIN queue : queue[i] = queue[j] => i = j

\* Every submit-all is answered, and every other query too.
EveryRequestIsAnswered ==
    /\ \A b \in Batches : at[b] # "idle" ~> at[b] = "idle"
    /\ \A q \in Queries : Outstanding(<<q, "query">>) ~> ~Outstanding(<<q, "query">>)

\* responses.ts:307 "Audit + single notification (fire-and-forget)": once its
\* transaction is committed, a submit-all is answered.
CommittedIsAnswered == \A b \in Batches : at[b] = "name" ~> at[b] = "idle"
=============================================================================
