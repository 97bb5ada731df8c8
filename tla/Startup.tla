------------------------------ MODULE Startup -------------------------------
(***************************************************************************)
(* Containers that start at the same time: docker-entrypoint.sh runs the   *)
(* migrations (scripts/run-migrations.ts) and then the server.             *)
(*                                                                         *)
(* A runner reads once which files of init-db are recorded, and applies    *)
(* the others of its image one by one, each in a transaction of its own    *)
(* that also records it.  Runners do not exclude each other, two images    *)
(* may hold different versions of a file, and any statement may fail.      *)
(***************************************************************************)
EXTENDS Naturals, FiniteSets

CONSTANTS
    Containers,
    Files,       \* the names in init-db of any image; applied in their order
    Versions,    \* contents a file may have
    None,        \* no such file, or no record of it
    Image,       \* the version of each file in the image of each container
    MaxStops     \* bound: containers stopped from outside while they start

ASSUME StartupAssumption ==
    /\ Files \subseteq Nat
    /\ None \notin Versions
    /\ Image \in [Containers -> [Files -> Versions \cup {None}]]
    /\ MaxStops \in Nat

VARIABLES
    table,     \* does schema_migrations exist?
    recorded,  \* the version it has of each file
    schema,    \* the version of each file that was run last, and committed
    runner,    \* where each container is, and what it read
    bootstrapped, \* has --bootstrap recorded files without running them?
    stops

startupVars == <<table, recorded, schema, runner, bootstrapped, stops>>
database == <<table, recorded, schema, bootstrapped>>

Unread == [f \in Files |-> None]
At(c, point) == runner[c].at = point

\* The file a runner is at, or will be after the others.
Pending(c) == {f \in Files : Image[c][f] # None /\ f \notin runner[c].done}
Next1(c) == CHOOSE f \in Pending(c) : \A g \in Pending(c) : f <= g

Begun == [at |-> "ensure", applied |-> Unread, done |-> {}, drift |-> FALSE]

StartupType ==
    /\ table \in BOOLEAN
    /\ recorded \in [Files -> Versions \cup {None}]
    /\ schema \in [Files -> Versions \cup {None}]
    /\ runner \in [Containers -> [at : {"ensure", "create", "read", "files", "commit",
                                        "serving", "down"},
                                  applied : [Files -> Versions \cup {None}],
                                  done : SUBSET Files, drift : BOOLEAN]]
    /\ bootstrapped \in BOOLEAN
    /\ stops \in 0 .. MaxStops

StartupInit ==
    /\ table = FALSE
    /\ recorded = Unread
    /\ schema = Unread
    /\ runner = [c \in Containers |-> Begun]
    /\ bootstrapped = FALSE
    /\ stops = 0

-----------------------------------------------------------------------------
(* run-migrations.ts *)

Set(c, r) == runner' = [runner EXCEPT ![c] = r]
Fatal(c) == Set(c, [Begun EXCEPT !.at = "down"]) /\ UNCHANGED <<database, stops>>

\* CREATE TABLE IF NOT EXISTS schema_migrations looks first, and then creates.
Ensure(c) ==
    /\ At(c, "ensure")
    /\ Set(c, [runner[c] EXCEPT !.at = IF table THEN "read" ELSE "create"])
    /\ UNCHANGED <<database, stops>>

CreateTable(c) ==
    /\ At(c, "create")
    /\ ~table
    /\ table' = TRUE
    /\ Set(c, [runner[c] EXCEPT !.at = "read"])
    /\ UNCHANGED <<recorded, schema, bootstrapped, stops>>

\* Another runner has created it since: unique violation, exit 1.
CreateCollides(c) ==
    /\ At(c, "create")
    /\ table
    /\ Fatal(c)

\* readApplied
ReadApplied(c) ==
    /\ At(c, "read")
    /\ Set(c, [runner[c] EXCEPT !.at = "files", !.applied = recorded])
    /\ UNCHANGED <<database, stops>>

\* A recorded file is skipped, one with other contents too ("drift").
Skip(c) ==
    /\ At(c, "files") /\ Pending(c) # {}
    /\ runner[c].applied[Next1(c)] # None
    /\ Set(c, [runner[c] EXCEPT !.done = @ \cup {Next1(c)},
                                !.drift = @ \/ runner[c].applied[Next1(c)] # Image[c][Next1(c)]])
    /\ UNCHANGED <<database, stops>>

\* Another transaction that has run the same file and not committed.
Overlapped(c) == \E d \in Containers \ {c} : At(d, "commit") /\ Next1(d) = Next1(c)

\* applyMigration: BEGIN and the contents of the file, which waits for the locks
\* of an overlapping transaction.
RunContents(c) ==
    /\ At(c, "files") /\ Pending(c) # {}
    /\ runner[c].applied[Next1(c)] = None
    /\ ~Overlapped(c)
    /\ Set(c, [runner[c] EXCEPT !.at = "commit"])
    /\ UNCHANGED <<database, stops>>

\* Or fails on what the other has created when it gets them: ROLLBACK, exit 1.
ContentsCollide(c) ==
    /\ At(c, "files") /\ Pending(c) # {}
    /\ runner[c].applied[Next1(c)] = None
    /\ Overlapped(c)
    /\ Fatal(c)

\* A statement fails by itself: on a missing privilege, or contents that do not fit
\* what earlier files, skipped or only recorded, have left.  ROLLBACK, exit 1.
StatementFails(c) ==
    /\ \/ runner[c].at \in {"ensure", "create", "read", "commit"}
       \/ /\ At(c, "files") /\ Pending(c) # {}
          /\ runner[c].applied[Next1(c)] = None
    /\ Fatal(c)

\* Mutant: the record is written after the transaction.
CommitM(c) ==
    /\ At(c, "commit")
    /\ IF schema[Next1(c)] # Image[c][Next1(c)]
       THEN schema' = [schema EXCEPT ![Next1(c)] = Image[c][Next1(c)]] /\ UNCHANGED <<recorded, runner>>
       ELSE /\ recorded' = [recorded EXCEPT ![Next1(c)] = Image[c][Next1(c)]]
            /\ Set(c, [runner[c] EXCEPT !.at = "files", !.done = @ \cup {Next1(c)}])
            /\ UNCHANGED schema
    /\ UNCHANGED <<table, bootstrapped, stops>>

\* INSERT ... ON CONFLICT DO UPDATE, COMMIT
Commit(c) ==
    /\ At(c, "commit")
    /\ schema' = [schema EXCEPT ![Next1(c)] = Image[c][Next1(c)]]
    /\ recorded' = [recorded EXCEPT ![Next1(c)] = Image[c][Next1(c)]]
    /\ Set(c, [runner[c] EXCEPT !.at = "files", !.done = @ \cup {Next1(c)}])
    /\ UNCHANGED <<table, bootstrapped, stops>>

\* db:migrate:bootstrap, run by hand from some image, one INSERT per file.
Bootstrap(c, f) ==
    /\ table
    /\ Image[c][f] # None
    /\ recorded' = [recorded EXCEPT ![f] = Image[c][f]]
    /\ bootstrapped' = TRUE
    /\ UNCHANGED <<table, schema, runner, stops>>

-----------------------------------------------------------------------------
(* docker-entrypoint.sh *)


\* Exit 0 or 2: the server starts.
Serve(c) ==
    /\ At(c, "files") /\ Pending(c) = {}
    /\ Set(c, [Begun EXCEPT !.at = "serving"])
    /\ UNCHANGED <<database, stops>>

\* Exit 1 ends the container, which is started again.
Restart(c) ==
    /\ At(c, "down")
    /\ Set(c, Begun)
    /\ UNCHANGED <<database, stops>>

\* The container is stopped, or the database is lost; an open transaction is
\* rolled back.
Stop(c) ==
    /\ ~At(c, "down")
    /\ stops < MaxStops
    /\ stops' = stops + 1
    /\ Set(c, [Begun EXCEPT !.at = "down"])
    /\ UNCHANGED database

Step(c) ==
    \/ Ensure(c) \/ CreateTable(c) \/ CreateCollides(c)
    \/ ReadApplied(c) \/ Skip(c)
    \/ RunContents(c) \/ ContentsCollide(c) \/ Commit(c)
    \/ Serve(c) \/ Restart(c)

StartupNext ==
    \E c \in Containers :
        \/ Step(c) \/ StatementFails(c) \/ Stop(c)
        \/ \E f \in Files : Bootstrap(c, f)

\* Runners go on and what is down is started again.
StartupSpec == StartupInit /\ [][StartupNext]_startupVars /\ \A c \in Containers : WF_startupVars(Step(c))

-----------------------------------------------------------------------------
(* Properties *)

\* schema_migrations says which version of a file was run last, whoever else was
\* running it and wherever a runner was stopped ("Tracks sha256(content) per
\* filename"), unless it was told otherwise by --bootstrap.
RecordIsTrue == ~bootstrapped => recorded = schema

=============================================================================
