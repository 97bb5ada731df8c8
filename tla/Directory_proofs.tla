-------------------------- MODULE Directory_proofs --------------------------
(* That somebody can go on administering the users, for any users, groups and *)
(* requests.                                                                  *)
EXTENDS Directory, TLAPS

UsersType ==
    /\ users \in [Ids -> Rows \cup {None}]
    /\ request \in [Requests -> Operations \cup {None}]
    /\ disturbed \in BOOLEAN

\* What a request in flight will leave a as: an administrator.
Spares(o, a) == o # None /\ o.id = a => o.op \in {"create", "update"} /\ o.role = "Admin"

\* Undisturbed, at most one request is in flight, and it spares somebody who is
\* an administrator: the one who made it, if nobody else.
Kept ==
    /\ \A q, r \in Requests : request[q] # None /\ request[r] # None => q = r
    /\ \E a \in Ids : RoleActed(a) = "Admin" /\ \A r \in Requests : Spares(request[r], a)

AdminInv == UsersType /\ (~disturbed => Kept)

LEMMA InitAdmin == Init => AdminInv
<1> SUFFICES ASSUME Init PROVE AdminInv
    OBVIOUS
<1>1. UsersType
    BY DEF Init, UsersType
<1>2. PICK a \in Ids : users[a] = [role |-> "Admin", active |-> TRUE]
    BY DEF Init
<1>3. users[a] # None /\ RoleActed(a) = "Admin"
    <2>1. users[a] \in Rows
        BY DEF Init
    <2>2. users[a] # None
        BY <2>1, DirectoryAssumption DEF Rows
    <2>3. QED
        BY <1>2, <2>2 DEF RoleActed
<1>4. \A r \in Requests : request[r] = None
    BY DEF Init
<1>5. QED
    BY <1>1, <1>3, <1>4 DEF AdminInv, Kept, Spares

LEMMA StepType == UsersType /\ [Next]_vars => UsersType'
<1> SUFFICES ASSUME UsersType, [Next]_vars PROVE UsersType'
    OBVIOUS
<1> USE DEF UsersType, adminVars
<1>1. ASSUME NEW r \in Requests, NEW actor \in Ids, NEW o \in Operations, Ask(r, actor, o)
      PROVE  UsersType'
    BY <1>1 DEF Ask
<1>2. ASSUME NEW r \in Requests, Execute(r)
      PROVE  UsersType'
    <2> DEFINE o == request[r]
    <2>1. o \in Operations
        BY <1>2 DEF Execute
    <2>2. o.id \in Ids /\ o.op \in {"create", "update", "toggle", "delete"}
        BY <2>1 DEF Operations
    <2>3. Written(o) \in Rows \cup {None}
        <3>1. CASE o.op = "create"
            <4>1. o.role \in Roles
                BY <2>1, <3>1 DEF Operations
            <4>2. QED
                BY <2>2, <3>1, <4>1 DEF Written, Rows
        <3>2. CASE o.op = "update"
            <4>1. o.role \in Roles
                BY <2>1, <3>2 DEF Operations
            <4>2. QED
                BY <2>2, <3>2, <4>1 DEF Written, Rows
        <3>3. CASE o.op \in {"toggle", "delete"}
            BY <2>2, <3>3 DEF Written, Rows
        <3>4. QED
            BY <2>2, <3>1, <3>2, <3>3
    <2>4. QED
        BY <1>2, <2>2, <2>3 DEF Execute
<1>3. CASE UNCHANGED adminVars
    BY <1>3
<1>4. QED
    BY <1>1, <1>2, <1>3
    DEF Next, Notify, Insert, InsertFails, Delivered, DeleteCycle, Fetch, Show, MarkRead, MarkAllRead, vars

\* The one who asks keeps his role.
LEMMA AskKeeps ==
    ASSUME AdminInv, NEW r \in Requests, NEW actor \in Ids, NEW o \in Operations,
           Ask(r, actor, o), ~disturbed'
    PROVE  Kept'
<1>1. ~disturbed /\ ~Disturbs(actor, o)
    BY DEF Ask, AdminInv, UsersType
<1>2. /\ RoleActed(actor) = "Admin" /\ (o.op = "toggle" => o.id # actor)
      /\ \A q \in Requests : request[q] = None
    BY <1>1 DEF Ask, MayAsk, Disturbs
<1>3. RoleActed(actor)' = "Admin"
    BY <1>2 DEF Ask, RoleActed
<1>4. o.id = actor => o.op \in {"create", "update"} /\ o.role = "Admin"
    <2>1. o.op \in {"create", "update", "toggle", "delete"}
        BY DEF Operations
    <2>2. o.id = actor => ~(o.op = "delete") /\ ~(o.op \in {"create", "update"} /\ o.role # "Admin")
        BY <1>1 DEF Disturbs
    <2>3. QED
        BY <1>2, <2>1, <2>2
<1>5. \A q \in Requests : request'[q] = IF q = r THEN o ELSE None
    BY <1>2 DEF Ask, AdminInv, UsersType
<1>6. \A q \in Requests : Spares(request[q], actor)'
    BY <1>4, <1>5 DEF Spares
<1>7. QED
    BY <1>3, <1>5, <1>6 DEF Kept

\* A request that spares somebody leaves him an administrator.
LEMMA ExecuteKeeps ==
    ASSUME AdminInv, NEW r \in Requests, Execute(r), ~disturbed
    PROVE  Kept'
<1>1. PICK a \in Ids : RoleActed(a) = "Admin" /\ \A q \in Requests : Spares(request[q], a)
    BY DEF AdminInv, Kept
<1> DEFINE o == request[r]
<1>2. o # None /\ o \in Operations /\ o.id \in Ids
    <2>1. o # None /\ o \in Operations
        BY DEF Execute, AdminInv, UsersType
    <2>2. QED
        BY <2>1 DEF Operations
<1>3. \A q \in Requests : request'[q] = None
    BY DEF Execute, AdminInv, UsersType, Kept
<1>4. users'[a] = IF a = o.id THEN Written(o) ELSE users[a]
    BY <1>2 DEF Execute, AdminInv, UsersType
<1>5. RoleActed(a)' = "Admin"
    <2>1. CASE a # o.id
        BY <1>1, <1>4, <2>1 DEF RoleActed
    <2>2. CASE a = o.id
        <3>1. o.op \in {"create", "update"} /\ o.role = "Admin"
            BY <1>1, <1>2, <2>2 DEF Spares
        <3>2. CASE users[a] # None
            <4>1. users[a] \in Rows /\ users[a].active /\ users[a].role = "Admin"
                <5>1. users[a] \in Rows
                    BY <3>2 DEF AdminInv, UsersType
                <5>2. "Admin" # None
                    BY DirectoryAssumption
                <5>3. QED
                    BY <1>1, <3>2, <5>1, <5>2 DEF RoleActed
            <4>2. Written(o) = users[a]
                BY <2>2, <3>1, <3>2, <4>1 DEF Written, Rows
            <4>3. QED
                BY <1>1, <1>4, <2>2, <4>2 DEF RoleActed
        <3>3. CASE users[a] = None
            <4>1. Written(o) = None \/ Written(o) = [role |-> "Admin", active |-> TRUE]
                BY <2>2, <3>1, <3>3 DEF Written
            <4>2. CASE Written(o) = None
                BY <1>1, <1>4, <2>2, <3>3, <4>2 DEF RoleActed
            <4>3. CASE Written(o) = [role |-> "Admin", active |-> TRUE]
                <5>1. users'[a] \in Rows \cup {None}
                    BY StepType, <1>2 DEF AdminInv, UsersType, Next
                <5>2. users'[a] = [role |-> "Admin", active |-> TRUE]
                    BY <1>4, <2>2, <4>3
                <5>3. CASE users'[a] # None
                    BY <5>2, <5>3 DEF RoleActed
                <5>4. CASE users'[a] = None
                    BY <1>1, <3>3, <5>4 DEF RoleActed
                <5>5. QED
                    BY <5>3, <5>4
            <4>4. QED
                BY <4>1, <4>2, <4>3
        <3>4. QED
            BY <3>2, <3>3
    <2>3. QED
        BY <2>1, <2>2
<1>6. QED
    BY <1>3, <1>5 DEF Kept, Spares

LEMMA NextAdmin == AdminInv /\ [Next]_vars => AdminInv'
<1> SUFFICES ASSUME AdminInv, [Next]_vars, ~disturbed' PROVE Kept'
    BY StepType DEF AdminInv
<1>1. ASSUME NEW r \in Requests, NEW actor \in Ids, NEW o \in Operations, Ask(r, actor, o)
      PROVE  Kept'
    BY <1>1, AskKeeps
<1>2. ASSUME NEW r \in Requests, Execute(r)
      PROVE  Kept'
    <2>1. ~disturbed
        BY <1>2 DEF Execute
    <2>2. QED
        BY <1>2, <2>1, ExecuteKeeps
<1>3. CASE UNCHANGED adminVars
    BY <1>3 DEF AdminInv, Kept, RoleActed, adminVars
<1>4. QED
    BY <1>1, <1>2, <1>3
    DEF Next, Notify, Insert, InsertFails, Delivered, DeleteCycle, Fetch, Show, MarkRead, MarkAllRead, vars

\* Administrative requests that come one after another leave somebody who can
\* administer the users, however many there are, as long as no administrator
\* deletes himself or gives himself another role (routes/users.ts), and nobody
\* acts while his row, which refuses him, cannot be read (auth.ts:275-297).
THEOREM AdministratorRemains == Spec => []SomebodyAdministers
<1>1. AdminInv => SomebodyAdministers
    BY DEF AdminInv, Kept, SomebodyAdministers
<1>2. QED
    BY <1>1, InitAdmin, NextAdmin, PTL DEF Spec
=============================================================================
