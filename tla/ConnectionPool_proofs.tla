------------------------ MODULE ConnectionPool_proofs ------------------------
(* Proofs about ConnectionPool, for any pool and any number of requests. *)
EXTENDS ConnectionPool, FiniteSetTheorems, TLAPS

Elements(s) == {s[i] : i \in DOMAIN s}
Distinct(s) == \A i, j \in DOMAIN s : s[i] = s[j] => i = j

\* A new element at the end of a queue.
LEMMA AppendElements ==
    ASSUME NEW S, NEW s \in Seq(S), NEW e \in S
    PROVE  /\ Append(s, e) \in Seq(S)
           /\ Elements(Append(s, e)) = Elements(s) \cup {e}
           /\ Distinct(s) /\ e \notin Elements(s) => Distinct(Append(s, e))
<1> DEFINE t == Append(s, e)
<1>1. /\ t \in Seq(S)
      /\ Len(t) = Len(s) + 1
      /\ \A i \in 1..Len(s) : t[i] = s[i]
      /\ t[Len(s) + 1] = e
  OBVIOUS
<1>2. Len(s) \in Nat /\ DOMAIN s = 1..Len(s) /\ DOMAIN t = 1..(Len(s) + 1)
  BY <1>1
<1> HIDE DEF t
<1>3. Elements(t) = Elements(s) \cup {e}
  <2>1. \A i \in DOMAIN t : i \in DOMAIN s \/ i = Len(s) + 1
    BY <1>2
  <2>2. DOMAIN s \subseteq DOMAIN t /\ Len(s) + 1 \in DOMAIN t
    BY <1>2
  <2> QED BY <1>1, <1>2, <2>1, <2>2 DEF Elements
<1>4. ASSUME Distinct(s), e \notin Elements(s)
      PROVE  Distinct(t)
  BY <1>1, <1>2, <1>4 DEF Elements, Distinct
<1> QED BY <1>1, <1>3, <1>4 DEF t

\* Taking the first element of a queue.
LEMMA TailElements ==
    ASSUME NEW S, NEW s \in Seq(S), s # <<>>, Distinct(s)
    PROVE  /\ Head(s) \in Elements(s)
           /\ Head(s) \in S
           /\ Tail(s) \in Seq(S)
           /\ Elements(Tail(s)) = Elements(s) \ {Head(s)}
           /\ Distinct(Tail(s))
<1> DEFINE t == Tail(s)
<1>1. /\ t \in Seq(S)
      /\ Len(s) \in Nat /\ Len(s) > 0
      /\ Len(t) = Len(s) - 1
      /\ \A i \in 1..Len(t) : t[i] = s[i + 1]
      /\ Head(s) = s[1] /\ s[1] \in S
  OBVIOUS
<1>2. DOMAIN s = 1..Len(s) /\ DOMAIN t = 1..(Len(s) - 1)
  BY <1>1
<1> HIDE DEF t
<1>3. \A i \in DOMAIN t : i + 1 \in DOMAIN s /\ i + 1 # 1 /\ t[i] = s[i + 1]
  BY <1>1, <1>2
<1>4. \A i \in DOMAIN s : i = 1 \/ (i - 1 \in DOMAIN t /\ t[i - 1] = s[i])
  BY <1>1, <1>2
<1>5. 1 \in DOMAIN s
  BY <1>1, <1>2
<1>6. Elements(t) = Elements(s) \ {s[1]}
  <2>1. \A i \in DOMAIN t : t[i] \in Elements(s) /\ t[i] # s[1]
    BY <1>3, <1>5 DEF Elements, Distinct
  <2>2. \A i \in DOMAIN s : s[i] # s[1] => s[i] \in Elements(t)
    BY <1>4 DEF Elements
  <2> QED BY <2>1, <2>2 DEF Elements
<1>7. Distinct(t)
  BY <1>1, <1>2, <1>3 DEF Distinct
<1> QED BY <1>1, <1>5, <1>6, <1>7 DEF t, Elements

-----------------------------------------------------------------------------

LEMMA InitPool == Init => PoolInv
<1> SUFFICES ASSUME Init PROVE PoolInv
  OBVIOUS
<1>1. TypeOK
  BY DEF Init, TypeOK
<1>2. IsFiniteSet(held)
  BY FS_EmptySet DEF Init
<1>3. Queued = {} /\ held = {}
  BY DEF Init, Queued
<1> QED BY <1>1, <1>2, <1>3 DEF Init, PoolInv, NothingLeaks, Outstanding

LEMMA Enqueue ==
    ASSUME PoolInv, NEW u \in Uses, u \notin Queued, queue' = Append(queue, u)
    PROVE  queue' \in Seq(Uses) /\ Queued' = Queued \cup {u} /\ Distinct(queue')
<1>1. /\ queue \in Seq(Uses) /\ Distinct(queue)
      /\ Queued = Elements(queue) /\ Queued' = Elements(queue')
  BY DEF PoolInv, TypeOK, Distinct, Elements, Queued
<1>2. u \notin Elements(queue)
  BY <1>1
<1> QED BY <1>1, <1>2, AppendElements

\* The queue of the next state is sound if the uses it names are.
LEMMA Compose ==
    ASSUME held' \subseteq Uses, IsFiniteSet(held'),
           queue' \in Seq(Uses), Distinct(queue'), held' \cap Queued' = {},
           at' \in [Batches -> {"idle", "check", "transaction", "name"}],
           NothingLeaks'
    PROVE  PoolInv'
BY DEF PoolInv, TypeOK, Distinct

LEMMA StageOf ==
    /\ Stages("check") = {"check"} /\ Stages("transaction") = {"transaction", "name"}
    /\ Stages("name") = {"name"} /\ Stages("audit") = {"name", "idle"}
    /\ Stages("notify") = {"idle"}
BY DEF Stages

LEMMA UsesOf ==
    /\ \A b \in Batches, p \in Purposes : <<b, p>> \in Uses
    /\ \A q \in Queries : <<q, "query">> \in Uses
BY DEF Uses

\* A step of b leaves the accounts of the other submit-alls alone.
LEMMA OneBatch ==
    ASSUME PoolInv, NEW b \in Batches,
           \A c \in Batches \ {b} :
              /\ at'[c] = at[c]
              /\ \A p \in Purposes : Outstanding(<<c, p>>)' => Outstanding(<<c, p>>)
              /\ <<c, "transaction">> \in held => <<c, "transaction">> \in held',
           \A p \in Purposes : Outstanding(<<b, p>>)' => at'[b] \in Stages(p),
           at'[b] = "name" => <<b, "transaction">> \in held'
    PROVE  NothingLeaks'
<1> SUFFICES ASSUME NEW c \in Batches
             PROVE  /\ \A p \in Purposes : Outstanding(<<c, p>>)' => at'[c] \in Stages(p)
                    /\ at'[c] = "name" => <<c, "transaction">> \in held'
  BY DEF NothingLeaks, Stages
<1>1. CASE c = b
  BY <1>1
<1>2. CASE c # b
  BY <1>2 DEF PoolInv, NothingLeaks
<1> QED BY <1>1, <1>2

\* Every step keeps the accounts of the pool: one step per action.
LEMMA NextPool == PoolInv /\ [Next]_vars => PoolInv'
<1> SUFFICES ASSUME PoolInv, [Next]_vars
             PROVE  PoolInv'
  OBVIOUS
<1>t. /\ held \subseteq Uses /\ IsFiniteSet(held)
      /\ queue \in Seq(Uses) /\ Distinct(queue)
      /\ held \cap Queued = {}
      /\ at \in [Batches -> {"idle", "check", "transaction", "name"}]
  BY DEF PoolInv, TypeOK, Distinct
<1>a. \A b \in Batches, p \in Purposes : Outstanding(<<b, p>>) => at[b] \in Stages(p)
  BY DEF PoolInv, NothingLeaks
<1>n. \A b \in Batches : at[b] = "name" => <<b, "transaction">> \in held
  BY DEF PoolInv, NothingLeaks
<1>f. ASSUME NEW x, NEW y
      PROVE  /\ IsFiniteSet(held \ {x}) /\ IsFiniteSet(held \ {x, y})
             /\ IsFiniteSet(held \cup {x})
  BY <1>t, FS_Subset, FS_AddElement
<1>p. \A p \in {"check", "transaction", "name", "audit", "notify"} : p \in Purposes
  BY DEF Purposes
<1>1. CASE Grant
  <2>1. /\ Head(queue) \in Queued
        /\ Head(queue) \in Uses
        /\ queue' \in Seq(Uses)
        /\ Queued' = Queued \ {Head(queue)}
        /\ Distinct(queue')
    <3>1. Queued = Elements(queue) /\ Queued' = Elements(queue')
      BY DEF Queued, Elements
    <3> QED BY <1>1, <1>t, <3>1, TailElements DEF Grant
  <2>2. held' = held \cup {Head(queue)} /\ at' = at
    BY <1>1 DEF Grant
  <2>3. \A u : Outstanding(u)' <=> Outstanding(u)
    BY <2>1, <2>2 DEF Outstanding
  <2>4. NothingLeaks'
    BY <1>a, <1>n, <2>2, <2>3 DEF NothingLeaks, Stages
  <2> QED BY <1>t, <1>f, <2>1, <2>2, <2>4, Compose
<1>2. ASSUME NEW q \in Queries, Ask(q)
      PROVE  PoolInv'
  <2>1. <<q, "query">> \notin Queued \cup held
    BY <1>2 DEF Ask, Outstanding
  <2>2. queue' \in Seq(Uses) /\ Queued' = Queued \cup {<<q, "query">>} /\ Distinct(queue')
    BY <1>2, <2>1, UsesOf, Enqueue DEF Ask
  <2>3. \A b \in Batches, p \in Purposes : Outstanding(<<b, p>>)' => Outstanding(<<b, p>>)
    BY <1>2, <2>2 DEF Ask, Outstanding, Purposes
  <2>4. NothingLeaks'
    BY <1>a, <1>n, <1>2, <2>3 DEF NothingLeaks, Stages, Ask
  <2> QED BY <1>t, <1>2, <2>1, <2>2, <2>4, Compose DEF Ask
<1>3. ASSUME NEW q \in Queries, Answer(q)
      PROVE  PoolInv'
  <2>1. Queued' = Queued
    BY <1>3 DEF Answer, Queued
  <2>2. \A u : Outstanding(u)' => Outstanding(u)
    BY <1>3, <2>1 DEF Answer, Outstanding
  <2>3. NothingLeaks'
    BY <1>a, <1>n, <1>3, <2>2 DEF NothingLeaks, Stages, Answer
  <2> QED BY <1>t, <1>f, <1>3, <2>1, <2>3, Compose DEF Answer
<1>4. ASSUME NEW b \in Batches, Arrive(b)
      PROVE  PoolInv'
  <2>1. \A p \in Purposes : <<b, p>> \notin Queued \cup held
    BY <1>4 DEF Arrive, Outstanding
  <2>2. queue' \in Seq(Uses) /\ Queued' = Queued \cup {<<b, "check">>} /\ Distinct(queue')
    BY <1>4, <1>p, <2>1, UsesOf, Enqueue DEF Arrive
  <2>3. NothingLeaks'
    BY <1>t, <1>4, <2>1, <2>2, StageOf, OneBatch DEF Arrive, Outstanding, Purposes
  <2> QED BY <1>t, <1>p, <1>4, <2>1, <2>2, <2>3, Compose DEF Arrive
<1>5. ASSUME NEW b \in Batches, Check(b)
      PROVE  PoolInv'
  <2>1. at[b] = "check"
    BY <1>a, <1>p, <1>5, StageOf DEF Check, Outstanding
  <2>2. \A p \in Purposes \ {"check"} : <<b, p>> \notin Queued \cup held
    BY <1>a, <2>1, StageOf DEF Outstanding, Purposes
  <2>3. queue' \in Seq(Uses) /\ Queued' = Queued \cup {<<b, "transaction">>} /\ Distinct(queue')
    BY <1>5, <1>p, <2>2, UsesOf, Enqueue DEF Check
  <2>4. <<b, "check">> \notin Queued
    BY <1>t, <1>5 DEF Check
  <2>5. NothingLeaks'
    <3>1. at' = [at EXCEPT ![b] = "transaction"] /\ held' = held \ {<<b, "check">>}
      BY <1>5 DEF Check
    <3>2. at'[b] = "transaction" /\ \A c \in Batches \ {b} : at'[c] = at[c]
      BY <1>t, <3>1
    <3>3. \A p \in Purposes : Outstanding(<<b, p>>)' => p = "transaction"
      BY <2>2, <2>3, <2>4, <3>1 DEF Outstanding
    <3>4. \A c \in Batches \ {b} :
             /\ \A p \in Purposes : Outstanding(<<c, p>>)' => Outstanding(<<c, p>>)
             /\ <<c, "transaction">> \in held => <<c, "transaction">> \in held'
      BY <2>3, <3>1 DEF Outstanding
    <3> QED BY <3>2, <3>3, <3>4, StageOf, OneBatch
  <2> QED BY <1>t, <1>p, <1>f, <1>5, <2>2, <2>3, <2>5, Compose DEF Check
<1>6. ASSUME NEW b \in Batches, Refuse(b)
      PROVE  PoolInv'
  <2>1. at[b] = "check" /\ <<b, "check">> \notin Queued
    BY <1>a, <1>t, <1>p, <1>6, StageOf DEF Refuse, Outstanding
  <2>2. \A p \in Purposes \ {"check"} : <<b, p>> \notin Queued \cup held
    BY <1>a, <2>1, StageOf DEF Outstanding, Purposes
  <2>3. Queued' = Queued
    BY <1>6 DEF Refuse, Queued
  <2>4. NothingLeaks'
    BY <1>t, <1>6, <2>1, <2>2, <2>3, StageOf, OneBatch DEF Refuse, Outstanding
  <2> QED BY <1>t, <1>f, <1>6, <2>3, <2>4, Compose DEF Refuse
\* The audit record and the name are queued one after the other.
<1>7. ASSUME NEW b \in Batches, Commit(b)
      PROVE  PoolInv'
  <2> DEFINE s == Append(queue, <<b, "audit">>)
  <2>1. \A p \in Purposes \ {"transaction"} : <<b, p>> \notin Queued \cup held
    BY <1>a, <1>7, StageOf DEF Commit, Outstanding, Purposes
  <2>2. s \in Seq(Uses) /\ Elements(s) = Queued \cup {<<b, "audit">>} /\ Distinct(s)
    <3>1. Queued = Elements(queue)
      BY DEF Queued, Elements
    <3>2. <<b, "audit">> \in Uses /\ <<b, "audit">> \notin Elements(queue)
      BY <1>p, <2>1, <3>1, UsesOf
    <3> QED BY <1>t, <3>1, <3>2, AppendElements
  <2>3. queue' = Append(s, <<b, "name">>)
    <3>1. \A u, v \in Uses : queue \o <<u, v>> = Append(Append(queue, u), v)
      BY <1>t
    <3> QED BY <1>7, <1>p, <3>1, UsesOf DEF Commit
  <2>4. <<b, "name">> \in Uses /\ <<b, "name">> \notin Elements(s)
    BY <1>p, <2>1, <2>2, UsesOf
  <2> HIDE DEF s
  <2>5. /\ queue' \in Seq(Uses)
        /\ Queued' = Queued \cup {<<b, "audit">>, <<b, "name">>}
        /\ Distinct(queue')
    <3>1. Queued' = Elements(queue')
      BY DEF Queued, Elements
    <3>2. Elements(Append(s, <<b, "name">>)) = Elements(s) \cup {<<b, "name">>}
      BY <2>2, <2>4, AppendElements
    <3>3. queue' \in Seq(Uses) /\ Distinct(queue')
      BY <2>2, <2>3, <2>4, AppendElements
    <3> QED BY <2>2, <2>3, <3>1, <3>2, <3>3
  <2>6. NothingLeaks'
    <3>1. at' = [at EXCEPT ![b] = "name"] /\ held' = held /\ <<b, "transaction">> \in held
      BY <1>7 DEF Commit
    <3>2. at'[b] = "name" /\ \A c \in Batches \ {b} : at'[c] = at[c]
      BY <1>t, <3>1
    <3>3. \A p \in Purposes : Outstanding(<<b, p>>)' => p \in {"transaction", "audit", "name"}
      BY <2>1, <2>5, <3>1 DEF Outstanding
    <3>4. \A c \in Batches \ {b}, p \in Purposes : Outstanding(<<c, p>>)' => Outstanding(<<c, p>>)
      BY <2>5, <3>1 DEF Outstanding
    <3> QED BY <3>1, <3>2, <3>3, <3>4, StageOf, OneBatch
  <2> QED BY <1>t, <1>p, <1>7, <2>1, <2>5, <2>6, Compose DEF Commit
<1>8. ASSUME NEW b \in Batches, RollBack(b)
      PROVE  PoolInv'
  <2>1. \A p \in Purposes \ {"transaction"} : <<b, p>> \notin Queued \cup held
    BY <1>a, <1>8, StageOf DEF RollBack, Outstanding, Purposes
  <2>2. Queued' = Queued /\ <<b, "transaction">> \notin Queued
    BY <1>t, <1>8 DEF RollBack, Queued
  <2>3. NothingLeaks'
    BY <1>t, <1>8, <2>1, <2>2, StageOf, OneBatch DEF RollBack, Outstanding
  <2> QED BY <1>t, <1>f, <1>8, <2>2, <2>3, Compose DEF RollBack
<1>9. ASSUME NEW b \in Batches, NameRead(b) \/ NameFails(b)
      PROVE  PoolInv'
  <2>1. at[b] = "name"
    BY <1>a, <1>p, <1>9, StageOf DEF NameRead, NameFails, Outstanding
  <2>2. <<b, "check">> \notin Queued \cup held /\ <<b, "notify">> \notin Queued \cup held
    BY <1>a, <1>p, <2>1, StageOf DEF Outstanding
  <2>3. <<b, "name">> \notin Queued /\ <<b, "transaction">> \notin Queued
    BY <1>t, <1>n, <1>9, <2>1 DEF NameRead, NameFails
  <2>4. CASE NameRead(b)
    <3>1. queue' \in Seq(Uses) /\ Queued' = Queued \cup {<<b, "notify">>} /\ Distinct(queue')
      BY <2>4, <1>p, <2>2, UsesOf, Enqueue DEF NameRead
    <3>2. NothingLeaks'
      BY <1>t, <2>2, <2>3, <2>4, <3>1, StageOf, OneBatch DEF NameRead, Outstanding, Purposes
    <3> QED BY <1>t, <1>f, <2>2, <2>4, <3>1, <3>2, Compose DEF NameRead
  <2>5. CASE NameFails(b)
    <3>1. Queued' = Queued
      BY <2>5 DEF NameFails, Queued
    <3>2. NothingLeaks'
      BY <1>t, <2>2, <2>3, <2>5, <3>1, StageOf, OneBatch DEF NameFails, Outstanding, Purposes
    <3> QED BY <1>t, <1>f, <2>5, <3>1, <3>2, Compose DEF NameFails
  <2> QED BY <1>9, <2>4, <2>5
<1>10. ASSUME NEW b \in Batches, NEW p \in Background, Write(b, p)
       PROVE  PoolInv'
  <2>1. Queued' = Queued
    BY <1>10 DEF Write, Queued
  <2>2. \A u : Outstanding(u)' => Outstanding(u)
    BY <1>10, <2>1 DEF Write, Outstanding
  <2>3. NothingLeaks'
    BY <1>a, <1>n, <1>10, <2>2 DEF NothingLeaks, Stages, Write, Background
  <2> QED BY <1>t, <1>f, <1>10, <2>1, <2>3, Compose DEF Write
<1>11. CASE UNCHANGED vars
  BY <1>11 DEF vars, PoolInv, TypeOK, NothingLeaks, Outstanding, Queued
<1>12. ASSUME NEW b \in Batches, Proceed(b)
       PROVE  PoolInv'
  BY <1>5, <1>6, <1>7, <1>8, <1>9, <1>10, <1>12 DEF Proceed
<1> QED BY <1>1, <1>2, <1>3, <1>4, <1>11, <1>12 DEF Next

\* Submit-all loses no connection on any path.
THEOREM ConnectionsAreReturned == Spec => []NothingLeaks
<1>1. PoolInv => NothingLeaks
  BY DEF PoolInv
<1> QED BY <1>1, InitPool, NextPool, PTL DEF Spec

\* A connection that does not run is the client of a committed submit-all, so
\* fewer submit-alls than connections cannot block the whole pool.
LEMMA SomethingRuns == Provisioned /\ PoolInv => NeverExhausted
<1> SUFFICES ASSUME Provisioned, PoolInv, \A u \in held : ~Runs(u)
             PROVE  Cardinality(held) < PoolMax
  BY DEF NeverExhausted
<1>1. \A u \in held : u[1] \in Batches /\ u = <<u[1], "transaction">>
  <2> SUFFICES ASSUME NEW u \in held
               PROVE  u[1] \in Batches /\ u = <<u[1], "transaction">>
    OBVIOUS
  <2>1. u \in Uses /\ u[1] \in Batches /\ u[2] \notin Background /\ at[u[1]] # u[2]
    BY DEF PoolInv, TypeOK, Runs
  <2>2. u = <<u[1], u[2]>> /\ (u[2] \in Purposes \/ u[1] \in Queries)
    BY <2>1 DEF Uses
  <2>3. u[2] \in Purposes
    BY <2>1, <2>2, SlotsAssumption
  <2>4. at[u[1]] \in Stages(u[2])
    BY <2>1, <2>2, <2>3 DEF PoolInv, NothingLeaks, Outstanding
  <2> QED BY <2>1, <2>2, <2>3, <2>4, StageOf DEF Purposes, Background
<1> DEFINE f == [u \in held |-> u[1]]
<1>2. f \in Injection(held, Batches)
  BY <1>1 DEF Injection, IsInjective
<1>3. IsFiniteSet(held) /\ Cardinality(held) <= Cardinality(Batches)
  BY <1>2, FS_Injection, SlotsAssumption
<1>4. Cardinality(held) \in Nat /\ Cardinality(Batches) \in Nat
  BY <1>3, FS_CardinalityType, SlotsAssumption
<1> QED BY <1>3, <1>4, PoolMaxAssumption DEF Provisioned

\* With more connections than submit-alls at a time, the pool never deadlocks.
THEOREM PoolNeverDeadlocks == Provisioned /\ Spec => []NeverExhausted
<1>1. Provisioned /\ PoolInv => NeverExhausted
  BY SomethingRuns
<1>2. Spec => []PoolInv
  BY InitPool, NextPool, PTL DEF Spec
<1>3. SUFFICES ASSUME Provisioned PROVE Spec => []NeverExhausted
  OBVIOUS
<1>4. PoolInv => NeverExhausted
  BY <1>1, <1>3
<1> QED BY <1>2, <1>4, PTL
=============================================================================
