------------------------ MODULE GroupRoleCache_proofs ------------------------
(* Proofs about GroupRoleCache, for any number of requests, writers and writes. *)
EXTENDS GroupRoleCache, TLAPS

LEMMA StepType == TypeOK /\ [Next]_vars => TypeOK'
<1> USE MaxVersionAssumption DEF TypeOK, Waiting, Loading
<1> SUFFICES ASSUME TypeOK, [Next]_vars
             PROVE  TypeOK'
  OBVIOUS
<1>1. ASSUME NEW r \in Requests, Hit(r) \/ StartReload(r) \/ JoinReload(r)
      PROVE  TypeOK'
  BY <1>1 DEF Hit, StartReload, JoinReload, Enter
<1>2. ASSUME NEW r \in Requests, ReadTable(r)
      PROVE  TypeOK'
  BY <1>2 DEF ReadTable
<1>3. ASSUME NEW r \in Requests, ReloadDone(r) \/ ReloadFails(r)
      PROVE  TypeOK'
  BY <1>3 DEF ReloadDone, ReloadFails, AnswerAll
<1>4. ASSUME NEW w \in Writers, Commit(w)
      PROVE  TypeOK'
  <2>1. version' \in Nat
    BY <1>4 DEF Commit
  <2> QED BY <1>4, <2>1 DEF Commit
<1>5. ASSUME NEW w \in Writers, Invalidate(w)
      PROVE  TypeOK'
  <2>1. writer[w] \in Nat
    OBVIOUS
  <2> QED BY <1>5, <2>1 DEF Invalidate
<1>6. CASE Expire
  BY <1>6 DEF Expire
<1>7. CASE UNCHANGED vars
  BY <1>7 DEF vars
<1> QED BY <1>1, <1>2, <1>3, <1>4, <1>5, <1>6, <1>7 DEF Next, Step

-----------------------------------------------------------------------------
(* The cache never goes back *)

LEMMA InitOrdered == Init => Ordered
<1> SUFFICES ASSUME Init PROVE Ordered
  OBVIOUS
<1>1. TypeOK
  BY DEF Init, TypeOK
<1>2. \A r \in Requests : request[r].at = "idle"
  BY DEF Init
<1>3. \A w \in Writers : writer[w] = 0
  BY DEF Init
<1> QED BY <1>1, <1>2, <1>3 DEF Init, Ordered, Waiting, Loading

\* One reload at a time, ordered between the cache and the table.
LEMMA NextOrdered == Ordered /\ [Next]_vars => Ordered'
<1> USE DEF Ordered, TypeOK, Waiting, Loading
<1> SUFFICES ASSUME Ordered, [Next]_vars, TypeOK'
             PROVE  Ordered'
  BY StepType
<1>1. ASSUME NEW r \in Requests, Hit(r) \/ JoinReload(r)
      PROVE  Ordered'
  BY <1>1 DEF Hit, JoinReload, Enter
\* No other reload is in flight.
<1>2. ASSUME NEW r \in Requests, StartReload(r)
      PROVE  Ordered'
  BY <1>2 DEF StartReload, Enter, InFlight
<1>3. ASSUME NEW r \in Requests, ReadTable(r)
      PROVE  Ordered'
  BY <1>3 DEF ReadTable
\* The reload that ends was the only one.
<1>4. ASSUME NEW r \in Requests, ReloadDone(r)
      PROVE  Ordered'
  <2>1. \A q \in Requests : request'[q].at \notin Loading
    BY <1>4 DEF ReloadDone, AnswerAll
  <2>2. cache' = request[r].saw /\ version' = version
    BY <1>4 DEF ReloadDone
  <2>3. cache' <= version'
    BY <1>4, <2>2 DEF ReloadDone
  <2> QED BY <2>1, <2>3
<1>5. ASSUME NEW r \in Requests, ReloadFails(r)
      PROVE  Ordered'
  BY <1>5 DEF ReloadFails, AnswerAll
<1>6. ASSUME NEW w \in Writers, Commit(w) \/ Invalidate(w)
      PROVE  Ordered'
  BY <1>6 DEF Commit, Invalidate
<1>7. CASE Expire
  BY <1>7 DEF Expire
<1>8. CASE UNCHANGED vars
  BY <1>8 DEF vars
<1> QED BY <1>1, <1>2, <1>3, <1>4, <1>5, <1>6, <1>7, <1>8 DEF Next, Step

\* At most one reload is in flight, between the cache and the table.
THEOREM ReloadsAreOrdered == Spec => []Ordered
BY InitOrdered, NextOrdered, PTL DEF Spec

\* No reload overtakes another: roles are never resolved against an older
\* mapping than before.
THEOREM CacheIsMonotonic == Spec => CacheNeverGoesBack
<1>1. ASSUME Ordered, [Next]_vars
      PROVE  [cache' >= cache]_vars
  <2> USE <1>1 DEF Ordered, TypeOK
  <2>1. CASE UNCHANGED cache
    BY <2>1
  <2>2. ASSUME NEW r \in Requests, ReloadDone(r)
        PROVE  cache' >= cache
    BY <2>2 DEF ReloadDone
  <2> QED
    BY <2>1, <2>2 DEF Next, Step, Hit, StartReload, JoinReload, Enter, ReadTable,
       ReloadFails, Commit, Invalidate, Expire, vars
<1> QED BY <1>1, ReloadsAreOrdered, PTL DEF Spec, CacheNeverGoesBack

-----------------------------------------------------------------------------
(* Writes take effect on the next request, while none overlaps a reload *)

LEMMA InitAnnounced == Init => Announced
<1> SUFFICES ASSUME Init PROVE Announced
  OBVIOUS
<1>1. TypeOK
  BY DEF Init, TypeOK
<1>2. \A r \in Requests : request[r].at = "idle"
  BY DEF Init
<1>3. \A w \in Writers : writer[w] = 0
  BY DEF Init
<1> QED BY <1>1, <1>2, <1>3 DEF Init, Announced, Waiting, Loading, NextRequestSeesWrite

LEMMA NextAnnounced == Announced /\ [Next]_vars => Announced'
<1> USE DEF Announced, TypeOK, Waiting, Loading, NextRequestSeesWrite
<1> SUFFICES ASSUME Announced, [Next]_vars, TypeOK'
             PROVE  Announced'
  BY StepType
\* A clean cache holds every write announced before the request arrived.
<1>1. ASSUME NEW r \in Requests, Hit(r)
      PROVE  Announced'
  BY <1>1 DEF Hit, Enter, Stale
<1>2. ASSUME NEW r \in Requests, StartReload(r) \/ JoinReload(r)
      PROVE  Announced'
  BY <1>2 DEF StartReload, JoinReload, Enter
<1>3. ASSUME NEW r \in Requests, ReadTable(r)
      PROVE  Announced'
  BY <1>3 DEF ReadTable
\* The rows are those of the table, so they hold every announced write.
<1>4. ASSUME NEW r \in Requests, ReloadDone(r)
      PROVE  Announced'
  BY <1>4 DEF ReloadDone, AnswerAll
<1>5. ASSUME NEW w \in Writers, Commit(w)
      PROVE  Announced'
  <2>1. version' \in Nat /\ version' > version
    BY <1>5 DEF Commit
  <2>2. request' = request /\ cache' = cache /\ dirty' = dirty /\ acked' = acked
    BY <1>5 DEF Commit
  <2>3. acked' <= version' /\ \A v \in Writers : writer'[v] <= version'
    BY <1>5, <2>1 DEF Commit
  <2>4. \A r \in Requests : request[r].at \in Waiting => request[r].since <= version'
    BY <2>1
  \* A write that is committed while rows are on their way disturbs.
  <2>5. ~disturbed' => ~disturbed /\ \A r \in Requests : request[r].at # "read"
    BY <1>5 DEF Commit
  <2> QED BY <2>2, <2>3, <2>4, <2>5
<1>6. ASSUME NEW w \in Writers, Invalidate(w)
      PROVE  Announced'
  BY <1>6 DEF Invalidate
<1>7. CASE Expire
  BY <1>7 DEF Expire
<1>8. CASE UNCHANGED vars
  BY <1>8 DEF vars
<1>9. ASSUME NEW r \in Requests, ReloadFails(r)
      PROVE  Announced'
  BY <1>9 DEF ReloadFails, AnswerAll
<1> QED BY <1>1, <1>2, <1>3, <1>4, <1>5, <1>6, <1>7, <1>8, <1>9 DEF Next, Step

\* The documented promise, on the condition under which the code keeps it.
THEOREM NextRequestIsCurrent == Spec => []UndisturbedRequestSeesWrite
<1>1. Announced => UndisturbedRequestSeesWrite
  BY DEF Announced, UndisturbedRequestSeesWrite
<1> QED BY <1>1, InitAnnounced, NextAnnounced, PTL DEF Spec
=============================================================================
