---------------------- MODULE ChecklistWeights_proofs ----------------------
(***************************************************************************)
(* Proofs about ChecklistWeights and Reporting, for any checklists, units,  *)
(* weights and uploads, and any number of rows.                             *)
(*                                                                         *)
(* Sums, averages and counts are computed by recursion over a set.  What is *)
(* said of them is shown by induction over the subsets of a finite set; the *)
(* sum over a checklist, by induction over its prefixes.  Both follow from  *)
(* well-founded orderings.                                                  *)
(***************************************************************************)
EXTENDS Reporting, FiniteSetTheorems, WellFoundedInduction, TLAPS

\* An upload in progress stays one.
LEMMA UploadTypes ==
  /\ NoUpload \in Uploads
  /\ \A u \in Uploads : [u EXCEPT !.at = "row"] \in Uploads
  /\ \A u \in Uploads : [u EXCEPT !.named = FALSE] \in Uploads
  /\ \A u \in Uploads : [u EXCEPT !.at = "weights", !.named = FALSE] \in Uploads
BY DEF NoUpload, Uploads

\* Removing the file and changing the row.
LEMMA UploadSteps ==
  ASSUME lost \in BOOLEAN, upload \in [Requests -> Uploads],
         NEW r \in Requests, UploadRemove(r) \/ UploadRow(r)
  PROVE  /\ lost' \in BOOLEAN
         /\ upload' \in [Requests -> Uploads]
         /\ \A x \in Requests : /\ upload'[x].file = upload[x].file
                                /\ upload'[x].at # "idle" => upload[x].at # "idle"
<1>1. CASE UploadRemove(r)
  <2>1. upload[r].named \in BOOLEAN /\ upload' = [upload EXCEPT ![r] = [upload[r] EXCEPT !.at = "row"]]
    BY <1>1 DEF UploadRemove, Uploads
  <2>2. lost' \in {lost, lost \/ upload[r].named}
    BY <1>1 DEF UploadRemove
  <2>3. upload' \in [Requests -> Uploads]
    BY <2>1, UploadTypes
  <2>4. upload[r].at # "idle" /\ [upload[r] EXCEPT !.at = "row"].file = upload[r].file
    BY <1>1 DEF UploadRemove, Uploads
  <2> QED BY <2>1, <2>2, <2>3, <2>4
<1>2. CASE UploadRow(r)
  <2>1. \A x \in Requests :
          [upload[x] EXCEPT !.at = IF x = r THEN "weights" ELSE @, !.named = FALSE] \in Uploads
    BY DEF Uploads
  <2>2. lost' \in BOOLEAN /\ upload' \in [Requests -> Uploads] /\ upload[r].at # "idle"
    BY <1>2, <2>1 DEF UploadRow
  <2>3. ASSUME NEW x \in Requests
        PROVE  /\ upload'[x].file = upload[x].file
               /\ x # r => upload'[x].at = upload[x].at
    BY <1>2 DEF UploadRow, Uploads
  <2> QED BY <2>2, <2>3
<1> QED BY <1>1, <1>2

LEMMA InitChecklist == Init => ChecklistInv
<1> SUFFICES ASSUME Init PROVE ChecklistInv
  OBVIOUS
<1>1. upload \in [Requests -> Uploads]
  BY DEF Init, NoUpload, Uploads
<1>2. status = "draft" /\ lost = FALSE
  BY DEF Init
<1> QED BY <1>1, <1>2 DEF ChecklistInv, DistributedFromItsChecklist

LEMMA NextChecklist == ChecklistInv /\ [Next]_vars => ChecklistInv'
<1> SUFFICES ASSUME ChecklistInv, [Next]_vars
             PROVE  ChecklistInv'
  OBVIOUS
<1> USE DEF ChecklistInv, DistributedFromItsChecklist
\* An upload that starts finds a draft.
<1>1. ASSUME NEW r \in Requests, NEW f \in Checklists, UploadCheck(r, f)
      PROVE  ChecklistInv'
  <2>1. Begun(f) \in Uploads
    BY DEF Begun, Uploads
  <2> QED BY <1>1, <2>1 DEF UploadCheck
\* An upload that changes the row was overtaken, unless the cycle is a draft.
<1>2. ASSUME NEW r \in Requests, UploadRemove(r) \/ UploadRow(r)
      PROVE  ChecklistInv'
  <2>1. status # "draft" => overtaken
    BY <1>2 DEF UploadRemove, UploadRow
  <2>2. status' = status /\ overtaken' = overtaken
    BY <1>2 DEF UploadRemove, UploadRow
  <2>3. lost' \in BOOLEAN /\ upload' \in [Requests -> Uploads]
    BY <1>2, UploadSteps
  <2> QED BY <2>1, <2>2, <2>3
<1>3. ASSUME NEW r \in Requests, UploadWeights(r) \/ UploadFails(r)
      PROVE  ChecklistInv'
  <2>1. upload' = [upload EXCEPT ![r] = NoUpload] /\ UNCHANGED <<status, file, lost, assigned, overtaken>>
    BY <1>3 DEF UploadWeights, UploadFails
  <2>2. NoUpload.at = "idle"
    BY DEF NoUpload
  <2> QED BY <2>1, <2>2, UploadTypes
<1>4. ASSUME NEW f \in Checklists, OtherUpload(f)
      PROVE  ChecklistInv'
  BY <1>4 DEF OtherUpload
<1>5. CASE Publish
  BY <1>5 DEF Publish
<1>6. CASE Distribute
  BY <1>6 DEF Distribute
\* Answers and validations leave the checklist and the rows' weights alone.
<1>7. ASSUME NEW k \in Rows,
             Submit(k) \/ Return(k) \/ (\E s \in Scores : Score(k, s))
               \/ SubmitForApproval(k) \/ Reject(k) \/ Approve(k)
      PROVE  ChecklistInv'
  <2>1. UNCHANGED <<status, file, lost, upload, assigned, overtaken>>
    BY <1>7 DEF Submit, Return, Score, SubmitForApproval, Reject, Approve, Decide
  <2> QED BY <2>1
<1>8. CASE UNCHANGED vars
  BY <1>8 DEF vars, rowVars
<1> QED BY <1>1, <1>2, <1>3, <1>4, <1>5, <1>6, <1>7, <1>8 DEF Next

\* The rows of a cycle are those of the checklist it shows, or of
\* QUESTION_BU_MAP if its file had been lost before the publication, unless an
\* upload overtook the publication (cycles.ts, upload and distribution).
THEOREM RowsOfTheChecklist == Spec => []DistributedFromItsChecklist
<1>1. ChecklistInv => DistributedFromItsChecklist
  BY DEF ChecklistInv
<1> QED BY <1>1, InitChecklist, NextChecklist, PTL DEF Spec

-----------------------------------------------------------------------------
(* Induction over numbers and over finite sets *)

\* A set of numbers with 0 that is closed under adding 1 has all of them.
LEMMA Induction ==
    ASSUME NEW N, 0 \in N, \A n \in Nat : n \in N => n + 1 \in N
    PROVE  \A n \in Nat : n \in N
<1> DEFINE Left == Nat \ N
<1> SUFFICES ASSUME Left # {} PROVE FALSE
    OBVIOUS
<1>1. PICK m \in Left : \A n \in Left : ~(<<n, m>> \in OpToRel(<, Nat))
    BY NatLessThanWellFounded, WFMin
<1>2. m \in Nat \ {0} /\ m - 1 \in N
    <2>1. m # 0
        OBVIOUS
    <2>2. m - 1 \in Nat /\ m - 1 < m
        BY <2>1
    <2>3. m - 1 \notin Left
        BY <1>1, <2>2 DEF OpToRel
    <2>4. QED
        BY <2>1, <2>2, <2>3
<1>3. QED
    BY <1>2

\* So has a set of subsets of a finite set that has each set whose parts, one
\* element less, it has.
LEMMA SubsetInduction ==
    ASSUME NEW S, IsFiniteSet(S), NEW T,
           \A s \in SUBSET S : (\A x \in s : s \ {x} \in T) => s \in T
    PROVE  \A s \in SUBSET S : s \in T
<1> DEFINE Left == {s \in SUBSET S : s \notin T}
<1> SUFFICES ASSUME Left # {} PROVE FALSE
    OBVIOUS
<1>1. PICK m \in Left : \A s \in Left : ~(<<s, m>> \in StrictSubsetOrdering(S))
    <2>1. Left \subseteq FiniteSubsetsOf(S)
        BY FS_FiniteSubsetsOfFinite
    <2>2. QED
        BY <2>1, FS_StrictSubsetOrderingWellFounded, WFMin
<1>2. ASSUME NEW x \in m
      PROVE  m \ {x} \in T
    <2>1. m \ {x} \subseteq m /\ m \ {x} # m
        OBVIOUS
    <2>2. <<m \ {x}, m>> \in (SUBSET S) \X (SUBSET S)
        OBVIOUS
    <2>3. <<m \ {x}, m>> \in StrictSubsetOrdering(S)
        BY <2>1, <2>2 DEF StrictSubsetOrdering
    <2>4. QED
        BY <1>1, <2>3
<1>3. QED
    BY <1>1, <1>2

\* it is the fold of g over each set of S, which begins with the element that c
\* chooses of the set.
Folds(it, b, g, c, S) ==
    \A s \in SUBSET S : it[s] = IF s = {} THEN b ELSE g[<<c[s], it[s \ {c[s]}]>>]

\* There is such a fold: CHOOSE, by which the community modules define one,
\* chooses something.
LEMMA FoldExists ==
    ASSUME NEW S, IsFiniteSet(S), NEW V, NEW b \in V, NEW g \in [S \X V -> V],
           NEW c \in [(SUBSET S) \ {{}} -> S], \A s \in (SUBSET S) \ {{}} : c[s] \in s
    PROVE  \E it \in [SUBSET S -> V] : Folds(it, b, g, c, S)
<1> DEFINE Upto(n) == {s \in SUBSET S : Cardinality(s) <= n}
           FoldsTo(it, n) == \A s \in Upto(n) :
               it[s] = IF s = {} THEN b ELSE g[<<c[s], it[s \ {c[s]}]>>]
           N == {n \in Nat : \E it \in [Upto(n) -> V] : FoldsTo(it, n)}
<1>1. \A s \in SUBSET S : IsFiniteSet(s) /\ Cardinality(s) \in Nat
    BY FS_Subset, FS_CardinalityType
<1>2. \A s \in (SUBSET S) \ {{}} : Cardinality(s \ {c[s]}) = Cardinality(s) - 1
    BY <1>1, FS_RemoveElement
<1>3. 0 \in N
    <2> DEFINE it == [s \in Upto(0) |-> b]
    <2>1. \A s \in Upto(0) : s = {}
        BY <1>1, FS_EmptySet
    <2>2. it \in [Upto(0) -> V] /\ FoldsTo(it, 0)
        BY <2>1
    <2>3. QED
        BY <2>2
<1>4. ASSUME NEW n \in Nat, n \in N
      PROVE  n + 1 \in N
    <2>1. PICK it \in [Upto(n) -> V] : FoldsTo(it, n)
        BY <1>4
    <2> DEFINE next == [s \in Upto(n + 1) |->
                           IF s \in Upto(n) THEN it[s] ELSE g[<<c[s], it[s \ {c[s]}]>>]]
    <2>2. \A s \in Upto(n + 1) : s # {} => s \ {c[s]} \in Upto(n) /\ c[s] \in S
        BY <1>1, <1>2
    <2>3. \A s \in Upto(n + 1) : s = {} => s \in Upto(n)
        BY FS_EmptySet
    <2>4. next \in [Upto(n + 1) -> V]
        BY <2>2, <2>3
    <2>5. \A s \in Upto(n) : s \in Upto(n + 1)
        BY <1>1
    <2>6. ASSUME NEW s \in Upto(n + 1)
          PROVE  next[s] = IF s = {} THEN b ELSE g[<<c[s], next[s \ {c[s]}]>>]
        <3>1. CASE s = {}
            BY <2>1, <2>3, <3>1
        <3>2. CASE s # {}
            <4>1. next[s \ {c[s]}] = it[s \ {c[s]}]
                BY <2>2, <2>5, <3>2
            <4>2. CASE s \in Upto(n)
                <5>1. it[s] = g[<<c[s], it[s \ {c[s]}]>>]
                    BY <2>1, <3>2, <4>2
                <5>2. next[s] = it[s]
                    BY <4>2
                <5>3. QED
                    BY <3>2, <4>1, <5>1, <5>2
            <4>3. CASE s \notin Upto(n)
                BY <3>2, <4>1, <4>3
            <4>4. QED
                BY <4>2, <4>3
        <3>3. QED
            BY <3>1, <3>2
    <2>7. QED
        <3> HIDE DEF next, Upto
        <3>1. FoldsTo(next, n + 1) /\ n + 1 \in Nat
            BY <2>6
        <3>2. QED
            BY <2>4, <3>1
<1>5. Cardinality(S) \in N
    BY <1>1, <1>3, <1>4, Induction
<1>6. Upto(Cardinality(S)) = SUBSET S
    BY FS_Subset
<1>7. QED
    BY <1>5, <1>6 DEF Folds

-----------------------------------------------------------------------------
(* Sums *)

Chosen(s) == CHOOSE x \in s : TRUE

\* it has the sum of f over each set of S.
Sums(it, f, S) ==
    it = [s \in SUBSET S |-> IF s = {} THEN 0 ELSE f[Chosen(s)] + it[s \ {Chosen(s)}]]

SumOf(f, S) == MapThenSumSet(LAMBDA x : f[x], S)

\* There are sums of numbers.
LEMMA SumsExist ==
    ASSUME NEW S, IsFiniteSet(S), NEW f \in [S -> Int]
    PROVE  \E it \in [SUBSET S -> Int] : Sums(it, f, S)
<1> DEFINE g == [p \in S \X Int |-> f[p[1]] + p[2]]
           c == [s \in (SUBSET S) \ {{}} |-> Chosen(s)]
<1>1. g \in [S \X Int -> Int]
    OBVIOUS
<1>2. c \in [(SUBSET S) \ {{}} -> S] /\ \A s \in (SUBSET S) \ {{}} : c[s] \in s
    BY DEF Chosen
<1>3. PICK it \in [SUBSET S -> Int] : Folds(it, 0, g, c, S)
    <2> HIDE DEF g, c
    <2>1. 0 \in Int
        OBVIOUS
    <2>2. QED
        BY <1>1, <1>2, <2>1, FoldExists
<1>4. ASSUME NEW s \in SUBSET S
      PROVE  it[s] = IF s = {} THEN 0 ELSE f[Chosen(s)] + it[s \ {Chosen(s)}]
    <2>1. CASE s = {}
        BY <1>3, <2>1 DEF Folds
    <2>2. CASE s # {}
        <3>1. c[s] = Chosen(s) /\ Chosen(s) \in S /\ s \ {Chosen(s)} \in SUBSET S
            BY <1>2, <2>2
        <3>2. g[<<Chosen(s), it[s \ {Chosen(s)}]>>] = f[Chosen(s)] + it[s \ {Chosen(s)}]
            BY <3>1
        <3>3. QED
            BY <1>3, <2>2, <3>1, <3>2 DEF Folds
    <2>3. QED
        BY <2>1, <2>2
<1>5. QED
    BY <1>3, <1>4 DEF Sums

\* Whatever has the sums has the same ones, on a subset too.
LEMMA SumsAgree ==
    ASSUME NEW S, IsFiniteSet(S), NEW f, NEW g, NEW it, Sums(it, f, S),
           NEW R \in SUBSET S, NEW ir, Sums(ir, g, R), \A x \in R : f[x] = g[x]
    PROVE  it[R] = ir[R]
<1> DEFINE T == {s \in SUBSET R : it[s] = ir[s]}
<1>1. ASSUME NEW s \in SUBSET R, \A x \in s : s \ {x} \in T
      PROVE  s \in T
    <2>1. /\ it[s] = IF s = {} THEN 0 ELSE f[Chosen(s)] + it[s \ {Chosen(s)}]
          /\ ir[s] = IF s = {} THEN 0 ELSE g[Chosen(s)] + ir[s \ {Chosen(s)}]
        BY DEF Sums
    <2>2. s # {} => Chosen(s) \in s
        BY DEF Chosen
    <2>3. QED
        BY <1>1, <2>1, <2>2
<1>2. IsFiniteSet(R)
    BY FS_Subset
<1>3. \A s \in SUBSET R : s \in T
    <2> HIDE DEF T
    <2>1. QED
        BY <1>1, <1>2, SubsetInduction
<1>4. QED
    BY <1>3

\* Sums over a finite set are those it has.
LEMMA SumIs ==
    ASSUME NEW S, IsFiniteSet(S), NEW f \in [S -> Int]
    PROVE  \A it : Sums(it, f, S) => it[S] = SumOf(f, S)
<1> SUFFICES ASSUME NEW it, Sums(it, f, S)
             PROVE  it[S] = SumOf(f, S)
    OBVIOUS
<1> DEFINE chosen == CHOOSE ir : Sums(ir, f, S)
<1>1. SumOf(f, S) = chosen[S]
    BY DEF SumOf, Sums, Chosen, MapThenSumSet, MapThenFoldSet
<1>2. Sums(chosen, f, S)
    OBVIOUS
<1> HIDE DEF chosen
<1>3. QED
    BY <1>1, <1>2, SumsAgree

\* A sum does not depend on the order of its summands.
AddsUp(it, f, S) == \A s \in SUBSET S : \A x \in s : it[s] = f[x] + it[s \ {x}]

LEMMA SumsStep ==
    ASSUME NEW S, IsFiniteSet(S), NEW f \in [S -> Int], NEW it \in [SUBSET S -> Int], Sums(it, f, S)
    PROVE  AddsUp(it, f, S)
<1> DEFINE T == {s \in SUBSET S : \A x \in s : it[s] = f[x] + it[s \ {x}]}
<1>1. ASSUME NEW s \in SUBSET S, \A x \in s : s \ {x} \in T
      PROVE  s \in T
    <2> SUFFICES ASSUME NEW x \in s
                 PROVE  it[s] = f[x] + it[s \ {x}]
        OBVIOUS
    <2> DEFINE c == Chosen(s)
    <2>1. c \in s
        BY DEF Chosen
    <2>2. it[s] = f[c] + it[s \ {c}]
        BY DEF Sums
    <2> HIDE DEF c
    <2>3. CASE x = c
        BY <2>2, <2>3
    <2>4. CASE x # c
        <3> DEFINE rest == it[(s \ {x}) \ {c}]
        <3>1. (s \ {c}) \ {x} = (s \ {x}) \ {c}
            OBVIOUS
        <3>2. it[s \ {c}] = f[x] + rest
            BY <1>1, <2>1, <2>4, <3>1
        <3>3. it[s \ {x}] = f[c] + rest
            BY <1>1, <2>1, <2>4
        <3>4. f[x] \in Int /\ f[c] \in Int /\ rest \in Int
            BY <2>1
        <3> HIDE DEF rest
        <3>5. QED
            BY <2>2, <3>2, <3>3, <3>4
    <2>5. QED
        BY <2>3, <2>4
<1>2. \A s \in SUBSET S : s \in T
    <2> HIDE DEF T
    <2>1. QED
        BY <1>1, SubsetInduction
<1>3. QED
    BY <1>2 DEF AddsUp

\* The sum over a subset is the one that was taken on the way.
LEMMA SumPart ==
    ASSUME NEW S, IsFiniteSet(S), NEW f \in [S -> Int], NEW it, Sums(it, f, S), NEW R \in SUBSET S
    PROVE  it[R] = SumOf(f, R)
<1> DEFINE g == [x \in R |-> f[x]]
<1>1. IsFiniteSet(R) /\ g \in [R -> Int] /\ \A x \in R : f[x] = g[x]
    BY FS_Subset
<1> HIDE DEF g
<1>2. PICK ir : Sums(ir, g, R)
    BY <1>1, SumsExist
<1>3. Sums(ir, f, R)
    <2>1. \A s \in SUBSET R : s # {} => Chosen(s) \in R
        BY DEF Chosen
    <2>2. QED
        BY <1>1, <1>2, <2>1 DEF Sums
<1>4. PICK jr : jr = CHOOSE kr : Sums(kr, f, R)
    OBVIOUS
<1>5. Sums(jr, f, R)
    BY <1>3, <1>4
<1>6. SumOf(f, R) = jr[R]
    BY <1>4 DEF SumOf, Sums, Chosen, MapThenSumSet, MapThenFoldSet
<1>7. QED
    BY <1>5, <1>6, SumsAgree

\* Summands and sums between multiples of others, and of their sum.
LEMMA SumBetween ==
    ASSUME NEW S, IsFiniteSet(S), NEW f \in [S -> Int], NEW g \in [S -> Int],
           NEW low \in Int, NEW high \in Int,
           \A x \in S : low * f[x] <= g[x] /\ g[x] <= high * f[x]
    PROVE  low * SumOf(f, S) <= SumOf(g, S) /\ SumOf(g, S) <= high * SumOf(f, S)
<1>1. PICK it \in [SUBSET S -> Int] : Sums(it, f, S)
    BY SumsExist
<1>2. PICK jt \in [SUBSET S -> Int] : Sums(jt, g, S)
    BY SumsExist
<1>3. AddsUp(it, f, S)
    BY <1>1, SumsStep
<1>4. AddsUp(jt, g, S)
    BY <1>2, SumsStep
<1> DEFINE T == {s \in SUBSET S : low * it[s] <= jt[s] /\ jt[s] <= high * it[s]}
<1>5. ASSUME NEW s \in SUBSET S, \A x \in s : s \ {x} \in T
      PROVE  s \in T
    <2>1. CASE s = {}
        BY <1>1, <1>2, <2>1 DEF Sums
    <2>2. CASE s # {}
        <3>1. PICK x \in s : TRUE
            BY <2>2
        <3> DEFINE a == it[s \ {x}]
                   b == jt[s \ {x}]
        <3>2. it[s] = f[x] + a
            BY <1>3 DEF AddsUp
        <3>3. jt[s] = g[x] + b
            BY <1>4 DEF AddsUp
        <3>4. low * a <= b /\ b <= high * a /\ a \in Int /\ b \in Int
            BY <1>5
        <3>5. f[x] \in Int /\ g[x] \in Int
            OBVIOUS
        <3> HIDE DEF a, b
        <3>6. low * (f[x] + a) = low * f[x] + low * a /\ high * (f[x] + a) = high * f[x] + high * a
            BY <3>4, <3>5
        <3>7. low * f[x] \in Int /\ low * a \in Int /\ high * f[x] \in Int /\ high * a \in Int
            BY <3>4, <3>5
        <3>8. QED
            BY <3>2, <3>3, <3>4, <3>5, <3>6, <3>7
    <2>3. QED
        BY <2>1, <2>2
<1>6. \A s \in SUBSET S : s \in T
    <2> HIDE DEF T
    <2>1. QED
        BY <1>5, SubsetInduction
<1>7. QED
    BY <1>1, <1>2, <1>6, SumIs

-----------------------------------------------------------------------------
(* The rows of a checklist *)

\* The image of a finite set is finite.
LEMMA ImageFinite ==
    ASSUME NEW S, IsFiniteSet(S), NEW f, DOMAIN f = S
    PROVE  IsFiniteSet({f[x] : x \in S})
<1> DEFINE T == {f[x] : x \in S}
           g == [x \in S |-> f[x]]
<1>1. g \in Surjection(S, T)
    BY DEF Surjection
<1>2. QED
    BY <1>1, FS_Surjection

\* Numbers have a least one among them.
LEMMA LeastOf ==
    ASSUME NEW S, S \subseteq Nat, S # {}
    PROVE  Min(S) \in S /\ \A n \in S : Min(S) <= n
<1>1. PICK m \in S : \A n \in S : ~(<<n, m>> \in OpToRel(<, Nat))
    BY NatLessThanWellFounded, WFMin
<1>2. ASSUME NEW n \in S
      PROVE  m <= n
    <2>1. m \in Nat /\ n \in Nat
        OBVIOUS
    <2>2. ~(n < m)
        BY <1>1, <2>1 DEF OpToRel
    <2>3. QED
        BY <2>1, <2>2
<1>3. QED
    BY <1>1, <1>2 DEF Min

LEMMA ResolvedCode ==
    ASSUME NEW code \in Codes, NEW risk \in Risks PROVE Resolved(code, risk) \in Codes
BY ChecklistAssumption DEF Resolved, Codes

\* Rows that can be distributed.
RowTable(rows) ==
    /\ rows = [k \in DOMAIN rows |-> rows[k]]
    /\ IsFiniteSet(DOMAIN rows)
    /\ DOMAIN rows \subseteq Questions \X Codes \X Risks
    /\ \A k \in DOMAIN rows : rows[k] \in NoWeight .. 2 * Whole

\* A checklist that can be read yields rows that can be distributed ...
LEMMA RowsOfType == ASSUME NEW f \in Checklists PROVE RowTable(RowsOf(f))
<1> DEFINE keys == {RowKey(f[i]) : i \in DOMAIN f}
           same(k) == {i \in DOMAIN f : RowKey(f[i]) = k}
<1>1. f \in Seq(Entries)
    BY ChecklistAssumption
<1>2. DOMAIN f = 1 .. Len(f) /\ Len(f) \in Nat /\ \A i \in DOMAIN f : f[i] \in Entries
    BY <1>1
<1>3. IsFiniteSet(keys)
    <2> DEFINE g == [i \in DOMAIN f |-> RowKey(f[i])]
    <2>1. IsFiniteSet(DOMAIN f)
        BY <1>2, FS_Interval
    <2>2. DOMAIN g = DOMAIN f /\ keys = {g[i] : i \in DOMAIN f}
        OBVIOUS
    <2> HIDE DEF g, keys
    <2>3. QED
        BY <2>1, <2>2, ImageFinite
<1>4. ASSUME NEW i \in DOMAIN f
      PROVE  RowKey(f[i]) \in Questions \X Codes \X Risks
    <2>1. /\ f[i].question \in Questions /\ f[i].code \in Codes /\ f[i].risk \in Risks
        BY <1>2 DEF Entries
    <2>2. QED
        BY <2>1, ResolvedCode DEF RowKey
<1>5. ASSUME NEW k \in keys
      PROVE  f[Min(same(k))].weight \in NoWeight .. 2 * Whole
    <2>1. same(k) \subseteq Nat /\ same(k) # {}
        BY <1>2
    <2>2. Min(same(k)) \in DOMAIN f
        BY <2>1, LeastOf
    <2>3. QED
        BY <1>2, <2>2 DEF Entries
<1>6. RowsOf(f) = [k \in keys |-> f[Min(same(k))].weight]
    BY DEF RowsOf
<1> HIDE DEF same
<1>7. QED
    BY <1>3, <1>4, <1>5, <1>6 DEF RowTable

LEMMA Share == ASSUME NEW a \in Nat, NEW n \in Nat \ {0} PROVE a \div n \in 0 .. a
<1> DEFINE d == a \div n
<1>1. d \in Int /\ n * d <= a /\ a < n * d + n
    OBVIOUS
<1> HIDE DEF d
<1>2. d >= 0
    BY <1>1
<1>3. d <= n * d
    BY <1>1, <1>2
<1>4. QED
    BY <1>1, <1>2, <1>3 DEF d

\* ... and so does QUESTION_BU_MAP.
LEMMA FallbackType == RowTable(FallbackRows)
<1> DEFINE about(q) == {<<q, c, NoRisk>> : c \in ToSet(FallbackCodes[q])}
           keys == UNION {about(q) : q \in Questions}
<1>1. ASSUME NEW q \in Questions
      PROVE  /\ FallbackCodes[q] \in Seq(Codes)
             /\ DOMAIN FallbackCodes[q] = 1 .. Len(FallbackCodes[q])
             /\ Len(FallbackCodes[q]) \in Nat
    BY ChecklistAssumption
<1>2. ASSUME NEW q \in Questions
      PROVE  IsFiniteSet(about(q))
    <2> DEFINE g == [i \in DOMAIN FallbackCodes[q] |-> <<q, FallbackCodes[q][i], NoRisk>>]
    <2>1. IsFiniteSet(DOMAIN FallbackCodes[q])
        BY <1>1, FS_Interval
    <2>2. DOMAIN g = DOMAIN FallbackCodes[q] /\ about(q) = {g[i] : i \in DOMAIN FallbackCodes[q]}
        BY DEF ToSet
    <2> HIDE DEF g, about
    <2>3. QED
        BY <2>1, <2>2, ImageFinite
<1>3. IsFiniteSet(keys)
    <2> DEFINE g == [q \in Questions |-> about(q)]
    <2>1. IsFiniteSet({about(q) : q \in Questions})
        <3>1. DOMAIN g = Questions /\ {about(q) : q \in Questions} = {g[q] : q \in Questions}
            OBVIOUS
        <3>2. IsFiniteSet(Questions)
            BY ChecklistAssumption
        <3> HIDE DEF g, about
        <3>3. QED
            BY <3>1, <3>2, ImageFinite
    <2> HIDE DEF about
    <2>2. QED
        BY <1>2, <2>1, FS_UNION
<1>4. ASSUME NEW k \in keys
      PROVE  /\ k \in Questions \X Codes \X Risks
             /\ Whole \div Len(FallbackCodes[k[1]]) \in NoWeight .. 2 * Whole
    <2>1. PICK q \in Questions : \E i \in DOMAIN FallbackCodes[q] :
                                   k = <<q, FallbackCodes[q][i], NoRisk>>
        <3>1. PICK q \in Questions : k \in about(q)
            OBVIOUS
        <3>2. QED
            BY <3>1 DEF ToSet
    <2>5. PICK i \in DOMAIN FallbackCodes[q] : k = <<q, FallbackCodes[q][i], NoRisk>>
        BY <2>1
    <2>2. FallbackCodes[q][i] \in Codes /\ Len(FallbackCodes[q]) \in Nat \ {0}
        BY <1>1
    <2>3. Whole \div Len(FallbackCodes[q]) \in 0 .. Whole
        BY <2>2, ChecklistAssumption, Share
    <2>4. QED
        BY <2>2, <2>3, <2>5, ChecklistAssumption DEF NoWeight
<1>5. FallbackRows = [k \in keys |-> Whole \div Len(FallbackCodes[k[1]])]
    BY DEF FallbackRows
<1> HIDE DEF keys
<1>6. QED
    BY <1>3, <1>4, <1>5 DEF RowTable

ResponseStatus == {"draft", "submitted", "returned"}

\* What is being uploaded, shown and distributed.
CycleType ==
    /\ status \in {"draft", "published", "distributed"}
    /\ file \in Checklists \cup {NoFile}
    /\ lost \in BOOLEAN
    /\ upload \in [Requests -> Uploads]
    /\ overtaken \in BOOLEAN
    /\ \A r \in Requests : upload[r].at # "idle" => upload[r].file # NoFile
    /\ status # "draft" => file # NoFile

\* A row without a validation is one nobody has answered or scored.
AnswerType ==
    /\ RowTable(assigned)
    /\ response \in [Rows -> ResponseStatus]
    /\ validation \in [Rows -> ValidationStatus]
    /\ score \in [Rows -> Scores \cup {0}]
    /\ \A k \in Rows : validation[k] = "none" => response[k] = "draft" /\ score[k] = 0

LEMMA InitRows == Init => CycleType /\ AnswerType
<1> SUFFICES ASSUME Init PROVE CycleType /\ AnswerType
    OBVIOUS
<1>1. CycleType
    BY DEF Init, CycleType, NoUpload, Uploads
<1>2. assigned = [k \in {} |-> 0] /\ response = assigned
      /\ validation = assigned /\ score = assigned
    BY DEF Init
<1>3. Rows = {}
    BY <1>2 DEF Rows
<1>4. AnswerType
    BY <1>2, <1>3, FS_EmptySet DEF AnswerType, RowTable, Rows
<1>5. QED
    BY <1>1, <1>4

LEMMA NextCycle == CycleType /\ [Next]_vars => CycleType'
<1> SUFFICES ASSUME CycleType, [Next]_vars
             PROVE  CycleType'
    OBVIOUS
<1> USE DEF CycleType
<1>1. ASSUME NEW r \in Requests, NEW f \in Checklists, UploadCheck(r, f)
      PROVE  CycleType'
    <2>1. Begun(f) \in Uploads /\ Begun(f).file # NoFile
        BY ChecklistAssumption DEF Begun, Uploads
    <2>2. QED
        BY <1>1, <2>1 DEF UploadCheck
<1>2. ASSUME NEW r \in Requests, UploadRemove(r) \/ UploadRow(r)
      PROVE  CycleType'
    <2>1. /\ lost' \in BOOLEAN
          /\ upload' \in [Requests -> Uploads]
          /\ \A x \in Requests : /\ upload'[x].file = upload[x].file
                                 /\ upload'[x].at # "idle" => upload[x].at # "idle"
        <3>1. lost \in BOOLEAN /\ upload \in [Requests -> Uploads]
            OBVIOUS
        <3> HIDE DEF CycleType
        <3>2. QED
            BY <1>2, <3>1, UploadSteps
    <2>2. upload[r].at # "idle" /\ file' \in {file, upload[r].file} /\ status' = status
          /\ overtaken' = overtaken
        BY <1>2 DEF UploadRemove, UploadRow
    <2>3. upload[r].file \in Checklists \cup {NoFile}
        BY DEF Uploads
    <2>4. \A x \in Requests : upload'[x].at # "idle" => upload'[x].file # NoFile
        BY <2>1
    <2>5. file' \in Checklists \cup {NoFile} /\ (status # "draft" => file' # NoFile)
        BY <2>2, <2>3
    <2>6. QED
        BY <2>1, <2>2, <2>4, <2>5
<1>3. ASSUME NEW r \in Requests, UploadWeights(r) \/ UploadFails(r)
      PROVE  CycleType'
    <2>1. upload' = [upload EXCEPT ![r] = NoUpload] /\ UNCHANGED <<status, file, lost, overtaken>>
        BY <1>3 DEF UploadWeights, UploadFails
    <2>2. NoUpload.at = "idle"
        BY DEF NoUpload
    <2>3. QED
        BY <2>1, <2>2, UploadTypes
<1>4. CASE Publish
    BY <1>4 DEF Publish
<1>5. CASE Distribute
    BY <1>5 DEF Distribute
<1>6. ASSUME UNCHANGED <<status, file, lost, upload, overtaken>>
      PROVE  CycleType'
    BY <1>6
<1>7. ASSUME NEW k \in Rows,
             Submit(k) \/ Return(k) \/ (\E s \in Scores : Score(k, s))
               \/ SubmitForApproval(k) \/ Reject(k) \/ Approve(k)
      PROVE  CycleType'
    BY <1>6, <1>7 DEF Submit, Return, Score, SubmitForApproval, Reject, Approve, Decide
<1>8. QED
    BY <1>1, <1>2, <1>3, <1>4, <1>5, <1>6, <1>7 DEF Next, vars, OtherUpload

LEMMA NextAnswers == CycleType /\ AnswerType /\ [Next]_vars => AnswerType'
<1> SUFFICES ASSUME CycleType, AnswerType, [Next]_vars
             PROVE  AnswerType'
    OBVIOUS
<1>1. ASSUME UNCHANGED <<assigned, rowVars>>
      PROVE  AnswerType'
    BY <1>1 DEF AnswerType, rowVars, Rows
<1>2. CASE Distribute
    <2>1. file \in Checklists
        BY <1>2 DEF Distribute, CycleType
    <2>2. RowTable(assigned')
        BY <1>2, <2>1, RowsOfType, FallbackType DEF Distribute, RowsFor
    <2>3. /\ response' = [k \in Rows' |-> "draft"] /\ validation' = [k \in Rows' |-> "none"]
          /\ score' = [k \in Rows' |-> 0]
        BY <1>2 DEF Distribute, Rows
    <2>4. QED
        BY <2>2, <2>3 DEF AnswerType, ResponseStatus, ValidationStatus
<1>3. ASSUME NEW k \in Rows, UNCHANGED assigned,
             NEW a \in ResponseStatus, NEW v \in ValidationStatus \ {"none"},
             NEW s \in Scores \cup {0},
             response' \in {response, [response EXCEPT ![k] = a]},
             validation' = [validation EXCEPT ![k] = v],
             score' \in {score, [score EXCEPT ![k] = s]}
      PROVE  AnswerType'
    BY <1>3 DEF AnswerType, Rows
<1>4. ASSUME NEW k \in Rows, Submit(k)
      PROVE  AnswerType'
    <2> DEFINE v == IF validation[k] \in {"pending_approval", "closed"} THEN validation[k]
                    ELSE "in_review"
    <2>1. v \in ValidationStatus \ {"none"} /\ "submitted" \in ResponseStatus
          /\ 0 \in Scores \cup {0}
        BY DEF ValidationStatus, ResponseStatus
    <2>2. /\ response' = [response EXCEPT ![k] = "submitted"]
          /\ validation' = [validation EXCEPT ![k] = v]
          /\ UNCHANGED <<assigned, score>>
        BY <1>4 DEF Submit
    <2> HIDE DEF v
    <2>3. QED
        BY <1>3, <2>1, <2>2
<1>5. ASSUME NEW k \in Rows, Return(k)
      PROVE  AnswerType'
    <2> DEFINE v == IF validation[k] = "in_review" THEN "returned" ELSE validation[k]
    <2>1. validation[k] # "none"
        BY <1>5 DEF Return, AnswerType
    <2>2. v \in ValidationStatus \ {"none"} /\ "returned" \in ResponseStatus
          /\ 0 \in Scores \cup {0}
        BY <2>1 DEF AnswerType, ValidationStatus, ResponseStatus
    <2>3. /\ response' = [response EXCEPT ![k] = "returned"]
          /\ validation' = [validation EXCEPT ![k] = v]
          /\ UNCHANGED <<assigned, score>>
        BY <1>5 DEF Return
    <2> HIDE DEF v
    <2>4. QED
        BY <1>3, <2>2, <2>3
<1>6. ASSUME NEW k \in Rows, NEW s \in Scores, Score(k, s)
      PROVE  AnswerType'
    <2>1. validation[k] \in ValidationStatus \ {"none"} /\ response[k] \in ResponseStatus
        BY <1>6 DEF Score, AnswerType
    <2>2. validation' = [validation EXCEPT ![k] = validation[k]]
        BY <1>6 DEF Score, AnswerType
    <2>3. QED
        BY <1>3, <1>6, <2>1, <2>2 DEF Score
<1>7. ASSUME NEW k \in Rows, SubmitForApproval(k) \/ Reject(k) \/ Approve(k)
      PROVE  AnswerType'
    <2>1. PICK v \in ValidationStatus \ {"none"} : validation' = [validation EXCEPT ![k] = v]
        BY <1>7 DEF SubmitForApproval, Reject, Approve, Decide, ValidationStatus
    <2>2. "draft" \in ResponseStatus /\ 0 \in Scores \cup {0}
          /\ UNCHANGED <<assigned, response, score>>
        BY <1>7 DEF SubmitForApproval, Reject, Approve, Decide, ResponseStatus
    <2>3. QED
        BY <1>3, <2>1, <2>2
<1>8. ASSUME NEW f \in Checklists,
             OtherUpload(f) \/ \E r \in Requests : UploadCheck(r, f)
      PROVE  AnswerType'
    BY <1>1, <1>8 DEF UploadCheck, OtherUpload
<1>9. CASE Publish
    BY <1>1, <1>9 DEF Publish
<1>10. CASE UNCHANGED vars
    BY <1>1, <1>10 DEF vars
<1>11. ASSUME NEW r \in Requests,
              UploadRemove(r) \/ UploadRow(r) \/ UploadWeights(r) \/ UploadFails(r)
       PROVE  AnswerType'
    BY <1>1, <1>11 DEF UploadRemove, UploadRow, UploadWeights, UploadFails
<1>12. QED
    BY <1>2, <1>4, <1>5, <1>6, <1>7, <1>8, <1>9, <1>10, <1>11 DEF Next

LEMMA RowsInvariance == Spec => [](CycleType /\ AnswerType)
<1>1. (CycleType /\ AnswerType) /\ [Next]_vars => (CycleType /\ AnswerType)'
    BY NextCycle, NextAnswers
<1>2. QED
    BY <1>1, InitRows, PTL DEF Spec

-----------------------------------------------------------------------------
(* The consolidated score *)

LEMMA RowWeightType == AnswerType => \A k \in Rows : RowWeight(k) \in Nat
BY ChecklistAssumption DEF AnswerType, RowTable, Rows, RowWeight, NoWeight

LEMMA ScoreType == AnswerType => \A k \in Rows : score[k] # 0 => score[k] \in 1 .. 4
BY ChecklistAssumption DEF AnswerType

\* Of rows with scores one has the lowest, and one the highest.
LEMMA Extremes ==
    ASSUME NEW S, S # {}, NEW f \in [S -> 1 .. 4]
    PROVE  \E low, high \in S : \A k \in S : f[low] <= f[k] /\ f[k] <= f[high]
<1>1. \E low \in S : \A k \in S : f[low] <= f[k]
    <2>1. CASE \E k \in S : f[k] = 1
        BY <2>1
    <2>2. CASE ~(\E k \in S : f[k] = 1) /\ \E k \in S : f[k] = 2
        BY <2>2
    <2>3. CASE ~(\E k \in S : f[k] \in {1, 2}) /\ \E k \in S : f[k] = 3
        BY <2>3
    <2>4. CASE \A k \in S : f[k] = 4
        BY <2>4
    <2>5. QED
        BY <2>1, <2>2, <2>3, <2>4
<1>2. \E high \in S : \A k \in S : f[k] <= f[high]
    <2>1. CASE \E k \in S : f[k] = 4
        BY <2>1
    <2>2. CASE ~(\E k \in S : f[k] = 4) /\ \E k \in S : f[k] = 3
        BY <2>2
    <2>3. CASE ~(\E k \in S : f[k] \in {4, 3}) /\ \E k \in S : f[k] = 2
        BY <2>3
    <2>4. CASE \A k \in S : f[k] = 1
        BY <2>4
    <2>5. QED
        BY <2>1, <2>2, <2>3, <2>4
<1>3. QED
    BY <1>1, <1>2

LEMMA Multiples ==
    ASSUME NEW a \in Int, NEW b \in Int, NEW w \in Nat, a <= b
    PROVE  a * w <= b * w /\ a * w \in Int /\ b * w \in Int
OBVIOUS

\* The sums of the overview are sums of numbers.
LEMMA WeightedIsSum ==
    ASSUME AnswerType, NEW q
    PROVE  /\ IsFiniteSet(Scored(q))
           /\ ScoredWeight(q) = SumOf([k \in Scored(q) |-> RowWeight(k)], Scored(q))
           /\ WeightedScores(q) = SumOf([k \in Scored(q) |-> score[k] * RowWeight(k)], Scored(q))
<1> DEFINE S == Scored(q)
           f == [k \in S |-> RowWeight(k)]
           g == [k \in S |-> score[k] * RowWeight(k)]
<1>1. S \subseteq Rows /\ IsFiniteSet(S) /\ \A k \in S : score[k] \in 1 .. 4
    BY ScoreType, FS_Subset DEF Scored, Answered, RowsAbout, AnswerType, RowTable, Rows
<1>2. f \in [S -> Int] /\ g \in [S -> Int]
    BY <1>1, RowWeightType
<1>3. \A s \in SUBSET S : s # {} => Chosen(s) \in S
    BY DEF Chosen
<1>4. ScoredWeight(q) = SumOf(f, S)
    <2> DEFINE IsIt(it) == it = [s \in SUBSET S |-> IF s = {} THEN 0
                                   ELSE RowWeight(Chosen(s)) + it[s \ {Chosen(s)}]]
               chosen == CHOOSE it : IsIt(it)
    <2>1. ScoredWeight(q) = chosen[S]
        BY DEF ScoredWeight, MapThenSumSet, MapThenFoldSet, Chosen
    <2>2. \A it : IsIt(it) <=> Sums(it, f, S)
        BY <1>3 DEF Sums
    <2> HIDE DEF IsIt, f
    <2>3. IsIt(chosen)
        BY <1>1, <1>2, <2>2, SumsExist
    <2> HIDE DEF chosen
    <2>4. QED
        BY <1>1, <1>2, <2>1, <2>2, <2>3, SumIs
<1>5. WeightedScores(q) = SumOf(g, S)
    <2> DEFINE IsIt(it) == it = [s \in SUBSET S |-> IF s = {} THEN 0
                                   ELSE score[Chosen(s)] * RowWeight(Chosen(s))
                                     + it[s \ {Chosen(s)}]]
               chosen == CHOOSE it : IsIt(it)
    <2>1. WeightedScores(q) = chosen[S]
        BY DEF WeightedScores, MapThenSumSet, MapThenFoldSet, Chosen
    <2>2. \A it : IsIt(it) <=> Sums(it, g, S)
        BY <1>3 DEF Sums
    <2> HIDE DEF IsIt, g
    <2>3. IsIt(chosen)
        BY <1>1, <1>2, <2>2, SumsExist
    <2> HIDE DEF chosen
    <2>4. QED
        BY <1>1, <1>2, <2>1, <2>2, <2>3, SumIs
<1>6. QED
    BY <1>1, <1>4, <1>5

LEMMA InConsolidatedRange == AnswerType => ConsolidatedInRange
<1> SUFFICES ASSUME AnswerType, NEW q \in Questions, Scored(q) # {}
             PROVE  \E low, high \in Scored(q) :
                      /\ score[low] * ScoredWeight(q) <= WeightedScores(q)
                      /\ WeightedScores(q) <= score[high] * ScoredWeight(q)
    BY DEF ConsolidatedInRange
<1> DEFINE S == Scored(q)
           f == [k \in S |-> RowWeight(k)]
           g == [k \in S |-> score[k] * RowWeight(k)]
           marks == [k \in S |-> score[k]]
<1>1. \A k \in S : score[k] \in 1 .. 4 /\ RowWeight(k) \in Nat
    BY ScoreType, RowWeightType DEF Scored, Answered, RowsAbout
<1>2. PICK low \in S, high \in S : \A k \in S : score[low] <= score[k] /\ score[k] <= score[high]
    <2>1. marks \in [S -> 1 .. 4] /\ S # {}
        BY <1>1
    <2>2. PICK low \in S, high \in S :
                \A k \in S : marks[low] <= marks[k] /\ marks[k] <= marks[high]
        <3> HIDE DEF marks, S
        <3>1. QED
            BY <2>1, Extremes
    <2>3. QED
        BY <2>2
<1>3. f \in [S -> Int] /\ g \in [S -> Int]
    BY <1>1
<1>4. ASSUME NEW k \in S
      PROVE  score[low] * f[k] <= g[k] /\ g[k] <= score[high] * f[k]
    BY <1>1, <1>2, Multiples
<1>5. IsFiniteSet(S) /\ ScoredWeight(q) = SumOf(f, S) /\ WeightedScores(q) = SumOf(g, S)
    BY WeightedIsSum
<1>6. score[low] \in Int /\ score[high] \in Int
    BY <1>1
<1> HIDE DEF f, g, S
<1>7. /\ score[low] * SumOf(f, S) <= SumOf(g, S)
      /\ SumOf(g, S) <= score[high] * SumOf(f, S)
    BY <1>3, <1>4, <1>5, <1>6, SumBetween
<1>8. QED
    BY <1>5, <1>7 DEF S

\* The consolidated score of an item lies between the lowest and the highest score
\* it is made of, for any number of rows, risks and weights (validations.ts).
THEOREM ConsolidatedScoreInRange == Spec => []ConsolidatedInRange
BY RowsInvariance, InConsolidatedRange, PTL

-----------------------------------------------------------------------------
(* The overview *)

LEMMA ExpectedFinite == ASSUME NEW q \in Questions PROVE IsFiniteSet(Expected(q))
<1>1. Expected(q) \subseteq Units
  BY DEF Expected
<1> QED BY <1>1, FS_Subset, ChecklistAssumption

LEMMA ReadyListed == ReadyIsListedIfExpected
<1> SUFFICES ASSUME NEW q \in Questions, Ready(q),
                    Expected(q) # {}, Expected(q) \subseteq AssignedUnits(q)
             PROVE  Listed(q)
  BY DEF ReadyIsListedIfExpected
<1>1. Joined(q) = {k \in RowsAbout(q) : UnitOf(k) \in Expected(q)}
  BY DEF Ready, Joined, SubmittedUnits
<1>2. {UnitOf(k) : k \in Joined(q)} = Expected(q)
  BY <1>1 DEF AssignedUnits
<1>3. Joined(q) # {} /\ Answered(q) # {}
  BY <1>2 DEF Ready, Answered
<1>4. \A k \in Joined(q) : validation[k] \in {"pending_approval", "closed"}
  BY <1>1 DEF Ready
<1> QED BY <1>2, <1>3, <1>4 DEF Listed

\* The overview hides no question that is ready for the decision, whatever
\* checklists were uploaded, if the table names no unit that was not asked
\* (validations.ts, question_status).
THEOREM OverviewIsComplete == Spec => []ReadyIsListedIfExpected
BY ReadyListed, PTL

LEMMA ListedReady == ListedIsReady
<1> SUFFICES ASSUME NEW q \in Questions, Listed(q),
                    AssignedUnits(q) \subseteq Expected(q),
                    \A j, k \in RowsAbout(q) : UnitOf(j) = UnitOf(k) => j = k
             PROVE  Ready(q)
  BY DEF ListedIsReady
<1> DEFINE joined == {UnitOf(k) : k \in Joined(q)}
<1>1. Joined(q) \subseteq RowsAbout(q)
  BY DEF Joined
\* As many units have answered as are expected, and no others: all have.
<1>2. joined = Expected(q)
  <2>1. joined \subseteq Expected(q)
    BY DEF Joined
  <2>2. Cardinality(joined) = Cardinality(Expected(q))
    BY DEF Listed
  <2> QED BY <2>1, <2>2, ExpectedFinite, FS_Subset
\* A unit has one row, so the row that answered is the row in question.
<1>3. ASSUME NEW k \in RowsAbout(q)
      PROVE  /\ response[k] = "submitted"
             /\ validation[k] \in {"pending_approval", "closed"}
  <2>1. UnitOf(k) \in joined
    BY <1>2 DEF AssignedUnits
  <2>2. k \in Joined(q)
    BY <1>1, <2>1
  <2>3. UnitOf(k) \in SubmittedUnits(q)
    BY <2>2 DEF Joined
  <2>4. response[k] = "submitted"
    BY <2>3 DEF SubmittedUnits
  <2> QED BY <2>2, <2>4 DEF Listed
<1>4. RowsAbout(q) # {}
  BY <1>1 DEF Listed
<1> QED BY <1>3, <1>4 DEF Ready

\* What the overview lists is ready for the decision if every unit that was
\* asked has a weight and one row (validations.ts, question_status).
THEOREM OverviewIsSound == Spec => []ListedIsReady
BY ListedReady, PTL

-----------------------------------------------------------------------------
(* Averages *)

\* The fraction x lies between low and high; NULL lies between any two.
Within(x, low, high) ==
    /\ x[1] \in Int /\ x[2] \in Nat
    /\ low * x[2] <= x[1] /\ x[1] <= high * x[2]

Fractions == Int \X (Nat \ {0})

\* it has the total over each set of pairs in P.
Totals(it, P) ==
    it = [s \in SUBSET P |-> IF s = {} THEN <<0, 1>> ELSE Plus(Chosen(s)[2], it[s \ {Chosen(s)}])]

\* Fractions add up to fractions.
LEMMA PlusType == ASSUME NEW x \in Fractions, NEW y \in Fractions PROVE Plus(x, y) \in Fractions
<1>1. x[1] * y[2] + y[1] * x[2] \in Int /\ x[2] * y[2] \in Nat \ {0}
    <2>1. x[1] \in Int /\ y[1] \in Int /\ x[2] \in Nat \ {0} /\ y[2] \in Nat \ {0}
        BY DEF Fractions
    <2>2. ASSUME NEW a \in Nat \ {0}, NEW b \in Nat \ {0} PROVE a * b \in Nat \ {0}
        OBVIOUS
    <2>3. QED
        BY <2>1, <2>2
<1>2. QED
    BY <1>1 DEF Plus, Fractions

\* Total is a fold, so there is one to reason about.
LEMMA TotalIs ==
    ASSUME NEW P, IsFiniteSet(P), \A p \in P : p[2] \in Fractions
    PROVE  \E it \in [SUBSET P -> Fractions] : Totals(it, P) /\ it[P] = Total(P)
<1> DEFINE g == [p \in P \X Fractions |-> Plus(p[1][2], p[2])]
           c == [s \in (SUBSET P) \ {{}} |-> Chosen(s)]
<1>1. g \in [P \X Fractions -> Fractions] /\ <<0, 1>> \in Fractions
    BY PlusType DEF Fractions
<1>2. c \in [(SUBSET P) \ {{}} -> P] /\ \A s \in (SUBSET P) \ {{}} : c[s] \in s
    BY DEF Chosen
<1>3. PICK it \in [SUBSET P -> Fractions] : Folds(it, <<0, 1>>, g, c, P)
    <2> HIDE DEF g, c
    <2>1. QED
        BY <1>1, <1>2, FoldExists
<1>4. ASSUME NEW s \in SUBSET P
      PROVE  it[s] = IF s = {} THEN <<0, 1>> ELSE Plus(Chosen(s)[2], it[s \ {Chosen(s)}])
    <2>1. CASE s = {}
        BY <1>3, <2>1 DEF Folds
    <2>2. CASE s # {}
        <3>1. c[s] = Chosen(s) /\ Chosen(s) \in P /\ s \ {Chosen(s)} \in SUBSET P
            BY <1>2, <2>2
        <3>2. g[<<Chosen(s), it[s \ {Chosen(s)}]>>] = Plus(Chosen(s)[2], it[s \ {Chosen(s)}])
            BY <3>1
        <3>3. QED
            BY <1>3, <2>2, <3>1, <3>2 DEF Folds
    <2>3. QED
        BY <2>1, <2>2
<1>5. Totals(it, P)
    BY <1>4 DEF Totals
<1> DEFINE jt == CHOOSE kt : Totals(kt, P)
<1>6. Totals(jt, P)
    BY <1>5
<1>7. Total(P) = jt[P]
    BY DEF Total, Totals, Chosen, FoldSet, MapThenFoldSet
<1> HIDE DEF jt
<1> DEFINE T == {s \in SUBSET P : it[s] = jt[s]}
<1>8. ASSUME NEW s \in SUBSET P, \A x \in s : s \ {x} \in T
      PROVE  s \in T
    <2>1. /\ it[s] = IF s = {} THEN <<0, 1>> ELSE Plus(Chosen(s)[2], it[s \ {Chosen(s)}])
          /\ jt[s] = IF s = {} THEN <<0, 1>> ELSE Plus(Chosen(s)[2], jt[s \ {Chosen(s)}])
        BY <1>5, <1>6 DEF Totals
    <2>2. s # {} => Chosen(s) \in s
        BY DEF Chosen
    <2>3. QED
        BY <1>8, <2>1, <2>2
<1>9. \A s \in SUBSET P : s \in T
    <2> HIDE DEF T
    <2>1. QED
        BY <1>8, SubsetInduction
<1>10. QED
    BY <1>5, <1>7, <1>9

\* A sum of two fractions that are bounded by multiples of their weights is, too.
LEMMA FractionStep ==
    ASSUME NEW a \in Int, NEW w \in Int, NEW v \in Int, NEW n \in Int, NEW m \in Int,
           NEW d \in Nat \ {0}, NEW e \in Nat \ {0}
    PROVE  /\ a * (w * d) <= n /\ a * (v * e) <= m => a * ((w + v) * (d * e)) <= n * e + m * d
           /\ n <= a * (w * d) /\ m <= a * (v * e) => n * e + m * d <= a * ((w + v) * (d * e))
<1>1. a * ((w + v) * (d * e)) = (a * (w * d)) * e + (a * (v * e)) * d
    OBVIOUS
<1>2. a * (w * d) \in Int /\ a * (v * e) \in Int
    OBVIOUS
<1>3. /\ a * (w * d) <= n => (a * (w * d)) * e <= n * e
      /\ a * (v * e) <= m => (a * (v * e)) * d <= m * d
      /\ n <= a * (w * d) => n * e <= (a * (w * d)) * e
      /\ m <= a * (v * e) => m * d <= (a * (v * e)) * d
    BY <1>2, Multiples
<1>4. (a * (w * d)) * e \in Int /\ (a * (v * e)) * d \in Int /\ n * e \in Int /\ m * d \in Int
    BY <1>2
<1>5. QED
    BY <1>1, <1>3, <1>4

\* A total of values that lie between low and high, each times its weight, lies
\* between low and high times the total weight.
LEMMA TotalBetween ==
    ASSUME NEW P, IsFiniteSet(P), NEW w \in [P -> Int], NEW low \in Int, NEW high \in Int,
           \A p \in P : /\ p[2] \in Fractions
                        /\ low * (w[p] * p[2][2]) <= p[2][1]
                        /\ p[2][1] <= high * (w[p] * p[2][2])
    PROVE  /\ Total(P) \in Fractions
           /\ low * (SumOf(w, P) * Total(P)[2]) <= Total(P)[1]
           /\ Total(P)[1] <= high * (SumOf(w, P) * Total(P)[2])
<1>1. PICK it \in [SUBSET P -> Fractions] : Totals(it, P) /\ it[P] = Total(P)
    BY TotalIs
<1>2. PICK iw \in [SUBSET P -> Int] : Sums(iw, w, P)
    BY SumsExist
<1>3. AddsUp(iw, w, P)
    BY <1>2, SumsStep
<1> DEFINE T == {s \in SUBSET P : /\ low * (iw[s] * it[s][2]) <= it[s][1]
                                  /\ it[s][1] <= high * (iw[s] * it[s][2])}
<1>4. ASSUME NEW s \in SUBSET P, \A x \in s : s \ {x} \in T
      PROVE  s \in T
    <2>1. CASE s = {}
        <3>1. it[s] = <<0, 1>> /\ iw[s] = 0
            BY <1>1, <1>2, <2>1 DEF Totals, Sums
        <3>2. QED
            BY <3>1
    <2>2. CASE s # {}
        <3> DEFINE c == Chosen(s)
                   r == s \ {c}
                   x == c[2]
                   y == it[r]
        <3>1. c \in s
            BY <2>2 DEF Chosen
        <3>2. it[s] = Plus(x, y)
            BY <1>1, <2>2 DEF Totals
        <3>3. iw[s] = w[c] + iw[r]
            BY <1>3, <3>1 DEF AddsUp
        <3>4. /\ x \in Fractions /\ y \in Fractions /\ w[c] \in Int /\ iw[r] \in Int
              /\ low * (w[c] * x[2]) <= x[1] /\ x[1] <= high * (w[c] * x[2])
            BY <3>1
        <3>5. low * (iw[r] * y[2]) <= y[1] /\ y[1] <= high * (iw[r] * y[2])
            BY <1>4, <3>1
        <3> HIDE DEF c, r, x, y
        <3>6. x[1] \in Int /\ y[1] \in Int /\ x[2] \in Nat \ {0} /\ y[2] \in Nat \ {0}
            BY <3>4 DEF Fractions
        <3>7. it[s][1] = x[1] * y[2] + y[1] * x[2] /\ it[s][2] = x[2] * y[2]
            BY <3>2 DEF Plus
        <3>8. /\ low * ((w[c] + iw[r]) * (x[2] * y[2])) <= x[1] * y[2] + y[1] * x[2]
              /\ x[1] * y[2] + y[1] * x[2] <= high * ((w[c] + iw[r]) * (x[2] * y[2]))
            BY <3>4, <3>5, <3>6, FractionStep
        <3>9. QED
            BY <3>3, <3>7, <3>8
    <2>3. QED
        BY <2>1, <2>2
<1>5. \A s \in SUBSET P : s \in T
    <2> HIDE DEF T
    <2>1. QED
        BY <1>4, SubsetInduction
<1>6. iw[P] = SumOf(w, P)
    BY <1>2, SumIs
<1>7. QED
    BY <1>1, <1>5, <1>6

LEMMA SumNat ==
    ASSUME NEW S, IsFiniteSet(S), NEW f \in [S -> Nat]
    PROVE  SumOf(f, S) \in Nat
<1>1. f \in [S -> Int]
    OBVIOUS
<1>3. PICK it \in [SUBSET S -> Int] : Sums(it, f, S)
    BY <1>1, SumsExist
<1>4. AddsUp(it, f, S)
    BY <1>1, <1>3, SumsStep
<1> DEFINE T == {s \in SUBSET S : it[s] \in Nat}
<1>5. ASSUME NEW s \in SUBSET S, \A x \in s : s \ {x} \in T
      PROVE  s \in T
    <2>1. CASE s = {}
        BY <1>3, <2>1 DEF Sums
    <2>2. CASE s # {}
        <3>1. PICK x \in s : TRUE
            BY <2>2
        <3>2. it[s] = f[x] + it[s \ {x}]
            BY <1>4 DEF AddsUp
        <3>3. f[x] \in Nat /\ it[s \ {x}] \in Nat
            BY <1>5
        <3>4. QED
            BY <3>2, <3>3
    <2>3. QED
        BY <2>1, <2>2
<1>6. \A s \in SUBSET S : s \in T
    <2> HIDE DEF T
    <2>1. QED
        BY <1>5, SubsetInduction
<1>7. QED
    BY <1>1, <1>3, <1>6, SumIs

\* As many ones as there are elements.
LEMMA SumOfOnes ==
    ASSUME NEW S, IsFiniteSet(S)
    PROVE  SumOf([x \in S |-> 1], S) = Cardinality(S)
<1> DEFINE f == [x \in S |-> 1]
<1>1. f \in [S -> Int]
    OBVIOUS
<1>2. \A x \in S : f[x] = 1
    OBVIOUS
<1> HIDE DEF f
<1>3. PICK it \in [SUBSET S -> Int] : Sums(it, f, S)
    BY <1>1, SumsExist
<1>4. AddsUp(it, f, S)
    BY <1>1, <1>3, SumsStep
<1> DEFINE T == {s \in SUBSET S : it[s] = Cardinality(s)}
<1>5. ASSUME NEW s \in SUBSET S, \A x \in s : s \ {x} \in T
      PROVE  s \in T
    <2>1. CASE s = {}
        BY <1>3, <2>1, FS_EmptySet DEF Sums
    <2>2. CASE s # {}
        <3>1. PICK x \in s : TRUE
            BY <2>2
        <3>2. it[s] = f[x] + it[s \ {x}]
            BY <1>4 DEF AddsUp
        <3>3. IsFiniteSet(s)
            BY FS_Subset
        <3>4. Cardinality(s \ {x}) = Cardinality(s) - 1 /\ Cardinality(s) \in Nat
            BY <3>3, FS_RemoveElement, FS_CardinalityType
        <3>5. f[x] = 1 /\ it[s \ {x}] = Cardinality(s \ {x})
            BY <1>2, <1>5
        <3>6. QED
            BY <3>2, <3>4, <3>5
    <2>3. QED
        BY <2>1, <2>2
<1>6. \A s \in SUBSET S : s \in T
    <2> HIDE DEF T
    <2>1. QED
        BY <1>5, SubsetInduction
<1>7. it[S] = SumOf(f, S) /\ it[S] = Cardinality(S)
    BY <1>1, <1>3, <1>6, SumIs
<1>8. QED
    BY <1>7 DEF f

\* A sum is the same after its summands have been renamed.
LEMMA SumImage ==
    ASSUME NEW S, IsFiniteSet(S), NEW h, DOMAIN h = S, \A x, y \in S : h[x] = h[y] => x = y,
           NEW R, \A x \in S : h[x] \in R, \A r \in R : \E x \in S : r = h[x],
           NEW f \in [R -> Int], NEW g \in [S -> Int], \A x \in S : g[x] = f[h[x]]
    PROVE  SumOf(f, R) = SumOf(g, S)
<1> DEFINE im(s) == {h[x] : x \in s}
<1>0. R = im(S) /\ f \in [im(S) -> Int]
    <2>1. R = im(S)
        OBVIOUS
    <2>2. QED
        BY <2>1
<1>1. IsFiniteSet(im(S))
    BY ImageFinite
<1>2. PICK it \in [SUBSET im(S) -> Int] : Sums(it, f, im(S))
    BY <1>0, <1>1, SumsExist
<1>3. PICK jt \in [SUBSET S -> Int] : Sums(jt, g, S)
    BY SumsExist
<1>4. AddsUp(it, f, im(S)) /\ AddsUp(jt, g, S)
    BY <1>0, <1>1, <1>2, <1>3, SumsStep
<1> DEFINE T == {s \in SUBSET S : it[im(s)] = jt[s]}
<1>5. ASSUME NEW s \in SUBSET S, \A x \in s : s \ {x} \in T
      PROVE  s \in T
    <2>1. CASE s = {}
        <3>1. im(s) = {}
            BY <2>1
        <3>2. it[{}] = 0 /\ jt[{}] = 0
            BY <1>2, <1>3 DEF Sums
        <3>3. QED
            BY <2>1, <3>1, <3>2
    <2>2. CASE s # {}
        <3>1. PICK x \in s : TRUE
            BY <2>2
        <3>2. jt[s] = g[x] + jt[s \ {x}]
            BY <1>4 DEF AddsUp
        <3>3. im(s) \in SUBSET im(S) /\ h[x] \in im(s)
            OBVIOUS
        <3>4. im(s) \ {h[x]} = im(s \ {x})
            OBVIOUS
        <3> HIDE DEF im
        <3>5. it[im(s)] = f[h[x]] + it[im(s) \ {h[x]}]
            BY <1>4, <3>3 DEF AddsUp
        <3>6. it[im(s \ {x})] = jt[s \ {x}] /\ g[x] = f[h[x]]
            BY <1>5
        <3>7. QED
            BY <3>2, <3>4, <3>5, <3>6
    <2>3. QED
        BY <2>1, <2>2
<1>6. \A s \in SUBSET S : s \in T
    <2> HIDE DEF T
    <2>1. QED
        BY <1>5, SubsetInduction
<1>7. it[im(S)] = SumOf(f, im(S)) /\ jt[S] = SumOf(g, S)
    <2> HIDE DEF im
    <2>1. QED
        BY <1>0, <1>1, <1>2, <1>3, SumIs
<1>8. it[im(S)] = jt[S]
    BY <1>6
<1>9. QED
    BY <1>0, <1>7, <1>8

MeanOf(v, S) == Mean(LAMBDA e : v[e], S)
WeightedMeanOf(v, w, S) == WeightedMean(LAMBDA e : v[e], LAMBDA e : w[e], S)

Pairs == Int \X Nat
KnownOf(v, S) == {p \in {<<e, v[e]>> : e \in S} : ~IsNull(p[2])}

\* The values that are not NULL are fractions.
LEMMA KnownFinite ==
    ASSUME NEW S, IsFiniteSet(S), NEW v, \A e \in S : v[e] \in Pairs
    PROVE  /\ IsFiniteSet(KnownOf(v, S))
           /\ \A p \in KnownOf(v, S) : p[1] \in S /\ p[2] = v[p[1]] /\ p[2] \in Fractions
           /\ \A p \in KnownOf(v, S) : p = <<p[1], p[2]>>
<1> DEFINE h == [e \in S |-> <<e, v[e]>>]
<1>1. DOMAIN h = S /\ {<<e, v[e]>> : e \in S} = {h[e] : e \in S}
    OBVIOUS
<1>2. IsFiniteSet({<<e, v[e]>> : e \in S})
    <2> HIDE DEF h
    <2>1. QED
        BY <1>1, ImageFinite
<1>3. KnownOf(v, S) \subseteq {<<e, v[e]>> : e \in S}
    BY DEF KnownOf
<1>4. QED
    BY <1>2, <1>3, FS_Subset DEF KnownOf, IsNull, Fractions, Pairs

\* AVG lies between what all its values lie between ...
LEMMA MeanBetween ==
    ASSUME NEW S, IsFiniteSet(S), NEW v, \A e \in S : v[e] \in Pairs,
           NEW low \in Int, NEW high \in Int, \A e \in S : Within(v[e], low, high)
    PROVE  MeanOf(v, S) \in Pairs /\ Within(MeanOf(v, S), low, high)
<1> DEFINE P == KnownOf(v, S)
           w == [p \in P |-> 1]
           t == Total(P)
           n == Cardinality(P)
<1>1. IsFiniteSet(P) /\ \A p \in P : p[1] \in S /\ p[2] = v[p[1]] /\ p[2] \in Fractions
    BY KnownFinite
<1>2. MeanOf(v, S) = <<t[1], t[2] * n>>
    BY DEF MeanOf, Mean, Known, KnownOf
<1>3. w \in [P -> Int] /\ SumOf(w, P) = n /\ n \in Nat
    BY <1>1, SumOfOnes, FS_CardinalityType
<1>4. ASSUME NEW p \in P
      PROVE  /\ p[2] \in Fractions
             /\ low * (w[p] * p[2][2]) <= p[2][1]
             /\ p[2][1] <= high * (w[p] * p[2][2])
    <2>1. w[p] * p[2][2] = p[2][2]
        BY <1>1 DEF Fractions
    <2>2. QED
        BY <1>1, <2>1 DEF Within
<1> HIDE DEF P, w, n
<1>5. t \in Fractions /\ low * (n * t[2]) <= t[1] /\ t[1] <= high * (n * t[2])
    BY <1>1, <1>3, <1>4, TotalBetween
<1> HIDE DEF t
<1>6. t[1] \in Int /\ t[2] \in Nat \ {0} /\ t[2] * n \in Nat /\ t[2] * n = n * t[2]
    BY <1>3, <1>5 DEF Fractions
<1>7. QED
    BY <1>2, <1>5, <1>6 DEF Within, Pairs

\* ... and so does a weighted average.
LEMMA WeightedMeanBetween ==
    ASSUME NEW S, IsFiniteSet(S), NEW v, \A e \in S : v[e] \in Pairs,
           NEW w, \A e \in S : w[e] \in Nat,
           NEW low \in Int, NEW high \in Int, \A e \in S : Within(v[e], low, high)
    PROVE  WeightedMeanOf(v, w, S) \in Pairs /\ Within(WeightedMeanOf(v, w, S), low, high)
<1> DEFINE K == KnownOf(v, S)
           h == [p \in K |-> <<p[1], <<p[2][1] * w[p[1]], p[2][2]>>>>]
           P == {h[p] : p \in K}
           f == [p \in P |-> w[p[1]]]
           g == [p \in K |-> w[p[1]]]
           t == Total(P)
           n == SumOf(g, K)
<1>1. /\ IsFiniteSet(K)
      /\ \A p \in K : p[1] \in S /\ p[2] = v[p[1]] /\ p[2] \in Fractions /\ p = <<p[1], p[2]>>
    BY KnownFinite
<1>2. \A p \in K : p[1] \in S /\ w[p[1]] \in Nat /\ h[p][1] = p[1]
    BY <1>1
<1>3. g \in [K -> Nat] /\ f \in [P -> Int] /\ g \in [K -> Int] /\ \A p \in K : g[p] = f[h[p]]
    BY <1>2
<1>4. \A p, q \in K : h[p] = h[q] => p = q
    BY <1>1, <1>2
<1>5. DOMAIN h = K
    OBVIOUS
<1>6. IsFiniteSet(P)
    <2> HIDE DEF h, K
    <2>1. QED
        BY <1>1, <1>5, ImageFinite
<1>7. SumOf(f, P) = n
    <2>1. (\A p \in K : h[p] \in P) /\ \A r \in P : \E p \in K : r = h[p]
        OBVIOUS
    <2> HIDE DEF h, K, P, f, g
    <2>2. QED
        BY <1>1, <1>3, <1>4, <1>5, <2>1, SumImage
<1>8. n \in Nat
    <2> HIDE DEF K, g
    <2>1. QED
        BY <1>1, <1>3, SumNat
<1>9. WeightedMeanOf(v, w, S) = <<t[1], t[2] * n>>
    <2>1. {<<p[1], <<p[2][1] * w[p[1]], p[2][2]>>>> : p \in K} = P
        OBVIOUS
    <2>2. n = MapThenSumSet(LAMBDA p : w[p[1]], K)
        <3> DEFINE IsIt(it) == it = [s \in SUBSET K |-> IF s = {} THEN 0
                                       ELSE w[Chosen(s)[1]] + it[s \ {Chosen(s)}]]
                   chosen == CHOOSE it : IsIt(it)
        <3>1. MapThenSumSet(LAMBDA p : w[p[1]], K) = chosen[K]
            BY DEF MapThenSumSet, MapThenFoldSet, Chosen
        <3>2. \A s \in SUBSET K : s # {} => Chosen(s) \in K
            BY DEF Chosen
        <3>3. \A it : IsIt(it) <=> Sums(it, g, K)
            BY <3>2 DEF Sums
        <3> HIDE DEF IsIt, g, K
        <3>4. IsIt(chosen)
            BY <1>1, <1>3, <3>3, SumsExist
        <3> HIDE DEF chosen
        <3>5. QED
            BY <1>1, <1>3, <3>1, <3>3, <3>4, SumIs
    <2>3. QED
        BY <2>1, <2>2 DEF WeightedMeanOf, WeightedMean, Known, KnownOf
<1>10. ASSUME NEW p \in P
       PROVE  /\ p[2] \in Fractions
              /\ low * (f[p] * p[2][2]) <= p[2][1]
              /\ p[2][1] <= high * (f[p] * p[2][2])
    <2>1. PICK k \in K : p = h[k]
        OBVIOUS
    <2> DEFINE x == k[2]
               u == w[k[1]]
    <2>2. p[2][1] = x[1] * u /\ p[2][2] = x[2] /\ f[p] = u /\ p[2] = <<x[1] * u, x[2]>>
        BY <2>1
    <2>3. x \in Fractions /\ u \in Nat /\ Within(x, low, high)
        BY <1>1, <1>2, <2>1
    <2> HIDE DEF x, u
    <2>4. x[1] \in Int /\ x[2] \in Nat \ {0} /\ low * x[2] <= x[1] /\ x[1] <= high * x[2]
        BY <2>3 DEF Within, Fractions
    <2>5. /\ (low * x[2]) * u <= x[1] * u /\ x[1] * u <= (high * x[2]) * u
        BY <2>3, <2>4, Multiples
    <2>6. (low * x[2]) * u = low * (u * x[2]) /\ (high * x[2]) * u = high * (u * x[2])
        BY <2>3, <2>4
    <2>7. x[1] * u \in Int
        BY <2>3, <2>4
    <2>8. QED
        BY <2>2, <2>4, <2>5, <2>6, <2>7 DEF Fractions
<1> HIDE DEF P, f, n, K
<1>11. t \in Fractions /\ low * (n * t[2]) <= t[1] /\ t[1] <= high * (n * t[2])
    BY <1>3, <1>6, <1>7, <1>10, TotalBetween
<1> HIDE DEF t
<1>12. t[1] \in Int /\ t[2] \in Nat \ {0} /\ t[2] * n \in Nat /\ t[2] * n = n * t[2]
    BY <1>8, <1>11 DEF Fractions
<1>13. QED
    BY <1>9, <1>11, <1>12 DEF Within, Pairs

-----------------------------------------------------------------------------
(* The averages of the reports *)

Marked(R) == {k \in R : score[k] # 0}
Spanned(low, high, R) == \A k \in Marked(R) : low <= score[k] /\ score[k] <= high

\* An average, whose value lies between all numbers that the scores of R do.
Averages(x, R) ==
    /\ x \in Pairs
    /\ \A low, high \in Int : Spanned(low, high, R) => Within(x, low, high)

LEMMA AverageOfMore ==
    ASSUME NEW x, NEW R, Averages(x, R), NEW Q, R \subseteq Q
    PROVE  Averages(x, Q)
BY DEF Averages, Spanned, Marked

LEMMA ScoreAverages ==
    ASSUME AnswerType, NEW R, R \subseteq Rows, NEW k \in R
    PROVE  Averages(ScoreOf(k), R)
<1>1. CASE score[k] = 0
    BY <1>1 DEF ScoreOf, Null, Averages, Within, Pairs
<1>2. CASE score[k] # 0
    <2>1. score[k] \in 1 .. 4
        BY <1>2, ScoreType
    <2>2. ScoreOf(k) = <<score[k], 1>>
        BY <1>2 DEF ScoreOf
    <2>3. QED
        BY <1>2, <2>1, <2>2 DEF Averages, Within, Pairs, Spanned, Marked
<1>3. QED
    BY <1>1, <1>2

LEMMA AllSpanned == ASSUME AnswerType, NEW R, R \subseteq Rows PROVE Spanned(1, 4, R)
BY ScoreType DEF Spanned, Marked

LEMMA MeanAverages ==
    ASSUME NEW R, Spanned(1, 4, R), NEW S, IsFiniteSet(S), NEW v, \A e \in S : Averages(v[e], R)
    PROVE  Averages(MeanOf(v, S), R)
<1>1. \A e \in S : v[e] \in Pairs
    BY DEF Averages
<1>2. ASSUME NEW low \in Int, NEW high \in Int, Spanned(low, high, R)
      PROVE  MeanOf(v, S) \in Pairs /\ Within(MeanOf(v, S), low, high)
    <2>1. \A e \in S : Within(v[e], low, high)
        BY <1>2 DEF Averages
    <2>2. QED
        BY <1>1, <2>1, MeanBetween
<1>3. QED
    BY <1>2, 1 \in Int, 4 \in Int DEF Averages

LEMMA WeightedMeanAverages ==
    ASSUME NEW R, Spanned(1, 4, R), NEW S, IsFiniteSet(S), NEW v, \A e \in S : Averages(v[e], R),
           NEW w, \A e \in S : w[e] \in Nat
    PROVE  Averages(WeightedMeanOf(v, w, S), R)
<1>1. \A e \in S : v[e] \in Pairs
    BY DEF Averages
<1>2. ASSUME NEW low \in Int, NEW high \in Int, Spanned(low, high, R)
      PROVE  WeightedMeanOf(v, w, S) \in Pairs /\ Within(WeightedMeanOf(v, w, S), low, high)
    <2>1. \A e \in S : Within(v[e], low, high)
        BY <1>2 DEF Averages
    <2>2. QED
        BY <1>1, <2>1, WeightedMeanBetween
<1>3. QED
    BY <1>2, 1 \in Int, 4 \in Int DEF Averages

\* An average of scores is in their range.
LEMMA AverageInRange ==
    ASSUME AnswerType, NEW R, R \subseteq Rows, NEW x, Averages(x, R)
    PROVE  InRangeOf(x, R)
<1>1. CASE Marked(R) = {}
    <2>1. Spanned(1, 0, R) /\ 0 \in Int /\ 1 \in Int
        BY <1>1 DEF Spanned
    <2>2. Within(x, 1, 0)
        BY <2>1 DEF Averages
    <2>3. x[2] = 0
        BY <2>2 DEF Within
    <2>4. QED
        BY <2>3 DEF InRangeOf, IsNull
<1>2. CASE Marked(R) # {}
    <2> DEFINE S == Marked(R)
               marks == [k \in S |-> score[k]]
    <2>1. marks \in [S -> 1 .. 4]
        BY ScoreType DEF Marked
    <2>2. PICK low \in S, high \in S :
                \A k \in S : marks[low] <= marks[k] /\ marks[k] <= marks[high]
        <3> HIDE DEF marks, S
        <3>1. QED
            BY <1>2, <2>1, Extremes DEF S
    <2>3. Spanned(score[low], score[high], R)
        BY <2>2 DEF Spanned
    <2>4. score[low] \in Int /\ score[high] \in Int
        BY ScoreType DEF Marked
    <2>5. Within(x, score[low], score[high])
        BY <2>3, <2>4 DEF Averages
    <2>6. score[low] * x[2] <= x[1] /\ x[1] <= score[high] * x[2]
        BY <2>5 DEF Within
    <2>7. QED
        BY <2>6 DEF InRangeOf, Marked
<1>3. QED
    BY <1>1, <1>2

LEMMA SubFinite == ASSUME AnswerType, NEW R, R \subseteq Rows PROVE IsFiniteSet(R)
BY FS_Subset DEF AnswerType, RowTable, Rows

LEMMA ByQuestionAverages ==
    ASSUME AnswerType, NEW R, R \subseteq Rows, NEW q
    PROVE  Averages(ByQuestion(R, q), R)
<1> DEFINE S == {k \in R : k[1] = q}
           v == [k \in S |-> ScoreOf(k)]
<1>1. \A k \in S : Averages(v[k], R)
    BY ScoreAverages
<1>2. IsFiniteSet(S)
    BY SubFinite
<1>3. {<<k, ScoreOf(k)>> : k \in S} = {<<k, v[k]>> : k \in S}
    OBVIOUS
<1>4. ByQuestion(R, q) = MeanOf(v, S)
    BY <1>3 DEF ByQuestion, MeanOf, Mean, Known
<1> HIDE DEF v, S
<1>5. QED
    BY <1>1, <1>2, <1>4, AllSpanned, MeanAverages

LEMMA UnderHeadingAverages ==
    ASSUME AnswerType, NEW R, R \subseteq Rows, NEW qs, qs \subseteq Questions
    PROVE  Averages(UnderHeading(R, qs), R)
<1> DEFINE v == [q \in qs |-> ByQuestion(R, q)]
<1>1. \A q \in qs : Averages(v[q], R)
    BY ByQuestionAverages
<1>2. IsFiniteSet(qs)
    <2>1. IsFiniteSet(Questions)
        BY ChecklistAssumption
    <2>2. QED
        BY <2>1, FS_Subset
<1>3. {<<q, ByQuestion(R, q)>> : q \in qs} = {<<q, v[q]>> : q \in qs}
    OBVIOUS
<1>4. UnderHeading(R, qs) = MeanOf(v, qs)
    BY <1>3 DEF UnderHeading, MeanOf, Mean, Known
<1> HIDE DEF v
<1>5. QED
    BY <1>1, <1>2, <1>4, AllSpanned, MeanAverages

LEMMA OverallAverages ==
    ASSUME AnswerType, NEW R, R \subseteq Rows
    PROVE  Averages(Overall(R), R)
<1> DEFINE S == {AreaOf[q] : q \in Questions}
           v == [area \in S |-> ByArea(R, area)]
<1>1. \A area \in S : Averages(v[area], R)
    BY UnderHeadingAverages DEF ByArea
<1>2. IsFiniteSet(S)
    <2>1. IsFiniteSet(Questions) /\ DOMAIN AreaOf = Questions
        BY ChecklistAssumption, ReportingAssumption
    <2>2. QED
        BY <2>1, ImageFinite
<1>3. {<<area, ByArea(R, area)>> : area \in S} = {<<area, v[area]>> : area \in S}
    OBVIOUS
<1>4. Overall(R) = MeanOf(v, S)
    BY <1>3 DEF Overall, MeanOf, Mean, Known
<1> HIDE DEF v, S
<1>5. QED
    BY <1>1, <1>2, <1>4, AllSpanned, MeanAverages

\* The lines of a unit or of the sub-entities of 961 are drawn from their rows.
LEMMA ByGroupAverages ==
    ASSUME AnswerType, NEW g
    PROVE  Averages(ByGroup(g), {k \in Submitted : GroupOf(UnitOf(k)) = g})
<1> DEFINE R == {k \in Submitted : GroupOf(UnitOf(k)) = g}
           S == LinesOf(g)
           v == [line \in S |-> ByUnit(line)]
<1>1. R \subseteq Rows
    BY DEF Submitted
<1>2. ASSUME NEW line \in S
      PROVE  Averages(v[line], R)
    <2> DEFINE Q == {k \in Submitted : Line(k) = line}
    <2>1. PICK j \in Rows : GroupOf(UnitOf(j)) = g /\ line = Line(j)
        BY DEF LinesOf
    <2>2. \A k \in Q : UnitOf(k) = UnitOf(j)
        BY <2>1 DEF Line
    <2>3. Q \subseteq R /\ Q \subseteq Rows
        BY <2>1, <2>2 DEF Submitted
    <2>4. Averages(UnderHeading(Q, Questions), Q)
        BY <2>3, UnderHeadingAverages
    <2>5. v[line] = UnderHeading(Q, Questions)
        BY DEF ByUnit
    <2> HIDE DEF Q, R, v
    <2>6. QED
        BY <2>3, <2>4, <2>5, AverageOfMore
<1>3. IsFiniteSet(S)
    <2> DEFINE T == {j \in Rows : GroupOf(UnitOf(j)) = g}
               h == [k \in T |-> Line(k)]
    <2>1. IsFiniteSet(T)
        BY SubFinite
    <2>2. DOMAIN h = T /\ S = {h[k] : k \in T}
        BY DEF LinesOf
    <2> HIDE DEF h, S, T
    <2>3. QED
        BY <2>1, <2>2, ImageFinite
<1>4. {<<line, ByUnit(line)>> : line \in S} = {<<line, v[line]>> : line \in S}
    OBVIOUS
<1>5. ByGroup(g) = MeanOf(v, S)
    BY <1>4 DEF ByGroup, MeanOf, Mean, Known
<1> HIDE DEF v, S, R
<1>6. QED
    BY <1>1, <1>2, <1>3, <1>5, AllSpanned, MeanAverages DEF R

\* The weight of a set of rows.
LEMMA WeightOfRows ==
    ASSUME AnswerType, NEW R, R \subseteq Rows
    PROVE  MapThenSumSet(RowWeight, R) \in Nat
<1> DEFINE f == [k \in R |-> RowWeight(k)]
           IsIt(it) == it = [s \in SUBSET R |-> IF s = {} THEN 0
                               ELSE RowWeight(Chosen(s)) + it[s \ {Chosen(s)}]]
           chosen == CHOOSE it : IsIt(it)
<1>1. IsFiniteSet(R) /\ f \in [R -> Nat] /\ f \in [R -> Int]
    BY SubFinite, RowWeightType
<1>2. MapThenSumSet(RowWeight, R) = chosen[R]
    BY DEF MapThenSumSet, MapThenFoldSet, Chosen
<1>3. \A s \in SUBSET R : s # {} => Chosen(s) \in R
    BY DEF Chosen
<1>4. \A it : IsIt(it) <=> Sums(it, f, R)
    BY <1>3 DEF Sums
<1> HIDE DEF IsIt, f
<1>5. IsIt(chosen)
    BY <1>1, <1>4, SumsExist
<1> HIDE DEF chosen
<1>6. MapThenSumSet(RowWeight, R) = SumOf(f, R)
    BY <1>1, <1>2, <1>4, <1>5, SumIs
<1>7. QED
    BY <1>1, <1>6, SumNat

\* The score of a question in a unit, weighted over its rows.
LEMMA ByRowsAverages ==
    ASSUME AnswerType, NEW R, R \subseteq Rows, NEW T, T \subseteq R
    PROVE  Averages(WeightedMean(ScoreOf, RowWeight, T), R)
<1> DEFINE x == [k \in T |-> ScoreOf(k)]
           y == [k \in T |-> RowWeight(k)]
           K == KnownOf(x, T)
           g == [p \in K |-> y[p[1]]]
           IsIt(it) == it = [s \in SUBSET K |-> IF s = {} THEN 0
                               ELSE RowWeight(Chosen(s)[1]) + it[s \ {Chosen(s)}]]
           IsItToo(it) == it = [s \in SUBSET K |-> IF s = {} THEN 0
                                  ELSE y[Chosen(s)[1]] + it[s \ {Chosen(s)}]]
           chosen == CHOOSE it : IsIt(it)
           chosenToo == CHOOSE it : IsItToo(it)
<1>1. /\ \A k \in T : Averages(x[k], R)
      /\ \A k \in T : y[k] \in Nat
    BY ScoreAverages, RowWeightType
<1>2. IsFiniteSet(T)
    BY SubFinite
<1>3. \A k \in T : x[k] \in Pairs
    BY <1>1 DEF Averages
<1>4. IsFiniteSet(K) /\ \A p \in K : p[1] \in T
    <2> HIDE DEF x
    <2>1. QED
        BY <1>2, <1>3, KnownFinite
<1>5. Known(ScoreOf, T) = K /\ {<<e, x[e]>> : e \in T} = {<<e, ScoreOf(e)>> : e \in T}
    BY DEF Known, KnownOf
<1>6. \A p \in K : y[p[1]] = RowWeight(p[1]) /\ y[p[1]] \in Nat
    BY <1>1, <1>4
<1>7. g \in [K -> Int]
    BY <1>6
<1>8. \A s \in SUBSET K : s # {} => Chosen(s) \in K
    BY DEF Chosen
<1>9. \A it : (IsIt(it) <=> Sums(it, g, K)) /\ (IsItToo(it) <=> Sums(it, g, K))
    <2> HIDE DEF K, y
    <2>1. QED
        BY <1>6, <1>8 DEF Sums
<1>10. {<<p[1], <<p[2][1] * RowWeight(p[1]), p[2][2]>>>> : p \in K}
         = {<<p[1], <<p[2][1] * y[p[1]], p[2][2]>>>> : p \in K}
    <2> DEFINE a(p) == <<p[1], <<p[2][1] * RowWeight(p[1]), p[2][2]>>>>
               b(p) == <<p[1], <<p[2][1] * y[p[1]], p[2][2]>>>>
    <2> HIDE DEF K, y
    <2>1. ASSUME NEW p \in K
          PROVE  a(p) = b(p)
        <3>1. y[p[1]] = RowWeight(p[1])
            BY <1>6
        <3>2. QED
            BY <3>1
    <2> HIDE DEF a, b
    <2>2. {a(p) : p \in K} = {b(p) : p \in K}
        BY <2>1
    <2>3. QED
        BY <2>2 DEF a, b
<1>11. /\ MapThenSumSet(LAMBDA p : RowWeight(p[1]), K) = chosen[K]
       /\ MapThenSumSet(LAMBDA p : y[p[1]], K) = chosenToo[K]
    <2> HIDE DEF K, y
    <2>1. QED
        BY DEF MapThenSumSet, MapThenFoldSet, Chosen
<1>12. IsIt(chosen) /\ IsItToo(chosenToo)
    <2> HIDE DEF IsIt, IsItToo, g, K
    <2>1. PICK it : Sums(it, g, K)
        BY <1>4, <1>7, SumsExist
    <2>2. QED
        BY <2>1, <1>9
<1>13. chosen[K] = chosenToo[K]
    <2> HIDE DEF IsIt, IsItToo, chosen, chosenToo, g, K
    <2>1. QED
        BY <1>4, <1>7, <1>9, <1>12, SumIs
<1>14. WeightedMean(ScoreOf, RowWeight, T) = WeightedMeanOf(x, y, T)
    <2>1. Known(LAMBDA e : x[e], T) = K
        BY DEF Known, KnownOf
    <2> HIDE DEF IsIt, IsItToo, chosen, chosenToo, K, x, y
    <2>2. QED
        BY <1>5, <1>10, <1>11, <1>13, <2>1 DEF WeightedMean, WeightedMeanOf
<1> HIDE DEF x, y
<1>15. QED
    BY <1>1, <1>2, <1>14, AllSpanned, WeightedMeanAverages

\* The score of a unit in an area: weighted again over its questions.
LEMMA ByAreaAndUnitAverages ==
    ASSUME AnswerType, NEW area, NEW u
    PROVE  Averages(ByAreaAndUnit(area, u), SubmittedOf(u))
<1> DEFINE R == SubmittedOf(u)
           S == {q \in Questions : AreaOf[q] = area}
           about(q) == {k \in R : k[1] = q}
           inner(q) == WeightedMean(ScoreOf, RowWeight, about(q))
           weight(q) == MapThenSumSet(RowWeight, about(q))
           x == [q \in S |-> inner(q)]
           y == [q \in S |-> weight(q)]
           K == KnownOf(x, S)
           g == [p \in K |-> y[p[1]]]
           IsIt(it) == it = [s \in SUBSET K |-> IF s = {} THEN 0
                               ELSE weight(Chosen(s)[1]) + it[s \ {Chosen(s)}]]
           IsItToo(it) == it = [s \in SUBSET K |-> IF s = {} THEN 0
                                  ELSE y[Chosen(s)[1]] + it[s \ {Chosen(s)}]]
           chosen == CHOOSE it : IsIt(it)
           chosenToo == CHOOSE it : IsItToo(it)
<1>0. R \subseteq Rows
    BY DEF SubmittedOf, Submitted
<1>1. /\ \A q \in S : Averages(x[q], R)
      /\ \A q \in S : y[q] \in Nat
    <2>1. \A q \in S : Averages(inner(q), R) /\ weight(q) \in Nat
        BY <1>0, ByRowsAverages, WeightOfRows
    <2> HIDE DEF inner, weight, R
    <2>2. QED
        BY <2>1
<1>2. IsFiniteSet(S)
    <2>1. IsFiniteSet(Questions)
        BY ChecklistAssumption
    <2>2. QED
        BY <2>1, FS_Subset
<1>3. \A q \in S : x[q] \in Pairs
    <2> HIDE DEF x, S
    <2>1. QED
        BY <1>1 DEF Averages
<1>4. IsFiniteSet(K) /\ \A p \in K : p[1] \in S
    <2> HIDE DEF x, S
    <2>1. QED
        BY <1>2, <1>3, KnownFinite
<1>5. {<<e, x[e]>> : e \in S} = {<<e, inner(e)>> : e \in S}
    <2> HIDE DEF inner, S
    <2>1. QED
        OBVIOUS
<1>6. \A p \in K : y[p[1]] = weight(p[1]) /\ y[p[1]] \in Nat
    <2> HIDE DEF weight, S, K
    <2>1. QED
        BY <1>1, <1>4
<1>7. g \in [K -> Int]
    <2> HIDE DEF K, y, weight
    <2>1. QED
        BY <1>6
<1>8. \A s \in SUBSET K : s # {} => Chosen(s) \in K
    BY DEF Chosen
<1>9. \A it : (IsIt(it) <=> Sums(it, g, K)) /\ (IsItToo(it) <=> Sums(it, g, K))
    <2> HIDE DEF K, y, weight
    <2>1. QED
        BY <1>6, <1>8 DEF Sums
<1>10. {<<p[1], <<p[2][1] * weight(p[1]), p[2][2]>>>> : p \in K}
         = {<<p[1], <<p[2][1] * y[p[1]], p[2][2]>>>> : p \in K}
    <2> DEFINE a(p) == <<p[1], <<p[2][1] * weight(p[1]), p[2][2]>>>>
               b(p) == <<p[1], <<p[2][1] * y[p[1]], p[2][2]>>>>
    <2>1. \A p \in K : a(p) = b(p)
        BY <1>6
    <2> HIDE DEF K, y, weight, a, b
    <2>2. {a(p) : p \in K} = {b(p) : p \in K}
        BY <2>1
    <2>3. QED
        BY <2>2 DEF a, b
<1>11. /\ MapThenSumSet(LAMBDA p : weight(p[1]), K) = chosen[K]
       /\ MapThenSumSet(LAMBDA p : y[p[1]], K) = chosenToo[K]
    <2> HIDE DEF K, y, weight
    <2>1. QED
        BY DEF MapThenSumSet, MapThenFoldSet, Chosen
<1>12. IsIt(chosen) /\ IsItToo(chosenToo)
    <2> HIDE DEF IsIt, IsItToo, g, K
    <2>1. PICK it : Sums(it, g, K)
        BY <1>4, <1>7, SumsExist
    <2>2. QED
        BY <2>1, <1>9
<1>13. chosen[K] = chosenToo[K]
    <2> HIDE DEF IsIt, IsItToo, chosen, chosenToo, g, K
    <2>1. QED
        BY <1>4, <1>7, <1>9, <1>12, SumIs
<1>14. ByAreaAndUnit(area, u) = WeightedMeanOf(x, y, S)
    <2>1. Known(LAMBDA e : x[e], S) = K
        BY DEF Known, KnownOf
    <2>2. Known(LAMBDA e : inner(e), S) = K
        <3> HIDE DEF inner, S, x
        <3>1. QED
            BY <1>5 DEF Known, KnownOf, K
    <2>3. WeightedMeanOf(x, y, S) = WeightedMean(LAMBDA e : inner(e), LAMBDA e : weight(e), S)
        <3> HIDE DEF IsIt, IsItToo, chosen, chosenToo, K, x, y, inner, weight, S
        <3>1. QED
            BY <1>10, <1>11, <1>13, <2>1, <2>2 DEF WeightedMean, WeightedMeanOf
    <2>4. ByAreaAndUnit(area, u) = WeightedMean(LAMBDA e : inner(e), LAMBDA e : weight(e), S)
        BY DEF ByAreaAndUnit
    <2> HIDE DEF IsIt, IsItToo, chosen, chosenToo, K, x, y, inner, weight, S
    <2>5. QED
        BY <2>3, <2>4
<1> HIDE DEF x, y, S, R
<1>15. QED
    BY <1>0, <1>1, <1>2, <1>14, AllSpanned, WeightedMeanAverages DEF R

\* No average leaves the range of the scores it is taken over.
LEMMA AllInRange == AnswerType => AveragesInRange
<1> SUFFICES ASSUME AnswerType
             PROVE  AveragesInRange
    OBVIOUS
<1>1. Submitted \subseteq Rows /\ \A u : SubmittedOf(u) \subseteq Rows
    BY DEF Submitted, SubmittedOf
<1>2. ASSUME NEW R, R \subseteq Rows, NEW qs, qs \subseteq Questions
      PROVE  InRangeOf(UnderHeading(R, qs), R)
    <2>1. Averages(UnderHeading(R, qs), R)
        BY <1>2, UnderHeadingAverages
    <2>2. QED
        BY <1>2, <2>1, AverageInRange
<1>3. ASSUME NEW R \in {Submitted} \cup {SubmittedOf(UnitOf(k)) : k \in Rows}
      PROVE  /\ \A area \in {AreaOf[q] : q \in Questions} : InRangeOf(ByArea(R, area), R)
             /\ InRangeOf(Overall(R), R)
    <2>1. R \subseteq Rows
        BY <1>1
    <2>2. ASSUME NEW area
          PROVE  InRangeOf(ByArea(R, area), R)
        BY <1>2, <2>1 DEF ByArea
    <2>3. Averages(Overall(R), R)
        BY <2>1, OverallAverages
    <2>4. InRangeOf(Overall(R), R)
        BY <2>1, <2>3, AverageInRange
    <2>5. QED
        BY <2>2, <2>4
<1>4. ASSUME NEW p
      PROVE  InRangeOf(ByPrinciple(p), Submitted)
    BY <1>1, <1>2 DEF ByPrinciple
<1>5. ASSUME NEW name
      PROVE  InRangeOf(ByRisk(name), OfRisk(name))
    <2>1. OfRisk(name) \subseteq Rows
        BY <1>1 DEF OfRisk
    <2>2. QED
        BY <1>2, <2>1 DEF ByRisk
<1>6. ASSUME NEW line
      PROVE  InRangeOf(ByUnit(line), {k \in Submitted : Line(k) = line})
    <2>1. {k \in Submitted : Line(k) = line} \subseteq Rows
        BY <1>1
    <2>2. QED
        BY <1>2, <2>1 DEF ByUnit
<1>7. ASSUME NEW g
      PROVE  InRangeOf(ByGroup(g), {k \in Submitted : GroupOf(UnitOf(k)) = g})
    <2>1. {k \in Submitted : GroupOf(UnitOf(k)) = g} \subseteq Rows
        BY <1>1
    <2>2. Averages(ByGroup(g), {k \in Submitted : GroupOf(UnitOf(k)) = g})
        BY ByGroupAverages
    <2>3. QED
        BY <2>1, <2>2, AverageInRange
<1>8. ASSUME NEW area, NEW u
      PROVE  InRangeOf(ByAreaAndUnit(area, u), SubmittedOf(u))
    <2>1. Averages(ByAreaAndUnit(area, u), SubmittedOf(u))
        BY ByAreaAndUnitAverages
    <2>2. QED
        BY <1>1, <2>1, AverageInRange
<1>9. QED
    BY <1>3, <1>4, <1>5, <1>6, <1>7, <1>8 DEF AveragesInRange

\* No average of validation scores that the reports show leaves the range of the
\* scores it summarises, for any questions, areas, principles, units and weights, and however many of the
\* rows have a score (reporting.ts, the summary of a cycle, and Reports.tsx).
THEOREM ReportAveragesInRange == Spec => []AveragesInRange
BY RowsInvariance, AllInRange, PTL

-----------------------------------------------------------------------------
(* The counts *)

\* A question is listed when every unit expected has an answer with a validation.
LEMMA ListedUnits ==
    ASSUME NEW q \in Questions, Listed(q)
    PROVE  {UnitOf(k) : k \in Joined(q)} = Expected(q)
<1>1. {UnitOf(k) : k \in Joined(q)} \subseteq Expected(q)
    BY DEF Joined
<1>2. Cardinality({UnitOf(k) : k \in Joined(q)}) = Cardinality(Expected(q))
    BY DEF Listed
<1>3. QED
    BY <1>1, <1>2, ExpectedFinite, FS_Subset

LEMMA ListedJoined ==
    ASSUME NEW q \in Questions, Listed(q)
    PROVE  Joined(q) = {k \in Validated(q) : UnitOf(k) \in Expected(q)}
<1>1. ASSUME NEW k \in Validated(q), UnitOf(k) \in Expected(q)
      PROVE  k \in Joined(q)
    <2>1. PICK j \in Joined(q) : UnitOf(j) = UnitOf(k)
        BY <1>1, ListedUnits
    <2>2. UnitOf(k) \in SubmittedUnits(q)
        BY <2>1 DEF Joined
    <2>3. QED
        BY <1>1, <2>2 DEF Joined, Validated
<1>2. Joined(q) \subseteq {k \in Validated(q) : UnitOf(k) \in Expected(q)}
    BY DEF Joined, Validated
<1>3. QED
    BY <1>1, <1>2

\* What the overview lists is counted by the summary and the dashboard.
LEMMA ListedCounts ==
    ASSUME NEW q \in Questions, Listed(q), \E k \in Joined(q) : validation[k] = "pending_approval"
    PROVE  /\ Awaiting(q)
           /\ AssignedUnits(q) \subseteq Expected(q) => DashboardPending(q)
<1> DEFINE joined == {k \in Validated(q) : UnitOf(k) \in Expected(q)}
<1>1. joined = Joined(q)
    BY ListedJoined
<1>2. \A k \in joined : validation[k] \in {"pending_approval", "closed"}
    BY <1>1 DEF Listed
<1>3. {UnitOf(k) : k \in joined} = Expected(q)
    BY <1>1, ListedUnits
<1>4. Awaiting(q)
    BY <1>1, <1>2, <1>3 DEF Awaiting
<1>5. ASSUME AssignedUnits(q) \subseteq Expected(q)
      PROVE  DashboardPending(q)
    <2>1. Validated(q) = joined
        BY <1>5 DEF Validated, AssignedUnits
    <2>2. QED
        BY <1>1, <1>2, <2>1 DEF DashboardPending
<1>6. QED
    BY <1>4, <1>5

\* A question whose units are all expected is approved when it is counted closed.
LEMMA ListedClosed ==
    ASSUME NEW q \in Questions, Listed(q), AssignedUnits(q) \subseteq Expected(q)
    PROVE  /\ Approved(q) <=> CountedClosed(q)
           /\ (\A j, k \in RowsAbout(q) : UnitOf(j) = UnitOf(k) => j = k) => Weighed(q)
<1>1. Shown(q) = Validated(q) /\ Validated(q) \subseteq RowsAbout(q)
    BY DEF Shown, Validated
<1>2. ASSUME NEW k \in RowsAbout(q)
      PROVE  \E j \in Joined(q) : UnitOf(j) = UnitOf(k)
    BY ListedUnits DEF AssignedUnits
<1>3. Joined(q) \subseteq Validated(q) /\ Joined(q) # {}
    BY DEF Joined, Validated, Listed
<1>4. ASSUME Approved(q)
      PROVE  CountedClosed(q)
    <2>1. RowsAbout(q) # {} /\ \A k \in Validated(q) : validation[k] = "closed"
        BY <1>1, <1>4 DEF Approved
    <2>2. \A k \in RowsAbout(q) : InUnitsOf(Validated(q), k) # {}
        BY <1>2, <1>3 DEF InUnitsOf
    <2>3. QED
        BY <2>1, <2>2 DEF CountedClosed, InUnitsOf
<1>5. ASSUME CountedClosed(q)
      PROVE  Approved(q)
    <2>1. \A k \in Validated(q) : k \in InUnitsOf(Validated(q), k)
        BY DEF InUnitsOf
    <2>2. \A k \in Validated(q) : validation[k] = "closed"
        BY <1>1, <1>5, <2>1 DEF CountedClosed
    <2>3. QED
        BY <1>1, <1>3, <2>2 DEF Approved
<1>6. ASSUME \A j, k \in RowsAbout(q) : UnitOf(j) = UnitOf(k) => j = k, NEW k \in Validated(q)
      PROVE  k \in Answered(q)
    <2>1. PICK j \in Joined(q) : UnitOf(j) = UnitOf(k)
        BY <1>1, <1>2
    <2>2. PICK i \in RowsAbout(q) : response[i] = "submitted" /\ UnitOf(i) = UnitOf(j)
        BY <2>1 DEF Joined, SubmittedUnits
    <2>3. i = k
        BY <1>1, <1>6, <2>1, <2>2
    <2>4. QED
        BY <1>1, <2>2, <2>3 DEF Answered, Validated
<1>7. QED
    BY <1>1, <1>4, <1>5, <1>6 DEF Weighed

LEMMA ClosedCounts ==
    ASSUME NEW q \in Questions, CountedClosed(q)
    PROVE  DashboardClosed(q) /\ ~Awaiting(q)
<1>1. \A k \in Validated(q) : k \in RowsAbout(q) /\ k \in InUnitsOf(Validated(q), k)
    BY DEF InUnitsOf, Validated
<1>2. \A k \in Validated(q) : validation[k] = "closed"
    BY <1>1 DEF CountedClosed
<1>3. Validated(q) # {}
    BY DEF CountedClosed, InUnitsOf
<1>4. QED
    BY <1>2, <1>3 DEF DashboardClosed, Awaiting

\* When no unit has an answer left to submit, every question is submitted.
LEMMA SubmittedCounts ==
    ASSUME AnswerType, NEW q \in Questions, RowsAbout(q) # {},
           \A k \in Rows : LET p == Productivity(UnitOf(k)) IN p[1] = p[2]
    PROVE  CountedSubmitted(q)
<1>1. ASSUME NEW k \in Rows
      PROVE  k \in Submitted
    <2> DEFINE u == UnitOf(k)
               rows == {j \in Rows : UnitOf(j) = u}
    <2>1. SubmittedOf(u) \subseteq rows
        BY DEF SubmittedOf, Submitted
    <2>2. Cardinality(SubmittedOf(u)) = Cardinality(rows)
        BY DEF Productivity
    <2>3. IsFiniteSet(rows)
        BY SubFinite
    <2>4. SubmittedOf(u) = rows
        <3> HIDE DEF rows, u
        <3>1. QED
            BY <2>1, <2>2, <2>3, FS_Subset
    <2>5. k \in rows
        OBVIOUS
    <2>6. QED
        BY <2>4, <2>5 DEF SubmittedOf
<1>2. SubmittedUnits(q) = AssignedUnits(q)
    BY <1>1 DEF SubmittedUnits, AssignedUnits, RowsAbout, Submitted
<1>3. QED
    BY <1>2 DEF CountedSubmitted

\* Of less than 200 rows none is rounded away.
LEMMA AllOf ==
    ASSUME NEW n \in Nat, NEW m \in Nat, m < 200, n <= m, m # 0, Percent(n, m) = 100
    PROVE  n = m
<1> DEFINE a == 200 * n + m
           b == 2 * m
<1>1. a \in Int /\ b \in Int /\ b > 0 /\ a \div b = 100
    BY DEF Percent
<1>2. b * (a \div b) <= a
    <2> HIDE DEF a, b
    <2>1. QED
        BY <1>1
<1>3. b * 100 <= a
    BY <1>1, <1>2
<1>4. 200 * m <= 200 * n + m
    BY <1>3
<1>5. QED
    BY <1>4

\* A unit is reported as submitted or validated when nothing of it is missing.
LEMMA BadgeCounts ==
    ASSUME AnswerType, NEW j \in Rows, NEW rows, rows = {k \in Rows : Line(k) = Line(j)},
           Cardinality(rows) < 200
    PROVE  /\ Badge(Line(j)) = "Submitted" => rows \subseteq Submitted
           /\ Badge(Line(j)) = "Validated" =>
                rows \subseteq Submitted /\ \A k \in rows : score[k] # 0
<1> DEFINE submitted == rows \cap Submitted
           marked == {k \in submitted : score[k] # 0}
           f == [k \in marked |-> k[1]]
           validated == {k[1] : k \in marked}
           n == Cardinality(validated)
           m == Cardinality(rows)
<1>1. IsFiniteSet(rows) /\ IsFiniteSet(marked) /\ rows # {}
    BY SubFinite
<1>2. f \in Surjection(marked, validated)
    BY DEF Surjection
<1>3. n <= Cardinality(marked) /\ IsFiniteSet(validated)
    <2> HIDE DEF f, marked, validated
    <2>1. QED
        BY <1>1, <1>2, FS_Surjection
<1>4. /\ Cardinality(marked) <= m
      /\ Cardinality(marked) = m => marked = rows
    <2>1. marked \in SUBSET rows
        OBVIOUS
    <2> HIDE DEF marked
    <2>2. QED
        BY <1>1, <2>1, FS_Subset
<1>5. n \in Nat /\ m \in Nat /\ m # 0 /\ Cardinality(marked) \in Nat /\ (n = 0 <=> validated = {})
    <2> HIDE DEF marked, validated
    <2>1. QED
        BY <1>1, <1>3, FS_CardinalityType, FS_EmptySet
<1>6. n = m => marked = rows
    <2> HIDE DEF n, m
    <2>1. QED
        BY <1>3, <1>4, <1>5
<1>7. submitted \in SUBSET rows /\ Cardinality(submitted) \in Nat /\ Cardinality(submitted) <= m
      /\ (Cardinality(submitted) = m => submitted = rows)
    <2>1. submitted \in SUBSET rows
        OBVIOUS
    <2> HIDE DEF submitted
    <2>2. QED
        BY <1>1, <2>1, FS_Subset, FS_CardinalityType
<1>8. Badge(Line(j)) =
        IF Percent(n, m) = 100 THEN "Validated"
        ELSE IF validated # {} THEN "In Validation"
        ELSE IF Percent(Cardinality(submitted), m) = 100 THEN "Submitted"
        ELSE IF submitted # {} THEN "In Progress"
        ELSE "Pending"
    BY <1>1 DEF Badge
<1>9. n <= m
    <2> HIDE DEF n, m
    <2>1. QED
        BY <1>3, <1>4, <1>5
<1> HIDE DEF n, validated, submitted
<1>10. Badge(Line(j)) = "Submitted" => submitted = rows
    <2> SUFFICES ASSUME Badge(Line(j)) = "Submitted"
                 PROVE  submitted = rows
        OBVIOUS
    <2>1. Percent(Cardinality(submitted), m) = 100
        BY <1>8
    <2>2. QED
        BY <1>5, <1>7, <2>1, AllOf
<1>11. Badge(Line(j)) = "Validated" => n = m
    <2> SUFFICES ASSUME Badge(Line(j)) = "Validated"
                 PROVE  n = m
        OBVIOUS
    <2>1. Percent(n, m) = 100
        BY <1>8
    <2>2. QED
        BY <1>5, <1>9, <2>1, AllOf
<1>12. QED
    BY <1>6, <1>10, <1>11 DEF submitted

-----------------------------------------------------------------------------
(* The spreadsheet *)

LEMMA FirstPart ==
    ASSUME NEW code \in Codes, NEW risk \in Risks
    PROVE  CodeOf[Resolved(code, risk)] = CodeOf[code]
BY ReportingAssumption DEF Resolved

\* Two lines of the spreadsheet that look alike are one.
LEMMA LinesApart ==
    ASSUME CycleType, DistributedFromItsChecklist, status = "distributed", ~overtaken,
           ~lost, file # <<>>, NamedApart(file)
    PROVE  \A j, k \in Rows : Exported(j) = Exported(k) => j = k
<1>1. file \in Checklists /\ assigned = RowsOf(file)
    BY DEF CycleType, DistributedFromItsChecklist, RowsFor
<1>2. file \in Seq(Entries)
    BY <1>1, ChecklistAssumption
<1>3. Rows = {RowKey(file[i]) : i \in DOMAIN file}
    BY <1>1 DEF Rows, RowsOf
<1>4. \A i \in DOMAIN file : file[i].code \in Codes /\ file[i].risk \in Risks
    <2>1. \A i \in DOMAIN file : file[i] \in Entries
        BY <1>2
    <2>2. QED
        BY <2>1 DEF Entries
<1> SUFFICES ASSUME NEW j \in Rows, NEW k \in Rows, Exported(j) = Exported(k)
             PROVE  j = k
    OBVIOUS
<1>5. PICK i \in DOMAIN file, n \in DOMAIN file : j = RowKey(file[i]) /\ k = RowKey(file[n])
    BY <1>3
<1>6. /\ CodeOf[UnitOf(j)] = CodeOf[file[i].code] /\ CodeOf[UnitOf(k)] = CodeOf[file[n].code]
    BY <1>4, <1>5, FirstPart DEF UnitOf, RowKey
<1>7. CodeOf[UnitOf(j)] = CodeOf[UnitOf(k)] /\ j[1] = k[1] /\ RiskName(j[3]) = RiskName(k[3])
    BY DEF Exported
<1>8. file[i].question = file[n].question /\ RiskName(file[i].risk) = RiskName(file[n].risk)
    BY <1>5, <1>7 DEF RowKey
<1>9. file[i].code = file[n].code /\ file[i].risk = file[n].risk
    BY <1>6, <1>7, <1>8 DEF NamedApart
<1>10. QED
    BY <1>5, <1>8, <1>9 DEF RowKey

-----------------------------------------------------------------------------
(* The trend *)

\* How many of the elements of s have the value v.
HowMany(f, s, v) == Cardinality({x \in s : f[x] = v})

\* A sum of scores, and how many there are, from how often each occurs.
LEMMA SumByValue ==
    ASSUME NEW S, IsFiniteSet(S), NEW f \in [S -> 1 .. 4]
    PROVE  /\ \A v \in 1 .. 4 : HowMany(f, S, v) \in Nat
           /\ SumOf(f, S) = HowMany(f, S, 1) + 2 * HowMany(f, S, 2)
                         + 3 * HowMany(f, S, 3) + 4 * HowMany(f, S, 4)
           /\ Cardinality(S) = HowMany(f, S, 1) + HowMany(f, S, 2)
                               + HowMany(f, S, 3) + HowMany(f, S, 4)
<1>1. f \in [S -> Int]
    OBVIOUS
<1>2. PICK it \in [SUBSET S -> Int] : Sums(it, f, S)
    BY <1>1, SumsExist
<1>3. AddsUp(it, f, S)
    BY <1>1, <1>2, SumsStep
<1>4. ASSUME NEW s \in SUBSET S, NEW v
      PROVE  HowMany(f, s, v) \in Nat
    <2>1. IsFiniteSet({x \in s : f[x] = v})
        BY FS_Subset
    <2>2. QED
        BY <2>1, FS_CardinalityType DEF HowMany
<1>5. ASSUME NEW s \in SUBSET S, NEW x \in s, NEW v
      PROVE  HowMany(f, s, v) = HowMany(f, s \ {x}, v) + (IF f[x] = v THEN 1 ELSE 0)
    <2> DEFINE X == {y \in s : f[y] = v}
    <2>1. IsFiniteSet(X)
        BY FS_Subset
    <2>2. {y \in s \ {x} : f[y] = v} = X \ {x}
        OBVIOUS
    <2>3. Cardinality(X \ {x}) = IF x \in X THEN Cardinality(X) - 1 ELSE Cardinality(X)
        BY <2>1, FS_RemoveElement
    <2>4. x \in X <=> f[x] = v
        OBVIOUS
    <2>5. Cardinality(X) \in Nat
        BY <2>1, FS_CardinalityType
    <2>6. HowMany(f, s, v) = Cardinality(X) /\ HowMany(f, s \ {x}, v) = Cardinality(X \ {x})
        BY <2>2 DEF HowMany
    <2> HIDE DEF X
    <2>7. QED
        BY <2>3, <2>4, <2>5, <2>6
<1> DEFINE T == {s \in SUBSET S :
                   /\ it[s] = HowMany(f, s, 1) + 2 * HowMany(f, s, 2)
                                 + 3 * HowMany(f, s, 3) + 4 * HowMany(f, s, 4)
                   /\ Cardinality(s) = HowMany(f, s, 1) + HowMany(f, s, 2)
                                       + HowMany(f, s, 3) + HowMany(f, s, 4)}
<1>6. ASSUME NEW s \in SUBSET S, \A x \in s : s \ {x} \in T
      PROVE  s \in T
    <2>1. CASE s = {}
        <3>1. \A v : {x \in s : f[x] = v} = {}
            BY <2>1
        <3>2. \A v : HowMany(f, s, v) = 0
            BY <3>1, FS_EmptySet DEF HowMany
        <3>3. it[s] = 0 /\ Cardinality(s) = 0
            BY <1>2, <2>1, FS_EmptySet DEF Sums
        <3>4. QED
            BY <3>2, <3>3
    <2>2. CASE s # {}
        <3>1. PICK x \in s : TRUE
            BY <2>2
        <3> DEFINE r == s \ {x}
        <3>2. it[s] = f[x] + it[r]
            BY <1>3 DEF AddsUp
        <3>3. IsFiniteSet(s)
            BY FS_Subset
        <3>4. Cardinality(r) = Cardinality(s) - 1 /\ Cardinality(s) \in Nat
            BY <3>3, FS_RemoveElement, FS_CardinalityType
        <3>5. /\ it[r] = HowMany(f, r, 1) + 2 * HowMany(f, r, 2)
                            + 3 * HowMany(f, r, 3) + 4 * HowMany(f, r, 4)
              /\ Cardinality(r) = HowMany(f, r, 1) + HowMany(f, r, 2)
                                  + HowMany(f, r, 3) + HowMany(f, r, 4)
            BY <1>6
        <3>6. \A v : HowMany(f, s, v) = HowMany(f, r, v) + (IF f[x] = v THEN 1 ELSE 0)
            BY <1>5
        <3>7. \A v : HowMany(f, r, v) \in Nat
            BY <1>4
        <3>8. f[x] \in 1 .. 4
            OBVIOUS
        <3> HIDE DEF r, T
        <3>9. QED
            BY <3>2, <3>4, <3>5, <3>6, <3>7, <3>8 DEF T
    <2>3. QED
        BY <2>1, <2>2
<1>7. \A s \in SUBSET S : s \in T
    <2> HIDE DEF T
    <2>1. QED
        BY <1>6, SubsetInduction
<1>8. it[S] = SumOf(f, S)
    BY <1>1, <1>2, SumIs
<1>9. QED
    BY <1>4, <1>7, <1>8

\* The sum of at most four numbers.
Part(f, S, v) == IF v \in S THEN f[v] ELSE 0

LEMMA SumOfFour ==
    ASSUME NEW S, S \subseteq 1 .. 4, NEW f \in [S -> Int]
    PROVE  SumOf(f, S) = Part(f, S, 1) + Part(f, S, 2) + Part(f, S, 3) + Part(f, S, 4)
<1> DEFINE g == [v \in 1 .. 4 |-> Part(f, S, v)]
<1>0. /\ g \in [1 .. 4 -> Int]
      /\ \A v \in 1 .. 4 : g[v] = IF v \in S THEN f[v] ELSE 0
      /\ g[1] = Part(f, S, 1) /\ g[2] = Part(f, S, 2)
      /\ g[3] = Part(f, S, 3) /\ g[4] = Part(f, S, 4)
    BY DEF Part
<1> HIDE DEF g
<1>1. IsFiniteSet(S)
    <2>1. IsFiniteSet(1 .. 4)
        BY 1 \in Int, 4 \in Int, FS_Interval
    <2>2. QED
        BY <2>1, FS_Subset
<1>2. PICK it \in [SUBSET S -> Int] : Sums(it, f, S)
    BY <1>1, SumsExist
<1>3. AddsUp(it, f, S)
    BY <1>1, <1>2, SumsStep
<1>4. ASSUME NEW s \in SUBSET S, NEW v \in 1 .. 4, v \in S => v \in s
      PROVE  it[s] = g[v] + it[s \ {v}]
    <2>1. CASE v \in S
        BY <1>0, <1>3, <1>4, <2>1 DEF AddsUp
    <2>2. CASE v \notin S
        <3>1. s \ {v} = s /\ g[v] = 0 /\ it[s] \in Int
            BY <1>0, <2>2
        <3>2. it[s] = 0 + it[s]
            BY <3>1
        <3>3. QED
            BY <3>1, <3>2
    <2>3. QED
        BY <2>1, <2>2
<1>5. ASSUME NEW s \in SUBSET S, NEW v \in 1 .. 4, v \in S => v \in s, NEW r, r = s \ {v}
      PROVE  it[s] = g[v] + it[r]
    BY <1>4, <1>5
<1> DEFINE s1 == S \ {1}
           s2 == s1 \ {2}
           s3 == s2 \ {3}
<1>6. /\ S \in SUBSET S /\ s1 \in SUBSET S /\ s2 \in SUBSET S /\ s3 \in SUBSET S /\ {} = s3 \ {4}
      /\ 2 \in S => 2 \in s1
      /\ 3 \in S => 3 \in s2
      /\ 4 \in S => 4 \in s3
      /\ s1 = S \ {1} /\ s2 = s1 \ {2} /\ s3 = s2 \ {3}
      /\ 1 \in 1 .. 4 /\ 2 \in 1 .. 4 /\ 3 \in 1 .. 4 /\ 4 \in 1 .. 4
    OBVIOUS
<1> HIDE DEF s1, s2, s3
<1>7. it[S] = g[1] + it[s1]
    BY <1>5, <1>6
<1>8. it[s1] = g[2] + it[s2]
    BY <1>5, <1>6
<1>9. it[s2] = g[3] + it[s3]
    BY <1>5, <1>6
<1>10. it[s3] = g[4] + it[{}]
    <2>1. it[s3] = g[4] + it[s3 \ {4}]
        BY <1>4, <1>6
    <2>2. QED
        BY <1>6, <2>1
<1>11. it[{}] = 0
    BY <1>2, <1>6 DEF Sums
<1>12. it[S] = SumOf(f, S)
    BY <1>1, <1>2, SumIs
<1>13. QED
    BY <1>0, <1>7, <1>8, <1>9, <1>10, <1>11, <1>12

\* A total of whole numbers is their sum.
LEMMA TotalOfWhole ==
    ASSUME NEW P, IsFiniteSet(P), NEW f \in [P -> Int], \A p \in P : p[2] = <<f[p], 1>>
    PROVE  Total(P) = <<SumOf(f, P), 1>>
<1>1. ASSUME NEW p \in P
      PROVE  p[2] \in Fractions
    <2>1. p[2] = <<f[p], 1>> /\ f[p] \in Int
        OBVIOUS
    <2>2. QED
        BY <2>1 DEF Fractions
<1>2. PICK it \in [SUBSET P -> Fractions] : Totals(it, P) /\ it[P] = Total(P)
    BY <1>1, TotalIs
<1>3. PICK jt \in [SUBSET P -> Int] : Sums(jt, f, P)
    BY SumsExist
<1> DEFINE T == {s \in SUBSET P : it[s] = <<jt[s], 1>>}
<1>4. ASSUME NEW s \in SUBSET P, \A x \in s : s \ {x} \in T
      PROVE  s \in T
    <2>1. CASE s = {}
        BY <1>2, <1>3, <2>1 DEF Totals, Sums
    <2>2. CASE s # {}
        <3> DEFINE c == Chosen(s)
                   b == jt[s \ {c}]
        <3>1. c \in s
            BY <2>2 DEF Chosen
        <3>2. it[s] = Plus(c[2], it[s \ {c}]) /\ jt[s] = f[c] + b
            BY <1>2, <1>3, <2>2 DEF Totals, Sums
        <3>3. it[s \ {c}] = <<b, 1>> /\ c[2] = <<f[c], 1>> /\ b \in Int /\ f[c] \in Int
            BY <1>4, <3>1
        <3> HIDE DEF b, c
        <3>4. Plus(<<f[c], 1>>, <<b, 1>>) = <<f[c] + b, 1>>
            BY <3>3 DEF Plus
        <3>5. QED
            BY <3>2, <3>3, <3>4
    <2>3. QED
        BY <2>1, <2>2
<1>5. \A s \in SUBSET P : s \in T
    <2> HIDE DEF T
    <2>1. QED
        BY <1>4, SubsetInduction
<1>6. jt[P] = SumOf(f, P)
    BY <1>3, SumIs
<1>7. QED
    BY <1>2, <1>5, <1>6

\* How many rows have the score v.
Marks(v) == Cardinality({k \in Rows : score[k] = v})

\* The trend's average is over each scored row as often as there are rows.
LEMMA TrendIs ==
    ASSUME AnswerType, \A k \in Rows : validation[k] = "closed"
    PROVE  /\ \A v \in 1 .. 4 : Marks(v) \in Nat
           /\ Cardinality(Rows) \in Nat
           /\ TrendScore =
                <<Cardinality(Rows) * (Marks(1) + 2 * Marks(2) + 3 * Marks(3) + 4 * Marks(4)),
                  Cardinality(Rows) * (Marks(1) + Marks(2) + Marks(3) + Marks(4))>>
<1> DEFINE S == {k \in Rows : validation[k] # "none"} \X Rows
           P == {p \in {<<j, ScoreOf(j[1])>> : j \in S} : ~IsNull(p[2])}
           f == [p \in P |-> score[p[1][1]]]
           t == Total(P)
           n == Cardinality(Rows)
<1>1. IsFiniteSet(Rows) /\ n \in Nat
    BY SubFinite, FS_CardinalityType
<1>2. S = Rows \X Rows
    BY <1>1
<1>3. TrendScore = <<t[1], t[2] * Cardinality(P)>>
    BY DEF TrendScore, Mean, Known
<1>4. P = {<<j, <<score[j[1]], 1>>>> : j \in {j \in S : score[j[1]] # 0}}
    BY DEF ScoreOf, IsNull, Null
<1>5. \A p \in P : p[1] \in S /\ p[2] = <<score[p[1][1]], 1>> /\ score[p[1][1]] # 0
    BY <1>4
<1>6. f \in [P -> 1 .. 4] /\ f \in [P -> Int]
    <2>1. \A p \in P : p[1][1] \in Rows
        BY <1>2, <1>5
    <2>2. \A p \in P : score[p[1][1]] \in 1 .. 4
        BY <1>5, <2>1, ScoreType
    <2> HIDE DEF P, S
    <2>3. QED
        BY <2>2
<1>7. ASSUME NEW v \in 1 .. 4
      PROVE  /\ IsFiniteSet({p \in P : f[p] = v})
             /\ HowMany(f, P, v) = n * Marks(v) /\ Marks(v) \in Nat
    <2> DEFINE R == {k \in Rows : score[k] = v}
               h == [j \in R \X Rows |-> <<j, <<v, 1>>>>]
               T == {p \in P : f[p] = v}
    <2>1. IsFiniteSet(R) /\ Cardinality(R) \in Nat
        BY SubFinite, FS_CardinalityType
    <2>2. IsFiniteSet(R \X Rows) /\ Cardinality(R \X Rows) = Cardinality(R) * n
        <3> HIDE DEF R
        <3>1. QED
            BY <1>1, <2>1, FS_Product
    <2>3. T = {<<j, <<v, 1>>>> : j \in R \X Rows}
        <3>1. ASSUME NEW p \in T
              PROVE  p \in {<<j, <<v, 1>>>> : j \in R \X Rows}
            <4>1. PICK j \in S : p = <<j, <<score[j[1]], 1>>>>
                BY <1>4
            <4>2. score[j[1]] = v
                BY <4>1
            <4>3. j \in R \X Rows
                BY <1>2, <4>2
            <4>4. QED
                BY <4>1, <4>2, <4>3
        <3>2. ASSUME NEW j \in R \X Rows
              PROVE  <<j, <<v, 1>>>> \in T
            <4>1. j \in S /\ score[j[1]] = v /\ v # 0
                BY <1>2
            <4>2. <<j, <<v, 1>>>> \in P
                BY <1>4, <4>1
            <4>3. QED
                BY <4>1, <4>2
        <3> HIDE DEF T, R
        <3>3. QED
            BY <3>1, <3>2
    <2>4. h \in Bijection(R \X Rows, T)
        <3>1. \A i, j \in R \X Rows : h[i] = h[j] => i = j
            OBVIOUS
        <3> HIDE DEF T, R
        <3>2. h \in [R \X Rows -> T] /\ \A p \in T : \E j \in R \X Rows : h[j] = p
            BY <2>3
        <3> HIDE DEF h
        <3> DEFINE X == R \X Rows
        <3>3. h \in Injection(X, T) /\ h \in Surjection(X, T)
            <4>1. h \in [X -> T] /\ (\A i, j \in X : h[i] = h[j] => i = j)
                BY <3>1, <3>2
            <4>2. \A p \in T : \E j \in X : h[j] = p
                BY <3>2
            <4> HIDE DEF X
            <4>3. QED
                BY <4>1, <4>2 DEF Injection, IsInjective, Surjection
        <3>4. QED
            BY <3>3 DEF Bijection
    <2>5. IsFiniteSet(T) /\ Cardinality(T) = Cardinality(R \X Rows)
        <3> HIDE DEF T, R, h
        <3>1. QED
            BY <2>2, <2>4, FS_Bijection DEF ExistsBijection
    <2>6. Marks(v) = Cardinality(R) /\ HowMany(f, P, v) = Cardinality(T)
        BY DEF Marks, HowMany
    <2> HIDE DEF T, R, f, P, n
    <2>7. Cardinality(R) * n = n * Cardinality(R)
        BY <1>1, <2>1
    <2>8. IsFiniteSet(T) /\ HowMany(f, P, v) = n * Marks(v) /\ Marks(v) \in Nat
        BY <2>1, <2>2, <2>5, <2>6, <2>7
    <2>9. QED
        BY <2>8 DEF T
<1>8. IsFiniteSet(P)
    <2> DEFINE g == [j \in S |-> <<j, ScoreOf(j[1])>>]
    <2>1. IsFiniteSet(S)
        BY <1>1, <1>2, FS_Product
    <2>2. DOMAIN g = S /\ P \subseteq {g[j] : j \in S}
        OBVIOUS
    <2> HIDE DEF g, S, P
    <2>3. IsFiniteSet({g[j] : j \in S})
        BY <2>1, <2>2, ImageFinite
    <2>4. QED
        BY <2>2, <2>3, FS_Subset
<1>9. t = <<SumOf(f, P), 1>>
    <2>1. \A p \in P : p[2] = <<f[p], 1>>
        BY <1>5
    <2> HIDE DEF f, P
    <2>2. QED
        BY <1>6, <1>8, <2>1, TotalOfWhole
<1> HIDE DEF f, P, n, t, S
<1>10. /\ SumOf(f, P) = n * Marks(1) + 2 * (n * Marks(2)) + 3 * (n * Marks(3)) + 4 * (n * Marks(4))
       /\ Cardinality(P) = n * Marks(1) + n * Marks(2) + n * Marks(3) + n * Marks(4)
    <2>1. /\ SumOf(f, P) = HowMany(f, P, 1) + 2 * HowMany(f, P, 2)
                        + 3 * HowMany(f, P, 3) + 4 * HowMany(f, P, 4)
          /\ Cardinality(P) = HowMany(f, P, 1) + HowMany(f, P, 2)
                              + HowMany(f, P, 3) + HowMany(f, P, 4)
        BY <1>6, <1>8, SumByValue
    <2>2. \A v \in {1, 2, 3, 4} : HowMany(f, P, v) = n * Marks(v)
        BY <1>7
    <2>3. QED
        BY <2>1, <2>2
<1>11. Marks(1) \in Nat /\ Marks(2) \in Nat /\ Marks(3) \in Nat /\ Marks(4) \in Nat
    BY <1>7
<1>12. /\ SumOf(f, P) = n * (Marks(1) + 2 * Marks(2) + 3 * Marks(3) + 4 * Marks(4))
       /\ Cardinality(P) = n * (Marks(1) + Marks(2) + Marks(3) + Marks(4))
       /\ Cardinality(P) \in Int
    BY <1>1, <1>10, <1>11
<1>13. TrendScore = <<SumOf(f, P), Cardinality(P)>>
    BY <1>3, <1>9, <1>12
<1>14. QED
    BY <1>1, <1>7, <1>12, <1>13 DEF n

\* The average of the trend is that of the distribution.
LEMMA TrendAgrees ==
    ASSUME AnswerType, \A k \in Rows : validation[k] = "closed"
    PROVE  TrendScore[1] * MapThenSumSet(LAMBDA s : Distribution[s], Scores)
             = TrendScore[2] * MapThenSumSet(LAMBDA s : s * Distribution[s], Scores)
<1> DEFINE f == [s \in Scores |-> Marks(s)]
           g == [s \in Scores |-> s * Marks(s)]
           n == Cardinality(Rows)
           a == Marks(1) + Marks(2) + Marks(3) + Marks(4)
           b == Marks(1) + 2 * Marks(2) + 3 * Marks(3) + 4 * Marks(4)
           IsIt(it) == it = [s \in SUBSET Scores |-> IF s = {} THEN 0
                               ELSE Chosen(s) * Distribution[Chosen(s)] + it[s \ {Chosen(s)}]]
           chosen == CHOOSE it : IsIt(it)
<1>1. \A v \in 1 .. 4 : Marks(v) \in Nat
    BY TrendIs
<1>2. Scores \subseteq 1 .. 4 /\ IsFiniteSet(Scores)
    <2>1. IsFiniteSet(1 .. 4)
        BY 1 \in Int, 4 \in Int, FS_Interval
    <2>2. QED
        BY <2>1, ChecklistAssumption, FS_Subset
<1>3. f \in [Scores -> Int] /\ g \in [Scores -> Int]
    BY <1>1, <1>2
<1>4. \A s \in Scores : Distribution[s] = Marks(s)
    <2>1. \A s : {k \in Rows : validation[k] = "closed" /\ score[k] = s}
                = {k \in Rows : score[k] = s}
        OBVIOUS
    <2>2. QED
        BY <2>1 DEF Distribution, Marks
<1>5. \A v \in 1 .. 4 : v \notin Scores => Marks(v) = 0
    <2>1. ASSUME NEW v \in 1 .. 4, v \notin Scores
          PROVE  {k \in Rows : score[k] = v} = {}
        BY <2>1 DEF AnswerType
    <2>2. QED
        BY <2>1, FS_EmptySet DEF Marks
<1>6. Distribution = f
    BY <1>4 DEF Distribution
<1>7. MapThenSumSet(LAMBDA s : Distribution[s], Scores) = a
    <2>1. MapThenSumSet(LAMBDA s : Distribution[s], Scores) = SumOf(f, Scores)
        BY <1>6 DEF SumOf
    <2>2. \A v \in {1, 2, 3, 4} : Part(f, Scores, v) = Marks(v)
        BY <1>5 DEF Part
    <2> HIDE DEF f
    <2>3. SumOf(f, Scores) =
            Part(f, Scores, 1) + Part(f, Scores, 2) + Part(f, Scores, 3) + Part(f, Scores, 4)
        BY <1>2, <1>3, SumOfFour
    <2>4. QED
        BY <2>1, <2>2, <2>3
<1>8. MapThenSumSet(LAMBDA s : s * Distribution[s], Scores) = b
    <2>1. MapThenSumSet(LAMBDA s : s * Distribution[s], Scores) = chosen[Scores]
        BY DEF MapThenSumSet, MapThenFoldSet, Chosen
    <2>2. \A s \in SUBSET Scores : s # {} => Chosen(s) \in Scores
        BY DEF Chosen
    <2>3. \A it : IsIt(it) <=> Sums(it, g, Scores)
        BY <1>4, <2>2 DEF Sums
    <2>4. \A v \in {1, 2, 3, 4} : Marks(v) \in Nat
        BY <1>1
    <2>5. \A v \in {1, 2, 3, 4} : Part(g, Scores, v) = v * Marks(v)
        BY <1>5, <2>4 DEF Part
    <2> HIDE DEF IsIt, g
    <2>6. IsIt(chosen)
        BY <1>2, <1>3, <2>3, SumsExist
    <2> HIDE DEF chosen
    <2>7. chosen[Scores] = SumOf(g, Scores)
        BY <1>2, <1>3, <2>3, <2>6, SumIs
    <2>8. SumOf(g, Scores) =
            Part(g, Scores, 1) + Part(g, Scores, 2) + Part(g, Scores, 3) + Part(g, Scores, 4)
        BY <1>2, <1>3, SumOfFour
    <2>9. /\ Part(g, Scores, 1) = Marks(1) /\ Part(g, Scores, 2) = 2 * Marks(2)
          /\ Part(g, Scores, 3) = 3 * Marks(3) /\ Part(g, Scores, 4) = 4 * Marks(4)
        <3>1. Part(g, Scores, 1) = 1 * Marks(1) /\ Marks(1) \in Nat
            BY <2>4, <2>5
        <3>2. QED
            BY <2>5, <3>1
    <2>10. QED
        BY <2>1, <2>7, <2>8, <2>9
<1>9. TrendScore[1] = n * b /\ TrendScore[2] = n * a
    BY TrendIs
<1>10. a \in Nat /\ b \in Nat /\ n \in Nat
    <2>1. Marks(1) \in Nat /\ Marks(2) \in Nat /\ Marks(3) \in Nat /\ Marks(4) \in Nat
        BY <1>1
    <2>2. n \in Nat
        BY TrendIs
    <2>3. QED
        BY <2>1, <2>2
<1> HIDE DEF a, b, n
<1>11. (n * b) * a = (n * a) * b
    BY <1>10
<1>12. QED
    BY <1>7, <1>8, <1>9, <1>11

LEMMA AllAgree == CycleType /\ AnswerType /\ DistributedFromItsChecklist => CountsAgree
<1> SUFFICES ASSUME CycleType, AnswerType, DistributedFromItsChecklist
             PROVE  CountsAgree
    OBVIOUS
<1>1. ASSUME NEW q \in Questions
      PROVE  /\ Listed(q) /\ (\E k \in Joined(q) : validation[k] = "pending_approval") =>
                  /\ Awaiting(q)
                  /\ AssignedUnits(q) \subseteq Expected(q) => DashboardPending(q)
             /\ Listed(q) /\ AssignedUnits(q) \subseteq Expected(q) =>
                  /\ Approved(q) <=> CountedClosed(q)
                  /\ (\A j, k \in RowsAbout(q) : UnitOf(j) = UnitOf(k) => j = k) => Weighed(q)
             /\ CountedClosed(q) => DashboardClosed(q) /\ ~Awaiting(q)
             /\ RowsAbout(q) # {}
                  /\ (\A k \in Rows : LET p == Productivity(UnitOf(k)) IN p[1] = p[2]) =>
                  CountedSubmitted(q)
    BY ListedCounts, ListedClosed, ClosedCounts, SubmittedCounts
<1>2. ASSUME NEW j \in Rows, NEW rows, rows = {k \in Rows : Line(k) = Line(j)},
             Cardinality(rows) < 200
      PROVE  /\ Badge(Line(j)) = "Submitted" => rows \subseteq Submitted
             /\ Badge(Line(j)) = "Validated" =>
                  rows \subseteq Submitted /\ \A k \in rows : score[k] # 0
    BY <1>2, BadgeCounts
<1>3. (\A k \in Rows : validation[k] = "closed") =>
         TrendScore[1] * MapThenSumSet(LAMBDA s : Distribution[s], Scores)
           = TrendScore[2] * MapThenSumSet(LAMBDA s : s * Distribution[s], Scores)
    BY TrendAgrees
<1>4. ASSUME status = "distributed", ~overtaken, ~lost, file # <<>>, NamedApart(file)
      PROVE  \A j, k \in Submitted : Exported(j) = Exported(k) => j = k
    <2>1. Submitted \subseteq Rows
        BY DEF Submitted
    <2>2. QED
        BY <1>4, <2>1, LinesApart
<1>5. QED
    BY <1>1, <1>2, <1>3, <1>4 DEF CountsAgree

\* The places where questions, lines and scores are counted agree, for any
\* checklists, units and rows (reporting.ts, Reports.tsx, Dashboard.tsx,
\* ValidationOverview.tsx, AdminAnalytics.tsx).
THEOREM ReportCountsAgree == Spec => []CountsAgree
BY RowsInvariance, RowsOfTheChecklist, AllAgree, PTL

-----------------------------------------------------------------------------
(* The two readings of column K *)

LEMMA MinOfTwo == ASSUME NEW a \in Int, NEW b \in Int PROVE Min({a, b}) = IF a <= b THEN a ELSE b
<1>1. \A m \in {a, b} : (\A n \in {a, b} : m <= n) => m = IF a <= b THEN a ELSE b
    OBVIOUS
<1>2. \E m \in {a, b} : \A n \in {a, b} : m <= n
    OBVIOUS
<1>3. QED
    BY <1>1, <1>2 DEF Min

LEMMA MaxOfTwo == ASSUME NEW a \in Int, NEW b \in Int PROVE Max({a, b}) = IF a <= b THEN b ELSE a
<1>1. \A m \in {a, b} : (\A n \in {a, b} : m >= n) => m = IF a <= b THEN b ELSE a
    OBVIOUS
<1>2. \E m \in {a, b} : \A n \in {a, b} : m >= n
    OBVIOUS
<1>3. QED
    BY <1>1, <1>2 DEF Max

\* Summands that are 0 may be left out.
LEMMA SumRest ==
    ASSUME NEW S, IsFiniteSet(S), NEW f \in [S -> Int], NEW R \in SUBSET S,
           \A x \in S \ R : f[x] = 0
    PROVE  SumOf(f, S) = SumOf(f, R)
<1>1. PICK it \in [SUBSET S -> Int] : Sums(it, f, S)
    BY SumsExist
<1>2. AddsUp(it, f, S)
    BY <1>1, SumsStep
<1> DEFINE T == {s \in SUBSET S : it[s] = it[s \cap R]}
<1>3. ASSUME NEW s \in SUBSET S, \A x \in s : s \ {x} \in T
      PROVE  s \in T
    <2>1. CASE s \subseteq R
        <3>1. s \cap R = s
            BY <2>1
        <3>2. QED
            BY <3>1
    <2>2. CASE ~(s \subseteq R)
        <3>1. PICK x \in s : x \notin R
            BY <2>2
        <3>2. it[s] = f[x] + it[s \ {x}] /\ f[x] = 0
            BY <1>2, <3>1 DEF AddsUp
        <3>3. (s \ {x}) \cap R = s \cap R
            BY <3>1
        <3>4. it[s \ {x}] = it[s \cap R] /\ it[s \cap R] \in Int
            BY <1>3, <3>3
        <3>5. QED
            BY <3>2, <3>4
    <2>3. QED
        BY <2>1, <2>2
<1>4. \A s \in SUBSET S : s \in T
    <2> HIDE DEF T
    <2>1. QED
        BY <1>3, SubsetInduction
<1>5. S \cap R = R
    OBVIOUS
<1>6. it[S] = it[R]
    BY <1>4, <1>5
<1>7. it[S] = SumOf(f, S) /\ it[R] = SumOf(f, R)
    BY <1>1, SumIs, SumPart
<1>8. QED
    BY <1>6, <1>7

\* What the upload has summed after the first n entries.
SummedUp(sum, f, q, u) ==
    \A n \in 0 .. Len(f) :
        sum[n] = IF n = 0 THEN 0
                 ELSE IF ~Counts(f[n], q, u) THEN sum[n - 1]
                 ELSE IF sum[n - 1] = 0 THEN f[n].weight
                 ELSE Min({Whole, sum[n - 1] + f[n].weight})

LEMMA SummedUpExists ==
    ASSUME NEW f \in Seq(Entries), NEW q, NEW u
    PROVE  \E sum : SummedUp(sum, f, q, u) /\ sum[Len(f)] = ParsedWeight(f, q, u)
<1> DEFINE Step(n, before) ==
               IF n = 0 THEN 0
               ELSE IF ~Counts(f[n], q, u) THEN before
               ELSE IF before = 0 THEN f[n].weight
               ELSE Min({Whole, before + f[n].weight})
           Upto(sum, m) == \A n \in 0 .. m : sum[n] = Step(n, sum[n - 1])
           N == {m \in Nat : \E sum : Upto(sum, m)}
           IsIt(sum) == sum = [n \in 0 .. Len(f) |-> Step(n, sum[n - 1])]
           chosen == CHOOSE sum : IsIt(sum)
<1>1. 0 \in N
    <2>1. Upto([n \in 0 .. 0 |-> 0], 0)
        OBVIOUS
    <2>2. QED
        BY <2>1
<1>2. ASSUME NEW m \in Nat, m \in N
      PROVE  m + 1 \in N
    <2>1. PICK sum : Upto(sum, m)
        BY <1>2
    <2> DEFINE next == [n \in 0 .. m + 1 |-> IF n = m + 1 THEN Step(m + 1, sum[m]) ELSE sum[n]]
    <2> HIDE DEF Step
    <2>2. ASSUME NEW n \in 0 .. m + 1
          PROVE  next[n] = Step(n, next[n - 1])
        <3>1. CASE n = m + 1
            BY <3>1
        <3>2. CASE n \in 1 .. m
            <4>1. next[n] = sum[n] /\ next[n - 1] = sum[n - 1]
                BY <3>2
            <4>2. QED
                BY <2>1, <3>2, <4>1
        <3>3. CASE n = 0
            <4>1. next[0] = sum[0] /\ sum[0] = Step(0, sum[0 - 1])
                BY <2>1
            <4>2. \A a, b : Step(0, a) = Step(0, b)
                BY DEF Step
            <4>3. QED
                BY <3>3, <4>1, <4>2
        <3>4. QED
            BY <3>1, <3>2, <3>3
    <2>3. Upto(next, m + 1) /\ m + 1 \in Nat
        BY <2>2
    <2> HIDE DEF Upto, next
    <2>4. QED
        BY <2>3
<1>3. Len(f) \in Nat
    OBVIOUS
<1>4. PICK sum : Upto(sum, Len(f))
    <2> HIDE DEF N
    <2>1. Len(f) \in N
        BY <1>1, <1>2, <1>3, Induction
    <2>2. QED
        BY <2>1 DEF N
<1>5. IsIt([n \in 0 .. Len(f) |-> sum[n]])
    <2> DEFINE it == [n \in 0 .. Len(f) |-> sum[n]]
    <2>1. ASSUME NEW n \in 0 .. Len(f)
          PROVE  sum[n] = Step(n, it[n - 1])
        <3>1. CASE n = 0
            BY <1>4, <3>1
        <3>2. CASE n # 0
            <4>1. it[n - 1] = sum[n - 1]
                BY <1>3, <3>2
            <4> HIDE DEF Step, it
            <4>2. QED
                BY <1>4, <4>1
        <3>3. QED
            BY <3>1, <3>2
    <2> HIDE DEF Step
    <2>2. it = [n \in 0 .. Len(f) |-> Step(n, it[n - 1])]
        BY <2>1
    <2>3. QED
        BY <2>2
<1>6. ParsedWeight(f, q, u) = chosen[Len(f)]
    BY DEF ParsedWeight
<1>7. IsIt(chosen)
    <2> HIDE DEF IsIt
    <2>1. QED
        BY <1>5
<1>8. SummedUp(chosen, f, q, u)
    <2> HIDE DEF chosen
    <2>1. \A n \in 0 .. Len(f) : chosen[n] = Step(n, chosen[n - 1])
        <3> HIDE DEF Step
        <3>1. QED
            BY <1>7
    <2>2. QED
        BY <2>1 DEF SummedUp
<1>9. QED
    BY <1>6, <1>8

\* The weight that counts of the entries of a unit, and of its rows.
WeightAt(f, q, u) ==
    [i \in DOMAIN f |-> IF Counts(f[i], q, u) THEN f[i].weight ELSE 0]
RowsOfUnit(q, u) == {k \in RowsAbout(q) : UnitOf(k) = u}

\* The upload's sum is that of the entries, up to 100%.
LEMMA ParsedIsSum ==
    ASSUME NEW f \in Seq(Entries), \A i \in DOMAIN f : f[i].weight <= Whole, NEW q, NEW u
    PROVE  /\ SumOf(WeightAt(f, q, u), DOMAIN f) \in Nat
           /\ ParsedWeight(f, q, u) = Min({Whole, SumOf(WeightAt(f, q, u), DOMAIN f)})
<1> DEFINE S == DOMAIN f
           w == WeightAt(f, q, u)
           len == Len(f)
<1>1. S = 1 .. len /\ len \in Nat /\ \A i \in S : f[i] \in Entries
    OBVIOUS
<1>2. Whole \in Nat \ {0}
    BY ChecklistAssumption
<1>3. \A i \in S : w[i] \in 0 .. Whole /\ w[i] = IF Counts(f[i], q, u) THEN f[i].weight ELSE 0
    <2>1. \A i \in S : f[i].weight \in Int
        BY <1>1 DEF Entries
    <2>2. QED
        BY <1>2, <2>1 DEF WeightAt, Counts
<1>4. w \in [S -> Int] /\ IsFiniteSet(S)
    <2>1. w = [i \in S |-> w[i]]
        BY DEF WeightAt
    <2>2. 1 \in Int /\ len \in Int
        BY <1>1
    <2>3. IsFiniteSet(1 .. len)
        BY <2>2, FS_Interval
    <2> HIDE DEF w, S
    <2>4. QED
        BY <1>1, <1>3, <2>1, <2>3
<1> HIDE DEF w
<1>5. PICK it \in [SUBSET S -> Int] : Sums(it, w, S)
    BY <1>4, SumsExist
<1>6. AddsUp(it, w, S)
    BY <1>4, <1>5, SumsStep
<1>7. PICK sum : SummedUp(sum, f, q, u) /\ sum[len] = ParsedWeight(f, q, u)
    BY SummedUpExists
<1> DEFINE N == {n \in Nat : n <= len =>
                   it[1 .. n] \in Nat /\ sum[n] = Min({Whole, it[1 .. n]})}
<1>8. 0 \in N
    <2>1. 1 .. 0 = {}
        OBVIOUS
    <2>2. it[1 .. 0] = 0
        BY <1>5, <2>1 DEF Sums
    <2>3. sum[0] = 0
        <3>1. 0 \in 0 .. Len(f)
            BY <1>1
        <3>2. QED
            BY <1>7, <3>1 DEF SummedUp
    <2>4. Min({Whole, 0}) = 0
        BY <1>2, MinOfTwo
    <2>5. it[1 .. 0] \in Nat /\ sum[0] = Min({Whole, it[1 .. 0]})
        BY <2>2, <2>3, <2>4
    <2>6. QED
        BY <2>5
<1>9. ASSUME NEW n \in Nat, n \in N
      PROVE  n + 1 \in N
    <2> SUFFICES ASSUME n + 1 <= len
                 PROVE  it[1 .. n + 1] \in Nat /\ sum[n + 1] = Min({Whole, it[1 .. n + 1]})
        OBVIOUS
    <2> DEFINE a == it[1 .. n]
               b == w[n + 1]
    <2>1. a \in Nat /\ sum[n] = Min({Whole, a})
        BY <1>1, <1>9
    <2>2. it[1 .. n + 1] = b + a
        <3>1. 1 .. n + 1 \in SUBSET S /\ n + 1 \in 1 .. n + 1 /\ (1 .. n + 1) \ {n + 1} = 1 .. n
            BY <1>1
        <3>2. QED
            BY <1>6, <3>1 DEF AddsUp
    <2>3. n + 1 \in S /\ b \in 0 .. Whole
          /\ b = IF Counts(f[n + 1], q, u) THEN f[n + 1].weight ELSE 0
        BY <1>1, <1>3
    <2>4. sum[n + 1] = IF ~Counts(f[n + 1], q, u) THEN sum[n]
                       ELSE IF sum[n] = 0 THEN f[n + 1].weight
                       ELSE Min({Whole, sum[n] + f[n + 1].weight})
        <3>1. n + 1 \in 0 .. Len(f) /\ n + 1 # 0 /\ (n + 1) - 1 = n
            BY <1>1
        <3>2. QED
            BY <1>7, <3>1 DEF SummedUp
    <2> HIDE DEF a, b
    <2>5. sum[n] = IF Whole <= a THEN Whole ELSE a
        BY <1>2, <2>1, MinOfTwo
    <2>6. Min({Whole, it[1 .. n + 1]}) = IF Whole <= b + a THEN Whole ELSE b + a
        <3>1. Whole \in Int /\ b + a \in Int
            BY <1>2, <2>1, <2>3
        <3>2. QED
            BY <2>2, <3>1, MinOfTwo
    <2>7. CASE ~Counts(f[n + 1], q, u)
        BY <1>2, <2>1, <2>2, <2>3, <2>4, <2>5, <2>6, <2>7
    <2>8. CASE Counts(f[n + 1], q, u) /\ sum[n] = 0
        BY <1>2, <2>1, <2>2, <2>3, <2>4, <2>5, <2>6, <2>8
    <2>9. CASE Counts(f[n + 1], q, u) /\ sum[n] # 0
        <3>1. sum[n + 1] = Min({Whole, sum[n] + b})
            BY <2>3, <2>4, <2>9
        <3>2. sum[n] + b \in Int
            BY <1>2, <2>1, <2>3, <2>5
        <3>3. sum[n + 1] = IF Whole <= sum[n] + b THEN Whole ELSE sum[n] + b
            BY <1>2, <3>1, <3>2, MinOfTwo
        <3>4. QED
            BY <1>2, <2>1, <2>2, <2>3, <2>5, <2>6, <3>3
    <2>10. QED
        BY <2>7, <2>8, <2>9
<1>10. len \in N
    <2> HIDE DEF N
    <2>1. QED
        BY <1>1, <1>8, <1>9, Induction
<1>11. it[1 .. len] = SumOf(w, S)
    BY <1>1, <1>4, <1>5, SumIs
<1>12. it[1 .. len] \in Nat /\ sum[len] = Min({Whole, it[1 .. len]})
    BY <1>1, <1>10
<1>13. QED
    BY <1>7, <1>11, <1>12 DEF w

\* The weight of a unit's rows.
LEMMA RowsSum ==
    ASSUME AnswerType, NEW q, NEW u
    PROVE  MapThenSumSet(LAMBDA k : Max({0, assigned[k]}), RowsOfUnit(q, u))
             = SumOf([k \in RowsOfUnit(q, u) |-> Max({0, assigned[k]})], RowsOfUnit(q, u))
<1> DEFINE R == RowsOfUnit(q, u)
           f == [k \in R |-> Max({0, assigned[k]})]
           IsIt(it) == it = [s \in SUBSET R |-> IF s = {} THEN 0
                               ELSE Max({0, assigned[Chosen(s)]}) + it[s \ {Chosen(s)}]]
           chosen == CHOOSE it : IsIt(it)
<1>1. IsFiniteSet(R) /\ R \subseteq Rows
    BY SubFinite DEF RowsOfUnit, RowsAbout
<1>2. f \in [R -> Int]
    <2>1. \A k \in R : assigned[k] \in Int
        BY <1>1, ChecklistAssumption DEF AnswerType, RowTable, Rows, NoWeight
    <2>2. \A k \in R : Max({0, assigned[k]}) \in Int
        BY <2>1, MaxOfTwo
    <2> HIDE DEF R
    <2>3. QED
        BY <2>2
<1> HIDE DEF R
<1>3. MapThenSumSet(LAMBDA k : Max({0, assigned[k]}), R) = chosen[R]
    BY DEF MapThenSumSet, MapThenFoldSet, Chosen
<1>4. \A s \in SUBSET R : s # {} => Chosen(s) \in R
    BY DEF Chosen
<1>5. \A it : IsIt(it) <=> Sums(it, f, R)
    BY <1>4 DEF Sums
<1> HIDE DEF IsIt, f
<1>6. IsIt(chosen)
    BY <1>1, <1>2, <1>5, SumsExist
<1> HIDE DEF chosen
<1>7. MapThenSumSet(LAMBDA k : Max({0, assigned[k]}), R) = SumOf(f, R)
    BY <1>1, <1>2, <1>3, <1>5, <1>6, SumIs
<1>8. QED
    BY <1>7 DEF f, R

LEMMA BothReadings ==
    CycleType /\ AnswerType /\ DistributedFromItsChecklist => ReadingsAgree
<1> SUFFICES ASSUME CycleType, AnswerType, DistributedFromItsChecklist,
                    status = "distributed", ~overtaken, ~lost, file # <<>>,
                    Cardinality(Rows) = Len(file), \A i \in DOMAIN file : file[i].weight <= Whole,
                    NEW q \in Questions, NEW u \in Units
             PROVE  ParsedWeight(file, q, u) =
                      Min({Whole, MapThenSumSet(LAMBDA k : Max({0, assigned[k]}),
                                                  RowsOfUnit(q, u))})
    BY DEF ReadingsAgree, RowsOfUnit
<1> DEFINE S == DOMAIN file
           h == [i \in S |-> RowKey(file[i])]
           w == WeightAt(file, q, u)
           I == {i \in S : h[i] \in RowsOfUnit(q, u)}
           R == RowsOfUnit(q, u)
           y == [k \in R |-> Max({0, assigned[k]})]
           g == [i \in I |-> w[i]]
           hI == [i \in I |-> h[i]]
<1>1. file \in Checklists /\ assigned = RowsOf(file)
    BY DEF CycleType, DistributedFromItsChecklist, RowsFor
<1>2. file \in Seq(Entries)
    BY <1>1, ChecklistAssumption
<1>3. S = 1 .. Len(file) /\ Len(file) \in Nat /\ \A i \in S : file[i] \in Entries
    BY <1>2
<1>4. Rows = {h[i] : i \in S}
    BY <1>1 DEF Rows, RowsOf
<1>5. IsFiniteSet(S) /\ Cardinality(S) = Len(file)
    <2>1. 1 \in Int /\ Len(file) \in Int
        BY <1>3
    <2>2. IsFiniteSet(1 .. Len(file)) /\ Cardinality(1 .. Len(file)) = Len(file)
        BY <1>3, <2>1, FS_Interval
    <2>3. QED
        BY <1>3, <2>2
\* As many rows as entries: no two entries are for the same row.
<1>6. \A i, j \in S : h[i] = h[j] => i = j
    <2>1. h \in Surjection(S, Rows)
        BY <1>4 DEF Surjection
    <2>2. h \in Injection(S, Rows)
        <3> HIDE DEF h, S
        <3>1. QED
            BY <1>5, <2>1, FS_Surjection
    <2>3. DOMAIN h = S
        OBVIOUS
    <2> HIDE DEF h, S
    <2>4. QED
        BY <2>2, <2>3 DEF Injection, IsInjective
<1>7. ASSUME NEW i \in S
      PROVE  assigned[h[i]] = file[i].weight
    <2> DEFINE same == {j \in DOMAIN file : RowKey(file[j]) = h[i]}
    <2>1. same = {i} /\ same \subseteq Nat
        BY <1>3, <1>6
    <2>2. Min(same) = i
        <3> HIDE DEF same
        <3>1. Min(same) \in same
            BY <2>1, LeastOf
        <3>2. QED
            BY <2>1, <3>1
    <2>3. h[i] \in {RowKey(file[j]) : j \in DOMAIN file}
        OBVIOUS
    <2>4. assigned[h[i]] = file[Min(same)].weight
        <3> HIDE DEF h
        <3>1. QED
            BY <1>1, <2>3 DEF RowsOf
    <2>5. QED
        BY <2>2, <2>4
<1>8. ASSUME NEW i \in S
      PROVE  /\ file[i].weight \in Int /\ w[i] \in Int
             /\ i \notin I => w[i] = 0
             /\ i \in I => w[i] = Max({0, assigned[h[i]]})
    <2>1. file[i].weight \in Int
        BY <1>3 DEF Entries, NoWeight
    <2>2. i \in I <=> file[i].question = q /\ Resolved(file[i].code, file[i].risk) = u
        BY <1>4 DEF RowsOfUnit, RowsAbout, RowKey, UnitOf
    <2>3. w[i] = IF Counts(file[i], q, u) THEN file[i].weight ELSE 0
        BY DEF WeightAt
    <2>4. Max({0, assigned[h[i]]}) = IF 0 <= file[i].weight THEN file[i].weight ELSE 0
        <3> HIDE DEF h
        <3>1. QED
            BY <1>7, <2>1, MaxOfTwo
    <2> HIDE DEF w, I, h
    <2>5. QED
        BY <2>1, <2>2, <2>3, <2>4 DEF Counts
<1>9. w \in [S -> Int]
    <2>1. w = [i \in S |-> w[i]]
        BY DEF WeightAt
    <2> HIDE DEF w, S, I, h
    <2>2. QED
        BY <1>8, <2>1
<1>10. SumOf(w, S) = SumOf(w, I)
    <2>1. I \in SUBSET S
        OBVIOUS
    <2> HIDE DEF w, S, I
    <2>2. \A i \in S \ I : w[i] = 0
        BY <1>8
    <2>3. QED
        BY <1>5, <1>9, <2>1, <2>2, SumRest
<1>11. R = {hI[i] : i \in I} /\ DOMAIN hI = I /\ IsFiniteSet(I) /\ g \in [I -> Int]
    <2>1. R \subseteq Rows
        BY DEF RowsOfUnit, RowsAbout
    <2>2. R = {hI[i] : i \in I} /\ DOMAIN hI = I
        <3> HIDE DEF h, S, R
        <3>1. QED
            BY <1>4, <2>1 DEF R
    <2>3. IsFiniteSet(I)
        BY <1>5, FS_Subset
    <2>4. g \in [I -> Int]
        <3>1. \A i \in I : w[i] \in Int
            BY <1>8
        <3> HIDE DEF w, I
        <3>2. QED
            BY <3>1
    <2>5. QED
        BY <2>2, <2>3, <2>4
<1>12. y \in [R -> Int] /\ \A i \in I : hI[i] \in R /\ g[i] = y[hI[i]]
    <2>1. \A i \in I : hI[i] \in R /\ hI[i] = h[i] /\ g[i] = w[i]
                /\ w[i] = Max({0, assigned[h[i]]}) /\ w[i] \in Int
        BY <1>8
    <2> HIDE DEF h, w, hI, I, R, g
    <2>2. ASSUME NEW k \in R
          PROVE  Max({0, assigned[k]}) \in Int
        <3>1. PICK i \in I : k = hI[i]
            BY <1>11
        <3>2. QED
            BY <2>1, <3>1
    <2>3. QED
        BY <2>1, <2>2
<1>13. \A i, j \in I : hI[i] = hI[j] => i = j
    BY <1>6
<1>14. SumOf(y, R) = SumOf(g, I)
    <2> HIDE DEF h, w, hI, I, R, g, y
    <2>1. (\A i \in I : hI[i] \in R) /\ \A r \in R : \E i \in I : r = hI[i]
        BY <1>11
    <2>2. DOMAIN hI = I /\ IsFiniteSet(I) /\ g \in [I -> Int] /\ y \in [R -> Int]
        BY <1>11, <1>12
    <2>3. \A i \in I : g[i] = y[hI[i]]
        BY <1>12
    <2>4. QED
        BY ONLY <1>13, <2>1, <2>2, <2>3, SumImage
<1>15. SumOf(g, I) = SumOf(w, I)
    <2> HIDE DEF h, I, S, w
    <2>1. I \in SUBSET S
        BY DEF I
    <2>2. PICK it : Sums(it, w, S)
        BY <1>5, <1>9, SumsExist
    <2>3. it[I] = SumOf(w, I)
        BY <1>5, <1>9, <2>1, <2>2, SumPart
    <2>4. PICK ir : Sums(ir, g, I)
        <3> HIDE DEF g
        <3>1. QED
            BY <1>11, SumsExist
    <2>5. ir[I] = SumOf(g, I)
        <3> HIDE DEF g
        <3>1. QED
            BY <1>11, <2>4, SumIs
    <2>6. it[I] = ir[I]
        <3>1. \A i \in I : w[i] = g[i]
            OBVIOUS
        <3> HIDE DEF g
        <3>2. QED
            BY <1>5, <2>1, <2>2, <2>4, <3>1, SumsAgree
    <2>7. QED
        BY <2>3, <2>5, <2>6
<1>16. ParsedWeight(file, q, u) = Min({Whole, SumOf(w, S)})
    BY <1>2, ParsedIsSum
<1>17. MapThenSumSet(LAMBDA k : Max({0, assigned[k]}), R) = SumOf(y, R)
    BY RowsSum
<1> HIDE DEF S, h, w, I, R, y, g, hI
<1>18. QED
    BY <1>10, <1>14, <1>15, <1>16, <1>17 DEF R

\* The weight the upload records for a unit is what the distribution gives its
\* rows, up to 100%, for any checklist without repeated entries and entries above
\* 100% (cycles.ts, parseWeightsFromChecklist and the distribution).
THEOREM ColumnKIsReadAlike == Spec => []ReadingsAgree
BY RowsInvariance, RowsOfTheChecklist, BothReadings, PTL

-----------------------------------------------------------------------------
(* Types *)

LEMMA ParsedType == ASSUME NEW f \in Seq(Entries), NEW q, NEW u PROVE ParsedWeight(f, q, u) \in Nat
<1> DEFINE len == Len(f)
<1>1. len \in Nat /\ (\A n \in 1 .. len : f[n] \in Entries)
    OBVIOUS
<1>2. PICK sum : SummedUp(sum, f, q, u) /\ sum[len] = ParsedWeight(f, q, u)
    BY SummedUpExists
<1> DEFINE N == {n \in Nat : n <= len => sum[n] \in Nat}
<1>3. 0 \in N
    <2>1. 0 \in 0 .. Len(f)
        BY <1>1
    <2>2. sum[0] = 0
        BY <1>2, <2>1 DEF SummedUp
    <2>3. QED
        BY <2>2
<1>4. ASSUME NEW n \in Nat, n \in N
      PROVE  n + 1 \in N
    <2> SUFFICES ASSUME n + 1 <= len
                 PROVE  sum[n + 1] \in Nat
        OBVIOUS
    <2>1. sum[n] \in Nat
        BY <1>1, <1>4
    <2>2. sum[n + 1] = IF ~Counts(f[n + 1], q, u) THEN sum[n]
                       ELSE IF sum[n] = 0 THEN f[n + 1].weight
                       ELSE Min({Whole, sum[n] + f[n + 1].weight})
        <3>1. n + 1 \in 0 .. Len(f) /\ n + 1 # 0 /\ (n + 1) - 1 = n
            BY <1>1
        <3>2. QED
            BY <1>2, <3>1 DEF SummedUp
    <2>3. Counts(f[n + 1], q, u) => f[n + 1].weight \in Nat /\ f[n + 1].weight > 0
        <3>1. f[n + 1] \in Entries
            BY <1>1
        <3>2. QED
            BY <3>1, ChecklistAssumption DEF Entries, NoWeight, Counts
    <2>4. CASE Counts(f[n + 1], q, u) /\ sum[n] # 0
        <3>1. Whole \in Nat /\ sum[n] + f[n + 1].weight \in Nat
            BY <2>1, <2>3, <2>4, ChecklistAssumption
        <3>2. Min({Whole, sum[n] + f[n + 1].weight}) \in Nat
            BY <3>1, MinOfTwo
        <3>3. QED
            BY <2>2, <2>4, <3>2
    <2>5. CASE ~Counts(f[n + 1], q, u) \/ sum[n] = 0
        BY <2>1, <2>2, <2>3, <2>5
    <2>6. QED
        BY <2>4, <2>5
<1>5. len \in N
    <2> HIDE DEF N
    <2>1. QED
        BY <1>1, <1>3, <1>4, Induction
<1>6. QED
    BY <1>1, <1>2, <1>5

TableType == itemWeight \in [Questions \X Units -> 0 .. Whole]

LEMMA UpsertType ==
    ASSUME TableType, NEW f \in Checklists
    PROVE  Upserted(f) \in [Questions \X Units -> 0 .. Whole]
<1> DEFINE P == Questions \X Units
<1>1. DOMAIN itemWeight = P
    BY DEF TableType
<1>2. f \in Seq(Entries)
    BY ChecklistAssumption
<1>3. \A p \in P : Weights[f][p] \in Nat
    BY <1>2, ParsedType DEF Weights
<1>4. CASE \E p \in P : Weights[f][p] > Whole
    BY <1>1, <1>4 DEF Upserted, TableType
<1>5. CASE \A p \in P : ~(Weights[f][p] > Whole)
    <2>1. Upserted(f) = [p \in P |-> IF Weights[f][p] > 0 THEN Weights[f][p] ELSE itemWeight[p]]
        BY <1>1, <1>5 DEF Upserted
    <2>2. \A p \in P : Weights[f][p] \in 0 .. Whole /\ itemWeight[p] \in 0 .. Whole
        BY <1>3, <1>5, ChecklistAssumption DEF TableType
    <2> HIDE DEF P
    <2>3. QED
        BY <2>1, <2>2 DEF P
<1>6. QED
    BY <1>4, <1>5

LEMMA NextTable == CycleType /\ TableType /\ [Next]_vars => TableType'
<1> SUFFICES ASSUME CycleType, TableType, [Next]_vars
             PROVE  TableType'
    OBVIOUS
<1>1. ASSUME NEW f \in Checklists, itemWeight' = Upserted(f)
      PROVE  TableType'
    BY <1>1, UpsertType DEF TableType
<1>2. ASSUME UNCHANGED itemWeight
      PROVE  TableType'
    BY <1>2 DEF TableType
<1>3. ASSUME NEW r \in Requests, UploadWeights(r)
      PROVE  TableType'
    <2>1. upload[r].file \in Checklists
        BY <1>3 DEF UploadWeights, CycleType, Uploads
    <2>2. QED
        BY <1>1, <1>3, <2>1 DEF UploadWeights
<1>4. ASSUME NEW f \in Checklists, OtherUpload(f)
      PROVE  TableType'
    BY <1>1, <1>4 DEF OtherUpload
<1>5. ASSUME NEW r \in Requests, (\E f \in Checklists : UploadCheck(r, f))
            \/ UploadRemove(r) \/ UploadRow(r) \/ UploadFails(r)
      PROVE  TableType'
    BY <1>2, <1>5 DEF UploadCheck, UploadRemove, UploadRow, UploadFails
<1>6. ASSUME NEW k \in Rows,
             Submit(k) \/ Return(k) \/ (\E s \in Scores : Score(k, s))
               \/ SubmitForApproval(k) \/ Reject(k) \/ Approve(k)
      PROVE  TableType'
    BY <1>2, <1>6 DEF Submit, Return, Score, SubmitForApproval, Reject, Approve, Decide
<1>7. CASE Publish \/ Distribute \/ UNCHANGED vars
    BY <1>2, <1>7 DEF Publish, Distribute, vars
<1>8. QED
    BY <1>3, <1>4, <1>5, <1>6, <1>7 DEF Next

\* The variables have their types: no weight in the table exceeds 100%, the
\* rows distributed are those of questions, units and risks, and each has an
\* answer, a validation and a score.
THEOREM ChecklistTypeCorrect == Spec => []TypeOK
<1>1. Init => CycleType /\ AnswerType /\ TableType
    BY InitRows, ChecklistAssumption DEF Init, TableType
<1>2. CycleType /\ AnswerType /\ TableType /\ [Next]_vars => (CycleType /\ AnswerType /\ TableType)'
    BY NextCycle, NextAnswers, NextTable
<1>3. CycleType /\ AnswerType /\ TableType => TypeOK
    BY DEF CycleType, AnswerType, TableType, RowTable, Rows, TypeOK, ResponseStatus
<1>4. QED
    BY <1>1, <1>2, <1>3, PTL DEF Spec
=============================================================================
