-------------------------- MODULE AdmissionProofs --------------------------
(* Theorems about both halves of admission.go: the byte total (StateBudget) and  *)
(* the index of active sessions (AdmissionIndex), for any files, sessions and    *)
(* writers.                                                                      *)
(*                                                                               *)
(* The byte total.  Balance is what keeps it from falling behind: the tracked    *)
(* total covers the store but for the differences on their way and for what was  *)
(* lost, and so does, for the files that it need not look at any more (Due),     *)
(* what a scan in flight will leave.  A step of a writer or of a walk concerns   *)
(* one file, and OneFile reduces it to the bytes of that file.  The proof needs  *)
(* sums over a finite set of files.  They are the sum that MapThenSumSet chooses *)
(* (TotalIsSum), which exists (SumsExist) and moves by what one file changes     *)
(* (TotalChanges); Induction and SubsetInduction are stated for sets.            *)
(*                                                                               *)
(* The index.  The invariant adds to IndexMatchesStore that a mark on its way    *)
(* agrees with the file it was made for (MarksAgree), and that a scan in flight  *)
(* will replay the truth for each session it has visited (ScanIsCurrent).        *)
EXTENDS StateBudget, AdmissionIndex, FiniteSetTheorems, WellFoundedInduction,
        NaturalsInduction, TLAPS

\* The element a sum over a set takes next.
Pick(s) == CHOOSE x \in s : TRUE

\* h gives the sum of g over every set of files.
Sums(h, g) ==
  h = [s \in SUBSET Files |-> IF s = {} THEN 0 ELSE g[Pick(s)] + h[s \ {Pick(s)}]]

\* The bytes of each file, and of those the bytes that a scan will not look at
\* any more.
Held(sz, tp) == [f \in Files |-> sz[f] + tp[f]]

Due(sz, tp, scan) ==
  [f \in Files |-> IF f \in scan.todo THEN 0
                   ELSE (IF <<f, "file">> \in scan.names THEN 0 ELSE sz[f])
                          + (IF <<f, "temp">> \in scan.names THEN 0 ELSE tp[f])]

\* The differences on their way, without the report of a temporary file that a
\* scan has still to look at.
Coming(tp, un, scan) ==
  [f \in Files |-> IF tp[f] > 0 /\ (f \in scan.todo \/ <<f, "temp">> \in scan.names)
                   THEN 0 ELSE un[f]]

\* Nothing that is in the store is missing from the total, nor from what a scan
\* under way will make of it, but for what is on its way and what was lost.
Balance ==
  /\ \A f \in Files : temp[f] > 0 => unreported[f] \in {0, temp[f]}
  /\ tracked + Sum(unreported) + behind >= Sum(Held(size, temp))
  /\ refresh.on
       => refresh.sum + delta + refresh.lost + Sum(Coming(temp, unreported, refresh))
            >= Sum(Due(size, temp, refresh))
  /\ exact.on
       => exact.sum + exact.lost + Sum(Coming(temp, unreported, exact))
            >= Sum(Due(size, temp, exact))

\* The inductive invariant of the byte total.
BudgetInv == TypeOK /\ Balance

-----------------------------------------------------------------------------
(* Sums over the files.                                                    *)

\* A set of natural numbers that is not empty has a least element.
LEMMA LeastElement ==
  ASSUME NEW T \in SUBSET Nat, T # {}
  PROVE  \E m \in T : \A x \in T : m <= x
<1> DEFINE R == OpToRel(<, Nat)
<1>1. IsWellFoundedOn(R, Nat) BY NatLessThanWellFounded
<1>2. \A x, y \in Nat : x < y => <<x, y>> \in R BY DEF OpToRel
<1> HIDE DEF R
<1>3. PICK m \in T : \A y \in T : ~(<<y, m>> \in R) BY <1>1, WFMin
<1>4. \A y \in T : ~(y < m) BY <1>2, <1>3
<1>5. \A y \in T : m <= y BY <1>4
<1> QED BY <1>5

\* A set with zero and every successor has every number.
LEMMA Induction ==
  ASSUME NEW T \in SUBSET Nat, 0 \in T, \A n \in T : n + 1 \in T
  PROVE  \A n \in Nat : n \in T
<1> SUFFICES ASSUME Nat \ T # {} PROVE FALSE OBVIOUS
<1>1. PICK m \in Nat \ T : \A x \in Nat \ T : m <= x BY LeastElement
<1>2. m # 0 /\ m \in Nat BY <1>1
<1>3. m - 1 \in Nat /\ ~(m <= m - 1) /\ (m - 1) + 1 = m BY <1>2
<1>4. m - 1 \in T BY <1>1, <1>3
<1>5. m \in T BY <1>3, <1>4
<1> QED BY <1>1, <1>5

\* A set of files is finite, and one element fewer without its first.
LEMMA Smaller ==
  ASSUME NEW s \in SUBSET Files
  PROVE  /\ Cardinality(s) \in Nat /\ Cardinality(s) <= Cardinality(Files)
         /\ Cardinality(s) = 0 => s = {}
         /\ s # {} => /\ Pick(s) \in s /\ Pick(s) \in Files
                      /\ s \ {Pick(s)} \in SUBSET Files
                      /\ Cardinality(s \ {Pick(s)}) = Cardinality(s) - 1
<1>1. IsFiniteSet(Files) BY BudgetAssumption
<1>2. IsFiniteSet(s) /\ Cardinality(s) <= Cardinality(Files) BY <1>1, FS_Subset
<1>3. Cardinality(s) \in Nat BY <1>2, FS_CardinalityType
<1>4. Cardinality(s) = 0 => s = {} BY <1>2, FS_EmptySet
<1>5. s # {} => Pick(s) \in s BY DEF Pick
<1>6. s # {} => Cardinality(s \ {Pick(s)}) = Cardinality(s) - 1
  BY <1>2, <1>5, FS_RemoveElement
<1> QED BY <1>2, <1>3, <1>4, <1>5, <1>6

\* A collection with the empty set, and with every set whose rest it has, has
\* every set of files.
LEMMA SubsetInduction ==
  ASSUME NEW A \in SUBSET SUBSET Files, {} \in A,
         \A s \in SUBSET Files : s # {} /\ s \ {Pick(s)} \in A => s \in A
  PROVE  \A s \in SUBSET Files : s \in A
<1> DEFINE T == {n \in Nat : \A s \in SUBSET Files : Cardinality(s) <= n => s \in A}
<1>1. 0 \in T
  <2> SUFFICES ASSUME NEW s \in SUBSET Files, Cardinality(s) <= 0 PROVE s \in A OBVIOUS
  <2>1. Cardinality(s) \in Nat BY Smaller
  <2>2. Cardinality(s) = 0 BY <2>1
  <2>3. s = {} BY <2>2, Smaller
  <2> QED BY <2>3
<1>2. ASSUME NEW n \in T PROVE n + 1 \in T
  <2> SUFFICES ASSUME NEW s \in SUBSET Files, Cardinality(s) <= n + 1 PROVE s \in A
    OBVIOUS
  <2>1. CASE s = {} BY <2>1
  <2>2. CASE s # {}
    <3>1. /\ s \ {Pick(s)} \in SUBSET Files /\ Cardinality(s) \in Nat
          /\ Cardinality(s \ {Pick(s)}) = Cardinality(s) - 1
      BY <2>2, Smaller
    <3>2. n \in Nat OBVIOUS
    <3>3. Cardinality(s \ {Pick(s)}) <= n BY <3>1, <3>2
    <3>4. s \ {Pick(s)} \in A BY <3>1, <3>3
    <3> QED BY <2>2, <3>4
  <2> QED BY <2>1, <2>2
<1>3. T \in SUBSET Nat OBVIOUS
<1> HIDE DEF T
<1>4. \A n \in Nat : n \in T BY <1>1, <1>2, <1>3, Induction
<1> USE DEF T
<1> SUFFICES ASSUME NEW s \in SUBSET Files PROVE s \in A OBVIOUS
<1>5. Cardinality(s) \in Nat BY Smaller
<1>6. Cardinality(s) \in T BY <1>4, <1>5
<1> QED BY <1>5, <1>6

\* Every function on the files has its sums.
LEMMA SumsExist ==
  ASSUME NEW g \in [Files -> Int]
  PROVE  \E h \in [SUBSET Files -> Int] : Sums(h, g)
<1> DEFINE Adds(h, s) == h[s] = IF s = {} THEN 0 ELSE g[Pick(s)] + h[s \ {Pick(s)}]
           T == {n \in Nat : \E h \in [SUBSET Files -> Int] :
                   \A s \in SUBSET Files : Cardinality(s) <= n => Adds(h, s)}
<1>1. 0 \in T
  <2>1. PICK h : h = [s \in SUBSET Files |-> 0] OBVIOUS
  <2>2. h \in [SUBSET Files -> Int] BY <2>1
  <2>3. \A s \in SUBSET Files : Cardinality(s) <= 0 => Adds(h, s)
    <3> SUFFICES ASSUME NEW s \in SUBSET Files, Cardinality(s) <= 0 PROVE Adds(h, s)
      OBVIOUS
    <3>1. Cardinality(s) \in Nat BY Smaller
    <3>2. Cardinality(s) = 0 BY <3>1
    <3>3. s = {} BY <3>2, Smaller
    <3> QED BY <2>1, <3>3
  <2> QED BY <2>2, <2>3
<1>2. ASSUME NEW n \in T PROVE n + 1 \in T
  <2>1. n \in Nat OBVIOUS
  <2>2. PICK h \in [SUBSET Files -> Int] :
          \A s \in SUBSET Files : Cardinality(s) <= n => Adds(h, s)
    OBVIOUS
  <2>3. PICK k : k = [s \in SUBSET Files |->
                        IF s = {} THEN 0 ELSE g[Pick(s)] + h[s \ {Pick(s)}]]
    OBVIOUS
  <2>4. k \in [SUBSET Files -> Int]
    <3> SUFFICES ASSUME NEW s \in SUBSET Files
                 PROVE  (IF s = {} THEN 0 ELSE g[Pick(s)] + h[s \ {Pick(s)}]) \in Int
      BY <2>3
    <3>1. s # {} => Pick(s) \in Files /\ s \ {Pick(s)} \in SUBSET Files BY Smaller
    <3>2. s # {} => g[Pick(s)] \in Int /\ h[s \ {Pick(s)}] \in Int BY <3>1
    <3> QED BY <3>2
  <2>5. ASSUME NEW s \in SUBSET Files, Cardinality(s) <= n + 1 PROVE Adds(k, s)
    <3>1. CASE s = {} BY <2>3, <3>1
    <3>2. CASE s # {}
      <4>1. PICK r : r = s \ {Pick(s)} OBVIOUS
      <4>2. /\ r \in SUBSET Files /\ Cardinality(s) \in Nat
            /\ Cardinality(r) = Cardinality(s) - 1
        BY <3>2, <4>1, Smaller
      <4>3. Cardinality(r) <= n BY <2>1, <2>5, <4>2
      <4>4. Adds(h, r) BY <2>2, <4>2, <4>3
      <4>5. k[r] = h[r] BY <2>3, <4>2, <4>4
      <4>6. k[s] = g[Pick(s)] + h[r] BY <2>3, <3>2, <4>1
      <4> QED BY <3>2, <4>1, <4>5, <4>6
    <3> QED BY <3>1, <3>2
  <2>6. \A s \in SUBSET Files : Cardinality(s) <= n + 1 => Adds(k, s) BY <2>5
  <2> HIDE DEF Adds
  <2>7. \E j \in [SUBSET Files -> Int] :
          \A s \in SUBSET Files : Cardinality(s) <= n + 1 => Adds(j, s)
    BY <2>4, <2>6
  <2>8. n + 1 \in Nat BY <2>1
  <2> QED BY <2>7, <2>8
<1>3. T \in SUBSET Nat OBVIOUS
<1> HIDE DEF T
<1>4. \A n \in Nat : n \in T BY <1>1, <1>2, <1>3, Induction
<1>5. Cardinality(Files) \in Nat BY Smaller
<1>6. Cardinality(Files) \in T BY <1>4, <1>5
<1> USE DEF T
<1>7. PICK h \in [SUBSET Files -> Int] :
        \A s \in SUBSET Files : Cardinality(s) <= Cardinality(Files) => Adds(h, s)
  BY <1>6
<1>8. \A s \in SUBSET Files : Adds(h, s) BY <1>7, Smaller
<1>9. Sums(h, g) BY <1>8 DEF Sums
<1> QED BY <1>9

\* The total is one of them.
LEMMA TotalIsSum ==
  ASSUME NEW g \in [Files -> Int]
  PROVE  \E h : Sums(h, g) /\ Sum(g) = h[Files]
<1>1. \E h : Sums(h, g) BY SumsExist
<1>2. Sum(g) = (CHOOSE h : Sums(h, g))[Files]
  BY DEF Sum, MapThenSumSet, MapThenFoldSet, Sums, Pick
<1> HIDE DEF Sums
<1>3. Sums(CHOOSE h : Sums(h, g), g) BY <1>1
<1> QED BY <1>2, <1>3

\* A sum is the first value and the sum of the rest.
LEMMA SumStep ==
  ASSUME NEW g, NEW h, Sums(h, g)
  PROVE  /\ h[{}] = 0
         /\ \A s \in SUBSET Files : s # {} => h[s] = g[Pick(s)] + h[s \ {Pick(s)}]
BY DEF Sums

\* Sums of integers are integers.
LEMMA SumType ==
  ASSUME NEW g \in [Files -> Int], NEW h, Sums(h, g)
  PROVE  \A s \in SUBSET Files : h[s] \in Int
<1>1. PICK A : A = {s \in SUBSET Files : h[s] \in Int} OBVIOUS
<1>2. A \in SUBSET SUBSET Files /\ {} \in A BY <1>1, SumStep
<1>3. ASSUME NEW s \in SUBSET Files, s # {}, s \ {Pick(s)} \in A PROVE s \in A
  <2>1. Pick(s) \in Files BY <1>3, Smaller
  <2>2. g[Pick(s)] \in Int /\ h[s \ {Pick(s)}] \in Int BY <1>1, <1>3, <2>1
  <2>3. \A t \in SUBSET Files : t # {} => h[t] = g[Pick(t)] + h[t \ {Pick(t)}]
    BY DEF Sums
  <2>4. h[s] = g[Pick(s)] + h[s \ {Pick(s)}] BY <1>3, <2>3
  <2> QED BY <1>1, <2>2, <2>4
<1>4. \A s \in SUBSET Files : s \in A BY <1>2, <1>3, SubsetInduction
<1> QED BY <1>1, <1>4

\* So is their total.
LEMMA TotalType ==
  ASSUME NEW g \in [Files -> Int]
  PROVE  Sum(g) \in Int
BY TotalIsSum, SumType

\* A function that differs for one file: the total moves by the difference.
LEMMA TotalChanges ==
  ASSUME NEW g \in [Files -> Int], NEW k \in [Files -> Int], NEW f \in Files,
         \A e \in Files : e # f => k[e] = g[e]
  PROVE  Sum(k) = Sum(g) - g[f] + k[f]
<1>1. PICK v \in Int : v = k[f] OBVIOUS
<1>2. k[f] = v /\ \A e \in Files : e # f => k[e] = g[e] BY <1>1
<1>3. PICK h : Sums(h, g) /\ Sum(g) = h[Files] BY TotalIsSum
<1>4. PICK j : Sums(j, k) /\ Sum(k) = j[Files] BY TotalIsSum
<1>5. /\ \A s \in SUBSET Files : s # {} => h[s] = g[Pick(s)] + h[s \ {Pick(s)}]
      /\ \A s \in SUBSET Files : h[s] \in Int
  <2>1. \A s \in SUBSET Files : s # {} => h[s] = g[Pick(s)] + h[s \ {Pick(s)}]
    BY <1>3 DEF Sums
  <2>2. \A s \in SUBSET Files : h[s] \in Int BY <1>3, SumType
  <2> QED BY <2>1, <2>2
<1>6. \A s \in SUBSET Files : s # {} => j[s] = k[Pick(s)] + j[s \ {Pick(s)}]
  BY <1>4 DEF Sums
<1>7. PICK A : A = {s \in SUBSET Files : j[s] = IF f \in s THEN h[s] - g[f] + v ELSE h[s]}
  OBVIOUS
<1>8. A \in SUBSET SUBSET Files /\ {} \in A BY <1>3, <1>4, <1>7, SumStep
<1>9. ASSUME NEW s \in SUBSET Files, s # {}, s \ {Pick(s)} \in A PROVE s \in A
  <2>1. PICK e : e = Pick(s) OBVIOUS
  <2>2. PICK r : r = s \ {e} OBVIOUS
  <2>3. e \in s /\ e \in Files /\ r \in SUBSET Files BY <1>9, <2>1, <2>2, Smaller
  <2>4. h[r] \in Int /\ h[s] = g[e] + h[r] BY <1>9, <1>5, <2>1, <2>2, <2>3
  <2>5. j[s] = k[e] + j[r] BY <1>9, <1>6, <2>1, <2>2
  <2>6. j[r] = IF f \in r THEN h[r] - g[f] + v ELSE h[r] BY <1>7, <1>9, <2>1, <2>2
  <2>7. g[e] \in Int /\ g[f] \in Int BY <2>3
  <2>8. CASE e = f
    <3>1. f \notin r /\ f \in s /\ k[e] = v BY <1>2, <2>2, <2>3, <2>8
    <3>2. j[s] = h[s] - g[f] + v BY <2>4, <2>5, <2>6, <2>7, <2>8, <3>1
    <3> QED BY <1>7, <3>1, <3>2
  <2>9. CASE e # f
    <3>1. k[e] = g[e] /\ (f \in r <=> f \in s) BY <1>2, <2>2, <2>3, <2>9
    <3>2. CASE f \in s
      <4>1. j[s] = g[e] + (h[r] - g[f] + v) BY <2>5, <2>6, <3>1, <3>2
      <4>2. j[s] = h[s] - g[f] + v BY <2>4, <2>7, <4>1
      <4> QED BY <1>7, <3>2, <4>2
    <3>3. CASE f \notin s
      <4>1. j[s] = h[s] BY <2>4, <2>5, <2>6, <3>1, <3>3
      <4> QED BY <1>7, <3>3, <4>1
    <3> QED BY <3>2, <3>3
  <2> QED BY <2>8, <2>9
<1>10. \A s \in SUBSET Files : s \in A BY <1>8, <1>9, SubsetInduction
<1>11. Files \in A BY <1>10
<1> QED BY <1>1, <1>3, <1>4, <1>7, <1>11

\* A sum of values that are not negative is not, and is zero if they are.
LEMMA TotalSign ==
  ASSUME NEW g \in [Files -> Int], \A f \in Files : g[f] >= 0
  PROVE  Sum(g) >= 0 /\ ((\A f \in Files : g[f] = 0) => Sum(g) = 0)
<1>1. PICK h : Sums(h, g) /\ Sum(g) = h[Files] BY TotalIsSum
<1>2. /\ \A s \in SUBSET Files : s # {} => h[s] = g[Pick(s)] + h[s \ {Pick(s)}]
      /\ \A s \in SUBSET Files : h[s] \in Int
  BY <1>1, SumStep, SumType
<1>3. PICK A : A = {s \in SUBSET Files :
                      h[s] >= 0 /\ ((\A f \in Files : g[f] = 0) => h[s] = 0)}
  OBVIOUS
<1>4. A \in SUBSET SUBSET Files /\ {} \in A BY <1>1, <1>3, SumStep
<1>5. ASSUME NEW s \in SUBSET Files, s # {}, s \ {Pick(s)} \in A PROVE s \in A
  <2>1. PICK e : e = Pick(s) OBVIOUS
  <2>2. PICK r : r = s \ {e} OBVIOUS
  <2>3. e \in Files /\ r \in SUBSET Files BY <1>5, <2>1, <2>2, Smaller
  <2>4. h[r] \in Int /\ h[s] = g[e] + h[r] BY <1>5, <1>2, <2>1, <2>2, <2>3
  <2>5. h[r] >= 0 /\ ((\A f \in Files : g[f] = 0) => h[r] = 0) BY <1>3, <1>5, <2>1, <2>2
  <2>6. g[e] \in Int /\ g[e] >= 0 BY <2>3
  <2>7. h[s] >= 0 BY <2>4, <2>5, <2>6
  <2>8. (\A f \in Files : g[f] = 0) => h[s] = 0 BY <2>3, <2>4, <2>5
  <2> QED BY <1>3, <2>7, <2>8
<1>6. \A s \in SUBSET Files : s \in A BY <1>4, <1>5, SubsetInduction
<1>7. Files \in A BY <1>6
<1> QED BY <1>1, <1>3, <1>7

-----------------------------------------------------------------------------
(* The tracked total.                                                      *)

\* Two functions whose values make up for each other, file by file.
LEMMA SumsOffset ==
  ASSUME NEW g \in [Files -> Int], NEW k \in [Files -> Int],
         \A f \in Files : g[f] + k[f] >= 0
  PROVE  Sum(g) + Sum(k) >= 0
<1>1. PICK h : Sums(h, g) /\ Sum(g) = h[Files] BY TotalIsSum
<1>2. PICK j : Sums(j, k) /\ Sum(k) = j[Files] BY TotalIsSum
<1>3. /\ \A s \in SUBSET Files : s # {} => h[s] = g[Pick(s)] + h[s \ {Pick(s)}]
      /\ \A s \in SUBSET Files : h[s] \in Int
  BY <1>1, SumStep, SumType
<1>4. /\ \A s \in SUBSET Files : s # {} => j[s] = k[Pick(s)] + j[s \ {Pick(s)}]
      /\ \A s \in SUBSET Files : j[s] \in Int
  BY <1>2, SumStep, SumType
<1>5. PICK A : A = {s \in SUBSET Files : h[s] + j[s] >= 0} OBVIOUS
<1>6. A \in SUBSET SUBSET Files /\ {} \in A BY <1>1, <1>2, <1>5, SumStep
<1>7. ASSUME NEW s \in SUBSET Files, s # {}, s \ {Pick(s)} \in A PROVE s \in A
  <2>1. PICK e : e = Pick(s) OBVIOUS
  <2>2. PICK r : r = s \ {e} OBVIOUS
  <2>3. e \in Files /\ r \in SUBSET Files BY <1>7, <2>1, <2>2, Smaller
  <2>4. h[r] \in Int /\ h[s] = g[e] + h[r] BY <1>3, <1>7, <2>1, <2>2, <2>3
  <2>5. j[r] \in Int /\ j[s] = k[e] + j[r] BY <1>4, <1>7, <2>1, <2>2, <2>3
  <2>6. h[r] + j[r] >= 0 BY <1>5, <1>7, <2>1, <2>2
  <2>7. g[e] \in Int /\ k[e] \in Int /\ g[e] + k[e] >= 0 BY <2>3
  <2>8. h[s] + j[s] >= 0 BY <2>4, <2>5, <2>6, <2>7
  <2> QED BY <1>5, <2>8
<1>8. \A s \in SUBSET Files : s \in A BY <1>6, <1>7, SubsetInduction
<1>9. Files \in A BY <1>8
<1> QED BY <1>1, <1>2, <1>5, <1>9

\* The bytes that are due are a number for each file.
LEMMA DueType ==
  ASSUME NEW sz \in [Files -> Nat], NEW tp \in [Files -> Nat], NEW scan
  PROVE  Due(sz, tp, scan) \in [Files -> Int]
BY DEF Due

\* So is what is on its way.
LEMMA ComingType ==
  ASSUME NEW tp, NEW un \in [Files -> Int], NEW scan
  PROVE  Coming(tp, un, scan) \in [Files -> Int]
BY DEF Coming

\* What the types say of the values and their sums.
LEMMA BudgetTypes ==
  ASSUME TypeOK
  PROVE  /\ size \in [Files -> Nat] /\ temp \in [Files -> Nat]
         /\ unreported \in [Files -> Int]
         /\ tracked \in Int /\ delta \in Int /\ behind \in Nat
         /\ refresh.sum \in Nat /\ refresh.lost \in Nat
         /\ exact.sum \in Nat /\ exact.lost \in Nat
         /\ Held(size, temp) \in [Files -> Int]
         /\ Due(size, temp, refresh) \in [Files -> Int]
         /\ Due(size, temp, exact) \in [Files -> Int]
         /\ Sum(unreported) \in Int /\ Sum(Held(size, temp)) \in Int
         /\ Sum(Due(size, temp, refresh)) \in Int /\ Sum(Due(size, temp, exact)) \in Int
         /\ Sum(Coming(temp, unreported, refresh)) \in Int
         /\ Sum(Coming(temp, unreported, exact)) \in Int
<1>1. MaxSize \in Nat BY BudgetAssumption
<1>2. size \in [Files -> Nat] /\ temp \in [Files -> Nat] BY <1>1 DEF TypeOK
<1>3. unreported \in [Files -> Int] BY <1>1 DEF TypeOK
<1>4. /\ refresh.sum \in Nat /\ refresh.lost \in Nat
      /\ exact.sum \in Nat /\ exact.lost \in Nat
  BY DEF TypeOK, Scans
<1>5. tracked \in Int /\ delta \in Int /\ behind \in Nat BY DEF TypeOK
<1>6. Held(size, temp) \in [Files -> Int] BY <1>2 DEF Held
<1>7. /\ Due(size, temp, refresh) \in [Files -> Int]
      /\ Due(size, temp, exact) \in [Files -> Int]
  BY <1>2, DueType
<1>8. /\ Coming(temp, unreported, refresh) \in [Files -> Int]
      /\ Coming(temp, unreported, exact) \in [Files -> Int]
  BY <1>3, ComingType
<1> QED BY <1>2, <1>3, <1>4, <1>5, <1>6, <1>7, <1>8, TotalType

\* A scan that loses bytes is a scan.
LEMMA LosingType ==
  ASSUME NEW scan \in Scans, NEW n \in Nat
  PROVE  /\ Losing(scan, n) \in Scans
         /\ Losing(scan, n).on = scan.on /\ Losing(scan, n).todo = scan.todo
         /\ Losing(scan, n).names = scan.names /\ Losing(scan, n).sum = scan.sum
         /\ Losing(scan, n).lost = IF scan.on THEN scan.lost + n ELSE scan.lost
<1>1. scan.lost + n \in Nat BY DEF Scans
<1> QED BY <1>1 DEF Losing, Scans

\* So is one without a name.
LEMMA WithoutType ==
  ASSUME NEW scan \in Scans, NEW f
  PROVE  /\ Without(scan, f) \in Scans
         /\ Without(scan, f).on = scan.on /\ Without(scan, f).todo = scan.todo
         /\ Without(scan, f).names = scan.names \ {<<f, "temp">>}
         /\ Without(scan, f).sum = scan.sum /\ Without(scan, f).lost = scan.lost
<1>1. scan.names \ {<<f, "temp">>} \in SUBSET Names BY DEF Scans
<1> QED BY <1>1 DEF Without, Scans

\* And one that a renamed file has slipped through.
LEMMA SlipType ==
  ASSUME TypeOK, NEW scan \in Scans, NEW f \in Files
  PROVE  /\ Slip(scan, f) \in Scans
         /\ Slip(scan, f).on = scan.on /\ Slip(scan, f).todo = scan.todo
         /\ Slip(scan, f).names = scan.names \ {<<f, "temp">>}
         /\ Slip(scan, f).sum = scan.sum
         /\ scan.on => Slip(scan, f).lost
                        = IF Slips(scan, f) THEN scan.lost + temp[f] ELSE scan.lost
<1>1. temp[f] \in Nat BY BudgetTypes
<1>2. CASE Slips(scan, f)
  <2>1. PICK t : t = Losing(scan, temp[f]) OBVIOUS
  <2>2. /\ t \in Scans /\ t.on = scan.on /\ t.todo = scan.todo /\ t.names = scan.names
        /\ t.sum = scan.sum /\ t.lost = IF scan.on THEN scan.lost + temp[f] ELSE scan.lost
    BY <1>1, <2>1, LosingType
  <2>3. Slip(scan, f) = Without(t, f) BY <1>2, <2>1 DEF Slip
  <2> QED BY <1>2, <2>2, <2>3, WithoutType
<1>3. CASE ~Slips(scan, f)
  <2>1. Slip(scan, f) = Without(scan, f) BY <1>3 DEF Slip
  <2> QED BY <1>3, <2>1, WithoutType
<1> QED BY <1>2, <1>3

\* What the removals still to be reported come to: a scan that begins with them
\* as lost has nothing less on its way.
LEMMA RemovedType ==
  ASSUME TypeOK, NEW scan
  PROVE  /\ Removed \in Nat
         /\ scan.todo = Files => Removed + Sum(Coming(temp, unreported, scan)) >= 0
<1>1. unreported \in [Files -> Int] BY BudgetTypes
<1>2. PICK g : g = [f \in Files |-> IF unreported[f] < 0 THEN -unreported[f] ELSE 0]
  OBVIOUS
<1>3. g \in [Files -> Int] /\ \A f \in Files : g[f] >= 0 BY <1>1, <1>2
<1>4. Sum(g) \in Int /\ Sum(g) >= 0 BY <1>3, TotalType, TotalSign
<1>5. PICK k : k = Coming(temp, unreported, scan) OBVIOUS
<1>6. k \in [Files -> Int] BY <1>1, <1>5, ComingType
<1>7. scan.todo = Files => \A f \in Files : g[f] + k[f] >= 0
  BY <1>1, <1>2, <1>5 DEF Coming
<1>8. scan.todo = Files => Sum(g) + Sum(k) >= 0 BY <1>3, <1>6, <1>7, SumsOffset
<1> QED BY <1>2, <1>4, <1>5, <1>8 DEF Removed

\* A scan that begins is a scan.
LEMMA NewScanType ==
  ASSUME TypeOK
  PROVE  NewScan \in Scans /\ NoScan \in Scans
<1>1. Removed \in Nat BY RemovedType
<1> QED BY <1>1 DEF NewScan, NoScan, Scans, Names

\* A step of a walk: it takes one name, or lists one directory.
LEMMA WalkStep ==
  ASSUME TypeOK, NEW scan \in Scans, NEW f \in Files, NEW next \in Walk(scan, f),
         temp[f] > 0 => unreported[f] \in {0, temp[f]}
  PROVE  /\ next \in Scans /\ next.on = scan.on /\ next.lost = scan.lost
         /\ \A e \in Files : e # f =>
              /\ e \in next.todo <=> e \in scan.todo
              /\ \A k \in {"temp", "file"} : <<e, k>> \in next.names <=> <<e, k>> \in scan.names
         /\ next.sum - Due(size, temp, next)[f] >= scan.sum - Due(size, temp, scan)[f]
         /\ Coming(temp, unreported, next)[f] >= Coming(temp, unreported, scan)[f]
<1>1. size[f] \in Nat /\ temp[f] \in Nat /\ unreported[f] \in Int BY BudgetTypes
<1>2. CASE f \in scan.todo /\ next = Listed(scan, f)
  <2>1. PICK new : new = {<<f, k>> : k \in {k \in {"temp", "file"} :
                            (IF k = "temp" THEN temp[f] ELSE size[f]) > 0}}
    OBVIOUS
  <2>2. /\ new \subseteq Names
        /\ <<f, "temp">> \in new <=> temp[f] > 0
        /\ <<f, "file">> \in new <=> size[f] > 0
        /\ \A e, k : e # f => <<e, k>> \notin new
    BY <2>1 DEF Names
  <2>3. next = [scan EXCEPT !.todo = scan.todo \ {f}, !.names = scan.names \cup new]
    BY <1>2, <2>1 DEF Listed
  <2>4. /\ next \in Scans /\ next.on = scan.on /\ next.lost = scan.lost
        /\ next.sum = scan.sum /\ next.todo = scan.todo \ {f}
        /\ next.names = scan.names \cup new
    BY <2>2, <2>3 DEF Scans
  <2>5. Due(size, temp, scan)[f] = 0 BY <1>2 DEF Due
  <2>6. Due(size, temp, next)[f] = 0 BY <1>1, <2>2, <2>4 DEF Due
  <2>7. next.sum - Due(size, temp, next)[f] >= scan.sum - Due(size, temp, scan)[f]
    BY <2>4, <2>5, <2>6 DEF Scans
  <2>8. \A e \in Files : e # f =>
          /\ e \in next.todo <=> e \in scan.todo
          /\ \A k \in {"temp", "file"} : <<e, k>> \in next.names <=> <<e, k>> \in scan.names
    BY <2>2, <2>4
  <2>9. Coming(temp, unreported, next)[f] = Coming(temp, unreported, scan)[f]
    BY <1>1, <1>2, <2>2, <2>4 DEF Coming
  <2>10. Coming(temp, unreported, scan)[f] \in Int BY <1>1 DEF Coming
  <2> QED BY <2>4, <2>7, <2>8, <2>9, <2>10
<1>3. ASSUME NEW k \in {"temp", "file"}, <<f, k>> \in scan.names,
             next = Counted(scan, f, k)
      PROVE  /\ next \in Scans /\ next.on = scan.on /\ next.lost = scan.lost
             /\ \A e \in Files : e # f =>
                  /\ e \in next.todo <=> e \in scan.todo
                  /\ \A j \in {"temp", "file"} :
                       <<e, j>> \in next.names <=> <<e, j>> \in scan.names
             /\ next.sum - Due(size, temp, next)[f] >= scan.sum - Due(size, temp, scan)[f]
             /\ Coming(temp, unreported, next)[f] >= Coming(temp, unreported, scan)[f]
  <2>1. PICK n : n = IF k = "temp" THEN temp[f] ELSE size[f] OBVIOUS
  <2>2. n \in Nat BY <1>1, <2>1
  <2>3. PICK left : left = scan.names \ {<<f, k>>} OBVIOUS
  <2>4. PICK m : m = scan.sum + n OBVIOUS
  <2>5. left \in SUBSET Names /\ m \in Nat BY <2>2, <2>3, <2>4 DEF Scans
  <2>6. next = [scan EXCEPT !.names = left, !.sum = m] BY <1>3, <2>1, <2>3, <2>4 DEF Counted
  <2>7. /\ next \in Scans /\ next.on = scan.on /\ next.lost = scan.lost
        /\ next.sum = m /\ next.todo = scan.todo /\ next.names = left
    BY <2>5, <2>6 DEF Scans
  <2>8. scan.sum \in Nat BY DEF Scans
  <2>9. Due(size, temp, next)[f] <= Due(size, temp, scan)[f] + n
    <3>1. CASE f \in scan.todo BY <2>2, <2>7, <3>1 DEF Due
    <3>2. CASE f \notin scan.todo /\ k = "temp"
      BY <1>1, <1>3, <2>1, <2>3, <2>7, <3>2 DEF Due
    <3>3. CASE f \notin scan.todo /\ k = "file"
      BY <1>1, <1>3, <2>1, <2>3, <2>7, <3>3 DEF Due
    <3> QED BY <3>1, <3>2, <3>3
  <2>10. Due(size, temp, scan)[f] \in Int /\ Due(size, temp, next)[f] \in Int
    BY BudgetTypes, DueType
  <2>11. next.sum - Due(size, temp, next)[f] >= scan.sum - Due(size, temp, scan)[f]
    BY <2>2, <2>4, <2>7, <2>8, <2>9, <2>10
  <2>12. \A e \in Files : e # f =>
           /\ e \in next.todo <=> e \in scan.todo
           /\ \A j \in {"temp", "file"} :
                <<e, j>> \in next.names <=> <<e, j>> \in scan.names
    BY <2>3, <2>7
  <2>13. Coming(temp, unreported, next)[f] >= Coming(temp, unreported, scan)[f]
    <3>1. PICK c : c = Coming(temp, unreported, scan)[f] OBVIOUS
    <3>2. PICK d : d = Coming(temp, unreported, next)[f] OBVIOUS
    <3>3. /\ c = IF temp[f] > 0 /\ (f \in scan.todo \/ <<f, "temp">> \in scan.names)
                 THEN 0 ELSE unreported[f]
          /\ d = IF temp[f] > 0 /\ (f \in scan.todo \/ <<f, "temp">> \in left)
                 THEN 0 ELSE unreported[f]
      BY <2>7, <3>1, <3>2 DEF Coming
    <3>4. <<f, "temp">> \in left => <<f, "temp">> \in scan.names BY <2>3
    <3>5. temp[f] > 0 => unreported[f] >= 0 BY <1>1
    <3> QED BY <1>1, <3>1, <3>2, <3>3, <3>4, <3>5
  <2> QED BY <2>7, <2>11, <2>12, <2>13
<1> QED BY <1>2, <1>3 DEF Walk

\* Every step keeps the types.
LEMMA BudgetTypeNext == BudgetInv /\ [Next]_vars => TypeOK'
<1> SUFFICES ASSUME BudgetInv, [Next]_vars PROVE TypeOK' OBVIOUS
<1> USE DEF BudgetInv
<1>1. MaxSize \in Nat \ {0} /\ 0 \in 0 .. MaxSize /\ 0 \in -MaxSize .. MaxSize
  BY BudgetAssumption
<1>2. NoScan \in Scans /\ NewScan \in Scans BY NewScanType
<1>3. /\ refresh \in Scans /\ exact \in Scans /\ behind \in Nat
      /\ \A f \in Files : size[f] \in Nat /\ temp[f] \in Nat
  BY BudgetTypes DEF TypeOK
<1>4. ASSUME NEW f \in Files, AppendOutput(f) PROVE TypeOK'
  <2>1. size[f] + 1 \in 0 .. MaxSize /\ 1 \in -MaxSize .. MaxSize
    BY <1>1, <1>4 DEF AppendOutput, TypeOK
  <2>2. size' \in [Files -> 0 .. MaxSize] BY <1>4, <2>1 DEF AppendOutput, TypeOK
  <2>3. unreported' \in [Files -> -MaxSize .. MaxSize]
    BY <1>4, <2>1 DEF AppendOutput, TypeOK
  <2>4. writes' \in Nat BY <1>4 DEF AppendOutput, Write, TypeOK
  <2> QED BY <1>4, <2>2, <2>3, <2>4 DEF AppendOutput, TypeOK
<1>5. ASSUME NEW f \in Files, NEW n \in 1 .. MaxSize, WriteTemp(f, n) PROVE TypeOK'
  <2>1. n \in 0 .. MaxSize /\ n \in -MaxSize .. MaxSize BY <1>1
  <2>2. temp' \in [Files -> 0 .. MaxSize] BY <1>5, <2>1 DEF WriteTemp, TypeOK
  <2>3. unreported' \in [Files -> -MaxSize .. MaxSize] BY <1>5, <2>1 DEF WriteTemp, TypeOK
  <2>4. writes' \in Nat BY <1>5 DEF WriteTemp, Write, TypeOK
  <2> QED BY <1>5, <2>2, <2>3, <2>4 DEF WriteTemp, TypeOK
<1>6. ASSUME NEW f \in Files, DropTemp(f) PROVE TypeOK'
  <2>1. temp' \in [Files -> 0 .. MaxSize] BY <1>1, <1>6 DEF DropTemp, TypeOK
  <2>2. unreported' \in [Files -> -MaxSize .. MaxSize] BY <1>1, <1>6 DEF DropTemp, TypeOK
  <2>3. refresh' \in Scans /\ exact' \in Scans BY <1>3, <1>6, WithoutType DEF DropTemp
  <2> QED BY <1>6, <2>1, <2>2, <2>3 DEF DropTemp, TypeOK
<1>7. ASSUME NEW f \in Files, Rename(f) PROVE TypeOK'
  <2>1. size' \in [Files -> 0 .. MaxSize] BY <1>7 DEF Rename, TypeOK
  <2>2. temp' \in [Files -> 0 .. MaxSize] BY <1>1, <1>7 DEF Rename, TypeOK
  <2>3. refresh' \in Scans /\ exact' \in Scans BY <1>3, <1>7, SlipType DEF Rename
  <2> QED BY <1>7, <2>1, <2>2, <2>3 DEF Rename, TypeOK
<1>8. ASSUME NEW f \in Files, Reclaim(f) PROVE TypeOK'
  <2>1. -size[f] \in -MaxSize .. MaxSize BY <1>1, <1>8 DEF TypeOK
  <2>2. unreported' \in [Files -> -MaxSize .. MaxSize] BY <1>8, <2>1 DEF Reclaim, TypeOK
  <2>3. size' \in [Files -> 0 .. MaxSize] BY <1>1, <1>8 DEF Reclaim, TypeOK
  <2>4. writes' \in Nat BY <1>8 DEF Reclaim, Write, TypeOK
  <2>5. refresh' \in Scans /\ exact' \in Scans
    BY <1>3, <1>8, LosingType DEF Reclaim, Shrink
  <2> QED BY <1>8, <2>2, <2>3, <2>4, <2>5 DEF Reclaim, TypeOK
<1>9. ASSUME NEW f \in Files, ReclaimLeaves(f) PROVE TypeOK'
  <2>1. -size[f] \in -MaxSize .. MaxSize BY <1>1, <1>9 DEF TypeOK
  <2>2. unreported' \in [Files -> -MaxSize .. MaxSize]
    BY <1>9, <2>1 DEF ReclaimLeaves, TypeOK
  <2>3. writes' \in Nat BY <1>9 DEF ReclaimLeaves, Write, TypeOK
  <2>4. refresh' \in Scans /\ exact' \in Scans BY <1>3, <1>9, LosingType DEF ReclaimLeaves
  <2>5. behind' \in Nat BY <1>3, <1>9 DEF ReclaimLeaves
  <2>6. staged' \subseteq Files BY <1>9 DEF ReclaimLeaves, TypeOK
  <2> QED BY <1>9, <2>2, <2>3, <2>4, <2>5, <2>6 DEF ReclaimLeaves, TypeOK
<1>10. ASSUME NEW f \in Files, Discard(f) PROVE TypeOK'
  <2>1. size' \in [Files -> 0 .. MaxSize] BY <1>1, <1>10 DEF Discard, TypeOK
  <2>2. staged' \subseteq Files BY <1>10 DEF Discard, TypeOK
  <2> QED BY <1>10, <2>1, <2>2 DEF Discard, TypeOK
<1>11. ASSUME NEW f \in Files, AddStateBytes(f) PROVE TypeOK'
  <2>1. unreported[f] \in Int BY BudgetTypes
  <2>2. tracked' \in Int /\ delta' \in Int BY <1>11, <2>1 DEF AddStateBytes, TypeOK
  <2>3. unreported' \in [Files -> -MaxSize .. MaxSize]
    BY <1>1, <1>11 DEF AddStateBytes, TypeOK
  <2>4. unreported[f] > 0 => unreported[f] \in Nat BY <2>1
  <2>5. exact' \in Scans BY <1>3, <1>11, <2>4, LosingType DEF AddStateBytes
  <2> QED BY <1>11, <2>2, <2>3, <2>5 DEF AddStateBytes, TypeOK
<1>12. ASSUME NEW f \in Files, RefreshVisits(f) PROVE TypeOK'
  <2>1. refresh' \in Scans BY <1>3, <1>12, WalkStep DEF RefreshVisits, Balance
  <2> QED BY <1>12, <2>1 DEF RefreshVisits, TypeOK
<1>13. ASSUME NEW f \in Files, ExactVisits(f) PROVE TypeOK'
  <2>1. exact' \in Scans BY <1>3, <1>13, WalkStep DEF ExactVisits, Balance
  <2> QED BY <1>13, <2>1 DEF ExactVisits, TypeOK
<1>14. CASE BeginRefresh BY <1>2, <1>14 DEF BeginRefresh, TypeOK
<1>15. CASE EndRefresh
  <2>1. refresh.sum + delta \in Int /\ refresh.lost \in Nat BY BudgetTypes
  <2> QED BY <1>2, <1>15, <2>1 DEF EndRefresh, TypeOK
<1>16. CASE RefreshFails BY <1>2, <1>16 DEF RefreshFails, TypeOK
<1>17. CASE BeginExact BY <1>2, <1>17 DEF BeginExact, TypeOK
<1>18. CASE EndExact
  <2>1. exact.sum \in Int /\ exact.lost \in Nat /\ delta \in Int BY BudgetTypes
  <2>2. delta > 0 => delta \in Nat BY <2>1
  <2>3. refresh' \in Scans BY <1>3, <1>18, <2>2, LosingType DEF EndExact
  <2> QED BY <1>2, <1>18, <2>1, <2>3 DEF EndExact, TypeOK
<1>19. CASE ExactFails BY <1>2, <1>19 DEF ExactFails, TypeOK
<1>20. CASE UNCHANGED vars BY <1>20 DEF vars, TypeOK
<1> QED
  BY <1>4, <1>5, <1>6, <1>7, <1>8, <1>9, <1>10, <1>11, <1>12, <1>13, <1>14, <1>15, <1>16,
     <1>17, <1>18, <1>19, <1>20 DEF Next

\* A step leaves a scan at least as much for file f as it had, and the other
\* files alone; d and e are what is added to its sum before and after.
Keeps(scan, next, d, e, f) ==
  next.on =>
    /\ scan.on
    /\ \A x \in Files : x # f =>
         /\ x \in next.todo <=> x \in scan.todo
         /\ \A k \in {"temp", "file"} : <<x, k>> \in next.names <=> <<x, k>> \in scan.names
    /\ next.sum + e + next.lost + Coming(temp', unreported', next)[f]
           - Due(size', temp', next)[f]
         >= scan.sum + d + scan.lost + Coming(temp, unreported, scan)[f]
              - Due(size, temp, scan)[f]

\* Then it keeps what Balance says of that scan.
LEMMA KeepsBalance ==
  ASSUME TypeOK, TypeOK', NEW f \in Files,
         \A x \in Files : x # f =>
           size'[x] = size[x] /\ temp'[x] = temp[x] /\ unreported'[x] = unreported[x],
         NEW scan \in Scans, NEW next \in Scans, NEW d \in Int, NEW e \in Int,
         Keeps(scan, next, d, e, f), next.on,
         scan.on => scan.sum + d + scan.lost + Sum(Coming(temp, unreported, scan))
                      >= Sum(Due(size, temp, scan))
  PROVE  next.sum + e + next.lost + Sum(Coming(temp', unreported', next))
           >= Sum(Due(size', temp', next))
<1>1. PICK g : g = Due(size, temp, scan) OBVIOUS
<1>2. PICK k : k = Due(size', temp', next) OBVIOUS
<1>3. PICK u : u = Coming(temp, unreported, scan) OBVIOUS
<1>4. PICK v : v = Coming(temp', unreported', next) OBVIOUS
<1>5. /\ size \in [Files -> Nat] /\ temp \in [Files -> Nat] /\ unreported \in [Files -> Int]
      /\ size' \in [Files -> Nat] /\ temp' \in [Files -> Nat]
      /\ unreported' \in [Files -> Int]
  <2>1. MaxSize \in Nat BY BudgetAssumption
  <2> QED BY <2>1 DEF TypeOK
<1>6. g \in [Files -> Int] /\ k \in [Files -> Int] BY <1>1, <1>2, <1>5, DueType
<1>7. u \in [Files -> Int] /\ v \in [Files -> Int] BY <1>3, <1>4, <1>5, ComingType
<1>8. ASSUME NEW x \in Files, x # f PROVE k[x] = g[x] /\ v[x] = u[x]
  <2>1. k[x] = g[x] BY <1>1, <1>2, <1>8 DEF Due, Keeps
  <2>2. v[x] = u[x] BY <1>3, <1>4, <1>8 DEF Coming, Keeps
  <2> QED BY <2>1, <2>2
<1>9. Sum(k) = Sum(g) - g[f] + k[f] BY <1>6, <1>8, TotalChanges
<1>10. Sum(v) = Sum(u) - u[f] + v[f] BY <1>7, <1>8, TotalChanges
<1>11. /\ Sum(g) \in Int /\ Sum(k) \in Int /\ g[f] \in Int /\ k[f] \in Int
       /\ Sum(u) \in Int /\ Sum(v) \in Int /\ u[f] \in Int /\ v[f] \in Int
       /\ scan.sum \in Int /\ scan.lost \in Int /\ next.sum \in Int /\ next.lost \in Int
  BY <1>6, <1>7, TotalType DEF Scans
<1>12. /\ scan.sum + d + scan.lost + Sum(u) >= Sum(g)
       /\ next.sum + e + next.lost + v[f] - k[f]
            >= scan.sum + d + scan.lost + u[f] - g[f]
  BY <1>1, <1>2, <1>3, <1>4 DEF Keeps
<1>13. next.sum + e + next.lost + Sum(v) >= Sum(k) BY <1>9, <1>10, <1>11, <1>12
<1> QED BY <1>2, <1>4, <1>13

\* A step that concerns one file keeps the balance if it does so for that file.
LEMMA OneFile ==
  ASSUME BudgetInv, TypeOK', NEW f \in Files,
         \A x \in Files : x # f =>
           size'[x] = size[x] /\ temp'[x] = temp[x] /\ unreported'[x] = unreported[x],
         temp'[f] > 0 => unreported'[f] \in {0, temp'[f]},
         tracked' + behind' + unreported'[f] - (size'[f] + temp'[f])
           >= tracked + behind + unreported[f] - (size[f] + temp[f]),
         Keeps(refresh, refresh', delta, delta', f), Keeps(exact, exact', 0, 0, f)
  PROVE  Balance'
<1>1. TypeOK /\ Balance BY DEF BudgetInv
<1>2. /\ refresh \in Scans /\ refresh' \in Scans /\ exact \in Scans /\ exact' \in Scans
      /\ delta \in Int /\ delta' \in Int /\ tracked \in Int /\ tracked' \in Int
      /\ behind \in Int /\ behind' \in Int
  BY <1>1 DEF TypeOK
<1>3. refresh'.on
        => refresh'.sum + delta' + refresh'.lost + Sum(Coming(temp', unreported', refresh'))
             >= Sum(Due(size', temp', refresh'))
  BY <1>1, <1>2, KeepsBalance DEF Balance
<1>4. exact'.on => exact'.sum + exact'.lost + Sum(Coming(temp', unreported', exact'))
                     >= Sum(Due(size', temp', exact'))
  <2>1. exact.sum \in Int /\ exact'.sum \in Int BY <1>2 DEF Scans
  <2>2. exact.sum + 0 = exact.sum /\ exact'.sum + 0 = exact'.sum BY <2>1
  <2>3. exact.on => exact.sum + 0 + exact.lost + Sum(Coming(temp, unreported, exact))
                      >= Sum(Due(size, temp, exact))
    BY <1>1, <2>2 DEF Balance
  <2>4. exact'.on => exact'.sum + 0 + exact'.lost + Sum(Coming(temp', unreported', exact'))
                       >= Sum(Due(size', temp', exact'))
    BY <1>1, <1>2, <2>3, KeepsBalance
  <2> QED BY <2>2, <2>4
<1>5. tracked' + Sum(unreported') + behind' >= Sum(Held(size', temp'))
  <2>1. PICK g : g = Held(size, temp) OBVIOUS
  <2>2. PICK k : k = Held(size', temp') OBVIOUS
  <2>3. /\ size \in [Files -> Nat] /\ temp \in [Files -> Nat]
        /\ unreported \in [Files -> Int]
        /\ size' \in [Files -> Nat] /\ temp' \in [Files -> Nat]
        /\ unreported' \in [Files -> Int]
    <3>1. MaxSize \in Nat BY BudgetAssumption
    <3> QED BY <1>1, <3>1 DEF TypeOK
  <2>4. /\ g \in [Files -> Int] /\ k \in [Files -> Int]
        /\ g[f] = size[f] + temp[f] /\ k[f] = size'[f] + temp'[f]
    BY <2>1, <2>2, <2>3 DEF Held
  <2>5. \A x \in Files : x # f => k[x] = g[x] BY <2>1, <2>2 DEF Held
  <2>6. Sum(k) = Sum(g) - g[f] + k[f] BY <2>4, <2>5, TotalChanges
  <2>7. Sum(unreported') = Sum(unreported) - unreported[f] + unreported'[f]
    BY <2>3, TotalChanges
  <2>8. /\ Sum(g) \in Int /\ Sum(k) \in Int /\ g[f] \in Int /\ k[f] \in Int
        /\ Sum(unreported) \in Int /\ unreported[f] \in Int /\ unreported'[f] \in Int
    BY <2>3, <2>4, TotalType
  <2>9. tracked + Sum(unreported) + behind >= Sum(g) BY <1>1, <2>1 DEF Balance
  <2>10. tracked' + behind' + unreported'[f] - k[f]
           >= tracked + behind + unreported[f] - g[f]
    BY <2>4
  <2>11. tracked' + Sum(unreported') + behind' >= Sum(k)
    BY <1>2, <2>6, <2>7, <2>8, <2>9, <2>10
  <2> QED BY <2>2, <2>11
<1>6. \A x \in Files : temp'[x] > 0 => unreported'[x] \in {0, temp'[x]}
  BY <1>1 DEF Balance
<1> QED BY <1>3, <1>4, <1>5, <1>6 DEF Balance

\* The bytes of one file that a scan need not look at, less those on their way:
\* a and b are the sizes under its two names, u what is to be reported.
Gap(scan, f, a, b, u) ==
  (IF f \in scan.todo THEN 0
   ELSE (IF <<f, "file">> \in scan.names THEN 0 ELSE a)
          + (IF <<f, "temp">> \in scan.names THEN 0 ELSE b))
    - (IF b > 0 /\ (f \in scan.todo \/ <<f, "temp">> \in scan.names) THEN 0 ELSE u)

\* The sizes of a file before and after a step, as numbers.
LEMMA FileValues ==
  ASSUME TypeOK, TypeOK', NEW f \in Files
  PROVE  /\ size[f] \in Nat /\ temp[f] \in Nat /\ unreported[f] \in Int
         /\ size'[f] \in Nat /\ temp'[f] \in Nat /\ unreported'[f] \in Int
<1>1. MaxSize \in Nat BY BudgetAssumption
<1> QED BY <1>1 DEF TypeOK

\* A scan keeps the balance for a file if the gap grows by no more than its sum,
\* its losses and what is added to them.
LEMMA KeepsGap ==
  ASSUME TypeOK, TypeOK', NEW f \in Files, NEW scan \in Scans, NEW next \in Scans,
         NEW d \in Int, NEW e \in Int, next.on => scan.on,
         \A x \in Files : x # f =>
           /\ x \in next.todo <=> x \in scan.todo
           /\ \A k \in {"temp", "file"} : <<x, k>> \in next.names <=> <<x, k>> \in scan.names,
         next.on =>
           next.sum + e + next.lost - Gap(next, f, size'[f], temp'[f], unreported'[f])
             >= scan.sum + d + scan.lost - Gap(scan, f, size[f], temp[f], unreported[f])
  PROVE  Keeps(scan, next, d, e, f)
<1>1. /\ size[f] \in Int /\ temp[f] \in Int /\ unreported[f] \in Int
      /\ size'[f] \in Int /\ temp'[f] \in Int /\ unreported'[f] \in Int
  BY FileValues
<1>2. PICK p \in Int, c \in Int :
        p = Due(size, temp, scan)[f] /\ c = Coming(temp, unreported, scan)[f]
  BY <1>1 DEF Due, Coming
<1>3. PICK q \in Int, v \in Int :
        q = Due(size', temp', next)[f] /\ v = Coming(temp', unreported', next)[f]
  BY <1>1 DEF Due, Coming
<1>4. Gap(scan, f, size[f], temp[f], unreported[f]) = p - c
  BY <1>1, <1>2 DEF Due, Coming, Gap
<1>5. Gap(next, f, size'[f], temp'[f], unreported'[f]) = q - v
  BY <1>1, <1>3 DEF Due, Coming, Gap
<1>6. scan.sum \in Int /\ scan.lost \in Int /\ next.sum \in Int /\ next.lost \in Int
  BY DEF Scans
<1>7. next.on => next.sum + e + next.lost + v - q >= scan.sum + d + scan.lost + c - p
  BY <1>4, <1>5, <1>6
<1> QED BY <1>2, <1>3, <1>7 DEF Keeps

\* The gap is a number.
LEMMA GapType ==
  ASSUME NEW scan, NEW f, NEW a \in Int, NEW b \in Int, NEW u \in Int
  PROVE  Gap(scan, f, a, b, u) \in Int
BY DEF Gap

\* A step that touches no scan: the file grows or shrinks as what is on its way.
LEMMA FileKeeps ==
  ASSUME TypeOK, TypeOK', NEW f \in Files, NEW scan \in Scans, NEW d \in Int,
         Gap(scan, f, size'[f], temp'[f], unreported'[f])
           <= Gap(scan, f, size[f], temp[f], unreported[f])
  PROVE  Keeps(scan, scan, d, d, f)
<1>1. /\ Gap(scan, f, size'[f], temp'[f], unreported'[f]) \in Int
      /\ Gap(scan, f, size[f], temp[f], unreported[f]) \in Int
  BY FileValues, GapType
<1>2. scan.sum \in Int /\ scan.lost \in Int BY DEF Scans
<1>3. scan.sum + d + scan.lost - Gap(scan, f, size'[f], temp'[f], unreported'[f])
        >= scan.sum + d + scan.lost - Gap(scan, f, size[f], temp[f], unreported[f])
  BY <1>1, <1>2
<1> QED BY <1>3, KeepsGap

\* A step that only moves a scan.
LEMMA ScanKeeps ==
  ASSUME TypeOK, NEW f \in Files, UNCHANGED <<size, temp, unreported>>,
         NEW scan \in Scans, NEW next \in Walk(scan, f), NEW d \in Int,
         temp[f] > 0 => unreported[f] \in {0, temp[f]}
  PROVE  Keeps(scan, next, d, d, f)
<1>1. /\ next \in Scans /\ next.on = scan.on /\ next.lost = scan.lost
      /\ \A x \in Files : x # f =>
           /\ x \in next.todo <=> x \in scan.todo
           /\ \A k \in {"temp", "file"} : <<x, k>> \in next.names <=> <<x, k>> \in scan.names
      /\ next.sum - Due(size, temp, next)[f] >= scan.sum - Due(size, temp, scan)[f]
      /\ Coming(temp, unreported, next)[f] >= Coming(temp, unreported, scan)[f]
  BY WalkStep
<1>2. PICK p \in Int, q \in Int, c \in Int, v \in Int :
        /\ p = Due(size, temp, scan)[f] /\ q = Due(size, temp, next)[f]
        /\ c = Coming(temp, unreported, scan)[f] /\ v = Coming(temp, unreported, next)[f]
  <2>1. /\ Due(size, temp, scan)[f] \in Int /\ Due(size, temp, next)[f] \in Int
        /\ Coming(temp, unreported, scan)[f] \in Int
        /\ Coming(temp, unreported, next)[f] \in Int
    BY BudgetTypes, DueType, ComingType
  <2> QED BY <2>1
<1>3. scan.sum \in Int /\ scan.lost \in Int /\ next.sum \in Int BY <1>1 DEF Scans
<1>4. next.sum + d + next.lost + v - q >= scan.sum + d + scan.lost + c - p
  BY <1>1, <1>2, <1>3
<1> QED BY <1>1, <1>2, <1>4 DEF Keeps

\* The steps that concern one file.
LEMMA FileBalance ==
  ASSUME BudgetInv, TypeOK', NEW f \in Files,
         \/ AppendOutput(f) \/ \E n \in 1 .. MaxSize : WriteTemp(f, n)
         \/ DropTemp(f) \/ Rename(f) \/ Reclaim(f) \/ ReclaimLeaves(f) \/ Discard(f)
         \/ AddStateBytes(f) \/ RefreshVisits(f) \/ ExactVisits(f)
  PROVE  Balance'
<1>1. TypeOK /\ Balance BY DEF BudgetInv
<1>2. /\ refresh \in Scans /\ exact \in Scans /\ delta \in Int /\ 0 \in Int
      /\ tracked \in Int /\ behind \in Nat
  BY <1>1 DEF TypeOK
<1>3. PICK a \in Nat, b \in Nat, u \in Int : a = size[f] /\ b = temp[f] /\ u = unreported[f]
  BY <1>1, BudgetTypes
<1>4. /\ size \in [Files -> Nat] /\ temp \in [Files -> Nat] /\ unreported \in [Files -> Int]
  BY <1>1, BudgetTypes
<1>5. b > 0 => u \in {0, b} BY <1>1, <1>3 DEF Balance
<1>6. ASSUME AppendOutput(f) PROVE Balance'
  <2>1. /\ \A x \in Files : x # f =>
             size'[x] = size[x] /\ temp'[x] = temp[x] /\ unreported'[x] = unreported[x]
        /\ size'[f] = a + 1 /\ temp'[f] = b /\ b = 0 /\ u = 0 /\ unreported'[f] = 1
        /\ tracked' = tracked /\ behind' = behind /\ delta' = delta
        /\ refresh' = refresh /\ exact' = exact
    BY <1>3, <1>4, <1>6 DEF AppendOutput, Write
  <2>2. ASSUME NEW scan PROVE Gap(scan, f, a + 1, b, 1) <= Gap(scan, f, a, b, u)
    BY <2>1 DEF Gap
  <2>3. Keeps(refresh, refresh', delta, delta', f) /\ Keeps(exact, exact', 0, 0, f)
    BY <1>1, <1>2, <1>3, <2>1, <2>2, FileKeeps
  <2>4. tracked' + behind' + unreported'[f] - (size'[f] + temp'[f])
          >= tracked + behind + unreported[f] - (size[f] + temp[f])
    BY <1>2, <1>3, <2>1
  <2> QED BY <2>1, <2>3, <2>4, OneFile
<1>7. ASSUME NEW n \in 1 .. MaxSize, WriteTemp(f, n) PROVE Balance'
  <2>1. /\ \A x \in Files : x # f =>
             size'[x] = size[x] /\ temp'[x] = temp[x] /\ unreported'[x] = unreported[x]
        /\ size'[f] = a /\ temp'[f] = n /\ b = 0 /\ u = 0 /\ unreported'[f] = n
        /\ tracked' = tracked /\ behind' = behind /\ delta' = delta
        /\ refresh' = refresh /\ exact' = exact
    BY <1>3, <1>4, <1>7 DEF WriteTemp, Write
  <2>2. n \in Nat /\ n > 0 BY BudgetAssumption
  <2>3. ASSUME NEW scan PROVE Gap(scan, f, a, n, n) <= Gap(scan, f, a, b, u)
    BY <2>1, <2>2 DEF Gap
  <2>4. Keeps(refresh, refresh', delta, delta', f) /\ Keeps(exact, exact', 0, 0, f)
    BY <1>1, <1>2, <1>3, <2>1, <2>3, FileKeeps
  <2>5. tracked' + behind' + unreported'[f] - (size'[f] + temp'[f])
          >= tracked + behind + unreported[f] - (size[f] + temp[f])
    BY <1>2, <1>3, <2>1, <2>2
  <2> QED BY <2>1, <2>4, <2>5, OneFile
<1>8. ASSUME DropTemp(f) PROVE Balance'
  <2>1. /\ \A x \in Files : x # f =>
             size'[x] = size[x] /\ temp'[x] = temp[x] /\ unreported'[x] = unreported[x]
        /\ size'[f] = a /\ temp'[f] = 0 /\ b > 0 /\ unreported'[f] = 0
        /\ tracked' = tracked /\ behind' = behind /\ delta' = delta
        /\ refresh' = Without(refresh, f) /\ exact' = Without(exact, f)
    BY <1>3, <1>4, <1>8 DEF DropTemp
  <2>2. ASSUME NEW scan \in Scans, NEW d \in Int
        PROVE  Keeps(scan, Without(scan, f), d, d, f)
    <3>1. PICK t : t = Without(scan, f) OBVIOUS
    <3>2. /\ t \in Scans /\ t.on = scan.on /\ t.todo = scan.todo
          /\ t.names = scan.names \ {<<f, "temp">>} /\ t.sum = scan.sum /\ t.lost = scan.lost
      BY <3>1, WithoutType
    <3>3. Gap(t, f, a, 0, 0) <= Gap(scan, f, a, b, u) BY <1>5, <2>1, <3>2 DEF Gap
    <3>4. Gap(t, f, a, 0, 0) \in Int /\ Gap(scan, f, a, b, u) \in Int BY GapType
    <3>5. scan.sum \in Int /\ scan.lost \in Int BY DEF Scans
    <3>6. t.sum + d + t.lost - Gap(t, f, a, 0, 0)
            >= scan.sum + d + scan.lost - Gap(scan, f, a, b, u)
      BY <3>2, <3>3, <3>4, <3>5
    <3>7. \A x \in Files : x # f =>
            /\ x \in t.todo <=> x \in scan.todo
            /\ \A k \in {"temp", "file"} : <<x, k>> \in t.names <=> <<x, k>> \in scan.names
      BY <3>2
    <3>8. Keeps(scan, t, d, d, f) BY <1>1, <1>3, <2>1, <3>2, <3>6, <3>7, KeepsGap
    <3> QED BY <3>1, <3>8
  <2>3. Keeps(refresh, refresh', delta, delta', f) /\ Keeps(exact, exact', 0, 0, f)
    BY <1>2, <2>1, <2>2
  <2>4. tracked' + behind' + unreported'[f] - (size'[f] + temp'[f])
          >= tracked + behind + unreported[f] - (size[f] + temp[f])
    BY <1>2, <1>3, <1>5, <2>1
  <2> QED BY <2>1, <2>3, <2>4, OneFile
<1>9. ASSUME Rename(f) PROVE Balance'
  <2>1. /\ \A x \in Files : x # f =>
             size'[x] = size[x] /\ temp'[x] = temp[x] /\ unreported'[x] = unreported[x]
        /\ size'[f] = b /\ temp'[f] = 0 /\ b > 0 /\ u = 0 /\ unreported'[f] = 0
        /\ tracked' = tracked /\ behind' = behind /\ delta' = delta
        /\ refresh' = Slip(refresh, f) /\ exact' = Slip(exact, f)
    BY <1>3, <1>4, <1>9 DEF Rename
  <2>2. ASSUME NEW scan \in Scans, NEW d \in Int
        PROVE  Keeps(scan, Slip(scan, f), d, d, f)
    <3>1. PICK t : t = Slip(scan, f) OBVIOUS
    <3>2. /\ t \in Scans /\ t.on = scan.on /\ t.todo = scan.todo
          /\ t.names = scan.names \ {<<f, "temp">>} /\ t.sum = scan.sum
          /\ scan.on => t.lost = IF Slips(scan, f) THEN scan.lost + b ELSE scan.lost
      BY <1>1, <1>3, <3>1, SlipType
    <3>3. Gap(t, f, b, 0, 0)
            <= Gap(scan, f, a, b, u) + IF Slips(scan, f) THEN b ELSE 0
      BY <2>1, <3>2 DEF Gap, Slips
    <3>4. Gap(t, f, b, 0, 0) \in Int /\ Gap(scan, f, a, b, u) \in Int BY GapType
    <3>5. scan.sum \in Int /\ scan.lost \in Int BY DEF Scans
    <3>6. t.on => t.sum + d + t.lost - Gap(t, f, b, 0, 0)
                    >= scan.sum + d + scan.lost - Gap(scan, f, a, b, u)
      BY <3>2, <3>3, <3>4, <3>5
    <3>7. \A x \in Files : x # f =>
            /\ x \in t.todo <=> x \in scan.todo
            /\ \A k \in {"temp", "file"} : <<x, k>> \in t.names <=> <<x, k>> \in scan.names
      BY <3>2
    <3>8. Keeps(scan, t, d, d, f) BY <1>1, <1>3, <2>1, <3>2, <3>6, <3>7, KeepsGap
    <3> QED BY <3>1, <3>8
  <2>3. Keeps(refresh, refresh', delta, delta', f) /\ Keeps(exact, exact', 0, 0, f)
    BY <1>2, <2>1, <2>2
  <2>4. tracked' + behind' + unreported'[f] - (size'[f] + temp'[f])
          >= tracked + behind + unreported[f] - (size[f] + temp[f])
    BY <1>2, <1>3, <2>1
  <2> QED BY <2>1, <2>3, <2>4, OneFile
<1>10. ASSUME Reclaim(f) PROVE Balance'
  <2>1. /\ \A x \in Files : x # f =>
             size'[x] = size[x] /\ temp'[x] = temp[x] /\ unreported'[x] = unreported[x]
        /\ size'[f] = 0 /\ temp'[f] = 0 /\ b = 0 /\ u = 0 /\ unreported'[f] = -a
        /\ tracked' = tracked /\ behind' = behind /\ delta' = delta
        /\ refresh' = Shrink(refresh, f) /\ exact' = Shrink(exact, f)
    BY <1>3, <1>4, <1>10 DEF Reclaim, Write
  <2>2. ASSUME NEW scan \in Scans, NEW d \in Int
        PROVE  Keeps(scan, Shrink(scan, f), d, d, f)
    <3>1. PICK t : t = Shrink(scan, f) OBVIOUS
    <3>2. /\ t \in Scans /\ t.on = scan.on /\ t.todo = scan.todo /\ t.names = scan.names
          /\ t.sum = scan.sum
          /\ scan.on => t.lost = IF Ahead(scan, f) THEN scan.lost + a ELSE scan.lost
      BY <1>3, <3>1, LosingType DEF Shrink
    <3>3. Gap(t, f, 0, 0, -a) <= Gap(scan, f, a, b, u) + IF Ahead(scan, f) THEN a ELSE 0
      BY <2>1, <3>2 DEF Gap, Ahead
    <3>4. -a \in Int BY <1>3
    <3>5. Gap(t, f, 0, 0, -a) \in Int /\ Gap(scan, f, a, b, u) \in Int BY <3>4, GapType
    <3>6. scan.sum \in Int /\ scan.lost \in Int BY DEF Scans
    <3>7. t.on => t.sum + d + t.lost - Gap(t, f, 0, 0, -a)
                    >= scan.sum + d + scan.lost - Gap(scan, f, a, b, u)
      BY <3>2, <3>3, <3>5, <3>6
    <3>8. Keeps(scan, t, d, d, f) BY <1>1, <1>3, <2>1, <3>2, <3>7, KeepsGap
    <3> QED BY <3>1, <3>8
  <2>3. Keeps(refresh, refresh', delta, delta', f) /\ Keeps(exact, exact', 0, 0, f)
    BY <1>2, <2>1, <2>2
  <2>4. tracked' + behind' + unreported'[f] - (size'[f] + temp'[f])
          >= tracked + behind + unreported[f] - (size[f] + temp[f])
    BY <1>2, <1>3, <2>1
  <2> QED BY <2>1, <2>3, <2>4, OneFile
<1>11. ASSUME ReclaimLeaves(f) PROVE Balance'
  <2>1. /\ \A x \in Files : x # f =>
             size'[x] = size[x] /\ temp'[x] = temp[x] /\ unreported'[x] = unreported[x]
        /\ size'[f] = a /\ temp'[f] = 0 /\ b = 0 /\ u = 0 /\ unreported'[f] = -a
        /\ tracked' = tracked /\ behind' = behind + a /\ delta' = delta
        /\ refresh' = Losing(refresh, a) /\ exact' = Losing(exact, a)
    BY <1>3, <1>4, <1>11 DEF ReclaimLeaves, Write
  <2>2. ASSUME NEW scan \in Scans, NEW d \in Int
        PROVE  Keeps(scan, Losing(scan, a), d, d, f)
    <3>1. PICK t : t = Losing(scan, a) OBVIOUS
    <3>2. /\ t \in Scans /\ t.on = scan.on /\ t.todo = scan.todo /\ t.names = scan.names
          /\ t.sum = scan.sum
          /\ scan.on => t.lost = scan.lost + a
      BY <3>1, LosingType
    <3>3. Gap(t, f, a, 0, -a) <= Gap(scan, f, a, b, u) + a BY <2>1, <3>2 DEF Gap
    <3>4. -a \in Int BY <1>3
    <3>5. Gap(t, f, a, 0, -a) \in Int /\ Gap(scan, f, a, b, u) \in Int BY <3>4, GapType
    <3>6. scan.sum \in Int /\ scan.lost \in Int BY DEF Scans
    <3>7. t.on => t.sum + d + t.lost - Gap(t, f, a, 0, -a)
                    >= scan.sum + d + scan.lost - Gap(scan, f, a, b, u)
      BY <3>2, <3>3, <3>5, <3>6
    <3>8. Keeps(scan, t, d, d, f) BY <1>1, <1>3, <2>1, <3>2, <3>7, KeepsGap
    <3> QED BY <3>1, <3>8
  <2>3. Keeps(refresh, refresh', delta, delta', f) /\ Keeps(exact, exact', 0, 0, f)
    BY <1>2, <2>1, <2>2
  <2>4. tracked' + behind' + unreported'[f] - (size'[f] + temp'[f])
          >= tracked + behind + unreported[f] - (size[f] + temp[f])
    BY <1>2, <1>3, <2>1
  <2> QED BY <2>1, <2>3, <2>4, OneFile
<1>12. ASSUME Discard(f) PROVE Balance'
  <2>1. /\ \A x \in Files : x # f =>
             size'[x] = size[x] /\ temp'[x] = temp[x] /\ unreported'[x] = unreported[x]
        /\ size'[f] = 0 /\ temp'[f] = b /\ unreported'[f] = u
        /\ tracked' = tracked /\ behind' = behind /\ delta' = delta
        /\ refresh' = refresh /\ exact' = exact
    BY <1>3, <1>4, <1>12 DEF Discard
  <2>2. ASSUME NEW scan PROVE Gap(scan, f, 0, b, u) <= Gap(scan, f, a, b, u)
    BY <2>1 DEF Gap
  <2>3. Keeps(refresh, refresh', delta, delta', f) /\ Keeps(exact, exact', 0, 0, f)
    BY <1>1, <1>2, <1>3, <2>1, <2>2, FileKeeps
  <2>4. tracked' + behind' + unreported'[f] - (size'[f] + temp'[f])
          >= tracked + behind + unreported[f] - (size[f] + temp[f])
    BY <1>2, <1>3, <2>1
  <2> QED BY <1>3, <1>5, <2>1, <2>3, <2>4, OneFile
<1>13. ASSUME AddStateBytes(f) PROVE Balance'
  <2>1. /\ \A x \in Files : x # f =>
             size'[x] = size[x] /\ temp'[x] = temp[x] /\ unreported'[x] = unreported[x]
        /\ size'[f] = a /\ temp'[f] = b /\ unreported'[f] = 0
        /\ tracked' >= tracked + u /\ tracked' \in Int /\ behind' = behind /\ delta' = delta + u
        /\ refresh' = refresh /\ exact' = IF u > 0 THEN Losing(exact, u) ELSE exact
    BY <1>2, <1>3, <1>4, <1>13 DEF AddStateBytes
  <2>2. ASSUME NEW scan
        PROVE  /\ Gap(scan, f, a, b, 0) <= Gap(scan, f, a, b, u) + u
               /\ u <= 0 => Gap(scan, f, a, b, 0) <= Gap(scan, f, a, b, u)
    <3>1. Gap(scan, f, a, b, 0) \in Int BY <1>3, GapType
    <3>2. CASE u = 0 BY <3>1, <3>2
    <3>3. CASE b > 0 /\ u = b BY <1>3, <3>3 DEF Gap
    <3>4. CASE b = 0 BY <1>3, <3>4 DEF Gap
    <3> QED BY <1>3, <1>5, <3>2, <3>3, <3>4
  <2>3. ASSUME NEW scan
        PROVE  Gap(scan, f, a, b, 0) \in Int /\ Gap(scan, f, a, b, u) \in Int
    BY GapType
  <2>4. Keeps(refresh, refresh', delta, delta', f)
    <3>1. refresh.sum \in Int /\ refresh.lost \in Int BY <1>2 DEF Scans
    <3>2. refresh.sum + delta' + refresh.lost - Gap(refresh, f, a, b, 0)
            >= refresh.sum + delta + refresh.lost - Gap(refresh, f, a, b, u)
      BY <1>2, <2>1, <2>2, <2>3, <3>1
    <3>3. delta' \in Int BY <1>2, <2>1
    <3> QED BY <1>1, <1>2, <1>3, <2>1, <3>2, <3>3, KeepsGap
  <2>5. Keeps(exact, exact', 0, 0, f)
    <3>1. exact.sum \in Int /\ exact.lost \in Int BY <1>2 DEF Scans
    <3>2. CASE u > 0
      <4>1. PICK t : t = Losing(exact, u) OBVIOUS
      <4>2. /\ t \in Scans /\ t.on = exact.on /\ t.todo = exact.todo
            /\ t.names = exact.names /\ t.sum = exact.sum
            /\ exact.on => t.lost = exact.lost + u
        BY <1>2, <3>2, <4>1, LosingType
      <4>3. Gap(t, f, a, b, 0) = Gap(exact, f, a, b, 0) BY <4>2 DEF Gap
      <4>4. t.on => t.sum + 0 + t.lost - Gap(t, f, a, b, 0)
                      >= exact.sum + 0 + exact.lost - Gap(exact, f, a, b, u)
        BY <2>2, <2>3, <3>1, <3>2, <4>2, <4>3
      <4>5. Keeps(exact, t, 0, 0, f) BY <1>1, <1>2, <1>3, <2>1, <4>2, <4>4, KeepsGap
      <4> QED BY <2>1, <3>2, <4>1, <4>5
    <3>3. CASE u <= 0
      <4>1. exact' = exact BY <2>1, <3>3
      <4> QED BY <1>1, <1>2, <1>3, <2>1, <2>2, <3>3, <4>1, FileKeeps
    <3> QED BY <3>2, <3>3
  <2>6. tracked' + behind' + unreported'[f] - (size'[f] + temp'[f])
          >= tracked + behind + unreported[f] - (size[f] + temp[f])
    BY <1>2, <1>3, <2>1
  <2> QED BY <2>1, <2>4, <2>5, <2>6, OneFile
<1>14. ASSUME RefreshVisits(f) \/ ExactVisits(f) PROVE Balance'
  <2>1. /\ UNCHANGED <<size, temp, unreported, tracked, behind, delta>>
        /\ refresh' = refresh \/ refresh' \in Walk(refresh, f)
        /\ exact' = exact \/ exact' \in Walk(exact, f)
    BY <1>14 DEF RefreshVisits, ExactVisits
  <2>2. ASSUME NEW scan \in Scans, NEW d \in Int PROVE Keeps(scan, scan, d, d, f)
    <3>1. Gap(scan, f, a, b, u) <= Gap(scan, f, a, b, u) BY GapType
    <3> QED BY <1>1, <1>3, <2>1, <3>1, FileKeeps
  <2>3. Keeps(refresh, refresh', delta, delta', f) /\ Keeps(exact, exact', 0, 0, f)
    BY <1>1, <1>2, <1>3, <1>5, <2>1, <2>2, ScanKeeps
  <2>4. tracked' + behind' + unreported'[f] - (size'[f] + temp'[f])
          >= tracked + behind + unreported[f] - (size[f] + temp[f])
    BY <1>2, <1>3, <2>1
  <2>5. temp'[f] > 0 => unreported'[f] \in {0, temp'[f]} BY <1>3, <1>5, <2>1
  <2> QED BY <2>1, <2>3, <2>4, <2>5, OneFile
<1> QED BY <1>6, <1>7, <1>8, <1>9, <1>10, <1>11, <1>12, <1>13, <1>14

\* A scan begins: nothing is due, and the removals on their way are lost.
LEMMA BeginBalance ==
  ASSUME TypeOK
  PROVE  NewScan.sum + NewScan.lost + Sum(Coming(temp, unreported, NewScan))
           >= Sum(Due(size, temp, NewScan))
<1>1. NewScan.todo = Files /\ NewScan.sum = 0 /\ NewScan.lost = Removed BY DEF NewScan
<1>2. PICK g : g = Due(size, temp, NewScan) OBVIOUS
<1>3. g \in [Files -> Int] BY <1>2, BudgetTypes, DueType
<1>4. \A f \in Files : g[f] = 0 BY <1>1, <1>2 DEF Due
<1>5. Sum(g) = 0 BY <1>3, <1>4, TotalSign
<1>6. Removed \in Nat /\ Removed + Sum(Coming(temp, unreported, NewScan)) >= 0
  BY <1>1, RemovedType
<1>7. Sum(Coming(temp, unreported, NewScan)) \in Int
  BY BudgetTypes, ComingType, TotalType
<1> QED BY <1>1, <1>2, <1>5, <1>6, <1>7

\* A scan that is over: everything is due, and everything is on its way.
LEMMA OverBalance ==
  ASSUME TypeOK, NEW scan \in Scans, Over(scan)
  PROVE  /\ Due(size, temp, scan) = Held(size, temp)
         /\ Coming(temp, unreported, scan) = unreported
<1>1. scan.todo = {} /\ scan.names = {} BY DEF Over
<1>2. Due(size, temp, scan) = Held(size, temp) BY <1>1, BudgetTypes DEF Due, Held
<1>3. Coming(temp, unreported, scan) = unreported BY <1>1, BudgetTypes DEF Coming
<1> QED BY <1>2, <1>3

\* A scan that loses bytes is due the same.
LEMMA LosingSame ==
  ASSUME NEW scan \in Scans, NEW n \in Nat
  PROVE  /\ Due(size, temp, Losing(scan, n)) = Due(size, temp, scan)
         /\ Coming(temp, unreported, Losing(scan, n)) = Coming(temp, unreported, scan)
BY LosingType DEF Due, Coming

\* A step that leaves the files alone keeps the balance if it does so for the
\* total and for both scans.
LEMMA StoreStays ==
  ASSUME Balance, size' = size, temp' = temp, unreported' = unreported,
         tracked' + Sum(unreported) + behind' >= Sum(Held(size, temp)),
         refresh'.on
           => refresh'.sum + delta' + refresh'.lost + Sum(Coming(temp, unreported, refresh'))
                >= Sum(Due(size, temp, refresh')),
         exact'.on
           => exact'.sum + exact'.lost + Sum(Coming(temp, unreported, exact'))
                >= Sum(Due(size, temp, exact'))
  PROVE  Balance'
<1>1. \A f \in Files : temp'[f] > 0 => unreported'[f] \in {0, temp'[f]} BY DEF Balance
<1>2. tracked' + Sum(unreported') + behind' >= Sum(Held(size', temp')) OBVIOUS
<1>3. refresh'.on
        => refresh'.sum + delta' + refresh'.lost + Sum(Coming(temp', unreported', refresh'))
             >= Sum(Due(size', temp', refresh'))
  OBVIOUS
<1>4. exact'.on
        => exact'.sum + exact'.lost + Sum(Coming(temp', unreported', exact'))
             >= Sum(Due(size', temp', exact'))
  OBVIOUS
<1> QED BY <1>1, <1>2, <1>3, <1>4 DEF Balance

\* What the balance says of the total and of the scans.
LEMMA BalanceSays ==
  ASSUME Balance
  PROVE  /\ tracked + Sum(unreported) + behind >= Sum(Held(size, temp))
         /\ refresh.on
              => refresh.sum + delta + refresh.lost + Sum(Coming(temp, unreported, refresh))
                   >= Sum(Due(size, temp, refresh))
         /\ exact.on
              => exact.sum + exact.lost + Sum(Coming(temp, unreported, exact))
                   >= Sum(Due(size, temp, exact))
BY DEF Balance

\* Every step of a scan that is not a visit keeps the balance.
LEMMA ScanBalance ==
  ASSUME BudgetInv, TypeOK',
         \/ BeginRefresh \/ EndRefresh \/ RefreshFails
         \/ BeginExact \/ EndExact \/ ExactFails
  PROVE  Balance'
<1>1. TypeOK /\ Balance BY DEF BudgetInv
<1>2. /\ refresh.sum \in Nat /\ refresh.lost \in Nat /\ exact.sum \in Nat /\ exact.lost \in Nat
      /\ delta \in Int /\ Sum(unreported) \in Int /\ Sum(Held(size, temp)) \in Int
      /\ Sum(Coming(temp, unreported, refresh)) \in Int
      /\ Sum(Due(size, temp, refresh)) \in Int
      /\ refresh \in Scans /\ exact \in Scans
  BY <1>1, BudgetTypes DEF TypeOK
<1>3. size' = size /\ temp' = temp /\ unreported' = unreported
  BY DEF BeginRefresh, EndRefresh, RefreshFails, BeginExact, EndExact, ExactFails
<1>4. NewScan.sum + NewScan.lost + Sum(Coming(temp, unreported, NewScan))
        >= Sum(Due(size, temp, NewScan))
  BY <1>1, BeginBalance
<1>5. CASE BeginRefresh
  <2>1. /\ tracked' = tracked /\ behind' = behind /\ exact' = exact
        /\ refresh' = NewScan /\ delta' = 0
    BY <1>5 DEF BeginRefresh
  <2>2. NewScan.sum + 0 + NewScan.lost = NewScan.sum + NewScan.lost
    <3>1. NewScan \in Scans BY <2>1 DEF TypeOK
    <3>2. NewScan.sum \in Nat /\ NewScan.lost \in Nat BY <3>1 DEF Scans
    <3> QED BY <3>2
  <2> QED BY <1>1, <1>3, <1>4, <2>1, <2>2, BalanceSays, StoreStays
<1>6. CASE EndRefresh
  <2>1. /\ Over(refresh) /\ refresh.on /\ exact' = exact
        /\ tracked' = refresh.sum + delta /\ behind' = refresh.lost /\ refresh'.on = FALSE
    BY <1>6 DEF EndRefresh, Over, NoScan
  <2>2. refresh.sum + delta + refresh.lost + Sum(unreported) >= Sum(Held(size, temp))
    BY <1>1, <1>2, <2>1, OverBalance, BalanceSays
  <2>3. tracked' + Sum(unreported) + behind' >= Sum(Held(size, temp))
    BY <1>2, <2>1, <2>2
  <2> QED BY <1>1, <1>3, <2>1, <2>3, BalanceSays, StoreStays
<1>7. CASE RefreshFails
  <2>1. tracked' = tracked /\ behind' = behind /\ exact' = exact /\ refresh'.on = FALSE
    BY <1>7 DEF RefreshFails, NoScan
  <2> QED BY <1>1, <1>3, <2>1, BalanceSays, StoreStays
<1>8. CASE BeginExact
  <2>1. /\ tracked' = tracked /\ behind' = behind /\ delta' = delta /\ refresh' = refresh
        /\ exact' = NewScan
    BY <1>8 DEF BeginExact
  <2> QED BY <1>1, <1>3, <1>4, <2>1, BalanceSays, StoreStays
<1>9. CASE EndExact
  <2>1. /\ Over(exact) /\ exact.on /\ exact'.on = FALSE
        /\ tracked' = exact.sum /\ behind' = exact.lost /\ delta' = 0
        /\ refresh' = IF delta > 0 THEN Losing(refresh, delta) ELSE refresh
    BY <1>9 DEF EndExact, Over, NoScan
  <2>2. exact.sum + exact.lost + Sum(unreported) >= Sum(Held(size, temp))
    BY <1>1, <1>2, <2>1, OverBalance, BalanceSays
  <2>3. tracked' + Sum(unreported) + behind' >= Sum(Held(size, temp))
    BY <1>2, <2>1, <2>2
  <2>4. refresh'.on
          => refresh'.sum + delta' + refresh'.lost + Sum(Coming(temp, unreported, refresh'))
               >= Sum(Due(size, temp, refresh'))
    <3>1. CASE delta > 0
      <4>1. delta \in Nat BY <1>2, <3>1
      <4>2. PICK t : t = Losing(refresh, delta) OBVIOUS
      <4>3. /\ t.on = refresh.on /\ t.sum = refresh.sum
            /\ t.lost = IF refresh.on THEN refresh.lost + delta ELSE refresh.lost
            /\ Due(size, temp, t) = Due(size, temp, refresh)
            /\ Coming(temp, unreported, t) = Coming(temp, unreported, refresh)
        BY <1>2, <4>1, <4>2, LosingType, LosingSame
      <4>4. refresh' = t BY <2>1, <3>1, <4>2
      <4>5. t.on => t.sum + 0 + t.lost + Sum(Coming(temp, unreported, t))
                      >= Sum(Due(size, temp, t))
        BY <1>1, <1>2, <4>3, BalanceSays
      <4> QED BY <2>1, <4>4, <4>5
    <3>2. CASE delta <= 0
      <4>1. refresh' = refresh BY <1>2, <2>1, <3>2
      <4>2. refresh.on => refresh.sum + 0 + refresh.lost + Sum(Coming(temp, unreported, refresh))
                            >= Sum(Due(size, temp, refresh))
        BY <1>1, <1>2, <3>2, BalanceSays
      <4> QED BY <2>1, <4>1, <4>2
    <3> QED BY <1>2, <3>1, <3>2
  <2> QED BY <1>1, <1>3, <2>1, <2>3, <2>4, StoreStays
<1>10. CASE ExactFails
  <2>1. /\ tracked' = tracked /\ behind' = behind /\ delta' = delta /\ refresh' = refresh
        /\ exact'.on = FALSE
    BY <1>10 DEF ExactFails, NoScan
  <2> QED BY <1>1, <1>3, <2>1, BalanceSays, StoreStays
<1> QED BY <1>5, <1>6, <1>7, <1>8, <1>9, <1>10

\* Every step keeps the invariant.
LEMMA BudgetNext == BudgetInv /\ [Next]_vars => BudgetInv'
<1> SUFFICES ASSUME BudgetInv, [Next]_vars PROVE BudgetInv' OBVIOUS
<1>1. TypeOK' BY BudgetTypeNext
<1> SUFFICES Balance' BY <1>1 DEF BudgetInv
<1>2. ASSUME NEW f \in Files,
             \/ AppendOutput(f) \/ \E n \in 1 .. MaxSize : WriteTemp(f, n)
             \/ DropTemp(f) \/ Rename(f) \/ Reclaim(f) \/ ReclaimLeaves(f) \/ Discard(f)
             \/ AddStateBytes(f) \/ RefreshVisits(f) \/ ExactVisits(f)
      PROVE  Balance'
  BY <1>1, <1>2, FileBalance
<1>3. CASE \/ BeginRefresh \/ EndRefresh \/ RefreshFails
           \/ BeginExact \/ EndExact \/ ExactFails
  BY <1>1, <1>3, ScanBalance
<1>4. CASE UNCHANGED vars
  <2>1. /\ size' = size /\ temp' = temp /\ unreported' = unreported /\ tracked' = tracked
        /\ behind' = behind /\ delta' = delta /\ refresh' = refresh /\ exact' = exact
    BY <1>4 DEF vars
  <2>2. Balance BY DEF BudgetInv
  <2>3. tracked' + Sum(unreported) + behind' >= Sum(Held(size, temp))
    BY <2>1, <2>2, BalanceSays
  <2>4. refresh'.on
          => refresh'.sum + delta' + refresh'.lost + Sum(Coming(temp, unreported, refresh'))
               >= Sum(Due(size, temp, refresh'))
    BY <2>1, <2>2, BalanceSays
  <2>5. exact'.on
          => exact'.sum + exact'.lost + Sum(Coming(temp, unreported, exact'))
               >= Sum(Due(size, temp, exact'))
    BY <2>1, <2>2, BalanceSays
  <2> QED BY <2>1, <2>2, <2>3, <2>4, <2>5, StoreStays
<1> QED BY <1>2, <1>3, <1>4, Zenon DEF Next

\* ReconcileAdmission leaves an exact total.
LEMMA BudgetInit == Init => BudgetInv
<1> SUFFICES ASSUME Init PROVE BudgetInv OBVIOUS
<1>1. MaxSize \in Nat /\ 0 \in -MaxSize .. MaxSize /\ 0 .. 1 \subseteq 0 .. MaxSize
  BY BudgetAssumption
<1>2. size \in [Files -> 0 .. MaxSize] /\ temp \in [Files -> 0 .. MaxSize]
  BY <1>1 DEF Init
<1>3. unreported \in [Files -> -MaxSize .. MaxSize] BY <1>1 DEF Init
<1>4. Bytes = Sum(Held(size, temp)) BY DEF Bytes, Held
<1>5. size \in [Files -> Nat] /\ temp \in [Files -> Nat] BY <1>1, <1>2
<1>6. Held(size, temp) \in [Files -> Int] BY <1>5 DEF Held
<1>7. tracked = Sum(Held(size, temp)) /\ tracked \in Int
  BY <1>4, <1>6, TotalType DEF Init
<1>8. refresh \in Scans /\ exact \in Scans /\ refresh.on = FALSE /\ exact.on = FALSE
  BY DEF Init, NoScan, Scans, Names
<1>9. behind = 0 /\ writes = 0 /\ delta = 0 /\ staged = {} BY DEF Init
<1>10. TypeOK BY <1>2, <1>3, <1>7, <1>8, <1>9 DEF TypeOK
<1>11. unreported \in [Files -> Int] /\ \A f \in Files : unreported[f] = 0 BY DEF Init
<1>12. Sum(unreported) = 0 BY <1>11, TotalSign
<1>13. tracked + Sum(unreported) + behind >= Sum(Held(size, temp))
  BY <1>7, <1>9, <1>12
<1>14. Balance BY <1>8, <1>11, <1>13 DEF Balance
<1> QED BY <1>10, <1>14 DEF BudgetInv

\* Of the byte total of admission.go: whatever writes, removals and scans overlap,
\* the total with the differences on their way is below the store by no more than
\* what overlapped the last scan, although refreshStateBytes and the exact scan
\* walk the files without a lock while they change.
THEOREM TotalIsNeverBehind == Spec => []NeverBehind
<1>1. BudgetInv => NeverBehind
  <2> SUFFICES ASSUME BudgetInv PROVE NeverBehind OBVIOUS
  <2>1. Bytes = Sum(Held(size, temp)) BY DEF Bytes, Held
  <2> QED BY <2>1 DEF BudgetInv, Balance, NeverBehind
<1> QED BY <1>1, BudgetInit, BudgetNext, PTL DEF Spec

-----------------------------------------------------------------------------
(* The index of active sessions.                                           *)

\* A mark on its way says what the file says.
MarksAgree ==
  \A w \in Writers : writing[w] # Idle =>
    /\ writing[w].mark = "active" => stored[writing[w].session] = "active"
    /\ writing[w].mark = "terminal"
         => stored[writing[w].session] \in {"terminal", "removed"}

\* What the walk has found it will not visit again.
VisitedOnce == found \cap todo = {}

\* The inductive invariant of the index.
IndexInv ==
  /\ IndexTypeOK /\ MarksAgree /\ IndexMatchesStore /\ ScanIsCurrent
  /\ VisitedOnce

\* A writer that is not idle is marking the session it wrote.
LEMMA WritingType ==
  ASSUME IndexTypeOK, NEW w \in Writers, writing[w] # Idle
  PROVE  writing[w] \in Writes
BY DEF IndexTypeOK

\* An idle writer marks no session.
LEMMA IdleMarksNothing ==
  ASSUME NEW w \in Writers, writing[w] = Idle, NEW s \in Sessions
  PROVE  w \notin Marking(s)
BY IndexAssumption DEF Marking, Idle

\* The first state is typed.
LEMMA IndexTypeInit == IndexInit => IndexTypeOK
BY DEF IndexInit, IndexTypeOK, States, Idle, Unset

\* Every step keeps the types of the index.
LEMMA IndexTypeNext == IndexTypeOK /\ [IndexNext]_indexVars => IndexTypeOK'
<1> SUFFICES ASSUME IndexTypeOK, [IndexNext]_indexVars PROVE IndexTypeOK' OBVIOUS
<1>1. ASSUME NEW w \in Writers, NEW s \in Sessions, ReplaceActive(w, s)
      PROVE  IndexTypeOK'
  BY <1>1 DEF IndexTypeOK, ReplaceActive, States, Writes
<1>2. ASSUME NEW w \in Writers, NEW s \in Sessions, ReplaceTerminal(w, s)
      PROVE  IndexTypeOK'
  BY <1>2 DEF IndexTypeOK, ReplaceTerminal, States, Writes
<1>3. ASSUME NEW w \in Writers, MarkSessionActive(w) PROVE IndexTypeOK'
  <2> writing[w] \in Writes BY <1>3, WritingType DEF MarkSessionActive
  <2> QED BY <1>3 DEF IndexTypeOK, MarkSessionActive, Writes
<1>4. ASSUME NEW s \in Sessions, Collect(s) PROVE IndexTypeOK'
  BY <1>4 DEF IndexTypeOK, Collect, States
<1>5. ASSUME NEW s \in Sessions, VisitSession(s) PROVE IndexTypeOK'
  BY <1>5 DEF IndexTypeOK, VisitSession
<1>6. CASE BeginReconcile BY <1>6 DEF IndexTypeOK, BeginReconcile, Unset
<1>7. CASE ReconcileFails BY <1>7 DEF IndexTypeOK, ReconcileFails, Unset
<1>8. CASE FinishReconcile
  BY <1>8 DEF IndexTypeOK, FinishReconcile, Unset, Replayed
<1>9. CASE UNCHANGED indexVars BY <1>9 DEF IndexTypeOK, indexVars
<1> QED BY <1>1, <1>2, <1>3, <1>4, <1>5, <1>6, <1>7, <1>8, <1>9 DEF IndexNext

\* Every step keeps the invariant of the index.
LEMMA IndexStep ==
  ASSUME IndexInv, [IndexNext]_indexVars
  PROVE  IndexInv'
<1> IndexTypeOK /\ IndexTypeOK' BY IndexTypeNext DEF IndexInv
<1>1. ASSUME NEW w \in Writers, NEW s \in Sessions,
             ReplaceActive(w, s) \/ ReplaceTerminal(w, s)
      PROVE  IndexInv'
  <2> DEFINE m == IF ReplaceActive(w, s) THEN "active" ELSE "terminal"
  <2>1. /\ writing[w] = Idle
        /\ writing' = [writing EXCEPT ![w] = [session |-> s, mark |-> m]]
        /\ stored' = [stored EXCEPT ![s] = m]
        /\ UNCHANGED <<index, reconciled, scanning, todo, found, overlay>>
    BY <1>1 DEF ReplaceActive, ReplaceTerminal
  <2>2. w \in Marking(s)' BY <2>1 DEF Marking, IndexTypeOK
  <2>3. ASSUME NEW t \in Sessions, t # s
        PROVE  Marking(t)' = Marking(t) /\ stored'[t] = stored[t]
    BY <2>1, <2>3, IdleMarksNothing DEF Marking, IndexTypeOK
  <2>4. MarksAgree'
    <3> SUFFICES ASSUME NEW v \in Writers, writing'[v] # Idle
                 PROVE  /\ writing'[v].mark = "active"
                             => stored'[writing'[v].session] = "active"
                        /\ writing'[v].mark = "terminal"
                             => stored'[writing'[v].session] \in {"terminal", "removed"}
      BY DEF MarksAgree
    <3>1. CASE v = w BY <3>1, <2>1 DEF IndexTypeOK
    <3>2. CASE v # w /\ writing[v].session = s
      <4> v \in Marking(s) BY <3>2 DEF Marking
      <4> ReplaceTerminal(w, s) /\ writing[v].mark = "terminal"
        BY <1>1 DEF ReplaceActive, ReplaceTerminal
      <4> m = "terminal"
        <5> ~ReplaceActive(w, s) BY DEF ReplaceActive
        <5> QED OBVIOUS
      <4> QED BY <3>2, <2>1 DEF IndexTypeOK
    <3>3. CASE v # w /\ writing[v].session # s
      <4> writing'[v] = writing[v] BY <3>3, <2>1 DEF IndexTypeOK
      <4> writing[v] \in Writes BY WritingType
      <4> stored'[writing[v].session] = stored[writing[v].session]
        BY <3>3, <2>3 DEF Writes
      <4> QED BY DEF IndexInv, MarksAgree
    <3> QED BY <3>1, <3>2, <3>3
  <2>5. IndexMatchesStore' BY <2>1, <2>2, <2>3 DEF IndexInv, IndexMatchesStore
  <2>6. ScanIsCurrent'
    BY <2>1, <2>2, <2>3 DEF IndexInv, ScanIsCurrent, Replayed
  <2>7. VisitedOnce' BY <2>1 DEF IndexInv, VisitedOnce
  <2> QED BY <2>4, <2>5, <2>6, <2>7 DEF IndexInv
<1>2. ASSUME NEW w \in Writers, MarkSessionActive(w) PROVE IndexInv'
  <2> DEFINE s == writing[w].session
             on == writing[w].mark = "active"
  <2>1. writing[w] \in Writes BY <1>2, WritingType DEF MarkSessionActive
  <2>2. /\ s \in Sessions /\ writing' = [writing EXCEPT ![w] = Idle]
        /\ overlay' = IF scanning THEN [overlay EXCEPT ![s] = writing[w].mark] ELSE overlay
        /\ index' = IF on THEN index \cup {s} ELSE index \ {s}
        /\ UNCHANGED <<stored, reconciled, scanning, todo, found>>
    BY <1>2, <2>1 DEF MarkSessionActive, Writes
  <2>3. on <=> stored[s] = "active"
    BY <1>2, <2>1 DEF MarkSessionActive, IndexInv, MarksAgree, Writes
  <2>4. ASSUME NEW t \in Sessions, t # s PROVE Marking(t)' = Marking(t)
    BY <2>2, <2>4, IndexAssumption DEF Marking, Idle, IndexTypeOK
  <2>5. MarksAgree' BY <2>2 DEF IndexInv, MarksAgree, IndexTypeOK
  <2>6. IndexMatchesStore'
    BY <2>2, <2>3, <2>4 DEF IndexInv, IndexMatchesStore
  <2>7. ScanIsCurrent'
    <3> SUFFICES ASSUME scanning, NEW t \in Sessions,
                        Marking(t)' = {}, t \notin todo \/ overlay'[t] # "unset"
                 PROVE  t \in Replayed' <=> stored[t] = "active"
      BY <2>2 DEF ScanIsCurrent
    <3>1. CASE t = s BY <3>1, <2>1, <2>2, <2>3 DEF Replayed, IndexTypeOK, Writes
    <3>2. CASE t # s
      BY <3>2, <2>2, <2>4 DEF Replayed, IndexTypeOK, IndexInv, ScanIsCurrent
    <3> QED BY <3>1, <3>2
  <2>8. VisitedOnce' BY <2>2 DEF IndexInv, VisitedOnce
  <2> QED BY <2>5, <2>6, <2>7, <2>8 DEF IndexInv
<1>3. ASSUME NEW s \in Sessions, Collect(s) PROVE IndexInv'
  <2>1. \A t \in Sessions : Marking(t)' = Marking(t)
    BY <1>3 DEF Collect, Marking
  <2>2. \A t \in Sessions : stored'[t] = "active" <=> stored[t] = "active"
    BY <1>3 DEF Collect, IndexTypeOK
  <2>3. MarksAgree'
    <3> \A w \in Writers : writing[w] # Idle => writing[w].session \in Sessions
      BY WritingType DEF Writes
    <3> QED BY <1>3 DEF Collect, IndexInv, MarksAgree, IndexTypeOK
  <2>4. IndexMatchesStore'
    BY <1>3, <2>1, <2>2 DEF Collect, IndexInv, IndexMatchesStore
  <2>5. ScanIsCurrent'
    BY <1>3, <2>1, <2>2 DEF Collect, IndexInv, ScanIsCurrent, Replayed
  <2>6. VisitedOnce' BY <1>3 DEF Collect, IndexInv, VisitedOnce
  <2> QED BY <2>3, <2>4, <2>5, <2>6 DEF IndexInv
<1>4. ASSUME NEW s \in Sessions, VisitSession(s) PROVE IndexInv'
  BY <1>4 DEF VisitSession, IndexInv, MarksAgree, IndexMatchesStore,
     ScanIsCurrent, VisitedOnce, Replayed, Marking, IndexTypeOK
<1>5. CASE BeginReconcile
  BY <1>5 DEF BeginReconcile, IndexInv, MarksAgree, IndexMatchesStore,
     ScanIsCurrent, VisitedOnce, Replayed, Marking,
     Unset, IndexTypeOK, States
<1>6. CASE ReconcileFails
  BY <1>6 DEF ReconcileFails, IndexInv, MarksAgree, IndexMatchesStore,
     ScanIsCurrent, VisitedOnce, Marking
<1>7. CASE FinishReconcile
  BY <1>7 DEF FinishReconcile, IndexInv, MarksAgree, IndexMatchesStore,
     ScanIsCurrent, VisitedOnce, Replayed, Marking
<1>8. CASE UNCHANGED indexVars
  BY <1>8 DEF indexVars, IndexInv, MarksAgree, IndexMatchesStore, ScanIsCurrent,
     VisitedOnce, Replayed, Marking
<1> QED BY <1>1, <1>2, <1>3, <1>4, <1>5, <1>6, <1>7, <1>8 DEF IndexNext

\* For any sessions and writers: a reconciled index is exactly the sessions that
\* are not terminal, up to marks on their way (admission.go: "ActiveSessions is
\* exact").
THEOREM IndexIsExact == IndexSpec => []IndexMatchesStore
<1>1. IndexInit => IndexInv
  BY IndexTypeInit DEF IndexInit, IndexInv, MarksAgree, IndexMatchesStore,
     ScanIsCurrent, VisitedOnce
<1>2. IndexInv /\ [IndexNext]_indexVars => IndexInv' BY IndexStep
<1>3. IndexInv => IndexMatchesStore BY DEF IndexInv
<1> QED BY <1>1, <1>2, <1>3, PTL DEF IndexSpec
=============================================================================
