------------------------------ MODULE ServiceProofs ------------------------------
(***************************************************************************)
(* Proofs about two small components that share nothing but this module.      *)
(*                                                                         *)
(* ExecutionNumbering, for any callers, numbers and failures.                *)
(*                                                                         *)
(* DataActivities (Query Builder and Matching Data), for any handlers,         *)
(* databases, limits and lists of any length.  What the fold and the           *)
(* recursive function of MatchingData compute is found without an induction    *)
(* theorem: a set of counterexamples has a least member, since the strict       *)
(* subsets of a finite set are well founded.                                   *)
(***************************************************************************)
EXTENDS ExecutionNumbering, DataActivities, FiniteSetTheorems, WellFoundedInduction, TLAPS

-------------------------------------------------------------------------------
(* Numbering: the inductive invariant and what a step keeps of it. *)

TypeInv ==
  /\ TotalEXC \in Nat
  /\ record = [k \in DOMAIN record |-> record[k]]
  /\ call \in [Caller -> [pc: {"idle", "save", "create"}, n: Nat]]
  /\ \A c \in Caller : ~At(c, "idle") => call[c].n \in Number

\* A number that is not a gap.
Covered(k) ==
  \/ k \in DOMAIN record \union dropped
  \/ \E c \in Caller : call[c].pc \in {"save", "create"} /\ call[c].n = k

\* There is no gap below a number a call still holds, either.
HeldDense ==
  \A c \in Caller : ~At(c, "idle") => \A k \in 1 .. call[c].n : Covered(k)

IInv == TypeInv /\ Dense /\ HeldDense

-------------------------------------------------------------------------------
LEMMA InitInv == Init => IInv
  BY DEF Init, IInv, TypeInv, Dense, HeldDense, Reached, At, Free

\* Each step of a call keeps the types.
LEMMA NextType == TypeInv /\ [Next]_vars => TypeInv'
<1> SUFFICES ASSUME TypeInv, [Next]_vars PROVE TypeInv'
  OBVIOUS
<1> USE NumberingAssumption DEF TypeInv, At
<1>1. ASSUME NEW c \in Caller, ReadTotal(c) PROVE TypeInv'
  BY <1>1 DEF ReadTotal
<1>2. ASSUME NEW c \in Caller, SaveTotal(c) PROVE TypeInv'
  BY <1>2 DEF SaveTotal
<1>3. ASSUME NEW c \in Caller, CreateRecord(c) PROVE TypeInv'
  BY <1>3 DEF CreateRecord, Free
<1>4. ASSUME NEW c \in Caller, Collide(c) \/ Fail(c) PROVE TypeInv'
  BY <1>4 DEF Collide, Fail, Free
<1>5. ASSUME NEW n \in DOMAIN record, Delete(n) PROVE TypeInv'
  BY <1>5 DEF Delete
<1>6. CASE Exhausted \/ UNCHANGED vars
  BY <1>6 DEF Exhausted, vars
<1> QED
  BY <1>1, <1>2, <1>3, <1>4, <1>5, <1>6 DEF Next, Step

\* No step makes a gap of a number that is none.
LEMMA CoveredKept ==
  ASSUME TypeInv, [Next]_vars, NEW k \in Nat, Covered(k)
  PROVE  Covered(k)'
<1> USE DEF TypeInv, At, Covered
<1>1. ASSUME NEW c \in Caller, ReadTotal(c) PROVE Covered(k)'
  BY <1>1 DEF ReadTotal
<1>2. ASSUME NEW c \in Caller, SaveTotal(c) PROVE Covered(k)'
  BY <1>2 DEF SaveTotal
<1>3. ASSUME NEW c \in Caller, CreateRecord(c) PROVE Covered(k)'
  BY <1>3 DEF CreateRecord, Free
<1>4. ASSUME NEW c \in Caller, Collide(c) \/ Fail(c) PROVE Covered(k)'
  BY <1>4 DEF Collide, Fail, Free
<1>5. ASSUME NEW n \in DOMAIN record, Delete(n) PROVE Covered(k)'
  BY <1>5 DEF Delete
<1>6. CASE Exhausted \/ UNCHANGED vars
  BY <1>6 DEF Exhausted, vars
<1> QED
  BY <1>1, <1>2, <1>3, <1>4, <1>5, <1>6 DEF Next, Step

\* A number reached after a step was reached or held before it.
LEMMA ReachedBefore ==
  ASSUME TypeInv, [Next]_vars, NEW m \in Reached'
  PROVE  m \in Reached \/ (\E c \in Caller : ~At(c, "idle") /\ call[c].n = m)
<1> USE DEF TypeInv, At, Reached
<1>1. ASSUME NEW c \in Caller, ReadTotal(c) PROVE m \in Reached
  BY <1>1 DEF ReadTotal
<1>2. ASSUME NEW c \in Caller, SaveTotal(c)
      PROVE  m \in Reached \/ (~At(c, "idle") /\ call[c].n = m)
  BY <1>2 DEF SaveTotal
<1>3. ASSUME NEW c \in Caller, CreateRecord(c)
      PROVE  m \in Reached \/ (~At(c, "idle") /\ call[c].n = m)
  BY <1>3 DEF CreateRecord
<1>4. ASSUME NEW c \in Caller, Collide(c) \/ Fail(c) PROVE m \in Reached
  BY <1>4 DEF Collide, Fail
<1>5. ASSUME NEW n \in DOMAIN record, Delete(n) PROVE m \in Reached
  BY <1>5 DEF Delete
<1>6. CASE Exhausted \/ UNCHANGED vars
  BY <1>6 DEF Exhausted, vars
<1> QED
  BY <1>1, <1>2, <1>3, <1>4, <1>5, <1>6 DEF Next, Step

\* A number held after a step was held before it, or follows TotalEXC.
LEMMA HeldBefore ==
  ASSUME TypeInv, [Next]_vars, NEW c \in Caller, ~At(c, "idle")'
  PROVE  \/ ~At(c, "idle") /\ call'[c].n = call[c].n
         \/ call'[c].n = TotalEXC + 1
<1> USE DEF TypeInv, At
<1>1. ASSUME NEW d \in Caller, Step(d) \/ Fail(d)
      PROVE  \/ ~At(c, "idle") /\ call'[c].n = call[c].n
             \/ call'[c].n = TotalEXC + 1
  <2>1. CASE d = c
    BY <1>1, <2>1 DEF Step, ReadTotal, SaveTotal, CreateRecord, Collide, Fail, Free
  <2>2. CASE d # c
    BY <1>1, <2>2 DEF Step, ReadTotal, SaveTotal, CreateRecord, Collide, Fail
  <2> QED
    BY <2>1, <2>2
<1>2. CASE (\E n \in DOMAIN record : Delete(n)) \/ Exhausted \/ UNCHANGED vars
  BY <1>2 DEF Delete, Exhausted, vars
<1> QED
  BY <1>1, <1>2 DEF Next

LEMMA NextInv == IInv /\ [Next]_vars => IInv'
<1> SUFFICES ASSUME IInv, [Next]_vars PROVE IInv'
  OBVIOUS
<1>1. TypeInv /\ TypeInv'
  BY NextType DEF IInv
<1>2. \A k \in Nat : Covered(k) => Covered(k)'
  BY <1>1, CoveredKept
<1>3. \A m \in Reached : \A k \in 1 .. m : Covered(k)
  BY DEF IInv, Dense, Covered
<1>4. Dense'
  <2> SUFFICES ASSUME NEW m \in Reached', NEW k \in 1 .. m PROVE Covered(k)'
    BY DEF Dense, Covered
  <2>1. CASE m \in Reached
    BY <1>2, <1>3, <2>1
  <2>2. ASSUME NEW c \in Caller, ~At(c, "idle"), call[c].n = m PROVE Covered(k)'
    BY <1>2, <2>2 DEF IInv, HeldDense
  <2> QED
    BY <1>1, <2>1, <2>2, ReachedBefore
<1>5. HeldDense'
  <2> SUFFICES ASSUME NEW c \in Caller, ~At(c, "idle")', NEW k \in 1 .. call'[c].n
               PROVE  Covered(k)'
    BY DEF HeldDense
  <2>1. CASE ~At(c, "idle") /\ call'[c].n = call[c].n
    BY <1>2, <2>1 DEF IInv, HeldDense
  <2>2. CASE call'[c].n = TotalEXC + 1
    <3>1. k \in 1 .. TotalEXC \/ k = call'[c].n
      BY <1>1, <2>2 DEF TypeInv
    <3>2. CASE k \in 1 .. TotalEXC
      BY <1>2, <1>3, <3>2 DEF Reached
    <3>3. CASE k = call'[c].n
      BY <1>1, <3>3 DEF TypeInv, Covered, At
    <3> QED
      BY <3>1, <3>2, <3>3
  <2> QED
    BY <1>1, <2>1, <2>2, HeldBefore
<1> QED
  BY <1>1, <1>4, <1>5 DEF IInv

LEMMA Invariance == Spec => []IInv
  BY InitInv, NextInv, PTL DEF Spec

\* Execution numbers are handed out without gaps (createWorkflowExecution),
\* for any callers, failures and deletions.
THEOREM NumbersAreDense == Spec => []Dense
<1>1. IInv => Dense
  BY DEF IInv
<1> QED
  BY <1>1, Invariance, PTL

\* Every step of the numbering is a step of the allocator or leaves it alone.
LEMMA StepImplements == TypeInv /\ [Next]_vars => [A!Grant \/ A!Withdraw]_record
<1> SUFFICES ASSUME TypeInv, [Next]_vars
             PROVE  A!Grant \/ A!Withdraw \/ UNCHANGED record
  OBVIOUS
<1>1. ASSUME NEW c \in Caller, CreateRecord(c) PROVE A!Grant
  BY <1>1 DEF CreateRecord, A!Grant, TypeInv, At
<1>2. ASSUME NEW n \in DOMAIN record, Delete(n) PROVE A!Withdraw
  BY <1>2 DEF Delete, A!Withdraw
<1>3. ASSUME NEW c \in Caller, ReadTotal(c) \/ SaveTotal(c) \/ Collide(c) \/ Fail(c)
      PROVE  UNCHANGED record
  BY <1>3 DEF ReadTotal, SaveTotal, Collide, Fail
<1>4. CASE Exhausted \/ UNCHANGED vars
  BY <1>4 DEF Exhausted, vars
<1> QED
  BY <1>1, <1>2, <1>3, <1>4 DEF Next, Step

\* createWorkflowExecution implements the allocator: no number is given to a
\* second call while its record exists, however the calls interleave.
THEOREM NumbersAreUnique == Spec => OneRecordPerNumber
<1>1. Init => A!Init
  BY DEF Init, A!Init
<1>2. IInv => TypeInv
  BY DEF IInv
<1> QED
  BY <1>1, <1>2, StepImplements, Invariance, PTL DEF Spec, OneRecordPerNumber, A!Spec

-------------------------------------------------------------------------------
(* Listing by pages. *)

\* Division of naturals.
LEMMA Quotient ==
  ASSUME NEW m \in Nat, NEW s \in Nat \ {0}
  PROVE  /\ m \div s \in Nat
         /\ s * (m \div s) <= m
         /\ m < s * (m \div s) + s
  OBVIOUS

\* The multiples of s are at least s apart.
LEMMA Apart ==
  ASSUME NEW s \in Nat \ {0}, NEW p \in Nat, NEW q \in Nat, p < q
  PROVE  s * p <= s * q - s
<1>1. s * (q - p - 1) >= 0
  OBVIOUS
<1>2. s * (q - p - 1) = s * q - s * p - s
  OBVIOUS
<1> QED
  BY <1>1, <1>2

\* Every position is in one interval of s positions.
LEMMA OneInterval ==
  ASSUME NEW m \in Nat, NEW s \in Nat \ {0}
  PROVE  \E p \in Nat \ {0} : \A q \in Nat \ {0} : (s * q - s <= m /\ m < s * q) <=> q = p
<1> DEFINE p == m \div s + 1
<1>1. p \in Nat \ {0} /\ s * p - s <= m /\ m < s * p
  <2>1. s * p = s * (m \div s) + s
    BY Quotient
  <2> QED
    BY <2>1, Quotient
<1> HIDE DEF p
<1>2. ASSUME NEW q \in Nat \ {0}, s * q - s <= m, m < s * q PROVE q = p
  <2>1. CASE q < p
    <3>1. s * q <= s * p - s
      BY <2>1, <1>1, Apart
    <3> QED
      BY <3>1, <1>1, <1>2
  <2>2. CASE p < q
    <3>1. s * p <= s * q - s
      BY <2>2, <1>1, Apart
    <3> QED
      BY <3>1, <1>1, <1>2
  <2> QED
    BY <2>1, <2>2, <1>1
<1> QED
  BY <1>1, <1>2

\* Whatever the size of the pages and the order, the list by pages shows every
\* execution once: its number is on one page and on no other.
THEOREM PagesShowEachOnce ==
  ASSUME NEW total \in Nat, NEW size \in Nat \ {0}, NEW n \in 1 .. total
  PROVE  /\ \E p \in Nat \ {0} : \A q \in Nat \ {0} :
              n \in AscendingPage(total, q, size) <=> q = p
         /\ \E p \in Nat \ {0} : \A q \in Nat \ {0} :
              n \in DescendingPage(total, q, size) <=> q = p
<1>1. ASSUME NEW q \in Nat \ {0}
      PROVE  n \in AscendingPage(total, q, size) <=> size * q - size <= n - 1 /\ n - 1 < size * q
  <2> DEFINE k == size * q
  <2>1. k \in Int
    OBVIOUS
  <2> HIDE DEF k
  <2>2. n \in {i \in k - size + 1 .. k - size + 1 + size - 1 : i <= total}
          <=> k - size <= n - 1 /\ n - 1 < k
    BY <2>1
  <2> QED
    BY <2>2 DEF AscendingPage, k
<1>2. ASSUME NEW q \in Nat \ {0}
      PROVE  n \in DescendingPage(total, q, size)
               <=> size * q - size <= total - n /\ total - n < size * q
  <2> DEFINE k == size * q
  <2>1. k \in Int /\ q * size = k
    OBVIOUS
  <2> HIDE DEF k
  <2>2. n \in {i \in total - k + size - size + 1 .. total - k + size : i >= 0}
          <=> k - size <= total - n /\ total - n < k
    BY <2>1
  <2>3. DescendingPage(total, q, size)
          = {i \in total - k + size - size + 1 .. total - k + size : i >= 0}
    BY <2>1 DEF DescendingPage
  <2> QED
    BY <2>2, <2>3 DEF k
<1>3. n - 1 \in Nat /\ total - n \in Nat
  OBVIOUS
<1>4. PICK p \in Nat \ {0} : \A q \in Nat \ {0} :
        (size * q - size <= n - 1 /\ n - 1 < size * q) <=> q = p
  BY <1>3, OneInterval
<1>5. PICK r \in Nat \ {0} : \A q \in Nat \ {0} :
        (size * q - size <= total - n /\ total - n < size * q) <=> q = r
  BY <1>3, OneInterval
<1> QED
  BY <1>1, <1>2, <1>4, <1>5

-------------------------------------------------------------------------------
(* Matching Data: sets of numbers. *)

\* A set of places that is not empty has a greatest one.
LEMMA GreatestPlace ==
  ASSUME NEW n \in Nat, NEW s \in SUBSET (1..n), s # {}
  PROVE  Max(s) \in s /\ \A y \in s : y <= Max(s)
<1>1. \E x \in s : \A y \in s : x >= y
  <2> DEFINE T == {x..n : x \in s}
  <2>1. T \subseteq FiniteSubsetsOf(Nat) /\ T # {}
    <3>1. \A x \in s : x..n \in SUBSET Nat /\ IsFiniteSet(x..n)
      BY FS_Interval
    <3> QED
      BY <3>1 DEF FiniteSubsetsOf
  <2>2. PICK a \in T : \A b \in T : ~(<<b, a>> \in StrictSubsetOrdering(Nat))
    BY <2>1, FS_StrictSubsetOrderingWellFounded, WFMin
  <2>3. PICK x \in s : a = x..n
    BY <2>2
  <2>4. ASSUME NEW y \in s, y > x PROVE FALSE
    <3>1. y..n \subseteq x..n /\ x \in x..n /\ x \notin y..n
      BY <2>4
    <3>2. y..n \in SUBSET Nat /\ x..n \in SUBSET Nat
      OBVIOUS
    <3>3. <<y..n, x..n>> \in StrictSubsetOrdering(Nat)
      BY <3>1, <3>2 DEF StrictSubsetOrdering
    <3> QED
      BY <2>2, <2>3, <3>3
  <2> QED
    BY <2>4
<1> QED
  BY <1>1 DEF Max

\* Induction up to n, over a set.
LEMMA UpTo ==
  ASSUME NEW n \in Nat, NEW S, 1 \in S, \A k \in 1..n - 1 : k \in S => k + 1 \in S
  PROVE  1..n \subseteq S
<1> SUFFICES ASSUME (1..n) \ S # {} PROVE FALSE
  OBVIOUS
<1> DEFINE T == {1..x : x \in (1..n) \ S}
<1>1. T \subseteq FiniteSubsetsOf(Nat) /\ T # {}
  <2>1. \A x \in 1..n : 1..x \in SUBSET Nat /\ IsFiniteSet(1..x)
    BY FS_Interval
  <2> QED
    BY <2>1 DEF FiniteSubsetsOf
<1>2. PICK a \in T : \A b \in T : ~(<<b, a>> \in StrictSubsetOrdering(Nat))
  BY <1>1, FS_StrictSubsetOrderingWellFounded, WFMin
<1>3. PICK x \in (1..n) \ S : a = 1..x
  BY <1>2
<1>4. x # 1 /\ x - 1 \in 1..n - 1 /\ x - 1 + 1 = x
  BY <1>3
<1>5. x - 1 \in (1..n) \ S
  BY <1>3, <1>4
<1>6. 1..x - 1 \in SUBSET Nat /\ 1..x \in SUBSET Nat /\ 1..x - 1 \subseteq 1..x
      /\ x \in 1..x /\ x \notin 1..x - 1
  BY <1>4
<1>7. <<1..x - 1, 1..x>> \in StrictSubsetOrdering(Nat)
  BY <1>6 DEF StrictSubsetOrdering
<1> QED
  BY <1>2, <1>3, <1>5, <1>7

-------------------------------------------------------------------------------
(* Found: the fold over the other lists. *)

\* Where the comparison of a row begins.
Nothing == [exist |-> FALSE, mismatch |-> FALSE]

\* What the rows of others at the places s say of a row.
Summary(row, others, s) ==
  [exist |-> \E i \in s : others[i].key = row.key,
   mismatch |-> \E i \in s : others[i].key = row.key /\ others[i].fields # row.fields]

\* The lists a row of the first is compared with.
Others(lists) == Middle(lists) \o lists[Len(lists)]

\* The inputs are lists of rows.
LEMMA ListsAreRows ==
  ASSUME NEW lists \in Lists
  PROVE  /\ lists \in Seq(Seq(Row)) /\ Len(lists) \in Nat \ {0}
         /\ \A i \in 1..Len(lists) : lists[i] \in Seq(Row)
         /\ Middle(lists) \in Seq(Row)
<1>1. lists \in Seq(Seq(Row)) /\ lists # << >>
  BY DataAssumption DEF DataAssumption
<1>2. Len(lists) \in Nat \ {0}
  BY <1>1
<1>3. \A i \in 1..Len(lists) : lists[i] \in Seq(Row)
  BY <1>1
<1>4. Middle(lists) \in Seq(Row)
  BY <1>2, <1>3 DEF Middle
<1> QED
  BY <1>1, <1>2, <1>3, <1>4

\* A concatenation holds what its parts hold.
LEMMA OthersAreRows ==
  ASSUME NEW lists \in Lists
  PROVE  /\ Others(lists) \in Seq(Row)
         /\ ToSet(Others(lists)) = ToSet(Middle(lists)) \union ToSet(lists[Len(lists)])
<1>1. Middle(lists) \in Seq(Row) /\ lists[Len(lists)] \in Seq(Row)
  BY ListsAreRows
<1> DEFINE a == Middle(lists)
           b == lists[Len(lists)]
<1> HIDE DEF a, b
<1>2. a \in Seq(Row) /\ b \in Seq(Row)
  BY <1>1 DEF a, b
<1>3. a \o b \in Seq(Row) /\ Len(a \o b) = Len(a) + Len(b)
  BY <1>2
<1>4. ToSet(a \o b) = ToSet(a) \union ToSet(b)
  <2>1. \A i \in 1..Len(a) : (a \o b)[i] = a[i]
    BY <1>2
  <2>2. \A i \in 1..Len(b) : (a \o b)[Len(a) + i] = b[i]
    BY <1>2
  <2>3. \A i \in 1..Len(a) + Len(b) :
          \/ i \in 1..Len(a)
          \/ \E j \in 1..Len(b) : i = Len(a) + j
    <3> SUFFICES ASSUME NEW i \in 1..Len(a) + Len(b), i \notin 1..Len(a)
                 PROVE  i - Len(a) \in 1..Len(b) /\ i = Len(a) + (i - Len(a))
      OBVIOUS
    <3>1. Len(a) \in Nat /\ Len(b) \in Nat
      BY <1>2
    <3> QED
      BY <3>1
  <2>4. \A i \in 1..Len(a) : i \in 1..Len(a) + Len(b)
    BY <1>2
  <2>5. \A j \in 1..Len(b) : Len(a) + j \in 1..Len(a) + Len(b)
    BY <1>2
  <2>6. DOMAIN a = 1..Len(a) /\ DOMAIN b = 1..Len(b) /\ DOMAIN (a \o b) = 1..Len(a) + Len(b)
    BY <1>2, <1>3
  <2>7. ASSUME NEW x \in ToSet(a \o b) PROVE x \in ToSet(a) \union ToSet(b)
    <3>1. PICK i \in 1..Len(a) + Len(b) : x = (a \o b)[i]
      BY <2>6 DEF ToSet
    <3>2. CASE i \in 1..Len(a)
      BY <2>1, <2>6, <3>1, <3>2 DEF ToSet
    <3>3. CASE \E j \in 1..Len(b) : i = Len(a) + j
      BY <2>2, <2>6, <3>1, <3>3 DEF ToSet
    <3> QED
      BY <2>3, <3>2, <3>3
  <2>8. ASSUME NEW x \in ToSet(a) PROVE x \in ToSet(a \o b)
    <3>1. PICK i \in 1..Len(a) : x = a[i]
      BY <2>6 DEF ToSet
    <3> QED
      BY <2>1, <2>4, <2>6, <3>1 DEF ToSet
  <2>9. ASSUME NEW x \in ToSet(b) PROVE x \in ToSet(a \o b)
    <3>1. PICK j \in 1..Len(b) : x = b[j]
      BY <2>6 DEF ToSet
    <3> QED
      BY <2>2, <2>5, <2>6, <3>1 DEF ToSet
  <2> QED
    BY <2>7, <2>8, <2>9
<1> QED
  BY <1>3, <1>4 DEF Others, a, b

\* Comparing row after row (compareLineItems) finds what the summary says: the
\* summaries solve the equation of the fold, and no other function does.
LEMMA FoundIsSummary ==
  ASSUME NEW row, NEW lists \in Lists
  PROVE  Found(row, lists) = Summary(row, Others(lists), DOMAIN Others(lists))
<1> DEFINE others == Others(lists)
           Places == SUBSET (DOMAIN others)
           Look(f, s) == IF s = {} THEN Nothing
                         ELSE Compare(row, others[Max(s)], f[s \ {Max(s)}])
           iter == CHOOSE f : f = [s \in Places |-> Look(f, s)]
           g == [s \in Places |-> Summary(row, others, s)]
<1>0. others \in Seq(Row)
  BY OthersAreRows
<1>1. Found(row, lists) = iter[DOMAIN others]
  BY DEF Found, FoldLeft, MapThenFoldSet, Nothing, Others
<1> HIDE DEF others
<1>2. ASSUME NEW s \in Places, s # {}
      PROVE  /\ Max(s) \in s /\ s \ {Max(s)} \in Places
             /\ Compare(row, others[Max(s)], Summary(row, others, s \ {Max(s)})) = Summary(row, others, s)
  <2>1. PICK n \in Nat : DOMAIN others = 1..n
    BY <1>0
  <2>2. Max(s) \in s
    BY <1>2, <2>1, GreatestPlace
  <2> DEFINE m == Max(s)
             r == s \ {m}
  <2>3. m \in s
    BY <2>2
  <2> HIDE DEF m
  <2>4. CASE others[m].key = row.key
    <3>1. \E i \in s : others[i].key = row.key
      BY <2>3, <2>4
    <3>2. (\E i \in s : others[i].key = row.key /\ others[i].fields # row.fields)
            <=> \/ \E i \in r : others[i].key = row.key /\ others[i].fields # row.fields
                \/ others[m].fields # row.fields
      BY <2>3, <2>4
    <3> QED
      BY <2>3, <2>4, <3>1, <3>2 DEF Compare, Summary, m
  <2>5. CASE others[m].key # row.key
    <3>1. (\E i \in s : others[i].key = row.key) <=> (\E i \in r : others[i].key = row.key)
      BY <2>3, <2>5
    <3>2. (\E i \in s : others[i].key = row.key /\ others[i].fields # row.fields)
            <=> (\E i \in r : others[i].key = row.key /\ others[i].fields # row.fields)
      BY <2>3, <2>5
    <3> QED
      BY <2>3, <2>5, <3>1, <3>2 DEF Compare, Summary, m
  <2> QED
    BY <2>4, <2>5
<1>3. Summary(row, others, {}) = Nothing
  BY DEF Summary, Nothing
<1>4. \A s \in Places : Look(g, s) = g[s]
  BY <1>2, <1>3
<1>5. g = [s \in Places |-> Look(g, s)]
  BY <1>4
<1> HIDE DEF g
<1>6. iter = [s \in Places |-> Look(iter, s)]
  BY <1>5
<1> HIDE DEF iter
<1>7. \A s \in Places : iter[s] = Look(iter, s) /\ g[s] = Look(g, s)
  BY <1>5, <1>6
<1>8. \A s \in Places : iter[s] = g[s]
  <2> SUFFICES ASSUME {s \in Places : iter[s] # g[s]} # {} PROVE FALSE
    OBVIOUS
  <2> DEFINE T == {s \in Places : iter[s] # g[s]}
  <2>1. T \subseteq FiniteSubsetsOf(Nat) /\ T # {}
    <3>1. PICK n \in Nat : DOMAIN others = 1..n
      BY <1>0
    <3>2. IsFiniteSet(1..n) /\ 1..n \subseteq Nat
      BY FS_Interval
    <3>3. \A s \in Places : IsFiniteSet(s) /\ s \subseteq Nat
      BY <3>1, <3>2, FS_Subset
    <3> QED
      BY <3>3 DEF FiniteSubsetsOf
  <2>2. PICK s \in T : \A b \in T : ~(<<b, s>> \in StrictSubsetOrdering(Nat))
    BY <2>1, FS_StrictSubsetOrderingWellFounded, WFMin
  <2>3. s # {}
    BY <1>7, <2>2
  <2>4. Max(s) \in s /\ s \ {Max(s)} \in Places
    BY <1>2, <2>2, <2>3
  <2>5. <<s \ {Max(s)}, s>> \in StrictSubsetOrdering(Nat)
    BY <2>1, <2>4 DEF StrictSubsetOrdering, FiniteSubsetsOf
  <2>6. iter[s \ {Max(s)}] = g[s \ {Max(s)}]
    BY <2>2, <2>4, <2>5
  <2> QED
    BY <1>7, <2>2, <2>3, <2>6
<1>9. g[DOMAIN others] = Summary(row, others, DOMAIN others)
  BY DEF g
<1> QED
  BY <1>1, <1>8, <1>9 DEF others

-------------------------------------------------------------------------------
(* Replaced: the search for mentions. *)

\* One turn of the search: mention i is found if the search is not yet past it.
Turn(f, text, mention, i) ==
  /\ f[i].at >= f[i].last =>
       /\ f[i + 1].at = f[i].at + text[i] + Gap
       /\ f[i + 1].last = f[i].at + mention
       /\ f[i + 1].done = f[i].done \union {i}
  /\ ~(f[i].at >= f[i].last) =>
       /\ f[i + 1].at = f[i].at + mention + Gap
       /\ f[i + 1].last = f[i].last
       /\ f[i + 1].done = f[i].done

\* The recursive function of Replaced exists and takes these turns.
LEMMA SearchTurns ==
  ASSUME NEW text \in Seq(Nat), NEW mention \in Nat
  PROVE  \E f : /\ Replaced(text, mention, Gap) = f[Len(text) + 1].done
                /\ f[1] = [at |-> 0, last |-> 0, done |-> {}]
                /\ \A i \in 1..Len(text) : Turn(f, text, mention, i)
<1> DEFINE n == Len(text)
           Look(f, i) ==
             IF i = 1 THEN [at |-> 0, last |-> 0, done |-> {}]
             ELSE LET p == f[i - 1]
                  IN IF p.at >= p.last
                     THEN [at |-> p.at + text[i - 1] + Gap, last |-> p.at + mention,
                           done |-> p.done \union {i - 1}]
                     ELSE [at |-> p.at + mention + Gap, last |-> p.last, done |-> p.done]
           from == CHOOSE f : f = [i \in 1..n + 1 |-> Look(f, i)]
<1>1. Replaced(text, mention, Gap) = from[n + 1].done
  BY DEF Replaced
<1>2. n \in Nat /\ n + 1 \in Nat /\ n + 1 - 1 = n /\ Gap \in Nat
      /\ \A i \in 1..n : text[i] \in Nat
  BY DataAssumption DEF DataAssumption
<1> HIDE DEF n
<1>3. \E f : f = [i \in 1..n + 1 |-> Look(f, i)]
  <2> DEFINE S == {k \in 1..n + 1 : \E f : f = [i \in 1..k |-> Look(f, i)]}
  <2>1. 1 \in S
    <3> DEFINE h == [i \in 1..1 |-> [at |-> 0, last |-> 0, done |-> {}]]
    <3>1. h = [i \in 1..1 |-> Look(h, i)]
      OBVIOUS
    <3> HIDE DEF Look, h
    <3>2. 1 \in 1..n + 1
      BY <1>2
    <3> QED
      BY <3>1, <3>2
  <2>2. ASSUME NEW k \in 1..n, k \in S PROVE k + 1 \in S
    <3>1. PICK f : f = [i \in 1..k |-> Look(f, i)]
      BY <2>2
    <3> DEFINE h == [i \in 1..k + 1 |-> IF i = k + 1 THEN Look(f, k + 1) ELSE f[i]]
    <3>2. ASSUME NEW i \in 1..k + 1 PROVE h[i] = Look(h, i)
      <4>1. i = 1 \/ i - 1 \in 1..k
        BY <1>2
      <4>2. i - 1 \in 1..k => h[i - 1] = f[i - 1]
        BY <1>2
      <4>3. Look(h, i) = Look(f, i)
        BY <4>1, <4>2
      <4>4. i # k + 1 => i \in 1..k
        BY <1>2
      <4> HIDE DEF Look
      <4>5. i \in 1..k => f[i] = Look(f, i)
        BY <3>1
      <4> QED
        BY <4>3, <4>4, <4>5
    <3> HIDE DEF Look
    <3>3. h = [i \in 1..k + 1 |-> Look(h, i)]
      BY <3>2
    <3> HIDE DEF h
    <3>4. k + 1 \in 1..n + 1
      BY <1>2
    <3> QED
      BY <3>3, <3>4
  <2> HIDE DEF S
  <2>3. 1..n + 1 \subseteq S
    <3>1. PICK N \in Nat : N = n + 1 /\ N - 1 = n
      BY <1>2
    <3>2. \A k \in 1..N - 1 : k \in S => k + 1 \in S
      BY <2>2, <3>1
    <3>3. 1..N \subseteq S
      BY <2>1, <3>2, UpTo
    <3> QED
      BY <3>1, <3>3
  <2>4. n + 1 \in S
    BY <1>2, <2>3
  <2> QED
    BY <2>4 DEF S
<1>4. from = [i \in 1..n + 1 |-> Look(from, i)]
  BY <1>3
<1> HIDE DEF from
<1>5. from[1] = [at |-> 0, last |-> 0, done |-> {}]
  BY <1>2, <1>4
<1>6. ASSUME NEW i \in 1..n PROVE Turn(from, text, mention, i)
  <2>1. i + 1 \in 1..n + 1 /\ i + 1 # 1 /\ i + 1 - 1 = i
    BY <1>2
  <2>2. from[i + 1] = Look(from, i + 1)
    BY <1>4, <2>1
  <2> QED
    BY <2>1, <2>2 DEF Turn
<1> QED
  BY <1>1, <1>5, <1>6 DEF n

\* Whether the next mention starts behind the search.
LEMMA NextStart ==
  ASSUME NEW at \in Nat, NEW length \in Nat, NEW gap \in Nat, NEW mention \in Nat
  PROVE  /\ at + length + gap \in Nat /\ at + mention \in Nat /\ at + mention + gap \in Nat
         /\ at + length + gap >= at + mention <=> length + gap >= mention
OBVIOUS

\* All mentions are replaced just when none is longer than what replaces it.
LEMMA ReplacedIfRoomy ==
  ASSUME NEW text \in Seq(Nat), NEW mention \in Nat
  PROVE  Replaced(text, mention, Gap) = 1..Len(text) <=> Roomy(text, mention, Gap)
<1>1. PICK n \in Nat : n = Len(text)
  OBVIOUS
<1>2. /\ n \in Nat /\ n + 1 \in Nat /\ n + 1 - 1 = n /\ Gap \in Nat
      /\ \A i \in 1..n : text[i] \in Nat
  BY <1>1, DataAssumption DEF DataAssumption
<1>3. PICK f : /\ Replaced(text, mention, Gap) = f[n + 1].done
               /\ f[1] = [at |-> 0, last |-> 0, done |-> {}]
               /\ \A i \in 1..n : Turn(f, text, mention, i)
  BY <1>1, SearchTurns
<1> DEFINE Unheld(i) == f[i].at >= f[i].last
<1>4. f[1].at = 0 /\ f[1].last = 0 /\ f[1].done = {}
  BY <1>3
<1>5. ASSUME NEW i \in 1..n
      PROVE  /\ Unheld(i) => /\ f[i + 1].at = f[i].at + text[i] + Gap
                             /\ f[i + 1].last = f[i].at + mention
                             /\ f[i + 1].done = f[i].done \union {i}
             /\ ~Unheld(i) => /\ f[i + 1].at = f[i].at + mention + Gap
                              /\ f[i + 1].last = f[i].last
                              /\ f[i + 1].done = f[i].done
  BY <1>3 DEF Turn
<1> HIDE DEF Unheld
<1>6. ASSUME NEW i \in 1..n PROVE f[i + 1].done \subseteq f[i].done \union {i}
  <2>1. CASE Unheld(i)
    BY <1>5, <2>1
  <2>2. CASE ~Unheld(i)
    BY <1>5, <2>2
  <2> QED
    BY <2>1, <2>2
<1>7. \A i \in 1..n + 1 : f[i].at \in Nat /\ f[i].last \in Nat /\ f[i].done \subseteq 1..i - 1
  <2> DEFINE S == {i \in 1..n + 1 : /\ f[i].at \in Nat /\ f[i].last \in Nat
                                    /\ f[i].done \subseteq 1..i - 1}
  <2>1. 1 \in S
    BY <1>2, <1>4
  <2>2. ASSUME NEW i \in 1..n, i \in S PROVE i + 1 \in S
    <3>1. i + 1 \in 1..n + 1 /\ i \in 1..i + 1 - 1 /\ 1..i - 1 \subseteq 1..i + 1 - 1
      BY <1>2
    <3>2. text[i] \in Nat
      BY <1>2
    <3>3. /\ f[i].at \in Nat /\ f[i].last \in Nat
          /\ f[i].done \subseteq 1..i - 1
      BY <2>2
    <3>4. f[i + 1].at \in Nat /\ f[i + 1].last \in Nat
      <4>1. /\ f[i].at + text[i] + Gap \in Nat /\ f[i].at + mention \in Nat
            /\ f[i].at + mention + Gap \in Nat
        BY <1>2, <3>2, <3>3, NextStart
      <4>2. CASE Unheld(i)
        BY <1>5, <4>1, <4>2
      <4>3. CASE ~Unheld(i)
        BY <1>5, <3>3, <4>1, <4>3
      <4> QED
        BY <4>2, <4>3
    <3>5. f[i + 1].done \subseteq 1..i + 1 - 1
      BY <1>6, <3>1, <3>3
    <3> QED
      BY <3>1, <3>4, <3>5
  <2> HIDE DEF S
  <2>3. 1..n + 1 \subseteq S
    <3>1. PICK N \in Nat : N = n + 1 /\ N - 1 = n
      BY <1>2
    <3>2. \A k \in 1..N - 1 : k \in S => k + 1 \in S
      BY <2>2, <3>1
    <3>3. 1..N \subseteq S
      BY <2>1, <3>2, UpTo
    <3> QED
      BY <3>1, <3>3
  <2> QED
    BY <2>3 DEF S
<1>8. ASSUME NEW j \in 1..n, ~Unheld(j) PROVE j \notin f[n + 1].done
  <2> DEFINE S == {i \in 1..n + 1 : i > j => j \notin f[i].done}
  <2>1. 1 \in S
    BY <1>2
  <2>2. ASSUME NEW i \in 1..n, i \in S PROVE i + 1 \in S
    <3>1. i + 1 \in 1..n + 1
      BY <1>2
    <3>2. CASE i > j
      <4>1. j \notin f[i].done /\ j # i
        BY <2>2, <3>2
      <4> QED
        BY <1>6, <3>1, <4>1
    <3>3. CASE i = j
      <4>1. j \notin f[i].done
        BY <1>2, <1>7, <3>3
      <4> QED
        BY <1>5, <1>8, <3>3, <4>1
    <3>4. CASE i < j
      BY <3>1, <3>4
    <3> QED
      BY <3>2, <3>3, <3>4
  <2> HIDE DEF S
  <2>3. 1..n + 1 \subseteq S
    <3>1. PICK N \in Nat : N = n + 1 /\ N - 1 = n
      BY <1>2
    <3>2. \A k \in 1..N - 1 : k \in S => k + 1 \in S
      BY <2>2, <3>1
    <3>3. 1..N \subseteq S
      BY <2>1, <3>2, UpTo
    <3> QED
      BY <3>1, <3>3
  <2>4. n + 1 \in S /\ n + 1 > j
    BY <1>2, <2>3
  <2> QED
    BY <2>4 DEF S
<1>9. ASSUME Roomy(text, mention, Gap) PROVE f[n + 1].done = 1..n
  <2> DEFINE S == {i \in 1..n : Unheld(i) /\ f[i].done = 1..i - 1}
  <2>1. CASE n = 0
    BY <1>4, <2>1
  <2>2. CASE n # 0
    <3>1. 1 \in S
      BY <1>2, <1>4, <2>2 DEF Unheld
    <3>2. ASSUME NEW i \in 1..n - 1, i \in S PROVE i + 1 \in S
      <4>1. i \in 1..n /\ i + 1 \in 1..n /\ text[i] \in Nat /\ f[i].at \in Nat
        BY <1>2, <1>7
      <4>2. text[i] + Gap >= mention
        BY <1>1, <1>9, <4>1 DEF Roomy
      <4>3. (1..i - 1) \union {i} = 1..i + 1 - 1
        BY <4>1
      <4>4. Unheld(i) /\ f[i].done = 1..i - 1
        BY <3>2
      <4>5. /\ f[i + 1].at = f[i].at + text[i] + Gap
            /\ f[i + 1].last = f[i].at + mention
            /\ f[i + 1].done = f[i].done \union {i}
        BY <1>5, <4>1, <4>4
      <4>6. f[i].at + text[i] + Gap >= f[i].at + mention
        BY <1>2, <4>1, <4>2, NextStart
      <4>7. Unheld(i + 1)
        BY <4>5, <4>6 DEF Unheld
      <4>8. f[i + 1].done = 1..i + 1 - 1
        BY <4>3, <4>4, <4>5
      <4> QED
        BY <4>1, <4>7, <4>8
    <3> HIDE DEF S
    <3>3. n \in S
      <4>1. n \in 1..n
        BY <1>2, <2>2
      <4>2. 1..n \subseteq S
        BY <1>2, <3>1, <3>2, UpTo
      <4> QED
        BY <4>1, <4>2
    <3>4. (1..n - 1) \union {n} = 1..n
      BY <1>2, <2>2
    <3> QED
      BY <1>5, <3>3, <3>4 DEF S
  <2> QED
    BY <2>1, <2>2
<1>10. ASSUME ~Roomy(text, mention, Gap) PROVE f[n + 1].done # 1..n
  <2>1. PICK i \in 1..n - 1 : ~(text[i] + Gap >= mention)
    BY <1>1, <1>10 DEF Roomy
  <2>2. i \in 1..n /\ i + 1 \in 1..n /\ i \in 1..n + 1 /\ text[i] \in Nat
    BY <1>2
  <2>3. CASE ~Unheld(i)
    BY <1>8, <2>2, <2>3
  <2>4. CASE Unheld(i)
    <3>1. f[i].at \in Nat
      BY <1>7, <2>2
    <3>2. f[i + 1].at = f[i].at + text[i] + Gap /\ f[i + 1].last = f[i].at + mention
      BY <1>5, <2>2, <2>4
    <3>3. ~Unheld(i + 1)
      <4>1. /\ f[i].at + text[i] + Gap \in Nat /\ f[i].at + mention \in Nat
            /\ ~(f[i].at + text[i] + Gap >= f[i].at + mention)
        BY <1>2, <2>1, <2>2, <3>1, NextStart
      <4> QED
        BY <3>2, <4>1 DEF Unheld
    <3> QED
      BY <1>8, <2>2, <3>3
  <2> QED
    BY <2>3, <2>4
<1> QED
  BY <1>1, <1>3, <1>9, <1>10

-------------------------------------------------------------------------------
(* The answer. *)

\* The activity's lists are the promised ones.
LEMMA TwoThreeWayAgrees ==
  ASSUME NEW lists \in Lists
  PROVE  Agrees(TwoThreeWayMatching(lists), lists)
<1> DEFINE rows == lists[1]
           C(i) == Counterparts(rows[i], lists)
           F(i) == Found(rows[i], lists)
<1>1. rows \in Seq(Row) /\ \A i \in 1..Len(rows) : rows[i] \in Row
  BY ListsAreRows
<1>2. ASSUME NEW i \in 1..Len(rows)
      PROVE  /\ Matched(F(i)) <=> C(i) = {rows[i]}
             /\ F(i).exist <=> C(i) # {}
             /\ F(i).mismatch => F(i).exist
  <2>1. PICK r \in Row : r = rows[i]
    BY <1>1
  <2>2. PICK others \in Seq(Row) : /\ others = Others(lists)
                                   /\ C(i) = {o \in ToSet(others) : o.key = r.key}
    BY <2>1, OthersAreRows DEF Counterparts
  <2>3. F(i) = Summary(r, others, DOMAIN others)
    BY <2>1, <2>2, FoundIsSummary
  <2>4. \A x : x \in C(i) <=> \E j \in DOMAIN others : x = others[j] /\ others[j].key = r.key
    BY <2>2 DEF ToSet
  <2>5. F(i).exist <=> C(i) # {}
    <3>1. F(i).exist <=> \E j \in DOMAIN others : others[j].key = r.key
      BY <2>3 DEF Summary
    <3> HIDE DEF C, F
    <3> QED
      BY <2>4, <3>1
  <2>6. F(i).mismatch <=> \E o \in C(i) : o.fields # r.fields
    <3>1. F(i).mismatch <=> \E j \in DOMAIN others : others[j].key = r.key /\ others[j].fields # r.fields
      BY <2>3 DEF Summary
    <3> HIDE DEF C, F
    <3> QED
      BY <2>4, <3>1
  <2>7. \A o \in C(i) : o \in Row /\ o.key = r.key
    BY <2>4
  <2>8. \A o \in C(i) : o.fields = r.fields => o = r
    BY <2>7 DEF Row
  <2>9. F(i).exist \in BOOLEAN /\ F(i).mismatch \in BOOLEAN
    BY <2>3 DEF Summary
  <2> HIDE DEF C, F
  <2>10. ASSUME Matched(F(i)) PROVE C(i) = {r}
    BY <2>5, <2>6, <2>8, <2>10 DEF Matched
  <2>11. ASSUME C(i) = {r} PROVE Matched(F(i))
    BY <2>5, <2>6, <2>11 DEF Matched
  <2> QED
    BY <2>1, <2>5, <2>6, <2>9, <2>10, <2>11
<1> HIDE DEF C, F
<1> DEFINE m == {i \in 1..Len(rows) : Matched(F(i))}
<1>3. TwoThreeWayMatching(lists) =
        [matched |-> m, mismatched |-> (1..Len(rows)) \ m,
         missing |-> {i \in (1..Len(rows)) \ m : ~F(i).mismatch /\ ~F(i).exist}]
  BY DEF TwoThreeWayMatching, F
<1>4. m = {i \in 1..Len(rows) : C(i) = {rows[i]}}
  BY <1>2
<1>5. {i \in (1..Len(rows)) \ m : ~F(i).mismatch /\ ~F(i).exist} = {i \in 1..Len(rows) : C(i) = {}}
  <2>1. \A i \in 1..Len(rows) : C(i) = {} => i \notin m /\ ~F(i).mismatch /\ ~F(i).exist
    BY <1>2, <1>4
  <2>2. \A i \in 1..Len(rows) : ~F(i).exist => C(i) = {}
    BY <1>2
  <2> QED
    BY <2>1, <2>2
<1> HIDE DEF m
<1> QED
  <2> DEFINE result == TwoThreeWayMatching(lists)
  <2>1. /\ result.matched = {i \in 1..Len(rows) : C(i) = {rows[i]}}
        /\ result.mismatched = (1..Len(rows)) \ result.matched
        /\ result.missing = {i \in 1..Len(rows) : C(i) = {}}
    BY <1>3, <1>4, <1>5
  <2> HIDE DEF result
  <2>2. Agrees(result, lists)
    BY <2>1 DEF Agrees, C
  <2> QED
    BY <2>2 DEF result

\* The lengths of the lists' texts.
TextOf(lists) == [i \in DOMAIN lists |-> TextLength(lists[i])]

\* The whole activity, on one of the inputs.
LEMMA MatchingIsRight ==
  ASSUME NEW lists \in Lists, NEW mention \in Mentions
  PROVE  IF Roomy(TextOf(lists), mention, Gap)
         THEN Agrees(Matching(lists, TextOf(lists), mention, Gap), lists)
         ELSE Matching(lists, TextOf(lists), mention, Gap) = Undefined
<1>1. mention \in Nat
  BY DataAssumption DEF DataAssumption
<1>2. TextOf(lists) \in Seq(Nat) /\ Len(TextOf(lists)) = Len(lists)
  <2>1. lists \in Seq(Seq(Row)) /\ DOMAIN lists = 1..Len(lists) /\ Len(lists) \in Nat
    BY ListsAreRows
  <2>2. \A i \in 1..Len(lists) : TextLength(lists[i]) \in Nat
    <3>1. \A i \in 1..Len(lists) : Len(lists[i]) \in Nat
      BY ListsAreRows
    <3> QED
      BY <3>1 DEF TextLength
  <2> QED
    BY <2>1, <2>2 DEF TextOf
<1> QED
  BY <1>1, <1>2, ReplacedIfRoomy, TwoThreeWayAgrees DEF Matching

-------------------------------------------------------------------------------
(* The activities: the state *)

Fields == {"at", "db", "query", "connected", "result", "input", "roomy"}

\* A handler is connected exactly while its query is under way.
WorkerOK(w) ==
  /\ Fields \subseteq DOMAIN worker[w]
  /\ worker[w].connected \in BOOLEAN
  /\ worker[w].connected <=> Doing(w, "query")
  /\ Doing(w, "connect") => worker[w].db \in Database
  /\ Doing(w, "query") => /\ worker[w].db \in Database \ Connectionless
                       /\ (worker[w].db = "POSTGRESQL" => worker[w].query # "malformed")

\* What Matching Data has answered is its answer to one of the inputs.
Answered(w) ==
  Doing(w, "matched") =>
    \E mention \in Mentions :
      /\ worker[w].input \in Lists
      /\ worker[w].result = Matching(worker[w].input, TextOf(worker[w].input), mention, Gap)
      /\ worker[w].roomy = Roomy(TextOf(worker[w].input), mention, Gap)

Excused(d) == IF d = "POSTGRESQL" THEN 0 ELSE blamed[d]

\* A server holds every connection in use, and no more than are excused.
Held(d) ==
  /\ Cardinality(InUse(d)) <= open[d]
  /\ open[d] <= Cardinality(InUse(d)) + Excused(d)

DataInv ==
  /\ worker = [w \in Worker |-> worker[w]]
  /\ \A w \in Worker : WorkerOK(w) /\ Answered(w)
  /\ open \in [Database -> Nat] /\ blamed \in [Database -> Nat]
  /\ \A d \in Database : Held(d)

LEMMA InUseFinite ==
  ASSUME NEW d
  PROVE  IsFiniteSet(InUse(d)) /\ Cardinality(InUse(d)) \in Nat
<1>1. IsFiniteSet(Worker)
  BY DataAssumption DEF DataAssumption
<1>2. InUse(d) \subseteq Worker
  BY DEF InUse
<1> QED
  BY <1>1, <1>2, FS_Subset, FS_CardinalityType

LEMMA InitData == DataInit => DataInv
<1> SUFFICES ASSUME DataInit PROVE DataInv
  OBVIOUS
<1>1. worker = [w \in Worker |-> worker[w]]
  BY DEF DataInit
<1>2. ASSUME NEW w \in Worker PROVE WorkerOK(w) /\ Answered(w) /\ ~worker[w].connected
  BY DEF DataInit, AtRest, WorkerOK, Fields, Answered, Doing
<1>3. open \in [Database -> Nat] /\ blamed \in [Database -> Nat]
  BY DEF DataInit
<1>4. ASSUME NEW d \in Database PROVE Held(d)
  <2>1. InUse(d) = {}
    BY <1>2 DEF InUse
  <2>2. Cardinality(InUse(d)) = 0
    BY <2>1, FS_EmptySet
  <2> QED
    BY <2>2 DEF DataInit, Held, Excused
<1> QED
  BY <1>1, <1>2, <1>3, <1>4 DEF DataInv

\* The others stay as they are.
Mine(w) ==
  /\ worker' = [x \in Worker |-> worker'[x]]
  /\ \A x \in Worker \ {w} : worker'[x] = worker[x]

LEMMA OthersStay ==
  ASSUME DataInv, NEW w \in Worker, Mine(w), WorkerOK(w)', Answered(w)'
  PROVE  \A x \in Worker : WorkerOK(x)' /\ Answered(x)'
BY DEF DataInv, Mine, WorkerOK, Answered, Doing

\* A step that touches no connection.
LEMMA NoConnection ==
  ASSUME DataInv, NEW w \in Worker, Mine(w), WorkerOK(w)', Answered(w)',
         worker'[w].connected = worker[w].connected,
         worker[w].connected => worker'[w].db = worker[w].db,
         UNCHANGED <<open, blamed>>
  PROVE  DataInv'
<1>1. \A d : InUse(d)' = InUse(d)
  BY DEF InUse, Mine
<1>2. \A d \in Database : Held(d)'
  BY <1>1 DEF DataInv, Held, Excused
<1> QED
  BY <1>2, OthersStay DEF DataInv, Mine

\* A connection is opened and in use.
LEMMA ConnectKeeps ==
  ASSUME DataInv, NEW w \in Worker, OpenConnection(w)
  PROVE  DataInv'
<1>1. PICK d \in Database \ Connectionless : d = worker[w].db
  BY DEF OpenConnection, DataInv, WorkerOK
<1>2. Doing(w, "connect") /\ ~worker[w].connected
      /\ (d = "POSTGRESQL" => worker[w].query # "malformed")
  BY <1>1 DEF OpenConnection, DataInv, WorkerOK, Doing
<1>3. /\ worker'[w].at = "query" /\ worker'[w].connected = TRUE /\ worker'[w].db = d
      /\ worker'[w].query = worker[w].query /\ Fields \subseteq DOMAIN worker'[w]
  BY <1>1 DEF OpenConnection, DataInv, WorkerOK, Fields
<1>4. Mine(w)
  BY DEF OpenConnection, DataInv, Mine
<1>5. WorkerOK(w)' /\ Answered(w)'
  BY <1>1, <1>2, <1>3 DEF WorkerOK, Answered, Doing
<1>6. open' = [open EXCEPT ![d] = @ + 1] /\ blamed' = blamed
  BY <1>1 DEF OpenConnection
<1>7. open \in [Database -> Nat] /\ open[d] \in Nat
  BY DEF DataInv
<1>8. open' \in [Database -> Nat] /\ open'[d] = open[d] + 1
      /\ \A e \in Database \ {d} : open'[e] = open[e]
  BY <1>6, <1>7
<1>9. InUse(d)' = InUse(d) \union {w} /\ w \notin InUse(d)
  BY <1>2, <1>3, <1>4 DEF InUse, Mine
<1>10. \A e \in Database \ {d} : InUse(e)' = InUse(e)
  BY <1>1, <1>2, <1>3, <1>4 DEF InUse, Mine
<1>11. Cardinality(InUse(d)') = Cardinality(InUse(d)) + 1
  BY <1>9, InUseFinite, FS_AddElement
<1>12. Held(d)'
  <2>1. Cardinality(InUse(d)) \in Nat /\ Excused(d) \in Nat /\ Excused(d)' = Excused(d)
    BY <1>1, <1>6, InUseFinite DEF DataInv, Excused
  <2>2. Held(d)
    BY <1>1 DEF DataInv
  <2> QED
    BY <1>7, <1>8, <1>11, <2>1, <2>2 DEF Held
<1>13. \A e \in Database \ {d} : Held(e)'
  BY <1>6, <1>8, <1>10 DEF DataInv, Held, Excused
<1> QED
  BY <1>4, <1>5, <1>6, <1>8, <1>12, <1>13, OthersStay DEF DataInv, Mine

\* A connection that is not closed after its query is blamed on it.
LEMMA RunQueryKeeps ==
  ASSUME DataInv, NEW w \in Worker, RunQuery(w)
  PROVE  DataInv'
<1>1. PICK d \in Database \ Connectionless : d = worker[w].db
  BY DEF RunQuery, DataInv, WorkerOK
<1>2. PICK q : q = worker[w].query /\ (d = "POSTGRESQL" => q # "malformed")
  BY <1>1 DEF RunQuery, DataInv, WorkerOK
<1>3. PICK failed \in BOOLEAN :
        /\ q = "malformed" => failed
        /\ IF Closes(d, q, failed) THEN Close(d) ELSE UNCHANGED open
        /\ IF Leaky(d, q, failed) THEN Blame(d) ELSE UNCHANGED blamed
        /\ Answer(w, IF failed THEN "error" ELSE "rows")
  BY <1>1, <1>2 DEF RunQuery
<1>4. worker[w].connected /\ Doing(w, "query")
  BY DEF RunQuery, DataInv, WorkerOK
<1>5. /\ worker'[w].at = "idle" /\ worker'[w].connected = FALSE
      /\ Fields \subseteq DOMAIN worker'[w]
  BY <1>3 DEF Answer, AtRest, DataInv, Fields
<1>6. Mine(w)
  BY <1>3 DEF Answer, DataInv, Mine
<1>7. WorkerOK(w)' /\ Answered(w)'
  BY <1>5 DEF WorkerOK, Answered, Doing
<1>8. InUse(d)' = InUse(d) \ {w} /\ w \in InUse(d)
  BY <1>1, <1>4, <1>5, <1>6 DEF InUse, Mine
<1>9. \A e \in Database \ {d} : InUse(e)' = InUse(e)
  BY <1>1, <1>4, <1>5, <1>6 DEF InUse, Mine
<1>10. Cardinality(InUse(d)') = Cardinality(InUse(d)) - 1
  BY <1>8, InUseFinite, FS_RemoveElement
<1>11. \A e \in Database : open[e] \in Nat /\ blamed[e] \in Nat
  BY DEF DataInv
<1>12. Cardinality(InUse(d)) \in Nat /\ Cardinality(InUse(d)) > 0
  BY <1>8, InUseFinite, FS_EmptySet
<1>13. Held(d)
  BY <1>1 DEF DataInv
<1>14. open[d] > 0
  BY <1>11, <1>12, <1>13 DEF Held
<1>15. /\ open' \in [Database -> Nat]
       /\ open'[d] = IF Closes(d, q, failed) THEN open[d] - 1 ELSE open[d]
       /\ \A e \in Database \ {d} : open'[e] = open[e]
  <2>1. open \in [Database -> Nat] /\ open[d] - 1 \in Nat
    BY <1>11, <1>14 DEF DataInv
  <2> QED
    BY <1>3, <2>1 DEF Close
<1>16. /\ blamed' \in [Database -> Nat]
       /\ blamed'[d] = IF Leaky(d, q, failed) THEN blamed[d] + 1 ELSE blamed[d]
       /\ \A e \in Database \ {d} : blamed'[e] = blamed[e]
  <2>1. blamed \in [Database -> Nat] /\ blamed[d] + 1 \in Nat
    BY <1>11 DEF DataInv
  <2> QED
    BY <1>3, <2>1 DEF Blame
<1>17. Closes(d, q, failed) \/ (Leaky(d, q, failed) /\ d # "POSTGRESQL")
  <2>1. d \in Drivers \ Connectionless
    BY DataAssumption DEF DataAssumption
  <2> QED
    BY <1>2, <1>3, <2>1 DEF Closes, Leaky, Drivers, Connectionless
<1>18. Held(d)'
  <2>1. Cardinality(InUse(d)) <= open[d] /\ open[d] <= Cardinality(InUse(d)) + Excused(d)
    BY <1>13 DEF Held
  <2>2. CASE Closes(d, q, failed)
    <3>1. open'[d] = open[d] - 1
      BY <1>15, <2>2
    <3>2. Excused(d) \in Nat /\ Excused(d)' \in Nat /\ Excused(d)' >= Excused(d)
      BY <1>11, <1>16 DEF Excused
    <3> QED
      BY <1>10, <1>11, <1>12, <2>1, <3>1, <3>2 DEF Held
  <2>3. CASE ~Closes(d, q, failed)
    <3>1. open'[d] = open[d]
      BY <1>15, <2>3
    <3>2. Excused(d) \in Nat /\ Excused(d)' = Excused(d) + 1
      BY <1>11, <1>16, <1>17, <2>3 DEF Excused
    <3> QED
      BY <1>10, <1>11, <1>12, <2>1, <3>1, <3>2 DEF Held
  <2> QED
    BY <2>2, <2>3
<1>19. \A e \in Database \ {d} : Held(e)'
  BY <1>9, <1>15, <1>16 DEF DataInv, Held, Excused
<1> QED
  BY <1>6, <1>7, <1>15, <1>16, <1>18, <1>19, OthersStay DEF DataInv, Mine

LEMMA NextData == DataInv /\ [DataNext]_dataVars => DataInv'
<1> SUFFICES ASSUME DataInv, [DataNext]_dataVars PROVE DataInv'
  OBVIOUS
<1>1. ASSUME NEW w \in Worker, BeginQuery(w) PROVE DataInv'
  <2>1. PICK d \in Database, q \in Queries :
          worker' = [worker EXCEPT ![w] = [AtRest EXCEPT !.at = "connect", !.db = d, !.query = q]]
    BY <1>1 DEF BeginQuery
  <2>2. ~worker[w].connected
    BY <1>1 DEF BeginQuery, DataInv, WorkerOK, Doing
  <2>3. Mine(w)
    BY <2>1 DEF DataInv, Mine
  <2>4. WorkerOK(w)' /\ Answered(w)' /\ ~worker'[w].connected
    BY <2>1 DEF DataInv, WorkerOK, Answered, Doing, AtRest, Fields
  <2> QED
    BY <1>1, <2>2, <2>3, <2>4, NoConnection DEF BeginQuery, DataInv, WorkerOK
<1>2. ASSUME NEW w \in Worker, Refuse(w) \/ AskDynamo(w) \/ PoolUnused(w) PROVE DataInv'
  <2>1. PICK result : Answer(w, result)
    BY <1>2 DEF Refuse, AskDynamo, PoolUnused
  <2>2. ~worker[w].connected
    BY <1>2 DEF Refuse, AskDynamo, PoolUnused, DataInv, WorkerOK, Doing
  <2>3. Mine(w)
    BY <2>1 DEF Answer, DataInv, Mine
  <2>4. WorkerOK(w)' /\ Answered(w)' /\ ~worker'[w].connected
    BY <2>1 DEF Answer, DataInv, WorkerOK, Answered, Doing, AtRest, Fields
  <2>5. UNCHANGED <<open, blamed>>
    BY <1>2 DEF Refuse, AskDynamo, PoolUnused
  <2> QED
    BY <2>2, <2>3, <2>4, <2>5, NoConnection DEF DataInv, WorkerOK
<1>3. ASSUME NEW w \in Worker, RunMatching(w) PROVE DataInv'
  <2>1. PICK lists \in Lists, mention \in Mentions :
          worker' = [worker EXCEPT ![w] =
            [AtRest EXCEPT !.at = "matched", !.input = lists,
                         !.result = Matching(lists, TextOf(lists), mention, Gap),
                         !.roomy = Roomy(TextOf(lists), mention, Gap)]]
    BY <1>3 DEF RunMatching, TextOf
  <2>2. ~worker[w].connected
    BY <1>3 DEF RunMatching, DataInv, WorkerOK, Doing
  <2>3. Mine(w)
    BY <2>1 DEF DataInv, Mine
  <2>4. /\ worker'[w].at = "matched" /\ worker'[w].input = lists
        /\ worker'[w].result = Matching(lists, TextOf(lists), mention, Gap)
        /\ worker'[w].roomy = Roomy(TextOf(lists), mention, Gap)
        /\ worker'[w].connected = FALSE /\ Fields \subseteq DOMAIN worker'[w]
    BY <2>1 DEF DataInv, AtRest, Fields
  <2>5. WorkerOK(w)'
    BY <2>4 DEF WorkerOK, Doing
  <2>6. Answered(w)'
    BY <2>1, <2>4 DEF Answered, Doing
  <2>7. UNCHANGED <<open, blamed>>
    BY <1>3 DEF RunMatching
  <2> QED
    BY <2>2, <2>3, <2>4, <2>5, <2>6, <2>7, NoConnection DEF DataInv, WorkerOK
<1>4. ASSUME NEW w \in Worker, EndMatching(w) PROVE DataInv'
  <2>1. ~worker[w].connected
    BY <1>4 DEF EndMatching, DataInv, WorkerOK, Doing
  <2>2. Mine(w)
    BY <1>4 DEF EndMatching, DataInv, Mine
  <2>3. WorkerOK(w)' /\ Answered(w)' /\ ~worker'[w].connected
    BY <1>4 DEF EndMatching, DataInv, WorkerOK, Answered, Doing, AtRest, Fields
  <2> QED
    BY <1>4, <2>1, <2>2, <2>3, NoConnection DEF EndMatching, DataInv, WorkerOK
<1>5. CASE UNCHANGED dataVars
  <2>1. \A w \in Worker : WorkerOK(w)' /\ Answered(w)'
    BY <1>5 DEF dataVars, DataInv, WorkerOK, Answered, Doing
  <2>2. \A d \in Database : Held(d)'
    BY <1>5 DEF dataVars, DataInv, Held, Excused, InUse
  <2> QED
    BY <1>5, <2>1, <2>2 DEF dataVars, DataInv
<1> QED
  BY <1>1, <1>2, <1>3, <1>4, <1>5, ConnectKeeps, RunQueryKeeps DEF DataNext

\* A server holds a connection only for a query under way, for one that failed, or
\* for a find of MongoDB; PostgreSQL only for those under way (dbQueryBuilder): for
\* any handlers, databases and limits.
THEOREM LeaksAreOfFailedQueries == DataSpec => []ConnectionsAccounted
<1>1. DataInv => ConnectionsAccounted
  BY DEF DataInv, Held, Excused, ConnectionsAccounted
<1> QED
  BY <1>1, InitData, NextData, PTL DEF DataSpec

\* What matchingData answers is what it promises, and nothing just when a list and
\* what follows it are shorter than its mention: for any inputs of any lengths.
THEOREM MatchesAgree == DataSpec => []MatchingAgrees
<1>1. DataInv => MatchingAgrees
  <2> SUFFICES ASSUME DataInv, NEW w \in Worker, Doing(w, "matched")
               PROVE  IF worker[w].roomy
                      THEN Agrees(worker[w].result, worker[w].input)
                      ELSE worker[w].result = Undefined
    BY DEF MatchingAgrees
  <2>1. Answered(w)
    BY DEF DataInv
  <2> QED
    BY <2>1, MatchingIsRight DEF Answered
<1> QED
  BY <1>1, InitData, NextData, PTL DEF DataSpec
=================================================================================
