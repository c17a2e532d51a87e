-------------------------- MODULE ParallelScopeProofs --------------------------
(***************************************************************************)
(* Proofs that joins close all their branches and that End is the last step, *)
(* for every workflow whose Parallel Starts and Ends pair off, to any depth:  *)
(* the branches of nested scopes are counted.  The invariant of the types and *)
(* that of PARALLEL come from WorkflowEngineProofs.                           *)
(***************************************************************************)
EXTENDS WorkflowEngineProofs

-------------------------------------------------------------------------------
(* Scopes: what is counted *)

\* The scopes a message works in, outermost first; 0 stands for the execution.
Trail(idxs) == [k \in 1 .. (Len(idxs) + 1) |-> IF k = 1 THEN 0 ELSE idxs[k - 1]]

\* A trail leads through open entries of PARALLEL, each pushed after the last.
IsTrail(q, P) ==
  /\ q \in Seq(Nat) /\ Len(q) > 0
  /\ q[1] = 0
  /\ \A k \in 2 .. Len(q) : q[k] \in DOMAIN P /\ P[q[k]].active
  /\ \A k, l \in DOMAIN q : k < l => q[k] < q[l]

\* How token t, whose trail is q, is counted in its k-th scope: for itself in
\* the innermost one, for the next scope in the others.
SlotAt(t, q, k) == IF k = Len(q) THEN <<"own", t>> ELSE <<"in", q[k + 1]>>

\* A board gives each token its trail.  What there is in scope i of board B:
\* tokens, and scopes that tokens are in.
Slots(B, i) ==
  UNION {{SlotAt(t, B[t], k) : k \in {n \in DOMAIN B[t] : B[t][n] = i}} : t \in DOMAIN B}

\* No token works in scope i, not even further in.
Clear(B, i) == \A t \in DOMAIN B : \A k \in DOMAIN B[t] : B[t][k] # i

Counted(B, i, n) == IsFiniteSet(Slots(B, i)) /\ Cardinality(Slots(B, i)) <= n

\* In every open scope, what is there and what has arrived are together at most
\* what was sent.
ScopeInv(B, P) ==
  /\ \A t \in DOMAIN B : IsTrail(B[t], P)
  /\ \A i \in DOMAIN P : P[i].active =>
       P[i].finished <= P[i].total /\ Counted(B, i, P[i].total - P[i].finished)
  /\ Counted(B, 0, Len(First))

LEMMA NoMore ==
  ASSUME NEW A, NEW Z, IsFiniteSet(A), Z \subseteq A
  PROVE  IsFiniteSet(Z) /\ Cardinality(Z) <= Cardinality(A)
         /\ Cardinality(A) \in Nat /\ Cardinality(Z) \in Nat
BY FS_Subset, FS_CardinalityType

\* One leaves, at most one comes.
LEMMA Exchange ==
  ASSUME NEW A, NEW Z, NEW x, NEW y, IsFiniteSet(A), x \in A,
         Z \subseteq (A \ {x}) \union {y}
  PROVE  IsFiniteSet(Z) /\ Cardinality(Z) <= Cardinality(A)
         /\ Cardinality(A) \in Nat /\ Cardinality(Z) \in Nat
<1>1. IsFiniteSet(A \ {x}) /\ Cardinality(A \ {x}) = Cardinality(A) - 1
  BY FS_RemoveElement
<1> DEFINE F == (A \ {x}) \union {y}
<1>2. Cardinality(A) \in Nat /\ Cardinality(A \ {x}) \in Nat
  BY <1>1, FS_CardinalityType
<1>3. IsFiniteSet(F) /\ Cardinality(F) <= Cardinality(A)
  BY <1>1, <1>2, FS_AddElement
<1> HIDE DEF F
<1>4. Z \subseteq F
  BY DEF F
<1>5. IsFiniteSet(Z) /\ Cardinality(Z) <= Cardinality(F) /\ Cardinality(F) \in Nat /\ Cardinality(Z) \in Nat
  BY <1>3, <1>4, NoMore
<1> QED
  BY <1>2, <1>3, <1>5

LEMMA OneLess ==
  ASSUME NEW A, NEW Z, NEW x, IsFiniteSet(A), x \in A, Z \subseteq A \ {x}
  PROVE  IsFiniteSet(Z) /\ Cardinality(Z) + 1 <= Cardinality(A)
         /\ Cardinality(A) \in Nat /\ Cardinality(Z) \in Nat
<1>1. IsFiniteSet(A \ {x}) /\ Cardinality(A \ {x}) = Cardinality(A) - 1
  BY FS_RemoveElement
<1>2. Cardinality(A) \in Nat
  BY FS_CardinalityType
<1>3. IsFiniteSet(Z) /\ Cardinality(Z) <= Cardinality(A \ {x}) /\ Cardinality(Z) \in Nat
  BY <1>1, NoMore
<1> QED
  BY <1>1, <1>2, <1>3

LEMMA SlotsAre ==
  ASSUME NEW B, NEW i, NEW s
  PROVE  s \in Slots(B, i) <=>
           \E t \in DOMAIN B : \E k \in DOMAIN B[t] : B[t][k] = i /\ s = SlotAt(t, B[t], k)
BY DEF Slots

LEMMA SlotIn ==
  ASSUME NEW B, NEW t \in DOMAIN B, NEW k \in DOMAIN B[t]
  PROVE  SlotAt(t, B[t], k) \in Slots(B, B[t][k])
BY DEF Slots

LEMMA OwnSlots ==
  ASSUME NEW S, IsFiniteSet(S)
  PROVE  /\ IsFiniteSet({<<"own", x>> : x \in S})
         /\ Cardinality({<<"own", x>> : x \in S}) <= Cardinality(S)
         /\ Cardinality(S) \in Nat
<1>1. Cardinality(S) \in Nat
  BY FS_CardinalityType
<1> DEFINE O == {<<"own", x>> : x \in S}
           f == [x \in S |-> <<"own", x>>]
<1>2. f \in Surjection(S, O)
  BY DEF Surjection
<1> HIDE DEF f, O
<1>3. IsFiniteSet(O) /\ Cardinality(O) <= Cardinality(S)
  BY <1>2, FS_Surjection
<1> QED
  BY <1>1, <1>3 DEF O

\* Fewer in a scope; or one out of it and one into it.
LEMMA CountedLess ==
  ASSUME NEW B, NEW B2, NEW i, NEW n \in Nat, Counted(B, i, n),
         Slots(B2, i) \subseteq Slots(B, i)
  PROVE  Counted(B2, i, n)
BY NoMore DEF Counted

LEMMA CountedSwap ==
  ASSUME NEW B, NEW B2, NEW i, NEW n \in Nat, Counted(B, i, n),
         NEW x \in Slots(B, i), NEW y,
         Slots(B2, i) \subseteq (Slots(B, i) \ {x}) \union {y}
  PROVE  Counted(B2, i, n)
<1>1. IsFiniteSet(Slots(B, i)) /\ Cardinality(Slots(B, i)) <= n
  BY DEF Counted
<1>2. /\ IsFiniteSet(Slots(B2, i)) /\ Cardinality(Slots(B2, i)) <= Cardinality(Slots(B, i))
      /\ Cardinality(Slots(B, i)) \in Nat /\ Cardinality(Slots(B2, i)) \in Nat
  BY <1>1, Exchange
<1> QED
  BY <1>1, <1>2 DEF Counted

\* An open entry of PARALLEL, in numbers.
LEMMA Entered ==
  ASSUME NEW P, P \in Seq(ParallelEntry), NEW i \in DOMAIN P
  PROVE  P[i].finished \in Nat /\ P[i].total \in Nat /\ P[i].active \in BOOLEAN
         /\ P[i] = [active |-> P[i].active, total |-> P[i].total, finished |-> P[i].finished]
         /\ i \in Nat \ {0} /\ i \in 1 .. Len(P)
<1>1. P[i] \in ParallelEntry
  OBVIOUS
<1> QED
  BY <1>1 DEF ParallelEntry

LEMMA FirstLength == Len(First) \in Nat
<1>1. First \in Seq(Step)
  BY WorkflowAssumption DEF WorkflowAssumption
<1> QED
  BY <1>1

\* A token is dropped, or replaced by one with the same trail.
LEMMA Replaced ==
  ASSUME NEW B, NEW P, P \in Seq(ParallelEntry), ScopeInv(B, P), NEW t \in DOMAIN B, NEW u, NEW B2,
         DOMAIN B2 \subseteq (DOMAIN B \ {t}) \union {u},
         \A x \in DOMAIN B2 : B2[x] = IF x = u THEN B[t] ELSE B[x]
  PROVE  /\ ScopeInv(B2, P)
         /\ \A i : Clear(B, i) => Clear(B2, i)
<1>1. \A x \in DOMAIN B2 : IsTrail(B2[x], P)
  BY DEF ScopeInv
<1>2. ASSUME NEW i, NEW n \in Nat, Counted(B, i, n)
      PROVE  Counted(B2, i, n)
  <2>1. ASSUME NEW s \in Slots(B2, i)
        PROVE  s \in (Slots(B, i) \ {<<"own", t>>}) \union {<<"own", u>>}
    <3>0. PICK x \in DOMAIN B2 : \E k \in DOMAIN B2[x] : B2[x][k] = i /\ s = SlotAt(x, B2[x], k)
      BY SlotsAre
    <3>1. PICK k \in DOMAIN B2[x] : B2[x][k] = i /\ s = SlotAt(x, B2[x], k)
      BY <3>0
    <3>2. CASE x = u
      <4>1. B2[x] = B[t]
        BY <3>2
      <4>2. CASE k = Len(B[t])
        BY <3>1, <3>2, <4>1, <4>2 DEF SlotAt
      <4>3. CASE k # Len(B[t])
        <5>1. s = SlotAt(t, B[t], k) /\ s = <<"in", B[t][k + 1]>>
          BY <3>1, <4>1, <4>3 DEF SlotAt
        <5>2. k \in DOMAIN B[t] /\ B[t][k] = i
          BY <3>1, <4>1
        <5>3. SlotAt(t, B[t], k) \in Slots(B, i)
          BY <5>2, SlotIn
        <5> QED
          BY <5>1, <5>3
      <4> QED
        BY <4>2, <4>3
    <3>3. CASE x # u
      <4>1. x \in DOMAIN B /\ x # t /\ B2[x] = B[x]
        BY <3>3
      <4>2. s \in Slots(B, i)
        BY <3>1, <4>1, SlotsAre
      <4>3. s # <<"own", t>>
        BY <3>1, <4>1 DEF SlotAt
      <4> QED
        BY <4>2, <4>3
    <3> QED
      BY <3>2, <3>3
  <2>2. CASE <<"own", t>> \in Slots(B, i)
    BY <1>2, <2>1, <2>2, CountedSwap
  <2>3. CASE <<"own", t>> \notin Slots(B, i)
    <3>1. ASSUME NEW s \in Slots(B2, i)
          PROVE  s \in Slots(B, i)
      <4>0. PICK x \in DOMAIN B2 : \E k \in DOMAIN B2[x] : B2[x][k] = i /\ s = SlotAt(x, B2[x], k)
        BY SlotsAre
      <4>1. PICK k \in DOMAIN B2[x] : B2[x][k] = i /\ s = SlotAt(x, B2[x], k)
        BY <4>0
      <4>2. CASE x = u
        <5>1. B2[x] = B[t]
          BY <4>2
        <5>2. SlotAt(t, B[t], k) \in Slots(B, i)
          BY <4>1, <5>1, SlotsAre
        <5>3. k # Len(B[t])
          BY <2>3, <5>2 DEF SlotAt
        <5> QED
          BY <4>1, <5>1, <5>2, <5>3 DEF SlotAt
      <4>3. CASE x # u
        BY <4>1, <4>3, SlotsAre
      <4> QED
        BY <4>2, <4>3
    <3> QED
      BY <1>2, <3>1, CountedLess
  <2> QED
    BY <2>2, <2>3
<1>3. \A i \in DOMAIN P : P[i].active =>
        P[i].finished <= P[i].total /\ Counted(B2, i, P[i].total - P[i].finished)
  <2> TAKE i \in DOMAIN P
  <2> HAVE P[i].active
  <2>1. P[i].finished \in Nat /\ P[i].total \in Nat /\ P[i].finished <= P[i].total
        /\ Counted(B, i, P[i].total - P[i].finished)
    BY Entered DEF ScopeInv
  <2>2. P[i].total - P[i].finished \in Nat
    BY <2>1
  <2> QED
    BY <1>2, <2>1, <2>2
<1>4. Counted(B2, 0, Len(First))
  BY <1>2, FirstLength DEF ScopeInv
<1>5. ASSUME NEW i, Clear(B, i)
      PROVE  Clear(B2, i)
  BY <1>5 DEF Clear
<1> QED
  BY <1>1, <1>3, <1>4, <1>5 DEF ScopeInv

\* Parallel Start pushes an entry nobody works in yet.
LEMMA Pushed ==
  ASSUME NEW B, NEW P, P \in Seq(ParallelEntry), ScopeInv(B, P), NEW n \in Nat, NEW P2,
         P2 = Append(P, [active |-> TRUE, total |-> n, finished |-> 0])
  PROVE  ScopeInv(B, P2) /\ Clear(B, Len(P2)) /\ Len(P2) = Len(P) + 1
         /\ P2[Len(P2)] = [active |-> TRUE, total |-> n, finished |-> 0]
<1>1. /\ Len(P2) = Len(P) + 1 /\ Len(P) \in Nat /\ DOMAIN P = 1 .. Len(P)
      /\ DOMAIN P2 = 1 .. (Len(P) + 1)
      /\ \A k \in DOMAIN P : P2[k] = P[k]
      /\ P2[Len(P) + 1] = [active |-> TRUE, total |-> n, finished |-> 0]
  OBVIOUS
<1>2. \A t \in DOMAIN B : IsTrail(B[t], P2)
  BY <1>1 DEF ScopeInv, IsTrail
<1>3. Clear(B, Len(P2))
  <2>1. ASSUME NEW t \in DOMAIN B, NEW k \in DOMAIN B[t]
        PROVE  B[t][k] # Len(P2)
    <3>1. IsTrail(B[t], P)
      BY DEF ScopeInv
    <3>2. k = 1 \/ k \in 2 .. Len(B[t])
      BY <3>1 DEF IsTrail
    <3>3. B[t][k] = 0 \/ B[t][k] \in DOMAIN P
      BY <3>1, <3>2 DEF IsTrail
    <3> QED
      BY <3>3, <1>1
  <2> QED
    BY <2>1 DEF Clear
<1>4. Slots(B, Len(P2)) = {}
  BY <1>3, SlotsAre DEF Clear
<1>5. \A i \in DOMAIN P2 : P2[i].active =>
        P2[i].finished <= P2[i].total /\ Counted(B, i, P2[i].total - P2[i].finished)
  <2> TAKE i \in DOMAIN P2
  <2> HAVE P2[i].active
  <2>1. CASE i \in DOMAIN P
    BY <1>1, <2>1 DEF ScopeInv
  <2>2. CASE i = Len(P2)
    <3>1. P2[i].finished = 0 /\ P2[i].total = n /\ P2[i].finished <= P2[i].total
          /\ P2[i].total - P2[i].finished = n
      BY <1>1, <2>2
    <3>2. Slots(B, i) = {}
      BY <1>4, <2>2
    <3>3. IsFiniteSet(Slots(B, i)) /\ Cardinality(Slots(B, i)) = 0
      BY <3>2, FS_EmptySet
    <3>4. Counted(B, i, n)
      BY <3>3 DEF Counted
    <3> QED
      BY <3>1, <3>4
  <2> QED
    BY <1>1, <2>1, <2>2
<1> QED
  BY <1>1, <1>2, <1>3, <1>5 DEF ScopeInv

\* The branches are sent: one token in scope j becomes several in scope n.
LEMMA Forked ==
  ASSUME NEW B, NEW P, P \in Seq(ParallelEntry), ScopeInv(B, P), NEW t \in DOMAIN B,
         NEW n \in DOMAIN P, P[n].active, P[n].finished = 0, Clear(B, n),
         \A k \in DOMAIN B[t] : B[t][k] < n,
         NEW S, IsFiniteSet(S), Cardinality(S) <= P[n].total, NEW B2,
         DOMAIN B2 \subseteq (DOMAIN B \ {t}) \union S,
         \A x \in DOMAIN B2 : B2[x] = IF x \in S THEN Append(B[t], n) ELSE B[x]
  PROVE  ScopeInv(B2, P)
<1> DEFINE q == B[t]
           j == q[Len(q)]
<1>1. /\ IsTrail(q, P) /\ n \in Nat /\ n # 0
      /\ q \in Seq(Nat) /\ Len(q) \in Nat \ {0} /\ DOMAIN q = 1 .. Len(q)
  BY Entered DEF ScopeInv, IsTrail
<1>2. /\ Append(q, n) \in Seq(Nat) /\ Len(Append(q, n)) = Len(q) + 1
      /\ DOMAIN Append(q, n) = 1 .. (Len(q) + 1)
      /\ \A k \in 1 .. Len(q) : Append(q, n)[k] = q[k]
      /\ Append(q, n)[Len(q) + 1] = n
  BY <1>1
<1>3. IsTrail(Append(q, n), P)
  <2>1. \A k \in 2 .. (Len(q) + 1) : Append(q, n)[k] \in DOMAIN P /\ P[Append(q, n)[k]].active
    <3> TAKE k \in 2 .. (Len(q) + 1)
    <3>1. k \in 2 .. Len(q) \/ k = Len(q) + 1
      BY <1>1
    <3> QED
      BY <1>1, <1>2, <3>1 DEF IsTrail
  <2>2. \A k, l \in 1 .. (Len(q) + 1) : k < l => Append(q, n)[k] < Append(q, n)[l]
    <3> TAKE k, l \in 1 .. (Len(q) + 1)
    <3> HAVE k < l
    <3>1. k \in 1 .. Len(q)
      BY <1>1
    <3>2. CASE l \in 1 .. Len(q)
      BY <1>1, <1>2, <3>1, <3>2 DEF IsTrail
    <3>3. CASE l = Len(q) + 1
      BY <1>1, <1>2, <3>1, <3>3
    <3> QED
      BY <3>2, <3>3
  <2>3. Append(q, n)[1] = 0
    BY <1>1, <1>2 DEF IsTrail
  <2> QED
    BY <1>1, <1>2, <2>1, <2>2, <2>3 DEF IsTrail
<1>4. \A x \in DOMAIN B2 : IsTrail(B2[x], P)
  BY <1>3 DEF ScopeInv
<1> HIDE DEF q, j
<1>5. \A x \in DOMAIN B2 : B2[x] = IF x \in S THEN Append(q, n) ELSE B[x]
  BY DEF q
<1>6. \A k \in 1 .. Len(q) : SlotAt(t, q, k) \in Slots(B, q[k])
  BY <1>1, SlotIn DEF q
\* What is in scope i afterwards.
<1>7. ASSUME NEW i, NEW s \in Slots(B2, i)
      PROVE  \/ s \in Slots(B, i) /\ s # <<"own", t>>
             \/ i = j /\ s = <<"in", n>>
             \/ i = n /\ \E x \in S : s = <<"own", x>>
  <2>1. PICK x \in DOMAIN B2 : \E k \in DOMAIN B2[x] : B2[x][k] = i /\ s = SlotAt(x, B2[x], k)
    BY SlotsAre
  <2>2. PICK k \in DOMAIN B2[x] : B2[x][k] = i /\ s = SlotAt(x, B2[x], k)
    BY <2>1
  <2>3. CASE x \in S
    <3>1. B2[x] = Append(q, n) /\ k \in 1 .. (Len(q) + 1)
      BY <1>2, <1>5, <2>3
    <3>2. CASE k = Len(q) + 1
      BY <1>2, <2>2, <2>3, <3>1, <3>2 DEF SlotAt
    <3>3. CASE k = Len(q)
      <4>1. k + 1 = Len(q) + 1 /\ k # Len(q) + 1 /\ k \in 1 .. Len(q)
        <5>1. Len(q) \in Nat /\ Len(q) # 0
          BY <1>1
        <5> QED
          BY <5>1, <3>3
      <4>2. s = <<"in", n>>
        BY <1>2, <2>2, <3>1, <4>1 DEF SlotAt
      <4>3. i = q[Len(q)]
        BY <1>2, <2>2, <3>1, <3>3, <4>1
      <4> QED
        BY <4>2, <4>3 DEF j
    <3>4. CASE k \in 1 .. (Len(q) - 1)
      <4>1. s = <<"in", q[k + 1]>> /\ q[k] = i /\ k # Len(q)
        BY <1>1, <1>2, <2>2, <3>1, <3>4, SMTT(30) DEF SlotAt
      <4>2. s = SlotAt(t, q, k)
        BY <4>1 DEF SlotAt
      <4>3. k \in 1 .. Len(q)
        BY <1>1, <3>4
      <4>4. s \in Slots(B, q[k])
        BY <1>6, <4>2, <4>3
      <4>5. s # <<"own", t>>
        BY <4>1
      <4> QED
        BY <4>1, <4>4, <4>5
    <3> QED
      BY <1>1, <3>1, <3>2, <3>3, <3>4
  <2>4. CASE x \notin S
    <3>1. x \in DOMAIN B /\ x # t /\ B2[x] = B[x]
      BY <1>5, <2>4
    <3>2. s # <<"own", t>>
      BY <2>2, <3>1 DEF SlotAt
    <3> QED
      BY <2>2, <3>1, <3>2, SlotsAre
  <2> QED
    BY <2>3, <2>4
<1>8. <<"own", t>> \in Slots(B, j)
  <2>1. Len(q) \in 1 .. Len(q)
    BY <1>1
  <2>2. SlotAt(t, q, Len(q)) = <<"own", t>>
    BY DEF SlotAt
  <2> QED
    BY <1>6, <2>1, <2>2 DEF j
<1>9. j # n /\ Slots(B, n) = {}
  BY <1>1, SlotsAre DEF Clear, j, q
<1>10. ASSUME NEW i, i # n, NEW l \in Nat, Counted(B, i, l)
       PROVE  Counted(B2, i, l)
  <2>1. CASE i = j
    <3>1. Slots(B2, i) \subseteq (Slots(B, i) \ {<<"own", t>>}) \union {<<"in", n>>}
      BY <1>7, <1>10
    <3> QED
      BY <1>8, <1>10, <2>1, <3>1, CountedSwap
  <2>2. CASE i # j
    <3>1. Slots(B2, i) \subseteq Slots(B, i)
      BY <1>7, <1>10, <2>2
    <3> QED
      BY <1>10, <3>1, CountedLess
  <2> QED
    BY <2>1, <2>2
<1>11. Counted(B2, n, P[n].total)
  <2> DEFINE O == {<<"own", x>> : x \in S}
  <2>1. IsFiniteSet(O) /\ Cardinality(O) <= Cardinality(S) /\ Cardinality(S) \in Nat
    BY OwnSlots
  <2>2. Slots(B2, n) \subseteq O
    BY <1>7, <1>9
  <2> HIDE DEF O
  <2>3. /\ IsFiniteSet(Slots(B2, n)) /\ Cardinality(Slots(B2, n)) <= Cardinality(O)
        /\ Cardinality(O) \in Nat /\ Cardinality(Slots(B2, n)) \in Nat
    BY <2>1, <2>2, NoMore
  <2>4. P[n].total \in Nat
    BY Entered
  <2> QED
    BY <2>1, <2>3, <2>4 DEF Counted
<1>12. \A i \in DOMAIN P : P[i].active =>
        P[i].finished <= P[i].total /\ Counted(B2, i, P[i].total - P[i].finished)
  <2> TAKE i \in DOMAIN P
  <2> HAVE P[i].active
  <2>1. P[i].finished \in Nat /\ P[i].total \in Nat /\ P[i].finished <= P[i].total
        /\ Counted(B, i, P[i].total - P[i].finished)
    BY Entered DEF ScopeInv
  <2>2. P[i].total - P[i].finished \in Nat
    BY <2>1
  <2>3. CASE i = n
    <3>1. P[i].total - P[i].finished = P[n].total
      BY <2>1, <2>3
    <3> QED
      BY <2>1, <2>3, <3>1, <1>11
  <2> QED
    BY <1>10, <2>1, <2>2, <2>3
<1>13. Counted(B2, 0, Len(First))
  BY <1>1, <1>10, FirstLength DEF ScopeInv
<1> QED
  BY <1>4, <1>12, <1>13 DEF ScopeInv

\* A token of scope j counts there for itself.
LEMMA OwnSlot ==
  ASSUME NEW B, NEW P, ScopeInv(B, P), NEW t \in DOMAIN B
  PROVE  /\ B[t] \in Seq(Nat) /\ Len(B[t]) \in Nat /\ Len(B[t]) # 0
         /\ DOMAIN B[t] = 1 .. Len(B[t]) /\ Len(B[t]) \in DOMAIN B[t]
         /\ <<"own", t>> \in Slots(B, B[t][Len(B[t])])
         /\ IsTrail(B[t], P)
<1>1. IsTrail(B[t], P)
  BY DEF ScopeInv
<1>2. /\ B[t] \in Seq(Nat) /\ Len(B[t]) \in Nat /\ Len(B[t]) # 0
      /\ DOMAIN B[t] = 1 .. Len(B[t]) /\ Len(B[t]) \in DOMAIN B[t]
  BY <1>1 DEF IsTrail
<1>3. SlotAt(t, B[t], Len(B[t])) = <<"own", t>>
  BY DEF SlotAt
<1> QED
  BY <1>1, <1>2, <1>3, SlotIn

\* Where one slot is counted, there is no other.
LEMMA OnlySlot ==
  ASSUME NEW B, NEW i, Counted(B, i, 1), NEW s \in Slots(B, i)
  PROVE  Slots(B, i) = {s}
<1>1. IsFiniteSet(Slots(B, i)) /\ Cardinality(Slots(B, i)) <= 1
  BY DEF Counted
<1>2. {s} \in SUBSET Slots(B, i)
  OBVIOUS
<1>3. /\ Cardinality({s}) <= Cardinality(Slots(B, i))
      /\ Cardinality(Slots(B, i)) = Cardinality({s}) => Slots(B, i) = {s}
  BY <1>1, <1>2, FS_Subset
<1>4. Cardinality({s}) = 1 /\ Cardinality(Slots(B, i)) \in Nat
  BY <1>1, FS_Singleton, FS_CardinalityType
<1> QED
  BY <1>1, <1>3, <1>4

\* When all that is in scope i is token t itself, no other token is under it.
LEMMA AloneIn ==
  ASSUME NEW B, NEW P, ScopeInv(B, P), NEW i, NEW t,
         Slots(B, i) \subseteq {<<"own", t>>},
         NEW x \in DOMAIN B, NEW k \in DOMAIN B[x], B[x][k] = i
  PROVE  x = t /\ k = Len(B[x])
<1>1. SlotAt(x, B[x], k) = <<"own", t>>
  BY SlotIn
<1> QED
  BY <1>1 DEF SlotAt

\* What counting one branch of scope j does to the list.
LEMMA Counting1 ==
  ASSUME NEW P, P \in Seq(ParallelEntry), NEW j \in DOMAIN P, NEW P2, P2 = Arrive(P, j)
  PROVE  /\ P2 \in Seq(ParallelEntry) /\ DOMAIN P2 = DOMAIN P
         /\ \A k \in DOMAIN P : k # j => P2[k] = P[k]
         /\ P2[j].active = P[j].active /\ P2[j].total = P[j].total
         /\ P2[j].finished = P[j].finished + 1
<1>1. P[j] \in ParallelEntry
  OBVIOUS
<1>2. P2 = [P EXCEPT ![j] = [P[j] EXCEPT !.finished = @ + 1]]
  BY DEF Arrive
<1>3. [P[j] EXCEPT !.finished = @ + 1] \in ParallelEntry
  BY <1>1, SMTT(30) DEF ParallelEntry
<1>4. PICK r : r = [P[j] EXCEPT !.finished = @ + 1]
  OBVIOUS
<1>5. r \in ParallelEntry /\ r.active = P[j].active /\ r.total = P[j].total
      /\ r.finished = P[j].finished + 1
  BY <1>1, <1>3, <1>4 DEF ParallelEntry
<1>6. P2 = [P EXCEPT ![j] = r]
  BY <1>2, <1>4
<1>7. /\ P2 \in Seq(ParallelEntry) /\ DOMAIN P2 = DOMAIN P /\ P2[j] = r
      /\ \A k \in DOMAIN P : k # j => P2[k] = P[k]
  BY <1>5, <1>6
<1> QED
  BY <1>5, <1>7

\* A branch of scope j has arrived: it is counted, and leaves the board.
LEMMA Arrived ==
  ASSUME NEW B, NEW P, P \in Seq(ParallelEntry), ScopeInv(B, P), NEW t \in DOMAIN B,
         NEW j \in DOMAIN P, j = B[t][Len(B[t])], NEW P2, P2 = Arrive(P, j),
         NEW B2, DOMAIN B2 \subseteq DOMAIN B \ {t}, \A x \in DOMAIN B2 : B2[x] = B[x]
  PROVE  ScopeInv(B2, P2)
<1>1. /\ DOMAIN P2 = DOMAIN P
      /\ \A k \in DOMAIN P : k # j => P2[k] = P[k]
      /\ P2[j].active = P[j].active /\ P2[j].total = P[j].total
      /\ P2[j].finished = P[j].finished + 1
  BY Counting1
<1>2. \A x \in DOMAIN B2 : IsTrail(B2[x], P2)
  <2> TAKE x \in DOMAIN B2
  <2>1. IsTrail(B2[x], P)
    BY DEF ScopeInv
  <2>2. \A k \in DOMAIN P : P2[k].active = P[k].active
    BY <1>1
  <2> QED
    BY <1>1, <2>1, <2>2 DEF IsTrail
<1>3. \A i : Slots(B2, i) \subseteq Slots(B, i) \ {<<"own", t>>}
  <2>1. ASSUME NEW i, NEW s \in Slots(B2, i)
        PROVE  s \in Slots(B, i) /\ s # <<"own", t>>
    <3>1. PICK x \in DOMAIN B2 : \E k \in DOMAIN B2[x] : B2[x][k] = i /\ s = SlotAt(x, B2[x], k)
      BY SlotsAre
    <3>2. x \in DOMAIN B /\ x # t /\ B2[x] = B[x]
      OBVIOUS
    <3>3. s \in Slots(B, i)
      BY <3>1, <3>2, SlotsAre
    <3> QED
      BY <3>1, <3>2, <3>3 DEF SlotAt
  <2> QED
    BY <2>1
<1>4. \A i \in DOMAIN P2 : P2[i].active =>
        P2[i].finished <= P2[i].total /\ Counted(B2, i, P2[i].total - P2[i].finished)
  <2> TAKE i \in DOMAIN P2
  <2> HAVE P2[i].active
  <2>1. /\ i \in DOMAIN P /\ P[i].active
        /\ P[i].finished \in Nat /\ P[i].total \in Nat /\ P[i].finished <= P[i].total
        /\ Counted(B, i, P[i].total - P[i].finished)
    BY <1>1, Entered DEF ScopeInv
  <2>2. PICK n \in Nat : n = P[i].total - P[i].finished
    BY <2>1
  <2>3. CASE i = j
    <3>1. <<"own", t>> \in Slots(B, i)
      BY <2>3, OwnSlot
    <3>2. IsFiniteSet(Slots(B, i)) /\ Cardinality(Slots(B, i)) <= n
      BY <2>1, <2>2 DEF Counted
    <3>3. /\ IsFiniteSet(Slots(B2, i)) /\ Cardinality(Slots(B2, i)) + 1 <= Cardinality(Slots(B, i))
          /\ Cardinality(Slots(B, i)) \in Nat /\ Cardinality(Slots(B2, i)) \in Nat
      <4>1. Slots(B2, i) \subseteq Slots(B, i) \ {<<"own", t>>}
        BY <1>3
      <4>2. PICK A : A = Slots(B, i)
        OBVIOUS
      <4>3. IsFiniteSet(A) /\ <<"own", t>> \in A
        BY <3>1, <3>2, <4>2
      <4>4. Slots(B2, i) \subseteq A \ {<<"own", t>>}
        BY <4>1, <4>2
      <4>5. /\ IsFiniteSet(Slots(B2, i)) /\ Cardinality(Slots(B2, i)) + 1 <= Cardinality(A)
            /\ Cardinality(A) \in Nat /\ Cardinality(Slots(B2, i)) \in Nat
        BY <4>3, <4>4, OneLess
      <4> QED
        BY <4>2, <4>5
    <3>4. n # 0 /\ Cardinality(Slots(B2, i)) <= n - 1
      BY <3>2, <3>3
    <3>5. P2[i].total - P2[i].finished = n - 1 /\ P2[i].finished <= P2[i].total
      BY <1>1, <2>1, <2>2, <2>3, <3>4
    <3> QED
      BY <3>3, <3>4, <3>5 DEF Counted
  <2>4. CASE i # j
    <3>1. P2[i] = P[i]
      BY <1>1, <2>1, <2>4
    <3>2. Counted(B2, i, n)
      BY <1>3, <2>1, <2>2, CountedLess
    <3> QED
      BY <2>1, <2>2, <3>1, <3>2
  <2> QED
    BY <2>3, <2>4
<1>5. Counted(B2, 0, Len(First))
  BY <1>3, FirstLength, CountedLess DEF ScopeInv
<1> QED
  BY <1>2, <1>4, <1>5 DEF ScopeInv

\* Scope i is the last of s, and a are those before it.
LastOf(s, i, a) ==
  /\ s \in Seq(Nat) /\ Len(s) # 0 /\ s[Len(s)] = i
  /\ a \in Seq(Nat) /\ Len(a) = Len(s) - 1
  /\ \A k \in 1 .. (Len(s) - 1) : a[k] = s[k]

\* The last branch of scope j has arrived: nothing works in scope j any more,
\* and its token goes on in the scope around it.
LEMMA LastArrived ==
  ASSUME NEW B, NEW P, P \in Seq(ParallelEntry), ScopeInv(B, P), NEW t \in DOMAIN B,
         NEW j \in DOMAIN P, NEW P2, P2 = Arrive(P, j), JoinReady(P2, j),
         NEW q2, LastOf(B[t], j, q2),
         NEW B2, DOMAIN B2 \subseteq DOMAIN B,
         \A x \in DOMAIN B2 : B2[x] = IF x = t THEN q2 ELSE B[x]
  PROVE  ScopeInv(B2, P2) /\ Clear(B2, j)
<1>0. /\ P2[j].finished = P2[j].total /\ j = B[t][Len(B[t])]
      /\ q2 \in Seq(Nat) /\ Len(q2) = Len(B[t]) - 1
      /\ \A k \in 1 .. (Len(B[t]) - 1) : q2[k] = B[t][k]
  BY DEF LastOf, JoinReady
<1>1. /\ DOMAIN P2 = DOMAIN P
      /\ \A k \in DOMAIN P : k # j => P2[k] = P[k]
      /\ P2[j].active = P[j].active /\ P2[j].total = P[j].total
      /\ P2[j].finished = P[j].finished + 1
  BY Counting1
<1>2. PICK q : q = B[t]
  OBVIOUS
<1>3. PICK L : L = Len(q)
  OBVIOUS
<1>4. /\ IsTrail(q, P) /\ q \in Seq(Nat) /\ L \in Nat /\ L # 0 /\ DOMAIN q = 1 .. L
      /\ j = q[L]
  BY <1>0, <1>2, <1>3, OwnSlot
<1>5. j # 0 /\ j \in Nat
  BY Entered
<1>6. L # 1 /\ L - 1 \in Nat /\ L - 1 \in 1 .. L /\ L \in 2 .. L /\ L - 1 # L /\ L - 1 + 1 = L
  <2>1. q[1] = 0
    BY <1>4 DEF IsTrail
  <2> QED
    BY <1>4, <1>5, <2>1
<1>7. /\ DOMAIN q2 = 1 .. (L - 1) /\ Len(q2) = L - 1
      /\ \A k \in 1 .. (L - 1) : q2[k] = q[k]
  BY <1>0, <1>2, <1>3, <1>6
<1>8. Slots(B, j) = {<<"own", t>>}
  <2>1. P[j].active
    BY <1>3, <1>4, <1>6 DEF IsTrail
  <2>2. /\ P[j].finished \in Nat /\ P[j].total \in Nat
        /\ Counted(B, j, P[j].total - P[j].finished)
    BY <2>1, Entered DEF ScopeInv
  <2>3. P[j].total - P[j].finished = 1
    BY <1>0, <1>1, <2>2
  <2>4. Counted(B, j, 1)
    BY <2>2, <2>3
  <2>5. PICK s : s = <<"own", t>>
    OBVIOUS
  <2>6. s \in Slots(B, j)
    BY <1>0, <2>5, OwnSlot
  <2>7. Slots(B, j) = {s}
    BY <2>4, <2>6, OnlySlot
  <2> QED
    BY <2>5, <2>7
<1>9. ASSUME NEW x \in DOMAIN B, x # t, NEW k \in DOMAIN B[x]
      PROVE  B[x][k] # j
  BY <1>8, <1>9, AloneIn
<1>10. \A k \in 1 .. (L - 1) : k \in 1 .. L /\ q[k] < j /\ q[k] # j /\ k # L /\ q[k] \in Nat
  <2> TAKE k \in 1 .. (L - 1)
  <2>1. k \in 1 .. L /\ k < L /\ L \in 1 .. L
    BY <1>4
  <2>2. q[k] < q[L]
    BY <1>4, <2>1 DEF IsTrail
  <2>3. q[k] \in Nat /\ q[L] \in Nat
    BY <1>4, <2>1
  <2> QED
    BY <1>4, <2>1, <2>2, <2>3
<1>11. IsTrail(q2, P2)
  <2>1. \A k \in 2 .. (L - 1) : q2[k] \in DOMAIN P2 /\ P2[q2[k]].active
    <3> TAKE k \in 2 .. (L - 1)
    <3>1. k \in 1 .. (L - 1) /\ k \in 2 .. L
      BY <1>4
    <3>2. q[k] \in DOMAIN P /\ P[q[k]].active
      BY <1>3, <1>4, <3>1 DEF IsTrail
    <3>3. q2[k] = q[k] /\ q[k] # j
      BY <1>7, <1>10, <3>1
    <3> QED
      BY <1>1, <3>2, <3>3
  <2>2. \A k, l \in 1 .. (L - 1) : k < l => q2[k] < q2[l]
    BY <1>4, <1>7, <1>10 DEF IsTrail
  <2>3. q2[1] = 0 /\ L - 1 > 0
    BY <1>4, <1>6, <1>7 DEF IsTrail
  <2> QED
    BY <1>0, <1>7, <2>1, <2>2, <2>3 DEF IsTrail
<1>12. \A x \in DOMAIN B2 : IsTrail(B2[x], P2)
  <2> TAKE x \in DOMAIN B2
  <2>1. CASE x = t
    BY <1>11, <2>1
  <2>2. CASE x # t
    <3>1. B2[x] = B[x] /\ x \in DOMAIN B /\ IsTrail(B[x], P)
      BY <2>2 DEF ScopeInv
    <3>2. \A k \in DOMAIN P : P2[k].active = P[k].active
      BY <1>1
    <3> QED
      BY <1>1, <3>1, <3>2 DEF IsTrail
  <2> QED
    BY <2>1, <2>2
<1>13. Clear(B2, j)
  <2>1. ASSUME NEW x \in DOMAIN B2, NEW k \in DOMAIN B2[x]
        PROVE  B2[x][k] # j
    <3>1. CASE x = t
      BY <1>7, <1>10, <3>1
    <3>2. CASE x # t
      BY <1>9, <3>2
    <3> QED
      BY <3>1, <3>2
  <2> QED
    BY <2>1 DEF Clear
\* What is in scope i afterwards.
<1>14. ASSUME NEW i, NEW s \in Slots(B2, i)
       PROVE  \/ s \in Slots(B, i) /\ s # <<"in", j>>
              \/ i = q[L - 1] /\ s = <<"own", t>>
  <2>1. PICK x \in DOMAIN B2 : \E k \in DOMAIN B2[x] : B2[x][k] = i /\ s = SlotAt(x, B2[x], k)
    BY SlotsAre
  <2>2. PICK k \in DOMAIN B2[x] : B2[x][k] = i /\ s = SlotAt(x, B2[x], k)
    BY <2>1
  <2>3. CASE x # t
    <3>1. B2[x] = B[x] /\ x \in DOMAIN B
      BY <2>3
    <3>2. s \in Slots(B, i)
      BY <2>2, <3>1, SlotsAre
    <3>3. s # <<"in", j>>
      <4>1. CASE k = Len(B[x])
        BY <2>2, <3>1, <4>1 DEF SlotAt
      <4>2. CASE k # Len(B[x])
        <5>1. DOMAIN B[x] = 1 .. Len(B[x]) /\ Len(B[x]) \in Nat
          BY <3>1, OwnSlot
        <5>2. k + 1 \in DOMAIN B[x]
          BY <3>1, <4>2, <5>1
        <5>3. B[x][k + 1] # j
          BY <1>9, <2>3, <3>1, <5>2
        <5>4. s = <<"in", B[x][k + 1]>>
          BY <2>2, <3>1, <4>2 DEF SlotAt
        <5> QED
          BY <5>3, <5>4
      <4> QED
        BY <4>1, <4>2
    <3> QED
      BY <3>2, <3>3
  <2>4. CASE x = t
    <3>1. B2[x] = q2 /\ k \in 1 .. (L - 1) /\ q[k] = i /\ k \in 1 .. L
      BY <1>7, <1>10, <2>2, <2>4
    <3>2. CASE k = L - 1
      BY <1>7, <2>2, <2>4, <3>1, <3>2 DEF SlotAt
    <3>3. CASE k # L - 1
      <4>1. k + 1 \in 1 .. (L - 1) /\ k # L
        BY <1>4, <1>10, <3>1, <3>3
      <4>2. s = <<"in", q[k + 1]>> /\ q[k + 1] # j
        BY <1>7, <1>10, <2>2, <3>1, <3>3, <4>1 DEF SlotAt
      <4>3. s = SlotAt(t, B[t], k)
        BY <1>2, <1>3, <4>1, <4>2 DEF SlotAt
      <4>4. k \in DOMAIN B[t] /\ B[t][k] = i
        BY <1>2, <1>4, <3>1
      <4>5. s \in Slots(B, i)
        BY <4>3, <4>4, SlotIn
      <4> QED
        BY <4>2, <4>5
    <3> QED
      BY <3>2, <3>3
  <2> QED
    BY <2>3, <2>4
<1>15. <<"in", j>> \in Slots(B, q[L - 1])
  <2>1. SlotAt(t, B[t], L - 1) = <<"in", j>>
    BY <1>2, <1>3, <1>4, <1>6 DEF SlotAt
  <2>2. L - 1 \in DOMAIN B[t]
    BY <1>2, <1>4, <1>6
  <2>3. SlotAt(t, B[t], L - 1) \in Slots(B, B[t][L - 1])
    BY <2>2, SlotIn
  <2> QED
    BY <1>2, <2>1, <2>3
<1>16. ASSUME NEW i, NEW n \in Nat, Counted(B, i, n)
       PROVE  Counted(B2, i, n)
  <2>1. CASE i = q[L - 1]
    <3>1. Slots(B2, i) \subseteq (Slots(B, i) \ {<<"in", j>>}) \union {<<"own", t>>}
      BY <1>14
    <3> QED
      BY <1>15, <1>16, <2>1, <3>1, CountedSwap
  <2>2. CASE i # q[L - 1]
    <3>1. Slots(B2, i) \subseteq Slots(B, i)
      BY <1>14, <2>2
    <3> QED
      BY <1>16, <3>1, CountedLess
  <2> QED
    BY <2>1, <2>2
<1>17. \A i \in DOMAIN P2 : P2[i].active =>
        P2[i].finished <= P2[i].total /\ Counted(B2, i, P2[i].total - P2[i].finished)
  <2> TAKE i \in DOMAIN P2
  <2> HAVE P2[i].active
  <2>1. CASE i = j
    <3>1. P2[i].finished \in Nat /\ P2[i].total = P2[i].finished
      BY <1>0, <1>1, <2>1, Entered
    <3>2. P2[i].total - P2[i].finished = 0 /\ P2[i].finished <= P2[i].total
      BY <3>1
    <3>3. Slots(B2, i) = {}
      BY <1>13, <2>1, SlotsAre DEF Clear
    <3>4. IsFiniteSet(Slots(B2, i)) /\ Cardinality(Slots(B2, i)) = 0
      BY <3>3, FS_EmptySet
    <3>5. Counted(B2, i, 0)
      BY <3>4 DEF Counted
    <3> QED
      BY <3>2, <3>5
  <2>2. CASE i # j
    <3>1. P2[i] = P[i] /\ i \in DOMAIN P
      BY <1>1, <2>2
    <3>2. /\ P[i].finished \in Nat /\ P[i].total \in Nat /\ P[i].finished <= P[i].total
          /\ Counted(B, i, P[i].total - P[i].finished)
      BY <3>1, Entered DEF ScopeInv
    <3>3. P[i].total - P[i].finished \in Nat
      BY <3>2
    <3> QED
      BY <1>16, <3>1, <3>2, <3>3
  <2> QED
    BY <2>1, <2>2
<1>18. Counted(B2, 0, Len(First))
  BY <1>16, FirstLength DEF ScopeInv
<1> QED
  BY <1>12, <1>13, <1>17, <1>18 DEF ScopeInv

\* Closing a scope nobody works in.
LEMMA Closing ==
  ASSUME NEW B, NEW P, P \in Seq(ParallelEntry), ScopeInv(B, P), NEW j, Clear(B, j), NEW P2,
         P2 = Complete(P, j)
  PROVE  /\ ScopeInv(B, P2) /\ DOMAIN P2 = DOMAIN P
         /\ \A k \in DOMAIN P : k # j => P2[k] = P[k]
         /\ \A k \in DOMAIN P : P2[k].active => P[k].active /\ k # j
<1>1. /\ DOMAIN P2 = DOMAIN P
      /\ \A k \in DOMAIN P : k # j => P2[k] = P[k]
      /\ j \in DOMAIN P => P2[j].active = FALSE
  <2>1. j \in DOMAIN P => P[j] \in ParallelEntry
    OBVIOUS
  <2>2. P2 = [P EXCEPT ![j] = [P[j] EXCEPT !.active = FALSE]]
    BY DEF Complete
  <2> QED
    BY <2>1, <2>2 DEF ParallelEntry
<1>2. \A k \in DOMAIN P : P2[k].active => P[k].active /\ k # j
  BY <1>1
<1>3. \A x \in DOMAIN B : IsTrail(B[x], P2)
  <2> TAKE x \in DOMAIN B
  <2>1. IsTrail(B[x], P)
    BY DEF ScopeInv
  <2>2. \A k \in DOMAIN B[x] : B[x][k] # j
    BY DEF Clear
  <2>3. \A k \in 2 .. Len(B[x]) : k \in DOMAIN B[x]
    BY <2>1 DEF IsTrail
  <2> QED
    BY <1>1, <2>1, <2>2, <2>3 DEF IsTrail
<1> QED
  BY <1>1, <1>2, <1>3 DEF ScopeInv

\* Fewer tokens.
LEMMA Dropped ==
  ASSUME NEW B, NEW P, P \in Seq(ParallelEntry), ScopeInv(B, P),
         NEW B2, DOMAIN B2 \subseteq DOMAIN B, \A x \in DOMAIN B2 : B2[x] = B[x]
  PROVE  /\ ScopeInv(B2, P)
         /\ \A i : Clear(B, i) => Clear(B2, i)
<1>1. \A i : Slots(B2, i) \subseteq Slots(B, i)
  <2>1. ASSUME NEW i, NEW s \in Slots(B2, i)
        PROVE  s \in Slots(B, i)
    <3>1. PICK x \in DOMAIN B2 : \E k \in DOMAIN B2[x] : B2[x][k] = i /\ s = SlotAt(x, B2[x], k)
      BY SlotsAre
    <3>2. x \in DOMAIN B /\ B2[x] = B[x]
      OBVIOUS
    <3> QED
      BY <3>1, <3>2, SlotsAre
  <2> QED
    BY <2>1
<1>2. \A i \in DOMAIN P : P[i].active =>
        P[i].finished <= P[i].total /\ Counted(B2, i, P[i].total - P[i].finished)
  <2> TAKE i \in DOMAIN P
  <2> HAVE P[i].active
  <2>1. P[i].finished \in Nat /\ P[i].total \in Nat /\ P[i].finished <= P[i].total
        /\ Counted(B, i, P[i].total - P[i].finished)
    BY Entered DEF ScopeInv
  <2>2. P[i].total - P[i].finished \in Nat
    BY <2>1
  <2> QED
    BY <1>1, <2>1, <2>2, CountedLess
<1>3. Counted(B2, 0, Len(First))
  BY <1>1, FirstLength, CountedLess DEF ScopeInv
<1>4. \A i : Clear(B, i) => Clear(B2, i)
  BY DEF Clear
<1> QED
  BY <1>2, <1>3, <1>4 DEF ScopeInv

-------------------------------------------------------------------------------
(* Trails *)

LEMMA TrailIs ==
  ASSUME NEW s \in Seq(Nat)
  PROVE  /\ Trail(s) \in Seq(Nat) /\ Len(Trail(s)) = Len(s) + 1 /\ Len(s) \in Nat
         /\ DOMAIN Trail(s) = 1 .. (Len(s) + 1)
         /\ Trail(s)[1] = 0
         /\ \A k \in 1 .. Len(s) : Trail(s)[k + 1] = s[k] /\ k + 1 \in 2 .. (Len(s) + 1)
         /\ \A k \in 2 .. (Len(s) + 1) : Trail(s)[k] = s[k - 1] /\ k - 1 \in 1 .. Len(s)
<1>1. Len(s) \in Nat /\ DOMAIN s = 1 .. Len(s) /\ \A k \in 1 .. Len(s) : s[k] \in Nat
  OBVIOUS
<1>2. \A k \in 1 .. (Len(s) + 1) : Trail(s)[k] = IF k = 1 THEN 0 ELSE s[k - 1]
  BY DEF Trail
<1>3. \A k \in 2 .. (Len(s) + 1) : k - 1 \in 1 .. Len(s) /\ k # 1 /\ k \in 1 .. (Len(s) + 1)
  BY <1>1
<1>4. \A k \in 1 .. (Len(s) + 1) : k = 1 \/ k \in 2 .. (Len(s) + 1)
  BY <1>1
<1>5. \A k \in 1 .. (Len(s) + 1) : Trail(s)[k] \in Nat
  BY <1>1, <1>2, <1>3, <1>4
<1>6. Trail(s) \in [1 .. (Len(s) + 1) -> Nat] /\ Len(s) + 1 \in Nat
  BY <1>1, <1>5 DEF Trail
<1>7. Trail(s) \in Seq(Nat) /\ Len(Trail(s)) = Len(s) + 1
  BY <1>6
<1>8. \A k \in 1 .. Len(s) : k + 1 \in 2 .. (Len(s) + 1) /\ k + 1 # 1 /\ k + 1 - 1 = k
        /\ k + 1 \in 1 .. (Len(s) + 1)
  BY <1>1
<1>9. DOMAIN Trail(s) = 1 .. (Len(s) + 1) /\ Trail(s)[1] = 0
  BY <1>1, <1>2 DEF Trail
<1> QED
  BY <1>1, <1>2, <1>3, <1>7, <1>8, <1>9

LEMMA TrailAppend ==
  ASSUME NEW s \in Seq(Nat), NEW n \in Nat
  PROVE  Append(s, n) \in Seq(Nat) /\ Trail(Append(s, n)) = Append(Trail(s), n)
<1> DEFINE a == Append(s, n)
           l == Trail(a)
           r == Append(Trail(s), n)
<1>1. /\ a \in Seq(Nat) /\ Len(a) = Len(s) + 1 /\ Len(s) \in Nat
      /\ \A k \in 1 .. Len(s) : a[k] = s[k]
      /\ a[Len(s) + 1] = n
  OBVIOUS
<1> HIDE DEF a
<1>2. /\ l \in Seq(Nat) /\ Len(l) = Len(s) + 2
      /\ l[1] = 0 /\ \A k \in 1 .. (Len(s) + 1) : l[k + 1] = a[k]
  <2>1. /\ l \in Seq(Nat) /\ Len(l) = Len(a) + 1
        /\ l[1] = 0 /\ \A k \in 1 .. Len(a) : l[k + 1] = a[k]
    BY <1>1, TrailIs
  <2> QED
    BY <1>1, <2>1
<1>3. /\ r \in Seq(Nat) /\ Len(r) = Len(s) + 2
      /\ r[1] = 0 /\ \A k \in 1 .. Len(s) : r[k + 1] = s[k]
      /\ r[Len(s) + 2] = n
  <2>1. PICK t \in Seq(Nat) :
          /\ t = Trail(s) /\ Len(t) = Len(s) + 1
          /\ t[1] = 0 /\ \A k \in 1 .. Len(s) : t[k + 1] = s[k] /\ k + 1 \in 2 .. (Len(s) + 1)
    BY TrailIs
  <2>2. /\ r = Append(t, n) /\ r \in Seq(Nat) /\ Len(r) = Len(t) + 1
        /\ \A k \in 1 .. Len(t) : r[k] = t[k]
        /\ r[Len(t) + 1] = n
    BY <2>1
  <2>3. 1 \in 1 .. Len(t) /\ \A k \in 1 .. Len(s) : k + 1 \in 1 .. Len(t)
    BY <1>1, <2>1
  <2>4. \A k \in 1 .. Len(s) : r[k + 1] = s[k]
    BY <2>1, <2>2, <2>3
  <2> QED
    BY <1>1, <2>1, <2>2, <2>3, <2>4
<1> HIDE DEF l, r
<1>4. \A k \in 1 .. (Len(s) + 2) : l[k] = r[k]
  <2> TAKE k \in 1 .. (Len(s) + 2)
  <2>1. CASE k = 1
    BY <1>2, <1>3, <2>1
  <2>2. CASE k = Len(s) + 2
    <3>1. Len(s) + 1 \in 1 .. (Len(s) + 1) /\ Len(s) + 1 + 1 = Len(s) + 2
      BY <1>1
    <3> QED
      BY <1>1, <1>2, <1>3, <2>2, <3>1
  <2>3. CASE k # 1 /\ k # Len(s) + 2
    <3>1. k - 1 \in 1 .. Len(s) /\ k - 1 \in 1 .. (Len(s) + 1) /\ k - 1 + 1 = k
      BY <1>1, <2>3
    <3>2. l[k - 1 + 1] = a[k - 1] /\ r[k - 1 + 1] = s[k - 1] /\ a[k - 1] = s[k - 1]
      BY <1>1, <1>2, <1>3, <3>1
    <3> QED
      BY <3>1, <3>2
  <2> QED
    BY <2>1, <2>2, <2>3
<1>5. l = r
  BY <1>1, <1>2, <1>3, <1>4
<1> QED
  BY <1>1, <1>5 DEF a, l, r

\* What is left of a trail when its last scope is taken out.
LEMMA EnclosingIs ==
  ASSUME NEW s \in Seq(Nat), NEW i, Len(s) # 0, s[Len(s)] = i,
         \A k \in 1 .. (Len(s) - 1) : s[k] # i
  PROVE  /\ Enclosing(s, i) \in Seq(Nat) /\ Len(Enclosing(s, i)) = Len(s) - 1
         /\ \A k \in 1 .. (Len(s) - 1) : Enclosing(s, i)[k] = s[k]
<1> DEFINE kept == {h \in DOMAIN s : s[h] # i}
           upTo(h) == Cardinality({j \in kept : j <= h})
           n == Len(s) - 1
<1>0. Len(s) \in Nat /\ DOMAIN s = 1 .. Len(s) /\ \A k \in 1 .. Len(s) : s[k] \in Nat
  OBVIOUS
<1>1. n \in Nat /\ (\A k \in 1 .. n : k \in 1 .. Len(s))
      /\ \A k \in 1 .. Len(s) : k \in 1 .. n \/ k = Len(s)
  <2>1. PICK L \in Nat : L = Len(s)
    BY <1>0
  <2>2. L - 1 \in Nat /\ (\A k \in 1 .. (L - 1) : k \in 1 .. L)
        /\ \A k \in 1 .. L : k \in 1 .. (L - 1) \/ k = L
    BY <2>1
  <2> QED
    BY <2>1, <2>2
<1>2. kept = 1 .. n
  <2>1. \A k \in 1 .. n : s[k] # i
    OBVIOUS
  <2>2. \A k \in 1 .. Len(s) : s[k] # i => k \in 1 .. n
    BY <1>1
  <2>3. \A k : k \in kept <=> k \in 1 .. Len(s) /\ s[k] # i
    BY <1>0
  <2> HIDE DEF kept, n
  <2> QED
    BY <1>1, <2>1, <2>2, <2>3
<1>3. \A k \in Nat : Cardinality(1 .. k) = k
  BY FS_Interval
<1>4. \A k \in 1 .. n : upTo(k) = k
  <2> TAKE k \in 1 .. n
  <2>1. {j \in kept : j <= k} = 1 .. k /\ k \in Nat
    <3> HIDE DEF kept, n
    <3>1. \A j : j \in 1 .. n /\ j <= k <=> j \in 1 .. k
      BY <1>1
    <3> QED
      BY <1>1, <1>2, <3>1
  <2> QED
    BY <1>3, <2>1
<1>5. Enclosing(s, i) = [m \in 1 .. Cardinality(kept) |-> s[CHOOSE h \in kept : upTo(h) = m]]
  BY DEF Enclosing
<1>6. Cardinality(kept) = n
  BY <1>1, <1>2, <1>3
<1> HIDE DEF kept, upTo, n
<1>7. \A m \in 1 .. n : (CHOOSE h \in kept : upTo(h) = m) = m
  BY <1>2, <1>4
<1>8. Enclosing(s, i) = [m \in 1 .. n |-> s[m]]
  BY <1>5, <1>6, <1>7
<1>9. \A m \in 1 .. n : s[m] \in Nat
  BY <1>0, <1>1
<1>10. Enclosing(s, i) \in Seq(Nat) /\ Len(Enclosing(s, i)) = n
      /\ \A k \in 1 .. n : Enclosing(s, i)[k] = s[k]
  BY <1>1, <1>8, <1>9
<1> QED
  BY <1>10 DEF n

-------------------------------------------------------------------------------
(* The messages at work, as tokens on a board *)

\* Handler w of message b has counted its branch at a Parallel End.
Past(w, b) == w.pc \in {"perform", "join", "joined"} /\ T[b.step] = "Parallel End"

\* What w does may still send messages: it has not sent them, and it is not a
\* Parallel End that waits for other branches.
Counts(w, b) ==
  /\ w.pc \notin {"idle", "close", "return"}
  /\ w.pc \in {"perform", "join"} /\ T[b.step] = "Parallel End" =>
       JoinReady(w.parallel, w.idx)

\* In queue q, message m waits, or is in the hands of such a handler; and its
\* scopes.
Live(q, w, m) ==
  \/ q[m].state = "queued"
  \/ q[m].state = "handled" /\ Counts(w, q[m].body)

Scopes(q, w, m) ==
  IF q[m].state = "handled" /\ Past(w, q[m].body)
  THEN Enclosing(q[m].body.idxs, w.idx)
  ELSE q[m].body.idxs

Token(q, w, out) ==
  {<<"mail", m>> : m \in {n \in Msg : Live(q, w, n)}} \union {<<"out", b>> : b \in out}

Board(q, w, out) ==
  [t \in Token(q, w, out) |->
     Trail(IF t[1] = "out" THEN t[2].idxs ELSE Scopes(q, w, t[2]))]

\* The token a message is, and the one a body held outside is.
LEMMA TokenIs ==
  ASSUME NEW q, NEW w, NEW out
  PROVE  /\ DOMAIN Board(q, w, out) = Token(q, w, out)
         /\ \A m : <<"mail", m>> \in Token(q, w, out) <=> m \in Msg /\ Live(q, w, m)
         /\ \A b : <<"out", b>> \in Token(q, w, out) <=> b \in out
         /\ \A t \in Token(q, w, out) :
              \/ \E m \in Msg : Live(q, w, m) /\ t = <<"mail", m>>
              \/ \E b \in out : t = <<"out", b>>
         /\ \A m \in Msg : Live(q, w, m) =>
              Board(q, w, out)[<<"mail", m>>] = Trail(Scopes(q, w, m))
         /\ \A b \in out : Board(q, w, out)[<<"out", b>>] = Trail(b.idxs)
<1>1. DOMAIN Board(q, w, out) = Token(q, w, out)
  BY DEF Board
<1>2. \A m : <<"mail", m>> \in Token(q, w, out) <=> m \in Msg /\ Live(q, w, m)
  BY DEF Token
<1>3. \A b : <<"out", b>> \in Token(q, w, out) <=> b \in out
  BY DEF Token
<1>4. \A t \in Token(q, w, out) :
        \/ \E m \in Msg : Live(q, w, m) /\ t = <<"mail", m>>
        \/ \E b \in out : t = <<"out", b>>
  <2> TAKE t \in Token(q, w, out)
  <2>1. CASE t \in {<<"mail", m>> : m \in {n \in Msg : Live(q, w, n)}}
    <3>1. PICK m \in {n \in Msg : Live(q, w, n)} : t = <<"mail", m>>
      BY <2>1
    <3> QED
      BY <3>1
  <2>2. CASE t \in {<<"out", b>> : b \in out}
    BY <2>2
  <2> QED
    BY <2>1, <2>2 DEF Token
<1>5. \A m \in Msg : Live(q, w, m) =>
        Board(q, w, out)[<<"mail", m>>] = Trail(Scopes(q, w, m))
  <2> TAKE m \in Msg
  <2> HAVE Live(q, w, m)
  <2>1. PICK t \in Token(q, w, out) : t = <<"mail", m>>
    BY <1>2
  <2>2. t[1] = "mail" /\ t[2] = m
    BY <2>1
  <2>3. Board(q, w, out)[t] = Trail(Scopes(q, w, m))
    BY <2>2 DEF Board
  <2> QED
    BY <2>1, <2>3
<1>6. \A b \in out : Board(q, w, out)[<<"out", b>>] = Trail(b.idxs)
  <2> TAKE b \in out
  <2>1. PICK t \in Token(q, w, out) : t = <<"out", b>>
    BY <1>3
  <2>2. t[1] = "out" /\ t[2] = b
    BY <2>1
  <2>3. Board(q, w, out)[t] = Trail(b.idxs)
    BY <2>2 DEF Board
  <2> QED
    BY <2>1, <2>3
<1> QED
  BY <1>1, <1>2, <1>3, <1>4, <1>5, <1>6

\* Nothing is on the board that was not there before.
LEMMA BoardLess ==
  ASSUME NEW P, P \in Seq(ParallelEntry),
         NEW q, NEW w, NEW out, ScopeInv(Board(q, w, out), P),
         NEW q2, NEW w2, NEW out2,
         \A m \in Msg : Live(q2, w2, m) =>
           Live(q, w, m) /\ Scopes(q2, w2, m) = Scopes(q, w, m),
         out2 \subseteq out
  PROVE  /\ ScopeInv(Board(q2, w2, out2), P)
         /\ \A i : Clear(Board(q, w, out), i) => Clear(Board(q2, w2, out2), i)
<1> DEFINE B == Board(q, w, out)
           B2 == Board(q2, w2, out2)
<1>1. ASSUME NEW x \in DOMAIN B2
      PROVE  x \in DOMAIN B /\ B2[x] = B[x]
  <2>1. \/ \E m \in Msg : Live(q2, w2, m) /\ x = <<"mail", m>>
        \/ \E b \in out2 : x = <<"out", b>>
    BY TokenIs
  <2>2. ASSUME NEW m \in Msg, Live(q2, w2, m), x = <<"mail", m>>
        PROVE  x \in DOMAIN B /\ B2[x] = B[x]
    <3>1. Live(q, w, m) /\ Scopes(q2, w2, m) = Scopes(q, w, m)
      BY <2>2
    <3>2. B2[<<"mail", m>>] = Trail(Scopes(q2, w2, m))
      BY <2>2, TokenIs
    <3>3. B[<<"mail", m>>] = Trail(Scopes(q, w, m)) /\ <<"mail", m>> \in DOMAIN B
      BY <3>1, TokenIs
    <3> QED
      BY <2>2, <3>1, <3>2, <3>3
  <2>3. ASSUME NEW b \in out2, x = <<"out", b>>
        PROVE  x \in DOMAIN B /\ B2[x] = B[x]
    <3>1. B2[<<"out", b>>] = Trail(b.idxs)
      BY TokenIs
    <3>2. B[<<"out", b>>] = Trail(b.idxs) /\ <<"out", b>> \in DOMAIN B
      BY TokenIs
    <3> QED
      BY <2>3, <3>1, <3>2
  <2> QED
    BY <2>1, <2>2, <2>3
<1> HIDE DEF B, B2
<1>2. DOMAIN B2 \subseteq DOMAIN B /\ \A x \in DOMAIN B2 : B2[x] = B[x]
  BY <1>1
<1>3. ScopeInv(B, P)
  BY DEF B
<1>4. ScopeInv(B2, P) /\ \A i : Clear(B, i) => Clear(B2, i)
  BY <1>2, <1>3, Dropped
<1> QED
  BY <1>4 DEF B, B2

\* What a token of the board is, in the terms of the queue.
LEMMA TokenCases ==
  ASSUME NEW q, NEW w, NEW out, NEW x \in DOMAIN Board(q, w, out)
  PROVE  \/ \E m \in Msg : /\ Live(q, w, m) /\ x = <<"mail", m>>
                           /\ Board(q, w, out)[x] = Trail(Scopes(q, w, m))
         \/ \E b \in out : x = <<"out", b>> /\ Board(q, w, out)[x] = Trail(b.idxs)
<1>1. \/ \E m \in Msg : Live(q, w, m) /\ x = <<"mail", m>>
      \/ \E b \in out : x = <<"out", b>>
  BY TokenIs
<1>2. ASSUME NEW m \in Msg, Live(q, w, m), x = <<"mail", m>>
      PROVE  Board(q, w, out)[x] = Trail(Scopes(q, w, m))
  BY <1>2, TokenIs
<1>3. ASSUME NEW b \in out, x = <<"out", b>>
      PROVE  Board(q, w, out)[x] = Trail(b.idxs)
  BY <1>3, TokenIs
<1> QED
  BY <1>1, <1>2, <1>3

\* A token that stays on the board keeps its trail.
LEMMA MailStays ==
  ASSUME NEW q, NEW w, NEW out, NEW q2, NEW w2, NEW m \in Msg,
         Live(q, w, m), Scopes(q2, w2, m) = Scopes(q, w, m), NEW x, x = <<"mail", m>>
  PROVE  x \in DOMAIN Board(q, w, out) /\ Board(q, w, out)[x] = Trail(Scopes(q2, w2, m))
<1>1. Board(q, w, out)[<<"mail", m>>] = Trail(Scopes(q, w, m))
      /\ <<"mail", m>> \in DOMAIN Board(q, w, out)
  BY TokenIs
<1> QED
  BY <1>1

LEMMA OutStays ==
  ASSUME NEW q, NEW w, NEW out, NEW b \in out, NEW x, x = <<"out", b>>
  PROVE  x \in DOMAIN Board(q, w, out) /\ Board(q, w, out)[x] = Trail(b.idxs)
<1>1. Board(q, w, out)[<<"out", b>>] = Trail(b.idxs)
      /\ <<"out", b>> \in DOMAIN Board(q, w, out)
  BY TokenIs
<1> QED
  BY <1>1

\* Queue q2, handler w2 and out2 come after q, w and out: token t is gone, those
\* of S have come, all with the same trail, and the rest is as it was.
Handover(q, w, out, q2, w2, out2, t, S, trail) ==
  /\ \A m \in Msg : Live(q2, w2, m) =>
       IF <<"mail", m>> \in S THEN Trail(Scopes(q2, w2, m)) = trail
       ELSE /\ <<"mail", m>> # t /\ Live(q, w, m)
            /\ Scopes(q2, w2, m) = Scopes(q, w, m)
  /\ \A b \in out2 :
       IF <<"out", b>> \in S THEN Trail(b.idxs) = trail
       ELSE <<"out", b>> # t /\ b \in out

LEMMA BoardAfter ==
  ASSUME NEW q, NEW w, NEW out, NEW q2, NEW w2, NEW out2, NEW t, NEW S, NEW trail,
         Handover(q, w, out, q2, w2, out2, t, S, trail)
  PROVE  /\ DOMAIN Board(q2, w2, out2) \subseteq (DOMAIN Board(q, w, out) \ {t}) \union S
         /\ \A x \in DOMAIN Board(q2, w2, out2) :
              Board(q2, w2, out2)[x] = IF x \in S THEN trail ELSE Board(q, w, out)[x]
<1> DEFINE B == Board(q, w, out)
           B2 == Board(q2, w2, out2)
<1>1. ASSUME NEW x \in DOMAIN B2
      PROVE  IF x \in S THEN B2[x] = trail
             ELSE x # t /\ x \in DOMAIN B /\ B2[x] = B[x]
  <2>1. ASSUME NEW m \in Msg, Live(q2, w2, m), x = <<"mail", m>>,
               B2[x] = Trail(Scopes(q2, w2, m))
        PROVE  IF x \in S THEN B2[x] = trail
               ELSE x # t /\ x \in DOMAIN B /\ B2[x] = B[x]
    <3>1. CASE x \in S
      BY <2>1, <3>1 DEF Handover
    <3>2. CASE x \notin S
      <4>1. x # t /\ Live(q, w, m) /\ Scopes(q2, w2, m) = Scopes(q, w, m)
        BY <2>1, <3>2 DEF Handover
      <4>2. x \in DOMAIN B /\ B[x] = Trail(Scopes(q2, w2, m))
        BY <2>1, <4>1, MailStays
      <4> QED
        BY <2>1, <3>2, <4>1, <4>2
    <3> QED
      BY <3>1, <3>2
  <2>2. ASSUME NEW b \in out2, x = <<"out", b>>, B2[x] = Trail(b.idxs)
        PROVE  IF x \in S THEN B2[x] = trail
               ELSE x # t /\ x \in DOMAIN B /\ B2[x] = B[x]
    <3>1. CASE x \in S
      BY <2>2, <3>1 DEF Handover
    <3>2. CASE x \notin S
      <4>1. x # t /\ b \in out
        BY <2>2, <3>2 DEF Handover
      <4>2. x \in DOMAIN B /\ B[x] = Trail(b.idxs)
        BY <2>2, <4>1, OutStays
      <4> QED
        BY <2>2, <3>2, <4>1, <4>2
    <3> QED
      BY <3>1, <3>2
  <2> QED
    BY <2>1, <2>2, TokenCases
<1> HIDE DEF B, B2
<1>2. /\ DOMAIN B2 \subseteq (DOMAIN B \ {t}) \union S
      /\ \A x \in DOMAIN B2 : B2[x] = IF x \in S THEN trail ELSE B[x]
  BY <1>1
<1> QED
  BY <1>2 DEF B, B2

\* A token hands on to another one in the same scopes.
LEMMA BoardMoves ==
  ASSUME NEW P, P \in Seq(ParallelEntry),
         NEW q, NEW w, NEW out, ScopeInv(Board(q, w, out), P),
         NEW q2, NEW w2, NEW out2, NEW t \in DOMAIN Board(q, w, out), NEW u,
         Handover(q, w, out, q2, w2, out2, t, {u}, Board(q, w, out)[t])
  PROVE  /\ ScopeInv(Board(q2, w2, out2), P)
         /\ \A i : Clear(Board(q, w, out), i) => Clear(Board(q2, w2, out2), i)
<1>1. PICK B : B = Board(q, w, out)
  OBVIOUS
<1>2. PICK B2 : B2 = Board(q2, w2, out2)
  OBVIOUS
<1>0. PICK S : S = {u}
  OBVIOUS
<1>9. Handover(q, w, out, q2, w2, out2, t, S, Board(q, w, out)[t])
  BY <1>0
<1>3. /\ DOMAIN Board(q2, w2, out2) \subseteq (DOMAIN Board(q, w, out) \ {t}) \union S
      /\ \A x \in DOMAIN Board(q2, w2, out2) : Board(q2, w2, out2)[x] =
           IF x \in S THEN Board(q, w, out)[t] ELSE Board(q, w, out)[x]
  BY <1>9, BoardAfter
<1>4. /\ DOMAIN B2 \subseteq (DOMAIN B \ {t}) \union {u}
      /\ \A x \in DOMAIN B2 : B2[x] = IF x = u THEN B[t] ELSE B[x]
  BY <1>0, <1>1, <1>2, <1>3
<1>5. ScopeInv(B, P) /\ t \in DOMAIN B
  BY <1>1
<1>6. ScopeInv(B2, P) /\ \A i : Clear(B, i) => Clear(B2, i)
  BY <1>4, <1>5, Replaced
<1> QED
  BY <1>1, <1>2, <1>6

\* A token hands on to the branches of scope n.
LEMMA BoardForks ==
  ASSUME NEW P, P \in Seq(ParallelEntry),
         NEW q, NEW w, NEW out, ScopeInv(Board(q, w, out), P),
         NEW q2, NEW w2, NEW out2, NEW t \in DOMAIN Board(q, w, out),
         NEW n \in DOMAIN P, P[n].active, P[n].finished = 0, Clear(Board(q, w, out), n),
         \A k \in DOMAIN Board(q, w, out)[t] : Board(q, w, out)[t][k] < n,
         NEW S, IsFiniteSet(S), Cardinality(S) <= P[n].total,
         Handover(q, w, out, q2, w2, out2, t, S, Append(Board(q, w, out)[t], n))
  PROVE  ScopeInv(Board(q2, w2, out2), P)
<1>1. PICK B : B = Board(q, w, out)
  OBVIOUS
<1>2. PICK B2 : B2 = Board(q2, w2, out2)
  OBVIOUS
<1>7. PICK trail : trail = Append(Board(q, w, out)[t], n)
  OBVIOUS
<1>8. Handover(q, w, out, q2, w2, out2, t, S, trail)
  BY <1>7
<1>3. /\ DOMAIN Board(q2, w2, out2) \subseteq (DOMAIN Board(q, w, out) \ {t}) \union S
      /\ \A x \in DOMAIN Board(q2, w2, out2) : Board(q2, w2, out2)[x] =
           IF x \in S THEN trail ELSE Board(q, w, out)[x]
  BY <1>8, BoardAfter
<1>4. /\ DOMAIN B2 \subseteq (DOMAIN B \ {t}) \union S
      /\ \A x \in DOMAIN B2 : B2[x] = IF x \in S THEN Append(B[t], n) ELSE B[x]
  BY <1>1, <1>2, <1>3, <1>7
<1>5. /\ ScopeInv(B, P) /\ t \in DOMAIN B /\ Clear(B, n)
      /\ \A k \in DOMAIN B[t] : B[t][k] < n
  BY <1>1
<1>6. ScopeInv(B2, P)
  BY <1>4, <1>5, Forked
<1> QED
  BY <1>2, <1>6

\* A token leaves the scope it is in, and is counted there.
LEMMA BoardArrives ==
  ASSUME NEW P, P \in Seq(ParallelEntry),
         NEW q, NEW w, NEW out, ScopeInv(Board(q, w, out), P),
         NEW q2, NEW w2, NEW out2, NEW t \in DOMAIN Board(q, w, out),
         NEW j \in DOMAIN P, j = Board(q, w, out)[t][Len(Board(q, w, out)[t])],
         NEW P2, P2 = Arrive(P, j), NEW trail,
         Handover(q, w, out, q2, w2, out2, t, {}, trail)
  PROVE  ScopeInv(Board(q2, w2, out2), P2)
<1>1. PICK B : B = Board(q, w, out)
  OBVIOUS
<1>2. PICK B2 : B2 = Board(q2, w2, out2)
  OBVIOUS
<1>3. PICK S : S = {}
  OBVIOUS
<1>4. Handover(q, w, out, q2, w2, out2, t, S, trail)
  BY <1>3
<1>5. /\ DOMAIN Board(q2, w2, out2) \subseteq (DOMAIN Board(q, w, out) \ {t}) \union S
      /\ \A x \in DOMAIN Board(q2, w2, out2) : Board(q2, w2, out2)[x] =
           IF x \in S THEN trail ELSE Board(q, w, out)[x]
  BY <1>4, BoardAfter
<1>6. DOMAIN B2 \subseteq DOMAIN B \ {t} /\ \A x \in DOMAIN B2 : B2[x] = B[x]
  BY <1>1, <1>2, <1>3, <1>5
<1>7. ScopeInv(B, P) /\ t \in DOMAIN B /\ j = B[t][Len(B[t])]
  BY <1>1
<1>8. ScopeInv(B2, P2)
  BY <1>6, <1>7, Arrived
<1> QED
  BY <1>2, <1>8

\* The last token of its scope is counted, and goes on in the enclosing ones.
LEMMA BoardCloses ==
  ASSUME NEW P, P \in Seq(ParallelEntry),
         NEW q, NEW w, NEW out, ScopeInv(Board(q, w, out), P),
         NEW q2, NEW w2, NEW out2, NEW t \in DOMAIN Board(q, w, out),
         NEW j \in DOMAIN P, NEW P2, P2 = Arrive(P, j), JoinReady(P2, j),
         NEW trail, LastOf(Board(q, w, out)[t], j, trail),
         Handover(q, w, out, q2, w2, out2, t, {t}, trail)
  PROVE  ScopeInv(Board(q2, w2, out2), P2) /\ Clear(Board(q2, w2, out2), j)
<1>1. PICK B : B = Board(q, w, out)
  OBVIOUS
<1>2. PICK B2 : B2 = Board(q2, w2, out2)
  OBVIOUS
<1>5. /\ DOMAIN Board(q2, w2, out2) \subseteq (DOMAIN Board(q, w, out) \ {t}) \union {t}
      /\ \A x \in DOMAIN Board(q2, w2, out2) : Board(q2, w2, out2)[x] =
           IF x \in {t} THEN trail ELSE Board(q, w, out)[x]
  BY BoardAfter
<1>6. DOMAIN B2 \subseteq DOMAIN B
      /\ \A x \in DOMAIN B2 : B2[x] = IF x = t THEN trail ELSE B[x]
  BY <1>1, <1>2, <1>5
<1>7. ScopeInv(B, P) /\ t \in DOMAIN B /\ LastOf(B[t], j, trail)
  BY <1>1
<1>8. ScopeInv(B2, P2) /\ Clear(B2, j)
  BY <1>6, <1>7, LastArrived
<1> QED
  BY <1>2, <1>8

-------------------------------------------------------------------------------
(* The inductive invariant, on the state *)

\* Nothing throws, no step fails by its content, no process dies, no user calls.
Undisturbed ==
  Budget.throws = 0 /\ Fragile = {} /\ Budget.crashes = 0 /\ Budget.users = 0

\* What is known of a message: it is in as many scopes as its step is deep, the
\* last of them is its parallelIndex, and its loop turns where it began.
NestedBody(b, depth, loops) ==
  /\ b.step \in Step /\ b.exec = 1 /\ b.parent = None
  /\ b.idxs \in Seq(Nat) /\ Len(b.idxs) = depth[b.step] /\ b.idx = Innermost(b.idxs)
  /\ \A k, l \in DOMAIN b.idxs : k < l => b.idxs[k] < b.idxs[l]
  /\ b.decision = "none" /\ ~b.rerun
  /\ b.loop # None => b.loop.first \in loops[b.step]

\* A Parallel Start that has pushed its entry.
Opened(w, b) == T[b.step] = "Parallel Start" /\ w.pc # "parallel"

\* The places where a handler's own scopes and next steps matter.
Scoping == {"external", "parallel", "perform", "error", "onError", "delay", "join", "joined", "emit"}

\* Where a handler of b can be, and what it carries there.
Placed(w, b) ==
  /\ w.pc \notin {"undefined", "rerun", "resume", "resumed", "child", "sendChild"}
  /\ w.pc = "end" => T[b.step] = "End"
  /\ w.pc \notin {"idle", "end", "return"} => T[b.step] # "End"
  /\ w.pc \in Scoping =>
       /\ Opened(w, b) => w.idxs = Append(b.idxs, w.idx)
       /\ ~Opened(w, b) => w.idxs = b.idxs /\ w.idx = b.idx
  /\ w.pc = "loop" => LoopsAgain(b)
  /\ w.pc = "parallel" => T[b.step] \in {"Parallel Start", "Parallel End"}
  /\ w.pc \in {"join", "joined"} => T[b.step] = "Parallel End"
  /\ w.pc = "delay" => T[b.step] = "Delay"
  /\ w.pc \in {"error", "onError"} => T[b.step] = "Web Service"
  /\ w.pc \in {"emit", "external"} => T[b.step] # "Parallel End"
  /\ w.pc \in {"error", "onError", "delay", "join", "joined", "emit"} =>
       IF T[b.step] = "Condition"
       THEN \E s \in ToSet(NAID[b.step]) : w.next = <<s>>
       ELSE w.next = NAID[b.step]

\* The scopes of handler w of message b in list P, when the board is B.
Scoped(w, b, P, B) ==
  /\ w.pc \notin {"idle", "close", "return", "joined"} => IsTrail(Trail(b.idxs), P)
  /\ w.pc \in {"perform", "emit"} /\ T[b.step] = "Parallel Start" =>
       /\ w.idx \in DOMAIN P /\ Clear(B, w.idx)
       /\ \A k \in DOMAIN b.idxs : b.idxs[k] < w.idx
       /\ P[w.idx] = [active |-> TRUE, total |-> Len(NAID[b.step]), finished |-> 0]
  /\ w.pc \in {"perform", "join"} /\ T[b.step] = "Parallel End" /\ JoinReady(P, w.idx) =>
       Clear(B, w.idx)
  /\ w.pc = "joined" => Clear(B, w.idx)

\* The one consumer holds every message that is handled.
Held(c) ==
  \A m \in Msg : mail[m].state = "handled" => ~At(c, "idle") /\ worker[c].msg = m

\* Once End has run, nothing but Ends is left.
EndInv ==
  Len(First) <= 1 /\ exec[1].status = "Finished" =>
    outside = {} /\ \A m \in Msg : Alive(m) => T[mail[m].body.step] = "End"

NestInv(c, depth, loops) ==
  /\ budget \in [throws: {0}, crashes: {0}, losses: Nat, users: {0}]
  /\ \A m \in Used : NestedBody(mail[m].body, depth, loops)
  /\ \A b \in outside : NestedBody(b, depth, loops)
  /\ \A e \in Exec \ {1} : exec[e].status = "none" /\ exec[e].parallel = << >>
  /\ Held(c)
  /\ Placed(worker[c], Body(c))
  /\ Scoped(worker[c], Body(c), exec[1].parallel, Board(mail, worker[c], outside))
  /\ ScopeInv(Board(mail, worker[c], outside), exec[1].parallel)
  /\ EndInv

\* A scope that was clear on one board is clear on the next.
LEMMA ScopedKept ==
  ASSUME NEW w, NEW b, NEW P, NEW B, NEW B2, Scoped(w, b, P, B),
         \A i : Clear(B, i) => Clear(B2, i)
  PROVE  Scoped(w, b, P, B2)
BY DEF Scoped

\* What is known of the handler at work.
LEMMA NestKnown ==
  ASSUME NEW c, Consumer = {c}, NEW depth, NEW loops, NEW D, Inv(D), NestInv(c, depth, loops),
         ~At(c, "idle")
  PROVE  /\ worker[c].msg \in Used /\ worker[c].msg \in Msg
         /\ mail[worker[c].msg].state = "handled"
         /\ NestedBody(Body(c), depth, loops) /\ Fits(worker[c])
         /\ worker = [x \in Consumer |-> worker[x]]
         /\ worker[c] = [f \in HandlerField |-> worker[c][f]]
         /\ Body(c) = [f \in DetailField |-> Body(c)[f]]
<1>1. c \in Consumer
  OBVIOUS
<1>2. Fits(worker[c]) /\ worker[c].msg \in Used /\ Sound(Body(c))
  BY <1>1, Handling
<1>3. NestedBody(Body(c), depth, loops)
  BY <1>2 DEF NestInv, Body
<1>4. worker = [x \in Consumer |-> worker[x]]
  BY DEF Inv, WorkerInv
<1> QED
  BY <1>2, <1>3, <1>4 DEF Fits, At, Sound, IsDetail

\* The list of the execution.
LEMMA OwnList ==
  ASSUME NEW D, Inv(D)
  PROVE  /\ exec[1].parallel \in Seq(ParallelEntry) /\ 1 \in Exec
         /\ exec = [e \in Exec |-> exec[e]]
BY WorkflowAssumption DEF WorkflowAssumption, Inv, ExecOK

\* The handler's message is on the board while it counts.
LEMMA OwnToken ==
  ASSUME NEW c, NEW m \in Msg, m = worker[c].msg, mail[m].state = "handled",
         Counts(worker[c], Body(c)), NEW t, t = <<"mail", m>>
  PROVE  /\ t \in DOMAIN Board(mail, worker[c], outside)
         /\ Board(mail, worker[c], outside)[t] =
              Trail(IF Past(worker[c], Body(c))
                    THEN Enclosing(Body(c).idxs, worker[c].idx) ELSE Body(c).idxs)
<1>1. mail[m].body = Body(c)
  BY DEF Body
<1>2. Live(mail, worker[c], m)
  BY <1>1 DEF Live
<1>3. Scopes(mail, worker[c], m) =
        IF Past(worker[c], Body(c))
        THEN Enclosing(Body(c).idxs, worker[c].idx) ELSE Body(c).idxs
  BY <1>1 DEF Scopes
<1>4. <<"mail", m>> \in DOMAIN Board(mail, worker[c], outside)
      /\ Board(mail, worker[c], outside)[<<"mail", m>>] = Trail(Scopes(mail, worker[c], m))
  BY <1>2, TokenIs
<1> QED
  BY <1>3, <1>4

\* Before End has run, while the handler is on its way.
LEMMA NotFinished ==
  ASSUME NEW c, Consumer = {c}, NEW depth, NEW loops, NEW D, Inv(D), NestInv(c, depth, loops),
         worker[c].pc \notin {"idle", "end", "return"}, Len(First) <= 1
  PROVE  exec[1].status # "Finished"
<1>1. ~At(c, "idle")
  BY DEF At
<1>2. worker[c].msg \in Msg /\ Alive(worker[c].msg)
  BY <1>1, NestKnown DEF Alive
<1>3. T[mail[worker[c].msg].body.step] # "End"
  BY DEF NestInv, Placed, Body
<1> QED
  BY <1>2, <1>3 DEF NestInv, EndInv

\* What the queue is after messages of S were sent.
Sent(S) ==
  /\ \A m \in Used : mail'[m] = mail[m]
  /\ \A m \in Msg \ Used : \/ mail'[m].state = "unsent"
                           \/ mail'[m].state = "queued" /\ mail'[m].body \in S

\* A step of the handler that keeps its message: the parts of the invariant that
\* follow from what it sends.
LEMMA NestStep ==
  ASSUME NEW c, Consumer = {c}, NEW depth, NEW loops, NEW D, Inv(D), NestInv(c, depth, loops),
         worker[c].pc \notin {"idle", "end", "return"},
         worker'[c].msg = worker[c].msg, worker'[c].pc # "idle",
         NEW S, Sent(S),
         \A d \in S : NestedBody(d, depth, loops), outside' \subseteq outside \union S,
         \/ budget' = budget
         \/ budget.losses > 0 /\ budget' = [budget EXCEPT !.losses = @ - 1],
         \A e \in Exec \ {1} : exec'[e] = exec[e],
         exec'[1].status = "Finished" => exec[1].status = "Finished",
         Placed(worker'[c], Body(c)),
         NEW q2, NEW w2, NEW out2, q2 = mail', w2 = worker'[c], out2 = outside',
         Scoped(w2, Body(c), exec'[1].parallel, Board(q2, w2, out2)),
         ScopeInv(Board(q2, w2, out2), exec'[1].parallel)
  PROVE  NestInv(c, depth, loops)'
<1>1. ~At(c, "idle")
  BY DEF At
<1>2. worker[c].msg \in Used
  BY <1>1, NestKnown
<1>3. Body(c)' = Body(c)
  BY <1>2 DEF Body, Sent
<1>4. budget' \in [throws: {0}, crashes: {0}, losses: Nat, users: {0}]
  <2>1. PICK n : n = budget.losses - 1
    OBVIOUS
  <2>2. budget.losses > 0 => n \in Nat
    BY <2>1 DEF NestInv
  <2>3. CASE budget' = budget
    BY <2>3 DEF NestInv
  <2>4. CASE budget.losses > 0 /\ budget' = [budget EXCEPT !.losses = @ - 1]
    <3>1. budget' = [budget EXCEPT !.losses = n]
      BY <2>1, <2>4
    <3> QED
      BY <2>2, <2>4, <3>1 DEF NestInv
  <2> QED
    BY <2>3, <2>4
<1>5. /\ \A m \in Used' : NestedBody(mail'[m].body, depth, loops)
      /\ \A b \in outside' : NestedBody(b, depth, loops)
  BY DEF NestInv, Sent, Used
<1>6. \A e \in Exec \ {1} : exec'[e].status = "none" /\ exec'[e].parallel = << >>
  BY DEF NestInv
<1>7. Held(c)'
  <2> SUFFICES ASSUME NEW m \in Msg, mail'[m].state = "handled"
               PROVE  worker'[c].pc # "idle" /\ worker'[c].msg = m
    BY DEF Held, At
  <2>1. CASE m \in Used
    BY <2>1 DEF NestInv, Held, Sent, At
  <2>2. CASE m \notin Used
    BY <2>2 DEF Sent
  <2> QED
    BY <2>1, <2>2
<1>8. EndInv'
  BY NotFinished DEF EndInv
<1>9. Placed(worker[c], Body(c))'
  BY <1>3
<1>10. Scoped(worker[c], Body(c), exec[1].parallel, Board(mail, worker[c], outside))'
       /\ ScopeInv(Board(mail, worker[c], outside), exec[1].parallel)'
  BY <1>3
<1> QED
  BY <1>4, <1>5, <1>6, <1>7, <1>8, <1>9, <1>10 DEF NestInv

\* Nothing is sent, and the handler counts for no more than before.
LEMMA BoardStill ==
  ASSUME NEW c, Consumer = {c}, NEW depth, NEW loops, NEW D, Inv(D), NestInv(c, depth, loops),
         ~At(c, "idle"),
         NEW P, P \in Seq(ParallelEntry), ScopeInv(Board(mail, worker[c], outside), P),
         NEW w2, Counts(w2, Body(c)) =>
                   /\ Counts(worker[c], Body(c))
                   /\ Past(w2, Body(c)) <=> Past(worker[c], Body(c))
                   /\ Past(w2, Body(c)) => w2.idx = worker[c].idx
  PROVE  /\ ScopeInv(Board(mail, w2, outside), P)
         /\ \A i : Clear(Board(mail, worker[c], outside), i) => Clear(Board(mail, w2, outside), i)
<1>1. ASSUME NEW m \in Msg, Live(mail, w2, m)
      PROVE  Live(mail, worker[c], m) /\ Scopes(mail, w2, m) = Scopes(mail, worker[c], m)
  <2>1. CASE mail[m].state = "queued"
    BY <2>1 DEF Live, Scopes
  <2>2. CASE mail[m].state # "queued"
    <3>1. mail[m].state = "handled" /\ Counts(w2, mail[m].body)
      BY <1>1, <2>2 DEF Live
    <3>2. worker[c].msg = m
      BY <3>1 DEF NestInv, Held
    <3>3. mail[m].body = Body(c)
      BY <3>2 DEF Body
    <3> QED
      BY <3>1, <3>3 DEF Live, Scopes
  <2> QED
    BY <2>1, <2>2
<1>2. outside \subseteq outside
  OBVIOUS
<1> QED
  BY <1>1, <1>2, BoardLess

\* A step of the handler that sends nothing.
LEMMA NestQuiet ==
  ASSUME NEW c, Consumer = {c}, NEW depth, NEW loops, NEW D, Inv(D), NestInv(c, depth, loops),
         worker[c].pc \notin {"idle", "end", "return"}, UNCHANGED <<mail, outside, budget>>,
         NEW w2, w2 = worker'[c], w2.msg = worker[c].msg, w2.pc # "idle",
         \A e \in Exec \ {1} : exec'[e] = exec[e],
         exec'[1].status = "Finished" => exec[1].status = "Finished",
         NEW P2, P2 = exec'[1].parallel, P2 \in Seq(ParallelEntry),
         ScopeInv(Board(mail, worker[c], outside), P2),
         Counts(w2, Body(c)) =>
           /\ Counts(worker[c], Body(c))
           /\ Past(w2, Body(c)) <=> Past(worker[c], Body(c))
           /\ Past(w2, Body(c)) => w2.idx = worker[c].idx,
         Placed(w2, Body(c)),
         Scoped(w2, Body(c), P2, Board(mail, worker[c], outside))
  PROVE  NestInv(c, depth, loops)'
<1>1. ~At(c, "idle")
  BY DEF At
<1>2. /\ ScopeInv(Board(mail, w2, outside), P2)
      /\ \A i : Clear(Board(mail, worker[c], outside), i) => Clear(Board(mail, w2, outside), i)
  BY <1>1, BoardStill
<1>3. Scoped(w2, Body(c), P2, Board(mail, w2, outside))
  BY <1>2, ScopedKept
<1>4. Sent({})
  BY DEF Sent, Used
<1>5. \A d \in {} : NestedBody(d, depth, loops)
  OBVIOUS
<1>6. PICK S : S = {}
  OBVIOUS
<1>7. Sent(S) /\ \A d \in S : NestedBody(d, depth, loops)
  BY <1>4, <1>5, <1>6
<1>8. PICK q2 : q2 = mail'
  OBVIOUS
<1>9. PICK out2 : out2 = outside'
  OBVIOUS
<1>10. /\ Scoped(w2, Body(c), exec'[1].parallel, Board(q2, w2, out2))
       /\ ScopeInv(Board(q2, w2, out2), exec'[1].parallel)
  BY <1>2, <1>3, <1>8, <1>9
<1>11. outside' \subseteq outside \union S
  OBVIOUS
<1> QED
  BY <1>7, <1>8, <1>9, <1>10, <1>11, NestStep

-------------------------------------------------------------------------------
(* What is sent *)

\* The messages that a delivery adds.
New == {m \in Msg \ Used : mail'[m].state = "queued"}

LEMMA Delivered ==
  ASSUME MailInv, NEW S, IsFiniteSet(S), mail' = Deliver(S)
  PROVE  Sent(S) /\ IsFiniteSet(New) /\ Cardinality(New) <= Cardinality(S)
         /\ Cardinality(S) \in Nat
<1> DEFINE q == SetToSeq(S)
           k == Len(q)
<1>1. k \in Nat /\ k = Cardinality(S) /\ q \in [1 .. k -> S]
  BY SetToSeqType
<1>2. PICK n \in Nat : Used = 1 .. n
  BY DEF MailInv
<1>3. Cardinality(Used) = n
  BY <1>2, FS_Interval
<1> HIDE DEF q, k
<1>4. mail' = [m \in Msg |-> IF m > n /\ m <= n + k
                  THEN [state |-> "queued", receives |-> 0, body |-> q[m - n]]
                  ELSE mail[m]]
  BY <1>3 DEF Deliver, q, k
<1>5. \A m \in Used : m \in Msg /\ m \in 1 .. n
  BY <1>2 DEF Used
<1>6. \A m \in Used : mail'[m] = mail[m]
  BY <1>2, <1>4, <1>5
<1>7. ASSUME NEW m \in Msg \ Used
      PROVE  \/ mail'[m].state = "unsent"
             \/ mail'[m].state = "queued" /\ mail'[m].body \in S /\ m \in (n + 1) .. (n + k)
  <2>1. m \in Nat \ {0} /\ mail[m].state = "unsent" /\ m \notin 1 .. n
    BY <1>2, MsgFacts DEF Used
  <2>2. CASE m > n /\ m <= n + k
    <3>1. m - n \in 1 .. k /\ m \in (n + 1) .. (n + k)
      BY <1>1, <2>1, <2>2
    <3>2. q[m - n] \in S
      BY <1>1, <3>1
    <3>3. mail'[m] = [state |-> "queued", receives |-> 0, body |-> q[m - n]]
      BY <1>4, <2>2
    <3> QED
      BY <3>1, <3>2, <3>3
  <2>3. CASE ~(m > n /\ m <= n + k)
    BY <1>4, <2>1, <2>3
  <2> QED
    BY <2>2, <2>3
<1>8. Sent(S)
  BY <1>6, <1>7 DEF Sent
<1>9. New \subseteq (n + 1) .. (n + k)
  BY <1>7 DEF New
<1>10. n + 1 \in Int /\ n + k \in Int /\ (n + k) - (n + 1) + 1 = k
  BY <1>1
<1>11. IsFiniteSet((n + 1) .. (n + k)) /\ Cardinality((n + 1) .. (n + k)) = k
  <2>1. PICK a \in Int : a = n + 1
    BY <1>10
  <2>2. PICK z \in Int : z = n + k
    BY <1>10
  <2>3. IsFiniteSet(a .. z) /\ Cardinality(a .. z) = IF a > z THEN 0 ELSE z - a + 1
    BY FS_Interval
  <2> QED
    BY <1>1, <2>1, <2>2, <2>3
<1>12. IsFiniteSet(New) /\ Cardinality(New) <= k
  BY <1>9, <1>11, NoMore
<1> QED
  BY <1>1, <1>8, <1>12

\* The tokens of messages.
Tokens(N) == {<<"mail", m>> : m \in N}

LEMMA MailTokens ==
  ASSUME NEW N, IsFiniteSet(N)
  PROVE  IsFiniteSet(Tokens(N)) /\ Cardinality(Tokens(N)) <= Cardinality(N)
<1> DEFINE O == Tokens(N)
           f == [x \in N |-> <<"mail", x>>]
<1>1. f \in Surjection(N, O)
  BY DEF Surjection, Tokens
<1> HIDE DEF f, O
<1>2. IsFiniteSet(O) /\ Cardinality(O) <= Cardinality(N)
  BY <1>1, FS_Surjection
<1> QED
  BY <1>2 DEF O

\* putEventsEB, in the terms of the board: the events arrive, or none does.
LEMMA EventsSent ==
  ASSUME MailInv, NEW S, IsFiniteSet(S), PutEvents(S)
  PROVE  /\ Sent(S) /\ IsFiniteSet(New) /\ Cardinality(New) <= Cardinality(S)
         /\ Cardinality(S) \in Nat
         /\ \/ budget' = budget
            \/ budget.losses > 0 /\ budget' = [budget EXCEPT !.losses = @ - 1]
<1>1. CASE mail' = Deliver(S) /\ UNCHANGED budget
  BY <1>1, Delivered
<1>2. CASE UNCHANGED mail /\ budget.losses > 0
           /\ budget' = [budget EXCEPT !.losses = @ - 1]
  <2>1. Sent(S) /\ New = {}
    BY <1>2 DEF Sent, New, Used
  <2>2. IsFiniteSet(New) /\ Cardinality(New) = 0 /\ Cardinality(S) \in Nat
    BY <2>1, FS_EmptySet, FS_CardinalityType
  <2> QED
    BY <1>2, <2>1, <2>2
<1> QED
  BY <1>1, <1>2 DEF PutEvents

\* The handler has emitted, and its token hands on to those of the new messages.
LEMMA Emission ==
  ASSUME NEW c, Consumer = {c}, NEW depth, NEW loops, NEW D, Inv(D), NestInv(c, depth, loops),
         ~At(c, "idle"), NEW S, Sent(S),
         NEW w2, w2.pc \in {"close", "return"},
         NEW trail, \A d \in S : Trail(d.idxs) = trail,
         NEW q2, q2 = mail', NEW t, t = <<"mail", worker[c].msg>>,
         NEW N, N = Tokens(New)
  PROVE  Handover(mail, worker[c], outside, q2, w2, outside, t, N, trail)
<1>1. ASSUME NEW m \in Msg, Live(q2, w2, m)
      PROVE  IF <<"mail", m>> \in N THEN Trail(Scopes(q2, w2, m)) = trail
             ELSE /\ <<"mail", m>> # t /\ Live(mail, worker[c], m)
                  /\ Scopes(q2, w2, m) = Scopes(mail, worker[c], m)
  <2>1. q2[m].state = "queued" /\ Scopes(q2, w2, m) = q2[m].body.idxs
    BY <1>1 DEF Live, Counts, Scopes
  <2>2. CASE m \in Used
    <3>1. q2[m] = mail[m] /\ <<"mail", m>> \notin N
      BY <2>2 DEF Sent, New, Tokens
    <3>2. m # worker[c].msg
      BY <2>1, <3>1, NestKnown
    <3>3. <<"mail", m>> # t
      BY <3>2
    <3>4. Live(mail, worker[c], m) /\ Scopes(mail, worker[c], m) = mail[m].body.idxs
      BY <2>1, <3>1 DEF Live, Scopes
    <3> QED
      BY <2>1, <3>1, <3>3, <3>4
  <2>3. CASE m \notin Used
    <3>1. m \in New /\ q2[m].body \in S
      BY <2>1, <2>3 DEF Sent, New
    <3>2. <<"mail", m>> \in N
      BY <3>1 DEF Tokens
    <3> QED
      BY <2>1, <3>1, <3>2
  <2> QED
    BY <2>2, <2>3
<1>2. ASSUME NEW b \in outside
      PROVE  IF <<"out", b>> \in N THEN Trail(b.idxs) = trail
             ELSE <<"out", b>> # t /\ b \in outside
  <2>1. <<"out", b>> \notin N
    <3> SUFFICES ASSUME NEW m, <<"out", b>> = <<"mail", m>> PROVE FALSE
      BY DEF Tokens
    <3> QED
      OBVIOUS
  <2> QED
    BY <2>1
<1> QED
  BY <1>1, <1>2 DEF Handover

\* At most one thing: nothing, or just one.
LEMMA AtMostOne ==
  ASSUME NEW N, IsFiniteSet(N), Cardinality(N) <= 1
  PROVE  N = {} \/ \E u : N = {u}
<1>1. Cardinality(N) \in Nat
  BY FS_CardinalityType
<1>2. CASE Cardinality(N) = 0
  BY <1>2, FS_EmptySet
<1>3. CASE Cardinality(N) = 1
  BY <1>3, FS_Singleton
<1> QED
  BY <1>1, <1>2, <1>3

\* A handler that still counts emits at most one message, in its own scopes.
LEMMA NestEmit ==
  ASSUME NEW c, Consumer = {c}, NEW depth, NEW loops, NEW D, Inv(D), NestInv(c, depth, loops),
         worker[c].pc \notin {"idle", "end", "return"}, Counts(worker[c], Body(c)),
         UNCHANGED <<exec, outside>>,
         NEW p \in {"close", "return"}, Goto(c, p),
         NEW S, IsFiniteSet(S), Cardinality(S) <= 1, PutEvents(S),
         \A d \in S : NestedBody(d, depth, loops),
         \A d \in S : Trail(d.idxs) = Trail(IF Past(worker[c], Body(c))
                                            THEN Enclosing(Body(c).idxs, worker[c].idx)
                                            ELSE Body(c).idxs)
  PROVE  NestInv(c, depth, loops)'
<1>1. ~At(c, "idle") /\ c \in Consumer
  BY DEF At
<1>2. /\ worker[c].msg \in Msg /\ mail[worker[c].msg].state = "handled"
      /\ worker[c] = [f \in HandlerField |-> worker[c][f]]
      /\ worker = [x \in Consumer |-> worker[x]]
  BY <1>1, NestKnown
<1>3. PICK w2 : w2 = worker'[c]
  OBVIOUS
<1>4. w2.pc = p /\ w2.msg = worker[c].msg
  BY <1>1, <1>2, <1>3 DEF Goto, HandlerField
<1>5. PICK trail : trail = Trail(IF Past(worker[c], Body(c))
                                 THEN Enclosing(Body(c).idxs, worker[c].idx)
                                 ELSE Body(c).idxs)
  OBVIOUS
<1>6. PICK t : t = <<"mail", worker[c].msg>>
  OBVIOUS
<1>7. /\ t \in DOMAIN Board(mail, worker[c], outside)
      /\ Board(mail, worker[c], outside)[t] = trail
  <2>1. PICK m \in Msg : m = worker[c].msg
    BY <1>2
  <2>2. mail[m].state = "handled" /\ t = <<"mail", m>>
    BY <1>2, <1>6, <2>1
  <2>3. /\ t \in DOMAIN Board(mail, worker[c], outside)
        /\ Board(mail, worker[c], outside)[t] =
             Trail(IF Past(worker[c], Body(c))
                   THEN Enclosing(Body(c).idxs, worker[c].idx) ELSE Body(c).idxs)
    BY <2>1, <2>2, OwnToken
  <2> QED
    BY <1>5, <2>3
<1>8. PICK N : N = Tokens(New)
  OBVIOUS
<1>9. MailInv
  BY DEF Inv
<1>10. /\ Sent(S) /\ IsFiniteSet(New) /\ Cardinality(New) <= 1 /\ Cardinality(New) \in Nat
       /\ \/ budget' = budget
          \/ budget.losses > 0 /\ budget' = [budget EXCEPT !.losses = @ - 1]
  <2>1. /\ Sent(S) /\ IsFiniteSet(New) /\ Cardinality(New) <= Cardinality(S)
        /\ Cardinality(S) \in Nat
        /\ \/ budget' = budget
           \/ budget.losses > 0 /\ budget' = [budget EXCEPT !.losses = @ - 1]
    BY <1>9, EventsSent
  <2>2. Cardinality(New) \in Nat
    BY <2>1, FS_CardinalityType
  <2> QED
    BY <2>1, <2>2
<1>11. IsFiniteSet(N) /\ Cardinality(N) <= 1
  <2>1. IsFiniteSet(N) /\ Cardinality(N) <= Cardinality(New)
    BY <1>8, <1>10, MailTokens
  <2>2. Cardinality(N) \in Nat
    BY <2>1, FS_CardinalityType
  <2> QED
    BY <1>10, <2>1, <2>2
<1>12. PICK q2 : q2 = mail'
  OBVIOUS
<1>13. \A d \in S : Trail(d.idxs) = trail
  BY <1>5
<1>14. Handover(mail, worker[c], outside, q2, w2, outside, t, N, trail)
  BY <1>1, <1>4, <1>6, <1>8, <1>10, <1>12, <1>13, Emission
<1>15. PICK u : Handover(mail, worker[c], outside, q2, w2, outside, t, {u}, trail)
  <2>1. N = {} \/ \E u : N = {u}
    BY <1>11, AtMostOne
  <2>2. CASE N = {}
    <3>1. Handover(mail, worker[c], outside, q2, w2, outside, t, {t}, trail)
      BY <1>14, <2>2 DEF Handover
    <3> QED
      BY <3>1
  <2>3. CASE \E u : N = {u}
    <3>1. PICK u : N = {u}
      BY <2>3
    <3> QED
      BY <1>14, <3>1
  <2> QED
    BY <2>1, <2>2, <2>3
<1>16. exec[1].parallel \in Seq(ParallelEntry)
       /\ ScopeInv(Board(mail, worker[c], outside), exec[1].parallel)
  BY OwnList DEF NestInv
<1>17. Handover(mail, worker[c], outside, q2, w2, outside, t, {u},
                Board(mail, worker[c], outside)[t])
  BY <1>7, <1>15
<1>18. ScopeInv(Board(q2, w2, outside), exec[1].parallel)
  BY <1>7, <1>16, <1>17, BoardMoves
<1>19. Placed(w2, Body(c))
  BY <1>4 DEF NestInv, Placed, Scoping
<1>20. Scoped(w2, Body(c), exec'[1].parallel, Board(q2, w2, outside))
  BY <1>4 DEF Scoped
<1>21. PICK out2 : out2 = outside'
  OBVIOUS
<1>22. /\ Scoped(w2, Body(c), exec'[1].parallel, Board(q2, w2, out2))
       /\ ScopeInv(Board(q2, w2, out2), exec'[1].parallel)
  BY <1>18, <1>20, <1>21
<1>23. w2.pc # "idle" /\ outside' \subseteq outside \union S
       /\ \A e \in Exec \ {1} : exec'[e] = exec[e]
       /\ exec'[1].status = "Finished" => exec[1].status = "Finished"
  BY <1>4
<1> QED
  BY <1>3, <1>4, <1>10, <1>12, <1>19, <1>21, <1>22, <1>23, NestStep

\* All the same: at most one.
LEMMA Single ==
  ASSUME NEW S, \A d, e \in S : d = e
  PROVE  IsFiniteSet(S) /\ Cardinality(S) <= 1
<1>1. CASE S = {}
  BY <1>1, FS_EmptySet
<1>2. CASE S # {}
  <2>1. PICK d : S = {d}
    BY <1>2
  <2> QED
    BY <2>1, FS_Singleton
<1> QED
  BY <1>1, <1>2

\* The last of the scopes of a message of a branch, and those around it.
LEMMA InnermostIs ==
  ASSUME NEW depth, NEW loops, NEW b, NestedBody(b, depth, loops), depth[b.step] \in Nat,
         depth[b.step] > 0
  PROVE  /\ Len(b.idxs) \in Nat /\ Len(b.idxs) # 0 /\ DOMAIN b.idxs = 1 .. Len(b.idxs)
         /\ Len(b.idxs) \in DOMAIN b.idxs /\ b.idx = b.idxs[Len(b.idxs)]
         /\ Enclosing(b.idxs, b.idx) \in Seq(Nat)
         /\ Len(Enclosing(b.idxs, b.idx)) = Len(b.idxs) - 1
         /\ \A k \in 1 .. (Len(b.idxs) - 1) : Enclosing(b.idxs, b.idx)[k] = b.idxs[k]
<1>1. /\ b.idxs \in Seq(Nat) /\ Len(b.idxs) = depth[b.step] /\ b.idx = Innermost(b.idxs)
      /\ \A k, l \in DOMAIN b.idxs : k < l => b.idxs[k] < b.idxs[l]
  BY DEF NestedBody
<1>2. Len(b.idxs) \in Nat /\ Len(b.idxs) # 0
  BY <1>1
<1>3. DOMAIN b.idxs = 1 .. Len(b.idxs) /\ \A k \in 1 .. Len(b.idxs) : b.idxs[k] \in Nat
  BY <1>1
<1>4. Len(b.idxs) \in DOMAIN b.idxs
  BY <1>2, <1>3
<1>5. b.idx = b.idxs[Len(b.idxs)]
  BY <1>1, <1>2 DEF Innermost
<1>6. ASSUME NEW k \in 1 .. (Len(b.idxs) - 1)
      PROVE  b.idxs[k] # b.idx
  <2>1. PICK L \in Nat : L = Len(b.idxs)
    BY <1>2
  <2>2. k \in 1 .. L /\ L \in 1 .. L /\ k < L
    BY <1>2, <2>1
  <2>3. b.idxs[k] < b.idxs[L] /\ b.idxs[k] \in Nat /\ b.idxs[L] \in Nat
    BY <1>1, <1>3, <2>1, <2>2
  <2>4. PICK x \in Nat : x = b.idxs[k]
    BY <2>3
  <2>5. PICK y \in Nat : y = b.idxs[L]
    BY <2>3
  <2>6. x # y
    BY <2>3, <2>4, <2>5
  <2> QED
    BY <1>5, <2>1, <2>4, <2>5, <2>6
<1>7. /\ Enclosing(b.idxs, b.idx) \in Seq(Nat)
      /\ Len(Enclosing(b.idxs, b.idx)) = Len(b.idxs) - 1
      /\ \A k \in 1 .. (Len(b.idxs) - 1) : Enclosing(b.idxs, b.idx)[k] = b.idxs[k]
  BY <1>1, <1>2, <1>5, <1>6, EnclosingIs
<1> QED
  BY <1>2, <1>3, <1>4, <1>5, <1>7

\* A message has the fields of one and no more.
Whole(d) == d = [f \in DetailField |-> d[f]]

\* What an entry takes over from the message b that handler w works on.
Follows(b, w, s, d, depth, loops) ==
  /\ d.step = s /\ s \in Step /\ d.exec = 1 /\ d.parent = None
  /\ d.idx = w.idx /\ d.idxs = w.idxs
  /\ d.decision = "none" /\ d.rerun = FALSE
  /\ d.loop # None => d.loop.first \in loops[s]
  /\ Whole(d)
  /\ depth[s] = DepthAfter(b.step, depth[b.step])

\* An entry: its step comes next, and its loop turns where it began.
LEMMA NestEntry ==
  ASSUME NEW c, Consumer = {c}, NEW depth, NEW loops, WellNested(depth, loops),
         NEW D, Inv(D), NestInv(c, depth, loops), ~At(c, "idle"),
         NEW s \in ToSet(NAID[Body(c).step]), NEW d, d = Entry(c, s)
  PROVE  Follows(Body(c), worker[c], s, d, depth, loops)
<1>1. PICK b : b = Body(c)
  OBVIOUS
<1>2. NestedBody(b, depth, loops)
  BY <1>1, NestKnown
<1>3. b.step \in Step
  BY <1>2 DEF NestedBody
<1>4. s \in Step
  <2>1. NAID[b.step] \in Seq(Step)
    BY <1>3, WorkflowAssumption DEF WorkflowAssumption
  <2> QED
    BY <1>1, <2>1 DEF ToSet
<1>5. /\ depth[s] = DepthAfter(b.step, depth[b.step])
      /\ (IF T[b.step] = "Start Loop" THEN {s} ELSE loops[b.step]) \subseteq loops[s]
  BY <1>1, <1>3 DEF WellNested
<1>6. PICK l : l = IF Here(c) = "Start Loop"
                   THEN [max |-> NLoop[b.step], current |-> 1, first |-> s] ELSE b.loop
  OBVIOUS
<1>7. l # None => l.first \in loops[s]
  <2>1. CASE T[b.step] = "Start Loop"
    <3>1. l = [max |-> NLoop[b.step], current |-> 1, first |-> s]
      BY <1>1, <1>6, <2>1 DEF Here
    <3> QED
      BY <1>5, <2>1, <3>1
  <2>2. CASE T[b.step] # "Start Loop"
    BY <1>1, <1>2, <1>5, <1>6, <2>2 DEF Here, NestedBody
  <2> QED
    BY <2>1, <2>2
<1>8. PICK i : i = worker[c].idx
  OBVIOUS
<1>9. PICK j : j = worker[c].idxs
  OBVIOUS
<1>10. d = [Detail(s, b.exec) EXCEPT !.idx = i, !.idxs = j, !.parent = b.parent, !.loop = l]
  BY <1>1, <1>6, <1>8, <1>9 DEF Entry
<1>11. /\ d.step = s /\ d.exec = b.exec /\ d.parent = b.parent /\ d.loop = l
       /\ d.idx = i /\ d.idxs = j /\ d.decision = "none" /\ d.rerun = FALSE
       /\ Whole(d)
  BY <1>10 DEF Detail, DetailField, Whole
<1> QED
  BY <1>1, <1>2, <1>4, <1>5, <1>7, <1>8, <1>9, <1>11 DEF NestedBody, Follows

\* The entry of a step that is no Parallel Start and no Parallel End.
LEMMA PlainlyNested ==
  ASSUME NEW c, Consumer = {c}, NEW depth, NEW loops, WellNested(depth, loops),
         NEW D, Inv(D), NestInv(c, depth, loops),
         worker[c].pc \in Scoping,
         Here(c) \notin {"Parallel Start", "Parallel End"},
         NEW s \in ToSet(NAID[Body(c).step]), NEW d, d = Entry(c, s)
  PROVE  NestedBody(d, depth, loops) /\ d.idxs = Body(c).idxs
<1>1. ~At(c, "idle")
  BY DEF At, Scoping
<1>2. PICK b : b = Body(c)
  OBVIOUS
<1>3. NestedBody(b, depth, loops) /\ b.step \in Step
  BY <1>1, <1>2, NestKnown DEF NestedBody
<1>4. worker[c].idxs = b.idxs /\ worker[c].idx = b.idx
  BY <1>2 DEF NestInv, Placed, Opened, Here
<1>5. /\ d.step = s /\ s \in Step /\ d.exec = 1 /\ d.parent = None
      /\ d.idx = worker[c].idx /\ d.idxs = worker[c].idxs
      /\ d.decision = "none" /\ d.rerun = FALSE
      /\ d.loop # None => d.loop.first \in loops[s]
      /\ depth[s] = DepthAfter(b.step, depth[b.step])
  <2>1. Follows(Body(c), worker[c], s, d, depth, loops)
    BY <1>1, NestEntry
  <2> QED
    BY <1>2, <2>1 DEF Follows
<1>6. depth[s] = depth[b.step]
  BY <1>2, <1>5 DEF DepthAfter, Here
<1> QED
  BY <1>2, <1>3, <1>4, <1>5, <1>6 DEF NestedBody

\* A scope added behind those of a message.
LEMMA Appended ==
  ASSUME NEW q \in Seq(Nat), NEW n \in Nat, NEW a, a = Append(q, n),
         \A k, l \in DOMAIN q : k < l => q[k] < q[l],
         \A k \in DOMAIN q : q[k] < n
  PROVE  /\ a \in Seq(Nat) /\ Len(a) = Len(q) + 1 /\ Innermost(a) = n
         /\ \A k, l \in DOMAIN a : k < l => a[k] < a[l]
<1>1. PICK m \in Nat : m = Len(q)
  OBVIOUS
<1>2. DOMAIN q = 1 .. m /\ a \in Seq(Nat) /\ Len(a) = m + 1
  BY <1>1
<1>3. DOMAIN a = 1 .. (m + 1) /\ (\A k \in 1 .. m : a[k] = q[k]) /\ a[m + 1] = n
  BY <1>1, <1>2
<1>4. \A k, l \in DOMAIN a : k < l => a[k] < a[l]
  <2> SUFFICES ASSUME NEW k \in DOMAIN a, NEW l \in DOMAIN a, k < l
               PROVE  a[k] < a[l]
    OBVIOUS
  <2>1. k \in 1 .. m /\ (l \in 1 .. m \/ l = m + 1)
    BY <1>3
  <2>2. CASE l \in 1 .. m
    BY <1>2, <1>3, <2>1, <2>2
  <2>3. CASE l = m + 1
    BY <1>2, <1>3, <2>1, <2>3
  <2> QED
    BY <2>1, <2>2, <2>3
<1>5. Innermost(a) = n
  <2>1. a # << >>
    BY <1>2
  <2> QED
    BY <1>2, <1>3, <2>1 DEF Innermost
<1> QED
  BY <1>1, <1>2, <1>4, <1>5

\* The entry of a branch that a Parallel Start opens.
LEMMA BranchNested ==
  ASSUME NEW c, Consumer = {c}, NEW depth, NEW loops, WellNested(depth, loops),
         NEW D, Inv(D), NestInv(c, depth, loops), At(c, "emit"), Here(c) = "Parallel Start",
         NEW s \in ToSet(NAID[Body(c).step]), NEW d, d = Entry(c, s)
  PROVE  /\ NestedBody(d, depth, loops)
         /\ Trail(d.idxs) = Append(Trail(Body(c).idxs), worker[c].idx)
<1>1. ~At(c, "idle") /\ worker[c].pc = "emit"
  BY DEF At
<1>2. PICK b : b = Body(c)
  OBVIOUS
<1>3. NestedBody(b, depth, loops) /\ b.step \in Step /\ T[b.step] = "Parallel Start"
  BY <1>1, <1>2, NestKnown DEF NestedBody, Here
<1>4. PICK n : n = worker[c].idx
  OBVIOUS
<1>5. worker[c].idxs = Append(b.idxs, n)
  BY <1>1, <1>2, <1>3, <1>4 DEF NestInv, Placed, Opened, Scoping
<1>6. n \in DOMAIN exec[1].parallel /\ \A k \in DOMAIN b.idxs : b.idxs[k] < n
  BY <1>1, <1>2, <1>3, <1>4 DEF NestInv, Scoped
<1>7. n \in Nat
  BY <1>6, OwnList, Entered
<1>8. /\ d.step = s /\ s \in Step /\ d.exec = 1 /\ d.parent = None
      /\ d.idx = n /\ d.idxs = Append(b.idxs, n)
      /\ d.decision = "none" /\ d.rerun = FALSE
      /\ d.loop # None => d.loop.first \in loops[s]
      /\ depth[s] = DepthAfter(b.step, depth[b.step])
  <2>1. Follows(Body(c), worker[c], s, d, depth, loops)
    BY <1>1, NestEntry
  <2> QED
    BY <1>2, <1>4, <1>5, <2>1 DEF Follows
<1>9. depth[s] = depth[b.step] + 1
  BY <1>3, <1>8 DEF DepthAfter
<1>10. PICK q : q = b.idxs
  OBVIOUS
<1>11. /\ q \in Seq(Nat) /\ Len(q) = depth[b.step]
       /\ \A k, l \in DOMAIN q : k < l => q[k] < q[l]
  BY <1>3, <1>10 DEF NestedBody
<1>12. PICK a : a = Append(q, n)
  OBVIOUS
<1>13. /\ a \in Seq(Nat) /\ Len(a) = Len(q) + 1 /\ Innermost(a) = n
       /\ \A k, l \in DOMAIN a : k < l => a[k] < a[l]
  <2>1. \A k \in DOMAIN q : q[k] < n
    BY <1>6, <1>10
  <2> QED
    BY <1>7, <1>11, <1>12, <2>1, Appended
<1>15. NestedBody(d, depth, loops)
  BY <1>8, <1>9, <1>10, <1>11, <1>12, <1>13 DEF NestedBody
<1>16. Trail(d.idxs) = Append(Trail(b.idxs), n)
  BY <1>7, <1>8, <1>10, <1>11, TrailAppend
<1> QED
  BY <1>2, <1>4, <1>15, <1>16

\* The entry of the step after a Parallel End.
LEMMA JoinedNested ==
  ASSUME NEW c, Consumer = {c}, NEW depth, NEW loops, WellNested(depth, loops),
         NEW D, Inv(D), NestInv(c, depth, loops), At(c, "joined"),
         NEW s \in ToSet(NAID[Body(c).step]),
         NEW outer, outer = Enclosing(worker[c].idxs, worker[c].idx),
         NEW d, d = [Entry(c, s) EXCEPT !.idxs = outer, !.idx = Innermost(outer)]
  PROVE  /\ NestedBody(d, depth, loops)
         /\ d.idxs = Enclosing(Body(c).idxs, worker[c].idx)
<1>1. ~At(c, "idle") /\ worker[c].pc = "joined"
  BY DEF At
<1>2. PICK b : b = Body(c)
  OBVIOUS
<1>3. NestedBody(b, depth, loops) /\ b.step \in Step
  BY <1>1, <1>2, NestKnown DEF NestedBody
<1>4. T[b.step] = "Parallel End"
  BY <1>1, <1>2 DEF NestInv, Placed
<1>5. worker[c].idxs = b.idxs /\ worker[c].idx = b.idx
  BY <1>1, <1>2, <1>4 DEF NestInv, Placed, Opened, Scoping
<1>6. PICK a : a = Entry(c, s)
  OBVIOUS
<1>7. /\ a.step = s /\ s \in Step /\ a.exec = 1 /\ a.parent = None
      /\ a.decision = "none" /\ a.rerun = FALSE
      /\ a.loop # None => a.loop.first \in loops[s]
      /\ Whole(a)
      /\ depth[s] = DepthAfter(b.step, depth[b.step])
  <2>1. Follows(Body(c), worker[c], s, a, depth, loops)
    BY <1>1, <1>6, NestEntry
  <2> QED
    BY <1>2, <2>1 DEF Follows
<1>8. PICK i : i = Innermost(outer)
  OBVIOUS
<1>9. d = [a EXCEPT !.idxs = outer, !.idx = i]
  BY <1>6, <1>8
<1>10. /\ d.step = a.step /\ d.exec = a.exec /\ d.parent = a.parent /\ d.loop = a.loop
       /\ d.decision = a.decision /\ d.rerun = a.rerun /\ d.idxs = outer /\ d.idx = i
  BY <1>7, <1>9 DEF DetailField, Whole
<1>11. depth[b.step] \in Nat /\ depth[b.step] > 0 /\ depth[s] = depth[b.step] - 1
  BY <1>3, <1>4, <1>7 DEF WellNested, DepthAfter
<1>12. outer = Enclosing(b.idxs, b.idx)
  BY <1>5
<1>13. /\ Len(b.idxs) \in Nat /\ Len(b.idxs) # 0 /\ DOMAIN b.idxs = 1 .. Len(b.idxs)
       /\ outer \in Seq(Nat) /\ Len(outer) = Len(b.idxs) - 1
       /\ \A k \in 1 .. (Len(b.idxs) - 1) : outer[k] = b.idxs[k]
  BY <1>3, <1>11, <1>12, InnermostIs
<1>14. Len(b.idxs) = depth[b.step] /\ \A k, l \in DOMAIN b.idxs : k < l => b.idxs[k] < b.idxs[l]
  BY <1>3 DEF NestedBody
<1>15. \A k, l \in DOMAIN outer : k < l => outer[k] < outer[l]
  <2>1. DOMAIN outer = 1 .. (Len(b.idxs) - 1)
    BY <1>13
  <2>2. \A k \in 1 .. (Len(b.idxs) - 1) : k \in 1 .. Len(b.idxs)
    BY <1>13
  <2> QED
    BY <1>13, <1>14, <2>1, <2>2
<1>16. NestedBody(d, depth, loops)
  BY <1>7, <1>8, <1>10, <1>11, <1>13, <1>14, <1>15 DEF NestedBody
<1> QED
  BY <1>2, <1>5, <1>10, <1>12, <1>16

-------------------------------------------------------------------------------
(* The steps of the handler *)

\* What is saved in the one execution that runs.
LEMMA OwnSaved ==
  ASSUME NEW c, Consumer = {c}, NEW depth, NEW loops, NEW D, Inv(D), NestInv(c, depth, loops),
         ~At(c, "idle")
  PROVE  /\ Body(c).exec = 1
         /\ \A r : exec' = [exec EXCEPT ![1] = r] =>
              exec'[1] = r /\ \A e \in Exec \ {1} : exec'[e] = exec[e]
         /\ \A s : [exec[1] EXCEPT !.status = s].parallel = exec[1].parallel
                   /\ [exec[1] EXCEPT !.status = s].status = s
         /\ \A s : [exec[1] EXCEPT !.ste = s].parallel = exec[1].parallel
                   /\ [exec[1] EXCEPT !.ste = s].status = exec[1].status
         /\ \A s : [exec[1] EXCEPT !.logged = s].parallel = exec[1].parallel
                   /\ [exec[1] EXCEPT !.logged = s].status = exec[1].status
         /\ \A s : [exec[1] EXCEPT !.parallel = s].parallel = s
                   /\ [exec[1] EXCEPT !.parallel = s].status = exec[1].status
<1>1. Body(c).exec = 1
  BY NestKnown DEF NestedBody
<1>2. exec[1] \in [status: {"none", "Running", "Pause", "Finished", "Error"},
                   parallel: Seq(ParallelEntry), ste: SUBSET Step, logged: BOOLEAN]
  BY OwnList DEF Inv, ExecOK
<1>3. \A r : exec' = [exec EXCEPT ![1] = r] =>
         exec'[1] = r /\ \A e \in Exec \ {1} : exec'[e] = exec[e]
  BY OwnList
<1> QED
  BY <1>1, <1>2, <1>3

\* The handler goes on, or ends early, and leaves its scopes alone.
LEMMA GotoNest ==
  ASSUME NEW c, Consumer = {c}, NEW depth, NEW loops, NEW D, Inv(D), NestInv(c, depth, loops),
         worker[c].pc \notin {"idle", "end", "return"}, UNCHANGED <<mail, outside, budget>>,
         \A e \in Exec \ {1} : exec'[e] = exec[e],
         exec'[1].parallel = exec[1].parallel,
         exec'[1].status = "Finished" => exec[1].status = "Finished",
         NEW p, Goto(c, p),
         \/ p \in {"close", "return"}
         \/ At(c, "http") /\ p = "read"
         \/ At(c, "read") /\ p = "claim"
         \/ At(c, "error") /\ p = "onError"
  PROVE  NestInv(c, depth, loops)'
<1>1. ~At(c, "idle") /\ c \in Consumer
  BY DEF At
<1>2. PICK b : b = Body(c)
  OBVIOUS
<1>3. PICK w2 : w2 = worker'[c]
  OBVIOUS
<1>4. /\ w2.pc = p /\ w2.msg = worker[c].msg /\ w2.idx = worker[c].idx
      /\ w2.idxs = worker[c].idxs /\ w2.next = worker[c].next
  BY <1>1, <1>3, NestKnown DEF Goto, HandlerField
<1>5. Placed(worker[c], b) /\ Scoped(worker[c], b, exec[1].parallel, Board(mail, worker[c], outside))
  BY <1>2 DEF NestInv
<1>6. Placed(w2, b)
  <2>1. CASE p \in {"close", "return"}
    BY <1>4, <1>5, <2>1 DEF Placed, Scoping
  <2>2. CASE p \in {"read", "claim"}
    BY <1>4, <1>5, <2>2 DEF Placed, Scoping, At
  <2>3. CASE At(c, "error") /\ p = "onError"
    BY <1>4, <1>5, <2>3 DEF Placed, Scoping, At, Opened
  <2> QED
    BY <2>1, <2>2, <2>3
<1>7. Scoped(w2, b, exec[1].parallel, Board(mail, worker[c], outside))
  BY <1>4, <1>5 DEF Scoped, At
<1>8. Counts(w2, b) => Counts(worker[c], b) /\ ~Past(w2, b) /\ ~Past(worker[c], b)
  BY <1>4 DEF Counts, Past, At
<1>9. PICK P2 : P2 = exec'[1].parallel
  OBVIOUS
<1>10. P2 \in Seq(ParallelEntry) /\ ScopeInv(Board(mail, worker[c], outside), P2)
  BY <1>9, OwnList DEF NestInv
<1> QED
  BY <1>2, <1>3, <1>4, <1>6, <1>7, <1>8, <1>9, <1>10, NestQuiet

\* UpdateHttpStepStatus, getCurrentWorkflowExecution, the status of the history
\* record, the end of a step that is stopped, asks or is done.
LEMMA GoingNest ==
  ASSUME NEW c, Consumer = {c}, NEW depth, NEW loops, NEW D, Inv(D), NestInv(c, depth, loops),
         \/ LogTrigger(c) \/ ReadExecution(c) \/ MarkError(c) \/ StopExecution(c)
         \/ AskApproval(c) \/ CloseStep(c)
  PROVE  NestInv(c, depth, loops)'
<1>1. CASE LogTrigger(c)
  <2>1. ~At(c, "idle") /\ worker[c].pc \notin {"idle", "end", "return"} /\ At(c, "http")
    BY <1>1 DEF LogTrigger, At
  <2>2. PICK r : r = [exec[1] EXCEPT !.logged = TRUE]
    OBVIOUS
  <2>3. exec' = [exec EXCEPT ![1] = r]
    BY <1>1, <2>1, <2>2, OwnSaved DEF LogTrigger
  <2>4. /\ \A e \in Exec \ {1} : exec'[e] = exec[e]
        /\ exec'[1].parallel = exec[1].parallel /\ exec'[1].status = exec[1].status
    <3>1. r.parallel = exec[1].parallel /\ r.status = exec[1].status
      BY <2>1, <2>2, OwnSaved
    <3> QED
      BY <2>1, <2>3, <3>1, OwnSaved
  <2> QED
    BY <1>1, <2>1, <2>4, GotoNest DEF LogTrigger
<1>2. CASE ReadExecution(c)
  <2>1. worker[c].pc \notin {"idle", "end", "return"} /\ At(c, "read")
    BY <1>2 DEF ReadExecution, At
  <2>2. PICK p \in {"return", "claim"} : Goto(c, p)
    BY <1>2 DEF ReadExecution
  <2> QED
    BY <1>2, <2>1, <2>2, GotoNest DEF ReadExecution
<1>3. CASE MarkError(c)
  <2>1. worker[c].pc \notin {"idle", "end", "return"} /\ At(c, "error")
    BY <1>3 DEF MarkError, At
  <2> QED
    BY <1>3, <2>1, GotoNest DEF MarkError
<1>4. CASE StopExecution(c)
  <2>1. ~At(c, "idle") /\ worker[c].pc \notin {"idle", "end", "return"}
    BY <1>4 DEF StopExecution, At
  <2>2. PICK r : r = [exec[1] EXCEPT !.status = "Error"]
    OBVIOUS
  <2>3. exec' = [exec EXCEPT ![1] = r]
    BY <1>4, <2>1, <2>2, OwnSaved DEF StopExecution
  <2>4. /\ \A e \in Exec \ {1} : exec'[e] = exec[e]
        /\ exec'[1].parallel = exec[1].parallel /\ exec'[1].status = "Error"
    <3>1. r.parallel = exec[1].parallel /\ r.status = "Error"
      BY <2>1, <2>2, OwnSaved
    <3> QED
      BY <2>1, <2>3, <3>1, OwnSaved
  <2> QED
    BY <1>4, <2>1, <2>4, GotoNest DEF StopExecution
<1>5. CASE AskApproval(c)
  <2>1. worker[c].pc \notin {"idle", "end", "return"}
    BY <1>5 DEF AskApproval, At
  <2>2. PICK p \in {"return", "close"} : Goto(c, p)
    BY <1>5 DEF AskApproval
  <2> QED
    BY <1>5, <2>1, <2>2, GotoNest DEF AskApproval
<1>6. CASE CloseStep(c)
  <2>1. worker[c].pc \notin {"idle", "end", "return"}
    BY <1>6 DEF CloseStep, At
  <2> QED
    BY <1>6, <2>1, GotoNest DEF CloseStep
<1> QED
  BY <1>1, <1>2, <1>3, <1>4, <1>5, <1>6

\* The step is claimed: the handler starts in the scopes of its message.
LEMMA ClaimNest ==
  ASSUME NEW c, Consumer = {c}, NEW depth, NEW loops, NEW D, Inv(D), NestInv(c, depth, loops),
         ClaimStep(c)
  PROVE  NestInv(c, depth, loops)'
<1>1. ~At(c, "idle") /\ c \in Consumer /\ worker[c].pc = "claim"
  BY DEF At, ClaimStep
<1>2. PICK b : b = Body(c)
  OBVIOUS
<1>3. PICK w2 : w2 = worker'[c]
  OBVIOUS
<1>4. /\ w2.pc = Begin(b) /\ w2.msg = worker[c].msg /\ w2.idx = b.idx /\ w2.idxs = b.idxs
  <2>1. PICK k : Open(c, k)
    BY DEF ClaimStep
  <2>2. PICK w : w = worker[c]
    OBVIOUS
  <2>3. w = [f \in HandlerField |-> w[f]]
    BY <1>1, <2>2, NestKnown
  <2>4. PICK P, s : worker' = [worker EXCEPT ![c] =
                     [w EXCEPT !.pc = Begin(b), !.key = k, !.parallel = P,
                               !.ste = s, !.idx = b.idx, !.idxs = b.idxs]]
    BY <1>2, <2>1, <2>2 DEF Open
  <2>5. w2 = [w EXCEPT !.pc = Begin(b), !.key = k, !.parallel = P,
                       !.ste = s, !.idx = b.idx, !.idxs = b.idxs]
    BY <1>1, <1>3, <2>4, NestKnown
  <2> QED
    BY <2>2, <2>3, <2>5 DEF HandlerField
<1>5. Placed(worker[c], b) /\ Scoped(worker[c], b, exec[1].parallel, Board(mail, worker[c], outside))
  BY <1>2 DEF NestInv
<1>6. /\ w2.pc \in {"external", "parallel", "perform"}
      /\ w2.pc = "external" => T[b.step] = "External"
      /\ w2.pc = "parallel" => T[b.step] \in {"Parallel Start", "Parallel End"}
      /\ w2.pc = "perform" => T[b.step] \notin {"Parallel Start", "Parallel End"}
  BY <1>4 DEF Begin
<1>7. Placed(w2, b)
  BY <1>1, <1>4, <1>5, <1>6 DEF Placed, Opened
<1>8. Scoped(w2, b, exec[1].parallel, Board(mail, worker[c], outside))
  BY <1>1, <1>5, <1>6 DEF Scoped
<1>9. Counts(w2, b) => Counts(worker[c], b) /\ ~Past(w2, b) /\ ~Past(worker[c], b)
  BY <1>1, <1>6 DEF Counts, Past
<1>10. /\ UNCHANGED <<mail, outside, budget, exec>>
       /\ worker[c].pc \notin {"idle", "end", "return"}
  BY <1>1 DEF ClaimStep
<1>11. PICK P2 : P2 = exec'[1].parallel
  OBVIOUS
<1>12. P2 \in Seq(ParallelEntry) /\ ScopeInv(Board(mail, worker[c], outside), P2)
  BY <1>10, <1>11, OwnList DEF NestInv
<1> QED
  BY <1>2, <1>3, <1>4, <1>6, <1>7, <1>8, <1>9, <1>10, <1>11, <1>12, NestQuiet

\* The activity has run: the next steps are those the workflow allows.
LEMMA PerformNest ==
  ASSUME NEW c, Consumer = {c}, NEW depth, NEW loops, WellNested(depth, loops),
         NEW D, Inv(D), NestInv(c, depth, loops), Perform(c)
  PROVE  NestInv(c, depth, loops)'
<1>1. ~At(c, "idle") /\ c \in Consumer /\ worker[c].pc = "perform"
  BY DEF At, Perform
<1>2. PICK b : b = Body(c)
  OBVIOUS
<1>3. NestedBody(b, depth, loops) /\ b.step \in Step /\ b.decision = "none"
      /\ T[b.step] # "SubWorkflow"
  BY <1>1, <1>2, NestKnown DEF NestedBody, WellNested
<1>41. PICK ste : ste = IF Produces(b.step) THEN worker[c].ste \union {b.step}
                       ELSE worker[c].ste
  OBVIOUS
<1>42. PICK ok \in (IF T[b.step] = "Web Service" THEN BOOLEAN ELSE {TRUE}) :
         \E next \in NextChoices(b) :
           /\ exec' = [exec EXCEPT ![b.exec].ste = ste]
           /\ worker' = [worker EXCEPT ![c] = [@ EXCEPT !.pc = Route(b, ok), !.next = next]]
  BY <1>2, <1>41 DEF Perform, Here
<1>43. PICK next \in NextChoices(b) :
         /\ exec' = [exec EXCEPT ![b.exec].ste = ste]
         /\ worker' = [worker EXCEPT ![c] = [@ EXCEPT !.pc = Route(b, ok), !.next = next]]
  BY <1>42
<1>4. /\ exec' = [exec EXCEPT ![1].ste = ste]
      /\ worker' = [worker EXCEPT ![c] = [@ EXCEPT !.pc = Route(b, ok), !.next = next]]
  BY <1>1, <1>2, <1>43, OwnSaved
<1>5. PICK w2 : w2 = worker'[c]
  OBVIOUS
<1>6. PICK p : p = Route(b, ok)
  OBVIOUS
<1>7. w2 = [worker[c] EXCEPT !.pc = p, !.next = next]
  BY <1>1, <1>4, <1>5, <1>6, NestKnown
<1>8. /\ w2.pc = p /\ w2.next = next /\ w2.msg = worker[c].msg /\ w2.idx = worker[c].idx
      /\ w2.idxs = worker[c].idxs /\ w2.parallel = worker[c].parallel
  <2>1. worker[c] = [f \in HandlerField |-> worker[c][f]]
    BY <1>1, NestKnown
  <2> QED
    BY <1>7, <2>1 DEF HandlerField
<1>9. Placed(worker[c], b) /\ Scoped(worker[c], b, exec[1].parallel, Board(mail, worker[c], outside))
  BY <1>2 DEF NestInv
<1>10. /\ p \in {"error", "ask", "delay", "join", "emit"}
       /\ p = "error" => T[b.step] = "Web Service"
       /\ p = "delay" => T[b.step] = "Delay"
       /\ p = "join" => T[b.step] = "Parallel End"
       /\ p = "emit" => T[b.step] # "Parallel End"
       /\ p # "error" /\ T[b.step] = "Parallel End" => p = "join"
  BY <1>3, <1>42, <1>6 DEF Route
<1>11. IF T[b.step] = "Condition" THEN \E s \in ToSet(NAID[b.step]) : next = <<s>>
       ELSE next = NAID[b.step]
  BY <1>3, <1>43 DEF NextChoices
<1>12. Placed(w2, b)
  BY <1>1, <1>8, <1>9, <1>10, <1>11 DEF Placed, Opened, Scoping
<1>13. Scoped(w2, b, exec[1].parallel, Board(mail, worker[c], outside))
  BY <1>1, <1>8, <1>9, <1>10 DEF Scoped
<1>14. Counts(w2, b) => /\ Counts(worker[c], b)
                        /\ Past(w2, b) <=> Past(worker[c], b)
  BY <1>1, <1>8, <1>10 DEF Counts, Past
<1>15. PICK r : r = [exec[1] EXCEPT !.ste = ste]
  OBVIOUS
<1>16. /\ \A e \in Exec \ {1} : exec'[e] = exec[e]
       /\ exec'[1].parallel = exec[1].parallel /\ exec'[1].status = exec[1].status
  <2>1. r.parallel = exec[1].parallel /\ r.status = exec[1].status
    BY <1>1, <1>15, OwnSaved
  <2>2. exec' = [exec EXCEPT ![1] = r]
    BY <1>4, <1>15
  <2> QED
    BY <1>1, <2>1, <2>2, OwnSaved
<1>17. /\ UNCHANGED <<mail, outside, budget>>
       /\ worker[c].pc \notin {"idle", "end", "return"}
  BY <1>1 DEF Perform
<1>18. PICK P2 : P2 = exec'[1].parallel
  OBVIOUS
<1>19. P2 \in Seq(ParallelEntry) /\ ScopeInv(Board(mail, worker[c], outside), P2)
  BY <1>16, <1>18, OwnList DEF NestInv
<1>20. Scoped(w2, b, P2, Board(mail, worker[c], outside))
  BY <1>13, <1>16, <1>18
<1> QED
  BY <1>2, <1>5, <1>8, <1>10, <1>12, <1>14, <1>16, <1>17, <1>18, <1>19, <1>20, NestQuiet

\* The handler's copy of PARALLEL is the record's.
LEMMA OwnCopy ==
  ASSUME NEW c, Consumer = {c}, NEW depth, NEW loops, NEW D, Inv(D), NestInv(c, depth, loops),
         JoinInv, worker[c].pc \in Copying
  PROVE  worker[c].parallel = exec[1].parallel
<1>1. ~At(c, "idle")
  BY DEF At, Copying
<1> QED
  BY <1>1, OwnSaved DEF JoinInv, FreshCopy

\* The scopes a handler's message is in, seen on the board.
LEMMA OwnTrail ==
  ASSUME NEW c, Consumer = {c}, NEW depth, NEW loops, NEW D, Inv(D), NestInv(c, depth, loops),
         ~At(c, "idle"), Counts(worker[c], Body(c)), ~Past(worker[c], Body(c)),
         NEW t, t = <<"mail", worker[c].msg>>
  PROVE  /\ t \in DOMAIN Board(mail, worker[c], outside)
         /\ Board(mail, worker[c], outside)[t] = Trail(Body(c).idxs)
<1>1. PICK m \in Msg : m = worker[c].msg
  BY NestKnown
<1>2. mail[m].state = "handled"
  BY <1>1, NestKnown
<1>3. /\ t \in DOMAIN Board(mail, worker[c], outside)
      /\ Board(mail, worker[c], outside)[t] =
           Trail(IF Past(worker[c], Body(c))
                 THEN Enclosing(Body(c).idxs, worker[c].idx) ELSE Body(c).idxs)
  BY <1>1, <1>2, OwnToken
<1> QED
  BY <1>3

LEMMA Forking ==
  ASSUME NEW B, NEW P, P \in Seq(ParallelEntry), ScopeInv(B, P), NEW n \in Nat, NEW P2,
         P2 = Fork(P, n)
  PROVE  ScopeInv(B, P2) /\ Clear(B, Len(P2)) /\ Len(P2) = Len(P) + 1
         /\ P2[Len(P2)].active /\ P2[Len(P2)].total = n /\ P2[Len(P2)].finished = 0
<1>1. P2 = Append(P, [active |-> TRUE, total |-> n, finished |-> 0])
  BY DEF Fork
<1>2. /\ ScopeInv(B, P2) /\ Clear(B, Len(P2)) /\ Len(P2) = Len(P) + 1
      /\ P2[Len(P2)] = [active |-> TRUE, total |-> n, finished |-> 0]
  BY <1>1, Pushed, ZenonT(60)
<1> QED
  BY <1>2

\* Parallel Start pushes its entry: a scope nobody works in yet.
LEMMA ForkNest ==
  ASSUME NEW c, Consumer = {c}, NEW depth, NEW loops, NEW D, Inv(D), NestInv(c, depth, loops),
         JoinInv, ForkBranches(c)
  PROVE  NestInv(c, depth, loops)'
<1>1. ~At(c, "idle") /\ c \in Consumer /\ worker[c].pc = "parallel"
  BY DEF At, ForkBranches
<1>2. PICK b : b = Body(c)
  OBVIOUS
<1>3. NestedBody(b, depth, loops) /\ b.step \in Step /\ T[b.step] = "Parallel Start"
  BY <1>1, <1>2, NestKnown DEF NestedBody, ForkBranches, Here
<1>4. PICK P : P = exec[1].parallel
  OBVIOUS
<1>5. worker[c].parallel = P /\ P \in Seq(ParallelEntry)
  BY <1>1, <1>4, OwnCopy, OwnList DEF Copying
<1>6. PICK k \in Nat : k = Len(NAID[b.step])
  BY <1>3, NAIDType
<1>7. PICK P2 : P2 = Fork(P, k)
  OBVIOUS
<1>8. PICK B : B = Board(mail, worker[c], outside)
  OBVIOUS
<1>9. ScopeInv(B, P)
  BY <1>4, <1>8 DEF NestInv
<1>10. /\ ScopeInv(B, P2) /\ Clear(B, Len(P2)) /\ Len(P2) = Len(P) + 1
       /\ P2[Len(P2)].active /\ P2[Len(P2)].total = k /\ P2[Len(P2)].finished = 0
  BY <1>5, <1>7, <1>9, Forking
<1>11. P2 \in Seq(ParallelEntry) /\ Len(P) \in Nat /\ DOMAIN P2 = 1 .. Len(P2) /\ DOMAIN P = 1 .. Len(P)
  <2>2. P2 \in Seq(ParallelEntry)
    BY <1>5, <1>7, ParallelTypes
  <2> QED
    BY <1>5, <2>2
<1>12. PICK n : n = Len(P2)
  OBVIOUS
<1>13. n \in DOMAIN P2
  BY <1>10, <1>11, <1>12
<1>14. PICK w2 : w2 = worker'[c]
  OBVIOUS
<1>15. /\ w2.pc = "perform" /\ w2.msg = worker[c].msg /\ w2.idx = n
       /\ w2.idxs = Append(worker[c].idxs, n)
  <2>1. PICK a : a = Append(worker[c].idxs, n)
    OBVIOUS
  <2>2. worker' = [worker EXCEPT ![c] =
                     [@ EXCEPT !.pc = "perform", !.parallel = P2, !.idx = n, !.idxs = a]]
    BY <1>2, <1>5, <1>6, <1>7, <1>12, <2>1 DEF ForkBranches
  <2>3. PICK w : w = worker[c]
    OBVIOUS
  <2>4. w = [f \in HandlerField |-> w[f]]
    BY <1>1, <2>3, NestKnown
  <2>5. w2 = [w EXCEPT !.pc = "perform", !.parallel = P2, !.idx = n, !.idxs = a]
    BY <1>1, <1>14, <2>2, <2>3, NestKnown
  <2>6. /\ w2.pc = "perform" /\ w2.msg = w.msg /\ w2.idx = n /\ w2.idxs = a
    BY <2>4, <2>5 DEF HandlerField
  <2> QED
    BY <2>1, <2>3, <2>6
<1>16. PICK r : r = [exec[1] EXCEPT !.parallel = P2]
  OBVIOUS
<1>17. /\ \A e \in Exec \ {1} : exec'[e] = exec[e]
       /\ exec'[1].parallel = P2 /\ exec'[1].status = exec[1].status
  <2>1. r.parallel = P2 /\ r.status = exec[1].status
    BY <1>1, <1>16, OwnSaved
  <2>2. exec' = [exec EXCEPT ![1].parallel = P2]
    BY <1>1, <1>2, <1>5, <1>6, <1>7, OwnSaved DEF ForkBranches
  <2>3. exec' = [exec EXCEPT ![1] = r]
    BY <1>16, <2>2
  <2> QED
    BY <1>1, <2>1, <2>3, OwnSaved
<1>18. Placed(worker[c], b) /\ Scoped(worker[c], b, P, B)
  BY <1>2, <1>4, <1>8 DEF NestInv
<1>19. worker[c].idxs = b.idxs
  BY <1>1, <1>18 DEF Placed, Opened, Scoping
<1>20. Placed(w2, b)
  BY <1>1, <1>3, <1>15, <1>18, <1>19 DEF Placed, Opened
<1>21. PICK t : t = <<"mail", worker[c].msg>>
  OBVIOUS
<1>22. t \in DOMAIN B /\ B[t] = Trail(b.idxs)
  <2>1. Counts(worker[c], b) /\ ~Past(worker[c], b)
    BY <1>1 DEF Counts, Past
  <2> QED
    BY <1>1, <1>2, <1>8, <1>21, <2>1, OwnTrail
<1>23. IsTrail(Trail(b.idxs), P2) /\ IsTrail(Trail(b.idxs), P)
  BY <1>9, <1>10, <1>22 DEF ScopeInv
<1>24. \A i \in DOMAIN b.idxs : b.idxs[i] < n
  <2>1. b.idxs \in Seq(Nat)
    BY <1>3 DEF NestedBody
  <2>2. PICK s : s = b.idxs
    OBVIOUS
  <2>3. /\ Len(Trail(s)) = Len(s) + 1 /\ Len(s) \in Nat /\ DOMAIN s = 1 .. Len(s)
        /\ \A i \in 1 .. Len(s) : Trail(s)[i + 1] = s[i] /\ i + 1 \in 2 .. (Len(s) + 1)
    <3>1. s \in Seq(Nat)
      BY <2>1, <2>2
    <3>2. DOMAIN s = 1 .. Len(s)
      BY <3>1
    <3>3. /\ Len(Trail(s)) = Len(s) + 1 /\ Len(s) \in Nat
          /\ \A i \in 1 .. Len(s) : Trail(s)[i + 1] = s[i] /\ i + 1 \in 2 .. (Len(s) + 1)
      BY <3>1, TrailIs
    <3> QED
      BY <3>2, <3>3
  <2>4. \A i \in 2 .. (Len(s) + 1) : Trail(s)[i] \in DOMAIN P
    BY <1>23, <2>2, <2>3 DEF IsTrail
  <2>5. \A i \in 1 .. Len(s) : s[i] \in DOMAIN P
    BY <2>3, <2>4
  <2> QED
    BY <1>10, <1>11, <1>12, <2>2, <2>3, <2>5
<1>25. Scoped(w2, b, P2, B)
  <2>1. P2[n] = [active |-> TRUE, total |-> Len(NAID[b.step]), finished |-> 0]
    <3>1. /\ P2[n] = [active |-> P2[n].active, total |-> P2[n].total, finished |-> P2[n].finished]
          /\ P2[n].active \in BOOLEAN
      BY <1>11, <1>13, Entered
    <3>2. P2[n].active = TRUE /\ P2[n].total = Len(NAID[b.step]) /\ P2[n].finished = 0
      BY <1>6, <1>10, <1>12, <3>1
    <3> QED
      BY <3>1, <3>2
  <2> QED
    BY <1>3, <1>10, <1>12, <1>13, <1>15, <1>23, <1>24, <2>1 DEF Scoped
<1>26. Counts(w2, b) => Counts(worker[c], b) /\ ~Past(w2, b) /\ ~Past(worker[c], b)
  BY <1>1, <1>3 DEF Counts, Past
<1>27. /\ UNCHANGED <<mail, outside, budget>>
       /\ worker[c].pc \notin {"idle", "end", "return"}
  BY <1>1 DEF ForkBranches
<1> QED
  BY <1>2, <1>8, <1>10, <1>11, <1>14, <1>15, <1>17, <1>20, <1>25, <1>26, <1>27, NestQuiet

\* A step of the handler that sends nothing and changes its own token.
LEMMA NestTurn ==
  ASSUME NEW c, Consumer = {c}, NEW depth, NEW loops, NEW D, Inv(D), NestInv(c, depth, loops),
         worker[c].pc \notin {"idle", "end", "return"}, UNCHANGED <<mail, outside, budget>>,
         NEW w2, w2 = worker'[c], w2.msg = worker[c].msg, w2.pc # "idle",
         \A e \in Exec \ {1} : exec'[e] = exec[e],
         exec'[1].status = "Finished" => exec[1].status = "Finished",
         NEW P2, P2 = exec'[1].parallel,
         Placed(w2, Body(c)),
         Scoped(w2, Body(c), P2, Board(mail, w2, outside)),
         ScopeInv(Board(mail, w2, outside), P2)
  PROVE  NestInv(c, depth, loops)'
<1>1. PICK S : S = {}
  OBVIOUS
<1>2. Sent(S) /\ \A d \in S : NestedBody(d, depth, loops)
  BY <1>1 DEF Sent, Used
<1>3. PICK q2 : q2 = mail'
  OBVIOUS
<1>4. PICK out2 : out2 = outside'
  OBVIOUS
<1>5. /\ Scoped(w2, Body(c), exec'[1].parallel, Board(q2, w2, out2))
      /\ ScopeInv(Board(q2, w2, out2), exec'[1].parallel)
  BY <1>3, <1>4
<1>6. outside' \subseteq outside \union S
  OBVIOUS
<1> QED
  BY <1>2, <1>3, <1>4, <1>5, <1>6, NestStep

\* The last scope of a trail, and the trail without it.
LEMMA TrailLast ==
  ASSUME NEW s \in Seq(Nat), Len(s) # 0, NEW a \in Seq(Nat), Len(a) = Len(s) - 1,
         \A k \in 1 .. (Len(s) - 1) : a[k] = s[k]
  PROVE  /\ Len(Trail(s)) \in 2 .. Len(Trail(s)) /\ Trail(s)[Len(Trail(s))] = s[Len(s)]
         /\ Trail(a) \in Seq(Nat) /\ Len(Trail(a)) = Len(Trail(s)) - 1
         /\ \A k \in 1 .. Len(Trail(a)) : Trail(a)[k] = Trail(s)[k]
<1>1. PICK L \in Nat : L = Len(s)
  OBVIOUS
<1>2. PICK K \in Nat : K = Len(a)
  OBVIOUS
<1>3. L = K + 1
  BY <1>1, <1>2
<1>4. /\ Len(Trail(s)) = Len(s) + 1 /\ Trail(s)[1] = 0
      /\ \A k \in 2 .. (Len(s) + 1) : Trail(s)[k] = s[k - 1] /\ k - 1 \in 1 .. Len(s)
  BY TrailIs
<1>5. /\ Trail(a) \in Seq(Nat) /\ Len(Trail(a)) = Len(a) + 1 /\ Trail(a)[1] = 0
      /\ \A k \in 2 .. (Len(a) + 1) : Trail(a)[k] = a[k - 1] /\ k - 1 \in 1 .. Len(a)
  BY TrailIs
<1>6. L + 1 \in 2 .. (L + 1) /\ (L + 1) - 1 = L
  BY <1>2, <1>3
<1>7. Trail(s)[L + 1] = s[L]
  BY <1>1, <1>4, <1>6
<1>8. ASSUME NEW k \in 1 .. (K + 1)
      PROVE  Trail(a)[k] = Trail(s)[k]
  <2>1. CASE k = 1
    BY <1>4, <1>5, <2>1
  <2>2. CASE k # 1
    <3>1. k \in 2 .. (K + 1) /\ k \in 2 .. (L + 1) /\ k - 1 \in 1 .. (L - 1)
      BY <1>3, <2>2
    <3>2. Trail(a)[k] = a[k - 1] /\ Trail(s)[k] = s[k - 1]
      BY <1>1, <1>2, <1>4, <1>5, <3>1
    <3>3. a[k - 1] = s[k - 1]
      BY <1>1, <3>1
    <3> QED
      BY <3>2, <3>3
  <2> QED
    BY <2>1, <2>2
<1>9. Len(Trail(a)) = K + 1 /\ Len(Trail(s)) = L + 1
  BY <1>1, <1>2, <1>4, <1>5
<1> QED
  BY <1>1, <1>2, <1>3, <1>5, <1>6, <1>7, <1>8, <1>9

LEMMA InnermostLast ==
  ASSUME NEW depth, NEW loops, NEW b, NestedBody(b, depth, loops), depth[b.step] \in Nat,
         depth[b.step] > 0
  PROVE  LastOf(b.idxs, b.idx, Enclosing(b.idxs, b.idx))
<1>1. b.idxs \in Seq(Nat)
  BY DEF NestedBody
<1>2. /\ Len(b.idxs) # 0 /\ b.idx = b.idxs[Len(b.idxs)]
      /\ Enclosing(b.idxs, b.idx) \in Seq(Nat)
      /\ Len(Enclosing(b.idxs, b.idx)) = Len(b.idxs) - 1
      /\ \A k \in 1 .. (Len(b.idxs) - 1) : Enclosing(b.idxs, b.idx)[k] = b.idxs[k]
  BY InnermostIs
<1> QED
  BY <1>1, <1>2 DEF LastOf

LEMMA LastTrail ==
  ASSUME NEW s, NEW i, NEW a, LastOf(s, i, a)
  PROVE  LastOf(Trail(s), i, Trail(a)) /\ Len(Trail(s)) \in 2 .. Len(Trail(s))
<1>1. /\ s \in Seq(Nat) /\ Len(s) # 0 /\ a \in Seq(Nat) /\ Len(a) = Len(s) - 1
      /\ s[Len(s)] = i
      /\ \A k \in 1 .. (Len(s) - 1) : a[k] = s[k]
  BY DEF LastOf
<1>2. /\ Len(Trail(s)) \in 2 .. Len(Trail(s)) /\ Trail(s)[Len(Trail(s))] = s[Len(s)]
      /\ Trail(a) \in Seq(Nat) /\ Len(Trail(a)) = Len(Trail(s)) - 1
      /\ \A k \in 1 .. Len(Trail(a)) : Trail(a)[k] = Trail(s)[k]
  BY <1>1, TrailLast
<1>3. Trail(s) \in Seq(Nat)
  BY <1>1, TrailIs
<1> QED
  BY <1>1, <1>2, <1>3 DEF LastOf

\* At a Parallel End the handler's scope is the last of its trail.
LEMMA EndScope ==
  ASSUME NEW c, Consumer = {c}, NEW depth, NEW loops, WellNested(depth, loops),
         NEW D, Inv(D), NestInv(c, depth, loops), worker[c].pc \in Scoping,
         Here(c) = "Parallel End", NEW s, s = Body(c).idxs, NEW j, j = worker[c].idx
  PROVE  LastOf(Trail(s), j, Trail(Enclosing(s, j)))
         /\ Len(Trail(s)) \in 2 .. Len(Trail(s))
<1>1. ~At(c, "idle")
  BY DEF At, Scoping
<1>2. PICK b : b = Body(c)
  OBVIOUS
<1>3. NestedBody(b, depth, loops) /\ b.step \in Step /\ T[b.step] = "Parallel End"
  BY <1>1, <1>2, NestKnown DEF NestedBody, Here
<1>4. depth[b.step] \in Nat /\ depth[b.step] > 0
  BY <1>3 DEF WellNested
<1>5. j = b.idx
  BY <1>2, <1>3 DEF NestInv, Placed, Opened
<1>6. LastOf(b.idxs, b.idx, Enclosing(b.idxs, b.idx))
  BY <1>3, <1>4, InnermostLast
<1>7. LastOf(s, j, Enclosing(s, j))
  BY <1>2, <1>5, <1>6
<1> QED
  BY <1>7, LastTrail

\* Parallel End counts its branch: the last branch of a scope goes on in the
\* scopes around it, the others wait no longer.
LEMMA ArriveNest ==
  ASSUME NEW c, Consumer = {c}, NEW depth, NEW loops, WellNested(depth, loops),
         NEW D, Inv(D), NestInv(c, depth, loops), JoinInv, ArriveBranch(c)
  PROVE  NestInv(c, depth, loops)'
<1>1. ~At(c, "idle") /\ c \in Consumer /\ worker[c].pc = "parallel" /\ Here(c) = "Parallel End"
  BY DEF At, ArriveBranch
<1>2. PICK b : b = Body(c)
  OBVIOUS
<1>3. NestedBody(b, depth, loops) /\ b.step \in Step /\ T[b.step] = "Parallel End"
  BY <1>1, <1>2, NestKnown DEF NestedBody, Here
<1>4. PICK P : P = exec[1].parallel
  OBVIOUS
<1>5. worker[c].parallel = P /\ P \in Seq(ParallelEntry)
  BY <1>1, <1>4, OwnCopy, OwnList DEF Copying
<1>6. PICK j : j = worker[c].idx
  OBVIOUS
<1>7. PICK P2 : P2 = Arrive(P, j)
  OBVIOUS
<1>8. PICK B : B = Board(mail, worker[c], outside)
  OBVIOUS
<1>9. ScopeInv(B, P)
  BY <1>4, <1>8 DEF NestInv
<1>10. PICK t : t = <<"mail", worker[c].msg>>
  OBVIOUS
<1>11. t \in DOMAIN B /\ B[t] = Trail(b.idxs)
  <2>1. Counts(worker[c], b) /\ ~Past(worker[c], b)
    BY <1>1 DEF Counts, Past
  <2> QED
    BY <1>1, <1>2, <1>8, <1>10, <2>1, OwnTrail
<1>12. PICK trail : trail = Trail(Enclosing(b.idxs, j))
  OBVIOUS
<1>13. LastOf(B[t], j, trail) /\ Len(B[t]) \in 2 .. Len(B[t])
  <2>1. PICK s : s = Body(c).idxs
    OBVIOUS
  <2>2. worker[c].pc \in Scoping
    BY <1>1 DEF Scoping
  <2>3. LastOf(Trail(s), j, Trail(Enclosing(s, j))) /\ Len(Trail(s)) \in 2 .. Len(Trail(s))
    BY <1>1, <1>6, <2>1, <2>2, EndScope
  <2> QED
    BY <1>2, <1>11, <1>12, <2>1, <2>3
<1>14. IsTrail(B[t], P)
  BY <1>9, <1>11 DEF ScopeInv
<1>15. j \in DOMAIN P
  BY <1>13, <1>14 DEF IsTrail, LastOf
<1>16. /\ P2 \in Seq(ParallelEntry) /\ DOMAIN P2 = DOMAIN P
       /\ \A k \in DOMAIN P : P2[k].active = P[k].active
  <2>1. /\ P2 \in Seq(ParallelEntry) /\ DOMAIN P2 = DOMAIN P
        /\ \A k \in DOMAIN P : k # j => P2[k] = P[k]
        /\ P2[j].active = P[j].active
    BY <1>5, <1>7, <1>15, Counting1
  <2> QED
    BY <2>1
<1>17. IsTrail(B[t], P2)
  BY <1>14, <1>16 DEF IsTrail
<1>18. PICK w2 : w2 = worker'[c]
  OBVIOUS
<1>19. /\ w2.pc = "perform" /\ w2.parallel = P2 /\ w2.msg = worker[c].msg /\ w2.idx = j
       /\ w2.idxs = worker[c].idxs
  <2>1. worker' = [worker EXCEPT ![c].pc = "perform", ![c].parallel = P2]
    BY <1>5, <1>6, <1>7 DEF ArriveBranch
  <2>2. PICK w : w = worker[c]
    OBVIOUS
  <2>3. w = [f \in HandlerField |-> w[f]]
    BY <1>1, <2>2, NestKnown
  <2>4. w2 = [w EXCEPT !.pc = "perform", !.parallel = P2]
    BY <1>1, <1>18, <2>1, <2>2, NestKnown
  <2>5. /\ w2.pc = "perform" /\ w2.parallel = P2 /\ w2.msg = w.msg /\ w2.idx = w.idx
        /\ w2.idxs = w.idxs
    BY <2>3, <2>4 DEF HandlerField
  <2> QED
    BY <1>6, <2>2, <2>5
<1>20. PICK r : r = [exec[1] EXCEPT !.parallel = P2]
  OBVIOUS
<1>21. /\ \A e \in Exec \ {1} : exec'[e] = exec[e]
       /\ exec'[1].parallel = P2 /\ exec'[1].status = exec[1].status
  <2>1. r.parallel = P2 /\ r.status = exec[1].status
    BY <1>1, <1>20, OwnSaved
  <2>2. exec' = [exec EXCEPT ![1].parallel = P2]
    BY <1>1, <1>5, <1>6, <1>7, OwnSaved DEF ArriveBranch
  <2>3. exec' = [exec EXCEPT ![1] = r]
    BY <1>20, <2>2
  <2> QED
    BY <1>1, <2>1, <2>3, OwnSaved
<1>22. Placed(worker[c], b)
  BY <1>2 DEF NestInv
<1>23. Placed(w2, b)
  BY <1>1, <1>3, <1>6, <1>19, <1>22 DEF Placed, Opened, Scoping
<1>24. UNCHANGED <<mail, outside, budget>> /\ worker[c].pc \notin {"idle", "end", "return"}
  BY <1>1 DEF ArriveBranch
<1>25. \A m \in Msg : mail[m].state = "handled" => m = worker[c].msg /\ mail[m].body = b
  BY <1>2 DEF NestInv, Held, Body
<1>26. CASE JoinReady(P2, j)
  <2>1. P2[j].finished = P2[j].total
    BY <1>26 DEF JoinReady
  <2>2. Past(w2, b)
    BY <1>3, <1>19 DEF Past
  <2>3. Handover(mail, worker[c], outside, mail, w2, outside, t, {t}, trail)
    <3>1. ASSUME NEW m \in Msg, Live(mail, w2, m)
          PROVE  IF <<"mail", m>> \in {t} THEN Trail(Scopes(mail, w2, m)) = trail
                 ELSE /\ <<"mail", m>> # t /\ Live(mail, worker[c], m)
                      /\ Scopes(mail, w2, m) = Scopes(mail, worker[c], m)
      <4>1. CASE mail[m].state = "handled"
        <5>1. m = worker[c].msg /\ mail[m].body = b
          BY <1>25, <4>1
        <5>2. Scopes(mail, w2, m) = Enclosing(b.idxs, j)
          BY <1>19, <2>2, <4>1, <5>1 DEF Scopes
        <5>3. <<"mail", m>> = t
          BY <1>10, <5>1
        <5> QED
          BY <1>12, <5>2, <5>3
      <4>2. CASE mail[m].state # "handled"
        <5>1. m # worker[c].msg
          BY <1>1, <4>2, NestKnown
        <5>2. <<"mail", m>> # t
          BY <1>10, <5>1
        <5>3. Live(mail, worker[c], m) /\ Scopes(mail, w2, m) = Scopes(mail, worker[c], m)
          BY <3>1, <4>2 DEF Live, Scopes
        <5> QED
          BY <5>2, <5>3
      <4> QED
        BY <4>1, <4>2
    <3>2. ASSUME NEW d \in outside
          PROVE  IF <<"out", d>> \in {t} THEN Trail(d.idxs) = trail
                 ELSE <<"out", d>> # t /\ d \in outside
      BY <1>10
    <3> QED
      BY <3>1, <3>2 DEF Handover
  <2>4. j = B[t][Len(B[t])]
    BY <1>13 DEF LastOf
  <2>5. ScopeInv(Board(mail, w2, outside), P2) /\ Clear(Board(mail, w2, outside), j)
    BY <1>5, <1>7, <1>8, <1>9, <1>11, <1>13, <1>15, <1>26, <2>3, BoardCloses
  <2>6. Scoped(w2, b, P2, Board(mail, w2, outside))
    BY <1>3, <1>11, <1>17, <1>19, <2>5 DEF Scoped
  <2> QED
    BY <1>2, <1>18, <1>19, <1>21, <1>23, <1>24, <2>5, <2>6, NestTurn
<1>27. CASE ~JoinReady(P2, j)
  <2>1. ~Counts(w2, b)
    BY <1>3, <1>19, <1>27 DEF Counts
  <2>2. PICK N : N = {}
    OBVIOUS
  <2>3. Handover(mail, worker[c], outside, mail, w2, outside, t, N, trail)
    <3>1. ASSUME NEW m \in Msg, Live(mail, w2, m)
          PROVE  /\ <<"mail", m>> # t /\ Live(mail, worker[c], m)
                 /\ Scopes(mail, w2, m) = Scopes(mail, worker[c], m)
      <4>1. mail[m].state = "queued"
        BY <1>25, <2>1, <3>1 DEF Live
      <4>2. m # worker[c].msg
        BY <1>1, <4>1, NestKnown
      <4>3. <<"mail", m>> # t
        BY <1>10, <4>2
      <4> QED
        BY <4>1, <4>3 DEF Live, Scopes
    <3>2. ASSUME NEW d \in outside
          PROVE  <<"out", d>> # t
      BY <1>10
    <3> QED
      BY <2>2, <3>1, <3>2 DEF Handover
  <2>4. j = B[t][Len(B[t])]
    BY <1>13 DEF LastOf
  <2>5. Handover(mail, worker[c], outside, mail, w2, outside, t, {}, trail)
    BY <2>2, <2>3
  <2>6. ScopeInv(Board(mail, w2, outside), P2)
    BY <1>5, <1>7, <1>8, <1>9, <1>11, <1>15, <2>4, <2>5, BoardArrives
  <2>7. Scoped(w2, b, P2, Board(mail, w2, outside))
    BY <1>3, <1>11, <1>17, <1>19, <1>27 DEF Scoped
  <2> QED
    BY <1>2, <1>18, <1>19, <1>21, <1>23, <1>24, <2>6, <2>7, NestTurn
<1> QED
  BY <1>26, <1>27

\* Parallel End closes the scope nobody works in any more, or its work is done.
LEMMA JoinNest ==
  ASSUME NEW c, Consumer = {c}, NEW depth, NEW loops, NEW D, Inv(D), NestInv(c, depth, loops),
         JoinInv, JoinBranches(c)
  PROVE  NestInv(c, depth, loops)'
<1>1. ~At(c, "idle") /\ c \in Consumer /\ worker[c].pc = "join"
      /\ worker[c].pc \notin {"idle", "end", "return"}
  BY DEF At, JoinBranches
<1>2. PICK b : b = Body(c)
  OBVIOUS
<1>3. PICK P : P = exec[1].parallel
  OBVIOUS
<1>4. worker[c].parallel = P /\ P \in Seq(ParallelEntry)
  BY <1>1, <1>3, OwnCopy, OwnList DEF Copying
<1>5. PICK j : j = worker[c].idx
  OBVIOUS
<1>6. UNCHANGED <<mail, outside, budget>>
  BY DEF JoinBranches
<1>7. CASE ~JoinReady(P, j)
  <2>1. Goto(c, "close") /\ UNCHANGED exec
    BY <1>4, <1>5, <1>7 DEF JoinBranches
  <2> QED
    BY <1>1, <1>6, <2>1, GotoNest
<1>8. CASE JoinReady(P, j)
  <2>1. PICK P2 : P2 = Complete(P, j)
    OBVIOUS
  <2>2. PICK B : B = Board(mail, worker[c], outside)
    OBVIOUS
  <2>3. ScopeInv(B, P) /\ Scoped(worker[c], b, P, B) /\ Placed(worker[c], b)
    BY <1>2, <1>3, <2>2 DEF NestInv
  <2>4. T[b.step] = "Parallel End"
    BY <1>1, <2>3 DEF Placed
  <2>5. Clear(B, j)
    BY <1>1, <1>5, <1>8, <2>3, <2>4 DEF Scoped
  <2>6. ScopeInv(B, P2)
    BY <1>4, <2>1, <2>3, <2>5, Closing
  <2>7. P2 \in Seq(ParallelEntry)
    BY <1>4, <2>1, ParallelTypes
  <2>8. PICK r : r = [exec[1] EXCEPT !.parallel = P2]
    OBVIOUS
  <2>9. /\ \A e \in Exec \ {1} : exec'[e] = exec[e]
        /\ exec'[1].parallel = P2 /\ exec'[1].status = exec[1].status
    <3>1. r.parallel = P2 /\ r.status = exec[1].status
      BY <1>1, <2>8, OwnSaved
    <3>2. exec' = [exec EXCEPT ![1].parallel = P2]
      BY <1>1, <1>4, <1>5, <1>8, <2>1, OwnSaved DEF JoinBranches
    <3>3. exec' = [exec EXCEPT ![1] = r]
      BY <2>8, <3>2
    <3> QED
      BY <1>1, <3>1, <3>3, OwnSaved
  <2>10. PICK w2 : w2 = worker'[c]
    OBVIOUS
  <2>11. /\ w2.pc = "joined" /\ w2.msg = worker[c].msg /\ w2.idx = j
         /\ w2.idxs = worker[c].idxs /\ w2.next = worker[c].next
    <3>1. worker' = [worker EXCEPT ![c].pc = "joined"]
      BY <1>4, <1>5, <1>8 DEF JoinBranches
    <3> QED
      BY <1>1, <1>5, <2>10, <3>1, NestKnown DEF HandlerField
  <2>12. Placed(w2, b)
    BY <1>1, <1>5, <2>3, <2>4, <2>11 DEF Placed, Opened, Scoping
  <2>13. Scoped(w2, b, P2, B)
    BY <2>4, <2>5, <2>11 DEF Scoped
  <2>14. Counts(worker[c], b) /\ (Past(w2, b) <=> Past(worker[c], b))
    BY <1>1, <1>4, <1>5, <1>8, <2>4, <2>11 DEF Counts, Past
  <2> QED
    BY <1>1, <1>2, <1>5, <1>6, <2>2, <2>6, <2>7, <2>9, <2>10, <2>11, <2>12, <2>13, <2>14, NestQuiet
<1> QED
  BY <1>7, <1>8

\* End Loop sends the first step of the loop again, in the scopes it is in.
LEMMA LoopNest ==
  ASSUME NEW c, Consumer = {c}, NEW depth, NEW loops, WellNested(depth, loops),
         NEW D, Inv(D), NestInv(c, depth, loops), LoopBack(c)
  PROVE  NestInv(c, depth, loops)'
<1>1. ~At(c, "idle") /\ c \in Consumer /\ worker[c].pc = "loop"
      /\ worker[c].pc \notin {"idle", "end", "return"}
  BY DEF At, LoopBack
<1>2. PICK b : b = Body(c)
  OBVIOUS
<1>3. NestedBody(b, depth, loops) /\ b.step \in Step /\ LoopsAgain(b) /\ Whole(b)
  <2>1. NestedBody(b, depth, loops) /\ b.step \in Step
    BY <1>1, <1>2, NestKnown DEF NestedBody
  <2>2. Whole(b)
    BY <1>1, <1>2, NestKnown DEF Whole
  <2>3. LoopsAgain(b)
    BY <1>1, <1>2 DEF NestInv, Placed
  <2> QED
    BY <2>1, <2>2, <2>3
<1>4. T[b.step] = "End Loop" /\ b.loop # None
  BY <1>3 DEF LoopsAgain
<1>5. PICK f : f = b.loop.first
  OBVIOUS
<1>6. f \in loops[b.step] /\ f \in Step /\ depth[f] = depth[b.step] /\ f \in loops[f]
  <2>1. f \in loops[b.step]
    BY <1>3, <1>4, <1>5 DEF NestedBody
  <2>2. f \in Step
    BY <1>3, <2>1 DEF WellNested
  <2>3. depth[f] = depth[b.step] /\ f \in loops[f]
    BY <1>3, <1>4, <2>1 DEF WellNested
  <2> QED
    BY <2>1, <2>2, <2>3
<1>7. PICK l : l = NextTurn(b.loop)
  OBVIOUS
<1>8. l.first = f
  <2>1. Sound(Body(c))
    BY <1>1, Handling
  <2>2. b.loop \in Loop
    BY <1>2, <1>4, <2>1 DEF Sound, IsDetail
  <2>3. PICK n : n = b.loop.current + 1
    OBVIOUS
  <2>4. l = [b.loop EXCEPT !.current = n]
    BY <1>7, <2>3 DEF NextTurn
  <2> QED
    BY <1>5, <2>2, <2>4 DEF Loop
<1>9. PICK d : d = [b EXCEPT !.step = f, !.loop = l]
  OBVIOUS
<1>10. /\ d.step = f /\ d.loop = l /\ d.exec = b.exec /\ d.parent = b.parent
       /\ d.idx = b.idx /\ d.idxs = b.idxs /\ d.decision = b.decision /\ d.rerun = b.rerun
  BY <1>3, <1>9 DEF Whole, DetailField
<1>11. NestedBody(d, depth, loops)
  BY <1>3, <1>6, <1>8, <1>10 DEF NestedBody
<1>12. PICK S : S = {d}
  OBVIOUS
<1>13. PutEvents(S) /\ Goto(c, "return") /\ UNCHANGED <<exec, outside>>
  BY <1>2, <1>5, <1>7, <1>9, <1>12 DEF LoopBack
<1>14. IsFiniteSet(S) /\ Cardinality(S) <= 1
  BY <1>12, Single
<1>15. Counts(worker[c], Body(c)) /\ ~Past(worker[c], Body(c))
  BY <1>1 DEF Counts, Past
<1>16. /\ \A x \in S : NestedBody(x, depth, loops)
       /\ \A x \in S : Trail(x.idxs) = Trail(IF Past(worker[c], Body(c))
                                             THEN Enclosing(Body(c).idxs, worker[c].idx)
                                             ELSE Body(c).idxs)
  BY <1>2, <1>10, <1>11, <1>12, <1>15
<1> QED
  BY <1>1, <1>13, <1>14, <1>15, <1>16, NestEmit

\* The next steps a handler holds are next steps of its own step.
LEMMA NextOnes ==
  ASSUME NEW c, Consumer = {c}, NEW depth, NEW loops, NEW D, Inv(D), NestInv(c, depth, loops),
         worker[c].pc \in {"error", "onError", "delay", "join", "joined", "emit"}
  PROVE  /\ ToSet(worker[c].next) \subseteq ToSet(NAID[Body(c).step])
         /\ Here(c) = "Condition" => \A n, k \in ToSet(worker[c].next) : n = k
<1>1. PICK b : b = Body(c)
  OBVIOUS
<1>2. PICK n : n = worker[c].next
  OBVIOUS
<1>3. IF T[b.step] = "Condition" THEN \E s \in ToSet(NAID[b.step]) : n = <<s>>
      ELSE n = NAID[b.step]
  BY <1>1, <1>2 DEF NestInv, Placed
<1>4. CASE T[b.step] = "Condition"
  <2>1. PICK s \in ToSet(NAID[b.step]) : n = <<s>>
    BY <1>3, <1>4
  <2>2. ToSet(n) = {s}
    BY <2>1 DEF ToSet
  <2> QED
    BY <1>1, <1>2, <2>1, <2>2
<1>5. CASE T[b.step] # "Condition"
  BY <1>1, <1>2, <1>3, <1>5 DEF Here
<1> QED
  BY <1>4, <1>5

\* The step of an entry is the next step it was made for.
LEMMA EntrySteps ==
  ASSUME NEW c, Consumer = {c}, NEW depth, NEW loops, WellNested(depth, loops),
         NEW D, Inv(D), NestInv(c, depth, loops),
         worker[c].pc \in {"error", "onError", "delay", "join", "joined", "emit"},
         NEW d \in Entries(c)
  PROVE  /\ d.step \in ToSet(worker[c].next) /\ d.step \in ToSet(NAID[Body(c).step])
         /\ d = Entry(c, d.step)
<1>1. ~At(c, "idle")
  BY DEF At
<1>2. PICK s \in ToSet(worker[c].next) : d = Entry(c, s)
  BY DEF Entries
<1>3. s \in ToSet(NAID[Body(c).step])
  BY NextOnes
<1>4. Follows(Body(c), worker[c], s, d, depth, loops)
  BY <1>1, <1>2, <1>3, NestEntry
<1> QED
  BY <1>2, <1>3, <1>4 DEF Follows

\* A step that opens and closes no scope sends one message at most, in its own.
LEMMA PlainEmit ==
  ASSUME NEW c, Consumer = {c}, NEW depth, NEW loops, WellNested(depth, loops),
         NEW D, Inv(D), NestInv(c, depth, loops),
         worker[c].pc \in {"onError", "emit"},
         Here(c) \notin {"Parallel Start", "Parallel End"},
         UNCHANGED <<exec, outside>>, NEW p \in {"close", "return"}, Goto(c, p),
         NEW S, S \subseteq Entries(c), \A d, e \in S : d.step = e.step, PutEvents(S)
  PROVE  NestInv(c, depth, loops)'
<1>1. /\ ~At(c, "idle") /\ worker[c].pc \notin {"idle", "end", "return"}
      /\ worker[c].pc \in Scoping
  BY DEF At, Scoping
<1>2. ASSUME NEW d \in S
      PROVE  /\ NestedBody(d, depth, loops) /\ d.idxs = Body(c).idxs
             /\ d = Entry(c, d.step)
  <2>1. d.step \in ToSet(NAID[Body(c).step]) /\ d = Entry(c, d.step)
    BY EntrySteps
  <2>2. NestedBody(d, depth, loops) /\ d.idxs = Body(c).idxs
    BY <1>1, <2>1, PlainlyNested
  <2> QED
    BY <2>1, <2>2
<1>3. \A d, e \in S : d = e
  <2> TAKE d, e \in S
  <2>1. d = Entry(c, d.step) /\ e = Entry(c, e.step) /\ d.step = e.step
    BY <1>2
  <2> QED
    BY <2>1
<1>4. IsFiniteSet(S) /\ Cardinality(S) <= 1
  BY <1>3, Single
<1>5. Counts(worker[c], Body(c)) /\ ~Past(worker[c], Body(c))
  BY DEF Counts, Past
<1>6. \A d \in S : Trail(d.idxs) = Trail(IF Past(worker[c], Body(c))
                                         THEN Enclosing(Body(c).idxs, worker[c].idx)
                                         ELSE Body(c).idxs)
  BY <1>2, <1>5
<1>7. \A d \in S : NestedBody(d, depth, loops)
  BY <1>2
<1> QED
  BY <1>1, <1>4, <1>5, <1>6, <1>7, NestEmit

\* What the steps on the way of a Web Service, a Condition or another have in
\* common: one next step.
LEMMA OneWayOn ==
  ASSUME NEW depth, NEW loops, WellNested(depth, loops), NEW s \in Step,
         T[s] \notin {"Parallel Start", "Condition"},
         NEW n \in ToSet(NAID[s]), NEW k \in ToSet(NAID[s]),
         T[s] = "Web Service" /\ ErrorAction[s] = "EXIT-PATH" =>
           n # DefaultNext[s] /\ k # DefaultNext[s]
  PROVE  n = k
<1>1. n \in WaysOn(s) /\ k \in WaysOn(s)
  BY DEF WaysOn
<1> QED
  BY <1>1 DEF WellNested

LEMMA ContinueNest ==
  ASSUME NEW c, Consumer = {c}, NEW depth, NEW loops, WellNested(depth, loops),
         NEW D, Inv(D), NestInv(c, depth, loops), ContinueAfterError(c)
  PROVE  NestInv(c, depth, loops)'
<1>1. ~At(c, "idle") /\ worker[c].pc = "onError" /\ Here(c) = "Web Service"
  BY DEF At, ContinueAfterError, NestInv, Placed, Here
<1>2. PICK s : s = Body(c).step
  OBVIOUS
<1>3. s \in Step /\ T[s] = "Web Service"
  BY <1>1, <1>2, NestKnown DEF NestedBody, Here
<1>4. PICK S : S = {d \in Entries(c) : ErrorAction[s] # "IGNORE" => d.step = DefaultNext[s]}
  OBVIOUS
<1>5. PutEvents(S) /\ Goto(c, "return") /\ UNCHANGED <<exec, outside>>
  BY <1>2, <1>4 DEF ContinueAfterError
<1>6. \A d, e \in S : d.step = e.step
  <2> TAKE d, e \in S
  <2>1. CASE ErrorAction[s] # "IGNORE"
    BY <1>4, <2>1
  <2>2. CASE ErrorAction[s] = "IGNORE"
    <3>1. d \in Entries(c) /\ e \in Entries(c)
      BY <1>4
    <3>2. d.step \in ToSet(NAID[s]) /\ e.step \in ToSet(NAID[s])
      BY <1>1, <1>2, <3>1, EntrySteps
    <3> QED
      BY <1>3, <2>2, <3>2, OneWayOn
  <2> QED
    BY <2>1, <2>2
<1>7. S \subseteq Entries(c) /\ worker[c].pc \in {"onError", "emit"}
      /\ Here(c) \notin {"Parallel Start", "Parallel End"}
  BY <1>1, <1>4
<1> QED
  BY <1>5, <1>6, <1>7, PlainEmit

\* The messages of the next steps, outside of forks and joins.
LEMMA EmitPlainNest ==
  ASSUME NEW c, Consumer = {c}, NEW depth, NEW loops, WellNested(depth, loops),
         NEW D, Inv(D), NestInv(c, depth, loops), EmitNext(c), Here(c) # "Parallel Start"
  PROVE  NestInv(c, depth, loops)'
<1>1. ~At(c, "idle") /\ worker[c].pc = "emit" /\ Here(c) # "Parallel End"
  BY DEF At, EmitNext, NestInv, Placed, Here
<1>2. PICK s : s = Body(c).step
  OBVIOUS
<1>3. s \in Step /\ T[s] # "Parallel Start"
  BY <1>1, <1>2, NestKnown DEF NestedBody, Here
<1>4. PICK S : S = {d \in Entries(c) :
                      (T[s] = "Web Service" /\ ErrorAction[s] = "EXIT-PATH")
                        => d.step # DefaultNext[s]}
  OBVIOUS
<1>5. PutEvents(S) /\ Goto(c, "close") /\ UNCHANGED <<exec, outside>>
  BY <1>2, <1>4 DEF EmitNext
<1>6. \A d, e \in S : d.step = e.step
  <2> TAKE d, e \in S
  <2>1. d \in Entries(c) /\ e \in Entries(c)
    BY <1>4
  <2>2. /\ d.step \in ToSet(NAID[s]) /\ e.step \in ToSet(NAID[s])
        /\ d.step \in ToSet(worker[c].next) /\ e.step \in ToSet(worker[c].next)
    BY <1>1, <1>2, <2>1, EntrySteps
  <2>3. CASE T[s] = "Condition"
    <3>1. \A n, k \in ToSet(worker[c].next) : n = k
      BY <1>1, <1>2, <2>3, NextOnes DEF Here
    <3> QED
      BY <2>2, <3>1
  <2>4. CASE T[s] # "Condition"
    BY <1>3, <1>4, <2>2, <2>4, OneWayOn
  <2> QED
    BY <2>3, <2>4
<1>7. S \subseteq Entries(c) /\ worker[c].pc \in {"onError", "emit"}
      /\ Here(c) \notin {"Parallel Start", "Parallel End"}
  BY <1>1, <1>4
<1> QED
  BY <1>5, <1>6, <1>7, PlainEmit

\* The step after a join: one message, in the scopes around the one closed.
LEMMA EmitJoinedNest ==
  ASSUME NEW c, Consumer = {c}, NEW depth, NEW loops, WellNested(depth, loops),
         NEW D, Inv(D), NestInv(c, depth, loops), EmitJoined(c)
  PROVE  NestInv(c, depth, loops)'
<1>1. ~At(c, "idle") /\ worker[c].pc = "joined" /\ At(c, "joined") /\ Here(c) = "Parallel End"
      /\ worker[c].pc \notin {"idle", "end", "return"}
  BY DEF At, EmitJoined, NestInv, Placed, Here
<1>2. PICK s : s = Body(c).step
  OBVIOUS
<1>3. s \in Step /\ T[s] = "Parallel End"
  BY <1>1, <1>2, NestKnown DEF NestedBody, Here
<1>4. PICK outer : outer = Enclosing(worker[c].idxs, worker[c].idx)
  OBVIOUS
<1>5. PICK S : S = {[d EXCEPT !.idxs = outer, !.idx = Innermost(outer)] : d \in Entries(c)}
  OBVIOUS
<1>6. PutEvents(S) /\ Goto(c, "close") /\ UNCHANGED <<exec, outside>>
  BY <1>4, <1>5 DEF EmitJoined
<1>7. ASSUME NEW x \in S
      PROVE  /\ NestedBody(x, depth, loops)
             /\ x.idxs = Enclosing(Body(c).idxs, worker[c].idx)
  <2>1. PICK d \in Entries(c) : x = [d EXCEPT !.idxs = outer, !.idx = Innermost(outer)]
    BY <1>5
  <2>2. PICK n : n = d.step
    OBVIOUS
  <2>3. n \in ToSet(NAID[Body(c).step]) /\ d = Entry(c, n)
    BY <1>1, <2>2, EntrySteps
  <2>4. x = [Entry(c, n) EXCEPT !.idxs = outer, !.idx = Innermost(outer)]
    BY <2>1, <2>3
  <2> QED
    BY <1>1, <1>4, <2>3, <2>4, JoinedNested, ZenonT(60)
<1>8. \A x, y \in S : x = y
  <2>1. \A d, e \in Entries(c) : d = e
    <3> TAKE d, e \in Entries(c)
    <3>1. /\ d.step \in ToSet(NAID[s]) /\ e.step \in ToSet(NAID[s])
          /\ d = Entry(c, d.step) /\ e = Entry(c, e.step)
      BY <1>1, <1>2, EntrySteps
    <3>2. d.step = e.step
      BY <1>3, <3>1, OneWayOn
    <3> QED
      BY <3>1, <3>2
  <2> QED
    BY <1>5, <2>1
<1>9. IsFiniteSet(S) /\ Cardinality(S) <= 1
  BY <1>8, Single
<1>10. Counts(worker[c], Body(c)) /\ Past(worker[c], Body(c))
  BY <1>1 DEF Counts, Past, Here
<1>11. /\ \A x \in S : NestedBody(x, depth, loops)
       /\ \A x \in S : Trail(x.idxs) = Trail(IF Past(worker[c], Body(c))
                                             THEN Enclosing(Body(c).idxs, worker[c].idx)
                                             ELSE Body(c).idxs)
  BY <1>7, <1>10
<1> QED
  BY <1>1, <1>6, <1>9, <1>10, <1>11, NestEmit

\* There are no more entries than next steps.
LEMMA EntriesFew ==
  ASSUME NEW c, worker[c].next \in Seq(Step)
  PROVE  IsFiniteSet(Entries(c)) /\ Cardinality(Entries(c)) <= Len(worker[c].next)
<1>1. PICK n : n = worker[c].next
  OBVIOUS
<1>2. PICK L \in Nat : L = Len(n)
  BY <1>1
<1>3. DOMAIN n = 1 .. L
  BY <1>1, <1>2
<1>4. \A d : d \in Entries(c) <=> \E i \in 1 .. L : d = Entry(c, n[i])
  BY <1>1, <1>3 DEF Entries, ToSet
<1> DEFINE f == [i \in 1 .. L |-> Entry(c, n[i])]
<1>5. PICK E : E = Entries(c)
  OBVIOUS
<1>6. f \in Surjection(1 .. L, E)
  BY <1>4, <1>5 DEF Surjection
<1> HIDE DEF f
<1>7. IsFiniteSet(1 .. L) /\ Cardinality(1 .. L) = L
  BY FS_Interval
<1>8. IsFiniteSet(E) /\ Cardinality(E) <= L
  BY <1>6, <1>7, FS_Surjection
<1> QED
  BY <1>1, <1>2, <1>5, <1>8

\* A handler that has done its work.
LEMMA PlacedLast ==
  ASSUME NEW w, NEW b, Placed(w, b), w.pc \notin {"idle", "end", "return"},
         NEW w2, w2.pc \in {"close", "return"}
  PROVE  Placed(w2, b)
BY DEF Placed, Scoping

LEMMA TrailBelow ==
  ASSUME NEW s \in Seq(Nat), NEW n \in Nat \ {0}, \A k \in DOMAIN s : s[k] < n
  PROVE  \A k \in DOMAIN Trail(s) : Trail(s)[k] < n
<1>1. PICK L \in Nat : L = Len(s)
  OBVIOUS
<1>2. /\ DOMAIN Trail(s) = 1 .. (L + 1) /\ Trail(s)[1] = 0
      /\ \A k \in 2 .. (L + 1) : Trail(s)[k] = s[k - 1] /\ k - 1 \in 1 .. L
  BY <1>1, TrailIs
<1>3. \A k \in 1 .. L : s[k] < n
  BY <1>1
<1>4. ASSUME NEW k \in 1 .. (L + 1)
      PROVE  Trail(s)[k] < n
  <2>1. CASE k = 1
    BY <1>2, <2>1
  <2>2. CASE k # 1
    <3>1. k \in 2 .. (L + 1)
      BY <2>2
    <3> QED
      BY <1>2, <1>3, <3>1
  <2> QED
    BY <2>1, <2>2
<1> QED
  BY <1>2, <1>4

Forks(c) == Here(c) = "Parallel Start"

\* The messages of the branches: no more than the entry counts, all in it.
LEMMA EmitForkNest ==
  ASSUME NEW c, Consumer = {c}, NEW depth, NEW loops, WellNested(depth, loops),
         NEW D, Inv(D), NestInv(c, depth, loops), EmitNext(c), Forks(c)
  PROVE  NestInv(c, depth, loops)'
<1>1. ~At(c, "idle") /\ worker[c].pc = "emit" /\ At(c, "emit") /\ c \in Consumer
      /\ worker[c].pc \notin {"idle", "end", "return"}
  BY DEF At, EmitNext
<1>2. PICK b : b = Body(c)
  OBVIOUS
<1>3. NestedBody(b, depth, loops) /\ b.step \in Step /\ T[b.step] = "Parallel Start"
  BY <1>1, <1>2, NestKnown DEF NestedBody, Here, Forks
<1>4. PICK n : n = worker[c].idx
  OBVIOUS
<1>5. PICK P : P = exec[1].parallel
  OBVIOUS
<1>6. PICK B : B = Board(mail, worker[c], outside)
  OBVIOUS
<1>7. Placed(worker[c], b) /\ Scoped(worker[c], b, P, B) /\ ScopeInv(B, P)
  BY <1>2, <1>5, <1>6 DEF NestInv
<1>8. P \in Seq(ParallelEntry)
  BY <1>5, OwnList
<1>9. n \in DOMAIN P /\ Clear(B, n) /\ \A k \in DOMAIN b.idxs : b.idxs[k] < n
  BY <1>1, <1>3, <1>4, <1>7 DEF Scoped
<1>10. P[n].active /\ P[n].finished = 0 /\ P[n].total = Len(NAID[b.step])
  <2>1. PICK x : x = Len(NAID[b.step])
    OBVIOUS
  <2>2. P[n] = [active |-> TRUE, total |-> x, finished |-> 0]
    BY <1>1, <1>3, <1>4, <1>7, <2>1 DEF Scoped
  <2> QED
    BY <2>1, <2>2
<1>11. worker[c].next = NAID[b.step] /\ NAID[b.step] \in Seq(Step) /\ Len(NAID[b.step]) \in Nat
  BY <1>1, <1>3, <1>7, NAIDType DEF Placed
<1>12. PICK S : S = Entries(c)
  OBVIOUS
<1>13. PutEvents(S) /\ Goto(c, "close") /\ UNCHANGED <<exec, outside>>
  BY <1>2, <1>3, <1>12 DEF EmitNext
<1>14. IsFiniteSet(S) /\ Cardinality(S) <= Len(NAID[b.step])
  BY <1>11, <1>12, EntriesFew
<1>15. MailInv
  BY DEF Inv
<1>16. /\ Sent(S) /\ IsFiniteSet(New) /\ Cardinality(New) <= Cardinality(S)
       /\ Cardinality(S) \in Nat
       /\ \/ budget' = budget
          \/ budget.losses > 0 /\ budget' = [budget EXCEPT !.losses = @ - 1]
  BY <1>13, <1>14, <1>15, EventsSent
<1>17. PICK N : N = Tokens(New)
  OBVIOUS
<1>18. IsFiniteSet(N) /\ Cardinality(N) <= P[n].total
  <2>1. IsFiniteSet(N) /\ Cardinality(N) <= Cardinality(New)
    BY <1>16, <1>17, MailTokens
  <2>2. Cardinality(N) \in Nat /\ Cardinality(New) \in Nat
    BY <1>16, <2>1, FS_CardinalityType
  <2>3. PICK x \in Nat : x = Cardinality(N)
    BY <2>2
  <2>4. PICK y \in Nat : y = Cardinality(New)
    BY <2>2
  <2>5. PICK z \in Nat : z = Cardinality(S)
    BY <1>16
  <2>6. PICK l \in Nat : l = Len(NAID[b.step])
    BY <1>11
  <2>7. x <= y /\ y <= z /\ z <= l
    BY <1>14, <1>16, <2>1, <2>3, <2>4, <2>5, <2>6
  <2>8. x <= l
    BY <2>7
  <2> QED
    BY <1>10, <2>1, <2>3, <2>6, <2>8
<1>19. PICK trail : trail = Append(Trail(b.idxs), n)
  OBVIOUS
<1>20. ASSUME NEW d \in S
       PROVE  NestedBody(d, depth, loops) /\ Trail(d.idxs) = trail
  <2>1. PICK s : s = d.step
    OBVIOUS
  <2>2. s \in ToSet(NAID[Body(c).step]) /\ d = Entry(c, s)
    BY <1>1, <1>12, <2>1, EntrySteps
  <2>3. /\ NestedBody(d, depth, loops)
        /\ Trail(d.idxs) = Append(Trail(Body(c).idxs), worker[c].idx)
    BY <1>1, <2>2, BranchNested DEF Forks
  <2> QED
    BY <1>2, <1>4, <1>19, <2>3
<1>21. PICK w2 : w2 = worker'[c]
  OBVIOUS
<1>22. w2.pc = "close" /\ w2.msg = worker[c].msg
  BY <1>1, <1>13, <1>21, NestKnown DEF Goto, HandlerField
<1>23. PICK t : t = <<"mail", worker[c].msg>>
  OBVIOUS
<1>24. t \in DOMAIN B /\ B[t] = Trail(b.idxs)
  <2>1. Counts(worker[c], b) /\ ~Past(worker[c], b)
    BY <1>1 DEF Counts, Past
  <2> QED
    BY <1>1, <1>2, <1>6, <1>23, <2>1, OwnTrail
<1>25. \A k \in DOMAIN B[t] : B[t][k] < n
  <2>1. PICK s : s = b.idxs
    OBVIOUS
  <2>2. s \in Seq(Nat)
    BY <1>3, <2>1 DEF NestedBody
  <2>3. n \in Nat \ {0}
    BY <1>8, <1>9, Entered
  <2>4. \A k \in DOMAIN s : s[k] < n
    BY <1>9, <2>1
  <2>5. \A k \in DOMAIN Trail(s) : Trail(s)[k] < n
    BY <2>2, <2>3, <2>4, TrailBelow
  <2> QED
    BY <1>24, <2>1, <2>5
<1>26. PICK q2 : q2 = mail'
  OBVIOUS
<1>27. Handover(mail, worker[c], outside, q2, w2, outside, t, N, trail)
  <2>1. \A d \in S : Trail(d.idxs) = trail
    BY <1>20
  <2>2. w2.pc \in {"close", "return"}
    BY <1>22
  <2> QED
    BY <1>1, <1>16, <1>17, <1>23, <1>26, <2>1, <2>2, Emission
<1>28. ScopeInv(Board(q2, w2, outside), P)
  <2>1. Handover(mail, worker[c], outside, q2, w2, outside, t, N, Append(B[t], n))
    BY <1>19, <1>24, <1>27
  <2> QED
    BY <1>6, <1>7, <1>8, <1>9, <1>10, <1>18, <1>24, <1>25, <2>1, BoardForks
<1>29. PICK out2 : out2 = outside'
  OBVIOUS
<1>30. exec'[1].parallel = P /\ out2 = outside
  BY <1>5, <1>13, <1>29
<1>31. ScopeInv(Board(q2, w2, out2), exec'[1].parallel)
  BY <1>28, <1>30
<1>32. Scoped(w2, b, exec'[1].parallel, Board(q2, w2, out2)) /\ Placed(w2, b)
  <2>1. Scoped(w2, b, exec'[1].parallel, Board(q2, w2, out2))
    BY <1>22 DEF Scoped
  <2>2. Placed(w2, b)
    BY <1>1, <1>7, <1>22, PlacedLast
  <2> QED
    BY <2>1, <2>2
<1>33. /\ \A d \in S : NestedBody(d, depth, loops)
       /\ outside' \subseteq outside \union S /\ w2.pc # "idle"
       /\ \A e \in Exec \ {1} : exec'[e] = exec[e]
       /\ exec'[1].status = "Finished" => exec[1].status = "Finished"
  BY <1>13, <1>20, <1>22
<1> QED
  BY <1>1, <1>2, <1>16, <1>21, <1>22, <1>26, <1>29, <1>31, <1>32, <1>33, NestStep

\* An idle handler is nowhere and in no scope.
LEMMA NestIdle ==
  ASSUME NEW w, w.pc = "idle", NEW b, NEW P, NEW B
  PROVE  Placed(w, b) /\ Scoped(w, b, P, B) /\ ~Counts(w, b) /\ ~Past(w, b)
BY DEF Placed, Scoped, Scoping, Counts, Past

\* Nothing comes, and End has run before or not at all.
LEMMA EndKept ==
  ASSUME NEW depth, NEW loops, NEW c, NestInv(c, depth, loops),
         exec'[1].status = exec[1].status, outside' \subseteq outside,
         \A m \in Msg : Alive(m)' => Alive(m) /\ mail'[m].body = mail[m].body
  PROVE  EndInv'
<1>1. EndInv
  BY DEF NestInv
<1> SUFFICES ASSUME Len(First) <= 1, exec'[1].status = "Finished"
             PROVE  outside' = {} /\ \A m \in Msg : Alive(m)' => T[mail'[m].body.step] = "End"
  BY DEF EndInv
<1>2. outside = {} /\ \A m \in Msg : Alive(m) => T[mail[m].body.step] = "End"
  BY <1>1 DEF EndInv
<1> QED
  BY <1>2

\* Nothing is sent: the queue, the handler and what is outside count for no more
\* than before.
LEMMA NestLess ==
  ASSUME NEW c, Consumer = {c}, NEW depth, NEW loops, NEW D, Inv(D), NestInv(c, depth, loops),
         NEW q2, q2 = mail', NEW w2, w2 = worker'[c], NEW out2, out2 = outside',
         NEW b2, b2 = Body(c)',
         out2 \subseteq outside, budget' = budget,
         \A e \in Exec \ {1} : exec'[e] = exec[e], exec'[1].parallel = exec[1].parallel,
         \A m \in Msg : q2[m].state # "unsent" => m \in Used /\ q2[m].body = mail[m].body,
         \A m \in Msg : Live(q2, w2, m) =>
           Live(mail, worker[c], m) /\ Scopes(q2, w2, m) = Scopes(mail, worker[c], m),
         \A m \in Msg : q2[m].state = "handled" => w2.pc # "idle" /\ w2.msg = m,
         Placed(w2, b2),
         Scoped(w2, b2, exec[1].parallel, Board(mail, worker[c], outside)),
         EndInv'
  PROVE  NestInv(c, depth, loops)'
<1>1. PICK P : P = exec[1].parallel
  OBVIOUS
<1>2. P \in Seq(ParallelEntry) /\ ScopeInv(Board(mail, worker[c], outside), P)
  BY <1>1, OwnList DEF NestInv
<1>3. /\ ScopeInv(Board(q2, w2, out2), P)
      /\ \A i : Clear(Board(mail, worker[c], outside), i) => Clear(Board(q2, w2, out2), i)
  BY <1>2, BoardLess
<1>4. Scoped(w2, b2, P, Board(q2, w2, out2))
  BY <1>1, <1>3, ScopedKept
<1>5. /\ budget' \in [throws: {0}, crashes: {0}, losses: Nat, users: {0}]
      /\ \A m \in Used' : NestedBody(mail'[m].body, depth, loops)
      /\ \A b \in outside' : NestedBody(b, depth, loops)
      /\ \A e \in Exec \ {1} : exec'[e].status = "none" /\ exec'[e].parallel = << >>
  BY DEF NestInv, Used
<1>6. Held(c)'
  BY DEF Held, At
<1>7. /\ Placed(worker[c], Body(c))'
      /\ Scoped(worker[c], Body(c), exec[1].parallel, Board(mail, worker[c], outside))'
      /\ ScopeInv(Board(mail, worker[c], outside), exec[1].parallel)'
  BY <1>1, <1>3, <1>4
<1> QED
  BY <1>5, <1>6, <1>7 DEF NestInv

\* A message is taken: its token is the handler's.
LEMMA ReceiveNest ==
  ASSUME NEW c, Consumer = {c}, NEW depth, NEW loops, NEW D, Inv(D), NestInv(c, depth, loops),
         Receive(c)
  PROVE  NestInv(c, depth, loops)'
<1>1. PICK m \in Msg :
        /\ mail[m].state = "queued" /\ mail[m].receives < MaxReceive
        /\ mail' = [mail EXCEPT ![m].state = "handled", ![m].receives = @ + 1]
        /\ worker' = [worker EXCEPT ![c] =
             [Resting EXCEPT !.pc = Dispatch(mail[m].body), !.msg = m]]
  BY DEF Receive
<1>2. m \in Used /\ NestedBody(mail[m].body, depth, loops) /\ worker[c].pc = "idle"
  BY <1>1 DEF Used, NestInv, Receive, At
<1>3. PICK b : b = mail[m].body
  OBVIOUS
<1>4. PICK q2 : q2 = mail'
  OBVIOUS
<1>5. /\ \A x \in Msg \ {m} : q2[x] = mail[x]
      /\ q2[m].state = "handled" /\ q2[m].body = b
  BY <1>1, <1>3, <1>4 DEF Inv, MailInv, MailField
<1>6. PICK w2 : w2 = worker'[c]
  OBVIOUS
<1>7. w2.pc = Dispatch(b) /\ w2.msg = m
  BY <1>1, <1>3, <1>6 DEF Resting, Inv, WorkerInv
<1>8. Body(c)' = b
  BY <1>4, <1>5, <1>6, <1>7 DEF Body
<1>9. b.step \in Step /\ b.step # NoStep /\ ~b.rerun
  BY <1>2, <1>3, WorkflowAssumption DEF NestedBody, WorkflowAssumption
<1>10. /\ w2.pc \in {"end", "loop", "http", "read"}
       /\ w2.pc = "end" <=> T[b.step] = "End"
       /\ w2.pc = "loop" => LoopsAgain(b)
  BY <1>7, <1>9 DEF Dispatch
<1>11. Placed(w2, b)
  BY <1>10 DEF Placed, Scoping
<1>12. PICK B : B = Board(mail, worker[c], outside)
  OBVIOUS
<1>13. PICK P : P = exec[1].parallel
  OBVIOUS
<1>14. IsTrail(Trail(b.idxs), P)
  <2>1. Live(mail, worker[c], m) /\ Scopes(mail, worker[c], m) = b.idxs
    BY <1>1, <1>3 DEF Live, Scopes
  <2>2. PICK t : t = <<"mail", m>>
    OBVIOUS
  <2>3. t \in DOMAIN B /\ B[t] = Trail(b.idxs)
    BY <1>12, <2>1, <2>2, MailStays
  <2>4. ScopeInv(B, P)
    BY <1>12, <1>13 DEF NestInv
  <2> QED
    BY <2>3, <2>4 DEF ScopeInv
<1>15. Scoped(w2, b, P, B)
  BY <1>10, <1>14 DEF Scoped
<1>16. ASSUME NEW x \in Msg, Live(q2, w2, x)
       PROVE  Live(mail, worker[c], x) /\ Scopes(q2, w2, x) = Scopes(mail, worker[c], x)
  <2>1. CASE x = m
    BY <1>1, <1>3, <1>5, <1>10, <2>1 DEF Live, Scopes, Past
  <2>2. CASE x # m
    <3>1. q2[x] = mail[x] /\ mail[x].state # "handled"
      BY <1>2, <1>5, <2>2 DEF NestInv, Held, At
    <3> QED
      BY <1>16, <3>1 DEF Live, Scopes
  <2> QED
    BY <2>1, <2>2
<1>17. \A x \in Msg : q2[x].state = "handled" => w2.pc # "idle" /\ w2.msg = x
  BY <1>2, <1>5, <1>7, <1>10 DEF NestInv, Held, At
<1>18. \A x \in Msg : q2[x].state # "unsent" => x \in Used /\ q2[x].body = mail[x].body
  BY <1>2, <1>3, <1>5 DEF Used
<1>19. UNCHANGED <<exec, hist, outside, budget>>
  BY DEF Receive
<1>20. EndInv'
  <2>1. \A x \in Msg : Alive(x)' => Alive(x) /\ mail'[x].body = mail[x].body
    BY <1>1, <1>3, <1>4, <1>5 DEF Alive
  <2> QED
    BY <1>19, <2>1, EndKept
<1>21. PICK out2 : out2 = outside'
  OBVIOUS
<1> QED
  BY <1>4, <1>6, <1>8, <1>11, <1>12, <1>13, <1>15, <1>16, <1>17, <1>18, <1>19, <1>20, <1>21,
     NestLess

\* The message is deleted.
LEMMA ReturnNest ==
  ASSUME NEW c, Consumer = {c}, NEW depth, NEW loops, NEW D, Inv(D), NestInv(c, depth, loops),
         Return(c)
  PROVE  NestInv(c, depth, loops)'
<1>1. ~At(c, "idle") /\ c \in Consumer /\ UNCHANGED <<exec, hist, outside, budget>>
      /\ worker[c].pc = "return"
  BY DEF Return, At
<1>2. PICK m : m = worker[c].msg
  OBVIOUS
<1>3. m \in Used /\ m \in Msg /\ mail[m].state = "handled"
  BY <1>1, <1>2, NestKnown
<1>4. PICK q2 : q2 = mail'
  OBVIOUS
<1>5. /\ \A x \in Msg \ {m} : q2[x] = mail[x]
      /\ q2[m].state = "done" /\ q2[m].body = mail[m].body
  BY <1>2, <1>3, <1>4 DEF Return, Inv, MailInv, MailField
<1>6. PICK w2 : w2 = worker'[c]
  OBVIOUS
<1>7. w2.pc = "idle"
  BY <1>1, <1>6 DEF Return, Resting, Inv, WorkerInv
<1>8. \A x \in Msg \ {m} : mail[x].state # "handled"
  BY <1>2 DEF NestInv, Held
<1>9. ASSUME NEW x \in Msg, Live(q2, w2, x)
      PROVE  Live(mail, worker[c], x) /\ Scopes(q2, w2, x) = Scopes(mail, worker[c], x)
  <2>1. x # m
    BY <1>5, <1>9 DEF Live
  <2> QED
    BY <1>5, <1>8, <1>9, <2>1 DEF Live, Scopes
<1>10. \A x \in Msg : q2[x].state = "handled" => w2.pc # "idle" /\ w2.msg = x
  BY <1>5, <1>8
<1>11. \A x \in Msg : q2[x].state # "unsent" => x \in Used /\ q2[x].body = mail[x].body
  BY <1>3, <1>5 DEF Used
<1>12. EndInv'
  <2>1. \A x \in Msg : Alive(x)' => Alive(x) /\ mail'[x].body = mail[x].body
    BY <1>4, <1>5 DEF Alive
  <2> QED
    BY <1>1, <2>1, EndKept
<1>13. PICK out2 : out2 = outside'
  OBVIOUS
<1>14. PICK b2 : b2 = Body(c)'
  OBVIOUS
<1>15. Placed(w2, b2) /\ Scoped(w2, b2, exec[1].parallel, Board(mail, worker[c], outside))
  BY <1>7, NestIdle
<1> QED
  BY <1>1, <1>4, <1>6, <1>9, <1>10, <1>11, <1>12, <1>13, <1>14, <1>15, NestLess

\* A message that no attempt is left for is dead.
LEMMA RedriveNest ==
  ASSUME NEW c, Consumer = {c}, NEW depth, NEW loops, NEW D, Inv(D), NestInv(c, depth, loops),
         NEW m \in Msg, Redrive(m)
  PROVE  NestInv(c, depth, loops)'
<1>1. mail[m].state = "queued" /\ UNCHANGED <<exec, hist, worker, outside, budget, joins>>
  BY DEF Redrive
<1>2. PICK q2 : q2 = mail'
  OBVIOUS
<1>3. /\ \A x \in Msg \ {m} : q2[x] = mail[x]
      /\ q2[m].state = "dead" /\ q2[m].body = mail[m].body
  BY <1>2 DEF Redrive, Inv, MailInv, MailField
<1>4. PICK w2 : w2 = worker'[c]
  OBVIOUS
<1>5. w2 = worker[c]
  BY <1>1, <1>4
<1>6. ASSUME NEW x \in Msg, Live(q2, w2, x)
      PROVE  Live(mail, worker[c], x) /\ Scopes(q2, w2, x) = Scopes(mail, worker[c], x)
  <2>1. x # m
    BY <1>3, <1>6 DEF Live
  <2> QED
    BY <1>3, <1>5, <1>6, <2>1 DEF Live, Scopes
<1>7. \A x \in Msg : q2[x].state = "handled" => w2.pc # "idle" /\ w2.msg = x
  BY <1>3, <1>5 DEF NestInv, Held, At
<1>8. \A x \in Msg : q2[x].state # "unsent" => x \in Used /\ q2[x].body = mail[x].body
  BY <1>1, <1>3 DEF Used
<1>9. EndInv'
  <2>1. \A x \in Msg : Alive(x)' => Alive(x) /\ mail'[x].body = mail[x].body
    BY <1>2, <1>3 DEF Alive
  <2> QED
    BY <1>1, <2>1, EndKept
<1>10. PICK out2 : out2 = outside'
  OBVIOUS
<1>11. PICK b2 : b2 = Body(c)'
  OBVIOUS
<1>12. Placed(w2, b2) /\ Scoped(w2, b2, exec[1].parallel, Board(mail, worker[c], outside))
  <2>1. CASE At(c, "idle")
    BY <1>5, <2>1, NestIdle DEF At
  <2>2. CASE ~At(c, "idle")
    <3>1. worker[c].msg \in Msg /\ worker[c].msg # m
      BY <1>1, <2>2, NestKnown
    <3>2. b2 = Body(c)
      BY <1>1, <1>2, <1>3, <1>11, <3>1 DEF Body
    <3> QED
      BY <1>5, <3>2 DEF NestInv
  <2> QED
    BY <2>1, <2>2
<1> QED
  BY <1>1, <1>2, <1>4, <1>6, <1>7, <1>8, <1>9, <1>10, <1>11, <1>12, NestLess

\* A Parallel End always finds the entry to count in: what makes the handler
\* throw is a trigger that is logged already, before it has touched its scopes.
LEMMA NoMissingEntry ==
  ASSUME NEW c, Consumer = {c}, NEW depth, NEW loops, WellNested(depth, loops),
         Fragile = {}, NEW D, Inv(D), NestInv(c, depth, loops), JoinInv, MustThrow(c)
  PROVE  worker[c].pc = "http"
<1>1. SUFFICES ASSUME worker[c].pc # "http" PROVE FALSE
  OBVIOUS
<1>2. /\ worker[c].pc \in {"parallel", "join"} /\ Here(c) = "Parallel End"
      /\ \/ worker[c].parallel = << >>
         \/ worker[c].idx \notin DOMAIN worker[c].parallel
  BY <1>1 DEF MustThrow, At, NestInv, Placed, Here
<1>3. PICK P : P = exec[1].parallel
  OBVIOUS
<1>4. worker[c].parallel = P
  BY <1>2, <1>3, OwnCopy DEF Copying
<1>5. PICK s : s = Body(c).idxs
  OBVIOUS
<1>6. PICK j : j = worker[c].idx
  OBVIOUS
<1>7. /\ LastOf(Trail(s), j, Trail(Enclosing(s, j)))
      /\ Len(Trail(s)) \in 2 .. Len(Trail(s))
  BY <1>2, <1>5, <1>6, EndScope DEF Scoping
<1>8. IsTrail(Trail(s), P)
  BY <1>2, <1>3, <1>5 DEF NestInv, Scoped
<1>9. j \in DOMAIN P
  BY <1>7, <1>8 DEF IsTrail, LastOf
<1>10. P # << >>
  BY <1>9
<1> QED
  BY <1>2, <1>4, <1>6, <1>9, <1>10

\* The message goes back to the queue, in the scopes it came with.
LEMMA MustThrowNest ==
  ASSUME NEW c, Consumer = {c}, NEW depth, NEW loops, WellNested(depth, loops),
         Fragile = {}, NEW D, Inv(D), NestInv(c, depth, loops), JoinInv, MustThrow(c)
  PROVE  NestInv(c, depth, loops)'
<1>1. worker[c].pc = "http" /\ ~At(c, "idle") /\ c \in Consumer
      /\ UNCHANGED <<exec, outside, budget>>
  BY NoMissingEntry DEF MustThrow, Rethrow, At
<1>2. PICK m : m = worker[c].msg
  OBVIOUS
<1>3. m \in Used /\ m \in Msg /\ mail[m].state = "handled"
  BY <1>1, <1>2, NestKnown
<1>4. PICK q2 : q2 = mail'
  OBVIOUS
<1>5. /\ \A x \in Msg \ {m} : q2[x] = mail[x]
      /\ q2[m].state = "queued" /\ q2[m].body = mail[m].body
  <2>1. Rethrow(c)
    BY DEF MustThrow
  <2>2. mail' = [mail EXCEPT ![m].state = "queued"]
    BY <1>2, <2>1 DEF Rethrow
  <2> QED
    BY <1>3, <1>4, <2>2 DEF Inv, MailInv, MailField
<1>6. PICK w2 : w2 = worker'[c]
  OBVIOUS
<1>7. w2.pc = "idle"
  BY <1>1, <1>6 DEF MustThrow, Rethrow, Resting, Inv, WorkerInv
<1>8. \A x \in Msg \ {m} : mail[x].state # "handled"
  BY <1>2 DEF NestInv, Held
<1>9. ASSUME NEW x \in Msg, Live(q2, w2, x)
      PROVE  Live(mail, worker[c], x) /\ Scopes(q2, w2, x) = Scopes(mail, worker[c], x)
  <2>1. CASE x = m
    BY <1>1, <1>3, <1>5, <2>1 DEF Live, Scopes, Counts, Past
  <2>2. CASE x # m
    BY <1>5, <1>8, <1>9, <2>2 DEF Live, Scopes
  <2> QED
    BY <2>1, <2>2
<1>10. \A x \in Msg : q2[x].state = "handled" => w2.pc # "idle" /\ w2.msg = x
  BY <1>5, <1>8
<1>11. \A x \in Msg : q2[x].state # "unsent" => x \in Used /\ q2[x].body = mail[x].body
  BY <1>3, <1>5 DEF Used
<1>12. EndInv'
  <2>1. \A x \in Msg : Alive(x)' => Alive(x) /\ mail'[x].body = mail[x].body
    BY <1>3, <1>4, <1>5 DEF Alive
  <2> QED
    BY <1>1, <2>1, EndKept
<1>13. PICK out2 : out2 = outside'
  OBVIOUS
<1>14. PICK b2 : b2 = Body(c)'
  OBVIOUS
<1>15. Placed(w2, b2) /\ Scoped(w2, b2, exec[1].parallel, Board(mail, worker[c], outside))
  BY <1>7, NestIdle
<1> QED
  BY <1>1, <1>4, <1>6, <1>9, <1>10, <1>11, <1>12, <1>13, <1>14, <1>15, NestLess

\* End runs: what counts for the execution itself is this one message.
LEMMA EndNest ==
  ASSUME NEW c, Consumer = {c}, NEW depth, NEW loops, WellNested(depth, loops),
         NEW D, Inv(D), NestInv(c, depth, loops), EndExecution(c)
  PROVE  NestInv(c, depth, loops)'
<1>1. ~At(c, "idle") /\ c \in Consumer /\ worker[c].pc = "end"
      /\ UNCHANGED <<mail, hist, outside, budget>>
  BY DEF At, EndExecution
<1>2. PICK b : b = Body(c)
  OBVIOUS
<1>3. NestedBody(b, depth, loops) /\ T[b.step] = "End" /\ b.step \in Step
  <2>1. NestedBody(b, depth, loops) /\ b.step \in Step
    BY <1>1, <1>2, NestKnown DEF NestedBody
  <2>2. Placed(worker[c], b)
    BY <1>2 DEF NestInv
  <2> QED
    BY <1>1, <2>1, <2>2 DEF Placed
<1>4. Goto(c, "return")
  BY <1>2, <1>3 DEF EndExecution, NestedBody
<1>5. PICK w2 : w2 = worker'[c]
  OBVIOUS
<1>6. w2.pc = "return" /\ w2.msg = worker[c].msg
  BY <1>1, <1>4, <1>5, NestKnown DEF Goto, HandlerField
<1>7. PICK m \in Msg : m = worker[c].msg
  BY <1>1, NestKnown
<1>8. mail[m].state = "handled" /\ mail[m].body = b
      /\ \A x \in Msg \ {m} : mail[x].state # "handled"
  BY <1>1, <1>2, <1>7, NestKnown DEF NestInv, Held, Body
<1>9. PICK q2 : q2 = mail'
  OBVIOUS
<1>10. ASSUME NEW x \in Msg, Live(q2, w2, x)
       PROVE  Live(mail, worker[c], x) /\ Scopes(q2, w2, x) = Scopes(mail, worker[c], x)
  <2>1. mail[x].state = "queued"
    BY <1>1, <1>6, <1>9, <1>10 DEF Live, Counts
  <2> QED
    BY <1>1, <1>9, <2>1 DEF Live, Scopes
<1>11. PICK r : r = [exec[1] EXCEPT !.status = "Finished"]
  OBVIOUS
<1>12. exec' = [exec EXCEPT ![1] = r]
  BY <1>1, <1>11, OwnSaved DEF EndExecution
<1>13. /\ \A e \in Exec \ {1} : exec'[e] = exec[e]
       /\ exec'[1].parallel = exec[1].parallel
  <2>1. r.parallel = exec[1].parallel
    BY <1>1, <1>11, OwnSaved
  <2> QED
    BY <1>1, <1>12, <2>1, OwnSaved
<1>14. PICK B : B = Board(mail, worker[c], outside)
  OBVIOUS
<1>15. PICK P : P = exec[1].parallel
  OBVIOUS
<1>16. ScopeInv(B, P)
  BY <1>14, <1>15 DEF NestInv
<1>17. PICK t : t = <<"mail", worker[c].msg>>
  OBVIOUS
<1>18. t \in DOMAIN B /\ B[t] = Trail(b.idxs)
  <2>1. Counts(worker[c], b) /\ ~Past(worker[c], b)
    BY <1>1 DEF Counts, Past
  <2> QED
    BY <1>1, <1>2, <1>14, <1>17, <2>1, OwnTrail
<1>19. <<"own", t>> \in Slots(B, 0)
  <2>1. b.idxs \in Seq(Nat) /\ Len(b.idxs) = 0
    BY <1>3 DEF NestedBody, WellNested
  <2>2. Len(B[t]) = 1 /\ B[t][1] = 0
    <3>1. PICK s \in Seq(Nat) : s = b.idxs
      BY <2>1
    <3>2. Len(Trail(s)) = Len(s) + 1 /\ Trail(s)[1] = 0
      BY TrailIs
    <3> QED
      BY <1>18, <2>1, <3>1, <3>2
  <2> QED
    BY <1>16, <1>18, <2>2, OwnSlot
<1>20. Len(First) <= 1 => \A x \in DOMAIN B : x = t
  <2> SUFFICES ASSUME Len(First) <= 1, NEW x \in DOMAIN B PROVE x = t
    OBVIOUS
  <2>1. Counted(B, 0, Len(First))
    BY <1>16 DEF ScopeInv
  <2>2. Counted(B, 0, 1)
    <3>1. IsFiniteSet(Slots(B, 0)) /\ Cardinality(Slots(B, 0)) <= Len(First)
      BY <2>1 DEF Counted
    <3>2. Cardinality(Slots(B, 0)) \in Nat /\ Len(First) \in Nat
      BY <3>1, FS_CardinalityType, FirstLength
    <3> QED
      BY <3>1, <3>2 DEF Counted
  <2>3. Slots(B, 0) \subseteq {<<"own", t>>}
    BY <1>19, <2>2, OnlySlot
  <2>4. 1 \in DOMAIN B[x] /\ B[x][1] = 0
    <3>1. IsTrail(B[x], P) /\ DOMAIN B[x] = 1 .. Len(B[x]) /\ Len(B[x]) \in Nat
          /\ Len(B[x]) # 0
      BY <1>16, OwnSlot
    <3> QED
      BY <3>1 DEF IsTrail
  <2> QED
    BY <1>16, <2>3, <2>4, AloneIn
<1>21. EndInv'
  <2> SUFFICES ASSUME Len(First) <= 1
               PROVE  outside' = {} /\ \A x \in Msg : Alive(x)' => T[mail'[x].body.step] = "End"
    BY DEF EndInv
  <2>1. \A x \in DOMAIN B : x = t
    BY <1>20
  <2>2. ASSUME NEW d \in outside PROVE FALSE
    <3>1. PICK u : u = <<"out", d>>
      OBVIOUS
    <3>2. u \in DOMAIN B
      BY <1>14, <3>1, OutStays
    <3> QED
      BY <1>17, <2>1, <3>1, <3>2
  <2>3. ASSUME NEW x \in Msg, Alive(x) PROVE x = m
    <3> SUFFICES ASSUME x # m PROVE FALSE
      OBVIOUS
    <3>1. Live(mail, worker[c], x)
      BY <1>8, <2>3 DEF Alive, Live
    <3>2. PICK u : u = <<"mail", x>>
      OBVIOUS
    <3>3. u \in DOMAIN B
      BY <1>14, <3>1, <3>2, MailStays
    <3> QED
      BY <1>7, <1>17, <2>1, <3>2, <3>3
  <2>4. \A x \in Msg : Alive(x)' => Alive(x)
    BY <1>1 DEF Alive
  <2> QED
    BY <1>1, <1>3, <1>8, <2>2, <2>3, <2>4
<1>22. Body(c)' = b
  BY <1>1, <1>2, <1>5, <1>6 DEF Body
<1>23. Placed(w2, b) /\ Scoped(w2, b, P, B)
  BY <1>6 DEF Placed, Scoped, Scoping
<1>24. \A x \in Msg : q2[x].state = "handled" => w2.pc # "idle" /\ w2.msg = x
  BY <1>1, <1>6, <1>7, <1>8, <1>9
<1>25. \A x \in Msg : q2[x].state # "unsent" => x \in Used /\ q2[x].body = mail[x].body
  BY <1>1, <1>9 DEF Used
<1>26. PICK out2 : out2 = outside'
  OBVIOUS
<1> QED
  BY <1>1, <1>5, <1>9, <1>10, <1>13, <1>14, <1>15, <1>21, <1>22, <1>23, <1>24, <1>25, <1>26,
     NestLess

\* The message is kept outside, in the scopes it is in.
LEMMA NestHold ==
  ASSUME NEW c, Consumer = {c}, NEW depth, NEW loops, NEW D, Inv(D), NestInv(c, depth, loops),
         worker[c].pc \notin {"idle", "end", "return"},
         Counts(worker[c], Body(c)), ~Past(worker[c], Body(c)),
         UNCHANGED <<mail, exec>>, NEW p \in {"close", "return"}, Goto(c, p),
         NEW d, NestedBody(d, depth, loops), d.idxs = Body(c).idxs,
         outside' \subseteq outside \union {d},
         \/ budget' = budget
         \/ budget.losses > 0 /\ budget' = [budget EXCEPT !.losses = @ - 1]
  PROVE  NestInv(c, depth, loops)'
<1>1. ~At(c, "idle") /\ c \in Consumer
  BY DEF At
<1>2. PICK w2 : w2 = worker'[c]
  OBVIOUS
<1>3. w2.pc = p /\ w2.msg = worker[c].msg
  BY <1>1, <1>2, NestKnown DEF Goto, HandlerField
<1>4. PICK m \in Msg : m = worker[c].msg
  BY <1>1, NestKnown
<1>5. mail[m].state = "handled" /\ \A x \in Msg \ {m} : mail[x].state # "handled"
  BY <1>1, <1>4, NestKnown DEF NestInv, Held
<1>6. PICK t : t = <<"mail", worker[c].msg>>
  OBVIOUS
<1>7. PICK u : u = <<"out", d>>
  OBVIOUS
<1>8. PICK B : B = Board(mail, worker[c], outside)
  OBVIOUS
<1>9. PICK P : P = exec[1].parallel
  OBVIOUS
<1>10. t \in DOMAIN B /\ B[t] = Trail(Body(c).idxs)
  BY <1>1, <1>6, <1>8, OwnTrail
<1>11. PICK q2 : q2 = mail'
  OBVIOUS
<1>12. PICK out2 : out2 = outside'
  OBVIOUS
<1>13. PICK trail : trail = B[t]
  OBVIOUS
<1>14. PICK S : S = {u}
  OBVIOUS
<1>15. ASSUME NEW x \in Msg, Live(q2, w2, x)
       PROVE  /\ <<"mail", x>> \notin S /\ <<"mail", x>> # t
              /\ Live(mail, worker[c], x) /\ Scopes(q2, w2, x) = Scopes(mail, worker[c], x)
  <2>1. mail[x].state = "queued"
    BY <1>3, <1>11, <1>15 DEF Live, Counts
  <2>2. x # m
    BY <1>5, <2>1
  <2>3. <<"mail", x>> # t /\ <<"mail", x>> # u
    BY <1>4, <1>6, <1>7, <2>2
  <2> QED
    BY <1>11, <1>14, <2>1, <2>3 DEF Live, Scopes
<1>16. ASSUME NEW b \in out2
       PROVE  IF <<"out", b>> \in S THEN Trail(b.idxs) = trail
              ELSE <<"out", b>> # t /\ b \in outside
  <2>1. CASE b = d
    <3>1. <<"out", b>> \in S
      BY <1>7, <1>14, <2>1
    <3> QED
      BY <1>10, <1>13, <2>1, <3>1
  <2>2. CASE b # d
    <3>1. <<"out", b>> # u /\ <<"out", b>> # t /\ b \in outside
      BY <1>6, <1>7, <1>12, <2>2
    <3> QED
      BY <1>14, <3>1
  <2> QED
    BY <2>1, <2>2
<1>17. Handover(mail, worker[c], outside, q2, w2, out2, t, S, trail)
  BY <1>15, <1>16 DEF Handover
<1>18. Handover(mail, worker[c], outside, q2, w2, out2, t, {u},
                Board(mail, worker[c], outside)[t])
  BY <1>8, <1>13, <1>14, <1>17
<1>19. P \in Seq(ParallelEntry) /\ ScopeInv(Board(mail, worker[c], outside), P)
       /\ t \in DOMAIN Board(mail, worker[c], outside)
  BY <1>8, <1>9, <1>10, OwnList DEF NestInv
<1>20. ScopeInv(Board(q2, w2, out2), P)
  BY <1>18, <1>19, BoardMoves
<1>21. PICK N : N = {d}
  OBVIOUS
<1>22. Sent(N) /\ \A x \in N : NestedBody(x, depth, loops)
  BY <1>21 DEF Sent, Used
<1>23. Placed(w2, Body(c))
  BY <1>3, PlacedLast DEF NestInv
<1>24. Scoped(w2, Body(c), exec'[1].parallel, Board(q2, w2, out2))
  BY <1>3 DEF Scoped
<1>25. ScopeInv(Board(q2, w2, out2), exec'[1].parallel)
  BY <1>9, <1>20
<1>26. /\ w2.pc # "idle" /\ outside' \subseteq outside \union N
       /\ \A e \in Exec \ {1} : exec'[e] = exec[e]
       /\ exec'[1].status = "Finished" => exec[1].status = "Finished"
  BY <1>3, <1>21
<1> QED
  BY <1>2, <1>3, <1>11, <1>12, <1>22, <1>23, <1>24, <1>25, <1>26, NestStep

\* The external service holds the whole detail.
LEMMA AskExternalNest ==
  ASSUME NEW c, Consumer = {c}, NEW depth, NEW loops, NEW D, Inv(D), NestInv(c, depth, loops),
         AskExternal(c)
  PROVE  NestInv(c, depth, loops)'
<1>1. /\ worker[c].pc = "external" /\ worker[c].pc \notin {"idle", "end", "return"}
      /\ ~At(c, "idle") /\ UNCHANGED <<mail, exec>> /\ Goto(c, "return")
  BY DEF AskExternal, At
<1>2. PICK b : b = Body(c)
  OBVIOUS
<1>3. NestedBody(b, depth, loops) /\ b = [f \in DetailField |-> b[f]]
  BY <1>1, <1>2, NestKnown
<1>4. PICK k : k = worker[c].key
  OBVIOUS
<1>5. PICK r : r = Receipt(c)
  OBVIOUS
<1>6. PICK d : d = [b EXCEPT !.wsxh = k, !.ext = TRUE, !.by = r]
  OBVIOUS
<1>7. /\ d.step = b.step /\ d.exec = b.exec /\ d.parent = b.parent /\ d.loop = b.loop
      /\ d.idx = b.idx /\ d.idxs = b.idxs /\ d.decision = b.decision /\ d.rerun = b.rerun
  BY <1>3, <1>6 DEF DetailField
<1>8. NestedBody(d, depth, loops)
  BY <1>3, <1>7 DEF NestedBody
<1>9. \/ outside' = outside \union {d} /\ UNCHANGED budget
      \/ /\ budget.losses > 0 /\ UNCHANGED outside
         /\ budget' = [budget EXCEPT !.losses = @ - 1]
  BY <1>2, <1>4, <1>5, <1>6 DEF AskExternal
<1>10. Counts(worker[c], Body(c)) /\ ~Past(worker[c], Body(c))
  BY <1>1 DEF Counts, Past
<1>11. outside' \subseteq outside \union {d} /\ d.idxs = Body(c).idxs
  BY <1>2, <1>7, <1>9
<1> QED
  BY <1>1, <1>8, <1>9, <1>10, <1>11, NestHold

\* A Delay keeps the last entry until its rule fires.
LEMMA ScheduleNest ==
  ASSUME NEW c, Consumer = {c}, NEW depth, NEW loops, WellNested(depth, loops),
         NEW D, Inv(D), NestInv(c, depth, loops), Schedule(c)
  PROVE  NestInv(c, depth, loops)'
<1>1. /\ worker[c].pc = "delay" /\ worker[c].pc \notin {"idle", "end", "return"}
      /\ ~At(c, "idle") /\ UNCHANGED <<mail, exec>> /\ Goto(c, "close")
  BY DEF Schedule, At
<1>2. PICK b : b = Body(c)
  OBVIOUS
<1>3. NestedBody(b, depth, loops) /\ b.step \in Step
  BY <1>1, <1>2, NestKnown DEF NestedBody
<1>4. T[b.step] = "Delay" /\ worker[c].next = NAID[b.step]
  BY <1>1, <1>2 DEF NestInv, Placed
<1>5. PICK r : r = Receipt(c)
  OBVIOUS
<1>6. PICK last : last = {[Entry(c, s) EXCEPT !.by = r] :
                      s \in IF worker[c].next = << >> THEN {} ELSE {Last(worker[c].next)}}
  OBVIOUS
<1>7. /\ \/ budget' = budget
         \/ budget.losses > 0 /\ budget' = [budget EXCEPT !.losses = @ - 1]
      /\ \/ outside' = outside
         \/ \E same : outside' = (outside \ same) \union last
  BY <1>5, <1>6, ZenonT(60) DEF Schedule
<1>8. outside' \subseteq outside \union last
  BY <1>7
<1>9. PICK d : /\ NestedBody(d, depth, loops) /\ d.idxs = Body(c).idxs /\ last \subseteq {d}
  <2>1. CASE worker[c].next = << >>
    BY <1>2, <1>3, <1>6, <2>1
  <2>2. CASE worker[c].next # << >>
    <3>1. PICK n : n = worker[c].next
      OBVIOUS
    <3>2. n \in Seq(Step) /\ n # << >>
      BY <1>3, <1>4, <2>2, <3>1, NAIDType
    <3>3. PICK s : s = Last(n)
      OBVIOUS
    <3>4. s \in ToSet(n)
      BY <3>2, <3>3 DEF Last, ToSet
    <3>5. PICK a : a = Entry(c, s)
      OBVIOUS
    <3>6. NestedBody(a, depth, loops) /\ a.idxs = Body(c).idxs /\ Whole(a)
      <4>1. s \in ToSet(NAID[Body(c).step])
        BY <1>2, <1>4, <3>1, <3>4
      <4>2. NestedBody(a, depth, loops) /\ a.idxs = Body(c).idxs
        BY <1>1, <1>2, <1>4, <3>5, <4>1, PlainlyNested DEF Here, Scoping
      <4>3. Follows(Body(c), worker[c], s, a, depth, loops)
        BY <1>1, <3>5, <4>1, NestEntry
      <4> QED
        BY <4>2, <4>3 DEF Follows
    <3>7. PICK d : d = [a EXCEPT !.by = r]
      OBVIOUS
    <3>8. /\ d.step = a.step /\ d.exec = a.exec /\ d.parent = a.parent /\ d.loop = a.loop
          /\ d.idx = a.idx /\ d.idxs = a.idxs /\ d.decision = a.decision /\ d.rerun = a.rerun
      BY <3>6, <3>7 DEF Whole, DetailField
    <3>9. NestedBody(d, depth, loops) /\ d.idxs = Body(c).idxs
      BY <3>6, <3>8 DEF NestedBody
    <3>10. last = {d}
      BY <1>6, <2>2, <3>1, <3>3, <3>5, <3>7
    <3> QED
      BY <3>9, <3>10
  <2> QED
    BY <2>1, <2>2
<1>10. Counts(worker[c], Body(c)) /\ ~Past(worker[c], Body(c))
  BY <1>1 DEF Counts, Past
<1>11. outside' \subseteq outside \union {d}
  BY <1>8, <1>9
<1> QED
  BY <1>1, <1>7, <1>9, <1>10, <1>11, NestHold

\* A token hands on to one other at most, in the same scopes.
LEMMA BoardMovesOn ==
  ASSUME NEW P, P \in Seq(ParallelEntry),
         NEW q, NEW w, NEW out, ScopeInv(Board(q, w, out), P),
         NEW q2, NEW w2, NEW out2, NEW t \in DOMAIN Board(q, w, out),
         NEW N, IsFiniteSet(N), Cardinality(N) <= 1,
         NEW trail, trail = Board(q, w, out)[t],
         Handover(q, w, out, q2, w2, out2, t, N, trail)
  PROVE  /\ ScopeInv(Board(q2, w2, out2), P)
         /\ \A i : Clear(Board(q, w, out), i) => Clear(Board(q2, w2, out2), i)
<1>1. PICK u : Handover(q, w, out, q2, w2, out2, t, {u}, trail)
  <2>1. N = {} \/ \E u : N = {u}
    BY AtMostOne
  <2>2. CASE N = {}
    <3>1. Handover(q, w, out, q2, w2, out2, t, {t}, trail)
      BY <2>2 DEF Handover
    <3> QED
      BY <3>1
  <2>3. CASE \E u : N = {u}
    BY <2>3
  <2> QED
    BY <2>1, <2>2, <2>3
<1>2. PICK S : S = {u}
  OBVIOUS
<1>3. Handover(q, w, out, q2, w2, out2, t, S, trail)
  BY <1>1, <1>2
<1>4. PICK B : B = Board(q, w, out)
  OBVIOUS
<1>5. PICK B2 : B2 = Board(q2, w2, out2)
  OBVIOUS
<1>6. /\ DOMAIN Board(q2, w2, out2) \subseteq (DOMAIN Board(q, w, out) \ {t}) \union S
      /\ \A x \in DOMAIN Board(q2, w2, out2) : Board(q2, w2, out2)[x] =
           IF x \in S THEN trail ELSE Board(q, w, out)[x]
  BY <1>3, BoardAfter
<1>7. /\ DOMAIN B2 \subseteq (DOMAIN B \ {t}) \union {u}
      /\ \A x \in DOMAIN B2 : B2[x] = IF x = u THEN B[t] ELSE B[x]
  BY <1>2, <1>4, <1>5, <1>6
<1>8. ScopeInv(B, P) /\ t \in DOMAIN B
  BY <1>4
<1>9. ScopeInv(B2, P) /\ \A i : Clear(B, i) => Clear(B2, i)
  BY <1>7, <1>8, Replaced
<1> QED
  BY <1>4, <1>5, <1>9

\* An external service answers, or a rule fires: what was outside is queued.
LEMMA AnswerNest ==
  ASSUME NEW c, Consumer = {c}, NEW depth, NEW loops, NEW D, Inv(D), NestInv(c, depth, loops),
         NEW b \in outside, Answer(b)
  PROVE  NestInv(c, depth, loops)'
<1>1. PICK S : S = {b}
  OBVIOUS
<1>2. mail' = Deliver(S) /\ outside' = outside \ {b} /\ UNCHANGED <<exec, hist, worker, budget>>
  BY <1>1 DEF Answer
<1>3. IsFiniteSet(S) /\ Cardinality(S) = 1
  BY <1>1, FS_Singleton
<1>4. Sent(S) /\ IsFiniteSet(New) /\ Cardinality(New) <= 1
  BY <1>2, <1>3, Delivered DEF Inv
<1>5. PICK w : w = worker[c]
  OBVIOUS
<1>6. PICK q2 : q2 = mail'
  OBVIOUS
<1>7. PICK out2 : out2 = outside'
  OBVIOUS
<1>8. PICK t : t = <<"out", b>>
  OBVIOUS
<1>9. PICK B : B = Board(mail, w, outside)
  OBVIOUS
<1>10. PICK P : P = exec[1].parallel
  OBVIOUS
<1>11. t \in DOMAIN B /\ B[t] = Trail(b.idxs)
  BY <1>8, <1>9, OutStays
<1>12. PICK trail : trail = Trail(b.idxs)
  OBVIOUS
<1>13. PICK N : N = Tokens(New)
  OBVIOUS
<1>14. Handover(mail, w, outside, q2, w, out2, t, N, trail)
  <2>1. ASSUME NEW m \in Msg, Live(q2, w, m)
        PROVE  IF <<"mail", m>> \in N THEN Trail(Scopes(q2, w, m)) = trail
               ELSE /\ <<"mail", m>> # t /\ Live(mail, w, m)
                    /\ Scopes(q2, w, m) = Scopes(mail, w, m)
    <3>1. <<"mail", m>> # t
      BY <1>8
    <3>2. CASE m \in Used
      <4>1. q2[m] = mail[m] /\ <<"mail", m>> \notin N
        BY <1>4, <1>6, <1>13, <3>2 DEF Sent, New, Tokens
      <4> QED
        BY <2>1, <3>1, <4>1 DEF Live, Scopes
    <3>3. CASE m \notin Used
      <4>1. q2[m].state = "queued" /\ q2[m].body = b
        BY <1>1, <1>4, <1>6, <2>1, <3>3 DEF Sent, Live
      <4>2. m \in New
        BY <1>6, <3>3, <4>1 DEF New
      <4>3. <<"mail", m>> \in N
        BY <1>13, <4>2 DEF Tokens
      <4>4. Scopes(q2, w, m) = b.idxs
        BY <4>1 DEF Scopes
      <4> QED
        BY <1>12, <4>3, <4>4
    <3> QED
      BY <3>2, <3>3
  <2>2. ASSUME NEW x \in out2
        PROVE  IF <<"out", x>> \in N THEN Trail(x.idxs) = trail
               ELSE <<"out", x>> # t /\ x \in outside
    <3>1. <<"out", x>> \notin N
      <4> SUFFICES ASSUME NEW m, <<"out", x>> = <<"mail", m>> PROVE FALSE
        BY <1>13 DEF Tokens
      <4> QED
        OBVIOUS
    <3>2. x # b /\ x \in outside
      BY <1>2, <1>7
    <3>3. <<"out", x>> # t
      BY <1>8, <3>2
    <3> QED
      BY <3>1, <3>2, <3>3
  <2> QED
    BY <2>1, <2>2 DEF Handover
<1>15. IsFiniteSet(N) /\ Cardinality(N) <= 1
  <2>1. IsFiniteSet(N) /\ Cardinality(N) <= Cardinality(New)
    BY <1>4, <1>13, MailTokens
  <2>2. Cardinality(N) \in Nat /\ Cardinality(New) \in Nat
    BY <1>4, <2>1, FS_CardinalityType
  <2> QED
    BY <1>4, <2>1, <2>2
<1>16. P \in Seq(ParallelEntry) /\ ScopeInv(Board(mail, w, outside), P)
       /\ t \in DOMAIN Board(mail, w, outside) /\ trail = Board(mail, w, outside)[t]
  BY <1>5, <1>9, <1>10, <1>11, <1>12, OwnList DEF NestInv
<1>18. /\ ScopeInv(Board(q2, w, out2), P)
       /\ \A i : Clear(Board(mail, w, outside), i) => Clear(Board(q2, w, out2), i)
  BY <1>14, <1>15, <1>16, BoardMovesOn
<1>19. NestedBody(b, depth, loops)
  BY DEF NestInv
<1>20. /\ budget' \in [throws: {0}, crashes: {0}, losses: Nat, users: {0}]
       /\ \A e \in Exec \ {1} : exec'[e].status = "none" /\ exec'[e].parallel = << >>
       /\ \A x \in outside' : NestedBody(x, depth, loops)
  BY <1>2 DEF NestInv
<1>21. \A m \in Used' : NestedBody(mail'[m].body, depth, loops)
  BY <1>1, <1>4, <1>19 DEF NestInv, Sent, Used
<1>22. Held(c)'
  <2> SUFFICES ASSUME NEW m \in Msg, mail'[m].state = "handled"
               PROVE  worker'[c].pc # "idle" /\ worker'[c].msg = m
    BY DEF Held, At
  <2>1. mail[m].state = "handled"
    BY <1>4 DEF Sent
  <2> QED
    BY <1>2, <2>1 DEF NestInv, Held, At
<1>23. EndInv'
  BY <1>2 DEF NestInv, EndInv
<1>24. PICK b2 : b2 = Body(c)'
  OBVIOUS
<1>25. Placed(w, b2) /\ Scoped(w, b2, P, Board(q2, w, out2))
  <2>1. CASE At(c, "idle")
    BY <1>5, <2>1, NestIdle DEF At
  <2>2. CASE ~At(c, "idle")
    <3>1. worker[c].msg \in Used
      BY <2>2, NestKnown
    <3>2. b2 = Body(c)
      BY <1>2, <1>4, <1>24, <3>1 DEF Body, Sent
    <3>3. Placed(w, b2) /\ Scoped(w, b2, P, Board(mail, w, outside))
      BY <1>5, <1>10, <3>2 DEF NestInv
    <3> QED
      BY <1>18, <3>3, ScopedKept
  <2> QED
    BY <2>1, <2>2
<1>26. /\ Placed(worker[c], Body(c))'
       /\ Scoped(worker[c], Body(c), exec[1].parallel, Board(mail, worker[c], outside))'
       /\ ScopeInv(Board(mail, worker[c], outside), exec[1].parallel)'
  BY <1>2, <1>5, <1>6, <1>7, <1>10, <1>18, <1>24, <1>25
<1> QED
  BY <1>20, <1>21, <1>22, <1>23, <1>26 DEF NestInv

LEMMA StillNest ==
  ASSUME NEW c, NEW depth, NEW loops, NestInv(c, depth, loops), UNCHANGED vars
  PROVE  NestInv(c, depth, loops)'
<1>1. UNCHANGED <<mail, exec, worker, outside, budget>>
  BY DEF vars
<1> QED
  BY <1>1 DEF NestInv, Used, Held, Alive, EndInv, At, Body

\* What does not happen in such a workflow when nothing throws.
LEMMA NeverNest ==
  ASSUME NEW c, Consumer = {c}, NEW depth, NEW loops, NestInv(c, depth, loops),
         Fragile = {}
  PROVE  /\ ~FinishParent(c) /\ ~ResumeParent(c) /\ ~CreateChild(c) /\ ~SendChild(c)
         /\ ~ReopenStep(c) /\ ~TriggerFails(c) /\ ~ConditionFails(c) /\ ~Fault(c) /\ ~User
<1>1. /\ ~FinishParent(c) /\ ~ResumeParent(c) /\ ~CreateChild(c) /\ ~SendChild(c)
      /\ ~ReopenStep(c)
  BY DEF NestInv, Placed, At, FinishParent, ResumeParent, CreateChild, SendChild, ReopenStep
<1>2. ~(budget.throws > 0) /\ ~(budget.crashes > 0) /\ ~(budget.users > 0)
  BY DEF NestInv
<1>3. ~TriggerFails(c) /\ ~ConditionFails(c) /\ ~Throw(c) /\ ~Crash(c)
  BY <1>2 DEF TriggerFails, ConditionFails, Throw, Crash
<1>4. ~User
  BY <1>2 DEF User, Rerun, Decide, SetStatus, UserCall
<1> QED
  BY <1>1, <1>3, <1>4 DEF Fault

LEMMA NextNest ==
  ASSUME Fragile = {}, NEW c, Consumer = {c}, NEW depth, NEW loops,
         WellNested(depth, loops), IInv, JoinInv, NestInv(c, depth, loops), [Next]_vars
  PROVE  NestInv(c, depth, loops)'
<1>1. PICK D : Inv(D)
  BY DEF IInv
<1>2. CASE \E x \in Consumer : Receive(x) \/ Handle(x) \/ Fault(x)
  <2>1. Receive(c) \/ Handle(c) \/ Fault(c)
    BY <1>2
  <2>2. EmitNext(c) => NestInv(c, depth, loops)'
    BY <1>1, EmitPlainNest, EmitForkNest DEF Forks
  <2> QED
    BY <1>1, <2>1, <2>2, NeverNest, ReceiveNest, EndNest, LoopNest, GoingNest, ClaimNest,
       AskExternalNest, ForkNest, ArriveNest, PerformNest, ContinueNest, ScheduleNest,
       JoinNest, EmitJoinedNest, ReturnNest, MustThrowNest DEF Handle
<1>3. CASE \E m \in Msg : Redrive(m)
  BY <1>1, <1>3, RedriveNest
<1>4. CASE \E b \in outside : Answer(b)
  BY <1>1, <1>4, AnswerNest
<1>5. CASE User
  BY <1>5, NeverNest
<1>6. CASE AllSettled \/ UNCHANGED vars
  BY <1>6, StillNest DEF AllSettled
<1> QED
  BY <1>2, <1>3, <1>4, <1>5, <1>6 DEF Next

-------------------------------------------------------------------------------
(* The first messages, and the theorems *)

\* There are no more first messages than first steps.
LEMMA FirstFew ==
  ASSUME NEW S, S = FirstDetails(First, 1, None)
  PROVE  IsFiniteSet(S) /\ Cardinality(S) \in Nat /\ Cardinality(S) <= Len(First)
<1>1. PICK g : g = [i \in DOMAIN First |->
                      [Detail(First[i], 1) EXCEPT !.http = (i = 1), !.parent = None]]
  OBVIOUS
<1>2. S = {g[i] : i \in DOMAIN First} /\ g = [i \in DOMAIN First |-> g[i]]
  BY <1>1 DEF FirstDetails
<1>3. First \in Seq(Step)
  BY WorkflowAssumption DEF WorkflowAssumption
<1>4. PICK L \in Nat : L = Len(First)
  BY <1>3
<1>5. DOMAIN First = 1 .. L
  BY <1>3, <1>4
<1>6. g \in Surjection(1 .. L, S)
  BY <1>2, <1>5 DEF Surjection
<1>7. IsFiniteSet(1 .. L) /\ Cardinality(1 .. L) = L
  BY FS_Interval
<1>8. IsFiniteSet(S) /\ Cardinality(S) <= L
  BY <1>6, <1>7, FS_Surjection
<1>9. Cardinality(S) \in Nat
  BY <1>8, FS_CardinalityType
<1> QED
  BY <1>4, <1>8, <1>9

LEMMA FirstNested ==
  ASSUME NEW depth, NEW loops, WellNested(depth, loops),
         NEW d \in FirstDetails(First, 1, None)
  PROVE  NestedBody(d, depth, loops) /\ d.idxs = << >>
<1>1. PICK i \in DOMAIN First :
        d = [Detail(First[i], 1) EXCEPT !.http = (i = 1), !.parent = None]
  BY DEF FirstDetails
<1>2. First[i] \in Step /\ First[i] \in ToSet(First)
  <2>1. First \in Seq(Step)
    BY WorkflowAssumption DEF WorkflowAssumption
  <2> QED
    BY <2>1 DEF ToSet
<1>3. depth[First[i]] = 0
  BY <1>2 DEF WellNested
<1>4. /\ d.step = First[i] /\ d.exec = 1 /\ d.parent = None /\ d.loop = None
      /\ d.idx = DefaultIndex /\ d.idxs = << >> /\ d.decision = "none" /\ d.rerun = FALSE
  BY <1>1 DEF Detail
<1>5. PICK s : s = << >>
  OBVIOUS
<1>6. s \in Seq(Nat) /\ Len(s) = 0 /\ Innermost(s) = DefaultIndex /\ DOMAIN s = {}
  BY <1>5 DEF Innermost
<1> QED
  BY <1>2, <1>3, <1>4, <1>5, <1>6 DEF NestedBody

\* The trail of a message that is in no scope.
LEMMA OuterTrail ==
  ASSUME NEW P, NEW q, q = Trail(<< >>)
  PROVE  IsTrail(q, P) /\ Len(q) = 1
<1>0. PICK s : s = << >>
  OBVIOUS
<1>1. s \in Seq(Nat) /\ Len(s) = 0
  BY <1>0
<1>2. Trail(s) \in Seq(Nat) /\ Len(Trail(s)) = Len(s) + 1 /\ Trail(s)[1] = 0
  BY <1>1, TrailIs
<1>3. q \in Seq(Nat) /\ Len(q) = 1 /\ q[1] = 0
  BY <1>0, <1>1, <1>2
<1>4. DOMAIN q = 1 .. 1
  BY <1>3
<1> QED
  BY <1>3, <1>4 DEF IsTrail

LEMMA InitNest ==
  ASSUME Undisturbed, NEW c, Consumer = {c}, NEW depth, NEW loops, WellNested(depth, loops),
         Init
  PROVE  NestInv(c, depth, loops)
<1>1. PICK S : S = FirstDetails(First, 1, None)
  OBVIOUS
<1>2. IsFiniteSet(S) /\ Cardinality(S) \in Nat /\ Cardinality(S) <= Len(First)
  BY <1>1, FirstFew
<1>3. \A d \in S : NestedBody(d, depth, loops) /\ d.idxs = << >>
  BY <1>1, FirstNested
<1>4. PICK q : q = SetToSeq(S)
  OBVIOUS
<1>5. PICK k \in Nat : k = Cardinality(S)
  BY <1>2
<1>6. q \in [1 .. k -> S] /\ Len(q) = k
  BY <1>2, <1>4, <1>5, SetToSeqType
<1>7. mail = [m \in Msg |-> IF m <= k
                THEN [state |-> "queued", receives |-> 0, body |-> q[m]] ELSE Unsent]
  BY <1>1, <1>4, <1>6 DEF Init
<1>8. \A m \in Msg : /\ mail[m].state \in {"unsent", "queued"}
                     /\ m \in Used => m \in 1 .. k /\ mail[m].body \in S
  <2> TAKE m \in Msg
  <2>1. m \in Nat \ {0}
    BY MsgFacts
  <2>2. mail[m] = IF m <= k
          THEN [state |-> "queued", receives |-> 0, body |-> q[m]] ELSE Unsent
    BY <1>7
  <2> QED
    BY <1>6, <2>1, <2>2 DEF Used, Unsent
<1>9. /\ outside = {} /\ budget = Budget
      /\ worker = [x \in Consumer |-> Resting] /\ worker[c].pc = "idle"
  BY DEF Init, Resting
<1>10. exec[1].status = "Running" /\ exec[1].parallel = << >>
       /\ \A e \in Exec \ {1} : exec[e].status = "none" /\ exec[e].parallel = << >>
  <2>1. 1 \in Exec
    BY WorkflowAssumption DEF WorkflowAssumption
  <2>2. exec = [e \in Exec |-> IF e = 1 THEN NewExec ELSE [NewExec EXCEPT !.status = "none"]]
    BY DEF Init
  <2> QED
    BY <2>1, <2>2 DEF NewExec
<1>11. budget \in [throws: {0}, crashes: {0}, losses: Nat, users: {0}]
  <2>1. Budget \in [throws: Nat, crashes: Nat, losses: Nat, users: Nat]
    BY WorkflowAssumption DEF WorkflowAssumption
  <2> QED
    BY <1>9, <2>1 DEF Undisturbed
<1>12. PICK w : w = worker[c]
  OBVIOUS
<1>13. PICK B : B = Board(mail, w, outside)
  OBVIOUS
<1>14. DOMAIN B \subseteq Tokens(1 .. k) /\ \A x \in DOMAIN B : B[x] = Trail(<< >>)
  <2> SUFFICES ASSUME NEW x \in DOMAIN B
               PROVE  x \in Tokens(1 .. k) /\ B[x] = Trail(<< >>)
    OBVIOUS
  <2>1. PICK m \in Msg : /\ Live(mail, w, m) /\ x = <<"mail", m>>
                         /\ B[x] = Trail(Scopes(mail, w, m))
    BY <1>9, <1>13, TokenCases
  <2>2. mail[m].state = "queued"
    BY <1>8, <2>1 DEF Live
  <2>3. m \in 1 .. k /\ mail[m].body \in S
    BY <1>8, <2>2 DEF Used
  <2>4. Scopes(mail, w, m) = << >>
    BY <1>3, <2>2, <2>3 DEF Scopes
  <2> QED
    BY <2>1, <2>3, <2>4 DEF Tokens
<1>15. Counted(B, 0, Len(First))
  <2>1. PICK N : N = Tokens(1 .. k)
    OBVIOUS
  <2>2. IsFiniteSet(1 .. k) /\ Cardinality(1 .. k) = k
    BY FS_Interval
  <2>3. IsFiniteSet(N) /\ Cardinality(N) <= k
    BY <2>1, <2>2, MailTokens
  <2>4. PICK O : O = {<<"own", x>> : x \in N}
    OBVIOUS
  <2>5. IsFiniteSet(O) /\ Cardinality(O) <= Cardinality(N) /\ Cardinality(N) \in Nat
    BY <2>3, <2>4, OwnSlots
  <2>6. Slots(B, 0) \subseteq O
    <3> SUFFICES ASSUME NEW s \in Slots(B, 0) PROVE s \in O
      OBVIOUS
    <3>1. PICK x \in DOMAIN B : \E n \in DOMAIN B[x] : B[x][n] = 0 /\ s = SlotAt(x, B[x], n)
      BY SlotsAre
    <3>2. PICK n \in DOMAIN B[x] : s = SlotAt(x, B[x], n)
      BY <3>1
    <3>3. B[x] \in Seq(Nat) /\ Len(B[x]) = 1
      BY <1>14, OuterTrail DEF IsTrail
    <3>4. n = Len(B[x])
      BY <3>2, <3>3
    <3>5. s = <<"own", x>>
      BY <3>2, <3>4 DEF SlotAt
    <3> QED
      BY <1>14, <2>1, <2>4, <3>5
  <2>7. /\ IsFiniteSet(Slots(B, 0)) /\ Cardinality(Slots(B, 0)) <= Cardinality(O)
        /\ Cardinality(O) \in Nat /\ Cardinality(Slots(B, 0)) \in Nat
    BY <2>5, <2>6, NoMore
  <2>8. Cardinality(Slots(B, 0)) <= Len(First)
    <3>1. PICK a \in Nat : a = Cardinality(Slots(B, 0))
      BY <2>7
    <3>2. PICK o \in Nat : o = Cardinality(O)
      BY <2>7
    <3>3. PICK n \in Nat : n = Cardinality(N)
      BY <2>5
    <3>4. PICK f \in Nat : f = Len(First)
      BY FirstLength
    <3>5. a <= o /\ o <= n /\ n <= k /\ k <= f
      BY <1>2, <1>5, <2>3, <2>5, <2>7, <3>1, <3>2, <3>3, <3>4
    <3> QED
      BY <3>1, <3>4, <3>5
  <2> QED
    BY <2>7, <2>8 DEF Counted
<1>16. \A x \in DOMAIN B : IsTrail(B[x], exec[1].parallel)
  BY <1>14, OuterTrail
<1>17. ScopeInv(B, exec[1].parallel)
  BY <1>10, <1>15, <1>16 DEF ScopeInv
<1>18. Held(c) /\ EndInv
  BY <1>8, <1>10 DEF Held, EndInv
<1>19. PICK b : b = Body(c)
  OBVIOUS
<1>20. Placed(w, b) /\ Scoped(w, b, exec[1].parallel, B)
  BY <1>9, <1>12, NestIdle
<1>21. /\ \A m \in Used : NestedBody(mail[m].body, depth, loops)
       /\ \A x \in outside : NestedBody(x, depth, loops)
  BY <1>3, <1>8, <1>9 DEF Used
<1> QED
  BY <1>10, <1>11, <1>12, <1>13, <1>17, <1>18, <1>19, <1>20, <1>21 DEF NestInv

\* Whoever is on the board is in open scopes.
LEMMA TrailOpen ==
  ASSUME NEW s \in Seq(Nat), NEW P, IsTrail(Trail(s), P), NEW i \in ToSet(s)
  PROVE  i \in DOMAIN P /\ P[i].active
<1>1. PICK L \in Nat : L = Len(s)
  OBVIOUS
<1>2. PICK k \in 1 .. L : s[k] = i
  BY <1>1 DEF ToSet
<1>3. /\ Len(Trail(s)) = L + 1
      /\ \A n \in 1 .. L : Trail(s)[n + 1] = s[n] /\ n + 1 \in 2 .. (L + 1)
  BY <1>1, TrailIs
<1>4. PICK n : n = k + 1
  OBVIOUS
<1>5. n \in 2 .. Len(Trail(s)) /\ Trail(s)[n] = i
  BY <1>2, <1>3, <1>4
<1> QED
  BY <1>5 DEF IsTrail

\* Of the scopes of a Parallel End that was counted, all but its own are open.
LEMMA TrailOuter ==
  ASSUME NEW s \in Seq(Nat), NEW j, NEW a, NEW P, LastOf(Trail(s), j, a), IsTrail(a, P),
         NEW i \in ToSet(s), i # j
  PROVE  P[i].active
<1>1. PICK L \in Nat : L = Len(s)
  OBVIOUS
<1>2. PICK k \in 1 .. L : s[k] = i
  BY <1>1 DEF ToSet
<1>3. /\ Len(Trail(s)) = L + 1
      /\ \A n \in 1 .. L : Trail(s)[n + 1] = s[n] /\ n + 1 \in 2 .. (L + 1)
  BY <1>1, TrailIs
<1>4. PICK n : n = k + 1
  OBVIOUS
<1>5. n \in 2 .. (L + 1) /\ Trail(s)[n] = i
  BY <1>2, <1>3, <1>4
<1>6. n # L + 1
  BY <1>3, <1>5 DEF LastOf
<1>7. n \in 1 .. L /\ n \in 2 .. L
  BY <1>5, <1>6
<1>8. Len(a) = L /\ a[n] = i
  BY <1>3, <1>5, <1>7 DEF LastOf
<1> QED
  BY <1>7, <1>8 DEF IsTrail

LEMMA NestJoins ==
  ASSUME NEW c, Consumer = {c}, NEW depth, NEW loops, WellNested(depth, loops), IInv,
         NestInv(c, depth, loops)
  PROVE  JoinClosesBranches
<1>0. PICK D : Inv(D)
  BY DEF IInv
<1>1. PICK P : P = exec[1].parallel
  OBVIOUS
<1>2. PICK B : B = Board(mail, worker[c], outside)
  OBVIOUS
<1>3. ScopeInv(B, P) /\ Held(c) /\ Placed(worker[c], Body(c)) /\ Scoped(worker[c], Body(c), P, B)
  BY <1>1, <1>2 DEF NestInv
<1>4. SUFFICES ASSUME NEW e \in Exec, NEW i \in DOMAIN exec[e].parallel,
                      ~exec[e].parallel[i].active
               PROVE  /\ \A m \in Msg : Alive(m) /\ InScope(mail[m].body, e, i) => Spent(m, i)
                      /\ \A b \in outside : ~InScope(b, e, i)
  BY DEF JoinClosesBranches
<1>5. e = 1
  <2> SUFFICES ASSUME e # 1 PROVE FALSE
    OBVIOUS
  <2>1. exec[e].parallel = << >>
    BY DEF NestInv
  <2> QED
    BY <1>4, <2>1
<1>6. i \in DOMAIN P /\ ~P[i].active
  BY <1>1, <1>4, <1>5
<1>7. ASSUME NEW b \in outside, InScope(b, e, i)
      PROVE  FALSE
  <2>1. b.parent = None /\ b.idxs \in Seq(Nat)
    BY DEF NestInv, NestedBody
  <2>2. i \in ToSet(b.idxs)
    BY <1>7, <2>1 DEF InScope
  <2>3. PICK t : t = <<"out", b>>
    OBVIOUS
  <2>4. t \in DOMAIN B /\ B[t] = Trail(b.idxs)
    BY <1>2, <2>3, OutStays
  <2>5. IsTrail(Trail(b.idxs), P)
    BY <1>3, <2>4 DEF ScopeInv
  <2> QED
    BY <1>6, <2>1, <2>2, <2>5, TrailOpen
<1>8. ASSUME NEW m \in Msg, Alive(m), InScope(mail[m].body, e, i)
      PROVE  Spent(m, i)
  <2>1. PICK b : b = mail[m].body
    OBVIOUS
  <2>2. b.parent = None /\ b.idxs \in Seq(Nat)
    BY <1>8, <2>1 DEF NestInv, NestedBody, Alive, Used
  <2>3. i \in ToSet(b.idxs)
    BY <1>8, <2>1, <2>2 DEF InScope
  <2>4. ~IsTrail(Trail(b.idxs), P)
    BY <1>6, <2>2, <2>3, TrailOpen
  <2>5. mail[m].state = "handled"
    <3> SUFFICES ASSUME mail[m].state = "queued" PROVE FALSE
      BY <1>8 DEF Alive
    <3>1. Live(mail, worker[c], m) /\ Scopes(mail, worker[c], m) = b.idxs
      BY <2>1 DEF Live, Scopes
    <3>2. PICK t : t = <<"mail", m>>
      OBVIOUS
    <3>3. t \in DOMAIN B /\ B[t] = Trail(b.idxs)
      BY <1>2, <3>1, <3>2, MailStays
    <3> QED
      BY <1>3, <2>4, <3>3 DEF ScopeInv
  <2>6. ~At(c, "idle") /\ worker[c].msg = m /\ Body(c) = b
    BY <1>3, <2>1, <2>5 DEF Held, Body
  <2>7. worker[c].pc \in {"close", "return", "joined"}
    BY <1>3, <2>4, <2>6 DEF Scoped, At
  <2>8. CASE worker[c].pc \in {"close", "return"}
    BY <2>6, <2>8 DEF Spent
  <2>9. CASE worker[c].pc = "joined"
    <3>1. T[b.step] = "Parallel End" /\ Here(c) = "Parallel End"
      BY <1>3, <2>6, <2>9 DEF Placed, Here
    <3>2. PICK j : j = worker[c].idx
      OBVIOUS
    <3>3. LastOf(Trail(b.idxs), j, Trail(Enclosing(b.idxs, j)))
      BY <1>0, <2>6, <2>9, <3>1, <3>2, EndScope DEF Scoping
    <3>4. Live(mail, worker[c], m) /\ Scopes(mail, worker[c], m) = Enclosing(b.idxs, j)
      BY <2>1, <2>5, <2>9, <3>1, <3>2 DEF Live, Scopes, Counts, Past
    <3>5. PICK t : t = <<"mail", m>>
      OBVIOUS
    <3>6. t \in DOMAIN B /\ B[t] = Trail(Enclosing(b.idxs, j))
      BY <1>2, <3>4, <3>5, MailStays
    <3>7. PICK a : a = Trail(Enclosing(b.idxs, j))
      OBVIOUS
    <3>8. LastOf(Trail(b.idxs), j, a) /\ IsTrail(a, P)
      BY <1>3, <3>3, <3>6, <3>7 DEF ScopeInv
    <3>9. i = j
      BY <1>6, <2>2, <2>3, <3>8, TrailOuter
    <3> QED
      BY <2>6, <2>9, <3>1, <3>2, <3>9 DEF Spent
  <2> QED
    BY <2>7, <2>8, <2>9
<1> QED
  BY <1>7, <1>8

LEMMA NestEnds ==
  ASSUME NEW c, NEW depth, NEW loops, NestInv(c, depth, loops), Len(First) <= 1
  PROVE  FinishedIsLast
<1>1. ASSUME NEW e \in Exec, exec[e].status = "Finished"
      PROVE  \A m \in Msg : Alive(m) => T[mail[m].body.step] = "End"
  <2>1. e = 1
    BY <1>1 DEF NestInv
  <2> QED
    BY <1>1, <2>1 DEF NestInv, EndInv
<1> QED
  BY <1>1 DEF FinishedIsLast

LEMMA NestInvariance ==
  ASSUME Undisturbed, NEW c, Consumer = {c}, NEW depth, NEW loops, WellNested(depth, loops)
  PROVE  Spec => [](IInv /\ NestInv(c, depth, loops))
<1>1. Init => IInv /\ JoinInv /\ NestInv(c, depth, loops)
  BY InitInv, InitJoin, InitNest
<1>2. IInv /\ JoinInv /\ NestInv(c, depth, loops) /\ [Next]_vars =>
        (IInv /\ JoinInv /\ NestInv(c, depth, loops))'
  BY NextInv, NextJoin, NextNest DEF Undisturbed
<1> QED
  BY <1>1, <1>2, PTL DEF Spec

\* With one consumer, no throw, no crash and no user call, in every workflow
\* whose Parallel Starts and Ends pair off and whatever events are lost: when
\* updateParallelFinished closes a join, no message, timer or external service
\* is left that still works in its branches.
THEOREM JoinsCloseBranches ==
  ASSUME Undisturbed, NEW c, Consumer = {c}, NEW depth, NEW loops, WellNested(depth, loops)
  PROVE  Spec => []JoinClosesBranches
<1>1. IInv /\ NestInv(c, depth, loops) => JoinClosesBranches
  BY NestJoins
<1> QED
  BY <1>1, NestInvariance, PTL

\* Under the same conditions, when the trigger has one next step at most: when
\* End marks the execution Finished, no other step of it is left to run.
THEOREM EndIsLast ==
  ASSUME Undisturbed, NEW c, Consumer = {c}, NEW depth, NEW loops, WellNested(depth, loops),
         Len(First) <= 1
  PROVE  Spec => []FinishedIsLast
<1>1. IInv /\ NestInv(c, depth, loops) => FinishedIsLast
  BY NestEnds
<1> QED
  BY <1>1, NestInvariance, PTL
================================================================================
