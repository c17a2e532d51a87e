----------------------------- MODULE RegistryProofs -----------------------------
(***************************************************************************)
(* The two loops of a search miss nothing, every workflow can be found again,   *)
(* and its triggers start at versions that are whole: proved for any callers,   *)
(* names, drawings, batches and faults.  A name that was stored when the search *)
(* began is in a batch one of the loops still has to read, and the loop that    *)
(* ends last ends the search (RegistryInv); what is stored fits together        *)
(* (Books); each version has one call that writes it, list by list, and the     *)
(* workflow is given the version last (BuildInv).                               *)
(***************************************************************************)
EXTENDS WorkflowRegistry, FiniteSetTheorems, WellFoundedInduction, TLAPS

Fields == {"pc", "kind", "name", "drawing", "total", "left", "right", "searched", "matched",
           "known", "key", "number", "v", "todo"}

Counting == {"search", "count", "batches", "create"}

\* The batches a search still has to read.
Ahead(r) == Range(r.left) \union Range(r.right)

\* Both loops run until one has read its last batch.
Halves(r) ==
  /\ r.left \in Seq(Nat) /\ r.right \in Seq(Nat)
  /\ r.total = 1 => r.right = << >>
  /\ r.total # 1 => \/ r.searched = 0 /\ r.left # << >> /\ r.right # << >>
                    \/ r.searched = 1 /\ (r.left = << >> \/ r.right = << >>)

\* A hit is known to be ahead, or it has been collected.
NameAhead(r) == \A k \in r.known : k[2] = r.name => k[1] \in Ahead(r)
MatchesAhead(r) ==
  \A k \in r.known : <<r.name, k[2]>> \in Begins => k \in r.matched \/ k[1] \in Ahead(r)

Sound(r) ==
  /\ Fields \subseteq DOMAIN r
  /\ r.pc \in Counting => r.total \in Nat \ {0}
  /\ r.kind = "create" => r.name \in Name
  /\ r.pc \in {"count", "batches", "create"} => r.kind = "create"
  /\ r.pc = "search" => /\ Halves(r)
                        /\ r.kind = "create" => NameAhead(r)
                        /\ r.kind = "search" => MatchesAhead(r)
  /\ r.pc = "count" => \A k \in r.known : k[2] # r.name
  /\ r.pc = "answer" => {k \in r.known : <<r.name, k[2]>> \in Begins} \subseteq r.matched

Known(r) == r.pc = "search" => r.known \subseteq DOMAIN workflows

\* A call counts the batches of the organization, or one more.
Counted(r) ==
  ~overtaken => /\ r.pc \in {"search", "count", "create"} => r.total <= batches
                /\ r.pc = "batches" => r.total <= batches + 1

Pairs ==
  \A k \in DOMAIN workflows : k = <<k[1], k[2]>> /\ k[1] \in Nat \ {0} /\ k[2] \in Name

Base ==
  /\ DOMAIN call = Caller /\ instance \in Instances
  /\ batches \in Nat \ {0} /\ overtaken \in BOOLEAN
  /\ Pairs

RegistryInv ==
  /\ Base /\ StoredIsReachable
  /\ \A c \in Caller : Sound(call[c]) /\ Known(call[c]) /\ Counted(call[c])

-------------------------------------------------------------------------------
(* General steps. *)

\* What is stored stays, and the number of batches does not fall unless it was
\* saved over another.
Grows ==
  /\ DOMAIN workflows \subseteq DOMAIN workflows'
  /\ ~overtaken' => ~overtaken /\ batches <= batches'

\* A step of one call keeps the invariant when what it becomes is sound.
LEMMA OneCall ==
  ASSUME RegistryInv, NEW c \in Caller, NEW r, call' = [call EXCEPT ![c] = r],
         Sound(r), r.pc = "search" => r.known \subseteq DOMAIN workflows',
         ~overtaken' => /\ r.pc \in {"search", "count", "create"} => r.total <= batches'
                        /\ r.pc = "batches" => r.total <= batches' + 1,
         Base', Grows, StoredIsReachable'
  PROVE  RegistryInv'
<1>1. call'[c] = r /\ \A d \in Caller \ {c} : call'[d] = call[d]
  BY DEF RegistryInv, Base
<1>2. ASSUME NEW d \in Caller PROVE Sound(call[d])' /\ Known(call[d])' /\ Counted(call[d])'
  <2>1. CASE d = c
    BY <1>1, <2>1 DEF Sound, Halves, NameAhead, MatchesAhead, Ahead, Known, Counted
  <2>2. CASE d # c
    <3>1. call'[d] = call[d] /\ Sound(call[d]) /\ Known(call[d]) /\ Counted(call[d])
      BY <1>1, <2>2 DEF RegistryInv
    <3>2. Sound(call[d])'
      BY <3>1 DEF Sound, Halves, NameAhead, MatchesAhead, Ahead
    <3>3. Known(call[d])'
      BY <3>1 DEF Known, Grows
    <3>4. Counted(call[d])'
      BY <3>1 DEF Counted, Grows, Sound, Counting, RegistryInv, Base
    <3> QED
      BY <3>2, <3>3, <3>4
  <2> QED
    BY <2>1, <2>2
<1> QED
  BY <1>2 DEF RegistryInv

\* A step of a call that stores nothing a search reads.
LEMMA QuietCall ==
  ASSUME RegistryInv, NEW c \in Caller, NEW r, call' = [call EXCEPT ![c] = r],
         Sound(r), r.pc = "search" => r.known \subseteq DOMAIN workflows,
         ~overtaken => /\ r.pc \in {"search", "count", "create"} => r.total <= batches
                       /\ r.pc = "batches" => r.total <= batches + 1,
         instance' = instance, batches' = batches, overtaken' = overtaken,
         DOMAIN workflows' = DOMAIN workflows
  PROVE  RegistryInv'
<1>1. Base' /\ Grows /\ StoredIsReachable'
  BY DEF RegistryInv, Base, Pairs, Grows, StoredIsReachable
<1> QED
  BY <1>1, OneCall

\* A call that has nothing more to do with searching.
Away(r) ==
  /\ Fields \subseteq DOMAIN r
  /\ r.kind = "create" => r.name \in Name
  /\ r.pc \notin Counting \union {"answer"}

\* Nothing is asked of a call that does not search.
LEMMA AwayIsSound ==
  ASSUME NEW r, Away(r)
  PROVE  /\ Sound(r) /\ r.pc # "search"
         /\ r.pc \notin {"search", "count", "create"} /\ r.pc # "batches"
  BY DEF Away, Sound, Counting

LEMMA IdleAway == Away(Idle)
  BY DEF Away, Idle, Fields, Counting

\* A call that goes away from the search stores no workflow.
LEMMA AwayCall ==
  ASSUME RegistryInv, NEW c \in Caller, NEW r, call' = [call EXCEPT ![c] = r], Away(r),
         instance' = instance, batches' = batches, overtaken' = overtaken,
         DOMAIN workflows' = DOMAIN workflows
  PROVE  RegistryInv'
  BY AwayIsSound, QuietCall

\* A call that ends.
LEMMA FinishKeeps ==
  ASSUME RegistryInv, NEW c \in Caller, Finish(c),
         instance' = instance, batches' = batches, overtaken' = overtaken,
         DOMAIN workflows' = DOMAIN workflows
  PROVE  RegistryInv'
  BY IdleAway, AwayCall DEF Finish

\* A call that goes on to a place away from the search.
LEMMA GotoKeeps ==
  ASSUME RegistryInv, NEW c \in Caller, NEW p, Goto(c, p), p \notin Counting \union {"answer"},
         instance' = instance, batches' = batches, overtaken' = overtaken,
         DOMAIN workflows' = DOMAIN workflows
  PROVE  RegistryInv'
<1>1. PICK r : r = [call[c] EXCEPT !.pc = p]
  OBVIOUS
<1>2. Sound(call[c]) /\ DOMAIN call = Caller
  BY DEF RegistryInv, Base
<1>3. Away(r)
  BY <1>1, <1>2 DEF Away, Sound, Fields
<1>4. call' = [call EXCEPT ![c] = r]
  BY <1>1, <1>2 DEF Goto
<1> QED
  BY <1>3, <1>4, AwayCall

-------------------------------------------------------------------------------
(* The search. *)

\* The two loops are given all batches between them.
LEMMA SearchingIsSound ==
  ASSUME RegistryInv, NEW q, Fields \subseteq DOMAIN q, q.pc = "search",
         q.kind = "create" => q.name \in Name,
         NEW r, r = Searching(q)
  PROVE  /\ Sound(r) /\ r.pc = "search"
         /\ r.known \subseteq DOMAIN workflows /\ r.total <= batches
<1> DEFINE half == batches \div 2
           Loop(a, b) == [i \in 1..(b + 1 - a) |-> a + i - 1]
<1>1. /\ Fields \subseteq DOMAIN r /\ r.pc = "search" /\ r.kind = q.kind /\ r.name = q.name
      /\ r.total = batches /\ r.searched = 0
      /\ r.left = IF batches > 1 THEN Loop(1, half) ELSE <<1>>
      /\ r.right = IF batches > 1 THEN Loop(half + 1, batches) ELSE << >>
      /\ r.known = {k \in DOMAIN workflows : k[1] <= batches}
  BY DEF Searching, Fields
<1>2. /\ batches \in Nat \ {0} /\ half \in Nat
      /\ batches > 1 => 1 <= half /\ half + 1 <= batches
      /\ \A k \in r.known : k[1] \in 1..batches
  BY <1>1 DEF RegistryInv, Base, Pairs
<1> HIDE DEF half
<1>3. Halves(r) /\ 1..batches \subseteq Ahead(r)
  <2>1. CASE batches > 1
    <3>1. r.left = Loop(1, half) /\ r.right = Loop(half + 1, batches)
      BY <1>1, <2>1
    <3>2. /\ DOMAIN r.left = 1..half /\ \A i \in 1..half : r.left[i] = i
          /\ r.left \in Seq(Nat) /\ Len(r.left) = half
      BY <1>2, <2>1, <3>1
    <3>3. /\ DOMAIN r.right = 1..(batches - half)
          /\ \A i \in 1..(batches - half) : r.right[i] = half + i
          /\ r.right \in Seq(Nat) /\ Len(r.right) = batches - half
      BY <1>2, <2>1, <3>1
    <3>4. Halves(r)
      <4>1. r.left # << >> /\ r.right # << >>
        BY <1>2, <2>1, <3>2, <3>3
      <4> QED
        BY <1>1, <2>1, <3>2, <3>3, <4>1 DEF Halves
    <3>5. ASSUME NEW b \in 1..batches PROVE b \in Ahead(r)
      <4>1. CASE b <= half
        BY <1>2, <3>2, <4>1 DEF Ahead, Range
      <4>2. CASE b > half
        <5>1. b - half \in DOMAIN r.right /\ r.right[b - half] = b
          BY <1>2, <3>3, <4>2
        <5> QED
          BY <5>1 DEF Ahead, Range
      <4> QED
        BY <1>2, <4>1, <4>2
    <3> QED
      BY <3>4, <3>5
  <2>2. CASE ~(batches > 1)
    <3>1. batches = 1 /\ r.left = <<1>> /\ r.right = << >>
      BY <1>1, <1>2, <2>2
    <3>2. DOMAIN r.left = {1} /\ r.left[1] = 1 /\ r.left \in Seq(Nat) /\ r.right \in Seq(Nat)
      BY <3>1
    <3> QED
      BY <1>1, <3>1, <3>2 DEF Halves, Ahead, Range
  <2> QED
    BY <2>1, <2>2
<1>4. Sound(r)
  BY <1>1, <1>2, <1>3 DEF Sound, Counting, NameAhead, MatchesAhead
<1> QED
  BY <1>1, <1>2, <1>4

LEMMA BeginSearchKeeps ==
  ASSUME RegistryInv, NEW c \in Caller, NEW q, Fields \subseteq DOMAIN q, q.pc = "search",
         q.kind = "create" => q.name \in Name, Begin(c, Searching(q))
  PROVE  RegistryInv'
<1>1. PICK r : r = Searching(q)
  OBVIOUS
<1>2. /\ Sound(r) /\ r.pc = "search"
      /\ r.known \subseteq DOMAIN workflows /\ r.total <= batches
  BY <1>1, SearchingIsSound
<1>3. call' = [call EXCEPT ![c] = r]
  BY <1>1 DEF Begin
<1> QED
  BY <1>2, <1>3, QuietCall DEF Begin, tables

LEMMA CreateWorkflowKeeps ==
  ASSUME RegistryInv, NEW c \in Caller, CreateWorkflow(c) PROVE RegistryInv'
<1>1. PICK n \in instance.names, d \in instance.drawings :
        Begin(c, Searching([Idle EXCEPT !.pc = "search", !.kind = "create", !.name = n,
                                        !.drawing = d, !.number = 1]))
  BY DEF CreateWorkflow
<1>2. PICK q : q = [Idle EXCEPT !.pc = "search", !.kind = "create", !.name = n,
                                !.drawing = d, !.number = 1]
  OBVIOUS
<1>3. Fields \subseteq DOMAIN q /\ q.pc = "search" /\ q.name \in Name
  BY <1>2, RegistryAssumption DEF Idle, Fields, RegistryInv, Base
<1> QED
  BY <1>1, <1>2, <1>3, BeginSearchKeeps

LEMMA GetWorkflowsKeeps ==
  ASSUME RegistryInv, NEW c \in Caller, GetWorkflowsOfAnOrg(c) PROVE RegistryInv'
<1>1. PICK s : Begin(c, Searching([Idle EXCEPT !.pc = "search", !.kind = "search", !.name = s]))
  BY DEF GetWorkflowsOfAnOrg
<1>2. PICK q : q = [Idle EXCEPT !.pc = "search", !.kind = "search", !.name = s]
  OBVIOUS
<1>3. Fields \subseteq DOMAIN q /\ q.pc = "search" /\ q.kind # "create"
  BY <1>2 DEF Idle, Fields
<1> QED
  BY <1>1, <1>2, <1>3, BeginSearchKeeps

LEMMA CreateNextVersionKeeps ==
  ASSUME RegistryInv, NEW c \in Caller, CreateNextVersion(c) PROVE RegistryInv'
<1>1. PICK k \in DOMAIN workflows, d \in instance.drawings :
        Begin(c, [Idle EXCEPT !.pc = "types", !.kind = "create", !.name = k[2],
                    !.drawing = d, !.key = k,
                    !.number = Cardinality({i \in DOMAIN versions : versions[i].key = k}) + 1])
  BY DEF CreateNextVersion
<1>2. PICK r : r = [Idle EXCEPT !.pc = "types", !.kind = "create", !.name = k[2],
                      !.drawing = d, !.key = k,
                      !.number = Cardinality({i \in DOMAIN versions : versions[i].key = k}) + 1]
  OBVIOUS
<1>3. Away(r)
  BY <1>2 DEF Away, Idle, Fields, Counting, RegistryInv, Base, Pairs
<1> QED
  BY <1>1, <1>2, <1>3, AwayCall DEF Begin, tables

\* A loop reads the first of its batches.
LEMMA HeadOrTail ==
  ASSUME NEW s \in Seq(Nat), s # << >>
  PROVE  /\ Tail(s) \in Seq(Nat) /\ Range(s) \subseteq {Head(s)} \union Range(Tail(s))
         /\ Len(s) > 1 => Tail(s) # << >>
         /\ ~(Len(s) > 1) => Range(s) \subseteq {Head(s)}
<1>1. Len(s) \in Nat /\ Len(s) >= 1 /\ DOMAIN s = 1..Len(s) /\ Head(s) = s[1]
  OBVIOUS
<1>2. /\ Tail(s) \in Seq(Nat) /\ Len(Tail(s)) = Len(s) - 1
      /\ \A i \in 1..(Len(s) - 1) : Tail(s)[i] = s[i + 1]
  BY <1>1
<1>3. ASSUME NEW i \in 1..Len(s) PROVE s[i] \in {Head(s)} \union Range(Tail(s))
  <2>1. CASE i = 1
    BY <1>1, <2>1
  <2>2. CASE i # 1
    <3>1. i - 1 \in DOMAIN Tail(s) /\ Tail(s)[i - 1] = s[i]
      BY <1>1, <1>2, <2>2
    <3> QED
      BY <3>1 DEF Range
  <2> QED
    BY <2>1, <2>2
<1>4. ASSUME Len(s) > 1 PROVE Tail(s) # << >>
  <2>1. Len(Tail(s)) # 0 /\ Len(<< >>) = 0
    BY <1>1, <1>2, <1>4
  <2> QED
    BY <2>1
<1>5. ASSUME ~(Len(s) > 1) PROVE Range(s) \subseteq {Head(s)}
  BY <1>1, <1>5 DEF Range
<1> QED
  BY <1>1, <1>2, <1>3, <1>4, <1>5 DEF Range

OtherSide(side) == IF side = "left" THEN "right" ELSE "left"

\* What a loop leaves in n after it has read a batch of r, as Halves and
\* Ahead see it.
LEMMA BatchRead ==
  ASSUME NEW r, Fields \subseteq DOMAIN r, Halves(r), r.total \in Nat \ {0},
         NEW side \in {"left", "right"}, r[side] # << >>
  PROVE  /\ \A n : /\ Len(r[side]) > 1 /\ n[side] = Tail(r[side])
                   /\ n[OtherSide(side)] = r[OtherSide(side)]
                   /\ n.total = r.total /\ n.searched = r.searched
                   => Halves(n) /\ Ahead(r) \subseteq Ahead(n) \union {Head(r[side])}
         /\ ~(Len(r[side]) > 1) /\ LoopEnds(r) => Ahead(r) \subseteq {Head(r[side])}
         /\ \A n : /\ ~(Len(r[side]) > 1) /\ ~LoopEnds(r) /\ n[side] = << >>
                   /\ n[OtherSide(side)] = r[OtherSide(side)]
                   /\ n.total = r.total /\ n.searched = r.searched + 1
                   => Halves(n) /\ Ahead(r) \subseteq Ahead(n) \union {Head(r[side])}
<1>1. Range(<< >>) = {} /\ << >> \in Seq(Nat)
  BY DEF Range
<1>2. /\ r.left \in Seq(Nat) /\ r.right \in Seq(Nat)
      /\ Ahead(r) = Range(r[side]) \union Range(r[OtherSide(side)])
      /\ r[side] \in Seq(Nat) /\ r[OtherSide(side)] \in Seq(Nat)
  BY DEF Halves, Ahead, OtherSide
<1>3. /\ Tail(r[side]) \in Seq(Nat)
      /\ Range(r[side]) \subseteq {Head(r[side])} \union Range(Tail(r[side]))
      /\ Len(r[side]) > 1 => Tail(r[side]) # << >>
      /\ ~(Len(r[side]) > 1) => Range(r[side]) \subseteq {Head(r[side])}
  BY <1>2, HeadOrTail
<1>4. /\ r.total = 1 => r.right = << >> /\ side = "left"
      /\ r.total # 1 => \/ r.searched = 0 /\ r[OtherSide(side)] # << >>
                        \/ r.searched = 1 /\ r[OtherSide(side)] = << >>
  BY DEF Halves, OtherSide
<1>5. ASSUME NEW n, Len(r[side]) > 1, n[side] = Tail(r[side]),
             n[OtherSide(side)] = r[OtherSide(side)], n.total = r.total, n.searched = r.searched
      PROVE  Halves(n) /\ Ahead(r) \subseteq Ahead(n) \union {Head(r[side])}
  <2>1. CASE side = "left"
    BY <1>2, <1>3, <1>4, <1>5, <2>1 DEF Halves, Ahead, OtherSide
  <2>2. CASE side = "right"
    BY <1>2, <1>3, <1>4, <1>5, <2>2 DEF Halves, Ahead, OtherSide
  <2> QED
    BY <2>1, <2>2
<1>6. ASSUME ~(Len(r[side]) > 1), LoopEnds(r) PROVE Ahead(r) \subseteq {Head(r[side])}
  <2>1. r[OtherSide(side)] = << >>
    BY <1>4, <1>6 DEF LoopEnds, OtherSide
  <2> QED
    BY <1>1, <1>2, <1>3, <1>6, <2>1
<1>7. ASSUME NEW n, ~(Len(r[side]) > 1), ~LoopEnds(r), n[side] = << >>,
             n[OtherSide(side)] = r[OtherSide(side)], n.total = r.total,
             n.searched = r.searched + 1
      PROVE  Halves(n) /\ Ahead(r) \subseteq Ahead(n) \union {Head(r[side])}
  <2>1. r.total # 1 /\ n.searched = 1
    BY <1>4, <1>7 DEF LoopEnds
  <2>2. CASE side = "left"
    BY <1>1, <1>2, <1>3, <1>7, <2>1, <2>2 DEF Halves, Ahead, OtherSide
  <2>3. CASE side = "right"
    BY <1>1, <1>2, <1>3, <1>7, <2>1, <2>3 DEF Halves, Ahead, OtherSide
  <2> QED
    BY <2>2, <2>3
<1> QED
  BY <1>5, <1>6, <1>7

LEMMA LookUpKeeps ==
  ASSUME RegistryInv, NEW c \in Caller, NEW side \in {"left", "right"}, LookUp(c, side)
  PROVE  RegistryInv'
<1>1. PICK r : r = call[c]
  OBVIOUS
<1>2. /\ Fields \subseteq DOMAIN r /\ r.pc = "search" /\ r.kind = "create" /\ r[side] # << >>
      /\ r.name \in Name /\ r.total \in Nat \ {0} /\ Halves(r) /\ NameAhead(r)
      /\ r.known \subseteq DOMAIN workflows /\ (~overtaken => r.total <= batches)
  BY <1>1 DEF RegistryInv, LookUp, At, Sound, Counting, Known, Counted
<1>3. instance' = instance /\ tables' = tables /\ overtaken' = overtaken
  BY DEF LookUp, NothingStored
<1>4. /\ side \in Fields /\ OtherSide(side) \in Fields \ {side}
      /\ {side, OtherSide(side)} \cap {"pc", "kind", "name", "total", "searched", "known"} = {}
  BY DEF Fields, OtherSide
<1>5. CASE <<Head(r[side]), r.name>> \in DOMAIN workflows
  <2>1. Finish(c)
    BY <1>1, <1>5 DEF LookUp, Finish
  <2> QED
    BY <1>3, <2>1, FinishKeeps DEF tables
<1>6. CASE <<Head(r[side]), r.name>> \notin DOMAIN workflows
  <2>1. \A k \in r.known : k[2] = r.name => k[1] # Head(r[side])
    BY <1>2, <1>6 DEF RegistryInv, Base, Pairs
  <2>2. PICK n : n = IF Len(r[side]) > 1 THEN [r EXCEPT ![side] = Tail(@)]
                     ELSE IF LoopEnds(r) THEN [r EXCEPT !.pc = "count", ![side] = << >>]
                     ELSE [r EXCEPT !.searched = @ + 1, ![side] = << >>]
    OBVIOUS
  <2>3. call' = [call EXCEPT ![c] = n]
    BY <1>1, <1>6, <2>2 DEF LookUp
  <2>4. /\ Fields \subseteq DOMAIN n /\ n.kind = r.kind /\ n.name = r.name
        /\ n.total = r.total /\ n.known = r.known
        /\ n[OtherSide(side)] = r[OtherSide(side)]
    BY <1>2, <1>4, <2>2 DEF Fields
  <2>5. Sound(n) /\ n.pc \in {"search", "count"}
    <3>1. CASE Len(r[side]) > 1
      <4>1. n.pc = "search" /\ n[side] = Tail(r[side]) /\ n.searched = r.searched
        BY <1>2, <1>4, <2>2, <3>1 DEF Fields
      <4>2. Halves(n) /\ Ahead(r) \subseteq Ahead(n) \union {Head(r[side])}
        BY <1>2, <2>4, <3>1, <4>1, BatchRead
      <4> QED
        BY <1>2, <2>1, <2>4, <4>1, <4>2 DEF Sound, Counting, NameAhead
    <3>2. CASE ~(Len(r[side]) > 1) /\ LoopEnds(r)
      <4>1. n.pc = "count"
        BY <1>2, <1>4, <2>2, <3>2 DEF Fields
      <4>2. Ahead(r) \subseteq {Head(r[side])}
        BY <1>2, <3>2, BatchRead
      <4> QED
        BY <1>2, <2>1, <2>4, <4>1, <4>2 DEF Sound, Counting, NameAhead
    <3>3. CASE ~(Len(r[side]) > 1) /\ ~LoopEnds(r)
      <4>1. n.pc = "search" /\ n[side] = << >> /\ n.searched = r.searched + 1
        BY <1>2, <1>4, <2>2, <3>3 DEF Fields
      <4>2. Halves(n) /\ Ahead(r) \subseteq Ahead(n) \union {Head(r[side])}
        BY <1>2, <2>4, <3>3, <4>1, BatchRead
      <4> QED
        BY <1>2, <2>1, <2>4, <4>1, <4>2 DEF Sound, Counting, NameAhead
    <3> QED
      BY <3>1, <3>2, <3>3
  <2> QED
    BY <1>2, <1>3, <2>3, <2>4, <2>5, QuietCall DEF tables
<1> QED
  BY <1>5, <1>6

LEMMA FilterKeeps ==
  ASSUME RegistryInv, NEW c \in Caller, NEW side \in {"left", "right"}, Filter(c, side)
  PROVE  RegistryInv'
<1>1. PICK r : r = call[c]
  OBVIOUS
<1>2. /\ Fields \subseteq DOMAIN r /\ r.pc = "search" /\ r.kind = "search" /\ r[side] # << >>
      /\ r.total \in Nat \ {0} /\ Halves(r) /\ MatchesAhead(r)
      /\ r.known \subseteq DOMAIN workflows /\ (~overtaken => r.total <= batches)
  BY <1>1 DEF RegistryInv, Filter, At, Sound, Counting, Known, Counted
<1>3. instance' = instance /\ tables' = tables /\ overtaken' = overtaken
  BY DEF Filter, NothingStored
<1>4. /\ side \in Fields /\ OtherSide(side) \in Fields \ {side}
      /\ {side, OtherSide(side)} \cap
           {"pc", "kind", "name", "total", "searched", "known", "matched"} = {}
  BY DEF Fields, OtherSide
<1>5. PICK found : found = r.matched \union
        {k \in DOMAIN workflows : k[1] = Head(r[side]) /\ <<r.name, k[2]>> \in Begins}
  OBVIOUS
<1>6. PICK n : n = IF Len(r[side]) > 1 THEN [r EXCEPT ![side] = Tail(@), !.matched = found]
                   ELSE IF LoopEnds(r)
                        THEN [r EXCEPT !.pc = "answer", ![side] = << >>, !.matched = found]
                   ELSE [r EXCEPT !.searched = @ + 1, ![side] = << >>, !.matched = found]
  OBVIOUS
<1>7. call' = [call EXCEPT ![c] = n]
  BY <1>1, <1>5, <1>6 DEF Filter
<1>8. /\ Fields \subseteq DOMAIN n /\ n.kind = r.kind /\ n.name = r.name
      /\ n.total = r.total /\ n.known = r.known /\ n.matched = found
      /\ n[OtherSide(side)] = r[OtherSide(side)]
  BY <1>2, <1>4, <1>6 DEF Fields
<1>9. \A k \in r.known : <<r.name, k[2]>> \in Begins =>
        k \in found \/ k[1] \in Ahead(r) \ {Head(r[side])}
  BY <1>2, <1>5 DEF MatchesAhead
<1>10. Sound(n) /\ n.pc \in {"search", "answer"}
  <2>1. CASE Len(r[side]) > 1
    <3>1. n.pc = "search" /\ n[side] = Tail(r[side]) /\ n.searched = r.searched
      BY <1>2, <1>4, <1>6, <2>1 DEF Fields
    <3>2. Halves(n) /\ Ahead(r) \subseteq Ahead(n) \union {Head(r[side])}
      BY <1>2, <1>8, <2>1, <3>1, BatchRead
    <3> QED
      BY <1>2, <1>8, <1>9, <3>1, <3>2 DEF Sound, Counting, MatchesAhead
  <2>2. CASE ~(Len(r[side]) > 1) /\ LoopEnds(r)
    <3>1. n.pc = "answer"
      BY <1>2, <1>4, <1>6, <2>2 DEF Fields
    <3>2. Ahead(r) \subseteq {Head(r[side])}
      BY <1>2, <2>2, BatchRead
    <3> QED
      BY <1>2, <1>8, <1>9, <3>1, <3>2 DEF Sound, Counting
  <2>3. CASE ~(Len(r[side]) > 1) /\ ~LoopEnds(r)
    <3>1. n.pc = "search" /\ n[side] = << >> /\ n.searched = r.searched + 1
      BY <1>2, <1>4, <1>6, <2>3 DEF Fields
    <3>2. Halves(n) /\ Ahead(r) \subseteq Ahead(n) \union {Head(r[side])}
      BY <1>2, <1>8, <2>3, <3>1, BatchRead
    <3> QED
      BY <1>2, <1>8, <1>9, <3>1, <3>2 DEF Sound, Counting, MatchesAhead
  <2> QED
    BY <2>1, <2>2, <2>3
<1> QED
  BY <1>2, <1>3, <1>7, <1>8, <1>10, QuietCall DEF tables

-------------------------------------------------------------------------------
(* The creation. *)

LEMMA CountBatchKeeps ==
  ASSUME RegistryInv, NEW c \in Caller, CountBatch(c) PROVE RegistryInv'
<1>1. PICK r : r = call[c]
  OBVIOUS
<1> DEFINE full == Cardinality(InBatch(r.total)) >= BatchLimit
<1>3. PICK n : n = [r EXCEPT !.pc = IF full THEN "batches" ELSE "create",
                             !.total = IF full THEN @ + 1 ELSE @]
  OBVIOUS
<1>4. /\ DOMAIN call = Caller /\ Sound(r) /\ r.pc = "count" /\ batches \in Nat
      /\ (~overtaken => r.total <= batches)
  BY <1>1 DEF CountBatch, At, RegistryInv, Base, Counted
<1>5. r.total \in Nat \ {0} /\ r.kind = "create" /\ r.name \in Name /\ Fields \subseteq DOMAIN r
  BY <1>4 DEF Sound, Counting
<1>6. /\ Fields \subseteq DOMAIN n /\ n.kind = "create" /\ n.name = r.name
      /\ \/ n.pc = "batches" /\ n.total = r.total + 1
         \/ n.pc = "create" /\ n.total = r.total
  BY <1>3, <1>5 DEF Fields
<1>7. Sound(n)
  BY <1>5, <1>6 DEF Sound, Counting
<1>8. call' = [call EXCEPT ![c] = n]
  BY <1>1, <1>3, <1>4 DEF CountBatch
<1> HIDE DEF full
<1>9. /\ n.pc # "search"
      /\ ~overtaken => /\ n.pc \in {"search", "count", "create"} => n.total <= batches
                       /\ n.pc = "batches" => n.total <= batches + 1
  BY <1>4, <1>5, <1>6
<1>10. UNCHANGED <<instance, batches, overtaken>> /\ DOMAIN workflows' = DOMAIN workflows
  BY DEF CountBatch, NothingStored, tables
<1> QED
  BY <1>7, <1>8, <1>9, <1>10, QuietCall

LEMMA SaveBatchesKeeps ==
  ASSUME RegistryInv, NEW c \in Caller, SaveBatches(c) PROVE RegistryInv'
<1>1. PICK r : r = call[c]
  OBVIOUS
<1>2. PICK n : n = [r EXCEPT !.pc = "create"]
  OBVIOUS
<1>3. /\ DOMAIN call = Caller /\ Sound(r) /\ r.pc = "batches" /\ batches \in Nat \ {0}
      /\ batches' = r.total /\ overtaken' = (overtaken \/ batches # r.total - 1)
      /\ workflows' = workflows /\ instance' = instance
  BY <1>1 DEF SaveBatches, At, RegistryInv, Base
<1>4. r.total \in Nat \ {0} /\ r.kind = "create" /\ r.name \in Name /\ Fields \subseteq DOMAIN r
  BY <1>3 DEF Sound, Counting
<1>5. /\ Fields \subseteq DOMAIN n /\ n.kind = "create" /\ n.name = r.name
      /\ n.pc = "create" /\ n.total = r.total
  BY <1>2, <1>4 DEF Fields
<1>6. Sound(n)
  BY <1>4, <1>5 DEF Sound, Counting
<1>7. call' = [call EXCEPT ![c] = n]
  BY <1>1, <1>2, <1>3 DEF SaveBatches, Goto
<1>8. overtaken \in BOOLEAN /\ Pairs
  BY DEF RegistryInv, Base
<1>9. ~overtaken' => ~overtaken /\ batches' = batches + 1
  <2>1. ASSUME ~overtaken' PROVE ~overtaken /\ batches = r.total - 1
    BY ONLY <1>3, <2>1
  <2> QED
    BY <1>3, <1>4, <2>1
<1>10. Base' /\ Grows
  BY <1>3, <1>4, <1>7, <1>8, <1>9 DEF RegistryInv, Base, Pairs, Grows
<1>11. StoredIsReachable'
  BY <1>3, <1>8, <1>9 DEF RegistryInv, StoredIsReachable, Pairs
<1> QED
  <2>1. n.total <= batches' /\ n.pc # "search" /\ n.pc # "batches"
    BY <1>3, <1>4, <1>5
  <2> QED
    BY <1>6, <1>7, <1>10, <1>11, <2>1, OneCall

LEMMA CreateKeeps ==
  ASSUME RegistryInv, NEW c \in Caller, Create(c) PROVE RegistryInv'
<1>1. PICK r : r = call[c]
  OBVIOUS
<1>2. PICK k : k = <<r.total, r.name>>
  OBVIOUS
<1>3. /\ DOMAIN call = Caller /\ Sound(r) /\ r.pc = "create"
      /\ (~overtaken => r.total <= batches)
      /\ batches' = batches /\ overtaken' = overtaken /\ instance' = instance
  BY <1>1 DEF Create, At, RegistryInv, Base, Counted
<1>4. r.total \in Nat \ {0} /\ r.kind = "create" /\ r.name \in Name /\ Fields \subseteq DOMAIN r
  BY <1>3 DEF Sound, Counting
<1>5. CASE k \in DOMAIN workflows
  BY <1>1, <1>2, <1>3, <1>5, FinishKeeps DEF Create
<1>6. CASE k \notin DOMAIN workflows
  <2>1. PICK n : n = [r EXCEPT !.pc = "types", !.key = k]
    OBVIOUS
  <2>2. Away(n)
    BY <1>4, <2>1 DEF Away, Fields, Counting
  <2>3. call' = [call EXCEPT ![c] = n] /\ DOMAIN workflows' = DOMAIN workflows \union {k}
    BY <1>1, <1>2, <1>3, <1>6, <2>1 DEF Create
  <2>4. k = <<k[1], k[2]>> /\ k[1] = r.total /\ k[2] = r.name
    BY <1>2
  <2>5. Base' /\ Grows
    BY <1>3, <1>4, <2>3, <2>4 DEF RegistryInv, Base, Pairs, Grows
  <2>6. StoredIsReachable'
    BY <1>3, <2>3, <2>4 DEF RegistryInv, StoredIsReachable
  <2> QED
    BY <2>2, <2>3, <2>5, <2>6, AwayIsSound, OneCall
<1> QED
  BY <1>5, <1>6

LEMMA PhaseIsAway ==
  ASSUME NEW q, Away(q), q.pc = "links" \/ q.pc = "approvals" \/ q.pc = "conditions"
  PROVE  Away(Phase(q))
<1>1. PICK n : n = Phase(q)
  OBVIOUS
<1>2. \/ n = q
      \/ \E p \in {"approvals", "conditions"} : \E s : n = [q EXCEPT !.pc = p, !.todo = s]
      \/ n = [q EXCEPT !.pc = "versionFaid"]
  BY <1>1 DEF Phase
<1>3. Away(n)
  BY <1>2 DEF Away, Fields, Counting
<1> QED
  BY <1>1, <1>3

\* A call past the creation of its workflow stays away from the search.
LEMMA LaterIsAway ==
  ASSUME RegistryInv, NEW c \in Caller, call[c].pc \notin Counting \union {"answer"}
  PROVE  Away(call[c])
  BY DEF RegistryInv, Sound, Away

LEMMA CreateVersionKeeps ==
  ASSUME RegistryInv, NEW c \in Caller, CreateVersion(c) PROVE RegistryInv'
<1>1. PICK r : r = call[c]
  OBVIOUS
<1>2. Away(r) /\ workflows' = workflows /\ UNCHANGED <<instance, batches, overtaken>>
  BY <1>1, LaterIsAway DEF CreateVersion, At, Counting
<1>3. CASE DesignThrows(r.drawing)
  BY <1>1, <1>2, <1>3, FinishKeeps DEF CreateVersion, Finish
<1>4. CASE ~DesignThrows(r.drawing)
  <2>1. PICK l : l = Len(versions')
    OBVIOUS
  <2>2. PICK n : n = [r EXCEPT !.pc = "steps", !.v = l]
    OBVIOUS
  <2>3. Away(n)
    BY <1>2, <2>2 DEF Away, Fields, Counting
  <2>4. call' = [call EXCEPT ![c] = n]
    BY <1>1, <1>4, <2>1, <2>2 DEF CreateVersion
  <2> QED
    BY <1>2, <2>3, <2>4, AwayCall
<1> QED
  BY <1>3, <1>4

LEMMA PhaseKeeps ==
  ASSUME RegistryInv, NEW c \in Caller, NEW p \in {"links", "approvals", "conditions"}, NEW s,
         call' = [call EXCEPT ![c] = Phase([call[c] EXCEPT !.pc = p, !.todo = s])],
         Away(call[c]), workflows' = workflows, UNCHANGED <<instance, batches, overtaken>>
  PROVE  RegistryInv'
<1>1. PICK q : q = [call[c] EXCEPT !.pc = p, !.todo = s]
  OBVIOUS
<1>2. Away(q) /\ q.pc = p
  BY <1>1 DEF Away, Fields, Counting
<1>3. PICK n : n = Phase(q)
  OBVIOUS
<1>4. Away(n)
  BY <1>2, <1>3, PhaseIsAway
<1>5. call' = [call EXCEPT ![c] = n]
  BY <1>1, <1>3
<1> QED
  BY <1>4, <1>5, AwayCall

LEMMA CreateStepsKeeps ==
  ASSUME RegistryInv, NEW c \in Caller, CreateSteps(c) PROVE RegistryInv'
<1>1. Away(call[c])
  BY LaterIsAway DEF CreateSteps, At, Counting
<1>2. PICK s : s = Leading(call[c].drawing)
  OBVIOUS
<1>3. call' = [call EXCEPT ![c] = Phase([call[c] EXCEPT !.pc = "links", !.todo = s])]
  BY <1>2 DEF CreateSteps
<1> QED
  BY <1>1, <1>3, PhaseKeeps DEF CreateSteps

LEMMA SaveStepKeeps ==
  ASSUME RegistryInv, NEW c \in Caller, NEW p \in {"links", "approvals", "conditions"},
         NEW step, SaveStep(c, p, step)
  PROVE  RegistryInv'
<1>1. Away(call[c]) /\ call[c].pc = p
  BY LaterIsAway DEF SaveStep, At, Counting
<1>2. PICK s : s = call[c].todo \ {Min(call[c].todo)}
  OBVIOUS
<1>3. [call[c] EXCEPT !.todo = @ \ {Min(@)}] = [call[c] EXCEPT !.pc = p, !.todo = s]
  BY <1>1, <1>2 DEF Away, Fields
<1>4. call' = [call EXCEPT ![c] = Phase([call[c] EXCEPT !.todo = @ \ {Min(@)}])]
  BY DEF SaveStep
<1>5. call' = [call EXCEPT ![c] = Phase([call[c] EXCEPT !.pc = p, !.todo = s])]
  BY <1>3, <1>4
<1> QED
  BY <1>1, <1>5, PhaseKeeps DEF SaveStep

LEMMA SaveWorkflowFaidKeeps ==
  ASSUME RegistryInv, NEW c \in Caller, SaveWorkflowFaid(c) PROVE RegistryInv'
<1>1. DOMAIN workflows' = DOMAIN workflows
  BY DEF SaveWorkflowFaid
<1> QED
  BY <1>1, FinishKeeps DEF SaveWorkflowFaid

-------------------------------------------------------------------------------
(* The specification. *)

LEMMA RegistryInit == Init => RegistryInv
<1> SUFFICES ASSUME Init PROVE RegistryInv
  OBVIOUS
<1>1. /\ DOMAIN call = Caller /\ \A c \in Caller : call[c] = Idle
      /\ instance \in Instances /\ batches = instance.batches /\ overtaken = FALSE
      /\ DOMAIN workflows = instance.workflows
  BY DEF Init
<1>2. batches \in Nat \ {0} /\ DOMAIN workflows \subseteq (1..batches) \X Name
  BY <1>1, RegistryAssumption
<1>3. Base /\ StoredIsReachable
  <2>1. ASSUME NEW k \in DOMAIN workflows
        PROVE  k = <<k[1], k[2]>> /\ k[1] \in Nat \ {0} /\ k[1] <= batches /\ k[2] \in Name
    <3>1. k = <<k[1], k[2]>> /\ k[1] \in 1..batches /\ k[2] \in Name
      BY <1>2, <2>1
    <3> QED
      BY <1>2, <3>1
  <2> QED
    BY <1>1, <1>2, <2>1 DEF Base, Pairs, StoredIsReachable
<1>4. \A c \in Caller : Sound(call[c]) /\ Known(call[c]) /\ Counted(call[c])
  BY <1>1, IdleAway, AwayIsSound DEF Known, Counted
<1> QED
  BY <1>3, <1>4 DEF RegistryInv

\* Every step of a caller keeps the invariant of the search.
LEMMA RegistryStep ==
  ASSUME RegistryInv, NEW c \in Caller, Step(c) PROVE RegistryInv'
<1>1. CASE CreateWorkflow(c)
  BY <1>1, CreateWorkflowKeeps
<1>2. CASE CreateNextVersion(c)
  BY <1>2, CreateNextVersionKeeps
<1>3. CASE GetWorkflowsOfAnOrg(c)
  BY <1>3, GetWorkflowsKeeps
<1>4. CASE \E side \in {"left", "right"} : LookUp(c, side) \/ Filter(c, side)
  BY <1>4, LookUpKeeps, FilterKeeps
<1>5. CASE Answer(c)
  BY <1>5, FinishKeeps DEF Answer, NothingStored, tables
<1>6. CASE CountBatch(c)
  BY <1>6, CountBatchKeeps
<1>7. CASE SaveBatches(c)
  BY <1>7, SaveBatchesKeeps
<1>8. CASE Create(c)
  BY <1>8, CreateKeeps
<1>9. CASE CheckTypes(c)
  <2>1. Goto(c, "version") \/ Finish(c)
    BY <1>9 DEF CheckTypes
  <2>2. "version" \notin Counting \union {"answer"}
    BY DEF Counting
  <2> QED
    BY <1>9, <2>1, <2>2, GotoKeeps, FinishKeeps DEF CheckTypes, NothingStored, tables
<1>10. CASE CreateVersion(c)
  BY <1>10, CreateVersionKeeps
<1>11. CASE CreateSteps(c)
  BY <1>11, CreateStepsKeeps
<1>12. CASE LinkStep(c)
  BY <1>12, SaveStepKeeps DEF LinkStep
<1>13. CASE SaveApproval(c)
  BY <1>13, SaveStepKeeps DEF SaveApproval
<1>14. CASE SaveConditional(c)
  BY <1>14, SaveStepKeeps DEF SaveConditional
<1>15. CASE SaveVersionFaid(c)
  BY <1>15, GotoKeeps DEF SaveVersionFaid, Counting
<1>16. CASE SaveWorkflowFaid(c)
  BY <1>16, SaveWorkflowFaidKeeps
<1>17. CASE Fail(c)
  BY <1>17, FinishKeeps DEF Fail, tables
<1> QED
  BY <1>1, <1>2, <1>3, <1>4, <1>5, <1>6, <1>7, <1>8, <1>9, <1>10, <1>11, <1>12, <1>13, <1>14,
     <1>15, <1>16, <1>17 DEF Step

LEMMA RegistryStutter ==
  ASSUME RegistryInv, UNCHANGED vars PROVE RegistryInv'
  BY DEF vars, tables, RegistryInv, Base, Pairs, StoredIsReachable, Sound, Halves, Ahead,
         NameAhead, MatchesAhead, Known, Counted

LEMMA RegistryAlways == Spec => []RegistryInv
<1>1. RegistryInv /\ [Next]_vars => RegistryInv'
  BY RegistryStep, RegistryStutter DEF Next
<1> QED
  BY <1>1, RegistryInit, PTL DEF Spec

\* The two loops of a search miss nothing that was stored when it began: no
\* call goes on to create a name it should have found, and the answer of a
\* filter has every match, for any number of batches, callers and names.
THEOREM SearchesMissNothing == Spec => []SearchMissesNothing
<1>1. RegistryInv => SearchMissesNothing
  BY DEF RegistryInv, Sound, SearchMissesNothing, At
<1> QED
  BY <1>1, RegistryAlways, PTL

\* Every workflow lies in a batch the organization counts, unless a caller saved
\* a number of batches over another one.
THEOREM WorkflowsAreReachable == Spec => []StoredIsReachable
<1>1. RegistryInv => StoredIsReachable
  BY DEF RegistryInv
<1> QED
  BY <1>1, RegistryAlways, PTL

-------------------------------------------------------------------------------
(* Versions and steps. *)

Later == {"types", "version", "steps", "links", "approvals", "conditions",
          "versionFaid", "workflowFaid"}

Looping == {"links", "approvals", "conditions"}

VersionFields == {"key", "number", "drawing", "faid"}

Tuple(s) == s \in Seq(Range(s))

Booked(r) ==
  /\ r.pc \in Later => r.key \in DOMAIN workflows
  /\ r.todo # {} <=> r.pc \in Looping

\* There are steps, or room for them, for every version of a stored workflow.
Books ==
  /\ Tuple(versions) /\ Tuple(steps) /\ Len(steps) = Len(versions)
  /\ \A i \in DOMAIN versions :
       VersionFields \subseteq DOMAIN versions[i] /\ versions[i].key \in DOMAIN workflows
  /\ \A c \in Caller : Booked(call[c])

\* One more element: the tuple is one longer and keeps the others.
LEMMA TupleAppend ==
  ASSUME NEW s, Tuple(s), NEW x
  PROVE  /\ Tuple(Append(s, x)) /\ Len(Append(s, x)) = Len(s) + 1 /\ Len(s) \in Nat
         /\ DOMAIN s = 1..Len(s) /\ DOMAIN Append(s, x) = 1..(Len(s) + 1)
         /\ \A i \in DOMAIN s : Append(s, x)[i] = s[i]
         /\ Append(s, x)[Len(s) + 1] = x
<1>1. PICK S : S = Range(s) \union {x}
  OBVIOUS
<1>2. s \in Seq(Range(s))
  BY DEF Tuple
<1>3. /\ Len(s) \in Nat /\ DOMAIN s = 1..Len(s) /\ s \in Seq(S)
  BY <1>1, <1>2
<1>4. PICK t : t = Append(s, x)
  OBVIOUS
<1>5. /\ t \in Seq(S) /\ Len(t) = Len(s) + 1
      /\ \A i \in 1..Len(s) : t[i] = s[i]
      /\ t[Len(s) + 1] = x
  BY <1>1, <1>3, <1>4
<1>6. DOMAIN t = 1..(Len(s) + 1) /\ t \in [1..Len(t) -> S]
  BY <1>3, <1>5
<1>7. t \in Seq(Range(t))
  <2>1. \A i \in 1..Len(t) : t[i] \in Range(t)
    BY <1>6 DEF Range
  <2>2. t = [i \in 1..Len(t) |-> t[i]]
    BY <1>6
  <2> QED
    BY <1>3, <1>5, <2>1, <2>2
<1> QED
  BY <1>3, <1>4, <1>5, <1>6, <1>7 DEF Tuple

\* A tuple changed at a place is a tuple.
LEMMA TupleExcept ==
  ASSUME NEW s, Tuple(s), NEW i, NEW x
  PROVE  LET t == [s EXCEPT ![i] = x] IN
         /\ Tuple(t) /\ Len(t) = Len(s) /\ DOMAIN t = DOMAIN s
<1>1. s \in Seq(Range(s))
  BY DEF Tuple
<1>2. Len(s) \in Nat /\ DOMAIN s = 1..Len(s)
  BY <1>1
<1>3. PICK t : t = [s EXCEPT ![i] = x]
  OBVIOUS
<1>4. DOMAIN t = 1..Len(s) /\ t = [j \in 1..Len(s) |-> t[j]]
  BY <1>2, <1>3
<1>5. \A j \in 1..Len(s) : t[j] \in Range(t)
  BY <1>4 DEF Range
<1>6. t \in Seq(Range(t)) /\ Len(t) = Len(s)
  BY <1>2, <1>4, <1>5
<1> QED
  BY <1>2, <1>3, <1>4, <1>6 DEF Tuple

\* A step of one call keeps the books when its key is stored and its list fits
\* its place.
LEMMA OneBooked ==
  ASSUME RegistryInv, Books, NEW c \in Caller, NEW r, call' = [call EXCEPT ![c] = r],
         r.pc \in Later => r.key \in DOMAIN workflows', r.todo # {} <=> r.pc \in Looping,
         DOMAIN workflows \subseteq DOMAIN workflows',
         Tuple(versions'), Tuple(steps'), Len(steps') = Len(versions'),
         \A i \in DOMAIN versions' : VersionFields \subseteq DOMAIN versions'[i]
                                     /\ versions'[i].key \in DOMAIN workflows'
  PROVE  Books'
<1>1. call'[c] = r /\ \A d \in Caller \ {c} : call'[d] = call[d]
  BY DEF RegistryInv, Base
<1>2. ASSUME NEW d \in Caller PROVE Booked(call[d])'
  <2>1. CASE d = c
    BY <1>1, <2>1 DEF Booked
  <2>2. CASE d # c
    BY <1>1, <2>2 DEF Books, Booked
  <2> QED
    BY <2>1, <2>2
<1> QED
  BY <1>2 DEF Books

\* A call that stores no version and no step.
LEMMA QuietBooked ==
  ASSUME RegistryInv, Books, NEW c \in Caller, NEW r, call' = [call EXCEPT ![c] = r],
         r.pc \in Later => r.key \in DOMAIN workflows', r.todo # {} <=> r.pc \in Looping,
         DOMAIN workflows \subseteq DOMAIN workflows', versions' = versions, steps' = steps
  PROVE  Books'
<1>1. /\ Tuple(versions') /\ Tuple(steps') /\ Len(steps') = Len(versions')
      /\ \A i \in DOMAIN versions' : VersionFields \subseteq DOMAIN versions'[i]
                                     /\ versions'[i].key \in DOMAIN workflows'
  BY DEF Books
<1> QED
  BY <1>1, OneBooked

\* A call that ends has no key and no list.
LEMMA FinishBooked ==
  ASSUME RegistryInv, Books, NEW c \in Caller, Finish(c),
         DOMAIN workflows \subseteq DOMAIN workflows', versions' = versions, steps' = steps
  PROVE  Books'
<1>1. PICK r : r = Idle
  OBVIOUS
<1>2. r.pc \notin Later \union Looping /\ r.todo = {}
  BY <1>1 DEF Idle, Later, Looping
<1>3. call' = [call EXCEPT ![c] = r]
  BY <1>1 DEF Finish
<1> QED
  BY <1>2, <1>3, QuietBooked

\* A call that is not in a loop goes on to a place that is not a loop.
LEMMA GotoBooked ==
  ASSUME RegistryInv, Books, NEW c \in Caller, NEW p, p \notin Looping, Goto(c, p),
         call[c].pc \notin Looping, p \in Later => call[c].pc \in Later,
         workflows' = workflows, versions' = versions, steps' = steps
  PROVE  Books'
<1>1. PICK r : r = [call[c] EXCEPT !.pc = p]
  OBVIOUS
<1>2. Fields \subseteq DOMAIN call[c] /\ Booked(call[c])
  BY DEF RegistryInv, Sound, Books
<1>3. r.pc = p /\ r.key = call[c].key /\ r.todo = call[c].todo
  BY <1>1, <1>2 DEF Fields
<1>4. call' = [call EXCEPT ![c] = r]
  BY <1>1 DEF Goto
<1> QED
  BY <1>2, <1>3, <1>4, QuietBooked DEF Booked

\* A search has no list of activities.
LEMMA SearchingTodo ==
  ASSUME NEW q, Fields \subseteq DOMAIN q, NEW r, r = Searching(q)
  PROVE  r.pc = q.pc /\ r.todo = q.todo /\ r.drawing = q.drawing /\ r.kind = q.kind
  BY DEF Searching, Fields

\* A search begins without a list.
LEMMA BeginSearchBooked ==
  ASSUME RegistryInv, Books, NEW c \in Caller, NEW q, Fields \subseteq DOMAIN q, q.pc = "search",
         q.todo = {}, Begin(c, Searching(q))
  PROVE  Books'
<1>1. PICK r : r = Searching(q)
  OBVIOUS
<1>2. r.pc = "search" /\ r.todo = {}
  BY <1>1, SearchingTodo
<1>3. call' = [call EXCEPT ![c] = r]
  BY <1>1 DEF Begin
<1> QED
  BY <1>2, <1>3, QuietBooked DEF Begin, tables, Later, Looping

LEMMA CreateWorkflowBooked ==
  ASSUME RegistryInv, Books, NEW c \in Caller, CreateWorkflow(c) PROVE Books'
<1>1. PICK n \in instance.names, d \in instance.drawings :
        Begin(c, Searching([Idle EXCEPT !.pc = "search", !.kind = "create", !.name = n,
                                        !.drawing = d, !.number = 1]))
  BY DEF CreateWorkflow
<1>2. PICK q : q = [Idle EXCEPT !.pc = "search", !.kind = "create", !.name = n,
                                !.drawing = d, !.number = 1]
  OBVIOUS
<1>3. Fields \subseteq DOMAIN q /\ q.pc = "search" /\ q.todo = {}
  BY <1>2 DEF Idle, Fields
<1> QED
  BY <1>1, <1>2, <1>3, BeginSearchBooked

LEMMA GetWorkflowsBooked ==
  ASSUME RegistryInv, Books, NEW c \in Caller, GetWorkflowsOfAnOrg(c) PROVE Books'
<1>1. PICK s : Begin(c, Searching([Idle EXCEPT !.pc = "search", !.kind = "search", !.name = s]))
  BY DEF GetWorkflowsOfAnOrg
<1>2. PICK q : q = [Idle EXCEPT !.pc = "search", !.kind = "search", !.name = s]
  OBVIOUS
<1>3. Fields \subseteq DOMAIN q /\ q.pc = "search" /\ q.todo = {}
  BY <1>2 DEF Idle, Fields
<1> QED
  BY <1>1, <1>2, <1>3, BeginSearchBooked

LEMMA CreateNextVersionBooked ==
  ASSUME RegistryInv, Books, NEW c \in Caller, CreateNextVersion(c) PROVE Books'
<1>1. PICK k \in DOMAIN workflows, d \in instance.drawings :
        Begin(c, [Idle EXCEPT !.pc = "types", !.kind = "create", !.name = k[2],
                    !.drawing = d, !.key = k,
                    !.number = Cardinality({i \in DOMAIN versions : versions[i].key = k}) + 1])
  BY DEF CreateNextVersion
<1>2. PICK r : r = [Idle EXCEPT !.pc = "types", !.kind = "create", !.name = k[2],
                      !.drawing = d, !.key = k,
                      !.number = Cardinality({i \in DOMAIN versions : versions[i].key = k}) + 1]
  OBVIOUS
<1>3. r.pc = "types" /\ r.key = k /\ r.todo = {}
  BY <1>2 DEF Idle
<1>4. call' = [call EXCEPT ![c] = r]
  BY <1>1, <1>2 DEF Begin
<1> QED
  BY <1>1, <1>3, <1>4, QuietBooked DEF Begin, tables, Looping

\* A loop of a search that goes on changes neither the key nor the list.
LEMMA ReadBooked ==
  ASSUME RegistryInv, Books, NEW c \in Caller, NEW r, call' = [call EXCEPT ![c] = r],
         r.todo = call[c].todo, r.pc \notin Later, call[c].pc \notin Looping, NothingStored
  PROVE  Books'
<1>1. call[c].todo = {} /\ Looping \subseteq Later
  BY DEF Books, Booked, Looping, Later
<1> QED
  BY <1>1, QuietBooked DEF NothingStored, tables

LEMMA LookUpBooked ==
  ASSUME RegistryInv, Books, NEW c \in Caller, NEW side \in {"left", "right"}, LookUp(c, side)
  PROVE  Books'
<1>1. PICK r : r = call[c]
  OBVIOUS
<1>2. /\ Fields \subseteq DOMAIN r /\ r.pc = "search"
  BY <1>1 DEF RegistryInv, LookUp, At, Sound
<1>3. CASE <<Head(r[side]), r.name>> \in DOMAIN workflows
  <2>1. Finish(c)
    BY <1>1, <1>3 DEF LookUp, Finish
  <2> QED
    BY <2>1, FinishBooked DEF LookUp, NothingStored, tables
<1>4. CASE <<Head(r[side]), r.name>> \notin DOMAIN workflows
  <2>1. PICK n : n = IF Len(r[side]) > 1 THEN [r EXCEPT ![side] = Tail(@)]
                     ELSE IF LoopEnds(r) THEN [r EXCEPT !.pc = "count", ![side] = << >>]
                     ELSE [r EXCEPT !.searched = @ + 1, ![side] = << >>]
    OBVIOUS
  <2>2. call' = [call EXCEPT ![c] = n]
    BY <1>1, <1>4, <2>1 DEF LookUp
  <2>3. n.todo = r.todo /\ n.pc \in {"search", "count"}
    BY <1>2, <2>1 DEF Fields
  <2>4. NothingStored /\ n.pc \notin Later /\ r.pc \notin Looping
    BY <1>2, <2>3 DEF LookUp, Later, Looping
  <2> QED
    BY <1>1, <2>2, <2>3, <2>4, ReadBooked
<1> QED
  BY <1>3, <1>4

LEMMA FilterBooked ==
  ASSUME RegistryInv, Books, NEW c \in Caller, NEW side \in {"left", "right"}, Filter(c, side)
  PROVE  Books'
<1>1. PICK r : r = call[c]
  OBVIOUS
<1>2. /\ Fields \subseteq DOMAIN r /\ r.pc = "search"
  BY <1>1 DEF RegistryInv, Filter, At, Sound
<1>3. PICK found : found = r.matched \union
        {k \in DOMAIN workflows : k[1] = Head(r[side]) /\ <<r.name, k[2]>> \in Begins}
  OBVIOUS
<1>4. PICK n : n = IF Len(r[side]) > 1 THEN [r EXCEPT ![side] = Tail(@), !.matched = found]
                   ELSE IF LoopEnds(r)
                        THEN [r EXCEPT !.pc = "answer", ![side] = << >>, !.matched = found]
                   ELSE [r EXCEPT !.searched = @ + 1, ![side] = << >>, !.matched = found]
  OBVIOUS
<1>5. call' = [call EXCEPT ![c] = n]
  BY <1>1, <1>3, <1>4 DEF Filter
<1>6. n.todo = r.todo /\ n.pc \in {"search", "answer"}
  BY <1>2, <1>4 DEF Fields
<1>7. NothingStored /\ n.pc \notin Later /\ r.pc \notin Looping
  BY <1>2, <1>6 DEF Filter, Later, Looping
<1> QED
  BY <1>1, <1>5, <1>6, <1>7, ReadBooked

LEMMA CountBatchBooked ==
  ASSUME RegistryInv, Books, NEW c \in Caller, CountBatch(c) PROVE Books'
<1>1. PICK r : r = call[c]
  OBVIOUS
<1> DEFINE full == Cardinality(InBatch(r.total)) >= BatchLimit
<1>2. PICK n : n = [r EXCEPT !.pc = IF full THEN "batches" ELSE "create",
                             !.total = IF full THEN @ + 1 ELSE @]
  OBVIOUS
<1>3. DOMAIN call = Caller /\ r.pc = "count" /\ Fields \subseteq DOMAIN r
  BY <1>1 DEF CountBatch, At, RegistryInv, Base, Sound
<1>4. n.todo = r.todo /\ n.pc \in {"batches", "create"}
  BY <1>2, <1>3 DEF Fields
<1>5. call' = [call EXCEPT ![c] = n]
  BY <1>1, <1>2, <1>3 DEF CountBatch
<1> QED
  BY <1>1, <1>3, <1>4, <1>5, ReadBooked DEF CountBatch, Later, Looping

LEMMA CreateBooked ==
  ASSUME RegistryInv, Books, NEW c \in Caller, Create(c) PROVE Books'
<1>1. PICK r : r = call[c]
  OBVIOUS
<1>2. PICK k : k = <<r.total, r.name>>
  OBVIOUS
<1>3. /\ DOMAIN call = Caller /\ Fields \subseteq DOMAIN r /\ r.pc = "create" /\ r.todo = {}
      /\ versions' = versions /\ steps' = steps
  BY <1>1 DEF Create, At, RegistryInv, Base, Sound, Books, Booked, Looping
<1>4. CASE k \in DOMAIN workflows
  BY <1>1, <1>2, <1>3, <1>4, FinishBooked DEF Create
<1>5. CASE k \notin DOMAIN workflows
  <2>1. PICK n : n = [r EXCEPT !.pc = "types", !.key = k]
    OBVIOUS
  <2>2. n.pc = "types" /\ n.key = k /\ n.todo = {}
    BY <1>3, <2>1 DEF Fields
  <2>3. call' = [call EXCEPT ![c] = n] /\ DOMAIN workflows' = DOMAIN workflows \union {k}
    BY <1>1, <1>2, <1>3, <1>5, <2>1 DEF Create
  <2> QED
    BY <1>3, <2>2, <2>3, QuietBooked DEF Looping
<1> QED
  BY <1>4, <1>5

\* The new version has the key of its call; its steps come with it.
LEMMA CreateVersionBooked ==
  ASSUME RegistryInv, Books, NEW c \in Caller, CreateVersion(c) PROVE Books'
<1>1. PICK r : r = call[c]
  OBVIOUS
<1>2. PICK x : x = [key |-> r.key, number |-> r.number, drawing |-> r.drawing, faid |-> NoAid]
  OBVIOUS
<1>3. /\ Fields \subseteq DOMAIN r /\ r.pc = "version" /\ r.todo = {} /\ r.key \in DOMAIN workflows
      /\ workflows' = workflows
      /\ versions' = Append(versions, x) /\ steps' = Append(steps, << >>)
  BY <1>1, <1>2 DEF CreateVersion, At, RegistryInv, Sound, Books, Booked, Looping, Later
<1>4. PICK n : n = IF DesignThrows(r.drawing) THEN Idle
                   ELSE [r EXCEPT !.pc = "steps", !.v = Len(versions')]
  OBVIOUS
<1>5. call' = [call EXCEPT ![c] = n]
  BY <1>1, <1>4 DEF CreateVersion
<1>6. n.pc \in {"idle", "steps"} /\ n.todo = {} /\ (n.pc = "steps" => n.key = r.key)
  BY <1>3, <1>4 DEF Idle, Fields
<1>7. /\ Tuple(versions) /\ Tuple(steps) /\ Len(steps) = Len(versions)
      /\ \A i \in DOMAIN versions :
           VersionFields \subseteq DOMAIN versions[i] /\ versions[i].key \in DOMAIN workflows
  BY DEF Books
<1>8. Tuple(versions') /\ Tuple(steps') /\ Len(steps') = Len(versions')
  BY <1>3, <1>7, TupleAppend
<1>9. ASSUME NEW i \in DOMAIN versions'
      PROVE  VersionFields \subseteq DOMAIN versions'[i] /\ versions'[i].key \in DOMAIN workflows'
  <2>1. \/ versions'[i] = x
        \/ i \in DOMAIN versions /\ versions'[i] = versions[i]
    <3>1. /\ Len(versions) \in Nat /\ DOMAIN versions = 1..Len(versions)
          /\ DOMAIN versions' = 1..(Len(versions) + 1)
          /\ \A j \in DOMAIN versions : versions'[j] = versions[j]
          /\ versions'[Len(versions) + 1] = x
      BY <1>3, <1>7, TupleAppend
    <3> QED
      BY <1>9, <3>1
  <2>2. VersionFields \subseteq DOMAIN x /\ x.key \in DOMAIN workflows
    BY <1>2, <1>3 DEF VersionFields
  <2> QED
    BY <1>3, <1>7, <2>1, <2>2
<1> QED
  BY <1>3, <1>5, <1>6, <1>8, <1>9, OneBooked DEF Looping, Later

\* What Phase makes of a call: the list is empty only outside of the loops.
LEMMA PhaseBooked ==
  ASSUME NEW q, Fields \subseteq DOMAIN q, q.pc \in Looping, NEW n, n = Phase(q)
  PROVE  /\ Fields \subseteq DOMAIN n /\ n.pc \in Looping \union {"versionFaid"}
         /\ n.todo # {} <=> n.pc \in Looping
         /\ n.key = q.key /\ n.v = q.v /\ n.drawing = q.drawing /\ n.kind = q.kind
<1>1. PICK a, b : a = OfType(q.drawing, "ManualApproval") /\ b = OfType(q.drawing, "Condition")
  OBVIOUS
<1>2. n = IF q.todo # {} THEN q
          ELSE IF q.pc = "links" /\ a # {} THEN [q EXCEPT !.pc = "approvals", !.todo = a]
          ELSE IF q.pc # "conditions" /\ b # {} THEN [q EXCEPT !.pc = "conditions", !.todo = b]
          ELSE [q EXCEPT !.pc = "versionFaid"]
  BY <1>1 DEF Phase
<1>3. CASE q.todo # {}
  BY <1>2, <1>3
<1>4. CASE q.todo = {} /\ q.pc = "links" /\ a # {}
  BY <1>2, <1>4 DEF Fields, Looping
<1>5. CASE q.todo = {} /\ ~(q.pc = "links" /\ a # {}) /\ q.pc # "conditions" /\ b # {}
  BY <1>2, <1>5 DEF Fields, Looping
<1>6. CASE q.todo = {} /\ ~(q.pc = "links" /\ a # {}) /\ ~(q.pc # "conditions" /\ b # {})
  BY <1>2, <1>6 DEF Fields, Looping
<1> QED
  BY <1>3, <1>4, <1>5, <1>6

\* A call that goes on with its lists; the steps of its version change.
LEMMA PhaseKeepsBooks ==
  ASSUME RegistryInv, Books, NEW c \in Caller, call[c].pc \in Later,
         NEW p \in Looping, NEW s,
         call' = [call EXCEPT ![c] = Phase([call[c] EXCEPT !.pc = p, !.todo = s])],
         workflows' = workflows, versions' = versions,
         NEW x, steps' = [steps EXCEPT ![call[c].v] = x]
  PROVE  Books'
<1>1. PICK q : q = [call[c] EXCEPT !.pc = p, !.todo = s]
  OBVIOUS
<1>2. Fields \subseteq DOMAIN call[c] /\ call[c].key \in DOMAIN workflows
  BY DEF RegistryInv, Sound, Books, Booked
<1>3. Fields \subseteq DOMAIN q /\ q.pc = p /\ q.key = call[c].key
  BY <1>1, <1>2 DEF Fields
<1>4. PICK n : n = Phase(q)
  OBVIOUS
<1>5. (n.todo # {} <=> n.pc \in Looping) /\ n.key = q.key
  BY <1>3, <1>4, PhaseBooked
<1>6. call' = [call EXCEPT ![c] = n]
  BY <1>1, <1>4
<1>7. /\ Tuple(versions') /\ Tuple(steps') /\ Len(steps') = Len(versions')
      /\ \A i \in DOMAIN versions' : VersionFields \subseteq DOMAIN versions'[i]
                                     /\ versions'[i].key \in DOMAIN workflows'
  BY TupleExcept DEF Books
<1> QED
  BY <1>2, <1>3, <1>5, <1>6, <1>7, OneBooked

LEMMA CreateStepsBooked ==
  ASSUME RegistryInv, Books, NEW c \in Caller, CreateSteps(c) PROVE Books'
<1>1. PICK s : s = Leading(call[c].drawing)
  OBVIOUS
<1>2. call' = [call EXCEPT ![c] = Phase([call[c] EXCEPT !.pc = "links", !.todo = s])]
  BY <1>1 DEF CreateSteps
<1>3. PICK x : x = NewSteps(call[c].drawing, call[c].v)
  OBVIOUS
<1>4. /\ call[c].pc \in Later /\ workflows' = workflows /\ versions' = versions
      /\ steps' = [steps EXCEPT ![call[c].v] = x] /\ "links" \in Looping
  BY <1>3 DEF CreateSteps, At, Later, Looping
<1> QED
  BY <1>2, <1>4, PhaseKeepsBooks

LEMMA SaveStepBooked ==
  ASSUME RegistryInv, Books, NEW c \in Caller, NEW p \in Looping, NEW step, SaveStep(c, p, step)
  PROVE  Books'
<1>1. call[c].pc = p /\ Fields \subseteq DOMAIN call[c] /\ p \in Later
  BY DEF SaveStep, At, RegistryInv, Sound, Looping, Later
<1>2. PICK s : s = call[c].todo \ {Min(call[c].todo)}
  OBVIOUS
<1>3. [call[c] EXCEPT !.todo = @ \ {Min(@)}] = [call[c] EXCEPT !.pc = p, !.todo = s]
  BY <1>1, <1>2 DEF Fields
<1>4. call' = [call EXCEPT ![c] = Phase([call[c] EXCEPT !.pc = p, !.todo = s])]
  BY <1>3 DEF SaveStep
<1>5. PICK x : x = [steps[call[c].v] EXCEPT ![Pending(c).id] = step]
  OBVIOUS
<1>6. /\ workflows' = workflows /\ versions' = versions
      /\ steps' = [steps EXCEPT ![call[c].v] = x]
  BY <1>5 DEF SaveStep
<1> QED
  BY <1>1, <1>4, <1>6, PhaseKeepsBooks

LEMMA SaveVersionFaidBooked ==
  ASSUME RegistryInv, Books, NEW c \in Caller, SaveVersionFaid(c) PROVE Books'
<1>1. PICK r : r = call[c]
  OBVIOUS
<1>2. PICK x : x = [versions[r.v] EXCEPT !.faid = Faid(r)]
  OBVIOUS
<1>3. /\ Fields \subseteq DOMAIN r /\ r.pc = "versionFaid" /\ Booked(r)
      /\ workflows' = workflows /\ steps' = steps
      /\ versions' = [versions EXCEPT ![r.v] = x]
  BY <1>1, <1>2 DEF SaveVersionFaid, At, RegistryInv, Sound, Books
<1>4. PICK n : n = [r EXCEPT !.pc = "workflowFaid"]
  OBVIOUS
<1>5. n.pc = "workflowFaid" /\ n.key = r.key /\ n.todo = r.todo
  BY <1>3, <1>4 DEF Fields
<1>6. call' = [call EXCEPT ![c] = n]
  BY <1>1, <1>4 DEF SaveVersionFaid, Goto
<1>7. /\ Tuple(versions') /\ Tuple(steps') /\ Len(steps') = Len(versions')
      /\ DOMAIN versions' = DOMAIN versions
  BY <1>3, TupleExcept DEF Books
<1>8. ASSUME NEW i \in DOMAIN versions'
      PROVE  VersionFields \subseteq DOMAIN versions'[i] /\ versions'[i].key \in DOMAIN workflows'
  <2>1. /\ i \in DOMAIN versions /\ VersionFields \subseteq DOMAIN versions[i]
        /\ versions[i].key \in DOMAIN workflows
    BY <1>7, <1>8 DEF Books
  <2>2. CASE i = r.v
    BY <1>2, <1>3, <2>1, <2>2 DEF VersionFields
  <2>3. CASE i # r.v
    BY <1>3, <2>1, <2>3
  <2> QED
    BY <2>2, <2>3
<1> QED
  BY <1>3, <1>5, <1>6, <1>7, <1>8, OneBooked DEF Booked, Looping, Later

LEMMA SaveWorkflowFaidBooked ==
  ASSUME RegistryInv, Books, NEW c \in Caller, SaveWorkflowFaid(c) PROVE Books'
<1>1. DOMAIN workflows' = DOMAIN workflows /\ Finish(c) /\ versions' = versions /\ steps' = steps
  BY DEF SaveWorkflowFaid
<1> QED
  BY <1>1, FinishBooked

LEMMA BooksInit == Init => Books
<1> SUFFICES ASSUME Init PROVE Books
  OBVIOUS
<1>1. versions = << >> /\ steps = << >> /\ \A c \in Caller : call[c] = Idle
  BY DEF Init
<1>2. Tuple(<< >>)
  <2>1. << >> \in Seq(Range(<< >>))
    OBVIOUS
  <2> QED
    BY <2>1 DEF Tuple
<1> QED
  BY <1>1, <1>2 DEF Books, Booked, Idle, Later, Looping

\* Every step of a caller keeps the books.
LEMMA BooksStep ==
  ASSUME RegistryInv, Books, NEW c \in Caller, Step(c) PROVE Books'
<1>1. CASE CreateWorkflow(c)
  BY <1>1, CreateWorkflowBooked
<1>2. CASE CreateNextVersion(c)
  BY <1>2, CreateNextVersionBooked
<1>3. CASE GetWorkflowsOfAnOrg(c)
  BY <1>3, GetWorkflowsBooked
<1>4. CASE \E side \in {"left", "right"} : LookUp(c, side) \/ Filter(c, side)
  BY <1>4, LookUpBooked, FilterBooked
<1>5. CASE Answer(c)
  BY <1>5, FinishBooked DEF Answer, NothingStored, tables
<1>6. CASE CountBatch(c)
  BY <1>6, CountBatchBooked
<1>7. CASE SaveBatches(c)
  <2>1. "create" \notin Looping \union Later /\ call[c].pc \notin Looping
    BY <1>7 DEF SaveBatches, At, Looping, Later
  <2> QED
    BY <1>7, <2>1, GotoBooked DEF SaveBatches
<1>8. CASE Create(c)
  BY <1>8, CreateBooked
<1>9. CASE CheckTypes(c)
  <2>1. Goto(c, "version") \/ Finish(c)
    BY <1>9 DEF CheckTypes
  <2>2. "version" \notin Looping /\ call[c].pc \notin Looping /\ call[c].pc \in Later
    BY <1>9 DEF CheckTypes, At, Looping, Later
  <2> QED
    BY <1>9, <2>1, <2>2, GotoBooked, FinishBooked DEF CheckTypes, NothingStored, tables
<1>10. CASE CreateVersion(c)
  BY <1>10, CreateVersionBooked
<1>11. CASE CreateSteps(c)
  BY <1>11, CreateStepsBooked
<1>12. CASE LinkStep(c)
  BY <1>12, SaveStepBooked DEF LinkStep, Looping
<1>13. CASE SaveApproval(c)
  BY <1>13, SaveStepBooked DEF SaveApproval, Looping
<1>14. CASE SaveConditional(c)
  BY <1>14, SaveStepBooked DEF SaveConditional, Looping
<1>15. CASE SaveVersionFaid(c)
  BY <1>15, SaveVersionFaidBooked
<1>16. CASE SaveWorkflowFaid(c)
  BY <1>16, SaveWorkflowFaidBooked
<1>17. CASE Fail(c)
  BY <1>17, FinishBooked DEF Fail, tables
<1> QED
  BY <1>1, <1>2, <1>3, <1>4, <1>5, <1>6, <1>7, <1>8, <1>9, <1>10, <1>11, <1>12, <1>13, <1>14,
     <1>15, <1>16, <1>17 DEF Step

LEMMA BooksAlways == Spec => []Books
<1>1. RegistryInv /\ Books /\ [Next]_vars => Books'
  <2>1. RegistryInv /\ Books /\ UNCHANGED vars => Books'
    BY DEF vars, tables, Books, Booked
  <2> QED
    BY <2>1, BooksStep DEF Next
<1> QED
  BY <1>1, BooksInit, RegistryAlways, PTL DEF Spec

\* The state is well formed; every version, and every call past the creation of
\* its workflow, has the key of a stored workflow, and a call has a list of
\* activities exactly while it is in a loop over them.
THEOREM TypeCorrect == Spec => []TypeOK
<1>1. RegistryInv /\ Books => TypeOK
  <2> SUFFICES ASSUME RegistryInv, Books PROVE TypeOK
    OBVIOUS
  <2>1. batches \in Nat \ {0} /\ DOMAIN workflows \subseteq (Nat \ {0}) \X Name
    BY DEF RegistryInv, Base, Pairs
  <2>2. DOMAIN steps = DOMAIN versions
    BY TupleAppend DEF Books
  <2> QED
    BY <2>1, <2>2 DEF Books, Booked, Later, Looping, TypeOK
<1> QED
  BY <1>1, RegistryAlways, BooksAlways, PTL

-------------------------------------------------------------------------------
(* What a call writes. *)

Building == {"steps", "links", "approvals", "conditions"}

Writing == Building \union {"versionFaid", "workflowFaid"}

StepFields == {"aid", "naid", "design", "first", "second"}

\* The canvas elements the activities of a drawing keep, one after the other.
Canvases(d) == FlattenSeq([i \in DOMAIN d.states |-> GetDesign(d.design, d.states[i])])

Ids(d) == {d.states[i].id : i \in DOMAIN d.states}

\* What can be drawn: the activities have names of their own and name each other,
\* and each element of the canvas belongs to one activity.
Sensible(d) ==
  /\ DOMAIN d.states \subseteq Nat
  /\ \A i, j \in DOMAIN d.states : d.states[i].id = d.states[j].id => i = j
  /\ \A i \in DOMAIN d.states :
       /\ d.states[i].next \subseteq Ids(d)
       /\ d.states[i].type \in {"ManualApproval", "Condition"} =>
            {d.states[i].first, d.states[i].second} \subseteq Ids(d)
  /\ ActivityTypesExist(d.states) /\ ~DesignThrows(d) =>
       Range(Canvases(d)) = Range(d.design) /\ Len(Canvases(d)) = Len(d.design)

Links(st, s) == st[s.id].naid = {st[id].aid : id \in s.next}
Settings(st, s) == /\ st[s.id].first = st[s.first].aid
                   /\ st[s.id].second = st[s.second].aid

\* The steps of a drawing, all written but those at these places.
Written(d, st, links, approvals, conditions) ==
  /\ DOMAIN st = Ids(d)
  /\ \A i \in DOMAIN d.states :
       LET s == d.states[i] IN
       /\ StepFields \subseteq DOMAIN st[s.id] /\ st[s.id].design = GetDesign(d.design, s)
       /\ i \notin links => Links(st, s)
       /\ s.type = "ManualApproval" /\ i \notin approvals => Settings(st, s)
       /\ s.type = "Condition" /\ i \notin conditions => Settings(st, s)

\* The places a call has still to write.
LinksLeft(r) == IF r.pc = "links" THEN r.todo ELSE {}
ApprovalsLeft(r) == IF r.pc = "links" THEN OfType(r.drawing, "ManualApproval")
                    ELSE IF r.pc = "approvals" THEN r.todo ELSE {}
ConditionsLeft(r) == IF r.pc \in {"links", "approvals"} THEN OfType(r.drawing, "Condition")
                     ELSE IF r.pc = "conditions" THEN r.todo ELSE {}

WrittenBy(r, st) == Written(r.drawing, st, LinksLeft(r), ApprovalsLeft(r), ConditionsLeft(r))

\* The places of the activities the list of a call can have.
Listed(r) == IF r.pc = "links" THEN DOMAIN r.drawing.states
             ELSE IF r.pc = "approvals" THEN OfType(r.drawing, "ManualApproval")
             ELSE OfType(r.drawing, "Condition")

Builds(r) ==
  /\ r.kind = "create" => r.drawing \in Drawings
  /\ r.pc \in Later => r.kind = "create"
  /\ r.pc \in Looping => r.todo \subseteq Listed(r)
  /\ r.pc \in {"version"} \union Writing => ActivityTypesExist(r.drawing.states)
  /\ r.pc \in Writing => /\ ~DesignThrows(r.drawing)
                         /\ r.v \in DOMAIN versions /\ versions[r.v].drawing = r.drawing
  /\ r.pc \in Writing \ {"steps"} => WrittenBy(r, steps[r.v])

\* Two calls never write the same version.
Apart ==
  \A c, e \in Caller : c # e /\ call[c].pc \in Writing /\ call[e].pc \in Writing
                       => call[c].v # call[e].v

\* Of the versions w and their steps t, v is written to its end.
Complete(v, w, t) ==
  LET d == w[v].drawing IN
  /\ v \in DOMAIN w /\ d \in Drawings
  /\ ActivityTypesExist(d.states) /\ ~DesignThrows(d)
  /\ Written(d, t[v], {}, {}, {})

\* A workflow starts nowhere, at an AID the client sent along, or at a version
\* that is complete and that no call writes any more.
Referenced ==
  \A k \in DOMAIN workflows :
    \/ workflows[k][3] = 0
    \/ /\ Complete(workflows[k][3], versions, steps)
       /\ \A c \in Caller : call[c].pc \in Building => call[c].v # workflows[k][3]

BuildInv == Apart /\ Referenced /\ \A c \in Caller : Builds(call[c])

\* The AIDs of the steps with these names.
AidsOf(st, ids) == {st[id].aid : id \in ids}

\* A step is saved again.
Put(st, id, step) == [st EXCEPT ![id] = step]

\* The step x is what the step of s, the activity at place i, has to become.
Rewrites(st, s, x, i, L, A, C, L2, A2, C2) ==
  /\ StepFields \subseteq DOMAIN x /\ x.aid = st[s.id].aid /\ x.design = st[s.id].design
  /\ L \ {i} \subseteq L2 /\ A \ {i} \subseteq A2 /\ C \ {i} \subseteq C2
  /\ i \notin L2 => x.naid = AidsOf(st, s.next)
  /\ \/ s.type = "ManualApproval" /\ i \notin A2
     \/ s.type = "Condition" /\ i \notin C2
     => x.first = st[s.first].aid /\ x.second = st[s.second].aid

Drawable == \A d \in Drawings : Sensible(d)

\* The place Pending takes is one of the list.
LEMMA LeastPlace ==
  ASSUME NEW S, S \subseteq Nat, S # {}
  PROVE  Min(S) \in S
<1> DEFINE T == {1..x : x \in S}
<1>1. T \subseteq FiniteSubsetsOf(Nat) /\ T # {}
  <2>1. \A x \in Nat : 1..x \in SUBSET Nat /\ IsFiniteSet(1..x)
    BY FS_Interval
  <2> QED
    BY <2>1 DEF FiniteSubsetsOf
<1>2. PICK a \in T : \A b \in T : ~(<<b, a>> \in StrictSubsetOrdering(Nat))
  BY <1>1, FS_StrictSubsetOrderingWellFounded, WFMin
<1>3. PICK x \in S : a = 1..x
  BY <1>2
<1>4. ASSUME NEW y \in S, y < x PROVE FALSE
  <2>1. x \in Nat /\ y \in Nat
    OBVIOUS
  <2>2. 1..y \subseteq 1..x /\ x \in 1..x /\ x \notin 1..y
    BY <1>4, <2>1
  <2>3. 1..y \in SUBSET Nat /\ 1..x \in SUBSET Nat
    BY <2>1
  <2>4. <<1..y, 1..x>> \in StrictSubsetOrdering(Nat)
    BY <2>2, <2>3 DEF StrictSubsetOrdering
  <2> QED
    BY <1>2, <1>3, <2>4
<1>5. \A y \in S : x <= y
  BY <1>4
<1> QED
  BY <1>5 DEF Min

\* The next list of a call holds what the call has still to write.
LEMMA PhaseWrites ==
  ASSUME NEW q, Fields \subseteq DOMAIN q, q.pc \in Looping, NEW n, n = Phase(q),
         q.todo \subseteq Listed(q), NEW st, WrittenBy(q, st)
  PROVE  WrittenBy(n, st) /\ (n.pc \in Looping => n.todo \subseteq Listed(n))
<1>1. PICK a, b : a = OfType(q.drawing, "ManualApproval") /\ b = OfType(q.drawing, "Condition")
  OBVIOUS
<1>2. n = IF q.todo # {} THEN q
          ELSE IF q.pc = "links" /\ a # {} THEN [q EXCEPT !.pc = "approvals", !.todo = a]
          ELSE IF q.pc # "conditions" /\ b # {} THEN [q EXCEPT !.pc = "conditions", !.todo = b]
          ELSE [q EXCEPT !.pc = "versionFaid"]
  BY <1>1 DEF Phase
<1>3. n.drawing = q.drawing
  BY PhaseBooked
<1>5. CASE q.todo # {}
  BY <1>2, <1>5
<1>6. CASE q.todo = {} /\ q.pc = "links" /\ a # {}
  <2>1. n.pc = "approvals" /\ n.todo = a
    BY <1>2, <1>6 DEF Fields
  <2>2. /\ LinksLeft(n) = LinksLeft(q) /\ ApprovalsLeft(n) = ApprovalsLeft(q)
        /\ ConditionsLeft(n) = ConditionsLeft(q)
    BY <1>1, <1>3, <1>6, <2>1 DEF LinksLeft, ApprovalsLeft, ConditionsLeft
  <2> QED
    BY <1>1, <1>3, <2>1, <2>2 DEF WrittenBy, Listed
<1>7. CASE q.todo = {} /\ ~(q.pc = "links" /\ a # {}) /\ q.pc # "conditions" /\ b # {}
  <2>1. n.pc = "conditions" /\ n.todo = b /\ q.pc \in {"links", "approvals"}
    BY <1>2, <1>7 DEF Fields, Looping
  <2>2. /\ LinksLeft(n) = LinksLeft(q) /\ ApprovalsLeft(n) = ApprovalsLeft(q)
        /\ ConditionsLeft(n) = ConditionsLeft(q)
    BY <1>1, <1>3, <1>7, <2>1 DEF LinksLeft, ApprovalsLeft, ConditionsLeft
  <2> QED
    BY <1>1, <1>3, <2>1, <2>2 DEF WrittenBy, Listed
<1>8. CASE q.todo = {} /\ ~(q.pc = "links" /\ a # {}) /\ ~(q.pc # "conditions" /\ b # {})
  <2>1. n.pc = "versionFaid" /\ n.todo = {}
    BY <1>2, <1>8 DEF Fields
  <2>2. /\ LinksLeft(n) = LinksLeft(q) /\ ApprovalsLeft(n) = ApprovalsLeft(q)
        /\ ConditionsLeft(n) = ConditionsLeft(q)
    BY <1>1, <1>3, <1>8, <2>1 DEF LinksLeft, ApprovalsLeft, ConditionsLeft, Looping
  <2> QED
    BY <1>3, <2>1, <2>2 DEF WrittenBy, Looping
<1> QED
  BY <1>5, <1>6, <1>7, <1>8

\* The steps as they are first stored: all is still to write.
LEMMA NewStepsWritten ==
  ASSUME NEW d, Sensible(d), NEW v
  PROVE  Written(d, NewSteps(d, v), Leading(d), OfType(d, "ManualApproval"), OfType(d, "Condition"))
<1>1. PICK st : st = NewSteps(d, v)
  OBVIOUS
<1>2. DOMAIN st = Ids(d)
  BY <1>1 DEF NewSteps, Ids
<1>3. ASSUME NEW i \in DOMAIN d.states
      PROVE  st[d.states[i].id] = NewStep(d, d.states[i], v)
  <2>1. (CHOOSE s \in Range(d.states) : s.id = d.states[i].id) = d.states[i]
    <3>1. d.states[i] \in Range(d.states)
      BY DEF Range
    <3>2. ASSUME NEW s \in Range(d.states), s.id = d.states[i].id PROVE s = d.states[i]
      BY <3>2 DEF Range, Sensible
    <3> QED
      BY <3>1, <3>2
  <2>2. d.states[i].id \in {d.states[j].id : j \in DOMAIN d.states}
    OBVIOUS
  <2> QED
    BY <1>1, <2>1, <2>2 DEF NewSteps
<1>4. ASSUME NEW i \in DOMAIN d.states, NEW s, s = d.states[i]
      PROVE  /\ StepFields \subseteq DOMAIN st[s.id] /\ st[s.id].design = GetDesign(d.design, s)
             /\ i \notin Leading(d) => Links(st, s)
             /\ s.type = "ManualApproval" => i \in OfType(d, "ManualApproval")
             /\ s.type = "Condition" => i \in OfType(d, "Condition")
  <2>1. st[s.id] = NewStep(d, s, v)
    BY <1>3, <1>4
  <2>2. /\ StepFields \subseteq DOMAIN st[s.id] /\ st[s.id].design = GetDesign(d.design, s)
        /\ st[s.id].naid = {}
    BY <2>1 DEF NewStep, StepFields
  <2>3. i \notin Leading(d) => s.next = {}
    BY <1>4 DEF Leading
  <2> QED
    BY <1>4, <2>2, <2>3 DEF Links, OfType
<1> QED
  BY <1>1, <1>2, <1>4 DEF Written

\* One step of a drawing is written again, with its AID and its canvas.
LEMMA WriteOne ==
  ASSUME NEW d, Sensible(d), NEW st, NEW L, NEW A, NEW C, Written(d, st, L, A, C),
         NEW i \in DOMAIN d.states, NEW s, s = d.states[i],
         NEW x, NEW n, n = Put(st, s.id, x), NEW L2, NEW A2, NEW C2,
         Rewrites(st, s, x, i, L, A, C, L2, A2, C2)
  PROVE  Written(d, n, L2, A2, C2)
<1>1. DOMAIN st = Ids(d) /\ s.id \in Ids(d)
  BY DEF Written, Ids
<1>2. /\ DOMAIN n = Ids(d) /\ n[s.id] = x
      /\ \A id \in Ids(d) : id # s.id => n[id] = st[id]
  BY <1>1 DEF Put
<1>3. \A id \in Ids(d) : n[id].aid = st[id].aid
  BY <1>2 DEF Rewrites
<1>4. ASSUME NEW j \in DOMAIN d.states, NEW t, t = d.states[j]
      PROVE  /\ StepFields \subseteq DOMAIN n[t.id] /\ n[t.id].design = GetDesign(d.design, t)
             /\ j \notin L2 => Links(n, t)
             /\ t.type = "ManualApproval" /\ j \notin A2 => Settings(n, t)
             /\ t.type = "Condition" /\ j \notin C2 => Settings(n, t)
  <2>1. /\ t.next \subseteq Ids(d) /\ t.id \in Ids(d)
        /\ t.type \in {"ManualApproval", "Condition"} => t.first \in Ids(d) /\ t.second \in Ids(d)
    BY <1>4 DEF Sensible, Ids
  <2>2. {n[id].aid : id \in t.next} = {st[id].aid : id \in t.next}
    BY <1>3, <2>1
  <2>3. t.type \in {"ManualApproval", "Condition"} =>
          n[t.first].aid = st[t.first].aid /\ n[t.second].aid = st[t.second].aid
    BY <1>3, <2>1
  <2>4. /\ StepFields \subseteq DOMAIN st[t.id] /\ st[t.id].design = GetDesign(d.design, t)
        /\ j \notin L => Links(st, t)
        /\ t.type = "ManualApproval" /\ j \notin A => Settings(st, t)
        /\ t.type = "Condition" /\ j \notin C => Settings(st, t)
    BY <1>4 DEF Written
  <2>5. CASE j = i
    <3>1. t = s
      BY <1>4, <2>5
    <3>2. StepFields \subseteq DOMAIN n[t.id] /\ n[t.id].design = GetDesign(d.design, t)
      BY <1>2, <2>4, <3>1 DEF Rewrites
    <3>3. j \notin L2 => Links(n, t)
      BY <1>2, <2>2, <2>5, <3>1 DEF Links, AidsOf, Rewrites
    <3>4. /\ t.type = "ManualApproval" /\ j \notin A2 => Settings(n, t)
          /\ t.type = "Condition" /\ j \notin C2 => Settings(n, t)
      BY <1>2, <2>3, <2>5, <3>1 DEF Settings, Rewrites
    <3> QED
      BY <3>2, <3>3, <3>4
  <2>6. CASE j # i
    <3>1. t.id # s.id /\ n[t.id] = st[t.id]
      BY <1>2, <1>4, <2>1, <2>6 DEF Sensible
    <3>2. j \notin L2 => Links(n, t)
      BY <2>2, <2>4, <2>6, <3>1 DEF Links, Rewrites
    <3>3. /\ t.type = "ManualApproval" /\ j \notin A2 => Settings(n, t)
          /\ t.type = "Condition" /\ j \notin C2 => Settings(n, t)
      BY <2>3, <2>4, <2>6, <3>1 DEF Settings, Rewrites
    <3> QED
      BY <2>4, <3>1, <3>2, <3>3
  <2> QED
    BY <2>5, <2>6
<1> QED
  BY <1>2, <1>4 DEF Written

\* One of the steps a call still has to write is written.
LEMMA SaveWrites ==
  ASSUME NEW r, Fields \subseteq DOMAIN r, r.pc \in Looping, Sensible(r.drawing),
         NEW st, WrittenBy(r, st), NEW i \in DOMAIN r.drawing.states, i \in r.todo,
         NEW s, s = r.drawing.states[i],
         NEW x, x = IF r.pc = "links" THEN [st[s.id] EXCEPT !.naid = NextAids(st, s)]
                    ELSE IF r.pc = "approvals" THEN Approval(st, s) ELSE Conditional(st, s),
         r.pc # "links" => s.type = IF r.pc = "approvals" THEN "ManualApproval" ELSE "Condition",
         NEW q, q = [r EXCEPT !.todo = @ \ {i}]
  PROVE  WrittenBy(q, [st EXCEPT ![s.id] = x])
<1> DEFINE d == r.drawing
<1>1. PICK L, A, C : L = LinksLeft(r) /\ A = ApprovalsLeft(r) /\ C = ConditionsLeft(r)
  OBVIOUS
<1>2. PICK L2, A2, C2 : L2 = LinksLeft(q) /\ A2 = ApprovalsLeft(q) /\ C2 = ConditionsLeft(q)
  OBVIOUS
<1>3. q.pc = r.pc /\ q.drawing = d /\ q.todo = r.todo \ {i}
  BY DEF Fields
<1>4. Written(d, st, L, A, C)
  BY <1>1 DEF WrittenBy
<1>5. L \ {i} \subseteq L2 /\ A \ {i} \subseteq A2 /\ C \ {i} \subseteq C2
  BY <1>1, <1>2, <1>3 DEF LinksLeft, ApprovalsLeft, ConditionsLeft
<1>6. /\ DOMAIN st = Ids(d) /\ s.next \subseteq Ids(d)
      /\ s.type \in {"ManualApproval", "Condition"} => s.first \in Ids(d) /\ s.second \in Ids(d)
      /\ StepFields \subseteq DOMAIN st[s.id]
      /\ i \notin L => Links(st, s)
      /\ s.type = "ManualApproval" /\ i \notin A => Settings(st, s)
      /\ s.type = "Condition" /\ i \notin C => Settings(st, s)
  BY <1>4 DEF Written, Sensible
<1>7. /\ NextAids(st, s) = {st[id].aid : id \in s.next}
  <2>1. DOMAIN st \cap s.next = s.next
    BY <1>6
  <2> QED
    BY <2>1 DEF NextAids
<1>8. /\ StepFields \subseteq DOMAIN x /\ x.aid = st[s.id].aid /\ x.design = st[s.id].design
      /\ r.pc = "links" => x.naid = NextAids(st, s) /\ x.first = st[s.id].first
                           /\ x.second = st[s.id].second
      /\ r.pc # "links" => x.naid = st[s.id].naid /\ x.first = st[s.first].aid
                           /\ x.second = st[s.second].aid
  <2>1. CASE r.pc = "links"
    BY <1>6, <2>1 DEF StepFields
  <2>2. CASE r.pc # "links"
    <3>1. s.first \in DOMAIN st /\ s.second \in DOMAIN st
      BY <1>6, <2>2
    <3>2. x = [st[s.id] EXCEPT !.first = st[s.first].aid, !.second = st[s.second].aid]
      BY <2>2, <3>1 DEF Approval, Conditional
    <3> QED
      BY <1>6, <2>2, <3>2 DEF StepFields
  <2> QED
    BY <2>1, <2>2
<1>9. i \notin L2 => x.naid = AidsOf(st, s.next)
  <2>1. CASE r.pc = "links"
    BY <1>7, <1>8, <2>1 DEF AidsOf
  <2>2. CASE r.pc # "links"
    <3>1. i \notin L
      BY <1>1, <2>2 DEF LinksLeft
    <3> QED
      BY <1>6, <1>8, <2>2, <3>1 DEF Links, AidsOf
  <2> QED
    BY <2>1, <2>2
<1>10. ASSUME \/ s.type = "ManualApproval" /\ i \notin A2
              \/ s.type = "Condition" /\ i \notin C2
       PROVE  x.first = st[s.first].aid /\ x.second = st[s.second].aid
  <2>1. CASE r.pc = "links"
    <3>1. i \notin L2 /\ A2 = OfType(d, "ManualApproval") /\ C2 = OfType(d, "Condition")
      BY <1>2, <1>3, <2>1 DEF LinksLeft, ApprovalsLeft, ConditionsLeft
    <3>2. FALSE
      BY <1>10, <3>1 DEF OfType
    <3> QED
      BY <3>2
  <2>2. CASE r.pc # "links"
    BY <1>8, <2>2
  <2> QED
    BY <2>1, <2>2
<1>11. Written(d, [st EXCEPT ![s.id] = x], L2, A2, C2)
  <2> HIDE DEF d
  <2>1. s = d.states[i] /\ Sensible(d) /\ i \in DOMAIN d.states
    BY DEF d
  <2>2. PICK n : n = Put(st, s.id, x)
    OBVIOUS
  <2>3. Rewrites(st, s, x, i, L, A, C, L2, A2, C2)
    BY <1>5, <1>8, <1>9, <1>10 DEF Rewrites
  <2>4. Written(d, n, L2, A2, C2)
    BY <1>4, <2>1, <2>2, <2>3, WriteOne
  <2> QED
    BY <2>2, <2>4 DEF Put
<1> QED
  BY <1>2, <1>3, <1>11 DEF WrittenBy

\* What the versions w and steps t make of a call.
BuildsIn(r, w, t) ==
  /\ r.kind = "create" => r.drawing \in Drawings
  /\ r.pc \in Later => r.kind = "create"
  /\ r.pc \in Looping => r.todo \subseteq Listed(r)
  /\ r.pc \in {"version"} \union Writing => ActivityTypesExist(r.drawing.states)
  /\ r.pc \in Writing => /\ ~DesignThrows(r.drawing)
                         /\ r.v \in DOMAIN w /\ w[r.v].drawing = r.drawing
  /\ r.pc \in Writing \ {"steps"} => WrittenBy(r, t[r.v])

\* A step of one call: the other calls keep their versions, the workflows their
\* first steps.
LEMMA OneBuilds ==
  ASSUME RegistryInv, BuildInv, NEW c \in Caller, NEW r, call' = [call EXCEPT ![c] = r],
         BuildsIn(r, versions', steps'),
         \/ r.pc \notin Writing
         \/ r.v \notin DOMAIN versions
         \/ /\ call[c].pc \in Writing /\ r.v = call[c].v
            /\ r.pc \in Building => call[c].pc \in Building,
         DOMAIN versions \subseteq DOMAIN versions',
         \A i \in DOMAIN versions : versions'[i].drawing = versions[i].drawing,
         \A i \in DOMAIN versions : \/ steps'[i] = steps[i]
                                    \/ call[c].pc \in Building /\ i = call[c].v,
         \A k \in DOMAIN workflows' : \/ workflows'[k][3] = 0
                                      \/ k \in DOMAIN workflows /\ workflows'[k] = workflows[k]
  PROVE  BuildInv'
<1>1. call'[c] = r /\ \A d \in Caller \ {c} : call'[d] = call[d]
  BY DEF RegistryInv, Base
<1>2. Building \subseteq Writing
  BY DEF Writing
<1>3. ASSUME NEW d \in Caller, d # c PROVE Builds(call[d])'
  <2>1. PICK q : q = call[d]
    OBVIOUS
  <2>2. BuildsIn(q, versions, steps) /\ call'[d] = q
    BY <1>1, <1>3, <2>1 DEF BuildInv, Builds, BuildsIn
  <2>3. ASSUME q.pc \in Writing
        PROVE  q.v \in DOMAIN versions /\ steps'[q.v] = steps[q.v]
    <3>1. call[c].pc \in Building => call[c].v # q.v
      BY <1>2, <1>3, <2>1, <2>3 DEF BuildInv, Apart
    <3> QED
      BY <2>2, <2>3, <3>1 DEF BuildsIn
  <2>4. BuildsIn(q, versions', steps')
    BY <2>2, <2>3 DEF BuildsIn
  <2> QED
    BY <2>2, <2>4 DEF Builds, BuildsIn
<1>4. Builds(call[c])'
  BY <1>1 DEF Builds, BuildsIn
<1>5. \A d \in Caller \ {c} : call[d].pc \in Writing => call[d].v \in DOMAIN versions
  BY DEF BuildInv, Builds
<1>6. Apart'
  <2>1. ASSUME NEW d \in Caller \ {c}, call[d].pc \in Writing, r.pc \in Writing
        PROVE  call[d].v # r.v
    BY <1>5, <2>1 DEF BuildInv, Apart
  <2>2. ASSUME NEW d \in Caller, NEW e \in Caller, d # e,
               call'[d].pc \in Writing, call'[e].pc \in Writing
        PROVE  call'[d].v # call'[e].v
    <3>1. CASE d = c
      BY <1>1, <2>1, <2>2, <3>1
    <3>2. CASE e = c
      BY <1>1, <2>1, <2>2, <3>2
    <3>3. CASE d # c /\ e # c
      BY <1>1, <2>2, <3>3 DEF BuildInv, Apart
    <3> QED
      BY <3>1, <3>2, <3>3
  <2> QED
    BY <2>2 DEF Apart
<1>7. Referenced'
  <2>1. ASSUME NEW k \in DOMAIN workflows', NEW v, v = workflows'[k][3], v # 0
        PROVE  /\ Complete(v, versions', steps')
               /\ \A d \in Caller : call'[d].pc \in Building => call'[d].v # v
    <3>2. /\ k \in DOMAIN workflows /\ workflows[k][3] = v /\ Complete(v, versions, steps)
          /\ \A d \in Caller : call[d].pc \in Building => call[d].v # v
      BY <2>1 DEF BuildInv, Referenced
    <3>3. /\ v \in DOMAIN versions /\ steps'[v] = steps[v]
          /\ versions'[v].drawing = versions[v].drawing
      BY <3>2 DEF Complete
    <3>4. Complete(v, versions', steps')
      BY <3>2, <3>3 DEF Complete
    <3>5. ASSUME NEW d \in Caller, call'[d].pc \in Building PROVE call'[d].v # v
      <4>1. CASE d = c
        BY <1>1, <1>2, <3>2, <3>3, <3>5, <4>1
      <4>2. CASE d # c
        BY <1>1, <3>2, <3>5, <4>2
      <4> QED
        BY <4>1, <4>2
    <3> QED
      BY <3>4, <3>5
  <2> QED
    BY <2>1 DEF Referenced
<1> QED
  BY <1>3, <1>4, <1>6, <1>7 DEF BuildInv

\* A call that has no version yet, or none any more.
LEMMA EarlyBuilds ==
  ASSUME RegistryInv, BuildInv, NEW c \in Caller, NEW r, call' = [call EXCEPT ![c] = r],
         r.kind = "create" => r.drawing \in Drawings,
         r.pc \in Later => r.kind = "create",
         r.pc \notin Looping \union Writing,
         r.pc = "version" => ActivityTypesExist(r.drawing.states),
         versions' = versions, steps' = steps,
         \A k \in DOMAIN workflows' : \/ workflows'[k][3] = 0
                                      \/ k \in DOMAIN workflows /\ workflows'[k] = workflows[k]
  PROVE  BuildInv'
<1>1. BuildsIn(r, versions', steps')
  BY DEF BuildsIn
<1> QED
  BY <1>1, OneBuilds

\* A call that ends leaves its version as it is.
LEMMA FinishBuilds ==
  ASSUME RegistryInv, BuildInv, NEW c \in Caller, Finish(c), workflows' = workflows,
         versions' = versions, steps' = steps
  PROVE  BuildInv'
<1>1. PICK r : r = Idle
  OBVIOUS
<1>2. /\ r.kind # "create" /\ r.pc \notin Later \union Looping \union Writing /\ r.pc # "version"
  BY <1>1 DEF Idle, Later, Looping, Writing, Building
<1>3. call' = [call EXCEPT ![c] = r]
  BY <1>1 DEF Finish
<1> QED
  BY <1>2, <1>3, EarlyBuilds

LEMMA CreateWorkflowBuilds ==
  ASSUME RegistryInv, BuildInv, NEW c \in Caller, CreateWorkflow(c) PROVE BuildInv'
<1>1. PICK n \in instance.names, d \in instance.drawings :
        Begin(c, Searching([Idle EXCEPT !.pc = "search", !.kind = "create", !.name = n,
                                        !.drawing = d, !.number = 1]))
  BY DEF CreateWorkflow
<1>2. PICK q : q = [Idle EXCEPT !.pc = "search", !.kind = "create", !.name = n,
                                !.drawing = d, !.number = 1]
  OBVIOUS
<1>3. Fields \subseteq DOMAIN q /\ q.pc = "search" /\ q.drawing = d /\ d \in Drawings
  BY <1>2, RegistryAssumption DEF Idle, Fields, RegistryInv, Base
<1>4. PICK r : r = Searching(q)
  OBVIOUS
<1>5. r.pc = "search" /\ r.drawing \in Drawings
  BY <1>3, <1>4, SearchingTodo
<1>6. call' = [call EXCEPT ![c] = r] /\ tables' = tables
  BY <1>1, <1>2, <1>4 DEF Begin
<1> QED
  BY <1>5, <1>6, EarlyBuilds DEF tables, Later, Looping, Writing, Building

LEMMA GetWorkflowsBuilds ==
  ASSUME RegistryInv, BuildInv, NEW c \in Caller, GetWorkflowsOfAnOrg(c) PROVE BuildInv'
<1>1. PICK s : Begin(c, Searching([Idle EXCEPT !.pc = "search", !.kind = "search", !.name = s]))
  BY DEF GetWorkflowsOfAnOrg
<1>2. PICK q : q = [Idle EXCEPT !.pc = "search", !.kind = "search", !.name = s]
  OBVIOUS
<1>3. Fields \subseteq DOMAIN q /\ q.pc = "search" /\ q.kind = "search"
  BY <1>2 DEF Idle, Fields
<1>4. PICK r : r = Searching(q)
  OBVIOUS
<1>5. r.pc = "search" /\ r.kind = "search"
  BY <1>3, <1>4, SearchingTodo
<1>6. call' = [call EXCEPT ![c] = r] /\ tables' = tables
  BY <1>1, <1>2, <1>4 DEF Begin
<1> QED
  BY <1>5, <1>6, EarlyBuilds DEF tables, Later, Looping, Writing, Building

LEMMA CreateNextVersionBuilds ==
  ASSUME RegistryInv, BuildInv, NEW c \in Caller, CreateNextVersion(c) PROVE BuildInv'
<1>1. PICK k \in DOMAIN workflows, d \in instance.drawings :
        Begin(c, [Idle EXCEPT !.pc = "types", !.kind = "create", !.name = k[2],
                    !.drawing = d, !.key = k,
                    !.number = Cardinality({i \in DOMAIN versions : versions[i].key = k}) + 1])
  BY DEF CreateNextVersion
<1>2. PICK r : r = [Idle EXCEPT !.pc = "types", !.kind = "create", !.name = k[2],
                      !.drawing = d, !.key = k,
                      !.number = Cardinality({i \in DOMAIN versions : versions[i].key = k}) + 1]
  OBVIOUS
<1>3. r.pc = "types" /\ r.kind = "create" /\ r.drawing \in Drawings
  BY <1>2, RegistryAssumption DEF Idle, RegistryInv, Base
<1>4. call' = [call EXCEPT ![c] = r] /\ tables' = tables
  BY <1>1, <1>2 DEF Begin
<1> QED
  BY <1>3, <1>4, EarlyBuilds DEF tables, Looping, Writing, Building

\* A call that goes on before it has a version, with its kind and its drawing.
LEMMA OnBuilds ==
  ASSUME RegistryInv, BuildInv, NEW c \in Caller, NEW r, call' = [call EXCEPT ![c] = r],
         r.kind = call[c].kind, r.drawing = call[c].drawing,
         r.pc \in {"search", "count", "answer", "batches", "create"},
         workflows' = workflows, versions' = versions, steps' = steps
  PROVE  BuildInv'
<1>1. r.kind = "create" => r.drawing \in Drawings
  BY DEF BuildInv, Builds
<1> QED
  BY <1>1, EarlyBuilds DEF Later, Looping, Writing, Building

LEMMA LookUpBuilds ==
  ASSUME RegistryInv, BuildInv, NEW c \in Caller, NEW side \in {"left", "right"}, LookUp(c, side)
  PROVE  BuildInv'
<1>1. PICK r : r = call[c]
  OBVIOUS
<1>2. /\ Fields \subseteq DOMAIN r /\ r.pc = "search"
      /\ workflows' = workflows /\ versions' = versions /\ steps' = steps
  BY <1>1 DEF RegistryInv, LookUp, At, Sound, NothingStored, tables
<1>3. CASE <<Head(r[side]), r.name>> \in DOMAIN workflows
  <2>1. Finish(c)
    BY <1>1, <1>3 DEF LookUp, Finish
  <2> QED
    BY <1>2, <2>1, FinishBuilds
<1>4. CASE <<Head(r[side]), r.name>> \notin DOMAIN workflows
  <2>1. PICK n : n = IF Len(r[side]) > 1 THEN [r EXCEPT ![side] = Tail(@)]
                     ELSE IF LoopEnds(r) THEN [r EXCEPT !.pc = "count", ![side] = << >>]
                     ELSE [r EXCEPT !.searched = @ + 1, ![side] = << >>]
    OBVIOUS
  <2>2. call' = [call EXCEPT ![c] = n]
    BY <1>1, <1>4, <2>1 DEF LookUp
  <2>3. n.kind = r.kind /\ n.drawing = r.drawing /\ n.pc \in {"search", "count"}
    BY <1>2, <2>1 DEF Fields
  <2> QED
    BY <1>1, <1>2, <2>2, <2>3, OnBuilds
<1> QED
  BY <1>3, <1>4

LEMMA FilterBuilds ==
  ASSUME RegistryInv, BuildInv, NEW c \in Caller, NEW side \in {"left", "right"}, Filter(c, side)
  PROVE  BuildInv'
<1>1. PICK r : r = call[c]
  OBVIOUS
<1>2. /\ Fields \subseteq DOMAIN r /\ r.pc = "search"
      /\ workflows' = workflows /\ versions' = versions /\ steps' = steps
  BY <1>1 DEF RegistryInv, Filter, At, Sound, NothingStored, tables
<1>3. PICK found : found = r.matched \union
        {k \in DOMAIN workflows : k[1] = Head(r[side]) /\ <<r.name, k[2]>> \in Begins}
  OBVIOUS
<1>4. PICK n : n = IF Len(r[side]) > 1 THEN [r EXCEPT ![side] = Tail(@), !.matched = found]
                   ELSE IF LoopEnds(r)
                        THEN [r EXCEPT !.pc = "answer", ![side] = << >>, !.matched = found]
                   ELSE [r EXCEPT !.searched = @ + 1, ![side] = << >>, !.matched = found]
  OBVIOUS
<1>5. call' = [call EXCEPT ![c] = n]
  BY <1>1, <1>3, <1>4 DEF Filter
<1>6. n.kind = r.kind /\ n.drawing = r.drawing /\ n.pc \in {"search", "answer"}
  BY <1>2, <1>4 DEF Fields
<1> QED
  BY <1>1, <1>2, <1>5, <1>6, OnBuilds

LEMMA CountBatchBuilds ==
  ASSUME RegistryInv, BuildInv, NEW c \in Caller, CountBatch(c) PROVE BuildInv'
<1>1. PICK r : r = call[c]
  OBVIOUS
<1> DEFINE full == Cardinality(InBatch(r.total)) >= BatchLimit
<1>2. PICK n : n = [r EXCEPT !.pc = IF full THEN "batches" ELSE "create",
                             !.total = IF full THEN @ + 1 ELSE @]
  OBVIOUS
<1>3. /\ DOMAIN call = Caller /\ Fields \subseteq DOMAIN r
      /\ workflows' = workflows /\ versions' = versions /\ steps' = steps
  BY <1>1 DEF CountBatch, At, RegistryInv, Base, Sound, NothingStored, tables
<1>4. n.kind = r.kind /\ n.drawing = r.drawing /\ n.pc \in {"batches", "create"}
  BY <1>2, <1>3 DEF Fields
<1>5. call' = [call EXCEPT ![c] = n]
  BY <1>1, <1>2, <1>3 DEF CountBatch
<1> QED
  BY <1>1, <1>3, <1>4, <1>5, OnBuilds

LEMMA SaveBatchesBuilds ==
  ASSUME RegistryInv, BuildInv, NEW c \in Caller, SaveBatches(c) PROVE BuildInv'
<1>1. PICK r : r = [call[c] EXCEPT !.pc = "create"]
  OBVIOUS
<1>2. Fields \subseteq DOMAIN call[c]
  BY DEF RegistryInv, Sound
<1>3. r.pc = "create" /\ r.kind = call[c].kind /\ r.drawing = call[c].drawing
  BY <1>1, <1>2 DEF Fields
<1>4. call' = [call EXCEPT ![c] = r]
  BY <1>1 DEF SaveBatches, Goto
<1> QED
  BY <1>3, <1>4, OnBuilds DEF SaveBatches

LEMMA CreateBuilds ==
  ASSUME RegistryInv, BuildInv, NEW c \in Caller, Create(c) PROVE BuildInv'
<1>1. PICK r : r = call[c]
  OBVIOUS
<1>2. PICK k : k = <<r.total, r.name>>
  OBVIOUS
<1>3. /\ DOMAIN call = Caller /\ Fields \subseteq DOMAIN r /\ r.pc = "create"
      /\ r.kind = "create" /\ r.drawing \in Drawings
      /\ versions' = versions /\ steps' = steps
  BY <1>1 DEF Create, At, RegistryInv, Base, Sound, BuildInv, Builds
<1>4. CASE k \in DOMAIN workflows
  BY <1>1, <1>2, <1>3, <1>4, FinishBuilds DEF Create
<1>5. CASE k \notin DOMAIN workflows
  <2>1. PICK n : n = [r EXCEPT !.pc = "types", !.key = k]
    OBVIOUS
  <2>2. n.pc = "types" /\ n.kind = "create" /\ n.drawing = r.drawing
    BY <1>3, <2>1 DEF Fields
  <2>3. /\ call' = [call EXCEPT ![c] = n]
        /\ workflows' = [y \in DOMAIN workflows \union {k} |->
                           IF y = k THEN NoAid ELSE workflows[y]]
    BY <1>1, <1>2, <1>3, <1>5, <2>1 DEF Create
  <2>4. ASSUME NEW y \in DOMAIN workflows'
        PROVE  \/ workflows'[y][3] = 0
               \/ y \in DOMAIN workflows /\ workflows'[y] = workflows[y]
    <3>1. NoAid[3] = 0
      BY DEF NoAid
    <3> QED
      BY <2>3, <2>4, <3>1
  <2>5. n.pc \notin Looping \union Writing /\ n.pc # "version"
    BY <2>2 DEF Looping, Writing, Building
  <2> QED
    BY <1>3, <2>2, <2>3, <2>4, <2>5, EarlyBuilds
<1> QED
  BY <1>4, <1>5

LEMMA CheckTypesBuilds ==
  ASSUME RegistryInv, BuildInv, NEW c \in Caller, CheckTypes(c) PROVE BuildInv'
<1>1. PICK r : r = call[c]
  OBVIOUS
<1>2. /\ Fields \subseteq DOMAIN r /\ r.pc = "types" /\ r.kind = "create" /\ r.drawing \in Drawings
      /\ workflows' = workflows /\ versions' = versions /\ steps' = steps
  BY <1>1 DEF CheckTypes, At, RegistryInv, Sound, BuildInv, Builds, Later, NothingStored, tables
<1>3. CASE ~ActivityTypesExist(r.drawing.states)
  BY <1>1, <1>2, <1>3, FinishBuilds DEF CheckTypes
<1>4. CASE ActivityTypesExist(r.drawing.states)
  <2>1. PICK n : n = [r EXCEPT !.pc = "version"]
    OBVIOUS
  <2>2. n.pc = "version" /\ n.kind = "create" /\ n.drawing = r.drawing
    BY <1>2, <2>1 DEF Fields
  <2>3. call' = [call EXCEPT ![c] = n]
    BY <1>1, <1>4, <2>1 DEF CheckTypes, Goto
  <2>4. n.pc \notin Looping \union Writing
    BY <2>2 DEF Looping, Writing, Building
  <2> QED
    BY <1>2, <1>4, <2>2, <2>3, <2>4, EarlyBuilds
<1> QED
  BY <1>3, <1>4

\* The version is new: no other call and no workflow has it.
LEMMA CreateVersionBuilds ==
  ASSUME RegistryInv, Books, BuildInv, NEW c \in Caller, CreateVersion(c) PROVE BuildInv'
<1>1. PICK r : r = call[c]
  OBVIOUS
<1>2. PICK x : x = [key |-> r.key, number |-> r.number, drawing |-> r.drawing, faid |-> NoAid]
  OBVIOUS
<1>3. /\ Fields \subseteq DOMAIN r /\ r.pc = "version" /\ r.kind = "create"
      /\ r.drawing \in Drawings /\ ActivityTypesExist(r.drawing.states)
      /\ workflows' = workflows
      /\ versions' = Append(versions, x) /\ steps' = Append(steps, << >>)
  BY <1>1, <1>2 DEF CreateVersion, At, RegistryInv, Sound, BuildInv, Builds, Later
<1>4. PICK l : l = Len(versions) + 1
  OBVIOUS
<1>5. /\ l \notin DOMAIN versions /\ l \in DOMAIN versions' /\ Len(versions') = l
      /\ versions'[l] = x /\ DOMAIN versions \subseteq DOMAIN versions'
      /\ \A i \in DOMAIN versions : versions'[i] = versions[i] /\ steps'[i] = steps[i]
  <2>1. Tuple(versions) /\ Tuple(steps) /\ Len(steps) = Len(versions)
    BY DEF Books
  <2>2. /\ Len(versions) \in Nat /\ DOMAIN versions = 1..Len(versions)
        /\ DOMAIN versions' = 1..l /\ Len(versions') = l /\ versions'[l] = x
        /\ \A i \in DOMAIN versions : versions'[i] = versions[i]
    BY <1>3, <1>4, <2>1, TupleAppend
  <2>3. DOMAIN steps = 1..Len(versions) /\ \A i \in DOMAIN steps : steps'[i] = steps[i]
    BY <1>3, <2>1, TupleAppend
  <2> QED
    BY <1>4, <2>2, <2>3
<1>6. PICK n : n = IF DesignThrows(r.drawing) THEN Idle
                   ELSE [r EXCEPT !.pc = "steps", !.v = l]
  OBVIOUS
<1>7. call' = [call EXCEPT ![c] = n]
  BY <1>1, <1>5, <1>6 DEF CreateVersion
<1>8. BuildsIn(n, versions', steps') /\ (n.pc \notin Writing \/ n.v \notin DOMAIN versions)
  <2>1. CASE DesignThrows(r.drawing)
    <3>1. n.kind = "none" /\ n.pc = "idle"
      BY <1>6, <2>1 DEF Idle
    <3> QED
      BY <3>1 DEF BuildsIn, Later, Looping, Writing, Building
  <2>2. CASE ~DesignThrows(r.drawing)
    <3>1. n.pc = "steps" /\ n.v = l /\ n.kind = "create" /\ n.drawing = r.drawing
      BY <1>3, <1>6, <2>2 DEF Fields
    <3>2. versions'[n.v].drawing = n.drawing
      BY <1>2, <1>5, <3>1
    <3> QED
      BY <1>3, <1>5, <2>2, <3>1, <3>2 DEF BuildsIn, Later, Looping
  <2> QED
    BY <2>1, <2>2
<1> QED
  BY <1>3, <1>5, <1>7, <1>8, OneBuilds

\* A call that goes on with its list, one of the steps of its version written.
LEMMA PhaseBuilds ==
  ASSUME RegistryInv, Books, BuildInv, NEW c \in Caller, NEW r, r = call[c],
         r.pc \in Building,
         NEW p \in Looping, NEW s,
         NEW q, q = [r EXCEPT !.pc = p, !.todo = s], s \subseteq Listed(q),
         call' = [call EXCEPT ![c] = Phase(q)],
         NEW x, steps' = [steps EXCEPT ![r.v] = x], WrittenBy(q, x),
         workflows' = workflows, versions' = versions
  PROVE  BuildInv'
<1>1. Fields \subseteq DOMAIN r /\ BuildsIn(r, versions, steps)
  BY DEF RegistryInv, Sound, BuildInv, Builds, BuildsIn
<1>2. /\ r.pc \in Later /\ r.pc \in Writing
      /\ r.kind = "create" /\ r.drawing \in Drawings /\ ActivityTypesExist(r.drawing.states)
      /\ ~DesignThrows(r.drawing) /\ r.v \in DOMAIN versions /\ versions[r.v].drawing = r.drawing
  BY <1>1 DEF BuildsIn, Later, Writing, Building
<1>3. /\ Fields \subseteq DOMAIN q /\ q.pc = p /\ q.todo = s /\ q.drawing = r.drawing
      /\ q.kind = r.kind /\ q.v = r.v /\ q.pc \in Looping
  BY <1>1 DEF Fields
<1>4. PICK n : n = Phase(q)
  OBVIOUS
<1>5. /\ n.pc \in Looping \union {"versionFaid"}
      /\ n.v = r.v /\ n.drawing = r.drawing /\ n.kind = "create"
  <2>1. Fields \subseteq DOMAIN q /\ q.pc \in Looping /\ n = Phase(q)
    BY <1>3, <1>4
  <2>2. /\ n.pc \in Looping \union {"versionFaid"}
        /\ n.v = q.v /\ n.drawing = q.drawing /\ n.kind = q.kind
    BY ONLY <2>1, PhaseBooked
  <2> QED
    BY <1>2, <1>3, <2>2
<1>6. WrittenBy(n, x) /\ (n.pc \in Looping => n.todo \subseteq Listed(n))
  BY <1>3, <1>4, PhaseWrites
<1>7. steps'[r.v] = x /\ \A i \in DOMAIN versions : i # r.v => steps'[i] = steps[i]
  <2>1. r.v \in DOMAIN steps /\ DOMAIN steps = DOMAIN versions
    BY <1>2, TupleAppend DEF Books
  <2> QED
    BY <2>1
<1>8. BuildsIn(n, versions', steps')
  BY <1>2, <1>5, <1>6, <1>7 DEF BuildsIn
<1>9. call' = [call EXCEPT ![c] = n]
  BY <1>4
<1> QED
  BY <1>2, <1>5, <1>7, <1>8, <1>9, OneBuilds

\* The steps of the version are stored, to be linked next.
LEMMA CreateStepsBuilds ==
  ASSUME Drawable, RegistryInv, Books, BuildInv, NEW c \in Caller, CreateSteps(c) PROVE BuildInv'
<1>1. PICK r : r = call[c]
  OBVIOUS
<1>2. PICK s : s = Leading(r.drawing)
  OBVIOUS
<1>3. PICK q : q = [r EXCEPT !.pc = "links", !.todo = s]
  OBVIOUS
<1>4. PICK x : x = NewSteps(r.drawing, r.v)
  OBVIOUS
<1>5. /\ Fields \subseteq DOMAIN r /\ r.pc = "steps" /\ Sensible(r.drawing)
      /\ workflows' = workflows /\ versions' = versions
      /\ steps' = [steps EXCEPT ![r.v] = x]
      /\ call' = [call EXCEPT ![c] = Phase(q)]
  BY <1>1, <1>2, <1>3, <1>4
  DEF CreateSteps, At, RegistryInv, Sound, BuildInv, Builds, Later, Drawable
<1>6. q.pc = "links" /\ q.todo = s /\ q.drawing = r.drawing
  BY <1>3, <1>5 DEF Fields
<1>7. WrittenBy(q, x)
  <2>1. /\ LinksLeft(q) = Leading(r.drawing)
        /\ ApprovalsLeft(q) = OfType(r.drawing, "ManualApproval")
        /\ ConditionsLeft(q) = OfType(r.drawing, "Condition")
    BY <1>2, <1>6 DEF LinksLeft, ApprovalsLeft, ConditionsLeft
  <2> QED
    BY <1>4, <1>5, <1>6, <2>1, NewStepsWritten DEF WrittenBy
<1>8. s \subseteq Listed(q)
  BY <1>2, <1>6 DEF Leading, Listed
<1>9. r.pc \in Building /\ "links" \in Looping
  BY <1>5 DEF Building, Looping
<1> QED
  BY <1>1, <1>3, <1>5, <1>7, <1>8, <1>9, PhaseBuilds

\* One activity of the list is saved.
LEMMA SaveStepBuilds ==
  ASSUME Drawable, RegistryInv, Books, BuildInv, NEW c \in Caller, NEW p \in Looping, NEW step,
         SaveStep(c, p, step),
         NEW st, st = steps[call[c].v], NEW s, s = Pending(c),
         step = IF p = "links" THEN [st[s.id] EXCEPT !.naid = NextAids(st, s)]
                ELSE IF p = "approvals" THEN Approval(st, s) ELSE Conditional(st, s)
  PROVE  BuildInv'
<1>1. PICK r : r = call[c]
  OBVIOUS
<1>2. PICK i : i = Min(r.todo)
  OBVIOUS
<1>3. PICK q : q = [r EXCEPT !.todo = @ \ {i}]
  OBVIOUS
<1>4. PICK x : x = [st EXCEPT ![s.id] = step]
  OBVIOUS
<1>5. /\ Fields \subseteq DOMAIN r /\ r.pc = p /\ r.pc \in Later /\ r.pc \in Building
      /\ r.pc \in Writing \ {"steps"}
  BY <1>1 DEF SaveStep, At, RegistryInv, Sound, Later, Looping, Building, Writing
<1>6. /\ workflows' = workflows /\ versions' = versions
      /\ steps' = [steps EXCEPT ![r.v] = x]
      /\ call' = [call EXCEPT ![c] = Phase(q)]
  BY <1>1, <1>2, <1>3, <1>4 DEF SaveStep
<1>7. BuildsIn(r, versions, steps)
  BY <1>1 DEF BuildInv, Builds, BuildsIn
<1>8. /\ Sensible(r.drawing) /\ WrittenBy(r, st)
      /\ r.todo \subseteq Listed(r) /\ r.todo \subseteq DOMAIN r.drawing.states
  BY <1>1, <1>5, <1>7 DEF BuildsIn, Drawable, Listed, OfType
<1>9. i \in r.todo /\ s = r.drawing.states[i]
  <2>1. r.todo # {}
    BY <1>1, <1>5 DEF Books, Booked
  <2>2. r.todo \subseteq Nat
    BY <1>8 DEF Sensible
  <2> QED
    BY <1>1, <1>2, <2>1, <2>2, LeastPlace DEF Pending
<1>10. r.pc # "links" => s.type = IF r.pc = "approvals" THEN "ManualApproval" ELSE "Condition"
  BY <1>5, <1>8, <1>9 DEF Listed, OfType, Looping
<1>11. WrittenBy(q, x)
  <2>1. step = IF r.pc = "links" THEN [st[s.id] EXCEPT !.naid = NextAids(st, s)]
               ELSE IF r.pc = "approvals" THEN Approval(st, s) ELSE Conditional(st, s)
    BY <1>5
  <2> QED
    BY <1>3, <1>4, <1>5, <1>8, <1>9, <1>10, <2>1, SaveWrites
<1>12. PICK rest : rest = r.todo \ {i}
  OBVIOUS
<1>13. q = [r EXCEPT !.pc = p, !.todo = rest]
  BY <1>3, <1>5, <1>12 DEF Fields
<1>14. rest \subseteq Listed(q)
  <2>1. q.pc = r.pc /\ q.drawing = r.drawing
    BY <1>3, <1>5 DEF Fields
  <2> QED
    BY <1>8, <1>12, <2>1 DEF Listed
<1> QED
  BY <1>1, <1>5, <1>6, <1>11, <1>13, <1>14, PhaseBuilds

\* The next AIDs of one step.
LEMMA LinkStepBuilds ==
  ASSUME Drawable, RegistryInv, Books, BuildInv, NEW c \in Caller, LinkStep(c) PROVE BuildInv'
<1>1. PICK st, s : st = steps[call[c].v] /\ s = Pending(c)
  OBVIOUS
<1>2. PICK p, step : p = "links" /\ step = [st[s.id] EXCEPT !.naid = NextAids(st, s)]
  OBVIOUS
<1>3. SaveStep(c, p, step) /\ p \in Looping
  BY <1>1, <1>2 DEF LinkStep, Stored, Looping
<1> QED
  BY <1>1, <1>2, <1>3, SaveStepBuilds

\* The approve and reject steps of one step.
LEMMA SaveApprovalBuilds ==
  ASSUME Drawable, RegistryInv, Books, BuildInv, NEW c \in Caller, SaveApproval(c) PROVE BuildInv'
<1>1. PICK st, s : st = steps[call[c].v] /\ s = Pending(c)
  OBVIOUS
<1>2. PICK p, step : p = "approvals" /\ step = Approval(st, s)
  OBVIOUS
<1>3. SaveStep(c, p, step) /\ p \in Looping /\ p # "links"
  BY <1>1, <1>2 DEF SaveApproval, Stored, Looping
<1> QED
  BY <1>1, <1>2, <1>3, SaveStepBuilds

\* The default and chosen steps of one step.
LEMMA SaveConditionalBuilds ==
  ASSUME Drawable, RegistryInv, Books, BuildInv, NEW c \in Caller, SaveConditional(c)
  PROVE  BuildInv'
<1>1. PICK st, s : st = steps[call[c].v] /\ s = Pending(c)
  OBVIOUS
<1>2. PICK p, step : p = "conditions" /\ step = Conditional(st, s)
  OBVIOUS
<1>3. SaveStep(c, p, step) /\ p \in Looping /\ p # "links" /\ p # "approvals"
  BY <1>1, <1>2 DEF SaveConditional, Stored, Looping
<1> QED
  BY <1>1, <1>2, <1>3, SaveStepBuilds

\* The first step of the version is stored with it.
LEMMA SaveVersionFaidBuilds ==
  ASSUME RegistryInv, Books, BuildInv, NEW c \in Caller, SaveVersionFaid(c) PROVE BuildInv'
<1>1. PICK r : r = call[c]
  OBVIOUS
<1>2. PICK x : x = [versions[r.v] EXCEPT !.faid = Faid(r)]
  OBVIOUS
<1>3. /\ Fields \subseteq DOMAIN r /\ r.pc = "versionFaid" /\ BuildsIn(r, versions, steps)
      /\ workflows' = workflows /\ steps' = steps
      /\ versions' = [versions EXCEPT ![r.v] = x]
  BY <1>1, <1>2 DEF SaveVersionFaid, At, RegistryInv, Sound, BuildInv, Builds, BuildsIn
<1>4. PICK n : n = [r EXCEPT !.pc = "workflowFaid"]
  OBVIOUS
<1>5. /\ n.pc = "workflowFaid" /\ n.v = r.v /\ n.drawing = r.drawing /\ n.todo = r.todo
      /\ n.kind = r.kind
  BY <1>3, <1>4 DEF Fields
<1>6. call' = [call EXCEPT ![c] = n]
  BY <1>1, <1>4 DEF SaveVersionFaid, Goto
<1>7. /\ r.v \in DOMAIN versions /\ DOMAIN versions' = DOMAIN versions
      /\ \A i \in DOMAIN versions : versions'[i].drawing = versions[i].drawing
  <2>1. r.v \in DOMAIN versions
    BY <1>3 DEF BuildsIn, Writing
  <2>2. \A i \in DOMAIN versions : VersionFields \subseteq DOMAIN versions[i]
    BY DEF Books
  <2>3. DOMAIN versions' = DOMAIN versions
    BY <1>3
  <2>4. ASSUME NEW i \in DOMAIN versions PROVE versions'[i].drawing = versions[i].drawing
    <3>1. CASE i = r.v
      BY <1>2, <1>3, <2>2, <3>1 DEF VersionFields
    <3>2. CASE i # r.v
      BY <1>3, <3>2
    <3> QED
      BY <3>1, <3>2
  <2> QED
    BY <2>1, <2>3, <2>4
<1>8. /\ r.pc \in Later /\ r.pc \in Writing \ {"steps"} /\ r.pc \notin Looping
      /\ n.pc \in Later /\ n.pc \in Writing /\ n.pc \notin Looping \union Building
  BY <1>3, <1>5 DEF Later, Looping, Writing, Building
<1>9. \A st : WrittenBy(r, st) => WrittenBy(n, st)
  BY <1>3, <1>5 DEF WrittenBy, LinksLeft, ApprovalsLeft, ConditionsLeft
<1>10. BuildsIn(n, versions', steps')
  BY <1>3, <1>5, <1>7, <1>8, <1>9 DEF BuildsIn
<1> QED
  BY <1>1, <1>3, <1>5, <1>6, <1>7, <1>8, <1>10, OneBuilds

\* The workflow is given the version its call has written.
LEMMA SaveWorkflowFaidBuilds ==
  ASSUME RegistryInv, Books, BuildInv, NEW c \in Caller, SaveWorkflowFaid(c) PROVE BuildInv'
<1>1. PICK r : r = call[c]
  OBVIOUS
<1>2. PICK f : f = Faid(r)
  OBVIOUS
<1>3. /\ r.pc = "workflowFaid" /\ BuildsIn(r, versions, steps)
      /\ versions' = versions /\ steps' = steps
      /\ workflows' = [workflows EXCEPT ![r.key] = f]
      /\ call' = [call EXCEPT ![c] = Idle]
  BY <1>1, <1>2 DEF SaveWorkflowFaid, At, Finish, BuildInv, Builds, BuildsIn
<1>4. r.pc \in Later /\ r.pc \in Writing \ {"steps"}
  BY <1>3 DEF Later, Writing, Building
<1>5. Complete(r.v, versions, steps)
  <2>1. LinksLeft(r) = {} /\ ApprovalsLeft(r) = {} /\ ConditionsLeft(r) = {}
    BY <1>3 DEF LinksLeft, ApprovalsLeft, ConditionsLeft
  <2>2. WrittenBy(r, steps[r.v]) /\ versions[r.v].drawing = r.drawing /\ r.v \in DOMAIN versions
    BY <1>3, <1>4 DEF BuildsIn
  <2>3. Written(r.drawing, steps[r.v], {}, {}, {})
    BY <2>1, <2>2 DEF WrittenBy
  <2> QED
    BY <1>3, <1>4, <2>2, <2>3 DEF BuildsIn, Complete
<1>6. f[3] = r.v \/ f[3] = 0
  <2>1. PICK s : s = CHOOSE t \in Range(r.drawing.states) : t.id = r.drawing.start
    OBVIOUS
  <2>2. f = IF s.aid = Unset THEN <<"aid", s.id, r.v>> ELSE <<"aid", s.aid, 0>>
    BY <1>2, <2>1 DEF Faid, Aid
  <2> QED
    BY <2>2
<1>7. call'[c] = Idle /\ \A d \in Caller \ {c} : call'[d] = call[d]
  BY <1>3 DEF RegistryInv, Base
<1>8. Idle.kind = "none" /\ Idle.pc = "idle"
  BY DEF Idle
<1>9. ASSUME NEW d \in Caller PROVE Builds(call[d])'
  <2>1. CASE d = c
    BY <1>7, <1>8, <2>1 DEF Builds, Later, Looping, Writing, Building
  <2>2. CASE d # c
    <3>1. call'[d] = call[d] /\ Builds(call[d])
      BY <1>7, <2>2 DEF BuildInv
    <3> QED
      BY <1>3, <3>1 DEF Builds
  <2> QED
    BY <2>1, <2>2
<1>10. Apart'
  BY <1>7, <1>8 DEF BuildInv, Apart, Writing, Building
<1>11. \A d \in Caller : call'[d].pc \in Building => call'[d] = call[d] /\ d # c
  BY <1>7, <1>8 DEF Building
<1>12. Referenced'
  <2>1. ASSUME NEW k \in DOMAIN workflows', workflows'[k][3] # 0
        PROVE  /\ Complete(workflows'[k][3], versions', steps')
               /\ \A d \in Caller : call'[d].pc \in Building => call'[d].v # workflows'[k][3]
    <3>1. k \in DOMAIN workflows
      BY <1>3, <2>1
    <3>2. CASE k = r.key
      <4>1. workflows'[k][3] = r.v
        BY <1>3, <1>6, <2>1, <3>1, <3>2
      <4>2. ASSUME NEW d \in Caller, call'[d].pc \in Building PROVE call'[d].v # r.v
        <5>1. call'[d] = call[d] /\ d # c /\ call[d].pc \in Writing
          BY <1>11, <4>2 DEF Writing
        <5> QED
          BY <1>1, <1>4, <5>1 DEF BuildInv, Apart
      <4> QED
        BY <1>3, <1>5, <4>1, <4>2
    <3>3. CASE k # r.key
      <4>1. workflows'[k] = workflows[k]
        BY <1>3, <3>1, <3>3
      <4> QED
        BY <1>3, <1>11, <2>1, <3>1, <4>1 DEF BuildInv, Referenced
    <3> QED
      BY <3>2, <3>3
  <2> QED
    BY <2>1 DEF Referenced
<1> QED
  BY <1>9, <1>10, <1>12 DEF BuildInv

LEMMA BuildInit == Init => BuildInv
<1> SUFFICES ASSUME Init PROVE BuildInv
  OBVIOUS
<1>1. /\ \A c \in Caller : call[c] = Idle
      /\ \A k \in DOMAIN workflows : workflows[k] = NoAid
  BY DEF Init
<1>2. Idle.kind = "none" /\ Idle.pc = "idle" /\ NoAid[3] = 0
  BY DEF Idle, NoAid
<1> QED
  BY <1>1, <1>2 DEF BuildInv, Apart, Referenced, Builds, Later, Looping, Writing, Building

\* Every step of a caller keeps what the calls write.
LEMMA BuildStep ==
  ASSUME Drawable, RegistryInv, Books, BuildInv, NEW c \in Caller, Step(c) PROVE BuildInv'
<1>1. CASE CreateWorkflow(c)
  BY <1>1, CreateWorkflowBuilds
<1>2. CASE CreateNextVersion(c)
  BY <1>2, CreateNextVersionBuilds
<1>3. CASE GetWorkflowsOfAnOrg(c)
  BY <1>3, GetWorkflowsBuilds
<1>4. CASE \E side \in {"left", "right"} : LookUp(c, side) \/ Filter(c, side)
  BY <1>4, LookUpBuilds, FilterBuilds
<1>5. CASE Answer(c)
  BY <1>5, FinishBuilds DEF Answer, NothingStored, tables
<1>6. CASE CountBatch(c)
  BY <1>6, CountBatchBuilds
<1>7. CASE SaveBatches(c)
  BY <1>7, SaveBatchesBuilds
<1>8. CASE Create(c)
  BY <1>8, CreateBuilds
<1>9. CASE CheckTypes(c)
  BY <1>9, CheckTypesBuilds
<1>10. CASE CreateVersion(c)
  BY <1>10, CreateVersionBuilds
<1>11. CASE CreateSteps(c)
  BY <1>11, CreateStepsBuilds
<1>12. CASE LinkStep(c)
  BY <1>12, LinkStepBuilds
<1>13. CASE SaveApproval(c)
  BY <1>13, SaveApprovalBuilds
<1>14. CASE SaveConditional(c)
  BY <1>14, SaveConditionalBuilds
<1>15. CASE SaveVersionFaid(c)
  BY <1>15, SaveVersionFaidBuilds
<1>16. CASE SaveWorkflowFaid(c)
  BY <1>16, SaveWorkflowFaidBuilds
<1>17. CASE Fail(c)
  BY <1>17, FinishBuilds DEF Fail, tables
<1> QED
  BY <1>1, <1>2, <1>3, <1>4, <1>5, <1>6, <1>7, <1>8, <1>9, <1>10, <1>11, <1>12, <1>13, <1>14,
     <1>15, <1>16, <1>17 DEF Step

\* The steps of a version that is complete are what was drawn.
LEMMA CompleteIsWhole ==
  ASSUME Drawable, NEW v, Complete(v, versions, steps)
  PROVE  Whole(versions[v].drawing, steps[v])
<1>1. PICK d, st : d = versions[v].drawing /\ st = steps[v]
  OBVIOUS
<1>2. Sensible(d) /\ ActivityTypesExist(d.states) /\ ~DesignThrows(d) /\ Written(d, st, {}, {}, {})
  BY <1>1 DEF Complete, Drawable
<1>3. ASSUME NEW s \in Range(d.states)
      PROVE  /\ st[s.id].naid = {st[id].aid : id \in s.next}
             /\ s.type \in {"ManualApproval", "Condition"} =>
                  st[s.id].first = st[s.first].aid /\ st[s.id].second = st[s.second].aid
  <2>1. PICK i \in DOMAIN d.states : s = d.states[i]
    BY <1>3 DEF Range
  <2> QED
    BY <1>2, <2>1 DEF Written, Links, Settings
<1>4. Details(d, st) = Canvases(d)
  <2>1. \A i \in DOMAIN d.states : st[d.states[i].id].design = GetDesign(d.design, d.states[i])
    BY <1>2 DEF Written
  <2>2. [i \in DOMAIN d.states |-> st[d.states[i].id].design]
          = [i \in DOMAIN d.states |-> GetDesign(d.design, d.states[i])]
    BY <2>1
  <2> QED
    BY <2>2 DEF Details, Canvases
<1>5. Range(Canvases(d)) = Range(d.design) /\ Len(Canvases(d)) = Len(d.design)
  BY <1>2 DEF Sensible
<1>6. Whole(d, st)
  BY <1>3, <1>4, <1>5 DEF Whole
<1> QED
  BY <1>1, <1>6

\* A workflow that starts at a version starts at a whole one.
LEMMA ReferencedAreWhole ==
  ASSUME Drawable, Books, BuildInv PROVE TriggersAreWhole
<1>1. ASSUME NEW k \in DOMAIN workflows, NEW v \in DOMAIN versions, workflows[k][3] = v
      PROVE  Whole(versions[v].drawing, steps[v])
  <2>1. v # 0
    BY <1>1, TupleAppend DEF Books
  <2>2. Complete(v, versions, steps)
    BY <1>1, <2>1 DEF BuildInv, Referenced
  <2> QED
    BY <2>2, CompleteIsWhole
<1> QED
  BY <1>1 DEF TriggersAreWhole

\* Whatever the callers do and wherever they fail, the triggers of a workflow never
\* start at a version whose links, settings or canvas are not as drawn: the first
\* step is stored last, by the only call that writes the version.  What was drawn
\* has to be Sensible.
THEOREM TriggersStartWhole == ASSUME Drawable PROVE Spec => []TriggersAreWhole
<1>1. RegistryInv /\ Books /\ BuildInv /\ [Next]_vars => BuildInv'
  <2>1. RegistryInv /\ Books /\ BuildInv /\ UNCHANGED vars => BuildInv'
    BY DEF vars, tables, BuildInv, Builds, Apart, Referenced
  <2> QED
    BY <2>1, BuildStep DEF Next
<1>2. Books /\ BuildInv => TriggersAreWhole
  BY ReferencedAreWhole
<1> QED
  BY <1>1, <1>2, BuildInit, RegistryAlways, BooksAlways, PTL DEF Spec
===============================================================================
