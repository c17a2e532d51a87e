------------------------------ MODULE MatchingData ------------------------------
(***************************************************************************)
(* The Matching Data activity.  Its input mentions two or more lists of rows;  *)
(* the mentions are replaced by the lists' text, the text is parsed, and each   *)
(* row of the first list is compared with the rows of the second and the last:  *)
(* those with its primary key must agree with it on the matching fields.         *)
(* Rows are records of a key and of what the matching fields hold; the code's     *)
(* === and isEqual are both equality here.                                       *)
(***************************************************************************)
EXTENDS Naturals, Sequences, FiniteSets, SequencesExt

Undefined == [undefined |-> TRUE]   \* what the activity returns after an error

---------------------------------------------------------------------------
(* resolveMentionDataFromMatchingData.  The text is changed while a global     *)
(* regular expression goes on at the position it had reached in the old text.   *)

\* Which of the mentions are replaced: each takes `mention` characters, `gap`
\* follow it, and list i is written with text[i].  at is where mention i starts,
\* from the position at which the search goes on.
Replaced(text, mention, gap) ==
  LET n == Len(text)
      from[i \in 1 .. n + 1] ==   \* <<start of mention i, lastIndex before it, replaced>>
        IF i = 1 THEN [at |-> 0, last |-> 0, done |-> {}]
        ELSE LET p == from[i - 1]
             IN IF p.at >= p.last
                THEN [at |-> p.at + text[i - 1] + gap, last |-> p.at + mention,
                      done |-> p.done \union {i - 1}]
                ELSE [at |-> p.at + mention + gap, last |-> p.last, done |-> p.done]
  IN from[n + 1].done

---------------------------------------------------------------------------
(* twoThreeWayMatchingFunction. *)

\* Mutant of Compare: what an earlier row found is forgotten.
CompareAlone(row, other, found) ==
  IF other.key = row.key
  THEN [exist |-> TRUE, mismatch |-> other.fields # row.fields]
  ELSE found

\* compareLineItems: a row with the same key exists, and may disagree.
Compare(row, other, found) ==
  IF other.key = row.key
  THEN [exist |-> TRUE, mismatch |-> found.mismatch \/ other.fields # row.fields]
  ELSE found

Middle(lists) == IF Len(lists) > 2 THEN lists[2] ELSE << >>

\* What comparing a row of the first list with the second and the last finds.
Found(row, lists) ==
  FoldLeft(LAMBDA found, other : Compare(row, other, found),
           [exist |-> FALSE, mismatch |-> FALSE],
           Middle(lists) \o lists[Len(lists)])

Matched(found) == found.exist /\ ~found.mismatch

TwoThreeWayMatching(lists) ==
  LET rows == lists[1]
      matched == {i \in 1 .. Len(rows) : Matched(Found(rows[i], lists))}
      mismatched == (1 .. Len(rows)) \ matched
  IN [matched |-> matched, mismatched |-> mismatched,
      missing |-> {i \in mismatched : LET f == Found(rows[i], lists)
                                      IN ~f.mismatch /\ ~f.exist}]

\* The activity: an unresolved mention is not JSON, the error is logged and
\* nothing is returned.
Matching(lists, text, mention, gap) ==
  IF Replaced(text, mention, gap) = 1 .. Len(lists)
  THEN TwoThreeWayMatching(lists)
  ELSE Undefined

---------------------------------------------------------------------------
(* What the activity promises, said without its loops. *)

Counterparts(row, lists) ==
  {other \in ToSet(Middle(lists)) \union ToSet(lists[Len(lists)]) : other.key = row.key}

Agrees(result, lists) ==
  LET rows == lists[1] IN
  /\ result.matched = {i \in 1 .. Len(rows) : Counterparts(rows[i], lists) = {rows[i]}}
  /\ result.mismatched = (1 .. Len(rows)) \ result.matched
  /\ result.missing = {i \in 1 .. Len(rows) : Counterparts(rows[i], lists) = {}}

\* No mention is passed over: a list and what follows it are never shorter than
\* the mention they replace.
Roomy(text, mention, gap) == \A i \in 1 .. Len(text) - 1 : text[i] + gap >= mention
=============================================================================
