---------------------------- MODULE TextDistance ----------------------------
(***************************************************************************)
(* How app/detections.py compares two names: what a name looks like once   *)
(* letters that look alike are folded together, and the bounded edit       *)
(* distance between two of those, computed row by row and given up early.  *)
(* Names are sequences of letters.                                         *)
(***************************************************************************)
EXTENDS Integers, Sequences, FiniteSetsExt

CONSTANTS
  Letters,
  Fold,       \* the letter each is taken for, or Dropped
  Dropped     \* what is neither a letter nor a digit

\* What the constants have to be.
TextConstantsOK == Fold \in [Letters -> Letters \cup {Dropped}] /\ Dropped \notin Letters

\* skeleton: NFKC, confusables, case and leetspeak, each letter for itself.
Skeleton(text) ==
  LET folded == [i \in DOMAIN text |-> Fold[text[i]]]
  IN SelectSeq(folded, LAMBDA c : c # Dropped)

Least(x, y) == IF x < y THEN x ELSE y

\* A row of the table from the row above it, for one letter of a.
NextRow(above, letter, i, b) ==
  LET cell[j \in 0..Len(b)] ==
        IF j = 0 THEN i
        ELSE Least(Least(above[j] + 1, cell[j - 1] + 1),
                   above[j - 1] + IF letter = b[j] THEN 0 ELSE 1)
  IN cell

Rows(a, b) ==
  LET row[i \in 0..Len(a)] ==
        IF i = 0 THEN [j \in 0..Len(b) |-> j] ELSE NextRow(row[i - 1], a[i], i, b)
  IN row

RowBest(row) == Min({row[j] : j \in DOMAIN row})

\* Faulty: a row that has reached the cap is given up, one too early.
HopelessAtCap(a, b, cap) ==
  \E i \in 1..Len(a) : RowBest(Rows(a, b)[i]) >= cap

\* A row whose best is over the cap ends the search.
Hopeless(a, b, cap) ==
  \E i \in 1..Len(a) : RowBest(Rows(a, b)[i]) > cap

\* levenshtein: the distance, or cap + 1 for anything over the cap.
Levenshtein(a, b, cap) ==
  LET difference == Len(a) - Len(b) IN
  IF a = b THEN 0
  ELSE IF difference > cap \/ -difference > cap THEN cap + 1
  ELSE IF a = <<>> THEN Len(b)
  ELSE IF b = <<>> THEN Len(a)
  ELSE IF Hopeless(a, b, cap) THEN cap + 1
  ELSE Rows(a, b)[Len(a)][Len(b)]

(***************************************************************************)
(* The reference: the cheapest way to pair letters off in order, where a   *)
(* letter left alone costs one, and a pair of different letters one.       *)
(***************************************************************************)

Places(a, b) == (DOMAIN a) \X (DOMAIN b)

Pairings(a, b) ==
  {s \in SUBSET Places(a, b) :
     \A p, q \in s : p # q => (p[1] < q[1] /\ p[2] < q[2]) \/ (q[1] < p[1] /\ q[2] < p[2])}

Cost(a, b, s) ==
  LET same == {p \in s : a[p[1]] = b[p[2]]}
  IN Len(a) + Len(b) - Cardinality(s) - Cardinality(same)

EditDistance(a, b) == Min({Cost(a, b, s) : s \in Pairings(a, b)})
=============================================================================
