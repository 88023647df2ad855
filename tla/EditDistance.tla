---------------------------- MODULE EditDistance ----------------------------
(***************************************************************************)
(* suggest.go: the candidate of an enum closest to a rejected string, by   *)
(* case-insensitive edit distance kept in one rolling row.  A string is a  *)
(* sequence of letters; the loops are functions of how far they have come. *)
(***************************************************************************)
EXTENDS Integers, Sequences

CONSTANT Lower(_)   \* unicode.ToLower

MaxSuggestionDistance == 2

Least(a, b) == IF a <= b THEN a ELSE b
SameLetter(x, y) == x = y \/ Lower(x) = Lower(y)
Cost(x, y) == IF SameLetter(x, y) THEN 0 ELSE 1

\* A row that forgets the entry it overwrote.
SlipPasses(row, i, letter, b) ==
  LET pass[j \in 0 .. Len(b)] ==
        IF j = 0 THEN [row |-> [row EXCEPT ![0] = i], diag |-> i]
        ELSE LET done == pass[j - 1].row
                 cur == Least(done[j] + 1, Least(done[j - 1] + 1, done[j - 1] + Cost(letter, b[j])))
             IN  [row |-> [done EXCEPT ![j] = cur], diag |-> cur]
  IN  pass

\* One row of levenshteinFold, after so many columns: prev, and in diag the
\* entry of the row above that the pass has just overwritten.
Passes(row, i, letter, b) ==
  LET pass[j \in 0 .. Len(b)] ==
        IF j = 0 THEN [row |-> [row EXCEPT ![0] = i], diag |-> row[0]]
        ELSE LET done == pass[j - 1]
                 cur == Least(done.row[j] + 1,
                              Least(done.row[j - 1] + 1, done.diag + Cost(letter, b[j])))
             IN  [row |-> [done.row EXCEPT ![j] = cur], diag |-> done.row[j]]
  IN  pass

NextRow(row, i, letter, b) == Passes(row, i, letter, b)[Len(b)].row

\* prev after so many letters of a.
Rows(a, b) ==
  LET rows[i \in 0 .. Len(a)] ==
        IF i = 0 THEN [j \in 0 .. Len(b) |-> j] ELSE NextRow(rows[i - 1], i, a[i], b)
  IN  rows

levenshteinFold(a, b) ==
  IF a = << >> THEN Len(b) ELSE IF b = << >> THEN Len(a) ELSE Rows(a, b)[Len(a)][Len(b)]

\* best and bestDist after so many candidates.
Nearest(value, candidates) ==
  LET near[k \in 0 .. Len(candidates)] ==
        IF k = 0 THEN [best |-> << >>, dist |-> MaxSuggestionDistance + 1]
        ELSE LET d == levenshteinFold(value, candidates[k])
             IN  IF d < near[k - 1].dist THEN [best |-> candidates[k], dist |-> d] ELSE near[k - 1]
  IN  near

\* The first of the nearest candidates, unless it is too far to be a guess.
suggestClosest(value, candidates) ==
  LET near == Nearest(value, candidates)[Len(candidates)]
  IN  IF value = << >> \/ near.dist > MaxSuggestionDistance \/ near.dist >= Len(value)
      THEN << >>
      ELSE near.best

----------------------------------------------------------------------------
\* The textbook distance, by recursion on the lengths of the prefixes.
Distances(a, b) ==
  LET D[p \in (0 .. Len(a)) \X (0 .. Len(b))] ==
        LET i == p[1]
            j == p[2]
        IN  IF i = 0 THEN j ELSE IF j = 0 THEN i
            ELSE Least(D[<<i - 1, j - 1>>] + Cost(a[i], b[j]),
                       Least(D[<<i - 1, j>>] + 1, D[<<i, j - 1>>] + 1))
  IN  D

Distance(a, b) == Distances(a, b)[<<Len(a), Len(b)>>]

\* Near enough for a guess: at most two edits, fewer than the string has
\* letters.
IsNear(s, candidate) ==
  Distance(s, candidate) <= MaxSuggestionDistance /\ Distance(s, candidate) < Len(s)

\* The first of those nearest to s among the candidates that are near, or none.
NearestTo(s, candidates) ==
  LET d(i) == Distance(s, candidates[i])
      near == {i \in DOMAIN candidates : IsNear(s, candidates[i])}
      best == CHOOSE i \in near : \A j \in near : d(i) < d(j) \/ (d(i) = d(j) /\ i <= j)
  IN  IF near = {} THEN << >> ELSE candidates[best]
=============================================================================
