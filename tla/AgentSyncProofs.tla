--------------------------- MODULE AgentSyncProofs ---------------------------
(***************************************************************************)
(* Proofs about AgentSync, for any rows, modules, chunks and bounds.       *)
(***************************************************************************)
EXTENDS AgentSync, FiniteSetTheorems, WellFoundedInduction, TLAPS

-----------------------------------------------------------------------------
(* Offsets: the place of a row among the rows a query selects.             *)

LEMMA RowsFinite ==
  ASSUME NEW S \in SUBSET Row
  PROVE  IsFiniteSet(S) /\ Cardinality(S) \in 0 .. RowCount
<1>1. IsFiniteSet(Row) /\ Cardinality(Row) = RowCount
  BY FS_Interval, AgentAssumption DEF Row
<1>2. IsFiniteSet(S) /\ Cardinality(S) <= Cardinality(Row)
  BY <1>1, FS_Subset
<1> QED BY <1>1, <1>2, FS_CardinalityType, AgentAssumption

LEMMA RankIs ==
  ASSUME NEW S \in SUBSET Row, NEW r \in Row
  PROVE  Rank(S, r) \in Nat /\ Rank(S, r) <= Cardinality(S)
<1>1. IsFiniteSet(S) /\ {q \in S : q < r} \in SUBSET S /\ {q \in S : q < r} \in SUBSET Row
  BY RowsFinite
<1>2. Cardinality({q \in S : q < r}) <= Cardinality(S) /\ Cardinality({q \in S : q < r}) \in Nat
  BY <1>1, FS_Subset, RowsFinite
<1> QED BY <1>2 DEF Rank

\* A row is before the ones behind it, and has a place in the set.
LEMMA RankGrows ==
  ASSUME NEW S \in SUBSET Row, NEW p \in S, NEW r \in Row, p < r
  PROVE  Rank(S, p) < Rank(S, r)
<1> DEFINE A == {q \in S : q < p}
           B == {q \in S : q < r}
<1>1. /\ A \cup {p} \in SUBSET B /\ p \notin A
      /\ B \in SUBSET Row /\ A \in SUBSET Row
  <2>1. \A q \in S : q \in Int
    BY DEF Row
  <2>2. ~(p < p) /\ \A q \in S : q < p => q < r
    BY <2>1 DEF Row
  <2> QED BY <2>2
<1>2. Cardinality(A \cup {p}) = Cardinality(A) + 1
  BY <1>1, RowsFinite, FS_AddElement
<1>3. Cardinality(A \cup {p}) <= Cardinality(B)
  BY <1>1, RowsFinite, FS_Subset
<1>4. Cardinality(A) \in Nat /\ Cardinality(B) \in Nat
  BY <1>1, RowsFinite
<1> QED BY <1>2, <1>3, <1>4 DEF Rank

LEMMA RankInside ==
  ASSUME NEW S \in SUBSET Row, NEW r \in S
  PROVE  Rank(S, r) < Cardinality(S)
<1> DEFINE A == {q \in S : q < r}
<1>1. A \cup {r} \in SUBSET S /\ r \notin A /\ A \in SUBSET Row
  <2>1. ~(r < r)
    BY DEF Row
  <2> QED BY <2>1
<1>2. Cardinality(A \cup {r}) = Cardinality(A) + 1
  BY <1>1, RowsFinite, FS_AddElement
<1>3. Cardinality(A \cup {r}) <= Cardinality(S)
  BY <1>1, RowsFinite, FS_Subset
<1> QED BY <1>1, <1>2, <1>3, RowsFinite DEF Rank

\* The first row of a set, and the last one.
LEMMA Smallest ==
  ASSUME NEW T \in SUBSET Nat, T # {}
  PROVE  \E n \in T : \A m \in T : n <= m
<1> DEFINE R == OpToRel(<, Nat)
<1>1. \E n \in T : \A m \in T : <<m, n>> \notin R
  BY NatLessThanWellFounded, WFMin, Zenon
<1>2. \A m, n \in Nat : <<m, n>> \notin R => n <= m
  BY DEF OpToRel
<1> HIDE DEF R
<1> QED BY <1>1, <1>2

LEMMA FirstRow ==
  ASSUME NEW S \in SUBSET Row, S # {}
  PROVE  \E r \in S : \A q \in S : r <= q
<1>1. S \in SUBSET Nat
  BY AgentAssumption DEF Row
<1> QED BY <1>1, Smallest

LEMMA LastRow ==
  ASSUME NEW S \in SUBSET Row, S # {}
  PROVE  \E r \in S : \A q \in S : q <= r
<1> DEFINE T == {RowCount - q : q \in S}
<1>1. T \in SUBSET Nat /\ T # {}
  <2>1. \A q \in S : RowCount - q \in Nat
    BY AgentAssumption DEF Row
  <2> QED BY <2>1
<1>2. PICK n \in T : \A m \in T : n <= m
  BY <1>1, Smallest
<1>3. PICK r \in S : n = RowCount - r
  OBVIOUS
<1>4. ASSUME NEW q \in S PROVE q <= r
  <2>1. RowCount - q \in T
    OBVIOUS
  <2>2. q \in Int /\ r \in Int /\ RowCount \in Int
    BY AgentAssumption DEF Row
  <2>3. RowCount - r <= RowCount - q
    BY <1>2, <1>3, <2>1
  <2> QED BY <2>2, <2>3
<1> QED BY <1>4

\* There is no gap: the first row at or behind a place that is not beyond the set has that place.
LEMMA NoGap ==
  ASSUME NEW S \in SUBSET Row, NEW n \in Nat, NEW s \in S, Rank(S, s) >= n
  PROVE  \E r \in S : Rank(S, r) = n
<1> DEFINE T == {r \in S : Rank(S, r) >= n}
<1>1. T \in SUBSET Row /\ T # {}
  OBVIOUS
<1>2. PICK r \in T : \A q \in T : r <= q
  BY <1>1, FirstRow
<1> DEFINE A == {q \in S : q < r}
<1>3. CASE A = {}
  <2>1. Rank(S, r) = 0
    BY <1>3, FS_EmptySet DEF Rank
  <2> QED BY <1>2, <2>1
<1>4. CASE A # {}
  <2>1. A \in SUBSET Row
    OBVIOUS
  <2>2. PICK p \in A : \A q \in A : q <= p
    BY <1>4, <2>1, LastRow
  <2>3. A = {q \in S : q < p} \cup {p} /\ p \notin {q \in S : q < p}
    <3>1. \A q \in S : q \in Int
      BY DEF Row
    <3>2. p \in S /\ p < r /\ ~(p < p) /\ \A q \in S : (q < r <=> q < p \/ q = p)
      BY <2>2, <3>1
    <3> QED BY <3>2
  <2>4. {q \in S : q < p} \in SUBSET Row
    OBVIOUS
  <2>5. Cardinality(A) = Cardinality({q \in S : q < p}) + 1
    BY <2>3, <2>4, RowsFinite, FS_AddElement
  <2>6. Rank(S, r) = Rank(S, p) + 1
    BY <2>5 DEF Rank
  <2>7. p \notin T /\ p \in S /\ p \in Row
    BY <1>2, <2>2 DEF Row
  <2>8. Rank(S, p) < n /\ Rank(S, r) >= n
    BY <1>2, <2>7, RankIs
  <2> QED BY <1>2, <2>6, <2>7, <2>8, RankIs
<1> QED BY <1>3, <1>4

\* When a row leaves, those behind it move up by one place.
LEMMA Shifted ==
  ASSUME NEW S \in SUBSET Row, NEW x \in S, NEW r \in S, r # x, NEW n \in Nat, Rank(S \ {x}, r) < n
  PROVE  Rank(S, r) < n \/ (Rank(S, x) < n /\ Rank(S, r) = n)
<1>0. r \in Int /\ x \in Int /\ r \in Row /\ x \in Row /\ S \ {x} \in SUBSET Row
  BY DEF Row
<1> DEFINE A == {q \in S : q < r}
           B == {q \in S \ {x} : q < r}
<1>1. CASE r < x
  <2>1. A = B
    <3>1. ~(x < r)
      BY <1>0, <1>1
    <3> QED BY <3>1
  <2> QED BY <2>1 DEF Rank
<1>2. CASE x < r
  <2>1. B = A \ {x} /\ x \in A /\ A \in SUBSET Row
    BY <1>2
  <2> HIDE DEF A, B
  <2>2. Cardinality(B) = Cardinality(A) - 1 /\ Cardinality(A) \in Nat
    <3>1. IsFiniteSet(A) /\ Cardinality(A) \in Nat
      BY <2>1, RowsFinite
    <3>2. Cardinality(A \ {x}) = Cardinality(A) - 1
      BY <2>1, <3>1, FS_RemoveElement
    <3> QED BY <2>1, <3>1, <3>2
  <2>3. Rank(S, r) \in Nat /\ Rank(S, x) \in Nat /\ Rank(S, x) < Rank(S, r)
    BY <1>0, <1>2, RankIs, RankGrows
  <2>4. Rank(S, r) <= n
    BY <2>2 DEF Rank, A, B
  <2> QED BY <2>3, <2>4
<1> QED BY <1>0, <1>1, <1>2

\* A page has as many rows as it asks for at most, and none beyond the set.
LEMMA PageFits ==
  ASSUME NEW S \in SUBSET Row, NEW o \in Nat, NEW size \in Nat, PageOf(S, o, size) # {}
  PROVE  /\ Cardinality(PageOf(S, o, size)) <= size
         /\ o + Cardinality(PageOf(S, o, size)) <= Cardinality(S)
<1> DEFINE P == PageOf(S, o, size)
<1>1. P \in SUBSET Row /\ \A r \in P : r \in S /\ o <= Rank(S, r) /\ Rank(S, r) < o + size
  BY DEF PageOf
<1>2. PICK f \in P : \A q \in P : f <= q
  BY <1>1, FirstRow
<1>3. PICK p \in P : \A q \in P : q <= p
  BY <1>1, LastRow
<1> HIDE DEF P
<1> DEFINE A == {q \in S : q < f}
           B == P \ {p}
           C == {q \in S : q < p}
<1>4. A \in SUBSET Row /\ B \in SUBSET Row /\ C \in SUBSET Row /\ \A q \in P \cup S : q \in Int
  <2>1. \A q \in Row : q \in Int
    BY DEF Row
  <2>2. P \in SUBSET Row
    BY <1>1
  <2> QED BY <2>1, <2>2
<1>5. A \cap B = {} /\ (A \cup B) \in SUBSET C
  <2>1. \A q \in A : q < f /\ q < p /\ q \notin P /\ q \in S
    BY <1>1, <1>2, <1>4
  <2>2. \A q \in B : q < p /\ q \in S
    BY <1>1, <1>3, <1>4
  <2> QED BY <2>1, <2>2
<1>6. Cardinality(A \cup B) = Cardinality(A) + Cardinality(B)
  <2>1. Cardinality(A \cup B) = Cardinality(A) + Cardinality(B) - Cardinality(A \cap B)
    BY <1>4, RowsFinite, FS_Union
  <2>2. Cardinality(A \cap B) = 0
    BY <1>5, FS_EmptySet
  <2> QED BY <1>4, <2>1, <2>2, RowsFinite
<1>7. Cardinality(A \cup B) <= Cardinality(C)
  BY <1>4, <1>5, RowsFinite, FS_Subset
<1>8. Cardinality(B) = Cardinality(P) - 1 /\ Cardinality(P) \in Nat
  BY <1>1, RowsFinite, FS_RemoveElement
<1>9. Cardinality(A) = Rank(S, f) /\ Cardinality(C) = Rank(S, p)
  BY DEF Rank
<1>10. o + Cardinality(P) - 1 <= Rank(S, p)
  <2>1. Rank(S, f) \in Nat /\ Rank(S, f) >= o /\ Rank(S, p) \in Nat
    BY <1>1, RankIs
  <2> QED BY <1>6, <1>7, <1>8, <1>9, <2>1
<1>11. Rank(S, p) < o + size /\ Rank(S, p) < Cardinality(S) /\ Rank(S, p) \in Nat /\ Cardinality(S) \in Nat
  BY <1>1, RankIs, RankInside, RowsFinite
<1>12. Cardinality(P) <= size /\ o + Cardinality(P) <= Cardinality(S)
  BY <1>8, <1>10, <1>11
<1> QED BY <1>12 DEF P

\* An empty page is behind all rows.
LEMMA PageEmpty ==
  ASSUME NEW S \in SUBSET Row, NEW o \in Nat, NEW size \in Nat \ {0}, PageOf(S, o, size) = {}, NEW r \in S
  PROVE  Rank(S, r) < o
<1>1. SUFFICES ASSUME ~(Rank(S, r) < o) PROVE FALSE
  OBVIOUS
<1>2. Rank(S, r) \in Nat
  BY RankIs
<1>3. PICK q \in S : Rank(S, q) = o
  BY <1>1, <1>2, NoGap
<1>4. q \in PageOf(S, o, size)
  BY <1>3 DEF PageOf
<1> QED BY <1>4

-----------------------------------------------------------------------------
(* What a query has passed, as facts about times: time[r] is when row r    *)
(* changed last, and good holds the rows with nothing left to do.          *)

\* Window, with the module as an argument.
Selected(m, time, last, end) ==
  IF m \in Windowed
  THEN {r \in Row : (IF last <= Lookback[m] THEN 0 ELSE last - Lookback[m]) <= time[r] /\ time[r] < end}
  ELSE Row

\* All changes before t are done.
Settled(time, good, t) == \A r \in Row : time[r] < t => r \in good

\* The first n rows of a window are done; where the module is read whole, rows changed since the
\* window ended are left to the next run.
Passed(m, time, good, last, end, n) ==
  LET S == Selected(m, time, last, end)
  IN \A r \in S : Rank(S, r) < n => time[r] >= end \/ r \in good

LEMMA WindowIs ==
  ASSUME NEW time, NEW last, NEW end
  PROVE  Window(time, last, end) = Selected(module, time, last, end)
BY DEF Window, WindowStart, Selected

LEMMA SelectedRows ==
  ASSUME NEW m, NEW time, NEW last, NEW end
  PROVE  Selected(m, time, last, end) \in SUBSET Row
BY DEF Selected

LEMMA SettledGrows ==
  ASSUME NEW time, NEW good, NEW more, good \subseteq more, NEW t, Settled(time, good, t)
  PROVE  Settled(time, more, t)
BY DEF Settled

LEMMA PassedGrows ==
  ASSUME NEW m, NEW time, NEW good, NEW more, good \subseteq more, NEW last, NEW end, NEW n,
         Passed(m, time, good, last, end, n)
  PROVE  Passed(m, time, more, last, end, n)
BY DEF Passed

LEMMA PassedNone ==
  ASSUME NEW m, NEW time, NEW good, NEW last, NEW end
  PROVE  Passed(m, time, good, last, end, 0)
<1> DEFINE S == Selected(m, time, last, end)
<1>1. \A r \in S : r \in Row /\ Rank(S, r) \in Nat
  BY SelectedRows, RankIs
<1>2. \A r \in S : ~(Rank(S, r) < 0)
  BY <1>1
<1> QED BY <1>2 DEF Passed

\* What is settled up to the end of a window is passed at every place of it.
LEMMA SettledPassed ==
  ASSUME NEW m, NEW time \in [Row -> Time], NEW good, NEW last, NEW end \in Time, NEW t \in Time, NEW n,
         Settled(time, good, t), end <= t
  PROVE  Passed(m, time, good, last, end, n)
<1>1. \A r \in Row : time[r] \in Nat /\ t \in Nat /\ end \in Nat
  BY AgentAssumption DEF Time
<1>2. \A r \in Row : time[r] >= end \/ r \in good
  BY <1>1 DEF Settled
<1> QED BY <1>2, SelectedRows DEF Passed

\* What is settled up to the watermark, and passed to the last row behind it, is settled up to
\* the end of the window: the look-back only starts earlier.
LEMMA AllPassed ==
  ASSUME NEW m \in Module, NEW time \in [Row -> Time], NEW good, NEW last \in Time, NEW end \in Time, NEW n,
         Settled(time, good, last), Passed(m, time, good, last, end, n),
         \A r \in Selected(m, time, last, end) : Rank(Selected(m, time, last, end), r) < n
  PROVE  Settled(time, good, end)
<1>1. /\ last \in Nat /\ end \in Nat /\ Lookback[m] \in Nat
      /\ \A r \in Row : time[r] \in Nat
  BY AgentAssumption DEF Time
<1>2. ASSUME NEW r \in Row, time[r] < end PROVE r \in good
  <2>1. CASE r \in Selected(m, time, last, end)
    BY <1>1, <1>2, <2>1 DEF Passed
  <2>2. CASE r \notin Selected(m, time, last, end)
    <3>1. time[r] < last
      BY <1>1, <1>2, <2>2 DEF Selected
    <3> QED BY <3>1 DEF Settled
  <2> QED BY <2>1, <2>2
<1> QED BY <1>2 DEF Settled

\* A page is done: the rows behind it.
LEMMA PagePassed ==
  ASSUME NEW m, NEW time, NEW good, NEW more, NEW last, NEW end, NEW o \in Nat, NEW size \in Nat, NEW P,
         P = PageOf(Selected(m, time, last, end), o, size), P # {},
         Passed(m, time, good, last, end, o), good \subseteq more, P \subseteq more
  PROVE  Passed(m, time, more, last, end, o + Cardinality(P))
<1> DEFINE S == Selected(m, time, last, end)
<1>1. S \in SUBSET Row
  BY SelectedRows
<1>2. P = PageOf(S, o, size)
  OBVIOUS
<1>3. ASSUME NEW r \in S, Rank(S, r) < o + Cardinality(P) PROVE time[r] >= end \/ r \in more
  <2>1. Rank(S, r) < o => time[r] >= end \/ r \in good
    BY DEF Passed
  <2> HIDE DEF S
  <2>2. Cardinality(P) <= size /\ Cardinality(P) \in Nat /\ Rank(S, r) \in Nat
    <3>1. P \in SUBSET Row
      BY <1>1, <1>2 DEF PageOf
    <3> QED BY <3>1, <1>1, <1>2, PageFits, RowsFinite, RankIs
  <2>3. Rank(S, r) >= o => r \in P
    BY <1>2, <1>3, <2>2 DEF PageOf
  <2> QED BY <2>1, <2>2, <2>3
<1> QED BY <1>3 DEF Passed

-----------------------------------------------------------------------------
(* JTL changes a row.                                                      *)

\* No time before the change is concerned.
LEMMA SettledEdit ==
  ASSUME NEW time \in [Row -> Time], NEW good, NEW more, NEW t \in Time, NEW x \in Row, NEW at \in Time,
         Settled(time, good, t), t <= at, \A r \in Row \ {x} : r \in good => r \in more
  PROVE  Settled([time EXCEPT ![x] = at], more, t)
<1>1. ~(at < t)
  BY AgentAssumption DEF Time
<1>2. \A r \in Row \ {x} : [time EXCEPT ![x] = at][r] = time[r]
  OBVIOUS
<1>3. [time EXCEPT ![x] = at][x] = at
  OBVIOUS
<1> QED BY <1>1, <1>2, <1>3 DEF Settled

\* The row leaves the windows that have ended.
LEMMA SelectedEdit ==
  ASSUME NEW m, NEW time \in [Row -> Time], NEW last, NEW end \in Time, NEW x \in Row, NEW at \in Time,
         end <= at
  PROVE  Selected(m, [time EXCEPT ![x] = at], last, end) =
           IF m \in Windowed THEN Selected(m, time, last, end) \ {x} ELSE Row
<1>1. ~(at < end)
  BY AgentAssumption DEF Time
<1>2. [time EXCEPT ![x] = at][x] = at /\ \A r \in Row \ {x} : [time EXCEPT ![x] = at][r] = time[r]
  OBVIOUS
<1> QED BY <1>1, <1>2 DEF Selected

\* The next row slips under the place, when the row was before it.
LEMMA PassedEdit ==
  ASSUME NEW m, NEW time \in [Row -> Time], NEW good, NEW more, NEW last, NEW end \in Time, NEW n \in Nat,
         NEW x \in Row, NEW at \in Time,
         Passed(m, time, good, last, end, n), end <= at, \A r \in Row \ {x} : r \in good => r \in more,
         m \in Windowed /\ x \in Selected(m, time, last, end) /\ Rank(Selected(m, time, last, end), x) < n
           => NextRow(Selected(m, time, last, end), n) \subseteq more
  PROVE  Passed(m, [time EXCEPT ![x] = at], more, last, end, n)
<1> DEFINE S == Selected(m, time, last, end)
           T == Selected(m, [time EXCEPT ![x] = at], last, end)
<1>1. S \in SUBSET Row /\ T = IF m \in Windowed THEN S \ {x} ELSE Row
  BY SelectedRows, SelectedEdit
<1>2. m \notin Windowed => S = Row
  BY DEF Selected
<1>3. \A r \in S : Rank(S, r) < n => time[r] >= end \/ r \in good
  BY DEF Passed
<1>4. [time EXCEPT ![x] = at][x] = at /\ \A r \in Row \ {x} : [time EXCEPT ![x] = at][r] = time[r]
  OBVIOUS
<1>5. at >= end
  BY AgentAssumption DEF Time
<1>6. SUFFICES \A r \in T : Rank(T, r) < n => [time EXCEPT ![x] = at][r] >= end \/ r \in more
  BY DEF Passed
<1>7. m \in Windowed /\ x \in S /\ Rank(S, x) < n => NextRow(S, n) \subseteq more
  OBVIOUS
<1> HIDE DEF S, T
<1>8. ASSUME NEW r \in T, Rank(T, r) < n PROVE [time EXCEPT ![x] = at][r] >= end \/ r \in more
  <2>1. r = x => [time EXCEPT ![x] = at][r] >= end
    BY <1>4, <1>5
  <2>2. r # x /\ r \in S /\ Rank(S, r) < n => [time EXCEPT ![x] = at][r] >= end \/ r \in more
    BY <1>1, <1>3, <1>4
  <2>3. r # x => r \in S
    BY <1>1, <1>2
  <2>4. ASSUME r # x, m \in Windowed, x \in S PROVE Rank(S, r) < n \/ r \in more
    <3>1. Rank(S, r) < n \/ (Rank(S, x) < n /\ Rank(S, r) = n)
      BY <1>1, <1>8, <2>3, <2>4, Shifted
    <3> QED BY <1>7, <2>3, <2>4, <3>1 DEF NextRow
  <2>5. m \notin Windowed \/ x \notin S => T = S
    BY <1>1, <1>2
  <2> QED BY <1>8, <2>1, <2>2, <2>3, <2>4, <2>5
<1> QED BY <1>8

LEMMA CountEdit ==
  ASSUME NEW m, NEW time \in [Row -> Time], NEW last, NEW end \in Time, NEW x \in Row, NEW at \in Time,
         end <= at
  PROVE  Cardinality(Selected(m, [time EXCEPT ![x] = at], last, end)) <= Cardinality(Selected(m, time, last, end))
<1>1. Selected(m, time, last, end) \in SUBSET Row
  BY SelectedRows
<1>2. Selected(m, [time EXCEPT ![x] = at], last, end) \subseteq Selected(m, time, last, end)
  <2>1. Selected(m, [time EXCEPT ![x] = at], last, end) =
          IF m \in Windowed THEN Selected(m, time, last, end) \ {x} ELSE Row
    BY SelectedEdit
  <2>2. m \notin Windowed => Selected(m, time, last, end) = Row
    BY DEF Selected
  <2> QED BY <2>1, <2>2
<1> QED BY <1>1, <1>2, RowsFinite, FS_Subset

-----------------------------------------------------------------------------
(* The invariant.                                                          *)

\* Rows with nothing left to do, or left behind by a known defect.
Good == {r \in Row : Reached(r)} \cup excused

\* The rows of the page that is sent, as far as they are up to date.
InHand == {r \in DOMAIN run.page : run.page[r] = mtime[r]}
Behind == run.offset + Cardinality(DOMAIN run.page)

\* What the watermark file says of the past is so: up to the watermark, and up to the checkpoint.
FileInv ==
  /\ file.last <= now /\ file.end <= now
  /\ Settled(mtime, Good, file.last)
  /\ Passed(module, mtime, Good, file.last, file.end, file.offset)

\* A run goes on where what was settled and what it has passed meet.
Active  == run.pc \notin {"off", "idle"}
Started == Active => /\ run.last <= now /\ run.end <= now /\ file.end <= run.end
                     /\ Settled(mtime, Good, run.last)
Placed  == run.pc \in {"count", "page", "send"} =>
             Passed(module, mtime, Good, run.last, run.end, run.offset)
Counted == run.pc \in {"page", "send"} =>
             Cardinality(Selected(module, mtime, run.last, run.end)) <= run.total
Sending == run.pc = "send" =>
             /\ Behind <= RowCount
             /\ Passed(module, mtime, Good \cup InHand, run.last, run.end, Behind)
Closing == (run.pc = "end" /\ run.sent) \/ run.pc \in {"clear", "advance"} =>
             Settled(mtime, Good, run.end)

RunInv  == Started /\ Placed /\ Counted /\ Sending /\ Closing
SyncInv == TypeOK /\ FileInv /\ RunInv
-----------------------------------------------------------------------------
(* Types.                                                                  *)

RunRow == [pc : {"off", "idle", "count", "page", "send", "end", "clear", "advance"},
           last : Time, end : Time, total : 0 .. RowCount, offset : 0 .. RowCount,
           size : 1 .. BatchSize, resume : BOOLEAN, sent : BOOLEAN, page : Page]
FileRow == [last : Time, offset : 0 .. RowCount, end : Time, synced : BOOLEAN]
Budget  == [{"edits", "faults", "cancels", "crashes", "fulls", "resets"} -> Nat]

LEMMA Constants ==
  /\ 0 \in Time /\ 0 \in 0 .. RowCount /\ BatchSize \in 1 .. BatchSize /\ Time \subseteq Nat
  /\ NoPage \in Page /\ DOMAIN NoPage = {}
<1>1. 0 \in Time /\ 0 \in 0 .. RowCount /\ BatchSize \in 1 .. BatchSize /\ Time \subseteq Nat
  BY AgentAssumption DEF Time
<1>2. NoPage \in [{} -> Time] /\ DOMAIN NoPage = {}
  BY DEF NoPage
<1> QED BY <1>1, <1>2 DEF Page

LEMMA PageRows == ASSUME NEW p \in Page PROVE DOMAIN p \in SUBSET Row /\ p \in [DOMAIN p -> Time]
BY DEF Page

LEMMA IdleIs == Idle \in RunRow /\ Idle.pc = "idle" /\ [Idle EXCEPT !.pc = "off"] \in RunRow /\ NoFile \in FileRow
BY Constants DEF Idle, RunRow, NoFile, FileRow

LEMMA SpendIs ==
  ASSUME budget \in Budget, NEW what \in {"edits", "faults", "cancels", "crashes", "fulls", "resets"}, Spend(what)
  PROVE  budget' \in Budget
BY DEF Spend, Budget

LEMMA FaultsIs ==
  ASSUME budget \in Budget, NEW n \in Nat, Faults(n)
  PROVE  budget' \in Budget
BY DEF Faults, Budget

LEMMA WrittenIs ==
  ASSUME budget \in Budget, file \in FileRow, NEW data \in FileRow, NEW n \in Nat, Written(data, n)
  PROVE  budget' \in Budget /\ file' \in {data, file} /\ file' \in FileRow
BY FaultsIs DEF Written

LEMMA ClearIs ==
  ASSUME budget \in Budget, file \in FileRow, ClearCheckpoint
  PROVE  /\ budget' \in Budget /\ file' \in FileRow
         /\ file' = file \/ file' = [file EXCEPT !.offset = 0, !.end = 0]
<1>1. [file EXCEPT !.offset = 0, !.end = 0] \in FileRow
  BY Constants DEF FileRow
<1> QED BY <1>1, WrittenIs DEF ClearCheckpoint

LEMMA AcceptIs ==
  ASSUME TypeOK, Accept
  PROVE  /\ accepted' \in [Row -> Time]
         /\ \A r \in Row : accepted[r] <= accepted'[r]
         /\ \A r \in DOMAIN run.page : accepted'[r] >= run.page[r]
<1>1. DOMAIN run.page \in SUBSET Row /\ run.page \in [DOMAIN run.page -> Time]
  BY PageRows DEF TypeOK
<1>2. accepted \in [Row -> Time] /\ Time \subseteq Nat
  BY Constants DEF TypeOK
<1>3. \A r \in Row : accepted'[r] = IF r \in DOMAIN run.page THEN Newer(accepted[r], run.page[r]) ELSE accepted[r]
  BY DEF Accept
<1>4. ASSUME NEW r \in DOMAIN run.page
      PROVE  accepted'[r] \in Time /\ accepted[r] <= accepted'[r] /\ accepted'[r] >= run.page[r]
  <2>1. r \in Row
    BY <1>1
  <2>2. accepted[r] \in Time /\ run.page[r] \in Time /\ accepted[r] \in Nat /\ run.page[r] \in Nat
    BY <1>1, <1>2, <2>1
  <2>3. accepted'[r] = Newer(accepted[r], run.page[r])
    BY <1>3, <2>1
  <2> QED BY <2>2, <2>3 DEF Newer
<1>5. ASSUME NEW r \in Row \ DOMAIN run.page PROVE accepted'[r] \in Time /\ accepted[r] <= accepted'[r]
  <2>1. accepted'[r] = accepted[r] /\ accepted[r] \in Time /\ accepted[r] \in Nat
    BY <1>2, <1>3
  <2> QED BY <2>1
<1>6. \A r \in Row : accepted'[r] \in Time
  BY <1>4, <1>5
<1>7. accepted' \in [Row -> Time]
  BY <1>6 DEF Accept
<1>8. \A r \in Row : accepted[r] <= accepted'[r]
  BY <1>4, <1>5
<1> QED BY <1>4, <1>7, <1>8

LEMMA Typed ==
  TypeOK <=>
    /\ module \in Module /\ now \in Time /\ mtime \in [Row -> Time] /\ accepted \in [Row -> Time]
    /\ file \in FileRow /\ run \in RunRow /\ (run.pc = "send" => run.page # NoPage)
    /\ cancelled \in BOOLEAN /\ excused \in SUBSET Row /\ budget \in Budget
BY DEF TypeOK, FileRow, RunRow, Budget

LEMMA RunIs ==
  ASSUME run \in RunRow
  PROVE  /\ run.pc \in {"off", "idle", "count", "page", "send", "end", "clear", "advance"}
         /\ run.last \in Time /\ run.end \in Time /\ run.total \in 0 .. RowCount /\ run.offset \in 0 .. RowCount
         /\ run.size \in 1 .. BatchSize /\ run.page \in Page /\ run.sent \in BOOLEAN /\ run.resume \in BOOLEAN
         /\ run.total \in Nat /\ run.offset \in Nat /\ run.size \in Nat \ {0}
         /\ run.last \in Nat /\ run.end \in Nat
BY AgentAssumption DEF RunRow, Time

LEMMA FileIs ==
  ASSUME file \in FileRow
  PROVE  /\ file.last \in Time /\ file.end \in Time /\ file.offset \in 0 .. RowCount /\ file.synced \in BOOLEAN
         /\ file.last \in Nat /\ file.end \in Nat /\ file.offset \in Nat
BY AgentAssumption DEF FileRow, Time

LEMMA WindowRows ==
  ASSUME NEW time, NEW last, NEW end
  PROVE  Window(time, last, end) \in SUBSET Row
BY WindowIs, SelectedRows

\* What a failing step leaves in the file.
LEMMA StopIs ==
  ASSUME TypeOK, NEW n \in Nat, StopHere(n)
  PROVE  /\ budget' \in Budget /\ file' \in FileRow /\ run' = Idle /\ cancelled' = FALSE
         /\ file' = file \/ file' = [file EXCEPT !.offset = run.offset, !.end = run.end]
         /\ excused' = excused \cup Misplaced(run.offset, run.end) /\ excused' \in SUBSET Row
<1>1. file \in FileRow /\ budget \in Budget /\ run \in RunRow /\ excused \in SUBSET Row
  BY Typed
<1>2. [file EXCEPT !.offset = run.offset, !.end = run.end] \in FileRow
  BY <1>1, RunIs DEF FileRow
<1>3. Written([file EXCEPT !.offset = run.offset, !.end = run.end], n)
  BY DEF StopHere, SaveCheckpoint
<1>4. Misplaced(run.offset, run.end) \in SUBSET Row
  BY WindowRows DEF Misplaced
<1> QED BY <1>1, <1>2, <1>3, <1>4, WrittenIs DEF StopHere, Ends

LEMMA TypeInit == Init => TypeOK
<1> SUFFICES ASSUME Init PROVE TypeOK
  OBVIOUS
<1>1. PICK last \in {0, 1} :
        /\ file = [NoFile EXCEPT !.last = last, !.synced = (last = 1)]
        /\ mtime \in [Row -> {0, 1}]
        /\ accepted = [r \in Row |-> 0]
  BY DEF Init
<1>2. {0, 1, 2} \subseteq Time
  BY AgentAssumption DEF Time
<1>3. file \in FileRow
  BY <1>1, <1>2, Constants DEF NoFile, FileRow
<1>4. mtime \in [Row -> Time] /\ accepted \in [Row -> Time]
  BY <1>1, <1>2
<1>5. budget \in Budget
  BY AgentAssumption DEF Init, Budget
<1> QED BY <1>2, <1>3, <1>4, <1>5, IdleIs, Typed DEF Init

\* The steps keep the types: a page ends within the rows there are.
LEMMA TypeStep ==
  ASSUME TypeOK, run.pc = "send" => Behind \in 0 .. RowCount, Next
  PROVE  TypeOK'
<1>1. /\ module \in Module /\ now \in Time /\ mtime \in [Row -> Time] /\ accepted \in [Row -> Time]
      /\ file \in FileRow /\ run \in RunRow /\ (run.pc = "send" => run.page # NoPage)
      /\ cancelled \in BOOLEAN /\ excused \in SUBSET Row /\ budget \in Budget
  BY Typed
<1>2. Idle \in RunRow /\ Idle.pc = "idle" /\ [Idle EXCEPT !.pc = "off"] \in RunRow /\ NoFile \in FileRow
  BY IdleIs
<1>3. [Idle EXCEPT !.pc = "off"].pc # "send"
  BY DEF Idle
<1> DEFINE Kept == /\ module' \in Module /\ now' \in Time /\ mtime' \in [Row -> Time]
                   /\ cancelled' \in BOOLEAN /\ excused' \in SUBSET Row
           Done == /\ accepted' \in [Row -> Time] /\ file' \in FileRow /\ budget' \in Budget
                   /\ run' \in RunRow /\ (run'.pc = "send" => run'.page # NoPage)
<1>4. Kept /\ Done => TypeOK'
  BY DEF TypeOK, FileRow, RunRow, Budget
<1> HIDE DEF Kept, Done
<1>5. CASE Tick
  <2>1. now' \in Time
    BY <1>1, <1>5, AgentAssumption DEF Tick, Time
  <2> QED BY <1>1, <1>4, <1>5, <2>1 DEF Tick, Kept, Done
<1>6. ASSUME NEW r \in Row, Edit(r) PROVE TypeOK'
  <2>1. excused' \in SUBSET Row
    <3>1. \A last, end, o : Slipping(r, last, end, o) \in SUBSET Row
      BY WindowRows DEF Slipping, NextRow
    <3> QED BY <1>1, <1>6, <3>1 DEF Edit
  <2>2. mtime' \in [Row -> Time] /\ budget' \in Budget
    BY <1>1, <1>6, SpendIs DEF Edit
  <2> QED BY <1>1, <1>4, <1>6, <2>1, <2>2 DEF Edit, Kept, Done
<1>7. ASSUME NEW full \in BOOLEAN, Begin(full) PROVE TypeOK'
  <2>1. budget' \in Budget
    BY <1>1, <1>7, SpendIs DEF Begin
  <2>2. run' \in RunRow /\ run'.pc = "count"
    <3> DEFINE resume == ~full /\ file.offset > 0
               last == IF full /\ module \in Windowed THEN 0 ELSE file.last
               end == IF resume THEN file.end ELSE now
               o == IF resume THEN file.offset ELSE 0
    <3>2. resume \in BOOLEAN /\ last \in Time /\ end \in Time /\ o \in 0 .. RowCount
      BY <1>1, Constants, FileIs
    <3>3. run' = [Idle EXCEPT !.pc = "count", !.last = last, !.resume = resume, !.end = end, !.offset = o]
      BY <1>7 DEF Begin
    <3> HIDE DEF resume, last, end, o
    <3> QED BY <3>2, <3>3, Constants DEF Idle, RunRow
  <2> QED BY <1>1, <1>4, <1>7, <2>1, <2>2 DEF Begin, Kept, Done
<1>8. CASE Count
  <2>1. Cardinality(Window(mtime, run.last, run.end)) \in 0 .. RowCount
    BY WindowRows, RowsFinite
  <2>2. budget' \in Budget /\ file' \in FileRow
    BY <1>1, <1>8, FaultsIs, ClearIs DEF Count
  <2>3. run' \in RunRow /\ run'.pc # "send" /\ cancelled' \in BOOLEAN
    BY <1>1, <1>2, <1>8, <2>1, Constants DEF Count, Ends, RunRow
  <2> QED BY <1>1, <1>4, <1>8, <2>2, <2>3 DEF Count, Kept, Done
<1>9. CASE ReadPage
  <2> DEFINE P == PageOf(Window(mtime, run.last, run.end), run.offset, run.size)
  <2>1. P \in SUBSET Row
    BY WindowRows DEF PageOf
  <2>2. run' = IF P = {} THEN [run EXCEPT !.pc = "end"]
               ELSE [run EXCEPT !.pc = "send", !.page = [r \in P |-> mtime[r]]]
    BY <1>9 DEF ReadPage
  <2> HIDE DEF P
  <2>3. [r \in P |-> mtime[r]] \in Page
    BY <1>1, <2>1 DEF Page
  <2>4. P # {} => [r \in P |-> mtime[r]] # NoPage
    <3>1. DOMAIN [r \in P |-> mtime[r]] = P /\ DOMAIN NoPage = {}
      BY DEF NoPage
    <3> QED BY <3>1
  <2>5. run' \in RunRow /\ (run'.pc = "send" => run'.page # NoPage)
    BY <1>1, <2>2, <2>3, <2>4 DEF RunRow
  <2> QED BY <1>1, <1>4, <1>9, <2>5 DEF ReadPage, Kept, Done
<1>10. CASE PageFails
  <2>1. \E n \in Nat : StopHere(n)
    BY <1>10 DEF PageFails
  <2> QED BY <1>1, <1>2, <1>4, <1>10, <2>1, StopIs DEF PageFails, Kept, Done
<1>11. CASE SendOk
  <2>1. run' \in RunRow /\ run'.pc = "page"
    <3>1. Behind \in 0 .. RowCount
      BY <1>11 DEF SendOk
    <3>2. run' = [run EXCEPT !.pc = "page", !.sent = TRUE, !.page = NoPage, !.offset = Behind]
      BY <1>11 DEF SendOk, Behind
    <3> QED BY <1>1, <3>1, <3>2, Constants DEF RunRow
  <2>2. accepted' \in [Row -> Time]
    BY <1>11, AcceptIs DEF SendOk
  <2> QED BY <1>1, <1>4, <1>11, <2>1, <2>2 DEF SendOk, Kept, Done
<1>12. ASSUME NEW queued \in BOOLEAN, SendFails(queued) PROVE TypeOK'
  <2>1. accepted' \in [Row -> Time]
    BY <1>1, <1>12, AcceptIs DEF SendFails
  <2>2. CASE StopHere(1)
    BY <1>1, <1>2, <1>4, <1>12, <2>1, <2>2, StopIs DEF SendFails, Kept, Done
  <2>3. CASE /\ run.size > MinBatchSize /\ Faults(1)
             /\ run' = [run EXCEPT !.pc = "page", !.page = NoPage, !.size = Newer(MinBatchSize, @ \div 2)]
             /\ UNCHANGED <<file, cancelled, excused>>
    <3>1. Newer(MinBatchSize, run.size \div 2) \in 1 .. BatchSize
      <4>1. run.size \in 1 .. BatchSize /\ BatchSize \in Nat /\ MinBatchSize \in Nat \ {0}
        BY <1>1, RunIs, AgentAssumption
      <4>2. run.size \div 2 \in Nat /\ run.size \div 2 <= run.size
        BY <4>1
      <4> QED BY <2>3, <4>1, <4>2 DEF Newer
    <3>2. run' \in RunRow /\ run'.pc = "page"
      BY <1>1, <2>3, <3>1, Constants DEF RunRow
    <3>3. budget' \in Budget
      BY <1>1, <2>3, FaultsIs
    <3> QED BY <1>1, <1>4, <1>12, <2>1, <2>3, <3>2, <3>3 DEF SendFails, Kept, Done
  <2> QED BY <1>12, <2>2, <2>3 DEF SendFails
<1>13. ASSUME NEW queued \in BOOLEAN, Interrupted(queued) PROVE TypeOK'
  <2>1. accepted' \in [Row -> Time]
    BY <1>1, <1>13, AcceptIs DEF Interrupted
  <2> QED BY <1>1, <1>2, <1>4, <1>13, <2>1 DEF Interrupted, Ends, Kept, Done
<1>14. CASE LoopEnds
  <2>1. run' \in RunRow /\ run'.pc = "end"
    BY <1>1, <1>14 DEF LoopEnds, RunRow
  <2>2. excused' \in SUBSET Row
    <3>1. {r \in Window(mtime, run.last, run.end) : Rank(Window(mtime, run.last, run.end), r) >= run.offset}
            \in SUBSET Row
      BY WindowRows
    <3> QED BY <1>1, <1>14, <3>1 DEF LoopEnds
  <2> QED BY <1>1, <1>4, <1>14, <2>1, <2>2 DEF LoopEnds, Kept, Done
<1>15. CASE Settle
  <2>1. run' \in RunRow /\ run'.pc # "send" /\ cancelled' \in BOOLEAN
    BY <1>1, <1>2, <1>15 DEF Settle, Ends, RunRow
  <2>2. budget' \in Budget /\ file' \in FileRow
    BY <1>1, <1>15, ClearIs DEF Settle
  <2> QED BY <1>1, <1>4, <1>15, <2>1, <2>2 DEF Settle, Kept, Done
<1>16. CASE Clear
  <2>1. run' \in RunRow /\ run'.pc # "send"
    BY <1>1, <1>16 DEF Clear, RunRow
  <2>2. budget' \in Budget /\ file' \in FileRow
    BY <1>1, <1>16, ClearIs DEF Clear
  <2> QED BY <1>1, <1>4, <1>16, <2>1, <2>2 DEF Clear, Kept, Done
<1>17. CASE Advance
  <2>1. [file EXCEPT !.last = run.end, !.synced = @ \/ run.sent] \in FileRow
    BY <1>1, RunIs DEF FileRow
  <2>2. budget' \in Budget /\ file' \in FileRow
    BY <1>1, <1>17, <2>1, WrittenIs DEF Advance, UpdateWatermark
  <2> QED BY <1>1, <1>2, <1>4, <1>17, <2>2 DEF Advance, Ends, Kept, Done
<1>18. CASE CancelRun
  <2>1. budget' \in Budget
    BY <1>1, <1>18, SpendIs DEF CancelRun
  <2> QED BY <1>1, <1>4, <1>18, <2>1 DEF CancelRun, Kept, Done
<1>19. CASE ResetWatermark
  <2>1. budget' \in Budget
    BY <1>1, <1>19, SpendIs DEF ResetWatermark
  <2> QED BY <1>1, <1>2, <1>4, <1>19, <2>1 DEF ResetWatermark, Kept, Done
<1>20. ASSUME NEW queued \in BOOLEAN, Crash(queued) PROVE TypeOK'
  <2>1. budget' \in Budget
    BY <1>1, <1>20, SpendIs DEF Crash
  <2>2. accepted' \in [Row -> Time]
    BY <1>1, <1>20, AcceptIs DEF Crash
  <2>3. file' \in FileRow
    BY <1>1, <1>2, <1>20 DEF Crash
  <2> QED BY <1>1, <1>2, <1>3, <1>4, <1>20, <2>1, <2>2, <2>3 DEF Crash, Kept, Done
<1>21. CASE Boot
  BY <1>1, <1>2, <1>4, <1>21 DEF Boot, Kept, Done
<1> QED
  BY <1>5, <1>6, <1>7, <1>8, <1>9, <1>10, <1>11, <1>12, <1>13, <1>14, <1>15, <1>16, <1>17, <1>18, <1>19,
     <1>20, <1>21 DEF Next, Source, Step

-----------------------------------------------------------------------------
(* What the steps have in common.                                          *)

\* The rows are at rest, and no more is left to do than before.
Calm == UNCHANGED <<module, mtime>> /\ now <= now' /\ Good \subseteq Good'

LEMMA GoodGrows ==
  ASSUME TypeOK, TypeOK', mtime' = mtime, \A r \in Row : accepted[r] <= accepted'[r], excused \subseteq excused'
  PROVE  Good \subseteq Good'
<1>1. \A r \in Row : accepted[r] \in Nat /\ accepted'[r] \in Nat /\ mtime[r] \in Nat
  BY AgentAssumption DEF TypeOK, Time
<1>2. \A r \in Row : accepted[r] >= mtime[r] => accepted'[r] >= mtime'[r]
  BY <1>1
<1> QED BY <1>2 DEF Good, Reached

LEMMA GoodSame ==
  ASSUME UNCHANGED <<mtime, accepted, excused>>
  PROVE  Good' = Good
BY DEF Good, Reached

\* A batch brings the backend up to date with the rows in hand.
LEMMA GoodSent ==
  ASSUME TypeOK, TypeOK', mtime' = mtime, Accept, excused \subseteq excused'
  PROVE  Good \subseteq Good' /\ InHand \subseteq Good'
<1>1. /\ \A r \in Row : accepted[r] <= accepted'[r]
      /\ \A r \in DOMAIN run.page : accepted'[r] >= run.page[r]
  BY AcceptIs
<1>2. DOMAIN run.page \in SUBSET Row
  BY PageRows DEF TypeOK
<1>3. InHand \subseteq Good'
  BY <1>1, <1>2 DEF InHand, Good, Reached
<1> QED BY <1>1, <1>3, GoodGrows

LEMMA FileKept ==
  ASSUME TypeOK, TypeOK', FileInv, Calm, file' = file
  PROVE  FileInv'
<1>1. file.last \in Nat /\ file.end \in Nat /\ now \in Nat /\ now' \in Nat
  BY AgentAssumption DEF TypeOK, Time
<1>2. file.last <= now' /\ file.end <= now'
  BY <1>1 DEF FileInv, Calm
<1>3. Settled(mtime, Good', file.last) /\ Passed(module, mtime, Good', file.last, file.end, file.offset)
  BY SettledGrows, PassedGrows DEF FileInv, Calm
<1> QED BY <1>2, <1>3 DEF FileInv, Calm

\* Without a checkpoint.
LEMMA FileCleared ==
  ASSUME TypeOK, TypeOK', FileInv, Calm, file' = [file EXCEPT !.offset = 0, !.end = 0]
  PROVE  FileInv'
<1>1. file.last \in Nat /\ now \in Nat /\ now' \in Nat
  BY AgentAssumption DEF TypeOK, Time
<1>2. file'.last = file.last /\ file'.end = 0 /\ file'.offset = 0
  BY DEF TypeOK
<1>3. file'.last <= now' /\ file'.end <= now'
  BY <1>1, <1>2 DEF FileInv, Calm
<1>4. Settled(mtime, Good', file.last)
  BY SettledGrows DEF FileInv, Calm
<1>5. Passed(module, mtime, Good', file.last, 0, 0)
  BY PassedNone
<1> QED BY <1>2, <1>3, <1>4, <1>5 DEF FileInv, Calm

\* Without a file.
LEMMA FileGone ==
  ASSUME TypeOK', file' = NoFile
  PROVE  FileInv'
<1>1. now' \in Nat /\ \A r \in Row : mtime'[r] \in Nat
  BY AgentAssumption DEF TypeOK, Time
<1>2. file'.last = 0 /\ file'.end = 0 /\ file'.offset = 0
  BY DEF NoFile
<1>3. Settled(mtime', Good', 0)
  BY <1>1 DEF Settled
<1>4. Passed(module', mtime', Good', 0, 0, 0)
  BY PassedNone
<1> QED BY <1>1, <1>2, <1>3, <1>4 DEF FileInv

LEMMA FileClearedOrKept ==
  ASSUME TypeOK, TypeOK', FileInv, Calm, ClearCheckpoint
  PROVE  FileInv' /\ (file'.end = file.end \/ file'.end = 0)
<1>1. file' = file \/ file' = [file EXCEPT !.offset = 0, !.end = 0]
  BY ClearIs, Typed
<1>2. file' = [file EXCEPT !.offset = 0, !.end = 0] => file'.end = 0
  BY DEF TypeOK
<1> QED BY <1>1, <1>2, FileKept, FileCleared

LEMMA RunOver ==
  ASSUME run'.pc \in {"off", "idle"}
  PROVE  RunInv'
BY DEF RunInv, Started, Active, Placed, Counted, Sending, Closing

LEMMA IdleOver ==
  ASSUME run' = Idle
  PROVE  RunInv'
BY RunOver, IdleIs

\* The window of the run is the same.
LEMMA StillStarted ==
  ASSUME TypeOK, TypeOK', Started, Active, Calm, run'.last = run.last, run'.end = run.end,
         file'.end = file.end \/ file'.end = 0
  PROVE  Started'
<1>1. /\ run.last \in Nat /\ run.end \in Nat /\ now \in Nat /\ now' \in Nat
  BY AgentAssumption DEF TypeOK, Time
<1>2. run.last <= now' /\ run.end <= now' /\ file'.end <= run.end
  BY <1>1 DEF Started, Calm
<1>3. Settled(mtime, Good', run.last)
  BY SettledGrows DEF Started, Calm
<1> QED BY <1>2, <1>3 DEF Started, Calm

LEMMA RunKept ==
  ASSUME TypeOK, TypeOK', RunInv, Calm, run' = run, file'.end = file.end \/ file'.end = 0
  PROVE  RunInv'
<1>1. Started'
  BY StillStarted DEF RunInv, Started, Active
<1>2. Placed'
  BY PassedGrows DEF RunInv, Placed, Calm
<1>3. Counted'
  BY DEF RunInv, Counted, Calm
<1>4. Sending'
  <2>1. InHand' = InHand /\ Behind' = Behind
    BY DEF InHand, Behind, Calm
  <2>2. Good \cup InHand \subseteq Good' \cup InHand
    BY DEF Calm
  <2> QED BY <2>1, <2>2, PassedGrows DEF RunInv, Sending, Calm
<1>5. Closing'
  BY SettledGrows DEF RunInv, Closing, Calm
<1> QED BY <1>1, <1>2, <1>3, <1>4, <1>5 DEF RunInv

\* The checkpoint of a run that stops: its offset is right in the window of the file, or counts
\* the rows of another one, which are then excused.
LEMMA Stopped ==
  ASSUME TypeOK, TypeOK', FileInv, RunInv, run.pc \in {"page", "send"}, Calm, NEW n \in Nat, StopHere(n)
  PROVE  FileInv' /\ RunInv'
<1>1. /\ run' = Idle /\ excused' = excused \cup Misplaced(run.offset, run.end)
      /\ file' = file \/ file' = [file EXCEPT !.offset = run.offset, !.end = run.end]
  BY StopIs
<1>2. CASE file' = [file EXCEPT !.offset = run.offset, !.end = run.end]
  <2>1. file'.last = file.last /\ file'.offset = run.offset /\ file'.end = run.end
    BY <1>2 DEF TypeOK
  <2>2. /\ file.last \in Nat /\ run.end \in Nat /\ now \in Nat /\ now' \in Nat
    BY AgentAssumption DEF TypeOK, Time
  <2>3. file.last <= now' /\ run.end <= now'
    BY <2>2 DEF FileInv, RunInv, Started, Active, Calm
  <2>4. Settled(mtime, Good', file.last)
    BY SettledGrows DEF FileInv, Calm
  <2>5. Passed(module, mtime, Good', file.last, run.end, run.offset)
    <3>1. CASE run.last = file.last
      BY <3>1, PassedGrows DEF RunInv, Placed, Calm
    <3>2. CASE run.last # file.last
      <4>1. Misplaced(run.offset, run.end) \subseteq Good'
        BY <1>1 DEF Good
      <4>2. \A r \in Selected(module, mtime, file.last, run.end) :
              Rank(Selected(module, mtime, file.last, run.end), r) < run.offset => r \in Good'
        BY <3>2, <4>1, WindowIs DEF Misplaced
      <4> QED BY <4>2 DEF Passed
    <3> QED BY <3>1, <3>2
  <2> QED BY <1>1, <2>1, <2>3, <2>4, <2>5, IdleOver DEF FileInv, Calm
<1> QED BY <1>1, <1>2, FileKept, IdleOver

-----------------------------------------------------------------------------
(* Every step keeps the invariant.                                         *)

Kept == FileInv' /\ RunInv'

LEMMA TickStep ==
  ASSUME SyncInv, TypeOK', Tick
  PROVE  Kept
<1>1. now \in Nat /\ Good' = Good
  BY GoodSame, AgentAssumption DEF SyncInv, TypeOK, Time, Tick
<1>2. Calm
  BY <1>1 DEF Calm, Tick
<1> QED BY <1>2, FileKept, RunKept DEF SyncInv, Tick, Kept

\* A row leaves the windows of the file and of the run, and the next one may slip under their places.
LEMMA EditStep ==
  ASSUME SyncInv, TypeOK', NEW x \in Row, Edit(x)
  PROVE  Kept
<1>1. /\ mtime' = [mtime EXCEPT ![x] = now] /\ module' = module /\ now' = now /\ file' = file /\ run' = run
      /\ excused' = excused \cup UNION {Slipping(x, p[1], p[2], p[3]) : p \in Positions}
      /\ accepted' = accepted
  BY DEF Edit
<1>2. mtime \in [Row -> Time] /\ now \in Time /\ file \in FileRow /\ run \in RunRow
  BY Typed DEF SyncInv
<1>3. \A r \in Row \ {x} : r \in Good => r \in Good'
  <2>1. \A r \in Row \ {x} : mtime'[r] = mtime[r]
    BY <1>1, <1>2
  <2>2. excused \subseteq excused'
    BY <1>1
  <2> QED BY <1>1, <2>1, <2>2 DEF Good, Reached
<1>4. \A r \in DOMAIN run.page \ {x} : r \in InHand => r \in InHand'
  <2>1. DOMAIN run.page \in SUBSET Row
    BY <1>2, RunIs, PageRows
  <2>2. \A r \in Row \ {x} : mtime'[r] = mtime[r]
    BY <1>1, <1>2
  <2> QED BY <1>1, <2>1, <2>2 DEF InHand
<1>5. \A p \in Positions : Slipping(x, p[1], p[2], p[3]) \subseteq Good'
  BY <1>1 DEF Good
<1>6. ASSUME NEW last, NEW end, NEW n, <<last, end, n>> \in Positions, end <= now,
             module \in Windowed, x \in Selected(module, mtime, last, end),
             Rank(Selected(module, mtime, last, end), x) < n, end \in Nat
      PROVE  NextRow(Selected(module, mtime, last, end), n) \subseteq Good'
  <2>1. Slipping(x, last, end, n) \subseteq Good'
    BY <1>5, <1>6
  <2>2. now >= end
    BY <1>2, <1>6, AgentAssumption DEF Time
  <2> QED BY <1>6, <2>1, <2>2, WindowIs DEF Slipping
<1>7. FileInv'
  <2>1. file.last \in Time /\ file.end \in Time /\ file.offset \in Nat /\ file.end \in Nat
    BY <1>2, FileIs
  <2>2. file.last <= now /\ file.end <= now
    BY DEF SyncInv, FileInv
  <2>3. Settled(mtime', Good', file.last)
    BY <1>1, <1>2, <1>3, <2>1, <2>2, SettledEdit DEF SyncInv, FileInv
  <2>4. <<file.last, file.end, file.offset>> \in Positions
    BY DEF Positions
  <2>5. Passed(module, mtime', Good', file.last, file.end, file.offset)
    BY <1>1, <1>2, <1>3, <1>6, <2>1, <2>2, <2>4, PassedEdit DEF SyncInv, FileInv
  <2> QED BY <1>1, <2>2, <2>3, <2>5 DEF FileInv
<1>8. CASE run.pc \in {"off", "idle"}
  BY <1>1, <1>7, <1>8, RunOver DEF Kept
<1>9. CASE run.pc \notin {"off", "idle"}
  <2>1. run.last \in Time /\ run.end \in Time /\ run.end \in Nat /\ run.offset \in Nat /\ run.total \in Nat
    BY <1>2, RunIs
  <2>2. run.last <= now /\ run.end <= now
    BY <1>9 DEF SyncInv, RunInv, Started, Active
  <2>3. Started'
    <3>1. Settled(mtime', Good', run.last)
      BY <1>1, <1>2, <1>3, <1>9, <2>1, <2>2, SettledEdit DEF SyncInv, RunInv, Started, Active
    <3> QED BY <1>1, <1>9, <2>2, <3>1 DEF SyncInv, RunInv, Started, Active
  <2>4. Placed'
    <3>1. ASSUME run.pc \in {"count", "page", "send"}
          PROVE  Passed(module, mtime', Good', run.last, run.end, run.offset)
      <4>1. <<run.last, run.end, run.offset>> \in Positions
        BY <3>1 DEF Positions
      <4> QED BY <1>1, <1>2, <1>3, <1>6, <2>1, <2>2, <3>1, <4>1, PassedEdit DEF SyncInv, RunInv, Placed
    <3> QED BY <1>1, <3>1 DEF Placed
  <2>5. Counted'
    <3>1. ASSUME run.pc \in {"page", "send"}
          PROVE  Cardinality(Selected(module, mtime', run.last, run.end)) <= run.total
      <4>1. Cardinality(Selected(module, mtime', run.last, run.end))
              <= Cardinality(Selected(module, mtime, run.last, run.end))
        BY <1>1, <1>2, <2>1, <2>2, CountEdit
      <4>2. Cardinality(Selected(module, mtime, run.last, run.end)) <= run.total
        BY <3>1 DEF SyncInv, RunInv, Counted
      <4>3. /\ Cardinality(Selected(module, mtime', run.last, run.end)) \in Nat
            /\ Cardinality(Selected(module, mtime, run.last, run.end)) \in Nat
        BY SelectedRows, RowsFinite
      <4> QED BY <2>1, <4>1, <4>2, <4>3
    <3> QED BY <1>1, <3>1 DEF Counted
  <2>6. Sending'
    <3>1. ASSUME run.pc = "send"
          PROVE  Passed(module, mtime', Good' \cup InHand', run.last, run.end, Behind)
      <4>1. <<run.last, run.end, Behind>> \in Positions /\ Behind \in Nat
        <5>1. DOMAIN run.page \in SUBSET Row
          BY <1>2, RunIs, PageRows
        <5>2. Cardinality(DOMAIN run.page) \in Nat
          BY <5>1, RowsFinite
        <5> QED BY <2>1, <3>1, <5>2 DEF Positions, Behind
      <4> DEFINE H == Good \cup InHand
                 K == Good' \cup InHand'
      <4>2. \A r \in Row \ {x} : r \in H => r \in K
        BY <1>3, <1>4 DEF InHand
      <4>3. Good' \subseteq K
        OBVIOUS
      <4>4. Passed(module, mtime, H, run.last, run.end, Behind)
        BY <3>1 DEF SyncInv, RunInv, Sending
      <4> HIDE DEF H, K
      <4>5. module \in Windowed /\ x \in Selected(module, mtime, run.last, run.end)
              /\ Rank(Selected(module, mtime, run.last, run.end), x) < Behind
              => NextRow(Selected(module, mtime, run.last, run.end), Behind) \subseteq K
        BY <1>6, <2>1, <2>2, <4>1, <4>3
      <4>6. Passed(module, mtime', K, run.last, run.end, Behind)
        BY <1>1, <1>2, <2>1, <2>2, <4>1, <4>2, <4>4, <4>5, PassedEdit
      <4> QED BY <4>6 DEF K
    <3>2. Behind' = Behind
      BY <1>1 DEF Behind
    <3> QED BY <1>1, <3>1, <3>2 DEF SyncInv, RunInv, Sending
  <2>7. Closing'
    <3>1. ASSUME (run.pc = "end" /\ run.sent) \/ run.pc \in {"clear", "advance"}
          PROVE  Settled(mtime', Good', run.end)
      BY <1>1, <1>2, <1>3, <2>1, <2>2, <3>1, SettledEdit DEF SyncInv, RunInv, Closing
    <3> QED BY <1>1, <3>1 DEF Closing
  <2> QED BY <1>7, <2>3, <2>4, <2>5, <2>6, <2>7 DEF Kept, RunInv
<1> QED BY <1>8, <1>9

LEMMA BeginStep ==
  ASSUME SyncInv, TypeOK', NEW full \in BOOLEAN, Begin(full)
  PROVE  Kept
<1> DEFINE resume == ~full /\ file.offset > 0
           last == IF full /\ module \in Windowed THEN 0 ELSE file.last
           end == IF resume THEN file.end ELSE now
           o == IF resume THEN file.offset ELSE 0
<1>1. /\ run' = [Idle EXCEPT !.pc = "count", !.last = last, !.resume = resume, !.end = end, !.offset = o]
      /\ UNCHANGED <<module, now, mtime, file, accepted, excused>>
  BY DEF Begin
<1>2. run'.pc = "count" /\ run'.last = last /\ run'.end = end /\ run'.offset = o
  BY <1>1 DEF Idle
<1>3. /\ now \in Nat /\ file.last \in Nat /\ file.end \in Nat /\ file.offset \in Nat
      /\ \A r \in Row : mtime[r] \in Nat
  BY AgentAssumption DEF SyncInv, TypeOK, Time
<1>4. Good' = Good /\ Calm
  BY <1>1, <1>3, GoodSame DEF Calm
<1>5. last <= now /\ end <= now /\ file.end <= end
  BY <1>3 DEF SyncInv, FileInv
<1>6. Settled(mtime, Good, last)
  <2>1. Settled(mtime, Good, 0)
    BY <1>3 DEF Settled
  <2> QED BY <2>1 DEF SyncInv, FileInv
<1>7. Passed(module, mtime, Good, last, end, o)
  <2>1. resume => last = file.last /\ end = file.end /\ o = file.offset
    OBVIOUS
  <2>2. ~resume => o = 0
    OBVIOUS
  <2>3. Passed(module, mtime, Good, last, end, 0)
    BY PassedNone
  <2> HIDE DEF resume, last, end, o
  <2> QED BY <2>1, <2>2, <2>3 DEF SyncInv, FileInv
<1> HIDE DEF last, end, o
<1>8. FileInv'
  BY <1>1, <1>4, FileKept DEF SyncInv
<1>9. Started' /\ Placed'
  BY <1>1, <1>2, <1>4, <1>5, <1>6, <1>7 DEF Started, Placed
<1> QED BY <1>2, <1>8, <1>9 DEF Kept, RunInv, Counted, Sending, Closing

\* What is left of the window when the run reaches its end: nothing.
LEMMA EndReached ==
  ASSUME SyncInv, NEW good, Good \subseteq good, run.pc \in {"count", "page"}, NEW n,
         Passed(module, mtime, good, run.last, run.end, n),
         \A r \in Selected(module, mtime, run.last, run.end) :
            Rank(Selected(module, mtime, run.last, run.end), r) < n
  PROVE  Settled(mtime, good, run.end)
<1>1. /\ module \in Module /\ mtime \in [Row -> Time] /\ run.last \in Time /\ run.end \in Time
  BY Typed, RunIs DEF SyncInv
<1>2. Settled(mtime, Good, run.last)
  BY DEF SyncInv, RunInv, Started, Active
<1>3. Settled(mtime, good, run.last)
  BY <1>2, SettledGrows
<1> QED BY <1>1, <1>3, AllPassed

LEMMA CountStep ==
  ASSUME SyncInv, TypeOK', Count
  PROVE  Kept
<1> DEFINE S == Selected(module, mtime, run.last, run.end)
<1>1. /\ UNCHANGED <<module, now, mtime, accepted, excused>> /\ run.pc = "count"
      /\ now \in Nat /\ run \in RunRow /\ Window(mtime, run.last, run.end) = S
      /\ S \in SUBSET Row /\ Cardinality(S) \in Nat
  <2>1. S \in SUBSET Row /\ Cardinality(S) \in Nat
    BY SelectedRows, RowsFinite
  <2> QED BY <2>1, Typed, WindowIs, AgentAssumption DEF Count, SyncInv, TypeOK, Time, RunRow
<1>2. Good' = Good /\ Calm /\ Active
  BY <1>1, GoodSame DEF Calm, Active
<1> HIDE DEF S
<1>3. CASE Ends /\ UNCHANGED file
  BY <1>2, <1>3, FileKept, IdleOver DEF SyncInv, Kept, Ends
<1>4. CASE Cardinality(S) = 0 /\ run' = [run EXCEPT !.pc = "clear"] /\ UNCHANGED file
  <2>1. run'.pc = "clear" /\ run'.last = run.last /\ run'.end = run.end
    BY <1>1, <1>4 DEF RunRow
  <2>2. FileInv' /\ Started'
    BY <1>2, <1>4, <2>1, FileKept, StillStarted DEF SyncInv, RunInv
  <2>3. S = {}
    BY <1>1, <1>4, RowsFinite, FS_EmptySet
  <2>4. Settled(mtime, Good, run.end)
    <3>1. Passed(module, mtime, Good, run.last, run.end, run.offset)
      BY <1>1 DEF SyncInv, RunInv, Placed
    <3> QED BY <1>1, <2>3, <3>1, EndReached DEF S
  <2> QED BY <1>1, <1>2, <2>1, <2>2, <2>4 DEF Kept, RunInv, Placed, Counted, Sending, Closing
<1>5. CASE run.offset < Cardinality(S) /\ run' = [run EXCEPT !.pc = "page", !.total = Cardinality(S)]
           /\ UNCHANGED file
  <2>1. /\ run'.pc = "page" /\ run'.last = run.last /\ run'.end = run.end /\ run'.offset = run.offset
        /\ run'.total = Cardinality(S)
    BY <1>1, <1>5 DEF RunRow
  <2>2. FileInv' /\ Started'
    BY <1>2, <1>5, <2>1, FileKept, StillStarted DEF SyncInv, RunInv
  <2>3. Placed'
    BY <1>1, <1>2, <2>1 DEF SyncInv, RunInv, Placed
  <2>4. Counted'
    BY <1>1, <2>1 DEF Counted, S
  <2> QED BY <2>1, <2>2, <2>3, <2>4 DEF Kept, RunInv, Sending, Closing
<1>6. CASE /\ ClearCheckpoint
           /\ run' = [run EXCEPT !.pc = "page", !.total = Cardinality(S), !.offset = 0, !.resume = FALSE]
  <2>1. /\ run'.pc = "page" /\ run'.last = run.last /\ run'.end = run.end /\ run'.offset = 0
        /\ run'.total = Cardinality(S)
    BY <1>1, <1>6 DEF RunRow
  <2>2. FileInv' /\ (file'.end = file.end \/ file'.end = 0)
    BY <1>2, <1>6, FileClearedOrKept DEF SyncInv
  <2>3. Started'
    BY <1>2, <2>1, <2>2, StillStarted DEF SyncInv, RunInv
  <2>4. Placed'
    BY <2>1, PassedNone DEF Placed
  <2>5. Counted'
    BY <1>1, <2>1 DEF Counted, S
  <2> QED BY <2>1, <2>2, <2>3, <2>4, <2>5 DEF Kept, RunInv, Sending, Closing
<1> QED BY <1>1, <1>3, <1>4, <1>5, <1>6 DEF Count

LEMMA ReadPageStep ==
  ASSUME SyncInv, TypeOK', ReadPage
  PROVE  Kept
<1> DEFINE S == Selected(module, mtime, run.last, run.end)
           P == PageOf(S, run.offset, run.size)
<1>1. /\ UNCHANGED <<module, now, mtime, file, accepted, excused>> /\ run.pc = "page"
      /\ run \in RunRow /\ now \in Nat /\ S \in SUBSET Row /\ P \in SUBSET Row
      /\ run.offset \in Nat /\ run.size \in Nat \ {0}
  <2>1. S \in SUBSET Row /\ P \in SUBSET Row
    BY SelectedRows DEF PageOf
  <2>2. run \in RunRow /\ now \in Nat
    BY Typed, AgentAssumption DEF SyncInv, TypeOK, Time
  <2> QED BY <2>1, <2>2, RunIs DEF ReadPage
<1>2. run' = IF P = {} THEN [run EXCEPT !.pc = "end"]
             ELSE [run EXCEPT !.pc = "send", !.page = [r \in P |-> mtime[r]]]
  BY WindowIs DEF ReadPage
<1>3. Good' = Good /\ Calm /\ Active
  BY <1>1, GoodSame DEF Calm, Active
<1>4. Passed(module, mtime, Good, run.last, run.end, run.offset)
  BY <1>1 DEF SyncInv, RunInv, Placed
<1>5. FileInv'
  BY <1>1, <1>3, FileKept DEF SyncInv
<1>6. CASE P = {}
  <2>1. \A r \in S : Rank(S, r) < run.offset
    <3> HIDE DEF S
    <3> QED BY <1>1, <1>6, PageEmpty
  <2>2. Settled(mtime, Good, run.end)
    BY <1>1, <1>4, <2>1, EndReached
  <2> HIDE DEF P
  <2>3. run'.pc = "end" /\ run'.last = run.last /\ run'.end = run.end
    BY <1>1, <1>2, <1>6 DEF RunRow
  <2>4. Started'
    BY <1>1, <1>3, <2>3, StillStarted DEF SyncInv, RunInv
  <2> QED BY <1>1, <1>3, <1>5, <2>2, <2>3, <2>4 DEF Kept, RunInv, Placed, Counted, Sending, Closing
<1>7. CASE P # {}
  <2>1. run.offset + Cardinality(P) <= Cardinality(S) /\ Cardinality(P) \in Nat /\ Cardinality(S) \in 0 .. RowCount
    <3> HIDE DEF S
    <3>1. run.offset + Cardinality(P) <= Cardinality(S)
      BY <1>1, <1>7, PageFits
    <3> HIDE DEF P
    <3> QED BY <1>1, <3>1, RowsFinite
  <2>2. Passed(module, mtime, Good \cup P, run.last, run.end, run.offset + Cardinality(P))
    BY <1>1, <1>4, <1>7, PagePassed
  <2> HIDE DEF P
  <2>3. /\ run'.pc = "send" /\ run'.last = run.last /\ run'.end = run.end /\ run'.offset = run.offset
        /\ run'.total = run.total /\ run'.page = [r \in P |-> mtime[r]]
    BY <1>1, <1>2, <1>7 DEF RunRow
  <2>4. DOMAIN run'.page = P /\ InHand' = P
    BY <1>1, <2>3 DEF InHand
  <2>5. Behind' = run.offset + Cardinality(P)
    BY <2>3, <2>4 DEF Behind
  <2>6. Started'
    BY <1>1, <1>3, <2>3, StillStarted DEF SyncInv, RunInv
  <2>7. Placed'
    BY <1>1, <1>3, <1>4, <2>3 DEF Placed
  <2>8. Counted'
    BY <1>1, <2>3 DEF SyncInv, RunInv, Counted
  <2>9. Sending'
    <3>1. Behind' <= RowCount
      BY <1>1, <2>1, <2>5, AgentAssumption
    <3> QED BY <1>1, <1>3, <2>2, <2>3, <2>4, <2>5, <3>1 DEF Sending
  <2> QED BY <1>5, <2>3, <2>6, <2>7, <2>8, <2>9 DEF Kept, RunInv, Closing
<1> QED BY <1>6, <1>7

LEMMA PageFailsStep ==
  ASSUME SyncInv, TypeOK', PageFails
  PROVE  Kept
<1>1. PICK n \in Nat : StopHere(n)
  BY DEF PageFails
<1>2. UNCHANGED <<module, now, mtime, accepted>> /\ run.pc = "page" /\ now \in Nat
  BY AgentAssumption DEF PageFails, SyncInv, TypeOK, Time
<1>3. excused \subseteq excused'
  BY <1>1 DEF StopHere
<1>4. Calm
  BY <1>2, <1>3 DEF Calm, Good, Reached
<1> QED BY <1>1, <1>2, <1>4, Stopped DEF SyncInv, Kept

LEMMA SendOkStep ==
  ASSUME SyncInv, TypeOK', SendOk
  PROVE  Kept
<1>1. /\ UNCHANGED <<module, now, mtime, file, excused>> /\ run.pc = "send" /\ Accept
      /\ run \in RunRow /\ now \in Nat
  BY Typed, AgentAssumption DEF SyncInv, TypeOK, Time, SendOk
<1>2. Good \subseteq Good' /\ InHand \subseteq Good'
  BY <1>1, GoodSent DEF SyncInv
<1>3. Calm /\ Active
  BY <1>1, <1>2 DEF Calm, Active
<1>4. run' = [run EXCEPT !.pc = "page", !.sent = TRUE, !.page = NoPage, !.offset = Behind]
  BY DEF SendOk, Behind
<1>5. /\ run'.pc = "page" /\ run'.last = run.last /\ run'.end = run.end /\ run'.offset = Behind
      /\ run'.total = run.total
  BY <1>1, <1>4 DEF RunRow
<1>6. FileInv' /\ Started'
  BY <1>1, <1>3, <1>5, FileKept, StillStarted DEF SyncInv, RunInv
<1>7. Placed'
  <2>1. Good \cup InHand \subseteq Good'
    BY <1>2
  <2>2. Passed(module, mtime, Good \cup InHand, run.last, run.end, Behind)
    BY <1>1 DEF SyncInv, RunInv, Sending
  <2>3. Passed(module, mtime, Good', run.last, run.end, Behind)
    BY <2>1, <2>2, PassedGrows
  <2> QED BY <1>1, <1>5, <2>3 DEF Placed
<1>8. Counted'
  BY <1>1, <1>5 DEF SyncInv, RunInv, Counted
<1> QED BY <1>5, <1>6, <1>7, <1>8 DEF Kept, RunInv, Sending, Closing

\* A post that may have arrived.
LEMMA QueuedOrNot ==
  ASSUME SyncInv, TypeOK', UNCHANGED <<module, now, mtime>>, excused \subseteq excused',
         Accept \/ UNCHANGED accepted
  PROVE  Calm
<1>1. now \in Nat
  BY AgentAssumption DEF SyncInv, TypeOK, Time
<1>2. CASE Accept
  BY <1>1, <1>2, GoodSent DEF SyncInv, Calm
<1>3. CASE UNCHANGED accepted
  BY <1>1, <1>3 DEF Calm, Good, Reached
<1> QED BY <1>2, <1>3

LEMMA SendFailsStep ==
  ASSUME SyncInv, TypeOK', NEW queued \in BOOLEAN, SendFails(queued)
  PROVE  Kept
<1>1. /\ UNCHANGED <<module, now, mtime>> /\ run.pc = "send" /\ (Accept \/ UNCHANGED accepted)
      /\ run \in RunRow
  BY Typed DEF SyncInv, SendFails
<1>2. CASE StopHere(1)
  <2>1. excused \subseteq excused'
    BY <1>2 DEF StopHere
  <2>2. Calm
    BY <1>1, <2>1, QueuedOrNot
  <2> QED BY <1>1, <1>2, <2>2, Stopped DEF SyncInv, Kept
<1>3. CASE /\ run' = [run EXCEPT !.pc = "page", !.page = NoPage, !.size = Newer(MinBatchSize, @ \div 2)]
           /\ UNCHANGED <<file, cancelled, excused>>
  <2>1. Calm /\ Active
    BY <1>1, <1>3, QueuedOrNot DEF Active
  <2>2. /\ run'.pc = "page" /\ run'.last = run.last /\ run'.end = run.end /\ run'.offset = run.offset
        /\ run'.total = run.total
    BY <1>1, <1>3 DEF RunRow
  <2>3. FileInv' /\ Started'
    BY <1>3, <2>1, <2>2, FileKept, StillStarted DEF SyncInv, RunInv
  <2>4. Placed'
    BY <1>1, <2>1, <2>2, PassedGrows DEF SyncInv, RunInv, Placed, Calm
  <2>5. Counted'
    BY <1>1, <2>2 DEF SyncInv, RunInv, Counted
  <2> QED BY <2>2, <2>3, <2>4, <2>5 DEF Kept, RunInv, Sending, Closing
<1> QED BY <1>2, <1>3 DEF SendFails

LEMMA InterruptedStep ==
  ASSUME SyncInv, TypeOK', NEW queued \in BOOLEAN, Interrupted(queued)
  PROVE  Kept
<1>1. Calm
  BY QueuedOrNot DEF Interrupted
<1> QED BY <1>1, FileKept, IdleOver DEF SyncInv, Kept, Interrupted, Ends

\* All is read; or the rows behind the offset are excused; or no batch was sent, and the
\* watermark will stay.
LEMMA LoopEndsStep ==
  ASSUME SyncInv, TypeOK', LoopEnds
  PROVE  Kept
<1> DEFINE S == Selected(module, mtime, run.last, run.end)
<1>1. /\ UNCHANGED <<module, now, mtime, file, accepted>> /\ run.pc = "page"
      /\ run \in RunRow /\ run' = [run EXCEPT !.pc = "end"]
      /\ excused' = IF run.offset >= run.total \/ ~run.sent THEN excused
                    ELSE excused \cup {r \in S : Rank(S, r) >= run.offset}
  BY Typed, WindowIs DEF SyncInv, LoopEnds
<1>2. Calm /\ Active
  BY <1>1, QueuedOrNot DEF Active
<1>3. run'.pc = "end" /\ run'.last = run.last /\ run'.end = run.end /\ run'.sent = run.sent
  BY <1>1 DEF RunRow
<1>4. FileInv' /\ Started'
  BY <1>1, <1>2, <1>3, FileKept, StillStarted DEF SyncInv, RunInv
<1>5. Good \subseteq Good'
  BY <1>2 DEF Calm
<1>6. Passed(module, mtime, Good', run.last, run.end, run.offset)
  BY <1>1, <1>5, PassedGrows DEF SyncInv, RunInv, Placed
<1>7. /\ S \in SUBSET Row /\ Cardinality(S) \in Nat /\ Cardinality(S) <= run.total
      /\ run.offset \in Nat /\ run.total \in Nat
      /\ \A r \in S : Rank(S, r) \in Nat /\ Rank(S, r) < Cardinality(S)
  <2>1. Cardinality(S) <= run.total
    BY <1>1 DEF SyncInv, RunInv, Counted
  <2>2. S \in SUBSET Row
    BY SelectedRows
  <2> HIDE DEF S
  <2> QED BY <1>1, <2>1, <2>2, RowsFinite, RankIs, RankInside, RunIs
<1>8. CASE run.offset >= run.total
  <2>1. \A r \in S : Rank(S, r) < run.offset
    <3> HIDE DEF S
    <3> QED BY <1>7, <1>8
  <2>2. Settled(mtime, Good', run.end)
    BY <1>1, <1>5, <1>6, <2>1, EndReached
  <2> QED BY <1>1, <1>3, <1>4, <2>2 DEF Kept, RunInv, Placed, Counted, Sending, Closing
<1>9. CASE run.offset < run.total /\ run.sent
  <2>1. {r \in S : Rank(S, r) >= run.offset} \subseteq Good'
    <3> HIDE DEF S
    <3> QED BY <1>1, <1>7, <1>9 DEF Good
  <2>2. Passed(module, mtime, Good', run.last, run.end, Cardinality(S))
    <3>1. \A r \in S : Rank(S, r) < run.offset => mtime[r] >= run.end \/ r \in Good'
      BY <1>6 DEF Passed
    <3>2. \A r \in S : mtime[r] >= run.end \/ r \in Good'
      <4> HIDE DEF S
      <4> QED BY <1>7, <2>1, <3>1
    <3> QED BY <3>2 DEF Passed
  <2>3. Settled(mtime, Good', run.end)
    BY <1>1, <1>5, <1>7, <2>2, EndReached
  <2> QED BY <1>1, <1>3, <1>4, <2>3 DEF Kept, RunInv, Placed, Counted, Sending, Closing
<1>10. CASE ~run.sent
  BY <1>3, <1>4, <1>10 DEF Kept, RunInv, Placed, Counted, Sending, Closing
<1>11. run.sent \in BOOLEAN
  BY <1>1, RunIs
<1> QED BY <1>7, <1>8, <1>9, <1>10, <1>11

LEMMA SettleStep ==
  ASSUME SyncInv, TypeOK', Settle
  PROVE  Kept
<1>1. UNCHANGED <<module, now, mtime, accepted, excused>> /\ run.pc = "end" /\ run \in RunRow
  BY Typed DEF SyncInv, Settle
<1>2. Calm /\ Active /\ Good' = Good
  BY <1>1, QueuedOrNot, GoodSame DEF Active
<1>3. CASE run.sent /\ run' = [run EXCEPT !.pc = "clear"] /\ UNCHANGED file
  <2>1. run'.pc = "clear" /\ run'.last = run.last /\ run'.end = run.end
    BY <1>1, <1>3 DEF RunRow
  <2>2. FileInv' /\ Started'
    BY <1>2, <1>3, <2>1, FileKept, StillStarted DEF SyncInv, RunInv
  <2>3. Closing'
    BY <1>1, <1>2, <1>3, <2>1 DEF SyncInv, RunInv, Closing
  <2> QED BY <2>1, <2>2, <2>3 DEF Kept, RunInv, Placed, Counted, Sending
<1>4. CASE (UNCHANGED file \/ ClearCheckpoint) /\ run' = Idle
  BY <1>2, <1>4, FileKept, FileClearedOrKept, IdleOver DEF SyncInv, Kept
<1> QED BY <1>3, <1>4 DEF Settle, Ends

LEMMA ClearStep ==
  ASSUME SyncInv, TypeOK', Clear
  PROVE  Kept
<1>1. /\ UNCHANGED <<module, now, mtime, accepted, excused>> /\ run.pc = "clear" /\ run \in RunRow
      /\ ClearCheckpoint /\ run' = [run EXCEPT !.pc = "advance"]
  BY Typed DEF SyncInv, Clear
<1>2. Calm /\ Active /\ Good' = Good
  BY <1>1, QueuedOrNot, GoodSame DEF Active
<1>3. run'.pc = "advance" /\ run'.last = run.last /\ run'.end = run.end
  BY <1>1 DEF RunRow
<1>4. FileInv' /\ (file'.end = file.end \/ file'.end = 0)
  BY <1>1, <1>2, FileClearedOrKept DEF SyncInv
<1>5. Started'
  BY <1>2, <1>3, <1>4, StillStarted DEF SyncInv, RunInv
<1>6. Closing'
  BY <1>1, <1>2, <1>3 DEF SyncInv, RunInv, Closing
<1> QED BY <1>3, <1>4, <1>5, <1>6 DEF Kept, RunInv, Placed, Counted, Sending

\* The watermark moves to the end of a window that is settled; a checkpoint that could not be
\* cleared is no later than that.
LEMMA AdvanceStep ==
  ASSUME SyncInv, TypeOK', Advance
  PROVE  Kept
<1>1. /\ UNCHANGED <<module, now, mtime, accepted, excused>> /\ run.pc = "advance" /\ run' = Idle
      /\ UpdateWatermark(run.end, run.sent)
  BY DEF Advance, Ends
<1>2. /\ file \in FileRow /\ budget \in Budget /\ run \in RunRow /\ now \in Nat
      /\ mtime \in [Row -> Time]
  BY Typed, AgentAssumption DEF SyncInv, TypeOK, Time
<1>3. Calm /\ Active /\ Good' = Good
  BY <1>1, QueuedOrNot, GoodSame DEF Active
<1>4. file' = file \/ file' = [file EXCEPT !.last = run.end, !.synced = @ \/ run.sent]
  BY <1>1 DEF UpdateWatermark, Written
<1>5. CASE file' = [file EXCEPT !.last = run.end, !.synced = @ \/ run.sent]
  <2>1. file'.last = run.end /\ file'.end = file.end /\ file'.offset = file.offset
    BY <1>2, <1>5 DEF FileRow
  <2>2. run.end <= now /\ file.end <= run.end /\ file.end <= now
    BY <1>3 DEF SyncInv, RunInv, Started, FileInv
  <2>3. Settled(mtime, Good, run.end)
    BY <1>1 DEF SyncInv, RunInv, Closing
  <2>4. file.end \in Time /\ run.end \in Time
    BY <1>2, FileIs, RunIs
  <2>5. Passed(module, mtime, Good, run.end, file.end, file.offset)
    BY <1>2, <2>2, <2>3, <2>4, SettledPassed
  <2>6. FileInv'
    BY <1>1, <1>3, <2>1, <2>2, <2>3, <2>5 DEF FileInv
  <2> QED BY <1>1, <2>6, IdleOver DEF Kept
<1>6. CASE file' = file
  BY <1>1, <1>3, <1>6, FileKept, IdleOver DEF SyncInv, Kept
<1> QED BY <1>4, <1>5, <1>6

LEMMA UserStep ==
  ASSUME SyncInv, TypeOK', CancelRun \/ ResetWatermark \/ Boot \/ \E queued \in BOOLEAN : Crash(queued)
  PROVE  Kept
<1>1. CASE CancelRun
  <2>1. Calm
    BY <1>1, QueuedOrNot DEF CancelRun
  <2> QED BY <1>1, <2>1, FileKept, RunKept DEF SyncInv, CancelRun, Kept
<1>2. CASE ResetWatermark
  <2>1. Calm
    BY <1>2, QueuedOrNot DEF ResetWatermark
  <2>2. file'.end = 0 /\ file' = NoFile
    BY <1>2 DEF ResetWatermark, NoFile
  <2> QED BY <1>2, <2>1, <2>2, FileGone, RunKept DEF SyncInv, ResetWatermark, Kept
<1>3. CASE Boot
  <2>1. Calm
    BY <1>3, QueuedOrNot DEF Boot
  <2> QED BY <1>3, <2>1, FileKept, FileGone, IdleOver DEF SyncInv, Boot, Kept
<1>4. ASSUME NEW queued \in BOOLEAN, Crash(queued) PROVE Kept
  <2>1. Calm
    BY <1>4, QueuedOrNot DEF Crash
  <2>2. run'.pc = "off"
    BY <1>4 DEF Crash, Idle
  <2>3. file' = file \/ file' = NoFile
    BY <1>4 DEF Crash
  <2> QED BY <2>1, <2>2, <2>3, FileKept, FileGone, RunOver DEF SyncInv, Kept
<1> QED BY <1>1, <1>2, <1>3, <1>4

LEMMA SyncStep == SyncInv /\ [Next]_agentVars => SyncInv'
<1>1. ASSUME SyncInv, Next PROVE SyncInv'
  <2>1. run.pc = "send" => Behind \in 0 .. RowCount
    <3>1. Behind \in Nat
      <4>1. DOMAIN run.page \in SUBSET Row /\ run.offset \in Nat
        BY <1>1, Typed, RunIs, PageRows DEF SyncInv
      <4> QED BY <4>1, RowsFinite DEF Behind
    <3> QED BY <1>1, <3>1, AgentAssumption DEF SyncInv, RunInv, Sending
  <2>2. TypeOK'
    BY <1>1, <2>1, TypeStep DEF SyncInv
  <2>3. Kept
    BY <1>1, <2>2, TickStep, EditStep, BeginStep, CountStep, ReadPageStep, PageFailsStep, SendOkStep,
       SendFailsStep, InterruptedStep, LoopEndsStep, SettleStep, ClearStep, AdvanceStep, UserStep
       DEF Next, Source, Step
  <2> QED BY <2>2, <2>3 DEF SyncInv, Kept
<1>2. ASSUME SyncInv, UNCHANGED agentVars PROVE SyncInv'
  <2>1. UNCHANGED <<module, now, mtime, file, run, cancelled, budget, accepted, excused>>
    BY <1>2 DEF agentVars
  <2>2. TypeOK'
    BY <1>2, <2>1 DEF SyncInv, TypeOK
  <2>3. Calm
    BY <1>2, <2>1, <2>2, QueuedOrNot
  <2> QED BY <1>2, <2>1, <2>2, <2>3, FileKept, RunKept DEF SyncInv
<1> QED BY <1>1, <1>2

\* All rows up to the watermark the agent starts with are done.
LEMMA SyncInit == Init => SyncInv
<1> SUFFICES ASSUME Init PROVE SyncInv
  OBVIOUS
<1>1. TypeOK
  BY TypeInit
<1>2. PICK last \in {0, 1} :
        /\ file = [NoFile EXCEPT !.last = last, !.synced = (last = 1)]
        /\ mtime \in [Row -> {0, 1}]
        /\ accepted = [r \in Row |-> 0]
  BY DEF Init
<1>3. file.last = last /\ file.offset = 0 /\ file.end = 0
  BY <1>2 DEF NoFile
<1>4. now = 2 /\ run.pc = "idle"
  BY IdleIs DEF Init
<1>5. Settled(mtime, Good, last)
  <2>1. ASSUME NEW r \in Row, mtime[r] < last PROVE r \in Good
    <3>1. mtime[r] \in {0, 1} /\ accepted[r] = 0
      BY <1>2
    <3>2. mtime[r] = 0
      BY <2>1, <3>1
    <3> QED BY <3>1, <3>2 DEF Good, Reached
  <2> QED BY <2>1 DEF Settled
<1>6. Passed(module, mtime, Good, file.last, 0, 0)
  BY PassedNone
<1>7. FileInv
  BY <1>3, <1>4, <1>5, <1>6 DEF FileInv
<1> QED BY <1>1, <1>4, <1>7 DEF SyncInv, RunInv, Started, Active, Placed, Counted, Sending, Closing

LEMMA SyncAlways == Spec => []SyncInv
BY SyncInit, SyncStep, PTL DEF Spec

\* Offsets stay within the rows there are, whatever the sizes of the pages, and a page that is sent
\* holds rows (RunPaginatedSyncAsync).
THEOREM TypeCorrect == Spec => []TypeOK
<1>1. SyncInv => TypeOK
  BY DEF SyncInv
<1> QED BY <1>1, SyncAlways, PTL

\* Data loss has no other cause than those named in "excused": a change before the watermark has
\* reached the backend, in any interleaving of edits, failures, cancellations, resets and crashes.
THEOREM LossesHaveCause == Spec => []LossHasCause
<1>1. SyncInv => LossHasCause
  <2> SUFFICES ASSUME SyncInv, NEW r \in Row \ excused, mtime[r] < file.last PROVE Reached(r)
    BY DEF LossHasCause
  <2>1. r \in Good
    BY DEF SyncInv, FileInv, Settled
  <2> QED BY <2>1 DEF Good
<1> QED BY <1>1, SyncAlways, PTL

=============================================================================
