--------------------------- MODULE RowIngestProofs ---------------------------
(***************************************************************************)
(* Proofs about RowIngest, for any rows, chunks and bounds: what the       *)
(* tables show is what JTL had, up to the causes each property names.      *)
(***************************************************************************)
EXTENDS RowIngest, FiniteSetTheorems, WellFoundedInduction, TLAPS

-----------------------------------------------------------------------------
(* The state.                                                              *)

\* The jobs in the order they will be executed.
Line == IF exec = NoExec THEN queue ELSE <<exec.job>> \o queue

Jobs == {j \in [run : Run, index : Nat, total : Nat, full : BOOLEAN, start : Nat,
                rows : UNION {[D -> Nat] : D \in SUBSET Item}] :
           j.index < j.total /\ DOMAIN j.rows # {}}

AgentTyped ==
  /\ agent \in [run : Run \cup {0}, full : BOOLEAN, window : SUBSET Item, start : Nat, total : 0 .. ItemCount,
                offset : 0 .. ItemCount, size : 1 .. BatchSize, first : 0 .. ItemCount]
  /\ saved \in [offset : 0 .. ItemCount, initial : BOOLEAN]
  /\ source \in [Item -> 0 .. 2 + MaxTroubles]

JobsTyped ==
  /\ queue \in Seq(Jobs)
  /\ exec = NoExec \/ exec \in [job : Jobs, pc : {"open", "committed"}, attempt : 1 .. MaxAttempts]
  /\ accepted \in SUBSET (Run \X Nat)
  /\ \A n \in 1 .. Len(Line) : status[Line[n].run] # "none"

TablesTyped ==
  /\ row \in [Item -> [ver : Nat, active : BOOLEAN, synced : 0 .. clock]]
  /\ stats \in SUBSET Item /\ stock \in [Item -> Int] /\ staging \in [Run -> [Item -> Int]]
  /\ basis \in [run : Run \cup {0}, flaws : SUBSET Flaw, later : SUBSET Item]

BooksTyped ==
  /\ kind \in Kind /\ clock \in 1 .. MaxRuns + 1 /\ troublesLeft \in 0 .. MaxTroubles
  /\ status \in [Run -> {"none", "open", "ok", "failed"}] /\ done \in SUBSET Run
  /\ taken \in [Run -> [Item -> Nat]] /\ flaws \in [Run -> SUBSET Flaw]

Typed == AgentTyped /\ JobsTyped /\ TablesTyped /\ BooksTyped

-----------------------------------------------------------------------------
(* The inductive invariant.                                                *)

Spot == 1 .. Len(Line)
RowsAt(n) == DOMAIN Line[n].rows
Wanted(r) == {i \in Item : taken[r][i] > 0}
Rank(S, i) == Cardinality({j \in S : j < i})
Tops == 2 + MaxTroubles - troublesLeft
Latest(i) == IF source[i] > 0 THEN source[i] ELSE Tops

\* The numbers of the runs.
Books ==
  /\ \A n \in Spot : Line[n].run < clock /\ Line[n].start = Line[n].run + 1
  /\ agent.run # 0 => agent.run = clock - 1 /\ agent.start = clock
  /\ \A r \in Run : r >= clock => status[r] = "none" /\ \A i \in Item : taken[r][i] = 0
  /\ \A x \in accepted : x[1] < clock
  /\ basis.run < clock
  /\ kind # "orders" => \A r \in Run : "swallowed" \notin flaws[r]

\* JTL has the newest version; a job has what the runs up to its own set out to read, or newer.
Versions == kind # "inventory" => \A i \in Item :
  /\ source[i] <= Tops /\ row[i].ver <= Latest(i)
  /\ \A r \in Run : taken[r][i] <= Latest(i)
  /\ \A n \in Spot : i \in RowsAt(n) => Line[n].rows[i] <= Latest(i)
  /\ \A n \in Spot, r \in Run : i \in RowsAt(n) /\ r <= Line[n].run => taken[r][i] <= Line[n].rows[i]

\* Without a restart that put a job behind others, versions grow along the line.
InOrder == kind # "inventory" /\ (\A r \in Run : "reordered" \notin flaws[r]) =>
  /\ \A n \in Spot : \A i \in RowsAt(n) : row[i].ver <= Line[n].rows[i]
  /\ \A m, n \in Spot : m < n => \A i \in RowsAt(m) \cap RowsAt(n) : Line[m].rows[i] <= Line[n].rows[i]

\* So do the runs.
RunsInOrder(r) == "reordered" \notin flaws[r] => \A m, n \in Spot : m < n =>
  /\ Line[m].run = r => Line[n].run >= r
  /\ Line[n].run = r => Line[m].run <= r

\* What the agent reads is what its run set out to read, and so is what its jobs carry.
Reads(r) == agent.run = r /\ "edited" \notin flaws[r] =>
  /\ Selected(agent.full, agent.window) = Wanted(r)
  /\ \A i \in Wanted(r) : source[i] = taken[r][i]
  /\ agent.total = Cardinality(Wanted(r))
Carries(r) == "edited" \notin flaws[r] => \A n \in Spot : Line[n].run = r =>
  \A i \in RowsAt(n) : i \in Wanted(r) /\ Line[n].rows[i] = taken[r][i]

Kept(r, i) == row[i].ver >= taken[r][i] /\ \A n \in Spot : i \in RowsAt(n) => Line[n].rows[i] >= taken[r][i]
Stored(r, i) == Kept(r, i) /\ row[i].active /\ row[i].synced > r
Covered(r, i, N) == Stored(r, i) \/ \E n \in Spot : n <= N /\ Line[n].run = r /\ i \in RowsAt(n)
Whole(r) == flaws[r] \cap {"resumed", "edited", "lost", "failed", "reordered", "swallowed"} = {}
Somewhere(r, i) == Stored(r, i) \/ \E n \in Spot : Line[n].run = r /\ i \in RowsAt(n)
Sent(r, o) == \A i \in Wanted(r) : Rank(Wanted(r), i) < o => Somewhere(r, i)

\* What the agent has passed is stored or in the line, and an index that is taken stands for
\* rows that are.
Sends(r) == agent.run = r /\ Whole(r) =>
  /\ Sent(r, agent.offset)
  /\ \A k \in Nat : <<r, k>> \in accepted =>
       /\ k * agent.size <= agent.offset
       /\ k * agent.size + agent.size <= agent.offset \/ Sent(r, agent.offset + agent.size)
\* When the last batch has its turn, everything is stored or before it.
Lasts(r) == Whole(r) => \A n \in Spot : Line[n].run = r /\ IsLast(Line[n]) => \A i \in Wanted(r) : Covered(r, i, n)
Commits(r) == exec.pc = "committed" /\ exec.job.run = r /\ Whole(r) => \A i \in DOMAIN exec.job.rows : Stored(r, i)
Oks(r) == Whole(r) /\ status[r] = "ok" => \A i \in Wanted(r) : Kept(r, i)
\* A run that began with an empty line has nothing of an older one behind it.
Alone(r) == flaws[r] \cap {"overlap", "edited", "reordered"} = {} /\ (agent.run = r \/ \E n \in Spot : Line[n].run = r) =>
  /\ \A n \in Spot : Line[n].run >= r
  /\ \A i \in Item : row[i].synced > r => i \in Wanted(r)
Products == kind = "products" /\ basis.run # 0 =>
  /\ basis.flaws \cap {"resumed", "lost", "failed", "edited", "reordered"} = {} =>
       \A i \in Wanted(basis.run) : Kept(basis.run, i) /\ row[i].active
  /\ basis.flaws \cap {"overlap", "edited", "reordered"} = {} =>
       \A i \in Item : row[i].active => i \in Wanted(basis.run) \/ i \in basis.later

Tables == kind # "inventory" =>
  /\ Products
  /\ \A r \in Run : Sends(r) /\ Lasts(r) /\ Commits(r) /\ Oks(r) /\ Alone(r)

\* Stock: the batches of a run whose rows are still to come, and the rows that are staged.
Mine(r) == {n \in Spot : Line[n].run = r /\ (exec.pc = "committed" => n > 1)}
Ahead(r) == {i \in Item : \E n \in Mine(r) : i \in RowsAt(n)}
InHand(r) == {i \in Item : staging[r][i] # -1}
Pure(r) == flaws[r] \subseteq {"overlap", "shrunk", "cancelled", "unrecorded"}

\* What is staged is the run's, counted once, and nothing that comes is staged already or twice
\* in the line; the first batch comes first, the last one last, and with it everything is there.
Counted(r) == \A i \in InHand(r) : i \in Wanted(r) /\ staging[r][i] = taken[r][i] - 1
Apart(r) == \A n \in Mine(r) :
  /\ RowsAt(n) \cap InHand(r) = {}
  /\ \A m \in Mine(r) : m # n => RowsAt(m) \cap RowsAt(n) = {}
Firsts(r) == \A n \in Mine(r) : Line[n].index = 0 => InHand(r) = {} /\ \A m \in Mine(r) : m >= n
Ends(r) == \A n \in Mine(r) : IsLast(Line[n]) =>
  /\ Wanted(r) \subseteq InHand(r) \cup Ahead(r)
  /\ \A m \in Mine(r) : m <= n
  /\ agent.run = r => agent.offset = agent.total
\* What the agent has passed is staged or in the line, in whole chunks.
Passed(r) == agent.run = r /\ agent.offset < agent.total =>
  /\ \A i \in Wanted(r) : Rank(Wanted(r), i) < agent.offset <=> i \in InHand(r) \cup Ahead(r)
  /\ agent.offset = 0 \/ agent.offset >= agent.size
  /\ \A k \in Nat : <<r, k>> \in accepted => k * agent.size + agent.size <= agent.offset
Swapped == basis.run # 0 /\ basis.flaws \subseteq {"overlap", "shrunk", "cancelled", "unrecorded"} =>
  \A i \in Item : stock[i] = taken[basis.run][i] - 1

Stocked(r) == Pure(r) => Counted(r) /\ Apart(r) /\ Firsts(r) /\ Ends(r) /\ Passed(r)

Stocks == kind = "inventory" => Swapped /\ \A r \in Run : Stocked(r)

-----------------------------------------------------------------------------
(* Offsets: the place of a row in a page's order, and the numbers of the chunks. *)

PageOf(S, o, size) == {i \in S : o <= Rank(S, i) /\ Rank(S, i) < o + size}

LEMMA ItemsFinite ==
  ASSUME NEW S \in SUBSET Item
  PROVE  IsFiniteSet(S) /\ Cardinality(S) \in 0 .. ItemCount
<1>1. IsFiniteSet(Item) /\ Cardinality(Item) = ItemCount
  BY FS_Interval, RowAssumption DEF Item
<1>2. IsFiniteSet(S) /\ Cardinality(S) <= Cardinality(Item)
  BY <1>1, FS_Subset
<1> QED BY <1>1, <1>2, FS_CardinalityType, RowAssumption

LEMMA RankIs ==
  ASSUME NEW S \in SUBSET Item, NEW r \in Item
  PROVE  Rank(S, r) \in Nat /\ Rank(S, r) <= Cardinality(S)
<1>1. IsFiniteSet(S) /\ {q \in S : q < r} \in SUBSET S /\ {q \in S : q < r} \in SUBSET Item
  BY ItemsFinite
<1>2. Cardinality({q \in S : q < r}) <= Cardinality(S) /\ Cardinality({q \in S : q < r}) \in Nat
  BY <1>1, FS_Subset, ItemsFinite
<1> QED BY <1>2 DEF Rank

\* A row is before the ones behind it, and has a place in the set.
LEMMA RankGrows ==
  ASSUME NEW S \in SUBSET Item, NEW p \in S, NEW r \in Item, p < r
  PROVE  Rank(S, p) < Rank(S, r)
<1> DEFINE A == {q \in S : q < p}
           B == {q \in S : q < r}
<1>1. /\ A \cup {p} \in SUBSET B /\ p \notin A
      /\ B \in SUBSET Item /\ A \in SUBSET Item
  <2>1. \A q \in S : q \in Int
    BY DEF Item
  <2>2. ~(p < p) /\ \A q \in S : q < p => q < r
    BY <2>1 DEF Item
  <2> QED BY <2>2
<1>2. Cardinality(A \cup {p}) = Cardinality(A) + 1
  BY <1>1, ItemsFinite, FS_AddElement
<1>3. Cardinality(A \cup {p}) <= Cardinality(B)
  BY <1>1, ItemsFinite, FS_Subset
<1>4. Cardinality(A) \in Nat /\ Cardinality(B) \in Nat
  BY <1>1, ItemsFinite
<1> QED BY <1>2, <1>3, <1>4 DEF Rank

LEMMA RankInside ==
  ASSUME NEW S \in SUBSET Item, NEW r \in S
  PROVE  Rank(S, r) < Cardinality(S)
<1> DEFINE A == {q \in S : q < r}
<1>1. A \cup {r} \in SUBSET S /\ r \notin A /\ A \in SUBSET Item
  <2>1. ~(r < r)
    BY DEF Item
  <2> QED BY <2>1
<1>2. Cardinality(A \cup {r}) = Cardinality(A) + 1
  BY <1>1, ItemsFinite, FS_AddElement
<1>3. Cardinality(A \cup {r}) <= Cardinality(S)
  BY <1>1, ItemsFinite, FS_Subset
<1> QED BY <1>1, <1>2, <1>3, ItemsFinite DEF Rank

\* The first row of a set, and the last one.
LEMMA Smallest ==
  ASSUME NEW T \in SUBSET Nat, T # {}
  PROVE  \E n \in T : \A m \in T : n <= m
<1> DEFINE R == OpToRel(<, Nat)
<1>1. \E n \in T : \A m \in T : <<m, n>> \notin R
  BY NatLessThanWellFounded, WFMin, Zenon
<1>2. \A m, n \in Nat : <<m, n>> \notin R => n <= m
  BY DEF OpToRel
<1> HIDE DEF R
<1> QED BY <1>1, <1>2

LEMMA FirstItem ==
  ASSUME NEW S \in SUBSET Item, S # {}
  PROVE  \E r \in S : \A q \in S : r <= q
<1>1. S \in SUBSET Nat
  BY RowAssumption DEF Item
<1> QED BY <1>1, Smallest

LEMMA LastItem ==
  ASSUME NEW S \in SUBSET Item, S # {}
  PROVE  \E r \in S : \A q \in S : q <= r
<1> DEFINE T == {ItemCount - q : q \in S}
<1>1. T \in SUBSET Nat /\ T # {}
  <2>1. \A q \in S : ItemCount - q \in Nat
    BY RowAssumption DEF Item
  <2> QED BY <2>1
<1>2. PICK n \in T : \A m \in T : n <= m
  BY <1>1, Smallest
<1>3. PICK r \in S : n = ItemCount - r
  OBVIOUS
<1>4. ASSUME NEW q \in S PROVE q <= r
  <2>1. ItemCount - q \in T
    OBVIOUS
  <2>2. q \in Int /\ r \in Int /\ ItemCount \in Int
    BY RowAssumption DEF Item
  <2>3. ItemCount - r <= ItemCount - q
    BY <1>2, <1>3, <2>1
  <2> QED BY <2>2, <2>3
<1> QED BY <1>4

\* There is no gap: the first row at or behind a place that is not beyond the set has that place.
LEMMA NoGap ==
  ASSUME NEW S \in SUBSET Item, NEW n \in Nat, NEW s \in S, Rank(S, s) >= n
  PROVE  \E r \in S : Rank(S, r) = n
<1> DEFINE T == {r \in S : Rank(S, r) >= n}
<1>1. T \in SUBSET Item /\ T # {}
  OBVIOUS
<1>2. PICK r \in T : \A q \in T : r <= q
  BY <1>1, FirstItem
<1> DEFINE A == {q \in S : q < r}
<1>3. CASE A = {}
  <2>1. Rank(S, r) = 0
    BY <1>3, FS_EmptySet DEF Rank
  <2> QED BY <1>2, <2>1
<1>4. CASE A # {}
  <2>1. A \in SUBSET Item
    OBVIOUS
  <2>2. PICK p \in A : \A q \in A : q <= p
    BY <1>4, <2>1, LastItem
  <2>3. A = {q \in S : q < p} \cup {p} /\ p \notin {q \in S : q < p}
    <3>1. \A q \in S : q \in Int
      BY DEF Item
    <3>2. p \in S /\ p < r /\ ~(p < p) /\ \A q \in S : (q < r <=> q < p \/ q = p)
      BY <2>2, <3>1
    <3> QED BY <3>2
  <2>4. {q \in S : q < p} \in SUBSET Item
    OBVIOUS
  <2>5. Cardinality(A) = Cardinality({q \in S : q < p}) + 1
    BY <2>3, <2>4, ItemsFinite, FS_AddElement
  <2>6. Rank(S, r) = Rank(S, p) + 1
    BY <2>5 DEF Rank
  <2>7. p \notin T /\ p \in S /\ p \in Item
    BY <1>2, <2>2 DEF Item
  <2>8. Rank(S, p) < n /\ Rank(S, r) >= n
    BY <1>2, <2>7, RankIs
  <2> QED BY <1>2, <2>6, <2>7, <2>8, RankIs
<1> QED BY <1>3, <1>4

\* A page has as many rows as it asks for at most, and none beyond the set.
LEMMA PageFits ==
  ASSUME NEW S \in SUBSET Item, NEW o \in Nat, NEW size \in Nat, PageOf(S, o, size) # {}
  PROVE  /\ Cardinality(PageOf(S, o, size)) <= size
         /\ o + Cardinality(PageOf(S, o, size)) <= Cardinality(S)
<1> DEFINE P == PageOf(S, o, size)
<1>1. P \in SUBSET Item /\ \A r \in P : r \in S /\ o <= Rank(S, r) /\ Rank(S, r) < o + size
  BY DEF PageOf
<1>2. PICK f \in P : \A q \in P : f <= q
  BY <1>1, FirstItem
<1>3. PICK p \in P : \A q \in P : q <= p
  BY <1>1, LastItem
<1> HIDE DEF P
<1> DEFINE A == {q \in S : q < f}
           B == P \ {p}
           C == {q \in S : q < p}
<1>4. A \in SUBSET Item /\ B \in SUBSET Item /\ C \in SUBSET Item /\ \A q \in P \cup S : q \in Int
  <2>1. \A q \in Item : q \in Int
    BY DEF Item
  <2>2. P \in SUBSET Item
    BY <1>1
  <2> QED BY <2>1, <2>2
<1>5. A \cap B = {} /\ (A \cup B) \in SUBSET C
  <2>1. \A q \in A : q < f /\ q < p /\ q \notin P /\ q \in S
    BY <1>1, <1>2, <1>4
  <2>2. \A q \in B : q < p /\ q \in S
    BY <1>1, <1>3, <1>4
  <2> QED BY <2>1, <2>2
<1>6. Cardinality(A \cup B) = Cardinality(A) + Cardinality(B)
  <2>1. Cardinality(A \cup B) = Cardinality(A) + Cardinality(B) - Cardinality(A \cap B)
    BY <1>4, ItemsFinite, FS_Union
  <2>2. Cardinality(A \cap B) = 0
    BY <1>5, FS_EmptySet
  <2> QED BY <1>4, <2>1, <2>2, ItemsFinite
<1>7. Cardinality(A \cup B) <= Cardinality(C)
  BY <1>4, <1>5, ItemsFinite, FS_Subset
<1>8. Cardinality(B) = Cardinality(P) - 1 /\ Cardinality(P) \in Nat
  BY <1>1, ItemsFinite, FS_RemoveElement
<1>9. Cardinality(A) = Rank(S, f) /\ Cardinality(C) = Rank(S, p)
  BY DEF Rank
<1>10. o + Cardinality(P) - 1 <= Rank(S, p)
  <2>1. Rank(S, f) \in Nat /\ Rank(S, f) >= o /\ Rank(S, p) \in Nat
    BY <1>1, RankIs
  <2> QED BY <1>6, <1>7, <1>8, <1>9, <2>1
<1>11. Rank(S, p) < o + size /\ Rank(S, p) < Cardinality(S) /\ Rank(S, p) \in Nat /\ Cardinality(S) \in Nat
  BY <1>1, RankIs, RankInside, ItemsFinite
<1>12. Cardinality(P) <= size /\ o + Cardinality(P) <= Cardinality(S)
  BY <1>8, <1>10, <1>11
<1> QED BY <1>12 DEF P


\* A page that is not the last one is full.
LEMMA PageFull ==
  ASSUME NEW S \in SUBSET Item, NEW o \in Nat, NEW size \in Nat \ {0}, NEW s \in S, Rank(S, s) >= o + size
  PROVE  Cardinality(PageOf(S, o, size)) = size
<1> DEFINE P == PageOf(S, o, size)
<1>1. PICK f \in S : Rank(S, f) = o
  BY RankIs, NoGap
<1>2. PICK g \in S : Rank(S, g) = o + size
  BY RankIs, NoGap
<1> DEFINE A == {q \in S : q < f}
           C == {q \in S : q < g}
<1>3. \A q \in S : q \in Int /\ q \in Item /\ Rank(S, q) \in Nat
  BY RankIs DEF Item
<1>4. \A p, q \in S : p < q => Rank(S, p) < Rank(S, q)
  BY RankGrows
<1>5. \A q \in S : q < f <=> Rank(S, q) < o
  BY <1>1, <1>3, <1>4
<1>6. \A q \in S : q < g <=> Rank(S, q) < o + size
  BY <1>2, <1>3, <1>4
<1>7. A \cap P = {} /\ A \cup P = C /\ A \in SUBSET Item /\ P \in SUBSET Item /\ C \in SUBSET Item
  <2>1. \A q \in S : q \in P <=> o <= Rank(S, q) /\ Rank(S, q) < o + size
    BY DEF PageOf
  <2>2. P \in SUBSET S
    BY DEF PageOf
  <2>3. \A q \in S : (q \in A <=> q < f) /\ (q \in C <=> q < g)
    OBVIOUS
  <2>4. A \in SUBSET S /\ C \in SUBSET S
    OBVIOUS
  <2> HIDE DEF A, P, C
  <2>5. \A q \in S : ~(q \in A /\ q \in P) /\ (q \in C <=> q \in A \/ q \in P)
    BY <1>3, <1>5, <1>6, <2>1, <2>3
  <2> QED BY <2>2, <2>4, <2>5
<1>8. Cardinality(A) = o /\ Cardinality(C) = o + size
  BY <1>1, <1>2 DEF Rank
<1> HIDE DEF A, C, P
<1>9. Cardinality(A \cup P) = Cardinality(A) + Cardinality(P) - Cardinality(A \cap P)
  BY <1>7, ItemsFinite, FS_Union
<1>10. Cardinality(A \cap P) = 0
  BY <1>7, FS_EmptySet
<1>11. Cardinality(P) = size
  <2>1. Cardinality(P) \in Nat
    BY <1>7, ItemsFinite
  <2>2. Cardinality(A \cup P) = o + size
    BY <1>7, <1>8
  <2> QED BY <1>8, <1>9, <1>10, <2>1, <2>2
<1> QED BY <1>11 DEF P
LEMMA DivIs ==
  ASSUME NEW a \in Nat, NEW s \in Nat \ {0}
  PROVE  a \div s \in Nat /\ (a \div s) * s <= a /\ a < (a \div s) * s + s
OBVIOUS

LEMMA Times ==
  ASSUME NEW p \in Nat, NEW q \in Nat, NEW s \in Nat, p < q
  PROVE  p * s + s <= q * s
<1>1. PICK d \in Nat : q = p + 1 + d
  <2>1. q - p - 1 \in Nat /\ q = p + 1 + (q - p - 1)
    OBVIOUS
  <2> QED BY <2>1
<1>2. (p + 1 + d) * s = p * s + s + d * s /\ d * s \in Nat /\ p * s \in Nat
  OBVIOUS
<1> QED BY <1>1, <1>2

LEMMA Index ==
  ASSUME NEW o \in Nat, NEW t \in Nat, NEW s \in Nat \ {0}, o < t
  PROVE  /\ o \div s \in Nat /\ Chunks(t, s) \in Nat /\ o \div s < Chunks(t, s)
         /\ o \div s = Chunks(t, s) - 1 => t <= o + s
<1> DEFINE p == o \div s
           q == (t + s - 1) \div s
<1>1. t + s - 1 \in Nat
  OBVIOUS
<1>2. p \in Nat /\ p * s <= o /\ o < p * s + s
  BY DivIs
<1>3. q \in Nat /\ q * s <= t + s - 1 /\ t + s - 1 < q * s + s
  BY <1>1, DivIs
<1> HIDE DEF p, q
<1>4. p * s \in Nat /\ q * s \in Nat
  BY <1>2, <1>3
<1>5. p < q
  <2>1. ASSUME q = p PROVE FALSE
    BY <2>1, <1>2, <1>3, <1>4
  <2>2. ASSUME q < p PROVE FALSE
    BY <2>2, <1>2, <1>3, <1>4, Times
  <2> QED BY <2>1, <2>2, <1>2, <1>3
<1>6. ASSUME p = q - 1 PROVE t <= o + s
  <2>1. q * s = p * s + s
    BY <1>6, <1>2, <1>3
  <2> QED BY <2>1, <1>2, <1>3, <1>4
<1> QED BY <1>2, <1>3, <1>5, <1>6 DEF p, q, Chunks
-----------------------------------------------------------------------------
(* The types, and what they say of the line.                               *)

LEMMA JobFacts ==
  ASSUME NEW j \in Jobs
  PROVE  /\ j.run \in Run /\ j.run # 0 /\ j.index \in Nat /\ j.total \in Nat /\ j.index < j.total
         /\ j.full \in BOOLEAN /\ j.start \in Nat
         /\ DOMAIN j.rows \in SUBSET Item /\ \A i \in DOMAIN j.rows : j.rows[i] \in Nat
         /\ DOMAIN j.rows # {}
<1>1. j \in [run : Run, index : Nat, total : Nat, full : BOOLEAN, start : Nat,
             rows : UNION {[D -> Nat] : D \in SUBSET Item}] /\ j.index < j.total /\ DOMAIN j.rows # {}
  BY DEF Jobs
<1>2. j.rows \in UNION {[D -> Nat] : D \in SUBSET Item}
  BY <1>1
<1>3. PICK D \in SUBSET Item : j.rows \in [D -> Nat]
  BY <1>2
<1> QED BY <1>1, <1>3, RowAssumption DEF Run

LEMMA NoExecIs ==
  ASSUME exec \in [job : Jobs, pc : {"open", "committed"}, attempt : 1 .. MaxAttempts]
  PROVE  exec # NoExec /\ exec.job \in Jobs /\ exec.pc \in {"open", "committed"} /\ exec.pc # "none"
<1>1. exec.pc # "none" /\ NoExec.pc = "none"
  BY DEF NoExec
<1> QED BY <1>1

\* The line, job by job.
LEMMA LineIs ==
  ASSUME JobsTyped
  PROVE  /\ Line \in Seq(Jobs) /\ Len(Line) \in Nat /\ Len(queue) \in Nat
         /\ \A n \in 1 .. Len(queue) : queue[n] \in Jobs
         /\ \A n \in 1 .. Len(Line) : Line[n] \in Jobs
         /\ exec = NoExec => Line = queue
         /\ exec # NoExec => /\ exec.job \in Jobs /\ exec.pc \in {"open", "committed"} /\ exec.pc # "none"
                             /\ exec.attempt \in 1 .. MaxAttempts
                             /\ Len(Line) = Len(queue) + 1 /\ Line[1] = exec.job
                             /\ \A n \in 2 .. Len(Line) : Line[n] = queue[n - 1]
                             /\ \A n \in 1 .. Len(queue) : Line[n + 1] = queue[n]
                             /\ Tail(Line) = queue
<1>1. queue \in Seq(Jobs) /\ (exec # NoExec => exec \in [job : Jobs, pc : {"open", "committed"}, attempt : 1 .. MaxAttempts])
  BY DEF JobsTyped
<1>2. CASE exec = NoExec
  <2>1. Line = queue
    BY <1>2 DEF Line
  <2> QED BY <1>1, <1>2, <2>1
<1>3. CASE exec # NoExec
  <2>1. exec.job \in Jobs /\ exec.pc \in {"open", "committed"} /\ exec.pc # "none" /\ exec.attempt \in 1 .. MaxAttempts
    BY <1>1, <1>3, NoExecIs
  <2>2. Line = <<exec.job>> \o queue
    BY <1>3 DEF Line
  <2> DEFINE e == exec.job
  <2>3. e \in Jobs
    BY <2>1
  <2> HIDE DEF e
  <2>4. LET L == <<e>> \o queue IN
        /\ L \in Seq(Jobs) /\ Len(L) = Len(queue) + 1 /\ L[1] = e
        /\ \A n \in 2 .. Len(L) : L[n] = queue[n - 1]
        /\ \A n \in 1 .. Len(queue) : L[n + 1] = queue[n]
    BY <1>1, <2>3
  <2>5. Tail(<<e>> \o queue) = queue
    BY <1>1, <2>3
  <2>6. Line = <<e>> \o queue
    BY <2>2 DEF e
  <2>7. /\ Line \in Seq(Jobs) /\ Len(Line) = Len(queue) + 1 /\ Line[1] = e /\ Tail(Line) = queue
        /\ \A n \in 2 .. Len(Line) : Line[n] = queue[n - 1]
        /\ \A n \in 1 .. Len(queue) : Line[n + 1] = queue[n]
    BY <2>4, <2>5, <2>6, Zenon
  <2>8. /\ Len(Line) \in Nat /\ Len(queue) \in Nat
        /\ \A n \in 1 .. Len(queue) : queue[n] \in Jobs
        /\ \A n \in 1 .. Len(Line) : Line[n] \in Jobs
    BY <1>1, <2>7
  <2> QED BY <1>3, <2>1, <2>7, <2>8 DEF e
<1> QED BY <1>2, <1>3

\* How the line moves.
LineGrown(j) == /\ Len(Line') = Len(Line) + 1 /\ Line'[Len(Line) + 1] = j
                /\ \A n \in 1 .. Len(Line) : Line'[n] = Line[n]
LineDropped == Len(Line') = Len(Line) - 1 /\ \A n \in 1 .. Len(Line) - 1 : Line'[n] = Line[n + 1]
LineTurned == /\ Len(Line') = Len(Line) /\ Line'[Len(Line)] = Line[1]
              /\ \A n \in 1 .. Len(Line) - 1 : Line'[n] = Line[n + 1]

LEMMA LineStays ==
  ASSUME queue' = queue, exec' = exec \/ (exec # NoExec /\ exec' # NoExec /\ exec'.job = exec.job)
  PROVE  Line' = Line
BY DEF Line

LEMMA LineTakes ==
  ASSUME JobsTyped, Take
  PROVE  Line' = Line
<1>1. queue \in Seq(Jobs) /\ queue # <<>> /\ exec = NoExec
  BY DEF JobsTyped, Take
<1>2. exec' # NoExec /\ exec'.job = Head(queue) /\ queue' = Tail(queue)
  <2>1. exec' = [job |-> Head(queue), pc |-> "open", attempt |-> 1] /\ queue' = Tail(queue)
    BY DEF Take
  <2>2. exec'.pc = "open" /\ NoExec.pc = "none"
    BY <2>1 DEF NoExec
  <2> QED BY <2>1, <2>2
<1>3. <<Head(queue)>> \o Tail(queue) = queue
  BY <1>1
<1> QED BY <1>1, <1>2, <1>3 DEF Line

LEMMA LineGrows ==
  ASSUME JobsTyped, NEW j \in Jobs, exec' = exec, queue' = Append(queue, j)
  PROVE  LineGrown(j)
<1>1. queue \in Seq(Jobs) /\ Line \in Seq(Jobs) /\ (exec # NoExec => exec.job \in Jobs)
  BY LineIs DEF JobsTyped
<1>2. Line' = Append(Line, j)
  <2>1. CASE exec = NoExec
    BY <2>1 DEF Line
  <2>2. CASE exec # NoExec
    <3> DEFINE e == exec.job
    <3>1. e \in Jobs
      BY <1>1, <2>2
    <3> HIDE DEF e
    <3>2. <<e>> \o Append(queue, j) = Append(<<e>> \o queue, j)
      BY <1>1, <3>1
    <3>3. Line' = <<e>> \o Append(queue, j) /\ Line = <<e>> \o queue
      BY <2>2 DEF Line, e
    <3> QED BY <3>2, <3>3
  <2> QED BY <2>1, <2>2
<1> QED BY <1>1, <1>2 DEF LineGrown

LEMMA LineDrops ==
  ASSUME JobsTyped, exec # NoExec, exec' = NoExec, queue' = queue
  PROVE  LineDropped
<1>1. Line' = queue
  BY DEF Line
<1> QED BY <1>1, LineIs DEF LineDropped

LEMMA LineTurns ==
  ASSUME JobsTyped, exec # NoExec, exec' = NoExec, queue' = Append(queue, exec.job)
  PROVE  LineTurned
<1>1. Line' = Append(queue, exec.job)
  BY DEF Line
<1>2. queue \in Seq(Jobs) /\ exec.job \in Jobs
  BY LineIs DEF JobsTyped
<1> DEFINE e == exec.job
<1> HIDE DEF e
<1>3. Len(Append(queue, e)) = Len(queue) + 1 /\ Append(queue, e)[Len(queue) + 1] = e
      /\ \A n \in 1 .. Len(queue) : Append(queue, e)[n] = queue[n]
  BY <1>2 DEF e
<1>4. Len(Line') = Len(queue) + 1 /\ Line'[Len(queue) + 1] = exec.job
      /\ \A n \in 1 .. Len(queue) : Line'[n] = queue[n]
  BY <1>1, <1>3 DEF e
<1> QED BY <1>4, LineIs DEF LineTurned

-----------------------------------------------------------------------------
(* Types.                                                                  *)

LEMMA PageIs ==
  ASSUME AgentTyped
  PROVE  /\ Selected(agent.full, agent.window) \in SUBSET Item
         /\ Page = PageOf(Selected(agent.full, agent.window), agent.offset, agent.size)
         /\ Page \in SUBSET Item /\ \A i \in Page : source[i] \in Nat /\ source[i] > 0
<1>1. Selected(agent.full, agent.window) \in SUBSET Item /\ \A i \in Selected(agent.full, agent.window) : source[i] > 0
  BY DEF Selected
<1>2. Page = PageOf(Selected(agent.full, agent.window), agent.offset, agent.size)
  BY DEF Page, PageOf, Rank
<1>3. Page \in SUBSET Selected(agent.full, agent.window)
  BY <1>2 DEF PageOf
<1>4. \A i \in Item : source[i] \in Nat
  BY RowAssumption DEF AgentTyped
<1> QED BY <1>1, <1>2, <1>3, <1>4

\* A batch is a job of the run, and its rows are inside what the run may read.
LEMMA BatchIs ==
  ASSUME AgentTyped, BooksTyped, Sending
  PROVE  /\ Batch \in Jobs /\ Batch.run = agent.run /\ agent.run \in Run /\ Batch.start = agent.start
         /\ Batch.full = agent.full
         /\ Batch.index = agent.offset \div agent.size /\ Batch.total = Chunks(agent.total, agent.size)
         /\ Batch.rows = [i \in Page |-> source[i]]
         /\ Page \in SUBSET Item /\ Page # {}
         /\ agent.offset + Cardinality(Page) \in 0 .. ItemCount
         /\ Cardinality(Page) \in Nat /\ Cardinality(Page) <= agent.size
         /\ agent.offset + Cardinality(Page) <= Cardinality(Selected(agent.full, agent.window))
<1>1. /\ agent.run \in Run /\ agent.full \in BOOLEAN /\ agent.start \in Nat /\ agent.total \in Nat
      /\ agent.offset \in Nat /\ agent.size \in Nat \ {0} /\ agent.offset < agent.total /\ Page # {}
  BY RowAssumption DEF AgentTyped, Sending
<1> DEFINE b == Batch
<1>2. b = [run |-> agent.run, index |-> agent.offset \div agent.size,
           total |-> Chunks(agent.total, agent.size), full |-> agent.full, start |-> agent.start,
           rows |-> [i \in Page |-> source[i]]]
  BY DEF Batch
<1>3. agent.offset \div agent.size \in Nat /\ Chunks(agent.total, agent.size) \in Nat
      /\ agent.offset \div agent.size < Chunks(agent.total, agent.size)
  BY <1>1, Index
<1>4. Page \in SUBSET Item /\ \A i \in Page : source[i] \in Nat
  BY PageIs
<1>5. [i \in Page |-> source[i]] \in UNION {[D -> Nat] : D \in SUBSET Item}
  <2>1. [i \in Page |-> source[i]] \in [Page -> Nat]
    BY <1>4
  <2> QED BY <1>4, <2>1
<1> DEFINE R == [i \in Page |-> source[i]]
           U == UNION {[D -> Nat] : D \in SUBSET Item}
           c == Chunks(agent.total, agent.size)
           x == agent.offset \div agent.size
<1>6. b \in Jobs
  <2>1. R \in U /\ x \in Nat /\ c \in Nat /\ x < c
    BY <1>3, <1>5
  <2>2. b = [run |-> agent.run, index |-> x, total |-> c, full |-> agent.full, start |-> agent.start, rows |-> R]
    BY <1>2
  <2> HIDE DEF b, R, U, x, c
  <2>3. b \in [run : Run, index : Nat, total : Nat, full : BOOLEAN, start : Nat, rows : U] /\ b.index < b.total /\ b.rows = R
    BY <1>1, <2>1, <2>2
  <2>4. DOMAIN b.rows # {}
    BY <1>1, <2>3 DEF R
  <2> QED BY <2>3, <2>4 DEF Jobs, U
<1>7. PageOf(Selected(agent.full, agent.window), agent.offset, agent.size) # {}
  BY <1>1, PageIs
<1>8. /\ Cardinality(Page) <= agent.size
      /\ agent.offset + Cardinality(Page) <= Cardinality(Selected(agent.full, agent.window))
  BY <1>1, <1>7, PageIs, PageFits
<1>9. Cardinality(Page) \in Nat /\ Cardinality(Selected(agent.full, agent.window)) \in 0 .. ItemCount
  BY PageIs, ItemsFinite
<1>10. agent.offset + Cardinality(Page) \in 0 .. ItemCount
  BY <1>1, <1>8, <1>9, RowAssumption
<1> HIDE DEF b, R, U, x, c
<1> QED BY <1>1, <1>2, <1>4, <1>6, <1>8, <1>9, <1>10 DEF b

LEMMA InitTyped == Init => Typed
<1> SUFFICES ASSUME Init PROVE Typed
  OBVIOUS
<1>1. AgentTyped
  <2>1. \A s \in Sources : s \in [Item -> 0 .. 2 + MaxTroubles]
    BY RowAssumption DEF Item
  <2>2. source \in [Item -> 0 .. 2 + MaxTroubles]
    BY <2>1 DEF Init
  <2>3. BatchSize \in 1 .. BatchSize /\ 0 \in 0 .. ItemCount /\ {} \in SUBSET Item /\ FALSE \in BOOLEAN
    BY RowAssumption
  <2> QED BY <2>2, <2>3 DEF Init, AgentTyped, Idle
<1>2. JobsTyped
  <2>1. queue = <<>> /\ exec = NoExec /\ accepted = {} /\ Line = <<>>
    BY DEF Init, Line
  <2> QED BY <2>1 DEF JobsTyped
<1>3. TablesTyped
  <2>1. NoStock \in [Item -> Int]
    BY DEF NoStock
  <2>2. /\ row \in [Item -> [ver : Nat, active : BOOLEAN, synced : 0 .. clock]]
        /\ basis \in [run : Run \cup {0}, flaws : SUBSET Flaw, later : SUBSET Item]
    BY DEF Init, NoBasis
  <2> QED BY <2>1, <2>2 DEF Init, TablesTyped
<1>4. BooksTyped
  BY RowAssumption DEF Init, BooksTyped, Run
<1> QED BY <1>1, <1>2, <1>3, <1>4 DEF Typed

LEMMA AgentTypedStep ==
  ASSUME Typed, [Next]_rowVars
  PROVE  AgentTyped'
<1> USE DEF Typed
<1>1. ASSUME NEW i \in Item, NEW v \in 0 .. 2 + MaxTroubles, Edit(i, v) PROVE AgentTyped'
  <2>1. agent' = agent /\ saved' = saved /\ source' = [source EXCEPT ![i] = v]
    BY <1>1 DEF Edit, agentVars
  <2> QED BY <2>1 DEF AgentTyped
<1>2. ASSUME NEW requested \in BOOLEAN, NEW window \in Windows \cup {{}}, Begin(requested, window)
      PROVE  AgentTyped'
  <2> DEFINE full == IsFull(requested)
             selected == Selected(full, window)
             resume == ~requested /\ 0 < saved.offset /\ saved.offset < Cardinality(selected)
             offset == IF resume THEN saved.offset ELSE 0
  <2>1. full \in BOOLEAN
    BY DEF IsFull, AgentTyped
  <2>2. window \in SUBSET Item /\ selected \in SUBSET Item
    BY RowAssumption DEF Item, Selected
  <2>3. Cardinality(selected) \in 0 .. ItemCount
    BY <2>2, ItemsFinite
  <2>4. offset \in 0 .. ItemCount
    BY RowAssumption DEF AgentTyped
  <2>5. /\ agent' = [run |-> clock, full |-> full, window |-> window, start |-> clock + 1,
                     total |-> Cardinality(selected), offset |-> offset, size |-> BatchSize, first |-> offset]
        /\ saved' = saved \/ saved' = [saved EXCEPT !.offset = 0]
        /\ source' = source /\ clock \in Run
    BY <1>2 DEF Begin
  <2> HIDE DEF full, selected, resume, offset
  <2>6. BatchSize \in 1 .. BatchSize /\ clock + 1 \in Nat
    BY RowAssumption DEF BooksTyped
  <2>7. agent' \in [run : Run \cup {0}, full : BOOLEAN, window : SUBSET Item, start : Nat, total : 0 .. ItemCount,
                    offset : 0 .. ItemCount, size : 1 .. BatchSize, first : 0 .. ItemCount]
    BY <2>1, <2>2, <2>3, <2>4, <2>5, <2>6
  <2>8. saved' \in [offset : 0 .. ItemCount, initial : BOOLEAN]
    BY <2>5, RowAssumption DEF AgentTyped
  <2> QED BY <2>5, <2>7, <2>8 DEF AgentTyped
<1>3. ASSUME NEW requested \in BOOLEAN, NEW window \in Windows \cup {{}}, BeginEmpty(requested, window)
      PROVE  AgentTyped'
  <2>1. agent' = agent /\ saved' = [offset |-> 0, initial |-> FALSE] /\ source' = source
    BY <1>3 DEF BeginEmpty
  <2> QED BY <2>1, RowAssumption DEF AgentTyped
<1>4. CASE SendOk \/ SendLost
  <2>1. agent.offset + Cardinality(Page) \in 0 .. ItemCount
    BY <1>4, BatchIs DEF SendOk, SendLost
  <2>2. agent' = [agent EXCEPT !.offset = agent.offset + Cardinality(Page)] /\ saved' = saved /\ source' = source
    BY <1>4 DEF SendOk, SendLost, GoOn
  <2> QED BY <2>1, <2>2 DEF AgentTyped
<1>5. ASSUME NEW arrival \in {"none", "known", "queued"}, SendFails(arrival) PROVE AgentTyped'
  <2>1. source' = source
    BY <1>5 DEF SendFails
  <2>2. CASE /\ agent.size > MinBatchSize /\ saved' = saved
             /\ agent' = [agent EXCEPT !.size = IF agent.size \div 2 < MinBatchSize THEN MinBatchSize ELSE agent.size \div 2]
    <3> DEFINE s == IF agent.size \div 2 < MinBatchSize THEN MinBatchSize ELSE agent.size \div 2
    <3>1. s \in 1 .. BatchSize
      BY <2>2, RowAssumption DEF AgentTyped
    <3>2. agent' = [agent EXCEPT !.size = s]
      BY <2>2
    <3> HIDE DEF s
    <3> QED BY <2>1, <2>2, <3>1, <3>2 DEF AgentTyped
  <2>3. CASE agent' = Idle /\ saved' = [saved EXCEPT !.offset = agent.offset]
    <3>1. 0 \in 0 .. ItemCount /\ BatchSize \in 1 .. BatchSize /\ {} \in SUBSET Item /\ FALSE \in BOOLEAN
      BY RowAssumption
    <3> QED BY <2>1, <2>3, <3>1 DEF AgentTyped, Idle
  <2> QED BY <1>5, <2>2, <2>3 DEF SendFails
<1>6. CASE EndRun \/ CancelRun
  <2>1. /\ agent' = Idle /\ source' = source
        /\ saved' = saved \/ saved' = [saved EXCEPT !.offset = 0] \/ saved' = [offset |-> 0, initial |-> FALSE]
    BY <1>6 DEF EndRun, CancelRun, Leave
  <2>2. 0 \in 0 .. ItemCount /\ BatchSize \in 1 .. BatchSize /\ {} \in SUBSET Item /\ FALSE \in BOOLEAN
    BY RowAssumption
  <2>3. saved' \in [offset : 0 .. ItemCount, initial : BOOLEAN]
    <3>1. saved \in [offset : 0 .. ItemCount, initial : BOOLEAN]
      BY DEF AgentTyped
    <3>2. [saved EXCEPT !.offset = 0] \in [offset : 0 .. ItemCount, initial : BOOLEAN]
      BY <2>2, <3>1
    <3>3. [offset |-> 0, initial |-> FALSE] \in [offset : 0 .. ItemCount, initial : BOOLEAN]
      BY <2>2
    <3> QED BY <2>1, <3>1, <3>2, <3>3, Zenon
  <2>4. agent' \in [run : Run \cup {0}, full : BOOLEAN, window : SUBSET Item, start : Nat, total : 0 .. ItemCount,
                    offset : 0 .. ItemCount, size : 1 .. BatchSize, first : 0 .. ItemCount]
    BY <2>1, <2>2, RowAssumption DEF Idle
  <2> QED BY <2>1, <2>3, <2>4 DEF AgentTyped
<1>7. CASE Take \/ TakeLost \/ Work \/ Restart \/ UNCHANGED rowVars
  <2>1. agent' = agent /\ saved' = saved /\ source' = source
    BY <1>7 DEF Take, TakeLost, Work, Commit, CommitNothing, TransactionFails, Refuse, Finish, FinishBadly,
                FinishFails, Restart, rowVars, agentVars
  <2> QED BY <2>1 DEF AgentTyped
<1> QED BY <1>1, <1>2, <1>3, <1>4, <1>5, <1>6, <1>7 DEF Next, AgentStep

\* What the worker notes of a run.
LEMMA WorkMore ==
  ASSUME Work, ~CommitNothing
  PROVE  \/ \E told, marked \in BOOLEAN, F \in {{}, {"failed"}} : GiveUp(told, marked, F)
         \/ \E told, marked \in BOOLEAN : FinishBadly(told, marked)
         \/ Note({exec.job.run}, {"repeated"}) \/ flaws' = flaws
<1>1. CASE TransactionFails
  BY <1>1 DEF TransactionFails
<1>2. CASE FinishFails
  BY <1>2 DEF FinishFails
<1>3. CASE Refuse
  BY <1>3 DEF Refuse
<1>4. CASE Commit \/ Finish
  BY <1>4 DEF Commit, Finish
<1> QED BY <1>1, <1>2, <1>3, <1>4 DEF Work

LEMMA WorkIs ==
  ASSUME Work
  PROVE  \/ \E told, marked \in BOOLEAN, F \in {{}, {"failed"}} : GiveUp(told, marked, F)
         \/ \E told, marked \in BOOLEAN : FinishBadly(told, marked)
         \/ Note({exec.job.run}, {"swallowed"}) \/ Note({exec.job.run}, {"repeated"}) \/ flaws' = flaws
BY WorkMore DEF CommitNothing

LEMMA BooksTypedStep ==
  ASSUME Typed, [Next]_rowVars
  PROVE  BooksTyped' /\ clock' \in {clock, clock + 1} /\ troublesLeft' <= troublesLeft
<1> USE DEF Typed
<1>0. /\ clock \in Int /\ troublesLeft \in Int
      /\ Trouble => troublesLeft' \in 0 .. MaxTroubles /\ troublesLeft' <= troublesLeft
  BY RowAssumption DEF BooksTyped, Trouble
<1>1. \A R, F : F \in SUBSET Flaw /\ Note(R, F) => flaws' \in [Run -> SUBSET Flaw]
  BY DEF Note, BooksTyped
<1>2. ASSUME NEW i \in Item, NEW v \in 0 .. 2 + MaxTroubles, Edit(i, v)
      PROVE  BooksTyped' /\ clock' = clock /\ troublesLeft' <= troublesLeft
  <2>1. {"edited"} \in SUBSET Flaw
    BY DEF Flaw
  <2> QED BY <1>0, <1>1, <1>2, <2>1 DEF Edit, BooksTyped, agentVars
<1>3. ASSUME NEW requested \in BOOLEAN, NEW window \in Windows \cup {{}}, Begin(requested, window)
      PROVE  BooksTyped' /\ clock' = clock + 1 /\ troublesLeft' <= troublesLeft
  <2>1. flaws' \in [Run -> SUBSET Flaw]
    <3>1. PICK F \in SUBSET {"resumed", "overlap"} : Note({clock}, F)
      <4> DEFINE G(b, c) == (IF b THEN {"resumed"} ELSE {}) \cup (IF c THEN {"overlap"} ELSE {})
      <4>1. \E b, c : Note({clock}, G(b, c))
        BY <1>3 DEF Begin
      <4>2. \A b, c : G(b, c) \in SUBSET {"resumed", "overlap"}
        OBVIOUS
      <4> QED BY <4>1, <4>2
    <3>2. F \in SUBSET Flaw
      BY DEF Flaw
    <3> QED BY <1>1, <3>1, <3>2
  <2>2. /\ clock \in Run /\ clock' = clock + 1 /\ kind' = kind /\ troublesLeft' = troublesLeft
        /\ status' = status /\ done' = done
        /\ \E S : taken' = [taken EXCEPT ![clock] = [i \in Item |-> IF i \in S THEN source[i] ELSE 0]]
    BY <1>3 DEF Begin, tableVars
  <2>3. \A i \in Item : source[i] \in Nat
    BY RowAssumption DEF AgentTyped
  <2>4. taken' \in [Run -> [Item -> Nat]]
    <3>1. PICK S : taken' = [taken EXCEPT ![clock] = [i \in Item |-> IF i \in S THEN source[i] ELSE 0]]
      BY <2>2
    <3>2. [i \in Item |-> IF i \in S THEN source[i] ELSE 0] \in [Item -> Nat]
      BY <2>3
    <3> QED BY <3>1, <3>2 DEF BooksTyped
  <2>5. clock' \in 1 .. MaxRuns + 1
    BY <2>2, RowAssumption DEF Run
  <2> QED BY <1>0, <2>1, <2>2, <2>4, <2>5 DEF BooksTyped
<1>4. CASE SendOk \/ SendLost \/ \E arrival \in {"none", "known", "queued"} : SendFails(arrival)
  <2>1. /\ UNCHANGED <<kind, clock, taken, done>>
        /\ Trouble \/ troublesLeft' = troublesLeft
        /\ Sending /\ ((\E pushed \in BOOLEAN : Enqueue(Batch, pushed)) \/ status' = status)
    BY <1>4 DEF SendOk, SendLost, SendFails
  <2>2. flaws' \in [Run -> SUBSET Flaw]
    <3>1. flaws' = flaws \/ \E F \in SUBSET {"lost", "split", "shrunk"} : Note({agent.run}, F)
      <4>1. ASSUME NEW arrival \in {"none", "known", "queued"}, SendFails(arrival)
            PROVE  \E F \in SUBSET {"lost", "split", "shrunk"} : Note({agent.run}, F)
        <5> DEFINE lost == IF arrival = "known" THEN {"lost"} ELSE {}
                   cut == IF arrival = "queued" THEN "split" ELSE "shrunk"
        <5>1. Note({agent.run}, lost \cup {cut}) \/ Note({agent.run}, lost)
          BY <4>1 DEF SendFails
        <5>2. lost \in SUBSET {"lost", "split", "shrunk"} /\ cut \in {"lost", "split", "shrunk"}
          OBVIOUS
        <5> HIDE DEF lost, cut
        <5>3. lost \cup {cut} \in SUBSET {"lost", "split", "shrunk"}
          BY <5>2
        <5> QED BY <5>1, <5>2, <5>3
      <4>2. CASE SendOk
        BY <4>2 DEF SendOk
      <4>3. CASE SendLost
        <5>1. {"lost"} \in SUBSET {"lost", "split", "shrunk"} /\ Note({agent.run}, {"lost"})
          BY <4>3 DEF SendLost
        <5> QED BY <5>1
      <4> QED BY <1>4, <4>1, <4>2, <4>3
    <3>2. \A F \in SUBSET {"lost", "split", "shrunk"} : F \in SUBSET Flaw
      BY DEF Flaw
    <3> QED BY <1>1, <3>1, <3>2 DEF BooksTyped
  <2>3. status' \in [Run -> {"none", "open", "ok", "failed"}]
    <3>1. status' = status \/ \E s \in {"none", "open", "ok", "failed"} : status' = [status EXCEPT ![Batch.run] = s]
      <4>1. Batch.run \in Run /\ status[Batch.run] \in {"none", "open", "ok", "failed"}
        BY <2>1, BatchIs DEF BooksTyped
      <4> QED BY <2>1, <4>1 DEF Enqueue
    <3> QED BY <3>1 DEF BooksTyped
  <2> QED BY <1>0, <2>1, <2>2, <2>3 DEF BooksTyped
<1>5. CASE EndRun \/ Take \/ UNCHANGED rowVars
      \/ \E requested \in BOOLEAN, window \in Windows \cup {{}} : BeginEmpty(requested, window)
  <2>1. /\ UNCHANGED <<kind, clock, taken, troublesLeft, flaws, status>>
        /\ done' = done \/ (done' = done \cup {agent.run} /\ agent.run \in Run)
    BY <1>5 DEF EndRun, Leave, Take, BeginEmpty, rowVars, agentVars, AgentTyped
  <2> QED BY <1>0, <2>1 DEF BooksTyped
<1>7. CASE CancelRun \/ TakeLost
  <2>1. /\ UNCHANGED <<kind, clock, taken, status>> /\ Trouble
        /\ done' = done \/ (done' = done \cup {agent.run} /\ agent.run \in Run)
        /\ Note({agent.run}, {"cancelled"}) \/ Note({Head(queue).run}, {"lost"})
    BY <1>7 DEF CancelRun, TakeLost, Leave, agentVars, AgentTyped
  <2>2. {"cancelled"} \in SUBSET Flaw /\ {"lost"} \in SUBSET Flaw
    BY DEF Flaw
  <2> QED BY <1>0, <1>1, <2>1, <2>2 DEF BooksTyped
<1>6. CASE Work \/ Restart
  <2>1. /\ UNCHANGED <<kind, clock, taken, done>> /\ (Trouble \/ troublesLeft' = troublesLeft)
    BY <1>6 DEF Work, Commit, CommitNothing, TransactionFails, Refuse, Finish, FinishBadly, FinishFails, Restart,
                agentVars
  <2>2. flaws' \in [Run -> SUBSET Flaw]
    <3>1. CASE Work
      <4>1. flaws' = flaws \/ \E F \in SUBSET {"swallowed", "failed", "repeated", "unrecorded"} : Note({exec.job.run}, F)
        <5>1. ASSUME NEW told \in BOOLEAN, NEW F \in {{}, {"failed"}}
              PROVE  F \cup Unrecorded(told) \in SUBSET {"swallowed", "failed", "repeated", "unrecorded"}
          BY DEF Unrecorded
        <5>2. CASE \E told, marked \in BOOLEAN, F \in {{}, {"failed"}} : GiveUp(told, marked, F)
          <6>1. PICK told \in BOOLEAN, F \in {{}, {"failed"}} : Note({exec.job.run}, F \cup Unrecorded(told))
            BY <5>2 DEF GiveUp
          <6> QED BY <5>1, <6>1
        <5>3. CASE \E told, marked \in BOOLEAN : FinishBadly(told, marked)
          <6>1. PICK told \in BOOLEAN : Note({exec.job.run}, Unrecorded(told))
            BY <5>3 DEF FinishBadly
          <6>2. Unrecorded(told) \in SUBSET {"swallowed", "failed", "repeated", "unrecorded"}
            BY DEF Unrecorded
          <6> QED BY <6>1, <6>2
        <5>4. CASE Note({exec.job.run}, {"swallowed"}) \/ Note({exec.job.run}, {"repeated"}) \/ flaws' = flaws
          <6>1. {"swallowed"} \in SUBSET {"swallowed", "failed", "repeated", "unrecorded"}
                /\ {"repeated"} \in SUBSET {"swallowed", "failed", "repeated", "unrecorded"}
            OBVIOUS
          <6> QED BY <5>4, <6>1
        <5> QED BY <3>1, <5>2, <5>3, <5>4, WorkIs
      <4>2. \A F \in SUBSET {"swallowed", "failed", "repeated", "unrecorded"} : F \in SUBSET Flaw
        BY DEF Flaw
      <4> QED BY <1>1, <4>1, <4>2 DEF BooksTyped
    <3>2. CASE Restart
      <4>1. \E G, H : flaws' = [r \in Run |-> flaws[r] \cup (IF G[r] THEN {"reordered"} ELSE {})
                                                       \cup (IF H[r] THEN {"repeated"} ELSE {})]
        <5> DEFINE behind == {queue[n].run : n \in 1 .. Len(queue)} \cup {exec.job.run}
                   again == IF exec.pc = "committed" THEN {exec.job.run} ELSE {}
                   G == [r \in Run |-> queue # <<>> /\ r \in behind]
                   H == [r \in Run |-> r \in again]
        <5>1. flaws' = [r \in Run |-> flaws[r] \cup (IF queue # <<>> /\ r \in behind THEN {"reordered"} ELSE {})
                                               \cup (IF r \in again THEN {"repeated"} ELSE {})]
          BY <3>2 DEF Restart
        <5> HIDE DEF behind, again
        <5>2. \A r \in Run : (G[r] <=> queue # <<>> /\ r \in behind) /\ (H[r] <=> r \in again)
          OBVIOUS
        <5>3. flaws' = [r \in Run |-> flaws[r] \cup (IF G[r] THEN {"reordered"} ELSE {})
                                               \cup (IF H[r] THEN {"repeated"} ELSE {})]
          BY <5>1, <5>2, Zenon
        <5> HIDE DEF G, H
        <5> QED BY <5>3
      <4>2. PICK G, H : flaws' = [r \in Run |-> flaws[r] \cup (IF G[r] THEN {"reordered"} ELSE {})
                                                         \cup (IF H[r] THEN {"repeated"} ELSE {})]
        BY <4>1
      <4>3. {"reordered"} \in SUBSET Flaw /\ {"repeated"} \in SUBSET Flaw
        BY DEF Flaw
      <4> QED BY <4>2, <4>3 DEF BooksTyped
    <3> QED BY <1>6, <3>1, <3>2
  <2>3. status' \in [Run -> {"none", "open", "ok", "failed"}]
    <3>1. status' = status \/ \E s \in {"ok", "failed"} : status' = [status EXCEPT ![exec.job.run] = s]
      BY <1>6 DEF Work, Commit, CommitNothing, TransactionFails, Refuse, Finish, FinishBadly, FinishFails, Restart,
                  TryAgain, GiveUp
    <3> QED BY <3>1 DEF BooksTyped
  <2> QED BY <1>0, <2>1, <2>2, <2>3 DEF BooksTyped
<1> QED BY <1>0, <1>2, <1>3, <1>4, <1>5, <1>6, <1>7 DEF Next, AgentStep

-----------------------------------------------------------------------------
(* The kinds of steps.                                                     *)

\* A batch is sent, whatever the agent makes of the answer.
Posts == /\ Sending /\ Enqueue(Batch, TRUE) /\ exec' = exec
          /\ UNCHANGED <<kind, clock, source, taken, tableVars>>
          /\ \/ agent' = [agent EXCEPT !.offset = agent.offset + Cardinality(Page)]
             \/ agent' = Idle
             \/ /\ \E s \in 1 .. agent.size : agent' = [agent EXCEPT !.size = s]
                /\ "split" \in flaws'[agent.run]
\* A batch is known to the queue and is not in it.
Loses == /\ Sending /\ Enqueue(Batch, FALSE) /\ queue' = queue /\ exec' = exec
         /\ UNCHANGED <<kind, clock, source, taken, tableVars>>
         /\ "lost" \in flaws'[agent.run]
         /\ \/ agent' = [agent EXCEPT !.offset = agent.offset + Cardinality(Page)]
            \/ agent' = Idle
            \/ \E s \in 1 .. agent.size : agent' = [agent EXCEPT !.size = s]
\* The first job of the queue is lost.
Vanishes == /\ exec = NoExec /\ exec' = NoExec /\ queue # <<>> /\ queue' = Tail(queue)
            /\ UNCHANGED <<kind, clock, source, taken, accepted, status, agentVars, tableVars>>
            /\ "lost" \in flaws'[Head(queue).run]
\* A job leaves, done or failed.
Drops == /\ exec # NoExec /\ exec' = NoExec
         /\ UNCHANGED <<kind, clock, source, taken, agentVars, queue, tableVars>>
         /\ accepted' \in SUBSET accepted
         /\ exec.pc = "committed" \/ "failed" \in flaws'[exec.job.run]
         /\ \/ status' = status
            \/ status' = [status EXCEPT ![exec.job.run] = "failed"]
            \/ status' = [status EXCEPT ![exec.job.run] = "ok"] /\ exec.pc = "committed" /\ IsLast(exec.job)
\* The agent or processIngest goes on, and nothing moves.
Waits == /\ UNCHANGED <<kind, clock, source, taken, accepted, status, tableVars>>
         /\ \/ Take
            \/ queue' = queue /\ exec' = exec
            \/ /\ queue' = queue /\ exec # NoExec
               /\ exec' \in [job : {exec.job}, pc : {"open", "committed"}, attempt : 1 .. MaxAttempts]
               /\ agent' = agent
               /\ \/ exec'.pc = "open" /\ (exec.pc = "open" \/ "repeated" \in flaws'[exec.job.run])
                  \/ exec'.pc = "committed" /\ "swallowed" \in flaws'[exec.job.run] /\ kind = "orders"
         /\ \/ agent' = agent
            \/ agent' = Idle
            \/ \E s \in 1 .. agent.size : agent' = [agent EXCEPT !.size = s]

LEMMA Steps ==
  ASSUME Typed, [Next]_rowVars
  PROVE  \/ \E i \in Item, v \in 0 .. 2 + MaxTroubles : Edit(i, v)
         \/ \E requested \in BOOLEAN, window \in Windows \cup {{}} : Begin(requested, window)
         \/ Posts \/ Loses \/ Commit \/ Drops \/ Vanishes \/ Restart \/ Waits
<1> USE DEF Typed
<1>0. \A F : exec.job.run \in Run /\ Note({exec.job.run}, F) => F \in SUBSET flaws'[exec.job.run]
  BY DEF Note, BooksTyped
<1>a. exec # NoExec => /\ exec.job \in Jobs /\ exec.job.run \in Run /\ exec.pc \in {"open", "committed"}
                       /\ exec.attempt \in 1 .. MaxAttempts
  BY LineIs, JobFacts
<1>b. exec.pc # "none" => exec # NoExec
  BY DEF NoExec
<1>1. ASSUME NEW requested \in BOOLEAN, NEW window \in Windows \cup {{}}, BeginEmpty(requested, window)
      PROVE  Waits
  BY <1>1 DEF BeginEmpty, Waits, tableVars
<1>2. CASE SendOk
  BY <1>2 DEF SendOk, GoOn, Posts, tableVars
<1>c. ASSUME Sending, NEW F, Note({agent.run}, F) PROVE F \in SUBSET flaws'[agent.run]
  <2>1. agent.run \in Run
    BY <1>c DEF Sending, AgentTyped
  <2> QED BY <1>c, <2>1 DEF Note, BooksTyped
<1>d. Enqueue(Batch, FALSE) => queue' = queue
  BY DEF Enqueue
<1>13. CASE SendLost
  <2>1. "lost" \in flaws'[agent.run]
    BY <1>13, <1>c DEF SendLost
  <2> QED BY <1>13, <1>d, <2>1 DEF SendLost, GoOn, Loses, tableVars
<1>3. ASSUME NEW arrival \in {"none", "known", "queued"}, SendFails(arrival) PROVE Posts \/ Loses \/ Waits
  <2>1. agent' = Idle \/ \E s \in 1 .. agent.size : agent' = [agent EXCEPT !.size = s]
    <3>1. CASE agent' # Idle
      <4>1. agent.size > MinBatchSize /\ agent.size \in Nat
            /\ agent' = [agent EXCEPT !.size = IF agent.size \div 2 < MinBatchSize THEN MinBatchSize ELSE agent.size \div 2]
        BY <1>3, <3>1 DEF SendFails, AgentTyped
      <4> DEFINE s == IF agent.size \div 2 < MinBatchSize THEN MinBatchSize ELSE agent.size \div 2
      <4>2. s \in 1 .. agent.size
        BY <4>1, RowAssumption
      <4>3. agent' = [agent EXCEPT !.size = s]
        BY <4>1
      <4> HIDE DEF s
      <4> QED BY <4>2, <4>3
    <3> QED BY <3>1
  <2>0. Sending /\ exec' = exec /\ UNCHANGED <<kind, clock, source, taken, tableVars>>
    BY <1>3 DEF SendFails
  <2>2. CASE arrival = "queued"
    <3>1. agent' = Idle \/ "split" \in flaws'[agent.run]
      <4>1. agent' = Idle \/ Note({agent.run}, {} \cup {"split"})
        BY <1>3, <2>2 DEF SendFails
      <4> QED BY <1>c, <2>0, <4>1
    <3>2. Enqueue(Batch, TRUE)
      BY <1>3, <2>2 DEF SendFails
    <3> QED BY <2>0, <2>1, <3>1, <3>2 DEF Posts
  <2>3. CASE arrival = "known"
    <3>1. "lost" \in flaws'[agent.run]
      <4>1. Note({agent.run}, {"lost"} \cup {"shrunk"}) \/ Note({agent.run}, {"lost"})
        BY <1>3, <2>3 DEF SendFails
      <4> QED BY <1>c, <2>0, <4>1
    <3>2. Enqueue(Batch, FALSE)
      BY <1>3, <2>3 DEF SendFails
    <3> QED BY <1>d, <2>0, <2>1, <3>1, <3>2 DEF Loses
  <2>4. CASE arrival = "none"
    <3>1. UNCHANGED <<queue, accepted, status>>
      BY <1>3, <2>4 DEF SendFails
    <3> QED BY <2>0, <2>1, <3>1 DEF Waits, tableVars
  <2> QED BY <1>3, <2>2, <2>3, <2>4
<1>4. CASE EndRun \/ CancelRun
  BY <1>4 DEF EndRun, CancelRun, Leave, Waits, tableVars
<1>14. CASE TakeLost
  <2>1. "lost" \in flaws'[Head(queue).run]
    <3>1. Head(queue).run \in Run
      <4>1. queue \in Seq(Jobs) /\ queue # <<>>
        BY <1>14 DEF TakeLost, JobsTyped
      <4>2. Head(queue) \in Jobs
        BY <4>1
      <4> QED BY <4>2, JobFacts
    <3>2. Note({Head(queue).run}, {"lost"})
      BY <1>14 DEF TakeLost
    <3> QED BY <3>1, <3>2 DEF Note, BooksTyped
  <2> QED BY <1>14, <2>1 DEF TakeLost, Vanishes, agentVars, tableVars
<1>5. CASE Take
  BY <1>5 DEF Take, Waits, agentVars, tableVars
<1>6. CASE CommitNothing
  <2>1. exec # NoExec /\ "swallowed" \in flaws'[exec.job.run]
    BY <1>6, <1>0, <1>a, <1>b DEF CommitNothing
  <2>2. exec' \in [job : {exec.job}, pc : {"open", "committed"}, attempt : 1 .. MaxAttempts] /\ exec'.pc = "committed"
    <3>1. exec \in [job : Jobs, pc : {"open", "committed"}, attempt : 1 .. MaxAttempts]
      BY <2>1 DEF JobsTyped
    <3>2. exec' = [exec EXCEPT !.pc = "committed"]
      BY <1>6 DEF CommitNothing
    <3> QED BY <3>1, <3>2
  <2> QED BY <1>6, <2>1, <2>2 DEF CommitNothing, Waits, agentVars, tableVars
<1>7. ASSUME exec # NoExec, TryAgain
      PROVE  exec' \in [job : {exec.job}, pc : {"open", "committed"}, attempt : 1 .. MaxAttempts] /\ exec'.pc = "open"
  <2>1. exec \in [job : Jobs, pc : {"open", "committed"}, attempt : 1 .. MaxAttempts]
    BY <1>7 DEF JobsTyped
  <2>2. exec' = [exec EXCEPT !.pc = "open", !.attempt = exec.attempt + 1] /\ exec.attempt < MaxAttempts
    BY <1>7 DEF TryAgain
  <2>3. exec.attempt + 1 \in 1 .. MaxAttempts
    BY <2>1, <2>2, RowAssumption
  <2> QED BY <2>1, <2>2, <2>3
<1>e. ASSUME exec # NoExec, NEW told \in BOOLEAN, NEW marked \in BOOLEAN, NEW F, GiveUp(told, marked, F)
      PROVE  /\ exec' = NoExec /\ accepted' \in SUBSET accepted /\ F \in SUBSET flaws'[exec.job.run]
             /\ status' = status \/ status' = [status EXCEPT ![exec.job.run] = "failed"]
  <2>1. Note({exec.job.run}, F \cup Unrecorded(told))
    BY <1>e DEF GiveUp
  <2>2. F \cup Unrecorded(told) \in SUBSET flaws'[exec.job.run]
    BY <1>0, <1>a, <1>e, <2>1
  <2> QED BY <1>e, <2>2 DEF GiveUp
<1>8. CASE TransactionFails
  <2>1. exec # NoExec /\ exec.pc = "open"
    BY <1>8, <1>b DEF TransactionFails
  <2>2. CASE TryAgain
    BY <1>7, <1>8, <2>1, <2>2 DEF TransactionFails, Waits, agentVars, tableVars, TryAgain
  <2>3. ASSUME NEW told \in BOOLEAN, NEW marked \in BOOLEAN, GiveUp(told, marked, {"failed"}) PROVE Drops
    BY <1>8, <1>e, <2>1, <2>3 DEF TransactionFails, Drops, agentVars, tableVars
  <2> QED BY <1>8, <2>2, <2>3 DEF TransactionFails
<1>9. CASE Refuse
  <2>1. exec # NoExec
    BY <1>9, <1>b DEF Refuse
  <2> QED BY <1>9, <1>e, <2>1 DEF Refuse, Drops, agentVars, tableVars
<1>10. CASE Finish
  BY <1>10, <1>b DEF Finish, Drops, agentVars, tableVars
<1>15. ASSUME NEW told \in BOOLEAN, NEW marked \in BOOLEAN, FinishBadly(told, marked) PROVE Drops
  BY <1>15, <1>b DEF FinishBadly, Drops, agentVars, tableVars
<1>11. CASE FinishFails
  <2>1. exec # NoExec /\ exec.pc = "committed"
    BY <1>11, <1>b DEF FinishFails
  <2>2. CASE TryAgain /\ Note({exec.job.run}, {"repeated"})
    <3>1. "repeated" \in flaws'[exec.job.run]
      BY <1>0, <1>a, <2>1, <2>2
    <3> QED BY <1>7, <1>11, <2>1, <2>2, <3>1 DEF FinishFails, Waits, agentVars, tableVars, TryAgain
  <2>3. ASSUME NEW told \in BOOLEAN, NEW marked \in BOOLEAN, GiveUp(told, marked, {}) PROVE Drops
    BY <1>11, <1>e, <2>1, <2>3 DEF FinishFails, Drops, agentVars, tableVars
  <2> QED BY <1>11, <2>2, <2>3 DEF FinishFails
<1>12. CASE UNCHANGED rowVars
  BY <1>12 DEF rowVars, Waits, tableVars, agentVars
<1> QED BY <1>1, <1>2, <1>3, <1>4, <1>5, <1>6, <1>8, <1>9, <1>10, <1>11, <1>12, <1>13, <1>14, <1>15
        DEF Next, AgentStep, Work

\* The flaws of a run stay.
LEMMA FlawsStay ==
  ASSUME Typed, [Next]_rowVars
  PROVE  \A r \in Run : flaws[r] \in SUBSET flaws'[r]
<1>1. \A R, F : Note(R, F) => \A r \in Run : flaws[r] \in SUBSET flaws'[r]
  BY DEF Note
<1>2. flaws' = flaws => \A r \in Run : flaws[r] \in SUBSET flaws'[r]
  OBVIOUS
<1>3. CASE Restart
  BY <1>3 DEF Restart
<1>4. ASSUME ~Restart PROVE flaws' = flaws \/ \E R, F : Note(R, F)
  BY <1>4, WorkIs DEF Next, AgentStep, Edit, Begin, BeginEmpty, SendOk, SendLost, SendFails, EndRun, CancelRun, Take, TakeLost,
                      GiveUp, FinishBadly, rowVars
<1> QED BY <1>1, <1>2, <1>3, <1>4

LEMMA CommitIs ==
  ASSUME Typed, Commit
  PROVE  /\ exec # NoExec /\ exec.pc = "open" /\ exec.job \in Jobs /\ queue' = queue
         /\ exec' \in [job : {exec.job}, pc : {"committed"}, attempt : 1 .. MaxAttempts]
         /\ exec' # NoExec /\ exec'.job = exec.job /\ exec'.pc = "committed" /\ Line' = Line
         /\ Line[1] = exec.job /\ Len(Line) >= 1
         /\ UNCHANGED <<kind, clock, source, agentVars, accepted, queue, status, troublesLeft, taken, flaws>>
<1>1. exec.pc = "open" /\ exec # NoExec
  BY DEF Commit, NoExec
<1>2. exec \in [job : Jobs, pc : {"open", "committed"}, attempt : 1 .. MaxAttempts]
  BY <1>1 DEF Typed, JobsTyped
<1>3. exec' = [exec EXCEPT !.pc = "committed"] /\ queue' = queue
  BY DEF Commit
<1>4. exec' \in [job : {exec.job}, pc : {"committed"}, attempt : 1 .. MaxAttempts]
  BY <1>2, <1>3
<1>5. exec' # NoExec /\ exec'.job = exec.job /\ exec'.pc = "committed"
  BY <1>4 DEF NoExec
<1>6. Line' = Line
  BY <1>1, <1>3, <1>5, LineStays
<1>7. Line[1] = exec.job /\ Len(Line) >= 1
  BY <1>1, LineIs DEF Typed
<1> QED BY <1>1, <1>2, <1>3, <1>4, <1>5, <1>6, <1>7 DEF Commit

LEMMA Moves ==
  ASSUME Typed
  PROVE  /\ \A i, v : Edit(i, v) => Line' = Line
         /\ \A requested, window : Begin(requested, window) => Line' = Line
         /\ Posts => Line' = Line \/ LineGrown(Batch)
         /\ Loses => Line' = Line
         /\ Vanishes => LineDropped /\ Len(Line) >= 1 /\ "lost" \in flaws'[Line[1].run]
         /\ Drops => LineDropped /\ Line[1] = exec.job /\ Len(Line) >= 1
         /\ Restart => LineTurned /\ Line[1] = exec.job /\ Len(Line) >= 1
         /\ Waits => Line' = Line
<1> USE DEF Typed
<1>1. \A i, v : Edit(i, v) => Line' = Line
  BY LineStays DEF Edit
<1>2. \A requested, window : Begin(requested, window) => Line' = Line
  BY LineStays DEF Begin
<1>3. Posts => Line' = Line \/ LineGrown(Batch)
  <2> SUFFICES ASSUME Posts PROVE Line' = Line \/ LineGrown(Batch)
    OBVIOUS
  <2>1. Batch \in Jobs
    BY BatchIs DEF Posts
  <2>2. exec' = exec /\ (queue' = queue \/ queue' = Append(queue, Batch))
    BY DEF Posts, Enqueue
  <2> QED BY <2>1, <2>2, LineStays, LineGrows
<1>4. Drops => LineDropped /\ Line[1] = exec.job /\ Len(Line) >= 1
  BY LineDrops, LineIs DEF Drops
<1>5. Restart => LineTurned /\ Line[1] = exec.job /\ Len(Line) >= 1
  BY LineTurns, LineIs DEF Restart
<1>6. Waits => Line' = Line
  <2> SUFFICES ASSUME Waits PROVE Line' = Line
    OBVIOUS
  <2>1. CASE Take
    BY <2>1, LineTakes
  <2>2. CASE queue' = queue /\ exec' = exec
    BY <2>2, LineStays
  <2>3. CASE /\ queue' = queue /\ exec # NoExec
             /\ exec' \in [job : {exec.job}, pc : {"open", "committed"}, attempt : 1 .. MaxAttempts]
    <3>1. exec' # NoExec /\ exec'.job = exec.job
      BY <2>3 DEF NoExec
    <3> QED BY <2>3, <3>1, LineStays
  <2> QED BY <2>1, <2>2, <2>3 DEF Waits
<1>7. Loses => Line' = Line
  BY LineStays DEF Loses
<1>8. Vanishes => LineDropped /\ Len(Line) >= 1 /\ "lost" \in flaws'[Line[1].run]
  <2> SUFFICES ASSUME Vanishes PROVE LineDropped /\ Len(Line) >= 1 /\ "lost" \in flaws'[Line[1].run]
    OBVIOUS
  <2>1. Line = queue /\ Line' = Tail(queue) /\ queue \in Seq(Jobs) /\ queue # <<>>
    BY DEF Vanishes, Line, JobsTyped
  <2>2. Len(queue) >= 1 /\ Len(Tail(queue)) = Len(queue) - 1 /\ Head(queue) = queue[1]
        /\ \A n \in 1 .. Len(queue) - 1 : Tail(queue)[n] = queue[n + 1]
    BY <2>1
  <2> QED BY <2>1, <2>2 DEF Vanishes, LineDropped
<1> QED BY <1>1, <1>2, <1>3, <1>4, <1>5, <1>6, <1>7, <1>8

\* A job of the line was there before, or is the batch that was sent.
LEMMA LineComes ==
  ASSUME Typed, [Next]_rowVars
  PROVE  \A n \in 1 .. Len(Line') : \/ \E m \in 1 .. Len(Line) : Line'[n] = Line[m]
                                    \/ Posts /\ Line'[n] = Batch
<1>0. Len(Line) \in Nat
  BY LineIs DEF Typed
<1>1. CASE Line' = Line
  BY <1>1
<1>2. CASE Posts /\ LineGrown(Batch)
  BY <1>0, <1>2 DEF LineGrown
<1>3. CASE LineDropped /\ Len(Line) >= 1
  <2>1. \A n \in 1 .. Len(Line') : n + 1 \in 1 .. Len(Line) /\ Line'[n] = Line[n + 1]
    BY <1>0, <1>3 DEF LineDropped
  <2> QED BY <2>1
<1>4. CASE LineTurned /\ Len(Line) >= 1
  <2>1. \A n \in 1 .. Len(Line') : \/ n + 1 \in 1 .. Len(Line) /\ Line'[n] = Line[n + 1]
                                   \/ 1 \in 1 .. Len(Line) /\ Line'[n] = Line[1]
    BY <1>0, <1>4 DEF LineTurned
  <2> QED BY <2>1
<1>5. Line' = Line \/ (Posts /\ LineGrown(Batch)) \/ (LineDropped /\ Len(Line) >= 1) \/ (LineTurned /\ Len(Line) >= 1)
  BY Steps, Moves, CommitIs
<1> QED BY <1>1, <1>2, <1>3, <1>4, <1>5

\* A run that is in the books stays there.
LEMMA StatusStays ==
  ASSUME Typed, [Next]_rowVars
  PROVE  \A r \in Run : /\ status[r] # "none" => status'[r] # "none"
                        /\ Posts /\ r = Batch.run => status'[r] # "none"
<1>1. CASE Posts \/ Loses
  <2>1. status' = [status EXCEPT ![Batch.run] = IF @ = "none" THEN "open" ELSE @] /\ status \in [Run -> {"none", "open", "ok", "failed"}]
    BY <1>1 DEF Posts, Loses, Enqueue, Typed, BooksTyped
  <2> QED BY <2>1
<1>2. CASE ~Posts /\ ~Loses
  <2>1. status' = status \/ \E s \in {"ok", "failed"} : status' = [status EXCEPT ![exec.job.run] = s]
    BY <1>2, Steps, CommitIs DEF Edit, Begin, Drops, Restart, Vanishes, Waits
  <2>2. status \in [Run -> {"none", "open", "ok", "failed"}]
    BY DEF Typed, BooksTyped
  <2> QED BY <1>2, <2>1, <2>2
<1> QED BY <1>1, <1>2

LEMMA JobsTypedStep ==
  ASSUME Typed, [Next]_rowVars
  PROVE  JobsTyped'
<1> USE DEF Typed
<1>1. queue' \in Seq(Jobs)
  <2>0. queue \in Seq(Jobs)
    BY DEF JobsTyped
  <2>1. queue' = queue \/ (queue' = Tail(queue) /\ queue # <<>>) \/ (Posts /\ queue' = Append(queue, Batch))
        \/ (exec # NoExec /\ queue' = Append(queue, exec.job))
    BY Steps, CommitIs DEF Edit, Begin, Posts, Enqueue, Drops, Restart, Loses, Vanishes, Waits, Take
  <2>2. Posts => Batch \in Jobs
    BY BatchIs DEF Posts
  <2>3. exec # NoExec => exec.job \in Jobs
    BY LineIs
  <2>4. ASSUME queue # <<>> PROVE Tail(queue) \in Seq(Jobs)
    BY <2>0, <2>4
  <2>5. \A j \in Jobs : Append(queue, j) \in Seq(Jobs)
    BY <2>0
  <2> QED BY <2>0, <2>1, <2>2, <2>3, <2>4, <2>5
<1>2. exec' = NoExec \/ exec' \in [job : Jobs, pc : {"open", "committed"}, attempt : 1 .. MaxAttempts]
  <2>1. CASE Take
    <3>1. Head(queue) \in Jobs
      BY <2>1 DEF Take, JobsTyped
    <3>2. 1 \in 1 .. MaxAttempts
      BY RowAssumption
    <3> QED BY <2>1, <3>1, <3>2 DEF Take
  <2>2. CASE exec' = exec \/ exec' = NoExec
    BY <2>2 DEF JobsTyped
  <2>3. CASE exec # NoExec /\ exec' \in [job : {exec.job}, pc : {"open", "committed"}, attempt : 1 .. MaxAttempts]
    <3>1. exec.job \in Jobs
      BY <2>3, LineIs
    <3> QED BY <2>3, <3>1
  <2>4. CASE Commit
    BY <2>4, CommitIs
  <2> QED BY <2>1, <2>2, <2>3, <2>4, Steps DEF Edit, Begin, Posts, Drops, Restart, Loses, Vanishes, Waits
<1>3. accepted' \in SUBSET (Run \X Nat)
  <2>1. accepted' \in SUBSET accepted \/ ((Posts \/ Loses) /\ accepted' = accepted \cup {JobId(Batch)})
    BY Steps, CommitIs DEF Edit, Begin, Posts, Enqueue, Drops, Restart, Loses, Vanishes, Waits
  <2>2. Posts \/ Loses => JobId(Batch) \in Run \X Nat
    BY BatchIs, JobFacts DEF Posts, Loses, JobId
  <2> QED BY <2>1, <2>2 DEF JobsTyped
<1>4. \A n \in 1 .. Len(Line') : status'[Line'[n].run] # "none"
  <2> TAKE n \in 1 .. Len(Line')
  <2>1. ASSUME NEW m \in 1 .. Len(Line), Line'[n] = Line[m] PROVE status'[Line'[n].run] # "none"
    <3>1. Line[m].run \in Run /\ status[Line[m].run] # "none"
      BY LineIs, JobFacts DEF JobsTyped
    <3> QED BY <2>1, <3>1, StatusStays
  <2>2. ASSUME Posts, Line'[n] = Batch PROVE status'[Line'[n].run] # "none"
    BY <2>2, BatchIs, StatusStays DEF Posts
  <2> QED BY <2>1, <2>2, LineComes
<1> QED BY <1>1, <1>2, <1>3, <1>4 DEF JobsTyped

LEMMA StagedIs ==
  ASSUME Typed, NEW j \in Jobs
  PROVE  Staged(j) \in [Item -> Int]
<1> DEFINE before == IF j.index = 0 THEN NoStock ELSE staging[j.run]
<1>1. before \in [Item -> Int]
  BY JobFacts DEF Typed, TablesTyped, NoStock
<1>2. Staged(j) = [i \in Item |-> IF i \notin DOMAIN j.rows THEN before[i]
                                  ELSE IF before[i] = -1 THEN j.rows[i] - 1 ELSE before[i] + j.rows[i] - 1]
  BY DEF Staged
<1> HIDE DEF before
<1>3. \A i \in Item : before[i] \in Int /\ (i \in DOMAIN j.rows => j.rows[i] \in Int)
  BY <1>1, JobFacts
<1> QED BY <1>2, <1>3

LEMMA UpsertedIs ==
  ASSUME Typed, NEW j \in Jobs
  PROVE  /\ Upserted(j) \in [Item -> [ver : Nat, active : BOOLEAN, synced : 0 .. clock]]
         /\ \A i \in DOMAIN j.rows : /\ i \in Item /\ Upserted(j)[i].ver = j.rows[i]
                                     /\ Upserted(j)[i].active = TRUE /\ Upserted(j)[i].synced = clock
         /\ \A i \in Item : i \notin DOMAIN j.rows => Upserted(j)[i] = row[i]
<1>1. clock \in 0 .. clock /\ DOMAIN j.rows \in SUBSET Item /\ \A i \in DOMAIN j.rows : j.rows[i] \in Nat
  BY JobFacts, RowAssumption DEF Typed, BooksTyped
<1>2. \A i \in Item : row[i] \in [ver : Nat, active : BOOLEAN, synced : 0 .. clock]
  BY DEF Typed, TablesTyped
<1> QED BY <1>1, <1>2 DEF Upserted

LEMMA DeactivatedIs ==
  ASSUME NEW c \in Nat, NEW t \in [Item -> [ver : Nat, active : BOOLEAN, synced : 0 .. c]], NEW j
  PROVE  /\ Deactivated(t, j) \in [Item -> [ver : Nat, active : BOOLEAN, synced : 0 .. c]]
         /\ \A i \in Item : /\ Deactivated(t, j)[i].ver = t[i].ver /\ Deactivated(t, j)[i].synced = t[i].synced
                            /\ Deactivated(t, j)[i].active = (t[i].active /\ ~(t[i].synced < j.start))
<1>1. ASSUME NEW i \in Item
      PROVE  /\ Deactivated(t, j)[i] = IF t[i].synced < j.start THEN [t[i] EXCEPT !.active = FALSE] ELSE t[i]
             /\ t[i] \in [ver : Nat, active : BOOLEAN, synced : 0 .. c]
  BY DEF Deactivated
<1>2. ASSUME NEW i \in Item
      PROVE  /\ Deactivated(t, j)[i] \in [ver : Nat, active : BOOLEAN, synced : 0 .. c]
             /\ Deactivated(t, j)[i].ver = t[i].ver /\ Deactivated(t, j)[i].synced = t[i].synced
             /\ Deactivated(t, j)[i].active = (t[i].active /\ ~(t[i].synced < j.start))
  <2>1. CASE t[i].synced < j.start
    BY <1>1, <2>1
  <2>2. CASE ~(t[i].synced < j.start)
    BY <1>1, <2>2
  <2> QED BY <2>1, <2>2
<1>3. DOMAIN Deactivated(t, j) = Item
  BY DEF Deactivated
<1>4. Deactivated(t, j) \in [Item -> [ver : Nat, active : BOOLEAN, synced : 0 .. c]]
  BY <1>2 DEF Deactivated
<1> QED BY <1>2, <1>4

LEMMA TablesTypedStep ==
  ASSUME Typed, [Next]_rowVars
  PROVE  TablesTyped'
<1> USE DEF Typed
<1>0. clock' \in {clock, clock + 1} /\ clock \in Nat /\ 0 .. clock \in SUBSET (0 .. clock')
  BY BooksTypedStep, RowAssumption DEF BooksTyped
<1>1. CASE UNCHANGED tableVars
  <2>1. row' = row /\ stats' = stats /\ staging' = staging /\ stock' = stock /\ basis' = basis
    BY <1>1 DEF tableVars
  <2>2. row' \in [Item -> [ver : Nat, active : BOOLEAN, synced : 0 .. clock']]
    BY <1>0, <2>1 DEF TablesTyped
  <2> QED BY <2>1, <2>2 DEF TablesTyped
<1>2. CASE Commit
  <2> DEFINE j == exec.job
  <2>1. j \in Jobs /\ j.run \in Run /\ DOMAIN j.rows \in SUBSET Item
    BY <1>2, CommitIs, JobFacts
  <2>2. Staged(j) \in [Item -> Int] /\ NoStock \in [Item -> Int]
    BY <2>1, StagedIs DEF NoStock
  <2>3. /\ Upserted(j) \in [Item -> [ver : Nat, active : BOOLEAN, synced : 0 .. clock]]
        /\ Deactivated(Upserted(j), j) \in [Item -> [ver : Nat, active : BOOLEAN, synced : 0 .. clock]]
    BY <1>0, <2>1, UpsertedIs, DeactivatedIs
  <2>4. clock' = clock
    BY <1>2 DEF Commit
  <2>5. RestsOn(j) => basis' \in [run : Run \cup {0}, flaws : SUBSET Flaw, later : SUBSET Item]
    BY <2>1 DEF RestsOn, BooksTyped
  <2> HIDE DEF j
  <2>6. CASE StoreOrders(j)
    <3>1. basis' \in [run : Run \cup {0}, flaws : SUBSET Flaw, later : SUBSET Item]
      BY <2>6 DEF StoreOrders, TablesTyped
    <3>2. stats' \in SUBSET Item
      <4>1. stats' = stats \/ stats' = Recomputed(Upserted(j))
        BY <2>6 DEF StoreOrders
      <4>2. Recomputed(Upserted(j)) = stats \/ Recomputed(Upserted(j)) \in SUBSET Item
        BY DEF Recomputed, LiveOrders
      <4> QED BY <4>1, <4>2 DEF TablesTyped
    <3> QED BY <2>3, <2>4, <2>6, <3>1, <3>2 DEF StoreOrders, TablesTyped
  <2>7. CASE StoreProducts(j)
    <3>1. basis' \in [run : Run \cup {0}, flaws : SUBSET Flaw, later : SUBSET Item]
      <4>1. RestsOn(j) \/ basis' = [basis EXCEPT !.later = basis.later \cup DOMAIN j.rows]
        BY <2>7 DEF StoreProducts
      <4>2. ASSUME basis' = [basis EXCEPT !.later = basis.later \cup DOMAIN j.rows]
            PROVE  basis' \in [run : Run \cup {0}, flaws : SUBSET Flaw, later : SUBSET Item]
        <5>1. basis.later \cup DOMAIN j.rows \in SUBSET Item
          BY <2>1 DEF TablesTyped, j
        <5> QED BY <4>2, <5>1 DEF TablesTyped
      <4> QED BY <2>5, <4>1, <4>2
    <3>2. row' \in [Item -> [ver : Nat, active : BOOLEAN, synced : 0 .. clock]]
      BY <2>3, <2>7 DEF StoreProducts
    <3> QED BY <2>4, <2>7, <3>1, <3>2 DEF StoreProducts, TablesTyped
  <2>8. CASE StoreInventory(j)
    <3>1. basis' \in [run : Run \cup {0}, flaws : SUBSET Flaw, later : SUBSET Item]
      BY <2>5, <2>8 DEF StoreInventory, TablesTyped
    <3>2. staging' \in [Run -> [Item -> Int]]
      <4>1. staging' = [staging EXCEPT ![j.run] = NoStock] \/ staging' = [staging EXCEPT ![j.run] = Staged(j)]
        BY <2>8 DEF StoreInventory
      <4> QED BY <2>2, <4>1 DEF TablesTyped
    <3>3. stock' \in [Item -> Int]
      BY <2>2, <2>8 DEF StoreInventory, TablesTyped
    <3> QED BY <2>4, <2>8, <3>1, <3>2, <3>3 DEF StoreInventory, TablesTyped
  <2> QED BY <1>2, <2>6, <2>7, <2>8 DEF Commit, j
<1>3. UNCHANGED tableVars \/ Commit
  BY Steps DEF Edit, Begin, Posts, Drops, Restart, Loses, Vanishes, Waits
<1> QED BY <1>1, <1>2, <1>3

LEMMA TypedStep == Typed /\ [Next]_rowVars => Typed'
<1> SUFFICES ASSUME Typed, [Next]_rowVars PROVE Typed'
  OBVIOUS
<1> QED BY AgentTypedStep, JobsTypedStep, TablesTypedStep, BooksTypedStep DEF Typed

\* The types, with two facts about jobs that need the whole path of a batch: it is never behind the
\* last one (its index and the total are both counted in chunks of the size of the moment), and
\* its run is in the books before a worker sees it (enqueue, recordBatch).
THEOREM TypeCorrect == Spec => []TypeOK
<1>1. Typed => TypeOK
  <2> SUFFICES ASSUME Typed PROVE TypeOK
    OBVIOUS
  <2> USE DEF Typed
  <2>1. \A j \in Jobs : IsJob(j)
    BY JobFacts DEF IsJob
  <2>2. \A n \in 1 .. Len(queue) : IsJob(queue[n]) /\ status[queue[n].run] # "none"
    <3> TAKE n \in 1 .. Len(queue)
    <3>1. queue[n] \in Jobs
      BY LineIs
    <3>2. \E m \in 1 .. Len(Line) : Line[m] = queue[n]
      BY LineIs
    <3> QED BY <2>1, <3>1, <3>2 DEF JobsTyped
  <2>3. exec # NoExec => IsJob(exec.job) /\ exec.pc \in {"open", "committed"} /\ exec.attempt \in 1 .. MaxAttempts
    BY <2>1, LineIs
  <2>4. \A i \in Item : row[i].ver \in Nat /\ row[i].active \in BOOLEAN /\ row[i].synced \in 0 .. clock
    BY DEF TablesTyped
  <2>5. /\ agent.run \in Run \cup {0} /\ agent.offset \in 0 .. ItemCount /\ agent.size \in 1 .. BatchSize
        /\ saved.offset \in 0 .. ItemCount /\ saved.initial \in BOOLEAN
    BY DEF AgentTyped
  <2> QED BY <2>2, <2>3, <2>4, <2>5 DEF TypeOK, AgentTyped, TablesTyped, BooksTyped
<1> QED BY <1>1, InitTyped, TypedStep, PTL DEF Spec

-----------------------------------------------------------------------------
(* The books: the numbers of the runs.                                     *)

\* The agent keeps its run, gives it up, or begins the next one.
LEMMA AgentMoves ==
  ASSUME Typed, [Next]_rowVars
  PROVE  \/ agent' = agent /\ clock' = clock
         \/ agent'.run = 0 /\ clock' = clock
         \/ /\ agent'.run = agent.run /\ agent'.start = agent.start /\ agent'.full = agent.full
            /\ agent'.window = agent.window /\ agent'.total = agent.total /\ clock' = clock
            /\ Posts \/ Loses \/ Waits
         \/ /\ agent'.run = clock /\ agent'.start = clock + 1 /\ clock' = clock + 1
            /\ \E requested \in BOOLEAN, window \in Windows \cup {{}} : Begin(requested, window)
<1>1. agent \in [run : Run \cup {0}, full : BOOLEAN, window : SUBSET Item, start : Nat, total : 0 .. ItemCount,
                 offset : 0 .. ItemCount, size : 1 .. BatchSize, first : 0 .. ItemCount]
  BY DEF Typed, AgentTyped
<1>2. Idle.run = 0
  BY DEF Idle
<1>3. CASE Posts \/ Loses \/ Waits
  <2>1. \/ agent' = agent \/ agent' = Idle
        \/ \E o : agent' = [agent EXCEPT !.offset = o]
        \/ \E s : agent' = [agent EXCEPT !.size = s]
    BY <1>3 DEF Posts, Loses, Waits
  <2> QED BY <1>1, <1>2, <1>3, <2>1 DEF Posts, Loses, Waits
<1>4. CASE \E requested \in BOOLEAN, window \in Windows \cup {{}} : Begin(requested, window)
  <2>1. PICK requested \in BOOLEAN, window \in Windows \cup {{}} : Begin(requested, window)
    BY <1>4
  <2>2. \E f, t, o : agent' = [run |-> clock, full |-> f, window |-> window, start |-> clock + 1,
                              total |-> t, offset |-> o, size |-> BatchSize, first |-> o]
    BY <2>1 DEF Begin
  <2>3. clock' = clock + 1
    BY <2>1 DEF Begin
  <2> QED BY <1>4, <2>2, <2>3
<1>5. CASE Commit \/ Drops \/ Vanishes \/ Restart \/ \E i \in Item, v \in 0 .. 2 + MaxTroubles : Edit(i, v)
  BY <1>5 DEF Commit, Drops, Vanishes, Restart, Edit, agentVars
<1> QED BY <1>3, <1>4, <1>5, Steps

\* What a run set out to read stays.
LEMMA TakenStays ==
  ASSUME Typed, [Next]_rowVars
  PROVE  \A r \in Run : taken'[r] = taken[r] \/ r = clock
<1>1. CASE \E requested \in BOOLEAN, window \in Windows \cup {{}} : Begin(requested, window)
  <2>1. \E x : taken' = [taken EXCEPT ![clock] = x]
    BY <1>1 DEF Begin
  <2> QED BY <2>1 DEF Typed, BooksTyped
<1>2. taken' = taken \/ \E requested \in BOOLEAN, window \in Windows \cup {{}} : Begin(requested, window)
  BY Steps DEF Edit, Posts, Commit, Drops, Restart, Loses, Vanishes, Waits
<1> QED BY <1>1, <1>2

LEMMA InitBooks == Init => Books
<1> SUFFICES ASSUME Init PROVE Books
  OBVIOUS
<1>1. Line = <<>>
  BY DEF Init, Line
<1>2. agent.run = 0 /\ basis.run = 0 /\ clock = 1
  BY DEF Init, Idle, NoBasis
<1> QED BY <1>1, <1>2 DEF Init, Books, Spot

LEMMA BooksStep ==
  ASSUME Typed, Books, [Next]_rowVars
  PROVE  Books'
<1>0. /\ clock' \in Nat /\ clock \in Nat /\ clock' \in {clock, clock + 1} /\ Run \in SUBSET Nat
      /\ basis.run \in Nat /\ agent.run \in Nat
  <2>1. Run \in SUBSET Nat /\ clock \in Nat /\ clock' \in {clock, clock + 1}
    BY BooksTypedStep, RowAssumption DEF Typed, BooksTyped, Run
  <2>2. basis.run \in Run \cup {0} /\ agent.run \in Run \cup {0}
    BY DEF Typed, AgentTyped, TablesTyped
  <2>3. clock' \in Nat
    BY <2>1
  <2>4. Run \cup {0} \in SUBSET Nat
    BY <2>1
  <2> QED BY <2>1, <2>2, <2>3, <2>4
<1>1. \A n \in 1 .. Len(Line') : Line'[n].run < clock' /\ Line'[n].start = Line'[n].run + 1
  <2> TAKE n \in 1 .. Len(Line')
  <2>1. ASSUME NEW m \in 1 .. Len(Line), Line'[n] = Line[m]
        PROVE  Line'[n].run < clock' /\ Line'[n].start = Line'[n].run + 1
    <3>1. Line[m].run < clock /\ Line[m].start = Line[m].run + 1 /\ Line[m].run \in Run
      BY LineIs, JobFacts DEF Books, Spot, Typed
    <3> DEFINE j == Line[m]
    <3>2. j.run \in Nat /\ j.run < clock /\ j.start = j.run + 1 /\ Line'[n] = j
      BY <1>0, <2>1, <3>1
    <3> HIDE DEF j
    <3>3. j.run < clock'
      BY <1>0, <3>2
    <3> QED BY <3>2, <3>3
  <2>2. ASSUME Posts, Line'[n] = Batch
        PROVE  Line'[n].run < clock' /\ Line'[n].start = Line'[n].run + 1
    <3>1. Batch.run = agent.run /\ Batch.start = agent.start /\ agent.run # 0
      BY <1>0, <2>2, BatchIs DEF Posts, Sending, Typed
    <3> QED BY <1>0, <2>2, <3>1 DEF Books
  <2> QED BY <2>1, <2>2, LineComes
<1>2. agent'.run # 0 => agent'.run = clock' - 1 /\ agent'.start = clock'
  BY <1>0, AgentMoves DEF Books
<1>3. \A r \in Run : r >= clock' => status'[r] = "none"
  <2>1. CASE Posts \/ Loses
    <3>1. status' = [status EXCEPT ![Batch.run] = IF @ = "none" THEN "open" ELSE @]
          /\ status \in [Run -> {"none", "open", "ok", "failed"}]
      BY <2>1 DEF Posts, Loses, Enqueue, Typed, BooksTyped
    <3>2. Batch.run < clock
      <4>1. Sending
        BY <2>1 DEF Posts, Loses
      <4>2. Batch.run = agent.run /\ agent.run # 0
        BY <1>0, <4>1, BatchIs DEF Sending, Typed
      <4> QED BY <1>0, <4>2 DEF Books
    <3> QED BY <1>0, <3>1, <3>2 DEF Books
  <2>2. CASE ~Posts /\ ~Loses
    <3>1. status' = status \/ \E s : exec # NoExec /\ status' = [status EXCEPT ![exec.job.run] = s]
      BY <2>2, Steps, CommitIs DEF Edit, Begin, Drops, Restart, Vanishes, Waits
    <3>2. status \in [Run -> {"none", "open", "ok", "failed"}]
      BY DEF Typed, BooksTyped
    <3>3. exec # NoExec => exec.job.run < clock
      BY LineIs DEF Typed, Books, Spot
    <3> QED BY <1>0, <3>1, <3>2, <3>3 DEF Books
  <2> QED BY <2>1, <2>2
<1>4. \A r \in Run : r >= clock' => \A i \in Item : taken'[r][i] = 0
  <2> TAKE r \in Run
  <2>1. CASE taken'[r] = taken[r]
    BY <1>0, <2>1 DEF Books
  <2>2. CASE taken'[r] # taken[r]
    <3>1. r = clock /\ \E requested \in BOOLEAN, window \in Windows \cup {{}} : Begin(requested, window)
      BY <2>2, TakenStays, Steps DEF Edit, Posts, Commit, Drops, Restart, Loses, Vanishes, Waits
    <3>2. clock' = clock + 1
      BY <3>1 DEF Begin
    <3> QED BY <1>0, <3>1, <3>2
  <2> QED BY <2>1, <2>2
<1>5. \A x \in accepted' : x[1] < clock'
  <2>1. accepted' \in SUBSET accepted \/ ((Posts \/ Loses) /\ accepted' = accepted \cup {JobId(Batch)})
    BY Steps, CommitIs DEF Edit, Begin, Posts, Enqueue, Drops, Restart, Loses, Vanishes, Waits
  <2>2. Posts \/ Loses => JobId(Batch)[1] < clock
    <3>1. Posts \/ Loses => Sending
      BY DEF Posts, Loses
    <3> QED BY <1>0, <3>1, BatchIs DEF Sending, Typed, Books, JobId
  <2>3. \A x \in accepted : x[1] < clock /\ x[1] \in Nat
    BY <1>0 DEF Books, Typed, JobsTyped
  <2>4. Posts \/ Loses => clock' = clock
    BY DEF Posts, Loses
  <2> QED BY <1>0, <2>1, <2>2, <2>3, <2>4
<1>6. basis'.run < clock'
  <2>1. basis' = basis \/ Commit
    BY Steps DEF Edit, Begin, Posts, Drops, Restart, Loses, Vanishes, Waits, tableVars
  <2>2. CASE Commit
    <3>1. clock' = clock /\ exec.job.run < clock /\ exec.job.run \in Run
      BY <2>2, CommitIs, LineIs, JobFacts DEF Books, Spot, Typed
    <3>2. RestsOn(exec.job) \/ basis' = basis
          \/ basis' = [basis EXCEPT !.later = basis.later \cup DOMAIN exec.job.rows]
      BY <2>2 DEF Commit, StoreOrders, StoreProducts, StoreInventory
    <3>3. basis'.run = exec.job.run \/ basis'.run = basis.run
      BY <3>2 DEF RestsOn, Typed, TablesTyped
    <3> QED BY <1>0, <3>1, <3>3, RowAssumption DEF Books, Typed, BooksTyped
  <2> QED BY <1>0, <2>1, <2>2 DEF Books
<1>7. kind' # "orders" => \A r \in Run : "swallowed" \notin flaws'[r]
  <2>0. kind' = kind
    BY Steps, CommitIs DEF Edit, Begin, Posts, Drops, Restart, Loses, Vanishes, Waits
  <2>1. \A R, F : "swallowed" \notin F /\ Note(R, F) => \A r \in Run : "swallowed" \in flaws'[r] => "swallowed" \in flaws[r]
    BY DEF Note
  <2>2. CASE CommitNothing
    BY <2>0, <2>2 DEF CommitNothing
  <2>3. CASE Restart
    <3>1. \A r \in Run : "swallowed" \in flaws'[r] => "swallowed" \in flaws[r]
      BY <2>3 DEF Restart
    <3> QED BY <2>0, <3>1 DEF Books
  <2>4. ASSUME ~CommitNothing, ~Restart
        PROVE  flaws' = flaws \/ \E R, F : "swallowed" \notin F /\ Note(R, F)
    <3>1. \A told : "swallowed" \notin Unrecorded(told)
      BY DEF Unrecorded
    <3>2. ASSUME NEW told \in BOOLEAN, NEW marked \in BOOLEAN, NEW F \in {{}, {"failed"}}, GiveUp(told, marked, F)
          PROVE  \E R, G : "swallowed" \notin G /\ Note(R, G)
      <4>1. "swallowed" \notin F \cup Unrecorded(told)
        BY <3>1
      <4> QED BY <3>2, <4>1 DEF GiveUp
    <3>3. ASSUME NEW arrival \in {"none", "known", "queued"}, SendFails(arrival)
          PROVE  \E R, G : "swallowed" \notin G /\ Note(R, G)
      BY <3>3 DEF SendFails
    <3>4. Work => (\E told, marked \in BOOLEAN, F \in {{}, {"failed"}} : GiveUp(told, marked, F))
                  \/ (\E told, marked \in BOOLEAN : FinishBadly(told, marked))
                  \/ Note({exec.job.run}, {"repeated"}) \/ flaws' = flaws
      BY <2>4, WorkMore
    <3>5. ASSUME NEW told \in BOOLEAN, NEW marked \in BOOLEAN, FinishBadly(told, marked)
          PROVE  \E R, G : "swallowed" \notin G /\ Note(R, G)
      BY <3>1, <3>5 DEF FinishBadly
    <3>6. Note({exec.job.run}, {"repeated"}) => \E R, G : "swallowed" \notin G /\ Note(R, G)
      OBVIOUS
    <3>7. Work => flaws' = flaws \/ \E R, G : "swallowed" \notin G /\ Note(R, G)
      BY <3>2, <3>4, <3>5, <3>6
    <3>8. ASSUME NEW requested \in BOOLEAN, NEW window \in Windows \cup {{}}, Begin(requested, window)
          PROVE  \E R, G : "swallowed" \notin G /\ Note(R, G)
      BY <3>8 DEF Begin
    <3>9. CASE SendOk \/ SendLost \/ EndRun \/ CancelRun \/ Take \/ TakeLost \/ UNCHANGED rowVars
               \/ (\E i \in Item, v \in 0 .. 2 + MaxTroubles : Edit(i, v))
               \/ (\E requested \in BOOLEAN, window \in Windows \cup {{}} : BeginEmpty(requested, window))
      BY <3>9 DEF Edit, BeginEmpty, SendOk, SendLost, EndRun, CancelRun, Take, TakeLost, rowVars
    <3> QED BY <2>4, <3>3, <3>7, <3>8, <3>9 DEF Next, AgentStep
  <2> QED BY <2>0, <2>1, <2>2, <2>3, <2>4 DEF Books
<1> QED BY <1>1, <1>2, <1>3, <1>4, <1>5, <1>6, <1>7 DEF Books, Spot

-----------------------------------------------------------------------------
(* Versions.                                                               *)

\* What a transaction does to the rows.
LEMMA CommitRows ==
  ASSUME Typed, Commit, kind # "inventory", NEW i \in Item
  PROVE  /\ i \in DOMAIN exec.job.rows => /\ row'[i].ver = exec.job.rows[i] /\ row'[i].synced = clock
                                          /\ row'[i].active \/ clock < exec.job.start
         /\ i \notin DOMAIN exec.job.rows =>
              /\ row'[i].ver = row[i].ver /\ row'[i].synced = row[i].synced
              /\ row[i].active /\ ~(row[i].synced < exec.job.start) => row'[i].active
              /\ row'[i].active => row[i].active
         /\ kind = "products" /\ IsLast(exec.job) /\ exec.job.full =>
              /\ row'[i].active => ~(row'[i].synced < exec.job.start)
              /\ basis' = [run |-> exec.job.run, flaws |-> flaws[exec.job.run], later |-> {}]
         /\ kind = "products" /\ ~(IsLast(exec.job) /\ exec.job.full) =>
              /\ row[i].active => row'[i].active
              /\ basis' = [basis EXCEPT !.later = basis.later \cup DOMAIN exec.job.rows]
<1> DEFINE j == exec.job
           u == Upserted(j)
           d == Deactivated(u, j)
<1>1. j \in Jobs /\ clock \in Nat
  BY CommitIs, RowAssumption DEF Typed, BooksTyped
<1>2. /\ u \in [Item -> [ver : Nat, active : BOOLEAN, synced : 0 .. clock]]
      /\ i \in DOMAIN j.rows => u[i].ver = j.rows[i] /\ u[i].active = TRUE /\ u[i].synced = clock
      /\ i \notin DOMAIN j.rows => u[i] = row[i]
  BY <1>1, UpsertedIs
<1> HIDE DEF u
<1>3. /\ d[i].ver = u[i].ver /\ d[i].synced = u[i].synced
      /\ d[i].active = (u[i].active /\ ~(u[i].synced < j.start))
  <2>1. clock \in Nat /\ u \in [Item -> [ver : Nat, active : BOOLEAN, synced : 0 .. clock]]
    BY <1>1, <1>2
  <2> HIDE DEF j
  <2>2. \A x \in Item : /\ Deactivated(u, j)[x].ver = u[x].ver /\ Deactivated(u, j)[x].synced = u[x].synced
                       /\ Deactivated(u, j)[x].active = (u[x].active /\ ~(u[x].synced < j.start))
    BY <2>1, DeactivatedIs
  <2> QED BY <2>2
<1>4. row[i].active \in BOOLEAN /\ u[i].active \in BOOLEAN
  BY <1>2 DEF Typed, TablesTyped
<1> HIDE DEF d
<1>5. CASE kind = "products" /\ IsLast(j) /\ j.full
  <2>1. row' = d /\ basis' = [run |-> exec.job.run, flaws |-> flaws[exec.job.run], later |-> {}]
    BY <1>5 DEF Commit, StoreOrders, StoreProducts, StoreInventory, d, u, RestsOn
  <2> QED BY <1>2, <1>3, <1>4, <1>5, <2>1
<1>6. CASE ~(kind = "products" /\ IsLast(j) /\ j.full)
  <2>1. row' = u /\ (kind = "products" => basis' = [basis EXCEPT !.later = basis.later \cup DOMAIN exec.job.rows])
    BY <1>6 DEF Commit, StoreOrders, StoreProducts, StoreInventory, u
  <2> QED BY <1>2, <1>4, <1>6, <2>1
<1> QED BY <1>5, <1>6

LEMMA KindStays ==
  ASSUME Typed, [Next]_rowVars
  PROVE  kind' = kind
BY Steps, CommitIs DEF Edit, Begin, Posts, Drops, Restart, Loses, Vanishes, Waits

LEMMA RowStays ==
  ASSUME Typed, [Next]_rowVars, ~Commit
  PROVE  UNCHANGED tableVars /\ row' = row /\ basis' = basis /\ staging' = staging /\ stock' = stock
BY Steps DEF Edit, Begin, Posts, Drops, Restart, Loses, Vanishes, Waits, tableVars

\* The newest version of a row only grows.
LEMMA LatestGrows ==
  ASSUME Typed, Versions, [Next]_rowVars, kind # "inventory", NEW i \in Item
  PROVE  /\ source'[i] <= Tops' /\ Latest(i) <= Latest(i)' /\ source[i] <= Latest(i)
         /\ Latest(i) \in Nat /\ Latest(i)' \in Nat /\ source[i] \in Nat
<1>1. /\ source[i] \in Nat /\ source'[i] \in Nat /\ troublesLeft \in 0 .. MaxTroubles /\ troublesLeft' \in 0 .. MaxTroubles
      /\ troublesLeft' <= troublesLeft
  <2>1. \A x \in 0 .. 2 + MaxTroubles : x \in Nat
    BY RowAssumption
  <2>2. source \in [Item -> 0 .. 2 + MaxTroubles] /\ troublesLeft \in 0 .. MaxTroubles
    BY DEF Typed, AgentTyped, BooksTyped
  <2>3. source' \in [Item -> 0 .. 2 + MaxTroubles] /\ troublesLeft' \in 0 .. MaxTroubles
    BY TypedStep DEF Typed, AgentTyped, BooksTyped
  <2> QED BY <2>1, <2>2, <2>3, BooksTypedStep
<1>2. source[i] <= Tops
  BY DEF Versions
<1>3. source'[i] = source[i] \/ (source'[i] = 0 /\ Tops' = Tops + 1) \/ (source'[i] = Tops + 1 /\ Tops' = Tops + 1)
  <2>1. ASSUME NEW k \in Item, NEW v \in 0 .. 2 + MaxTroubles, Edit(k, v)
        PROVE  source'[i] = source[i] \/ (source'[i] = 0 /\ Tops' = Tops + 1) \/ (source'[i] = Tops + 1 /\ Tops' = Tops + 1)
    <3>1. source' = [source EXCEPT ![k] = v] /\ troublesLeft' = troublesLeft - 1 /\ v \in {0, 3 + MaxTroubles - troublesLeft}
      BY <2>1 DEF Edit, Trouble
    <3>2. Tops' = Tops + 1 /\ 3 + MaxTroubles - troublesLeft = Tops + 1
      BY <1>1, <3>1, RowAssumption DEF Tops
    <3> QED BY <3>1, <3>2 DEF Typed, AgentTyped
  <2>2. source' = source \/ \E k \in Item, v \in 0 .. 2 + MaxTroubles : Edit(k, v)
    BY Steps, CommitIs DEF Begin, Posts, Drops, Restart, Loses, Vanishes, Waits
  <2> QED BY <2>1, <2>2
<1>4. Tops \in Nat /\ Tops' \in Nat /\ Tops <= Tops'
  <2>1. MaxTroubles \in Nat /\ troublesLeft \in Nat /\ troublesLeft' \in Nat
        /\ troublesLeft <= MaxTroubles /\ troublesLeft' <= troublesLeft
    BY <1>1, RowAssumption
  <2>2. \A m, a, b \in Nat : a <= m /\ b <= a =>
          2 + m - a \in Nat /\ 2 + m - b \in Nat /\ 2 + m - a <= 2 + m - b
    OBVIOUS
  <2>3. /\ 2 + MaxTroubles - troublesLeft \in Nat /\ 2 + MaxTroubles - troublesLeft' \in Nat
        /\ 2 + MaxTroubles - troublesLeft <= 2 + MaxTroubles - troublesLeft'
    BY <2>1, <2>2
  <2> QED BY <2>3 DEF Tops
<1> QED BY <1>1, <1>2, <1>3, <1>4 DEF Latest

\* A batch has the newest versions.
LEMMA BatchLatest ==
  ASSUME Typed, Versions, Posts, kind # "inventory", NEW i \in Item, i \in DOMAIN Batch.rows
  PROVE  Batch.rows[i] = source[i] /\ Batch.rows[i] = Latest(i) /\ Latest(i) \in Nat
<1>1. i \in Page /\ Batch.rows[i] = source[i]
  BY BatchIs DEF Posts, Typed
<1>2. source[i] > 0 /\ source[i] \in Nat
  BY <1>1, PageIs DEF Typed
<1> QED BY <1>1, <1>2 DEF Latest

LEMMA InitVersions == Init => Versions
<1> SUFFICES ASSUME Init PROVE Versions
  OBVIOUS
<1>1. Line = <<>>
  BY DEF Init, Line
<1>2. \A i \in Item : source[i] \in 0 .. 2 /\ row[i].ver = 0 /\ \A r \in Run : taken[r][i] = 0
  BY RowAssumption DEF Init, Item
<1>3. Tops = 2
  BY RowAssumption DEF Init, Tops
<1> QED BY <1>1, <1>2, <1>3 DEF Versions, Spot, Latest

LEMMA VersionsStep ==
  ASSUME Typed, Books, Versions, [Next]_rowVars
  PROVE  Versions'
<1> SUFFICES ASSUME kind' # "inventory", NEW i \in Item
             PROVE  /\ source'[i] <= Tops' /\ row'[i].ver <= Latest(i)'
                    /\ \A r \in Run : taken'[r][i] <= Latest(i)'
                    /\ \A n \in 1 .. Len(Line') : i \in DOMAIN Line'[n].rows =>
                         /\ Line'[n].rows[i] <= Latest(i)'
                         /\ \A r \in Run : r <= Line'[n].run => taken'[r][i] <= Line'[n].rows[i]
  BY DEF Versions, Spot, RowsAt
<1>1. kind # "inventory"
  BY KindStays
<1>2. /\ source'[i] <= Tops' /\ Latest(i) <= Latest(i)' /\ source[i] <= Latest(i)
      /\ Latest(i) \in Nat /\ Latest(i)' \in Nat /\ source[i] \in Nat
  BY <1>1, LatestGrows
<1>3. /\ row[i].ver \in Nat /\ row[i].ver <= Latest(i)
      /\ \A r \in Run : taken[r][i] \in Nat /\ taken[r][i] <= Latest(i)
      /\ \A n \in 1 .. Len(Line) : i \in DOMAIN Line[n].rows =>
           /\ Line[n].rows[i] \in Nat /\ Line[n].rows[i] <= Latest(i)
           /\ \A r \in Run : r <= Line[n].run => taken[r][i] <= Line[n].rows[i]
  <2>1. \A n \in 1 .. Len(Line) : i \in DOMAIN Line[n].rows => Line[n].rows[i] \in Nat
    BY LineIs, JobFacts DEF Typed
  <2> QED BY <1>1, <2>1 DEF Versions, Spot, RowsAt, Typed, TablesTyped, BooksTyped
<1>4. row'[i].ver <= Latest(i)'
  <2>1. CASE Commit
    <3>1. 1 \in 1 .. Len(Line) /\ Line[1] = exec.job
      BY <2>1, CommitIs, LineIs DEF Typed
    <3>2. row'[i].ver = row[i].ver \/ (i \in DOMAIN exec.job.rows /\ row'[i].ver = exec.job.rows[i])
      BY <1>1, <2>1, CommitRows
    <3>3. row'[i].ver \in Nat /\ row'[i].ver <= Latest(i)
      BY <1>3, <3>1, <3>2
    <3> QED BY <1>2, <3>3
  <2>2. CASE ~Commit
    <3>1. row' = row
      BY <2>2, RowStays
    <3> QED BY <1>2, <1>3, <3>1
  <2> QED BY <2>1, <2>2
<1>5. \A r \in Run : taken'[r][i] \in Nat /\ taken'[r][i] <= Latest(i)
  <2>1. CASE \E requested \in BOOLEAN, window \in Windows \cup {{}} : Begin(requested, window)
    <3>1. PICK S : taken' = [taken EXCEPT ![clock] = [k \in Item |-> IF k \in S THEN source[k] ELSE 0]]
      BY <2>1 DEF Begin
    <3> QED BY <1>2, <1>3, <3>1 DEF Typed, BooksTyped
  <2>2. taken' = taken \/ \E requested \in BOOLEAN, window \in Windows \cup {{}} : Begin(requested, window)
    BY Steps, CommitIs DEF Edit, Posts, Drops, Restart, Loses, Vanishes, Waits
  <2> QED BY <1>3, <2>1, <2>2
<1>6. \A n \in 1 .. Len(Line') : i \in DOMAIN Line'[n].rows =>
        /\ Line'[n].rows[i] \in Nat /\ Line'[n].rows[i] <= Latest(i)
        /\ \A r \in Run : r <= Line'[n].run => taken'[r][i] <= Line'[n].rows[i]
  <2> TAKE n \in 1 .. Len(Line')
  <2> HAVE i \in DOMAIN Line'[n].rows
  <2>1. ASSUME NEW m \in 1 .. Len(Line), Line'[n] = Line[m]
        PROVE  /\ Line'[n].rows[i] \in Nat /\ Line'[n].rows[i] <= Latest(i)
               /\ \A r \in Run : r <= Line'[n].run => taken'[r][i] <= Line'[n].rows[i]
    <3> DEFINE j == Line[m]
    <3>1. /\ i \in DOMAIN j.rows /\ j.rows[i] \in Nat /\ j.rows[i] <= Latest(i) /\ j.run < clock
          /\ \A r \in Run : r <= j.run => taken[r][i] <= j.rows[i]
      BY <1>3, <2>1 DEF Books, Spot
    <3>2. \A r \in Run : r <= j.run => r # clock
      <4>1. j.run \in Run /\ clock \in Nat /\ Run \in SUBSET Nat
        BY LineIs, JobFacts, RowAssumption DEF Typed, BooksTyped, Run
      <4> HIDE DEF j
      <4> QED BY <3>1, <4>1
    <3> HIDE DEF j
    <3>3. \A r \in Run : r <= j.run => taken'[r][i] <= j.rows[i]
      BY <3>1, <3>2, TakenStays
    <3>4. Line'[n] = j
      BY <2>1 DEF j
    <3> QED BY <3>1, <3>3, <3>4
  <2>2. ASSUME Posts, Line'[n] = Batch
        PROVE  /\ Line'[n].rows[i] \in Nat /\ Line'[n].rows[i] <= Latest(i)
               /\ \A r \in Run : r <= Line'[n].run => taken'[r][i] <= Line'[n].rows[i]
    <3>1. Batch.rows[i] = Latest(i)
      BY <1>1, <2>2, BatchLatest
    <3> QED BY <1>2, <1>5, <2>2, <3>1
  <2> QED BY <2>1, <2>2, LineComes
<1>7. \A x \in Nat : x <= Latest(i) => x <= Latest(i)'
  BY <1>2
<1> QED BY <1>2, <1>4, <1>5, <1>6, <1>7

-----------------------------------------------------------------------------
(* Order.                                                                  *)

\* A restart that puts a job behind others is noted of all their runs.
LEMMA RestartNotes ==
  ASSUME Typed, Restart, NEW n \in 1 .. Len(Line), Len(Line) > 1
  PROVE  Line[n].run \in Run /\ "reordered" \in flaws'[Line[n].run]
<1>1. exec # NoExec /\ Line[1] = exec.job /\ Len(Line) = Len(queue) + 1 /\ Len(queue) \in Nat
      /\ \A k \in 2 .. Len(Line) : Line[k] = queue[k - 1]
  BY LineIs DEF Restart, Typed
<1>2. queue # <<>>
  BY <1>1
<1>3. Line[n].run \in {queue[k].run : k \in 1 .. Len(queue)} \cup {exec.job.run}
  <2>1. CASE n = 1
    BY <1>1, <2>1
  <2>2. CASE n # 1
    <3>1. n - 1 \in 1 .. Len(queue) /\ Line[n] = queue[n - 1]
      BY <1>1, <2>2
    <3> QED BY <3>1
  <2> QED BY <2>1, <2>2
<1>4. Line[n].run \in Run
  BY LineIs, JobFacts DEF Typed
<1> QED BY <1>2, <1>3, <1>4 DEF Restart

\* Two jobs of the line were there in that order, or the second one is the batch that was sent,
\* or all the runs of the line have the note.
LEMMA PairsCome ==
  ASSUME Typed, [Next]_rowVars, NEW m \in 1 .. Len(Line'), NEW n \in 1 .. Len(Line'), m < n
  PROVE  \/ \E a, b \in 1 .. Len(Line) : a < b /\ Line'[m] = Line[a] /\ Line'[n] = Line[b]
         \/ Posts /\ Line'[n] = Batch /\ \E a \in 1 .. Len(Line) : Line'[m] = Line[a]
         \/ Restart /\ \A x \in 1 .. Len(Line) : "reordered" \in flaws'[Line[x].run]
<1>0. Len(Line) \in Nat
  BY LineIs DEF Typed
<1>1. CASE Line' = Line
  BY <1>1
<1>2. CASE Posts /\ LineGrown(Batch)
  BY <1>0, <1>2 DEF LineGrown
<1>3. CASE LineDropped /\ Len(Line) >= 1
  <2>1. m + 1 \in 1 .. Len(Line) /\ n + 1 \in 1 .. Len(Line) /\ m + 1 < n + 1
        /\ Line'[m] = Line[m + 1] /\ Line'[n] = Line[n + 1]
    BY <1>0, <1>3 DEF LineDropped
  <2> QED BY <2>1
<1>4. CASE Restart /\ LineTurned
  <2>1. Len(Line) > 1
    BY <1>0, <1>4 DEF LineTurned
  <2> QED BY <1>4, <2>1, RestartNotes
<1>5. Line' = Line \/ (Posts /\ LineGrown(Batch)) \/ (LineDropped /\ Len(Line) >= 1) \/ (Restart /\ LineTurned)
  BY Steps, Moves, CommitIs
<1> QED BY <1>1, <1>2, <1>3, <1>4, <1>5

LEMMA InitInOrder == Init => InOrder
<1> SUFFICES ASSUME Init PROVE InOrder
  OBVIOUS
<1>1. Line = <<>>
  BY DEF Init, Line
<1> QED BY <1>1 DEF InOrder, Spot

LEMMA InOrderStep ==
  ASSUME Typed, Versions, InOrder, [Next]_rowVars
  PROVE  InOrder'
<1> SUFFICES ASSUME kind' # "inventory", \A r \in Run : "reordered" \notin flaws'[r]
             PROVE  /\ \A n \in 1 .. Len(Line') : \A i \in DOMAIN Line'[n].rows : row'[i].ver <= Line'[n].rows[i]
                    /\ \A m, n \in 1 .. Len(Line') : m < n =>
                         \A i \in DOMAIN Line'[m].rows \cap DOMAIN Line'[n].rows : Line'[m].rows[i] <= Line'[n].rows[i]
  BY DEF InOrder, Spot, RowsAt
<1>1. kind # "inventory" /\ \A r \in Run : "reordered" \notin flaws[r]
  BY KindStays, FlawsStay
<1>2. /\ \A n \in 1 .. Len(Line) : \A i \in DOMAIN Line[n].rows : row[i].ver <= Line[n].rows[i]
      /\ \A m, n \in 1 .. Len(Line) : m < n =>
           \A i \in DOMAIN Line[m].rows \cap DOMAIN Line[n].rows : Line[m].rows[i] <= Line[n].rows[i]
  BY <1>1 DEF InOrder, Spot, RowsAt
<1>3. \A n \in 1 .. Len(Line) : \A i \in DOMAIN Line[n].rows :
        i \in Item /\ Line[n].rows[i] \in Nat /\ Line[n].rows[i] <= Latest(i)
  <2>1. \A n \in 1 .. Len(Line) : DOMAIN Line[n].rows \in SUBSET Item
                                  /\ \A i \in DOMAIN Line[n].rows : Line[n].rows[i] \in Nat
    BY LineIs, JobFacts DEF Typed
  <2> QED BY <1>1, <2>1 DEF Versions, Spot, RowsAt
<1>4. \A m, n \in 1 .. Len(Line') : m < n =>
        \A i \in DOMAIN Line'[m].rows \cap DOMAIN Line'[n].rows : Line'[m].rows[i] <= Line'[n].rows[i]
  <2> TAKE m, n \in 1 .. Len(Line')
  <2> HAVE m < n
  <2> TAKE i \in DOMAIN Line'[m].rows \cap DOMAIN Line'[n].rows
  <2>1. ASSUME NEW a \in 1 .. Len(Line), NEW b \in 1 .. Len(Line), a < b, Line'[m] = Line[a], Line'[n] = Line[b]
        PROVE  Line'[m].rows[i] <= Line'[n].rows[i]
    BY <1>2, <2>1
  <2>2. ASSUME Posts, Line'[n] = Batch, NEW a \in 1 .. Len(Line), Line'[m] = Line[a]
        PROVE  Line'[m].rows[i] <= Line'[n].rows[i]
    <3>1. i \in Item /\ Line[a].rows[i] <= Latest(i)
      BY <1>3, <2>2
    <3>2. Batch.rows[i] = Latest(i)
      BY <1>1, <2>2, <3>1, BatchLatest
    <3> QED BY <2>2, <3>1, <3>2
  <2>3. ASSUME \A x \in 1 .. Len(Line) : "reordered" \in flaws'[Line[x].run] PROVE FALSE
    <3>1. Len(Line) = 0
      <4>1. \A x \in 1 .. Len(Line) : Line[x].run \in Run
        BY LineIs, JobFacts DEF Typed
      <4>2. 1 \notin 1 .. Len(Line) /\ Len(Line) \in Nat
        BY <2>3, <4>1, LineIs DEF Typed
      <4> QED BY <4>2
    <3>2. Len(Line') <= 1
      <4>1. Line' = Line \/ LineGrown(Batch) \/ LineDropped \/ LineTurned
        BY Steps, Moves, CommitIs
      <4> QED BY <3>1, <4>1 DEF LineGrown, LineDropped, LineTurned
    <3>3. Len(Line') \in Nat
      <4>1. Line' = Line \/ LineGrown(Batch) \/ LineDropped \/ LineTurned
        BY Steps, Moves, CommitIs
      <4> QED BY <3>1, <4>1 DEF LineGrown, LineDropped, LineTurned
    <3> QED BY <3>2, <3>3
  <2> QED BY <2>1, <2>2, <2>3, PairsCome
<1>5. \A n \in 1 .. Len(Line') : \A i \in DOMAIN Line'[n].rows : row'[i].ver <= Line'[n].rows[i]
  <2>1. CASE Commit
    <3>1. Line' = Line /\ 1 \in 1 .. Len(Line) /\ Line[1] = exec.job
      BY <2>1, CommitIs, LineIs DEF Typed
    <3> TAKE n \in 1 .. Len(Line')
    <3> TAKE i \in DOMAIN Line'[n].rows
    <3>2. n \in 1 .. Len(Line) /\ Line'[n] = Line[n] /\ i \in Item /\ row[i].ver <= Line[n].rows[i]
      BY <1>2, <1>3, <3>1
    <3>3. CASE i \in DOMAIN exec.job.rows
      <4>1. row'[i].ver = Line[1].rows[i] /\ Line[1].rows[i] \in Nat
        BY <1>1, <1>3, <2>1, <3>1, <3>2, <3>3, CommitRows
      <4>2. n = 1 \/ 1 < n
        BY LineIs DEF Typed
      <4> QED BY <1>2, <3>1, <3>2, <3>3, <4>1, <4>2
    <3>4. CASE i \notin DOMAIN exec.job.rows
      BY <1>1, <2>1, <3>2, <3>4, CommitRows
    <3> QED BY <3>3, <3>4
  <2>2. CASE ~Commit
    <3>1. row' = row
      BY <2>2, RowStays
    <3> TAKE n \in 1 .. Len(Line')
    <3> TAKE i \in DOMAIN Line'[n].rows
    <3>2. ASSUME NEW m \in 1 .. Len(Line), Line'[n] = Line[m] PROVE row'[i].ver <= Line'[n].rows[i]
      BY <1>2, <3>1, <3>2
    <3>3. ASSUME Posts, Line'[n] = Batch PROVE row'[i].ver <= Line'[n].rows[i]
      <4>1. i \in Item
        BY <3>3, BatchIs DEF Posts, Typed
      <4>2. Batch.rows[i] = Latest(i)
        BY <1>1, <3>3, <4>1, BatchLatest
      <4>3. row[i].ver <= Latest(i)
        BY <1>1, <4>1 DEF Versions
      <4> QED BY <3>1, <3>3, <4>2, <4>3
    <3> QED BY <3>2, <3>3, LineComes
  <2> QED BY <2>1, <2>2
<1> QED BY <1>4, <1>5

\* A row never goes back to an older version: the batches are taken in the order they were
\* accepted, and each has what JTL had when it was sent; unless a restart put a job behind others.
THEOREM NewestStays == Spec => NewestWins
<1>1. ASSUME Typed, InOrder, [Next]_rowVars, \A r \in Run : "reordered" \notin flaws[r]
      PROVE  \A i \in Item : row'[i].ver >= row[i].ver
  <2> TAKE i \in Item
  <2>0. row[i].ver \in Nat
    BY <1>1 DEF Typed, TablesTyped
  <2>1. CASE ~Commit
    BY <1>1, <2>0, <2>1, RowStays
  <2>2. CASE Commit /\ kind = "inventory"
    BY <2>0, <2>2 DEF Commit, StoreOrders, StoreProducts, StoreInventory
  <2>3. CASE Commit /\ kind # "inventory"
    <3>1. 1 \in 1 .. Len(Line) /\ Line[1] = exec.job
      BY <1>1, <2>3, CommitIs, LineIs DEF Typed
    <3>2. i \in DOMAIN exec.job.rows => row[i].ver <= exec.job.rows[i] /\ exec.job.rows[i] \in Nat
      BY <1>1, <2>3, <3>1, LineIs, JobFacts DEF InOrder, Spot, RowsAt, Typed
    <3>3. row'[i].ver = row[i].ver \/ (i \in DOMAIN exec.job.rows /\ row'[i].ver = exec.job.rows[i])
      BY <1>1, <2>3, CommitRows
    <3> QED BY <2>0, <3>2, <3>3
  <2> QED BY <2>1, <2>2, <2>3
<1>2. Spec => [](Typed /\ Books /\ Versions /\ InOrder)
  BY InitTyped, TypedStep, InitBooks, BooksStep, InitVersions, VersionsStep, InitInOrder, InOrderStep, PTL DEF Spec
<1>3. Typed /\ InOrder /\ [Next]_rowVars =>
        [(\A r \in Run : "reordered" \notin flaws[r]) => \A i \in Item : row'[i].ver >= row[i].ver]_rowVars
  BY <1>1
<1> QED BY <1>2, <1>3, PTL DEF Spec, NewestWins

LEMMA InitRuns == Init => \A r \in Run : RunsInOrder(r) /\ Reads(r) /\ Carries(r)
<1> SUFFICES ASSUME Init, NEW r \in Run PROVE RunsInOrder(r) /\ Reads(r) /\ Carries(r)
  OBVIOUS
<1>1. Line = <<>> /\ agent.run = 0 /\ r # 0
  BY DEF Init, Line, Idle, Run
<1> QED BY <1>1 DEF RunsInOrder, Reads, Carries, Spot

LEMMA RunsInOrderStep ==
  ASSUME Typed, Books, [Next]_rowVars, NEW r \in Run, RunsInOrder(r)
  PROVE  RunsInOrder(r)'
<1> SUFFICES ASSUME "reordered" \notin flaws'[r],
                    NEW m \in 1 .. Len(Line'), NEW n \in 1 .. Len(Line'), m < n
             PROVE  (Line'[m].run = r => Line'[n].run >= r) /\ (Line'[n].run = r => Line'[m].run <= r)
  BY DEF RunsInOrder, Spot
<1>1. "reordered" \notin flaws[r]
  BY FlawsStay
<1>2. ASSUME NEW a \in 1 .. Len(Line), NEW b \in 1 .. Len(Line), a < b, Line'[m] = Line[a], Line'[n] = Line[b]
      PROVE  (Line'[m].run = r => Line'[n].run >= r) /\ (Line'[n].run = r => Line'[m].run <= r)
  BY <1>1, <1>2 DEF RunsInOrder, Spot
<1>3. ASSUME Posts, Line'[n] = Batch, NEW a \in 1 .. Len(Line), Line'[m] = Line[a]
      PROVE  (Line'[m].run = r => Line'[n].run >= r) /\ (Line'[n].run = r => Line'[m].run <= r)
  <2>1. Batch.run = agent.run /\ agent.run = clock - 1
    BY <1>3, BatchIs DEF Posts, Sending, Typed, Books
  <2>2. Line[a].run < clock /\ Line[a].run \in Run /\ Run \in SUBSET Nat /\ clock \in Nat
    BY LineIs, JobFacts, RowAssumption DEF Books, Spot, Typed, BooksTyped, Run
  <2>3. Line[a].run \in Nat /\ Line[a].run <= clock - 1
    <3>1. \A x \in Nat : x < clock => x <= clock - 1
      BY <2>2
    <3>2. Line[a].run \in Nat
      BY <2>2
    <3> QED BY <2>2, <3>1, <3>2
  <2> QED BY <1>3, <2>1, <2>3
<1>4. ASSUME Restart, \A x \in 1 .. Len(Line) : "reordered" \in flaws'[Line[x].run]
      PROVE  Line'[m].run # r /\ Line'[n].run # r
  <2>1. ~Posts
    BY <1>4 DEF Restart, Posts
  <2> QED BY <1>4, <2>1, LineComes
<1> QED BY <1>2, <1>3, <1>4, PairsCome

LEMMA ReadsStep ==
  ASSUME Typed, Books, [Next]_rowVars, NEW r \in Run, Reads(r)
  PROVE  Reads(r)'
<1> SUFFICES ASSUME agent'.run = r, "edited" \notin flaws'[r]
             PROVE  /\ Selected(agent.full, agent.window)' = Wanted(r)'
                    /\ \A i \in Wanted(r)' : source'[i] = taken'[r][i]
                    /\ agent'.total = Cardinality(Wanted(r)')
  BY DEF Reads
<1>0. r \in Nat /\ r # 0 /\ clock \in Nat
  BY RowAssumption DEF Run, Typed, BooksTyped
<1>1. CASE \E requested \in BOOLEAN, window \in Windows \cup {{}} : Begin(requested, window)
  <2>1. PICK requested \in BOOLEAN, window \in Windows \cup {{}} : Begin(requested, window)
    BY <1>1
  <2> DEFINE full == IsFull(requested)
             S == Selected(full, window)
  <2>2. /\ agent'.run = clock /\ agent'.full = full /\ agent'.window = window /\ agent'.total = Cardinality(S)
        /\ taken' = [taken EXCEPT ![clock] = [i \in Item |-> IF i \in S THEN source[i] ELSE 0]]
        /\ source' = source
    BY <2>1 DEF Begin
  <2>3. S \in SUBSET Item /\ \A i \in S : source[i] > 0
    BY DEF Selected
  <2>4. Selected(agent.full, agent.window)' = S
    BY <2>2 DEF Selected
  <2> HIDE DEF full, S
  <2>5. \A i \in Item : taken'[r][i] = IF i \in S THEN source[i] ELSE 0
    BY <2>2 DEF Typed, BooksTyped
  <2>6. Wanted(r)' = S
    BY <2>3, <2>5 DEF Wanted
  <2> QED BY <2>2, <2>3, <2>4, <2>5, <2>6
<1>2. CASE ~\E requested \in BOOLEAN, window \in Windows \cup {{}} : Begin(requested, window)
  <2>1. /\ agent.run = r /\ agent'.full = agent.full /\ agent'.window = agent.window /\ agent'.total = agent.total
    BY <1>0, <1>2, AgentMoves
  <2>2. r # clock
    BY <1>0, <2>1 DEF Books
  <2>3. taken'[r] = taken[r] /\ "edited" \notin flaws[r]
    BY <2>2, TakenStays, FlawsStay
  <2>4. source' = source
    <3>1. ASSUME NEW i \in Item, NEW v \in 0 .. 2 + MaxTroubles, Edit(i, v) PROVE FALSE
      <4>1. Note({agent.run}, {"edited"})
        BY <3>1 DEF Edit
      <4> QED BY <2>1, <4>1 DEF Note
    <3> QED BY <1>2, <3>1, Steps, CommitIs DEF Posts, Drops, Restart, Loses, Vanishes, Waits
  <2>5. Wanted(r)' = Wanted(r)
    BY <2>3 DEF Wanted
  <2>6. Selected(agent.full, agent.window)' = Selected(agent.full, agent.window)
    BY <2>1, <2>4 DEF Selected
  <2> QED BY <2>1, <2>3, <2>4, <2>5, <2>6 DEF Reads
<1> QED BY <1>1, <1>2

LEMMA CarriesStep ==
  ASSUME Typed, Books, [Next]_rowVars, NEW r \in Run, Reads(r), Carries(r)
  PROVE  Carries(r)'
<1> SUFFICES ASSUME "edited" \notin flaws'[r], NEW n \in 1 .. Len(Line'), Line'[n].run = r,
                    NEW i \in DOMAIN Line'[n].rows
             PROVE  i \in Wanted(r)' /\ Line'[n].rows[i] = taken'[r][i]
  BY DEF Carries, Spot, RowsAt
<1>1. "edited" \notin flaws[r]
  BY FlawsStay
<1>2. ASSUME NEW m \in 1 .. Len(Line), Line'[n] = Line[m]
      PROVE  i \in Wanted(r)' /\ Line'[n].rows[i] = taken'[r][i]
  <2>1. i \in Wanted(r) /\ Line[m].rows[i] = taken[r][i] /\ r < clock
    BY <1>1, <1>2 DEF Carries, Books, Spot, RowsAt
  <2>2. taken'[r] = taken[r]
    <3>1. r # clock
      BY <2>1, RowAssumption DEF Typed, BooksTyped, Run
    <3> QED BY <3>1, TakenStays
  <2> QED BY <1>2, <2>1, <2>2 DEF Wanted
<1>3. ASSUME Posts, Line'[n] = Batch
      PROVE  i \in Wanted(r)' /\ Line'[n].rows[i] = taken'[r][i]
  <2>1. agent.run = r /\ i \in Page /\ Batch.rows[i] = source[i]
    BY <1>3, BatchIs DEF Posts, Typed
  <2>2. Page \in SUBSET Selected(agent.full, agent.window)
    BY PageIs DEF PageOf, Typed
  <2>3. taken' = taken
    BY <1>3 DEF Posts
  <2> QED BY <1>1, <1>3, <2>1, <2>2, <2>3 DEF Reads, Wanted
<1> QED BY <1>2, <1>3, LineComes

-----------------------------------------------------------------------------
(* Rows that are stored, and rows that are in the line.                    *)

\* Every job keeps its place; or the first one leaves; or all the runs have the note.
LineHeld == Len(Line') >= Len(Line) /\ \A n \in 1 .. Len(Line) : Line'[n] = Line[n]

\* The first job leaves, done or failed or lost.
LineLeft == /\ LineDropped /\ Len(Line) >= 1
            /\ (Drops /\ Line[1] = exec.job) \/ (Vanishes /\ "lost" \in flaws'[Line[1].run])

LEMMA LineNat == Typed => Len(Line) \in Nat
BY LineIs DEF Typed

LEMMA LineCases ==
  ASSUME Typed, [Next]_rowVars
  PROVE  \/ LineHeld /\ (Len(Line') = Len(Line) \/ (Posts /\ LineGrown(Batch)))
         \/ LineLeft
         \/ Restart /\ \A x \in 1 .. Len(Line) : "reordered" \in flaws'[Line[x].run]
<1>0. Len(Line) \in Nat
  BY LineIs DEF Typed
<1>1. CASE Line' = Line
  BY <1>0, <1>1 DEF LineHeld
<1>2. CASE Posts /\ LineGrown(Batch)
  BY <1>0, <1>2 DEF LineHeld, LineGrown
<1>3. CASE Restart /\ LineTurned /\ Len(Line) >= 1
  <2>1. CASE Len(Line) = 1
    BY <1>0, <1>3, <2>1 DEF LineHeld, LineTurned
  <2>2. CASE Len(Line) # 1
    <3>1. Len(Line) > 1
      <4>1. \A x \in Nat : x >= 1 /\ x # 1 => x > 1
        OBVIOUS
      <4>2. Len(Line) >= 1 /\ Len(Line) # 1
        BY <1>3, <2>2
      <4> QED BY <1>0, <4>1, <4>2
    <3>2. \A n \in 1 .. Len(Line) : "reordered" \in flaws'[Line[n].run]
      BY <1>3, <3>1, RestartNotes
    <3> QED BY <1>3, <3>2
  <2> QED BY <2>1, <2>2
<1> QED BY <1>1, <1>2, <1>3, Steps, Moves, CommitIs DEF LineLeft

\* What a run is to have is in the table and in all jobs, in that version or newer, from then on.
LEMMA KeptStays ==
  ASSUME Typed, Versions, [Next]_rowVars, kind # "inventory", NEW r \in Run, r # clock,
         NEW i \in Item, Kept(r, i)
  PROVE  Kept(r, i)'
<1>1. taken'[r] = taken[r] /\ taken[r][i] \in Nat /\ taken[r][i] <= Latest(i)
  BY TakenStays DEF Versions, Typed, BooksTyped
<1>2. /\ row[i].ver \in Nat /\ row[i].ver >= taken[r][i]
      /\ \A n \in 1 .. Len(Line) : i \in DOMAIN Line[n].rows => Line[n].rows[i] >= taken[r][i]
  BY DEF Kept, Spot, RowsAt, Typed, TablesTyped
<1>3. row'[i].ver >= taken[r][i]
  <2>1. CASE Commit
    <3>1. 1 \in 1 .. Len(Line) /\ Line[1] = exec.job
      BY <2>1, CommitIs, LineIs DEF Typed
    <3> QED BY <1>2, <2>1, <3>1, CommitRows
  <2>2. CASE ~Commit
    BY <1>2, <2>2, RowStays
  <2> QED BY <2>1, <2>2
<1>4. \A n \in 1 .. Len(Line') : i \in DOMAIN Line'[n].rows => Line'[n].rows[i] >= taken[r][i]
  <2> TAKE n \in 1 .. Len(Line')
  <2> HAVE i \in DOMAIN Line'[n].rows
  <2>1. ASSUME NEW m \in 1 .. Len(Line), Line'[n] = Line[m] PROVE Line'[n].rows[i] >= taken[r][i]
    BY <1>2, <2>1
  <2>2. ASSUME Posts, Line'[n] = Batch PROVE Line'[n].rows[i] >= taken[r][i]
    <3>1. Batch.rows[i] = Latest(i) /\ Latest(i) \in Nat
      BY <2>2, BatchLatest
    <3> QED BY <1>1, <2>2, <3>1
  <2> QED BY <2>1, <2>2, LineComes
<1> QED BY <1>1, <1>3, <1>4 DEF Kept, Spot, RowsAt

\* A row that was stored since the run began stays so, unless a newer run's last batch comes.
LEMMA StoredStays ==
  ASSUME Typed, Books, Versions, [Next]_rowVars, kind # "inventory", NEW r \in Run, r # clock,
         NEW i \in Item, Stored(r, i), Commit => exec.job.run <= r
  PROVE  Stored(r, i)'
<1>1. Kept(r, i)'
  BY KeptStays DEF Stored
<1>2. row[i].active /\ row[i].synced > r
  BY DEF Stored
<1>3. CASE ~Commit
  <2>1. row' = row
    BY <1>3, RowStays
  <2> QED BY <1>1, <1>2, <2>1 DEF Stored
<1>4. CASE Commit
  <2>1. /\ 1 \in 1 .. Len(Line) /\ Line[1] = exec.job /\ exec.job.run \in Run
    BY <1>4, CommitIs, LineIs, JobFacts DEF Typed
  <2>2. exec.job.run < clock /\ exec.job.start = exec.job.run + 1
    BY <2>1 DEF Books, Spot
  <2>3. r \in Nat /\ exec.job.run \in Nat /\ clock \in Nat /\ row[i].synced \in 0 .. clock
    <3>1. \A x \in Run : x \in Nat
      BY RowAssumption DEF Run
    <3>2. clock \in Nat
      BY RowAssumption DEF Typed, BooksTyped
    <3>3. row[i].synced \in 0 .. clock
      BY DEF Typed, TablesTyped
    <3> QED BY <2>1, <3>1, <3>2, <3>3
  <2>4. r < clock /\ row[i].synced \in Nat
    BY <1>2, <2>3
  <2> DEFINE j == exec.job
  <2>5. j.run \in Nat /\ j.run < clock /\ j.start = j.run + 1 /\ j.run <= r
    BY <1>4, <2>2, <2>3
  <2>6. /\ i \in DOMAIN j.rows => row'[i].synced = clock /\ (row'[i].active \/ clock < j.start)
        /\ i \notin DOMAIN j.rows => row'[i].synced = row[i].synced /\ (row[i].active /\ ~(row[i].synced < j.start) => row'[i].active)
    BY <1>4, CommitRows
  <2> HIDE DEF j
  <2>7. ~(clock < j.start) /\ ~(row[i].synced < j.start)
    BY <1>2, <2>3, <2>4, <2>5
  <2>8. row'[i].active /\ row'[i].synced > r
    BY <1>2, <2>3, <2>4, <2>6, <2>7
  <2> QED BY <1>1, <2>8 DEF Stored
<1> QED BY <1>3, <1>4

\* What is covered stays covered; a committed batch leaves its rows in the table.
LEMMA CoveredStays ==
  ASSUME Typed, Books, Versions, [Next]_rowVars, kind # "inventory", NEW r \in Run, r # clock,
         Commits(r), Whole(r), Whole(r)', NEW i \in Item, Commit => exec.job.run <= r, NEW N \in Nat, Covered(r, i, N)
  PROVE  /\ LineHeld => Covered(r, i, N)'
         /\ LineLeft => Covered(r, i, N - 1)'
         /\ Restart /\ (\A x \in 1 .. Len(Line) : "reordered" \in flaws'[Line[x].run]) => Stored(r, i)'
<1>1. CASE Stored(r, i)
  <2>1. Stored(r, i)'
    BY <1>1, StoredStays
  <2> QED BY <2>1 DEF Covered
<1>2. CASE \E n \in 1 .. Len(Line) : n <= N /\ Line[n].run = r /\ i \in DOMAIN Line[n].rows
  <2>0. Len(Line) \in Nat /\ Len(Line') \in Nat
    <3>1. Typed'
      BY TypedStep
    <3>2. (Len(Line) \in Nat)'
      BY <3>1, LineNat, PTL
    <3> QED BY <3>2, LineNat
  <2>1. PICK n \in 1 .. Len(Line) : n <= N /\ Line[n].run = r /\ i \in DOMAIN Line[n].rows
    BY <1>2
  <2>2. ASSUME LineHeld PROVE Covered(r, i, N)'
    <3>1. n \in 1 .. Len(Line') /\ Line'[n] = Line[n]
      BY <2>0, <2>2 DEF LineHeld
    <3> QED BY <2>1, <3>1 DEF Covered, Spot, RowsAt
  <2>3. ASSUME LineLeft PROVE Covered(r, i, N - 1)'
    <3>1. CASE n = 1
      <4>1. Drops /\ exec.job.run = r /\ i \in DOMAIN exec.job.rows
        BY <2>1, <2>3, <3>1 DEF LineLeft, Whole
      <4>2. exec.pc = "committed"
        BY <4>1 DEF Drops, Whole
      <4>3. Stored(r, i)
        BY <4>1, <4>2 DEF Commits
      <4>4. Stored(r, i)'
        BY <4>3, StoredStays
      <4> QED BY <4>4 DEF Covered
    <3>2. CASE n # 1
      <4>1. n - 1 \in 1 .. Len(Line') /\ Line'[n - 1] = Line[n] /\ n - 1 <= N - 1
        BY <2>0, <2>1, <2>3, <3>2 DEF LineLeft, LineDropped
      <4> QED BY <2>1, <4>1 DEF Covered, Spot, RowsAt
    <3> QED BY <3>1, <3>2
  <2>4. ASSUME Restart, \A x \in 1 .. Len(Line) : "reordered" \in flaws'[Line[x].run] PROVE FALSE
    BY <2>1, <2>4 DEF Whole
  <2> QED BY <2>2, <2>3, <2>4
<1> QED BY <1>1, <1>2 DEF Covered, Spot, RowsAt

LEMMA SomewhereStays ==
  ASSUME Typed, Books, Versions, [Next]_rowVars, kind # "inventory", NEW r \in Run, r # clock,
         Commits(r), Whole(r), Whole(r)', NEW i \in Item, Commit => exec.job.run <= r, Somewhere(r, i)
  PROVE  Somewhere(r, i)'
<1> DEFINE N == Len(Line)
<1>0. N \in Nat
  BY LineIs DEF Typed
<1>1. Covered(r, i, N)
  BY <1>0 DEF Covered, Somewhere, Spot
<1> HIDE DEF N
<1>2. PICK M \in Nat : M = N
  BY <1>0
<1>3. Covered(r, i, M)
  BY <1>1, <1>2
<1>4. Covered(r, i, M)' \/ Covered(r, i, M - 1)' \/ Stored(r, i)'
  BY <1>3, CoveredStays, LineCases
<1> QED BY <1>4 DEF Covered, Somewhere

\* A batch is put at the end of the line, unless its index is taken.
LEMMA SendsMoves ==
  ASSUME Typed, Posts
  PROVE  /\ <<agent.run, agent.offset \div agent.size>> \in accepted \/ LineGrown(Batch)
         /\ accepted' = accepted \cup {<<agent.run, agent.offset \div agent.size>>}
         /\ agent.run \in Run /\ agent.offset < agent.total
<1>1. Batch \in Jobs /\ Batch.run = agent.run /\ agent.run \in Run /\ Batch.index = agent.offset \div agent.size
  BY BatchIs DEF Posts, Typed
<1>2. JobId(Batch) = <<agent.run, agent.offset \div agent.size>>
  BY <1>1 DEF JobId
<1>3. JobId(Batch) \in accepted \/ (queue' = Append(queue, Batch) /\ exec' = exec)
  BY DEF Posts, Enqueue
<1> QED BY <1>1, <1>2, <1>3, LineGrows DEF Posts, Enqueue, Typed, Sending

LEMMA AgentIs ==
  ASSUME Typed
  PROVE  /\ agent.offset \in Nat /\ agent.size \in Nat \ {0} /\ agent.total \in Nat /\ clock \in Nat
         /\ Run \in SUBSET Nat /\ agent.run \in Nat /\ \A r \in Run : r # 0 /\ Wanted(r) \in SUBSET Item
<1>1. /\ agent.offset \in 0 .. ItemCount /\ agent.size \in 1 .. BatchSize /\ agent.total \in 0 .. ItemCount
      /\ clock \in 1 .. MaxRuns + 1 /\ agent.run \in Run \cup {0}
  BY DEF Typed, AgentTyped, BooksTyped
<1>2. Run \in SUBSET Nat /\ \A r \in Run : r # 0 /\ Wanted(r) \in SUBSET Item
  BY RowAssumption DEF Run, Wanted
<1>3. agent.run \in Nat
  <2>1. Run \cup {0} \in SUBSET Nat
    BY <1>2
  <2> QED BY <1>1, <2>1
<1> QED BY <1>1, <1>2, <1>3, RowAssumption

\* While a run of the agent is read, the line has no newer one.
LEMMA AgentNewest ==
  ASSUME Typed, Books, agent.run # 0
  PROVE  /\ agent.run \in Run /\ agent.run # clock /\ agent.run < clock
         /\ \A n \in 1 .. Len(Line) : Line[n].run <= agent.run
         /\ Commit => exec.job.run <= agent.run
<1>1. agent.run = clock - 1 /\ agent.run \in Run /\ clock \in Nat
  BY AgentIs DEF Books, Typed, AgentTyped
<1>2. \A n \in 1 .. Len(Line) : Line[n].run < clock /\ Line[n].run \in Nat
  BY AgentIs, LineIs, JobFacts DEF Books, Spot, Typed
<1>3. \A x \in Nat : x < clock => x <= agent.run
  BY <1>1
<1>4. Commit => 1 \in 1 .. Len(Line) /\ Line[1] = exec.job
  BY CommitIs, LineIs DEF Typed
<1> QED BY <1>1, <1>2, <1>3, <1>4

\* When its batch is answered, everything of the run up to the end of the page is somewhere.
LEMMA SentPage ==
  ASSUME Typed, Books, Versions, [Next]_rowVars, kind # "inventory", NEW r \in Run, agent.run = r, Posts,
         Reads(r), Sends(r), Commits(r), Whole(r), Whole(r)'
  PROVE  \A i \in Wanted(r) : Rank(Wanted(r), i) < agent.offset + agent.size => Somewhere(r, i)'
<1> SUFFICES ASSUME NEW i \in Wanted(r), Rank(Wanted(r), i) < agent.offset + agent.size
             PROVE  Somewhere(r, i)'
  OBVIOUS
<1>1. /\ agent.offset \in Nat /\ agent.size \in Nat \ {0} /\ Wanted(r) \in SUBSET Item /\ i \in Item /\ r # 0
  BY AgentIs DEF Wanted
<1>2. r # clock /\ (Commit => exec.job.run <= r)
  BY <1>1, AgentNewest
<1>3. ASSUME Somewhere(r, i) PROVE Somewhere(r, i)'
  BY <1>1, <1>2, <1>3, SomewhereStays
<1>4. Sent(r, agent.offset)
  BY DEF Sends
<1>5. ASSUME ~Somewhere(r, i) PROVE Somewhere(r, i)'
  <2>1. Rank(Wanted(r), i) \in Nat /\ agent.offset <= Rank(Wanted(r), i)
    BY <1>1, <1>4, <1>5, RankIs DEF Sent
  <2>2. i \in Page
    <3>1. "edited" \notin flaws[r]
      BY DEF Whole
    <3>2. Selected(agent.full, agent.window) = Wanted(r)
      BY <3>1 DEF Reads
    <3> QED BY <2>1, <3>2, PageIs DEF PageOf, Typed
  <2>3. LineGrown(Batch)
    <3> DEFINE k == agent.offset \div agent.size
    <3>1. k \in Nat /\ agent.offset < k * agent.size + agent.size
      BY <1>1, DivIs
    <3>2. <<r, k>> \in accepted \/ LineGrown(Batch)
      BY SendsMoves
    <3> HIDE DEF k
    <3>3. ASSUME <<r, k>> \in accepted PROVE Sent(r, agent.offset + agent.size)
      <4>1. k * agent.size + agent.size <= agent.offset \/ Sent(r, agent.offset + agent.size)
        BY <3>1, <3>3 DEF Sends
      <4>2. k * agent.size \in Nat
        BY <1>1, <3>1
      <4> QED BY <1>1, <3>1, <4>1, <4>2
    <3> QED BY <1>5, <3>2, <3>3 DEF Sent
  <2>4. i \in DOMAIN Batch.rows /\ Batch.run = r
    BY <2>2, BatchIs DEF Posts, Typed
  <2>5. Len(Line) + 1 \in 1 .. Len(Line') /\ Line'[Len(Line) + 1] = Batch
    BY <2>3, LineNat DEF LineGrown
  <2> QED BY <2>4, <2>5 DEF Somewhere, Spot, RowsAt
<1> QED BY <1>3, <1>5

LEMMA TimesLess ==
  ASSUME NEW k \in Nat, NEW s \in Nat, NEW t \in Nat, s <= t
  PROVE  k * s <= k * t /\ k * s \in Nat /\ k * t \in Nat
<1>1. PICK d \in Nat : t = s + d
  <2>1. t - s \in Nat /\ t = s + (t - s)
    OBVIOUS
  <2> QED BY <2>1
<1>2. k * (s + d) = k * s + k * d /\ k * d \in Nat /\ k * s \in Nat
  OBVIOUS
<1> QED BY <1>1, <1>2

LEMMA WantedStays ==
  ASSUME Typed, [Next]_rowVars, NEW r \in Run, r # clock
  PROVE  taken'[r] = taken[r] /\ Wanted(r)' = Wanted(r)
BY TakenStays DEF Wanted

LEMMA SendsStep ==
  ASSUME Typed, Books, Versions, [Next]_rowVars, kind # "inventory", NEW r \in Run, Reads(r), Sends(r), Commits(r)
  PROVE  Sends(r)'
<1> SUFFICES ASSUME agent'.run = r, Whole(r)'
             PROVE  /\ \A i \in Wanted(r)' : Rank(Wanted(r)', i) < agent'.offset => Somewhere(r, i)'
                    /\ \A k \in Nat : <<r, k>> \in accepted' =>
                         /\ k * agent'.size <= agent'.offset
                         /\ \/ k * agent'.size + agent'.size <= agent'.offset
                            \/ \A i \in Wanted(r)' : Rank(Wanted(r)', i) < agent'.offset + agent'.size => Somewhere(r, i)'
  BY DEF Sends, Sent, Rank
<1>1. /\ agent.offset \in Nat /\ agent.size \in Nat \ {0} /\ clock \in Nat /\ r \in Nat /\ r # 0
      /\ Wanted(r) \in SUBSET Item /\ agent.total \in Nat
  BY AgentIs
<1>2. Whole(r)
  BY FlawsStay DEF Whole
<1>3. CASE \E requested \in BOOLEAN, window \in Windows \cup {{}} : Begin(requested, window)
  <2>1. PICK requested \in BOOLEAN, window \in Windows \cup {{}} : Begin(requested, window)
    BY <1>3
  <2>2. r = clock /\ accepted' = accepted
    BY <1>3, <2>1, AgentMoves DEF Begin, Idle
  <2> DEFINE resume == ~requested /\ 0 < saved.offset /\ saved.offset < Cardinality(Selected(IsFull(requested), window))
  <2>3. agent'.offset = IF resume THEN saved.offset ELSE 0
    BY <2>1 DEF Begin
  <2>4. ~resume
    <3>1. \E F : Note({clock}, (IF resume THEN {"resumed"} ELSE {}) \cup F)
      BY <2>1 DEF Begin
    <3> HIDE DEF resume
    <3>2. "resumed" \notin flaws'[r]
      BY DEF Whole
    <3> QED BY <2>2, <3>1, <3>2 DEF Note
  <2>5. agent'.offset = 0
    BY <2>3, <2>4
  <2>6. Wanted(r)' \in SUBSET Item
    BY DEF Wanted
  <2>7. \A k \in Nat : <<r, k>> \notin accepted'
    BY <1>1, <2>2 DEF Books
  <2>8. \A i \in Wanted(r)' : ~(Rank(Wanted(r)', i) < 0)
    <3> TAKE i \in Wanted(r)'
    <3>1. i \in Item
      BY <2>6
    <3>2. PICK S \in SUBSET Item : S = Wanted(r)'
      BY <2>6
    <3>3. Rank(S, i) \in Nat
      BY <3>1, RankIs
    <3> QED BY <3>2, <3>3
  <2> QED BY <2>5, <2>7, <2>8
<1>4. CASE ~\E requested \in BOOLEAN, window \in Windows \cup {{}} : Begin(requested, window)
  <2>1. agent.run = r
    BY <1>1, <1>4, AgentMoves
  <2>2. r # clock /\ (Commit => exec.job.run <= r)
    BY <1>1, <2>1, AgentNewest
  <2>3. Wanted(r)' = Wanted(r)
    BY <2>2, WantedStays
  <2>4. /\ Sent(r, agent.offset)
        /\ \A k \in Nat : <<r, k>> \in accepted =>
             /\ k * agent.size <= agent.offset
             /\ k * agent.size + agent.size <= agent.offset \/ Sent(r, agent.offset + agent.size)
    BY <1>2, <2>1 DEF Sends
  <2>5. \A i \in Item : Somewhere(r, i) => Somewhere(r, i)'
    BY <1>2, <2>2, SomewhereStays
  <2> DEFINE All(o) == \A i \in Wanted(r) : Rank(Wanted(r), i) < o => Somewhere(r, i)'
  <2>6. \A o : Sent(r, o) => All(o)
    BY <1>1, <2>5 DEF Sent
  <2>7. \A o, p \in Nat : p <= o /\ All(o) => All(p)
    <3> TAKE o, p \in Nat
    <3>1. \A i \in Wanted(r) : Rank(Wanted(r), i) \in Nat
      BY <1>1, RankIs
    <3> QED BY <3>1
  <2>10. ~Loses
    BY <2>1 DEF Loses, Whole
  <2>8. CASE ~Posts
    <3>1. accepted' \in SUBSET accepted
      BY <1>4, <2>10, <2>8, Steps, CommitIs DEF Edit, Drops, Restart, Vanishes, Waits
    <3>2. agent'.offset = agent.offset /\ agent'.size \in Nat \ {0} /\ agent'.size <= agent.size
      <4>1. agent' = agent \/ agent' = Idle \/ \E s \in 1 .. agent.size : agent' = [agent EXCEPT !.size = s]
        BY <1>4, <2>10, <2>8, Steps, CommitIs DEF Edit, Drops, Restart, Vanishes, Waits, agentVars
      <4>2. agent' # Idle
        BY <1>1 DEF Idle
      <4>3. ASSUME NEW s \in 1 .. agent.size, agent' = [agent EXCEPT !.size = s]
            PROVE  agent'.offset = agent.offset /\ agent'.size = s
        BY <4>3 DEF Typed, AgentTyped
      <4> QED BY <1>1, <4>1, <4>2, <4>3
    <3>3. All(agent.offset)
      BY <2>4, <2>6
    <3>4. ASSUME NEW k \in Nat, <<r, k>> \in accepted'
          PROVE  /\ k * agent'.size <= agent.offset
                 /\ k * agent'.size + agent'.size <= agent.offset \/ All(agent.offset + agent'.size)
      <4>1. k * agent.size <= agent.offset /\ (k * agent.size + agent.size <= agent.offset \/ All(agent.offset + agent.size))
        BY <2>4, <2>6, <3>1, <3>4
      <4>2. k * agent'.size <= k * agent.size /\ k * agent'.size \in Nat /\ k * agent.size \in Nat
        BY <1>1, <3>2, TimesLess
      <4>3. ASSUME All(agent.offset + agent.size) PROVE All(agent.offset + agent'.size)
        <5>1. agent.offset + agent.size \in Nat /\ agent.offset + agent'.size \in Nat
              /\ agent.offset + agent'.size <= agent.offset + agent.size
          BY <1>1, <3>2
        <5> HIDE DEF All
        <5> QED BY <2>7, <4>3, <5>1
      <4> HIDE DEF All
      <4> QED BY <1>1, <3>2, <4>1, <4>2, <4>3
    <3> QED BY <2>3, <3>2, <3>3, <3>4
  <2>9. CASE Posts
    <3>1. All(agent.offset + agent.size)
      BY <1>2, <2>1, <2>9, SentPage
    <3>2. ASSUME NEW k \in Nat, <<r, k>> \in accepted' PROVE k * agent.size <= agent.offset /\ k * agent.size \in Nat
      <4>1. accepted' = accepted \cup {<<r, agent.offset \div agent.size>>}
        BY <2>1, <2>9, SendsMoves
      <4>2. (agent.offset \div agent.size) * agent.size <= agent.offset
        BY <1>1, DivIs
      <4> QED BY <1>1, <2>4, <3>2, <4>1, <4>2
    <3>3. CASE agent' = [agent EXCEPT !.offset = agent.offset + Cardinality(Page)]
      <4>1. agent'.offset = agent.offset + Cardinality(Page) /\ agent'.size = agent.size
            /\ Cardinality(Page) \in Nat /\ Cardinality(Page) <= agent.size
        BY <2>9, <3>3, BatchIs DEF Posts, Typed, AgentTyped
      <4>2. All(agent'.offset)
        BY <1>1, <2>7, <3>1, <4>1
      <4>3. CASE \E i \in Wanted(r) : Rank(Wanted(r), i) >= agent.offset + agent.size
        <5>1. Selected(agent.full, agent.window) = Wanted(r)
          BY <1>2, <2>1 DEF Reads, Whole
        <5>2. Cardinality(Page) = agent.size
          BY <1>1, <4>3, <5>1, PageIs, PageFull DEF Typed
        <5>3. \A k \in Nat : <<r, k>> \in accepted' => k * agent.size <= agent.offset /\ k * agent.size \in Nat
          BY <3>2
        <5> HIDE DEF All
        <5>4. \A k \in Nat : <<r, k>> \in accepted' => k * agent.size <= agent'.offset /\ k * agent.size + agent.size <= agent'.offset
          BY <1>1, <4>1, <5>2, <5>3
        <5> QED BY <2>3, <4>1, <4>2, <5>4 DEF All
      <4>4. CASE ~\E i \in Wanted(r) : Rank(Wanted(r), i) >= agent.offset + agent.size
        <5>1. \A i \in Wanted(r) : Rank(Wanted(r), i) < agent.offset + agent.size
          <6> TAKE i \in Wanted(r)
          <6>1. Rank(Wanted(r), i) \in Nat
            BY <1>1, RankIs
          <6> QED BY <1>1, <4>4, <6>1
        <5>2. \A i \in Wanted(r) : Somewhere(r, i)'
          BY <3>1, <5>1
        <5>3. \A k \in Nat : <<r, k>> \in accepted' => k * agent'.size <= agent'.offset
          BY <1>1, <3>2, <4>1
        <5> QED BY <2>3, <5>2, <5>3
      <4> QED BY <4>3, <4>4
    <3>4. CASE \E s \in 1 .. agent.size : agent' = [agent EXCEPT !.size = s]
      <4>1. PICK s \in 1 .. agent.size : agent' = [agent EXCEPT !.size = s]
        BY <3>4
      <4>2. agent'.offset = agent.offset /\ agent'.size = s /\ s \in Nat /\ s <= agent.size
        BY <1>1, <4>1 DEF Typed, AgentTyped
      <4>3. All(agent.offset) /\ All(agent.offset + s)
        BY <1>1, <2>7, <3>1, <4>2
      <4>4. \A k \in Nat : <<r, k>> \in accepted' => k * s <= agent.offset
        BY <1>1, <3>2, <4>2, TimesLess
      <4> QED BY <2>3, <4>2, <4>3, <4>4
    <3> QED BY <1>1, <2>9, <3>3, <3>4 DEF Posts, Idle
  <2> QED BY <2>8, <2>9
<1> QED BY <1>3, <1>4

\* The runs of the line, relative to a run that is in it.
LEMMA FirstInLine ==
  ASSUME Typed, NEW r \in Run, RunsInOrder(r), "reordered" \notin flaws[r], NEW n \in 1 .. Len(Line), Line[n].run = r
  PROVE  Commit => exec.job.run <= r
<1> SUFFICES ASSUME Commit PROVE exec.job.run <= r
  OBVIOUS
<1>1. 1 \in 1 .. Len(Line) /\ Line[1] = exec.job /\ Len(Line) \in Nat
  BY CommitIs, LineIs DEF Typed
<1>2. r \in Nat
  BY AgentIs
<1>3. n = 1 \/ 1 < n
  BY <1>1
<1> QED BY <1>1, <1>2, <1>3 DEF RunsInOrder, Spot

\* A run that has a job in the line has begun.
LEMMA InLine ==
  ASSUME Typed, Books, NEW r \in Run, NEW n \in 1 .. Len(Line), Line[n].run = r
  PROVE  r # clock /\ r < clock
<1>1. r < clock /\ r \in Nat /\ clock \in Nat
  BY AgentIs DEF Books, Spot
<1> QED BY <1>1

LEMMA LastsStep ==
  ASSUME Typed, Books, Versions, [Next]_rowVars, kind # "inventory", NEW r \in Run, RunsInOrder(r), Reads(r), Sends(r),
         Commits(r), Lasts(r)
  PROVE  Lasts(r)'
<1> SUFFICES ASSUME Whole(r)', NEW n \in 1 .. Len(Line'), Line'[n].run = r, IsLast(Line'[n]), NEW i \in Wanted(r)'
             PROVE  Covered(r, i, n)'
  BY DEF Lasts, Spot, IsLast
<1>1. Whole(r) /\ "reordered" \notin flaws[r]
  BY FlawsStay DEF Whole
<1>2. Len(Line) \in Nat /\ n \in Nat /\ i \in Item
  BY LineNat DEF Wanted
<1>3. ASSUME NEW m \in 1 .. Len(Line), Line'[n] = Line[m]
      PROVE  r # clock /\ (Commit => exec.job.run <= r) /\ Covered(r, i, m)
  <2>1. r # clock /\ (Commit => exec.job.run <= r)
    BY <1>1, <1>3, FirstInLine, InLine
  <2>2. i \in Wanted(r)
    BY <2>1, WantedStays
  <2> QED BY <1>1, <1>3, <2>1, <2>2 DEF Lasts, Spot
<1>4. ASSUME LineHeld, n <= Len(Line) PROVE Covered(r, i, n)'
  <2>1. n \in 1 .. Len(Line) /\ Line'[n] = Line[n]
    BY <1>2, <1>4 DEF LineHeld
  <2> QED BY <1>1, <1>2, <1>3, <1>4, <2>1, CoveredStays
<1>5. ASSUME Posts, LineGrown(Batch), n > Len(Line) PROVE Covered(r, i, n)'
  <2>1. n = Len(Line) + 1 /\ Line'[n] = Batch /\ n = Len(Line')
    BY <1>2, <1>5 DEF LineGrown
  <2>2. /\ Batch.run = agent.run /\ agent.run = r /\ Batch.index = agent.offset \div agent.size
        /\ Batch.total = Chunks(agent.total, agent.size) /\ agent.offset < agent.total
    BY <1>5, <2>1, BatchIs DEF Posts, Typed, Sending
  <2>3. agent.total <= agent.offset + agent.size
    <3>1. agent.offset \div agent.size = Chunks(agent.total, agent.size) - 1
      BY <2>1, <2>2 DEF IsLast
    <3> QED BY <2>2, <3>1, AgentIs, Index
  <2>4. r # clock /\ r # 0
    BY <2>2, AgentNewest, AgentIs
  <2>5. i \in Wanted(r) /\ Wanted(r) \in SUBSET Item
    BY <2>4, WantedStays, AgentIs
  <2>6. agent.total = Cardinality(Wanted(r))
    BY <1>1, <2>2 DEF Reads, Whole
  <2>7. Rank(Wanted(r), i) < Cardinality(Wanted(r)) /\ Rank(Wanted(r), i) \in Nat
    BY <1>2, <2>5, RankInside, RankIs
  <2>8. Rank(Wanted(r), i) < agent.offset + agent.size
    BY <2>3, <2>6, <2>7, AgentIs
  <2>9. Somewhere(r, i)'
    BY <1>1, <1>5, <2>2, <2>5, <2>8, SentPage
  <2> QED BY <2>1, <2>9 DEF Somewhere, Covered, Spot
<1>6. ASSUME LineLeft PROVE Covered(r, i, n)'
  <2>1. n + 1 \in 1 .. Len(Line) /\ Line'[n] = Line[n + 1] /\ n + 1 \in Nat /\ n + 1 - 1 = n
    BY <1>2, <1>6 DEF LineLeft, LineDropped
  <2>2. Covered(r, i, n + 1)
    BY <1>3, <2>1
  <2>3. PICK N \in Nat : N = n + 1 /\ N - 1 = n
    BY <2>1
  <2>4. Covered(r, i, N) /\ r # clock /\ (Commit => exec.job.run <= r)
    BY <1>3, <2>1, <2>2, <2>3
  <2>5. Covered(r, i, N - 1)'
    BY <1>1, <1>2, <1>6, <2>4, CoveredStays
  <2> QED BY <2>3, <2>5
<1>7. ASSUME Restart, \A x \in 1 .. Len(Line) : "reordered" \in flaws'[Line[x].run] PROVE FALSE
  <2>1. ~Posts
    BY <1>7 DEF Restart, Posts
  <2>2. PICK m \in 1 .. Len(Line) : Line'[n] = Line[m]
    BY <2>1, LineComes
  <2> QED BY <1>7, <2>2 DEF Whole
<1>8. LineHeld /\ Len(Line') = Len(Line) => n <= Len(Line)
  BY <1>2
<1> QED BY <1>2, <1>4, <1>5, <1>6, <1>7, <1>8, LineCases

\* A batch that is committed now leaves its rows in the table.
LEMMA CommitStores ==
  ASSUME Typed, Books, Versions, [Next]_rowVars, kind # "inventory", Commit, NEW r \in Run, exec.job.run = r,
         RunsInOrder(r), Carries(r), Whole(r), NEW i \in DOMAIN exec.job.rows
  PROVE  Stored(r, i)'
<1>1. /\ 1 \in 1 .. Len(Line) /\ Line[1] = exec.job /\ Line' = Line /\ exec.job \in Jobs /\ i \in Item
  BY CommitIs, LineIs, JobFacts DEF Typed
<1>2. r < clock /\ r # clock /\ exec.job.start = r + 1 /\ r \in Nat /\ clock \in Nat
  BY <1>1, InLine, AgentIs DEF Books, Spot
<1>3. taken'[r] = taken[r] /\ taken[r][i] \in Nat
  BY <1>1, <1>2, TakenStays DEF Typed, BooksTyped
<1>4. row'[i].ver = exec.job.rows[i] /\ row'[i].synced = clock /\ row'[i].active
  <2>1. ~(clock < exec.job.start)
    BY <1>2
  <2> QED BY <1>1, <2>1, CommitRows
<1>5. exec.job.rows[i] = taken[r][i]
  BY <1>1 DEF Carries, Whole, Spot, RowsAt
<1>6. \A n \in 1 .. Len(Line) : i \in DOMAIN Line[n].rows => Line[n].rows[i] >= taken[r][i]
  <2> TAKE n \in 1 .. Len(Line)
  <2> HAVE i \in DOMAIN Line[n].rows
  <2>1. r <= Line[n].run
    <3>1. n = 1 \/ 1 < n
      BY LineNat
    <3>2. n = 1 => Line[n].run = r
      BY <1>1
    <3>3. 1 < n => Line[n].run >= r
      BY <1>1 DEF RunsInOrder, Whole, Spot
    <3>4. Line[n].run \in Nat
      BY LineIs, JobFacts, AgentIs DEF Typed
    <3> QED BY <1>2, <3>1, <3>2, <3>3, <3>4
  <2>2. taken[r][i] <= Line[n].rows[i] /\ Line[n].rows[i] \in Nat
    BY <1>1, <2>1, LineIs, JobFacts DEF Versions, Spot, RowsAt, Typed
  <2> QED BY <1>3, <2>2
<1>7. Kept(r, i)'
  BY <1>1, <1>3, <1>4, <1>5, <1>6 DEF Kept, Spot, RowsAt
<1> QED BY <1>2, <1>4, <1>7 DEF Stored

LEMMA CommitsStep ==
  ASSUME Typed, Books, Versions, [Next]_rowVars, kind # "inventory", NEW r \in Run, RunsInOrder(r), Carries(r), Commits(r)
  PROVE  Commits(r)'
<1> SUFFICES ASSUME exec'.pc = "committed", exec'.job.run = r, Whole(r)', NEW i \in DOMAIN exec'.job.rows
             PROVE  Stored(r, i)'
  BY DEF Commits
<1>1. Whole(r)
  BY FlawsStay DEF Whole
<1>2. CASE Commit
  BY <1>1, <1>2, CommitIs, CommitStores
<1>3. CASE ~Commit
  <2>1. exec' = exec
    <3>1. exec' = exec \/ exec' = NoExec \/ Take \/ (exec'.job = exec.job /\ "swallowed" \in flaws'[exec.job.run]) \/ exec'.pc = "open"
      BY <1>3, Steps DEF Edit, Begin, Posts, Drops, Restart, Loses, Vanishes, Waits
    <3>2. Take => exec'.pc = "open"
      BY DEF Take
    <3> QED BY <3>1, <3>2 DEF NoExec, Whole
  <2>2. Stored(r, i) /\ exec # NoExec
    BY <1>1, <2>1 DEF Commits, NoExec
  <2>3. 1 \in 1 .. Len(Line) /\ Line[1].run = r /\ i \in DOMAIN exec.job.rows /\ exec.job \in Jobs
    BY <2>1, <2>2, LineIs DEF Typed
  <2>4. r # clock /\ i \in Item
    BY <2>3, InLine, JobFacts
  <2> QED BY <1>3, <2>2, <2>4, StoredStays
<1> QED BY <1>2, <1>3

LEMMA OksStep ==
  ASSUME Typed, Books, Versions, [Next]_rowVars, kind # "inventory", NEW r \in Run, Lasts(r), Commits(r), Oks(r)
  PROVE  Oks(r)'
<1> SUFFICES ASSUME Whole(r)', status'[r] = "ok", NEW i \in Wanted(r)' PROVE Kept(r, i)'
  BY DEF Oks
<1>1. Whole(r) /\ i \in Item
  BY FlawsStay DEF Whole, Wanted
<1>2. CASE status[r] = "ok"
  <2>1. r # clock
    BY <1>2, AgentIs DEF Books
  <2>2. i \in Wanted(r)
    BY <2>1, WantedStays
  <2>3. Kept(r, i)
    BY <1>1, <1>2, <2>2 DEF Oks
  <2> QED BY <1>1, <2>1, <2>3, KeptStays
<1>3. CASE status[r] # "ok"
  <2>1. Drops /\ exec.pc = "committed" /\ IsLast(exec.job) /\ exec.job.run = r
    <3>1. status \in [Run -> {"none", "open", "ok", "failed"}]
      BY DEF Typed, BooksTyped
    <3>2. CASE Posts \/ Loses
      <4>1. status' = [status EXCEPT ![Batch.run] = IF @ = "none" THEN "open" ELSE @]
        BY <3>2 DEF Posts, Loses, Enqueue
      <4> QED BY <1>3, <3>1, <4>1
    <3>3. CASE Drops
      BY <1>3, <3>1, <3>3 DEF Drops
    <3> QED BY <1>3, <3>2, <3>3, Steps, CommitIs DEF Edit, Begin, Restart, Vanishes, Waits
  <2>2. 1 \in 1 .. Len(Line) /\ Line[1] = exec.job /\ Line[1].run = r
    BY <2>1, LineIs DEF Drops, Typed
  <2>3. r # clock
    BY <2>2, InLine
  <2>4. i \in Wanted(r)
    BY <2>3, WantedStays
  <2>5. Covered(r, i, 1)
    BY <1>1, <2>1, <2>2, <2>4 DEF Lasts, Spot
  <2>6. Stored(r, i)
    <3>1. ASSUME NEW n \in 1 .. Len(Line), n <= 1, i \in DOMAIN Line[n].rows PROVE i \in DOMAIN exec.job.rows
      <4>1. n = 1
        BY <3>1
      <4> QED BY <2>2, <3>1, <4>1
    <3>2. i \in DOMAIN exec.job.rows => Stored(r, i)
      BY <1>1, <2>1 DEF Commits
    <3> QED BY <2>5, <3>1, <3>2 DEF Covered, Spot, RowsAt
  <2> QED BY <1>1, <2>3, <2>6, KeptStays DEF Stored
<1> QED BY <1>2, <1>3

\* A run that began with an empty line has nothing of an older one behind it.
LEMMA AloneStep ==
  ASSUME Typed, Books, [Next]_rowVars, kind # "inventory", NEW r \in Run, RunsInOrder(r), Carries(r), Alone(r)
  PROVE  Alone(r)'
<1> SUFFICES ASSUME flaws'[r] \cap {"overlap", "edited", "reordered"} = {},
                    agent'.run = r \/ \E n \in 1 .. Len(Line') : Line'[n].run = r
             PROVE  /\ \A n \in 1 .. Len(Line') : Line'[n].run >= r
                    /\ \A i \in Item : row'[i].synced > r => i \in Wanted(r)'
  BY DEF Alone, Spot
<1>1. flaws[r] \cap {"overlap", "edited", "reordered"} = {}
  BY FlawsStay
<1>2. r \in Nat /\ clock \in Nat /\ r # 0
  BY AgentIs
<1>3. CASE ~(agent.run = r \/ \E n \in 1 .. Len(Line) : Line[n].run = r)
  <2>1. \A n \in 1 .. Len(Line') : Line'[n].run # r
    BY <1>3, LineComes, BatchIs DEF Posts, Typed
  <2>2. agent'.run = r
    BY <2>1
  <2>3. r = clock /\ \E requested \in BOOLEAN, window \in Windows \cup {{}} : Begin(requested, window)
    BY <1>2, <1>3, <2>2, AgentMoves
  <2>4. PICK requested \in BOOLEAN, window \in Windows \cup {{}} : Begin(requested, window)
    BY <2>3
  <2>5. queue = <<>> /\ exec = NoExec
    <3> DEFINE busy == queue # <<>> \/ exec # NoExec
    <3>1. \E F : Note({clock}, F \cup (IF busy THEN {"overlap"} ELSE {}))
      BY <2>4 DEF Begin
    <3> HIDE DEF busy
    <3>2. ~busy
      BY <2>3, <3>1 DEF Note
    <3> QED BY <3>2 DEF busy
  <2>6. Line' = <<>> /\ row' = row
    BY <2>4, <2>5 DEF Begin, Line, tableVars
  <2>7. \A i \in Item : ~(row[i].synced > r)
    <3> TAKE i \in Item
    <3>1. row[i].synced \in 0 .. clock
      BY DEF Typed, TablesTyped
    <3> QED BY <1>2, <2>3, <3>1
  <2> QED BY <2>6, <2>7
<1>4. CASE agent.run = r \/ \E n \in 1 .. Len(Line) : Line[n].run = r
  <2>1. /\ \A n \in 1 .. Len(Line) : Line[n].run >= r
        /\ \A i \in Item : row[i].synced > r => i \in Wanted(r)
    BY <1>1, <1>4 DEF Alone, Spot
  <2>2. r < clock /\ r # clock
    BY <1>2, <1>4, AgentNewest, InLine
  <2>3. Wanted(r)' = Wanted(r)
    BY <2>2, WantedStays
  <2>4. \A n \in 1 .. Len(Line') : Line'[n].run >= r
    <3> TAKE n \in 1 .. Len(Line')
    <3>1. ASSUME Posts, Line'[n] = Batch PROVE Line'[n].run >= r
      <4>1. Batch.run = agent.run /\ agent.run = clock - 1
        BY <3>1, BatchIs DEF Posts, Sending, Typed, Books
      <4> QED BY <1>2, <2>2, <3>1, <4>1
    <3> QED BY <2>1, <3>1, LineComes
  <2>5. ASSUME NEW i \in Item, row'[i].synced > r PROVE i \in Wanted(r)
    <3>1. CASE ~Commit
      BY <2>1, <2>5, <3>1, RowStays
    <3>2. CASE Commit
      <4>1. 1 \in 1 .. Len(Line) /\ Line[1] = exec.job /\ exec.job \in Jobs
        BY <3>2, CommitIs, LineIs DEF Typed
      <4>2. exec.job.run = r
        <5>1. exec.job.run <= r
          <6>1. "reordered" \notin flaws[r]
            BY <1>1
          <6>2. agent.run = r => exec.job.run <= r
            BY <1>2, <3>2, AgentNewest
          <6> QED BY <1>4, <3>2, <6>1, <6>2, FirstInLine
        <5>2. exec.job.run >= r /\ exec.job.run \in Nat
          BY <2>1, <4>1, JobFacts, AgentIs
        <5> QED BY <1>2, <5>1, <5>2
      <4>3. i \in DOMAIN exec.job.rows => i \in Wanted(r)
        BY <1>1, <4>1, <4>2 DEF Carries, Spot, RowsAt
      <4>4. i \notin DOMAIN exec.job.rows => row'[i].synced = row[i].synced
        BY <3>2, CommitRows
      <4> QED BY <2>1, <2>5, <4>3, <4>4
    <3> QED BY <3>1, <3>2
  <2> QED BY <2>3, <2>4, <2>5
<1> QED BY <1>3, <1>4

LEMMA ProductsStep ==
  ASSUME Typed, Books, Versions, [Next]_rowVars, kind # "inventory", Products,
         \A r \in Run : RunsInOrder(r) /\ Carries(r) /\ Lasts(r) /\ Commits(r) /\ Alone(r)
  PROVE  Products'
<1> SUFFICES ASSUME kind = "products", NEW r \in Run, basis'.run = r
             PROVE  /\ basis'.flaws \cap {"resumed", "lost", "failed", "edited", "reordered"} = {} =>
                         \A i \in Wanted(r)' : Kept(r, i)' /\ row'[i].active
                    /\ basis'.flaws \cap {"overlap", "edited", "reordered"} = {} =>
                         \A i \in Item : row'[i].active => i \in Wanted(r)' \/ i \in basis'.later
  <2>1. kind' = "products" /\ basis'.run # 0 => kind = "products" /\ basis'.run \in Run
    <3>1. (TablesTyped)'
      BY TypedStep DEF Typed
    <3>2. basis'.run \in Run \cup {0}
      BY <3>1 DEF TablesTyped
    <3> QED BY <3>2, KindStays
  <2> QED BY <2>1 DEF Products, Kept, Wanted
<1>1. basis \in [run : Run \cup {0}, flaws : SUBSET Flaw, later : SUBSET Item]
  BY DEF Typed, TablesTyped
<1>2. CASE Commit /\ IsLast(exec.job) /\ exec.job.full
  <2>0. exec.job.run = r
    <3>1. RestsOn(exec.job)
      BY <1>2 DEF Commit, StoreOrders, StoreProducts, StoreInventory
    <3> QED BY <3>1 DEF RestsOn
  <2>1. /\ 1 \in 1 .. Len(Line) /\ Line[1] = exec.job /\ Line' = Line /\ exec.job \in Jobs /\ Line[1].run = r
        /\ DOMAIN exec.job.rows \in SUBSET Item
    BY <1>2, <2>0, CommitIs, LineIs, JobFacts DEF Typed
  <2>2. basis' = [run |-> exec.job.run, flaws |-> flaws[exec.job.run], later |-> {}]
    <3>2. RestsOn(exec.job)
      BY <1>2 DEF Commit, StoreOrders, StoreProducts, StoreInventory
    <3> QED BY <3>2 DEF RestsOn
  <2>3. r < clock /\ r # clock /\ exec.job.start = r + 1 /\ r \in Nat /\ Wanted(r)' = Wanted(r)
    BY <2>1, InLine, AgentIs, WantedStays DEF Books, Spot
  <2>4. ASSUME flaws[r] \cap {"resumed", "lost", "failed", "edited", "reordered"} = {}, NEW i \in Wanted(r)
        PROVE  Kept(r, i)' /\ row'[i].active
    <3>1. Whole(r) /\ i \in Item
      BY <2>1, <2>4 DEF Whole, Books, Wanted
    <3>2. Covered(r, i, 1)
      BY <1>2, <2>1, <2>4, <3>1 DEF Lasts, Spot
    <3>3. ASSUME Stored(r, i) PROVE Stored(r, i)'
      BY <1>2, <2>0, <2>3, <3>1, <3>3, StoredStays
    <3>4. ASSUME i \in DOMAIN exec.job.rows PROVE Stored(r, i)'
      BY <1>2, <2>0, <3>1, <3>4, CommitStores
    <3>5. ASSUME NEW n \in 1 .. Len(Line), n <= 1, i \in DOMAIN Line[n].rows PROVE i \in DOMAIN exec.job.rows
      <4>1. n = 1
        BY <3>5
      <4> QED BY <2>1, <3>5, <4>1
    <3>6. Stored(r, i)'
      BY <3>2, <3>3, <3>4, <3>5 DEF Covered, Spot, RowsAt
    <3> QED BY <3>6 DEF Stored
  <2>5. ASSUME flaws[r] \cap {"overlap", "edited", "reordered"} = {}, NEW i \in Item, row'[i].active
        PROVE  i \in Wanted(r)
    <3>1. ~(row'[i].synced < exec.job.start)
      BY <1>2, <2>5, CommitRows
    <3>2. row'[i].synced = clock \/ row'[i].synced = row[i].synced
      BY <1>2, CommitRows
    <3>3. row'[i].synced \in Nat
      <4>1. row[i].synced \in 0 .. clock /\ clock \in Nat
        BY AgentIs DEF Typed, TablesTyped
      <4> QED BY <3>2, <4>1
    <3>4. CASE i \in DOMAIN exec.job.rows
      BY <2>1, <2>5, <3>4 DEF Carries, Spot, RowsAt
    <3>5. CASE i \notin DOMAIN exec.job.rows
      <4>1. row[i].synced = row'[i].synced
        BY <1>2, <3>5, CommitRows
      <4>2. row[i].synced > r
        BY <2>3, <3>1, <3>3, <4>1
      <4> QED BY <2>1, <2>5, <4>2 DEF Alone, Spot
    <3> QED BY <3>4, <3>5
  <2>6. basis'.run = r /\ basis'.flaws = flaws[r]
    BY <2>0, <2>2
  <2> QED BY <2>3, <2>4, <2>5, <2>6
<1>3. CASE ~(Commit /\ IsLast(exec.job) /\ exec.job.full)
  <2>1. basis'.run = basis.run /\ basis'.flaws = basis.flaws /\ basis.later \in SUBSET basis'.later
        /\ (Commit => basis'.later = basis.later \cup DOMAIN exec.job.rows)
    <3>1. CASE Commit
      <4>1. basis' = [basis EXCEPT !.later = basis.later \cup DOMAIN exec.job.rows]
        BY <1>3, <3>1 DEF Commit, StoreOrders, StoreProducts, StoreInventory
      <4> QED BY <1>1, <4>1
    <3>2. CASE ~Commit
      BY <3>2, RowStays
    <3> QED BY <3>1, <3>2
  <2>2. r # clock /\ r # 0 /\ basis.run = r
    <3>1. basis.run < clock /\ clock \in Nat /\ r \in Nat /\ r # 0
      BY AgentIs DEF Books
    <3> QED BY <2>1, <3>1
  <2>3. Wanted(r)' = Wanted(r)
    BY <2>2, WantedStays
  <2>4. \A i \in Item : (row[i].active => row'[i].active)
                        /\ (row'[i].active => row[i].active \/ (Commit /\ i \in DOMAIN exec.job.rows))
    <3> TAKE i \in Item
    <3>1. CASE Commit
      BY <1>3, <3>1, CommitRows
    <3>2. CASE ~Commit
      BY <3>2, RowStays
    <3> QED BY <3>1, <3>2
  <2>5. \A i \in Item : Kept(r, i) => Kept(r, i)'
    BY <2>2, KeptStays
  <2>6. Wanted(r) \in SUBSET Item
    BY DEF Wanted
  <2>7. /\ basis.flaws \cap {"resumed", "lost", "failed", "edited", "reordered"} = {} =>
             \A i \in Wanted(r) : Kept(r, i) /\ row[i].active
        /\ basis.flaws \cap {"overlap", "edited", "reordered"} = {} =>
             \A i \in Item : row[i].active => i \in Wanted(r) \/ i \in basis.later
    BY <2>2 DEF Products
  <2>8. /\ basis.flaws \cap {"resumed", "lost", "failed", "edited", "reordered"} = {} =>
             \A i \in Wanted(r) : Kept(r, i)' /\ row'[i].active
        /\ basis.flaws \cap {"overlap", "edited", "reordered"} = {} =>
             \A i \in Item : row'[i].active => i \in Wanted(r) \/ i \in basis'.later
    BY <2>1, <2>4, <2>5, <2>6, <2>7
  <2> QED BY <2>1, <2>3, <2>8
<1> QED BY <1>2, <1>3

LEMMA InitTables == Init => Tables
<1> SUFFICES ASSUME Init, kind # "inventory" PROVE Products /\ \A r \in Run : Sends(r) /\ Lasts(r) /\ Commits(r) /\ Oks(r) /\ Alone(r)
  BY DEF Tables
<1>1. Line = <<>> /\ agent.run = 0 /\ basis.run = 0 /\ exec.pc = "none" /\ \A r \in Run : r # 0 /\ status[r] = "none"
  BY DEF Init, Line, Idle, NoBasis, NoExec, Run
<1>2. Products
  BY <1>1 DEF Products
<1>3. ASSUME NEW r \in Run PROVE Sends(r) /\ Lasts(r) /\ Commits(r) /\ Oks(r) /\ Alone(r)
  BY <1>1 DEF Sends, Lasts, Commits, Oks, Alone, Spot
<1> QED BY <1>2, <1>3

\* The invariants together.
Inv == /\ Typed /\ Books /\ Versions /\ InOrder /\ Tables
       /\ \A r \in Run : RunsInOrder(r) /\ Reads(r) /\ Carries(r)

LEMMA TablesStep == Inv /\ [Next]_rowVars => Tables'
<1> SUFFICES ASSUME Inv, [Next]_rowVars, kind # "inventory"
             PROVE  Products' /\ \A r \in Run : Sends(r)' /\ Lasts(r)' /\ Commits(r)' /\ Oks(r)' /\ Alone(r)'
  BY KindStays DEF Tables, Inv
<1>1. /\ Typed /\ Books /\ Versions /\ Products
      /\ \A r \in Run : /\ RunsInOrder(r) /\ Reads(r) /\ Carries(r)
                        /\ Sends(r) /\ Lasts(r) /\ Commits(r) /\ Oks(r) /\ Alone(r)
  BY DEF Inv, Tables
<1>2. Products'
  BY <1>1, ProductsStep
<1>3. ASSUME NEW r \in Run PROVE Sends(r)' /\ Lasts(r)' /\ Commits(r)' /\ Oks(r)' /\ Alone(r)'
  BY <1>1, SendsStep, LastsStep, CommitsStep, OksStep, AloneStep
<1> QED BY <1>2, <1>3

LEMMA InvHolds == Spec => []Inv
<1>1. Init => Inv
  BY InitTyped, InitBooks, InitVersions, InitInOrder, InitRuns, InitTables DEF Inv
<1>2. Inv /\ [Next]_rowVars => Inv'
  <2> SUFFICES ASSUME Inv, [Next]_rowVars PROVE Inv'
    OBVIOUS
  <2>1. Typed' /\ Books' /\ Versions' /\ InOrder' /\ Tables'
    BY TypedStep, BooksStep, VersionsStep, InOrderStep, TablesStep DEF Inv
  <2>2. \A r \in Run : RunsInOrder(r)' /\ Reads(r)' /\ Carries(r)'
    BY RunsInOrderStep, ReadsStep, CarriesStep DEF Inv
  <2> QED BY <2>1, <2>2 DEF Inv
<1> QED BY <1>1, <1>2, PTL DEF Spec

\* A full run of products that ends without trouble leaves JTL's products active, in the version
\* it read or a newer one, and no product that it did not see.
THEOREM ProductsFollow == Spec => []ProductsMatch
<1>1. Inv => ProductsMatch
  <2> SUFFICES ASSUME Inv, kind = "products", basis.run # 0
               PROVE  LET r == basis.run IN
                      /\ basis.flaws \cap {"resumed", "lost", "failed", "edited", "reordered"} = {}
                           => \A i \in Item : taken[r][i] > 0 => row[i].active /\ row[i].ver >= taken[r][i]
                      /\ basis.flaws \cap {"overlap", "edited", "reordered"} = {}
                           => \A i \in Item : row[i].active => taken[r][i] > 0 \/ i \in basis.later
    BY DEF ProductsMatch
  <2>1. Products
    BY DEF Inv, Tables
  <2> QED BY <2>1 DEF Products, Kept, Wanted
<1> QED BY <1>1, InvHolds, PTL

\* What is listed as ok is stored: the batch with the last number is executed when every row of
\* the run is in the table or was executed with it, whatever chunks, retries, lost answers, cancels
\* and unrecorded ends came before; a lost or failed batch is a cause the property names.
THEOREM OkIsStored == Spec => []OkMeansStored
<1>1. Inv => OkMeansStored
  <2> SUFFICES ASSUME Inv, kind # "inventory", NEW r \in Run, status[r] = "ok",
                      flaws[r] \cap {"resumed", "edited", "lost", "failed", "swallowed", "reordered"} = {}, NEW i \in Item
               PROVE  row[i].ver >= taken[r][i]
    BY DEF OkMeansStored
  <2>1. Whole(r) /\ Oks(r)
    BY DEF Inv, Tables, Whole
  <2>2. CASE i \in Wanted(r)
    BY <2>1, <2>2 DEF Oks, Kept
  <2>3. CASE i \notin Wanted(r)
    BY <2>3 DEF Wanted, Inv, Typed, BooksTyped, TablesTyped
  <2> QED BY <2>2, <2>3
<1> QED BY <1>1, InvHolds, PTL

-----------------------------------------------------------------------------
(* Stock.                                                                  *)

\* The last page takes all that is left.
LEMMA PageLast ==
  ASSUME NEW S \in SUBSET Item, NEW o \in Nat, NEW size \in Nat \ {0}, PageOf(S, o, size) # {},
         \A s \in S : Rank(S, s) < o + size
  PROVE  o + Cardinality(PageOf(S, o, size)) = Cardinality(S)
<1> DEFINE P == PageOf(S, o, size)
<1>1. PICK s \in S : Rank(S, s) >= o
  BY DEF PageOf
<1>2. PICK f \in S : Rank(S, f) = o
  BY <1>1, NoGap
<1> DEFINE A == {q \in S : q < f}
<1>3. \A q \in S : q \in Int /\ q \in Item /\ Rank(S, q) \in Nat
  BY RankIs DEF Item
<1>4. \A p, q \in S : p < q => Rank(S, p) < Rank(S, q)
  BY RankGrows
<1>5. \A q \in S : q < f <=> Rank(S, q) < o
  BY <1>2, <1>3, <1>4
<1>6. \A q \in S : q \in P <=> o <= Rank(S, q)
  BY DEF PageOf
<1>7. A \cap P = {} /\ A \cup P = S /\ A \in SUBSET Item /\ P \in SUBSET Item
  <2>1. P \in SUBSET S /\ A \in SUBSET S /\ \A q \in S : q \in A <=> q < f
    BY DEF PageOf
  <2> HIDE DEF A, P
  <2>2. \A q \in S : (q \in A \/ q \in P) /\ ~(q \in A /\ q \in P)
    BY <1>3, <1>5, <1>6, <2>1
  <2> QED BY <2>1, <2>2
<1>8. Cardinality(A) = o
  BY <1>2 DEF Rank
<1> HIDE DEF A, P
<1>9. Cardinality(A \cup P) = Cardinality(A) + Cardinality(P) - Cardinality(A \cap P)
  BY <1>7, ItemsFinite, FS_Union
<1>10. Cardinality(A \cap P) = 0
  BY <1>7, FS_EmptySet
<1>11. Cardinality(P) \in Nat
  BY <1>7, ItemsFinite
<1>12. Cardinality(A \cup P) = Cardinality(S)
  BY <1>7
<1>13. o + Cardinality(P) = Cardinality(S)
  BY <1>8, <1>9, <1>10, <1>11, <1>12
<1> QED BY <1>13 DEF P

\* The batches of a run that are still to come: a step other than a transaction moves them by at
\* most one place, and brings no other than the one that is sent.
LEMMA MineMoves ==
  ASSUME Typed, [Next]_rowVars, kind = "inventory", ~Commit, NEW r \in Run, Pure(r)'
  PROVE  \E d \in {0, 1} :
           /\ \A n \in Mine(r) : n - d \in Mine(r)' /\ Line'[n - d] = Line[n]
           /\ \A n \in Mine(r)' : \/ n + d \in Mine(r) /\ Line'[n] = Line[n + d]
                                  \/ Posts /\ LineGrown(Batch) /\ n = Len(Line) + 1 /\ d = 0
                                     /\ Line'[n] = Batch /\ agent.run = r
<1>0. Len(Line) \in Nat /\ Len(Line') \in Nat
  <2>1. Typed'
    BY TypedStep
  <2>2. (Len(Line) \in Nat)'
    BY <2>1, LineNat, PTL
  <2> QED BY <2>2, LineNat
<1>1. "lost" \notin flaws'[r] /\ "failed" \notin flaws'[r] /\ "repeated" \notin flaws'[r] /\ "reordered" \notin flaws'[r] /\ "swallowed" \notin flaws'[r]
  BY DEF Pure
<1>2. CASE LineHeld /\ (Len(Line') = Len(Line) \/ (Posts /\ LineGrown(Batch)))
  <2>1. \A n \in 1 .. Len(Line) : n \in 1 .. Len(Line') /\ Line'[n] = Line[n]
    BY <1>0, <1>2 DEF LineHeld
  <2>2. \A n \in 1 .. Len(Line) : Line[n].run = r =>
          ((exec.pc = "committed" => n > 1) <=> (exec'.pc = "committed" => n > 1))
    <3>1. exec # NoExec => /\ Line[1] = exec.job /\ 1 \in 1 .. Len(Line) /\ exec.pc \in {"open", "committed"}
      BY LineIs DEF Typed
    <3>2. CASE exec'.pc = "committed" <=> exec.pc = "committed"
      BY <3>2
    <3>3. CASE ~(exec'.pc = "committed" <=> exec.pc = "committed")
      <4>1. exec' # exec
        BY <3>3
      <4>2. CASE Drops
        <5>1. LineDropped /\ Len(Line) >= 1
          BY <4>2, Moves
        <5>2. ~(Posts /\ LineGrown(Batch))
          BY <4>2 DEF Posts, Drops
        <5> QED BY <1>0, <1>2, <5>1, <5>2 DEF LineDropped
      <4>3. CASE Restart
        <5>1. exec # NoExec /\ exec.pc = "committed"
          BY <3>1, <3>3, <4>3 DEF Restart, NoExec
        <5>2. exec.job.run \in Run => "repeated" \in flaws'[exec.job.run]
          BY <4>3, <5>1 DEF Restart
        <5>3. Line[1].run # r
          BY <1>1, <3>1, <5>1, <5>2
        <5>4. \A n \in 1 .. Len(Line) : Line[n].run = r => n > 1
          BY <1>0, <5>3
        <5> QED BY <5>4
      <4>4. CASE Waits
        <5>1. CASE Take
          <6>1. exec.pc = "none" /\ exec'.pc = "open"
            BY <5>1 DEF Take, NoExec
          <6> QED BY <3>3, <6>1
        <5>2. CASE ~Take
          <6>1. exec # NoExec /\ "repeated" \in flaws'[exec.job.run]
            BY <3>3, <4>1, <4>4, <5>2 DEF Waits
          <6>2. Line[1].run # r
            BY <1>1, <3>1, <6>1
          <6>3. \A n \in 1 .. Len(Line) : Line[n].run = r => n > 1
            BY <1>0, <6>2
          <6> QED BY <6>3
        <5> QED BY <5>1, <5>2
      <4>5. exec = NoExec /\ exec' = NoExec => exec' = exec
        OBVIOUS
      <4> QED BY <4>1, <4>2, <4>3, <4>4, <4>5, Steps DEF Edit, Begin, Posts, Loses, Vanishes
    <3> QED BY <3>2, <3>3
  <2>3. \A n \in Mine(r) : n - 0 = n /\ n \in Mine(r)' /\ Line'[n] = Line[n]
    BY <1>0, <2>1, <2>2 DEF Mine, Spot
  <2>4. ASSUME NEW n \in Mine(r)'
        PROVE  \/ n + 0 = n /\ n \in Mine(r) /\ Line'[n] = Line[n]
               \/ Posts /\ LineGrown(Batch) /\ n = Len(Line) + 1 /\ Line'[n] = Batch /\ agent.run = r
    <3>1. n \in 1 .. Len(Line') /\ Line'[n].run = r /\ (exec'.pc = "committed" => n > 1) /\ n \in Nat
      BY <1>0 DEF Mine, Spot
    <3>2. CASE n <= Len(Line)
      <4>1. n \in 1 .. Len(Line)
        BY <1>0, <3>1, <3>2
      <4> QED BY <2>1, <2>2, <3>1, <4>1 DEF Mine, Spot
    <3>3. CASE ~(n <= Len(Line))
      <4>1. Posts /\ LineGrown(Batch) /\ n = Len(Line) + 1 /\ Line'[n] = Batch
        BY <1>0, <1>2, <3>1, <3>3 DEF LineGrown
      <4>2. Batch.run = agent.run
        BY <4>1, BatchIs DEF Posts, Typed
      <4> QED BY <3>1, <4>1, <4>2
    <3> QED BY <3>2, <3>3
  <2>5. /\ \A n \in Mine(r) : n - 0 \in Mine(r)' /\ Line'[n - 0] = Line[n]
        /\ \A n \in Mine(r)' : \/ n + 0 \in Mine(r) /\ Line'[n] = Line[n + 0]
                               \/ Posts /\ LineGrown(Batch) /\ n = Len(Line) + 1 /\ 0 = 0
                                  /\ Line'[n] = Batch /\ agent.run = r
    BY <2>3, <2>4
  <2> QED BY <2>5
<1>3. CASE LineLeft
  <2>0. exec'.pc = "none"
    BY <1>3 DEF LineLeft, Drops, Vanishes, NoExec
  <2>1. 1 \notin Mine(r)
    <3>1. exec.pc = "committed" \/ Line[1].run # r
      BY <1>1, <1>3 DEF LineLeft, Drops
    <3> QED BY <3>1 DEF Mine
  <2>2. ASSUME NEW n \in Mine(r) PROVE n - 1 \in Mine(r)' /\ Line'[n - 1] = Line[n]
    <3>1. n \in 1 .. Len(Line) /\ n # 1 /\ Line[n].run = r
      BY <2>1 DEF Mine, Spot
    <3>2. n - 1 \in 1 .. Len(Line') /\ Line'[n - 1] = Line[n]
      BY <1>0, <1>3, <3>1 DEF LineLeft, LineDropped
    <3> QED BY <2>0, <3>1, <3>2 DEF Mine, Spot
  <2>3. ASSUME NEW n \in Mine(r)' PROVE n + 1 \in Mine(r) /\ Line'[n] = Line[n + 1]
    <3>1. n \in 1 .. Len(Line') /\ Line'[n].run = r
      BY DEF Mine, Spot
    <3>2. n + 1 \in 1 .. Len(Line) /\ Line'[n] = Line[n + 1] /\ n + 1 > 1
      BY <1>0, <1>3, <3>1 DEF LineLeft, LineDropped
    <3> QED BY <3>1, <3>2 DEF Mine, Spot
  <2> QED BY <2>2, <2>3
<1>4. CASE Restart /\ \A x \in 1 .. Len(Line) : "reordered" \in flaws'[Line[x].run]
  <2>1. \A x \in 1 .. Len(Line) : Line[x].run # r
    BY <1>1, <1>4
  <2>2. Mine(r) = {}
    BY <2>1 DEF Mine, Spot
  <2>3. \A n \in 1 .. Len(Line') : Line'[n].run # r
    <3>1. ~Posts
      BY <1>4 DEF Posts, Restart
    <3> QED BY <2>1, <3>1, LineComes
  <2>4. Mine(r)' = {}
    BY <2>3 DEF Mine, Spot
  <2> QED BY <2>2, <2>4
<1> QED BY <1>2, <1>3, <1>4, LineCases

LEMMA InitStocks == Init => Stocks
<1> SUFFICES ASSUME Init PROVE Swapped /\ \A r \in Run : Stocked(r)
  BY DEF Stocks
<1>1. Line = <<>> /\ agent.run = 0 /\ basis.run = 0
  BY DEF Init, Line, Idle, NoBasis
<1>2. ASSUME NEW r \in Run PROVE Stocked(r)
  <2>1. r # 0 /\ \A i \in Item : staging[r][i] = -1
    BY DEF Init, NoStock, Run
  <2>2. Mine(r) = {} /\ InHand(r) = {}
    BY <1>1, <2>1 DEF Mine, Spot, InHand
  <2> QED BY <1>1, <2>1, <2>2 DEF Stocked, Counted, Apart, Firsts, Ends, Passed
<1> QED BY <1>1, <1>2 DEF Swapped

\* Nothing changes for a run when its batches only move up.
LEMMA StockedSame ==
  ASSUME Typed, Typed', NEW r \in Run, Pure(r), Stocked(r), NEW d \in {0, 1},
         staging'[r] = staging[r], taken'[r] = taken[r], Wanted(r)' = Wanted(r),
         \A n \in Mine(r) : n - d \in Mine(r)' /\ Line'[n - d] = Line[n],
         \A n \in Mine(r)' : n + d \in Mine(r) /\ Line'[n] = Line[n + d],
         agent'.run = r => /\ agent.run = r /\ agent'.offset = agent.offset /\ agent'.total = agent.total
                           /\ agent'.size <= agent.size,
         \A k \in Nat : <<r, k>> \in accepted' => <<r, k>> \in accepted
  PROVE  Stocked(r)'
<1>0. (\A n \in Mine(r) : n \in Nat) /\ (\A n \in Mine(r)' : n \in Nat)
  <2>1. (\A n \in Spot : n \in Nat) /\ (\A n \in Spot' : n \in Nat)
    <3>1. Len(Line) \in Nat
      BY LineNat
    <3>2. (Len(Line) \in Nat)'
      BY LineNat, PTL
    <3> QED BY <3>1, <3>2 DEF Spot
  <2> QED BY <2>1 DEF Mine
<1>1. InHand(r)' = InHand(r)
  BY DEF InHand
<1>2. Ahead(r)' = Ahead(r)
  <2>1. ASSUME NEW i \in Item, NEW n \in Mine(r)', i \in DOMAIN Line'[n].rows
        PROVE  \E m \in Mine(r) : i \in RowsAt(m)
    BY <2>1 DEF RowsAt
  <2>2. ASSUME NEW i \in Item, NEW n \in Mine(r), i \in RowsAt(n)
        PROVE  \E m \in Mine(r)' : i \in DOMAIN Line'[m].rows
    BY <2>2 DEF RowsAt
  <2> QED BY <2>1, <2>2 DEF Ahead, RowsAt
<1>3. Counted(r) /\ Apart(r) /\ Firsts(r) /\ Ends(r) /\ Passed(r)
  BY DEF Stocked
<1>4. Counted(r)'
  BY <1>1, <1>3 DEF Counted
<1>5. Apart(r)'
  <2>1. ASSUME NEW n \in Mine(r)', NEW m \in Mine(r)'
        PROVE  /\ DOMAIN Line'[n].rows \cap InHand(r)' = {}
               /\ m # n => DOMAIN Line'[m].rows \cap DOMAIN Line'[n].rows = {}
    <3>1. n + d \in Mine(r) /\ m + d \in Mine(r) /\ (m # n => m + d # n + d)
      BY <1>0
    <3>2. Line'[n] = Line[n + d] /\ Line'[m] = Line[m + d]
      OBVIOUS
    <3> QED BY <1>1, <1>3, <3>1, <3>2 DEF Apart, RowsAt
  <2> QED BY <2>1 DEF Apart, RowsAt
<1>6. Firsts(r)'
  <2>1. ASSUME NEW n \in Mine(r)', Line'[n].index = 0, NEW m \in Mine(r)'
        PROVE  InHand(r)' = {} /\ m >= n
    <3>1. n + d \in Mine(r) /\ m + d \in Mine(r) /\ Line[n + d].index = 0
      BY <2>1
    <3>2. InHand(r) = {} /\ m + d >= n + d
      BY <1>3, <3>1 DEF Firsts
    <3> QED BY <1>0, <1>1, <3>2
  <2> QED BY <2>1 DEF Firsts
<1>7. Ends(r)'
  <2>1. ASSUME NEW n \in Mine(r)', Line'[n].index = Line'[n].total - 1
        PROVE  /\ Wanted(r)' \subseteq InHand(r)' \cup Ahead(r)'
               /\ \A m \in Mine(r)' : m <= n
               /\ agent'.run = r => agent'.offset = agent'.total
    <3>1. n + d \in Mine(r) /\ IsLast(Line[n + d])
      BY <2>1 DEF IsLast
    <3>2. /\ Wanted(r) \subseteq InHand(r) \cup Ahead(r)
          /\ \A m \in Mine(r) : m <= n + d
          /\ agent.run = r => agent.offset = agent.total
      BY <1>3, <3>1 DEF Ends
    <3>3. \A m \in Mine(r)' : m <= n
      <4> TAKE m \in Mine(r)'
      <4>1. m + d <= n + d
        BY <3>2
      <4> QED BY <1>0, <4>1
    <3> QED BY <1>1, <1>2, <3>2, <3>3
  <2> QED BY <2>1 DEF Ends, IsLast
<1>8. Passed(r)'
  <2> SUFFICES ASSUME agent'.run = r, agent'.offset < agent'.total
               PROVE  /\ \A i \in Wanted(r)' : Rank(Wanted(r)', i) < agent'.offset <=> i \in InHand(r)' \cup Ahead(r)'
                      /\ agent'.offset = 0 \/ agent'.offset >= agent'.size
                      /\ \A k \in Nat : <<r, k>> \in accepted' => k * agent'.size + agent'.size <= agent'.offset
    BY DEF Passed, Rank
  <2>1. /\ \A i \in Wanted(r) : Rank(Wanted(r), i) < agent.offset <=> i \in InHand(r) \cup Ahead(r)
        /\ agent.offset = 0 \/ agent.offset >= agent.size
        /\ \A k \in Nat : <<r, k>> \in accepted => k * agent.size + agent.size <= agent.offset
    BY <1>3 DEF Passed
  <2>2. agent.size \in Nat /\ agent'.size \in Nat /\ agent.offset \in Nat
    <3>1. agent'.size \in 1 .. BatchSize
      BY DEF Typed, AgentTyped
    <3> QED BY <3>1, AgentIs, RowAssumption
  <2>3. \A k \in Nat : <<r, k>> \in accepted' => k * agent'.size + agent'.size <= agent.offset
    <3> TAKE k \in Nat
    <3> HAVE <<r, k>> \in accepted'
    <3>1. k * agent.size + agent.size <= agent.offset
      BY <2>1
    <3>2. k * agent'.size <= k * agent.size /\ k * agent'.size \in Nat /\ k * agent.size \in Nat
      BY <2>2, TimesLess
    <3> QED BY <2>2, <3>1, <3>2
  <2> QED BY <1>1, <1>2, <2>1, <2>2, <2>3
<1> QED BY <1>4, <1>5, <1>6, <1>7, <1>8 DEF Stocked

\* The batch that is sent goes behind the others, and has what is neither staged nor in the line.
LEMMA StockedSent ==
  ASSUME Typed, Typed', Books, [Next]_rowVars, NEW r \in Run, agent.run = r, Posts,
         Pure(r), Pure(r)', Stocked(r), Reads(r), Carries(r)
  PROVE  Stocked(r)'
<1> DEFINE W == Wanted(r)
           o == agent.offset
           s == agent.size
           c == Cardinality(Page)
           k0 == agent.offset \div agent.size
           last == Len(Line) + 1
<1>1. /\ o \in Nat /\ s \in Nat \ {0} /\ agent.total \in Nat /\ W \in SUBSET Item /\ r # 0 /\ r < clock /\ r # clock
      /\ Len(Line) \in Nat
  BY AgentIs, AgentNewest, LineNat
<1>2. /\ taken'[r] = taken[r] /\ Wanted(r)' = W /\ staging'[r] = staging[r]
      /\ exec' = exec
  BY <1>1, WantedStays DEF Posts, tableVars
<1>3. Counted(r) /\ Apart(r) /\ Firsts(r) /\ Ends(r) /\ Passed(r)
  BY DEF Stocked
<1>4. /\ Selected(agent.full, agent.window) = W /\ agent.total = Cardinality(W)
      /\ \A n \in Spot : Line[n].run = r => \A i \in RowsAt(n) : i \in W
  <2>1. "edited" \notin flaws[r]
    BY DEF Pure
  <2> QED BY <2>1 DEF Reads, Carries
<1>5. /\ Page = PageOf(W, o, s) /\ Page \in SUBSET Item /\ Page # {} /\ c \in Nat /\ c <= s /\ o + c <= agent.total
      /\ o < agent.total
      /\ Batch.run = r /\ Batch.index = k0 /\ Batch.total = Chunks(agent.total, s) /\ DOMAIN Batch.rows = Page
  BY <1>4, PageIs, BatchIs DEF Posts, Typed, Sending
<1>6. k0 \in Nat /\ k0 * s \in Nat /\ k0 * s <= o /\ o < k0 * s + s
  <2>1. k0 \in Nat /\ k0 * s <= o /\ o < k0 * s + s
    BY <1>1, DivIs
  <2> HIDE DEF k0
  <2> QED BY <1>1, <2>1
<1>7. accepted' = accepted \cup {<<r, k0>>}
  BY SendsMoves
<1>8. LineGrown(Batch)
  <2>1. <<r, k0>> \in accepted => k0 * s + s <= o
    BY <1>3, <1>5, <1>6 DEF Passed
  <2>2. <<r, k0>> \notin accepted
    BY <1>1, <1>6, <2>1
  <2> QED BY <2>2, SendsMoves
<1> HIDE DEF k0, c
<1>9. /\ Len(Line') = last /\ Line'[last] = Batch /\ last \in Nat
      /\ \A n \in Spot : n \in Nat /\ Line'[n] = Line[n] /\ n < last
      /\ \A n : n \in Spot' <=> n \in Spot \/ n = last
  BY <1>1, <1>8 DEF LineGrown, Spot
<1>10. exec.pc = "committed" => last > 1
  <2>1. exec.pc = "committed" => exec # NoExec
    BY DEF NoExec
  <2> QED BY <1>1, <2>1, LineIs DEF Typed
<1> HIDE DEF last
<1>11. /\ \A n : n \in Mine(r)' <=> n \in Mine(r) \/ n = last
       /\ \A n \in Mine(r) : n \in Spot /\ n \in Nat /\ n < last /\ Line'[n] = Line[n] /\ RowsAt(n) \subseteq W /\ RowsAt(n) # {}
  <2>1. \A n \in Mine(r) : n \in Spot /\ Line[n].run = r
    BY DEF Mine
  <2>2. \A n \in Spot : RowsAt(n) # {}
    BY LineIs, JobFacts DEF Spot, RowsAt, Typed
  <2>3. \A n : n \in Mine(r)' <=> n \in Mine(r) \/ n = last
    <3>1. last \in Mine(r)'
      BY <1>2, <1>5, <1>9, <1>10 DEF Mine
    <3>2. \A n \in Spot : n \in Mine(r)' <=> n \in Mine(r)
      BY <1>2, <1>9 DEF Mine
    <3>3. \A n \in Mine(r)' : n \in Spot'
      BY DEF Mine
    <3> QED BY <1>9, <2>1, <3>1, <3>2, <3>3
  <2> QED BY <1>4, <1>9, <2>1, <2>2, <2>3
<1>12. InHand(r)' = InHand(r) /\ InHand(r) \subseteq W /\ Ahead(r) \subseteq W
  BY <1>2, <1>3, <1>11 DEF InHand, Counted, Ahead
<1>13. Ahead(r)' = Ahead(r) \cup Page
  <2>1. ASSUME NEW i \in Item PROVE (\E n \in Mine(r)' : i \in DOMAIN Line'[n].rows) <=> (\E n \in Mine(r) : i \in DOMAIN Line[n].rows) \/ i \in Page
    BY <1>5, <1>9, <1>11
  <2> QED BY <1>5, <2>1 DEF Ahead, RowsAt
<1>14. \A i \in W : /\ Rank(W, i) \in Nat
                    /\ Rank(W, i) < o <=> i \in InHand(r) \cup Ahead(r)
                    /\ i \in Page <=> o <= Rank(W, i) /\ Rank(W, i) < o + s
  BY <1>1, <1>3, <1>5, RankIs DEF Passed, PageOf
<1>15. Page \subseteq W /\ Page \cap (InHand(r) \cup Ahead(r)) = {}
  <2>1. Page \subseteq W
    BY <1>5 DEF PageOf
  <2> QED BY <1>1, <1>14, <2>1
<1> HIDE DEF W
<1>16. Counted(r)'
  BY <1>2, <1>3, <1>12 DEF Counted, W
<1>17. Apart(r)'
  <2>1. \A n \in Mine(r) : RowsAt(n) \subseteq Ahead(r)
    <3>1. \A n \in Mine(r) : RowsAt(n) \subseteq Item
      BY <1>1, <1>11
    <3> QED BY <3>1 DEF Ahead
  <2>2. ASSUME NEW n \in Mine(r)', NEW m \in Mine(r)'
        PROVE  /\ DOMAIN Line'[n].rows \cap InHand(r)' = {}
               /\ m # n => DOMAIN Line'[m].rows \cap DOMAIN Line'[n].rows = {}
    <3>1. CASE n \in Mine(r) /\ m \in Mine(r)
      BY <1>3, <1>11, <1>12, <3>1 DEF Apart, RowsAt
    <3>2. CASE n = last /\ m \in Mine(r)
      BY <1>5, <1>9, <1>11, <1>12, <1>15, <2>1, <3>2 DEF RowsAt
    <3>3. CASE n \in Mine(r) /\ m = last
      BY <1>3, <1>5, <1>9, <1>11, <1>12, <1>15, <2>1, <3>3 DEF RowsAt, Apart
    <3>4. CASE n = last /\ m = last
      BY <1>5, <1>9, <1>12, <1>15, <3>4
    <3> QED BY <1>11, <3>1, <3>2, <3>3, <3>4
  <2> QED BY <2>2 DEF Apart, RowsAt
<1>18. \A n \in Mine(r) : ~IsLast(Line[n])
  BY <1>1, <1>3, <1>5 DEF Ends
<1>19. Firsts(r)'
  <2>1. ASSUME NEW n \in Mine(r)', Line'[n].index = 0, NEW m \in Mine(r)'
        PROVE  InHand(r)' = {} /\ m >= n
    <3>1. CASE n \in Mine(r)
      <4>1. InHand(r) = {} /\ \A x \in Mine(r) : x >= n
        BY <1>3, <1>11, <2>1, <3>1 DEF Firsts
      <4> QED BY <1>9, <1>11, <1>12, <3>1, <4>1
    <3>2. CASE n = last
      <4>1. k0 = 0
        BY <1>5, <1>9, <2>1, <3>2
      <4>2. o < s
        BY <1>1, <1>6, <4>1
      <4>3. o = 0
        BY <1>1, <1>3, <1>5, <4>2 DEF Passed
      <4>4. InHand(r) \cup Ahead(r) = {}
        BY <1>12, <1>14, <4>3
      <4>5. Mine(r) = {}
        <5>1. ASSUME NEW x \in Mine(r) PROVE FALSE
          <6>1. PICK i \in RowsAt(x) : i \in Item
            BY <1>1, <1>11
          <6> QED BY <4>4, <6>1 DEF Ahead
        <5> QED BY <5>1
      <4> QED BY <1>9, <1>11, <1>12, <3>2, <4>4, <4>5
    <3> QED BY <1>11, <3>1, <3>2
  <2> QED BY <2>1 DEF Firsts
<1>20. (\A i \in W : Rank(W, i) < o + s) => agent.total = o + c
  BY <1>1, <1>4, <1>5, PageLast DEF c
<1>21. agent'.run = r => agent' = [agent EXCEPT !.offset = o + c]
  <2>1. "split" \notin flaws'[r]
    BY DEF Pure
  <2> QED BY <1>1, <2>1 DEF Posts, c, Idle
<1>22. agent'.run = r => agent'.offset = o + c /\ agent'.total = agent.total /\ agent'.size = s
  <2>1. \A x : [agent EXCEPT !.offset = x].offset = x /\ [agent EXCEPT !.offset = x].total = agent.total
               /\ [agent EXCEPT !.offset = x].size = agent.size
    BY DEF Typed, AgentTyped
  <2> QED BY <1>21, <2>1
<1>23. Ends(r)'
  <2>1. ASSUME NEW n \in Mine(r)', Line'[n].index = Line'[n].total - 1
        PROVE  /\ Wanted(r)' \subseteq InHand(r)' \cup Ahead(r)'
               /\ \A m \in Mine(r)' : m <= n
               /\ agent'.run = r => agent'.offset = agent'.total
    <3>1. n = last
      BY <1>11, <1>18, <2>1 DEF IsLast
    <3>2. k0 = Chunks(agent.total, s) - 1
      BY <1>5, <1>9, <2>1, <3>1
    <3>3. agent.total <= o + s
      BY <1>1, <1>5, <3>2, Index DEF k0
    <3>4. \A i \in W : Rank(W, i) < agent.total /\ agent.total \in Nat
      BY <1>1, <1>4, RankInside
    <3>5. \A i \in W : Rank(W, i) < o + s
      <4> TAKE i \in W
      <4>1. Rank(W, i) < agent.total /\ Rank(W, i) \in Nat
        BY <1>14, <3>4
      <4> QED BY <1>1, <3>3, <4>1
    <3>6. W \subseteq InHand(r) \cup Ahead(r) \cup Page
      BY <1>1, <1>14, <3>5
    <3>7. \A m \in Mine(r)' : m <= n
      BY <1>9, <1>11, <3>1
    <3> QED BY <1>2, <1>12, <1>13, <1>20, <1>22, <3>5, <3>6, <3>7
  <2> QED BY <2>1 DEF Ends, IsLast
<1>24. Passed(r)'
  <2> SUFFICES ASSUME agent'.run = r, agent'.offset < agent'.total
               PROVE  /\ \A i \in Wanted(r)' : Rank(Wanted(r)', i) < agent'.offset <=> i \in InHand(r)' \cup Ahead(r)'
                      /\ agent'.offset = 0 \/ agent'.offset >= agent'.size
                      /\ \A k \in Nat : <<r, k>> \in accepted' => k * agent'.size + agent'.size <= agent'.offset
    BY DEF Passed, Rank
  <2>1. agent'.offset = o + c /\ agent'.total = agent.total /\ agent'.size = s
    BY <1>22
  <2>2. PICK i \in W : ~(Rank(W, i) < o + s)
    BY <1>1, <1>5, <1>20, <2>1
  <2>3. Rank(W, i) >= o + s
    BY <1>1, <1>14, <2>2
  <2>4. c = s
    BY <1>1, <1>5, <2>3, PageFull DEF c
  <2>5. ASSUME NEW j \in W PROVE Rank(W, j) < o + s <=> j \in InHand(r) \cup Ahead(r) \cup Page
    <3>1. /\ Rank(W, j) \in Nat /\ (Rank(W, j) < o <=> j \in InHand(r) \cup Ahead(r))
          /\ (j \in Page <=> o <= Rank(W, j) /\ Rank(W, j) < o + s)
      BY <1>14
    <3> QED BY <1>1, <3>1
  <2>6. ASSUME NEW k \in Nat, <<r, k>> \in accepted' PROVE k * s + s <= o + s
    <3>1. CASE <<r, k>> \in accepted
      <4>1. k * s + s <= o /\ k * s \in Nat
        BY <1>1, <1>3, <1>5, <3>1 DEF Passed
      <4> QED BY <1>1, <4>1
    <3>2. CASE k = k0
      BY <1>1, <1>6, <3>2
    <3> QED BY <1>7, <2>6, <3>1, <3>2
  <2>7. o + s >= s
    BY <1>1
  <2> QED BY <1>2, <1>12, <1>13, <2>1, <2>4, <2>5, <2>6, <2>7
<1> QED BY <1>16, <1>17, <1>19, <1>23, <1>24 DEF Stocked

\* What a transaction stages: the rows of its batch, which were not staged before, are added.
LEMMA StagedPure ==
  ASSUME Typed, Commit, kind = "inventory", NEW q \in Run, exec.job.run = q, Pure(q), Stocked(q), Carries(q)
  PROVE  /\ 1 \in Mine(q) /\ Line[1] = exec.job
         /\ \A i \in DOMAIN exec.job.rows : i \in Wanted(q) /\ i \in Item /\ i \notin InHand(q)
         /\ \A i \in Item : Staged(exec.job)[i] = IF i \in DOMAIN exec.job.rows THEN taken[q][i] - 1 ELSE staging[q][i]
<1> DEFINE j == exec.job
<1>1. Line[1] = j /\ 1 \in Spot /\ j \in Jobs /\ exec.pc = "open" /\ Len(Line) \in Nat
  BY CommitIs, LineNat DEF Spot
<1>2. 1 \in Mine(q)
  BY <1>1 DEF Mine
<1>3. \A i \in DOMAIN j.rows : i \in Item /\ i \in Wanted(q) /\ j.rows[i] = taken[q][i]
  BY <1>1, JobFacts DEF Carries, Pure, RowsAt
<1>4. \A i \in DOMAIN j.rows : i \notin InHand(q)
  BY <1>1, <1>2 DEF Stocked, Apart, RowsAt
<1>5. \A i \in Item : i \notin InHand(q) => staging[q][i] = -1
  BY DEF InHand
<1>6. j.index = 0 => InHand(q) = {}
  BY <1>1, <1>2 DEF Stocked, Firsts
<1> DEFINE before == IF j.index = 0 THEN NoStock ELSE staging[q]
<1>7. \A i \in Item : before[i] = staging[q][i]
  BY <1>5, <1>6 DEF NoStock
<1>8. \A i \in Item : Staged(j)[i] = IF i \notin DOMAIN j.rows THEN before[i]
                      ELSE IF before[i] = -1 THEN j.rows[i] - 1 ELSE before[i] + j.rows[i] - 1
  BY DEF Staged
<1> HIDE DEF before, j
<1>9. ASSUME NEW i \in Item PROVE Staged(j)[i] = IF i \in DOMAIN j.rows THEN taken[q][i] - 1 ELSE staging[q][i]
  <2>1. CASE i \in DOMAIN j.rows
    <3>1. before[i] = -1 /\ j.rows[i] = taken[q][i]
      BY <1>3, <1>4, <1>5, <1>7, <2>1
    <3> QED BY <1>8, <2>1, <3>1
  <2>2. CASE i \notin DOMAIN j.rows
    BY <1>7, <1>8, <2>2
  <2> QED BY <2>1, <2>2
<1> QED BY <1>1, <1>2, <1>3, <1>4, <1>9 DEF j

\* A transaction changes the stock only of its own run.
LEMMA StoresStock ==
  ASSUME Typed, Commit, kind = "inventory"
  PROVE  /\ \A r \in Run : r # exec.job.run => staging'[r] = staging[r]
         /\ exec.job.run \in Run
         /\ IsLast(exec.job) => /\ stock' = Staged(exec.job) /\ staging'[exec.job.run] = NoStock
                                /\ basis' = [run |-> exec.job.run, flaws |-> flaws[exec.job.run], later |-> {}]
         /\ ~IsLast(exec.job) => staging'[exec.job.run] = Staged(exec.job) /\ stock' = stock /\ basis' = basis
<1>1. exec.job.run \in Run /\ staging \in [Run -> [Item -> Int]]
  BY CommitIs, JobFacts DEF Typed, TablesTyped
<1>2. StoreInventory(exec.job)
  BY DEF Commit, StoreOrders, StoreProducts
<1> QED BY <1>1, <1>2 DEF StoreInventory, RestsOn

\* A batch that is not the last one leaves the line for the staging.
LEMMA StockedStaged ==
  ASSUME Typed, Typed', Books, [Next]_rowVars, Commit, kind = "inventory", NEW q \in Run, exec.job.run = q,
         ~IsLast(exec.job), Pure(q), Stocked(q), Carries(q)
  PROVE  Stocked(q)'
<1> DEFINE R == DOMAIN exec.job.rows
<1>1. /\ 1 \in Mine(q) /\ Line[1] = exec.job /\ Len(Line) \in Nat
      /\ \A i \in R : i \in Wanted(q) /\ i \in Item /\ i \notin InHand(q)
      /\ \A i \in Item : staging'[q][i] = IF i \in R THEN taken[q][i] - 1 ELSE staging[q][i]
  BY StagedPure, StoresStock, LineNat
<1>2. /\ UNCHANGED <<clock, agentVars, accepted, taken, flaws>> /\ Line' = Line
      /\ exec.pc = "open" /\ exec'.pc = "committed"
  BY CommitIs
<1>3. Wanted(q)' = Wanted(q) /\ agent' = agent
  BY <1>2 DEF Wanted, agentVars
<1>4. Counted(q) /\ Apart(q) /\ Firsts(q) /\ Ends(q) /\ Passed(q)
  BY DEF Stocked
<1>5. /\ \A n : n \in Mine(q)' <=> n \in Mine(q) /\ n # 1
      /\ \A n \in Mine(q) : n \in Nat /\ n >= 1
  BY <1>1, <1>2 DEF Mine, Spot
<1>6. \A i \in R : taken[q][i] \in Nat /\ taken[q][i] > 0
  BY <1>1 DEF Wanted, Typed, BooksTyped
<1>7. InHand(q)' = InHand(q) \cup R
  <2>1. ASSUME NEW i \in Item PROVE staging'[q][i] # -1 <=> staging[q][i] # -1 \/ i \in R
    <3>1. CASE i \in R
      <4>1. staging'[q][i] = taken[q][i] - 1 /\ taken[q][i] \in Nat /\ taken[q][i] > 0
        BY <1>1, <1>6, <3>1
      <4> QED BY <3>1, <4>1
    <3>2. CASE i \notin R
      BY <1>1, <3>2
    <3> QED BY <3>1, <3>2
  <2>2. R \subseteq Item
    BY <1>1
  <2> HIDE DEF R
  <2> QED BY <2>1, <2>2 DEF InHand
<1>8. InHand(q)' \cup Ahead(q)' = InHand(q) \cup Ahead(q)
  <2>1. \A n \in Mine(q)' : RowsAt(n)' = RowsAt(n) /\ n \in Mine(q)
    BY <1>2, <1>5 DEF RowsAt
  <2>2. RowsAt(1) = R
    BY <1>1 DEF RowsAt
  <2>3. ASSUME NEW i \in Item
        PROVE  (\E n \in Mine(q) : i \in DOMAIN Line[n].rows) <=> (\E n \in Mine(q)' : i \in DOMAIN Line'[n].rows) \/ i \in R
    BY <1>1, <1>2, <1>5
  <2>4. R \subseteq Item
    BY <1>1
  <2> HIDE DEF R
  <2>5. Ahead(q) = Ahead(q)' \cup R
    BY <2>3, <2>4 DEF Ahead, RowsAt
  <2> QED BY <1>7, <2>5
<1>9. RowsAt(1) = R
  BY <1>1 DEF RowsAt
<1> HIDE DEF R
<1>10. Counted(q)'
  <2>1. ASSUME NEW i \in InHand(q)' PROVE i \in Wanted(q)' /\ staging'[q][i] = taken'[q][i] - 1
    <3>1. CASE i \in R
      BY <1>1, <1>2, <1>3, <3>1
    <3>2. CASE i \notin R
      <4>1. i \in InHand(q) /\ i \in Item
        BY <1>7, <3>2 DEF InHand
      <4> QED BY <1>1, <1>2, <1>3, <1>4, <3>2, <4>1 DEF Counted
    <3> QED BY <3>1, <3>2
  <2> QED BY <2>1 DEF Counted
<1>11. Apart(q)'
  <2>1. ASSUME NEW n \in Mine(q)', NEW m \in Mine(q)'
        PROVE  /\ DOMAIN Line'[n].rows \cap InHand(q)' = {}
               /\ m # n => DOMAIN Line'[m].rows \cap DOMAIN Line'[n].rows = {}
    <3>1. n \in Mine(q) /\ m \in Mine(q) /\ n # 1
      BY <1>5
    <3>2. /\ RowsAt(n) \cap InHand(q) = {} /\ RowsAt(1) \cap RowsAt(n) = {}
          /\ m # n => RowsAt(m) \cap RowsAt(n) = {}
      BY <1>1, <1>4, <3>1 DEF Apart
    <3>3. RowsAt(n) \cap InHand(q)' = {}
      BY <1>7, <1>9, <3>2
    <3> QED BY <1>2, <3>2, <3>3 DEF RowsAt
  <2> QED BY <2>1 DEF Apart, RowsAt
<1>12. Firsts(q)'
  <2>1. ASSUME NEW n \in Mine(q)', Line'[n].index = 0 PROVE FALSE
    <3>1. n \in Mine(q) /\ n # 1 /\ n >= 1 /\ n \in Nat
      BY <1>5
    <3>2. 1 >= n
      BY <1>1, <1>2, <1>4, <2>1, <3>1 DEF Firsts
    <3> QED BY <3>1, <3>2
  <2> QED BY <2>1 DEF Firsts
<1>13. Ends(q)'
  <2>1. ASSUME NEW n \in Mine(q)', Line'[n].index = Line'[n].total - 1
        PROVE  /\ Wanted(q)' \subseteq InHand(q)' \cup Ahead(q)'
               /\ \A m \in Mine(q)' : m <= n
               /\ agent'.run = q => agent'.offset = agent'.total
    <3>1. n \in Mine(q) /\ IsLast(Line[n])
      BY <1>2, <1>5, <2>1 DEF IsLast
    <3>2. /\ Wanted(q) \subseteq InHand(q) \cup Ahead(q)
          /\ \A m \in Mine(q) : m <= n
          /\ agent.run = q => agent.offset = agent.total
      BY <1>4, <3>1 DEF Ends
    <3> QED BY <1>3, <1>5, <1>8, <3>2
  <2> QED BY <2>1 DEF Ends, IsLast
<1>14. Passed(q)'
  BY <1>2, <1>3, <1>4, <1>8 DEF Passed, Rank
<1> QED BY <1>10, <1>11, <1>12, <1>13, <1>14 DEF Stocked

\* With the last batch everything the run set out to read is there, and is swapped in.
LEMMA StockedSwapped ==
  ASSUME Typed, Typed', Books, [Next]_rowVars, Commit, kind = "inventory", NEW q \in Run, exec.job.run = q,
         IsLast(exec.job), Pure(q), Stocked(q), Carries(q)
  PROVE  Stocked(q)' /\ \A i \in Item : stock'[i] = taken[q][i] - 1
<1> DEFINE R == DOMAIN exec.job.rows
<1>1. /\ 1 \in Mine(q) /\ Line[1] = exec.job /\ Len(Line) \in Nat
      /\ \A i \in R : i \in Wanted(q) /\ i \in Item /\ i \notin InHand(q)
      /\ \A i \in Item : stock'[i] = IF i \in R THEN taken[q][i] - 1 ELSE staging[q][i]
      /\ staging'[q] = NoStock
  BY StagedPure, StoresStock, LineNat
<1>2. /\ UNCHANGED <<clock, agentVars, accepted, taken, flaws>> /\ Line' = Line
      /\ exec.pc = "open" /\ exec'.pc = "committed"
  BY CommitIs
<1>3. Counted(q) /\ Apart(q) /\ Firsts(q) /\ Ends(q) /\ Passed(q)
  BY DEF Stocked
<1>4. /\ \A n : n \in Mine(q)' <=> n \in Mine(q) /\ n # 1
      /\ \A n \in Mine(q) : n \in Nat /\ n >= 1
  BY <1>1, <1>2 DEF Mine, Spot
<1>5. /\ Wanted(q) \subseteq InHand(q) \cup Ahead(q)
      /\ \A m \in Mine(q) : m <= 1
      /\ agent.run = q => agent.offset = agent.total
  BY <1>1, <1>3 DEF Ends
<1>6. \A m \in Mine(q) : m = 1
  BY <1>4, <1>5
<1>7. Mine(q)' = {} /\ Ahead(q) \subseteq R
  BY <1>1, <1>4, <1>6 DEF Ahead, RowsAt
<1>8. InHand(q)' = {}
  BY <1>1 DEF InHand, NoStock
<1>9. agent' = agent /\ agent.offset \in Nat
  BY <1>2, AgentIs DEF agentVars
<1>10. Stocked(q)'
  BY <1>5, <1>7, <1>8, <1>9 DEF Stocked, Counted, Apart, Firsts, Ends, Passed
<1> HIDE DEF R
<1>11. ASSUME NEW i \in Item PROVE stock'[i] = taken[q][i] - 1
  <2>1. CASE i \in R
    BY <1>1, <2>1
  <2>2. CASE i \notin R /\ i \in Wanted(q)
    <3>1. i \in InHand(q)
      BY <1>5, <1>7, <2>2
    <3> QED BY <1>1, <1>3, <2>2, <3>1 DEF Counted
  <2>3. CASE i \notin R /\ i \notin Wanted(q)
    <3>1. staging[q][i] = -1
      BY <1>3, <2>3 DEF Counted, InHand
    <3>2. taken[q][i] = 0
      BY <2>3 DEF Wanted, Typed, BooksTyped
    <3> QED BY <1>1, <2>3, <3>1, <3>2
  <2> QED BY <2>1, <2>2, <2>3
<1> QED BY <1>10, <1>11

\* A run that begins has nothing anywhere.
LEMMA StockedBegun ==
  ASSUME Typed, Typed', Books, Books', [Next]_rowVars, kind = "inventory", NEW r \in Run, Pure(r)', Stocked(r),
         NEW requested \in BOOLEAN, NEW window \in Windows \cup {{}}, Begin(requested, window), r = clock
  PROVE  Stocked(r)'
<1>1. Pure(r)
  BY FlawsStay DEF Pure
<1>2. clock \in Nat /\ r \in Nat /\ r # 0 /\ agent.run = 0 /\ accepted' = accepted /\ UNCHANGED tableVars
  BY AgentIs DEF Begin, Idle
<1>3. staging' = staging /\ \A i \in Item : taken[r][i] = 0
  BY <1>2 DEF tableVars, Books
<1>4. InHand(r)' = {}
  <2>1. InHand(r) = {}
    BY <1>1, <1>3 DEF Stocked, Counted, InHand, Wanted
  <2> QED BY <1>3, <2>1 DEF InHand
<1>5. Mine(r)' = {}
  <2>1. Line' = Line
    BY Moves
  <2>2. \A n \in 1 .. Len(Line) : Line[n].run # r
    BY InLine
  <2> QED BY <2>1, <2>2 DEF Mine, Spot
<1>6. Ahead(r)' = {}
  BY <1>5 DEF Ahead
<1> DEFINE resume == ~requested /\ 0 < saved.offset /\ saved.offset < Cardinality(Selected(IsFull(requested), window))
<1>7. agent'.offset = IF resume THEN saved.offset ELSE 0
  BY DEF Begin
<1>8. ~resume
  <2>1. \E F : Note({clock}, (IF resume THEN {"resumed"} ELSE {}) \cup F)
    BY DEF Begin
  <2> HIDE DEF resume
  <2>2. "resumed" \notin flaws'[r]
    BY DEF Pure
  <2> QED BY <2>1, <2>2 DEF Note
<1>9. agent'.offset = 0
  BY <1>7, <1>8
<1>10. \A k \in Nat : <<r, k>> \notin accepted'
  BY <1>2 DEF Books
<1>11. \A i \in Wanted(r)' : ~(Rank(Wanted(r)', i) < 0)
  <2>1. Wanted(r)' \in SUBSET Item
    BY DEF Wanted
  <2> TAKE i \in Wanted(r)'
  <2>2. i \in Item
    BY <2>1
  <2>3. PICK S \in SUBSET Item : S = Wanted(r)'
    BY <2>1
  <2>4. Rank(S, i) \in Nat
    BY <2>2, RankIs
  <2> QED BY <2>3, <2>4
<1>12. Passed(r)'
  BY <1>4, <1>6, <1>9, <1>10, <1>11 DEF Passed, Rank
<1> QED BY <1>4, <1>5, <1>12 DEF Stocked, Counted, Apart, Firsts, Ends

LEMMA StockedStep ==
  ASSUME Typed, Books, [Next]_rowVars, kind = "inventory", NEW r \in Run, Reads(r), Carries(r), Stocked(r)
  PROVE  Stocked(r)'
<1> SUFFICES ASSUME Pure(r)' PROVE Stocked(r)'
  BY DEF Stocked
<1>1. Pure(r) /\ Typed' /\ Books'
  BY FlawsStay, TypedStep, BooksStep DEF Pure
<1>2. CASE Commit
  <2>1. CASE r = exec.job.run /\ ~IsLast(exec.job)
    BY <1>1, <1>2, <2>1, StockedStaged
  <2>2. CASE r = exec.job.run /\ IsLast(exec.job)
    BY <1>1, <1>2, <2>2, StockedSwapped
  <2>3. CASE r # exec.job.run
    <3>1. /\ UNCHANGED <<clock, agentVars, accepted, taken>> /\ Line' = Line
          /\ Line[1].run # r /\ exec.pc = "open" /\ Len(Line) \in Nat
      BY <1>2, <2>3, CommitIs, LineNat
    <3>2. agent' = agent /\ Wanted(r)' = Wanted(r) /\ staging'[r] = staging[r]
      BY <1>2, <2>3, <3>1, StoresStock DEF agentVars, Wanted
    <3>3. Mine(r)' = Mine(r)
      <4>1. \A n \in Spot : Line[n].run = r => n > 1
        BY <3>1 DEF Spot
      <4> QED BY <3>1, <4>1 DEF Mine, Spot
    <3>4. \A n \in Mine(r) : n - 0 = n /\ n + 0 = n
      BY <3>1 DEF Mine, Spot
    <3>5. agent.size <= agent.size
      BY AgentIs
    <3> QED BY <1>1, <3>1, <3>2, <3>3, <3>4, <3>5, StockedSame
  <2> QED BY <2>1, <2>2, <2>3
<1>3. CASE Posts /\ agent.run = r
  BY <1>1, <1>3, StockedSent
<1>4. CASE r = clock /\ \E requested \in BOOLEAN, window \in Windows \cup {{}} : Begin(requested, window)
  BY <1>1, <1>4, StockedBegun
<1>5. CASE ~Commit /\ ~(Posts /\ agent.run = r)
           /\ ~(r = clock /\ \E requested \in BOOLEAN, window \in Windows \cup {{}} : Begin(requested, window))
  <2>1. staging' = staging
    BY <1>5, RowStays
  <2>2. taken'[r] = taken[r]
    <3>1. CASE r = clock
      BY <1>5, <3>1, Steps DEF Edit, Posts, Drops, Restart, Loses, Vanishes, Waits
    <3>2. CASE r # clock
      BY <3>2, TakenStays
    <3> QED BY <3>1, <3>2
  <2>3. Wanted(r)' = Wanted(r)
    BY <2>2 DEF Wanted
  <2>4. PICK d \in {0, 1} : /\ \A n \in Mine(r) : n - d \in Mine(r)' /\ Line'[n - d] = Line[n]
                            /\ \A n \in Mine(r)' : n + d \in Mine(r) /\ Line'[n] = Line[n + d]
    BY <1>5, MineMoves
  <2>7. ~(Loses /\ agent.run = r)
    <3> SUFFICES ASSUME Loses, agent.run = r PROVE FALSE
      OBVIOUS
    <3>1. "lost" \in flaws'[r]
      BY DEF Loses
    <3> QED BY <3>1 DEF Pure
  <2>5. ASSUME agent'.run = r
        PROVE  /\ agent.run = r /\ agent'.offset = agent.offset /\ agent'.total = agent.total
               /\ agent'.size <= agent.size
    <3>1. agent'.run # 0 /\ ~Posts
      <4>1. r # 0
        BY AgentIs
      <4>2. \A o, s : [agent EXCEPT !.offset = o].run = agent.run /\ [agent EXCEPT !.size = s].run = agent.run
        BY DEF Typed, AgentTyped
      <4>3. Posts => agent'.run = 0 \/ agent'.run = agent.run
        <5>1. Posts => \/ agent' = [agent EXCEPT !.offset = agent.offset + Cardinality(Page)]
                        \/ agent' = Idle
                        \/ \E s \in 1 .. agent.size : agent' = [agent EXCEPT !.size = s]
          BY DEF Posts
        <5>2. Idle.run = 0
          BY DEF Idle
        <5> QED BY <4>2, <5>1, <5>2
      <4> QED BY <1>5, <2>5, <4>1, <4>3
    <3>2. agent' = agent \/ Waits
      BY <1>1, <1>5, <2>5, <2>7, <3>1, AgentMoves
    <3>3. agent.size <= agent.size
      BY AgentIs
    <3>4. CASE Waits /\ agent' # agent
      <4>1. PICK s \in 1 .. agent.size : agent' = [agent EXCEPT !.size = s]
        BY <3>1, <3>4 DEF Waits, Idle
      <4>2. /\ [agent EXCEPT !.size = s].run = agent.run /\ [agent EXCEPT !.size = s].offset = agent.offset
            /\ [agent EXCEPT !.size = s].total = agent.total /\ [agent EXCEPT !.size = s].size = s
        BY DEF Typed, AgentTyped
      <4> QED BY <2>5, <4>1, <4>2
    <3> QED BY <2>5, <3>2, <3>3, <3>4
  <2>6. \A k \in Nat : <<r, k>> \in accepted' => <<r, k>> \in accepted
    <3>1. CASE Posts
      BY <1>5, <3>1, SendsMoves
    <3>2. CASE Loses
      <4>1. accepted' = accepted \cup {JobId(Batch)} /\ JobId(Batch)[1] = agent.run
        BY <3>2, BatchIs DEF Loses, Enqueue, JobId, Typed
      <4> QED BY <2>7, <3>2, <4>1
    <3>3. CASE ~Posts /\ ~Loses
      <4>1. accepted' \in SUBSET accepted
        BY <1>5, <3>3, Steps DEF Edit, Begin, Drops, Restart, Vanishes, Waits
      <4> QED BY <4>1
    <3> QED BY <3>1, <3>2, <3>3
  <2> QED BY <1>1, <2>1, <2>2, <2>3, <2>4, <2>5, <2>6, StockedSame
<1> QED BY <1>2, <1>3, <1>4, <1>5

LEMMA StocksStep == Inv /\ Stocks /\ [Next]_rowVars => Stocks'
<1> SUFFICES ASSUME Inv, Stocks, [Next]_rowVars, kind = "inventory" PROVE Swapped' /\ \A r \in Run : Stocked(r)'
  BY KindStays DEF Stocks, Inv
<1>1. Typed /\ Books /\ Swapped /\ \A r \in Run : Reads(r) /\ Carries(r) /\ Stocked(r)
  BY DEF Inv, Stocks
<1>2. \A r \in Run : Stocked(r)'
  BY <1>1, StockedStep
<1>3. Swapped'
  <2> SUFFICES ASSUME basis'.run # 0, basis'.flaws \subseteq {"overlap", "shrunk", "cancelled", "unrecorded"}, NEW i \in Item
               PROVE  stock'[i] = taken'[basis'.run][i] - 1
    BY DEF Swapped
  <2>1. CASE stock' = stock /\ basis' = basis
    <3>1. basis.run \in Run /\ basis.run < clock /\ clock \in Nat /\ Run \in SUBSET Nat
      BY <1>1, <2>1, AgentIs DEF Typed, TablesTyped, Books
    <3>2. basis.run # clock
      BY <3>1
    <3>3. taken'[basis.run] = taken[basis.run]
      BY <1>1, <3>1, <3>2, TakenStays
    <3> QED BY <1>1, <2>1, <3>3 DEF Swapped
  <2>2. CASE Commit /\ IsLast(exec.job)
    <3>1. PICK q \in Run : exec.job.run = q
      BY <1>1, <2>2, StoresStock
    <3>2. basis'.run = q /\ basis'.flaws = flaws[q] /\ taken' = taken
      BY <1>1, <2>2, <3>1, StoresStock, CommitIs
    <3>3. Pure(q) /\ Typed'
      BY <1>1, <3>2, TypedStep DEF Pure
    <3>4. stock'[i] = taken[q][i] - 1
      BY <1>1, <2>2, <3>1, <3>3, StockedSwapped
    <3> QED BY <3>2, <3>4
  <2>3. Commit => IsLast(exec.job) \/ (stock' = stock /\ basis' = basis)
    BY <1>1, StoresStock
  <2> QED BY <1>1, <2>1, <2>2, <2>3, RowStays
<1> QED BY <1>2, <1>3

\* The stock that is shown is what the run that was swapped in set out to read, every row counted
\* once: its batches are staged in the order of their indices, none of them twice, and the one
\* with the last number is executed when all the others are staged.
THEOREM StockFollows == Spec => []StockIsSnapshot
<1>1. Inv /\ Stocks => StockIsSnapshot
  <2> SUFFICES ASSUME Inv, Stocks, kind = "inventory", basis.run # 0, basis.flaws \subseteq {"overlap", "shrunk", "cancelled", "unrecorded"}
               PROVE  stock = [i \in Item |-> taken[basis.run][i] - 1]
    BY DEF StockIsSnapshot
  <2>1. stock \in [Item -> Int]
    BY DEF Inv, Typed, TablesTyped
  <2>2. \A i \in Item : stock[i] = taken[basis.run][i] - 1
    BY DEF Stocks, Swapped
  <2> QED BY <2>1, <2>2
<1> QED BY <1>1, InvHolds, InitStocks, StocksStep, PTL DEF Spec

-----------------------------------------------------------------------------
(* The numbers that are shown as stock.                                    *)

Clean(r) == flaws[r] \cap {"split", "repeated", "edited"} = {}

\* What the agent has not sent is behind what is staged or in the line.
Behind(r) == agent.run = r => \A i \in InHand(r) \cup Ahead(r) : Rank(Wanted(r), i) < agent.offset
Sound(r) == Clean(r) => Counted(r) /\ Apart(r) /\ Behind(r)
Shown ==
  /\ basis.run = 0 => \A i \in Item : stock[i] = -1
  /\ basis.flaws \cap {"split", "repeated", "edited"} = {} =>
       \A i \in Item : stock[i] # -1 => stock[i] = taken[basis.run][i] - 1

Genuine == kind = "inventory" => Shown /\ \A r \in Run : Sound(r)

\* A restart while a batch is committed is noted of its run.
LEMMA CommittedNotes ==
  ASSUME Typed, [Next]_rowVars, kind = "inventory", NEW r \in Run, Clean(r)', exec.pc = "committed",
         Restart \/ (Line' = Line /\ exec'.pc # "committed" /\ ~Drops)
  PROVE  Line[1].run # r
<1>1. exec # NoExec /\ Line[1] = exec.job /\ exec.job.run \in Run
  <2>1. exec # NoExec
    BY DEF NoExec
  <2> QED BY <2>1, LineIs, JobFacts DEF Typed
<1>2. "repeated" \in flaws'[exec.job.run]
  <2>1. CASE Restart
    BY <1>1, <2>1 DEF Restart
  <2>2. CASE ~Restart
    <3>1. Waits
      <4>1. exec' # exec
        BY <2>2
      <4> QED BY <1>1, <2>2, <4>1, Steps, CommitIs DEF Edit, Begin, Posts, Loses, Vanishes
    <3>2. ~Take /\ exec' # exec
      BY <1>1, <2>2 DEF Take
    <3>3. \/ exec'.pc = "open" /\ (exec.pc = "open" \/ "repeated" \in flaws'[exec.job.run])
          \/ exec'.pc = "committed"
      BY <3>1, <3>2 DEF Waits
    <3> QED BY <2>2, <3>3
  <2> QED BY <2>1, <2>2
<1> QED BY <1>1, <1>2 DEF Clean

\* The batches of a run that are still to come were that before, each another one, or are the one that is sent.
LEMMA MineComes ==
  ASSUME Typed, [Next]_rowVars, kind = "inventory", ~Commit, NEW r \in Run, Clean(r)'
  PROVE  \E f \in [Nat -> Nat] :
           /\ \A m, n \in Mine(r)' : f[m] = f[n] => m = n
           /\ \A n \in Mine(r)' : \/ f[n] \in Mine(r) /\ Line'[n] = Line[f[n]]
                                  \/ Posts /\ n = Len(Line) + 1 /\ Line'[n] = Batch /\ agent.run = r
<1>0. Len(Line) \in Nat /\ Len(Line') \in Nat
  <2>1. Typed'
    BY TypedStep
  <2>2. (Len(Line) \in Nat)'
    BY <2>1, LineNat, PTL
  <2> QED BY <2>2, LineNat
<1>1. \A n \in Mine(r)' : n \in Nat /\ n \in 1 .. Len(Line') /\ Line'[n].run = r /\ (exec'.pc = "committed" => n > 1)
  BY <1>0 DEF Mine, Spot
<1>2. ASSUME NEW n \in 1 .. Len(Line), Line[n].run = r, exec.pc = "committed" => n > 1 PROVE n \in Mine(r)
  BY <1>2 DEF Mine, Spot
<1>3. CASE Line' = Line \/ (Posts /\ LineGrown(Batch))
  <2> DEFINE f == [n \in Nat |-> n]
  <2>1. ~Drops
    <3>1. Drops => LineDropped /\ Len(Line) >= 1
      BY Moves
    <3>2. Drops => ~Posts
      BY DEF Drops, Posts
    <3> QED BY <1>0, <1>3, <3>1, <3>2 DEF LineDropped
  <2>2. ASSUME NEW n \in Mine(r)'
        PROVE  \/ n \in Mine(r) /\ Line'[n] = Line[n]
               \/ Posts /\ n = Len(Line) + 1 /\ Line'[n] = Batch /\ agent.run = r
    <3>1. CASE n \in 1 .. Len(Line)
      <4>1. Line'[n] = Line[n]
        BY <1>3, <3>1 DEF LineGrown
      <4>2. exec.pc = "committed" => n > 1
        <5>1. CASE Line' = Line
          <6>1. exec.pc = "committed" /\ exec'.pc # "committed" => Line[1].run # r
            BY <2>1, <5>1, CommittedNotes
          <6> QED BY <1>0, <1>1, <4>1, <6>1
        <5>2. CASE Posts
          BY <1>1, <5>2 DEF Posts
        <5> QED BY <1>3, <5>1, <5>2
      <4> QED BY <1>1, <1>2, <3>1, <4>1, <4>2
    <3>2. CASE n \notin 1 .. Len(Line)
      <4>1. Posts /\ n = Len(Line) + 1 /\ Line'[n] = Batch
        BY <1>0, <1>1, <1>3, <3>2 DEF LineGrown
      <4>2. Batch.run = agent.run
        BY <4>1, BatchIs DEF Posts, Typed
      <4> QED BY <1>1, <4>1, <4>2
    <3> QED BY <3>1, <3>2
  <2>3. f \in [Nat -> Nat] /\ \A n \in Mine(r)' : f[n] = n
    BY <1>1
  <2> HIDE DEF f
  <2> QED BY <2>2, <2>3
<1>4. CASE LineLeft
  <2> DEFINE f == [n \in Nat |-> n + 1]
  <2>1. ASSUME NEW n \in Mine(r)' PROVE n + 1 \in Mine(r) /\ Line'[n] = Line[n + 1]
    <3>1. n + 1 \in 1 .. Len(Line) /\ Line'[n] = Line[n + 1] /\ n + 1 > 1
      BY <1>0, <1>1, <1>4 DEF LineLeft, LineDropped
    <3> QED BY <1>1, <1>2, <3>1
  <2>2. f \in [Nat -> Nat] /\ \A n \in Mine(r)' : f[n] = n + 1 /\ n \in Nat
    BY <1>1
  <2> HIDE DEF f
  <2>3. \A m, n \in Mine(r)' : f[m] = f[n] => m = n
    BY <2>2
  <2>4. \A n \in Mine(r)' : f[n] \in Mine(r) /\ Line'[n] = Line[f[n]]
    BY <2>1, <2>2
  <2> QED BY <2>2, <2>3, <2>4
<1>5. CASE Restart /\ LineTurned /\ Len(Line) >= 1
  <2> DEFINE f == [n \in Nat |-> IF n = Len(Line) THEN 1 ELSE n + 1]
  <2>1. exec.pc = "committed" => Line[1].run # r
    BY <1>5, CommittedNotes
  <2>2. ASSUME NEW n \in Mine(r)', n = Len(Line) PROVE 1 \in Mine(r) /\ Line'[n] = Line[1]
    <3>1. Line'[n] = Line[1] /\ 1 \in 1 .. Len(Line)
      BY <1>0, <1>5, <2>2 DEF LineTurned
    <3> QED BY <1>1, <1>2, <2>1, <3>1
  <2>3. ASSUME NEW n \in Mine(r)', n # Len(Line) PROVE n + 1 \in Mine(r) /\ Line'[n] = Line[n + 1]
    <3>1. n + 1 \in 1 .. Len(Line) /\ Line'[n] = Line[n + 1] /\ n + 1 > 1
      BY <1>0, <1>1, <1>5, <2>3 DEF LineTurned
    <3> QED BY <1>1, <1>2, <3>1
  <2>4. f \in [Nat -> Nat] /\ \A n \in Mine(r)' : n \in Nat /\ n >= 1 /\ f[n] = IF n = Len(Line) THEN 1 ELSE n + 1
    BY <1>0, <1>1
  <2> HIDE DEF f
  <2>5. ASSUME NEW m \in Mine(r)', NEW n \in Mine(r)', f[m] = f[n] PROVE m = n
    <3> DEFINE top == Len(Line)
    <3>1. m \in Nat /\ n \in Nat /\ m >= 1 /\ n >= 1
      BY <2>4
    <3>2. f[m] = (IF m = top THEN 1 ELSE m + 1) /\ f[n] = (IF n = top THEN 1 ELSE n + 1)
      BY <2>4
    <3>3. (IF m = top THEN 1 ELSE m + 1) = (IF n = top THEN 1 ELSE n + 1)
      BY <2>5, <3>2
    <3> HIDE DEF top
    <3>4. CASE m = top
      BY <3>1, <3>3, <3>4
    <3>5. CASE n = top
      BY <3>1, <3>3, <3>5
    <3>6. CASE m # top /\ n # top
      BY <3>1, <3>3, <3>6
    <3> QED BY <3>4, <3>5, <3>6
  <2>6. \A n \in Mine(r)' : f[n] \in Mine(r) /\ Line'[n] = Line[f[n]]
    BY <2>2, <2>3, <2>4
  <2> QED BY <2>4, <2>5, <2>6
<1> QED BY <1>3, <1>4, <1>5, Steps, Moves DEF LineLeft

\* The agent goes on to the end of the page.
LEMMA PageEnds ==
  ASSUME Typed, Sending, NEW i \in Page
  PROVE  Rank(Selected(agent.full, agent.window), i) < agent.offset + Cardinality(Page)
<1> DEFINE S == Selected(agent.full, agent.window)
           o == agent.offset
           s == agent.size
<1>1. S \in SUBSET Item /\ Page = PageOf(S, o, s) /\ o \in Nat /\ s \in Nat \ {0} /\ i \in Item
  BY PageIs, AgentIs DEF Typed
<1>2. i \in S /\ Rank(S, i) < o + s /\ PageOf(S, o, s) # {}
  BY <1>1 DEF PageOf
<1>3. \A t \in S : Rank(S, t) \in Nat
  BY <1>1, RankIs
<1> HIDE DEF S, o, s
<1>4. CASE \E t \in S : Rank(S, t) >= o + s
  <2>1. Cardinality(PageOf(S, o, s)) = s
    BY <1>1, <1>4, PageFull
  <2> QED BY <1>1, <1>2, <2>1 DEF S, o, s
<1>5. CASE ~\E t \in S : Rank(S, t) >= o + s
  <2>1. \A t \in S : Rank(S, t) < o + s
    BY <1>1, <1>3, <1>5
  <2>2. o + Cardinality(PageOf(S, o, s)) = Cardinality(S)
    BY <1>1, <1>2, <2>1, PageLast
  <2>3. Rank(S, i) < Cardinality(S)
    BY <1>1, <1>2, RankInside
  <2> QED BY <1>1, <2>2, <2>3 DEF S, o, s
<1> QED BY <1>4, <1>5

\* The page that is sent has nothing of what is staged or in the line, and ends where the agent goes on.
LEMMA PageNew ==
  ASSUME Typed, NEW r \in Run, agent.run = r, Posts, Clean(r)', Clean(r), Reads(r), Behind(r)
  PROVE  /\ DOMAIN Batch.rows = Page /\ Page \cap (InHand(r) \cup Ahead(r)) = {}
         /\ agent'.run = r => \A i \in Page : Rank(Wanted(r), i) < agent'.offset
<1> DEFINE o == agent.offset
           s == agent.size
<1>1. Sending /\ o \in Nat /\ s \in Nat \ {0} /\ Wanted(r) \in SUBSET Item /\ r # 0
  BY AgentIs DEF Posts
<1>2. Selected(agent.full, agent.window) = Wanted(r)
  BY DEF Clean, Reads
<1>3. DOMAIN Batch.rows = Page /\ Page = PageOf(Wanted(r), o, s) /\ Cardinality(Page) \in Nat
  BY <1>1, <1>2, PageIs, BatchIs DEF Typed
<1>4. Page \cap (InHand(r) \cup Ahead(r)) = {}
  <2>1. \A i \in InHand(r) \cup Ahead(r) : Rank(Wanted(r), i) < o
    BY DEF Behind
  <2>2. \A i \in Page : i \in Wanted(r) /\ o <= Rank(Wanted(r), i)
    BY <1>3 DEF PageOf
  <2>3. \A i \in Wanted(r) : Rank(Wanted(r), i) \in Nat
    BY <1>1, RankIs
  <2> HIDE DEF o
  <2>4. \A i \in Page : i \notin InHand(r) \cup Ahead(r)
    BY <1>1, <2>1, <2>2, <2>3
  <2> QED BY <2>4
<1>5. ASSUME agent'.run = r PROVE agent'.offset = o + Cardinality(Page)
  <2>1. \A x : [agent EXCEPT !.offset = x].offset = x
    BY DEF Typed, AgentTyped
  <2>2. "split" \notin flaws'[r]
    BY DEF Clean
  <2>3. \/ agent' = [agent EXCEPT !.offset = agent.offset + Cardinality(Page)]
        \/ agent' = Idle
        \/ "split" \in flaws'[r]
    BY DEF Posts
  <2>4. agent' # Idle
    BY <1>1, <1>5 DEF Idle
  <2>5. agent' = [agent EXCEPT !.offset = agent.offset + Cardinality(Page)]
    BY <2>2, <2>3, <2>4
  <2> QED BY <2>1, <2>5
<1>6. \A i \in Page : Rank(Wanted(r), i) < o + Cardinality(Page)
  BY <1>1, <1>2, PageEnds
<1> QED BY <1>3, <1>4, <1>5, <1>6

\* The agent of a run goes on, or stays where it is.
LEMMA OffsetGrows ==
  ASSUME Typed, Books, [Next]_rowVars, NEW r \in Run, r # clock, agent'.run = r
  PROVE  agent.run = r /\ agent.offset <= agent'.offset /\ agent.offset \in Nat /\ agent'.offset \in Nat
<1>0. Typed' /\ r # 0 /\ agent.offset \in Nat
  BY TypedStep, AgentIs
<1>1. agent'.offset \in Nat
  BY <1>0 DEF Typed, AgentTyped
<1>2. CASE agent' = agent
  BY <1>0, <1>2
<1>3. CASE agent' # agent
  <2> DEFINE GoesOn == Sending /\ agent' = [agent EXCEPT !.offset = agent.offset + Cardinality(Page)]
             Shrinks == \E s \in 1 .. agent.size : agent' = [agent EXCEPT !.size = s]
  <2>1. agent.run = r /\ (Posts \/ Loses \/ Waits)
    BY <1>0, <1>3, AgentMoves
  <2>2. agent' # Idle
    BY <1>0 DEF Idle
  <2>3. CASE GoesOn
    <3>1. \A x : [agent EXCEPT !.offset = x].offset = x
      BY DEF Typed, AgentTyped
    <3>2. Cardinality(Page) \in Nat
      BY <2>3, BatchIs DEF Typed
    <3>3. agent'.offset = agent.offset + Cardinality(Page)
      BY <2>3, <3>1
    <3> QED BY <1>0, <1>1, <2>1, <3>2, <3>3
  <2>4. CASE Shrinks
    <3>1. \A x : [agent EXCEPT !.size = x].offset = agent.offset
      BY DEF Typed, AgentTyped
    <3>2. agent'.offset = agent.offset
      BY <2>4, <3>1
    <3> QED BY <1>0, <2>1, <3>2
  <2>5. Posts => GoesOn \/ Shrinks
    BY <2>2 DEF Posts
  <2>6. Loses => GoesOn \/ Shrinks
    BY <2>2 DEF Loses
  <2>7. Waits => Shrinks
    BY <1>3, <2>2 DEF Waits
  <2> QED BY <2>1, <2>3, <2>4, <2>5, <2>6, <2>7
<1> QED BY <1>2, <1>3

LEMMA SoundMoved ==
  ASSUME Typed, Books, [Next]_rowVars, kind = "inventory", ~Commit, NEW r \in Run, Reads(r), Sound(r)
  PROVE  Sound(r)'
<1> SUFFICES ASSUME Clean(r)' PROVE Counted(r)' /\ Apart(r)' /\ Behind(r)'
  BY DEF Sound
<1>1. Clean(r) /\ Counted(r) /\ Apart(r) /\ Behind(r)
  <2>1. Clean(r)
    BY FlawsStay DEF Clean
  <2> QED BY <2>1 DEF Sound
<1>2. staging' = staging /\ InHand(r)' = InHand(r)
  BY RowStays DEF InHand
<1>3. PICK f \in [Nat -> Nat] :
        /\ \A m, n \in Mine(r)' : f[m] = f[n] => m = n
        /\ \A n \in Mine(r)' : \/ f[n] \in Mine(r) /\ Line'[n] = Line[f[n]]
                               \/ Posts /\ n = Len(Line) + 1 /\ Line'[n] = Batch /\ agent.run = r
  BY MineComes
<1>4. CASE r = clock
  <2>1. Mine(r) = {}
    <3>1. \A n \in 1 .. Len(Line) : Line[n].run # r
      BY <1>4, InLine
    <3> QED BY <3>1 DEF Mine, Spot
  <2>2. agent.run # r
    BY <1>4, AgentIs, AgentNewest
  <2>3. Mine(r)' = {}
    BY <1>3, <2>1, <2>2
  <2>4. InHand(r) = {}
    <3>1. clock \in Nat
      BY AgentIs
    <3>2. \A i \in Item : taken[r][i] = 0
      BY <1>4, <3>1 DEF Books
    <3> QED BY <1>1, <3>2 DEF Counted, InHand, Wanted
  <2> QED BY <1>2, <2>3, <2>4 DEF Counted, Apart, Behind, Ahead
<1>5. CASE r # clock
  <2>1. taken'[r] = taken[r] /\ Wanted(r)' = Wanted(r)
    BY <1>5, WantedStays
  <2>2. Counted(r)'
    BY <1>1, <1>2, <2>1 DEF Counted
  <2>3. \A n \in Mine(r) : RowsAt(n) \subseteq Ahead(r) /\ RowsAt(n) \cap InHand(r) = {}
    <3>1. \A n \in Mine(r) : RowsAt(n) \subseteq Item
      BY LineIs, JobFacts DEF Mine, Spot, RowsAt, Typed
    <3> QED BY <1>1, <3>1 DEF Ahead, Apart
  <2>4. Posts /\ agent.run = r =>
          /\ DOMAIN Batch.rows = Page /\ Page \cap (InHand(r) \cup Ahead(r)) = {}
          /\ agent'.run = r => \A i \in Page : Rank(Wanted(r), i) < agent'.offset
    BY <1>1, PageNew
  <2>5. Apart(r)'
    <3>1. ASSUME NEW n \in Mine(r)', NEW m \in Mine(r)'
          PROVE  /\ DOMAIN Line'[n].rows \cap InHand(r) = {}
                 /\ m # n => DOMAIN Line'[m].rows \cap DOMAIN Line'[n].rows = {}
      <4>1. CASE f[n] \in Mine(r) /\ Line'[n] = Line[f[n]] /\ f[m] \in Mine(r) /\ Line'[m] = Line[f[m]]
        <5>1. m # n => f[m] # f[n]
          BY <1>3
        <5>2. /\ RowsAt(f[n]) \cap InHand(r) = {}
              /\ f[m] # f[n] => RowsAt(f[m]) \cap RowsAt(f[n]) = {}
          BY <1>1, <4>1 DEF Apart
        <5> QED BY <4>1, <5>1, <5>2 DEF RowsAt
      <4>2. CASE /\ f[n] \in Mine(r) /\ Line'[n] = Line[f[n]]
                 /\ Posts /\ m = Len(Line) + 1 /\ Line'[m] = Batch /\ agent.run = r
        BY <2>3, <2>4, <4>2 DEF RowsAt
      <4>3. CASE /\ f[m] \in Mine(r) /\ Line'[m] = Line[f[m]]
                 /\ Posts /\ n = Len(Line) + 1 /\ Line'[n] = Batch /\ agent.run = r
        BY <2>3, <2>4, <4>3 DEF RowsAt
      <4>4. CASE Posts /\ n = Len(Line) + 1 /\ m = Len(Line) + 1 /\ Line'[n] = Batch /\ agent.run = r
        BY <2>4, <4>4
      <4> QED BY <1>3, <4>1, <4>2, <4>3, <4>4
    <3> QED BY <1>2, <3>1 DEF Apart, RowsAt
  <2>6. Behind(r)'
    <3> SUFFICES ASSUME agent'.run = r, NEW i \in InHand(r)' \cup Ahead(r)' PROVE Rank(Wanted(r), i) < agent'.offset
      BY <2>1 DEF Behind, Rank
    <3>1. agent.run = r /\ agent.offset <= agent'.offset /\ agent.offset \in Nat /\ agent'.offset \in Nat
      BY <1>5, OffsetGrows
    <3>2. CASE i \in InHand(r) \cup Ahead(r)
      <4>1. Rank(Wanted(r), i) < agent.offset
        BY <1>1, <3>1, <3>2 DEF Behind
      <4>2. Rank(Wanted(r), i) \in Nat
        <5>1. i \in Item /\ Wanted(r) \in SUBSET Item
          BY <3>2 DEF InHand, Ahead, Wanted
        <5> QED BY <5>1, RankIs
      <4> QED BY <3>1, <4>1, <4>2
    <3>3. CASE i \notin InHand(r) \cup Ahead(r)
      <4>1. PICK n \in Mine(r)' : i \in DOMAIN Line'[n].rows
        BY <1>2, <3>3 DEF Ahead, RowsAt
      <4>2. ~(f[n] \in Mine(r) /\ Line'[n] = Line[f[n]])
        BY <2>3, <3>3, <4>1 DEF RowsAt
      <4>3. Posts /\ Line'[n] = Batch
        BY <1>3, <4>2
      <4> QED BY <2>4, <3>1, <4>1, <4>3
    <3> QED BY <3>2, <3>3
  <2> QED BY <2>2, <2>5, <2>6
<1> QED BY <1>4, <1>5

\* What a transaction stages is the run's: the batch's rows, which were not staged, and rows that were.
LEMMA StagedSound ==
  ASSUME Typed, Commit, kind = "inventory", NEW q \in Run, exec.job.run = q, Clean(q), Counted(q), Apart(q), Carries(q)
  PROVE  /\ 1 \in Mine(q) /\ Line[1] = exec.job /\ DOMAIN exec.job.rows \subseteq Item
         /\ \A i \in Item : Staged(exec.job)[i] # -1 =>
              /\ i \in DOMAIN exec.job.rows \cup InHand(q) /\ i \in Wanted(q)
              /\ Staged(exec.job)[i] = taken[q][i] - 1
<1> DEFINE j == exec.job
<1>1. Line[1] = j /\ 1 \in Spot /\ j \in Jobs /\ exec.pc = "open" /\ Len(Line) \in Nat
  BY CommitIs, LineNat DEF Spot
<1>2. 1 \in Mine(q)
  BY <1>1 DEF Mine
<1>3. \A i \in DOMAIN j.rows : i \in Item /\ i \in Wanted(q) /\ j.rows[i] = taken[q][i]
  BY <1>1, JobFacts DEF Carries, Clean, RowsAt
<1>4. \A i \in DOMAIN j.rows : i \notin InHand(q)
  BY <1>1, <1>2 DEF Apart, RowsAt
<1> DEFINE before == IF j.index = 0 THEN NoStock ELSE staging[q]
<1>5. \A i \in Item : before[i] # -1 => i \in InHand(q) /\ before[i] = staging[q][i]
  BY DEF InHand, NoStock
<1>6. \A i \in Item : Staged(j)[i] = IF i \notin DOMAIN j.rows THEN before[i]
                      ELSE IF before[i] = -1 THEN j.rows[i] - 1 ELSE before[i] + j.rows[i] - 1
  BY DEF Staged
<1> HIDE DEF before, j
<1>7. ASSUME NEW i \in Item, Staged(j)[i] # -1
      PROVE  i \in DOMAIN j.rows \cup InHand(q) /\ i \in Wanted(q) /\ Staged(j)[i] = taken[q][i] - 1
  <2>1. CASE i \in DOMAIN j.rows
    <3>1. before[i] = -1 /\ j.rows[i] = taken[q][i] /\ i \in Wanted(q)
      BY <1>3, <1>4, <1>5, <2>1
    <3> QED BY <1>6, <2>1, <3>1
  <2>2. CASE i \notin DOMAIN j.rows
    <3>1. Staged(j)[i] = before[i]
      BY <1>6, <2>2
    <3>2. i \in InHand(q) /\ Staged(j)[i] = staging[q][i]
      BY <1>5, <1>7, <3>1
    <3> QED BY <3>2 DEF Counted
  <2> QED BY <2>1, <2>2
<1> QED BY <1>1, <1>2, <1>3, <1>7 DEF j

LEMMA SoundCommitted ==
  ASSUME Typed, Commit, kind = "inventory", NEW r \in Run, Carries(r), Sound(r)
  PROVE  Sound(r)'
<1> SUFFICES ASSUME Clean(r)' PROVE Counted(r)' /\ Apart(r)' /\ Behind(r)'
  BY DEF Sound
<1>1. /\ UNCHANGED <<clock, agentVars, accepted, taken, flaws>> /\ Line' = Line
      /\ exec.pc = "open" /\ exec'.pc = "committed" /\ Line[1] = exec.job /\ Len(Line) \in Nat
  BY CommitIs, LineNat
<1>2. Clean(r) /\ Counted(r) /\ Apart(r) /\ Behind(r)
  <2>1. Clean(r)
    BY <1>1 DEF Clean
  <2> QED BY <2>1 DEF Sound
<1>3. Wanted(r)' = Wanted(r) /\ agent' = agent
  BY <1>1 DEF Wanted, agentVars
<1>4. \A n : n \in Mine(r)' <=> n \in Mine(r) /\ n > 1
  BY <1>1 DEF Mine, Spot
<1> DEFINE R == DOMAIN exec.job.rows
<1>5. /\ \A i \in InHand(r)' : i \in Wanted(r) /\ staging'[r][i] = taken[r][i] - 1
      /\ \A i \in InHand(r)' : i \in InHand(r) \/ (exec.job.run = r /\ 1 \in Mine(r) /\ i \in RowsAt(1))
  <2>1. CASE r # exec.job.run
    <3>1. staging'[r] = staging[r]
      BY <2>1, StoresStock
    <3> QED BY <1>2, <3>1 DEF InHand, Counted
  <2>2. CASE r = exec.job.run /\ IsLast(exec.job)
    <3>1. staging'[r] = NoStock
      BY <2>2, StoresStock
    <3> QED BY <3>1 DEF InHand, NoStock
  <2>3. CASE r = exec.job.run /\ ~IsLast(exec.job)
    <3>1. staging'[r] = Staged(exec.job)
      BY <2>3, StoresStock
    <3>2. /\ 1 \in Mine(r) /\ Line[1] = exec.job
          /\ \A i \in Item : Staged(exec.job)[i] # -1 =>
               /\ i \in DOMAIN exec.job.rows \cup InHand(r) /\ i \in Wanted(r)
               /\ Staged(exec.job)[i] = taken[r][i] - 1
      BY <1>2, <2>3, StagedSound
    <3> QED BY <2>3, <3>1, <3>2 DEF InHand, RowsAt
  <2> QED BY <2>1, <2>2, <2>3
<1>6. Counted(r)'
  BY <1>1, <1>3, <1>5 DEF Counted
<1>7. Apart(r)'
  <2>1. ASSUME NEW n \in Mine(r)', NEW m \in Mine(r)'
        PROVE  /\ DOMAIN Line'[n].rows \cap InHand(r)' = {}
               /\ m # n => DOMAIN Line'[m].rows \cap DOMAIN Line'[n].rows = {}
    <3>1. n \in Mine(r) /\ m \in Mine(r) /\ n # 1
      BY <1>4
    <3>2. /\ RowsAt(n) \cap InHand(r) = {}
          /\ m # n => RowsAt(m) \cap RowsAt(n) = {}
          /\ 1 \in Mine(r) => RowsAt(1) \cap RowsAt(n) = {}
      BY <1>2, <3>1 DEF Apart
    <3>3. RowsAt(n) \cap InHand(r)' = {}
      BY <1>5, <3>2
    <3> QED BY <1>1, <3>2, <3>3 DEF RowsAt
  <2> QED BY <2>1 DEF Apart, RowsAt
<1>8. Behind(r)'
  <2> SUFFICES ASSUME agent.run = r, NEW i \in InHand(r)' \cup Ahead(r)' PROVE Rank(Wanted(r), i) < agent.offset
    BY <1>3 DEF Behind, Rank
  <2>1. i \in InHand(r) \cup Ahead(r)
    <3>1. CASE i \in Ahead(r)'
      <4>1. PICK n \in Mine(r)' : i \in DOMAIN Line'[n].rows /\ i \in Item
        BY <3>1 DEF Ahead, RowsAt
      <4> QED BY <1>1, <1>4, <4>1 DEF Ahead, RowsAt
    <3>2. CASE i \in InHand(r)'
      <4>1. i \in Item
        BY <3>2 DEF InHand
      <4> QED BY <1>5, <3>2, <4>1 DEF Ahead
    <3> QED BY <3>1, <3>2
  <2> QED BY <1>2, <2>1 DEF Behind
<1> QED BY <1>6, <1>7, <1>8

LEMMA InitGenuine == Init => Genuine
<1> SUFFICES ASSUME Init PROVE Shown /\ \A r \in Run : Sound(r)
  BY DEF Genuine
<1>1. Line = <<>> /\ agent.run = 0 /\ basis.run = 0 /\ \A i \in Item : stock[i] = -1
  BY DEF Init, Line, Idle, NoBasis, NoStock
<1>2. ASSUME NEW r \in Run PROVE Sound(r)
  <2>1. r # 0 /\ \A i \in Item : staging[r][i] = -1
    BY DEF Init, NoStock, Run
  <2>2. Mine(r) = {} /\ InHand(r) = {}
    BY <1>1, <2>1 DEF Mine, Spot, InHand
  <2> QED BY <1>1, <2>1, <2>2 DEF Sound, Counted, Apart, Behind
<1> QED BY <1>1, <1>2 DEF Shown

LEMMA GenuineStep == Inv /\ Genuine /\ [Next]_rowVars => Genuine'
<1> SUFFICES ASSUME Inv, Genuine, [Next]_rowVars, kind = "inventory" PROVE Shown' /\ \A r \in Run : Sound(r)'
  BY KindStays DEF Genuine, Inv
<1>1. Typed /\ Books /\ Shown /\ \A r \in Run : Reads(r) /\ Carries(r) /\ Sound(r)
  BY DEF Inv, Genuine
<1>2. \A r \in Run : Sound(r)'
  BY <1>1, SoundMoved, SoundCommitted
<1>3. Shown'
  <2>1. CASE stock' = stock /\ basis' = basis
    <3>1. basis.run # 0 => taken'[basis.run] = taken[basis.run]
      <4> SUFFICES ASSUME basis.run # 0 PROVE taken'[basis.run] = taken[basis.run]
        OBVIOUS
      <4>1. basis.run \in Run /\ basis.run < clock /\ clock \in Nat /\ Run \in SUBSET Nat
        BY <1>1, AgentIs DEF Typed, TablesTyped, Books
      <4>2. basis.run # clock
        BY <4>1
      <4> QED BY <1>1, <4>1, <4>2, TakenStays
    <3> QED BY <1>1, <2>1, <3>1 DEF Shown
  <2>2. CASE Commit /\ IsLast(exec.job)
    <3>1. PICK q \in Run : exec.job.run = q
      BY <1>1, <2>2, StoresStock
    <3>2. basis'.run = q /\ basis'.flaws = flaws[q] /\ taken' = taken /\ stock' = Staged(exec.job)
      BY <1>1, <2>2, <3>1, StoresStock, CommitIs
    <3>3. q # 0
      BY <1>1, AgentIs
    <3>4. ASSUME Clean(q), NEW i \in Item, stock'[i] # -1 PROVE stock'[i] = taken[q][i] - 1
      <4>1. Counted(q) /\ Apart(q) /\ Carries(q)
        BY <1>1, <3>4 DEF Sound
      <4> QED BY <1>1, <2>2, <3>1, <3>2, <3>4, <4>1, StagedSound
    <3> QED BY <3>2, <3>3, <3>4 DEF Shown, Clean
  <2>3. Commit => IsLast(exec.job) \/ (stock' = stock /\ basis' = basis)
    BY <1>1, StoresStock
  <2> QED BY <1>1, <2>1, <2>2, <2>3, RowStays
<1> QED BY <1>2, <1>3

\* A number that is shown as stock is what JTL had when the run that was swapped in set out to
\* read, also after a resumed run or one that lost, failed or reordered batches: what is staged of a
\* run and what waits are never the same row twice, and lie behind the agent's offset, so that a batch
\* never adds to a row that is there.
THEOREM StockGenuine == Spec => []StockIsGenuine
<1>1. Inv /\ Genuine => StockIsGenuine
  <2> SUFFICES ASSUME Inv, Genuine, kind = "inventory", basis.flaws \cap {"split", "repeated", "edited"} = {},
                      NEW i \in Item, stock[i] # -1
               PROVE  stock[i] = taken[basis.run][i] - 1
    BY DEF StockIsGenuine
  <2> QED BY DEF Genuine, Shown
<1> QED BY <1>1, InvHolds, InitGenuine, GenuineStep, PTL DEF Spec

-----------------------------------------------------------------------------
(* The figures of the customers.                                           *)

Calm == \A r \in Run : flaws[r] \cap {"swallowed", "reordered", "split", "edited"} = {}
Agree == LiveOrders(row) # {} => stats = LiveOrders(row)
\* When the figures are old, a run has not come to a good end; a last batch makes them new.
Old == ~Agree => \E r \in Run : status[r] \in {"open", "failed"}
Renewed == exec.pc = "committed" /\ IsLast(exec.job) => Agree
\* Nothing of a run comes behind its last batch, or after its end.
Closed(r) == \A n \in Spot : Line[n].run = r /\ IsLast(Line[n]) =>
  /\ \A m \in Spot : Line[m].run = r => m <= n
  /\ agent.run = r => agent.offset = agent.total
Over(r) == status[r] = "ok" => /\ \A n \in Spot : Line[n].run # r
                               /\ agent.run = r => agent.offset = agent.total

Settled == kind = "orders" /\ Calm => Old /\ Renewed /\ \A r \in Run : Closed(r) /\ Over(r)

LEMMA CalmStays == Typed /\ [Next]_rowVars /\ Calm' => Calm
BY FlawsStay DEF Calm

\* An agent that has sent everything sends nothing more.
LEMMA AgentDone ==
  ASSUME Typed, Books, [Next]_rowVars, NEW r \in Run, r # clock, agent.run = r => agent.offset = agent.total, agent'.run = r
  PROVE  agent'.offset = agent'.total
<1>1. agent.run = r /\ agent.offset = agent.total /\ r # 0 /\ agent.total \in Nat
  BY OffsetGrows, AgentIs
<1>2. CASE agent' = agent
  BY <1>1, <1>2
<1>3. CASE agent' # agent
  <2>1. agent'.total = agent.total /\ (Posts \/ Loses \/ Waits)
    BY <1>1, <1>3, AgentMoves
  <2>2. ~Posts /\ ~Loses
    <3>1. ~(agent.offset < agent.total)
      BY <1>1
    <3>2. ~Sending
      BY <3>1 DEF Sending
    <3> QED BY <3>2 DEF Posts, Loses
  <2>3. agent' = Idle \/ \E s \in 1 .. agent.size : agent' = [agent EXCEPT !.size = s]
    BY <1>3, <2>1, <2>2 DEF Waits
  <2>4. agent' # Idle
    BY <1>1 DEF Idle
  <2>5. PICK s \in 1 .. agent.size : agent' = [agent EXCEPT !.size = s]
    BY <2>3, <2>4
  <2>6. [agent EXCEPT !.size = s].offset = agent.offset
    BY DEF Typed, AgentTyped
  <2> QED BY <1>1, <2>1, <2>5, <2>6
<1> QED BY <1>2, <1>3

\* The batch with the last number has the rest of the rows, and the agent goes to the end.
LEMMA LastSent ==
  ASSUME Typed, Books, Posts, NEW r \in Run, agent.run = r, Reads(r), "edited" \notin flaws[r], "split" \notin flaws'[r],
         IsLast(Batch), agent'.run = r
  PROVE  agent'.offset = agent'.total
<1> DEFINE W == Wanted(r)
           o == agent.offset
           s == agent.size
           c == Cardinality(Page)
<1>1. Sending /\ o \in Nat /\ s \in Nat \ {0} /\ agent.total \in Nat /\ W \in SUBSET Item /\ r # 0 /\ o < agent.total
  BY AgentIs DEF Posts, Sending
<1>2. Selected(agent.full, agent.window) = W /\ agent.total = Cardinality(W)
  BY DEF Reads
<1>3. Page = PageOf(W, o, s) /\ Page # {} /\ Batch.index = o \div s /\ Batch.total = Chunks(agent.total, s)
  BY <1>1, <1>2, PageIs, BatchIs DEF Typed
<1>4. agent.total <= o + s
  <2>1. o \div s = Chunks(agent.total, s) - 1
    BY <1>3 DEF IsLast
  <2> QED BY <1>1, <2>1, Index
<1>5. \A i \in W : Rank(W, i) < o + s
  <2> TAKE i \in W
  <2>1. Rank(W, i) < agent.total
    BY <1>1, <1>2, RankInside
  <2>2. Rank(W, i) \in Nat
    <3>1. i \in Item
      BY <1>1
    <3> QED BY <1>1, <3>1, RankIs
  <2> QED BY <1>1, <1>4, <2>1, <2>2
<1>6. o + c = agent.total
  BY <1>1, <1>2, <1>3, <1>5, PageLast
<1>7. agent' = [agent EXCEPT !.offset = o + c]
  <2>1. \/ agent' = [agent EXCEPT !.offset = o + c]
        \/ agent' = Idle
        \/ "split" \in flaws'[r]
    BY DEF Posts
  <2>2. agent' # Idle
    BY <1>1 DEF Idle
  <2> QED BY <2>1, <2>2
<1>8. \A x : [agent EXCEPT !.offset = x].offset = x /\ [agent EXCEPT !.offset = x].total = agent.total
  BY DEF Typed, AgentTyped
<1> QED BY <1>6, <1>7, <1>8

LEMMA ClosedStep ==
  ASSUME Typed, Books, [Next]_rowVars, Calm', NEW r \in Run, Reads(r), Closed(r)
  PROVE  Closed(r)'
<1> SUFFICES ASSUME NEW n \in 1 .. Len(Line'), Line'[n].run = r, IsLast(Line'[n])
             PROVE  /\ \A m \in 1 .. Len(Line') : Line'[m].run = r => m <= n
                    /\ agent'.run = r => agent'.offset = agent'.total
  BY DEF Closed, Spot, IsLast
<1>1. Calm /\ Len(Line') \in Nat
  <2>1. Typed'
    BY TypedStep
  <2>2. (Len(Line) \in Nat)'
    BY <2>1, LineNat, PTL
  <2> QED BY <2>2, CalmStays
<1>2. \A m \in 1 .. Len(Line) : Line[m].run = r /\ IsLast(Line[m]) => (agent.run = r => agent.offset = agent.total)
  BY DEF Closed, Spot
<1>3. Posts => agent.offset < agent.total /\ Batch.run = agent.run /\ agent.total \in Nat /\ agent.offset \in Nat
  BY AgentIs, BatchIs DEF Posts, Sending, Typed
<1>4. ASSUME NEW m \in 1 .. Len(Line'), Line'[m].run = r, m > n PROVE FALSE
  <2>1. CASE \E a, b \in 1 .. Len(Line) : a < b /\ Line'[n] = Line[a] /\ Line'[m] = Line[b]
    <3>1. PICK a, b \in 1 .. Len(Line) : a < b /\ Line'[n] = Line[a] /\ Line'[m] = Line[b]
      BY <2>1
    <3>2. b <= a
      BY <1>4, <3>1 DEF Closed, Spot
    <3>3. Len(Line) \in Nat
      BY LineNat
    <3> QED BY <3>1, <3>2, <3>3
  <2>2. CASE Posts /\ Line'[m] = Batch /\ \E a \in 1 .. Len(Line) : Line'[n] = Line[a]
    <3>1. agent.run = r /\ agent.offset < agent.total /\ agent.total \in Nat /\ agent.offset \in Nat
      BY <1>3, <1>4, <2>2
    <3>2. agent.offset = agent.total
      BY <1>2, <2>2, <3>1
    <3> QED BY <3>1, <3>2
  <2>3. CASE Restart /\ \A x \in 1 .. Len(Line) : "reordered" \in flaws'[Line[x].run]
    <3>1. 1 \in 1 .. Len(Line) /\ Line[1].run \in Run
      <4>1. exec # NoExec
        BY <2>3 DEF Restart
      <4> QED BY <4>1, LineIs, JobFacts DEF Typed
    <3> QED BY <2>3, <3>1 DEF Calm
  <2> QED BY <1>1, <1>4, <2>1, <2>2, <2>3, PairsCome
<1>5. \A m \in 1 .. Len(Line') : Line'[m].run = r => m <= n
  BY <1>1, <1>4
<1>6. ASSUME agent'.run = r PROVE agent'.offset = agent'.total
  <2>1. CASE \E m \in 1 .. Len(Line) : Line'[n] = Line[m]
    <3>1. PICK m \in 1 .. Len(Line) : Line'[n] = Line[m]
      BY <2>1
    <3>2. agent.run = r => agent.offset = agent.total
      BY <1>2, <3>1
    <3>3. r # clock
      BY <3>1, InLine
    <3> QED BY <1>6, <3>2, <3>3, AgentDone
  <2>2. CASE Posts /\ Line'[n] = Batch
    <3>1. "edited" \notin flaws[r] /\ "split" \notin flaws'[r]
      BY <1>1 DEF Calm
    <3> QED BY <1>3, <1>6, <2>2, <3>1, LastSent
  <2> QED BY <2>1, <2>2, LineComes
<1> QED BY <1>5, <1>6

LEMMA OverStep ==
  ASSUME Typed, Books, [Next]_rowVars, Calm', NEW r \in Run, Closed(r), Over(r)
  PROVE  Over(r)'
<1> SUFFICES ASSUME status'[r] = "ok"
             PROVE  /\ \A n \in 1 .. Len(Line') : Line'[n].run # r
                    /\ agent'.run = r => agent'.offset = agent'.total
  BY DEF Over, Spot
<1>1. Posts => ~(agent.offset = agent.total) /\ Batch.run = agent.run
  <2>1. agent.offset \in Nat /\ agent.total \in Nat
    BY AgentIs
  <2> QED BY <2>1, BatchIs DEF Posts, Sending, Typed
<1>2. CASE status[r] = "ok"
  <2>1. r # clock
    BY <1>2, AgentIs DEF Books
  <2>2. (\A n \in 1 .. Len(Line) : Line[n].run # r) /\ (agent.run = r => agent.offset = agent.total)
    BY <1>2 DEF Over, Spot
  <2>3. \A n \in 1 .. Len(Line') : Line'[n].run # r
    BY <1>1, <2>2, LineComes
  <2> QED BY <2>1, <2>2, <2>3, AgentDone
<1>3. CASE status[r] # "ok"
  <2>1. Drops /\ status' # status
    <3>1. Posts \/ Loses => status'[r] # "ok"
      <4>1. Posts \/ Loses => \E x : status' = [status EXCEPT ![x] = IF @ = "none" THEN "open" ELSE @]
        BY DEF Posts, Loses, Enqueue
      <4> QED BY <1>3, <4>1 DEF Typed, BooksTyped
    <3>2. ~(Posts \/ Loses \/ Drops) => status' = status
      BY Steps, CommitIs DEF Edit, Begin, Vanishes, Restart, Waits
    <3>3. Drops => status' # status
      BY <1>3
    <3> QED BY <1>3, <3>1, <3>2, <3>3
  <2>2. exec.job.run = r /\ IsLast(exec.job)
    <3>1. \/ status' = [status EXCEPT ![exec.job.run] = "failed"]
          \/ status' = [status EXCEPT ![exec.job.run] = "ok"] /\ IsLast(exec.job)
      BY <2>1 DEF Drops
    <3> QED BY <1>3, <3>1 DEF Typed, BooksTyped
  <2>3. Line[1] = exec.job /\ LineDropped /\ Len(Line) \in Nat /\ Len(Line) >= 1
    BY <2>1, Moves, LineNat
  <2>4. (\A m \in 1 .. Len(Line) : Line[m].run = r => m <= 1) /\ (agent.run = r => agent.offset = agent.total)
    BY <2>2, <2>3 DEF Closed, Spot
  <2>5. ASSUME NEW n \in 1 .. Len(Line'), Line'[n].run = r PROVE FALSE
    <3>1. n + 1 \in 1 .. Len(Line) /\ Line'[n] = Line[n + 1] /\ n + 1 > 1
      BY <2>3 DEF LineDropped
    <3> QED BY <2>4, <2>5, <3>1
  <2>6. agent' = agent
    BY <2>1 DEF Drops, agentVars
  <2> QED BY <2>4, <2>5, <2>6
<1> QED BY <1>2, <1>3

\* The transaction of a last batch makes the figures new.
LEMMA CommitRenews ==
  ASSUME Typed, Commit, kind = "orders", IsLast(exec.job)
  PROVE  Agree'
<1>1. StoreOrders(exec.job)
  BY DEF Commit, StoreProducts, StoreInventory
<1> DEFINE t == Upserted(exec.job)
<1>2. row' = t /\ stats' = Recomputed(t)
  BY <1>1 DEF StoreOrders
<1>3. LiveOrders(row)' = LiveOrders(t)
  BY <1>2 DEF LiveOrders
<1> HIDE DEF t
<1> QED BY <1>2, <1>3 DEF Recomputed, Agree

LEMMA AgreeStays == Typed /\ [Next]_rowVars /\ ~Commit => (Agree' <=> Agree)
BY RowStays DEF Agree, LiveOrders, tableVars

LEMMA RenewedStep ==
  ASSUME Typed, [Next]_rowVars, Calm', kind = "orders", Renewed
  PROVE  Renewed'
<1> SUFFICES ASSUME exec'.pc = "committed", IsLast(exec'.job) PROVE Agree'
  BY DEF Renewed, IsLast
<1>1. CASE Commit
  BY <1>1, CommitIs, CommitRenews
<1>2. CASE exec' = exec
  <2>1. ~Commit
    BY <1>2 DEF Commit
  <2> QED BY <1>2, <2>1, AgreeStays DEF Renewed
<1>3. CASE ~Commit /\ exec' # exec
  <2>1. Drops \/ Restart \/ Waits
    BY <1>3, Steps DEF Edit, Begin, Posts, Loses, Vanishes
  <2>2. Waits /\ ~Take
    BY <2>1 DEF Drops, Restart, NoExec, Take
  <2>3. exec # NoExec /\ \/ exec.pc = "committed" /\ FALSE
                         \/ "swallowed" \in flaws'[exec.job.run]
    BY <1>3, <2>2 DEF Waits
  <2>4. exec.job.run \in Run
    BY <2>3, LineIs, JobFacts DEF Typed
  <2> QED BY <2>3, <2>4 DEF Calm
<1> QED BY <1>1, <1>2, <1>3

LEMMA OldStep ==
  ASSUME Typed, [Next]_rowVars, kind = "orders", Old, Renewed, \A r \in Run : Over(r)
  PROVE  Old'
<1> SUFFICES ASSUME ~Agree' PROVE \E r \in Run : status'[r] \in {"open", "failed"}
  BY DEF Old
<1>1. CASE Commit
  <2>1. /\ exec.job \in Jobs /\ exec.job.run \in Run /\ status' = status /\ Line[1] = exec.job /\ 1 \in 1 .. Len(Line)
    BY <1>1, CommitIs, JobFacts, LineNat
  <2>2. status[exec.job.run] # "ok"
    BY <2>1 DEF Over, Spot
  <2>3. status[exec.job.run] \in {"none", "open", "ok", "failed"} /\ status[exec.job.run] # "none"
    BY <2>1 DEF Typed, BooksTyped, JobsTyped
  <2> QED BY <2>1, <2>2, <2>3
<1>2. CASE ~Commit
  <2>1. ~Agree
    BY <1>2, AgreeStays
  <2>2. PICK r \in Run : status[r] \in {"open", "failed"}
    BY <2>1 DEF Old
  <2>3. CASE status'[r] = status[r]
    BY <2>2, <2>3
  <2>4. CASE Drops
    <3>1. \/ status' = status
          \/ status' = [status EXCEPT ![exec.job.run] = "failed"]
          \/ exec.pc = "committed" /\ IsLast(exec.job)
      BY <2>4 DEF Drops
    <3>2. status' = status \/ status' = [status EXCEPT ![exec.job.run] = "failed"]
      BY <2>1, <3>1 DEF Renewed
    <3>3. status'[r] \in {"open", "failed"}
      BY <2>2, <3>2 DEF Typed, BooksTyped
    <3> QED BY <3>3
  <2>5. ~Drops => status'[r] = status[r]
    <3>1. Posts \/ Loses => \E x : status' = [status EXCEPT ![x] = IF @ = "none" THEN "open" ELSE @]
      BY DEF Posts, Loses, Enqueue
    <3>2. Posts \/ Loses => status'[r] = status[r]
      BY <2>2, <3>1 DEF Typed, BooksTyped
    <3>3. ~(Posts \/ Loses \/ Drops) => status' = status
      BY <1>2, Steps DEF Edit, Begin, Vanishes, Restart, Waits
    <3> QED BY <3>2, <3>3
  <2> QED BY <2>3, <2>4, <2>5
<1> QED BY <1>1, <1>2

LEMMA InitSettled == Init => Settled
<1> SUFFICES ASSUME Init PROVE Old /\ Renewed /\ \A r \in Run : Closed(r) /\ Over(r)
  BY DEF Settled
<1>1. Line = <<>> /\ exec.pc = "none"
  BY DEF Init, Line, NoExec
<1>2. LiveOrders(row) = {}
  BY DEF Init, LiveOrders
<1>3. Old /\ Renewed
  BY <1>1, <1>2 DEF Old, Agree, Renewed
<1>4. \A r \in Run : status[r] = "none"
  BY DEF Init
<1>5. Spot = {}
  BY <1>1 DEF Spot
<1> QED BY <1>3, <1>4, <1>5 DEF Closed, Over

LEMMA SettledStep == Inv /\ Settled /\ [Next]_rowVars => Settled'
<1> SUFFICES ASSUME Inv, Settled, [Next]_rowVars, kind = "orders", Calm'
             PROVE  Old' /\ Renewed' /\ \A r \in Run : Closed(r)' /\ Over(r)'
  BY KindStays DEF Settled, Inv
<1>1. Typed /\ Books /\ Calm /\ \A r \in Run : Reads(r)
  BY CalmStays DEF Inv
<1>2. Old /\ Renewed /\ \A r \in Run : Closed(r) /\ Over(r)
  BY <1>1 DEF Settled
<1> QED BY <1>1, <1>2, OldStep, RenewedStep, ClosedStep, OverStep

\* The figures of the customers agree with the orders whenever every run is listed as ok: a run whose
\* batches made them old is open or failed until a last batch has its turn, and nothing of a run comes
\* after its last batch.
THEOREM FiguresAgree == Spec => []FiguresSettle
<1>1. Inv /\ Settled => FiguresSettle
  <2> SUFFICES ASSUME Inv, Settled, kind = "orders", \A r \in Run : status[r] \in {"none", "ok"}, LiveOrders(row) # {}, Calm
               PROVE  stats = LiveOrders(row)
    BY DEF FiguresSettle, Calm
  <2> QED BY DEF Settled, Old, Agree
<1> QED BY <1>1, InvHolds, InitSettled, SettledStep, PTL DEF Spec
=============================================================================
