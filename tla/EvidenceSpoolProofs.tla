------------------------ MODULE EvidenceSpoolProofs ------------------------
(***************************************************************************)
(* What the evidence store has acknowledged is on its spools and, once the *)
(* replay has caught up, in the projection; and nothing is projected that  *)
(* the spools do not hold: for any evidence, any widths of lines, and any  *)
(* number of compactors.                                                   *)
(*                                                                         *)
(* The argument has four parts. Offsets: where lines end is a sum over the *)
(* file. What is kept by a compaction is told line by line. A replay is    *)
(* told by any set of states that it cannot leave. And the invariant,      *)
(* whose centre is what a compaction that may still swap knows of the      *)
(* files (PlanHolds).                                                      *)
(***************************************************************************)
EXTENDS EvidenceSpool, TLAPS, FiniteSetTheorems, SequenceTheorems, WellFoundedInduction

-----------------------------------------------------------------------------
(* The invariant.                                                          *)

ErrorWhy == {"invalid", "refused"}
Projections ==
    [receipts : SUBSET MainLine, batches : SUBSET ReceiptId, errors : SUBSET (ReceiptId \X ErrorWhy)]
Plan ==
    [phase : {"idle", "prepared", "verified"}, main : MainFile, usage : UsageFile,
     keys : SUBSET Evidence, guarded : SUBSET Evidence, current : BOOLEAN]

SpoolTypes ==
    /\ main \in MainFile /\ usage \in UsageFile
    /\ proj \in Projections
    /\ cursor \in [main : Nat, usage : Nat]
    /\ compaction \in [Compactor -> Plan]
    /\ issued \in 0 .. MaxReceipt
    /\ acked \subseteq 1 .. issued
    /\ pruned \subseteq 1 .. issued
    /\ mixed \in BOOLEAN

\* In the order of arrival, and only the last line is torn.
Ordered(file) ==
    /\ \A i, j \in 1 .. Len(file) : i < j => file[i].id < file[j].id
    /\ \A i \in 1 .. Len(file) : file[i].id <= issued
    /\ \A i \in 1 .. Len(file) : file[i].kind = "torn" => i = Len(file)

OrderInv ==
    /\ Ordered(main) /\ Ordered(usage)
    /\ \A i \in 1 .. Len(main), b \in 1 .. Len(usage) : main[i].id # usage[b].id

\* What was acknowledged is a whole line.
AckedInv ==
    /\ \A id \in acked : \/ \E i \in 1 .. Len(main) : main[i].id = id
                         \/ \E b \in 1 .. Len(usage) : usage[b].id = id
    /\ \A i \in 1 .. Len(main) : main[i].kind \in {"torn", "ended"} => main[i].id \notin acked
    /\ \A b \in 1 .. Len(usage) : usage[b].kind \in {"torn", "ended"} => usage[b].id \notin acked

\* A batch finds the main spool split where it arrived.
Splits(fence, id) ==
    /\ fence <= Bytes(main)
    /\ \A i \in 1 .. Len(main) :
          IF main[i].id < id THEN End(main, i) <= fence ELSE Start(main, i) >= fence
FenceInv ==
    ~mixed => \A b \in 1 .. Len(usage) : usage[b].kind = "usage" => Splits(usage[b].fence, usage[b].id)

\* What a projection p holds, that was replayed up to mp of the main spool and
\* up to up of the other one, is on the spools.
Backed(p) ==
    /\ \A l \in p.receipts : \E i \in 1 .. Len(main) : main[i] = l
    /\ \A id \in p.batches : \E b \in 1 .. Len(usage) : usage[b].id = id

\* What was pruned is behind every replay that is still to come.
PrunedBehind(p, mp) ==
    /\ \A i \in 1 .. Len(main) : main[i].id \in pruned => End(main, i) <= mp
    /\ \A l \in p.receipts : l.id \notin pruned

\* A receipt for which the projection answers.
Answers(p, id) ==
    \/ \E l \in p.receipts : l.id = id
    \/ id \in p.batches
    \/ <<id, "refused">> \in p.errors

\* A replay that has begun at zero, and the lines that it has left behind.
AtLine(file, pos) == \E i \in 0 .. Len(file) : End(file, i) = pos
Passed(file, pos, p) ==
    \A i \in 1 .. Len(file) : file[i].id \in acked /\ End(file, i) <= pos => Answers(p, file[i].id)

AllAnswered(p) == \A id \in acked : Answers(p, id)
Answering(p, mp, up) ==
    \/ AllAnswered(p)
    \/ /\ \A c \in Compactor : compaction[c].phase = "idle"
       /\ AtLine(main, mp) /\ AtLine(usage, up)
       /\ Passed(main, mp, p) /\ Passed(usage, up, p)

\* The file goes on from what the plan has of it; a torn line may have been ended.
SameOrEnded(l, old) == (l = old) \/ (old.kind = "torn" /\ l = [old EXCEPT !.kind = "ended"])
Continues(file, old) ==
    Len(old) <= Len(file) /\ \A i \in 1 .. Len(old) : SameOrEnded(file[i], old[i])

\* What a compaction that may still swap relies on: it has what the files had
\* up to a point that the replay has passed, and what it drops nobody holds.
PlanFiles(plan) ==
    /\ Continues(main, plan.main) /\ Continues(usage, plan.usage)
    /\ \A i \in Len(plan.main) + 1 .. Len(main), b \in 1 .. Len(plan.usage) : usage[b].id < main[i].id
    /\ \A i \in 1 .. Len(plan.main), b \in Len(plan.usage) + 1 .. Len(usage) : main[i].id < usage[b].id
PlanDrops(plan, p) ==
    \A i \in 1 .. Len(plan.main) : Droppable(plan, main[i]) =>
        /\ main[i] \notin p.receipts
        /\ plan.phase = "verified" => main[i].id \notin acked
PlanHolds(plan, p, mp) ==
    PlanFiles(plan) /\ PlanDrops(plan, p) /\ End(main, Len(plan.main)) <= mp

PlansHold(p, mp) ==
    \A c \in Compactor :
        compaction[c].phase # "idle" /\ compaction[c].current => PlanHolds(compaction[c], p, mp)

FilesInv == SpoolTypes /\ OrderInv /\ AckedInv /\ FenceInv

\* The projection that was replayed so far.
ProjInv(p, mp, up) ==
    /\ p \in Projections /\ mp \in 0 .. Bytes(main) /\ up \in 0 .. Bytes(usage)
    /\ Backed(p) /\ PrunedBehind(p, mp) /\ Answering(p, mp, up) /\ PlansHold(p, mp)

SpoolInv == FilesInv /\ ProjInv(proj, Resumed.main, Resumed.usage)

-----------------------------------------------------------------------------
(* Naturals, and functions defined by recursion along a file.              *)

Below == {pair \in Nat \X Nat : pair[1] < pair[2]}

LEMMA LeastFailure ==
    ASSUME NEW Bad, Bad \subseteq Nat, Bad # {}
    PROVE  \E x \in Bad : \A k \in Nat : k < x => k \notin Bad
<1>1. Below = OpToRel(<, Nat)
  BY DEF OpToRel, Below
<1>2. IsWellFoundedOn(Below, Nat)
  BY <1>1, NatLessThanWellFounded
<1>3. PICK x \in Bad : \A y \in Bad : ~(<<y, x>> \in Below)
  BY <1>2, WFMin
<1>4. ASSUME NEW k \in Nat, k < x PROVE k \notin Bad
  BY <1>3, <1>4 DEF Below
<1> QED
  BY <1>4

-----------------------------------------------------------------------------
(* Offsets: where the lines of a file end.                                 *)

Lines == MainLine \cup UsageLine \cup TornLine

LEMMA BytesOfLines == \A l \in Lines : LineBytes(l) \in Nat /\ LineBytes(l) >= 1
<1>1. \A e \in Evidence : Width[e] \in Nat /\ Width[e] >= 1
  BY SpoolAssumption
<1>2. ASSUME NEW l \in MainLine PROVE LineBytes(l) \in Nat /\ LineBytes(l) >= 1
  <2>1. l.of \in Evidence /\ l.kind \notin {"torn", "ended", "usage"}
    BY DEF MainLine
  <2>2. LineBytes(l) \in {Width[l.of], Width[l.of] + 1}
    BY <2>1 DEF LineBytes
  <2> QED
    BY <1>1, <2>1, <2>2
<1>3. ASSUME NEW l \in UsageLine \cup TornLine PROVE LineBytes(l) \in Nat /\ LineBytes(l) >= 1
  <2>1. l.kind \in {"usage", "torn", "ended"}
    BY DEF UsageLine, TornLine
  <2>2. LineBytes(l) \in {1, 2, 3}
    BY <2>1 DEF LineBytes
  <2> QED
    BY <2>2
<1> QED
  BY <1>2, <1>3 DEF Lines

LEMMA FilesHaveLines == MainFile \subseteq Seq(Lines) /\ UsageFile \subseteq Seq(Lines)
<1>1. MainLine \cup TornLine \subseteq Lines /\ UsageLine \cup TornLine \subseteq Lines
  BY DEF Lines
<1> QED
  BY <1>1, SeqMonotonic DEF MainFile, UsageFile

LEMMA LineHasBytes ==
    ASSUME NEW file \in Seq(Lines), NEW i \in 1 .. Len(file)
    PROVE  LineBytes(file[i]) \in Nat /\ LineBytes(file[i]) >= 1
  BY ElementOfSeq, BytesOfLines

SumsUp(file, n, f) ==
    f = [k \in 0 .. n |-> IF k = 0 THEN 0 ELSE f[k - 1] + LineBytes(file[k])]

LEMMA SumExists ==
    ASSUME NEW file, NEW n \in Nat
    PROVE  \E f : SumsUp(file, n, f)
<1> DEFINE Bad == {k \in Nat : ~ \E f : SumsUp(file, k, f)}
<1> SUFFICES ASSUME Bad # {} PROVE FALSE
  OBVIOUS
<1>1. PICK m \in Bad : \A k \in Nat : k < m => k \notin Bad
  <2> HIDE DEF Bad
  <2>1. Bad \subseteq Nat
    BY DEF Bad
  <2> QED
    BY <2>1, LeastFailure
<1>2. CASE m = 0
  <2>1. SumsUp(file, 0, [k \in 0 .. 0 |-> 0])
    BY DEF SumsUp
  <2> QED
    BY <1>2, <2>1
<1>3. CASE m > 0
  <2>1. m \in Nat /\ m - 1 \in Nat /\ m - 1 < m
    BY <1>3
  <2>2. PICK f : SumsUp(file, m - 1, f)
    BY <1>1, <2>1
  <2> DEFINE g == [k \in 0 .. m |-> IF k = m THEN f[m - 1] + LineBytes(file[m]) ELSE f[k]]
  <2>3. \A k \in 0 .. m : k # 0 => g[k - 1] = f[k - 1]
    BY <2>1
  <2>4. \A k \in 0 .. m - 1 : f[k] = IF k = 0 THEN 0 ELSE f[k - 1] + LineBytes(file[k])
    BY <2>2 DEF SumsUp
  <2>5. \A k \in 0 .. m : g[k] = IF k = 0 THEN 0 ELSE g[k - 1] + LineBytes(file[k])
    BY <1>3, <2>1, <2>3, <2>4
  <2>6. SumsUp(file, m, g)
    BY <2>5 DEF SumsUp
  <2> QED
    BY <2>6
<1> QED
  BY <1>2, <1>3

LEMMA EndUnfolds ==
    ASSUME NEW file, Len(file) \in Nat
    PROVE  /\ End(file, 0) = 0
           /\ \A i \in 1 .. Len(file) : End(file, i) = End(file, i - 1) + LineBytes(file[i])
<1>1. \E f : SumsUp(file, Len(file), f)
  BY SumExists
<1>2. SumsUp(file, Len(file), Ends(file))
  BY <1>1 DEF SumsUp, Ends
<1> DEFINE g == Ends(file)
<1>3. g = [k \in 0 .. Len(file) |-> IF k = 0 THEN 0 ELSE g[k - 1] + LineBytes(file[k])]
  BY <1>2 DEF SumsUp
<1> HIDE DEF g
<1>4. g[0] = 0 /\ \A k \in 1 .. Len(file) : g[k] = g[k - 1] + LineBytes(file[k])
  BY <1>3
<1> QED
  BY <1>4 DEF g, End

\* Offsets are natural numbers and grow with each line.
LEMMA EndTypes ==
    ASSUME NEW file \in Seq(Lines)
    PROVE  \A i \in 0 .. Len(file) : End(file, i) \in Nat
<1>0. Len(file) \in Nat /\ \A i \in 1 .. Len(file) : LineBytes(file[i]) \in Nat
  BY BytesOfLines
<1> DEFINE Bad == {i \in 0 .. Len(file) : End(file, i) \notin Nat}
<1> SUFFICES ASSUME Bad # {} PROVE FALSE
  OBVIOUS
<1>1. PICK m \in Bad : \A k \in Nat : k < m => k \notin Bad
  <2> HIDE DEF Bad
  <2>1. Bad \subseteq Nat
    BY <1>0 DEF Bad
  <2> QED
    BY <2>1, LeastFailure
<1>2. m # 0 /\ m \in 1 .. Len(file)
  BY <1>0, EndUnfolds
<1>3. End(file, m - 1) \in Nat
  BY <1>0, <1>1, <1>2
<1> QED
  BY <1>0, <1>2, <1>3, EndUnfolds

LEMMA EndGrows ==
    ASSUME NEW file \in Seq(Lines)
    PROVE  \A i \in 1 .. Len(file) : /\ Start(file, i) \in Nat /\ End(file, i) \in Nat
                                     /\ Start(file, i) < End(file, i)
<1>1. ASSUME NEW i \in 1 .. Len(file)
      PROVE  Start(file, i) \in Nat /\ End(file, i) \in Nat /\ Start(file, i) < End(file, i)
  <2>1. Len(file) \in Nat /\ i - 1 \in 0 .. Len(file) /\ i \in 0 .. Len(file)
    OBVIOUS
  <2>2. End(file, i - 1) \in Nat /\ End(file, i) \in Nat
    BY <2>1, EndTypes
  <2>3. LineBytes(file[i]) \in Nat /\ LineBytes(file[i]) >= 1
    BY BytesOfLines
  <2>4. End(file, i) = End(file, i - 1) + LineBytes(file[i])
    BY <2>1, EndUnfolds
  <2> QED
    BY <2>2, <2>3, <2>4 DEF Start
<1> QED
  BY <1>1

LEMMA EndMonotonic ==
    ASSUME NEW file \in Seq(Lines)
    PROVE  \A i, j \in 0 .. Len(file) : i <= j => End(file, i) <= End(file, j)
<1>0. Len(file) \in Nat
  OBVIOUS
<1> SUFFICES ASSUME NEW i \in 0 .. Len(file)
    PROVE  \A j \in 0 .. Len(file) : i <= j => End(file, i) <= End(file, j)
  OBVIOUS
<1> DEFINE Bad == {j \in 0 .. Len(file) : i <= j /\ ~(End(file, i) <= End(file, j))}
<1> SUFFICES ASSUME Bad # {} PROVE FALSE
  OBVIOUS
<1>1. PICK m \in Bad : \A k \in Nat : k < m => k \notin Bad
  <2> HIDE DEF Bad
  <2>1. Bad \subseteq Nat
    BY <1>0 DEF Bad
  <2> QED
    BY <2>1, LeastFailure
<1>2. End(file, i) \in Nat
  BY EndTypes
<1>3. m # i /\ i < m /\ m \in 1 .. Len(file)
  BY <1>0, <1>2
<1>4. m - 1 \in Nat /\ m - 1 \in 0 .. Len(file) /\ i <= m - 1
  BY <1>0, <1>3
<1>5. End(file, i) <= End(file, m - 1)
  BY <1>1, <1>3, <1>4
<1>6. Start(file, m) \in Nat /\ End(file, m) \in Nat /\ Start(file, m) < End(file, m)
  BY <1>3, EndGrows
<1> QED
  BY <1>2, <1>5, <1>6 DEF Start

\* The line that a reader at pos is in.
LEMMA LineFound ==
    ASSUME NEW file \in Seq(Lines), NEW pos \in Nat, pos < Bytes(file)
    PROVE  /\ LineAt(file, pos) \in 1 .. Len(file)
           /\ Start(file, LineAt(file, pos)) <= pos
           /\ pos < End(file, LineAt(file, pos))
<1>0. Len(file) \in Nat /\ DOMAIN file = 1 .. Len(file)
  OBVIOUS
<1> DEFINE Beyond == {i \in 0 .. Len(file) : pos < End(file, i)}
<1>1. Len(file) \in Beyond
  BY <1>0 DEF Bytes
<1>2. PICK m \in Beyond : \A k \in Nat : k < m => k \notin Beyond
  <2> HIDE DEF Beyond
  <2>1. Beyond \subseteq Nat
    BY <1>0 DEF Beyond
  <2> QED
    BY <1>1, <2>1, LeastFailure
<1>3. m # 0 /\ m \in 1 .. Len(file)
  BY <1>0, EndUnfolds
<1>4. m - 1 \in Nat /\ m - 1 \in 0 .. Len(file) /\ m - 1 < m
  BY <1>0, <1>3
<1>5. ~(pos < End(file, m - 1)) /\ End(file, m - 1) \in Nat
  BY <1>2, <1>4, EndTypes
<1>6. Start(file, m) <= pos /\ pos < End(file, m)
  BY <1>5 DEF Start
<1> QED
  BY <1>0, <1>3, <1>6 DEF LineAt

\* The next n lines of two files, behind their first a and b, are equally long.
AlikeFrom(f, a, g, b, n) ==
    \A x \in 1 .. Len(f), y \in 1 .. Len(g) :
        x - a = y - b /\ x - a \in 1 .. n => LineBytes(f[x]) = LineBytes(g[y])

\* So they end at the same distance.
LEMMA SameDistance ==
    ASSUME NEW f \in Seq(Lines), NEW g \in Seq(Lines), NEW n \in Nat,
           NEW a \in 0 .. Len(f), NEW b \in 0 .. Len(g), n <= Len(f) - a, n <= Len(g) - b,
           AlikeFrom(f, a, g, b, n),
           NEW i \in 0 .. Len(f), NEW j \in 0 .. Len(g), i - a = j - b, i - a \in 0 .. n
    PROVE  End(f, i) + End(g, b) = End(g, j) + End(f, a)
<1>0. Len(f) \in Nat /\ Len(g) \in Nat
  OBVIOUS
<1> DEFINE Differ(x, y) == /\ x \in 0 .. Len(f) /\ y \in 0 .. Len(g)
                           /\ x - a = y - b /\ x - a \in 0 .. n
                           /\ End(f, x) + End(g, b) # End(g, y) + End(f, a)
           Bad == {x \in 0 .. Len(f) : \E y \in 0 .. Len(g) : Differ(x, y)}
<1>d. SUFFICES ASSUME Bad # {} PROVE FALSE
  BY <1>0
<1>1. PICK x \in Bad : \A k \in Nat : k < x => k \notin Bad
  <2> HIDE DEF Bad
  <2>1. Bad \subseteq Nat
    BY <1>0 DEF Bad
  <2> QED
    BY <1>d, <2>1, LeastFailure
<1>2. PICK y \in 0 .. Len(g) : Differ(x, y)
  OBVIOUS
<1>3. End(f, a) \in Nat /\ End(g, b) \in Nat
  BY EndTypes
<1>4. x # a
  <2>1. x = a => y = b
    BY <1>0, <1>2
  <2> QED
    BY <1>2, <1>3, <2>1
<1>5. /\ x \in 1 .. Len(f) /\ y \in 1 .. Len(g) /\ x - a \in 1 .. n
      /\ x - 1 \in Nat /\ x - 1 < x /\ x - 1 \in 0 .. Len(f) /\ y - 1 \in 0 .. Len(g)
      /\ (x - 1) - a = (y - 1) - b /\ (x - 1) - a \in 0 .. n /\ x - a = y - b
  BY <1>0, <1>2, <1>4
<1>6. End(f, x - 1) + End(g, b) = End(g, y - 1) + End(f, a)
  BY <1>1, <1>5
<1> HIDE DEF Bad
<1>7. /\ End(f, x) = End(f, x - 1) + LineBytes(f[x])
      /\ End(g, y) = End(g, y - 1) + LineBytes(g[y])
  BY <1>0, <1>5, EndUnfolds
<1>8. LineBytes(f[x]) = LineBytes(g[y])
  BY <1>5 DEF AlikeFrom
<1>9. End(f, x - 1) \in Nat /\ End(g, y - 1) \in Nat
  BY <1>5, EndTypes
<1>10. LineBytes(f[x]) \in Nat
  BY <1>5, LineHasBytes
<1>11. End(f, x) + End(g, b) = End(g, y) + End(f, a)
  <2>1. PICK p \in Nat, q \in Nat, r \in Nat, s \in Nat, w \in Nat :
            /\ p = End(f, x - 1) /\ q = End(g, b) /\ r = End(g, y - 1) /\ s = End(f, a)
            /\ w = LineBytes(f[x])
    BY <1>3, <1>9, <1>10
  <2>2. p + q = r + s
    BY <1>6, <2>1
  <2>3. (p + w) + q = (r + w) + s
    BY <2>2
  <2>4. End(f, x) = p + w /\ End(g, y) = r + w
    BY <1>7, <1>8, <2>1
  <2> QED
    BY <2>1, <2>3, <2>4
<1> QED
  BY <1>2, <1>11

LEMMA SameEnds ==
    ASSUME NEW f \in Seq(Lines), NEW g \in Seq(Lines), NEW n \in Nat, n <= Len(f), n <= Len(g),
           \A j \in 1 .. n : LineBytes(f[j]) = LineBytes(g[j])
    PROVE  \A j \in 0 .. n : End(f, j) = End(g, j)
<1> SUFFICES ASSUME NEW j \in 0 .. n PROVE End(f, j) = End(g, j)
  OBVIOUS
<1>0. PICK z : z = 0
  OBVIOUS
<1>1. /\ z \in 0 .. Len(f) /\ z \in 0 .. Len(g) /\ n <= Len(f) - z /\ n <= Len(g) - z
      /\ j \in 0 .. Len(f) /\ j \in 0 .. Len(g) /\ j - z \in 0 .. n
      /\ Len(f) \in Nat /\ Len(g) \in Nat
  BY <1>0
<1>2. AlikeFrom(f, z, g, z, n)
  BY <1>0, <1>1 DEF AlikeFrom
<1>3. End(f, j) + End(g, z) = End(g, j) + End(f, z)
  BY <1>1, <1>2, SameDistance
<1>4. End(f, z) = 0 /\ End(g, z) = 0 /\ End(f, j) \in Nat /\ End(g, j) \in Nat
  BY <1>0, <1>1, EndUnfolds, EndTypes
<1> QED
  BY <1>3, <1>4

-----------------------------------------------------------------------------
(* What a compaction keeps of a file, told line by line.                   *)

Filters(plan, file, n, f) ==
    f = [k \in 0 .. n |-> IF k = 0 THEN <<>>
                          ELSE IF Droppable(plan, file[k]) THEN f[k - 1]
                          ELSE Append(f[k - 1], file[k])]

LEMMA FilterExists ==
    ASSUME NEW plan, NEW file, NEW n \in Nat
    PROVE  \E f : Filters(plan, file, n, f)
<1> DEFINE Bad == {k \in Nat : ~ \E f : Filters(plan, file, k, f)}
<1> SUFFICES ASSUME Bad # {} PROVE FALSE
  OBVIOUS
<1>1. PICK m \in Bad : \A k \in Nat : k < m => k \notin Bad
  <2> HIDE DEF Bad
  <2>1. Bad \subseteq Nat
    BY DEF Bad
  <2> QED
    BY <2>1, LeastFailure
<1>2. CASE m = 0
  <2>1. Filters(plan, file, 0, [k \in 0 .. 0 |-> <<>>])
    BY DEF Filters
  <2> QED
    BY <1>2, <2>1
<1>3. CASE m > 0
  <2>1. m \in Nat /\ m - 1 \in Nat /\ m - 1 < m
    BY <1>3
  <2>2. PICK f : Filters(plan, file, m - 1, f)
    BY <1>1, <2>1
  <2> DEFINE Next(seq, k) == IF Droppable(plan, file[k]) THEN seq ELSE Append(seq, file[k])
  <2> DEFINE g == [k \in 0 .. m |-> IF k = m THEN Next(f[m - 1], m) ELSE f[k]]
  <2>4. \A k \in 0 .. m - 1 : f[k] = IF k = 0 THEN <<>> ELSE Next(f[k - 1], k)
    BY <2>2 DEF Filters
  <2> HIDE DEF Next
  <2>3. \A k \in 0 .. m : k # 0 => g[k - 1] = f[k - 1]
    BY <2>1
  <2>5. \A k \in 0 .. m : g[k] = IF k = 0 THEN <<>> ELSE Next(g[k - 1], k)
    BY <1>3, <2>1, <2>3, <2>4
  <2>6. g = [k \in 0 .. m |-> IF k = 0 THEN <<>> ELSE Next(g[k - 1], k)]
    BY <2>5
  <2>7. Filters(plan, file, m, g)
    BY <2>6 DEF Filters, Next
  <2> QED
    BY <2>7
<1> QED
  BY <1>2, <1>3

LEMMA KeptUnfolds ==
    ASSUME NEW plan, NEW file, Len(file) \in Nat
    PROVE  /\ Kept(plan, file)[0] = <<>>
           /\ \A i \in 1 .. Len(file) :
                 Kept(plan, file)[i] = IF Droppable(plan, file[i]) THEN Kept(plan, file)[i - 1]
                                       ELSE Append(Kept(plan, file)[i - 1], file[i])
<1>1. \E f : Filters(plan, file, Len(file), f)
  BY FilterExists
<1>2. Filters(plan, file, Len(file), Kept(plan, file))
  BY <1>1 DEF Filters, Kept
<1> DEFINE g == Kept(plan, file)
<1> DEFINE Next(seq, k) == IF Droppable(plan, file[k]) THEN seq ELSE Append(seq, file[k])
<1>3. g = [k \in 0 .. Len(file) |-> IF k = 0 THEN <<>> ELSE Next(g[k - 1], k)]
  BY <1>2 DEF Filters
<1> HIDE DEF g, Next
<1>4. g[0] = <<>> /\ \A k \in 1 .. Len(file) : g[k] = Next(g[k - 1], k)
  BY <1>3
<1> QED
  BY <1>4 DEF g, Next

\* An induction along a file.
LEMMA AlongFile ==
    ASSUME NEW S, NEW n \in Nat, NEW a \in 0 .. n, a \in S,
           \A k \in a + 1 .. n : k - 1 \in S => k \in S
    PROVE  \A k \in a .. n : k \in S
<1> DEFINE Bad == {k \in a .. n : k \notin S}
<1> SUFFICES ASSUME Bad # {} PROVE FALSE
  OBVIOUS
<1>1. PICK m \in Bad : \A k \in Nat : k < m => k \notin Bad
  <2> HIDE DEF Bad
  <2>1. Bad \subseteq Nat
    BY DEF Bad
  <2> QED
    BY <2>1, LeastFailure
<1>2. m # a /\ m \in a + 1 .. n /\ m - 1 \in Nat /\ m - 1 < m /\ m - 1 \in a .. n
  OBVIOUS
<1>3. m - 1 \in S
  BY <1>1, <1>2
<1> QED
  BY <1>2, <1>3

LEMMA KeptTypes ==
    ASSUME NEW plan, NEW L, NEW file \in Seq(L)
    PROVE  \A n \in 0 .. Len(file) : Kept(plan, file)[n] \in Seq(L)
<1> DEFINE S == {k \in 0 .. Len(file) : Kept(plan, file)[k] \in Seq(L)}
<1>0. PICK z : z = 0
  OBVIOUS
<1>1. Len(file) \in Nat /\ z \in 0 .. Len(file)
  BY <1>0
<1>2. z \in S
  <2>1. Kept(plan, file)[z] = <<>>
    BY <1>0, <1>1, KeptUnfolds
  <2>2. Kept(plan, file)[z] \in Seq(L)
    BY <2>1
  <2> QED
    BY <1>1, <2>2
<1>3. ASSUME NEW k \in z + 1 .. Len(file), k - 1 \in S PROVE k \in S
  <2>1. k \in 1 .. Len(file) /\ file[k] \in L
    BY <1>0, <1>1, ElementOfSeq
  <2>2. Kept(plan, file)[k] \in {Kept(plan, file)[k - 1], Append(Kept(plan, file)[k - 1], file[k])}
    BY <1>1, <2>1, KeptUnfolds
  <2>3. Kept(plan, file)[k - 1] \in Seq(L)
    BY <1>3
  <2> DEFINE most == Kept(plan, file)[k - 1]
  <2>4. Append(most, file[k]) \in Seq(L)
    <3> HIDE DEF most
    <3>1. most \in Seq(L)
      BY <2>3 DEF most
    <3>2. PICK l \in L : l = file[k]
      BY <2>1
    <3> QED
      BY <3>1, <3>2
  <2>5. Kept(plan, file)[k] \in Seq(L)
    <3> HIDE DEF most
    <3>1. Kept(plan, file)[k] \in {most, Append(most, file[k])} /\ most \in Seq(L)
      BY <2>2, <2>3 DEF most
    <3> QED
      BY <2>4, <3>1
  <2> QED
    BY <2>1, <2>5
<1>4. \A k \in z .. Len(file) : k \in S
  <2> HIDE DEF S
  <2> QED
    BY <1>1, <1>2, <1>3, AlongFile
<1> QED
  BY <1>0, <1>4

\* What is kept of more lines begins with what is kept of fewer; the rest of it
\* are lines that come later, and are not dropped.
Extends(plan, file, a, n) ==
    LET few == Kept(plan, file)[a]
        more == Kept(plan, file)[n]
    IN  /\ Len(few) <= Len(more)
        /\ \A j \in 1 .. Len(few) : more[j] = few[j]
        /\ \A j \in Len(few) + 1 .. Len(more) :
              \E i \in a + 1 .. n : more[j] = file[i] /\ ~Droppable(plan, file[i])

LEMMA KeptExtends ==
    ASSUME NEW plan, NEW L, NEW file \in Seq(L), NEW a \in 0 .. Len(file), NEW n \in a .. Len(file)
    PROVE  Extends(plan, file, a, n)
<1> DEFINE S == {k \in a .. Len(file) : Extends(plan, file, a, k)}
<1>1. Len(file) \in Nat
  OBVIOUS
<1>2. a \in S
  <2>1. Kept(plan, file)[a] \in Seq(L)
    BY KeptTypes
  <2>2. Len(Kept(plan, file)[a]) \in Nat
    BY <2>1
  <2> QED
    BY <1>1, <2>2 DEF Extends
<1>3. ASSUME NEW k \in a + 1 .. Len(file), k - 1 \in S PROVE k \in S
  <2>1. k \in 1 .. Len(file) /\ k - 1 \in 0 .. Len(file) /\ k - 1 \in a .. Len(file)
    BY <1>1
  <2> DEFINE few == Kept(plan, file)[a]
             most == Kept(plan, file)[k - 1]
             all == Kept(plan, file)[k]
  <2>2. few \in Seq(L) /\ most \in Seq(L) /\ all \in Seq(L)
    BY <1>1, <2>1, KeptTypes
  <2>3. all = IF Droppable(plan, file[k]) THEN most ELSE Append(most, file[k])
    BY <1>1, <2>1, KeptUnfolds
  <2>4. /\ Len(few) <= Len(most)
        /\ \A j \in 1 .. Len(few) : most[j] = few[j]
        /\ \A j \in Len(few) + 1 .. Len(most) :
              \E i \in a + 1 .. k - 1 : most[j] = file[i] /\ ~Droppable(plan, file[i])
    BY <1>3 DEF Extends
  <2> HIDE DEF few, most, all
  <2>5. Len(few) \in Nat /\ Len(most) \in Nat /\ a \in Nat /\ k \in Nat
    BY <1>1, <2>2
  <2>6. CASE Droppable(plan, file[k])
    <3>1. all = most
      BY <2>3, <2>6
    <3>2. \A i \in a + 1 .. k - 1 : i \in a + 1 .. k
      BY <2>5
    <3>3. /\ Len(few) <= Len(all)
          /\ \A j \in 1 .. Len(few) : all[j] = few[j]
          /\ \A j \in Len(few) + 1 .. Len(all) :
                \E i \in a + 1 .. k : all[j] = file[i] /\ ~Droppable(plan, file[i])
      BY <2>4, <3>1, <3>2
    <3> QED
      BY <2>1, <3>3 DEF Extends, few, all
  <2>7. CASE ~Droppable(plan, file[k])
    <3>1. all = Append(most, file[k])
      BY <2>3, <2>7
    <3>2. Len(all) = Len(most) + 1 /\ all[Len(most) + 1] = file[k]
          /\ \A j \in 1 .. Len(most) : all[j] = most[j]
      BY <2>2, <3>1
    <3>3. Len(few) <= Len(all) /\ \A j \in 1 .. Len(few) : all[j] = few[j]
      BY <2>4, <2>5, <3>2
    <3>4. ASSUME NEW j \in Len(few) + 1 .. Len(all)
          PROVE  \E i \in a + 1 .. k : all[j] = file[i] /\ ~Droppable(plan, file[i])
      <4>1. CASE j = Len(most) + 1
        BY <2>5, <2>7, <3>2, <4>1
      <4>2. CASE j # Len(most) + 1
        <5>1. j \in Len(few) + 1 .. Len(most) /\ j \in 1 .. Len(most)
          BY <2>5, <3>2, <4>2
        <5>2. PICK i \in a + 1 .. k - 1 : most[j] = file[i] /\ ~Droppable(plan, file[i])
          BY <2>4, <5>1
        <5> QED
          BY <2>5, <3>2, <5>1, <5>2
      <4> QED
        BY <4>1, <4>2
    <3> QED
      BY <2>1, <3>3, <3>4 DEF Extends, few, all
  <2> QED
    BY <2>6, <2>7
<1>4. \A k \in a .. Len(file) : k \in S
  <2> HIDE DEF S
  <2> QED
    BY <1>1, <1>2, <1>3, AlongFile
<1> QED
  BY <1>4

-----------------------------------------------------------------------------
(* A file that goes on from another.                                       *)

LEMMA LineKinds ==
    /\ \A l \in MainLine : l.kind \in {"evidence", "link"} /\ l.id \in ReceiptId /\ l.of \in Evidence
    /\ \A l \in UsageLine : l.kind = "usage" /\ l.id \in ReceiptId /\ l.fence \in Nat
    /\ \A l \in TornLine : l.kind \in {"torn", "ended"} /\ l.id \in ReceiptId
  BY DEF MainLine, UsageLine, TornLine

LEMMA TornToEnded ==
    ASSUME NEW old \in Lines, NEW l, SameOrEnded(l, old)
    PROVE  /\ l.id = old.id /\ LineBytes(l) = LineBytes(old)
           /\ \/ l = old
              \/ old.kind = "torn" /\ l.kind = "ended" /\ l \in TornLine
<1>1. CASE l = old
  BY <1>1
<1>2. CASE old.kind = "torn" /\ l = [old EXCEPT !.kind = "ended"]
  <2>1. old \in TornLine
    BY <1>2, LineKinds DEF Lines
  <2>2. l \in TornLine /\ l.kind = "ended" /\ l.id = old.id
    BY <1>2, <2>1 DEF TornLine
  <2>3. LineBytes(l) = 1 /\ LineBytes(old) = 1
    BY <1>2, <2>2 DEF LineBytes
  <2> QED
    BY <1>2, <2>2, <2>3
<1> QED
  BY <1>1, <1>2 DEF SameOrEnded

LEMMA ContinuesEnds ==
    ASSUME NEW file \in Seq(Lines), NEW old \in Seq(Lines), Continues(file, old)
    PROVE  \A i \in 0 .. Len(old) : End(file, i) = End(old, i)
<1>1. Len(old) \in Nat /\ Len(old) <= Len(file)
  BY DEF Continues
<1>2. ASSUME NEW i \in 1 .. Len(old) PROVE LineBytes(file[i]) = LineBytes(old[i])
  <2>1. old[i] \in Lines
    BY ElementOfSeq
  <2>2. SameOrEnded(file[i], old[i])
    BY DEF Continues
  <2> QED
    BY <2>1, <2>2, TornToEnded
<1> QED
  BY <1>1, <1>2, SameEnds

\* One who finds a torn line ends it: only the last line may have been torn.
LEMMA TornIsEnded ==
    ASSUME NEW X \in {MainLine, UsageLine}, NEW file \in Seq(X \cup TornLine)
    PROVE  /\ EndTorn(file) \in Seq(X \cup TornLine) /\ Len(EndTorn(file)) = Len(file)
           /\ \A i \in 1 .. Len(file) : /\ SameOrEnded(EndTorn(file)[i], file[i])
                                        /\ i = Len(file) => EndTorn(file)[i].kind # "torn"
                                        /\ i # Len(file) => EndTorn(file)[i] = file[i]
<1>0. Len(file) \in Nat /\ DOMAIN file = 1 .. Len(file) /\ X \subseteq Lines /\ TornLine \subseteq Lines
  BY DEF Lines
<1>1. CASE file # <<>> /\ Last(file).kind = "torn"
  <2> DEFINE n == Len(file)
             ended == [file[n] EXCEPT !.kind = "ended"]
  <2>1. n \in 1 .. n /\ file[n] \in X \cup TornLine /\ file[n].kind = "torn"
    BY <1>0, <1>1, ElementOfSeq DEF Last
  <2>2. file[n] \in TornLine
    BY <2>1, LineKinds
  <2>3. ended \in TornLine /\ ended.kind = "ended"
    BY <2>2 DEF TornLine
  <2>4. EndTorn(file) = [file EXCEPT ![n] = ended]
    BY <1>1 DEF EndTorn
  <2>5. SameOrEnded(ended, file[n])
    BY <2>1 DEF SameOrEnded
  <2>6. \A i \in 1 .. n : SameOrEnded(file[i], file[i])
    BY DEF SameOrEnded
  <2> HIDE DEF ended
  <2>7. EndTorn(file) \in Seq(X \cup TornLine) /\ Len(EndTorn(file)) = n
    BY <2>1, <2>3, <2>4
  <2>8. EndTorn(file)[n] = ended /\ \A i \in 1 .. n : i # n => EndTorn(file)[i] = file[i]
    BY <1>0, <2>1, <2>4
  <2>9. ASSUME NEW i \in 1 .. n
        PROVE  /\ SameOrEnded(EndTorn(file)[i], file[i])
               /\ i = n => EndTorn(file)[i].kind # "torn"
               /\ i # n => EndTorn(file)[i] = file[i]
    BY <2>3, <2>5, <2>6, <2>8
  <2> QED
    BY <2>7, <2>9
<1>2. CASE ~(file # <<>> /\ Last(file).kind = "torn")
  <2>1. EndTorn(file) = file
    BY <1>2 DEF EndTorn
  <2>2. \A i \in 1 .. Len(file) : SameOrEnded(file[i], file[i])
    BY DEF SameOrEnded
  <2>3. \A i \in 1 .. Len(file) : i = Len(file) => file[i].kind # "torn"
    BY <1>0, <1>2 DEF Last
  <2> QED
    BY <2>1, <2>2, <2>3
<1> QED
  BY <1>1, <1>2

\* What a file looks like behind a write.
Grown(new, file, l) ==
    /\ Len(new) = Len(file) + 1 /\ new[Len(file) + 1] = l
    /\ \A i \in 1 .. Len(file) : /\ SameOrEnded(new[i], file[i])
                                 /\ i = Len(file) => new[i].kind # "torn"
                                 /\ i # Len(file) => new[i] = file[i]

LEMMA AppendGrows ==
    ASSUME NEW X \in {MainLine, UsageLine}, NEW file \in Seq(X \cup TornLine), NEW l \in X \cup TornLine
    PROVE  Append1(file, l) \in Seq(X \cup TornLine) /\ Grown(Append1(file, l), file, l)
<1>1. /\ EndTorn(file) \in Seq(X \cup TornLine) /\ Len(EndTorn(file)) = Len(file)
      /\ \A i \in 1 .. Len(file) : /\ SameOrEnded(EndTorn(file)[i], file[i])
                                   /\ i = Len(file) => EndTorn(file)[i].kind # "torn"
                                   /\ i # Len(file) => EndTorn(file)[i] = file[i]
  BY TornIsEnded
<1> DEFINE old == EndTorn(file)
<1>2. Append1(file, l) = Append(old, l)
  BY DEF Append1
<1> HIDE DEF old
<1>3. old \in Seq(X \cup TornLine) /\ Len(old) = Len(file)
  BY <1>1 DEF old
<1>4. /\ Append(old, l) \in Seq(X \cup TornLine) /\ Len(Append(old, l)) = Len(file) + 1
      /\ Append(old, l)[Len(file) + 1] = l
      /\ \A i \in 1 .. Len(file) : Append(old, l)[i] = old[i]
  BY <1>3
<1> QED
  BY <1>1, <1>2, <1>4 DEF Grown, old

LEMMA GrownEnds ==
    ASSUME NEW file \in Seq(Lines), NEW new \in Seq(Lines), NEW l, Grown(new, file, l)
    PROVE  /\ Continues(new, file)
           /\ \A i \in 0 .. Len(file) : End(new, i) = End(file, i)
           /\ End(new, Len(file)) = Bytes(file)
           /\ Bytes(new) = End(new, Len(file) + 1) /\ Bytes(file) < Bytes(new)
<1>0. Len(file) \in Nat /\ Len(new) = Len(file) + 1
  BY DEF Grown
<1>1. Continues(new, file)
  BY <1>0 DEF Grown, Continues
<1>2. \A i \in 0 .. Len(file) : End(new, i) = End(file, i)
  BY <1>1, ContinuesEnds
<1>3. Start(new, Len(file) + 1) = Bytes(file)
  BY <1>0, <1>2 DEF Start, Bytes
<1>4. Start(new, Len(file) + 1) < End(new, Len(file) + 1)
  BY <1>0, EndGrows
<1> QED
  BY <1>0, <1>1, <1>2, <1>3, <1>4 DEF Bytes

-----------------------------------------------------------------------------
(* Replays.                                                                *)

Further(m, u, set) == set \cup UNION {ReplayStep(m, u, s) : s \in set}
Furthers(m, u, r, n, f) ==
    f = [k \in 0 .. n |-> IF k = 0 THEN {r} ELSE Further(m, u, f[k - 1])]

LEMMA ReplayExists ==
    ASSUME NEW m, NEW u, NEW r, NEW n \in Nat
    PROVE  \E f : Furthers(m, u, r, n, f)
<1> DEFINE Bad == {k \in Nat : ~ \E f : Furthers(m, u, r, k, f)}
<1> SUFFICES ASSUME Bad # {} PROVE FALSE
  OBVIOUS
<1>1. PICK x \in Bad : \A k \in Nat : k < x => k \notin Bad
  <2> HIDE DEF Bad
  <2>1. Bad \subseteq Nat
    BY DEF Bad
  <2> QED
    BY <2>1, LeastFailure
<1>2. CASE x = 0
  <2>1. Furthers(m, u, r, 0, [k \in 0 .. 0 |-> {r}])
    BY DEF Furthers
  <2> QED
    BY <1>2, <2>1
<1>3. CASE x > 0
  <2>1. x \in Nat /\ x - 1 \in Nat /\ x - 1 < x
    BY <1>3
  <2>2. PICK f : Furthers(m, u, r, x - 1, f)
    BY <1>1, <2>1
  <2> DEFINE g == [k \in 0 .. x |-> IF k = x THEN Further(m, u, f[x - 1]) ELSE f[k]]
  <2>3. \A k \in 0 .. x : k # 0 => g[k - 1] = f[k - 1]
    BY <2>1
  <2>4. \A k \in 0 .. x - 1 : f[k] = IF k = 0 THEN {r} ELSE Further(m, u, f[k - 1])
    BY <2>2 DEF Furthers
  <2>5. ASSUME NEW k \in 0 .. x PROVE g[k] = IF k = 0 THEN {r} ELSE Further(m, u, g[k - 1])
    <3>1. CASE k = x
      <4>1. g[k] = Further(m, u, f[x - 1]) /\ g[k - 1] = f[x - 1] /\ k # 0
        BY <1>3, <2>1, <2>3, <3>1
      <4> HIDE DEF g
      <4> QED
        BY <4>1
    <3>2. CASE k # x
      <4>1. g[k] = f[k] /\ k \in 0 .. x - 1 /\ (k # 0 => g[k - 1] = f[k - 1])
        BY <1>3, <2>1, <2>3, <3>2
      <4> HIDE DEF g
      <4> QED
        BY <2>4, <4>1
    <3> QED
      BY <3>1, <3>2
  <2>6. Furthers(m, u, r, x, g)
    BY <2>5 DEF Furthers
  <2> QED
    BY <2>6
<1> QED
  BY <1>2, <1>3

\* A replay stays in any set that none of its steps leaves.
LEMMA ReplayStays ==
    ASSUME NEW m, NEW u, Len(m) \in Nat, Len(u) \in Nat, NEW Good, NEW r \in Good,
           \A s \in Good : ReplayStep(m, u, s) \subseteq Good
    PROVE  Replays(m, u, r) \subseteq Good
<1> DEFINE n == Len(m) + Len(u) + 1
           g == Reached(m, u, r)
<1>1. n \in Nat
  OBVIOUS
<1>2. Furthers(m, u, r, n, g)
  <2>1. \E f : Furthers(m, u, r, n, f)
    BY <1>1, ReplayExists
  <2> QED
    BY <2>1 DEF Furthers, Further, Reached
<1>3. g[0] = {r} /\ \A k \in 1 .. n : g[k] = Further(m, u, g[k - 1])
  <2> HIDE DEF g, n
  <2>1. g = [k \in 0 .. n |-> IF k = 0 THEN {r} ELSE Further(m, u, g[k - 1])]
    BY <1>2 DEF Furthers
  <2>2. \A k \in 0 .. n : g[k] = IF k = 0 THEN {r} ELSE Further(m, u, g[k - 1])
    BY <2>1
  <2> QED
    BY <1>1, <2>2
<1> DEFINE S == {k \in 0 .. n : g[k] \subseteq Good}
<1>4. PICK z : z = 0
  OBVIOUS
<1>5. z \in 0 .. n /\ z \in S
  BY <1>1, <1>3, <1>4
<1>6. ASSUME NEW k \in z + 1 .. n, k - 1 \in S PROVE k \in S
  <2>1. g[k] = Further(m, u, g[k - 1]) /\ g[k - 1] \subseteq Good /\ k \in 0 .. n
    <3> HIDE DEF g, n
    <3>1. k \in 1 .. n
      BY <1>1, <1>4
    <3> QED
      BY <1>3, <1>6, <3>1
  <2> HIDE DEF g, n
  <2>2. \A s \in g[k - 1] : ReplayStep(m, u, s) \subseteq Good
    BY <2>1
  <2>3. g[k] \subseteq Good
    BY <2>1, <2>2 DEF Further
  <2> QED
    BY <2>1, <2>3
<1>7. \A k \in z .. n : k \in S
  <2> HIDE DEF S, n
  <2> QED
    BY <1>1, <1>5, <1>6, AlongFile
<1>8. n \in z .. n
  BY <1>1, <1>4
<1> QED
  BY <1>7, <1>8 DEF Replays

\* One line of a file is read from pos: p becomes q.
Reads(file, i, pos, p, q) ==
    /\ i \in 1 .. Len(file) /\ Start(file, i) <= pos /\ pos < End(file, i)
    /\ q \in Projected(p, file, i, pos)

ReadsMain(m, r, s) ==
    \E i \in 1 .. Len(m) :
        /\ Reads(m, i, r.main, r.proj, s.proj)
        /\ s.main = End(m, i) /\ s.usage = r.usage
ReadsUsage(u, r, s) ==
    \E i \in 1 .. Len(u) :
        /\ Reads(u, i, r.usage, r.proj, s.proj)
        /\ s.usage = End(u, i) /\ s.main = r.main
Raises(r, s) == s.raised /\ s.main = r.main /\ s.usage = r.usage /\ s.proj = r.proj

ReplayState(m, u) ==
    [main : 0 .. Bytes(m), usage : 0 .. Bytes(u), proj : Projections, raised : BOOLEAN]

LEMMA ErrorAdded ==
    ASSUME NEW p, p = [receipts |-> p.receipts, batches |-> p.batches, errors |-> p.errors], NEW e
    PROVE  [p EXCEPT !.errors = @ \cup {e}]
              = [receipts |-> p.receipts, batches |-> p.batches, errors |-> p.errors \cup {e}]
  OBVIOUS

\* What a line does to a projection.
LEMMA ProjectedTypes ==
    ASSUME NEW X \in {MainLine, UsageLine}, NEW file \in Seq(X \cup TornLine), NEW i \in 1 .. Len(file),
           NEW pos, NEW p \in Projections, NEW q \in Projected(p, file, i, pos)
    PROVE  /\ q \in Projections
           /\ p.receipts \subseteq q.receipts /\ p.batches \subseteq q.batches /\ p.errors \subseteq q.errors
           /\ \A l \in q.receipts : l \in p.receipts \/ (l = file[i] /\ l.kind # "usage")
           /\ \A id \in q.batches : id \in p.batches \/ (id = file[i].id /\ file[i].kind = "usage")
           /\ \A e \in q.errors : e \in p.errors \/ e[1] = file[i].id
           /\ Valid(file, i, pos) => Answers(q, file[i].id)
<1> DEFINE l == file[i]
<1>1. l \in X \cup TornLine /\ l.id \in ReceiptId
  BY ElementOfSeq, LineKinds
<1>2. /\ p.receipts \subseteq MainLine /\ p.batches \subseteq ReceiptId
      /\ p.errors \subseteq ReceiptId \X ErrorWhy
      /\ p = [receipts |-> p.receipts, batches |-> p.batches, errors |-> p.errors]
  BY DEF Projections
<1> DEFINE Claim(s) ==
        /\ s \in Projections
        /\ p.receipts \subseteq s.receipts /\ p.batches \subseteq s.batches /\ p.errors \subseteq s.errors
        /\ \A k \in s.receipts : k \in p.receipts \/ (k = l /\ k.kind # "usage")
        /\ \A id \in s.batches : id \in p.batches \/ (id = l.id /\ l.kind = "usage")
        /\ \A e \in s.errors : e \in p.errors \/ e[1] = l.id
<1>3. ASSUME NEW why \in ErrorWhy PROVE Claim(Failed(p, l, why)) /\ <<l.id, why>> \in Failed(p, l, why).errors
  <2>1. Failed(p, l, why) = [receipts |-> p.receipts, batches |-> p.batches, errors |-> p.errors \cup {<<l.id, why>>}]
    <3>1. PICK e : e = <<l.id, why>>
      OBVIOUS
    <3>2. [p EXCEPT !.errors = @ \cup {e}] = [receipts |-> p.receipts, batches |-> p.batches, errors |-> p.errors \cup {e}]
      BY <1>2, ErrorAdded
    <3>3. Failed(p, l, why) = [p EXCEPT !.errors = @ \cup {e}]
      BY <3>1 DEF Failed
    <3> QED
      BY <3>1, <3>2, <3>3
  <2>2. <<l.id, why>> \in ReceiptId \X ErrorWhy /\ <<l.id, why>>[1] = l.id
    BY <1>1
  <2> HIDE DEF l
  <2> QED
    BY <1>2, <2>1, <2>2 DEF Projections
<1>4. Claim(p)
  OBVIOUS
<1>5. ASSUME l.kind \notin {"torn", "ended"}
      PROVE  Claim(Holding(p, l)) /\ Answers(Holding(p, l), l.id)
  <2>0. l \in X
    BY <1>1, <1>5, LineKinds
  <2>1. CASE l.kind = "usage"
    <3>1. Holding(p, l) = [receipts |-> p.receipts, batches |-> p.batches \cup {l.id}, errors |-> p.errors]
      BY <1>2, <2>1 DEF Holding, WithBatch
    <3> HIDE DEF l
    <3> QED
      BY <1>1, <1>2, <2>1, <3>1 DEF Projections, Answers
  <2>2. CASE l.kind # "usage"
    <3>1. Holding(p, l) = [receipts |-> p.receipts \cup {l}, batches |-> p.batches, errors |-> p.errors]
      BY <1>2, <2>2 DEF Holding, WithReceipt
    <3>2. l \in MainLine
      BY <2>0, <2>2, LineKinds
    <3> HIDE DEF l
    <3> QED
      BY <1>1, <1>2, <2>2, <3>1, <3>2 DEF Projections, Answers
  <2> QED
    BY <2>1, <2>2
<1>6. CASE ~Valid(file, i, pos)
  <2>1. q = Failed(p, l, "invalid")
    BY <1>6 DEF Projected
  <2> QED
    BY <1>3, <1>6, <2>1 DEF ErrorWhy
<1>7. CASE Valid(file, i, pos)
  <2>1. l.kind \notin {"torn", "ended"}
    BY <1>7 DEF Valid
  <2>2. \/ q = p /\ Already(p, l)
        \/ q = Holding(p, l)
        \/ q = Failed(p, l, "refused")
    BY <1>7 DEF Projected, Refusals
  <2>3. Already(p, l) => Answers(p, l.id)
    BY DEF Already, Answers
  <2>4. Answers(Failed(p, l, "refused"), l.id) /\ Claim(Failed(p, l, "refused"))
    BY <1>3 DEF Answers, ErrorWhy
  <2>5. Claim(q) /\ Answers(q, l.id)
    <3> HIDE DEF l, Claim
    <3> QED
      BY <1>4, <1>5, <2>1, <2>2, <2>3, <2>4
  <2> QED
    BY <2>5
<1> QED
  BY <1>6, <1>7

LEMMA MainStepReads ==
    ASSUME NEW m \in MainFile, NEW u \in UsageFile, NEW r \in ReplayState(m, u), r.main < Bytes(m),
           ~r.raised
    PROVE  /\ MainStep(m, r) # {}
           /\ \A s \in MainStep(m, r) : s \in ReplayState(m, u) /\ ReadsMain(m, r, s)
<1> DEFINE i == LineAt(m, r.main)
<1>0. /\ m \in Seq(Lines) /\ u \in Seq(Lines) /\ m \in Seq(MainLine \cup TornLine)
  BY FilesHaveLines DEF MainFile
<1>1. Bytes(m) \in Nat /\ Bytes(u) \in Nat
  BY <1>0, EndTypes DEF Bytes
<1>2. r.main \in Nat /\ r.proj \in Projections /\ r.usage \in 0 .. Bytes(u)
  BY <1>1 DEF ReplayState
<1>3. i \in 1 .. Len(m) /\ Start(m, i) <= r.main /\ r.main < End(m, i)
  BY <1>0, <1>1, <1>2, LineFound
<1>4. End(m, i) \in 0 .. Bytes(m)
  <2>1. Len(m) \in Nat /\ i \in 0 .. Len(m) /\ Len(m) \in 0 .. Len(m) /\ i <= Len(m)
    BY <1>0, <1>3
  <2>2. End(m, i) \in Nat /\ End(m, i) <= End(m, Len(m))
    BY <1>0, <2>1, EndTypes, EndMonotonic
  <2> QED
    BY <1>1, <2>2 DEF Bytes
<1> HIDE DEF i
<1>5. MainStep(m, r) = {[r EXCEPT !.main = End(m, i), !.proj = p] : p \in Projected(r.proj, m, i, r.main)}
  BY DEF MainStep, i
<1>6. Projected(r.proj, m, i, r.main) # {}
  BY DEF Projected
<1>7. ASSUME NEW p \in Projected(r.proj, m, i, r.main), NEW s, s = [r EXCEPT !.main = End(m, i), !.proj = p]
      PROVE  s \in ReplayState(m, u) /\ ReadsMain(m, r, s)
  <2>1. p \in Projections
    BY <1>0, <1>2, <1>3, ProjectedTypes
  <2>2. s.main = End(m, i) /\ s.proj = p /\ s.usage = r.usage /\ s \in ReplayState(m, u)
    BY <1>4, <1>7, <2>1 DEF ReplayState
  <2> QED
    BY <1>3, <1>7, <2>2 DEF ReadsMain, Reads
<1> QED
  BY <1>5, <1>6, <1>7

LEMMA UsageStepReads ==
    ASSUME NEW m \in MainFile, NEW u \in UsageFile, NEW r \in ReplayState(m, u), r.usage < Bytes(u),
           ~r.raised
    PROVE  /\ UsageStep(m, u, r) # {}
           /\ \A s \in UsageStep(m, u, r) :
                 s \in ReplayState(m, u) /\ (ReadsMain(m, r, s) \/ ReadsUsage(u, r, s) \/ Raises(r, s))
<1> DEFINE i == LineAt(u, r.usage)
           whole == Valid(u, i, r.usage)
<1>0. /\ m \in Seq(Lines) /\ u \in Seq(Lines) /\ u \in Seq(UsageLine \cup TornLine)
  BY FilesHaveLines DEF UsageFile
<1>1. Bytes(m) \in Nat /\ Bytes(u) \in Nat
  BY <1>0, EndTypes DEF Bytes
<1>2. r.usage \in Nat /\ r.main \in Nat /\ r.proj \in Projections
  BY <1>1 DEF ReplayState
<1>3. i \in 1 .. Len(u) /\ Start(u, i) <= r.usage /\ r.usage < End(u, i)
  BY <1>0, <1>1, <1>2, LineFound
<1>4. End(u, i) \in 0 .. Bytes(u)
  <2>1. Len(u) \in Nat /\ i \in 0 .. Len(u) /\ Len(u) \in 0 .. Len(u) /\ i <= Len(u)
    BY <1>0, <1>3
  <2>2. End(u, i) \in Nat /\ End(u, i) <= End(u, Len(u))
    BY <1>0, <2>1, EndTypes, EndMonotonic
  <2> QED
    BY <1>1, <2>2 DEF Bytes
<1> DEFINE reads == {[r EXCEPT !.usage = End(u, i), !.proj = p] : p \in Projected(r.proj, u, i, r.usage)}
<1>5. UsageStep(m, u, r) =
        IF whole /\ Misfenced(m, r, u[i]) THEN {[r EXCEPT !.raised = TRUE]}
        ELSE IF whole /\ r.main < u[i].fence THEN MainStep(m, r)
        ELSE reads
  BY DEF UsageStep
<1> HIDE DEF i
<1>6. CASE whole /\ Misfenced(m, r, u[i])
  <2>1. UsageStep(m, u, r) = {[r EXCEPT !.raised = TRUE]}
    BY <1>5, <1>6
  <2>2. ASSUME NEW s, s = [r EXCEPT !.raised = TRUE] PROVE s \in ReplayState(m, u) /\ Raises(r, s)
    BY <2>2 DEF ReplayState, Raises
  <2> QED
    BY <2>1, <2>2
<1>7. CASE whole /\ ~Misfenced(m, r, u[i]) /\ r.main < u[i].fence
  <2>1. UsageStep(m, u, r) = MainStep(m, r)
    BY <1>5, <1>7
  <2>2. u[i] \in UsageLine
    <3>1. u[i] \in UsageLine \cup TornLine /\ u[i].kind \notin {"torn", "ended"}
      BY <1>0, <1>3, <1>7, ElementOfSeq DEF Valid
    <3> QED
      BY <3>1, LineKinds
  <2>3. u[i].fence \in Nat /\ ~(u[i].fence > Bytes(m))
    BY <1>7, <2>2, LineKinds DEF Misfenced
  <2>4. r.main < Bytes(m)
    BY <1>1, <1>2, <1>7, <2>3
  <2> QED
    BY <2>1, <2>4, MainStepReads
<1>8. CASE ~(whole /\ Misfenced(m, r, u[i])) /\ ~(whole /\ r.main < u[i].fence)
  <2>1. UsageStep(m, u, r) = reads
    BY <1>5, <1>8
  <2>2. Projected(r.proj, u, i, r.usage) # {}
    BY DEF Projected
  <2>3. ASSUME NEW p \in Projected(r.proj, u, i, r.usage), NEW s, s = [r EXCEPT !.usage = End(u, i), !.proj = p]
        PROVE  s \in ReplayState(m, u) /\ ReadsUsage(u, r, s)
    <3>1. p \in Projections
      BY <1>0, <1>2, <1>3, ProjectedTypes
    <3>2. s.usage = End(u, i) /\ s.proj = p /\ s.main = r.main /\ s \in ReplayState(m, u)
      BY <1>4, <2>3, <3>1 DEF ReplayState
    <3> QED
      BY <1>3, <2>3, <3>2 DEF ReadsUsage, Reads
  <2> QED
    BY <2>1, <2>2, <2>3
<1> QED
  BY <1>6, <1>7, <1>8

\* A step reads a line or raises, and there is one until all is read.
LEMMA ReplayStepReads ==
    ASSUME NEW m \in MainFile, NEW u \in UsageFile, NEW r \in ReplayState(m, u)
    PROVE  /\ \A s \in ReplayStep(m, u, r) :
                 s \in ReplayState(m, u) /\ (ReadsMain(m, r, s) \/ ReadsUsage(u, r, s) \/ Raises(r, s))
           /\ ReplayStep(m, u, r) = {} => r.raised \/ (r.main = Bytes(m) /\ r.usage = Bytes(u))
<1>1. Bytes(m) \in Nat /\ Bytes(u) \in Nat
  BY FilesHaveLines, EndTypes DEF Bytes
<1>2. r.main \in 0 .. Bytes(m) /\ r.usage \in 0 .. Bytes(u)
  BY DEF ReplayState
<1>3. CASE r.raised
  BY <1>3 DEF ReplayStep
<1>4. CASE ~r.raised /\ r.usage < Bytes(u)
  <2>1. ReplayStep(m, u, r) = UsageStep(m, u, r)
    BY <1>4 DEF ReplayStep
  <2> QED
    BY <1>4, <2>1, UsageStepReads
<1>5. CASE ~r.raised /\ ~(r.usage < Bytes(u)) /\ r.main < Bytes(m)
  <2>1. ReplayStep(m, u, r) = MainStep(m, r)
    BY <1>5 DEF ReplayStep
  <2> QED
    BY <1>5, <2>1, MainStepReads
<1>6. CASE ~r.raised /\ ~(r.usage < Bytes(u)) /\ ~(r.main < Bytes(m))
  <2>1. ReplayStep(m, u, r) = {}
    BY <1>6 DEF ReplayStep
  <2>2. r.main = Bytes(m) /\ r.usage = Bytes(u)
    BY <1>1, <1>2, <1>6
  <2> QED
    BY <2>1, <2>2
<1> QED
  BY <1>3, <1>4, <1>5, <1>6

-----------------------------------------------------------------------------
(* What every line that is replayed keeps.                                 *)

LEMMA FilesTypes ==
    ASSUME SpoolTypes
    PROVE  /\ main \in MainFile /\ main \in Seq(MainLine \cup TornLine) /\ main \in Seq(Lines)
           /\ usage \in UsageFile /\ usage \in Seq(UsageLine \cup TornLine) /\ usage \in Seq(Lines)
           /\ Len(main) \in Nat /\ Len(usage) \in Nat /\ Bytes(main) \in Nat /\ Bytes(usage) \in Nat
           /\ \A i \in 1 .. Len(main) : main[i] \in MainLine \cup TornLine /\ main[i].id \in Nat
           /\ \A b \in 1 .. Len(usage) : usage[b] \in UsageLine \cup TornLine /\ usage[b].id \in Nat
<1>1. /\ main \in MainFile /\ main \in Seq(MainLine \cup TornLine) /\ main \in Seq(Lines)
      /\ usage \in UsageFile /\ usage \in Seq(UsageLine \cup TornLine) /\ usage \in Seq(Lines)
  BY FilesHaveLines DEF SpoolTypes, MainFile, UsageFile
<1>2. Len(main) \in Nat /\ Len(usage) \in Nat /\ Bytes(main) \in Nat /\ Bytes(usage) \in Nat
  BY <1>1, EndTypes DEF Bytes
<1>3. \A i \in 1 .. Len(main) : main[i] \in MainLine \cup TornLine /\ main[i].id \in Nat
  BY <1>1, ElementOfSeq, LineKinds DEF ReceiptId
<1>4. \A b \in 1 .. Len(usage) : usage[b] \in UsageLine \cup TornLine /\ usage[b].id \in Nat
  BY <1>1, ElementOfSeq, LineKinds DEF ReceiptId
<1> QED
  BY <1>1, <1>2, <1>3, <1>4

\* A receipt is one line.
LEMMA SameLine ==
    ASSUME SpoolTypes, OrderInv, NEW i \in 1 .. Len(main), NEW j \in 1 .. Len(main), main[i].id = main[j].id
    PROVE  i = j
<1>1. main[i].id \in Nat
  BY FilesTypes
<1>2. i < j => main[i].id < main[j].id
  BY DEF OrderInv, Ordered
<1>3. j < i => main[j].id < main[i].id
  BY DEF OrderInv, Ordered
<1>4. Len(main) \in Nat
  BY FilesTypes
<1> QED
  BY <1>1, <1>2, <1>3, <1>4

\* Everything up to the line that was just read is passed.
LEMMA PassedOn ==
    ASSUME NEW X \in {MainLine, UsageLine}, NEW file \in Seq(X \cup TornLine),
           \A j \in 1 .. Len(file) : file[j].kind = "torn" => j = Len(file),
           \A j \in 1 .. Len(file) : file[j].kind \in {"torn", "ended"} => file[j].id \notin acked,
           NEW p \in Projections, NEW pos \in Nat, NEW i, NEW q, Reads(file, i, pos, p, q),
           AtLine(file, pos), Passed(file, pos, p)
    PROVE  AtLine(file, End(file, i)) /\ Passed(file, End(file, i), q)
<1>0. file \in Seq(Lines) /\ Len(file) \in Nat
  <2>1. X \cup TornLine \subseteq Lines
    BY DEF Lines
  <2> QED
    BY <2>1, SeqMonotonic
<1>1. /\ i \in 1 .. Len(file) /\ Start(file, i) <= pos /\ pos < End(file, i)
      /\ q \in Projected(p, file, i, pos)
  BY DEF Reads
<1>2. /\ p.receipts \subseteq q.receipts /\ p.batches \subseteq q.batches /\ p.errors \subseteq q.errors
      /\ Valid(file, i, pos) => Answers(q, file[i].id)
  BY <1>1, ProjectedTypes
<1>3. Start(file, i) \in Nat /\ End(file, i) \in Nat /\ Start(file, i) = End(file, i - 1)
  BY <1>0, <1>1, EndGrows DEF Start
<1>4. Start(file, i) = pos
  <2>1. PICK k \in 0 .. Len(file) : End(file, k) = pos
    BY DEF AtLine
  <2>2. i \in 0 .. Len(file) /\ i - 1 \in 0 .. Len(file)
    BY <1>0, <1>1
  <2>3. k <= i - 1 => End(file, k) <= End(file, i - 1)
    BY <1>0, <2>2, EndMonotonic
  <2>4. i <= k => End(file, i) <= End(file, k)
    BY <1>0, <2>2, EndMonotonic
  <2> QED
    BY <1>0, <1>1, <1>3, <2>1, <2>3, <2>4
<1>5. ASSUME NEW j \in 1 .. Len(file), file[j].id \in acked, End(file, j) <= End(file, i)
      PROVE  Answers(q, file[j].id)
  <2>1. CASE j = i
    <3>1. file[i].kind \notin {"torn", "ended"}
      BY <1>5, <2>1
    <3>2. i > 1 => file[i - 1].kind # "torn"
      BY <1>0, <1>1
    <3> QED
      BY <1>2, <1>4, <2>1, <3>1, <3>2 DEF Valid
  <2>2. CASE j < i
    <3>1. j \in 0 .. Len(file) /\ i - 1 \in 0 .. Len(file) /\ j <= i - 1
      BY <1>0, <1>1, <2>2
    <3>2. End(file, j) <= End(file, i - 1)
      BY <1>0, <3>1, EndMonotonic
    <3>3. End(file, j) <= pos
      BY <1>3, <1>4, <3>2
    <3>4. Answers(p, file[j].id)
      BY <1>5, <3>3 DEF Passed
    <3> QED
      BY <1>2, <3>4 DEF Answers
  <2>3. CASE j > i
    <3>1. i \in 0 .. Len(file) /\ j - 1 \in 0 .. Len(file) /\ i <= j - 1
      BY <1>0, <1>1, <2>3
    <3>2. End(file, i) <= End(file, j - 1)
      BY <1>0, <3>1, EndMonotonic
    <3>3. Start(file, j) \in Nat /\ End(file, j) \in Nat /\ Start(file, j) < End(file, j)
      BY <1>0, EndGrows
    <3> QED
      BY <1>3, <1>5, <3>2, <3>3 DEF Start
  <2> QED
    BY <1>0, <1>1, <2>1, <2>2, <2>3
<1>6. i \in 0 .. Len(file)
  BY <1>0, <1>1
<1> QED
  BY <1>5, <1>6 DEF AtLine, Passed

\* A projection that holds more, all of it on the spools, and at most as far as
\* the replay goes answers for as much.
LEMMA ReadKeeps ==
    ASSUME FilesInv, NEW p, NEW mp, NEW up, ProjInv(p, mp, up), NEW q \in Projections,
           p.receipts \subseteq q.receipts, p.batches \subseteq q.batches, p.errors \subseteq q.errors,
           \A l \in q.receipts : l \in p.receipts \/ \E i \in 1 .. Len(main) : l = main[i] /\ mp < End(main, i),
           \A id \in q.batches : id \in p.batches \/ \E b \in 1 .. Len(usage) : id = usage[b].id
    PROVE  ProjInv(q, mp, up)
<1>0. SpoolTypes /\ OrderInv /\ AckedInv
  BY DEF FilesInv
<1>1. /\ p \in Projections /\ mp \in 0 .. Bytes(main) /\ up \in 0 .. Bytes(usage)
      /\ Backed(p) /\ PrunedBehind(p, mp) /\ Answering(p, mp, up) /\ PlansHold(p, mp)
  BY DEF ProjInv
<1>2. Backed(q)
  BY <1>1 DEF Backed
<1>3. \A i \in 1 .. Len(main) : End(main, i) \in Nat
  BY <1>0, FilesTypes, EndTypes
<1>4. mp \in Nat
  BY <1>0, <1>1, FilesTypes
<1>5. PrunedBehind(q, mp)
  <2>1. ASSUME NEW l \in q.receipts PROVE l.id \notin pruned
    <3>1. CASE l \in p.receipts
      BY <1>1, <3>1 DEF PrunedBehind
    <3>2. ASSUME NEW i \in 1 .. Len(main), l = main[i], mp < End(main, i) PROVE l.id \notin pruned
      BY <1>1, <1>3, <1>4, <3>2 DEF PrunedBehind
    <3> QED
      BY <3>1, <3>2
  <2> QED
    BY <1>1, <2>1 DEF PrunedBehind
<1>6. Answering(q, mp, up)
  <2>1. \A id : Answers(p, id) => Answers(q, id)
    BY DEF Answers
  <2> QED
    BY <1>1, <2>1 DEF Answering, AllAnswered, Passed
<1>7. ASSUME NEW c \in Compactor, compaction[c].phase # "idle", compaction[c].current
      PROVE  PlanHolds(compaction[c], q, mp)
  <2> DEFINE plan == compaction[c]
  <2>1. PlanFiles(plan) /\ PlanDrops(plan, p) /\ End(main, Len(plan.main)) <= mp
    BY <1>1, <1>7 DEF PlansHold, PlanHolds
  <2>2. ASSUME NEW j \in 1 .. Len(plan.main), Droppable(plan, main[j])
        PROVE  main[j] \notin q.receipts /\ (plan.phase = "verified" => main[j].id \notin acked)
    <3>1. main[j] \notin p.receipts /\ (plan.phase = "verified" => main[j].id \notin acked)
      BY <2>1, <2>2 DEF PlanDrops
    <3>2. ASSUME NEW i \in 1 .. Len(main), main[j] = main[i], mp < End(main, i) PROVE FALSE
      <4>1. Len(plan.main) <= Len(main) /\ Len(plan.main) \in Nat /\ Len(main) \in Nat
        <5>1. plan.main \in MainFile
          BY <1>0 DEF SpoolTypes, Plan
        <5> HIDE DEF plan
        <5>2. Len(plan.main) \in Nat
          BY <5>1 DEF MainFile
        <5> QED
          BY <1>0, <2>1, <5>2, FilesTypes DEF PlanFiles, Continues
      <4> HIDE DEF plan
      <4>2. j \in 1 .. Len(main) /\ Len(plan.main) \in 0 .. Len(main) /\ j \in 0 .. Len(main)
            /\ j <= Len(plan.main)
        BY <4>1
      <4>3. i = j
        BY <1>0, <3>2, <4>2, SameLine
      <4>4. End(main, j) <= End(main, Len(plan.main)) /\ End(main, Len(plan.main)) \in Nat
        BY <1>0, <4>2, FilesTypes, EndMonotonic, EndTypes
      <4> QED
        BY <1>3, <1>4, <2>1, <3>2, <4>3, <4>4
    <3> QED
      BY <3>1, <3>2
  <2>3. PlanDrops(plan, q)
    BY <2>2 DEF PlanDrops
  <2> QED
    BY <2>1, <2>3 DEF PlanHolds
<1> QED
  BY <1>1, <1>2, <1>5, <1>6, <1>7 DEF ProjInv, PlansHold

\* An offset may move on over lines for which the projection answers.
LEMMA OffsetKeeps ==
    ASSUME FilesInv, NEW p, NEW mp, NEW up, ProjInv(p, mp, up),
           NEW mq \in 0 .. Bytes(main), NEW uq \in 0 .. Bytes(usage), mp <= mq, Answering(p, mq, uq)
    PROVE  ProjInv(p, mq, uq)
<1>0. SpoolTypes
  BY DEF FilesInv
<1>1. /\ p \in Projections /\ mp \in 0 .. Bytes(main)
      /\ Backed(p) /\ PrunedBehind(p, mp) /\ PlansHold(p, mp)
  BY DEF ProjInv
<1>2. mp \in Nat /\ mq \in Nat /\ \A i \in 0 .. Len(main) : End(main, i) \in Nat
  BY <1>0, <1>1, FilesTypes, EndTypes
<1>3. PrunedBehind(p, mq)
  <2>1. \A i \in 1 .. Len(main) : i \in 0 .. Len(main)
    OBVIOUS
  <2>2. ASSUME NEW i \in 1 .. Len(main), main[i].id \in pruned PROVE End(main, i) <= mq
    <3>1. End(main, i) <= mp /\ End(main, i) \in Nat
      BY <1>1, <1>2, <2>1, <2>2 DEF PrunedBehind
    <3> QED
      BY <1>2, <3>1
  <2> QED
    BY <1>1, <2>2 DEF PrunedBehind
<1>4. ASSUME NEW c \in Compactor, compaction[c].phase # "idle", compaction[c].current
      PROVE  PlanHolds(compaction[c], p, mq)
  <2> DEFINE plan == compaction[c]
  <2>1. PlanFiles(plan) /\ PlanDrops(plan, p) /\ End(main, Len(plan.main)) <= mp
    BY <1>1, <1>4 DEF PlansHold, PlanHolds
  <2>2. Len(plan.main) \in 0 .. Len(main)
    <3>1. plan.main \in MainFile
      BY <1>0 DEF SpoolTypes, Plan
    <3> HIDE DEF plan
    <3>2. Len(plan.main) \in Nat
      BY <3>1 DEF MainFile
    <3> QED
      BY <1>0, <2>1, <3>2, FilesTypes DEF PlanFiles, Continues
  <2> HIDE DEF plan
  <2>3. End(main, Len(plan.main)) \in Nat
    BY <1>2, <2>2
  <2>4. End(main, Len(plan.main)) <= mq
    BY <1>2, <2>1, <2>3
  <2> QED
    BY <2>1, <2>4 DEF PlanHolds, plan
<1> QED
  BY <1>1, <1>3, <1>4 DEF ProjInv, PlansHold

LEMMA ReadMainKeeps ==
    ASSUME FilesInv, NEW p, NEW mp, NEW up, ProjInv(p, mp, up),
           NEW i, NEW q, Reads(main, i, mp, p, q)
    PROVE  ProjInv(q, mp, up) /\ ProjInv(q, End(main, i), up)
<1>0. SpoolTypes /\ OrderInv /\ AckedInv
  BY DEF FilesInv
<1>1. p \in Projections /\ mp \in 0 .. Bytes(main) /\ up \in 0 .. Bytes(usage) /\ Answering(p, mp, up)
  BY DEF ProjInv
<1>2. /\ i \in 1 .. Len(main) /\ Start(main, i) <= mp /\ mp < End(main, i)
      /\ q \in Projected(p, main, i, mp)
  BY DEF Reads
<1>3. MainLine \in {MainLine, UsageLine} /\ main \in Seq(MainLine \cup TornLine)
  BY <1>0, FilesTypes
<1>4. /\ q \in Projections
      /\ p.receipts \subseteq q.receipts /\ p.batches \subseteq q.batches /\ p.errors \subseteq q.errors
      /\ \A l \in q.receipts : l \in p.receipts \/ (l = main[i] /\ l.kind # "usage")
      /\ \A id \in q.batches : id \in p.batches \/ (id = main[i].id /\ main[i].kind = "usage")
  BY <1>1, <1>2, <1>3, ProjectedTypes
<1>5. main[i].kind # "usage"
  <2>1. main[i] \in MainLine \cup TornLine
    BY <1>0, <1>2, FilesTypes
  <2> QED
    BY <2>1, LineKinds
<1>6. ProjInv(q, mp, up)
  BY <1>2, <1>4, <1>5, ReadKeeps
<1>7. mp \in Nat /\ End(main, i) \in 0 .. Bytes(main) /\ mp <= End(main, i)
  <2>1. i \in 0 .. Len(main) /\ Len(main) \in 0 .. Len(main) /\ i <= Len(main)
    BY <1>0, <1>2, FilesTypes
  <2>2. End(main, i) \in Nat /\ End(main, i) <= Bytes(main) /\ mp \in Nat
    BY <1>0, <1>1, <2>1, FilesTypes, EndTypes, EndMonotonic DEF Bytes
  <2> QED
    BY <1>0, <1>2, <2>2, FilesTypes
<1>8. Answering(q, End(main, i), up)
  <2>1. CASE AllAnswered(q)
    BY <2>1 DEF Answering
  <2>2. CASE /\ \A c \in Compactor : compaction[c].phase = "idle"
             /\ AtLine(main, mp) /\ AtLine(usage, up)
             /\ Passed(main, mp, p) /\ Passed(usage, up, p)
    <3>1. AtLine(main, End(main, i)) /\ Passed(main, End(main, i), q)
      <4>1. \A j \in 1 .. Len(main) : main[j].kind = "torn" => j = Len(main)
        BY <1>0 DEF OrderInv, Ordered
      <4>2. \A j \in 1 .. Len(main) : main[j].kind \in {"torn", "ended"} => main[j].id \notin acked
        BY <1>0 DEF AckedInv
      <4> QED
        BY <1>1, <1>3, <1>7, <2>2, <4>1, <4>2, PassedOn
    <3>2. Passed(usage, up, q)
      BY <1>4, <2>2 DEF Passed, Answers
    <3> QED
      BY <2>2, <3>1, <3>2 DEF Answering
  <2>3. AllAnswered(p) => AllAnswered(q)
    BY <1>4 DEF AllAnswered, Answers
  <2> QED
    BY <1>1, <2>1, <2>2, <2>3 DEF Answering
<1> QED
  BY <1>1, <1>6, <1>7, <1>8, OffsetKeeps

LEMMA ReadUsageKeeps ==
    ASSUME FilesInv, NEW p, NEW mp, NEW up, ProjInv(p, mp, up),
           NEW i, NEW q, Reads(usage, i, up, p, q)
    PROVE  ProjInv(q, mp, up) /\ ProjInv(q, mp, End(usage, i))
<1>0. SpoolTypes /\ OrderInv /\ AckedInv
  BY DEF FilesInv
<1>1. p \in Projections /\ mp \in 0 .. Bytes(main) /\ up \in 0 .. Bytes(usage) /\ Answering(p, mp, up)
  BY DEF ProjInv
<1>2. /\ i \in 1 .. Len(usage) /\ Start(usage, i) <= up /\ up < End(usage, i)
      /\ q \in Projected(p, usage, i, up)
  BY DEF Reads
<1>3. UsageLine \in {MainLine, UsageLine} /\ usage \in Seq(UsageLine \cup TornLine)
  BY <1>0, FilesTypes
<1>4. /\ q \in Projections
      /\ p.receipts \subseteq q.receipts /\ p.batches \subseteq q.batches /\ p.errors \subseteq q.errors
      /\ \A l \in q.receipts : l \in p.receipts \/ (l = usage[i] /\ l.kind # "usage")
      /\ \A id \in q.batches : id \in p.batches \/ (id = usage[i].id /\ usage[i].kind = "usage")
  BY <1>1, <1>2, <1>3, ProjectedTypes
<1>5. \A l \in q.receipts : l \in p.receipts
  <2>1. usage[i] \in UsageLine \cup TornLine
    BY <1>0, <1>2, FilesTypes
  <2>2. q.receipts \subseteq MainLine
    BY <1>4 DEF Projections
  <2> QED
    BY <1>4, <2>1, <2>2, LineKinds
<1>6. ProjInv(q, mp, up)
  BY <1>2, <1>4, <1>5, ReadKeeps
<1>7. up \in Nat /\ End(usage, i) \in 0 .. Bytes(usage) /\ mp <= mp
  <2>1. i \in 0 .. Len(usage) /\ Len(usage) \in 0 .. Len(usage) /\ i <= Len(usage)
    BY <1>0, <1>2, FilesTypes
  <2>2. End(usage, i) \in Nat /\ End(usage, i) <= Bytes(usage) /\ up \in Nat /\ mp \in Nat
    BY <1>0, <1>1, <2>1, FilesTypes, EndTypes, EndMonotonic DEF Bytes
  <2> QED
    BY <1>0, <1>2, <2>2, FilesTypes
<1>8. Answering(q, mp, End(usage, i))
  <2>1. CASE AllAnswered(q)
    BY <2>1 DEF Answering
  <2>2. CASE /\ \A c \in Compactor : compaction[c].phase = "idle"
             /\ AtLine(main, mp) /\ AtLine(usage, up)
             /\ Passed(main, mp, p) /\ Passed(usage, up, p)
    <3>1. AtLine(usage, End(usage, i)) /\ Passed(usage, End(usage, i), q)
      <4>1. \A j \in 1 .. Len(usage) : usage[j].kind = "torn" => j = Len(usage)
        BY <1>0 DEF OrderInv, Ordered
      <4>2. \A j \in 1 .. Len(usage) : usage[j].kind \in {"torn", "ended"} => usage[j].id \notin acked
        BY <1>0 DEF AckedInv
      <4> QED
        BY <1>1, <1>3, <1>7, <2>2, <4>1, <4>2, PassedOn
    <3>2. Passed(main, mp, q)
      BY <1>4, <2>2 DEF Passed, Answers
    <3> QED
      BY <2>2, <3>1, <3>2 DEF Answering
  <2>3. AllAnswered(p) => AllAnswered(q)
    BY <1>4 DEF AllAnswered, Answers
  <2> QED
    BY <1>1, <2>1, <2>2, <2>3 DEF Answering
<1> QED
  BY <1>1, <1>6, <1>7, <1>8, OffsetKeeps

\* Where a replay may have got to, and what it has answered for when it is done.
Known(r) == r \in ReplayState(main, usage) /\ ProjInv(r.proj, r.main, r.usage)

LEMMA StepKeeps ==
    ASSUME FilesInv, NEW r, Known(r), NEW s \in ReplayStep(main, usage, r)
    PROVE  Known(s) /\ ProjInv(s.proj, r.main, r.usage)
<1>1. main \in MainFile /\ usage \in UsageFile
  BY DEF FilesInv, SpoolTypes
<1>2. r \in ReplayState(main, usage) /\ ProjInv(r.proj, r.main, r.usage)
  BY DEF Known
<1>3. /\ s \in ReplayState(main, usage)
      /\ ReadsMain(main, r, s) \/ ReadsUsage(usage, r, s) \/ Raises(r, s)
  BY <1>1, <1>2, ReplayStepReads
<1>4. CASE ReadsMain(main, r, s)
  <2>1. PICK i : Reads(main, i, r.main, r.proj, s.proj) /\ s.main = End(main, i) /\ s.usage = r.usage
    BY <1>4 DEF ReadsMain
  <2>2. ProjInv(s.proj, r.main, r.usage) /\ ProjInv(s.proj, End(main, i), r.usage)
    BY <1>2, <2>1, ReadMainKeeps
  <2> QED
    BY <1>3, <2>1, <2>2 DEF Known
<1>5. CASE ReadsUsage(usage, r, s)
  <2>1. PICK i : Reads(usage, i, r.usage, r.proj, s.proj) /\ s.usage = End(usage, i) /\ s.main = r.main
    BY <1>5 DEF ReadsUsage
  <2>2. ProjInv(s.proj, r.main, r.usage) /\ ProjInv(s.proj, r.main, End(usage, i))
    BY <1>2, <2>1, ReadUsageKeeps
  <2> QED
    BY <1>3, <2>1, <2>2 DEF Known
<1>6. CASE Raises(r, s)
  BY <1>2, <1>3, <1>6 DEF Raises, Known
<1> QED
  BY <1>3, <1>4, <1>5, <1>6

LEMMA ResumedKnown ==
    ASSUME SpoolInv
    PROVE  Known(Resumed)
<1>1. FilesInv /\ ProjInv(proj, Resumed.main, Resumed.usage)
  BY DEF SpoolInv
<1>2. /\ Resumed.proj = proj /\ Resumed.raised = FALSE
      /\ Resumed = [main |-> Resumed.main, usage |-> Resumed.usage, proj |-> Resumed.proj, raised |-> Resumed.raised]
  BY DEF Resumed
<1>3. proj \in Projections /\ Resumed.main \in 0 .. Bytes(main) /\ Resumed.usage \in 0 .. Bytes(usage)
  BY <1>1 DEF ProjInv
<1>4. Resumed \in ReplayState(main, usage)
  BY <1>2, <1>3 DEF ReplayState
<1> QED
  BY <1>1, <1>2, <1>4 DEF Known

LEMMA ReplaysKnown ==
    ASSUME SpoolInv, NEW r \in Replays(main, usage, Resumed)
    PROVE  Known(r)
<1>1. FilesInv /\ SpoolTypes
  BY DEF SpoolInv, FilesInv
<1> DEFINE Good == {s \in ReplayState(main, usage) : Known(s)}
<1>2. Resumed \in Good
  BY ResumedKnown DEF Known
<1>3. \A s \in Good : ReplayStep(main, usage, s) \subseteq Good
  BY <1>1, StepKeeps DEF Known
<1>4. Len(main) \in Nat /\ Len(usage) \in Nat
  BY <1>1, FilesTypes
<1>5. Replays(main, usage, Resumed) \subseteq Good
  <2> HIDE DEF Good
  <2> QED
    BY <1>2, <1>3, <1>4, ReplayStays
<1> QED
  BY <1>5

\* When the replay is done and has not raised, all that was acknowledged is answered.
LEMMA RecoveryAnswers ==
    ASSUME SpoolInv, NEW r \in Recoveries
    PROVE  /\ Known(r)
           /\ ~r.raised => r.main = Bytes(main) /\ r.usage = Bytes(usage) /\ AllAnswered(r.proj)
<1>1. r \in Replays(main, usage, Resumed) /\ ReplayStep(main, usage, r) = {}
  BY DEF Recoveries, Replayed
<1>2. Known(r)
  BY <1>1, ReplaysKnown
<1>3. FilesInv /\ SpoolTypes /\ AckedInv
  BY DEF SpoolInv, FilesInv
<1>4. main \in MainFile /\ usage \in UsageFile
  BY <1>3, FilesTypes
<1>5. ASSUME ~r.raised PROVE r.main = Bytes(main) /\ r.usage = Bytes(usage) /\ AllAnswered(r.proj)
  <2>1. r.main = Bytes(main) /\ r.usage = Bytes(usage)
    BY <1>1, <1>2, <1>4, <1>5, ReplayStepReads DEF Known
  <2>2. CASE Passed(main, Bytes(main), r.proj) /\ Passed(usage, Bytes(usage), r.proj)
    <3>1. \A i \in 1 .. Len(main) : End(main, i) <= Bytes(main)
      BY <1>3, FilesTypes, EndMonotonic DEF Bytes
    <3>2. \A b \in 1 .. Len(usage) : End(usage, b) <= Bytes(usage)
      BY <1>3, FilesTypes, EndMonotonic DEF Bytes
    <3> QED
      BY <1>3, <2>1, <2>2, <3>1, <3>2 DEF AllAnswered, Passed, AckedInv
  <2> QED
    BY <1>2, <2>1, <2>2 DEF Known, ProjInv, Answering
<1> QED
  BY <1>2, <1>5

-----------------------------------------------------------------------------
(* Steps that only replay.                                                 *)

LEMMA Rephrased ==
    ASSUME NEW p, NEW mp, NEW up, p = proj', mp = Resumed'.main, up = Resumed'.usage, ProjInv(p, mp, up)'
    PROVE  ProjInv(proj, Resumed.main, Resumed.usage)'
  BY DEF ProjInv, Backed, PrunedBehind, Answering, AllAnswered, Answers, Passed, AtLine, PlansHold, PlanHolds, PlanDrops

LEMMA Carried ==
    ASSUME NEW p, NEW mp, NEW up, ProjInv(p, mp, up),
           UNCHANGED <<main, usage, compaction, acked, pruned>>
    PROVE  ProjInv(p, mp, up)'
  BY DEF ProjInv, Backed, PrunedBehind, Answering, AllAnswered, Passed, AtLine, PlansHold, PlanHolds,
         PlanFiles, PlanDrops

LEMMA FilesCarried ==
    ASSUME FilesInv, UNCHANGED <<main, usage, compaction, issued, acked, pruned, mixed>>,
           proj' \in Projections, cursor' \in [main : Nat, usage : Nat]
    PROVE  FilesInv'
<1>1. SpoolTypes'
  BY DEF FilesInv, SpoolTypes
<1>2. OrderInv'
  BY DEF FilesInv, OrderInv, Ordered
<1>3. AckedInv'
  BY DEF FilesInv, AckedInv
<1>4. FenceInv'
  BY DEF FilesInv, FenceInv, Splits
<1> QED
  BY <1>1, <1>2, <1>3, <1>4 DEF FilesInv

LEMMA OffsetsStored ==
    ASSUME NEW a, NEW b, cursor' = [main |-> a, usage |-> b], a <= Bytes(main'), b <= Bytes(usage')
    PROVE  Resumed'.main = a /\ Resumed'.usage = b
  BY DEF Resumed, Fitting

\* The offsets of a replay that got to r, and a projection that may be a step ahead.
LEMMA ReplayStored ==
    ASSUME FilesInv, NEW r, Known(r), ProjInv(proj', r.main, r.usage), Stored(r),
           UNCHANGED <<main, usage, compaction, issued, acked, pruned, mixed>>
    PROVE  SpoolInv'
<1>1. SpoolTypes /\ Bytes(main) \in Nat /\ Bytes(usage) \in Nat
  BY FilesTypes DEF FilesInv
<1>2. r.main \in 0 .. Bytes(main) /\ r.usage \in 0 .. Bytes(usage)
  BY DEF Known, ReplayState
<1>3. cursor' = [main |-> r.main, usage |-> r.usage] /\ cursor' \in [main : Nat, usage : Nat]
  BY <1>1, <1>2 DEF Stored
<1>4. Resumed'.main = r.main /\ Resumed'.usage = r.usage
  BY <1>1, <1>2, <1>3, OffsetsStored
<1>5. PICK p : p = proj'
  OBVIOUS
<1>6. ProjInv(p, r.main, r.usage) /\ p \in Projections
  BY <1>5 DEF ProjInv
<1>7. ProjInv(p, r.main, r.usage)'
  BY <1>6, Carried
<1>8. ProjInv(proj, Resumed.main, Resumed.usage)'
  BY <1>4, <1>5, <1>7, Rephrased
<1>9. FilesInv'
  BY <1>3, <1>5, <1>6, FilesCarried
<1> QED
  BY <1>8, <1>9 DEF SpoolInv

LEMMA RecoverKeeps ==
    ASSUME SpoolInv, Recover
    PROVE  SpoolInv'
<1>1. PICK r \in Recoveries : proj' = r.proj /\ Stored(r)
  BY DEF Recover
<1>2. Known(r)
  BY RecoveryAnswers
<1>3. ProjInv(proj', r.main, r.usage)
  BY <1>1, <1>2 DEF Known
<1> QED
  BY <1>1, <1>2, <1>3, ReplayStored DEF Recover, SpoolInv

LEMMA RecoverCutKeeps ==
    ASSUME SpoolInv, RecoverCut
    PROVE  SpoolInv'
<1>1. PICK r \in Replays(main, usage, Resumed) :
          Stored(r) /\ \E next \in ReplayStep(main, usage, r) \cup {r} : proj' = next.proj
  BY DEF RecoverCut
<1>2. PICK next \in ReplayStep(main, usage, r) \cup {r} : proj' = next.proj
  BY <1>1
<1>3. Known(r) /\ FilesInv
  BY ReplaysKnown DEF SpoolInv
<1>4. ProjInv(next.proj, r.main, r.usage)
  <2>1. next \in ReplayStep(main, usage, r) => ProjInv(next.proj, r.main, r.usage)
    BY <1>3, StepKeeps
  <2>2. next = r => ProjInv(next.proj, r.main, r.usage)
    BY <1>3 DEF Known
  <2> QED
    BY <2>1, <2>2
<1> QED
  BY <1>1, <1>2, <1>3, <1>4, ReplayStored DEF RecoverCut

-----------------------------------------------------------------------------
(* Steps that write.                                                       *)

\* A file goes on with lines that are newer than all that was issued.
Arrives(new, file) ==
    /\ Continues(new, file)
    /\ \A i \in 1 .. Len(new) : i > Len(file) => new[i].id > issued

\* The lines that were there, in a file that goes on.
LEMMA OldLines ==
    ASSUME NEW X \in {MainLine, UsageLine}, NEW file \in Seq(X \cup TornLine),
           NEW new \in Seq(X \cup TornLine), Continues(new, file), NEW i \in 1 .. Len(file)
    PROVE  /\ i \in 1 .. Len(new) /\ new[i].id = file[i].id
           /\ End(new, i) = End(file, i) /\ Start(new, i) = Start(file, i)
           /\ new[i].kind \in {"torn", "ended"} => file[i].kind \in {"torn", "ended"}
           /\ new[i].kind \notin {"torn", "ended"} => new[i] = file[i]
           /\ file[i].kind # "torn" => new[i] = file[i]
<1>0. file \in Seq(Lines) /\ new \in Seq(Lines) /\ Len(file) \in Nat /\ Len(new) \in Nat /\ Len(file) <= Len(new)
  <2>1. X \cup TornLine \subseteq Lines
    BY DEF Lines
  <2> QED
    BY <2>1, SeqMonotonic DEF Continues
<1>1. i \in 1 .. Len(new) /\ i \in 0 .. Len(file) /\ i - 1 \in 0 .. Len(file)
  BY <1>0
<1>2. End(new, i) = End(file, i) /\ Start(new, i) = Start(file, i)
  BY <1>0, <1>1, ContinuesEnds DEF Start
<1>3. file[i] \in Lines /\ SameOrEnded(new[i], file[i])
  BY <1>0, ElementOfSeq DEF Continues
<1>4. new[i].id = file[i].id
      /\ (new[i] = file[i] \/ (file[i].kind = "torn" /\ new[i].kind = "ended"))
  BY <1>3, TornToEnded
<1> QED
  BY <1>1, <1>2, <1>4

LEMMA ContinuesOn ==
    ASSUME NEW X \in {MainLine, UsageLine}, NEW old \in Seq(X \cup TornLine),
           NEW file, NEW new, Continues(file, old), Continues(new, file),
           Len(file) \in Nat, Len(new) \in Nat
    PROVE  Continues(new, old)
<1>1. Len(old) \in Nat /\ Len(old) <= Len(file) /\ Len(file) <= Len(new)
  BY DEF Continues
<1>2. ASSUME NEW i \in 1 .. Len(old) PROVE SameOrEnded(new[i], old[i])
  <2>1. i \in 1 .. Len(file) /\ SameOrEnded(file[i], old[i]) /\ SameOrEnded(new[i], file[i])
    BY <1>1 DEF Continues
  <2>2. old[i] \in Lines
    BY ElementOfSeq DEF Lines
  <2>3. file[i] = old[i] \/ file[i].kind = "ended"
    BY <2>1, <2>2, TornToEnded
  <2>4. file[i].kind = "ended" => new[i] = file[i]
    BY <2>1 DEF SameOrEnded
  <2>5. file[i] = old[i] \/ new[i] = file[i]
    BY <2>3, <2>4
  <2> QED
    BY <2>1, <2>5
<1> QED
  BY <1>1, <1>2 DEF Continues

LEMMA PlanTypes ==
    ASSUME SpoolTypes, NEW c \in Compactor
    PROVE  /\ compaction[c].main \in MainFile /\ compaction[c].main \in Seq(MainLine \cup TornLine)
           /\ compaction[c].usage \in UsageFile /\ compaction[c].usage \in Seq(UsageLine \cup TornLine)
           /\ Len(compaction[c].main) \in Nat /\ Len(compaction[c].usage) \in Nat
<1>1. compaction[c] \in Plan
  BY DEF SpoolTypes
<1>2. compaction[c].main \in MainFile /\ compaction[c].usage \in UsageFile
  BY <1>1 DEF Plan
<1> QED
  BY <1>2 DEF MainFile, UsageFile

LEMMA PlansGrow ==
    ASSUME FilesInv, NEW p, NEW mp, NEW up, ProjInv(p, mp, up),
           main' \in MainFile, usage' \in UsageFile, Arrives(main', main), Arrives(usage', usage),
           NEW q, \A l \in q.receipts : l \in p.receipts \/ l.id > issued,
           \A id \in acked' : id \in acked \/ id > issued,
           compaction' = compaction, NEW mq \in Nat, mp <= mq
    PROVE  PlansHold(q, mq)'
<1>0. SpoolTypes /\ OrderInv /\ issued \in Nat
  BY DEF FilesInv, SpoolTypes
<1>1. /\ main' \in Seq(MainLine \cup TornLine) /\ usage' \in Seq(UsageLine \cup TornLine)
      /\ Len(main') \in Nat /\ Len(usage') \in Nat
  BY DEF MainFile, UsageFile
<1>2. Continues(main', main) /\ Continues(usage', usage)
  BY DEF Arrives
<1>3. mp \in Nat
  BY <1>0, FilesTypes DEF ProjInv
<1> SUFFICES ASSUME NEW c \in Compactor, compaction[c].phase # "idle", compaction[c].current
    PROVE  PlanHolds(compaction[c], q, mq)'
  BY DEF PlansHold
<1>4. PICK plan : plan = compaction[c]
  OBVIOUS
<1>5. PlanFiles(plan) /\ PlanDrops(plan, p) /\ End(main, Len(plan.main)) <= mp
  BY <1>4 DEF ProjInv, PlansHold, PlanHolds
<1>6. /\ plan.main \in Seq(MainLine \cup TornLine) /\ plan.usage \in Seq(UsageLine \cup TornLine)
      /\ Len(plan.main) \in Nat /\ Len(plan.usage) \in Nat
  BY <1>0, <1>4, PlanTypes
<1>7. /\ Continues(main, plan.main) /\ Continues(usage, plan.usage)
      /\ Len(plan.main) <= Len(main) /\ Len(plan.usage) <= Len(usage)
      /\ Len(main) \in Nat /\ Len(usage) \in Nat
  BY <1>0, <1>5, FilesTypes DEF PlanFiles, Continues
<1>8. Continues(main', plan.main) /\ Continues(usage', plan.usage)
  BY <1>0, <1>1, <1>2, <1>6, <1>7, ContinuesOn
<1>9. /\ \A i \in 1 .. Len(main) : i \in 1 .. Len(main') /\ main'[i].id = main[i].id
      /\ \A b \in 1 .. Len(usage) : b \in 1 .. Len(usage') /\ usage'[b].id = usage[b].id
  BY <1>0, <1>1, <1>2, FilesTypes, OldLines
<1>10. /\ \A i \in 1 .. Len(main) : main[i].id \in Nat /\ main[i].id <= issued
       /\ \A b \in 1 .. Len(usage) : usage[b].id \in Nat /\ usage[b].id <= issued
  BY <1>0, FilesTypes DEF OrderInv, Ordered
<1>i. /\ \A i \in 1 .. Len(main') : main'[i].id \in Nat
      /\ \A b \in 1 .. Len(usage') : usage'[b].id \in Nat
  BY <1>1, ElementOfSeq, LineKinds DEF ReceiptId
<1>11. ASSUME NEW i \in Len(plan.main) + 1 .. Len(main'), NEW b \in 1 .. Len(plan.usage)
       PROVE  usage'[b].id < main'[i].id
  <2>1. b \in 1 .. Len(usage) /\ usage'[b].id = usage[b].id /\ i \in 1 .. Len(main')
    BY <1>6, <1>7, <1>9
  <2>2. CASE i <= Len(main)
    <3>1. i \in Len(plan.main) + 1 .. Len(main) /\ i \in 1 .. Len(main)
      BY <1>6, <1>7, <2>2
    <3> QED
      BY <1>5, <1>9, <2>1, <3>1 DEF PlanFiles
  <2>3. CASE i > Len(main)
    <3>1. main'[i].id > issued
      BY <2>1, <2>3 DEF Arrives
    <3> QED
      BY <1>0, <1>10, <1>i, <2>1, <3>1
  <2> QED
    BY <1>7, <2>1, <2>2, <2>3
<1>12. ASSUME NEW i \in 1 .. Len(plan.main), NEW b \in Len(plan.usage) + 1 .. Len(usage')
       PROVE  main'[i].id < usage'[b].id
  <2>1. i \in 1 .. Len(main) /\ main'[i].id = main[i].id /\ b \in 1 .. Len(usage')
    BY <1>6, <1>7, <1>9
  <2>2. CASE b <= Len(usage)
    <3>1. b \in Len(plan.usage) + 1 .. Len(usage) /\ b \in 1 .. Len(usage)
      BY <1>6, <1>7, <2>2
    <3> QED
      BY <1>5, <1>9, <2>1, <3>1 DEF PlanFiles
  <2>3. CASE b > Len(usage)
    <3>1. usage'[b].id > issued /\ usage'[b].id \in Nat
      BY <1>i, <2>1, <2>3 DEF Arrives
    <3>2. main'[i].id <= issued /\ main'[i].id \in Nat
      BY <1>10, <2>1
    <3> QED
      BY <1>0, <3>1, <3>2
  <2> QED
    BY <1>7, <2>1, <2>2, <2>3
<1>13. PlanFiles(plan)'
  BY <1>8, <1>11, <1>12 DEF PlanFiles
<1>14. ASSUME NEW i \in 1 .. Len(plan.main), Droppable(plan, main'[i])
       PROVE  main'[i] \notin q.receipts /\ (plan.phase = "verified" => main'[i].id \notin acked')
  <2>0. main'[i].kind = "evidence"
    BY <1>14 DEF Droppable
  <2>1. i \in 1 .. Len(main) /\ main'[i].kind \notin {"torn", "ended"}
    <3>1. i \in 1 .. Len(main)
      BY <1>6, <1>7
    <3> QED
      BY <2>0, <3>1
  <2>2. main'[i] = main[i]
    <3>1. main \in Seq(MainLine \cup TornLine)
      BY <1>0, FilesTypes
    <3>2. PICK new \in Seq(MainLine \cup TornLine) : new = main'
      BY <1>1
    <3>3. Continues(new, main) /\ i \in 1 .. Len(main)
      BY <1>2, <2>1, <3>2
    <3>4. new[i].kind \notin {"torn", "ended"} => new[i] = main[i]
      BY <3>1, <3>3, OldLines
    <3> QED
      BY <2>1, <3>2, <3>4
  <2>3. main[i] \notin p.receipts /\ (plan.phase = "verified" => main[i].id \notin acked)
    BY <1>5, <1>14, <2>2 DEF PlanDrops
  <2>4. ~(main[i].id > issued)
    BY <1>0, <1>10, <2>1
  <2> QED
    BY <2>2, <2>3, <2>4
<1>15. PlanDrops(plan, q)'
  BY <1>14 DEF PlanDrops
<1>16. End(main', Len(plan.main)) <= mq
  <2>1. Len(plan.main) \in 0 .. Len(main) /\ End(main, Len(plan.main)) \in Nat
    BY <1>0, <1>6, <1>7, FilesTypes, EndTypes
  <2>2. End(main', Len(plan.main)) = End(main, Len(plan.main))
    BY <1>0, <1>2, <2>1, FilesTypes, FilesHaveLines, ContinuesEnds
  <2> QED
    BY <1>3, <1>5, <2>1, <2>2
<1> QED
  BY <1>4, <1>13, <1>15, <1>16 DEF PlanHolds

\* A fence stays between the same lines when lines arrive behind it.
LEMMA SplitsStays ==
    ASSUME SpoolTypes, OrderInv, NEW m \in MainFile, main' = m, Arrives(m, main),
           NEW fence \in Nat, NEW id \in Nat, id <= issued, Splits(fence, id)
    PROVE  Splits(fence, id)'
<1>1. /\ m \in Seq(MainLine \cup TornLine) /\ m \in Seq(Lines) /\ Len(m) \in Nat
      /\ Continues(m, main) /\ Len(main) <= Len(m)
  BY FilesHaveLines DEF MainFile, Arrives, Continues
<1>4. Bytes(main) \in Nat /\ Bytes(m) \in Nat /\ Bytes(main) = End(m, Len(main)) /\ Bytes(main) <= Bytes(m)
  <2>1. Len(main) \in 0 .. Len(main) /\ Len(main) \in 0 .. Len(m) /\ Len(m) \in 0 .. Len(m)
    BY <1>1, FilesTypes
  <2>2. Bytes(main) = End(m, Len(main))
    BY <1>1, <2>1, FilesTypes, ContinuesEnds DEF Bytes
  <2>3. End(m, Len(main)) <= End(m, Len(m)) /\ End(m, Len(m)) \in Nat
    BY <1>1, <2>1, EndMonotonic, EndTypes
  <2> QED
    BY <2>2, <2>3, FilesTypes DEF Bytes
<1>5. fence <= Bytes(main) /\ fence <= Bytes(m)
  BY <1>4 DEF Splits
<1>6. ASSUME NEW i \in 1 .. Len(m) PROVE IF m[i].id < id THEN End(m, i) <= fence ELSE Start(m, i) >= fence
  <2>1. CASE i \in 1 .. Len(main)
    <3>1. m[i].id = main[i].id /\ End(m, i) = End(main, i) /\ Start(m, i) = Start(main, i)
      <4>1. main \in Seq(MainLine \cup TornLine)
        BY FilesTypes
      <4> QED
        BY <1>1, <2>1, <4>1, OldLines
    <3> QED
      BY <2>1, <3>1 DEF Splits
  <2>2. CASE i \notin 1 .. Len(main)
    <3>1. i > Len(main) /\ Len(main) <= i - 1 /\ Len(main) \in 0 .. Len(m) /\ i - 1 \in 0 .. Len(m)
      BY <1>1, <2>2, FilesTypes
    <3>2. m[i].id > issued
      BY <3>1 DEF Arrives
    <3>3. m[i].id \in Nat /\ issued \in Nat
      BY <1>1, ElementOfSeq, LineKinds DEF ReceiptId, SpoolTypes
    <3>4. ~(m[i].id < id)
      BY <3>2, <3>3
    <3>5. End(m, Len(main)) <= End(m, i - 1) /\ End(m, i - 1) \in Nat
      BY <1>1, <3>1, EndMonotonic, EndTypes
    <3>6. Start(m, i) >= fence
      BY <1>4, <1>5, <3>5 DEF Start
    <3> QED
      BY <3>4, <3>6
  <2> QED
    BY <2>1, <2>2
<1>7. Bytes(main') = Bytes(m) /\ Len(main') = Len(m)
  OBVIOUS
<1> QED
  BY <1>5, <1>6, <1>7 DEF Splits

LEMMA Written ==
    ASSUME FilesInv, NEW p, NEW mp, NEW up, ProjInv(p, mp, up), AllAnswered(p),
           NEW m \in MainFile, NEW u \in UsageFile, main' = m, usage' = u,
           Arrives(m, main), Arrives(u, usage),
           issued' \in issued .. MaxReceipt, OrderInv',
           NEW q \in Projections, proj' = q,
           p.receipts \subseteq q.receipts, p.batches \subseteq q.batches, p.errors \subseteq q.errors,
           \A l \in q.receipts : l \in p.receipts \/ (l.id > issued /\ \E i \in 1 .. Len(m) : m[i] = l),
           \A id \in q.batches : id \in p.batches \/ \E b \in 1 .. Len(u) : u[b].id = id,
           acked' \subseteq 1 .. issued',
           \A id \in acked' :
              id \in acked \/ (/\ id > issued /\ Answers(q, id)
                               /\ \/ \E i \in 1 .. Len(m) : m[i].id = id
                                  \/ \E b \in 1 .. Len(u) : u[b].id = id),
           \A i \in 1 .. Len(m) : i > Len(main) /\ m[i].kind \in {"torn", "ended"} => m[i].id \notin acked',
           \A b \in 1 .. Len(u) : b > Len(usage) /\ u[b].kind \in {"torn", "ended"} => u[b].id \notin acked',
           ~mixed => \A b \in 1 .. Len(u) : b > Len(usage) /\ u[b].kind = "usage" => Splits(u[b].fence, u[b].id)',
           UNCHANGED <<compaction, pruned, mixed>>,
           NEW mq \in 0 .. Bytes(m), NEW uq \in 0 .. Bytes(u), mp <= mq,
           cursor' = [main |-> mq, usage |-> uq]
    PROVE  SpoolInv'
<1>0. SpoolTypes /\ OrderInv /\ AckedInv /\ FenceInv /\ issued \in Nat /\ issued \in 0 .. MaxReceipt
  BY DEF FilesInv, SpoolTypes
<1>1. /\ m \in Seq(MainLine \cup TornLine) /\ u \in Seq(UsageLine \cup TornLine)
      /\ m \in Seq(Lines) /\ u \in Seq(Lines)
      /\ Len(m) \in Nat /\ Len(u) \in Nat /\ Bytes(m) \in Nat /\ Bytes(u) \in Nat
      /\ Continues(m, main) /\ Continues(u, usage)
  BY FilesHaveLines, EndTypes DEF MainFile, UsageFile, Arrives, Bytes
<1>2. ASSUME NEW i \in 1 .. Len(main)
      PROVE  /\ i \in 1 .. Len(m) /\ m[i].id = main[i].id /\ End(m, i) = End(main, i)
             /\ m[i].kind \in {"torn", "ended"} => main[i].kind \in {"torn", "ended"}
             /\ main[i].kind # "torn" => m[i] = main[i]
  <2>1. main \in Seq(MainLine \cup TornLine) /\ m \in Seq(MainLine \cup TornLine) /\ Continues(m, main)
    BY <1>0, <1>1, FilesTypes
  <2>2. /\ i \in 1 .. Len(m) /\ m[i].id = main[i].id
        /\ End(m, i) = End(main, i) /\ Start(m, i) = Start(main, i)
        /\ m[i].kind \in {"torn", "ended"} => main[i].kind \in {"torn", "ended"}
        /\ m[i].kind \notin {"torn", "ended"} => m[i] = main[i]
        /\ main[i].kind # "torn" => m[i] = main[i]
    BY <2>1, OldLines
  <2> QED
    BY <2>2
<1>3. ASSUME NEW b \in 1 .. Len(usage)
      PROVE  /\ b \in 1 .. Len(u) /\ u[b].id = usage[b].id
             /\ u[b].kind \in {"torn", "ended"} => usage[b].kind \in {"torn", "ended"}
             /\ u[b].kind \notin {"torn", "ended"} => u[b] = usage[b]
  <2>1. usage \in Seq(UsageLine \cup TornLine) /\ u \in Seq(UsageLine \cup TornLine) /\ Continues(u, usage)
    BY <1>0, <1>1, FilesTypes
  <2>2. /\ b \in 1 .. Len(u) /\ u[b].id = usage[b].id
        /\ End(u, b) = End(usage, b) /\ Start(u, b) = Start(usage, b)
        /\ u[b].kind \in {"torn", "ended"} => usage[b].kind \in {"torn", "ended"}
        /\ u[b].kind \notin {"torn", "ended"} => u[b] = usage[b]
        /\ usage[b].kind # "torn" => u[b] = usage[b]
    BY <2>1, OldLines
  <2> QED
    BY <2>2
<1>4. \A i \in 1 .. Len(m) : m[i].id \in Nat /\ (i \in 1 .. Len(main) \/ (i > Len(main) /\ m[i].id > issued))
  <2> SUFFICES ASSUME NEW i \in 1 .. Len(m)
      PROVE  m[i].id \in Nat /\ (i \in 1 .. Len(main) \/ (i > Len(main) /\ m[i].id > issued))
    OBVIOUS
  <2>1. m[i] \in MainLine \cup TornLine
    BY <1>1, ElementOfSeq
  <2>2. m[i].id \in Nat
    BY <2>1, LineKinds DEF ReceiptId
  <2>3. i \in Nat /\ 1 <= i /\ Len(main) \in Nat
    BY <1>0, <1>1, FilesTypes
  <2>4. i > Len(main) => m[i].id > issued
    BY DEF Arrives
  <2> QED
    BY <2>2, <2>3, <2>4
<1>5. \A b \in 1 .. Len(u) : b \in 1 .. Len(usage) \/ (b > Len(usage) /\ u[b].id > issued)
  BY <1>0, <1>1, FilesTypes DEF Arrives
<1>6. SpoolTypes'
  <2>1. issued' \in 0 .. MaxReceipt /\ issued' \in Nat /\ issued <= issued' /\ MaxReceipt \in Nat
    BY <1>0, SpoolAssumption
  <2>2. pruned' \subseteq 1 .. issued'
    BY <1>0, <2>1 DEF SpoolTypes
  <2>3. cursor' \in [main : Nat, usage : Nat]
    BY <1>1
  <2>4. compaction' \in [Compactor -> Plan] /\ mixed' \in BOOLEAN
    BY <1>0 DEF SpoolTypes
  <2> QED
    BY <2>1, <2>2, <2>3, <2>4 DEF SpoolTypes
<1>7. AckedInv'
  <2>1. ASSUME NEW id \in acked' PROVE \/ \E i \in 1 .. Len(m) : m[i].id = id
                                       \/ \E b \in 1 .. Len(u) : u[b].id = id
    <3>1. CASE id \in acked
      <4>1. \/ \E i \in 1 .. Len(main) : main[i].id = id
            \/ \E b \in 1 .. Len(usage) : usage[b].id = id
        BY <1>0, <3>1 DEF AckedInv
      <4> QED
        BY <1>2, <1>3, <4>1
    <3> QED
      BY <3>1
  <2>2. ASSUME NEW i \in 1 .. Len(m), m[i].kind \in {"torn", "ended"} PROVE m[i].id \notin acked'
    <3>1. CASE i \in 1 .. Len(main)
      <4>1. main[i].id \notin acked /\ m[i].id = main[i].id
        BY <1>0, <1>2, <2>2, <3>1 DEF AckedInv
      <4>2. ~(main[i].id > issued)
        BY <1>0, <3>1, FilesTypes DEF OrderInv, Ordered
      <4> QED
        BY <4>1, <4>2
    <3> QED
      BY <1>4, <2>2, <3>1
  <2>3. ASSUME NEW b \in 1 .. Len(u), u[b].kind \in {"torn", "ended"} PROVE u[b].id \notin acked'
    <3>1. CASE b \in 1 .. Len(usage)
      <4>1. usage[b].id \notin acked /\ u[b].id = usage[b].id
        BY <1>0, <1>3, <2>3, <3>1 DEF AckedInv
      <4>2. ~(usage[b].id > issued)
        BY <1>0, <3>1, FilesTypes DEF OrderInv, Ordered
      <4> QED
        BY <4>1, <4>2
    <3> QED
      BY <1>5, <2>3, <3>1
  <2> QED
    BY <2>1, <2>2, <2>3 DEF AckedInv
<1>8. FenceInv'
  <2>1. ASSUME ~mixed, NEW b \in 1 .. Len(u), u[b].kind = "usage" PROVE Splits(u[b].fence, u[b].id)'
    <3>1. CASE b \in 1 .. Len(usage)
      <4>1. u[b] = usage[b]
        BY <1>3, <2>1, <3>1
      <4>2. u[b].fence \in Nat /\ u[b].id \in Nat
        <5>1. u[b] \in UsageLine
          BY <1>1, <2>1, ElementOfSeq, LineKinds
        <5> QED
          BY <5>1, LineKinds DEF ReceiptId
      <4>3. u[b].id <= issued /\ Splits(u[b].fence, u[b].id)
        BY <1>0, <2>1, <3>1, <4>1 DEF FenceInv, OrderInv, Ordered
      <4> QED
        BY <1>0, <4>2, <4>3, SplitsStays
    <3> QED
      BY <1>5, <2>1, <3>1
  <2> QED
    BY <2>1 DEF FenceInv
<1>9. ProjInv(q, mq, uq)'
  <2>1. Backed(p) /\ PrunedBehind(p, mp) /\ mp \in Nat /\ mq \in Nat
    BY <1>0, FilesTypes DEF ProjInv
  <2>2. ASSUME NEW l \in q.receipts PROVE \E i \in 1 .. Len(m) : m[i] = l
    <3>1. CASE l \in p.receipts
      <4>1. PICK i \in 1 .. Len(main) : main[i] = l
        BY <2>1, <3>1 DEF Backed
      <4>2. l \in MainLine
        BY <2>2 DEF Projections
      <4>3. main[i].kind # "torn"
        BY <4>1, <4>2, LineKinds
      <4> QED
        BY <1>2, <4>1, <4>3
    <3> QED
      BY <3>1
  <2>3. ASSUME NEW id \in q.batches PROVE \E b \in 1 .. Len(u) : u[b].id = id
    <3>1. CASE id \in p.batches
      <4>1. PICK b \in 1 .. Len(usage) : usage[b].id = id
        BY <2>1, <3>1 DEF Backed
      <4> QED
        BY <1>3, <4>1
    <3> QED
      BY <3>1
  <2>4. Backed(q)'
    BY <2>2, <2>3 DEF Backed
  <2>5. \A id \in pruned : ~(id > issued)
    BY <1>0 DEF SpoolTypes
  <2>6. ASSUME NEW i \in 1 .. Len(m), m[i].id \in pruned PROVE End(m, i) <= mq
    <3>1. i \in 1 .. Len(main)
      BY <1>4, <2>5, <2>6
    <3>2. End(m, i) = End(main, i) /\ End(main, i) <= mp
      BY <1>2, <2>1, <2>6, <3>1 DEF PrunedBehind
    <3>3. End(m, i) \in Nat
      BY <1>1, <1>2, <3>1, EndGrows
    <3> QED
      BY <2>1, <3>2, <3>3
  <2>7. \A l \in q.receipts : l.id \notin pruned
    BY <2>1, <2>5 DEF PrunedBehind
  <2>8. PrunedBehind(q, mq)'
    BY <2>6, <2>7 DEF PrunedBehind
  <2>9. AllAnswered(q)'
    <3>1. \A id \in acked : Answers(q, id)
      BY DEF AllAnswered, Answers
    <3> QED
      BY <3>1 DEF AllAnswered
  <2>10. PlansHold(q, mq)'
    BY <2>1, PlansGrow
  <2> QED
    BY <2>4, <2>8, <2>9, <2>10 DEF ProjInv, Answering
<1>10. Resumed'.main = mq /\ Resumed'.usage = uq
  <2>1. mq <= Bytes(main') /\ uq <= Bytes(usage')
    BY <1>1
  <2> QED
    BY <2>1, OffsetsStored
<1>11. ProjInv(proj, Resumed.main, Resumed.usage)'
  BY <1>9, <1>10, Rephrased
<1>12. FilesInv'
  BY <1>6, <1>7, <1>8 DEF FilesInv
<1> QED
  BY <1>11, <1>12 DEF SpoolInv

LEMMA GrownOrder ==
    ASSUME NEW X \in {MainLine, UsageLine}, NEW file \in Seq(X \cup TornLine), NEW new \in Seq(X \cup TornLine),
           NEW l, Grown(new, file, l), Ordered(file), issued \in Nat, l.id \in Nat, l.id > issued
    PROVE  /\ Arrives(new, file)
           /\ \A i, j \in 1 .. Len(new) : i < j => new[i].id < new[j].id
           /\ \A i \in 1 .. Len(new) : new[i].id <= l.id
           /\ \A i \in 1 .. Len(new) : new[i].kind = "torn" => i = Len(new)
<1>0. Len(file) \in Nat /\ Len(new) = Len(file) + 1 /\ new[Len(file) + 1] = l
  BY DEF Grown
<1>1. ASSUME NEW i \in 1 .. Len(file)
      PROVE  /\ new[i].id = file[i].id /\ file[i].id \in Nat /\ file[i].id <= issued
             /\ new[i].kind # "torn"
  <2>1. file[i] \in X \cup TornLine
    BY ElementOfSeq
  <2>2. file[i] \in Lines /\ file[i].id \in Nat
    BY <2>1, LineKinds DEF Lines, ReceiptId
  <2>3. SameOrEnded(new[i], file[i])
    BY DEF Grown
  <2>4. new[i].id = file[i].id
    BY <2>2, <2>3, TornToEnded
  <2>5. i # Len(file) => file[i].kind # "torn"
    BY DEF Ordered
  <2>6. new[i].kind # "torn"
    BY <2>5 DEF Grown
  <2> QED
    BY <2>2, <2>4, <2>6 DEF Ordered
<1>2. \A i \in 1 .. Len(new) : i \in 1 .. Len(file) \/ (i = Len(file) + 1 /\ new[i] = l)
  BY <1>0
<1>3. Arrives(new, file)
  BY <1>0, <1>2 DEF Arrives, Grown, Continues
<1>4. ASSUME NEW i \in 1 .. Len(new), NEW j \in 1 .. Len(new), i < j PROVE new[i].id < new[j].id
  <2>1. i \in 1 .. Len(file)
    BY <1>0, <1>4
  <2>2. CASE j \in 1 .. Len(file)
    BY <1>1, <1>4, <2>1, <2>2 DEF Ordered
  <2>3. CASE j \notin 1 .. Len(file)
    <3>1. new[j] = l
      BY <1>2, <2>3
    <3>2. PICK x \in Nat, y \in Nat : x = new[i].id /\ y = new[j].id /\ x <= issued /\ y > issued
      BY <1>1, <2>1, <3>1
    <3> QED
      BY <3>2
  <2> QED
    BY <2>2, <2>3
<1>5. ASSUME NEW i \in 1 .. Len(new) PROVE new[i].id <= l.id
  <2>1. CASE i \in 1 .. Len(file)
    <3>1. new[i].id \in Nat /\ new[i].id <= issued
      BY <1>1, <2>1
    <3> QED
      BY <3>1
  <2> QED
    BY <1>2, <2>1
<1>6. \A i \in 1 .. Len(new) : new[i].kind = "torn" => i = Len(new)
  BY <1>0, <1>1, <1>2
<1> QED
  BY <1>3, <1>4, <1>5, <1>6

\* What an append and a reconciliation begin with.
LEMMA Ready ==
    ASSUME SpoolInv, NEW r \in Recoveries, ~r.raised, issued < MaxReceipt
    PROVE  /\ FilesInv /\ SpoolTypes /\ OrderInv /\ issued \in Nat
           /\ ProjInv(r.proj, Bytes(main), Bytes(usage)) /\ AllAnswered(r.proj) /\ r.proj \in Projections
           /\ r.main = Bytes(main) /\ r.usage = Bytes(usage) /\ Bytes(main) \in Nat /\ Bytes(usage) \in Nat
           /\ NewId \in ReceiptId /\ NewId > issued /\ NewId \in issued .. MaxReceipt
           /\ \A id \in acked : ~(id > issued)
<1>1. FilesInv /\ SpoolTypes /\ OrderInv /\ issued \in Nat
  BY DEF SpoolInv, FilesInv, SpoolTypes
<1>2. Known(r) /\ r.main = Bytes(main) /\ r.usage = Bytes(usage) /\ AllAnswered(r.proj)
  BY RecoveryAnswers
<1>3. ProjInv(r.proj, Bytes(main), Bytes(usage)) /\ r.proj \in Projections
  BY <1>2 DEF Known, ReplayState
<1>4. NewId \in ReceiptId /\ NewId > issued /\ NewId \in issued .. MaxReceipt
  BY <1>1, SpoolAssumption DEF NewId, ReceiptId
<1>5. \A id \in acked : ~(id > issued)
  BY <1>1 DEF SpoolTypes
<1> QED
  BY <1>1, <1>2, <1>3, <1>4, <1>5, FilesTypes

LEMMA ReceiptAdded ==
    ASSUME NEW p \in Projections, NEW l \in MainLine
    PROVE  /\ WithReceipt(p, l) \in Projections
           /\ WithReceipt(p, l).receipts = p.receipts \cup {l}
           /\ WithReceipt(p, l).batches = p.batches /\ WithReceipt(p, l).errors = p.errors
  BY DEF Projections, WithReceipt

LEMMA BatchAdded ==
    ASSUME NEW p \in Projections, NEW id \in ReceiptId
    PROVE  /\ WithBatch(p, id) \in Projections
           /\ WithBatch(p, id).receipts = p.receipts
           /\ WithBatch(p, id).batches = p.batches \cup {id} /\ WithBatch(p, id).errors = p.errors
  BY DEF Projections, WithBatch

LEMMA MainWritten ==
    ASSUME SpoolInv, NEW r \in Recoveries, ~r.raised, issued < MaxReceipt,
           NEW l \in MainLine \cup TornLine, l.id = NewId, main' = Append1(main, l),
           NEW q, proj' = q, q = r.proj \/ (l \in MainLine /\ q = WithReceipt(r.proj, l)),
           NEW a, a \in {Bytes(main), Bytes(main')}, cursor' = [main |-> a, usage |-> r.usage],
           issued' = NewId,
           acked' = acked \/ (acked' = acked \cup {NewId} /\ l \in MainLine /\ q = WithReceipt(r.proj, l)),
           UNCHANGED <<usage, compaction, pruned, mixed>>
    PROVE  SpoolInv'
<1>1. /\ FilesInv /\ SpoolTypes /\ OrderInv /\ issued \in Nat
      /\ ProjInv(r.proj, Bytes(main), Bytes(usage)) /\ AllAnswered(r.proj) /\ r.proj \in Projections
      /\ r.main = Bytes(main) /\ r.usage = Bytes(usage) /\ Bytes(main) \in Nat /\ Bytes(usage) \in Nat
      /\ NewId \in ReceiptId /\ NewId > issued /\ NewId \in issued .. MaxReceipt
      /\ \A id \in acked : ~(id > issued)
  BY Ready
<1>2. /\ main \in Seq(MainLine \cup TornLine) /\ main \in Seq(Lines) /\ usage \in UsageFile
      /\ Len(main) \in Nat /\ Len(usage) \in Nat
  BY <1>1, FilesTypes
<1>3. PICK m \in Seq(MainLine \cup TornLine) : m = main' /\ Grown(m, main, l)
  BY <1>2, AppendGrows
<1>4. m \in MainFile /\ m \in Seq(Lines) /\ Len(m) = Len(main) + 1 /\ m[Len(m)] = l
  BY <1>3, FilesHaveLines DEF MainFile, Grown
<1>5. l.id \in Nat /\ l.id > issued
  BY <1>1 DEF ReceiptId
<1>6. /\ Arrives(m, main)
      /\ \A i, j \in 1 .. Len(m) : i < j => m[i].id < m[j].id
      /\ \A i \in 1 .. Len(m) : m[i].id <= l.id
      /\ \A i \in 1 .. Len(m) : m[i].kind = "torn" => i = Len(m)
  <2>1. Ordered(main)
    BY <1>1 DEF OrderInv
  <2> QED
    BY <1>1, <1>2, <1>3, <1>5, <2>1, GrownOrder
<1>7. Arrives(usage, usage)
  BY <1>2 DEF Arrives, Continues, SameOrEnded
<1>8. Bytes(main) < Bytes(m) /\ Bytes(m) \in Nat
  <2>1. Bytes(m) \in Nat
    BY <1>4, EndTypes DEF Bytes
  <2> QED
    BY <1>2, <1>3, <1>4, <2>1, GrownEnds
<1>9. a \in 0 .. Bytes(m) /\ Bytes(main) <= a
  BY <1>1, <1>3, <1>8
<1>10. OrderInv'
  <2>1. Ordered(main)'
    BY <1>3, <1>6 DEF Ordered
  <2>2. \A b \in 1 .. Len(usage) : usage[b].id \in Nat /\ usage[b].id <= issued
    BY <1>1, FilesTypes DEF OrderInv, Ordered
  <2>3. Ordered(usage)'
    <3>1. \A b \in 1 .. Len(usage) : usage[b].id <= l.id
      BY <1>1, <1>5, <2>2
    <3> QED
      BY <1>1, <3>1 DEF OrderInv, Ordered
  <2>4. ASSUME NEW i \in 1 .. Len(m), NEW b \in 1 .. Len(usage) PROVE m[i].id # usage[b].id
    <3>1. CASE i \in 1 .. Len(main)
      <4>1. m[i].id = main[i].id
        <5>1. Continues(m, main)
          BY <1>6 DEF Arrives
        <5> QED
          BY <1>2, <1>3, <3>1, <5>1, OldLines
      <4> QED
        BY <1>1, <3>1, <4>1 DEF OrderInv
    <3>2. CASE i \notin 1 .. Len(main)
      <4>1. i > Len(main)
        BY <1>2, <3>2
      <4>2. m[i].id > issued
        BY <1>6, <4>1 DEF Arrives
      <4> QED
        BY <1>1, <2>2, <4>2
    <3> QED
      BY <3>1, <3>2
  <2> QED
    BY <1>3, <2>1, <2>3, <2>4 DEF OrderInv
<1>11. /\ q \in Projections
       /\ r.proj.receipts \subseteq q.receipts /\ r.proj.batches \subseteq q.batches /\ r.proj.errors \subseteq q.errors
       /\ \A k \in q.receipts : k \in r.proj.receipts \/ (k.id > issued /\ k = l)
       /\ \A id \in q.batches : id \in r.proj.batches
       /\ q = WithReceipt(r.proj, l) /\ l \in MainLine => l \in q.receipts
  BY <1>1, <1>5, ReceiptAdded
<1>12. Len(m) \in 1 .. Len(m)
  BY <1>2, <1>4
<1>13. \A k \in q.receipts : k \in r.proj.receipts \/ (k.id > issued /\ \E i \in 1 .. Len(m) : m[i] = k)
  BY <1>4, <1>11, <1>12
<1>14. acked' \subseteq 1 .. issued'
  <2>1. acked \subseteq 1 .. issued
    BY <1>1 DEF SpoolTypes
  <2>2. PICK n \in Nat : n = NewId /\ n > issued
    BY <1>1 DEF ReceiptId
  <2>3. \A id \in acked : id \in 1 .. n
    BY <1>1, <2>1, <2>2
  <2>4. n \in 1 .. n
    BY <1>1, <2>2
  <2> QED
    BY <2>2, <2>3, <2>4
<1>15. ASSUME NEW id \in acked'
       PROVE  id \in acked \/ (id > issued /\ Answers(q, id) /\ \E i \in 1 .. Len(m) : m[i].id = id)
  <2>1. CASE id \notin acked
    <3>1. id = NewId /\ l \in q.receipts
      BY <1>11, <2>1
    <3> QED
      BY <1>1, <1>4, <1>12, <3>1 DEF Answers
  <2> QED
    BY <2>1
<1>16. ASSUME NEW i \in 1 .. Len(m), i > Len(main), m[i].kind \in {"torn", "ended"} PROVE m[i].id \notin acked'
  <2>1. m[i] = l
    BY <1>2, <1>4, <1>16
  <2>2. l \notin MainLine
    BY <1>16, <2>1, LineKinds
  <2>3. acked' = acked
    BY <2>2
  <2> QED
    BY <1>1, <1>5, <2>1, <2>3
<1> QED
  <2>1. PICK u \in UsageFile : u = usage /\ usage' = u
    BY <1>2
  <2>2. r.usage \in 0 .. Bytes(u)
    BY <1>1, <2>1
  <2>3. issued' \in issued .. MaxReceipt
    BY <1>1
  <2>4. \A b \in 1 .. Len(u) : ~(b > Len(usage))
    BY <1>2, <2>1
  <2>5. Arrives(u, usage)
    BY <1>7, <2>1
  <2> QED
    BY <1>1, <1>3, <1>4, <1>6, <1>9, <1>10, <1>11, <1>13, <1>14, <1>15, <1>16,
       <2>1, <2>2, <2>3, <2>4, <2>5, Written, SMTT(30)

LEMMA AppendKeeps ==
    ASSUME SpoolInv, NEW kind \in {"evidence", "link"}, NEW e \in Evidence, AppendRecord(kind, e)
    PROVE  SpoolInv'
<1> DEFINE l == [kind |-> kind, id |-> NewId, of |-> e]
<1>1. PICK r \in Recoveries :
          /\ ~r.raised
          /\ main' = Append1(main, l)
          /\ proj' = WithReceipt(r.proj, l)
          /\ cursor' = [main |-> Bytes(main'), usage |-> r.usage]
  BY DEF AppendRecord
<1>2. issued < MaxReceipt /\ issued' = NewId /\ acked' = acked \cup {NewId} /\ UNCHANGED <<usage, compaction, pruned, mixed>>
  BY DEF AppendRecord
<1>3. l \in MainLine /\ l.id = NewId
  BY <1>1, <1>2, Ready DEF MainLine
<1> HIDE DEF l
<1>4. PICK q, a : q = proj' /\ a = Bytes(main')
  OBVIOUS
<1> QED
  BY <1>1, <1>2, <1>3, <1>4, MainWritten

LEMMA AppendCutKeeps ==
    ASSUME SpoolInv, NEW kind \in {"evidence", "link"}, NEW e \in Evidence, AppendCut(kind, e)
    PROVE  SpoolInv'
<1> DEFINE l == [kind |-> kind, id |-> NewId, of |-> e]
           t == [kind |-> "torn", id |-> NewId]
<1>1. PICK r \in Recoveries :
          /\ ~r.raised
          /\ Stored(r)
          /\ \/ main' = Append1(main, t) /\ proj' = r.proj
             \/ main' = Append1(main, l) /\ proj' \in {r.proj, WithReceipt(r.proj, l)}
  BY DEF AppendCut
<1>2. issued < MaxReceipt /\ issued' = NewId /\ UNCHANGED <<usage, compaction, acked, pruned, mixed>>
  BY DEF AppendCut
<1>3. /\ l \in MainLine /\ l.id = NewId /\ t \in TornLine /\ t.id = NewId
      /\ r.main = Bytes(main) /\ cursor' = [main |-> r.main, usage |-> r.usage]
  BY <1>1, <1>2, Ready DEF MainLine, TornLine, Stored
<1> HIDE DEF l, t
<1>4. PICK q : q = proj'
  OBVIOUS
<1>5. CASE main' = Append1(main, t) /\ proj' = r.proj
  BY <1>1, <1>2, <1>3, <1>4, <1>5, MainWritten
<1>6. CASE main' = Append1(main, l) /\ proj' \in {r.proj, WithReceipt(r.proj, l)}
  BY <1>1, <1>2, <1>3, <1>4, <1>6, MainWritten
<1> QED
  BY <1>1, <1>5, <1>6

LEMMA EndedOrder ==
    ASSUME NEW X \in {MainLine, UsageLine}, NEW file \in Seq(X \cup TornLine), Ordered(file)
    PROVE  /\ EndTorn(file) \in Seq(X \cup TornLine)
           /\ Arrives(EndTorn(file), file) /\ Bytes(EndTorn(file)) = Bytes(file)
           /\ Len(EndTorn(file)) = Len(file)
           /\ \A i \in 1 .. Len(file) : EndTorn(file)[i].id = file[i].id /\ EndTorn(file)[i].kind # "torn"
<1> DEFINE new == EndTorn(file)
<1>1. /\ new \in Seq(X \cup TornLine) /\ Len(new) = Len(file)
      /\ \A i \in 1 .. Len(file) : /\ SameOrEnded(new[i], file[i])
                                   /\ i = Len(file) => new[i].kind # "torn"
                                   /\ i # Len(file) => new[i] = file[i]
  BY TornIsEnded
<1> HIDE DEF new
<1>2. Len(file) \in Nat /\ X \cup TornLine \subseteq Lines /\ file \in Seq(Lines) /\ new \in Seq(Lines)
  <2>1. X \cup TornLine \subseteq Lines
    BY DEF Lines
  <2> QED
    BY <1>1, <2>1, SeqMonotonic
<1>3. Continues(new, file)
  BY <1>1, <1>2 DEF Continues
<1>4. Arrives(new, file)
  BY <1>1, <1>2, <1>3 DEF Arrives
<1>5. Bytes(new) = Bytes(file)
  <2>1. Len(file) \in 0 .. Len(file)
    BY <1>2
  <2>2. End(new, Len(file)) = End(file, Len(file))
    BY <1>2, <1>3, <2>1, ContinuesEnds
  <2> QED
    BY <1>1, <2>2 DEF Bytes
<1>6. ASSUME NEW i \in 1 .. Len(file) PROVE new[i].id = file[i].id /\ new[i].kind # "torn"
  <2>1. file[i] \in Lines
    BY <1>2, ElementOfSeq
  <2>2. new[i].id = file[i].id
    BY <1>1, <2>1, TornToEnded
  <2>3. i # Len(file) => file[i].kind # "torn"
    BY DEF Ordered
  <2> QED
    BY <1>1, <2>2, <2>3
<1> QED
  BY <1>1, <1>4, <1>5, <1>6 DEF new

LEMMA UsageWritten ==
    ASSUME SpoolInv, NEW r \in Recoveries, ~r.raised, issued < MaxReceipt,
           NEW l \in UsageLine \cup TornLine, l.id = NewId, l.kind = "usage" => l.fence = Bytes(main),
           main' = EndTorn(main), usage' = Append1(usage, l),
           NEW q, proj' = q, q = r.proj \/ (l \in UsageLine /\ q = WithBatch(r.proj, NewId)),
           NEW a, a \in {Bytes(usage), Bytes(usage')}, cursor' = [main |-> r.main, usage |-> a],
           issued' = NewId,
           acked' = acked \/ (acked' = acked \cup {NewId} /\ l \in UsageLine /\ q = WithBatch(r.proj, NewId)),
           UNCHANGED <<compaction, pruned, mixed>>
    PROVE  SpoolInv'
<1>1. /\ FilesInv /\ SpoolTypes /\ OrderInv /\ issued \in Nat
      /\ ProjInv(r.proj, Bytes(main), Bytes(usage)) /\ AllAnswered(r.proj) /\ r.proj \in Projections
      /\ r.main = Bytes(main) /\ r.usage = Bytes(usage) /\ Bytes(main) \in Nat /\ Bytes(usage) \in Nat
      /\ NewId \in ReceiptId /\ NewId > issued /\ NewId \in issued .. MaxReceipt
      /\ \A id \in acked : ~(id > issued)
  BY Ready
<1>2. /\ main \in Seq(MainLine \cup TornLine) /\ usage \in Seq(UsageLine \cup TornLine) /\ usage \in Seq(Lines)
      /\ Len(main) \in Nat /\ Len(usage) \in Nat
  BY <1>1, FilesTypes
<1>3. PICK u \in Seq(UsageLine \cup TornLine) : u = usage' /\ Grown(u, usage, l)
  BY <1>2, AppendGrows
<1>4. u \in UsageFile /\ u \in Seq(Lines) /\ Len(u) = Len(usage) + 1 /\ u[Len(u)] = l
  BY <1>3, FilesHaveLines DEF UsageFile, Grown
<1>5. l.id \in Nat /\ l.id > issued
  BY <1>1 DEF ReceiptId
<1>o. Ordered(main) /\ Ordered(usage)
  BY <1>1 DEF OrderInv
<1>6. /\ Arrives(u, usage)
      /\ \A i, j \in 1 .. Len(u) : i < j => u[i].id < u[j].id
      /\ \A i \in 1 .. Len(u) : u[i].id <= l.id
      /\ \A i \in 1 .. Len(u) : u[i].kind = "torn" => i = Len(u)
  BY <1>1, <1>2, <1>3, <1>5, <1>o, GrownOrder
<1>7. PICK m \in Seq(MainLine \cup TornLine) :
          /\ m = main' /\ Arrives(m, main) /\ Bytes(m) = Bytes(main) /\ Len(m) = Len(main)
          /\ \A i \in 1 .. Len(main) : m[i].id = main[i].id /\ m[i].kind # "torn"
  BY <1>2, <1>o, EndedOrder
<1>8. m \in MainFile /\ m \in Seq(Lines)
  BY FilesHaveLines DEF MainFile
<1>9. Bytes(usage) < Bytes(u) /\ Bytes(u) \in Nat
  <2>1. Bytes(u) \in Nat
    BY <1>4, EndTypes DEF Bytes
  <2> QED
    BY <1>2, <1>3, <1>4, <2>1, GrownEnds
<1>10. a \in 0 .. Bytes(u)
  BY <1>1, <1>3, <1>9
<1>11. \A i \in 1 .. Len(m) : m[i].id \in Nat /\ m[i].id <= issued /\ m[i].id < NewId
  <2>1. ASSUME NEW i \in 1 .. Len(m) PROVE m[i].id \in Nat /\ m[i].id <= issued
    BY <1>1, <1>7, <1>o, FilesTypes DEF Ordered
  <2>2. PICK n \in Nat : n = NewId /\ n > issued
    BY <1>1 DEF ReceiptId
  <2> QED
    BY <1>1, <2>1, <2>2
<1>12. OrderInv'
  <2>1. \A i \in 1 .. Len(m) : m[i].id <= l.id
    BY <1>5, <1>11
  <2>2. \A i, j \in 1 .. Len(m) : i < j => m[i].id < m[j].id
    BY <1>7, <1>o DEF Ordered
  <2>3. Ordered(main)'
    BY <1>7, <2>1, <2>2 DEF Ordered
  <2>4. Ordered(usage)'
    BY <1>3, <1>6 DEF Ordered
  <2>5. ASSUME NEW i \in 1 .. Len(m), NEW b \in 1 .. Len(u) PROVE m[i].id # u[b].id
    <3>1. CASE b \in 1 .. Len(usage)
      <4>1. Continues(u, usage)
        BY <1>6 DEF Arrives
      <4>2. u[b].id = usage[b].id
        BY <1>2, <3>1, <4>1, OldLines
      <4> QED
        BY <1>1, <1>7, <3>1, <4>2 DEF OrderInv
    <3>2. CASE b \notin 1 .. Len(usage)
      <4>1. b > Len(usage)
        BY <1>2, <3>2
      <4>2. u[b].id > issued
        BY <1>6, <4>1 DEF Arrives
      <4> QED
        BY <1>1, <1>11, <4>2
    <3> QED
      BY <3>1, <3>2
  <2> QED
    BY <1>3, <1>7, <2>3, <2>4, <2>5 DEF OrderInv
<1>13. /\ q \in Projections
       /\ r.proj.receipts \subseteq q.receipts /\ r.proj.batches \subseteq q.batches /\ r.proj.errors \subseteq q.errors
       /\ \A k \in q.receipts : k \in r.proj.receipts
       /\ \A id \in q.batches : id \in r.proj.batches \/ id = l.id
       /\ q = WithBatch(r.proj, NewId) => NewId \in q.batches
  BY <1>1, BatchAdded
<1>14. Len(u) \in 1 .. Len(u)
  BY <1>2, <1>4
<1>15. \A id \in q.batches : id \in r.proj.batches \/ \E b \in 1 .. Len(u) : u[b].id = id
  BY <1>4, <1>13, <1>14
<1>16. acked' \subseteq 1 .. issued'
  <2>1. acked \subseteq 1 .. issued
    BY <1>1 DEF SpoolTypes
  <2>2. PICK n \in Nat : n = NewId /\ n > issued
    BY <1>1 DEF ReceiptId
  <2>3. \A id \in acked : id \in 1 .. n
    BY <1>1, <2>1, <2>2
  <2>4. n \in 1 .. n
    BY <1>1, <2>2
  <2> QED
    BY <2>2, <2>3, <2>4
<1>17. ASSUME NEW id \in acked'
       PROVE  id \in acked \/ (id > issued /\ Answers(q, id) /\ \E b \in 1 .. Len(u) : u[b].id = id)
  <2>1. CASE id \notin acked
    <3>1. id = NewId /\ NewId \in q.batches
      BY <1>13, <2>1
    <3> QED
      BY <1>1, <1>4, <1>14, <3>1 DEF Answers
  <2> QED
    BY <2>1
<1>18. ASSUME NEW b \in 1 .. Len(u), b > Len(usage), u[b].kind \in {"torn", "ended"} PROVE u[b].id \notin acked'
  <2>1. u[b] = l
    BY <1>2, <1>4, <1>18
  <2>2. l \notin UsageLine
    BY <1>18, <2>1, LineKinds
  <2>3. acked' = acked
    BY <2>2
  <2> QED
    BY <1>1, <1>5, <2>1, <2>3
<1>19. ASSUME NEW b \in 1 .. Len(u), b > Len(usage), u[b].kind = "usage" PROVE Splits(u[b].fence, u[b].id)'
  <2>1. u[b] = l
    BY <1>2, <1>4, <1>19
  <2>2. u[b].fence = Bytes(m) /\ u[b].id = NewId
    BY <1>7, <1>19, <2>1
  <2>3. ASSUME NEW i \in 1 .. Len(m) PROVE End(m, i) <= Bytes(m)
    <3>1. i \in 0 .. Len(m) /\ Len(m) \in 0 .. Len(m) /\ i <= Len(m)
      BY <1>2, <1>7
    <3> QED
      BY <1>8, <3>1, EndMonotonic DEF Bytes
  <2>4. Bytes(m) <= Bytes(m)
    BY <1>1, <1>7
  <2>5. PICK fence, id, n : fence = u[b].fence /\ id = u[b].id /\ n = NewId
    OBVIOUS
  <2>6. Splits(fence, id)'
    BY <1>7, <1>11, <2>2, <2>3, <2>4, <2>5 DEF Splits
  <2> QED
    BY <2>5, <2>6
<1> QED
  <2>1. r.main \in 0 .. Bytes(m) /\ Bytes(main) <= r.main
    BY <1>1, <1>7
  <2>2. issued' \in issued .. MaxReceipt
    BY <1>1
  <2>3. \A i \in 1 .. Len(m) : ~(i > Len(main))
    BY <1>2, <1>7
  <2>4. \A k \in q.receipts : k \in r.proj.receipts
    BY <1>13
  <2> QED
    BY <1>1, <1>3, <1>4, <1>6, <1>7, <1>8, <1>10, <1>12, <1>13, <1>15, <1>16, <1>17, <1>18, <1>19,
       <2>1, <2>2, <2>3, <2>4, Written, SMTT(30)

LEMMA ReconcileKeeps ==
    ASSUME SpoolInv, Reconcile
    PROVE  SpoolInv'
<1> DEFINE l == [kind |-> "usage", id |-> NewId, fence |-> Bytes(main)]
<1>1. PICK r \in Recoveries :
          /\ ~r.raised
          /\ main' = EndTorn(main)
          /\ usage' = Append1(usage, l)
          /\ proj' = WithBatch(r.proj, NewId)
          /\ cursor' = [main |-> r.main, usage |-> Bytes(usage')]
  BY DEF Reconcile
<1>2. issued < MaxReceipt /\ issued' = NewId /\ acked' = acked \cup {NewId} /\ UNCHANGED <<compaction, pruned, mixed>>
  BY DEF Reconcile
<1>3. l \in UsageLine /\ l.id = NewId /\ l.fence = Bytes(main)
  BY <1>1, <1>2, Ready DEF UsageLine
<1> HIDE DEF l
<1>4. PICK q, a : q = proj' /\ a = Bytes(usage')
  OBVIOUS
<1> QED
  BY <1>1, <1>2, <1>3, <1>4, UsageWritten

LEMMA ReconcileCutKeeps ==
    ASSUME SpoolInv, ReconcileCut
    PROVE  SpoolInv'
<1> DEFINE l == [kind |-> "usage", id |-> NewId, fence |-> Bytes(main)]
           t == [kind |-> "torn", id |-> NewId]
<1>1. PICK r \in Recoveries :
          /\ ~r.raised
          /\ Stored(r)
          /\ main' = EndTorn(main)
          /\ \/ usage' = Append1(usage, t) /\ proj' = r.proj
             \/ usage' = Append1(usage, l) /\ proj' \in {r.proj, WithBatch(r.proj, NewId)}
  BY DEF ReconcileCut
<1>2. issued < MaxReceipt /\ issued' = NewId /\ UNCHANGED <<compaction, acked, pruned, mixed>>
  BY DEF ReconcileCut
<1>3. /\ l \in UsageLine /\ l.id = NewId /\ l.fence = Bytes(main)
      /\ t \in TornLine /\ t.id = NewId /\ t.kind # "usage"
      /\ r.usage = Bytes(usage) /\ cursor' = [main |-> r.main, usage |-> r.usage]
  BY <1>1, <1>2, Ready DEF UsageLine, TornLine, Stored
<1> HIDE DEF l, t
<1>4. PICK q : q = proj'
  OBVIOUS
<1>5. CASE usage' = Append1(usage, t) /\ proj' = r.proj
  BY <1>1, <1>2, <1>3, <1>4, <1>5, UsageWritten
<1>6. CASE usage' = Append1(usage, l) /\ proj' \in {r.proj, WithBatch(r.proj, NewId)}
  BY <1>1, <1>2, <1>3, <1>4, <1>6, UsageWritten
<1> QED
  BY <1>1, <1>5, <1>6

-----------------------------------------------------------------------------
(* Prune, and the projection that is deleted.                              *)

LEMMA PruneKeeps ==
    ASSUME SpoolInv, NEW selection, Prune(selection)
    PROVE  SpoolInv'
<1> DEFINE gone == {l \in proj.receipts : l.kind = "evidence" /\ l.of \in selection}
           Behind(l) == \E i \in DOMAIN main : main[i] = l /\ End(main, i) <= Resumed.main
<1>1. /\ proj' = [proj EXCEPT !.receipts = @ \ gone]
      /\ pruned' = pruned \cup {l.id : l \in {k \in gone : Behind(k)}}
      /\ acked' = acked \ {l.id : l \in gone}
      /\ UNCHANGED <<main, usage, cursor, compaction, issued, mixed>>
  BY DEF Prune
<1>2. FilesInv /\ SpoolTypes /\ OrderInv /\ AckedInv /\ FenceInv /\ ProjInv(proj, Resumed.main, Resumed.usage)
  BY DEF SpoolInv, FilesInv
<1>3. PICK mp, up, p, q : mp = Resumed.main /\ up = Resumed.usage /\ p = proj /\ q = proj'
  OBVIOUS
<1>4. /\ p \in Projections /\ mp \in 0 .. Bytes(main) /\ up \in 0 .. Bytes(usage)
      /\ Backed(p) /\ PrunedBehind(p, mp) /\ Answering(p, mp, up) /\ PlansHold(p, mp)
  BY <1>2, <1>3 DEF ProjInv
<1>5. DOMAIN main = 1 .. Len(main)
  BY <1>2, FilesTypes
<1>6. /\ gone \subseteq p.receipts
      /\ \A l \in gone : Behind(l) => \E i \in 1 .. Len(main) : main[i] = l /\ End(main, i) <= mp
  BY <1>3, <1>5
<1>7. q = [p EXCEPT !.receipts = @ \ gone]
  BY <1>1, <1>3
<1> DEFINE dropped == {l.id : l \in {k \in gone : Behind(k)}}
<1>8. \A id \in dropped : \E l \in gone : id = l.id /\ Behind(l)
  OBVIOUS
<1>9. acked' \subseteq acked /\ \A l \in gone : l.id \notin acked'
  BY <1>1
<1>10. pruned' = pruned \cup dropped
  BY <1>1
<1> HIDE DEF gone, Behind, dropped
<1>11. q \in Projections /\ q.receipts = p.receipts \ gone /\ q.batches = p.batches /\ q.errors = p.errors
  BY <1>4, <1>7 DEF Projections
<1>12. Backed(q)'
  BY <1>1, <1>4, <1>11 DEF Backed
<1>13. PrunedBehind(q, mp)'
  <2>1. ASSUME NEW i \in 1 .. Len(main), main[i].id \in pruned' PROVE End(main, i) <= mp
    <3>1. CASE main[i].id \in pruned
      BY <1>4, <3>1 DEF PrunedBehind
    <3>2. CASE main[i].id \in dropped
      <4>1. PICK l \in gone : main[i].id = l.id /\ Behind(l)
        BY <1>8, <3>2
      <4>2. PICK k \in 1 .. Len(main) : main[k] = l /\ End(main, k) <= mp
        BY <1>6, <4>1
      <4>3. i = k
        BY <1>2, <4>1, <4>2, SameLine
      <4> QED
        BY <4>2, <4>3
    <3> QED
      BY <1>10, <2>1, <3>1, <3>2
  <2>2. ASSUME NEW l \in q.receipts PROVE l.id \notin pruned'
    <3>1. l \in p.receipts /\ l \notin gone /\ l.id \notin pruned
      BY <1>4, <1>11 DEF PrunedBehind
    <3>2. ASSUME l.id \in dropped PROVE FALSE
      <4>1. PICK g \in gone : l.id = g.id
        BY <1>8, <3>2
      <4>2. PICK i \in 1 .. Len(main) : main[i] = l
        BY <1>4, <3>1 DEF Backed
      <4>3. PICK k \in 1 .. Len(main) : main[k] = g
        BY <1>4, <1>6 DEF Backed
      <4>4. i = k
        BY <1>2, <4>1, <4>2, <4>3, SameLine
      <4> QED
        BY <3>1, <4>2, <4>3, <4>4
    <3> QED
      BY <1>10, <3>1, <3>2
  <2> QED
    BY <1>1, <2>1, <2>2 DEF PrunedBehind
<1>14. Answering(q, mp, up)'
  <2>1. ASSUME NEW id \in acked', Answers(p, id) PROVE Answers(q, id)
    <3>1. \A l \in p.receipts : l.id = id => l \in q.receipts
      BY <1>9, <1>11
    <3> QED
      BY <1>11, <2>1, <3>1 DEF Answers
  <2>2. AllAnswered(p) => AllAnswered(q)'
    BY <1>9, <2>1 DEF AllAnswered
  <2>3. Passed(main, mp, p) => Passed(main, mp, q)'
    BY <1>1, <1>9, <2>1 DEF Passed
  <2>4. Passed(usage, up, p) => Passed(usage, up, q)'
    BY <1>1, <1>9, <2>1 DEF Passed
  <2> QED
    BY <1>1, <1>4, <2>2, <2>3, <2>4 DEF Answering, AtLine
<1>15. PlansHold(q, mp)'
  <2>1. ASSUME NEW plan, PlanHolds(plan, p, mp) PROVE PlanHolds(plan, q, mp)'
    <3>1. PlanFiles(plan)'
      BY <1>1, <2>1 DEF PlanHolds, PlanFiles
    <3>2. PlanDrops(plan, q)'
      BY <1>1, <1>9, <1>11, <2>1 DEF PlanHolds, PlanDrops
    <3> QED
      BY <1>1, <2>1, <3>1, <3>2 DEF PlanHolds
  <2>2. ASSUME NEW c \in Compactor, compaction[c].phase # "idle", compaction[c].current
        PROVE  PlanHolds(compaction[c], q, mp)'
    <3>1. PICK plan : plan = compaction[c]
      OBVIOUS
    <3>2. PlanHolds(plan, p, mp)
      BY <1>4, <2>2, <3>1 DEF PlansHold
    <3>3. PlanHolds(plan, q, mp)'
      BY <2>1, <3>2
    <3> QED
      BY <1>1, <3>1, <3>3 DEF PlanHolds, PlanFiles, PlanDrops
  <2> QED
    BY <1>1, <2>2 DEF PlansHold
<1>16. mp \in (0 .. Bytes(main))' /\ up \in (0 .. Bytes(usage))'
  BY <1>1, <1>4
<1>17. ProjInv(q, mp, up)'
  BY <1>11, <1>12, <1>13, <1>14, <1>15, <1>16 DEF ProjInv
<1>18. mp = Resumed'.main /\ up = Resumed'.usage
  BY <1>1, <1>3 DEF Resumed
<1>19. ProjInv(proj, Resumed.main, Resumed.usage)'
  BY <1>3, <1>17, <1>18, Rephrased
<1>20. SpoolTypes'
  <2>1. ASSUME NEW id \in dropped PROVE id \in 1 .. issued
    <3>1. PICK l \in gone : id = l.id /\ Behind(l)
      BY <1>8
    <3>2. PICK i \in 1 .. Len(main) : main[i] = l
      BY <1>6, <3>1
    <3>3. main[i].id \in ReceiptId /\ main[i].id <= issued
      BY <1>2, FilesTypes, LineKinds DEF OrderInv, Ordered
    <3>4. issued \in Nat
      BY <1>2 DEF SpoolTypes
    <3> QED
      BY <3>1, <3>2, <3>3, <3>4 DEF ReceiptId
  <2>2. pruned' \subseteq 1 .. issued
    BY <1>2, <1>10, <2>1 DEF SpoolTypes
  <2> QED
    BY <1>1, <1>2, <1>3, <1>9, <1>11, <2>2 DEF SpoolTypes
<1>21. OrderInv' /\ FenceInv'
  <2>1. OrderInv'
    BY <1>1, <1>2 DEF OrderInv, Ordered
  <2>2. FenceInv'
    BY <1>1, <1>2 DEF FenceInv, Splits
  <2> QED
    BY <2>1, <2>2
<1>22. AckedInv'
  BY <1>1, <1>2, <1>9 DEF AckedInv
<1> QED
  BY <1>19, <1>20, <1>21, <1>22 DEF SpoolInv, FilesInv

LEMMA DeleteKeeps ==
    ASSUME SpoolInv, DeleteProjection
    PROVE  SpoolInv'
<1>1. /\ \A c \in Compactor : compaction[c].phase = "idle"
      /\ proj' = Empty /\ cursor' = [main |-> 0, usage |-> 0] /\ pruned' = {}
      /\ UNCHANGED <<main, usage, compaction, issued, acked, mixed>>
  BY DEF DeleteProjection
<1>2. FilesInv /\ SpoolTypes /\ OrderInv /\ AckedInv /\ FenceInv
  BY DEF SpoolInv, FilesInv
<1>3. PICK z, q : z = 0 /\ q = Empty
  OBVIOUS
<1>4. /\ q \in Projections /\ q.receipts = {} /\ q.batches = {}
      /\ cursor' = [main |-> z, usage |-> z] /\ cursor' \in [main : Nat, usage : Nat]
  BY <1>1, <1>3 DEF Empty, Projections
<1>5. /\ main \in Seq(Lines) /\ usage \in Seq(Lines) /\ Len(main) \in Nat /\ Len(usage) \in Nat
      /\ Bytes(main) \in Nat /\ Bytes(usage) \in Nat
  BY <1>2, FilesTypes
<1>6. z \in 0 .. Bytes(main) /\ z \in 0 .. Bytes(usage)
  BY <1>3, <1>5
<1>7. ASSUME NEW file \in Seq(Lines) PROVE AtLine(file, z) /\ \A i \in 1 .. Len(file) : ~(End(file, i) <= z)
  <2>1. End(file, 0) = 0 /\ z \in 0 .. Len(file) /\ End(file, z) = z
    BY <1>3, EndUnfolds
  <2>2. \A i \in 1 .. Len(file) : End(file, i) \in Nat /\ Start(file, i) \in Nat /\ Start(file, i) < End(file, i)
    BY EndGrows
  <2> QED
    BY <1>3, <2>1, <2>2 DEF AtLine
<1>8. Answering(q, z, z)'
  BY <1>1, <1>5, <1>7 DEF Answering, Passed, AtLine
<1>9. Backed(q)' /\ PrunedBehind(q, z)'
  BY <1>1, <1>4 DEF Backed, PrunedBehind
<1>10. PlansHold(q, z)'
  BY <1>1 DEF PlansHold
<1>11. ProjInv(q, z, z)'
  BY <1>1, <1>4, <1>6, <1>8, <1>9, <1>10 DEF ProjInv
<1>12. Resumed'.main = z /\ Resumed'.usage = z
  <2>1. z <= Bytes(main') /\ z <= Bytes(usage')
    BY <1>1, <1>6
  <2> QED
    BY <1>4, <2>1, OffsetsStored
<1>13. ProjInv(proj, Resumed.main, Resumed.usage)'
  BY <1>1, <1>3, <1>11, <1>12, Rephrased
<1>14. SpoolTypes'
  BY <1>1, <1>2, <1>3, <1>4 DEF SpoolTypes
<1>15. OrderInv'
  BY <1>1, <1>2 DEF OrderInv, Ordered
<1>16. FenceInv' /\ AckedInv'
  BY <1>1, <1>2 DEF FenceInv, Splits, AckedInv
<1> QED
  BY <1>13, <1>14, <1>15, <1>16 DEF SpoolInv, FilesInv

-----------------------------------------------------------------------------
(* What a compaction writes, and the rebuild that verifies it.             *)

LEMMA Fenced ==
    ASSUME NEW l \in UsageLine \cup TornLine, NEW fence, l.kind = "usage" => fence \in Nat
    PROVE  /\ WithFence(l, fence) \in UsageLine \cup TornLine
           /\ WithFence(l, fence).id = l.id /\ WithFence(l, fence).kind = l.kind
           /\ l.kind = "usage" => WithFence(l, fence).fence = fence
<1>1. CASE l \in UsageLine
  <2>1. fence \in Nat
    BY <1>1, LineKinds
  <2> QED
    BY <1>1, <2>1 DEF UsageLine, WithFence
<1>2. CASE l \in TornLine
  BY <1>2, LineKinds DEF WithFence
<1> QED
  BY <1>1, <1>2

LEMMA RefencedTypes ==
    ASSUME NEW plan, plan.main \in MainFile, NEW fence
    PROVE  Refenced(plan, fence) \in Nat
<1> DEFINE S == {i \in DOMAIN plan.main : Start(plan.main, i) < fence}
<1>1. plan.main \in Seq(MainLine \cup TornLine) /\ Len(plan.main) \in Nat /\ DOMAIN plan.main = 1 .. Len(plan.main)
  BY DEF MainFile
<1>2. IsFiniteSet(1 .. Len(plan.main)) /\ Cardinality(1 .. Len(plan.main)) = Len(plan.main)
  BY <1>1, FS_Interval
<1>3. S \subseteq 1 .. Len(plan.main)
  BY <1>1
<1>4. Cardinality(S) \in Nat /\ Cardinality(S) <= Len(plan.main)
  <2> HIDE DEF S
  <2> QED
    BY <1>2, <1>3, FS_Subset, FS_CardinalityType
<1>5. Cardinality(S) \in 0 .. Len(plan.main)
  BY <1>1, <1>4
<1> HIDE DEF S
<1>6. Kept(plan, plan.main)[Cardinality(S)] \in Seq(MainLine \cup TornLine)
  BY <1>1, <1>5, KeptTypes
<1>7. Kept(plan, plan.main)[Cardinality(S)] \in Seq(Lines)
  BY <1>6, FilesHaveLines DEF MainFile
<1>8. Bytes(Kept(plan, plan.main)[Cardinality(S)]) \in Nat
  <2>1. PICK f \in Seq(Lines) : f = Kept(plan, plan.main)[Cardinality(S)]
    BY <1>7
  <2>2. Len(f) \in 0 .. Len(f)
    OBVIOUS
  <2>3. End(f, Len(f)) \in Nat
    BY <2>2, EndTypes
  <2> QED
    BY <2>1, <2>3 DEF Bytes
<1> QED
  BY <1>8 DEF Refenced, S

\* A usage file whose fences are moved.
FenceFor(old, fence) == \A b \in 1 .. Len(old) : old[b].kind = "usage" => fence[b] \in Nat

LEMMA Moved ==
    ASSUME NEW old \in UsageFile, NEW fence, FenceFor(old, fence),
           NEW new, new = [b \in DOMAIN old |-> WithFence(old[b], fence[b])]
    PROVE  /\ new \in UsageFile /\ Len(new) = Len(old) /\ DOMAIN new = 1 .. Len(old)
           /\ \A b \in 1 .. Len(old) :
                 /\ new[b].id = old[b].id /\ new[b].kind = old[b].kind
                 /\ old[b].kind = "usage" => new[b].fence = fence[b]
<1>1. old \in Seq(UsageLine \cup TornLine) /\ Len(old) \in Nat /\ DOMAIN old = 1 .. Len(old)
  BY DEF UsageFile
<1>2. ASSUME NEW b \in 1 .. Len(old)
      PROVE  /\ new[b] \in UsageLine \cup TornLine /\ new[b].id = old[b].id /\ new[b].kind = old[b].kind
             /\ old[b].kind = "usage" => new[b].fence = fence[b]
  <2>1. old[b] \in UsageLine \cup TornLine /\ new[b] = WithFence(old[b], fence[b])
    BY <1>1, ElementOfSeq
  <2>2. PICK l, f : l \in UsageLine \cup TornLine /\ l = old[b] /\ f = fence[b] /\ (l.kind = "usage" => f \in Nat)
    BY <2>1 DEF FenceFor
  <2>3. /\ WithFence(l, f) \in UsageLine \cup TornLine
        /\ WithFence(l, f).id = l.id /\ WithFence(l, f).kind = l.kind
        /\ l.kind = "usage" => WithFence(l, f).fence = f
    BY <2>2, Fenced
  <2>4. new[b] = WithFence(l, f)
    BY <2>1, <2>2
  <2> QED
    BY <2>2, <2>3, <2>4
<1>3. new = [b \in 1 .. Len(old) |-> new[b]]
  BY <1>1
<1>4. new \in Seq(UsageLine \cup TornLine) /\ Len(new) = Len(old)
  BY <1>1, <1>2, <1>3
<1> QED
  BY <1>1, <1>2, <1>3, <1>4 DEF UsageFile

LEMMA CandidateFiles ==
    ASSUME NEW plan, plan.main \in MainFile, plan.usage \in UsageFile
    PROVE  /\ Candidate(plan) \in MainFile /\ CandidateUsage(plan) \in UsageFile
           /\ Ids(CandidateUsage(plan)) \subseteq {plan.usage[b].id : b \in 1 .. Len(plan.usage)}
           /\ \A id \in Ids(Candidate(plan)) :
                 \E i \in 1 .. Len(plan.main) : id = plan.main[i].id /\ ~Droppable(plan, plan.main[i])
<1>1. plan.main \in Seq(MainLine \cup TornLine) /\ Len(plan.main) \in 0 .. Len(plan.main) /\ Len(plan.main) \in Nat
  BY DEF MainFile
<1>2. PICK f \in Seq(MainLine \cup TornLine) : f = Candidate(plan)
  BY <1>1, KeptTypes DEF Candidate
<1>3. ASSUME NEW id \in Ids(f)
      PROVE  \E i \in 1 .. Len(plan.main) : id = plan.main[i].id /\ ~Droppable(plan, plan.main[i])
  <2>1. PICK j \in 1 .. Len(f) : id = f[j].id
    BY <1>3 DEF Ids
  <2>2. PICK z : z = 0
    OBVIOUS
  <2>3. z \in 0 .. Len(plan.main) /\ Len(plan.main) \in z .. Len(plan.main)
    BY <1>1, <2>2
  <2>4. Extends(plan, plan.main, z, Len(plan.main))
    BY <1>1, <2>3, KeptExtends
  <2>5. Kept(plan, plan.main)[z] = <<>>
    BY <1>1, <2>2, KeptUnfolds
  <2>6. Len(Kept(plan, plan.main)[z]) = z
    BY <2>2, <2>5
  <2>7. \A k \in z + 1 .. Len(f) : \E i \in z + 1 .. Len(plan.main) : f[k] = plan.main[i] /\ ~Droppable(plan, plan.main[i])
    BY <1>2, <2>4, <2>6 DEF Extends, Candidate
  <2>8. j \in z + 1 .. Len(f) /\ z + 1 .. Len(plan.main) \subseteq 1 .. Len(plan.main)
    BY <2>2
  <2> QED
    BY <2>1, <2>7, <2>8
<1> DEFINE fence == [b \in 1 .. Len(plan.usage) |-> Refenced(plan, plan.usage[b].fence)]
<1>4. \A b \in 1 .. Len(plan.usage) : fence[b] \in Nat
  BY RefencedTypes
<1>5. DOMAIN plan.usage = 1 .. Len(plan.usage)
  BY DEF UsageFile
<1>6. CandidateUsage(plan) = [b \in DOMAIN plan.usage |-> WithFence(plan.usage[b], fence[b])]
  BY <1>5 DEF CandidateUsage
<1> HIDE DEF fence
<1>7. PICK new : new = CandidateUsage(plan)
  OBVIOUS
<1>8. /\ new \in UsageFile /\ DOMAIN new = 1 .. Len(plan.usage)
      /\ \A b \in 1 .. Len(plan.usage) : new[b].id = plan.usage[b].id
  <2>1. PICK old \in UsageFile : old = plan.usage
    OBVIOUS
  <2>2. FenceFor(old, fence)
    BY <1>4, <2>1 DEF FenceFor
  <2>3. new = [b \in DOMAIN old |-> WithFence(old[b], fence[b])]
    BY <1>6, <1>7, <2>1
  <2>4. /\ new \in UsageFile /\ Len(new) = Len(old) /\ DOMAIN new = 1 .. Len(old)
        /\ \A b \in 1 .. Len(old) :
              /\ new[b].id = old[b].id /\ new[b].kind = old[b].kind
              /\ old[b].kind = "usage" => new[b].fence = fence[b]
    BY <2>2, <2>3, Moved
  <2> QED
    BY <2>1, <2>4
<1>9. Ids(new) \subseteq {plan.usage[b].id : b \in 1 .. Len(plan.usage)}
  BY <1>8 DEF Ids
<1> QED
  BY <1>2, <1>3, <1>7, <1>8, <1>9 DEF MainFile

\* A rebuild has errors only about the lines of the files that it reads.
LEMMA RebuildErrors ==
    ASSUME NEW m \in MainFile, NEW u \in UsageFile, NEW r \in Replays(m, u, FromZero)
    PROVE  \A e \in r.proj.errors : e[1] \in Ids(m) \cup Ids(u)
<1> DEFINE Good == {s \in ReplayState(m, u) : \A e \in s.proj.errors : e[1] \in Ids(m) \cup Ids(u)}
<1>0. /\ m \in Seq(MainLine \cup TornLine) /\ u \in Seq(UsageLine \cup TornLine)
      /\ Len(m) \in Nat /\ Len(u) \in Nat /\ DOMAIN m = 1 .. Len(m) /\ DOMAIN u = 1 .. Len(u)
  BY DEF MainFile, UsageFile
<1>1. Bytes(m) \in Nat /\ Bytes(u) \in Nat
  BY FilesHaveLines, EndTypes DEF Bytes
<1>2. FromZero \in Good
  <2>1. Empty \in Projections /\ Empty.errors = {}
    BY DEF Empty, Projections
  <2>2. PICK z : z = 0
    OBVIOUS
  <2>3. z \in 0 .. Bytes(m) /\ z \in 0 .. Bytes(u) /\ FromZero = [main |-> z, usage |-> z, proj |-> Empty, raised |-> FALSE]
    BY <1>1, <2>2 DEF FromZero
  <2>4. FromZero \in ReplayState(m, u) /\ FromZero.proj = Empty
    BY <2>1, <2>3 DEF ReplayState
  <2> QED
    BY <2>1, <2>4
<1>3. ASSUME NEW s \in Good, NEW t \in ReplayStep(m, u, s) PROVE t \in Good
  <2>1. s \in ReplayState(m, u) /\ s.proj \in Projections /\ \A e \in s.proj.errors : e[1] \in Ids(m) \cup Ids(u)
    BY DEF ReplayState
  <2>2. t \in ReplayState(m, u) /\ (ReadsMain(m, s, t) \/ ReadsUsage(u, s, t) \/ Raises(s, t))
    BY <2>1, ReplayStepReads
  <2>3. ASSUME ReadsMain(m, s, t) PROVE \A e \in t.proj.errors : e[1] \in Ids(m) \cup Ids(u)
    <3>1. PICK i \in 1 .. Len(m) : t.proj \in Projected(s.proj, m, i, s.main)
      BY <2>3 DEF ReadsMain, Reads
    <3>2. \A e \in t.proj.errors : e \in s.proj.errors \/ e[1] = m[i].id
      BY <1>0, <2>1, <3>1, ProjectedTypes
    <3>3. m[i].id \in Ids(m)
      BY <1>0 DEF Ids
    <3> QED
      BY <2>1, <3>2, <3>3
  <2>4. ASSUME ReadsUsage(u, s, t) PROVE \A e \in t.proj.errors : e[1] \in Ids(m) \cup Ids(u)
    <3>1. PICK i \in 1 .. Len(u) : t.proj \in Projected(s.proj, u, i, s.usage)
      BY <2>4 DEF ReadsUsage, Reads
    <3>2. \A e \in t.proj.errors : e \in s.proj.errors \/ e[1] = u[i].id
      BY <1>0, <2>1, <3>1, ProjectedTypes
    <3>3. u[i].id \in Ids(u)
      BY <1>0 DEF Ids
    <3> QED
      BY <2>1, <3>2, <3>3
  <2>5. ASSUME Raises(s, t) PROVE \A e \in t.proj.errors : e[1] \in Ids(m) \cup Ids(u)
    BY <2>1, <2>5 DEF Raises
  <2> QED
    BY <2>2, <2>3, <2>4, <2>5
<1>4. Replays(m, u, FromZero) \subseteq Good
  <2> HIDE DEF Good
  <2>1. \A s \in Good : ReplayStep(m, u, s) \subseteq Good
    BY <1>3
  <2> QED
    BY <1>0, <1>2, <2>1, ReplayStays
<1> QED
  BY <1>4

-----------------------------------------------------------------------------
(* Compaction up to the swap.                                              *)

LEMMA PlansHoldAgain ==
    ASSUME NEW p, NEW mp,
           \A c \in Compactor : \A plan :
              plan = compaction'[c] /\ plan.phase # "idle" /\ plan.current => PlanHolds(plan, p, mp)'
    PROVE  PlansHold(p, mp)'
<1> SUFFICES ASSUME NEW c \in Compactor, compaction'[c].phase # "idle", compaction'[c].current
    PROVE  PlanHolds(compaction[c], p, mp)'
  BY DEF PlansHold
<1>1. PICK plan : plan = compaction'[c]
  OBVIOUS
<1>2. PlanHolds(plan, p, mp)'
  BY <1>1
<1> QED
  BY <1>1, <1>2 DEF PlanHolds, PlanFiles, PlanDrops

\* The files are as they were; only what the compactors know changes.
LEMMA OnlyPlans ==
    ASSUME FilesInv, UNCHANGED <<main, usage, issued, acked, pruned, mixed>>,
           proj' \in Projections, cursor' \in [main : Nat, usage : Nat],
           compaction' \in [Compactor -> Plan]
    PROVE  FilesInv'
<1>1. SpoolTypes'
  BY DEF FilesInv, SpoolTypes
<1>2. OrderInv'
  BY DEF FilesInv, OrderInv, Ordered
<1>3. AckedInv'
  BY DEF FilesInv, AckedInv
<1>4. FenceInv'
  BY DEF FilesInv, FenceInv, Splits
<1> QED
  BY <1>1, <1>2, <1>3, <1>4 DEF FilesInv

LEMMA OnlyPlansProj ==
    ASSUME NEW p, NEW mp, NEW up, ProjInv(p, mp, up), AllAnswered(p),
           UNCHANGED <<main, usage, acked, pruned>>, PlansHold(p, mp)'
    PROVE  ProjInv(p, mp, up)'
<1>1. Backed(p)' /\ PrunedBehind(p, mp)'
  BY DEF ProjInv, Backed, PrunedBehind
<1>2. Answering(p, mp, up)'
  BY DEF Answering, AllAnswered
<1>3. p \in Projections /\ mp \in (0 .. Bytes(main))' /\ up \in (0 .. Bytes(usage))'
  BY DEF ProjInv
<1> QED
  BY <1>1, <1>2, <1>3 DEF ProjInv

\* A plan that holds goes on holding while the files stay as they are.
LEMMA PlanCarried ==
    ASSUME NEW plan, NEW p, NEW mp, PlanHolds(plan, p, mp), UNCHANGED <<main, usage, acked>>
    PROVE  PlanHolds(plan, p, mp)'
  BY DEF PlanHolds, PlanFiles, PlanDrops

LEMMA PrepareKeeps ==
    ASSUME SpoolInv, NEW c \in Compactor, Prepare(c)
    PROVE  SpoolInv'
<1>1. PICK r \in Recoveries :
          /\ ~r.raised
          /\ proj' = r.proj
          /\ Stored(r)
          /\ compaction' = [compaction EXCEPT ![c] =
                [phase |-> "prepared", main |-> main, usage |-> usage,
                 keys |-> {KeyOf[e] : e \in Versions(r.proj)}, guarded |-> Linked(r.proj),
                 current |-> TRUE]]
  BY DEF Prepare
<1>2. UNCHANGED <<main, usage, issued, acked, pruned, mixed>>
  BY DEF Prepare
<1>3. Known(r) /\ r.main = Bytes(main) /\ r.usage = Bytes(usage) /\ AllAnswered(r.proj)
  BY <1>1, RecoveryAnswers
<1>4. FilesInv /\ SpoolTypes /\ Bytes(main) \in Nat /\ Bytes(usage) \in Nat
      /\ main \in MainFile /\ usage \in UsageFile /\ Len(main) \in Nat /\ Len(usage) \in Nat
  BY FilesTypes DEF SpoolInv, FilesInv
<1>5. PICK p, mp, up : p = r.proj /\ mp = r.main /\ up = r.usage
  OBVIOUS
<1>6. ProjInv(p, mp, up) /\ p \in Projections /\ AllAnswered(p) /\ mp = Bytes(main) /\ up = Bytes(usage)
  BY <1>3, <1>5 DEF Known, ReplayState
<1>7. Versions(p) \subseteq Evidence /\ Linked(p) \subseteq Evidence
  <2>1. p.receipts \subseteq MainLine
    BY <1>6 DEF Projections
  <2> QED
    BY <2>1, LineKinds DEF Versions, Linked
<1>8. PICK plan : plan = [phase |-> "prepared", main |-> main, usage |-> usage,
                          keys |-> {KeyOf[e] : e \in Versions(p)}, guarded |-> Linked(p),
                          current |-> TRUE]
  OBVIOUS
<1>9. plan \in Plan
  <2>1. {KeyOf[e] : e \in Versions(p)} \subseteq Evidence
    BY <1>7, SpoolAssumption
  <2> QED
    BY <1>4, <1>7, <1>8, <2>1 DEF Plan
<1>10. compaction' = [compaction EXCEPT ![c] = plan]
  BY <1>1, <1>5, <1>8
<1>11. compaction' \in [Compactor -> Plan] /\ compaction'[c] = plan
       /\ \A d \in Compactor : d # c => compaction'[d] = compaction[d]
  BY <1>4, <1>9, <1>10 DEF SpoolTypes
<1>12. cursor' = [main |-> mp, usage |-> up] /\ cursor' \in [main : Nat, usage : Nat]
  BY <1>1, <1>4, <1>5, <1>6 DEF Stored
<1>13. PlanHolds(plan, p, mp)
  <2>1. plan.main = main /\ plan.usage = usage
    BY <1>8
  <2>2. Continues(main, main) /\ Continues(usage, usage)
    BY <1>4 DEF Continues, SameOrEnded
  <2>3. PlanFiles(plan)
    BY <1>4, <2>1, <2>2 DEF PlanFiles
  <2>4. ASSUME NEW l \in p.receipts, Droppable(plan, l) PROVE FALSE
    <3>1. l.of \in Versions(p)
      BY <2>4 DEF Droppable, Versions
    <3>2. KeyOf[l.of] \in plan.keys
      BY <1>8, <3>1
    <3> QED
      BY <2>4, <3>2 DEF Droppable
  <2>5. PlanDrops(plan, p)
    BY <1>8, <2>4 DEF PlanDrops
  <2>6. End(main, Len(plan.main)) <= mp
    BY <1>4, <1>6, <2>1 DEF Bytes
  <2> QED
    BY <2>3, <2>5, <2>6 DEF PlanHolds
<1>14. PlansHold(p, mp)'
  <2>1. ASSUME NEW d \in Compactor, NEW old, old = compaction'[d], old.phase # "idle", old.current
        PROVE  PlanHolds(old, p, mp)'
    <3>1. PlanHolds(old, p, mp)
      <4>1. CASE d = c
        BY <1>11, <1>13, <2>1, <4>1
      <4>2. CASE d # c
        <5>1. old = compaction[d]
          BY <1>11, <2>1, <4>2
        <5> QED
          BY <1>6, <2>1, <5>1 DEF ProjInv, PlansHold
      <4> QED
        BY <4>1, <4>2
    <3> QED
      BY <1>2, <3>1, PlanCarried
  <2> QED
    BY <2>1, PlansHoldAgain
<1>15. ProjInv(p, mp, up)'
  BY <1>2, <1>6, <1>14, OnlyPlansProj
<1>16. mp = Resumed'.main /\ up = Resumed'.usage
  <2>1. mp <= Bytes(main') /\ up <= Bytes(usage')
    BY <1>2, <1>4, <1>6
  <2> QED
    BY <1>12, <2>1, OffsetsStored
<1>17. ProjInv(proj, Resumed.main, Resumed.usage)'
  BY <1>1, <1>5, <1>15, <1>16, Rephrased
<1>18. FilesInv'
  BY <1>1, <1>2, <1>4, <1>5, <1>6, <1>11, <1>12, OnlyPlans
<1> QED
  BY <1>17, <1>18 DEF SpoolInv

\* What a verified plan drops was not acknowledged: an acknowledged line that is
\* not projected has an error recorded, and the rebuild has no errors about lines
\* that it does not read.
LEMMA DroppedWasNotAcked ==
    ASSUME FilesInv, NEW p, NEW mp, ProjInv(p, mp, Resumed.usage), AllAnswered(p), p = proj,
           NEW plan, plan.main \in MainFile, plan.usage \in UsageFile, PlanHolds(plan, p, mp),
           NEW r \in Replayed(Candidate(plan), CandidateUsage(plan), FromZero), Covered(plan, r.proj),
           NEW i \in 1 .. Len(plan.main), Droppable(plan, main[i])
    PROVE  main[i].id \notin acked
<1>1. SpoolTypes /\ OrderInv
  BY DEF FilesInv
<1>2. Backed(p) /\ PlanFiles(plan) /\ PlanDrops(plan, p)
  BY DEF ProjInv, PlanHolds
<1>3. /\ Continues(main, plan.main) /\ Continues(usage, plan.usage)
      /\ Len(plan.main) \in Nat /\ Len(plan.usage) \in Nat /\ Len(main) \in Nat /\ Len(usage) \in Nat
      /\ Len(plan.main) <= Len(main) /\ Len(plan.usage) <= Len(usage)
      /\ plan.main \in Seq(Lines) /\ plan.usage \in Seq(Lines)
  <2>1. plan.main \in Seq(Lines) /\ plan.usage \in Seq(Lines)
    BY FilesHaveLines
  <2>2. Len(plan.main) \in Nat /\ Len(plan.usage) \in Nat
    BY <2>1
  <2>3. Continues(main, plan.main) /\ Continues(usage, plan.usage)
    BY <1>2 DEF PlanFiles
  <2>4. Len(plan.main) <= Len(main) /\ Len(plan.usage) <= Len(usage)
    BY <2>3 DEF Continues
  <2> QED
    BY <1>1, <2>1, <2>2, <2>3, <2>4, FilesTypes
<1>4. i \in 1 .. Len(main)
  BY <1>3
<1>5. main[i] = plan.main[i]
  <2>1. main[i].kind = "evidence"
    BY DEF Droppable
  <2>2. SameOrEnded(main[i], plan.main[i]) /\ plan.main[i] \in Lines
    BY <1>3, ElementOfSeq DEF Continues
  <2> QED
    BY <2>1, <2>2, TornToEnded
<1> SUFFICES ASSUME main[i].id \in acked PROVE FALSE
  OBVIOUS
<1>6. Answers(p, main[i].id)
  BY DEF AllAnswered
<1>7. CASE \E l \in p.receipts : l.id = main[i].id
  <2>1. PICK l \in p.receipts : l.id = main[i].id
    BY <1>7
  <2>2. PICK k \in 1 .. Len(main) : main[k] = l
    BY <1>2 DEF Backed
  <2>3. k = i
    BY <1>1, <1>4, <2>1, <2>2, SameLine
  <2> QED
    BY <1>2, <2>2, <2>3 DEF PlanDrops
<1>8. CASE main[i].id \in p.batches
  <2>1. PICK b \in 1 .. Len(usage) : usage[b].id = main[i].id
    BY <1>2, <1>8 DEF Backed
  <2> QED
    BY <1>1, <1>4, <2>1 DEF OrderInv
<1>9. CASE <<main[i].id, "refused">> \in p.errors
  <2>1. <<main[i].id, "refused">> \in r.proj.errors
    BY <1>9 DEF Covered
  <2>2. /\ Candidate(plan) \in MainFile /\ CandidateUsage(plan) \in UsageFile
        /\ Ids(CandidateUsage(plan)) \subseteq {plan.usage[b].id : b \in 1 .. Len(plan.usage)}
        /\ \A id \in Ids(Candidate(plan)) :
              \E k \in 1 .. Len(plan.main) : id = plan.main[k].id /\ ~Droppable(plan, plan.main[k])
    BY CandidateFiles
  <2>3. r \in Replays(Candidate(plan), CandidateUsage(plan), FromZero)
    BY DEF Replayed
  <2>4. PICK e : e = <<main[i].id, "refused">> /\ e[1] = main[i].id
    <3>1. <<main[i].id, "refused">>[1] = main[i].id
      OBVIOUS
    <3> QED
      BY <3>1
  <2>5. e[1] \in Ids(Candidate(plan)) \cup Ids(CandidateUsage(plan))
    BY <2>1, <2>2, <2>3, <2>4, RebuildErrors
  <2>6. CASE main[i].id \in Ids(Candidate(plan))
    <3>1. PICK k \in 1 .. Len(plan.main) : main[i].id = plan.main[k].id /\ ~Droppable(plan, plan.main[k])
      BY <2>2, <2>6
    <3>2. k \in 1 .. Len(main) /\ SameOrEnded(main[k], plan.main[k]) /\ plan.main[k] \in Lines
      BY <1>3, ElementOfSeq DEF Continues
    <3>3. main[k].id = plan.main[k].id
      BY <3>2, TornToEnded
    <3>4. k = i
      BY <1>1, <1>4, <3>1, <3>2, <3>3, SameLine
    <3> QED
      BY <1>5, <3>1, <3>4
  <2>7. CASE main[i].id \in Ids(CandidateUsage(plan))
    <3>1. PICK b \in 1 .. Len(plan.usage) : main[i].id = plan.usage[b].id
      BY <2>2, <2>7
    <3>2. b \in 1 .. Len(usage) /\ SameOrEnded(usage[b], plan.usage[b]) /\ plan.usage[b] \in Lines
      BY <1>3, ElementOfSeq DEF Continues
    <3>3. usage[b].id = plan.usage[b].id
      BY <3>2, TornToEnded
    <3> QED
      BY <1>1, <1>4, <3>1, <3>2, <3>3 DEF OrderInv
  <2> QED
    BY <2>4, <2>5, <2>6, <2>7
<1> QED
  BY <1>6, <1>7, <1>8, <1>9 DEF Answers

\* While some compaction is under way, the projection answers for everything.
LEMMA BusyAnswers ==
    ASSUME SpoolInv, NEW c \in Compactor, compaction[c].phase # "idle"
    PROVE  AllAnswered(proj)
  BY DEF SpoolInv, ProjInv, Answering

LEMMA VerifyKeeps ==
    ASSUME SpoolInv, NEW c \in Compactor, Verify(c)
    PROVE  SpoolInv'
<1>1. PICK plan : plan = compaction[c]
  OBVIOUS
<1>2. /\ plan.phase = "prepared"
      /\ \E r \in Replayed(Candidate(plan), CandidateUsage(plan), FromZero) :
            ~r.raised /\ Covered(plan, r.proj)
      /\ compaction' = [compaction EXCEPT ![c].phase = "verified"]
      /\ UNCHANGED <<main, usage, proj, cursor, issued, acked, pruned, mixed>>
  BY <1>1 DEF Verify
<1>3. FilesInv /\ SpoolTypes /\ ProjInv(proj, Resumed.main, Resumed.usage) /\ AllAnswered(proj)
  BY <1>1, <1>2, BusyAnswers DEF SpoolInv, FilesInv
<1>4. PICK p, mp, up : p = proj /\ mp = Resumed.main /\ up = Resumed.usage
  OBVIOUS
<1>5. ProjInv(p, mp, up) /\ AllAnswered(p) /\ p \in Projections
  BY <1>3, <1>4 DEF ProjInv
<1>6. plan \in Plan
  BY <1>1, <1>3 DEF SpoolTypes
<1>7. PICK new : new = [plan EXCEPT !.phase = "verified"]
  OBVIOUS
<1>8. /\ new \in Plan /\ new.phase = "verified" /\ new.main = plan.main /\ new.usage = plan.usage
      /\ new.keys = plan.keys /\ new.guarded = plan.guarded /\ new.current = plan.current
  BY <1>6, <1>7 DEF Plan
<1>9. compaction' \in [Compactor -> Plan] /\ compaction'[c] = new
      /\ \A d \in Compactor : d # c => compaction'[d] = compaction[d]
  <2>1. compaction \in [Compactor -> Plan]
    BY <1>3 DEF SpoolTypes
  <2>2. compaction' = [compaction EXCEPT ![c] = new]
    BY <1>1, <1>2, <1>7, <2>1
  <2> QED
    BY <1>8, <2>1, <2>2
<1>10. \A l : Droppable(new, l) <=> Droppable(plan, l)
  BY <1>8 DEF Droppable
<1>11. ASSUME new.current PROVE PlanHolds(new, p, mp)
  <2>1. PlanHolds(plan, p, mp)
    BY <1>1, <1>2, <1>5, <1>8, <1>11 DEF ProjInv, PlansHold
  <2>2. PlanFiles(new)
    BY <1>8, <2>1 DEF PlanHolds, PlanFiles
  <2>3. plan.main \in MainFile /\ plan.usage \in UsageFile
    BY <1>6 DEF Plan
  <2>4. PICK r \in Replayed(Candidate(plan), CandidateUsage(plan), FromZero) : Covered(plan, r.proj)
    BY <1>2
  <2>5. \A i \in 1 .. Len(plan.main) : Droppable(plan, main[i]) => main[i].id \notin acked
    BY <1>3, <1>4, <1>5, <2>1, <2>3, <2>4, DroppedWasNotAcked
  <2>6. PlanDrops(new, p)
    BY <1>8, <1>10, <2>1, <2>5 DEF PlanHolds, PlanDrops
  <2> QED
    BY <1>8, <2>1, <2>2, <2>6 DEF PlanHolds
<1>12. PlansHold(p, mp)'
  <2>1. ASSUME NEW d \in Compactor, NEW old, old = compaction'[d], old.phase # "idle", old.current
        PROVE  PlanHolds(old, p, mp)'
    <3>1. PlanHolds(old, p, mp)
      <4>1. CASE d = c
        BY <1>9, <1>11, <2>1, <4>1
      <4>2. CASE d # c
        <5>1. old = compaction[d]
          BY <1>9, <2>1, <4>2
        <5> QED
          BY <1>5, <2>1, <5>1 DEF ProjInv, PlansHold
      <4> QED
        BY <4>1, <4>2
    <3> QED
      BY <1>2, <3>1, PlanCarried
  <2> QED
    BY <2>1, PlansHoldAgain
<1>13. ProjInv(p, mp, up)'
  BY <1>2, <1>5, <1>12, OnlyPlansProj
<1>14. mp = Resumed'.main /\ up = Resumed'.usage
  BY <1>2, <1>4 DEF Resumed
<1>15. ProjInv(proj, Resumed.main, Resumed.usage)'
  BY <1>2, <1>4, <1>13, <1>14, Rephrased
<1>16. FilesInv'
  <2>1. cursor' \in [main : Nat, usage : Nat] /\ proj' \in Projections
    BY <1>2, <1>3 DEF SpoolTypes
  <2> QED
    BY <1>2, <1>3, <1>9, <2>1, OnlyPlans
<1> QED
  BY <1>15, <1>16 DEF SpoolInv

LEMMA IdleIsPlan == Idle \in Plan /\ Idle.phase = "idle"
<1>1. PICK e : e = <<>>
  OBVIOUS
<1>2. e \in MainFile /\ e \in UsageFile
  BY <1>1 DEF MainFile, UsageFile
<1>3. Idle = [phase |-> "idle", main |-> e, usage |-> e, keys |-> {}, guarded |-> {}, current |-> FALSE]
  BY <1>1 DEF Idle
<1> QED
  BY <1>2, <1>3 DEF Plan

LEMMA AbandonKeeps ==
    ASSUME SpoolInv, NEW c \in Compactor, Abandon(c)
    PROVE  SpoolInv'
<1>1. /\ compaction[c].phase # "idle"
      /\ compaction' = [compaction EXCEPT ![c] = Idle]
      /\ UNCHANGED <<main, usage, proj, cursor, issued, acked, pruned, mixed>>
  BY DEF Abandon
<1>2. FilesInv /\ SpoolTypes /\ ProjInv(proj, Resumed.main, Resumed.usage) /\ AllAnswered(proj)
  BY <1>1, BusyAnswers DEF SpoolInv, FilesInv
<1>3. PICK p, mp, up : p = proj /\ mp = Resumed.main /\ up = Resumed.usage
  OBVIOUS
<1>4. ProjInv(p, mp, up) /\ AllAnswered(p)
  BY <1>2, <1>3
<1>5. compaction' \in [Compactor -> Plan]
      /\ \A d \in Compactor : compaction'[d] = compaction[d] \/ compaction'[d].phase = "idle"
  BY <1>1, <1>2, IdleIsPlan DEF SpoolTypes
<1>6. PlansHold(p, mp)'
  <2>1. ASSUME NEW d \in Compactor, NEW old, old = compaction'[d], old.phase # "idle", old.current
        PROVE  PlanHolds(old, p, mp)'
    <3>1. old = compaction[d]
      BY <1>5, <2>1
    <3>2. PlanHolds(old, p, mp)
      BY <1>4, <2>1, <3>1 DEF ProjInv, PlansHold
    <3> QED
      BY <1>1, <3>2, PlanCarried
  <2> QED
    BY <2>1, PlansHoldAgain
<1>7. ProjInv(p, mp, up)'
  BY <1>1, <1>4, <1>6, OnlyPlansProj
<1>8. mp = Resumed'.main /\ up = Resumed'.usage
  BY <1>1, <1>3 DEF Resumed
<1>9. ProjInv(proj, Resumed.main, Resumed.usage)'
  BY <1>1, <1>3, <1>7, <1>8, Rephrased
<1>10. FilesInv'
  <2>1. cursor' \in [main : Nat, usage : Nat] /\ proj' \in Projections
    BY <1>1, <1>2 DEF SpoolTypes
  <2> QED
    BY <1>1, <1>2, <1>5, <2>1, OnlyPlans
<1> QED
  BY <1>9, <1>10 DEF SpoolInv

-----------------------------------------------------------------------------
(* The swap.                                                               *)

\* What is kept is in order.
LEMMA KeptOrdered ==
    ASSUME NEW plan, NEW L, NEW file \in Seq(L),
           \A i, j \in 1 .. Len(file) : i < j => file[i].id < file[j].id
    PROVE  \A n \in 0 .. Len(file) : \A i, j \in 1 .. Len(Kept(plan, file)[n]) :
              i < j => Kept(plan, file)[n][i].id < Kept(plan, file)[n][j].id
<1> DEFINE Good(n) == \A i, j \in 1 .. Len(Kept(plan, file)[n]) :
                          i < j => Kept(plan, file)[n][i].id < Kept(plan, file)[n][j].id
           S == {n \in 0 .. Len(file) : Good(n)}
<1>0. PICK z : z = 0
  OBVIOUS
<1>1. Len(file) \in Nat /\ z \in 0 .. Len(file)
  BY <1>0
<1>2. z \in S
  <2>1. Kept(plan, file)[z] = <<>>
    BY <1>0, <1>1, KeptUnfolds
  <2>2. Len(Kept(plan, file)[z]) = 0
    BY <2>1
  <2> QED
    BY <1>1, <2>2
<1>3. ASSUME NEW k \in z + 1 .. Len(file), k - 1 \in S PROVE k \in S
  <2>1. k \in 1 .. Len(file) /\ k - 1 \in 0 .. Len(file) /\ k \in 0 .. Len(file)
    BY <1>0, <1>1
  <2>2. PICK few \in Seq(L) : few = Kept(plan, file)[k - 1]
    BY <2>1, KeptTypes
  <2>3. PICK all \in Seq(L) : all = Kept(plan, file)[k]
    BY <2>1, KeptTypes
  <2>4. all = few \/ all = Append(few, file[k])
    BY <1>1, <2>1, <2>2, <2>3, KeptUnfolds
  <2>5. \A i, j \in 1 .. Len(few) : i < j => few[i].id < few[j].id
    BY <1>3, <2>2
  <2>6. CASE all = few
    BY <2>1, <2>3, <2>5, <2>6
  <2>7. CASE all = Append(few, file[k])
    <3>1. Len(all) = Len(few) + 1 /\ all[Len(few) + 1] = file[k] /\ Len(few) \in Nat
          /\ \A i \in 1 .. Len(few) : all[i] = few[i]
      BY <2>1, <2>7, ElementOfSeq
    <3>2. ASSUME NEW i \in 1 .. Len(few) PROVE few[i].id < file[k].id
      <4>1. Extends(plan, file, z, k - 1)
        <5>1. k - 1 \in z .. Len(file)
          BY <1>0, <2>1
        <5> QED
          BY <1>1, <5>1, KeptExtends
      <4>2. Kept(plan, file)[z] = <<>>
        BY <1>0, <1>1, KeptUnfolds
      <4>3. Len(Kept(plan, file)[z]) = z
        BY <1>0, <4>2
      <4>4. \A j \in z + 1 .. Len(few) : \E x \in z + 1 .. k - 1 : few[j] = file[x]
        BY <2>2, <4>1, <4>3 DEF Extends
      <4>5. PICK x \in z + 1 .. k - 1 : few[i] = file[x]
        BY <1>0, <3>1, <4>4
      <4>6. x \in 1 .. Len(file) /\ x < k
        BY <1>0, <1>1, <2>1
      <4> QED
        BY <2>1, <4>5, <4>6
    <3>3. ASSUME NEW i \in 1 .. Len(all), NEW j \in 1 .. Len(all), i < j PROVE all[i].id < all[j].id
      <4>1. i \in 1 .. Len(few)
        BY <3>1, <3>3
      <4>2. CASE j \in 1 .. Len(few)
        BY <2>5, <3>1, <3>3, <4>1, <4>2
      <4>3. CASE j \notin 1 .. Len(few)
        <5>1. j = Len(few) + 1
          BY <3>1, <4>3
        <5> QED
          BY <3>1, <3>2, <4>1, <5>1
      <4> QED
        BY <4>2, <4>3
    <3> QED
      BY <2>1, <2>3, <3>3
  <2> QED
    BY <2>4, <2>6, <2>7
<1>4. \A k \in z .. Len(file) : k \in S
  <2> HIDE DEF S
  <2> QED
    BY <1>1, <1>2, <1>3, AlongFile
<1> QED
  BY <1>0, <1>4

\* Of a file that went on from another, lines as long are kept as of the other.
KeptAlike(f, g) ==
    Len(f) = Len(g) /\ \A j \in 1 .. Len(f) : LineBytes(f[j]) = LineBytes(g[j])

LEMMA SameKept ==
    ASSUME NEW plan, NEW old \in MainFile, NEW file \in MainFile, Continues(file, old)
    PROVE  \A n \in 0 .. Len(old) : KeptAlike(Kept(plan, file)[n], Kept(plan, old)[n])
<1> DEFINE S == {n \in 0 .. Len(old) : KeptAlike(Kept(plan, file)[n], Kept(plan, old)[n])}
           L == MainLine \cup TornLine
<1>0. PICK z : z = 0
  OBVIOUS
<1>1. /\ old \in Seq(L) /\ file \in Seq(L) /\ Len(old) \in Nat /\ Len(file) \in Nat /\ Len(old) <= Len(file)
      /\ z \in 0 .. Len(old)
  BY <1>0 DEF MainFile, Continues
<1>2. z \in S
  <2>1. Kept(plan, old)[z] = <<>> /\ Kept(plan, file)[z] = <<>>
    BY <1>0, <1>1, KeptUnfolds
  <2>2. KeptAlike(<<>>, <<>>)
    BY DEF KeptAlike
  <2> QED
    BY <1>1, <2>1, <2>2
<1>3. ASSUME NEW k \in z + 1 .. Len(old), k - 1 \in S PROVE k \in S
  <2>1. k \in 1 .. Len(old) /\ k - 1 \in 0 .. Len(old) /\ k \in 0 .. Len(old)
        /\ k \in 1 .. Len(file) /\ k - 1 \in 0 .. Len(file) /\ k \in 0 .. Len(file)
    BY <1>0, <1>1
  <2>2. PICK f \in Seq(L), g \in Seq(L) : f = Kept(plan, file)[k - 1] /\ g = Kept(plan, old)[k - 1]
    BY <1>1, <2>1, KeptTypes
  <2>3. PICK x \in L, y \in L : x = file[k] /\ y = old[k]
    BY <1>1, <2>1, ElementOfSeq
  <2>4. /\ Kept(plan, file)[k] = IF Droppable(plan, x) THEN f ELSE Append(f, x)
        /\ Kept(plan, old)[k] = IF Droppable(plan, y) THEN g ELSE Append(g, y)
    BY <1>1, <2>1, <2>2, <2>3, KeptUnfolds
  <2>5. KeptAlike(f, g)
    BY <1>3, <2>2
  <2>6. LineBytes(x) = LineBytes(y) /\ (Droppable(plan, x) <=> Droppable(plan, y))
    <3>1. SameOrEnded(x, y) /\ y \in Lines
      BY <2>1, <2>3 DEF Continues, Lines
    <3>2. LineBytes(x) = LineBytes(y) /\ (x = y \/ (y.kind = "torn" /\ x.kind = "ended"))
      BY <3>1, TornToEnded
    <3> QED
      BY <3>2 DEF Droppable
  <2>7. CASE Droppable(plan, x)
    BY <2>1, <2>4, <2>5, <2>6, <2>7
  <2>8. CASE ~Droppable(plan, x)
    <3>1. Kept(plan, file)[k] = Append(f, x) /\ Kept(plan, old)[k] = Append(g, y)
      BY <2>4, <2>6, <2>8
    <3>2. /\ Len(Append(f, x)) = Len(f) + 1 /\ Append(f, x)[Len(f) + 1] = x
          /\ \A j \in 1 .. Len(f) : Append(f, x)[j] = f[j]
          /\ Len(Append(g, y)) = Len(g) + 1 /\ Append(g, y)[Len(g) + 1] = y
          /\ \A j \in 1 .. Len(g) : Append(g, y)[j] = g[j]
          /\ Len(f) \in Nat
      OBVIOUS
    <3>3. ASSUME NEW j \in 1 .. Len(f) + 1 PROVE LineBytes(Append(f, x)[j]) = LineBytes(Append(g, y)[j])
      <4>1. CASE j \in 1 .. Len(f)
        BY <2>5, <3>2, <4>1 DEF KeptAlike
      <4>2. CASE j = Len(f) + 1
        BY <2>5, <2>6, <3>2, <4>2 DEF KeptAlike
      <4>3. Len(f) \in Nat
        OBVIOUS
      <4>4. j \in 1 .. Len(f) \/ j = Len(f) + 1
        BY <4>3
      <4> QED
        BY <4>1, <4>2, <4>4
    <3>4. KeptAlike(Append(f, x), Append(g, y))
      BY <2>5, <3>2, <3>3 DEF KeptAlike
    <3> QED
      BY <2>1, <3>1, <3>4
  <2> QED
    BY <2>7, <2>8
<1>4. \A k \in z .. Len(old) : k \in S
  <2> HIDE DEF S
  <2> QED
    BY <1>1, <1>2, <1>3, AlongFile
<1> QED
  BY <1>0, <1>4

LEMMA SameKeptBytes ==
    ASSUME NEW plan, NEW old \in MainFile, NEW file \in MainFile, Continues(file, old), NEW n \in 0 .. Len(old)
    PROVE  Bytes(Kept(plan, file)[n]) = Bytes(Kept(plan, old)[n])
<1>1. old \in Seq(MainLine \cup TornLine) /\ file \in Seq(MainLine \cup TornLine) /\ n \in 0 .. Len(file)
  BY DEF MainFile, Continues
<1>2. PICK f \in Seq(Lines), g \in Seq(Lines) : f = Kept(plan, file)[n] /\ g = Kept(plan, old)[n]
  <2>1. Kept(plan, file)[n] \in MainFile /\ Kept(plan, old)[n] \in MainFile
    BY <1>1, KeptTypes DEF MainFile
  <2> QED
    BY <2>1, FilesHaveLines
<1>3. Len(f) = Len(g) /\ \A j \in 1 .. Len(f) : LineBytes(f[j]) = LineBytes(g[j])
  <2>1. KeptAlike(Kept(plan, file)[n], Kept(plan, old)[n])
    BY SameKept
  <2> QED
    BY <1>2, <2>1 DEF KeptAlike
<1>4. Len(f) \in Nat /\ Len(f) \in 0 .. Len(f)
  OBVIOUS
<1>5. End(f, Len(f)) = End(g, Len(f))
  BY <1>3, <1>4, SameEnds
<1> QED
  BY <1>2, <1>3, <1>5 DEF Bytes

\* The new main spool: the lines kept of what the plan has of it, and the rest.
Joined(m, few, n) ==
    /\ Len(m) = Len(few) + Len(main) - n
    /\ \A j \in 1 .. Len(few) : m[j] = few[j]
    /\ \A j \in 1 .. Len(m) : j > Len(few) => m[j] = main[j - Len(few) + n]

LEMMA NewMainJoins ==
    ASSUME SpoolTypes, NEW plan, plan.main \in MainFile, Continues(main, plan.main),
           NEW few, few = Kept(plan, main)[Len(plan.main)], NEW m, m = NewMain(plan)
    PROVE  few \in MainFile /\ m \in MainFile /\ Joined(m, few, Len(plan.main))
<1>1. PICK n \in Nat : n = Len(plan.main)
  BY DEF MainFile
<1>2. main \in Seq(MainLine \cup TornLine) /\ Len(main) \in Nat /\ n <= Len(main) /\ n \in 0 .. Len(main)
  BY <1>1, FilesTypes DEF Continues
<1>3. few \in Seq(MainLine \cup TornLine) /\ Len(few) \in Nat
  BY <1>1, <1>2, KeptTypes
<1>4. PICK rest : rest = SubSeq(main, n + 1, Len(main))
  OBVIOUS
<1>5. /\ rest \in Seq(MainLine \cup TornLine) /\ Len(rest) = Len(main) - n
      /\ \A j \in 1 .. Len(rest) : rest[j] = main[n + j]
  BY <1>2, <1>4
<1>6. m = few \o rest
  BY <1>1, <1>4 DEF NewMain
<1>7. /\ m \in Seq(MainLine \cup TornLine) /\ Len(m) = Len(few) + Len(rest)
      /\ \A j \in 1 .. Len(few) + Len(rest) : m[j] = IF j <= Len(few) THEN few[j] ELSE rest[j - Len(few)]
  <2>1. PICK L : L = MainLine \cup TornLine
    OBVIOUS
  <2>2. few \in Seq(L) /\ rest \in Seq(L)
    BY <1>3, <1>5, <2>1
  <2>3. /\ few \o rest \in Seq(L) /\ Len(few \o rest) = Len(few) + Len(rest)
        /\ \A j \in 1 .. Len(few) + Len(rest) :
              (few \o rest)[j] = IF j <= Len(few) THEN few[j] ELSE rest[j - Len(few)]
    BY <2>2, ConcatProperties
  <2> QED
    BY <1>6, <2>1, <2>3
<1>8. ASSUME NEW j \in 1 .. Len(m), j > Len(few) PROVE m[j] = main[j - Len(few) + n]
  <2>1. PICK k : k = j - Len(few)
    OBVIOUS
  <2>2. Len(rest) \in Nat
    BY <1>5
  <2>3. j \in 1 .. Len(few) + Len(rest) /\ ~(j <= Len(few)) /\ k \in 1 .. Len(rest) /\ n + k = j - Len(few) + n
    BY <1>3, <1>7, <1>8, <2>1, <2>2
  <2>4. m[j] = rest[k]
    BY <1>7, <2>1, <2>3
  <2>5. rest[k] = main[n + k]
    BY <1>5, <2>3
  <2> QED
    BY <2>3, <2>4, <2>5
<1>9. ASSUME NEW j \in 1 .. Len(few) PROVE m[j] = few[j]
  <2>1. Len(rest) \in Nat
    BY <1>5
  <2>2. j \in 1 .. Len(few) + Len(rest) /\ j <= Len(few)
    BY <1>3, <2>1
  <2> QED
    BY <1>7, <2>2
<1>10. Joined(m, few, n)
  BY <1>5, <1>7, <1>8, <1>9 DEF Joined
<1> QED
  BY <1>1, <1>3, <1>7, <1>10 DEF MainFile

\* A main spool without some of the lines that a plan drops.
Thinned(plan, m) ==
    /\ m \in MainFile
    /\ \A j \in 1 .. Len(m) : \E i \in 1 .. Len(main) : m[j] = main[i]
    /\ \A i \in 1 .. Len(main) :
          (i > Len(plan.main) \/ ~Droppable(plan, main[i])) => \E j \in 1 .. Len(m) : m[j] = main[i]
    /\ \A i, j \in 1 .. Len(m) : i < j => m[i].id < m[j].id

LEMMA MainThinned ==
    ASSUME FilesInv, NEW plan
    PROVE  Thinned(plan, main)
  BY DEF FilesInv, SpoolTypes, OrderInv, Ordered, Thinned

\* The lines kept of the first n.
Selects(plan, few, file, n) ==
    /\ \A j \in 1 .. Len(few) : \E i \in 1 .. n : few[j] = file[i] /\ ~Droppable(plan, file[i])
    /\ \A i \in 1 .. n : ~Droppable(plan, file[i]) => \E j \in 1 .. Len(few) : few[j] = file[i]

LEMMA KeptSelects ==
    ASSUME NEW plan, NEW L, NEW file \in Seq(L), NEW n \in 0 .. Len(file)
    PROVE  Selects(plan, Kept(plan, file)[n], file, n)
<1>0. PICK z, few : z = 0 /\ few = Kept(plan, file)[n]
  OBVIOUS
<1>1. Len(file) \in Nat /\ z \in 0 .. Len(file) /\ n \in z .. Len(file) /\ few \in Seq(L) /\ Len(few) \in Nat
  BY <1>0, KeptTypes
<1>2. Extends(plan, file, z, n)
  BY <1>1, KeptExtends
<1>3. Kept(plan, file)[z] = <<>>
  BY <1>0, <1>1, KeptUnfolds
<1>4. Len(Kept(plan, file)[z]) = z
  BY <1>0, <1>3
<1>5. \A j \in z + 1 .. Len(few) : \E i \in z + 1 .. n : few[j] = file[i] /\ ~Droppable(plan, file[i])
  BY <1>0, <1>2, <1>4 DEF Extends
<1>6. \A j \in 1 .. Len(few) : \E i \in 1 .. n : few[j] = file[i] /\ ~Droppable(plan, file[i])
  BY <1>0, <1>5
<1>7. ASSUME NEW i \in 1 .. n, ~Droppable(plan, file[i]) PROVE \E j \in 1 .. Len(few) : few[j] = file[i]
  <2>1. i \in 1 .. Len(file) /\ i - 1 \in 0 .. Len(file) /\ i \in 0 .. Len(file) /\ n \in i .. Len(file)
    BY <1>1
  <2>2. PICK g \in Seq(L), f \in Seq(L) : g = Kept(plan, file)[i - 1] /\ f = Kept(plan, file)[i]
    BY <2>1, KeptTypes
  <2>3. f = Append(g, file[i])
    BY <1>1, <1>7, <2>1, <2>2, KeptUnfolds
  <2>4. Len(f) = Len(g) + 1 /\ f[Len(f)] = file[i] /\ Len(g) \in Nat
    BY <2>1, <2>3, ElementOfSeq
  <2>5. Extends(plan, file, i, n)
    BY <2>1, KeptExtends
  <2>6. Len(f) <= Len(few) /\ \A j \in 1 .. Len(f) : few[j] = f[j]
    BY <1>0, <2>2, <2>5 DEF Extends
  <2>7. Len(f) \in 1 .. Len(f) /\ Len(f) \in 1 .. Len(few)
    BY <1>1, <2>4, <2>6
  <2> QED
    BY <2>4, <2>6, <2>7
<1> QED
  BY <1>0, <1>6, <1>7 DEF Selects

LEMMA NewMainThinned ==
    ASSUME FilesInv, NEW plan, plan.main \in MainFile, Continues(main, plan.main), NEW m, m = NewMain(plan)
    PROVE  Thinned(plan, m)
<1>1. PICK n, few : n \in Nat /\ n = Len(plan.main) /\ few = Kept(plan, main)[n]
  BY DEF MainFile
<1>2. SpoolTypes /\ OrderInv
  BY DEF FilesInv
<1>3. few \in MainFile /\ m \in MainFile /\ Joined(m, few, n)
  BY <1>1, <1>2, NewMainJoins
<1>4. /\ main \in Seq(MainLine \cup TornLine) /\ Len(main) \in Nat /\ n <= Len(main) /\ n \in 0 .. Len(main)
      /\ \A i \in 1 .. Len(main) : main[i].id \in Nat
  BY <1>1, <1>2, FilesTypes DEF Continues
<1>5. Len(few) \in Nat /\ Len(m) \in Nat /\ Len(m) = Len(few) + Len(main) - n
  BY <1>3 DEF MainFile, Joined
<1>6. /\ \A j \in 1 .. Len(few) : \E i \in 1 .. n : few[j] = main[i] /\ ~Droppable(plan, main[i])
      /\ \A i \in 1 .. n : ~Droppable(plan, main[i]) => \E j \in 1 .. Len(few) : few[j] = main[i]
  <2>1. Selects(plan, few, main, n)
    BY <1>1, <1>4, KeptSelects
  <2> QED
    BY <2>1 DEF Selects
<1>7. \A i, j \in 1 .. Len(few) : i < j => few[i].id < few[j].id
  <2>1. \A i, j \in 1 .. Len(main) : i < j => main[i].id < main[j].id
    BY <1>2 DEF OrderInv, Ordered
  <2> QED
    BY <1>1, <1>4, <2>1, KeptOrdered
<1>8. ASSUME NEW j \in 1 .. Len(m), j > Len(few)
      PROVE  \E i \in n + 1 .. Len(main) : m[j] = main[i] /\ i = j - Len(few) + n
  <2>1. PICK i : i = j - Len(few) + n
    OBVIOUS
  <2>2. i \in n + 1 .. Len(main)
    BY <1>4, <1>5, <1>8, <2>1
  <2>3. m[j] = main[i]
    BY <1>3, <1>8, <2>1 DEF Joined
  <2> QED
    BY <2>1, <2>2, <2>3
<1>9. ASSUME NEW j \in 1 .. Len(m), j <= Len(few) PROVE m[j] = few[j] /\ j \in 1 .. Len(few)
  BY <1>3, <1>5, <1>9 DEF Joined
<1>10. ASSUME NEW j \in 1 .. Len(m) PROVE \E i \in 1 .. Len(main) : m[j] = main[i]
  <2>1. CASE j <= Len(few)
    <3>1. PICK i \in 1 .. n : few[j] = main[i]
      BY <1>6, <1>9, <2>1
    <3>2. i \in 1 .. Len(main)
      BY <1>4
    <3> QED
      BY <1>9, <2>1, <3>1, <3>2
  <2>2. CASE j > Len(few)
    <3>1. PICK i \in n + 1 .. Len(main) : m[j] = main[i]
      BY <1>8, <2>2
    <3>2. i \in 1 .. Len(main)
      BY <1>4
    <3> QED
      BY <3>1, <3>2
  <2> QED
    BY <1>5, <2>1, <2>2
<1>11. ASSUME NEW i \in 1 .. Len(main), i > n \/ ~Droppable(plan, main[i])
       PROVE  \E j \in 1 .. Len(m) : m[j] = main[i]
  <2>1. CASE i > n
    <3>1. PICK j : j = i + Len(few) - n
      OBVIOUS
    <3>2. j \in 1 .. Len(m) /\ j > Len(few) /\ j - Len(few) + n = i
      BY <1>4, <1>5, <2>1, <3>1
    <3>3. m[j] = main[i]
      BY <1>3, <3>2 DEF Joined
    <3> QED
      BY <3>2, <3>3
  <2>2. CASE ~(i > n)
    <3>1. i \in 1 .. n
      BY <1>4, <2>2
    <3>2. PICK j \in 1 .. Len(few) : few[j] = main[i]
      BY <1>6, <1>11, <2>2, <3>1
    <3>3. j \in 1 .. Len(m) /\ m[j] = few[j]
      BY <1>3, <1>4, <1>5 DEF Joined
    <3> QED
      BY <3>2, <3>3
  <2> QED
    BY <2>1, <2>2
<1>12. ASSUME NEW i \in 1 .. Len(m), NEW j \in 1 .. Len(m), i < j PROVE m[i].id < m[j].id
  <2>0. \A a, b \in 1 .. Len(main) : a < b => main[a].id < main[b].id
    BY <1>2 DEF OrderInv, Ordered
  <2>1. CASE j <= Len(few)
    <3>1. i <= Len(few)
      BY <1>5, <1>12, <2>1
    <3> QED
      BY <1>7, <1>9, <1>12, <2>1, <3>1
  <2>2. CASE i <= Len(few) /\ j > Len(few)
    <3>1. PICK a \in 1 .. n : few[i] = main[a]
      BY <1>6, <1>9, <2>2
    <3>2. PICK b \in n + 1 .. Len(main) : m[j] = main[b]
      BY <1>8, <2>2
    <3>3. a \in 1 .. Len(main) /\ b \in 1 .. Len(main) /\ a < b
      BY <1>4
    <3> QED
      BY <1>9, <2>0, <2>2, <3>1, <3>2, <3>3
  <2>3. CASE i > Len(few)
    <3>1. j > Len(few)
      BY <1>5, <1>12, <2>3
    <3>2. PICK a \in n + 1 .. Len(main) : m[i] = main[a] /\ a = i - Len(few) + n
      BY <1>8, <2>3
    <3>3. PICK b \in n + 1 .. Len(main) : m[j] = main[b] /\ b = j - Len(few) + n
      BY <1>8, <3>1
    <3>4. a \in 1 .. Len(main) /\ b \in 1 .. Len(main) /\ a < b
      BY <1>4, <1>5, <1>12, <3>2, <3>3
    <3> QED
      BY <2>0, <3>2, <3>3, <3>4
  <2> QED
    BY <1>5, <2>1, <2>2, <2>3
<1> QED
  BY <1>1, <1>3, <1>10, <1>11, <1>12 DEF Thinned

\* A set of the first lines.
LEMMA FirstOnes ==
    ASSUME NEW n \in Nat, NEW S, S \subseteq 1 .. n, \A i \in S, j \in 1 .. n : j <= i => j \in S
    PROVE  Cardinality(S) \in 0 .. n /\ S = 1 .. Cardinality(S)
<1> DEFINE Out == {k \in 1 .. n + 1 : k \notin S}
<1>1. n + 1 \in Out
  OBVIOUS
<1>2. PICK x \in Out : \A k \in Nat : k < x => k \notin Out
  <2> HIDE DEF Out
  <2>1. Out \subseteq Nat
    BY DEF Out
  <2> QED
    BY <1>1, <2>1, LeastFailure
<1>3. S = 1 .. x - 1
  <2>1. ASSUME NEW k \in S PROVE k \in 1 .. x - 1
    <3>1. k \in 1 .. n /\ x \in 1 .. n + 1 /\ x \notin S
      OBVIOUS
    <3>2. ~(x <= k)
      BY <3>1
    <3> QED
      BY <3>1, <3>2
  <2>2. ASSUME NEW k \in 1 .. x - 1 PROVE k \in S
    <3>1. k \in Nat /\ k < x /\ k \in 1 .. n + 1
      OBVIOUS
    <3> QED
      BY <1>2, <3>1
  <2> QED
    BY <2>1, <2>2
<1>4. PICK y : y = x - 1
  OBVIOUS
<1>5. y \in 0 .. n /\ S = 1 .. y
  BY <1>3, <1>4
<1>6. Cardinality(1 .. y) = y
  <2>1. Cardinality(1 .. y) = IF 1 > y THEN 0 ELSE y - 1 + 1
    BY <1>5, FS_Interval
  <2> QED
    BY <1>5, <2>1
<1> QED
  BY <1>5, <1>6

\* What Splits says, of any main spool.
Parts(m, fence, id) ==
    /\ fence <= Bytes(m)
    /\ \A i \in 1 .. Len(m) : IF m[i].id < id THEN End(m, i) <= fence ELSE Start(m, i) >= fence

\* A fence that a compaction moved stands before the first kept line that is
\* younger than its batch.
LEMMA RefencedParts ==
    ASSUME FilesInv, NEW plan, plan.main \in MainFile, Continues(main, plan.main),
           NEW few, few = Kept(plan, main)[Len(plan.main)],
           NEW m \in MainFile, Joined(m, few, Len(plan.main)),
           NEW fence \in Nat, NEW id \in Nat, Splits(fence, id),
           \A i \in Len(plan.main) + 1 .. Len(main) : id < main[i].id
    PROVE  Parts(m, Refenced(plan, fence), id)
<1>1. PICK n \in Nat, old \in MainFile : n = Len(plan.main) /\ old = plan.main
  BY DEF MainFile
<1>2. SpoolTypes /\ OrderInv
  BY DEF FilesInv
<1>3. /\ main \in MainFile /\ main \in Seq(MainLine \cup TornLine) /\ main \in Seq(Lines)
      /\ Len(main) \in Nat /\ n <= Len(main) /\ n \in 0 .. Len(main)
      /\ \A i \in 1 .. Len(main) : main[i].id \in Nat
  BY <1>1, <1>2, FilesTypes DEF Continues
<1>4. old \in Seq(Lines) /\ m \in Seq(Lines) /\ Len(m) \in Nat /\ Continues(main, old) /\ DOMAIN old = 1 .. n
  BY <1>1, FilesHaveLines DEF MainFile
<1>5. \A i \in 0 .. n : End(main, i) = End(old, i)
  BY <1>1, <1>3, <1>4, ContinuesEnds
<1> DEFINE S == {i \in DOMAIN plan.main : Start(plan.main, i) < fence}
<1>6. ASSUME NEW i \in 1 .. n PROVE i \in S <=> main[i].id < id
  <2>1. i \in 1 .. Len(main) /\ i - 1 \in 0 .. n /\ i \in DOMAIN old
    BY <1>3, <1>4
  <2>2. Start(old, i) = Start(main, i)
    BY <1>5, <2>1 DEF Start
  <2>3. IF main[i].id < id THEN End(main, i) <= fence ELSE Start(main, i) >= fence
    BY <2>1 DEF Splits
  <2>4. Start(main, i) \in Nat /\ End(main, i) \in Nat /\ Start(main, i) < End(main, i)
    BY <1>3, <2>1, EndGrows
  <2>5. i \in S <=> Start(main, i) < fence
    BY <1>1, <2>1, <2>2
  <2> QED
    BY <2>3, <2>4, <2>5
<1>7. S \subseteq 1 .. n
  BY <1>1, <1>4
<1>8. \A i \in S, j \in 1 .. n : j <= i => j \in S
  <2> SUFFICES ASSUME NEW i \in S, NEW j \in 1 .. n, j <= i PROVE j \in S
    OBVIOUS
  <2>1. i \in 1 .. n /\ i \in 1 .. Len(main) /\ j \in 1 .. Len(main)
    BY <1>3, <1>7
  <2>2. main[i].id < id
    BY <1>6, <2>1
  <2>3. main[j].id <= main[i].id
    <3>1. i = j \/ j < i
      BY <2>1
    <3>2. j < i => main[j].id < main[i].id
      BY <1>2, <2>1 DEF OrderInv, Ordered
    <3>3. main[j].id \in Nat /\ main[i].id \in Nat
      BY <1>3, <2>1
    <3> QED
      BY <3>1, <3>2, <3>3
  <2>4. main[j].id < id
    BY <1>3, <2>1, <2>2, <2>3
  <2> QED
    BY <1>6, <2>4
<1>9. PICK c : c = Cardinality(S)
  OBVIOUS
<1>10. c \in 0 .. n /\ \A i \in 1 .. n : i <= c <=> main[i].id < id
  <2>1. Cardinality(S) \in 0 .. n /\ S = 1 .. Cardinality(S)
    <3> HIDE DEF S
    <3> QED
      BY <1>7, <1>8, FirstOnes
  <2> HIDE DEF S
  <2>2. c \in 0 .. n /\ \A i \in 1 .. n : i \in S <=> i <= c
    BY <1>9, <2>1
  <2> QED
    BY <1>6, <2>2
<1>11. PICK part : part = Kept(plan, main)[c]
  OBVIOUS
<1>12. part \in MainFile /\ few \in MainFile
  <2>1. c \in 0 .. Len(main)
    BY <1>3, <1>10
  <2> QED
    <3>1. Kept(plan, main)[c] \in Seq(MainLine \cup TornLine) /\ Kept(plan, main)[n] \in Seq(MainLine \cup TornLine)
      BY <1>3, <2>1, KeptTypes
    <3> QED
      BY <1>1, <1>11, <3>1 DEF MainFile
<1>13. part \in Seq(Lines) /\ few \in Seq(Lines) /\ Len(part) \in Nat /\ Len(few) \in Nat
  <2>1. part \in Seq(Lines) /\ few \in Seq(Lines)
    BY <1>12, FilesHaveLines
  <2> QED
    BY <2>1
<1>14. Refenced(plan, fence) = Bytes(part)
  <2>1. Bytes(Kept(plan, main)[c]) = Bytes(Kept(plan, old)[c])
    BY <1>1, <1>3, <1>4, <1>10, SameKeptBytes
  <2>2. Refenced(plan, fence) = Bytes(Kept(plan, plan.main)[c])
    BY <1>9 DEF Refenced
  <2> QED
    BY <1>1, <1>11, <2>1, <2>2
<1>15. Extends(plan, main, c, n)
  <2>1. c \in 0 .. Len(main) /\ n \in c .. Len(main)
    BY <1>3, <1>10
  <2> QED
    BY <1>3, <2>1, KeptExtends
<1>16. /\ Len(part) <= Len(few) /\ \A j \in 1 .. Len(part) : few[j] = part[j]
       /\ \A j \in Len(part) + 1 .. Len(few) : \E i \in c + 1 .. n : few[j] = main[i]
  BY <1>1, <1>11, <1>15 DEF Extends
<1>17. Len(m) = Len(few) + Len(main) - n /\ Len(few) <= Len(m) /\ \A j \in 1 .. Len(few) : m[j] = few[j]
  BY <1>1, <1>3, <1>4, <1>13 DEF Joined
<1>18. ASSUME NEW j \in 1 .. Len(part) PROVE m[j].id < id
  <2>1. \A k \in 1 .. Len(part) : \E i \in 1 .. c : part[k] = main[i]
    <3>1. c \in 0 .. Len(main)
      BY <1>3, <1>10
    <3>2. Selects(plan, part, main, c)
      BY <1>3, <1>11, <3>1, KeptSelects
    <3> QED
      BY <3>2 DEF Selects
  <2>2. PICK i \in 1 .. c : part[j] = main[i]
    BY <2>1
  <2>3. i \in 1 .. n /\ i <= c
    BY <1>10
  <2>4. m[j] = main[i]
    BY <1>13, <1>16, <1>17, <2>2
  <2> QED
    BY <1>10, <2>3, <2>4
<1>19. ASSUME NEW j \in 1 .. Len(m), j > Len(part) PROVE ~(m[j].id < id)
  <2>1. CASE j <= Len(few)
    <3>1. PICK i \in c + 1 .. n : few[j] = main[i]
      <4>1. j \in Len(part) + 1 .. Len(few)
        BY <1>4, <1>13, <1>19, <2>1
      <4> QED
        BY <1>16, <4>1
    <3>2. i \in 1 .. n /\ ~(i <= c)
      <4>1. c \in Nat /\ n \in Nat
        BY <1>10
      <4> QED
        BY <4>1
    <3>3. m[j] = main[i]
      BY <1>13, <1>17, <2>1, <3>1
    <3> QED
      BY <1>10, <3>2, <3>3
  <2>2. CASE j > Len(few)
    <3>1. PICK i : i = j - Len(few) + n
      OBVIOUS
    <3>2. i \in n + 1 .. Len(main)
      <4>1. PICK a \in Nat, b \in Nat : a = Len(few) /\ b = Len(main)
        BY <1>3, <1>13
      <4>2. n \in Nat /\ j \in Nat /\ j > a /\ j <= a + b - n /\ i = j - a + n /\ n <= b
        BY <1>1, <1>3, <1>4, <1>17, <2>2, <3>1, <4>1
      <4>3. PICK d : d = j - a
        OBVIOUS
      <4>4. d \in 1 .. b - n /\ i = d + n
        BY <4>2, <4>3
      <4>5. i \in n + 1 .. b
        BY <4>2, <4>4
      <4> QED
        BY <4>1, <4>5
    <3>3. m[j] = main[i]
      BY <1>1, <2>2, <3>1 DEF Joined
    <3>4. id < main[i].id /\ i \in 1 .. Len(main)
      BY <1>1, <1>3, <3>2
    <3> QED
      BY <1>3, <3>3, <3>4
  <2> QED
    BY <1>4, <1>13, <2>1, <2>2
<1>20. End(m, Len(part)) = Bytes(part) /\ Len(part) \in 0 .. Len(m) /\ Bytes(part) \in Nat
  <2>1. Len(part) <= Len(m) /\ Len(part) \in 0 .. Len(m) /\ Len(part) \in 0 .. Len(part)
    <3>1. Len(part) \in Nat /\ Len(m) \in Nat /\ Len(few) \in Nat /\ Len(part) <= Len(few) /\ Len(few) <= Len(m)
      BY <1>4, <1>13, <1>16, <1>17
    <3> QED
      BY <3>1
  <2>2. \A j \in 1 .. Len(part) : LineBytes(m[j]) = LineBytes(part[j])
    <3>1. \A j \in 1 .. Len(part) : j \in 1 .. Len(few)
      BY <1>13, <1>16
    <3> QED
      BY <1>16, <1>17, <3>1
  <2>3. \A j \in 0 .. Len(part) : End(m, j) = End(part, j)
    <3>1. Len(part) <= Len(part) /\ Len(part) <= Len(m)
      BY <1>13, <2>1
    <3> QED
      BY <1>4, <1>13, <2>2, <3>1, SameEnds
  <2>4. End(part, Len(part)) \in Nat
    BY <1>13, <2>1, EndTypes
  <2> QED
    BY <2>1, <2>3, <2>4 DEF Bytes
<1>21. \A i, j \in 0 .. Len(m) : i <= j => End(m, i) <= End(m, j)
  BY <1>4, EndMonotonic
<1>22. Bytes(part) <= Bytes(m)
  <2>1. Len(m) \in 0 .. Len(m) /\ Len(part) <= Len(m)
    BY <1>4, <1>20
  <2> QED
    BY <1>20, <1>21, <2>1 DEF Bytes
<1>23. ASSUME NEW j \in 1 .. Len(m)
       PROVE  IF m[j].id < id THEN End(m, j) <= Bytes(part) ELSE Start(m, j) >= Bytes(part)
  <2>1. CASE j <= Len(part)
    <3>1. j \in 0 .. Len(m) /\ j \in 1 .. Len(part)
      BY <1>4, <1>13, <2>1
    <3> QED
      BY <1>18, <1>20, <1>21, <2>1, <3>1
  <2>2. CASE j > Len(part)
    <3>1. j - 1 \in 0 .. Len(m) /\ Len(part) <= j - 1
      BY <1>4, <1>13, <2>2
    <3>2. End(m, Len(part)) <= End(m, j - 1) /\ End(m, j - 1) \in Nat
      BY <1>4, <1>20, <1>21, <3>1, EndTypes
    <3>3. Start(m, j) >= Bytes(part)
      BY <1>20, <3>2 DEF Start
    <3> QED
      BY <1>19, <2>2, <3>3
  <2> QED
    BY <1>4, <1>13, <2>1, <2>2
<1> QED
  BY <1>14, <1>22, <1>23 DEF Parts

\* A fence behind what a compaction has of the main spool moves with its lines.
LEMMA ShiftedParts ==
    ASSUME FilesInv, NEW plan, plan.main \in MainFile, Continues(main, plan.main),
           NEW few, few = Kept(plan, main)[Len(plan.main)],
           NEW m \in MainFile, Joined(m, few, Len(plan.main)),
           NEW fence \in Nat, NEW id \in Nat, Splits(fence, id),
           \A i \in 1 .. Len(plan.main) : main[i].id < id
    PROVE  Shifted(plan, fence) \in Nat /\ Parts(m, Shifted(plan, fence), id)
<1>1. PICK n \in Nat, old \in MainFile : n = Len(plan.main) /\ old = plan.main
  BY DEF MainFile
<1>2. SpoolTypes /\ OrderInv
  BY DEF FilesInv
<1>3. /\ main \in MainFile /\ main \in Seq(MainLine \cup TornLine) /\ main \in Seq(Lines)
      /\ Len(main) \in Nat /\ n <= Len(main) /\ n \in 0 .. Len(main) /\ n \in 0 .. n
  BY <1>1, <1>2, FilesTypes DEF Continues
<1>4. few \in MainFile
  BY <1>1, <1>3, KeptTypes DEF MainFile
<1>5. old \in Seq(Lines) /\ m \in Seq(Lines) /\ few \in Seq(Lines) /\ Len(m) \in Nat /\ Len(few) \in Nat
      /\ Continues(main, old)
  BY <1>1, <1>4, FilesHaveLines DEF MainFile
<1>6. Len(m) = Len(few) + Len(main) - n /\ Len(few) <= Len(m) /\ \A j \in 1 .. Len(few) : m[j] = few[j]
  BY <1>1, <1>3, <1>5 DEF Joined
<1>7. PICK k \in Nat : k = Len(few)
  BY <1>5
<1>8. PICK x, y : x = End(main, n) /\ y = End(m, k)
  OBVIOUS
<1>9. k \in 0 .. Len(m) /\ x \in Nat /\ y \in Nat
  <2>1. k \in 0 .. Len(m)
    BY <1>5, <1>6, <1>7
  <2> QED
    BY <1>3, <1>5, <1>8, <2>1, EndTypes
<1>10. Bytes(plan.main) = x
  <2>1. \A i \in 0 .. n : End(main, i) = End(old, i)
    BY <1>1, <1>3, <1>5, ContinuesEnds
  <2> QED
    BY <1>1, <1>3, <1>8, <2>1 DEF Bytes
<1>11. Bytes(Candidate(plan)) = y
  <2>1. Bytes(Kept(plan, main)[n]) = Bytes(Kept(plan, old)[n])
    BY <1>1, <1>3, <1>5, SameKeptBytes
  <2>2. Bytes(Candidate(plan)) = Bytes(few)
    BY <1>1, <2>1 DEF Candidate
  <2>3. \A j \in 1 .. k : LineBytes(m[j]) = LineBytes(few[j])
    BY <1>6, <1>7
  <2>4. \A j \in 0 .. k : End(m, j) = End(few, j)
    <3>1. k \in Nat /\ k <= Len(m) /\ k <= Len(few)
      BY <1>5, <1>6, <1>7
    <3> QED
      BY <1>5, <2>3, <3>1, SameEnds
  <2>5. k \in 0 .. k
    OBVIOUS
  <2> QED
    BY <1>7, <1>8, <2>2, <2>4, <2>5 DEF Bytes
<1>12. x <= fence
  <2>1. CASE n = 0
    BY <1>3, <1>8, <2>1, EndUnfolds
  <2>2. CASE n # 0
    <3>1. n \in 1 .. n /\ n \in 1 .. Len(main)
      BY <1>3, <2>2
    <3>2. main[n].id < id
      BY <1>1, <3>1
    <3> QED
      BY <1>8, <3>1, <3>2 DEF Splits
  <2> QED
    BY <2>1, <2>2
<1>13. Shifted(plan, fence) = fence + y - x
  BY <1>9, <1>10, <1>11, <1>12 DEF Shifted
<1>14. PICK to : to = fence + y - x
  OBVIOUS
<1>15. to \in Nat /\ y <= to
  BY <1>9, <1>12, <1>14
<1>16. AlikeFrom(m, k, main, n, Len(main) - n)
  <2> SUFFICES ASSUME NEW j \in 1 .. Len(m), NEW i \in 1 .. Len(main), j - k = i - n, j - k \in 1 .. Len(main) - n
      PROVE  m[j] = main[i]
    BY DEF AlikeFrom
  <2>1. i \in Int /\ j \in Int /\ k \in Int /\ n \in Int
    BY <1>1, <1>3, <1>5, <1>7
  <2>2. j - k >= 1 /\ j - k = i - n
    OBVIOUS
  <2>3. j > k /\ j - k + n = i
    BY <2>1, <2>2
  <2>4. j > Len(few) /\ j - Len(few) + n = i
    BY <1>7, <2>3
  <2> QED
    BY <1>1, <2>4 DEF Joined
<1>17. ASSUME NEW j \in k .. Len(m)
       PROVE  j - k + n \in n .. Len(main) /\ End(m, j) + x = End(main, j - k + n) + y
  <2>1. PICK i : i = j - k + n
    OBVIOUS
  <2>2. PICK d \in Nat : d = j - k
    <3>1. j \in Int /\ k <= j
      BY <1>5
    <3> QED
      BY <3>1
  <2>3. PICK a \in Nat : a = Len(main) - n
    BY <1>3
  <2>4. j <= k + a
    BY <1>3, <1>5, <1>6, <1>7, <2>3
  <2>5. d <= a
    BY <1>5, <2>2, <2>4
  <2>6. i = d + n /\ i \in n .. Len(main) /\ i \in 0 .. Len(main) /\ j \in 0 .. Len(m) /\ i - n = d /\ d \in 0 .. a
    BY <1>3, <1>5, <2>1, <2>2, <2>3, <2>5
  <2>7. a <= Len(m) - k /\ a <= Len(main) - n /\ AlikeFrom(m, k, main, n, a)
    BY <1>3, <1>5, <1>6, <1>7, <1>16, <2>3
  <2>8. End(m, j) + End(main, n) = End(main, i) + End(m, k)
    BY <1>3, <1>5, <1>9, <2>2, <2>6, <2>7, SameDistance
  <2> QED
    BY <1>8, <2>1, <2>6, <2>8
<1>18. \A i, j \in 0 .. Len(m) : i <= j => End(m, i) <= End(m, j)
  BY <1>5, EndMonotonic
<1>19. to <= Bytes(m)
  <2>1. Len(m) \in k .. Len(m) /\ Len(m) - k + n = Len(main) /\ Len(main) \in 0 .. Len(main) /\ Len(m) \in 0 .. Len(m)
    BY <1>3, <1>5, <1>6, <1>7
  <2>2. End(m, Len(m)) + x = End(main, Len(main)) + y
    BY <1>17, <2>1
  <2>3. fence <= End(main, Len(main))
    BY DEF Splits, Bytes
  <2>4. End(m, Len(m)) \in Nat /\ End(main, Len(main)) \in Nat
    BY <1>3, <1>5, <2>1, EndTypes
  <2> QED
    BY <1>9, <1>14, <2>2, <2>3, <2>4 DEF Bytes
<1>20. ASSUME NEW j \in 1 .. Len(m)
       PROVE  IF m[j].id < id THEN End(m, j) <= to ELSE Start(m, j) >= to
  <2>1. CASE j <= k
    <3>1. Selects(plan, few, main, n)
      BY <1>1, <1>3, KeptSelects
    <3>2. j \in 1 .. Len(few) /\ j \in 0 .. Len(m)
      BY <1>5, <1>7, <2>1
    <3>3. PICK i \in 1 .. n : few[j] = main[i]
      BY <3>1, <3>2 DEF Selects
    <3>4. m[j].id < id
      BY <1>1, <1>6, <3>2, <3>3
    <3>5. End(m, j) <= y /\ End(m, j) \in Nat
      BY <1>5, <1>8, <1>9, <1>18, <2>1, <3>2, EndTypes
    <3> QED
      BY <1>9, <1>15, <3>4, <3>5
  <2>2. CASE j > k
    <3>1. PICK i, h : i = j - k + n /\ h = j - 1
      OBVIOUS
    <3>2. j \in k .. Len(m) /\ h \in k .. Len(m) /\ h - k + n = i - 1 /\ j \in 0 .. Len(m) /\ h \in 0 .. Len(m)
      <4>1. j \in Nat /\ h \in Nat /\ k \in Nat /\ n \in Nat /\ Len(m) \in Nat
            /\ j <= Len(m) /\ k < j /\ j >= 1 /\ h = j - 1
        BY <1>1, <1>5, <1>7, <2>2, <3>1
      <4>2. h - k + n = j - k + n - 1
        BY <4>1
      <4> QED
        BY <3>1, <4>1, <4>2
    <3>3. i \in n .. Len(main) /\ End(m, j) + x = End(main, i) + y
      BY <1>17, <3>1, <3>2
    <3>4. i - 1 \in n .. Len(main) /\ End(m, h) + x = End(main, i - 1) + y
      BY <1>17, <3>2
    <3>5. i \in 1 .. Len(main) /\ i \in 0 .. Len(main) /\ i - 1 \in 0 .. Len(main)
      BY <1>3, <3>3, <3>4
    <3>6. m[j] = main[i]
      BY <1>1, <1>7, <2>2, <3>1 DEF Joined
    <3>7. IF main[i].id < id THEN End(main, i) <= fence ELSE End(main, i - 1) >= fence
      BY <3>5 DEF Splits, Start
    <3>8. End(m, j) \in Nat /\ End(m, h) \in Nat /\ End(main, i) \in Nat /\ End(main, i - 1) \in Nat
      BY <1>3, <1>5, <3>2, <3>5, EndTypes
    <3>9. main[i].id < id => End(m, j) <= to
      <4>1. PICK a \in Nat, b \in Nat : a = End(m, j) /\ b = End(main, i)
        BY <3>8
      <4>2. a + x = b + y
        BY <3>3, <4>1
      <4>3. b <= fence => a <= to
        BY <1>9, <1>14, <4>2
      <4> QED
        BY <3>7, <4>1, <4>3
    <3>10. ~(main[i].id < id) => End(m, h) >= to
      <4>1. PICK a \in Nat, b \in Nat : a = End(m, h) /\ b = End(main, i - 1)
        BY <3>8
      <4>2. a + x = b + y
        BY <3>4, <4>1
      <4>3. b >= fence => a >= to
        BY <1>9, <1>14, <4>2
      <4> QED
        BY <3>7, <4>1, <4>3
    <3> QED
      BY <3>1, <3>6, <3>9, <3>10 DEF Start
  <2> QED
    BY <1>5, <2>1, <2>2
<1> QED
  BY <1>13, <1>14, <1>15, <1>19, <1>20 DEF Parts

LEMMA ShiftedTypes ==
    ASSUME NEW plan, plan.main \in MainFile, plan.usage \in UsageFile, NEW fence \in Nat
    PROVE  Shifted(plan, fence) \in Nat
<1>1. PICK old \in Seq(Lines), few \in Seq(Lines) : old = plan.main /\ few = Candidate(plan)
  BY CandidateFiles, FilesHaveLines
<1>2. End(old, Len(old)) \in Nat /\ End(few, Len(few)) \in Nat
  <2>1. Len(old) \in 0 .. Len(old) /\ Len(few) \in 0 .. Len(few)
    OBVIOUS
  <2> QED
    BY <2>1, EndTypes
<1>3. PICK x \in Nat, y \in Nat : x = Bytes(plan.main) /\ y = Bytes(Candidate(plan))
  BY <1>1, <1>2 DEF Bytes
<1>4. Shifted(plan, fence) = IF fence < x THEN fence ELSE fence + y - x
  BY <1>3 DEF Shifted
<1>5. ~(fence < x) => fence + y - x \in Nat
  OBVIOUS
<1> QED
  BY <1>4, <1>5

\* The new usage spool: the same batches, each with the fence that moved with it.
MovedFence(plan, b) ==
    IF b <= Len(plan.usage) THEN Refenced(plan, usage[b].fence) ELSE Shifted(plan, usage[b].fence)

LEMMA NewUsageMoves ==
    ASSUME SpoolTypes, NEW plan, plan.main \in MainFile, plan.usage \in UsageFile, NEW u, u = NewUsage(plan)
    PROVE  /\ u \in UsageFile /\ Len(u) = Len(usage)
           /\ \A b \in 1 .. Len(usage) :
                 /\ u[b].id = usage[b].id /\ u[b].kind = usage[b].kind
                 /\ usage[b].kind = "usage" => u[b].fence = MovedFence(plan, b)
<1>1. PICK old \in UsageFile : old = usage
  BY FilesTypes
<1>2. DOMAIN old = 1 .. Len(old) /\ old \in Seq(UsageLine \cup TornLine)
  BY DEF UsageFile
<1> DEFINE fence == [b \in 1 .. Len(old) |-> MovedFence(plan, b)]
<1>3. \A b \in 1 .. Len(old) : fence[b] = MovedFence(plan, b)
  OBVIOUS
<1>4. ASSUME NEW b \in 1 .. Len(old), old[b].kind = "usage" PROVE MovedFence(plan, b) \in Nat
  <2>1. old[b] \in UsageLine \cup TornLine
    BY <1>2, ElementOfSeq
  <2>2. old[b].fence \in Nat
    BY <1>4, <2>1, LineKinds
  <2>3. Refenced(plan, old[b].fence) \in Nat
    BY RefencedTypes
  <2>4. Shifted(plan, old[b].fence) \in Nat
    BY <2>2, ShiftedTypes
  <2> QED
    BY <1>1, <2>3, <2>4 DEF MovedFence
<1>5. u = [b \in DOMAIN old |-> WithFence(old[b], fence[b])]
  <2>1. ASSUME NEW b \in 1 .. Len(old)
        PROVE  WithFence(old[b], fence[b]) =
                  IF b <= Len(plan.usage) THEN WithFence(usage[b], Refenced(plan, usage[b].fence))
                  ELSE WithFence(usage[b], Shifted(plan, usage[b].fence))
    BY <1>1, <1>3 DEF MovedFence
  <2> HIDE DEF fence
  <2> QED
    BY <1>1, <1>2, <2>1 DEF NewUsage
<1>6. FenceFor(old, fence)
  BY <1>3, <1>4 DEF FenceFor
<1> HIDE DEF fence
<1>7. /\ u \in UsageFile /\ Len(u) = Len(old)
      /\ \A b \in 1 .. Len(old) :
            /\ u[b].id = old[b].id /\ u[b].kind = old[b].kind
            /\ old[b].kind = "usage" => u[b].fence = fence[b]
  BY <1>5, <1>6, Moved
<1> QED
  BY <1>1, <1>3, <1>7

\* After both spools were swapped each batch is again where it arrived.
LEMMA FencesMove ==
    ASSUME FilesInv, ~mixed, NEW plan, plan.main \in MainFile, plan.usage \in UsageFile, PlanFiles(plan),
           NEW m, m = NewMain(plan), NEW b \in 1 .. Len(usage), usage[b].kind = "usage"
    PROVE  Parts(m, MovedFence(plan, b), usage[b].id)
<1>1. PICK fence, id : fence = usage[b].fence /\ id = usage[b].id
  OBVIOUS
<1>2. PICK few : few = Kept(plan, main)[Len(plan.main)]
  OBVIOUS
<1>3. SpoolTypes /\ Continues(main, plan.main) /\ Continues(usage, plan.usage)
  BY DEF FilesInv, PlanFiles
<1>4. m \in MainFile /\ Joined(m, few, Len(plan.main))
  BY <1>2, <1>3, NewMainJoins
<1>5. fence \in Nat /\ id \in Nat /\ Splits(fence, id)
  <2>1. usage[b] \in UsageLine \cup TornLine /\ usage[b].id \in Nat
    BY <1>3, FilesTypes
  <2>2. fence \in Nat
    BY <1>1, <2>1, LineKinds
  <2> QED
    BY <1>1, <2>1, <2>2 DEF FilesInv, FenceInv
<1>6. Len(usage) \in Nat /\ Len(plan.usage) \in Nat
  BY <1>3, FilesTypes DEF UsageFile
<1>7. CASE b <= Len(plan.usage)
  <2>1. \A i \in Len(plan.main) + 1 .. Len(main) : id < main[i].id
    BY <1>1, <1>6, <1>7 DEF PlanFiles
  <2>2. Parts(m, Refenced(plan, fence), id)
    BY <1>2, <1>3, <1>4, <1>5, <2>1, RefencedParts
  <2> QED
    BY <1>1, <1>7, <2>2 DEF MovedFence
<1>8. CASE ~(b <= Len(plan.usage))
  <2>1. \A i \in 1 .. Len(plan.main) : main[i].id < id
    <3>1. b \in Len(plan.usage) + 1 .. Len(usage)
      BY <1>6, <1>8
    <3> QED
      BY <1>1, <3>1 DEF PlanFiles
  <2>2. Parts(m, Shifted(plan, fence), id)
    BY <1>2, <1>3, <1>4, <1>5, <2>1, ShiftedParts
  <2> QED
    BY <1>1, <1>8, <2>2 DEF MovedFence
<1> QED
  BY <1>7, <1>8

LEMMA ReplacedPlans ==
    ASSUME SpoolTypes, NEW c \in Compactor, compaction' = Replaced(c)
    PROVE  /\ compaction' \in [Compactor -> Plan]
           /\ \A d \in Compactor : compaction'[d].phase = "idle" \/ ~compaction'[d].current
<1>1. compaction' = [d \in Compactor |-> IF d = c THEN Idle ELSE [compaction[d] EXCEPT !.current = FALSE]]
  BY DEF Replaced
<1>2. ASSUME NEW d \in Compactor
      PROVE  compaction'[d] \in Plan /\ (compaction'[d].phase = "idle" \/ ~compaction'[d].current)
  <2>1. CASE d = c
    BY <1>1, <2>1, IdleIsPlan
  <2>2. CASE d # c
    <3>1. PICK old \in Plan : old = compaction[d]
      BY DEF SpoolTypes
    <3>2. compaction'[d] = [old EXCEPT !.current = FALSE]
      BY <1>1, <2>2, <3>1
    <3>3. [old EXCEPT !.current = FALSE] \in Plan /\ ~[old EXCEPT !.current = FALSE].current
      BY DEF Plan
    <3> QED
      BY <3>2, <3>3
  <2> QED
    BY <2>1, <2>2
<1> QED
  BY <1>1, <1>2

\* What is left on the new main spool answers for all that was on the old one.
LEMMA NothingLost ==
    ASSUME FilesInv, NEW p, NEW mp, NEW up, ProjInv(p, mp, up),
           NEW plan, PlanHolds(plan, p, mp), plan.phase = "verified", Len(plan.main) \in Nat,
           NEW m, Thinned(plan, m), NEW i \in 1 .. Len(main), main[i].id \in acked \/ main[i] \in p.receipts
    PROVE  \E j \in 1 .. Len(m) : m[j] = main[i]
<1>1. i > Len(plan.main) \/ ~Droppable(plan, main[i])
  <2>1. CASE i <= Len(plan.main)
    <3>1. i \in 1 .. Len(plan.main)
      BY <2>1
    <3> QED
      BY <3>1 DEF PlanHolds, PlanDrops
  <2> QED
    BY <2>1
<1> QED
  BY <1>1 DEF Thinned

LEMMA SwappedFiles ==
    ASSUME FilesInv, NEW p, NEW mp, NEW up, ProjInv(p, mp, up),
           NEW plan, PlanHolds(plan, p, mp), plan.phase = "verified", Len(plan.main) \in Nat,
           NEW m, main' = m, Thinned(plan, m),
           NEW u \in UsageFile, usage' = u, Len(u) = Len(usage),
           \A b \in 1 .. Len(usage) : u[b].id = usage[b].id /\ u[b].kind = usage[b].kind,
           ~mixed' => \A b \in 1 .. Len(u) : u[b].kind = "usage" => Parts(m, u[b].fence, u[b].id),
           mixed' \in BOOLEAN, pruned' \subseteq pruned, cursor' \in [main : Nat, usage : Nat],
           compaction' \in [Compactor -> Plan], UNCHANGED <<proj, issued, acked>>
    PROVE  FilesInv'
<1>0. SpoolTypes /\ OrderInv /\ AckedInv /\ Ordered(main) /\ Ordered(usage)
  BY DEF FilesInv, OrderInv
<1>1. m \in MainFile /\ Len(m) \in Nat /\ Len(u) \in Nat /\ Len(main) \in Nat /\ Len(usage) \in Nat
      /\ (\A i \in 1 .. Len(main) : main[i].id \in Nat) /\ \A b \in 1 .. Len(usage) : usage[b].id \in Nat
  BY <1>0, FilesTypes DEF Thinned, MainFile, UsageFile
<1>2. \A j \in 1 .. Len(m) : \E i \in 1 .. Len(main) : m[j] = main[i]
  BY DEF Thinned
<1>3. SpoolTypes'
  <2>1. pruned' \subseteq 1 .. issued'
    BY <1>0 DEF SpoolTypes
  <2> QED
    BY <1>0, <1>1, <2>1 DEF SpoolTypes
<1>4. ASSUME NEW j \in 1 .. Len(m), m[j].kind = "torn" PROVE j = Len(m)
  <2>1. Len(m) \in 1 .. Len(m)
    BY <1>1
  <2>2. PICK i \in 1 .. Len(main) : m[j] = main[i]
    BY <1>2
  <2>3. PICK k \in 1 .. Len(main) : m[Len(m)] = main[k]
    BY <1>2, <2>1
  <2>4. i = Len(main)
    BY <1>0, <1>4, <2>2 DEF Ordered
  <2>5. k <= i /\ main[k].id <= main[i].id
    <3>1. k <= i
      BY <1>1, <2>4
    <3>2. k = i \/ k < i
      BY <1>1, <3>1
    <3> QED
      BY <1>0, <1>1, <3>1, <3>2 DEF Ordered
  <2>6. ~(j < Len(m))
    <3>1. j < Len(m) => m[j].id < m[Len(m)].id
      BY <2>1 DEF Thinned
    <3> QED
      BY <1>1, <2>2, <2>3, <2>5, <3>1
  <2> QED
    BY <1>1, <2>6
<1>5. Ordered(main)'
  <2>1. \A i, j \in 1 .. Len(m) : i < j => m[i].id < m[j].id
    BY DEF Thinned
  <2>2. \A j \in 1 .. Len(m) : m[j].id <= issued
    BY <1>0, <1>2 DEF Ordered
  <2> QED
    BY <1>4, <2>1, <2>2 DEF Ordered
<1>6. Ordered(usage)'
  BY <1>0 DEF Ordered
<1>7. OrderInv'
  <2>1. \A j \in 1 .. Len(m), b \in 1 .. Len(u) : m[j].id # u[b].id
    <3> SUFFICES ASSUME NEW j \in 1 .. Len(m), NEW b \in 1 .. Len(u) PROVE m[j].id # u[b].id
      OBVIOUS
    <3>1. PICK i \in 1 .. Len(main) : m[j] = main[i]
      BY <1>2
    <3>2. b \in 1 .. Len(usage) /\ u[b].id = usage[b].id
      OBVIOUS
    <3>3. main[i].id # usage[b].id
      BY <1>0, <3>2 DEF OrderInv
    <3> QED
      BY <3>1, <3>2, <3>3
  <2> QED
    BY <1>5, <1>6, <2>1 DEF OrderInv
<1>8. AckedInv'
  <2>1. ASSUME NEW id \in acked
        PROVE  (\E j \in 1 .. Len(m) : m[j].id = id) \/ \E b \in 1 .. Len(u) : u[b].id = id
    <3>1. CASE \E i \in 1 .. Len(main) : main[i].id = id
      <4>1. PICK i \in 1 .. Len(main) : main[i].id = id
        BY <3>1
      <4>2. \E j \in 1 .. Len(m) : m[j] = main[i]
        BY <2>1, <4>1, NothingLost
      <4> QED
        BY <4>1, <4>2
    <3>2. CASE \E b \in 1 .. Len(usage) : usage[b].id = id
      BY <3>2
    <3> QED
      BY <1>0, <2>1, <3>1, <3>2 DEF AckedInv
  <2>2. \A j \in 1 .. Len(m) : m[j].kind \in {"torn", "ended"} => m[j].id \notin acked
    BY <1>0, <1>2 DEF AckedInv
  <2>3. \A b \in 1 .. Len(u) : u[b].kind \in {"torn", "ended"} => u[b].id \notin acked
    BY <1>0 DEF AckedInv
  <2> QED
    BY <2>1, <2>2, <2>3 DEF AckedInv
<1>9. FenceInv'
  BY DEF FenceInv, Splits, Parts
<1> QED
  BY <1>3, <1>7, <1>8, <1>9 DEF FilesInv

LEMMA SwappedProj ==
    ASSUME FilesInv, NEW p, NEW mp, NEW up, ProjInv(p, mp, up), AllAnswered(p),
           NEW plan, PlanHolds(plan, p, mp), plan.phase = "verified", Len(plan.main) \in Nat,
           NEW m, main' = m, Thinned(plan, m),
           NEW u \in UsageFile, usage' = u, Len(u) = Len(usage),
           \A b \in 1 .. Len(usage) : u[b].id = usage[b].id,
           pruned' \subseteq pruned, acked' = acked,
           \A d \in Compactor : compaction'[d].phase = "idle" \/ ~compaction'[d].current,
           NEW mq \in 0 .. Bytes(m), NEW uq \in 0 .. Bytes(u),
           \A j \in 1 .. Len(m) : m[j].id \in pruned' => End(m, j) <= mq
    PROVE  ProjInv(p, mq, uq)'
<1>1. p \in Projections /\ Backed(p) /\ PrunedBehind(p, mp)
  BY DEF ProjInv
<1>2. Backed(p)'
  <2>1. ASSUME NEW l \in p.receipts PROVE \E j \in 1 .. Len(m) : m[j] = l
    <3>1. PICK i \in 1 .. Len(main) : main[i] = l
      BY <1>1 DEF Backed
    <3>2. \E j \in 1 .. Len(m) : m[j] = main[i]
      <4>1. main[i].id \in acked \/ main[i] \in p.receipts
        BY <3>1
      <4> QED
        BY <4>1, NothingLost
    <3> QED
      BY <3>1, <3>2
  <2>2. \A id \in p.batches : \E b \in 1 .. Len(u) : u[b].id = id
    BY <1>1 DEF Backed
  <2> QED
    BY <2>1, <2>2 DEF Backed
<1>3. PrunedBehind(p, mq)'
  BY <1>1 DEF PrunedBehind
<1>4. Answering(p, mq, uq)'
  BY DEF Answering, AllAnswered
<1>5. PlansHold(p, mq)'
  BY DEF PlansHold
<1>6. mq \in (0 .. Bytes(main))' /\ uq \in (0 .. Bytes(usage))'
  OBVIOUS
<1> QED
  BY <1>1, <1>2, <1>3, <1>4, <1>5, <1>6 DEF ProjInv

LEMMA FitsIn ==
    ASSUME NEW file, NEW offset \in Nat, Bytes(file) \in Nat
    PROVE  Fitting(file, offset) \in 0 .. Bytes(file)
  BY DEF Fitting

\* A swap, or what is left of one that was cut off: the usage spool was renamed,
\* the main spool maybe, and the offsets stored or not.
LEMMA Swapped ==
    ASSUME SpoolInv, NEW c \in Compactor, NEW plan, plan = compaction[c], plan.phase = "verified", plan.current,
           NEW m, main' = m, m = main \/ m = NewMain(plan), NEW u, usage' = u, u = NewUsage(plan),
           compaction' = Replaced(c), UNCHANGED <<proj, issued, acked>>,
           cursor' \in [main : Nat, usage : Nat], pruned' \subseteq pruned, mixed' \in BOOLEAN,
           ~mixed' => ~mixed /\ (m = NewMain(plan) \/ u = usage),
           NEW mq, mq = Fitting(m, cursor'.main),
           \A j \in 1 .. Len(m) : m[j].id \in pruned' => End(m, j) <= mq
    PROVE  SpoolInv'
<1>1. FilesInv /\ SpoolTypes /\ AllAnswered(proj)
  BY BusyAnswers DEF SpoolInv, FilesInv
<1>2. PICK p, mp, up : p = proj /\ mp = Resumed.main /\ up = Resumed.usage
  OBVIOUS
<1>3. ProjInv(p, mp, up) /\ AllAnswered(p)
  BY <1>1, <1>2 DEF SpoolInv
<1>4. PlanHolds(plan, p, mp) /\ PlanFiles(plan) /\ Continues(main, plan.main)
  BY <1>3 DEF ProjInv, PlansHold, PlanHolds, PlanFiles
<1>5. plan.main \in MainFile /\ plan.usage \in UsageFile /\ Len(plan.main) \in Nat
  BY <1>1, PlanTypes
<1>6. Thinned(plan, m) /\ m \in MainFile
  <2>1. Thinned(plan, main)
    BY <1>1, MainThinned
  <2>2. PICK n : n = NewMain(plan)
    OBVIOUS
  <2>3. Thinned(plan, n)
    BY <1>1, <1>4, <1>5, <2>2, NewMainThinned
  <2>4. Thinned(plan, m)
    BY <2>1, <2>2, <2>3
  <2> QED
    BY <2>4 DEF Thinned
<1>7. /\ u \in UsageFile /\ Len(u) = Len(usage)
      /\ \A b \in 1 .. Len(usage) :
            /\ u[b].id = usage[b].id /\ u[b].kind = usage[b].kind
            /\ usage[b].kind = "usage" => u[b].fence = MovedFence(plan, b)
  BY <1>1, <1>5, NewUsageMoves
<1>8. ASSUME ~mixed', NEW b \in 1 .. Len(u), u[b].kind = "usage" PROVE Parts(m, u[b].fence, u[b].id)
  <2>1. ~mixed /\ b \in 1 .. Len(usage) /\ usage[b].kind = "usage" /\ u[b].id = usage[b].id
        /\ u[b].fence = MovedFence(plan, b)
    BY <1>7, <1>8
  <2>2. CASE m = NewMain(plan)
    <3>1. Parts(m, MovedFence(plan, b), usage[b].id)
      BY <1>1, <1>4, <1>5, <2>1, <2>2, FencesMove
    <3> QED
      BY <2>1, <3>1
  <2>3. CASE m = main /\ u = usage
    <3>1. Splits(usage[b].fence, usage[b].id)
      BY <1>1, <2>1 DEF FilesInv, FenceInv
    <3> QED
      BY <2>3, <3>1 DEF Splits, Parts
  <2> QED
    BY <1>8, <2>2, <2>3
<1>9. /\ compaction' \in [Compactor -> Plan]
      /\ \A d \in Compactor : compaction'[d].phase = "idle" \/ ~compaction'[d].current
  BY <1>1, ReplacedPlans
<1>10. FilesInv'
  BY <1>1, <1>3, <1>4, <1>5, <1>6, <1>7, <1>8, <1>9, SwappedFiles
<1>11. SpoolTypes'
  BY <1>10 DEF FilesInv
<1>12. Bytes(m) \in Nat /\ Bytes(u) \in Nat
  <2>1. m \in Seq(Lines) /\ u \in Seq(Lines)
    BY <1>6, <1>7, FilesHaveLines
  <2>2. Len(m) \in 0 .. Len(m) /\ Len(u) \in 0 .. Len(u)
    BY <2>1
  <2> QED
    BY <2>1, <2>2, EndTypes DEF Bytes
<1>13. PICK uq : uq = Fitting(u, cursor'.usage)
  OBVIOUS
<1>14. mq \in 0 .. Bytes(m) /\ uq \in 0 .. Bytes(u)
  BY <1>12, <1>13, FitsIn
<1>15. ProjInv(p, mq, uq)'
  BY <1>1, <1>3, <1>4, <1>5, <1>6, <1>7, <1>9, <1>14, SwappedProj
<1>16. p = proj' /\ mq = Resumed'.main /\ uq = Resumed'.usage
  BY <1>2, <1>13 DEF Resumed
<1>17. ProjInv(proj, Resumed.main, Resumed.usage)'
  BY <1>15, <1>16, Rephrased
<1> QED
  BY <1>10, <1>17 DEF SpoolInv

LEMMA SwapKeeps ==
    ASSUME SpoolInv, NEW c \in Compactor, Swap(c)
    PROVE  SpoolInv'
<1>1. PICK plan, m, u : plan = compaction[c] /\ m = NewMain(plan) /\ u = NewUsage(plan)
  OBVIOUS
<1>2. /\ plan.phase = "verified" /\ plan.current /\ main' = m /\ usage' = u
      /\ cursor' = [main |-> Bytes(m), usage |-> Bytes(u)] /\ compaction' = Replaced(c)
      /\ UNCHANGED <<proj, issued, acked, pruned, mixed>>
  BY <1>1 DEF Swap
<1>3. SpoolTypes /\ FilesInv /\ PlansHold(proj, Resumed.main)
  BY DEF SpoolInv, FilesInv, ProjInv
<1>4. plan.main \in MainFile /\ plan.usage \in UsageFile /\ Continues(main, plan.main)
  <2>1. plan.main \in MainFile /\ plan.usage \in UsageFile
    BY <1>1, <1>3, PlanTypes
  <2> QED
    BY <1>1, <1>2, <1>3, <2>1 DEF PlansHold, PlanHolds, PlanFiles
<1>5. m \in Seq(Lines) /\ u \in Seq(Lines) /\ Len(m) \in Nat
  <2>1. Thinned(plan, m)
    BY <1>1, <1>3, <1>4, NewMainThinned
  <2>2. m \in MainFile
    BY <2>1 DEF Thinned
  <2>3. u \in UsageFile
    BY <1>1, <1>3, <1>4, NewUsageMoves
  <2> QED
    BY <2>2, <2>3, FilesHaveLines
<1>6. Bytes(m) \in Nat /\ Bytes(u) \in Nat
  <2>1. Len(m) \in 0 .. Len(m) /\ Len(u) \in 0 .. Len(u)
    BY <1>5
  <2> QED
    BY <1>5, <2>1, EndTypes DEF Bytes
<1>7. cursor' \in [main : Nat, usage : Nat] /\ Fitting(m, cursor'.main) = Bytes(m)
  BY <1>2, <1>6 DEF Fitting
<1>8. \A j \in 1 .. Len(m) : End(m, j) <= Bytes(m)
  <2>1. Len(m) \in 0 .. Len(m) /\ \A j \in 1 .. Len(m) : j \in 0 .. Len(m) /\ j <= Len(m)
    BY <1>5
  <2> QED
    BY <1>5, <2>1, EndMonotonic DEF Bytes
<1>9. mixed' \in BOOLEAN /\ (mixed' <=> mixed) /\ pruned' \subseteq pruned
  BY <1>2, <1>3 DEF SpoolTypes
<1>10. PICK mq : mq = Fitting(m, cursor'.main)
  OBVIOUS
<1> QED
  BY <1>1, <1>2, <1>7, <1>8, <1>9, <1>10, Swapped

LEMMA SwapCutKeeps ==
    ASSUME SpoolInv, NEW c \in Compactor, SwapCut(c)
    PROVE  SpoolInv'
<1>1. PICK plan, m, u : plan = compaction[c] /\ m = main' /\ u = NewUsage(plan)
  OBVIOUS
<1>2. /\ plan.phase = "verified" /\ plan.current /\ usage' = u /\ compaction' = Replaced(c)
      /\ UNCHANGED <<proj, issued, acked>>
  BY <1>1 DEF SwapCut
<1>3. SpoolTypes /\ FilesInv /\ ProjInv(proj, Resumed.main, Resumed.usage)
  BY DEF SpoolInv, FilesInv
<1>4. mixed \in BOOLEAN /\ cursor \in [main : Nat, usage : Nat]
  BY <1>3 DEF SpoolTypes
<1>5. PICK mq : mq = Fitting(m, cursor'.main)
  OBVIOUS
<1>6. CASE m = main /\ mixed' = (mixed \/ u # usage) /\ UNCHANGED <<cursor, pruned>>
  <2>1. mq = Resumed.main
    BY <1>5, <1>6 DEF Resumed
  <2>2. \A j \in 1 .. Len(m) : m[j].id \in pruned' => End(m, j) <= mq
    BY <1>3, <1>6, <2>1 DEF ProjInv, PrunedBehind
  <2>3. mixed' \in BOOLEAN /\ (~mixed' => ~mixed /\ u = usage)
    BY <1>4, <1>6
  <2>4. cursor' \in [main : Nat, usage : Nat] /\ pruned' \subseteq pruned
    BY <1>4, <1>6
  <2> QED
    BY <1>1, <1>2, <1>5, <1>6, <2>2, <2>3, <2>4, Swapped
<1>7. CASE m = NewMain(plan) /\ pruned' = {} /\ UNCHANGED <<cursor, mixed>>
  <2>1. \A j \in 1 .. Len(m) : m[j].id \in pruned' => End(m, j) <= mq
    BY <1>7
  <2>2. mixed' \in BOOLEAN /\ (~mixed' => ~mixed)
    BY <1>4, <1>7
  <2>3. cursor' \in [main : Nat, usage : Nat] /\ pruned' \subseteq pruned
    BY <1>4, <1>7
  <2> QED
    BY <1>1, <1>2, <1>5, <1>7, <2>1, <2>2, <2>3, Swapped
<1>8. CASE m = NewMain(plan) /\ cursor' = [cursor EXCEPT !.main = Bytes(m)] /\ UNCHANGED <<pruned, mixed>>
  <2>1. plan.main \in MainFile /\ Continues(main, plan.main)
    <3>1. plan.main \in MainFile
      BY <1>1, <1>3, PlanTypes
    <3>2. PlansHold(proj, Resumed.main)
      BY <1>3 DEF ProjInv
    <3> QED
      BY <1>1, <1>2, <3>1, <3>2 DEF PlansHold, PlanHolds, PlanFiles
  <2>2. m \in Seq(Lines) /\ Len(m) \in Nat
    <3>1. Thinned(plan, m)
      BY <1>3, <1>8, <2>1, NewMainThinned
    <3> QED
      BY <3>1, FilesHaveLines DEF Thinned
  <2>3. Bytes(m) \in Nat
    <3>1. Len(m) \in 0 .. Len(m)
      BY <2>2
    <3> QED
      BY <2>2, <3>1, EndTypes DEF Bytes
  <2>4. cursor' \in [main : Nat, usage : Nat] /\ cursor'.main = Bytes(m) /\ pruned' \subseteq pruned
    BY <1>4, <1>8, <2>3
  <2>5. mq = Bytes(m)
    BY <1>5, <2>3, <2>4 DEF Fitting
  <2>6. \A j \in 1 .. Len(m) : End(m, j) <= mq
    <3>1. Len(m) \in 0 .. Len(m) /\ \A j \in 1 .. Len(m) : j \in 0 .. Len(m) /\ j <= Len(m)
      BY <2>2
    <3> QED
      BY <2>2, <2>5, <3>1, EndMonotonic DEF Bytes
  <2>7. mixed' \in BOOLEAN /\ (~mixed' => ~mixed)
    BY <1>4, <1>8
  <2> QED
    BY <1>1, <1>2, <1>5, <1>8, <2>4, <2>6, <2>7, Swapped
<1>9. \/ m = main /\ mixed' = (mixed \/ u # usage) /\ UNCHANGED <<cursor, pruned>>
      \/ m = NewMain(plan) /\ pruned' = {} /\ UNCHANGED <<cursor, mixed>>
      \/ m = NewMain(plan) /\ cursor' = [cursor EXCEPT !.main = Bytes(m)] /\ UNCHANGED <<pruned, mixed>>
  BY <1>1 DEF SwapCut
<1> QED
  BY <1>6, <1>7, <1>8, <1>9

-----------------------------------------------------------------------------
(* The specification.                                                      *)

LEMMA InitHolds ==
    ASSUME SpoolInit
    PROVE  SpoolInv
<1>1. PICK e, z : e = <<>> /\ z = 0
  OBVIOUS
<1>2. main = e /\ usage = e /\ proj = Empty /\ issued = z /\ acked = {} /\ pruned = {} /\ mixed = FALSE
      /\ cursor = [main |-> z, usage |-> z] /\ compaction = [c \in Compactor |-> Idle]
  BY <1>1 DEF SpoolInit
<1>3. e \in MainFile /\ e \in UsageFile /\ Len(e) = 0 /\ z \in Nat
  BY <1>1 DEF MainFile, UsageFile
<1>4. Bytes(e) = z
  BY <1>1, <1>3, EndUnfolds DEF Bytes
<1>5. Empty \in Projections /\ Empty.receipts = {} /\ Empty.batches = {}
  BY DEF Empty, Projections
<1>6. SpoolTypes
  <2>1. compaction \in [Compactor -> Plan]
    BY <1>2, IdleIsPlan
  <2>2. issued \in 0 .. MaxReceipt
    BY <1>1, <1>2, SpoolAssumption
  <2> QED
    BY <1>2, <1>3, <1>5, <2>1, <2>2 DEF SpoolTypes
<1>7. OrderInv /\ AckedInv /\ FenceInv
  BY <1>2, <1>3 DEF OrderInv, Ordered, AckedInv, FenceInv
<1>8. PICK p, mp, up : p = proj /\ mp = Resumed.main /\ up = Resumed.usage
  OBVIOUS
<1>9. mp = z /\ up = z /\ p = Empty
  BY <1>1, <1>2, <1>3, <1>4, <1>8 DEF Resumed, Fitting
<1>10. Backed(p) /\ PrunedBehind(p, mp)
  BY <1>2, <1>3, <1>5, <1>9 DEF Backed, PrunedBehind
<1>11. Answering(p, mp, up)
  BY <1>2 DEF Answering, AllAnswered
<1>12. PlansHold(p, mp)
  BY <1>2, IdleIsPlan DEF PlansHold
<1>13. ProjInv(p, mp, up)
  BY <1>1, <1>2, <1>4, <1>5, <1>9, <1>10, <1>11, <1>12 DEF ProjInv
<1> QED
  BY <1>6, <1>7, <1>8, <1>13 DEF SpoolInv, FilesInv

LEMMA StutterKeeps ==
    ASSUME SpoolInv, UNCHANGED spoolVars
    PROVE  SpoolInv'
<1>1. UNCHANGED <<main, usage, proj, cursor, compaction, issued, acked, pruned, mixed>>
  BY DEF spoolVars
<1>2. FilesInv /\ SpoolTypes /\ ProjInv(proj, Resumed.main, Resumed.usage)
  BY DEF SpoolInv, FilesInv
<1>3. FilesInv'
  <2>1. proj' \in Projections /\ cursor' \in [main : Nat, usage : Nat]
    BY <1>1, <1>2 DEF SpoolTypes
  <2> QED
    BY <1>1, <1>2, <2>1, FilesCarried
<1>4. PICK p, mp, up : p = proj /\ mp = Resumed.main /\ up = Resumed.usage
  OBVIOUS
<1>5. ProjInv(p, mp, up)'
  BY <1>1, <1>2, <1>4, Carried
<1>6. p = proj' /\ mp = Resumed'.main /\ up = Resumed'.usage
  BY <1>1, <1>4 DEF Resumed
<1>7. ProjInv(proj, Resumed.main, Resumed.usage)'
  BY <1>5, <1>6, Rephrased
<1> QED
  BY <1>3, <1>7 DEF SpoolInv

LEMMA StepHolds ==
    ASSUME SpoolInv, [SpoolNext]_spoolVars
    PROVE  SpoolInv'
<1>1. CASE Recover
  BY <1>1, RecoverKeeps
<1>2. CASE RecoverCut
  BY <1>2, RecoverCutKeeps
<1>3. ASSUME NEW kind \in {"evidence", "link"}, NEW e \in Evidence, AppendRecord(kind, e) \/ AppendCut(kind, e)
      PROVE  SpoolInv'
  BY <1>3, AppendKeeps, AppendCutKeeps
<1>4. CASE Reconcile
  BY <1>4, ReconcileKeeps
<1>5. CASE ReconcileCut
  BY <1>5, ReconcileCutKeeps
<1>6. ASSUME NEW selection \in SUBSET Evidence, Prune(selection)
      PROVE  SpoolInv'
  BY <1>6, PruneKeeps
<1>7. CASE DeleteProjection
  BY <1>7, DeleteKeeps
<1>8. ASSUME NEW c \in Compactor, Prepare(c) \/ Verify(c) \/ Abandon(c) \/ Swap(c) \/ SwapCut(c)
      PROVE  SpoolInv'
  BY <1>8, PrepareKeeps, VerifyKeeps, AbandonKeeps, SwapKeeps, SwapCutKeeps
<1>9. CASE UNCHANGED spoolVars
  BY <1>9, StutterKeeps
<1> QED
  BY <1>1, <1>2, <1>3, <1>4, <1>5, <1>6, <1>7, <1>8, <1>9 DEF SpoolNext

\* The invariant holds in every state of the store: whatever processes append,
\* reconcile, prune and compact, and wherever they are cut off.
THEOREM SpoolInvHolds == SpoolSpec => []SpoolInv
<1>1. SpoolInit => SpoolInv
  BY InitHolds
<1>2. SpoolInv /\ [SpoolNext]_spoolVars => SpoolInv'
  BY StepHolds
<1> QED
  BY <1>1, <1>2, PTL DEF SpoolSpec

\* The spools, the projection and the plans of the compactors keep their types;
\* nothing is acknowledged or pruned that was never written.
THEOREM SpoolTypeOKHolds == SpoolSpec => []SpoolTypeOK
<1>1. ASSUME SpoolInv PROVE SpoolTypeOK
  <2>1. SpoolTypes
    BY <1>1 DEF SpoolInv, FilesInv
  <2>2. proj.receipts \subseteq MainLine /\ proj.batches \subseteq ReceiptId
        /\ proj.errors \subseteq ReceiptId \X {"invalid", "refused"}
    BY <2>1 DEF SpoolTypes, Projections, ErrorWhy
  <2>3. ASSUME NEW c \in Compactor
        PROVE  /\ compaction[c].phase \in {"idle", "prepared", "verified"}
               /\ compaction[c].main \in MainFile /\ compaction[c].usage \in UsageFile
    BY <2>1 DEF SpoolTypes, Plan
  <2>4. acked \subseteq ReceiptId /\ pruned \subseteq ReceiptId
    <3>1. issued \in Nat /\ issued <= MaxReceipt
      BY <2>1, SpoolAssumption DEF SpoolTypes
    <3>2. 1 .. issued \subseteq ReceiptId
      BY <3>1, SpoolAssumption DEF ReceiptId
    <3> QED
      BY <2>1, <3>2 DEF SpoolTypes
  <2> QED
    BY <2>1, <2>2, <2>3, <2>4 DEF SpoolTypeOK, SpoolTypes
<1> QED
  BY <1>1, SpoolInvHolds, PTL

\* Everything that the projection answers for is on the spools: a compaction
\* loses neither what is referred to nor what was appended while it ran.
THEOREM ProjectionBackedHolds == SpoolSpec => []ProjectionBacked
<1>1. ASSUME SpoolInv PROVE ProjectionBacked
  <2>1. SpoolTypes /\ Backed(proj)
    BY <1>1 DEF SpoolInv, FilesInv, ProjInv
  <2>2. DOMAIN main = 1 .. Len(main) /\ DOMAIN usage = 1 .. Len(usage)
    BY <2>1, FilesTypes
  <2> QED
    BY <2>1, <2>2 DEF Backed, ProjectionBacked, Ids
<1> QED
  BY <1>1, SpoolInvHolds, PTL

\* A receipt whose append returned is on its spool until a prune removes it.
THEOREM AckedIsDurableHolds == SpoolSpec => []AckedIsDurable
<1>1. ASSUME SpoolInv PROVE AckedIsDurable
  <2>1. SpoolTypes /\ AckedInv
    BY <1>1 DEF SpoolInv, FilesInv
  <2>2. DOMAIN main = 1 .. Len(main) /\ DOMAIN usage = 1 .. Len(usage)
    BY <2>1, FilesTypes
  <2> QED
    BY <2>1, <2>2 DEF AckedInv, AckedIsDurable, Ids
<1> QED
  BY <1>1, SpoolInvHolds, PTL

\* Once the replay has caught up, the projection answers for every receipt whose
\* append returned, unless the database refused it.
THEOREM AckedIsVisibleHolds == SpoolSpec => []AckedIsVisible
<1>1. ASSUME SpoolInv, CaughtUp, NEW id \in acked
      PROVE  id \in {l.id : l \in proj.receipts} \cup proj.batches \cup Refused
  <2>1. SpoolTypes /\ AckedInv /\ Answering(proj, Resumed.main, Resumed.usage)
    BY <1>1 DEF SpoolInv, FilesInv, ProjInv
  <2>2. main \in Seq(Lines) /\ usage \in Seq(Lines) /\ Len(main) \in Nat /\ Len(usage) \in Nat
    BY <2>1, FilesTypes
  <2>3. \A i \in 1 .. Len(main) : End(main, i) <= Resumed.main
    <3>1. Len(main) \in 0 .. Len(main) /\ \A j \in 1 .. Len(main) : j \in 0 .. Len(main) /\ j <= Len(main)
      BY <2>2
    <3> QED
      BY <1>1, <2>2, <3>1, EndMonotonic DEF CaughtUp, Bytes
  <2>4. \A b \in 1 .. Len(usage) : End(usage, b) <= Resumed.usage
    <3>1. Len(usage) \in 0 .. Len(usage) /\ \A j \in 1 .. Len(usage) : j \in 0 .. Len(usage) /\ j <= Len(usage)
      BY <2>2
    <3> QED
      BY <1>1, <2>2, <3>1, EndMonotonic DEF CaughtUp, Bytes
  <2>5. Answers(proj, id)
    <3>1. CASE AllAnswered(proj)
      BY <1>1, <3>1 DEF AllAnswered
    <3>2. CASE Passed(main, Resumed.main, proj) /\ Passed(usage, Resumed.usage, proj)
      <4>1. CASE \E i \in 1 .. Len(main) : main[i].id = id
        BY <1>1, <2>3, <3>2, <4>1 DEF Passed
      <4>2. CASE \E b \in 1 .. Len(usage) : usage[b].id = id
        BY <1>1, <2>4, <3>2, <4>2 DEF Passed
      <4> QED
        BY <1>1, <2>1, <4>1, <4>2 DEF AckedInv
    <3> QED
      BY <2>1, <3>1, <3>2 DEF Answering
  <2>6. id \in ReceiptId
    <3>1. issued \in Nat /\ issued <= MaxReceipt /\ id \in 1 .. issued
      BY <1>1, <2>1, SpoolAssumption DEF SpoolTypes
    <3> QED
      BY <3>1, SpoolAssumption DEF ReceiptId
  <2> QED
    BY <2>5, <2>6 DEF Answers, Refused
<1>2. ASSUME SpoolInv PROVE AckedIsVisible
  BY <1>1, <1>2 DEF AckedIsVisible
<1> QED
  BY <1>2, SpoolInvHolds, PTL

\* Unless a swap was cut off between its two renames, a fence splits the main
\* spool where its batch arrived, before and after any compaction.
THEOREM FencesKeepArrivalOrderHolds == SpoolSpec => []FencesKeepArrivalOrder
<1>1. ASSUME SpoolInv PROVE FencesKeepArrivalOrder
  <2>1. SpoolTypes /\ FenceInv
    BY <1>1 DEF SpoolInv, FilesInv
  <2>2. DOMAIN main = 1 .. Len(main) /\ DOMAIN usage = 1 .. Len(usage)
    BY <2>1, FilesTypes
  <2> QED
    BY <2>1, <2>2 DEF FenceInv, Splits, FencesKeepArrivalOrder
<1> QED
  BY <1>1, SpoolInvHolds, PTL

\* Each receipt is on its spool once, in the order of arrival.
THEOREM WrittenOnceHolds == SpoolSpec => []WrittenOnce
<1>1. ASSUME SpoolInv PROVE WrittenOnce
  <2>1. SpoolTypes /\ Ordered(main) /\ Ordered(usage)
    BY <1>1 DEF SpoolInv, FilesInv, OrderInv
  <2>2. DOMAIN main = 1 .. Len(main) /\ DOMAIN usage = 1 .. Len(usage)
    BY <2>1, FilesTypes
  <2>3. \A i, j \in DOMAIN main : i < j => main[i].id < main[j].id
    BY <2>1, <2>2 DEF Ordered
  <2>4. \A i, j \in DOMAIN usage : i < j => usage[i].id < usage[j].id
    BY <2>1, <2>2 DEF Ordered
  <2> QED
    BY <2>3, <2>4 DEF WrittenOnce
<1> QED
  BY <1>1, SpoolInvHolds, PTL

\* What prune removed behind the cursor is not projected again.
THEOREM PrunedStaysPrunedHolds == SpoolSpec => []PrunedStaysPruned
<1>1. ASSUME SpoolInv PROVE PrunedStaysPruned
  <2>1. \A l \in proj.receipts : l.id \notin pruned
    BY <1>1 DEF SpoolInv, ProjInv, PrunedBehind
  <2> QED
    BY <2>1 DEF PrunedStaysPruned
<1> QED
  BY <1>1, SpoolInvHolds, PTL

-----------------------------------------------------------------------------
(* The promise.                                                            *)

\* A replay adds what the lines of the spools carry, and takes nothing away.
Batched(id) == \E b \in 1 .. Len(usage) : usage[b].kind = "usage" /\ usage[b].id = id
Adds(p, q) ==
    /\ p.receipts \subseteq q.receipts /\ p.batches \subseteq q.batches /\ p.errors \subseteq q.errors
    /\ \A id \in q.batches : id \in p.batches \/ Batched(id)

LEMMA StepAdds ==
    ASSUME SpoolTypes, NEW r \in ReplayState(main, usage), NEW s \in ReplayStep(main, usage, r)
    PROVE  s \in ReplayState(main, usage) /\ Adds(r.proj, s.proj)
<1>1. /\ main \in MainFile /\ main \in Seq(MainLine \cup TornLine)
      /\ usage \in UsageFile /\ usage \in Seq(UsageLine \cup TornLine)
      /\ \A i \in 1 .. Len(main) : main[i] \in MainLine \cup TornLine
  BY FilesTypes
<1>2. /\ s \in ReplayState(main, usage)
      /\ ReadsMain(main, r, s) \/ ReadsUsage(usage, r, s) \/ Raises(r, s)
  BY <1>1, ReplayStepReads
<1>3. r.proj \in Projections
  BY DEF ReplayState
<1>4. CASE ReadsMain(main, r, s)
  <2>1. PICK i \in 1 .. Len(main) : s.proj \in Projected(r.proj, main, i, r.main)
    BY <1>4 DEF ReadsMain, Reads
  <2>2. main[i].kind # "usage"
    BY <1>1, LineKinds
  <2> QED
    BY <1>1, <1>2, <1>3, <2>1, <2>2, ProjectedTypes DEF Adds
<1>5. CASE ReadsUsage(usage, r, s)
  <2>1. PICK b \in 1 .. Len(usage) : s.proj \in Projected(r.proj, usage, b, r.usage)
    BY <1>5 DEF ReadsUsage, Reads
  <2> QED
    BY <1>1, <1>2, <1>3, <2>1, ProjectedTypes DEF Adds, Batched
<1>6. CASE Raises(r, s)
  BY <1>2, <1>6 DEF Raises, Adds
<1> QED
  BY <1>2, <1>4, <1>5, <1>6

LEMMA ReplayAdds ==
    ASSUME SpoolInv, NEW r \in Replays(main, usage, Resumed)
    PROVE  /\ Adds(proj, r.proj)
           /\ \A s \in ReplayStep(main, usage, r) : Adds(proj, s.proj)
<1>1. SpoolTypes
  BY DEF SpoolInv, FilesInv
<1> DEFINE Good == {s \in ReplayState(main, usage) : Adds(proj, s.proj)}
<1>2. Resumed \in Good
  <2>1. Resumed \in ReplayState(main, usage) /\ Resumed.proj = proj
    BY ResumedKnown DEF Known, Resumed
  <2> QED
    BY <2>1 DEF Adds
<1>3. \A s \in Good : ReplayStep(main, usage, s) \subseteq Good
  BY <1>1, StepAdds DEF Adds
<1>4. Len(main) \in Nat /\ Len(usage) \in Nat
  BY <1>1, FilesTypes
<1>5. Replays(main, usage, Resumed) \subseteq Good
  <2> HIDE DEF Good
  <2> QED
    BY <1>2, <1>3, <1>4, ReplayStays
<1>6. r \in Good
  BY <1>5
<1> QED
  BY <1>3, <1>6

\* Behind every batch that the projection has is a whole line.
BatchInv == \A id \in proj.batches : Batched(id)

LEMMA SpoolsHold ==
    ASSUME SpoolTypes
    PROVE  /\ \A l : l \in OnSpools <=>
                 \/ \E i \in 1 .. Len(main) : main[i] = l /\ l.kind \in {"evidence", "link"}
                 \/ \E id : Batched(id) /\ l = [kind |-> "usage", id |-> id]
           /\ \A l \in Shown : l \in proj.receipts \/ \E id \in proj.batches : l = [kind |-> "usage", id |-> id]
<1>1. DOMAIN main = 1 .. Len(main) /\ DOMAIN usage = 1 .. Len(usage)
  BY FilesTypes
<1> QED
  BY <1>1 DEF OnSpools, Batches, Batched, Shown

LEMMA ShownIsWritten ==
    ASSUME SpoolInv, BatchInv
    PROVE  Shown \subseteq OnSpools
<1>1. SpoolTypes /\ Backed(proj)
  BY DEF SpoolInv, FilesInv, ProjInv
<1>2. proj.receipts \subseteq MainLine
  BY <1>1 DEF SpoolTypes, Projections
<1>3. \A l \in proj.receipts : l.kind \in {"evidence", "link"}
  BY <1>2, LineKinds
<1> QED
  BY <1>1, <1>3, SpoolsHold DEF Backed, BatchInv

\* A line that is not torn is the same line in a file that goes on.
LEMMA SameWhole ==
    ASSUME NEW file \in Seq(Lines), NEW new, NEW i \in 1 .. Len(file), SameOrEnded(new[i], file[i]),
           NEW l, l.kind \notin {"torn", "ended"}
    PROVE  new[i] = l <=> file[i] = l
<1>1. file[i] \in Lines
  BY ElementOfSeq
<1> QED
  BY <1>1, TornToEnded

LEMMA WholeGrown ==
    ASSUME NEW file \in Seq(Lines), NEW new, NEW l, Grown(new, file, l), NEW k, k.kind \notin {"torn", "ended"}
    PROVE  (\E i \in 1 .. Len(new) : new[i] = k) <=> (\E i \in 1 .. Len(file) : file[i] = k) \/ k = l
<1>1. Len(file) \in Nat /\ Len(new) = Len(file) + 1 /\ new[Len(file) + 1] = l
  BY DEF Grown
<1>2. \A i \in 1 .. Len(file) : new[i] = k <=> file[i] = k
  BY SameWhole DEF Grown
<1>3. \A i \in 1 .. Len(new) : i \in 1 .. Len(file) \/ i = Len(file) + 1
  BY <1>1
<1>4. Len(file) + 1 \in 1 .. Len(new) /\ \A i \in 1 .. Len(file) : i \in 1 .. Len(new)
  BY <1>1
<1> QED
  BY <1>1, <1>2, <1>3, <1>4

\* What a step that goes on writing leaves on the spools.
MainGoesOn(l) ==
    \A k : k.kind \notin {"torn", "ended"} =>
        ((\E i \in 1 .. Len(main') : main'[i] = k) <=> (\E i \in 1 .. Len(main) : main[i] = k) \/ k = l)
BatchesGoOn(l) ==
    \A id : Batched(id)' <=> Batched(id) \/ (l.kind = "usage" /\ id = l.id)

LEMMA AppendWrites ==
    ASSUME SpoolTypes, NEW l \in MainLine \cup TornLine, main' = Append1(main, l), usage' = usage
    PROVE  MainGoesOn(l) /\ \A id : Batched(id)' <=> Batched(id)
<1>1. main \in Seq(MainLine \cup TornLine) /\ main \in Seq(Lines)
  BY FilesTypes
<1>2. Grown(Append1(main, l), main, l)
  BY <1>1, AppendGrows
<1>3. PICK m : m = main'
  OBVIOUS
<1>4. Grown(m, main, l)
  BY <1>2, <1>3
<1>5. \A k : k.kind \notin {"torn", "ended"} =>
        ((\E i \in 1 .. Len(m) : m[i] = k) <=> (\E i \in 1 .. Len(main) : main[i] = k) \/ k = l)
  BY <1>1, <1>4, WholeGrown
<1> QED
  BY <1>3, <1>5 DEF MainGoesOn, Batched

LEMMA ReconcileWrites ==
    ASSUME SpoolTypes, NEW l \in UsageLine \cup TornLine, main' = EndTorn(main), usage' = Append1(usage, l)
    PROVE  /\ \A k : k.kind \notin {"torn", "ended"} =>
                 ((\E i \in 1 .. Len(main') : main'[i] = k) <=> \E i \in 1 .. Len(main) : main[i] = k)
           /\ BatchesGoOn(l)
<1>1. /\ main \in Seq(MainLine \cup TornLine) /\ main \in Seq(Lines)
      /\ usage \in Seq(UsageLine \cup TornLine) /\ usage \in Seq(Lines)
  BY FilesTypes
<1>2. PICK m, u : m = main' /\ u = usage'
  OBVIOUS
<1>3. Len(m) = Len(main) /\ \A i \in 1 .. Len(main) : SameOrEnded(m[i], main[i])
  BY <1>1, <1>2, TornIsEnded
<1>4. \A k : k.kind \notin {"torn", "ended"} => \A i \in 1 .. Len(main) : m[i] = k <=> main[i] = k
  BY <1>1, <1>3, SameWhole
<1>5. Grown(u, usage, l)
  BY <1>1, <1>2, AppendGrows
<1>6. \A k : k.kind \notin {"torn", "ended"} =>
        ((\E i \in 1 .. Len(u) : u[i] = k) <=> (\E i \in 1 .. Len(usage) : usage[i] = k) \/ k = l)
  BY <1>1, <1>5, WholeGrown
<1>7. ASSUME NEW id
      PROVE  (\E b \in 1 .. Len(u) : u[b].kind = "usage" /\ u[b].id = id)
                <=> (\E b \in 1 .. Len(usage) : usage[b].kind = "usage" /\ usage[b].id = id)
                        \/ (l.kind = "usage" /\ id = l.id)
  <2>1. \A k : k.kind = "usage" => k.kind \notin {"torn", "ended"}
    OBVIOUS
  <2> QED
    BY <1>6, <2>1
<1> QED
  BY <1>2, <1>3, <1>4, <1>7 DEF BatchesGoOn, Batched

LEMMA SwapMoves ==
    ASSUME SpoolInv, NEW c \in Compactor, Swap(c) \/ SwapCut(c)
    PROVE  /\ \A id : Batched(id)' <=> Batched(id)
           /\ \A i \in 1 .. Len(main') : \E j \in 1 .. Len(main) : main'[i] = main[j]
           /\ \A i \in 1 .. Len(main) :
                 \/ \E j \in 1 .. Len(main') : main'[j] = main[i]
                 \/ Droppable(compaction[c], main[i]) /\ main[i].id \notin acked
           /\ UNCHANGED <<proj, issued, acked>>
<1>1. PICK plan, m, u : plan = compaction[c] /\ m = main' /\ u = usage'
  OBVIOUS
<1>2. /\ plan.phase = "verified" /\ plan.current /\ u = NewUsage(plan)
      /\ m = main \/ m = NewMain(plan)
      /\ UNCHANGED <<proj, issued, acked>>
  BY <1>1 DEF Swap, SwapCut
<1>3. SpoolTypes /\ FilesInv /\ ProjInv(proj, Resumed.main, Resumed.usage)
  BY DEF SpoolInv, FilesInv
<1>4. PlanHolds(plan, proj, Resumed.main) /\ Continues(main, plan.main)
  BY <1>1, <1>2, <1>3 DEF ProjInv, PlansHold, PlanHolds, PlanFiles
<1>5. plan.main \in MainFile /\ plan.usage \in UsageFile /\ Len(plan.main) \in Nat
  BY <1>1, <1>3, PlanTypes
<1>6. Thinned(plan, m)
  <2>1. Thinned(plan, main)
    BY <1>3, MainThinned
  <2>2. PICK n : n = NewMain(plan)
    OBVIOUS
  <2>3. Thinned(plan, n)
    BY <1>3, <1>4, <1>5, <2>2, NewMainThinned
  <2> QED
    BY <1>2, <2>1, <2>2, <2>3
<1>7. /\ Len(u) = Len(usage)
      /\ \A b \in 1 .. Len(usage) : u[b].id = usage[b].id /\ u[b].kind = usage[b].kind
  BY <1>2, <1>3, <1>5, NewUsageMoves
<1>8. \A id : Batched(id)' <=> Batched(id)
  BY <1>1, <1>7 DEF Batched
<1>9. ASSUME NEW i \in 1 .. Len(main), ~ \E j \in 1 .. Len(m) : m[j] = main[i]
      PROVE  Droppable(plan, main[i]) /\ main[i].id \notin acked
  <2>1. ~(main[i].id \in acked)
    <3>1. PICK p, mp, up : p = proj /\ mp = Resumed.main /\ up = Resumed.usage
      OBVIOUS
    <3>2. ProjInv(p, mp, up) /\ PlanHolds(plan, p, mp)
      BY <1>3, <1>4, <3>1
    <3> QED
      BY <1>2, <1>3, <1>5, <1>6, <1>9, <3>2, NothingLost
  <2> QED
    BY <1>6, <1>9, <2>1 DEF Thinned
<1> QED
  BY <1>1, <1>2, <1>6, <1>8, <1>9 DEF Thinned

LEMMA RecoveryAdds ==
    ASSUME SpoolInv, NEW r \in Recoveries
    PROVE  Adds(proj, r.proj)
  BY ReplayAdds DEF Recoveries, Replayed

LEMMA BatchesOf ==
    ASSUME BatchInv, NEW p, Adds(proj, p), NEW id \in p.batches
    PROVE  Batched(id)
  BY DEF BatchInv, Adds

LEMMA BatchesKept ==
    ASSUME SpoolInv, BatchInv, [SpoolNext]_spoolVars
    PROVE  BatchInv'
<1>0. SpoolTypes /\ proj \in Projections
  BY DEF SpoolInv, FilesInv, SpoolTypes
<1>1. ASSUME UNCHANGED usage, Adds(proj, proj') PROVE BatchInv'
  BY <1>1 DEF Adds, BatchInv, Batched
<1>2. ASSUME UNCHANGED usage, proj'.batches \subseteq proj.batches PROVE BatchInv'
  BY <1>2 DEF BatchInv, Batched
<1>3. CASE Recover
  BY <1>1, <1>3, RecoveryAdds DEF Recover
<1>4. CASE RecoverCut
  BY <1>1, <1>4, ReplayAdds DEF RecoverCut
<1>5. ASSUME NEW kind \in {"evidence", "link"}, NEW e \in Evidence, AppendRecord(kind, e) \/ AppendCut(kind, e)
      PROVE  BatchInv'
  <2>1. PICK r \in Recoveries, l \in MainLine : ~r.raised /\ proj' \in {r.proj, WithReceipt(r.proj, l)}
    <3>1. PICK r \in Recoveries : ~r.raised /\ proj' \in {r.proj, WithReceipt(r.proj, [kind |-> kind, id |-> NewId, of |-> e])}
      BY <1>5 DEF AppendRecord, AppendCut
    <3>2. NewId \in ReceiptId
      BY <1>5, <3>1, Ready DEF AppendRecord, AppendCut
    <3>3. [kind |-> kind, id |-> NewId, of |-> e] \in MainLine
      BY <3>2 DEF MainLine
    <3> QED
      BY <3>1, <3>3
  <2>2. r.proj \in Projections /\ Adds(proj, r.proj)
    BY RecoveryAdds, RecoveryAnswers DEF Known, ReplayState
  <2>3. proj'.batches = r.proj.batches /\ UNCHANGED usage
    BY <1>5, <2>1, <2>2, ReceiptAdded DEF AppendRecord, AppendCut
  <2> QED
    BY <2>2, <2>3, BatchesOf DEF BatchInv, Batched
<1>6. CASE Reconcile \/ ReconcileCut
  <2>1. PICK r \in Recoveries, l \in UsageLine \cup TornLine :
            /\ ~r.raised /\ main' = EndTorn(main) /\ usage' = Append1(usage, l) /\ NewId \in ReceiptId
            /\ \/ proj' = r.proj
               \/ l.kind = "usage" /\ l.id = NewId /\ proj' = WithBatch(r.proj, NewId)
    <3> DEFINE l == [kind |-> "usage", id |-> NewId, fence |-> Bytes(main)]
               t == [kind |-> "torn", id |-> NewId]
    <3>1. PICK r \in Recoveries :
              /\ ~r.raised /\ main' = EndTorn(main)
              /\ \/ usage' = Append1(usage, l) /\ proj' \in {r.proj, WithBatch(r.proj, NewId)}
                 \/ usage' = Append1(usage, t) /\ proj' = r.proj
      BY <1>6 DEF Reconcile, ReconcileCut
    <3>2. NewId \in ReceiptId /\ Bytes(main) \in Nat
      BY <1>6, <3>1, Ready DEF Reconcile, ReconcileCut
    <3>3. l \in UsageLine /\ l.kind = "usage" /\ l.id = NewId /\ t \in TornLine
      BY <3>2 DEF UsageLine, TornLine
    <3> HIDE DEF l, t
    <3> QED
      BY <3>1, <3>2, <3>3
  <2>2. r.proj \in Projections /\ Adds(proj, r.proj)
    BY RecoveryAdds, RecoveryAnswers DEF Known, ReplayState
  <2>3. BatchesGoOn(l)
    BY <1>0, <2>1, ReconcileWrites
  <2>4. ASSUME NEW id \in proj'.batches PROVE Batched(id)'
    <3>1. id \in r.proj.batches \/ (l.kind = "usage" /\ id = l.id)
      BY <2>1, <2>2, <2>4, BatchAdded
    <3> QED
      BY <2>2, <2>3, <3>1, BatchesOf DEF BatchesGoOn
  <2> QED
    BY <2>4 DEF BatchInv
<1>7. ASSUME NEW selection, Prune(selection)
      PROVE  BatchInv'
  <2>1. UNCHANGED usage /\ \E S : proj' = [proj EXCEPT !.receipts = S]
    BY <1>7 DEF Prune
  <2>2. proj'.batches = proj.batches
    BY <1>0, <2>1 DEF Projections
  <2> QED
    BY <1>2, <2>1, <2>2
<1>8. CASE DeleteProjection
  BY <1>2, <1>8 DEF DeleteProjection, Empty
<1>9. ASSUME NEW c \in Compactor, Prepare(c) \/ Verify(c) \/ Abandon(c)
      PROVE  BatchInv'
  <2>1. CASE Prepare(c)
    BY <1>1, <2>1, RecoveryAdds DEF Prepare
  <2>2. CASE Verify(c) \/ Abandon(c)
    BY <1>2, <2>2 DEF Verify, Abandon
  <2> QED
    BY <1>9, <2>1, <2>2
<1>10. ASSUME NEW c \in Compactor, Swap(c) \/ SwapCut(c)
       PROVE  BatchInv'
  BY <1>10, SwapMoves DEF BatchInv
<1>11. CASE UNCHANGED spoolVars
  BY <1>2, <1>11 DEF spoolVars
<1> QED
  BY <1>3, <1>4, <1>5, <1>6, <1>7, <1>8, <1>9, <1>10, <1>11 DEF SpoolNext

\* The same of the spools behind a step.
LEMMA SpoolsHoldNext ==
    ASSUME SpoolTypes'
    PROVE  \A k : k \in OnSpools' <=>
               \/ \E i \in 1 .. Len(main') : main'[i] = k /\ k.kind \in {"evidence", "link"}
               \/ \E id : Batched(id)' /\ k = [kind |-> "usage", id |-> id]
<1>1. main' \in MainFile /\ usage' \in UsageFile
  BY DEF SpoolTypes
<1>2. DOMAIN main' = 1 .. Len(main') /\ DOMAIN usage' = 1 .. Len(usage')
  BY <1>1 DEF MainFile, UsageFile
<1> QED
  BY <1>2 DEF OnSpools, Batches, Batched

LEMMA OnSpoolsMain ==
    ASSUME SpoolTypes, SpoolTypes', NEW l, MainGoesOn(l), \A id : Batched(id)' <=> Batched(id)
    PROVE  OnSpools' = IF l.kind \in {"evidence", "link"} THEN OnSpools \cup {l} ELSE OnSpools
<1>1. ASSUME NEW k, k.kind \in {"evidence", "link"}
      PROVE  (\E i \in 1 .. Len(main') : main'[i] = k) <=> (\E i \in 1 .. Len(main) : main[i] = k) \/ k = l
  BY <1>1 DEF MainGoesOn
<1>2. \A k : k \in OnSpools' <=> k \in OnSpools \/ (k = l /\ l.kind \in {"evidence", "link"})
  BY <1>1, SpoolsHold, SpoolsHoldNext
<1> QED
  BY <1>2

LEMMA OnSpoolsUsage ==
    ASSUME SpoolTypes, SpoolTypes', NEW l, BatchesGoOn(l),
           \A k : k.kind \notin {"torn", "ended"} =>
               ((\E i \in 1 .. Len(main') : main'[i] = k) <=> \E i \in 1 .. Len(main) : main[i] = k)
    PROVE  OnSpools' = IF l.kind = "usage" THEN OnSpools \cup {[kind |-> "usage", id |-> l.id]} ELSE OnSpools
<1>1. ASSUME NEW k, k.kind \in {"evidence", "link"}
      PROVE  (\E i \in 1 .. Len(main') : main'[i] = k) <=> \E i \in 1 .. Len(main) : main[i] = k
  BY <1>1
<1>2. \A k : k \in OnSpools' <=> k \in OnSpools \/ (k = [kind |-> "usage", id |-> l.id] /\ l.kind = "usage")
  BY <1>1, SpoolsHold, SpoolsHoldNext DEF BatchesGoOn
<1> QED
  BY <1>2

\* What every state of the store promises, and what a replay makes of it.
Promises == Shown \subseteq OnSpools /\ AckedIsVisible

LEMMA Replaying ==
    ASSUME Promises', proj.receipts \subseteq proj'.receipts,
           proj.batches \subseteq proj'.batches, proj.errors \subseteq proj'.errors
    PROVE  Promised!Replay
<1>1. Shown \subseteq Shown'
  BY DEF Shown, Batches
<1>2. Refused \subseteq Refused'
  BY DEF Refused
<1> QED
  BY <1>1, <1>2 DEF Promises, Promised!Replay

LEMMA AnsweredNext ==
    ASSUME Promises'
    PROVE  Promised!Answered'
<1>1. PICK p : p = proj'
  OBVIOUS
<1>2. ASSUME NEW id, id \in {l.id : l \in p.receipts} \cup p.batches
      PROVE  \E l \in p.receipts \cup Batches(p.batches) : l.id = id
  <2>1. CASE id \in p.batches
    <3>1. [kind |-> "usage", id |-> id] \in Batches(p.batches)
      BY <2>1 DEF Batches
    <3> QED
      BY <3>1
  <2> QED
    BY <1>2, <2>1
<1>3. \A id \in {l.id : l \in p.receipts} \cup p.batches : id \in {l.id : l \in Shown'}
  BY <1>1, <1>2 DEF Shown
<1> QED
  BY <1>1, <1>3 DEF Promises, AckedIsVisible, Promised!Answered, Promised!IdsOf

LEMMA SpoolBytes ==
    ASSUME NEW m \in MainFile, NEW u \in UsageFile
    PROVE  Bytes(m) \in Nat /\ Bytes(u) \in Nat
<1>1. m \in Seq(Lines) /\ u \in Seq(Lines)
  BY FilesHaveLines
<1>2. Len(m) \in 0 .. Len(m) /\ Len(u) \in 0 .. Len(u)
  BY <1>1
<1> QED
  BY <1>1, <1>2, EndTypes DEF Bytes

LEMMA SettledNext ==
    ASSUME SpoolTypes', cursor' = [main |-> Bytes(main'), usage |-> Bytes(usage')]
    PROVE  CaughtUp'
<1>1. PICK m \in MainFile, u \in UsageFile : m = main' /\ u = usage'
  BY DEF SpoolTypes
<1>2. Bytes(m) \in Nat /\ Bytes(u) \in Nat
  BY SpoolBytes
<1>3. PICK mb, ub : mb = Bytes(m) /\ ub = Bytes(u)
  OBVIOUS
<1>4. cursor' = [main |-> mb, usage |-> ub] /\ mb <= Bytes(main') /\ ub <= Bytes(usage')
  BY <1>1, <1>2, <1>3
<1>5. Resumed'.main = mb /\ Resumed'.usage = ub
  BY <1>4, OffsetsStored
<1> QED
  BY <1>1, <1>3, <1>5 DEF CaughtUp

\* The steps that replay.
LEMMA CatchesUp ==
    ASSUME SpoolInv, Promises', \/ Recover \/ RecoverCut \/ \E c \in Compactor : Prepare(c)
    PROVE  Promised!ReceiptStoreNext
<1>1. Adds(proj, proj')
  <2>1. CASE Recover
    BY <2>1, RecoveryAdds DEF Recover
  <2>2. CASE RecoverCut
    BY <2>2, ReplayAdds DEF RecoverCut
  <2>3. CASE \E c \in Compactor : Prepare(c)
    BY <2>3, RecoveryAdds DEF Prepare
  <2> QED
    BY <2>1, <2>2, <2>3
<1>2. UNCHANGED <<main, usage, issued, acked>>
  BY DEF Recover, RecoverCut, Prepare
<1>3. OnSpools' = OnSpools
  BY <1>2 DEF OnSpools
<1>4. Promised!CatchUp
  BY <1>1, <1>2, <1>3, Replaying DEF Promised!CatchUp, Adds
<1> QED
  BY <1>4, AnsweredNext DEF Promised!ReceiptStoreNext

\* A projection that a replay has left, with one more receipt.
LEMMA AddsMore ==
    ASSUME NEW p, NEW q, q \in Projections, Adds(p, q)
    PROVE  /\ \A l \in MainLine : p.receipts \subseteq WithReceipt(q, l).receipts
                  /\ p.batches \subseteq WithReceipt(q, l).batches /\ p.errors \subseteq WithReceipt(q, l).errors
           /\ \A id \in ReceiptId : p.receipts \subseteq WithBatch(q, id).receipts
                  /\ p.batches \subseteq WithBatch(q, id).batches /\ p.errors \subseteq WithBatch(q, id).errors
  BY ReceiptAdded, BatchAdded DEF Adds

\* The steps that write.
LEMMA Accepts ==
    ASSUME SpoolInv, SpoolInv', Promises', NEW kind \in {"evidence", "link"}, NEW e \in Evidence,
           AppendRecord(kind, e)
    PROVE  Promised!ReceiptStoreNext
<1> DEFINE l == [kind |-> kind, id |-> NewId, of |-> e]
<1>1. PICK r \in Recoveries :
          /\ ~r.raised
          /\ main' = Append1(main, l)
          /\ proj' = WithReceipt(r.proj, l)
          /\ cursor' = [main |-> Bytes(main'), usage |-> r.usage]
  BY DEF AppendRecord
<1>2. issued < MaxReceipt /\ issued' = NewId /\ acked' = acked \cup {NewId} /\ UNCHANGED usage
  BY DEF AppendRecord
<1>3. SpoolTypes /\ SpoolTypes'
  BY DEF SpoolInv, FilesInv
<1>4. NewId \in ReceiptId /\ r.usage = Bytes(usage) /\ r.proj \in Projections
  BY <1>1, <1>2, Ready
<1>5. l \in MainLine /\ l.id = NewId /\ l.kind \in {"evidence", "link"}
  BY <1>4 DEF MainLine
<1> HIDE DEF l
<1>6. Adds(proj, r.proj)
  BY RecoveryAdds
<1>7. OnSpools' = OnSpools \cup {l}
  <2>1. MainGoesOn(l) /\ \A id : Batched(id)' <=> Batched(id)
    BY <1>1, <1>2, <1>3, <1>5, AppendWrites
  <2> QED
    BY <1>3, <1>5, <2>1, OnSpoolsMain
<1>8. Promised!Replay
  BY <1>1, <1>4, <1>5, <1>6, AddsMore, Replaying
<1>9. l \in Shown'
  BY <1>1, <1>4, <1>5, ReceiptAdded DEF Shown
<1>10. CaughtUp'
  BY <1>1, <1>2, <1>3, <1>4, SettledNext
<1>11. Promised!Accept(l)
  BY <1>2, <1>5, <1>7, <1>8, <1>9, <1>10 DEF Promised!Accept, NewId
<1> QED
  BY <1>5, <1>11, AnsweredNext DEF Promised!ReceiptStoreNext

LEMMA AppendCutsOff ==
    ASSUME SpoolInv, SpoolInv', Promises', NEW kind \in {"evidence", "link"}, NEW e \in Evidence,
           AppendCut(kind, e)
    PROVE  Promised!ReceiptStoreNext
<1> DEFINE l == [kind |-> kind, id |-> NewId, of |-> e]
           t == [kind |-> "torn", id |-> NewId]
<1>1. PICK r \in Recoveries :
          /\ ~r.raised
          /\ \/ main' = Append1(main, t) /\ proj' = r.proj
             \/ main' = Append1(main, l) /\ proj' \in {r.proj, WithReceipt(r.proj, l)}
  BY DEF AppendCut
<1>2. issued < MaxReceipt /\ issued' = NewId /\ UNCHANGED <<acked, usage>>
  BY DEF AppendCut
<1>3. SpoolTypes /\ SpoolTypes'
  BY DEF SpoolInv, FilesInv
<1>4. NewId \in ReceiptId /\ r.proj \in Projections
  BY <1>1, <1>2, Ready
<1>5. /\ l \in MainLine /\ l.id = NewId /\ l.kind \in {"evidence", "link"}
      /\ t \in TornLine /\ t.kind \notin {"evidence", "link"}
  BY <1>4 DEF MainLine, TornLine
<1> HIDE DEF l, t
<1>6. Adds(proj, r.proj)
  BY RecoveryAdds
<1>7. OnSpools' \in {OnSpools, OnSpools \cup {l}}
  <2>1. PICK k \in {l, t} : main' = Append1(main, k)
    BY <1>1
  <2>2. MainGoesOn(k) /\ \A id : Batched(id)' <=> Batched(id)
    BY <1>2, <1>3, <1>5, <2>1, AppendWrites
  <2> QED
    BY <1>3, <1>5, <2>1, <2>2, OnSpoolsMain
<1>8. Promised!Replay
  <2>1. CASE proj' = r.proj
    BY <1>6, <2>1, Replaying DEF Adds
  <2>2. CASE proj' = WithReceipt(r.proj, l)
    BY <1>4, <1>5, <1>6, <2>2, AddsMore, Replaying
  <2> QED
    BY <1>1, <2>1, <2>2
<1>9. Promised!CutOff(l)
  BY <1>2, <1>5, <1>7, <1>8 DEF Promised!CutOff, NewId
<1> QED
  BY <1>5, <1>9, AnsweredNext DEF Promised!ReceiptStoreNext

LEMMA AcceptsBatch ==
    ASSUME SpoolInv, SpoolInv', Promises', Reconcile
    PROVE  Promised!ReceiptStoreNext
<1> DEFINE l == [kind |-> "usage", id |-> NewId, fence |-> Bytes(main)]
           b == [kind |-> "usage", id |-> NewId]
<1>1. PICK r \in Recoveries :
          /\ ~r.raised
          /\ main' = EndTorn(main)
          /\ usage' = Append1(usage, l)
          /\ proj' = WithBatch(r.proj, NewId)
          /\ cursor' = [main |-> r.main, usage |-> Bytes(usage')]
  BY DEF Reconcile
<1>2. issued < MaxReceipt /\ issued' = NewId /\ acked' = acked \cup {NewId}
  BY DEF Reconcile
<1>3. SpoolTypes /\ SpoolTypes'
  BY DEF SpoolInv, FilesInv
<1>4. NewId \in ReceiptId /\ r.main = Bytes(main) /\ r.proj \in Projections /\ Bytes(main) \in Nat
  BY <1>1, <1>2, Ready
<1>5. l \in UsageLine /\ l.id = NewId /\ l.kind = "usage" /\ b.id = NewId
  BY <1>4 DEF UsageLine
<1>6. b \in Batches(ReceiptId) /\ \A p : NewId \in p.batches => b \in Batches(p.batches)
  BY <1>4 DEF Batches
<1>7. OnSpools' = OnSpools \cup {b}
  <2> HIDE DEF l
  <2>1. /\ BatchesGoOn(l)
        /\ \A k : k.kind \notin {"torn", "ended"} =>
             ((\E i \in 1 .. Len(main') : main'[i] = k) <=> \E i \in 1 .. Len(main) : main[i] = k)
    BY <1>1, <1>3, <1>5, ReconcileWrites
  <2> QED
    BY <1>3, <1>5, <2>1, OnSpoolsUsage
<1> HIDE DEF l, b
<1>8. Adds(proj, r.proj)
  BY RecoveryAdds
<1>9. Promised!Replay
  BY <1>1, <1>4, <1>8, AddsMore, Replaying
<1>10. b \in Shown'
  BY <1>1, <1>4, <1>6, BatchAdded DEF Shown
<1>11. CaughtUp'
  <2>1. PICK m : m = main'
    OBVIOUS
  <2>2. Bytes(m) = Bytes(main)
    <3>1. /\ main \in Seq(MainLine \cup TornLine) /\ main \in Seq(Lines) /\ Len(main) \in Nat
      BY <1>3, FilesTypes
    <3>2. /\ m \in Seq(MainLine \cup TornLine) /\ Len(m) = Len(main)
          /\ \A i \in 1 .. Len(main) : SameOrEnded(m[i], main[i])
      BY <1>1, <2>1, <3>1, TornIsEnded
    <3>3. m \in Seq(Lines) /\ Continues(m, main)
      BY <3>1, <3>2, FilesHaveLines DEF Continues, MainFile
    <3>4. End(m, Len(main)) = End(main, Len(main))
      BY <3>1, <3>3, ContinuesEnds
    <3> QED
      BY <3>2, <3>4 DEF Bytes
  <2>3. cursor' = [main |-> Bytes(main'), usage |-> Bytes(usage')]
    BY <1>1, <1>4, <2>1, <2>2
  <2> QED
    BY <1>3, <2>3, SettledNext
<1>12. Promised!Accept(b)
  BY <1>2, <1>5, <1>7, <1>9, <1>10, <1>11 DEF Promised!Accept, NewId
<1> QED
  BY <1>6, <1>12, AnsweredNext DEF Promised!ReceiptStoreNext

LEMMA ReconcileCutsOff ==
    ASSUME SpoolInv, SpoolInv', Promises', ReconcileCut
    PROVE  Promised!ReceiptStoreNext
<1> DEFINE l == [kind |-> "usage", id |-> NewId, fence |-> Bytes(main)]
           t == [kind |-> "torn", id |-> NewId]
           b == [kind |-> "usage", id |-> NewId]
<1>1. PICK r \in Recoveries :
          /\ ~r.raised
          /\ main' = EndTorn(main)
          /\ \/ usage' = Append1(usage, t) /\ proj' = r.proj
             \/ usage' = Append1(usage, l) /\ proj' \in {r.proj, WithBatch(r.proj, NewId)}
  BY DEF ReconcileCut
<1>2. issued < MaxReceipt /\ issued' = NewId /\ UNCHANGED acked
  BY DEF ReconcileCut
<1>3. SpoolTypes /\ SpoolTypes'
  BY DEF SpoolInv, FilesInv
<1>4. NewId \in ReceiptId /\ r.proj \in Projections /\ Bytes(main) \in Nat
  BY <1>1, <1>2, Ready
<1>5. /\ l \in UsageLine /\ l.id = NewId /\ l.kind = "usage" /\ b.id = NewId
      /\ t \in TornLine /\ t.kind # "usage" /\ t.id = NewId
  BY <1>4 DEF UsageLine, TornLine
<1>6. b \in Batches(ReceiptId)
  BY <1>4 DEF Batches
<1>7. OnSpools' \in {OnSpools, OnSpools \cup {b}}
  <2> HIDE DEF l, t
  <2>1. PICK k \in {l, t} : usage' = Append1(usage, k)
    BY <1>1
  <2>2. /\ BatchesGoOn(k)
        /\ \A j : j.kind \notin {"torn", "ended"} =>
             ((\E i \in 1 .. Len(main') : main'[i] = j) <=> \E i \in 1 .. Len(main) : main[i] = j)
    BY <1>1, <1>3, <1>5, <2>1, ReconcileWrites
  <2> QED
    BY <1>3, <1>5, <2>1, <2>2, OnSpoolsUsage
<1> HIDE DEF l, t, b
<1>8. Adds(proj, r.proj)
  BY RecoveryAdds
<1>9. Promised!Replay
  <2>1. CASE proj' = r.proj
    BY <1>8, <2>1, Replaying DEF Adds
  <2>2. CASE proj' = WithBatch(r.proj, NewId)
    BY <1>4, <1>8, <2>2, AddsMore, Replaying
  <2> QED
    BY <1>1, <2>1, <2>2
<1>10. Promised!CutOff(b)
  BY <1>2, <1>5, <1>7, <1>9 DEF Promised!CutOff, NewId
<1> QED
  BY <1>6, <1>10, AnsweredNext DEF Promised!ReceiptStoreNext

\* Prune takes receipts that a query finds, and only evidence that is not honest.
LEMMA Withdraws ==
    ASSUME SpoolInv, Promises', NEW selection, Prune(selection)
    PROVE  Promised!ReceiptStoreNext
<1> DEFINE gone == {l \in proj.receipts : l.kind = "evidence" /\ l.of \in selection}
<1>1. /\ selection \subseteq Versions(proj) \ (Honest \cup Linked(proj))
      /\ proj' = [proj EXCEPT !.receipts = @ \ gone]
      /\ acked' = acked \ {l.id : l \in gone}
      /\ UNCHANGED <<main, usage, cursor, compaction, issued, mixed>>
  BY DEF Prune
<1>2. SpoolTypes
  BY DEF SpoolInv, FilesInv
<1>3. /\ proj.receipts \subseteq MainLine
      /\ proj' = [receipts |-> proj.receipts \ gone, batches |-> proj.batches, errors |-> proj.errors]
  BY <1>1, <1>2 DEF SpoolTypes, Projections
<1>4. gone \subseteq Shown /\ gone \subseteq {r \in MainLine : IsPrunable(r)}
  BY <1>1, <1>3 DEF Shown, IsPrunable
<1>5. Shown' = Shown \ gone
  <2>1. gone \cap Batches(proj.batches) = {}
    BY DEF Batches
  <2> HIDE DEF gone
  <2> QED
    BY <1>3, <2>1 DEF Shown
<1>6. acked' = acked \ Promised!IdsOf(gone)
  BY <1>1 DEF Promised!IdsOf
<1> HIDE DEF gone
<1>7. OnSpools' = OnSpools /\ Refused' = Refused /\ CaughtUp' = CaughtUp
  BY <1>1, <1>3 DEF OnSpools, Refused, CaughtUp, Resumed
<1>8. \A r \in gone, l \in Shown : l.kind = "link" => l.of # r.of
  BY <1>1 DEF Shown, Batches, Linked, gone
<1>9. Promised!Withdraw(gone)
  BY <1>1, <1>5, <1>6, <1>7, <1>8 DEF Promised!Withdraw
<1> QED
  BY <1>4, <1>9, AnsweredNext DEF Promised!ReceiptStoreNext

LEMMA Forgets ==
    ASSUME Promises', DeleteProjection
    PROVE  Promised!ReceiptStoreNext
<1>1. proj' = Empty /\ UNCHANGED <<main, usage, issued, acked>>
  BY DEF DeleteProjection
<1>2. Shown' = {} /\ Refused' = {} /\ OnSpools' = OnSpools
  BY <1>1 DEF Empty, Shown, Batches, Refused, OnSpools
<1>3. Promised!Forget
  BY <1>1, <1>2 DEF Promised!Forget
<1> QED
  BY <1>3, AnsweredNext DEF Promised!ReceiptStoreNext

\* A swap takes from disk what it may drop: evidence of the prune target, that no
\* query finds and that nobody was promised.
LEMMA Compacts ==
    ASSUME SpoolInv, SpoolInv', Promises', NEW c \in Compactor, Swap(c) \/ SwapCut(c)
    PROVE  Promised!ReceiptStoreNext
<1> DEFINE S == OnSpools \ OnSpools'
<1>1. /\ \A id : Batched(id)' <=> Batched(id)
      /\ \A i \in 1 .. Len(main') : \E j \in 1 .. Len(main) : main'[i] = main[j]
      /\ \A i \in 1 .. Len(main) :
            \/ \E j \in 1 .. Len(main') : main'[j] = main[i]
            \/ Droppable(compaction[c], main[i]) /\ main[i].id \notin acked
      /\ UNCHANGED <<proj, issued, acked>>
  BY SwapMoves
<1>2. SpoolTypes /\ SpoolTypes'
  BY DEF SpoolInv, FilesInv
<1>3. OnSpools' \subseteq OnSpools
  BY <1>1, <1>2, SpoolsHold, SpoolsHoldNext
<1>4. ASSUME NEW l \in S PROVE l \in MainLine /\ IsPrunable(l) /\ l.id \notin acked
  <2>1. PICK i \in 1 .. Len(main) : main[i] = l /\ l.kind \in {"evidence", "link"}
    BY <1>1, <1>2, <1>4, SpoolsHold, SpoolsHoldNext
  <2>2. ~ \E j \in 1 .. Len(main') : main'[j] = l
    BY <1>2, <1>4, <2>1, SpoolsHoldNext
  <2>3. Droppable(compaction[c], l) /\ l.id \notin acked
    BY <1>1, <2>1, <2>2
  <2>4. l \in MainLine
    <3>1. l \in MainLine \cup TornLine
      BY <1>2, <2>1, FilesTypes
    <3> QED
      BY <2>1, <3>1, LineKinds
  <2> QED
    BY <2>3, <2>4, SpoolAssumption DEF Droppable, IsPrunable
<1>5. Shown' = Shown /\ Refused' = Refused
  BY <1>1 DEF Shown, Refused
<1>6. S \cap Shown = {}
  BY <1>5 DEF Promises
<1>7. Promised!IdsOf(S) \cap acked = {}
  BY <1>4 DEF Promised!IdsOf
<1>8. S \in SUBSET (OnSpools \cap {r \in MainLine : IsPrunable(r)})
  BY <1>4
<1>9. OnSpools' = OnSpools \ S
  BY <1>3
<1> HIDE DEF S
<1>10. Promised!Compact(S)
  BY <1>1, <1>5, <1>6, <1>7, <1>9 DEF Promised!Compact
<1> QED
  BY <1>8, <1>10, AnsweredNext DEF Promised!ReceiptStoreNext

LEMMA PromiseKept ==
    ASSUME SpoolInv, SpoolInv', Promises', [SpoolNext]_spoolVars
    PROVE  [Promised!ReceiptStoreNext]_(Promised!receiptStoreVars)
<1>1. CASE Recover \/ RecoverCut \/ \E c \in Compactor : Prepare(c)
  BY <1>1, CatchesUp
<1>2. ASSUME NEW kind \in {"evidence", "link"}, NEW e \in Evidence, AppendRecord(kind, e) \/ AppendCut(kind, e)
      PROVE  Promised!ReceiptStoreNext
  BY <1>2, Accepts, AppendCutsOff
<1>3. CASE Reconcile \/ ReconcileCut
  BY <1>3, AcceptsBatch, ReconcileCutsOff
<1>4. ASSUME NEW selection \in SUBSET Evidence, Prune(selection)
      PROVE  Promised!ReceiptStoreNext
  BY <1>4, Withdraws
<1>5. CASE DeleteProjection
  BY <1>5, Forgets
<1>6. ASSUME NEW c \in Compactor, Swap(c) \/ SwapCut(c)
      PROVE  Promised!ReceiptStoreNext
  BY <1>6, Compacts
<1>7. CASE UNCHANGED spoolVars \/ \E c \in Compactor : Verify(c) \/ Abandon(c)
  <2>1. UNCHANGED <<main, usage, proj, cursor, issued, acked>>
    BY <1>7 DEF spoolVars, Verify, Abandon
  <2>2. UNCHANGED <<OnSpools, Shown, Refused, CaughtUp>>
    BY <2>1 DEF OnSpools, Shown, Refused, CaughtUp, Resumed
  <2> QED
    BY <2>1, <2>2 DEF Promised!receiptStoreVars
<1> QED
  BY <1>1, <1>2, <1>3, <1>4, <1>5, <1>6, <1>7 DEF SpoolNext

\* The store implements ReceiptStore: whatever processes append, reconcile, prune
\* and compact, and wherever they are cut off, each of their steps is one that was
\* promised or changes nothing that was.
THEOREM ReceiptsImplemented == SpoolSpec => ImplementsReceipts
<1>1. SpoolInit => Promised!ReceiptStoreInit
  <2> SUFFICES ASSUME SpoolInit PROVE Promised!ReceiptStoreInit
    OBVIOUS
  <2>1. main = <<>> /\ usage = <<>> /\ proj = Empty /\ cursor = [main |-> 0, usage |-> 0] /\ issued = 0 /\ acked = {}
    BY DEF SpoolInit
  <2>2. OnSpools = {} /\ Shown = {} /\ Refused = {}
    BY <2>1 DEF OnSpools, Shown, Batches, Refused, Empty
  <2>3. CaughtUp
    <3>1. PICK e, z : e = <<>> /\ z = 0
      OBVIOUS
    <3>2. e \in MainFile /\ e \in UsageFile /\ Len(e) = 0
      BY <3>1 DEF MainFile, UsageFile
    <3>3. Bytes(e) = z
      BY <3>1, <3>2, EndUnfolds DEF Bytes
    <3> QED
      BY <2>1, <3>1, <3>3 DEF CaughtUp, Resumed, Fitting
  <2> QED
    BY <2>1, <2>2, <2>3 DEF Promised!ReceiptStoreInit
<1>2. SpoolInit => BatchInv
  BY DEF SpoolInit, Empty, BatchInv
<1>3. SpoolInv /\ BatchInv /\ [SpoolNext]_spoolVars => BatchInv'
  BY BatchesKept
<1>4. SpoolInv /\ BatchInv /\ AckedIsVisible => Promises
  BY ShownIsWritten DEF Promises
<1>5. SpoolInv /\ SpoolInv' /\ Promises' /\ [SpoolNext]_spoolVars
        => [Promised!ReceiptStoreNext]_(Promised!receiptStoreVars)
  BY PromiseKept
<1> QED
  BY <1>1, <1>2, <1>3, <1>4, <1>5, SpoolInvHolds, AckedIsVisibleHolds, PTL
     DEF SpoolSpec, ImplementsReceipts, Promised!ReceiptStoreSpec
=============================================================================
