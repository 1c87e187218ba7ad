---------------------------- MODULE MappingProofs ----------------------------
(* Proofs about FilamentMapping, for every file, printer and set of pauses and *)
(* every way a file is cut into chunks: the scan finds every tool change, and  *)
(* what else it finds comes from a cut number or from a heater at the end of a *)
(* chunk; each extrusion is printed from the slot that was chosen for it; the  *)
(* pauses stand where they were asked for.                                     *)
EXTENDS FilamentMapping, FiniteSetTheorems, WellFoundedInduction, TLAPS

\* Lines of a file.
LineSet == [op : STRING, n : Nat]

LEMMA LinesAre ==
  ASSUME file \in Files
  PROVE  /\ file.lines \in Seq(LineSet) /\ Len(file.lines) \in Nat
         /\ DOMAIN file.lines = 1..Len(file.lines)
         /\ \A i \in 1..Len(file.lines) :
              /\ file.lines[i] \in LineSet /\ file.lines[i].n \in Nat
         /\ Whole \in 0..Len(file.lines)
<1>1. file.lines \in Seq(LineSet) /\ file.bare \in BOOLEAN /\ (file.bare => file.lines # <<>>)
  BY FilesAssumption DEF LineSet
<1>2. \A l \in LineSet : l.n \in Nat
  BY DEF LineSet
<1>3. PICK n \in Nat : n = Len(file.lines) /\ DOMAIN file.lines = 1..n
  BY <1>1
<1>4. file.bare => n # 0
  BY <1>1, <1>3
<1>5. Whole \in 0..n
  <2>1. CASE file.bare
    BY <1>3, <1>4, <2>1 DEF Whole
  <2>2. CASE ~file.bare
    BY <1>3, <2>2 DEF Whole
  <2> QED
    BY <2>1, <2>2
<1> QED
  BY <1>1, <1>2, <1>3, <1>5

-----------------------------------------------------------------------------
(* The scan                                                                    *)

\* What the scan may report besides the tools of the file.
Noise == (UNION {CutPrefixes(t) : t \in Tools})
           \union {l.n : l \in {m \in ToSet(file.lines) : Heats(m)}}

\* The first k lines have been taken into account.
FoundUpTo(k) ==
    \A i \in 1..k : IsTool(file.lines[i]) /\ file.lines[i].n < Cap => file.lines[i].n \in used

\* The strengthening: while the stream runs the tools of the lines it has read
\* are known; the noise is bounded in every task.
ScanInv ==
    /\ file \in Files
    /\ task = "scan" => pos \in 0..Len(file.lines) /\ FoundUpTo(pos)
    /\ task = "dialog" => FoundUpTo(Len(file.lines))
    /\ used \subseteq Tools \union Noise

\* A tool change that a chunk holds whole is found.
LEMMA ToolOfLine ==
  ASSUME file \in Files, NEW i \in 1..Len(file.lines)
  PROVE  /\ IsTool(file.lines[i]) => file.lines[i].n \in Tools
         /\ IsTool(file.lines[i]) => CutPrefixes(file.lines[i].n) \subseteq Noise
         /\ Heats(file.lines[i]) => file.lines[i].n \in Noise
<1>1. DOMAIN file.lines = 1..Len(file.lines)
  BY LinesAre
<1>2. IsTool(file.lines[i]) => file.lines[i].n \in Tools
  BY <1>1 DEF Tools
<1>3. IsTool(file.lines[i]) => CutPrefixes(file.lines[i].n) \subseteq Noise
  BY <1>2, Zenon DEF Noise
<1>4. file.lines[i] \in ToSet(file.lines)
  BY <1>1 DEF ToSet
<1>5. Heats(file.lines[i]) => file.lines[i].n \in Noise
  BY <1>4, Zenon DEF Noise
<1> QED
  BY <1>2, <1>3, <1>5

LEMMA ScanInit == Init => ScanInv
<1> SUFFICES ASSUME Init PROVE ScanInv
  OBVIOUS
<1>1. Len(file.lines) \in Nat
  BY LinesAre DEF Init
<1> QED
  BY <1>1 DEF Init, ScanInv, FoundUpTo

\* The chunk: k whole lines, and perhaps one wrong number at its end.
LEMMA ScanChunkKeeps ==
  ASSUME ScanInv, NEW k \in 0..(Len(file.lines) - pos), NEW cut \in BOOLEAN,
         ScanChunk(k, cut)
  PROVE  ScanInv'
<1> DEFINE whole == UNION {Found(file.lines[i]) : i \in pos + 1 .. pos + k}
           next == pos + k + 1
           tails == {i \in {pos + k, next} \intersect 1..(Len(file.lines) - 1) :
                        Heats(file.lines[i]) /\ (i = next => cut)}
           part == (IF cut /\ next <= Len(file.lines) /\ IsTool(file.lines[next])
                    THEN CutPrefixes(file.lines[next].n) ELSE {})
                   \union {file.lines[i].n : i \in tails}
<1>1. /\ task = "scan" /\ task' = "scan" /\ file' = file /\ pos' = pos + k
      /\ \E p \in SUBSET part :
            /\ Cardinality(p) <= 1
            /\ used' = used \union {t \in whole \union p : t < Cap}
  BY DEF ScanChunk, input
<1>2. PICK p \in SUBSET part : used' = used \union {t \in whole \union p : t < Cap}
  BY <1>1
<1>3. /\ file \in Files /\ pos \in 0..Len(file.lines) /\ FoundUpTo(pos)
      /\ used \subseteq Tools \union Noise
  BY <1>1 DEF ScanInv
<1>4. Len(file.lines) \in Nat /\ \A i \in 1..Len(file.lines) : file.lines[i].n \in Nat
  BY <1>3, LinesAre
<1>5. pos + k \in 0..Len(file.lines)
  BY <1>3, <1>4
<1>6. whole \subseteq Tools
  <2>1. \A i \in pos + 1 .. pos + k : i \in 1..Len(file.lines)
    BY <1>3, <1>4
  <2>2. \A i \in pos + 1 .. pos + k : Found(file.lines[i]) \subseteq Tools
    BY <1>3, <2>1, ToolOfLine DEF Found
  <2> QED
    BY <2>2
<1>7. part \subseteq Noise
  <2>1. ASSUME cut /\ next <= Len(file.lines) /\ IsTool(file.lines[next])
        PROVE  CutPrefixes(file.lines[next].n) \subseteq Noise
    <3>1. next \in 1..Len(file.lines)
      BY <1>3, <1>4, <2>1
    <3> QED
      BY <1>3, <2>1, <3>1, ToolOfLine
  <2>2. \A i \in tails : file.lines[i].n \in Noise
    <3>1. \A i \in tails : i \in 1..Len(file.lines) /\ Heats(file.lines[i])
      BY <1>4
    <3> QED
      BY <1>3, <3>1, ToolOfLine
  <2> QED
    BY <2>1, <2>2
<1>8. Tools' = Tools /\ Noise' = Noise
  BY <1>1 DEF Tools, Noise
<1>9. used' \subseteq Tools \union Noise
  BY <1>2, <1>3, <1>6, <1>7
<1>10. \A i \in 1..(pos + k) :
         IsTool(file.lines[i]) /\ file.lines[i].n < Cap => file.lines[i].n \in used'
  <2> SUFFICES ASSUME NEW i \in 1..(pos + k), IsTool(file.lines[i]), file.lines[i].n < Cap
               PROVE  file.lines[i].n \in used'
    OBVIOUS
  <2>1. CASE i \in 1..pos
    BY <1>2, <1>3, <2>1 DEF FoundUpTo
  <2>2. CASE i \in pos + 1 .. pos + k
    <3>1. file.lines[i].n \in Nat
      BY <1>3, <1>4, <1>5
    <3>2. file.lines[i].n \in Found(file.lines[i])
      BY <3>1 DEF Found, Cap
    <3>3. file.lines[i].n \in whole
      BY <2>2, <3>2
    <3> QED
      BY <1>2, <3>3
  <2> QED
    BY <1>3, <2>1, <2>2
<1> QED
  BY <1>1, <1>3, <1>5, <1>8, <1>9, <1>10 DEF ScanInv, FoundUpTo

LEMMA ScanEndKeeps ==
  ASSUME ScanInv, ScanEnd
  PROVE  ScanInv'
<1>1. task = "scan" /\ pos = Len(file.lines) /\ task' = "dialog" /\ file' = file /\ used' = used
  BY DEF ScanEnd, input
<1>2. Tools' = Tools /\ Noise' = Noise
  BY <1>1 DEF Tools, Noise
<1> QED
  BY <1>1, <1>2 DEF ScanInv, FoundUpTo

\* The other actions leave what was found alone and do not return to the scan.
LEMMA OthersKeep ==
  ASSUME ScanInv, file' = file, used' = used,
         task' \in {"scan", "dialog"} => task' = task /\ task # "scan"
  PROVE  ScanInv'
<1>1. Tools' = Tools /\ Noise' = Noise
  BY DEF Tools, Noise
<1> QED
  BY <1>1 DEF ScanInv, FoundUpTo

LEMMA ScanNext == ScanInv /\ [Next]_vars => ScanInv'
<1> SUFFICES ASSUME ScanInv, [Next]_vars PROVE ScanInv'
  OBVIOUS
<1>1. ASSUME NEW k \in 0..(Len(file.lines) - pos), NEW cut \in BOOLEAN, ScanChunk(k, cut)
      PROVE  ScanInv'
  BY <1>1, ScanChunkKeeps
<1>2. CASE ScanEnd
  BY <1>2, ScanEndKeeps
<1>3. ASSUME NEW i, NEW v, Choose(i, v)
      PROVE  ScanInv'
  BY <1>3, OthersKeep DEF Choose, input
<1>4. CASE StatusArrives
  BY <1>4, OthersKeep DEF StatusArrives, input
<1>5. CASE Submit
  BY <1>5, OthersKeep DEF Submit, input
<1>6. ASSUME NEW k, MapChunk(k) \/ PauseChunk(k)
      PROVE  ScanInv'
  BY <1>6, OthersKeep DEF MapChunk, PauseChunk, input
<1>7. CASE MapEnd \/ PauseEnd
  BY <1>7, OthersKeep DEF MapEnd, PauseEnd, input
<1>8. CASE UNCHANGED vars
  <2>1. Tools' = Tools /\ Noise' = Noise
    BY <1>8 DEF vars, input, Tools, Noise
  <2> QED
    BY <1>8, <2>1 DEF vars, input, ScanInv, FoundUpTo
<1> QED
  BY <1>1, <1>2, <1>3, <1>4, <1>5, <1>6, <1>7, <1>8 DEF Next

\* What the scan knows at each point of the stream (gcode-filaments.ts), and that the
\* rest of what it found is noise.
THEOREM ScanInvariant == Spec => []ScanInv
BY ScanInit, ScanNext, PTL DEF Spec

\* ScanComplete for every file, every choice of printers and colours, and every
\* way the file is cut: all filaments below the cap of parseGcodeFilaments are in
\* the dialog, and no number is but those the file holds or a cut one begins with.
THEOREM ScanCompleteAlways == Spec => []ScanComplete
<1>1. ScanInv => ScanComplete
  <2> SUFFICES ASSUME ScanInv, task = "dialog"
               PROVE  /\ {t \in Tools : t < Cap} \subseteq used
                      /\ used \ Tools \subseteq Noise
    BY DEF ScanComplete, Noise
  <2>1. \A i \in DOMAIN file.lines :
          IsTool(file.lines[i]) /\ file.lines[i].n < Cap => file.lines[i].n \in used
    BY LinesAre DEF ScanInv, FoundUpTo
  <2> QED
    BY <2>1 DEF ScanInv, Tools
<1> QED
  BY <1>1, ScanInvariant, PTL

-----------------------------------------------------------------------------
(* Least and greatest                                                          *)

\* Every set of numbers has a least one, and one that is bounded a greatest.
LEMMA Least ==
  ASSUME NEW S \in SUBSET Nat, S # {}
  PROVE  Min(S) \in S /\ \A x \in S : Min(S) <= x
<1>1. \A R : R = OpToRel(<, Nat) => IsWellFoundedOn(R, Nat)
  BY NatLessThanWellFounded
<1>2. PICK R : R = {ss \in Nat \X Nat : ss[1] < ss[2]}
  OBVIOUS
<1>3. IsWellFoundedOn(R, Nat)
  BY <1>1, <1>2 DEF OpToRel
<1>4. PICK m \in S : \A y \in S : ~(<<y, m>> \in R)
  BY <1>3, WFMin
<1>5. ASSUME NEW y \in S
      PROVE  m <= y
  <2>1. y \in Nat /\ m \in Nat
    OBVIOUS
  <2>2. ~(y < m)
    <3>1. PICK p : p = <<y, m>>
      OBVIOUS
    <3>2. p \in Nat \X Nat /\ p[1] = y /\ p[2] = m
      BY <2>1, <3>1
    <3>3. p \notin R
      BY <1>4, <3>1
    <3> QED
      BY <1>2, <3>2, <3>3
  <2> QED
    BY <2>1, <2>2
<1> QED
  BY <1>5, Zenon DEF Min

LEMMA Greatest ==
  ASSUME NEW n \in Nat, NEW S \in SUBSET (0..n), S # {}
  PROVE  Max(S) \in S /\ \A x \in S : x <= Max(S)
<1>1. PICK T : T = {n - x : x \in S}
  OBVIOUS
<1>2. T \in SUBSET Nat /\ T # {}
  <2>1. \A x \in S : n - x \in Nat
    OBVIOUS
  <2> QED
    BY <1>1, <2>1
<1>3. Min(T) \in T /\ \A t \in T : Min(T) <= t
  BY <1>2, Least
<1>4. PICK x \in S : Min(T) = n - x
  BY <1>1, <1>3
<1>5. \A y \in S : n - y \in T
  BY <1>1
<1>6. \A y \in S : x >= y
  BY <1>3, <1>4, <1>5
<1> QED
  BY <1>6 DEF Max

-----------------------------------------------------------------------------
(* Counting lines                                                              *)

LEMMA UpToFinite ==
  ASSUME NEW lines, NEW i \in Nat, NEW op
  PROVE  IsFiniteSet(UpTo(lines, i, op)) /\ NumberOf(lines, i, op) \in Nat
<1>1. IsFiniteSet(1..i)
  BY FS_Interval
<1>2. UpTo(lines, i, op) \in SUBSET (1..i)
  BY DEF UpTo
<1>3. IsFiniteSet(UpTo(lines, i, op))
  BY <1>1, <1>2, FS_Subset
<1> QED
  BY <1>3, FS_CardinalityType DEF NumberOf

\* A line of a kind raises the number.
LEMMA NumberRises ==
  ASSUME NEW lines, NEW op, NEW i \in Nat, NEW j \in Nat, i < j, lines[j].op = op
  PROVE  NumberOf(lines, i, op) < NumberOf(lines, j, op)
<1>1. UpTo(lines, i, op) \in SUBSET UpTo(lines, j, op)
  BY DEF UpTo
<1>2. j \in UpTo(lines, j, op) /\ j \notin UpTo(lines, i, op)
  BY DEF UpTo
<1>3. Cardinality(UpTo(lines, i, op)) <= Cardinality(UpTo(lines, j, op))
  BY <1>1, UpToFinite, FS_Subset
<1>4. Cardinality(UpTo(lines, i, op)) # Cardinality(UpTo(lines, j, op))
  BY <1>1, <1>2, UpToFinite, FS_Subset
<1> QED
  BY <1>3, <1>4, UpToFinite DEF NumberOf

\* So a line is known by its number.
LEMMA NumberTells ==
  ASSUME NEW lines, NEW op, NEW i \in Nat, NEW j \in Nat, lines[i].op = op, lines[j].op = op,
         NumberOf(lines, i, op) = NumberOf(lines, j, op)
  PROVE  i = j
<1>1. NumberOf(lines, i, op) \in Nat
  BY UpToFinite
<1>2. ~(i < j)
  BY <1>1, NumberRises
<1>3. ~(j < i)
  BY <1>1, NumberRises
<1> QED
  BY <1>2, <1>3

\* What a chunk counts on its own is what it adds.
More(lines, k, i, op) == {j \in 1..i : lines[k + j].op = op}

LEMMA NumberAdds ==
  ASSUME NEW lines, NEW op, NEW k \in Nat, NEW i \in Nat
  PROVE  /\ NumberOf(lines, k + i, op) = NumberOf(lines, k, op) + Cardinality(More(lines, k, i, op))
         /\ Cardinality(More(lines, k, i, op)) \in Nat
<1> DEFINE more == {j \in 1..i : lines[k + j].op = op}
           late == {j \in k + 1..k + i : lines[j].op = op}
           f == [j \in more |-> k + j]
<1>1. UpTo(lines, k + i, op) = UpTo(lines, k, op) \union late
  BY DEF UpTo
<1>2. UpTo(lines, k, op) \intersect late = {}
  BY DEF UpTo
<1>3. IsFiniteSet(more)
  <2>1. IsFiniteSet(1..i)
    BY FS_Interval
  <2>2. more \in SUBSET (1..i)
    OBVIOUS
  <2> HIDE DEF more
  <2> QED
    BY <2>1, <2>2, FS_Subset
<1>4. f \in Bijection(more, late)
  <2>1. \A j \in more : j \in Int /\ k + j \in late
    OBVIOUS
  <2>2. \A l \in late : l - k \in more /\ k + (l - k) = l
    OBVIOUS
  <2> HIDE DEF more, late
  <2>3. f \in [more -> late]
    BY <2>1
  <2>4. ASSUME NEW a \in more, NEW b \in more, f[a] = f[b]
        PROVE  a = b
    <3>1. f[a] = k + a /\ f[b] = k + b
      OBVIOUS
    <3>2. a \in Int /\ b \in Int
      BY <2>1
    <3>3. k + a = k + b
      BY <2>4, <3>1, Zenon
    <3> QED
      BY <3>2, <3>3
  <2>5. \A l \in late : \E a \in more : f[a] = l
    BY <2>2
  <2> HIDE DEF f
  <2> QED
    BY <2>3, <2>4, <2>5 DEF Bijection, Injection, IsInjective, Surjection
<1> HIDE DEF more, late, f
<1>5. IsFiniteSet(late) /\ Cardinality(late) = Cardinality(more)
  BY <1>3, <1>4, FS_Bijection DEF ExistsBijection
<1>6. Cardinality(UpTo(lines, k, op) \union late)
         = Cardinality(UpTo(lines, k, op)) + Cardinality(late) - Cardinality({})
  BY <1>2, <1>5, UpToFinite, FS_Union
<1>7. Cardinality({}) = 0 /\ Cardinality(more) \in Nat /\ Cardinality(UpTo(lines, k, op)) \in Nat
  BY <1>3, UpToFinite, FS_EmptySet, FS_CardinalityType DEF NumberOf
<1>8. PICK a \in Nat, b \in Nat : a = Cardinality(UpTo(lines, k, op)) /\ b = Cardinality(more)
  BY <1>7
<1>9. NumberOf(lines, k + i, op) = a + b - 0
  BY <1>1, <1>5, <1>6, <1>7, <1>8, Zenon DEF NumberOf
<1>10. NumberOf(lines, k + i, op) = a + b
  BY <1>9
<1>11. more = More(lines, k, i, op)
  BY DEF more, More
<1> QED
  BY <1>7, <1>8, <1>10, <1>11, Zenon DEF NumberOf

\* Where a set of lines has got to.
Places(r, S) == {r[j] : j \in S}

\* A set of lines that goes with r has as many lines as before.
LEMMA AsMany ==
  ASSUME NEW n \in Nat, NEW S \in SUBSET (1..n), NEW r,
         \A i, j \in 1..n : i < j => r[i] < r[j], \A i \in 1..n : r[i] \in Nat
  PROVE  Cardinality(Places(r, S)) = Cardinality(S)
<1>1. IsFiniteSet(S)
  <2>1. IsFiniteSet(1..n)
    BY FS_Interval
  <2> QED
    BY <2>1, FS_Subset
<1>2. PICK T : T = Places(r, S)
  OBVIOUS
<1>3. PICK f : f = [j \in S |-> r[j]]
  OBVIOUS
<1>4. f \in [S -> T]
  BY <1>2, <1>3 DEF Places
<1>5. ASSUME NEW a \in S, NEW b \in S, f[a] = f[b]
      PROVE  a = b
  <2>1. a \in 1..n /\ b \in 1..n /\ r[a] = r[b]
    BY <1>3, <1>5
  <2>2. r[a] \in Nat /\ r[b] \in Nat /\ a \in Int /\ b \in Int
    BY <2>1
  <2>3. ~(a < b) /\ ~(b < a)
    BY <2>1, <2>2
  <2> QED
    BY <2>2, <2>3
<1>6. \A t \in T : \E a \in S : f[a] = t
  BY <1>2, <1>3 DEF Places
<1>7. f \in Bijection(S, T)
  BY <1>4, <1>5, <1>6 DEF Bijection, Injection, IsInjective, Surjection
<1> QED
  BY <1>1, <1>2, <1>7, FS_Bijection DEF ExistsBijection

-----------------------------------------------------------------------------
(* Pauses                                                                      *)

\* Line i as it is written when these pauses were asked for.
Written(i, asked) == [pauses |-> Due(file.lines, Whole, i, asked), line |-> file.lines[i]]

\* The first k lines of f are in o in their order, and all that is between is e: line i
\* of the one is line r[i] of the other.
Spread(r, o, f, k, e) ==
    \E n \in Nat :
        /\ o = [j \in 1..n |-> o[j]] /\ r \in [1..k -> 1..n]
        /\ \A i, j \in 1..k : i < j => r[i] < r[j]
        /\ \A i \in 1..k : o[r[i]] = f[i]
        /\ \A j \in 1..n : (\E i \in 1..k : r[i] = j) \/ o[j] = e

\* The first k lines are written, and the pauses in them gone from the list.
PausedUpTo(k, asked) ==
    /\ k \in 0..Whole
    /\ layer = NumberOf(file.lines, k, "layer") - 1
    /\ todo = asked \ 0..layer
    /\ \E r : Spread(r, out, [i \in 1..Len(file.lines) |-> Written(i, asked)], k, EmptyLine)

PauseInv ==
    /\ file \in Files
    /\ task = "pause" => sent = <<>> /\ \E asked \in Pauses : PausedUpTo(pos, asked)
    /\ task # "done" /\ task # "pause" => sent = <<>>
    /\ PausesInPlace

\* A sequence that goes on.
LEMMA Joined ==
  ASSUME NEW m \in Nat, NEW k \in Nat, NEW a, a = [i \in 1..m |-> a[i]], NEW b, b = [i \in 1..k |-> b[i]]
  PROVE  /\ a \o b = [i \in 1..(m + k) |-> IF i <= m THEN a[i] ELSE b[i - m]]
         /\ Len(a) = m
<1>1. PICK S : S = {a[i] : i \in 1..m} \union {b[i] : i \in 1..k}
  OBVIOUS
<1>2. a \in Seq(S) /\ Len(a) = m
  BY <1>1
<1>3. b \in Seq(S) /\ Len(b) = k
  BY <1>1
<1>4. PICK c : c = a \o b
  OBVIOUS
<1>5. /\ c \in Seq(S) /\ Len(c) = m + k
      /\ \A i \in 1..(m + k) : c[i] = IF i <= m THEN a[i] ELSE b[i - m]
  BY <1>2, <1>3, <1>4
<1>6. c = [i \in 1..(m + k) |-> c[i]]
  BY <1>5
<1>7. c = [i \in 1..(m + k) |-> IF i <= m THEN a[i] ELSE b[i - m]]
  BY <1>5, <1>6
<1> QED
  BY <1>2, <1>4, <1>7

\* More of f, and more of what is between.
LEMMA SpreadMore ==
  ASSUME NEW r, NEW o, NEW f, NEW k \in Nat, NEW e, Spread(r, o, f, k, e),
         NEW m \in Nat, NEW b, b = [i \in 1..m |-> b[i]], \A i \in 1..m : b[i] = f[k + i]
  PROVE  \E s : Spread(s, o \o b, f, k + m, e)
<1>1. PICK n \in Nat :
        /\ o = [j \in 1..n |-> o[j]] /\ r \in [1..k -> 1..n]
        /\ \A i, j \in 1..k : i < j => r[i] < r[j]
        /\ \A i \in 1..k : o[r[i]] = f[i]
        /\ \A j \in 1..n : (\E i \in 1..k : r[i] = j) \/ o[j] = e
  BY DEF Spread
<1>2. PICK q : q = o \o b
  OBVIOUS
<1>3. q = [i \in 1..(n + m) |-> IF i <= n THEN o[i] ELSE b[i - n]]
  <2>1. o = [j \in 1..n |-> o[j]]
    BY <1>1
  <2> QED
    BY <1>2, <2>1, Joined
<1>4. /\ q = [j \in 1..(n + m) |-> q[j]]
      /\ \A j \in 1..n : q[j] = o[j]
      /\ \A i \in 1..m : q[n + i] = b[i]
  <2>1. \A j \in 1..(n + m) : q[j] = IF j <= n THEN o[j] ELSE b[j - n]
    BY <1>3
  <2>2. q = [j \in 1..(n + m) |-> q[j]]
    BY <1>3
  <2>3. ASSUME NEW i \in 1..m PROVE q[n + i] = b[i]
    <3>1. n + i \in 1..(n + m) /\ ~(n + i <= n) /\ (n + i) - n = i
      OBVIOUS
    <3>2. q[n + i] = b[(n + i) - n]
      BY <2>1, <3>1
    <3> QED
      BY <3>1, <3>2
  <2>4. \A j \in 1..n : q[j] = o[j]
    BY <2>1
  <2> QED
    BY <2>2, <2>3, <2>4
<1>9. PICK s : s = [i \in 1..(k + m) |-> IF i <= k THEN r[i] ELSE n + (i - k)]
  OBVIOUS
<1>10. \A i \in 1..k : r[i] \in 1..n
  BY <1>1
<1>11. /\ \A i \in 1..k : s[i] = r[i]
       /\ \A i \in 1..m : s[k + i] = n + i
  BY <1>9
<1>12. s \in [1..(k + m) -> 1..(n + m)]
  BY <1>9, <1>10
<1>13. ASSUME NEW i \in 1..(k + m), NEW j \in 1..(k + m), i < j
       PROVE  s[i] < s[j]
  <2>1. CASE j <= k
    BY <1>1, <1>11, <1>13, <2>1
  <2>2. CASE i <= k /\ j > k
    BY <1>9, <1>10, <2>2
  <2>3. CASE i > k
    BY <1>9, <1>13, <2>3
  <2> QED
    BY <1>13, <2>1, <2>2, <2>3
<1>14. ASSUME NEW i \in 1..(k + m)
       PROVE  q[s[i]] = f[i]
  <2>1. CASE i <= k
    <3>1. i \in 1..k
      BY <2>1
    <3>2. s[i] = r[i] /\ r[i] \in 1..n /\ o[r[i]] = f[i]
      BY <1>1, <1>10, <1>11, <3>1
    <3> QED
      BY <1>4, <3>2
  <2>2. CASE i > k
    <3>1. PICK l \in 1..m : l = i - k /\ k + l = i
      BY <2>2
    <3>2. s[i] = n + l
      BY <1>11, <3>1, Zenon
    <3>3. q[n + l] = b[l] /\ b[l] = f[i]
      BY <1>4, <3>1
    <3> QED
      BY <3>2, <3>3
  <2> QED
    BY <2>1, <2>2
<1>15. ASSUME NEW j \in 1..(n + m)
       PROVE  (\E i \in 1..(k + m) : s[i] = j) \/ q[j] = e
  <2>1. CASE j <= n
    <3>1. (\E i \in 1..k : r[i] = j) \/ o[j] = e
      BY <1>1, <2>1
    <3>2. ASSUME NEW i \in 1..k, r[i] = j
          PROVE  i \in 1..(k + m) /\ s[i] = j
      BY <1>11, <3>2
    <3> QED
      BY <1>4, <2>1, <3>1, <3>2
  <2>2. CASE j > n
    <3>1. PICK l \in 1..m : n + l = j
      <4>1. j - n \in 1..m /\ n + (j - n) = j
        BY <2>2
      <4> QED
        BY <4>1
    <3>2. k + l \in 1..(k + m)
      OBVIOUS
    <3>3. s[k + l] = j
      BY <1>11, <3>1, Zenon
    <3> QED
      BY <3>2, <3>3
  <2> QED
    BY <2>1, <2>2
<1>16. n + m \in Nat
  OBVIOUS
<1>17. Spread(s, q, f, k + m, e)
  BY <1>4, <1>12, <1>13, <1>14, <1>15, <1>16 DEF Spread
<1> QED
  BY <1>2, <1>17

LEMMA SpreadBetween ==
  ASSUME NEW r, NEW o, NEW f, NEW k \in Nat, NEW e, Spread(r, o, f, k, e)
  PROVE  Spread(r, o \o << e >>, f, k, e)
<1>1. PICK n \in Nat :
        /\ o = [j \in 1..n |-> o[j]] /\ r \in [1..k -> 1..n]
        /\ \A i, j \in 1..k : i < j => r[i] < r[j]
        /\ \A i \in 1..k : o[r[i]] = f[i]
        /\ \A j \in 1..n : (\E i \in 1..k : r[i] = j) \/ o[j] = e
  BY DEF Spread
<1>2. PICK b : b = << e >>
  OBVIOUS
<1>3. b = [i \in 1..1 |-> b[i]] /\ b[1] = e
  BY <1>2
<1>4. PICK q : q = o \o b
  OBVIOUS
<1>5. q = [i \in 1..(n + 1) |-> IF i <= n THEN o[i] ELSE b[i - n]]
  <2>1. o = [j \in 1..n |-> o[j]]
    BY <1>1
  <2> QED
    BY <1>3, <1>4, <2>1, Joined
<1>6. /\ q = [j \in 1..(n + 1) |-> q[j]]
      /\ \A j \in 1..n : q[j] = o[j]
      /\ q[n + 1] = e
  BY <1>3, <1>5
<1>7. r \in [1..k -> 1..(n + 1)]
  BY <1>1
<1>8. \A i \in 1..k : r[i] \in 1..n /\ q[r[i]] = f[i]
  BY <1>1, <1>6
<1>9. ASSUME NEW j \in 1..(n + 1)
      PROVE  (\E i \in 1..k : r[i] = j) \/ q[j] = e
  <2>1. CASE j = n + 1
    BY <1>6, <2>1
  <2>2. CASE j \in 1..n
    BY <1>1, <1>6, <2>2
  <2> QED
    BY <2>1, <2>2
<1>10. n + 1 \in Nat
  OBVIOUS
<1>11. Spread(r, q, f, k, e)
  BY <1>1, <1>6, <1>7, <1>8, <1>9, <1>10 DEF Spread
<1> QED
  BY <1>2, <1>4, <1>11

LEMMA PauseChunkKeeps ==
  ASSUME PauseInv, NEW k \in 0..(Len(file.lines) - pos), PauseChunk(k)
  PROVE  PauseInv'
<1> DEFINE at(i) == layer + Cardinality({j \in 1..i : file.lines[pos + j].op = "layer"})
<1>1. /\ task = "pause" /\ task' = "pause" /\ sent = <<>> /\ sent' = <<>>
      /\ file' = file /\ pos' = pos + k /\ pos + k <= Whole
      /\ out' = out \o (IF k = 0 THEN << EmptyLine >>
                        ELSE [i \in 1..k |-> Paused(file.lines[pos + i], at(i))])
      /\ layer' = at(k) /\ todo' = todo \ 0..at(k)
  BY DEF PauseInv, PauseChunk, input
<1>2. PICK asked \in Pauses : PausedUpTo(pos, asked)
  BY <1>1 DEF PauseInv
<1> DEFINE lines == [i \in 1..Len(file.lines) |-> Written(i, asked)]
<1>3. /\ pos \in Nat /\ k \in Nat /\ Whole \in Nat /\ layer \in Int
      /\ layer = NumberOf(file.lines, pos, "layer") - 1
      /\ NumberOf(file.lines, pos, "layer") \in Nat
  <2>1. pos \in 0..Whole /\ Whole \in Nat /\ layer = NumberOf(file.lines, pos, "layer") - 1
    BY <1>2, LinesAre DEF PausedUpTo, PauseInv
  <2>2. NumberOf(file.lines, pos, "layer") \in Nat
    BY <2>1, UpToFinite
  <2>3. k \in Nat
    BY <1>1, <2>1
  <2> QED
    BY <2>1, <2>2, <2>3
<1>4. ASSUME NEW i \in Nat
      PROVE  at(i) = NumberOf(file.lines, pos + i, "layer") - 1
  <2>1. PICK a \in Nat, c \in Nat : /\ a = NumberOf(file.lines, pos, "layer")
                                    /\ c = Cardinality(More(file.lines, pos, i, "layer"))
    BY <1>3, NumberAdds
  <2>2. NumberOf(file.lines, pos + i, "layer") = a + c
    BY <1>3, <2>1, NumberAdds
  <2>3. at(i) = layer + c
    BY <2>1, Zenon DEF More
  <2> QED
    BY <1>3, <2>1, <2>2, <2>3
<1> HIDE DEF at
<1>5. layer' = NumberOf(file.lines, pos', "layer") - 1
  BY <1>1, <1>3, <1>4
<1>6. ASSUME NEW i \in Nat, i > 0, file.lines[pos + i].op = "layer"
      PROVE  at(i) > layer /\ at(i) \in Int
  <2>1. PICK p \in Nat : p = pos + i /\ pos < p
    BY <1>3, <1>6
  <2>2. NumberOf(file.lines, pos, "layer") < NumberOf(file.lines, p, "layer")
    BY <1>3, <1>6, <2>1, NumberRises
  <2>3. PICK a \in Nat, b \in Nat : a = NumberOf(file.lines, pos, "layer") /\ b = NumberOf(file.lines, p, "layer")
    BY <1>3, <2>1, UpToFinite
  <2>4. at(i) = b - 1 /\ layer = a - 1 /\ a < b
    BY <1>3, <1>4, <2>1, <2>2, <2>3
  <2> QED
    BY <2>4
<1>7. todo' = asked \ 0..layer'
  <2>1. layer' >= layer /\ layer' \in Int /\ layer' >= -1
    <3>1. PICK a \in Nat, c \in Nat : /\ a = NumberOf(file.lines, pos, "layer")
                                      /\ c = Cardinality(More(file.lines, pos, k, "layer"))
      BY <1>3, NumberAdds
    <3>2. NumberOf(file.lines, pos + k, "layer") = a + c
      BY <1>3, <3>1, NumberAdds
    <3>3. layer' = a + c - 1 /\ layer = a - 1
      BY <1>1, <1>3, <1>5, <3>1, <3>2
    <3> QED
      BY <3>3
  <2>2. todo = asked \ 0..layer /\ todo' = todo \ 0..layer'
    BY <1>1, <1>2 DEF PausedUpTo
  <2> QED
    BY <1>3, <2>1, <2>2
<1>8. ASSUME NEW i \in 1..k
      PROVE  Paused(file.lines[pos + i], at(i)) = Written(pos + i, asked)
  <2>1. i \in Nat /\ i > 0 /\ pos + i <= Whole
    BY <1>1, <1>3
  <2>2. CASE file.lines[pos + i].op = "layer"
    <3>1. at(i) = NumberOf(file.lines, pos + i, "layer") - 1
      BY <1>4, <2>1
    <3>2. at(i) \in todo <=> at(i) \in asked
      BY <1>2, <1>3, <1>6, <2>1, <2>2 DEF PausedUpTo
    <3>3. {at(i)} \intersect todo = asked \intersect {at(i)}
      BY <3>2
    <3> QED
      BY <2>1, <2>2, <3>1, <3>3 DEF Paused, Written, Due
  <2>3. CASE file.lines[pos + i].op # "layer"
    BY <2>3 DEF Paused, Written, Due
  <2> QED
    BY <2>2, <2>3
<1>9. \E s : Spread(s, out', lines, pos', EmptyLine)
  <2>0. PICK r : Spread(r, out, lines, pos, EmptyLine)
    BY <1>2 DEF PausedUpTo
  <2>1. CASE k = 0
    <3>1. out' = out \o << EmptyLine >> /\ pos' = pos
      BY <1>1, <1>3, <2>1
    <3> HIDE DEF lines
    <3>2. Spread(r, out \o << EmptyLine >>, lines, pos, EmptyLine)
      BY <1>3, <2>0, SpreadBetween
    <3> QED
      BY <3>1, <3>2
  <2>2. CASE k # 0
    <3>1. PICK b : b = [i \in 1..k |-> Paused(file.lines[pos + i], at(i))]
      OBVIOUS
    <3>2. out' = out \o b
      BY <1>1, <2>2, <3>1
    <3>3. b = [i \in 1..k |-> b[i]] /\ \A i \in 1..k : b[i] = Written(pos + i, asked)
      BY <1>8, <3>1
    <3>4. \A i \in 1..k : pos + i \in 1..Len(file.lines)
      <4>1. file \in Files
        BY DEF PauseInv
      <4>2. PICK n \in Nat : n = Len(file.lines) /\ Whole <= n
        BY <4>1, LinesAre
      <4> QED
        BY <1>1, <1>3, <4>2
    <3>5. \A i \in 1..k : b[i] = lines[pos + i]
      BY <3>3, <3>4
    <3> HIDE DEF lines
    <3>6. \E s : Spread(s, out \o b, lines, pos + k, EmptyLine)
      <4>1. b = [i \in 1..k |-> b[i]]
        BY <3>3
      <4> QED
        BY <1>3, <2>0, <3>5, <4>1, SpreadMore
    <3> QED
      BY <1>1, <3>2, <3>6
  <2> QED
    BY <2>1, <2>2
<1>10. PausedUpTo(pos, asked)'
  <2>1. Whole' = Whole /\ \A i, op : NumberOf(file.lines, i, op)' = NumberOf(file.lines, i, op)
    BY <1>1 DEF Whole, NumberOf, UpTo
  <2>2. lines' = lines
    BY <1>1, <2>1 DEF Written, Due
  <2>3. pos' \in 0..Whole'
    BY <1>1, <1>3, <2>1
  <2>4. layer' = NumberOf(file.lines, pos, "layer")' - 1
    BY <1>1, <1>5 DEF NumberOf, UpTo
  <2>5. (\E s : Spread(s, out, lines, pos, EmptyLine))'
    <3> HIDE DEF lines
    <3>1. EmptyLine' = EmptyLine
      BY DEF EmptyLine, Blank, Line
    <3> QED
      BY <1>9, <2>2, <3>1 DEF Spread
  <2> QED
    BY <1>7, <2>3, <2>4, <2>5 DEF PausedUpTo
<1>11. PausesInPlace'
  BY <1>1 DEF PausesInPlace
<1>12. file' \in Files
  BY <1>1 DEF PauseInv
<1> QED
  BY <1>1, <1>10, <1>11, <1>12 DEF PauseInv

LEMMA PauseEndKeeps ==
  ASSUME PauseInv, PauseEnd
  PROVE  PauseInv'
<1>1. /\ task = "pause" /\ task' = "done" /\ sent = <<>> /\ file' = file /\ pos = Whole
      /\ todo' = todo
      /\ out' = out \o [i \in 1..(Len(file.lines) - Whole) |-> [pauses |-> {}, line |-> file.lines[Whole + i]]]
  BY DEF PauseInv, PauseEnd, input
<1>2. PICK asked \in Pauses : PausedUpTo(pos, asked)
  BY <1>1 DEF PauseInv
<1>3. PICK n \in Nat : n = Len(file.lines) /\ DOMAIN file.lines = 1..n
  BY LinesAre DEF PauseInv
<1>4. PICK w \in Nat, k \in Nat : w = Whole /\ k = n - w
  <2>1. Whole \in 0..n
    BY <1>3, LinesAre DEF PauseInv
  <2>2. Whole \in Nat /\ n - Whole \in Nat
    BY <2>1
  <2> QED
    BY <2>2
<1> DEFINE lines == [i \in 1..Len(file.lines) |-> Written(i, asked)]
<1>5. PICK s : Spread(s, out', lines, n, EmptyLine)
  <2>1. PICK b : b = [i \in 1..k |-> [pauses |-> {}, line |-> file.lines[w + i]]]
    OBVIOUS
  <2>2. b = [i \in 1..k |-> b[i]] /\ \A i \in 1..k : b[i] = [pauses |-> {}, line |-> file.lines[w + i]]
    BY <2>1
  <2>3. out' = out \o b
    BY <1>1, <1>3, <1>4, <2>1
  <2>4. \A i \in 1..k : b[i] = lines[w + i]
    <3>1. ASSUME NEW i \in 1..k PROVE b[i] = lines[w + i]
      <4>1. w + i \in 1..n /\ ~(w + i <= w)
        BY <1>4
      <4>2. lines[w + i] = Written(w + i, asked)
        BY <1>3, <4>1
      <4>3. Written(w + i, asked) = [pauses |-> {}, line |-> file.lines[w + i]]
        BY <1>4, <4>1 DEF Written, Due
      <4> QED
        BY <2>2, <4>2, <4>3
    <3> QED
      BY <3>1
  <2>5. PICK r : Spread(r, out, lines, w, EmptyLine)
    BY <1>1, <1>2, <1>4 DEF PausedUpTo
  <2>6. w + k = n
    BY <1>4
  <2> HIDE DEF lines
  <2>7. \E s : Spread(s, out \o b, lines, w + k, EmptyLine)
    <3>1. b = [i \in 1..k |-> b[i]]
      BY <2>2
    <3> QED
      BY <2>4, <2>5, <3>1, SpreadMore
  <2> QED
    BY <2>3, <2>6, <2>7
<1>6. todo' = asked \ 0..(NumberOf(file.lines, Whole, "layer") - 1)
  BY <1>1, <1>2 DEF PausedUpTo
<1>7. PICK l \in Nat :
        /\ out' = [j \in 1..l |-> out'[j]] /\ s \in [1..n -> 1..l]
        /\ \A i, j \in 1..n : i < j => s[i] < s[j]
        /\ \A i \in 1..n : out'[s[i]] = lines[i]
        /\ \A j \in 1..l : (\E i \in 1..n : s[i] = j) \/ out'[j] = EmptyLine
  BY <1>5 DEF Spread
<1> DEFINE kept == Places(s, 1..n)
           between == DOMAIN out' \ kept
<1>8. DOMAIN out' = 1..l
  BY <1>7
<1>9. kept \in SUBSET (1..l) /\ kept = DOMAIN out' \ between
  BY <1>7, <1>8 DEF Places
<1>10. between \in SUBSET {j \in DOMAIN out' : out'[j] = EmptyLine}
  BY <1>7, <1>8 DEF Places
<1>17. /\ \A i, j \in 1..n : i < j => s[i] < s[j]
       /\ \A i \in 1..n : s[i] \in Nat
       /\ \A i \in 1..n : 1..i \in SUBSET (1..n)
       /\ 1..n \in SUBSET (1..n)
  BY <1>7
<1>11. Cardinality(kept) = n
  <2>1. Cardinality(Places(s, 1..n)) = Cardinality(1..n)
    BY <1>17, AsMany
  <2> QED
    BY <2>1, FS_Interval
<1>12. ASSUME NEW i \in 1..n
       PROVE  Cardinality(kept \intersect 1..s[i]) = i
  <2>1. kept \intersect 1..s[i] = Places(s, 1..i)
    <3>1. ASSUME NEW j \in 1..n
          PROVE  s[j] \in 1..s[i] <=> j \in 1..i
      <4>1. j \in Nat /\ i \in Nat /\ s[j] \in Nat /\ s[i] \in Nat /\ s[j] > 0
        BY <1>7
      <4>2. j < i => s[j] < s[i]
        BY <1>7
      <4>3. i < j => s[i] < s[j]
        BY <1>7
      <4> QED
        BY <4>1, <4>2, <4>3
    <3> QED
      BY <3>1 DEF Places
  <2>2. Cardinality(Places(s, 1..i)) = Cardinality(1..i)
    BY <1>17, AsMany
  <2>3. i \in Nat /\ Cardinality(1..i) = i
    BY FS_Interval
  <2> HIDE DEF kept
  <2> QED
    BY <2>1, <2>2, <2>3
<1>13. ASSUME NEW j \in kept
       PROVE  out'[j] = Written(Cardinality(kept \intersect 1..j), asked)
  <2>1. PICK i \in 1..n : j = s[i]
    BY <1>13 DEF Places
  <2>2. out'[j] = Written(i, asked)
    BY <1>3, <1>7, <2>1
  <2>3. Cardinality(kept \intersect 1..j) = i
    BY <1>12, <2>1, Zenon
  <2> HIDE DEF kept
  <2> QED
    BY <2>2, <2>3
<1> HIDE DEF kept, between
<1>14. InPlace(file.lines, Whole, out', asked)
  <2>1. \A j \in DOMAIN out' \ between :
            out'[j] = Written(Cardinality((DOMAIN out' \ between) \intersect 1..j), asked)
    BY <1>9, <1>13
  <2> QED
    BY <1>3, <1>9, <1>10, <1>11, <2>1 DEF InPlace, Written
<1>15. Whole' = Whole /\ file'.lines = file.lines
  BY <1>1 DEF Whole
<1>16. PausesInPlace'
  <2>1. todo' = asked \ 0..(NumberOf(file'.lines, Whole', "layer") - 1)
    BY <1>6, <1>15
  <2>2. InPlace(file'.lines, Whole', out', asked)
    BY <1>14, <1>15
  <2> QED
    BY <2>1, <2>2 DEF PausesInPlace
<1> QED
  BY <1>1, <1>16 DEF PauseInv

\* What is sent is a record.
LEMMA SentIsSomething ==
  ASSUME NEW l, NEW a, NEW u
  PROVE  [lines |-> l, ams |-> a, useAms |-> u] # <<>>
<1>1. "ams" \in DOMAIN [lines |-> l, ams |-> a, useAms |-> u]
  OBVIOUS
<1>2. DOMAIN <<>> = {}
  OBVIOUS
<1> QED
  BY <1>1, <1>2

LEMMA PauseInit == Init => PauseInv
<1> SUFFICES ASSUME Init PROVE PauseInv
  OBVIOUS
<1>1. /\ file \in Files /\ sent = <<>> /\ layer = -1 /\ out = <<>> /\ pos = 0
      /\ task = "scan" \/ (task = "pause" /\ todo \in Pauses)
  BY DEF Init
<1>2. NumberOf(file.lines, 0, "layer") = 0
  <2>1. UpTo(file.lines, 0, "layer") = {}
    BY DEF UpTo
  <2> QED
    BY <2>1, FS_EmptySet DEF NumberOf
<1>3. PausedUpTo(0, todo)
  <2>1. Whole \in Nat
    BY <1>1, LinesAre
  <2>2. todo = todo \ 0..layer
    BY <1>1
  <2>3. PICK r : r = [i \in 1..0 |-> 1]
    OBVIOUS
  <2> DEFINE lines == [i \in 1..Len(file.lines) |-> Written(i, todo)]
  <2> HIDE DEF lines
  <2>4. Spread(r, <<>>, lines, 0, EmptyLine)
    BY <2>3 DEF Spread
  <2>5. \E s : Spread(s, out, lines, 0, EmptyLine)
    BY <1>1, <2>4
  <2>6. 0 \in 0..Whole /\ layer = NumberOf(file.lines, 0, "layer") - 1
    BY <1>1, <1>2, <2>1
  <2> QED
    BY <2>2, <2>5, <2>6, Zenon DEF PausedUpTo, lines
<1> QED
  BY <1>1, <1>3 DEF PauseInv, PausesInPlace

LEMMA PauseNext == PauseInv /\ [Next]_vars => PauseInv'
<1> SUFFICES ASSUME PauseInv, [Next]_vars PROVE PauseInv'
  OBVIOUS
<1>1. ASSUME NEW k \in 0..(Len(file.lines) - pos), PauseChunk(k)
      PROVE  PauseInv'
  BY <1>1, PauseChunkKeeps
<1>2. CASE PauseEnd
  BY <1>2, PauseEndKeeps
<1>3. ASSUME file' = file, sent' = sent, task' \in {"scan", "dialog", "map"}, task \in {"scan", "dialog", "map"}
      PROVE  PauseInv'
  BY <1>3 DEF PauseInv, PausesInPlace
<1>4. ASSUME NEW k, NEW cut, ScanChunk(k, cut)
      PROVE  PauseInv'
  BY <1>3, <1>4 DEF ScanChunk, input
<1>5. CASE ScanEnd \/ StatusArrives
  BY <1>3, <1>5 DEF ScanEnd, StatusArrives, input
<1>6. ASSUME NEW i, NEW v, Choose(i, v)
      PROVE  PauseInv'
  BY <1>3, <1>6 DEF Choose, input
<1>7. CASE Submit
  <2>1. CASE printer.protocol = "bambu" \/ IsNoop(mapping)
    <3>1. file' = file /\ task' = "done" /\ sent' # <<>>
      BY <1>7, <2>1, SentIsSomething DEF Submit, input
    <3> QED
      BY <3>1 DEF PauseInv, PausesInPlace
  <2>2. CASE ~(printer.protocol = "bambu" \/ IsNoop(mapping))
    BY <1>3, <1>7, <2>2 DEF Submit, input
  <2> QED
    BY <2>1, <2>2
<1>8. ASSUME NEW k, MapChunk(k)
      PROVE  PauseInv'
  BY <1>3, <1>8 DEF MapChunk, input
<1>9. CASE MapEnd
  <2>1. file' = file /\ task' = "done" /\ sent' # <<>>
    BY <1>9, SentIsSomething DEF MapEnd, input
  <2> QED
    BY <2>1 DEF PauseInv, PausesInPlace
<1>10. CASE UNCHANGED vars
  <2>1. UNCHANGED <<file, task, pos, out, todo, layer, sent>>
    BY <1>10 DEF vars, input
  <2>0. Whole' = Whole /\ \A i, op : NumberOf(file.lines, i, op)' = NumberOf(file.lines, i, op)
    BY <2>1 DEF Whole, NumberOf, UpTo
  <2>2. \A asked : PausedUpTo(pos, asked)' <=> PausedUpTo(pos, asked)
    BY <2>1 DEF PausedUpTo, Written, Due, Whole, NumberOf, UpTo, Spread
  <2>3. PausesInPlace'
    <3>1. CASE ~(task' = "done" /\ sent' = <<>>)
      BY <3>1 DEF PausesInPlace
    <3>2. CASE task = "done" /\ sent = <<>>
      <4>1. PICK asked \in Pauses :
              /\ todo = asked \ 0..(NumberOf(file.lines, Whole, "layer") - 1)
              /\ InPlace(file.lines, Whole, out, asked)
        BY <3>2 DEF PauseInv, PausesInPlace
      <4>2. /\ todo' = asked \ 0..(NumberOf(file'.lines, Whole', "layer") - 1)
            /\ InPlace(file'.lines, Whole', out', asked)
        BY <2>0, <2>1, <4>1
      <4> QED
        BY <4>2 DEF PausesInPlace
    <3> QED
      BY <2>1, <3>1, <3>2
  <2> QED
    BY <2>1, <2>2, <2>3 DEF PauseInv
<1> QED
  BY <1>1, <1>2, <1>4, <1>5, <1>6, <1>7, <1>8, <1>9, <1>10 DEF Next

\* PausesInPlace for every file, every set of layers and every way the stream is cut
\* (gcode-pauses.ts): a layer is counted once over all chunks, so its pause is before
\* the right one; what follows the last newline is copied.
THEOREM PausesInPlaceAlways == Spec => []PausesInPlace
<1>1. PauseInv => PausesInPlace
  BY DEF PauseInv
<1> QED
  BY <1>1, PauseInit, PauseNext, PTL DEF Spec

-----------------------------------------------------------------------------
(* A rewritten file                                                            *)

\* The lines of a, each as h makes of it, are those of o that are not blank: line i
\* of the one is line r[i] of the other.
Follows(r, o, k) ==
    /\ r \in [1..k -> 1..Len(o)]
    /\ \A i, j \in 1..k : i < j => r[i] < r[j]
    /\ \A i \in 1..k : o[r[i]] = Rewritten(file.lines[i])
    /\ \A j \in 1..Len(o) : (\E i \in 1..k : r[i] = j) \/ o[j] = Blank

OutSet == LineSet \union {Blank}

Aligned(o, k) == o \in Seq(OutSet) /\ \E r : Follows(r, o, k)

LEMMA AlignedStart == Aligned(<<>>, 0)
<1>1. PICK r : r = [i \in 1..0 |-> 1]
  OBVIOUS
<1>2. Follows(r, <<>>, 0)
  BY <1>1 DEF Follows
<1> QED
  BY <1>2 DEF Aligned

\* The values of slots and of none.
Values == {v \in Int : v >= -1 /\ v < 1000}

\* A line that is rewritten is a line.
LEMMA RewrittenIsLine ==
  ASSUME NEW l \in LineSet, mapping \in Seq(Values)
  PROVE  Rewritten(l) \in LineSet /\ Rewritten(l).op = l.op
<1>1. l.n \in Nat /\ l.op \in STRING
  BY DEF LineSet
<1>2. CASE IsTool(l) /\ l.n < Len(mapping) /\ mapping[l.n + 1] >= 0
  <2>1. l.n + 1 \in 1..Len(mapping)
    BY <1>1, <1>2
  <2>2. mapping[l.n + 1] \in Values
    BY <2>1
  <2>3. mapping[l.n + 1] \in Nat
    BY <1>2, <2>2 DEF Values
  <2>4. Rewritten(l) = [l EXCEPT !.n = mapping[l.n + 1]]
    BY <1>2 DEF Rewritten
  <2> QED
    BY <2>3, <2>4 DEF LineSet
<1>3. CASE ~(IsTool(l) /\ l.n < Len(mapping) /\ mapping[l.n + 1] >= 0)
  BY <1>3 DEF Rewritten
<1> QED
  BY <1>2, <1>3

LEMMA AlignedBlank ==
  ASSUME NEW o, NEW k \in Nat, Aligned(o, k)
  PROVE  Aligned(o \o <<Blank>>, k)
<1>1. PICK r : Follows(r, o, k)
  BY DEF Aligned
<1>2. PICK n \in Nat : n = Len(o)
  BY DEF Aligned
<1>3. Blank \in OutSet
  BY DEF OutSet
<1>4. PICK q : q = o \o <<Blank>>
  OBVIOUS
<1>5. /\ q \in Seq(OutSet) /\ Len(q) = n + 1
      /\ \A j \in 1..n : q[j] = o[j]
      /\ q[n + 1] = Blank
  BY <1>2, <1>3, <1>4 DEF Aligned
<1>6. r \in [1..k -> 1..(n + 1)]
  BY <1>1, <1>2 DEF Follows
<1>7. \A i \in 1..k : r[i] \in 1..n /\ q[r[i]] = Rewritten(file.lines[i])
  BY <1>1, <1>2, <1>5 DEF Follows
<1>8. ASSUME NEW j \in 1..(n + 1)
      PROVE  (\E i \in 1..k : r[i] = j) \/ q[j] = Blank
  <2>1. CASE j = n + 1
    BY <1>5, <2>1
  <2>2. CASE j \in 1..n
    BY <1>1, <1>2, <1>5, <2>2 DEF Follows
  <2> QED
    BY <2>1, <2>2
<1>9. Follows(r, q, k)
  BY <1>1, <1>5, <1>6, <1>7, <1>8 DEF Follows
<1> QED
  BY <1>4, <1>5, <1>9 DEF Aligned

LEMMA AlignedMore ==
  ASSUME file \in Files, mapping \in Seq(Values),
         NEW o, NEW k \in Nat, Aligned(o, k), NEW m \in Nat, k + m <= Len(file.lines)
  PROVE  Aligned(o \o [i \in 1..m |-> Rewritten(file.lines[k + i])], k + m)
<1>1. PICK r : Follows(r, o, k)
  BY DEF Aligned
<1>2. PICK n \in Nat : n = Len(o)
  BY DEF Aligned
<1>3. \A i \in 1..(k + m) : file.lines[i] \in LineSet
  BY LinesAre
<1>4. PICK b : b = [i \in 1..m |-> Rewritten(file.lines[k + i])]
  OBVIOUS
<1>5. \A i \in 1..m : b[i] = Rewritten(file.lines[k + i]) /\ b[i] \in OutSet
  <2>1. \A i \in 1..m : k + i \in 1..(k + m)
    OBVIOUS
  <2> QED
    BY <1>3, <1>4, <2>1, RewrittenIsLine DEF OutSet
<1>6. b \in Seq(OutSet) /\ Len(b) = m
  <2>1. b \in [1..m -> OutSet]
    BY <1>4, <1>5
  <2> QED
    BY <2>1
<1>7. PICK q : q = o \o b
  OBVIOUS
<1>8. /\ q \in Seq(OutSet) /\ Len(q) = n + m
      /\ \A j \in 1..n : q[j] = o[j]
      /\ \A i \in 1..m : q[n + i] = b[i]
  <2>1. o \in Seq(OutSet)
    BY DEF Aligned
  <2>2. q \in Seq(OutSet)
    BY <1>6, <1>7, <2>1
  <2>3. q = [i \in 1..(n + m) |-> IF i <= n THEN o[i] ELSE b[i - n]]
    <3>1. o = [i \in 1..n |-> o[i]]
      BY <1>2, <2>1
    <3>2. b = [i \in 1..m |-> b[i]]
      BY <1>4
    <3> QED
      BY <1>7, <3>1, <3>2, Joined
  <2>4. Len(q) = n + m
    BY <2>3
  <2>5. \A j \in 1..(n + m) : q[j] = IF j <= n THEN o[j] ELSE b[j - n]
    BY <2>3
  <2>6. \A i \in 1..m : q[n + i] = b[i]
    BY <2>5
  <2>7. \A j \in 1..n : q[j] = o[j]
    BY <2>5
  <2> QED
    BY <2>2, <2>4, <2>6, <2>7
<1>9. PICK s : s = [i \in 1..(k + m) |-> IF i <= k THEN r[i] ELSE n + (i - k)]
  OBVIOUS
<1>10. \A i \in 1..k : r[i] \in 1..n
  BY <1>1, <1>2 DEF Follows
<1>11. /\ \A i \in 1..k : s[i] = r[i]
       /\ \A i \in 1..m : s[k + i] = n + i
  BY <1>9
<1>12. s \in [1..(k + m) -> 1..(n + m)]
  BY <1>9, <1>10
<1>13. ASSUME NEW i \in 1..(k + m), NEW j \in 1..(k + m), i < j
       PROVE  s[i] < s[j]
  <2>1. CASE j <= k
    BY <1>1, <1>11, <1>13, <2>1 DEF Follows
  <2>2. CASE i <= k /\ j > k
    BY <1>9, <1>10, <2>2
  <2>3. CASE i > k
    BY <1>9, <1>13, <2>3
  <2> QED
    BY <1>13, <2>1, <2>2, <2>3
<1>14. ASSUME NEW i \in 1..(k + m)
       PROVE  q[s[i]] = Rewritten(file.lines[i])
  <2>1. CASE i <= k
    <3>1. i \in 1..k
      BY <2>1
    <3>2. s[i] = r[i] /\ r[i] \in 1..n /\ o[r[i]] = Rewritten(file.lines[i])
      BY <1>1, <1>10, <1>11, <3>1 DEF Follows
    <3> QED
      BY <1>8, <3>2
  <2>2. CASE i > k
    <3>1. PICK l \in 1..m : l = i - k /\ k + l = i
      BY <2>2
    <3>2. s[i] = n + l
      BY <1>11, <3>1, Zenon
    <3>3. q[n + l] = b[l] /\ b[l] = Rewritten(file.lines[i])
      BY <1>5, <1>8, <3>1
    <3> QED
      BY <3>2, <3>3
  <2> QED
    BY <2>1, <2>2
<1>15. ASSUME NEW j \in 1..(n + m)
       PROVE  (\E i \in 1..(k + m) : s[i] = j) \/ q[j] = Blank
  <2>1. CASE j <= n
    <3>1. (\E i \in 1..k : r[i] = j) \/ o[j] = Blank
      BY <1>1, <1>2, <2>1 DEF Follows
    <3>2. ASSUME NEW i \in 1..k, r[i] = j
          PROVE  i \in 1..(k + m) /\ s[i] = j
      BY <1>11, <3>2
    <3> QED
      BY <1>8, <2>1, <3>1, <3>2
  <2>2. CASE j > n
    <3>1. PICK l \in 1..m : n + l = j
      <4>1. j - n \in 1..m /\ n + (j - n) = j
        BY <2>2
      <4> QED
        BY <4>1
    <3>2. k + l \in 1..(k + m)
      OBVIOUS
    <3>3. s[k + l] = j
      BY <1>11, <3>1, Zenon
    <3> QED
      BY <3>2, <3>3
  <2> QED
    BY <2>1, <2>2
<1>16. Follows(s, q, k + m)
  BY <1>8, <1>12, <1>13, <1>14, <1>15 DEF Follows
<1> QED
  BY <1>4, <1>7, <1>8, <1>16 DEF Aligned

\* In a file that is rewritten the lines of a kind are the ones they were made from.
LEMMA FollowsUpTo ==
  ASSUME file \in Files, mapping \in Seq(Values), NEW o \in Seq(OutSet), NEW r,
         Follows(r, o, Len(file.lines)), NEW op, op # "blank"
  PROVE  /\ \A e \in 1..Len(file.lines) :
              /\ UpTo(o, r[e], op) = Places(r, UpTo(file.lines, e, op))
              /\ NumberOf(o, r[e], op) = NumberOf(file.lines, e, op)
         /\ UpTo(o, Len(o), op) = Places(r, UpTo(file.lines, Len(file.lines), op))
         /\ NumberOf(o, Len(o), op) = NumberOf(file.lines, Len(file.lines), op)
<1>1. PICK n \in Nat : n = Len(file.lines)
  BY LinesAre
<1>2. PICK m \in Nat : m = Len(o)
  OBVIOUS
<1>3. /\ \A i, j \in 1..n : i < j => r[i] < r[j]
      /\ \A i \in 1..n : r[i] \in 1..m
      /\ \A j \in 1..m : (\E i \in 1..n : r[i] = j) \/ o[j] = Blank
  BY <1>1, <1>2 DEF Follows
<1>4. \A i \in 1..n : o[r[i]].op = file.lines[i].op
  <2>1. \A i \in 1..n : file.lines[i] \in LineSet
    BY <1>1, LinesAre
  <2>2. \A i \in 1..n : o[r[i]] = Rewritten(file.lines[i])
    BY <1>1 DEF Follows
  <2> QED
    BY <2>1, <2>2, RewrittenIsLine
<1>5. Blank.op = "blank"
  BY DEF Blank, Line
<1>6. ASSUME NEW j \in 1..m, o[j].op = op
      PROVE  \E i \in 1..n : r[i] = j /\ file.lines[i].op = op
  BY <1>3, <1>4, <1>5, <1>6
<1>7. \A i, j \in 1..n : r[i] <= r[j] => i <= j
  <2> SUFFICES ASSUME NEW i \in 1..n, NEW j \in 1..n, r[i] <= r[j], ~(i <= j)
               PROVE  FALSE
    OBVIOUS
  <2>1. j < i
    OBVIOUS
  <2>2. r[j] < r[i]
    BY <1>3, <2>1
  <2>3. r[i] \in Nat /\ r[j] \in Nat
    BY <1>3
  <2> QED
    BY <2>2, <2>3
<1>8. \A i, j \in 1..n : i <= j => r[i] <= r[j]
  <2> SUFFICES ASSUME NEW i \in 1..n, NEW j \in 1..n, i <= j
               PROVE  r[i] <= r[j]
    OBVIOUS
  <2>1. r[i] \in Nat /\ r[j] \in Nat
    BY <1>3
  <2>2. CASE i = j
    BY <2>1, <2>2
  <2>3. CASE i # j
    BY <1>3, <2>1, <2>3
  <2> QED
    BY <2>2, <2>3
<1>9. ASSUME NEW e \in 1..n
      PROVE  UpTo(o, r[e], op) = Places(r, UpTo(file.lines, e, op))
  <2>1. ASSUME NEW s \in UpTo(o, r[e], op)
        PROVE  s \in Places(r, UpTo(file.lines, e, op))
    <3>1. s \in 1..r[e] /\ o[s].op = op /\ r[e] \in 1..m
      BY <1>3 DEF UpTo
    <3>2. s \in 1..m /\ s <= r[e]
      BY <3>1
    <3>3. PICK i \in 1..n : r[i] = s /\ file.lines[i].op = op
      BY <1>6, <3>1, <3>2
    <3>4. i \in 1..e
      BY <1>7, <3>2, <3>3
    <3>5. i \in UpTo(file.lines, e, op)
      BY <3>3, <3>4 DEF UpTo
    <3> QED
      BY <3>3, <3>5 DEF Places
  <2>2. ASSUME NEW j \in UpTo(file.lines, e, op)
        PROVE  r[j] \in UpTo(o, r[e], op)
    <3>1. j \in 1..e /\ file.lines[j].op = op
      BY DEF UpTo
    <3>2. j \in 1..n /\ j <= e
      BY <3>1
    <3>3. o[r[j]].op = op /\ r[j] <= r[e] /\ r[j] \in 1..m /\ r[e] \in 1..m
      BY <1>3, <1>4, <1>8, <3>1, <3>2
    <3>4. r[j] \in 1..r[e]
      BY <3>3
    <3> QED
      BY <3>3, <3>4 DEF UpTo
  <2> QED
    BY <2>1, <2>2 DEF Places
<1>10. UpTo(o, m, op) = Places(r, UpTo(file.lines, n, op))
  <2>1. ASSUME NEW s \in UpTo(o, m, op)
        PROVE  s \in Places(r, UpTo(file.lines, n, op))
    <3>1. s \in 1..m /\ o[s].op = op
      BY DEF UpTo
    <3>2. PICK i \in 1..n : r[i] = s /\ file.lines[i].op = op
      BY <1>6, <3>1
    <3>3. i \in UpTo(file.lines, n, op)
      BY <3>2 DEF UpTo
    <3> QED
      BY <3>2, <3>3 DEF Places
  <2>2. ASSUME NEW j \in UpTo(file.lines, n, op)
        PROVE  r[j] \in UpTo(o, m, op)
    BY <1>3, <1>4 DEF UpTo
  <2> QED
    BY <2>1, <2>2 DEF Places
<1>11. \A e \in 1..n : UpTo(file.lines, e, op) \in SUBSET (1..n)
  BY DEF UpTo
<1>12. UpTo(file.lines, n, op) \in SUBSET (1..n)
  BY DEF UpTo
<1>13. \A i \in 1..n : r[i] \in Nat
  BY <1>3
<1>14. ASSUME NEW S \in SUBSET (1..n)
       PROVE  Cardinality(Places(r, S)) = Cardinality(S)
  <2>1. \A i, j \in 1..n : i < j => r[i] < r[j]
    BY <1>3
  <2> QED
    BY <1>13, <2>1, AsMany
<1>15. \A e \in 1..n : NumberOf(o, r[e], op) = NumberOf(file.lines, e, op)
  <2>1. ASSUME NEW e \in 1..n
        PROVE  NumberOf(o, r[e], op) = NumberOf(file.lines, e, op)
    <3>1. PICK S \in SUBSET (1..n) : S = UpTo(file.lines, e, op)
      BY <1>11
    <3>2. Cardinality(Places(r, S)) = Cardinality(S)
      BY <1>14
    <3>3. UpTo(o, r[e], op) = Places(r, S)
      BY <1>9, <3>1
    <3> QED
      BY <3>1, <3>2, <3>3, Zenon DEF NumberOf
  <2> QED
    BY <2>1
<1>16. NumberOf(o, m, op) = NumberOf(file.lines, n, op)
  <2>1. PICK S \in SUBSET (1..n) : S = UpTo(file.lines, n, op)
    BY <1>12
  <2>2. Cardinality(Places(r, S)) = Cardinality(S)
    BY <1>14
  <2>3. UpTo(o, m, op) = Places(r, S)
    BY <1>10, <2>1
  <2> QED
    BY <2>1, <2>2, <2>3, Zenon DEF NumberOf
<1> QED
  BY <1>1, <1>2, <1>9, <1>10, <1>15, <1>16

\* The last of a set of changes is one of them, and nothing is after it.
LEMMA LastChange ==
  ASSUME NEW lines, NEW i \in Nat, Changes(lines, i) # {}
  PROVE  /\ Max(Changes(lines, i)) \in Changes(lines, i)
         /\ \A j \in Changes(lines, i) : j <= Max(Changes(lines, i))
         /\ Max(Changes(lines, i)) \in 1..i
<1>1. Changes(lines, i) \in SUBSET (0..i) /\ Changes(lines, i) \in SUBSET (1..i)
  BY DEF Changes
<1> QED
  BY <1>1, Greatest

\* The tool of an extrusion that follows a change is the one the mapping has for it.
LEMMA ToolFollows ==
  ASSUME file \in Files, mapping \in Seq(Values), Len(mapping) < 1000, NEW o \in Seq(OutSet), NEW r,
         Follows(r, o, Len(file.lines)), NEW e \in 1..Len(file.lines), Changes(file.lines, e) # {},
         NEW t \in Nat, t = ToolAt(file.lines, e), t < Len(mapping), mapping[t + 1] >= 0
  PROVE  ToolAt(o, r[e]) = mapping[t + 1]
<1>1. PICK n \in Nat : n = Len(file.lines)
  BY LinesAre
<1>2. PICK m \in Nat : m = Len(o)
  OBVIOUS
<1>3. /\ \A i, j \in 1..n : i < j => r[i] < r[j]
      /\ \A i \in 1..n : r[i] \in 1..m /\ o[r[i]] = Rewritten(file.lines[i])
      /\ \A j \in 1..m : (\E i \in 1..n : r[i] = j) \/ o[j] = Blank
  BY <1>1, <1>2 DEF Follows
<1>4. \A i \in 1..n : file.lines[i] \in LineSet /\ file.lines[i].n \in Nat
  BY <1>1, LinesAre
<1>5. PICK c : c = Max(Changes(file.lines, e))
  OBVIOUS
<1>6. c \in 1..e /\ IsTool(file.lines[c]) /\ \A j \in Changes(file.lines, e) : j <= c
  <2>1. e \in Nat
    BY <1>1
  <2>2. c \in Changes(file.lines, e) /\ c \in 1..e /\ \A j \in Changes(file.lines, e) : j <= c
    BY <1>5, <2>1, LastChange
  <2>3. IsTool(file.lines[c])
    BY <2>2 DEF Changes
  <2> QED
    BY <2>2, <2>3
<1>7. file.lines[c].n = t
  BY <1>5, Zenon DEF ToolAt
<1>8. /\ e \in 1..n /\ c \in 1..n /\ t + 1 \in 1..Len(mapping) /\ Len(mapping) \in Nat
      /\ mapping[t + 1] \in Nat /\ mapping[t + 1] < 1000
  <2>1. e \in 1..n /\ c \in 1..n /\ t + 1 \in 1..Len(mapping) /\ Len(mapping) \in Nat
    BY <1>1, <1>6
  <2>2. mapping[t + 1] \in Values
    BY <2>1
  <2> QED
    BY <2>1, <2>2 DEF Values
<1>9. o[r[c]] = [file.lines[c] EXCEPT !.n = mapping[t + 1]]
  <2>1. o[r[c]] = Rewritten(file.lines[c])
    BY <1>3, <1>8
  <2>2. Rewritten(file.lines[c]) = [file.lines[c] EXCEPT !.n = mapping[t + 1]]
    <3>1. PICK l : l = file.lines[c]
      OBVIOUS
    <3>2. IsTool(l) /\ l.n < Len(mapping) /\ mapping[l.n + 1] >= 0
      BY <1>6, <1>7, <3>1
    <3>3. Rewritten(l) = [l EXCEPT !.n = mapping[l.n + 1]]
      BY <3>2 DEF Rewritten
    <3> QED
      BY <1>7, <3>1, <3>3
  <2> QED
    BY <2>1, <2>2, Zenon
<1>10. IsTool(o[r[c]]) /\ o[r[c]].n = mapping[t + 1]
  <2>1. o[r[c]].op = file.lines[c].op /\ o[r[c]].n = mapping[t + 1]
    BY <1>4, <1>8, <1>9 DEF LineSet
  <2> QED
    BY <1>6, <2>1 DEF IsTool
<1>11. r[c] \in Nat /\ r[e] \in Nat /\ r[c] \in 1..r[e]
  <2>1. r[c] \in 1..m /\ r[e] \in 1..m
    BY <1>3, <1>8
  <2>2. CASE c = e
    BY <2>1, <2>2
  <2>3. CASE c # e
    <3>1. c < e
      BY <1>6, <2>3
    <3>2. r[c] < r[e]
      BY <1>3, <1>8, <3>1
    <3> QED
      BY <2>1, <3>2
  <2> QED
    BY <2>1, <2>2, <2>3
<1>12. r[c] \in Changes(o, r[e])
  <2>1. o[r[c]].n < 1000
    BY <1>8, <1>10
  <2> QED
    BY <1>10, <1>11, <2>1 DEF Changes
<1>13. PICK d : d = Max(Changes(o, r[e]))
  OBVIOUS
<1>14. d \in Changes(o, r[e]) /\ d \in 1..r[e] /\ r[c] <= d
  BY <1>11, <1>12, <1>13, LastChange
<1>15. IsTool(o[d]) /\ o[d].n < 1000 /\ d \in 1..m
  <2>1. r[e] \in 1..m
    BY <1>3, <1>8
  <2>2. d \in 1..m
    BY <1>14, <2>1
  <2> QED
    BY <1>14, <2>2 DEF Changes
<1>16. Blank.op = "blank"
  BY DEF Blank, Line
<1>17. PICK i \in 1..n : r[i] = d
  BY <1>3, <1>15, <1>16 DEF IsTool
<1>18. i \in Changes(file.lines, e)
  <2>1. i <= e
    <3>1. r[i] <= r[e]
      BY <1>11, <1>14, <1>17
    <3>2. ~(e < i)
      <4>1. e < i => r[e] < r[i]
        BY <1>3, <1>8
      <4>2. r[i] \in 1..m /\ r[e] \in 1..m
        BY <1>3, <1>8
      <4> QED
        BY <3>1, <4>1, <4>2
    <3> QED
      BY <1>8, <3>2
  <2>2. o[d] = Rewritten(file.lines[i])
    BY <1>3, <1>17
  <2>3. IsTool(file.lines[i])
    <3>1. o[d].op = file.lines[i].op
      BY <1>4, <2>2, RewrittenIsLine
    <3> QED
      BY <1>15, <3>1 DEF IsTool
  <2>4. file.lines[i].n < 1000
    <3>1. CASE file.lines[i].n < Len(mapping)
      <4>1. PICK a \in Nat, b \in Nat : a = file.lines[i].n /\ b = Len(mapping) /\ a < b
        BY <1>4, <1>8, <3>1
      <4>2. b < 1000
        BY <4>1
      <4>3. a < 1000
        BY <4>1, <4>2
      <4> QED
        BY <4>1, <4>3
    <3>2. CASE ~(file.lines[i].n < Len(mapping))
      <4>1. o[d] = file.lines[i]
        BY <2>2, <3>2 DEF Rewritten
      <4> QED
        BY <1>15, <4>1
    <3> QED
      BY <3>1, <3>2
  <2>5. i \in 1..e
    BY <2>1
  <2> QED
    BY <2>3, <2>4, <2>5 DEF Changes
<1>19. i = c
  <2>1. i <= c
    BY <1>6, <1>18
  <2>2. ~(i < c)
    <3>1. i < c => r[i] < r[c]
      BY <1>3, <1>8
    <3>2. r[i] \in 1..m /\ r[c] \in 1..m
      BY <1>3, <1>8
    <3> QED
      BY <1>14, <1>17, <3>1, <3>2
  <2> QED
    BY <1>6, <2>1, <2>2
<1>20. d = r[c]
  BY <1>17, <1>19
<1> QED
  BY <1>10, <1>12, <1>13, <1>20, Zenon DEF ToolAt

-----------------------------------------------------------------------------
(* The dialog                                                                  *)

LEMMA SlotsAre ==
  ASSUME printer \in Printers
  PROVE  /\ Len(printer.slots) \in Nat /\ DOMAIN printer.slots = 1..Len(printer.slots)
         /\ SlotValues(printer) \subseteq Values
<1> DEFINE Slots == [unit : Nat, tray : Nat, colour : STRING]
<1>1. /\ printer.slots \in Seq(Slots) /\ Len(printer.slots) < 1000
      /\ \A k \in DOMAIN printer.slots : printer.slots[k].tray < 1000
  BY PrintersAssumption
<1>2. \A s \in Slots : s.tray \in Nat
  OBVIOUS
<1> HIDE DEF Slots
<1>3. PICK n \in Nat : n = Len(printer.slots) /\ DOMAIN printer.slots = 1..n /\ n < 1000
  BY <1>1
<1>4. \A k \in 1..n : printer.slots[k].tray \in Nat /\ printer.slots[k].tray < 1000
  BY <1>1, <1>2, <1>3
<1>5. ASSUME NEW k \in 1..n
      PROVE  SlotValue(printer, k) \in Values
  <2>1. CASE printer.protocol = "bambu"
    BY <1>4, <2>1 DEF SlotValue, Values
  <2>2. CASE printer.protocol # "bambu"
    <3>1. SlotValue(printer, k) = k - 1
      BY <2>2 DEF SlotValue
    <3> QED
      BY <1>3, <3>1 DEF Values
  <2> QED
    BY <2>1, <2>2
<1>6. \A v \in SlotValues(printer) : \E k \in 1..n : v = SlotValue(printer, k)
  BY <1>3 DEF SlotValues
<1> QED
  BY <1>3, <1>5, <1>6

LEMMA ProposedIsValue ==
  ASSUME printer \in Printers, NEW i
  PROVE  Proposed(printer, i) \in Values
<1> DEFINE same == {k \in DOMAIN printer.slots : i < Len(colours) /\ printer.slots[k].colour = colours[i + 1]}
<1>1. \A k \in DOMAIN printer.slots : SlotValue(printer, k) \in Values
  BY SlotsAre DEF SlotValues
<1>2. CASE same # {}
  <2>1. same \in SUBSET Nat
    BY SlotsAre
  <2>2. Min(same) \in same
    BY <1>2, <2>1, Least
  <2>3. Min(same) \in DOMAIN printer.slots
    BY <2>2
  <2>4. Proposed(printer, i) = SlotValue(printer, Min(same))
    BY <1>2 DEF Proposed
  <2> QED
    BY <1>1, <2>3, <2>4
<1>3. CASE same = {}
  <2>1. Proposed(printer, i) = IF source = "upload" /\ i + 1 \in DOMAIN printer.slots
                               THEN SlotValue(printer, i + 1) ELSE -1
    BY <1>3 DEF Proposed
  <2>2. -1 \in Values
    BY DEF Values
  <2> QED
    BY <1>1, <2>1, <2>2
<1> QED
  BY <1>2, <1>3

LEMMA ListedIs ==
  ASSUME colours \in Colours, NEW tools \in SUBSET Nat, \A t \in tools : t < Cap
  PROVE  \E n \in Nat : DOMAIN Listed(tools) = 1..n /\ n < 1000
<1>1. Cardinality(tools) \in Nat /\ Cardinality(tools) < 1000
  <2>1. PICK n \in Nat : n = 15
    OBVIOUS
  <2>2. \A t \in tools : t <= n
    BY <2>1 DEF Cap
  <2>3. IsFiniteSet(tools) /\ Cardinality(tools) <= n + 1
    BY <2>2, FS_BoundedSetOfNaturals
  <2>4. Cardinality(tools) \in Nat
    BY <2>3, FS_CardinalityType
  <2> QED
    BY <2>1, <2>3, <2>4
<1>2. Count(tools) \in Nat /\ Count(tools) < 1000
  <2>1. Len(colours) \in Nat /\ Len(colours) < 1000
    BY PrintersAssumption
  <2>2. PICK S : S = {t + 1 : t \in tools} \union {Len(colours)}
    OBVIOUS
  <2>3. PICK n \in Nat : n = 999
    OBVIOUS
  <2>4. \A x \in S : x \in 0..n
    <3>1. \A t \in tools : t \in Nat /\ t < 16
      BY DEF Cap
    <3>2. \A t \in tools : t + 1 \in 0..n
      BY <2>3, <3>1
    <3>3. Len(colours) \in 0..n
      <4>1. PICK c \in Nat : c = Len(colours) /\ c < 1000
        BY <2>1
      <4>2. c <= n
        BY <2>3, <4>1
      <4>3. c \in 0..n
        BY <4>2
      <4> QED
        BY <4>1, <4>3
    <3> QED
      BY <2>2, <3>2, <3>3
  <2>5. S \in SUBSET (0..n) /\ S # {}
    BY <2>2, <2>4
  <2>6. Max(S) \in S
    BY <2>5, Greatest
  <2>7. Count(tools) \in 0..n
    <3>1. Count(tools) = Max(S)
      BY <2>2, Zenon DEF Count
    <3> QED
      BY <2>4, <2>6, <3>1, Zenon
  <2> QED
    BY <2>3, <2>7
<1>3. CASE source = "job" /\ tools # {}
  <2>1. Listed(tools) = Sorted(tools)
    BY <1>3 DEF Listed
  <2>2. DOMAIN Sorted(tools) = 1..Cardinality(tools)
    BY DEF Sorted
  <2> QED
    BY <1>1, <2>1, <2>2
<1>4. CASE ~(source = "job" /\ tools # {})
  <2>1. Listed(tools) = [i \in 1..Count(tools) |-> i - 1]
    BY <1>4 DEF Listed
  <2> QED
    BY <1>2, <2>1
<1> QED
  BY <1>3, <1>4

\* What the printer has got, in terms of the dialog: the file and the mapping, the file
\* that a mapping left as it is, or the file rewritten.
SentAsMapped ==
    \/ /\ printer.protocol = "bambu"
       /\ sent.lines = file.lines /\ sent.ams = mapping
       /\ (\E i \in DOMAIN mapping : mapping[i] >= 0) => sent.useAms
    \/ printer.protocol # "bambu" /\ sent.lines = file.lines /\ IsNoop(mapping)
    \/ printer.protocol # "bambu" /\ Aligned(sent.lines, Len(file.lines))

\* The strengthening: what is listed and chosen is as the dialog has it until the end,
\* and what has been rewritten follows the file line by line.
MapInv ==
    /\ file \in Files /\ printer \in Printers /\ colours \in Colours
    /\ used \in SUBSET Nat /\ \A t \in used : t < Cap
    /\ mapping \in Seq(Values) /\ Len(mapping) < 1000 /\ DOMAIN mapping = DOMAIN shown
    /\ task = "scan" => pos \in 0..Len(file.lines)
    /\ task = "scan" \/ task = "dialog" => out = <<>>
    /\ task = "map" => printer.protocol # "bambu" /\ pos \in 0..Whole /\ Aligned(out, pos)
    /\ task # "done" => sent = <<>>
    /\ task = "done" /\ sent # <<>> => SentAsMapped

\* A list of choices, one for each filament shown.
LEMMA ChoicesAre ==
  ASSUME NEW n \in Nat, n < 1000, NEW m, m = [i \in 1..n |-> m[i]], \A i \in 1..n : m[i] \in Values
  PROVE  m \in Seq(Values) /\ Len(m) < 1000 /\ DOMAIN m = 1..n
<1>1. m \in [1..n -> Values]
  OBVIOUS
<1> QED
  BY <1>1

LEMMA MapInit == Init => MapInv
<1> SUFFICES ASSUME Init PROVE MapInv
  OBVIOUS
<1>1. /\ file \in Files /\ printer \in Printers /\ colours \in Colours /\ used = {} /\ mapping = <<>>
      /\ shown = <<>> /\ sent = <<>> /\ out = <<>> /\ pos = 0 /\ (task = "scan" \/ task = "pause")
  BY DEF Init
<1>2. Len(file.lines) \in Nat
  BY <1>1, LinesAre
<1>3. mapping \in Seq(Values) /\ Len(mapping) = 0 /\ DOMAIN mapping = DOMAIN shown
  BY <1>1
<1> QED
  BY <1>1, <1>2, <1>3 DEF MapInv

\* The numbers a chunk can find, before the cap.
LEMMA ScanKeepsMap ==
  ASSUME MapInv, NEW k \in 0..(Len(file.lines) - pos), NEW cut \in BOOLEAN, ScanChunk(k, cut)
  PROVE  MapInv'
<1> DEFINE whole == UNION {Found(file.lines[i]) : i \in pos + 1 .. pos + k}
           next == pos + k + 1
           tails == {i \in {pos + k, next} \intersect 1..(Len(file.lines) - 1) :
                        Heats(file.lines[i]) /\ (i = next => cut)}
           part == (IF cut /\ next <= Len(file.lines) /\ IsTool(file.lines[next])
                    THEN CutPrefixes(file.lines[next].n) ELSE {})
                   \union {file.lines[i].n : i \in tails}
<1>1. /\ task = "scan" /\ task' = "scan" /\ UNCHANGED <<file, printer, colours, shown, mapping, sent, out>>
      /\ pos' = pos + k
      /\ \E p \in SUBSET part :
            /\ Cardinality(p) <= 1
            /\ used' = used \union {t \in whole \union p : t < Cap}
  BY DEF ScanChunk, input, dialog
<1>2. PICK p \in SUBSET part : used' = used \union {t \in whole \union p : t < Cap}
  BY <1>1
<1>3. PICK n \in Nat : n = Len(file.lines)
  BY LinesAre DEF MapInv
<1>4. pos \in 0..n /\ \A i \in 1..n : file.lines[i].n \in Nat
  BY <1>1, <1>3, LinesAre DEF MapInv
<1>5. pos + k \in 0..n
  BY <1>3, <1>4
<1>6. whole \subseteq Nat
  <2>1. \A i \in pos + 1 .. pos + k : i \in 1..n
    BY <1>3, <1>4
  <2>2. \A i \in pos + 1 .. pos + k : Found(file.lines[i]) \subseteq Nat
    BY <1>4, <2>1 DEF Found
  <2> QED
    BY <2>2
<1>7. part \subseteq Nat
  <2>1. \A m \in Nat : CutPrefixes(m) \subseteq Nat
    BY DEF CutPrefixes
  <2>2. ASSUME cut /\ next <= Len(file.lines) /\ IsTool(file.lines[next])
        PROVE  CutPrefixes(file.lines[next].n) \subseteq Nat
    <3>1. next \in 1..n
      BY <1>3, <1>4, <2>2
    <3> QED
      BY <1>4, <2>1, <3>1
  <2>3. \A i \in tails : file.lines[i].n \in Nat
    <3>1. \A i \in tails : i \in 1..n
      BY <1>3
    <3> QED
      BY <1>4, <3>1
  <2> QED
    BY <2>2, <2>3
<1> HIDE DEF whole, part
<1>8. used' \in SUBSET Nat /\ \A t \in used' : t < Cap
  <2>1. \A t \in whole \union p : t \in Nat
    BY <1>6, <1>7
  <2>2. \A t \in used : t \in Nat /\ t < Cap
    BY DEF MapInv
  <2>3. \A t \in used' : t \in used \/ (t \in whole \union p /\ t < Cap)
    BY <1>2
  <2>4. \A t \in used' : t \in Nat /\ t < Cap
    BY <2>1, <2>2, <2>3, Zenon
  <2> QED
    BY <2>4
<1> QED
  BY <1>1, <1>3, <1>5, <1>8 DEF MapInv

LEMMA ListKeepsMap ==
  ASSUME MapInv, ScanEnd
  PROVE  MapInv'
<1>1. /\ task' = "dialog" /\ UNCHANGED <<file, printer, colours, used, sent, out>>
      /\ task = "scan" /\ shown' = Listed(used)
      /\ mapping' = [i \in DOMAIN shown' |-> Proposed(printer, shown'[i])]
  BY DEF ScanEnd, input
<1>2. PICK n \in Nat : DOMAIN shown' = 1..n /\ n < 1000
  BY <1>1, ListedIs DEF MapInv
<1>3. PICK m : m = mapping'
  OBVIOUS
<1>4. m = [i \in 1..n |-> m[i]] /\ \A i \in 1..n : m[i] \in Values
  BY <1>1, <1>2, <1>3, ProposedIsValue DEF MapInv
<1>5. mapping' \in Seq(Values) /\ Len(mapping') < 1000 /\ DOMAIN mapping' = DOMAIN shown'
  BY <1>2, <1>3, <1>4, ChoicesAre
<1> QED
  BY <1>1, <1>5 DEF MapInv

LEMMA StatusKeepsMap ==
  ASSUME MapInv, StatusArrives
  PROVE  MapInv'
<1>1. /\ task' = "dialog" /\ UNCHANGED <<file, printer, colours, used, shown, sent, out>>
      /\ task = "dialog"
      /\ mapping' = [i \in DOMAIN shown |-> Proposed(printer, shown[i])]
  BY DEF StatusArrives, input
<1>2. PICK n \in Nat : DOMAIN shown = 1..n /\ n < 1000
  <2>1. PICK c \in Nat : c = Len(mapping) /\ DOMAIN mapping = 1..c
    BY DEF MapInv
  <2>2. c < 1000 /\ DOMAIN shown = 1..c
    BY <2>1 DEF MapInv
  <2> QED
    BY <2>2
<1>3. PICK m : m = mapping'
  OBVIOUS
<1>4. m = [i \in 1..n |-> m[i]] /\ \A i \in 1..n : m[i] \in Values
  BY <1>1, <1>2, <1>3, ProposedIsValue DEF MapInv
<1>5. mapping' \in Seq(Values) /\ Len(mapping') < 1000 /\ DOMAIN mapping' = DOMAIN shown
  BY <1>2, <1>3, <1>4, ChoicesAre
<1> QED
  BY <1>1, <1>5 DEF MapInv

LEMMA ChooseKeepsMap ==
  ASSUME MapInv, NEW i \in DOMAIN mapping, NEW v \in SlotValues(printer) \union {-1}, Choose(i, v)
  PROVE  MapInv'
<1>1. /\ task' = task /\ UNCHANGED <<file, printer, colours, used, shown, sent, out>>
      /\ task = "dialog"
      /\ mapping' = [mapping EXCEPT ![i] = v]
  BY DEF Choose, input
<1>2. v \in Values
  <2>1. -1 \in Values
    BY DEF Values
  <2>2. SlotValues(printer) \subseteq Values
    BY SlotsAre DEF MapInv
  <2> QED
    BY <2>1, <2>2
<1>3. mapping' \in Seq(Values) /\ Len(mapping') = Len(mapping) /\ DOMAIN mapping' = DOMAIN mapping
  BY <1>1, <1>2 DEF MapInv
<1> QED
  BY <1>1, <1>3 DEF MapInv
-----------------------------------------------------------------------------
(* The rest of the way                                                         *)

LEMMA SubmitKeepsMap ==
  ASSUME MapInv, Submit
  PROVE  MapInv'
<1>1. /\ task = "dialog" /\ UNCHANGED <<file, printer, colours, used, shown, mapping, out>>
  BY DEF Submit, input, dialog
<1>2. CASE printer.protocol = "bambu" \/ IsNoop(mapping)
  <2>1. /\ task' = "done"
        /\ sent' = [lines |-> file.lines, ams |-> mapping,
                    useAms |-> printer.protocol = "bambu" /\ \E i \in DOMAIN mapping : mapping[i] >= 0]
    BY <1>2 DEF Submit
  <2>2. /\ sent'.lines = file.lines /\ sent'.ams = mapping
        /\ sent'.useAms = (printer.protocol = "bambu" /\ \E i \in DOMAIN mapping : mapping[i] >= 0)
    BY <2>1
  <2>3. SentAsMapped'
    <3>1. CASE printer.protocol = "bambu"
      BY <1>1, <2>2, <3>1 DEF SentAsMapped
    <3>2. CASE printer.protocol # "bambu"
      <4>1. IsNoop(mapping)'
        BY <1>1, <1>2, <3>2 DEF IsNoop
      <4> QED
        BY <1>1, <2>2, <3>2, <4>1 DEF SentAsMapped
    <3> QED
      BY <3>1, <3>2
  <2> QED
    BY <1>1, <2>1, <2>3 DEF MapInv
<1>3. CASE ~(printer.protocol = "bambu" \/ IsNoop(mapping))
  <2>1. task' = "map" /\ pos' = 0 /\ sent' = sent /\ out' = <<>>
    BY <1>1, <1>3 DEF Submit, MapInv
  <2>2. Aligned(out, pos)'
    <3>1. Aligned(<<>>, 0)'
      BY <1>1, AlignedStart DEF Aligned, Follows, Rewritten
    <3> QED
      BY <2>1, <3>1 DEF Aligned, Follows
  <2>3. Whole' = Whole /\ Whole \in Nat
    <3>1. Whole \in 0..Len(file.lines) /\ Len(file.lines) \in Nat
      BY LinesAre DEF MapInv
    <3> QED
      BY <1>1, <3>1 DEF Whole
  <2> QED
    BY <1>1, <1>3, <2>1, <2>2, <2>3 DEF MapInv
<1> QED
  BY <1>2, <1>3

LEMMA ChunkKeepsMap ==
  ASSUME MapInv, NEW k \in 0..(Len(file.lines) - pos), MapChunk(k)
  PROVE  MapInv'
<1>1. /\ task = "map" /\ task' = "map" /\ UNCHANGED <<file, printer, colours, used, shown, mapping, sent>>
      /\ pos' = pos + k /\ pos + k <= Whole
      /\ out' = out \o (IF k = 0 THEN <<Blank>> ELSE [i \in 1..k |-> Rewritten(file.lines[pos + i])])
  BY DEF MapChunk, input, dialog
<1>2. /\ Aligned(out, pos) /\ pos \in Nat /\ Whole \in Nat /\ k \in Nat
      /\ pos + k \in 0..Whole /\ pos + k <= Len(file.lines)
  <2>1. Aligned(out, pos) /\ pos \in 0..Whole
    BY <1>1 DEF MapInv
  <2>2. Whole \in 0..Len(file.lines) /\ Len(file.lines) \in Nat
    BY LinesAre DEF MapInv
  <2> QED
    BY <1>1, <2>1, <2>2
<1>3. Aligned(out', pos + k)
  <2>1. CASE k = 0
    <3>1. Aligned(out \o <<Blank>>, pos)
      BY <1>2, AlignedBlank
    <3>2. out' = out \o <<Blank>> /\ pos + k = pos
      BY <1>1, <1>2, <2>1
    <3> QED
      BY <3>1, <3>2
  <2>2. CASE k # 0
    <3>1. Aligned(out \o [i \in 1..k |-> Rewritten(file.lines[pos + i])], pos + k)
      BY <1>2, AlignedMore DEF MapInv
    <3> QED
      BY <1>1, <2>2, <3>1
  <2> QED
    BY <2>1, <2>2
<1>4. Aligned(out, pos)'
  <2>1. PICK r : out' \in Seq(OutSet) /\ Follows(r, out', pos')
    BY <1>1, <1>3 DEF Aligned
  <2>2. Follows(r, out, pos)'
    BY <1>1, <2>1 DEF Follows, Rewritten
  <2> QED
    BY <2>1, <2>2 DEF Aligned
<1>5. Whole' = Whole
  BY <1>1 DEF Whole
<1> QED
  BY <1>1, <1>2, <1>4, <1>5 DEF MapInv

LEMMA EndKeepsMap ==
  ASSUME MapInv, MapEnd
  PROVE  MapInv'
<1>1. /\ task = "map" /\ task' = "done" /\ UNCHANGED <<file, printer, colours, used, shown, mapping, out>>
      /\ pos = Whole
      /\ sent' = [lines |-> out \o [i \in 1..(Len(file.lines) - Whole) |-> Rewritten(file.lines[Whole + i])],
                  ams |-> <<>>, useAms |-> FALSE]
  BY DEF MapEnd, input, dialog
<1>2. PICK n \in Nat : n = Len(file.lines)
  BY LinesAre DEF MapInv
<1>3. PICK w \in Nat, m \in Nat : w = Whole /\ m = n - w /\ w + m = n
  <2>1. Whole \in 0..n
    BY <1>2, LinesAre DEF MapInv
  <2>2. Whole \in Nat /\ n - Whole \in Nat /\ Whole + (n - Whole) = n
    BY <2>1
  <2> QED
    BY <2>2
<1>4. Aligned(out \o [i \in 1..m |-> Rewritten(file.lines[w + i])], w + m)
  <2>1. Aligned(out, w)
    BY <1>1, <1>3 DEF MapInv
  <2> QED
    BY <1>2, <1>3, <2>1, AlignedMore DEF MapInv
<1>5. sent'.lines = out \o [i \in 1..m |-> Rewritten(file.lines[w + i])]
  BY <1>1, <1>2, <1>3
<1>6. Aligned(sent'.lines, Len(file.lines))
  BY <1>2, <1>3, <1>4, <1>5
<1>7. Aligned(sent.lines, Len(file.lines))'
  <2>1. PICK r : sent'.lines \in Seq(OutSet) /\ Follows(r, sent'.lines, Len(file.lines))
    BY <1>6 DEF Aligned
  <2>2. Follows(r, sent.lines, Len(file.lines))'
    BY <1>1, <2>1 DEF Follows, Rewritten
  <2> QED
    BY <2>1, <2>2 DEF Aligned
<1>8. printer.protocol # "bambu"
  BY <1>1 DEF MapInv
<1>9. SentAsMapped'
  BY <1>1, <1>7, <1>8 DEF SentAsMapped
<1> QED
  BY <1>1, <1>9 DEF MapInv

\* The pauses have no part in it.
LEMMA PausesKeepMap ==
  ASSUME MapInv, task = "pause", task' = "pause" \/ task' = "done",
         UNCHANGED <<file, printer, colours, used, shown, mapping, sent>>
  PROVE  MapInv'
  BY DEF MapInv

LEMMA StutterKeepsMap ==
  ASSUME MapInv, UNCHANGED vars
  PROVE  MapInv'
<1>1. UNCHANGED <<file, printer, colours, used, shown, mapping, sent, task, out, pos>>
  BY DEF vars, input, dialog
<1>2. Whole' = Whole /\ \A o, k : Aligned(o, k)' <=> Aligned(o, k)
  BY <1>1 DEF Whole, Aligned, Follows, Rewritten
<1>3. SentAsMapped <=> SentAsMapped'
  BY <1>1 DEF SentAsMapped, Aligned, Follows, Rewritten, IsNoop
<1>4. task' = "map" => printer'.protocol # "bambu" /\ pos' \in 0..Whole' /\ Aligned(out, pos)'
  <2>1. task = "map" => printer.protocol # "bambu" /\ pos \in 0..Whole /\ Aligned(out, pos)
    BY DEF MapInv
  <2>2. Aligned(out, pos)' <=> Aligned(out, pos)
    BY <1>1 DEF Aligned, Follows, Rewritten
  <2> QED
    BY <1>1, <1>2, <2>1, <2>2
<1> QED
  BY <1>1, <1>3, <1>4 DEF MapInv

LEMMA MapNext == MapInv /\ [Next]_vars => MapInv'
<1> SUFFICES ASSUME MapInv, [Next]_vars PROVE MapInv'
  OBVIOUS
<1>1. ASSUME NEW k \in 0..(Len(file.lines) - pos), NEW cut \in BOOLEAN, ScanChunk(k, cut)
      PROVE  MapInv'
  BY <1>1, ScanKeepsMap
<1>2. CASE ScanEnd
  BY <1>2, ListKeepsMap
<1>3. ASSUME NEW i \in DOMAIN mapping, NEW v \in SlotValues(printer) \union {-1}, Choose(i, v)
      PROVE  MapInv'
  BY <1>3, ChooseKeepsMap
<1>4. CASE StatusArrives
  BY <1>4, StatusKeepsMap
<1>5. CASE Submit
  BY <1>5, SubmitKeepsMap
<1>6. ASSUME NEW k \in 0..(Len(file.lines) - pos), MapChunk(k)
      PROVE  MapInv'
  BY <1>6, ChunkKeepsMap
<1>7. ASSUME NEW k \in 0..(Len(file.lines) - pos), PauseChunk(k)
      PROVE  MapInv'
  BY <1>7, PausesKeepMap DEF PauseChunk, input, dialog
<1>8. CASE MapEnd
  BY <1>8, EndKeepsMap
<1>9. CASE PauseEnd
  BY <1>9, PausesKeepMap DEF PauseEnd, input, dialog
<1>10. CASE UNCHANGED vars
  BY <1>10, StutterKeepsMap
<1> QED
  BY <1>1, <1>2, <1>3, <1>4, <1>5, <1>6, <1>7, <1>8, <1>9, <1>10 DEF Next

\* From the dialog to the printer the choices stay as they were, and a file that is
\* rewritten (gcode-rewriter.ts) follows the one that was sliced line by line.
THEOREM MapInvariant == Spec => []MapInv
BY MapInit, MapNext, PTL DEF Spec
\* One extrusion of a file and the one of the same number in what was sent.
LEMMA SameExtrusion ==
  ASSUME MapInv, SentAsMapped, NEW e \in UpTo(file.lines, Len(file.lines), "extrude"),
         NEW s \in UpTo(sent.lines, Len(sent.lines), "extrude"),
         NumberOf(sent.lines, s, "extrude") = NumberOf(file.lines, e, "extrude"),
         NEW i \in DOMAIN shown, shown[i] = i - 1, shown[i] = ToolAt(file.lines, e), mapping[i] >= 0,
         Changes(file.lines, e) # {} \/ printer.protocol = "bambu"
  PROVE  SlotAt(s) = mapping[i]
<1>1. PICK n \in Nat : n = Len(file.lines)
  BY LinesAre DEF MapInv
<1>2. e \in 1..n /\ file.lines[e].op = "extrude"
  BY <1>1 DEF UpTo
<1>3. PICK c \in Nat : c = Len(mapping) /\ DOMAIN mapping = 1..c /\ DOMAIN shown = 1..c
  BY DEF MapInv
<1>4. PICK t \in Nat : t = i - 1 /\ t = ToolAt(file.lines, e) /\ t + 1 = i /\ t < c
  <2>1. i \in 1..c
    BY <1>3
  <2>2. i - 1 \in Nat /\ (i - 1) + 1 = i /\ i - 1 < c
    BY <2>1
  <2> QED
    BY <2>2
<1>5. ASSUME sent.lines = file.lines
      PROVE  s = e
  <2>1. s \in 1..n /\ file.lines[s].op = "extrude"
    BY <1>1, <1>5 DEF UpTo
  <2>2. s \in Nat /\ e \in Nat
    BY <1>2, <2>1
  <2>3. NumberOf(file.lines, s, "extrude") = NumberOf(file.lines, e, "extrude")
    BY <1>5
  <2> QED
    BY <1>2, <2>1, <2>2, <2>3, NumberTells
<1>6. CASE printer.protocol = "bambu" /\ sent.lines = file.lines /\ sent.ams = mapping
             /\ ((\E j \in DOMAIN mapping : mapping[j] >= 0) => sent.useAms)
  <2>1. s = e
    BY <1>5, <1>6
  <2>2. sent.useAms
    BY <1>3, <1>6
  <2>3. ToolAt(sent.lines, s) = t
    BY <1>4, <1>6, <2>1
  <2>4. t < Len(sent.ams) /\ sent.ams[t + 1] = mapping[i]
    BY <1>3, <1>4, <1>6
  <2> QED
    BY <1>6, <2>2, <2>3, <2>4 DEF SlotAt
<1>7. CASE printer.protocol # "bambu" /\ sent.lines = file.lines /\ IsNoop(mapping)
  <2>1. s = e
    BY <1>5, <1>7
  <2>2. mapping[i] = i - 1
    BY <1>3, <1>7 DEF IsNoop
  <2>3. SlotAt(s) = t
    BY <1>4, <1>7, <2>1 DEF SlotAt
  <2> QED
    BY <1>4, <2>2, <2>3
<1>8. CASE printer.protocol # "bambu" /\ Aligned(sent.lines, Len(file.lines))
  <2>1. PICK o, r : o \in Seq(OutSet) /\ o = sent.lines /\ Follows(r, o, Len(file.lines))
    BY <1>8 DEF Aligned
  <2>2. /\ NumberOf(o, r[e], "extrude") = NumberOf(file.lines, e, "extrude")
        /\ UpTo(o, Len(o), "extrude") = Places(r, UpTo(file.lines, Len(file.lines), "extrude"))
    BY <1>1, <1>2, <2>1, FollowsUpTo DEF MapInv
  <2>3. r[e] \in UpTo(o, Len(o), "extrude")
    BY <2>2 DEF Places
  <2>4. o[r[e]].op = "extrude" /\ o[s].op = "extrude" /\ r[e] \in Nat /\ s \in Nat
    BY <2>1, <2>3 DEF UpTo
  <2>5. NumberOf(o, s, "extrude") = NumberOf(o, r[e], "extrude")
    BY <2>1, <2>2
  <2>6. s = r[e]
    BY <2>4, <2>5, NumberTells
  <2>7. ToolAt(o, r[e]) = mapping[t + 1]
    <3>1. Len(mapping) < 1000 /\ mapping \in Seq(Values) /\ file \in Files
      BY DEF MapInv
    <3>2. Changes(file.lines, e) # {} /\ e \in 1..Len(file.lines)
      BY <1>1, <1>2, <1>8
    <3>3. t < Len(mapping) /\ mapping[t + 1] >= 0
      BY <1>3, <1>4
    <3>4. Follows(r, o, Len(file.lines)) /\ o \in Seq(OutSet) /\ t = ToolAt(file.lines, e)
      BY <1>4, <2>1
    <3> QED
      BY <3>1, <3>2, <3>3, <3>4, ToolFollows, SMTT(30)
  <2> QED
    BY <1>4, <1>8, <2>1, <2>6, <2>7 DEF SlotAt
<1> QED
  BY <1>6, <1>7, <1>8 DEF SentAsMapped

\* As many extrusions leave as the file has.
LEMMA AsManyExtrusions ==
  ASSUME MapInv, SentAsMapped
  PROVE  Cardinality(UpTo(sent.lines, Len(sent.lines), "extrude"))
           = Cardinality(UpTo(file.lines, Len(file.lines), "extrude"))
<1>1. CASE sent.lines = file.lines
  BY <1>1
<1>2. CASE Aligned(sent.lines, Len(file.lines))
  <2>1. PICK o, r : o \in Seq(OutSet) /\ o = sent.lines /\ Follows(r, o, Len(file.lines))
    BY <1>2 DEF Aligned
  <2>2. NumberOf(o, Len(o), "extrude") = NumberOf(file.lines, Len(file.lines), "extrude")
    BY <2>1, FollowsUpTo DEF MapInv
  <2> QED
    BY <2>1, <2>2, Zenon DEF NumberOf
<1> QED
  BY <1>1, <1>2 DEF SentAsMapped

\* PrintsFromMappedSlot for every file, list of slots and choice of the user: whether the
\* mapping goes along (Bambu) or the file is rewritten, each extrusion after a tool change
\* is printed from the slot chosen for its tool, and none is lost or added.
THEOREM PrintsFromMappedSlotAlways == Spec => []PrintsFromMappedSlot
<1>1. MapInv => PrintsFromMappedSlot
  <2> SUFFICES ASSUME MapInv, task = "done", sent # <<>>, \A i \in DOMAIN shown : shown[i] = i - 1,
                      NEW from, from = UpTo(file.lines, Len(file.lines), "extrude"),
                      NEW to, to = UpTo(sent.lines, Len(sent.lines), "extrude")
               PROVE  /\ Cardinality(to) = Cardinality(from)
                      /\ \A e \in from, s \in to : \A i \in DOMAIN shown :
                           (/\ NumberOf(sent.lines, s, "extrude") = NumberOf(file.lines, e, "extrude")
                            /\ shown[i] = ToolAt(file.lines, e) /\ mapping[i] >= 0
                            /\ Changes(file.lines, e) # {} \/ printer.protocol = "bambu") =>
                                   SlotAt(s) = mapping[i]
    BY DEF PrintsFromMappedSlot
  <2>1. SentAsMapped
    BY DEF MapInv
  <2>2. Cardinality(to) = Cardinality(from)
    BY <2>1, AsManyExtrusions
  <2>3. ASSUME NEW e \in from, NEW s \in to, NEW i \in DOMAIN shown,
               NumberOf(sent.lines, s, "extrude") = NumberOf(file.lines, e, "extrude"),
               shown[i] = ToolAt(file.lines, e), mapping[i] >= 0,
               Changes(file.lines, e) # {} \/ printer.protocol = "bambu"
        PROVE  SlotAt(s) = mapping[i]
    BY <2>1, <2>3, SameExtrusion
  <2> QED
    BY <2>2, <2>3
<1> QED
  BY <1>1, MapInvariant, PTL
=============================================================================
