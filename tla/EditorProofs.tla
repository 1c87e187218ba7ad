---------------------------- MODULE EditorProofs ----------------------------
(***************************************************************************)
(* The scene of the web client, whatever is uploaded and however long the  *)
(* editing.                                                                *)
(*                                                                         *)
(* The history is bounded although the redo stack has no limit of its own: *)
(* it only takes what the undo stack gives up (HistoryInv).                *)
(*                                                                         *)
(* The rest needs to know what every scene is like that the page shows or  *)
(* can bring back by an undo, a redo or a new load (Sound): an edit looks  *)
(* at the present models only, but a step through the history replaces     *)
(* them all.  It also needs that the ids the client hands out, and those   *)
(* of the answers on their way, are in none of these scenes: else a copy   *)
(* or a late answer could be taken for a model that is there (EditInv).    *)
(***************************************************************************)
EXTENDS Editor, FiniteSetTheorems, TLAPS

-----------------------------------------------------------------------------
(* The history                                                                 *)

\* Both stacks are sequences, of scenes of whatever kind.
Stacks == \E S : undo \in Seq(S) /\ redo \in Seq(S)

HistoryInv == Stacks /\ HistoryBounded

LEMMA SeqOfMore ==
    ASSUME NEW S, NEW x, NEW s \in Seq(S)
    PROVE  s \in Seq(S \union {x})
OBVIOUS

LEMMA FrontOfSeq ==
    ASSUME NEW S, NEW s \in Seq(S), s # <<>>
    PROVE  Front(s) \in Seq(S) /\ Len(Front(s)) = Len(s) - 1
<1>1. Len(s) \in Nat /\ Len(s) > 0
  OBVIOUS
<1>2. PICK n \in Nat : n = Len(s) - 1
  BY <1>1
<1>3. Front(s) = SubSeq(s, 1, n)
  BY <1>2 DEF Front
<1>4. \A i \in 1..n : i \in DOMAIN s /\ s[i] \in S
  BY <1>1, <1>2
<1> QED
  BY <1>2, <1>3, <1>4

LEMMA InitKeeps == Init => HistoryInv
<1>1. SUFFICES ASSUME Init
               PROVE  HistoryInv
  OBVIOUS
<1>2. undo \in Seq({}) /\ redo \in Seq({})
  BY <1>1 DEF Init
<1> QED
  BY <1>1, <1>2, EditorAssumption DEF Init, HistoryInv, Stacks, HistoryBounded

\* Every edit pushes a step and forgets what could be redone.
LEMMA PushKeeps ==
    ASSUME HistoryInv, PushUndo
    PROVE  HistoryInv'
<1>1. PICK S : undo \in Seq(S) /\ redo \in Seq(S)
  BY DEF HistoryInv, Stacks
<1>2. PICK T : T = S \union {models}
  OBVIOUS
<1>3. undo \in Seq(T) /\ models \in T
  BY <1>1, <1>2, SeqOfMore
<1>4. Append(undo, models) \in Seq(T) /\ Len(Append(undo, models)) = Len(undo) + 1
  BY <1>3
<1>5. undo' \in Seq(T) /\ Len(undo') <= HistoryLimit
  BY <1>3, <1>4, EditorAssumption DEF PushUndo, HistoryInv, HistoryBounded
<1>6. redo' \in Seq(T) /\ Len(redo') = 0
  BY DEF PushUndo
<1> QED
  BY <1>5, <1>6 DEF HistoryInv, Stacks, HistoryBounded

\* A step through the history moves one entry between the stacks.
LEMMA UndoRedoKeeps ==
    ASSUME HistoryInv, Undo \/ Redo
    PROVE  HistoryInv'
<1>1. PICK S : undo \in Seq(S) /\ redo \in Seq(S)
  BY DEF HistoryInv, Stacks
<1>2. PICK T : T = S \union {models}
  OBVIOUS
<1>3. undo \in Seq(T) /\ redo \in Seq(T) /\ models \in T
  BY <1>1, <1>2, SeqOfMore
<1>4. /\ undo' \in Seq(T) /\ redo' \in Seq(T)
      /\ Len(undo') + Len(redo') = Len(undo) + Len(redo)
  <2>1. CASE Undo
    <3>1. undo' \in Seq(T) /\ Len(undo') = Len(undo) - 1
      BY <1>3, <2>1, FrontOfSeq DEF Undo
    <3>2. redo' \in Seq(T) /\ Len(redo') = Len(redo) + 1
      BY <1>3, <2>1 DEF Undo
    <3> QED
      BY <1>3, <3>1, <3>2
  <2>2. CASE Redo
    <3>1. redo' \in Seq(T) /\ Len(redo') = Len(redo) - 1
      BY <1>3, <2>2, FrontOfSeq DEF Redo
    <3>2. undo' \in Seq(T) /\ Len(undo') = Len(undo) + 1
      BY <1>3, <2>2 DEF Redo
    <3> QED
      BY <1>3, <3>1, <3>2
  <2> QED
    BY <2>1, <2>2
<1> QED
  BY <1>3, <1>4 DEF HistoryInv, Stacks, HistoryBounded

LEMMA QuietKeeps ==
    ASSUME HistoryInv, UNCHANGED history
    PROVE  HistoryInv'
BY DEF HistoryInv, Stacks, HistoryBounded, history

LEMMA ReloadKeeps ==
    ASSUME HistoryInv, Reload
    PROVE  HistoryInv'
<1>1. undo' \in Seq({}) /\ redo' \in Seq({}) /\ Len(undo') = 0 /\ Len(redo') = 0
  BY DEF Reload
<1> QED
  BY <1>1, EditorAssumption DEF HistoryInv, Stacks, HistoryBounded

\* An action is an edit, a step through the history, a new page, or leaves it alone.
LEMMA ActKinds ==
    ASSUME Act
    PROVE  PushUndo \/ Undo \/ Redo \/ Reload \/ UNCHANGED history
<1>1. CASE AddPlate \/ ClearAll \/ Undo \/ Redo \/ SelectNone \/ StartCut \/ Save \/ Reload
  BY <1>1 DEF AddPlate, ClearAll, SelectNone, StartCut, Save
<1>2. ASSUME NEW k \in DOMAIN plates,
             \/ SelectPlate(k) \/ DuplicatePlate(k) \/ DeletePlate(k)
             \/ \E l \in DOMAIN plates : ReorderPlates(k, l)
      PROVE  PushUndo \/ UNCHANGED history
  BY <1>2 DEF SelectPlate, DuplicatePlate, DeletePlate, ReorderPlates, Update
<1>3. ASSUME NEW indices, Transform(indices)
      PROVE  PushUndo
  BY <1>3 DEF Transform, Update
<1>4. ASSUME NEW i \in DOMAIN models, NEW additive \in BOOLEAN,
             SelectInList(i, additive) \/ SelectInView(i, additive)
      PROVE  UNCHANGED history
  BY <1>4 DEF SelectInList, SelectInView
<1>5. ASSUME NEW i \in DOMAIN models, ToggleVisible(i) \/ RemoveModel(i)
      PROVE  PushUndo
  BY <1>5 DEF ToggleVisible, RemoveModel, Update
<1>6. ASSUME NEW i \in DOMAIN models, NEW plate, NEW s, MoveToPlate(i, plate) \/ Duplicate(i, plate, s)
      PROVE  PushUndo
  BY <1>6 DEF MoveToPlate, Duplicate, Append1, Update
<1>7. ASSUME NEW i \in DOMAIN models, NEW kind, StartVolume(i, kind)
      PROVE  UNCHANGED history
  BY <1>7 DEF StartVolume
<1>8. ASSUME NEW f \in DOMAIN Files, NEW b, StartUpload(f, b) \/ StartImport(f)
      PROVE  UNCHANGED history
  BY <1>8 DEF StartUpload, StartImport
<1>9. ASSUME NEW u \in pending, Arrive(u) \/ ArrivePlates(u) \/ ArriveVolume(u) \/ ArriveCut(u)
      PROVE  PushUndo
  BY <1>9 DEF Arrive, ArrivePlates, ArriveVolume, ArriveCut, Append1, Update
<1>10. ASSUME NEW u \in pending, UploadFails(u)
       PROVE  UNCHANGED history
  BY <1>10 DEF UploadFails
<1>11. ASSUME NEW p, SlicePlate(p)
       PROVE  UNCHANGED history
  BY <1>11 DEF SlicePlate
<1> QED
  BY <1>1, <1>2, <1>3, <1>4, <1>5, <1>6, <1>7, <1>8, <1>9, <1>10, <1>11 DEF Act

LEMMA StepKeeps ==
    ASSUME HistoryInv, [Next]_vars
    PROVE  HistoryInv'
<1>1. CASE UNCHANGED vars
  BY <1>1, QuietKeeps DEF vars
<1>2. CASE Act
  BY <1>2, ActKinds, PushKeeps, UndoRedoKeeps, ReloadKeeps, QuietKeeps
<1> QED
  BY <1>1, <1>2 DEF Next

\* Undo and redo together never hold more steps than the limit (App.tsx, pushUndo,
\* handleUndo, handleRedo).
THEOREM HistoryBoundedAlways == Spec => []HistoryBounded
<1>1. HistoryInv => HistoryBounded
  BY DEF HistoryInv
<1> QED
  BY <1>1, InitKeeps, StepKeeps, PTL DEF Spec

-----------------------------------------------------------------------------
(* Some of the models, in their order                                          *)

\* The place of i among the numbers of a set.
Rank(at, i) == Cardinality({j \in at : j <= i})

LEMMA RankOnto ==
    ASSUME NEW at, IsFiniteSet(at), at \subseteq Int
    PROVE  /\ Cardinality(at) \in Nat
           /\ \A i \in at : Rank(at, i) \in 1..Cardinality(at)
           /\ \A i, j \in at : i < j => Rank(at, i) < Rank(at, j)
           /\ \A k \in 1..Cardinality(at) : \E i \in at : Rank(at, i) = k
<1> DEFINE Below(i) == {j \in at : j <= i}
<1>1. PICK n \in Nat : n = Cardinality(at)
  BY FS_CardinalityType
<1>2. \A i \in at : IsFiniteSet(Below(i)) /\ Cardinality(Below(i)) \in Nat /\ Cardinality(Below(i)) <= n
  BY <1>1, FS_Subset, FS_CardinalityType
<1>3. \A i \in at : Rank(at, i) = Cardinality(Below(i))
  BY DEF Rank
<1>4. ASSUME NEW i \in at
      PROVE  Rank(at, i) \in 1..n
  <2>1. i \in Below(i)
    OBVIOUS
  <2>2. Cardinality(Below(i)) # 0
    BY <1>2, <2>1, FS_EmptySet
  <2> HIDE DEF Below
  <2> QED
    BY <1>2, <1>3, <2>2
<1>5. \A i \in at : Rank(at, i) \in 1..n
  BY <1>4
<1>6. ASSUME NEW i \in at, NEW j \in at, i < j
      PROVE  Rank(at, i) < Rank(at, j)
  <2>1. Below(i) \subseteq Below(j) /\ Below(i) # Below(j)
    <3>1. j \in Below(j) /\ j \notin Below(i)
      BY <1>6
    <3>2. \A x \in at : x <= i => x <= j
      BY <1>6
    <3> QED
      BY <3>1, <3>2
  <2>2. Cardinality(Below(i)) <= Cardinality(Below(j)) /\ Cardinality(Below(i)) # Cardinality(Below(j))
    BY <1>2, <2>1, FS_Subset
  <2> QED
    BY <1>2, <1>3, <2>2
<1>7. PICK f : f = [i \in at |-> Rank(at, i)]
  OBVIOUS
<1>8. f \in Injection(at, 1..n)
  BY <1>5, <1>6, <1>7, SMT DEF Injection, IsInjective
<1>9. IsFiniteSet(1..n) /\ Cardinality(1..n) = n
  BY FS_Interval
<1>10. f \in Surjection(at, 1..n)
  BY <1>1, <1>8, <1>9, FS_Injection
<1>11. \A k \in 1..n : \E i \in at : f[i] = k
  BY <1>10 DEF Surjection
<1> QED
  BY <1>1, <1>5, <1>6, <1>7, <1>11

LEMMA Largest ==
    ASSUME NEW at, IsFiniteSet(at), at \subseteq Int, at # {}
    PROVE  Max(at) \in at /\ \A i \in at : i <= Max(at)
<1>1. PICK n \in Nat : n = Cardinality(at)
  BY FS_CardinalityType
<1>2. n \in 1..n
  BY <1>1, FS_EmptySet
<1>3. PICK i \in at : Rank(at, i) = n
  BY <1>1, <1>2, RankOnto
<1>4. {j \in at : j <= i} = at
  BY <1>1, <1>3, FS_Subset DEF Rank
<1>5. \A j \in at : i >= j
  BY <1>4
<1> QED
  BY <1>5 DEF Max

LEMMA SeqOfValues ==
    ASSUME NEW n \in Nat, NEW f, f = [i \in 1..n |-> f[i]]
    PROVE  f \in Seq({f[i] : i \in 1..n}) /\ Len(f) = n /\ DOMAIN f = 1..n
OBVIOUS

LEMMA Ahead ==
    ASSUME NEW M, NEW x \in M, NEW s \in Seq(M), NEW n \in Nat, n = Len(s)
    PROVE  /\ <<x>> \o s \in Seq(M) /\ DOMAIN (<<x>> \o s) = 1..(n + 1) /\ (<<x>> \o s)[1] = x
           /\ \A k \in 2..(n + 1) : k - 1 \in 1..n /\ (<<x>> \o s)[k] = s[k - 1]
OBVIOUS

LEMMA Indices ==
    ASSUME NEW M, models \in Seq(M), NEW at \in SUBSET DOMAIN models
    PROVE  IsFiniteSet(at) /\ at \subseteq Int
<1>1. PICK m \in Nat : DOMAIN models = 1..m
  OBVIOUS
<1>2. at \in SUBSET (1..m)
  BY <1>1
<1>3. IsFiniteSet(1..m)
  BY FS_Interval
<1>4. IsFiniteSet(at)
  BY <1>2, <1>3, FS_Subset
<1> QED
  BY <1>2, <1>4

\* The models at some indices: each of them once, none other, and in their order.
LEMMA SubModels ==
    ASSUME NEW M, models \in Seq(M), NEW at \in SUBSET DOMAIN models
    PROVE  /\ Sub(at) \in Seq(M) /\ Len(Sub(at)) = Cardinality(at)
           /\ Cardinality(at) \in Nat /\ DOMAIN Sub(at) = 1..Cardinality(at)
           /\ \E r \in [1..Cardinality(at) -> at] :
                /\ \A k \in 1..Cardinality(at) : Sub(at)[k] = models[r[k]]
                /\ \A k, l \in 1..Cardinality(at) : k < l => r[k] < r[l]
                /\ \A i \in at : r[Rank(at, i)] = i
<1>2. IsFiniteSet(at) /\ at \subseteq Int /\ \A i \in at : models[i] \in M
  BY Indices
<1>3. PICK n \in Nat : n = Cardinality(at)
  BY <1>2, FS_CardinalityType
<1> DEFINE r == [k \in 1..n |-> CHOOSE i \in at : Rank(at, i) = k]
<1>4. \A k \in 1..n : r[k] \in at /\ Rank(at, r[k]) = k
  BY <1>2, <1>3, RankOnto
<1>5. Sub(at) = [k \in 1..n |-> models[r[k]]]
  BY <1>3 DEF Sub, Rank
<1>6. r \in [1..n -> at]
  BY <1>4
<1> HIDE DEF r
<1>7. /\ Sub(at) \in Seq(M) /\ Len(Sub(at)) = n /\ DOMAIN Sub(at) = 1..n
      /\ \A k \in 1..n : Sub(at)[k] = models[r[k]]
  BY <1>2, <1>5, <1>6
<1>8. ASSUME NEW k \in 1..n, NEW l \in 1..n, k < l
      PROVE  r[k] < r[l]
  <2>1. r[k] \in Int /\ r[l] \in Int
    BY <1>2, <1>4
  <2>2. r[k] # r[l]
    BY <1>4, <1>8
  <2>3. ~(r[l] < r[k])
    BY <1>2, <1>4, <1>8, RankOnto
  <2> QED
    BY <2>1, <2>2, <2>3
<1>9. ASSUME NEW i \in at
      PROVE  r[Rank(at, i)] = i
  <2>1. Rank(at, i) \in 1..n
    BY <1>2, <1>3, RankOnto
  <2>2. PICK j \in at : j = r[Rank(at, i)] /\ Rank(at, j) = Rank(at, i)
    BY <1>4, <2>1
  <2>3. ~(i < j) /\ ~(j < i)
    BY <1>2, <2>2, RankOnto
  <2> QED
    BY <1>2, <2>2, <2>3
<1> QED
  BY <1>3, <1>6, <1>7, <1>8, <1>9

LEMMA ListedInSequence ==
    ASSUME NEW M, models \in Seq(M)
    PROVE  AllListed
<1> SUFFICES ASSUME NEW i \in DOMAIN models
             PROVE  i \in Rows(models[i].plate)
  BY DEF AllListed
<1>1. ASSUME NEW m
      PROVE  ParentInList(m) \subseteq DOMAIN models
  <2> SUFFICES ASSUME NEW l \in m.links,
                      SelectLastInSubSeq(models, 1, Len(models), LAMBDA p : p.id = l) # 0
               PROVE  SelectLastInSubSeq(models, 1, Len(models), LAMBDA p : p.id = l) \in DOMAIN models
    BY DEF ParentInList
  <2> DEFINE at == {k \in 1..Len(models) : models[k].id = l}
  <2>1. SelectLastInSubSeq(models, 1, Len(models), LAMBDA p : p.id = l) = IF at # {} THEN Max(at) ELSE 0
    BY DEF SelectLastInSubSeq
  <2>2. at # {}
    BY <2>1
  <2>3. PICK n \in Nat : n = Len(models) /\ DOMAIN models = 1..n
    OBVIOUS
  <2>4. IsFiniteSet(at) /\ at \subseteq Int
    <3>1. at \in SUBSET (1..n)
      BY <2>3
    <3>0. IsFiniteSet(1..n)
      BY FS_Interval
    <3> HIDE DEF at
    <3>2. IsFiniteSet(at)
      BY <3>0, <3>1, FS_Subset
    <3> QED
      BY <3>1, <3>2
  <2>5. Max(at) \in at
    BY <2>2, <2>4, Largest
  <2> QED
    BY <2>1, <2>2, <2>3, <2>5
<1>2. Parents(models[i]) \subseteq DOMAIN models
  BY <1>1 DEF Parents
<1>3. \A j \in Parents(models[i]) : models[j].kind = "model" /\ models[j].plate = models[i].plate
  BY DEF Parents
<1> DEFINE roots == {k \in DOMAIN models : models[k].plate = models[i].plate /\
                        (models[k].kind = "model" \/ Parents(models[k]) = {})}
<1>4. i \in roots \/ \E j \in Parents(models[i]) : j \in roots
  BY <1>2, <1>3
<1> QED
  BY <1>4 DEF Rows

-----------------------------------------------------------------------------
(* Sound scenes                                                                *)

Fields == {"uid", "id", "kind", "links", "plate", "count", "back", "pose", "visible"}

\* What was made before f was the next id.
Good(m, f) ==
    /\ DOMAIN m = Fields
    /\ m.uid \in Nat /\ m.uid < f /\ m.id[1] \in Nat /\ m.id[1] < f
    /\ m.kind = "model" => m.links = {}
    /\ m.count > 1 => m.back \in 1..m.count

\* Two instances differ, and what has the id of a model hangs from that id alone.
Apart(a, b) ==
    /\ Instance(a) # Instance(b)
    /\ a.id = b.id => /\ a.kind = "model" => b.links \subseteq {b.id}
                      /\ b.kind = "model" => a.links \subseteq {a.id}

Sound(ms, f) ==
    /\ \E M : ms \in Seq(M)
    /\ \A i \in DOMAIN ms : Good(ms[i], f)
    /\ \A i, j \in DOMAIN ms : i # j => Apart(ms[i], ms[j])

LEMMA ApartBoth ==
    ASSUME NEW a, NEW b, Apart(a, b)
    PROVE  Apart(b, a)
BY DEF Apart

LEMMA SoundEmpty == \A f : Sound(<<>>, f)
<1>1. <<>> \in Seq({}) /\ DOMAIN <<>> = {}
  OBVIOUS
<1> QED
  BY <1>1 DEF Sound

LEMMA SoundLater ==
    ASSUME NEW f \in Nat, NEW g \in Nat, f <= g, NEW ms, Sound(ms, f)
    PROVE  Sound(ms, g)
BY DEF Sound, Good

\* Some of the models, and models changed in nothing that matters here.
LEMMA SoundSub ==
    ASSUME NEW f, Sound(models, f), NEW at \in SUBSET DOMAIN models
    PROVE  Sound(Sub(at), f)
<1>1. PICK M : models \in Seq(M)
  BY DEF Sound
<1>2. Sub(at) \in Seq(M) /\ DOMAIN Sub(at) = 1..Cardinality(at) /\ Cardinality(at) \in Nat
  BY <1>1, SubModels
<1>3. PICK r \in [1..Cardinality(at) -> at] :
        /\ \A k \in 1..Cardinality(at) : Sub(at)[k] = models[r[k]]
        /\ \A k, l \in 1..Cardinality(at) : k < l => r[k] < r[l]
  BY <1>1, SubModels
<1>4. DOMAIN models \subseteq Nat
  BY <1>1
<1>5. \A k, l \in 1..Cardinality(at) : k # l => r[k] # r[l]
  BY <1>2, <1>3, <1>4
<1>6. \A k \in 1..Cardinality(at) : r[k] \in DOMAIN models
  BY <1>3
<1> QED
  BY <1>2, <1>3, <1>5, <1>6 DEF Sound

Alike(a, b) ==
    /\ DOMAIN b = DOMAIN a /\ b.uid = a.uid /\ b.id = a.id /\ b.kind = a.kind
    /\ b.links = a.links /\ b.count = a.count /\ b.back = a.back

LEMMA SoundAlike ==
    ASSUME NEW f, NEW ms, Sound(ms, f), NEW new, new = [i \in DOMAIN ms |-> new[i]],
           \A i \in DOMAIN ms : Alike(ms[i], new[i])
    PROVE  Sound(new, f)
<1>1. PICK M : ms \in Seq(M)
  BY DEF Sound
<1>2. PICK n \in Nat : n = Len(ms) /\ DOMAIN ms = 1..n
  BY <1>1
<1>3. new \in Seq({new[i] : i \in 1..n}) /\ DOMAIN new = 1..n
  BY <1>2, SeqOfValues
<1>4. \A i \in 1..n : Good(new[i], f)
  BY <1>2 DEF Sound, Good, Alike
<1>5. \A i, j \in 1..n : i # j => Apart(new[i], new[j])
  BY <1>2 DEF Sound, Apart, Alike, Instance
<1> QED
  BY <1>3, <1>4, <1>5 DEF Sound

LEMMA SoundMore ==
    ASSUME NEW f, NEW ms, Sound(ms, f), NEW more, Sound(more, f),
           \A i \in DOMAIN ms, k \in DOMAIN more : Apart(ms[i], more[k])
    PROVE  /\ Sound(ms \o more, f)
           /\ \A i \in DOMAIN (ms \o more) :
                \/ i \in DOMAIN ms /\ (ms \o more)[i] = ms[i]
                \/ \E k \in DOMAIN more : (ms \o more)[i] = more[k]
           /\ Len(ms \o more) >= Len(ms)
           /\ \A i \in DOMAIN ms : (ms \o more)[i] = ms[i]
<1>1. PICK A : ms \in Seq(A)
  BY DEF Sound
<1>2. PICK B : more \in Seq(B)
  BY DEF Sound
<1>3. PICK M : M = A \union B
  OBVIOUS
<1>4. ms \in Seq(M) /\ more \in Seq(M)
  BY <1>1, <1>2, <1>3
<1>5. PICK m \in Nat, n \in Nat : m = Len(ms) /\ n = Len(more) /\ DOMAIN ms = 1..m /\ DOMAIN more = 1..n
  BY <1>4
<1>6. PICK all : all = ms \o more
  OBVIOUS
<1>7. /\ all \in Seq(M) /\ Len(all) = m + n /\ DOMAIN all = 1..(m + n)
      /\ \A i \in 1..m : all[i] = ms[i]
      /\ \A i \in (m + 1)..(m + n) : all[i] = more[i - m]
  BY <1>4, <1>5, <1>6
<1>8. \A i \in 1..(m + n) : \/ i \in 1..m /\ all[i] = ms[i]
                            \/ i > m /\ i - m \in 1..n /\ all[i] = more[i - m]
  BY <1>7
<1>9. \A i \in DOMAIN all : Good(all[i], f)
  BY <1>5, <1>7, <1>8 DEF Sound
<1>10. ASSUME NEW i \in 1..(m + n), NEW j \in 1..(m + n), i # j
       PROVE  Apart(all[i], all[j])
  <2>1. CASE i \in 1..m /\ j \in 1..m
    BY <1>5, <1>7, <1>10, <2>1 DEF Sound
  <2>2. CASE i > m /\ j > m
    <3>1. /\ i - m \in DOMAIN more /\ j - m \in DOMAIN more /\ i - m # j - m
          /\ all[i] = more[i - m] /\ all[j] = more[j - m]
      BY <1>5, <1>8, <1>10, <2>2
    <3>2. PICK a \in DOMAIN more, b \in DOMAIN more : a = i - m /\ b = j - m
      BY <3>1
    <3>3. Apart(more[a], more[b])
      BY <3>1, <3>2 DEF Sound
    <3> QED
      BY <3>1, <3>2, <3>3
  <2>3. ASSUME NEW a \in 1..m, NEW b \in 1..(m + n), b > m
        PROVE  Apart(all[a], all[b]) /\ Apart(all[b], all[a])
    <3>1. all[a] = ms[a] /\ b - m \in 1..n /\ all[b] = more[b - m]
      BY <1>7, <1>8, <2>3
    <3>2. Apart(ms[a], more[b - m])
      BY <1>5, <3>1
    <3> QED
      BY <3>1, <3>2, ApartBoth
  <2> QED
    BY <1>10, <2>1, <2>2, <2>3
<1>11. Sound(all, f)
  BY <1>7, <1>9, <1>10 DEF Sound
<1> QED
  BY <1>5, <1>6, <1>7, <1>8, <1>11

-----------------------------------------------------------------------------
(* The invariant of the scenes                                                 *)

\* The ids an answer brings.
Brought(u) == IF u.kind = "cut" THEN {<<u.id>>, <<u.id + 1>>} ELSE {<<u.id>>}

\* The present scene and all that an undo, a redo or a new page may bring back.
Scenes ==
    {models} \union {undo[i] : i \in DOMAIN undo} \union {redo[i] : i \in DOMAIN redo}
        \union (IF saved = <<>> THEN {} ELSE {saved[1].models})

Listed(ps) == \E S : ps \in Seq(S)

Awaited(u, f) ==
    /\ u.id \in Nat /\ u.id < f /\ (u.kind = "cut" => u.id + 1 < f)
    /\ u.kind \in {"upload", "import"} => u.file \in DOMAIN Files

EditInv ==
    /\ fresh \in Nat /\ steps \in Nat
    /\ \A ms \in Scenes : Sound(ms, fresh)
    /\ \A u \in pending : Awaited(u, fresh)
    /\ \A u \in pending, ms \in Scenes : \A i \in DOMAIN ms : ms[i].id \notin Brought(u)
    /\ \A u, v \in pending : u # v => Brought(u) \cap Brought(v) = {}
    /\ Listed(plates) /\ (saved # <<>> => Listed(saved[1].plates))
    /\ SlicesOwnPlate

\* An id the scene had, a new one, or one that was awaited.
Origin(x, f, gone) ==
    \/ \E j \in DOMAIN models : x = models[j].id
    \/ x[1] \in Nat /\ x[1] >= f
    \/ \E v \in gone : x \in Brought(v)

LEMMA BroughtAre ==
    ASSUME NEW u, NEW f \in Nat, Awaited(u, f), NEW x \in Brought(u)
    PROVE  x[1] \in Nat /\ x[1] < f
BY DEF Awaited, Brought

\* One more scene at most.
LEMMA SceneKeeps ==
    ASSUME EditInv, fresh' \in Nat, fresh <= fresh', steps' \in Nat, pending' \subseteq pending,
           Listed(plates'), saved' # <<>> => Listed(saved'[1].plates), sliced' = sliced,
           NEW new, Scenes' \subseteq Scenes \union {new}, Sound(new, fresh'),
           \A i \in DOMAIN new : Origin(new[i].id, fresh, pending \ pending')
    PROVE  EditInv'
<1>1. \A ms \in Scenes' : Sound(ms, fresh')
  BY SoundLater DEF EditInv
<1>2. \A u \in pending' : Awaited(u, fresh')
  BY DEF EditInv, Awaited
<1>3. ASSUME NEW u \in pending', NEW ms \in Scenes', NEW i \in DOMAIN ms
      PROVE  ms[i].id \notin Brought(u)
  <2>1. CASE ms \in Scenes
    BY <2>1 DEF EditInv
  <2>2. CASE ms = new
    <3>1. CASE \E j \in DOMAIN models : new[i].id = models[j].id
      BY <2>2, <3>1 DEF EditInv, Scenes
    <3>2. CASE new[i].id[1] \in Nat /\ new[i].id[1] >= fresh
      BY <2>2, <3>2, BroughtAre DEF EditInv
    <3>3. CASE \E v \in pending \ pending' : new[i].id \in Brought(v)
      BY <2>2, <3>3 DEF EditInv
    <3> QED
      BY <2>2, <3>1, <3>2, <3>3 DEF Origin
  <2> QED
    BY <2>1, <2>2
<1>4. \A u, v \in pending' : u # v => Brought(u) \cap Brought(v) = {}
  BY DEF EditInv
<1>5. SlicesOwnPlate'
  BY DEF EditInv, SlicesOwnPlate
<1> QED
  BY <1>1, <1>2, <1>3, <1>4, <1>5 DEF EditInv

\* The present scene is replaced; the step goes to the undo stack.
LEMMA EditKeeps ==
    ASSUME EditInv, Stacks, PushUndo, saved' = saved, sliced' = sliced, steps' \in Nat,
           fresh' \in Nat, fresh <= fresh', pending' \subseteq pending, Listed(plates'),
           Sound(models', fresh'),
           \A i \in DOMAIN models' : Origin(models'[i].id, fresh, pending \ pending')
    PROVE  EditInv'
<1>1. PICK S : undo \in Seq(S)
  BY DEF Stacks
<1>2. PICK T : T = S \union {models}
  OBVIOUS
<1>3. undo \in Seq(T)
  BY <1>1, <1>2
<1>4. \A i \in DOMAIN undo' : undo'[i] = models \/ \E j \in DOMAIN undo : undo'[i] = undo[j]
  <2>1. PICK u : u = Append(undo, models)
    OBVIOUS
  <2>2. u \in Seq(T) /\ \A i \in DOMAIN u : u[i] = models \/ \E j \in DOMAIN undo : u[i] = undo[j]
    BY <1>2, <1>3, <2>1
  <2>3. undo' = u \/ (undo' = Tail(u) /\ u # <<>>)
    BY <1>3, <2>1 DEF PushUndo
  <2>4. \A i \in DOMAIN undo' : \E k \in DOMAIN u : undo'[i] = u[k]
    <3>1. CASE undo' = u
      BY <3>1
    <3>2. CASE undo' = Tail(u) /\ u # <<>>
      <4>1. \A i \in DOMAIN undo' : i + 1 \in DOMAIN u /\ undo'[i] = u[i + 1]
        BY <2>2, <3>2
      <4> QED
        BY <4>1
    <3> QED
      BY <2>3, <3>1, <3>2
  <2> QED
    BY <2>2, <2>4
<1>5. DOMAIN redo' = {}
  BY DEF PushUndo
<1>6. Scenes' \subseteq Scenes \union {models'}
  BY <1>4, <1>5 DEF Scenes
<1>7. saved' # <<>> => Listed(saved'[1].plates)
  BY DEF EditInv
<1> QED
  BY <1>6, <1>7, SceneKeeps

\* Nothing new: the scenes that were, or an empty one.
LEMMA RestKeeps ==
    ASSUME EditInv, steps' \in Nat, fresh' \in Nat, fresh <= fresh', pending' \subseteq pending,
           Listed(plates'), saved' # <<>> => Listed(saved'[1].plates), sliced' = sliced,
           Scenes' \subseteq Scenes \union {<<>>}
    PROVE  EditInv'
<1>1. Sound(<<>>, fresh') /\ DOMAIN <<>> = {}
  BY SoundEmpty
<1>2. PICK new : new = <<>>
  OBVIOUS
<1> QED
  BY <1>1, <1>2, SceneKeeps

\* An upload begins.
LEMMA StartKeeps ==
    ASSUME EditInv, steps' \in Nat, fresh' \in Nat, UNCHANGED <<scene, history, saved, sliced>>,
           NEW v, pending' = pending \union {v}, v.id = fresh, fresh + 1 <= fresh',
           v.kind = "cut" => fresh + 2 <= fresh', v.kind \in {"upload", "import"} => v.file \in DOMAIN Files
    PROVE  EditInv'
<1>1. /\ models' = models /\ undo' = undo /\ redo' = redo /\ saved' = saved /\ plates' = plates
      /\ sliced' = sliced
  BY DEF scene, history
<1>2. Scenes' = Scenes
  BY <1>1 DEF Scenes
<1>3. fresh \in Nat /\ fresh <= fresh'
  BY DEF EditInv
<1>4. \A ms \in Scenes' : Sound(ms, fresh')
  BY <1>2, <1>3, SoundLater DEF EditInv
<1>5. \A u \in pending' : Awaited(u, fresh')
  BY <1>3 DEF EditInv, Awaited
<1>6. \A x \in Brought(v) : x[1] \in Nat /\ x[1] >= fresh
  BY <1>3 DEF Brought
<1>7. \A u \in pending, ms \in Scenes : \A i \in DOMAIN ms : ms[i].id \notin Brought(u)
  BY DEF EditInv
<1>8. \A ms \in Scenes : \A i \in DOMAIN ms : ms[i].id[1] < fresh /\ ms[i].id[1] \in Nat
  BY DEF EditInv, Sound, Good
<1>9. \A ms \in Scenes : \A i \in DOMAIN ms : ms[i].id \notin Brought(v)
  BY <1>3, <1>6, <1>8
<1>10. \A u \in pending', ms \in Scenes' : \A i \in DOMAIN ms : ms[i].id \notin Brought(u)
  BY <1>2, <1>7, <1>9
<1>11. \A u \in pending : Brought(u) \cap Brought(v) = {}
  BY <1>3, <1>6, BroughtAre DEF EditInv
<1>12. \A u, w \in pending' : u # w => Brought(u) \cap Brought(w) = {}
  BY <1>11 DEF EditInv
<1>13. SlicesOwnPlate'
  BY <1>1 DEF EditInv, SlicesOwnPlate
<1>14. Listed(plates') /\ (saved' # <<>> => Listed(saved'[1].plates))
  BY <1>1 DEF EditInv
<1> QED
  BY <1>4, <1>5, <1>10, <1>12, <1>13, <1>14 DEF EditInv

-----------------------------------------------------------------------------
(* Every action keeps it                                                       *)

LEMMA UserSteps ==
    ASSUME EditInv, User
    PROVE  steps' \in Nat /\ steps' # steps
BY DEF EditInv, User

LEMMA PresentIsSound ==
    ASSUME EditInv
    PROVE  /\ Sound(models, fresh) /\ fresh \in Nat
           /\ \A i \in DOMAIN models : Good(models[i], fresh)
BY DEF EditInv, Scenes, Sound

\* An edit that leaves every model the instance it was.
LEMMA AlikeKeeps ==
    ASSUME EditInv, Stacks, User, PushUndo, Still, UNCHANGED <<plates, fresh>>,
           models' = [i \in DOMAIN models |-> models'[i]],
           \A i \in DOMAIN models : Alike(models[i], models'[i])
    PROVE  EditInv'
<1>1. Sound(models', fresh')
  BY PresentIsSound, SoundAlike
<1>2. \A i \in DOMAIN models' : Origin(models'[i].id, fresh, pending \ pending')
  BY DEF Origin, Alike
<1>3. Listed(plates') /\ saved' = saved /\ sliced' = sliced /\ pending' = pending
  BY DEF EditInv, Still, uploads
<1> QED
  BY <1>1, <1>2, <1>3, UserSteps, PresentIsSound, EditKeeps

LEMMA TransformKeeps ==
    ASSUME EditInv, Stacks, NEW indices, Transform(indices)
    PROVE  EditInv'
<1>1. models' = [i \in DOMAIN models |->
                    IF i \in indices THEN [models[i] EXCEPT !.pose = 1 - @] ELSE models[i]]
  BY DEF Transform, Update
<1>2. \A i \in DOMAIN models : Alike(models[i], models'[i])
  BY <1>1, PresentIsSound DEF Good, Fields, Alike
<1>3. models' = [i \in DOMAIN models |-> models'[i]]
  BY <1>1
<1> QED
  BY <1>2, <1>3, AlikeKeeps DEF Transform, Update

LEMMA ToggleKeeps ==
    ASSUME EditInv, Stacks, NEW i \in DOMAIN models, ToggleVisible(i)
    PROVE  EditInv'
<1>1. models' = [models EXCEPT ![i].visible = ~@]
  BY DEF ToggleVisible, Update
<1>2. \A j \in DOMAIN models : Alike(models[j], models'[j])
  BY <1>1, PresentIsSound DEF Good, Fields, Alike
<1>3. models' = [j \in DOMAIN models |-> models'[j]]
  BY <1>1
<1> QED
  BY <1>2, <1>3, AlikeKeeps DEF ToggleVisible, Update

LEMMA MoveKeeps ==
    ASSUME EditInv, Stacks, NEW i \in DOMAIN models, NEW plate, MoveToPlate(i, plate)
    PROVE  EditInv'
<1>1. models' = [models EXCEPT ![i].plate = plate, ![i].pose = 0]
  BY DEF MoveToPlate, Update
<1>2. \A j \in DOMAIN models : Alike(models[j], models'[j])
  BY <1>1, PresentIsSound DEF Good, Fields, Alike
<1>3. models' = [j \in DOMAIN models |-> models'[j]]
  BY <1>1
<1> QED
  BY <1>2, <1>3, AlikeKeeps DEF MoveToPlate, Update

\* Some models go.
LEMMA SubOrigin ==
    ASSUME EditInv, NEW at \in SUBSET DOMAIN models
    PROVE  \A k \in DOMAIN Sub(at) : \E i \in at : Sub(at)[k] = models[i]
<1>1. PICK M : models \in Seq(M)
  BY PresentIsSound DEF Sound
<1>2. DOMAIN Sub(at) = 1..Cardinality(at)
  BY <1>1, SubModels
<1>3. PICK r \in [1..Cardinality(at) -> at] : \A k \in 1..Cardinality(at) : Sub(at)[k] = models[r[k]]
  BY <1>1, SubModels
<1> QED
  BY <1>2, <1>3

LEMMA SubKeeps ==
    ASSUME EditInv, Stacks, User, PushUndo, Still, Listed(plates'), fresh' = fresh,
           NEW at \in SUBSET DOMAIN models, models' = Sub(at)
    PROVE  EditInv'
<1>1. Sound(models', fresh')
  BY PresentIsSound, SoundSub
<1>2. \A i \in DOMAIN models' : Origin(models'[i].id, fresh, pending \ pending')
  BY SubOrigin DEF Origin
<1>3. saved' = saved /\ sliced' = sliced /\ pending' = pending
  BY DEF Still, uploads
<1> QED
  <2>1. steps' \in Nat /\ fresh' \in Nat /\ fresh <= fresh' /\ pending' \subseteq pending
    BY <1>3, UserSteps, PresentIsSound
  <2> QED
    BY <1>1, <1>2, <1>3, <2>1, EditKeeps

LEMMA RemoveModelKeeps ==
    ASSUME EditInv, Stacks, NEW i \in DOMAIN models, RemoveModel(i)
    PROVE  EditInv'
<1>1. PICK at \in SUBSET DOMAIN models : at = DOMAIN models \ RemovedWith(i)
  OBVIOUS
<1>2. models' = Sub(at) /\ PushUndo /\ User /\ Still /\ fresh' = fresh /\ plates' = plates
  BY <1>1 DEF RemoveModel, Update
<1>3. Listed(plates')
  BY <1>2 DEF EditInv
<1> QED
  BY <1>2, <1>3, SubKeeps

LEMMA ListedParts ==
    ASSUME NEW ps, Listed(ps), NEW k \in DOMAIN ps, NEW x
    PROVE  /\ Listed(RemoveAt(ps, k)) /\ Len(RemoveAt(ps, k)) = Len(ps) - 1
           /\ Listed(InsertAt(ps, k + 1, x)) /\ Len(InsertAt(ps, k + 1, x)) = Len(ps) + 1
           /\ Listed(Append(ps, x)) /\ Listed(<<x>>) /\ Len(ps) \in Nat
<1>1. PICK S : ps \in Seq(S)
  BY DEF Listed
<1>2. PICK T : T = S \union {x}
  OBVIOUS
<1>3. ps \in Seq(T) /\ <<x>> \in Seq(T)
  BY <1>1, <1>2
<1>4. PICK n \in Nat : n = Len(ps) /\ DOMAIN ps = 1..n
  BY <1>3
<1>5. /\ SubSeq(ps, 1, k - 1) \in Seq(T) /\ Len(SubSeq(ps, 1, k - 1)) = k - 1
      /\ SubSeq(ps, k + 1, n) \in Seq(T) /\ Len(SubSeq(ps, k + 1, n)) = n - k
  BY <1>3, <1>4
<1>6. SubSeq(ps, 1, k) \in Seq(T) /\ Len(SubSeq(ps, 1, k)) = k
  BY <1>3, <1>4
<1>7. RemoveAt(ps, k) \in Seq(T) /\ Len(RemoveAt(ps, k)) = n - 1
  BY <1>4, <1>5 DEF RemoveAt
<1>8. InsertAt(ps, k + 1, x) \in Seq(T) /\ Len(InsertAt(ps, k + 1, x)) = n + 1
  <2>1. PICK a, b : a = SubSeq(ps, 1, k) /\ b = SubSeq(ps, k + 1, n)
    OBVIOUS
  <2>2. (k + 1) - 1 = k
    BY <1>4
  <2>3. InsertAt(ps, k + 1, x) = (a \o <<x>>) \o b
    BY <1>4, <2>1, <2>2 DEF InsertAt
  <2>4. a \in Seq(T) /\ Len(a) = k /\ b \in Seq(T) /\ Len(b) = n - k
    BY <1>5, <1>6, <2>1
  <2>5. a \o <<x>> \in Seq(T) /\ Len(a \o <<x>>) = k + 1
    BY <1>3, <1>4, <2>4
  <2>6. (a \o <<x>>) \o b \in Seq(T) /\ Len((a \o <<x>>) \o b) = (k + 1) + (n - k)
    BY <1>4, <2>4, <2>5
  <2>7. (k + 1) + (n - k) = n + 1
    BY <1>4
  <2> QED
    BY <2>3, <2>6, <2>7
<1>9. Append(ps, x) \in Seq(T)
  BY <1>2, <1>3
<1> QED
  BY <1>3, <1>4, <1>7, <1>8, <1>9 DEF Listed

LEMMA DeletePlateKeeps ==
    ASSUME EditInv, Stacks, NEW k \in DOMAIN plates, DeletePlate(k)
    PROVE  EditInv'
<1>1. PICK at \in SUBSET DOMAIN models : at = DOMAIN models \ OnPlate(plates[k])
  OBVIOUS
<1>2. models' = Sub(at) /\ PushUndo /\ User /\ Still /\ fresh' = fresh /\ plates' = RemoveAt(plates, k)
  BY <1>1 DEF DeletePlate, Update
<1>3. Listed(plates')
  BY <1>2, ListedParts DEF EditInv
<1> QED
  BY <1>2, <1>3, SubKeeps

\* Models are added at the end of what is left of the scene.
LEMMA JoinKeeps ==
    ASSUME EditInv, Stacks, PushUndo, saved' = saved, sliced' = sliced, steps' \in Nat,
           fresh' \in Nat, fresh <= fresh', pending' \subseteq pending, Listed(plates'),
           NEW base, Sound(base, fresh), \A i \in DOMAIN base : \E j \in DOMAIN models : base[i] = models[j],
           NEW more, Sound(more, fresh'), models' = base \o more,
           \A i \in DOMAIN models, k \in DOMAIN more : Apart(models[i], more[k]),
           \A k \in DOMAIN more : Origin(more[k].id, fresh, pending \ pending')
    PROVE  EditInv'
<1>1. Sound(base, fresh')
  BY PresentIsSound, SoundLater
<1>2. \A i \in DOMAIN base, k \in DOMAIN more : Apart(base[i], more[k])
  OBVIOUS
<1>3. Sound(models', fresh')
  BY <1>1, <1>2, SoundMore
<1>4. ASSUME NEW i \in DOMAIN models'
      PROVE  Origin(models'[i].id, fresh, pending \ pending')
  <2>1. \/ i \in DOMAIN base /\ models'[i] = base[i]
        \/ \E k \in DOMAIN more : models'[i] = more[k]
    BY <1>1, <1>2, <1>4, SoundMore
  <2>2. CASE i \in DOMAIN base /\ models'[i] = base[i]
    BY <2>2 DEF Origin
  <2>3. CASE \E k \in DOMAIN more : models'[i] = more[k]
    BY <2>3
  <2> QED
    BY <2>1, <2>2, <2>3
<1> QED
  BY <1>3, <1>4, EditKeeps

LEMMA One ==
    ASSUME NEW f, NEW m, Good(m, f)
    PROVE  Sound(<<m>>, f) /\ DOMAIN <<m>> = {1} /\ <<m>>[1] = m
<1>1. <<m>> \in Seq({m}) /\ DOMAIN <<m>> = {1} /\ <<m>>[1] = m
  OBVIOUS
<1> QED
  BY <1>1 DEF Sound

\* A copy has the id of the one it was made of, and its kind and links with it.
LEMMA CopyKeeps ==
    ASSUME EditInv, Stacks, NEW i \in DOMAIN models, NEW plate, NEW s, Duplicate(i, plate, s)
    PROVE  EditInv'
<1>1. PICK m : m = [models[i] EXCEPT !.uid = fresh, !.plate = plate]
  OBVIOUS
<1>2. /\ DOMAIN m = Fields /\ m.uid = fresh /\ m.id = models[i].id /\ m.kind = models[i].kind
      /\ m.links = models[i].links /\ m.count = models[i].count /\ m.back = models[i].back
  BY <1>1, PresentIsSound DEF Good, Fields
<1>3. /\ PushUndo /\ saved' = saved /\ sliced' = sliced /\ steps' \in Nat /\ fresh' = fresh + 1
      /\ pending' = pending /\ plates' = plates /\ models' = Append(models, m)
  BY <1>1, UserSteps DEF Duplicate, Append1, Update, Still, uploads, Fresh
<1>4. Good(m, fresh')
  BY <1>2, <1>3, PresentIsSound DEF Good
<1>5. PICK M : models \in Seq(M)
  BY PresentIsSound DEF Sound
<1>6. models' = models \o <<m>>
  BY <1>3, <1>5
<1>7. ASSUME NEW j \in DOMAIN models
      PROVE  Apart(models[j], m)
  <2>1. models[j].uid # m.uid
    BY <1>2, PresentIsSound DEF Good
  <2>2. Instance(models[j]) # Instance(m)
    BY <2>1 DEF Instance
  <2>3. CASE j = i
    BY <1>2, <2>2, <2>3, PresentIsSound DEF Apart, Good
  <2>4. CASE j # i
    <3>1. Apart(models[j], models[i])
      BY <2>4, PresentIsSound DEF Sound
    <3> QED
      BY <1>2, <2>2, <3>1 DEF Apart
  <2> QED
    BY <2>3, <2>4
<1>8. Sound(<<m>>, fresh') /\ DOMAIN <<m>> = {1} /\ <<m>>[1] = m
  BY <1>4, One
<1>9. Listed(plates') /\ fresh \in Nat /\ fresh' \in Nat /\ fresh <= fresh' /\ Sound(models, fresh)
  BY <1>3, PresentIsSound DEF EditInv
<1>10. Origin(m.id, fresh, pending \ pending')
  BY <1>2 DEF Origin
<1>11. PICK more : more = <<m>>
  OBVIOUS
<1>12. /\ Sound(more, fresh') /\ models' = models \o more
       /\ \A j \in DOMAIN models, k \in DOMAIN more : Apart(models[j], more[k])
       /\ \A k \in DOMAIN more : Origin(more[k].id, fresh, pending \ pending')
  BY <1>6, <1>7, <1>8, <1>10, <1>11
<1> QED
  BY <1>3, <1>9, <1>12, JoinKeeps

\* The copies of a plate get ids of their own.
LEMMA DuplicatePlateKeeps ==
    ASSUME EditInv, Stacks, NEW p \in DOMAIN plates, DuplicatePlate(p)
    PROVE  EditInv'
<1> DEFINE src == Sub(OnPlate(plates[p]))
           new(l) == SelectInSeq(Reverse(src), LAMBDA m : m.id = l)
           copied(l) == IF new(l) = 0 THEN l ELSE <<fresh, Len(src) + 1 - new(l)>>
           Copy(k) == [src[k] EXCEPT !.id = <<fresh, k>>, !.plate = Plate(fresh),
                                     !.links = {copied(l) : l \in @}]
           more == [k \in DOMAIN src |-> Copy(k)]
<1>2. /\ PushUndo /\ saved' = saved /\ sliced' = sliced /\ steps' \in Nat /\ fresh' = fresh + 1
      /\ pending' = pending /\ plates' = InsertAt(plates, p + 1, Plate(fresh))
      /\ models' = models \o more
  <2>1. models' = models \o more
    BY DEF DuplicatePlate, Update
  <2> HIDE DEF more
  <2> QED
    BY <2>1, UserSteps DEF DuplicatePlate, Update, Still, uploads, Fresh
<1>3. Sound(src, fresh)
  BY PresentIsSound, SoundSub DEF OnPlate
<1> HIDE DEF src
<1>4. PICK n \in Nat : DOMAIN src = 1..n
  <2>1. PICK M : src \in Seq(M)
    BY <1>3 DEF Sound
  <2> QED
    BY <2>1
<1> HIDE DEF copied
<1>5. ASSUME NEW k \in DOMAIN src
      PROVE  /\ DOMAIN Copy(k) = Fields /\ Copy(k).uid = src[k].uid /\ Copy(k).id = <<fresh, k>>
             /\ Copy(k).kind = src[k].kind /\ Copy(k).links = {copied(l) : l \in src[k].links}
             /\ Copy(k).count = src[k].count /\ Copy(k).back = src[k].back
  BY <1>3 DEF Sound, Good, Fields
<1> HIDE DEF Copy
<1>6. ASSUME NEW k \in DOMAIN src
      PROVE  Good(Copy(k), fresh')
  <2>1. Good(src[k], fresh) /\ fresh \in Nat
    BY <1>3, PresentIsSound DEF Sound
  <2>2. Copy(k).kind = "model" => Copy(k).links = {}
    BY <1>5, <2>1 DEF Good
  <2>3. Copy(k).id[1] = fresh
    BY <1>5
  <2> QED
    BY <1>2, <1>5, <2>1, <2>2, <2>3 DEF Good
<1>7. ASSUME NEW a \in DOMAIN src, NEW b \in DOMAIN src, a # b
      PROVE  Apart(Copy(a), Copy(b))
  <2>1. <<fresh, a>> # <<fresh, b>>
    BY <1>7
  <2> QED
    BY <1>5, <2>1 DEF Apart, Instance
<1>8. ASSUME NEW i \in DOMAIN models, NEW k \in DOMAIN src
      PROVE  Apart(models[i], Copy(k))
  <2>1. models[i].id[1] # fresh /\ Copy(k).id[1] = fresh
    BY <1>5, PresentIsSound DEF Good
  <2>2. models[i].id # Copy(k).id
    BY <2>1
  <2> QED
    BY <2>2 DEF Apart, Instance
<1>9. more \in Seq({more[k] : k \in 1..n}) /\ DOMAIN more = DOMAIN src
  BY <1>4, SeqOfValues
<1>10. Sound(more, fresh')
  BY <1>6, <1>7, <1>9 DEF Sound
<1>11. \A k \in DOMAIN more : Origin(more[k].id, fresh, pending \ pending')
  BY <1>5, PresentIsSound DEF Origin
<1>12. \A i \in DOMAIN models, k \in DOMAIN more : Apart(models[i], more[k])
  BY <1>8
<1>13. Listed(plates')
  BY <1>2, ListedParts DEF EditInv
<1>14. fresh \in Nat /\ fresh' \in Nat /\ fresh <= fresh' /\ Sound(models, fresh)
  BY <1>2, PresentIsSound
<1> HIDE DEF more
<1> QED
  BY <1>2, <1>10, <1>11, <1>12, <1>13, <1>14, JoinKeeps

\* What an answer brings stands apart from what is there.
LEMMA NewApart ==
    ASSUME EditInv, NEW u \in pending, NEW i \in DOMAIN models, NEW m, m.id \in Brought(u)
    PROVE  Apart(models[i], m)
<1>1. models[i].id # m.id
  BY DEF EditInv, Scenes
<1> QED
  BY <1>1 DEF Apart, Instance

LEMMA NewModel ==
    ASSUME NEW uid, NEW id, NEW plate
    PROVE  LET m == New(uid, id, plate)
           IN /\ DOMAIN m = Fields /\ m.uid = uid /\ m.id = id /\ m.kind = "model" /\ m.links = {}
              /\ m.count = 1
BY DEF New, Fields

LEMMA AnswerGives ==
    ASSUME EditInv, NEW u \in pending, Answered(u)
    PROVE  /\ saved' = saved /\ sliced' = sliced /\ steps' \in Nat /\ steps' = steps
           /\ pending' \subseteq pending
           /\ pending \ pending' = {u} /\ \A x \in Brought(u) : Origin(x, fresh, pending \ pending')
           /\ u.id \in Nat /\ u.id < fresh /\ (u.kind = "cut" => u.id + 1 < fresh)
<1>1. pending' = pending \ {u} /\ saved' = saved /\ sliced' = sliced /\ steps' = steps
  BY DEF Answered
<1>2. pending \ pending' = {u}
  BY <1>1
<1>3. \A x \in Brought(u) : Origin(x, fresh, pending \ pending')
  BY <1>2 DEF Origin
<1>4. Awaited(u, fresh) /\ steps \in Nat
  BY DEF EditInv
<1> QED
  BY <1>1, <1>2, <1>3, <1>4 DEF Awaited

\* Models with ids of an answer and uids of their own join the scene.
LEMMA AnswerJoins ==
    ASSUME EditInv, Stacks, PushUndo, NEW u \in pending, Answered(u), Listed(plates'),
           fresh' \in Nat, fresh <= fresh',
           NEW base, Sound(base, fresh), \A i \in DOMAIN base : \E j \in DOMAIN models : base[i] = models[j],
           NEW more, Sound(more, fresh'), models' = base \o more,
           \A k \in DOMAIN more : more[k].id \in Brought(u)
    PROVE  EditInv'
<1>1. \A i \in DOMAIN models, k \in DOMAIN more : Apart(models[i], more[k])
  BY NewApart
<1>2. \A k \in DOMAIN more : Origin(more[k].id, fresh, pending \ pending')
  BY AnswerGives
<1> QED
  BY <1>1, <1>2, AnswerGives, JoinKeeps

\* A sequence of new models, all uids different.
LEMMA SoundNew ==
    ASSUME NEW f \in Nat, NEW more, \E M : more \in Seq(M),
           \A k \in DOMAIN more : Good(more[k], f),
           \A k, l \in DOMAIN more : k # l => more[k].uid # more[l].uid,
           \A k \in DOMAIN more : more[k].links \subseteq {more[k].id}
    PROVE  Sound(more, f)
<1>1. \A k, l \in DOMAIN more : k # l => Instance(more[k]) # Instance(more[l])
  BY DEF Instance
<1> QED
  BY <1>1 DEF Sound, Apart

LEMMA ArriveKeeps ==
    ASSUME EditInv, Stacks, NEW u \in pending, Arrive(u)
    PROVE  EditInv' /\ Len(models') >= Len(models) /\ \A i \in DOMAIN models : models'[i] = models[i]
<1> DEFINE children == Files[u.file].children
           parent == New(fresh, <<u.id>>, u.plate)
           Child(c) == [New(fresh + c, <<u.id>>, u.plate) EXCEPT !.kind = children[c], !.links = {<<u.id>>}]
           kids == [c \in DOMAIN children |-> Child(c)]
<1>1. models' = (models \o <<parent>>) \o kids
  BY DEF Arrive, Update
<1>2. /\ PushUndo /\ Answered(u) /\ u.kind \in {"upload", "import"} /\ plates' = plates
      /\ fresh' = fresh + (1 + Len(children))
  BY DEF Arrive, Update, Fresh
<1>3. children \in Seq({"part", "negative"})
  BY <1>2, EditorAssumption DEF EditInv, Awaited
<1>4. PICK n \in Nat : n = Len(children) /\ DOMAIN children = 1..n
  BY <1>3
<1>5. /\ fresh \in Nat /\ fresh' \in Nat /\ fresh <= fresh' /\ fresh + n < fresh' /\ Sound(models, fresh)
      /\ u.id \in Nat /\ u.id < fresh
  <2>1. fresh \in Nat /\ Sound(models, fresh)
    BY PresentIsSound
  <2>2. fresh' = fresh + (1 + n)
    BY <1>2, <1>4
  <2>3. fresh' \in Nat /\ fresh <= fresh' /\ fresh + n < fresh'
    BY <2>1, <2>2
  <2>4. u.id \in Nat /\ u.id < fresh
    BY <1>2, AnswerGives
  <2> QED
    BY <2>1, <2>3, <2>4
<1>6. Brought(u) = {<<u.id>>}
  BY <1>2 DEF Brought
<1>7. \A c \in 1..n : children[c] # "model"
  BY <1>3, <1>4
<1> HIDE DEF children
<1>8. ASSUME NEW c \in 1..n
      PROVE  /\ DOMAIN Child(c) = Fields /\ Child(c).uid = fresh + c /\ Child(c).id = <<u.id>>
             /\ Child(c).kind # "model" /\ Child(c).links = {<<u.id>>} /\ Child(c).count = 1
  BY <1>7 DEF New, Fields
<1>9. DOMAIN kids = 1..n
  BY <1>4
<1> HIDE DEF Child
<1>10. kids \in Seq({kids[c] : c \in 1..n}) /\ Len(kids) = n
  BY <1>4, <1>9, SeqOfValues
<1>11. \A c \in 1..n : kids[c] = Child(c)
  BY <1>4
<1> HIDE DEF kids
<1>12. /\ DOMAIN parent = Fields /\ parent.uid = fresh /\ parent.id = <<u.id>> /\ parent.kind = "model"
       /\ parent.links = {} /\ parent.count = 1
  BY NewModel
<1> HIDE DEF parent
<1> DEFINE more == <<parent>> \o kids
<1>13. PICK M : kids \in Seq(M) /\ <<parent>> \in Seq(M) /\ models \in Seq(M)
  <2>1. PICK A : models \in Seq(A)
    BY <1>5 DEF Sound
  <2>2. PICK B : kids \in Seq(B)
    BY <1>10
  <2>3. PICK C : C = (A \union B) \union {parent}
    OBVIOUS
  <2> QED
    BY <2>1, <2>2, <2>3
<1>14. /\ more \in Seq(M) /\ DOMAIN more = 1..(n + 1) /\ more[1] = parent
       /\ \A k \in 2..(n + 1) : k - 1 \in 1..n /\ more[k] = kids[k - 1]
  <2>1. parent \in M
    BY <1>13
  <2> QED
    BY <1>10, <1>13, <2>1, Ahead
<1>15. models' = models \o more
  BY <1>1, <1>13
<1> HIDE DEF more
<1>16. ASSUME NEW k \in DOMAIN more
       PROVE  more[k].uid = fresh + (k - 1) /\ more[k].id = <<u.id>> /\ Good(more[k], fresh')
                /\ more[k].links \subseteq {<<u.id>>}
  <2>1. CASE k = 1
    BY <1>5, <1>12, <1>14, <2>1 DEF Good
  <2>2. CASE k # 1
    <3>1. PICK c \in 1..n : c = k - 1 /\ more[k] = Child(c)
      BY <1>11, <1>14, <2>2
    <3> QED
      BY <1>5, <1>8, <3>1 DEF Good
  <2> QED
    BY <2>1, <2>2
<1>17. \A k, l \in DOMAIN more : k # l => more[k].uid # more[l].uid
  BY <1>5, <1>14, <1>16
<1>18. Sound(more, fresh')
  BY <1>5, <1>14, <1>16, <1>17, SoundNew
<1>19. \A k \in DOMAIN more : more[k].id \in Brought(u)
  BY <1>6, <1>16
<1>20. Listed(plates')
  BY <1>2 DEF EditInv
<1>21. \A i \in DOMAIN models : \E j \in DOMAIN models : models[i] = models[j]
  OBVIOUS
<1>22. EditInv'
  BY <1>2, <1>5, <1>15, <1>18, <1>19, <1>20, <1>21, AnswerJoins
<1>23. Len(models') >= Len(models) /\ \A i \in DOMAIN models : models'[i] = models[i]
  BY <1>13, <1>14, <1>15
<1> QED
  BY <1>22, <1>23

LEMMA Prefix ==
    ASSUME NEW A, NEW ms \in Seq(A), NEW B, NEW more \in Seq(B)
    PROVE  Len(ms \o more) >= Len(ms) /\ \A i \in DOMAIN ms : (ms \o more)[i] = ms[i]
<1>1. PICK M : M = A \union B
  OBVIOUS
<1>2. ms \in Seq(M) /\ more \in Seq(M)
  BY <1>1
<1> QED
  BY <1>2

LEMMA ArrivePlatesKeeps ==
    ASSUME EditInv, Stacks, NEW u \in pending, ArrivePlates(u)
    PROVE  EditInv' /\ Len(models') >= Len(models) /\ \A i \in DOMAIN models : models'[i] = models[i]
<1> DEFINE n == Files[u.file].plates
           Back(k) == [New(fresh + k - 1, <<u.id>>, Plate(fresh + k - 1)) EXCEPT !.count = n, !.back = k]
           more == [k \in 1..n |-> Back(k)]
           ids == [k \in 1..n |-> Plate(fresh + k - 1)]
<1>1. models' = models \o more /\ plates' = plates \o ids
  BY DEF ArrivePlates, Update
<1>2. PushUndo /\ Answered(u) /\ u.kind \in {"upload", "import"} /\ fresh' = fresh + n
  BY DEF ArrivePlates, Update, Fresh
<1>3. n \in Nat \ {0}
  BY <1>2, EditorAssumption DEF EditInv, Awaited
<1> HIDE DEF n
<1>4. fresh \in Nat /\ Sound(models, fresh) /\ u.id \in Nat /\ u.id < fresh
  BY <1>2, PresentIsSound, AnswerGives
<1>5. fresh' \in Nat /\ fresh <= fresh'
  BY <1>2, <1>3, <1>4
<1>6. Brought(u) = {<<u.id>>}
  BY <1>2 DEF Brought
<1>7. ASSUME NEW k \in 1..n
      PROVE  /\ DOMAIN Back(k) = Fields /\ Back(k).uid = fresh + k - 1 /\ Back(k).id = <<u.id>>
             /\ Back(k).links = {} /\ Back(k).count = n /\ Back(k).back = k
  BY DEF New, Fields
<1> HIDE DEF Back
<1>8. more \in Seq({more[k] : k \in 1..n}) /\ DOMAIN more = 1..n
  BY <1>3, SeqOfValues
<1>9. ids \in Seq({ids[k] : k \in 1..n})
  BY <1>3, SeqOfValues
<1>10. \A k \in 1..n : /\ DOMAIN more[k] = Fields /\ more[k].uid = fresh + k - 1
                        /\ more[k].id = <<u.id>> /\ more[k].links = {}
                        /\ more[k].count = n /\ more[k].back = k
  BY <1>7
<1> HIDE DEF more, ids
<1>11. ASSUME NEW k \in 1..n
       PROVE  Good(more[k], fresh')
  <2>1. fresh + k - 1 \in Nat /\ fresh + k - 1 < fresh'
    BY <1>2, <1>3, <1>4
  <2> QED
    BY <1>3, <1>4, <1>5, <1>10, <2>1 DEF Good
<1>12. \A k, l \in DOMAIN more : k # l => more[k].uid # more[l].uid
  BY <1>3, <1>4, <1>8, <1>10
<1>13. Sound(more, fresh')
  <2>1. \A k \in DOMAIN more : Good(more[k], fresh')
    BY <1>8, <1>11
  <2>2. \A k \in DOMAIN more : more[k].links \subseteq {more[k].id}
    BY <1>8, <1>10
  <2> QED
    BY <1>5, <1>8, <1>12, <2>1, <2>2, SoundNew
<1>14. \A k \in DOMAIN more : more[k].id \in Brought(u)
  BY <1>6, <1>8, <1>10
<1>15. Listed(plates')
  <2>1. PICK A : plates \in Seq(A)
    BY DEF EditInv, Listed
  <2>2. PICK B : ids \in Seq(B)
    BY <1>9
  <2>3. PICK C : C = A \union B
    OBVIOUS
  <2>4. plates \in Seq(C) /\ ids \in Seq(C)
    BY <2>1, <2>2, <2>3
  <2> QED
    BY <1>1, <2>4 DEF Listed
<1>16. EditInv'
  BY <1>1, <1>2, <1>4, <1>5, <1>13, <1>14, <1>15, AnswerJoins
<1>17. Len(models') >= Len(models) /\ \A i \in DOMAIN models : models'[i] = models[i]
  BY <1>1, <1>4, <1>8, Prefix DEF Sound
<1> QED
  BY <1>16, <1>17

LEMMA ArriveVolumeKeeps ==
    ASSUME EditInv, Stacks, NEW u \in pending, ArriveVolume(u)
    PROVE  EditInv' /\ Len(models') >= Len(models) /\ \A i \in DOMAIN models : models'[i] = models[i]
<1>1. PICK m : m = [New(fresh, <<u.id>>, u.plate) EXCEPT !.kind = u.kind, !.links = u.links]
  OBVIOUS
<1>2. /\ DOMAIN m = Fields /\ m.uid = fresh /\ m.id = <<u.id>> /\ m.kind = u.kind /\ m.count = 1
  BY <1>1 DEF New, Fields
<1>3. /\ PushUndo /\ Answered(u) /\ u.kind \in {"negative", "support"} /\ plates' = plates
      /\ fresh' = fresh + 1 /\ models' = Append(models, m)
  BY <1>1 DEF ArriveVolume, Append1, Update, Fresh
<1>4. fresh \in Nat /\ Sound(models, fresh) /\ u.id \in Nat /\ u.id < fresh
  BY <1>3, PresentIsSound, AnswerGives
<1>5. fresh' \in Nat /\ fresh < fresh'
  BY <1>3, <1>4
<1>6. Brought(u) = {<<u.id>>}
  BY <1>3 DEF Brought
<1>7. Good(m, fresh')
  BY <1>2, <1>3, <1>4, <1>5 DEF Good
<1>8. PICK more : more = <<m>>
  OBVIOUS
<1>9. Sound(more, fresh') /\ DOMAIN more = {1} /\ more[1] = m
  BY <1>7, <1>8, One
<1>10. PICK M : models \in Seq(M)
  BY <1>4 DEF Sound
<1>11. models' = models \o more
  BY <1>3, <1>8, <1>10
<1>12. \A k \in DOMAIN more : more[k].id \in Brought(u)
  BY <1>2, <1>6, <1>9
<1>13. Listed(plates')
  BY <1>3 DEF EditInv
<1>14. EditInv'
  <2>1. \A i \in DOMAIN models : \E j \in DOMAIN models : models[i] = models[j]
    OBVIOUS
  <2>2. PushUndo /\ Answered(u) /\ fresh <= fresh' /\ Sound(more, fresh')
    BY <1>3, <1>4, <1>5, <1>9
  <2> QED
    BY <1>4, <1>5, <1>11, <1>12, <1>13, <2>1, <2>2, AnswerJoins
<1>15. Len(models') >= Len(models) /\ \A i \in DOMAIN models : models'[i] = models[i]
  BY <1>9, <1>10, <1>11, Prefix DEF Sound
<1> QED
  BY <1>14, <1>15

LEMMA Concat ==
    ASSUME NEW M, NEW a \in Seq(M), NEW b \in Seq(M), NEW m \in Nat, m = Len(a), NEW n \in Nat, n = Len(b)
    PROVE  /\ a \o b \in Seq(M) /\ Len(a \o b) = m + n
           /\ \A i \in (m + 1)..(m + n) : (a \o b)[i] = b[i - m]
OBVIOUS

LEMMA SoundRemoveAt ==
    ASSUME NEW f, NEW ms, Sound(ms, f), NEW x \in DOMAIN ms
    PROVE  Sound(RemoveAt(ms, x), f) /\ \A i \in DOMAIN RemoveAt(ms, x) : \E j \in DOMAIN ms : RemoveAt(ms, x)[i] = ms[j]
<1>1. PICK M : ms \in Seq(M)
  BY DEF Sound
<1>2. PICK n \in Nat : n = Len(ms) /\ DOMAIN ms = 1..n
  BY <1>1
<1>3. PICK rest : rest = RemoveAt(ms, x)
  OBVIOUS
<1>4. PICK a, b : a = SubSeq(ms, 1, x - 1) /\ b = SubSeq(ms, x + 1, n)
  OBVIOUS
<1>5. /\ a \in Seq(M) /\ Len(a) = x - 1 /\ \A i \in 1..(x - 1) : a[i] = ms[i]
      /\ b \in Seq(M) /\ Len(b) = n - x /\ \A i \in 1..(n - x) : b[i] = ms[i + x]
  <2>1. a \in Seq(M) /\ Len(a) = x - 1
    BY <1>1, <1>2, <1>4
  <2>2. b \in Seq(M) /\ Len(b) = n - x
    BY <1>1, <1>2, <1>4
  <2>3. \A i \in 1..(x - 1) : a[i] = ms[i]
    BY <1>1, <1>2, <1>4
  <2>4. \A i \in 1..(n - x) : b[i] = ms[i + x]
    BY <1>1, <1>2, <1>4
  <2> QED
    BY <2>1, <2>2, <2>3, <2>4
<1>6. rest = a \o b
  BY <1>2, <1>3, <1>4 DEF RemoveAt
<1>7. /\ rest \in Seq(M) /\ DOMAIN rest = 1..(n - 1)
      /\ \A i \in 1..(n - 1) : rest[i] = IF i < x THEN ms[i] ELSE ms[i + 1]
  <2>0. x - 1 \in Nat /\ n - x \in Nat
    BY <1>2
  <2>1. /\ rest \in Seq(M) /\ Len(rest) = (x - 1) + (n - x)
        /\ \A i \in ((x - 1) + 1)..((x - 1) + (n - x)) : rest[i] = b[i - (x - 1)]
    <3>1. PICK c \in Nat, d \in Nat : c = x - 1 /\ d = n - x
      BY <2>0
    <3>2. a \in Seq(M) /\ b \in Seq(M) /\ c = Len(a) /\ d = Len(b)
      BY <1>5, <3>1
    <3>3. /\ a \o b \in Seq(M) /\ Len(a \o b) = c + d
          /\ \A i \in (c + 1)..(c + d) : (a \o b)[i] = b[i - c]
      BY <3>2, Concat
    <3> QED
      BY <1>6, <3>1, <3>3, Zenon
  <2>2. DOMAIN rest = 1..(n - 1)
    BY <1>2, <2>1
  <2>3. ASSUME NEW i \in 1..(n - 1), i < x
        PROVE  rest[i] = ms[i]
    BY <1>2, <1>5, <1>6, <2>3
  <2>4. ASSUME NEW i \in 1..(n - 1), ~(i < x)
        PROVE  rest[i] = ms[i + 1]
    <3>1. i - (x - 1) \in 1..(n - x) /\ (i - (x - 1)) + x = i + 1
      BY <1>2, <2>4
    <3>2. rest[i] = b[i - (x - 1)]
      <4>1. i \in ((x - 1) + 1)..((x - 1) + (n - x))
        BY <1>2, <2>4
      <4> QED
        BY <2>1, <4>1
    <3> QED
      BY <1>5, <3>1, <3>2
  <2> QED
    BY <2>1, <2>2, <2>3, <2>4
<1> DEFINE At(i) == IF i < x THEN i ELSE i + 1
<1>8. \A i \in 1..(n - 1) : At(i) \in 1..n /\ rest[i] = ms[At(i)]
  BY <1>2, <1>7
<1>9. \A i, j \in 1..(n - 1) : i # j => At(i) # At(j)
  BY <1>2
<1> HIDE DEF At
<1>10. Sound(rest, f)
  <2>1. \A i \in 1..(n - 1) : Good(rest[i], f)
    BY <1>2, <1>8 DEF Sound
  <2>2. ASSUME NEW i \in 1..(n - 1), NEW j \in 1..(n - 1), i # j
        PROVE  Apart(rest[i], rest[j])
    <3>1. Apart(ms[At(i)], ms[At(j)])
      BY <1>2, <1>8, <1>9, <2>2 DEF Sound
    <3> QED
      BY <1>8, <3>1
  <2> QED
    BY <1>7, <2>1, <2>2 DEF Sound
<1> QED
  BY <1>2, <1>3, <1>7, <1>8, <1>10

LEMMA ArriveCutKeeps ==
    ASSUME EditInv, Stacks, NEW u \in pending, ArriveCut(u)
    PROVE  EditInv'
<1>1. PICK base : base = IF u.index \in DOMAIN models THEN RemoveAt(models, u.index) ELSE models
  OBVIOUS
<1>2. PICK p, q : p = New(fresh, <<u.id>>, u.plate) /\ q = New(fresh + 1, <<u.id + 1>>, u.plate)
  OBVIOUS
<1>3. /\ PushUndo /\ Answered(u) /\ u.kind = "cut" /\ plates' = plates
      /\ fresh' = fresh + 2 /\ models' = base \o <<p, q>>
  BY <1>1, <1>2 DEF ArriveCut, Update, Fresh
<1>4. fresh \in Nat /\ Sound(models, fresh) /\ u.id \in Nat /\ u.id + 1 < fresh
  BY <1>3, PresentIsSound, AnswerGives
<1>5. fresh' \in Nat /\ fresh + 1 < fresh' /\ fresh <= fresh'
  BY <1>3, <1>4
<1>6. Brought(u) = {<<u.id>>, <<u.id + 1>>}
  BY <1>3 DEF Brought
<1>7. /\ DOMAIN p = Fields /\ p.uid = fresh /\ p.id = <<u.id>> /\ p.links = {} /\ p.count = 1
      /\ DOMAIN q = Fields /\ q.uid = fresh + 1 /\ q.id = <<u.id + 1>> /\ q.links = {} /\ q.count = 1
  BY <1>2, NewModel
<1>8. Good(p, fresh') /\ Good(q, fresh')
  BY <1>4, <1>5, <1>7 DEF Good
<1>9. PICK more : more = <<p, q>>
  OBVIOUS
<1>10. more \in Seq({p, q}) /\ DOMAIN more = {1, 2} /\ more[1] = p /\ more[2] = q
  BY <1>9
<1>11. \A k, l \in DOMAIN more : k # l => more[k].uid # more[l].uid
  BY <1>4, <1>7, <1>10
<1>12. Sound(more, fresh')
  BY <1>5, <1>7, <1>8, <1>10, <1>11, SoundNew
<1>13. \A k \in DOMAIN more : more[k].id \in Brought(u)
  BY <1>6, <1>7, <1>10
<1>14. Sound(base, fresh) /\ \A i \in DOMAIN base : \E j \in DOMAIN models : base[i] = models[j]
  BY <1>1, <1>4, SoundRemoveAt
<1>15. Listed(plates')
  BY <1>3 DEF EditInv
<1> QED
  BY <1>3, <1>4, <1>5, <1>9, <1>12, <1>13, <1>14, <1>15, AnswerJoins

\* Steps that add nothing to the scenes.
LEMMA SameScenes ==
    ASSUME UNCHANGED <<models, history, saved>>
    PROVE  Scenes' = Scenes
BY DEF Scenes, history

LEMMA PlainKeeps ==
    ASSUME EditInv, steps' \in Nat, fresh' \in Nat, fresh <= fresh', pending' \subseteq pending,
           UNCHANGED <<models, history, saved, sliced>>, Listed(plates')
    PROVE  EditInv'
<1>1. Scenes' \subseteq Scenes \union {<<>>} /\ saved' = saved
  BY SameScenes
<1> QED
  BY <1>1, RestKeeps DEF EditInv

LEMMA PlateStepKeeps ==
    ASSUME EditInv, Stacks, AddPlate \/ (\E k \in DOMAIN plates : SelectPlate(k) \/
                \E l \in DOMAIN plates : ReorderPlates(k, l)) \/ SelectNone
    PROVE  EditInv'
<1>1. steps' \in Nat /\ UNCHANGED <<models, history, saved, sliced, pending>>
  BY UserSteps DEF AddPlate, SelectPlate, ReorderPlates, SelectNone, Still, uploads
<1>2. fresh \in Nat /\ fresh' \in Nat /\ fresh <= fresh'
  BY PresentIsSound DEF AddPlate, SelectPlate, ReorderPlates, SelectNone, Fresh
<1>3. Listed(plates')
  <2>1. CASE AddPlate
    <3>1. PICK S : plates \in Seq(S)
      BY DEF EditInv, Listed
    <3>2. PICK T : T = S \union {Plate(fresh)}
      OBVIOUS
    <3>3. Append(plates, Plate(fresh)) \in Seq(T)
      BY <3>1, <3>2
    <3> QED
      BY <2>1, <3>3 DEF AddPlate, Listed
  <2>2. ASSUME NEW k \in DOMAIN plates, NEW l \in DOMAIN plates, ReorderPlates(k, l)
        PROVE  Listed(plates')
    <3>1. PICK rest : rest = RemoveAt(plates, k)
      OBVIOUS
    <3>2. PICK S : plates \in Seq(S)
      BY DEF EditInv, Listed
    <3>3. PICK m \in Nat : m = Len(plates) /\ k \in 1..m /\ l \in 1..m
      BY <3>2
    <3>4. Listed(rest) /\ Len(rest) = m - 1
      BY <3>1, <3>3, ListedParts DEF EditInv
    <3>5. PICK T : rest \in Seq(T) /\ <<plates[k]>> \in Seq(T)
      <4>1. PICK A : rest \in Seq(A)
        BY <3>4 DEF Listed
      <4>2. PICK B : B = A \union {plates[k]}
        OBVIOUS
      <4> QED
        BY <4>1, <4>2
    <3>6. PICK a, b, x : a = SubSeq(rest, 1, l - 1) /\ b = SubSeq(rest, l, m - 1) /\ x = <<plates[k]>>
      OBVIOUS
    <3>7. a \in Seq(T) /\ b \in Seq(T) /\ x \in Seq(T)
      BY <3>3, <3>4, <3>5, <3>6
    <3>8. plates' = (a \o x) \o b
      BY <2>2, <3>1, <3>4, <3>6 DEF ReorderPlates, InsertAt
    <3>9. a \o x \in Seq(T)
      BY <3>7
    <3>10. plates' \in Seq(T)
      BY <3>7, <3>8, <3>9
    <3> QED
      BY <3>10 DEF Listed
  <2>3. CASE plates' = plates
    BY <2>3 DEF EditInv
  <2> QED
    BY <2>1, <2>2, <2>3 DEF SelectPlate, SelectNone
<1> QED
  BY <1>1, <1>2, <1>3, PlainKeeps

LEMMA SelectKeeps ==
    ASSUME EditInv, NEW i, NEW additive, SelectInList(i, additive) \/ SelectInView(i, additive)
    PROVE  EditInv'
<1>1. steps' \in Nat /\ UNCHANGED <<models, history, saved, sliced, pending, fresh, plates>>
  BY UserSteps DEF SelectInList, SelectInView, Still, uploads
<1>2. Listed(plates') /\ fresh \in Nat
  BY <1>1 DEF EditInv
<1> QED
  BY <1>1, <1>2, PlainKeeps

LEMMA ClearKeeps ==
    ASSUME EditInv, ClearAll
    PROVE  EditInv'
<1>1. /\ steps' \in Nat /\ fresh' = fresh + 1 /\ UNCHANGED <<history, saved, sliced, pending>>
      /\ models' = <<>> /\ plates' = <<Plate(fresh)>>
  BY UserSteps DEF ClearAll, Still, uploads, Fresh
<1>2. Scenes' \subseteq Scenes \union {<<>>}
  BY <1>1 DEF Scenes, history
<1>3. <<Plate(fresh)>> \in Seq({Plate(fresh)})
  OBVIOUS
<1>4. Listed(plates') /\ (saved' # <<>> => Listed(saved'[1].plates)) /\ fresh \in Nat
  BY <1>1, <1>3 DEF EditInv, Listed
<1> QED
  BY <1>1, <1>2, <1>4, RestKeeps

LEMMA HistoryStep ==
    ASSUME EditInv, Stacks, Undo \/ Redo
    PROVE  EditInv'
<1>1. PICK S : undo \in Seq(S) /\ redo \in Seq(S)
  BY DEF Stacks
<1>2. /\ steps' \in Nat /\ UNCHANGED <<plates, fresh, saved, sliced, pending>>
  BY UserSteps DEF Undo, Redo, Still, uploads
<1>3. ASSUME NEW s \in Seq(S), s # <<>>
      PROVE  /\ \E j \in DOMAIN s : Last(s) = s[j]
             /\ \A i \in DOMAIN Front(s) : \E j \in DOMAIN s : Front(s)[i] = s[j]
  <2>1. PICK n \in Nat : n = Len(s) - 1 /\ DOMAIN s = 1..(n + 1)
    BY <1>3
  <2>2. Last(s) = s[n + 1] /\ n + 1 \in DOMAIN s
    BY <2>1 DEF Last
  <2>3. Front(s) = SubSeq(s, 1, n)
    BY <2>1 DEF Front
  <2>4. \A i \in DOMAIN Front(s) : i \in DOMAIN s /\ Front(s)[i] = s[i]
    BY <2>1, <2>3
  <2> QED
    BY <2>2, <2>4
<1>4. ASSUME NEW s \in Seq(S)
      PROVE  \A i \in DOMAIN Append(s, models) :
                Append(s, models)[i] = models \/ \E j \in DOMAIN s : Append(s, models)[i] = s[j]
  <2>1. PICK T : T = S \union {models}
    OBVIOUS
  <2>2. s \in Seq(T) /\ models \in T
    BY <2>1
  <2> QED
    BY <2>2
<1>5. Scenes' \subseteq Scenes
  <2>1. CASE Undo
    <3>1. undo # <<>> /\ redo' = Append(redo, models) /\ models' = Last(undo) /\ undo' = Front(undo)
      BY <2>1 DEF Undo
    <3> QED
      BY <1>1, <1>2, <1>3, <1>4, <3>1 DEF Scenes
  <2>2. CASE Redo
    <3>1. redo # <<>> /\ undo' = Append(undo, models) /\ models' = Last(redo) /\ redo' = Front(redo)
      BY <2>2 DEF Redo
    <3> QED
      BY <1>1, <1>2, <1>3, <1>4, <3>1 DEF Scenes
  <2> QED
    BY <2>1, <2>2
<1>6. Listed(plates') /\ (saved' # <<>> => Listed(saved'[1].plates)) /\ fresh \in Nat
  BY <1>2 DEF EditInv
<1> QED
  BY <1>2, <1>5, <1>6, RestKeeps

LEMMA PageKeeps ==
    ASSUME EditInv, Save \/ Reload \/ \E u \in pending : UploadFails(u)
    PROVE  EditInv'
<1>1. CASE Save
  <2>1. /\ saved' = <<[plates |-> plates, active |-> active, models |-> models, selected |-> selected]>>
        /\ UNCHANGED <<plates, models, undo, redo, fresh, sliced, pending, steps>>
    BY <1>1 DEF Save, scene, history, uploads
  <2>2. saved'[1].models = models /\ saved'[1].plates = plates
    BY <2>1
  <2>3. Scenes' \subseteq Scenes \union {<<>>}
    BY <2>1, <2>2 DEF Scenes
  <2>4. Listed(plates') /\ Listed(saved'[1].plates) /\ steps' \in Nat /\ fresh \in Nat
    BY <2>1, <2>2 DEF EditInv
  <2> QED
    BY <2>1, <2>3, <2>4, RestKeeps
<1>2. CASE Reload
  <2>1. /\ saved # <<>> /\ plates' = saved[1].plates /\ models' = saved[1].models
        /\ undo' = <<>> /\ redo' = <<>> /\ pending' = {} /\ UNCHANGED <<saved, fresh, sliced>>
    BY <1>2 DEF Reload
  <2>2. Scenes' \subseteq Scenes \union {<<>>}
    BY <2>1 DEF Scenes
  <2>3. Listed(plates') /\ Listed(saved'[1].plates) /\ fresh \in Nat /\ steps' \in Nat
    BY <1>2, <2>1, UserSteps DEF EditInv, Reload
  <2> QED
    BY <2>1, <2>2, <2>3, RestKeeps
<1>3. ASSUME NEW u \in pending, UploadFails(u)
      PROVE  EditInv'
  <2>1. UNCHANGED <<plates, models, history, saved, fresh, steps, sliced>> /\ pending' \subseteq pending
    BY <1>3 DEF UploadFails, Answered, scene
  <2>2. Listed(plates') /\ fresh \in Nat /\ steps' \in Nat
    BY <2>1 DEF EditInv
  <2> QED
    BY <2>1, <2>2, PlainKeeps
<1> QED
  BY <1>1, <1>2, <1>3

LEMMA UploadStarts ==
    ASSUME EditInv, StartCut \/ (\E f \in DOMAIN Files, b \in BOOLEAN : StartUpload(f, b) \/ StartImport(f))
                    \/ (\E i \in DOMAIN models, kind \in {"negative", "support"} : StartVolume(i, kind))
    PROVE  EditInv'
<1>1. fresh \in Nat
  BY PresentIsSound
<1>2. CASE StartCut
  <2>1. PICK v : v = [kind |-> "cut", file |-> "simple", links |-> {}, index |-> ActiveIndex,
                      plate |-> active, len |-> cutLen, id |-> fresh]
    OBVIOUS
  <2>2. v.kind = "cut" /\ v.id = fresh
    BY <2>1
  <2>3. /\ steps' \in Nat /\ UNCHANGED <<scene, history, saved, sliced>>
        /\ pending' = pending \union {v} /\ fresh' = fresh + 2
    BY <1>2, <2>1, UserSteps DEF StartCut, Fresh
  <2> QED
    BY <1>1, <2>2, <2>3, StartKeeps
<1>3. ASSUME NEW f \in DOMAIN Files, NEW b \in BOOLEAN, StartUpload(f, b) \/ StartImport(f)
      PROVE  EditInv'
  <2>1. PICK v : v = IF StartImport(f) THEN Upload("import", f, active)
                     ELSE Upload("upload", f, IF b THEN uploadScope.plate ELSE active)
    OBVIOUS
  <2>2. v.kind \in {"upload", "import"} /\ v.id = fresh /\ v.file = f
    BY <2>1 DEF Upload
  <2>3. /\ steps' \in Nat /\ UNCHANGED <<scene, history, saved, sliced>>
        /\ pending' = pending \union {v} /\ fresh' = fresh + 1
    BY <1>3, <2>1, UserSteps DEF StartUpload, StartImport, Fresh
  <2> QED
    BY <1>1, <2>2, <2>3, StartKeeps
<1>4. ASSUME NEW i \in DOMAIN models, NEW kind \in {"negative", "support"}, StartVolume(i, kind)
      PROVE  EditInv'
  <2> DEFINE parent == models[SelectInSeq(models, LAMBDA m : m.id = models[i].id)]
             v == [kind |-> kind, file |-> "simple", links |-> {parent.id}, index |-> 0,
                   plate |-> parent.plate, len |-> Len(models), id |-> fresh]
  <2>1. pending' = pending \union {v}
    BY <1>4 DEF StartVolume
  <2>2. v.kind = kind /\ v.id = fresh
    OBVIOUS
  <2> HIDE DEF v
  <2>3. /\ steps' \in Nat /\ UNCHANGED <<scene, history, saved, sliced>> /\ fresh' = fresh + 1
    BY <1>4, UserSteps DEF StartVolume, Fresh
  <2> QED
    BY <1>1, <2>1, <2>2, <2>3, StartKeeps
<1> QED
  BY <1>2, <1>3, <1>4

LEMMA SliceKeeps ==
    ASSUME EditInv, NEW p, SlicePlate(p)
    PROVE  EditInv'
<1> DEFINE at == {i \in OnPlate(p) : models[i].visible}
           visible == Sub(at)
           first == visible[1]
           place == IF p \in ToSet(plates) THEN CHOOSE k \in DOMAIN plates : plates[k] = p ELSE 1
           index == IF first.back # 0 THEN first.back
                    ELSE IF \E m \in ToSet(visible) : m.count > 1 THEN place ELSE 0
           request == [models |-> visible, plateIndex |-> index]
<1>1. sliced' = <<request>> /\ visible # <<>>
  BY DEF SlicePlate
<1>2. at \subseteq DOMAIN models
  BY DEF OnPlate
<1> HIDE DEF at
<1>3. Sound(visible, fresh)
  BY <1>2, PresentIsSound, SoundSub
<1> HIDE DEF visible
<1>4. 1 \in DOMAIN visible
  BY <1>1, <1>3 DEF Sound
<1>5. first.count > 1 => first.back \in 1..first.count
  BY <1>3, <1>4 DEF Sound, Good
<1> HIDE DEF place
<1>6. request.models = visible /\ request.plateIndex = index
  OBVIOUS
<1>7. ASSUME first.count > 1
      PROVE  index = first.back /\ index \in 1..first.count
  BY <1>5, <1>7
<1> HIDE DEF index, request
<1>8. \A r \in ToSet(sliced') : r = request
  BY <1>1 DEF ToSet
<1>9. SlicesOwnPlate'
  BY <1>6, <1>7, <1>8 DEF SlicesOwnPlate
<1>10. UNCHANGED <<models, plates, undo, redo, saved, pending, fresh>> /\ steps' \in Nat
  BY UserSteps DEF SlicePlate, scene, history, uploads
<1>11. Scenes' = Scenes
  BY <1>10 DEF Scenes
<1> QED
  BY <1>9, <1>10, <1>11 DEF EditInv

LEMMA EditInit == Init => EditInv
<1> SUFFICES ASSUME Init PROVE EditInv
  OBVIOUS
<1>1. /\ plates = <<Plate(0)>> /\ models = <<>> /\ undo = <<>> /\ redo = <<>> /\ saved = <<>>
      /\ pending = {} /\ fresh = 1 /\ steps = 0 /\ sliced = <<>>
  BY DEF Init
<1>2. Scenes = {<<>>}
  BY <1>1 DEF Scenes
<1>3. <<Plate(0)>> \in Seq({Plate(0)})
  OBVIOUS
<1>4. SlicesOwnPlate
  BY <1>1 DEF SlicesOwnPlate, ToSet
<1> QED
  BY <1>1, <1>2, <1>3, <1>4, SoundEmpty DEF EditInv, Listed

LEMMA EditNext ==
    ASSUME EditInv, Stacks, [Next]_vars
    PROVE  EditInv'
<1>1. CASE UNCHANGED vars
  <2>1. UNCHANGED <<plates, models, undo, redo, saved, pending, fresh, steps, sliced>>
    BY <1>1 DEF vars, scene, history, uploads
  <2>2. UNCHANGED <<models, history, saved, sliced>> /\ pending' \subseteq pending
    BY <2>1 DEF history
  <2>3. Listed(plates') /\ steps' \in Nat /\ fresh \in Nat /\ fresh' = fresh
    BY <2>1 DEF EditInv
  <2> QED
    BY <2>2, <2>3, PlainKeeps
<1>2. CASE Act
  <2>1. CASE AddPlate \/ ClearAll \/ Undo \/ Redo \/ SelectNone \/ StartCut \/ Save \/ Reload
    BY <2>1, PlateStepKeeps, ClearKeeps, HistoryStep, UploadStarts, PageKeeps
  <2>2. ASSUME NEW k \in DOMAIN plates,
               \/ SelectPlate(k) \/ DuplicatePlate(k) \/ DeletePlate(k)
               \/ \E l \in DOMAIN plates : ReorderPlates(k, l)
        PROVE  EditInv'
    BY <2>2, PlateStepKeeps, DuplicatePlateKeeps, DeletePlateKeeps
  <2>3. ASSUME NEW indices, Transform(indices)
        PROVE  EditInv'
    BY <2>3, TransformKeeps
  <2>4. ASSUME NEW i \in DOMAIN models, NEW additive \in BOOLEAN,
               SelectInList(i, additive) \/ SelectInView(i, additive)
        PROVE  EditInv'
    BY <2>4, SelectKeeps
  <2>5. ASSUME NEW i \in DOMAIN models, ToggleVisible(i) \/ RemoveModel(i)
        PROVE  EditInv'
    BY <2>5, ToggleKeeps, RemoveModelKeeps
  <2>6. ASSUME NEW i \in DOMAIN models, NEW plate, NEW s, MoveToPlate(i, plate) \/ Duplicate(i, plate, s)
        PROVE  EditInv'
    BY <2>6, MoveKeeps, CopyKeeps
  <2>7. ASSUME NEW i \in DOMAIN models, NEW kind \in {"negative", "support"}, StartVolume(i, kind)
        PROVE  EditInv'
    BY <2>7, UploadStarts
  <2>8. ASSUME NEW f \in DOMAIN Files, NEW b \in BOOLEAN, StartUpload(f, b) \/ StartImport(f)
        PROVE  EditInv'
    BY <2>8, UploadStarts
  <2>9. ASSUME NEW u \in pending, Arrive(u) \/ ArrivePlates(u) \/ ArriveVolume(u) \/ ArriveCut(u) \/ UploadFails(u)
        PROVE  EditInv'
    BY <2>9, ArriveKeeps, ArrivePlatesKeeps, ArriveVolumeKeeps, ArriveCutKeeps, PageKeeps
  <2>10. ASSUME NEW p, SlicePlate(p)
         PROVE  EditInv'
    BY <2>10, SliceKeeps
  <2> QED
    BY <1>2, <2>1, <2>2, <2>3, <2>4, <2>5, <2>6, <2>7, <2>8, <2>9, <2>10 DEF Act
<1> QED
  BY <1>1, <1>2 DEF Next

-----------------------------------------------------------------------------
(* What a step does to the scene                                               *)

LEMMA AnswersAdd ==
    ASSUME EditInv, Stacks, [Next]_vars,
           NEW u \in pending, u \notin pending', steps' = steps, u.kind # "cut"
    PROVE  Len(models') >= Len(models) /\ \A i \in DOMAIN models : models'[i] = models[i]
<1>1. Act
  BY DEF Next, vars, uploads
<1>2. ~User
  BY UserSteps
<1>3. Save \/ \E v \in pending : Arrive(v) \/ ArrivePlates(v) \/ ArriveVolume(v) \/ ArriveCut(v) \/ UploadFails(v)
  <2>1. ASSUME NEW k \in DOMAIN plates,
               \/ SelectPlate(k) \/ DuplicatePlate(k) \/ DeletePlate(k)
               \/ \E l \in DOMAIN plates : ReorderPlates(k, l)
        PROVE  User
    BY <2>1 DEF SelectPlate, DuplicatePlate, DeletePlate, ReorderPlates
  <2>2. ASSUME NEW i \in DOMAIN models,
               \/ \E additive \in BOOLEAN : SelectInList(i, additive) \/ SelectInView(i, additive)
               \/ ToggleVisible(i) \/ RemoveModel(i)
               \/ \E s \in BOOLEAN : Duplicate(i, models[i].plate, s)
               \/ \E k \in DOMAIN plates : MoveToPlate(i, plates[k]) \/ Duplicate(i, plates[k], TRUE)
               \/ \E kind \in {"negative", "support"} : StartVolume(i, kind)
        PROVE  User
    BY <2>2 DEF SelectInList, SelectInView, ToggleVisible, RemoveModel, Duplicate, MoveToPlate, StartVolume
  <2>3. AddPlate \/ ClearAll \/ Undo \/ Redo \/ SelectNone \/ StartCut \/ Reload => User
    BY DEF AddPlate, ClearAll, Undo, Redo, SelectNone, StartCut, Reload
  <2>4. \A indices : Transform(indices) => User
    BY DEF Transform
  <2>5. \A f, b : StartUpload(f, b) \/ StartImport(f) => User
    BY DEF StartUpload, StartImport
  <2>6. \A p : SlicePlate(p) => User
    BY DEF SlicePlate
  <2> QED
    BY <1>1, <1>2, <2>1, <2>2, <2>3, <2>4, <2>5, <2>6 DEF Act
<1>4. CASE Save
  BY <1>4 DEF Save, uploads
<1>5. ASSUME NEW v \in pending, Arrive(v) \/ ArrivePlates(v) \/ ArriveVolume(v)
      PROVE  Len(models') >= Len(models) /\ \A i \in DOMAIN models : models'[i] = models[i]
  BY <1>5, ArriveKeeps, ArrivePlatesKeeps, ArriveVolumeKeeps
<1>6. ASSUME NEW v \in pending, ArriveCut(v)
      PROVE  FALSE
  BY <1>6 DEF ArriveCut, Answered
<1>7. ASSUME NEW v \in pending, UploadFails(v)
      PROVE  Len(models') >= Len(models) /\ \A i \in DOMAIN models : models'[i] = models[i]
  <2>1. models' = models
    BY <1>7 DEF UploadFails, scene
  <2>2. PICK M : models \in Seq(M)
    BY PresentIsSound DEF Sound
  <2> QED
    BY <2>1, <2>2
<1> QED
  BY <1>3, <1>4, <1>5, <1>6, <1>7

AlikeScenes ==
    models' = [i \in DOMAIN models |-> models'[i]] /\ \A i \in DOMAIN models : Alike(models[i], models'[i])

\* An edit on the present plates leaves the models alike, adds a copy, or removes some.
LEMMA Edits ==
    ASSUME EditInv, Stacks, Act, Edited, plates' = plates
    PROVE  \/ models' = models
           \/ models' = <<>> /\ selected' = {}
           \/ AlikeScenes
           \/ \E m : models' = Append(models, m)
           \/ \E i \in DOMAIN models : RemoveModel(i)
<1>1. PICK S : undo \in Seq(S) /\ redo \in Seq(S)
  BY DEF Stacks
<1>2. ~Undo /\ ~Redo /\ ~Reload
  <2>1. ASSUME Undo PROVE FALSE
    <3>1. PICK T : T = S \union {models}
      OBVIOUS
    <3>2. redo \in Seq(T) /\ models \in T
      BY <1>1, <3>1
    <3>3. Append(redo, models) # <<>>
      BY <3>2
    <3> QED
      BY <2>1, <3>3 DEF Undo, Edited
  <2> QED
    BY <2>1 DEF Redo, Reload, Edited
<1>3. CASE AddPlate \/ SelectNone \/ StartCut \/ Save
  BY <1>3 DEF AddPlate, SelectNone, StartCut, Save, scene
<1>4. CASE ClearAll
  BY <1>4 DEF ClearAll
<1>5. ASSUME NEW k \in DOMAIN plates, SelectPlate(k) \/ \E l \in DOMAIN plates : ReorderPlates(k, l)
      PROVE  models' = models
  BY <1>5 DEF SelectPlate, ReorderPlates, scene
<1>6. ASSUME NEW k \in DOMAIN plates, DuplicatePlate(k) \/ DeletePlate(k)
      PROVE  FALSE
  <2>1. plates' = InsertAt(plates, k + 1, Plate(fresh)) \/ plates' = RemoveAt(plates, k)
    BY <1>6 DEF DuplicatePlate, DeletePlate
  <2>2. Len(plates') # Len(plates)
    <3>1. /\ Len(RemoveAt(plates, k)) = Len(plates) - 1
          /\ Len(InsertAt(plates, k + 1, Plate(fresh))) = Len(plates) + 1 /\ Len(plates) \in Nat
      BY ListedParts DEF EditInv
    <3> QED
      BY <2>1, <3>1
  <2> QED
    BY <2>2
<1>7. ASSUME NEW indices, Transform(indices)
      PROVE  AlikeScenes
  <2>1. models' = [i \in DOMAIN models |->
                    IF i \in indices THEN [models[i] EXCEPT !.pose = 1 - @] ELSE models[i]]
    BY <1>7 DEF Transform, Update
  <2>2. \A i \in DOMAIN models : Alike(models[i], models'[i])
    BY <2>1, PresentIsSound DEF Good, Fields, Alike
  <2>3. models' = [i \in DOMAIN models |-> models'[i]]
    BY <2>1
  <2> QED
    BY <2>2, <2>3 DEF AlikeScenes
<1>8. ASSUME NEW i \in DOMAIN models, ToggleVisible(i)
      PROVE  AlikeScenes
  <2>1. models' = [models EXCEPT ![i].visible = ~@]
    BY <1>8 DEF ToggleVisible, Update
  <2>2. \A j \in DOMAIN models : Alike(models[j], models'[j])
    BY <2>1, PresentIsSound DEF Good, Fields, Alike
  <2>3. models' = [j \in DOMAIN models |-> models'[j]]
    BY <2>1
  <2> QED
    BY <2>2, <2>3 DEF AlikeScenes
<1>9. ASSUME NEW i \in DOMAIN models, NEW plate, MoveToPlate(i, plate)
      PROVE  AlikeScenes
  <2>1. models' = [models EXCEPT ![i].plate = plate, ![i].pose = 0]
    BY <1>9 DEF MoveToPlate, Update
  <2>2. \A j \in DOMAIN models : Alike(models[j], models'[j])
    BY <2>1, PresentIsSound DEF Good, Fields, Alike
  <2>3. models' = [j \in DOMAIN models |-> models'[j]]
    BY <2>1
  <2> QED
    BY <2>2, <2>3 DEF AlikeScenes
<1>10. ASSUME NEW i \in DOMAIN models, NEW plate, NEW s, Duplicate(i, plate, s)
       PROVE  \E m : models' = Append(models, m)
  BY <1>10 DEF Duplicate, Append1, Update
<1>11. ASSUME NEW i \in DOMAIN models,
              \/ \E additive \in BOOLEAN : SelectInList(i, additive) \/ SelectInView(i, additive)
              \/ \E kind \in {"negative", "support"} : StartVolume(i, kind)
       PROVE  models' = models
  BY <1>11 DEF SelectInList, SelectInView, StartVolume, scene
<1>12. ASSUME NEW f, NEW b, StartUpload(f, b) \/ StartImport(f)
       PROVE  models' = models
  BY <1>12 DEF StartUpload, StartImport, scene
<1>13. ASSUME NEW u \in pending,
              Arrive(u) \/ ArrivePlates(u) \/ ArriveVolume(u) \/ ArriveCut(u) \/ UploadFails(u)
       PROVE  FALSE
  <2>1. pending' = pending \ {u}
    BY <1>13 DEF Arrive, ArrivePlates, ArriveVolume, ArriveCut, UploadFails, Answered
  <2> QED
    BY <2>1 DEF Edited
<1>14. ASSUME NEW p, SlicePlate(p)
       PROVE  models' = models
  BY <1>14 DEF SlicePlate, scene
<1> QED
  BY <1>14, <1>2, <1>3, <1>4, <1>5, <1>6, <1>7, <1>8, <1>9, <1>10, <1>11, <1>12, <1>13 DEF Act

LEMMA ModelsAre ==
    ASSUME NEW ms, NEW f, Sound(ms, f)
    PROVE  ToSet(ms) = {ms[i] : i \in DOMAIN ms}
BY DEF ToSet

\* What is removed with a parent is all that hangs from it.
LEMMA RemovalLeavesNoOrphan ==
    ASSUME EditInv, NEW i \in DOMAIN models, RemoveModel(i),
           NEW k \in DOMAIN models', NEW l \in models'[k].links,
           NEW a \in DOMAIN models, models[a].id = l, models[a].kind = "model"
    PROVE  \E c \in DOMAIN models' : models'[c].id = l
<1> DEFINE at == DOMAIN models \ RemovedWith(i)
<1>1. models' = Sub(at)
  BY DEF RemoveModel, Update
<1>2. PICK b \in at : models'[k] = models[b]
  BY <1>1, SubOrigin
<1>3. PICK M : models \in Seq(M)
  BY PresentIsSound DEF Sound
<1>4. ASSUME NEW x \in at
      PROVE  \E c \in DOMAIN models' : models'[c] = models[x]
  <2>1. /\ IsFiniteSet(at) /\ at \subseteq Int
    BY <1>3, Indices
  <2>2. Rank(at, x) \in 1..Cardinality(at)
    BY <2>1, RankOnto
  <2> HIDE DEF at
  <2>3. at \in SUBSET DOMAIN models
    BY DEF at
  <2>4. /\ DOMAIN Sub(at) = 1..Cardinality(at)
        /\ \E r \in [1..Cardinality(at) -> at] :
                /\ \A j \in 1..Cardinality(at) : Sub(at)[j] = models[r[j]]
                /\ \A j \in at : r[Rank(at, j)] = j
    BY <1>3, <2>3, SubModels
  <2> QED
    BY <1>1, <2>2, <2>4
<1>5. CASE a \in at
  BY <1>4, <1>5
<1>6. CASE a \notin at
  <2>1. models[i].kind = "model" /\ (a = i \/ \E c \in DOMAIN models : models[i].id \in models[c].links /\ models[c].id = models[a].id)
    BY <1>6 DEF RemovedWith, ToSet
  <2>2. models[i].id = l
    <3>1. CASE a = i
      BY <3>1
    <3>2. ASSUME NEW c \in DOMAIN models, models[i].id \in models[c].links, models[c].id = models[a].id
          PROVE  models[i].id = l
      <4>1. CASE c = a
        BY <3>2, <4>1, PresentIsSound DEF Good
      <4>2. CASE c # a
        <5>1. Apart(models[a], models[c])
          BY <4>2, PresentIsSound DEF Sound
        <5> QED
          BY <3>2, <5>1 DEF Apart
      <4> QED
        BY <4>1, <4>2
    <3> QED
      BY <2>1, <3>1, <3>2
  <2>3. b \in RemovedWith(i)
    BY <1>2, <2>1, <2>2 DEF RemovedWith, ToSet
  <2> QED
    BY <1>2, <2>3
<1> QED
  BY <1>5, <1>6


LEMMA UpTo ==
    ASSUME NEW n \in Nat
    PROVE  IsFiniteSet(1..n) /\ Cardinality(1..n) = n
BY FS_Interval

\* All but model i, and the places they close up to.
Others(n, i) == 1..n \ {i}
Place(i, x) == IF x > i THEN x - 1 ELSE x

LEMMA OthersCount ==
    ASSUME NEW n \in Nat, NEW i \in 1..n
    PROVE  IsFiniteSet(Others(n, i)) /\ Cardinality(Others(n, i)) = n - 1
<1>1. PICK all : all = 1..n
  OBVIOUS
<1>2. IsFiniteSet(all) /\ Cardinality(all) = n /\ i \in all
  BY <1>1, UpTo
<1>3. IsFiniteSet(all \ {i}) /\ Cardinality(all \ {i}) = n - 1
  BY <1>2, FS_RemoveElement
<1> QED
  BY <1>1, <1>3 DEF Others

\* What is left when model i alone goes: the models before it at their place, those
\* after it one place earlier.
LEMMA OneGone ==
    ASSUME NEW M, models \in Seq(M), NEW n \in Nat, DOMAIN models = 1..n, NEW i \in 1..n
    PROVE  /\ DOMAIN Sub(Others(n, i)) = 1..(n - 1)
           /\ \A x \in Others(n, i) :
                Place(i, x) \in 1..(n - 1) /\ Sub(Others(n, i))[Place(i, x)] = models[x]
<1>1. PICK at : at = Others(n, i)
  OBVIOUS
<1>2. Cardinality(at) = n - 1
  BY <1>1, OthersCount
<1>3. ASSUME NEW x \in at
      PROVE  Rank(at, x) = Place(i, x)
  <2>1. x \in 1..n /\ x # i
    BY <1>1 DEF Others
  <2>2. CASE x < i
    <3>1. {j \in at : j <= x} = 1..x
      BY <1>1, <2>1, <2>2 DEF Others
    <3>2. Rank(at, x) = Cardinality(1..x)
      BY <3>1, Zenon DEF Rank
    <3>3. Cardinality(1..x) = x
      BY <2>1, UpTo
    <3> QED
      BY <2>1, <2>2, <3>2, <3>3 DEF Place
  <2>3. CASE x > i
    <3>1. {j \in at : j <= x} = Others(x, i)
      BY <1>1, <2>1, <2>3 DEF Others
    <3>2. Rank(at, x) = Cardinality(Others(x, i))
      BY <3>1, Zenon DEF Rank
    <3>3. Cardinality(Others(x, i)) = x - 1
      BY <2>1, <2>3, OthersCount
    <3> QED
      BY <2>1, <2>3, <3>2, <3>3 DEF Place
  <2> QED
    BY <2>1, <2>2, <2>3
<1>4. at \in SUBSET DOMAIN models
  BY <1>1 DEF Others
<1>5. DOMAIN Sub(at) = 1..(n - 1) /\ \A x \in at : Rank(at, x) \in 1..(n - 1)
  BY <1>2, <1>4, Indices, RankOnto, SubModels
<1>6. \E r \in [1..Cardinality(at) -> at] :
         /\ \A k \in 1..Cardinality(at) : Sub(at)[k] = models[r[k]]
         /\ \A x \in at : r[Rank(at, x)] = x
  BY <1>4, SubModels
<1>7. \A x \in at : Place(i, x) \in 1..(n - 1) /\ Sub(at)[Place(i, x)] = models[x]
  BY <1>2, <1>3, <1>5, <1>6
<1> QED
  BY <1>1, <1>5, <1>7

LEMMA RemovalKeepsSelection ==
    ASSUME EditInv, NEW i \in DOMAIN models, RemoveModel(i),
           Len(models') = Len(models) - 1, selected \subseteq DOMAIN models
    PROVE  /\ selected' \subseteq DOMAIN models'
           /\ {Instance(models'[j]) : j \in selected'}
                = {Instance(models[j]) : j \in selected} \cap Instances(models')
<1>1. PICK M : models \in Seq(M)
  BY PresentIsSound DEF Sound
<1>2. PICK n \in Nat : n = Len(models) /\ DOMAIN models = 1..n
  BY <1>1
<1>3. PICK left \in SUBSET DOMAIN models : left = DOMAIN models \ RemovedWith(i)
  OBVIOUS
<1>4. PICK at : at = Others(n, i)
  OBVIOUS
<1>5. models' = Sub(left) /\ selected' = {Place(i, j) : j \in selected \ {i}}
  BY <1>3 DEF RemoveModel, Update, Place
<1>6. left \in SUBSET at
  BY <1>2, <1>3, <1>4 DEF RemovedWith, Others
<1>7. Cardinality(left) = n - 1
  BY <1>1, <1>2, <1>5, SubModels
<1>8. left = at
  BY <1>2, <1>4, <1>6, <1>7, OthersCount, FS_Subset
<1>9. /\ DOMAIN models' = 1..(n - 1)
      /\ \A x \in at : Place(i, x) \in 1..(n - 1) /\ models'[Place(i, x)] = models[x]
  BY <1>1, <1>2, <1>4, <1>5, <1>8, OneGone
<1>10. selected \ {i} \subseteq at
  BY <1>2, <1>4 DEF Others
<1>11. selected' \subseteq DOMAIN models'
  BY <1>5, <1>9, <1>10
<1>12. {Instance(models'[j]) : j \in selected'} = {Instance(models[j]) : j \in selected \ {i}}
  BY <1>5, <1>9, <1>10
<1>13. Instances(models') = {Instance(models[x]) : x \in at}
  <2>1. \A k \in 1..(n - 1) : \E x \in at : models'[k] = models[x]
    <3>1. \A k \in DOMAIN Sub(left) : \E x \in left : Sub(left)[k] = models[x]
      BY SubOrigin
    <3> QED
      BY <1>5, <1>8, <1>9, <3>1
  <2>2. \A x \in at : \E k \in 1..(n - 1) : models'[k] = models[x]
    BY <1>9
  <2>3. Instances(models') = {Instance(models'[k]) : k \in 1..(n - 1)}
    BY <1>9 DEF Instances, ToSet
  <2> QED
    BY <2>1, <2>2, <2>3
<1>14. \A x \in at : Instance(models[x]) # Instance(models[i])
  BY <1>2, <1>4, PresentIsSound DEF Sound, Apart, Others
<1>15. {Instance(models[j]) : j \in selected \ {i}}
            = {Instance(models[j]) : j \in selected} \cap {Instance(models[x]) : x \in at}
  BY <1>10, <1>14
<1> QED
  BY <1>11, <1>12, <1>13, <1>15

-----------------------------------------------------------------------------
(* The theorems                                                                *)

LEMMA BothInit == Init => HistoryInv /\ EditInv
BY InitKeeps, EditInit

LEMMA BothStep == HistoryInv /\ EditInv /\ [Next]_vars => (HistoryInv /\ EditInv)'
<1> SUFFICES ASSUME HistoryInv, EditInv, [Next]_vars
             PROVE  HistoryInv' /\ EditInv'
  OBVIOUS
<1>1. HistoryInv'
  BY StepKeeps
<1>2. Stacks
  BY DEF HistoryInv
<1> QED
  BY <1>1, <1>2, EditNext

\* Every scene the page shows or can bring back, by an undo, a redo or a new page, is
\* sound: no model is there twice, what has the id of a model hangs from it, no id is
\* one the client has still to hand out or to be answered (App.tsx, updateModels,
\* handleUndo, the copy in localStorage, addModelToProject).
THEOREM EditInvariant == Spec => [](HistoryInv /\ EditInv)
BY BothInit, BothStep, PTL DEF Spec

\* Every model has a row in the list of its plate (ObjectList.tsx, buildHierarchy).
THEOREM AllListedAlways == Spec => []AllListed
<1>1. HistoryInv /\ EditInv => AllListed
  BY PresentIsSound, ListedInSequence DEF Sound
<1> QED
  BY <1>1, EditInvariant, PTL

\* A plate that holds one model of a file with several plates is sliced as that plate
\* of the file (App.tsx, buildSliceBody).
THEOREM SlicesOwnPlateAlways == Spec => []SlicesOwnPlate
<1>1. HistoryInv /\ EditInv => SlicesOwnPlate
  BY DEF EditInv
<1> QED
  BY <1>1, EditInvariant, PTL

LEMMA AnswerStep ==
    HistoryInv /\ EditInv /\ [Next]_vars =>
        [\A u \in pending : (u \notin pending' /\ steps' = steps /\ u.kind # "cut") =>
            /\ Len(models') >= Len(models)
            /\ \A i \in DOMAIN models : models'[i] = models[i]]_vars
BY AnswersAdd DEF HistoryInv

\* An answer that arrives late keeps the models the user has made and changed since
\* (App.tsx, addModelToProject: the setter takes the models of the moment).
THEOREM LateAnswersKeepWorkAlways == Spec => LateAnswersKeepWork
BY AnswerStep, EditInvariant, PTL DEF Spec, LateAnswersKeepWork

\* Whatever the edit, what hangs from a parent still has its parent, or goes with it.
LEMMA OrphanStep ==
    ASSUME HistoryInv, EditInv, Act, Edited, plates' = plates,
           NEW m \in ToSet(models'), NEW l \in m.links,
           NEW p \in ToSet(models), p.id = l, p.kind = "model"
    PROVE  \E q \in ToSet(models') : q.id = l
<1>1. PICK a \in DOMAIN models : p = models[a]
  BY DEF ToSet
<1>2. PICK k \in DOMAIN models' : m = models'[k]
  BY DEF ToSet
<1>3. SUFFICES \E c \in DOMAIN models' : models'[c].id = l
  BY DEF ToSet
<1>4. CASE models' = models
  BY <1>1, <1>4
<1>5. CASE models' = <<>>
  BY <1>2, <1>5
<1>6. CASE AlikeScenes
  <2>1. DOMAIN models' = DOMAIN models
    BY <1>6 DEF AlikeScenes
  <2> QED
    BY <1>1, <1>6, <2>1 DEF AlikeScenes, Alike
<1>7. ASSUME NEW x, models' = Append(models, x)
      PROVE  \E c \in DOMAIN models' : models'[c].id = l
  <2>1. PICK M : models \in Seq(M)
    BY PresentIsSound DEF Sound
  <2>2. a \in DOMAIN models' /\ models'[a] = models[a]
    BY <1>7, <2>1
  <2> QED
    BY <1>1, <2>2
<1>8. ASSUME NEW i \in DOMAIN models, RemoveModel(i)
      PROVE  \E c \in DOMAIN models' : models'[c].id = l
  <2>1. l \in models'[k].links /\ models[a].id = l /\ models[a].kind = "model"
    BY <1>1, <1>2
  <2> QED
    BY <1>8, <2>1, RemovalLeavesNoOrphan
<1> QED
  BY <1>4, <1>5, <1>6, <1>7, <1>8, Edits DEF HistoryInv

LEMMA NoOrphanStep ==
    HistoryInv /\ EditInv /\ [Next]_vars =>
        [(Edited /\ plates' = plates) =>
            \A m \in ToSet(models') : \A l \in m.links :
                (\E p \in ToSet(models) : p.id = l /\ p.kind = "model") =>
                    \E p \in ToSet(models') : p.id = l]_vars
<1> SUFFICES ASSUME HistoryInv, EditInv, Next, Edited, plates' = plates,
                    NEW m \in ToSet(models'), NEW l \in m.links,
                    NEW p \in ToSet(models), p.id = l, p.kind = "model"
             PROVE  \E q \in ToSet(models') : q.id = l
  OBVIOUS
<1>1. Act
  BY DEF Next
<1> QED
  BY <1>1, OrphanStep

\* No edit on the plates there are leaves a part, a cut or a support behind whose parent
\* it has removed (App.tsx, handleRemoveModel).
THEOREM NoOrphanLeftAlways == Spec => NoOrphanLeft
BY NoOrphanStep, EditInvariant, PTL DEF Spec, NoOrphanLeft

LEMMA SelectionStep ==
    ASSUME HistoryInv, EditInv, Act, Edited, plates' = plates,
           Len(models') = Len(models) - 1, selected \subseteq DOMAIN models
    PROVE  /\ selected' \subseteq DOMAIN models'
           /\ {Instance(models'[j]) : j \in selected'}
                = {Instance(models[j]) : j \in selected} \intersect Instances(models')
<1>1. PICK M : models \in Seq(M)
  BY PresentIsSound DEF Sound
<1>2. PICK n \in Nat : n = Len(models) /\ DOMAIN models = 1..n
  BY <1>1
<1>3. models' # models
  BY <1>2
<1>4. CASE models' = <<>> /\ selected' = {}
  BY <1>4 DEF Instances, ToSet
<1>5. CASE AlikeScenes
  <2>1. Len(models') = n
    BY <1>2, <1>5, SeqOfValues DEF AlikeScenes
  <2> QED
    BY <1>2, <2>1
<1>6. ASSUME NEW x, models' = Append(models, x)
      PROVE  FALSE
  <2>1. PICK T : T = M \union {x}
    OBVIOUS
  <2>2. models \in Seq(T) /\ x \in T
    BY <1>1, <2>1
  <2>3. Len(models') = n + 1
    BY <1>2, <1>6, <2>2
  <2> QED
    BY <1>2, <2>3
<1> QED
  BY <1>3, <1>4, <1>5, <1>6, Edits, RemovalKeepsSelection DEF HistoryInv

LEMMA SelectionFollowsStep ==
    HistoryInv /\ EditInv /\ [Next]_vars =>
        [(Edited /\ plates' = plates /\ Len(models') = Len(models) - 1 /\ selected \subseteq DOMAIN models) =>
            /\ selected' \subseteq DOMAIN models'
            /\ {Instance(models'[j]) : j \in selected'}
                = {Instance(models[j]) : j \in selected} \intersect Instances(models')]_vars
<1> SUFFICES ASSUME HistoryInv, EditInv, Next, Edited, plates' = plates,
                    Len(models') = Len(models) - 1, selected \subseteq DOMAIN models
             PROVE  /\ selected' \subseteq DOMAIN models'
                    /\ {Instance(models'[j]) : j \in selected'}
                         = {Instance(models[j]) : j \in selected} \intersect Instances(models')
  OBVIOUS
<1>1. Act
  BY DEF Next
<1> QED
  BY <1>1, SelectionStep

\* When one model goes alone, the rest of the selection stays on the models it was on,
\* although their indices have changed (App.tsx, handleRemoveModel).
THEOREM SelectionFollowsAlways == Spec => SelectionFollows
BY SelectionFollowsStep, EditInvariant, PTL DEF Spec, SelectionFollows
=============================================================================
