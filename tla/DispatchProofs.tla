--------------------------- MODULE DispatchProofs ---------------------------
(***************************************************************************)
(* The inductive invariant of PrintDispatch.                               *)
(***************************************************************************)
EXTENDS PrintDispatch, Integers, FiniteSetTheorems, SequenceTheorems, TLAPS

----------------------------------------------------------------------------
(* Names *)

\* What a name was derived by last.
Kind(n) == IF n = Original THEN "original" ELSE n[Len(n)]

\* A name with one more step.
LEMMA Derived ==
  ASSUME NEW n \in Name, NEW s \in Step
  PROVE  /\ Append(n, s) \in Name
         /\ Append(n, s) # Original
         /\ Kind(Append(n, s)) = s
<1>1. Append(n, s) \in Name
  BY DEF Name
<1>2. Len(Append(n, s)) = Len(n) + 1 /\ Len(n) \in Nat
  BY DEF Name
<1>3. Append(n, s)[Len(n) + 1] = s
  BY DEF Name
<1>4. Append(n, s) # Original
  BY <1>2 DEF Original
<1> QED
  BY <1>1, <1>2, <1>3, <1>4 DEF Kind

LEMMA Kinds ==
  /\ Original \in Name /\ Kind(Original) = "original"
  /\ <<"extracted">> \in Name /\ <<"extracted">> # Original
  /\ Kind(<<"extracted">>) = "extracted"
  /\ \A n \in Name : Temporary(n) <=> Kind(n) \in {"mapped", "flags"}
<1>1. Original \in Name /\ Kind(Original) = "original"
  BY DEF Original, Name, Kind
<1>2. "extracted" \in Step
  BY DEF Step
<1>3. <<"extracted">> \in Name /\ Len(<<"extracted">>) = 1 /\ Len(<<>>) = 0
      /\ <<"extracted">>[1] = "extracted"
  BY <1>2 DEF Name
<1>4. <<"extracted">> # Original
  BY <1>3 DEF Original
<1>5. \A n \in Name : Temporary(n) <=> Kind(n) \in {"mapped", "flags"}
  BY DEF Temporary, Kind
<1> QED
  BY <1>1, <1>3, <1>4, <1>5 DEF Kind

LEMMA DotsFinite ==
  ASSUME NEW n \in Name
  PROVE  /\ Dots(n) \in Nat
         /\ Dots(n) = 0 <=> \A i \in DOMAIN n : n[i] # "mapped"
<1>1. DOMAIN n = 1..Len(n) /\ Len(n) \in Nat
  BY DEF Name
<1>2. IsFiniteSet(1..Len(n))
  BY <1>1, FS_Interval
<1> DEFINE D == {i \in DOMAIN n : n[i] = "mapped"}
<1>3. IsFiniteSet(D)
  BY <1>1, <1>2, FS_Subset
<1>4. Cardinality(D) \in Nat /\ (Cardinality(D) = 0 <=> D = {})
  BY <1>3, FS_CardinalityType, FS_EmptySet
<1> QED
  BY <1>4 DEF Dots

\* Without mapped files findGcodeFile takes the slicer's own file.
LEMMA FindsOriginal ==
  ASSUME NEW F, DOMAIN F \subseteq Name, Original \in DOMAIN F,
         \A n \in DOMAIN F : ~(Dots(n) > 0)
  PROVE  FindGcode(F) = Original
<1>1. \A n \in DOMAIN F : Dots(n) = 0
  BY DotsFinite
<1>2. \A n \in Name, i \in Nat : Rank(n, i) \in 0..2
  BY DEF Rank
<1>3. \A i \in Nat \ {0} : Rank(Original, i) = 0
  BY DEF Rank, Original
<1>4. ASSUME NEW m \in DOMAIN F \ {Original} PROVE Before(Original, m)
  <2>1. m \in Name /\ Len(m) \in Nat /\ Len(m) # 0
    BY <1>4 DEF Name, Original
  <2>2. m[1] # "mapped"
    BY <1>1, <2>1, DotsFinite DEF Name
  <2>3. Rank(m, 1) > 0
    BY <2>1, <2>2 DEF Rank
  <2>4. Dots(Original) = Dots(m)
    BY <1>1
  <2>5. 1 \in 1..(Len(Original) + 1)
    BY DEF Original
  <2> QED
    BY <1>3, <2>3, <2>4, <2>5 DEF Before
<1>5. ASSUME NEW n \in DOMAIN F, \A m \in DOMAIN F \ {n} : Before(n, m), n # Original
      PROVE  FALSE
  <2>1. Before(n, Original) /\ n \in Name /\ Len(n) \in Nat
    BY <1>5 DEF Name
  <2>2. PICK i \in 1..(Len(n) + 1) : Rank(n, i) < Rank(Original, i)
    BY <1>1, <2>1 DEF Before
  <2> QED
    BY <1>2, <1>3, <2>1, <2>2
<1> QED
  BY <1>4, <1>5 DEF FindGcode
----------------------------------------------------------------------------
(* The inductive invariant *)

Plain(p, k) ==
    [texts |-> {[of |-> p, plate |-> k, done |-> <<>>]}, writers |-> {}]

Files(F) ==
    /\ DOMAIN F \subseteq Name
    /\ \A n \in DOMAIN F : F[n] \in Entry(Requests)

\* The slicer's or the uploaded file is never written to.
PlaceInv(p) ==
    /\ there[p] \in {"none", "present", "removed"}
    /\ Files(file[p])
    /\ there[p] # "present" => DOMAIN file[p] = {}
    /\ p \in Outputs /\ there[p] = "present" => Original \in DOMAIN file[p]
    /\ Original \in DOMAIN file[p] =>
         file[p][Original] = Plain(p, IF p \in archive THEN 0 ELSE 1)
    /\ <<"extracted">> \in DOMAIN file[p] =>
         file[p][<<"extracted">>] = Plain(p, 1)

PlacesInv ==
    /\ there = [p \in Places |-> there[p]]
    /\ file = [p \in Places |-> file[p]]
    /\ archive \subseteq Stages
    /\ \A p \in archive : there[p] # "none"
    /\ \A p \in Places : PlaceInv(p)

\* A request in progress.
RequestOK(q) ==
    /\ q \in Request
    /\ q.at # "idle"
    /\ there[q.place] # "none"
    /\ Original \notin q.temps
    /\ q.printer \in Klippers \/ (q.mapping = NoMapping /\ ~q.flags)
    /\ q.at \in {"rewriting", "failed"} => (q.step = "mapped" <=> Maps(q))
    /\ q.at = "connecting" => q.printer \in Bambus

RequestsInv ==
    /\ req = [r \in Requests |-> req[r]]
    /\ \A r \in Active : RequestOK(req[r])

\* A file that is being written belongs to a rewriting.
Writes(s, p, n) ==
    /\ req[s].at = "rewriting"
    /\ req[s].out
    /\ req[s].place = p
    /\ n = Target(req[s])

WritersInv ==
    \A p \in Places : \A n \in DOMAIN file[p] : \A s \in file[p][n].writers :
        s \in Active /\ Writes(s, p, n)

\* What r, of value q, knows as long as no request gets in its way.  F: the
\* files of its place.
Clear(r, q, F) ==
    /\ q.at = "rewriting" /\ Maps(q) =>
         /\ \A s \in Active \ {r} : ~(Maps(req[s]) /\ req[s].place = q.place)
         /\ q.path = IF q.place \in archive THEN <<"extracted">> ELSE Original
         /\ q.in => q.text = [of |-> q.place, plate |-> 1, done |-> <<>>]
         /\ q.out /\ Target(q) \in DOMAIN F =>
              F[Target(q)].texts = {} /\ r \in F[Target(q)].writers
    /\ q.at = "connecting" => q.path = Original
    /\ q.at \in {"uploading", "starting"} => q.text = Wanted(q)

ClearInv ==
    \A r \in Active \ disturbed : Clear(r, req[r], file[req[r].place])

Inv ==
    /\ PlacesInv
    /\ RequestsInv
    /\ WritersInv
    /\ ClearInv
    /\ TempHasOwner

----------------------------------------------------------------------------
(* Texts *)

LEMMA TextTypes ==
  /\ Garbled \in Text
  /\ \A t \in Text, s \in Mappings \cup Step : Applied(t, s) \in Text
  /\ \A e \in Entry(Requests) : Content(e) \in Text
  /\ \A p \in Places, k \in 0..1 :
        [of |-> p, plate |-> k, done |-> <<>>] \in Text
<1>1. ASSUME NEW t \in Text, NEW s \in Mappings \cup Step
      PROVE  Applied(t, s) \in Text
  <2>1. CASE t = Garbled
    BY <2>1 DEF Applied, Text
  <2>2. CASE t # Garbled
    <3>1. t \in [of : Places, plate : 0..1, done : Seq(Mappings \cup Step)]
      BY <2>2 DEF Text
    <3>2. Append(t.done, s) \in Seq(Mappings \cup Step)
      BY <3>1
    <3>3. Applied(t, s) = [t EXCEPT !.done = Append(@, s)]
      BY <2>2 DEF Applied
    <3> QED
      BY <3>1, <3>2, <3>3 DEF Text
  <2> QED
    BY <2>1, <2>2
<1>2. \A e \in Entry(Requests) : Content(e) \in Text
  BY DEF Content, Entry, Text
<1>3. ASSUME NEW p \in Places, NEW k \in 0..1
      PROVE  [of |-> p, plate |-> k, done |-> <<>>] \in Text
  <2>1. <<>> \in Seq(Mappings \cup Step)
    OBVIOUS
  <2> QED
    BY <2>1 DEF Text
<1> QED
  BY <1>1, <1>2, <1>3 DEF Text

LEMMA ContentOfOne ==
  ASSUME NEW t, NEW e, e.texts = {t}, e.writers = {}
  PROVE  Content(e) = t
  BY DEF Content

\* One thing, and another, done to a plain text.
LEMMA AppliedToPlain ==
  ASSUME NEW p \in Places, NEW k \in 0..1, NEW s \in Mappings \cup Step,
         NEW u \in Mappings \cup Step
  PROVE  LET t == [of |-> p, plate |-> k, done |-> <<>>] IN
         /\ Applied(t, s) = [of |-> p, plate |-> k, done |-> <<s>>]
         /\ Applied(Applied(t, s), u) =
              [of |-> p, plate |-> k, done |-> <<s>> \o <<u>>]
<1> DEFINE Done == Seq(Mappings \cup Step)
           t == [of |-> p, plate |-> k, done |-> <<>>]
           v == [of |-> p, plate |-> k, done |-> <<s>>]
<1>1. <<>> \in Done /\ <<s>> \in Done
  OBVIOUS
<1>2. t \in [of : Places, plate : 0..1, done : Done]
      /\ v \in [of : Places, plate : 0..1, done : Done]
  BY <1>1
<1>3. t # Garbled /\ v # Garbled
  <2>1. Garbled \notin [of : Places, plate : 0..1, done : Done]
    BY DispatchAssumption
  <2> QED
    BY <1>2, <2>1
<1>4. Append(<<>>, s) = <<s>> /\ Append(<<s>>, u) = <<s>> \o <<u>>
  BY <1>1, AppendIsConcat, ConcatEmptySeq
<1>5. Applied(t, s) = v
  BY <1>3, <1>4 DEF Applied
<1>6. Applied(v, u) = [of |-> p, plate |-> k, done |-> <<s>> \o <<u>>]
  BY <1>3, <1>4 DEF Applied
<1> QED
  BY <1>5, <1>6

----------------------------------------------------------------------------
(* Operations on the files of a place *)

\* G is F but for files of the kinds K, and some that are gone.
Changed(F, G, K) ==
    /\ Files(G)
    /\ \A n \in DOMAIN G :
         Kind(n) \in K \/ (n \in DOMAIN F /\ G[n] = F[n])
    /\ Original \in DOMAIN F => Original \in DOMAIN G

LEMMA WithoutChanges ==
  ASSUME NEW F, Files(F), NEW T, Original \notin T
  PROVE  /\ DOMAIN Without(F, T) = DOMAIN F \ T
         /\ Changed(F, Without(F, T), {})
  BY DEF Without, Files, Changed

LEMMA WrittenChanges ==
  ASSUME NEW F, Files(F), NEW n \in Name, NEW t \in Text,
         n # Original
  PROVE  /\ DOMAIN Written(F, n, t) = DOMAIN F \cup {n}
         /\ Written(F, n, t)[n].texts = {t} /\ Written(F, n, t)[n].writers = {}
         /\ \A m \in DOMAIN F \ {n} : Written(F, n, t)[m] = F[m]
         /\ Changed(F, Written(F, n, t), {Kind(n)})
<1>1. [texts |-> {t}, writers |-> {}] \in Entry(Requests)
  BY DEF Entry
<1> QED
  BY <1>1 DEF Written, Put, Files, Changed

LEMMA TruncatedChanges ==
  ASSUME NEW F, Files(F), NEW n \in Name, NEW r \in Requests,
         n # Original
  PROVE  /\ DOMAIN Truncated(F, n, r) = DOMAIN F \cup {n}
         /\ Truncated(F, n, r)[n].writers =
               (IF n \in DOMAIN F THEN F[n].writers ELSE {}) \cup {r}
         /\ (n \in DOMAIN F => F[n].writers = {}) =>
               Truncated(F, n, r)[n].texts = {}
         /\ \A m \in DOMAIN F \ {n} : Truncated(F, n, r)[m] = F[m]
         /\ Changed(F, Truncated(F, n, r), {Kind(n)})
<1>1. CASE n \in DOMAIN F
  <2> DEFINE e == [F[n] EXCEPT !.texts = IF F[n].writers = {} THEN {} ELSE @,
                               !.writers = @ \cup {r}]
  <2>1. F[n] \in Entry(Requests)
    BY <1>1 DEF Files
  <2>2. /\ e \in Entry(Requests)
        /\ e.writers = F[n].writers \cup {r}
        /\ F[n].writers = {} => e.texts = {}
    BY <2>1 DEF Entry
  <2>3. Truncated(F, n, r) = [F EXCEPT ![n] = e]
    BY <1>1 DEF Truncated
  <2> HIDE DEF e
  <2> QED
    BY <1>1, <2>2, <2>3 DEF Files, Changed
<1>2. CASE n \notin DOMAIN F
  <2>1. [texts |-> {}, writers |-> {r}] \in Entry(Requests)
    BY DEF Entry
  <2> QED
    BY <1>2, <2>1 DEF Truncated, Put, Files, Changed
<1> QED
  BY <1>1, <1>2

LEMMA FinishedChanges ==
  ASSUME NEW F, Files(F), NEW n \in Name, NEW r \in Requests, NEW t \in Text,
         n # Original
  PROVE  /\ DOMAIN Finished(F, n, r, t) = DOMAIN F
         /\ n \in DOMAIN F => Finished(F, n, r, t)[n].writers = F[n].writers \ {r}
         /\ n \in DOMAIN F /\ r \in F[n].writers =>
               Finished(F, n, r, t)[n].texts = F[n].texts \cup {t}
         /\ \A m \in DOMAIN F \ {n} : Finished(F, n, r, t)[m] = F[m]
         /\ Changed(F, Finished(F, n, r, t), {Kind(n)})
<1>1. CASE n \in DOMAIN F /\ r \in F[n].writers
  <2> DEFINE e == [F[n] EXCEPT !.texts = @ \cup {t}, !.writers = @ \ {r}]
  <2>1. F[n] \in Entry(Requests)
    BY <1>1 DEF Files
  <2>2. /\ e \in Entry(Requests)
        /\ e.writers = F[n].writers \ {r}
        /\ e.texts = F[n].texts \cup {t}
    BY <2>1 DEF Entry
  <2>3. Finished(F, n, r, t) = [F EXCEPT ![n] = e]
    BY <1>1 DEF Finished
  <2> HIDE DEF e
  <2> QED
    BY <1>1, <2>2, <2>3 DEF Files, Changed
<1>2. CASE ~(n \in DOMAIN F /\ r \in F[n].writers)
  BY <1>2 DEF Finished, Files, Changed
<1> QED
  BY <1>1, <1>2
----------------------------------------------------------------------------
(* What the steps of a request have in common: r becomes x, the files of its  *)
(* place p become G, those of the kinds K may have been written.              *)

FilesMove(p, G, K) ==
    /\ file' = [file EXCEPT ![p] = G]
    /\ \/ there' = there /\ (there[p] # "present" => DOMAIN G = {})
       \/ p \in Stages /\ there' = [there EXCEPT ![p] = "removed"] /\ DOMAIN G = {}
    /\ archive' = archive
    /\ Files(G)
    /\ \A n \in DOMAIN G :
         Kind(n) \in K \/ (n \in DOMAIN file[p] /\ G[n] = file[p][n])
    /\ p \in Outputs /\ Original \in DOMAIN file[p] => Original \in DOMAIN G

\* Another request at most holds another text than it thinks.
Spared(s) ==
    \/ req'[s] = req[s]
    \/ /\ req[s].at = "starting"
       /\ s \in disturbed'
       /\ \E t \in Text : req'[s] = [req[s] EXCEPT !.text = t]

RequestMoves(r, p, x) ==
    /\ req' = [s \in Requests |-> req'[s]]
    /\ req'[r] = x
    /\ \A s \in Requests \ {r} : Spared(s)
    /\ req[r] # Idle => req[r].place = p
    /\ x # Idle => RequestOK(x) /\ x.place = p
    /\ disturbed \subseteq disturbed' \cup {r}
    /\ x # Idle /\ r \in disturbed => r \in disturbed'

\* Mapped files are touched by those who map, who are known as such.
MapsFairly(r, p, x, K) ==
    /\ "mapped" \in K => req[r] # Idle /\ Maps(req[r])
    /\ x # Idle /\ Maps(x) =>
         \/ req[r] # Idle /\ Maps(req[r])
         \/ \A s \in Active \ {r} :
              req[s].at = "rewriting" /\ Maps(req[s]) /\ req[s].place = p =>
                  s \in disturbed'

WritersMove(r, p, x, G) ==
    \A n \in DOMAIN G : \A s \in G[n].writers :
        \/ s # r /\ n \in DOMAIN file[p] /\ s \in file[p][n].writers
        \/ s = r /\ x.at = "rewriting" /\ x.out /\ n = Target(x)

\* No temporary file of r is forgotten.
Tidy(r, p, x, G) ==
    /\ litter \subseteq litter'
    /\ p \in Outputs => \A n \in DOMAIN G :
         Kind(n) \in {"mapped", "flags"} =>
             \/ <<p, n>> \in litter'
             \/ x # Idle /\ Owns(x, n)
             \/ n \in DOMAIN file[p] /\ ~(req[r] # Idle /\ Owns(req[r], n))

Handled(r, p, x, G, K) ==
    /\ FilesMove(p, G, K)
    /\ RequestMoves(r, p, x)
    /\ MapsFairly(r, p, x, K)
    /\ WritersMove(r, p, x, G)
    /\ Tidy(r, p, x, G)
    /\ x # Idle /\ r \notin disturbed' => Clear(r, x, G)

LEMMA RequestFields ==
  ASSUME NEW q \in Request
  PROVE  /\ q.at \in At /\ q.place \in Places
         /\ q.printer \in Printers \cup {NoPrinter}
         /\ q.mapping \in Mappings \cup {NoMapping} /\ q.flags \in BOOLEAN
         /\ q.step \in {"mapped", "paused"} /\ q.in \in BOOLEAN
         /\ q.out \in BOOLEAN /\ q.path \in Name /\ q.temps \subseteq Name
         /\ q.text \in Text
         /\ Target(q) \in Name /\ Target(q) # Original /\ Kind(Target(q)) = q.step
<1>1. q.path \in Name /\ q.step \in {"mapped", "paused"}
  BY DEF Request
<1>2. q.step \in Step
  BY <1>1 DEF Step
<1> QED
  BY <1>1, <1>2, Derived DEF Request, Target

LEMMA IdleIdles == Idle.at = "idle"
  BY DEF Idle

\* What another request keeps.
LEMMA OthersKeep ==
  ASSUME RequestsInv, NEW r \in Requests, NEW p, NEW x, RequestMoves(r, p, x),
         NEW s \in Requests \ {r}
  PROVE  /\ req'[s] # Idle <=> req[s] # Idle
         /\ req[s] # Idle =>
              /\ req'[s] \in Request
              /\ req'[s].at = req[s].at /\ req'[s].place = req[s].place
              /\ req'[s].printer = req[s].printer /\ req'[s].mapping = req[s].mapping
              /\ req'[s].flags = req[s].flags /\ req'[s].step = req[s].step
              /\ req'[s].out = req[s].out /\ req'[s].path = req[s].path
              /\ req'[s].temps = req[s].temps
         /\ s \notin disturbed' => req'[s] = req[s]
<1>1. Spared(s)
  BY DEF RequestMoves
<1>2. CASE req'[s] = req[s]
  BY <1>2 DEF RequestsInv, Active, RequestOK
<1>3. CASE req'[s] # req[s]
  <2>1. PICK t \in Text : req'[s] = [req[s] EXCEPT !.text = t]
    BY <1>1, <1>3 DEF Spared
  <2>2. req[s].at = "starting" /\ s \in disturbed'
    BY <1>1, <1>3 DEF Spared
  <2>3. req[s] # Idle
    BY <2>2, IdleIdles
  <2>4. req[s] \in Request
    BY <2>3 DEF RequestsInv, Active, RequestOK
  <2>5. /\ req'[s] \in Request
        /\ req'[s].at = req[s].at /\ req'[s].place = req[s].place
        /\ req'[s].printer = req[s].printer /\ req'[s].mapping = req[s].mapping
        /\ req'[s].flags = req[s].flags /\ req'[s].step = req[s].step
        /\ req'[s].out = req[s].out /\ req'[s].path = req[s].path
        /\ req'[s].temps = req[s].temps
    BY <2>1, <2>4 DEF Request
  <2>6. req'[s] # Idle
    BY <2>2, <2>5, IdleIdles
  <2> QED
    BY <2>2, <2>3, <2>5, <2>6
<1> QED
  BY <1>2, <1>3
LEMMA HandledFiles ==
  ASSUME Inv, NEW r \in Requests, NEW p \in Places, NEW x, NEW G,
         NEW K \in SUBSET {"mapped", "flags", "paused"}, Handled(r, p, x, G, K)
  PROVE  /\ file'[p] = G
         /\ \A o \in Places \ {p} : file'[o] = file[o]
         /\ file' = [o \in Places |-> file'[o]]
         /\ there'[p] \in {"none", "present", "removed"}
         /\ there'[p] = "none" <=> there[p] = "none" /\ there'[p] = there[p]
         /\ there'[p] = "present" => there[p] = "present"
         /\ there'[p] # "present" => DOMAIN G = {}
         /\ \A o \in Places \ {p} : there'[o] = there[o]
         /\ there' = [o \in Places |-> there'[o]]
  BY DEF Handled, FilesMove, Inv, PlacesInv, PlaceInv

LEMMA HandledPlaces ==
  ASSUME Inv, NEW r \in Requests, NEW p \in Places, NEW x, NEW G,
         NEW K \in SUBSET {"mapped", "flags", "paused"}, Handled(r, p, x, G, K),
         there[p] # "none"
  PROVE  PlacesInv'
<1>1. archive' = archive
  BY DEF Handled, FilesMove
<1>2. \A o \in Places : there[o] # "none" => there'[o] # "none"
  BY HandledFiles
<1>3. ASSUME NEW o \in Places \ {p} PROVE PlaceInv(o)'
  <2>1. file'[o] = file[o] /\ there'[o] = there[o]
    BY HandledFiles
  <2> QED
    BY <1>1, <2>1 DEF PlaceInv, Inv, PlacesInv
<1>4. PlaceInv(p)'
  <2>1. PlaceInv(p)
    BY DEF Inv, PlacesInv
  <2>2. file'[p] = G /\ there'[p] \in {"none", "present", "removed"}
        /\ (there'[p] # "present" => DOMAIN G = {})
        /\ (there'[p] = "present" => there[p] = "present")
    BY HandledFiles
  <2>3. Files(G)
    BY DEF Handled, FilesMove
  <2>4. ASSUME NEW n \in {Original, <<"extracted">>}, n \in DOMAIN G
        PROVE  n \in DOMAIN file[p] /\ G[n] = file[p][n]
    <3>1. Kind(n) \notin {"mapped", "flags", "paused"}
      BY Kinds
    <3> QED
      BY <2>4, <3>1 DEF Handled, FilesMove
  <2>5. p \in Outputs /\ there'[p] = "present" => Original \in DOMAIN G
    BY <2>1, <2>2 DEF PlaceInv, Handled, FilesMove
  <2> QED
    BY <1>1, <2>1, <2>2, <2>3, <2>4, <2>5 DEF PlaceInv, Files
<1>5. archive \subseteq Stages /\ \A o \in archive : there[o] # "none"
  BY DEF Inv, PlacesInv
<1>6. archive' \subseteq Stages /\ \A o \in archive' : there'[o] # "none"
  BY <1>1, <1>2, <1>5 DEF Places
<1> QED
  BY <1>3, <1>4, <1>6, HandledFiles DEF PlacesInv

LEMMA HandledRequests ==
  ASSUME Inv, NEW r \in Requests, NEW p \in Places, NEW x, NEW G,
         NEW K \in SUBSET {"mapped", "flags", "paused"}, Handled(r, p, x, G, K),
         there[p] # "none"
  PROVE  RequestsInv'
<1>1. req' = [s \in Requests |-> req'[s]]
  BY DEF Handled, RequestMoves
<1>2. \A o \in Places : there[o] # "none" => there'[o] # "none"
  BY HandledFiles
<1>3. ASSUME NEW s \in Requests \ {r}, req'[s] # Idle PROVE RequestOK(req[s])'
  <2>1. req[s] # Idle /\ req'[s] \in Request
        /\ req'[s].at = req[s].at /\ req'[s].place = req[s].place
        /\ req'[s].printer = req[s].printer /\ req'[s].mapping = req[s].mapping
        /\ req'[s].flags = req[s].flags /\ req'[s].step = req[s].step
        /\ req'[s].temps = req[s].temps
    BY <1>3, OthersKeep DEF Handled, Inv
  <2>2. RequestOK(req[s])
    BY <2>1 DEF Inv, RequestsInv, Active
  <2>3. req[s].place \in Places
    BY <2>2, RequestFields DEF RequestOK
  <2> QED
    BY <1>2, <2>1, <2>2, <2>3 DEF RequestOK, Maps
<1>4. ASSUME x # Idle PROVE RequestOK(x)'
  <2>1. RequestOK(x)
    BY <1>4 DEF Handled, RequestMoves
  <2>2. x.place \in Places
    BY <2>1, RequestFields DEF RequestOK
  <2> QED
    BY <1>2, <2>1, <2>2 DEF RequestOK, Maps
<1>5. req'[r] = x
  BY DEF Handled, RequestMoves
<1> QED
  BY <1>1, <1>3, <1>4, <1>5 DEF RequestsInv, Active

LEMMA HandledWriters ==
  ASSUME Inv, NEW r \in Requests, NEW p \in Places, NEW x, NEW G,
         NEW K \in SUBSET {"mapped", "flags", "paused"}, Handled(r, p, x, G, K)
  PROVE  WritersInv'
<1> SUFFICES ASSUME NEW o \in Places, NEW n \in DOMAIN file'[o], NEW s \in file'[o][n].writers
             PROVE  s \in Active' /\ Writes(s, o, n)'
  BY DEF WritersInv
<1>1. req'[r] = x /\ WritersInv /\ RequestsInv /\ RequestMoves(r, p, x)
  BY DEF Handled, RequestMoves, Inv
<1>2. ASSUME s # r, n \in DOMAIN file[o], s \in file[o][n].writers
      PROVE  s \in Active' /\ Writes(s, o, n)'
  <2>1. s \in Active /\ Writes(s, o, n)
    BY <1>1, <1>2 DEF WritersInv
  <2>2. s \in Requests \ {r} /\ req[s] # Idle
    BY <1>2, <2>1 DEF Active
  <2>3. /\ req'[s] # Idle /\ req'[s].at = req[s].at /\ req'[s].place = req[s].place
        /\ req'[s].step = req[s].step /\ req'[s].out = req[s].out
        /\ req'[s].path = req[s].path
    BY <1>1, <2>2, OthersKeep
  <2> QED
    BY <2>1, <2>2, <2>3 DEF Writes, Active, Target
<1>3. CASE o = p
  <2>1. n \in DOMAIN G /\ s \in G[n].writers
    BY <1>3, HandledFiles
  <2>2. CASE s # r /\ n \in DOMAIN file[p] /\ s \in file[p][n].writers
    BY <1>2, <1>3, <2>2
  <2>3. CASE s = r /\ x.at = "rewriting" /\ x.out /\ n = Target(x)
    <3>1. x # Idle
      BY <2>3, IdleIdles
    <3>2. x.place = p
      BY <3>1 DEF Handled, RequestMoves
    <3> QED
      BY <1>1, <1>3, <2>3, <3>1, <3>2 DEF Active, Writes, Target
  <2> QED
    BY <2>1, <2>2, <2>3 DEF Handled, WritersMove
<1>4. CASE o # p
  <2>1. n \in DOMAIN file[o] /\ s \in file[o][n].writers
    BY <1>4, HandledFiles
  <2>2. s \in Active /\ Writes(s, o, n)
    BY <1>1, <2>1 DEF WritersInv
  <2>3. s # r
    BY <1>1, <1>4, <2>2 DEF RequestMoves, Writes, Active
  <2> QED
    BY <1>2, <2>1, <2>3
<1> QED
  BY <1>3, <1>4

LEMMA HandledClear ==
  ASSUME Inv, NEW r \in Requests, NEW p \in Places, NEW x, NEW G,
         NEW K \in SUBSET {"mapped", "flags", "paused"}, Handled(r, p, x, G, K)
  PROVE  ClearInv'
<1> SUFFICES ASSUME NEW s \in Active', s \notin disturbed'
             PROVE  Clear(s, req[s], file[req[s].place])'
  BY DEF ClearInv
<1>1. req'[r] = x /\ RequestsInv /\ RequestMoves(r, p, x) /\ archive' = archive
  BY DEF Handled, RequestMoves, Inv, FilesMove
<1>2. file'[p] = G /\ \A o \in Places \ {p} : file'[o] = file[o]
  BY HandledFiles
<1>3. s \in Requests /\ req'[s] # Idle
  BY DEF Active
<1>4. \A o \in Requests \ {r} :
        /\ req'[o] # Idle <=> req[o] # Idle
        /\ req[o] # Idle =>
             /\ req'[o].place = req[o].place /\ req'[o].printer = req[o].printer
             /\ req'[o].mapping = req[o].mapping
  BY <1>1, OthersKeep
<1>5. CASE s = r
  <2>1. Clear(r, x, G) /\ x.place = p
    BY <1>1, <1>3, <1>5 DEF Handled, RequestMoves
  <2>2. ASSUME NEW o \in Active' \ {r}
        PROVE  /\ o \in Active \ {r} /\ (Maps(req'[o]) <=> Maps(req[o]))
               /\ req'[o].place = req[o].place
    BY <1>4 DEF Active, Maps
  <2>3. Clear(r, x, G)'
    BY <1>1, <2>1, <2>2 DEF Clear, Wanted, Maps, Target
  <2> QED
    BY <1>1, <1>2, <1>5, <2>1, <2>3
<1>6. CASE s # r
  <2>0. PICK q, F, H : q = req[s] /\ F = file[q.place] /\ H = file'[q.place]
    OBVIOUS
  <2> DEFINE n == Target(q)
  <2>1. req'[s] = q /\ q # Idle /\ s \in Active
    BY <2>0, <1>1, <1>3, <1>6, OthersKeep DEF Active
  <2>2. Clear(s, q, F)
    BY <2>0, <1>1, <1>6, <2>1 DEF Inv, ClearInv, RequestMoves
  <2>3. RequestOK(q) /\ q \in Request /\ q.place \in Places
    BY <2>0, <2>1, RequestFields DEF Inv, RequestsInv, RequestOK
  <2>4. ASSUME q.at = "rewriting", Maps(q)
        PROVE  ~(q.place = p /\ req[r] # Idle /\ Maps(req[r]))
    <3>1. req[r] # Idle => r \in Active \ {s}
      BY <1>6 DEF Active
    <3> QED
      BY <1>1, <2>2, <2>4, <3>1 DEF Clear, RequestMoves
  <2>5. ASSUME q.at = "rewriting", Maps(q), NEW o \in Active' \ {s}
        PROVE  ~(Maps(req'[o]) /\ req'[o].place = q.place)
    <3>1. CASE o = r
      <4>1. SUFFICES ASSUME x # Idle, Maps(x), x.place = q.place PROVE FALSE
        BY <1>1, <3>1 DEF Active, Maps
      <4>2. x.place = p
        BY <1>1, <4>1 DEF RequestMoves
      <4>3. s \in disturbed'
        BY <2>0, <1>6, <2>1, <2>4, <2>5, <4>1, <4>2 DEF Handled, MapsFairly
      <4> QED
        BY <4>3
    <3>2. CASE o # r
      <4>1. o \in Active \ {s} /\ (Maps(req'[o]) <=> Maps(req[o]))
            /\ req'[o].place = req[o].place
        BY <1>4, <3>2 DEF Active, Maps
      <4> QED
        BY <2>2, <2>5, <4>1 DEF Clear
    <3> QED
      BY <3>1, <3>2
  <2>6. ASSUME q.at = "rewriting", Maps(q), n \in DOMAIN H
        PROVE  n \in DOMAIN F /\ H[n] = F[n]
    <3>1. CASE q.place # p
      BY <1>2, <2>0, <2>3, <2>6, <3>1
    <3>2. CASE q.place = p
      <4>1. Kind(n) = "mapped"
        BY <2>3, <2>6, RequestFields DEF RequestOK
      <4>2. "mapped" \notin K
        BY <2>4, <2>6, <3>2 DEF Handled, MapsFairly
      <4>3. H = G /\ F = file[p]
        BY <1>2, <2>0, <3>2
      <4> QED
        BY <2>6, <4>1, <4>2, <4>3 DEF Handled, FilesMove
    <3> QED
      BY <3>1, <3>2
  <2>7. q.at = "rewriting" /\ Maps(q) =>
          /\ q.path = IF q.place \in archive THEN <<"extracted">> ELSE Original
          /\ q.in => q.text = [of |-> q.place, plate |-> 1, done |-> <<>>]
    BY <2>2 DEF Clear
  <2>8. q.at = "rewriting" /\ Maps(q) /\ q.out /\ n \in DOMAIN H =>
          H[n].texts = {} /\ s \in H[n].writers
    BY <2>2, <2>6 DEF Clear
  <2>9. /\ q.at = "connecting" => q.path = Original
        /\ q.at \in {"uploading", "starting"} => q.text = Wanted(q)
    BY <2>2 DEF Clear
  <2>10. Wanted(q) = Wanted(q)'
    BY <1>1 DEF Wanted, Maps
  <2>11. Clear(s, q, H)'
    BY <2>5, <2>7, <2>8, <2>9, <2>10, <1>1 DEF Clear, Maps, Target
  <2> QED
    BY <2>0, <2>1, <2>11
<1> QED
  BY <1>5, <1>6
LEMMA HandledTidy ==
  ASSUME Inv, NEW r \in Requests, NEW p \in Places, NEW x, NEW G,
         NEW K \in SUBSET {"mapped", "flags", "paused"}, Handled(r, p, x, G, K)
  PROVE  TempHasOwner'
<1> SUFFICES ASSUME NEW o \in Outputs, NEW n \in DOMAIN file'[o], Temporary(n)
             PROVE  \/ \E s \in Active' : req'[s].place = o /\ Owns(req'[s], n)
                    \/ <<o, n>> \in litter'
  BY DEF TempHasOwner, Owns, Target
<1>1. req'[r] = x /\ RequestsInv /\ RequestMoves(r, p, x) /\ litter \subseteq litter'
  BY DEF Handled, RequestMoves, Inv, Tidy
<1>2. file'[p] = G /\ \A i \in Places \ {p} : file'[i] = file[i]
  BY HandledFiles
<1>3. o \in Places
  BY DEF Places
\* Who owned a file and is not r owns it still.
<1>4. ASSUME n \in DOMAIN file[o], o = p => ~(req[r] # Idle /\ Owns(req[r], n))
      PROVE  \/ \E s \in Active' : req'[s].place = o /\ Owns(req'[s], n)
             \/ <<o, n>> \in litter'
  <2>1. CASE <<o, n>> \in litter
    BY <1>1, <2>1
  <2>2. CASE <<o, n>> \notin litter
    <3>1. PICK s \in Active : req[s].place = o /\ Owns(req[s], n)
      BY <1>4, <2>2 DEF Inv, TempHasOwner
    <3>2. s \in Requests \ {r} /\ req[s] # Idle
      BY <1>1, <1>4, <3>1 DEF Active, RequestMoves
    <3>3. /\ req'[s] # Idle /\ req'[s].at = req[s].at /\ req'[s].place = req[s].place
          /\ req'[s].step = req[s].step /\ req'[s].path = req[s].path
          /\ req'[s].temps = req[s].temps
      BY <1>1, <3>2, OthersKeep
    <3>4. s \in Active' /\ req'[s].place = o /\ Owns(req'[s], n)
      BY <3>1, <3>2, <3>3 DEF Active, Owns, Target
    <3> QED
      BY <3>4
  <2> QED
    BY <2>1, <2>2
<1>5. CASE o = p
  <2>1. n \in DOMAIN G
    BY <1>2, <1>5
  <2>2. Kind(n) \in {"mapped", "flags"}
    <3>1. n \in Name
      BY <2>1 DEF Handled, FilesMove, Files
    <3> QED
      BY <3>1, Kinds
  <2>3. CASE x # Idle /\ Owns(x, n)
    <3>1. r \in Active' /\ req'[r].place = o
      BY <1>1, <1>5, <2>3 DEF Active, RequestMoves
    <3> QED
      BY <1>1, <2>3, <3>1
  <2>4. CASE n \in DOMAIN file[p] /\ ~(req[r] # Idle /\ Owns(req[r], n))
    BY <1>4, <1>5, <2>4
  <2> QED
    BY <1>5, <2>1, <2>2, <2>3, <2>4 DEF Handled, Tidy
<1>6. CASE o # p
  BY <1>2, <1>3, <1>4, <1>6
<1> QED
  BY <1>5, <1>6

\* A step of a request keeps the invariant.
LEMMA HandledKeeps ==
  ASSUME Inv, NEW r \in Requests, NEW p \in Places, NEW x, NEW G,
         NEW K \in SUBSET {"mapped", "flags", "paused"}, Handled(r, p, x, G, K),
         there[p] # "none"
  PROVE  Inv'
  BY HandledPlaces, HandledRequests, HandledWriters, HandledClear, HandledTidy DEF Inv
----------------------------------------------------------------------------
(* The end of a request, and the next part of one *)

\* r, of value q now, has made F of the files of its place and does not write
\* any longer; T are its temporary files.
Ready(r, q, F, T, K) ==
    /\ q \in Request
    /\ q.printer \in Klippers \/ (q.mapping = NoMapping /\ ~q.flags)
    /\ there[q.place] # "none"
    /\ there[q.place] # "present" => DOMAIN F = {}
    /\ Changed(file[q.place], F, K)
    /\ \A n \in DOMAIN F : \A s \in F[n].writers :
         s # r /\ n \in DOMAIN file[q.place] /\ s \in file[q.place][n].writers
    /\ T \subseteq Name /\ Original \notin T
    /\ req[r] # Idle => req[r].place = q.place
    /\ "mapped" \in K => req[r] # Idle /\ Maps(req[r])
    /\ \A n \in DOMAIN F : Kind(n) \in {"mapped", "flags"} =>
         \/ n \in T
         \/ n \in DOMAIN file[q.place] /\ ~(req[r] # Idle /\ Owns(req[r], n))

Aside(r) ==
    /\ archive' = archive
    /\ litter' = litter
    /\ disturbed \subseteq disturbed' \cup {r}
    /\ req'[r] # Idle /\ r \in disturbed => r \in disturbed'

LEMMA MovesAlone ==
  ASSUME Inv, NEW r \in Requests, NEW p \in Places, NEW x, Aside(r),
         req' = [req EXCEPT ![r] = x],
         req[r] # Idle => req[r].place = p,
         x # Idle => RequestOK(x) /\ x.place = p
  PROVE  RequestMoves(r, p, x)
<1>1. req = [s \in Requests |-> req[s]]
  BY DEF Inv, RequestsInv
<1>2. req' = [s \in Requests |-> req'[s]] /\ req'[r] = x
  BY <1>1
<1>3. \A s \in Requests \ {r} : Spared(s)
  BY <1>1 DEF Spared
<1> QED
  BY <1>2, <1>3 DEF RequestMoves, Aside

LEMMA PlaceKinds == Outputs \cap Stages = {} /\ Places = Outputs \cup Stages
  BY DispatchAssumption DEF Places

LEMMA TidiesKeeps ==
  ASSUME Inv, NEW r \in Requests, NEW q, NEW F, NEW T, NEW x,
         NEW K \in SUBSET {"mapped", "flags", "paused"},
         Ready(r, q, F, T, K), Aside(r), RequestMoves(r, q.place, x),
         x # Idle => x.at = "failed" /\ (Maps(x) => req[r] # Idle /\ Maps(req[r])),
         Tidies(q.place, F, T)
  PROVE  Inv'
<1>1. q \in Request /\ q.place \in Places /\ there[q.place] # "none"
  BY RequestFields DEF Ready
<1>2. MapsFairly(r, q.place, x, K)
  BY DEF MapsFairly, Ready
<1>3. CASE q.place \in Stages
  <2>1. DOMAIN NoFiles = {}
    BY DEF NoFiles
  <2>2. FilesMove(q.place, NoFiles, K)
    BY <1>3, <2>1, PlaceKinds DEF FilesMove, Tidies, Aside, Files
  <2>3. WritersMove(r, q.place, x, NoFiles) /\ Tidy(r, q.place, x, NoFiles)
    BY <2>1 DEF WritersMove, Tidy, Aside
  <2>4. x # Idle => Clear(r, x, NoFiles)
    BY DEF Clear
  <2> QED
    BY <1>1, <1>2, <2>2, <2>3, <2>4, HandledKeeps DEF Handled
<1>4. CASE q.place \notin Stages
  <2> DEFINE G == Without(F, T)
  <2>1. Files(F) /\ Original \notin T
    BY DEF Ready, Changed
  <2>2. DOMAIN G = DOMAIN F \ T /\ Changed(F, G, {})
    BY <2>1, WithoutChanges
  <2>3. \A n \in DOMAIN G : n \in DOMAIN F /\ G[n] = F[n]
    BY <2>2 DEF Changed
  <2>4. Tidies(q.place, F, T) => file' = [file EXCEPT ![q.place] = G] /\ there' = there
    BY <1>4 DEF Tidies
  <2> HIDE DEF G
  <2>5. FilesMove(q.place, G, K)
    BY <2>2, <2>3, <2>4 DEF FilesMove, Ready, Changed, Aside
  <2>6. WritersMove(r, q.place, x, G) /\ Tidy(r, q.place, x, G)
    BY <2>2, <2>3 DEF WritersMove, Tidy, Aside, Ready
  <2>7. x # Idle => Clear(r, x, G)
    BY DEF Clear
  <2> QED
    BY <1>1, <1>2, <2>5, <2>6, <2>7, HandledKeeps DEF Handled
<1> QED
  BY <1>3, <1>4

LEMMA EndsKeeps ==
  ASSUME Inv, NEW r \in Requests, NEW q, NEW F, NEW T,
         NEW K \in SUBSET {"mapped", "flags", "paused"},
         Ready(r, q, F, T, K), Aside(r), Ends(r, q.place, F, T)
  PROVE  Inv'
<1>1. q.place \in Places /\ (req[r] # Idle => req[r].place = q.place)
  BY RequestFields DEF Ready
<1>2. RequestMoves(r, q.place, Idle)
  BY <1>1, MovesAlone DEF Ends
<1> QED
  BY <1>2, TidiesKeeps DEF Ends

\* The request goes on, as x.
LEMMA RunsKeeps ==
  ASSUME Inv, NEW r \in Requests, NEW q, NEW F, NEW T, NEW x,
         NEW K \in SUBSET {"mapped", "flags", "paused"},
         Ready(r, q, F, T, K), Aside(r), RequestMoves(r, q.place, x),
         file' = [file EXCEPT ![q.place] = F], UNCHANGED there,
         x # Idle, \A n \in T : Owns(x, n),
         MapsFairly(r, q.place, x, K),
         r \notin disturbed' => Clear(r, x, F)
  PROVE  Inv'
<1>1. q \in Request /\ q.place \in Places /\ there[q.place] # "none"
  BY RequestFields DEF Ready
<1>2. FilesMove(q.place, F, K)
  BY DEF FilesMove, Ready, Changed, Aside
<1>3. WritersMove(r, q.place, x, F) /\ Tidy(r, q.place, x, F)
  BY DEF WritersMove, Tidy, Aside, Ready
<1> QED
  BY <1>1, <1>2, <1>3, HandledKeeps DEF Handled

\* The file to send is ready: n is the one.
LEMMA UploadKeeps ==
  ASSUME Inv, NEW r \in Requests, NEW q, NEW F, NEW T, NEW n \in Name,
         NEW K \in SUBSET {"mapped", "flags", "paused"},
         Ready(r, q, F, T, K), Aside(r),
         Maps(q) => req[r] # Idle /\ Maps(req[r]),
         q.printer \in Bambus => n = Original \/ r \in disturbed' \/ req'[r] = Idle,
         n \in DOMAIN F => Content(F[n]) = Wanted(q) \/ r \in disturbed' \/ req'[r] = Idle,
         Upload(r, q, F, n, T)
  PROVE  Inv'
<1>1. q \in Request /\ q.place \in Places
  BY RequestFields DEF Ready
<1>2. CASE Ends(r, q.place, F, T)
  BY <1>2, EndsKeeps
<1>3. ASSUME NEW x, x \in Request, x.at \in {"uploading", "connecting"},
             x.place = q.place, x.printer = q.printer, x.mapping = q.mapping,
             x.flags = q.flags, x.path = n, x.temps = T,
             x.at = "connecting" => q.printer \in Bambus,
             x.at = "uploading" => n \in DOMAIN F /\ x.text = Content(F[n]),
             req' = [req EXCEPT ![r] = x],
             file' = [file EXCEPT ![q.place] = F], UNCHANGED there
      PROVE  Inv'
  <2>1. x # Idle
    BY <1>3, IdleIdles
  <2>2. RequestOK(x)
    BY <1>3 DEF RequestOK, Ready
  <2>3. RequestMoves(r, q.place, x)
    BY <1>1, <1>3, <2>2, MovesAlone DEF Ready
  <2>4. \A m \in T : Owns(x, m)
    BY <1>3 DEF Owns
  <2>5. Maps(x) <=> Maps(q)
    BY <1>3 DEF Maps
  <2>6. MapsFairly(r, q.place, x, K)
    BY <2>5 DEF MapsFairly, Ready
  <2>7. Wanted(x) = Wanted(q)
    BY <1>3, <2>5 DEF Wanted
  <2>8. r \notin disturbed' => Clear(r, x, F)
    <3>1. req'[r] # Idle
      BY <2>1, <2>3 DEF RequestMoves
    <3> QED
      BY <1>3, <2>7, <3>1 DEF Clear
  <2> QED
    BY <1>3, <2>1, <2>3, <2>4, <2>6, <2>8, RunsKeeps
<1>4. CASE /\ n \in DOMAIN F
           /\ file' = [file EXCEPT ![q.place] = F]
           /\ req' = [req EXCEPT ![r] =
                        [q EXCEPT !.at = "uploading", !.path = n, !.temps = T,
                                  !.text = Content(F[n])]]
           /\ UNCHANGED there
  <2> DEFINE x == [q EXCEPT !.at = "uploading", !.path = n, !.temps = T,
                            !.text = Content(F[n])]
  <2>1. Content(F[n]) \in Text
    BY <1>4, TextTypes DEF Ready, Changed, Files
  <2>2. T \in SUBSET Name /\ "uploading" \in At
    BY DEF Ready, At
  <2>3. /\ x \in Request /\ x.at = "uploading" /\ x.place = q.place
        /\ x.printer = q.printer /\ x.mapping = q.mapping /\ x.flags = q.flags
        /\ x.path = n /\ x.temps = T /\ x.text = Content(F[n])
    BY <1>1, <2>1, <2>2 DEF Request
  <2> HIDE DEF x
  <2> QED
    BY <1>3, <1>4, <2>3 DEF x
<1>5. CASE /\ q.printer \in Bambus
           /\ file' = [file EXCEPT ![q.place] = F]
           /\ req' = [req EXCEPT ![r] =
                        [q EXCEPT !.at = "connecting", !.path = n, !.temps = T]]
           /\ UNCHANGED there
  <2> DEFINE x == [q EXCEPT !.at = "connecting", !.path = n, !.temps = T]
  <2>1. T \in SUBSET Name /\ "connecting" \in At
    BY DEF Ready, At
  <2>2. /\ x \in Request /\ x.at = "connecting" /\ x.place = q.place
        /\ x.printer = q.printer /\ x.mapping = q.mapping /\ x.flags = q.flags
        /\ x.path = n /\ x.temps = T
    BY <1>1, <2>1 DEF Request
  <2> HIDE DEF x
  <2> QED
    BY <1>3, <1>5, <2>2 DEF x
<1> QED
  BY <1>2, <1>4, <1>5 DEF Upload
\* What the printer is to get for q, but for the flags.
WantedPlain(q) ==
    [of |-> q.place,
     plate |-> IF q.place \in archive /\ q.printer \notin Klippers THEN 0 ELSE 1,
     done |-> <<>>]

Mapped(q) == IF Maps(q) THEN Applied(WantedPlain(q), q.mapping) ELSE WantedPlain(q)

LEMMA WantedSteps ==
  ASSUME NEW q \in Request
  PROVE  Wanted(q) = IF q.printer \in Klippers /\ q.flags
                     THEN Applied(Mapped(q), "flags") ELSE Mapped(q)
<1> DEFINE D == Seq(Mappings \cup Step)
           M == IF Maps(q) THEN <<q.mapping>> ELSE <<>>
<1>0. PICK k \in 0..1 :
        k = IF q.place \in archive /\ q.printer \notin Klippers THEN 0 ELSE 1
  OBVIOUS
<1>1. q.place \in Places /\ q.mapping \in Mappings \cup {NoMapping}
      /\ "flags" \in Mappings \cup Step
  BY RequestFields DEF Step
<1>2. Maps(q) => q.mapping \in Mappings \cup Step
  BY <1>1 DEF Maps
<1>3. WantedPlain(q) = [of |-> q.place, plate |-> k, done |-> <<>>]
  BY <1>0 DEF WantedPlain
<1>4. Applied(WantedPlain(q), "flags") = [of |-> q.place, plate |-> k, done |-> <<"flags">>]
  BY <1>1, <1>3, AppliedToPlain
<1>5. Maps(q) =>
        /\ Mapped(q) = [of |-> q.place, plate |-> k, done |-> <<q.mapping>>]
        /\ Applied(Mapped(q), "flags") =
             [of |-> q.place, plate |-> k, done |-> <<q.mapping>> \o <<"flags">>]
  <2> SUFFICES ASSUME Maps(q)
               PROVE  /\ Mapped(q) = [of |-> q.place, plate |-> k, done |-> <<q.mapping>>]
                      /\ Applied(Mapped(q), "flags") =
                           [of |-> q.place, plate |-> k, done |-> <<q.mapping>> \o <<"flags">>]
    OBVIOUS
  <2>1. PICK t : t = [of |-> q.place, plate |-> k, done |-> <<>>]
    OBVIOUS
  <2>2. Mapped(q) = Applied(t, q.mapping)
    BY <1>3, <2>1 DEF Mapped
  <2>3. /\ Applied(t, q.mapping) = [of |-> q.place, plate |-> k, done |-> <<q.mapping>>]
        /\ Applied(Applied(t, q.mapping), "flags") =
             [of |-> q.place, plate |-> k, done |-> <<q.mapping>> \o <<"flags">>]
    BY <1>1, <1>2, <2>1, AppliedToPlain
  <2> QED
    BY <2>2, <2>3
<1>6. /\ <<>> \o <<"flags">> = <<"flags">>
      /\ <<>> \o <<>> = <<>>
      /\ Maps(q) => <<q.mapping>> \o <<>> = <<q.mapping>>
  <2>1. <<>> \in D /\ <<"flags">> \in D /\ (Maps(q) => <<q.mapping>> \in D)
    BY <1>1, <1>2
  <2> QED
    BY <2>1, ConcatEmptySeq
<1>7. Wanted(q) =
        [of |-> q.place, plate |-> k,
         done |-> M \o (IF q.printer \in Klippers /\ q.flags THEN <<"flags">> ELSE <<>>)]
  BY <1>0 DEF Wanted
<1>8. CASE Maps(q)
  BY <1>5, <1>6, <1>7, <1>8
<1>9. CASE ~Maps(q)
  <2>1. Mapped(q) = WantedPlain(q) /\ M = <<>>
    BY <1>9 DEF Mapped
  <2> QED
    BY <1>3, <1>4, <1>6, <1>7, <2>1
<1> QED
  BY <1>8, <1>9

LEMMA PrepareKeeps ==
  ASSUME Inv, NEW r \in Requests, NEW q, NEW F, NEW T, NEW n \in Name,
         NEW K \in SUBSET {"mapped", "flags", "paused"},
         Ready(r, q, F, T, K), Aside(r), T \subseteq {n},
         Maps(q) => req[r] # Idle /\ Maps(req[r]),
         q.printer \in Bambus => n = Original \/ r \in disturbed' \/ req'[r] = Idle,
         n \in DOMAIN F => Content(F[n]) = Mapped(q) \/ r \in disturbed' \/ req'[r] = Idle,
         Prepare(r, q, F, n, T)
  PROVE  Inv'
<1>1. q \in Request /\ q.place \in Places
  BY RequestFields DEF Ready
<1>2. CASE ~(q.printer \in Klippers /\ q.flags)
  <2>1. Wanted(q) = Mapped(q)
    BY <1>1, <1>2, WantedSteps
  <2>2. Upload(r, q, F, n, T)
    BY <1>2 DEF Prepare
  <2> QED
    BY <2>1, <2>2, UploadKeeps
<1>3. CASE q.printer \in Klippers /\ q.flags /\ n \notin DOMAIN F
  <2>1. Ends(r, q.place, F, {})
    BY <1>3 DEF Prepare
  <2>2. Ready(r, q, F, {}, K)
    BY <1>3 DEF Ready
  <2> QED
    BY <2>1, <2>2, EndsKeeps
<1>4. CASE q.printer \in Klippers /\ q.flags /\ n \in DOMAIN F
  <2>1. PICK m, t : m = Append(n, "flags") /\ t = Applied(Content(F[n]), "flags")
    OBVIOUS
  <2>2. PICK G : G = Written(F, m, t)
    OBVIOUS
  <2>3. m \in Name /\ m # Original /\ Kind(m) = "flags"
    BY <2>1, Derived DEF Step
  <2>4. Files(F) /\ there[q.place] = "present"
    BY <1>4 DEF Ready, Changed
  <2>5. t \in Text
    <3>1. Content(F[n]) \in Text
      BY <1>4, <2>4, TextTypes DEF Files
    <3> QED
      BY <2>1, <3>1, TextTypes DEF Step
  <2>6. /\ DOMAIN G = DOMAIN F \cup {m}
        /\ G[m].texts = {t} /\ G[m].writers = {}
        /\ \A i \in DOMAIN F \ {m} : G[i] = F[i]
        /\ Changed(F, G, {"flags"})
    <3> DEFINE W == Written(F, m, t)
    <3>1. /\ DOMAIN W = DOMAIN F \cup {m}
          /\ W[m].texts = {t} /\ W[m].writers = {}
          /\ \A i \in DOMAIN F \ {m} : W[i] = F[i]
          /\ Changed(F, W, {Kind(m)})
      BY <2>3, <2>4, <2>5, WrittenChanges
    <3> HIDE DEF W
    <3> QED
      BY <2>2, <2>3, <3>1 DEF W
  <2>7. Upload(r, q, G, m, T \cup {m})
    BY <1>4, <2>1, <2>2 DEF Prepare
  <2>8. Changed(file[q.place], G, K \cup {"flags"})
    BY <2>6 DEF Ready, Changed
  <2>9. \A i \in DOMAIN G : \A s \in G[i].writers :
          s # r /\ i \in DOMAIN file[q.place] /\ s \in file[q.place][i].writers
    BY <2>6 DEF Ready
  <2>10. Ready(r, q, G, T \cup {m}, K \cup {"flags"})
    BY <2>3, <2>4, <2>6, <2>8, <2>9 DEF Ready
  <2>11. Content(G[m]) = t
    BY <2>6, ContentOfOne
  <2>12. Content(G[m]) = Wanted(q) \/ r \in disturbed' \/ req'[r] = Idle
    BY <1>1, <1>4, <2>1, <2>11, WantedSteps
  <2>13. q.printer \notin Bambus
    BY <1>4, DispatchAssumption
  <2> QED
    BY <2>3, <2>7, <2>10, <2>12, <2>13, UploadKeeps
<1> QED
  BY <1>2, <1>3, <1>4
----------------------------------------------------------------------------
(* Requests *)

\* The files of a place as they are, for a request that writes none of them.
LEMMA ReadyNow ==
  ASSUME Inv, NEW r \in Requests, NEW q \in Request, NEW T \in SUBSET Name,
         there[q.place] # "none", Original \notin T,
         q.printer \in Klippers \/ (q.mapping = NoMapping /\ ~q.flags),
         ~(req[r].at = "rewriting" /\ req[r].out),
         req[r] # Idle => req[r].place = q.place,
         \A n \in Name : req[r] # Idle /\ Owns(req[r], n) => n \in T
  PROVE  Ready(r, q, file[q.place], T, {})
<1>1. q.place \in Places
  BY RequestFields
<1>2. Files(file[q.place]) /\ (there[q.place] # "present" => DOMAIN file[q.place] = {})
  BY <1>1 DEF Inv, PlacesInv, PlaceInv
<1>3. \A n \in DOMAIN file[q.place] : \A s \in file[q.place][n].writers : s # r
  BY <1>1 DEF Inv, WritersInv, Writes
<1> QED
  BY <1>1, <1>2, <1>3 DEF Ready, Changed, Files

\* What q takes when nothing is in its way.
LEMMA Takes ==
  ASSUME Inv, NEW q \in Request, there[q.place] = "present",
         Source(q) \in DOMAIN file[q.place],
         q.place \in Outputs => \A n \in DOMAIN file[q.place] : ~(Dots(n) > 0)
  PROVE  /\ Source(q) = IF q.place \in archive /\ q.printer \in Klippers
                        THEN <<"extracted">> ELSE Original
         /\ Content(file[q.place][Source(q)]) = WantedPlain(q)
<1> DEFINE F == file[q.place]
<1>1. q.place \in Places
  BY RequestFields
<1>2. PlaceInv(q.place) /\ archive \subseteq Stages
  BY <1>1 DEF Inv, PlacesInv
<1>3. Source(q) = IF q.place \in archive /\ q.printer \in Klippers
                  THEN <<"extracted">> ELSE Original
  <2>1. CASE q.place \in Outputs
    <3>1. DOMAIN F \subseteq Name /\ Original \in DOMAIN F
      BY <1>2, <2>1 DEF PlaceInv, Files
    <3>2. FindGcode(F) = Original
      BY <2>1, <3>1, FindsOriginal
    <3> QED
      BY <1>2, <2>1, <3>2, PlaceKinds DEF Source
  <2>2. CASE q.place \notin Outputs
    BY <2>2 DEF Source
  <2> QED
    BY <2>1, <2>2
<1>4. PICK k : k = IF q.place \in archive /\ q.printer \notin Klippers THEN 0 ELSE 1
  OBVIOUS
<1>5. F[Source(q)] = Plain(q.place, k)
  BY <1>2, <1>3, <1>4, Kinds DEF PlaceInv
<1>6. Content(Plain(q.place, k)) = WantedPlain(q)
  <2>1. Plain(q.place, k).texts = {WantedPlain(q)} /\ Plain(q.place, k).writers = {}
    BY <1>4 DEF Plain, WantedPlain
  <2> QED
    BY <2>1, ContentOfOne
<1> QED
  BY <1>3, <1>5, <1>6

LEMMA BeginKeeps ==
  ASSUME Inv, NEW r \in Requests, NEW q \in Request,
         q.printer \in Klippers \/ (q.mapping = NoMapping /\ ~q.flags),
         q.in = FALSE, q.out = FALSE, q.temps = {}, Begin(r, q)
  PROVE  Inv'
<1> DEFINE F == file[q.place]
           n == Source(q)
<1>1. q.place \in Places /\ req[r] = Idle /\ there[q.place] = "present"
      /\ n \in DOMAIN F
  BY RequestFields DEF Begin
<1>2. n \in Name
  BY <1>1 DEF Inv, PlacesInv, PlaceInv, Files
<1>3. Ready(r, q, F, {}, {})
  BY <1>1, ReadyNow, IdleIdles
<1>4. Aside(r) /\ (r \notin disturbed' => ~Hindered(q))
  BY DEF Aside, Begin
<1>5. r \notin disturbed' =>
        /\ n = IF q.place \in archive /\ q.printer \in Klippers
               THEN <<"extracted">> ELSE Original
        /\ Content(F[n]) = WantedPlain(q)
  <2>1. r \notin disturbed' =>
          (q.place \in Outputs => \A i \in DOMAIN F : ~(Dots(i) > 0))
    BY <1>4 DEF Hindered
  <2> QED
    BY <1>1, <2>1, Takes
<1>6. CASE ~Maps(q)
  <2>1. Prepare(r, q, F, n, {})
    BY <1>6 DEF Begin
  <2>2. Mapped(q) = WantedPlain(q)
    BY <1>6 DEF Mapped
  <2>3. q.printer \in Bambus => q.printer \notin Klippers
    BY DispatchAssumption
  <2> HIDE DEF F, n
  <2> QED
    BY <1>2, <1>3, <1>4, <1>5, <1>6, <2>1, <2>2, <2>3, PrepareKeeps
<1>7. CASE Maps(q)
  <2>1. Rewrite(r, q, F, n, "mapped")
    BY <1>7 DEF Begin
  <2> DEFINE x == [q EXCEPT !.at = "rewriting", !.path = n, !.step = "mapped"]
  <2>2. /\ x \in Request /\ x.at = "rewriting" /\ x.path = n /\ x.step = "mapped"
        /\ x.place = q.place /\ x.printer = q.printer /\ x.mapping = q.mapping
        /\ x.flags = q.flags /\ x.in = FALSE /\ x.out = FALSE /\ x.temps = {}
    BY <1>2 DEF Request, At
  <2>3. /\ req' = [req EXCEPT ![r] = x]
        /\ file' = [file EXCEPT ![q.place] = F] /\ UNCHANGED there
    BY <2>1 DEF Rewrite
  <2> HIDE DEF x
  <2>4. x # Idle /\ Maps(x)
    BY <1>7, <2>2, IdleIdles DEF Maps
  <2>5. RequestOK(x)
    BY <1>1, <2>2, <2>4 DEF RequestOK
  <2>6. RequestMoves(r, q.place, x)
    BY <1>1, <1>4, <2>2, <2>3, <2>5, MovesAlone
  <2>7. MapsFairly(r, q.place, x, {})
    BY <1>7 DEF MapsFairly, Begin, Met
  <2>8. ASSUME r \notin disturbed' PROVE Clear(r, x, F)
    <3>1. Met(q) = {}
      BY <1>4, <1>7, <2>8 DEF Hindered
    <3>2. q.printer \in Klippers
      BY <1>7 DEF Maps
    <3> QED
      BY <1>5, <2>2, <2>8, <3>1, <3>2 DEF Clear, Met
  <2> HIDE DEF F
  <2> QED
    BY <1>3, <1>4, <2>3, <2>4, <2>6, <2>7, <2>8, RunsKeeps
<1> QED
  BY <1>6, <1>7

LEMMA SavePausesKeeps ==
  ASSUME Inv, NEW r \in Requests, NEW pl \in Outputs, SavePauses(r, pl)
  PROVE  Inv'
<1>0. PICK q : q = New(pl, NoPrinter, NoMapping, FALSE)
  OBVIOUS
<1>1. /\ pl \in Places
      /\ q \in Request /\ q.place = pl /\ q.printer = NoPrinter
      /\ q.mapping = NoMapping /\ q.flags = FALSE
      /\ q.in = FALSE /\ q.out = FALSE /\ q.temps = {}
  BY <1>0, Kinds, TextTypes DEF New, Request, At, Places
<1> DEFINE m == Append(Source(q), "paused")
<1>9. PICK F : F = Without(file[pl], {m})
  OBVIOUS
<1>2. /\ req[r] = Idle /\ there[pl] = "present" /\ Source(q) \in DOMAIN file[pl]
      /\ \/ Rewrite(r, q, F, Source(q), "paused")
         \/ file' = [file EXCEPT ![pl] = F] /\ UNCHANGED <<there, req>>
      /\ UNCHANGED <<archive, history, crashes>>
  BY <1>0, <1>9 DEF SavePauses
<1>3. Files(file[pl]) /\ Source(q) \in Name
  BY <1>1, <1>2 DEF Inv, PlacesInv, PlaceInv, Files
<1>4. m \in Name /\ m # Original
  BY <1>3, Derived DEF Step
<1>5. Aside(r)
  BY <1>2 DEF Aside, history
<1>6. Ready(r, q, file[pl], {m}, {})
  BY <1>1, <1>2, <1>4, ReadyNow, IdleIdles
<1>7. CASE Rewrite(r, q, F, Source(q), "paused")
  <2>0. PICK x : x = [q EXCEPT !.at = "rewriting", !.path = Source(q), !.step = "paused"]
    OBVIOUS
  <2>1. /\ x \in Request /\ x.at = "rewriting" /\ x.step = "paused"
        /\ x.place = q.place /\ x.printer = NoPrinter /\ x.mapping = NoMapping
        /\ x.flags = FALSE /\ x.temps = {}
    BY <2>0, <1>1, <1>3 DEF Request, At
  <2>2. /\ req' = [req EXCEPT ![r] = x]
        /\ file' = [file EXCEPT ![q.place] = F] /\ UNCHANGED there
    BY <2>0, <1>1, <1>7 DEF Rewrite
  <2>3. x # Idle /\ ~Maps(x)
    BY <2>1, IdleIdles DEF Maps
  <2>4. RequestOK(x)
    BY <1>1, <1>2, <2>1, <2>3 DEF RequestOK
  <2>5. RequestMoves(r, q.place, x)
    BY <1>1, <1>2, <1>5, <2>1, <2>2, <2>4, MovesAlone
  <2>6. MapsFairly(r, q.place, x, {})
    BY <2>3 DEF MapsFairly
  <2>7. r \notin disturbed' => Clear(r, x, F)
    BY <2>1, <2>3 DEF Clear
  <2>8. DOMAIN F = DOMAIN file[pl] \ {m} /\ Changed(file[pl], F, {})
    BY <1>3, <1>4, <1>9, WithoutChanges
  <2>9. PICK T : T = {}
    OBVIOUS
  <2>10. Ready(r, q, F, T, {}) /\ \A n \in T : Owns(x, n)
    BY <1>1, <1>6, <2>8, <2>9 DEF Ready, Changed
  <2> QED
    BY <1>5, <2>2, <2>3, <2>5, <2>6, <2>7, <2>10, RunsKeeps
<1>8. CASE file' = [file EXCEPT ![pl] = F] /\ UNCHANGED <<there, req>>
  <2>1. Tidies(pl, file[pl], {m})
    BY <1>8, <1>9, PlaceKinds DEF Tidies
  <2>2. req' = [req EXCEPT ![r] = Idle]
    BY <1>2, <1>8 DEF Inv, RequestsInv
  <2> QED
    BY <1>1, <1>5, <1>6, <2>1, <2>2, EndsKeeps DEF Ends
<1> QED
  BY <1>2, <1>7, <1>8
----------------------------------------------------------------------------
(* The streams of a rewriting *)

LEMMA InRewriting ==
  ASSUME Inv, NEW r \in Requests, req[r].at \in At \ {"idle"}
  PROVE  /\ req[r] # Idle /\ r \in Active /\ RequestOK(req[r])
         /\ req[r] \in Request /\ req[r].place \in Places
         /\ there[req[r].place] # "none"
         /\ Files(file[req[r].place])
<1>1. req[r] # Idle
  BY IdleIdles
<1>2. r \in Active /\ RequestOK(req[r])
  BY <1>1 DEF Active, Inv, RequestsInv
<1>3. req[r] \in Request /\ req[r].place \in Places
  BY <1>2, RequestFields DEF RequestOK
<1> QED
  BY <1>1, <1>2, <1>3 DEF RequestOK, Inv, PlacesInv, PlaceInv

\* The files are as they were, and r is x.
LEMMA StaysKeeps ==
  ASSUME Inv, NEW r \in Requests, NEW q, NEW x, q = req[r],
         RequestOK(q), RequestOK(x), Aside(r),
         req' = [req EXCEPT ![r] = x],
         UNCHANGED <<there, file>>,
         x.at = q.at, x.place = q.place, x.step = q.step, x.path = q.path,
         x.temps = q.temps, x.out = q.out, Maps(x) <=> Maps(q),
         r \notin disturbed' => Clear(r, x, file[q.place])
  PROVE  Inv'
<1> DEFINE F == file[q.place]
<1>1. q \in Request /\ q.place \in Places /\ q # Idle /\ x # Idle
      /\ there[q.place] # "none"
  BY RequestFields, IdleIdles DEF RequestOK
<1>2. RequestMoves(r, q.place, x)
  BY <1>1, MovesAlone
<1>3. FilesMove(q.place, F, {})
  <2>1. file = [file EXCEPT ![q.place] = F]
    BY <1>1 DEF Inv, PlacesInv
  <2>2. file' = [file EXCEPT ![q.place] = F] /\ there' = there /\ archive' = archive
    BY <2>1 DEF Aside
  <2>3. PlaceInv(q.place)
    BY <1>1 DEF Inv, PlacesInv
  <2> QED
    BY <2>2, <2>3 DEF FilesMove, PlaceInv
<1>4. MapsFairly(r, q.place, x, {})
  BY <1>1 DEF MapsFairly
<1>5. WritersMove(r, q.place, x, F)
  <2> SUFFICES ASSUME NEW n \in DOMAIN F, NEW s \in F[n].writers
               PROVE  \/ s # r
                      \/ s = r /\ x.at = "rewriting" /\ x.out /\ n = Target(x)
    BY DEF WritersMove
  <2>1. s \in Active /\ Writes(s, q.place, n)
    BY <1>1 DEF Inv, WritersInv
  <2> QED
    BY <2>1 DEF Writes, Target
<1>6. Tidy(r, q.place, x, F)
  BY <1>1 DEF Tidy, Aside, Owns, Target
<1>7. PICK K \in SUBSET {"mapped", "flags", "paused"} : K = {}
  OBVIOUS
<1> QED
  BY <1>1, <1>2, <1>3, <1>4, <1>5, <1>6, <1>7, HandledKeeps DEF Handled

LEMMA InputOpensKeeps ==
  ASSUME Inv, NEW r \in Requests, InputOpens(r)
  PROVE  Inv'
<1>0. PICK q : q = req[r]
  OBVIOUS
<1> DEFINE F == file[q.place]
<1>1. q.at = "rewriting" /\ q.path \in DOMAIN F /\ UNCHANGED <<there, archive, file, history, crashes>>
  BY <1>0 DEF InputOpens
<1>2. RequestOK(q) /\ q \in Request /\ q.place \in Places /\ Files(F) /\ r \in Active
  BY <1>0, <1>1, InRewriting DEF At
<1>3. PICK t \in Text : t = Content(F[q.path])
  BY <1>1, <1>2, TextTypes DEF Files
<1>4. PICK x : x = [q EXCEPT !.in = TRUE, !.text = t]
  OBVIOUS
<1>5. /\ x \in Request /\ x.at = q.at /\ x.place = q.place /\ x.printer = q.printer
      /\ x.mapping = q.mapping /\ x.flags = q.flags /\ x.step = q.step
      /\ x.out = q.out /\ x.path = q.path /\ x.temps = q.temps
      /\ x.text = t
  BY <1>2, <1>4 DEF Request
<1>6. req' = [req EXCEPT ![r] = x]
  BY <1>0, <1>2, <1>3, <1>4 DEF InputOpens, Inv, RequestsInv
<1>7. RequestOK(x) /\ (Maps(x) <=> Maps(q)) /\ Target(x) = Target(q)
  BY <1>2, <1>5 DEF RequestOK, Maps, Target
<1>8. ASSUME r \notin disturbed' PROVE Clear(r, x, F)
  <2>1. Clear(r, q, F)
    BY <1>0, <1>1, <1>2, <1>8 DEF Inv, ClearInv, history
  <2>2. ASSUME Maps(q)
        PROVE  t = [of |-> q.place, plate |-> 1, done |-> <<>>]
    <3>1. q.path = (IF q.place \in archive THEN <<"extracted">> ELSE Original)
      BY <1>1, <2>1, <2>2 DEF Clear
    <3>2. F[q.path] = Plain(q.place, 1)
      BY <1>1, <1>2, <3>1 DEF Inv, PlacesInv, PlaceInv
    <3>3. Plain(q.place, 1).texts = {[of |-> q.place, plate |-> 1, done |-> <<>>]}
          /\ Plain(q.place, 1).writers = {}
      BY DEF Plain
    <3> QED
      BY <1>3, <3>2, <3>3, ContentOfOne
  <2> QED
    BY <1>1, <1>5, <1>7, <2>1, <2>2 DEF Clear
<1>9. Aside(r)
  BY <1>1 DEF Aside, history
<1>10. UNCHANGED <<there, file>>
  BY <1>1
<1> HIDE DEF F
<1> QED
  BY <1>0, <1>2, <1>5, <1>6, <1>7, <1>8, <1>9, <1>10, StaysKeeps DEF F

\* Unlinking twice is unlinking once.
LEMMA TidyTwice ==
  ASSUME NEW p, NEW F, NEW T, Tidies(p, F, T)
  PROVE  Tidies(p, Without(F, T), {})
  BY DEF Tidies, Without

LEMMA InputFailsKeeps ==
  ASSUME Inv, NEW r \in Requests, InputFails(r)
  PROVE  Inv'
<1>0. PICK q, F, G : /\ q = req[r] /\ F = file[q.place]
                    /\ G = Without(F, {Target(q)})
  OBVIOUS
<1>1. /\ q.at = "rewriting" /\ Tidies(q.place, F, {Target(q)})
      /\ UNCHANGED <<archive, litter, crashes>>
  BY <1>0 DEF InputFails
<1>2. RequestOK(q) /\ q \in Request /\ q.place \in Places /\ Files(F) /\ r \in Active
  BY <1>0, <1>1, InRewriting DEF At
<1>3. PICK x : x = IF q.out THEN Idle ELSE [q EXCEPT !.at = "failed"]
  OBVIOUS
<1>4. ~q.out => /\ x \in Request /\ x.at = "failed" /\ x.place = q.place
                /\ x.printer = q.printer /\ x.mapping = q.mapping
                /\ x.flags = q.flags /\ x.step = q.step /\ x.temps = q.temps
  BY <1>2, <1>3 DEF Request, At
<1>5. /\ req' = [req EXCEPT ![r] = x]
      /\ disturbed' = IF q.out THEN disturbed \ {r} ELSE disturbed
  BY <1>0, <1>3 DEF InputFails
<1>6. req'[r] = x /\ (x # Idle => ~q.out)
  BY <1>3, <1>5 DEF Inv, RequestsInv
<1>7. Aside(r)
  <2>1. disturbed \subseteq disturbed' \cup {r} /\ (~q.out => disturbed' = disturbed)
    BY <1>5
  <2> QED
    BY <1>1, <1>6, <2>1 DEF Aside
<1>8. ASSUME x # Idle
      PROVE  RequestOK(x) /\ x.place = q.place /\ (Maps(x) <=> Maps(q))
  <2>1. /\ x \in Request /\ x.at = "failed" /\ x.place = q.place
        /\ x.printer = q.printer /\ x.mapping = q.mapping
        /\ x.flags = q.flags /\ x.step = q.step /\ x.temps = q.temps
    BY <1>4, <1>6, <1>8
  <2>2. Maps(x) <=> Maps(q)
    BY <2>1 DEF Maps
  <2> QED
    BY <1>1, <1>2, <2>1, <2>2 DEF RequestOK
<1>9. RequestMoves(r, q.place, x)
  BY <1>0, <1>2, <1>5, <1>7, <1>8, MovesAlone
<1>10. Tidies(q.place, G, {})
  BY <1>0, <1>1, TidyTwice
<1>11. Target(q) # Original
  BY <1>2, RequestFields
<1>12. DOMAIN G = DOMAIN F \ {Target(q)} /\ Changed(F, G, {})
  BY <1>0, <1>2, <1>11, WithoutChanges
<1>13. \A n \in DOMAIN G : n \in DOMAIN F /\ G[n] = F[n] /\ n # Target(q)
  BY <1>12 DEF Changed
<1>14. \A n \in DOMAIN F : \A s \in F[n].writers : s = r => n = Target(q)
  BY <1>0, <1>2 DEF Inv, WritersInv, Writes
<1>15. PICK T : T = {}
  OBVIOUS
<1>16. there[q.place] # "present" => DOMAIN F = {}
  BY <1>0, <1>2 DEF Inv, PlacesInv, PlaceInv
<1>17. Ready(r, q, G, T, {})
  <2>1. \A n \in DOMAIN G : ~Owns(q, n)
    BY <1>1, <1>13 DEF Owns
  <2>2. /\ q.printer \in Klippers \/ (q.mapping = NoMapping /\ ~q.flags)
        /\ there[q.place] # "none"
    BY <1>2 DEF RequestOK
  <2>3. there[q.place] # "present" => DOMAIN G = {}
    BY <1>12, <1>16
  <2>4. \A n \in DOMAIN G : \A s \in G[n].writers :
          s # r /\ n \in DOMAIN F /\ s \in F[n].writers
    BY <1>13, <1>14
  <2>5. T \subseteq Name /\ Original \notin T
    BY <1>15
  <2>6. Changed(file[q.place], G, {})
    BY <1>0, <1>12
  <2>7. \A n \in DOMAIN G : \A s \in G[n].writers :
          s # r /\ n \in DOMAIN file[q.place] /\ s \in file[q.place][n].writers
    BY <1>0, <2>4
  <2>8. \A n \in DOMAIN G :
          n \in DOMAIN file[q.place] /\ ~(req[r] # Idle /\ Owns(req[r], n))
    BY <1>0, <1>13, <2>1
  <2>9. req[r] # Idle => req[r].place = q.place
    BY <1>0
  <2>10. q \in Request
    BY <1>2
  <2> QED
    BY <2>2, <2>3, <2>5, <2>6, <2>7, <2>8, <2>9, <2>10, Zenon DEF Ready
<1>18. x # Idle => x.at = "failed" /\ (Maps(x) => req[r] # Idle /\ Maps(req[r]))
  BY <1>0, <1>2, <1>4, <1>6, <1>8 DEF Active
<1> QED
  BY <1>7, <1>9, <1>10, <1>15, <1>17, <1>18, TidiesKeeps

\* Nobody else writes the mapped file of an undisturbed request.
LEMMA SoleWriter ==
  ASSUME Inv, NEW r \in Active, NEW q, NEW F, NEW n, q = req[r], F = file[q.place],
         n = Target(q), q.at = "rewriting", Maps(q), Clear(r, q, F),
         n \in DOMAIN F, NEW s \in F[n].writers
  PROVE  s = r
<1> SUFFICES ASSUME s # r PROVE FALSE
  OBVIOUS
<1>1. RequestOK(q) /\ q.place \in Places /\ Kind(n) = q.step
  BY RequestFields DEF Inv, RequestsInv, RequestOK
<1>2. s \in Active /\ Writes(s, q.place, n)
  BY <1>1 DEF Inv, WritersInv
<1>3. RequestOK(req[s]) /\ Kind(n) = req[s].step
  BY <1>2, RequestFields DEF Inv, RequestsInv, RequestOK, Writes
<1>4. q.step = "mapped"
  BY <1>1 DEF RequestOK
<1>5. Maps(req[s]) /\ req[s].place = q.place
  BY <1>1, <1>2, <1>3, <1>4 DEF RequestOK, Writes
<1> QED
  BY <1>2, <1>5 DEF Clear

LEMMA OutputOpensKeeps ==
  ASSUME Inv, NEW r \in Requests, OutputOpens(r)
  PROVE  Inv'
<1>0. PICK q, F, n, G, x :
        /\ q = req[r] /\ F = file[q.place] /\ n = Target(q)
        /\ G = Truncated(F, n, r) /\ x = [q EXCEPT !.out = TRUE]
  OBVIOUS
<1>1. /\ q.at = "rewriting" /\ ~q.out /\ there[q.place] = "present"
      /\ UNCHANGED <<there, archive, history, crashes>>
  BY <1>0 DEF OutputOpens
<1>2. /\ RequestOK(q) /\ q \in Request /\ q.place \in Places /\ Files(F)
      /\ r \in Active /\ q # Idle
  BY <1>0, <1>1, InRewriting DEF At
<1>3. /\ file' = [file EXCEPT ![q.place] = G]
      /\ req' = [req EXCEPT ![r] = x]
  BY <1>0, <1>2 DEF OutputOpens, Inv, PlacesInv, RequestsInv
<1>4. /\ x \in Request /\ x.at = "rewriting" /\ x.place = q.place
      /\ x.printer = q.printer /\ x.mapping = q.mapping /\ x.flags = q.flags
      /\ x.step = q.step /\ x.in = q.in /\ x.out /\ x.path = q.path
      /\ x.temps = q.temps /\ x.text = q.text
  BY <1>0, <1>1, <1>2 DEF Request
<1>5. n \in Name /\ n # Original /\ Kind(n) = q.step /\ q.step \in {"mapped", "paused"}
  BY <1>0, <1>2, RequestFields
<1>6. /\ DOMAIN G = DOMAIN F \cup {n}
      /\ G[n].writers = (IF n \in DOMAIN F THEN F[n].writers ELSE {}) \cup {r}
      /\ (n \in DOMAIN F => F[n].writers = {}) => G[n].texts = {}
      /\ \A m \in DOMAIN F \ {n} : G[m] = F[m]
      /\ Changed(F, G, {Kind(n)})
  BY <1>0, <1>2, <1>5, TruncatedChanges
<1>7. Target(x) = n /\ (Maps(x) <=> Maps(q)) /\ x # Idle
  BY <1>0, <1>4, IdleIdles DEF Target, Maps
<1>8. RequestOK(x)
  BY <1>1, <1>2, <1>4, <1>7 DEF RequestOK
<1>9. Aside(r)
  BY <1>1 DEF Aside, history
<1>10. RequestMoves(r, q.place, x)
  BY <1>0, <1>2, <1>3, <1>4, <1>8, <1>9, MovesAlone
<1>11. FilesMove(q.place, G, {q.step})
  BY <1>0, <1>1, <1>3, <1>5, <1>6 DEF FilesMove, Changed
<1>12. MapsFairly(r, q.place, x, {q.step})
  BY <1>0, <1>1, <1>2, <1>7 DEF MapsFairly, RequestOK
<1>13. WritersMove(r, q.place, x, G)
  <2> SUFFICES ASSUME NEW m \in DOMAIN G, NEW s \in G[m].writers
               PROVE  \/ s # r /\ m \in DOMAIN F /\ s \in F[m].writers
                      \/ s = r /\ x.at = "rewriting" /\ x.out /\ m = Target(x)
    BY <1>0 DEF WritersMove
  <2>1. CASE m = n
    BY <1>4, <1>6, <1>7, <2>1
  <2>2. CASE m # n
    <3>1. m \in DOMAIN F /\ s \in F[m].writers
      BY <1>6, <2>2
    <3>2. s # r
      BY <1>0, <1>1, <1>2, <3>1 DEF Inv, WritersInv, Writes
    <3> QED
      BY <3>1, <3>2
  <2> QED
    BY <2>1, <2>2
<1>14. Tidy(r, q.place, x, G)
  <2>1. ASSUME NEW m \in DOMAIN G, Kind(m) \in {"mapped", "flags"}
        PROVE  Owns(x, m) \/ (m \in DOMAIN F /\ ~Owns(q, m))
    <3>1. CASE m = n
      BY <1>4, <1>5, <1>7, <2>1, <3>1 DEF Owns
    <3>2. CASE m # n
      BY <1>0, <1>1, <1>6, <3>2 DEF Owns
    <3> QED
      BY <3>1, <3>2
  <2> QED
    BY <1>0, <1>7, <1>9, <2>1 DEF Tidy, Aside
<1>15. ASSUME r \notin disturbed' PROVE Clear(r, x, G)
  <2>1. Clear(r, q, F)
    BY <1>0, <1>1, <1>2, <1>15 DEF Inv, ClearInv, history
  <2>2. ASSUME Maps(q) PROVE n \in DOMAIN F => F[n].writers = {}
    <3> SUFFICES ASSUME n \in DOMAIN F, NEW s \in F[n].writers PROVE FALSE
      OBVIOUS
    <3>1. s = r
      BY <1>0, <1>1, <1>2, <2>1, <2>2, SoleWriter
    <3>2. Writes(s, q.place, n)
      BY <1>0, <1>2 DEF Inv, WritersInv
    <3> QED
      BY <1>0, <1>1, <3>1, <3>2 DEF Writes
  <2> QED
    BY <1>1, <1>4, <1>6, <1>7, <2>1, <2>2 DEF Clear
<1>16. {q.step} \in SUBSET {"mapped", "flags", "paused"}
  BY <1>5
<1> QED
  BY <1>1, <1>2, <1>10, <1>11, <1>12, <1>13, <1>14, <1>15, <1>16, HandledKeeps DEF Handled

LEMMA OutputFailsKeeps ==
  ASSUME Inv, NEW r \in Requests, OutputFails(r)
  PROVE  Inv'
<1>0. PICK q, F, T : q = req[r] /\ F = file[q.place] /\ T = {}
  OBVIOUS
<1>1. /\ q.at = "rewriting" /\ there[q.place] = "removed"
      /\ Ends(r, q.place, F, T) /\ disturbed' = disturbed \ {r}
      /\ UNCHANGED <<archive, litter, crashes>>
  BY <1>0 DEF OutputFails
<1>2. /\ RequestOK(q) /\ q \in Request /\ q.place \in Places /\ Files(F)
  BY <1>0, <1>1, InRewriting DEF At
<1>3. DOMAIN F = {}
  BY <1>0, <1>1, <1>2 DEF Inv, PlacesInv, PlaceInv
<1>4. Ready(r, q, F, T, {})
  BY <1>0, <1>1, <1>2, <1>3 DEF Ready, RequestOK, Changed, Files
<1>5. Aside(r)
  BY <1>1 DEF Aside, Ends, Inv, RequestsInv
<1> QED
  BY <1>1, <1>4, <1>5, EndsKeeps

LEMMA LateOutputKeeps ==
  ASSUME Inv, NEW r \in Requests, LateOutput(r)
  PROVE  Inv'
<1>0. PICK q, F, n : q = req[r] /\ F = file[q.place] /\ n = Target(q)
  OBVIOUS
<1> DEFINE E == Truncated(F, n, r)
           W == Finished(E, n, r, Garbled)
           G == IF there[q.place] = "present" THEN W ELSE F
<1>1. /\ q.at = "failed" /\ disturbed' = disturbed \ {r}
      /\ req' = [req EXCEPT ![r] = Idle]
      /\ UNCHANGED <<there, archive, crashes>>
      /\ litter \subseteq litter'
      /\ there[q.place] = "present" => <<q.place, n>> \in litter'
  BY <1>0 DEF LateOutput
<1>2. /\ RequestOK(q) /\ q \in Request /\ q.place \in Places /\ Files(F)
      /\ r \in Active /\ q # Idle
  BY <1>0, <1>1, InRewriting DEF At
<1>3. file' = [file EXCEPT ![q.place] = G]
  <2>1. CASE there[q.place] = "present"
    BY <1>0, <1>2, <2>1 DEF E, LateOutput, Inv, PlacesInv
  <2>2. CASE there[q.place] # "present"
    <3>1. file = [file EXCEPT ![q.place] = F]
      BY <1>0, <1>2 DEF Inv, PlacesInv
    <3> QED
      BY <1>0, <2>2, <3>1 DEF LateOutput
  <2> QED
    BY <2>1, <2>2
<1>4. n \in Name /\ n # Original /\ Kind(n) = q.step /\ q.step \in {"mapped", "paused"}
  BY <1>0, <1>2, RequestFields
<1>5. /\ DOMAIN E = DOMAIN F \cup {n}
      /\ E[n].writers = (IF n \in DOMAIN F THEN F[n].writers ELSE {}) \cup {r}
      /\ (n \in DOMAIN F => F[n].writers = {}) => E[n].texts = {}
      /\ \A m \in DOMAIN F \ {n} : E[m] = F[m]
      /\ Changed(F, E, {Kind(n)})
  <2>1. Files(F)
    BY <1>0, <1>2
  <2> QED
    BY <1>4, <2>1, TruncatedChanges
<1> HIDE DEF E
<1>6. \A m \in DOMAIN F : r \notin F[m].writers
  BY <1>0, <1>1, <1>2 DEF Inv, WritersInv, Writes
\* What is left: the file of another writer, or one in no list.
<1>7. /\ DOMAIN G \subseteq DOMAIN F \cup (IF there[q.place] = "present" THEN {n} ELSE {})
      /\ \A m \in DOMAIN G : \A s \in G[m].writers :
           s # r /\ m \in DOMAIN F /\ s \in F[m].writers
      /\ \A m \in DOMAIN G \ {n} : m \in DOMAIN F /\ G[m] = F[m]
      /\ Changed(F, G, {q.step})
  <2>1. CASE there[q.place] = "present"
    <3>1. Files(E)
      BY <1>5 DEF Changed
    <3>2. /\ DOMAIN G = DOMAIN E
          /\ n \in DOMAIN E => G[n].writers = E[n].writers \ {r}
          /\ n \in DOMAIN E /\ r \in E[n].writers =>
               G[n].texts = E[n].texts \cup {Garbled}
          /\ \A m \in DOMAIN E \ {n} : G[m] = E[m]
          /\ Changed(E, G, {Kind(n)})
      <4>1. /\ DOMAIN W = DOMAIN E
            /\ n \in DOMAIN E => W[n].writers = E[n].writers \ {r}
            /\ n \in DOMAIN E /\ r \in E[n].writers =>
                 W[n].texts = E[n].texts \cup {Garbled}
            /\ \A m \in DOMAIN E \ {n} : W[m] = E[m]
            /\ Changed(E, W, {Kind(n)})
        <5> HIDE DEF G
        <5> QED
          BY <1>4, <3>1, FinishedChanges, TextTypes
      <4>2. G = W
        BY <2>1
      <4> HIDE DEF G, W
      <4> QED
        BY <4>1, <4>2
    <3>3. Changed(F, G, {q.step})
      BY <1>4, <1>5, <3>2 DEF Changed
    <3> QED
      BY <1>5, <1>6, <2>1, <3>2, <3>3
  <2>2. CASE there[q.place] # "present"
    BY <1>0, <1>2, <1>6, <2>2 DEF Changed, Files
  <2> QED
    BY <2>1, <2>2
<1> HIDE DEF G, W
<1>8. FilesMove(q.place, G, {q.step})
  <2>1. there[q.place] # "present" => DOMAIN G = {}
    BY <1>0, <1>2, <1>7 DEF Inv, PlacesInv, PlaceInv
  <2>2. Changed(F, G, {q.step})
    BY <1>7
  <2>3. there' = there /\ archive' = archive
    BY <1>1
  <2> QED
    BY <1>0, <1>3, <2>1, <2>2, <2>3 DEF FilesMove, Changed
<1>9. RequestMoves(r, q.place, Idle)
  <2>1. req' = [s \in Requests |-> req'[s]] /\ req'[r] = Idle
        /\ \A s \in Requests \ {r} : Spared(s)
    BY <1>1 DEF Inv, RequestsInv, Spared
  <2> QED
    BY <1>0, <1>1, <2>1 DEF RequestMoves
<1>10. MapsFairly(r, q.place, Idle, {q.step})
  BY <1>0, <1>1, <1>2 DEF MapsFairly, RequestOK
<1>11. WritersMove(r, q.place, Idle, G)
  BY <1>0, <1>7 DEF WritersMove
<1>12. Tidy(r, q.place, Idle, G)
  <2>1. \A m \in DOMAIN G : ~Owns(q, m)
    BY <1>1 DEF Owns
  <2> QED
    BY <1>0, <1>1, <1>7, <2>1 DEF Tidy
<1>13. {q.step} \in SUBSET {"mapped", "flags", "paused"}
  BY <1>4
<1> QED
  BY <1>2, <1>8, <1>9, <1>10, <1>11, <1>12, <1>13, HandledKeeps DEF Handled, RequestOK
LEMMA RewriteEndsKeeps ==
  ASSUME Inv, NEW r \in Requests, RewriteEnds(r)
  PROVE  Inv'
<1>0. PICK q, F, n, t : /\ q = req[r] /\ F = file[q.place] /\ n = Target(q)
                       /\ t = Applied(q.text, IF q.step = "mapped" THEN q.mapping
                                              ELSE q.step)
  OBVIOUS
<1>a. PICK G : G = Finished(F, n, r, t)
  OBVIOUS
<1>1. /\ q.at = "rewriting" /\ q.in /\ q.out
      /\ disturbed' = IF req'[r] = Idle THEN disturbed \ {r} ELSE disturbed
      /\ UNCHANGED <<archive, litter, crashes>>
      /\ q.step = "mapped" => Prepare(r, q, G, n, {n})
      /\ q.step # "mapped" => Ends(r, q.place, G, {})
  BY <1>0, <1>a DEF RewriteEnds
<1>2. /\ RequestOK(q) /\ q \in Request /\ q.place \in Places /\ Files(F)
      /\ r \in Active /\ q # Idle
  BY <1>0, <1>1, InRewriting DEF At
<1>3. n \in Name /\ n # Original /\ Kind(n) = q.step /\ q.step \in {"mapped", "paused"}
  BY <1>0, <1>2, RequestFields
<1>4. t \in Text
  <2>1. (IF q.step = "mapped" THEN q.mapping ELSE q.step) \in Mappings \cup Step
    BY <1>1, <1>2, <1>3, RequestFields DEF RequestOK, Maps, Step
  <2> QED
    BY <1>0, <1>2, <2>1, TextTypes, RequestFields
<1>5. /\ DOMAIN G = DOMAIN F
      /\ n \in DOMAIN F => G[n].writers = F[n].writers \ {r}
      /\ n \in DOMAIN F /\ r \in F[n].writers => G[n].texts = F[n].texts \cup {t}
      /\ \A m \in DOMAIN F \ {n} : G[m] = F[m]
      /\ Changed(F, G, {Kind(n)})
  <2> DEFINE W == Finished(F, n, r, t)
  <2>1. /\ DOMAIN W = DOMAIN F
        /\ n \in DOMAIN F => W[n].writers = F[n].writers \ {r}
        /\ n \in DOMAIN F /\ r \in F[n].writers => W[n].texts = F[n].texts \cup {t}
        /\ \A m \in DOMAIN F \ {n} : W[m] = F[m]
        /\ Changed(F, W, {Kind(n)})
    BY <1>2, <1>3, <1>4, FinishedChanges
  <2>2. G = W
    BY <1>a
  <2> HIDE DEF W
  <2> QED
    BY <2>1, <2>2
<1>6. \A m \in DOMAIN F : \A s \in F[m].writers : s = r => m = n
  BY <1>0, <1>2 DEF Inv, WritersInv, Writes
<1>7. \A m \in DOMAIN G : \A s \in G[m].writers :
        s # r /\ m \in DOMAIN F /\ s \in F[m].writers
  BY <1>5, <1>6
<1>8. Aside(r)
  <2>1. disturbed \subseteq disturbed' \cup {r}
        /\ (req'[r] # Idle => disturbed' = disturbed)
    BY <1>1
  <2> QED
    BY <1>1, <2>1 DEF Aside
<1>9. \A m \in Name : Owns(q, m) => q.step = "mapped" /\ m = n
  BY <1>0, <1>1 DEF Owns
<1>10. ASSUME NEW T \in SUBSET Name, Original \notin T, q.step = "mapped" => n \in T
       PROVE  Ready(r, q, G, T, {q.step})
  <2>1. Changed(F, G, {q.step})
    BY <1>3, <1>5
  <2>2. there[q.place] # "present" => DOMAIN G = {}
    BY <1>0, <1>2, <1>5 DEF Inv, PlacesInv, PlaceInv
  <2>3. \A m \in DOMAIN G : m \in DOMAIN F /\ m \in Name
    BY <1>2, <1>5 DEF Files
  <2>4. \A m \in DOMAIN G : m \in T \/ (m \in DOMAIN F /\ ~Owns(q, m))
    BY <1>9, <1>10, <2>3
  <2>5. /\ q.printer \in Klippers \/ (q.mapping = NoMapping /\ ~q.flags)
        /\ there[q.place] # "none"
        /\ q.step = "mapped" => Maps(q)
    BY <1>1, <1>2 DEF RequestOK
  <2> QED
    BY <1>0, <1>2, <1>7, <1>10, <2>1, <2>2, <2>4, <2>5 DEF Ready
<1>11. {q.step} \in SUBSET {"mapped", "flags", "paused"}
  BY <1>3
<1>12. CASE q.step # "mapped"
  <2>1. PICK T \in SUBSET Name : T = {}
    OBVIOUS
  <2>2. Ready(r, q, G, T, {q.step})
    BY <1>10, <1>12, <2>1
  <2>3. Ends(r, q.place, G, T)
    BY <1>1, <1>12, <2>1
  <2> QED
    BY <1>8, <1>11, <2>2, <2>3, EndsKeeps
<1>13. CASE q.step = "mapped"
  <2>1. PICK T \in SUBSET Name : T = {n}
    BY <1>3
  <2>2. Ready(r, q, G, T, {q.step})
    BY <1>3, <1>10, <2>1
  <2>3. Prepare(r, q, G, n, T) /\ T \subseteq {n}
    BY <1>1, <1>13, <2>1
  <2>4. Maps(q) /\ req[r] # Idle /\ Maps(req[r])
    BY <1>0, <1>1, <1>2, <1>13 DEF RequestOK
  <2>5. q.printer \notin Bambus
    BY <2>4, DispatchAssumption DEF Maps
  <2>6. ASSUME n \in DOMAIN G, r \notin disturbed', req'[r] # Idle
        PROVE  Content(G[n]) = Mapped(q)
    <3>1. Clear(r, q, F)
      BY <1>0, <1>1, <1>2, <2>6 DEF Inv, ClearInv
    <3>2. n \in DOMAIN F /\ F[n].texts = {} /\ r \in F[n].writers
          /\ q.text = [of |-> q.place, plate |-> 1, done |-> <<>>]
      BY <1>0, <1>1, <1>5, <2>4, <2>6, <3>1 DEF Clear
    <3>3. ASSUME NEW s \in F[n].writers
          PROVE  s = r
      <4>1. Inv /\ r \in Active /\ q = req[r] /\ F = file[q.place] /\ n = Target(q) /\ q.at = "rewriting"
        BY <1>0, <1>1, <1>2
      <4> QED
        BY <2>4, <3>1, <3>2, <3>3, <4>1, SoleWriter
    <3>4. G[n].texts = {t} /\ G[n].writers = {}
      BY <1>5, <3>2, <3>3
    <3>5. t = Mapped(q)
      BY <1>0, <1>13, <2>4, <3>2 DEF Mapped, WantedPlain, Maps
    <3> QED
      BY <3>4, <3>5, ContentOfOne
  <2> QED
    BY <1>3, <1>8, <1>11, <2>2, <2>3, <2>4, <2>5, <2>6, PrepareKeeps
<1> QED
  BY <1>12, <1>13

----------------------------------------------------------------------------
(* Upload and start *)

\* In a transfer the files are as they were.
LEMMA InTransfer ==
  ASSUME Inv, NEW r \in Requests, NEW q, q = req[r],
         q.at \in {"connecting", "uploading", "starting"}
  PROVE  /\ RequestOK(q) /\ q \in Request /\ q.place \in Places /\ r \in Active
         /\ Ready(r, q, file[q.place], q.temps, {})
<1>1. RequestOK(q) /\ q \in Request /\ q.place \in Places /\ r \in Active
  BY InRewriting DEF At
<1>2. q.temps \in SUBSET Name
  BY <1>1, RequestFields
<1>3. \A n \in Name : req[r] # Idle /\ Owns(req[r], n) => n \in q.temps
  BY DEF Owns
<1> QED
  BY <1>1, <1>2, <1>3, ReadyNow DEF RequestOK

LEMMA StoredMoves ==
  ASSUME Inv, NEW r \in Active, NEW t \in Text, NEW x, Stored(r, t, x),
         Aside(r), Rivals(r) \subseteq disturbed',
         x # Idle => RequestOK(x) /\ x.place = req[r].place
  PROVE  RequestMoves(r, req[r].place, x)
<1>1. req' = [s \in Requests |-> req'[s]] /\ req'[r] = x
  BY DEF Stored, Active
<1>2. ASSUME NEW s \in Requests \ {r} PROVE Spared(s)
  BY DEF Stored, Spared, Rivals
<1> QED
  BY <1>1, <1>2 DEF RequestMoves, Aside

LEMMA SendEndsKeeps ==
  ASSUME Inv, NEW r \in Requests, SendEnds(r)
  PROVE  Inv'
<1>0. PICK q : q = req[r]
  OBVIOUS
<1>1. /\ q.at \in {"connecting", "uploading", "starting"}
      /\ Ends(r, q.place, file[q.place], q.temps)
      /\ disturbed' = disturbed \ {r}
      /\ UNCHANGED <<archive, litter, crashes>>
  BY <1>0 DEF SendEnds
<1>2. Aside(r)
  BY <1>1 DEF Aside, Ends, Inv, RequestsInv
<1> QED
  BY <1>0, <1>1, <1>2, InTransfer, EndsKeeps

LEMMA UploadOnlyEndsKeeps ==
  ASSUME Inv, NEW r \in Requests, UploadOnlyEnds(r)
  PROVE  Inv'
<1>0. PICK q : q = req[r]
  OBVIOUS
<1>1. /\ q.at = "uploading"
      /\ Tidies(q.place, file[q.place], q.temps)
      /\ Stored(r, q.text, Idle)
      /\ disturbed' = (disturbed \cup Rivals(r)) \ {r}
      /\ UNCHANGED <<archive, litter, crashes>>
  BY <1>0 DEF UploadOnlyEnds
<1>2. Aside(r)
  BY <1>1 DEF Aside, Stored
<1>3. RequestOK(q) /\ q \in Request /\ r \in Active
      /\ Ready(r, q, file[q.place], q.temps, {})
  BY <1>0, <1>1, InTransfer
<1>4. RequestMoves(r, q.place, Idle)
  <2>1. q.text \in Text /\ Rivals(r) \subseteq disturbed'
    BY <1>1, <1>3, RequestFields DEF Rivals
  <2> QED
    BY <1>0, <1>1, <1>2, <1>3, <2>1, StoredMoves
<1> QED
  BY <1>1, <1>2, <1>3, <1>4, TidiesKeeps

\* A step within a transfer: the files are as they were.
LEMMA TransferKeeps ==
  ASSUME Inv, NEW r \in Requests, NEW q, q = req[r],
         q.at \in {"connecting", "uploading"}, NEW x \in Request,
         x.at \in {"uploading", "starting"}, x.place = q.place,
         x.printer = q.printer, x.mapping = q.mapping, x.flags = q.flags,
         x.path = q.path, x.temps = q.temps,
         NEW t \in Text, Stored(r, t, x),
         disturbed' = disturbed \cup Rivals(r),
         UNCHANGED <<there, archive, file, litter, crashes>>,
         r \notin disturbed => x.text = Wanted(q)
  PROVE  Inv'
<1>1. RequestOK(q) /\ q \in Request /\ q.place \in Places /\ r \in Active
      /\ Ready(r, q, file[q.place], q.temps, {})
  BY InTransfer
<1>2. x # Idle
  BY IdleIdles
<1>3. Maps(x) <=> Maps(q)
  BY DEF Maps
<1>4. RequestOK(x)
  BY <1>1 DEF RequestOK
<1>5. Aside(r)
  BY DEF Aside
<1>6. RequestMoves(r, q.place, x)
  BY <1>1, <1>4, <1>5, StoredMoves
<1>7. file' = [file EXCEPT ![q.place] = file[q.place]] /\ UNCHANGED there
  <2>1. file = [file EXCEPT ![q.place] = file[q.place]]
    BY <1>1 DEF Inv, PlacesInv
  <2> QED
    BY <2>1
<1>8. \A n \in q.temps : Owns(x, n)
  BY DEF Owns
<1>9. MapsFairly(r, q.place, x, {})
  BY <1>1, <1>3 DEF MapsFairly, Active
<1>10. r \notin disturbed' => Clear(r, x, file[q.place])
  <2>1. Wanted(x) = Wanted(q)
    BY <1>3 DEF Wanted
  <2> QED
    BY <2>1 DEF Clear
<1>11. PICK F, K, T : F = file[q.place] /\ K = {} /\ T = q.temps
  OBVIOUS
<1>12. K \in SUBSET {"mapped", "flags", "paused"}
  BY <1>11
<1> QED
  BY <1>1, <1>2, <1>5, <1>6, <1>7, <1>8, <1>9, <1>10, <1>11, <1>12, RunsKeeps

LEMMA FtpBeginsKeeps ==
  ASSUME Inv, NEW r \in Requests, FtpBegins(r)
  PROVE  Inv'
<1>0. PICK q : q = req[r]
  OBVIOUS
<1>1. /\ q.at = "connecting" /\ q.path \in DOMAIN file[q.place]
      /\ disturbed' = disturbed \cup Rivals(r)
      /\ UNCHANGED <<there, archive, file, litter, crashes>>
  BY <1>0 DEF FtpBegins
<1>2. RequestOK(q) /\ q \in Request /\ q.place \in Places /\ r \in Active
  BY <1>0, <1>1, InTransfer
<1>3. PlaceInv(q.place)
  BY <1>2 DEF Inv, PlacesInv
<1>4. PICK t \in Text : t = Content(file[q.place][q.path])
  BY <1>1, <1>3, TextTypes DEF PlaceInv, Files
<1>5. PICK x : x = [q EXCEPT !.at = "uploading", !.text = t]
  OBVIOUS
<1>6. /\ x \in Request /\ x.at = "uploading" /\ x.place = q.place
      /\ x.printer = q.printer /\ x.mapping = q.mapping /\ x.flags = q.flags
      /\ x.path = q.path /\ x.temps = q.temps /\ x.text = t
  BY <1>2, <1>5 DEF Request, At
<1>7. Stored(r, Garbled, x)
  BY <1>0, <1>4, <1>5 DEF FtpBegins
<1>8. ASSUME r \notin disturbed PROVE t = Wanted(q)
  <2>1. q.path = Original
    BY <1>0, <1>1, <1>2, <1>8 DEF Inv, ClearInv, Clear
  <2>2. q.printer \notin Klippers
    BY <1>1, <1>2, DispatchAssumption DEF RequestOK
  <2>3. Wanted(q) = WantedPlain(q)
    BY <1>2, <2>2, WantedSteps DEF Mapped, Maps
  <2>4. PICK k : k = IF q.place \in archive THEN 0 ELSE 1
    OBVIOUS
  <2>5. file[q.place][q.path] = Plain(q.place, k)
    BY <1>1, <1>3, <2>1, <2>4 DEF PlaceInv
  <2>6. Plain(q.place, k).texts = {WantedPlain(q)} /\ Plain(q.place, k).writers = {}
    BY <2>2, <2>4 DEF Plain, WantedPlain
  <2> QED
    BY <1>4, <2>3, <2>5, <2>6, ContentOfOne
<1> QED
  BY <1>0, <1>1, <1>6, <1>7, <1>8, TransferKeeps, TextTypes

LEMMA UploadEndsKeeps ==
  ASSUME Inv, NEW r \in Requests, UploadEnds(r)
  PROVE  Inv'
<1>0. PICK q, x, t : q = req[r] /\ x = [q EXCEPT !.at = "starting"] /\ t = q.text
  OBVIOUS
<1>1. /\ q.at = "uploading"
      /\ Stored(r, t, x)
      /\ disturbed' = disturbed \cup Rivals(r)
      /\ UNCHANGED <<there, archive, file, litter, crashes>>
  BY <1>0 DEF UploadEnds
<1>2. RequestOK(q) /\ q \in Request /\ r \in Active
  BY <1>0, <1>1, InTransfer
<1>3. /\ x \in Request /\ x.at = "starting" /\ x.place = q.place
      /\ x.printer = q.printer /\ x.mapping = q.mapping /\ x.flags = q.flags
      /\ x.path = q.path /\ x.temps = q.temps /\ x.text = q.text
      /\ t \in Text
  BY <1>0, <1>2 DEF Request, At
<1>4. r \notin disturbed => x.text = Wanted(q)
  BY <1>0, <1>1, <1>2, <1>3 DEF Inv, ClearInv, Clear
<1>5. q = req[r] /\ q.at \in {"connecting", "uploading"}
      /\ x.at \in {"uploading", "starting"}
  BY <1>0, <1>1, <1>3
<1> QED
  BY <1>1, <1>3, <1>4, <1>5, TransferKeeps
----------------------------------------------------------------------------
(* Steps of no request *)

\* Files come into a place no request has, or leave one.
LEMMA PlaceKeeps ==
  ASSUME Inv, NEW p \in Places, PlacesInv',
         \A o \in Places \ {p} : file'[o] = file[o],
         \A o \in Places : there[o] # "none" => there'[o] # "none",
         \A n \in DOMAIN file'[p] : file'[p][n].writers = {},
         DOMAIN file'[p] = {} \/ (there[p] = "none" /\ p \in Stages),
         \A o \in Places : there[o] # "none" => (o \in archive' <=> o \in archive),
         UNCHANGED <<req, history>>
  PROVE  Inv'
<1>1. req' = req /\ disturbed' = disturbed /\ litter' = litter /\ Active' = Active
  BY DEF history, Active
<1>2. ASSUME NEW r \in Active PROVE RequestOK(req[r]) /\ req[r].place \in Places
  BY RequestFields DEF Inv, RequestsInv, RequestOK
<1>3. RequestsInv'
  <2>1. ASSUME NEW r \in Active PROVE RequestOK(req[r])'
    <3>1. RequestOK(req[r]) /\ there'[req[r].place] # "none"
      BY <1>2 DEF RequestOK
    <3> QED
      BY <1>1, <3>1 DEF RequestOK, Maps
  <2> QED
    BY <1>1, <2>1 DEF Inv, RequestsInv
<1>4. WritersInv'
  <2> SUFFICES ASSUME NEW o \in Places, NEW n \in DOMAIN file'[o],
                      NEW s \in file'[o][n].writers
               PROVE  s \in Active' /\ Writes(s, o, n)'
    BY DEF WritersInv
  <2>1. o # p /\ n \in DOMAIN file[o] /\ s \in file[o][n].writers
    OBVIOUS
  <2>2. s \in Active /\ Writes(s, o, n)
    BY <2>1 DEF Inv, WritersInv
  <2> QED
    BY <1>1, <2>2 DEF Writes, Target
<1>5. ClearInv'
  <2> SUFFICES ASSUME NEW r \in Active, r \notin disturbed
               PROVE  Clear(r, req[r], file[req[r].place])'
    BY <1>1 DEF ClearInv
  <2>1. PICK q, F, H : q = req[r] /\ F = file[q.place] /\ H = file'[q.place]
    OBVIOUS
  <2>2. Clear(r, q, F) /\ q.place \in Places /\ there[q.place] # "none"
    BY <1>2, <2>1 DEF Inv, ClearInv, RequestOK
  <2>3. q.place \in archive' <=> q.place \in archive
    BY <2>2
  <2>4. H = F \/ DOMAIN H = {}
    BY <2>1, <2>2
  <2>5. Wanted(q)' = Wanted(q)
    BY <2>3 DEF Wanted, Maps
  <2>6. q.path = (IF q.place \in archive THEN <<"extracted">> ELSE Original) =>
        q.path = (IF q.place \in archive' THEN <<"extracted">> ELSE Original)
    BY <2>3
  <2>7. Clear(r, q, H)'
    BY <1>1, <2>2, <2>4, <2>5, <2>6 DEF Clear, Maps, Target
  <2> QED
    BY <1>1, <2>1, <2>7
<1>6. TempHasOwner'
  <2> SUFFICES ASSUME NEW o \in Outputs, NEW n \in DOMAIN file'[o], Temporary(n)
               PROVE  \/ \E r \in Active : req[r].place = o /\ Owns(req[r], n)
                      \/ <<o, n>> \in litter
    BY <1>1 DEF TempHasOwner, Owns, Target
  <2>1. o \in Places /\ o # p
    BY PlaceKinds
  <2>2. n \in DOMAIN file[o]
    BY <2>1
  <2> QED
    BY <2>2 DEF Inv, TempHasOwner
<1> QED
  BY <1>3, <1>4, <1>5, <1>6 DEF Inv

LEMMA RemoveOutputKeeps ==
  ASSUME Inv, NEW pl \in Outputs, RemoveOutput(pl)
  PROVE  Inv'
<1>1. /\ there' = [there EXCEPT ![pl] = "removed"]
      /\ file' = [file EXCEPT ![pl] = NoFiles]
      /\ archive' = archive /\ UNCHANGED <<req, history>>
  BY DEF RemoveOutput
<1>2. pl \in Places /\ DOMAIN NoFiles = {}
  BY PlaceKinds DEF NoFiles
<1>3. /\ file'[pl] = NoFiles /\ there'[pl] = "removed"
      /\ \A o \in Places \ {pl} : file'[o] = file[o] /\ there'[o] = there[o]
      /\ there' = [p \in Places |-> there'[p]]
      /\ file' = [p \in Places |-> file'[p]]
  BY <1>1, <1>2 DEF Inv, PlacesInv
<1>4. ASSUME NEW o \in Places \ {pl} PROVE PlaceInv(o)'
  <2>1. PlaceInv(o) /\ file'[o] = file[o] /\ there'[o] = there[o]
    BY <1>3 DEF Inv, PlacesInv
  <2> QED
    BY <1>1, <2>1 DEF PlaceInv
<1>5. PlaceInv(pl)'
  BY <1>2, <1>3 DEF PlaceInv, Files
<1>6. PlacesInv'
  <2>1. archive \subseteq Stages /\ \A p \in archive : there[p] # "none"
    BY DEF Inv, PlacesInv
  <2>2. \A p \in archive : there'[p] # "none"
    BY <1>3, <2>1, PlaceKinds
  <2> QED
    BY <1>1, <1>3, <1>4, <1>5, <2>1, <2>2 DEF PlacesInv
<1> QED
  BY <1>1, <1>2, <1>3, <1>6, PlaceKeeps

LEMMA StageFileKeeps ==
  ASSUME Inv, NEW pl \in Stages, NEW is3mf \in BOOLEAN, StageFile(pl, is3mf)
  PROVE  Inv'
<1>0. PICK G : G = file'[pl]
  OBVIOUS
<1>1. /\ there[pl] = "none" /\ there' = [there EXCEPT ![pl] = "present"]
      /\ UNCHANGED <<req, history>>
  BY DEF StageFile
<1>2. pl \in Places /\ DOMAIN NoFiles = {} /\ pl \notin archive
  BY <1>1, PlaceKinds DEF NoFiles, Inv, PlacesInv
<1>3. /\ \A o \in Places \ {pl} : file'[o] = file[o] /\ there'[o] = there[o]
      /\ there'[pl] = "present"
      /\ there' = [p \in Places |-> there'[p]]
      /\ file' = [p \in Places |-> file'[p]]
  BY <1>1, <1>2 DEF Inv, PlacesInv, StageFile
<1> DEFINE plain(k) == [of |-> pl, plate |-> k, done |-> <<>>]
           One(k) == Written(NoFiles, Original, plain(k))
           Two == Written(One(0), <<"extracted">>, plain(1))
<1>4. /\ plain(0) \in Text /\ plain(1) \in Text
      /\ [plain(1) EXCEPT !.plate = 0] = plain(0)
  <2>1. 0 \in 0..1 /\ 1 \in 0..1
    OBVIOUS
  <2> QED
    BY <1>2, <2>1, TextTypes
<1>5. ASSUME NEW k \in 0..1
      PROVE  /\ DOMAIN One(k) = {Original} /\ One(k)[Original] = Plain(pl, k)
             /\ Plain(pl, k) \in Entry(Requests) /\ Plain(pl, k).writers = {}
  <2>1. plain(k) \in Text
    BY <1>2, TextTypes
  <2> QED
    BY <1>2, <2>1 DEF Written, Put, Plain, Entry
<1>6. DOMAIN Two = {Original, <<"extracted">>}
      /\ Two[Original] = Plain(pl, 0) /\ Two[<<"extracted">>] = Plain(pl, 1)
  <2> HIDE DEF One
  <2>1. DOMAIN One(0) = {Original} /\ One(0)[Original] = Plain(pl, 0)
    BY <1>5
  <2> QED
    BY <2>1, Kinds DEF Written, Put, Plain
<1>7. \/ archive' = archive \cup {pl} /\ G = Two
      \/ archive' = archive /\ G = One(1)
  <2>1. CASE is3mf
    <3>1. /\ archive' = archive \cup {pl}
          /\ file' = [file EXCEPT ![pl] = Two]
      BY <1>4, <2>1 DEF StageFile
    <3> HIDE DEF Two
    <3> QED
      BY <1>0, <1>2, <3>1 DEF Inv, PlacesInv
  <2>2. CASE ~is3mf
    <3>1. archive' = archive /\ file' = [file EXCEPT ![pl] = One(1)]
      BY <2>2 DEF StageFile
    <3> HIDE DEF One
    <3> QED
      BY <1>0, <1>2, <3>1 DEF Inv, PlacesInv
  <2> QED
    BY <2>1, <2>2
<1> HIDE DEF One, Two
<1>8. /\ DOMAIN G \subseteq {Original, <<"extracted">>} /\ Original \in DOMAIN G
      /\ G[Original] = Plain(pl, IF pl \in archive' THEN 0 ELSE 1)
      /\ <<"extracted">> \in DOMAIN G => G[<<"extracted">>] = Plain(pl, 1)
      /\ \A n \in DOMAIN G : G[n] \in Entry(Requests) /\ G[n].writers = {}
  <2>1. CASE archive' = archive \cup {pl} /\ G = Two
    BY <1>5, <1>6, <2>1
  <2>2. CASE archive' = archive /\ G = One(1)
    BY <1>2, <1>5, <2>2, Kinds
  <2> QED
    BY <1>7, <2>1, <2>2
<1>9. \A o \in Places \ {pl} : o \in archive' <=> o \in archive
  BY <1>7
<1>10. ASSUME NEW o \in Places \ {pl} PROVE PlaceInv(o)'
  <2>1. /\ PlaceInv(o) /\ file'[o] = file[o] /\ there'[o] = there[o]
        /\ o \in archive' <=> o \in archive
    BY <1>3, <1>9 DEF Inv, PlacesInv
  <2> QED
    BY <2>1 DEF PlaceInv
<1>11. PlaceInv(pl)'
  BY <1>0, <1>3, <1>8, Kinds DEF PlaceInv, Files
<1>12. PlacesInv'
  <2>1. archive \subseteq Stages /\ \A p \in archive : there[p] # "none"
    BY DEF Inv, PlacesInv
  <2>2. archive' \subseteq Stages /\ \A p \in archive' : there'[p] # "none"
    BY <1>3, <1>7, <2>1, PlaceKinds
  <2> QED
    BY <1>3, <1>10, <1>11, <2>2 DEF PlacesInv
<1> QED
  BY <1>0, <1>1, <1>2, <1>3, <1>8, <1>9, <1>12, PlaceKeeps

LEMMA CrashKeeps ==
  ASSUME Inv, Crash
  PROVE  Inv'
<1>1. /\ req' = [r \in Requests |-> Idle]
      /\ litter' = litter \cup
           UNION {{p} \X {n \in DOMAIN file[p] : Temporary(n)} : p \in Outputs}
      /\ file' = [p \in Places |-> Abandoned(file[p])]
      /\ there' = there /\ archive' = archive
  BY DEF Crash
<1>2. Active' = {}
  BY <1>1 DEF Active
<1>3. ASSUME NEW p \in Places
      PROVE  /\ DOMAIN file'[p] = DOMAIN file[p]
             /\ \A n \in DOMAIN file[p] :
                  /\ file'[p][n] \in Entry(Requests) /\ file'[p][n].writers = {}
                  /\ file[p][n].writers = {} => file'[p][n] = file[p][n]
  <2>1. file'[p] = Abandoned(file[p]) /\ Files(file[p])
    BY <1>1 DEF Inv, PlacesInv, PlaceInv
  <2>2. [texts |-> {}, writers |-> {}] \in Entry(Requests)
    BY DEF Entry
  <2> QED
    BY <2>1, <2>2 DEF Abandoned, Files
<1>4. ASSUME NEW p \in Places PROVE PlaceInv(p)'
  <2>1. PlaceInv(p)
    BY DEF Inv, PlacesInv
  <2>2. \A k : Plain(p, k).writers = {}
    BY DEF Plain
  <2>3. ASSUME NEW n \in DOMAIN file[p], NEW k, file[p][n] = Plain(p, k)
        PROVE  file'[p][n] = Plain(p, k)
    BY <1>3, <2>2, <2>3
  <2>4. Original \in DOMAIN file[p] =>
          file'[p][Original] = Plain(p, IF p \in archive THEN 0 ELSE 1)
    BY <2>1, <2>3 DEF PlaceInv
  <2>5. <<"extracted">> \in DOMAIN file[p] =>
          file'[p][<<"extracted">>] = Plain(p, 1)
    BY <2>1, <2>3 DEF PlaceInv
  <2> QED
    BY <1>1, <1>3, <2>1, <2>4, <2>5 DEF PlaceInv, Files
<1>5. PlacesInv'
  BY <1>1, <1>4 DEF Inv, PlacesInv
<1>6. WritersInv'
  BY <1>3 DEF WritersInv
<1>7. TempHasOwner'
  <2> SUFFICES ASSUME NEW o \in Outputs, NEW n \in DOMAIN file'[o], Temporary(n)
               PROVE  <<o, n>> \in litter'
    BY DEF TempHasOwner
  <2>1. n \in DOMAIN file[o]
    BY <1>3 DEF Places
  <2>2. <<o, n>> \in {o} \X {i \in DOMAIN file[o] : Temporary(i)}
    BY <2>1
  <2>3. <<o, n>> \in UNION {{p} \X {i \in DOMAIN file[p] : Temporary(i)} : p \in Outputs}
    BY <2>2, Zenon
  <2> QED
    BY <1>1, <2>3
<1> QED
  BY <1>1, <1>2, <1>5, <1>6, <1>7 DEF Inv, RequestsInv, ClearInv
----------------------------------------------------------------------------
(* The theorems *)

LEMMA InitInv == Init => Inv
<1> SUFFICES ASSUME Init PROVE Inv
  OBVIOUS
<1>1. Active = {} /\ archive = {}
  BY DEF Init, Active
<1>2. /\ there = [p \in Places |-> there[p]] /\ file = [p \in Places |-> file[p]]
      /\ req = [r \in Requests |-> req[r]]
  BY DEF Init
<1>3. ASSUME NEW p \in Places
      PROVE  /\ p \in Outputs => /\ DOMAIN file[p] = {Original}
                                /\ file[p][Original] = Plain(p, 1)
             /\ p \notin Outputs => DOMAIN file[p] = {}
             /\ there[p] = IF p \in Outputs THEN "present" ELSE "none"
  <2>1. DOMAIN NoFiles = {}
    BY DEF NoFiles
  <2>2. p \in Outputs => file[p] = Written(NoFiles, Original,
                                          [of |-> p, plate |-> 1, done |-> <<>>])
    BY DEF Init
  <2>3. p \notin Outputs => file[p] = NoFiles
    BY DEF Init
  <2>4. there[p] = IF p \in Outputs THEN "present" ELSE "none"
    BY DEF Init
  <2>5. p \in Outputs => DOMAIN file[p] = {Original} /\ file[p][Original] = Plain(p, 1)
    BY <2>1, <2>2 DEF Written, Put, Plain
  <2> QED
    BY <2>1, <2>3, <2>4, <2>5
<1>4. ASSUME NEW p \in Places PROVE Plain(p, 1) \in Entry(Requests) /\ Plain(p, 1).writers = {}
  <2>1. 1 \in 0..1
    OBVIOUS
  <2>2. [of |-> p, plate |-> 1, done |-> <<>>] \in Text
    BY <2>1, TextTypes
  <2> QED
    BY <2>2 DEF Plain, Entry
<1>5. ASSUME NEW p \in Places PROVE PlaceInv(p)
  <2>1. CASE p \in Outputs
    BY <1>1, <1>3, <1>4, <2>1, Kinds DEF PlaceInv, Files
  <2>2. CASE p \notin Outputs
    BY <1>3, <2>2 DEF PlaceInv, Files
  <2> QED
    BY <2>1, <2>2
<1>6. PlacesInv
  BY <1>1, <1>2, <1>5 DEF PlacesInv
<1>7. WritersInv
  BY <1>3, <1>4 DEF WritersInv
<1>8. TempHasOwner
  BY <1>3, PlaceKinds DEF TempHasOwner, Temporary
<1> QED
  BY <1>1, <1>2, <1>6, <1>7, <1>8 DEF Inv, RequestsInv, ClearInv

LEMMA AsksKeeps ==
  ASSUME Inv, NEW r \in Requests, Asks(r)
  PROVE  Inv'
<1>1. PICK pl \in Places, p \in Printers, m \in Mappings \cup {NoMapping},
           flags \in BOOLEAN :
             Send(r, pl, p, m, flags) \/ SendFile(r, pl, p, m, flags)
  BY DEF Asks
<1>2. PICK q : q = New(pl, p, m, flags)
  OBVIOUS
<1>3. /\ q \in Request /\ q.printer = p /\ q.mapping = m /\ q.flags = flags
      /\ q.in = FALSE /\ q.out = FALSE /\ q.temps = {}
  BY <1>2, Kinds, TextTypes DEF New, Request, At
<1>4. Adapts(p, m, flags) /\ Begin(r, q)
  BY <1>1, <1>2 DEF Send, SendFile
<1>5. q.printer \in Klippers \/ (q.mapping = NoMapping /\ ~q.flags)
  BY <1>3, <1>4 DEF Adapts
<1> QED
  BY <1>3, <1>4, <1>5, BeginKeeps

LEMMA NextInv == Inv /\ [Next]_vars => Inv'
<1> SUFFICES ASSUME Inv, [Next]_vars PROVE Inv'
  OBVIOUS
<1>1. ASSUME NEW r \in Requests, Asks(r) PROVE Inv'
  BY <1>1, AsksKeeps
<1>2. ASSUME NEW r \in Requests, NEW pl \in Outputs, SavePauses(r, pl) PROVE Inv'
  BY <1>2, SavePausesKeeps
<1>3. ASSUME NEW r \in Requests, Streams(r) PROVE Inv'
  BY <1>3, InputOpensKeeps, InputFailsKeeps, OutputOpensKeeps, OutputFailsKeeps,
     LateOutputKeeps, RewriteEndsKeeps DEF Streams
<1>4. ASSUME NEW r \in Requests, Transfers(r) PROVE Inv'
  BY <1>4, FtpBeginsKeeps, UploadEndsKeeps, UploadOnlyEndsKeeps, SendEndsKeeps
     DEF Transfers
<1>5. ASSUME NEW pl \in Stages, NEW is3mf \in BOOLEAN, StageFile(pl, is3mf) PROVE Inv'
  BY <1>5, StageFileKeeps
<1>6. ASSUME NEW pl \in Outputs, RemoveOutput(pl) PROVE Inv'
  BY <1>6, RemoveOutputKeeps
<1>7. CASE Crash
  BY <1>7, CrashKeeps
<1>8. CASE UNCHANGED vars
  <2>1. /\ there' = there /\ archive' = archive /\ file' = file /\ req' = req
        /\ disturbed' = disturbed /\ litter' = litter
    BY <1>8 DEF vars, history
  <2>2. PlacesInv'
    BY <2>1 DEF Inv, PlacesInv, PlaceInv
  <2>3. RequestsInv'
    BY <2>1 DEF Inv, RequestsInv, Active, RequestOK, Maps
  <2>4. WritersInv'
    BY <2>1 DEF Inv, WritersInv, Writes, Active, Target
  <2>5. ClearInv'
    <3> SUFFICES ASSUME NEW r \in Active, r \notin disturbed
                 PROVE  Clear(r, req[r], file[req[r].place])'
      BY <2>1 DEF ClearInv, Active
    <3>1. PICK q, F : q = req[r] /\ F = file[q.place]
      OBVIOUS
    <3>2. Clear(r, q, F)
      BY <3>1 DEF Inv, ClearInv
    <3>3. Clear(r, q, F)'
      BY <2>1, <3>2 DEF Clear, Active, Maps, Target, Wanted
    <3> QED
      BY <2>1, <3>1, <3>3
  <2>6. TempHasOwner'
    BY <2>1 DEF Inv, TempHasOwner, Active, Owns, Target
  <2> QED
    BY <2>2, <2>3, <2>4, <2>5, <2>6 DEF Inv
<1> QED
  BY <1>1, <1>2, <1>3, <1>4, <1>5, <1>6, <1>7, <1>8 DEF Next

\* Requests, files, their writers and what an undisturbed request knows stay in
\* step, however the handlers of printers.ts and jobs.ts overlap.
THEOREM DispatchInvariant == Spec => []Inv
  BY InitInv, NextInv, PTL DEF Spec

\* A temporary file in a job's directory always has a request in progress that
\* will unlink it, or is the litter of a restart or of a late write stream.
THEOREM TempHasOwnerAlways == Spec => []TempHasOwner
<1>1. Inv => TempHasOwner
  BY DEF Inv
<1> QED
  BY <1>1, DispatchInvariant, PTL

\* An undisturbed request sends, and starts, the gcode of its own job or upload
\* with its own mapping and flags.
THEOREM AsRequestedAlways == Spec => []AsRequested
<1>1. Inv => AsRequested
  <2> SUFFICES ASSUME Inv, NEW r \in Requests \ disturbed,
                      req[r].at \in {"uploading", "starting"}
               PROVE  req[r].text = Wanted(req[r])
    BY DEF AsRequested
  <2>1. r \in Active
    BY IdleIdles DEF Active
  <2> QED
    BY <2>1 DEF Inv, ClearInv, Clear
<1> QED
  BY <1>1, DispatchInvariant, PTL
=============================================================================
