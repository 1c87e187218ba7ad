---------------------------- MODULE RequestProofs ---------------------------
(***************************************************************************)
(* What reaches the slicer of what the user asked for: the settings of     *)
(* the project file, for any template, profiles and request; the paint,    *)
(* for any scene and any number of strokes, saves, lost requests and       *)
(* repetitions; the faces of the project file, for any archive, edit and   *)
(* build volume.                                                           *)
(*                                                                         *)
(* Settings: every step of the code from the profiles to the clean-up      *)
(* keeps Laid (a list is no shorter than the template's, a filament index  *)
(* comes from some source), and the clean-up does what is promised to any  *)
(* settings with Laid.                                                     *)
(*                                                                         *)
(* Paint: of a press that waits for its saves alone, every save the server *)
(* has taken is still in its row.  It holds because the saves of a press   *)
(* are for different rows, and any press that overlaps another is marked,  *)
(* as is the other.                                                        *)
(*                                                                         *)
(* Faces: InputInv says that what is built was made of what was parsed.    *)
(* The rest is what each function between the two files makes of any       *)
(* input, in their order: IsArchive, IsParsed, IsRow, IsBody, IsBuilt,     *)
(* IsPlaced, and Moved of the faces that come out.                         *)
(***************************************************************************)
EXTENDS SliceRequest, FiniteSetTheorems, WellFoundedInduction, TLAPS

-----------------------------------------------------------------------------
(* The settings of the project file                                         *)

ChosenBy(req) == {ProfileSettings(kind, req.profiles[kind]) : kind \in {"machine", "filament", "process"}}

\* Keys with a value of their own after the profiles.
Exempt(k, req) ==
    k \in TempKeys \union SlotKeys \union ForcedKeys \union DOMAIN req.process \/ req.multi

\* The filament indices, and the key that tells how filaments are changed.
TracedKeys == FilamentIndexKeys \union {"single_extruder_multi_material"}

\* A traced key has the value a source gives; an index may be the request's own for supports.
Traced(x, k, req) ==
    \/ x.list
    \/ k \in FilamentIndexKeys /\ x \in {Scalar("0"), Scalar("1")}
    \/ \E t \in ChosenBy(req) \union {Template, req.process} : k \in DOMAIN t /\ t[k] = x

\* What every step from the profiles to the clean-up keeps of the settings.
Laid(s, req) ==
    /\ DOMAIN Template \subseteq DOMAIN s
    /\ \A k \in TracedKeys : Traced(s[k], k, req)
    /\ \A k \in DOMAIN Template :
         Template[k].list /\ ~Exempt(k, req) /\ (\A p \in ChosenBy(req) : k \in DOMAIN p => p[k].list) =>
            IsValue(s[k]) /\ s[k].list /\ Len(s[k].v) >= Len(Template[k].v)

LEMMA ValueOfList ==
  ASSUME NEW n \in Nat, NEW f, f = [i \in 1..n |-> f[i]]
  PROVE  IsValue(List(f)) /\ List(f).list /\ List(f).v = f /\ Len(f) = n
<1>1. Len(f) = n
  OBVIOUS
<1>2. List(f).list = TRUE /\ List(f).v = f
  BY DEF List
<1> QED
  BY <1>1, <1>2 DEF IsValue, List

LEMMA ValueOfScalar ==
  ASSUME NEW s
  PROVE  IsValue(Scalar(s)) /\ Len(Scalar(s).v) = 1 /\ ~Scalar(s).list /\ Scalar(s).v[1] = s
BY DEF IsValue, Scalar

LEMMA ScalarOfValue ==
  ASSUME NEW x, IsValue(x), ~x.list
  PROVE  x = Scalar(x.v[1]) /\ DOMAIN x.v = {1}
<1>1. x.list = FALSE /\ Len(x.v) = 1 /\ x.v = [i \in 1..1 |-> x.v[i]]
  BY DEF IsValue
<1>2. x.v = <<x.v[1]>>
  BY <1>1
<1> QED
  BY <1>1, <1>2 DEF IsValue, Scalar

LEMMA ProfileIsSettings ==
  ASSUME NEW kind, NEW name
  PROVE  IsSettings(ProfileSettings(kind, name))
BY SettingsAssumption DEF ProfileSettings, IsSettings

LEMMA OverlayDomain ==
  ASSUME NEW s, NEW p
  PROVE  DOMAIN Overlay(s, p) = DOMAIN s
BY DEF Overlay

\* A profile keeps the shape of the settings; its lists never become shorter than
\* those they replace.
LEMMA OverlayKeeps ==
  ASSUME NEW s, NEW p, IsSettings(s), IsSettings(p), NEW k \in DOMAIN s
  PROVE  /\ IsValue(Overlay(s, p)[k])
         /\ \/ Overlay(s, p)[k] = s[k]
            \/ k \in DOMAIN p /\ Overlay(s, p)[k] = p[k]
            \/ Overlay(s, p)[k].list
         /\ s[k].list /\ (k \in DOMAIN p => p[k].list) =>
                Overlay(s, p)[k].list /\ Len(Overlay(s, p)[k].v) >= Len(s[k].v)
<1> DEFINE new == p[k]
           old == s[k]
           e(i) == new.v[((i - 1) % Len(new.v)) + 1]
<1>1. IsValue(old) /\ (k \in DOMAIN p => IsValue(new))
  BY DEF IsSettings
<1>2. CASE k \notin DOMAIN p \/ k \in SelfKeys
  <2>1. Overlay(s, p)[k] = old
    BY <1>2 DEF Overlay
  <2> QED
    BY <1>1, <2>1 DEF IsValue
<1>3. CASE ~(k \notin DOMAIN p \/ k \in SelfKeys)
  <2>1. CASE new.list /\ old.list /\ Len(old.v) > Len(new.v)
    <3>1. Overlay(s, p)[k] = List([i \in DOMAIN old.v |-> e(i)])
      BY <1>3, <2>1 DEF Overlay
    <3>2. PICK n \in Nat : n = Len(old.v) /\ DOMAIN old.v = 1..n
      BY <1>1 DEF IsValue
    <3>3. PICK f : f = [i \in 1..n |-> e(i)]
      OBVIOUS
    <3>4. Overlay(s, p)[k] = List(f) /\ f = [i \in 1..n |-> f[i]]
      BY <3>1, <3>2, <3>3
    <3>5. IsValue(List(f)) /\ List(f).list /\ Len(List(f).v) = n
      BY <3>4, ValueOfList
    <3> QED
      BY <2>1, <3>2, <3>4, <3>5
  <2>2. CASE ~(new.list /\ old.list /\ Len(old.v) > Len(new.v))
    <3>1. Overlay(s, p)[k] = new
      BY <1>3, <2>2 DEF Overlay
    <3> QED
      BY <1>1, <1>3, <2>2, <3>1 DEF IsValue
  <2> QED
    BY <2>1, <2>2
<1> QED
  BY <1>2, <1>3

LEMMA OverlaidLaid ==
  ASSUME NEW req
  PROVE  Laid(Overlaid(req), req)
<1>1. PICK pm, pf, pp : /\ pm = ProfileSettings("machine", req.profiles.machine)
                        /\ pf = ProfileSettings("filament", req.profiles.filament)
                        /\ pp = ProfileSettings("process", req.profiles.process)
  OBVIOUS
<1>2. PICK s0, s1, s2, s3 : s0 = Template /\ s1 = Overlay(s0, pm) /\ s2 = Overlay(s1, pf) /\ s3 = Overlay(s2, pp)
  OBVIOUS
<1>3. Overlaid(req) = s3
  BY <1>1, <1>2 DEF Overlaid
<1>4. {pm, pf, pp} \subseteq ChosenBy(req)
  BY <1>1 DEF ChosenBy
<1>5. IsSettings(pm) /\ IsSettings(pf) /\ IsSettings(pp) /\ IsSettings(s0)
  BY <1>1, <1>2, ProfileIsSettings, SettingsAssumption
<1>6. DOMAIN s1 = DOMAIN s0 /\ DOMAIN s2 = DOMAIN s0 /\ DOMAIN s3 = DOMAIN s0
  BY <1>2, OverlayDomain
<1>7. IsSettings(s1)
  BY <1>2, <1>5, <1>6, OverlayKeeps DEF IsSettings
<1>8. IsSettings(s2)
  BY <1>2, <1>5, <1>6, <1>7, OverlayKeeps DEF IsSettings
<1>9. ASSUME NEW k \in DOMAIN s0
      PROVE  Traced(s3[k], k, req)
  <2>1. s1[k].list \/ s1[k] = s0[k] \/ (k \in DOMAIN pm /\ s1[k] = pm[k])
    BY <1>2, <1>5, <1>9, OverlayKeeps
  <2>2. s2[k].list \/ s2[k] = s1[k] \/ (k \in DOMAIN pf /\ s2[k] = pf[k])
    BY <1>2, <1>5, <1>6, <1>7, <1>9, OverlayKeeps
  <2>3. s3[k].list \/ s3[k] = s2[k] \/ (k \in DOMAIN pp /\ s3[k] = pp[k])
    BY <1>2, <1>5, <1>6, <1>8, <1>9, OverlayKeeps
  <2>4. {s0, pm, pf, pp} \subseteq ChosenBy(req) \union {Template, req.process}
    BY <1>2, <1>4
  <2>5. CASE s3[k].list
    BY <2>5 DEF Traced
  <2>6. CASE \E t \in {s0, pm, pf, pp} : k \in DOMAIN t /\ t[k] = s3[k]
    BY <2>4, <2>6 DEF Traced
  <2> QED
    BY <1>9, <2>1, <2>2, <2>3, <2>5, <2>6
<1>10. ASSUME NEW k \in DOMAIN s0, s0[k].list,
              \A p \in ChosenBy(req) : k \in DOMAIN p => p[k].list
       PROVE  IsValue(s3[k]) /\ s3[k].list /\ Len(s3[k].v) >= Len(s0[k].v)
  <2>1. s1[k].list /\ Len(s1[k].v) >= Len(s0[k].v)
    BY <1>2, <1>4, <1>5, <1>10, OverlayKeeps
  <2>2. s2[k].list /\ Len(s2[k].v) >= Len(s1[k].v)
    BY <1>2, <1>4, <1>5, <1>6, <1>7, <1>10, <2>1, OverlayKeeps
  <2>3. IsValue(s3[k]) /\ s3[k].list /\ Len(s3[k].v) >= Len(s2[k].v)
    BY <1>2, <1>4, <1>5, <1>6, <1>8, <1>10, <2>2, OverlayKeeps
  <2>4. Len(s0[k].v) \in Nat /\ Len(s1[k].v) \in Nat /\ Len(s2[k].v) \in Nat /\ Len(s3[k].v) \in Nat
    BY <1>5, <1>6, <1>7, <1>8, <1>10, <2>3 DEF IsSettings, IsValue
  <2>5. PICK a \in Nat, b \in Nat, c \in Nat, d \in Nat :
          a = Len(s0[k].v) /\ b = Len(s1[k].v) /\ c = Len(s2[k].v) /\ d = Len(s3[k].v)
    BY <2>4, Zenon
  <2>6. b >= a /\ c >= b /\ d >= c
    BY <2>1, <2>2, <2>3, <2>5, Zenon
  <2>7. d >= a
    BY <2>6
  <2> QED
    BY <2>3, <2>5, <2>7, Zenon
<1>11. TracedKeys \subseteq DOMAIN s0
  BY <1>2, SettingsAssumption DEF TracedKeys
<1> QED
  BY <1>2, <1>3, <1>6, <1>9, <1>10, <1>11 DEF Laid

\* A step that only changes keys which are exempt, and traces its indices.
LEMMA LaidKept ==
  ASSUME NEW s, NEW t, NEW req, Laid(s, req), DOMAIN s \subseteq DOMAIN t,
         \A k \in DOMAIN s : \/ t[k] = s[k]
                            \/ /\ k \in TracedKeys => Traced(t[k], k, req)
                               /\ Exempt(k, req)
  PROVE  Laid(t, req)
<1>1. DOMAIN Template \subseteq DOMAIN s /\ TracedKeys \subseteq DOMAIN s
  BY SettingsAssumption DEF Laid, TracedKeys
<1> QED
  BY <1>1 DEF Laid

LEMMA MergedLaid ==
  ASSUME NEW s, NEW req, IsMulti(req), Laid(s, req), req.multi
  PROVE  Laid(MergeFilamentProfiles(s, req), req)
<1> DEFINE p0 == ProfileSettings("filament", req.profiles.filament)
           p1 == ProfileSettings("filament", req.profiles.filament2)
           keys == ((DOMAIN p0 \union DOMAIN p1) \cap FilamentKeys) \ {"filament_id"}
           Old(k, i, default) == IF k \in DOMAIN s /\ i \in DOMAIN s[k].v THEN s[k].v[i] ELSE default
           Pick(p, k, i) == IF k \in DOMAIN p THEN AsString(p[k]) ELSE Old(k, i, "")
           flush == [i \in 1..4 |-> Old("flush_volumes_matrix", i, IF i \in {1, 4} THEN "0" ELSE "280")]
           Both(k) == List(<<Pick(p0, k, 1), Pick(p1, k, 2)>>)
           t == [k \in DOMAIN s \union keys \union MergedKeys |->
                    IF k \in keys THEN Both(k)
                    ELSE CASE k = "support_filament" -> Scalar(req.support)
                           [] k = "support_interface_filament" -> Scalar(req.interface)
                           [] k = "flush_volumes_matrix" -> List(flush)
                           [] OTHER -> s[k]]
<1>1. MergeFilamentProfiles(s, req) = t
  BY DEF MergeFilamentProfiles
<1>7. \A k : Both(k).list
  BY DEF List
<1> HIDE DEF Both
<1>2. \A k \in DOMAIN s : k \in keys => t[k] = Both(k)
  OBVIOUS
<1>3. \A k \in DOMAIN s : k \in keys \/ k \in MergedKeys \/ t[k] = s[k]
  BY DEF MergedKeys
<1>4. \A k \in DOMAIN s : k \notin keys /\ k \in MergedKeys =>
          \/ k \in FilamentIndexKeys /\ t[k] \in {Scalar("0"), Scalar("1")}
          \/ t[k] = List(flush)
  BY SettingsAssumption DEF MergedKeys, IsMulti
<1>8. List(flush).list
  BY DEF List
<1>5. DOMAIN s \subseteq DOMAIN t
  OBVIOUS
<1> HIDE DEF t, keys, flush
<1>6. \A k \in DOMAIN s : \/ t[k] = s[k]
                         \/ /\ k \in TracedKeys => Traced(t[k], k, req)
                            /\ Exempt(k, req)
  BY <1>2, <1>3, <1>4, <1>7, <1>8 DEF Traced, Exempt
<1> QED
  BY <1>1, <1>5, <1>6, LaidKept

\* The keys a step may set, all exempt and no index.
LEMMA LaidBesides ==
  ASSUME NEW s, NEW t, NEW req, Laid(s, req), DOMAIN s \subseteq DOMAIN t,
         \A k \in DOMAIN s : t[k] = s[k] \/ k \in SlotKeys \union ForcedKeys
  PROVE  Laid(t, req)
<1>1. TracedKeys \cap (SlotKeys \union ForcedKeys) = {}
  BY SettingsAssumption DEF TracedKeys, SlotKeys, ForcedKeys
<1> QED
  BY <1>1, LaidKept DEF Exempt

LEMMA SlotsLaid ==
  ASSUME NEW s, NEW req, Laid(s, req)
  PROVE  Laid(ApplySlots(s, req.slots), req)
<1>1. CASE req.slots = <<>>
  BY <1>1 DEF ApplySlots
<1>2. CASE req.slots # <<>>
  <2>1. PICK c, f : ApplySlots(s, req.slots) = Put(Put(s, "filament_colour", c), "filament_type", f)
    BY <1>2 DEF ApplySlots
  <2>2. PICK t, u : t = Put(s, "filament_colour", c) /\ u = Put(t, "filament_type", f)
    OBVIOUS
  <2>3. /\ DOMAIN t = DOMAIN s \union {"filament_colour"}
        /\ \A j \in DOMAIN s \ {"filament_colour"} : t[j] = s[j]
    BY <2>2 DEF Put
  <2>5. /\ DOMAIN u = DOMAIN t \union {"filament_type"}
        /\ \A j \in DOMAIN t \ {"filament_type"} : u[j] = t[j]
    BY <2>2 DEF Put
  <2>4. DOMAIN s \subseteq DOMAIN u /\ \A k \in DOMAIN s : u[k] = s[k] \/ k \in SlotKeys \union ForcedKeys
    BY <2>3, <2>5 DEF SlotKeys
  <2> QED
    BY <2>1, <2>2, <2>4, LaidBesides
<1> QED
  BY <1>1, <1>2

LEMMA ProcessLaid ==
  ASSUME NEW s, NEW req, Laid(s, req)
  PROVE  Laid(ApplyProcess(s, req.process), req)
<1> DEFINE process == req.process
           taken == {k \in DOMAIN process : /\ k \notin FilamentKeys \union IdentityKeys
                                            /\ process[k] # Scalar("")}
           t == [k \in DOMAIN s \union taken |-> IF k \in taken THEN process[k] ELSE s[k]]
<1>1. ApplyProcess(s, req.process) = t
  BY DEF ApplyProcess
<1>2. taken \subseteq DOMAIN process
  OBVIOUS
<1> HIDE DEF taken
<1>3. /\ DOMAIN s \subseteq DOMAIN t
      /\ \A k \in DOMAIN s : t[k] = s[k] \/ (k \in taken /\ t[k] = process[k])
  OBVIOUS
<1> HIDE DEF t
<1>4. \A k \in taken : Exempt(k, req) /\ Traced(process[k], k, req)
  BY <1>2 DEF Exempt, Traced
<1>5. \A k \in DOMAIN s : \/ t[k] = s[k]
                         \/ /\ k \in TracedKeys => Traced(t[k], k, req)
                            /\ Exempt(k, req)
  BY <1>3, <1>4
<1> QED
  BY <1>1, <1>3, <1>5, LaidKept

\* The names of the profiles go to keys of their own.
LEMMA IdentityChanges ==
  ASSUME NEW s, NEW req
  PROVE  /\ DOMAIN s \subseteq DOMAIN ApplyIdentity(s, req)
         /\ \A k \in DOMAIN s : \/ ApplyIdentity(s, req)[k] = s[k]
                              \/ k \in {"filament_settings_id", "default_filament_profile", "print_settings_id"}
<1> DEFINE names == FilamentNames(s, req)
           t == Put(s, "filament_settings_id", List(names))
           u == Put(t, "default_filament_profile", List(<<names[1]>>))
           own == IF names = <<>> THEN s ELSE u
           w == Put(own, "print_settings_id", Scalar(req.profiles.process))
<1>1. ApplyIdentity(s, req) = IF req.profiles.process = None THEN own ELSE w
  BY DEF ApplyIdentity
<1>2. /\ DOMAIN t = DOMAIN s \union {"filament_settings_id"}
      /\ \A j \in DOMAIN s \ {"filament_settings_id"} : t[j] = s[j]
  <2> HIDE DEF names
  <2> QED BY DEF Put
<1>3. /\ DOMAIN u = DOMAIN t \union {"default_filament_profile"}
      /\ \A j \in DOMAIN t \ {"default_filament_profile"} : u[j] = t[j]
  <2> HIDE DEF t
  <2> QED BY DEF Put
<1>4. /\ DOMAIN w = DOMAIN own \union {"print_settings_id"}
      /\ \A j \in DOMAIN own \ {"print_settings_id"} : w[j] = own[j]
  <2> HIDE DEF own
  <2> QED BY DEF Put
<1>5. own = s \/ own = u
  OBVIOUS
<1> HIDE DEF names, t, u, own, w
<1> QED
  BY <1>1, <1>2, <1>3, <1>4, <1>5

LEMMA IdentityLaid ==
  ASSUME NEW s, NEW req, Laid(s, req)
  PROVE  Laid(ApplyIdentity(s, req), req)
BY IdentityChanges, LaidBesides DEF SlotKeys, ForcedKeys

\* Only temperatures are overridden, by lists.
LEMMA TempsChange ==
  ASSUME NEW s, NEW slots, NEW before
  PROVE  LET t == OverrideNozzleTemps(s, slots, before)
         IN /\ DOMAIN s \subseteq DOMAIN t
            /\ \A k \in DOMAIN s : t[k] = s[k] \/ (k \in TempKeys /\ t[k].list)
<1> DEFINE default == s["default_filament_profile"].v
           ProfileOf(i) == IF slots[i].profile # None THEN slots[i].profile
                           ELSE IF i \in DOMAIN default THEN default[i] ELSE None
           changed == {i \in DOMAIN slots :
                           /\ slots[i].type # None
                           /\ ~(i \in DOMAIN before /\ before[i] = slots[i].type)
                           /\ ResolveInherited(ProfileOf(i), "nozzle_temperature") # <<>>}
           first == CHOOSE i \in changed : \A j \in changed : i <= j
           value(k) == ResolveInherited(ProfileOf(first), k)
           known == {k \in TempKeys : value(k) # <<>>}
           Temps(k) == [i \in DOMAIN s["filament_colour"].v |-> value(k)[1].v[1]]
           t == OverrideNozzleTemps(s, slots, before)
<1> SUFFICES /\ DOMAIN s \subseteq DOMAIN t
             /\ \A k \in DOMAIN s : t[k] = s[k] \/ (k \in TempKeys /\ t[k].list)
  OBVIOUS
<1>1. t = IF changed = {} THEN s
          ELSE [k \in DOMAIN s \union known |-> IF k \in known THEN List(Temps(k)) ELSE s[k]]
  BY DEF OverrideNozzleTemps
<1>2. known \subseteq TempKeys
  OBVIOUS
<1>3. \A x : List(x).list
  BY DEF List
<1> HIDE DEF changed, known, Temps, t
<1> QED
  BY <1>1, <1>2, <1>3

LEMMA TempsLaid ==
  ASSUME NEW s, NEW req, NEW before, Laid(s, req)
  PROVE  Laid(OverrideNozzleTemps(s, req.slots, before), req)
<1> DEFINE t == OverrideNozzleTemps(s, req.slots, before)
<1>1. /\ DOMAIN s \subseteq DOMAIN t
      /\ \A k \in DOMAIN s : t[k] = s[k] \/ (k \in TempKeys /\ t[k].list)
  BY TempsChange
<1> HIDE DEF t
<1>2. \A k \in DOMAIN s : \/ t[k] = s[k]
                         \/ /\ k \in TracedKeys => Traced(t[k], k, req)
                            /\ Exempt(k, req)
  BY <1>1 DEF Traced, Exempt
<1>3. Laid(t, req)
  BY <1>1, <1>2, LaidKept
<1> QED
  BY <1>3 DEF t

-----------------------------------------------------------------------------
(* The clean-up                                                                *)

Inherit(x) == IF x = "-1" THEN "0" ELSE x

\* What the value x of a key is made of that is not forced.
CleanFrom(s, k, x) ==
    \/ s[k].list /\ x = List([i \in DOMAIN s[k].v |-> Inherit(s[k].v[i])])
    \/ ~s[k].list /\ k \in FilamentIndexKeys /\ s[k] = Scalar("0") /\ x = Scalar("1")
    \/ /\ ~s[k].list /\ ~(k \in FilamentIndexKeys /\ s[k] = Scalar("0"))
       /\ x = Scalar(Inherit(s[k].v[1]))

Kept(s) == DOMAIN s \ (CompatibilityKeys \union ForcedKeys \union {"filament_colour", "inherits_group"})

LEMMA CleanedUp ==
  ASSUME NEW s, DOMAIN Template \subseteq DOMAIN s
  PROVE  LET t == Sanitize(s)
         IN /\ DOMAIN t \cap CompatibilityKeys = {}
            /\ \A k \in DOMAIN t \ {"filament_colour"} : "-1" \notin ToSet(t[k].v)
            /\ t["layer_change_gcode"] = Scalar("G92")
            /\ s["single_extruder_multi_material"] = Scalar("1") =>
                    t["change_filament_gcode"] = Scalar("G92")
            /\ \A k \in Kept(s) : CleanFrom(s, k, t[k])
            /\ "inherits_group" \in DOMAIN s =>
                    t["inherits_group"] = List([i \in DOMAIN s["inherits_group"].v |-> ""])
<1> DEFINE Mapped(k) == List([i \in DOMAIN s[k].v |-> Inherit(s[k].v[i])])
           Clean(k) ==
            IF k = "filament_colour" THEN s[k]
            ELSE IF s[k].list THEN Mapped(k)
            ELSE IF k \in FilamentIndexKeys /\ s[k] = Scalar("0") THEN Scalar("1")
            ELSE Scalar(Inherit(s[k].v[1]))
           resets == {"layer_change_gcode", "before_layer_change_gcode"} \union
                  (IF s["single_extruder_multi_material"] = Scalar("1")
                   THEN {"change_filament_gcode"} ELSE {})
           blanks == {"printer_settings_id", "print_settings_id", "printer_model"}
           Fixed(k) ==
            CASE k = "inherits_group" -> List([i \in DOMAIN s[k].v |-> ""])
              [] k \in blanks -> Scalar("")
              [] k = "ooze_prevention" -> Scalar("0")
              [] k \in resets -> Scalar("G92")
              [] OTHER -> Clean(k)
           dom == (DOMAIN s \ CompatibilityKeys) \union resets \union blanks \union {"ooze_prevention"}
           t == [k \in dom |-> Fixed(k)]
<1>1. Sanitize(s) = t
  BY DEF Sanitize, Inherit
<1>2. resets \union blanks \union {"ooze_prevention"} \subseteq ForcedKeys
  BY DEF ForcedKeys
<1>3. \A x : Inherit(x) # "-1"
  BY DEF Inherit
<1>4. ASSUME NEW k, k # "filament_colour"
      PROVE  CleanFrom(s, k, Clean(k)) /\ "-1" \notin ToSet(Clean(k).v)
  <2>1. CASE s[k].list
    <3>1. PICK f : f = [i \in DOMAIN s[k].v |-> Inherit(s[k].v[i])]
      OBVIOUS
    <3>2. Clean(k) = Mapped(k)
      <4> HIDE DEF Mapped
      <4> QED
        BY <1>4, <2>1
    <3>3. Clean(k).v = f
      BY <3>1, <3>2 DEF List
    <3>4. CleanFrom(s, k, Clean(k))
      BY <2>1, <3>2 DEF CleanFrom
    <3>5. \A i \in DOMAIN f : f[i] # "-1"
      BY <1>3, <3>1
    <3>6. "-1" \notin ToSet(f)
      BY <3>5 DEF ToSet
    <3> QED
      BY <3>3, <3>4, <3>6
  <2>2. CASE ~s[k].list /\ k \in FilamentIndexKeys /\ s[k] = Scalar("0")
    <3>1. Clean(k) = Scalar("1")
      BY <1>4, <2>2, Zenon
    <3>2. Clean(k).v = <<"1">>
      BY <3>1 DEF Scalar
    <3> QED
      BY <2>2, <3>1, <3>2 DEF ToSet, CleanFrom
  <2>3. CASE ~s[k].list /\ ~(k \in FilamentIndexKeys /\ s[k] = Scalar("0"))
    <3>1. Clean(k) = Scalar(Inherit(s[k].v[1]))
      BY <1>4, <2>3, Zenon
    <3>2. Clean(k).v = <<Inherit(s[k].v[1])>>
      BY <3>1 DEF Scalar
    <3> QED
      BY <1>3, <2>3, <3>1, <3>2 DEF ToSet, CleanFrom
  <2> QED
    BY <2>1, <2>2, <2>3
<1>5. /\ \A k : k # "filament_colour" => CleanFrom(s, k, Clean(k))
      /\ \A k : k # "filament_colour" => "-1" \notin ToSet(Clean(k).v)
  BY <1>4
<1> HIDE DEF Clean
<1>6. \A k : k # "filament_colour" => "-1" \notin ToSet(Fixed(k).v)
  <2> SUFFICES ASSUME NEW k, k # "filament_colour" PROVE "-1" \notin ToSet(Fixed(k).v)
    OBVIOUS
  <2>1. \A x : x # "-1" => "-1" \notin ToSet(Scalar(x).v)
    BY DEF ToSet, Scalar
  <2>2. "-1" \notin ToSet(List([i \in DOMAIN s[k].v |-> ""]).v)
    BY DEF ToSet, List
  <2> QED
    BY <1>5, <2>1, <2>2
<1>7. \A k : k \notin ForcedKeys \union {"inherits_group"} => Fixed(k) = Clean(k)
  BY <1>2
<1>8. \A k \in resets : Fixed(k) = Scalar("G92")
  OBVIOUS
<1>9. dom \cap CompatibilityKeys = {}
  BY DEF CompatibilityKeys
<1>10. "layer_change_gcode" \in resets
       /\ (s["single_extruder_multi_material"] = Scalar("1") => "change_filament_gcode" \in resets)
  OBVIOUS
<1>11. Fixed("inherits_group") = List([i \in DOMAIN s["inherits_group"].v |-> ""])
  OBVIOUS
<1>12. "inherits_group" \notin CompatibilityKeys
  BY DEF CompatibilityKeys
<1> SUFFICES
            /\ DOMAIN t \cap CompatibilityKeys = {}
            /\ \A k \in DOMAIN t \ {"filament_colour"} : "-1" \notin ToSet(t[k].v)
            /\ t["layer_change_gcode"] = Scalar("G92")
            /\ s["single_extruder_multi_material"] = Scalar("1") =>
                    t["change_filament_gcode"] = Scalar("G92")
            /\ \A k \in Kept(s) : CleanFrom(s, k, t[k])
            /\ "inherits_group" \in DOMAIN s =>
                    t["inherits_group"] = List([i \in DOMAIN s["inherits_group"].v |-> ""])
  BY <1>1
<1> HIDE DEF Fixed
<1>13. \A k \in dom : t[k] = Fixed(k)
  OBVIOUS
<1>14. resets \subseteq dom /\ DOMAIN s \ CompatibilityKeys \subseteq dom /\ DOMAIN t = dom
  OBVIOUS
<1> HIDE DEF resets, dom, t
<1>15. \A k \in Kept(s) : t[k] = Clean(k) /\ k # "filament_colour"
  BY <1>7, <1>13, <1>14 DEF Kept
<1> QED
  BY <1>5, <1>6, <1>8, <1>9, <1>10, <1>11, <1>12, <1>13, <1>14, <1>15

-----------------------------------------------------------------------------
(* What the slicer gets                                                        *)

TypesFromSlots(s, slots) ==
    slots # <<>> => s["filament_type"] = List([i \in DOMAIN slots |-> SlotType(slots[i])])

LEMMA BuiltFromLaid ==
  ASSUME NEW req, IsMulti(req)
  PROVE  \E s : /\ Laid(s, req) /\ TypesFromSlots(s, req.slots)
               /\ BuildProjectSettings(req) = Sanitize(s)
<1>1. PICK merged : merged = IF req.multi THEN MergeFilamentProfiles(Overlaid(req), req) ELSE Overlaid(req)
  OBVIOUS
<1>2. PICK a, b, own, heated :
        /\ a = ApplySlots(merged, req.slots)
        /\ b = ApplyProcess(a, req.process)
        /\ own = ApplyIdentity(b, req)
        /\ heated = IF req.slots = <<>> THEN own
                    ELSE OverrideNozzleTemps(own, req.slots, merged["filament_type"].v)
  OBVIOUS
<1>3. BuildProjectSettings(req) = Sanitize(heated)
  BY <1>1, <1>2 DEF BuildProjectSettings
<1>4. Laid(merged, req)
  BY <1>1, OverlaidLaid, MergedLaid DEF IsMulti
<1>5. Laid(a, req) /\ Laid(b, req) /\ Laid(own, req)
  BY <1>2, <1>4, SlotsLaid, ProcessLaid, IdentityLaid
<1>6. Laid(heated, req)
  <2> DEFINE before == merged["filament_type"].v
  <2>1. Laid(OverrideNozzleTemps(own, req.slots, before), req)
    BY <1>5, TempsLaid
  <2> QED
    BY <1>2, <1>5, <2>1
<1>7. ASSUME req.slots # <<>>
      PROVE  heated["filament_type"] = List([i \in DOMAIN req.slots |-> SlotType(req.slots[i])])
  <2> DEFINE types == List([i \in DOMAIN req.slots |-> SlotType(req.slots[i])])
             colours0 == List([i \in DOMAIN req.slots |-> req.slots[i].color])
  <2>1. a = Put(Put(merged, "filament_colour", colours0), "filament_type", types)
    BY <1>2, <1>7 DEF ApplySlots
  <2> HIDE DEF types, colours0
  <2>2. a["filament_type"] = types /\ "filament_type" \in DOMAIN a
    BY <2>1 DEF Put
  <2>3. b["filament_type"] = types /\ "filament_type" \in DOMAIN b
    <3>1. "filament_type" \in FilamentKeys
      BY SettingsAssumption DEF SlotKeys
    <3> QED
      BY <1>2, <2>2, <3>1 DEF ApplyProcess
  <2>4. own["filament_type"] = types /\ "filament_type" \in DOMAIN own
    BY <1>2, <2>3, IdentityChanges
  <2>5. heated["filament_type"] = types
    <3>1. PICK before : before = merged["filament_type"].v
      OBVIOUS
    <3>2. PICK t : t = OverrideNozzleTemps(own, req.slots, before)
      OBVIOUS
    <3>3. \A k \in DOMAIN own : t[k] = own[k] \/ (k \in TempKeys /\ t[k].list)
      BY <3>2, TempsChange
    <3>4. "filament_type" \notin TempKeys
      BY SettingsAssumption DEF SlotKeys
    <3> QED
      BY <1>2, <1>7, <2>4, <3>1, <3>2, <3>3, <3>4
  <2> QED
    BY <2>5 DEF types
<1> QED
  BY <1>3, <1>6, <1>7 DEF TypesFromSlots

\* A traced key becomes the scalar "1" only if it was, or if it is an index.
LEMMA TracedScalar ==
  ASSUME NEW req, IsSettings(req.process), NEW s, NEW k, Traced(s[k], k, req),
         k \notin FilamentIndexKeys, CleanFrom(s, k, Scalar("1"))
  PROVE  s[k] = Scalar("1")
<1>1. ~s[k].list /\ Scalar("1") = Scalar(Inherit(s[k].v[1]))
  <2>1. \A x : Scalar("1") # List(x)
    <3>1. \A x : List(x).list /\ ~Scalar("1").list
      BY DEF List, Scalar
    <3> QED
      BY <3>1
  <2> QED
    BY <2>1 DEF CleanFrom
<1>2. s[k].v[1] = "1"
  <2>1. Inherit(s[k].v[1]) = "1"
    BY <1>1, ValueOfScalar
  <2> QED
    BY <2>1 DEF Inherit
<1>4. PICK t \in ChosenBy(req) \union {Template, req.process} : k \in DOMAIN t /\ t[k] = s[k]
  BY <1>1 DEF Traced
<1>5. IsSettings(t)
  BY <1>4, ProfileIsSettings, SettingsAssumption DEF ChosenBy
<1> QED
  BY <1>1, <1>2, <1>4, <1>5, ScalarOfValue DEF IsSettings

\* A scalar the clean-up leaves as "0" or makes it of the sentinel.
LEMMA IndexSource ==
  ASSUME NEW req, IsSettings(req.process), NEW s, Laid(s, req), NEW k \in FilamentIndexKeys,
         CleanFrom(s, k, Scalar("0"))
  PROVE  \E t \in ChosenBy(req) \union {Template, req.process} : k \in DOMAIN t /\ t[k] = Scalar("-1")
<1>1. Traced(s[k], k, req)
  BY DEF Laid, TracedKeys
<1>2. /\ ~s[k].list /\ s[k] # Scalar("0") /\ Scalar("0") = Scalar(Inherit(s[k].v[1]))
  <2>1. \A x : Scalar("0") # List(x)
    <3>1. \A x : List(x).list /\ ~Scalar("0").list
      BY DEF List, Scalar
    <3> QED
      BY <3>1
  <2>2. Scalar("0") # Scalar("1")
    <3>1. Scalar("0").v[1] = "0" /\ Scalar("1").v[1] = "1"
      BY ValueOfScalar
    <3> QED
      BY <3>1
  <2>3. PICK m : m = [i \in DOMAIN s[k].v |-> Inherit(s[k].v[i])]
    OBVIOUS
  <2> QED
    BY <2>1, <2>2 DEF CleanFrom
<1>3. Inherit(s[k].v[1]) = "0"
  BY <1>2, ValueOfScalar
<1>4. s[k].v[1] = "0" \/ s[k].v[1] = "-1"
  BY <1>3 DEF Inherit
<1>5. s[k] # Scalar("1")
  <2>1. Scalar("1").v[1] = "1"
    BY ValueOfScalar
  <2> QED
    BY <1>4, <2>1
<1>6. PICK t \in ChosenBy(req) \union {Template, req.process} : k \in DOMAIN t /\ t[k] = s[k]
  BY <1>1, <1>2, <1>5 DEF Traced
<1>7. IsSettings(t)
  BY <1>6, ProfileIsSettings, SettingsAssumption DEF ChosenBy
<1>8. s[k] = Scalar(s[k].v[1])
  BY <1>2, <1>6, <1>7, ScalarOfValue DEF IsSettings
<1> QED
  BY <1>2, <1>4, <1>6, <1>8

\* The profiles of the filament slots decide, whatever the slots say.
LEMMA MaterialKept ==
  ASSUME NEW s, NEW slots, DOMAIN Template \subseteq DOMAIN s, TypesFromSlots(s, slots),
         NEW i \in DOMAIN slots, DeriveMaterial(slots[i].profile) # None
  PROVE  Sanitize(s)["filament_type"].v[i] = DeriveMaterial(slots[i].profile)
<1> DEFINE types == [j \in DOMAIN slots |-> SlotType(slots[j])]
<1>1. s["filament_type"] = List(types)
  BY DEF TypesFromSlots
<1>2. types[i] = DeriveMaterial(slots[i].profile) /\ DOMAIN types = DOMAIN slots
  BY DEF SlotType
<1>3. types[i] # "-1"
  <2>1. PICK n : n = slots[i].profile
    OBVIOUS
  <2>2. n \in DOMAIN Tokens /\ Tokens[n] # {}
    BY <2>1 DEF DeriveMaterial
  <2> DEFINE size(t) == CASE t = "Nylon" -> 5
                          [] t \in {"PETG", "HIPS", "PEEK"} -> 4
                          [] t \in {"PA", "PC", "CF", "GF"} -> 2
                          [] OTHER -> 3
  <2>3. DeriveMaterial(n) = CHOOSE t \in Tokens[n] : \A u \in Tokens[n] : size(u) <= size(t)
    BY <2>2 DEF DeriveMaterial
  <2>4. \A t : size(t) \in {2, 3, 4, 5}
    OBVIOUS
  <2> HIDE DEF size
  <2>5. \E t \in Tokens[n] : \A u \in Tokens[n] : size(u) <= size(t)
    <3>1. CASE \E t \in Tokens[n] : size(t) = 5
      BY <2>4, <3>1
    <3>2. CASE (\E t \in Tokens[n] : size(t) = 4) /\ \A t \in Tokens[n] : size(t) # 5
      BY <2>4, <3>2
    <3>3. CASE (\E t \in Tokens[n] : size(t) = 3) /\ \A t \in Tokens[n] : size(t) \notin {4, 5}
      BY <2>4, <3>3
    <3>4. CASE \A t \in Tokens[n] : size(t) = 2
      BY <2>2, <3>4
    <3> QED
      BY <2>4, <3>1, <3>2, <3>3, <3>4
  <2>6. DeriveMaterial(n) \in Tokens[n]
    BY <2>3, <2>5
  <2> QED
    BY <1>2, <2>1, <2>2, <2>6, SettingsAssumption
<1>4. "filament_type" \in Kept(s)
  BY SettingsAssumption DEF Kept, SlotKeys, ForcedKeys, CompatibilityKeys
<1>5. CleanFrom(s, "filament_type", Sanitize(s)["filament_type"])
  BY <1>4, CleanedUp
<1> HIDE DEF types
<1>6. List(types).list /\ List(types).v = types
  BY DEF List
<1>7. Sanitize(s)["filament_type"] = List([j \in DOMAIN types |-> Inherit(types[j])])
  BY <1>1, <1>5, <1>6 DEF CleanFrom
<1>8. Sanitize(s)["filament_type"].v = [j \in DOMAIN types |-> Inherit(types[j])]
  BY <1>7 DEF List
<1> QED
  BY <1>2, <1>3, <1>8 DEF Inherit

-----------------------------------------------------------------------------
(* The steps from the request to the project file                              *)

Asked(q) == \E r \in Requests : q = r[2]

\* The settings travel unchanged from the request into the project file.
BuildInv ==
    /\ phase \in {"sent", "built"} => Asked(request[1].settings)
    /\ phase = "built" => project[1].settings = BuildProjectSettings(request[1].settings)

LEMMA BuildInit == RequestInit => BuildInv
BY DEF RequestInit, Init, BuildInv

LEMMA SendKeeps ==
  ASSUME NEW r \in Requests, Send(r[1], r[2])
  PROVE  BuildInv'
<1>1. phase' = "sent" /\ request' = <<SliceBody(1, stored[1], r[1], r[2])>>
  BY DEF Send
<1>2. SliceBody(1, stored[1], r[1], r[2]).settings = r[2]
  BY DEF SliceBody
<1>3. Asked(request'[1].settings)
  BY <1>1, <1>2 DEF Asked
<1> QED
  BY <1>1, <1>3 DEF BuildInv

LEMMA BuildKeeps ==
  ASSUME BuildInv, Build
  PROVE  BuildInv'
<1>1. PICK b : b = BuildModels(stored, request[1])
  OBVIOUS
<1>2. PICK s : s = BuildProjectSettings(request[1].settings)
  OBVIOUS
<1>3. project' = <<Build3MF(b, s)>> /\ phase' = "built" /\ request' = request /\ phase = "sent"
  BY <1>1, <1>2 DEF Build
<1>4. \A o, top : Wrapped(o, top, s).settings = s
  BY DEF Wrapped
<1>5. Build3MF(b, s).settings = s
  BY <1>4 DEF Build3MF
<1> QED
  BY <1>2, <1>3, <1>5 DEF BuildInv

LEMMA BuildNext == BuildInv /\ [RequestNext]_requestVars => BuildInv'
<1> SUFFICES ASSUME BuildInv, [RequestNext]_requestVars PROVE BuildInv'
  OBVIOUS
<1>1. CASE UNCHANGED vars
  BY <1>1 DEF vars, BuildInv
<1>2. CASE Upload
  BY <1>2 DEF Upload, BuildInv
<1>3. CASE \E r \in Requests : Send(r[1], r[2])
  BY <1>3, SendKeeps
<1>4. CASE Build
  BY <1>4, BuildKeeps
<1> QED
  BY <1>1, <1>2, <1>3, <1>4 DEF RequestNext, Next, requestVars

THEOREM BuildInvariant == RequestSpec => []BuildInv
BY BuildInit, BuildNext, PTL DEF RequestSpec

\* The chosen profiles, their slots and the clean-up: for every template, profile
\* library and request the assumptions admit, the slicer is told the material of
\* the profile that was picked.
THEOREM SlotMaterialAlways == RequestSpec => []SlotMaterial
<1>1. BuildInv => SlotMaterial
  <2> SUFFICES ASSUME BuildInv, Built, NEW i \in DOMAIN Slots, DeriveMaterial(Slots[i].profile) # None
               PROVE  Settings["filament_type"].v[i] = DeriveMaterial(Slots[i].profile)
    BY DEF SlotMaterial
  <2>1. PICK req : req = Body.settings
    OBVIOUS
  <2>2. IsMulti(req) /\ Settings = BuildProjectSettings(req)
    BY <2>1, RequestsAssumption DEF BuildInv, Built, Asked, Body, Settings
  <2>3. PICK s : Laid(s, req) /\ TypesFromSlots(s, req.slots) /\ BuildProjectSettings(req) = Sanitize(s)
    BY <2>2, BuiltFromLaid
  <2>4. Slots = req.slots
    BY <2>1 DEF Slots
  <2> QED
    BY <2>2, <2>3, <2>4, MaterialKept DEF Laid
<1> QED
  BY <1>1, BuildInvariant, PTL

\* For every template, profile library and request the assumptions admit, the
\* settings are ones the slicers take.
THEOREM SlicerAcceptsAlways == RequestSpec => []SlicerAccepts
<1>1. BuildInv => SlicerAccepts
  <2> SUFFICES ASSUME BuildInv, Built PROVE SlicerAccepts
    BY DEF SlicerAccepts
  <2>1. PICK req : req = Body.settings
    OBVIOUS
  <2>2. IsMulti(req) /\ IsSettings(req.process) /\ Settings = BuildProjectSettings(req)
    BY <2>1, RequestsAssumption DEF BuildInv, Built, Asked, Body, Settings
  <2>3. PICK s : Laid(s, req) /\ BuildProjectSettings(req) = Sanitize(s)
    BY <2>2, BuiltFromLaid
  <2>4. PICK t : t = Settings
    OBVIOUS
  <2>5. DOMAIN Template \subseteq DOMAIN s
    BY <2>3 DEF Laid
  <2>6. /\ DOMAIN t \cap CompatibilityKeys = {}
        /\ \A k \in DOMAIN t \ {"filament_colour"} : "-1" \notin ToSet(t[k].v)
        /\ t["layer_change_gcode"] = Scalar("G92")
        /\ s["single_extruder_multi_material"] = Scalar("1") =>
                t["change_filament_gcode"] = Scalar("G92")
        /\ \A k \in Kept(s) : CleanFrom(s, k, t[k])
        /\ "inherits_group" \in DOMAIN s =>
                t["inherits_group"] = List([i \in DOMAIN s["inherits_group"].v |-> ""])
    BY <2>2, <2>3, <2>4, <2>5, CleanedUp
  <2>7. Chosen = ChosenBy(req)
    BY <2>1 DEF Chosen, ChosenBy
  <2>8. ASSUME NEW k \in DOMAIN Template \ (DOMAIN req.process \union CompatibilityKeys),
               Template[k].list, \A p \in ChosenBy(req) : k \in DOMAIN p => p[k].list,
               k \notin TempKeys \union SlotKeys, ~req.multi
        PROVE  Len(t[k].v) >= Len(Template[k].v)
    <3>1. k \notin ForcedKeys
      BY <2>8, SettingsAssumption
    <3>2. IsValue(s[k]) /\ s[k].list /\ Len(s[k].v) >= Len(Template[k].v) /\ k \in DOMAIN s
      BY <2>3, <2>8, <3>1 DEF Laid, Exempt
    <3>3. PICK n \in Nat : n = Len(s[k].v) /\ DOMAIN s[k].v = 1..n
      BY <3>2 DEF IsValue
    <3>4. CASE k = "inherits_group"
      <4>1. PICK f : f = [i \in 1..n |-> ""]
        OBVIOUS
      <4>2. t[k] = List(f) /\ f = [i \in 1..n |-> f[i]]
        BY <2>6, <3>2, <3>3, <3>4, <4>1
      <4> QED
        BY <3>2, <3>3, <4>2, ValueOfList
    <3>5. CASE k # "inherits_group"
      <4>1. k \in Kept(s)
        BY <2>8, <3>1, <3>2, <3>5 DEF Kept, SlotKeys
      <4>2. t[k] = List([i \in DOMAIN s[k].v |-> Inherit(s[k].v[i])])
        BY <2>6, <3>2, <4>1 DEF CleanFrom
      <4>3. PICK f : f = [i \in 1..n |-> Inherit(s[k].v[i])]
        OBVIOUS
      <4>4. t[k] = List(f) /\ f = [i \in 1..n |-> f[i]]
        BY <3>3, <4>2, <4>3
      <4> QED
        BY <3>2, <3>3, <4>4, ValueOfList
    <3> QED
      BY <3>4, <3>5
  <2>9. ASSUME NEW k \in FilamentIndexKeys, t[k] = Scalar("0")
        PROVE  \E p \in ChosenBy(req) \union {Template, req.process} : k \in DOMAIN p /\ p[k] = Scalar("-1")
    <3>1. k \in Kept(s)
      BY <2>5, SettingsAssumption DEF Kept, SlotKeys
    <3>2. CleanFrom(s, k, t[k])
      BY <2>6, <3>1
    <3>3. CleanFrom(s, k, Scalar("0"))
      BY <2>9, <3>2
    <3>4. IsSettings(req.process) /\ Laid(s, req)
      BY <2>2, <2>3
    <3> QED
      BY <3>3, <3>4, IndexSource
  <2>10. ASSUME t["single_extruder_multi_material"] = Scalar("1")
         PROVE  t["change_filament_gcode"] = Scalar("G92")
    <3>1. "single_extruder_multi_material" \in Kept(s)
      BY <2>5, SettingsAssumption DEF Kept, ForcedKeys, CompatibilityKeys
    <3>2. CleanFrom(s, "single_extruder_multi_material", Scalar("1"))
      BY <2>6, <2>10, <3>1
    <3>3. Traced(s["single_extruder_multi_material"], "single_extruder_multi_material", req)
      BY <2>3 DEF Laid, TracedKeys
    <3>4. "single_extruder_multi_material" \notin FilamentIndexKeys /\ IsSettings(req.process)
      BY <2>2, SettingsAssumption
    <3>5. s["single_extruder_multi_material"] = Scalar("1")
      BY <3>2, <3>3, <3>4, TracedScalar
    <3> QED
      BY <2>6, <3>5
  <2> QED
    BY <2>1, <2>4, <2>6, <2>7, <2>8, <2>9, <2>10, Zenon DEF SlicerAccepts, SlotKeys
<1> QED
  BY <1>1, BuildInvariant, PTL

-----------------------------------------------------------------------------
(* The paint                                                                *)

Ids == {Scene[i].id : i \in Instances}
Blobs == [of : {Scene[i].kind : i \in Instances} \union {"model"}, paint : Int]
Saves == [id : Ids, blob : Blobs, stage : {"sent", "stored", "saved", "failed"}]
Presses == [slice : BOOLEAN, sends : SUBSET Saves, crowded : BOOLEAN, over : BOOLEAN]

PaintTypeOK ==
    /\ strokes \in Nat
    /\ paint \in [Instances -> Int]
    /\ colours \in [Instances -> Int]
    /\ blobs \in [Ids -> Blobs]
    /\ reads \subseteq [id : Ids, read : BOOLEAN, answer : Int]
    /\ saves \in Seq(Presses)

\* A press that is over has nothing under way and slices nothing more.
OverIsIdle ==
    \A k \in DOMAIN saves : saves[k].over => saves[k].sends = {} /\ ~saves[k].slice

\* Presses that overlap are both marked.
OverlapsMarked ==
    \A k, l \in DOMAIN saves :
        k # l /\ ~saves[k].over /\ ~saves[l].over => saves[k].crowded /\ saves[l].crowded

\* The saves of a slice are for different rows, none of a cutter.
OwnRows(k) ==
    saves[k].slice => /\ \A s, t \in saves[k].sends : s.id = t.id => s = t
                      /\ \A s \in saves[k].sends : s.blob.of = "model"

\* What the server took of a press that is alone is in the rows.
Taken(k) ==
    saves[k].slice /\ ~saves[k].crowded =>
        \A s \in saves[k].sends : s.stage \in {"stored", "saved"} => blobs[s.id] = s.blob

PaintInv ==
    /\ PaintTypeOK
    /\ OverIsIdle
    /\ OverlapsMarked
    /\ \A k \in DOMAIN saves : OwnRows(k) /\ Taken(k)

LEMMA FetchingType ==
    ASSUME NEW known
    PROVE  Fetching(known) \subseteq [id : Ids, read : BOOLEAN, answer : Int]
<1>1. \A i \in Instances :
        [id |-> Scene[i].id, read |-> FALSE, answer |-> NoColours]
            \in [id : Ids, read : BOOLEAN, answer : Int]
  BY DEF Ids, NoColours
<1> QED
  BY <1>1 DEF Fetching

LEMMA InitKeeps == RequestInit => PaintInv
<1>1. SUFFICES ASSUME PaintInit
               PROVE  PaintInv
  BY DEF RequestInit
<1>2. colours = [i \in Instances |-> -1] /\ -1 \in Int
  BY <1>1 DEF PaintInit, NoColours
<1>3. reads \subseteq [id : Ids, read : BOOLEAN, answer : Int]
  BY <1>1, FetchingType DEF PaintInit
<1>4. blobs \in [Ids -> Blobs]
  BY <1>1 DEF PaintInit, Ids, Blobs
<1> QED
  BY <1>1, <1>2, <1>3, <1>4
  DEF PaintInit, PaintInv, PaintTypeOK, OverIsIdle, OverlapsMarked, NoColours

(***************************************************************************)
(* Steps that neither press a button nor move a save.                      *)
(***************************************************************************)
LEMMA QuietKeeps ==
    ASSUME PaintInv, PaintTypeOK', UNCHANGED <<saves, blobs>>
    PROVE  PaintInv'
BY DEF PaintInv, OverIsIdle, OverlapsMarked, OwnRows, Taken

LEMMA ViewerTypes ==
    ASSUME PaintTypeOK,
           \/ SwitchPreview
           \/ \E i \in Instances : MeshLoads(i) \/ Stroke(i) \/ ShowPlate(Scene[i].plate)
    PROVE  PaintTypeOK' /\ UNCHANGED <<saves, blobs>>
<1>1. CASE SwitchPreview
  BY <1>1 DEF SwitchPreview, PaintTypeOK
<1>2. ASSUME NEW i \in Instances, MeshLoads(i)
      PROVE  PaintTypeOK' /\ UNCHANGED <<saves, blobs>>
  BY <1>2 DEF MeshLoads, PaintTypeOK
<1>3. ASSUME NEW i \in Instances, Stroke(i)
      PROVE  PaintTypeOK' /\ UNCHANGED <<saves, blobs>>
  BY <1>3 DEF Stroke, PaintTypeOK
<1>4. ASSUME NEW i \in Instances, ShowPlate(Scene[i].plate)
      PROVE  PaintTypeOK' /\ UNCHANGED <<saves, blobs>>
  BY <1>4, FetchingType DEF ShowPlate, PaintTypeOK
<1> QED
  BY <1>1, <1>2, <1>3, <1>4

LEMMA ReadTypes ==
    ASSUME PaintTypeOK, NEW r \in reads, ColoursRead(r) \/ ColoursArrive(r)
    PROVE  PaintTypeOK' /\ UNCHANGED <<saves, blobs>>
<1>1. r \in [id : Ids, read : BOOLEAN, answer : Int]
  BY DEF PaintTypeOK
<1>2. CASE ColoursRead(r)
  <2>1. blobs[r.id].paint \in Int
    BY <1>1 DEF PaintTypeOK, Blobs
  <2>2. [r EXCEPT !.read = TRUE, !.answer = blobs[r.id].paint]
            \in [id : Ids, read : BOOLEAN, answer : Int]
    BY <1>1, <2>1
  <2> QED
    BY <1>2, <2>2 DEF ColoursRead, PaintTypeOK
<1>3. CASE ColoursArrive(r)
  <2>1. r.answer \in Int
    BY <1>1
  <2> QED
    BY <1>3, <2>1 DEF ColoursArrive, PaintTypeOK
<1> QED
  BY <1>2, <1>3

(***************************************************************************)
(* A button.                                                               *)
(***************************************************************************)

\* The first visible instance of each model is one for each row.
LEMMA SaversDiffer ==
    \A i, j \in Savers : Scene[i].id = Scene[j].id => i = j
BY PaintingAssumption DEF Savers, Of, Instances

LEMMA SendsType ==
    ASSUME PaintTypeOK, NEW is \in SUBSET Instances
    PROVE  Sends(is) \in SUBSET Saves
<1>1. SUFFICES ASSUME NEW i \in is
               PROVE  [id |-> Scene[i].id, blob |-> Blob(i, paint[i]), stage |-> "sent"] \in Saves
  BY DEF Sends
<1>2. Blob(i, paint[i]) \in Blobs
  BY DEF Blob, Blobs, PaintTypeOK
<1> QED
  BY <1>2 DEF Saves, Ids

\* A press marks the ones it overlaps, and itself.
LEMMA PressEffect ==
    ASSUME saves \in Seq(Presses), NEW slice \in BOOLEAN, NEW is, Sends(is) \in SUBSET Saves,
           Press(slice, is)
    PROVE  /\ saves' \in Seq(Presses)
           /\ DOMAIN saves' = DOMAIN saves \union {Len(saves) + 1}
           /\ Len(saves) + 1 \notin DOMAIN saves
           /\ \A k \in DOMAIN saves :
                saves'[k] = [saves[k] EXCEPT !.crowded = saves[k].crowded \/ ~saves[k].over]
           /\ saves'[Len(saves) + 1] =
                [slice |-> slice, sends |-> Sends(is),
                 crowded |-> \E k \in DOMAIN saves : ~saves[k].over, over |-> FALSE]
<1> DEFINE marked == [k \in DOMAIN saves |->
                        [saves[k] EXCEPT !.crowded = saves[k].crowded \/ ~saves[k].over]]
           new == [slice |-> slice, sends |-> Sends(is),
                   crowded |-> \E k \in DOMAIN saves : ~saves[k].over, over |-> FALSE]
<1>1. new \in Presses
  BY DEF Presses
<1>2. \A k \in DOMAIN saves : marked[k] \in Presses
  <2>1. TAKE k \in DOMAIN saves
  <2>2. saves[k] \in Presses
    OBVIOUS
  <2> QED
    BY <2>2 DEF Presses
<1>3. marked \in Seq(Presses) /\ Len(marked) = Len(saves)
  BY <1>2
<1>4. saves' = Append(marked, new)
  BY DEF Press
<1>5. \A k \in DOMAIN saves :
        marked[k] = [saves[k] EXCEPT !.crowded = saves[k].crowded \/ ~saves[k].over]
  OBVIOUS
<1> HIDE DEF marked, new
<1>6. saves' \in Seq(Presses) /\ DOMAIN saves' = DOMAIN saves \union {Len(saves) + 1}
  BY <1>1, <1>3, <1>4
<1>7. (\A k \in DOMAIN saves : saves'[k] = marked[k]) /\ saves'[Len(saves) + 1] = new
  BY <1>1, <1>3, <1>4
<1>8. Len(saves) + 1 \notin DOMAIN saves
  OBVIOUS
<1> QED
  BY <1>5, <1>6, <1>7, <1>8 DEF new

LEMMA PressKeeps ==
    ASSUME PaintInv, NEW slice \in BOOLEAN, NEW is \in SUBSET Instances, Press(slice, is),
           slice => is = Savers,
           UNCHANGED <<blobs, paint, strokes, reads>>,
           colours' \in [Instances -> Int]
    PROVE  PaintInv'
<1>0. PICK n : n = Len(saves) + 1
  OBVIOUS
<1>1. Sends(is) \in SUBSET Saves /\ saves \in Seq(Presses)
  BY SendsType DEF PaintInv, PaintTypeOK
<1>2. /\ saves' \in Seq(Presses)
      /\ DOMAIN saves' = DOMAIN saves \union {n}
      /\ n \notin DOMAIN saves
      /\ \A k \in DOMAIN saves :
            saves'[k] = [saves[k] EXCEPT !.crowded = saves[k].crowded \/ ~saves[k].over]
      /\ saves'[n] = [slice |-> slice, sends |-> Sends(is),
                      crowded |-> \E k \in DOMAIN saves : ~saves[k].over, over |-> FALSE]
  BY <1>0, <1>1, PressEffect
<1>3. ASSUME NEW k \in DOMAIN saves
      PROVE  /\ saves'[k].slice = saves[k].slice
             /\ saves'[k].sends = saves[k].sends
             /\ saves'[k].over = saves[k].over
             /\ saves'[k].crowded <=> saves[k].crowded \/ ~saves[k].over
  <2>1. saves[k] \in Presses
    BY <1>1
  <2> QED
    BY <1>2, <2>1 DEF Presses
<1>4. /\ saves'[n].slice = slice /\ saves'[n].sends = Sends(is) /\ ~saves'[n].over
      /\ saves'[n].crowded <=> \E k \in DOMAIN saves : ~saves[k].over
  BY <1>2
<1>5. OverIsIdle'
  BY <1>2, <1>3, <1>4 DEF PaintInv, OverIsIdle
<1>6. OverlapsMarked'
  BY <1>2, <1>3, <1>4 DEF PaintInv, OverlapsMarked
<1>7. ASSUME NEW k \in DOMAIN saves
      PROVE  (OwnRows(k) /\ Taken(k))'
  BY <1>3 DEF PaintInv, OverIsIdle, OwnRows, Taken
<1>8. (OwnRows(n) /\ Taken(n))'
  <2>1. \A s \in Sends(is) : s.stage = "sent"
    BY DEF Sends
  <2>2. ASSUME slice, NEW s \in Sends(is)
        PROVE  s.blob.of = "model" /\ \A t \in Sends(is) : s.id = t.id => s = t
    BY <2>2, SaversDiffer DEF Sends, Blob, Savers
  <2>3. ASSUME slice, NEW s \in Sends(is), NEW t \in Sends(is), s.id = t.id
        PROVE  s = t
    BY <2>2, <2>3
  <2> QED
    BY <1>4, <2>1, <2>2, <2>3 DEF OwnRows, Taken
<1>9. PaintTypeOK'
  BY <1>2 DEF PaintInv, PaintTypeOK
<1> QED
  BY <1>2, <1>5, <1>6, <1>7, <1>8, <1>9 DEF PaintInv

LEMMA ButtonsKeep ==
    ASSUME PaintInv, PressSlice \/ \E i \in Instances : PressSave(i)
    PROVE  PaintInv'
<1>1. CASE PressSlice
  <2>1. Savers \subseteq Instances
    BY DEF Savers
  <2>2. colours' \in [Instances -> Int]
    BY <1>1 DEF PressSlice, PaintInv, PaintTypeOK
  <2> QED
    BY <1>1, <2>1, <2>2, PressKeeps DEF PressSlice
<1>2. ASSUME NEW i \in Instances, PressSave(i)
      PROVE  PaintInv'
  BY <1>2, PressKeeps DEF PressSave, PaintInv, PaintTypeOK
<1> QED
  BY <1>1, <1>2

(***************************************************************************)
(* The saves.                                                              *)
(***************************************************************************)

\* A save that moves: its press has it in another stage, and all else is as it was.
LEMMA MoveEffect ==
    ASSUME saves \in Seq(Presses), NEW k \in DOMAIN saves, NEW s \in saves[k].sends,
           NEW stage \in {"sent", "stored", "saved", "failed"}, Moves(k, s, stage)
    PROVE  /\ saves' \in Seq(Presses)
           /\ DOMAIN saves' = DOMAIN saves
           /\ \A l \in DOMAIN saves \ {k} : saves'[l] = saves[l]
           /\ saves'[k].slice = saves[k].slice
           /\ saves'[k].crowded = saves[k].crowded
           /\ saves'[k].over = saves[k].over
           /\ saves'[k].sends = (saves[k].sends \ {s}) \union {[s EXCEPT !.stage = stage]}
           /\ [s EXCEPT !.stage = stage].id = s.id
           /\ [s EXCEPT !.stage = stage].blob = s.blob
           /\ [s EXCEPT !.stage = stage].stage = stage
<1> DEFINE moved == [s EXCEPT !.stage = stage]
           p == [saves[k] EXCEPT !.sends = (saves[k].sends \ {s}) \union {moved}]
<1>1. saves[k] \in Presses /\ s \in Saves
  <2>1. saves[k] \in Presses
    OBVIOUS
  <2> QED
    BY <2>1 DEF Presses
<1>2. moved \in Saves /\ moved.id = s.id /\ moved.blob = s.blob /\ moved.stage = stage
  BY <1>1 DEF Saves
<1> HIDE DEF moved
<1>3. /\ p \in Presses
      /\ p.slice = saves[k].slice /\ p.crowded = saves[k].crowded /\ p.over = saves[k].over
      /\ p.sends = (saves[k].sends \ {s}) \union {moved}
  BY <1>1, <1>2 DEF Presses
<1>4. saves' = [saves EXCEPT ![k] = p]
  BY DEF Moves, moved
<1> HIDE DEF p
<1>5. saves' \in Seq(Presses) /\ DOMAIN saves' = DOMAIN saves /\ saves'[k] = p
      /\ \A l \in DOMAIN saves \ {k} : saves'[l] = saves[l]
  BY <1>3, <1>4
<1> QED
  BY <1>2, <1>3, <1>5 DEF moved

\* A save moves on. When the server takes it, its row has what it says; a press
\* that is alone has nothing else in that row.
LEMMA SaveKeeps ==
    ASSUME PaintInv, NEW k \in DOMAIN saves, NEW s \in saves[k].sends,
           PutReaches(k, s) \/ PutAnswered(k, s) \/ PutLost(k, s)
    PROVE  PaintInv'
<1> DEFINE taken == {"stored", "saved"}
<1>1. s \in Saves /\ saves[k] \in Presses /\ saves \in Seq(Presses)
  <2>1. saves \in Seq(Presses) /\ saves[k] \in Presses
    BY DEF PaintInv, PaintTypeOK
  <2> QED
    BY <2>1 DEF Presses
<1>2. PICK stage \in {"sent", "stored", "saved", "failed"} :
        /\ Moves(k, s, stage)
        /\ stage \in taken => (s.stage \in taken /\ blobs' = blobs)
                             \/ blobs' = [blobs EXCEPT ![s.id] = s.blob]
        /\ blobs' = blobs \/ (stage = "stored" /\ blobs' = [blobs EXCEPT ![s.id] = s.blob])
        /\ UNCHANGED <<paint, colours, strokes, reads>>
  BY DEF PutReaches, PutAnswered, PutLost
<1> DEFINE moved == [s EXCEPT !.stage = stage]
<1>3. /\ saves' \in Seq(Presses)
      /\ DOMAIN saves' = DOMAIN saves
      /\ \A l \in DOMAIN saves \ {k} : saves'[l] = saves[l]
      /\ saves'[k].slice = saves[k].slice
      /\ saves'[k].crowded = saves[k].crowded
      /\ saves'[k].over = saves[k].over
      /\ saves'[k].sends = (saves[k].sends \ {s}) \union {moved}
      /\ moved.id = s.id /\ moved.blob = s.blob /\ moved.stage = stage
  BY <1>1, <1>2, MoveEffect
<1> HIDE DEF moved
<1>4. ~saves[k].over
  BY DEF PaintInv, OverIsIdle
<1>5. /\ blobs' \in [Ids -> Blobs]
      /\ \A id \in Ids \ {s.id} : blobs'[id] = blobs[id]
      /\ stage \in taken /\ s.stage \notin taken => blobs'[s.id] = s.blob
      /\ blobs' = blobs \/ blobs'[s.id] = s.blob
  BY <1>1, <1>2 DEF PaintInv, PaintTypeOK, Saves
<1>6. PaintTypeOK'
  BY <1>2, <1>3, <1>5 DEF PaintInv, PaintTypeOK
<1>7. OverIsIdle' /\ OverlapsMarked'
  BY <1>3, <1>4 DEF PaintInv, OverIsIdle, OverlapsMarked
<1>8. OwnRows(k)'
  <2>1. SUFFICES ASSUME saves[k].slice, NEW t \in saves'[k].sends
                 PROVE  /\ t.blob.of = "model"
                        /\ \A u \in saves'[k].sends : t.id = u.id => t = u
    BY <1>3 DEF OwnRows
  <2>2. /\ \A t1, u1 \in saves[k].sends : t1.id = u1.id => t1 = u1
        /\ \A t1 \in saves[k].sends : t1.blob.of = "model"
    BY <2>1 DEF PaintInv, OwnRows
  <2> QED
    BY <1>3, <2>2
<1>9. Taken(k)'
  <2>1. SUFFICES ASSUME saves[k].slice, ~saves[k].crowded, NEW t \in saves'[k].sends, t.stage \in taken
                 PROVE  blobs'[t.id] = t.blob
    BY <1>3 DEF Taken
  <2>2. CASE t = moved
    BY <1>1, <1>3, <1>5, <2>1, <2>2 DEF PaintInv, Taken
  <2>3. CASE t \in saves[k].sends \ {s}
    <3>1. t.id # s.id
      BY <2>1, <2>3 DEF PaintInv, OwnRows
    <3>2. t \in Saves
      BY <1>1, <2>3 DEF Presses
    <3>3. t.id \in Ids
      BY <3>2 DEF Saves
    <3> QED
      BY <1>5, <2>1, <2>3, <3>1, <3>3 DEF PaintInv, Taken
  <2> QED
    BY <1>3, <2>2, <2>3
<1>10. ASSUME NEW l \in DOMAIN saves \ {k}
       PROVE  (OwnRows(l) /\ Taken(l))'
  <2>1. saves[l].slice => saves[l].crowded
    BY <1>4 DEF PaintInv, OverIsIdle, OverlapsMarked
  <2> QED
    BY <1>3, <2>1 DEF PaintInv, OwnRows, Taken
<1> QED
  BY <1>3, <1>6, <1>7, <1>8, <1>9, <1>10 DEF PaintInv

LEMMA SavedKeeps ==
    ASSUME PaintInv, NEW k \in DOMAIN saves, Saved(k)
    PROVE  PaintInv'
<1>1. Settled \in Presses
  BY DEF Settled, Presses
<1>2. /\ saves' \in Seq(Presses)
      /\ DOMAIN saves' = DOMAIN saves
      /\ saves'[k] = Settled
      /\ \A l \in DOMAIN saves \ {k} : saves'[l] = saves[l]
  BY <1>1 DEF Saved, PaintInv, PaintTypeOK
<1>3. UNCHANGED <<blobs, paint, colours, strokes, reads>>
  BY DEF Saved
<1>4. saves'[k].over /\ ~saves'[k].slice /\ saves'[k].sends = {}
  BY <1>2 DEF Settled
<1>5. PaintTypeOK'
  BY <1>2, <1>3 DEF PaintInv, PaintTypeOK
<1>6. OverIsIdle' /\ OverlapsMarked'
  BY <1>2, <1>4 DEF PaintInv, OverIsIdle, OverlapsMarked
<1>7. \A l \in DOMAIN saves : (OwnRows(l) /\ Taken(l))'
  BY <1>2, <1>3, <1>4 DEF PaintInv, OwnRows, Taken
<1> QED
  BY <1>2, <1>5, <1>6, <1>7 DEF PaintInv

LEMMA StepKeeps ==
    ASSUME PaintInv, [RequestNext]_requestVars
    PROVE  PaintInv'
<1>1. CASE UNCHANGED paintVars
  BY <1>1 DEF paintVars, PaintInv, PaintTypeOK, OverIsIdle, OverlapsMarked, OwnRows, Taken
<1>2. CASE PaintNext
  <2>1. CASE SwitchPreview \/ \E i \in Instances : MeshLoads(i) \/ Stroke(i) \/ ShowPlate(Scene[i].plate)
    BY <2>1, ViewerTypes, QuietKeeps DEF PaintInv
  <2>2. ASSUME NEW r \in reads, ColoursRead(r) \/ ColoursArrive(r)
        PROVE  PaintInv'
    BY <2>2, ReadTypes, QuietKeeps DEF PaintInv
  <2>3. CASE PressSlice \/ \E i \in Instances : PressSave(i)
    BY <2>3, ButtonsKeep
  <2>4. ASSUME NEW k \in DOMAIN saves, NEW s \in saves[k].sends,
               PutReaches(k, s) \/ PutAnswered(k, s) \/ PutLost(k, s)
        PROVE  PaintInv'
    BY <2>4, SaveKeeps
  <2>5. ASSUME NEW k \in DOMAIN saves, Saved(k)
        PROVE  PaintInv'
    BY <2>5, SavedKeeps
  <2> QED
    BY <1>2, <2>1, <2>2, <2>3, <2>4, <2>5 DEF PaintNext
<1> QED
  BY <1>1, <1>2 DEF RequestNext, requestVars

\* What of each press is in the rows, and which presses overlap.
THEOREM PaintInvariant == RequestSpec => []PaintInv
BY InitKeeps, StepKeeps, PTL DEF RequestSpec

\* Only the end of its saves turns a press over.
LEMMA OnlySavedEnds ==
    ASSUME PaintInv, [RequestNext]_requestVars, NEW k \in DOMAIN saves,
           ~saves[k].over, saves'[k].over
    PROVE  Saved(k)
<1>1. saves \in Seq(Presses) /\ PaintTypeOK
  BY DEF PaintInv, PaintTypeOK
<1>2. CASE UNCHANGED paintVars
  BY <1>2 DEF paintVars
<1>3. CASE PaintNext
  <2>1. CASE SwitchPreview \/ \E i \in Instances : MeshLoads(i) \/ Stroke(i) \/ ShowPlate(Scene[i].plate)
    BY <1>1, <2>1, ViewerTypes
  <2>2. ASSUME NEW r \in reads, ColoursRead(r) \/ ColoursArrive(r)
        PROVE  Saved(k)
    BY <1>1, <2>2, ReadTypes
  <2>3. ASSUME NEW slice \in BOOLEAN, NEW is \in SUBSET Instances, Press(slice, is)
        PROVE  Saved(k)
    <3>1. saves'[k] = [saves[k] EXCEPT !.crowded = saves[k].crowded \/ ~saves[k].over]
      BY <1>1, <2>3, SendsType, PressEffect
    <3>2. saves[k] \in Presses
      BY <1>1
    <3> QED
      BY <3>1, <3>2 DEF Presses
  <2>4. CASE PressSlice \/ \E i \in Instances : PressSave(i)
    <3>1. Savers \in SUBSET Instances
      BY DEF Savers
    <3> QED
      BY <2>3, <2>4, <3>1 DEF PressSlice, PressSave
  <2>5. ASSUME NEW l \in DOMAIN saves, NEW s \in saves[l].sends,
               PutReaches(l, s) \/ PutAnswered(l, s) \/ PutLost(l, s)
        PROVE  Saved(k)
    <3>1. \E stage \in {"sent", "stored", "saved", "failed"} : Moves(l, s, stage)
      BY <2>5 DEF PutReaches, PutAnswered, PutLost
    <3> QED
      BY <1>1, <3>1, MoveEffect
  <2>6. ASSUME NEW l \in DOMAIN saves, Saved(l)
        PROVE  Saved(k)
    BY <1>1, <2>6 DEF Saved
  <2> QED
    BY <1>3, <2>1, <2>2, <2>4, <2>5, <2>6 DEF PaintNext
<1> QED
  BY <1>2, <1>3 DEF RequestNext, requestVars

\* A plate is sliced with the paint its models showed, on faces of their own, unless a
\* save was given up or another press saved meanwhile (App.tsx, saveAllColors).
THEOREM SlicedAsPaintedAlways == RequestSpec => SlicedAsPainted
<1>1. ASSUME PaintInv, [RequestNext]_requestVars, NEW k \in DOMAIN saves,
             saves[k].slice, ~saves[k].crowded, saves'[k].over,
             NEW s \in saves[k].sends, s.stage # "failed"
      PROVE  s.blob.of = "model" /\ blobs[s.id] = s.blob
  <2>1. ~saves[k].over
    BY <1>1 DEF PaintInv, OverIsIdle
  <2>2. Saved(k)
    BY <1>1, <2>1, OnlySavedEnds
  <2>3. s.stage = "saved"
    BY <1>1, <2>2 DEF Saved
  <2> QED
    BY <1>1, <2>3 DEF PaintInv, OwnRows, Taken
<1>2. PaintInv /\ [RequestNext]_requestVars =>
        [\A k \in DOMAIN saves :
            (saves[k].slice /\ ~saves[k].crowded /\ saves'[k].over) =>
                \A s \in saves[k].sends :
                    s.stage # "failed" => s.blob.of = "model" /\ blobs[s.id] = s.blob]_paintVars
  BY <1>1
<1> QED
  BY <1>2, PaintInvariant, PTL DEF RequestSpec, SlicedAsPainted

-----------------------------------------------------------------------------
\* A property of Nat that fails fails somewhere first.
LEMMA FirstIn ==
  ASSUME NEW S \in SUBSET Nat, S # {}
  PROVE  \E m \in S : \A x \in S : m <= x
<1>1. \A R : R = OpToRel(<, Nat) => IsWellFoundedOn(R, Nat)
  BY NatLessThanWellFounded
<1>2. PICK R : R = {ss \in Nat \X Nat : ss[1] < ss[2]}
  OBVIOUS
<1>3. IsWellFoundedOn(R, Nat)
  BY <1>1, <1>2 DEF OpToRel
<1>4. PICK m \in S : \A y \in S : ~(<<y, m>> \in R)
  BY <1>3, WFMin
<1>5. ASSUME NEW y \in S
      PROVE  m <= y
  <2>1. y \in Nat /\ m \in Nat
    OBVIOUS
  <2>2. ~(y < m)
    <3>1. PICK p : p = <<y, m>>
      OBVIOUS
    <3>2. p \in Nat \X Nat /\ p[1] = y /\ p[2] = m
      BY <2>1, <3>1
    <3>3. p \notin R
      BY <1>4, <3>1
    <3> QED
      BY <1>2, <3>2, <3>3
  <2> QED
    BY <2>1, <2>2
<1> QED
  BY <1>5

\* What holds of 0 and passes from n to n + 1 holds of every number: S is the set
\* of those it holds of.
LEMMA Induction ==
  ASSUME NEW S, 0 \in S, \A n \in Nat : n \in S => n + 1 \in S
  PROVE  \A n \in Nat : n \in S
<1> SUFFICES ASSUME Nat \ S # {} PROVE FALSE
  OBVIOUS
<1>1. PICK m \in Nat \ S : \A x \in Nat \ S : m <= x
  <2>1. PICK T : T = Nat \ S
    OBVIOUS
  <2> QED
    BY <2>1, FirstIn
<1>2. m # 0 /\ m - 1 \in Nat /\ m - 1 + 1 = m
  BY <1>1
<1>3. m - 1 \in S
  BY <1>1, <1>2
<1> QED
  BY <1>1, <1>2, <1>3

-----------------------------------------------------------------------------
(* Flatten: the equation of its recursion, then what it makes of lists          *)

\* w gives the concatenation of the first n sequences of f, for n up to m.
UpTo(f, w, m) == w[0] = <<>> /\ \A n \in Nat : n < m => w[n + 1] = w[n] \o f[n + 1]

LEMMA UpToAgree ==
  ASSUME NEW f, NEW m \in Nat, NEW w, UpTo(f, w, m), NEW k \in Nat, k <= m, NEW v, UpTo(f, v, k)
  PROVE  w[k] = v[k]
<1> DEFINE S == {n \in Nat : n <= k => w[n] = v[n]}
<1>1. 0 \in S
  BY DEF UpTo
<1>2. ASSUME NEW n \in Nat, n \in S PROVE n + 1 \in S
  <2> SUFFICES ASSUME n + 1 <= k PROVE w[n + 1] = v[n + 1]
    OBVIOUS
  <2>1. w[n] = v[n] /\ n < k /\ n < m
    BY <1>2
  <2>2. w[n + 1] = w[n] \o f[n + 1] /\ v[n + 1] = v[n] \o f[n + 1]
    BY <2>1 DEF UpTo
  <2> QED
    BY <2>1, <2>2
<1> HIDE DEF S
<1>3. \A n \in Nat : n \in S
  BY <1>1, <1>2, Induction
<1> QED
  BY <1>3 DEF S

LEMMA UpToExists ==
  ASSUME NEW f
  PROVE  \A m \in Nat : \E w : UpTo(f, w, m)
<1> DEFINE S == {m \in Nat : \E w : UpTo(f, w, m)}
<1>1. 0 \in S
  <2>1. PICK w : w = [n \in Nat |-> <<>>]
    OBVIOUS
  <2>2. UpTo(f, w, 0)
    BY <2>1 DEF UpTo
  <2> QED
    BY <2>2
<1>2. ASSUME NEW m \in Nat, m \in S PROVE m + 1 \in S
  <2>1. PICK w : UpTo(f, w, m)
    BY <1>2
  <2>2. PICK x : x = w[m] \o f[m + 1]
    OBVIOUS
  <2>3. PICK v : v = [n \in Nat |-> IF n = m + 1 THEN x ELSE w[n]]
    OBVIOUS
  <2>4. v[m + 1] = v[m] \o f[m + 1]
    <3>1. v[m + 1] = x
      BY <2>3
    <3>2. m # m + 1 /\ v[m] = w[m]
      BY <2>3
    <3> QED
      BY <2>2, <3>1, <3>2
  <2>5. ASSUME NEW n \in Nat, n < m
        PROVE  v[n + 1] = v[n] \o f[n + 1]
    <3>1. v[n] = w[n] /\ v[n + 1] = w[n + 1]
      BY <2>3, <2>5
    <3>2. w[n + 1] = w[n] \o f[n + 1]
      BY <2>1, <2>5 DEF UpTo
    <3> QED
      BY <3>1, <3>2
  <2>6. v[0] = <<>>
    BY <2>1, <2>3 DEF UpTo
  <2>7. \A n \in Nat : n < m + 1 => n = m \/ n < m
    OBVIOUS
  <2>8. UpTo(f, v, m + 1)
    BY <2>4, <2>5, <2>6, <2>7 DEF UpTo
  <2> QED
    BY <2>8
<1> HIDE DEF S
<1>3. \A n \in Nat : n \in S
  BY <1>1, <1>2, Induction
<1> QED
  BY <1>3 DEF S

\* The equation Flatten's recursion is meant by has a solution.
LEMMA FlattenUpTo ==
  ASSUME NEW f
  PROVE  \E u : Flatten(f) = u[Len(f)] /\ \A m \in Nat : UpTo(f, u, m)
<1>1. PICK g : g = [m \in Nat |-> CHOOSE w : UpTo(f, w, m)]
  OBVIOUS
<1>2. \A m \in Nat : UpTo(f, g[m], m)
  BY <1>1, UpToExists
<1>3. PICK h : h = [n \in Nat |-> g[n][n]]
  OBVIOUS
<1>4. h[0] = <<>>
  BY <1>2, <1>3 DEF UpTo
<1>5. ASSUME NEW n \in Nat
      PROVE  h[n + 1] = h[n] \o f[n + 1]
  <2>1. PICK m \in Nat : m = n + 1
    OBVIOUS
  <2>2. UpTo(f, g[m], m) /\ UpTo(f, g[n], n) /\ n < m /\ n <= m
    BY <1>2, <2>1
  <2>3. g[m][m] = g[m][n] \o f[m]
    BY <2>1, <2>2 DEF UpTo
  <2>4. g[m][n] = g[n][n]
    BY <2>2, UpToAgree
  <2> QED
    BY <1>3, <2>1, <2>3, <2>4
<1> DEFINE Follows(w, n) == IF n = 0 THEN <<>> ELSE w[n - 1] \o f[n]
<1>6. \A n \in Nat : h[n] = Follows(h, n)
  <2> SUFFICES ASSUME NEW n \in Nat PROVE h[n] = Follows(h, n)
    OBVIOUS
  <2>1. CASE n = 0
    BY <1>4, <2>1
  <2>2. CASE n # 0
    <3>1. PICK k \in Nat : n = k + 1 /\ k = n - 1
      BY <2>2
    <3>2. h[n] = h[k] \o f[n]
      BY <1>5, <3>1
    <3> QED
      BY <2>2, <3>1, <3>2
  <2> QED
    BY <2>1, <2>2
<1>7. h = [n \in Nat |-> h[n]]
  BY <1>3
<1>8. h = [n \in Nat |-> Follows(h, n)]
  <2> HIDE DEF Follows
  <2> QED
    BY <1>6, <1>7
<1>9. PICK u : /\ u = [n \in Nat |-> Follows(u, n)]
               /\ Flatten(f) = u[Len(f)]
  BY <1>8 DEF Flatten
<1>10. \A n \in Nat : u[n] = Follows(u, n)
  <2> HIDE DEF Follows
  <2> QED
    BY <1>9
<1>11. u[0] = <<>>
  BY <1>10
<1>12. ASSUME NEW n \in Nat PROVE u[n + 1] = u[n] \o f[n + 1]
  <2>1. PICK m \in Nat : m = n + 1 /\ n = m - 1 /\ m # 0
    OBVIOUS
  <2>2. u[m] = u[m - 1] \o f[m]
    BY <1>10, <2>1
  <2> QED
    BY <2>1, <2>2
<1> QED
  BY <1>9, <1>11, <1>12 DEF UpTo

-----------------------------------------------------------------------------
(* Lists                                                                        *)

LEMMA ListMade ==
  ASSUME NEW n \in Nat, NEW f, f = [i \in 1..n |-> f[i]]
  PROVE  IsList(f) /\ Len(f) = n /\ DOMAIN f = 1..n
<1>1. Len(f) = n
  OBVIOUS
<1> QED
  BY <1>1 DEF IsList

LEMMA ListDomain ==
  ASSUME NEW s, IsList(s)
  PROVE  Len(s) \in Nat /\ DOMAIN s = 1..Len(s) /\ \A i : i \in DOMAIN s <=> i \in Nat /\ 1 <= i /\ i <= Len(s)
BY DEF IsList

LEMMA ListsEqual ==
  ASSUME NEW a, IsList(a), NEW b, IsList(b), Len(a) = Len(b), \A i \in 1..Len(a) : a[i] = b[i]
  PROVE  a = b
BY DEF IsList

LEMMA Joined ==
  ASSUME NEW a, IsList(a), NEW b, IsList(b)
  PROVE  /\ IsList(a \o b) /\ Len(a \o b) = Len(a) + Len(b)
         /\ \A i \in 1..Len(a) : (a \o b)[i] = a[i]
         /\ \A i \in 1..Len(b) : (a \o b)[Len(a) + i] = b[i]
<1>1. PICK S : S = {a[i] : i \in DOMAIN a} \union {b[i] : i \in DOMAIN b}
  OBVIOUS
<1>2. a \in Seq(S)
  BY <1>1 DEF IsList
<1>3. b \in Seq(S)
  BY <1>1 DEF IsList
<1>4. PICK c : c = a \o b
  OBVIOUS
<1>5. PICK m \in Nat : m = Len(a)
  BY DEF IsList
<1>6. PICK k \in Nat : k = Len(b)
  BY DEF IsList
<1>7. /\ c \in Seq(S) /\ Len(c) = m + k
      /\ \A i \in 1..(m + k) : c[i] = IF i <= m THEN a[i] ELSE b[i - m]
  BY <1>2, <1>3, <1>4, <1>5, <1>6
<1>8. IsList(c)
  BY <1>7 DEF IsList
<1>9. ASSUME NEW i \in 1..m PROVE c[i] = a[i]
  BY <1>7
<1>10. ASSUME NEW i \in 1..k PROVE c[m + i] = b[i]
  <2>1. PICK j \in 1..(m + k) : j = m + i
    OBVIOUS
  <2>2. ~(j <= m) /\ j - m = i
    BY <2>1
  <2> QED
    BY <1>7, <2>1, <2>2
<1> QED
  BY <1>4, <1>5, <1>6, <1>7, <1>8, <1>9, <1>10

LEMMA EmptyList == IsList(<<>>) /\ Len(<<>>) = 0
BY DEF IsList

LEMMA NoneAdded ==
  ASSUME NEW a, IsList(a)
  PROVE  a \o <<>> = a /\ <<>> \o a = a
<1>1. PICK e : e = <<>>
  OBVIOUS
<1>2. IsList(e) /\ Len(e) = 0
  BY <1>1, EmptyList
<1>5. Len(a) \in Nat
  BY ListDomain
<1>3. a \o e = a
  <2>1. IsList(a \o e) /\ Len(a \o e) = Len(a) + Len(e) /\ \A i \in 1..Len(a) : (a \o e)[i] = a[i]
    BY <1>2, Joined
  <2>2. PICK c : c = a \o e
    OBVIOUS
  <2> QED
    <3>1. IsList(c) /\ Len(c) = Len(a) /\ \A i \in 1..Len(a) : c[i] = a[i]
      BY <1>5, <1>2, <2>1, <2>2
    <3>2. Len(a) = Len(c)
      BY <3>1
    <3>3. c = a
      BY <1>5, <3>1, <3>2, ListsEqual, Zenon
    <3> QED
      BY <2>2, <3>3
<1>4. e \o a = a
  <2>1. PICK c : c = e \o a
    OBVIOUS
  <2>2. IsList(c) /\ Len(c) = Len(e) + Len(a) /\ \A i \in 1..Len(a) : c[Len(e) + i] = a[i]
    BY <1>2, <2>1, Joined
  <2>3. Len(c) = Len(a) /\ \A i \in 1..Len(a) : c[i] = a[i]
    BY <1>5, <1>2, <2>2
  <2> QED
    BY <2>1, <2>2, <2>3, ListsEqual
<1> QED
  BY <1>1, <1>3, <1>4

-----------------------------------------------------------------------------
(* What Flatten makes of lists of lists                                         *)

IsLists(f) == IsList(f) /\ \A i \in DOMAIN f : IsList(f[i])

SameShape(f, g) == Len(f) = Len(g) /\ \A i \in DOMAIN f : Len(f[i]) = Len(g[i])

\* Two lists of the same shape are flattened alike: what stands at a place of the
\* one and of the other stood at the same place of the same element.
Alike(f, g, a, b) ==
    /\ IsList(a) /\ IsList(b) /\ Len(a) = Len(b)
    /\ \A k \in DOMAIN a : \E i \in DOMAIN f : \E j \in DOMAIN f[i] : a[k] = f[i][j] /\ b[k] = g[i][j]

LEMMA AlikeStep ==
  ASSUME NEW f, IsLists(f), NEW g, IsLists(g), SameShape(f, g), NEW i \in DOMAIN f,
         NEW a, NEW b, Alike(f, g, a, b)
  PROVE  Alike(f, g, a \o f[i], b \o g[i])
<1>1. IsList(a) /\ IsList(b) /\ Len(a) = Len(b) /\ IsList(f[i]) /\ Len(f[i]) = Len(g[i])
  BY DEF Alike, IsLists, SameShape
<1>2. IsList(g[i])
  BY ListDomain DEF IsLists, SameShape
<1>3. PICK c : c = a \o f[i]
  OBVIOUS
<1>4. PICK d : d = b \o g[i]
  OBVIOUS
<1>5. PICK m \in Nat, k \in Nat : m = Len(a) /\ k = Len(f[i])
  BY <1>1, ListDomain
<1>6. /\ IsList(c) /\ Len(c) = m + k /\ (\A n \in 1..m : c[n] = a[n])
      /\ \A n \in 1..k : c[m + n] = f[i][n]
  BY <1>1, <1>3, <1>5, Joined, SMTT(60)
<1>7. /\ IsList(d) /\ Len(d) = m + k /\ (\A n \in 1..m : d[n] = b[n])
      /\ \A n \in 1..k : d[m + n] = g[i][n]
  BY <1>1, <1>2, <1>4, <1>5, Joined
<1>8. DOMAIN c = 1..(m + k) /\ DOMAIN a = 1..m /\ DOMAIN f[i] = 1..k
  BY <1>1, <1>5, <1>6, ListDomain
<1>9. ASSUME NEW n \in DOMAIN c
      PROVE  \E p \in DOMAIN f : \E j \in DOMAIN f[p] : c[n] = f[p][j] /\ d[n] = g[p][j]
  <2>1. CASE n <= m
    <3>1. n \in 1..m /\ c[n] = a[n] /\ d[n] = b[n]
      BY <1>6, <1>7, <1>8, <2>1
    <3>2. \E p \in DOMAIN f : \E j \in DOMAIN f[p] : a[n] = f[p][j] /\ b[n] = g[p][j]
      BY <1>8, <3>1 DEF Alike
    <3> QED
      BY <3>1, <3>2
  <2>2. CASE n > m
    <3>1. PICK j \in 1..k : n = m + j
      BY <1>8, <2>2, SMTT(30)
    <3>2. j \in DOMAIN f[i] /\ c[n] = f[i][j] /\ d[n] = g[i][j]
      BY <1>6, <1>7, <1>8, <3>1
    <3> QED
      BY <3>2
  <2> QED
    BY <1>8, <2>1, <2>2
<1> QED
  BY <1>3, <1>4, <1>6, <1>7, <1>9 DEF Alike

LEMMA FlattenAlike ==
  ASSUME NEW f, IsLists(f), NEW g, IsLists(g), SameShape(f, g)
  PROVE  Alike(f, g, Flatten(f), Flatten(g))
<1>1. PICK m \in Nat : m = Len(f) /\ m = Len(g) /\ DOMAIN f = 1..m
  BY ListDomain DEF IsLists, SameShape
<1>2. PICK u : Flatten(f) = u[m] /\ UpTo(f, u, m)
  BY <1>1, FlattenUpTo
<1>3. PICK v : Flatten(g) = v[m] /\ UpTo(g, v, m)
  BY <1>1, FlattenUpTo
<1> DEFINE S == {n \in Nat : n <= m => Alike(f, g, u[n], v[n])}
<1>4. 0 \in S
  <2>1. PICK e : e = <<>>
    OBVIOUS
  <2>2. u[0] = e /\ v[0] = e /\ IsList(e) /\ Len(e) = 0 /\ DOMAIN e = {}
    BY <1>2, <1>3, <2>1, EmptyList DEF UpTo
  <2> QED
    BY <2>2 DEF Alike
<1>5. ASSUME NEW n \in Nat, n \in S PROVE n + 1 \in S
  <2> SUFFICES ASSUME n + 1 <= m PROVE Alike(f, g, u[n + 1], v[n + 1])
    OBVIOUS
  <2>1. Alike(f, g, u[n], v[n]) /\ n < m
    BY <1>5
  <2>2. u[n + 1] = u[n] \o f[n + 1] /\ v[n + 1] = v[n] \o g[n + 1]
    BY <1>2, <1>3, <2>1 DEF UpTo
  <2>3. n + 1 \in DOMAIN f
    BY <1>1
  <2> QED
    BY <2>1, <2>2, <2>3, AlikeStep
<1> HIDE DEF S
<1>6. \A n \in Nat : n \in S
  BY <1>4, <1>5, Induction
<1>7. Alike(f, g, u[m], v[m])
  BY <1>6 DEF S
<1> QED
  BY <1>2, <1>3, <1>7

LEMMA FlattenIsList ==
  ASSUME NEW f, IsLists(f)
  PROVE  /\ IsList(Flatten(f))
         /\ \A k \in DOMAIN Flatten(f) : \E i \in DOMAIN f : \E j \in DOMAIN f[i] : Flatten(f)[k] = f[i][j]
<1>1. SameShape(f, f)
  BY DEF SameShape
<1> QED
  BY <1>1, FlattenAlike DEF Alike

\* Nothing is lost.
LEMMA FlattenHas ==
  ASSUME NEW f, IsLists(f), NEW i \in DOMAIN f, NEW j \in DOMAIN f[i]
  PROVE  \E k \in DOMAIN Flatten(f) : Flatten(f)[k] = f[i][j]
<1>1. PICK m \in Nat : m = Len(f) /\ DOMAIN f = 1..m
  BY ListDomain DEF IsLists
<1>2. PICK u : Flatten(f) = u[m] /\ UpTo(f, u, m)
  BY <1>1, FlattenUpTo
<1> DEFINE Has(n) == IsList(u[n]) /\ (i <= n => \E k \in DOMAIN u[n] : u[n][k] = f[i][j])
           S == {n \in Nat : n <= m => Has(n)}
<1>3. 0 \in S
  <2>1. u[0] = <<>>
    BY <1>2 DEF UpTo
  <2> QED
    BY <1>1, <2>1, EmptyList
<1>4. ASSUME NEW n \in Nat, n \in S PROVE n + 1 \in S
  <2> SUFFICES ASSUME n + 1 <= m PROVE Has(n + 1)
    OBVIOUS
  <2>1. Has(n) /\ n < m
    BY <1>4
  <2>2. PICK p \in DOMAIN f : p = n + 1
    BY <1>1
  <2>3. PICK a, b, c : a = u[n] /\ b = f[p] /\ c = u[p] /\ c = a \o b
    BY <1>2, <2>1, <2>2 DEF UpTo
  <2>4. IsList(a) /\ IsList(b)
    BY <2>1, <2>2, <2>3 DEF IsLists
  <2>5. /\ IsList(c) /\ Len(c) = Len(a) + Len(b)
        /\ (\A k \in 1..Len(a) : c[k] = a[k]) /\ \A k \in 1..Len(b) : c[Len(a) + k] = b[k]
    BY <2>3, <2>4, Joined
  <2>6. DOMAIN a = 1..Len(a) /\ DOMAIN b = 1..Len(b) /\ DOMAIN c = 1..Len(c) /\ Len(a) \in Nat /\ Len(b) \in Nat
    BY <2>4, <2>5, ListDomain
  <2>7. ASSUME i <= p PROVE \E k \in DOMAIN c : c[k] = f[i][j]
    <3>1. CASE i <= n
      <4>1. PICK k \in DOMAIN a : a[k] = f[i][j]
        BY <2>1, <2>3, <3>1
      <4>2. k \in DOMAIN c /\ c[k] = a[k]
        BY <2>5, <2>6
      <4> QED
        BY <4>1, <4>2
    <3>2. CASE i = p
      <4>1. j \in 1..Len(b)
        BY <2>3, <2>6, <3>2
      <4>2. Len(a) + j \in DOMAIN c /\ c[Len(a) + j] = b[j]
        BY <2>5, <2>6, <4>1
      <4> QED
        BY <2>3, <3>2, <4>2
    <3> QED
      BY <1>1, <2>2, <2>7, <3>1, <3>2
  <2> QED
    BY <2>2, <2>3, <2>5, <2>7
<1> HIDE DEF S
<1>5. \A n \in Nat : n \in S
  BY <1>3, <1>4, Induction
<1>6. Has(m)
  BY <1>5 DEF S
<1> QED
  BY <1>1, <1>2, <1>6

\* Empty lists at both ends add nothing.
LEMMA FlattenWindow ==
  ASSUME NEW f, IsLists(f), NEW lo \in Nat, NEW hi \in Nat, lo <= hi, hi <= Len(f),
         \A i \in DOMAIN f : i <= lo \/ hi < i => f[i] = <<>>,
         NEW g, g = [k \in 1..(hi - lo) |-> f[lo + k]]
  PROVE  Flatten(f) = Flatten(g)
<1>1. PICK m \in Nat : m = Len(f) /\ DOMAIN f = 1..m
  BY ListDomain DEF IsLists
<1>2. PICK l \in Nat : l = hi - lo /\ lo + l = hi
  OBVIOUS
<1>3. Len(g) = l
  BY <1>2, ListMade
<1>4. PICK u : Flatten(f) = u[m] /\ UpTo(f, u, m)
  BY <1>1, FlattenUpTo
<1>5. PICK v : Flatten(g) = v[l] /\ UpTo(g, v, l)
  BY <1>3, FlattenUpTo
<1> DEFINE at(n) == IF n <= lo THEN 0 ELSE IF n <= hi THEN n - lo ELSE l
           S == {n \in Nat : n <= m => IsList(u[n]) /\ u[n] = v[at(n)]}
<1>6. 0 \in S
  <2>1. u[0] = <<>> /\ v[0] = <<>>
    BY <1>4, <1>5 DEF UpTo
  <2> QED
    BY <2>1, EmptyList
<1>7. ASSUME NEW n \in Nat, n \in S PROVE n + 1 \in S
  <2> SUFFICES ASSUME n + 1 <= m PROVE IsList(u[n + 1]) /\ u[n + 1] = v[at(n + 1)]
    OBVIOUS
  <2>1. PICK p \in DOMAIN f : p = n + 1 /\ n < m
    BY <1>1
  <2>2. IsList(u[n]) /\ u[n] = v[at(n)] /\ u[p] = u[n] \o f[p]
    <3>1. IsList(u[n]) /\ u[n] = v[at(n)]
      <4> HIDE DEF at
      <4> QED
        BY <1>7, <2>1
    <3>2. u[p] = u[n] \o f[p]
      BY <1>4, <2>1 DEF UpTo
    <3> QED
      BY <3>1, <3>2
  <2>3. IsList(u[p])
    <3>1. IsList(f[p])
      BY DEF IsLists
    <3> QED
      BY <2>2, <3>1, Joined
  <2>4. CASE p <= lo \/ hi < p
    <3>1. f[p] = <<>>
      BY <2>4
    <3>2. u[p] = u[n]
      BY <2>2, <3>1, NoneAdded
    <3>3. at(p) = at(n)
      BY <1>2, <2>1, <2>4
    <3> QED
      BY <2>1, <2>2, <2>3, <3>2, <3>3
  <2>5. CASE lo < p /\ p <= hi
    <3>1. PICK k \in Nat : k = n - lo /\ k < l /\ k + 1 \in 1..(hi - lo) /\ lo + (k + 1) = p
      BY <1>2, <2>1, <2>5
    <3>2. at(n) = k /\ at(p) = k + 1
      BY <1>2, <2>1, <2>5, <3>1
    <3>3. g[k + 1] = f[p]
      BY <3>1
    <3>4. v[k + 1] = v[k] \o g[k + 1]
      BY <1>5, <3>1 DEF UpTo
    <3> QED
      BY <2>1, <2>2, <2>3, <3>2, <3>3, <3>4
  <2> QED
    BY <1>1, <2>1, <2>4, <2>5
<1> HIDE DEF S
<1>8. \A n \in Nat : n \in S
  BY <1>6, <1>7, Induction
<1>9. u[m] = v[at(m)]
  BY <1>8 DEF S
<1>10. at(m) = l
  BY <1>1, <1>2
<1> QED
  BY <1>4, <1>5, <1>9, <1>10

\* The lists of one element each.
LEMMA FlattenOnes ==
  ASSUME NEW s, IsList(s), NEW f, f = [i \in DOMAIN s |-> <<s[i]>>]
  PROVE  Flatten(f) = s
<1>1. PICK m \in Nat : m = Len(s) /\ DOMAIN s = 1..m
  BY ListDomain
<1>2. Len(f) = m
  BY <1>1, ListMade
<1>3. PICK u : Flatten(f) = u[m] /\ UpTo(f, u, m)
  BY <1>2, FlattenUpTo
<1> DEFINE First(n) == IsList(u[n]) /\ Len(u[n]) = n /\ \A k \in 1..n : u[n][k] = s[k]
           S == {n \in Nat : n <= m => First(n)}
<1>4. 0 \in S
  <2>1. u[0] = <<>>
    BY <1>3 DEF UpTo
  <2> QED
    BY <2>1, EmptyList
<1>5. ASSUME NEW n \in Nat, n \in S PROVE n + 1 \in S
  <2> SUFFICES ASSUME n + 1 <= m PROVE First(n + 1)
    OBVIOUS
  <2>1. First(n) /\ n < m
    BY <1>5
  <2>2. PICK p \in DOMAIN s : p = n + 1
    BY <1>1
  <2>3. PICK a, b : a = u[n] /\ b = <<s[p]>> /\ u[p] = a \o b
    BY <1>3, <2>1, <2>2 DEF UpTo
  <2>4. IsList(a) /\ Len(a) = n /\ \A k \in 1..n : a[k] = s[k]
    BY <2>1, <2>3
  <2>5. IsList(b) /\ Len(b) = 1 /\ b[1] = s[p]
    BY <2>3 DEF IsList
  <2>6. PICK c : c = a \o b
    OBVIOUS
  <2>7. /\ IsList(c) /\ Len(c) = n + 1 /\ (\A k \in 1..n : c[k] = a[k])
        /\ \A k \in 1..1 : c[n + k] = b[k]
    <3>1. /\ IsList(c) /\ Len(c) = Len(a) + Len(b) /\ (\A k \in 1..Len(a) : c[k] = a[k])
          /\ \A k \in 1..Len(b) : c[Len(a) + k] = b[k]
      <4>1. IsList(a) /\ IsList(b)
        BY <2>4, <2>5
      <4> QED
        BY <2>6, <4>1, Joined
    <3> QED
      BY <2>4, <2>5, <3>1
  <2>8. c[p] = s[p]
    BY <2>2, <2>5, <2>7
  <2>9. \A k \in 1..(n + 1) : c[k] = s[k]
    BY <2>2, <2>4, <2>7, <2>8
  <2> QED
    BY <2>2, <2>3, <2>6, <2>7, <2>9
<1> HIDE DEF S
<1>6. \A n \in Nat : n \in S
  BY <1>4, <1>5, Induction
<1>7. First(m)
  BY <1>6 DEF S
<1> QED
  BY <1>1, <1>3, <1>7, ListsEqual

LEMMA FlattenOne ==
  ASSUME NEW f, IsList(f), Len(f) = 1, IsList(f[1])
  PROVE  Flatten(f) = f[1]
<1>1. PICK u : Flatten(f) = u[1] /\ UpTo(f, u, 1)
  BY FlattenUpTo
<1>2. PICK n \in Nat : n = 0 /\ n + 1 = 1 /\ n < 1
  OBVIOUS
<1>3. u[1] = <<>> \o f[1]
  <2>1. u[n] = <<>> /\ u[n + 1] = u[n] \o f[n + 1]
    BY <1>1, <1>2 DEF UpTo
  <2> QED
    BY <1>2, <2>1
<1> QED
  BY <1>1, <1>3, NoneAdded

LEMMA FlattenNone ==
  ASSUME NEW f, Len(f) = 0
  PROVE  Flatten(f) = <<>>
<1>1. PICK u : Flatten(f) = u[0] /\ UpTo(f, u, 0)
  BY FlattenUpTo
<1> QED
  BY <1>1 DEF UpTo

-----------------------------------------------------------------------------
(* Only                                                                         *)

LEMMA OnlyElements ==
  ASSUME NEW s, IsList(s), NEW S
  PROVE  /\ IsList(Only(s, S))
         /\ \A k \in DOMAIN Only(s, S) : \E i \in DOMAIN s : i \in S /\ Only(s, S)[k] = s[i]
         /\ \A i \in DOMAIN s : i \in S => \E k \in DOMAIN Only(s, S) : Only(s, S)[k] = s[i]
<1>1. PICK f : f = [i \in DOMAIN s |-> IF i \in S THEN <<s[i]>> ELSE <<>>]
  OBVIOUS
<1>2. Only(s, S) = Flatten(f)
  BY <1>1 DEF Only
<1>3. PICK m \in Nat : m = Len(s) /\ DOMAIN s = 1..m
  BY ListDomain
<1>4. IsList(f) /\ DOMAIN f = DOMAIN s
  BY <1>1, <1>3, ListMade
<1>5. ASSUME NEW i \in DOMAIN s
      PROVE  IF i \in S THEN IsList(f[i]) /\ DOMAIN f[i] = {1} /\ f[i][1] = s[i]
             ELSE IsList(f[i]) /\ DOMAIN f[i] = {}
  <2>1. CASE i \in S
    <3>1. PICK x : x = f[i] /\ x = <<s[i]>>
      BY <1>1, <2>1
    <3>2. Len(x) = 1 /\ x = [j \in 1..1 |-> x[j]] /\ x[1] = s[i]
      BY <3>1
    <3> QED
      BY <2>1, <3>1, <3>2 DEF IsList
  <2>2. CASE i \notin S
    BY <1>1, <2>2, EmptyList
  <2> QED
    BY <2>1, <2>2
<1>6. IsLists(f)
  BY <1>4, <1>5 DEF IsLists
<1>7. IsList(Flatten(f))
  BY <1>6, FlattenIsList
<1>8. ASSUME NEW k \in DOMAIN Flatten(f)
      PROVE  \E i \in DOMAIN s : i \in S /\ Flatten(f)[k] = s[i]
  <2>1. PICK i \in DOMAIN s : \E j \in DOMAIN f[i] : Flatten(f)[k] = f[i][j]
    BY <1>4, <1>6, FlattenIsList
  <2> QED
    BY <1>5, <2>1
<1>9. ASSUME NEW i \in DOMAIN s, i \in S
      PROVE  \E k \in DOMAIN Flatten(f) : Flatten(f)[k] = s[i]
  <2>1. 1 \in DOMAIN f[i] /\ f[i][1] = s[i]
    BY <1>5, <1>9
  <2> QED
    BY <1>4, <1>6, <2>1, FlattenHas
<1> QED
  BY <1>2, <1>7, <1>8, <1>9

\* The places in between.
LEMMA OnlyWindow ==
  ASSUME NEW s, IsList(s), NEW S, NEW lo \in Nat, NEW hi \in Nat, lo <= hi, hi <= Len(s),
         \A i \in DOMAIN s : i \in S <=> lo < i /\ i <= hi
  PROVE  Only(s, S) = [k \in 1..(hi - lo) |-> s[lo + k]]
<1>1. PICK f : f = [i \in DOMAIN s |-> IF i \in S THEN <<s[i]>> ELSE <<>>]
  OBVIOUS
<1>2. Only(s, S) = Flatten(f)
  BY <1>1 DEF Only
<1>3. PICK m \in Nat : m = Len(s) /\ DOMAIN s = 1..m
  BY ListDomain
<1>4. IsList(f) /\ DOMAIN f = DOMAIN s /\ Len(f) = m
  BY <1>1, <1>3, ListMade
<1>5. \A x : IsList(<<x>>)
  BY DEF IsList
<1>6. IsLists(f)
  BY <1>1, <1>4, <1>5, EmptyList DEF IsLists
<1>7. PICK t : t = [k \in 1..(hi - lo) |-> s[lo + k]]
  OBVIOUS
<1>8. IsList(t) /\ DOMAIN t = 1..(hi - lo)
  <2>1. hi - lo \in Nat
    OBVIOUS
  <2> QED
    BY <1>7, <2>1, ListMade
<1>9. PICK g : g = [k \in 1..(hi - lo) |-> f[lo + k]]
  OBVIOUS
<1>10. Flatten(f) = Flatten(g)
  <2>1. \A i \in DOMAIN f : i <= lo \/ hi < i => f[i] = <<>>
    BY <1>1, <1>3, <1>4
  <2> QED
    BY <1>3, <1>4, <1>6, <1>9, <2>1, FlattenWindow
<1>11. g = [k \in DOMAIN t |-> <<t[k]>>]
  <2>1. ASSUME NEW k \in 1..(hi - lo) PROVE f[lo + k] = <<t[k]>>
    <3>1. PICK i : i = lo + k
      OBVIOUS
    <3>2. i \in DOMAIN s /\ i \in S
      BY <1>3, <3>1
    <3> QED
      BY <1>1, <1>7, <3>1, <3>2
  <2> QED
    BY <1>8, <1>9, <2>1
<1>12. Flatten(g) = t
  BY <1>8, <1>11, FlattenOnes
<1> QED
  BY <1>2, <1>7, <1>10, <1>12

-----------------------------------------------------------------------------
(* The box around a mesh                                                        *)

LEMMA LowestThere ==
  ASSUME NEW at, IsList(at), Len(at) # 0, NEW k, \A i \in DOMAIN at : at[i][k] \in Int
  PROVE  /\ \E i \in DOMAIN at : \A j \in DOMAIN at : at[i][k] <= at[j][k]
         /\ \E i \in DOMAIN at : \A j \in DOMAIN at : at[i][k] >= at[j][k]
<1>1. PICK m \in Nat : m = Len(at) /\ DOMAIN at = 1..m /\ m # 0
  BY ListDomain
<1> DEFINE S == {n \in Nat : n + 1 <= m =>
                    /\ \E i \in 1..(n + 1) : \A j \in 1..(n + 1) : at[i][k] <= at[j][k]
                    /\ \E i \in 1..(n + 1) : \A j \in 1..(n + 1) : at[i][k] >= at[j][k]}
<1>2. 0 \in S
  <2>1. 1 \in DOMAIN at
    BY <1>1
  <2>2. \A j \in 1..(0 + 1) : j = 1
    OBVIOUS
  <2> QED
    BY <2>1, <2>2
<1>3. ASSUME NEW n \in Nat, n \in S PROVE n + 1 \in S
  <2> SUFFICES ASSUME n + 1 + 1 <= m
               PROVE  /\ \E i \in 1..(n + 1 + 1) : \A j \in 1..(n + 1 + 1) : at[i][k] <= at[j][k]
                      /\ \E i \in 1..(n + 1 + 1) : \A j \in 1..(n + 1 + 1) : at[i][k] >= at[j][k]
    OBVIOUS
  <2>1. PICK p \in DOMAIN at : p = n + 1 + 1
    BY <1>1
  <2>2. \A j \in 1..p : j \in DOMAIN at /\ (j \in 1..(n + 1) \/ j = p)
    BY <1>1, <2>1
  <2>7. n + 1 <= m
    OBVIOUS
  <2>8. /\ \E i \in 1..(n + 1) : \A j \in 1..(n + 1) : at[i][k] <= at[j][k]
        /\ \E i \in 1..(n + 1) : \A j \in 1..(n + 1) : at[i][k] >= at[j][k]
    BY <1>3, <2>7, Zenon
  <2>3. PICK i \in 1..(n + 1) : \A j \in 1..(n + 1) : at[i][k] <= at[j][k]
    BY <2>8
  <2>4. \E q \in 1..p : \A j \in 1..p : at[q][k] <= at[j][k]
    <3>1. i \in 1..p /\ p \in 1..p
      BY <2>1
    <3>2. CASE at[i][k] <= at[p][k]
      BY <2>2, <2>3, <3>1, <3>2
    <3>3. CASE ~(at[i][k] <= at[p][k])
      <4>1. at[p][k] \in Int /\ at[i][k] \in Int
        BY <2>2, <3>1
      <4>2. ASSUME NEW j \in 1..p PROVE at[p][k] <= at[j][k]
        <5>1. at[j][k] \in Int /\ (j = p \/ at[i][k] <= at[j][k])
          BY <2>2, <2>3
        <5> QED
          BY <3>3, <4>1, <5>1
      <4> QED
        BY <3>1, <4>2
    <3> QED
      BY <3>2, <3>3
  <2>5. PICK h \in 1..(n + 1) : \A j \in 1..(n + 1) : at[h][k] >= at[j][k]
    BY <2>8
  <2>6. \E q \in 1..p : \A j \in 1..p : at[q][k] >= at[j][k]
    <3>1. h \in 1..p /\ p \in 1..p
      BY <2>1
    <3>2. CASE at[h][k] >= at[p][k]
      BY <2>2, <2>5, <3>1, <3>2
    <3>3. CASE ~(at[h][k] >= at[p][k])
      <4>1. at[p][k] \in Int /\ at[h][k] \in Int
        BY <2>2, <3>1
      <4>2. ASSUME NEW j \in 1..p PROVE at[p][k] >= at[j][k]
        <5>1. at[j][k] \in Int /\ (j = p \/ at[h][k] >= at[j][k])
          BY <2>2, <2>5
        <5> QED
          BY <3>3, <4>1, <5>1
      <4> QED
        BY <3>1, <4>2
    <3> QED
      BY <3>2, <3>3
  <2> QED
    BY <2>1, <2>4, <2>6
<1> HIDE DEF S
<1>4. \A n \in Nat : n \in S
  BY <1>2, <1>3, Induction
<1>5. PICK n \in Nat : n + 1 = m
  <2>1. m - 1 \in Nat /\ m - 1 + 1 = m
    BY <1>1
  <2> QED
    BY <2>1
<1>6. n + 1 <= m =>
        /\ \E i \in 1..(n + 1) : \A j \in 1..(n + 1) : at[i][k] <= at[j][k]
        /\ \E i \in 1..(n + 1) : \A j \in 1..(n + 1) : at[i][k] >= at[j][k]
  BY <1>4 DEF S
<1>7. n + 1 <= m
  BY <1>1, <1>5
<1>8. /\ \E i \in 1..(n + 1) : \A j \in 1..(n + 1) : at[i][k] <= at[j][k]
      /\ \E i \in 1..(n + 1) : \A j \in 1..(n + 1) : at[i][k] >= at[j][k]
  BY <1>6, <1>7, Zenon
<1>9. 1..(n + 1) = DOMAIN at
  BY <1>1, <1>5, Zenon
<1> QED
  BY <1>8, <1>9, Zenon

\* The least and the greatest coordinate are those of some points.
LEMMA Bounds ==
  ASSUME NEW at, IsList(at), Len(at) # 0, NEW k, \A i \in DOMAIN at : at[i][k] \in Int
  PROVE  /\ \E i \in DOMAIN at : Low(at, k) = at[i][k]
         /\ \E i \in DOMAIN at : High(at, k) = at[i][k]
         /\ \A i \in DOMAIN at : Low(at, k) <= at[i][k] /\ High(at, k) >= at[i][k]
<1>1. PICK C : C = Coordinates(at, k)
  OBVIOUS
<1>2. C = {at[i][k] : i \in DOMAIN at}
  BY <1>1 DEF Coordinates
<1>3. (\E v \in C : \A w \in C : v <= w) /\ \E v \in C : \A w \in C : v >= w
  <2>1. PICK i \in DOMAIN at : \A j \in DOMAIN at : at[i][k] <= at[j][k]
    BY LowestThere
  <2>2. PICK h \in DOMAIN at : \A j \in DOMAIN at : at[h][k] >= at[j][k]
    BY LowestThere
  <2>3. at[i][k] \in C /\ at[h][k] \in C
    BY <1>2
  <2>4. ASSUME NEW w \in C PROVE at[i][k] <= w /\ at[h][k] >= w
    BY <1>2, <2>1, <2>2
  <2> QED
    BY <2>3, <2>4
<1>4. Low(at, k) \in C /\ \A w \in C : Low(at, k) <= w
  BY <1>1, <1>3 DEF Low
<1>5. High(at, k) \in C /\ \A w \in C : High(at, k) >= w
  BY <1>1, <1>3 DEF High
<1> QED
  BY <1>2, <1>4, <1>5

\* A mesh that is counted in halves and moved along an axis.
\* A mesh with whole numbers along an axis, and one counted in halves and moved.
Measured(at, k) == IsList(at) /\ Len(at) # 0 /\ \A i \in DOMAIN at : at[i][k] \in Int
MovedAlong(b, at, k, d) ==
    IsList(b) /\ Len(b) = Len(at) /\ \A i \in DOMAIN at : b[i][k] = 2 * at[i][k] + d

LEMMA BoundsMoved ==
  ASSUME NEW at, NEW k, Measured(at, k), NEW d \in Int, NEW b, MovedAlong(b, at, k, d)
  PROVE  /\ Low(at, k) \in Int /\ High(at, k) \in Int
         /\ Low(b, k) = 2 * Low(at, k) + d /\ High(b, k) = 2 * High(at, k) + d
<1>1. DOMAIN b = DOMAIN at /\ IsList(b) /\ Len(b) # 0 /\ IsList(at) /\ Len(at) # 0
  BY ListDomain DEF Measured, MovedAlong
<1>9. \A i \in DOMAIN at : at[i][k] \in Int /\ b[i][k] = 2 * at[i][k] + d
  BY DEF Measured, MovedAlong
<1>2. \A i \in DOMAIN b : b[i][k] \in Int
  BY <1>1, <1>9
<1>3. PICK lo, hi : lo = Low(at, k) /\ hi = High(at, k)
  OBVIOUS
<1>4. PICK x, y : x = Low(b, k) /\ y = High(b, k)
  OBVIOUS
<1>5. /\ (\E i \in DOMAIN at : lo = at[i][k]) /\ (\E i \in DOMAIN at : hi = at[i][k])
      /\ \A i \in DOMAIN at : lo <= at[i][k] /\ hi >= at[i][k]
  BY <1>1, <1>3, <1>9, Bounds
<1>6. /\ (\E i \in DOMAIN b : x = b[i][k]) /\ (\E i \in DOMAIN b : y = b[i][k])
      /\ \A i \in DOMAIN b : x <= b[i][k] /\ y >= b[i][k]
  BY <1>1, <1>2, <1>4, Bounds
<1>7. x = 2 * lo + d
  <2>1. PICK i \in DOMAIN at : lo = at[i][k]
    BY <1>5
  <2>2. PICK j \in DOMAIN at : x = b[j][k]
    BY <1>1, <1>6
  <2>3. at[i][k] \in Int /\ at[j][k] \in Int /\ b[j][k] = 2 * at[j][k] + d /\ b[i][k] = 2 * at[i][k] + d
    BY <1>9
  <2>4. lo <= at[j][k] /\ x <= b[i][k]
    BY <1>1, <1>5, <1>6
  <2> QED
    BY <2>1, <2>2, <2>3, <2>4
<1>8. y = 2 * hi + d
  <2>1. PICK i \in DOMAIN at : hi = at[i][k]
    BY <1>5
  <2>2. PICK j \in DOMAIN at : y = b[j][k]
    BY <1>1, <1>6
  <2>3. at[i][k] \in Int /\ at[j][k] \in Int /\ b[j][k] = 2 * at[j][k] + d /\ b[i][k] = 2 * at[i][k] + d
    BY <1>9
  <2>4. hi >= at[j][k] /\ y >= b[i][k]
    BY <1>1, <1>5, <1>6
  <2> QED
    BY <2>1, <2>2, <2>3, <2>4
<1> QED
  BY <1>3, <1>4, <1>5, <1>7, <1>8, <1>9

-----------------------------------------------------------------------------
(* Meshes: as they are read back from the STL, turned and scaled                *)

IsPoints(at) == IsList(at) /\ \A i \in DOMAIN at : IsPoint(at[i])

\* The vertex a face refers to is its own point.
LEMMA VerticesKept ==
  ASSUME NEW at, IsList(at), NEW i \in DOMAIN at
  PROVE  LET mesh == DeduplicateVertices(at)
         IN DOMAIN mesh.indices = DOMAIN at /\ mesh.vertices[mesh.indices[i]] = at[i]
<1>1. PICK S : S = {n \in DOMAIN at : \A j \in 1..(n - 1) : at[j] # at[n]}
  OBVIOUS
<1>2. PICK v : v = Only(at, S)
  OBVIOUS
<1>3. PICK x : x = [n \in DOMAIN at |-> CHOOSE k \in DOMAIN v : v[k] = at[n]]
  OBVIOUS
<1>4. DeduplicateVertices(at) = [vertices |-> v, indices |-> x]
  BY <1>1, <1>2, <1>3 DEF DeduplicateVertices
<1>5. \E n \in DOMAIN at : n \in S /\ at[n] = at[i]
  <2>1. PICK T : T = {n \in DOMAIN at : at[n] = at[i]}
    OBVIOUS
  <2>2. T \in SUBSET Nat /\ T # {} /\ DOMAIN at = 1..Len(at) /\ Len(at) \in Nat
    BY <2>1, ListDomain
  <2>3. PICK n \in T : \A m \in T : n <= m
    BY <2>2, FirstIn
  <2>4. ASSUME NEW j \in 1..(n - 1) PROVE at[j] # at[n]
    BY <2>1, <2>2, <2>3
  <2> QED
    BY <1>1, <2>1, <2>3, <2>4
<1>6. \E k \in DOMAIN v : v[k] = at[i]
  BY <1>2, <1>5, OnlyElements
<1>7. v[x[i]] = at[i]
  BY <1>3, <1>6
<1> QED
  BY <1>3, <1>4, <1>7

LEMMA TurnsAreWhole ==
  ASSUME NEW q \in Int
  PROVE  Cos(q) \in Int /\ Sin(q) \in Int
BY DEF Cos, Sin

LEMMA RotatedPoint ==
  ASSUME NEW p, IsPoint(p), NEW r, IsPoint(r)
  PROVE  IsPoint(Rotated(p, r)) /\ (r = Zero => Rotated(p, r) = <<p[1], p[2], p[3]>>)
<1>1. PICK c1 \in Int, s1 \in Int : c1 = Cos(r[1]) /\ s1 = Sin(r[1])
  BY TurnsAreWhole DEF IsPoint
<1>2. PICK c2 \in Int, s2 \in Int : c2 = Cos(r[2]) /\ s2 = Sin(r[2])
  BY TurnsAreWhole DEF IsPoint
<1>3. PICK c3 \in Int, s3 \in Int : c3 = Cos(r[3]) /\ s3 = Sin(r[3])
  BY TurnsAreWhole DEF IsPoint
<1>4. PICK x \in Int, y \in Int, z \in Int : x = p[1] /\ y = p[2] /\ z = p[3]
  BY DEF IsPoint
<1>5. PICK y1 \in Int, z1 \in Int : y1 = y * c1 - z * s1 /\ z1 = y * s1 + z * c1
  OBVIOUS
<1>6. PICK x2 \in Int, z2 \in Int : x2 = x * c2 + z1 * s2 /\ z2 = z1 * c2 - x * s2
  OBVIOUS
<1>7. PICK x3 \in Int, y3 \in Int : x3 = x2 * c3 - y1 * s3 /\ y3 = x2 * s3 + y1 * c3
  OBVIOUS
<1>8. Rotated(p, r) = <<x3, y3, z2>>
  BY <1>1, <1>2, <1>3, <1>4, <1>5, <1>6, <1>7 DEF Rotated
<1>9. ASSUME r = Zero PROVE x3 = x /\ y3 = y /\ z2 = z
  <2>1. Cos(0) = 1 /\ Sin(0) = 0
    BY DEF Cos, Sin
  <2>2. r[1] = 0 /\ r[2] = 0 /\ r[3] = 0
    BY <1>9 DEF Zero
  <2>3. c1 = 1 /\ s1 = 0 /\ c2 = 1 /\ s2 = 0 /\ c3 = 1 /\ s3 = 0
    BY <1>1, <1>2, <1>3, <2>1, <2>2
  <2>4. y1 = y /\ z1 = z
    BY <1>5, <2>3
  <2>5. x2 = x /\ z2 = z
    BY <1>6, <2>3, <2>4
  <2> QED
    BY <1>7, <2>3, <2>4, <2>5
<1> QED
  BY <1>4, <1>8, <1>9 DEF IsPoint

LEMMA TurnedMesh ==
  ASSUME NEW m, IsPoints(m.at), IsPoint(m.rotation), IsPoint(m.scale)
  PROVE  /\ IsPoints(Turned(m)) /\ Len(Turned(m)) = Len(m.at)
         /\ m.rotation = Zero /\ m.scale = <<1, 1, 1>> =>
                \A i \in DOMAIN m.at : Turned(m)[i] = <<m.at[i][1], -m.at[i][3], m.at[i][2]>>
<1>1. PICK d : d = DeduplicateVertices(m.at)
  OBVIOUS
<1>2. PICK n \in Nat : n = Len(m.at) /\ DOMAIN m.at = 1..n
  BY ListDomain DEF IsPoints
<1>3. \A i \in DOMAIN m.at : d.vertices[d.indices[i]] = m.at[i]
  BY <1>1, VerticesKept DEF IsPoints
<1>4. DOMAIN d.indices = DOMAIN m.at
  BY <1>1 DEF DeduplicateVertices
<1>5. PICK t : t = Turned(m)
  OBVIOUS
<1> DEFINE p(i) == Rotated(m.at[i], m.rotation)
           e(i) == <<p(i)[1] * m.scale[1], -(p(i)[3] * m.scale[3]), p(i)[2] * m.scale[2]>>
<1>6. t = [i \in DOMAIN d.indices |->
            LET q == Rotated(d.vertices[d.indices[i]], m.rotation)
            IN <<q[1] * m.scale[1], -(q[3] * m.scale[3]), q[2] * m.scale[2]>>]
  BY <1>1, <1>5 DEF Turned
<1>7. DOMAIN t = 1..n /\ \A i \in 1..n : t[i] = e(i)
  BY <1>2, <1>3, <1>4, <1>6
<1>8. IsList(t) /\ Len(t) = n
  <2>1. t = [i \in 1..n |-> t[i]]
    BY <1>2, <1>4, <1>6
  <2> QED
    BY <2>1, ListMade
<1>9. ASSUME NEW i \in 1..n
      PROVE  IsPoint(t[i])
  <2>1. PICK q : q = p(i) /\ IsPoint(q)
    BY <1>2, RotatedPoint DEF IsPoints
  <2>2. PICK a \in Int, b \in Int, c \in Int :
            a = q[1] * m.scale[1] /\ b = -(q[3] * m.scale[3]) /\ c = q[2] * m.scale[2]
    BY <2>1 DEF IsPoint
  <2>3. t[i] = <<a, b, c>>
    BY <1>7, <2>1, <2>2
  <2> QED
    BY <2>3 DEF IsPoint
<1>10. ASSUME m.rotation = Zero, m.scale = <<1, 1, 1>>, NEW i \in 1..n
       PROVE  t[i] = <<m.at[i][1], -m.at[i][3], m.at[i][2]>>
  <2>1. PICK x \in Int, y \in Int, z \in Int : x = m.at[i][1] /\ y = m.at[i][2] /\ z = m.at[i][3]
    BY <1>2 DEF IsPoints, IsPoint
  <2>2. PICK q : q = p(i) /\ q = <<x, y, z>>
    BY <1>2, <1>10, <2>1, RotatedPoint DEF IsPoints
  <2>3. t[i] = <<q[1] * m.scale[1], -(q[3] * m.scale[3]), q[2] * m.scale[2]>>
    BY <1>7, <2>2
  <2>4. q[1] = x /\ q[2] = y /\ q[3] = z /\ m.scale[1] = 1 /\ m.scale[2] = 1 /\ m.scale[3] = 1
    BY <1>10, <2>2
  <2>5. x * 1 = x /\ -(z * 1) = -z /\ y * 1 = y
    OBVIOUS
  <2> QED
    BY <2>1, <2>3, <2>4, <2>5
<1> QED
  BY <1>2, <1>5, <1>8, <1>9, <1>10, ListDomain DEF IsPoints

-----------------------------------------------------------------------------
(* What the parser makes of a file                                              *)

\* A mesh with a point or more, and a colour for each of its faces if it has any.
IsEntry(e) ==
    /\ e = [at |-> e.at, colours |-> e.colours, byExtruder |-> e.byExtruder,
            extruder |-> e.extruder, negative |-> e.negative]
    /\ IsPoints(e.at) /\ Len(e.at) # 0
    /\ IsList(e.colours) /\ (e.colours # <<>> => Len(e.colours) = Len(e.at))

IsEntries(f) == IsList(f) /\ \A i \in DOMAIN f : IsEntry(f[i])

LEMMA NotEmpty ==
  ASSUME NEW s, IsList(s)
  PROVE  s # <<>> <=> Len(s) # 0
<1>1. Len(s) = 0 => s = <<>>
  BY EmptyList, ListsEqual
<1> QED
  BY <1>1, EmptyList

LEMMA EmptyEntries == IsEntries(<<>>)
BY EmptyList, ListDomain DEF IsEntries

LEMMA PaintShape ==
  ASSUME NEW faces
  PROVE  \E c : \/ ExtractPaintColors(faces) = <<>>
                \/ ExtractPaintColors(faces) = [i \in DOMAIN faces |-> c[i]]
<1> DEFINE marked == {i \in DOMAIN faces : faces[i].paint # Absent}
           divisor == IF \A i \in marked : faces[i].paint % 4 = 0 THEN 4 ELSE 1
           number == [i \in DOMAIN faces |->
                        IF i \in marked THEN (faces[i].paint \div divisor) % 256 ELSE 0]
<1>1. ExtractPaintColors(faces) = IF \E i \in marked : faces[i].paint > 0 THEN number ELSE <<>>
  BY Zenon DEF ExtractPaintColors
<1>2. number = [i \in DOMAIN faces |-> number[i]]
  OBVIOUS
<1>3. ExtractPaintColors(faces) \in {number, <<>>}
  <2> HIDE DEF marked, divisor, number
  <2> QED
    BY <1>1
<1> QED
  <2> HIDE DEF number
  <2> QED
    BY <1>2, <1>3

LEMMA ParsedMesh ==
  ASSUME NEW obj, IsObject(obj)
  PROVE  IsEntries(ParseMesh(obj))
<1>1. CASE obj.faces = <<>>
  BY <1>1, EmptyEntries DEF ParseMesh
<1>2. CASE obj.faces # <<>>
  <2>1. PICK faces : faces = obj.faces /\ IsList(faces) /\ Len(faces) # 0
    BY <1>2, NotEmpty DEF IsObject
  <2>2. PICK n \in Nat : n = Len(faces) /\ DOMAIN faces = 1..n /\ n # 0
    BY <2>1, ListDomain
  <2>3. PICK at : at = [i \in DOMAIN faces |-> faces[i].at]
    OBVIOUS
  <2>4. IsPoints(at) /\ Len(at) = n
    <3>1. IsList(at) /\ Len(at) = n /\ DOMAIN at = DOMAIN faces
      BY <2>2, <2>3, ListMade
    <3>2. \A i \in DOMAIN at : IsPoint(at[i])
      BY <2>1, <2>3, <3>1 DEF IsObject
    <3> QED
      BY <3>1, <3>2 DEF IsPoints
  <2>5. PICK painted : painted = ExtractPaintColors(faces)
    OBVIOUS
  <2>6. painted = <<>> \/ (IsList(painted) /\ Len(painted) = n)
    <3>1. \E c : painted = <<>> \/ painted = [i \in DOMAIN faces |-> c[i]]
      BY <2>5, PaintShape
    <3>2. ASSUME painted # <<>> PROVE IsList(painted) /\ Len(painted) = n
      <4>1. painted = [i \in 1..n |-> painted[i]]
        BY <2>2, <3>1, <3>2
      <4> QED
        BY <4>1, ListMade
    <3> QED
      BY <3>2
  <2>7. PICK group : group = ColoursFromResources(obj)
    OBVIOUS
  <2>8. group = <<>> \/ (IsList(group) /\ Len(group) = n)
    <3>1. \E c : group = <<>> \/ group = [i \in DOMAIN faces |-> c[i]]
      <4>1. PICK c : c = [i \in DOMAIN faces |->
                IF (faces[i].p1 + 1) \in DOMAIN obj.group THEN obj.group[faces[i].p1 + 1] ELSE White]
        OBVIOUS
      <4>2. c = [i \in DOMAIN faces |-> c[i]]
        BY <4>1
      <4>3. group = <<>> \/ group = c
        BY <2>1, <2>7, <4>1 DEF ColoursFromResources
      <4> QED
        BY <4>2, <4>3
    <3>2. ASSUME group # <<>> PROVE IsList(group) /\ Len(group) = n
      <4>1. group = [i \in 1..n |-> group[i]]
        BY <2>2, <3>1, <3>2
      <4> QED
        BY <4>1, ListMade
    <3> QED
      BY <3>2
  <2>9. PICK all : all = IF painted # <<>> THEN painted ELSE group
    OBVIOUS
  <2>10. IsList(all) /\ (all # <<>> => Len(all) = n)
    BY <2>6, <2>8, <2>9, EmptyList
  <2>11. PICK e : e = [at |-> at, colours |-> all, byExtruder |-> painted # <<>>,
                       extruder |-> Absent, negative |-> FALSE]
    OBVIOUS
  <2>12. ParseMesh(obj) = <<e>>
    BY <1>2, <2>1, <2>3, <2>5, <2>7, <2>9, <2>11 DEF ParseMesh
  <2>13. IsEntry(e)
    BY <2>2, <2>4, <2>10, <2>11 DEF IsEntry
  <2> QED
    BY <2>12, <2>13 DEF IsEntries, IsList
<1> QED
  BY <1>1, <1>2

LEMMA TransformedMesh ==
  ASSUME NEW t, IsTransform(t), NEW at, IsPoints(at)
  PROVE  IsPoints(ApplyTransform(t, at)) /\ Len(ApplyTransform(t, at)) = Len(at)
<1>1. CASE t = <<>>
  BY <1>1 DEF ApplyTransform
<1>2. CASE t # <<>>
  <2>1. PICK m : m = t[1]
    OBVIOUS
  <2>2. IsPoint(m.a) /\ IsPoint(m.b) /\ IsPoint(m.c) /\ IsPoint(m.t)
    BY <1>2, <2>1 DEF IsTransform
  <2>3. PICK b : b = ApplyTransform(t, at)
    OBVIOUS
  <2> DEFINE v(i, k) == at[i][1] * m.a[k] + at[i][2] * m.b[k] + at[i][3] * m.c[k] + m.t[k]
  <2>4. b = [i \in DOMAIN at |-> [k \in 1..3 |-> v(i, k)]]
    BY <1>2, <2>1, <2>3 DEF ApplyTransform
  <2>5. PICK n \in Nat : n = Len(at) /\ DOMAIN at = 1..n
    BY ListDomain DEF IsPoints
  <2>6. IsList(b) /\ Len(b) = n /\ DOMAIN b = 1..n
    BY <2>4, <2>5, ListMade
  <2>7. ASSUME NEW i \in 1..n PROVE IsPoint(b[i])
    <3>1. PICK x \in Int, y \in Int, z \in Int : x = at[i][1] /\ y = at[i][2] /\ z = at[i][3]
      BY <2>5 DEF IsPoints, IsPoint
    <3>2. ASSUME NEW k \in {1, 2, 3} PROVE b[i][k] \in Int
      <4>1. b[i][k] = v(i, k)
        BY <2>4, <2>5
      <4>2. m.a[k] \in Int /\ m.b[k] \in Int /\ m.c[k] \in Int /\ m.t[k] \in Int
        BY <2>2 DEF IsPoint
      <4>3. PICK c \in Int, d \in Int, e \in Int, f \in Int : c = m.a[k] /\ d = m.b[k] /\ e = m.c[k] /\ f = m.t[k]
        BY <4>2
      <4>4. v(i, k) = x * c + y * d + z * e + f
        BY <3>1, <4>3
      <4> QED
        BY <4>1, <4>4
    <3> QED
      BY <3>2 DEF IsPoint
  <2> QED
    BY <2>3, <2>5, <2>6, <2>7 DEF IsPoints
<1> QED
  BY <1>1, <1>2

\* An entry that is moved, or is given another extruder or kind.
LEMMA EntryMoved ==
  ASSUME NEW e, IsEntry(e), NEW t, IsTransform(t), NEW x, NEW y
  PROVE  /\ IsEntry([e EXCEPT !.at = ApplyTransform(t, @), !.extruder = x, !.negative = y])
         /\ IsEntry([e EXCEPT !.at = ApplyTransform(t, @)])
         /\ IsEntry([e EXCEPT !.extruder = x])
<1>1. PICK a : a = ApplyTransform(t, e.at)
  OBVIOUS
<1>2. IsPoints(a) /\ Len(a) = Len(e.at)
  BY <1>1, TransformedMesh DEF IsEntry
<1>4. PICK o, c, b, w, n : o = e.at /\ c = e.colours /\ b = e.byExtruder /\ w = e.extruder /\ n = e.negative
  OBVIOUS
<1>3. e = [at |-> o, colours |-> c, byExtruder |-> b, extruder |-> w, negative |-> n]
  BY <1>4 DEF IsEntry
<1>5. [e EXCEPT !.at = a, !.extruder = x, !.negative = y] =
      [at |-> a, colours |-> c, byExtruder |-> b, extruder |-> x, negative |-> y]
  <2>1. PICK f : f = [e EXCEPT !.at = a]
    OBVIOUS
  <2>2. f = [at |-> a, colours |-> c, byExtruder |-> b, extruder |-> w, negative |-> n]
    BY <1>3, <2>1
  <2>3. PICK g : g = [f EXCEPT !.extruder = x]
    OBVIOUS
  <2>4. g = [at |-> a, colours |-> c, byExtruder |-> b, extruder |-> x, negative |-> n]
    BY <2>2, <2>3
  <2>5. [g EXCEPT !.negative = y] = [at |-> a, colours |-> c, byExtruder |-> b, extruder |-> x, negative |-> y]
    BY <2>4
  <2>6. [e EXCEPT !.at = a, !.extruder = x, !.negative = y] =
        [[[e EXCEPT !.at = a] EXCEPT !.extruder = x] EXCEPT !.negative = y]
    BY <1>3
  <2> QED
    BY <2>1, <2>3, <2>5, <2>6
<1>6. [e EXCEPT !.at = a] = [at |-> a, colours |-> c, byExtruder |-> b, extruder |-> w, negative |-> n]
  BY <1>3
<1>7. [e EXCEPT !.extruder = x] = [at |-> o, colours |-> c, byExtruder |-> b, extruder |-> x, negative |-> n]
  BY <1>3
<1>8. ASSUME NEW h, IsPoints(h), Len(h) = Len(e.at), NEW p, NEW q
      PROVE  IsEntry([at |-> h, colours |-> c, byExtruder |-> b, extruder |-> p, negative |-> q])
  BY <1>4, <1>8 DEF IsEntry
<1>9. IsPoints(o)
  BY <1>4 DEF IsEntry
<1> QED
  BY <1>1, <1>2, <1>4, <1>5, <1>6, <1>7, <1>8, <1>9

LEMMA FlattenEntries ==
  ASSUME NEW f, IsList(f), \A i \in DOMAIN f : IsEntries(f[i])
  PROVE  IsEntries(Flatten(f))
<1>1. IsLists(f)
  BY DEF IsLists, IsEntries
<1>2. IsList(Flatten(f))
  BY <1>1, FlattenIsList
<1>3. ASSUME NEW k \in DOMAIN Flatten(f) PROVE IsEntry(Flatten(f)[k])
  <2>1. PICK i \in DOMAIN f : \E j \in DOMAIN f[i] : Flatten(f)[k] = f[i][j]
    BY <1>1, FlattenIsList
  <2> QED
    BY <2>1 DEF IsEntries
<1> QED
  BY <1>2, <1>3 DEF IsEntries

\* Entries made of entries one by one.
LEMMA EntriesMade ==
  ASSUME NEW f, IsEntries(f), NEW g, DOMAIN g = DOMAIN f, g = [i \in DOMAIN f |-> g[i]],
         \A i \in DOMAIN f : IsEntry(g[i])
  PROVE  IsEntries(g)
<1>1. PICK n \in Nat : DOMAIN f = 1..n
  BY ListDomain DEF IsEntries
<1>2. IsList(g)
  BY <1>1, ListMade
<1> QED
  BY <1>2 DEF IsEntries

LEMMA ComponentsParsed ==
  ASSUME NEW archive, IsArchive(archive), NEW s, NEW obj, NEW comp, IsTransform(comp.transform)
  PROVE  IsEntries(ComponentEntries(archive, s, obj, comp))
<1>1. CASE comp.path \notin DOMAIN archive.files
  BY <1>1, EmptyEntries DEF ComponentEntries
<1>2. CASE comp.path \in DOMAIN archive.files
  <2>1. PICK ext : ext = archive.files[comp.path]
    OBVIOUS
  <2>2. IsList(ext) /\ \A i \in DOMAIN ext : IsObject(ext[i])
    BY <1>2, <2>1 DEF IsArchive
  <2>3. PICK key : key = <<obj.id, comp.target>>
    OBVIOUS
  <2>4. PICK chosen : chosen =
            IF comp.target = Absent THEN DOMAIN ext
            ELSE {i \in DOMAIN ext : /\ ext[i].id = comp.target
                                     /\ \A j \in 1..(i - 1) : ext[j].id # comp.target}
    OBVIOUS
  <2>5. PICK f : f = [i \in DOMAIN ext |-> IF i \in chosen THEN ParseMesh(ext[i]) ELSE <<>>]
    OBVIOUS
  <2>6. PICK x : x = IF comp.target = Absent
                     THEN Lookup(s.objectExtruders, obj.id, Absent)
                     ELSE Lookup(s.partExtruders, key, Lookup(s.objectExtruders, obj.id, Absent))
    OBVIOUS
  <2> DEFINE y == /\ comp.target # Absent
                  /\ Lookup(s.partSubtypes, key, "") \in NotPrintable
  <2>8. PICK parsed : parsed = Flatten(f)
    OBVIOUS
  <2>9. PICK g : g = [i \in DOMAIN parsed |->
            [parsed[i] EXCEPT !.at = ApplyTransform(comp.transform, @), !.extruder = x, !.negative = y]]
    OBVIOUS
  <2>10. ComponentEntries(archive, s, obj, comp) = g
    BY <1>2, <2>1, <2>3, <2>4, <2>5, <2>6, <2>8, <2>9, ZenonT(60) DEF ComponentEntries
  <2> HIDE DEF y
  <2>11. IsEntries(parsed)
    <3>1. PICK n \in Nat : DOMAIN ext = 1..n
      BY <2>2, ListDomain
    <3>2. IsList(f) /\ DOMAIN f = DOMAIN ext
      BY <2>5, <3>1, ListMade
    <3>3. \A i \in DOMAIN f : IsEntries(f[i])
      BY <2>2, <2>5, <3>2, ParsedMesh, EmptyEntries
    <3> QED
      BY <2>8, <3>2, <3>3, FlattenEntries
  <2>12. \A i \in DOMAIN parsed : IsEntry(g[i])
    BY <2>9, <2>11, EntryMoved DEF IsEntries
  <2>13. g = [i \in DOMAIN parsed |-> g[i]]
    BY <2>9
  <2> QED
    BY <2>9, <2>10, <2>11, <2>12, <2>13, EntriesMade
<1> QED
  BY <1>1, <1>2

LEMMA ObjectParsed ==
  ASSUME NEW archive, IsArchive(archive), NEW s, NEW obj, IsObject(obj),
         NEW placed, \A k \in DOMAIN placed : IsTransform(placed[k])
  PROVE  IsEntries(ObjectEntries(archive, s, placed, obj))
<1>1. PICK t : t = Lookup(placed, obj.id, <<>>)
  OBVIOUS
<1>2. IsTransform(t)
  BY <1>1 DEF Lookup, IsTransform
<1>3. PICK x : x = Lookup(s.objectExtruders, obj.id, Absent)
  OBVIOUS
<1>4. PICK mesh : mesh = ParseMesh(obj)
  OBVIOUS
<1>5. PICK own : own = [i \in DOMAIN mesh |-> [mesh[i] EXCEPT !.extruder = x]]
  OBVIOUS
<1>6. PICK f : f = [c \in DOMAIN obj.comps |-> ComponentEntries(archive, s, obj, obj.comps[c])]
  OBVIOUS
<1>7. PICK found : found = IF obj.faces # <<>> THEN own ELSE Flatten(f)
  OBVIOUS
<1>8. PICK g : g = [i \in DOMAIN found |-> [found[i] EXCEPT !.at = ApplyTransform(t, @)]]
  OBVIOUS
<1>9. ObjectEntries(archive, s, placed, obj) = g
  BY <1>1, <1>3, <1>4, <1>5, <1>6, <1>7, <1>8, Zenon DEF ObjectEntries
<1>10. IsEntries(own)
  <2>1. IsEntries(mesh)
    BY <1>4, ParsedMesh
  <2>2. \A i \in DOMAIN mesh : IsEntry(own[i])
    BY <1>2, <1>5, <2>1, EntryMoved DEF IsEntries
  <2>3. own = [i \in DOMAIN mesh |-> own[i]] /\ DOMAIN own = DOMAIN mesh
    BY <1>5
  <2> QED
    BY <2>1, <2>2, <2>3, EntriesMade
<1>11. IsEntries(Flatten(f))
  <2>1. PICK n \in Nat : DOMAIN obj.comps = 1..n
    BY ListDomain DEF IsObject
  <2>2. IsList(f) /\ DOMAIN f = DOMAIN obj.comps
    BY <1>6, <2>1, ListMade
  <2>3. \A i \in DOMAIN f : IsEntries(f[i])
    BY <1>6, <2>2, ComponentsParsed DEF IsObject
  <2> QED
    BY <2>2, <2>3, FlattenEntries
<1>12. IsEntries(found)
  BY <1>7, <1>10, <1>11
<1>13. \A i \in DOMAIN found : IsEntry(g[i])
  BY <1>2, <1>8, <1>12, EntryMoved DEF IsEntries
<1>14. g = [i \in DOMAIN found |-> g[i]] /\ DOMAIN g = DOMAIN found
  BY <1>8
<1> QED
  BY <1>9, <1>12, <1>13, <1>14, EntriesMade

LEMMA OnlyEntries ==
  ASSUME NEW f, IsEntries(f), NEW S
  PROVE  IsEntries(Only(f, S))
BY OnlyElements DEF IsEntries

\* A Map keeps values it was given.
LEMMA AssocValues ==
  ASSUME NEW pairs, IsList(pairs), NEW k \in DOMAIN Assoc(pairs)
  PROVE  \E i \in DOMAIN pairs : pairs[i][1] = k /\ Assoc(pairs)[k] = pairs[i][2]
<1> DEFINE Latest(i) == pairs[i][1] = k /\ \A j \in DOMAIN pairs : pairs[j][1] = k => j <= i
<1>1. PICK m \in Nat : m = Len(pairs) /\ DOMAIN pairs = 1..m
  BY ListDomain
<1>2. k \in {p[1] : p \in ToSet(pairs)} /\ Assoc(pairs)[k] = pairs[CHOOSE i \in DOMAIN pairs : Latest(i)][2]
  BY DEF Assoc
<1>3. PICK i \in DOMAIN pairs : pairs[i][1] = k
  BY <1>2 DEF ToSet
<1>4. PICK S : S = {n \in Nat : \E j \in DOMAIN pairs : pairs[j][1] = k /\ n = m - j}
  OBVIOUS
<1>5. S \in SUBSET Nat /\ m - i \in S
  BY <1>1, <1>3, <1>4
<1>6. PICK n \in S : \A x \in S : n <= x
  BY <1>5, FirstIn
<1>7. PICK h \in DOMAIN pairs : pairs[h][1] = k /\ n = m - h
  BY <1>4, <1>6
<1>8. ASSUME NEW j \in DOMAIN pairs, pairs[j][1] = k PROVE j <= h
  <2>1. m - j \in S
    BY <1>1, <1>4, <1>8
  <2>2. m - h <= m - j
    BY <1>6, <1>7, <2>1
  <2> QED
    BY <1>1, <2>2
<1>9. \E j \in DOMAIN pairs : Latest(j)
  BY <1>7, <1>8
<1> QED
  BY <1>2, <1>9

IsPart(p) == IsPoints(p.at) /\ IsList(p.colours) /\ Len(p.colours) = Len(p.at)

\* What is parsed: a mesh, the parts it was merged from if there are several, and
\* the cutters.
IsParsed(r) ==
    /\ r.ok => IsPoints(r.at) /\ Len(r.at) # 0
    /\ IsList(r.parts) /\ \A p \in DOMAIN r.parts : IsPart(r.parts[p])
    /\ r.parts # <<>> => r.at = Flatten([p \in DOMAIN r.parts |-> r.parts[p].at])
    /\ IsList(r.negatives) /\ \A i \in DOMAIN r.negatives : IsPoints(r.negatives[i])

LEMMA PointsYUp ==
  ASSUME NEW at, IsPoints(at)
  PROVE  IsPoints(ToYUp(at)) /\ Len(ToYUp(at)) = Len(at)
<1>1. PICK n \in Nat : n = Len(at) /\ DOMAIN at = 1..n
  BY ListDomain DEF IsPoints
<1>2. PICK b : b = ToYUp(at)
  OBVIOUS
<1>3. b = [i \in 1..n |-> <<at[i][1], at[i][3], -at[i][2]>>]
  BY <1>1, <1>2 DEF ToYUp
<1>4. IsList(b) /\ Len(b) = n /\ DOMAIN b = 1..n
  BY <1>3, ListMade
<1>5. ASSUME NEW i \in 1..n PROVE IsPoint(b[i])
  <2>1. PICK x \in Int, y \in Int, z \in Int : x = at[i][1] /\ y = at[i][3] /\ z = -at[i][2]
    BY <1>1 DEF IsPoints, IsPoint
  <2>2. b[i] = <<x, y, z>>
    BY <1>3, <2>1
  <2> QED
    BY <2>2 DEF IsPoint
<1> QED
  BY <1>1, <1>2, <1>4, <1>5 DEF IsPoints

LEMMA EntryColoursFit ==
  ASSUME NEW e, IsEntry(e), NEW filaments
  PROVE  IsList(EntryColours(e, filaments)) /\ Len(EntryColours(e, filaments)) = Len(e.at)
<1>1. PICK n \in Nat : n = Len(e.at) /\ DOMAIN e.at = 1..n
  BY ListDomain DEF IsEntry, IsPoints
<1>2. e.colours # <<>> => DOMAIN e.colours = 1..n
  BY <1>1, ListDomain DEF IsEntry
<1>3. PICK c : c = EntryColours(e, filaments)
  OBVIOUS
<1>4. c = [i \in 1..n |-> c[i]]
  <2>1. CASE e.colours = <<>>
    BY <1>1, <1>3, <2>1 DEF EntryColours
  <2>2. CASE e.colours # <<>> /\ e.byExtruder /\ DOMAIN filaments # {}
    BY <1>2, <1>3, <2>2 DEF EntryColours
  <2>3. CASE e.colours # <<>> /\ ~(e.byExtruder /\ DOMAIN filaments # {})
    BY <1>2, <1>3, <2>3 DEF EntryColours
  <2> QED
    BY <2>1, <2>2, <2>3
<1> QED
  BY <1>1, <1>3, <1>4, ListMade

LEMMA Merged ==
  ASSUME NEW printable, IsEntries(printable), NEW negative, IsEntries(negative), NEW filaments
  PROVE  IsParsed(MergeEntries(printable, negative, filaments))
<1>1. PICK n \in Nat : n = Len(printable) /\ DOMAIN printable = 1..n
  BY ListDomain DEF IsEntries
<1>2. PICK parts : parts = [i \in DOMAIN printable |->
                        [at |-> ToYUp(printable[i].at),
                         colours |-> EntryColours(printable[i], filaments)]]
  OBVIOUS
<1>3. IsList(parts) /\ Len(parts) = n /\ DOMAIN parts = 1..n
  BY <1>1, <1>2, ListMade
<1>4. ASSUME NEW i \in 1..n
      PROVE  IsPart(parts[i]) /\ Len(parts[i].at) # 0
  <2>1. PICK e : e = printable[i] /\ IsEntry(e)
    BY <1>1 DEF IsEntries
  <2>2. parts[i].at = ToYUp(e.at) /\ parts[i].colours = EntryColours(e, filaments)
    BY <1>1, <1>2, <2>1
  <2>3. IsPoints(ToYUp(e.at)) /\ Len(ToYUp(e.at)) = Len(e.at) /\ Len(e.at) # 0
    BY <2>1, PointsYUp DEF IsEntry
  <2> QED
    BY <2>1, <2>2, <2>3, EntryColoursFit DEF IsPart
<1>5. PICK f : f = [i \in DOMAIN parts |-> parts[i].at]
  OBVIOUS
<1>6. IsList(f) /\ DOMAIN f = 1..n
  BY <1>3, <1>5, ListMade
<1>7. IsLists(f)
  BY <1>3, <1>4, <1>5, <1>6 DEF IsLists, IsPart, IsPoints
<1>8. IsPoints(Flatten(f))
  <2>1. ASSUME NEW k \in DOMAIN Flatten(f) PROVE IsPoint(Flatten(f)[k])
    <3>1. PICK i \in DOMAIN f : \E j \in DOMAIN f[i] : Flatten(f)[k] = f[i][j]
      BY <1>7, FlattenIsList
    <3>2. IsPoints(f[i])
      BY <1>3, <1>4, <1>5, <1>6 DEF IsPart
    <3> QED
      BY <3>1, <3>2 DEF IsPoints
  <2> QED
    BY <1>7, <2>1, FlattenIsList DEF IsPoints
<1>9. PICK negs : negs = [i \in DOMAIN negative |-> ToYUp(negative[i].at)]
  OBVIOUS
<1>10. IsList(negs) /\ \A i \in DOMAIN negs : IsPoints(negs[i])
  <2>1. PICK m \in Nat : DOMAIN negative = 1..m
    BY ListDomain DEF IsEntries
  <2>2. IsList(negs) /\ DOMAIN negs = DOMAIN negative
    BY <1>9, <2>1, ListMade
  <2>3. \A i \in DOMAIN negative : IsPoints(negs[i])
    BY <1>9, PointsYUp DEF IsEntries, IsEntry
  <2> QED
    BY <2>2, <2>3
<1>11. PICK r : r = MergeEntries(printable, negative, filaments)
  OBVIOUS
<1>12. /\ r.ok = (printable # <<>>) /\ r.at = Flatten(f) /\ r.negatives = negs
       /\ r.parts = IF Len(parts) > 1 THEN parts ELSE <<>>
  BY <1>2, <1>5, <1>9, <1>11 DEF MergeEntries
<1>13. ASSUME r.ok PROVE Len(Flatten(f)) # 0
  <2>1. n # 0
    BY <1>1, <1>12, <1>13, NotEmpty DEF IsEntries
  <2>2. 1 \in DOMAIN f /\ 1 \in DOMAIN f[1]
    <3>1. 1 \in 1..n
      BY <2>1
    <3>2. IsPart(parts[1]) /\ Len(parts[1].at) # 0 /\ f[1] = parts[1].at
      BY <1>3, <1>4, <1>5, <3>1
    <3>3. 1 \in DOMAIN f[1]
      BY <3>2, ListDomain DEF IsPart, IsPoints
    <3> QED
      BY <1>6, <3>1, <3>3
  <2>3. DOMAIN Flatten(f) # {}
    BY <1>7, <2>2, FlattenHas
  <2> QED
    BY <1>8, <2>3, ListDomain DEF IsPoints
<1>14. ASSUME r.parts # <<>> PROVE r.parts = parts
  BY <1>12, <1>14
<1>15. IsList(r.parts) /\ \A p \in DOMAIN r.parts : IsPart(r.parts[p])
  <2>1. CASE r.parts = <<>>
    BY <2>1, EmptyList, ListDomain
  <2>2. CASE r.parts # <<>>
    BY <1>3, <1>4, <1>14, <2>2
  <2> QED
    BY <2>1, <2>2
<1>16. ASSUME r.parts # <<>> PROVE r.at = Flatten([p \in DOMAIN r.parts |-> r.parts[p].at])
  BY <1>5, <1>12, <1>14, <1>16
<1> QED
  BY <1>8, <1>10, <1>11, <1>12, <1>13, <1>15, <1>16 DEF IsParsed

LEMMA ArchiveParsed ==
  ASSUME NEW archive, IsArchive(archive), NEW plate
  PROVE  IsParsed(Parse3MF(archive, plate))
<1>1. PICK s : s = ModelSettings(archive.config)
  OBVIOUS
<1>2. PICK items : items = archive.items
  OBVIOUS
<1>3. PICK pairs : pairs = Only(items, {i \in DOMAIN items : items[i][2] # <<>>})
  OBVIOUS
<1>4. PICK placed : placed = Assoc(pairs)
  OBVIOUS
<1>5. PICK onPlate : onPlate = Lookup(s.plates, plate, {})
  OBVIOUS
<1>6. PICK objects : objects = Only(archive.objects,
            {i \in DOMAIN archive.objects : onPlate = {} \/ archive.objects[i].id \in onPlate})
  OBVIOUS
<1>7. PICK f : f = [i \in DOMAIN objects |-> ObjectEntries(archive, s, placed, objects[i])]
  OBVIOUS
<1>8. PICK all : all = Flatten(f)
  OBVIOUS
<1>9. PICK neg : neg = {i \in DOMAIN all : all[i].negative}
  OBVIOUS
<1>10. Parse3MF(archive, plate) =
       MergeEntries(Only(all, DOMAIN all \ neg), Only(all, neg), FilamentColours(archive.project))
  BY <1>1, <1>2, <1>3, <1>4, <1>5, <1>6, <1>7, <1>8, <1>9, Zenon DEF Parse3MF
<1>11. \A k \in DOMAIN placed : IsTransform(placed[k])
  <2>1. IsList(items) /\ \A i \in DOMAIN items : IsTransform(items[i][2])
    BY <1>2 DEF IsArchive
  <2>2. IsList(pairs) /\ \A i \in DOMAIN pairs : IsTransform(pairs[i][2])
    BY <1>3, <2>1, OnlyElements
  <2> QED
    BY <1>4, <2>2, AssocValues
<1>12. IsList(objects) /\ \A i \in DOMAIN objects : IsObject(objects[i])
  BY <1>6, OnlyElements DEF IsArchive
<1>13. IsEntries(all)
  <2>1. PICK n \in Nat : DOMAIN objects = 1..n
    BY <1>12, ListDomain
  <2>2. IsList(f) /\ DOMAIN f = DOMAIN objects
    BY <1>7, <2>1, ListMade
  <2>3. \A i \in DOMAIN f : IsEntries(f[i])
    BY <1>7, <1>11, <1>12, <2>2, ObjectParsed
  <2> QED
    BY <1>8, <2>2, <2>3, FlattenEntries
<1> QED
  BY <1>10, <1>13, OnlyEntries, Merged

LEMMA PlatesCounted ==
  ASSUME NEW archive, IsArchive(archive)
  PROVE  CountPlates(archive) \in Nat \ {0}
<1>1. PICK plates : plates = IF archive.config = <<>> THEN <<>> ELSE archive.config[1].plates
  OBVIOUS
<1>2. IsList(plates)
  BY <1>1, EmptyList DEF IsArchive
<1>3. PICK pairs : pairs = [i \in DOMAIN plates |-> <<plates[i].num, plates[i].ids>>]
  OBVIOUS
<1>4. PICK d : d = DOMAIN ModelSettings(archive.config).plates
  OBVIOUS
<1>5. d = DOMAIN Assoc(pairs)
  BY <1>1, <1>3, <1>4 DEF ModelSettings
<1>6. d = {pairs[i][1] : i \in DOMAIN pairs}
  BY <1>5 DEF Assoc, ToSet
<1>7. IsFiniteSet(d)
  <2>1. PICK n \in Nat : DOMAIN pairs = 1..n
    BY <1>2, <1>3, ListDomain
  <2>2. IsFiniteSet(1..n)
    BY FS_Interval
  <2>3. PICK g : g = [i \in 1..n |-> pairs[i][1]]
    OBVIOUS
  <2>4. g \in Surjection(1..n, d)
    BY <1>6, <2>1, <2>3 DEF Surjection
  <2>5. PICK N : N = 1..n
    OBVIOUS
  <2> QED
    BY <2>2, <2>4, <2>5, FS_Surjection
<1>8. Cardinality(d) \in Nat
  BY <1>7, FS_CardinalityType
<1> QED
  BY <1>4, <1>8 DEF CountPlates

\* What comes first stays first.
LEMMA FlattenHead ==
  ASSUME NEW f, IsLists(f), Len(f) # 0, Len(f[1]) = 1
  PROVE  /\ IsList(Flatten(f)) /\ Len(Flatten(f)) # 0 /\ Flatten(f)[1] = f[1][1]
         /\ \A k \in DOMAIN Flatten(f) :
                k > 1 => \E i \in DOMAIN f : i > 1 /\ \E j \in DOMAIN f[i] : Flatten(f)[k] = f[i][j]
<1>1. PICK m \in Nat : m = Len(f) /\ DOMAIN f = 1..m
  BY ListDomain DEF IsLists
<1>2. PICK u : Flatten(f) = u[m] /\ UpTo(f, u, m)
  BY <1>1, FlattenUpTo
<1> DEFINE Rest(n) == \A k \in DOMAIN u[n] :
                        k > 1 => \E i \in DOMAIN f : i > 1 /\ \E j \in DOMAIN f[i] : u[n][k] = f[i][j]
           Lead(n) == IsList(u[n]) /\ (n # 0 => Len(u[n]) # 0 /\ u[n][1] = f[1][1])
                      /\ (n = 0 => Len(u[n]) = 0)
           S == {n \in Nat : n <= m => Lead(n) /\ Rest(n)}
<1>3. 0 \in S
  <2>1. u[0] = <<>> /\ Len(u[0]) = 0 /\ IsList(u[0]) /\ DOMAIN u[0] = {}
    BY <1>2, EmptyList DEF UpTo
  <2> QED
    BY <2>1
<1>4. ASSUME NEW n \in Nat, n \in S PROVE n + 1 \in S
  <2> SUFFICES ASSUME n + 1 <= m PROVE Lead(n + 1) /\ Rest(n + 1)
    OBVIOUS
  <2>1. Lead(n) /\ Rest(n) /\ n < m
    BY <1>4
  <2>2. PICK p \in DOMAIN f : p = n + 1
    BY <1>1
  <2>3. PICK a, b, c : a = u[n] /\ b = f[p] /\ c = u[p] /\ c = a \o b
    <3>1. \A l \in Nat : l < m => u[l + 1] = u[l] \o f[l + 1]
      BY <1>2 DEF UpTo
    <3>2. u[p] = u[n] \o f[p]
      BY <2>1, <2>2, <3>1
    <3> QED
      BY <3>2
  <2>4. IsList(a) /\ IsList(b)
    BY <2>1, <2>2, <2>3 DEF IsLists
  <2>5. /\ IsList(c) /\ Len(c) = Len(a) + Len(b)
        /\ (\A k \in 1..Len(a) : c[k] = a[k]) /\ \A k \in 1..Len(b) : c[Len(a) + k] = b[k]
    BY <2>3, <2>4, Joined
  <2>6. DOMAIN a = 1..Len(a) /\ DOMAIN b = 1..Len(b) /\ DOMAIN c = 1..Len(c) /\ Len(a) \in Nat /\ Len(b) \in Nat
    BY <2>4, <2>5, ListDomain
  <2>7. Len(c) # 0 /\ c[1] = f[1][1]
    <3>1. CASE n = 0
      <4>1. Len(a) = 0 /\ Len(b) = 1 /\ b = f[1]
        BY <2>1, <2>2, <2>3, <3>1
      <4> QED
        BY <2>5, <4>1
    <3>2. CASE n # 0
      <4>1. Len(a) # 0 /\ a[1] = f[1][1]
        BY <2>1, <2>3, <3>2
      <4> QED
        BY <2>5, <2>6, <4>1
    <3> QED
      BY <3>1, <3>2
  <2>8. ASSUME NEW k \in DOMAIN c, k > 1
        PROVE  \E i \in DOMAIN f : i > 1 /\ \E j \in DOMAIN f[i] : c[k] = f[i][j]
    <3>1. CASE k <= Len(a)
      <4>1. k \in DOMAIN a /\ c[k] = a[k]
        BY <2>5, <2>6, <2>8, <3>1
      <4> QED
        BY <2>1, <2>3, <2>8, <4>1
    <3>2. CASE k > Len(a)
      <4>1. PICK j \in DOMAIN b : k = Len(a) + j
        <5>1. k \in Nat /\ k <= Len(a) + Len(b)
          BY <2>5, <2>6
        <5>2. k - Len(a) \in 1..Len(b) /\ k = Len(a) + (k - Len(a))
          BY <2>6, <3>2, <5>1
        <5> QED
          BY <2>6, <5>2
      <4>2. c[k] = b[j]
        BY <2>5, <2>6, <4>1
      <4>3. n # 0
        <5>1. CASE n = 0
          <6>1. Len(a) = 0 /\ Len(b) = 1
            BY <2>1, <2>2, <2>3, <5>1
          <6> QED
            BY <2>6, <2>8, <4>1, <6>1
        <5> QED
          BY <5>1
      <4> QED
        BY <2>2, <2>3, <4>2, <4>3
    <3> QED
      BY <2>5, <2>6, <3>1, <3>2
  <2>9. Lead(p)
    <3>1. p # 0
      BY <2>2
    <3>2. IsList(u[p]) /\ Len(u[p]) # 0 /\ u[p][1] = f[1][1]
      BY <2>3, <2>5, <2>7
    <3> QED
      BY <3>1, <3>2
  <2>10. Rest(p)
    BY <2>3, <2>8
  <2> QED
    BY <2>2, <2>9, <2>10
<1> HIDE DEF S
<1>5. \A n \in Nat : n \in S
  BY <1>3, <1>4, Induction
<1>6. Lead(m) /\ Rest(m)
  BY <1>5 DEF S
<1> QED
  BY <1>1, <1>2, <1>6

LEMMA OnlyHead ==
  ASSUME NEW s, IsList(s), Len(s) # 0, NEW S, 1 \in S
  PROVE  /\ IsList(Only(s, S)) /\ Len(Only(s, S)) # 0 /\ Only(s, S)[1] = s[1]
         /\ \A k \in DOMAIN Only(s, S) :
                k > 1 => \E i \in DOMAIN s : i > 1 /\ i \in S /\ Only(s, S)[k] = s[i]
<1>1. PICK f : f = [i \in DOMAIN s |-> IF i \in S THEN <<s[i]>> ELSE <<>>]
  OBVIOUS
<1>2. Only(s, S) = Flatten(f)
  BY <1>1 DEF Only
<1>3. PICK m \in Nat : m = Len(s) /\ DOMAIN s = 1..m
  BY ListDomain
<1>4. IsList(f) /\ DOMAIN f = DOMAIN s /\ Len(f) = m
  BY <1>1, <1>3, ListMade
<1>5. \A x : IsList(<<x>>)
  BY DEF IsList
<1>6. IsLists(f)
  BY <1>1, <1>4, <1>5, EmptyList DEF IsLists
<1>7. 1 \in DOMAIN s /\ f[1] = <<s[1]>>
  BY <1>1, <1>3
<1>8. /\ IsList(Flatten(f)) /\ Len(Flatten(f)) # 0 /\ Flatten(f)[1] = s[1]
      /\ \A k \in DOMAIN Flatten(f) :
            k > 1 => \E i \in DOMAIN f : i > 1 /\ \E j \in DOMAIN f[i] : Flatten(f)[k] = f[i][j]
  <2>1. Len(f[1]) = 1 /\ f[1][1] = s[1] /\ Len(f) # 0
    BY <1>3, <1>4, <1>7
  <2> QED
    BY <1>6, <2>1, FlattenHead
<1>9. ASSUME NEW i \in DOMAIN f, NEW j \in DOMAIN f[i] PROVE i \in S /\ f[i][j] = s[i]
  <2>1. i \in S
    BY <1>1, <1>9
  <2>2. f[i] = <<s[i]>>
    BY <1>1, <1>4, <2>1
  <2> QED
    BY <2>1, <2>2
<1> QED
  BY <1>2, <1>4, <1>8, <1>9

\* A filter that lets everything through.
LEMMA OnlyAll ==
  ASSUME NEW s, IsList(s), NEW S, DOMAIN s \subseteq S
  PROVE  Only(s, S) = s
<1>1. PICK m \in Nat : m = Len(s) /\ DOMAIN s = 1..m
  BY ListDomain
<1>2. Only(s, S) = [k \in 1..(m - 0) |-> s[0 + k]]
  <2>1. \A i \in DOMAIN s : i \in S <=> 0 < i /\ i <= m
    BY <1>1
  <2>2. 0 \in Nat /\ 0 <= m /\ m <= Len(s)
    BY <1>1
  <2> QED
    BY <2>1, <2>2, OnlyWindow
<1>3. \A k \in 1..m : 0 + k = k /\ m - 0 = m
  OBVIOUS
<1>4. s = [k \in 1..m |-> s[k]]
  BY <1>1 DEF IsList
<1> QED
  BY <1>1, <1>2, <1>3, <1>4
\* A filter that lets the first through, and one that lets the others through.
LEMMA OnlyFirst ==
  ASSUME NEW s, IsList(s), Len(s) # 0, NEW S, \A i \in DOMAIN s : i \in S <=> i = 1
  PROVE  Only(s, S) = <<s[1]>>
<1>1. PICK m \in Nat : m = Len(s) /\ DOMAIN s = 1..m /\ m # 0
  BY ListDomain
<1>2. ASSUME NEW hi \in Nat, hi <= m, \A i \in DOMAIN s : i \in S <=> i <= hi
      PROVE  Only(s, S) = [k \in 1..hi |-> s[k]]
  <2>1. \A i \in DOMAIN s : i \in S <=> 0 < i /\ i <= hi
    BY <1>1, <1>2
  <2>2. Only(s, S) = [k \in 1..(hi - 0) |-> s[0 + k]]
    <3>1. 0 \in Nat /\ 0 <= hi /\ hi <= Len(s)
      BY <1>1, <1>2
    <3> QED
      BY <2>1, <3>1, OnlyWindow
  <2>3. hi - 0 = hi /\ \A k \in 1..hi : 0 + k = k
    OBVIOUS
  <2> QED
    BY <2>2, <2>3
<1>3. 1 \in Nat /\ 1 <= m /\ \A i \in DOMAIN s : i \in S <=> i <= 1
  BY <1>1
<1>4. Only(s, S) = [k \in 1..1 |-> s[k]]
  BY <1>2, <1>3, Zenon
<1> QED
  BY <1>4

LEMMA OnlyRest ==
  ASSUME NEW s, IsList(s), Len(s) # 0, NEW S, \A i \in DOMAIN s : i \in S <=> i # 1
  PROVE  Only(s, S) = [k \in 1..(Len(s) - 1) |-> s[1 + k]]
<1>1. PICK m \in Nat : m = Len(s) /\ DOMAIN s = 1..m /\ m # 0
  BY ListDomain
<1>2. ASSUME NEW lo \in Nat, lo <= m, \A i \in DOMAIN s : i \in S <=> i > lo
      PROVE  Only(s, S) = [k \in 1..(m - lo) |-> s[lo + k]]
  <2>1. \A i \in DOMAIN s : i \in S <=> lo < i /\ i <= m
    BY <1>1, <1>2
  <2>2. m <= Len(s)
    BY <1>1
  <2> QED
    BY <1>2, <2>1, <2>2, OnlyWindow, SMTT(60)
<1>3. 1 \in Nat /\ 1 <= m /\ \A i \in DOMAIN s : i \in S <=> i > 1
  BY <1>1
<1>4. Only(s, S) = [k \in 1..(m - 1) |-> s[1 + k]]
  BY <1>2, <1>3, Zenon
<1> QED
  BY <1>1, <1>4

-----------------------------------------------------------------------------
(* The rows                                                                    *)

\* A row has what was parsed of every plate.
IsRow(row, a) ==
    /\ row.plateCount \in Nat \ {0}
    /\ \A p \in 1..row.plateCount :
        LET parsed == Parse3MF(a, p)
        IN /\ p \in DOMAIN row.plates /\ p \in DOMAIN row.negatives
           /\ parsed.ok /\ IsParsed(parsed)
           /\ row.plates[p].at = parsed.at /\ row.plates[p].colours = parsed.colours
           /\ row.negatives[p] = parsed.negatives /\ row.parts[p] = parsed.parts

LEMMA RowsKept ==
  ASSUME NEW a, IsArchive(a), NEW rows, rows = Register3MFModel(a, MaxFaces), rows # <<>>
  PROVE  IsRow(rows[1], a)
<1>1. PICK n \in Nat \ {0} : n = CountPlates(a)
  BY PlatesCounted
<1>2. PICK parsed : parsed = [p \in 1..n |-> Parse3MF(a, p)]
  OBVIOUS
<1>3. rows = Rows(parsed, MaxFaces)
  BY <1>1, <1>2 DEF Register3MFModel
<1>4. Len(parsed) = n /\ DOMAIN parsed = 1..n
  BY <1>2
<1>5. \A p \in 1..n : parsed[p].ok
  BY <1>3, <1>4 DEF Rows
<1>6. PICK plates, negatives, parts :
        /\ plates = [p \in DOMAIN parsed |-> [at |-> parsed[p].at, colours |-> parsed[p].colours]]
        /\ negatives = [p \in DOMAIN parsed |-> parsed[p].negatives]
        /\ parts = [p \in DOMAIN parsed |-> parsed[p].parts]
  OBVIOUS
<1>7. PICK row : row = [plateCount |-> n, at |-> parsed[1].at, colours |-> <<>>,
                        plates |-> plates, negatives |-> negatives, parts |-> parts]
  OBVIOUS
<1>8. rows = <<row>>
  BY <1>3, <1>4, <1>6, <1>7, Zenon DEF Rows
<1>9. rows[1] = row
  BY <1>8
<1>10. row.plateCount = n /\ row.plates = plates /\ row.negatives = negatives /\ row.parts = parts
  BY <1>7
<1>11. ASSUME NEW p \in 1..n
       PROVE  /\ p \in DOMAIN plates /\ p \in DOMAIN negatives
              /\ parsed[p].ok /\ parsed[p] = Parse3MF(a, p) /\ IsParsed(Parse3MF(a, p))
              /\ plates[p].at = parsed[p].at /\ plates[p].colours = parsed[p].colours
              /\ negatives[p] = parsed[p].negatives /\ parts[p] = parsed[p].parts
  <2>1. IsParsed(Parse3MF(a, p))
    BY ArchiveParsed
  <2>2. plates[p] = [at |-> parsed[p].at, colours |-> parsed[p].colours]
    BY <1>4, <1>6
  <2> QED
    BY <1>2, <1>4, <1>5, <1>6, <2>1, <2>2
<1> QED
  BY <1>9, <1>10, <1>11 DEF IsRow

\* What is linked to the model.
IsChild(e) ==
    /\ e.modelId = 1 /\ e.linkedTo = <<1>>
    /\ e.rotation = Zero /\ e.scale = <<1, 1, 1>>

NegativeChild(e, k) == e.kind = "negative" /\ e.negative = <<1, k>> /\ e.part = <<>> /\ IsChild(e)
PartChild(e, p) == e.kind = "part" /\ e.part = <<1, p>> /\ e.negative = <<>> /\ IsChild(e)

Seen(e, v) == [e EXCEPT !.visible = v]

LEMMA NegativesLinked ==
  ASSUME NEW row, IsList(row.negatives[1])
  PROVE  LET c == NegativeChildren(1, row)
         IN /\ IsList(c) /\ Len(c) = Len(row.negatives[1])
            /\ \A k \in DOMAIN c : NegativeChild(c[k], k)
                                   /\ \A v : NegativeChild(Seen(c[k], v), k)
                                             /\ Seen(c[k], v).visible = v
<1>1. PICK n \in Nat : n = Len(row.negatives[1]) /\ DOMAIN row.negatives[1] = 1..n
  BY ListDomain
<1>2. PICK o : o = [i \in 1..n |->
                    LET mid(at, k) == (Low(at, k) + High(at, k)) \div 2
                        parent == row.plates[1].at
                        at == row.negatives[1][i]
                    IN <<mid(at, 1) - mid(parent, 1), Low(at, 2) - Low(parent, 2),
                         mid(at, 3) - mid(parent, 3)>>]
  OBVIOUS
<1>3. PICK c : c = [i \in 1..n |-> [Entry("negative", 1) EXCEPT
                    !.linkedTo = <<1>>, !.negative = <<1, i>>, !.offset = o[i]]]
  OBVIOUS
<1>4. NegativeChildren(1, row) = c
  BY <1>1, <1>2, <1>3 DEF NegativeChildren
<1>5. IsList(c) /\ Len(c) = n /\ DOMAIN c = 1..n
  BY <1>3, ListMade
<1>6. ASSUME NEW k \in 1..n
      PROVE  c[k] = [modelId |-> 1, kind |-> "negative", linkedTo |-> <<1>>, visible |-> TRUE,
                     rotation |-> Zero, offset |-> o[k], scale |-> <<1, 1, 1>>,
                     part |-> <<>>, negative |-> <<1, k>>]
  BY <1>3 DEF Entry
<1>7. ASSUME NEW k \in 1..n, NEW v
      PROVE  /\ NegativeChild(c[k], k)
             /\ NegativeChild(Seen(c[k], v), k) /\ Seen(c[k], v).visible = v
  <2>1. PICK e : e = [modelId |-> 1, kind |-> "negative", linkedTo |-> <<1>>, visible |-> v,
                      rotation |-> Zero, offset |-> o[k], scale |-> <<1, 1, 1>>,
                      part |-> <<>>, negative |-> <<1, k>>]
    OBVIOUS
  <2>5. PICK d : d = c[k] /\ d = [modelId |-> 1, kind |-> "negative", linkedTo |-> <<1>>, visible |-> TRUE,
                      rotation |-> Zero, offset |-> o[k], scale |-> <<1, 1, 1>>,
                      part |-> <<>>, negative |-> <<1, k>>]
    BY <1>6, <1>7
  <2>2. Seen(c[k], v) = e
    BY <2>5, <2>1 DEF Seen
  <2>3. NegativeChild(e, k) /\ e.visible = v
    BY <2>1 DEF NegativeChild, IsChild
  <2>4. NegativeChild(c[k], k)
    BY <2>5 DEF NegativeChild, IsChild
  <2> QED
    BY <2>2, <2>3, <2>4
<1> QED
  BY <1>1, <1>4, <1>5, <1>7

LEMMA PartsLinked ==
  ASSUME NEW row, IsList(row.parts[1])
  PROVE  LET c == PrintableChildren(1, row)
         IN /\ IsList(c) /\ Len(c) = Len(row.parts[1])
            /\ \A k \in DOMAIN c : \A v : PartChild(Seen(c[k], v), k)
                                          /\ Seen(c[k], v).visible = v
<1>1. PICK n \in Nat : n = Len(row.parts[1]) /\ DOMAIN row.parts[1] = 1..n
  BY ListDomain
<1>2. PICK c : c = [i \in 1..n |-> [Entry("part", 1) EXCEPT !.linkedTo = <<1>>, !.part = <<1, i>>]]
  OBVIOUS
<1>3. PrintableChildren(1, row) = c
  BY <1>1, <1>2 DEF PrintableChildren
<1>4. IsList(c) /\ Len(c) = n /\ DOMAIN c = 1..n
  BY <1>2, ListMade
<1>5. ASSUME NEW k \in 1..n
      PROVE  c[k] = [modelId |-> 1, kind |-> "part", linkedTo |-> <<1>>, visible |-> TRUE,
                     rotation |-> Zero, offset |-> Zero, scale |-> <<1, 1, 1>>,
                     part |-> <<1, k>>, negative |-> <<>>]
  BY <1>2 DEF Entry
<1>6. ASSUME NEW k \in 1..n, NEW v
      PROVE  PartChild(Seen(c[k], v), k) /\ Seen(c[k], v).visible = v
  <2>1. PICK e : e = [modelId |-> 1, kind |-> "part", linkedTo |-> <<1>>, visible |-> v,
                      rotation |-> Zero, offset |-> Zero, scale |-> <<1, 1, 1>>,
                      part |-> <<1, k>>, negative |-> <<>>]
    OBVIOUS
  <2>5. PICK d : d = c[k] /\ d = [modelId |-> 1, kind |-> "part", linkedTo |-> <<1>>, visible |-> TRUE,
                     rotation |-> Zero, offset |-> Zero, scale |-> <<1, 1, 1>>,
                     part |-> <<1, k>>, negative |-> <<>>]
    BY <1>5, <1>6
  <2>2. Seen(c[k], v) = e
    BY <2>5, <2>1 DEF Seen
  <2>3. PartChild(e, k) /\ e.visible = v
    BY <2>1 DEF PartChild, IsChild
  <2> QED
    BY <2>2, <2>3
<1> QED
  BY <1>1, <1>3, <1>4, <1>6

-----------------------------------------------------------------------------
(* The request                                                                 *)

\* How many cutters and parts a request names.
CuttersOf(row, edit) == IF edit.plate = 1 THEN Len(row.negatives[1]) ELSE 0
PartsOf(row, edit) == IF edit.plate = 1 THEN Len(row.parts[1]) ELSE 0

\* A request: the model as the user edited it, its cutters, its parts.
IsBody(body, row, edit) ==
    LET e == body.models[1]
        n == CuttersOf(row, edit)
        p == PartsOf(row, edit)
    IN /\ n \in Nat /\ p \in Nat /\ IsList(body.models) /\ Len(body.models) = 1 + n + p
       /\ e.kind = "model" /\ e.modelId = 1 /\ e.linkedTo = <<>> /\ e.visible
       /\ e.rotation = edit.rotation /\ e.offset = edit.offset /\ e.scale = edit.scale
       /\ \A k \in 1..n : NegativeChild(body.models[1 + k], k)
       /\ \A k \in 1..p : PartChild(body.models[1 + n + k], k)
       /\ PlateOf(body) = edit.plate

LEMMA BodySent ==
  ASSUME NEW a, NEW row, IsRow(row, a), NEW edit, edit.plate \in 1..row.plateCount, NEW settings
  PROVE  /\ IsBody(SliceBody(1, row, edit, settings), row, edit)
         /\ SliceBody(1, row, edit, settings).settings = settings
<1>1. IsList(row.negatives[1]) /\ IsList(row.parts[1])
  <2>1. 1 \in 1..row.plateCount
    BY DEF IsRow
  <2>2. row.negatives[1] = Parse3MF(a, 1).negatives /\ row.parts[1] = Parse3MF(a, 1).parts
        /\ IsParsed(Parse3MF(a, 1))
    BY <2>1 DEF IsRow
  <2> QED
    BY <2>2 DEF IsParsed
<1>2. PICK x, y, z : x = edit.rotation /\ y = edit.offset /\ z = edit.scale
  OBVIOUS
<1>3. PICK parent : parent = [Entry("model", 1) EXCEPT !.rotation = x, !.offset = y, !.scale = z]
  OBVIOUS
<1>4. PICK negs, parts : negs = NegativeChildren(1, row) /\ parts = PrintableChildren(1, row)
  OBVIOUS
<1>5. PICK children : children = IF edit.plate = 1 THEN negs \o parts ELSE <<>>
  OBVIOUS
<1>6. PICK n, p : n = CuttersOf(row, edit) /\ p = PartsOf(row, edit)
  OBVIOUS
<1>7. n \in Nat /\ p \in Nat
  BY <1>1, <1>6 DEF CuttersOf, PartsOf, IsList
<1>8. /\ IsList(negs) /\ Len(negs) = Len(row.negatives[1])
      /\ \A k \in DOMAIN negs : \A v : NegativeChild(Seen(negs[k], v), k)
  BY <1>1, <1>4, NegativesLinked
<1>9. /\ IsList(parts) /\ Len(parts) = Len(row.parts[1])
      /\ \A k \in DOMAIN parts : \A v : PartChild(Seen(parts[k], v), k)
  BY <1>1, <1>4, PartsLinked
<1>10. /\ IsList(children) /\ Len(children) = n + p
       /\ \A k \in 1..n : \A v : NegativeChild(Seen(children[k], v), k)
       /\ \A k \in 1..p : \A v : PartChild(Seen(children[n + k], v), k)
  <2>1. CASE edit.plate = 1
    <3>1. n = Len(negs) /\ p = Len(parts)
      BY <1>6, <1>8, <1>9, <2>1 DEF CuttersOf, PartsOf
    <3>2. children = negs \o parts
      BY <1>5, <2>1
    <3>3. /\ IsList(children) /\ Len(children) = Len(negs) + Len(parts)
          /\ \A k \in 1..Len(negs) : children[k] = negs[k]
          /\ \A k \in 1..Len(parts) : children[Len(negs) + k] = parts[k]
      <4>1. IsList(negs) /\ IsList(parts)
        BY <1>8, <1>9
      <4> QED
        BY <3>2, <4>1, Joined
    <3>4. DOMAIN negs = 1..n /\ DOMAIN parts = 1..p
      BY <1>8, <1>9, <3>1, ListDomain
    <3> QED
      BY <1>8, <1>9, <3>1, <3>3, <3>4
  <2>2. CASE edit.plate # 1
    <3>1. n = 0 /\ p = 0 /\ children = <<>>
      BY <1>5, <1>6, <2>2 DEF CuttersOf, PartsOf
    <3>2. IsList(children) /\ Len(children) = 0
      BY <3>1, EmptyList
    <3>3. \A k \in 1..n : FALSE
      BY <3>1
    <3>4. \A k \in 1..p : FALSE
      BY <3>1
    <3> QED
      BY <3>1, <3>2, <3>3, <3>4
  <2> QED
    BY <2>1, <2>2
<1>11. PICK m \in Nat : m = n + p /\ DOMAIN children = 1..m
  BY <1>7, <1>10, ListDomain
<1>12. PICK shown : shown = [i \in DOMAIN children |-> Seen(children[i], i \notin edit.hidden)]
  OBVIOUS
<1>13. IsList(shown) /\ Len(shown) = m
  BY <1>11, <1>12, ListMade
<1>14. PICK body : body = [models |-> <<parent>> \o shown,
                           plateIndex |-> IF row.plateCount > 1 THEN edit.plate ELSE 0,
                           settings |-> settings]
  OBVIOUS
<1>15. SliceBody(1, row, edit, settings) = body
  <2>1. shown = [i \in DOMAIN children |-> [children[i] EXCEPT !.visible = i \notin edit.hidden]]
    BY <1>12 DEF Seen
  <2> QED
    BY <1>2, <1>3, <1>4, <1>5, <1>14, <2>1, Zenon DEF SliceBody
<1>16. PICK one, models : one = <<parent>> /\ models = one \o shown /\ body.models = models
  BY <1>14
<1>17. IsList(one) /\ Len(one) = 1 /\ one[1] = parent
  BY <1>16 DEF IsList
<1>18. /\ IsList(models) /\ Len(models) = Len(one) + Len(shown)
       /\ \A i \in 1..Len(one) : models[i] = one[i]
       /\ \A i \in 1..Len(shown) : models[Len(one) + i] = shown[i]
  <2>1. IsList(one) /\ IsList(shown)
    BY <1>13, <1>17
  <2> QED
    BY <1>16, <2>1, Joined
<1>19. IsList(models) /\ Len(models) = 1 + n + p /\ models[1] = parent
  BY <1>7, <1>11, <1>13, <1>17, <1>18
<1>20. \A i \in 1..m : models[1 + i] = Seen(children[i], i \notin edit.hidden)
  BY <1>11, <1>12, <1>13, <1>17, <1>18
<1>21. ASSUME NEW k \in 1..n PROVE NegativeChild(models[1 + k], k)
  <2>1. k \in 1..m
    BY <1>7, <1>11
  <2> QED
    BY <1>10, <1>20, <2>1
<1>22. ASSUME NEW k \in 1..p PROVE PartChild(models[1 + n + k], k)
  <2>1. PICK i : i = n + k
    OBVIOUS
  <2>2. i \in 1..m /\ 1 + i = 1 + n + k
    BY <1>7, <1>11, <2>1
  <2> QED
    BY <1>10, <1>20, <2>1, <2>2
<1>23. PlateOf(body) = edit.plate
  <2>1. body.plateIndex = IF row.plateCount > 1 THEN edit.plate ELSE 0
    BY <1>14
  <2>2. row.plateCount \in Nat /\ edit.plate \in Nat /\ 1 <= edit.plate /\ edit.plate <= row.plateCount
    BY DEF IsRow
  <2> QED
    BY <2>1, <2>2 DEF PlateOf
<1>24. body.settings = settings
  BY <1>14
<1>25. parent.kind = "model" /\ parent.modelId = 1 /\ parent.linkedTo = <<>> /\ parent.visible
       /\ parent.rotation = edit.rotation /\ parent.offset = edit.offset /\ parent.scale = edit.scale
  <2>1. parent.kind = "model" /\ parent.modelId = 1 /\ parent.linkedTo = <<>> /\ parent.visible
    BY <1>3 DEF Entry
  <2>2. parent.rotation = x
    BY <1>3 DEF Entry
  <2>3. parent.offset = y
    BY <1>3 DEF Entry
  <2>4. parent.scale = z
    BY <1>3 DEF Entry
  <2> QED
    BY <1>2, <2>1, <2>2, <2>3, <2>4
<1>26. IsBody(body, row, edit)
  BY <1>6, <1>7, <1>16, <1>19, <1>21, <1>22, <1>23, <1>25 DEF IsBody
<1> QED
  BY <1>15, <1>24, <1>26

\* The model comes first of the request, so it is the only parent.
LEMMA ParentsSent ==
  ASSUME NEW row, NEW edit, NEW body, IsBody(body, row, edit)
  PROVE  /\ Parents(body) = <<body.models[1]>>
         /\ IsList(Inline(body))
         /\ \A j \in DOMAIN Inline(body) :
                \E i \in DOMAIN body.models : i > 1 /\ body.models[i].visible /\ Inline(body)[j] = body.models[i]
         /\ (\A i \in DOMAIN body.models : body.models[i].visible) =>
                Len(Inline(body)) = CuttersOf(row, edit) + PartsOf(row, edit)
                /\ \A j \in DOMAIN Inline(body) : Inline(body)[j] = body.models[1 + j]
<1>1. PICK n, p : n = CuttersOf(row, edit) /\ p = PartsOf(row, edit)
  OBVIOUS
<1>2. PICK models : models = body.models
  OBVIOUS
<1>3. n \in Nat /\ p \in Nat /\ IsList(models) /\ Len(models) = 1 + n + p
  BY <1>1, <1>2 DEF IsBody
<1>4. PICK m \in Nat : m = Len(models) /\ m = 1 + n + p /\ DOMAIN models = 1..m
  BY <1>3, ListDomain
<1>5. models[1].kind = "model" /\ models[1].visible
  BY <1>2 DEF IsBody
<1>6. ASSUME NEW i \in DOMAIN models, i > 1 PROVE models[i].kind # "model"
  <2>1. i \in Nat /\ i <= 1 + n + p
    BY <1>4, <1>6
  <2>2. CASE i <= 1 + n
    <3>1. PICK k \in 1..n : i = 1 + k
      <4>1. i - 1 \in 1..n /\ i = 1 + (i - 1)
        BY <1>3, <1>6, <2>1, <2>2
      <4> QED
        BY <4>1
    <3>2. NegativeChild(models[1 + k], k)
      BY <1>1, <1>2 DEF IsBody
    <3> QED
      BY <3>1, <3>2 DEF NegativeChild
  <2>3. CASE i > 1 + n
    <3>1. PICK k \in 1..p : i = 1 + n + k
      <4>1. i - (1 + n) \in 1..p /\ i = 1 + n + (i - (1 + n))
        BY <1>3, <2>1, <2>3
      <4> QED
        BY <4>1
    <3>2. PartChild(models[1 + n + k], k)
      BY <1>1, <1>2 DEF IsBody
    <3> QED
      BY <3>1, <3>2 DEF PartChild
  <2> QED
    BY <1>3, <2>1, <2>2, <2>3
<1>7. PICK shown : shown = {i \in DOMAIN models : models[i].visible}
  OBVIOUS
<1>8. PICK v : v = Only(models, shown) /\ v = Visible(body)
  BY <1>2, <1>7 DEF Visible
<1>9. /\ IsList(v) /\ Len(v) # 0 /\ v[1] = models[1]
      /\ \A k \in DOMAIN v : k > 1 => \E i \in DOMAIN models : i > 1 /\ i \in shown /\ v[k] = models[i]
  <2>1. 1 \in shown /\ Len(models) # 0
    BY <1>3, <1>4, <1>5, <1>7
  <2> QED
    <3>1. PICK w : w = Only(models, shown)
      OBVIOUS
    <3>2. /\ IsList(w) /\ Len(w) # 0 /\ w[1] = models[1]
          /\ \A k \in DOMAIN w : k > 1 => \E i \in DOMAIN models : i > 1 /\ i \in shown /\ w[k] = models[i]
      BY <1>3, <2>1, <3>1, OnlyHead
    <3> QED
      BY <1>8, <3>1, <3>2
<1>10. PICK l \in Nat : l = Len(v) /\ DOMAIN v = 1..l /\ l # 0
  BY <1>9, ListDomain
<1>11. \A k \in 1..l : v[k].kind = "model" <=> k = 1
  <2>1. ASSUME NEW k \in 1..l, k # 1 PROVE v[k].kind # "model"
    <3>1. k \in DOMAIN v /\ k > 1
      BY <1>10, <2>1
    <3>2. PICK i \in DOMAIN models : i > 1 /\ v[k] = models[i]
      BY <1>9, <3>1
    <3> QED
      BY <1>6, <3>2
  <2> QED
    BY <1>5, <1>9, <2>1
<1>12. PICK first, rest : /\ first = {k \in DOMAIN v : v[k].kind = "model"}
                          /\ rest = {k \in DOMAIN v : v[k].kind # "model"}
  OBVIOUS
<1>13. Parents(body) = Only(v, first) /\ Inline(body) = Only(v, rest)
  BY <1>8, <1>12 DEF Parents, Inline
<1>14. Only(v, first) = <<v[1]>>
  <2>1. \A k \in DOMAIN v : k \in first <=> k = 1
    BY <1>10, <1>11, <1>12
  <2> QED
    BY <1>9, <2>1, OnlyFirst
<1>15. Only(v, rest) = [k \in 1..(l - 1) |-> v[1 + k]]
  <2>1. \A k \in DOMAIN v : k \in rest <=> k # 1
    BY <1>10, <1>11, <1>12
  <2> QED
    BY <1>9, <1>10, <2>1, OnlyRest
<1>16. Parents(body) = <<models[1]>>
  BY <1>9, <1>13, <1>14
<1>17. PICK w : w = Inline(body) /\ w = [k \in 1..(l - 1) |-> v[1 + k]]
  BY <1>13, <1>15
<1>18. IsList(w) /\ Len(w) = l - 1 /\ DOMAIN w = 1..(l - 1)
  <2>1. l - 1 \in Nat
    BY <1>10
  <2> QED
    BY <1>17, <2>1, ListMade
<1>19. ASSUME NEW j \in DOMAIN w
       PROVE  \E i \in DOMAIN models : i > 1 /\ models[i].visible /\ w[j] = models[i]
  <2>1. PICK k : k = 1 + j
    OBVIOUS
  <2>2. k \in DOMAIN v /\ k > 1 /\ w[j] = v[k]
    BY <1>10, <1>17, <1>18, <1>19, <2>1
  <2> QED
    BY <1>7, <1>9, <2>2
<1>20. ASSUME \A i \in DOMAIN models : models[i].visible
       PROVE  Len(w) = n + p /\ \A j \in DOMAIN w : w[j] = models[1 + j]
  <2>1. v = models
    BY <1>3, <1>7, <1>8, <1>20, OnlyAll
  <2>2. l = m
    BY <1>4, <1>10, <2>1
  <2> QED
    BY <1>3, <1>4, <1>17, <1>18, <2>1, <2>2
<1> QED
  BY <1>1, <1>2, <1>16, <1>17, <1>18, <1>19, <1>20

LEMMA LinkedToParent ==
  ASSUME NEW e, e.modelId = 1, NEW parents, parents = <<e>>
  PROVE  /\ Linked(ModelIdToIndex(parents), <<>>) = 0
         /\ Linked(ModelIdToIndex(parents), <<1>>) = 1
<1>1. PICK pairs : pairs = [i \in DOMAIN parents |-> <<parents[i].modelId, i>>]
  OBVIOUS
<1>2. DOMAIN parents = {1} /\ parents[1] = e
  OBVIOUS
<1>3. DOMAIN pairs = {1} /\ pairs[1] = <<1, 1>> /\ IsList(pairs)
  <2>1. pairs = [i \in 1..1 |-> pairs[i]] /\ DOMAIN pairs = {1} /\ pairs[1] = <<1, 1>>
    BY <1>1, <1>2
  <2> QED
    BY <2>1, ListMade
<1>4. PICK index : index = ModelIdToIndex(parents) /\ index = Assoc(pairs)
  BY <1>1 DEF ModelIdToIndex
<1>5. DOMAIN index = {1}
  <2>1. DOMAIN Assoc(pairs) = {q[1] : q \in ToSet(pairs)}
    BY DEF Assoc
  <2>2. ToSet(pairs) = {<<1, 1>>}
    BY <1>3 DEF ToSet
  <2> QED
    BY <1>4, <2>1, <2>2
<1>6. index[1] = 1
  <2>1. 1 \in DOMAIN Assoc(pairs)
    BY <1>4, <1>5
  <2>2. PICK i \in DOMAIN pairs : pairs[i][1] = 1 /\ Assoc(pairs)[1] = pairs[i][2]
    BY <1>3, <2>1, AssocValues
  <2>3. pairs[i] = <<1, 1>>
    BY <1>3, <2>2
  <2> QED
    BY <1>4, <2>2, <2>3
<1>7. Linked(index, <<>>) = 0
  <2>1. {k \in DOMAIN <<>> : <<>>[k] \in DOMAIN index} = {}
    OBVIOUS
  <2> QED
    BY <2>1 DEF Linked
<1>8. Linked(index, <<1>>) = 1
  <2>1. PICK ids : ids = <<1>>
    OBVIOUS
  <2>2. DOMAIN ids = {1} /\ ids[1] = 1
    BY <2>1
  <2>3. PICK known : known = {k \in DOMAIN ids : ids[k] \in DOMAIN index}
    OBVIOUS
  <2>4. known = {1}
    BY <1>5, <2>2, <2>3
  <2>5. (CHOOSE k \in known : \A l \in known : k <= l) = 1
    BY <2>4
  <2>6. Linked(index, ids) = index[ids[CHOOSE k \in known : \A l \in known : k <= l]]
    BY <2>3, <2>4 DEF Linked
  <2> QED
    BY <1>6, <2>1, <2>2, <2>5, <2>6
<1> QED
  BY <1>4, <1>7, <1>8

-----------------------------------------------------------------------------
(* The meshes                                                                  *)

\* What the builder gets: the model, then what is moved along with it.
Follower(m) ==
    m.linkedTo = 1 /\ m.rotation = Zero /\ m.scale = <<1, 1, 1>> /\ IsPoints(m.at)
CutterOf(m, at) == m.kind = "negative" /\ m.at = at /\ Follower(m)
PartOf(m, part) == m.kind = "part" /\ m.at = part.at /\ m.colours = part.colours /\ Follower(m)
ModelOf(m, mesh, edit) ==
    /\ m.kind = "model" /\ m.linkedTo = 0 /\ m.at = mesh.at /\ m.colours = mesh.colours
    /\ m.rotation = edit.rotation /\ m.offset = edit.offset /\ m.scale = edit.scale

LEMMA EntryMeshed ==
  ASSUME NEW e, NEW mesh, NEW index
  PROVE  LET m == MeshEntry(e, mesh, index)
         IN /\ m.kind = e.kind /\ m.at = mesh.at /\ m.colours = mesh.colours
            /\ m.rotation = e.rotation /\ m.offset = e.offset /\ m.scale = e.scale
            /\ m.linkedTo = Linked(index, e.linkedTo)
BY DEF MeshEntry

\* The mesh of a cutter or a part that the request names.
LEMMA ChildMeshed ==
  ASSUME NEW a, NEW row, IsRow(row, a), NEW db, db[1] = row, NEW plate, NEW k,
         NEW index, Linked(index, << 1 >>) = 1, NEW e
  PROVE  /\ k \in 1..Len(row.negatives[1]) /\ NegativeChild(e, k) =>
                CutterOf(MeshEntry(e, ChildMesh(db, e, plate), index), row.negatives[1][k])
         /\ k \in 1..Len(row.parts[1]) /\ PartChild(e, k) =>
                PartOf(MeshEntry(e, ChildMesh(db, e, plate), index), row.parts[1][k])
<1>1. PICK m : m = MeshEntry(e, ChildMesh(db, e, plate), index)
  OBVIOUS
<1>2. PICK mesh : mesh = ChildMesh(db, e, plate)
  OBVIOUS
<1>3. /\ m.kind = e.kind /\ m.at = mesh.at /\ m.colours = mesh.colours
      /\ m.rotation = e.rotation /\ m.scale = e.scale /\ m.linkedTo = Linked(index, e.linkedTo)
  BY <1>1, <1>2, EntryMeshed
<1>4. IsParsed(Parse3MF(a, 1)) /\ row.negatives[1] = Parse3MF(a, 1).negatives /\ row.parts[1] = Parse3MF(a, 1).parts
  <2>1. 1 \in 1..row.plateCount
    BY DEF IsRow
  <2> QED
    BY <2>1 DEF IsRow
<1>5. ASSUME k \in 1..Len(row.negatives[1]), NegativeChild(e, k)
      PROVE  CutterOf(m, row.negatives[1][k])
  <2>1. e.kind = "negative" /\ e.negative = <<1, k>> /\ e.part = <<>> /\ e.modelId = 1 /\ e.linkedTo = <<1>>
        /\ e.rotation = Zero /\ e.scale = <<1, 1, 1>>
    BY <1>5 DEF NegativeChild, IsChild
  <2>2. e.negative # <<>> /\ e.negative[1] = 1 /\ e.negative[2] = k
    BY <2>1
  <2>3. mesh = [at |-> db[e.modelId].negatives[e.negative[1]][e.negative[2]], colours |-> <<>>]
    BY <1>2, <2>1, <2>2 DEF ChildMesh
  <2>4. mesh.at = row.negatives[1][k]
    BY <2>1, <2>2, <2>3
  <2>5. IsPoints(row.negatives[1][k])
    <3>1. IsList(row.negatives[1]) /\ \A i \in DOMAIN row.negatives[1] : IsPoints(row.negatives[1][i])
      BY <1>4 DEF IsParsed
    <3> QED
      BY <1>5, <3>1, ListDomain
  <2> QED
    BY <1>3, <2>1, <2>4, <2>5 DEF CutterOf, Follower
<1>6. ASSUME k \in 1..Len(row.parts[1]), PartChild(e, k)
      PROVE  PartOf(m, row.parts[1][k])
  <2>1. e.kind = "part" /\ e.part = <<1, k>> /\ e.negative = <<>> /\ e.modelId = 1 /\ e.linkedTo = <<1>>
        /\ e.rotation = Zero /\ e.scale = <<1, 1, 1>>
    BY <1>6 DEF PartChild, IsChild
  <2>2. e.part # <<>> /\ e.part[1] = 1 /\ e.part[2] = k
    BY <2>1
  <2>3. mesh = db[e.modelId].parts[e.part[1]][e.part[2]]
    BY <1>2, <2>1, <2>2 DEF ChildMesh
  <2>4. mesh = row.parts[1][k]
    BY <2>1, <2>2, <2>3
  <2>5. IsPoints(row.parts[1][k].at)
    <3>1. IsList(row.parts[1]) /\ \A i \in DOMAIN row.parts[1] : IsPart(row.parts[1][i])
      BY <1>4 DEF IsParsed
    <3> QED
      BY <1>6, <3>1, ListDomain DEF IsPart
  <2> QED
    BY <1>3, <2>1, <2>4, <2>5 DEF PartOf, Follower
<1> QED
  BY <1>1, <1>5, <1>6

\* The plate's cutters are added if the request names no child.
LEMMA CuttersAdded ==
  ASSUME NEW a, NEW row, IsRow(row, a), NEW db, db[1] = row, NEW plate \in 1..row.plateCount,
         NEW e, e.modelId = 1, NEW parents, parents = <<e>>,
         NEW inline, IsList(inline), \A j \in DOMAIN inline : inline[j].linkedTo = << 1 >>
  PROVE  LET c == Cutters(db, parents, inline, plate, 1)
         IN /\ IsList(c) /\ Len(c) = IF Len(inline) = 0 THEN Len(row.negatives[plate]) ELSE 0
            /\ \A n \in DOMAIN c : CutterOf(c[n], row.negatives[plate][n])
<1>1. parents[1].modelId = 1 /\ DOMAIN parents = {1}
  OBVIOUS
<1>2. PICK negs : negs = Lookup(row.negatives, plate, <<>>)
  OBVIOUS
<1>3. /\ plate \in DOMAIN row.negatives /\ row.negatives[plate] = Parse3MF(a, plate).negatives
      /\ IsParsed(Parse3MF(a, plate))
  BY DEF IsRow
<1>4. negs = row.negatives[plate] /\ IsList(negs) /\ \A i \in DOMAIN negs : IsPoints(negs[i])
  BY <1>2, <1>3 DEF Lookup, IsParsed
<1>5. PICK hasInline : hasInline = UNION {ToSet(inline[j].linkedTo) : j \in DOMAIN inline}
  OBVIOUS
<1>6. PICK added : added = [n \in DOMAIN negs |->
                [kind |-> "negative", at |-> negs[n], colours |-> <<>>, rotation |-> Zero,
                 offset |-> Zero, scale |-> <<1, 1, 1>>, linkedTo |-> 1]]
  OBVIOUS
<1>7. Cutters(db, parents, inline, plate, 1) = IF 1 \in hasInline THEN <<>> ELSE added
  <2>1. Cutters(db, parents, inline, plate, 1) =
            IF 1 \in hasInline \/ \E j \in 1..(1 - 1) : parents[j].modelId = 1 THEN <<>> ELSE added
    BY <1>1, <1>2, <1>5, <1>6 DEF Cutters
  <2>2. ~ \E j \in 1..(1 - 1) : parents[j].modelId = 1
    OBVIOUS
  <2> QED
    BY <2>1, <2>2
<1>8. CASE Len(inline) = 0
  <2>1. DOMAIN inline = {}
    BY <1>8 DEF IsList
  <2>2. 1 \notin hasInline
    BY <1>5, <2>1
  <2>3. PICK l \in Nat : l = Len(negs) /\ DOMAIN negs = 1..l
    BY <1>4, ListDomain
  <2>4. IsList(added) /\ Len(added) = l /\ DOMAIN added = DOMAIN negs
    BY <1>6, <2>3, ListMade
  <2>5. ASSUME NEW n \in DOMAIN added PROVE CutterOf(added[n], negs[n])
    <3>1. PICK at : at = negs[n]
      OBVIOUS
    <3>2. added[n] = [kind |-> "negative", at |-> at, colours |-> <<>>, rotation |-> Zero,
                      offset |-> Zero, scale |-> <<1, 1, 1>>, linkedTo |-> 1]
      BY <1>6, <2>4, <2>5, <3>1
    <3>3. IsPoints(at)
      BY <1>4, <2>4, <2>5, <3>1
    <3> QED
      BY <3>1, <3>2, <3>3 DEF CutterOf, Follower
  <2> QED
    BY <1>4, <1>7, <1>8, <2>2, <2>3, <2>4, <2>5
<1>9. CASE Len(inline) # 0
  <2>1. 1 \in DOMAIN inline /\ inline[1].linkedTo = <<1>>
    BY <1>9 DEF IsList
  <2>2. 1 \in ToSet(inline[1].linkedTo)
    BY <2>1 DEF ToSet
  <2>3. 1 \in hasInline
    BY <1>5, <2>1, <2>2
  <2>4. Cutters(db, parents, inline, plate, 1) = <<>>
    BY <1>7, <2>3
  <2>5. PICK c : c = Cutters(db, parents, inline, plate, 1) /\ IsList(c) /\ Len(c) = 0
    BY <2>4, EmptyList
  <2>6. DOMAIN c = {}
    BY <2>4, <2>5
  <2> QED
    BY <1>9, <2>5, <2>6
<1> QED
  BY <1>8, <1>9

LEMMA RequestChildren ==
  ASSUME NEW row, NEW edit, NEW body, IsBody(body, row, edit), NEW i \in DOMAIN body.models, i > 1
  PROVE  \/ \E k \in 1..Len(row.negatives[1]) : NegativeChild(body.models[i], k)
         \/ \E k \in 1..Len(row.parts[1]) : PartChild(body.models[i], k)
<1>1. PICK n, p : n = CuttersOf(row, edit) /\ p = PartsOf(row, edit)
  OBVIOUS
<1>2. n \in Nat /\ p \in Nat /\ IsList(body.models) /\ Len(body.models) = 1 + n + p
  BY <1>1 DEF IsBody
<1>3. i \in Nat /\ i <= 1 + n + p
  BY <1>2, ListDomain
<1>4. CASE i <= 1 + n
  <2>1. PICK k \in 1..n : i = 1 + k
    <3>1. i - 1 \in 1..n /\ i = 1 + (i - 1)
      BY <1>2, <1>3, <1>4
    <3> QED
      BY <3>1
  <2>2. NegativeChild(body.models[1 + k], k)
    BY <1>1 DEF IsBody
  <2>3. n = Len(row.negatives[1])
    BY <1>1, <2>1 DEF CuttersOf
  <2> QED
    BY <2>1, <2>2, <2>3
<1>5. CASE i > 1 + n
  <2>1. PICK k \in 1..p : i = 1 + n + k
    <3>1. i - (1 + n) \in 1..p /\ i = 1 + n + (i - (1 + n))
      BY <1>2, <1>3, <1>5
    <3> QED
      BY <3>1
  <2>2. PartChild(body.models[1 + n + k], k)
    BY <1>1 DEF IsBody
  <2>3. p = Len(row.parts[1])
    BY <1>1, <2>1 DEF PartsOf
  <2> QED
    BY <2>1, <2>2, <2>3
<1> QED
  BY <1>2, <1>3, <1>4, <1>5

\* The model with its cutters, or with its cutters and the parts it consists of.
ModelsPlain(models, cutters) ==
    Len(models) = 1 + Len(cutters) /\ \A k \in 1..Len(cutters) : CutterOf(models[1 + k], cutters[k])
ModelsByPart(models, cutters, parts) ==
    /\ Len(models) = 1 + Len(cutters) + Len(parts)
    /\ \A k \in 1..Len(cutters) : CutterOf(models[1 + k], cutters[k])
    /\ \A k \in 1..Len(parts) : PartOf(models[1 + Len(cutters) + k], parts[k])

\* The model, and what moves along with it.
IsBuilt(models, row, edit) ==
    /\ IsList(models) /\ Len(models) # 0
    /\ ModelOf(models[1], row.plates[edit.plate], edit)
    /\ \A k \in DOMAIN models : k > 1 => Follower(models[k]) /\ models[k].kind \in {"negative", "part"}

LEMMA ModelsBuilt ==
  ASSUME NEW a, NEW row, IsRow(row, a), NEW db, db[1] = row, NEW edit, edit.plate \in 1..row.plateCount,
         NEW body, IsBody(body, row, edit), NEW models, models = BuildModels(db, body)
  PROVE  /\ IsBuilt(models, row, edit)
         /\ (\A i \in DOMAIN body.models : body.models[i].kind = "part" => ~body.models[i].visible) =>
                \A k \in DOMAIN models : k > 1 => models[k].kind = "negative"
         /\ (\A i \in DOMAIN body.models : body.models[i].visible) =>
                IF PartsOf(row, edit) = 0 THEN ModelsPlain(models, row.negatives[edit.plate])
                ELSE edit.plate = 1 /\ ModelsByPart(models, row.negatives[1], row.parts[1])
<1>1. PICK plate : plate = edit.plate /\ plate = PlateOf(body) /\ plate \in 1..row.plateCount
  BY DEF IsBody
<1>2. PICK e : e = body.models[1]
  OBVIOUS
<1>3. PICK parents : parents = Parents(body) /\ parents = <<e>>
  BY <1>2, ParentsSent
<1>4. PICK inline : inline = Inline(body)
  OBVIOUS
<1>5. PICK index : index = ModelIdToIndex(parents)
  OBVIOUS
<1>6. /\ e.kind = "model" /\ e.modelId = 1 /\ e.linkedTo = <<>>
      /\ e.rotation = edit.rotation /\ e.offset = edit.offset /\ e.scale = edit.scale
  BY <1>2 DEF IsBody
<1>7. Linked(index, <<>>) = 0 /\ Linked(index, <<1>>) = 1
  BY <1>3, <1>5, <1>6, LinkedToParent
<1>8. /\ IsList(inline)
      /\ \A j \in DOMAIN inline :
            \E i \in DOMAIN body.models : i > 1 /\ body.models[i].visible /\ inline[j] = body.models[i]
  BY <1>4, ParentsSent
<1>9. ASSUME NEW j \in DOMAIN inline
      PROVE  \/ \E k \in 1..Len(row.negatives[1]) : NegativeChild(inline[j], k)
             \/ \E k \in 1..Len(row.parts[1]) : PartChild(inline[j], k)
  BY <1>8, <1>9, RequestChildren
<1>10. PICK m1 : m1 = [i \in DOMAIN parents |-> MeshEntry(parents[i], MeshOf(db, parents[i].modelId, plate), index)]
  OBVIOUS
<1>11. PICK m2 : m2 = [i \in DOMAIN inline |-> MeshEntry(inline[i], ChildMesh(db, inline[i], plate), index)]
  OBVIOUS
<1>12. PICK g : g = [i \in DOMAIN parents |-> Cutters(db, parents, inline, plate, i)]
  OBVIOUS
<1>13. PICK m3 : m3 = Flatten(g)
  OBVIOUS
<1>14. PICK m12 : m12 = m1 \o m2
  OBVIOUS
<1>15. models = m12 \o m3
  BY <1>1, <1>3, <1>4, <1>5, <1>10, <1>11, <1>12, <1>13, <1>14, Zenon DEF BuildModels
<1>16. DOMAIN parents = {1} /\ parents[1] = e /\ DOMAIN parents = 1..1
  BY <1>3
<1>17. IsList(m1) /\ Len(m1) = 1 /\ DOMAIN m1 = 1..1
  BY <1>10, <1>16, ListMade
<1>18. ModelOf(m1[1], row.plates[plate], edit)
  <2>1. PICK mesh : mesh = MeshOf(db, 1, plate) /\ mesh = row.plates[plate]
    <3>1. plate \in DOMAIN db[1].plates
      BY <1>1 DEF IsRow
    <3>2. MeshOf(db, 1, plate) = db[1].plates[plate]
      BY <3>1 DEF MeshOf
    <3> QED
      BY <3>2
  <2>2. m1[1] = MeshEntry(e, mesh, index)
    BY <1>6, <1>10, <1>16, <2>1
  <2>3. PICK m : m = m1[1]
    OBVIOUS
  <2>4. /\ m.kind = e.kind /\ m.at = mesh.at /\ m.colours = mesh.colours
        /\ m.rotation = e.rotation /\ m.offset = e.offset /\ m.scale = e.scale
        /\ m.linkedTo = Linked(index, e.linkedTo)
    BY <2>2, <2>3, EntryMeshed
  <2> QED
    BY <1>6, <1>7, <2>1, <2>3, <2>4 DEF ModelOf
<1>19. PICK l \in Nat : l = Len(inline) /\ DOMAIN inline = 1..l
  BY <1>8, ListDomain
<1>20. IsList(m2) /\ Len(m2) = l /\ DOMAIN m2 = 1..l
  BY <1>11, <1>19, ListMade
<1>21. ASSUME NEW j \in 1..l, NEW k
       PROVE  /\ k \in 1..Len(row.negatives[1]) /\ NegativeChild(inline[j], k) =>
                    CutterOf(m2[j], row.negatives[1][k])
              /\ k \in 1..Len(row.parts[1]) /\ PartChild(inline[j], k) =>
                    PartOf(m2[j], row.parts[1][k])
  <2>1. PICK c : c = inline[j]
    OBVIOUS
  <2>2. m2[j] = MeshEntry(c, ChildMesh(db, c, plate), index)
    BY <1>11, <1>19, <1>21, <2>1
  <2> QED
    BY <1>7, <2>1, <2>2, ChildMeshed
<1>22. ASSUME NEW j \in 1..l
       PROVE  Follower(m2[j]) /\ m2[j].kind = inline[j].kind /\ m2[j].kind \in {"negative", "part"}
              /\ inline[j].linkedTo = <<1>>
  <2>1. CASE \E k \in 1..Len(row.negatives[1]) : NegativeChild(inline[j], k)
    <3>1. PICK k \in 1..Len(row.negatives[1]) : NegativeChild(inline[j], k)
      BY <2>1
    <3>2. CutterOf(m2[j], row.negatives[1][k])
      BY <1>21, <1>22, <3>1
    <3> QED
      BY <3>1, <3>2 DEF CutterOf, NegativeChild, IsChild
  <2>2. CASE \E k \in 1..Len(row.parts[1]) : PartChild(inline[j], k)
    <3>1. PICK k \in 1..Len(row.parts[1]) : PartChild(inline[j], k)
      BY <2>2
    <3>2. PartOf(m2[j], row.parts[1][k])
      BY <1>21, <1>22, <3>1
    <3> QED
      BY <3>1, <3>2 DEF PartOf, PartChild, IsChild
  <2> QED
    BY <1>9, <1>19, <1>22, <2>1, <2>2
<1>23. /\ IsList(m3) /\ Len(m3) = IF l = 0 THEN Len(row.negatives[plate]) ELSE 0
       /\ \A n \in DOMAIN m3 : CutterOf(m3[n], row.negatives[plate][n])
  <2>1. PICK c : c = Cutters(db, parents, inline, plate, 1)
    OBVIOUS
  <2>2. \A j \in DOMAIN inline : inline[j].linkedTo = <<1>>
    BY <1>19, <1>22
  <2>3. /\ IsList(c) /\ Len(c) = IF Len(inline) = 0 THEN Len(row.negatives[plate]) ELSE 0
        /\ \A n \in DOMAIN c : CutterOf(c[n], row.negatives[plate][n])
    BY <1>1, <1>3, <1>6, <1>8, <2>1, <2>2, CuttersAdded
  <2>4. IsList(g) /\ Len(g) = 1
    BY <1>12, <1>16, ListMade
  <2>5. g[1] = c
    BY <1>12, <1>16, <2>1
  <2>6. m3 = c
    BY <1>13, <2>3, <2>4, <2>5, FlattenOne
  <2> QED
    BY <1>19, <2>3, <2>6
<1>24. PICK t \in Nat : t = Len(m3) /\ DOMAIN m3 = 1..t
  BY <1>23, ListDomain
<1>25. /\ IsList(m12) /\ Len(m12) = 1 + l /\ m12[1] = m1[1]
       /\ \A j \in 1..l : m12[1 + j] = m2[j]
  <2>1. /\ IsList(m12) /\ Len(m12) = Len(m1) + Len(m2)
        /\ \A j \in 1..Len(m1) : m12[j] = m1[j]
        /\ \A j \in 1..Len(m2) : m12[Len(m1) + j] = m2[j]
    <3>1. IsList(m1) /\ IsList(m2)
      BY <1>17, <1>20
    <3> QED
      BY <1>14, <3>1, Joined
  <2> QED
    BY <1>17, <1>20, <2>1
<1>26. /\ IsList(models) /\ Len(models) = 1 + l + t /\ models[1] = m1[1]
       /\ \A j \in 1..l : models[1 + j] = m2[j]
       /\ \A j \in 1..t : models[1 + l + j] = m3[j]
  <2>1. /\ IsList(models) /\ Len(models) = Len(m12) + Len(m3)
        /\ \A j \in 1..Len(m12) : models[j] = m12[j]
        /\ \A j \in 1..Len(m3) : models[Len(m12) + j] = m3[j]
    <3>1. IsList(m12) /\ IsList(m3)
      BY <1>23, <1>25
    <3> QED
      BY <1>15, <3>1, Joined
  <2>2. 1 \in 1..Len(m12) /\ \A j \in 1..l : 1 + j \in 1..Len(m12)
    BY <1>25
  <2> QED
    BY <1>24, <1>25, <2>1, <2>2
<1>27. ASSUME NEW k \in DOMAIN models, k > 1
       PROVE  \/ \E j \in 1..l : models[k] = m2[j]
              \/ \E j \in 1..t : models[k] = m3[j]
  <2>1. k \in Nat /\ k <= 1 + l + t
    BY <1>26, <1>27, ListDomain
  <2>2. CASE k <= 1 + l
    <3>1. k - 1 \in 1..l /\ k = 1 + (k - 1)
      BY <1>27, <2>1, <2>2
    <3> QED
      BY <1>26, <3>1
  <2>3. CASE k > 1 + l
    <3>1. k - (1 + l) \in 1..t /\ k = 1 + l + (k - (1 + l))
      BY <2>1, <2>3
    <3> QED
      BY <1>26, <3>1
  <2> QED
    BY <2>1, <2>2, <2>3
<1>28. \A j \in 1..t : Follower(m3[j]) /\ m3[j].kind = "negative"
  BY <1>23, <1>24 DEF CutterOf
<1>29. IsBuilt(models, row, edit)
  <2>1. \A k \in DOMAIN models : k > 1 => Follower(models[k]) /\ models[k].kind \in {"negative", "part"}
    BY <1>22, <1>27, <1>28
  <2>2. Len(models) # 0
    BY <1>26
  <2> QED
    BY <1>1, <1>18, <1>26, <2>1, <2>2 DEF IsBuilt
<1>30. ASSUME \A i \in DOMAIN body.models : body.models[i].kind = "part" => ~body.models[i].visible,
              NEW k \in DOMAIN models, k > 1
       PROVE  models[k].kind = "negative"
  <2>1. \A j \in 1..l : inline[j].kind # "part"
    BY <1>8, <1>19, <1>30
  <2>2. \A j \in 1..l : m2[j].kind = "negative"
    BY <1>22, <2>1
  <2> QED
    BY <1>27, <1>28, <1>30, <2>2
<1>31. ASSUME \A i \in DOMAIN body.models : body.models[i].visible
       PROVE  IF PartsOf(row, edit) = 0 THEN ModelsPlain(models, row.negatives[edit.plate])
              ELSE edit.plate = 1 /\ ModelsByPart(models, row.negatives[1], row.parts[1])
  <2>1. PICK n, p : n = CuttersOf(row, edit) /\ p = PartsOf(row, edit)
    OBVIOUS
  <2>2. n \in Nat /\ p \in Nat
    BY <2>1 DEF IsBody
  <2>3. l = n + p /\ \A j \in 1..l : inline[j] = body.models[1 + j]
    BY <1>4, <1>19, <1>31, <2>1, ParentsSent
  <2>4. ASSUME n # 0 \/ p # 0 PROVE edit.plate = 1 /\ n = Len(row.negatives[1]) /\ p = Len(row.parts[1])
    BY <2>1, <2>4 DEF CuttersOf, PartsOf
  <2>5. ASSUME NEW k \in 1..n PROVE CutterOf(models[1 + k], row.negatives[1][k])
    <3>1. NegativeChild(body.models[1 + k], k)
      BY <2>1, <2>5 DEF IsBody
    <3>2. k \in 1..l /\ n # 0
      BY <2>2, <2>3, <2>5
    <3>3. k \in 1..Len(row.negatives[1])
      BY <2>4, <3>2
    <3>4. CutterOf(m2[k], row.negatives[1][k])
      BY <1>21, <2>3, <3>1, <3>2, <3>3
    <3> QED
      BY <1>26, <3>2, <3>4
  <2>6. ASSUME NEW k \in 1..p PROVE PartOf(models[1 + n + k], row.parts[1][k])
    <3>1. PartChild(body.models[1 + n + k], k)
      BY <2>1, <2>6 DEF IsBody
    <3>2. PICK j : j = n + k
      OBVIOUS
    <3>3. j \in 1..l /\ 1 + n + k = 1 + j /\ p # 0
      BY <2>2, <2>3, <2>6, <3>2
    <3>4. k \in 1..Len(row.parts[1])
      BY <2>4, <3>3
    <3>5. PartChild(inline[j], k)
      BY <2>3, <3>1, <3>3
    <3>6. PartOf(m2[j], row.parts[1][k])
      BY <1>21, <3>3, <3>4, <3>5
    <3> QED
      BY <1>26, <3>3, <3>6
  <2>7. CASE p = 0 /\ n = 0
    <3>1. l = 0 /\ t = Len(row.negatives[plate])
      BY <1>23, <1>24, <2>3, <2>7
    <3>2. ASSUME NEW k \in 1..t PROVE CutterOf(models[1 + k], row.negatives[plate][k])
      <4>1. models[1 + 0 + k] = m3[k] /\ k \in DOMAIN m3
        BY <1>24, <1>26, <3>1, <3>2
      <4>2. 1 + 0 + k = 1 + k
        OBVIOUS
      <4> QED
        BY <1>23, <4>1, <4>2
    <3>3. Len(models) = 1 + t
      BY <1>26, <3>1
    <3> QED
      BY <1>1, <2>1, <2>7, <3>1, <3>2, <3>3 DEF ModelsPlain
  <2>8. CASE p = 0 /\ n # 0
    <3>1. edit.plate = 1 /\ n = Len(row.negatives[1])
      BY <2>4, <2>8
    <3>2. Len(models) = 1 + n
      <4>1. l = n /\ t = 0
        BY <1>23, <1>24, <2>2, <2>3, <2>8
      <4> QED
        BY <1>26, <4>1
    <3> QED
      BY <2>1, <2>5, <2>8, <3>1, <3>2 DEF ModelsPlain
  <2>9. CASE p # 0
    <3>1. edit.plate = 1 /\ n = Len(row.negatives[1]) /\ p = Len(row.parts[1])
      BY <2>4, <2>9
    <3>2. Len(models) = 1 + n + p
      <4>1. l = n + p /\ l # 0 /\ t = 0
        BY <1>23, <1>24, <2>2, <2>3, <2>9
      <4> QED
        BY <1>26, <2>2, <4>1
    <3>3. ModelsByPart(models, row.negatives[1], row.parts[1])
      BY <2>5, <2>6, <3>1, <3>2 DEF ModelsByPart
    <3> QED
      BY <2>1, <2>9, <3>1, <3>3
  <2> QED
    BY <2>7, <2>8, <2>9
<1> QED
  BY <1>29, <1>30, <1>31

-----------------------------------------------------------------------------
(* From the models to the objects of the project file                           *)

\* The faces of a model: counted in halves, moved by off, painted.
IsFaces(faces, m, off, filaments) ==
    /\ IsList(faces) /\ Len(faces) = Len(m.at)
    /\ \A f \in DOMAIN faces :
        /\ faces[f].at = [k \in 1..3 |-> 2 * Turned(m)[f][k] + off[k]]
        /\ faces[f].paint = PaintColors(IF m.kind \in {"model", "part"} THEN m.colours ELSE <<>>,
                                        Len(m.at), filaments)[f]

\* The objects are those of the models after lo, all moved by off.
IsPlaced(objs, models, lo, off, filaments) ==
    /\ IsList(objs) /\ Len(objs) = Len(models) - lo
    /\ \A i \in DOMAIN objs : /\ objs[i].kind = models[lo + i].kind
                              /\ IsFaces(objs[i].faces, models[lo + i], off, filaments)

LEMMA BuiltMeshes ==
  ASSUME NEW a, NEW row, IsRow(row, a), NEW edit, edit.plate \in 1..row.plateCount, IsEdit(edit),
         NEW models, IsBuilt(models, row, edit), NEW i \in DOMAIN models
  PROVE  IsPoints(models[i].at) /\ IsPoints(Turned(models[i])) /\ Len(Turned(models[i])) = Len(models[i].at)
<1>1. PICK m : m = models[i]
  OBVIOUS
<1>2. IsPoints(m.at) /\ IsPoint(m.rotation) /\ IsPoint(m.scale)
  <2>1. CASE i = 1
    <3>1. m.at = row.plates[edit.plate].at /\ m.rotation = edit.rotation /\ m.scale = edit.scale
      BY <1>1, <2>1 DEF IsBuilt, ModelOf
    <3>2. PICK parsed : parsed = Parse3MF(a, edit.plate)
      OBVIOUS
    <3>3. parsed.ok /\ IsParsed(parsed) /\ row.plates[edit.plate].at = parsed.at
      BY <3>2 DEF IsRow
    <3>4. IsPoints(row.plates[edit.plate].at)
      BY <3>3 DEF IsParsed
    <3> QED
      BY <3>1, <3>4 DEF IsEdit
  <2>2. CASE i # 1
    <3>1. i > 1
      BY <2>2, ListDomain DEF IsBuilt
    <3>2. IsPoints(m.at) /\ m.rotation = Zero /\ m.scale = <<1, 1, 1>>
      BY <1>1, <3>1 DEF IsBuilt, Follower
    <3>3. IsPoint(Zero) /\ IsPoint(<<1, 1, 1>>)
      BY DEF IsPoint, Zero
    <3> QED
      BY <3>2, <3>3
  <2> QED
    BY <2>1, <2>2
<1>3. IsPoints(Turned(m)) /\ Len(Turned(m)) = Len(m.at)
  BY <1>2, TurnedMesh
<1> QED
  BY <1>1, <1>2, <1>3

LEMMA ObjectFaces ==
  ASSUME NEW m, NEW at, at = Turned(m), IsPoints(at), Len(at) = Len(m.at), NEW off, NEW filaments,
         NEW hues, hues = IF m.kind \in {"model", "part"} THEN m.colours ELSE <<>>,
         NEW placed, placed = Shift(Twice(at), off),
         NEW paints, paints = PaintColors(hues, Len(at), filaments),
         NEW faces, faces = [f \in DOMAIN placed |-> [at |-> placed[f], paint |-> paints[f], p1 |-> Absent]]
  PROVE  IsFaces(faces, m, off, filaments)
<1>1. PICK n \in Nat : n = Len(at) /\ DOMAIN at = 1..n
  BY ListDomain DEF IsPoints
<1>2. PICK twice : twice = Twice(at)
  OBVIOUS
<1>3. DOMAIN twice = 1..n /\ \A i \in 1..n : twice[i] = [k \in 1..3 |-> 2 * at[i][k]]
  BY <1>1, <1>2 DEF Twice
<1>4. DOMAIN placed = 1..n /\ \A i \in 1..n : placed[i] = Plus(twice[i], off)
  BY <1>2, <1>3 DEF Shift
<1>5. IsList(faces) /\ Len(faces) = n /\ DOMAIN faces = 1..n
  BY <1>4, ListMade
<1>6. ASSUME NEW f \in 1..n
      PROVE  faces[f].at = [k \in 1..3 |-> 2 * at[f][k] + off[k]] /\ faces[f].paint = paints[f]
  <2>1. faces[f] = [at |-> placed[f], paint |-> paints[f], p1 |-> Absent]
    BY <1>4, <1>6
  <2>2. faces[f].at = placed[f] /\ faces[f].paint = paints[f]
    BY <2>1
  <2>3. PICK t : t = twice[f] /\ t = [k \in 1..3 |-> 2 * at[f][k]]
    BY <1>3, <1>6
  <2>4. placed[f] = [k \in 1..3 |-> t[k] + off[k]]
    BY <1>4, <1>6, <2>3 DEF Plus
  <2>5. [k \in 1..3 |-> t[k] + off[k]] = [k \in 1..3 |-> 2 * at[f][k] + off[k]]
    BY <2>3
  <2> QED
    BY <2>2, <2>4, <2>5
<1>7. paints = PaintColors(IF m.kind \in {"model", "part"} THEN m.colours ELSE <<>>, Len(m.at), filaments)
  OBVIOUS
<1>8. \A f \in DOMAIN faces :
         /\ faces[f].at = [k \in 1..3 |-> 2 * Turned(m)[f][k] + off[k]]
         /\ faces[f].paint = PaintColors(IF m.kind \in {"model", "part"} THEN m.colours ELSE <<>>,
                                         Len(m.at), filaments)[f]
  <2> SUFFICES ASSUME NEW f \in 1..n
               PROVE  /\ faces[f].at = [k \in 1..3 |-> 2 * Turned(m)[f][k] + off[k]]
                      /\ faces[f].paint = PaintColors(IF m.kind \in {"model", "part"} THEN m.colours ELSE <<>>,
                                                      Len(m.at), filaments)[f]
    BY <1>5
  <2>1. PICK t : t = at[f] /\ t = Turned(m)[f]
    OBVIOUS
  <2>2. faces[f].at = [k \in 1..3 |-> 2 * t[k] + off[k]]
    BY <1>6, <2>1
  <2>3. [k \in 1..3 |-> 2 * t[k] + off[k]] = [k \in 1..3 |-> 2 * Turned(m)[f][k] + off[k]]
    BY <2>1
  <2>4. faces[f].paint = paints[f]
    BY <1>6
  <2> QED
    BY <1>7, <2>2, <2>3, <2>4
<1> QED
  BY <1>1, <1>5, <1>8 DEF IsFaces

LEMMA ObjectsMade ==
  ASSUME NEW a, NEW row, IsRow(row, a), NEW edit, edit.plate \in 1..row.plateCount, IsEdit(edit),
         NEW models, IsBuilt(models, row, edit), NEW filaments, NEW objs, objs = Objects(models, filaments)
  PROVE  /\ (\A k \in DOMAIN models : k > 1 => models[k].kind = "negative") =>
                IsPlaced(objs, models, 0, PlateOffset(Turned(models[1]), models[1].offset), filaments)
         /\ (\E k \in DOMAIN models : models[k].kind = "part") =>
                IsPlaced(objs, models, 1, Zero, filaments)
<1>1. PICK n \in Nat : n = Len(models) /\ DOMAIN models = 1..n /\ n # 0
  BY ListDomain DEF IsBuilt
<1>2. models[1].kind = "model" /\ models[1].linkedTo = 0
  BY DEF IsBuilt, ModelOf
<1>3. \A k \in 1..n : k # 1 => models[k].kind \in {"negative", "part"} /\ models[k].linkedTo = 1
  BY <1>1 DEF IsBuilt, Follower
<1> DEFINE withParts == {models[i].linkedTo : i \in {j \in DOMAIN models : models[j].kind = "part"}}
           reserved == {i \in DOMAIN models : models[i].kind = "model" /\ i \in withParts}
           parents == {i \in DOMAIN models : models[i].kind = "model"} \ reserved
           at == [i \in DOMAIN models |-> Turned(models[i])]
           offsets == [i \in parents |-> PlateOffset(at[i], models[i].offset)]
           Object(i) ==
                LET m == models[i]
                    placed == Shift(Twice(at[i]),
                                    Lookup(offsets, IF m.kind = "model" THEN i ELSE m.linkedTo, Zero))
                    painted == PaintColors(IF m.kind \in {"model", "part"} THEN m.colours ELSE <<>>,
                                           Len(at[i]), filaments)
                IN [id |-> i, kind |-> m.kind,
                    faces |-> [f \in DOMAIN placed |->
                                [at |-> placed[f], paint |-> painted[f], p1 |-> Absent]]]
           made == [i \in DOMAIN models |-> Object(i)]
<1>10. objs = Only(made, DOMAIN models \ reserved)
  BY DEF Objects
<1>9. made = [i \in DOMAIN models |-> Object(i)]
  OBVIOUS
<1> HIDE DEF made
<1>8. offsets = [i \in parents |-> PlateOffset(at[i], models[i].offset)]
  OBVIOUS
<1> HIDE DEF offsets
<1>7. at = [i \in DOMAIN models |-> Turned(models[i])]
  OBVIOUS
<1> HIDE DEF at
<1>6. parents = {i \in DOMAIN models : models[i].kind = "model"} \ reserved
  OBVIOUS
<1> HIDE DEF parents
<1>5. reserved = {i \in DOMAIN models : models[i].kind = "model" /\ i \in withParts}
  OBVIOUS
<1> HIDE DEF reserved
<1>4. withParts = {models[i].linkedTo : i \in {j \in DOMAIN models : models[j].kind = "part"}}
  OBVIOUS
<1> HIDE DEF withParts
<1>11. IsList(made) /\ Len(made) = n /\ DOMAIN made = 1..n
  BY <1>1, <1>9, ListMade
<1>12. ASSUME NEW i \in 1..n, NEW off, off = Lookup(offsets, 1, Zero)
       PROVE  made[i].kind = models[i].kind /\ IsFaces(made[i].faces, models[i], off, filaments)
  <2>1. PICK m : m = models[i]
    OBVIOUS
  <2>2. PICK q : q = at[i] /\ q = Turned(m)
    BY <1>1, <1>7, <1>12, <2>1
  <2>3. IsPoints(q) /\ Len(q) = Len(m.at)
    BY <1>1, <1>12, <2>1, <2>2, BuiltMeshes
  <2>4. off = Lookup(offsets, IF m.kind = "model" THEN i ELSE m.linkedTo, Zero)
    <3>1. (IF m.kind = "model" THEN i ELSE m.linkedTo) = 1
      BY <1>2, <1>3, <1>12, <2>1
    <3> QED
      BY <1>12, <3>1
  <2>5. PICK colour : colour = IF m.kind \in {"model", "part"} THEN m.colours ELSE <<>>
    OBVIOUS
  <2>6. PICK placed : placed = Shift(Twice(q), off)
    OBVIOUS
  <2>7. PICK painted : painted = PaintColors(colour, Len(q), filaments)
    OBVIOUS
  <2>8. PICK faces : faces = [f \in DOMAIN placed |-> [at |-> placed[f], paint |-> painted[f], p1 |-> Absent]]
    OBVIOUS
  <2>9. Object(i) = [id |-> i, kind |-> m.kind, faces |-> faces]
    BY <2>1, <2>2, <2>4, <2>5, <2>6, <2>7, <2>8, Zenon
  <2>10. made[i] = Object(i)
    BY <1>1, <1>9, <1>12
  <2>11. IsFaces(faces, m, off, filaments)
    BY <2>2, <2>3, <2>5, <2>6, <2>7, <2>8, ObjectFaces
  <2> HIDE DEF Object
  <2>12. made[i].kind = m.kind /\ made[i].faces = faces
    BY <2>9, <2>10
  <2> QED
    BY <2>1, <2>11, <2>12
<1> HIDE DEF Object
<1>13. ASSUME \A k \in DOMAIN models : k > 1 => models[k].kind = "negative"
       PROVE  IsPlaced(objs, models, 0, PlateOffset(Turned(models[1]), models[1].offset), filaments)
  <2>1. \A k \in 1..n : models[k].kind # "part"
    BY <1>1, <1>2, <1>13
  <2>2. withParts = {}
    BY <1>1, <1>4, <2>1
  <2>3. reserved = {} /\ 1 \in parents
    BY <1>1, <1>2, <1>5, <1>6, <2>2
  <2>4. Lookup(offsets, 1, Zero) = PlateOffset(Turned(models[1]), models[1].offset)
    BY <1>1, <1>7, <1>8, <2>3 DEF Lookup
  <2>5. objs = made
    BY <1>1, <1>10, <1>11, <2>3, OnlyAll
  <2>6. \A i \in 1..n : 0 + i = i /\ n - 0 = n
    OBVIOUS
  <2>7. PICK off : off = Lookup(offsets, 1, Zero)
    OBVIOUS
  <2>8. \A i \in DOMAIN objs : objs[i].kind = models[i].kind /\ IsFaces(objs[i].faces, models[i], off, filaments)
    BY <1>11, <1>12, <2>5, <2>7
  <2>9. \A i \in DOMAIN objs : 0 + i = i
    BY <1>11, <2>5
  <2>10. Len(objs) = Len(models) - 0
    BY <1>1, <1>11, <2>5
  <2> QED
    BY <1>11, <2>4, <2>5, <2>7, <2>8, <2>9, <2>10 DEF IsPlaced
<1>14. ASSUME \E k \in DOMAIN models : models[k].kind = "part"
       PROVE  IsPlaced(objs, models, 1, Zero, filaments)
  <2>1. PICK k \in 1..n : models[k].kind = "part"
    BY <1>1, <1>14
  <2>2. 1 \in withParts
    BY <1>1, <1>2, <1>3, <1>4, <2>1
  <2>3. reserved = {1}
    BY <1>1, <1>2, <1>3, <1>5, <2>2
  <2>4. parents = {}
    BY <1>1, <1>2, <1>3, <1>6, <2>3
  <2>5. Lookup(offsets, 1, Zero) = Zero
    BY <1>8, <2>4 DEF Lookup
  <2>6. objs = [i \in 1..(n - 1) |-> made[1 + i]]
    <3>1. PICK S : S = DOMAIN models \ reserved
      OBVIOUS
    <3>2. \A i \in DOMAIN made : i \in S <=> i # 1
      BY <1>1, <1>11, <2>3, <3>1
    <3>3. IsList(made) /\ Len(made) # 0
      BY <1>1, <1>11
    <3>4. Only(made, S) = [i \in 1..(Len(made) - 1) |-> made[1 + i]]
      BY <3>2, <3>3, OnlyRest
    <3> QED
      BY <1>10, <1>11, <3>1, <3>4
  <2>7. IsList(objs) /\ Len(objs) = n - 1 /\ DOMAIN objs = 1..(n - 1)
    <3>1. n - 1 \in Nat
      BY <1>1
    <3> QED
      BY <2>6, <3>1, ListMade
  <2>8. ASSUME NEW i \in 1..(n - 1)
        PROVE  objs[i].kind = models[1 + i].kind /\ IsFaces(objs[i].faces, models[1 + i], Zero, filaments)
    <3>1. PICK j : j = 1 + i
      OBVIOUS
    <3>2. j \in 1..n /\ objs[i] = made[j]
      BY <1>1, <2>6, <2>8, <3>1
    <3>3. PICK off : off = Zero /\ off = Lookup(offsets, 1, Zero)
      BY <2>5
    <3> QED
      BY <1>12, <3>1, <3>2, <3>3
  <2> QED
    BY <1>1, <2>7, <2>8 DEF IsPlaced
<1> QED
  BY <1>13, <1>14

-----------------------------------------------------------------------------
(* The faces of the project file                                               *)

\* The faces of the objects of one subtype.
FacesBy(objs, subtype) ==
    Flatten([i \in DOMAIN objs |-> IF PartSubtype(objs[i].kind) = subtype THEN objs[i].faces ELSE <<>>])

LEMMA WrappedFaces ==
  ASSUME NEW objs, IsList(objs), NEW top, NEW s, project = <<Wrapped(objs, top, s)>>, NEW subtype
  PROVE  ProjectFaces(subtype) = FacesBy(objs, subtype) /\ Settings = s
<1>1. PICK n \in Nat : n = Len(objs) /\ DOMAIN objs = 1..n
  BY ListDomain
<1>2. PICK made : made = [i \in DOMAIN objs |-> [id |-> objs[i].id, faces |-> objs[i].faces,
                                                 group |-> <<>>, comps |-> <<>>]]
  OBVIOUS
<1>3. PICK last : last = <<[id |-> top, faces |-> <<>>, group |-> <<>>,
              comps |-> [i \in DOMAIN objs |->
                            [path |-> "", target |-> objs[i].id, transform |-> <<>>]]]>>
  OBVIOUS
<1>4. PICK parts : parts = [i \in DOMAIN objs |->
                         [id |-> objs[i].id, subtype |-> PartSubtype(objs[i].kind),
                          extruder |-> IF objs[i].kind \in {"model", "part"} THEN 1 ELSE 0]]
  OBVIOUS
<1>5. PICK config : config = <<[objects |-> <<[id |-> top, extruder |-> 1, name |-> "model", parts |-> parts]>>,
                                plates |-> <<[num |-> 1, ids |-> {top}]>>]>>
  OBVIOUS
<1>6. PICK objects : objects = made \o last
  OBVIOUS
<1>7. project[1] = Wrapped(objs, top, s)
  OBVIOUS
<1>8. project[1].objects = objects /\ project[1].config = config /\ project[1].settings = s
  <2>1. Wrapped(objs, top, s).objects = objects
    BY <1>2, <1>3, <1>6 DEF Wrapped
  <2>2. Wrapped(objs, top, s).config = config
    BY <1>4, <1>5 DEF Wrapped
  <2>3. Wrapped(objs, top, s).settings = s
    BY DEF Wrapped
  <2> QED
    BY <1>7, <2>1, <2>2, <2>3
<1>9. project[1].config[1].objects[1].parts = parts
  BY <1>5, <1>8
<1>10. IsList(made) /\ Len(made) = n
  BY <1>1, <1>2, ListMade
<1>11. IsList(last)
  <2>1. \A x : IsList(<<x>>)
    BY DEF IsList
  <2> QED
    BY <1>3, <2>1
<1>12. \A i \in 1..n : objects[i] = made[i]
  <2>1. \A i \in 1..Len(made) : (made \o last)[i] = made[i]
    <3>1. IsList(made)
      BY <1>10
    <3> QED
      BY <1>11, <3>1, Joined
  <2> QED
    BY <1>6, <1>10, <2>1
<1>13. \A i \in 1..n : objects[i].faces = objs[i].faces
  BY <1>1, <1>2, <1>12
<1>14. DOMAIN parts = DOMAIN objs /\ \A i \in DOMAIN objs : parts[i].subtype = PartSubtype(objs[i].kind)
  BY <1>4
<1>15. PICK f : f = [i \in DOMAIN parts |->
            IF parts[i].subtype = subtype THEN project[1].objects[i].faces ELSE <<>>]
  OBVIOUS
<1>16. PICK g : g = [i \in DOMAIN objs |->
            IF PartSubtype(objs[i].kind) = subtype THEN objs[i].faces ELSE <<>>]
  OBVIOUS
<1>17. f = g
  BY <1>1, <1>8, <1>13, <1>14, <1>15, <1>16
<1>18. ProjectFaces(subtype) = Flatten(f)
  BY <1>9, <1>15, Zenon DEF ProjectFaces
<1>19. FacesBy(objs, subtype) = Flatten(g)
  BY <1>16 DEF FacesBy
<1> QED
  BY <1>8, <1>17, <1>18, <1>19 DEF Settings

\* The objects of one subtype that stand next to each other.
LEMMA FacesWindow ==
  ASSUME NEW objs, IsList(objs), \A i \in DOMAIN objs : IsList(objs[i].faces), NEW subtype,
         NEW lo \in Nat, NEW hi \in Nat, lo <= hi, hi <= Len(objs),
         \A i \in DOMAIN objs : PartSubtype(objs[i].kind) = subtype <=> lo < i /\ i <= hi
  PROVE  FacesBy(objs, subtype) = Flatten([k \in 1..(hi - lo) |-> objs[lo + k].faces])
<1>1. PICK n \in Nat : n = Len(objs) /\ DOMAIN objs = 1..n
  BY ListDomain
<1>2. PICK f : f = [i \in DOMAIN objs |->
            IF PartSubtype(objs[i].kind) = subtype THEN objs[i].faces ELSE <<>>]
  OBVIOUS
<1>3. IsList(f) /\ Len(f) = n /\ DOMAIN f = 1..n
  BY <1>1, <1>2, ListMade
<1>4. IsLists(f)
  BY <1>1, <1>2, <1>3, EmptyList DEF IsLists
<1>5. \A i \in DOMAIN f : i <= lo \/ hi < i => f[i] = <<>>
  BY <1>1, <1>2, <1>3
<1>6. PICK g : g = [k \in 1..(hi - lo) |-> f[lo + k]]
  OBVIOUS
<1>7. Flatten(f) = Flatten(g)
  <2>1. lo <= hi /\ hi <= Len(f)
    BY <1>1, <1>3
  <2> QED
    BY <1>4, <1>5, <1>6, <2>1, FlattenWindow, SMTT(30)
<1>8. ASSUME NEW k \in 1..(hi - lo) PROVE f[lo + k] = objs[lo + k].faces
  <2>1. PICK i : i = lo + k
    OBVIOUS
  <2>2. i \in DOMAIN objs /\ lo < i /\ i <= hi
    BY <1>1, <1>8, <2>1
  <2>3. f[i] = objs[i].faces
    BY <1>2, <2>2
  <2> QED
    BY <2>1, <2>3
<1>9. g = [k \in 1..(hi - lo) |-> objs[lo + k].faces]
  BY <1>6, <1>8
<1> QED
  BY <1>2, <1>7, <1>9 DEF FacesBy

LEMMA Subtypes ==
  /\ PartSubtype("model") = "normal_part" /\ PartSubtype("part") = "normal_part"
  /\ PartSubtype("negative") = "negative_part"
BY DEF PartSubtype

\* A model that is not sliced by part is the one printable object; the others cut.
LEMMA PlainFaces ==
  ASSUME NEW models, IsList(models), Len(models) # 0, models[1].kind = "model",
         \A k \in DOMAIN models : k > 1 => models[k].kind = "negative",
         NEW objs, NEW off, NEW filaments, IsPlaced(objs, models, 0, off, filaments)
  PROVE  /\ FacesBy(objs, "normal_part") = objs[1].faces
         /\ FacesBy(objs, "negative_part") = Flatten([k \in 1..(Len(models) - 1) |-> objs[1 + k].faces])
         /\ IsList(objs) /\ Len(objs) = Len(models)
         /\ \A k \in DOMAIN models : IsFaces(objs[k].faces, models[k], off, filaments)
<1>1. PICK n \in Nat : n = Len(models) /\ DOMAIN models = 1..n /\ n # 0
  BY ListDomain
<1>2. IsList(objs) /\ Len(objs) = n /\ DOMAIN objs = 1..n
  <2>1. IsList(objs) /\ Len(objs) = Len(models) - 0
    BY DEF IsPlaced
  <2> QED
    BY <1>1, <2>1, ListDomain
<1>3. \A i \in 1..n : objs[i].kind = models[i].kind /\ IsFaces(objs[i].faces, models[i], off, filaments)
  <2>1. \A i \in 1..n : 0 + i = i
    OBVIOUS
  <2>2. \A i \in DOMAIN objs : objs[i].kind = models[0 + i].kind /\ IsFaces(objs[i].faces, models[0 + i], off, filaments)
    BY DEF IsPlaced
  <2> QED
    BY <1>2, <2>1, <2>2
<1>4. \A i \in DOMAIN objs : IsList(objs[i].faces)
  BY <1>2, <1>3 DEF IsFaces
<1>5. objs[1].kind = "model" /\ \A i \in 1..n : i # 1 => objs[i].kind = "negative"
  BY <1>1, <1>3
<1>6. FacesBy(objs, "normal_part") = objs[1].faces
  <2>1. ASSUME NEW lo \in Nat, NEW hi \in Nat, lo = 0, hi = lo + 1
        PROVE  FacesBy(objs, "normal_part") = Flatten([k \in 1..(hi - lo) |-> objs[lo + k].faces])
    <3>1. lo <= hi /\ hi <= Len(objs)
      BY <1>1, <1>2, <2>1
    <3>2. \A i \in DOMAIN objs : PartSubtype(objs[i].kind) = "normal_part" <=> lo < i /\ i <= hi
      BY <1>1, <1>2, <1>5, <2>1, Subtypes
    <3> HIDE <2>1
    <3> QED
      BY <1>2, <1>4, <3>1, <3>2, FacesWindow
  <2>2. PICK g : g = [k \in 1..(1 - 0) |-> objs[0 + k].faces]
    OBVIOUS
  <2>3. FacesBy(objs, "normal_part") = Flatten(g)
    <3>1. 0 \in Nat /\ 1 \in Nat /\ 1 = 0 + 1
      OBVIOUS
    <3> QED
      BY <2>1, <2>2, <3>1, Zenon
  <2>4. g = [k \in 1..1 |-> g[k]] /\ g[1] = objs[1].faces
    BY <2>2
  <2>5. IsList(g) /\ Len(g) = 1 /\ IsList(g[1])
    <3>1. 1 \in DOMAIN objs
      BY <1>1, <1>2
    <3>2. IsList(g[1])
      BY <1>4, <2>4, <3>1
    <3> QED
      BY <2>4, <3>2, ListMade
  <2> QED
    BY <2>3, <2>4, <2>5, FlattenOne
<1>7. FacesBy(objs, "negative_part") = Flatten([k \in 1..(n - 1) |-> objs[1 + k].faces])
  <2>1. ASSUME NEW lo \in Nat, lo = 1
        PROVE  FacesBy(objs, "negative_part") = Flatten([k \in 1..(n - lo) |-> objs[lo + k].faces])
    <3>1. lo <= n /\ n <= Len(objs)
      BY <1>1, <1>2, <2>1
    <3>2. \A i \in DOMAIN objs : PartSubtype(objs[i].kind) = "negative_part" <=> lo < i /\ i <= n
      BY <1>1, <1>2, <1>5, <2>1, Subtypes
    <3> HIDE <2>1
    <3> QED
      BY <1>2, <1>4, <3>1, <3>2, FacesWindow
  <2> QED
    BY <2>1, Zenon
<1> QED
  BY <1>1, <1>2, <1>3, <1>6, <1>7

\* A mesh that is counted in halves and moved.
MovedBy(b, t, off) == \A k \in 1..3 : \A i \in DOMAIN t : b[i][k] = 2 * t[i][k] + off[k]

\* However the model was turned and scaled, its object is centred and stands as
\* high as it was lifted.
LEMMA PlacedOnPlate ==
  ASSUME NEW t, IsPoints(t), Len(t) # 0, NEW o, IsPoint(o), NEW b, IsList(b), Len(b) = Len(t),
         NEW off, off = PlateOffset(t, o), MovedBy(b, t, off)
  PROVE  /\ Low(b, 3) = 2 * o[2]
         /\ Low(b, 1) + High(b, 1) = 2 * (Volume[1] + 2 * o[1])
         /\ Low(b, 2) + High(b, 2) = 2 * (Volume[2] - 2 * o[3])
<1>1. IsList(t)
  BY DEF IsPoints
<1>2. \A i \in DOMAIN t : t[i][1] \in Int /\ t[i][2] \in Int /\ t[i][3] \in Int
  BY DEF IsPoints, IsPoint
<1>3. ASSUME NEW k, \A i \in DOMAIN t : t[i][k] \in Int
      PROVE  Low(t, k) \in Int /\ High(t, k) \in Int
  <2>1. PICK i \in DOMAIN t : Low(t, k) = t[i][k]
    BY <1>1, <1>3, Bounds
  <2>2. PICK j \in DOMAIN t : High(t, k) = t[j][k]
    BY <1>1, <1>3, Bounds
  <2> QED
    BY <1>3, <2>1, <2>2
<1>4. PICK l1, h1, l2, h2, l3 : l1 = Low(t, 1) /\ h1 = High(t, 1) /\ l2 = Low(t, 2) /\ h2 = High(t, 2) /\ l3 = Low(t, 3)
  OBVIOUS
<1>5. l1 \in Int /\ h1 \in Int /\ l2 \in Int /\ h2 \in Int /\ l3 \in Int
  BY <1>2, <1>3, <1>4
<1>6. /\ o[1] \in Int /\ o[2] \in Int /\ o[3] \in Int
      /\ Volume[1] \in Int /\ Volume[2] \in Int
  BY VolumeAssumption DEF IsPoint
<1>19. PICK o1, o2, o3, v1, v2 : o1 = o[1] /\ o2 = o[2] /\ o3 = o[3] /\ v1 = Volume[1] /\ v2 = Volume[2]
  OBVIOUS
<1>20. o1 \in Int /\ o2 \in Int /\ o3 \in Int /\ v1 \in Int /\ v2 \in Int
  BY <1>6, <1>19
<1>7. PICK d1, d2, d3 : /\ d1 = v1 - l1 - h1 + 2 * o1 /\ d2 = v2 - l2 - h2 - 2 * o3
                        /\ d3 = 2 * (o2 - l3)
  OBVIOUS
<1>8. d1 \in Int /\ d2 \in Int /\ d3 \in Int
  BY <1>5, <1>7, <1>20
<1>9. off = <<d1, d2, d3>>
  BY <1>4, <1>7, <1>19 DEF PlateOffset
<1>10. off[1] = d1 /\ off[2] = d2 /\ off[3] = d3
  BY <1>9
<1>11. ASSUME NEW k \in 1..3, NEW d \in Int, d = off[k]
       PROVE  Low(b, k) = 2 * Low(t, k) + d /\ High(b, k) = 2 * High(t, k) + d
  <2>1. \A i \in DOMAIN t : t[i][k] \in Int
    <3>1. k = 1 \/ k = 2 \/ k = 3
      BY <1>11
    <3> QED
      BY <1>2, <3>1
  <2>2. \A i \in DOMAIN t : b[i][k] = 2 * t[i][k] + d
    BY <1>11 DEF MovedBy
  <2>3. IsList(t) /\ IsList(b) /\ Len(b) = Len(t) /\ Len(t) # 0
    BY <1>1
  <2>4. d \in Int
    BY <1>11
  <2> HIDE <1>11
  <2>5. Measured(t, k) /\ MovedAlong(b, t, k, d)
    BY <2>1, <2>2, <2>3 DEF Measured, MovedAlong
  <2> QED
    BY <2>4, <2>5, BoundsMoved
<1>12. Low(b, 1) = 2 * l1 + d1 /\ High(b, 1) = 2 * h1 + d1
  BY <1>4, <1>8, <1>10, <1>11
<1>13. Low(b, 2) = 2 * l2 + d2 /\ High(b, 2) = 2 * h2 + d2
  BY <1>4, <1>8, <1>10, <1>11
<1>14. Low(b, 3) = 2 * l3 + d3
  BY <1>4, <1>8, <1>10, <1>11
<1>15. /\ Low(b, 3) = 2 * o2 /\ Low(b, 1) + High(b, 1) = 2 * (v1 + 2 * o1)
       /\ Low(b, 2) + High(b, 2) = 2 * (v2 - 2 * o3)
  BY <1>5, <1>7, <1>12, <1>13, <1>14, <1>20
<1> QED
  BY <1>15, <1>19

LEMMA BuiltFirst ==
  ASSUME NEW a, NEW row, IsRow(row, a), NEW edit, edit.plate \in 1..row.plateCount, IsEdit(edit),
         NEW models, IsBuilt(models, row, edit)
  PROVE  LET m == models[1]
         IN /\ m.kind = "model" /\ m.offset = edit.offset
            /\ m.at = Parse3MF(a, edit.plate).at /\ m.colours = Parse3MF(a, edit.plate).colours
            /\ IsPoints(m.at) /\ Len(m.at) # 0 /\ IsPoints(Turned(m)) /\ Len(Turned(m)) = Len(m.at)
            /\ m.rotation = edit.rotation /\ m.scale = edit.scale /\ 1 \in DOMAIN models
<1>1. PICK parsed : parsed = Parse3MF(a, edit.plate)
  OBVIOUS
<1>2. /\ parsed.ok /\ IsParsed(parsed) /\ row.plates[edit.plate].at = parsed.at
      /\ row.plates[edit.plate].colours = parsed.colours
  BY <1>1 DEF IsRow
<1>3. Len(parsed.at) # 0
  BY <1>2 DEF IsParsed
<1>4. 1 \in DOMAIN models
  BY ListDomain DEF IsBuilt
<1>5. PICK m : m = models[1]
  OBVIOUS
<1>6. IsPoints(m.at) /\ IsPoints(Turned(m)) /\ Len(Turned(m)) = Len(m.at)
  BY <1>4, <1>5, BuiltMeshes
<1>7. /\ m.kind = "model" /\ m.at = row.plates[edit.plate].at /\ m.colours = row.plates[edit.plate].colours
      /\ m.rotation = edit.rotation /\ m.offset = edit.offset /\ m.scale = edit.scale
  BY <1>5 DEF IsBuilt, ModelOf
<1> QED
  BY <1>1, <1>2, <1>3, <1>4, <1>5, <1>6, <1>7

-----------------------------------------------------------------------------
(* The run of a request                                                         *)

\* What is stored was parsed of the upload, what is sent was made of what is
\* stored, and what is built was made of both.
InputInv ==
    /\ upload \in Archives
    /\ phase \in {"stored", "sent", "built"} =>
            stored # <<>> /\ stored = Register3MFModel(upload, MaxFaces)
    /\ phase \in {"sent", "built"} =>
            \E r \in Requests : /\ r[1].plate <= stored[1].plateCount
                                /\ request = <<SliceBody(1, stored[1], r[1], r[2])>>
    /\ phase = "built" =>
            project = <<Build3MF(BuildModels(stored, request[1]), BuildProjectSettings(request[1].settings))>>

LEMMA InputKept == InputInv /\ [Next]_vars => InputInv'
<1> SUFFICES ASSUME InputInv, [Next]_vars PROVE InputInv'
  OBVIOUS
<1>1. CASE Upload
  BY <1>1 DEF InputInv, Upload
<1>2. ASSUME NEW r \in Requests, Send(r[1], r[2]) PROVE InputInv'
  BY <1>2 DEF InputInv, Send
<1>3. CASE Build
  BY <1>3 DEF InputInv, Build
<1>4. CASE UNCHANGED vars
  BY <1>4 DEF InputInv, vars
<1> QED
  BY <1>1, <1>2, <1>3, <1>4 DEF Next

\* However an upload comes to the slicer (register3MFModel, handleSlicePlate,
\* buildSliceInput3MF): what is built was made of what is stored and sent.
THEOREM InputAlways == RequestSpec => []InputInv
<1>1. RequestInit => InputInv
  BY DEF RequestInit, Init, InputInv
<1>2. InputInv /\ [RequestNext]_requestVars => InputInv'
  <2> SUFFICES ASSUME InputInv, [RequestNext]_requestVars PROVE InputInv'
    OBVIOUS
  <2>1. [Next]_vars
    BY DEF RequestNext, requestVars
  <2> QED
    BY <2>1, InputKept
<1> QED
  BY <1>1, <1>2, PTL DEF RequestSpec

\* In a built project: the row, the request, its models and objects.
BuiltFrom(r, row, models, objs) ==
    /\ IsRow(row, upload) /\ IsEdit(r[1]) /\ r[1].plate \in 1..row.plateCount
    /\ IsBody(Body, row, r[1]) /\ PlateOf(Body) = r[1].plate
    /\ stored[1] = row /\ models = BuildModels(stored, Body)
    /\ Settings = BuildProjectSettings(r[2])
    /\ objs = Objects(models, Settings["filament_colour"].v)
    /\ IsList(objs) => \A subtype : ProjectFaces(subtype) = FacesBy(objs, subtype)

LEMMA BuiltOf ==
  ASSUME InputInv, Built
  PROVE  \E r \in Requests : \E row, models, objs : BuiltFrom(r, row, models, objs)
<1>1. phase = "built"
  BY DEF Built
<1>2. /\ stored # <<>> /\ stored = Register3MFModel(upload, MaxFaces)
      /\ project = <<Build3MF(BuildModels(stored, request[1]), BuildProjectSettings(request[1].settings))>>
  BY <1>1 DEF InputInv
<1>3. PICK r \in Requests : /\ r[1].plate <= stored[1].plateCount
                            /\ request = <<SliceBody(1, stored[1], r[1], r[2])>>
  BY <1>1 DEF InputInv
<1>4. PICK row : row = stored[1]
  OBVIOUS
<1>5. IsRow(row, upload)
  BY <1>2, <1>4, RowsKept, ArchivesAssumption DEF InputInv
<1>6. PICK edit, settings : edit = r[1] /\ settings = r[2]
  OBVIOUS
<1>7. IsEdit(edit)
  BY <1>3, <1>6, RequestsAssumption
<1>8. edit.plate \in 1..row.plateCount
  BY <1>3, <1>4, <1>5, <1>6, <1>7 DEF IsEdit, IsRow
<1>9. Body = SliceBody(1, row, edit, settings)
  BY <1>3, <1>4, <1>6 DEF Body
<1>10. IsBody(Body, row, edit) /\ Body.settings = settings
  BY <1>5, <1>8, <1>9, BodySent
<1>11. PICK models : models = BuildModels(stored, Body)
  OBVIOUS
<1>12. PICK s : s = BuildProjectSettings(settings)
  OBVIOUS
<1>13. PICK objs : objs = Objects(models, s["filament_colour"].v)
  OBVIOUS
<1>14. PICK top : top = TopId(models)
  OBVIOUS
<1>15. project = <<Wrapped(objs, top, s)>>
  BY <1>2, <1>10, <1>11, <1>12, <1>13, <1>14 DEF Build3MF, Body
<1>16. Settings = s
  <2>1. Wrapped(objs, top, s).settings = s
    BY DEF Wrapped
  <2>2. PICK w : w = Wrapped(objs, top, s)
    OBVIOUS
  <2> QED
    BY <1>15, <2>1, <2>2 DEF Settings
<1>17. ASSUME IsList(objs), NEW subtype PROVE ProjectFaces(subtype) = FacesBy(objs, subtype)
  BY <1>15, <1>17, WrappedFaces
<1>18. PlateOf(Body) = edit.plate
  BY <1>10 DEF IsBody
<1>19. BuiltFrom(r, row, models, objs)
  BY <1>4, <1>5, <1>6, <1>7, <1>8, <1>10, <1>11, <1>12, <1>13, <1>16, <1>17, <1>18 DEF BuiltFrom
<1> QED
  BY <1>3, <1>19

LEMMA RestingBuilt ==
  ASSUME InputInv
  PROVE  RestsOnPlate
<1> SUFFICES ASSUME Built, \A i \in DOMAIN Body.models : Body.models[i].kind = "part" => ~Body.models[i].visible
             PROVE  LET at == Points(ProjectFaces("normal_part"))
                        moved == Body.models[1].offset
                    IN /\ Low(at, 3) = 2 * moved[2]
                       /\ Low(at, 1) + High(at, 1) = 2 * (Volume[1] + 2 * moved[1])
                       /\ Low(at, 2) + High(at, 2) = 2 * (Volume[2] - 2 * moved[3])
  BY DEF RestsOnPlate
<1>1. PICK r, row, models, objs : r \in Requests /\ BuiltFrom(r, row, models, objs)
  BY BuiltOf
<1>2. /\ IsRow(row, upload) /\ IsEdit(r[1]) /\ r[1].plate \in 1..row.plateCount
      /\ IsBody(Body, row, r[1])
      /\ stored[1] = row /\ models = BuildModels(stored, Body)
      /\ objs = Objects(models, Settings["filament_colour"].v)
      /\ IsList(objs) => \A subtype : ProjectFaces(subtype) = FacesBy(objs, subtype)
  BY <1>1 DEF BuiltFrom
<1>3. PICK edit, filaments : edit = r[1] /\ filaments = Settings["filament_colour"].v
  OBVIOUS
<1>4. IsBuilt(models, row, edit) /\ \A k \in DOMAIN models : k > 1 => models[k].kind = "negative"
  BY <1>2, <1>3, ModelsBuilt
<1>5. PICK m, t, o, off : m = models[1] /\ t = Turned(m) /\ o = m.offset /\ off = PlateOffset(t, o)
  OBVIOUS
<1>6. IsPlaced(objs, models, 0, off, filaments)
  BY <1>2, <1>3, <1>4, <1>5, ObjectsMade
<1>7. /\ m.kind = "model" /\ o = edit.offset /\ IsPoints(t) /\ Len(t) = Len(m.at) /\ Len(m.at) # 0
      /\ 1 \in DOMAIN models
  BY <1>2, <1>3, <1>4, <1>5, BuiltFirst
<1>8. IsList(models) /\ Len(models) # 0
  BY <1>4 DEF IsBuilt
<1>9. /\ FacesBy(objs, "normal_part") = objs[1].faces /\ IsList(objs)
      /\ IsFaces(objs[1].faces, m, off, filaments)
  BY <1>4, <1>5, <1>6, <1>7, <1>8, PlainFaces
<1>10. PICK faces : faces = objs[1].faces /\ faces = ProjectFaces("normal_part")
  BY <1>2, <1>9
<1>11. PICK b : b = Points(faces) /\ b = Points(ProjectFaces("normal_part"))
  BY <1>10
<1>12. PICK n \in Nat : n = Len(t) /\ IsList(faces) /\ Len(faces) = n /\ DOMAIN faces = 1..n
  BY <1>7, <1>9, <1>10, ListDomain DEF IsFaces
<1>13. b = [i \in DOMAIN faces |-> faces[i].at]
  BY <1>11 DEF Points
<1>14. IsList(b) /\ Len(b) = n /\ DOMAIN b = 1..n
  BY <1>12, <1>13, ListMade
<1>15. \A i \in DOMAIN b : b[i] = [k \in 1..3 |-> 2 * t[i][k] + off[k]]
  BY <1>5, <1>9, <1>10, <1>12, <1>13, <1>14 DEF IsFaces
<1>16. IsPoint(o)
  BY <1>2, <1>3, <1>7 DEF IsEdit
<1>17. Body.models[1].offset = o
  BY <1>2, <1>3, <1>7 DEF IsBody
<1>18. /\ Low(b, 3) = 2 * o[2]
       /\ Low(b, 1) + High(b, 1) = 2 * (Volume[1] + 2 * o[1])
       /\ Low(b, 2) + High(b, 2) = 2 * (Volume[2] - 2 * o[3])
  <2>1. IsPoints(t) /\ Len(t) # 0 /\ IsPoint(o)
    BY <1>7, <1>16
  <2>2. IsList(b) /\ Len(b) = Len(t) /\ off = PlateOffset(t, o)
    BY <1>5, <1>12, <1>14
  <2>3. MovedBy(b, t, off)
    <3>1. DOMAIN t = DOMAIN b
      BY <1>7, <1>12, <1>14, ListDomain DEF IsPoints
    <3> QED
      BY <1>15, <3>1 DEF MovedBy
  <2> QED
    BY <2>1, <2>2, <2>3, PlacedOnPlate
<1> QED
  BY <1>11, <1>17, <1>18

\* For every archive, turn, scale, offset and build volume: the mesh that is sliced
\* is centred where the user put it, and as high as it was lifted
\* (processModelGeometry).
THEOREM RestsOnPlateAlways == RequestSpec => []RestsOnPlate
BY InputAlways, RestingBuilt, PTL

-----------------------------------------------------------------------------
(* Sliced as it came                                                           *)

LEMMA OffsetIsPoint ==
  ASSUME NEW t, IsPoints(t), Len(t) # 0, NEW o, IsPoint(o)
  PROVE  IsPoint(PlateOffset(t, o))
<1>1. IsList(t)
  BY DEF IsPoints
<1>2. \A i \in DOMAIN t : t[i][1] \in Int /\ t[i][2] \in Int /\ t[i][3] \in Int
  BY DEF IsPoints, IsPoint
<1>3. ASSUME NEW k, \A i \in DOMAIN t : t[i][k] \in Int
      PROVE  Low(t, k) \in Int /\ High(t, k) \in Int
  <2>1. PICK i \in DOMAIN t : Low(t, k) = t[i][k]
    BY <1>1, <1>3, Bounds
  <2>2. PICK j \in DOMAIN t : High(t, k) = t[j][k]
    BY <1>1, <1>3, Bounds
  <2> QED
    BY <1>3, <2>1, <2>2
<1>4. PICK l1, h1, l2, h2, l3 : l1 = Low(t, 1) /\ h1 = High(t, 1) /\ l2 = Low(t, 2) /\ h2 = High(t, 2) /\ l3 = Low(t, 3)
  OBVIOUS
<1>5. l1 \in Int /\ h1 \in Int /\ l2 \in Int /\ h2 \in Int /\ l3 \in Int
  BY <1>2, <1>3, <1>4
<1>6. PICK o1, o2, o3, v1, v2 : o1 = o[1] /\ o2 = o[2] /\ o3 = o[3] /\ v1 = Volume[1] /\ v2 = Volume[2]
  OBVIOUS
<1>7. o1 \in Int /\ o2 \in Int /\ o3 \in Int /\ v1 \in Int /\ v2 \in Int
  BY <1>6, VolumeAssumption DEF IsPoint
<1>8. PICK d1, d2, d3 : /\ d1 = v1 - l1 - h1 + 2 * o1 /\ d2 = v2 - l2 - h2 - 2 * o3
                        /\ d3 = 2 * (o2 - l3)
  OBVIOUS
<1>9. d1 \in Int /\ d2 \in Int /\ d3 \in Int
  BY <1>5, <1>7, <1>8
<1>10. PlateOffset(t, o) = <<d1, d2, d3>>
  BY <1>4, <1>6, <1>8 DEF PlateOffset
<1> QED
  BY <1>9, <1>10 DEF IsPoint

\* The points of b are those of s, counted in halves and moved by off.
Moved(b, s, off) ==
    /\ IsList(b) /\ IsPoints(s) /\ Len(b) = Len(s)
    /\ \A i \in DOMAIN b : b[i] = [k \in 1..3 |-> 2 * s[i][k] + off[k]]

LEMMA ShiftedBy ==
  ASSUME NEW b, NEW s, NEW off, IsPoint(off), Moved(b, s, off), NEW move, move = [k \in 1..3 |-> off[k]]
  PROVE  b = Shift(Twice(s), move)
<1>1. PICK n \in Nat : n = Len(b) /\ DOMAIN b = 1..n /\ DOMAIN s = 1..n
  BY ListDomain DEF Moved, IsPoints
<1>2. PICK twice : twice = Twice(s) /\ twice = [i \in 1..n |-> [k \in 1..3 |-> 2 * s[i][k]]]
  BY <1>1 DEF Twice
<1>3. Shift(twice, move) = [i \in 1..n |-> Plus(twice[i], move)]
  BY <1>2 DEF Shift
<1>4. ASSUME NEW i \in 1..n PROVE b[i] = Plus(twice[i], move)
  <2>1. PICK q : q = s[i]
    OBVIOUS
  <2>2. PICK t : t = twice[i] /\ t = [k \in 1..3 |-> 2 * q[k]]
    BY <1>2, <1>4, <2>1
  <2>3. Plus(t, move) = [k \in 1..3 |-> t[k] + move[k]]
    BY DEF Plus
  <2>4. \A k \in 1..3 : t[k] + move[k] = 2 * q[k] + off[k]
    BY <2>2
  <2>5. b[i] = [k \in 1..3 |-> 2 * q[k] + off[k]]
    BY <1>1, <1>4, <2>1 DEF Moved
  <2> QED
    BY <2>2, <2>3, <2>4, <2>5
<1>5. b = [i \in 1..n |-> b[i]]
  BY <1>1 DEF Moved, IsList
<1>6. [i \in 1..n |-> b[i]] = [i \in 1..n |-> Plus(twice[i], move)]
  BY <1>4
<1> QED
  BY <1>2, <1>3, <1>5, <1>6

\* What was moved by one vector was moved alike.
LEMMA MovedTogether ==
  ASSUME NEW printed, NEW source, NEW cut, NEW cutters, NEW off, IsPoint(off),
         Moved(printed, source, off), Len(source) # 0, Moved(cut, cutters, off)
  PROVE  MovedAlike(printed, cut, source, cutters)
<1>1. PICK n \in Nat : n = Len(printed) /\ DOMAIN printed = 1..n /\ DOMAIN source = 1..n /\ n # 0
  BY ListDomain DEF Moved, IsPoints
<1>2. PICK p, q : p = printed[1] /\ q = source[1]
  OBVIOUS
<1>3. p = [k \in 1..3 |-> 2 * q[k] + off[k]] /\ IsPoint(q)
  BY <1>1, <1>2 DEF Moved, IsPoints
<1>4. PICK move : move = [k \in 1..3 |-> printed[1][k] - 2 * source[1][k]]
  OBVIOUS
<1>5. ASSUME NEW k \in 1..3 PROVE p[k] - 2 * q[k] = off[k]
  <2>1. PICK x, d : x = q[k] /\ d = off[k]
    OBVIOUS
  <2>2. k = 1 \/ k = 2 \/ k = 3
    BY <1>5
  <2>3. x \in Int
    BY <1>3, <2>1, <2>2 DEF IsPoint
  <2>4. d \in Int
    BY <2>1, <2>2 DEF IsPoint
  <2>5. p[k] = 2 * x + d
    BY <1>3, <2>1
  <2> QED
    BY <2>1, <2>3, <2>4, <2>5
<1>6. move = [k \in 1..3 |-> off[k]]
  BY <1>2, <1>4, <1>5
<1>7. printed = Shift(Twice(source), move)
  BY <1>6, ShiftedBy
<1>8. cut = Shift(Twice(cutters), move)
  BY <1>6, ShiftedBy
<1> QED
  BY <1>4, <1>7, <1>8 DEF MovedAlike

LEMMA PointsZUp ==
  ASSUME NEW at, IsPoints(at)
  PROVE  /\ IsPoints(ZUp(at)) /\ Len(ZUp(at)) = Len(at)
         /\ \A i \in DOMAIN at : ZUp(at)[i] = <<at[i][1], -at[i][3], at[i][2]>>
<1>1. PICK n \in Nat : n = Len(at) /\ DOMAIN at = 1..n
  BY ListDomain DEF IsPoints
<1>2. PICK z : z = ZUp(at) /\ z = [i \in 1..n |-> <<at[i][1], -at[i][3], at[i][2]>>]
  BY <1>1 DEF ZUp
<1>3. IsList(z) /\ Len(z) = n /\ DOMAIN z = 1..n
  BY <1>2, ListMade
<1>4. ASSUME NEW i \in 1..n PROVE z[i] = <<at[i][1], -at[i][3], at[i][2]>> /\ IsPoint(z[i])
  <2>1. PICK x, y, w : x = at[i][1] /\ y = at[i][2] /\ w = at[i][3]
    OBVIOUS
  <2>2. x \in Int /\ y \in Int /\ w \in Int
    BY <1>1, <1>4, <2>1 DEF IsPoints, IsPoint
  <2>3. z[i] = <<x, -w, y>>
    BY <1>2, <1>4, <2>1
  <2> QED
    BY <2>1, <2>2, <2>3 DEF IsPoint
<1> QED
  BY <1>1, <1>2, <1>3, <1>4 DEF IsPoints

\* The faces of a model that was not turned.
LEMMA FacesMoved ==
  ASSUME NEW m, IsPoints(m.at), m.rotation = Zero, m.scale = <<1, 1, 1>>,
         NEW off, NEW filaments, NEW faces, IsFaces(faces, m, off, filaments)
  PROVE  IsList(faces) /\ Moved(Points(faces), ZUp(m.at), off)
<1>1. PICK n \in Nat : n = Len(m.at) /\ DOMAIN m.at = 1..n
  BY ListDomain DEF IsPoints
<1>2. IsList(faces) /\ Len(faces) = n /\ DOMAIN faces = 1..n
  BY <1>1, ListDomain DEF IsFaces
<1>3. PICK b : b = Points(faces) /\ b = [i \in 1..n |-> faces[i].at]
  BY <1>2 DEF Points
<1>4. IsList(b) /\ Len(b) = n /\ DOMAIN b = 1..n
  BY <1>3, ListMade
<1>5. PICK z, t : z = ZUp(m.at) /\ t = Turned(m)
  OBVIOUS
<1>6. IsPoints(z) /\ Len(z) = n /\ \A i \in 1..n : z[i] = <<m.at[i][1], -m.at[i][3], m.at[i][2]>>
  BY <1>1, <1>5, PointsZUp
<1>7. \A i \in 1..n : t[i] = <<m.at[i][1], -m.at[i][3], m.at[i][2]>>
  <2>1. IsPoint(Zero) /\ IsPoint(<<1, 1, 1>>)
    BY DEF IsPoint, Zero
  <2> QED
    BY <1>1, <1>5, <2>1, TurnedMesh
<1>8. ASSUME NEW i \in 1..n PROVE b[i] = [k \in 1..3 |-> 2 * z[i][k] + off[k]]
  <2>1. PICK q : q = z[i] /\ q = Turned(m)[i]
    BY <1>5, <1>6, <1>7, <1>8
  <2>2. b[i] = faces[i].at
    BY <1>2, <1>3, <1>8
  <2>3. faces[i].at = [k \in 1..3 |-> 2 * Turned(m)[i][k] + off[k]]
    BY <1>2, <1>8 DEF IsFaces
  <2>4. \A k \in 1..3 : 2 * Turned(m)[i][k] + off[k] = 2 * z[i][k] + off[k]
    BY <2>1
  <2>5. [k \in 1..3 |-> 2 * Turned(m)[i][k] + off[k]] = [k \in 1..3 |-> 2 * z[i][k] + off[k]]
    BY <2>4
  <2> QED
    BY <2>2, <2>3, <2>5
<1> QED
  BY <1>2, <1>3, <1>4, <1>5, <1>6, <1>8 DEF Moved

\* One mesh after the other is moved as each of them is.
LEMMA FlattenMoved ==
  ASSUME NEW g, IsLists(g), NEW s, IsList(s), Len(s) = Len(g), NEW off,
         \A i \in DOMAIN g : Moved(Points(g[i]), s[i], off)
  PROVE  Moved(Points(Flatten(g)), Flatten(s), off)
<1>1. PICK n \in Nat : n = Len(g) /\ DOMAIN g = 1..n /\ DOMAIN s = 1..n
  BY ListDomain DEF IsLists
<1>2. ASSUME NEW i \in 1..n
      PROVE  /\ IsList(g[i]) /\ IsPoints(s[i]) /\ IsList(s[i]) /\ Len(g[i]) = Len(s[i])
             /\ \A j \in DOMAIN g[i] : g[i][j].at = [k \in 1..3 |-> 2 * s[i][j][k] + off[k]]
  <2>1. PICK x, y : x = g[i] /\ y = s[i]
    OBVIOUS
  <2>2. IsList(x) /\ Moved(Points(x), y, off)
    BY <1>1, <1>2, <2>1 DEF IsLists
  <2>3. PICK b : b = Points(x) /\ b = [j \in DOMAIN x |-> x[j].at]
    BY DEF Points
  <2>4. PICK m \in Nat : m = Len(x) /\ DOMAIN x = 1..m
    BY <2>2, ListDomain
  <2>5. IsList(b) /\ Len(b) = m /\ DOMAIN b = 1..m
    BY <2>3, <2>4, ListMade
  <2>6. IsPoints(y) /\ Len(b) = Len(y) /\ \A j \in 1..m : b[j] = [k \in 1..3 |-> 2 * y[j][k] + off[k]]
    BY <2>2, <2>3, <2>5 DEF Moved
  <2>7. ASSUME NEW j \in 1..m PROVE x[j].at = [k \in 1..3 |-> 2 * y[j][k] + off[k]]
    BY <2>3, <2>4, <2>6, <2>7
  <2> QED
    BY <2>1, <2>2, <2>4, <2>5, <2>6, <2>7 DEF IsPoints
<1>3. IsLists(s) /\ SameShape(g, s)
  BY <1>1, <1>2 DEF IsLists, SameShape
<1>4. PICK a, b : a = Flatten(g) /\ b = Flatten(s)
  OBVIOUS
<1>5. Alike(g, s, a, b)
  BY <1>3, <1>4, FlattenAlike
<1>6. PICK m \in Nat : m = Len(a) /\ IsList(a) /\ IsList(b) /\ Len(b) = m /\ DOMAIN a = 1..m /\ DOMAIN b = 1..m
  BY <1>5, ListDomain DEF Alike
<1>7. PICK c : c = Points(a) /\ c = [j \in 1..m |-> a[j].at]
  BY <1>6 DEF Points
<1>8. IsList(c) /\ Len(c) = m /\ DOMAIN c = 1..m
  BY <1>7, ListMade
<1>9. ASSUME NEW j \in 1..m
      PROVE  IsPoint(b[j]) /\ c[j] = [k \in 1..3 |-> 2 * b[j][k] + off[k]]
  <2>1. PICK i \in DOMAIN g : \E l \in DOMAIN g[i] : a[j] = g[i][l] /\ b[j] = s[i][l]
    BY <1>5, <1>6, <1>9 DEF Alike
  <2>2. PICK l \in DOMAIN g[i] : a[j] = g[i][l] /\ b[j] = s[i][l]
    BY <2>1
  <2>3. i \in 1..n
    BY <1>1, <2>1
  <2>4. l \in DOMAIN s[i]
    BY <1>2, <2>2, <2>3, ListDomain
  <2>5. IsPoint(b[j])
    BY <1>2, <2>2, <2>3, <2>4 DEF IsPoints
  <2>6. PICK x, y : x = a[j] /\ y = b[j] /\ x = g[i][l] /\ y = s[i][l]
    BY <2>2
  <2>7. g[i][l].at = [k \in 1..3 |-> 2 * s[i][l][k] + off[k]]
    BY <1>2, <2>2, <2>3
  <2>8. x.at = [k \in 1..3 |-> 2 * y[k] + off[k]]
    <3>1. [k \in 1..3 |-> 2 * s[i][l][k] + off[k]] = [k \in 1..3 |-> 2 * y[k] + off[k]]
      BY <2>6
    <3> QED
      BY <2>6, <2>7, <3>1
  <2>9. c[j] = x.at
    BY <1>7, <1>9, <2>6
  <2>10. [k \in 1..3 |-> 2 * y[k] + off[k]] = [k \in 1..3 |-> 2 * b[j][k] + off[k]]
    BY <2>6
  <2> QED
    BY <2>5, <2>8, <2>9, <2>10
<1>10. Moved(c, b, off)
  BY <1>6, <1>8, <1>9 DEF Moved, IsPoints
<1> QED
  BY <1>4, <1>7, <1>10

LEMMA FlattenZUp ==
  ASSUME NEW f, IsList(f), \A i \in DOMAIN f : IsPoints(f[i]),
         NEW z, z = [i \in DOMAIN f |-> ZUp(f[i])]
  PROVE  ZUp(Flatten(f)) = Flatten(z)
<1>1. PICK n \in Nat : n = Len(f) /\ DOMAIN f = 1..n
  BY ListDomain
<1>2. IsList(z) /\ Len(z) = n /\ DOMAIN z = 1..n
  BY <1>1, ListMade
<1>3. ASSUME NEW i \in 1..n
      PROVE  /\ IsList(f[i]) /\ IsList(z[i]) /\ Len(z[i]) = Len(f[i])
             /\ \A j \in DOMAIN f[i] : z[i][j] = <<f[i][j][1], -f[i][j][3], f[i][j][2]>>
  <2>1. PICK x, y : x = f[i] /\ y = z[i] /\ y = ZUp(x)
    BY <1>1, <1>3
  <2>2. IsPoints(x)
    BY <1>1, <1>3, <2>1
  <2>3. /\ IsPoints(y) /\ Len(y) = Len(x)
        /\ \A j \in DOMAIN x : y[j] = <<x[j][1], -x[j][3], x[j][2]>>
    BY <2>1, <2>2, PointsZUp
  <2> QED
    BY <2>1, <2>2, <2>3 DEF IsPoints
<1>4. IsLists(f) /\ IsLists(z) /\ SameShape(f, z)
  BY <1>1, <1>2, <1>3 DEF IsLists, SameShape
<1>5. PICK a, b : a = Flatten(f) /\ b = Flatten(z)
  OBVIOUS
<1>6. Alike(f, z, a, b)
  BY <1>4, <1>5, FlattenAlike
<1>7. PICK m \in Nat : m = Len(a) /\ IsList(a) /\ IsList(b) /\ Len(b) = m /\ DOMAIN a = 1..m
  BY <1>6, ListDomain DEF Alike
<1>8. PICK c : c = ZUp(a) /\ c = [i \in 1..m |-> <<a[i][1], -a[i][3], a[i][2]>>]
  BY <1>7 DEF ZUp
<1>9. IsList(c) /\ Len(c) = m
  BY <1>8, ListMade
<1>10. ASSUME NEW k \in 1..m PROVE c[k] = b[k]
  <2>1. PICK i \in DOMAIN f : \E j \in DOMAIN f[i] : a[k] = f[i][j] /\ b[k] = z[i][j]
    BY <1>6, <1>7, <1>10 DEF Alike
  <2>2. PICK j \in DOMAIN f[i] : a[k] = f[i][j] /\ b[k] = z[i][j]
    BY <2>1
  <2>3. z[i][j] = <<f[i][j][1], -f[i][j][3], f[i][j][2]>>
    BY <1>1, <1>3, <2>1, <2>2
  <2> QED
    BY <1>8, <1>10, <2>2, <2>3
<1>11. c = b
  BY <1>7, <1>9, <1>10, ListsEqual
<1> QED
  BY <1>5, <1>8, <1>11

\* Meshes that were not turned, each with its faces: all moved by one vector.
LEMMA FollowersMoved ==
  ASSUME NEW ats, IsList(ats), \A k \in DOMAIN ats : IsPoints(ats[k]),
         NEW g, IsList(g), Len(g) = Len(ats), NEW off, NEW filaments,
         \A k \in DOMAIN ats : \E m : m.at = ats[k] /\ Follower(m) /\ IsFaces(g[k], m, off, filaments),
         NEW s, s = [k \in DOMAIN ats |-> ZUp(ats[k])]
  PROVE  Moved(Points(Flatten(g)), Flatten(s), off)
<1>1. PICK n \in Nat : n = Len(ats) /\ DOMAIN ats = 1..n /\ DOMAIN g = 1..n
  BY ListDomain
<1>2. IsList(s) /\ Len(s) = n /\ DOMAIN s = 1..n
  BY <1>1, ListMade
<1>3. ASSUME NEW k \in 1..n PROVE IsList(g[k]) /\ Moved(Points(g[k]), s[k], off)
  <2>1. PICK m : m.at = ats[k] /\ Follower(m) /\ IsFaces(g[k], m, off, filaments)
    BY <1>1, <1>3
  <2>2. PICK faces, at : faces = g[k] /\ at = ats[k]
    OBVIOUS
  <2>3. IsPoints(m.at) /\ m.rotation = Zero /\ m.scale = <<1, 1, 1>> /\ IsFaces(faces, m, off, filaments)
    BY <2>1, <2>2 DEF Follower
  <2>4. IsList(faces) /\ Moved(Points(faces), ZUp(m.at), off)
    BY <2>3, FacesMoved
  <2>5. s[k] = ZUp(at)
    BY <1>1, <1>3, <2>2
  <2> QED
    BY <2>1, <2>2, <2>4, <2>5
<1>4. IsLists(g)
  BY <1>1, <1>3 DEF IsLists
<1>5. \A k \in DOMAIN g : Moved(Points(g[k]), s[k], off)
  BY <1>1, <1>3
<1>6. Len(s) = Len(g)
  BY <1>1, <1>2
<1> QED
  BY <1>2, <1>4, <1>5, <1>6, FlattenMoved

\* The cutters of a mesh, standing up as the slicer wants them.
CuttersUp(cutters) == Flatten([i \in DOMAIN cutters |-> ZUp(cutters[i])])

\* A model that is sliced as one mesh.
LEMMA PlainIntact ==
  ASSUME NEW models, IsList(models), Len(models) # 0,
         NEW m, m = models[1], m.kind = "model", IsPoints(m.at), Len(m.at) # 0, IsPoints(Turned(m)),
         Len(Turned(m)) = Len(m.at), m.rotation = Zero, m.scale = <<1, 1, 1>>, IsPoint(m.offset),
         NEW cutters, IsList(cutters), \A k \in DOMAIN cutters : IsPoints(cutters[k]),
         ModelsPlain(models, cutters),
         NEW off, off = PlateOffset(Turned(m), m.offset), NEW filaments,
         NEW objs, IsPlaced(objs, models, 0, off, filaments)
  PROVE  /\ IsList(objs)
         /\ MovedAlike(Points(FacesBy(objs, "normal_part")), Points(FacesBy(objs, "negative_part")),
                       ZUp(m.at), CuttersUp(cutters))
<1>1. PICK n \in Nat : n = Len(cutters) /\ DOMAIN cutters = 1..n /\ Len(models) = 1 + n /\ DOMAIN models = 1..(1 + n)
  BY ListDomain DEF ModelsPlain
<1>2. \A k \in 1..n : CutterOf(models[1 + k], cutters[k])
  BY <1>1 DEF ModelsPlain
<1>3. ASSUME NEW k \in DOMAIN models, k > 1 PROVE models[k].kind = "negative"
  <2>1. PICK j : j = k - 1
    OBVIOUS
  <2>2. j \in 1..n /\ 1 + j = k
    BY <1>1, <1>3, <2>1
  <2> QED
    BY <1>2, <2>2 DEF CutterOf
<1>4. /\ FacesBy(objs, "normal_part") = objs[1].faces
      /\ FacesBy(objs, "negative_part") = Flatten([k \in 1..(Len(models) - 1) |-> objs[1 + k].faces])
      /\ IsList(objs) /\ Len(objs) = Len(models)
      /\ \A k \in DOMAIN models : IsFaces(objs[k].faces, models[k], off, filaments)
  BY <1>3, PlainFaces
<1>5. Len(models) - 1 = n
  BY <1>1
<1>6. PICK g : g = [k \in 1..n |-> objs[1 + k].faces]
  OBVIOUS
<1>7. IsList(g) /\ Len(g) = n
  BY <1>6, ListMade
<1>8. FacesBy(objs, "negative_part") = Flatten(g)
  BY <1>4, <1>5, <1>6
<1>9. PICK s : s = [k \in DOMAIN cutters |-> ZUp(cutters[k])]
  OBVIOUS
<1>10. ASSUME NEW k \in DOMAIN cutters
       PROVE  \E w : w.at = cutters[k] /\ Follower(w) /\ IsFaces(g[k], w, off, filaments)
  <2>1. PICK j : j = 1 + k
    OBVIOUS
  <2>2. j \in DOMAIN models /\ k \in 1..n
    BY <1>1, <1>10, <2>1
  <2>3. IsFaces(objs[j].faces, models[j], off, filaments)
    BY <1>4, <2>2
  <2>4. CutterOf(models[j], cutters[k])
    BY <1>2, <2>1, <2>2
  <2>5. g[k] = objs[j].faces
    BY <1>6, <2>1, <2>2
  <2> QED
    BY <2>3, <2>4, <2>5 DEF CutterOf
<1>11. Moved(Points(Flatten(g)), Flatten(s), off)
  BY <1>1, <1>7, <1>9, <1>10, FollowersMoved
<1>12. PICK faces : faces = objs[1].faces
  OBVIOUS
<1>13. IsFaces(faces, m, off, filaments)
  BY <1>1, <1>4, <1>12
<1>14. Moved(Points(faces), ZUp(m.at), off)
  BY <1>13, FacesMoved
<1>15. IsPoint(off)
  BY OffsetIsPoint
<1>16. Len(ZUp(m.at)) # 0
  BY PointsZUp
<1>17. MovedAlike(Points(faces), Points(Flatten(g)), ZUp(m.at), Flatten(s))
  BY <1>11, <1>14, <1>15, <1>16, MovedTogether
<1> QED
  BY <1>4, <1>8, <1>9, <1>12, <1>17 DEF CuttersUp

\* A model that is sliced part by part.
LEMMA PartsIntact ==
  ASSUME NEW models, IsList(models), NEW cutters, IsList(cutters), \A k \in DOMAIN cutters : IsPoints(cutters[k]),
         NEW parts, IsList(parts), Len(parts) # 0, \A p \in DOMAIN parts : IsPart(parts[p]),
         ModelsByPart(models, cutters, parts),
         NEW filaments, NEW objs, IsPlaced(objs, models, 1, Zero, filaments),
         NEW at, at = Flatten([p \in DOMAIN parts |-> parts[p].at]), IsPoints(at), Len(at) # 0
  PROVE  /\ IsList(objs)
         /\ FacesBy(objs, "normal_part") = Flatten([k \in 1..Len(parts) |-> objs[Len(cutters) + k].faces])
         /\ \A k \in 1..Len(parts) : \E w : PartOf(w, parts[k]) /\ IsFaces(objs[Len(cutters) + k].faces, w, Zero, filaments)
         /\ MovedAlike(Points(FacesBy(objs, "normal_part")), Points(FacesBy(objs, "negative_part")),
                       ZUp(at), CuttersUp(cutters))
<1>1. PICK n \in Nat, p \in Nat : n = Len(cutters) /\ p = Len(parts) /\ DOMAIN cutters = 1..n /\ DOMAIN parts = 1..p
  BY ListDomain
<1>2. /\ Len(models) = 1 + n + p
      /\ \A k \in 1..n : CutterOf(models[1 + k], cutters[k])
      /\ \A k \in 1..p : PartOf(models[1 + n + k], parts[k])
  BY <1>1 DEF ModelsByPart
<1>3. PICK q \in Nat : q = n + p
  OBVIOUS
<1>4. IsList(objs) /\ Len(objs) = q /\ DOMAIN objs = 1..q
  BY <1>2, <1>3, ListDomain DEF IsPlaced
<1>5. \A i \in 1..q : objs[i].kind = models[1 + i].kind /\ IsFaces(objs[i].faces, models[1 + i], Zero, filaments)
  BY <1>4 DEF IsPlaced
<1>6. \A i \in 1..q : IsList(objs[i].faces)
  BY <1>5 DEF IsFaces
<1>7. ASSUME NEW i \in 1..q PROVE objs[i].kind = IF i <= n THEN "negative" ELSE "part"
  <2>1. CASE i <= n
    <3>1. i \in 1..n
      BY <1>7, <2>1
    <3> QED
      BY <1>2, <1>5, <1>7, <2>1, <3>1 DEF CutterOf
  <2>2. CASE i > n
    <3>1. PICK k : k = i - n
      OBVIOUS
    <3>2. k \in 1..p /\ 1 + n + k = 1 + i
      BY <1>3, <1>7, <2>2, <3>1
    <3>3. models[1 + i].kind = "part"
      BY <1>2, <3>2 DEF PartOf
    <3> QED
      BY <1>5, <1>7, <2>2, <3>3
  <2> QED
    BY <1>7, <2>1, <2>2
<1>8. ASSUME NEW i \in 1..q
      PROVE  /\ PartSubtype(objs[i].kind) = "negative_part" <=> i <= n
             /\ PartSubtype(objs[i].kind) = "normal_part" <=> i > n
  BY <1>7, <1>8, Subtypes
<1>9. PICK g : g = [k \in 1..n |-> objs[k].faces]
  OBVIOUS
<1>10. PICK h : h = [k \in 1..p |-> objs[n + k].faces]
  OBVIOUS
<1>11. IsList(g) /\ Len(g) = n /\ IsList(h) /\ Len(h) = p
  BY <1>9, <1>10, ListMade
<1>12. FacesBy(objs, "negative_part") = Flatten(g)
  <2>1. PICK lo \in Nat : lo = 0
    OBVIOUS
  <2>2. lo <= n /\ n <= Len(objs)
    BY <1>3, <1>4, <2>1
  <2>3. \A i \in DOMAIN objs : PartSubtype(objs[i].kind) = "negative_part" <=> lo < i /\ i <= n
    BY <1>4, <1>8, <2>1
  <2>4. FacesBy(objs, "negative_part") = Flatten([k \in 1..(n - lo) |-> objs[lo + k].faces])
    BY <1>4, <1>6, <2>2, <2>3, FacesWindow
  <2>5. [k \in 1..(n - lo) |-> objs[lo + k].faces] = [k \in 1..n |-> objs[k].faces]
    BY <2>1
  <2> QED
    BY <1>9, <2>4, <2>5
<1>13. FacesBy(objs, "normal_part") = Flatten(h)
  <2>1. n <= q /\ q <= Len(objs)
    BY <1>3, <1>4
  <2>2. \A i \in DOMAIN objs : PartSubtype(objs[i].kind) = "normal_part" <=> n < i /\ i <= q
    BY <1>4, <1>8
  <2>3. FacesBy(objs, "normal_part") = Flatten([k \in 1..(q - n) |-> objs[n + k].faces])
    BY <1>4, <1>6, <2>1, <2>2, FacesWindow
  <2>4. q - n = p
    BY <1>3
  <2> QED
    BY <1>10, <2>3, <2>4
<1>14. PICK s : s = [k \in DOMAIN cutters |-> ZUp(cutters[k])]
  OBVIOUS
<1>15. ASSUME NEW k \in DOMAIN cutters
       PROVE  \E w : w.at = cutters[k] /\ Follower(w) /\ IsFaces(g[k], w, Zero, filaments)
  <2>1. k \in 1..n /\ k \in 1..q
    BY <1>1, <1>3, <1>15
  <2>2. g[k] = objs[k].faces
    BY <1>9, <2>1
  <2> QED
    BY <1>2, <1>5, <2>1, <2>2 DEF CutterOf
<1>16. Moved(Points(Flatten(g)), Flatten(s), Zero)
  BY <1>1, <1>11, <1>14, <1>15, FollowersMoved
<1>17. ASSUME NEW k \in 1..p
       PROVE  \E w : PartOf(w, parts[k]) /\ IsFaces(objs[n + k].faces, w, Zero, filaments)
  <2>1. PICK i : i = n + k
    OBVIOUS
  <2>2. i \in 1..q /\ 1 + n + k = 1 + i
    BY <1>3, <1>17, <2>1
  <2>3. PartOf(models[1 + i], parts[k])
    BY <1>2, <1>17, <2>2
  <2>4. IsFaces(objs[i].faces, models[1 + i], Zero, filaments)
    BY <1>5, <2>2
  <2> QED
    BY <2>1, <2>3, <2>4
<1>18. PICK ats : ats = [k \in DOMAIN parts |-> parts[k].at]
  OBVIOUS
<1>19. IsList(ats) /\ Len(ats) = p /\ DOMAIN ats = 1..p
  BY <1>1, <1>18, ListMade
<1>20. \A k \in DOMAIN ats : IsPoints(ats[k])
  BY <1>1, <1>18, <1>19 DEF IsPart
<1>21. PICK z : z = [k \in DOMAIN ats |-> ZUp(ats[k])]
  OBVIOUS
<1>22. ASSUME NEW k \in DOMAIN ats
       PROVE  \E w : w.at = ats[k] /\ Follower(w) /\ IsFaces(h[k], w, Zero, filaments)
  <2>1. k \in 1..p
    BY <1>19, <1>22
  <2>2. PICK w : PartOf(w, parts[k]) /\ IsFaces(objs[n + k].faces, w, Zero, filaments)
    BY <1>17, <2>1
  <2>3. h[k] = objs[n + k].faces /\ ats[k] = parts[k].at
    BY <1>1, <1>10, <1>18, <2>1
  <2> QED
    BY <2>2, <2>3 DEF PartOf
<1>23. Moved(Points(Flatten(h)), Flatten(z), Zero)
  BY <1>11, <1>19, <1>20, <1>21, <1>22, FollowersMoved
<1>24. Flatten(z) = ZUp(at)
  <2>1. at = Flatten(ats)
    BY <1>18
  <2>2. ZUp(Flatten(ats)) = Flatten(z)
    BY <1>19, <1>20, <1>21, FlattenZUp
  <2> QED
    BY <2>1, <2>2
<1>25. IsPoint(Zero)
  BY DEF IsPoint, Zero
<1>26. Len(ZUp(at)) # 0
  BY PointsZUp
<1>27. MovedAlike(Points(Flatten(h)), Points(Flatten(g)), ZUp(at), Flatten(s))
  BY <1>16, <1>23, <1>24, <1>25, <1>26, MovedTogether
<1>28. Flatten(s) = CuttersUp(cutters)
  BY <1>14 DEF CuttersUp
<1> QED
  BY <1>1, <1>4, <1>10, <1>12, <1>13, <1>17, <1>27, <1>28

\* With everything visible, a request is sliced as one mesh or by part.
BuiltWhole(row, edit, models, objs, filaments) ==
    IF PartsOf(row, edit) = 0
    THEN /\ ModelsPlain(models, Source.negatives)
         /\ IsPlaced(objs, models, 0, PlateOffset(Turned(models[1]), models[1].offset), filaments)
    ELSE /\ Source.parts # <<>> /\ ModelsByPart(models, Source.negatives, Source.parts)
         /\ IsPlaced(objs, models, 1, Zero, filaments)

LEMMA WholeBuilt ==
  ASSUME NEW r, NEW row, NEW models, NEW objs, BuiltFrom(r, row, models, objs), AllVisible,
         NEW filaments, filaments = Settings["filament_colour"].v
  PROVE  /\ IsBuilt(models, row, r[1]) /\ Source = Parse3MF(upload, r[1].plate)
         /\ Source.ok /\ IsParsed(Source)
         /\ BuiltWhole(row, r[1], models, objs, filaments)
<1>1. PICK edit : edit = r[1]
  OBVIOUS
<1>2. /\ IsRow(row, upload) /\ IsEdit(edit) /\ edit.plate \in 1..row.plateCount
      /\ IsBody(Body, row, edit) /\ PlateOf(Body) = edit.plate
      /\ stored[1] = row /\ models = BuildModels(stored, Body)
      /\ objs = Objects(models, filaments)
  BY <1>1 DEF BuiltFrom
<1>3. PICK source : source = Source /\ source = Parse3MF(upload, edit.plate)
  BY <1>2 DEF Source
<1>4. /\ source.ok /\ IsParsed(source)
      /\ row.negatives[edit.plate] = source.negatives /\ row.parts[edit.plate] = source.parts
  BY <1>2, <1>3 DEF IsRow
<1>5. \A i \in DOMAIN Body.models : Body.models[i].visible
  BY DEF AllVisible
<1>6. /\ IsBuilt(models, row, edit)
      /\ IF PartsOf(row, edit) = 0 THEN ModelsPlain(models, row.negatives[edit.plate])
         ELSE edit.plate = 1 /\ ModelsByPart(models, row.negatives[1], row.parts[1])
  BY <1>2, <1>5, ModelsBuilt
<1>7. BuiltWhole(row, edit, models, objs, filaments)
  <2>1. CASE PartsOf(row, edit) = 0
    <3>1. ModelsPlain(models, source.negatives)
      BY <1>4, <1>6, <2>1
    <3>2. IsList(models) /\ IsList(source.negatives)
      BY <1>4, <1>6 DEF IsBuilt, IsParsed
    <3>3. PICK n \in Nat : n = Len(source.negatives) /\ DOMAIN models = 1..(1 + n)
      BY <3>1, <3>2, ListDomain DEF ModelsPlain
    <3>4. ASSUME NEW k \in DOMAIN models, k > 1 PROVE models[k].kind = "negative"
      <4>1. PICK j : j = k - 1
        OBVIOUS
      <4>2. j \in 1..n /\ 1 + j = k
        BY <3>3, <3>4, <4>1
      <4> QED
        BY <3>1, <3>3, <4>2 DEF ModelsPlain, CutterOf
    <3>5. IsPlaced(objs, models, 0, PlateOffset(Turned(models[1]), models[1].offset), filaments)
      BY <1>2, <1>6, <3>4, ObjectsMade
    <3> QED
      BY <1>3, <2>1, <3>1, <3>5 DEF BuiltWhole
  <2>2. CASE PartsOf(row, edit) # 0
    <3>1. edit.plate = 1 /\ ModelsByPart(models, source.negatives, source.parts)
      BY <1>4, <1>6, <2>2
    <3>2. IsList(models) /\ IsList(source.negatives) /\ IsList(source.parts)
      BY <1>4, <1>6 DEF IsBuilt, IsParsed
    <3>3. Len(source.parts) # 0
      BY <1>4, <2>2, <3>1 DEF PartsOf
    <3>4. PICK n \in Nat, p \in Nat : n = Len(source.negatives) /\ p = Len(source.parts) /\ DOMAIN models = 1..(1 + n + p)
      BY <3>1, <3>2, ListDomain DEF ModelsByPart
    <3>5. PICK k : k = 1 + n + 1
      OBVIOUS
    <3>9. p >= 1
      BY <3>3, <3>4
    <3>11. n \in Nat /\ p \in Nat
      BY <3>4
    <3>10. 1 \in 1..p /\ k \in 1..(1 + n + p)
      BY <3>5, <3>9, <3>11
    <3>6. k \in DOMAIN models /\ models[k].kind = "part"
      BY <3>1, <3>4, <3>5, <3>10 DEF ModelsByPart, PartOf
    <3>7. IsPlaced(objs, models, 1, Zero, filaments)
      BY <1>2, <1>6, <3>6, ObjectsMade
    <3>8. source.parts # <<>>
      BY <3>2, <3>3, NotEmpty
    <3> QED
      BY <1>3, <2>2, <3>1, <3>7, <3>8 DEF BuiltWhole
  <2> QED
    BY <2>1, <2>2
<1> QED
  BY <1>1, <1>3, <1>4, <1>6, <1>7

LEMMA IntactBuilt ==
  ASSUME InputInv
  PROVE  AssemblyIntact
<1> SUFFICES ASSUME Built, Unturned, AllVisible
             PROVE  MovedAlike(Points(ProjectFaces("normal_part")), Points(ProjectFaces("negative_part")),
                               ZUp(Source.at), CuttersUp(Source.negatives))
  BY DEF AssemblyIntact, CuttersUp
<1>1. PICK r, row, models, objs : BuiltFrom(r, row, models, objs)
  BY BuiltOf
<1>2. PICK edit, filaments : edit = r[1] /\ filaments = Settings["filament_colour"].v
  OBVIOUS
<1>3. /\ IsBuilt(models, row, edit) /\ Source = Parse3MF(upload, edit.plate) /\ Source.ok /\ IsParsed(Source)
      /\ BuiltWhole(row, edit, models, objs, filaments)
  BY <1>1, <1>2, WholeBuilt
<1>4. IsRow(row, upload) /\ IsEdit(edit) /\ edit.plate \in 1..row.plateCount /\ IsBody(Body, row, edit)
  BY <1>1, <1>2 DEF BuiltFrom
<1>5. PICK m, source : m = models[1] /\ source = Source
  OBVIOUS
<1>6. /\ m.kind = "model" /\ m.offset = edit.offset /\ m.at = source.at
      /\ IsPoints(m.at) /\ Len(m.at) # 0 /\ IsPoints(Turned(m)) /\ Len(Turned(m)) = Len(m.at)
      /\ m.rotation = edit.rotation /\ m.scale = edit.scale
  BY <1>3, <1>4, <1>5, BuiltFirst
<1>7. edit.rotation = Zero /\ edit.scale = <<1, 1, 1>>
  BY <1>4 DEF IsBody, Unturned
<1>8. IsPoint(m.offset)
  BY <1>4, <1>6 DEF IsEdit
<1>9. IsList(source.negatives) /\ \A k \in DOMAIN source.negatives : IsPoints(source.negatives[k])
  BY <1>3, <1>5 DEF IsParsed
<1>10. /\ IsList(objs)
       /\ MovedAlike(Points(FacesBy(objs, "normal_part")), Points(FacesBy(objs, "negative_part")),
                     ZUp(source.at), CuttersUp(source.negatives))
  <2>1. CASE PartsOf(row, edit) = 0
    <3>1. /\ ModelsPlain(models, source.negatives)
          /\ IsPlaced(objs, models, 0, PlateOffset(Turned(m), m.offset), filaments)
      BY <1>3, <1>5, <2>1 DEF BuiltWhole
    <3>2. IsList(models) /\ Len(models) # 0
      BY <1>3 DEF IsBuilt
    <3>3. m.rotation = Zero /\ m.scale = <<1, 1, 1>>
      BY <1>6, <1>7
    <3>4. PICK cutters : cutters = source.negatives
      OBVIOUS
    <3>5. IsList(objs) /\ MovedAlike(Points(FacesBy(objs, "normal_part")), Points(FacesBy(objs, "negative_part")),
                     ZUp(m.at), CuttersUp(cutters))
      BY <1>5, <1>6, <1>8, <1>9, <3>1, <3>2, <3>3, <3>4, PlainIntact
    <3> QED
      BY <1>6, <3>4, <3>5
  <2>2. CASE PartsOf(row, edit) # 0
    <3>1. /\ source.parts # <<>> /\ ModelsByPart(models, source.negatives, source.parts)
          /\ IsPlaced(objs, models, 1, Zero, filaments)
      BY <1>3, <1>5, <2>2 DEF BuiltWhole
    <3>2. PICK parts, cutters, at : parts = source.parts /\ cutters = source.negatives /\ at = source.at
      OBVIOUS
    <3>3. /\ IsList(parts) /\ Len(parts) # 0 /\ \A p \in DOMAIN parts : IsPart(parts[p])
          /\ at = Flatten([p \in DOMAIN parts |-> parts[p].at]) /\ IsPoints(at) /\ Len(at) # 0
      BY <1>3, <1>5, <3>1, <3>2, NotEmpty DEF IsParsed
    <3>4. IsList(models)
      BY <1>3 DEF IsBuilt
    <3>5. /\ ModelsByPart(models, cutters, parts) /\ IsList(cutters) /\ \A k \in DOMAIN cutters : IsPoints(cutters[k])
      BY <1>9, <3>1, <3>2
    <3>6. IsList(objs) /\ MovedAlike(Points(FacesBy(objs, "normal_part")), Points(FacesBy(objs, "negative_part")),
                     ZUp(at), CuttersUp(cutters))
      BY <3>1, <3>3, <3>4, <3>5, PartsIntact
    <3> QED
      BY <3>2, <3>6
  <2> QED
    BY <2>1, <2>2
<1>11. \A subtype : ProjectFaces(subtype) = FacesBy(objs, subtype)
  BY <1>1, <1>10 DEF BuiltFrom
<1> QED
  BY <1>5, <1>10, <1>11

\* For every archive, whole or part by part: each face and each cutter face reaches
\* the slicer once, and all moved by one vector (parse3MF, buildSliceInput3MF,
\* build3MF, applyParentOffset).
THEOREM AssemblyIntactAlways == RequestSpec => []AssemblyIntact
BY InputAlways, IntactBuilt, PTL

-----------------------------------------------------------------------------
(* The paint of the faces                                                      *)

\* The slicer reads the code of a filament as its number.
LEMMA DecodedPaint ==
  ASSUME NEW n \in Nat
  PROVE  Decoded(ExtruderToPaintColor(n)) = n
<1>1. CASE n <= 2
  <2>1. PICK c : c = ExtruderToPaintColor(n)
    OBVIOUS
  <2>2. (n = 0 /\ c = 0) \/ (n = 1 /\ c = 4) \/ (n = 2 /\ c = 8)
    BY <1>1, <2>1 DEF ExtruderToPaintColor
  <2>3. (c % 16) \div 4 = n /\ n # 3
    BY <2>2
  <2> QED
    BY <2>1, <2>3 DEF Decoded
<1>2. CASE ~(n <= 2)
  <2>1. PICK m \in Nat : n = m + 3
    <3>1. n - 3 \in Nat /\ n = (n - 3) + 3
      BY <1>2
    <3> QED
      BY <3>1
  <2>2. PICK c : c = ExtruderToPaintColor(n)
    OBVIOUS
  <2>3. c = m * 16 + 12
    BY <1>2, <2>1, <2>2 DEF ExtruderToPaintColor
  <2>4. c % 16 = 12 /\ c \div 16 = m /\ 12 \div 4 = 3
    BY <2>3
  <2> QED
    BY <2>1, <2>2, <2>4 DEF Decoded
<1> QED
  BY <1>1, <1>2

\* One face and its colour, as PaintedAs asks it of every face.
PaintedFace(stroke, bare, c, filaments) ==
    IF bare THEN stroke = Absent
    ELSE LET e == Decoded(stroke)
         IN IF c \in ToSet(filaments)
            THEN filaments[e] = c /\ c \notin {filaments[j] : j \in 1..(e - 1)}
            ELSE e = 1

LEMMA FacePainted ==
  ASSUME NEW filaments, IsList(filaments), NEW hues, NEW count \in Nat, NEW f \in 1..count
  PROVE  PaintedFace(PaintColors(hues, count, filaments)[f],
                     f \notin DOMAIN hues \/ hues[f] = Unpainted, hues[f], filaments)
<1>1. CASE f \notin DOMAIN hues \/ hues[f] = Unpainted
  BY <1>1 DEF PaintColors, PaintedFace
<1>2. CASE ~(f \notin DOMAIN hues \/ hues[f] = Unpainted)
  <2>1. PICK c : c = hues[f]
    OBVIOUS
  <2>2. PICK n : n = ColorToExtruder(filaments, c)
    OBVIOUS
  <2>3. PaintColors(hues, count, filaments)[f] = ExtruderToPaintColor(n)
    BY <1>2, <2>1, <2>2 DEF PaintColors
  <2>4. PICK S : S = {i \in DOMAIN filaments : filaments[i] = c}
    OBVIOUS
  <2>5. DOMAIN filaments \subseteq Nat /\ \A i : i \in DOMAIN filaments => i >= 1
    BY ListDomain
  <2>6. n = IF S = {} THEN 1 ELSE CHOOSE i \in S : \A j \in S : i <= j
    BY <2>2, <2>4 DEF ColorToExtruder
  <2>7. c \in ToSet(filaments) <=> S # {}
    BY <2>4 DEF ToSet
  <2>8. CASE S = {}
    <3>1. n = 1
      BY <2>6, <2>8
    <3>2. Decoded(ExtruderToPaintColor(n)) = 1
      BY <3>1, DecodedPaint
    <3> QED
      BY <1>2, <2>1, <2>3, <2>7, <2>8, <3>2 DEF PaintedFace
  <2>9. CASE S # {}
    <3>1. S \in SUBSET Nat
      BY <2>4, <2>5
    <3>2. \E m \in S : \A x \in S : m <= x
      BY <2>9, <3>1, FirstIn
    <3>3. n \in S /\ \A j \in S : n <= j
      BY <2>6, <2>9, <3>2
    <3>4. n \in DOMAIN filaments /\ filaments[n] = c /\ n \in Nat
      BY <2>4, <3>1, <3>3
    <3>5. Decoded(ExtruderToPaintColor(n)) = n
      BY <3>4, DecodedPaint
    <3>6. ASSUME NEW j \in 1..(n - 1) PROVE filaments[j] # c
      <4>1. j \in DOMAIN filaments
        BY <3>4, <3>6, ListDomain
      <4>2. j \notin S
        BY <3>3, <3>4, <3>6
      <4> QED
        BY <2>4, <4>1, <4>2
    <3>7. c \notin {filaments[j] : j \in 1..(n - 1)}
      BY <3>6
    <3> QED
      BY <1>2, <2>1, <2>3, <2>7, <2>9, <3>4, <3>5, <3>7 DEF PaintedFace
  <2> QED
    BY <2>8, <2>9
<1> QED
  BY <1>1, <1>2

\* A model or a part: its faces take its own colours.
LEMMA FacesPainted ==
  ASSUME NEW filaments, IsList(filaments), NEW m, m.kind \in {"model", "part"}, Len(m.at) \in Nat,
         NEW off, NEW faces, IsFaces(faces, m, off, filaments), NEW f \in DOMAIN faces
  PROVE  PaintedFace(faces[f].paint, f \notin DOMAIN m.colours \/ m.colours[f] = Unpainted,
                     m.colours[f], filaments)
<1>1. PICK n \in Nat : n = Len(m.at) /\ DOMAIN faces = 1..n
  BY ListDomain DEF IsFaces
<1>2. faces[f].paint = PaintColors(m.colours, n, filaments)[f]
  BY <1>1 DEF IsFaces
<1>3. f \in 1..n
  BY <1>1
<1> QED
  BY <1>2, <1>3, FacePainted

LEMMA PaintedByFace ==
  ASSUME NEW faces, NEW hues, NEW filaments,
         \A f \in DOMAIN faces : PaintedFace(faces[f].paint, f \notin DOMAIN hues \/ hues[f] = Unpainted,
                                             hues[f], filaments)
  PROVE  PaintedAs(faces, hues, filaments)
BY DEF PaintedAs, PaintedFace

\* The colours of the filaments are a list before and after every step.
Coloured(s) == "filament_colour" \in DOMAIN s /\ IsValue(s["filament_colour"])

LEMMA ColouredKept ==
  ASSUME NEW s, Coloured(s), NEW t, DOMAIN s \subseteq DOMAIN t,
         t["filament_colour"] = s["filament_colour"]
  PROVE  Coloured(t)
BY DEF Coloured

LEMMA OverlaidColoured ==
  ASSUME NEW req
  PROVE  Coloured(Overlaid(req))
<1>1. PICK pm, pf, pp : /\ pm = ProfileSettings("machine", req.profiles.machine)
                        /\ pf = ProfileSettings("filament", req.profiles.filament)
                        /\ pp = ProfileSettings("process", req.profiles.process)
  OBVIOUS
<1>2. IsSettings(Template) /\ IsSettings(pm) /\ IsSettings(pf) /\ IsSettings(pp)
  BY <1>1, SettingsAssumption, ProfileIsSettings
<1>3. ASSUME NEW s, NEW p, IsSettings(s), IsSettings(p)
      PROVE  IsSettings(Overlay(s, p)) /\ DOMAIN Overlay(s, p) = DOMAIN s
  BY <1>3, OverlayDomain, OverlayKeeps DEF IsSettings
<1>4. PICK a, b, c : a = Overlay(Template, pm) /\ b = Overlay(a, pf) /\ c = Overlay(b, pp)
  OBVIOUS
<1>5. IsSettings(a) /\ DOMAIN a = DOMAIN Template
  BY <1>2, <1>3, <1>4
<1>6. IsSettings(b) /\ DOMAIN b = DOMAIN Template
  BY <1>2, <1>3, <1>4, <1>5
<1>7. IsSettings(c) /\ DOMAIN c = DOMAIN Template
  BY <1>2, <1>3, <1>4, <1>6
<1>8. Overlaid(req) = c
  BY <1>1, <1>4 DEF Overlaid
<1>9. "filament_colour" \in DOMAIN Template
  BY SettingsAssumption DEF SlotKeys
<1> QED
  BY <1>7, <1>8, <1>9 DEF Coloured, IsSettings

LEMMA MergedColoured ==
  ASSUME NEW s, NEW req, Coloured(s)
  PROVE  Coloured(MergeFilamentProfiles(s, req))
<1> DEFINE p0 == ProfileSettings("filament", req.profiles.filament)
           p1 == ProfileSettings("filament", req.profiles.filament2)
           keys == ((DOMAIN p0 \union DOMAIN p1) \cap FilamentKeys) \ {"filament_id"}
           Old(k, i, default) == IF k \in DOMAIN s /\ i \in DOMAIN s[k].v THEN s[k].v[i] ELSE default
           Pick(p, k, i) == IF k \in DOMAIN p THEN AsString(p[k]) ELSE Old(k, i, "")
           flush == [i \in 1..4 |-> Old("flush_volumes_matrix", i, IF i \in {1, 4} THEN "0" ELSE "280")]
           Both(k) == List(<<Pick(p0, k, 1), Pick(p1, k, 2)>>)
           t == [k \in DOMAIN s \union keys \union MergedKeys |->
                    IF k \in keys THEN Both(k)
                    ELSE CASE k = "support_filament" -> Scalar(req.support)
                           [] k = "support_interface_filament" -> Scalar(req.interface)
                           [] k = "flush_volumes_matrix" -> List(flush)
                           [] OTHER -> s[k]]
<1>1. MergeFilamentProfiles(s, req) = t
  BY DEF MergeFilamentProfiles
<1>2. \A k : IsValue(Both(k))
  <2> SUFFICES ASSUME NEW k PROVE IsValue(Both(k))
    OBVIOUS
  <2>1. PICK x, y : x = Pick(p0, k, 1) /\ y = Pick(p1, k, 2)
    OBVIOUS
  <2>2. PICK f : f = <<x, y>>
    OBVIOUS
  <2>3. f = [i \in 1..2 |-> f[i]]
    BY <2>2
  <2>4. IsValue(List(f))
    BY <2>3, ValueOfList
  <2>5. Both(k) = List(f)
    BY <2>1, <2>2
  <2> QED
    BY <2>4, <2>5
<1> HIDE DEF Both
<1>3. /\ "filament_colour" \in DOMAIN t
      /\ t["filament_colour"] = Both("filament_colour") \/ t["filament_colour"] = s["filament_colour"]
  BY DEF Coloured, MergedKeys
<1> HIDE DEF t
<1> QED
  BY <1>1, <1>2, <1>3 DEF Coloured

LEMMA SlotsColoured ==
  ASSUME NEW s, Coloured(s), NEW slots, IsList(slots)
  PROVE  Coloured(ApplySlots(s, slots))
<1>1. CASE slots = <<>>
  BY <1>1 DEF ApplySlots
<1>2. CASE slots # <<>>
  <2>1. PICK n \in Nat : DOMAIN slots = 1..n
    BY ListDomain
  <2>2. PICK c : c = [i \in DOMAIN slots |-> slots[i].color]
    OBVIOUS
  <2>3. PICK types : types = List([i \in DOMAIN slots |-> SlotType(slots[i])])
    OBVIOUS
  <2>4. c = [i \in 1..n |-> c[i]]
    BY <2>1, <2>2
  <2>5. IsValue(List(c))
    BY <2>4, ValueOfList
  <2>6. ApplySlots(s, slots) = Put(Put(s, "filament_colour", List(c)), "filament_type", types)
    BY <1>2, <2>2, <2>3 DEF ApplySlots
  <2>7. PICK x, t, u : x = List(c) /\ t = Put(s, "filament_colour", x) /\ u = Put(t, "filament_type", types)
    OBVIOUS
  <2>8. "filament_colour" \in DOMAIN t /\ t["filament_colour"] = x
    BY <2>7 DEF Put
  <2>9. "filament_colour" \in DOMAIN u /\ u["filament_colour"] = x
    BY <2>7, <2>8 DEF Put
  <2> QED
    BY <2>5, <2>6, <2>7, <2>9 DEF Coloured
<1> QED
  BY <1>1, <1>2

LEMMA ProcessColoured ==
  ASSUME NEW s, Coloured(s), NEW process
  PROVE  Coloured(ApplyProcess(s, process))
<1>1. "filament_colour" \in FilamentKeys
  BY SettingsAssumption DEF SlotKeys
<1> QED
  BY <1>1 DEF ApplyProcess, Coloured

LEMMA SanitizedColoured ==
  ASSUME NEW s, Coloured(s)
  PROVE  Sanitize(s)["filament_colour"] = s["filament_colour"]
BY DEF Sanitize, Coloured, CompatibilityKeys

LEMMA ColoursListed ==
  ASSUME NEW req, IsList(req.slots)
  PROVE  IsList(BuildProjectSettings(req)["filament_colour"].v)
<1>1. PICK merged : merged = IF req.multi THEN MergeFilamentProfiles(Overlaid(req), req) ELSE Overlaid(req)
  OBVIOUS
<1>2. PICK a, b, own, heated :
        /\ a = ApplySlots(merged, req.slots)
        /\ b = ApplyProcess(a, req.process)
        /\ own = ApplyIdentity(b, req)
        /\ heated = IF req.slots = <<>> THEN own
                    ELSE OverrideNozzleTemps(own, req.slots, merged["filament_type"].v)
  OBVIOUS
<1>3. BuildProjectSettings(req) = Sanitize(heated)
  BY <1>1, <1>2 DEF BuildProjectSettings
<1>4. Coloured(merged)
  BY <1>1, OverlaidColoured, MergedColoured
<1>5. Coloured(a)
  BY <1>2, <1>4, SlotsColoured
<1>6. Coloured(b)
  BY <1>2, <1>5, ProcessColoured
<1>7. Coloured(own)
  <2>1. DOMAIN b \subseteq DOMAIN own /\ own["filament_colour"] = b["filament_colour"]
    BY <1>2, <1>6, IdentityChanges DEF Coloured
  <2> QED
    BY <1>6, <2>1, ColouredKept
<1>8. Coloured(heated)
  <2>1. PICK before : before = merged["filament_type"].v
    OBVIOUS
  <2>2. PICK t : t = OverrideNozzleTemps(own, req.slots, before)
    OBVIOUS
  <2>3. /\ DOMAIN own \subseteq DOMAIN t
        /\ \A k \in DOMAIN own : t[k] = own[k] \/ (k \in TempKeys /\ t[k].list)
    BY <2>2, TempsChange
  <2>4. "filament_colour" \notin TempKeys
    BY SettingsAssumption DEF SlotKeys
  <2>5. Coloured(t)
    BY <1>7, <2>3, <2>4 DEF Coloured
  <2> QED
    BY <1>2, <1>7, <2>1, <2>2, <2>5
<1>9. IsValue(Sanitize(heated)["filament_colour"])
  BY <1>8, SanitizedColoured DEF Coloured
<1> QED
  BY <1>3, <1>9 DEF IsValue, IsList

\* Part by part, each with colours of its own.
LEMMA PartsPainted ==
  ASSUME NEW parts, IsList(parts), \A p \in DOMAIN parts : IsPart(parts[p]),
         NEW filaments, IsList(filaments), NEW off, NEW g, IsList(g), Len(g) = Len(parts),
         \A k \in DOMAIN parts : \E w : PartOf(w, parts[k]) /\ IsFaces(g[k], w, off, filaments),
         NEW c, c = [p \in DOMAIN parts |-> parts[p].colours]
  PROVE  PaintedAs(Flatten(g), Flatten(c), filaments)
<1>1. PICK n \in Nat : n = Len(parts) /\ DOMAIN parts = 1..n /\ DOMAIN g = 1..n
  BY ListDomain
<1>2. IsList(c) /\ Len(c) = n /\ DOMAIN c = 1..n
  BY <1>1, ListMade
<1>3. ASSUME NEW k \in 1..n
      PROVE  /\ IsList(g[k]) /\ IsList(c[k]) /\ Len(g[k]) = Len(c[k])
             /\ \A j \in DOMAIN g[k] : PaintedFace(g[k][j].paint, c[k][j] = Unpainted, c[k][j], filaments)
  <2>1. PICK w : PartOf(w, parts[k]) /\ IsFaces(g[k], w, off, filaments)
    BY <1>1, <1>3
  <2>2. PICK faces, hues, at : faces = g[k] /\ hues = c[k] /\ at = w.at
    OBVIOUS
  <2>3. hues = parts[k].colours
    BY <1>1, <1>3, <2>2
  <2>4. w.kind = "part" /\ w.colours = hues /\ at = parts[k].at
    BY <2>1, <2>2, <2>3 DEF PartOf
  <2>5. IsPoints(at) /\ IsList(hues) /\ Len(hues) = Len(at)
    BY <1>1, <1>3, <2>3, <2>4 DEF IsPart
  <2>6. Len(at) \in Nat
    BY <2>5, ListDomain DEF IsPoints
  <2>7. IsList(faces) /\ Len(faces) = Len(at) /\ IsFaces(faces, w, off, filaments)
    BY <2>1, <2>2 DEF IsFaces
  <2>8. DOMAIN faces = DOMAIN hues
    BY <2>5, <2>7, ListDomain
  <2>9. ASSUME NEW j \in DOMAIN faces
        PROVE  PaintedFace(faces[j].paint, hues[j] = Unpainted, hues[j], filaments)
    <3>1. PaintedFace(faces[j].paint, j \notin DOMAIN w.colours \/ w.colours[j] = Unpainted,
                      w.colours[j], filaments)
      BY <2>2, <2>4, <2>6, <2>7, <2>9, FacesPainted
    <3>2. j \in DOMAIN hues
      BY <2>8, <2>9
    <3> QED
      BY <2>4, <3>1, <3>2 DEF PaintedFace
  <2> QED
    BY <2>2, <2>5, <2>7, <2>9
<1>4. IsLists(g) /\ IsLists(c) /\ SameShape(g, c)
  BY <1>1, <1>2, <1>3 DEF IsLists, SameShape
<1>5. PICK a, b : a = Flatten(g) /\ b = Flatten(c)
  OBVIOUS
<1>6. Alike(g, c, a, b)
  BY <1>4, <1>5, FlattenAlike
<1>7. DOMAIN a = DOMAIN b
  BY <1>6, ListDomain DEF Alike
<1>8. ASSUME NEW f \in DOMAIN a
      PROVE  PaintedFace(a[f].paint, f \notin DOMAIN b \/ b[f] = Unpainted, b[f], filaments)
  <2>1. PICK i \in DOMAIN g : \E j \in DOMAIN g[i] : a[f] = g[i][j] /\ b[f] = c[i][j]
    BY <1>6, <1>8 DEF Alike
  <2>2. PICK j \in DOMAIN g[i] : a[f] = g[i][j] /\ b[f] = c[i][j]
    BY <2>1
  <2>3. PaintedFace(g[i][j].paint, c[i][j] = Unpainted, c[i][j], filaments)
    BY <1>1, <1>3, <2>1, <2>2
  <2>4. PICK x, y : x = a[f] /\ y = b[f] /\ x = g[i][j] /\ y = c[i][j]
    BY <2>2
  <2>5. PaintedFace(x.paint, y = Unpainted, y, filaments)
    BY <2>3, <2>4
  <2>6. f \in DOMAIN b
    BY <1>7, <1>8
  <2> QED
    BY <2>4, <2>5, <2>6 DEF PaintedFace
<1>9. PaintedAs(a, b, filaments)
  BY <1>8, PaintedByFace
<1> QED
  BY <1>5, <1>9

\* The request has parts when, and only when, the model is sliced part by part.
LEMMA PartsRequested ==
  ASSUME NEW row, NEW edit, NEW body, IsBody(body, row, edit)
  PROVE  (\E i \in DOMAIN body.models : body.models[i].kind = "part") <=> PartsOf(row, edit) # 0
<1>1. PICK n, p : n = CuttersOf(row, edit) /\ p = PartsOf(row, edit)
  OBVIOUS
<1>2. /\ n \in Nat /\ p \in Nat /\ IsList(body.models) /\ Len(body.models) = 1 + n + p
      /\ body.models[1].kind = "model"
      /\ \A k \in 1..n : NegativeChild(body.models[1 + k], k)
      /\ \A k \in 1..p : PartChild(body.models[1 + n + k], k)
  BY <1>1 DEF IsBody
<1>3. DOMAIN body.models = 1..(1 + n + p)
  BY <1>2, ListDomain
<1>4. ASSUME p = 0, NEW i \in DOMAIN body.models PROVE body.models[i].kind # "part"
  <2>1. CASE i = 1
    BY <1>2, <2>1
  <2>2. CASE i # 1
    <3>1. PICK k : k = i - 1
      OBVIOUS
    <3>2. k \in 1..n /\ 1 + k = i
      BY <1>2, <1>3, <1>4, <2>2, <3>1
    <3> QED
      BY <1>2, <3>2 DEF NegativeChild
  <2> QED
    BY <2>1, <2>2
<1>5. ASSUME p # 0 PROVE \E i \in DOMAIN body.models : body.models[i].kind = "part"
  <2>1. 1 \in 1..p
    BY <1>2, <1>5
  <2>2. PICK i : i = 1 + n + 1
    OBVIOUS
  <2>3. i \in 1..(1 + n + p)
    BY <1>2, <2>1, <2>2
  <2>4. body.models[i].kind = "part"
    BY <1>2, <2>1, <2>2 DEF PartChild
  <2> QED
    BY <1>3, <2>3, <2>4
<1> QED
  BY <1>1, <1>4, <1>5

\* The faces are painted in the colours the parser found.
LEMMA PaintBuilt ==
  ASSUME InputInv, Built, AllVisible
  PROVE  PaintedAs(ProjectFaces("normal_part"), ColoursOf(Source), Settings["filament_colour"].v)
<1>1. PICK r, row, models, objs : r \in Requests /\ BuiltFrom(r, row, models, objs)
  BY BuiltOf
<1>2. PICK edit, filaments, req : edit = r[1] /\ filaments = Settings["filament_colour"].v /\ req = r[2]
  OBVIOUS
<1>3. /\ IsBuilt(models, row, edit) /\ Source = Parse3MF(upload, edit.plate) /\ Source.ok /\ IsParsed(Source)
      /\ BuiltWhole(row, edit, models, objs, filaments)
  BY <1>1, <1>2, WholeBuilt
<1>4. IsRow(row, upload) /\ IsEdit(edit) /\ edit.plate \in 1..row.plateCount /\ IsBody(Body, row, edit)
  BY <1>1, <1>2 DEF BuiltFrom
<1>5. PICK m, source : m = models[1] /\ source = Source
  OBVIOUS
<1>6. m.kind = "model" /\ m.at = source.at /\ m.colours = source.colours /\ IsPoints(m.at)
  BY <1>3, <1>4, <1>5, BuiltFirst
<1>7. IsList(filaments)
  <2>1. IsList(req.slots)
    BY <1>1, <1>2, RequestsAssumption
  <2>2. Settings = BuildProjectSettings(req)
    BY <1>1, <1>2 DEF BuiltFrom
  <2> QED
    BY <1>2, <2>1, <2>2, ColoursListed
<1>8. IsList(source.negatives) /\ \A k \in DOMAIN source.negatives : IsPoints(source.negatives[k])
  BY <1>3, <1>5 DEF IsParsed
<1>9. IsList(models) /\ Len(models) # 0
  BY <1>3 DEF IsBuilt
<1>10. IsList(objs) /\ PaintedAs(FacesBy(objs, "normal_part"), ColoursOf(source), filaments)
  <2>1. CASE PartsOf(row, edit) = 0
    <3>1. PICK off : off = PlateOffset(Turned(m), m.offset)
      OBVIOUS
    <3>2. ModelsPlain(models, source.negatives) /\ IsPlaced(objs, models, 0, off, filaments)
      BY <1>3, <1>5, <2>1, <3>1 DEF BuiltWhole
    <3>3. PICK n \in Nat : n = Len(source.negatives) /\ DOMAIN models = 1..(1 + n)
      BY <1>8, <1>9, <3>2, ListDomain DEF ModelsPlain
    <3>4. ASSUME NEW k \in DOMAIN models, k > 1 PROVE models[k].kind = "negative"
      <4>1. PICK j : j = k - 1
        OBVIOUS
      <4>2. j \in 1..n /\ 1 + j = k
        BY <3>3, <3>4, <4>1
      <4> QED
        BY <3>2, <3>3, <4>2 DEF ModelsPlain, CutterOf
    <3>5. PICK faces : faces = objs[1].faces
      OBVIOUS
    <3>6. FacesBy(objs, "normal_part") = faces /\ IsList(objs) /\ IsFaces(faces, m, off, filaments)
      <4>1. 1 \in DOMAIN models
        BY <3>3
      <4> QED
        BY <1>5, <1>6, <1>9, <3>2, <3>4, <3>5, <4>1, PlainFaces
    <3>7. Len(m.at) \in Nat
      BY <1>6, ListDomain DEF IsPoints
    <3>8. \A f \in DOMAIN faces :
            PaintedFace(faces[f].paint, f \notin DOMAIN m.colours \/ m.colours[f] = Unpainted, m.colours[f], filaments)
      BY <1>6, <1>7, <3>6, <3>7, FacesPainted
    <3>9. PaintedAs(faces, m.colours, filaments)
      BY <3>8, PaintedByFace
    <3>10. ColoursOf(source) = source.colours
      BY <1>4, <2>1, PartsRequested DEF ColoursOf
    <3> QED
      BY <1>6, <3>6, <3>9, <3>10
  <2>2. CASE PartsOf(row, edit) # 0
    <3>1. /\ source.parts # <<>> /\ ModelsByPart(models, source.negatives, source.parts)
          /\ IsPlaced(objs, models, 1, Zero, filaments)
      BY <1>3, <1>5, <2>2 DEF BuiltWhole
    <3>2. PICK parts, cutters, at : parts = source.parts /\ cutters = source.negatives /\ at = source.at
      OBVIOUS
    <3>3. /\ IsList(parts) /\ Len(parts) # 0 /\ \A p \in DOMAIN parts : IsPart(parts[p])
          /\ at = Flatten([p \in DOMAIN parts |-> parts[p].at]) /\ IsPoints(at) /\ Len(at) # 0
      BY <1>3, <1>5, <3>1, <3>2, NotEmpty DEF IsParsed
    <3>4. /\ ModelsByPart(models, cutters, parts) /\ IsList(cutters) /\ \A k \in DOMAIN cutters : IsPoints(cutters[k])
      BY <1>8, <3>1, <3>2
    <3>5. /\ IsList(objs)
          /\ FacesBy(objs, "normal_part") = Flatten([k \in 1..Len(parts) |-> objs[Len(cutters) + k].faces])
          /\ \A k \in 1..Len(parts) : \E w : PartOf(w, parts[k]) /\ IsFaces(objs[Len(cutters) + k].faces, w, Zero, filaments)
      BY <1>9, <3>1, <3>3, <3>4, PartsIntact
    <3>6. PICK p, q : p \in Nat /\ p = Len(parts) /\ DOMAIN parts = 1..p /\ q = Len(cutters)
      BY <3>3, ListDomain
    <3>7. PICK g : g = [k \in 1..p |-> objs[q + k].faces]
      OBVIOUS
    <3>8. IsList(g) /\ Len(g) = p
      BY <3>6, <3>7, ListMade
    <3>9. ASSUME NEW k \in DOMAIN parts PROVE \E w : PartOf(w, parts[k]) /\ IsFaces(g[k], w, Zero, filaments)
      BY <3>5, <3>6, <3>7, <3>9
    <3>10. PICK c : c = [k \in DOMAIN parts |-> parts[k].colours]
      OBVIOUS
    <3>11. PaintedAs(Flatten(g), Flatten(c), filaments)
      BY <1>7, <3>3, <3>6, <3>8, <3>9, <3>10, PartsPainted
    <3>12. FacesBy(objs, "normal_part") = Flatten(g)
      BY <3>5, <3>6, <3>7
    <3>13. ColoursOf(source) = Flatten(c)
      BY <1>4, <2>2, <3>2, <3>10, PartsRequested DEF ColoursOf
    <3> QED
      BY <3>5, <3>11, <3>12, <3>13
  <2> QED
    BY <2>1, <2>2
<1>11. \A subtype : ProjectFaces(subtype) = FacesBy(objs, subtype)
  BY <1>1, <1>10 DEF BuiltFrom
<1> QED
  BY <1>2, <1>5, <1>10, <1>11

-----------------------------------------------------------------------------
(* What the parser reads of the paint                                          *)

IsPaint(faces) == IsList(faces) /\ \A i \in DOMAIN faces : faces[i].paint \in Nat \union {Absent}

\* An entry has as many faces as its mesh, and the mesh's paint if there is any.
ReadsFaces(e, faces) ==
    /\ IsPaint(faces) /\ Len(e.at) = Len(faces)
    /\ ExtractPaintColors(faces) # <<>> =>
            e.byExtruder /\ e.colours = ExtractPaintColors(faces)
Reads(e, mesh) == ReadsFaces(e, mesh.faces) /\ (e.negative <=> mesh.cut)

\* The entries are the meshes, in the same order.
ReadsAll(entries, meshes) ==
    /\ IsEntries(entries) /\ IsList(meshes) /\ Len(entries) = Len(meshes)
    /\ \A i \in DOMAIN entries : Reads(entries[i], meshes[i])

LEMMA ReadsNone == ReadsAll(<<>>, <<>>)
BY EmptyEntries, EmptyList, ListDomain DEF ReadsAll

LEMMA ReadsOne ==
  ASSUME NEW e, IsEntry(e), NEW mesh, Reads(e, mesh)
  PROVE  ReadsAll(<<e>>, << mesh >>)
<1>1. PICK a, b : a = <<e>> /\ b = << mesh >>
  OBVIOUS
<1>2. Len(a) = 1 /\ a = [i \in 1..1 |-> a[i]] /\ a[1] = e
  BY <1>1
<1>3. Len(b) = 1 /\ b = [i \in 1..1 |-> b[i]] /\ b[1] = mesh
  BY <1>1
<1>4. IsList(a) /\ IsList(b)
  BY <1>2, <1>3 DEF IsList
<1>5. DOMAIN a = {1}
  BY <1>2
<1> QED
  BY <1>1, <1>2, <1>3, <1>4, <1>5 DEF ReadsAll, IsEntries

LEMMA FlattenReads ==
  ASSUME NEW f, IsList(f), NEW g, IsList(g), Len(f) = Len(g),
         \A i \in DOMAIN f : ReadsAll(f[i], g[i])
  PROVE  ReadsAll(Flatten(f), Flatten(g))
<1>1. DOMAIN f = DOMAIN g
  BY ListDomain
<1>2. IsLists(f) /\ IsLists(g) /\ SameShape(f, g)
  BY <1>1 DEF IsLists, SameShape, ReadsAll, IsEntries
<1>3. PICK a, b : a = Flatten(f) /\ b = Flatten(g)
  OBVIOUS
<1>4. Alike(f, g, a, b)
  BY <1>2, <1>3, FlattenAlike
<1>5. IsEntries(a)
  BY <1>3, FlattenEntries DEF ReadsAll
<1>6. ASSUME NEW k \in DOMAIN a PROVE Reads(a[k], b[k])
  <2>1. PICK i \in DOMAIN f : \E j \in DOMAIN f[i] : a[k] = f[i][j] /\ b[k] = g[i][j]
    BY <1>4 DEF Alike
  <2>2. PICK j \in DOMAIN f[i] : a[k] = f[i][j] /\ b[k] = g[i][j]
    BY <2>1
  <2>3. Reads(f[i][j], g[i][j])
    BY <2>1, <2>2 DEF ReadsAll
  <2> QED
    BY <2>2, <2>3
<1> QED
  BY <1>3, <1>4, <1>5, <1>6 DEF ReadsAll, Alike

LEMMA OnlyReads ==
  ASSUME NEW entries, NEW meshes, ReadsAll(entries, meshes), NEW S
  PROVE  ReadsAll(Only(entries, S), Only(meshes, S))
<1>1. PICK n \in Nat : n = Len(entries) /\ DOMAIN entries = 1..n /\ DOMAIN meshes = 1..n
  BY ListDomain DEF ReadsAll, IsEntries
<1>2. PICK f : f = [i \in DOMAIN entries |-> IF i \in S THEN <<entries[i]>> ELSE <<>>]
  OBVIOUS
<1>3. PICK g : g = [i \in DOMAIN meshes |-> IF i \in S THEN <<meshes[i]>> ELSE <<>>]
  OBVIOUS
<1>4. IsList(f) /\ IsList(g) /\ Len(f) = n /\ Len(g) = n /\ DOMAIN f = 1..n
  BY <1>1, <1>2, <1>3, ListMade
<1>5. ASSUME NEW i \in DOMAIN f PROVE ReadsAll(f[i], g[i])
  <2>1. CASE i \in S
    <3>1. PICK e, mesh : e = entries[i] /\ mesh = meshes[i]
      OBVIOUS
    <3>2. IsEntry(e) /\ Reads(e, mesh)
      BY <1>1, <1>4, <3>1 DEF ReadsAll, IsEntries
    <3>3. f[i] = <<e>> /\ g[i] = <<mesh>>
      BY <1>1, <1>2, <1>3, <1>4, <2>1, <3>1
    <3> QED
      BY <3>2, <3>3, ReadsOne
  <2>2. CASE i \notin S
    <3>1. f[i] = <<>> /\ g[i] = <<>>
      BY <1>1, <1>2, <1>3, <1>4, <2>2
    <3> QED
      BY <3>1, ReadsNone
  <2> QED
    BY <2>1, <2>2
<1>6. ReadsAll(Flatten(f), Flatten(g))
  BY <1>4, <1>5, FlattenReads
<1> QED
  BY <1>2, <1>3, <1>6 DEF Only

LEMMA MeshRead ==
  ASSUME NEW obj, IsObject(obj), obj.faces # <<>>
  PROVE  \E e : ParseMesh(obj) = <<e>> /\ IsEntry(e) /\ ReadsFaces(e, obj.faces) /\ e.negative = FALSE
<1>1. PICK faces, painted, group, at :
        /\ faces = obj.faces /\ painted = ExtractPaintColors(faces)
        /\ group = ColoursFromResources(obj) /\ at = [i \in DOMAIN faces |-> faces[i].at]
  OBVIOUS
<1>2. PICK e : e = [at |-> at, colours |-> IF painted # <<>> THEN painted ELSE group,
                    byExtruder |-> painted # <<>>, extruder |-> Absent, negative |-> FALSE]
  OBVIOUS
<1>3. ParseMesh(obj) = <<e>>
  BY <1>1, <1>2 DEF ParseMesh
<1>4. IsEntry(e)
  <2>1. IsEntries(<<e>>)
    BY <1>3, ParsedMesh
  <2>2. PICK a : a = <<e>>
    OBVIOUS
  <2>3. 1 \in DOMAIN a /\ a[1] = e
    BY <2>2
  <2> QED
    BY <2>1, <2>2, <2>3 DEF IsEntries
<1>5. IsPaint(faces)
  BY <1>1 DEF IsObject, IsPaint
<1>6. Len(at) = Len(faces)
  BY <1>1, <1>5, ListDomain, ListMade DEF IsPaint
<1>7. painted # <<>> => e.byExtruder /\ e.colours = painted
  BY <1>2
<1>8. e.at = at /\ e.negative = FALSE
  BY <1>2
<1> QED
  BY <1>1, <1>3, <1>4, <1>5, <1>6, <1>7, <1>8 DEF ReadsFaces

LEMMA EntryGiven ==
  ASSUME NEW e, IsEntry(e), NEW a, NEW x, NEW y
  PROVE  [e EXCEPT !.at = a, !.extruder = x, !.negative = y] =
         [at |-> a, colours |-> e.colours, byExtruder |-> e.byExtruder, extruder |-> x, negative |-> y]
<1>1. PICK o, c, b, w, n : o = e.at /\ c = e.colours /\ b = e.byExtruder /\ w = e.extruder /\ n = e.negative
  OBVIOUS
<1>2. e = [at |-> o, colours |-> c, byExtruder |-> b, extruder |-> w, negative |-> n]
  BY <1>1 DEF IsEntry
<1>3. PICK f : f = [e EXCEPT !.at = a]
  OBVIOUS
<1>4. f = [at |-> a, colours |-> c, byExtruder |-> b, extruder |-> w, negative |-> n]
  BY <1>2, <1>3
<1>5. PICK g : g = [f EXCEPT !.extruder = x]
  OBVIOUS
<1>6. g = [at |-> a, colours |-> c, byExtruder |-> b, extruder |-> x, negative |-> n]
  BY <1>4, <1>5
<1>7. [g EXCEPT !.negative = y] = [at |-> a, colours |-> c, byExtruder |-> b, extruder |-> x, negative |-> y]
  BY <1>6
<1>8. [e EXCEPT !.at = a, !.extruder = x, !.negative = y] =
      [[[e EXCEPT !.at = a] EXCEPT !.extruder = x] EXCEPT !.negative = y]
  BY <1>2
<1> QED
  BY <1>1, <1>3, <1>5, <1>7, <1>8

\* An entry that is moved, or is given another extruder or kind, keeps its paint.
LEMMA MovedRead ==
  ASSUME NEW e, IsEntry(e), NEW t, IsTransform(t), NEW x, NEW y, NEW faces, ReadsFaces(e, faces)
  PROVE  /\ ReadsFaces([e EXCEPT !.at = ApplyTransform(t, @), !.extruder = x, !.negative = y], faces)
         /\ [e EXCEPT !.at = ApplyTransform(t, @), !.extruder = x, !.negative = y].negative = y
         /\ ReadsFaces([e EXCEPT !.at = ApplyTransform(t, @)], faces)
         /\ [e EXCEPT !.at = ApplyTransform(t, @)].negative = e.negative
         /\ ReadsFaces([e EXCEPT !.extruder = x], faces)
         /\ [e EXCEPT !.extruder = x].negative = e.negative
<1>1. PICK a : a = ApplyTransform(t, e.at) /\ Len(a) = Len(e.at)
  BY TransformedMesh DEF IsEntry
<1>2. PICK o, c, b, w, n : o = e.at /\ c = e.colours /\ b = e.byExtruder /\ w = e.extruder /\ n = e.negative
  OBVIOUS
<1>3. e = [at |-> o, colours |-> c, byExtruder |-> b, extruder |-> w, negative |-> n]
  BY <1>2 DEF IsEntry
<1>4. ASSUME NEW h, Len(h) = Len(e.at), NEW p, NEW q
      PROVE  LET r == [at |-> h, colours |-> c, byExtruder |-> b, extruder |-> p, negative |-> q]
             IN ReadsFaces(r, faces) /\ r.negative = q
  BY <1>2, <1>4 DEF ReadsFaces
<1>5. [e EXCEPT !.at = a, !.extruder = x, !.negative = y] =
      [at |-> a, colours |-> c, byExtruder |-> b, extruder |-> x, negative |-> y]
  BY <1>2, EntryGiven
<1>6. [e EXCEPT !.at = a] = [at |-> a, colours |-> c, byExtruder |-> b, extruder |-> w, negative |-> n]
  BY <1>3
<1>7. [e EXCEPT !.extruder = x] = [at |-> o, colours |-> c, byExtruder |-> b, extruder |-> x, negative |-> n]
  BY <1>3
<1> QED
  BY <1>1, <1>2, <1>4, <1>5, <1>6, <1>7

\* One component: the entries are the meshes it names.
LEMMA ComponentRead ==
  ASSUME NEW archive, IsArchive(archive), NEW obj, NEW comp, IsTransform(comp.transform)
  PROVE  ReadsAll(ComponentEntries(archive, ModelSettings(archive.config), obj, comp),
                  NamedMeshes(archive, obj, comp))
<1>1. PICK s : s = ModelSettings(archive.config)
  OBVIOUS
<1>2. PICK y : y = (comp.target # Absent /\ Lookup(s.partSubtypes, <<obj.id, comp.target>>, "") \in NotPrintable)
  OBVIOUS
<1>3. PICK ext : ext = Lookup(archive.files, comp.path, <<>>)
  OBVIOUS
<1>4. IsList(ext) /\ \A i \in DOMAIN ext : IsObject(ext[i])
  <2>1. CASE comp.path \in DOMAIN archive.files
    BY <1>3, <2>1 DEF IsArchive, Lookup
  <2>2. CASE comp.path \notin DOMAIN archive.files
    <3>1. ext = <<>>
      BY <1>3, <2>2 DEF Lookup
    <3> QED
      BY <3>1, EmptyList, ListDomain
  <2> QED
    BY <2>1, <2>2
<1>5. PICK chosen : chosen =
            {i \in DOMAIN ext : comp.target # Absent => /\ ext[i].id = comp.target
                                                        /\ \A j \in 1..(i - 1) : ext[j].id # comp.target}
  OBVIOUS
<1>6. PICK all : all = [i \in DOMAIN ext |-> [faces |-> ext[i].faces, cut |-> y]]
  OBVIOUS
<1>7. PICK S : S = {i \in chosen : ext[i].faces # <<>>}
  OBVIOUS
<1>8. PICK g : g = [i \in DOMAIN all |-> IF i \in S THEN <<all[i]>> ELSE <<>>]
  OBVIOUS
<1>9. NamedMeshes(archive, obj, comp) = Flatten(g)
  <2>1. NamedMeshes(archive, obj, comp) = Only(all, S)
    BY <1>1, <1>2, <1>3, <1>5, <1>6, <1>7, Zenon DEF NamedMeshes
  <2> QED
    BY <1>8, <2>1, Zenon DEF Only
<1>10. PICK m \in Nat : m = Len(ext) /\ DOMAIN ext = 1..m
  BY <1>4, ListDomain
<1>11. DOMAIN all = 1..m
  BY <1>6, <1>10
<1>12. IsList(g) /\ Len(g) = m /\ DOMAIN g = 1..m
  BY <1>8, <1>11, ListMade
<1>13. CASE comp.path \notin DOMAIN archive.files
  <2>1. m = 0
    BY <1>3, <1>10, <1>13, EmptyList DEF Lookup
  <2>2. Flatten(g) = <<>>
    BY <1>12, <2>1, FlattenNone
  <2>3. ComponentEntries(archive, s, obj, comp) = <<>>
    BY <1>13 DEF ComponentEntries
  <2> QED
    BY <1>1, <1>9, <2>2, <2>3, ReadsNone
<1>14. CASE comp.path \in DOMAIN archive.files
  <2>1. PICK f : f = [i \in DOMAIN ext |-> IF i \in chosen THEN ParseMesh(ext[i]) ELSE <<>>]
    OBVIOUS
  <2>2. PICK x : x = IF comp.target = Absent
                     THEN Lookup(s.objectExtruders, obj.id, Absent)
                     ELSE Lookup(s.partExtruders, <<obj.id, comp.target>>, Lookup(s.objectExtruders, obj.id, Absent))
    OBVIOUS
  <2>3. PICK parsed : parsed = Flatten(f)
    OBVIOUS
  <2>4. PICK h : h = [i \in DOMAIN parsed |->
            [parsed[i] EXCEPT !.at = ApplyTransform(comp.transform, @), !.extruder = x, !.negative = y]]
    OBVIOUS
  <2>5. ComponentEntries(archive, s, obj, comp) = h
    <3>1. ext = archive.files[comp.path]
      BY <1>3, <1>14 DEF Lookup
    <3>2. chosen = IF comp.target = Absent THEN DOMAIN ext
                   ELSE {i \in DOMAIN ext : /\ ext[i].id = comp.target
                                            /\ \A j \in 1..(i - 1) : ext[j].id # comp.target}
      BY <1>5
    <3> QED
      BY <1>2, <1>14, <2>1, <2>2, <2>3, <2>4, <3>1, <3>2, ZenonT(60) DEF ComponentEntries
  <2>6. ASSUME NEW i \in 1..m
        PROVE  /\ IsEntries(f[i]) /\ IsList(g[i]) /\ Len(f[i]) = Len(g[i])
               /\ \A j \in DOMAIN f[i] : ReadsFaces(f[i][j], g[i][j].faces) /\ g[i][j].cut = y
    <3>1. CASE i \in S
      <4>1. PICK mesh : mesh = [faces |-> ext[i].faces, cut |-> y]
        OBVIOUS
      <4>2. PICK e : ParseMesh(ext[i]) = <<e>> /\ IsEntry(e) /\ ReadsFaces(e, ext[i].faces) /\ e.negative = FALSE
        BY <1>4, <1>7, <1>10, <3>1, MeshRead
      <4>3. PICK a, b : a = <<e>> /\ b = << mesh >>
        OBVIOUS
      <4>4. f[i] = a /\ g[i] = b
        BY <1>6, <1>7, <1>8, <1>10, <2>1, <3>1, <4>1, <4>2, <4>3
      <4>5. Len(a) = 1 /\ DOMAIN a = {1} /\ a[1] = e /\ a = [j \in 1..1 |-> a[j]]
        BY <4>3
      <4>6. Len(b) = 1 /\ b[1] = mesh /\ b = [j \in 1..1 |-> b[j]]
        BY <4>3
      <4>7. IsEntries(a) /\ IsList(b)
        BY <4>2, <4>5, <4>6 DEF IsEntries, IsList
      <4>8. mesh.faces = ext[i].faces /\ mesh.cut = y
        BY <4>1
      <4> QED
        BY <4>2, <4>4, <4>5, <4>6, <4>7, <4>8
    <3>2. CASE i \notin S
      <4>1. f[i] = <<>>
        <5>1. i \in chosen => ParseMesh(ext[i]) = <<>>
          BY <1>7, <3>2 DEF ParseMesh
        <5> QED
          BY <1>10, <2>1, <5>1
      <4>2. g[i] = <<>>
        BY <1>8, <1>11, <3>2
      <4> QED
        BY <4>1, <4>2, EmptyEntries, EmptyList, ListDomain
    <3> QED
      BY <3>1, <3>2
  <2>7. IsList(f) /\ Len(f) = m /\ DOMAIN f = 1..m
    BY <1>10, <2>1, ListMade
  <2>8. IsLists(f) /\ IsLists(g) /\ SameShape(f, g)
    BY <1>12, <2>6, <2>7 DEF IsLists, SameShape, IsEntries
  <2>9. PICK b : b = Flatten(g)
    OBVIOUS
  <2>10. Alike(f, g, parsed, b)
    BY <2>3, <2>8, <2>9, FlattenAlike
  <2>11. IsEntries(parsed)
    BY <2>3, <2>6, <2>7, FlattenEntries
  <2>12. PICK n \in Nat : n = Len(parsed) /\ DOMAIN parsed = 1..n /\ IsList(b) /\ Len(b) = n
    BY <2>10, ListDomain DEF Alike
  <2>13. IsList(h) /\ Len(h) = n /\ DOMAIN h = 1..n
    BY <2>4, <2>12, ListMade
  <2>14. ASSUME NEW k \in 1..n PROVE IsEntry(h[k]) /\ Reads(h[k], b[k])
    <3>1. PICK e : e = parsed[k] /\ IsEntry(e)
      BY <2>11, <2>12 DEF IsEntries
    <3>2. h[k] = [e EXCEPT !.at = ApplyTransform(comp.transform, @), !.extruder = x, !.negative = y]
      BY <2>4, <2>12, <3>1
    <3>3. PICK i \in DOMAIN f : \E j \in DOMAIN f[i] : parsed[k] = f[i][j] /\ b[k] = g[i][j]
      BY <2>10, <2>12 DEF Alike
    <3>4. PICK j \in DOMAIN f[i] : parsed[k] = f[i][j] /\ b[k] = g[i][j]
      BY <3>3
    <3>5. ReadsFaces(e, b[k].faces) /\ b[k].cut = y
      BY <2>6, <2>7, <3>1, <3>4
    <3>6. PICK p : p = [e EXCEPT !.at = ApplyTransform(comp.transform, @), !.extruder = x, !.negative = y]
      OBVIOUS
    <3>7. IsEntry(p)
      BY <3>1, <3>6, EntryMoved, Zenon
    <3>8. PICK faces : faces = b[k].faces
      OBVIOUS
    <3>9. ReadsFaces(e, faces)
      BY <3>5, <3>8
    <3>10. ReadsFaces(p, faces)
      BY <3>1, <3>6, <3>9, MovedRead, Zenon
    <3>11. p.negative = y
      <4>1. PICK a : a = ApplyTransform(comp.transform, e.at)
        OBVIOUS
      <4>2. p = [e EXCEPT !.at = a, !.extruder = x, !.negative = y]
        BY <3>6, <4>1
      <4>3. p = [at |-> a, colours |-> e.colours, byExtruder |-> e.byExtruder, extruder |-> x, negative |-> y]
        BY <3>1, <4>2, EntryGiven, Zenon
      <4> QED
        BY <4>3
    <3> QED
      BY <3>2, <3>5, <3>6, <3>7, <3>8, <3>10, <3>11 DEF Reads
  <2> QED
    BY <1>1, <1>9, <2>5, <2>9, <2>12, <2>13, <2>14 DEF ReadsAll, IsEntries
<1> QED
  BY <1>13, <1>14

LEMMA ObjectRead ==
  ASSUME NEW archive, IsArchive(archive), NEW obj, IsObject(obj),
         NEW placed, \A k \in DOMAIN placed : IsTransform(placed[k])
  PROVE  ReadsAll(ObjectEntries(archive, ModelSettings(archive.config), placed, obj),
                  MeshesOf(archive, obj))
<1>1. PICK s, t, x, mesh :
        /\ s = ModelSettings(archive.config) /\ t = Lookup(placed, obj.id, <<>>)
        /\ x = Lookup(s.objectExtruders, obj.id, Absent) /\ mesh = ParseMesh(obj)
  OBVIOUS
<1>2. IsTransform(t)
  BY <1>1 DEF Lookup, IsTransform
<1>3. PICK own : own = [i \in DOMAIN mesh |-> [mesh[i] EXCEPT !.extruder = x]]
  OBVIOUS
<1>4. PICK f : f = [c \in DOMAIN obj.comps |-> ComponentEntries(archive, s, obj, obj.comps[c])]
  OBVIOUS
<1>5. PICK found : found = IF obj.faces # <<>> THEN own ELSE Flatten(f)
  OBVIOUS
<1>6. PICK h : h = [i \in DOMAIN found |-> [found[i] EXCEPT !.at = ApplyTransform(t, @)]]
  OBVIOUS
<1>7. ObjectEntries(archive, s, placed, obj) = h
  BY <1>1, <1>3, <1>4, <1>5, <1>6, Zenon DEF ObjectEntries
<1>8. PICK meshes : meshes = MeshesOf(archive, obj)
  OBVIOUS
<1>9. ReadsAll(found, meshes)
  <2>1. CASE obj.faces # <<>>
    <3>1. PICK e : mesh = <<e>> /\ IsEntry(e) /\ ReadsFaces(e, obj.faces) /\ e.negative = FALSE
      BY <1>1, <2>1, MeshRead
    <3>2. PICK n : n = [e EXCEPT !.extruder = x]
      OBVIOUS
    <3>3. found = <<n>>
      <4>1. DOMAIN mesh = 1..1 /\ mesh[1] = e
        BY <3>1
      <4>2. own = [i \in 1..1 |-> n]
        BY <1>3, <3>2, <4>1
      <4> QED
        BY <1>5, <2>1, <4>2
    <3>4. IsEntry(n) /\ ReadsFaces(n, obj.faces) /\ n.negative = FALSE
      BY <1>2, <3>1, <3>2, EntryMoved, MovedRead
    <3>5. PICK mine : mine = [faces |-> obj.faces, cut |-> FALSE]
      OBVIOUS
    <3>6. mine.faces = obj.faces /\ mine.cut = FALSE
      BY <3>5
    <3>7. Reads(n, mine)
      BY <3>4, <3>6 DEF Reads
    <3>8. meshes = << mine >>
      BY <1>8, <2>1, <3>5 DEF MeshesOf
    <3> QED
      BY <3>3, <3>4, <3>7, <3>8, ReadsOne
  <2>2. CASE obj.faces = <<>>
    <3>1. PICK g : g = [c \in DOMAIN obj.comps |-> NamedMeshes(archive, obj, obj.comps[c])]
      OBVIOUS
    <3>2. meshes = Flatten(g)
      BY <1>8, <2>2, <3>1 DEF MeshesOf
    <3>3. PICK n \in Nat : DOMAIN obj.comps = 1..n
      BY ListDomain DEF IsObject
    <3>4. IsList(f) /\ IsList(g) /\ Len(f) = n /\ Len(g) = n /\ DOMAIN f = 1..n
      BY <1>4, <3>1, <3>3, ListMade
    <3>5. ASSUME NEW c \in DOMAIN f PROVE ReadsAll(f[c], g[c])
      <4>1. IsTransform(obj.comps[c].transform)
        BY <3>3, <3>4 DEF IsObject
      <4> QED
        BY <1>1, <1>4, <3>1, <3>3, <3>4, <4>1, ComponentRead
    <3>6. ReadsAll(Flatten(f), Flatten(g))
      BY <3>4, <3>5, FlattenReads
    <3> QED
      BY <1>5, <2>2, <3>2, <3>6
  <2> QED
    BY <2>1, <2>2
<1>10. PICK n \in Nat : n = Len(found) /\ DOMAIN found = 1..n
  BY <1>9, ListDomain DEF ReadsAll, IsEntries
<1>11. IsList(h) /\ Len(h) = n /\ DOMAIN h = 1..n
  BY <1>6, <1>10, ListMade
<1>12. ASSUME NEW i \in 1..n PROVE IsEntry(h[i]) /\ Reads(h[i], meshes[i])
  <2>1. PICK e, m : e = found[i] /\ m = meshes[i]
    OBVIOUS
  <2>2. IsEntry(e) /\ Reads(e, m)
    BY <1>9, <1>10, <2>1 DEF ReadsAll, IsEntries
  <2>3. h[i] = [e EXCEPT !.at = ApplyTransform(t, @)]
    BY <1>6, <1>10, <2>1
  <2>4. PICK p : p = [e EXCEPT !.at = ApplyTransform(t, @)]
    OBVIOUS
  <2>5. IsEntry(p)
    BY <1>2, <2>2, <2>4, EntryMoved, Zenon
  <2>6. ReadsFaces(p, m.faces) /\ p.negative = e.negative
    <3>1. ReadsFaces(e, m.faces)
      BY <2>2 DEF Reads
    <3> QED
      BY <1>2, <2>2, <2>4, <3>1, MovedRead, Zenon
  <2> QED
    BY <2>1, <2>2, <2>3, <2>4, <2>5, <2>6 DEF Reads
<1> QED
  BY <1>1, <1>7, <1>8, <1>9, <1>10, <1>11, <1>12 DEF ReadsAll, IsEntries

\* The printable entries of a plate are its printable meshes.
LEMMA PlateRead ==
  ASSUME NEW archive, IsArchive(archive), NEW plate
  PROVE  \E printable, negative :
            /\ ReadsAll(printable, PlateMeshes(archive, plate))
            /\ Parse3MF(archive, plate) =
                    MergeEntries(printable, negative, FilamentColours(archive.project))
<1>1. PICK s : s = ModelSettings(archive.config)
  OBVIOUS
<1>2. PICK items : items = archive.items
  OBVIOUS
<1>3. PICK pairs : pairs = Only(items, {i \in DOMAIN items : items[i][2] # <<>>})
  OBVIOUS
<1>4. PICK placed : placed = Assoc(pairs)
  OBVIOUS
<1>5. PICK onPlate : onPlate = Lookup(s.plates, plate, {})
  OBVIOUS
<1>6. PICK objects : objects = Only(archive.objects,
            {i \in DOMAIN archive.objects : onPlate = {} \/ archive.objects[i].id \in onPlate})
  OBVIOUS
<1>7. PICK f : f = [i \in DOMAIN objects |-> ObjectEntries(archive, s, placed, objects[i])]
  OBVIOUS
<1>8. PICK all : all = Flatten(f)
  OBVIOUS
<1>9. PICK neg : neg = {i \in DOMAIN all : all[i].negative}
  OBVIOUS
<1>10. Parse3MF(archive, plate) =
       MergeEntries(Only(all, DOMAIN all \ neg), Only(all, neg), FilamentColours(archive.project))
  BY <1>1, <1>2, <1>3, <1>4, <1>5, <1>6, <1>7, <1>8, <1>9, Zenon DEF Parse3MF
<1>11. PICK g : g = [i \in DOMAIN objects |-> MeshesOf(archive, objects[i])]
  OBVIOUS
<1>12. PICK meshes : meshes = Flatten(g)
  OBVIOUS
<1>13. PICK uncut : uncut = {i \in DOMAIN meshes : ~meshes[i].cut}
  OBVIOUS
<1>14. PlateMeshes(archive, plate) = Only(meshes, uncut)
  BY <1>1, <1>5, <1>6, <1>11, <1>12, <1>13, Zenon DEF PlateMeshes
<1>15. \A k \in DOMAIN placed : IsTransform(placed[k])
  <2>1. IsList(items) /\ \A i \in DOMAIN items : IsTransform(items[i][2])
    BY <1>2 DEF IsArchive
  <2>2. IsList(pairs) /\ \A i \in DOMAIN pairs : IsTransform(pairs[i][2])
    BY <1>3, <2>1, OnlyElements
  <2> QED
    BY <1>4, <2>2, AssocValues
<1>16. IsList(objects) /\ \A i \in DOMAIN objects : IsObject(objects[i])
  BY <1>6, OnlyElements DEF IsArchive
<1>17. ReadsAll(all, meshes)
  <2>1. PICK n \in Nat : DOMAIN objects = 1..n
    BY <1>16, ListDomain
  <2>2. IsList(f) /\ IsList(g) /\ Len(f) = n /\ Len(g) = n /\ DOMAIN f = 1..n
    BY <1>7, <1>11, <2>1, ListMade
  <2>3. \A i \in DOMAIN f : ReadsAll(f[i], g[i])
    BY <1>1, <1>7, <1>11, <1>15, <1>16, <2>1, <2>2, ObjectRead
  <2> QED
    BY <1>8, <1>12, <2>2, <2>3, FlattenReads
<1>18. DOMAIN all \ neg = uncut
  <2>1. DOMAIN all = DOMAIN meshes
    BY <1>17, ListDomain DEF ReadsAll, IsEntries
  <2>2. \A i \in DOMAIN all : all[i].negative <=> meshes[i].cut
    BY <1>17, Zenon DEF ReadsAll, Reads
  <2> QED
    BY <1>9, <1>13, <2>1, <2>2, Zenon
<1>19. ReadsAll(Only(all, uncut), Only(meshes, uncut))
  BY <1>17, OnlyReads
<1> QED
  BY <1>10, <1>14, <1>18, <1>19

\* A filament that has a colour is known by its number.
LEMMA OwnColour ==
  ASSUME NEW proj, NEW e \in DOMAIN ListedColours(proj), ListedColours(proj)[e] # Absent
  PROVE  e \in DOMAIN FilamentColours(proj) /\ FilamentColours(proj)[e] = ListedColours(proj)[e]
<1> DEFINE hues == ListedColours(proj)
<1>1. PICK own : own = {i \in DOMAIN hues : hues[i] # Absent}
  OBVIOUS
<1>2. PICK mixed : mixed = MixedColours(hues, IF hues = <<>> THEN <<>> ELSE proj[1].mixed)
  OBVIOUS
<1>3. FilamentColours(proj) = [k \in own \union DOMAIN mixed |-> IF k \in own THEN hues[k] ELSE mixed[k]]
  BY <1>1, <1>2, Zenon DEF FilamentColours
<1> QED
  BY <1>1, <1>3

\* The strokes of a mesh that are in range.
Drawn(faces, hues) == StrokesOf(faces, hues, FALSE)

\* What the parser reads of a stroke that is in range.
LEMMA StrokeRead ==
  ASSUME NEW faces, IsPaint(faces), NEW hues, IsList(hues), NEW f \in DOMAIN faces,
         NEW d, d = Drawn(faces, hues), d[f] # Absent
  PROVE  \E e \in DOMAIN hues :
            /\ d[f] = hues[e]
            /\ ExtractPaintColors(faces) # <<>> /\ ExtractPaintColors(faces)[f] = e
<1>1. PICK p : p = faces[f].paint
  OBVIOUS
<1>2. InRange(faces, f) /\ d[f] = Lookup(hues, PaintedWith(faces, f), Absent)
  BY DEF Drawn, StrokesOf
<1>3. PICK e : e = PaintedWith(faces, f)
  OBVIOUS
<1>4. e \in DOMAIN hues /\ d[f] = hues[e]
  BY <1>2, <1>3 DEF Lookup
<1>5. e \in Nat /\ e >= 1
  BY <1>4, ListDomain
<1>6. p \in Nat
  <2>1. p # Absent
    BY <1>1, <1>3, <1>5 DEF PaintedWith, Absent
  <2> QED
    BY <1>1, <2>1 DEF IsPaint
<1>7. p # Absent
  BY <1>6 DEF Absent
<1>8. PICK marked : marked = {i \in DOMAIN faces : faces[i].paint # Absent}
  OBVIOUS
<1>9. PICK divisor : divisor = IF \A i \in marked : faces[i].paint % 4 = 0 THEN 4 ELSE 1
  OBVIOUS
<1>10. PICK number : number = [i \in DOMAIN faces |->
                        IF i \in marked THEN (faces[i].paint \div divisor) % 256 ELSE 0]
  OBVIOUS
<1>11. ExtractPaintColors(faces) = IF \E i \in marked : faces[i].paint > 0 THEN number ELSE <<>>
  BY <1>8, <1>9, <1>10, Zenon DEF ExtractPaintColors
<1>12. f \in marked
  BY <1>1, <1>7, <1>8
<1>13. InCodes(faces) <=> \A i \in marked : faces[i].paint % 4 = 0
  BY <1>8 DEF InCodes
<1>14. (p \div divisor) % 256 = e /\ p > 0
  <2>1. CASE InCodes(faces)
    <3>1. p % 4 = 0 /\ p < 16 /\ divisor = 4
      BY <1>1, <1>2, <1>7, <1>9, <1>13, <2>1 DEF InCodes, InRange
    <3>2. p = 0 \/ p = 4 \/ p = 8 \/ p = 12
      BY <1>6, <3>1
    <3>3. e = Decoded(p)
      BY <1>1, <1>3, <1>7, <2>1 DEF PaintedWith
    <3>4. Decoded(p) = p \div 4
      BY <3>2 DEF Decoded
    <3>5. (p \div 4) % 256 = p \div 4
      BY <3>2
    <3> QED
      BY <1>5, <1>6, <3>1, <3>2, <3>3, <3>4, <3>5
  <2>2. CASE ~InCodes(faces)
    <3>1. p < 256 /\ divisor = 1 /\ e = p
      BY <1>1, <1>2, <1>3, <1>7, <1>9, <1>13, <2>2 DEF InRange, PaintedWith
    <3>2. (p \div 1) % 256 = p
      BY <1>6, <3>1
    <3> QED
      BY <1>5, <3>1, <3>2
  <2> QED
    BY <2>1, <2>2
<1>15. number[f] = e
  BY <1>1, <1>10, <1>12, <1>14
<1>16. ExtractPaintColors(faces) = number
  BY <1>1, <1>11, <1>12, <1>14
<1>17. number # <<>>
  <2>1. f \in DOMAIN number
    BY <1>10
  <2> QED
    BY <2>1
<1> QED
  BY <1>4, <1>15, <1>16, <1>17

\* One mesh: the strokes in range are among the colours of its entry.
LEMMA EntryStrokes ==
  ASSUME NEW proj, NEW hues, hues = ListedColours(proj), IsList(hues),
         NEW e, IsEntry(e), NEW faces, ReadsFaces(e, faces),
         NEW c, c = EntryColours(e, FilamentColours(proj)), NEW d, d = Drawn(faces, hues)
  PROVE  /\ IsList(c) /\ IsList(d) /\ Len(c) = Len(d)
         /\ \A j \in DOMAIN d : d[j] # Absent =>
                c[j] = d[j] /\ EntryHasColour(e, FilamentColours(proj))
<1>1. PICK filaments : filaments = FilamentColours(proj)
  OBVIOUS
<1>2. IsPaint(faces) /\ IsList(faces) /\ Len(e.at) = Len(faces)
  BY DEF ReadsFaces, IsPaint
<1>3. PICK n \in Nat : n = Len(faces) /\ DOMAIN faces = 1..n
  BY <1>2, ListDomain
<1>4. IsList(c) /\ Len(c) = n
  BY <1>2, <1>3, EntryColoursFit
<1>5. IsList(d) /\ Len(d) = n /\ DOMAIN d = 1..n
  <2>1. d = [j \in DOMAIN faces |-> IF FALSE \/ InRange(faces, j)
                                    THEN Lookup(hues, PaintedWith(faces, j), Absent) ELSE Absent]
    BY Zenon DEF Drawn, StrokesOf
  <2>2. d = [j \in 1..n |-> d[j]]
    BY <1>3, <2>1
  <2> QED
    BY <2>2, ListMade
<1>6. ASSUME NEW j \in DOMAIN d, d[j] # Absent
      PROVE  c[j] = d[j] /\ EntryHasColour(e, filaments)
  <2>1. j \in DOMAIN faces /\ d[j] # Absent
    BY <1>3, <1>5, <1>6
  <2>2. PICK k \in DOMAIN hues :
            /\ d[j] = hues[k] /\ ExtractPaintColors(faces) # <<>> /\ ExtractPaintColors(faces)[j] = k
    BY <1>2, <2>1, StrokeRead
  <2>3. e.byExtruder /\ e.colours # <<>> /\ e.colours[j] = k
    BY <2>2 DEF ReadsFaces
  <2>4. k \in DOMAIN filaments /\ filaments[k] = hues[k]
    <3>1. k \in DOMAIN ListedColours(proj) /\ ListedColours(proj)[k] # Absent
      BY <1>6, <2>2
    <3> QED
      BY <1>1, <3>1, OwnColour
  <2>5. j \in DOMAIN e.colours
    <3>1. DOMAIN e.colours = 1..n
      BY <1>2, <1>3, <2>3, ListDomain DEF IsEntry
    <3> QED
      BY <1>3, <2>1, <3>1
  <2>6. c = [i \in DOMAIN e.colours |->
                Lookup(filaments, e.colours[i], Lookup(filaments, e.extruder, White))]
    BY <1>1, <2>3, <2>4 DEF EntryColours
  <2>7. c[j] = filaments[k]
    BY <2>3, <2>4, <2>5, <2>6 DEF Lookup
  <2> QED
    BY <2>2, <2>3, <2>4, <2>7 DEF EntryHasColour
<1> QED
  BY <1>1, <1>4, <1>5, <1>6

\* A whole plate: the parser finds the strokes in range, and so do its parts.
LEMMA StrokesParsed ==
  ASSUME NEW archive, IsArchive(archive), NEW plate,
         NEW f \in DOMAIN Strokes(archive, plate, FALSE), Strokes(archive, plate, FALSE)[f] # Absent
  PROVE  LET source == Parse3MF(archive, plate)
             byPart == Flatten([p \in DOMAIN source.parts |-> source.parts[p].colours])
             c == Strokes(archive, plate, FALSE)[f]
         IN /\ f \in DOMAIN source.colours /\ source.colours[f] = c
            /\ source.parts # <<>> => f \in DOMAIN byPart /\ byPart[f] = c
<1>1. PICK hues, proj : proj = archive.project /\ hues = ListedColours(proj)
  OBVIOUS
<1>2. IsList(hues)
  BY <1>1, EmptyList DEF IsArchive, ListedColours
<1>3. PICK filaments, meshes : filaments = FilamentColours(proj) /\ meshes = PlateMeshes(archive, plate)
  OBVIOUS
<1>4. PICK printable, negative : ReadsAll(printable, meshes)
        /\ Parse3MF(archive, plate) = MergeEntries(printable, negative, filaments)
  BY <1>1, <1>3, PlateRead
<1>5. PICK parts : parts = [i \in DOMAIN printable |->
                        [at |-> ToYUp(printable[i].at),
                         colours |-> EntryColours(printable[i], filaments)]]
  OBVIOUS
<1>6. PICK n \in Nat : n = Len(printable) /\ DOMAIN printable = 1..n /\ DOMAIN meshes = 1..n
  BY <1>4, ListDomain DEF ReadsAll, IsEntries
<1>7. PICK a : a = [i \in DOMAIN parts |-> parts[i].colours]
  OBVIOUS
<1>8. PICK b : b = [i \in DOMAIN meshes |-> Drawn(meshes[i].faces, hues)]
  OBVIOUS
<1>9. PICK drawn : drawn = Strokes(archive, plate, FALSE)
  OBVIOUS
<1>10. drawn = Flatten(b)
  BY <1>1, <1>3, <1>8, <1>9, Zenon DEF Strokes, Drawn
<1>11. DOMAIN parts = 1..n
  BY <1>5, <1>6
<1>12. IsList(a) /\ IsList(b) /\ Len(a) = n /\ Len(b) = n /\ DOMAIN a = 1..n /\ DOMAIN b = 1..n
  BY <1>6, <1>7, <1>8, <1>11, ListMade
<1>13. ASSUME NEW i \in 1..n
       PROVE  /\ IsList(a[i]) /\ IsList(b[i]) /\ Len(a[i]) = Len(b[i])
              /\ \A j \in DOMAIN b[i] : b[i][j] # Absent =>
                    a[i][j] = b[i][j] /\ EntryHasColour(printable[i], filaments)
  <2>1. PICK e, m : e = printable[i] /\ m = meshes[i].faces
    OBVIOUS
  <2>2. IsEntry(e) /\ ReadsFaces(e, m)
    BY <1>4, <1>6, <2>1 DEF ReadsAll, IsEntries, Reads
  <2>3. parts[i] = [at |-> ToYUp(e.at), colours |-> EntryColours(e, filaments)]
    BY <1>5, <1>6, <2>1
  <2>4. a[i] = EntryColours(e, filaments)
    BY <1>7, <1>11, <2>3
  <2>5. b[i] = Drawn(m, hues)
    BY <1>6, <1>8, <2>1
  <2>6. PICK c, d : c = EntryColours(e, FilamentColours(proj)) /\ d = Drawn(m, hues)
    OBVIOUS
  <2>7. /\ IsList(c) /\ IsList(d) /\ Len(c) = Len(d)
        /\ \A j \in DOMAIN d : d[j] # Absent =>
                c[j] = d[j] /\ EntryHasColour(e, FilamentColours(proj))
    BY <1>1, <1>2, <2>2, <2>6, EntryStrokes
  <2> QED
    BY <1>3, <2>1, <2>4, <2>5, <2>6, <2>7
<1>14. PICK found : found = Flatten(a)
  OBVIOUS
<1>15. Alike(a, b, found, drawn)
  <2>1. IsLists(a) /\ IsLists(b) /\ SameShape(a, b)
    BY <1>12, <1>13 DEF IsLists, SameShape
  <2> QED
    BY <1>10, <1>14, <2>1, FlattenAlike
<1>16. f \in DOMAIN found
  BY <1>9, <1>15, ListDomain DEF Alike
<1>17. found[f] = drawn[f] /\ \E i \in DOMAIN printable : EntryHasColour(printable[i], filaments)
  <2>1. PICK i \in DOMAIN a : \E j \in DOMAIN a[i] : found[f] = a[i][j] /\ drawn[f] = b[i][j]
    BY <1>15, <1>16 DEF Alike
  <2>2. PICK j \in DOMAIN a[i] : found[f] = a[i][j] /\ drawn[f] = b[i][j]
    BY <2>1
  <2>3. j \in DOMAIN b[i]
    BY <1>12, <1>13, ListDomain
  <2>4. b[i][j] # Absent
    BY <1>9, <2>2
  <2>5. a[i][j] = b[i][j] /\ EntryHasColour(printable[i], filaments)
    BY <1>12, <1>13, <2>3, <2>4
  <2> QED
    BY <1>6, <1>12, <2>2, <2>5
<1>18. PICK r : r = Parse3MF(archive, plate)
  OBVIOUS
<1>19. /\ r.parts = IF Len(parts) > 1 THEN parts ELSE <<>>
       /\ r.colours = IF \E i \in DOMAIN printable : EntryHasColour(printable[i], filaments)
                      THEN Flatten(a) ELSE <<>>
  BY <1>4, <1>5, <1>7, <1>18 DEF MergeEntries
<1>20. r.colours = found
  BY <1>14, <1>17, <1>19
<1>21. ASSUME r.parts # <<>> PROVE Flatten([p \in DOMAIN r.parts |-> r.parts[p].colours]) = found
  <2>1. r.parts = parts
    BY <1>19, <1>21
  <2> QED
    BY <1>7, <1>14, <2>1
<1> QED
  BY <1>9, <1>16, <1>17, <1>18, <1>20, <1>21

\* Painted in the colours the parser found, the faces are painted in those of their
\* strokes.
LEMMA StrokesKept ==
  ASSUME NEW faces, NEW filaments, NEW drawn, PaintedAs(faces, ColoursOf(Source), filaments),
         \A f \in DOMAIN drawn : drawn[f] # Absent =>
            f \in DOMAIN ColoursOf(Source) /\ ColoursOf(Source)[f] = drawn[f]
  PROVE  PaintedAs(faces, Intended(faces, drawn), filaments)
<1>1. PICK hues, due : hues = ColoursOf(Source) /\ due = Intended(faces, drawn)
  OBVIOUS
<1>2. due = [f \in DOMAIN faces |-> IF Lookup(drawn, f, Absent) # Absent THEN drawn[f]
                                     ELSE Lookup(hues, f, Unpainted)]
  BY <1>1, Zenon DEF Intended
<1>3. ASSUME NEW f \in DOMAIN faces
      PROVE  PaintedFace(faces[f].paint, f \notin DOMAIN due \/ due[f] = Unpainted, due[f], filaments)
  <2>1. PaintedFace(faces[f].paint, f \notin DOMAIN hues \/ hues[f] = Unpainted, hues[f], filaments)
    BY <1>1 DEF PaintedAs, PaintedFace
  <2>2. f \in DOMAIN due
    BY <1>2
  <2>3. CASE f \in DOMAIN hues
    <3>1. due[f] = hues[f]
      BY <1>1, <1>2, <2>3 DEF Lookup
    <3> QED
      BY <2>1, <2>2, <2>3, <3>1 DEF PaintedFace
  <2>4. CASE f \notin DOMAIN hues
    <3>1. due[f] = Unpainted
      BY <1>1, <1>2, <2>4 DEF Lookup
    <3> QED
      BY <2>1, <2>4, <3>1 DEF PaintedFace
  <2> QED
    BY <2>3, <2>4
<1> QED
  BY <1>1, <1>3, PaintedByFace

LEMMA PaintIntended ==
  ASSUME InputInv
  PROVE  PaintKept
<1> SUFFICES ASSUME Built, AllVisible
             PROVE  PaintedAs(ProjectFaces("normal_part"),
                              Intended(ProjectFaces("normal_part"), Strokes(upload, PlateOf(Body), FALSE)),
                              Settings["filament_colour"].v)
  BY DEF PaintKept
<1>1. PICK r, row, models, objs : r \in Requests /\ BuiltFrom(r, row, models, objs)
  BY BuiltOf
<1>2. PICK edit : edit = r[1]
  OBVIOUS
<1>3. /\ IsRow(row, upload) /\ IsEdit(edit) /\ edit.plate \in 1..row.plateCount /\ IsBody(Body, row, edit)
  BY <1>1, <1>2 DEF BuiltFrom
<1>4. IsArchive(upload)
  BY ArchivesAssumption DEF InputInv
<1>5. PICK drawn : drawn = Strokes(upload, PlateOf(Body), FALSE)
  OBVIOUS
<1>6. ASSUME NEW f \in DOMAIN drawn, drawn[f] # Absent
      PROVE  f \in DOMAIN ColoursOf(Source) /\ ColoursOf(Source)[f] = drawn[f]
  <2>1. PICK source, byPart : /\ source = Source
                              /\ byPart = Flatten([p \in DOMAIN source.parts |-> source.parts[p].colours])
    OBVIOUS
  <2>2. /\ f \in DOMAIN source.colours /\ source.colours[f] = drawn[f]
        /\ source.parts # <<>> => f \in DOMAIN byPart /\ byPart[f] = drawn[f]
    BY <1>4, <1>5, <1>6, <2>1, StrokesParsed DEF Source
  <2>3. CASE PartsOf(row, edit) = 0
    <3>1. ColoursOf(source) = source.colours
      BY <1>3, <2>3, PartsRequested DEF ColoursOf
    <3> QED
      BY <2>1, <2>2, <3>1
  <2>4. CASE PartsOf(row, edit) # 0
    <3>1. source.parts # <<>>
      <4>1. BuiltWhole(row, edit, models, objs, Settings["filament_colour"].v)
        BY <1>1, <1>2, WholeBuilt
      <4> QED
        BY <2>1, <2>4, <4>1 DEF BuiltWhole
    <3>2. ColoursOf(source) = byPart
      BY <1>3, <2>1, <2>4, PartsRequested DEF ColoursOf
    <3> QED
      BY <2>1, <2>2, <3>1, <3>2
  <2> QED
    BY <2>3, <2>4
<1> QED
  BY <1>5, <1>6, PaintBuilt, StrokesKept

\* For every archive and list of slots: a face painted with a filament of the file, in
\* a code of one digit or by number, is printed with the first slot of that filament's
\* colour, or with the first of all if no slot has it; every other face with the colour
\* the parser gave it (extractPaintColors, faceColors of the rows,
\* buildColorToExtruderMap, extruderToPaintColor).
THEOREM PaintKeptAlways == RequestSpec => []PaintKept
BY InputAlways, PaintIntended, PTL
=============================================================================
