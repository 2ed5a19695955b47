----------------------------- MODULE SceneProofs -----------------------------
(***************************************************************************)
(* Theorems about SceneCache and SceneAlarms, for all scenes, groups,      *)
(* devices and configurations: types, that a report runs a scene as it was *)
(* switched, and that the alarm history is true.                           *)
(***************************************************************************)
EXTENDS SceneCache, SceneAlarms, TLAPS, FunctionTheorems, SequenceTheorems, FiniteSetTheorems

-----------------------------------------------------------------------------
(* The cache of the scenes.                                                *)

ScReportPlaces ==
    {"idle", "get kind", "again kind", "task kind", "fill kind", "get base", "again base", "load",
     "task write", "fill info", "fill base", "get info", "run", "act"}
ScDeletePlaces == {"delete kind", "delete info", "delete base", "delete empty"}
ScSetPlaces    == {"query", "set kind", "set info", "set base", "set write"}
ScPlaces       == ScReportPlaces \cup ScDeletePlaces \cup ScSetPlaces

ScBothKinds == {"multiple", "one"}
ScLocals ==
    [pc : ScPlaces, scene : Scenes, kinds : Seq(ScBothKinds) \ {<<>>},
     conds : SUBSET ScSources, todo : SUBSET ScSources, at : ScSources \cup {""},
     seen : Seq(Scenes), then : {"idle", "query", "run"},
     keys : SUBSET ((ScBothKinds \X Scenes) \cup (ScBothKinds \X ScSources))]

ScTypes ==
    /\ scRow \in [Scenes -> {"none", "Y", "N", "deleted"}]
    /\ scDevice \in ScBothKinds
    /\ scBase \in [ScBothKinds \X ScSources -> Seq(Scenes) \cup {ScAbsent, ScNoTask}]
    /\ scInfo \in [ScBothKinds \X Scenes -> SUBSET ScSources]
    /\ scLoc \in [ScProcs -> ScLocals]
    /\ scPass \in 1..Len(ScPasses)
    /\ scList \in Seq(Scenes) /\ scFound \in Seq(Scenes) /\ scRan \in Seq(Scenes)
    /\ scOff \in SUBSET Scenes
    /\ scEdits \in 0..ScMaxEdits /\ scFaults \in 0..ScMaxFaults

(* Fields of a record of locals that may be replaced.                      *)
ScFields(f) ==
    /\ DOMAIN f \subseteq {"pc", "kinds", "conds", "todo", "at", "seen", "keys"}
    /\ "pc" \in DOMAIN f => f["pc"] \in ScPlaces
    /\ "kinds" \in DOMAIN f => f["kinds"] \in Seq(ScBothKinds) \ {<<>>}
    /\ "conds" \in DOMAIN f => f["conds"] \in SUBSET ScSources
    /\ "todo" \in DOMAIN f => f["todo"] \in SUBSET ScSources
    /\ "at" \in DOMAIN f => f["at"] \in ScSources \cup {""}
    /\ "seen" \in DOMAIN f => f["seen"] \in Seq(Scenes)
    /\ "keys" \in DOMAIN f =>
          f["keys"] \in SUBSET ((ScBothKinds \X Scenes) \cup (ScBothKinds \X ScSources))

LEMMA ScReplace ==
    ASSUME NEW r \in ScLocals, NEW f, ScFields(f)
    PROVE  /\ ScWith(f, r) \in ScLocals
           /\ ScWith(f, r).then = r.then /\ ScWith(f, r).scene = r.scene
           /\ "pc" \in DOMAIN f => ScWith(f, r).pc = f["pc"]
           /\ "pc" \notin DOMAIN f => ScWith(f, r).pc = r.pc
<1>. DEFINE g == ScWith(f, r)
<1>1. g = [x \in DOMAIN r |-> IF x \in DOMAIN f THEN f[x] ELSE r[x]]
  BY DEF ScWith
<1>2. DOMAIN r = {"pc", "scene", "kinds", "conds", "todo", "at", "seen", "then", "keys"}
  BY DEF ScLocals
<1>3. \A x \in DOMAIN r : g[x] = IF x \in DOMAIN f THEN f[x] ELSE r[x]
  BY <1>1
<1>. QED BY <1>1, <1>2, <1>3 DEF ScLocals, ScFields

LEMMA ScKindsAre ==
    /\ Range(ScKinds) = ScBothKinds /\ ScKinds \in Seq(ScBothKinds) \ {<<>>}
    /\ \A x \in ScSources : ScKindOf[x] \in ScBothKinds
<1>1. DOMAIN ScKinds = {1, 2} /\ ScKinds[1] = "multiple" /\ ScKinds[2] = "one"
  BY DEF ScKinds
<1>2. Range(ScKinds) = ScBothKinds
  BY <1>1 DEF Range, ScBothKinds
<1>3. ScKinds \in Seq(ScBothKinds) /\ ScKinds # <<>>
  BY DEF ScKinds, ScBothKinds
<1>. QED BY <1>2, <1>3, ScAssumption

LEMMA ScAtType ==
    ASSUME NEW place \in ScPlaces, NEW s \in Scenes, NEW then \in {"idle", "query", "run"}
    PROVE  /\ ScAt(place, s, then) \in ScLocals
           /\ ScAt(place, s, then).pc = place /\ ScAt(place, s, then).then = then
<1>1. <<>> \in Seq(Scenes)
  OBVIOUS
<1>. QED BY <1>1, ScKindsAre DEF ScAt, ScLocals

LEMMA ScIdleType ==
    /\ ScIdle \in ScLocals /\ ScIdle.pc = "idle" /\ ScIdle.then = "idle"
    /\ \A place \in ScPlaces :
          /\ [ScIdle EXCEPT !.pc = place] \in ScLocals /\ [ScIdle EXCEPT !.pc = place].pc = place
          /\ [ScIdle EXCEPT !.pc = place].then = "idle"
<1>1. (CHOOSE s \in Scenes : TRUE) \in Scenes
  BY ScScenesAssumption
<1>2. "idle" \in ScPlaces
  BY DEF ScPlaces, ScReportPlaces
<1>3. ScIdle \in ScLocals /\ ScIdle.pc = "idle" /\ ScIdle.then = "idle"
  BY <1>1, <1>2, ScAtType DEF ScIdle
<1>. QED BY <1>3 DEF ScLocals

LEMMA ScListType ==
    ASSUME NEW S \in SUBSET Scenes
    PROVE  SetToSeq(S) \in Seq(Scenes)
<1>1. IsFiniteSet(S)
  BY ScScenesAssumption, FS_Subset
<1>2. Cardinality(S) \in Nat /\ ExistsBijection(1..Cardinality(S), S)
  BY <1>1, FS_CardinalityType
<1>3. PICK f \in Bijection(1..Cardinality(S), S) : TRUE
  BY <1>2 DEF ExistsBijection
<1>4. f \in [1..Cardinality(S) -> S] /\ IsInjective(f)
  BY <1>3 DEF Bijection, Injection, IsInjective
<1>5. SetToSeq(S) \in [1..Cardinality(S) -> S]
  BY <1>4 DEF SetToSeq
<1>. QED BY <1>2, <1>5

(* The report: it runs scenes that were not off, and each of them once.    *)
ScReportInv ==
    /\ scLoc[Executor].pc \in ScReportPlaces \cup ScDeletePlaces
    /\ scLoc[Executor].pc \in ScDeletePlaces => scLoc[Executor].then = "run"
    /\ scLoc[Executor].pc = "idle" => scRan = <<>>
    /\ scLoc[Executor].pc = "act" =>
          scFound # <<>> /\ Head(scFound) \notin Range(scRan) /\ Head(scFound) \notin scOff
    /\ \A s \in scOff : scRow[s] = "N"
    /\ ScRunsAsSwitched

ScInv == ScTypes /\ ScReportInv

LEMMA ScInitInv == ScInit => ScInv
<1>. SUFFICES ASSUME ScInit PROVE ScInv
  OBVIOUS
<1>1. scLoc = [p \in ScProcs |-> ScIdle] /\ scLoc \in [ScProcs -> ScLocals]
  BY ScIdleType DEF ScInit
<1>2. Len(ScPasses) \in Nat /\ Len(ScPasses) # 0
  BY ScAssumption, ScScenesAssumption
<1>3. scEdits \in 0..ScMaxEdits /\ scFaults \in 0..ScMaxFaults /\ scPass \in 1..Len(ScPasses)
  BY <1>2, ScAssumption DEF ScInit
<1>4. /\ scBase \in [ScBothKinds \X ScSources -> Seq(Scenes) \cup {ScAbsent, ScNoTask}]
      /\ scInfo \in [ScBothKinds \X Scenes -> SUBSET ScSources]
  BY ScKindsAre DEF ScInit
<1>5. /\ scRow \in [Scenes -> {"none", "Y", "N", "deleted"}] /\ scDevice \in ScBothKinds
      /\ scList \in Seq(Scenes) /\ scFound \in Seq(Scenes) /\ scRan \in Seq(Scenes)
      /\ scOff \in SUBSET Scenes
  BY DEF ScInit, ScBothKinds
<1>6. ScReportInv
  <2>1. Executor \in ScProcs /\ scLoc[Executor].pc = "idle"
    BY <1>1, ScIdleType DEF ScProcs
  <2>2. scRan = <<>> /\ scOff = {}
    BY DEF ScInit
  <2>3. ScRunsAsSwitched
    BY <2>2 DEF ScRunsAsSwitched
  <2>. QED BY <2>1, <2>2, <2>3 DEF ScReportInv, ScReportPlaces, ScDeletePlaces
<1>. QED BY <1>1, <1>3, <1>4, <1>5, <1>6 DEF ScInv, ScTypes

(* A process goes on with the locals r.                                    *)
ScGoesOn(p, r) == scLoc' = [scLoc EXCEPT ![p] = r]

(* One step of an edit leaves the report alone; a delete goes on or comes  *)
(* to what follows it.                                                     *)
ScEdited(p) ==
    /\ ScTypes'
    /\ UNCHANGED <<scReport, scOff, scRow>>
    /\ scLoc[p].pc \in ScDeletePlaces \cup ScSetPlaces
    /\ \E r \in ScLocals :
          /\ ScGoesOn(p, r)
          /\ scLoc[p].pc \in ScDeletePlaces =>
                \/ r.pc \in ScDeletePlaces /\ r.then = scLoc[p].then
                \/ r.pc = scLoc[p].then

LEMMA ScLocType ==
    ASSUME ScTypes, NEW p \in ScProcs
    PROVE  /\ scLoc[p] \in ScLocals /\ scLoc[p].pc \in ScPlaces /\ scLoc[p].scene \in Scenes
           /\ scLoc[p].kinds \in Seq(ScBothKinds) \ {<<>>}
           /\ scLoc[p].conds \in SUBSET ScSources /\ scLoc[p].todo \in SUBSET ScSources
           /\ scLoc[p].seen \in Seq(Scenes) /\ scLoc[p].then \in {"idle", "query", "run"}
           /\ scLoc[p].keys \in SUBSET ((ScBothKinds \X Scenes) \cup (ScBothKinds \X ScSources))
BY DEF ScTypes, ScLocals

LEMMA ScGoType ==
    ASSUME ScTypes, NEW p \in ScProcs, NEW r \in ScLocals, ScGoesOn(p, r)
    PROVE  /\ scLoc' \in [ScProcs -> ScLocals] /\ scLoc'[p] = r
           /\ \A q \in ScProcs : q # p => scLoc'[q] = scLoc[q]
BY DEF ScTypes, ScGoesOn

(* The variables that an edit may change besides its locals.               *)
LEMMA ScEditedType ==
    ASSUME ScTypes, NEW p \in ScProcs, NEW r \in ScLocals, ScGoesOn(p, r),
           UNCHANGED <<scRow, scReport, scOff, scBounds>>,
           scDevice' \in ScBothKinds,
           scBase' \in [ScBothKinds \X ScSources -> Seq(Scenes) \cup {ScAbsent, ScNoTask}],
           scInfo' \in [ScBothKinds \X Scenes -> SUBSET ScSources]
    PROVE  ScTypes'
BY ScGoType DEF ScTypes, scReport, scBounds

LEMMA ScEndType ==
    ASSUME ScTypes, NEW p \in ScProcs, NEW end \in {"idle", "query", "run"}, ScEnd(p, end)
    PROVE  \E r \in ScLocals : ScGoesOn(p, r) /\ r.pc = end
<1>1. "query" \in ScPlaces /\ "idle" \in ScPlaces /\ "run" \in ScPlaces
  BY DEF ScPlaces, ScReportPlaces, ScSetPlaces
<1>2. CASE end = "query"
  <2>1. ScAt(end, scLoc[p].scene, "idle") \in ScLocals /\ ScAt(end, scLoc[p].scene, "idle").pc = end
    BY <1>1, <1>2, ScLocType, ScAtType
  <2>. QED BY <1>2, <2>1 DEF ScEnd, ScGo, ScGoesOn
<1>3. CASE end # "query"
  BY <1>1, <1>3, ScIdleType DEF ScEnd, ScGo, ScGoesOn
<1>. QED BY <1>2, <1>3

LEMMA ScStepType ==
    ASSUME ScTypes, NEW p \in ScProcs, NEW f, ScFields(f), ScStep(p, f)
    PROVE  \E r \in ScLocals :
              /\ ScGoesOn(p, r) /\ r.then = scLoc[p].then
              /\ "pc" \in DOMAIN f => r.pc = f["pc"]
              /\ "pc" \notin DOMAIN f => r.pc = scLoc[p].pc
BY ScLocType, ScReplace DEF ScStep, ScGo, ScGoesOn

LEMMA ScNextKindType ==
    ASSUME ScTypes, NEW p \in ScProcs, NEW again \in ScPlaces, NEW end \in {"idle", "query", "run"},
           ScNextKind(p, again, end)
    PROVE  \E r \in ScLocals :
              /\ ScGoesOn(p, r)
              /\ r.pc = end \/ (r.pc = again /\ r.then = scLoc[p].then)
<1>1. CASE Tail(scLoc[p].kinds) = <<>>
  BY <1>1, ScEndType DEF ScNextKind
<1>2. CASE Tail(scLoc[p].kinds) # <<>>
  <2>. DEFINE f == [pc |-> again, kinds |-> Tail(scLoc[p].kinds)]
  <2>1. Tail(scLoc[p].kinds) \in Seq(ScBothKinds) \ {<<>>}
    BY <1>2, ScLocType
  <2>2. ScFields(f) /\ "pc" \in DOMAIN f /\ f["pc"] = again
    BY <2>1 DEF ScFields
  <2>3. ScStep(p, f)
    BY <1>2 DEF ScNextKind
  <2>. HIDE DEF f
  <2>. QED BY <2>2, <2>3, ScStepType
<1>. QED BY <1>1, <1>2

(* A step of an edit from a place to a place.                              *)
LEMMA ScEditedBy ==
    ASSUME ScTypes, NEW p \in ScProcs, NEW r \in ScLocals, ScGoesOn(p, r),
           UNCHANGED <<scRow, scReport, scOff, scBounds>>,
           scDevice' \in ScBothKinds,
           scBase' \in [ScBothKinds \X ScSources -> Seq(Scenes) \cup {ScAbsent, ScNoTask}],
           scInfo' \in [ScBothKinds \X Scenes -> SUBSET ScSources],
           scLoc[p].pc \in ScDeletePlaces \cup ScSetPlaces,
           scLoc[p].pc \in ScDeletePlaces =>
               (r.pc \in ScDeletePlaces /\ r.then = scLoc[p].then) \/ r.pc = scLoc[p].then
    PROVE  ScEdited(p)
BY ScEditedType DEF ScEdited

LEMMA ScSetKindEdits ==
    ASSUME ScTypes, NEW p \in ScProcs, SetKind(p)
    PROVE  ScEdited(p)
<1>. DEFINE f == [pc |-> IF At(p, "delete kind") THEN "delete info" ELSE "set info"]
<1>1. /\ ScStep(p, f) /\ scDevice' = Head(scLoc[p].kinds)
      /\ UNCHANGED <<scRow, scCache, scReport, scOff, scBounds>>
      /\ scLoc[p].pc \in {"delete kind", "set kind"}
  BY DEF SetKind
<1>2. ScFields(f) /\ "pc" \in DOMAIN f
  BY DEF ScFields, ScPlaces, ScDeletePlaces, ScSetPlaces
<1>3. f["pc"] = IF scLoc[p].pc = "delete kind" THEN "delete info" ELSE "set info"
  BY DEF At
<1>. HIDE DEF f
<1>4. PICK r \in ScLocals : ScGoesOn(p, r) /\ r.then = scLoc[p].then /\ r.pc = f["pc"]
  BY <1>1, <1>2, ScStepType
<1>5. Head(scLoc[p].kinds) \in ScBothKinds
  <2>1. scLoc[p].kinds \in Seq(ScBothKinds) /\ scLoc[p].kinds # <<>>
    BY ScLocType
  <2>. QED BY <2>1
<1>. QED BY <1>1, <1>3, <1>4, <1>5, ScEditedBy DEF ScTypes, scCache, ScDeletePlaces, ScSetPlaces

LEMMA ScDeleteNextKind ==
    ASSUME ScTypes, NEW p \in ScProcs, ScNextKind(p, "delete kind", scLoc[p].then)
    PROVE  \E r \in ScLocals :
              /\ ScGoesOn(p, r)
              /\ (r.pc \in ScDeletePlaces /\ r.then = scLoc[p].then) \/ r.pc = scLoc[p].then
<1>1. scLoc[p].then \in {"idle", "query", "run"} /\ "delete kind" \in ScPlaces
  BY ScLocType DEF ScPlaces, ScDeletePlaces
<1>. DEFINE k == "delete kind"
<1>2. k \in ScPlaces /\ k \in ScDeletePlaces /\ ScNextKind(p, k, scLoc[p].then)
  BY <1>1 DEF ScDeletePlaces
<1>. HIDE DEF k
<1>3. PICK r \in ScLocals :
         ScGoesOn(p, r) /\ (r.pc = scLoc[p].then \/ (r.pc = k /\ r.then = scLoc[p].then))
  BY <1>1, <1>2, ScNextKindType
<1>. QED BY <1>2, <1>3

LEMMA ScDeleteInfoEdits ==
    ASSUME ScTypes, NEW p \in ScProcs, DeleteInfo(p)
    PROVE  ScEdited(p)
<1>. DEFINE key == <<scDevice, scLoc[p].scene>>
            f   == [pc |-> "delete base", keys |-> {key},
                    todo |-> {x \in scInfo[key] : ScKindOf[x] = scDevice}]
<1>1. /\ UNCHANGED <<scRow, scDevice, scCache, scReport, scOff, scBounds>>
      /\ scLoc[p].pc = "delete info"
  BY DEF DeleteInfo, At
<1>2. PICK r \in ScLocals :
        /\ ScGoesOn(p, r)
        /\ (r.pc \in ScDeletePlaces /\ r.then = scLoc[p].then) \/ r.pc = scLoc[p].then
  <2>1. CASE scInfo[key] = {}
    <3>1. ScNextKind(p, "delete kind", scLoc[p].then)
      BY <2>1 DEF DeleteInfo
    <3>. QED BY <3>1, ScDeleteNextKind
  <2>2. CASE scInfo[key] # {}
    <3>1. key \in ScBothKinds \X Scenes /\ scInfo[key] \in SUBSET ScSources
      BY ScLocType DEF ScTypes
    <3>2. ScFields(f) /\ "pc" \in DOMAIN f /\ f["pc"] = "delete base"
      BY <3>1 DEF ScFields, ScPlaces, ScDeletePlaces
    <3>3. ScStep(p, f)
      BY <2>2 DEF DeleteInfo
    <3>. HIDE DEF f
    <3>4. PICK r \in ScLocals : ScGoesOn(p, r) /\ r.then = scLoc[p].then /\ r.pc = f["pc"]
      BY <3>2, <3>3, ScStepType
    <3>. QED BY <3>2, <3>4 DEF ScDeletePlaces
  <2>. QED BY <2>1, <2>2
<1>. QED BY <1>1, <1>2, ScEditedBy DEF ScTypes, scCache, ScDeletePlaces

LEMMA ScDeleteBaseEdits ==
    ASSUME ScTypes, NEW p \in ScProcs, DeleteBase(p)
    PROVE  ScEdited(p)
<1>1. /\ UNCHANGED <<scRow, scDevice, scCache, scReport, scOff, scBounds>>
      /\ scLoc[p].pc = "delete base"
  BY DEF DeleteBase, At
<1>2. PICK x \in scLoc[p].todo :
        LET base == scBase[<<scDevice, x>>]
            left == RemoveFirst(base, scLoc[p].scene)
            rest == scLoc[p].todo \ {x}
        IN  ScStep(p, IF ~ScIsList(base) THEN [todo |-> rest]
                      ELSE IF left = <<>> THEN [todo |-> rest, pc |-> "delete empty", at |-> x]
                      ELSE [todo |-> rest, keys |-> scLoc[p].keys \cup {<<scDevice, x>>}])
  BY DEF DeleteBase
<1>. DEFINE rest == scLoc[p].todo \ {x}
            keys == scLoc[p].keys \cup {<<scDevice, x>>}
<1>3. /\ rest \in SUBSET ScSources /\ x \in ScSources
      /\ keys \in SUBSET ((ScBothKinds \X Scenes) \cup (ScBothKinds \X ScSources))
  BY ScLocType DEF ScTypes
<1>4. /\ ScFields([todo |-> rest]) /\ ScFields([todo |-> rest, keys |-> keys])
      /\ ScFields([todo |-> rest, pc |-> "delete empty", at |-> x])
  <2>1. ScFields([todo |-> rest])
    BY <1>3 DEF ScFields
  <2>2. ScFields([todo |-> rest, keys |-> keys])
    BY <1>3 DEF ScFields
  <2>3. ScFields([todo |-> rest, pc |-> "delete empty", at |-> x])
    BY <1>3 DEF ScFields, ScPlaces, ScDeletePlaces
  <2>. QED BY <2>1, <2>2, <2>3
<1>5. PICK r \in ScLocals :
        ScGoesOn(p, r) /\ r.pc \in ScDeletePlaces /\ r.then = scLoc[p].then
  <2>0. PICK f : /\ ScStep(p, f) /\ ScFields(f)
                 /\ "pc" \notin DOMAIN f \/ ("pc" \in DOMAIN f /\ f["pc"] = "delete empty")
    <3>1. CASE ScStep(p, [todo |-> rest])
      <4>. DEFINE f == [todo |-> rest]
      <4>1. "pc" \notin DOMAIN f
        OBVIOUS
      <4>2. ScStep(p, f) /\ ScFields(f)
        BY <1>4, <3>1
      <4>. HIDE DEF f
      <4>. QED BY <4>1, <4>2
    <3>2. CASE ScStep(p, [todo |-> rest, keys |-> keys])
      <4>. DEFINE f == [todo |-> rest, keys |-> keys]
      <4>1. "pc" \notin DOMAIN f
        OBVIOUS
      <4>2. ScStep(p, f) /\ ScFields(f)
        BY <1>4, <3>2
      <4>. HIDE DEF f
      <4>. QED BY <4>1, <4>2
    <3>3. CASE ScStep(p, [todo |-> rest, pc |-> "delete empty", at |-> x])
      <4>. DEFINE f == [todo |-> rest, pc |-> "delete empty", at |-> x]
      <4>1. "pc" \in DOMAIN f /\ f["pc"] = "delete empty"
        OBVIOUS
      <4>2. ScStep(p, f) /\ ScFields(f)
        BY <1>4, <3>3
      <4>. HIDE DEF f
      <4>. QED BY <4>1, <4>2
    <3>. QED BY <1>2, <3>1, <3>2, <3>3
  <2>1. PICK r \in ScLocals :
          /\ ScGoesOn(p, r) /\ r.then = scLoc[p].then
          /\ "pc" \in DOMAIN f => r.pc = f["pc"]
          /\ "pc" \notin DOMAIN f => r.pc = scLoc[p].pc
    BY <2>0, ScStepType
  <2>. QED BY <1>1, <2>0, <2>1 DEF ScDeletePlaces
<1>. QED BY <1>1, <1>5, ScEditedBy DEF ScTypes, scCache, ScDeletePlaces

LEMMA ScDeleteEmptyEdits ==
    ASSUME ScTypes, NEW p \in ScProcs, DeleteEmpty(p)
    PROVE  ScEdited(p)
<1>. DEFINE f == [pc |-> "delete base", at |-> ""]
<1>1. /\ UNCHANGED <<scRow, scDevice, scInfo, scReport, scOff, scBounds>>
      /\ scLoc[p].pc = "delete empty" /\ ScStep(p, f)
      /\ scBase' = [scBase EXCEPT ![<<scDevice, scLoc[p].at>>] = <<>>]
  BY DEF DeleteEmpty, At, ScPut
<1>2. ScFields(f) /\ "pc" \in DOMAIN f /\ f["pc"] = "delete base"
  BY DEF ScFields, ScPlaces, ScDeletePlaces
<1>. HIDE DEF f
<1>3. PICK r \in ScLocals : ScGoesOn(p, r) /\ r.then = scLoc[p].then /\ r.pc = f["pc"]
  BY <1>1, <1>2, ScStepType
<1>4. scBase' \in [ScBothKinds \X ScSources -> Seq(Scenes) \cup {ScAbsent, ScNoTask}]
  <2>1. <<>> \in Seq(Scenes) \cup {ScAbsent, ScNoTask}
    OBVIOUS
  <2>. QED BY <1>1, <2>1 DEF ScTypes
<1>. QED BY <1>1, <1>2, <1>3, <1>4, ScEditedBy DEF ScTypes, ScDeletePlaces

LEMMA ScDeleteKeysEdits ==
    ASSUME ScTypes, NEW p \in ScProcs, DeleteKeys(p)
    PROVE  ScEdited(p)
<1>1. /\ UNCHANGED <<scRow, scDevice, scReport, scOff, scBounds>>
      /\ scLoc[p].pc = "delete base" /\ ScNextKind(p, "delete kind", scLoc[p].then)
  BY DEF DeleteKeys, At
<1>2. PICK r \in ScLocals :
        /\ ScGoesOn(p, r)
        /\ (r.pc \in ScDeletePlaces /\ r.then = scLoc[p].then) \/ r.pc = scLoc[p].then
  BY <1>1, ScDeleteNextKind
<1>3. /\ scBase' \in [ScBothKinds \X ScSources -> Seq(Scenes) \cup {ScAbsent, ScNoTask}]
      /\ scInfo' \in [ScBothKinds \X Scenes -> SUBSET ScSources]
  BY DEF DeleteKeys, ScTypes
<1>. QED BY <1>1, <1>2, <1>3, ScEditedBy DEF ScTypes, ScDeletePlaces

LEMMA ScSetEdits ==
    ASSUME ScTypes, NEW p \in ScProcs,
           QueryConditions(p) \/ SetInfo(p) \/ SetBase(p) \/ SetWrite(p)
    PROVE  ScEdited(p)
<1>0. /\ scLoc[p] \in ScLocals /\ scLoc[p].scene \in Scenes /\ scDevice \in ScBothKinds
      /\ scBase \in [ScBothKinds \X ScSources -> Seq(Scenes) \cup {ScAbsent, ScNoTask}]
      /\ scInfo \in [ScBothKinds \X Scenes -> SUBSET ScSources]
      /\ {"set kind", "set info", "set base", "set write", "idle"} \subseteq ScPlaces
      /\ ScDeletePlaces \cap ScSetPlaces = {}
  BY ScLocType DEF ScTypes, ScPlaces, ScSetPlaces, ScReportPlaces, ScDeletePlaces
<1>1. ASSUME NEW r \in ScLocals, ScGoesOn(p, r), scLoc[p].pc \in ScSetPlaces,
             UNCHANGED <<scRow, scDevice, scReport, scOff, scBounds>>,
             scBase' \in [ScBothKinds \X ScSources -> Seq(Scenes) \cup {ScAbsent, ScNoTask}],
             scInfo' \in [ScBothKinds \X Scenes -> SUBSET ScSources]
      PROVE  ScEdited(p)
  BY <1>0, <1>1, ScEditedBy
<1>2. CASE QueryConditions(p)
  <2>. DEFINE f == [pc |-> "set kind",
                    conds |-> {x \in ScOf[scLoc[p].scene] : scRow[scLoc[p].scene] = "Y"}]
  <2>1. /\ UNCHANGED <<scRow, scDevice, scBase, scInfo, scReport, scOff, scBounds>>
        /\ scLoc[p].pc \in ScSetPlaces /\ ScStep(p, f)
    BY <1>2 DEF QueryConditions, At, ScSetPlaces, scCache
  <2>2. {x \in ScOf[scLoc[p].scene] : scRow[scLoc[p].scene] = "Y"} \in SUBSET ScSources
    BY <1>0, ScAssumption
  <2>3. ScFields(f)
    BY <1>0, <2>2 DEF ScFields
  <2>. HIDE DEF f
  <2>4. PICK r \in ScLocals : ScGoesOn(p, r)
    BY <2>1, <2>3, ScStepType
  <2>. QED BY <1>0, <1>1, <2>1, <2>4
<1>3. CASE SetInfo(p)
  <2>. DEFINE mine == {x \in scLoc[p].conds : ScKindOf[x] = scDevice}
              f    == [pc |-> "set base", todo |-> mine]
  <2>0. mine \in SUBSET ScSources
    BY ScLocType
  <2>1. /\ UNCHANGED <<scRow, scDevice, scBase, scReport, scOff, scBounds>>
        /\ scLoc[p].pc \in ScSetPlaces
        /\ scInfo' \in [ScBothKinds \X Scenes -> SUBSET ScSources]
    BY <1>0, <1>3, <2>0 DEF SetInfo, At, ScSetPlaces
  <2>2. PICK r \in ScLocals : ScGoesOn(p, r)
    <3>1. CASE mine = {}
      BY <1>0, <1>3, <3>1, ScNextKindType DEF SetInfo
    <3>2. CASE mine # {}
      <4>1. ScFields(f)
        BY <1>0, <2>0 DEF ScFields
      <4>2. ScStep(p, f)
        BY <1>3, <3>2 DEF SetInfo
      <4>. HIDE DEF f
      <4>. QED BY <4>1, <4>2, ScStepType
    <3>. QED BY <3>1, <3>2
  <2>. QED BY <1>0, <1>1, <2>1, <2>2
<1>4. CASE SetBase(p)
  <2>1. /\ UNCHANGED <<scRow, scDevice, scBase, scInfo, scReport, scOff, scBounds>>
        /\ scLoc[p].pc \in ScSetPlaces
    BY <1>4 DEF SetBase, At, ScSetPlaces, scCache
  <2>2. PICK r \in ScLocals : ScGoesOn(p, r)
    <3>1. CASE ScNextKind(p, "set kind", "idle")
      BY <1>0, <3>1, ScNextKindType
    <3>2. CASE ~ScNextKind(p, "set kind", "idle")
      <4>1. PICK x \in scLoc[p].todo :
              ScStep(p, [pc |-> "set write", at |-> x, todo |-> scLoc[p].todo \ {x},
                         seen |-> IF ScIsList(scBase[<<scDevice, x>>]) THEN scBase[<<scDevice, x>>] ELSE <<>>])
        BY <1>4, <3>2 DEF SetBase
      <4>. DEFINE s == IF ScIsList(scBase[<<scDevice, x>>]) THEN scBase[<<scDevice, x>>] ELSE <<>>
                  f == [pc |-> "set write", at |-> x, todo |-> scLoc[p].todo \ {x}, seen |-> s]
      <4>2. x \in ScSources /\ scLoc[p].todo \ {x} \in SUBSET ScSources
        BY ScLocType
      <4>3. <<scDevice, x>> \in ScBothKinds \X ScSources
        <5>1. scDevice \in ScBothKinds
          BY <1>0
        <5>. QED BY <4>2, <5>1
      <4>b. <<>> \in Seq(Scenes)
        OBVIOUS
      <4>. DEFINE k == <<scDevice, x>>
                  b == scBase[k]
      <4>4. b \in Seq(Scenes) \cup {ScAbsent, ScNoTask}
        <5>1. k \in ScBothKinds \X ScSources
          BY <4>3
        <5>2. scBase \in [ScBothKinds \X ScSources -> Seq(Scenes) \cup {ScAbsent, ScNoTask}]
          BY <1>0
        <5>. HIDE DEF k
        <5>. QED BY <5>1, <5>2
      <4>a. s \in Seq(Scenes)
        BY <4>b, <4>4 DEF ScIsList
      <4>5. ScFields(f)
        BY <1>0, <4>2, <4>a DEF ScFields
      <4>6. ScStep(p, f)
        BY <4>1
      <4>. HIDE DEF f
      <4>. QED BY <4>5, <4>6, ScStepType
    <3>. QED BY <3>1, <3>2
  <2>. QED BY <1>0, <1>1, <2>1, <2>2
<1>5. CASE SetWrite(p)
  <2>. DEFINE f == [pc |-> "set base", at |-> "", seen |-> <<>>]
              w == Append(scLoc[p].seen, scLoc[p].scene)
  <2>1. /\ UNCHANGED <<scRow, scDevice, scInfo, scReport, scOff, scBounds>>
        /\ scLoc[p].pc \in ScSetPlaces /\ ScStep(p, f)
        /\ scBase' = [scBase EXCEPT ![<<scDevice, scLoc[p].at>>] = w]
    BY <1>5 DEF SetWrite, At, ScSetPlaces, ScPut
  <2>2. w \in Seq(Scenes)
    <3>1. scLoc[p].seen \in Seq(Scenes)
      BY ScLocType
    <3>2. \A q \in Seq(Scenes), s \in Scenes : Append(q, s) \in Seq(Scenes)
      OBVIOUS
    <3>. QED BY <1>0, <3>1, <3>2
  <2>3. scBase' \in [ScBothKinds \X ScSources -> Seq(Scenes) \cup {ScAbsent, ScNoTask}]
    <3>. HIDE DEF w
    <3>. QED BY <1>0, <2>1, <2>2
  <2>4. ScFields(f)
    <3>1. <<>> \in Seq(Scenes)
      OBVIOUS
    <3>. QED BY <1>0, <3>1 DEF ScFields
  <2>. HIDE DEF f
  <2>5. PICK r \in ScLocals : ScGoesOn(p, r)
    BY <2>1, <2>4, ScStepType
  <2>. QED BY <1>0, <1>1, <2>1, <2>3, <2>5
<1>. QED BY <1>2, <1>3, <1>4, <1>5

LEMMA ScEditStepEdits ==
    ASSUME ScTypes, NEW p \in ScProcs, EditStep(p)
    PROVE  ScEdited(p)
BY ScSetKindEdits, ScDeleteInfoEdits, ScDeleteBaseEdits, ScDeleteEmptyEdits, ScDeleteKeysEdits,
   ScSetEdits DEF EditStep

LEMMA ScExecutorIs == Executor \in ScProcs /\ Executor \notin ScEdits /\ ScEdits \subseteq ScProcs
BY ScAssumption DEF ScProcs

LEMMA ScThenType ==
    ASSUME ScTypes, NEW place \in ScPlaces, ScThen(place)
    PROVE  /\ scLoc' \in [ScProcs -> ScLocals]
           /\ scLoc'[Executor].pc = place /\ scLoc'[Executor].then = "idle"
<1>. DEFINE r == [ScIdle EXCEPT !.pc = place]
<1>1. r \in ScLocals /\ r.pc = place /\ r.then = "idle"
  BY ScIdleType
<1>2. scLoc' = [scLoc EXCEPT ![Executor] = r]
  BY DEF ScThen, ScGo
<1>. HIDE DEF r
<1>. QED BY <1>1, <1>2, ScExecutorIs DEF ScTypes

LEMMA ScSourceIs == ScTypes => ScSource \in ScSources
<1>1. ScPasses \in Seq(ScSources)
  BY ScAssumption
<1>. QED BY <1>1 DEF ScTypes, ScSource

(* The report goes on, and neither what it has run nor what was off        *)
(* before it changes.                                                      *)
LEMMA ScReportGoesOn ==
    ASSUME ScReportInv, UNCHANGED <<scRow, scRan, scOff>>,
           scLoc'[Executor].pc \in (ScReportPlaces \cup ScDeletePlaces) \ {"idle", "act"},
           scLoc'[Executor].pc \in ScDeletePlaces => scLoc'[Executor].then = "run"
    PROVE  ScReportInv'
BY DEF ScReportInv, ScRunsAsSwitched

LEMMA ScPassEnds ==
    ASSUME ScInv, ScNextPass, UNCHANGED scRow
    PROVE  /\ ScReportInv'
           /\ scLoc' \in [ScProcs -> ScLocals] /\ scPass' \in 1..Len(ScPasses)
           /\ scList' \in Seq(Scenes) /\ scFound' \in Seq(Scenes) /\ scRan' \in Seq(Scenes)
           /\ scOff' \in SUBSET Scenes
<1>0. /\ "get kind" \in ScPlaces /\ "idle" \in ScPlaces /\ scPass \in 1..Len(ScPasses)
      /\ "get kind" \in ScReportPlaces /\ "get kind" \notin ScDeletePlaces
      /\ "idle" \in ScReportPlaces /\ "idle" \notin ScDeletePlaces
      /\ Len(ScPasses) \in Nat /\ scRan \in Seq(Scenes) /\ scOff \in SUBSET Scenes
      /\ ScTypes /\ ScReportInv
  BY ScAssumption DEF ScInv, ScTypes, ScPlaces, ScReportPlaces, ScDeletePlaces
<1>1. scList' \in Seq(Scenes) /\ scFound' \in Seq(Scenes)
  <2>1. scList' = <<>> /\ scFound' = <<>>
    BY DEF ScNextPass
  <2>2. <<>> \in Seq(Scenes)
    OBVIOUS
  <2>. QED BY <2>1, <2>2
<1>a. scPass \in 1..Len(ScPasses) /\ Len(ScPasses) \in Nat
  BY <1>0
<1>2. CASE scPass < Len(ScPasses)
  <2>1. scPass' = scPass + 1 /\ ScThen("get kind") /\ UNCHANGED <<scRan, scOff>>
    BY <1>2 DEF ScNextPass
  <2>2. scLoc' \in [ScProcs -> ScLocals] /\ scLoc'[Executor].pc = "get kind"
    BY <1>0, <2>1, ScThenType
  <2>3. scPass' \in 1..Len(ScPasses)
    <3>1. scPass + 1 \in 1..Len(ScPasses)
      BY <1>a, <1>2
    <3>. QED BY <2>1, <3>1
  <2>4. ScReportInv'
    BY <1>0, <2>1, <2>2, ScReportGoesOn
  <2>. QED BY <1>0, <1>1, <2>1, <2>2, <2>3, <2>4
<1>3. CASE ~(scPass < Len(ScPasses))
  <2>1. scPass' = 1 /\ ScThen("idle") /\ scRan' = <<>> /\ scOff' = {}
    BY <1>3 DEF ScNextPass
  <2>2. scLoc' \in [ScProcs -> ScLocals] /\ scLoc'[Executor].pc = "idle"
    BY <1>0, <2>1, ScThenType
  <2>3. scPass' \in 1..Len(ScPasses)
    BY <1>a, <2>1
  <2>4. ScRunsAsSwitched'
    <3>1. DOMAIN scRan' = {}
      BY <2>1
    <3>. QED BY <2>1, <3>1 DEF ScRunsAsSwitched
  <2>5. ScReportInv'
    BY <1>0, <2>1, <2>2, <2>4 DEF ScReportInv
  <2>6. scRan' \in Seq(Scenes)
    BY <2>1
  <2>. QED BY <1>1, <2>1, <2>2, <2>3, <2>5, <2>6
<1>. QED BY <1>2, <1>3

(* The executor goes to another place of the report than its ends.         *)
LEMMA ScReportMoves ==
    ASSUME ScInv, NEW place \in ScReportPlaces \ {"idle", "act"}, ScThen(place),
           UNCHANGED <<scRow, scRan, scOff, scPass, scBounds>>,
           scDevice' \in ScBothKinds,
           scBase' \in [ScBothKinds \X ScSources -> Seq(Scenes) \cup {ScAbsent, ScNoTask}],
           scInfo' \in [ScBothKinds \X Scenes -> SUBSET ScSources],
           scList' \in Seq(Scenes), scFound' \in Seq(Scenes)
    PROVE  ScInv'
<1>1. scLoc' \in [ScProcs -> ScLocals] /\ scLoc'[Executor].pc = place
  BY ScThenType DEF ScInv, ScPlaces
<1>2. place \notin ScDeletePlaces
  BY DEF ScReportPlaces, ScDeletePlaces
<1>3. ScReportInv'
  BY <1>1, <1>2, ScReportGoesOn DEF ScInv
<1>. QED BY <1>1, <1>3 DEF ScInv, ScTypes, scBounds

LEMMA ScPassEndsInv ==
    ASSUME ScInv, ScNextPass, UNCHANGED <<scRow, scDevice, scInfo, scBounds>>,
           scBase' \in [ScBothKinds \X ScSources -> Seq(Scenes) \cup {ScAbsent, ScNoTask}]
    PROVE  ScInv'
<1>1. ScReportInv'
  BY ScPassEnds
<1>2. /\ scLoc' \in [ScProcs -> ScLocals] /\ scPass' \in 1..Len(ScPasses)
      /\ scList' \in Seq(Scenes) /\ scFound' \in Seq(Scenes) /\ scRan' \in Seq(Scenes)
      /\ scOff' \in SUBSET Scenes
  BY ScPassEnds
<1>. QED BY <1>1, <1>2 DEF ScInv, ScTypes, scBounds

LEMMA ScCheckInv ==
    ASSUME ScInv, Check
    PROVE  ScInv'
<1>. DEFINE s == Head(scFound)
<1>a. /\ scFound # <<>> /\ scLoc[Executor].pc = "run"
      /\ UNCHANGED <<scRow, scDevice, scCache, scPass, scList, scRan, scOff, scBounds>>
  BY DEF Check, ScExecutes, At
<1>b. scFound \in Seq(Scenes)
  BY DEF ScInv, ScTypes
<1>c. s \in Scenes /\ Tail(scFound) \in Seq(Scenes)
  BY <1>a, <1>b
<1>0. /\ scFound \in Seq(Scenes) /\ scFound # <<>> /\ s \in Scenes /\ Tail(scFound) \in Seq(Scenes)
      /\ scLoc[Executor].pc = "run" /\ scRow \in [Scenes -> {"none", "Y", "N", "deleted"}]
      /\ UNCHANGED <<scRow, scDevice, scCache, scPass, scList, scRan, scOff, scBounds>>
  BY <1>a, <1>b, <1>c DEF ScInv, ScTypes
<1>1. ASSUME scLoc' \in [ScProcs -> ScLocals], scFound' \in Seq(Scenes), ScReportInv' PROVE ScInv'
  BY <1>0, <1>1 DEF ScInv, ScTypes, scBounds, scCache
<1>2. CASE scFound' = Tail(scFound) /\ UNCHANGED scLoc
  <2>1. ScReportInv'
    BY <1>0, <1>2, ScReportGoesOn DEF ScInv, ScReportPlaces, ScDeletePlaces
  <2>. QED BY <1>0, <1>1, <1>2, <2>1 DEF ScInv, ScTypes
<1>3. CASE scFound' = Tail(scFound) /\ ScGo(Executor, ScAt("delete kind", s, "run"))
  <2>. DEFINE r == ScAt("delete kind", s, "run")
  <2>1. r \in ScLocals /\ r.pc = "delete kind" /\ r.then = "run"
    BY <1>0, ScAtType DEF ScPlaces, ScDeletePlaces
  <2>2. scLoc' = [scLoc EXCEPT ![Executor] = r]
    BY <1>3 DEF ScGo
  <2>. HIDE DEF r
  <2>3. scLoc' \in [ScProcs -> ScLocals] /\ scLoc'[Executor] = r
    BY <2>1, <2>2, ScExecutorIs DEF ScInv, ScTypes
  <2>4. ScReportInv'
    BY <1>0, <2>1, <2>3, ScReportGoesOn DEF ScInv, ScDeletePlaces
  <2>. QED BY <1>0, <1>1, <1>3, <2>3, <2>4
<1>4. CASE s \notin Range(scRan) /\ scRow[s] # "N" /\ ScThen("act") /\ UNCHANGED scFound
  <2>1. scLoc' \in [ScProcs -> ScLocals] /\ scLoc'[Executor].pc = "act"
    BY <1>4, ScThenType DEF ScInv, ScPlaces, ScReportPlaces
  <2>2. s \notin scOff
    BY <1>4 DEF ScInv, ScReportInv
  <2>3. ScReportInv'
    BY <1>0, <1>4, <2>1, <2>2 DEF ScInv, ScReportInv, ScRunsAsSwitched, ScReportPlaces, ScDeletePlaces
  <2>. QED BY <1>0, <1>1, <1>4, <2>1, <2>3
<1>. QED BY <1>2, <1>3, <1>4 DEF Check

LEMMA ScActInv ==
    ASSUME ScInv, Act
    PROVE  ScInv'
<1>. DEFINE s == Head(scFound)
<1>0. /\ scFound \in Seq(Scenes) /\ scFound # <<>> /\ scRan \in Seq(Scenes)
      /\ s \notin Range(scRan) /\ s \notin scOff
      /\ scRan' = Append(scRan, s) /\ scFound' = Tail(scFound) /\ ScThen("run")
      /\ UNCHANGED <<scRow, scDevice, scCache, scPass, scList, scOff, scBounds>>
  BY DEF ScInv, ScTypes, ScReportInv, Act, ScExecutes, At
<1>1. s \in Scenes /\ Tail(scFound) \in Seq(Scenes)
  BY <1>0
<1>2. scLoc' \in [ScProcs -> ScLocals] /\ scLoc'[Executor].pc = "run"
  BY <1>0, ScThenType DEF ScInv, ScPlaces, ScReportPlaces
<1>. HIDE DEF s
<1>3. /\ scRan' \in Seq(Scenes) /\ DOMAIN scRan = 1..Len(scRan) /\ DOMAIN scRan' = 1..Len(scRan) + 1
      /\ \A i \in 1..Len(scRan) : scRan'[i] = scRan[i]
      /\ scRan'[Len(scRan) + 1] = s /\ Len(scRan) \in Nat
  BY <1>0, <1>1
<1>4. \A i \in DOMAIN scRan : scRan[i] # s /\ scRan[i] \notin scOff
  BY <1>0 DEF Range, ScInv, ScReportInv, ScRunsAsSwitched
<1>5. \A i, j \in DOMAIN scRan : i # j => scRan[i] # scRan[j]
  BY DEF ScInv, ScReportInv, ScRunsAsSwitched
<1>6. \A i \in DOMAIN scRan' : i \in DOMAIN scRan \/ i = Len(scRan) + 1
  BY <1>3
<1>7. \A i, j \in DOMAIN scRan' : i # j => scRan'[i] # scRan'[j]
  BY <1>3, <1>4, <1>5, <1>6
<1>8. Range(scRan') \cap scOff = {}
  BY <1>0, <1>3, <1>4, <1>6 DEF Range
<1>9. ScReportInv'
  BY <1>0, <1>2, <1>7, <1>8 DEF ScInv, ScReportInv, ScRunsAsSwitched, ScReportPlaces, ScDeletePlaces
<1>. QED BY <1>0, <1>1, <1>2, <1>3, <1>9 DEF ScInv, ScTypes, scBounds, scCache

LEMMA ScReportStepInv ==
    ASSUME ScInv, ReportStep \/ Report
    PROVE  ScInv'
<1>0. /\ ScTypes /\ ScReportInv /\ scDevice \in ScBothKinds
      /\ scBase \in [ScBothKinds \X ScSources -> Seq(Scenes) \cup {ScAbsent, ScNoTask}]
      /\ scInfo \in [ScBothKinds \X Scenes -> SUBSET ScSources]
      /\ scList \in Seq(Scenes) /\ scFound \in Seq(Scenes)
      /\ ScSource \in ScSources /\ ScKindOf[ScSource] \in ScBothKinds
  BY ScSourceIs, ScKindsAre DEF ScInv, ScTypes
<1>e. <<>> \in Seq(Scenes)
  OBVIOUS
<1>1. CASE Report
  <2>1. /\ scLoc[Executor].pc = "idle" /\ scOff' = {s \in Scenes : scRow[s] = "N"} /\ ScThen("get kind")
        /\ UNCHANGED <<scRow, scDevice, scBase, scInfo, scPass, scList, scFound, scRan, scBounds>>
    BY <1>1 DEF Report, ScExecutes, At, scCache, scReport
  <2>2. scLoc' \in [ScProcs -> ScLocals] /\ scLoc'[Executor].pc = "get kind"
    BY <1>0, <2>1, ScThenType DEF ScPlaces, ScReportPlaces
  <2>3. scRan' = <<>>
    BY <1>0, <2>1 DEF ScReportInv
  <2>4. ScRunsAsSwitched'
    <3>1. DOMAIN scRan' = {}
      BY <2>3
    <3>2. Range(scRan') = {}
      BY <3>1 DEF Range
    <3>. QED BY <3>1, <3>2 DEF ScRunsAsSwitched
  <2>5. ScReportInv'
    BY <1>0, <2>1, <2>2, <2>4 DEF ScReportInv, ScReportPlaces, ScDeletePlaces
  <2>. QED BY <1>0, <2>1, <2>2, <2>5 DEF ScInv, ScTypes, scBounds
<1>2. ASSUME NEW from, NEW place \in {"get base", "again base", "task write", "fill info"},
             ScSetDevice(from, place)
      PROVE  ScInv'
  BY <1>0, <1>2, ScReportMoves DEF ScSetDevice, scCache, scReport, ScReportPlaces
<1>3. CASE GetKind \/ AgainKind \/ TaskKind \/ FillKind
  BY <1>2, <1>3 DEF GetKind, AgainKind, TaskKind, FillKind
<1>4. CASE GetBase
  <2>. DEFINE base == scBase[<<scDevice, ScSource>>]
  <2>1. UNCHANGED <<scRow, scDevice, scBase, scInfo, scBounds>>
    BY <1>4 DEF GetBase, scCache
  <2>2. base \in Seq(Scenes) \cup {ScAbsent, ScNoTask}
    <3>. DEFINE k == <<scDevice, ScSource>>
    <3>1. k \in ScBothKinds \X ScSources
      <4>1. scDevice \in ScBothKinds /\ ScSource \in ScSources
        BY <1>0
      <4>. QED BY <4>1
    <3>2. scBase \in [ScBothKinds \X ScSources -> Seq(Scenes) \cup {ScAbsent, ScNoTask}]
      BY <1>0
    <3>. HIDE DEF k
    <3>3. scBase[k] \in Seq(Scenes) \cup {ScAbsent, ScNoTask}
      BY <3>1, <3>2
    <3>. QED BY <3>3 DEF k
  <2>. HIDE DEF base
  <2>3. CASE ScIsList(base) /\ scList' = base /\ scFound' = <<>> /\ ScThen("get info")
                 /\ UNCHANGED <<scPass, scRan, scOff>>
    <3>1. scList' \in Seq(Scenes) /\ scFound' \in Seq(Scenes)
      BY <1>e, <2>2, <2>3 DEF ScIsList
    <3>. QED BY <1>0, <2>1, <2>3, <3>1, ScReportMoves DEF ScReportPlaces
  <2>4. CASE ScThen("load") /\ UNCHANGED <<scReport, scOff>>
    BY <1>0, <2>1, <2>4, ScReportMoves DEF ScReportPlaces, scReport
  <2>5. CASE ScNextPass
    BY <1>0, <2>1, <2>5, ScPassEndsInv
  <2>. QED BY <1>4, <2>3, <2>4, <2>5 DEF GetBase, base
<1>5. CASE GetInfo
  <2>1. UNCHANGED <<scRow, scDevice, scBase, scInfo, scPass, scRan, scOff, scBounds>>
    BY <1>5 DEF GetInfo, scCache
  <2>2. CASE scList = <<>>
    BY <1>0, <1>5, <2>1, <2>2, ScReportMoves DEF GetInfo, ScReportPlaces
  <2>3. CASE scList # <<>>
    <3>1. Head(scList) \in Scenes /\ Tail(scList) \in Seq(Scenes)
      BY <1>0, <2>3
    <3>2. \A q \in Seq(Scenes), s \in Scenes : Append(q, s) \in Seq(Scenes)
      OBVIOUS
    <3>3. scList' = Tail(scList) /\ UNCHANGED scLoc
            /\ (scFound' = scFound \/ scFound' = Append(scFound, Head(scList)))
      BY <1>5, <2>3 DEF GetInfo
    <3>4. scList' \in Seq(Scenes) /\ scFound' \in Seq(Scenes)
      BY <1>0, <3>1, <3>2, <3>3
    <3>5. scLoc[Executor].pc = "get info"
      BY <1>5 DEF GetInfo, ScExecutes, At
    <3>6. ScReportInv'
      BY <1>0, <2>1, <3>3, <3>5, ScReportGoesOn DEF ScReportPlaces, ScDeletePlaces
    <3>. QED BY <1>0, <2>1, <3>3, <3>4, <3>6 DEF ScInv, ScTypes, scBounds
  <2>. QED BY <2>2, <2>3
<1>6. CASE Load
  <2>. DEFINE scenes == {s \in Scenes : scRow[s] = "Y" /\ ScSource \in ScOf[s]}
  <2>1. SetToSeq(scenes) \in Seq(Scenes)
    BY ScListType
  <2>2. /\ scList' = SetToSeq(scenes) /\ scFound' = scFound
        /\ ScThen("task kind") \/ ScThen("fill kind")
        /\ UNCHANGED <<scRow, scDevice, scBase, scInfo, scPass, scRan, scOff, scBounds>>
    BY <1>6 DEF Load, scCache
  <2>. HIDE DEF scenes
  <2>. QED BY <1>0, <2>1, <2>2, ScReportMoves DEF ScReportPlaces
<1>7. CASE TaskWrite
  <2>1. /\ scBase' = [scBase EXCEPT ![<<scDevice, ScSource>>] = ScNoTask]
        /\ ScNextPass /\ UNCHANGED <<scRow, scDevice, scInfo, scBounds>>
    BY <1>7 DEF TaskWrite, ScPut
  <2>2. scBase' \in [ScBothKinds \X ScSources -> Seq(Scenes) \cup {ScAbsent, ScNoTask}]
    BY <1>0, <2>1
  <2>. QED BY <2>1, <2>2, ScPassEndsInv
<1>8. CASE FillInfo
  <2>1. /\ ScThen("fill base") /\ UNCHANGED <<scRow, scDevice, scBase, scReport, scOff, scBounds>>
        /\ scInfo' = [key \in DOMAIN scInfo |->
               IF key[1] = scDevice /\ key[2] \in Range(scList) THEN {ScSource} ELSE scInfo[key]]
    BY <1>8 DEF FillInfo
  <2>2. scInfo' \in [ScBothKinds \X Scenes -> SUBSET ScSources]
    BY <1>0, <2>1
  <2>. QED BY <1>0, <2>1, <2>2, ScReportMoves DEF ScReportPlaces, scReport
<1>9. CASE FillBase
  <2>1. /\ scBase' = [scBase EXCEPT ![<<scDevice, ScSource>>] = scList]
        /\ ScThen("again kind") /\ UNCHANGED <<scRow, scDevice, scInfo, scReport, scOff, scBounds>>
    BY <1>9 DEF FillBase, ScPut
  <2>2. scBase' \in [ScBothKinds \X ScSources -> Seq(Scenes) \cup {ScAbsent, ScNoTask}]
    BY <1>0, <2>1
  <2>. QED BY <1>0, <2>1, <2>2, ScReportMoves DEF ScReportPlaces, scReport
<1>10. CASE EndPass
  <2>1. ScNextPass /\ UNCHANGED <<scRow, scDevice, scBase, scInfo, scBounds>>
    BY <1>10 DEF EndPass, scCache
  <2>. QED BY <1>0, <2>1, ScPassEndsInv
<1>. QED BY <1>1, <1>3, <1>4, <1>5, <1>6, <1>7, <1>8, <1>9, <1>10, ScCheckInv, ScActInv
        DEF ReportStep

LEMMA ScEditStepInv ==
    ASSUME ScInv, NEW p \in ScProcs, EditStep(p)
    PROVE  ScInv'
<1>1. ScEdited(p) /\ ScTypes'
  BY ScEditStepEdits DEF ScInv, ScEdited
<1>2. PICK r \in ScLocals :
        /\ scLoc' = [scLoc EXCEPT ![p] = r]
        /\ scLoc[p].pc \in ScDeletePlaces =>
              (r.pc \in ScDeletePlaces /\ r.then = scLoc[p].then) \/ r.pc = scLoc[p].then
  BY <1>1 DEF ScEdited, ScGoesOn
<1>3. UNCHANGED <<scRow, scFound, scRan, scOff>> /\ scLoc[p].pc \in ScDeletePlaces \cup ScSetPlaces
  BY <1>1 DEF ScEdited, scReport
<1>4. CASE p # Executor
  <2>1. scLoc'[Executor] = scLoc[Executor]
    BY <1>2, <1>4, ScExecutorIs DEF ScInv, ScTypes
  <2>. QED BY <1>1, <1>3, <2>1 DEF ScInv, ScReportInv, ScRunsAsSwitched
<1>5. CASE p = Executor
  <2>1. scLoc'[Executor] = r
    BY <1>2, <1>5, ScExecutorIs DEF ScInv, ScTypes
  <2>2. scLoc[Executor].pc \in ScDeletePlaces /\ scLoc[Executor].then = "run"
    BY <1>3, <1>5 DEF ScInv, ScReportInv, ScReportPlaces, ScDeletePlaces, ScSetPlaces
  <2>3. (r.pc \in ScDeletePlaces /\ r.then = "run") \/ r.pc = "run"
    BY <1>2, <1>5, <2>2
  <2>4. ScReportInv'
    BY <1>3, <2>1, <2>3, ScReportGoesOn DEF ScInv, ScReportPlaces, ScDeletePlaces
  <2>. QED BY <1>1, <2>4 DEF ScInv
<1>. QED BY <1>4, <1>5

LEMMA ScOneMore == \A max \in Nat : \A n \in 0..max : n < max => n + 1 \in 0..max
OBVIOUS

LEMMA ScEditInv ==
    ASSUME ScInv, NEW p \in ScEdits, NEW s \in Scenes, NEW from, NEW to \in {"Y", "N", "deleted"},
           NEW first \in {"idle", "query", "delete kind"}, NEW then \in {"idle", "query"},
           ScEdit(p, s, from, to, first, then)
    PROVE  ScInv'
<1>0. /\ scRow \in [Scenes -> {"none", "Y", "N", "deleted"}] /\ p \in ScProcs /\ p # Executor
      /\ scEdits \in 0..ScMaxEdits /\ ScMaxEdits \in Nat /\ scOff \in SUBSET Scenes
      /\ scLoc \in [ScProcs -> ScLocals]
  BY ScExecutorIs, ScAssumption DEF ScInv, ScTypes
<1>1. /\ scEdits < ScMaxEdits /\ scEdits' = scEdits + 1 /\ scRow' = [scRow EXCEPT ![s] = to]
      /\ scOff' = IF to = "N" THEN scOff ELSE scOff \ {s}
      /\ UNCHANGED <<scDevice, scBase, scInfo, scPass, scList, scFound, scRan, scFaults>>
  BY DEF ScEdit, scCache, scReport
<1>2. scEdits' \in 0..ScMaxEdits
  <2>1. ScMaxEdits \in Nat /\ scEdits \in 0..ScMaxEdits /\ scEdits < ScMaxEdits
    BY Zenon, <1>0, <1>1
  <2>2. scEdits + 1 \in 0..ScMaxEdits
    BY <2>1, ScOneMore
  <2>. QED BY Zenon, <1>1, <2>2
<1>3. scRow' \in [Scenes -> {"none", "Y", "N", "deleted"}] /\ scOff' \in SUBSET Scenes
  BY <1>0, <1>1
<1>4. PICK r \in ScLocals : scLoc' = [scLoc EXCEPT ![p] = r]
  <2>1. first \in ScPlaces
    BY DEF ScPlaces, ScReportPlaces, ScSetPlaces, ScDeletePlaces
  <2>2. ScIdle \in ScLocals /\ ScAt(first, s, then) \in ScLocals
    BY <2>1, ScIdleType, ScAtType
  <2>. QED BY <2>2 DEF ScEdit, ScGo
<1>5. scLoc' \in [ScProcs -> ScLocals] /\ scLoc'[Executor] = scLoc[Executor]
  BY <1>0, <1>4, ScExecutorIs
<1>6. \A x \in scOff' : x \in scOff /\ scRow'[x] = "N"
  BY <1>0, <1>1 DEF ScInv, ScReportInv
<1>7. ScReportInv'
  BY <1>1, <1>5, <1>6 DEF ScInv, ScReportInv, ScRunsAsSwitched
<1>. QED BY <1>1, <1>2, <1>3, <1>5, <1>7 DEF ScInv, ScTypes

LEMMA ScFailsInv ==
    ASSUME ScInv, NEW p \in ScProcs, ScFails(p)
    PROVE  ScInv'
<1>0. scFaults \in 0..ScMaxFaults /\ ScMaxFaults \in Nat /\ ScTypes /\ ScReportInv
  BY ScAssumption DEF ScInv, ScTypes
<1>1. /\ scFaults < ScMaxFaults /\ scFaults' = scFaults + 1
      /\ UNCHANGED <<scRow, scDevice, scBase, scInfo, scEdits>>
  BY DEF ScFails, scCache
<1>2. scFaults' \in 0..ScMaxFaults
  BY <1>0, <1>1
<1>3. CASE p = Executor /\ ScNextPass
  <2>1. /\ ScReportInv'
        /\ scLoc' \in [ScProcs -> ScLocals] /\ scPass' \in 1..Len(ScPasses)
        /\ scList' \in Seq(Scenes) /\ scFound' \in Seq(Scenes) /\ scRan' \in Seq(Scenes)
        /\ scOff' \in SUBSET Scenes
    BY <1>1, <1>3, ScPassEnds
  <2>. QED BY <1>1, <1>2, <2>1 DEF ScInv, ScTypes
<1>4. CASE scLoc[p].pc \in ScDeletePlaces \cup ScSetPlaces /\ UNCHANGED <<scReport, scOff>>
           /\ \E end \in {"idle", "query", "run"} :
                 ScEnd(p, end) /\ (scLoc[p].pc \in ScDeletePlaces => end = scLoc[p].then)
  <2>1. PICK end \in {"idle", "query", "run"} :
           ScEnd(p, end) /\ (scLoc[p].pc \in ScDeletePlaces => end = scLoc[p].then)
    BY <1>4
  <2>2. PICK r \in ScLocals : scLoc' = [scLoc EXCEPT ![p] = r] /\ r.pc = end
    BY <1>0, <2>1, ScEndType DEF ScGoesOn
  <2>3. scLoc' \in [ScProcs -> ScLocals] /\ scLoc'[p] = r
    BY <1>0, <2>2 DEF ScTypes
  <2>4. ScTypes'
    BY <1>0, <1>1, <1>2, <1>4, <2>3 DEF ScTypes, scReport
  <2>5. CASE p # Executor
    <3>1. scLoc'[Executor] = scLoc[Executor]
      BY <1>0, <2>2, <2>5, ScExecutorIs DEF ScTypes
    <3>. QED BY <1>0, <1>1, <1>4, <2>4, <3>1 DEF ScInv, ScReportInv, ScRunsAsSwitched, scReport
  <2>6. CASE p = Executor
    <3>1. scLoc[Executor].pc \in ScDeletePlaces /\ scLoc[Executor].then = "run"
      BY <1>0, <1>4, <2>6 DEF ScReportInv, ScReportPlaces, ScDeletePlaces, ScSetPlaces
    <3>2. scLoc'[Executor].pc = "run"
      BY <2>1, <2>2, <2>3, <2>6, <3>1
    <3>3. ScReportInv'
      BY <1>0, <1>1, <1>4, <3>2, ScReportGoesOn DEF ScReportPlaces, ScDeletePlaces, scReport
    <3>. QED BY <2>4, <3>3 DEF ScInv
  <2>. QED BY <2>5, <2>6
<1>5. scLoc[p].then \in {"idle", "query", "run"}
  BY <1>0, ScLocType
<1>6. CASE (scLoc[p].pc \in {"delete info", "delete empty"} \/ scLoc[p].pc = "delete base")
           /\ ScEnd(p, scLoc[p].then) /\ UNCHANGED <<scReport, scOff>>
  BY <1>4, <1>5, <1>6 DEF ScDeletePlaces
<1>7. CASE scLoc[p].pc \in {"query", "set info", "set write"}
           /\ ScEnd(p, "idle") /\ UNCHANGED <<scReport, scOff>>
  BY <1>4, <1>7 DEF ScDeletePlaces, ScSetPlaces
<1>. QED BY <1>3, <1>6, <1>7 DEF ScFails, At

LEMMA ScOthersInv ==
    ASSUME ScInv,
           \/ ScCrash
           \/ \E key \in DOMAIN scBase : ScBaseExpires(key)
           \/ \E key \in DOMAIN scInfo : ScInfoExpires(key)
           \/ UNCHANGED scVars
    PROVE  ScInv'
<1>0. /\ scFaults \in 0..ScMaxFaults /\ ScMaxFaults \in Nat /\ ScTypes /\ ScReportInv
      /\ scBase \in [ScBothKinds \X ScSources -> Seq(Scenes) \cup {ScAbsent, ScNoTask}]
      /\ scInfo \in [ScBothKinds \X Scenes -> SUBSET ScSources]
  BY ScAssumption DEF ScInv, ScTypes
<1>1. CASE ScCrash
  <2>1. /\ scFaults < ScMaxFaults /\ scFaults' = scFaults + 1
        /\ scLoc' = [q \in ScProcs |-> ScIdle] /\ scDevice' = "one" /\ scPass' = 1
        /\ scList' = <<>> /\ scFound' = <<>> /\ scRan' = <<>> /\ scOff' = {}
        /\ UNCHANGED <<scRow, scBase, scInfo, scEdits>>
    BY <1>1 DEF ScCrash, scCache
  <2>2. scFaults' \in 0..ScMaxFaults
    BY <1>0, <2>1
  <2>3. scLoc' \in [ScProcs -> ScLocals] /\ scLoc'[Executor].pc = "idle"
    BY <2>1, ScIdleType, ScExecutorIs
  <2>4. scPass' \in 1..Len(ScPasses)
    <3>1. Len(ScPasses) \in Nat /\ Len(ScPasses) # 0
      BY ScAssumption, ScScenesAssumption
    <3>. QED BY <2>1, <3>1
  <2>5. scList' \in Seq(Scenes) /\ scFound' \in Seq(Scenes) /\ scRan' \in Seq(Scenes)
    BY <2>1
  <2>6. ScRunsAsSwitched'
    <3>1. DOMAIN scRan' = {}
      BY <2>1
    <3>. QED BY <2>1, <3>1 DEF ScRunsAsSwitched
  <2>7. ScReportInv'
    BY <2>1, <2>3, <2>6 DEF ScReportInv, ScReportPlaces, ScDeletePlaces
  <2>. QED BY <1>0, <2>1, <2>2, <2>3, <2>4, <2>5, <2>7 DEF ScInv, ScTypes, ScBothKinds
<1>2. ASSUME NEW key, ScBaseExpires(key) PROVE ScInv'
  <2>1. scBase' \in [ScBothKinds \X ScSources -> Seq(Scenes) \cup {ScAbsent, ScNoTask}]
    BY <1>0, <1>2 DEF ScBaseExpires, ScPut
  <2>2. UNCHANGED <<scRow, scDevice, scInfo, scLoc, scReport, scOff, scBounds>>
    BY <1>2 DEF ScBaseExpires
  <2>. QED BY <1>0, <2>1, <2>2
       DEF ScInv, ScTypes, ScReportInv, ScRunsAsSwitched, scReport, scBounds
<1>3. ASSUME NEW key, ScInfoExpires(key) PROVE ScInv'
  <2>1. scInfo' \in [ScBothKinds \X Scenes -> SUBSET ScSources]
    BY <1>0, <1>3 DEF ScInfoExpires
  <2>2. UNCHANGED <<scRow, scDevice, scBase, scLoc, scReport, scOff, scBounds>>
    BY <1>3 DEF ScInfoExpires
  <2>. QED BY <1>0, <2>1, <2>2
       DEF ScInv, ScTypes, ScReportInv, ScRunsAsSwitched, scReport, scBounds
<1>4. CASE UNCHANGED scVars
  BY <1>0, <1>4
     DEF ScInv, ScTypes, ScReportInv, ScRunsAsSwitched, scVars, scCache, scReport, scBounds
<1>. QED BY <1>1, <1>2, <1>3, <1>4

LEMMA ScInvHolds == ScSpec => []ScInv
<1>1. ScInv /\ [ScNext]_scVars => ScInv'
  <2>. SUFFICES ASSUME ScInv, [ScNext]_scVars PROVE ScInv'
    OBVIOUS
  <2>1. ASSUME NEW p \in ScEdits, NEW s \in Scenes,
               \/ CreateSceneAutomation(p, s) \/ SwitchSceneAutomation(p, s)
               \/ UpdateSceneAutomation(p, s) \/ DeleteSceneAutomation(p, s)
        PROVE  ScInv'
    BY <2>1, ScEditInv DEF CreateSceneAutomation, SwitchSceneAutomation, UpdateSceneAutomation,
       DeleteSceneAutomation
  <2>2. CASE ReportStep \/ Report
    BY <2>2, ScReportStepInv
  <2>3. ASSUME NEW p \in ScProcs, EditStep(p) \/ ScFails(p) PROVE ScInv'
    BY <2>3, ScEditStepInv, ScFailsInv
  <2>4. CASE \/ ScCrash
             \/ \E key \in DOMAIN scBase : ScBaseExpires(key)
             \/ \E key \in DOMAIN scInfo : ScInfoExpires(key)
             \/ UNCHANGED scVars
    BY <2>4, ScOthersInv
  <2>. QED BY <2>1, <2>2, <2>3, <2>4 DEF ScNext
<1>. QED BY <1>1, ScInitInv, PTL DEF ScSpec

(* Whatever edits, failures, restarts and expiring keys have made of the   *)
(* lists, a report runs no scene that was off before it, and none twice.   *)
THEOREM ReportsRunAsSwitched == ScSpec => []ScRunsAsSwitched
<1>1. ScInv => ScRunsAsSwitched
  BY DEF ScInv, ScReportInv
<1>. QED BY <1>1, ScInvHolds, PTL

(* The cache, the lists and what ran keep their kinds.                      *)
THEOREM ScTypeCorrect == ScSpec => []ScTypeOK
<1>1. ScInv => ScTypeOK
  <2>. SUFFICES ASSUME ScInv PROVE ScTypeOK
    OBVIOUS
  <2>1. ASSUME NEW key \in ScBothKinds \X ScSources, ScIsList(scBase[key])
        PROVE  Range(scBase[key]) \subseteq Scenes
    <3>1. scBase[key] \in Seq(Scenes)
      BY <2>1 DEF ScInv, ScTypes, ScIsList
    <3>. QED BY <3>1 DEF Range
  <2>2. Range(scList) \cup Range(scFound) \cup Range(scRan) \cup scOff \subseteq Scenes
    BY DEF ScInv, ScTypes, Range
  <2>. QED BY <2>1, <2>2, ScKindsAre DEF ScInv, ScTypes, ScTypeOK
<1>. QED BY <1>1, ScInvHolds, PTL

-----------------------------------------------------------------------------
(* Alarms: what the history says of a group.                               *)

(* Where a report checks groups, and where it acts.                        *)
AlEarly == {"check", "recover", "forget"}
AlActs  == {"action", "alarm", "mark"}

AlRuns == [at : {"idle"} \cup AlEarly \cup AlActs, device : AlDevices \cup {AlIdle.device},
           todo : SUBSET AlGroups, held : BOOLEAN, group : AlGroups \cup {AlIdle.group},
           actions : SUBSET AlConfigs, config : AlConfigs \cup {"none"}, left : Seq(AlGroups),
           ok : BOOLEAN, reason : {"none", "exists", "failed"}, failed : BOOLEAN, spoilt : BOOLEAN]
AlKeys == [there : BOOLEAN, devices : SUBSET AlDevices, configs : SUBSET AlConfigs]
AlTimers == [busy : BOOLEAN, group : AlGroups \cup {"none"}, config : AlConfigs \cup {"none"},
             devices : SUBSET AlDevices]

(* Every variable has its kind; a report is at a group of the scene.       *)
AlTyped ==
    /\ alGroup \in [AlGroups -> AlKeys]
    /\ alScene \in Seq(AlGroups)
    /\ alMarks \in [AlConfigs -> [AlDevices -> SUBSET AlGroups]]
    /\ alRaised \in [AlGroups -> [AlConfigs -> SUBSET AlDevices]]
    /\ alSays \in [AlGroups -> SUBSET AlDevices]
    /\ alDoubt \in [AlGroups -> {"none", "check", "cycle", "held"}]
    /\ alTimer \in AlTimers
    /\ alTimer # AlNobody => alTimer.group \in AlGroups /\ alTimer.config \in AlConfigs
    /\ alRun \in AlRuns
    /\ alRun.at \in {"recover", "forget"} => alRun.group \in AlGroups
    /\ alRun.at = "alarm" => alRun.config \in AlConfigs

-----------------------------------------------------------------------------
(* Lists of groups without repetitions.                                    *)

AlOnce(list) == \A i, j \in 1..Len(list) : list[i] = list[j] => i = j

LEMMA AlNoList == <<>> \in Seq(AlGroups) /\ Range(<<>>) = {} /\ AlOnce(<<>>) /\ Len(<<>>) = 0
BY DEF Range, AlOnce

LEMMA AlListIs ==
    ASSUME NEW list \in Seq(AlGroups)
    PROVE  /\ Len(list) \in Nat /\ DOMAIN list = 1..Len(list)
           /\ Range(list) = {list[i] : i \in 1..Len(list)} /\ Range(list) \subseteq AlGroups
           /\ (list = <<>>) <=> (Range(list) = {})
<1>1. Len(list) \in Nat /\ DOMAIN list = 1..Len(list) /\ \A i \in 1..Len(list) : list[i] \in AlGroups
  OBVIOUS
<1>2. Range(list) = {list[i] : i \in 1..Len(list)}
  BY <1>1 DEF Range
<1>3. list = <<>> => Range(list) = {}
  BY <1>1, <1>2
<1>4. list # <<>> => Range(list) # {}
  <2>1. list # <<>> => 1 \in 1..Len(list)
    OBVIOUS
  <2>. QED BY <1>2, <2>1
<1>. QED BY <1>1, <1>2, <1>3, <1>4

LEMMA AlRest ==
    ASSUME NEW list \in Seq(AlGroups), list # <<>>
    PROVE  /\ Head(list) \in AlGroups /\ Tail(list) \in Seq(AlGroups)
           /\ Range(list) = {Head(list)} \cup Range(Tail(list))
<1>1. /\ Head(list) = list[1] /\ Head(list) \in AlGroups /\ Tail(list) \in Seq(AlGroups)
      /\ Len(list) \in Nat /\ Len(list) >= 1 /\ Len(Tail(list)) = Len(list) - 1
      /\ \A i \in 1..Len(list)-1 : Tail(list)[i] = list[i + 1]
  OBVIOUS
<1>. DEFINE rest == Tail(list)
<1>a. rest \in Seq(AlGroups) /\ Len(rest) = Len(list) - 1 /\ \A i \in 1..Len(list)-1 : rest[i] = list[i + 1]
  BY <1>1
<1>b. Range(rest) = {rest[i] : i \in 1..Len(rest)} /\ Range(list) = {list[i] : i \in 1..Len(list)}
  BY <1>a, AlListIs
<1>. HIDE DEF rest
<1>2. \A x \in Range(list) : x = Head(list) \/ x \in Range(rest)
  <2>. SUFFICES ASSUME NEW i \in 1..Len(list), i # 1 PROVE list[i] \in Range(rest)
    BY <1>1, <1>b
  <2>1. i - 1 \in 1..Len(rest) /\ rest[i - 1] = list[i]
    BY <1>1, <1>a
  <2>. QED BY <1>b, <2>1
<1>3. \A x \in Range(rest) : x \in Range(list)
  <2>. SUFFICES ASSUME NEW i \in 1..Len(rest) PROVE rest[i] \in Range(list)
    BY <1>b
  <2>1. i + 1 \in 1..Len(list) /\ rest[i] = list[i + 1]
    BY <1>1, <1>a
  <2>. QED BY <1>b, <2>1
<1>4. Head(list) \in Range(list)
  BY <1>1, <1>b
<1>. QED BY <1>1, <1>2, <1>3, <1>4 DEF rest

LEMMA AlMore ==
    ASSUME NEW list \in Seq(AlGroups), NEW g \in AlGroups, g \notin Range(list), AlOnce(list)
    PROVE  /\ Append(list, g) \in Seq(AlGroups) /\ AlOnce(Append(list, g))
           /\ Range(Append(list, g)) = Range(list) \cup {g}
<1>. DEFINE more == Append(list, g)
<1>1. /\ more \in Seq(AlGroups) /\ Len(list) \in Nat /\ Len(more) = Len(list) + 1
      /\ more[Len(list) + 1] = g /\ \A i \in 1..Len(list) : more[i] = list[i]
  OBVIOUS
<1>. HIDE DEF more
<1>2. Range(more) = Range(list) \cup {g}
  <2>1. \A i \in 1..Len(more) : more[i] = g \/ more[i] \in Range(list)
    <3>. SUFFICES ASSUME NEW i \in 1..Len(more), i # Len(list) + 1 PROVE more[i] \in Range(list)
      BY <1>1
    <3>1. i \in 1..Len(list)
      BY <1>1
    <3>. QED BY <1>1, <3>1, AlListIs
  <2>2. \A i \in 1..Len(list) : i \in 1..Len(more) /\ more[i] = list[i]
    BY <1>1
  <2>3. Len(list) + 1 \in 1..Len(more)
    BY <1>1
  <2>. QED BY <1>1, <2>1, <2>2, <2>3, AlListIs
<1>3. AlOnce(more)
  <2>. SUFFICES ASSUME NEW i \in 1..Len(more), NEW j \in 1..Len(more), more[i] = more[j] PROVE i = j
    BY DEF AlOnce
  <2>1. \A k \in 1..Len(list) : more[k] # g
    BY <1>1, AlListIs
  <2>2. \A k \in 1..Len(more) : k \in 1..Len(list) \/ k = Len(list) + 1
    BY <1>1
  <2>3. CASE i \in 1..Len(list) /\ j \in 1..Len(list)
    BY <1>1, <2>3 DEF AlOnce
  <2>. QED BY <1>1, <2>1, <2>2, <2>3
<1>. QED BY <1>1, <1>2, <1>3 DEF more

LEMMA AlLess ==
    ASSUME NEW list \in Seq(AlGroups), NEW g \in AlGroups, AlOnce(list)
    PROVE  /\ AlWithout(list, g) \in Seq(AlGroups) /\ AlOnce(AlWithout(list, g))
           /\ Range(AlWithout(list, g)) = Range(list) \ {g}
<1>1. CASE g \notin Range(list)
  BY <1>1 DEF AlWithout
<1>2. CASE g \in Range(list)
  <2>. DEFINE p == CHOOSE i \in DOMAIN list : list[i] = g
              less == AlWithout(list, g)
  <2>1. p \in 1..Len(list) /\ list[p] = g /\ Len(list) \in Nat
    BY <1>2, AlListIs
  <2>2. less = SubSeq(list, 1, p - 1) \o SubSeq(list, p + 1, Len(list))
    BY <1>2 DEF AlWithout, RemoveAt
  <2>. HIDE DEF p, less
  <2>3. /\ SubSeq(list, 1, p - 1) \in Seq(AlGroups) /\ Len(SubSeq(list, 1, p - 1)) = p - 1
        /\ \A i \in 1..p-1 : SubSeq(list, 1, p - 1)[i] = list[i]
    BY <2>1
  <2>4. /\ SubSeq(list, p + 1, Len(list)) \in Seq(AlGroups)
        /\ Len(SubSeq(list, p + 1, Len(list))) = Len(list) - p
        /\ \A i \in 1..Len(list)-p : SubSeq(list, p + 1, Len(list))[i] = list[p + i]
    BY <2>1
  <2>5. /\ less \in Seq(AlGroups) /\ Len(less) = Len(list) - 1
        /\ \A i \in 1..Len(list)-1 : less[i] = IF i < p THEN list[i] ELSE list[i + 1]
    <3>. DEFINE front == SubSeq(list, 1, p - 1)
                back  == SubSeq(list, p + 1, Len(list))
    <3>1. /\ front \in Seq(AlGroups) /\ Len(front) = p - 1 /\ back \in Seq(AlGroups)
          /\ Len(back) = Len(list) - p /\ less = front \o back
      BY <2>2, <2>3, <2>4
    <3>2. /\ \A i \in 1..p-1 : front[i] = list[i]
          /\ \A i \in 1..Len(list)-p : back[i] = list[p + i]
      BY <2>3, <2>4
    <3>. HIDE DEF front, back
    <3>3. /\ less \in Seq(AlGroups) /\ Len(less) = Len(front) + Len(back)
          /\ \A i \in 1..Len(front) : less[i] = front[i]
          /\ \A i \in 1..Len(back) : less[Len(front) + i] = back[i]
      <4>1. /\ front \o back \in Seq(AlGroups) /\ Len(front \o back) = Len(front) + Len(back)
            /\ \A i \in 1..Len(front) + Len(back) :
                  (front \o back)[i] = IF i <= Len(front) THEN front[i] ELSE back[i - Len(front)]
        <5>1. front \in Seq(AlGroups) /\ back \in Seq(AlGroups)
          BY <3>1
        <5>. QED BY ONLY <5>1, ConcatProperties, Zenon
      <4>0. Len(front) \in Nat /\ Len(back) \in Nat
        BY <3>1, LenProperties
      <4>2. \A i \in 1..Len(front) : i \in 1..Len(front) + Len(back) /\ i <= Len(front)
        BY <4>0
      <4>3. \A i \in 1..Len(back) : /\ Len(front) + i \in 1..Len(front) + Len(back) /\ ~(Len(front) + i <= Len(front))
                                   /\ (Len(front) + i) - Len(front) = i
        BY <4>0
      <4>. QED BY <3>1, <4>1, <4>2, <4>3
    <3>4. Len(less) = Len(list) - 1
      BY <2>1, <3>1, <3>3
    <3>5. ASSUME NEW i \in 1..Len(list)-1
          PROVE  less[i] = IF i < p THEN list[i] ELSE list[i + 1]
      <4>1. CASE i < p
        <5>1. i \in 1..p-1
          BY <2>1, <4>1
        <5>. QED BY <3>1, <3>2, <3>3, <4>1, <5>1
      <4>2. CASE ~(i < p)
        <5>1. i - p + 1 \in 1..Len(list)-p /\ Len(front) + (i - p + 1) = i /\ p + (i - p + 1) = i + 1
          BY <2>1, <3>1, <4>2
        <5>. QED BY <3>1, <3>2, <3>3, <4>2, <5>1
      <4>. QED BY <4>1, <4>2
    <3>. QED BY <3>3, <3>4, <3>5
  <2>10. ASSUME NEW i \in 1..Len(less)
        PROVE  \E k \in 1..Len(list) : less[i] = list[k] /\ k = IF i < p THEN i ELSE i + 1
    <3>0. i \in 1..Len(list)-1 /\ i \in 1..Len(list) /\ i + 1 \in 1..Len(list)
      BY <2>1, <2>5
    <3>1. CASE i < p
      BY <2>5, <3>0, <3>1
    <3>2. CASE ~(i < p)
      BY <2>5, <3>0, <3>2
    <3>. QED BY <3>1, <3>2
  <2>6. AlOnce(less)
    <3>. SUFFICES ASSUME NEW i \in 1..Len(less), NEW j \in 1..Len(less), less[i] = less[j] PROVE i = j
      BY DEF AlOnce
    <3>1. PICK k \in 1..Len(list) : less[i] = list[k] /\ k = IF i < p THEN i ELSE i + 1
      BY <2>10
    <3>2. PICK l \in 1..Len(list) : less[j] = list[l] /\ l = IF j < p THEN j ELSE j + 1
      BY <2>10
    <3>3. k = l
      BY <3>1, <3>2 DEF AlOnce
    <3>4. i \in Nat /\ j \in Nat /\ p \in Nat
      BY <2>1, <2>5
    <3>. QED BY <3>1, <3>2, <3>3, <3>4
  <2>7. \A x \in Range(less) : x \in Range(list) /\ x # g
    <3>. SUFFICES ASSUME NEW i \in 1..Len(less) PROVE less[i] \in Range(list) /\ less[i] # g
      BY <2>5, AlListIs
    <3>1. PICK k \in 1..Len(list) : less[i] = list[k] /\ k = IF i < p THEN i ELSE i + 1
      BY <2>10
    <3>2. k # p
      BY <2>1, <2>5, <3>1
    <3>. QED BY <2>1, <3>1, <3>2, AlListIs DEF AlOnce
  <2>8. \A x \in Range(list) : x # g => x \in Range(less)
    <3>. SUFFICES ASSUME NEW k \in 1..Len(list), k # p PROVE list[k] \in Range(less)
      BY <2>1, AlListIs
    <3>1. PICK i \in 1..Len(less) : less[i] = list[k]
      <4>1. CASE k < p
        <5>1. k \in 1..Len(less) /\ less[k] = list[k]
          BY <2>1, <2>5, <4>1
        <5>. QED BY <5>1
      <4>2. CASE k > p
        <5>1. k - 1 \in 1..Len(less) /\ less[k - 1] = list[k]
          BY <2>1, <2>5, <4>2
        <5>. QED BY <5>1
      <4>. QED BY <2>1, <4>1, <4>2
    <3>. QED BY <2>5, <3>1, AlListIs
  <2>. QED BY <2>5, <2>6, <2>7, <2>8 DEF less
<1>. QED BY <1>1, <1>2

-----------------------------------------------------------------------------
(* Every variable keeps its kind.                                          *)

(* The conditions of every group name devices.                             *)
AlByDevice == AlOfKind = {}

LEMMA AlAboutIs ==
    ASSUME AlByDevice, NEW g \in AlGroups
    PROVE  AlAbout(g) = AlSources[g] /\ AlSources[g] \in SUBSET AlDevices
BY AlAssumption DEF AlAbout, AlByDevice

LEMMA AlIdleType == AlIdle \in AlRuns /\ AlIdle.at = "idle"
<1>1. <<>> \in Seq(AlGroups)
  OBVIOUS
<1>. QED BY <1>1 DEF AlIdle, AlRuns

LEMMA AlKeyTypes ==
    ASSUME AlTyped, NEW g \in AlGroups
    PROVE  /\ alGroup[g] \in AlKeys /\ alGroup[g].there \in BOOLEAN
           /\ alGroup[g].devices \in SUBSET AlDevices /\ alGroup[g].configs \in SUBSET AlConfigs
BY DEF AlTyped, AlKeys

LEMMA AlFaultType ==
    ASSUME NEW heavy \in BOOLEAN, AlFault(heavy)
    PROVE  alDoubt' \in [AlGroups -> {"none", "check", "cycle", "held"}]
BY DEF AlFault

(* Who reports is a device, so what a check is about are devices.          *)
AlReporting == alRun.at # "idle" => alRun.device \in AlDevices

LEMMA AlAboutType ==
    ASSUME AlByDevice \/ AlReporting, alRun.at = "check", NEW g \in AlGroups
    PROVE  AlAbout(g) \in SUBSET AlDevices
<1>1. AlSources[g] \in SUBSET AlDevices
  BY AlAssumption
<1>. QED BY <1>1 DEF AlAbout, AlByDevice, AlReporting

LEMMA AlKeepType ==
    ASSUME AlByDevice \/ AlReporting, alRun.at = "check", AlTyped, NEW g \in AlGroups, KeepGroup(g)
    PROVE  alGroup' \in [AlGroups -> AlKeys]
<1>1. [there |-> TRUE, devices |-> AlAbout(g), configs |-> {}] \in AlKeys
  BY AlAboutType DEF AlKeys
<1>. QED BY <1>1 DEF KeepGroup, AlTyped

LEMMA AlCheckType ==
    ASSUME AlByDevice \/ AlReporting, AlTyped, NEW g \in AlGroups, CheckGroup(g)
    PROVE  AlTyped'
<1>. USE DEF AlTyped
<1>0. alRun.at = "check" /\ AlAbout(g) \in SUBSET AlDevices
  BY AlAboutType DEF CheckGroup, AlAt
<1>1. alDoubt' \in [AlGroups -> {"none", "check", "cycle", "held"}]
  BY DEF CheckGroup, AlChecked
<1>2. alSays' \in [AlGroups -> SUBSET AlDevices]
  BY <1>0 DEF CheckGroup
<1>3. /\ alMarks' = alMarks /\ alRaised' = alRaised /\ alTimer' = alTimer
  BY DEF CheckGroup
<1>4. CASE /\ SetDevice(g) /\ alRun' = [alRun EXCEPT !.todo = @ \ {g}, !.held = TRUE]
  <2>1. alRun' \in AlRuns /\ alRun'.at = alRun.at /\ alRun'.group = alRun.group /\ alRun'.config = alRun.config
    BY <1>4 DEF AlRuns
  <2>2. alGroup' \in [AlGroups -> AlKeys]
    BY <1>0, <1>4, AlKeepType DEF SetDevice
  <2>3. alScene' \in Seq(AlGroups)
    BY <1>4 DEF SetDevice
  <2>. QED BY <1>1, <1>2, <1>3, <2>1, <2>2, <2>3
<1>5. CASE /\ alRun' = [alRun EXCEPT !.at = "recover", !.todo = @ \ {g}, !.group = g]
           /\ UNCHANGED <<alGroup, alScene>>
  <2>1. alRun' \in AlRuns /\ alRun'.at = "recover" /\ alRun'.group = g
    BY <1>5 DEF AlRuns, AlEarly
  <2>. QED BY <1>1, <1>2, <1>3, <1>5, <2>1
<1>. QED BY <1>4, <1>5 DEF CheckGroup

LEMMA AlWithoutType ==
    ASSUME NEW list \in Seq(AlGroups), NEW g \in AlGroups
    PROVE  AlWithout(list, g) \in Seq(AlGroups)
<1>1. CASE g \notin Range(list)
  BY <1>1 DEF AlWithout
<1>2. CASE g \in Range(list)
  <2>. DEFINE p == CHOOSE i \in DOMAIN list : list[i] = g
  <2>1. AlWithout(list, g) = SubSeq(list, 1, p - 1) \o SubSeq(list, p + 1, Len(list))
    BY <1>2 DEF AlWithout, RemoveAt
  <2>2. p \in 1..Len(list) /\ Len(list) \in Nat
    BY <1>2, AlListIs
  <2>. HIDE DEF p
  <2>3. SubSeq(list, 1, p - 1) \in Seq(AlGroups) /\ SubSeq(list, p + 1, Len(list)) \in Seq(AlGroups)
    BY <2>2
  <2>. QED BY <2>1, <2>3, ConcatProperties
<1>. QED BY <1>1, <1>2

LEMMA AlForgetType ==
    ASSUME AlTyped, Forget
    PROVE  AlTyped'
<1>. USE DEF AlTyped
<1>. DEFINE g == alRun.group
<1>1. g \in AlGroups /\ AlNoKey \in AlKeys
  BY DEF Forget, AlAt, AlNoKey, AlKeys
<1>2. alRun' \in AlRuns /\ alRun'.at = "check"
  BY DEF Forget, AlGo, AlRuns, AlEarly
<1>3. alMarks' \in [AlConfigs -> [AlDevices -> SUBSET AlGroups]]
  BY DEF Forget, DeleteGroup, DeleteMarks
<1>4. alGroup' \in [AlGroups -> AlKeys]
  BY <1>1 DEF Forget, DeleteGroup
<1>5. alScene' \in Seq(AlGroups)
  <2>1. AlWithout(alScene, g) \in Seq(AlGroups)
    BY <1>1, AlWithoutType
  <2>. QED BY <2>1 DEF Forget, DeleteGroup
<1>6. alDoubt' \in [AlGroups -> {"none", "check", "cycle", "held"}]
  BY <1>1 DEF Forget, AlForgotten
<1>. QED BY <1>2, <1>3, <1>4, <1>5, <1>6 DEF Forget

LEMMA AlAlarmType ==
    ASSUME AlTyped, AlarmGroup
    PROVE  AlTyped'
<1>. USE DEF AlTyped
<1>. DEFINE g == Head(alRun.left)
            c == alRun.config
<1>1. alRun.at = "alarm" /\ alRun.left \in Seq(AlGroups) /\ alRun.left # <<>> /\ c \in AlConfigs
  BY DEF AlarmGroup, AlAt, AlRuns
<1>2. g \in AlGroups /\ Tail(alRun.left) \in Seq(AlGroups)
  BY <1>1
<1>3. alRun' \in AlRuns /\ alRun'.at = "alarm" /\ alRun'.config = c
  <2>1. CASE alRun' = [alRun EXCEPT !.left = Tail(@), !.reason = "exists"]
    BY <1>1, <1>2, <2>1 DEF AlRuns
  <2>2. CASE alRun' = [alRun EXCEPT !.left = Tail(@), !.ok = TRUE, !.reason = "none"]
    BY <1>1, <1>2, <2>2 DEF AlRuns
  <2>. QED BY <2>1, <2>2 DEF AlarmGroup
<1>4. alRaised' \in [AlGroups -> [AlConfigs -> SUBSET AlDevices]]
  <2>1. CASE alRaised' = alRaised
    BY <2>1
  <2>2. CASE Raise(g, c, alGroup[g].devices)
    <3>1. alGroup[g].devices \in SUBSET AlDevices
      BY <1>2, AlKeyTypes
    <3>. QED BY <1>1, <1>2, <2>2, <3>1 DEF Raise
  <2>. QED BY <2>1, <2>2 DEF AlarmGroup
<1>. QED BY <1>1, <1>3, <1>4 DEF AlarmGroup, alCache, alChecked

LEMMA AlMarkType ==
    ASSUME AlTyped, MarkGroup
    PROVE  AlTyped'
<1>. USE DEF AlTyped
<1>. DEFINE g == Head(alRun.left)
<1>1. alRun.at = "mark" /\ alRun.left \in Seq(AlGroups) /\ alRun.left # <<>>
  BY DEF MarkGroup, AlAt, AlRuns
<1>2. g \in AlGroups /\ Tail(alRun.left) \in Seq(AlGroups)
  BY <1>1
<1>3. alRun' \in AlRuns /\ alRun'.at = "mark"
  BY <1>1, <1>2 DEF MarkGroup, AlRuns
<1>4. alMarks' \in [AlConfigs -> [AlDevices -> SUBSET AlGroups]]
  <2>1. alMarks' = [c \in AlConfigs |-> [d \in AlDevices |->
           IF d = alRun.device THEN alMarks[c][d] \cup {g} ELSE alMarks[c][d]]]
    BY DEF MarkGroup, SetAlarm
  <2>2. \A c \in AlConfigs, d \in AlDevices : alMarks[c][d] \in SUBSET AlGroups
    OBVIOUS
  <2>3. \A c \in AlConfigs, d \in AlDevices :
           (IF d = alRun.device THEN alMarks[c][d] \cup {g} ELSE alMarks[c][d]) \in SUBSET AlGroups
    BY <1>2, <2>2
  <2>. HIDE DEF g, AlTyped
  <2>. QED BY <2>1, <2>3
<1>5. alGroup' \in [AlGroups -> AlKeys]
  <2>1. alGroup[g] \in AlKeys
    BY <1>2
  <2>2. [alGroup[g] EXCEPT !.there = TRUE, !.configs = AlConfigs] \in AlKeys
    <3>. HIDE DEF g
    <3>. QED BY <2>1 DEF AlKeys
  <2>3. alGroup' = [alGroup EXCEPT ![g] = [alGroup[g] EXCEPT !.there = TRUE, !.configs = AlConfigs]]
    BY <2>1 DEF MarkGroup, SetAlarm, AlKeys
  <2>. HIDE DEF g
  <2>. QED BY <2>2, <2>3
<1>. QED BY <1>3, <1>4, <1>5 DEF MarkGroup, alChecked

LEMMA AlTimerType ==
    ASSUME AlTyped, \/ \E g \in AlGroups, c \in AlConfigs : TimerLooks(g, c)
                    \/ TimerRaises
    PROVE  AlTyped'
<1>. USE DEF AlTyped
<1>0. AlNobody \in AlTimers
  BY DEF AlNobody, AlTimers
<1>1. CASE \E g \in AlGroups, c \in AlConfigs : TimerLooks(g, c)
  <2>. PICK g \in AlGroups, c \in AlConfigs : TimerLooks(g, c)
    BY <1>1
  <2>1. alGroup[g].devices \in SUBSET AlDevices
    BY AlKeyTypes
  <2>2. alTimer' = [busy |-> TRUE, group |-> g, config |-> c, devices |-> alGroup[g].devices]
    BY DEF TimerLooks
  <2>3. alTimer' \in AlTimers /\ alTimer'.group = g /\ alTimer'.config = c
    BY <2>1, <2>2 DEF AlTimers
  <2>. QED BY <2>3 DEF TimerLooks, alCache, alChecked
<1>2. CASE TimerRaises
  <2>. DEFINE g == alTimer.group
              c == alTimer.config
  <2>1. g \in AlGroups /\ c \in AlConfigs /\ alTimer.devices \in SUBSET AlDevices
    BY <1>2 DEF TimerRaises, AlTimers
  <2>2. alRaised' \in [AlGroups -> [AlConfigs -> SUBSET AlDevices]]
    BY <1>2, <2>1 DEF TimerRaises, Raise
  <2>3. alDoubt' \in [AlGroups -> {"none", "check", "cycle", "held"}]
    BY <1>2, <2>1 DEF TimerRaises
  <2>. QED BY <1>0, <1>2, <2>2, <2>3 DEF TimerRaises, alCache
<1>. QED BY <1>1, <1>2

LEMMA AlFailType ==
    ASSUME AlByDevice \/ AlReporting, AlTyped,
           \/ RecoveryLost \/ AlarmFails \/ StopReport \/ CallFails
           \/ \E g \in AlGroups : SetDeviceFails(g)
    PROVE  AlTyped'
<1>. USE DEF AlTyped
<1>1. CASE RecoveryLost
  <2>1. alRun' \in AlRuns /\ alRun'.at = "forget" /\ alRun'.group = alRun.group /\ alRun.at = "recover"
    BY <1>1 DEF RecoveryLost, AlRuns, AlEarly, AlAt
  <2>2. AlFault(TRUE)
    BY <1>1 DEF RecoveryLost
  <2>. QED BY <1>1, <2>1, <2>2, AlFaultType DEF RecoveryLost, alCache
<1>2. CASE AlarmFails
  <2>1. /\ alRun.at = "alarm" /\ alRun.left \in Seq(AlGroups) /\ alRun.left # <<>>
    BY <1>2 DEF AlarmFails, AlAt, AlRuns
  <2>2. Tail(alRun.left) \in Seq(AlGroups)
    BY <2>1
  <2>3. alRun' \in AlRuns /\ alRun'.at = "alarm" /\ alRun'.config = alRun.config
    BY <1>2, <2>1, <2>2 DEF AlarmFails, AlRuns
  <2>4. AlFault(TRUE)
    BY <1>2 DEF AlarmFails
  <2>. QED BY <1>2, <2>1, <2>3, <2>4, AlFaultType DEF AlarmFails, alCache
<1>3. CASE StopReport
  <2>1. PICK heavy \in BOOLEAN : AlFault(heavy)
    BY <1>3 DEF StopReport
  <2>. QED BY <1>3, <2>1, AlFaultType, AlIdleType DEF StopReport, alCache
<1>4. CASE CallFails
  <2>1. PICK heavy \in BOOLEAN : AlFault(heavy)
    BY <1>4 DEF CallFails
  <2>2. CASE AlAt("mark")
    BY <1>4, <2>1, <2>2, AlFaultType, AlIdleType DEF CallFails, alCache
  <2>3. CASE ~AlAt("mark")
    <3>1. alRun' \in AlRuns /\ alRun'.at = "check"
      BY <1>4, <2>3 DEF CallFails, AlRuns, AlEarly
    <3>. QED BY <1>4, <2>1, <3>1, AlFaultType DEF CallFails, alCache
  <2>. QED BY <2>2, <2>3
<1>5. CASE \E g \in AlGroups : SetDeviceFails(g)
  <2>. PICK g \in AlGroups : SetDeviceFails(g)
    BY <1>5
  <2>1. alRun' \in AlRuns /\ alRun'.at = "check" /\ alRun.at = "check"
    BY DEF SetDeviceFails, AlRuns, AlAt
  <2>2. AlFault(FALSE) /\ KeepGroup(g)
    BY DEF SetDeviceFails
  <2>3. alSays' \in [AlGroups -> SUBSET AlDevices]
    BY <2>1, AlAboutType DEF SetDeviceFails
  <2>. QED BY <2>1, <2>2, <2>3, AlFaultType, AlKeepType DEF SetDeviceFails
<1>. QED BY <1>1, <1>2, <1>3, <1>4, <1>5

LEMMA AlReportTypes ==
    ASSUME AlTyped,
           \/ \E d \in AlDevices : NewValues(d) \/ AlReport(d)
           \/ RecoverGroup \/ AllChecked \/ EndAlarm \/ AfterActions \/ EndReport
           \/ \E c \in AlConfigs : StartAlarm(c)
    PROVE  AlTyped'
<1>. USE DEF AlTyped
<1>1. CASE \E d \in AlDevices : NewValues(d)
  BY <1>1 DEF NewValues, alCache, alChecked
<1>2. CASE \E d \in AlDevices : AlReport(d)
  <2>. PICK d \in AlDevices : AlReport(d)
    BY <1>2
  <2>1. PICK todo \in SUBSET AlGroups :
            alRun' = [AlIdle EXCEPT !.at = "check", !.device = d, !.todo = todo]
    BY DEF AlReport
  <2>2. alRun' \in AlRuns /\ alRun'.at = "check"
    BY <2>1, AlIdleType DEF AlRuns, AlEarly
  <2>. QED BY <2>2 DEF AlReport, alCache, alChecked
<1>3. CASE RecoverGroup
  <2>1. alRun.group \in AlGroups
    BY <1>3 DEF RecoverGroup, AlAt
  <2>2. alRaised' \in [AlGroups -> [AlConfigs -> SUBSET AlDevices]]
    BY <1>3, <2>1 DEF RecoverGroup
  <2>3. alRun' \in AlRuns /\ alRun'.at = "forget" /\ alRun'.group = alRun.group
    BY <1>3 DEF RecoverGroup, AlGo, AlRuns, AlEarly
  <2>. QED BY <1>3, <2>1, <2>2, <2>3 DEF RecoverGroup, alCache, alChecked
<1>4. CASE AllChecked
  <2>1. alRun' \in AlRuns /\ alRun'.at \in {"idle", "action"}
    <3>1. CASE alRun.held
      BY <1>4, <3>1 DEF AllChecked, AlRuns, AlActs
    <3>2. CASE ~alRun.held
      BY <1>4, <3>2, AlIdleType DEF AllChecked
    <3>. QED BY <3>1, <3>2
  <2>. QED BY <1>4, <2>1 DEF AllChecked, alCache, alChecked
<1>5. CASE EndAlarm
  <2>1. alRun' \in AlRuns /\ alRun'.at = "action"
    BY <1>5 DEF EndAlarm, AlRuns, AlActs
  <2>. QED BY <1>5, <2>1 DEF EndAlarm, alCache, alChecked
<1>6. CASE AfterActions
  <2>1. (IF alRun.failed THEN <<>> ELSE alScene) \in Seq(AlGroups)
    BY AlNoList
  <2>2. alRun' \in AlRuns /\ alRun'.at = "mark"
    BY <1>6, <2>1 DEF AfterActions, AlRuns, AlActs
  <2>. QED BY <1>6, <2>2 DEF AfterActions, alCache, alChecked
<1>7. CASE EndReport
  BY <1>7, AlIdleType DEF EndReport, alCache, alChecked
<1>8. CASE \E c \in AlConfigs : StartAlarm(c)
  <2>. PICK c \in AlConfigs : StartAlarm(c)
    BY <1>8
  <2>1. alRun' \in AlRuns /\ alRun'.at = "alarm" /\ alRun'.config = c
    BY DEF StartAlarm, AlRuns, AlActs
  <2>. QED BY <2>1 DEF StartAlarm, alCache, alChecked
<1>. QED BY <1>1, <1>2, <1>3, <1>4, <1>5, <1>6, <1>7, <1>8

LEMMA AlNextType ==
    ASSUME AlByDevice \/ AlReporting, AlTyped, [AlNext]_alVars
    PROVE  AlTyped'
<1>1. CASE UNCHANGED alVars
  BY <1>1 DEF alVars, alCache, alChecked, AlTyped
<1>2. CASE AlNext
  BY <1>2, AlReportTypes, AlFailType, AlTimerType, AlMarkType, AlAlarmType, AlForgetType, AlCheckType DEF AlNext
<1>. QED BY <1>1, <1>2

LEMMA AlReportingNext ==
    ASSUME AlTyped, AlReporting, [AlNext]_alVars
    PROVE  AlReporting'
<1>1. CASE alRun' = alRun \/ alRun' = AlIdle
  BY <1>1, AlIdleType DEF AlReporting
<1>2. CASE alRun.at # "idle" /\ alRun'.device = alRun.device
  BY <1>2 DEF AlReporting
<1>3. CASE \E d \in AlDevices : AlReport(d)
  <2>. PICK d \in AlDevices : AlReport(d)
    BY <1>3
  <2>1. PICK todo \in SUBSET AlGroups :
            alRun' = [AlIdle EXCEPT !.at = "check", !.device = d, !.todo = todo]
    BY DEF AlReport
  <2>2. alRun'.device = d
    BY <2>1, AlIdleType DEF AlRuns
  <2>. QED BY <2>2 DEF AlReporting
<1>4. CASE \/ \E g \in AlGroups : CheckGroup(g) \/ SetDeviceFails(g)
           \/ RecoverGroup \/ RecoveryLost \/ Forget \/ AlarmGroup \/ AlarmFails
           \/ EndAlarm \/ AfterActions \/ MarkGroup
           \/ \E c \in AlConfigs : StartAlarm(c)
  <2>1. alRun.at # "idle" /\ alRun'.device = alRun.device
    <3>1. alRun \in AlRuns
      BY DEF AlTyped
    <3>. QED BY <1>4, <3>1 DEF CheckGroup, SetDeviceFails, RecoverGroup, RecoveryLost, Forget, AlarmGroup,
             AlarmFails, EndAlarm, AfterActions, MarkGroup, StartAlarm, AlGo, AlAt, AlRuns
  <2>. QED BY <1>2, <2>1
<1>5. CASE AllChecked
  <2>1. alRun \in AlRuns /\ alRun.at = "check"
    BY <1>5 DEF AlTyped, AllChecked, AlAt
  <2>2. alRun' = AlIdle \/ alRun'.device = alRun.device
    BY <1>5, <2>1 DEF AllChecked, AlRuns
  <2>. QED BY <1>1, <1>2, <2>1, <2>2
<1>6. CASE CallFails
  <2>1. alRun \in AlRuns /\ alRun.at # "idle"
    BY <1>6 DEF AlTyped, CallFails
  <2>2. alRun' = AlIdle \/ alRun'.device = alRun.device
    BY <1>6, <2>1 DEF CallFails, AlRuns
  <2>. QED BY <1>1, <1>2, <2>1, <2>2
<1>7. CASE \/ \E d \in AlDevices : NewValues(d)
           \/ \E g \in AlGroups, c \in AlConfigs : TimerLooks(g, c)
           \/ TimerRaises \/ EndReport \/ StopReport \/ UNCHANGED alVars
  BY <1>1, <1>7 DEF NewValues, TimerLooks, TimerRaises, EndReport, StopReport, alVars
<1>. QED BY <1>3, <1>4, <1>5, <1>6, <1>7 DEF AlNext

(* Together with what new values and faults change.                        *)
AlTypeInv == AlTyped /\ AlReporting /\ alHolds \subseteq AlDevices /\ alFaults \in 0..AlMaxFaults

LEMMA AlNextTypeInv ==
    ASSUME AlTypeInv, [AlNext]_alVars
    PROVE  AlTypeInv'
<1>1. AlTyped' /\ AlReporting'
  BY AlNextType, AlReportingNext DEF AlTypeInv
<1>2. (\E d \in AlDevices : NewValues(d)) \/ alHolds' = alHolds
  BY DEF AlNext, AlReport, CheckGroup, SetDeviceFails, RecoverGroup, RecoveryLost, Forget, AllChecked,
     StartAlarm, AlarmGroup, AlarmFails, EndAlarm, AfterActions, MarkGroup, EndReport, TimerLooks,
     TimerRaises, StopReport, CallFails, alVars
<1>3. alHolds' \subseteq AlDevices
  BY <1>2 DEF NewValues, AlTypeInv
<1>4. alFaults' = alFaults \/ \E heavy \in BOOLEAN : AlFault(heavy)
  BY DEF AlNext, NewValues, AlReport, CheckGroup, SetDeviceFails, RecoverGroup, RecoveryLost, Forget,
     AllChecked, StartAlarm, AlarmGroup, AlarmFails, EndAlarm, AfterActions, MarkGroup, EndReport,
     TimerLooks, TimerRaises, StopReport, CallFails, alVars
<1>5. alFaults' \in 0..AlMaxFaults
  BY <1>4, AlAssumption DEF AlFault, AlTypeInv
<1>. QED BY <1>1, <1>3, <1>5 DEF AlTypeInv

LEMMA AlInitTyped == AlInit => AlTypeInv
<1>. SUFFICES ASSUME AlInit PROVE AlTypeInv
  OBVIOUS
<1>1. AlNoKey \in AlKeys /\ AlNobody \in AlTimers
  BY DEF AlNoKey, AlKeys, AlNobody, AlTimers
<1>2. AlTyped
  BY <1>1, AlNoList, AlIdleType DEF AlInit, AlTyped
<1>. QED BY <1>2, AlIdleType, AlAssumption DEF AlInit, AlTypeInv, AlReporting

(* The alarms, their cache and their history keep their types, for groups  *)
(* of devices and of configurations.                                       *)
THEOREM AlTypeCorrect == AlSpec => []AlTypeOK
<1>1. AlTypeInv => AlTypeOK
  BY DEF AlTypeInv, AlTyped, AlTypeOK, AlKeys
<1>. QED BY <1>1, AlInitTyped, AlNextTypeInv, PTL DEF AlSpec

-----------------------------------------------------------------------------
(* What the cache, the history and the report say of a group.              *)

AlListed(g)  == g \in Range(alScene)
AlFresh(g)   == alDoubt[g] \in {"none", "check"}
AlAtHand(g)  == alRun.at \in {"recover", "forget"} /\ alRun.group = g
(* The report has still to mark the group.                                 *)
AlPending(g) ==
    AlListed(g) /\ (alRun.at \in {"action", "alarm"} \/ (alRun.at = "mark" /\ g \in Range(alRun.left)))
(* Of every group nothing is known before it has held and recovered.       *)
AlLost == \A g \in AlGroups : alDoubt[g] = "cycle"

AlShape ==
    /\ \A g \in AlGroups :
          /\ alGroup[g].there => alGroup[g].devices = AlSources[g] /\ alGroup[g].configs \in {{}, AlConfigs}
          /\ ~alGroup[g].there => alGroup[g].devices = {} /\ alGroup[g].configs = {}
          /\ AlListed(g) => alGroup[g].there
          /\ alSays[g] \in {{}, AlSources[g]}
          /\ AlAtHand(g) => alSays[g] = {}
          /\ alRun.spoilt => alDoubt[g] \in {"check", "cycle"}
    /\ \A g \in AlGroups, c \in AlConfigs : alRaised[g][c] \subseteq AlSources[g]
    /\ AlOnce(alScene)
    /\ alRun.at \in {"alarm", "mark"} => Range(alRun.left) \subseteq Range(alScene)
    /\ alTimer # AlNobody => alTimer.devices \subseteq AlSources[alTimer.group]

(* Of a group that one check tells: its alarms are there for all its       *)
(* devices or for none; where there are any, the group key names the alarm *)
(* configurations or the report is about to write them; a mark is the mark *)
(* of an alarm; and an action that is done has raised its alarm.           *)
AlKept(g, c) ==
    AlFresh(g) =>
        /\ alRaised[g][c] \in {{}, AlSources[g]}
        /\ alRaised[g][c] # {} => alGroup[g].configs = AlConfigs \/ AlPending(g)
        /\ \A d \in AlSources[g] : g \in alMarks[c][d] =>
               /\ alGroup[g].configs = AlConfigs
               /\ alRaised[g][c] = AlSources[g] \/ (alRun.at = "forget" /\ alRun.group = g)
        /\ (alRun.at \in AlActs /\ AlListed(g)) =>
               \/ alRaised[g][c] = AlSources[g]
               \/ alRun.at # "mark" /\ c \in alRun.actions
               \/ alRun.at = "alarm" /\ c = alRun.config /\ g \in Range(alRun.left)

(* After a recovery the group has no alarms.                               *)
AlRecovered(g, c) ==
    (alRun.at = "forget" /\ alRun.group = g /\ alDoubt[g] # "cycle") => alRaised[g][c] = {}

(* What the last check has found, where nothing is in doubt.               *)
AlTold(g) ==
    (alDoubt[g] = "none" /\ AlSources[g] # {}) =>
        /\ alSays[g] = AlSources[g] =>
               /\ AlListed(g)
               /\ alRun.at \in AlEarly \cup {"idle"} =>
                      \/ alRun.at # "idle" /\ alRun.held
                      \/ \A c \in AlConfigs : alRaised[g][c] = AlSources[g]
        /\ alSays[g] = {} => ~alGroup[g].there \/ AlAtHand(g)

(* A group that has held since a heavy fault will be recovered in whole.   *)
AlHeld(g) ==
    alDoubt[g] = "held" =>
        /\ AlListed(g)
        /\ \/ alGroup[g].configs = AlConfigs
           \/ alRun.at \in AlEarly /\ alRun.held /\ g \notin alRun.todo /\ ~AlAtHand(g)
           \/ AlPending(g)

(* The actions of a report fail only together with what is known.          *)
AlWorks ==
    /\ alRun.at \in AlEarly => ~alRun.failed
    /\ alRun.at \in AlActs /\ alRun.failed => AlLost \/ alScene = <<>>
    /\ alRun.at = "alarm" => AlLost \/ alRun.ok \/ alRun.reason = "exists" \/ alRun.left = alScene

AlGroupsKnown ==
    /\ \A g \in AlGroups, c \in AlConfigs : AlKept(g, c) /\ AlRecovered(g, c)
    /\ \A g \in AlGroups : AlTold(g) /\ AlHeld(g)

AlInv == AlTyped /\ AlShape /\ AlGroupsKnown /\ AlWorks

(* Nothing but the values changes.                                         *)
LEMMA AlSameInv ==
    ASSUME AlInv, UNCHANGED <<alCache, alRun, alRaised, alChecked, alTimer>>
    PROVE  AlInv'
<1>. USE DEF alCache, alChecked
<1>1. AlTyped' /\ AlShape'
  BY DEF AlInv, AlTyped, AlShape, AlListed, AlAtHand
<1>2. AlGroupsKnown'
  BY DEF AlInv, AlGroupsKnown, AlKept, AlRecovered, AlTold, AlHeld, AlListed, AlPending, AlAtHand, AlFresh
<1>3. AlWorks'
  BY DEF AlInv, AlWorks, AlLost
<1>. QED BY <1>1, <1>2, <1>3 DEF AlInv

(* After a heavy fault there is little to say.                             *)
LEMMA AlLostInv ==
    ASSUME AlTyped', AlShape', \A g \in AlGroups : alDoubt'[g] = "cycle",
           alRun'.at \in AlEarly => ~alRun'.failed
    PROVE  AlInv'
<1>1. AlGroupsKnown'
  BY DEF AlGroupsKnown, AlKept, AlRecovered, AlTold, AlHeld, AlFresh
<1>2. AlWorks'
  BY DEF AlWorks, AlLost
<1>. QED BY <1>1, <1>2 DEF AlInv

(* What an invariant says of a group, a part at a time.                    *)
LEMMA AlInvIs ==
    ASSUME AlInv, NEW g \in AlGroups
    PROVE  /\ alGroup[g].there => alGroup[g].devices = AlSources[g] /\ alGroup[g].configs \in {{}, AlConfigs}
           /\ ~alGroup[g].there => alGroup[g].devices = {} /\ alGroup[g].configs = {}
           /\ AlListed(g) => alGroup[g].there
           /\ alSays[g] \in {{}, AlSources[g]}
           /\ AlAtHand(g) => alSays[g] = {}
           /\ alRun.spoilt => alDoubt[g] \in {"check", "cycle"}
           /\ \A c \in AlConfigs : alRaised[g][c] \subseteq AlSources[g]
           /\ AlTold(g) /\ AlHeld(g)
           /\ \A c \in AlConfigs : AlKept(g, c) /\ AlRecovered(g, c)
           /\ alDoubt[g] \in {"none", "check", "cycle", "held"}
BY DEF AlInv, AlShape, AlGroupsKnown, AlTyped

(* The locals of a report that goes on.                                    *)
LEMMA AlRunIs ==
    ASSUME AlInv
    PROVE  /\ alRun \in AlRuns /\ alRun.at \in {"idle"} \cup AlEarly \cup AlActs
           /\ alRun.left \in Seq(AlGroups) /\ alScene \in Seq(AlGroups)
           /\ alRun.todo \in SUBSET AlGroups /\ alRun.actions \in SUBSET AlConfigs
           /\ alRun.held \in BOOLEAN /\ alRun.failed \in BOOLEAN /\ alRun.ok \in BOOLEAN
           /\ AlShape /\ AlWorks /\ AlTyped
BY DEF AlInv, AlTyped, AlRuns

(* A report begins, acts and ends.                                         *)
LEMMA AlReportInv ==
    ASSUME AlInv, AlTyped', NEW d \in AlDevices, AlReport(d)
    PROVE  AlInv'
<1>1. /\ alRun.at = "idle" /\ alRun'.at = "check" /\ ~alRun'.spoilt /\ ~alRun'.failed
      /\ UNCHANGED <<alCache, alRaised, alChecked, alTimer>>
  BY DEF AlReport, AlAt, AlIdle
<1>. USE DEF alCache, alChecked
<1>2. AlShape'
  BY <1>1, AlRunIs DEF AlShape, AlListed, AlAtHand
<1>3. AlGroupsKnown'
  BY <1>1 DEF AlInv, AlGroupsKnown, AlKept, AlRecovered, AlTold, AlHeld, AlListed, AlPending, AlAtHand, AlFresh,
              AlEarly, AlActs
<1>4. AlWorks'
  BY <1>1 DEF AlWorks, AlActs
<1>. QED BY <1>2, <1>3, <1>4 DEF AlInv

LEMMA AlAllCheckedInv ==
    ASSUME AlInv, AlTyped', AllChecked
    PROVE  AlInv'
<1>0. /\ alRun.at = "check" /\ alRun.todo = {} /\ UNCHANGED <<alCache, alRaised, alChecked, alTimer>>
      /\ alRun.held \in BOOLEAN /\ ~alRun.failed
  BY AlRunIs DEF AllChecked, AlAt, AlWorks, AlEarly
<1>. USE DEF alCache, alChecked
<1>1. CASE alRun.held
  <2>1. /\ alRun'.at = "action" /\ alRun'.actions = AlConfigs /\ alRun'.failed = alRun.failed
        /\ alRun'.spoilt = alRun.spoilt
    BY <1>1, AlRunIs DEF AllChecked, AlRuns
  <2>2. AlShape'
    BY <1>0, <2>1, AlRunIs DEF AlShape, AlListed, AlAtHand
  <2>3. AlGroupsKnown'
    BY <1>0, <2>1 DEF AlInv, AlGroupsKnown, AlKept, AlRecovered, AlTold, AlHeld, AlListed, AlPending, AlAtHand, AlFresh,
                      AlEarly, AlActs
  <2>4. AlWorks'
    BY <1>0, <2>1 DEF AlWorks, AlEarly
  <2>. QED BY <2>2, <2>3, <2>4 DEF AlInv
<1>2. CASE ~alRun.held
  <2>1. alRun'.at = "idle" /\ ~alRun'.spoilt
    BY <1>2 DEF AllChecked, AlIdle
  <2>2. AlShape'
    BY <1>0, <2>1, AlRunIs DEF AlShape, AlListed, AlAtHand
  <2>3. AlGroupsKnown'
    BY <1>0, <1>2, <2>1 DEF AlInv, AlGroupsKnown, AlKept, AlRecovered, AlTold, AlHeld, AlListed, AlPending, AlAtHand,
                            AlFresh, AlEarly, AlActs
  <2>4. AlWorks'
    BY <2>1 DEF AlWorks, AlEarly, AlActs
  <2>. QED BY <2>2, <2>3, <2>4 DEF AlInv
<1>. QED BY <1>0, <1>1, <1>2

LEMMA AlStartInv ==
    ASSUME AlInv, AlTyped', NEW c \in AlConfigs, StartAlarm(c)
    PROVE  AlInv'
<1>. USE DEF alCache, alChecked
<1>1. /\ alRun.at = "action" /\ c \in alRun.actions /\ UNCHANGED <<alCache, alRaised, alChecked, alTimer>>
      /\ alRun'.at = "alarm" /\ alRun'.config = c /\ alRun'.actions = alRun.actions \ {c} /\ alRun'.left = alScene
      /\ alRun'.failed = alRun.failed /\ alRun'.spoilt = alRun.spoilt
  BY AlRunIs DEF StartAlarm, AlAt, AlRuns
<1>2. AlShape'
  BY <1>1, AlRunIs DEF AlShape, AlListed, AlAtHand
<1>3. AlGroupsKnown'
  BY <1>1 DEF AlInv, AlGroupsKnown, AlKept, AlRecovered, AlTold, AlHeld, AlListed, AlPending, AlAtHand, AlFresh,
              AlEarly, AlActs
<1>4. AlWorks'
  BY <1>1, AlRunIs DEF AlWorks, AlEarly, AlActs, AlLost
<1>. QED BY <1>2, <1>3, <1>4 DEF AlInv

LEMMA AlEndAlarmInv ==
    ASSUME AlInv, AlTyped', EndAlarm
    PROVE  AlInv'
<1>. USE DEF alCache, alChecked
<1>1. /\ alRun.at = "alarm" /\ alRun.left = <<>> /\ UNCHANGED <<alCache, alRaised, alChecked, alTimer>>
      /\ alRun'.at = "action" /\ alRun'.actions = alRun.actions /\ alRun'.spoilt = alRun.spoilt
      /\ alRun'.failed => alRun.failed \/ ~(alRun.ok \/ alRun.reason = "exists")
  BY AlRunIs DEF EndAlarm, AlAt, AlRuns
<1>2. AlShape'
  BY <1>1, AlRunIs DEF AlShape, AlListed, AlAtHand
<1>3. Range(alRun.left) = {}
  BY <1>1, AlNoList
<1>4. AlGroupsKnown'
  BY <1>1, <1>3 DEF AlInv, AlGroupsKnown, AlKept, AlRecovered, AlTold, AlHeld, AlListed, AlPending, AlAtHand, AlFresh,
              AlEarly, AlActs
<1>5. AlWorks'
  BY <1>1, AlRunIs DEF AlWorks, AlEarly, AlActs, AlLost
<1>. QED BY <1>2, <1>4, <1>5 DEF AlInv

LEMMA AlAfterInv ==
    ASSUME AlInv, AlTyped', AfterActions
    PROVE  AlInv'
<1>. USE DEF alCache, alChecked
<1>1. /\ alRun.at = "action" /\ alRun.actions = {} /\ UNCHANGED <<alCache, alRaised, alChecked, alTimer>>
      /\ alRun'.at = "mark" /\ alRun'.actions = alRun.actions /\ alRun'.spoilt = alRun.spoilt
      /\ alRun'.failed = alRun.failed /\ alRun'.left = IF alRun.failed THEN <<>> ELSE alScene
  BY AlRunIs DEF AfterActions, AlAt, AlRuns
<1>2. alRun.failed => AlLost \/ Range(alScene) = {}
  BY <1>1, AlRunIs, AlNoList DEF AlWorks, AlActs
<1>3. Range(alRun'.left) = IF alRun.failed THEN {} ELSE Range(alScene)
  BY <1>1, AlNoList
<1>4. AlShape'
  BY <1>1, <1>3, AlRunIs DEF AlShape, AlListed, AlAtHand
<1>5. AlGroupsKnown'
  BY <1>1, <1>2, <1>3 DEF AlInv, AlGroupsKnown, AlKept, AlRecovered, AlTold, AlHeld, AlListed, AlPending, AlAtHand,
              AlFresh, AlLost, AlEarly, AlActs
<1>6. AlWorks'
  BY <1>1, AlRunIs DEF AlWorks, AlEarly, AlActs, AlLost
<1>. QED BY <1>4, <1>5, <1>6 DEF AlInv

LEMMA AlEndReportInv ==
    ASSUME AlInv, AlTyped', EndReport
    PROVE  AlInv'
<1>. USE DEF alCache, alChecked
<1>1. /\ alRun.at = "mark" /\ alRun.left = <<>> /\ UNCHANGED <<alCache, alRaised, alChecked, alTimer>>
      /\ alRun'.at = "idle" /\ ~alRun'.spoilt
  BY DEF EndReport, AlAt, AlIdle
<1>2. AlShape'
  BY <1>1, AlRunIs DEF AlShape, AlListed, AlAtHand
<1>3. Range(alRun.left) = {}
  BY <1>1, AlNoList
<1>4. AlGroupsKnown'
  BY <1>1, <1>3 DEF AlInv, AlGroupsKnown, AlKept, AlRecovered, AlTold, AlHeld, AlListed, AlPending, AlAtHand, AlFresh,
              AlEarly, AlActs
<1>5. AlWorks'
  BY <1>1 DEF AlWorks, AlEarly, AlActs
<1>. QED BY <1>2, <1>4, <1>5 DEF AlInv

(* A check of a group that holds.                                          *)
LEMMA AlPassInv ==
    ASSUME AlByDevice, AlInv, AlTyped', NEW h \in AlGroups, CheckGroup(h), AlPasses(h),
           SetDevice(h), alRun' = [alRun EXCEPT !.todo = @ \ {h}, !.held = TRUE]
    PROVE  AlInv'
<1>1. /\ alRun.at = "check" /\ h \in alRun.todo
      /\ UNCHANGED <<alMarks, alRaised, alTimer>>
      /\ alRun'.at = "check" /\ alRun'.held = TRUE /\ alRun'.todo = alRun.todo \ {h}
      /\ alRun'.failed = alRun.failed /\ alRun'.spoilt = alRun.spoilt /\ alRun'.group = alRun.group
  BY AlRunIs DEF CheckGroup, AlAt, AlRuns
<1>2. /\ alSays'[h] = AlSources[h]
      /\ \A g \in AlGroups : g # h => alSays'[g] = alSays[g] /\ alDoubt'[g] = alDoubt[g]
      /\ alRun.spoilt => alDoubt'[h] = alDoubt[h]
      /\ alDoubt'[h] \in {"none", "check"} => alDoubt[h] \in {"none", "check"}
  <2>1. alSays' = [alSays EXCEPT ![h] = alSays[h] \cup AlSources[h]]
    BY AlAboutIs DEF CheckGroup
  <2>2. alSays \in [AlGroups -> SUBSET AlDevices] /\ alSays[h] \in {{}, AlSources[h]}
    BY AlInvIs, AlRunIs DEF AlTyped
  <2>3. alDoubt' = [alDoubt EXCEPT ![h] =
            IF alRun.spoilt THEN alDoubt[h]
            ELSE IF alDoubt[h] \in {"cycle", "held"} THEN "held" ELSE "none"]
    BY DEF CheckGroup, AlChecked
  <2>4. alDoubt \in [AlGroups -> {"none", "check", "cycle", "held"}]
    BY AlRunIs DEF AlTyped
  <2>5. \A g \in AlGroups : g # h => alSays'[g] = alSays[g] /\ alDoubt'[g] = alDoubt[g]
    BY <2>1, <2>2, <2>3, <2>4
  <2>6. alSays'[h] = AlSources[h]
    BY <2>1, <2>2
  <2>7. alDoubt'[h] = IF alRun.spoilt THEN alDoubt[h]
                      ELSE IF alDoubt[h] \in {"cycle", "held"} THEN "held" ELSE "none"
    BY <2>3, <2>4
  <2>. QED BY <2>4, <2>5, <2>6, <2>7
<1>3. /\ alGroup'[h].there
      /\ alGroup[h].there => alGroup'[h] = alGroup[h]
      /\ ~alGroup[h].there => alGroup'[h].devices = AlSources[h] /\ alGroup'[h].configs = {}
      /\ \A g \in AlGroups : g # h => alGroup'[g] = alGroup[g]
  BY AlAboutIs, AlRunIs DEF SetDevice, KeepGroup, AlTyped
<1>4. Range(alScene') = Range(alScene) \cup {h} /\ AlOnce(alScene')
  <2>1. alScene \in Seq(AlGroups) /\ AlOnce(alScene)
    BY AlRunIs DEF AlShape
  <2>2. CASE h \in Range(alScene)
    BY <2>1, <2>2 DEF SetDevice
  <2>3. CASE h \notin Range(alScene)
    <3>1. \A list \in Seq(AlGroups) : h \notin Range(list) /\ AlOnce(list) =>
              Range(Append(list, h)) = Range(list) \cup {h} /\ AlOnce(Append(list, h))
      BY AlMore
    <3>. QED BY <2>1, <2>3, <3>1 DEF SetDevice
  <2>. QED BY <2>2, <2>3
<1>5. AlShape'
  BY <1>1, <1>2, <1>3, <1>4, AlRunIs DEF AlShape, AlListed, AlAtHand
<1>6. ASSUME NEW g \in AlGroups, NEW c \in AlConfigs
      PROVE  AlKept(g, c)' /\ AlRecovered(g, c)'
  <2>1. AlKept(g, c) /\ alGroup[g].configs # {} => alGroup[g].there
    BY AlInvIs
  <2>. QED BY <1>1, <1>2, <1>3, <1>4, <2>1, AlInvIs DEF AlKept, AlRecovered, AlListed, AlPending, AlAtHand, AlFresh, AlActs
<1>7. ASSUME NEW g \in AlGroups
      PROVE  AlTold(g)' /\ AlHeld(g)'
  BY <1>1, <1>2, <1>3, <1>4, AlInvIs DEF AlTold, AlHeld, AlListed, AlPending, AlAtHand, AlEarly
<1>8. AlWorks'
  BY <1>1, AlRunIs DEF AlWorks, AlEarly, AlActs
<1>. QED BY <1>5, <1>6, <1>7, <1>8 DEF AlInv, AlGroupsKnown

(* A check of a group that does not hold.                                  *)
LEMMA AlMissInv ==
    ASSUME AlByDevice, AlInv, AlTyped', NEW h \in AlGroups, CheckGroup(h), ~AlPasses(h),
           alRun' = [alRun EXCEPT !.at = "recover", !.todo = @ \ {h}, !.group = h]
    PROVE  AlInv'
<1>1. /\ alRun.at = "check" /\ h \in alRun.todo
      /\ UNCHANGED <<alGroup, alScene, alMarks, alRaised, alTimer>>
      /\ alRun'.at = "recover" /\ alRun'.held = alRun.held /\ alRun'.todo = alRun.todo \ {h}
      /\ alRun'.failed = alRun.failed /\ alRun'.spoilt = alRun.spoilt /\ alRun'.group = h
  BY AlRunIs DEF CheckGroup, SetDevice, AlAt, AlRuns
<1>2. /\ alSays'[h] = {}
      /\ \A g \in AlGroups : g # h => alSays'[g] = alSays[g] /\ alDoubt'[g] = alDoubt[g]
      /\ alRun.spoilt => alDoubt'[h] = alDoubt[h]
      /\ alDoubt'[h] \in {"none", "check"} => alDoubt[h] \in {"none", "check"}
      /\ alDoubt'[h] \in {"held"} => alDoubt[h] \in {"held"}
  BY AlAboutIs, AlInvIs, AlRunIs DEF CheckGroup, AlChecked, AlTyped
<1>3. AlShape'
  BY <1>1, <1>2, AlRunIs DEF AlShape, AlListed, AlAtHand
<1>4. ASSUME NEW g \in AlGroups, NEW c \in AlConfigs
      PROVE  AlKept(g, c)' /\ AlRecovered(g, c)'
  BY <1>1, <1>2, AlInvIs DEF AlKept, AlRecovered, AlListed, AlPending, AlAtHand, AlFresh, AlActs
<1>5. ASSUME NEW g \in AlGroups
      PROVE  AlTold(g)' /\ AlHeld(g)'
  BY <1>1, <1>2, AlInvIs DEF AlTold, AlHeld, AlListed, AlPending, AlAtHand, AlEarly
<1>6. AlWorks'
  BY <1>1, AlRunIs DEF AlWorks, AlEarly, AlActs
<1>. QED BY <1>3, <1>4, <1>5, <1>6 DEF AlInv, AlGroupsKnown

(* The alarms of the group are recovered.                                  *)
LEMMA AlRecoverInv ==
    ASSUME AlInv, AlTyped', RecoverGroup
    PROVE  AlInv'
<1>. DEFINE h == alRun.group
<1>. USE DEF alCache, alChecked
<1>1. /\ alRun.at = "recover" /\ h \in AlGroups
      /\ UNCHANGED <<alCache, alChecked, alTimer>>
      /\ alRun'.at = "forget" /\ alRun'.held = alRun.held /\ alRun'.todo = alRun.todo
      /\ alRun'.failed = alRun.failed /\ alRun'.spoilt = alRun.spoilt /\ alRun'.group = h
  BY AlRunIs DEF RecoverGroup, AlGo, AlAt, AlRuns, AlTyped
<1>2. /\ \A g \in AlGroups : g # h => alRaised'[g] = alRaised[g]
      /\ \A c \in AlConfigs :
            alRaised'[h][c] = IF c \in alGroup[h].configs THEN alRaised[h][c] \ alGroup[h].devices ELSE alRaised[h][c]
  <2>. DEFINE rows == [c \in AlConfigs |->
            IF c \in alGroup[h].configs THEN alRaised[h][c] \ alGroup[h].devices ELSE alRaised[h][c]]
  <2>1. alRaised' = [alRaised EXCEPT ![h] = rows]
    BY DEF RecoverGroup
  <2>2. alRaised \in [AlGroups -> [AlConfigs -> SUBSET AlDevices]]
    BY AlRunIs DEF AlTyped
  <2>3. \A c \in AlConfigs : rows[c] =
            IF c \in alGroup[h].configs THEN alRaised[h][c] \ alGroup[h].devices ELSE alRaised[h][c]
    OBVIOUS
  <2>. HIDE DEF rows
  <2>4. alRaised'[h] = rows /\ \A g \in AlGroups : g # h => alRaised'[g] = alRaised[g]
    BY <1>1, <2>1, <2>2
  <2>. QED BY <2>3, <2>4
<1>3. AlShape'
  <2>1. \A g \in AlGroups, c \in AlConfigs : alRaised'[g][c] \subseteq alRaised[g][c]
    BY <1>1, <1>2
  <2>2. \A g \in AlGroups, c \in AlConfigs : alRaised'[g][c] \subseteq AlSources[g]
    BY <2>1, AlRunIs DEF AlShape
  <2>. QED BY <1>1, <2>2, AlRunIs DEF AlShape, AlListed, AlAtHand
<1>4. ASSUME NEW c \in AlConfigs, alDoubt[h] # "cycle" PROVE alRaised'[h][c] = {}
  <2>1. alGroup[h].configs = AlConfigs \/ alRaised[h][c] = {}
    BY <1>1, <1>4, AlInvIs DEF AlKept, AlHeld, AlPending, AlAtHand, AlFresh
  <2>2. alGroup[h].configs = AlConfigs => alGroup[h].devices = AlSources[h]
    BY <1>1, AlInvIs
  <2>3. alRaised[h][c] \subseteq AlSources[h]
    BY <1>1, AlInvIs
  <2>. QED BY <1>2, <2>1, <2>2, <2>3
<1>5. ASSUME NEW g \in AlGroups, NEW c \in AlConfigs
      PROVE  AlKept(g, c)' /\ AlRecovered(g, c)'
  <2>1. CASE g = h
    BY <1>1, <1>4, <2>1, AlInvIs DEF AlKept, AlRecovered, AlListed, AlPending, AlAtHand, AlFresh, AlActs
  <2>2. CASE g # h
    BY <1>1, <1>2, <2>2, AlInvIs DEF AlKept, AlRecovered, AlListed, AlPending, AlAtHand, AlFresh, AlActs
  <2>. QED BY <2>1, <2>2
<1>6. ASSUME NEW g \in AlGroups
      PROVE  AlTold(g)' /\ AlHeld(g)'
  <2>1. CASE g = h
    BY <1>1, <2>1, AlInvIs DEF AlTold, AlHeld, AlListed, AlPending, AlAtHand, AlEarly
  <2>2. CASE g # h
    BY <1>1, <1>2, <2>2, AlInvIs DEF AlTold, AlHeld, AlListed, AlPending, AlAtHand, AlEarly
  <2>. QED BY <2>1, <2>2
<1>7. AlWorks'
  BY <1>1, AlRunIs DEF AlWorks, AlEarly, AlActs
<1>. QED BY <1>3, <1>5, <1>6, <1>7 DEF AlInv, AlGroupsKnown

(* The group is taken out of the cache.                                    *)
LEMMA AlForgetInv ==
    ASSUME AlInv, AlTyped', Forget
    PROVE  AlInv'
<1>. DEFINE h == alRun.group
<1>1. /\ alRun.at = "forget" /\ h \in AlGroups
      /\ UNCHANGED <<alRaised, alSays, alTimer>>
      /\ alRun'.at = "check" /\ alRun'.held = alRun.held /\ alRun'.todo = alRun.todo
      /\ alRun'.failed = alRun.failed /\ alRun'.spoilt = alRun.spoilt /\ alRun'.group = h
  BY AlRunIs DEF Forget, AlGo, AlAt, AlRuns, AlTyped
<1>2. /\ \A g \in AlGroups : g # h => alGroup'[g] = alGroup[g] /\ alDoubt'[g] = alDoubt[g]
      /\ ~alGroup'[h].there /\ alGroup'[h].devices = {} /\ alGroup'[h].configs = {}
      /\ alDoubt'[h] = IF alDoubt[h] = "held" /\ ~alRun.spoilt THEN "none" ELSE alDoubt[h]
  BY <1>1, AlRunIs DEF Forget, DeleteGroup, AlForgotten, AlNoKey, AlTyped
<1>3. Range(alScene') = Range(alScene) \ {h} /\ AlOnce(alScene')
  <2>1. alScene \in Seq(AlGroups) /\ AlOnce(alScene)
    BY AlRunIs DEF AlShape
  <2>2. CASE ~alGroup[h].there
    <3>1. h \notin Range(alScene)
      BY <1>1, <2>2, AlInvIs DEF AlListed
    <3>. QED BY <2>1, <2>2, <3>1 DEF Forget, DeleteGroup
  <2>3. CASE alGroup[h].there
    <3>1. \A list \in Seq(AlGroups) : \A g \in AlGroups : AlOnce(list) =>
              Range(AlWithout(list, g)) = Range(list) \ {g} /\ AlOnce(AlWithout(list, g))
      BY AlLess
    <3>. QED BY <1>1, <2>1, <2>3, <3>1 DEF Forget, DeleteGroup
  <2>. QED BY <2>2, <2>3
<1>4. \A c \in AlConfigs, d \in AlDevices :
          /\ \A g \in AlGroups : g # h => (g \in alMarks'[c][d] <=> g \in alMarks[c][d])
          /\ h \in alMarks'[c][d] => h \in alMarks[c][d] /\ ~(c \in alGroup[h].configs /\ d \in alGroup[h].devices)
  BY <1>1, AlRunIs DEF Forget, DeleteGroup, DeleteMarks, AlTyped
<1>5. \A g \in AlGroups : AlSources[g] \subseteq AlDevices
  BY AlAssumption
<1>6. AlShape'
  BY <1>1, <1>2, <1>3, AlRunIs DEF AlShape, AlListed, AlAtHand
<1>7. ASSUME NEW g \in AlGroups, NEW c \in AlConfigs
      PROVE  AlKept(g, c)' /\ AlRecovered(g, c)'
  <2>1. CASE g = h
    <3>1. alDoubt'[h] \in {"none", "check"} => alRaised[h][c] = {}
      BY <1>1, <1>2, AlInvIs DEF AlRecovered
    <3>2. alDoubt'[h] \in {"none", "check"} => \A d \in AlSources[h] : h \notin alMarks'[c][d]
      <4>. SUFFICES ASSUME alDoubt'[h] \in {"none", "check"}, NEW d \in AlSources[h], h \in alMarks'[c][d] PROVE FALSE
        OBVIOUS
      <4>1. alGroup[h].configs = AlConfigs
        BY <1>1, <1>2, <1>4, <1>5, AlInvIs DEF AlKept, AlFresh, AlHeld, AlAtHand, AlPending
      <4>2. alGroup[h].devices = AlSources[h]
        BY <1>1, <4>1, AlInvIs
      <4>. QED BY <1>1, <1>4, <1>5, <4>1, <4>2
    <3>. QED BY <1>1, <2>1, <3>1, <3>2 DEF AlKept, AlRecovered, AlFresh, AlActs
  <2>2. CASE g # h
    BY <1>1, <1>2, <1>3, <1>4, <1>5, <2>2, AlInvIs DEF AlKept, AlRecovered, AlListed, AlPending, AlFresh, AlActs
  <2>. QED BY <2>1, <2>2
<1>8. ASSUME NEW g \in AlGroups
      PROVE  AlTold(g)' /\ AlHeld(g)'
  <2>1. CASE g = h
    BY <1>1, <1>2, <2>1, AlInvIs DEF AlTold, AlHeld, AlAtHand
  <2>2. CASE g # h
    BY <1>1, <1>2, <1>3, <2>2, AlInvIs DEF AlTold, AlHeld, AlListed, AlPending, AlAtHand, AlEarly
  <2>. QED BY <2>1, <2>2
<1>9. AlWorks'
  BY <1>1, AlRunIs DEF AlWorks, AlEarly, AlActs
<1>. QED BY <1>6, <1>7, <1>8, <1>9 DEF AlInv, AlGroupsKnown

(* An action passes a group of the scene.                                  *)
LEMMA AlAlarmInv ==
    ASSUME AlInv, AlTyped', AlarmGroup
    PROVE  AlInv'
<1>. DEFINE h == Head(alRun.left)
            a == alRun.config
<1>1. /\ alRun.at = "alarm" /\ a \in AlConfigs /\ alRun.left # <<>>
      /\ UNCHANGED <<alGroup, alScene, alMarks, alSays, alDoubt, alTimer>>
  BY AlRunIs DEF AlarmGroup, AlAt, AlTyped, alCache, alChecked
<1>2. h \in AlGroups /\ Range(alRun.left) = {h} \cup Range(Tail(alRun.left))
  <2>1. \A list \in Seq(AlGroups) : list # <<>> =>
            Head(list) \in AlGroups /\ Range(list) = {Head(list)} \cup Range(Tail(list))
    BY AlRest
  <2>. QED BY <1>1, <2>1, AlRunIs
<1>3. h \in Range(alScene) /\ alGroup[h].there /\ alGroup[h].devices = AlSources[h]
  BY <1>1, <1>2, AlRunIs, AlInvIs DEF AlShape, AlListed
<1>4. /\ alRun'.at = "alarm" /\ alRun'.left = Tail(alRun.left) /\ alRun'.config = a
      /\ alRun'.actions = alRun.actions /\ alRun'.spoilt = alRun.spoilt /\ alRun'.failed = alRun.failed
      /\ alRun'.ok \/ alRun'.reason = "exists"
  BY AlRunIs DEF AlarmGroup, AlAt, AlRuns
<1>5. CASE Marked(h, a) /\ UNCHANGED alRaised
  <2>1. AlShape'
    BY <1>1, <1>2, <1>4, <1>5, AlRunIs DEF AlShape, AlListed, AlAtHand
  <2>2. AlFresh(h) => alRaised[h][a] = AlSources[h]
    BY <1>1, <1>2, <1>3, <1>5, AlInvIs DEF Marked, AlKept
  <2>3. ASSUME NEW g \in AlGroups, NEW c \in AlConfigs
        PROVE  AlKept(g, c)' /\ AlRecovered(g, c)'
    BY <1>1, <1>2, <1>4, <1>5, <2>2, AlInvIs DEF AlKept, AlRecovered, AlListed, AlPending, AlFresh, AlActs
  <2>4. ASSUME NEW g \in AlGroups
        PROVE  AlTold(g)' /\ AlHeld(g)'
    BY <1>1, <1>4, <1>5, AlInvIs DEF AlTold, AlHeld, AlListed, AlPending, AlAtHand, AlEarly
  <2>5. AlWorks'
    BY <1>1, <1>4, AlRunIs DEF AlWorks, AlEarly, AlActs, AlLost
  <2>. QED BY <2>1, <2>3, <2>4, <2>5 DEF AlInv, AlGroupsKnown
<1>6. CASE Raise(h, a, alGroup[h].devices)
  <2>1. /\ \A c \in AlConfigs : c # a => alRaised'[h][c] = alRaised[h][c]
        /\ \A g \in AlGroups : g # h => alRaised'[g] = alRaised[g]
        /\ alRaised'[h][a] = AlSources[h]
    <3>. DEFINE rows == [alRaised[h] EXCEPT ![a] = alRaised[h][a] \cup AlSources[h]]
    <3>1. alRaised' = [alRaised EXCEPT ![h] = rows]
      BY <1>3, <1>6 DEF Raise
    <3>2. alRaised \in [AlGroups -> [AlConfigs -> SUBSET AlDevices]] /\ alRaised[h][a] \subseteq AlSources[h]
      BY <1>1, <1>2, AlRunIs, AlInvIs DEF AlTyped
    <3>3. alRaised[h] \in [AlConfigs -> SUBSET AlDevices]
      BY <1>2, <3>2
    <3>4. rows[a] = alRaised[h][a] \cup AlSources[h] /\ \A c \in AlConfigs : c # a => rows[c] = alRaised[h][c]
      BY <1>1, <3>3
    <3>. HIDE DEF rows
    <3>5. alRaised'[h] = rows /\ \A g \in AlGroups : g # h => alRaised'[g] = alRaised[g]
      BY <1>2, <3>1, <3>2
    <3>. QED BY <3>2, <3>4, <3>5
  <2>2. AlShape'
    <3>1. \A g \in AlGroups, c \in AlConfigs : alRaised'[g][c] \subseteq AlSources[g]
      BY <2>1, AlRunIs DEF AlShape
    <3>. QED BY <1>1, <1>2, <1>4, <3>1, AlRunIs DEF AlShape, AlListed, AlAtHand
  <2>3. ASSUME NEW g \in AlGroups, NEW c \in AlConfigs
        PROVE  AlKept(g, c)' /\ AlRecovered(g, c)'
    <3>1. CASE g = h /\ c = a
      BY <1>1, <1>2, <1>3, <1>4, <2>1, <3>1, AlInvIs DEF AlKept, AlRecovered, AlListed, AlPending, AlFresh, AlActs
    <3>2. CASE ~(g = h /\ c = a)
      <4>1. alRaised'[g][c] = alRaised[g][c]
        BY <2>1, <3>2
      <4>. QED BY <1>1, <1>2, <1>4, <3>2, <4>1, AlInvIs DEF AlKept, AlRecovered, AlListed, AlPending, AlFresh, AlActs
    <3>. QED BY <3>1, <3>2
  <2>4. ASSUME NEW g \in AlGroups
        PROVE  AlTold(g)' /\ AlHeld(g)'
    BY <1>1, <1>4, AlInvIs DEF AlTold, AlHeld, AlListed, AlPending, AlAtHand, AlEarly
  <2>5. AlWorks'
    BY <1>1, <1>4, AlRunIs DEF AlWorks, AlEarly, AlActs, AlLost
  <2>. QED BY <2>2, <2>3, <2>4, <2>5 DEF AlInv, AlGroupsKnown
<1>. QED BY <1>5, <1>6 DEF AlarmGroup

(* A group of the scene is marked.                                         *)
LEMMA AlMarkInv ==
    ASSUME AlInv, AlTyped', MarkGroup
    PROVE  AlInv'
<1>. DEFINE h == Head(alRun.left)
<1>1. /\ alRun.at = "mark" /\ alRun.left # <<>>
      /\ UNCHANGED <<alScene, alRaised, alSays, alDoubt, alTimer>>
  BY AlRunIs DEF MarkGroup, AlAt, alChecked
<1>2. h \in AlGroups /\ Range(alRun.left) = {h} \cup Range(Tail(alRun.left))
  <2>1. \A list \in Seq(AlGroups) : list # <<>> =>
            Head(list) \in AlGroups /\ Range(list) = {Head(list)} \cup Range(Tail(list))
    BY AlRest
  <2>. QED BY <1>1, <2>1, AlRunIs
<1>3. h \in Range(alScene) /\ alGroup[h].there /\ alGroup[h].devices = AlSources[h]
  BY <1>1, <1>2, AlRunIs, AlInvIs DEF AlShape, AlListed
<1>4. /\ alRun'.at = "mark" /\ alRun'.left = Tail(alRun.left)
      /\ alRun'.actions = alRun.actions /\ alRun'.spoilt = alRun.spoilt /\ alRun'.failed = alRun.failed
  BY AlRunIs DEF MarkGroup, AlAt, AlRuns
<1>5. /\ \A g \in AlGroups : g # h => alGroup'[g] = alGroup[g]
      /\ alGroup'[h].there /\ alGroup'[h].configs = AlConfigs /\ alGroup'[h].devices = AlSources[h]
  <2>1. alGroup' = [alGroup EXCEPT ![h] = [alGroup[h] EXCEPT !.there = TRUE, !.configs = AlConfigs]]
    BY DEF MarkGroup, SetAlarm
  <2>2. alGroup \in [AlGroups -> AlKeys] /\ alGroup[h] \in AlKeys
    BY <1>2, AlRunIs DEF AlTyped
  <2>3. alGroup'[h] = [alGroup[h] EXCEPT !.there = TRUE, !.configs = AlConfigs]
    BY <1>2, <2>1, <2>2
  <2>. QED BY <1>3, <2>1, <2>2, <2>3 DEF AlKeys
<1>6. \A c \in AlConfigs, d \in AlDevices : \A g \in AlGroups : g # h => (g \in alMarks'[c][d] <=> g \in alMarks[c][d])
  BY <1>2, AlRunIs DEF MarkGroup, SetAlarm, AlTyped
<1>7. \A g \in AlGroups : AlSources[g] \subseteq AlDevices
  BY AlAssumption
<1>8. AlShape'
  BY <1>1, <1>2, <1>3, <1>4, <1>5, AlRunIs DEF AlShape, AlListed, AlAtHand
<1>9. ASSUME NEW g \in AlGroups, NEW c \in AlConfigs
      PROVE  AlKept(g, c)' /\ AlRecovered(g, c)'
  <2>1. CASE g = h
    BY <1>1, <1>2, <1>3, <1>4, <1>5, <2>1, AlInvIs DEF AlKept, AlRecovered, AlListed, AlPending, AlFresh, AlActs
  <2>2. CASE g # h
    BY <1>1, <1>2, <1>4, <1>5, <1>6, <1>7, <2>2, AlInvIs DEF AlKept, AlRecovered, AlListed, AlPending, AlFresh, AlActs
  <2>. QED BY <2>1, <2>2
<1>10. ASSUME NEW g \in AlGroups
       PROVE  AlTold(g)' /\ AlHeld(g)'
  <2>1. CASE g = h
    <3>1. AlTold(g)'
      <4>1. alSays[g] = {} => ~AlSources[g] # {} \/ alDoubt[g] # "none"
        BY <1>1, <1>3, <2>1, AlInvIs DEF AlTold, AlAtHand
      <4>. QED BY <1>1, <1>2, <1>3, <1>4, <2>1, <4>1, AlInvIs DEF AlTold, AlListed, AlEarly
    <3>2. AlHeld(g)'
      BY <1>1, <1>3, <1>5, <2>1 DEF AlHeld, AlListed
    <3>. QED BY <3>1, <3>2
  <2>2. CASE g # h
    BY <1>1, <1>2, <1>4, <1>5, <2>2, AlInvIs DEF AlTold, AlHeld, AlListed, AlPending, AlAtHand, AlEarly
  <2>. QED BY <2>1, <2>2
<1>11. AlWorks'
  BY <1>1, <1>4, AlRunIs DEF AlWorks, AlEarly, AlActs, AlLost
<1>. QED BY <1>8, <1>9, <1>10, <1>11 DEF AlInv, AlGroupsKnown

(* The scheduler looks a group up.                                         *)
LEMMA AlTimerLooksInv ==
    ASSUME AlInv, AlTyped', NEW g \in AlGroups, NEW c \in AlConfigs, TimerLooks(g, c)
    PROVE  AlInv'
<1>. USE DEF alCache, alChecked
<1>1. /\ alTimer'.group = g /\ alTimer'.devices = alGroup[g].devices
      /\ UNCHANGED <<alCache, alRun, alRaised, alChecked>>
  BY DEF TimerLooks
<1>2. alGroup[g].devices \subseteq AlSources[g]
  BY AlInvIs, AlRunIs DEF AlTyped
<1>3. AlShape'
  BY <1>1, <1>2, AlRunIs DEF AlShape, AlListed, AlAtHand
<1>4. AlGroupsKnown'
  BY <1>1 DEF AlInv, AlGroupsKnown, AlKept, AlRecovered, AlTold, AlHeld, AlListed, AlPending, AlAtHand, AlFresh
<1>5. AlWorks'
  BY <1>1 DEF AlInv, AlWorks, AlLost
<1>. QED BY <1>3, <1>4, <1>5 DEF AlInv

(* It raises the alarm of the group, whatever has become of it.            *)
LEMMA AlTimerRaisesInv ==
    ASSUME AlInv, AlTyped', TimerRaises
    PROVE  AlInv'
<1>. DEFINE h == alTimer.group
            a == alTimer.config
<1>. USE DEF alCache
<1>1. /\ h \in AlGroups /\ a \in AlConfigs /\ alTimer.devices \subseteq AlSources[h] /\ alTimer' = AlNobody
      /\ UNCHANGED <<alCache, alRun, alSays>>
  BY AlRunIs DEF TimerRaises, AlTyped, AlShape
<1>2. alDoubt'[h] = "cycle" /\ \A g \in AlGroups : g # h => alDoubt'[g] = alDoubt[g]
  BY <1>1, AlRunIs DEF TimerRaises, AlTyped
<1>3. /\ \A c \in AlConfigs : alRaised'[h][c] \subseteq AlSources[h]
      /\ \A g \in AlGroups : g # h => alRaised'[g] = alRaised[g]
  <2>. DEFINE rows == [alRaised[h] EXCEPT ![a] = alRaised[h][a] \cup alTimer.devices]
  <2>1. alRaised' = [alRaised EXCEPT ![h] = rows]
    BY DEF TimerRaises, Raise
  <2>2. alRaised \in [AlGroups -> [AlConfigs -> SUBSET AlDevices]] /\ \A c \in AlConfigs : alRaised[h][c] \subseteq AlSources[h]
    BY <1>1, AlRunIs, AlInvIs DEF AlTyped
  <2>3. alRaised[h] \in [AlConfigs -> SUBSET AlDevices]
    BY <1>1, <2>2
  <2>4. \A c \in AlConfigs : rows[c] \subseteq AlSources[h]
    BY <1>1, <2>2, <2>3
  <2>. HIDE DEF rows
  <2>5. alRaised'[h] = rows /\ \A g \in AlGroups : g # h => alRaised'[g] = alRaised[g]
    BY <1>1, <2>1, <2>2
  <2>. QED BY <2>4, <2>5
<1>4. AlShape'
  <2>1. \A g \in AlGroups, c \in AlConfigs : alRaised'[g][c] \subseteq AlSources[g]
    BY <1>3, AlRunIs DEF AlShape
  <2>2. \A g \in AlGroups : alRun.spoilt => alDoubt'[g] \in {"check", "cycle"}
    BY <1>2, AlRunIs DEF AlShape
  <2>. QED BY <1>1, <2>1, <2>2, AlRunIs DEF AlShape, AlListed, AlAtHand
<1>5. ASSUME NEW g \in AlGroups, NEW c \in AlConfigs
      PROVE  AlKept(g, c)' /\ AlRecovered(g, c)' /\ AlTold(g)' /\ AlHeld(g)'
  <2>1. CASE g = h
    BY <1>2, <2>1 DEF AlKept, AlRecovered, AlTold, AlHeld, AlFresh
  <2>2. CASE g # h
    BY <1>1, <1>2, <1>3, <2>2, AlInvIs DEF AlKept, AlRecovered, AlTold, AlHeld, AlListed, AlPending, AlAtHand, AlFresh
  <2>. QED BY <2>1, <2>2
<1>6. ASSUME NEW g \in AlGroups
      PROVE  AlTold(g)' /\ AlHeld(g)'
  BY <1>1, <1>5
<1>7. AlWorks'
  BY <1>1, <1>2, AlRunIs DEF AlWorks, AlLost
<1>. QED BY <1>4, <1>5, <1>6, <1>7 DEF AlInv, AlGroupsKnown

(* A heavy fault, in a report that goes on or stops.                       *)
LEMMA AlHeavyInv ==
    ASSUME AlInv, AlTyped', AlFault(TRUE), UNCHANGED <<alCache, alRaised, alSays, alTimer>>,
           alRun'.at \in AlEarly => ~alRun'.failed,
           alRun'.at \in {"recover", "forget"} => alRun.at \in {"recover", "forget"} /\ alRun'.group = alRun.group,
           alRun'.at \in {"alarm", "mark"} => Range(alRun'.left) \subseteq Range(alScene)
    PROVE  AlInv'
<1>1. \A g \in AlGroups : alDoubt'[g] = "cycle"
  BY DEF AlFault
<1>2. AlShape'
  BY <1>1, AlRunIs DEF AlShape, AlListed, AlAtHand, alCache
<1>. QED BY <1>1, <1>2, AlLostInv

(* A light fault, before the actions and with the groups as they were but  *)
(* for one that has held.                                                  *)
LEMMA AlLightInv ==
    ASSUME AlInv, AlTyped', AlFault(FALSE), UNCHANGED <<alScene, alMarks, alRaised, alTimer>>,
           alRun.at \in {"check", "recover"}, alRun'.at \in {"idle", "check"}, alRun'.at = "check" => ~alRun'.failed,
           \A g \in AlGroups : /\ alSays'[g] \in {alSays[g], AlSources[g]}
                               /\ alGroup[g].there => alGroup'[g] = alGroup[g]
                               /\ ~alGroup[g].there /\ alGroup'[g] # alGroup[g] =>
                                     /\ alGroup'[g].there
                                     /\ alGroup'[g].devices = AlSources[g] /\ alGroup'[g].configs = {}
    PROVE  AlInv'
<1>1. \A g \in AlGroups : /\ alDoubt'[g] \in {"check", "cycle"}
                          /\ alDoubt'[g] = "check" => alDoubt[g] \in {"none", "check"}
  BY AlRunIs DEF AlFault, AlTyped
<1>2. AlShape'
  BY <1>1, AlRunIs DEF AlShape, AlListed, AlAtHand
<1>3. ASSUME NEW g \in AlGroups, NEW c \in AlConfigs
      PROVE  AlKept(g, c)' /\ AlRecovered(g, c)'
  <2>1. alGroup[g].configs # {} => alGroup[g].there
    BY AlInvIs
  <2>. QED BY <1>1, <2>1, AlInvIs DEF AlKept, AlRecovered, AlListed, AlPending, AlFresh, AlActs
<1>4. ASSUME NEW g \in AlGroups
      PROVE  AlTold(g)' /\ AlHeld(g)'
  BY <1>1 DEF AlTold, AlHeld
<1>5. AlWorks'
  BY DEF AlWorks, AlEarly, AlActs
<1>. QED BY <1>2, <1>3, <1>4, <1>5 DEF AlInv, AlGroupsKnown

LEMMA AlFailInv ==
    ASSUME AlByDevice, AlInv, AlTyped',
           \/ RecoveryLost \/ AlarmFails \/ StopReport \/ CallFails
           \/ \E g \in AlGroups : SetDeviceFails(g)
    PROVE  AlInv'
<1>1. CASE RecoveryLost
  <2>1. /\ alRun.at = "recover" /\ alRun'.at = "forget" /\ alRun'.group = alRun.group /\ ~alRun'.failed
        /\ AlFault(TRUE) /\ UNCHANGED <<alCache, alRaised, alSays, alTimer>>
    BY <1>1, AlRunIs DEF RecoveryLost, AlAt, AlRuns, AlWorks, AlEarly
  <2>. QED BY <2>1, AlHeavyInv
<1>2. CASE AlarmFails
  <2>1. /\ alRun.at = "alarm" /\ alRun'.at = "alarm" /\ alRun'.left = Tail(alRun.left) /\ alRun.left # <<>>
        /\ AlFault(TRUE) /\ UNCHANGED <<alCache, alRaised, alSays, alTimer>>
    BY <1>2, AlRunIs DEF AlarmFails, AlAt, AlRuns
  <2>2. \A list \in Seq(AlGroups) : list # <<>> => Range(Tail(list)) \subseteq Range(list)
    BY AlRest
  <2>3. Range(alRun'.left) \subseteq Range(alScene)
    BY <2>1, <2>2, AlRunIs DEF AlShape
  <2>. QED BY <2>1, <2>3, AlHeavyInv DEF AlEarly
<1>3. CASE StopReport
  <2>1. /\ alRun'.at = "idle" /\ UNCHANGED <<alCache, alRaised, alSays, alTimer>>
        /\ AlFault(alRun.at \notin {"check", "recover"})
    BY <1>3, AlIdleType DEF StopReport
  <2>2. CASE alRun.at \in {"check", "recover"}
    <3>1. AlFault(FALSE)
      BY <2>1, <2>2 DEF AlFault
    <3>. QED BY <2>1, <2>2, <3>1, AlLightInv DEF alCache
  <2>3. CASE alRun.at \notin {"check", "recover"}
    <3>1. AlFault(TRUE)
      BY <2>1, <2>3 DEF AlFault
    <3>. QED BY <2>1, <3>1, AlHeavyInv DEF AlEarly
  <2>. QED BY <2>2, <2>3
<1>4. CASE CallFails
  <2>1. /\ alRun.at \in {"recover", "forget", "mark"} /\ UNCHANGED <<alCache, alRaised, alSays, alTimer>>
        /\ alRun.at = "mark" => alRun'.at = "idle"
        /\ alRun.at # "mark" => alRun'.at = "check" /\ ~alRun'.failed
        /\ AlFault(alRun.at # "recover")
    BY <1>4, AlIdleType, AlRunIs DEF CallFails, AlAt, AlRuns, AlWorks, AlEarly
  <2>2. CASE alRun.at = "recover"
    <3>1. AlFault(FALSE)
      BY <2>1, <2>2 DEF AlFault
    <3>. QED BY <2>1, <2>2, <3>1, AlLightInv DEF alCache
  <2>3. CASE alRun.at # "recover"
    <3>1. AlFault(TRUE)
      BY <2>1, <2>3 DEF AlFault
    <3>. QED BY <2>1, <2>3, <3>1, AlHeavyInv DEF AlEarly
  <2>. QED BY <2>2, <2>3
<1>5. CASE \E g \in AlGroups : SetDeviceFails(g)
  <2>. PICK g \in AlGroups : SetDeviceFails(g)
    BY <1>5
  <2>1. /\ alRun.at = "check" /\ alRun'.at = "check" /\ ~alRun'.failed
        /\ AlFault(FALSE) /\ UNCHANGED <<alScene, alMarks, alRaised, alTimer>>
    BY AlRunIs DEF SetDeviceFails, AlAt, AlRuns, AlWorks, AlEarly
  <2>2. \A h \in AlGroups : alSays'[h] \in {alSays[h], AlSources[h]}
    <3>1. alSays' = [alSays EXCEPT ![g] = alSays[g] \cup AlSources[g]]
      BY AlAboutIs DEF SetDeviceFails
    <3>2. alSays \in [AlGroups -> SUBSET AlDevices] /\ alSays[g] \in {{}, AlSources[g]}
      BY AlInvIs, AlRunIs DEF AlTyped
    <3>3. \A h \in AlGroups : h # g => alSays'[h] = alSays[h]
      BY <3>1, <3>2
    <3>4. alSays'[g] = AlSources[g]
      BY <3>1, <3>2
    <3>. QED BY <3>3, <3>4
  <2>3. \A h \in AlGroups : /\ alGroup[h].there => alGroup'[h] = alGroup[h]
                            /\ ~alGroup[h].there /\ alGroup'[h] # alGroup[h] =>
                                  /\ alGroup'[h].there
                                  /\ alGroup'[h].devices = AlSources[h] /\ alGroup'[h].configs = {}
    BY AlAboutIs, AlRunIs DEF SetDeviceFails, KeepGroup, AlTyped
  <2>. QED BY <2>1, <2>2, <2>3, AlLightInv
<1>. QED BY <1>1, <1>2, <1>3, <1>4, <1>5

LEMMA AlInitInv == AlInit => AlInv
<1>. SUFFICES ASSUME AlInit PROVE AlInv
  OBVIOUS
<1>1. AlTyped
  BY AlInitTyped DEF AlTypeInv
<1>2. AlShape
  BY AlNoList DEF AlInit, AlShape, AlListed, AlAtHand, AlIdle, AlNoKey
<1>3. AlGroupsKnown
  <2>1. /\ alRun.at = "idle"
        /\ \A g \in AlGroups : ~alGroup[g].there /\ alSays[g] = {} /\ alDoubt[g] = "none"
        /\ \A g \in AlGroups, c \in AlConfigs : alRaised[g][c] = {}
    BY DEF AlInit, AlIdle, AlNoKey
  <2>2. \A g \in AlGroups, c \in AlConfigs : \A d \in AlSources[g] : g \notin alMarks[c][d]
    BY AlAssumption DEF AlInit
  <2>3. ASSUME NEW g \in AlGroups, NEW c \in AlConfigs
        PROVE  AlKept(g, c) /\ AlRecovered(g, c)
    BY <2>1, <2>2 DEF AlKept, AlRecovered, AlActs
  <2>4. ASSUME NEW g \in AlGroups
        PROVE  AlTold(g) /\ AlHeld(g)
    BY <2>1 DEF AlTold, AlHeld
  <2>. QED BY <2>3, <2>4 DEF AlGroupsKnown
<1>4. AlWorks
  BY DEF AlInit, AlWorks, AlEarly, AlActs, AlIdle
<1>. QED BY <1>1, <1>2, <1>3, <1>4 DEF AlInv

LEMMA AlNextInv ==
    ASSUME AlByDevice, AlInv, [AlNext]_alVars
    PROVE  AlInv'
<1>0. AlTyped'
  BY AlNextType DEF AlInv
<1>1. CASE UNCHANGED alVars
  BY <1>1, AlSameInv DEF alVars
<1>2. CASE \E d \in AlDevices : NewValues(d) \/ AlReport(d)
  BY <1>0, <1>2, AlSameInv, AlReportInv DEF NewValues
<1>3. CASE \E g \in AlGroups : CheckGroup(g)
  <2>. PICK g \in AlGroups : CheckGroup(g)
    BY <1>3
  <2>. QED BY <1>0, AlPassInv, AlMissInv DEF CheckGroup
<1>4. CASE \/ RecoveryLost \/ AlarmFails \/ StopReport \/ CallFails
           \/ \E g \in AlGroups : SetDeviceFails(g)
  BY <1>0, <1>4, AlFailInv
<1>5. CASE \/ RecoverGroup \/ Forget \/ AllChecked \/ EndAlarm \/ AfterActions \/ EndReport
           \/ \E c \in AlConfigs : StartAlarm(c)
  BY <1>0, <1>5, AlRecoverInv, AlForgetInv, AlAllCheckedInv, AlStartInv, AlEndAlarmInv, AlAfterInv, AlEndReportInv
<1>6. CASE AlarmGroup \/ MarkGroup
  BY <1>0, <1>6, AlAlarmInv, AlMarkInv
<1>7. CASE (\E g \in AlGroups, c \in AlConfigs : TimerLooks(g, c)) \/ TimerRaises
  BY <1>0, <1>7, AlTimerLooksInv, AlTimerRaisesInv
<1>. QED BY <1>1, <1>2, <1>3, <1>4, <1>5, <1>6, <1>7 DEF AlNext

(* The alarm history tells what the last check of each group has found,    *)
(* for any groups, devices, alarm configurations, faults and runs of the   *)
(* scheduler, when no group has conditions on a configuration of devices   *)
(* (such a group is checked for the device that reports, but keeps the     *)
(* devices of its first report).                                           *)
THEOREM AlarmHistoryIsTrue ==
    ASSUME AlByDevice
    PROVE  AlSpec => []AlHistoryTellsTruth
<1>1. AlInit => AlInv
  BY AlInitInv
<1>2. AlInv /\ [AlNext]_alVars => AlInv'
  BY AlNextInv
<1>3. AlInv => AlHistoryTellsTruth
  <2>. SUFFICES ASSUME AlInv, AlAt("idle"), NEW g \in AlGroups, NEW c \in AlConfigs, alDoubt[g] = "none"
                PROVE  alRaised[g][c] = alSays[g]
    BY DEF AlHistoryTellsTruth
  <2>1. alSays[g] \in {{}, AlSources[g]} /\ alRaised[g][c] \subseteq AlSources[g]
    BY AlInvIs
  <2>2. CASE AlSources[g] = {}
    BY <2>1, <2>2
  <2>3. CASE AlSources[g] # {} /\ alSays[g] = AlSources[g]
    BY <2>3, AlInvIs DEF AlTold, AlAt
  <2>4. CASE AlSources[g] # {} /\ alSays[g] = {}
    <3>1. ~alGroup[g].there
      BY <2>4, AlInvIs DEF AlTold, AlAt, AlAtHand
    <3>2. alGroup[g].configs = {} /\ ~AlPending(g)
      BY <3>1, AlInvIs DEF AlPending
    <3>. QED BY <2>4, <3>2, AlInvIs DEF AlKept, AlFresh
  <2>. QED BY <2>1, <2>2, <2>3, <2>4
<1>. QED BY <1>1, <1>2, <1>3, PTL DEF AlSpec

=============================================================================
