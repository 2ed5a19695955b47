-------------------------- MODULE BundleProofs --------------------------
(***************************************************************************)
(* Theorems about BundleInstall, for any bundle, any number of keys and    *)
(* calls.  The first part (Base) holds however calls overlap and repeat:   *)
(* types, and that what is configured or mapped exists.  The second (Calm) *)
(* is about an installation of which no write was lost: BiKeyInv says what *)
(* it has and what the call that works on it knows of that.  That a call   *)
(* is alone on its installation is needed all over; the code does not see  *)
(* to it, so it is a hypothesis of the last theorem, BiOrderly.            *)
(***************************************************************************)
EXTENDS BundleInstall, TLAPS, FunctionTheorems, SequenceTheorems, FiniteSetTheorems

(* The bundles.  Where a call may be, and what its record holds there.     *)

BiBuild    == {"fetch", "verify", "look", "create", "map", "config", "save", "resolve",
               "import", "mapboard", "bindboard", "bind"}
BiEarly    == {"fetch", "verify", "look", "create", "map"}
BiBoarding == {"import", "mapboard", "bindboard"}
BiLate     == {"rebind", "count", "complete"}
BiRepairs  == {"retry", "list", "clean", "unmap"}
BiShows    == {"record", "undo"}
BiPlaces   == {"idle", "fail", "check", "flag"} \cup BiBuild \cup BiLate \cup BiRepairs \cup BiShows
BiUnderWay == {"DOWNLOADING", "DOWNLOADED", "VERIFIED", "MODELS_INSTALLED", "DASHBOARDS_CREATED"}

BiMaps   == [of : BiKeys, key : BiNames \cup BiPlans, id : Nat, active : BOOLEAN]
BiMakes  == [id : Nat, name : BiNames, by : BiKeys]
BiLocals == [at : BiPlaces, of : BiKeys \cup {"", "instance"}, next : Nat, todo : SUBSET BiMaps,
             row : BiMaps \cup {BiNoMap}, waits : BOOLEAN, id : [BiNames -> Nat]]

(* What the record of a call says about where it is.                       *)
BiPlace(r) ==
    /\ r.at = "idle" => r = BiIdle
    /\ r.at \in BiShows <=> r.of = "instance"
    /\ r.at \notin BiShows \cup {"idle"} => r.of \in BiKeys
    /\ r.at \in {"resolve", "bind"} \cup BiBoarding \cup BiLate => r.of \in BiInstalls
    /\ r.next >= 1
    /\ r.at \in {"create", "map"} => r.next <= Len(BiTemplates)
    /\ r.at \in {"mapboard", "bindboard"} \cup BiLate \cup BiShows => r.next <= Len(BiBoards)
    /\ r.waits => r.at = "bind"
    /\ \A m \in r.todo : m.of = r.of
    /\ r.todo # {} => r.at \in {"clean", "unmap"}
    /\ r.at = "unmap" => r.row \in BiMaps /\ r.row.of = r.of

BiSideTyped ==
    /\ biStatus \in [BiKeys -> BiStatuses]
    /\ biBoard \subseteq (BiInstalls \cup BiCalls) \X BiPlans
    /\ biBinding \in [BiInstalls -> [BiPlans -> {"none", "bound", "failed"}]]
    /\ biInstance \subseteq BiCalls \X BiPlans
    /\ biCleaned \subseteq BiKeys /\ biDoubt \subseteq BiKeys \cup {"instance"}
    /\ biCalls \in 0..BiMaxCalls /\ biFaults \in 0..BiMaxFaults

BiTyped ==
    /\ BiSideTyped
    /\ biTemplate \subseteq BiMakes /\ biIds \in 0..BiMaxTemplates /\ biConfig \subseteq Nat
    /\ biMapping \subseteq BiMaps /\ biSaved \in [BiPlans -> Nat]
    /\ biCall \in [BiCalls -> BiLocals]
    /\ \A c \in BiCalls : BiPlace(biCall[c])

(* A template that has a configuration exists; what is configured stays.   *)
BiReady(r) ==
    /\ r.at = "config" => \A i \in 1..Len(BiTemplates) : i < r.next => r.id[BiTemplates[i]] \in biConfig
    /\ r.at = "save" => \A n \in BiNames : r.id[n] \in biConfig

BiKept ==
    /\ \A t \in biTemplate : t.id \in 1..biIds
    /\ \A id \in biConfig : BiExists(id)
    /\ biDevice \in biConfig \cup {0}
    /\ \A b \in BiPlans : biSaved[b] # 0 => biSaved[b] \in biConfig
    /\ \A c \in BiCalls : BiReady(biCall[c])

(* A row of the mapping is about what its installation has made.           *)
BiHasRow(m) == \E n \in biMapping : n.of = m.of /\ n.key = m.key /\ n.id = m.id

BiOwned ==
    /\ \A m \in biMapping :
         /\ m.id <= biIds /\ (m.key \in BiPlans => m.id = 0)
         /\ \A t \in biTemplate : t.id = m.id => t.by = m.of
    /\ \A m, n \in biMapping : m.of = n.of /\ m.key = n.key => m = n
    /\ \A c \in BiCalls :
         /\ \A m \in biCall[c].todo : BiHasRow(m) /\ m.active
         /\ BiAt(c) = "unmap" => BiHasRow(biCall[c].row) /\ biCall[c].row.active
         /\ BiAt(c) = "map" =>
              /\ biCall[c].id[BiName(c)] \in 1..biIds
              /\ \A t \in biTemplate : t.id = biCall[c].id[BiName(c)] => t.by = BiOf(c)

BiBase == BiTyped /\ BiKept /\ BiOwned

-----------------------------------------------------------------------------
(* One installation k, of which no write was lost: what it has, and what   *)
(* the calls that work on it know of that.                                 *)
BiRowsOf(k)  == {m \in biMapping : m.of = k}
BiMadeBy(k)  == {t \in biTemplate : t.by = k}
BiShownBy(k) == {b \in BiPlans : <<k, b>> \in biBoard}
BiWorkers(k) == {c \in BiCalls : BiOf(c) = k}

BiStatusFits(r, k) ==
    /\ r.at \in BiBuild \cup {"fail"} => biStatus[k] \in BiUnderWay
    /\ r.at \in {"check", "flag"} => biStatus[k] = "FAILED"
    /\ r.at \in BiRepairs => biStatus[k] \in {"FAILED", "COMPENSATION_REQUIRED"}
    /\ r.at \in BiLate => biStatus[k] \in {"WAITING_FOR_BINDINGS", "COMPLETED"}

BiRowsFit(r, k) ==
    /\ r.at \in {"create", "map"} => \A m \in BiRowsOf(k) : m.key # BiTemplates[r.next]
    /\ r.at = "map" => \E t \in BiMadeBy(k) : t.id = r.id[BiTemplates[r.next]] /\ t.name = BiTemplates[r.next]
    /\ k \in BiInstalls /\ r.at \in BiEarly =>
         \A m \in BiRowsOf(k) : \E i \in 1..Len(BiTemplates) : i < r.next /\ m.key = BiTemplates[i]
    /\ r.at = "resolve" => \A m \in BiRowsOf(k) : m.key \in BiNames
    /\ r.at \in {"import", "mapboard"} => \A m \in BiRowsOf(k) :
         m.key \in BiNames \/ \E i \in 1..Len(BiBoards) : i < r.next /\ m.key = BiBoards[i]
    /\ r.at = "bindboard" => \A m \in BiRowsOf(k) :
         m.key \in BiNames \/ \E i \in 1..Len(BiBoards) : i <= r.next /\ m.key = BiBoards[i]

BiBindFits(r, k) ==
    /\ r.at \in BiBoarding =>
         \A i \in 1..Len(BiBoards) : i < r.next => biBinding[k][BiBoards[i]] # "none"
    /\ r.at = "bind" => \A b \in BiPlans : biBinding[k][b] # "none"
    /\ r.at = "bind" /\ r.waits => \E i \in 1..Len(BiBoards) :
         i < r.next /\ BiBoards[i] \in BiRequired /\ biBinding[k][BiBoards[i]] = "failed"

BiCleanFits(r, k) ==
    /\ r.at \in {"clean", "unmap"} =>
         /\ \A t \in BiMadeBy(k) : t.id \in biConfig \/ \E m \in r.todo : m.id = t.id
         /\ \A b \in BiShownBy(k) : \E m \in r.todo : m.key = b
    /\ r.at = "unmap" => /\ \A t \in BiMadeBy(k) : t.id # r.row.id
                         /\ r.row.key \notin BiShownBy(k)

BiFit(r, k) == BiStatusFits(r, k) /\ BiRowsFit(r, k) /\ BiBindFits(r, k) /\ BiCleanFits(r, k)

(* Calls on one installation do not overlap, but for late bindings.        *)
BiAlone(k) == \A c, d \in BiWorkers(k) : c # d => BiAt(c) \in BiLate

(* What was made and has no configuration is in an active row, or on its   *)
(* way into one.                                                           *)
BiTracked(k) ==
    /\ \A t \in BiMadeBy(k) :
         \/ t.id \in biConfig
         \/ \E m \in BiRowsOf(k) : m.active /\ m.id = t.id
         \/ \E c \in BiWorkers(k) : BiAt(c) = "map" /\ biCall[c].id[BiName(c)] = t.id
    /\ \A b \in BiShownBy(k) :
         \/ \E m \in BiRowsOf(k) : m.active /\ m.key = b
         \/ \E c \in BiWorkers(k) : BiAt(c) = "mapboard" /\ BiPlan(c) = b

(* FAILED: nothing is left, or it is not checked yet.  Waiting: there is   *)
(* what to wait for, or it is not counted yet.                             *)
BiClear(k) == (\A t \in BiMadeBy(k) : t.id \in biConfig) /\ BiShownBy(k) = {}
BiFailedTold(k) ==
    biStatus[k] = "FAILED" => BiClear(k) \/ \E c \in BiWorkers(k) : BiAt(c) \in {"check", "flag"}
BiWaitingTold(k) ==
    k \in BiInstalls /\ biStatus[k] = "WAITING_FOR_BINDINGS" =>
        \/ \E b \in BiRequired : biBinding[k][b] = "failed"
        \/ \E c \in BiWorkers(k) : BiAt(c) \in {"count", "complete"}

(* A download that was not compensated has every template that it has a    *)
(* row for; one that was is not repeated; and before the first status      *)
(* there are no rows.                                                      *)
BiPresent(k) ==
    k \in BiDownloads \ biCleaned /\ (\A c \in BiWorkers(k) : BiAt(c) \notin {"clean", "unmap"}) =>
        \A m \in BiRowsOf(k) : \E t \in BiMadeBy(k) : t.id = m.id /\ t.name = m.key
BiRests(k)   == k \in BiDownloads \cap biCleaned => \A c \in BiWorkers(k) : BiAt(c) \notin BiBuild
BiNoneYet(k) == biStatus[k] = "none" => BiRowsOf(k) = {}

BiTells(k) ==
    /\ BiAlone(k) /\ BiTracked(k) /\ BiFailedTold(k) /\ BiWaitingTold(k)
    /\ BiPresent(k) /\ BiRests(k) /\ BiNoneYet(k)

BiKeyInv(k) == (\A c \in BiWorkers(k) : BiFit(biCall[c], k)) /\ BiTells(k)

BiCalmInv == \A k \in BiKeys \ biDoubt : BiKeyInv(k)

(* A dashboard of a call is recorded, or the call is about to do so.       *)
BiShown ==
    "instance" \notin biDoubt => \A c \in BiCalls, b \in BiPlans : <<c, b>> \in biBoard =>
        <<c, b>> \in biInstance \/ (BiOf(c) = "instance" /\ BiPlan(c) = b)

BiInv == BiBase /\ BiCalmInv /\ BiShown

-----------------------------------------------------------------------------
(* What a step does to the record of its call.                             *)
BiMove(c, r) == r \in BiLocals /\ biCall' = [biCall EXCEPT ![c] = r]

(* The lists of the bundle and their elements.                             *)
LEMMA BiListsAre ==
    /\ Len(BiTemplates) \in Nat /\ Len(BiBoards) \in Nat
    /\ \A i \in 1..Len(BiTemplates) : BiTemplates[i] \in BiNames
    /\ \A i \in 1..Len(BiBoards) : BiBoards[i] \in BiPlans
    /\ \A n \in BiNames : \E i \in 1..Len(BiTemplates) : n = BiTemplates[i]
    /\ \A b \in BiPlans : \E i \in 1..Len(BiBoards) : b = BiBoards[i]
<1>1. Len(BiTemplates) \in Nat /\ Len(BiBoards) \in Nat
  <2>1. BiTemplates \in Seq(BiNames) /\ BiBoards \in Seq(BiPlans)
    BY BiListsAssumption
  <2>. QED BY <2>1, LenProperties
<1>2. /\ \A i \in 1..Len(BiTemplates) : BiTemplates[i] \in BiNames
      /\ \A n \in BiNames : \E i \in 1..Len(BiTemplates) : n = BiTemplates[i]
  BY DEF BiNames
<1>3. /\ \A i \in 1..Len(BiBoards) : BiBoards[i] \in BiPlans
      /\ \A b \in BiPlans : \E i \in 1..Len(BiBoards) : b = BiBoards[i]
  BY DEF BiPlans
<1>. QED BY <1>1, <1>2, <1>3

(* The bounds are numbers.                                                 *)
LEMMA BiNumbersAre ==
    BiMaxCalls \in Nat /\ BiMaxTemplates \in Nat /\ BiMaxFaults \in Nat
BY BiAssumption

(* Keys are neither calls nor the marks of a record.                       *)
LEMMA BiKeysAre ==
    /\ "" \notin BiKeys /\ "instance" \notin BiKeys
    /\ BiInstalls \subseteq BiKeys /\ BiDownloads \subseteq BiKeys /\ BiInstalls \cap BiDownloads = {}
    /\ \A k \in BiKeys : k \notin BiCalls
<1>1. /\ "" \notin BiKeys /\ "instance" \notin BiKeys /\ BiInstalls \cap BiDownloads = {}
      /\ BiCalls \cap BiKeys = {}
  BY BiAssumption, BiListsAssumption
<1>. QED BY <1>1 DEF BiKeys

(* The record of a call that does nothing.                                 *)
LEMMA BiIdleIs ==
    /\ BiIdle \in BiLocals /\ BiPlace(BiIdle)
    /\ BiIdle.at = "idle" /\ BiIdle.of = "" /\ BiIdle.next = 1 /\ BiIdle.todo = {} /\ ~BiIdle.waits
<1>1. BiIdle \in BiLocals
  <2>1. [n \in BiNames |-> 0] \in [BiNames -> Nat]
    OBVIOUS
  <2>2. "idle" \in BiPlaces /\ {} \in SUBSET BiMaps
    BY DEF BiPlaces
  <2>. QED BY <2>1, <2>2 DEF BiIdle, BiLocals
<1>2. /\ BiIdle.at = "idle" /\ BiIdle.of = "" /\ BiIdle.next = 1 /\ BiIdle.todo = {} /\ ~BiIdle.waits
  BY DEF BiIdle
<1>3. BiPlace(BiIdle)
  <2>. DEFINE r == BiIdle
  <2>1. r.at = "idle" /\ r.of # "instance" /\ ~r.waits /\ r.todo = {}
    BY DEF BiIdle
  <2>0. r.next >= 1
    BY DEF BiIdle
  <2>2. r.at \notin BiShows /\ r.at \notin {"resolve", "bind"} \cup BiBoarding \cup BiLate
    BY <1>2 DEF BiShows, BiBoarding, BiLate
  <2>3. r.at \notin {"mapboard", "bindboard"} \cup BiLate \cup BiShows
    BY <1>2 DEF BiShows, BiLate
  <2>4. r = BiIdle
    OBVIOUS
  <2>. HIDE DEF r
  <2>5. BiPlace(r)
    BY <2>0, <2>1, <2>2, <2>3, <2>4 DEF BiPlace
  <2>. QED BY <2>4, <2>5
<1>. QED BY <1>1, <1>2, <1>3

(* What a record holds, and where it is.                                   *)
LEMMA BiCallIs ==
    ASSUME BiTyped, NEW c \in BiCalls
    PROVE  /\ biCall[c] \in BiLocals /\ BiPlace(biCall[c])
           /\ biCall[c].at \in BiPlaces /\ biCall[c].of \in BiKeys \cup {"", "instance"}
           /\ biCall[c].next \in Nat /\ biCall[c].next >= 1
           /\ biCall[c].next + 1 \in Nat /\ biCall[c].next + 1 >= 1
           /\ biCall[c].todo \subseteq BiMaps /\ biCall[c].waits \in BOOLEAN
           /\ biCall[c].id \in [BiNames -> Nat]
           /\ biCall[c].at = "idle" => biCall[c].of = ""
           /\ biCall[c].at \notin BiShows \cup {"idle"} => biCall[c].of \in BiKeys
<1>1. biCall[c] \in BiLocals /\ BiPlace(biCall[c])
  BY DEF BiTyped
<1>2. /\ biCall[c].at \in BiPlaces /\ biCall[c].of \in BiKeys \cup {"", "instance"}
      /\ biCall[c].next \in Nat
      /\ biCall[c].todo \subseteq BiMaps /\ biCall[c].waits \in BOOLEAN
      /\ biCall[c].id \in [BiNames -> Nat]
  BY <1>1 DEF BiLocals
<1>5. biCall[c].next + 1 \in Nat /\ biCall[c].next + 1 >= 1
  <2>1. biCall[c].next \in Nat
    BY <1>2
  <2>. QED BY <2>1
<1>3. /\ biCall[c].next >= 1
      /\ biCall[c].at \notin BiShows \cup {"idle"} => biCall[c].of \in BiKeys
  BY <1>1 DEF BiPlace
<1>4. biCall[c].at = "idle" => biCall[c].of = ""
  BY <1>1, BiIdleIs DEF BiPlace
<1>. QED BY <1>1, <1>2, <1>3, <1>4, <1>5

(* A move replaces one record, and leaves the others.                      *)
LEMMA BiMoveIs ==
    ASSUME BiTyped, NEW c \in BiCalls, NEW r, BiMove(c, r)
    PROVE  /\ r \in BiLocals /\ biCall' \in [BiCalls -> BiLocals] /\ biCall'[c] = r
           /\ \A d \in BiCalls : d # c => biCall'[d] = biCall[d]
           /\ r.at \in BiPlaces /\ r.next \in Nat /\ r.todo \subseteq BiMaps /\ r.waits \in BOOLEAN
           /\ r.id \in [BiNames -> Nat]
<1>1. r \in BiLocals /\ biCall \in [BiCalls -> BiLocals] /\ biCall' = [biCall EXCEPT ![c] = r]
  BY DEF BiMove, BiTyped
<1>2. /\ r.at \in BiPlaces /\ r.next \in Nat /\ r.todo \subseteq BiMaps /\ r.waits \in BOOLEAN
      /\ r.id \in [BiNames -> Nat]
  BY <1>1 DEF BiLocals
<1>. QED BY <1>1, <1>2

(* A call goes to another place.                                           *)
LEMMA BiStepIs ==
    ASSUME BiTyped, NEW c \in BiCalls, NEW place \in BiPlaces, BiStep(c, place)
    PROVE  \E r : /\ BiMove(c, r) /\ r.at = place /\ r.of = biCall[c].of /\ r.next = biCall[c].next
                  /\ r.todo = biCall[c].todo /\ r.row = biCall[c].row /\ r.waits = biCall[c].waits
                  /\ r.id = biCall[c].id
<1>. DEFINE r == [biCall[c] EXCEPT !.at = place]
<1>0. biCall[c] \in BiLocals
  BY BiCallIs
<1>1. r \in BiLocals
  BY <1>0 DEF BiLocals
<1>2. /\ r.at = place /\ r.of = biCall[c].of /\ r.next = biCall[c].next
      /\ r.todo = biCall[c].todo /\ r.row = biCall[c].row /\ r.waits = biCall[c].waits
      /\ r.id = biCall[c].id
  BY <1>0 DEF BiLocals
<1>3. biCall' = [biCall EXCEPT ![c] = r]
  BY DEF BiStep
<1>. HIDE DEF r
<1>. QED BY <1>1, <1>2, <1>3 DEF BiMove

(* A call begins its next list.                                            *)
LEMMA BiTurnIs ==
    ASSUME BiTyped, NEW c \in BiCalls, NEW place \in BiPlaces, BiTurn(c, place)
    PROVE  \E r : /\ BiMove(c, r) /\ r.at = place /\ r.of = biCall[c].of /\ r.next = 1
                  /\ r.todo = biCall[c].todo /\ r.row = biCall[c].row /\ r.waits = biCall[c].waits
                  /\ r.id = biCall[c].id
<1>. DEFINE r == [biCall[c] EXCEPT !.at = place, !.next = 1]
<1>0. biCall[c] \in BiLocals
  BY BiCallIs
<1>1. r \in BiLocals
  BY <1>0 DEF BiLocals
<1>2. /\ r.at = place /\ r.of = biCall[c].of /\ r.next = 1
      /\ r.todo = biCall[c].todo /\ r.row = biCall[c].row /\ r.waits = biCall[c].waits
      /\ r.id = biCall[c].id
  BY <1>0 DEF BiLocals
<1>3. biCall' = [biCall EXCEPT ![c] = r]
  BY BiCallIs DEF BiTurn, BiTyped
<1>. HIDE DEF r
<1>. QED BY <1>1, <1>2, <1>3 DEF BiMove

(* The other ways in which the record of a call changes.                   *)
LEMMA BiNextIs ==
    ASSUME BiTyped, NEW c \in BiCalls,
           biCall' = [biCall EXCEPT ![c].next = @ + 1]
    PROVE  \E r : /\ BiMove(c, r) /\ r.next = biCall[c].next + 1 /\ r.at = biCall[c].at
                  /\ r.of = biCall[c].of /\ r.todo = biCall[c].todo /\ r.row = biCall[c].row
                  /\ r.waits = biCall[c].waits /\ r.id = biCall[c].id
<1>. DEFINE r == [biCall[c] EXCEPT !.next = biCall[c].next + 1]
<1>0. biCall[c] \in BiLocals
  BY BiCallIs
<1>1. r \in BiLocals
  <2>0. biCall[c].next + 1 \in Nat
    BY BiCallIs
  <2>. QED BY <1>0, <2>0 DEF BiLocals
<1>2. /\ r.next = biCall[c].next + 1 /\ r.at = biCall[c].at /\ r.of = biCall[c].of
      /\ r.todo = biCall[c].todo /\ r.row = biCall[c].row /\ r.waits = biCall[c].waits
      /\ r.id = biCall[c].id
  BY <1>0 DEF BiLocals
<1>3. biCall' = [biCall EXCEPT ![c] = r]
  BY BiCallIs DEF BiTyped
<1>. HIDE DEF r
<1>. QED BY <1>1, <1>2, <1>3 DEF BiMove

(* A dashboard is bound: back to the next one.                             *)
LEMMA BiBindBoardIs ==
    ASSUME BiTyped, NEW c \in BiCalls,
           BiBindBoard(c)
    PROVE  \E r : /\ BiMove(c, r) /\ r.at = "import" /\ r.next = biCall[c].next + 1
                  /\ r.of = biCall[c].of /\ r.todo = biCall[c].todo /\ r.row = biCall[c].row
                  /\ r.waits = biCall[c].waits /\ r.id = biCall[c].id
<1>. DEFINE r == [biCall[c] EXCEPT !.at = "import", !.next = biCall[c].next + 1]
<1>0. biCall[c] \in BiLocals
  BY BiCallIs
<1>1. r \in BiLocals
  <2>0. biCall[c].next + 1 \in Nat
    BY BiCallIs
  <2>1. "import" \in BiPlaces
    BY DEF BiPlaces, BiBuild
  <2>. QED BY <1>0, <2>0, <2>1 DEF BiLocals
<1>2. /\ r.at = "import" /\ r.next = biCall[c].next + 1 /\ r.of = biCall[c].of
      /\ r.todo = biCall[c].todo /\ r.row = biCall[c].row /\ r.waits = biCall[c].waits
      /\ r.id = biCall[c].id
  BY <1>0 DEF BiLocals
<1>3. biCall' = [biCall EXCEPT ![c] = r]
  BY BiCallIs DEF BiTyped, BiBindBoard
<1>. HIDE DEF r
<1>. QED BY <1>1, <1>2, <1>3 DEF BiMove

(* A template is mapped: back to the next one.                             *)
LEMMA BiMapTemplateIs ==
    ASSUME BiTyped, NEW c \in BiCalls,
           BiMapTemplate(c)
    PROVE  \E r : /\ BiMove(c, r) /\ r.at = "look" /\ r.next = biCall[c].next + 1
                  /\ r.of = biCall[c].of /\ r.todo = biCall[c].todo /\ r.row = biCall[c].row
                  /\ r.waits = biCall[c].waits /\ r.id = biCall[c].id
<1>. DEFINE r == [biCall[c] EXCEPT !.at = "look", !.next = biCall[c].next + 1]
<1>0. biCall[c] \in BiLocals
  BY BiCallIs
<1>1. r \in BiLocals
  <2>0. biCall[c].next + 1 \in Nat
    BY BiCallIs
  <2>1. "look" \in BiPlaces
    BY DEF BiPlaces, BiBuild
  <2>. QED BY <1>0, <2>0, <2>1 DEF BiLocals
<1>2. /\ r.at = "look" /\ r.next = biCall[c].next + 1 /\ r.of = biCall[c].of
      /\ r.todo = biCall[c].todo /\ r.row = biCall[c].row /\ r.waits = biCall[c].waits
      /\ r.id = biCall[c].id
  BY <1>0 DEF BiLocals
<1>3. biCall' = [biCall EXCEPT ![c] = r]
  BY BiCallIs DEF BiTyped, BiMapTemplate
<1>. HIDE DEF r
<1>. QED BY <1>1, <1>2, <1>3 DEF BiMove

(* A binding is processed, and may be waited for.                          *)
LEMMA BiWaitsIs ==
    ASSUME BiTyped, NEW c \in BiCalls, NEW w \in BOOLEAN,
           biCall' = [biCall EXCEPT ![c].next = @ + 1, ![c].waits = @ \/ w]
    PROVE  \E r : /\ BiMove(c, r) /\ r.next = biCall[c].next + 1
                  /\ r.waits = (biCall[c].waits \/ w) /\ r.at = biCall[c].at
                  /\ r.of = biCall[c].of /\ r.todo = biCall[c].todo /\ r.row = biCall[c].row
                  /\ r.id = biCall[c].id
<1>. DEFINE r == [biCall[c] EXCEPT !.next = biCall[c].next + 1, !.waits = biCall[c].waits \/ w]
<1>0. biCall[c] \in BiLocals
  BY BiCallIs
<1>1. r \in BiLocals
  <2>0. biCall[c].next + 1 \in Nat
    BY BiCallIs
  <2>1. (biCall[c].waits \/ w) \in BOOLEAN
    OBVIOUS
  <2>. QED BY <1>0, <2>0, <2>1 DEF BiLocals
<1>2. /\ r.next = biCall[c].next + 1 /\ r.waits = (biCall[c].waits \/ w) /\ r.at = biCall[c].at
      /\ r.of = biCall[c].of /\ r.todo = biCall[c].todo /\ r.row = biCall[c].row
      /\ r.id = biCall[c].id
  BY <1>0 DEF BiLocals
<1>3. biCall' = [biCall EXCEPT ![c] = r]
  BY BiCallIs DEF BiTyped
<1>. HIDE DEF r
<1>. QED BY <1>1, <1>2, <1>3 DEF BiMove

(* A compensation takes the rows that are active.                          *)
LEMMA BiListIs ==
    ASSUME BiTyped, NEW c \in BiCalls, BiList(c), ~BiEnd(c)
    PROVE  \E r : /\ BiMove(c, r) /\ r.at = "clean" /\ r.todo = BiActive(BiOf(c)) /\ r.of = biCall[c].of
                  /\ r.next = biCall[c].next /\ r.row = biCall[c].row /\ r.waits = biCall[c].waits
                  /\ r.id = biCall[c].id
<1>. DEFINE r == [biCall[c] EXCEPT !.at = "clean", !.todo = BiActive(BiOf(c))]
<1>0. biCall[c] \in BiLocals /\ BiActive(BiOf(c)) \in SUBSET BiMaps /\ "clean" \in BiPlaces
  BY BiCallIs DEF BiPlaces, BiRepairs, BiActive, BiTyped
<1>1. r \in BiLocals
  BY <1>0 DEF BiLocals
<1>2. /\ r.at = "clean" /\ r.todo = BiActive(BiOf(c)) /\ r.of = biCall[c].of
      /\ r.next = biCall[c].next /\ r.row = biCall[c].row /\ r.waits = biCall[c].waits
      /\ r.id = biCall[c].id
  BY <1>0 DEF BiLocals
<1>3. biCall' = [biCall EXCEPT ![c] = r]
  BY BiCallIs DEF BiList, BiTyped
<1>. HIDE DEF r
<1>. QED BY <1>1, <1>2, <1>3 DEF BiMove

BiTake(c, m) == biCall' = [biCall EXCEPT ![c].at = "unmap", ![c].row = m, ![c].todo = @ \ {m}]
BiDrop(c, m) == biCall' = [biCall EXCEPT ![c].todo = @ \ {m}]

(* A resource is deleted, its row is still to be marked.                   *)
LEMMA BiTakeIs ==
    ASSUME BiTyped, NEW c \in BiCalls, NEW m \in BiMaps,
           BiTake(c, m)
    PROVE  \E r : /\ BiMove(c, r) /\ r.at = "unmap" /\ r.row = m
                  /\ r.todo = biCall[c].todo \ {m} /\ r.of = biCall[c].of
                  /\ r.next = biCall[c].next /\ r.waits = biCall[c].waits /\ r.id = biCall[c].id
<1>. DEFINE r == [biCall[c] EXCEPT !.at = "unmap", !.row = m, !.todo = biCall[c].todo \ {m}]
<1>0. biCall[c] \in BiLocals
  BY BiCallIs
<1>1. r \in BiLocals
  <2>1. biCall[c].todo \ {m} \in SUBSET BiMaps
    BY BiCallIs
  <2>. QED BY <1>0, <2>1 DEF BiLocals, BiPlaces, BiRepairs
<1>2. /\ r.at = "unmap" /\ r.row = m /\ r.todo = biCall[c].todo \ {m} /\ r.of = biCall[c].of
      /\ r.next = biCall[c].next /\ r.waits = biCall[c].waits /\ r.id = biCall[c].id
  BY <1>0 DEF BiLocals
<1>3. biCall' = [biCall EXCEPT ![c] = r]
  BY BiCallIs DEF BiTyped, BiTake
<1>. HIDE DEF r
<1>. QED BY <1>1, <1>2, <1>3 DEF BiMove

(* A resource is left where it is.                                         *)
LEMMA BiDropIs ==
    ASSUME BiTyped, NEW c \in BiCalls, NEW m,
           BiDrop(c, m)
    PROVE  \E r : /\ BiMove(c, r) /\ r.todo = biCall[c].todo \ {m} /\ r.at = biCall[c].at
                  /\ r.of = biCall[c].of /\ r.next = biCall[c].next /\ r.row = biCall[c].row
                  /\ r.waits = biCall[c].waits /\ r.id = biCall[c].id
<1>. DEFINE r == [biCall[c] EXCEPT !.todo = biCall[c].todo \ {m}]
<1>0. biCall[c] \in BiLocals
  BY BiCallIs
<1>1. r \in BiLocals
  <2>1. biCall[c].todo \ {m} \in SUBSET BiMaps
    BY BiCallIs
  <2>. QED BY <1>0, <2>1 DEF BiLocals
<1>2. /\ r.todo = biCall[c].todo \ {m} /\ r.at = biCall[c].at /\ r.of = biCall[c].of
      /\ r.next = biCall[c].next /\ r.row = biCall[c].row /\ r.waits = biCall[c].waits
      /\ r.id = biCall[c].id
  BY <1>0 DEF BiLocals
<1>3. biCall' = [biCall EXCEPT ![c] = r]
  BY BiCallIs DEF BiTyped, BiDrop
<1>. HIDE DEF r
<1>. QED BY <1>1, <1>2, <1>3 DEF BiMove

(* A row is marked: back to the next one.                                  *)
LEMMA BiDoneIs ==
    ASSUME BiTyped, NEW c \in BiCalls,
           biCall' = [biCall EXCEPT ![c].at = "clean", ![c].row = BiNoMap]
    PROVE  \E r : /\ BiMove(c, r) /\ r.at = "clean" /\ r.row = BiNoMap /\ r.of = biCall[c].of
                  /\ r.next = biCall[c].next /\ r.todo = biCall[c].todo
                  /\ r.waits = biCall[c].waits /\ r.id = biCall[c].id
<1>. DEFINE r == [biCall[c] EXCEPT !.at = "clean", !.row = BiNoMap]
<1>0. biCall[c] \in BiLocals
  BY BiCallIs
<1>1. r \in BiLocals
  BY <1>0 DEF BiLocals, BiPlaces, BiRepairs
<1>2. /\ r.at = "clean" /\ r.row = BiNoMap /\ r.of = biCall[c].of /\ r.next = biCall[c].next
      /\ r.todo = biCall[c].todo /\ r.waits = biCall[c].waits /\ r.id = biCall[c].id
  BY <1>0 DEF BiLocals
<1>3. biCall' = [biCall EXCEPT ![c] = r]
  BY BiCallIs DEF BiTyped
<1>. HIDE DEF r
<1>. QED BY <1>1, <1>2, <1>3 DEF BiMove

(* A template is there already.                                            *)
LEMMA BiFoundIs ==
    ASSUME BiTyped, NEW c \in BiCalls, NEW n \in BiNames, NEW id \in Nat,
           biCall' = [biCall EXCEPT ![c].id[n] = id, ![c].next = @ + 1]
    PROVE  \E r : /\ BiMove(c, r) /\ r.id = [biCall[c].id EXCEPT ![n] = id]
                  /\ r.next = biCall[c].next + 1 /\ r.at = biCall[c].at /\ r.of = biCall[c].of
                  /\ r.todo = biCall[c].todo /\ r.row = biCall[c].row
                  /\ r.waits = biCall[c].waits
<1>. DEFINE r == [biCall[c] EXCEPT !.id = [biCall[c].id EXCEPT ![n] = id], !.next = biCall[c].next + 1]
<1>0. biCall[c] \in BiLocals
  BY BiCallIs
<1>1. r \in BiLocals
  <2>0. biCall[c].next + 1 \in Nat
    BY BiCallIs
  <2>1. [biCall[c].id EXCEPT ![n] = id] \in [BiNames -> Nat]
    BY BiCallIs
  <2>. QED BY <1>0, <2>0, <2>1 DEF BiLocals, BiPlaces, BiBuild
<1>2. /\ r.id = [biCall[c].id EXCEPT ![n] = id] /\ r.next = biCall[c].next + 1
      /\ r.at = biCall[c].at /\ r.of = biCall[c].of /\ r.todo = biCall[c].todo
      /\ r.row = biCall[c].row /\ r.waits = biCall[c].waits
  BY <1>0 DEF BiLocals
<1>3. biCall' = [biCall EXCEPT ![c] = r]
  BY BiCallIs DEF BiTyped
<1>. HIDE DEF r
<1>. QED BY <1>1, <1>2, <1>3 DEF BiMove

(* A template is created, under the next number.                           *)
LEMMA BiCreateIs ==
    ASSUME BiTyped, NEW c \in BiCalls, BiCreate(c), BiName(c) \in BiNames
    PROVE  \E r : /\ BiMove(c, r) /\ r.at = "map" /\ r.id[BiName(c)] = biIds + 1 /\ r.of = biCall[c].of
                  /\ r.next = biCall[c].next /\ r.todo = biCall[c].todo /\ r.waits = biCall[c].waits
<1>. DEFINE r == [biCall[c] EXCEPT !.at = "map", !.id = [biCall[c].id EXCEPT ![BiName(c)] = biIds + 1]]
<1>0. biCall[c] \in BiLocals /\ biIds + 1 \in Nat /\ biIds' = biIds + 1
  <2>1. biIds \in 0..BiMaxTemplates /\ biIds' = biIds + 1
    BY DEF BiTyped, BiCreate
  <2>2. biIds \in Nat
    BY <2>1, BiNumbersAre
  <2>3. biIds + 1 \in Nat
    BY <2>2
  <2>4. biCall[c] \in BiLocals
    BY BiCallIs
  <2>. QED BY <2>1, <2>3, <2>4
<1>1. r \in BiLocals
  <2>1. [biCall[c].id EXCEPT ![BiName(c)] = biIds + 1] \in [BiNames -> Nat] /\ "map" \in BiPlaces
    BY <1>0, BiCallIs DEF BiPlaces, BiBuild
  <2>. QED BY <1>0, <2>1 DEF BiLocals
<1>2. /\ r.at = "map" /\ r.id[BiName(c)] = biIds + 1 /\ r.of = biCall[c].of
      /\ r.next = biCall[c].next /\ r.todo = biCall[c].todo /\ r.waits = biCall[c].waits
  BY <1>0, BiCallIs DEF BiLocals
<1>3. biCall' = [biCall EXCEPT ![c] = r]
  BY <1>0, BiCallIs DEF BiCreate, BiTyped
<1>. HIDE DEF r
<1>. QED BY <1>1, <1>2, <1>3 DEF BiMove

(* A call begins.                                                          *)
LEMMA BiBeginIs ==
    ASSUME BiTyped, NEW c \in BiCalls, NEW place \in BiPlaces, NEW k \in BiKeys, BiBegin(c, k, place)
    PROVE  \E r : /\ BiMove(c, r) /\ r.at = place /\ r.of = k /\ r.next = 1 /\ r.todo = {}
                  /\ ~r.waits
<1>. DEFINE r == [BiIdle EXCEPT !.at = place, !.of = k]
<1>1. r \in BiLocals
  BY BiIdleIs DEF BiLocals
<1>2. /\ r.at = place /\ r.of = k /\ r.next = 1 /\ r.todo = {}
      /\ ~r.waits
  BY DEF BiIdle
<1>3. biCall' = [biCall EXCEPT ![c] = r]
  BY DEF BiBegin
<1>. HIDE DEF r
<1>. QED BY <1>1, <1>2, <1>3 DEF BiMove

(* A late binding begins, at one of the dashboards.                        *)
LEMMA BiUpdateBindingIs ==
    ASSUME BiTyped, NEW c \in BiCalls, NEW k \in BiKeys, BiUpdateBinding(c, k)
    PROVE  \E r : /\ BiMove(c, r) /\ r.at = "rebind" /\ r.of = k /\ r.next \in 1..Len(BiBoards)
                  /\ r.todo = {} /\ ~r.waits
<1>0. PICK i \in 1..Len(BiBoards) :
         biCall' = [biCall EXCEPT ![c] = [BiIdle EXCEPT !.at = "rebind", !.of = k, !.next = i]]
  BY DEF BiUpdateBinding
<1>. DEFINE r == [BiIdle EXCEPT !.at = "rebind", !.of = k, !.next = i]
<1>1. r \in BiLocals
  <2>1. i \in Nat /\ "rebind" \in BiPlaces
    BY BiListsAre DEF BiPlaces, BiLate
  <2>. QED BY <2>1, BiIdleIs DEF BiLocals
<1>2. /\ r.at = "rebind" /\ r.of = k /\ r.next = i /\ r.todo = {}
      /\ ~r.waits
  BY DEF BiIdle
<1>3. biCall' = [biCall EXCEPT ![c] = r]
  BY <1>0
<1>. HIDE DEF r
<1>. QED BY <1>1, <1>2, <1>3 DEF BiMove

(* A dashboard is made from a template, and is to be recorded.             *)
LEMMA BiInstantiateIs ==
    ASSUME BiTyped, NEW c \in BiCalls, NEW b \in BiPlans, BiInstantiate(c, b)
    PROVE  \E r : /\ BiMove(c, r) /\ r.at = "record" /\ r.of = "instance" /\ r.next \in 1..Len(BiBoards)
                  /\ BiBoards[r.next] = b /\ r.todo = {} /\ ~r.waits
<1>0. PICK i \in {i \in 1..Len(BiBoards) : BiBoards[i] = b} :
         biCall' = [biCall EXCEPT ![c] = [BiIdle EXCEPT !.at = "record", !.of = "instance", !.next = i]]
  BY DEF BiInstantiate
<1>. DEFINE r == [BiIdle EXCEPT !.at = "record", !.of = "instance", !.next = i]
<1>1. r \in BiLocals
  <2>1. i \in Nat /\ "record" \in BiPlaces
    BY BiListsAre DEF BiPlaces, BiShows
  <2>. QED BY <2>1, BiIdleIs DEF BiLocals
<1>2. /\ r.at = "record" /\ r.of = "instance" /\ r.next = i /\ r.todo = {}
      /\ ~r.waits
  BY DEF BiIdle
<1>3. biCall' = [biCall EXCEPT ![c] = r]
  BY <1>0
<1>. HIDE DEF r
<1>. QED BY <1>1, <1>2, <1>3 DEF BiMove

(* A call ends.                                                            *)
LEMMA BiEndIs ==
    ASSUME BiTyped, NEW c \in BiCalls, BiEnd(c)
    PROVE  BiMove(c, BiIdle)
BY BiIdleIs DEF BiMove, BiEnd

-----------------------------------------------------------------------------
(* The base: types, and that what is configured or mapped exists.          *)
LEMMA BiLostTyped ==
    ASSUME BiTyped, NEW k \in BiKeys \cup {"instance"}, BiLost(k)
    PROVE  /\ biFaults' \in 0..BiMaxFaults
           /\ biDoubt' \subseteq BiKeys \cup {"instance"} /\ k \in biDoubt' /\ biDoubt \subseteq biDoubt'
<1>1. biFaults \in 0..BiMaxFaults /\ biDoubt \subseteq BiKeys \cup {"instance"}
  BY DEF BiTyped, BiSideTyped
<1>2. biFaults' \in 0..BiMaxFaults
  BY <1>1, BiNumbersAre DEF BiLost
<1>. QED BY <1>1, <1>2 DEF BiLost

(* No write fails.                                                         *)
LEMMA BiNoFaultTyped ==
    ASSUME BiTyped, BiNoFault
    PROVE  /\ biFaults' \in 0..BiMaxFaults
           /\ biDoubt' \subseteq BiKeys \cup {"instance"} /\ biDoubt' = biDoubt
BY DEF BiTyped, BiSideTyped, BiNoFault

(* What is told is the status of the installation, or the write is lost.   *)
LEMMA BiSayIs ==
    ASSUME BiTyped, NEW c \in BiCalls, NEW s \in BiStatuses, BiOf(c) \in BiKeys, BiSay(c, s)
    PROVE  /\ biStatus' \in [BiKeys -> BiStatuses]
           /\ biFaults' \in 0..BiMaxFaults
           /\ biDoubt' \subseteq BiKeys \cup {"instance"} /\ biDoubt \subseteq biDoubt'
           /\ \A k \in BiKeys : k # BiOf(c) => biStatus'[k] = biStatus[k]
           /\ BiOf(c) \notin biDoubt' => biStatus'[BiOf(c)] = s
<1>0. biStatus \in [BiKeys -> BiStatuses]
  BY DEF BiTyped, BiSideTyped
<1>1. CASE biStatus' = [biStatus EXCEPT ![BiOf(c)] = s] /\ BiNoFault
  BY <1>0, <1>1, BiNoFaultTyped
<1>2. CASE BiLost(BiOf(c)) /\ UNCHANGED biStatus
  BY <1>0, <1>2, BiLostTyped
<1>. QED BY <1>1, <1>2 DEF BiSay

(* A step of a call that touches neither templates nor rows of the mapping.*)
LEMMA BiCallBase ==
    ASSUME BiBase, NEW c \in BiCalls, NEW r, BiMove(c, r), BiPlace(r), BiSideTyped',
           UNCHANGED <<biTemplate, biIds, biMapping>>,
           biConfig \subseteq biConfig', \A id \in biConfig' : BiExists(id),
           biDevice' \in biConfig' \cup {0}, biSaved' \in [BiPlans -> Nat],
           \A b \in BiPlans : biSaved'[b] # 0 => biSaved'[b] \in biConfig',
           r.at # "map", BiReady(r)',
           \A m \in r.todo : BiHasRow(m) /\ m.active,
           r.at = "unmap" => BiHasRow(r.row) /\ r.row.active
    PROVE  BiBase'
<1>0. BiTyped /\ BiKept /\ BiOwned
  BY DEF BiBase
<1>1. /\ biCall' \in [BiCalls -> BiLocals] /\ biCall'[c] = r
      /\ \A d \in BiCalls : d # c => biCall'[d] = biCall[d]
  BY <1>0, BiMoveIs
<1>2. BiTyped'
  <2>1. ASSUME NEW d \in BiCalls
        PROVE  BiPlace(biCall'[d])
    BY <1>0, <1>1 DEF BiTyped
  <2>2. biConfig' \subseteq Nat
    BY <1>0 DEF BiTyped, BiExists, BiMakes
  <2>. QED BY <1>0, <1>1, <2>1, <2>2 DEF BiTyped
<1>3. BiKept'
  <2>1. ASSUME NEW d \in BiCalls
        PROVE  BiReady(biCall[d])'
    <3>1. CASE d = c
      BY <1>1, <3>1 DEF BiReady
    <3>2. CASE d # c
      BY <1>0, <1>1, <3>2 DEF BiReady, BiKept
    <3>. QED BY <3>1, <3>2
  <2>. QED BY <1>0, <2>1 DEF BiKept, BiExists
<1>4. BiOwned'
  <2>1. ASSUME NEW d \in BiCalls
        PROVE  /\ \A m \in biCall'[d].todo : BiHasRow(m)' /\ m.active
               /\ biCall'[d].at = "unmap" => BiHasRow(biCall[d].row)' /\ biCall'[d].row.active
               /\ biCall'[d].at = "map" =>
                    /\ biCall'[d].id[BiTemplates[biCall'[d].next]] \in 1..biIds'
                    /\ \A t \in biTemplate' : t.id = biCall'[d].id[BiTemplates[biCall'[d].next]]
                         => t.by = biCall'[d].of
    <3>1. CASE d = c
      BY <1>1, <3>1 DEF BiHasRow
    <3>2. CASE d # c
      <4>1. biCall'[d] = biCall[d]
        BY <1>1, <3>2
      <4>2. /\ \A m \in biCall[d].todo : BiHasRow(m) /\ m.active
            /\ biCall[d].at = "unmap" => BiHasRow(biCall[d].row) /\ biCall[d].row.active
            /\ biCall[d].at = "map" =>
                 /\ biCall[d].id[BiTemplates[biCall[d].next]] \in 1..biIds
                 /\ \A t \in biTemplate : t.id = biCall[d].id[BiTemplates[biCall[d].next]]
                      => t.by = biCall[d].of
        BY <1>0 DEF BiOwned, BiAt, BiOf, BiName
      <4>. QED BY <4>1, <4>2 DEF BiHasRow
    <3>. QED BY <3>1, <3>2
  <2>. QED BY <1>0, <2>1 DEF BiOwned, BiAt, BiOf, BiName
<1>. QED BY <1>2, <1>3, <1>4 DEF BiBase

(* A record moves, and rows and templates stay as they are.                *)
LEMMA BiQuietBase ==
    ASSUME BiBase, NEW c \in BiCalls, NEW r, BiMove(c, r), BiPlace(r), BiSideTyped',
           UNCHANGED <<biTemplate, biIds, biConfig, biDevice, biMapping, biSaved>>,
           r.at # "map", BiReady(r),
           \A m \in r.todo : BiHasRow(m) /\ m.active,
           r.at = "unmap" => BiHasRow(r.row) /\ r.row.active
    PROVE  BiBase'
<1>1. BiReady(r)'
  BY DEF BiReady
<1>. QED BY <1>1, BiCallBase DEF BiBase, BiKept, BiTyped

(* A call goes on, or ends, and touches neither templates nor mappings.    *)
LEMMA BiGoBase ==
    ASSUME BiBase, NEW c \in BiCalls, NEW place \in BiPlaces,
           BiStep(c, place) \/ BiTurn(c, place), BiSideTyped',
           UNCHANGED <<biTemplate, biIds, biConfig, biDevice, biMapping, biSaved>>,
           BiAt(c) \notin {"idle", "bind", "clean", "unmap"} \cup BiShows,
           place \notin {"idle", "map", "clean", "unmap"} \cup BiShows,
           place \in {"resolve", "bind"} \cup BiBoarding \cup BiLate => BiOf(c) \in BiInstalls,
           place = "create" => biCall[c].next <= Len(BiTemplates),
           place \in {"mapboard", "bindboard"} \cup BiLate => biCall[c].next <= Len(BiBoards),
           place = "config" => BiTurn(c, place),
           place = "save" => \A n \in BiNames : biCall[c].id[n] \in biConfig
    PROVE  BiBase'
<1>0. BiTyped /\ BiPlace(biCall[c])
  BY BiCallIs DEF BiBase
<1>1. PICK r : /\ BiMove(c, r) /\ r.at = place /\ r.of = biCall[c].of
               /\ r.next = biCall[c].next \/ r.next = 1
               /\ BiTurn(c, place) => r.next = 1
               /\ r.todo = biCall[c].todo /\ r.waits = biCall[c].waits /\ r.id = biCall[c].id
  <2>1. CASE BiTurn(c, place)
    BY <1>0, <2>1, BiTurnIs
  <2>2. CASE BiStep(c, place) /\ ~BiTurn(c, place)
    BY <1>0, <2>2, BiStepIs
  <2>. QED BY <2>1, <2>2
<1>2. /\ biCall[c].todo = {} /\ ~biCall[c].waits /\ biCall[c].next \in Nat /\ biCall[c].next >= 1
      /\ biCall[c].of \in BiKeys
  BY <1>0, BiCallIs DEF BiPlace, BiAt
<1>3. BiPlace(r)
  <2>1. r.at \notin BiShows /\ r.at # "idle" /\ r.of # "instance" /\ r.of \in BiKeys
    BY <1>1, <1>2, BiKeysAre
  <2>2. r.at \in {"resolve", "bind"} \cup BiBoarding \cup BiLate => r.of \in BiInstalls
    BY <1>1 DEF BiOf
  <2>3. r.next >= 1
    BY <1>1, <1>2
  <2>4. r.at \in {"create", "map"} => r.next <= Len(BiTemplates)
    <3>1. r.at = "create" => 1 <= biCall[c].next /\ biCall[c].next <= Len(BiTemplates)
      BY <1>1, <1>2
    <3>. QED BY <1>1, <1>2, <3>1, BiListsAre
  <2>5. r.at \in {"mapboard", "bindboard"} \cup BiLate \cup BiShows => r.next <= Len(BiBoards)
    <3>1. r.at \in {"mapboard", "bindboard"} \cup BiLate =>
            1 <= biCall[c].next /\ biCall[c].next <= Len(BiBoards)
      BY <1>1, <1>2
    <3>. QED BY <1>1, <1>2, <2>1, <3>1, BiListsAre
  <2>6. ~r.waits /\ r.todo = {} /\ r.at # "unmap"
    BY <1>1, <1>2
  <2>. QED BY <2>1, <2>2, <2>3, <2>4, <2>5, <2>6 DEF BiPlace
<1>4. BiReady(r)
  <2>1. CASE r.at = "config"
    BY <1>1, <2>1, BiListsAre DEF BiReady
  <2>2. CASE r.at = "save"
    BY <1>1, <2>2 DEF BiReady
  <2>. QED BY <2>1, <2>2 DEF BiReady
<1>. QED BY <1>1, <1>2, <1>3, <1>4, BiQuietBase

(* A call ends, and rows and templates stay as they are.                   *)
LEMMA BiEndBase ==
    ASSUME BiBase, NEW c \in BiCalls, BiEnd(c), BiSideTyped',
           UNCHANGED <<biTemplate, biIds, biConfig, biDevice, biMapping, biSaved>>
    PROVE  BiBase'
<1>1. BiTyped /\ BiMove(c, BiIdle)
  BY BiEndIs DEF BiBase
<1>2. BiReady(BiIdle)
  BY BiIdleIs DEF BiReady
<1>. QED BY <1>1, <1>2, BiIdleIs, BiQuietBase

(* What a step leaves alone keeps its type.                                *)
LEMMA BiRestTyped ==
    ASSUME BiTyped
    PROVE  /\ biStatus \in [BiKeys -> BiStatuses]
           /\ biBoard \subseteq (BiInstalls \cup BiCalls) \X BiPlans
           /\ biBinding \in [BiInstalls -> [BiPlans -> {"none", "bound", "failed"}]]
           /\ biInstance \subseteq BiCalls \X BiPlans
           /\ biCleaned \subseteq BiKeys /\ biDoubt \subseteq BiKeys \cup {"instance"}
           /\ biCalls \in 0..BiMaxCalls /\ biFaults \in 0..BiMaxFaults
BY DEF BiTyped, BiSideTyped

(* Where a call is, it works on an installation.                           *)
LEMMA BiWorksOn ==
    ASSUME BiTyped, NEW c \in BiCalls
    PROVE  /\ BiAt(c) \notin {"idle", "record", "undo"} => BiOf(c) \in BiKeys
           /\ BiAt(c) \in {"resolve", "import", "mapboard", "bindboard", "bind", "rebind", "count", "complete"}
                => BiOf(c) \in BiInstalls
BY BiCallIs DEF BiPlace, BiAt, BiOf, BiBoarding, BiLate, BiShows

(* The dashboard that a call is at.                                        *)
LEMMA BiPlanIs ==
    ASSUME BiTyped, NEW c \in BiCalls, biCall[c].next <= Len(BiBoards)
    PROVE  BiPlan(c) \in BiPlans /\ biCall[c].next \in 1..Len(BiBoards) /\ BiPlan(c) = BiBoards[biCall[c].next]
<1>1. biCall[c].next \in Nat /\ biCall[c].next >= 1
  BY BiCallIs
<1>2. biCall[c].next \in 1..Len(BiBoards)
  BY <1>1, BiListsAre
<1>. QED BY <1>2, BiListsAre DEF BiPlan

(* The template that a call is at.                                         *)
LEMMA BiNameIs ==
    ASSUME BiTyped, NEW c \in BiCalls, biCall[c].next <= Len(BiTemplates)
    PROVE  BiName(c) \in BiNames /\ biCall[c].next \in 1..Len(BiTemplates) /\ BiName(c) = BiTemplates[biCall[c].next]
<1>1. biCall[c].next \in Nat /\ biCall[c].next >= 1
  BY BiCallIs
<1>2. biCall[c].next \in 1..Len(BiTemplates)
  BY <1>1, BiListsAre
<1>. QED BY <1>2, BiListsAre DEF BiName

(* One lemma per action of this kind.                                       *)

LEMMA BiFetchBase ==
    ASSUME BiBase, NEW c \in BiCalls, BiFetch(c)
    PROVE  BiBase'
<1>0. BiTyped
  BY DEF BiBase
<1>1. BiOf(c) \in BiKeys
  BY <1>0, BiWorksOn DEF BiFetch
<1>2. BiSideTyped'
  BY <1>0, <1>1, BiSayIs, BiRestTyped DEF BiFetch, BiSideTyped, BiStatuses, biRows, biResources
<1>3. UNCHANGED <<biTemplate, biIds, biConfig, biDevice, biMapping, biSaved>>
  BY DEF BiFetch, biRows, biResources
<1>4. BiStep(c, "verify") \/ BiStep(c, "look")
  BY DEF BiFetch
<1>5. BiAt(c) \in {"fetch", "verify"} /\ "verify" \in BiPlaces /\ "look" \in BiPlaces
  BY DEF BiFetch, BiPlaces, BiBuild
<1>. QED BY <1>2, <1>3, <1>4, <1>5, BiGoBase DEF BiBoarding, BiLate, BiShows


LEMMA BiDownloadedBase ==
    ASSUME BiBase, NEW c \in BiCalls, BiDownloaded(c)
    PROVE  BiBase'
<1>0. BiTyped
  BY DEF BiBase
<1>1. BiOf(c) \in BiKeys
  BY <1>0, BiWorksOn DEF BiDownloaded
<1>2. BiSideTyped'
  BY <1>0, <1>1, BiSayIs, BiRestTyped DEF BiDownloaded, BiSideTyped, BiStatuses, biRows, biResources
<1>3. UNCHANGED <<biTemplate, biIds, biConfig, biDevice, biMapping, biSaved>>
  BY DEF BiDownloaded, biRows, biResources
<1>. QED BY <1>2, <1>3, BiEndBase DEF BiDownloaded


LEMMA BiInstalledBase ==
    ASSUME BiBase, NEW c \in BiCalls, BiInstalled(c)
    PROVE  BiBase'
<1>0. BiTyped
  BY DEF BiBase
<1>1. BiOf(c) \in BiKeys
  BY <1>0, BiWorksOn DEF BiInstalled
<1>2. BiSideTyped'
  BY <1>0, <1>1, BiSayIs, BiRestTyped DEF BiInstalled, BiSideTyped, BiStatuses, biRows, biResources
<1>3. UNCHANGED <<biTemplate, biIds, biConfig, biDevice, biMapping, biSaved>>
  BY DEF BiInstalled, biRows, biResources
<1>. QED BY <1>2, <1>3, BiEndBase DEF BiInstalled


LEMMA BiFlagBase ==
    ASSUME BiBase, NEW c \in BiCalls, BiFlag(c)
    PROVE  BiBase'
<1>0. BiTyped
  BY DEF BiBase
<1>1. BiOf(c) \in BiKeys
  BY <1>0, BiWorksOn DEF BiFlag
<1>2. BiSideTyped'
  BY <1>0, <1>1, BiSayIs, BiRestTyped DEF BiFlag, BiSideTyped, BiStatuses, biRows, biResources
<1>3. UNCHANGED <<biTemplate, biIds, biConfig, biDevice, biMapping, biSaved>>
  BY DEF BiFlag, biRows, biResources
<1>. QED BY <1>2, <1>3, BiEndBase DEF BiFlag


LEMMA BiRetryBase ==
    ASSUME BiBase, NEW c \in BiCalls, BiRetry(c)
    PROVE  BiBase'
<1>0. BiTyped
  BY DEF BiBase
<1>1. BiOf(c) \in BiKeys
  BY <1>0, BiWorksOn DEF BiRetry
<1>2. BiSideTyped'
  BY <1>0, <1>1, BiSayIs, BiRestTyped DEF BiRetry, BiSideTyped, BiStatuses, biRows, biResources
<1>3. UNCHANGED <<biTemplate, biIds, biConfig, biDevice, biMapping, biSaved>>
  BY DEF BiRetry, biRows, biResources
<1>. QED BY <1>2, <1>3, BiEndBase DEF BiRetry


LEMMA BiCompleteBase ==
    ASSUME BiBase, NEW c \in BiCalls, BiComplete(c)
    PROVE  BiBase'
<1>0. BiTyped
  BY DEF BiBase
<1>1. BiOf(c) \in BiKeys
  BY <1>0, BiWorksOn DEF BiComplete
<1>2. BiSideTyped'
  BY <1>0, <1>1, BiSayIs, BiRestTyped DEF BiComplete, BiSideTyped, BiStatuses, biRows, biResources
<1>3. UNCHANGED <<biTemplate, biIds, biConfig, biDevice, biMapping, biSaved>>
  BY DEF BiComplete, biRows, biResources
<1>. QED BY <1>2, <1>3, BiEndBase DEF BiComplete


LEMMA BiBoardsDoneBase ==
    ASSUME BiBase, NEW c \in BiCalls, BiBoardsDone(c)
    PROVE  BiBase'
<1>0. BiTyped
  BY DEF BiBase
<1>1. BiOf(c) \in BiKeys
  BY <1>0, BiWorksOn DEF BiBoardsDone
<1>2. BiSideTyped'
  BY <1>0, <1>1, BiSayIs, BiRestTyped DEF BiBoardsDone, BiSideTyped, BiStatuses, biRows, biResources
<1>3. UNCHANGED <<biTemplate, biIds, biConfig, biDevice, biMapping, biSaved>>
  BY DEF BiBoardsDone, biRows, biResources
<1>4. BiTurn(c, "bind") /\ BiAt(c) = "import" /\ "bind" \in BiPlaces
  BY DEF BiBoardsDone, BiPlaces, BiBuild
<1>. QED BY <1>0, <1>2, <1>3, <1>4, BiGoBase, BiWorksOn DEF BiBoarding, BiLate, BiShows


LEMMA BiFailBase ==
    ASSUME BiBase, NEW c \in BiCalls, BiFail(c)
    PROVE  BiBase'
<1>0. BiTyped
  BY DEF BiBase
<1>1. BiOf(c) \in BiKeys
  BY <1>0, BiWorksOn DEF BiFail
<1>2. BiSideTyped'
  BY <1>0, <1>1, BiSayIs, BiRestTyped DEF BiFail, BiSideTyped, BiStatuses, biRows, biResources
<1>3. UNCHANGED <<biTemplate, biIds, biConfig, biDevice, biMapping, biSaved>>
  BY DEF BiFail, biRows, biResources
<1>4. BiStep(c, "check") /\ BiAt(c) = "fail" /\ "check" \in BiPlaces
  BY DEF BiFail, BiPlaces, BiBuild
<1>. QED BY <1>0, <1>2, <1>3, <1>4, BiGoBase, BiWorksOn DEF BiBoarding, BiLate, BiShows


LEMMA BiTemplatesDoneBase ==
    ASSUME BiBase, NEW c \in BiCalls, BiTemplatesDone(c)
    PROVE  BiBase'
<1>0. BiTyped
  BY DEF BiBase
<1>1. BiOf(c) \in BiKeys
  BY <1>0, BiWorksOn DEF BiTemplatesDone
<1>2. BiSideTyped'
  <2>1. CASE BiSay(c, "MODELS_INSTALLED")
    BY <1>0, <1>1, <2>1, BiSayIs, BiRestTyped
         DEF BiTemplatesDone, BiSideTyped, BiStatuses, biRows, biResources
  <2>2. CASE BiNoFault /\ UNCHANGED biStatus
    BY <1>0, <2>2, BiNoFaultTyped, BiRestTyped DEF BiTemplatesDone, BiSideTyped, biRows, biResources
  <2>. QED BY <2>1, <2>2 DEF BiTemplatesDone
<1>3. UNCHANGED <<biTemplate, biIds, biConfig, biDevice, biMapping, biSaved>>
  BY DEF BiTemplatesDone, biRows, biResources
<1>4. /\ BiAt(c) = "look" /\ "resolve" \in BiPlaces /\ "config" \in BiPlaces
      /\ \/ BiTurn(c, "resolve") /\ BiOf(c) \in BiInstalls
         \/ BiTurn(c, "config")
  BY DEF BiTemplatesDone, BiPlaces, BiBuild
<1>. QED BY <1>2, <1>3, <1>4, BiGoBase DEF BiBoarding, BiLate, BiShows

LEMMA BiConfigsDoneBase ==
    ASSUME BiBase, NEW c \in BiCalls, BiConfigsDone(c)
    PROVE  BiBase'
<1>0. BiTyped
  BY DEF BiBase
<1>1. BiOf(c) \in BiKeys
  BY <1>0, BiWorksOn DEF BiConfigsDone
<1>2. BiSideTyped'
  BY <1>0, <1>1, BiSayIs, BiRestTyped DEF BiConfigsDone, BiSideTyped, BiStatuses, biRows, biResources
<1>3. UNCHANGED <<biTemplate, biIds, biConfig, biDevice, biMapping, biSaved>>
  BY DEF BiConfigsDone, biRows, biResources
<1>4. BiTurn(c, "save") /\ BiAt(c) = "config" /\ "save" \in BiPlaces
  BY DEF BiConfigsDone, BiPlaces, BiBuild
<1>5. \A n \in BiNames : biCall[c].id[n] \in biConfig
  <2>1. biCall[c].next > Len(BiTemplates) /\ biCall[c].next \in Nat /\ biCall[c].at = "config"
    BY <1>0, BiCallIs DEF BiConfigsDone, BiAt
  <2>2. BiReady(biCall[c])
    BY DEF BiBase, BiKept
  <2>3. \A i \in 1..Len(BiTemplates) : i < biCall[c].next
    BY <2>1, BiListsAre
  <2>4. \A i \in 1..Len(BiTemplates) : biCall[c].id[BiTemplates[i]] \in biConfig
    BY <2>1, <2>2, <2>3 DEF BiReady
  <2>. QED BY <2>4, BiListsAre
<1>. QED BY <1>2, <1>3, <1>4, <1>5, BiGoBase DEF BiBoarding, BiLate, BiShows

LEMMA BiResolveBase ==
    ASSUME BiBase, NEW c \in BiCalls, BiResolve(c)
    PROVE  BiBase'
<1>0. BiTyped
  BY DEF BiBase
<1>2. BiSideTyped'
  BY <1>0, BiRestTyped DEF BiResolve, BiSideTyped, biRows, biResources, biBounds
<1>3. UNCHANGED <<biTemplate, biIds, biConfig, biDevice, biMapping, biSaved>>
  BY DEF BiResolve, biRows, biResources
<1>4. BiTurn(c, "import") /\ BiAt(c) = "resolve" /\ "import" \in BiPlaces
  BY DEF BiResolve, BiPlaces, BiBuild
<1>. QED BY <1>0, <1>2, <1>3, <1>4, BiGoBase, BiWorksOn DEF BiBoarding, BiLate, BiShows

LEMMA BiBreakBase ==
    ASSUME BiBase, NEW c \in BiCalls, BiBreak(c)
    PROVE  BiBase'
<1>0. BiTyped
  BY DEF BiBase
<1>2. BiSideTyped'
  BY <1>0, BiRestTyped DEF BiBreak, BiSideTyped, biRows, biResources, biBounds
<1>3. UNCHANGED <<biTemplate, biIds, biConfig, biDevice, biMapping, biSaved>>
  BY DEF BiBreak, biRows, biResources
<1>4. /\ BiStep(c, "fail") /\ "fail" \in BiPlaces
      /\ BiAt(c) \in {"fetch", "verify", "create", "config", "save", "resolve", "import"}
  BY DEF BiBreak, BiPlaces
<1>. QED BY <1>2, <1>3, <1>4, BiGoBase DEF BiBoarding, BiLate, BiShows

LEMMA BiCheckBase ==
    ASSUME BiBase, NEW c \in BiCalls, BiCheck(c)
    PROVE  BiBase'
<1>0. BiTyped
  BY DEF BiBase
<1>1. BiOf(c) \in BiKeys
  BY <1>0, BiWorksOn DEF BiCheck
<1>2. BiSideTyped'
  BY <1>0, <1>1, BiNoFaultTyped, BiLostTyped, BiRestTyped DEF BiCheck, BiSideTyped, biRows, biResources
<1>3. UNCHANGED <<biTemplate, biIds, biConfig, biDevice, biMapping, biSaved>>
  BY DEF BiCheck, biRows, biResources
<1>4. BiAt(c) = "check" /\ "flag" \in BiPlaces /\ (BiEnd(c) \/ BiStep(c, "flag"))
  BY DEF BiCheck, BiPlaces
<1>. QED BY <1>2, <1>3, <1>4, BiGoBase, BiEndBase DEF BiBoarding, BiLate, BiShows

LEMMA BiCountBase ==
    ASSUME BiBase, NEW c \in BiCalls, BiCount(c)
    PROVE  BiBase'
<1>0. BiTyped
  BY DEF BiBase
<1>1. BiOf(c) \in BiInstalls /\ BiOf(c) \in BiKeys /\ biCall[c].next <= Len(BiBoards)
  BY <1>0, BiWorksOn, BiCallIs DEF BiCount, BiPlace, BiLate, BiAt
<1>2. BiSideTyped'
  BY <1>0, <1>1, BiNoFaultTyped, BiLostTyped, BiRestTyped DEF BiCount, BiSideTyped, biRows, biResources
<1>3. UNCHANGED <<biTemplate, biIds, biConfig, biDevice, biMapping, biSaved>>
  BY DEF BiCount, biRows, biResources
<1>4. BiAt(c) = "count" /\ "complete" \in BiPlaces /\ (BiEnd(c) \/ BiStep(c, "complete"))
  BY DEF BiCount, BiPlaces, BiLate
<1>. QED BY <1>1, <1>2, <1>3, <1>4, BiGoBase, BiEndBase DEF BiBoarding, BiLate, BiShows

LEMMA BiImportBase ==
    ASSUME BiBase, NEW c \in BiCalls, BiImport(c)
    PROVE  BiBase'
<1>0. BiTyped
  BY DEF BiBase
<1>1. /\ BiOf(c) \in BiInstalls /\ BiOf(c) \in BiKeys /\ biCall[c].next <= Len(BiBoards)
      /\ BiPlan(c) \in BiPlans
  BY <1>0, BiWorksOn, BiPlanIs DEF BiImport
<1>2. BiSideTyped'
  BY <1>0, <1>1, BiNoFaultTyped, BiLostTyped, BiRestTyped DEF BiImport, BiSideTyped, biRows
<1>3. UNCHANGED <<biTemplate, biIds, biConfig, biDevice, biMapping, biSaved>>
  BY DEF BiImport, biRows
<1>4. /\ BiAt(c) = "import" /\ {"mapboard", "fail"} \subseteq BiPlaces
      /\ BiStep(c, "mapboard") \/ BiStep(c, "fail")
  BY DEF BiImport, BiPlaces, BiBuild
<1>. QED BY <1>1, <1>2, <1>3, <1>4, BiGoBase DEF BiBoarding, BiLate, BiShows

(* A call begins, and rows and templates stay as they are.                 *)
LEMMA BiStartBase ==
    ASSUME BiBase, NEW c \in BiCalls, NEW k \in BiKeys, NEW place \in {"fetch", "list", "retry"},
           BiBegin(c, k, place), BiSideTyped',
           UNCHANGED <<biTemplate, biIds, biConfig, biDevice, biMapping, biSaved>>
    PROVE  BiBase'
<1>0. BiTyped
  BY DEF BiBase
<1>2. PICK r : BiMove(c, r) /\ r.at = place /\ r.of = k /\ r.next = 1 /\ r.todo = {} /\ ~r.waits
  <2>1. place \in BiPlaces
    BY DEF BiPlaces, BiBuild, BiRepairs
  <2>. QED BY <1>0, <2>1, BiBeginIs
<1>3. BiPlace(r)
  <2>1. /\ r.at \notin BiShows /\ r.at \notin {"resolve", "bind"} \cup BiBoarding \cup BiLate
        /\ r.at \notin {"idle", "create", "map", "mapboard", "bindboard", "unmap"}
    BY <1>2 DEF BiShows, BiBoarding, BiLate
  <2>2. r.of \in BiKeys /\ r.of # "instance"
    BY <1>2, BiKeysAre
  <2>3. r.next >= 1
    BY <1>2
  <2>. QED BY <1>2, <2>1, <2>2, <2>3 DEF BiPlace
<1>. QED BY <1>2, <1>3, BiQuietBase DEF BiReady

LEMMA BiInstallBase ==
    ASSUME BiBase, NEW c \in BiCalls, NEW k \in BiKeys, BiInstall(c, k)
    PROVE  BiBase'
<1>0. BiTyped
  BY DEF BiBase
<1>1. UNCHANGED <<biTemplate, biIds, biConfig, biDevice, biMapping, biSaved>> /\ BiBegin(c, k, "fetch")
  BY DEF BiInstall, biRows, biResources
<1>2. BiSideTyped'
  <2>1. biCalls' \in 0..BiMaxCalls
    BY <1>0, <1>1, BiRestTyped, BiNumbersAre DEF BiBegin
  <2>2. biStatus' \in [BiKeys -> BiStatuses]
    BY <1>0, BiRestTyped DEF BiInstall, BiStatuses
  <2>. QED BY <1>0, <2>1, <2>2, BiRestTyped DEF BiInstall, BiSideTyped, biRows, biResources
<1>. QED BY <1>1, <1>2, BiStartBase

LEMMA BiDownloadBase ==
    ASSUME BiBase, NEW c \in BiCalls, NEW k \in BiKeys, BiDownload(c, k)
    PROVE  BiBase'
<1>0. BiTyped
  BY DEF BiBase
<1>1. UNCHANGED <<biTemplate, biIds, biConfig, biDevice, biMapping, biSaved>> /\ BiBegin(c, k, "fetch")
  BY DEF BiDownload, biRows, biResources
<1>2. BiSideTyped'
  <2>1. biCalls' \in 0..BiMaxCalls
    BY <1>0, <1>1, BiRestTyped, BiNumbersAre DEF BiBegin
  <2>2. /\ biStatus' \in [BiKeys -> BiStatuses]
        /\ biFaults' \in 0..BiMaxFaults /\ biDoubt' \subseteq BiKeys \cup {"instance"}
    BY <1>0, BiRestTyped, BiLostTyped, BiNoFaultTyped DEF BiDownload, BiStatuses
  <2>. QED BY <1>0, <2>1, <2>2, BiRestTyped DEF BiDownload, BiSideTyped, biRows, biResources
<1>. QED BY <1>1, <1>2, BiStartBase

LEMMA BiRepairBase ==
    ASSUME BiBase, NEW c \in BiCalls, NEW k \in BiKeys, BiRepair(c, k)
    PROVE  BiBase'
<1>0. BiTyped
  BY DEF BiBase
<1>1. UNCHANGED <<biTemplate, biIds, biConfig, biDevice, biMapping, biSaved>>
  BY DEF BiRepair, biRows, biResources
<1>2. PICK place \in {"list", "retry"} : BiBegin(c, k, place)
  BY DEF BiRepair
<1>3. BiSideTyped'
  <2>1. biCalls' \in 0..BiMaxCalls
    BY <1>0, <1>2, BiRestTyped, BiNumbersAre DEF BiBegin
  <2>. QED BY <1>0, <2>1, BiRestTyped DEF BiRepair, BiSideTyped, biRows, biResources
<1>. QED BY <1>1, <1>2, <1>3, BiStartBase

LEMMA BiUpdateBindingBase ==
    ASSUME BiBase, NEW c \in BiCalls, NEW k \in BiKeys, BiUpdateBinding(c, k)
    PROVE  BiBase'
<1>0. BiTyped
  BY DEF BiBase
<1>1. UNCHANGED <<biTemplate, biIds, biConfig, biDevice, biMapping, biSaved>>
  BY DEF BiUpdateBinding, biRows, biResources
<1>3. BiSideTyped'
  <2>1. biCalls' \in 0..BiMaxCalls
    BY <1>0, BiRestTyped, BiNumbersAre DEF BiUpdateBinding
  <2>. QED BY <1>0, <2>1, BiRestTyped DEF BiUpdateBinding, BiSideTyped, biRows, biResources
<1>4. PICK r : /\ BiMove(c, r) /\ r.at = "rebind" /\ r.of = k /\ r.next \in 1..Len(BiBoards)
               /\ r.todo = {} /\ ~r.waits
  BY <1>0, BiUpdateBindingIs
<1>5. BiPlace(r)
  <2>1. r.next >= 1 /\ r.next <= Len(BiBoards) /\ k \in BiInstalls
    BY <1>4, BiListsAre DEF BiUpdateBinding
  <2>. QED BY <1>4, <2>1, BiKeysAre DEF BiPlace, BiShows, BiBoarding, BiLate
<1>. QED BY <1>1, <1>3, <1>4, <1>5, BiQuietBase DEF BiReady

LEMMA BiInstantiateBase ==
    ASSUME BiBase, NEW c \in BiCalls, NEW b \in BiPlans, BiInstantiate(c, b)
    PROVE  BiBase'
<1>0. BiTyped
  BY DEF BiBase
<1>1. UNCHANGED <<biTemplate, biIds, biConfig, biDevice, biMapping, biSaved>>
  BY DEF BiInstantiate, biRows
<1>3. BiSideTyped'
  <2>1. biCalls' \in 0..BiMaxCalls
    BY <1>0, BiRestTyped, BiNumbersAre DEF BiInstantiate
  <2>2. biBoard' \subseteq (BiInstalls \cup BiCalls) \X BiPlans
    BY <1>0, BiRestTyped DEF BiInstantiate
  <2>. QED BY <1>0, <2>1, <2>2, BiRestTyped DEF BiInstantiate, BiSideTyped, biRows
<1>4. PICK r : /\ BiMove(c, r) /\ r.at = "record" /\ r.of = "instance" /\ r.next \in 1..Len(BiBoards)
               /\ r.todo = {} /\ ~r.waits
  BY <1>0, BiInstantiateIs
<1>5. BiPlace(r)
  <2>1. r.next >= 1 /\ r.next <= Len(BiBoards)
    BY <1>4, BiListsAre
  <2>. QED BY <1>4, <2>1, BiKeysAre DEF BiPlace, BiShows, BiBoarding, BiLate
<1>. QED BY <1>1, <1>3, <1>4, <1>5, BiQuietBase DEF BiReady

LEMMA BiLookBase ==
    ASSUME BiBase, NEW c \in BiCalls, BiLook(c)
    PROVE  BiBase'
<1>0. BiTyped /\ BiAt(c) = "look" /\ biCall[c].next <= Len(BiTemplates)
  BY DEF BiBase, BiLook
<1>1. UNCHANGED <<biTemplate, biIds, biConfig, biDevice, biMapping, biSaved>>
  BY DEF BiLook, biRows, biResources
<1>2. BiSideTyped'
  BY <1>0, BiRestTyped DEF BiLook, BiSideTyped, biRows, biResources, biBounds
<1>3. BiPlace(biCall[c]) /\ BiName(c) \in BiNames
  BY <1>0, BiCallIs, BiNameIs
<1>4. CASE BiStep(c, "create")
  <2>1. "create" \in BiPlaces
    BY DEF BiPlaces, BiBuild
  <2>. QED BY <1>0, <1>1, <1>2, <1>4, <2>1, BiGoBase DEF BiBoarding, BiLate, BiShows
<1>5. CASE ~BiStep(c, "create")
  <2>1. PICK t \in biTemplate :
           biCall' = [biCall EXCEPT ![c].id[BiName(c)] = t.id, ![c].next = @ + 1]
    BY <1>5 DEF BiLook
  <2>2. t.id \in Nat
    BY <1>0 DEF BiTyped, BiMakes
  <2>3. PICK n \in BiNames : n = BiName(c)
    BY <1>3
  <2>4. PICK r : /\ BiMove(c, r) /\ r.next = biCall[c].next + 1 /\ r.at = biCall[c].at
                 /\ r.of = biCall[c].of /\ r.todo = biCall[c].todo /\ r.waits = biCall[c].waits
    <3>1. biCall' = [biCall EXCEPT ![c].id[n] = t.id, ![c].next = @ + 1]
      BY <2>1, <2>3
    <3>. QED BY <1>0, <2>2, <3>1, BiFoundIs
  <2>5. r.at = "look" /\ r.next >= 1
    <3>1. r.next >= 1
      BY <1>0, <2>4, BiCallIs
    <3>. QED BY <1>0, <2>4, <3>1 DEF BiAt
  <2>6. /\ r.of \in BiKeys /\ r.of # "instance" /\ r.todo = {} /\ ~r.waits
    BY <1>0, <1>3, <2>4, BiWorksOn, BiKeysAre DEF BiPlace, BiAt, BiOf
  <2>7. BiPlace(r)
    BY <2>5, <2>6 DEF BiPlace, BiShows, BiBoarding, BiLate
  <2>. QED BY <1>1, <1>2, <2>4, <2>5, <2>6, <2>7, BiQuietBase DEF BiReady
<1>. QED BY <1>4, <1>5

LEMMA BiListBase ==
    ASSUME BiBase, NEW c \in BiCalls, BiList(c)
    PROVE  BiBase'
<1>0. BiTyped /\ BiAt(c) = "list"
  BY DEF BiBase, BiList
<1>1. UNCHANGED <<biTemplate, biIds, biConfig, biDevice, biMapping, biSaved>>
  BY DEF BiList, biRows, biResources
<1>2. BiSideTyped'
  BY <1>0, BiRestTyped DEF BiList, BiSideTyped, biRows, biResources, biBounds
<1>3. CASE BiEnd(c)
  BY <1>1, <1>2, <1>3, BiEndBase
<1>4. CASE ~BiEnd(c)
  <2>1. PICK rows : rows = BiActive(BiOf(c))
    OBVIOUS
  <2>2. /\ rows \in SUBSET BiMaps
        /\ \A m \in rows : m.of = BiOf(c) /\ m.active /\ m \in biMapping
    BY <1>0, <2>1 DEF BiTyped, BiActive
  <2>3. PICK r : /\ BiMove(c, r) /\ r.at = "clean" /\ r.todo = rows /\ r.of = biCall[c].of
                 /\ r.next = biCall[c].next /\ r.waits = biCall[c].waits
    BY <1>0, <1>4, <2>1, BiListIs
  <2>4. /\ r.of \in BiKeys /\ r.of # "instance" /\ ~r.waits /\ r.next >= 1
    BY <1>0, <2>3, BiCallIs, BiWorksOn, BiKeysAre DEF BiPlace, BiAt, BiOf
  <2>5. BiPlace(r)
    <3>1. \A m \in r.todo : m.of = r.of
      BY <2>2, <2>3 DEF BiOf
    <3>. QED BY <2>3, <2>4, <3>1 DEF BiPlace, BiShows, BiBoarding, BiLate
  <2>6. \A m \in r.todo : BiHasRow(m) /\ m.active
    BY <2>2, <2>3 DEF BiHasRow
  <2>. QED BY <1>1, <1>2, <2>3, <2>5, <2>6, BiQuietBase DEF BiReady
<1>. QED BY <1>3, <1>4

LEMMA BiCompensatedBase ==
    ASSUME BiBase, NEW c \in BiCalls, BiCompensated(c)
    PROVE  BiBase'
<1>0. BiTyped
  BY DEF BiBase
<1>1. BiOf(c) \in BiKeys
  BY <1>0, BiWorksOn DEF BiCompensated
<1>2. BiSideTyped'
  <2>1. biCleaned' \subseteq BiKeys
    BY <1>0, <1>1, BiRestTyped DEF BiCompensated
  <2>. QED BY <1>0, <1>1, <2>1, BiSayIs, BiRestTyped
       DEF BiCompensated, BiSideTyped, BiStatuses, biRows, biResources
<1>3. UNCHANGED <<biTemplate, biIds, biConfig, biDevice, biMapping, biSaved>>
  BY DEF BiCompensated, biRows, biResources
<1>. QED BY <1>2, <1>3, BiEndBase DEF BiCompensated

LEMMA BiBindBoardBase ==
    ASSUME BiBase, NEW c \in BiCalls, BiBindBoard(c)
    PROVE  BiBase'
<1>0. BiTyped /\ BiAt(c) = "bindboard"
  BY DEF BiBase, BiBindBoard
<1>1. /\ BiOf(c) \in BiInstalls /\ BiOf(c) \in BiKeys /\ BiPlan(c) \in BiPlans
  <2>1. biCall[c].next <= Len(BiBoards)
    BY <1>0, BiCallIs DEF BiPlace, BiAt
  <2>. QED BY <1>0, <2>1, BiWorksOn, BiPlanIs
<1>2. BiSideTyped'
  <2>1. biBinding' \in [BiInstalls -> [BiPlans -> {"none", "bound", "failed"}]]
    <3>1. CASE biBinding' = [biBinding EXCEPT ![BiOf(c)][BiPlan(c)] = "bound"]
      BY <1>0, <1>1, <3>1, BiRestTyped
    <3>2. CASE UNCHANGED biBinding
      BY <1>0, <3>2, BiRestTyped
    <3>. QED BY <3>1, <3>2 DEF BiBindBoard
  <2>2. biFaults' \in 0..BiMaxFaults /\ biDoubt' \subseteq BiKeys \cup {"instance"}
    BY <1>0, <1>1, BiNoFaultTyped, BiLostTyped DEF BiBindBoard
  <2>. QED BY <1>0, <2>1, <2>2, BiRestTyped DEF BiBindBoard, BiSideTyped, biResources
<1>3. UNCHANGED <<biTemplate, biIds, biConfig, biDevice, biMapping, biSaved>>
  BY DEF BiBindBoard, biResources
<1>4. PICK r : /\ BiMove(c, r) /\ r.at = "import" /\ r.next = biCall[c].next + 1
               /\ r.of = biCall[c].of /\ r.todo = biCall[c].todo /\ r.waits = biCall[c].waits
  BY <1>0, BiBindBoardIs
<1>5. r.next >= 1
  BY <1>0, <1>4, BiCallIs
<1>6. /\ r.of \in BiKeys /\ r.of \in BiInstalls /\ r.of # "instance" /\ r.todo = {} /\ ~r.waits
  BY <1>0, <1>1, <1>4, BiCallIs, BiKeysAre DEF BiPlace, BiAt, BiOf
<1>7. BiPlace(r)
  BY <1>4, <1>5, <1>6 DEF BiPlace, BiShows, BiBoarding, BiLate
<1>. QED BY <1>2, <1>3, <1>4, <1>6, <1>7, BiQuietBase DEF BiReady

LEMMA BiProcessBase ==
    ASSUME BiBase, NEW c \in BiCalls, BiProcess(c)
    PROVE  BiBase'
<1>0. BiTyped /\ BiAt(c) = "bind" /\ biCall[c].next <= Len(BiBoards)
  BY DEF BiBase, BiProcess
<1>1. BiOf(c) \in BiInstalls /\ BiOf(c) \in BiKeys /\ BiPlan(c) \in BiPlans
  BY <1>0, BiWorksOn, BiPlanIs
<1>2. BiSideTyped'
  <2>1. biBinding' \in [BiInstalls -> [BiPlans -> {"none", "bound", "failed"}]]
    BY <1>0, <1>1, BiRestTyped DEF BiProcess
  <2>. QED BY <1>0, <2>1, BiRestTyped DEF BiProcess, BiSideTyped, biResources, biBounds
<1>3. UNCHANGED <<biTemplate, biIds, biConfig, biDevice, biMapping, biSaved>>
  BY DEF BiProcess, biResources
<1>4. PICK r : /\ BiMove(c, r) /\ r.next = biCall[c].next + 1 /\ r.at = biCall[c].at
               /\ r.of = biCall[c].of /\ r.todo = biCall[c].todo
  <2>1. PICK w \in BOOLEAN : w = (biDevice = 0 /\ BiPlan(c) \in BiRequired)
    OBVIOUS
  <2>2. biCall' = [biCall EXCEPT ![c].next = @ + 1, ![c].waits = @ \/ w]
    BY <2>1 DEF BiProcess
  <2>. QED BY <1>0, <2>2, BiWaitsIs
<1>5. r.next >= 1
  BY <1>0, <1>4, BiCallIs
<1>6. /\ r.of \in BiKeys /\ r.of \in BiInstalls /\ r.of # "instance" /\ r.todo = {} /\ r.at = "bind"
  BY <1>0, <1>1, <1>4, BiCallIs, BiKeysAre DEF BiPlace, BiAt, BiOf
<1>7. BiPlace(r)
  BY <1>5, <1>6 DEF BiPlace, BiShows, BiBoarding, BiLate
<1>. QED BY <1>2, <1>3, <1>4, <1>6, <1>7, BiQuietBase DEF BiReady

LEMMA BiRebindBase ==
    ASSUME BiBase, NEW c \in BiCalls, BiRebind(c)
    PROVE  BiBase'
<1>0. BiTyped /\ BiAt(c) = "rebind"
  BY DEF BiBase, BiRebind
<1>1. /\ BiOf(c) \in BiInstalls /\ BiOf(c) \in BiKeys /\ BiPlan(c) \in BiPlans
      /\ biCall[c].next <= Len(BiBoards)
  <2>1. biCall[c].next <= Len(BiBoards)
    BY <1>0, BiCallIs DEF BiPlace, BiAt, BiLate
  <2>. QED BY <1>0, <2>1, BiWorksOn, BiPlanIs
<1>2. BiSideTyped'
  <2>1. biBinding' \in [BiInstalls -> [BiPlans -> {"none", "bound", "failed"}]]
    <3>1. CASE biBinding' = [biBinding EXCEPT ![BiOf(c)][BiPlan(c)] = "bound"]
      BY <1>0, <1>1, <3>1, BiRestTyped
    <3>2. CASE UNCHANGED biBinding
      BY <1>0, <3>2, BiRestTyped
    <3>. QED BY <3>1, <3>2 DEF BiRebind
  <2>2. biFaults' \in 0..BiMaxFaults /\ biDoubt' \subseteq BiKeys \cup {"instance"}
    BY <1>0, <1>1, BiNoFaultTyped, BiLostTyped DEF BiRebind
  <2>. QED BY <1>0, <2>1, <2>2, BiRestTyped DEF BiRebind, BiSideTyped, biResources
<1>3. UNCHANGED <<biTemplate, biIds, biConfig, biDevice, biMapping, biSaved>>
  BY DEF BiRebind, biResources
<1>4. "count" \in BiPlaces /\ (BiEnd(c) \/ BiStep(c, "count"))
  BY DEF BiRebind, BiPlaces, BiLate
<1>. QED BY <1>0, <1>1, <1>2, <1>3, <1>4, BiGoBase, BiEndBase DEF BiBoarding, BiLate, BiShows

LEMMA BiRecordBase ==
    ASSUME BiBase, NEW c \in BiCalls, BiRecord(c)
    PROVE  BiBase'
<1>0. BiTyped /\ BiAt(c) = "record"
  BY DEF BiBase, BiRecord
<1>1. BiPlan(c) \in BiPlans /\ biCall[c].next <= Len(BiBoards)
  <2>1. biCall[c].next <= Len(BiBoards)
    BY <1>0, BiCallIs DEF BiPlace, BiAt, BiShows
  <2>. QED BY <1>0, <2>1, BiPlanIs
<1>2. BiSideTyped'
  BY <1>0, <1>1, BiRestTyped DEF BiRecord, BiSideTyped, biResources, biBounds
<1>3. UNCHANGED <<biTemplate, biIds, biConfig, biDevice, biMapping, biSaved>>
  BY DEF BiRecord, biResources
<1>4. CASE BiEnd(c)
  BY <1>2, <1>3, <1>4, BiEndBase
<1>5. CASE BiStep(c, "undo")
  <2>1. "undo" \in BiPlaces
    BY DEF BiPlaces, BiShows
  <2>2. PICK r : /\ BiMove(c, r) /\ r.at = "undo" /\ r.of = biCall[c].of /\ r.next = biCall[c].next
                 /\ r.todo = biCall[c].todo /\ r.waits = biCall[c].waits
    BY <1>0, <1>5, <2>1, BiStepIs
  <2>3. r.next >= 1
    BY <1>0, <2>2, BiCallIs
  <2>4. r.of = "instance" /\ r.todo = {} /\ ~r.waits /\ r.next <= Len(BiBoards)
    BY <1>0, <1>1, <2>2, BiCallIs DEF BiPlace, BiAt, BiShows
  <2>5. BiPlace(r)
    BY <2>2, <2>3, <2>4 DEF BiPlace, BiShows, BiBoarding, BiLate
  <2>. QED BY <1>2, <1>3, <2>2, <2>4, <2>5, BiQuietBase DEF BiReady
<1>. QED BY <1>4, <1>5 DEF BiRecord

LEMMA BiUndoBase ==
    ASSUME BiBase, NEW c \in BiCalls, BiUndo(c)
    PROVE  BiBase'
<1>0. BiTyped
  BY DEF BiBase
<1>1. BiSideTyped'
  <2>1. biFaults' \in 0..BiMaxFaults /\ biDoubt' \subseteq BiKeys \cup {"instance"}
    BY <1>0, BiNoFaultTyped, BiLostTyped DEF BiUndo
  <2>. QED BY <1>0, <2>1, BiRestTyped DEF BiUndo, BiSideTyped, biRows
<1>2. UNCHANGED <<biTemplate, biIds, biConfig, biDevice, biMapping, biSaved>>
  BY DEF BiUndo, biRows
<1>. QED BY <1>1, <1>2, BiEndBase DEF BiUndo

LEMMA BiConfigureBase ==
    ASSUME BiBase, NEW c \in BiCalls, BiConfigure(c)
    PROVE  BiBase'
<1>0. BiTyped /\ BiKept /\ BiAt(c) = "config" /\ biCall[c].next <= Len(BiTemplates)
  BY DEF BiBase, BiConfigure
<1>1. BiSideTyped'
  BY <1>0, BiRestTyped DEF BiConfigure, BiSideTyped, biRows, biBounds
<1>2. UNCHANGED <<biTemplate, biIds, biDevice, biMapping, biSaved>>
  BY DEF BiConfigure, biRows
<1>3. PICK id : id = biCall[c].id[BiName(c)] /\ BiExists(id) /\ biConfig' = biConfig \cup {id}
  BY DEF BiConfigure
<1>4. PICK r : /\ BiMove(c, r) /\ r.next = biCall[c].next + 1 /\ r.at = biCall[c].at
               /\ r.of = biCall[c].of /\ r.todo = biCall[c].todo /\ r.waits = biCall[c].waits
               /\ r.id = biCall[c].id
  <2>1. biCall' = [biCall EXCEPT ![c].next = @ + 1]
    BY DEF BiConfigure
  <2>. QED BY <1>0, <2>1, BiNextIs
<1>5. r.next >= 1
  BY <1>0, <1>4, BiCallIs
<1>6. /\ r.of \in BiKeys /\ r.of # "instance" /\ r.todo = {} /\ r.at = "config" /\ ~r.waits
  BY <1>0, <1>4, BiCallIs, BiWorksOn, BiKeysAre DEF BiPlace, BiAt, BiOf
<1>7. BiPlace(r)
  BY <1>5, <1>6 DEF BiPlace, BiShows, BiBoarding, BiLate
<1>8. BiReady(r)'
  <2>1. \A i \in 1..Len(BiTemplates) : i < biCall[c].next => biCall[c].id[BiTemplates[i]] \in biConfig
    BY <1>0 DEF BiKept, BiReady, BiAt
  <2>2. ASSUME NEW i \in 1..Len(BiTemplates), i < r.next
        PROVE  r.id[BiTemplates[i]] \in biConfig'
    <3>0. biCall[c].next \in Nat
      BY <1>0, BiCallIs
    <3>1. i < biCall[c].next \/ i = biCall[c].next
      <4>1. i < biCall[c].next + 1
        BY <1>4, <2>2
      <4>. QED BY <3>0, <4>1, BiListsAre
    <3>. QED BY <1>3, <1>4, <2>1, <3>1 DEF BiName
  <2>. QED BY <1>6, <2>2 DEF BiReady
<1>. QED BY <1>0, <1>1, <1>2, <1>3, <1>4, <1>6, <1>7, <1>8, BiCallBase DEF BiKept, BiTyped, BiExists

LEMMA BiSaveBase ==
    ASSUME BiBase, NEW c \in BiCalls, BiSave(c)
    PROVE  BiBase'
<1>0. BiTyped /\ BiKept /\ BiAt(c) = "save" /\ BiPlan(c) \in BiPlans
  BY BiPlanIs DEF BiBase, BiSave
<1>1. BiSideTyped'
  BY <1>0, BiRestTyped DEF BiSave, BiSideTyped, biResources, biBounds
<1>2. UNCHANGED <<biTemplate, biIds, biConfig, biDevice, biMapping>>
  BY DEF BiSave, biResources
<1>3. \A n \in BiNames : biCall[c].id[n] \in biConfig
  BY <1>0 DEF BiKept, BiReady, BiAt
<1>4. PICK id : /\ id \in biConfig /\ id \in Nat
                /\ biSaved' = [biSaved EXCEPT ![BiPlan(c)] = IF @ = 0 THEN id ELSE @]
  <2>1. BiNeeds[BiPlan(c)] \in BiNames
    BY <1>0, BiAssumption
  <2>. QED BY <1>0, <1>3, <2>1 DEF BiSave, BiTyped
<1>5. /\ biSaved' \in [BiPlans -> Nat]
      /\ \A b \in BiPlans : biSaved'[b] # 0 => biSaved'[b] \in biConfig
  BY <1>0, <1>4 DEF BiTyped, BiKept
<1>6. PICK r : /\ BiMove(c, r) /\ r.next = biCall[c].next + 1 /\ r.at = biCall[c].at
               /\ r.of = biCall[c].of /\ r.todo = biCall[c].todo /\ r.waits = biCall[c].waits
               /\ r.id = biCall[c].id
  <2>1. biCall' = [biCall EXCEPT ![c].next = @ + 1]
    BY DEF BiSave
  <2>. QED BY <1>0, <2>1, BiNextIs
<1>7. r.next >= 1
  BY <1>0, <1>6, BiCallIs
<1>8. /\ r.of \in BiKeys /\ r.of # "instance" /\ r.todo = {} /\ r.at = "save" /\ ~r.waits
  BY <1>0, <1>6, BiCallIs, BiWorksOn, BiKeysAre DEF BiPlace, BiAt, BiOf
<1>9. BiPlace(r)
  BY <1>7, <1>8 DEF BiPlace, BiShows, BiBoarding, BiLate
<1>10. BiReady(r)'
  BY <1>2, <1>3, <1>6, <1>8 DEF BiReady
<1>. QED BY <1>0, <1>1, <1>2, <1>5, <1>6, <1>8, <1>9, <1>10, BiCallBase DEF BiKept, BiExists

(* Devices come and go, and the calls do not notice.                       *)
LEMMA BiDeviceBase ==
    ASSUME BiBase, BiDeviceAdded \/ BiDeviceDeleted
    PROVE  BiBase'
<1>0. BiTyped /\ BiKept /\ BiOwned
  BY DEF BiBase
<1>1. /\ UNCHANGED <<biStatus, biTemplate, biIds, biBoard, biRows, biCall, biCleaned, biBounds>>
      /\ biConfig \subseteq biConfig' /\ \A id \in biConfig' : BiExists(id)
      /\ biDevice' \in biConfig' \cup {0}
  BY <1>0 DEF BiDeviceAdded, BiDeviceDeleted, BiKept, BiExists, biResources
<1>2. BiTyped'
  <2>1. biConfig' \subseteq Nat
    BY <1>0, <1>1 DEF BiTyped, BiExists, BiMakes
  <2>. QED BY <1>0, <1>1, <2>1 DEF BiTyped, BiSideTyped, biRows, biBounds
<1>3. BiKept'
  <2>1. ASSUME NEW c \in BiCalls
        PROVE  BiReady(biCall[c])'
    BY <1>0, <1>1 DEF BiKept, BiReady
  <2>. QED BY <1>0, <1>1, <2>1 DEF BiKept, BiExists, biRows
<1>4. BiOwned'
  BY <1>0, <1>1 DEF BiOwned, BiHasRow, BiAt, BiOf, BiName, biRows
<1>. QED BY <1>2, <1>3, <1>4 DEF BiBase

(* A new template has a new number, so no row and no other call knows it.  *)
LEMMA BiCreateBase ==
    ASSUME BiBase, NEW c \in BiCalls, BiCreate(c)
    PROVE  BiBase'
<1>0. BiTyped /\ BiKept /\ BiOwned /\ BiAt(c) = "create" /\ biIds \in Nat
  BY DEF BiBase, BiCreate, BiTyped
<1>1. BiName(c) \in BiNames /\ BiOf(c) \in BiKeys /\ biCall[c].next <= Len(BiTemplates)
  <2>1. biCall[c].next <= Len(BiTemplates)
    BY <1>0, BiCallIs DEF BiPlace, BiAt
  <2>. QED BY <1>0, <2>1, BiNameIs, BiWorksOn
<1>2. PICK new : new = [id |-> biIds + 1, name |-> BiName(c), by |-> BiOf(c)]
  OBVIOUS
<1>3. /\ new.id = biIds + 1 /\ new.by = BiOf(c) /\ new.name = BiName(c) /\ new \in BiMakes
      /\ biIds' = biIds + 1 /\ biTemplate' = biTemplate \cup {new}
      /\ UNCHANGED <<biStatus, biConfig, biBoard, biDevice, biRows, biCleaned, biBounds>>
  BY <1>0, <1>1, <1>2 DEF BiMakes, BiCreate
<1>4. PICK r : /\ BiMove(c, r) /\ r.at = "map" /\ r.id[BiName(c)] = biIds + 1 /\ r.of = biCall[c].of
               /\ r.next = biCall[c].next /\ r.todo = biCall[c].todo /\ r.waits = biCall[c].waits
  BY <1>0, <1>1, BiCreateIs
<1>5. /\ biCall' \in [BiCalls -> BiLocals] /\ biCall'[c] = r
      /\ \A d \in BiCalls : d # c => biCall'[d] = biCall[d]
  BY <1>0, <1>4, BiMoveIs
<1>6. r.of \in BiKeys /\ r.of # "instance" /\ r.todo = {} /\ ~r.waits /\ r.next <= Len(BiTemplates)
  BY <1>0, <1>1, <1>4, BiCallIs, BiKeysAre DEF BiPlace, BiAt, BiOf
<1>7. BiPlace(r)
  <2>1. r.next >= 1
    BY <1>0, <1>4, BiCallIs
  <2>. QED BY <1>4, <1>6, <2>1 DEF BiPlace, BiShows, BiBoarding, BiLate
<1>8. BiTyped'
  <2>1. ASSUME NEW d \in BiCalls
        PROVE  BiPlace(biCall'[d])
    BY <1>0, <1>5, <1>7 DEF BiTyped
  <2>2. biIds' \in 0..BiMaxTemplates
    BY <1>0, <1>3, BiNumbersAre DEF BiCreate
  <2>3. BiSideTyped'
    BY <1>0, <1>3, BiRestTyped DEF BiSideTyped, biRows, biBounds
  <2>. QED BY <1>0, <1>3, <1>5, <2>1, <2>2, <2>3 DEF BiTyped, biRows
<1>9. BiKept'
  <2>1. ASSUME NEW d \in BiCalls
        PROVE  BiReady(biCall[d])'
    <3>1. CASE d = c
      BY <1>4, <1>5, <3>1 DEF BiReady
    <3>2. CASE d # c
      BY <1>0, <1>3, <1>5, <3>2 DEF BiReady, BiKept
    <3>. QED BY <3>1, <3>2
  <2>2. ASSUME NEW t \in biTemplate'
        PROVE  t.id \in 1..biIds'
    <3>1. CASE t = new
      BY <1>0, <1>3, <3>1
    <3>2. CASE t \in biTemplate
      <4>1. t.id \in 1..biIds
        BY <1>0, <3>2 DEF BiKept
      <4>. QED BY <1>0, <1>3, <4>1
    <3>. QED BY <1>3, <3>1, <3>2
  <2>3. \A id \in biConfig' : BiExists(id)'
    BY <1>0, <1>3 DEF BiKept, BiExists
  <2>. QED BY <1>0, <1>3, <2>1, <2>2, <2>3 DEF BiKept, biRows
<1>10. BiOwned'
  <2>1. ASSUME NEW m \in biMapping'
        PROVE  /\ m.id <= biIds' /\ (m.key \in BiPlans => m.id = 0)
               /\ \A t \in biTemplate' : t.id = m.id => t.by = m.of
    <3>1. /\ m.id <= biIds /\ m.id \in Nat /\ (m.key \in BiPlans => m.id = 0)
          /\ \A t \in biTemplate : t.id = m.id => t.by = m.of
      BY <1>0, <1>3 DEF BiOwned, BiTyped, BiMaps, biRows
    <3>2. new.id # m.id /\ m.id <= biIds'
      BY <1>0, <1>3, <3>1
    <3>. QED BY <1>3, <3>1, <3>2
  <2>2. ASSUME NEW d \in BiCalls
        PROVE  /\ \A m \in biCall'[d].todo : BiHasRow(m)' /\ m.active
               /\ biCall'[d].at = "unmap" => BiHasRow(biCall[d].row)' /\ biCall'[d].row.active
               /\ biCall'[d].at = "map" =>
                    /\ biCall'[d].id[BiTemplates[biCall'[d].next]] \in 1..biIds'
                    /\ \A t \in biTemplate' : t.id = biCall'[d].id[BiTemplates[biCall'[d].next]]
                         => t.by = biCall'[d].of
    <3>1. CASE d = c
      <4>1. /\ biCall'[d].id[BiTemplates[biCall'[d].next]] = biIds + 1
            /\ biCall'[d].of = BiOf(c) /\ biCall'[d].todo = {} /\ biCall'[d].at = "map"
        BY <1>4, <1>5, <1>6, <3>1 DEF BiName, BiOf
      <4>2. ASSUME NEW t \in biTemplate', t.id = biIds + 1
            PROVE  t.by = BiOf(c)
        <5>1. t \in biTemplate => t.id \in 1..biIds
          BY <1>0 DEF BiKept
        <5>. QED BY <1>0, <1>3, <4>2, <5>1
      <4>3. biIds + 1 \in 1..biIds'
        BY <1>0, <1>3
      <4>. QED BY <4>1, <4>2, <4>3
    <3>2. CASE d # c
      <4>1. biCall'[d] = biCall[d]
        BY <1>5, <3>2
      <4>2. /\ \A m \in biCall[d].todo : BiHasRow(m) /\ m.active
            /\ biCall[d].at = "unmap" => BiHasRow(biCall[d].row) /\ biCall[d].row.active
            /\ biCall[d].at = "map" =>
                 /\ biCall[d].id[BiTemplates[biCall[d].next]] \in 1..biIds
                 /\ \A t \in biTemplate : t.id = biCall[d].id[BiTemplates[biCall[d].next]]
                      => t.by = biCall[d].of
        BY <1>0 DEF BiOwned, BiAt, BiOf, BiName
      <4>3. ASSUME biCall[d].at = "map"
            PROVE  /\ biCall[d].id[BiTemplates[biCall[d].next]] \in 1..biIds'
                   /\ new.id # biCall[d].id[BiTemplates[biCall[d].next]]
        BY <1>0, <1>3, <4>2, <4>3
      <4>. QED BY <1>3, <4>1, <4>2, <4>3 DEF BiHasRow, biRows
    <3>. QED BY <3>1, <3>2
  <2>. QED BY <1>0, <1>3, <2>1, <2>2 DEF BiOwned, BiAt, BiOf, BiName, biRows
<1>. QED BY <1>8, <1>9, <1>10 DEF BiBase

(* A row of the mapping is inserted, or not.                               *)
LEMMA BiMapIs ==
    ASSUME BiTyped, NEW c \in BiCalls, NEW key \in BiNames \cup BiPlans, NEW id \in Nat,
           BiOf(c) \in BiKeys, BiMap(c, key, id)
    PROVE  /\ biFaults' \in 0..BiMaxFaults /\ biDoubt' \subseteq BiKeys \cup {"instance"}
           /\ biDoubt \subseteq biDoubt'
           /\ \/ biMapping' = biMapping
              \/ \E new \in BiMaps : /\ new.of = BiOf(c) /\ new.key = key /\ new.id = id /\ new.active
                                     /\ biMapping' = biMapping \cup {new}
                                     /\ \A m \in biMapping : m.of = new.of => m.key # new.key
           /\ (\A m \in biMapping : m.of = BiOf(c) => m.key # key) /\ BiOf(c) \notin biDoubt' =>
                 biMapping' # biMapping
<1>1. biFaults' \in 0..BiMaxFaults /\ biDoubt' \subseteq BiKeys \cup {"instance"} /\ biDoubt \subseteq biDoubt'
  BY BiNoFaultTyped, BiLostTyped DEF BiMap
<1>2. PICK new : new = [of |-> BiOf(c), key |-> key, id |-> id, active |-> TRUE]
  OBVIOUS
<1>3. new \in BiMaps /\ new.of = BiOf(c) /\ new.key = key /\ new.id = id /\ new.active
  BY <1>2 DEF BiMaps
<1>4. CASE /\ ~\E m \in biMapping : m.of = BiOf(c) /\ m.key = key
           /\ biMapping' = biMapping \cup {new}
  BY <1>1, <1>3, <1>4
<1>5. CASE /\ \E m \in biMapping : m.of = BiOf(c) /\ m.key = key
           /\ UNCHANGED biMapping
  BY <1>1, <1>5
<1>6. CASE BiLost(BiOf(c)) /\ UNCHANGED biMapping
  BY <1>1, <1>6, BiLostTyped
<1>. QED BY <1>2, <1>4, <1>5, <1>6 DEF BiMap

(* A row is inserted, for what the call has just made.                     *)
LEMMA BiMappedBase ==
    ASSUME BiBase, NEW c \in BiCalls, NEW r, BiMove(c, r), BiPlace(r), BiSideTyped',
           UNCHANGED <<biTemplate, biIds, biConfig, biDevice, biSaved>>,
           r.todo = {}, r.at \notin {"unmap", "map", "config", "save"},
           NEW new \in BiMaps, new.id <= biIds, new.key \in BiPlans => new.id = 0,
           \A t \in biTemplate : t.id = new.id => t.by = new.of,
           \A m \in biMapping : m.of = new.of => m.key # new.key,
           biMapping' = biMapping \cup {new}
    PROVE  BiBase'
<1>0. BiTyped /\ BiKept /\ BiOwned
  BY DEF BiBase
<1>1. /\ biCall' \in [BiCalls -> BiLocals] /\ biCall'[c] = r
      /\ \A d \in BiCalls : d # c => biCall'[d] = biCall[d]
  BY <1>0, BiMoveIs
<1>2. BiTyped'
  <2>1. ASSUME NEW d \in BiCalls
        PROVE  BiPlace(biCall'[d])
    BY <1>0, <1>1 DEF BiTyped
  <2>. QED BY <1>0, <1>1, <2>1 DEF BiTyped
<1>3. BiKept'
  <2>1. ASSUME NEW d \in BiCalls
        PROVE  BiReady(biCall[d])'
    <3>1. CASE d = c
      BY <1>1, <3>1 DEF BiReady
    <3>2. CASE d # c
      BY <1>0, <1>1, <3>2 DEF BiReady, BiKept
    <3>. QED BY <3>1, <3>2
  <2>. QED BY <1>0, <2>1 DEF BiKept, BiExists
<1>4. BiOwned'
  <2>1. ASSUME NEW m \in biMapping'
        PROVE  /\ m.id <= biIds' /\ (m.key \in BiPlans => m.id = 0)
               /\ \A t \in biTemplate' : t.id = m.id => t.by = m.of
    BY <1>0 DEF BiOwned
  <2>2. \A m, n \in biMapping' : m.of = n.of /\ m.key = n.key => m = n
    BY <1>0 DEF BiOwned
  <2>3. ASSUME NEW d \in BiCalls
        PROVE  /\ \A m \in biCall'[d].todo : BiHasRow(m)' /\ m.active
               /\ biCall'[d].at = "unmap" => BiHasRow(biCall[d].row)' /\ biCall'[d].row.active
               /\ biCall'[d].at = "map" =>
                    /\ biCall'[d].id[BiTemplates[biCall'[d].next]] \in 1..biIds'
                    /\ \A t \in biTemplate' : t.id = biCall'[d].id[BiTemplates[biCall'[d].next]]
                         => t.by = biCall'[d].of
    <3>1. CASE d = c
      BY <1>1, <3>1
    <3>2. CASE d # c
      <4>1. biCall'[d] = biCall[d]
        BY <1>1, <3>2
      <4>2. /\ \A m \in biCall[d].todo : BiHasRow(m) /\ m.active
            /\ biCall[d].at = "unmap" => BiHasRow(biCall[d].row) /\ biCall[d].row.active
            /\ biCall[d].at = "map" =>
                 /\ biCall[d].id[BiTemplates[biCall[d].next]] \in 1..biIds
                 /\ \A t \in biTemplate : t.id = biCall[d].id[BiTemplates[biCall[d].next]]
                      => t.by = biCall[d].of
        BY <1>0 DEF BiOwned, BiAt, BiOf, BiName
      <4>. QED BY <4>1, <4>2 DEF BiHasRow
    <3>. QED BY <3>1, <3>2
  <2>. QED BY <2>1, <2>2, <2>3 DEF BiOwned, BiAt, BiOf, BiName
<1>. QED BY <1>2, <1>3, <1>4 DEF BiBase

LEMMA BiMapTemplateBase ==
    ASSUME BiBase, NEW c \in BiCalls, BiMapTemplate(c)
    PROVE  BiBase'
<1>0. BiTyped /\ BiKept /\ BiOwned /\ BiAt(c) = "map" /\ biIds \in Nat
  BY DEF BiBase, BiMapTemplate, BiTyped
<1>1. BiName(c) \in BiNames /\ BiOf(c) \in BiKeys
  <2>1. biCall[c].next <= Len(BiTemplates)
    BY <1>0, BiCallIs DEF BiPlace, BiAt
  <2>. QED BY <1>0, <2>1, BiNameIs, BiWorksOn
<1>2. PICK id \in Nat : /\ id = biCall[c].id[BiName(c)] /\ id \in 1..biIds
                        /\ \A t \in biTemplate : t.id = id => t.by = BiOf(c)
  BY <1>0 DEF BiOwned
<1>3. BiMap(c, BiName(c), id)
  BY <1>2 DEF BiMapTemplate
<1>4. PICK r : /\ BiMove(c, r) /\ r.at = "look" /\ r.of = biCall[c].of /\ r.next = biCall[c].next + 1
               /\ r.todo = biCall[c].todo /\ r.waits = biCall[c].waits
  BY <1>0, BiMapTemplateIs
<1>5. r.of \in BiKeys /\ r.of # "instance" /\ r.todo = {} /\ ~r.waits
  BY <1>0, <1>1, <1>4, BiCallIs, BiKeysAre DEF BiPlace, BiAt, BiOf
<1>6. BiPlace(r)
  <2>1. r.next >= 1
    BY <1>0, <1>4, BiCallIs
  <2>. QED BY <1>4, <1>5, <2>1 DEF BiPlace, BiShows, BiBoarding, BiLate
<1>7. BiSideTyped'
  BY <1>0, <1>1, <1>3, BiMapIs, BiRestTyped DEF BiSideTyped, BiMapTemplate, biResources
<1>8. UNCHANGED <<biTemplate, biIds, biConfig, biDevice, biSaved>>
  BY DEF BiMapTemplate, biResources
<1>9. CASE biMapping' = biMapping
  BY <1>4, <1>5, <1>6, <1>7, <1>8, <1>9, BiQuietBase DEF BiReady
<1>10. CASE biMapping' # biMapping
  <2>1. PICK new \in BiMaps : /\ new.of = BiOf(c) /\ new.key = BiName(c) /\ new.id = id
                              /\ biMapping' = biMapping \cup {new}
                              /\ \A m \in biMapping : m.of = new.of => m.key # new.key
    BY <1>0, <1>1, <1>3, <1>10, BiMapIs
  <2>2. new.key \notin BiPlans
    BY <1>1, <2>1, BiAssumption
  <2>3. new.id <= biIds /\ \A t \in biTemplate : t.id = new.id => t.by = new.of
    BY <1>0, <1>2, <2>1
  <2>. QED BY <1>4, <1>5, <1>6, <1>7, <1>8, <2>1, <2>2, <2>3, BiMappedBase
<1>. QED BY <1>9, <1>10

LEMMA BiMapBoardBase ==
    ASSUME BiBase, NEW c \in BiCalls, BiMapBoard(c)
    PROVE  BiBase'
<1>0. BiTyped /\ BiKept /\ BiOwned /\ BiAt(c) = "mapboard" /\ biIds \in Nat
  BY DEF BiBase, BiMapBoard, BiTyped
<1>1. /\ BiPlan(c) \in BiPlans /\ BiOf(c) \in BiKeys /\ BiOf(c) \in BiInstalls
      /\ biCall[c].next <= Len(BiBoards)
  <2>1. biCall[c].next <= Len(BiBoards)
    BY <1>0, BiCallIs DEF BiPlace, BiAt
  <2>. QED BY <1>0, <2>1, BiPlanIs, BiWorksOn
<1>3. BiMap(c, BiPlan(c), 0)
  BY DEF BiMapBoard
<1>4. PICK r : /\ BiMove(c, r) /\ r.at = "bindboard" /\ r.of = biCall[c].of /\ r.next = biCall[c].next
               /\ r.todo = biCall[c].todo /\ r.waits = biCall[c].waits
  <2>1. "bindboard" \in BiPlaces /\ BiStep(c, "bindboard")
    BY DEF BiMapBoard, BiPlaces, BiBuild
  <2>. QED BY <1>0, <2>1, BiStepIs
<1>5. /\ r.of \in BiKeys /\ r.of \in BiInstalls /\ r.of # "instance" /\ r.todo = {} /\ ~r.waits
      /\ r.next <= Len(BiBoards)
  BY <1>0, <1>1, <1>4, BiCallIs, BiKeysAre DEF BiPlace, BiAt, BiOf
<1>6. BiPlace(r)
  <2>1. r.next >= 1
    BY <1>0, <1>4, BiCallIs
  <2>. QED BY <1>4, <1>5, <2>1 DEF BiPlace, BiShows, BiBoarding, BiLate
<1>7. BiSideTyped'
  BY <1>0, <1>1, <1>3, BiMapIs, BiRestTyped DEF BiSideTyped, BiMapBoard, biResources
<1>8. UNCHANGED <<biTemplate, biIds, biConfig, biDevice, biSaved>>
  BY DEF BiMapBoard, biResources
<1>9. CASE biMapping' = biMapping
  BY <1>4, <1>5, <1>6, <1>7, <1>8, <1>9, BiQuietBase DEF BiReady
<1>10. CASE biMapping' # biMapping
  <2>1. PICK new \in BiMaps : /\ new.of = BiOf(c) /\ new.key = BiPlan(c) /\ new.id = 0
                              /\ biMapping' = biMapping \cup {new}
                              /\ \A m \in biMapping : m.of = new.of => m.key # new.key
    BY <1>0, <1>1, <1>3, <1>10, BiMapIs
  <2>3. new.id <= biIds /\ \A t \in biTemplate : t.id # new.id
    BY <1>0, <2>1 DEF BiKept
  <2>. QED BY <1>4, <1>5, <1>6, <1>7, <1>8, <2>1, <2>3, BiMappedBase
<1>. QED BY <1>9, <1>10

(* A resource is deleted only when it has no configuration, so the         *)
(* templates that must stay do; and its row is known to be active.         *)
LEMMA BiCleanBase ==
    ASSUME BiBase, NEW c \in BiCalls, BiClean(c)
    PROVE  BiBase'
<1>0. BiTyped /\ BiKept /\ BiOwned /\ BiAt(c) = "clean"
  BY DEF BiBase, BiClean
<1>1. UNCHANGED <<biStatus, biIds, biConfig, biDevice, biRows, biCleaned, biCalls>>
  BY DEF BiClean
<1>2. PICK m \in biCall[c].todo :
         \/ /\ m.id \notin biConfig
            /\ biTemplate' = {t \in biTemplate : t.id # m.id}
            /\ biBoard' = biBoard \ {<<m.of, m.key>>}
            /\ biCall' = [biCall EXCEPT ![c].at = "unmap", ![c].row = m, ![c].todo = @ \ {m}]
            /\ BiNoFault
         \/ /\ BiNoFault \/ BiLost(BiOf(c))
            /\ biCall' = [biCall EXCEPT ![c].todo = @ \ {m}]
            /\ UNCHANGED <<biTemplate, biBoard>>
  BY DEF BiClean
<1>3. /\ m \in BiMaps /\ m.of = BiOf(c) /\ m.active /\ BiHasRow(m) /\ BiOf(c) \in BiKeys
      /\ BiOf(c) # "instance" /\ ~biCall[c].waits /\ biCall[c].next >= 1
  BY <1>0, <1>2, BiCallIs, BiWorksOn, BiKeysAre DEF BiOwned, BiPlace, BiAt, BiOf
<1>4. BiSideTyped'
  <2>1. biFaults' \in 0..BiMaxFaults /\ biDoubt' \subseteq BiKeys \cup {"instance"}
    BY <1>0, <1>2, <1>3, BiNoFaultTyped, BiLostTyped
  <2>2. biBoard' \subseteq (BiInstalls \cup BiCalls) \X BiPlans
    BY <1>0, <1>2, BiRestTyped
  <2>. QED BY <1>0, <1>1, <2>1, <2>2, BiRestTyped DEF BiSideTyped, biRows
<1>5. PICK r : /\ BiMove(c, r) /\ r.todo = biCall[c].todo \ {m} /\ r.of = biCall[c].of
               /\ r.next = biCall[c].next /\ r.waits = biCall[c].waits
               /\ \/ /\ r.at = "unmap" /\ r.row = m /\ m.id \notin biConfig
                     /\ biTemplate' = {t \in biTemplate : t.id # m.id}
                  \/ r.at = "clean" /\ biTemplate' = biTemplate
  <2>1. CASE /\ biCall' = [biCall EXCEPT ![c].at = "unmap", ![c].row = m, ![c].todo = @ \ {m}]
             /\ biTemplate' = {t \in biTemplate : t.id # m.id} /\ m.id \notin biConfig
    <3>1. BiTake(c, m)
      BY <2>1 DEF BiTake
    <3>2. m \in BiMaps
      BY <1>3
    <3>3. PICK r : /\ BiMove(c, r) /\ r.at = "unmap" /\ r.row = m
                   /\ r.todo = biCall[c].todo \ {m} /\ r.of = biCall[c].of
                   /\ r.next = biCall[c].next /\ r.waits = biCall[c].waits
      BY <1>0, <3>1, <3>2, BiTakeIs
    <3>. QED BY <2>1, <3>3
  <2>2. CASE biCall' = [biCall EXCEPT ![c].todo = @ \ {m}] /\ biTemplate' = biTemplate
    <3>1. BiDrop(c, m)
      BY <2>2 DEF BiDrop
    <3>3. PICK r : /\ BiMove(c, r) /\ r.at = biCall[c].at
                   /\ r.todo = biCall[c].todo \ {m} /\ r.of = biCall[c].of
                   /\ r.next = biCall[c].next /\ r.waits = biCall[c].waits
      BY <1>0, <3>1, BiDropIs
    <3>. QED BY <1>0, <2>2, <3>3 DEF BiAt
  <2>. QED BY <1>2, <2>1, <2>2
<1>6. BiPlace(r)
  <2>1. r.of \in BiKeys /\ r.of # "instance" /\ ~r.waits /\ r.next >= 1
    BY <1>3, <1>5 DEF BiOf
  <2>2. \A n \in r.todo : n.of = r.of
    BY <1>0, <1>5, BiCallIs DEF BiPlace
  <2>3. r.at = "unmap" => r.row \in BiMaps /\ r.row.of = r.of
    BY <1>3, <1>5 DEF BiOf
  <2>. QED BY <1>5, <2>1, <2>2, <2>3 DEF BiPlace, BiShows, BiBoarding, BiLate
<1>7. /\ biCall' \in [BiCalls -> BiLocals] /\ biCall'[c] = r
      /\ \A d \in BiCalls : d # c => biCall'[d] = biCall[d]
  BY <1>0, <1>5, BiMoveIs
<1>8. biTemplate' \subseteq biTemplate /\ \A id \in biConfig : \E t \in biTemplate' : t.id = id
  BY <1>0, <1>5 DEF BiKept, BiExists
<1>9. BiTyped'
  <2>1. ASSUME NEW d \in BiCalls
        PROVE  BiPlace(biCall'[d])
    BY <1>0, <1>6, <1>7 DEF BiTyped
  <2>. QED BY <1>0, <1>1, <1>4, <1>7, <1>8, <2>1 DEF BiTyped, biRows
<1>10. BiKept'
  <2>1. ASSUME NEW d \in BiCalls
        PROVE  BiReady(biCall[d])'
    <3>1. CASE d = c
      BY <1>5, <1>7, <3>1 DEF BiReady
    <3>2. CASE d # c
      BY <1>0, <1>1, <1>7, <3>2 DEF BiReady, BiKept
    <3>. QED BY <3>1, <3>2
  <2>. QED BY <1>0, <1>1, <1>8, <2>1 DEF BiKept, BiExists, biRows
<1>11. BiOwned'
  <2>1. ASSUME NEW d \in BiCalls
        PROVE  /\ \A n \in biCall'[d].todo : BiHasRow(n)' /\ n.active
               /\ biCall'[d].at = "unmap" => BiHasRow(biCall[d].row)' /\ biCall'[d].row.active
               /\ biCall'[d].at = "map" =>
                    /\ biCall'[d].id[BiTemplates[biCall'[d].next]] \in 1..biIds'
                    /\ \A t \in biTemplate' : t.id = biCall'[d].id[BiTemplates[biCall'[d].next]]
                         => t.by = biCall'[d].of
    <3>0. /\ \A n \in biCall[d].todo : BiHasRow(n) /\ n.active
          /\ biCall[d].at = "unmap" => BiHasRow(biCall[d].row) /\ biCall[d].row.active
          /\ biCall[d].at = "map" =>
               /\ biCall[d].id[BiTemplates[biCall[d].next]] \in 1..biIds
               /\ \A t \in biTemplate : t.id = biCall[d].id[BiTemplates[biCall[d].next]]
                    => t.by = biCall[d].of
      BY <1>0 DEF BiOwned, BiAt, BiOf, BiName
    <3>1. CASE d = c
      <4>1. biCall'[d] = r
        BY <1>7, <3>1
      <4>2. r.at # "map"
        BY <1>5
      <4>. QED BY <1>1, <1>3, <1>5, <3>0, <3>1, <4>1, <4>2 DEF BiHasRow, biRows
    <3>2. CASE d # c
      <4>1. biCall'[d] = biCall[d]
        BY <1>7, <3>2
      <4>. QED BY <1>1, <1>8, <3>0, <4>1 DEF BiHasRow, biRows
    <3>. QED BY <3>1, <3>2
  <2>. QED BY <1>0, <1>1, <1>8, <2>1 DEF BiOwned, BiAt, BiOf, BiName, biRows
<1>. QED BY <1>9, <1>10, <1>11 DEF BiBase

(* The row that is set inactive has the same key, so nobody misses it.     *)
LEMMA BiUnmapIs ==
    ASSUME BiBase, NEW c \in BiCalls, BiUnmap(c)
    PROVE  /\ biFaults' \in 0..BiMaxFaults /\ biDoubt' \subseteq BiKeys \cup {"instance"}
           /\ biDoubt \subseteq biDoubt'
           /\ \/ biMapping' = biMapping /\ BiOf(c) \in biDoubt'
              \/ \E old, new \in BiMaps :
                   /\ old.of = BiOf(c) /\ new.of = old.of /\ new.key = old.key /\ new.id = old.id
                   /\ old = biCall[c].row
                   /\ biMapping' = (biMapping \ {old}) \cup {new}
                   /\ BiHasRow(old) /\ old.active /\ ~new.active
<1>0. BiTyped /\ BiOwned /\ BiAt(c) = "unmap" /\ BiOf(c) \in BiKeys
  BY BiWorksOn DEF BiBase, BiUnmap
<1>1. biFaults' \in 0..BiMaxFaults /\ biDoubt' \subseteq BiKeys \cup {"instance"} /\ biDoubt \subseteq biDoubt'
  BY <1>0, BiNoFaultTyped, BiLostTyped DEF BiUnmap
<1>2. CASE BiLost(BiOf(c)) /\ UNCHANGED biMapping
  BY <1>0, <1>1, <1>2, BiLostTyped
<1>3. CASE biMapping' = (biMapping \ {biCall[c].row}) \cup {[biCall[c].row EXCEPT !.active = FALSE]}
  <2>1. PICK old \in BiMaps : old = biCall[c].row /\ old.of = BiOf(c) /\ BiHasRow(old) /\ old.active
    BY <1>0, BiCallIs DEF BiPlace, BiOwned, BiAt, BiOf
  <2>2. PICK new : new = [old EXCEPT !.active = FALSE]
    OBVIOUS
  <2>3. new \in BiMaps /\ new.of = old.of /\ new.key = old.key /\ new.id = old.id /\ ~new.active
    BY <2>1, <2>2 DEF BiMaps
  <2>4. biMapping' = (biMapping \ {old}) \cup {new}
    BY <1>3, <2>1, <2>2
  <2>. QED BY <1>1, <2>1, <2>3, <2>4
<1>. QED BY <1>2, <1>3 DEF BiUnmap

LEMMA BiUnmapBase ==
    ASSUME BiBase, NEW c \in BiCalls, BiUnmap(c)
    PROVE  BiBase'
<1>0. BiTyped /\ BiKept /\ BiOwned /\ BiAt(c) = "unmap" /\ BiOf(c) \in BiKeys
  BY BiWorksOn DEF BiBase, BiUnmap
<1>1. UNCHANGED <<biStatus, biTemplate, biIds, biConfig, biBoard, biDevice, biBinding, biSaved,
                  biInstance, biCleaned, biCalls>>
  BY DEF BiUnmap, biResources
<1>2. BiSideTyped'
  BY <1>0, <1>1, BiUnmapIs, BiRestTyped DEF BiSideTyped
<1>3. PICK r : /\ BiMove(c, r) /\ r.at = "clean" /\ r.of = biCall[c].of /\ r.next = biCall[c].next
               /\ r.todo = biCall[c].todo /\ r.waits = biCall[c].waits
  <2>1. biCall' = [biCall EXCEPT ![c].at = "clean", ![c].row = BiNoMap]
    BY DEF BiUnmap
  <2>. QED BY <1>0, <2>1, BiDoneIs
<1>4. BiPlace(r)
  <2>1. r.of \in BiKeys /\ r.of # "instance" /\ ~r.waits /\ r.next >= 1
    BY <1>0, <1>3, BiCallIs, BiKeysAre DEF BiOf, BiAt, BiPlace
  <2>2. \A n \in r.todo : n.of = r.of
    BY <1>0, <1>3, BiCallIs DEF BiPlace
  <2>. QED BY <1>3, <2>1, <2>2 DEF BiPlace, BiShows, BiBoarding, BiLate
<1>5. \A m \in r.todo : BiHasRow(m) /\ m.active
  BY <1>0, <1>3 DEF BiOwned
<1>6. CASE biMapping' = biMapping
  BY <1>1, <1>2, <1>3, <1>4, <1>5, <1>6, BiQuietBase DEF BiReady
<1>7. CASE biMapping' # biMapping
  <2>1. PICK old \in BiMaps, new \in BiMaps :
          /\ new.of = old.of /\ new.key = old.key /\ new.id = old.id
          /\ biMapping' = (biMapping \ {old}) \cup {new} /\ BiHasRow(old)
          /\ old.active /\ ~new.active
    BY <1>7, BiUnmapIs
  <2>2. PICK row \in biMapping : row.of = new.of /\ row.key = new.key /\ row.id = new.id
    BY <2>1 DEF BiHasRow
  <2>3. /\ biCall' \in [BiCalls -> BiLocals] /\ biCall'[c] = r
        /\ \A d \in BiCalls : d # c => biCall'[d] = biCall[d]
    BY <1>0, <1>3, BiMoveIs
  <2>4. \A m : BiHasRow(m) => \E n \in biMapping' : n.of = m.of /\ n.key = m.key /\ n.id = m.id
    BY <2>1 DEF BiHasRow
  <2>5. BiTyped'
    <3>1. ASSUME NEW d \in BiCalls
          PROVE  BiPlace(biCall'[d])
      BY <1>0, <1>4, <2>3 DEF BiTyped
    <3>. QED BY <1>0, <1>1, <1>2, <2>1, <2>3, <3>1 DEF BiTyped
  <2>6. BiKept'
    <3>1. ASSUME NEW d \in BiCalls
          PROVE  BiReady(biCall[d])'
      <4>1. CASE d = c
        BY <1>3, <2>3, <4>1 DEF BiReady
      <4>2. CASE d # c
        BY <1>0, <1>1, <2>3, <4>2 DEF BiReady, BiKept
      <4>. QED BY <4>1, <4>2
    <3>. QED BY <1>0, <1>1, <3>1 DEF BiKept, BiExists
  <2>7. BiOwned'
    <3>1. ASSUME NEW m \in biMapping'
          PROVE  /\ m.id <= biIds' /\ (m.key \in BiPlans => m.id = 0)
                 /\ \A t \in biTemplate' : t.id = m.id => t.by = m.of
      BY <1>0, <1>1, <2>1, <2>2 DEF BiOwned
    <3>2. \A m, n \in biMapping' : m.of = n.of /\ m.key = n.key => m = n
      <4>1. \A m, n \in biMapping : m.of = n.of /\ m.key = n.key => m = n
        BY <1>0 DEF BiOwned
      <4>2. \A m \in biMapping' : m = new \/ (m \in biMapping /\ m # old)
        BY <2>1
      <4>3. ASSUME NEW m \in biMapping, m # old, m.of = new.of, m.key = new.key
            PROVE  m = new
        <5>1. m = row /\ m \in BiMaps
          BY <1>0, <2>2, <4>1, <4>3 DEF BiTyped
        <5>2. m.of = old.of /\ m.key = old.key /\ m.id = old.id
          BY <2>1, <2>2, <5>1
        <5>3. CASE m.active
          <6>1. m = old
            BY <2>1, <5>1, <5>2, <5>3 DEF BiMaps
          <6>. QED BY <4>3, <6>1
        <5>4. CASE ~m.active
          BY <2>1, <5>1, <5>2, <5>4 DEF BiMaps
        <5>. QED BY <5>3, <5>4
      <4>. QED BY <4>1, <4>2, <4>3
    <3>3. ASSUME NEW d \in BiCalls
          PROVE  /\ \A n \in biCall'[d].todo : BiHasRow(n)' /\ n.active
                 /\ biCall'[d].at = "unmap" => BiHasRow(biCall[d].row)' /\ biCall'[d].row.active
                 /\ biCall'[d].at = "map" =>
                      /\ biCall'[d].id[BiTemplates[biCall'[d].next]] \in 1..biIds'
                      /\ \A t \in biTemplate' : t.id = biCall'[d].id[BiTemplates[biCall'[d].next]]
                           => t.by = biCall'[d].of
      <4>0. /\ \A n \in biCall[d].todo : BiHasRow(n) /\ n.active
            /\ biCall[d].at = "unmap" => BiHasRow(biCall[d].row) /\ biCall[d].row.active
            /\ biCall[d].at = "map" =>
                 /\ biCall[d].id[BiTemplates[biCall[d].next]] \in 1..biIds
                 /\ \A t \in biTemplate : t.id = biCall[d].id[BiTemplates[biCall[d].next]]
                      => t.by = biCall[d].of
        BY <1>0 DEF BiOwned, BiAt, BiOf, BiName
      <4>1. CASE d = c
        <5>1. biCall'[d] = r
          BY <2>3, <4>1
        <5>. QED BY <1>3, <2>4, <4>0, <4>1, <5>1 DEF BiHasRow
      <4>2. CASE d # c
        <5>1. biCall'[d] = biCall[d]
          BY <2>3, <4>2
        <5>. QED BY <1>1, <2>4, <4>0, <5>1 DEF BiHasRow
      <4>. QED BY <4>1, <4>2
    <3>. QED BY <3>1, <3>2, <3>3 DEF BiOwned, BiAt, BiOf, BiName
  <2>. QED BY <2>5, <2>6, <2>7 DEF BiBase
<1>. QED BY <1>6, <1>7

LEMMA BiRestartBase ==
    ASSUME BiBase, BiRestart
    PROVE  BiBase'
<1>0. BiTyped /\ BiKept /\ BiOwned
  BY DEF BiBase
<1>1. UNCHANGED <<biStatus, biTemplate, biIds, biConfig, biBoard, biDevice, biMapping, biBinding, biSaved,
                  biInstance, biCleaned, biCalls>>
  BY DEF BiRestart, biResources, biRows
<1>2. BiSideTyped'
  <2>1. biFaults' \in 0..BiMaxFaults
    <3>1. biFaults \in 0..BiMaxFaults /\ biFaults < BiMaxFaults /\ biFaults' = biFaults + 1
      BY <1>0, BiRestTyped DEF BiRestart
    <3>. QED BY <3>1, BiNumbersAre
  <2>2. biDoubt' \subseteq BiKeys \cup {"instance"}
    <3>1. \A c \in BiCalls : BiAt(c) # "idle" => BiOf(c) \in BiKeys \cup {"instance"}
      BY <1>0, BiCallIs, BiWorksOn DEF BiPlace, BiAt, BiOf, BiShows
    <3>. QED BY <1>0, <3>1, BiRestTyped DEF BiRestart
  <2>. QED BY <1>0, <1>1, <2>1, <2>2, BiRestTyped DEF BiSideTyped
<1>3. biCall' \in [BiCalls -> BiLocals] /\ \A d \in BiCalls : biCall'[d] = BiIdle
  BY BiIdleIs DEF BiRestart
<1>4. BiTyped'
  BY <1>0, <1>1, <1>2, <1>3, BiIdleIs DEF BiTyped
<1>5. BiKept'
  <2>1. \A d \in BiCalls : BiReady(biCall[d])'
    BY <1>3, BiIdleIs DEF BiReady
  <2>. QED BY <1>0, <1>1, <2>1 DEF BiKept, BiExists
<1>6. BiOwned'
  BY <1>0, <1>1, <1>3, BiIdleIs DEF BiOwned, BiAt
<1>. QED BY <1>4, <1>5, <1>6 DEF BiBase

LEMMA BiInitBase ==
    ASSUME BiInit
    PROVE  BiBase
<1>1. biCall \in [BiCalls -> BiLocals] /\ \A d \in BiCalls : biCall[d] = BiIdle
  BY BiIdleIs DEF BiInit
<1>2. BiTyped
  <2>1. biIds \in 0..BiMaxTemplates /\ biCalls \in 0..BiMaxCalls /\ biFaults \in 0..BiMaxFaults
    BY BiNumbersAre DEF BiInit
  <2>2. /\ biStatus \in [BiKeys -> BiStatuses]
        /\ biBinding \in [BiInstalls -> [BiPlans -> {"none", "bound", "failed"}]]
        /\ biSaved \in [BiPlans -> Nat]
    BY DEF BiInit, BiStatuses
  <2>3. BiSideTyped
    BY <2>1, <2>2 DEF BiInit, BiSideTyped
  <2>. QED BY <1>1, <2>1, <2>2, <2>3, BiIdleIs DEF BiInit, BiTyped
<1>3. BiKept
  <2>1. \A d \in BiCalls : BiReady(biCall[d])
    BY <1>1, BiIdleIs DEF BiReady
  <2>. QED BY <2>1 DEF BiInit, BiKept
<1>4. BiOwned
  BY <1>1, BiIdleIs DEF BiInit, BiOwned, BiAt
<1>. QED BY <1>2, <1>3, <1>4 DEF BiBase

(* What no other step disturbs.                                            *)
LEMMA BiNextBase ==
    ASSUME BiBase, [BiNext]_biVars
    PROVE  BiBase'
<1>1. ASSUME NEW c \in BiCalls, BiProgress(c)
      PROVE  BiBase'
  BY <1>1, BiFetchBase, BiLookBase, BiCreateBase, BiMapTemplateBase, BiTemplatesDoneBase,
     BiConfigureBase, BiConfigsDoneBase, BiSaveBase, BiDownloadedBase, BiResolveBase, BiImportBase,
     BiMapBoardBase, BiBindBoardBase, BiBoardsDoneBase, BiProcessBase, BiInstalledBase, BiBreakBase,
     BiFailBase, BiCheckBase, BiFlagBase, BiRetryBase, BiListBase, BiCleanBase, BiUnmapBase,
     BiCompensatedBase, BiRebindBase, BiCountBase, BiCompleteBase, BiRecordBase, BiUndoBase
     DEF BiProgress
<1>2. ASSUME NEW c \in BiCalls, NEW k \in BiKeys,
             BiInstall(c, k) \/ BiDownload(c, k) \/ BiRepair(c, k) \/ BiUpdateBinding(c, k)
      PROVE  BiBase'
  BY <1>2, BiInstallBase, BiDownloadBase, BiRepairBase, BiUpdateBindingBase
<1>3. ASSUME NEW c \in BiCalls, NEW b \in BiPlans, BiInstantiate(c, b)
      PROVE  BiBase'
  BY <1>3, BiInstantiateBase
<1>4. CASE BiDeviceAdded \/ BiDeviceDeleted \/ BiRestart
  BY <1>4, BiDeviceBase, BiRestartBase
<1>5. CASE UNCHANGED biVars
  <2>1. UNCHANGED <<biStatus, biTemplate, biIds, biConfig, biBoard, biDevice, biMapping, biBinding, biSaved,
                    biInstance, biCall, biCleaned, biCalls, biFaults, biDoubt>>
    BY <1>5 DEF biVars, biResources, biRows, biBounds
  <2>2. BiTyped'
    BY <2>1 DEF BiBase, BiTyped, BiSideTyped
  <2>3. BiKept' /\ BiOwned'
    BY <2>1 DEF BiBase, BiKept, BiReady, BiExists, BiOwned, BiHasRow, BiAt, BiOf, BiName
  <2>. QED BY <2>2, <2>3 DEF BiBase
<1>. QED BY <1>1, <1>2, <1>3, <1>4, <1>5 DEF BiNext

(* The base, unconditionally: whatever is lost, repeated or overlaps, the  *)
(* rows have their kinds, what has a configuration stays, and a row of the *)
(* mapping is about what its own installation has made.                    *)
THEOREM BundleBase == BiSpec => []BiBase
<1>1. BiInit => BiBase
  BY BiInitBase
<1>2. BiBase /\ [BiNext]_biVars => BiBase'
  BY BiNextBase
<1>. QED BY <1>1, <1>2, PTL DEF BiSpec

(* What the base says in the words of the model.                           *)
LEMMA BiBaseMeans ==
    ASSUME BiBase
    PROVE  BiTypeOK /\ BiTemplatesKept
<1>0. BiTyped /\ BiKept /\ BiOwned /\ BiSideTyped
  BY DEF BiBase, BiTyped
<1>1. BiTemplatesKept
  BY <1>0 DEF BiKept, BiTemplatesKept
<1>2. biSaved \in [BiPlans -> 0..biIds]
  <2>1. ASSUME NEW b \in BiPlans
        PROVE  biSaved[b] \in 0..biIds
    <3>0. biIds \in Nat /\ biSaved[b] \in Nat
      BY <1>0 DEF BiTyped
    <3>1. CASE biSaved[b] = 0
      BY <3>0, <3>1
    <3>2. CASE biSaved[b] # 0
      <4>1. PICK t \in biTemplate : t.id = biSaved[b]
        BY <1>1, <3>2 DEF BiTemplatesKept, BiExists
      <4>2. t.id \in 1..biIds
        BY <1>0 DEF BiKept
      <4>. QED BY <3>0, <4>1, <4>2
    <3>. QED BY <3>1, <3>2
  <2>2. biSaved \in [BiPlans -> Nat]
    BY <1>0 DEF BiTyped
  <2>. QED BY <2>1, <2>2
<1>3. biConfig \subseteq {t.id : t \in biTemplate}
  BY <1>0 DEF BiKept, BiExists
<1>4. \A t \in biTemplate : t.id \in 1..biIds /\ t.name \in BiNames /\ t.by \in BiKeys
  BY <1>0 DEF BiKept, BiTyped, BiMakes
<1>5. biIds \in 0..BiMaxTemplates /\ biDevice \in biConfig \cup {0}
  BY <1>0 DEF BiTyped, BiKept
<1>6. \A m, n \in biMapping : m.of = n.of /\ m.key = n.key => m = n
  BY <1>0 DEF BiOwned
<1>7. BiTypeOK
  BY <1>0, <1>2, <1>3, <1>4, <1>5, <1>6 DEF BiTypeOK, BiSideTyped
<1>. QED BY <1>1, <1>7

-----------------------------------------------------------------------------
(* Under which conditions the status of an installation can be trusted: one*)
(* call at a time works on it, a download that was compensated is not      *)
(* repeated, and the bundle lists no template and no dashboard twice.      *)
BiOrderly ==
    /\ ~BiMayOverlap /\ ~BiMayRepeat
    /\ \A i, j \in 1..Len(BiTemplates) : BiTemplates[i] = BiTemplates[j] => i = j
    /\ \A i, j \in 1..Len(BiBoards) : BiBoards[i] = BiBoards[j] => i = j

(* What is so for k when no call but one with the record r works on it.    *)
BiTrackedBy(r, k) ==
    /\ \A t \in BiMadeBy(k) :
         \/ t.id \in biConfig
         \/ \E m \in BiRowsOf(k) : m.active /\ m.id = t.id
         \/ r.at = "map" /\ r.id[BiTemplates[r.next]] = t.id
    /\ \A b \in BiShownBy(k) :
         \/ \E m \in BiRowsOf(k) : m.active /\ m.key = b
         \/ r.at = "mapboard" /\ BiBoards[r.next] = b

BiToldBy(r, k) ==
    /\ biStatus[k] = "FAILED" => BiClear(k) \/ r.at \in {"check", "flag"}
    /\ k \in BiInstalls /\ biStatus[k] = "WAITING_FOR_BINDINGS" =>
         (\E b \in BiRequired : biBinding[k][b] = "failed") \/ r.at \in {"count", "complete"}

BiKnownTo(r, k) ==
    /\ k \in BiDownloads \ biCleaned /\ r.at \notin {"clean", "unmap"} =>
         \A m \in BiRowsOf(k) : \E t \in BiMadeBy(k) : t.id = m.id /\ t.name = m.key
    /\ k \in BiDownloads \cap biCleaned => r.at \notin BiBuild

BiSole(r, k) == BiFit(r, k) /\ BiTrackedBy(r, k) /\ BiToldBy(r, k) /\ BiKnownTo(r, k) /\ BiNoneYet(k)

(* What a step on one installation leaves as it is for every other one.    *)
BiElsewhere(k) ==
    /\ biConfig \subseteq biConfig' /\ biDoubt \subseteq biDoubt'
    /\ \A j \in BiKeys \ {k} :
         /\ biStatus'[j] = biStatus[j] /\ (j \in BiInstalls => biBinding'[j] = biBinding[j])
         /\ BiRowsOf(j)' = BiRowsOf(j) /\ BiMadeBy(j)' = BiMadeBy(j) /\ BiShownBy(j)' = BiShownBy(j)
         /\ j \in biCleaned' <=> j \in biCleaned

(* What is so for an installation stays so while others are worked on.     *)
LEMMA BiFrame ==
    ASSUME NEW k \in BiKeys, BiKeyInv(k), biConfig \subseteq biConfig',
           biStatus'[k] = biStatus[k], k \in BiInstalls => biBinding'[k] = biBinding[k],
           BiRowsOf(k)' = BiRowsOf(k), BiMadeBy(k)' = BiMadeBy(k), BiShownBy(k)' = BiShownBy(k),
           k \in biCleaned' <=> k \in biCleaned,
           BiWorkers(k)' = BiWorkers(k), \A d \in BiWorkers(k) : biCall'[d] = biCall[d],
           \A d \in BiWorkers(k) : biCall[d].at \in {"resolve", "bind"} \cup BiBoarding => k \in BiInstalls
    PROVE  BiKeyInv(k)'
<1>1. ASSUME NEW d \in BiWorkers(k)
      PROVE  BiFit(biCall[d], k)'
  <2>0. PICK r : r = biCall[d]
    OBVIOUS
  <2>1. BiFit(r, k) /\ biCall'[d] = r /\ (r.at \in {"resolve", "bind"} \cup BiBoarding => k \in BiInstalls)
    BY <2>0 DEF BiKeyInv
  <2>2. BiStatusFits(r, k)'
    BY <2>1 DEF BiFit, BiStatusFits
  <2>3. BiRowsFit(r, k)'
    BY <2>1 DEF BiFit, BiRowsFit
  <2>4. BiBindFits(r, k)'
    BY <2>1 DEF BiFit, BiBindFits
  <2>5. BiCleanFits(r, k)'
    BY <2>1 DEF BiFit, BiCleanFits
  <2>6. BiFit(r, k)'
    BY <2>2, <2>3, <2>4, <2>5 DEF BiFit
  <2>. QED BY <2>1, <2>6 DEF BiFit, BiStatusFits, BiRowsFit, BiBindFits, BiCleanFits
<1>2. BiAlone(k)' /\ BiTracked(k)'
  <2>1. BiAlone(k)'
    BY DEF BiKeyInv, BiTells, BiAlone, BiAt
  <2>2. BiTracked(k)'
    BY DEF BiKeyInv, BiTells, BiTracked, BiAt, BiName, BiPlan
  <2>. QED BY <2>1, <2>2
<1>3. BiFailedTold(k)' /\ BiWaitingTold(k)'
  <2>1. BiFailedTold(k)'
    BY DEF BiKeyInv, BiTells, BiFailedTold, BiClear, BiAt
  <2>2. BiWaitingTold(k)'
    BY DEF BiKeyInv, BiTells, BiWaitingTold, BiAt
  <2>. QED BY <2>1, <2>2
<1>4. BiPresent(k)' /\ BiRests(k)' /\ BiNoneYet(k)'
  BY DEF BiKeyInv, BiTells, BiPresent, BiRests, BiNoneYet, BiAt
<1>. QED BY <1>1, <1>2, <1>3, <1>4 DEF BiKeyInv, BiTells

(* From the installation to its only call, and back.                       *)
LEMMA BiSoleIs ==
    ASSUME BiTyped, NEW k \in BiKeys, BiKeyInv(k), NEW c \in BiCalls, BiWorkers(k) \subseteq {c},
           BiOf(c) = k \/ BiAt(c) = "idle"
    PROVE  BiSole(biCall[c], k)
<1>0. PICK r : r = biCall[c]
  OBVIOUS
<1>1. c \in BiWorkers(k) \/ r.at = "idle"
  BY <1>0 DEF BiWorkers, BiAt
<1>2. BiFit(r, k)
  <2>1. CASE c \in BiWorkers(k)
    BY <1>0, <2>1 DEF BiKeyInv
  <2>2. CASE r.at = "idle"
    BY <2>2 DEF BiFit, BiStatusFits, BiRowsFit, BiBindFits, BiCleanFits, BiBuild, BiRepairs, BiLate,
       BiEarly, BiBoarding
  <2>. QED BY <1>1, <2>1, <2>2
<1>3. BiTrackedBy(r, k)
  BY <1>0 DEF BiKeyInv, BiTells, BiTracked, BiTrackedBy, BiAt, BiName, BiPlan
<1>4. BiToldBy(r, k)
  BY <1>0 DEF BiKeyInv, BiTells, BiFailedTold, BiWaitingTold, BiToldBy, BiAt
<1>5. BiKnownTo(r, k)
  <2>1. k \in BiDownloads \ biCleaned /\ r.at \notin {"clean", "unmap"} =>
          \A m \in BiRowsOf(k) : \E t \in BiMadeBy(k) : t.id = m.id /\ t.name = m.key
    BY <1>0 DEF BiKeyInv, BiTells, BiPresent, BiAt
  <2>2. k \in BiDownloads \cap biCleaned => r.at \notin BiBuild
    BY <1>0, <1>1 DEF BiKeyInv, BiTells, BiRests, BiAt, BiBuild
  <2>. QED BY <2>1, <2>2 DEF BiKnownTo
<1>6. BiNoneYet(k)
  BY DEF BiKeyInv, BiTells
<1>. QED BY <1>0, <1>2, <1>3, <1>4, <1>5, <1>6 DEF BiSole

(* And back: what its only call knows is what is so for it.                *)
LEMMA BiSoleKey ==
    ASSUME NEW k \in BiKeys, NEW c \in BiCalls, NEW r, BiPlace(r), r.of = k \/ r = BiIdle,
           biCall'[c] = r, \A d \in BiCalls : d # c => biCall'[d].of # k, BiSole(r, k)'
    PROVE  BiKeyInv(k)'
<1>1. ASSUME NEW d \in BiWorkers(k)'
      PROVE  d = c /\ biCall'[d] = r
  BY DEF BiWorkers, BiOf
<1>2. r.at # "idle" => c \in BiWorkers(k)'
  BY BiIdleIs DEF BiWorkers, BiOf
<1>3. ASSUME NEW d \in BiWorkers(k)'
      PROVE  BiFit(biCall[d], k)'
  BY <1>1 DEF BiSole, BiFit, BiStatusFits, BiRowsFit, BiBindFits, BiCleanFits
<1>4. BiAlone(k)'
  BY <1>1 DEF BiAlone
<1>5. BiTracked(k)'
  BY <1>2 DEF BiSole, BiTrackedBy, BiTracked, BiAt, BiName, BiPlan
<1>6. BiFailedTold(k)' /\ BiWaitingTold(k)'
  BY <1>2 DEF BiSole, BiToldBy, BiFailedTold, BiWaitingTold, BiAt
<1>7. BiPresent(k)'
  BY <1>2 DEF BiSole, BiKnownTo, BiPresent, BiAt
<1>8. BiRests(k)'
  BY <1>1 DEF BiSole, BiKnownTo, BiRests, BiAt
<1>9. BiNoneYet(k)'
  BY DEF BiSole
<1>. QED BY <1>3, <1>4, <1>5, <1>6, <1>7, <1>8, <1>9 DEF BiKeyInv, BiTells

(* A step of the only call on an installation.                             *)
LEMMA BiSoleCalm ==
    ASSUME BiBase, BiBase', BiCalmInv, NEW c \in BiCalls, NEW r, BiMove(c, r), NEW k \in BiKeys,
           BiOf(c) = k \/ BiAt(c) = "idle", r.of = k \/ r = BiIdle, BiElsewhere(k),
           k \notin biDoubt' => BiWorkers(k) \subseteq {c} /\ BiSole(r, k)'
    PROVE  BiCalmInv'
<1>0. BiTyped /\ BiTyped'
  BY DEF BiBase
<1>1. biCall'[c] = r /\ \A d \in BiCalls : d # c => biCall'[d] = biCall[d]
  BY <1>0, BiMoveIs
<1>2. biDoubt \subseteq biDoubt' /\ biConfig \subseteq biConfig'
  BY DEF BiElsewhere
<1>3. BiPlace(r)
  BY <1>0, <1>1 DEF BiTyped
<1>4. ASSUME k \notin biDoubt'
      PROVE  BiKeyInv(k)'
  <2>1. \A d \in BiCalls : d # c => biCall'[d].of # k
    BY <1>1, <1>4 DEF BiWorkers, BiOf
  <2>. QED BY <1>1, <1>3, <1>4, <2>1, BiSoleKey
<1>5. ASSUME NEW j \in BiKeys \ {k}, j \notin biDoubt'
      PROVE  BiKeyInv(j)'
  <2>1. BiKeyInv(j)
    BY <1>2, <1>5 DEF BiCalmInv
  <2>2. BiOf(c) # j /\ r.of # j
    BY <1>0, <1>5, BiCallIs, BiIdleIs, BiKeysAre DEF BiOf, BiAt
  <2>3. BiWorkers(j)' = BiWorkers(j) /\ \A d \in BiWorkers(j) : biCall'[d] = biCall[d]
    BY <1>1, <2>2 DEF BiWorkers, BiOf
  <2>4. \A d \in BiWorkers(j) : biCall[d].at \in {"resolve", "bind"} \cup BiBoarding => j \in BiInstalls
    BY <1>0, BiWorksOn DEF BiWorkers, BiAt, BiOf, BiBoarding
  <2>. QED BY <1>2, <2>1, <2>3, <2>4, BiFrame DEF BiElsewhere
<1>6. ASSUME NEW j \in BiKeys \ biDoubt'
      PROVE  BiKeyInv(j)'
  BY <1>4, <1>5, <1>6
<1>. QED BY <1>6 DEF BiCalmInv

(* A step of a call that is on no installation, or of no call.             *)
LEMMA BiApartCalm ==
    ASSUME BiBase, BiCalmInv, biConfig \subseteq biConfig', biDoubt \subseteq biDoubt',
           UNCHANGED <<biStatus, biTemplate, biMapping, biBinding, biCleaned>>,
           \A j \in BiKeys : BiShownBy(j)' = BiShownBy(j),
           \A j \in BiKeys \ biDoubt' :
             BiWorkers(j)' = BiWorkers(j) /\ \A d \in BiWorkers(j) : biCall'[d] = biCall[d]
    PROVE  BiCalmInv'
<1>0. BiTyped
  BY DEF BiBase
<1>1. ASSUME NEW j \in BiKeys \ biDoubt'
      PROVE  BiKeyInv(j)'
  <2>1. BiKeyInv(j)
    BY <1>1 DEF BiCalmInv
  <2>2. BiRowsOf(j)' = BiRowsOf(j) /\ BiMadeBy(j)' = BiMadeBy(j)
    BY DEF BiRowsOf, BiMadeBy
  <2>4. \A d \in BiWorkers(j) : biCall[d].at \in {"resolve", "bind"} \cup BiBoarding => j \in BiInstalls
    BY <1>0, BiWorksOn DEF BiWorkers, BiAt, BiOf, BiBoarding
  <2>. QED BY <1>1, <2>1, <2>2, <2>4, BiFrame
<1>. QED BY <1>1 DEF BiCalmInv

(* What a call may rely on while it is the only one.                       *)
LEMMA BiMineIs ==
    ASSUME BiBase, BiCalmInv, NEW c \in BiCalls, BiOf(c) \in BiKeys, BiOf(c) \notin biDoubt,
           BiAt(c) \notin BiLate
    PROVE  BiWorkers(BiOf(c)) \subseteq {c} /\ BiSole(biCall[c], BiOf(c))
<1>1. PICK k \in BiKeys : k = BiOf(c)
  OBVIOUS
<1>2. BiTyped /\ BiKeyInv(k)
  BY <1>1 DEF BiBase, BiCalmInv
<1>3. BiWorkers(k) \subseteq {c}
  BY <1>1, <1>2 DEF BiKeyInv, BiTells, BiAlone, BiWorkers
<1>. QED BY <1>1, <1>2, <1>3, BiSoleIs

(* When nobody works on it, a call that begins is the only one.            *)
LEMMA BiNobodyIs ==
    ASSUME BiBase, BiCalmInv, NEW c \in BiCalls, NEW k \in BiKeys, k \notin biDoubt, ~BiBusy(k),
           BiAt(c) = "idle"
    PROVE  BiWorkers(k) \subseteq {c} /\ BiSole(biCall[c], k)
<1>1. BiTyped /\ BiKeyInv(k)
  BY DEF BiBase, BiCalmInv
<1>2. BiWorkers(k) = {}
  BY <1>1, BiCallIs, BiKeysAre DEF BiBusy, BiWorkers, BiOf, BiAt
<1>. QED BY <1>1, <1>2, BiSoleIs

(* Dashboards of calls that make one from a template.                      *)
LEMMA BiShownFrame ==
    ASSUME BiBase, BiShown, NEW c \in BiCalls, NEW r, BiMove(c, r), BiOf(c) # "instance",
           biDoubt \subseteq biDoubt', UNCHANGED biInstance,
           \A d \in BiCalls, b \in BiPlans : <<d, b>> \in biBoard' => <<d, b>> \in biBoard
    PROVE  BiShown'
<1>1. \A d \in BiCalls : d # c => biCall'[d] = biCall[d]
  BY BiMoveIs DEF BiBase
<1>. QED BY <1>1 DEF BiShown, BiOf, BiPlan

(* A step that changes nothing but the status and the record of its call.  *)
LEMMA BiPlainSole ==
    ASSUME NEW k \in BiKeys, NEW s, NEW r, BiSole(s, k),
           UNCHANGED <<biTemplate, biConfig, biBoard, biMapping, biBinding>>,
           biCleaned \subseteq biCleaned',
           s.at \notin {"map", "mapboard"},
           BiStatusFits(r, k)', BiRowsFit(r, k), BiBindFits(r, k), BiCleanFits(r, k),
           biStatus'[k] = "FAILED" => BiClear(k) \/ r.at \in {"check", "flag"},
           k \in BiInstalls /\ biStatus'[k] = "WAITING_FOR_BINDINGS" =>
               \E b \in BiRequired : biBinding[k][b] = "failed",
           s.at \in {"clean", "unmap"} => r.at \in {"clean", "unmap"} \/ k \in biCleaned',
           k \in BiDownloads \cap biCleaned' => r.at \notin BiBuild,
           biStatus'[k] = "none" => biStatus[k] = "none"
    PROVE  BiSole(r, k)'
<1>1. /\ BiRowsOf(k)' = BiRowsOf(k) /\ BiMadeBy(k)' = BiMadeBy(k) /\ BiShownBy(k)' = BiShownBy(k)
  BY DEF BiRowsOf, BiMadeBy, BiShownBy
<1>2. BiRowsFit(r, k)' /\ BiBindFits(r, k)' /\ BiCleanFits(r, k)'
  BY <1>1 DEF BiRowsFit, BiBindFits, BiCleanFits
<1>3. BiTrackedBy(r, k)'
  BY <1>1 DEF BiSole, BiTrackedBy
<1>4. BiToldBy(r, k)'
  BY <1>1 DEF BiToldBy, BiClear
<1>5. BiKnownTo(r, k)'
  BY <1>1 DEF BiSole, BiKnownTo
<1>6. BiNoneYet(k)'
  BY <1>1 DEF BiSole, BiNoneYet
<1>. QED BY <1>2, <1>3, <1>4, <1>5, <1>6 DEF BiSole, BiFit

(* When the only call s on k may become r, and the status st.              *)
BiStatusAllows(r, st) ==
    /\ r.at \in BiBuild \cup {"fail"} => st \in BiUnderWay
    /\ r.at \in {"check", "flag"} => st = "FAILED"
    /\ r.at \in BiRepairs => st \in {"FAILED", "COMPENSATION_REQUIRED"}
    /\ r.at \notin BiLate

BiAllowed(s, r, k, st) ==
    /\ BiStatusAllows(r, st) /\ BiRowsFit(r, k) /\ BiBindFits(r, k) /\ BiCleanFits(r, k)
    /\ st = "FAILED" => BiClear(k) \/ r.at \in {"check", "flag"}
    /\ k \in BiInstalls /\ st = "WAITING_FOR_BINDINGS" => \E b \in BiRequired : biBinding[k][b] = "failed"
    /\ s.at \in {"clean", "unmap"} => r.at \in {"clean", "unmap"} \/ k \in biCleaned'
    /\ r.at \in BiBuild => s.at \in BiBuild \/ k \notin BiDownloads \cap biCleaned
    /\ st = "none" => biStatus[k] = "none"

(* Such a step keeps the invariant, of every installation.                 *)
LEMMA BiPlainCalm ==
    ASSUME BiInv, BiBase', NEW c \in BiCalls, NEW r, BiMove(c, r), NEW k \in BiKeys, NEW s, s = biCall[c],
           r.of = k \/ r = BiIdle, NEW st,
           \/ BiOf(c) = k /\ BiAt(c) \notin BiLate \cup {"map", "mapboard"}
           \/ BiAt(c) = "idle" /\ ~BiBusy(k),
           UNCHANGED <<biTemplate, biConfig, biBoard, biMapping, biBinding, biInstance>>,
           biDoubt \subseteq biDoubt',
           biCleaned' = biCleaned \/ (biCleaned' = biCleaned \cup {k} /\ r.at = "idle"),
           \A j \in BiKeys : j # k => biStatus'[j] = biStatus[j],
           k \notin biDoubt' => biStatus'[k] = st,
           k \notin biDoubt' /\ BiSole(s, k) => BiAllowed(s, r, k, st)
    PROVE  BiCalmInv' /\ BiShown'
<1>0. BiBase /\ BiTyped /\ BiCalmInv /\ BiShown
  BY DEF BiInv, BiBase
<1>1. ASSUME k \notin biDoubt'
      PROVE  BiWorkers(k) \subseteq {c} /\ BiSole(s, k)
  <2>1. k \notin biDoubt
    BY <1>1
  <2>. QED BY <1>0, <2>1, BiMineIs, BiNobodyIs
<1>2. ASSUME k \notin biDoubt'
      PROVE  BiSole(r, k)'
  <2>1. BiSole(s, k) /\ BiAllowed(s, r, k, st) /\ biStatus'[k] = st
    BY <1>1, <1>2
  <2>2. s.at \notin {"map", "mapboard"}
    BY DEF BiAt
  <2>3. BiStatusFits(r, k)'
    BY <2>1 DEF BiAllowed, BiStatusAllows, BiStatusFits
  <2>4. biCleaned \subseteq biCleaned' /\ (k \in BiDownloads \cap biCleaned' => r.at \notin BiBuild)
    BY <2>1 DEF BiAllowed, BiSole, BiKnownTo, BiBuild
  <2>5. BiRowsFit(r, k) /\ BiBindFits(r, k) /\ BiCleanFits(r, k)
    BY <2>1 DEF BiAllowed
  <2>6. /\ biStatus'[k] = "FAILED" => BiClear(k) \/ r.at \in {"check", "flag"}
        /\ k \in BiInstalls /\ biStatus'[k] = "WAITING_FOR_BINDINGS" =>
             \E b \in BiRequired : biBinding[k][b] = "failed"
        /\ s.at \in {"clean", "unmap"} => r.at \in {"clean", "unmap"} \/ k \in biCleaned'
        /\ biStatus'[k] = "none" => biStatus[k] = "none"
    BY <2>1 DEF BiAllowed
  <2>. QED BY <2>1, <2>2, <2>3, <2>4, <2>5, <2>6, BiPlainSole
<1>3. BiElsewhere(k)
  BY DEF BiElsewhere, BiRowsOf, BiMadeBy, BiShownBy
<1>4. BiOf(c) = k \/ BiAt(c) = "idle"
  OBVIOUS
<1>5. BiCalmInv'
  BY <1>0, <1>1, <1>2, <1>3, <1>4, BiSoleCalm
<1>6. BiOf(c) # "instance"
  BY <1>0, BiKeysAre, BiCallIs DEF BiOf, BiAt
<1>7. BiShown'
  BY <1>0, <1>6, BiShownFrame
<1>. QED BY <1>5, <1>7

(* Places where a call knows nothing of rows, bindings or resources.       *)
LEMMA BiFreeFits ==
    ASSUME NEW k, NEW r,
           r.at \in {"idle", "fail", "check", "flag", "config", "save", "retry", "list"}
    PROVE  BiRowsFit(r, k) /\ BiBindFits(r, k) /\ BiCleanFits(r, k)
<1>1. BiRowsFit(r, k)
  BY DEF BiRowsFit, BiEarly
<1>2. BiBindFits(r, k) /\ BiCleanFits(r, k)
  BY DEF BiBindFits, BiCleanFits, BiBoarding
<1>. QED BY <1>1, <1>2

(* What a step that tells a status says of it, and of the rest.            *)
LEMMA BiSaid ==
    ASSUME BiInv, NEW c \in BiCalls, NEW st \in BiStatuses, BiOf(c) \in BiKeys, BiSay(c, st),
           UNCHANGED <<biResources, biRows>>
    PROVE  /\ UNCHANGED <<biTemplate, biConfig, biBoard, biMapping, biBinding, biInstance>>
           /\ biDoubt \subseteq biDoubt'
           /\ \A j \in BiKeys : j # BiOf(c) => biStatus'[j] = biStatus[j]
           /\ BiOf(c) \notin biDoubt' => biStatus'[BiOf(c)] = st
<1>1. UNCHANGED <<biTemplate, biConfig, biBoard, biMapping, biBinding, biInstance>>
  BY DEF biResources, biRows
<1>. QED BY <1>1, BiSayIs DEF BiInv, BiBase

LEMMA BiFetchCalm ==
    ASSUME BiInv, BiBase', NEW c \in BiCalls, BiFetch(c)
    PROVE  BiCalmInv' /\ BiShown'
<1>0. BiTyped /\ BiAt(c) \in {"fetch", "verify"}
  BY DEF BiInv, BiBase, BiFetch
<1>1. PICK k \in BiKeys : k = BiOf(c)
  BY <1>0, BiWorksOn
<1>2. PICK st \in {"DOWNLOADED", "VERIFIED"}, place \in {"verify", "look"} : BiSay(c, st) /\ BiStep(c, place)
  BY DEF BiFetch
<1>3. st \in BiStatuses /\ place \in BiPlaces /\ UNCHANGED <<biResources, biRows, biCleaned>>
  BY DEF BiStatuses, BiPlaces, BiBuild, BiFetch
<1>4. PICK s : s = biCall[c]
  OBVIOUS
<1>5. PICK r : BiMove(c, r) /\ r.at = place /\ r.of = k /\ r.next = s.next
  BY <1>0, <1>1, <1>2, <1>3, <1>4, BiStepIs DEF BiOf
<1>6. ASSUME BiSole(s, k)
      PROVE  BiAllowed(s, r, k, st)
  <2>1. BiRowsFit(r, k)
    BY <1>0, <1>4, <1>5, <1>6 DEF BiSole, BiFit, BiRowsFit, BiAt, BiEarly
  <2>2. BiBindFits(r, k) /\ BiCleanFits(r, k)
    BY <1>5 DEF BiBindFits, BiCleanFits, BiBoarding
  <2>. QED BY <1>0, <1>4, <1>5, <2>1, <2>2
       DEF BiAllowed, BiStatusAllows, BiBuild, BiUnderWay, BiRepairs, BiLate, BiAt
<1>7. BiAt(c) \notin BiLate \cup {"map", "mapboard"}
  BY <1>0 DEF BiLate
<1>. QED BY <1>1, <1>2, <1>3, <1>4, <1>5, <1>6, <1>7, BiSaid, BiPlainCalm

(* The steps of one call that touch nothing but its record and the status. *)
LEMMA BiConfigsDoneCalm ==
    ASSUME BiInv, BiBase', NEW c \in BiCalls, BiConfigsDone(c)
    PROVE  BiCalmInv' /\ BiShown'
<1>0. BiTyped /\ BiAt(c) = "config"
  BY DEF BiInv, BiBase, BiConfigsDone
<1>1. PICK k \in BiKeys : k = BiOf(c)
  BY <1>0, BiWorksOn
<1>2. PICK st \in BiStatuses : st = "MODELS_INSTALLED" /\ BiSay(c, st) /\ BiTurn(c, "save")
  BY DEF BiConfigsDone, BiStatuses
<1>3. UNCHANGED <<biResources, biRows, biCleaned>>
  BY DEF BiConfigsDone
<1>4. PICK s : s = biCall[c]
  OBVIOUS
<1>5. PICK r : BiMove(c, r) /\ r.at = "save" /\ r.of = k /\ r.next = 1
               /\ r.waits = s.waits /\ r.todo = s.todo /\ r.id = s.id
  <2>1. "save" \in BiPlaces
    BY DEF BiPlaces, BiBuild, BiRepairs
  <2>. QED BY <1>0, <1>1, <1>2, <1>4, <2>1, BiTurnIs DEF BiOf
<1>6. ASSUME BiSole(s, k)
      PROVE  BiAllowed(s, r, k, st)
  <2>1. BiRowsFit(r, k) /\ BiBindFits(r, k) /\ BiCleanFits(r, k)
    BY <1>5, BiFreeFits
  <2>. QED BY <1>0, <1>2, <1>3, <1>4, <1>5, <2>1
       DEF BiAllowed, BiStatusAllows, BiBuild, BiUnderWay, BiRepairs, BiLate, BiAt
<1>7. BiAt(c) \notin BiLate \cup {"map", "mapboard"}
  BY <1>0 DEF BiLate
<1>. QED BY <1>1, <1>2, <1>3, <1>4, <1>5, <1>6, <1>7, BiSaid, BiPlainCalm

LEMMA BiDownloadedCalm ==
    ASSUME BiInv, BiBase', NEW c \in BiCalls, BiDownloaded(c)
    PROVE  BiCalmInv' /\ BiShown'
<1>0. BiTyped /\ BiAt(c) = "save"
  BY DEF BiInv, BiBase, BiDownloaded
<1>1. PICK k \in BiKeys : k = BiOf(c)
  BY <1>0, BiWorksOn
<1>2. PICK st \in BiStatuses : st = "COMPLETED" /\ BiSay(c, st) /\ BiEnd(c)
  BY DEF BiDownloaded, BiStatuses
<1>3. UNCHANGED <<biResources, biRows, biCleaned>>
  BY DEF BiDownloaded
<1>4. PICK s : s = biCall[c]
  OBVIOUS
<1>5. PICK r : BiMove(c, r) /\ r = BiIdle /\ r.at = "idle"
  BY <1>0, <1>2, BiEndIs, BiIdleIs
<1>6. ASSUME BiSole(s, k)
      PROVE  BiAllowed(s, r, k, st)
  <2>1. BiRowsFit(r, k) /\ BiBindFits(r, k) /\ BiCleanFits(r, k)
    BY <1>5, BiFreeFits
  <2>. QED BY <1>0, <1>2, <1>3, <1>4, <1>5, <2>1
       DEF BiAllowed, BiStatusAllows, BiBuild, BiUnderWay, BiRepairs, BiLate, BiAt
<1>7. BiAt(c) \notin BiLate \cup {"map", "mapboard"}
  BY <1>0 DEF BiLate
<1>. QED BY <1>1, <1>2, <1>3, <1>4, <1>5, <1>6, <1>7, BiSaid, BiPlainCalm

LEMMA BiBoardsDoneCalm ==
    ASSUME BiInv, BiBase', NEW c \in BiCalls, BiBoardsDone(c)
    PROVE  BiCalmInv' /\ BiShown'
<1>0. BiTyped /\ BiAt(c) = "import"
  BY DEF BiInv, BiBase, BiBoardsDone
<1>1. PICK k \in BiKeys : k = BiOf(c)
  BY <1>0, BiWorksOn
<1>2. PICK st \in BiStatuses : st = "DASHBOARDS_CREATED" /\ BiSay(c, st) /\ BiTurn(c, "bind")
  BY DEF BiBoardsDone, BiStatuses
<1>3. UNCHANGED <<biResources, biRows, biCleaned>>
  BY DEF BiBoardsDone
<1>4. PICK s : s = biCall[c]
  OBVIOUS
<1>5. PICK r : BiMove(c, r) /\ r.at = "bind" /\ r.of = k /\ r.next = 1
               /\ r.waits = s.waits /\ r.todo = s.todo /\ r.id = s.id
  <2>1. "bind" \in BiPlaces
    BY DEF BiPlaces, BiBuild, BiRepairs
  <2>. QED BY <1>0, <1>1, <1>2, <1>4, <2>1, BiTurnIs DEF BiOf
<1>6. ASSUME BiSole(s, k)
      PROVE  BiAllowed(s, r, k, st)
  <2>0. /\ \A i \in 1..Len(BiBoards) : i < s.next => biBinding[k][BiBoards[i]] # "none"
        /\ s.next > Len(BiBoards) /\ s.next \in Nat /\ ~s.waits
    BY <1>0, <1>4, <1>6, BiCallIs DEF BiSole, BiFit, BiBindFits, BiBoarding, BiAt, BiPlace, BiBoardsDone
  <2>3. \A i \in 1..Len(BiBoards) : biBinding[k][BiBoards[i]] # "none"
    BY <2>0, BiListsAre
  <2>4. \A b \in BiPlans : biBinding[k][b] # "none"
    BY <2>3, BiListsAre
  <2>5. BiBindFits(r, k)
    BY <1>5, <2>0, <2>4 DEF BiBindFits, BiBoarding
  <2>1. BiRowsFit(r, k) /\ BiBindFits(r, k) /\ BiCleanFits(r, k)
    BY <1>5, <2>5 DEF BiRowsFit, BiCleanFits, BiEarly
  <2>. QED BY <1>0, <1>2, <1>3, <1>4, <1>5, <2>1
       DEF BiAllowed, BiStatusAllows, BiBuild, BiUnderWay, BiRepairs, BiLate, BiAt
<1>7. BiAt(c) \notin BiLate \cup {"map", "mapboard"}
  BY <1>0 DEF BiLate
<1>. QED BY <1>1, <1>2, <1>3, <1>4, <1>5, <1>6, <1>7, BiSaid, BiPlainCalm

LEMMA BiInstalledCalm ==
    ASSUME BiInv, BiBase', NEW c \in BiCalls, BiInstalled(c)
    PROVE  BiCalmInv' /\ BiShown'
<1>0. BiTyped /\ BiAt(c) = "bind"
  BY DEF BiInv, BiBase, BiInstalled
<1>1. PICK k \in BiKeys : k = BiOf(c)
  BY <1>0, BiWorksOn
<1>2. PICK st \in BiStatuses : st = (IF biCall[c].waits THEN "WAITING_FOR_BINDINGS" ELSE "COMPLETED") /\ BiSay(c, st) /\ BiEnd(c)
  BY DEF BiInstalled, BiStatuses
<1>3. UNCHANGED <<biResources, biRows, biCleaned>>
  BY DEF BiInstalled
<1>4. PICK s : s = biCall[c]
  OBVIOUS
<1>5. PICK r : BiMove(c, r) /\ r = BiIdle /\ r.at = "idle"
  BY <1>0, <1>2, BiEndIs, BiIdleIs
<1>6. ASSUME BiSole(s, k)
      PROVE  BiAllowed(s, r, k, st)
  <2>1. BiRowsFit(r, k) /\ BiBindFits(r, k) /\ BiCleanFits(r, k)
    BY <1>5, BiFreeFits
  <2>2. st = "WAITING_FOR_BINDINGS" => \E b \in BiRequired : biBinding[k][b] = "failed"
    BY <1>0, <1>2, <1>4, <1>6 DEF BiSole, BiFit, BiBindFits, BiAt
  <2>. QED BY <1>0, <1>2, <1>3, <1>4, <1>5, <2>1, <2>2
       DEF BiAllowed, BiStatusAllows, BiBuild, BiUnderWay, BiRepairs, BiLate, BiAt
<1>7. BiAt(c) \notin BiLate \cup {"map", "mapboard"}
  BY <1>0 DEF BiLate
<1>. QED BY <1>1, <1>2, <1>3, <1>4, <1>5, <1>6, <1>7, BiSaid, BiPlainCalm

LEMMA BiFailCalm ==
    ASSUME BiInv, BiBase', NEW c \in BiCalls, BiFail(c)
    PROVE  BiCalmInv' /\ BiShown'
<1>0. BiTyped /\ BiAt(c) = "fail"
  BY DEF BiInv, BiBase, BiFail
<1>1. PICK k \in BiKeys : k = BiOf(c)
  BY <1>0, BiWorksOn
<1>2. PICK st \in BiStatuses : st = "FAILED" /\ BiSay(c, st) /\ BiStep(c, "check")
  BY DEF BiFail, BiStatuses
<1>3. UNCHANGED <<biResources, biRows, biCleaned>>
  BY DEF BiFail
<1>4. PICK s : s = biCall[c]
  OBVIOUS
<1>5. PICK r : BiMove(c, r) /\ r.at = "check" /\ r.of = k /\ r.next = s.next
               /\ r.waits = s.waits /\ r.todo = s.todo /\ r.id = s.id
  <2>1. "check" \in BiPlaces
    BY DEF BiPlaces, BiBuild, BiRepairs
  <2>. QED BY <1>0, <1>1, <1>2, <1>4, <2>1, BiStepIs DEF BiOf
<1>6. ASSUME BiSole(s, k)
      PROVE  BiAllowed(s, r, k, st)
  <2>1. BiRowsFit(r, k) /\ BiBindFits(r, k) /\ BiCleanFits(r, k)
    BY <1>5, BiFreeFits
  <2>. QED BY <1>0, <1>2, <1>3, <1>4, <1>5, <2>1
       DEF BiAllowed, BiStatusAllows, BiBuild, BiUnderWay, BiRepairs, BiLate, BiAt
<1>7. BiAt(c) \notin BiLate \cup {"map", "mapboard"}
  BY <1>0 DEF BiLate
<1>. QED BY <1>1, <1>2, <1>3, <1>4, <1>5, <1>6, <1>7, BiSaid, BiPlainCalm

LEMMA BiFlagCalm ==
    ASSUME BiInv, BiBase', NEW c \in BiCalls, BiFlag(c)
    PROVE  BiCalmInv' /\ BiShown'
<1>0. BiTyped /\ BiAt(c) = "flag"
  BY DEF BiInv, BiBase, BiFlag
<1>1. PICK k \in BiKeys : k = BiOf(c)
  BY <1>0, BiWorksOn
<1>2. PICK st \in BiStatuses : st = "COMPENSATION_REQUIRED" /\ BiSay(c, st) /\ BiEnd(c)
  BY DEF BiFlag, BiStatuses
<1>3. UNCHANGED <<biResources, biRows, biCleaned>>
  BY DEF BiFlag
<1>4. PICK s : s = biCall[c]
  OBVIOUS
<1>5. PICK r : BiMove(c, r) /\ r = BiIdle /\ r.at = "idle"
  BY <1>0, <1>2, BiEndIs, BiIdleIs
<1>6. ASSUME BiSole(s, k)
      PROVE  BiAllowed(s, r, k, st)
  <2>1. BiRowsFit(r, k) /\ BiBindFits(r, k) /\ BiCleanFits(r, k)
    BY <1>5, BiFreeFits
  <2>. QED BY <1>0, <1>2, <1>3, <1>4, <1>5, <2>1
       DEF BiAllowed, BiStatusAllows, BiBuild, BiUnderWay, BiRepairs, BiLate, BiAt
<1>7. BiAt(c) \notin BiLate \cup {"map", "mapboard"}
  BY <1>0 DEF BiLate
<1>. QED BY <1>1, <1>2, <1>3, <1>4, <1>5, <1>6, <1>7, BiSaid, BiPlainCalm

LEMMA BiRetryCalm ==
    ASSUME BiInv, BiBase', NEW c \in BiCalls, BiRetry(c)
    PROVE  BiCalmInv' /\ BiShown'
<1>0. BiTyped /\ BiAt(c) = "retry"
  BY DEF BiInv, BiBase, BiRetry
<1>1. PICK k \in BiKeys : k = BiOf(c)
  BY <1>0, BiWorksOn
<1>2. PICK st \in BiStatuses : st = "DOWNLOADING" /\ BiSay(c, st) /\ BiEnd(c)
  BY DEF BiRetry, BiStatuses
<1>3. UNCHANGED <<biResources, biRows, biCleaned>>
  BY DEF BiRetry
<1>4. PICK s : s = biCall[c]
  OBVIOUS
<1>5. PICK r : BiMove(c, r) /\ r = BiIdle /\ r.at = "idle"
  BY <1>0, <1>2, BiEndIs, BiIdleIs
<1>6. ASSUME BiSole(s, k)
      PROVE  BiAllowed(s, r, k, st)
  <2>1. BiRowsFit(r, k) /\ BiBindFits(r, k) /\ BiCleanFits(r, k)
    BY <1>5, BiFreeFits
  <2>. QED BY <1>0, <1>2, <1>3, <1>4, <1>5, <2>1
       DEF BiAllowed, BiStatusAllows, BiBuild, BiUnderWay, BiRepairs, BiLate, BiAt
<1>7. BiAt(c) \notin BiLate \cup {"map", "mapboard"}
  BY <1>0 DEF BiLate
<1>. QED BY <1>1, <1>2, <1>3, <1>4, <1>5, <1>6, <1>7, BiSaid, BiPlainCalm

LEMMA BiCompensatedCalm ==
    ASSUME BiInv, BiBase', NEW c \in BiCalls, BiCompensated(c)
    PROVE  BiCalmInv' /\ BiShown'
<1>0. BiTyped /\ BiAt(c) = "clean"
  BY DEF BiInv, BiBase, BiCompensated
<1>1. PICK k \in BiKeys : k = BiOf(c)
  BY <1>0, BiWorksOn
<1>2. PICK st \in BiStatuses : st = "FAILED" /\ BiSay(c, st) /\ BiEnd(c)
  BY DEF BiCompensated, BiStatuses
<1>3. UNCHANGED <<biResources, biRows>> /\ biCleaned' = biCleaned \cup {k}
  BY <1>1 DEF BiCompensated
<1>4. PICK s : s = biCall[c]
  OBVIOUS
<1>5. PICK r : BiMove(c, r) /\ r = BiIdle /\ r.at = "idle"
  BY <1>0, <1>2, BiEndIs, BiIdleIs
<1>6. ASSUME BiSole(s, k)
      PROVE  BiAllowed(s, r, k, st)
  <2>1. BiRowsFit(r, k) /\ BiBindFits(r, k) /\ BiCleanFits(r, k)
    BY <1>5, BiFreeFits
  <2>2. s.todo = {}
    BY <1>4 DEF BiCompensated
  <2>3. BiClear(k)
    BY <1>0, <1>4, <1>6, <2>2 DEF BiSole, BiFit, BiCleanFits, BiClear, BiShownBy, BiAt
  <2>. QED BY <1>0, <1>2, <1>3, <1>4, <1>5, <2>1, <2>3
       DEF BiAllowed, BiStatusAllows, BiBuild, BiUnderWay, BiRepairs, BiLate, BiAt
<1>7. BiAt(c) \notin BiLate \cup {"map", "mapboard"}
  BY <1>0 DEF BiLate
<1>. QED BY <1>1, <1>2, <1>3, <1>4, <1>5, <1>6, <1>7, BiSaid, BiPlainCalm

LEMMA BiTemplatesDoneCalm ==
    ASSUME BiInv, BiBase', NEW c \in BiCalls, BiTemplatesDone(c)
    PROVE  BiCalmInv' /\ BiShown'
<1>0. BiTyped /\ BiAt(c) = "look" /\ biCall[c].next > Len(BiTemplates)
  BY DEF BiInv, BiBase, BiTemplatesDone
<1>1. PICK k \in BiKeys : k = BiOf(c)
  BY <1>0, BiWorksOn
<1>2. UNCHANGED <<biResources, biRows, biCleaned>>
  BY DEF BiTemplatesDone
<1>3. PICK s : s = biCall[c]
  OBVIOUS
<1>4. BiAt(c) \notin BiLate \cup {"map", "mapboard"}
  BY <1>0 DEF BiLate
<1>5. CASE k \in BiInstalls /\ BiSay(c, "MODELS_INSTALLED") /\ BiTurn(c, "resolve")
  <2>0. PICK st \in BiStatuses : st = "MODELS_INSTALLED" /\ BiSay(c, st)
    BY <1>5 DEF BiStatuses
  <2>1. PICK r : BiMove(c, r) /\ r.at = "resolve" /\ r.of = k
    <3>1. "resolve" \in BiPlaces
      BY DEF BiPlaces, BiBuild
    <3>. QED BY <1>0, <1>1, <1>5, <3>1, BiTurnIs DEF BiOf
  <2>2. ASSUME BiSole(s, k)
        PROVE  BiAllowed(s, r, k, st)
    <3>1. \A m \in BiRowsOf(k) : m.key \in BiNames
      <4>1. \A m \in BiRowsOf(k) : \E i \in 1..Len(BiTemplates) : m.key = BiTemplates[i]
        BY <1>0, <1>3, <1>5, <2>2 DEF BiSole, BiFit, BiRowsFit, BiEarly, BiAt
      <4>. QED BY <4>1, BiListsAre
    <3>2. BiRowsFit(r, k) /\ BiBindFits(r, k) /\ BiCleanFits(r, k)
      BY <2>1, <3>1 DEF BiRowsFit, BiBindFits, BiCleanFits, BiEarly, BiBoarding
    <3>. QED BY <1>0, <1>3, <2>0, <2>1, <3>2
         DEF BiAllowed, BiStatusAllows, BiBuild, BiUnderWay, BiRepairs, BiLate, BiAt
  <2>. QED BY <1>1, <1>2, <1>3, <1>4, <2>0, <2>1, <2>2, BiSaid, BiPlainCalm
<1>6. CASE BiTurn(c, "config") /\ BiNoFault /\ UNCHANGED biStatus
  <2>1. PICK r : BiMove(c, r) /\ r.at = "config" /\ r.of = k
    <3>1. "config" \in BiPlaces
      BY DEF BiPlaces, BiBuild
    <3>. QED BY <1>0, <1>1, <1>6, <3>1, BiTurnIs DEF BiOf
  <2>2. ASSUME BiSole(s, k)
        PROVE  BiAllowed(s, r, k, biStatus[k])
    <3>1. biStatus[k] \in BiUnderWay
      BY <1>0, <1>3, <2>2 DEF BiSole, BiFit, BiStatusFits, BiBuild, BiAt
    <3>2. BiRowsFit(r, k) /\ BiBindFits(r, k) /\ BiCleanFits(r, k)
      BY <2>1, BiFreeFits
    <3>. QED BY <1>0, <1>3, <2>1, <3>1, <3>2
         DEF BiAllowed, BiStatusAllows, BiBuild, BiUnderWay, BiRepairs, BiLate, BiAt
  <2>3. UNCHANGED <<biTemplate, biConfig, biBoard, biMapping, biBinding, biInstance, biDoubt>>
    BY <1>2, <1>6 DEF biResources, biRows, BiNoFault
  <2>. QED BY <1>1, <1>2, <1>3, <1>4, <1>6, <2>1, <2>2, <2>3, BiPlainCalm
<1>. QED BY <1>1, <1>5, <1>6 DEF BiTemplatesDone

(* Looking for a template: when there is none, no row is of that name.     *)
LEMMA BiLookCalm ==
    ASSUME BiOrderly, BiInv, BiBase', NEW c \in BiCalls, BiLook(c)
    PROVE  BiCalmInv' /\ BiShown'
<1>0. BiTyped /\ BiAt(c) = "look" /\ biCall[c].next <= Len(BiTemplates)
  BY DEF BiInv, BiBase, BiLook
<1>1. PICK k \in BiKeys : k = BiOf(c)
  BY <1>0, BiWorksOn
<1>2. UNCHANGED <<biStatus, biTemplate, biConfig, biBoard, biMapping, biBinding, biInstance, biCleaned, biDoubt>>
  BY DEF BiLook, biResources, biRows, biBounds
<1>3. PICK s : s = biCall[c] /\ s.next \in 1..Len(BiTemplates) /\ s.next \in Nat
  BY <1>0, BiNameIs, BiCallIs
<1>4. BiAt(c) \notin BiLate \cup {"map", "mapboard"}
  BY <1>0 DEF BiLate
<1>5. ASSUME BiSole(s, k)
      PROVE  /\ biStatus[k] \in BiUnderWay
             /\ k \in BiInstalls => \A m \in BiRowsOf(k) :
                  \E i \in 1..Len(BiTemplates) : i < s.next /\ m.key = BiTemplates[i]
             /\ k \in BiDownloads => \A m \in BiRowsOf(k) : \E t \in BiMadeBy(k) : t.name = m.key
  <2>1. biStatus[k] \in BiUnderWay
    BY <1>0, <1>3, <1>5 DEF BiSole, BiFit, BiStatusFits, BiBuild, BiAt
  <2>2. k \in BiInstalls => \A m \in BiRowsOf(k) :
                  \E i \in 1..Len(BiTemplates) : i < s.next /\ m.key = BiTemplates[i]
    BY <1>0, <1>3, <1>5 DEF BiSole, BiFit, BiRowsFit, BiEarly, BiAt
  <2>3. k \in BiDownloads => \A m \in BiRowsOf(k) : \E t \in BiMadeBy(k) : t.name = m.key
    BY <1>0, <1>3, <1>5 DEF BiSole, BiKnownTo, BiBuild, BiAt
  <2>. QED BY <2>1, <2>2, <2>3
<1>6. CASE BiStep(c, "create") /\ ({t \in biTemplate : t.name = BiName(c)} = {} \/ k \in BiInstalls)
  <2>1. PICK r : BiMove(c, r) /\ r.at = "create" /\ r.of = k /\ r.next = s.next
    <3>1. "create" \in BiPlaces
      BY DEF BiPlaces, BiBuild
    <3>. QED BY <1>0, <1>1, <1>3, <1>6, <3>1, BiStepIs DEF BiOf
  <2>2. ASSUME BiSole(s, k)
        PROVE  BiAllowed(s, r, k, biStatus[k])
    <3>1. ASSUME NEW m \in BiRowsOf(k)
          PROVE  m.key # BiTemplates[s.next]
      <4>1. CASE k \in BiInstalls
        <5>1. PICK i \in 1..Len(BiTemplates) : i < s.next /\ m.key = BiTemplates[i]
          BY <1>5, <2>2, <4>1
        <5>2. i # s.next
          BY <1>3, <5>1, BiListsAre
        <5>. QED BY <1>3, <5>1, <5>2 DEF BiOrderly
      <4>2. CASE k \notin BiInstalls
        BY <1>3, <1>5, <1>6, <2>2, <4>2 DEF BiKeys, BiMadeBy, BiName
      <4>. QED BY <4>1, <4>2
    <3>2. BiRowsFit(r, k)
      BY <1>5, <2>1, <2>2, <3>1 DEF BiRowsFit
    <3>3. BiBindFits(r, k) /\ BiCleanFits(r, k)
      BY <2>1 DEF BiBindFits, BiCleanFits, BiBoarding
    <3>. QED BY <1>0, <1>3, <1>5, <2>1, <2>2, <3>2, <3>3
         DEF BiAllowed, BiStatusAllows, BiBuild, BiUnderWay, BiRepairs, BiLate, BiAt
  <2>. QED BY <1>1, <1>2, <1>3, <1>4, <2>1, <2>2, BiPlainCalm
<1>7. CASE \E t \in biTemplate :
             biCall' = [biCall EXCEPT ![c].id[BiName(c)] = t.id, ![c].next = @ + 1]
  <2>0. PICK n \in BiNames : n = BiName(c)
    BY <1>0, BiNameIs
  <2>3. PICK t \in biTemplate : biCall' = [biCall EXCEPT ![c].id[n] = t.id, ![c].next = @ + 1]
    BY <1>7, <2>0
  <2>4. t.id \in Nat
    BY <1>0 DEF BiTyped, BiMakes
  <2>1. PICK r : BiMove(c, r) /\ r.at = "look" /\ r.of = k /\ r.next = s.next + 1
    <3>1. biCall' = [biCall EXCEPT ![c].id[n] = t.id, ![c].next = @ + 1]
      BY <2>3
    <3>2. PICK q : /\ BiMove(c, q) /\ q.next = biCall[c].next + 1 /\ q.at = biCall[c].at
                   /\ q.of = biCall[c].of
      BY <1>0, <2>4, <3>1, BiFoundIs
    <3>. QED BY <1>0, <1>1, <1>3, <3>2 DEF BiAt, BiOf
  <2>2. ASSUME BiSole(s, k)
        PROVE  BiAllowed(s, r, k, biStatus[k])
    <3>1. ASSUME NEW m \in BiRowsOf(k), k \in BiInstalls
          PROVE  \E i \in 1..Len(BiTemplates) : i < r.next /\ m.key = BiTemplates[i]
      <4>1. PICK i \in 1..Len(BiTemplates) : i < s.next /\ m.key = BiTemplates[i]
        BY <1>5, <2>2, <3>1
      <4>2. i < r.next
        BY <1>3, <2>1, <4>1, BiListsAre
      <4>. QED BY <4>1, <4>2
    <3>2. BiRowsFit(r, k)
      BY <2>1, <3>1 DEF BiRowsFit
    <3>3. BiBindFits(r, k) /\ BiCleanFits(r, k)
      BY <2>1 DEF BiBindFits, BiCleanFits, BiBoarding
    <3>. QED BY <1>0, <1>3, <1>5, <2>1, <2>2, <3>2, <3>3
         DEF BiAllowed, BiStatusAllows, BiBuild, BiUnderWay, BiRepairs, BiLate, BiAt
  <2>. QED BY <1>1, <1>2, <1>3, <1>4, <2>1, <2>2, BiPlainCalm
<1>. QED BY <1>1, <1>6, <1>7 DEF BiLook

LEMMA BiSaveCalm ==
    ASSUME BiInv, BiBase', NEW c \in BiCalls, BiSave(c)
    PROVE  BiCalmInv' /\ BiShown'
<1>0. BiTyped /\ BiAt(c) = "save"
  BY DEF BiInv, BiBase, BiSave
<1>1. PICK k \in BiKeys : k = BiOf(c)
  BY <1>0, BiWorksOn
<1>2. UNCHANGED <<biStatus, biTemplate, biConfig, biBoard, biMapping, biBinding, biInstance, biCleaned, biDoubt>>
  BY DEF BiSave, biResources, biBounds
<1>3. PICK s : s = biCall[c]
  OBVIOUS
<1>4. BiAt(c) \notin BiLate \cup {"map", "mapboard"}
  BY <1>0 DEF BiLate
<1>5. PICK r : BiMove(c, r) /\ r.at = "save" /\ r.of = k
  <2>1. biCall' = [biCall EXCEPT ![c].next = @ + 1]
    BY DEF BiSave
  <2>. QED BY <1>0, <1>1, <2>1, BiNextIs DEF BiAt, BiOf
<1>6. ASSUME BiSole(s, k)
      PROVE  BiAllowed(s, r, k, biStatus[k])
  <2>1. biStatus[k] \in BiUnderWay
    BY <1>0, <1>3, <1>6 DEF BiSole, BiFit, BiStatusFits, BiBuild, BiAt
  <2>2. BiRowsFit(r, k) /\ BiBindFits(r, k) /\ BiCleanFits(r, k)
    BY <1>5, BiFreeFits
  <2>. QED BY <1>0, <1>3, <1>5, <2>1, <2>2
       DEF BiAllowed, BiStatusAllows, BiBuild, BiUnderWay, BiRepairs, BiLate, BiAt
<1>. QED BY <1>1, <1>2, <1>3, <1>4, <1>5, <1>6, BiPlainCalm

LEMMA BiResolveCalm ==
    ASSUME BiInv, BiBase', NEW c \in BiCalls, BiResolve(c)
    PROVE  BiCalmInv' /\ BiShown'
<1>0. BiTyped /\ BiAt(c) = "resolve"
  BY DEF BiInv, BiBase, BiResolve
<1>1. PICK k \in BiKeys : k = BiOf(c)
  BY <1>0, BiWorksOn
<1>2. UNCHANGED <<biStatus, biTemplate, biConfig, biBoard, biMapping, biBinding, biInstance, biCleaned, biDoubt>>
  BY DEF BiResolve, biResources, biRows, biBounds
<1>3. PICK s : s = biCall[c]
  OBVIOUS
<1>4. BiAt(c) \notin BiLate \cup {"map", "mapboard"}
  BY <1>0 DEF BiLate
<1>5. PICK r : BiMove(c, r) /\ r.at = "import" /\ r.of = k /\ r.next = 1
  <2>1. "import" \in BiPlaces /\ BiTurn(c, "import")
    BY DEF BiResolve, BiPlaces, BiBuild
  <2>. QED BY <1>0, <1>1, <2>1, BiTurnIs DEF BiOf
<1>6. ASSUME BiSole(s, k)
      PROVE  BiAllowed(s, r, k, biStatus[k])
  <2>1. biStatus[k] \in BiUnderWay /\ \A m \in BiRowsOf(k) : m.key \in BiNames
    BY <1>0, <1>3, <1>6 DEF BiSole, BiFit, BiStatusFits, BiRowsFit, BiBuild, BiAt
  <2>2. BiRowsFit(r, k) /\ BiCleanFits(r, k)
    BY <1>5, <2>1 DEF BiRowsFit, BiCleanFits, BiEarly
  <2>3. BiBindFits(r, k)
    BY <1>5 DEF BiBindFits, BiBoarding
  <2>. QED BY <1>0, <1>3, <1>5, <2>1, <2>2, <2>3
       DEF BiAllowed, BiStatusAllows, BiBuild, BiUnderWay, BiRepairs, BiLate, BiAt
<1>. QED BY <1>1, <1>2, <1>3, <1>4, <1>5, <1>6, BiPlainCalm

LEMMA BiBreakCalm ==
    ASSUME BiInv, BiBase', NEW c \in BiCalls, BiBreak(c)
    PROVE  BiCalmInv' /\ BiShown'
<1>0. BiTyped /\ BiAt(c) \in {"fetch", "verify", "create", "config", "save", "resolve", "import"}
  BY DEF BiInv, BiBase, BiBreak
<1>1. PICK k \in BiKeys : k = BiOf(c)
  BY <1>0, BiWorksOn
<1>2. UNCHANGED <<biStatus, biTemplate, biConfig, biBoard, biMapping, biBinding, biInstance, biCleaned, biDoubt>>
  BY DEF BiBreak, biResources, biRows, biBounds
<1>3. PICK s : s = biCall[c]
  OBVIOUS
<1>4. BiAt(c) \notin BiLate \cup {"map", "mapboard"}
  BY <1>0 DEF BiLate
<1>5. PICK r : BiMove(c, r) /\ r.at = "fail" /\ r.of = k
  <2>1. "fail" \in BiPlaces /\ BiStep(c, "fail")
    BY DEF BiBreak, BiPlaces
  <2>. QED BY <1>0, <1>1, <2>1, BiStepIs DEF BiOf
<1>6. ASSUME BiSole(s, k)
      PROVE  BiAllowed(s, r, k, biStatus[k])
  <2>1. biStatus[k] \in BiUnderWay
    BY <1>0, <1>3, <1>6 DEF BiSole, BiFit, BiStatusFits, BiBuild, BiAt
  <2>2. BiRowsFit(r, k) /\ BiBindFits(r, k) /\ BiCleanFits(r, k)
    BY <1>5, BiFreeFits
  <2>. QED BY <1>0, <1>3, <1>5, <2>1, <2>2
       DEF BiAllowed, BiStatusAllows, BiBuild, BiUnderWay, BiRepairs, BiLate, BiAt
<1>. QED BY <1>1, <1>2, <1>3, <1>4, <1>5, <1>6, BiPlainCalm

(* Nothing is mapped: then nothing is left.                                *)
LEMMA BiCheckCalm ==
    ASSUME BiInv, BiBase', NEW c \in BiCalls, BiCheck(c)
    PROVE  BiCalmInv' /\ BiShown'
<1>0. BiTyped /\ BiAt(c) = "check"
  BY DEF BiInv, BiBase, BiCheck
<1>1. PICK k \in BiKeys : k = BiOf(c)
  BY <1>0, BiWorksOn
<1>2. UNCHANGED <<biStatus, biTemplate, biConfig, biBoard, biMapping, biBinding, biInstance, biCleaned>>
  BY DEF BiCheck, BiSay, biResources, biRows
<1>3. PICK s : s = biCall[c]
  OBVIOUS
<1>4. BiAt(c) \notin BiLate \cup {"map", "mapboard"}
  BY <1>0 DEF BiLate
<1>5. ASSUME BiSole(s, k)
      PROVE  biStatus[k] = "FAILED" /\ (BiActive(k) = {} => BiClear(k))
  <2>1. biStatus[k] = "FAILED"
    BY <1>0, <1>3, <1>5 DEF BiSole, BiFit, BiStatusFits, BiAt
  <2>2. BiActive(k) = {} => BiClear(k)
    BY <1>0, <1>3, <1>5 DEF BiSole, BiTrackedBy, BiActive, BiRowsOf, BiClear, BiAt, BiShownBy
  <2>. QED BY <2>1, <2>2
<1>6. CASE BiEnd(c) /\ BiActive(k) = {} /\ BiNoFault
  <2>1. PICK r : BiMove(c, r) /\ r = BiIdle /\ r.at = "idle"
    BY <1>0, <1>6, BiEndIs, BiIdleIs
  <2>2. ASSUME BiSole(s, k)
        PROVE  BiAllowed(s, r, k, biStatus[k])
    <3>1. BiRowsFit(r, k) /\ BiBindFits(r, k) /\ BiCleanFits(r, k)
      BY <2>1, BiFreeFits
    <3>. QED BY <1>0, <1>3, <1>5, <1>6, <2>1, <2>2, <3>1
         DEF BiAllowed, BiStatusAllows, BiBuild, BiUnderWay, BiRepairs, BiLate, BiAt
  <2>3. biDoubt \subseteq biDoubt'
    BY <1>6 DEF BiNoFault
  <2>. QED BY <1>1, <1>2, <1>3, <1>4, <2>1, <2>2, <2>3, BiPlainCalm
<1>7. CASE BiStep(c, "flag") /\ BiNoFault
  <2>1. PICK r : BiMove(c, r) /\ r.at = "flag" /\ r.of = k
    <3>1. "flag" \in BiPlaces
      BY DEF BiPlaces
    <3>. QED BY <1>0, <1>1, <1>7, <3>1, BiStepIs DEF BiOf
  <2>2. ASSUME BiSole(s, k)
        PROVE  BiAllowed(s, r, k, biStatus[k])
    <3>1. BiRowsFit(r, k) /\ BiBindFits(r, k) /\ BiCleanFits(r, k)
      BY <2>1, BiFreeFits
    <3>. QED BY <1>0, <1>3, <1>5, <2>1, <2>2, <3>1
         DEF BiAllowed, BiStatusAllows, BiBuild, BiUnderWay, BiRepairs, BiLate, BiAt
  <2>3. biDoubt \subseteq biDoubt'
    BY <1>7 DEF BiNoFault
  <2>. QED BY <1>1, <1>2, <1>3, <1>4, <2>1, <2>2, <2>3, BiPlainCalm
<1>8. CASE BiLost(k) /\ BiEnd(c)
  <2>1. PICK r : BiMove(c, r) /\ r = BiIdle /\ r.at = "idle"
    BY <1>0, <1>8, BiEndIs, BiIdleIs
  <2>2. k \in biDoubt' /\ biDoubt \subseteq biDoubt'
    BY <1>0, <1>8, BiLostTyped
  <2>. QED BY <1>1, <1>2, <1>3, <1>4, <2>1, <2>2, BiPlainCalm
<1>. QED BY <1>1, <1>6, <1>7, <1>8 DEF BiCheck

LEMMA BiListCalm ==
    ASSUME BiInv, BiBase', NEW c \in BiCalls, BiList(c)
    PROVE  BiCalmInv' /\ BiShown'
<1>0. BiTyped /\ BiAt(c) = "list"
  BY DEF BiInv, BiBase, BiList
<1>1. PICK k \in BiKeys : k = BiOf(c)
  BY <1>0, BiWorksOn
<1>2. UNCHANGED <<biStatus, biTemplate, biConfig, biBoard, biMapping, biBinding, biInstance, biCleaned, biDoubt>>
  BY DEF BiList, biResources, biRows, biBounds
<1>3. PICK s : s = biCall[c]
  OBVIOUS
<1>4. BiAt(c) \notin BiLate \cup {"map", "mapboard"}
  BY <1>0 DEF BiLate
<1>5. ASSUME BiSole(s, k)
      PROVE  /\ biStatus[k] \in {"FAILED", "COMPENSATION_REQUIRED"}
             /\ biStatus[k] = "FAILED" => BiClear(k)
             /\ \A t \in BiMadeBy(k) : t.id \in biConfig \/ \E m \in BiActive(k) : m.id = t.id
             /\ \A b \in BiShownBy(k) : \E m \in BiActive(k) : m.key = b
  <2>1. biStatus[k] \in {"FAILED", "COMPENSATION_REQUIRED"}
    BY <1>0, <1>3, <1>5 DEF BiSole, BiFit, BiStatusFits, BiRepairs, BiAt
  <2>2. biStatus[k] = "FAILED" => BiClear(k)
    BY <1>0, <1>3, <1>5 DEF BiSole, BiToldBy, BiAt
  <2>3. /\ \A t \in BiMadeBy(k) : t.id \in biConfig \/ \E m \in BiActive(k) : m.id = t.id
        /\ \A b \in BiShownBy(k) : \E m \in BiActive(k) : m.key = b
    BY <1>0, <1>3, <1>5 DEF BiSole, BiTrackedBy, BiActive, BiRowsOf, BiAt
  <2>. QED BY <2>1, <2>2, <2>3
<1>6. CASE BiEnd(c)
  <2>1. PICK r : BiMove(c, r) /\ r = BiIdle /\ r.at = "idle"
    BY <1>0, <1>6, BiEndIs, BiIdleIs
  <2>2. ASSUME BiSole(s, k)
        PROVE  BiAllowed(s, r, k, biStatus[k])
    <3>1. BiRowsFit(r, k) /\ BiBindFits(r, k) /\ BiCleanFits(r, k)
      BY <2>1, BiFreeFits
    <3>. QED BY <1>0, <1>3, <1>5, <2>1, <2>2, <3>1
         DEF BiAllowed, BiStatusAllows, BiBuild, BiUnderWay, BiRepairs, BiLate, BiAt
  <2>. QED BY <1>1, <1>2, <1>3, <1>4, <2>1, <2>2, BiPlainCalm
<1>7. CASE ~BiEnd(c)
  <2>1. PICK r : BiMove(c, r) /\ r.at = "clean" /\ r.of = k /\ r.todo = BiActive(k)
    BY <1>0, <1>1, <1>7, BiListIs DEF BiOf
  <2>2. ASSUME BiSole(s, k)
        PROVE  BiAllowed(s, r, k, biStatus[k])
    <3>1. BiRowsFit(r, k) /\ BiBindFits(r, k)
      BY <2>1 DEF BiRowsFit, BiBindFits, BiEarly, BiBoarding
    <3>2. BiCleanFits(r, k)
      BY <1>5, <2>1, <2>2 DEF BiCleanFits
    <3>. QED BY <1>0, <1>3, <1>5, <2>1, <2>2, <3>1, <3>2
         DEF BiAllowed, BiStatusAllows, BiBuild, BiUnderWay, BiRepairs, BiLate, BiAt
  <2>. QED BY <1>1, <1>2, <1>3, <1>4, <2>1, <2>2, BiPlainCalm
<1>. QED BY <1>6, <1>7

(* A call that begins finds no other on its installation.                  *)
LEMMA BiInstallCalm ==
    ASSUME BiOrderly, BiInv, BiBase', NEW c \in BiCalls, NEW k \in BiKeys, BiInstall(c, k)
    PROVE  BiCalmInv' /\ BiShown'
<1>0. BiTyped /\ BiAt(c) = "idle" /\ ~BiBusy(k) /\ k \in BiInstalls /\ biStatus[k] = "none"
  BY DEF BiInv, BiBase, BiInstall, BiBegin, BiOrderly
<1>2. UNCHANGED <<biTemplate, biConfig, biBoard, biMapping, biBinding, biInstance, biCleaned, biDoubt>>
  BY DEF BiInstall, biResources, biRows
<1>3. PICK s : s = biCall[c]
  OBVIOUS
<1>4. biStatus'[k] = "DOWNLOADING" /\ \A j \in BiKeys : j # k => biStatus'[j] = biStatus[j]
  BY <1>0 DEF BiInstall, BiTyped, BiSideTyped
<1>5. PICK r : BiMove(c, r) /\ r.at = "fetch" /\ r.of = k
  <2>1. "fetch" \in BiPlaces /\ BiBegin(c, k, "fetch")
    BY DEF BiInstall, BiPlaces, BiBuild
  <2>. QED BY <1>0, <2>1, BiBeginIs
<1>6. ASSUME BiSole(s, k)
      PROVE  BiAllowed(s, r, k, "DOWNLOADING")
  <2>1. BiRowsOf(k) = {}
    BY <1>0, <1>6 DEF BiSole, BiNoneYet
  <2>2. BiRowsFit(r, k) /\ BiBindFits(r, k) /\ BiCleanFits(r, k)
    BY <1>5, <2>1 DEF BiRowsFit, BiBindFits, BiCleanFits, BiBoarding
  <2>3. k \notin BiDownloads
    BY <1>0, BiKeysAre
  <2>. QED BY <1>0, <1>3, <1>5, <2>2, <2>3
       DEF BiAllowed, BiStatusAllows, BiBuild, BiUnderWay, BiRepairs, BiLate, BiAt
<1>. QED BY <1>0, <1>2, <1>3, <1>4, <1>5, <1>6, BiPlainCalm

LEMMA BiDownloadCalm ==
    ASSUME BiOrderly, BiInv, BiBase', NEW c \in BiCalls, NEW k \in BiKeys, BiDownload(c, k)
    PROVE  BiCalmInv' /\ BiShown'
<1>0. BiTyped /\ BiAt(c) = "idle" /\ ~BiBusy(k) /\ k \notin BiInstalls /\ k \notin biCleaned
  BY BiKeysAre DEF BiInv, BiBase, BiDownload, BiBegin, BiOrderly
<1>2. UNCHANGED <<biTemplate, biConfig, biBoard, biMapping, biBinding, biInstance, biCleaned>>
  BY DEF BiDownload, biResources, biRows
<1>3. PICK s : s = biCall[c]
  OBVIOUS
<1>4. /\ biDoubt \subseteq biDoubt' /\ (k \notin biDoubt' => biStatus'[k] = "DOWNLOADING")
      /\ \A j \in BiKeys : j # k => biStatus'[j] = biStatus[j]
  <2>1. CASE biStatus' = [biStatus EXCEPT ![k] = "DOWNLOADING"] /\ BiNoFault
    BY <1>0, <2>1 DEF BiNoFault, BiTyped, BiSideTyped
  <2>2. CASE BiLost(k) /\ UNCHANGED biStatus
    BY <1>0, <2>2, BiLostTyped
  <2>. QED BY <2>1, <2>2 DEF BiDownload
<1>5. PICK r : BiMove(c, r) /\ r.at = "fetch" /\ r.of = k
  <2>1. "fetch" \in BiPlaces /\ BiBegin(c, k, "fetch")
    BY DEF BiDownload, BiPlaces, BiBuild
  <2>. QED BY <1>0, <2>1, BiBeginIs
<1>6. ASSUME BiSole(s, k)
      PROVE  BiAllowed(s, r, k, "DOWNLOADING")
  <2>2. BiRowsFit(r, k) /\ BiBindFits(r, k) /\ BiCleanFits(r, k)
    BY <1>0, <1>5 DEF BiRowsFit, BiBindFits, BiCleanFits, BiBoarding
  <2>. QED BY <1>0, <1>3, <1>5, <2>2
       DEF BiAllowed, BiStatusAllows, BiBuild, BiUnderWay, BiRepairs, BiLate, BiAt
<1>. QED BY <1>0, <1>2, <1>3, <1>4, <1>5, <1>6, BiPlainCalm

LEMMA BiRepairCalm ==
    ASSUME BiOrderly, BiInv, BiBase', NEW c \in BiCalls, NEW k \in BiKeys, BiRepair(c, k)
    PROVE  BiCalmInv' /\ BiShown'
<1>0. /\ BiTyped /\ BiAt(c) = "idle" /\ ~BiBusy(k)
      /\ biStatus[k] \in {"FAILED", "COMPENSATION_REQUIRED"}
  BY DEF BiInv, BiBase, BiRepair, BiBegin, BiOrderly
<1>2. UNCHANGED <<biStatus, biTemplate, biConfig, biBoard, biMapping, biBinding, biInstance, biCleaned, biDoubt>>
  BY DEF BiRepair, biResources, biRows
<1>3. PICK s : s = biCall[c]
  OBVIOUS
<1>4. PICK place \in {"list", "retry"} : BiBegin(c, k, place)
  BY DEF BiRepair
<1>5. PICK r : BiMove(c, r) /\ r.at = place /\ r.of = k
  <2>1. place \in BiPlaces
    BY DEF BiPlaces, BiRepairs
  <2>. QED BY <1>0, <1>4, <2>1, BiBeginIs
<1>6. ASSUME BiSole(s, k)
      PROVE  BiAllowed(s, r, k, biStatus[k])
  <2>1. biStatus[k] = "FAILED" => BiClear(k)
    BY <1>0, <1>3, <1>6 DEF BiSole, BiToldBy, BiAt
  <2>2. BiRowsFit(r, k) /\ BiBindFits(r, k) /\ BiCleanFits(r, k)
    BY <1>5, BiFreeFits
  <2>. QED BY <1>0, <1>3, <1>5, <2>1, <2>2
       DEF BiAllowed, BiStatusAllows, BiBuild, BiUnderWay, BiRepairs, BiLate, BiAt
<1>. QED BY <1>0, <1>2, <1>3, <1>5, <1>6, BiPlainCalm

(* The steps of one call that change what its installation has.            *)
LEMMA BiOwnCalm ==
    ASSUME BiInv, BiBase', NEW c \in BiCalls, NEW r, BiMove(c, r), NEW k \in BiKeys, NEW s, s = biCall[c],
           BiOf(c) = k, BiAt(c) \notin BiLate, r.of = k, BiElsewhere(k), UNCHANGED biInstance,
           \A d \in BiCalls, b \in BiPlans : <<d, b>> \in biBoard' => <<d, b>> \in biBoard,
           k \notin biDoubt' /\ BiSole(s, k) => BiSole(r, k)'
    PROVE  BiCalmInv' /\ BiShown'
<1>0. BiBase /\ BiTyped /\ BiCalmInv /\ BiShown /\ biDoubt \subseteq biDoubt'
  BY DEF BiInv, BiBase, BiElsewhere
<1>1. k \notin biDoubt' => BiWorkers(k) \subseteq {c} /\ BiSole(s, k)
  BY <1>0, BiMineIs
<1>2. BiCalmInv'
  BY <1>0, <1>1, BiSoleCalm
<1>3. BiShown'
  BY <1>0, BiShownFrame, BiKeysAre
<1>. QED BY <1>2, <1>3

LEMMA BiConfigureCalm ==
    ASSUME BiInv, BiBase', NEW c \in BiCalls, BiConfigure(c)
    PROVE  BiCalmInv' /\ BiShown'
<1>0. BiTyped /\ BiAt(c) = "config"
  BY DEF BiInv, BiBase, BiConfigure
<1>1. PICK k \in BiKeys : k = BiOf(c)
  BY <1>0, BiWorksOn
<1>2. /\ UNCHANGED <<biStatus, biTemplate, biBoard, biMapping, biBinding, biInstance, biCleaned, biDoubt>>
      /\ biConfig \subseteq biConfig'
  BY DEF BiConfigure, biRows, biBounds
<1>3. PICK s : s = biCall[c]
  OBVIOUS
<1>4. BiAt(c) \notin BiLate
  BY <1>0 DEF BiLate
<1>5. PICK r : BiMove(c, r) /\ r.at = "config" /\ r.of = k
  <2>1. biCall' = [biCall EXCEPT ![c].next = @ + 1]
    BY DEF BiConfigure
  <2>. QED BY <1>0, <1>1, <2>1, BiNextIs DEF BiAt, BiOf
<1>6. ASSUME BiSole(s, k)
      PROVE  BiSole(r, k)'
  <2>0. s.at = "config"
    BY <1>0, <1>3 DEF BiAt
  <2>1. /\ BiRowsOf(k)' = BiRowsOf(k) /\ BiMadeBy(k)' = BiMadeBy(k) /\ BiShownBy(k)' = BiShownBy(k)
    BY <1>2 DEF BiRowsOf, BiMadeBy, BiShownBy
  <2>2. biStatus[k] \in BiUnderWay
    BY <1>6, <2>0 DEF BiSole, BiFit, BiStatusFits, BiBuild
  <2>3. BiFit(r, k)'
    BY <1>2, <1>5, <2>2 DEF BiFit, BiStatusFits, BiRowsFit, BiBindFits, BiCleanFits, BiBoarding, BiEarly,
       BiRepairs, BiLate
  <2>4. BiTrackedBy(r, k)'
    BY <1>2, <1>6, <2>0, <2>1 DEF BiSole, BiTrackedBy
  <2>5. BiToldBy(r, k)' /\ BiNoneYet(k)'
    BY <1>2, <2>2 DEF BiToldBy, BiNoneYet, BiUnderWay
  <2>6. BiKnownTo(r, k)'
    BY <1>2, <1>6, <2>0, <2>1 DEF BiSole, BiKnownTo, BiBuild
  <2>. QED BY <2>3, <2>4, <2>5, <2>6 DEF BiSole
<1>7. BiElsewhere(k)
  BY <1>2 DEF BiElsewhere, BiRowsOf, BiMadeBy, BiShownBy
<1>. QED BY <1>1, <1>2, <1>3, <1>4, <1>5, <1>6, <1>7, BiOwnCalm

(* A new template is on its way into a row.                                *)
LEMMA BiCreateCalm ==
    ASSUME BiInv, BiBase', NEW c \in BiCalls, BiCreate(c)
    PROVE  BiCalmInv' /\ BiShown'
<1>0. BiTyped /\ BiAt(c) = "create"
  BY DEF BiInv, BiBase, BiCreate
<1>1. PICK k \in BiKeys : k = BiOf(c)
  BY <1>0, BiWorksOn
<1>2. UNCHANGED <<biStatus, biConfig, biBoard, biMapping, biBinding, biInstance, biCleaned, biDoubt>>
  BY DEF BiCreate, biRows, biBounds
<1>3. PICK s : s = biCall[c]
  OBVIOUS
<1>4. BiAt(c) \notin BiLate
  BY <1>0 DEF BiLate
<1>8. BiName(c) \in BiNames /\ BiName(c) = BiTemplates[s.next] /\ biIds' = biIds + 1
  <2>1. biCall[c].next <= Len(BiTemplates)
    BY <1>0, BiCallIs DEF BiPlace, BiAt
  <2>. QED BY <1>0, <1>3, <2>1, BiNameIs DEF BiCreate
<1>5. PICK r : /\ BiMove(c, r) /\ r.at = "map" /\ r.of = k /\ r.next = s.next
               /\ r.id[BiTemplates[r.next]] = biIds + 1
  BY <1>0, <1>1, <1>3, <1>8, BiCreateIs DEF BiOf
<1>9. PICK new : /\ new.id = biIds + 1 /\ new.by = k /\ new.name = BiTemplates[s.next]
                 /\ biTemplate' = biTemplate \cup {new}
  <2>1. PICK new : new = [id |-> biIds + 1, name |-> BiName(c), by |-> BiOf(c)]
    OBVIOUS
  <2>. QED BY <1>1, <1>8, <2>1 DEF BiCreate
<1>6. ASSUME BiSole(s, k)
      PROVE  BiSole(r, k)'
  <2>0. s.at = "create"
    BY <1>0, <1>3 DEF BiAt
  <2>1. BiRowsOf(k)' = BiRowsOf(k) /\ BiMadeBy(k)' = BiMadeBy(k) \cup {new} /\ BiShownBy(k)' = BiShownBy(k)
    BY <1>2, <1>9 DEF BiRowsOf, BiMadeBy, BiShownBy
  <2>2. biStatus[k] \in BiUnderWay
    BY <1>6, <2>0 DEF BiSole, BiFit, BiStatusFits, BiBuild
  <2>3. BiRowsFit(r, k)'
    <3>1. \A m \in BiRowsOf(k) : m.key # BiTemplates[s.next]
      BY <1>6, <2>0 DEF BiSole, BiFit, BiRowsFit
    <3>2. k \in BiInstalls =>
            \A m \in BiRowsOf(k) : \E i \in 1..Len(BiTemplates) : i < s.next /\ m.key = BiTemplates[i]
      BY <1>6, <2>0 DEF BiSole, BiFit, BiRowsFit, BiEarly
    <3>. QED BY <1>5, <1>9, <2>1, <3>1, <3>2 DEF BiRowsFit
  <2>4. BiFit(r, k)'
    BY <1>2, <1>5, <2>2, <2>3 DEF BiFit, BiStatusFits, BiBindFits, BiCleanFits, BiBoarding,
       BiRepairs, BiLate
  <2>5. BiTrackedBy(r, k)'
    BY <1>2, <1>5, <1>6, <1>9, <2>0, <2>1 DEF BiSole, BiTrackedBy
  <2>6. BiToldBy(r, k)' /\ BiNoneYet(k)'
    BY <1>2, <2>2 DEF BiToldBy, BiNoneYet, BiUnderWay
  <2>7. BiKnownTo(r, k)'
    BY <1>2, <1>6, <2>0, <2>1 DEF BiSole, BiKnownTo, BiBuild
  <2>. QED BY <2>4, <2>5, <2>6, <2>7 DEF BiSole
<1>7. BiElsewhere(k)
  BY <1>2, <1>9 DEF BiElsewhere, BiRowsOf, BiMadeBy, BiShownBy
<1>. QED BY <1>1, <1>2, <1>3, <1>4, <1>5, <1>6, <1>7, BiOwnCalm

(* A dashboard is on its way into a row.                                   *)
LEMMA BiImportCalm ==
    ASSUME BiInv, BiBase', NEW c \in BiCalls, BiImport(c)
    PROVE  BiCalmInv' /\ BiShown'
<1>0. BiTyped /\ BiAt(c) = "import" /\ biCall[c].next <= Len(BiBoards)
  BY DEF BiInv, BiBase, BiImport
<1>1. PICK k \in BiKeys : k = BiOf(c) /\ k \in BiInstalls
  BY <1>0, BiWorksOn
<1>2. UNCHANGED <<biStatus, biTemplate, biConfig, biMapping, biBinding, biInstance, biCleaned>>
  BY DEF BiImport, biRows
<1>3. PICK s : s = biCall[c]
  OBVIOUS
<1>4. BiAt(c) \notin BiLate
  BY <1>0 DEF BiLate
<1>8. PICK b \in BiPlans : b = BiBoards[s.next] /\ biBoard' = biBoard \cup {<<k, b>>}
  BY <1>0, <1>1, <1>3, BiPlanIs DEF BiImport
<1>5. PICK r : /\ BiMove(c, r) /\ r.of = k /\ r.next = s.next
               /\ r.at = "mapboard" \/ k \in biDoubt'
               /\ biDoubt \subseteq biDoubt'
  <2>1. "mapboard" \in BiPlaces /\ "fail" \in BiPlaces
    BY DEF BiPlaces, BiBuild
  <2>2. CASE BiStep(c, "mapboard") /\ BiNoFault
    BY <1>0, <1>1, <1>3, <2>1, <2>2, BiStepIs DEF BiNoFault, BiOf
  <2>3. CASE BiLost(k) /\ BiStep(c, "fail")
    BY <1>0, <1>1, <1>3, <2>1, <2>3, BiStepIs, BiLostTyped DEF BiOf
  <2>. QED BY <1>1, <2>2, <2>3 DEF BiImport
<1>6. ASSUME BiSole(s, k), k \notin biDoubt'
      PROVE  BiSole(r, k)'
  <2>0. s.at = "import" /\ r.at = "mapboard"
    BY <1>0, <1>3, <1>5, <1>6 DEF BiAt
  <2>1. /\ BiRowsOf(k)' = BiRowsOf(k) /\ BiMadeBy(k)' = BiMadeBy(k)
        /\ BiShownBy(k)' = BiShownBy(k) \cup {b}
    BY <1>2, <1>8 DEF BiRowsOf, BiMadeBy, BiShownBy
  <2>2. biStatus[k] \in BiUnderWay
    BY <1>6, <2>0 DEF BiSole, BiFit, BiStatusFits, BiBuild
  <2>3. BiRowsFit(r, k)'
    <3>1. \A m \in BiRowsOf(k) :
            m.key \in BiNames \/ \E i \in 1..Len(BiBoards) : i < s.next /\ m.key = BiBoards[i]
      BY <1>6, <2>0 DEF BiSole, BiFit, BiRowsFit
    <3>. QED BY <1>5, <2>0, <2>1, <3>1 DEF BiRowsFit, BiEarly
  <2>4. BiBindFits(r, k)'
    BY <1>2, <1>5, <1>6, <2>0 DEF BiSole, BiFit, BiBindFits, BiBoarding
  <2>5. BiFit(r, k)'
    BY <1>2, <2>0, <2>2, <2>3, <2>4 DEF BiFit, BiStatusFits, BiCleanFits, BiRepairs, BiLate
  <2>6. BiTrackedBy(r, k)'
    BY <1>2, <1>5, <1>6, <1>8, <2>0, <2>1 DEF BiSole, BiTrackedBy
  <2>7. BiToldBy(r, k)' /\ BiNoneYet(k)'
    BY <1>2, <2>2 DEF BiToldBy, BiNoneYet, BiUnderWay
  <2>8. BiKnownTo(r, k)'
    BY <1>2, <1>6, <2>0, <2>1 DEF BiSole, BiKnownTo, BiBuild
  <2>. QED BY <2>5, <2>6, <2>7, <2>8 DEF BiSole
<1>7. BiElsewhere(k)
  BY <1>2, <1>5, <1>8 DEF BiElsewhere, BiRowsOf, BiMadeBy, BiShownBy
<1>9. \A d \in BiCalls, p \in BiPlans : <<d, p>> \in biBoard' => <<d, p>> \in biBoard
  BY <1>8, BiKeysAre
<1>. QED BY <1>1, <1>2, <1>3, <1>4, <1>5, <1>6, <1>7, <1>9, BiOwnCalm

(* What was made is in an active row now.                                  *)
LEMMA BiMapTemplateCalm ==
    ASSUME BiInv, BiBase', NEW c \in BiCalls, BiMapTemplate(c)
    PROVE  BiCalmInv' /\ BiShown'
<1>0. BiTyped /\ BiOwned /\ BiAt(c) = "map"
  BY DEF BiInv, BiBase, BiMapTemplate
<1>1. PICK k \in BiKeys : k = BiOf(c)
  BY <1>0, BiWorksOn
<1>2. UNCHANGED <<biStatus, biTemplate, biConfig, biBoard, biBinding, biInstance, biCleaned>>
  BY DEF BiMapTemplate, biResources
<1>3. PICK s : s = biCall[c] /\ s.next \in 1..Len(BiTemplates) /\ s.next \in Nat /\ BiTemplates[s.next] \in BiNames
  <2>1. biCall[c].next <= Len(BiTemplates)
    BY <1>0, BiCallIs DEF BiPlace, BiAt
  <2>. QED BY <1>0, <2>1, BiNameIs, BiCallIs
<1>4. BiAt(c) \notin BiLate
  BY <1>0 DEF BiLate
<1>5. PICK r : BiMove(c, r) /\ r.at = "look" /\ r.of = k /\ r.next = s.next + 1
  BY <1>0, <1>1, <1>3, BiMapTemplateIs DEF BiOf
<1>8. PICK id \in Nat : id = s.id[BiTemplates[s.next]]
  BY <1>0, <1>3, BiCallIs
<1>9. PICK n \in BiNames : n = BiTemplates[s.next] /\ n = BiName(c) /\ BiMap(c, n, id)
  BY <1>3, <1>8 DEF BiMapTemplate, BiName
<1>10. /\ biDoubt \subseteq biDoubt'
       /\ \/ biMapping' = biMapping
          \/ \E new \in BiMaps : /\ new.of = k /\ new.key = n /\ new.id = id /\ new.active
                                 /\ biMapping' = biMapping \cup {new}
       /\ (\A m \in biMapping : m.of = k => m.key # n) /\ k \notin biDoubt' => biMapping' # biMapping
  BY <1>0, <1>1, <1>9, BiMapIs
<1>6. ASSUME BiSole(s, k), k \notin biDoubt'
      PROVE  BiSole(r, k)'
  <2>0. s.at = "map"
    BY <1>0, <1>3 DEF BiAt
  <2>1. \A m \in BiRowsOf(k) : m.key # n
    BY <1>6, <1>9, <2>0 DEF BiSole, BiFit, BiRowsFit
  <2>2. PICK new \in BiMaps : /\ new.of = k /\ new.key = n /\ new.id = id /\ new.active
                              /\ biMapping' = biMapping \cup {new}
    BY <1>6, <1>10, <2>1 DEF BiRowsOf
  <2>3. /\ BiRowsOf(k)' = BiRowsOf(k) \cup {new} /\ BiMadeBy(k)' = BiMadeBy(k)
        /\ BiShownBy(k)' = BiShownBy(k)
    BY <1>2, <2>2 DEF BiRowsOf, BiMadeBy, BiShownBy
  <2>4. biStatus[k] \in BiUnderWay
    BY <1>6, <2>0 DEF BiSole, BiFit, BiStatusFits, BiBuild
  <2>5. BiRowsFit(r, k)'
    <3>1. ASSUME k \in BiInstalls, NEW m \in BiRowsOf(k)'
          PROVE  \E i \in 1..Len(BiTemplates) : i < r.next /\ m.key = BiTemplates[i]
      <4>1. CASE m = new
        <5>1. s.next < r.next
          BY <1>3, <1>5
        <5>. QED BY <1>3, <1>9, <2>2, <4>1, <5>1
      <4>2. CASE m \in BiRowsOf(k)
        <5>1. PICK i \in 1..Len(BiTemplates) : i < s.next /\ m.key = BiTemplates[i]
          BY <1>6, <2>0, <3>1, <4>2 DEF BiSole, BiFit, BiRowsFit, BiEarly
        <5>2. i < r.next
          BY <1>3, <1>5, <5>1, BiListsAre
        <5>. QED BY <5>1, <5>2
      <4>. QED BY <2>3, <3>1, <4>1, <4>2
    <3>. QED BY <1>5, <3>1 DEF BiRowsFit
  <2>6. BiFit(r, k)'
    BY <1>2, <1>5, <2>4, <2>5 DEF BiFit, BiStatusFits, BiBindFits, BiCleanFits, BiBoarding,
       BiRepairs, BiLate
  <2>7. BiTrackedBy(r, k)'
    BY <1>2, <1>6, <1>8, <2>0, <2>2, <2>3 DEF BiSole, BiTrackedBy
  <2>8. BiToldBy(r, k)' /\ BiNoneYet(k)'
    BY <1>2, <2>4 DEF BiToldBy, BiNoneYet, BiUnderWay
  <2>9. BiKnownTo(r, k)'
    <3>1. \E t \in BiMadeBy(k) : t.id = new.id /\ t.name = new.key
      BY <1>6, <1>8, <1>9, <2>0, <2>2 DEF BiSole, BiFit, BiRowsFit
    <3>. QED BY <1>2, <1>6, <2>0, <2>3, <3>1 DEF BiSole, BiKnownTo, BiBuild
  <2>. QED BY <2>6, <2>7, <2>8, <2>9 DEF BiSole
<1>7. BiElsewhere(k)
  BY <1>2, <1>10 DEF BiElsewhere, BiRowsOf, BiMadeBy, BiShownBy
<1>. QED BY <1>1, <1>2, <1>3, <1>4, <1>5, <1>6, <1>7, BiOwnCalm

(* The dashboard was made before, and now has its row.                     *)
LEMMA BiMapBoardCalm ==
    ASSUME BiOrderly, BiInv, BiBase', NEW c \in BiCalls, BiMapBoard(c)
    PROVE  BiCalmInv' /\ BiShown'
<1>0. BiTyped /\ BiOwned /\ BiAt(c) = "mapboard"
  BY DEF BiInv, BiBase, BiMapBoard
<1>1. PICK k \in BiKeys : k = BiOf(c)
  BY <1>0, BiWorksOn
<1>2. UNCHANGED <<biStatus, biTemplate, biConfig, biBoard, biBinding, biInstance, biCleaned>>
  BY DEF BiMapBoard, biResources
<1>3. PICK s : s = biCall[c] /\ s.next \in 1..Len(BiBoards) /\ s.next \in Nat /\ BiBoards[s.next] \in BiPlans
  <2>1. biCall[c].next <= Len(BiBoards)
    BY <1>0, BiCallIs DEF BiPlace, BiAt
  <2>. QED BY <1>0, <2>1, BiPlanIs, BiCallIs
<1>4. BiAt(c) \notin BiLate
  BY <1>0 DEF BiLate
<1>5. PICK r : BiMove(c, r) /\ r.at = "bindboard" /\ r.of = k /\ r.next = s.next
  <2>1. "bindboard" \in BiPlaces /\ BiStep(c, "bindboard")
    BY DEF BiMapBoard, BiPlaces, BiBuild
  <2>. QED BY <1>0, <1>1, <1>3, <2>1, BiStepIs DEF BiOf
<1>9. PICK n \in BiPlans : n = BiBoards[s.next] /\ BiMap(c, n, 0)
  BY <1>3 DEF BiMapBoard, BiPlan
<1>10. /\ biDoubt \subseteq biDoubt'
       /\ \/ biMapping' = biMapping
          \/ \E new \in BiMaps : /\ new.of = k /\ new.key = n /\ new.id = 0 /\ new.active
                                 /\ biMapping' = biMapping \cup {new}
       /\ (\A m \in biMapping : m.of = k => m.key # n) /\ k \notin biDoubt' => biMapping' # biMapping
  BY <1>0, <1>1, <1>9, BiMapIs
<1>6. ASSUME BiSole(s, k), k \notin biDoubt'
      PROVE  BiSole(r, k)'
  <2>0. s.at = "mapboard"
    BY <1>0, <1>3 DEF BiAt
  <2>10. \A m \in BiRowsOf(k) :
           m.key \in BiNames \/ \E i \in 1..Len(BiBoards) : i < s.next /\ m.key = BiBoards[i]
    BY <1>6, <2>0 DEF BiSole, BiFit, BiRowsFit
  <2>1. ASSUME NEW m \in BiRowsOf(k)
        PROVE  m.key # n
    <3>1. CASE m.key \in BiNames
      BY <1>9, <3>1, BiAssumption
    <3>2. CASE m.key \notin BiNames
      <4>1. PICK i \in 1..Len(BiBoards) : i < s.next /\ m.key = BiBoards[i]
        BY <2>1, <2>10, <3>2
      <4>2. i # s.next
        BY <1>3, <4>1, BiListsAre
      <4>. QED BY <1>3, <1>9, <4>1, <4>2 DEF BiOrderly
    <3>. QED BY <3>1, <3>2
  <2>2. PICK new \in BiMaps : /\ new.of = k /\ new.key = n /\ new.id = 0 /\ new.active
                              /\ biMapping' = biMapping \cup {new}
    BY <1>6, <1>10, <2>1 DEF BiRowsOf
  <2>3. /\ BiRowsOf(k)' = BiRowsOf(k) \cup {new} /\ BiMadeBy(k)' = BiMadeBy(k)
        /\ BiShownBy(k)' = BiShownBy(k)
    BY <1>2, <2>2 DEF BiRowsOf, BiMadeBy, BiShownBy
  <2>4. biStatus[k] \in BiUnderWay
    BY <1>6, <2>0 DEF BiSole, BiFit, BiStatusFits, BiBuild
  <2>5. BiRowsFit(r, k)'
    <3>1. ASSUME NEW m \in BiRowsOf(k)'
          PROVE  m.key \in BiNames \/ \E i \in 1..Len(BiBoards) : i <= r.next /\ m.key = BiBoards[i]
      <4>1. CASE m = new
        <5>1. s.next <= r.next
          BY <1>3, <1>5
        <5>. QED BY <1>3, <1>9, <2>2, <4>1, <5>1
      <4>2. CASE m \in BiRowsOf(k) /\ m.key \notin BiNames
        <5>1. PICK i \in 1..Len(BiBoards) : i < s.next /\ m.key = BiBoards[i]
          BY <2>10, <4>2
        <5>2. i <= r.next
          BY <1>3, <1>5, <5>1, BiListsAre
        <5>. QED BY <5>1, <5>2
      <4>. QED BY <2>3, <3>1, <4>1, <4>2
    <3>. QED BY <1>5, <3>1 DEF BiRowsFit, BiEarly
  <2>6. BiBindFits(r, k)'
    BY <1>2, <1>5, <1>6, <2>0 DEF BiSole, BiFit, BiBindFits, BiBoarding
  <2>7. BiFit(r, k)'
    BY <1>2, <1>5, <2>4, <2>5, <2>6 DEF BiFit, BiStatusFits, BiCleanFits, BiRepairs, BiLate
  <2>8. BiTrackedBy(r, k)'
    BY <1>2, <1>6, <1>9, <2>0, <2>2, <2>3 DEF BiSole, BiTrackedBy
  <2>9. BiToldBy(r, k)' /\ BiNoneYet(k)' /\ BiKnownTo(r, k)'
    <3>1. k \notin BiDownloads
      BY <1>0, <1>1, BiWorksOn, BiKeysAre
    <3>. QED BY <1>2, <2>4, <3>1 DEF BiToldBy, BiNoneYet, BiUnderWay, BiKnownTo
  <2>. QED BY <2>7, <2>8, <2>9 DEF BiSole
<1>7. BiElsewhere(k)
  BY <1>2, <1>10 DEF BiElsewhere, BiRowsOf, BiMadeBy, BiShownBy
<1>. QED BY <1>1, <1>2, <1>3, <1>4, <1>5, <1>6, <1>7, BiOwnCalm

LEMMA BiBindBoardCalm ==
    ASSUME BiInv, BiBase', NEW c \in BiCalls, BiBindBoard(c)
    PROVE  BiCalmInv' /\ BiShown'
<1>0. BiTyped /\ BiAt(c) = "bindboard"
  BY DEF BiInv, BiBase, BiBindBoard
<1>1. PICK k \in BiKeys : k = BiOf(c) /\ k \in BiInstalls /\ k \notin BiDownloads
  BY <1>0, BiWorksOn, BiKeysAre
<1>2. UNCHANGED <<biStatus, biTemplate, biConfig, biBoard, biMapping, biInstance, biCleaned>>
  BY DEF BiBindBoard, biResources
<1>3. PICK s : s = biCall[c] /\ s.next \in 1..Len(BiBoards) /\ s.next \in Nat /\ BiBoards[s.next] \in BiPlans
  <2>1. biCall[c].next <= Len(BiBoards)
    BY <1>0, BiCallIs DEF BiPlace, BiAt
  <2>. QED BY <1>0, <2>1, BiPlanIs, BiCallIs
<1>4. BiAt(c) \notin BiLate
  BY <1>0 DEF BiLate
<1>5. PICK r : BiMove(c, r) /\ r.at = "import" /\ r.of = k /\ r.next = s.next + 1
  BY <1>0, <1>1, <1>3, BiBindBoardIs DEF BiOf
<1>8. PICK b \in BiPlans : b = BiBoards[s.next] /\ b = BiPlan(c)
  BY <1>3 DEF BiPlan
<1>9. biBinding \in [BiInstalls -> [BiPlans -> {"none", "bound", "failed"}]]
  BY <1>0, BiRestTyped
<1>10. /\ biDoubt \subseteq biDoubt'
       /\ k \notin biDoubt' => biBinding'[k] = [biBinding[k] EXCEPT ![b] = "bound"]
       /\ \A j \in BiInstalls : j # k => biBinding'[j] = biBinding[j]
  <2>1. CASE biBinding' = [biBinding EXCEPT ![BiOf(c)][BiPlan(c)] = "bound"] /\ BiNoFault
    BY <1>1, <1>8, <1>9, <2>1 DEF BiNoFault
  <2>2. CASE BiLost(k) /\ UNCHANGED biBinding
    BY <1>0, <2>2, BiLostTyped
  <2>. QED BY <1>1, <2>1, <2>2 DEF BiBindBoard
<1>6. ASSUME BiSole(s, k), k \notin biDoubt'
      PROVE  BiSole(r, k)'
  <2>0. s.at = "bindboard"
    BY <1>0, <1>3 DEF BiAt
  <2>1. /\ BiRowsOf(k)' = BiRowsOf(k) /\ BiMadeBy(k)' = BiMadeBy(k)
        /\ BiShownBy(k)' = BiShownBy(k)
    BY <1>2 DEF BiRowsOf, BiMadeBy, BiShownBy
  <2>2. biStatus[k] \in BiUnderWay
    BY <1>6, <2>0 DEF BiSole, BiFit, BiStatusFits, BiBuild
  <2>3. BiRowsFit(r, k)'
    <3>1. ASSUME NEW m \in BiRowsOf(k), m.key \notin BiNames
          PROVE  \E i \in 1..Len(BiBoards) : i < r.next /\ m.key = BiBoards[i]
      <4>1. PICK i \in 1..Len(BiBoards) : i <= s.next /\ m.key = BiBoards[i]
        BY <1>6, <2>0, <3>1 DEF BiSole, BiFit, BiRowsFit
      <4>2. i < r.next
        BY <1>3, <1>5, <4>1, BiListsAre
      <4>. QED BY <4>1, <4>2
    <3>. QED BY <1>5, <2>1, <3>1 DEF BiRowsFit, BiEarly
  <2>4. BiBindFits(r, k)'
    <3>1. ASSUME NEW i \in 1..Len(BiBoards), i < r.next
          PROVE  biBinding'[k][BiBoards[i]] # "none"
      <4>0. biBinding'[k] = [biBinding[k] EXCEPT ![b] = "bound"] /\ BiBoards[i] \in BiPlans
        BY <1>6, <1>10, BiListsAre
      <4>1. CASE i = s.next
        BY <1>1, <1>8, <1>9, <4>0, <4>1
      <4>2. CASE i # s.next
        <5>1. i < s.next
          BY <1>3, <1>5, <3>1, <4>2, BiListsAre
        <5>2. biBinding[k][BiBoards[i]] # "none"
          BY <1>6, <2>0, <5>1 DEF BiSole, BiFit, BiBindFits, BiBoarding
        <5>. QED BY <1>1, <1>8, <1>9, <4>0, <5>2
      <4>. QED BY <4>1, <4>2
    <3>. QED BY <1>5, <3>1 DEF BiBindFits
  <2>5. BiFit(r, k)'
    BY <1>2, <1>5, <2>2, <2>3, <2>4 DEF BiFit, BiStatusFits, BiCleanFits, BiRepairs, BiLate
  <2>6. BiTrackedBy(r, k)'
    BY <1>2, <1>6, <2>0, <2>1 DEF BiSole, BiTrackedBy
  <2>7. BiToldBy(r, k)' /\ BiNoneYet(k)' /\ BiKnownTo(r, k)'
    BY <1>1, <1>2, <2>2 DEF BiToldBy, BiNoneYet, BiUnderWay, BiKnownTo
  <2>. QED BY <2>5, <2>6, <2>7 DEF BiSole
<1>7. BiElsewhere(k)
  BY <1>2, <1>10 DEF BiElsewhere, BiRowsOf, BiMadeBy, BiShownBy
<1>. QED BY <1>1, <1>2, <1>3, <1>4, <1>5, <1>6, <1>7, BiOwnCalm

(* A binding that failed is not touched again, for each is processed once. *)
LEMMA BiProcessCalm ==
    ASSUME BiOrderly, BiInv, BiBase', NEW c \in BiCalls, BiProcess(c)
    PROVE  BiCalmInv' /\ BiShown'
<1>0. BiTyped /\ BiAt(c) = "bind" /\ biCall[c].next <= Len(BiBoards)
  BY DEF BiInv, BiBase, BiProcess
<1>1. PICK k \in BiKeys : k = BiOf(c) /\ k \in BiInstalls /\ k \notin BiDownloads
  BY <1>0, BiWorksOn, BiKeysAre
<1>2. UNCHANGED <<biStatus, biTemplate, biConfig, biBoard, biMapping, biInstance, biCleaned, biDoubt>>
  BY DEF BiProcess, biResources, biBounds
<1>3. PICK s : s = biCall[c] /\ s.next \in 1..Len(BiBoards) /\ s.next \in Nat /\ BiBoards[s.next] \in BiPlans
  BY <1>0, BiPlanIs, BiCallIs
<1>4. BiAt(c) \notin BiLate
  BY <1>0 DEF BiLate
<1>11. PICK gone \in BOOLEAN : gone = (biDevice = 0)
  OBVIOUS
<1>8. PICK b \in BiPlans : b = BiBoards[s.next] /\ b = BiPlan(c)
  BY <1>3 DEF BiPlan
<1>5. PICK r : /\ BiMove(c, r) /\ r.at = "bind" /\ r.of = k /\ r.next = s.next + 1
               /\ r.waits => s.waits \/ (gone /\ b \in BiRequired)
  <2>1. PICK w \in BOOLEAN : w = (gone /\ b \in BiRequired)
    OBVIOUS
  <2>2. biCall' = [biCall EXCEPT ![c].next = @ + 1, ![c].waits = @ \/ w]
    BY <1>8, <1>11, <2>1 DEF BiProcess
  <2>3. PICK r : /\ BiMove(c, r) /\ r.next = biCall[c].next + 1 /\ r.waits = (biCall[c].waits \/ w)
                 /\ r.at = biCall[c].at /\ r.of = biCall[c].of
    BY <1>0, <2>2, BiWaitsIs
  <2>4. r.waits => s.waits \/ (gone /\ b \in BiRequired)
    BY <1>3, <2>1, <2>3
  <2>. QED BY <1>0, <1>1, <1>3, <2>3, <2>4 DEF BiAt, BiOf
<1>9. biBinding \in [BiInstalls -> [BiPlans -> {"none", "bound", "failed"}]]
  BY <1>0, BiRestTyped
<1>10. /\ biBinding'[k] = [biBinding[k] EXCEPT ![b] = IF @ = "none" THEN @ ELSE IF gone THEN "failed" ELSE "bound"]
       /\ \A j \in BiInstalls : j # k => biBinding'[j] = biBinding[j]
  BY <1>1, <1>8, <1>9, <1>11 DEF BiProcess
<1>6. ASSUME BiSole(s, k)
      PROVE  BiSole(r, k)'
  <2>0. s.at = "bind"
    BY <1>0, <1>3 DEF BiAt
  <2>1. /\ BiRowsOf(k)' = BiRowsOf(k) /\ BiMadeBy(k)' = BiMadeBy(k)
        /\ BiShownBy(k)' = BiShownBy(k)
    BY <1>2 DEF BiRowsOf, BiMadeBy, BiShownBy
  <2>2. biStatus[k] \in BiUnderWay
    BY <1>6, <2>0 DEF BiSole, BiFit, BiStatusFits, BiBuild
  <2>3. \A p \in BiPlans : biBinding[k][p] # "none"
    BY <1>6, <2>0 DEF BiSole, BiFit, BiBindFits
  <2>4. /\ \A p \in BiPlans : p # b => biBinding'[k][p] = biBinding[k][p]
        /\ biBinding'[k][b] = IF gone THEN "failed" ELSE "bound"
    BY <1>1, <1>9, <1>10, <2>3
  <2>5. \A p \in BiPlans : biBinding'[k][p] # "none"
    BY <2>3, <2>4
  <2>6. ASSUME r.waits
        PROVE  \E i \in 1..Len(BiBoards) :
                 i < r.next /\ BiBoards[i] \in BiRequired /\ biBinding'[k][BiBoards[i]] = "failed"
    <3>1. CASE s.waits
      <4>1. PICK i \in 1..Len(BiBoards) :
              i < s.next /\ BiBoards[i] \in BiRequired /\ biBinding[k][BiBoards[i]] = "failed"
        BY <1>6, <2>0, <3>1 DEF BiSole, BiFit, BiBindFits
      <4>2. i < r.next /\ i # s.next
        BY <1>3, <1>5, <4>1, BiListsAre
      <4>3. BiBoards[i] # b /\ BiBoards[i] \in BiPlans
        BY <1>3, <1>8, <4>2, BiListsAre DEF BiOrderly
      <4>. QED BY <2>4, <4>1, <4>2, <4>3
    <3>2. CASE gone /\ b \in BiRequired
      <4>1. s.next < r.next
        BY <1>3, <1>5
      <4>. QED BY <1>3, <1>8, <2>4, <3>2, <4>1
    <3>. QED BY <1>5, <2>6, <3>1, <3>2
  <2>7. BiBindFits(r, k)'
    BY <1>5, <2>5, <2>6 DEF BiBindFits, BiBoarding
  <2>8. BiFit(r, k)'
    BY <1>2, <1>5, <2>2, <2>7 DEF BiFit, BiStatusFits, BiRowsFit, BiCleanFits, BiEarly, BiRepairs, BiLate
  <2>9. BiTrackedBy(r, k)'
    BY <1>2, <1>6, <2>0, <2>1 DEF BiSole, BiTrackedBy
  <2>10. BiToldBy(r, k)' /\ BiNoneYet(k)' /\ BiKnownTo(r, k)'
    BY <1>1, <1>2, <2>2 DEF BiToldBy, BiNoneYet, BiUnderWay, BiKnownTo
  <2>. QED BY <2>8, <2>9, <2>10 DEF BiSole
<1>7. BiElsewhere(k)
  BY <1>2, <1>10 DEF BiElsewhere, BiRowsOf, BiMadeBy, BiShownBy
<1>. QED BY <1>1, <1>2, <1>3, <1>4, <1>5, <1>6, <1>7, BiOwnCalm

(* What is deleted was made by this installation, and its row is at hand.  *)
LEMMA BiCleanCalm ==
    ASSUME BiInv, BiBase', NEW c \in BiCalls, BiClean(c)
    PROVE  BiCalmInv' /\ BiShown'
<1>0. BiTyped /\ BiKept /\ BiOwned /\ BiAt(c) = "clean"
  BY DEF BiInv, BiBase, BiClean
<1>1. PICK k \in BiKeys : k = BiOf(c)
  BY <1>0, BiWorksOn
<1>2. UNCHANGED <<biStatus, biConfig, biMapping, biBinding, biInstance, biCleaned>>
  BY DEF BiClean, biRows
<1>3. PICK s : s = biCall[c] /\ s.todo \subseteq BiMaps /\ \A m \in s.todo : m.of = k /\ BiHasRow(m)
  BY <1>0, <1>1, BiCallIs DEF BiPlace, BiOwned, BiOf
<1>4. BiAt(c) \notin BiLate
  BY <1>0 DEF BiLate
<1>5. PICK m \in s.todo :
         \/ /\ m.id \notin biConfig /\ BiNoFault /\ BiTake(c, m)
            /\ biTemplate' = {t \in biTemplate : t.id # m.id}
            /\ biBoard' = biBoard \ {<<m.of, m.key>>}
         \/ /\ (m.id \in biConfig /\ BiNoFault) \/ BiLost(k)
            /\ BiDrop(c, m)
            /\ UNCHANGED <<biTemplate, biBoard>>
  BY <1>1, <1>3 DEF BiClean, BiTake, BiDrop
<1>6. m \in BiMaps /\ m.of = k /\ \A t \in biTemplate : t.id = m.id => t.by = k
  BY <1>0, <1>3 DEF BiOwned, BiHasRow
<1>7. biDoubt \subseteq biDoubt'
  BY <1>0, <1>5, BiLostTyped DEF BiNoFault
<1>8. BiElsewhere(k)
  <2>1. \A j \in BiKeys \ {k} : BiMadeBy(j)' = BiMadeBy(j) /\ BiShownBy(j)' = BiShownBy(j)
    BY <1>5, <1>6 DEF BiMadeBy, BiShownBy
  <2>. QED BY <1>2, <1>7, <2>1 DEF BiElsewhere, BiRowsOf
<1>9. \A d \in BiCalls, p \in BiPlans : <<d, p>> \in biBoard' => <<d, p>> \in biBoard
  BY <1>5
<1>10. ASSUME BiSole(s, k)
       PROVE  /\ biStatus[k] \in {"FAILED", "COMPENSATION_REQUIRED"}
              /\ biStatus[k] = "FAILED" => BiClear(k)
              /\ \A t \in BiMadeBy(k) : t.id \in biConfig \/ \E n \in s.todo : n.id = t.id
              /\ \A b \in BiShownBy(k) : \E n \in s.todo : n.key = b
              /\ \A t \in BiMadeBy(k) : t.id \in biConfig \/ \E n \in BiRowsOf(k) : n.active /\ n.id = t.id
              /\ \A b \in BiShownBy(k) : \E n \in BiRowsOf(k) : n.active /\ n.key = b
              /\ BiNoneYet(k)
  <2>0. s.at = "clean"
    BY <1>0, <1>3 DEF BiAt
  <2>1. biStatus[k] \in {"FAILED", "COMPENSATION_REQUIRED"}
    BY <1>10, <2>0 DEF BiSole, BiFit, BiStatusFits, BiRepairs
  <2>2. biStatus[k] = "FAILED" => BiClear(k)
    BY <1>10, <2>0 DEF BiSole, BiToldBy
  <2>3. /\ \A t \in BiMadeBy(k) : t.id \in biConfig \/ \E n \in s.todo : n.id = t.id
        /\ \A b \in BiShownBy(k) : \E n \in s.todo : n.key = b
    BY <1>10, <2>0 DEF BiSole, BiFit, BiCleanFits
  <2>4. /\ \A t \in BiMadeBy(k) : t.id \in biConfig \/ \E n \in BiRowsOf(k) : n.active /\ n.id = t.id
        /\ \A b \in BiShownBy(k) : \E n \in BiRowsOf(k) : n.active /\ n.key = b
    BY <1>10, <2>0 DEF BiSole, BiTrackedBy
  <2>. QED BY <1>10, <2>1, <2>2, <2>3, <2>4 DEF BiSole
<1>11. CASE /\ m.id \notin biConfig /\ BiNoFault /\ BiTake(c, m)
            /\ biTemplate' = {t \in biTemplate : t.id # m.id}
            /\ biBoard' = biBoard \ {<<m.of, m.key>>}
  <2>1. PICK r : BiMove(c, r) /\ r.at = "unmap" /\ r.row = m /\ r.of = k /\ r.todo = s.todo \ {m}
    BY <1>0, <1>1, <1>3, <1>6, <1>11, BiTakeIs DEF BiOf
  <2>2. ASSUME BiSole(s, k)
        PROVE  BiSole(r, k)'
    <3>1. /\ BiRowsOf(k)' = BiRowsOf(k) /\ BiMadeBy(k)' = {t \in BiMadeBy(k) : t.id # m.id}
          /\ BiShownBy(k)' = BiShownBy(k) \ {m.key}
      BY <1>2, <1>6, <1>11 DEF BiRowsOf, BiMadeBy, BiShownBy
    <3>2. BiCleanFits(r, k)'
      <4>1. ASSUME NEW t \in BiMadeBy(k)'
            PROVE  t.id \in biConfig' \/ \E n \in r.todo : n.id = t.id
        BY <1>2, <1>10, <2>1, <2>2, <3>1, <4>1
      <4>2. ASSUME NEW b \in BiShownBy(k)'
            PROVE  \E n \in r.todo : n.key = b
        BY <1>10, <2>1, <2>2, <3>1, <4>2
      <4>3. (\A t \in BiMadeBy(k)' : t.id # r.row.id) /\ r.row.key \notin BiShownBy(k)'
        BY <2>1, <3>1
      <4>. QED BY <4>1, <4>2, <4>3 DEF BiCleanFits
    <3>3. BiFit(r, k)'
      BY <1>2, <1>10, <2>1, <2>2, <3>2 DEF BiFit, BiStatusFits, BiRowsFit, BiBindFits, BiBuild, BiEarly,
         BiBoarding, BiLate
    <3>4. BiTrackedBy(r, k)'
      BY <1>2, <1>10, <2>2, <3>1 DEF BiTrackedBy
    <3>5. BiToldBy(r, k)' /\ BiNoneYet(k)'
      BY <1>2, <1>10, <2>2, <3>1 DEF BiToldBy, BiNoneYet, BiClear
    <3>6. BiKnownTo(r, k)'
      BY <2>1 DEF BiKnownTo, BiBuild
    <3>. QED BY <3>3, <3>4, <3>5, <3>6 DEF BiSole
  <2>. QED BY <1>1, <1>2, <1>3, <1>4, <1>8, <1>9, <2>1, <2>2, BiOwnCalm
<1>12. CASE /\ (m.id \in biConfig /\ BiNoFault) \/ BiLost(k)
            /\ BiDrop(c, m)
            /\ UNCHANGED <<biTemplate, biBoard>>
  <2>1. PICK r : BiMove(c, r) /\ r.at = "clean" /\ r.of = k /\ r.todo = s.todo \ {m}
    BY <1>0, <1>1, <1>3, <1>12, BiDropIs DEF BiOf, BiAt
  <2>2. ASSUME BiSole(s, k), k \notin biDoubt'
        PROVE  BiSole(r, k)'
    <3>1. /\ BiRowsOf(k)' = BiRowsOf(k) /\ BiMadeBy(k)' = BiMadeBy(k) /\ BiShownBy(k)' = BiShownBy(k)
      BY <1>2, <1>12 DEF BiRowsOf, BiMadeBy, BiShownBy
    <3>2. m.id \in biConfig
      BY <1>0, <1>12, <2>2, BiLostTyped
    <3>3. m.key \notin BiPlans
      <4>1. m.id # 0
        BY <1>0, <3>2 DEF BiKept, BiExists
      <4>. QED BY <1>0, <1>3, <4>1 DEF BiOwned, BiHasRow
    <3>4. BiCleanFits(r, k)'
      <4>1. ASSUME NEW t \in BiMadeBy(k)'
            PROVE  t.id \in biConfig' \/ \E n \in r.todo : n.id = t.id
        BY <1>2, <1>10, <2>1, <2>2, <3>1, <3>2, <4>1
      <4>2. ASSUME NEW b \in BiShownBy(k)'
            PROVE  \E n \in r.todo : n.key = b
        <5>1. b \in BiPlans
          BY <4>2 DEF BiShownBy
        <5>. QED BY <1>10, <2>1, <2>2, <3>1, <3>3, <4>2, <5>1
      <4>. QED BY <2>1, <4>1, <4>2 DEF BiCleanFits
    <3>5. BiFit(r, k)'
      BY <1>2, <1>10, <2>1, <2>2, <3>4 DEF BiFit, BiStatusFits, BiRowsFit, BiBindFits, BiBuild, BiEarly,
         BiBoarding, BiLate
    <3>6. BiTrackedBy(r, k)'
      BY <1>2, <1>10, <2>2, <3>1 DEF BiTrackedBy
    <3>7. BiToldBy(r, k)' /\ BiNoneYet(k)'
      BY <1>2, <1>10, <2>2, <3>1 DEF BiToldBy, BiNoneYet, BiClear
    <3>8. BiKnownTo(r, k)'
      BY <2>1 DEF BiKnownTo, BiBuild
    <3>. QED BY <3>5, <3>6, <3>7, <3>8 DEF BiSole
  <2>. QED BY <1>1, <1>2, <1>3, <1>4, <1>8, <1>9, <2>1, <2>2, BiOwnCalm
<1>. QED BY <1>5, <1>11, <1>12

(* The row that is set inactive is of nothing that is left.                *)
LEMMA BiUnmapCalm ==
    ASSUME BiInv, BiBase', NEW c \in BiCalls, BiUnmap(c)
    PROVE  BiCalmInv' /\ BiShown'
<1>0. BiBase /\ BiTyped /\ BiAt(c) = "unmap"
  BY DEF BiInv, BiBase, BiUnmap
<1>1. PICK k \in BiKeys : k = BiOf(c)
  BY <1>0, BiWorksOn
<1>2. UNCHANGED <<biStatus, biTemplate, biConfig, biBoard, biBinding, biInstance, biCleaned>>
  BY DEF BiUnmap, biResources
<1>3. PICK s : s = biCall[c]
  OBVIOUS
<1>4. BiAt(c) \notin BiLate
  BY <1>0 DEF BiLate
<1>5. PICK r : BiMove(c, r) /\ r.at = "clean" /\ r.of = k /\ r.todo = s.todo
  <2>1. biCall' = [biCall EXCEPT ![c].at = "clean", ![c].row = BiNoMap]
    BY DEF BiUnmap
  <2>2. PICK r : BiMove(c, r) /\ r.at = "clean" /\ r.of = biCall[c].of /\ r.todo = biCall[c].todo
    BY <1>0, <2>1, BiDoneIs
  <2>. QED BY <1>1, <1>3, <2>2 DEF BiOf
<1>6. /\ biDoubt \subseteq biDoubt'
      /\ \/ biMapping' = biMapping /\ k \in biDoubt'
         \/ \E old, new \in BiMaps :
              /\ old.of = k /\ new.of = k /\ old = s.row
              /\ biMapping' = (biMapping \ {old}) \cup {new}
  BY <1>0, <1>1, <1>3, BiUnmapIs
<1>7. BiElsewhere(k)
  BY <1>2, <1>6 DEF BiElsewhere, BiRowsOf, BiMadeBy, BiShownBy
<1>8. ASSUME BiSole(s, k), k \notin biDoubt'
      PROVE  BiSole(r, k)'
  <2>0. s.at = "unmap"
    BY <1>0, <1>3 DEF BiAt
  <2>1. PICK old \in BiMaps, new \in BiMaps :
          /\ old.of = k /\ new.of = k /\ old = s.row
          /\ biMapping' = (biMapping \ {old}) \cup {new}
    BY <1>6, <1>8
  <2>2. /\ BiRowsOf(k)' = (BiRowsOf(k) \ {old}) \cup {new} /\ BiMadeBy(k)' = BiMadeBy(k)
        /\ BiShownBy(k)' = BiShownBy(k)
    BY <1>2, <2>1 DEF BiRowsOf, BiMadeBy, BiShownBy
  <2>3. biStatus[k] \in {"FAILED", "COMPENSATION_REQUIRED"}
    BY <1>8, <2>0 DEF BiSole, BiFit, BiStatusFits, BiRepairs
  <2>4. BiCleanFits(r, k)'
    BY <1>2, <1>5, <1>8, <2>0, <2>2 DEF BiSole, BiFit, BiCleanFits
  <2>5. BiFit(r, k)'
    BY <1>2, <1>5, <2>3, <2>4 DEF BiFit, BiStatusFits, BiRowsFit, BiBindFits, BiBuild, BiEarly,
       BiBoarding, BiLate
  <2>6. /\ \A t \in BiMadeBy(k) : t.id # old.id
        /\ old.key \notin BiShownBy(k)
    BY <1>8, <2>0, <2>1 DEF BiSole, BiFit, BiCleanFits
  <2>7. BiTrackedBy(r, k)'
    <3>1. /\ \A t \in BiMadeBy(k) : t.id \in biConfig \/ \E n \in BiRowsOf(k) : n.active /\ n.id = t.id
          /\ \A b \in BiShownBy(k) : \E n \in BiRowsOf(k) : n.active /\ n.key = b
      BY <1>8, <2>0 DEF BiSole, BiTrackedBy
    <3>2. ASSUME NEW t \in BiMadeBy(k)
          PROVE  t.id \in biConfig \/ \E n \in BiRowsOf(k)' : n.active /\ n.id = t.id
      BY <2>2, <2>6, <3>1
    <3>3. ASSUME NEW b \in BiShownBy(k)
          PROVE  \E n \in BiRowsOf(k)' : n.active /\ n.key = b
      BY <2>2, <2>6, <3>1
    <3>. QED BY <1>2, <2>2, <3>2, <3>3 DEF BiTrackedBy
  <2>8. BiToldBy(r, k)' /\ BiNoneYet(k)'
    <3>1. biStatus[k] = "FAILED" => BiClear(k)
      BY <1>8, <2>0 DEF BiSole, BiToldBy
    <3>. QED BY <1>2, <2>2, <2>3, <3>1 DEF BiToldBy, BiNoneYet, BiClear
  <2>9. BiKnownTo(r, k)'
    BY <1>5 DEF BiKnownTo, BiBuild
  <2>. QED BY <2>5, <2>7, <2>8, <2>9 DEF BiSole
<1>. QED BY <1>1, <1>2, <1>3, <1>4, <1>5, <1>7, <1>8, BiOwnCalm

(* Late bindings: several calls at a time, and all of them are late.       *)
LEMMA BiAllLate ==
    ASSUME BiBase, NEW c \in BiCalls, NEW k \in BiInstalls, BiKeyInv(k),
           \/ BiOf(c) = k /\ BiAt(c) \in BiLate
           \/ BiAt(c) = "idle" /\ biStatus[k] = "WAITING_FOR_BINDINGS"
    PROVE  /\ \A d \in BiWorkers(k) : BiAt(d) \in BiLate
           /\ biStatus[k] \in {"WAITING_FOR_BINDINGS", "COMPLETED"}
<1>0. BiTyped /\ k \in BiKeys
  BY BiKeysAre DEF BiBase
<1>1. CASE BiOf(c) = k /\ BiAt(c) \in BiLate
  <2>1. c \in BiWorkers(k)
    BY <1>1 DEF BiWorkers
  <2>2. \A d \in BiWorkers(k) : BiAt(d) \in BiLate
    BY <1>1, <2>1 DEF BiKeyInv, BiTells, BiAlone
  <2>. QED BY <1>1, <2>1, <2>2 DEF BiKeyInv, BiFit, BiStatusFits, BiAt
<1>2. CASE BiAt(c) = "idle" /\ biStatus[k] = "WAITING_FOR_BINDINGS"
  <2>1. ASSUME NEW d \in BiWorkers(k)
        PROVE  BiAt(d) \in BiLate
    <3>0. PICK r : r = biCall[d]
      OBVIOUS
    <3>1. d \in BiCalls /\ r.of = k
      BY <3>0 DEF BiWorkers, BiOf
    <3>2. r.at \in BiPlaces /\ r.at # "idle" /\ r.at \notin BiShows
      BY <1>0, <3>0, <3>1, BiCallIs, BiKeysAre DEF BiPlace
    <3>3. BiStatusFits(r, k)
      BY <3>0 DEF BiKeyInv, BiFit
    <3>4. r.at \notin BiBuild \cup {"fail", "check", "flag"} \cup BiRepairs
      BY <1>2, <3>3 DEF BiStatusFits, BiUnderWay
    <3>. QED BY <3>0, <3>2, <3>4 DEF BiPlaces, BiAt
  <2>. QED BY <1>2, <2>1
<1>. QED BY <1>1, <1>2

(* A step of a late call keeps what is so, when it says what it waits for. *)
LEMMA BiLateCalm ==
    ASSUME BiInv, BiBase', NEW c \in BiCalls, NEW r, BiMove(c, r), NEW k \in BiInstalls,
           \/ BiOf(c) = k /\ BiAt(c) \in BiLate
           \/ BiAt(c) = "idle" /\ biStatus[k] = "WAITING_FOR_BINDINGS",
           r = BiIdle \/ (r.of = k /\ r.at \in BiLate),
           UNCHANGED <<biTemplate, biConfig, biBoard, biMapping, biInstance, biCleaned>>,
           biDoubt \subseteq biDoubt',
           \A j \in BiKeys : j # k => biStatus'[j] = biStatus[j],
           \A j \in BiInstalls : j # k => biBinding'[j] = biBinding[j],
           k \notin biDoubt' => biStatus'[k] = biStatus[k] \/ biStatus'[k] = "COMPLETED",
           k \notin biDoubt' /\ BiKeyInv(k) => BiWaitingTold(k)'
    PROVE  BiCalmInv' /\ BiShown'
<1>0. BiBase /\ BiTyped /\ BiTyped' /\ BiCalmInv /\ BiShown /\ k \in BiKeys /\ k \notin BiDownloads
  BY BiKeysAre DEF BiInv, BiBase
<1>1. biCall'[c] = r /\ \A d \in BiCalls : d # c => biCall'[d] = biCall[d]
  BY <1>0, BiMoveIs
<1>2. \A j \in BiKeys : /\ BiRowsOf(j)' = BiRowsOf(j) /\ BiMadeBy(j)' = BiMadeBy(j)
                        /\ BiShownBy(j)' = BiShownBy(j)
  BY DEF BiRowsOf, BiMadeBy, BiShownBy
<1>3. ASSUME k \notin biDoubt'
      PROVE  BiKeyInv(k)'
  <2>1. BiKeyInv(k)
    BY <1>0, <1>3 DEF BiCalmInv
  <2>2. /\ \A d \in BiWorkers(k) : BiAt(d) \in BiLate
        /\ biStatus[k] \in {"WAITING_FOR_BINDINGS", "COMPLETED"}
    BY <1>0, <2>1, BiAllLate
  <2>3. biStatus'[k] \in {"WAITING_FOR_BINDINGS", "COMPLETED"}
    BY <1>3, <2>2
  <2>4. ASSUME NEW d \in BiWorkers(k)'
        PROVE  biCall'[d].at \in BiLate
    <3>0. d \in BiCalls /\ biCall'[d].of = k
      BY DEF BiWorkers, BiOf
    <3>1. CASE d = c
      BY <1>0, <1>1, <3>0, <3>1, BiIdleIs, BiKeysAre
    <3>2. CASE d # c
      <4>1. d \in BiWorkers(k) /\ biCall'[d] = biCall[d]
        BY <1>1, <3>0, <3>2 DEF BiWorkers, BiOf
      <4>. QED BY <2>2, <4>1 DEF BiAt
    <3>. QED BY <3>1, <3>2
  <2>5. ASSUME NEW d \in BiWorkers(k)'
        PROVE  BiFit(biCall[d], k)'
    <3>0. PICK q : q = biCall'[d]
      OBVIOUS
    <3>1. q.at \in {"rebind", "count", "complete"}
      BY <2>4, <3>0 DEF BiLate
    <3>2. BiStatusFits(q, k)'
      BY <2>3, <3>1 DEF BiStatusFits, BiBuild, BiRepairs, BiLate
    <3>3. BiRowsFit(q, k)' /\ BiBindFits(q, k)' /\ BiCleanFits(q, k)'
      BY <3>1 DEF BiRowsFit, BiBindFits, BiCleanFits, BiEarly, BiBoarding
    <3>4. BiFit(q, k)'
      BY <3>2, <3>3 DEF BiFit
    <3>. QED BY <3>0, <3>4 DEF BiFit, BiStatusFits, BiRowsFit, BiBindFits, BiCleanFits
  <2>6. BiAlone(k)'
    BY <2>4 DEF BiAlone, BiAt
  <2>7. BiTracked(k)'
    <3>1. \A t \in BiMadeBy(k) : t.id \in biConfig \/ \E m \in BiRowsOf(k) : m.active /\ m.id = t.id
      BY <2>1, <2>2 DEF BiKeyInv, BiTells, BiTracked, BiLate
    <3>2. \A b \in BiShownBy(k) : \E m \in BiRowsOf(k) : m.active /\ m.key = b
      BY <2>1, <2>2 DEF BiKeyInv, BiTells, BiTracked, BiLate
    <3>. QED BY <1>0, <1>2, <3>1, <3>2 DEF BiTracked
  <2>8. BiFailedTold(k)' /\ BiNoneYet(k)'
    BY <2>3 DEF BiFailedTold, BiNoneYet
  <2>9. BiPresent(k)' /\ BiRests(k)'
    BY <1>0 DEF BiPresent, BiRests
  <2>10. BiWaitingTold(k)'
    BY <1>3, <2>1
  <2>. QED BY <2>5, <2>6, <2>7, <2>8, <2>9, <2>10 DEF BiKeyInv, BiTells
<1>4. ASSUME NEW j \in BiKeys \ {k}, j \notin biDoubt'
      PROVE  BiKeyInv(j)'
  <2>1. BiKeyInv(j)
    BY <1>0, <1>4 DEF BiCalmInv
  <2>2. BiOf(c) # j /\ r.of # j
    BY <1>0, <1>4, BiCallIs, BiIdleIs, BiKeysAre DEF BiOf, BiAt
  <2>3. BiWorkers(j)' = BiWorkers(j) /\ \A d \in BiWorkers(j) : biCall'[d] = biCall[d]
    BY <1>1, <2>2 DEF BiWorkers, BiOf
  <2>4. \A d \in BiWorkers(j) : biCall[d].at \in {"resolve", "bind"} \cup BiBoarding => j \in BiInstalls
    BY <1>0, BiWorksOn DEF BiWorkers, BiAt, BiOf, BiBoarding
  <2>. QED BY <1>2, <2>1, <2>3, <2>4, BiFrame
<1>5. ASSUME NEW j \in BiKeys \ biDoubt'
      PROVE  BiKeyInv(j)'
  BY <1>3, <1>4, <1>5
<1>6. BiCalmInv'
  BY <1>5 DEF BiCalmInv
<1>7. BiOf(c) # "instance"
  BY <1>0, BiKeysAre, BiCallIs DEF BiOf, BiAt
<1>8. BiShown'
  BY <1>0, <1>7, BiShownFrame
<1>. QED BY <1>6, <1>8

(* A binding is asked for while the installation waits.                    *)
LEMMA BiUpdateBindingCalm ==
    ASSUME BiInv, BiBase', NEW c \in BiCalls, NEW k \in BiKeys, BiUpdateBinding(c, k)
    PROVE  BiCalmInv' /\ BiShown'
<1>0. BiBase /\ BiTyped /\ k \in BiInstalls /\ BiAt(c) = "idle" /\ biStatus[k] = "WAITING_FOR_BINDINGS"
  BY DEF BiInv, BiBase, BiUpdateBinding
<1>1. PICK r : BiMove(c, r) /\ r.at = "rebind" /\ r.of = k
  BY <1>0, BiUpdateBindingIs
<1>2. UNCHANGED <<biStatus, biTemplate, biConfig, biBoard, biMapping, biBinding, biInstance, biCleaned, biDoubt>>
  BY DEF BiUpdateBinding, biResources, biRows
<1>3. \A d \in BiCalls : d # c => biCall'[d] = biCall[d]
  BY <1>0, <1>1, BiMoveIs
<1>4. BiOf(c) # k
  BY <1>0, BiCallIs, BiKeysAre DEF BiOf, BiAt
<1>5. BiKeyInv(k) => BiWaitingTold(k)'
  BY <1>2, <1>3, <1>4 DEF BiKeyInv, BiTells, BiWaitingTold, BiWorkers, BiAt, BiOf
<1>6. r.at \in BiLate
  BY <1>1 DEF BiLate
<1>. QED BY <1>0, <1>1, <1>2, <1>5, <1>6, BiLateCalm

(* It is bound, and then counted.                                          *)
LEMMA BiRebindCalm ==
    ASSUME BiInv, BiBase', NEW c \in BiCalls, BiRebind(c)
    PROVE  BiCalmInv' /\ BiShown'
<1>0. BiBase /\ BiTyped /\ BiAt(c) = "rebind" /\ BiAt(c) \in BiLate
  BY DEF BiInv, BiBase, BiRebind, BiLate
<1>1. PICK k \in BiInstalls : k = BiOf(c) /\ k \in BiKeys
  BY <1>0, BiWorksOn
<1>2. UNCHANGED <<biStatus, biTemplate, biConfig, biBoard, biMapping, biInstance, biCleaned>>
  BY DEF BiRebind, biResources
<1>3. biBinding \in [BiInstalls -> [BiPlans -> {"none", "bound", "failed"}]]
  BY <1>0, BiRestTyped
<1>4. biDoubt \subseteq biDoubt'
  BY <1>0, <1>1, BiLostTyped DEF BiRebind, BiNoFault
<1>5. \A j \in BiInstalls : j # k => biBinding'[j] = biBinding[j]
  BY <1>1, <1>3 DEF BiRebind
<1>6. CASE BiStep(c, "count")
  <2>0. "count" \in BiPlaces /\ "count" \in BiLate
    BY DEF BiPlaces, BiLate
  <2>1. PICK r : BiMove(c, r) /\ r.at = "count" /\ r.of = k
    BY <1>0, <1>1, <1>6, <2>0, BiStepIs DEF BiOf
  <2>2. biCall'[c] = r /\ c \in BiWorkers(k)'
    BY <1>0, <2>1, BiMoveIs DEF BiWorkers, BiOf
  <2>3. BiWaitingTold(k)'
    BY <2>1, <2>2 DEF BiWaitingTold, BiAt
  <2>. QED BY <1>0, <1>1, <1>2, <1>4, <1>5, <2>0, <2>1, <2>3, BiLateCalm
<1>7. CASE BiEnd(c) /\ UNCHANGED biBinding
  <2>1. BiMove(c, BiIdle)
    BY <1>0, <1>7, BiEndIs
  <2>2. \A d \in BiCalls : d # c => biCall'[d] = biCall[d]
    BY <1>0, <2>1, BiMoveIs
  <2>3. BiKeyInv(k) => BiWaitingTold(k)'
    BY <1>0, <1>2, <1>7, <2>2 DEF BiKeyInv, BiTells, BiWaitingTold, BiWorkers, BiAt, BiOf
  <2>. QED BY <1>0, <1>1, <1>2, <1>4, <1>5, <2>1, <2>3, BiLateCalm
<1>. QED BY <1>6, <1>7 DEF BiRebind

(* None is left that failed, or the installation goes on waiting for it.   *)
LEMMA BiCountCalm ==
    ASSUME BiInv, BiBase', NEW c \in BiCalls, BiCount(c)
    PROVE  BiCalmInv' /\ BiShown'
<1>0. BiBase /\ BiTyped /\ BiAt(c) = "count" /\ BiAt(c) \in BiLate
  BY DEF BiInv, BiBase, BiCount, BiLate
<1>1. PICK k \in BiInstalls : k = BiOf(c) /\ k \in BiKeys
  BY <1>0, BiWorksOn
<1>2. UNCHANGED <<biStatus, biTemplate, biConfig, biBoard, biMapping, biBinding, biInstance, biCleaned>>
  BY DEF BiCount, biResources, biRows
<1>4. biDoubt \subseteq biDoubt' /\ (k \notin biDoubt' => BiNoFault)
  BY <1>0, <1>1, BiLostTyped DEF BiCount, BiNoFault
<1>6. CASE BiStep(c, "complete")
  <2>0. "complete" \in BiPlaces /\ "complete" \in BiLate
    BY DEF BiPlaces, BiLate
  <2>1. PICK r : BiMove(c, r) /\ r.at = "complete" /\ r.of = k
    BY <1>0, <1>1, <1>6, <2>0, BiStepIs DEF BiOf
  <2>2. biCall'[c] = r /\ c \in BiWorkers(k)'
    BY <1>0, <2>1, BiMoveIs DEF BiWorkers, BiOf
  <2>3. BiWaitingTold(k)'
    BY <2>1, <2>2 DEF BiWaitingTold, BiAt
  <2>. QED BY <1>0, <1>1, <1>2, <1>4, <2>0, <2>1, <2>3, BiLateCalm
<1>7. CASE BiEnd(c)
  <2>1. BiMove(c, BiIdle)
    BY <1>0, <1>7, BiEndIs
  <2>2. biCall'[c] = BiIdle
    BY <1>0, <2>1, BiMoveIs
  <2>3. ASSUME k \notin biDoubt'
        PROVE  \E b \in BiRequired : biBinding[k][b] = "failed"
    <3>1. k \notin biDoubt' /\ BiIdle.at # "complete"
      BY <2>3, BiIdleIs
    <3>2. ~BiLost(k)
      BY <1>0, <1>1, <2>3, BiLostTyped
    <3>3. BiStep(c, "complete") => biCall'[c].at = "complete"
      <4>1. "complete" \in BiPlaces
        BY DEF BiPlaces, BiLate
      <4>2. ASSUME BiStep(c, "complete")
            PROVE  biCall'[c].at = "complete"
        <5>1. PICK r : BiMove(c, r) /\ r.at = "complete"
          BY <1>0, <4>1, <4>2, BiStepIs
        <5>. QED BY <1>0, <5>1, BiMoveIs
      <4>. QED BY <4>2
    <3>. QED BY <1>1, <2>2, <3>1, <3>2, <3>3 DEF BiCount
  <2>4. k \notin biDoubt' => BiWaitingTold(k)'
    BY <1>2, <2>3 DEF BiWaitingTold
  <2>. QED BY <1>0, <1>1, <1>2, <1>4, <2>1, <2>4, BiLateCalm
<1>. QED BY <1>6, <1>7 DEF BiCount

(* The last binding is there: the installation is complete.                *)
LEMMA BiCompleteCalm ==
    ASSUME BiInv, BiBase', NEW c \in BiCalls, BiComplete(c)
    PROVE  BiCalmInv' /\ BiShown'
<1>0. BiBase /\ BiTyped /\ BiAt(c) = "complete" /\ BiAt(c) \in BiLate
  BY DEF BiInv, BiBase, BiComplete, BiLate
<1>1. PICK k \in BiInstalls : k = BiOf(c) /\ k \in BiKeys
  BY <1>0, BiWorksOn
<1>2. "COMPLETED" \in BiStatuses /\ BiSay(c, "COMPLETED")
  BY DEF BiStatuses, BiComplete
<1>3. UNCHANGED <<biResources, biRows, biCleaned>>
  BY DEF BiComplete
<1>4. /\ UNCHANGED <<biTemplate, biConfig, biBoard, biMapping, biBinding, biInstance>>
      /\ biDoubt \subseteq biDoubt'
      /\ \A j \in BiKeys : j # k => biStatus'[j] = biStatus[j]
      /\ k \notin biDoubt' => biStatus'[k] = "COMPLETED"
  BY <1>1, <1>2, <1>3, BiSaid
<1>5. BiMove(c, BiIdle)
  BY <1>0, BiEndIs DEF BiComplete
<1>6. k \notin biDoubt' => BiWaitingTold(k)'
  BY <1>4 DEF BiWaitingTold
<1>. QED BY <1>0, <1>1, <1>3, <1>4, <1>5, <1>6, BiLateCalm

(* Calls that make a dashboard from a template are on no installation.     *)
LEMMA BiInstanceCalm ==
    ASSUME BiBase, BiCalmInv, NEW c \in BiCalls, NEW r, BiMove(c, r),
           BiOf(c) \notin BiKeys, r.of \notin BiKeys,
           UNCHANGED <<biStatus, biTemplate, biConfig, biMapping, biBinding, biCleaned>>,
           biDoubt \subseteq biDoubt',
           \A j \in BiKeys, b \in BiPlans : <<j, b>> \in biBoard' <=> <<j, b>> \in biBoard
    PROVE  BiCalmInv'
<1>0. BiTyped
  BY DEF BiBase
<1>1. biCall'[c] = r /\ \A d \in BiCalls : d # c => biCall'[d] = biCall[d]
  BY <1>0, BiMoveIs
<1>2. ASSUME NEW j \in BiKeys
      PROVE  BiWorkers(j)' = BiWorkers(j) /\ \A d \in BiWorkers(j) : biCall'[d] = biCall[d]
  BY <1>1 DEF BiWorkers, BiOf
<1>3. \A j \in BiKeys : BiShownBy(j)' = BiShownBy(j)
  BY DEF BiShownBy
<1>. QED BY <1>2, <1>3, BiApartCalm

(* The call that makes a dashboard records it next.                        *)
LEMMA BiInstantiateCalm ==
    ASSUME BiInv, NEW c \in BiCalls, NEW b \in BiPlans, BiInstantiate(c, b)
    PROVE  BiCalmInv' /\ BiShown'
<1>0. BiBase /\ BiTyped /\ BiCalmInv /\ BiShown
  BY DEF BiInv, BiBase
<1>1. PICK r : BiMove(c, r) /\ r.of = "instance" /\ BiBoards[r.next] = b
  BY <1>0, BiInstantiateIs
<1>2. biCall'[c] = r /\ \A d \in BiCalls : d # c => biCall'[d] = biCall[d]
  BY <1>0, <1>1, BiMoveIs
<1>3. BiOf(c) = ""
  BY <1>0, BiCallIs DEF BiInstantiate, BiAt, BiOf
<1>4. /\ UNCHANGED <<biStatus, biTemplate, biConfig, biMapping, biBinding, biCleaned, biInstance, biDoubt>>
      /\ biBoard' = biBoard \cup {<<c, b>>}
  BY DEF BiInstantiate, biRows
<1>5. BiCalmInv'
  <2>1. r.of \notin BiKeys /\ BiOf(c) \notin BiKeys /\ \A j \in BiKeys : j # c
    BY <1>1, <1>3, BiKeysAre
  <2>. QED BY <1>0, <1>1, <1>4, <2>1, BiInstanceCalm
<1>6. BiShown'
  <2>1. ASSUME "instance" \notin biDoubt, NEW d \in BiCalls, NEW p \in BiPlans, <<d, p>> \in biBoard'
        PROVE  <<d, p>> \in biInstance \/ (biCall'[d].of = "instance" /\ BiBoards[biCall'[d].next] = p)
    <3>1. CASE d = c /\ p = b
      BY <1>1, <1>2, <3>1
    <3>2. CASE ~(d = c /\ p = b)
      <4>1. <<d, p>> \in biBoard
        BY <1>4, <2>1, <3>2
      <4>. QED BY <1>0, <1>2, <1>3, <2>1, <4>1 DEF BiShown, BiOf, BiPlan
    <3>. QED BY <3>1, <3>2
  <2>. QED BY <1>4, <2>1 DEF BiShown, BiOf, BiPlan
<1>. QED BY <1>5, <1>6

(* It is recorded, or is to be deleted again.                              *)
LEMMA BiRecordCalm ==
    ASSUME BiInv, NEW c \in BiCalls, BiRecord(c)
    PROVE  BiCalmInv' /\ BiShown'
<1>0. BiBase /\ BiTyped /\ BiCalmInv /\ BiShown /\ BiAt(c) = "record"
  BY DEF BiInv, BiBase, BiRecord
<1>1. BiOf(c) = "instance"
  BY <1>0, BiCallIs DEF BiPlace, BiShows, BiAt, BiOf
<1>2. UNCHANGED <<biStatus, biTemplate, biConfig, biBoard, biMapping, biBinding, biCleaned, biDoubt>>
  BY DEF BiRecord, biResources, biBounds
<1>3. CASE biInstance' = biInstance \cup {<<c, BiPlan(c)>>} /\ BiEnd(c)
  <2>1. BiMove(c, BiIdle) /\ BiIdle.of = ""
    BY <1>0, <1>3, BiEndIs, BiIdleIs
  <2>2. \A d \in BiCalls : d # c => biCall'[d] = biCall[d]
    BY <1>0, <2>1, BiMoveIs
  <2>3. BiCalmInv'
    BY <1>0, <1>1, <1>2, <2>1, BiKeysAre, BiInstanceCalm
  <2>4. BiShown'
    BY <1>0, <1>2, <1>3, <2>2 DEF BiShown, BiOf, BiPlan
  <2>. QED BY <2>3, <2>4
<1>4. CASE UNCHANGED biInstance /\ BiStep(c, "undo")
  <2>0. "undo" \in BiPlaces
    BY DEF BiPlaces, BiShows
  <2>1. PICK r : BiMove(c, r) /\ r.of = biCall[c].of /\ r.next = biCall[c].next
    BY <1>0, <1>4, <2>0, BiStepIs
  <2>2. biCall'[c] = r /\ \A d \in BiCalls : d # c => biCall'[d] = biCall[d]
    BY <1>0, <2>1, BiMoveIs
  <2>3. BiCalmInv'
    BY <1>0, <1>1, <1>2, <2>1, BiKeysAre, BiInstanceCalm DEF BiOf
  <2>4. BiShown'
    BY <1>0, <1>2, <1>4, <2>1, <2>2 DEF BiShown, BiOf, BiPlan
  <2>. QED BY <2>3, <2>4
<1>. QED BY <1>3, <1>4 DEF BiRecord

(* It is deleted again, or the deletion is lost.                           *)
LEMMA BiUndoCalm ==
    ASSUME BiInv, NEW c \in BiCalls, BiUndo(c)
    PROVE  BiCalmInv' /\ BiShown'
<1>0. BiBase /\ BiTyped /\ BiCalmInv /\ BiShown /\ BiAt(c) = "undo"
  BY DEF BiInv, BiBase, BiUndo
<1>1. BiOf(c) = "instance"
  BY <1>0, BiCallIs DEF BiPlace, BiShows, BiAt, BiOf
<1>2. UNCHANGED <<biStatus, biTemplate, biConfig, biMapping, biBinding, biCleaned, biInstance>>
  BY DEF BiUndo, biRows
<1>3. BiMove(c, BiIdle) /\ BiIdle.of = ""
  BY <1>0, BiEndIs, BiIdleIs DEF BiUndo
<1>4. \A d \in BiCalls : d # c => biCall'[d] = biCall[d]
  BY <1>0, <1>3, BiMoveIs
<1>5. /\ biDoubt \subseteq biDoubt' /\ biBoard' \subseteq biBoard
      /\ "instance" \notin biDoubt' => biBoard' = biBoard \ {<<c, BiPlan(c)>>}
      /\ \A j \in BiKeys, b \in BiPlans : <<j, b>> \in biBoard' <=> <<j, b>> \in biBoard
  BY <1>0, BiLostTyped, BiKeysAre DEF BiUndo, BiNoFault
<1>6. BiCalmInv'
  BY <1>0, <1>1, <1>2, <1>3, <1>5, BiKeysAre, BiInstanceCalm
<1>7. BiShown'
  BY <1>0, <1>2, <1>4, <1>5 DEF BiShown, BiOf, BiPlan
<1>. QED BY <1>6, <1>7

(* Devices, and a restart: the calls are gone, and so is what they knew,   *)
(* but then nothing is said of their installations any more.               *)
LEMMA BiDeviceCalm ==
    ASSUME BiInv, BiDeviceAdded \/ BiDeviceDeleted
    PROVE  BiCalmInv' /\ BiShown'
<1>0. BiBase /\ BiCalmInv /\ BiShown
  BY DEF BiInv
<1>1. /\ UNCHANGED <<biStatus, biTemplate, biBoard, biMapping, biBinding, biInstance, biCall, biCleaned, biDoubt>>
      /\ biConfig \subseteq biConfig'
  BY DEF BiDeviceAdded, BiDeviceDeleted, biRows, biBounds, biResources
<1>2. \A j \in BiKeys : /\ BiShownBy(j)' = BiShownBy(j) /\ BiWorkers(j)' = BiWorkers(j)
                        /\ \A d \in BiWorkers(j) : biCall'[d] = biCall[d]
  BY <1>1 DEF BiShownBy, BiWorkers, BiOf
<1>3. BiCalmInv'
  BY <1>0, <1>1, <1>2, BiApartCalm
<1>4. BiShown'
  BY <1>0, <1>1 DEF BiShown, BiOf, BiPlan
<1>. QED BY <1>3, <1>4

(* A call that is gone leaves its installation in doubt.                   *)
LEMMA BiRestartCalm ==
    ASSUME BiInv, BiRestart
    PROVE  BiCalmInv' /\ BiShown'
<1>0. BiBase /\ BiTyped /\ BiCalmInv /\ BiShown
  BY DEF BiInv, BiBase
<1>1. UNCHANGED <<biStatus, biTemplate, biConfig, biBoard, biMapping, biBinding, biInstance, biCleaned>>
  BY DEF BiRestart, biRows, biResources
<1>2. /\ biDoubt \subseteq biDoubt' /\ \A d \in BiCalls : biCall'[d] = BiIdle
      /\ \A d \in BiCalls : BiAt(d) # "idle" => BiOf(d) \in biDoubt'
  BY DEF BiRestart
<1>3. ASSUME NEW j \in BiKeys \cup {"instance"}, j \notin biDoubt'
      PROVE  \A d \in BiCalls : BiOf(d) # j /\ biCall'[d].of # j
  <2>1. j # ""
    BY <1>3, BiKeysAre
  <2>. QED BY <1>0, <1>2, <1>3, <2>1, BiCallIs, BiIdleIs DEF BiAt, BiOf
<1>4. ASSUME NEW j \in BiKeys \ biDoubt'
      PROVE  BiWorkers(j)' = BiWorkers(j) /\ \A d \in BiWorkers(j) : biCall'[d] = biCall[d]
  BY <1>3, <1>4 DEF BiWorkers, BiOf
<1>5. \A j \in BiKeys : BiShownBy(j)' = BiShownBy(j)
  BY <1>1 DEF BiShownBy
<1>6. BiCalmInv'
  BY <1>0, <1>1, <1>2, <1>4, <1>5, BiApartCalm
<1>7. BiShown'
  <2>1. ASSUME "instance" \notin biDoubt', NEW d \in BiCalls, NEW b \in BiPlans, <<d, b>> \in biBoard
        PROVE  <<d, b>> \in biInstance
    BY <1>0, <1>2, <1>3, <2>1 DEF BiShown
  <2>. QED BY <1>1, <2>1 DEF BiShown
<1>. QED BY <1>6, <1>7

(* At the start nothing is installed.                                      *)
LEMMA BiInitInv ==
    ASSUME BiInit
    PROVE  BiInv
<1>0. BiBase
  BY BiInitBase
<1>1. \A d \in BiCalls : biCall[d] = BiIdle
  BY DEF BiInit
<1>2. ASSUME NEW k \in BiKeys
      PROVE  BiKeyInv(k)
  <2>1. BiWorkers(k) = {}
    BY <1>1, BiIdleIs, BiKeysAre DEF BiWorkers, BiOf
  <2>2. BiRowsOf(k) = {} /\ BiMadeBy(k) = {} /\ BiShownBy(k) = {} /\ biStatus[k] = "none"
    BY DEF BiInit, BiRowsOf, BiMadeBy, BiShownBy
  <2>3. BiAlone(k) /\ BiTracked(k) /\ BiFailedTold(k) /\ BiWaitingTold(k)
    BY <2>1, <2>2 DEF BiAlone, BiTracked, BiFailedTold, BiWaitingTold
  <2>4. BiPresent(k) /\ BiRests(k) /\ BiNoneYet(k)
    BY <2>1, <2>2 DEF BiPresent, BiRests, BiNoneYet
  <2>. QED BY <2>1, <2>3, <2>4 DEF BiKeyInv, BiTells
<1>3. BiShown
  BY DEF BiInit, BiShown
<1>. QED BY <1>0, <1>2, <1>3 DEF BiInv, BiCalmInv

(* Every step keeps the invariant.                                         *)
LEMMA BiNextInv ==
    ASSUME BiOrderly, BiInv, [BiNext]_biVars
    PROVE  BiInv'
<1>0. BiBase'
  BY BiNextBase DEF BiInv
<1>. SUFFICES BiCalmInv' /\ BiShown'
  BY <1>0 DEF BiInv
<1>1. ASSUME NEW c \in BiCalls, BiProgress(c)
      PROVE  BiCalmInv' /\ BiShown'
  BY <1>0, <1>1, BiFetchCalm, BiLookCalm, BiCreateCalm, BiMapTemplateCalm, BiTemplatesDoneCalm,
     BiConfigureCalm, BiConfigsDoneCalm, BiSaveCalm, BiDownloadedCalm, BiResolveCalm, BiImportCalm,
     BiMapBoardCalm, BiBindBoardCalm, BiBoardsDoneCalm, BiProcessCalm, BiInstalledCalm, BiBreakCalm,
     BiFailCalm, BiCheckCalm, BiFlagCalm, BiRetryCalm, BiListCalm, BiCleanCalm, BiUnmapCalm,
     BiCompensatedCalm, BiRebindCalm, BiCountCalm, BiCompleteCalm, BiRecordCalm, BiUndoCalm
     DEF BiProgress
<1>2. ASSUME NEW c \in BiCalls, NEW k \in BiKeys,
             BiInstall(c, k) \/ BiDownload(c, k) \/ BiRepair(c, k) \/ BiUpdateBinding(c, k)
      PROVE  BiCalmInv' /\ BiShown'
  BY <1>0, <1>2, BiInstallCalm, BiDownloadCalm, BiRepairCalm, BiUpdateBindingCalm
<1>3. ASSUME NEW c \in BiCalls, NEW b \in BiPlans, BiInstantiate(c, b)
      PROVE  BiCalmInv' /\ BiShown'
  BY <1>3, BiInstantiateCalm
<1>4. CASE BiDeviceAdded \/ BiDeviceDeleted \/ BiRestart
  BY <1>4, BiDeviceCalm, BiRestartCalm
<1>5. CASE UNCHANGED biVars
  <2>1. UNCHANGED <<biStatus, biTemplate, biConfig, biBoard, biMapping, biBinding,
                    biInstance, biCall, biCleaned, biDoubt>>
    BY <1>5 DEF biVars, biResources, biRows, biBounds
  <2>2. \A j \in BiKeys : /\ BiShownBy(j)' = BiShownBy(j) /\ BiWorkers(j)' = BiWorkers(j)
                          /\ \A d \in BiWorkers(j) : biCall'[d] = biCall[d]
    BY <2>1 DEF BiShownBy, BiWorkers, BiOf
  <2>3. BiCalmInv'
    BY <2>1, <2>2, BiApartCalm DEF BiInv
  <2>4. BiShown'
    BY <2>1 DEF BiInv, BiShown, BiOf, BiPlan
  <2>. QED BY <2>3, <2>4
<1>. QED BY <1>1, <1>2, <1>3, <1>4, <1>5 DEF BiNext

(* What the invariant says of the records.                                 *)
LEMMA BiInvMeans ==
    ASSUME BiInv
    PROVE  BiRecordsAreTrue
<1>0. BiBase /\ BiTyped /\ BiCalmInv /\ BiShown
  BY DEF BiInv, BiBase
<1>1. ASSUME NEW k \in BiKeys, ~BiBusy(k)
      PROVE  BiWorkers(k) = {}
  BY <1>0, <1>1, BiCallIs, BiKeysAre DEF BiBusy, BiWorkers, BiOf, BiAt
<1>2. BiNothingLeftBehind
  <2>1. ASSUME NEW k \in BiKeys \ biDoubt, biStatus[k] = "FAILED", ~BiBusy(k)
        PROVE  /\ \A t \in biTemplate : t.by = k => t.id \in biConfig
               /\ \A b \in BiPlans : <<k, b>> \notin biBoard
    <3>1. BiKeyInv(k) /\ BiWorkers(k) = {}
      BY <1>0, <1>1, <2>1 DEF BiCalmInv
    <3>2. BiClear(k)
      BY <2>1, <3>1 DEF BiKeyInv, BiTells, BiFailedTold
    <3>. QED BY <3>2 DEF BiClear, BiMadeBy, BiShownBy
  <2>2. \A c \in BiCalls, b \in BiPlans :
          <<c, b>> \in biBoard /\ "instance" \notin biDoubt =>
             <<c, b>> \in biInstance \/ (BiOf(c) = "instance" /\ BiPlan(c) = b)
    BY <1>0 DEF BiShown
  <2>. QED BY <2>1, <2>2 DEF BiNothingLeftBehind
<1>3. BiWaitsForBinding
  <2>1. ASSUME NEW k \in BiInstalls \ biDoubt, biStatus[k] = "WAITING_FOR_BINDINGS", ~BiBusy(k)
        PROVE  \E b \in BiRequired : biBinding[k][b] = "failed"
    <3>1. BiKeyInv(k) /\ BiWorkers(k) = {}
      BY <1>0, <1>1, <2>1, BiKeysAre DEF BiCalmInv
    <3>. QED BY <2>1, <3>1 DEF BiKeyInv, BiTells, BiWaitingTold
  <2>. QED BY <2>1 DEF BiWaitsForBinding
<1>. QED BY <1>0, <1>2, <1>3, BiBaseMeans DEF BiRecordsAreTrue, BiStatusIsTrue

(* Whatever the calls do, fail at or lose, and whenever the server         *)
(* restarts: the rows have their kinds, names and keys are unique, and no  *)
(* local dashboard template refers to a device template that is gone.      *)
THEOREM BundleTypeCorrect == BiSpec => [](BiTypeOK /\ BiTemplatesKept)
<1>1. BiBase => BiTypeOK /\ BiTemplatesKept
  BY BiBaseMeans
<1>. QED BY <1>1, BundleBase, PTL

(* When one call at a time works on an installation: what is FAILED left   *)
(* nothing behind, what waits has a binding to wait for, every dashboard   *)
(* that was made is recorded, unless a write was lost.                     *)
THEOREM BundleRecordsTrue == BiOrderly => (BiSpec => []BiRecordsAreTrue)
<1>. SUFFICES ASSUME BiOrderly
              PROVE  BiSpec => []BiRecordsAreTrue
  OBVIOUS
<1>1. BiInit => BiInv
  BY BiInitInv
<1>2. BiInv /\ [BiNext]_biVars => BiInv'
  BY BiNextInv
<1>3. BiInv => BiRecordsAreTrue
  BY BiInvMeans
<1>. QED BY <1>1, <1>2, <1>3, PTL DEF BiSpec
=============================================================================
