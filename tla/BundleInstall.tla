--------------------------- MODULE BundleInstall ---------------------------
(***************************************************************************)
(* Bundles of the market: device templates and dashboards that need them.  *)
(* An installation creates both, the dashboards in ThingsVis by HTTP; a    *)
(* download creates the device templates, a configuration for each, and    *)
(* keeps the dashboards as local templates, from which dashboards are made *)
(* later.  No transaction spans the steps: each resource is followed by a  *)
(* row that maps it to its installation, so that a failed installation can *)
(* be cleaned up (compensated).  Calls run at the same time.               *)
(***************************************************************************)
EXTENDS Integers, Sequences, FiniteSets

CONSTANTS
    BiTemplates,    \* the names of the device templates of the bundle, in order
    BiBoards,       \* its dashboards, in order
    BiNeeds,        \* the template that the device of each dashboard must have
    BiRequired,     \* dashboards whose binding is marked as required
    BiInstalls,     \* idempotency keys of installations
    BiDownloads,    \* the key of the download of the bundle
    BiCalls,        \* calls of the API that may run at the same time
    BiUpgrade,      \* is the policy for existing templates "upgrade"?
    BiMayRepeat,    \* may a download be repeated after it was compensated?
    BiMayOverlap,   \* may two calls work on one installation?
    BiMaxCalls,     \* bound: calls
    BiMaxTemplates, \* bound: device templates created
    BiMaxFaults     \* bound: writes whose failure is ignored, and restarts

BiNames == {BiTemplates[i] : i \in 1..Len(BiTemplates)}
BiPlans == {BiBoards[i] : i \in 1..Len(BiBoards)}
BiKeys  == BiInstalls \cup BiDownloads

ASSUME BiAssumption ==
    /\ BiNames \cap BiPlans = {} /\ BiNeeds \in [BiPlans -> BiNames]
    /\ BiRequired \subseteq BiPlans
    /\ BiInstalls \cap BiDownloads = {} /\ "instance" \notin BiKeys
    /\ Cardinality(BiDownloads) <= 1
    /\ {BiUpgrade, BiMayRepeat, BiMayOverlap} \subseteq BOOLEAN
    /\ {BiMaxCalls, BiMaxTemplates, BiMaxFaults} \subseteq Nat

(* The bundle lists its parts, and no call is named like an installation.  *)
ASSUME BiListsAssumption ==
    /\ BiTemplates \in Seq(BiNames) /\ BiBoards \in Seq(BiPlans)
    /\ BiCalls \cap BiKeys = {} /\ "" \notin BiKeys

VARIABLES
    biStatus,    \* status of each installation
    biTemplate,  \* the device templates: id, name, the installation that made it
    biConfig,    \* templates that a device configuration refers to
    biDevice,    \* the template of the device that is offered, 0 without a device
    biBoard,     \* dashboards in ThingsVis: of an installation, or of a call
    biMapping,   \* rows that map a resource to its installation; the active ones
    biBinding,   \* device bindings of each installation
    biSaved,     \* the local dashboard templates: the device template each needs
    biInstance,  \* rows of dashboards made from local templates
    biCall,      \* what each call does
    biCleaned,   \* installations that were compensated (history)
    biDoubt,     \* installations of which a write was lost (history)
    biIds, biCalls, biFaults

biResources == <<biTemplate, biIds, biConfig, biBoard>>
biRows      == <<biMapping, biBinding, biSaved, biInstance>>
biBounds    == <<biCalls, biFaults, biDoubt>>
biVars      == <<biStatus, biResources, biDevice, biRows, biCall, biCleaned, biBounds>>

BiNoMap == [of |-> "", key |-> "", id |-> 0, active |-> FALSE]
BiIdle  == [at |-> "idle", of |-> "", next |-> 1, todo |-> {}, row |-> BiNoMap, waits |-> FALSE,
            id |-> [n \in BiNames |-> 0]]

BiInit ==
    /\ biStatus = [k \in BiKeys |-> "none"]
    /\ biTemplate = {} /\ biIds = 0 /\ biConfig = {} /\ biDevice = 0
    /\ biBoard = {} /\ biMapping = {} /\ biInstance = {}
    /\ biBinding = [k \in BiInstalls |-> [b \in BiPlans |-> "none"]]
    /\ biSaved = [b \in BiPlans |-> 0]
    /\ biCall = [c \in BiCalls |-> BiIdle]
    /\ biCleaned = {} /\ biDoubt = {} /\ biCalls = 0 /\ biFaults = 0

BiAt(c)          == biCall[c].at
BiOf(c)          == biCall[c].of
BiStep(c, place) == biCall' = [biCall EXCEPT ![c].at = place]
BiTurn(c, place) == biCall' = [biCall EXCEPT ![c].at = place, ![c].next = 1]
BiEnd(c)         == biCall' = [biCall EXCEPT ![c] = BiIdle]
BiName(c)        == BiTemplates[biCall[c].next]
BiPlan(c)        == BiBoards[biCall[c].next]
BiBusy(k)        == \E c \in BiCalls : BiAt(c) # "idle" /\ BiOf(c) = k
BiExists(id)     == \E t \in biTemplate : t.id = id
BiActive(k)      == {m \in biMapping : m.of = k /\ m.active}

(* A write that succeeds, or fails and is only logged.                     *)
BiLost(k)    == biFaults < BiMaxFaults /\ biFaults' = biFaults + 1 /\ biDoubt' = biDoubt \cup {k}
BiNoFault    == UNCHANGED <<biFaults, biDoubt>>
BiSay(c, status) ==
    \/ biStatus' = [biStatus EXCEPT ![BiOf(c)] = status] /\ BiNoFault
    \/ BiLost(BiOf(c)) /\ UNCHANGED biStatus

BiBegin(c, k, place) ==
    /\ BiAt(c) = "idle" /\ (BiMayOverlap \/ ~BiBusy(k))
    /\ biCalls < BiMaxCalls /\ biCalls' = biCalls + 1
    /\ biCall' = [biCall EXCEPT ![c] = [BiIdle EXCEPT !.at = place, !.of = k]]

-----------------------------------------------------------------------------
(* InstallBundle: a key that is known answers with what there is.          *)
BiInstall(c, k) ==
    /\ k \in BiInstalls /\ biStatus[k] = "none"
    /\ BiBegin(c, k, "fetch")
    /\ biStatus' = [biStatus EXCEPT ![k] = "DOWNLOADING"]
    /\ UNCHANGED <<biResources, biDevice, biRows, biCleaned, biFaults, biDoubt>>

(* Download: the installation of a known key is used again.                *)
BiDownload(c, k) ==
    /\ k \in BiDownloads /\ (BiMayRepeat \/ k \notin biCleaned)
    /\ BiBegin(c, k, "fetch")
    /\ \/ biStatus' = [biStatus EXCEPT ![k] = "DOWNLOADING"] /\ BiNoFault
       \/ biStatus[k] # "none" /\ BiLost(k) /\ UNCHANGED biStatus
    /\ UNCHANGED <<biResources, biDevice, biRows, biCleaned>>

(* The bundle is fetched, then verified.                                   *)
BiFetch(c) ==
    /\ \/ BiAt(c) = "fetch" /\ BiSay(c, "DOWNLOADED") /\ BiStep(c, "verify")
       \/ BiAt(c) = "verify" /\ BiSay(c, "VERIFIED") /\ BiStep(c, "look")
    /\ UNCHANGED <<biResources, biDevice, biRows, biCleaned, biCalls>>

(* installDeviceTemplates: a template of that name is taken as it is.      *)
BiLook(c) ==
    /\ BiAt(c) = "look" /\ biCall[c].next <= Len(BiTemplates)
    /\ LET same == {t \in biTemplate : t.name = BiName(c)}
           new  == same = {} \/ (BiUpgrade /\ BiOf(c) \in BiInstalls)
       IN  \/ new /\ BiStep(c, "create")
           \/ /\ ~new
              /\ \E t \in same :
                   biCall' = [biCall EXCEPT ![c].id[BiName(c)] = t.id, ![c].next = @ + 1]
    /\ UNCHANGED <<biStatus, biResources, biDevice, biRows, biCleaned, biBounds>>

(* createDeviceTemplate, with its model, in one transaction.               *)
BiCreate(c) ==
    /\ BiAt(c) = "create" /\ biIds < BiMaxTemplates
    /\ biIds' = biIds + 1
    /\ biTemplate' = biTemplate \cup {[id |-> biIds', name |-> BiName(c), by |-> BiOf(c)]}
    /\ biCall' = [biCall EXCEPT ![c].at = "map", ![c].id[BiName(c)] = biIds']
    /\ UNCHANGED <<biStatus, biConfig, biBoard, biDevice, biRows, biCleaned, biBounds>>

(* CreateResourceMapping: the key is unique for an installation, and an    *)
(* error is ignored.                                                       *)
BiMap(c, key, id) ==
    LET of == BiOf(c)
    IN  \/ /\ ~\E m \in biMapping : m.of = of /\ m.key = key
           /\ biMapping' = biMapping \cup {[of |-> of, key |-> key, id |-> id, active |-> TRUE]}
           /\ BiNoFault
        \/ (\E m \in biMapping : m.of = of /\ m.key = key) /\ UNCHANGED biMapping /\ BiNoFault
        \/ BiLost(of) /\ UNCHANGED biMapping

BiMapTemplate(c) ==
    /\ BiAt(c) = "map"
    /\ BiMap(c, BiName(c), biCall[c].id[BiName(c)])
    /\ biCall' = [biCall EXCEPT ![c].at = "look", ![c].next = @ + 1]
    /\ UNCHANGED <<biStatus, biResources, biDevice, biBinding, biSaved, biInstance, biCleaned, biCalls>>

BiTemplatesDone(c) ==
    /\ BiAt(c) = "look" /\ biCall[c].next > Len(BiTemplates)
    /\ \/ BiOf(c) \in BiInstalls /\ BiSay(c, "MODELS_INSTALLED") /\ BiTurn(c, "resolve")
       \/ BiOf(c) \in BiDownloads /\ BiTurn(c, "config") /\ BiNoFault /\ UNCHANGED biStatus
    /\ UNCHANGED <<biResources, biDevice, biRows, biCleaned, biCalls>>

-----------------------------------------------------------------------------
(* Mutant: only templates that this download has made get a configuration. *)
BiConfigureNew(c) ==
    /\ BiAt(c) = "config" /\ biCall[c].next <= Len(BiTemplates)
    /\ biConfig' = biConfig \cup
           {t.id : t \in {t \in biTemplate : t.id = biCall[c].id[BiName(c)] /\ t.by = BiOf(c)}}
    /\ biCall' = [biCall EXCEPT ![c].next = @ + 1]
    /\ UNCHANGED <<biStatus, biTemplate, biIds, biBoard, biDevice, biRows, biCleaned, biBounds>>

(* Download goes on: ensureDeviceTemplateConfigs.  A configuration refers  *)
(* to its template by a foreign key.                                       *)
BiConfigure(c) ==
    /\ BiAt(c) = "config" /\ biCall[c].next <= Len(BiTemplates)
    /\ LET id == biCall[c].id[BiName(c)]
       IN  /\ BiExists(id)
           /\ biConfig' = biConfig \cup {id}
    /\ biCall' = [biCall EXCEPT ![c].next = @ + 1]
    /\ UNCHANGED <<biStatus, biTemplate, biIds, biBoard, biDevice, biRows, biCleaned, biBounds>>

BiConfigsDone(c) ==
    /\ BiAt(c) = "config" /\ biCall[c].next > Len(BiTemplates)
    /\ BiSay(c, "MODELS_INSTALLED") /\ BiTurn(c, "save")
    /\ UNCHANGED <<biResources, biDevice, biRows, biCleaned, biCalls>>

(* saveDashboardTemplates: one that exists is used again, also when it has *)
(* come since the lookup.                                                  *)
BiSave(c) ==
    /\ BiAt(c) = "save" /\ biCall[c].next <= Len(BiBoards)
    /\ biSaved' = [biSaved EXCEPT ![BiPlan(c)] = IF @ = 0 THEN biCall[c].id[BiNeeds[BiPlan(c)]] ELSE @]
    /\ biCall' = [biCall EXCEPT ![c].next = @ + 1]
    /\ UNCHANGED <<biStatus, biResources, biDevice, biMapping, biBinding, biInstance, biCleaned, biBounds>>

BiDownloaded(c) ==
    /\ BiAt(c) = "save" /\ biCall[c].next > Len(BiBoards)
    /\ BiSay(c, "COMPLETED") /\ BiEnd(c)
    /\ UNCHANGED <<biResources, biDevice, biRows, biCleaned, biCalls>>

-----------------------------------------------------------------------------
(* InstallBundle goes on: resolveDeviceBindings.  The device that is       *)
(* offered must have the template of each dashboard.                       *)
BiResolve(c) ==
    /\ BiAt(c) = "resolve"
    /\ \A b \in BiPlans : biDevice # 0 /\ biDevice = biCall[c].id[BiNeeds[b]]
    /\ BiTurn(c, "import")
    /\ UNCHANGED <<biStatus, biResources, biDevice, biRows, biCleaned, biBounds>>

(* createDashboards: ThingsVis imports one, its mapping and its binding are*)
(* inserted.  The answer of ThingsVis may not come although it has done so.*)
BiImport(c) ==
    /\ BiAt(c) = "import" /\ biCall[c].next <= Len(BiBoards)
    /\ biBoard' = biBoard \cup {<<BiOf(c), BiPlan(c)>>}
    /\ \/ BiStep(c, "mapboard") /\ BiNoFault
       \/ BiLost(BiOf(c)) /\ BiStep(c, "fail")
    /\ UNCHANGED <<biStatus, biTemplate, biIds, biConfig, biDevice, biRows, biCleaned, biCalls>>

BiMapBoard(c) ==
    /\ BiAt(c) = "mapboard"
    /\ BiMap(c, BiPlan(c), 0)
    /\ BiStep(c, "bindboard")
    /\ UNCHANGED <<biStatus, biResources, biDevice, biBinding, biSaved, biInstance, biCleaned, biCalls>>

BiBindBoard(c) ==
    /\ BiAt(c) = "bindboard"
    /\ \/ biBinding' = [biBinding EXCEPT ![BiOf(c)][BiPlan(c)] = "bound"] /\ BiNoFault
       \/ BiLost(BiOf(c)) /\ UNCHANGED biBinding
    /\ biCall' = [biCall EXCEPT ![c].at = "import", ![c].next = @ + 1]
    /\ UNCHANGED <<biStatus, biResources, biDevice, biMapping, biSaved, biInstance, biCleaned, biCalls>>

BiBoardsDone(c) ==
    /\ BiAt(c) = "import" /\ biCall[c].next > Len(BiBoards)
    /\ BiSay(c, "DASHBOARDS_CREATED") /\ BiTurn(c, "bind")
    /\ UNCHANGED <<biResources, biDevice, biRows, biCleaned, biCalls>>

(* processDeviceBindings reads the device again and updates the row, if    *)
(* there is one.                                                           *)
BiProcess(c) ==
    /\ BiAt(c) = "bind" /\ biCall[c].next <= Len(BiBoards)
    /\ LET gone == biDevice = 0
       IN  /\ biBinding' = [biBinding EXCEPT ![BiOf(c)][BiPlan(c)] =
                  IF @ = "none" THEN @ ELSE IF gone THEN "failed" ELSE "bound"]
           /\ biCall' = [biCall EXCEPT ![c].next = @ + 1,
                  ![c].waits = @ \/ (gone /\ BiPlan(c) \in BiRequired)]
    /\ UNCHANGED <<biStatus, biResources, biDevice, biMapping, biSaved, biInstance, biCleaned, biBounds>>

BiInstalled(c) ==
    /\ BiAt(c) = "bind" /\ biCall[c].next > Len(BiBoards)
    /\ BiSay(c, IF biCall[c].waits THEN "WAITING_FOR_BINDINGS" ELSE "COMPLETED") /\ BiEnd(c)
    /\ UNCHANGED <<biResources, biDevice, biRows, biCleaned, biCalls>>

-----------------------------------------------------------------------------
(* failInstallation: whatever fails before the bindings are processed, the *)
(* status is FAILED, and COMPENSATION_REQUIRED if a resource is mapped.    *)
BiBreak(c) ==
    /\ BiAt(c) \in {"fetch", "verify", "create", "config", "save", "resolve", "import"}
    /\ BiStep(c, "fail")
    /\ UNCHANGED <<biStatus, biResources, biDevice, biRows, biCleaned, biBounds>>

BiFail(c) ==
    /\ BiAt(c) = "fail"
    /\ BiSay(c, "FAILED") /\ BiStep(c, "check")
    /\ UNCHANGED <<biResources, biDevice, biRows, biCleaned, biCalls>>

BiCheck(c) ==
    /\ BiAt(c) = "check"
    /\ \/ (IF BiActive(BiOf(c)) = {} THEN BiEnd(c) ELSE BiStep(c, "flag")) /\ BiNoFault
       \/ BiLost(BiOf(c)) /\ BiEnd(c)
    /\ UNCHANGED <<biStatus, biResources, biDevice, biRows, biCleaned, biCalls>>

BiFlag(c) ==
    /\ BiAt(c) = "flag"
    /\ BiSay(c, "COMPENSATION_REQUIRED") /\ BiEnd(c)
    /\ UNCHANGED <<biResources, biDevice, biRows, biCleaned, biCalls>>

(* CompensateInstallation and RetryInstallation ask for the status, and    *)
(* write it later; a retry does nothing else.                              *)
BiRepair(c, k) ==
    /\ biStatus[k] \in {"FAILED", "COMPENSATION_REQUIRED"}
    /\ \E place \in {"list", "retry"} : BiBegin(c, k, place)
    /\ UNCHANGED <<biStatus, biResources, biDevice, biRows, biCleaned, biFaults, biDoubt>>

BiRetry(c) ==
    /\ BiAt(c) = "retry"
    /\ BiSay(c, "DOWNLOADING") /\ BiEnd(c)
    /\ UNCHANGED <<biResources, biDevice, biRows, biCleaned, biCalls>>

BiList(c) ==
    /\ BiAt(c) = "list"
    /\ \/ biCall' = [biCall EXCEPT ![c].at = "clean", ![c].todo = BiActive(BiOf(c))]
       \/ BiEnd(c)
    /\ UNCHANGED <<biStatus, biResources, biDevice, biRows, biCleaned, biBounds>>

(* The next resource, dashboards first: it is deleted, or that fails and   *)
(* the loop goes on.  A template with a configuration cannot be deleted.   *)
BiClean(c) ==
    /\ BiAt(c) = "clean"
    /\ \E m \in biCall[c].todo :
         /\ m.key \in BiNames => \A n \in biCall[c].todo : n.key \in BiNames
         /\ \/ /\ m.id \notin biConfig
               /\ biTemplate' = {t \in biTemplate : t.id # m.id}
               /\ biBoard' = biBoard \ {<<m.of, m.key>>}
               /\ biCall' = [biCall EXCEPT ![c].at = "unmap", ![c].row = m, ![c].todo = @ \ {m}]
               /\ BiNoFault
            \/ /\ \/ m.id \in biConfig /\ BiNoFault
                  \/ m.id \notin biConfig /\ BiLost(BiOf(c))
               /\ biCall' = [biCall EXCEPT ![c].todo = @ \ {m}]
               /\ UNCHANGED <<biTemplate, biBoard>>
    /\ UNCHANGED <<biStatus, biIds, biConfig, biDevice, biRows, biCleaned, biCalls>>

BiUnmap(c) ==
    /\ BiAt(c) = "unmap"
    /\ \/ /\ biMapping' = (biMapping \ {biCall[c].row})
                  \cup {[biCall[c].row EXCEPT !.active = FALSE]}
          /\ BiNoFault
       \/ BiLost(BiOf(c)) /\ UNCHANGED biMapping
    /\ biCall' = [biCall EXCEPT ![c].at = "clean", ![c].row = BiNoMap]
    /\ UNCHANGED <<biStatus, biResources, biDevice, biBinding, biSaved, biInstance, biCleaned, biCalls>>

BiCompensated(c) ==
    /\ BiAt(c) = "clean" /\ biCall[c].todo = {}
    /\ BiSay(c, "FAILED") /\ BiEnd(c)
    /\ biCleaned' = biCleaned \cup {BiOf(c)}
    /\ UNCHANGED <<biResources, biDevice, biRows, biCalls>>

-----------------------------------------------------------------------------
(* Mutant: the bindings are counted before the new one is written.         *)
BiRebindLast(c) ==
    /\ BiAt(c) \in {"rebind", "count"}
    /\ biBinding[BiOf(c)][BiPlan(c)] # "none"
    /\ IF BiAt(c) = "count"
       THEN biBinding' = [biBinding EXCEPT ![BiOf(c)][BiPlan(c)] = "bound"] /\ BiEnd(c)
       ELSE /\ UNCHANGED biBinding
            /\ BiStep(c, IF \E b \in BiRequired : biBinding[BiOf(c)][b] = "failed"
                         THEN "count" ELSE "complete")
    /\ UNCHANGED <<biStatus, biResources, biDevice, biMapping, biSaved, biInstance, biCleaned, biBounds>>

(* UpdateDeviceBinding: asks for the status and for the device, writes the *)
(* row, and completes the installation when no required one is left.       *)
BiUpdateBinding(c, k) ==
    /\ k \in BiInstalls /\ biStatus[k] = "WAITING_FOR_BINDINGS" /\ biDevice # 0
    /\ BiAt(c) = "idle" /\ biCalls < BiMaxCalls /\ biCalls' = biCalls + 1
    /\ \E i \in 1..Len(BiBoards) :
         biCall' = [biCall EXCEPT ![c] = [BiIdle EXCEPT !.at = "rebind", !.of = k, !.next = i]]
    /\ UNCHANGED <<biStatus, biResources, biDevice, biRows, biCleaned, biFaults, biDoubt>>

BiRebind(c) ==
    /\ BiAt(c) = "rebind"
    /\ \/ /\ biBinding[BiOf(c)][BiPlan(c)] # "none"
          /\ biBinding' = [biBinding EXCEPT ![BiOf(c)][BiPlan(c)] = "bound"]
          /\ BiStep(c, "count") /\ BiNoFault
       \/ /\ \/ biBinding[BiOf(c)][BiPlan(c)] = "none" /\ BiNoFault
             \/ BiLost(BiOf(c))
          /\ BiEnd(c) /\ UNCHANGED biBinding
    /\ UNCHANGED <<biStatus, biResources, biDevice, biMapping, biSaved, biInstance, biCleaned, biCalls>>

BiCount(c) ==
    /\ BiAt(c) = "count"
    /\ \/ /\ IF \E b \in BiRequired : biBinding[BiOf(c)][b] = "failed"
             THEN BiEnd(c) ELSE BiStep(c, "complete")
          /\ BiNoFault
       \/ BiLost(BiOf(c)) /\ BiEnd(c)
    /\ UNCHANGED <<biStatus, biResources, biDevice, biRows, biCleaned, biCalls>>

BiComplete(c) ==
    /\ BiAt(c) = "complete"
    /\ BiSay(c, "COMPLETED") /\ BiEnd(c)
    /\ UNCHANGED <<biResources, biDevice, biRows, biCleaned, biCalls>>

-----------------------------------------------------------------------------
(* CreateInstance makes a dashboard from a local template for a device that*)
(* fits, and records it; it is deleted again when that fails.              *)
BiInstantiate(c, b) ==
    /\ biSaved[b] # 0 /\ biDevice = biSaved[b] /\ <<c, b>> \notin biBoard
    /\ BiAt(c) = "idle" /\ biCalls < BiMaxCalls /\ biCalls' = biCalls + 1
    /\ biBoard' = biBoard \cup {<<c, b>>}
    /\ \E i \in {i \in 1..Len(BiBoards) : BiBoards[i] = b} :
         biCall' = [biCall EXCEPT ![c] = [BiIdle EXCEPT !.at = "record", !.of = "instance", !.next = i]]
    /\ UNCHANGED <<biStatus, biTemplate, biIds, biConfig, biDevice, biRows, biCleaned, biFaults, biDoubt>>

BiRecord(c) ==
    /\ BiAt(c) = "record"
    /\ \/ biInstance' = biInstance \cup {<<c, BiPlan(c)>>} /\ BiEnd(c)
       \/ UNCHANGED biInstance /\ BiStep(c, "undo")
    /\ UNCHANGED <<biStatus, biResources, biDevice, biMapping, biBinding, biSaved, biCleaned, biBounds>>

BiUndo(c) ==
    /\ BiAt(c) = "undo"
    /\ \/ biBoard' = biBoard \ {<<c, BiPlan(c)>>} /\ BiNoFault
       \/ BiLost("instance") /\ UNCHANGED biBoard
    /\ BiEnd(c)
    /\ UNCHANGED <<biStatus, biTemplate, biIds, biConfig, biDevice, biRows, biCleaned, biCalls>>

-----------------------------------------------------------------------------
(* A user adds a device whose configuration has one of the templates, or   *)
(* deletes it; the configuration stays.                                    *)
BiDeviceAdded ==
    /\ biDevice = 0
    /\ \E t \in biTemplate : biDevice' = t.id /\ biConfig' = biConfig \cup {t.id}
    /\ UNCHANGED <<biStatus, biTemplate, biIds, biBoard, biRows, biCall, biCleaned, biBounds>>

BiDeviceDeleted ==
    /\ biDevice # 0 /\ biDevice' = 0
    /\ UNCHANGED <<biStatus, biResources, biRows, biCall, biCleaned, biBounds>>

(* The server restarts: the calls are gone.                                *)
BiRestart ==
    /\ biFaults < BiMaxFaults /\ biFaults' = biFaults + 1
    /\ biDoubt' = biDoubt \cup {BiOf(c) : c \in {c \in BiCalls : BiAt(c) # "idle"}}
    /\ biCall' = [c \in BiCalls |-> BiIdle]
    /\ UNCHANGED <<biStatus, biResources, biDevice, biRows, biCleaned, biCalls>>

BiProgress(c) ==
    \/ BiFetch(c) \/ BiLook(c) \/ BiCreate(c) \/ BiMapTemplate(c) \/ BiTemplatesDone(c)
    \/ BiConfigure(c) \/ BiConfigsDone(c) \/ BiSave(c) \/ BiDownloaded(c)
    \/ BiResolve(c) \/ BiImport(c) \/ BiMapBoard(c) \/ BiBindBoard(c) \/ BiBoardsDone(c)
    \/ BiProcess(c) \/ BiInstalled(c)
    \/ BiBreak(c) \/ BiFail(c) \/ BiCheck(c) \/ BiFlag(c)
    \/ BiRetry(c) \/ BiList(c) \/ BiClean(c) \/ BiUnmap(c) \/ BiCompensated(c)
    \/ BiRebind(c) \/ BiCount(c) \/ BiComplete(c)
    \/ BiRecord(c) \/ BiUndo(c)

BiNext ==
    \/ \E c \in BiCalls : BiProgress(c)
    \/ \E c \in BiCalls, k \in BiKeys :
         BiInstall(c, k) \/ BiDownload(c, k) \/ BiRepair(c, k) \/ BiUpdateBinding(c, k)
    \/ \E c \in BiCalls, b \in BiPlans : BiInstantiate(c, b)
    \/ BiDeviceAdded \/ BiDeviceDeleted \/ BiRestart

BiSpec == BiInit /\ [][BiNext]_biVars

-----------------------------------------------------------------------------
(* Properties.                                                             *)

BiStatuses == {"none", "DOWNLOADING", "DOWNLOADED", "VERIFIED", "MODELS_INSTALLED",
               "DASHBOARDS_CREATED", "WAITING_FOR_BINDINGS", "COMPLETED", "FAILED",
               "COMPENSATION_REQUIRED"}

(* Every variable has its kind, and names and keys are unique where the    *)
(* tables say so.                                                          *)
BiTypeOK ==
    /\ biStatus \in [BiKeys -> BiStatuses]
    /\ \A t \in biTemplate : t.id \in 1..biIds /\ t.name \in BiNames /\ t.by \in BiKeys
    /\ biIds \in 0..BiMaxTemplates
    /\ biConfig \subseteq {t.id : t \in biTemplate} /\ biDevice \in biConfig \cup {0}
    /\ biBoard \subseteq (BiInstalls \cup BiCalls) \X BiPlans
    /\ \A m, n \in biMapping : m.of = n.of /\ m.key = n.key => m = n
    /\ biBinding \in [BiInstalls -> [BiPlans -> {"none", "bound", "failed"}]]
    /\ biSaved \in [BiPlans -> 0..biIds] /\ biInstance \subseteq BiCalls \X BiPlans
    /\ biCleaned \subseteq BiKeys /\ biDoubt \subseteq BiKeys \cup {"instance"}
    /\ biCalls \in 0..BiMaxCalls /\ biFaults \in 0..BiMaxFaults

(* A local dashboard template never refers to a device template that is    *)
(* gone, whatever is compensated, fails or restarts: there is no foreign   *)
(* key for that, only the one of the configuration that was made before.   *)
BiTemplatesKept == \A b \in BiPlans : biSaved[b] # 0 => BiExists(biSaved[b])

(* Nothing is left behind: when an installation is FAILED, and not marked  *)
(* for compensation, what it created is gone, but for templates that have  *)
(* a configuration by now; and every dashboard made from a template is     *)
(* recorded.  Unless a write or a deletion was lost.                       *)
BiNothingLeftBehind ==
    /\ \A k \in BiKeys \ biDoubt :
         biStatus[k] = "FAILED" /\ ~BiBusy(k) =>
             /\ \A t \in biTemplate : t.by = k => t.id \in biConfig
             /\ \A b \in BiPlans : <<k, b>> \notin biBoard
    /\ \A c \in BiCalls, b \in BiPlans :
         <<c, b>> \in biBoard /\ "instance" \notin biDoubt =>
             <<c, b>> \in biInstance \/ (BiOf(c) = "instance" /\ BiPlan(c) = b)

(* An installation that waits for bindings has one to wait for.            *)
BiWaitsForBinding ==
    \A k \in BiInstalls \ biDoubt :
        biStatus[k] = "WAITING_FOR_BINDINGS" /\ ~BiBusy(k) =>
            \E b \in BiRequired : biBinding[k][b] = "failed"

(* The status of an installation tells the truth about what it made and    *)
(* what it waits for.                                                      *)
BiStatusIsTrue == BiNothingLeftBehind /\ BiWaitsForBinding

(* What the rows of installations and dashboards say is true of the         *)
(* templates, while calls on other installations come in between.          *)
BiRecordsAreTrue == BiTemplatesKept /\ BiStatusIsTrue

(* An installation that is complete has its device templates.              *)
BiCompleteHasTemplates ==
    \A k \in BiInstalls : biStatus[k] = "COMPLETED" =>
        \A n \in BiNames : \E t \in biTemplate : t.name = n
=============================================================================
