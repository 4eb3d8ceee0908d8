------------------------- MODULE DeviceLifecycleProofs -------------------------
(***************************************************************************)
(* The objects of the driver, for any number of devices and deaths of the  *)
(* host process: references are counted, resources given back once, the    *)
(* legacy key follows its device, and a device finds no pipe of another.   *)
(***************************************************************************)
EXTENDS DeviceLifecycle, FiniteSetTheorems, TLAPS

-----------------------------------------------------------------------------
(* Counting pointers.                                                      *)

LEMMA PointersFinite ==
  ASSUME NEW S \in SUBSET Pointers
  PROVE  IsFiniteSet(S) /\ Cardinality(S) \in Nat
<1>1. \A T, x : IsFiniteSet(T) => IsFiniteSet(T \cup {x})
  BY FS_AddElement
<1>2. IsFiniteSet({} \cup {"local"} \cup {"unknown"} \cup {"m_Device"} \cup {"caller"}
                  \cup {"fxUnknown"} \cup {"fxCleanup"} \cup {"fxWrite"}
                  \cup {"fxRead"} \cup {"fxIoctl"})
  BY <1>1, FS_EmptySet, Zenon
<1>3. Pointers = {} \cup {"local"} \cup {"unknown"} \cup {"m_Device"} \cup {"caller"}
                  \cup {"fxUnknown"} \cup {"fxCleanup"} \cup {"fxWrite"}
                  \cup {"fxRead"} \cup {"fxIoctl"}
  BY DEF Pointers, FxDevice, FxQueue
<1>4. IsFiniteSet(S)
  BY <1>2, <1>3, FS_Subset
<1> QED
  BY <1>4, FS_CardinalityType

LEMMA AddPointer ==
  ASSUME NEW S \in SUBSET Pointers, NEW x \in Pointers, x \notin S
  PROVE  Cardinality(S \cup {x}) = Cardinality(S) + 1
  BY PointersFinite, FS_AddElement

LEMMA RemovePointer ==
  ASSUME NEW S \in SUBSET Pointers, NEW x \in S
  PROVE  Cardinality(S \ {x}) = Cardinality(S) - 1
  BY PointersFinite, FS_RemoveElement

LEMMA NoPointer == Cardinality({}) = 0
  BY FS_EmptySet

LEMMA OnePointer == ASSUME NEW x \in Pointers PROVE Cardinality({x}) = 1
  BY AddPointer, NoPointer

LEMMA FirstPointers ==
  {"local", "unknown"} \in SUBSET Pointers /\ Cardinality({"local", "unknown"}) = 2
<1>1. {"local"} \in SUBSET Pointers /\ "unknown" \in Pointers /\ "unknown" \notin {"local"}
  BY DEF Pointers
<1>2. Cardinality({"local"} \cup {"unknown"}) = Cardinality({"local"}) + 1
  BY <1>1, AddPointer
<1>3. Cardinality({"local"}) = 1
  BY <1>1, OnePointer
<1>4. {"local"} \cup {"unknown"} = {"local", "unknown"}
  OBVIOUS
<1> QED
  BY <1>1, <1>2, <1>3, <1>4

LEMMA AddFxDevice ==
  ASSUME NEW S \in SUBSET Pointers, S \cap FxDevice = {}
  PROVE  Cardinality(S \cup FxDevice) = Cardinality(S) + 2
<1>1. Cardinality(S \cup {"fxUnknown"}) = Cardinality(S) + 1
  BY AddPointer DEF Pointers, FxDevice
<1>2. Cardinality((S \cup {"fxUnknown"}) \cup {"fxCleanup"}) = Cardinality(S) + 2
  BY <1>1, AddPointer, PointersFinite DEF Pointers, FxDevice
<1>3. S \cup FxDevice = (S \cup {"fxUnknown"}) \cup {"fxCleanup"}
  BY DEF FxDevice
<1> QED
  BY <1>2, <1>3

LEMMA AddFxQueue ==
  ASSUME NEW S \in SUBSET Pointers, S \cap FxQueue = {}
  PROVE  Cardinality(S \cup FxQueue) = Cardinality(S) + 4
<1> DEFINE A == S \cup {"fxUnknown"}
           B == A \cup {"fxWrite"}
           C == B \cup {"fxRead"}
<1>1. /\ A \in SUBSET Pointers /\ B \in SUBSET Pointers /\ C \in SUBSET Pointers
      /\ "fxUnknown" \notin S /\ "fxWrite" \notin A /\ "fxRead" \notin B
      /\ "fxIoctl" \notin C /\ FxQueue \subseteq Pointers
  BY DEF Pointers, FxQueue
<1>2. Cardinality(A) = Cardinality(S) + 1
  BY <1>1, AddPointer DEF FxQueue
<1>3. Cardinality(B) = Cardinality(A) + 1
  BY <1>1, AddPointer DEF FxQueue
<1>4. Cardinality(C) = Cardinality(B) + 1
  BY <1>1, AddPointer DEF FxQueue
<1>5. Cardinality(C \cup {"fxIoctl"}) = Cardinality(C) + 1
  BY <1>1, AddPointer DEF FxQueue
<1>6. S \cup FxQueue = C \cup {"fxIoctl"}
  BY DEF FxQueue
<1>7. Cardinality(S) \in Nat
  BY PointersFinite
<1> QED
  BY <1>2, <1>3, <1>4, <1>5, <1>6, <1>7

LEMMA FxCounts == Cardinality(FxDevice) = 2 /\ Cardinality(FxQueue) = 4
  BY AddFxDevice, AddFxQueue, NoPointer DEF Pointers

-----------------------------------------------------------------------------
(* The calls of Configure.                                                 *)

LEMMA CallNames ==
  Calls = {"interface", "interfaceState", "storeFactory", "hardwareStore", "portName",
           "length", "fullName", "print", "symbolicLink", "idLength", "devInstId",
           "idRead", "infoSet", "openInfo", "nameLength", "pdoName", "nameRead",
           "legacyStore"}
  BY DEF Calls, Then

\* Each call finds set what those before it have set.
LEMMA CallSets ==
  ASSUME NEW c \in Calls
  PROVE  /\ Then[c] \in Calls \cup {"pdoReturn", "legacyValue"}
         /\ SetBefore(Then[c]) = SetBefore(c) \cup ({c} \cap Resources)
         /\ c \notin SetBefore(c) /\ c # "ring"
         /\ (Then[c] = "pdoReturn" \/ c = "legacyStore" \/ "legacyStore" \notin SetBefore(Then[c]))
<1>1. c \in {"interface", "interfaceState", "storeFactory", "hardwareStore", "portName",
           "length", "fullName", "print", "symbolicLink", "idLength", "devInstId",
           "idRead", "infoSet", "openInfo", "nameLength", "pdoName", "nameRead",
           "legacyStore"}
  BY CallNames
<1> USE CallNames DEF Then, SetBefore, Set, Names, Resources
<1>2. CASE c = "interface" BY <1>2
<1>3. CASE c = "interfaceState" BY <1>3
<1>4. CASE c = "storeFactory" BY <1>4
<1>5. CASE c = "hardwareStore" BY <1>5
<1>6. CASE c = "portName" BY <1>6
<1>7. CASE c = "length" BY <1>7
<1>8. CASE c = "fullName" BY <1>8
<1>9. CASE c = "print" BY <1>9
<1>10. CASE c = "symbolicLink" BY <1>10
<1>11. CASE c = "idLength" BY <1>11
<1>12. CASE c = "devInstId" BY <1>12
<1>13. CASE c = "idRead" BY <1>13
<1>14. CASE c = "infoSet" BY <1>14
<1>15. CASE c = "openInfo" BY <1>15
<1>16. CASE c = "nameLength" BY <1>16
<1>17. CASE c = "pdoName" BY <1>17
<1>18. CASE c = "nameRead" BY <1>18
<1>19. CASE c = "legacyStore" BY <1>19
<1> QED
  BY <1>1, <1>2, <1>3, <1>4, <1>5, <1>6, <1>7, <1>8, <1>9, <1>10, <1>11, <1>12, <1>13, <1>14, <1>15, <1>16, <1>17, <1>18, <1>19

-----------------------------------------------------------------------------
(* Types, by the groups of variables.                                      *)

PlaceOK == pc \in Pcs /\ hr \in BOOLEAN
Counts == [Objects -> Int]
Holders == [Objects -> SUBSET Pointers]
ObjectsOK == refs \in Counts /\ ptr \in Holders
ConfigureOK ==
  /\ locals \subseteq Resources
  /\ members \subseteq {"created", "legacyStore", "pdoName"}
  /\ live \in [Resources -> Int]
  /\ keyValue \in BOOLEAN /\ keyLeft \in BOOLEAN
PipeOK ==
  /\ pipe \in {"none", "live"}
  /\ hPipe \in {"null", "invalid", "live", "stale"}
  /\ pipeOpen \in BOOLEAN /\ fConnected \in BOOLEAN
BoundsOK == adds \in 0..MaxAdds /\ crashes \in 0..MaxCrashes

LEMMA TypeParts ==
  LifecycleTypeOK <=> PlaceOK /\ ObjectsOK /\ ConfigureOK /\ PipeOK /\ BoundsOK
  BY DEF LifecycleTypeOK, PlaceOK, ObjectsOK, Counts, Holders, ConfigureOK, PipeOK, BoundsOK

LEMMA CountTypes ==
  ASSUME ObjectsOK, NEW o \in Objects, NEW r \in Counts
  PROVE  New(o) \in Counts /\ Release(r, o) \in Counts
         /\ \A n \in Int : AddRef(r, o, n) \in Counts
  BY DEF New, Release, AddRef, Counts, ObjectsOK

LEMMA HolderType ==
  ASSUME NEW o \in Objects, NEW ps \in Holders, NEW S \in SUBSET Pointers
  PROVE  [ps EXCEPT ![o] = S] \in Holders
  BY DEF Holders

LEMMA ObjectNames ==
  /\ "factory" \in Objects /\ "driver" \in Objects
  /\ "device" \in Objects /\ "queue" \in Objects
  BY DEF Objects

LEMMA GivenBackType ==
  ASSUME ConfigureOK, NEW gone PROVE GivenBack(gone) \in [Resources -> Int]
  BY DEF ConfigureOK, GivenBack

LEMMA PlaceStep == ASSUME PlaceOK, [LifecycleNext]_lvars PROVE PlaceOK'
<1> USE DEF PlaceOK
<1>1. CASE DllGetClassObject \/ ReleaseFactory \/ OpenPipes \/ SetBaudRate \/ DropDevice
           \/ DropQueue \/ UNCHANGED lvars
  BY <1>1 DEF DllGetClassObject, ReleaseFactory, OpenPipes, SetBaudRate, DropDevice,
     DropQueue, lvars
<1>2. CASE CallSucceeds
  BY <1>2, CallSets DEF CallSucceeds, Pcs
<1>3. CASE FactoryCreateInstance \/ ReleaseDriver \/ OnDeviceAdd \/ Crash \/ Removed
  BY <1>3 DEF FactoryCreateInstance, ReleaseDriver, OnDeviceAdd, Crash, Removed, Pcs
<1>4. CASE CreateDevice \/ CallFails \/ PdoReturn \/ LegacyValue
  BY <1>4, CallNames DEF CreateDevice, CallFails, PdoReturn, LegacyValue, Pcs
<1>5. CASE NewQueue \/ CreateDefaultQueue \/ CreateManualQueue \/ QueueExit
  BY <1>5 DEF NewQueue, CreateDefaultQueue, CreateManualQueue, QueueExit, Pcs
<1>6. CASE ConfigureExit \/ Remove \/ OnCleanup
  BY <1>6 DEF ConfigureExit, Remove, OnCleanup, Pcs
<1> QED
  BY <1>1, <1>2, <1>3, <1>4, <1>5, <1>6 DEF LifecycleNext

LEMMA QueueReleasedTypes ==
  ASSUME ObjectsOK, ConfigureOK, PipeOK, NEW r \in Counts, NEW ps \in Holders,
         QueueReleased(r, ps)
  PROVE  ObjectsOK' /\ live' \in [Resources -> Int] /\ PipeOK'
<1>1. /\ Release(r, "queue") \in Counts
      /\ Release(Release(r, "queue"), "device") \in Counts
      /\ [ps EXCEPT !["device"] = @ \ {"m_Device"}] \in Holders
  BY CountTypes, ObjectNames, HolderType DEF Holders
<1>2. ObjectsOK'
  BY <1>1 DEF QueueReleased, ObjectsOK
<1>3. live' \in [Resources -> Int]
  BY GivenBackType DEF QueueReleased, ConfigureOK
<1>4. PipeOK'
  BY DEF QueueReleased, ClosePipes, pipeVars, PipeOK
<1> QED
  BY <1>2, <1>3, <1>4

LEMMA QueueExitTypes ==
  ASSUME ObjectsOK, ConfigureOK, PipeOK, QueueExit \/ DropQueue
  PROVE  ObjectsOK' /\ live' \in [Resources -> Int] /\ PipeOK'
<1>1. CASE QueueExit
  <2>1. /\ Release(refs, "queue") \in Counts
        /\ [ptr EXCEPT !["queue"] = @ \ {"unknown", "local"}] \in Holders
    BY CountTypes, ObjectNames, HolderType DEF ObjectsOK, Holders
  <2> QED
    BY <1>1, <2>1, QueueReleasedTypes DEF QueueExit
<1>2. CASE DropQueue
  <2>1. PICK x \in ptr["queue"] : QueueReleased(refs, [ptr EXCEPT !["queue"] = @ \ {x}])
    BY <1>2 DEF DropQueue
  <2>2. [ptr EXCEPT !["queue"] = @ \ {x}] \in Holders
    BY ObjectNames, HolderType DEF ObjectsOK, Holders
  <2> QED
    BY <2>1, <2>2, QueueReleasedTypes DEF ObjectsOK
<1> QED
  BY <1>1, <1>2

LEMMA ObjectsStep ==
  ASSUME ObjectsOK, ConfigureOK, PipeOK, [LifecycleNext]_lvars PROVE ObjectsOK'
<1>1. CASE CallSucceeds \/ CallFails \/ PdoReturn \/ LegacyValue \/ CreateManualQueue
           \/ OpenPipes \/ SetBaudRate \/ Remove \/ OnCleanup \/ Removed \/ UNCHANGED lvars
  BY <1>1 DEF CallSucceeds, CallFails, PdoReturn, LegacyValue, CreateManualQueue,
     OpenPipes, SetBaudRate, Remove, OnCleanup, Removed, lvars, objectVars, ObjectsOK
<1>2. CASE QueueExit \/ DropQueue
  BY <1>2, QueueExitTypes
<1> USE DEF ObjectsOK, Counts, Holders, Objects
<1>3. CASE DllGetClassObject
  BY <1>3 DEF DllGetClassObject, New, AddRef, Release, Pointers
<1>4. CASE FactoryCreateInstance
  BY <1>4 DEF FactoryCreateInstance, New, AddRef, Release, Pointers
<1>5. CASE ReleaseFactory \/ ReleaseDriver
  BY <1>5 DEF ReleaseFactory, ReleaseDriver, Release
<1>6. CASE OnDeviceAdd
  BY <1>6 DEF OnDeviceAdd, New, AddRef, Pointers, objectVars
<1>7. CASE CreateDevice
  BY <1>7, FxCounts DEF CreateDevice, AddRef, Release, Pointers
<1>8. CASE NewQueue
  BY <1>8 DEF NewQueue, New, AddRef, Pointers, objectVars
<1>9. CASE CreateDefaultQueue
  BY <1>9, FxCounts DEF CreateDefaultQueue, AddRef, Pointers, objectVars
<1>10. CASE ConfigureExit
  BY <1>10 DEF ConfigureExit, Release
<1>11. CASE DropDevice
  BY <1>11 DEF DropDevice, Release
<1>12. CASE Crash
  BY <1>12 DEF Crash
<1> QED
  BY <1>1, <1>2, <1>3, <1>4, <1>5, <1>6, <1>7, <1>8, <1>9, <1>10, <1>11, <1>12
     DEF LifecycleNext

LEMMA ConfigureStep ==
  ASSUME ObjectsOK, ConfigureOK, PipeOK, [LifecycleNext]_lvars PROVE ConfigureOK'
<1> USE DEF ConfigureOK
<1>1. CASE DllGetClassObject \/ FactoryCreateInstance \/ ReleaseFactory \/ ReleaseDriver
           \/ CreateDevice \/ CallFails \/ CreateDefaultQueue \/ CreateManualQueue
           \/ OpenPipes \/ SetBaudRate \/ Remove \/ DropDevice \/ Removed \/ UNCHANGED lvars
  BY <1>1 DEF DllGetClassObject, FactoryCreateInstance, ReleaseFactory, ReleaseDriver,
     CreateDevice, CallFails, CreateDefaultQueue, CreateManualQueue, OpenPipes,
     SetBaudRate, Remove, DropDevice, Removed, lvars, configureVars
<1>2. CASE QueueExit \/ DropQueue
  BY <1>2, QueueExitTypes DEF QueueExit, DropQueue
<1>3. CASE OnDeviceAdd \/ LegacyValue
  BY <1>3 DEF OnDeviceAdd, LegacyValue
<1>4. CASE CallSucceeds
  BY <1>4 DEF CallSucceeds
<1>5. CASE PdoReturn
  BY <1>5, GivenBackType DEF PdoReturn
<1>6. CASE NewQueue
  BY <1>6 DEF NewQueue
<1>7. CASE ConfigureExit
  BY <1>7, GivenBackType DEF ConfigureExit
<1>8. CASE OnCleanup
  BY <1>8, GivenBackType DEF OnCleanup
<1>9. CASE Crash
  BY <1>9 DEF Crash
<1> QED
  BY <1>1, <1>2, <1>3, <1>4, <1>5, <1>6, <1>7, <1>8, <1>9 DEF LifecycleNext

LEMMA PipeStep ==
  ASSUME ObjectsOK, ConfigureOK, PipeOK, [LifecycleNext]_lvars PROVE PipeOK'
<1>1. CASE OpenPipes \/ SetBaudRate \/ Crash
  BY <1>1 DEF OpenPipes, SetBaudRate, Crash, ClosePipes, PipeOK
<1>2. CASE QueueExit \/ DropQueue
  BY <1>2, QueueExitTypes
<1> QED
  BY <1>1, <1>2 DEF LifecycleNext, DllGetClassObject, FactoryCreateInstance,
     ReleaseFactory, ReleaseDriver, OnDeviceAdd, CreateDevice, CallSucceeds, CallFails,
     PdoReturn, LegacyValue, NewQueue, CreateDefaultQueue, CreateManualQueue,
     ConfigureExit, Remove, OnCleanup, DropDevice, Removed, lvars, pipeVars, PipeOK

LEMMA BoundsStep == ASSUME BoundsOK, [LifecycleNext]_lvars PROVE BoundsOK'
<1>1. CASE OnDeviceAdd \/ Crash
  BY <1>1, LifecycleAssumption DEF OnDeviceAdd, Crash, BoundsOK
<1> QED
  BY <1>1 DEF LifecycleNext, DllGetClassObject, FactoryCreateInstance, ReleaseFactory,
     ReleaseDriver, CreateDevice, CallSucceeds, CallFails, PdoReturn, LegacyValue,
     NewQueue, CreateDefaultQueue, CreateManualQueue, QueueExit, ConfigureExit,
     OpenPipes, SetBaudRate, Remove, OnCleanup, DropDevice, DropQueue, Removed, lvars,
     boundVars, BoundsOK

LEMMA TypeStep ==
  ASSUME LifecycleTypeOK, [LifecycleNext]_lvars PROVE LifecycleTypeOK'
<1>1. PlaceOK /\ ObjectsOK /\ ConfigureOK /\ PipeOK /\ BoundsOK
  BY TypeParts
<1>2. (PlaceOK /\ ObjectsOK /\ ConfigureOK /\ PipeOK /\ BoundsOK)'
  BY <1>1, PlaceStep, ObjectsStep, ConfigureStep, PipeStep, BoundsStep
<1> QED
  BY <1>2, TypeParts, PTL

-----------------------------------------------------------------------------
(* References.                                                             *)

ObjectInv == ObjectsOK /\ RefsCountPointers /\ PointerPart

\* How often an object is counted after each of the sequences of calls
LEMMA Recount ==
  ASSUME refs \in Counts, NEW o \in Objects
  PROVE  /\ Release(refs, o) = [refs EXCEPT ![o] = refs[o] - 1]
         /\ Release(Release(refs, o), o) = [refs EXCEPT ![o] = refs[o] - 2]
         /\ \A n \in Int :
              /\ AddRef(refs, o, n) = [refs EXCEPT ![o] = refs[o] + n]
              /\ Release(AddRef(refs, o, n), o) = [refs EXCEPT ![o] = refs[o] + n - 1]
              /\ AddRef(New(o), o, n) = [refs EXCEPT ![o] = 1 + n]
              /\ Release(AddRef(New(o), o, n), o) = [refs EXCEPT ![o] = n]
  BY DEF Release, AddRef, New, Counts

\* One object is counted anew.
LEMMA Recounted ==
  ASSUME ObjectsOK, RefsCountPointers, NEW o \in Objects, NEW n, NEW S,
         n = Cardinality(S), refs' = [refs EXCEPT ![o] = n], ptr' = [ptr EXCEPT ![o] = S]
  PROVE  RefsCountPointers'
  BY DEF ObjectsOK, RefsCountPointers, Counts, Holders

\* What each object is counted for, after the queue has lost pointers.
LEMMA QueueReleasedRefs ==
  ASSUME NEW r \in Counts, NEW ps \in Holders, QueueReleased(r, ps),
         "m_Device" \in ps["device"],
         r["queue"] = Cardinality(ps["queue"]) + 1,
         \A o \in Objects \ {"queue"} : r[o] = Cardinality(ps[o])
  PROVE  /\ RefsCountPointers'
         /\ ptr' = [ps EXCEPT !["device"] =
                      IF ps["queue"] = {} THEN @ \ {"m_Device"} ELSE @]
<1> DEFINE left == Release(r, "queue")
<1>1. /\ left \in Counts
      /\ \A o \in Objects : left[o] = Cardinality(ps[o])
  BY PointersFinite DEF Release, Counts, Holders, Objects
<1>2. left["queue"] = 0 <=> ps["queue"] = {}
  BY <1>1, PointersFinite, FS_EmptySet, ObjectNames DEF Holders
<1>3. CASE ps["queue"] = {}
  <2>1. /\ refs' = Release(left, "device")
        /\ ptr' = [ps EXCEPT !["device"] = @ \ {"m_Device"}]
    BY <1>2, <1>3 DEF QueueReleased
  <2>2. Cardinality(ps["device"] \ {"m_Device"}) = Cardinality(ps["device"]) - 1
    BY RemovePointer, ObjectNames DEF Holders
  <2>3. \A o \in Objects : refs'[o] = Cardinality(ptr'[o])
    BY <1>1, <2>1, <2>2 DEF Release, Counts, Holders
  <2> QED
    BY <1>3, <2>1, <2>3 DEF RefsCountPointers
<1>4. CASE ps["queue"] # {}
  <2>1. refs' = left /\ ptr' = ps
    BY <1>2, <1>4 DEF QueueReleased
  <2>2. ps = [ps EXCEPT !["device"] = @]
    BY DEF Holders
  <2> QED
    BY <1>1, <1>4, <2>1, <2>2 DEF RefsCountPointers
<1> QED
  BY <1>3, <1>4

\* A pointer to the queue is released, its reference last.
LEMMA QueueCounted ==
  ASSUME ObjectInv, NEW r \in Counts, NEW S \in SUBSET Pointers, ptr["queue"] # {},
         r["queue"] = Cardinality(S) + 1,
         \A o \in Objects \ {"queue"} : r[o] = refs[o],
         QueueReleased(r, [ptr EXCEPT !["queue"] = S])
  PROVE  /\ RefsCountPointers'
         /\ ptr'["queue"] = S
         /\ ptr' = [ptr EXCEPT !["queue"] = S,
                      !["device"] = IF S = {} THEN @ \ {"m_Device"} ELSE @]
<1> USE DEF ObjectInv
<1> DEFINE ps == [ptr EXCEPT !["queue"] = S]
<1>1. ps \in Holders /\ ps["queue"] = S /\ ps["device"] = ptr["device"]
  BY HolderType, ObjectNames DEF ObjectsOK, Holders
<1>2. "m_Device" \in ps["device"]
  BY <1>1 DEF PointerPart
<1>3. \A o \in Objects \ {"queue"} : r[o] = Cardinality(ps[o])
  BY DEF RefsCountPointers, ObjectsOK, Holders
<1>4. /\ RefsCountPointers'
      /\ ptr' = [ps EXCEPT !["device"] = IF ps["queue"] = {} THEN @ \ {"m_Device"} ELSE @]
  BY <1>1, <1>2, <1>3, QueueReleasedRefs
<1> QED
  BY <1>1, <1>4, ObjectNames DEF ObjectsOK, Holders

LEMMA QueueExited ==
  ASSUME ObjectInv, QueueExit, NEW S, S = ptr["queue"] \ {"unknown", "local"}
  PROVE  /\ RefsCountPointers'
         /\ ptr'["queue"] = S
         /\ ptr' = [ptr EXCEPT !["queue"] = S,
                      !["device"] = IF S = {} THEN @ \ {"m_Device"} ELSE @]
<1> USE DEF ObjectInv
<1> DEFINE T == ptr["queue"] \ {"unknown"}
           r == Release(refs, "queue")
<1>1. "local" \in ptr["queue"] /\ "unknown" \in ptr["queue"]
  BY DEF QueueExit, PointerPart, QueueInit
<1>2. /\ ptr["queue"] \in SUBSET Pointers /\ refs["queue"] = Cardinality(ptr["queue"])
      /\ r \in Counts
  BY CountTypes, ObjectNames DEF ObjectsOK, Holders, RefsCountPointers
<1>3. T \in SUBSET Pointers /\ "local" \in T /\ T \ {"local"} = S /\ S \in SUBSET Pointers
  BY <1>1, <1>2
<1>4. Cardinality(T) = Cardinality(ptr["queue"]) - 1
  BY <1>1, <1>2, RemovePointer
<1>5. Cardinality(S) = Cardinality(T) - 1
  BY <1>3, RemovePointer
<1>6. Cardinality(ptr["queue"]) \in Nat /\ Cardinality(T) \in Nat /\ Cardinality(S) \in Nat
  BY <1>2, <1>3, PointersFinite
<1>7. refs["queue"] = Cardinality(S) + 2
  BY <1>2, <1>4, <1>5, <1>6
<1>8. /\ r["queue"] = Cardinality(S) + 1
      /\ \A o \in Objects \ {"queue"} : r[o] = refs[o]
  BY <1>6, <1>7, ObjectNames DEF Release, ObjectsOK, Counts
<1>9. QueueReleased(r, [ptr EXCEPT !["queue"] = S])
  BY DEF QueueExit
<1> QED
  <2> HIDE DEF r, T, ObjectInv
  <2> QED
    BY <1>1, <1>2, <1>3, <1>8, <1>9, QueueCounted

LEMMA OneDropped ==
  ASSUME ObjectInv, DropQueue
  PROVE  \E S \in SUBSET ptr["queue"] :
           /\ ptr["queue"] \ S \subseteq FxQueue
           /\ RefsCountPointers'
           /\ ptr'["queue"] = S
           /\ ptr' = [ptr EXCEPT !["queue"] = S,
                        !["device"] = IF S = {} THEN @ \ {"m_Device"} ELSE @]
<1>1. PICK x \in ptr["queue"] \cap FxQueue :
        QueueReleased(refs, [ptr EXCEPT !["queue"] = @ \ {x}])
  BY DEF DropQueue
<1> DEFINE S == ptr["queue"] \ {x}
<1>2. /\ ptr["queue"] \in SUBSET Pointers /\ S \in SUBSET Pointers /\ refs \in Counts
      /\ refs["queue"] = Cardinality(ptr["queue"])
  BY ObjectNames DEF ObjectInv, RefsCountPointers, ObjectsOK, Holders
<1>3. Cardinality(S) = Cardinality(ptr["queue"]) - 1
  BY <1>1, <1>2, RemovePointer
<1>4. Cardinality(ptr["queue"]) \in Nat
  BY <1>2, PointersFinite
<1>5. refs["queue"] = Cardinality(S) + 1
  BY <1>2, <1>3, <1>4
<1>6. QueueReleased(refs, [ptr EXCEPT !["queue"] = S]) /\ ptr["queue"] # {}
  BY <1>1
<1>7. /\ RefsCountPointers'
      /\ ptr'["queue"] = S
      /\ ptr' = [ptr EXCEPT !["queue"] = S,
                   !["device"] = IF S = {} THEN @ \ {"m_Device"} ELSE @]
  <2> HIDE DEF S
  <2> QED
    BY <1>2, <1>5, <1>6, QueueCounted
<1>8. S \in SUBSET ptr["queue"] /\ ptr["queue"] \ S \subseteq FxQueue
  BY <1>1
<1> QED
  <2> HIDE DEF S
  <2> QED
    BY <1>7, <1>8

\* Either way the queue is left with some of its pointers.
LEMMA QueueDropped ==
  ASSUME ObjectInv, QueueExit \/ DropQueue
  PROVE  \E S \in SUBSET ptr["queue"] :
           /\ QueueExit => S = ptr["queue"] \ {"unknown", "local"}
           /\ DropQueue => ptr["queue"] \ S \subseteq FxQueue
           /\ RefsCountPointers'
           /\ ptr'["queue"] = S
           /\ ptr' = [ptr EXCEPT !["queue"] = S,
                        !["device"] = IF S = {} THEN @ \ {"m_Device"} ELSE @]
<1>1. QueueExit => ~DropQueue
  BY DEF QueueExit, DropQueue
<1>2. CASE QueueExit
  <2> DEFINE S == ptr["queue"] \ {"unknown", "local"}
  <2>1. S \in SUBSET ptr["queue"]
    OBVIOUS
  <2>2. /\ RefsCountPointers'
        /\ ptr'["queue"] = S
        /\ ptr' = [ptr EXCEPT !["queue"] = S,
                     !["device"] = IF S = {} THEN @ \ {"m_Device"} ELSE @]
    BY <1>2, QueueExited
  <2> QED
    BY <1>1, <1>2, <2>1, <2>2
<1>3. CASE DropQueue
  BY <1>1, <1>3, OneDropped
<1> QED
  BY <1>2, <1>3

LEMMA RefsStep ==
  ASSUME ObjectInv, [LifecycleNext]_lvars PROVE RefsCountPointers'
<1> USE DEF ObjectInv
<1>0. /\ ptr \in Holders /\ refs \in Counts
      /\ \A o \in Objects : refs[o] = Cardinality(ptr[o]) /\ ptr[o] \in SUBSET Pointers
  BY DEF ObjectsOK, RefsCountPointers, Holders
<1>1. CASE CallSucceeds \/ CallFails \/ PdoReturn \/ LegacyValue \/ CreateManualQueue
           \/ OpenPipes \/ SetBaudRate \/ Remove \/ OnCleanup \/ Removed \/ UNCHANGED lvars
  BY <1>1 DEF CallSucceeds, CallFails, PdoReturn, LegacyValue, CreateManualQueue,
     OpenPipes, SetBaudRate, Remove, OnCleanup, Removed, lvars, objectVars, RefsCountPointers
<1>2. CASE QueueExit \/ DropQueue
  BY <1>2, QueueDropped
<1>4. Cardinality({"caller"}) = 1
  BY OnePointer DEF Pointers
<1>5. CASE DllGetClassObject
  <2>1. PICK found \in BOOLEAN :
          /\ refs' = Release(AddRef(New("factory"), "factory", IF found THEN 1 ELSE 0),
                             "factory")
          /\ ptr' = [ptr EXCEPT !["factory"] = IF found THEN {"caller"} ELSE {}]
    BY <1>5 DEF DllGetClassObject
  <2>2. refs' = [refs EXCEPT !["factory"] = IF found THEN 1 ELSE 0]
    BY <1>0, <2>1, Recount, ObjectNames
  <2>3. Cardinality(IF found THEN {"caller"} ELSE {}) = IF found THEN 1 ELSE 0
    BY <1>4, NoPointer
  <2> QED
    BY <2>1, <2>2, <2>3, Recounted, ObjectNames
<1>6. CASE FactoryCreateInstance
  <2>1. PICK created, found \in BOOLEAN :
       /\ refs' = IF created
                    THEN Release(AddRef(New("driver"), "driver",
                                        IF found THEN 1 ELSE 0), "driver")
                    ELSE refs
       /\ ptr' = [ptr EXCEPT !["driver"] = IF created /\ found THEN {"caller"} ELSE {}]
    BY <1>6 DEF FactoryCreateInstance
  <2>2. ptr["driver"] = {} /\ refs["driver"] = 0
    BY <1>0, <1>6, NoPointer, ObjectNames DEF FactoryCreateInstance, PointerPart
  <2>3. refs' = [refs EXCEPT !["driver"] = IF created /\ found THEN 1 ELSE 0]
    <3>1. CASE created
      BY <1>0, <2>1, <3>1, Recount, ObjectNames
    <3>2. CASE ~created
      BY <1>0, <2>1, <2>2, <3>2 DEF Counts
    <3> QED
      BY <3>1, <3>2
  <2>4. Cardinality(IF created /\ found THEN {"caller"} ELSE {})
          = IF created /\ found THEN 1 ELSE 0
    BY <1>4, NoPointer
  <2> QED
    BY <2>1, <2>3, <2>4, Recounted, ObjectNames
<1>7. CASE ReleaseFactory
  <2>1. ptr["factory"] = {"caller"}
    BY <1>7 DEF ReleaseFactory, PointerPart
  <2>2. refs["factory"] = 1
    BY <1>0, <1>4, <2>1, ObjectNames
  <2>3. refs' = [refs EXCEPT !["factory"] = 0]
    BY <1>0, <1>7, <2>2, Recount, ObjectNames DEF ReleaseFactory
  <2>4. ptr' = [ptr EXCEPT !["factory"] = {}]
    BY <1>7 DEF ReleaseFactory
  <2> QED
    BY <2>3, <2>4, Recounted, NoPointer, ObjectNames
<1>8. CASE ReleaseDriver
  <2>1. ptr["driver"] = {"caller"}
    BY <1>8 DEF ReleaseDriver, PointerPart
  <2>2. refs["driver"] = 1
    BY <1>0, <1>4, <2>1, ObjectNames
  <2>3. refs' = [refs EXCEPT !["driver"] = 0]
    BY <1>0, <1>8, <2>2, Recount, ObjectNames DEF ReleaseDriver
  <2>4. ptr' = [ptr EXCEPT !["driver"] = {}]
    BY <1>8 DEF ReleaseDriver
  <2> QED
    BY <2>3, <2>4, Recounted, NoPointer, ObjectNames
<1>9. CASE OnDeviceAdd
  <2>1. CASE UNCHANGED objectVars
    BY <1>0, <2>1 DEF objectVars, RefsCountPointers
  <2>2. CASE /\ refs' = AddRef(New("device"), "device", 1)
             /\ ptr' = [ptr EXCEPT !["device"] = {"local", "unknown"}]
    <3>1. refs' = [refs EXCEPT !["device"] = 2]
      BY <1>0, <2>2, Recount, ObjectNames
    <3> QED
      BY <2>2, <3>1, Recounted, FirstPointers, ObjectNames
  <2> QED
    BY <1>9, <2>1, <2>2 DEF OnDeviceAdd
<1>10. CASE CreateDevice
  <2>1. /\ "local" \in ptr["device"] /\ "unknown" \in ptr["device"]
        /\ ptr["device"] \cap FxDevice = {} /\ ptr["device"] \in SUBSET Pointers
        /\ FxDevice \subseteq Pointers
    BY <1>0, <1>10, ObjectNames DEF CreateDevice, PointerPart, DevicePresent, Pointers
  <2> DEFINE S == ptr["device"] \ {"unknown"}
  <2>2. /\ Cardinality(S) = refs["device"] - 1 /\ Cardinality(S) \in Nat
        /\ S \in SUBSET Pointers /\ refs["device"] \in Int
    BY <1>0, <2>1, RemovePointer, PointersFinite, ObjectNames DEF Counts
  <2>3. CASE /\ refs' = Release(AddRef(refs, "device", Cardinality(FxDevice)), "device")
             /\ ptr' = [ptr EXCEPT !["device"] = (@ \ {"unknown"}) \cup FxDevice]
    <3>1. Cardinality(S \cup FxDevice) = Cardinality(S) + 2
      BY <2>1, <2>2, AddFxDevice
    <3>2. refs' = [refs EXCEPT !["device"] = refs["device"] + 2 - 1]
      BY <1>0, <2>3, FxCounts, Recount, ObjectNames
    <3>3. ptr' = [ptr EXCEPT !["device"] = S \cup FxDevice]
      BY <2>3
    <3>4. refs["device"] + 2 - 1 = Cardinality(S \cup FxDevice)
      BY <2>2, <3>1
    <3> QED
      BY <3>2, <3>3, <3>4, Recounted, ObjectNames
  <2>4. CASE /\ refs' = Release(Release(refs, "device"), "device")
             /\ ptr' = [ptr EXCEPT !["device"] = @ \ {"unknown", "local"}]
    <3> DEFINE T == S \ {"local"}
    <3>1. Cardinality(T) = Cardinality(S) - 1
      BY <2>1, <2>2, RemovePointer
    <3>2. refs' = [refs EXCEPT !["device"] = refs["device"] - 2]
      BY <1>0, <2>4, Recount, ObjectNames
    <3>3. ptr["device"] \ {"unknown", "local"} = T
      OBVIOUS
    <3>4. ptr' = [ptr EXCEPT !["device"] = T]
      BY <2>4, <3>3
    <3>5. refs["device"] - 2 = Cardinality(T)
      BY <2>2, <3>1
    <3> QED
      BY <3>2, <3>4, <3>5, Recounted, ObjectNames
  <2> QED
    BY <1>10, <2>3, <2>4 DEF CreateDevice
<1>11. CASE NewQueue
  <2>1. CASE UNCHANGED objectVars
    BY <1>0, <2>1 DEF objectVars, RefsCountPointers
  <2>2. CASE /\ refs' = AddRef(AddRef(New("queue"), "queue", 1), "device", 1)
             /\ ptr' = [ptr EXCEPT !["queue"] = {"local", "unknown"},
                                   !["device"] = @ \cup {"m_Device"}]
    <3>3. "m_Device" \notin ptr["device"]
      BY <1>11 DEF NewQueue, PointerPart
    <3>4. Cardinality(ptr["device"] \cup {"m_Device"}) = refs["device"] + 1
      BY <1>0, <3>3, AddPointer, ObjectNames DEF Pointers
    <3>5. \A o \in Objects : refs'[o] = Cardinality(ptr'[o])
      BY <1>0, <2>2, <3>4, FirstPointers DEF New, AddRef, Counts, Holders, Objects
    <3> QED
      BY <3>5 DEF RefsCountPointers
  <2> QED
    BY <1>11, <2>1, <2>2 DEF NewQueue
<1>12. CASE CreateDefaultQueue
  <2>1. CASE UNCHANGED objectVars
    BY <1>0, <2>1 DEF objectVars, RefsCountPointers
  <2>2. CASE /\ refs' = AddRef(refs, "queue", Cardinality(FxQueue))
             /\ ptr' = [ptr EXCEPT !["queue"] = @ \cup FxQueue]
    <3>1. ptr["queue"] \cap FxQueue = {} /\ ptr["queue"] \cup FxQueue \in SUBSET Pointers
      BY <1>0, <1>12, ObjectNames DEF CreateDefaultQueue, PointerPart, Pointers
    <3>2. Cardinality(ptr["queue"] \cup FxQueue) = refs["queue"] + 4
      BY <1>0, <3>1, AddFxQueue, ObjectNames
    <3>3. refs' = [refs EXCEPT !["queue"] = refs["queue"] + 4]
      BY <1>0, <2>2, FxCounts, Recount, ObjectNames
    <3> QED
      BY <2>2, <3>2, <3>3, Recounted, ObjectNames
  <2> QED
    BY <1>12, <2>1, <2>2 DEF CreateDefaultQueue
<1>13. ASSUME NEW x \in ptr["device"], refs' = Release(refs, "device"),
              ptr' = [ptr EXCEPT !["device"] = @ \ {x}]
       PROVE  RefsCountPointers'
  <2>1. Cardinality(ptr["device"] \ {x}) = refs["device"] - 1
    BY <1>0, RemovePointer, ObjectNames
  <2>2. refs' = [refs EXCEPT !["device"] = refs["device"] - 1]
    BY <1>0, <1>13, Recount, ObjectNames
  <2>3. ptr' = [ptr EXCEPT !["device"] = ptr["device"] \ {x}]
    BY <1>13
  <2> QED
    BY <2>1, <2>2, <2>3, Recounted, ObjectNames
<1>14. CASE ConfigureExit
  <2>1. "local" \in ptr["device"]
    BY <1>14 DEF ConfigureExit, PointerPart, Configuring
  <2> QED
    BY <1>13, <1>14, <2>1 DEF ConfigureExit
<1>15. CASE DropDevice
  BY <1>13, <1>15 DEF DropDevice
<1>16. CASE Crash
  BY <1>16, NoPointer DEF Crash, RefsCountPointers
<1> QED
  BY <1>1, <1>2, <1>5, <1>6, <1>7, <1>8, <1>9, <1>10, <1>11, <1>12, <1>14, <1>15, <1>16
     DEF LifecycleNext

\* Places that make no difference to who points to what
Early == Calls \cup {"pdoReturn", "legacyValue", "newQueue"}

LEMMA EarlyPlaces ==
  /\ Early \cap ({"unloaded", "idle", "createDevice", "exit", "started", "removing",
                   "dropping"} \cup QueueInit) = {}
  /\ Configuring = Early \cup {"exit"} \cup QueueInit
  /\ Calls \subseteq Early /\ "interface" \in Calls /\ "legacyStore" \in Calls
  /\ {"pdoReturn", "legacyValue", "newQueue"} \subseteq Early
  /\ Calls \cap {"pdoReturn", "legacyValue", "newQueue"} = {}
  /\ \A c \in Calls : Then[c] \in Early /\ Then[c] # "newQueue"
<1>1. \A c \in Calls : Then[c] \in Early /\ Then[c] # "newQueue"
  BY CallSets, CallNames DEF Early
<1> QED
  BY <1>1, CallNames DEF Early, Configuring, QueueInit

LEMMA PointerStep ==
  ASSUME ObjectInv, PlaceOK, [LifecycleNext]_lvars PROVE PointerPart'
<1> USE EarlyPlaces DEF ObjectInv
<1>0. /\ ptr \in Holders /\ ptr["queue"] \in SUBSET Pointers
      /\ ptr["device"] \in SUBSET Pointers
  BY ObjectNames DEF ObjectsOK, Holders
<1> USE DEF PointerPart, DevicePresent, QueueInit
<1>1. CASE CallSucceeds \/ CallFails \/ PdoReturn \/ LegacyValue
  BY <1>0, <1>1 DEF CallSucceeds, CallFails, PdoReturn, LegacyValue, objectVars, Early
<1>2. CASE CreateManualQueue
  BY <1>0, <1>2 DEF CreateManualQueue, objectVars, Early
<1>3. CASE OpenPipes \/ SetBaudRate \/ UNCHANGED lvars
  BY <1>0, <1>3 DEF OpenPipes, SetBaudRate, lvars, objectVars, Early
<1>4. CASE Remove \/ OnCleanup
  BY <1>0, <1>4 DEF Remove, OnCleanup, objectVars, Early
<1>5. CASE Removed
  BY <1>0, <1>5 DEF Removed, objectVars, Early, FxDevice, FxQueue
<1>6. CASE DllGetClassObject
  BY <1>0, <1>6 DEF DllGetClassObject, Holders, Objects, Early
<1>7. CASE FactoryCreateInstance
  BY <1>0, <1>7 DEF FactoryCreateInstance, Holders, Objects, Early
<1>8. CASE ReleaseFactory \/ ReleaseDriver
  BY <1>0, <1>8 DEF ReleaseFactory, ReleaseDriver, Holders, Objects, Early
<1>9. CASE OnDeviceAdd
  <2>1. CASE UNCHANGED <<pc, objectVars>>
    BY <1>0, <2>1 DEF objectVars, Early
  <2>2. CASE ptr' = [ptr EXCEPT !["device"] = {"local", "unknown"}] /\ pc' = "createDevice"
    <3>1. ptr["queue"] = {} /\ pc = "idle"
      BY <1>9 DEF OnDeviceAdd
    <3> QED
      BY <1>0, <2>2, <3>1 DEF Holders, Objects, Early, FxDevice
  <2> QED
    BY <1>9, <2>1, <2>2 DEF OnDeviceAdd
<1>10. CASE CreateDevice
  BY <1>0, <1>10 DEF CreateDevice, Holders, Objects, Early, FxDevice
<1>11. CASE NewQueue
  BY <1>0, <1>11 DEF NewQueue, Holders, Objects, Early, FxDevice, FxQueue, objectVars
<1>12. CASE CreateDefaultQueue
  BY <1>0, <1>12 DEF CreateDefaultQueue, Holders, Objects, Early, FxDevice, FxQueue, objectVars
<1>13. CASE ConfigureExit
  BY <1>0, <1>13 DEF ConfigureExit, Holders, Objects, Early, FxDevice
<1>14. CASE DropDevice
  BY <1>0, <1>14 DEF DropDevice, Holders, Objects, Early, FxDevice
<1>15. CASE Crash
  BY <1>0, <1>15 DEF Crash, Holders, Objects, Early
<1>16. CASE QueueExit
  BY <1>0, <1>16, QueueDropped DEF QueueExit, Holders, Objects, Early, FxDevice, FxQueue
<1>17. CASE DropQueue
  <2>1. PICK S \in SUBSET ptr["queue"] :
          /\ ptr["queue"] \ S \subseteq FxQueue
          /\ ptr' = [ptr EXCEPT !["queue"] = S,
                       !["device"] = IF S = {} THEN @ \ {"m_Device"} ELSE @]
    BY <1>17, OneDropped
  <2>2. /\ ptr' \in [Objects -> SUBSET Pointers] /\ ptr'["queue"] = S
        /\ ptr'["device"] = IF S = {} THEN ptr["device"] \ {"m_Device"} ELSE ptr["device"]
        /\ ptr'["factory"] = ptr["factory"] /\ ptr'["driver"] = ptr["driver"]
    BY <1>0, <2>1 DEF Holders, Objects
  <2>3. pc = "dropping" /\ pc' = pc
    BY <1>17 DEF DropQueue
  <2>4. "local" \notin ptr["device"] /\ "unknown" \notin ptr["device"]
    BY <2>3 DEF Early
  <2>5. "local" \notin ptr["queue"] /\ "unknown" \notin ptr["queue"]
    BY <2>3
  <2>6. pc \notin Configuring \cup {"createDevice"} /\ pc \notin Early /\ pc \notin QueueInit
    BY <2>3
  <2>7. ptr'["device"] \subseteq ptr["device"] /\ ptr'["queue"] \subseteq ptr["queue"]
    BY <2>2
  <2>8. "m_Device" \in ptr'["device"] <=> S # {}
    <3>1. CASE S = {}
      <4>1. ptr'["device"] = ptr["device"] \ {"m_Device"}
        BY <2>2, <3>1
      <4> QED
        BY <3>1, <4>1
    <3>2. CASE S # {}
      <4>1. ptr["queue"] # {}
        BY <3>2
      <4>2. ptr'["device"] = ptr["device"] /\ "m_Device" \in ptr["device"]
        BY <2>2, <3>2, <4>1
      <4> QED
        BY <3>2, <4>2
    <3> QED
      BY <3>1, <3>2
  <2> QED
    BY <2>2, <2>3, <2>4, <2>5, <2>6, <2>7, <2>8 DEF Early
<1> QED
  BY <1>1, <1>2, <1>3, <1>4, <1>5, <1>6, <1>7, <1>8, <1>9, <1>10, <1>11, <1>12, <1>13,
     <1>14, <1>15, <1>16, <1>17 DEF LifecycleNext

-----------------------------------------------------------------------------
(* The queue, the key and the pipe.                                        *)

\* The queue is deleted exactly when nobody points to it any more.
LEMMA QueueGone ==
  ASSUME ObjectInv, ConfigureOK, PipeOK, QueueExit \/ DropQueue
  PROVE  IF ptr'["queue"] = {}
           THEN ClosePipes /\ live' = GivenBack({"ring"} \cap {x \in Resources : live[x] = 1})
           ELSE UNCHANGED <<live, pipeVars>>
<1>1. PICK r \in Counts, ps \in Holders : QueueReleased(r, ps)
  <2>1. /\ refs \in Counts /\ Release(refs, "queue") \in Counts
        /\ \A S \in SUBSET Pointers : [ptr EXCEPT !["queue"] = ptr["queue"] \ S] \in Holders
    BY CountTypes, HolderType, ObjectNames DEF ObjectInv, ObjectsOK, Holders
  <2>2. CASE QueueExit
    <3>1. {"unknown", "local"} \in SUBSET Pointers
      BY DEF Pointers, FxDevice, FxQueue
    <3> QED
      BY <2>1, <2>2, <3>1 DEF QueueExit
  <2>3. CASE DropQueue
    <3>1. \A x \in FxQueue : {x} \in SUBSET Pointers
      BY DEF Pointers
    <3> QED
      BY <2>1, <2>3, <3>1 DEF DropQueue
  <2> QED
    BY <2>2, <2>3
<1>2. refs'["queue"] = Release(r, "queue")["queue"]
  BY <1>1 DEF QueueReleased, Release, Counts, Objects
<1>3. ptr'["queue"] \in SUBSET Pointers /\ refs'["queue"] = Cardinality(ptr'["queue"])
  <2>1. ObjectsOK' /\ RefsCountPointers'
    BY QueueExitTypes, QueueDropped DEF ObjectInv
  <2> QED
    BY <2>1, ObjectNames DEF ObjectsOK, Holders, RefsCountPointers
<1>4. refs'["queue"] = 0 <=> ptr'["queue"] = {}
  BY <1>3, PointersFinite, FS_EmptySet
<1> QED
  BY <1>1, <1>2, <1>4 DEF QueueReleased

LEMMA QueueStep ==
  ASSUME ObjectInv, PlaceOK, QueuePart, [LifecycleNext]_lvars PROVE QueuePart'
<1> USE EarlyPlaces DEF QueuePart, ObjectInv
<1>0. ptr \in Holders
  BY DEF ObjectsOK
<1>1. CASE CallSucceeds \/ CallFails \/ PdoReturn \/ LegacyValue
  <2>1. pc' \in Early \/ (pc' = "exit" /\ ~hr')
    BY <1>1 DEF CallSucceeds, CallFails, PdoReturn, LegacyValue
  <2> QED
    BY <2>1 DEF QueueInit, Early
<1>2. CASE CreateManualQueue
  <2>1. (hr' \/ pc' = "waitMaskQueue") => pc \in {"readQueue", "waitMaskQueue"}
    BY <1>2 DEF CreateManualQueue
  <2>2. pc' \in {"waitMaskQueue", "queueExit"} /\ (pc' = "queueExit" \/ hr')
        /\ ptr' = ptr
    BY <1>2 DEF CreateManualQueue, objectVars
  <2> QED
    BY <1>2, <2>1, <2>2 DEF CreateManualQueue
<1>8. CASE OpenPipes \/ SetBaudRate \/ UNCHANGED lvars
  <2>1. pc' = pc /\ hr' = hr /\ ptr' = ptr
    BY <1>8 DEF OpenPipes, SetBaudRate, lvars, objectVars
  <2> QED
    BY <2>1
<1>3. CASE Remove \/ OnCleanup \/ Removed \/ DllGetClassObject \/ FactoryCreateInstance
           \/ ReleaseFactory \/ ReleaseDriver \/ OnDeviceAdd \/ CreateDevice \/ Crash
           \/ DropQueue
  BY <1>3 DEF Remove, OnCleanup, Removed, DllGetClassObject, FactoryCreateInstance,
     ReleaseFactory, ReleaseDriver, OnDeviceAdd, CreateDevice, Crash, DropQueue, objectVars
<1>4. CASE NewQueue
  BY <1>4 DEF NewQueue
<1>5. CASE CreateDefaultQueue
  BY <1>0, <1>5 DEF CreateDefaultQueue, Holders, Objects
<1>6. CASE ConfigureExit \/ DropDevice
  BY <1>0, <1>6 DEF ConfigureExit, DropDevice, Holders, Objects
<1>7. CASE QueueExit
  <2>1. ptr'["queue"] = ptr["queue"] \ {"unknown", "local"}
    BY <1>7, QueueExited
  <2> QED
    BY <1>7, <2>1 DEF QueueExit, FxQueue
<1> QED
  BY <1>1, <1>2, <1>3, <1>4, <1>5, <1>6, <1>7, <1>8 DEF LifecycleNext

LEMMA KeyStep ==
  ASSUME ConfigureOK, PlaceOK, KeyPart, [LifecycleNext]_lvars PROVE KeyPart'
<1> USE EarlyPlaces DEF KeyPart, ToCleanUp, ConfigureOK, PlaceOK, QueueInit
<1>1. CASE CallSucceeds \/ CallFails \/ PdoReturn
  <2>1. pc \in Early /\ pc # "newQueue" /\ UNCHANGED <<members, keyValue, keyLeft>>
    BY <1>1 DEF CallSucceeds, CallFails, PdoReturn, configureVars
  <2>2. (pc' \in Early /\ pc' # "newQueue") \/ (pc' = "exit" /\ ~hr')
    <3>1. CASE CallSucceeds
      BY <3>1 DEF CallSucceeds
    <3>2. CASE CallFails
      BY <3>2 DEF CallFails
    <3>3. CASE PdoReturn
      BY <3>3 DEF PdoReturn, Early
    <3> QED
      BY <1>1, <3>1, <3>2, <3>3
  <2>3. ~ToCleanUp /\ "created" \notin members
    BY <2>1 DEF Early
  <2> QED
    BY <2>1, <2>2, <2>3 DEF Early
<1>2. CASE LegacyValue
  BY <1>2 DEF LegacyValue, Early
<1>3. CASE NewQueue \/ CreateDefaultQueue \/ CreateManualQueue \/ QueueExit
  BY <1>3 DEF NewQueue, CreateDefaultQueue, CreateManualQueue, QueueExit, configureVars, Early
<1>4. CASE ConfigureExit
  BY <1>4 DEF ConfigureExit, Early
<1>5. CASE OpenPipes \/ SetBaudRate \/ UNCHANGED lvars \/ Remove
  BY <1>5 DEF OpenPipes, SetBaudRate, lvars, configureVars, Remove, Early
<1>6. CASE OnCleanup
  BY <1>6 DEF OnCleanup, Early
<1>7. CASE DropDevice \/ DropQueue \/ Removed
  BY <1>7 DEF DropDevice, DropQueue, Removed, configureVars, Early
<1>8. CASE DllGetClassObject \/ FactoryCreateInstance \/ ReleaseFactory \/ ReleaseDriver
  BY <1>8 DEF DllGetClassObject, FactoryCreateInstance, ReleaseFactory, ReleaseDriver,
     configureVars, Early
<1>9. CASE OnDeviceAdd
  BY <1>9 DEF OnDeviceAdd, Early
<1>10. CASE CreateDevice
  BY <1>10 DEF CreateDevice, configureVars, Early
<1>11. CASE Crash
  BY <1>11 DEF Crash
<1> QED
  BY <1>1, <1>2, <1>3, <1>4, <1>5, <1>6, <1>7, <1>8, <1>9, <1>10, <1>11 DEF LifecycleNext

LEMMA PipePartStep ==
  ASSUME ObjectInv, ConfigureOK, PlaceOK, PipeOK, QueuePart, PipePart, [LifecycleNext]_lvars
  PROVE  PipePart'
<1> USE EarlyPlaces DEF PipePart, PipeOK
<1>0. ptr \in Holders
  BY DEF ObjectInv, ObjectsOK
<1>1. CASE QueueExit \/ DropQueue
  <2>1. CASE ptr'["queue"] = {}
    BY <1>1, <2>1, QueueGone DEF ClosePipes
  <2>2. CASE ptr'["queue"] # {}
    <3>1. UNCHANGED pipeVars
      BY <1>1, <2>2, QueueGone
    <3>2. pc' \in Configuring => pc \in Configuring
      BY <1>1 DEF QueueExit, DropQueue, QueueInit
    <3> QED
      BY <2>2, <3>1, <3>2 DEF pipeVars
  <2> QED
    BY <2>1, <2>2
<1>2. CASE OpenPipes
  <2>1. ptr["queue"] # {} /\ ptr' = ptr /\ pc' = "started"
    BY <1>2 DEF OpenPipes, QueuePart, FxQueue, objectVars
  <2>2. pc' \notin Configuring
    BY <2>1 DEF QueueInit, Early
  <2> QED
    BY <1>2, <2>1, <2>2 DEF OpenPipes
<1>3. CASE SetBaudRate
  BY <1>3 DEF SetBaudRate, ClosePipes
<1>4. CASE Crash
  BY <1>4 DEF Crash, QueueInit
<1>5. CASE OnDeviceAdd
  BY <1>0, <1>5 DEF OnDeviceAdd, pipeVars, objectVars, Holders, Objects, Early, QueueInit
<1>6. CASE CreateDevice
  <2>1. ptr["queue"] = {} /\ ptr'["queue"] = {}
    BY <1>0, <1>6 DEF CreateDevice, ObjectInv, PointerPart, DevicePresent, Holders, Objects
  <2> QED
    BY <1>6, <2>1 DEF CreateDevice, pipeVars
<1>7. CASE NewQueue \/ CreateDefaultQueue \/ CreateManualQueue \/ ConfigureExit
  BY <1>0, <1>7 DEF NewQueue, CreateDefaultQueue, CreateManualQueue, ConfigureExit,
     pipeVars, objectVars, Holders, Objects, QueueInit, Early
<1>8. CASE DllGetClassObject \/ FactoryCreateInstance \/ ReleaseFactory \/ ReleaseDriver
  BY <1>0, <1>8 DEF DllGetClassObject, FactoryCreateInstance, ReleaseFactory, ReleaseDriver,
     pipeVars, Holders, Objects, QueueInit, Early
<1>9. CASE CallSucceeds \/ CallFails \/ PdoReturn \/ LegacyValue
  BY <1>9 DEF CallSucceeds, CallFails, PdoReturn, LegacyValue, pipeVars, objectVars,
     QueueInit, Early
<1>10. CASE Remove \/ OnCleanup \/ Removed \/ UNCHANGED lvars
  BY <1>10 DEF Remove, OnCleanup, Removed, lvars, pipeVars, objectVars, QueueInit, Early
<1>11. CASE DropDevice
  BY <1>0, <1>11 DEF DropDevice, pipeVars, Holders, Objects, QueueInit, Early
<1> QED
  BY <1>1, <1>2, <1>3, <1>4, <1>5, <1>6, <1>7, <1>8, <1>9, <1>10, <1>11 DEF LifecycleNext

-----------------------------------------------------------------------------
(* Resources.                                                              *)

AllSet == Names \cup {"fullName", "pdoName", "legacyStore"}

LEMMA SetsBefore ==
  /\ SetBefore("interface") = {}
  /\ SetBefore("pdoReturn") = Names \cup {"fullName", "devInstId", "infoSet", "pdoName"}
  /\ SetBefore("legacyStore") = Names \cup {"fullName", "pdoName"}
  /\ \A c \in {"legacyValue", "newQueue"} \cup QueueInit : SetBefore(c) = AllSet
  /\ \A c \in PdoCalls : "legacyStore" \notin SetBefore(c)
  /\ "ring" \notin AllSet /\ AllSet \subseteq Resources
<1> USE DEF SetBefore, Set, Names, AllSet, QueueInit, PdoCalls, Resources
<1>1. /\ SetBefore("interface") = {}
      /\ SetBefore("pdoReturn") = Names \cup {"fullName", "devInstId", "infoSet", "pdoName"}
      /\ SetBefore("legacyStore") = Names \cup {"fullName", "pdoName"}
  OBVIOUS
<1>2. \A c \in {"legacyValue", "newQueue"} \cup QueueInit : SetBefore(c) = AllSet
  OBVIOUS
<1>3. \A c \in PdoCalls : "legacyStore" \notin SetBefore(c)
  OBVIOUS
<1> QED
  BY <1>1, <1>2, <1>3

\* The two halves of ResourcePart: what is taken, and what is set where
TakenPart ==
  /\ \A r \in Resources \ {"ring"} :
       live[r] = IF r \in locals \/ (r \in {"legacyStore", "pdoName"} /\ ToCleanUp)
                   THEN 1 ELSE 0
  /\ live["ring"] \in 0..1
  /\ ptr["queue"] = {} => live["ring"] = 0
  /\ "ring" \notin locals

SetPart ==
  /\ pc \in Calls \cup {"legacyValue", "newQueue"} \cup QueueInit =>
       locals = SetBefore(pc)
  /\ pc = "pdoReturn" /\ hr => locals = SetBefore(pc)
  /\ pc = "pdoReturn" => "legacyStore" \notin locals
  /\ pc = "exit" /\ ToCleanUp => {"legacyStore", "pdoName"} \subseteq locals
  /\ pc \notin Configuring => locals = {}

LEMMA ResourceParts == ResourcePart <=> TakenPart /\ SetPart
  BY DEF ResourcePart, TakenPart, SetPart

LEMMA SetStep ==
  ASSUME ConfigureOK, PlaceOK, KeyPart, SetPart, [LifecycleNext]_lvars PROVE SetPart'
<1> USE EarlyPlaces, SetsBefore DEF SetPart, PlaceOK, QueueInit
<1>1. CASE CallSucceeds
  <2>1. pc \in Calls /\ pc' = Then[pc] /\ locals' = locals \cup ({pc} \cap Resources)
    BY <1>1 DEF CallSucceeds
  <2>2. locals' = SetBefore(pc') /\ pc' \in Calls \cup {"pdoReturn", "legacyValue"}
    BY <2>1, CallSets
  <2>3. pc' = "pdoReturn" => "legacyStore" \notin SetBefore(pc')
    BY DEF Names
  <2> QED
    BY <2>2, <2>3 DEF Early
<1>2. CASE CallFails
  <2>1. pc \in Calls /\ locals' = locals /\ ~hr' /\ locals = SetBefore(pc)
        /\ pc' = (IF pc \in PdoCalls THEN "pdoReturn" ELSE "exit") /\ ~ToCleanUp'
    BY <1>2 DEF CallFails, configureVars, KeyPart, ToCleanUp, Early
  <2> QED
    BY <2>1 DEF Early
<1>3. CASE PdoReturn
  <2>1. pc = "pdoReturn" /\ ~ToCleanUp /\ ~ToCleanUp'
    BY <1>3 DEF PdoReturn, KeyPart, ToCleanUp, Early
  <2>2. CASE hr
    <3>1. pc' = "legacyStore" /\ locals' = locals \ (locals \cap {"devInstId", "infoSet"})
      BY <1>3, <2>2 DEF PdoReturn
    <3>2. locals' = SetBefore("legacyStore")
      BY <2>1, <2>2, <3>1 DEF Names
    <3> QED
      BY <3>1, <3>2 DEF Early
  <2>3. CASE ~hr
    BY <1>3, <2>1, <2>3 DEF PdoReturn, Early
  <2> QED
    BY <2>2, <2>3
<1>4. CASE LegacyValue
  <2>1. locals' = AllSet /\ pc' \in {"newQueue", "exit"}
    BY <1>4 DEF LegacyValue
  <2> QED
    BY <2>1 DEF Early, AllSet
<1>5. CASE NewQueue \/ CreateDefaultQueue \/ CreateManualQueue \/ QueueExit
  <2>1. /\ pc \in {"newQueue"} \cup QueueInit
        /\ pc' \in {"exit"} \cup QueueInit /\ locals' = locals
    BY <1>5 DEF NewQueue, CreateDefaultQueue, CreateManualQueue, QueueExit, configureVars
  <2>2. locals' = AllSet
    BY <2>1
  <2> QED
    BY <2>1, <2>2 DEF Early, AllSet
<1>6. CASE ConfigureExit
  BY <1>6 DEF ConfigureExit, Early
<1>7. CASE OpenPipes \/ SetBaudRate \/ Remove \/ OnCleanup \/ DropDevice \/ DropQueue
           \/ Removed
  <2>1. /\ pc \in {"started", "removing", "dropping"} /\ locals' = locals
        /\ pc' \in {"started", "removing", "dropping", "idle"}
    BY <1>7 DEF OpenPipes, SetBaudRate, Remove, OnCleanup, DropDevice, DropQueue, Removed,
       configureVars
  <2> QED
    BY <2>1 DEF Early
<1>8. CASE DllGetClassObject \/ FactoryCreateInstance \/ ReleaseFactory \/ ReleaseDriver
           \/ OnDeviceAdd
  <2>1. /\ pc \in {"unloaded", "idle"} /\ locals' = locals
        /\ pc' \in {"unloaded", "idle", "createDevice"}
    BY <1>8 DEF DllGetClassObject, FactoryCreateInstance, ReleaseFactory, ReleaseDriver,
       OnDeviceAdd, configureVars
  <2> QED
    BY <2>1 DEF Early
<1>9. CASE CreateDevice
  <2>1. pc = "createDevice" /\ locals' = locals /\ pc' \in {"interface", "idle"}
    BY <1>9 DEF CreateDevice, configureVars
  <2>2. locals' = {}
    BY <2>1 DEF Early
  <2> QED
    BY <2>1, <2>2 DEF Early
<1>10. CASE Crash
  BY <1>10 DEF Crash, Early
<1>11. CASE UNCHANGED lvars
  BY <1>11 DEF lvars, configureVars, ToCleanUp
<1> QED
  BY <1>1, <1>2, <1>3, <1>4, <1>5, <1>6, <1>7, <1>8, <1>9, <1>10, <1>11 DEF LifecycleNext

LEMMA TakenStep ==
  ASSUME ObjectInv, PointerPart', ConfigureOK, PlaceOK, PipeOK, KeyPart, SetPart, TakenPart,
         [LifecycleNext]_lvars
  PROVE  TakenPart'
<1> USE EarlyPlaces, SetsBefore DEF TakenPart, ConfigureOK, QueueInit
<1>0. "ring" \in Resources /\ ptr \in Holders
  BY DEF Resources, ObjectInv, ObjectsOK
<1>1. CASE CallSucceeds
  <2>1. /\ pc \in Calls /\ pc \notin locals /\ pc # "ring" /\ UNCHANGED <<members, ptr>>
        /\ locals' = locals \cup ({pc} \cap Resources)
        /\ live' = [r \in Resources |-> IF r = pc THEN live[r] + 1 ELSE live[r]]
    BY <1>1, CallSets DEF CallSucceeds, SetPart, objectVars
  <2>2. ~ToCleanUp /\ ~ToCleanUp'
    BY <2>1 DEF KeyPart, ToCleanUp, Early
  <2> QED
    BY <1>0, <2>1, <2>2
<1>2. CASE CallFails
  BY <1>2 DEF CallFails, configureVars, objectVars, ToCleanUp
<1>3. CASE PdoReturn
  <2>1. PICK gone \in SUBSET locals :
          locals' = locals \ gone /\ live' = GivenBack(gone) /\ UNCHANGED <<members, ptr>>
    BY <1>3 DEF PdoReturn, objectVars
  <2>2. ~ToCleanUp /\ ~ToCleanUp'
    BY <1>3, <2>1 DEF PdoReturn, KeyPart, ToCleanUp, Early
  <2> QED
    BY <1>0, <2>1, <2>2 DEF GivenBack
<1>4. CASE LegacyValue
  <2>1. locals = AllSet /\ locals' = locals /\ live' = live /\ ptr' = ptr
    BY <1>4 DEF LegacyValue, SetPart, objectVars
  <2>2. "legacyStore" \in locals /\ "pdoName" \in locals
    BY <2>1 DEF AllSet
  <2> QED
    BY <2>1, <2>2
<1>5. CASE NewQueue
  <2>1. /\ ptr["queue"] = {} /\ locals' = locals /\ UNCHANGED members
        /\ ptr'["queue"] # {} \/ (live' = live /\ ptr' = ptr)
    <3>1. pc = "newQueue" /\ ptr["queue"] = {} /\ locals' = locals /\ UNCHANGED members
      BY <1>5 DEF NewQueue, ObjectInv, PointerPart
    <3>2. CASE UNCHANGED <<objectVars, live>>
      BY <3>1, <3>2 DEF objectVars
    <3>3. CASE ptr' = [ptr EXCEPT !["queue"] = {"local", "unknown"},
                                  !["device"] = @ \cup {"m_Device"}]
      <4>1. ptr'["queue"] = {"local", "unknown"}
        BY <1>0, <3>3, ObjectNames DEF Holders
      <4> QED
        BY <3>1, <4>1
    <3> QED
      BY <1>5, <3>2, <3>3 DEF NewQueue
  <2>2. \E r \in 0..1 : live' = [live EXCEPT !["ring"] = @ + r]
    <3>1. live = [live EXCEPT !["ring"] = @ + 0]
      BY <1>0
    <3> QED
      BY <1>5, <3>1 DEF NewQueue
  <2>3. /\ \A r \in Resources \ {"ring"} : live'[r] = live[r]
        /\ live'["ring"] \in 0..1
    BY <1>0, <2>1, <2>2
  <2>4. ptr'["queue"] = {} => live'["ring"] = 0
    BY <2>1
  <2> QED
    BY <2>1, <2>3, <2>4 DEF ToCleanUp
<1>6. CASE QueueExit \/ DropQueue
  <2>1. locals' = locals /\ members' = members
    BY <1>6 DEF QueueExit, DropQueue
  <2>2. CASE ptr'["queue"] = {}
    <3>1. live' = GivenBack({"ring"} \cap {x \in Resources : live[x] = 1})
      BY <1>6, <2>2, QueueGone
    <3> QED
      BY <1>0, <2>1, <2>2, <3>1 DEF GivenBack, ToCleanUp
  <2>3. CASE ptr'["queue"] # {}
    <3>1. live' = live
      BY <1>6, <2>3, QueueGone
    <3> QED
      BY <2>1, <2>3, <3>1 DEF ToCleanUp
  <2> QED
    BY <2>2, <2>3
<1>7. CASE ConfigureExit
  <2>1. /\ pc = "exit" /\ locals' = {} /\ ptr'["queue"] = ptr["queue"] /\ members' = members
        /\ live' = GivenBack(IF "created" \in members
                               THEN locals \ {"legacyStore", "pdoName"} ELSE locals)
    BY <1>0, <1>7 DEF ConfigureExit, Holders, Objects
  <2>2. "created" \in members <=> ToCleanUp
    BY <2>1 DEF KeyPart, ToCleanUp
  <2>3. CASE ToCleanUp
    <3>1. {"legacyStore", "pdoName"} \subseteq locals
          /\ live' = GivenBack(locals \ {"legacyStore", "pdoName"}) /\ ToCleanUp'
      BY <2>1, <2>2, <2>3 DEF SetPart, ToCleanUp
    <3> QED
      BY <1>0, <2>1, <2>3, <3>1 DEF GivenBack
  <2>4. CASE ~ToCleanUp
    <3>1. live' = GivenBack(locals) /\ ~ToCleanUp'
      BY <2>1, <2>2, <2>4 DEF ToCleanUp
    <3> QED
      BY <1>0, <2>1, <2>4, <3>1 DEF GivenBack
  <2> QED
    BY <2>3, <2>4
<1>8. CASE OnCleanup
  <2>1. locals = {} /\ locals' = {} /\ ptr' = ptr
    BY <1>8 DEF OnCleanup, SetPart, objectVars, Early
  <2>2. CASE ToCleanUp
    <3>1. live' = GivenBack({"legacyStore", "pdoName"}) /\ ~ToCleanUp'
      BY <1>8, <2>2 DEF OnCleanup, ToCleanUp
    <3> QED
      BY <1>0, <2>1, <2>2, <3>1 DEF GivenBack
  <2>3. CASE ~ToCleanUp
    BY <1>8, <2>1, <2>3 DEF OnCleanup, ToCleanUp
  <2> QED
    BY <2>2, <2>3
<1>9. CASE OnDeviceAdd
  <2>1. /\ live' = live /\ locals' = locals /\ ptr'["queue"] = ptr["queue"]
        /\ ~ToCleanUp /\ ~ToCleanUp'
    BY <1>0, <1>9 DEF OnDeviceAdd, objectVars, KeyPart, ToCleanUp, Holders, Objects, Early
  <2> QED
    BY <2>1
<1>10. CASE CreateDefaultQueue \/ DllGetClassObject \/ FactoryCreateInstance
            \/ ReleaseFactory \/ ReleaseDriver \/ CreateDevice \/ DropDevice
  <2>1. /\ UNCHANGED <<locals, members, live>>
        /\ ptr'["queue"] = ptr["queue"] \/ ptr'["queue"] = ptr["queue"] \cup FxQueue
    BY <1>0, <1>10 DEF CreateDefaultQueue, DllGetClassObject, FactoryCreateInstance,
       ReleaseFactory, ReleaseDriver, CreateDevice, DropDevice, configureVars, objectVars,
       Holders, Objects
  <2> QED
    BY <2>1 DEF ToCleanUp, FxQueue
<1>11. CASE CreateManualQueue \/ OpenPipes \/ SetBaudRate \/ Remove \/ Removed
            \/ UNCHANGED lvars
  BY <1>11 DEF CreateManualQueue, OpenPipes, SetBaudRate, Remove, Removed, lvars,
     configureVars, objectVars, ToCleanUp
<1>12. CASE Crash
  BY <1>0, <1>12 DEF Crash, ToCleanUp
<1> QED
  BY <1>1, <1>2, <1>3, <1>4, <1>5, <1>6, <1>7, <1>8, <1>9, <1>10, <1>11, <1>12
     DEF LifecycleNext

-----------------------------------------------------------------------------
(* The theorems.                                                           *)

LEMMA LifecycleStarts == LifecycleInit => LifecycleInv
<1> SUFFICES ASSUME LifecycleInit PROVE LifecycleInv
  OBVIOUS
<1> USE DEF LifecycleInit
<1>1. LifecycleTypeOK
  <2>1. PlaceOK
    BY DEF PlaceOK, Pcs
  <2>2. ObjectsOK
    BY DEF ObjectsOK, Counts, Holders
  <2>3. ConfigureOK
    <3>1. live \in [Resources -> Int]
      OBVIOUS
    <3> QED
      BY <3>1 DEF ConfigureOK
  <2>4. PipeOK
    BY DEF PipeOK
  <2>5. BoundsOK
    BY LifecycleAssumption DEF BoundsOK
  <2> QED
    BY <2>1, <2>2, <2>3, <2>4, <2>5, TypeParts
<1>2. RefsCountPointers
  BY NoPointer DEF RefsCountPointers
<1>3. PointerPart /\ QueuePart /\ PipePart
  BY EarlyPlaces DEF PointerPart, QueuePart, PipePart, DevicePresent, Early, QueueInit, Objects
<1>4. KeyPart
  BY EarlyPlaces DEF KeyPart, ToCleanUp, QueueInit, Early
<1>5. ResourcePart
  BY EarlyPlaces DEF ResourcePart, ToCleanUp, QueueInit, Early, Resources
<1> QED
  BY <1>1, <1>2, <1>3, <1>4, <1>5 DEF LifecycleInv

LEMMA LifecycleStep ==
  ASSUME LifecycleInv, [LifecycleNext]_lvars PROVE LifecycleInv'
<1>1. /\ LifecycleTypeOK /\ RefsCountPointers /\ PointerPart /\ QueuePart /\ KeyPart
      /\ PipePart /\ TakenPart /\ SetPart
  BY ResourceParts DEF LifecycleInv
<1>2. PlaceOK /\ ObjectsOK /\ ConfigureOK /\ PipeOK /\ ObjectInv
  BY <1>1, TypeParts DEF ObjectInv
<1>3. LifecycleTypeOK'
  BY <1>1, TypeStep
<1>4. RefsCountPointers' /\ PointerPart' /\ QueuePart'
  BY <1>1, <1>2, RefsStep, PointerStep, QueueStep
<1>5. KeyPart' /\ PipePart' /\ SetPart'
  BY <1>1, <1>2, KeyStep, PipePartStep, SetStep
<1>6. TakenPart'
  BY <1>1, <1>2, <1>4, TakenStep
<1>7. ResourcePart'
  BY <1>5, <1>6, ResourceParts, PTL
<1> QED
  BY <1>3, <1>4, <1>5, <1>7 DEF LifecycleInv

(* Pointers, resources, the key and the pipe are as they should be at each *)
(* place of the driver's code (DllGetClassObject to the end of a device).  *)
THEOREM LifecycleInvariant == LifecycleSpec => []LifecycleInv
<1>1. LifecycleInit => LifecycleInv
  BY LifecycleStarts
<1>2. LifecycleInv /\ [LifecycleNext]_lvars => LifecycleInv'
  BY LifecycleStep
<1> QED
  BY <1>1, <1>2, PTL DEF LifecycleSpec

(* An object is deleted when nobody points to it any more, and no sooner   *)
(* (CUnknown::Release, CMyQueue::Initialize, CMyDevice::CreateInstance).   *)
THEOREM ReferencesAreCounted == LifecycleSpec => []RefsCountPointers
<1>1. LifecycleInv => RefsCountPointers
  BY DEF LifecycleInv
<1> QED
  BY <1>1, LifecycleInvariant, PTL

(* Memory, stores and handles are given back exactly once (Configure,      *)
(* GetPdoName, OnCleanup and ~CMyQueue).                                   *)
THEOREM ResourcesAreReleasedOnce == LifecycleSpec => []ReleasedOnce
<1>1. ASSUME LifecycleInv PROVE ReleasedOnce
  <2>1. TakenPart /\ SetPart /\ KeyPart /\ PointerPart
    BY <1>1, ResourceParts DEF LifecycleInv
  <2>2. \A r \in Resources : live[r] \in 0..1
    BY <2>1 DEF TakenPart
  <2>3. ASSUME ~DevicePresent PROVE \A r \in Resources : live[r] = 0
    <3>1. pc \in {"unloaded", "idle", "createDevice"}
      BY <2>3 DEF DevicePresent
    <3>2. locals = {} /\ ~ToCleanUp /\ ptr["queue"] = {}
      BY <2>1, <2>3, <3>1, EarlyPlaces DEF SetPart, KeyPart, PointerPart, QueueInit, Early
    <3> QED
      BY <2>1, <3>2 DEF TakenPart
  <2> QED
    BY <2>2, <2>3 DEF ReleasedOnce
<1> QED
  BY <1>1, LifecycleInvariant, PTL

(* The legacy hardware key has a value exactly while the device that wrote *)
(* it is there, but for one that a dead host or a failed deletion left     *)
(* (Configure, OnCleanup).                                                 *)
THEOREM KeyFollows == LifecycleSpec => []KeyFollowsDevice
<1>1. ASSUME LifecycleInv PROVE KeyFollowsDevice
  <2>1. KeyPart
    BY <1>1 DEF LifecycleInv
  <2> QED
    BY <2>1 DEF KeyPart, ToCleanUp, KeyFollowsDevice, DevicePresent, QueueInit
<1> QED
  BY <1>1, LifecycleInvariant, PTL

(* The queue's destructor leaves the next device no pipe and no flag       *)
(* (~CMyQueue, closePipes).                                                *)
THEOREM PipeIsFresh == LifecycleSpec => []FreshPipe
<1>1. ASSUME LifecycleInv PROVE FreshPipe
  <2>1. PipePart /\ PipeOK /\ refs["queue"] = Cardinality(ptr["queue"])
        /\ ptr["queue"] \in SUBSET Pointers
    BY <1>1, TypeParts, ObjectNames DEF LifecycleInv, RefsCountPointers, ObjectsOK, Holders
  <2>2. refs["queue"] = 0 => ptr["queue"] = {}
    BY <2>1, PointersFinite, FS_EmptySet
  <2> QED
    BY <2>1, <2>2 DEF PipePart, PipeOK, FreshPipe
<1> QED
  BY <1>1, LifecycleInvariant, PTL
=============================================================================
