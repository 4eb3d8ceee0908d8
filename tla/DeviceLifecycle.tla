--------------------------- MODULE DeviceLifecycle ---------------------------
(***************************************************************************)
(* The objects of the driver and how they come and go: the class factory   *)
(* (dllsup.cpp, comsup.cpp), the driver object (driver.cpp), the device    *)
(* (device.cpp) and the queue (queue.cpp), each a CUnknown that deletes    *)
(* itself when its reference count reaches zero; the memory and the        *)
(* property stores that Configure takes and gives back; and the globals of *)
(* the pipe, which outlive a device.                                       *)
(*                                                                         *)
(* Every call into the framework may fail.  The host process may die, which*)
(* leaves nothing but the value under the legacy hardware key.             *)
(***************************************************************************)
EXTENDS Integers, FiniteSets

CONSTANTS
  MaxAdds,      \* bound on the devices the framework offers the driver
  MaxCrashes    \* bound on the deaths of the host process

ASSUME LifecycleAssumption == MaxAdds \in Nat /\ MaxCrashes \in Nat

VARIABLES
  pc,         \* what the driver's code is about to call; see Pcs
  hr,         \* SUCCEEDED(hr) in the function that runs
  refs,       \* m_ReferenceCount of each object; 0 once it is deleted
  ptr,        \* who has a pointer to each object that he will release
  locals,     \* the variables of Configure and GetPdoName that are set
  members,    \* the same for CMyDevice: "created" is m_CreatedLegacyHardwareKey
  live,       \* how many of each resource have been taken and not given back
  keyValue,   \* the value under the legacy hardware key exists
  keyLeft,    \* nobody will delete it: its host died, or the deletion failed
  pipe,       \* the instance of the pipe: "none" or "live"
  hPipe,      \* _pipe: "null", "invalid", "live" or "stale"
  pipeOpen, fConnected,
  adds, crashes

objectVars == <<refs, ptr>>
configureVars == <<locals, members, live, keyValue, keyLeft>>
pipeVars == <<pipe, hPipe, pipeOpen, fConnected>>
boundVars == <<adds, crashes>>
lvars == <<pc, hr, objectVars, configureVars, pipeVars, boundVars>>

Objects == {"factory", "driver", "device", "queue"}

\* The pointers of the framework are named fx...; of the rest, "local" is the
\* variable of the functions that create the object.
FxDevice == {"fxUnknown", "fxCleanup"}
FxQueue == {"fxUnknown", "fxWrite", "fxRead", "fxIoctl"}
Pointers == {"local", "unknown", "m_Device", "caller"} \cup FxDevice \cup FxQueue

Resources == {"storeFactory", "hardwareStore", "portName", "fullName",
              "devInstId", "infoSet", "pdoName", "legacyStore", "ring"}

(* The calls of Configure, and among them those of GetPdoName, in their    *)
(* order.  A call named like a resource takes that resource.               *)
Then == [interface |-> "interfaceState", interfaceState |-> "storeFactory",
         storeFactory |-> "hardwareStore", hardwareStore |-> "portName",
         portName |-> "length", length |-> "fullName", fullName |-> "print",
         print |-> "symbolicLink", symbolicLink |-> "idLength",
         idLength |-> "devInstId", devInstId |-> "idRead", idRead |-> "infoSet",
         infoSet |-> "openInfo", openInfo |-> "nameLength",
         nameLength |-> "pdoName", pdoName |-> "nameRead",
         nameRead |-> "pdoReturn", legacyStore |-> "legacyValue"]

Calls == DOMAIN Then
PdoCalls == {"idLength", "devInstId", "idRead", "infoSet", "openInfo",
             "nameLength", "pdoName", "nameRead"}

Pcs == {"unloaded", "idle", "createDevice", "legacyValue", "pdoReturn",
        "newQueue", "defaultQueue", "readQueue", "waitMaskQueue", "queueExit",
        "exit", "started", "removing", "dropping"} \cup Calls

LifecycleInit ==
  /\ pc = "unloaded" /\ hr = TRUE
  /\ refs = [o \in Objects |-> 0] /\ ptr = [o \in Objects |-> {}]
  /\ locals = {} /\ members = {}
  /\ live = [r \in Resources |-> 0]
  /\ keyValue = FALSE /\ keyLeft = FALSE
  /\ pipe = "none" /\ hPipe = "null" /\ pipeOpen = FALSE /\ fConnected = FALSE
  /\ adds = 0 /\ crashes = 0

-----------------------------------------------------------------------------
(* CUnknown.                                                               *)

\* new, which starts with one reference, AddRef and Release
New(o) == [refs EXCEPT ![o] = 1]
AddRef(r, o, n) == [r EXCEPT ![o] = @ + n]
Release(r, o) == [r EXCEPT ![o] = @ - 1]

\* Resources given back
GivenBack(gone) == [r \in Resources |-> IF r \in gone THEN live[r] - 1 ELSE live[r]]

\* A bug: the destructor leaves the pipe to the system.
ClosePipes_Never == UNCHANGED pipeVars

\* closePipes: the handle is closed whatever it holds.
ClosePipes ==
  /\ pipe' = IF hPipe = "live" THEN "none" ELSE pipe
  /\ hPipe' = IF hPipe = "live" THEN "stale" ELSE hPipe
  /\ pipeOpen' = FALSE /\ fConnected' = FALSE

\* Release of a reference to the queue; with the last one ~CMyQueue runs, and
\* the destructor of its ring buffer.
QueueReleased(r, ps) ==
  LET left == Release(r, "queue") IN
  IF left["queue"] = 0
    THEN /\ refs' = Release(left, "device")
         /\ ptr' = [ps EXCEPT !["device"] = @ \ {"m_Device"}]
         /\ live' = GivenBack({"ring"} \cap {x \in Resources : live[x] = 1})
         /\ ClosePipes
    ELSE refs' = left /\ ptr' = ps /\ UNCHANGED <<live, pipeVars>>

-----------------------------------------------------------------------------
(* Loading the driver.                                                     *)

\* DllGetClassObject: the factory has the interface the caller wants, or not.
DllGetClassObject ==
  /\ pc = "unloaded" /\ refs["factory"] = 0
  /\ \E found \in BOOLEAN :
       /\ refs' = Release(AddRef(New("factory"), "factory", IF found THEN 1 ELSE 0),
                          "factory")
       /\ ptr' = [ptr EXCEPT !["factory"] = IF found THEN {"caller"} ELSE {}]
  /\ UNCHANGED <<pc, hr, configureVars, pipeVars, boundVars>>

\* CClassFactory::CreateInstance: memory runs out, or the driver object has the
\* interface, or not.
FactoryCreateInstance ==
  /\ pc = "unloaded" /\ "caller" \in ptr["factory"]
  /\ \E created, found \in BOOLEAN :
       /\ refs' = IF created
                    THEN Release(AddRef(New("driver"), "driver",
                                        IF found THEN 1 ELSE 0), "driver")
                    ELSE refs
       /\ ptr' = [ptr EXCEPT !["driver"] =
                    IF created /\ found THEN {"caller"} ELSE {}]
       /\ pc' = IF created /\ found THEN "idle" ELSE pc
  /\ UNCHANGED <<hr, configureVars, pipeVars, boundVars>>

ReleaseFactory ==
  /\ pc \in {"unloaded", "idle"} /\ "caller" \in ptr["factory"]
  /\ refs' = Release(refs, "factory")
  /\ ptr' = [ptr EXCEPT !["factory"] = {}]
  /\ UNCHANGED <<pc, hr, configureVars, pipeVars, boundVars>>

\* The framework is done with the driver and releases it.
ReleaseDriver ==
  /\ pc = "idle" /\ ptr["factory"] = {}
  /\ refs' = Release(refs, "driver")
  /\ ptr' = [ptr EXCEPT !["driver"] = {}]
  /\ pc' = "unloaded"
  /\ UNCHANGED <<hr, configureVars, pipeVars, boundVars>>

-----------------------------------------------------------------------------
(* CMyDriver::OnDeviceAdd and CMyDevice::CreateInstance.                   *)

\* new CMyDevice and QueryIUnknown; without memory OnDeviceAdd fails at once.
OnDeviceAdd ==
  /\ pc = "idle" /\ refs["driver"] > 0 /\ adds < MaxAdds
  /\ adds' = adds + 1
  /\ \/ /\ refs' = AddRef(New("device"), "device", 1)
        /\ ptr' = [ptr EXCEPT !["device"] = {"local", "unknown"}]
        /\ pc' = "createDevice" /\ members' = {}
     \/ UNCHANGED <<pc, objectVars, members>>
  /\ UNCHANGED <<hr, locals, live, keyValue, keyLeft, pipeVars, crashes>>

\* CreateDevice takes references of its own; the one on the interface it was
\* given is dropped either way.  After a failure CreateInstance releases the
\* object, and OnDeviceAdd has no pointer to it.
CreateDevice ==
  /\ pc = "createDevice"
  /\ \/ /\ refs' = Release(AddRef(refs, "device", Cardinality(FxDevice)), "device")
        /\ ptr' = [ptr EXCEPT !["device"] = (@ \ {"unknown"}) \cup FxDevice]
        /\ pc' = "interface"
     \/ /\ refs' = Release(Release(refs, "device"), "device")
        /\ ptr' = [ptr EXCEPT !["device"] = @ \ {"unknown", "local"}]
        /\ pc' = "idle"
  /\ UNCHANGED <<hr, configureVars, pipeVars, boundVars>>

-----------------------------------------------------------------------------
(* CMyDevice::Configure.                                                   *)

\* A call that succeeds; one named like a resource has taken it.
CallSucceeds ==
  /\ pc \in Calls
  /\ pc' = Then[pc] /\ hr' = TRUE
  /\ locals' = locals \cup ({pc} \cap Resources)
  /\ live' = [r \in Resources |-> IF r = pc THEN live[r] + 1 ELSE live[r]]
  /\ UNCHANGED <<objectVars, members, keyValue, keyLeft, pipeVars, boundVars>>

\* GetPdoName goes on to its end, Configure to its Exit label.
CallFails ==
  /\ pc \in Calls
  /\ pc' = IF pc \in PdoCalls THEN "pdoReturn" ELSE "exit"
  /\ hr' = FALSE
  /\ UNCHANGED <<objectVars, configureVars, pipeVars, boundVars>>

\* The end of GetPdoName: the name is kept only on success.
PdoReturn ==
  /\ pc = "pdoReturn"
  /\ LET gone == locals \cap ({"devInstId", "infoSet"}
                               \cup (IF hr THEN {} ELSE {"pdoName"}))
     IN locals' = locals \ gone /\ live' = GivenBack(gone)
  /\ pc' = IF hr THEN "legacyStore" ELSE "exit"
  /\ UNCHANGED <<hr, objectVars, members, keyValue, keyLeft, pipeVars, boundVars>>

\* SetNamedValue, and the members that OnCleanup will need
LegacyValue ==
  /\ pc = "legacyValue"
  /\ \/ /\ keyValue' = TRUE /\ keyLeft' = FALSE
        /\ members' = {"created", "legacyStore", "pdoName"}
        /\ pc' = "newQueue" /\ hr' = TRUE
     \/ /\ pc' = "exit" /\ hr' = FALSE
        /\ UNCHANGED <<members, keyValue, keyLeft>>
  /\ UNCHANGED <<objectVars, locals, live, pipeVars, boundVars>>

-----------------------------------------------------------------------------
(* CMyQueue::CreateInstance and Initialize.                                *)

\* A bug: the constructor keeps the pointer and takes no reference.
NewQueue_Unreferenced ==
  /\ pc = "newQueue"
  /\ \/ /\ refs' = [refs EXCEPT !["queue"] = 2]
        /\ ptr' = [ptr EXCEPT !["queue"] = {"local", "unknown"},
                              !["device"] = @ \cup {"m_Device"}]
        /\ pc' = "defaultQueue" /\ hr' = TRUE
        /\ \E r \in 0..1 : live' = [live EXCEPT !["ring"] = @ + r]
     \/ /\ pc' = "exit" /\ hr' = FALSE /\ UNCHANGED <<objectVars, live>>
  /\ UNCHANGED <<locals, members, keyValue, keyLeft, pipeVars, boundVars>>

\* new CMyQueue, which references the device; the ring buffer gets its memory
\* or not, and what it answers is overwritten.
NewQueue ==
  /\ pc = "newQueue"
  /\ \/ /\ refs' = AddRef(AddRef(New("queue"), "queue", 1), "device", 1)
        /\ ptr' = [ptr EXCEPT !["queue"] = {"local", "unknown"},
                              !["device"] = @ \cup {"m_Device"}]
        /\ pc' = "defaultQueue" /\ hr' = TRUE
        /\ \E r \in 0..1 : live' = [live EXCEPT !["ring"] = @ + r]
     \/ /\ pc' = "exit" /\ hr' = FALSE /\ UNCHANGED <<objectVars, live>>
  /\ UNCHANGED <<locals, members, keyValue, keyLeft, pipeVars, boundVars>>

\* CreateIoQueue of the default queue: the framework takes its callbacks.
CreateDefaultQueue ==
  /\ pc = "defaultQueue"
  /\ \/ /\ refs' = AddRef(refs, "queue", Cardinality(FxQueue))
        /\ ptr' = [ptr EXCEPT !["queue"] = @ \cup FxQueue]
        /\ pc' = "readQueue" /\ hr' = TRUE
     \/ pc' = "queueExit" /\ hr' = FALSE /\ UNCHANGED objectVars
  /\ UNCHANGED <<configureVars, pipeVars, boundVars>>

\* The two manual queues, which have no callbacks
CreateManualQueue ==
  /\ pc \in {"readQueue", "waitMaskQueue"}
  /\ \/ /\ pc' = IF pc = "readQueue" THEN "waitMaskQueue" ELSE "queueExit"
        /\ hr' = TRUE
     \/ pc' = "queueExit" /\ hr' = FALSE
  /\ UNCHANGED <<objectVars, configureVars, pipeVars, boundVars>>

\* The end of Initialize; then the creator's reference is released, by
\* CreateInstance after a failure and else by Configure.
QueueExit ==
  /\ pc = "queueExit"
  /\ QueueReleased(Release(refs, "queue"),
                   [ptr EXCEPT !["queue"] = @ \ {"unknown", "local"}])
  /\ pc' = "exit"
  /\ UNCHANGED <<hr, locals, members, keyValue, keyLeft, boundVars>>

-----------------------------------------------------------------------------
(* The end of Configure and of OnDeviceAdd.                                *)

\* A bug: the store and the name are released although OnCleanup has them.
ConfigureExit_Twice ==
  /\ pc = "exit"
  /\ live' = GivenBack(locals) /\ locals' = {}
  /\ refs' = Release(refs, "device")
  /\ ptr' = [ptr EXCEPT !["device"] = @ \ {"local"}]
  /\ pc' = IF hr THEN "started" ELSE "removing"
  /\ UNCHANGED <<hr, members, keyValue, keyLeft, pipeVars, boundVars>>

\* What the members of the device hold is left to OnCleanup.  OnDeviceAdd drops
\* its reference; when it fails the framework deletes its device object.
ConfigureExit ==
  /\ pc = "exit"
  /\ live' = GivenBack(IF "created" \in members
                         THEN locals \ {"legacyStore", "pdoName"} ELSE locals)
  /\ locals' = {}
  /\ refs' = Release(refs, "device")
  /\ ptr' = [ptr EXCEPT !["device"] = @ \ {"local"}]
  /\ pc' = IF hr THEN "started" ELSE "removing"
  /\ UNCHANGED <<hr, members, keyValue, keyLeft, pipeVars, boundVars>>

-----------------------------------------------------------------------------
(* The device at work and its end.                                         *)

\* A read or a write that opens the pipe: no pipe, a client, or a client that
\* was gone again, whose pipe is closed (see DriverQueue).
OpenPipes ==
  /\ pc = "started" /\ ~pipeOpen
  /\ \/ pipeOpen' = FALSE /\ hPipe' = "invalid" /\ UNCHANGED <<pipe, fConnected>>
     \/ pipeOpen' = TRUE /\ hPipe' = "live" /\ pipe' = "live" /\ fConnected' = TRUE
     \/ pipeOpen' = TRUE /\ hPipe' = "stale" /\ fConnected' = FALSE /\ UNCHANGED pipe
  /\ UNCHANGED <<pc, hr, objectVars, configureVars, boundVars>>

SetBaudRate ==
  /\ pc = "started"
  /\ ClosePipes
  /\ UNCHANGED <<pc, hr, objectVars, configureVars, boundVars>>

\* The device is removed: its requests are over, and OnCleanup comes next.
Remove ==
  /\ pc = "started"
  /\ pc' = "removing"
  /\ UNCHANGED <<hr, objectVars, configureVars, pipeVars, boundVars>>

\* A bug: the value is deleted only by a driver that is unloaded in order.
OnCleanup_KeepsValue ==
  /\ pc = "removing"
  /\ IF {"created", "legacyStore"} \subseteq members
       THEN /\ members' = members \ {"legacyStore"}
            /\ live' = GivenBack({"legacyStore", "pdoName"})
       ELSE UNCHANGED <<members, live>>
  /\ pc' = "dropping"
  /\ UNCHANGED <<hr, objectVars, locals, keyValue, keyLeft, pipeVars, boundVars>>

\* OnCleanup: the result of DeleteNamedValue is not looked at.
OnCleanup ==
  /\ pc = "removing"
  /\ IF {"created", "legacyStore"} \subseteq members
       THEN /\ \/ keyValue' = FALSE /\ keyLeft' = FALSE
               \/ keyLeft' = TRUE /\ UNCHANGED keyValue
            /\ members' = members \ {"legacyStore"}
            /\ live' = GivenBack({"legacyStore", "pdoName"})
       ELSE UNCHANGED <<members, keyValue, keyLeft, live>>
  /\ pc' = "dropping"
  /\ UNCHANGED <<hr, objectVars, locals, pipeVars, boundVars>>

\* The framework releases its pointers, in any order.
DropDevice ==
  /\ pc = "dropping"
  /\ \E p \in ptr["device"] \cap FxDevice :
       ptr' = [ptr EXCEPT !["device"] = @ \ {p}]
  /\ refs' = Release(refs, "device")
  /\ UNCHANGED <<pc, hr, configureVars, pipeVars, boundVars>>

DropQueue ==
  /\ pc = "dropping"
  /\ \E p \in ptr["queue"] \cap FxQueue :
       QueueReleased(refs, [ptr EXCEPT !["queue"] = @ \ {p}])
  /\ UNCHANGED <<pc, hr, locals, members, keyValue, keyLeft, boundVars>>

Removed ==
  /\ pc = "dropping"
  /\ ptr["device"] \cap FxDevice = {} /\ ptr["queue"] \cap FxQueue = {}
  /\ pc' = "idle"
  /\ UNCHANGED <<hr, objectVars, configureVars, pipeVars, boundVars>>

\* The host process dies.
Crash ==
  /\ pc # "unloaded" /\ crashes < MaxCrashes
  /\ crashes' = crashes + 1
  /\ pc' = "unloaded" /\ hr' = TRUE
  /\ refs' = [o \in Objects |-> 0] /\ ptr' = [o \in Objects |-> {}]
  /\ locals' = {} /\ members' = {} /\ live' = [r \in Resources |-> 0]
  /\ keyLeft' = keyValue
  /\ pipe' = "none" /\ hPipe' = "null" /\ pipeOpen' = FALSE /\ fConnected' = FALSE
  /\ UNCHANGED <<keyValue, adds>>

LifecycleNext ==
  \/ DllGetClassObject \/ FactoryCreateInstance \/ ReleaseFactory \/ ReleaseDriver
  \/ OnDeviceAdd \/ CreateDevice
  \/ CallSucceeds \/ CallFails \/ PdoReturn \/ LegacyValue
  \/ NewQueue \/ CreateDefaultQueue \/ CreateManualQueue \/ QueueExit
  \/ ConfigureExit
  \/ OpenPipes \/ SetBaudRate \/ Remove \/ OnCleanup
  \/ DropDevice \/ DropQueue \/ Removed \/ Crash

LifecycleSpec == LifecycleInit /\ [][LifecycleNext]_lvars

-----------------------------------------------------------------------------
(* Properties.                                                             *)

LifecycleTypeOK ==
  /\ pc \in Pcs /\ hr \in BOOLEAN
  /\ refs \in [Objects -> Int] /\ ptr \in [Objects -> SUBSET Pointers]
  /\ locals \subseteq Resources
  /\ members \subseteq {"created", "legacyStore", "pdoName"}
  /\ live \in [Resources -> Int]
  /\ keyValue \in BOOLEAN /\ keyLeft \in BOOLEAN
  /\ pipe \in {"none", "live"}
  /\ hPipe \in {"null", "invalid", "live", "stale"}
  /\ pipeOpen \in BOOLEAN /\ fConnected \in BOOLEAN
  /\ adds \in 0..MaxAdds /\ crashes \in 0..MaxCrashes

(* The reference count of an object is the number of pointers that somebody*)
(* will release: no object is deleted while it is pointed to, none stays   *)
(* when nobody is left to release it, whatever call fails and in whatever  *)
(* order the framework lets go (CUnknown, CreateInstance, Initialize,      *)
(* ~CMyQueue, OnDeviceAdd).                                                *)
RefsCountPointers == \A o \in Objects : refs[o] = Cardinality(ptr[o])

\* A device is configured, at work or being taken down.
DevicePresent == pc \notin {"unloaded", "idle", "createDevice"}

(* Memory, stores and handles are given back exactly once: never twice,    *)
(* and none is kept when the device has gone, also when Configure,         *)
(* GetPdoName or the queue's Initialize fails half-way.                    *)
ReleasedOnce == \A r \in Resources :
  /\ live[r] \in 0..1
  /\ ~DevicePresent => live[r] = 0

(* The value under the legacy hardware key exists only while the device    *)
(* that wrote it does; one that a dead host or a failed deletion has left  *)
(* is taken over by the next device (Configure, OnCleanup).                *)
KeyFollowsDevice ==
  /\ keyValue /\ ~keyLeft => DevicePresent /\ {"created"} \subseteq members
  /\ pc = "started" => keyValue /\ ~keyLeft

(* A device that is added finds no pipe and no flag of the one before it,  *)
(* although _pipe, pipeOpen and fConnected are global (~CMyQueue).         *)
FreshPipe ==
  refs["queue"] = 0 => /\ pipe = "none" /\ hPipe # "live"
                       /\ ~pipeOpen /\ ~fConnected

-----------------------------------------------------------------------------
(* The inductive invariant behind them, in parts.                          *)

\* The variables that are set when each call is made, if all before succeeded
Set == [interface |-> {}, interfaceState |-> {}, storeFactory |-> {},
        hardwareStore |-> {"storeFactory"},
        portName |-> {"storeFactory", "hardwareStore"}]
Names == {"storeFactory", "hardwareStore", "portName"}
SetBefore(c) ==
  CASE c \in DOMAIN Set -> Set[c]
    [] c \in {"length", "fullName"} -> Names
    [] c \in {"print", "symbolicLink", "idLength", "devInstId"} ->
         Names \cup {"fullName"}
    [] c \in {"idRead", "infoSet"} -> Names \cup {"fullName", "devInstId"}
    [] c \in {"openInfo", "nameLength", "pdoName"} ->
         Names \cup {"fullName", "devInstId", "infoSet"}
    [] c \in {"nameRead", "pdoReturn"} ->
         Names \cup {"fullName", "devInstId", "infoSet", "pdoName"}
    [] c = "legacyStore" -> Names \cup {"fullName", "pdoName"}
    [] OTHER -> Names \cup {"fullName", "pdoName", "legacyStore"}

QueueInit == {"defaultQueue", "readQueue", "waitMaskQueue", "queueExit"}
Configuring ==
  Calls \cup {"pdoReturn", "legacyValue", "newQueue", "exit"} \cup QueueInit

\* OnCleanup has something to do.
ToCleanUp == {"created", "legacyStore"} \subseteq members

\* Who points to what, at each place
PointerPart ==
  /\ ptr["factory"] \subseteq {"caller"}
  /\ ptr["driver"] = IF pc = "unloaded" THEN {} ELSE {"caller"}
  /\ "local" \in ptr["device"] <=> pc \in Configuring \cup {"createDevice"}
  /\ "unknown" \in ptr["device"] <=> pc = "createDevice"
  /\ "m_Device" \in ptr["device"] <=> ptr["queue"] # {}
  /\ ptr["device"] \subseteq {"local", "unknown", "m_Device"} \cup FxDevice
  /\ ~DevicePresent => ptr["device"] \cap FxDevice = {} /\ ptr["queue"] = {}
  /\ DevicePresent /\ pc # "dropping" => FxDevice \subseteq ptr["device"]
  /\ ptr["queue"] \subseteq {"local", "unknown"} \cup FxQueue
  /\ pc \in QueueInit <=> "local" \in ptr["queue"]
  /\ pc \in QueueInit <=> "unknown" \in ptr["queue"]
  /\ pc \in Calls \cup {"pdoReturn", "legacyValue", "newQueue"} => ptr["queue"] = {}
  /\ pc = "defaultQueue" => ptr["queue"] \cap FxQueue = {}

\* What is taken, where it is kept, and that it is there when it is needed
ResourcePart ==
  /\ \A r \in Resources \ {"ring"} :
       live[r] = IF r \in locals \/ (r \in {"legacyStore", "pdoName"} /\ ToCleanUp)
                   THEN 1 ELSE 0
  /\ live["ring"] \in 0..1
  /\ ptr["queue"] = {} => live["ring"] = 0
  /\ "ring" \notin locals
  /\ pc \in Calls \cup {"legacyValue", "newQueue"} \cup QueueInit =>
       locals = SetBefore(pc)
  /\ pc = "pdoReturn" /\ hr => locals = SetBefore(pc)
  /\ pc = "pdoReturn" => "legacyStore" \notin locals
  /\ pc = "exit" /\ ToCleanUp => {"legacyStore", "pdoName"} \subseteq locals
  /\ pc \notin Configuring => locals = {}

\* The value is there for OnCleanup to delete exactly when it will delete it.
KeyPart ==
  /\ ToCleanUp <=> (keyValue /\ ~keyLeft)
  /\ pc \in {"newQueue", "started"} \cup QueueInit => ToCleanUp
  /\ pc = "exit" /\ hr => ToCleanUp
  /\ ToCleanUp => pc \in {"newQueue", "exit", "started", "removing"} \cup QueueInit
  /\ "created" \in members /\ pc \in Configuring \cup {"createDevice"} => ToCleanUp

\* The framework has the queue's callbacks from CreateIoQueue on.
QueuePart ==
  \/ pc \in {"readQueue", "waitMaskQueue", "started"}
  \/ pc \in {"queueExit", "exit"} /\ hr
  => FxQueue \subseteq ptr["queue"]

PipePart ==
  /\ pipe = "live" <=> hPipe = "live"
  /\ ~pipeOpen => hPipe # "live" /\ ~fConnected
  /\ ptr["queue"] = {} => ~pipeOpen
  /\ pc \in Configuring => ~pipeOpen

(* Pointers, resources, the key and the pipe at each place of the driver's *)
(* code (DllGetClassObject to the end of the device).                      *)
LifecycleInv ==
  LifecycleTypeOK /\ RefsCountPointers /\ PointerPart /\ QueuePart /\ ResourcePart
    /\ KeyPart /\ PipePart
=============================================================================
