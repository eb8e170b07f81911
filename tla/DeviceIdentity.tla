--------------------------- MODULE DeviceIdentity ---------------------------
(***************************************************************************)
(* The id of the device (getOrCreateDeviceId in App.tsx). The bootstrap     *)
(* effect runs when the application mounts and once more when the genesis   *)
(* check has answered; both runs look for the id in auth.dat and generate   *)
(* one when there is none, and neither waits for the other.                 *)
(***************************************************************************)
EXTENDS Integers, FiniteSets

CONSTANT MaxBoots   \* bound: starts of the application

ASSUME DeviceAssumption == MaxBoots \in Nat \ {0}

VARIABLES
    devRuns,      \* the runs of the bootstrap effect: [stage, id]
    deviceId,     \* deviceId, what the login forms send; 0: not set
    devStored,    \* device_id in auth.dat; 0: none
    devIds,       \* ids generated so far
    devBoots,
    devUnsure,    \* history: two runs generated, or the id was not saved
    devUsed       \* history: the ids the application has used

deviceVars == <<devRuns, deviceId, devStored, devIds, devBoots, devUnsure, devUsed>>

BootRuns == {1, 2}
Mounted == [r \in BootRuns |-> [stage |-> IF r = 1 THEN "reading" ELSE "none", id |-> 0]]
-----------------------------------------------------------------------------
_readStoredDeviceId(r) ==
    /\ devRuns[r].stage = "reading" /\ devStored # 0
    /\ devRuns' = [devRuns EXCEPT ![r] = [stage |-> "set", id |-> devStored]]
    /\ UNCHANGED <<deviceId, devStored, devIds, devBoots, devUnsure, devUsed>>
_generateDeviceId(r) ==
    /\ devRuns[r].stage = "reading" /\ devStored = 0
    /\ devRuns' = [devRuns EXCEPT ![r] = [stage |-> "writing", id |-> devIds + 1]]
    /\ devIds' = devIds + 1
    /\ devUnsure' = (devUnsure \/ \E q \in BootRuns \ {r} : devRuns[q].stage \in {"reading", "writing"})
    /\ UNCHANGED <<deviceId, devStored, devBoots, devUsed>>
\* mutant: the id is not saved
_writeNothing(r, ok) ==
    /\ devRuns[r].stage = "writing"
    /\ devRuns' = [devRuns EXCEPT ![r].stage = "set"]
    /\ UNCHANGED <<deviceId, devStored, devIds, devBoots, devUnsure, devUsed>>
(* The write lands in auth.dat, or fails and the id goes into the session    *)
(* storage, which nothing reads.                                             *)
_writeStoredDeviceId(r, ok) ==
    /\ devRuns[r].stage = "writing"
    /\ devRuns' = [devRuns EXCEPT ![r].stage = "set"]
    /\ devStored' = IF ok THEN devRuns[r].id ELSE devStored
    /\ devUnsure' = (devUnsure \/ ~ok)
    /\ UNCHANGED <<deviceId, devIds, devBoots, devUsed>>
getOrCreateDeviceId(r) ==
    /\ devRuns[r].stage = "set"
    /\ devRuns' = [devRuns EXCEPT ![r].stage = "done"]
    /\ deviceId' = devRuns[r].id /\ devUsed' = devUsed \cup {devRuns[r].id}
    /\ UNCHANGED <<devStored, devIds, devBoots, devUnsure>>
(* The genesis check answers: the effect runs again.                         *)
EffectRunsAgain ==
    /\ devRuns[2].stage = "none"
    /\ devRuns' = [devRuns EXCEPT ![2].stage = "reading"]
    /\ UNCHANGED <<deviceId, devStored, devIds, devBoots, devUnsure, devUsed>>
DeviceRestart ==
    /\ devBoots < MaxBoots /\ devBoots' = devBoots + 1
    /\ devRuns' = Mounted /\ deviceId' = 0
    /\ devUnsure' = (devUnsure \/ \E r \in BootRuns : devRuns[r].stage = "writing")
    /\ UNCHANGED <<devStored, devIds, devUsed>>
-----------------------------------------------------------------------------
DeviceInit ==
    /\ devRuns = Mounted /\ deviceId = 0 /\ devStored = 0 /\ devIds = 0 /\ devBoots = 1
    /\ devUnsure = FALSE /\ devUsed = {}

DeviceNext ==
    \/ \E r \in BootRuns : \/ _readStoredDeviceId(r) \/ _generateDeviceId(r) \/ getOrCreateDeviceId(r)
                           \/ \E ok \in BOOLEAN : _writeStoredDeviceId(r, ok)
    \/ EffectRunsAgain \/ DeviceRestart

DeviceTypeOK ==
    /\ \A r \in BootRuns : devRuns[r].stage \in {"none", "reading", "writing", "set", "done"}
    /\ {deviceId, devStored} \subseteq 0 .. devIds

(* The device keeps its id, within a start and over restarts, unless the two *)
(* runs of the effect overlapped before one was saved, or the file could not *)
(* be written in time.                                                       *)
DeviceIdIsStable == devUnsure \/ Cardinality(devUsed) <= 1
=============================================================================
