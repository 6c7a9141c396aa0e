------------------------------ MODULE Hardware ------------------------------
(***************************************************************************)
(* Three devices of aura/hardware: virtual memory (vram.py), virtual disks *)
(* (vdisk.py) and the Bluetooth bus (vbt.py).  They share nothing; each    *)
(* has its own RLock, and each operation is one critical section, except   *)
(* send(), which publishes after it has released the lock.                 *)
(***************************************************************************)
EXTENDS Integers, FiniteSets, Functions

CONSTANTS
  Block,      \* allocation ids
  Owner,      \* subsystems that own memory
  Size,       \* sizes of a request, in units of memory
  TotalRam,   \* VRAMDevice._total_mb
  Volume,     \* volume ids
  Label,      \* volume names
  MountPoint, \* where a volume may be mounted
  Peripheral  \* Bluetooth device ids

ASSUME HardwareAssumption ==
  /\ IsFiniteSet(Block) /\ Size \subseteq Nat /\ TotalRam \in Nat \ {0}

VARIABLES
  block,      \* VRAMDevice._allocations: owner and size, or none
  alarm,      \* history: the event the last allocation published
  volume,     \* VDiskDevice._volumes: name and mount point, or none
  dirs,       \* the names with a directory vol_<name> on the host
  robbed,     \* history: volumes whose directory went with a namesake's
  link,       \* the state of each peripheral
  paired,     \* history: peripherals that were paired at some time
  message     \* a send() past its check and before its publication

ramVars  == <<block, alarm>>
diskVars == <<volume, dirs, robbed>>
busVars  == <<link, paired, message>>
hardwareVars == <<ramVars, diskVars, busVars>>

None == <<>>

-----------------------------------------------------------------------------
(* Memory. *)

Allocated == {b \in Block : block[b] # None}
UsedRam == SumFunctionOnSet([b \in Allocated |-> block[b].mb], Allocated)

\* Mutant of Fits: a request of one unit more than is left is granted.
FitsLoosely(mb) == mb <= TotalRam - UsedRam + 1
Fits(mb) == mb <= TotalRam - UsedRam

\* _check_pressure: critical from 95 %, pressure from 80 %.
AlarmAt(used) == IF 100 * used >= 95 * TotalRam THEN "vram.critical"
                 ELSE IF 100 * used >= 80 * TotalRam THEN "vram.pressure" ELSE "none"

RamInit == block = [b \in Block |-> None] /\ alarm = "none"

\* A request that does not fit raises MemoryError and changes nothing.
Allocate(b, o, mb) ==
  /\ block[b] = None /\ Fits(mb)
  /\ block' = [block EXCEPT ![b] = [owner |-> o, mb |-> mb]]
  /\ alarm' = AlarmAt(UsedRam + mb)

FreeBlock(b) ==
  /\ block[b] # None /\ block' = [block EXCEPT ![b] = None] /\ UNCHANGED alarm

FreeOwner(o) ==
  /\ \E b \in Allocated : block[b].owner = o
  /\ block' = [b \in Block |-> IF b \in Allocated /\ block[b].owner = o THEN None ELSE block[b]]
  /\ UNCHANGED alarm

RamNext == \/ \E b \in Block, o \in Owner, mb \in Size : Allocate(b, o, mb)
           \/ \E b \in Block : FreeBlock(b)
           \/ \E o \in Owner : FreeOwner(o)

-----------------------------------------------------------------------------
(* Disks. *)

Volumes  == {v \in Volume : volume[v] # None}
Unmounted == "nowhere"

\* The system volumes are created with the device.
DiskInit ==
  /\ \E v \in Volume, n \in Label :
       /\ volume = [w \in Volume |-> IF w = v THEN [name |-> n, at |-> Unmounted] ELSE None]
       /\ dirs = {n}
  /\ robbed = {}

DirOf(v) == volume[v].name

\* Mutant of CreateVolume: the directory of an earlier volume is taken for its own.
CreateVolumeNoDir(v, n) ==
  /\ volume[v] = None
  /\ volume' = [volume EXCEPT ![v] = [name |-> n, at |-> Unmounted]]
  /\ UNCHANGED dirs /\ robbed' = robbed \ {v}

\* A volume with the name of another one shares its directory.
CreateVolume(v, n) ==
  /\ volume[v] = None
  /\ volume' = [volume EXCEPT ![v] = [name |-> n, at |-> Unmounted]]
  /\ dirs' = dirs \cup {n} /\ robbed' = robbed \ {v}

\* A volume that is mounted stays where it is, and the caller hears True.
MountVolume(v, p) ==
  /\ v \in Volumes /\ volume[v].at = Unmounted
  /\ volume' = [volume EXCEPT ![v].at = p] /\ UNCHANGED <<dirs, robbed>>

UnmountVolume(v) ==
  /\ v \in Volumes /\ volume[v].at # Unmounted
  /\ volume' = [volume EXCEPT ![v].at = Unmounted] /\ UNCHANGED <<dirs, robbed>>

\* delete_volume() removes the directory, mounted or not, unless the host
\* refuses; the volume is dropped in either case.
DeleteVolume(v, refused) ==
  /\ v \in Volumes
  /\ volume' = [volume EXCEPT ![v] = None]
  /\ IF refused THEN UNCHANGED <<dirs, robbed>>
     ELSE /\ dirs' = dirs \ {DirOf(v)}
          /\ robbed' = (robbed \ {v}) \cup {w \in Volumes \ {v} : DirOf(w) = DirOf(v)}

DiskNext == \E v \in Volume :
              \/ \E n \in Label : CreateVolume(v, n)
              \/ \E p \in MountPoint : MountVolume(v, p)
              \/ UnmountVolume(v)
              \/ \E refused \in BOOLEAN : DeleteVolume(v, refused)

-----------------------------------------------------------------------------
(* Bluetooth. *)

BusInit == /\ link = [p \in Peripheral |-> "unknown"] /\ paired = {} /\ message = None

Discover(p) ==
  /\ link[p] = "unknown"
  /\ link' = [link EXCEPT ![p] = "discovered"] /\ UNCHANGED <<paired, message>>

\* pair() asks for no particular state: a connected peripheral is paired
\* again and so no longer connected.
Pair(p) ==
  /\ link[p] # "unknown"
  /\ link' = [link EXCEPT ![p] = "paired"] /\ paired' = paired \cup {p}
  /\ UNCHANGED message

\* Mutant of Connectable: connect() takes any known peripheral.
ConnectableAny(p) == link[p] # "unknown"
Connectable(p) == link[p] \in {"paired", "disconnected"}

Connect(p) ==
  /\ Connectable(p)
  /\ link' = [link EXCEPT ![p] = "connected"] /\ UNCHANGED <<paired, message>>

Disconnect(p) ==
  /\ link[p] = "connected"
  /\ link' = [link EXCEPT ![p] = "disconnected"] /\ UNCHANGED <<paired, message>>

\* send() looks under the lock and publishes without it; power_off() is
\* looked at by nobody.
SendLook(p) ==
  /\ message = None /\ link[p] = "connected"
  /\ message' = <<p>> /\ UNCHANGED <<link, paired>>
SendPublish == message # None /\ message' = None /\ UNCHANGED <<link, paired>>

BusNext == \/ SendPublish
           \/ \E p \in Peripheral : \/ Discover(p) \/ Pair(p) \/ Connect(p)
                                    \/ Disconnect(p) \/ SendLook(p)

-----------------------------------------------------------------------------
(* Properties. *)

HardwareTypeOK ==
  /\ \A b \in Allocated : block[b] \in [owner : Owner, mb : Size]
  /\ \A v \in Volumes : volume[v].name \in Label
  /\ link \in [Peripheral -> {"unknown", "discovered", "paired", "connected", "disconnected"}]
  /\ paired \subseteq Peripheral

\* The blocks never sum up to more than there is, whoever frees what in
\* between, and memory is never fuller than the last alarm said: an alarm is
\* raised by every allocation that reaches 80 % or 95 % and survives until
\* the next allocation (allocate, free, free_owner, _check_pressure).
RamWithinTotal ==
  /\ UsedRam <= TotalRam
  /\ 100 * UsedRam >= 80 * TotalRam => alarm # "none"
  /\ 100 * UsedRam >= 95 * TotalRam => alarm = "vram.critical"

\* A volume has its directory until it is deleted, unless it shares its name
\* with another one: deleting that takes the data of both (delete_volume).
VolumesKeepData == \A v \in Volumes \ robbed : volume[v].name \in dirs

\* Only what has been paired is ever connected, and only it is sent to.
ConnectedWasPaired ==
  \A p \in Peripheral :
    link[p] \in {"connected", "disconnected"} \/ message = <<p>> => p \in paired
=============================================================================
