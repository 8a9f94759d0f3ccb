----------------------------- MODULE ContextInit -----------------------------
(***************************************************************************)
(* rdma_context::Init of src/nic/context.cpp, as client_session::Init and *)
(* server_session::Init call it before any other thread starts: InitDevice *)
(* picks and opens the RDMA device named by --dev, then InitMemory        *)
(* allocates the PD and each engine's CQs and regions.  A -1 from Init     *)
(* makes the session's Init return true and main return 1.                 *)
(*                                                                         *)
(* A device name is a sequence of characters; DeviceLists holds the       *)
(* lists ibv_get_device_list may return on the host.  Each verbs call may  *)
(* fail; which one fails inside InitMemory makes no difference to what     *)
(* follows, so its failures are one outcome.  InitCuda is compiled only    *)
(* with GDR and is left out.                                               *)
(***************************************************************************)
EXTENDS Integers, Sequences, SequencesExt

CONSTANTS
    DevName,       \* FLAGS_dev, the devname_ of the context
    DeviceLists,   \* the device lists the host may report
    NoDevice       \* nullptr, the dev of an empty list

ASSUME DevName \in Seq(STRING) /\ DeviceLists \subseteq Seq(Seq(STRING))
       /\ NoDevice \notin UNION {{l[i] : i \in DOMAIN l} : l \in DeviceLists}

VARIABLES
    devices,   \* what ibv_get_device_list returned
    pc,        \* "device", "memory", "ready", "failed" (main returns 1),
               \* "exited" (exit(1)) or "crashed"
    opened     \* the device ibv_open_device opened

vars == <<devices, pc, opened>>

(* The search loop: strncmp(name, devname_, strlen(devname_)) is 0 when    *)
(* devname_ is a prefix of the name.  The first such device breaks the     *)
(* loop; without one, dev keeps the last device the loop looked at, or the *)
(* nullptr it started with.                                                *)
FirstMatch(list) == SelectInSeq(list, LAMBDA name : IsPrefix(DevName, name))

PickDevice(list) ==
    IF FirstMatch(list) # 0 THEN list[FirstMatch(list)]
    ELSE IF list # <<>> THEN list[Len(list)]
    ELSE NoDevice

Init ==
    /\ devices \in DeviceLists
    /\ pc = "device"
    /\ opened = NoDevice

(* InitDevice.  A NULL device list, a failed ibv_open_device or a failed   *)
(* GID query returns -1.  A missing device is only logged, and             *)
(* ibv_open_device(nullptr) dereferences the null device.  A failed port   *)
(* query calls exit(1).                                                    *)
InitDevice ==
    /\ pc = "device"
    /\ \/ pc' = "failed" /\ UNCHANGED opened
       \/ PickDevice(devices) = NoDevice /\ pc' = "crashed" /\ UNCHANGED opened
       \/ /\ PickDevice(devices) # NoDevice
          /\ opened' = PickDevice(devices)
          /\ pc' \in {"exited", "memory"}
    /\ UNCHANGED devices

(* InitMemory: ibv_alloc_pd, then per engine cq_num ibv_create_cq and the  *)
(* send and receive regions' Mallocate; the first failure returns -1.      *)
InitMemory ==
    /\ pc = "memory"
    /\ pc' \in {"failed", "ready"}
    /\ UNCHANGED <<devices, opened>>

Next == InitDevice \/ InitMemory

Spec == Init /\ [][Next]_vars

-----------------------------------------------------------------------------
(***************************************************************************)
(* The context a session goes on with runs on a device --dev names: the    *)
(* flag is the "RDMA device name prefix to open" (specification, section   *)
(* 6.3), and a device that cannot be opened is a setup error that fails   *)
(* init (section 7).  InitDevice's search must not let Init succeed on    *)
(* another device.                                                         *)
(***************************************************************************)
OpenedNamedDevice == pc = "ready" => IsPrefix(DevName, opened)
================================================================================
