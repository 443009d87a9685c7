-------------------------------- MODULE Bus --------------------------------
(***************************************************************************)
(* The bus driver (WinNtBusDriverDxe): its Start creates a child with a    *)
(* WinNtIo interface for every device that the PCDs name, or for the one   *)
(* that a device path names.  The drivers of the devices hold WinNtIo.     *)
(***************************************************************************)
EXTENDS Naturals, Sequences, FiniteSets

CONSTANTS
    Type,       \* the types of devices in the table of the PCDs
    OtherType,  \* a node of a device path that is of no type of the table
    EnvString,  \* what a PCD says of each device of its type, in sequence
    AllPath,    \* no device path at all
    EndPath     \* the end of a device path

ASSUME EnvStringAssumption == DOMAIN EnvString = Type /\ OtherType \notin Type

(* The instances of a type are counted from 0 in the sub strings of its    *)
(* PCD; the node of a device's path has its type's GUID and the instance.  *)
Node(type, count) == [type |-> type, instance |-> count]
Device == UNION {{Node(t, i - 1) : i \in DOMAIN EnvString[t]} : t \in Type}
String(d) == EnvString[d.type][d.instance + 1]

(* RemainingDevicePath; the last two are nodes that name no device.        *)
Path == Device \cup {AllPath, EndPath, Node(OtherType, 0)}
            \cup {Node(t, Len(EnvString[t])) : t \in Type}

VARIABLES
    busOpen,    \* the thunk and the controller's path are open BY_DRIVER
    busDevice,  \* WIN_NT_BUS_DEVICE is installed on the controller
    children    \* the devices with an installed WinNtIo and device path
busVars == <<busOpen, busDevice, children>>

BusInit == busOpen = FALSE /\ busDevice = FALSE /\ children = {}

(* Whether the core will start the driver: for a path that may be a        *)
(* device's, on the thunk's controller, which it may have started.  Of the *)
(* node only the type is looked at.                                        *)
BusSupported(path) == path \notin {AllPath, EndPath} => path.type \in Type

(* A null path asks for every device, its end for none, another one for    *)
(* the device with the type and the instance of its node.                  *)
Wanted(path) == CASE path = AllPath -> Device [] path = EndPath -> {} [] OTHER -> {path} \cap Device

(* Going through the strings, Start installs a child for each one wanted.  *)
(* The path of a device that is there is not installed twice; a child that *)
(* cannot be installed is left out, and without memory for a child or its  *)
(* path it gives up, with the children it has made.                        *)
MakeChildren(path) == \E made \in SUBSET Wanted(path) : children' = children \cup made

(* Started once, the driver only makes children.  Without memory for the   *)
(* bus device, or when that is not installed, Start gives up and leaves    *)
(* the protocols open: for the next Start it is started.                   *)
BusStart(path) ==
    /\ BusSupported(path)
    /\ busOpen' = TRUE
    /\ \/ ~busOpen /\ UNCHANGED <<busDevice, children>>
       \/ busDevice' = (busDevice \/ ~busOpen) /\ MakeChildren(path)

(* Stop uninstalls the children whose drivers let go, and with no child    *)
(* left it takes down the bus device, if there is one.                     *)
BusStopChild(d) ==
    /\ d \in children /\ children' = children \ {d}
    /\ UNCHANGED <<busOpen, busDevice>>
BusStop ==
    /\ busDevice /\ children = {}
    /\ busDevice' = FALSE /\ busOpen' = FALSE
    /\ UNCHANGED children
=============================================================================
