-------------------------------- MODULE Boot --------------------------------
(***************************************************************************)
(* From the power button to the kernel: the end of os.js/bios/bios.ts,     *)
(* which runs the EEPROM, and os.js/bios/bootloader.ts, the program on the *)
(* EEPROM, which chooses a file system, stores its address on the EEPROM   *)
(* and runs its kernel.                                                    *)
(*                                                                         *)
(* Each component call is a yield, during which the player may take        *)
(* components away, add them or change what is on a disk, and may bring    *)
(* another EEPROM, with other data.  A call of a component that is gone    *)
(* ends the machine with an error.  The source on every EEPROM is the boot *)
(* loader.                                                                 *)
(***************************************************************************)
EXTENDS Integers

CONSTANTS
  Disks,    \* the file systems there are
  Eeproms   \* the EEPROMs there are

VARIABLES
  eeprom,    \* the EEPROM in the computer, if there is one: it has one place
  disks,     \* disks in the computer
  kernels,   \* disks with a /kernel.js
  bootAddr,  \* the data of each EEPROM: a disk, or none
  pc,
  own,       \* the EEPROM that first() has found
  fs,        \* the boot loader's choice
  toCheck,   \* file systems of the list that the loop has not looked at
  \* history
  hotplug    \* the player has changed something since the computer was on

world == <<eeprom, disks, kernels, hotplug>>
vars == <<world, bootAddr, pc, own, fs, toCheck>>

Optional(S) == {{}} \cup {{x} : x \in S}
Booting == {"bios", "biosProxy", "eeprom", "first", "firstProxy", "getData", "proxy",
            "list", "next", "exists", "setData", "read", "compile"}
Ends == {"kernel", "noEeprom", "noMedium", "error", "crashed"}

TypeOK ==
  /\ eeprom \in Optional(Eeproms) /\ own \in Optional(Eeproms)
  /\ disks \subseteq Disks /\ kernels \subseteq Disks
  /\ bootAddr \in [Eeproms -> Optional(Disks)]
  /\ pc \in {"off"} \cup Booting \cup Ends
  /\ fs \in Optional(Disks)
  /\ toCheck \subseteq Disks
  /\ hotplug \in BOOLEAN

Init ==
  /\ eeprom \in Optional(Eeproms) /\ disks \in SUBSET Disks /\ kernels \in SUBSET Disks
  /\ bootAddr = [e \in Eeproms |-> {}]
  /\ pc = "off" /\ own = {} /\ fs = {} /\ toCheck = {} /\ hotplug = FALSE

-----------------------------------------------------------------------------
(* The player.                                                             *)

Change == hotplug' = (pc # "off") /\ UNCHANGED <<bootAddr, pc, own, fs, toCheck>>

\* Taken out, or put in, with the data it has from where it was before.
PlugEeprom(e) ==
  /\ eeprom \subseteq {e}
  /\ eeprom' = {e} \ eeprom
  /\ UNCHANGED <<disks, kernels>>
  /\ Change

PlugDisk(d) ==
  /\ disks' = IF d \in disks THEN disks \ {d} ELSE disks \cup {d}
  /\ UNCHANGED <<eeprom, kernels>>
  /\ Change

ChangeDisk(d) ==
  /\ kernels' = IF d \in kernels THEN kernels \ {d} ELSE kernels \cup {d}
  /\ UNCHANGED <<eeprom, disks>>
  /\ Change

TurnOn ==
  /\ pc = "off"
  /\ pc' = "bios" /\ own' = {} /\ fs' = {} /\ toCheck' = {}
  /\ UNCHANGED <<world, bootAddr>>

\* Whatever has ended the boot, or in the middle of it.
TurnOff ==
  /\ pc # "off"
  /\ pc' = "off" /\ hotplug' = FALSE
  /\ UNCHANGED <<eeprom, disks, kernels, bootAddr, own, fs, toCheck>>

-----------------------------------------------------------------------------
(* bios.ts.                                                                *)

\* list('eeprom') of first().
First(next) ==
  /\ own' = eeprom
  /\ pc' = IF eeprom # {} THEN next ELSE "noEeprom"
  /\ UNCHANGED <<world, bootAddr, fs, toCheck>>

\* A call of the EEPROM that was found, by its address.
Found == own # {} /\ own = eeprom

\* proxy() of first(): null if that EEPROM is gone by now.
FirstProxy(next) ==
  /\ pc' = IF Found THEN next ELSE "noEeprom"
  /\ UNCHANGED <<world, bootAddr, own, fs, toCheck>>

Bios == pc = "bios" /\ First("biosProxy")
BiosProxy == pc = "biosProxy" /\ FirstProxy("eeprom")

\* eeprom.get(), and the boot loader is compiled and run.
RunEeprom ==
  /\ pc = "eeprom"
  /\ pc' = IF Found THEN "first" ELSE "error"
  /\ UNCHANGED <<world, bootAddr, own, fs, toCheck>>

-----------------------------------------------------------------------------
(* bootloader.ts.                                                          *)

FirstEeprom == pc = "first" /\ First("firstProxy")
EepromProxy == pc = "firstProxy" /\ FirstProxy("getData")

GetData ==
  /\ pc = "getData"
  /\ IF Found THEN fs' = UNION {bootAddr[e] : e \in own} /\ pc' = "proxy"
              ELSE pc' = "error" /\ UNCHANGED fs
  /\ UNCHANGED <<world, bootAddr, own, toCheck>>

\* proxy() is null for an address that no component has.  A component that is
\* there is taken for the boot file system, whatever is on it.
ProxyBootAddr ==
  /\ pc = "proxy"
  /\ IF fs # {} /\ fs \subseteq disks
       THEN pc' = "setData" /\ UNCHANGED fs
       ELSE pc' = "list" /\ fs' = {}
  /\ UNCHANGED <<world, bootAddr, own, toCheck>>

ListFilesystems ==
  /\ pc = "list"
  /\ toCheck' = disks
  /\ pc' = "next"
  /\ UNCHANGED <<world, bootAddr, own, fs>>

CheckNext ==
  /\ pc = "next"
  /\ \E d \in toCheck :
       /\ toCheck' = toCheck \ {d}
       /\ IF d \in disks THEN fs' = {d} /\ pc' = "exists"
                         ELSE UNCHANGED <<fs, pc>>
  /\ UNCHANGED <<world, bootAddr, own>>

\* Mutant: the loop does not ask for a kernel.
ExistsUnchecked ==
  /\ pc = "exists"
  /\ IF fs \subseteq disks THEN pc' = "setData" ELSE pc' = "error"
  /\ UNCHANGED <<world, bootAddr, own, fs, toCheck>>

Exists ==
  /\ pc = "exists"
  /\ IF fs \subseteq disks
       THEN IF fs \subseteq kernels THEN pc' = "setData" /\ UNCHANGED fs
                                    ELSE pc' = "next" /\ fs' = {}
       ELSE pc' = "error" /\ UNCHANGED fs
  /\ UNCHANGED <<world, bootAddr, own, toCheck>>

\* Mutant: the loop starts over.
NoMediumRetries ==
  /\ pc = "next" /\ toCheck = {}
  /\ pc' = "list"
  /\ UNCHANGED <<world, bootAddr, own, fs, toCheck>>

NoMedium ==
  /\ pc = "next" /\ toCheck = {}
  /\ pc' = "noMedium"
  /\ UNCHANGED <<world, bootAddr, own, fs, toCheck>>

Stored(e) == [bootAddr EXCEPT ![e] = fs]

\* Mutant: the EEPROM is looked up again, and another may be in its place.
SetDataOfPresent ==
  /\ pc = "setData"
  /\ IF eeprom # {} THEN pc' = "read" /\ \E e \in eeprom : bootAddr' = Stored(e)
                    ELSE pc' = "error" /\ UNCHANGED bootAddr
  /\ UNCHANGED <<world, own, fs, toCheck>>

SetData ==
  /\ pc = "setData"
  /\ IF Found THEN pc' = "read" /\ \E e \in own : bootAddr' = Stored(e)
              ELSE pc' = "error" /\ UNCHANGED bootAddr
  /\ UNCHANGED <<world, own, fs, toCheck>>

\* readFileToString: opening a file that is not there fails.
ReadKernel ==
  /\ pc = "read"
  /\ pc' = IF fs \subseteq disks /\ fs \subseteq kernels THEN "compile" ELSE "error"
  /\ UNCHANGED <<world, bootAddr, own, fs, toCheck>>

\* The kernel compiles and runs, or throws and is reported by bios.ts.
RunKernel ==
  /\ pc = "compile"
  /\ pc' \in {"kernel", "crashed"}
  /\ UNCHANGED <<world, bootAddr, own, fs, toCheck>>

\* 'Kernel ended execution'.
KernelEnds ==
  /\ pc = "kernel"
  /\ pc' = "crashed"
  /\ UNCHANGED <<world, bootAddr, own, fs, toCheck>>

-----------------------------------------------------------------------------
Loader == \/ Bios \/ BiosProxy \/ RunEeprom \/ FirstEeprom \/ EepromProxy
          \/ GetData \/ ProxyBootAddr \/ ListFilesystems \/ CheckNext \/ Exists \/ NoMedium \/ SetData
          \/ ReadKernel \/ RunKernel

Player == \/ TurnOn \/ TurnOff
          \/ \E e \in Eeproms : PlugEeprom(e)
          \/ \E d \in Disks : PlugDisk(d) \/ ChangeDisk(d)

Next == Loader \/ KernelEnds \/ Player

\* The script runs on; the player need not do anything.
Spec == Init /\ [][Next]_vars
FairSpec == Spec /\ WF_vars(Loader)

-----------------------------------------------------------------------------
(* Properties.                                                             *)

\* A disk whose kernel runs is the one whose address is stored on the EEPROM that
\* the boot loader found, whatever was stored before and however disks and EEPROMs
\* come and go: the next boot from that EEPROM tries it first.
KernelIsStored ==
  pc \in {"read", "compile", "kernel"} =>
    fs # {} /\ \E e \in own : bootAddr[e] = fs

\* A computer in which nothing changes while it boots gives up for want of a
\* medium only if there is none, changes the stored address only to a disk that
\* boots, and meets an error only on a disk without a kernel whose address was
\* stored before: the loop misses no disk and chooses none that fails.
FailsForAReason ==
  [][~hotplug /\ ~hotplug' =>
       /\ pc = "next" /\ pc' = "noMedium" => disks \cap kernels = {}
       /\ \A e \in Eeproms :
            bootAddr'[e] # bootAddr[e] => bootAddr'[e] \subseteq disks \cap kernels
       /\ pc \in Booting /\ pc' = "error" => fs \subseteq disks \ kernels]_vars

\* However disks and EEPROMs come and go, a boot ends: in the kernel, or with a message.
BootEnds == pc = "bios" ~> pc \in Ends \cup {"off"}
=============================================================================
