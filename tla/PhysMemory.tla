------------------------------ MODULE PhysMemory ------------------------------
(***************************************************************************)
(* Memory for DMA: PhysMemory maps pages of the process and looks up their *)
(* physical address in the kernel's page map; MailboxCore has the graphics *)
(* processor allocate and lock a block and maps that. A block given out is *)
(* a MemInfo, kept by the caller until it is freed.                        *)
(***************************************************************************)
EXTENDS Integers, FiniteSets

CONSTANTS
  Owners,      (* the callers; each keeps one block at a time              *)
  Lengths,     (* lengths asked for, in bytes                              *)
  VirtualPages,(* numbers of pages mmap and valloc may give                *)
  MaxFaults    (* bound: calls of the kernel that fail                     *)

VARIABLES
  chip,        (* the kernel's and the graphics processor's side: pages    *)
               (* mapped for each owner, for each handle "free",           *)
               (* "allocated" or "locked", and descriptors of /dev/mem     *)
               (* left open                                                *)
  driver,      (* the MemInfo of each owner                                *)
  report       (* faults so far, faults of the mailbox, and whether a      *)
               (* MemInfo without memory was freed                         *)

memoryVars == <<chip, driver, report>>

PageSize == 4096
Handles == 1..Cardinality(Owners) + 1
None == [kind |-> "none"]

MemoryInit ==
  /\ chip = [pages |-> [o \in Owners |-> 0], handle |-> [h \in Handles |-> "free"], descriptors |-> 0]
  /\ driver = [o \in Owners |-> None]
  /\ report = [faults |-> 0, mailbox |-> FALSE, refreed |-> FALSE]

Fault == report.faults < MaxFaults /\ report' = [report EXCEPT !.faults = @ + 1]
MailboxFault == report.faults < MaxFaults /\ report' = [report EXCEPT !.faults = @ + 1, !.mailbox = TRUE]
Give(o, info) == driver' = [driver EXCEPT ![o] = info]
-----------------------------------------------------------------------------
(* PhysMemory *)

AlignToPageSize(len) == IF len % PageSize > 0 THEN (len - (len % PageSize)) + PageSize ELSE len
Pages(len) == AlignToPageSize(len) \div PageSize

(* The entry of a page in the page map: eight bytes each. The offset lseek  *)
(* reached is kept in an int and compared with the one asked for.           *)
MaxInt == 2147483647
EntryFound(page) == page <= MaxInt \div 8

(* The kernel's frame of a page.                                            *)
Frame(page) == page + 1000

(* Memory whose physical address is not found is unmapped again.            *)
GetMemory(o, len) ==
  /\ driver[o] = None
  /\ \/ \E page \in VirtualPages :
          /\ EntryFound(page) /\ UNCHANGED report
          /\ chip' = [chip EXCEPT !.pages[o] = @ + Pages(len)]
          /\ Give(o, [kind |-> "page", len |-> len, virtual |-> page, physical |-> Frame(page)])
     \/ /\ \E page \in VirtualPages : ~EntryFound(page)
        /\ UNCHANGED <<chip, driver, report>>
     \/ Fault /\ UNCHANGED <<chip, driver>>

(* An unmapping that fails leaves the caller its MemInfo.                   *)
FreeMemory(o) ==
  /\ driver[o].kind = "page"
  /\ \/ /\ chip' = [chip EXCEPT !.pages[o] = @ - Pages(driver[o].len)]
        /\ Give(o, None) /\ UNCHANGED report
     \/ Fault /\ UNCHANGED <<chip, driver>>
-----------------------------------------------------------------------------
(* MailboxCore: an answer is read where the request had its first value,    *)
(* which is still there when the call failed                                *)

SetHandle(c, h, state) == IF h \in Handles THEN [c EXCEPT !.handle[h] = state] ELSE c

(* A free handle; which one, the graphics processor chooses.                *)
Fresh == {h \in Handles : chip.handle[h] = "free"}

(* The bus address of a locked handle, and what it is on the ARM's side.    *)
BusOf(h) == 49152 + h
BusToPhys(address) == address % 16384

Info(len, virtual, handle, bus) ==
  [kind |-> "mailbox", len |-> len, virtual |-> virtual, physical |-> bus, handle |-> handle]

(* What failed is unlocked and freed, and a MemInfo without an address is   *)
(* given out all the same.                                                  *)
Unusable(o, c, len, handle, bus) ==
  /\ chip' = SetHandle(c, handle, "free")
  /\ Give(o, Info(len, 0, handle, bus))

MapOrNot(o, c, len, handle, bus) ==
  \/ chip' = c /\ Give(o, Info(len, BusToPhys(bus), handle, bus)) /\ UNCHANGED report
  \/ Unusable(o, c, len, handle, bus) /\ Fault
  \/ Unusable(o, [c EXCEPT !.descriptors = @ + 1], len, handle, bus) /\ Fault

AllocAndMap(o, len) ==
  /\ driver[o] = None
  /\ \E h \in Fresh : MapOrNot(o, SetHandle(chip, h, "locked"), len, h, BusOf(h))

(* mem_lock: the handle itself is taken for the address and mapped.         *)
LockFails(o, len) ==
  /\ driver[o] = None /\ MailboxFault
  /\ \E h \in Fresh :
       /\ chip' = SetHandle(chip, h, "allocated")
       /\ Give(o, Info(len, BusToPhys(h), h, h))

(* mem_alloc: the length is taken for a handle, which cannot be locked.     *)
AllocFails(o, len) ==
  /\ driver[o] = None /\ MailboxFault
  /\ Unusable(o, chip, len, len, 0)

(* free_memory unlocks and frees the handle, also a second time.            *)
FreeMailbox(o) ==
  /\ driver[o].kind = "mailbox"
  /\ chip' = SetHandle(chip, driver[o].handle, "free")
  /\ Give(o, None)
  /\ report' = [report EXCEPT !.refreed = @ \/ driver[o].virtual = 0]

MemoryNext ==
  \E o \in Owners :
    \/ FreeMemory(o) \/ FreeMailbox(o)
    \/ \E len \in Lengths : GetMemory(o, len) \/ AllocAndMap(o, len) \/ LockFails(o, len) \/ AllocFails(o, len)
-----------------------------------------------------------------------------
MemoryTypeOK ==
  /\ chip.pages \in [Owners -> Nat] /\ chip.handle \in [Handles -> {"free", "allocated", "locked"}] /\ chip.descriptors \in Nat
  /\ \A o \in Owners : driver[o].kind \in {"none", "page", "mailbox"}

Usable(o) == driver[o].kind = "mailbox" /\ driver[o].virtual # 0

(* The pages mapped are those of the blocks given out, whatever failed; two *)
(* owners never have the same handle, and a handle in use is locked - until *)
(* the mailbox fails, or a MemInfo without memory is freed, whose handle    *)
(* may be another's by then.                                                *)
MemoryAgrees ==
  /\ \A o \in Owners : chip.pages[o] = IF driver[o].kind = "page" THEN Pages(driver[o].len) ELSE 0
  /\ (report.mailbox \/ report.refreed) \/
     /\ \A o, p \in Owners : Usable(o) /\ Usable(p) /\ o # p => driver[o].handle # driver[p].handle
     /\ {h \in Handles : chip.handle[h] # "free"} = {driver[o].handle : o \in {p \in Owners : Usable(p)}}
     /\ \A o \in Owners : Usable(o) => chip.handle[driver[o].handle] = "locked"

(* The physical address of a MemInfo is that of its memory, as long as the  *)
(* mailbox does not fail.                                                   *)
MemoryReports ==
  \A o \in Owners :
    /\ driver[o].kind = "page" => driver[o].physical = Frame(driver[o].virtual)
    /\ Usable(o) /\ ~report.mailbox => driver[o].physical = BusOf(driver[o].handle)
===============================================================================
