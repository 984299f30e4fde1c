------------------------------- MODULE SimaMM -------------------------------
(***************************************************************************)
(* core/simamm: buffer_id_to_paddr() and buffer_id_to_vaddr() attach to    *)
(* the memory of a buffer id once and remember the addresses in a table.   *)
(* Any thread calls them.  The table is searched and filled under          *)
(* mapping_mutex; the entry that was found is read after the unlock.       *)
(*                                                                         *)
(* The table has a slot for each bit of the 64 bit word current_mappings,  *)
(* but a slot's bit is computed as an int: 1 << i.  The highest int is     *)
(* negative, so the word gets all its upper bits with it; beyond the width *)
(* of an int the processor takes the shift modulo that width.              *)
(*                                                                         *)
(* The memory library may fail to attach to a buffer or to map it.  Nobody *)
(* asks: the slot is taken with no address in it, and it stays taken.      *)
(*                                                                         *)
(* Abstraction: the addresses of a buffer are its id; 0 is no address.     *)
(***************************************************************************)
EXTENDS Integers, FiniteSets

CONSTANTS
  Threads,  (* that call the two functions                                  *)
  Ids,      (* buffer ids                                                   *)
  Slots,    (* 64: slots of mappings, bits of current_mappings              *)
  IntBits   (* 32: bits of an int                                           *)

Free == "free"

ASSUME SimaMMConstants ==
  /\ Free \notin Threads
  /\ Ids \subseteq Nat \ {0}
  /\ IntBits \in Nat \ {0} /\ Slots \in Nat /\ Slots >= IntBits

Index  == 0 .. Slots - 1
NoSlot == 0 - 1

VARIABLES
  mappings, (* slot -> the id it is for and the address it holds            *)
  current,  (* current_mappings: the bits that are set                      *)
  mutex,    (* the thread that holds mapping_mutex                          *)
  pc,       (* of each thread: idle, lock, find, store, mark, read,         *)
            (* fallback, done                                               *)
  id,       (* of each thread: the id it asks for                           *)
  slot,     (* of each thread: i of find_buffer_by_id                       *)
  res,      (* of each thread: the address it got                           *)
  refused   (* history: the ids for which the library gave no address       *)

vars == <<mappings, current, mutex, pc, id, slot, res, refused>>

-----------------------------------------------------------------------------
(* 1 << i, as it is combined with a 64 bit word.                           *)
Mask(i) == LET bit == i % IntBits
           IN  IF bit = IntBits - 1 THEN bit .. Slots - 1 ELSE {bit}

InUse(i) == current \cap Mask(i) # {}

(* Faulty variant: the other bits of current_mappings are lost.            *)
WithBitOnly(i) == Mask(i)

WithBit(i) == current \cup Mask(i)

(* Faulty variant: the search for the id starts at slot 1.                 *)
HitsButFirst(b) == {i \in Index \ {0} : mappings[i].id = b /\ InUse(i)}

Hits(b)   == {i \in Index : mappings[i].id = b /\ InUse(i)}
FreeSlots == {i \in Index : ~InUse(i)}
IsFirst(i, S) == i \in S /\ \A j \in S : i <= j

(* Faulty variant: a hit returns without unlocking.                        *)
KeepLock(t) == t

Unlock(t) == Free

Init ==
  /\ mappings = [i \in Index |-> [id |-> IF i = 0 THEN 0 - 1 ELSE 0, addr |-> 0]]
  /\ current = {}
  /\ mutex = Free
  /\ pc = [t \in Threads |-> "idle"]
  /\ id \in [Threads -> Ids]
  /\ slot = [t \in Threads |-> NoSlot]
  /\ res = [t \in Threads |-> 0]
  /\ refused = {}

Goto(t, l) == pc' = [pc EXCEPT ![t] = l]

(* A thread calls one of the two functions.                                *)
Call(t, b) ==
  /\ pc[t] = "idle"
  /\ Goto(t, "lock")
  /\ id' = [id EXCEPT ![t] = b]
  /\ UNCHANGED <<mappings, current, mutex, slot, res, refused>>

(* find_buffer_by_id takes the mutex ...                                   *)
Lock(t) ==
  /\ pc[t] = "lock" /\ mutex = Free
  /\ mutex' = t
  /\ Goto(t, "find")
  /\ UNCHANGED <<mappings, current, id, slot, res, refused>>

(* ... and returns the first slot of the id, ...                           *)
Hit(t) ==
  /\ pc[t] = "find"
  /\ \E i \in Index : IsFirst(i, Hits(id[t])) /\ slot' = [slot EXCEPT ![t] = i]
  /\ mutex' = Unlock(t)
  /\ Goto(t, "read")
  /\ UNCHANGED <<mappings, current, id, res, refused>>

(* What simaai_memory_get_phys and simaai_memory_map give for a buffer.    *)
Answers(b) == {b, 0}

NoteRefusal(b, addr) ==
  refused' = IF addr = 0 THEN refused \cup {b} ELSE refused

(* ... or fills the first free slot: the addresses, whatever the library   *)
(* answers, then the id, ...                                               *)
Attach(t) ==
  /\ pc[t] = "find" /\ Hits(id[t]) = {}
  /\ \E i \in Index, addr \in Answers(id[t]) :
       /\ IsFirst(i, FreeSlots)
       /\ slot' = [slot EXCEPT ![t] = i]
       /\ mappings' = [mappings EXCEPT ![i].addr = addr]
       /\ NoteRefusal(id[t], addr)
  /\ Goto(t, "store")
  /\ UNCHANGED <<current, mutex, id, res>>

StoreId(t) ==
  /\ pc[t] = "store"
  /\ mappings' = [mappings EXCEPT ![slot[t]].id = id[t]]
  /\ Goto(t, "mark")
  /\ UNCHANGED <<current, mutex, id, slot, res, refused>>

(* ... then the bit, and unlocks; ...                                      *)
MarkAndUnlock(t) ==
  /\ pc[t] = "mark"
  /\ current' = WithBit(slot[t])
  /\ mutex' = Free
  /\ Goto(t, "read")
  /\ UNCHANGED <<mappings, id, slot, res, refused>>

(* ... or finds no slot.                                                   *)
Full(t) ==
  /\ pc[t] = "find" /\ Hits(id[t]) = {} /\ FreeSlots = {}
  /\ slot' = [slot EXCEPT ![t] = NoSlot]
  /\ mutex' = Free
  /\ Goto(t, "fallback")
  /\ UNCHANGED <<mappings, current, id, res, refused>>

(* The address is read from the table, without the mutex.                  *)
Read(t) ==
  /\ pc[t] = "read"
  /\ res' = [res EXCEPT ![t] = mappings[slot[t]].addr]
  /\ Goto(t, "done")
  /\ UNCHANGED <<mappings, current, mutex, id, slot, refused>>

(* "Ran out of space": attach for this call only.  Its memory is not       *)
(* mapped: it may have no virtual address.                                 *)
Fallback(t) ==
  /\ pc[t] = "fallback"
  /\ \E addr \in Answers(id[t]) :
       /\ res' = [res EXCEPT ![t] = addr]
       /\ NoteRefusal(id[t], addr)
  /\ Goto(t, "done")
  /\ UNCHANGED <<mappings, current, mutex, id, slot>>

Return(t) ==
  /\ pc[t] = "done"
  /\ Goto(t, "idle")
  /\ slot' = [slot EXCEPT ![t] = NoSlot] /\ res' = [res EXCEPT ![t] = 0]
  /\ UNCHANGED <<mappings, current, mutex, id, refused>>

Step(t) ==
  \/ Hit(t) \/ Attach(t) \/ StoreId(t) \/ MarkAndUnlock(t) \/ Full(t)
  \/ Read(t) \/ Fallback(t) \/ Return(t)

Next == \E t \in Threads :
  \/ \E b \in Ids : Call(t, b)
  \/ Lock(t)
  \/ Step(t)

(* A thread that runs goes on; one that waits for the mutex gets it when   *)
(* it is free again and again.                                             *)
Fairness == \A t \in Threads : WF_vars(Step(t)) /\ SF_vars(Lock(t))

Spec == Init /\ [][Next]_vars
FairSpec == Spec /\ Fairness

-----------------------------------------------------------------------------
(* Every variable holds a value of the kind its C variable can hold.       *)
TypeOK ==
  /\ mappings \in [Index -> [id : Int, addr : Nat]]
  /\ current \subseteq Index
  /\ mutex \in Threads \cup {Free}
  /\ pc \in [Threads -> {"idle", "lock", "find", "store", "mark", "read",
                         "fallback", "done"}]
  /\ id \in [Threads -> Ids]
  /\ slot \in [Threads -> Index \cup {NoSlot}]
  /\ res \in [Threads -> Nat]
  /\ refused \subseteq Ids

(* buffer_id_to_paddr and buffer_id_to_vaddr never answer with the memory  *)
(* of another id, although the entry is read outside the mutex, and answer *)
(* with no address only when the library gave none for this id: in this    *)
(* call, or in the one, of any thread, that filled the slot.               *)
ResolvesOwn ==
  \A t \in Threads : pc[t] = "done" =>
    \/ res[t] = id[t]
    \/ res[t] = 0 /\ id[t] \in refused

(* A buffer takes one slot, also one whose memory could not be attached:   *)
(* no thread fills a slot for a buffer that the table has.                 *)
OneSlotPerId ==
  \A i, j \in Index :
    mappings[i].id \in Ids /\ mappings[i].id = mappings[j].id => i = j

(* Every path out of find_buffer_by_id unlocks: a call returns.            *)
CallReturns == \A t \in Threads : pc[t] = "lock" ~> pc[t] = "done"
=============================================================================
