---------------------------- MODULE SimaMMProofs ----------------------------
(***************************************************************************)
(* What buffer_id_to_paddr() and buffer_id_to_vaddr() promise, for every   *)
(* number of threads, ids, slots and bits of an int.                       *)
(*                                                                         *)
(* The reader outside the mutex is safe since a slot that was handed out   *)
(* is in use, a slot in use stays so, and only slots not in use are        *)
(* written: that holds although the masks of different slots overlap.      *)
(***************************************************************************)
EXTENDS SimaMM, TLAPS

Holding == {"find", "store", "mark"}

MutexHeld == \A t \in Threads : pc[t] \in Holding => mutex = t

(* A slot with the id of a buffer is in use, or about to be marked.        *)
Entries ==
  \A i \in Index : mappings[i].id \in Ids =>
    \/ InUse(i)
    \/ \E t \in Threads : pc[t] = "mark" /\ slot[t] = i

(* What the library may have answered for the id b.                        *)
Given(addr, b) == addr = b \/ (addr = 0 /\ b \in refused)

(* The id of a slot is that of its own address, if it has one.             *)
IdsHaveAddr ==
  \A i \in Index : mappings[i].id \in Ids => Given(mappings[i].addr, mappings[i].id)

(* What a thread in find_buffer_by_id or behind it knows of its slot, and  *)
(* what it has found out before it stores the id: no slot has it.          *)
Filling(t) ==
  pc[t] \in {"store", "mark"} => slot[t] \in Index /\ Given(mappings[slot[t]].addr, id[t])
Missing(t) == pc[t] = "store" => \A i \in Index : mappings[i].id # id[t]
Marking(t) == pc[t] = "mark" => mappings[slot[t]].id = id[t]
Reading(t) ==
  pc[t] = "read" =>
    slot[t] \in Index /\ InUse(slot[t]) /\ Given(mappings[slot[t]].addr, id[t])

Knows(t) == Filling(t) /\ Missing(t) /\ Marking(t) /\ Reading(t)

Inv ==
  /\ TypeOK /\ MutexHeld /\ Entries /\ IdsHaveAddr
  /\ \A t \in Threads : Knows(t)
  /\ OneSlotPerId /\ ResolvesOwn

-----------------------------------------------------------------------------
(* The mask of a slot is not empty and within the word.                    *)
LEMMA MaskInWord ==
  ASSUME NEW i \in Index
  PROVE  Mask(i) # {} /\ Mask(i) \subseteq Index
<1>1. i % IntBits \in 0 .. IntBits - 1
  BY SimaMMConstants DEF Index
<1>2. Slots >= IntBits /\ Slots \in Nat /\ IntBits \in Nat \ {0}
  BY SimaMMConstants
<1>3. i % IntBits \in Mask(i)
  BY <1>1, <1>2 DEF Mask
<1>4. Mask(i) \subseteq Index
  BY <1>1, <1>2 DEF Mask, Index
<1> QED BY <1>3, <1>4

(* Setting a bit takes no slot out of use.                                 *)
LEMMA InUseGrows ==
  ASSUME current \subseteq current', NEW i \in Index, InUse(i)
  PROVE  InUse(i)'
BY DEF InUse, Mask

LEMMA InUseSame ==
  ASSUME current' = current, NEW i \in Index
  PROVE  InUse(i)' <=> InUse(i)
BY DEF InUse, Mask

-----------------------------------------------------------------------------
LEMMA InitInv == Init => Inv
<1> SUFFICES ASSUME Init PROVE Inv
  OBVIOUS
<1>1. TypeOK
  BY SimaMMConstants DEF Init, TypeOK, Index, NoSlot
<1>2. \A i \in Index : mappings[i].id \notin Ids
  BY SimaMMConstants DEF Init, Index
<1>3. MutexHeld /\ ResolvesOwn
  BY DEF Init, MutexHeld, Holding, ResolvesOwn
<1>4. Entries /\ IdsHaveAddr /\ OneSlotPerId
  BY <1>2 DEF Entries, IdsHaveAddr, OneSlotPerId
<1>5. \A t \in Threads : Knows(t)
  BY DEF Init, Knows, Filling, Missing, Marking, Reading, Given
<1> QED BY <1>1, <1>3, <1>4, <1>5 DEF Inv

(* The steps that leave the table alone.                                   *)
LEMMA TableKept ==
  ASSUME Inv, UNCHANGED <<mappings, current>>, refused \subseteq refused',
         \A t \in Threads : pc'[t] = "mark" <=> pc[t] = "mark",
         \A t \in Threads : pc[t] = "mark" => slot'[t] = slot[t]
  PROVE  Entries' /\ IdsHaveAddr' /\ OneSlotPerId'
<1>1. IdsHaveAddr' /\ OneSlotPerId'
  BY DEF Inv, IdsHaveAddr, Given, OneSlotPerId
<1>2. Entries'
  <2> SUFFICES ASSUME NEW i \in Index, mappings[i].id \in Ids
               PROVE  InUse(i)' \/ \E t \in Threads : pc'[t] = "mark" /\ slot'[t] = i
    BY DEF Entries
  <2>1. CASE InUse(i)
    BY <2>1, InUseSame
  <2>2. CASE \E t \in Threads : pc[t] = "mark" /\ slot[t] = i
    BY <2>2
  <2> QED BY <2>1, <2>2 DEF Inv, Entries
<1> QED BY <1>1, <1>2

LEMMA CallInv ==
  ASSUME Inv, NEW t \in Threads, NEW b \in Ids, Call(t, b)
  PROVE  Inv'
<1> USE DEF Call, Goto
<1>1. TypeOK'
  BY DEF Inv, TypeOK
<1>2. \A u \in Threads : pc'[u] = IF u = t THEN "lock" ELSE pc[u]
  BY DEF Inv, TypeOK
<1>3. \A u \in Threads : u # t => id'[u] = id[u]
  BY DEF Inv, TypeOK
<1>4. MutexHeld' /\ ResolvesOwn'
  BY <1>2, <1>3 DEF Inv, MutexHeld, Holding, ResolvesOwn
<1>5. Entries' /\ IdsHaveAddr' /\ OneSlotPerId'
  BY <1>2, TableKept
<1>6. \A u \in Threads : Knows(u)'
  BY <1>2, <1>3, InUseSame DEF Inv, Knows, Filling, Missing, Marking, Reading, Given
<1> QED BY <1>1, <1>4, <1>5, <1>6 DEF Inv

LEMMA LockInv ==
  ASSUME Inv, NEW t \in Threads, Lock(t)
  PROVE  Inv'
<1> USE DEF Lock, Goto
<1>1. TypeOK'
  BY DEF Inv, TypeOK
<1>2. \A u \in Threads : pc'[u] = IF u = t THEN "find" ELSE pc[u]
  BY DEF Inv, TypeOK
<1>3. MutexHeld' /\ ResolvesOwn'
  BY <1>2, SimaMMConstants DEF Inv, MutexHeld, Holding, ResolvesOwn
<1>4. Entries' /\ IdsHaveAddr' /\ OneSlotPerId'
  BY <1>2, TableKept
<1>5. \A u \in Threads : Knows(u)'
  BY <1>2, InUseSame DEF Inv, Knows, Filling, Missing, Marking, Reading, Given
<1> QED BY <1>1, <1>3, <1>4, <1>5 DEF Inv

LEMMA HitInv ==
  ASSUME Inv, NEW t \in Threads, Hit(t)
  PROVE  Inv'
<1> USE DEF Goto
<1>1. PICK i \in Index : i \in Hits(id[t]) /\ slot' = [slot EXCEPT ![t] = i]
  BY DEF Hit, IsFirst
<1>2. InUse(i) /\ Given(mappings[i].addr, id[t])
  BY <1>1 DEF Inv, IdsHaveAddr, Hits, TypeOK
<1>3. TypeOK'
  BY <1>1 DEF Inv, TypeOK, Hit, Unlock
<1>4. \A u \in Threads : pc'[u] = IF u = t THEN "read" ELSE pc[u]
  BY DEF Inv, TypeOK, Hit
<1>5. \A u \in Threads : slot'[u] = IF u = t THEN i ELSE slot[u]
  BY <1>1 DEF Inv, TypeOK
<1>6. MutexHeld' /\ ResolvesOwn'
  BY <1>4 DEF Inv, MutexHeld, Holding, ResolvesOwn, Hit
<1>7. Entries' /\ IdsHaveAddr' /\ OneSlotPerId'
  BY <1>4, <1>5, TableKept DEF Hit
<1>8. \A u \in Threads : Knows(u)'
  BY <1>2, <1>4, <1>5, InUseSame DEF Inv, Knows, Filling, Missing, Marking, Reading, Given, Hit
<1> QED BY <1>3, <1>6, <1>7, <1>8 DEF Inv

(* Nobody reads the slot that is filled, and no slot has the id: it would  *)
(* have been a hit.                                                        *)
LEMMA AttachInv ==
  ASSUME Inv, NEW t \in Threads, Attach(t)
  PROVE  Inv'
<1> USE DEF Goto
<1>1. PICK i \in Index, addr \in Answers(id[t]) :
        /\ i \in FreeSlots /\ addr \in {id[t], 0}
        /\ slot' = [slot EXCEPT ![t] = i]
        /\ mappings' = [mappings EXCEPT ![i].addr = addr]
        /\ NoteRefusal(id[t], addr)
  BY DEF Attach, IsFirst, Answers
<1>2. id[t] \in Ids /\ addr \in Nat
  BY SimaMMConstants DEF Inv, TypeOK, Answers
<1>3. /\ refused \subseteq refused' /\ refused' \subseteq Ids
      /\ addr = id[t] \/ (addr = 0 /\ id[t] \in refused')
  <2>1. refused \subseteq Ids
    BY DEF Inv, TypeOK
  <2>2. CASE addr = 0
    BY <1>1, <1>2, <2>1, <2>2 DEF NoteRefusal
  <2>3. CASE addr # 0
    <3>1. refused' = refused
      BY <1>1, <2>3 DEF NoteRefusal
    <3>2. addr = id[t]
      BY <1>1, <2>3
    <3> QED BY <3>1, <3>2, <2>1
  <2> QED BY <2>2, <2>3
<1>4. TypeOK'
  BY <1>1, <1>2, <1>3 DEF Inv, TypeOK, Attach
<1>5. \A u \in Threads : pc'[u] = IF u = t THEN "store" ELSE pc[u]
  BY DEF Inv, TypeOK, Attach
<1>6. \A u \in Threads : slot'[u] = IF u = t THEN i ELSE slot[u]
  BY <1>1 DEF Inv, TypeOK
<1>7. /\ \A j \in Index : mappings'[j].id = mappings[j].id
      /\ \A j \in Index : mappings'[j].addr = IF j = i THEN addr ELSE mappings[j].addr
  BY <1>1 DEF Inv, TypeOK
<1>8. pc[t] = "find" /\ \A u \in Threads : u # t => pc[u] \notin {"store", "mark"}
  BY DEF Inv, MutexHeld, Holding, Attach
<1>9. \A j \in Index : mappings[j].id \in Ids => InUse(j)
  BY <1>8 DEF Inv, Entries
<1>10. mappings[i].id \notin Ids
  BY <1>1, <1>9 DEF FreeSlots
<1>11. \A j \in Index : mappings[j].id # id[t]
  BY <1>2, <1>9 DEF Attach, Hits
<1>12. MutexHeld' /\ ResolvesOwn'
  BY <1>3, <1>5, <1>8 DEF Inv, MutexHeld, Holding, ResolvesOwn, Attach
<1>13. Entries'
  BY <1>7, <1>9, InUseSame DEF Entries, Attach
<1>14. IdsHaveAddr' /\ OneSlotPerId'
  BY <1>3, <1>7, <1>10 DEF Inv, IdsHaveAddr, Given, OneSlotPerId
<1>15. \A u \in Threads : Knows(u)'
  <2> TAKE u \in Threads
  <2>1. CASE u = t
    BY <2>1, <1>3, <1>5, <1>6, <1>7, <1>11
       DEF Knows, Filling, Missing, Marking, Reading, Given, Attach
  <2>2. CASE u # t
    <3>1. pc'[u] = pc[u] /\ slot'[u] = slot[u] /\ id'[u] = id[u]
      BY <2>2, <1>5, <1>6 DEF Attach
    <3>2. Filling(u)' /\ Missing(u)' /\ Marking(u)'
      BY <3>1, <2>2, <1>8 DEF Filling, Missing, Marking
    <3>3. pc[u] = "read" => slot[u] # i
      BY <1>1 DEF Inv, Knows, Reading, FreeSlots
    <3>4. Reading(u)'
      BY <3>1, <3>3, <1>3, <1>7, InUseSame DEF Inv, Knows, Reading, Given, Attach
    <3> QED BY <3>2, <3>4 DEF Knows
  <2> QED BY <2>1, <2>2
<1> QED BY <1>4, <1>12, <1>13, <1>14, <1>15 DEF Inv

LEMMA StoreIdInv ==
  ASSUME Inv, NEW t \in Threads, StoreId(t)
  PROVE  Inv'
<1> USE DEF Goto
<1>1. /\ slot[t] \in Index /\ id[t] \in Ids /\ pc[t] = "store"
      /\ Given(mappings[slot[t]].addr, id[t])
      /\ \A j \in Index : mappings[j].id # id[t]
  BY DEF Inv, Knows, Filling, Missing, TypeOK, StoreId
<1>2. TypeOK'
  BY <1>1, SimaMMConstants DEF Inv, TypeOK, StoreId
<1>3. \A u \in Threads : pc'[u] = IF u = t THEN "mark" ELSE pc[u]
  BY DEF Inv, TypeOK, StoreId
<1>4. /\ \A j \in Index : mappings'[j].addr = mappings[j].addr
      /\ \A j \in Index : mappings'[j].id = IF j = slot[t] THEN id[t] ELSE mappings[j].id
  BY DEF Inv, TypeOK, StoreId
<1>5. \A u \in Threads : u # t => pc[u] \notin {"store", "mark"}
  BY <1>1 DEF Inv, MutexHeld, Holding
<1>6. MutexHeld' /\ ResolvesOwn'
  BY <1>1, <1>3 DEF Inv, MutexHeld, Holding, ResolvesOwn, StoreId
<1>7. Entries'
  <2> SUFFICES ASSUME NEW j \in Index, mappings'[j].id \in Ids
               PROVE  InUse(j)' \/ \E u \in Threads : pc'[u] = "mark" /\ slot'[u] = j
    BY DEF Entries
  <2>1. CASE j = slot[t]
    BY <2>1, <1>3 DEF StoreId
  <2>2. CASE j # slot[t]
    BY <2>2, <1>4, <1>1, <1>5, InUseSame DEF Inv, Entries, StoreId
  <2> QED BY <2>1, <2>2
<1>8. IdsHaveAddr' /\ OneSlotPerId'
  BY <1>1, <1>4 DEF Inv, IdsHaveAddr, Given, OneSlotPerId, StoreId
<1>9. \A u \in Threads : Knows(u)'
  <2> TAKE u \in Threads
  <2>1. CASE u = t
    BY <2>1, <1>1, <1>3, <1>4 DEF Knows, Filling, Missing, Marking, Reading, Given, StoreId
  <2>2. CASE u # t
    <3>1. Filling(u)' /\ Missing(u)' /\ Marking(u)'
      BY <2>2, <1>3, <1>5 DEF Filling, Missing, Marking
    <3>2. Reading(u)'
      BY <2>2, <1>3, <1>4, InUseSame DEF Inv, Knows, Reading, Given, StoreId
    <3> QED BY <3>1, <3>2 DEF Knows
  <2> QED BY <2>1, <2>2
<1> QED BY <1>2, <1>6, <1>7, <1>8, <1>9 DEF Inv

LEMMA MarkInv ==
  ASSUME Inv, NEW t \in Threads, MarkAndUnlock(t)
  PROVE  Inv'
<1> USE DEF Goto
<1>1. /\ slot[t] \in Index /\ pc[t] = "mark"
      /\ Given(mappings[slot[t]].addr, id[t])
  BY DEF Inv, Knows, Filling, MarkAndUnlock
<1>2. current \subseteq current' /\ Mask(slot[t]) \subseteq current'
  BY DEF MarkAndUnlock, WithBit
<1>3. InUse(slot[t])'
  BY <1>1, <1>2, MaskInWord DEF InUse, Mask, MarkAndUnlock
<1>4. TypeOK'
  BY <1>1, MaskInWord DEF Inv, TypeOK, MarkAndUnlock, WithBit
<1>5. \A u \in Threads : pc'[u] = IF u = t THEN "read" ELSE pc[u]
  BY DEF Inv, TypeOK, MarkAndUnlock
<1>6. \A u \in Threads : u # t => pc[u] \notin Holding
  BY <1>1 DEF Inv, MutexHeld, Holding
<1>7. MutexHeld' /\ ResolvesOwn'
  BY <1>5, <1>6 DEF Inv, MutexHeld, Holding, ResolvesOwn, MarkAndUnlock
<1>8. Entries'
  <2> SUFFICES ASSUME NEW j \in Index, mappings[j].id \in Ids
               PROVE  InUse(j)'
    BY DEF Entries, MarkAndUnlock
  <2>1. CASE j = slot[t]
    BY <2>1, <1>1, <1>3 DEF InUse, Mask, MarkAndUnlock
  <2>2. CASE j # slot[t]
    BY <2>2, <1>2, <1>6, InUseGrows DEF Inv, Entries, Holding
  <2> QED BY <2>1, <2>2
<1>9. IdsHaveAddr' /\ OneSlotPerId'
  BY DEF Inv, IdsHaveAddr, Given, OneSlotPerId, MarkAndUnlock
<1>10. \A u \in Threads : Knows(u)'
  BY <1>1, <1>2, <1>3, <1>5, <1>6, InUseGrows
     DEF Inv, Knows, Filling, Missing, Marking, Reading, Given, Holding, MarkAndUnlock
<1> QED BY <1>4, <1>7, <1>8, <1>9, <1>10 DEF Inv

LEMMA FullInv ==
  ASSUME Inv, NEW t \in Threads, Full(t)
  PROVE  Inv'
<1> USE DEF Full, Goto
<1>1. TypeOK'
  BY DEF Inv, TypeOK
<1>2. \A u \in Threads : pc'[u] = IF u = t THEN "fallback" ELSE pc[u]
  BY DEF Inv, TypeOK
<1>3. \A u \in Threads : slot'[u] = IF u = t THEN NoSlot ELSE slot[u]
  BY DEF Inv, TypeOK
<1>4. MutexHeld' /\ ResolvesOwn'
  BY <1>2, <1>3 DEF Inv, MutexHeld, Holding, ResolvesOwn
<1>5. Entries' /\ IdsHaveAddr' /\ OneSlotPerId'
  BY <1>2, <1>3, TableKept
<1>6. \A u \in Threads : Knows(u)'
  BY <1>2, <1>3, InUseSame DEF Inv, Knows, Filling, Missing, Marking, Reading, Given
<1> QED BY <1>1, <1>4, <1>5, <1>6 DEF Inv

LEMMA ReadInv ==
  ASSUME Inv, NEW t \in Threads, Read(t)
  PROVE  Inv'
<1> USE DEF Read, Goto
<1>1. slot[t] \in Index /\ Given(mappings[slot[t]].addr, id[t])
  BY DEF Inv, Knows, Reading
<1>2. TypeOK'
  BY <1>1 DEF Inv, TypeOK
<1>3. \A u \in Threads : pc'[u] = IF u = t THEN "done" ELSE pc[u]
  BY DEF Inv, TypeOK
<1>4. \A u \in Threads : res'[u] = IF u = t THEN mappings[slot[t]].addr ELSE res[u]
  BY DEF Inv, TypeOK
<1>5. MutexHeld' /\ ResolvesOwn'
  BY <1>1, <1>3, <1>4 DEF Inv, MutexHeld, Holding, ResolvesOwn, Given
<1>6. Entries' /\ IdsHaveAddr' /\ OneSlotPerId'
  BY <1>3, TableKept
<1>7. \A u \in Threads : Knows(u)'
  BY <1>3, InUseSame DEF Inv, Knows, Filling, Missing, Marking, Reading, Given
<1> QED BY <1>2, <1>5, <1>6, <1>7 DEF Inv

LEMMA FallbackInv ==
  ASSUME Inv, NEW t \in Threads, Fallback(t)
  PROVE  Inv'
<1> USE DEF Goto
<1>1. PICK addr \in Answers(id[t]) :
        /\ addr \in {id[t], 0}
        /\ res' = [res EXCEPT ![t] = addr] /\ NoteRefusal(id[t], addr)
  BY DEF Fallback, Answers
<1>2. id[t] \in Ids /\ addr \in Nat
  BY SimaMMConstants DEF Inv, TypeOK, Answers
<1>3. /\ refused \subseteq refused' /\ refused' \subseteq Ids
      /\ addr = id[t] \/ (addr = 0 /\ id[t] \in refused')
  <2>1. refused \subseteq Ids
    BY DEF Inv, TypeOK
  <2>2. CASE addr = 0
    BY <1>1, <1>2, <2>1, <2>2 DEF NoteRefusal
  <2>3. CASE addr # 0
    <3>1. refused' = refused
      BY <1>1, <2>3 DEF NoteRefusal
    <3>2. addr = id[t]
      BY <1>1, <2>3
    <3> QED BY <3>1, <3>2, <2>1
  <2> QED BY <2>2, <2>3
<1>4. TypeOK'
  BY <1>1, <1>2, <1>3 DEF Inv, TypeOK, Fallback
<1>5. \A u \in Threads : pc'[u] = IF u = t THEN "done" ELSE pc[u]
  BY DEF Inv, TypeOK, Fallback
<1>6. \A u \in Threads : res'[u] = IF u = t THEN addr ELSE res[u]
  BY <1>1 DEF Inv, TypeOK
<1>7. MutexHeld' /\ ResolvesOwn'
  BY <1>3, <1>5, <1>6 DEF Inv, MutexHeld, Holding, ResolvesOwn, Given, Fallback
<1>8. Entries' /\ IdsHaveAddr' /\ OneSlotPerId'
  BY <1>3, <1>5, TableKept DEF Fallback
<1>9. \A u \in Threads : Knows(u)'
  BY <1>3, <1>5, InUseSame
     DEF Inv, Knows, Filling, Missing, Marking, Reading, Given, Fallback
<1> QED BY <1>4, <1>7, <1>8, <1>9 DEF Inv

LEMMA ReturnInv ==
  ASSUME Inv, NEW t \in Threads, Return(t)
  PROVE  Inv'
<1> USE DEF Return, Goto
<1>1. TypeOK'
  BY DEF Inv, TypeOK
<1>2. \A u \in Threads : pc'[u] = IF u = t THEN "idle" ELSE pc[u]
  BY DEF Inv, TypeOK
<1>3. \A u \in Threads : u # t => slot'[u] = slot[u] /\ res'[u] = res[u]
  BY DEF Inv, TypeOK
<1>4. MutexHeld' /\ ResolvesOwn'
  BY <1>2, <1>3 DEF Inv, MutexHeld, Holding, ResolvesOwn
<1>5. Entries' /\ IdsHaveAddr' /\ OneSlotPerId'
  BY <1>2, <1>3, TableKept
<1>6. \A u \in Threads : Knows(u)'
  BY <1>2, <1>3, InUseSame DEF Inv, Knows, Filling, Missing, Marking, Reading, Given
<1> QED BY <1>1, <1>4, <1>5, <1>6 DEF Inv

LEMMA StutterInv ==
  ASSUME Inv, UNCHANGED vars
  PROVE  Inv'
<1> USE DEF vars
<1>1. TypeOK' /\ MutexHeld' /\ ResolvesOwn'
  BY DEF Inv, TypeOK, MutexHeld, Holding, ResolvesOwn
<1>2. Entries' /\ IdsHaveAddr' /\ OneSlotPerId'
  BY TableKept
<1>3. \A u \in Threads : Knows(u)'
  BY InUseSame DEF Inv, Knows, Filling, Missing, Marking, Reading, Given
<1> QED BY <1>1, <1>2, <1>3 DEF Inv

-----------------------------------------------------------------------------
(* The inductive invariant: the table's entries, and what each thread that *)
(* has the mutex or a slot knows of them.                                  *)
THEOREM InvHolds == Spec => []Inv
<1>1. Inv /\ [Next]_vars => Inv'
  BY CallInv, LockInv, HitInv, AttachInv, StoreIdInv, MarkInv, FullInv, ReadInv,
     FallbackInv, ReturnInv, StutterInv DEF Next, Step
<1> QED BY InitInv, <1>1, PTL DEF Spec

(* Every variable keeps its type: i of find_buffer_by_id is a slot.        *)
THEOREM TypeCorrect == Spec => []TypeOK
<1>1. Inv => TypeOK
  BY DEF Inv
<1> QED BY <1>1, InvHolds, PTL

(* An address that is returned is that of the buffer that was asked for,   *)
(* although the entry is read without the mutex; no address is returned    *)
(* only for a buffer for which the library gave none.                      *)
THEOREM ResolutionIsOwn == Spec => []ResolvesOwn
<1>1. Inv => ResolvesOwn
  BY DEF Inv
<1> QED BY <1>1, InvHolds, PTL

(* No two slots are filled for the same buffer.                            *)
THEOREM SlotsAreDistinct == Spec => []OneSlotPerId
<1>1. Inv => OneSlotPerId
  BY DEF Inv
<1> QED BY <1>1, InvHolds, PTL
=============================================================================
