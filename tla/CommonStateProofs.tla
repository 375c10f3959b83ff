------------------------- MODULE CommonStateProofs -------------------------
(* Theorems about SocketTable, UrcDispatch and SignalBars, the three modules   *)
(* that MCCommonState runs side by side.                                       *)
EXTENDS SocketTable, UrcDispatch, SignalBars, Recursions

-----------------------------------------------------------------------------
(* SocketTable, for every number of sockets, blocks and tasks.                 *)

(* The inductive invariant: what is so while a creation or a registration is under  *)
(* way, with the properties themselves.                                             *)

\* Where the blocks are: the slot's own, or one from the heap that is nowhere else.
Placed ==
  /\ static => /\ \A s \in Slots : pSocketData[s] \in {NoBlock, s}
               /\ \A t \in SocketTasks : pc[t] = "storing" => at[t].block = at[t].slot
  /\ ~static => /\ \A s \in Slots : pSocketData[s] # NoBlock => pSocketData[s] \in heap
                /\ \A t \in SocketTasks : pc[t] = "storing" =>
                     /\ at[t].block \in heap
                     /\ \A s \in Slots : pSocketData[s] # at[t].block
                     /\ \A u \in SocketTasks \ {t} : pc[u] = "storing" => at[u].block # at[t].block

\* A block about to be stored is set up for the slot it is for.
SetUp ==
  \A t \in SocketTasks : pc[t] = "storing" =>
    sock[at[t].block].id = at[t].slot /\ sock[at[t].block].state # "free"

\* One creator at a time: its slot stays free, its block is nobody's and as asked for,
\* and a free slot of a table that was not full is still before it.
Creator ==
  careful =>
    /\ \A t, u \in SocketTasks : Creates(t) /\ Creates(u) => t = u
    /\ \A t \in SocketTasks : pc[t] \in {"filling", "storing"} => pSocketData[at[t].slot] = NoBlock
    /\ \A t \in SocketTasks : pc[t] = "storing" =>
         /\ sock[at[t].block].set = Created(at[t].pdn)
         /\ \A u \in SocketTasks : at[t].block \notin handles[u]
    /\ \A t \in SocketTasks : pc[t] = "scanning" /\ ~wasFull[t] =>
         \E s \in Slots : s >= at[t].slot /\ pSocketData[s] = NoBlock

\* A callback is without its context only while the owner of a socket that is not
\* connected yet is registering it.
Registering ==
  careful =>
    /\ \A t \in SocketTasks : pc[t] = "registering" =>
         /\ at[t].block \in handles[t]
         /\ sock[at[t].block].state = "allocated"
         /\ sock[at[t].block].cb = t
    /\ \A b \in Blocks : sock[b].cb # sock[b].ctx =>
         \E t \in SocketTasks : pc[t] = "registering" /\ at[t].block = b

Owned == careful => \A t \in SocketTasks : \A b \in handles[t] : sock[b].id \in Slots

\* Every block taken from the heap is somewhere: NoBlockLost, block by block.
Kept ==
  careful => \A b \in heap : \/ \E s \in Slots : pSocketData[s] = b
                             \/ \E t \in SocketTasks : pc[t] = "storing" /\ at[t].block = b

IInv ==
  /\ SocketTypeOK /\ Placed /\ SlotKnowsItself /\ SetUp
  /\ Owned /\ HandlesApart /\ Creator /\ Registering /\ KeepsItsSettings /\ Kept

\* The slot that a removal finds is the one of the block.
LEMMA Found ==
  ASSUME SocketTypeOK, SlotKnowsItself, NEW b \in Blocks, SlotsOf(b) # {}
  PROVE  /\ SlotFound(b) \in Slots
         /\ pSocketData[SlotFound(b)] = b
         /\ \A s \in Slots : pSocketData[s] = b => s = SlotFound(b)
<1>1. PICK s \in SlotsOf(b) : TRUE
  OBVIOUS
<1>2. \A u \in SlotsOf(b) : u = sock[b].id
  BY SocketAssumption DEF SlotsOf, SlotKnowsItself, Blocks, NoBlock, SocketTypeOK
<1>3. s \in SlotsOf(b) /\ \A u \in SlotsOf(b) : s <= u
  BY <1>1, <1>2 DEF SlotsOf, Slots
<1>4. SlotFound(b) \in SlotsOf(b)
  BY <1>3 DEF SlotFound
<1>. QED
  BY <1>2, <1>4 DEF SlotsOf

\* What the calls leave and enter is in its type.
LEMMA RecordTypes ==
  /\ Nowhere \in Positions
  /\ \A pdn \in Nat : Created(pdn) \in Settings
  /\ \A t \in SocketTasks, b \in Blocks :
       SocketTypeOK /\ pc[t] = "filling" => SetSocketData(t, b) \in Sockets
<1>1. Nowhere \in Positions
  BY SocketAssumption DEF Nowhere, Positions, NoBlock
<1>2. \A pdn \in Nat : Created(pdn) \in Settings
  BY DEF Created, Settings
<1>3. ASSUME NEW t \in SocketTasks, NEW b \in Blocks, SocketTypeOK, pc[t] = "filling"
      PROVE  SetSocketData(t, b) \in Sockets
  <2>1. at[t] \in Positions /\ at[t].slot \in Slots
    BY <1>3 DEF SocketTypeOK
  <2>2. at[t].pdn \in Nat /\ at[t].slot \in 0 .. NumSockets
    BY <2>1 DEF Positions
  <2>. QED
    BY <1>2, <2>2 DEF SetSocketData, Blank, Sockets
<1>. QED
  BY <1>1, <1>2, <1>3

\* An option that is set leaves the settings in their type.
LEMMA OptionType ==
  ASSUME NEW r \in Settings, NEW v \in Nat, NEW option \in Options
  PROVE  [r EXCEPT ![option] = v] \in Settings
BY SocketAssumption DEF Settings

\* Every step keeps the state in its type.
LEMMA TypeStep ==
  ASSUME SocketTypeOK, SlotKnowsItself, [SocketNext]_socketVars
  PROVE SocketTypeOK'
<1>. USE DEF creating
<1>1. ASSUME NEW t \in SocketTasks, CreateSocket(t) PROVE SocketTypeOK'
  <2>1. ASSUME NEW pdn \in PdnIds
        PROVE  [slot |-> FirstSlot, block |-> NoBlock, pdn |-> pdn] \in Positions
    BY SocketAssumption DEF Positions, FirstSlot
  <2>2. at' \in [SocketTasks -> Positions]
    BY <1>1, <2>1 DEF CreateSocket, SocketTypeOK
  <2>3. Full \in BOOLEAN
    BY DEF Full
  <2>4. wasFull' \in [SocketTasks -> BOOLEAN]
    BY <1>1, <2>3 DEF CreateSocket, SocketTypeOK
  <2>5. \A u \in SocketTasks : /\ pc'[u] \in {"filling", "storing"} => at'[u].slot \in Slots
                               /\ pc'[u] \in {"storing", "registering"} => at'[u].block \in Blocks
    BY <1>1 DEF CreateSocket, SocketTypeOK
  <2>. QED
    BY <1>1, <2>2, <2>4, <2>5 DEF CreateSocket, SocketTypeOK
<1>2. ASSUME NEW t \in SocketTasks, TestSlot(t) PROVE SocketTypeOK'
  <2>1. at[t] \in Positions /\ at[t].slot \in Slots
    BY <1>2, SocketAssumption DEF TestSlot, SocketTypeOK, Positions, Slots
  <2>2. [at[t] EXCEPT !.slot = @ + 1] \in Positions
    BY <2>1, SocketAssumption DEF Positions, Slots
  <2>3. at' \in [SocketTasks -> Positions]
    BY <1>2, <2>2 DEF TestSlot, SocketTypeOK
  <2>4. \A u \in SocketTasks : /\ pc'[u] \in {"filling", "storing"} => at'[u].slot \in Slots
                               /\ pc'[u] \in {"storing", "registering"} => at'[u].block \in Blocks
    BY <1>2, <2>1 DEF TestSlot, SocketTypeOK
  <2>. QED
    BY <1>2, <2>3, <2>4 DEF TestSlot, SocketTypeOK
<1>3. ASSUME NEW t \in SocketTasks, NoSlot(t) PROVE SocketTypeOK'
  BY <1>3, RecordTypes DEF SocketTypeOK, NoSlot, Return
<1>4. ASSUME NEW t \in SocketTasks, FillBlock(t) PROVE SocketTypeOK'
  <2>. DEFINE found == IF static THEN {at[t].slot} ELSE Blocks \ heap
  <2>0. found \subseteq Blocks
    BY <1>4, SocketAssumption DEF FillBlock, SocketTypeOK, Slots, Blocks
  <2>1. PICK b \in Blocks : /\ sock' = [sock EXCEPT ![b] = SetSocketData(t, b)]
                            /\ heap' \subseteq heap \cup {b}
                            /\ at' = [at EXCEPT ![t].block = b]
    BY <1>4, <2>0 DEF FillBlock
  <2>2. sock' \in [Blocks -> Sockets]
    BY <1>4, <2>1, RecordTypes DEF FillBlock, SocketTypeOK
  <2>3. [at[t] EXCEPT !.block = b] \in Positions /\ [at[t] EXCEPT !.block = b].slot = at[t].slot
    <3>1. at[t] \in Positions
      BY DEF SocketTypeOK
    <3>. QED BY <2>1, <3>1 DEF Positions
  <2>4. at' \in [SocketTasks -> Positions] /\ at'[t].slot = at[t].slot /\ at'[t].block = b
    BY <2>1, <2>3 DEF SocketTypeOK, Positions
  <2>5. \A u \in SocketTasks \ {t} : at'[u] = at[u] /\ pc'[u] = pc[u]
    BY <1>4, <2>1 DEF FillBlock, SocketTypeOK
  <2>6. \A u \in SocketTasks : /\ pc'[u] \in {"filling", "storing"} => at'[u].slot \in Slots
                               /\ pc'[u] \in {"storing", "registering"} => at'[u].block \in Blocks
    BY <1>4, <2>1, <2>4, <2>5 DEF FillBlock, SocketTypeOK
  <2>. QED
    BY <1>4, <2>1, <2>2, <2>4, <2>6 DEF FillBlock, SocketTypeOK
<1>5. ASSUME NEW t \in SocketTasks, NoMemory(t) PROVE SocketTypeOK'
  BY <1>5, RecordTypes DEF SocketTypeOK, NoMemory, Return
<1>6. ASSUME NEW t \in SocketTasks, StoreBlock(t) PROVE SocketTypeOK'
  <2>1. at[t].slot \in Slots /\ at[t].block \in Blocks /\ at[t].pdn \in Nat
    BY <1>6 DEF StoreBlock, SocketTypeOK, Positions
  <2>2. /\ pSocketData' \in [Slots -> Blocks \cup {NoBlock}]
        /\ handles' \in [SocketTasks -> SUBSET Blocks]
    BY <1>6, <2>1 DEF StoreBlock, SocketTypeOK
  <2>3. wanted' \in [SocketTasks -> [Blocks -> Settings]]
    BY <1>6, <2>1, RecordTypes DEF StoreBlock, SocketTypeOK
  <2>4. /\ pc' = [pc EXCEPT ![t] = "idle"]
        /\ at' = [at EXCEPT ![t] = Nowhere]
        /\ wasFull' = [wasFull EXCEPT ![t] = FALSE]
        /\ UNCHANGED <<static, careful, sock, heap>>
    BY <1>6 DEF StoreBlock, Return
  <2>. QED
    BY <2>2, <2>3, <2>4, RecordTypes DEF SocketTypeOK
<1>7. ASSUME NEW t \in SocketTasks, RegisterContext(t) PROVE SocketTypeOK'
  <2>1. sock' \in [Blocks -> Sockets]
    <3>1. at[t].block \in Blocks /\ sock[at[t].block] \in Sockets
      BY <1>7 DEF RegisterContext, SocketTypeOK
    <3>2. [sock[at[t].block] EXCEPT !.ctx = t] \in Sockets
      BY <3>1 DEF Sockets
    <3>. QED
      BY <1>7, <3>1, <3>2 DEF RegisterContext, SocketTypeOK
  <2>. QED
    BY <1>7, <2>1, RecordTypes DEF RegisterContext, SocketTypeOK, Return
<1>8. ASSUME NEW t \in SocketTasks, NEW b \in Blocks, SetSockOpt(t, b) PROVE SocketTypeOK'
  <2>1. PICK option \in Options, v \in Nat :
          /\ sock' = [sock EXCEPT ![b].set[option] = v]
          /\ wanted' = [wanted EXCEPT ![t][b][option] = v]
    BY <1>8, SocketAssumption DEF SetSockOpt
  <2>2. [sock[b].set EXCEPT ![option] = v] \in Settings /\ [wanted[t][b] EXCEPT ![option] = v] \in Settings
    BY OptionType DEF SocketTypeOK, Sockets
  <2>3. sock' \in [Blocks -> Sockets]
    <3>1. sock[b] \in Sockets
      BY DEF SocketTypeOK
    <3>2. [sock[b] EXCEPT !.set = [sock[b].set EXCEPT ![option] = v]] \in Sockets
      BY <2>2, <3>1 DEF Sockets
    <3>. QED
      BY <2>1, <3>2 DEF SocketTypeOK
  <2>4. wanted' \in [SocketTasks -> [Blocks -> Settings]]
    BY <2>1, <2>2 DEF SocketTypeOK
  <2>. QED
    BY <1>8, <2>3, <2>4 DEF SetSockOpt, SocketTypeOK
<1>9. ASSUME NEW t \in SocketTasks, NEW b \in Blocks, RegisterCallback(t, b) PROVE SocketTypeOK'
  <2>1. sock' \in [Blocks -> Sockets]
    <3>1. sock[b] \in Sockets
      BY DEF SocketTypeOK
    <3>2. [sock[b] EXCEPT !.cb = t] \in Sockets
      BY <3>1 DEF Sockets
    <3>. QED
      BY <1>9, <3>2 DEF RegisterCallback, SocketTypeOK
  <2>2. at' \in [SocketTasks -> Positions] /\ at'[t].block = b
    <3>1. at \in [SocketTasks -> Positions] /\ at' = [at EXCEPT ![t].block = b]
      BY <1>9 DEF RegisterCallback, SocketTypeOK
    <3>2. [at[t] EXCEPT !.block = b] \in Positions /\ [at[t] EXCEPT !.block = b].block = b
      BY <1>9, <3>1 DEF Positions
    <3>. QED
      BY <3>1, <3>2
  <2>3. \A u \in SocketTasks \ {t} : at'[u] = at[u] /\ pc'[u] = pc[u]
    BY <1>9 DEF RegisterCallback, SocketTypeOK
  <2>4. pc' \in [SocketTasks -> {"idle", "scanning", "filling", "storing", "registering"}]
        /\ pc'[t] = "registering"
    BY <1>9 DEF RegisterCallback, SocketTypeOK
  <2>5. \A u \in SocketTasks : /\ pc'[u] \in {"filling", "storing"} => at'[u].slot \in Slots
                               /\ pc'[u] \in {"storing", "registering"} => at'[u].block \in Blocks
    BY <2>2, <2>3, <2>4 DEF SocketTypeOK
  <2>. QED
    BY <1>9, <2>1, <2>2, <2>4, <2>5 DEF RegisterCallback, SocketTypeOK
<1>10. ASSUME NEW t \in SocketTasks, NEW b \in Blocks, Connect(t, b) PROVE SocketTypeOK'
  <2>1. sock' \in [Blocks -> Sockets]
    <3>1. sock[b] \in Sockets
      BY DEF SocketTypeOK
    <3>2. [sock[b] EXCEPT !.state = "connected"] \in Sockets
      BY <3>1 DEF Sockets
    <3>. QED
      BY <1>10, <3>2 DEF Connect, SocketTypeOK
  <2>. QED
    BY <1>10, <2>1 DEF Connect, SocketTypeOK
<1>11. ASSUME NEW t \in SocketTasks, NEW b \in Blocks, RemoveSocketData(t, b) PROVE SocketTypeOK'
  BY <1>11, Found DEF SocketTypeOK, RemoveSocketData, Freed
<1>12. ASSUME CloseSockets PROVE SocketTypeOK'
  BY <1>12 DEF SocketTypeOK, CloseSockets
<1>13. CASE UNCHANGED socketVars
  BY <1>13 DEF socketVars, SocketTypeOK
<1>. QED
  BY <1>1, <1>2, <1>3, <1>4, <1>5, <1>6, <1>7, <1>8, <1>9, <1>10, <1>11, <1>12, <1>13
     DEF SocketNext, SocketCall, AllClosed

\* A call changes nothing of what another one is at.
LEMMA OthersStay ==
  ASSUME SocketTypeOK, NEW t \in SocketTasks,
         \/ CreateSocket(t) \/ TestSlot(t) \/ NoSlot(t) \/ FillBlock(t) \/ NoMemory(t)
         \/ StoreBlock(t) \/ RegisterContext(t)
  PROVE  \A u \in SocketTasks \ {t} : pc'[u] = pc[u] /\ at'[u] = at[u] /\ wasFull'[u] = wasFull[u]
<1>1. ASSUME CreateSocket(t)
      PROVE \A u \in SocketTasks \ {t} : pc'[u] = pc[u] /\ at'[u] = at[u] /\ wasFull'[u] = wasFull[u]
  BY <1>1 DEF CreateSocket, SocketTypeOK
<1>2. ASSUME TestSlot(t)
      PROVE \A u \in SocketTasks \ {t} : pc'[u] = pc[u] /\ at'[u] = at[u] /\ wasFull'[u] = wasFull[u]
  BY <1>2 DEF TestSlot, SocketTypeOK
<1>3. ASSUME FillBlock(t)
      PROVE \A u \in SocketTasks \ {t} : pc'[u] = pc[u] /\ at'[u] = at[u] /\ wasFull'[u] = wasFull[u]
  BY <1>3 DEF FillBlock, SocketTypeOK
<1>4. ASSUME Return(t)
      PROVE \A u \in SocketTasks \ {t} : pc'[u] = pc[u] /\ at'[u] = at[u] /\ wasFull'[u] = wasFull[u]
  BY <1>4 DEF Return, SocketTypeOK
<1>. QED
  BY <1>1, <1>2, <1>3, <1>4 DEF NoSlot, NoMemory, StoreBlock, RegisterContext

\* A creation begins with its scan, or is refused.
LEMMA CreateStep ==
  ASSUME SocketTypeOK, NEW t \in SocketTasks, CreateSocket(t)
  PROVE  /\ pc[t] = "idle" /\ pc'[t] \in {"idle", "scanning"}
         /\ pc'[t] = "scanning" => at'[t].slot = 0 /\ wasFull'[t] = Full
         /\ careful => \A u \in SocketTasks : ~Creates(u)
         /\ UNCHANGED <<static, careful, pSocketData, sock, heap, handles, wanted>>
BY DEF CreateSocket, SocketTypeOK, FirstSlot

\* A removal empties the slot of its block and gives the block back, or neither.
LEMMA RemoveStep ==
  ASSUME SocketTypeOK, SlotKnowsItself, NEW t \in SocketTasks, NEW b \in Blocks, RemoveSocketData(t, b)
  PROVE  /\ pc[t] = "idle" /\ b \in handles[t]
         /\ \A s \in Slots : pSocketData'[s] = IF pSocketData[s] = b THEN NoBlock ELSE pSocketData[s]
         /\ heap' = IF \E s \in Slots : pSocketData[s] = b THEN heap \ {b} ELSE heap
         /\ \A u \in SocketTasks : handles'[u] = IF u = t THEN handles[u] \ {b} ELSE handles[u]
         /\ UNCHANGED <<static, careful, sock, pc, at, wasFull, created, wanted>>
<1>1. CASE SlotsOf(b) = {}
  BY <1>1 DEF RemoveSocketData, SlotsOf, Freed, SocketTypeOK, creating
<1>2. CASE SlotsOf(b) # {}
  BY <1>2, Found DEF RemoveSocketData, SlotsOf, Freed, SocketTypeOK, creating
<1>. QED
  BY <1>1, <1>2

\* A block is filled that is neither in the table nor about to be put there, or the
\* slot's own.
LEMMA FillStep ==
  ASSUME SocketTypeOK, NEW t \in SocketTasks, FillBlock(t)
  PROVE  /\ pc[t] = "filling" /\ pc'[t] = "storing"
         /\ at[t].slot \in Slots /\ at'[t].slot = at[t].slot /\ at'[t].pdn = at[t].pdn
         /\ \E b \in Blocks :
              /\ at'[t].block = b
              /\ sock' = [sock EXCEPT ![b] = SetSocketData(t, b)]
              /\ IF static THEN b = at[t].slot /\ heap' = heap ELSE b \notin heap /\ heap' = heap \cup {b}
         /\ UNCHANGED <<static, careful, pSocketData, wasFull, handles, wanted>>
<1>1. at[t] \in Positions /\ at[t].slot \in Slots /\ pc[t] = "filling"
  BY DEF FillBlock, SocketTypeOK
<1>. DEFINE found == IF static THEN {at[t].slot} ELSE Blocks \ heap
<1>2. found \subseteq Blocks
  BY <1>1, SocketAssumption DEF Slots, Blocks
<1>3. PICK b \in found : /\ sock' = [sock EXCEPT ![b] = SetSocketData(t, b)]
                         /\ heap' = IF static THEN heap ELSE heap \cup {b}
                         /\ at' = [at EXCEPT ![t].block = b]
  BY DEF FillBlock
<1>4. at'[t].block = b /\ at'[t].slot = at[t].slot /\ at'[t].pdn = at[t].pdn
  BY <1>1, <1>3 DEF Positions, SocketTypeOK
<1>5. IF static THEN b = at[t].slot /\ heap' = heap ELSE b \notin heap /\ heap' = heap \cup {b}
  BY <1>3 DEF SocketTypeOK
<1>. QED
  BY <1>1, <1>2, <1>3, <1>4, <1>5 DEF FillBlock, SocketTypeOK

\* Every step leaves each block where it may be: in its own slot, or in one place.
LEMMA PlacedStep == ASSUME IInv, [SocketNext]_socketVars PROVE Placed'
<1>1. ASSUME NEW t \in SocketTasks, CreateSocket(t) PROVE Placed'
  BY <1>1, CreateStep, OthersStay DEF IInv, Placed
<1>2. ASSUME NEW t \in SocketTasks, TestSlot(t) PROVE Placed'
  <2>1. /\ pc[t] = "scanning" /\ pc'[t] \in {"scanning", "filling"}
        /\ UNCHANGED <<static, careful, pSocketData, sock, heap, handles>>
    BY <1>2 DEF IInv, TestSlot, SocketTypeOK
  <2>2. \A u \in SocketTasks \ {t} : pc'[u] = pc[u] /\ at'[u] = at[u]
    BY <1>2, OthersStay DEF IInv
  <2>. QED
    BY <2>1, <2>2 DEF IInv, Placed
<1>3. ASSUME NEW t \in SocketTasks, NoSlot(t) PROVE Placed'
  BY <1>3 DEF IInv, SocketTypeOK, NoSlot, Return, Placed
<1>4. ASSUME NEW t \in SocketTasks, FillBlock(t) PROVE Placed'
  BY <1>4 DEF IInv, SocketTypeOK, Blocks, NoBlock, FillBlock, Placed
<1>5. ASSUME NEW t \in SocketTasks, NoMemory(t) PROVE Placed'
  BY <1>5 DEF IInv, SocketTypeOK, NoMemory, Return, Placed
<1>6. ASSUME NEW t \in SocketTasks, StoreBlock(t) PROVE Placed'
  BY <1>6 DEF IInv, SocketTypeOK, StoreBlock, Return, Placed
<1>7. ASSUME NEW t \in SocketTasks, RegisterContext(t) PROVE Placed'
  BY <1>7 DEF IInv, SocketTypeOK, RegisterContext, Return, Placed
<1>8. ASSUME NEW t \in SocketTasks, NEW b \in Blocks, SetSockOpt(t, b) PROVE Placed'
  BY <1>8 DEF IInv, SocketTypeOK, creating, SetSockOpt, Placed
<1>9. ASSUME NEW t \in SocketTasks, NEW b \in Blocks, RegisterCallback(t, b) PROVE Placed'
  BY <1>9 DEF IInv, SocketTypeOK, RegisterCallback, Placed
<1>10. ASSUME NEW t \in SocketTasks, NEW b \in Blocks, Connect(t, b) PROVE Placed'
  BY <1>10 DEF IInv, SocketTypeOK, creating, Connect, Placed
<1>11. ASSUME NEW t \in SocketTasks, NEW b \in Blocks, RemoveSocketData(t, b) PROVE Placed'
  <2>1. /\ pc[t] = "idle" /\ b \in handles[t]
        /\ \A s \in Slots : pSocketData'[s] = IF pSocketData[s] = b THEN NoBlock ELSE pSocketData[s]
        /\ heap' = IF \E s \in Slots : pSocketData[s] = b THEN heap \ {b} ELSE heap
        /\ \A u \in SocketTasks : handles'[u] = IF u = t THEN handles[u] \ {b} ELSE handles[u]
        /\ UNCHANGED <<static, careful, sock, pc, at, wasFull, created, wanted>>
    BY <1>11, RemoveStep DEF IInv
  <2>2. Placed /\ static \in BOOLEAN
    BY DEF IInv, SocketTypeOK
  <2>3. CASE static
    BY <2>1, <2>2, <2>3 DEF Placed
  <2>4. CASE ~static
    <3>1. ASSUME NEW s \in Slots, pSocketData'[s] # NoBlock PROVE pSocketData'[s] \in heap'
      BY <2>1, <2>2, <2>4, <3>1 DEF Placed
    <3>2. ASSUME NEW u \in SocketTasks, pc[u] = "storing" PROVE at[u].block \in heap'
      BY <2>1, <2>2, <2>4, <3>2 DEF Placed
    <3>3. ASSUME NEW u \in SocketTasks, pc[u] = "storing", NEW s \in Slots
          PROVE  pSocketData'[s] # at[u].block
      <4>1. at[u].block \in Blocks /\ NoBlock \notin Blocks
        BY <3>3, SocketAssumption DEF IInv, SocketTypeOK, NoBlock, Blocks
      <4>. QED
        BY <2>1, <2>2, <2>4, <3>3, <4>1 DEF Placed
    <3>. QED
      BY <2>1, <2>2, <2>4, <3>1, <3>2, <3>3 DEF Placed
  <2>. QED
    BY <2>2, <2>3, <2>4
<1>12. ASSUME CloseSockets PROVE Placed'
  BY <1>12 DEF IInv, SocketTypeOK, creating, CloseSockets, Placed
<1>13. CASE UNCHANGED socketVars
  BY <1>13 DEF IInv, socketVars, creating, Placed
<1>. QED
  BY <1>1, <1>2, <1>3, <1>4, <1>5, <1>6, <1>7, <1>8, <1>9, <1>10, <1>11, <1>12, <1>13
     DEF SocketNext, SocketCall, AllClosed

\* Every step leaves a taken slot with a block set up for it.
LEMMA SlotStep == ASSUME IInv, [SocketNext]_socketVars PROVE (SlotKnowsItself /\ SetUp)'
<1>1. ASSUME NEW t \in SocketTasks, CreateSocket(t) PROVE (SlotKnowsItself /\ SetUp)'
  BY <1>1, CreateStep, OthersStay DEF IInv, SlotKnowsItself, SetUp
<1>2. ASSUME NEW t \in SocketTasks, TestSlot(t) PROVE (SlotKnowsItself /\ SetUp)'
  BY <1>2 DEF IInv, SocketTypeOK, TestSlot, SlotKnowsItself, SetUp
<1>3. ASSUME NEW t \in SocketTasks, NoSlot(t) PROVE (SlotKnowsItself /\ SetUp)'
  BY <1>3 DEF IInv, SocketTypeOK, NoSlot, Return, SlotKnowsItself, SetUp
<1>4. ASSUME NEW t \in SocketTasks, FillBlock(t) PROVE (SlotKnowsItself /\ SetUp)'
  BY <1>4, SocketAssumption
     DEF IInv, SocketTypeOK, Slots, Blocks, FillBlock, SetSocketData, SlotKnowsItself, SetUp,
         Placed
<1>5. ASSUME NEW t \in SocketTasks, NoMemory(t) PROVE (SlotKnowsItself /\ SetUp)'
  BY <1>5 DEF IInv, SocketTypeOK, NoMemory, Return, SlotKnowsItself, SetUp
<1>6. ASSUME NEW t \in SocketTasks, StoreBlock(t) PROVE (SlotKnowsItself /\ SetUp)'
  BY <1>6 DEF IInv, SocketTypeOK, StoreBlock, Return, SlotKnowsItself, SetUp
<1>7. ASSUME NEW t \in SocketTasks, RegisterContext(t) PROVE (SlotKnowsItself /\ SetUp)'
  BY <1>7 DEF IInv, SocketTypeOK, RegisterContext, Return, SlotKnowsItself, SetUp
<1>8. ASSUME NEW t \in SocketTasks, NEW b \in Blocks, SetSockOpt(t, b)
      PROVE (SlotKnowsItself /\ SetUp)'
  BY <1>8 DEF IInv, SocketTypeOK, creating, SetSockOpt, SlotKnowsItself, SetUp
<1>9. ASSUME NEW t \in SocketTasks, NEW b \in Blocks, RegisterCallback(t, b)
      PROVE (SlotKnowsItself /\ SetUp)'
  <2>1. \A c \in Blocks : sock'[c].id = sock[c].id /\ sock'[c].state = sock[c].state
    BY <1>9 DEF IInv, RegisterCallback, SocketTypeOK, Sockets
  <2>2. \A u \in SocketTasks : pc'[u] = "storing" => pc[u] = "storing" /\ at'[u] = at[u] /\ at[u].block \in Blocks
    BY <1>9 DEF IInv, RegisterCallback, SocketTypeOK
  <2>3. pSocketData' = pSocketData /\ \A s \in Slots : pSocketData[s] # NoBlock => pSocketData[s] \in Blocks
    BY <1>9 DEF IInv, RegisterCallback, SocketTypeOK
  <2>. QED
    BY <2>1, <2>2, <2>3 DEF IInv, SlotKnowsItself, SetUp
<1>10. ASSUME NEW t \in SocketTasks, NEW b \in Blocks, Connect(t, b)
       PROVE (SlotKnowsItself /\ SetUp)'
  BY <1>10 DEF IInv, SocketTypeOK, creating, Connect, SlotKnowsItself, SetUp
<1>11. ASSUME NEW t \in SocketTasks, NEW b \in Blocks, RemoveSocketData(t, b)
       PROVE (SlotKnowsItself /\ SetUp)'
  BY <1>11, Found DEF IInv, SocketTypeOK, creating, RemoveSocketData, SlotKnowsItself, SetUp
<1>12. ASSUME CloseSockets PROVE (SlotKnowsItself /\ SetUp)'
  BY <1>12 DEF IInv, SocketTypeOK, creating, CloseSockets, SlotKnowsItself, SetUp
<1>13. CASE UNCHANGED socketVars
  BY <1>13 DEF IInv, socketVars, creating, SlotKnowsItself, SetUp, Placed
<1>. QED
  BY <1>1, <1>2, <1>3, <1>4, <1>5, <1>6, <1>7, <1>8, <1>9, <1>10, <1>11, <1>12, <1>13
     DEF SocketNext, SocketCall, AllClosed

\* Every step leaves a socket with one task, and in the slot of its index.
LEMMA OwnersStep == ASSUME IInv, [SocketNext]_socketVars PROVE (Owned /\ HandlesApart)'
<1>1. ASSUME NEW t \in SocketTasks, CreateSocket(t) PROVE (Owned /\ HandlesApart)'
  BY <1>1 DEF IInv, SocketTypeOK, CreateSocket, Owned, HandlesApart
<1>2. ASSUME NEW t \in SocketTasks, TestSlot(t) PROVE (Owned /\ HandlesApart)'
  BY <1>2 DEF IInv, SocketTypeOK, TestSlot, Owned, HandlesApart
<1>3. ASSUME NEW t \in SocketTasks, NoSlot(t) PROVE (Owned /\ HandlesApart)'
  BY <1>3 DEF IInv, SocketTypeOK, NoSlot, Owned, HandlesApart
<1>4. ASSUME NEW t \in SocketTasks, FillBlock(t) PROVE (Owned /\ HandlesApart)'
  BY <1>4 DEF IInv, SocketTypeOK, FillBlock, SetSocketData, Owned, HandlesApart, Placed, Creator
<1>5. ASSUME NEW t \in SocketTasks, NoMemory(t) PROVE (Owned /\ HandlesApart)'
  BY <1>5 DEF IInv, SocketTypeOK, NoMemory, Owned, HandlesApart
<1>6. ASSUME NEW t \in SocketTasks, StoreBlock(t) PROVE (Owned /\ HandlesApart)'
  <2>1. /\ pc[t] = "storing" /\ at[t].slot \in Slots /\ at[t].block \in Blocks
        /\ pSocketData' = [pSocketData EXCEPT ![at[t].slot] = at[t].block]
        /\ handles' = [handles EXCEPT ![t] = @ \cup {at[t].block}]
        /\ UNCHANGED <<careful, sock>>
    BY <1>6 DEF IInv, StoreBlock, SocketTypeOK
  <2>2. sock[at[t].block].id = at[t].slot
    BY <2>1 DEF IInv, SetUp
  <2>3. ASSUME careful PROVE /\ pSocketData[at[t].slot] = NoBlock
                             /\ \A u \in SocketTasks : at[t].block \notin handles[u]
    BY <2>1, <2>3 DEF IInv, Creator
  <2>4. ASSUME careful, NEW u \in SocketTasks, NEW c \in handles'[u]
        PROVE  sock[c].id \in Slots /\ pSocketData'[sock[c].id] = c
    <3>1. CASE c = at[t].block
      BY <2>1, <2>2, <3>1 DEF IInv, SocketTypeOK
    <3>2. CASE c # at[t].block
      <4>1. c \in handles[u] /\ c \in Blocks
        BY <2>1, <2>4, <3>2 DEF IInv, SocketTypeOK
      <4>2. sock[c].id \in Slots /\ pSocketData[sock[c].id] = c
        BY <2>4, <4>1 DEF IInv, Owned, HandlesApart
      <4>3. sock[c].id # at[t].slot
        BY <2>3, <2>4, <4>1, <4>2, SocketAssumption DEF NoBlock, Blocks
      <4>. QED
        BY <2>1, <4>2, <4>3 DEF IInv, SocketTypeOK
    <3>. QED
      BY <3>1, <3>2
  <2>5. ASSUME careful, NEW u \in SocketTasks, NEW w \in SocketTasks, u # w
        PROVE  handles'[u] \cap handles'[w] = {}
    BY <2>1, <2>3, <2>5 DEF IInv, HandlesApart, SocketTypeOK
  <2>. QED
    BY <2>1, <2>4, <2>5 DEF Owned, HandlesApart
<1>7. ASSUME NEW t \in SocketTasks, RegisterContext(t) PROVE (Owned /\ HandlesApart)'
  BY <1>7 DEF IInv, SocketTypeOK, RegisterContext, Owned, HandlesApart
<1>8. ASSUME NEW t \in SocketTasks, NEW b \in Blocks, SetSockOpt(t, b)
      PROVE (Owned /\ HandlesApart)'
  BY <1>8 DEF IInv, SocketTypeOK, SetSockOpt, Owned, HandlesApart
<1>9. ASSUME NEW t \in SocketTasks, NEW b \in Blocks, RegisterCallback(t, b)
      PROVE (Owned /\ HandlesApart)'
  BY <1>9 DEF IInv, SocketTypeOK, RegisterCallback, Owned, HandlesApart
<1>10. ASSUME NEW t \in SocketTasks, NEW b \in Blocks, Connect(t, b)
       PROVE (Owned /\ HandlesApart)'
  BY <1>10 DEF IInv, SocketTypeOK, Connect, Owned, HandlesApart
<1>11. ASSUME NEW t \in SocketTasks, NEW b \in Blocks, RemoveSocketData(t, b)
       PROVE (Owned /\ HandlesApart)'
  <2>1. /\ pc[t] = "idle" /\ b \in handles[t]
        /\ \A s \in Slots : pSocketData'[s] = IF pSocketData[s] = b THEN NoBlock ELSE pSocketData[s]
        /\ heap' = IF \E s \in Slots : pSocketData[s] = b THEN heap \ {b} ELSE heap
        /\ \A u \in SocketTasks : handles'[u] = IF u = t THEN handles[u] \ {b} ELSE handles[u]
        /\ UNCHANGED <<static, careful, sock, pc, at, wasFull, created, wanted>>
    BY <1>11, RemoveStep DEF IInv
  <2>2. ASSUME careful, NEW u \in SocketTasks, NEW c \in handles'[u]
        PROVE c \in handles[u] /\ c # b
    BY <2>1, <2>2 DEF IInv, HandlesApart
  <2>3. ASSUME careful, NEW u \in SocketTasks, NEW c \in handles'[u]
        PROVE  sock[c].id \in Slots /\ pSocketData'[sock[c].id] = c
    <3>1. sock[c].id \in Slots /\ pSocketData[sock[c].id] = c
      BY <2>2, <2>3 DEF IInv, HandlesApart, Owned
    <3>. QED
      BY <2>1, <2>2, <2>3, <3>1
  <2>. QED
    BY <2>1, <2>3 DEF IInv, Owned, HandlesApart
<1>12. ASSUME CloseSockets PROVE (Owned /\ HandlesApart)'
  BY <1>12 DEF IInv, SocketTypeOK, CloseSockets, Owned, HandlesApart
<1>13. CASE UNCHANGED socketVars
  BY <1>13 DEF IInv, socketVars, creating, Owned, HandlesApart, SlotKnowsItself, Placed, Creator
<1>. QED
  BY <1>1, <1>2, <1>3, <1>4, <1>5, <1>6, <1>7, <1>8, <1>9, <1>10, <1>11, <1>12, <1>13
     DEF SocketNext, SocketCall, AllClosed

\* Every step leaves the one creator what it knows of its slot and its block.
LEMMA CreatorStep == ASSUME IInv, [SocketNext]_socketVars PROVE Creator'
<1>1. ASSUME NEW t \in SocketTasks, CreateSocket(t) PROVE Creator'
  <2>1. SocketTypeOK /\ Creator
    BY DEF IInv
  <2>2. /\ pc[t] = "idle" /\ pc'[t] \in {"idle", "scanning"}
        /\ pc'[t] = "scanning" => at'[t].slot = 0 /\ wasFull'[t] = Full
        /\ careful => \A u \in SocketTasks : ~Creates(u)
        /\ UNCHANGED <<static, careful, pSocketData, sock, heap, handles, wanted>>
    BY <1>1, <2>1, CreateStep
  <2>3. \A u \in SocketTasks \ {t} : pc'[u] = pc[u] /\ at'[u] = at[u] /\ wasFull'[u] = wasFull[u]
    BY <1>1, <2>1, OthersStay
  <2>4. ASSUME careful, NEW u \in SocketTasks, Creates(u)' PROVE u = t /\ pc'[u] = "scanning"
    BY <2>2, <2>3, <2>4 DEF Creates
  <2>5. ASSUME pc'[t] = "scanning", ~wasFull'[t]
        PROVE  \E s \in Slots : s >= at'[t].slot /\ pSocketData'[s] = NoBlock
    <3>1. ~Full /\ at'[t].slot = 0 /\ pSocketData' = pSocketData
      BY <2>2, <2>5
    <3>2. PICK s \in Slots : pSocketData[s] = NoBlock
      BY <3>1 DEF Full
    <3>3. s >= 0
      BY DEF Slots
    <3>. QED
      BY <3>1, <3>2, <3>3
  <2>. QED
    BY <2>2, <2>4, <2>5 DEF Creator, Creates
<1>2. ASSUME NEW t \in SocketTasks, TestSlot(t) PROVE Creator'
  <2>1. /\ pc[t] = "scanning" /\ at[t] \in Positions /\ at[t].slot \in Slots /\ Creator
        /\ UNCHANGED <<static, careful, pSocketData, sock, heap, handles, wanted, wasFull>>
    BY <1>2, SocketAssumption DEF IInv, TestSlot, SocketTypeOK, Positions, Slots
  <2>2. \A u \in SocketTasks \ {t} : pc'[u] = pc[u] /\ at'[u] = at[u]
    BY <1>2, OthersStay DEF IInv
  <2>3. \/ pSocketData[at[t].slot] = NoBlock /\ pc'[t] = "filling" /\ at'[t] = at[t]
        \/ pSocketData[at[t].slot] # NoBlock /\ pc'[t] = "scanning" /\ at'[t].slot = at[t].slot + 1
    BY <1>2, <2>1 DEF IInv, TestSlot, FreeSlot, SocketTypeOK, Positions
  <2>4. ASSUME careful, NEW u \in SocketTasks, Creates(u)' PROVE u = t
    BY <2>1, <2>2, <2>4 DEF Creator, Creates
  <2>5. ASSUME careful, pc'[t] = "scanning", ~wasFull'[t]
        PROVE  \E s \in Slots : s >= at'[t].slot /\ pSocketData'[s] = NoBlock
    <3>1. PICK s \in Slots : s >= at[t].slot /\ pSocketData[s] = NoBlock
      BY <2>1, <2>5 DEF Creator
    <3>2. s >= at'[t].slot
      BY <2>1, <2>3, <2>5, <3>1 DEF Slots
    <3>. QED
      BY <2>1, <3>1, <3>2
  <2>6. ASSUME careful, NEW u \in SocketTasks, pc'[u] = "storing" PROVE FALSE
    BY <2>3, <2>4, <2>6 DEF Creates
  <2>. QED
    BY <2>1, <2>3, <2>4, <2>5, <2>6 DEF Creator, Creates
<1>3. ASSUME NEW t \in SocketTasks, NoSlot(t) PROVE Creator'
  BY <1>3 DEF IInv, SocketTypeOK, NoSlot, Return, Creator, Creates
<1>4. ASSUME NEW t \in SocketTasks, FillBlock(t) PROVE Creator'
  <2>1. PICK b \in Blocks :
          /\ at'[t].block = b
          /\ sock' = [sock EXCEPT ![b] = SetSocketData(t, b)]
          /\ IF static THEN b = at[t].slot /\ heap' = heap ELSE b \notin heap /\ heap' = heap \cup {b}
    BY <1>4, FillStep DEF IInv
  <2>2. /\ pc[t] = "filling" /\ pc'[t] = "storing"
        /\ at[t].slot \in Slots /\ at'[t].slot = at[t].slot /\ at'[t].pdn = at[t].pdn
        /\ UNCHANGED <<static, careful, pSocketData, wasFull, handles, wanted>>
    BY <1>4, FillStep DEF IInv
  <2>3. \A u \in SocketTasks \ {t} : pc'[u] = pc[u]
    BY <1>4, OthersStay DEF IInv
  <2>4. ASSUME careful, NEW u \in SocketTasks, Creates(u)' PROVE u = t
    BY <2>2, <2>3, <2>4 DEF IInv, Creator, Creates
  <2>5. sock'[b].set = Created(at'[t].pdn)
    BY <2>1, <2>2 DEF IInv, SocketTypeOK, SetSocketData, Blank
  <2>6. ASSUME careful, NEW u \in SocketTasks PROVE b \notin handles[u]
    BY <2>1, <2>2, <2>6, SocketAssumption
       DEF IInv, Creator, Owned, HandlesApart, Placed, Slots, Blocks, NoBlock
  <2>. QED
    BY <2>1, <2>2, <2>4, <2>5, <2>6 DEF IInv, Creator, Creates
<1>5. ASSUME NEW t \in SocketTasks, NoMemory(t) PROVE Creator'
  BY <1>5 DEF IInv, SocketTypeOK, NoMemory, Return, Creator, Creates
<1>6. ASSUME NEW t \in SocketTasks, StoreBlock(t) PROVE Creator'
  BY <1>6 DEF IInv, SocketTypeOK, StoreBlock, Return, Creator, Creates
<1>7. ASSUME NEW t \in SocketTasks, RegisterContext(t) PROVE Creator'
  BY <1>7 DEF IInv, SocketTypeOK, RegisterContext, Return, Creator, Creates
<1>8. ASSUME NEW t \in SocketTasks, NEW b \in Blocks, SetSockOpt(t, b) PROVE Creator'
  BY <1>8 DEF IInv, SocketTypeOK, creating, SetSockOpt, Creator, Creates
<1>9. ASSUME NEW t \in SocketTasks, NEW b \in Blocks, RegisterCallback(t, b) PROVE Creator'
  BY <1>9 DEF IInv, SocketTypeOK, RegisterCallback, Creator, Creates
<1>10. ASSUME NEW t \in SocketTasks, NEW b \in Blocks, Connect(t, b) PROVE Creator'
  BY <1>10 DEF IInv, SocketTypeOK, creating, Connect, Creator, Creates
<1>11. ASSUME NEW t \in SocketTasks, NEW b \in Blocks, RemoveSocketData(t, b) PROVE Creator'
  <2>1. /\ pc[t] = "idle" /\ b \in handles[t]
        /\ \A s \in Slots : pSocketData'[s] = IF pSocketData[s] = b THEN NoBlock ELSE pSocketData[s]
        /\ heap' = IF \E s \in Slots : pSocketData[s] = b THEN heap \ {b} ELSE heap
        /\ \A u \in SocketTasks : handles'[u] = IF u = t THEN handles[u] \ {b} ELSE handles[u]
        /\ UNCHANGED <<static, careful, sock, pc, at, wasFull, created, wanted>>
    BY <1>11, RemoveStep DEF IInv
  <2>2. Creator
    BY DEF IInv
  <2>3. \A s \in Slots : pSocketData[s] = NoBlock => pSocketData'[s] = NoBlock
    BY <2>1
  <2>4. \A u \in SocketTasks : pc[u] \in {"filling", "storing"} => at[u].slot \in Slots
    BY DEF IInv, SocketTypeOK
  <2>5. \A u \in SocketTasks : handles'[u] \subseteq handles[u]
    BY <2>1
  <2>6. ASSUME careful, NEW u \in SocketTasks, pc[u] = "scanning", ~wasFull[u]
        PROVE  \E s \in Slots : s >= at[u].slot /\ pSocketData'[s] = NoBlock
    <3>1. PICK s \in Slots : s >= at[u].slot /\ pSocketData[s] = NoBlock
      BY <2>2, <2>6 DEF Creator
    <3>. QED
      BY <2>3, <3>1
  <2>7. ASSUME careful, NEW u \in SocketTasks, pc[u] \in {"filling", "storing"}
        PROVE  pSocketData'[at[u].slot] = NoBlock
    BY <2>2, <2>3, <2>4, <2>7 DEF Creator
  <2>. QED
    BY <2>1, <2>2, <2>5, <2>6, <2>7 DEF Creator, Creates
<1>12. ASSUME CloseSockets PROVE Creator'
  BY <1>12 DEF IInv, SocketTypeOK, creating, CloseSockets, Creator, Creates
<1>13. CASE UNCHANGED socketVars
  BY <1>13 DEF IInv, socketVars, creating, Creator, Creates, HandlesApart, Owned, Placed, Created
<1>. QED
  BY <1>1, <1>2, <1>3, <1>4, <1>5, <1>6, <1>7, <1>8, <1>9, <1>10, <1>11, <1>12, <1>13
     DEF SocketNext, SocketCall, AllClosed

\* Every step leaves a callback with its context, or its owner between the two.
LEMMA RegisteringStep == ASSUME IInv, [SocketNext]_socketVars PROVE Registering'
<1>1. ASSUME NEW t \in SocketTasks, CreateSocket(t) PROVE Registering'
  <2>1. /\ pc[t] = "idle" /\ pc'[t] \in {"idle", "scanning"}
        /\ UNCHANGED <<static, careful, pSocketData, sock, heap, handles, wanted>>
    BY <1>1, CreateStep DEF IInv
  <2>2. \A u \in SocketTasks \ {t} : pc'[u] = pc[u] /\ at'[u] = at[u]
    BY <1>1, OthersStay DEF IInv
  <2>. QED
    BY <2>1, <2>2 DEF IInv, Registering
<1>2. ASSUME NEW t \in SocketTasks, TestSlot(t) PROVE Registering'
  <2>1. /\ pc[t] = "scanning" /\ pc'[t] \in {"scanning", "filling"}
        /\ UNCHANGED <<careful, sock, handles>>
    BY <1>2 DEF IInv, TestSlot, SocketTypeOK
  <2>. QED
    BY <1>2, <2>1, OthersStay DEF IInv, Registering
<1>3. ASSUME NEW t \in SocketTasks, NoSlot(t) PROVE Registering'
  BY <1>3 DEF IInv, SocketTypeOK, NoSlot, Return, Registering
<1>4. ASSUME NEW t \in SocketTasks, FillBlock(t) PROVE Registering'
  <2>1. PICK b \in Blocks :
          /\ sock' = [sock EXCEPT ![b] = SetSocketData(t, b)]
          /\ IF static THEN b = at[t].slot /\ heap' = heap ELSE b \notin heap /\ heap' = heap \cup {b}
    BY <1>4, FillStep DEF IInv
  <2>2. /\ pc[t] = "filling" /\ pc'[t] = "storing" /\ at[t].slot \in Slots
        /\ UNCHANGED <<static, careful, pSocketData, wasFull, handles, wanted>>
    BY <1>4, FillStep DEF IInv
  <2>3. \A u \in SocketTasks \ {t} : pc'[u] = pc[u] /\ at'[u] = at[u]
    BY <1>4, OthersStay DEF IInv
  <2>4. ASSUME careful, NEW u \in SocketTasks PROVE b \notin handles[u]
    BY <2>1, <2>2, <2>4, SocketAssumption
       DEF IInv, Creator, Owned, HandlesApart, Placed, Slots, Blocks, NoBlock
  <2>5. sock'[b].cb = sock'[b].ctx /\ \A c \in Blocks \ {b} : sock'[c] = sock[c]
    BY <2>1 DEF IInv, SocketTypeOK, SetSocketData, Blank
  <2>6. \A u \in SocketTasks : pc[u] = "registering" => at[u].block \in Blocks
    BY DEF IInv, SocketTypeOK
  <2>7. SocketTypeOK /\ Registering
    BY DEF IInv
  <2>8. ASSUME careful, NEW u \in SocketTasks, pc'[u] = "registering"
        PROVE  /\ pc[u] = "registering" /\ at'[u] = at[u] /\ at[u].block \in handles[u]
               /\ sock'[at[u].block] = sock[at[u].block]
    BY <2>2, <2>3, <2>4, <2>5, <2>6, <2>7, <2>8 DEF Registering
  <2>9. ASSUME careful, NEW c \in Blocks, sock'[c].cb # sock'[c].ctx
        PROVE  \E u \in SocketTasks : pc'[u] = "registering" /\ at'[u].block = c
    BY <2>2, <2>3, <2>5, <2>7, <2>9 DEF Registering
  <2>. QED
    BY <2>2, <2>7, <2>8, <2>9 DEF Registering
<1>5. ASSUME NEW t \in SocketTasks, NoMemory(t) PROVE Registering'
  BY <1>5 DEF IInv, SocketTypeOK, NoMemory, Return, Registering
<1>6. ASSUME NEW t \in SocketTasks, StoreBlock(t) PROVE Registering'
  BY <1>6 DEF IInv, SocketTypeOK, StoreBlock, Return, Registering
<1>7. ASSUME NEW t \in SocketTasks, RegisterContext(t) PROVE Registering'
  BY <1>7 DEF IInv, SocketTypeOK, RegisterContext, Return, Registering
<1>8. ASSUME NEW t \in SocketTasks, NEW b \in Blocks, SetSockOpt(t, b) PROVE Registering'
  BY <1>8 DEF IInv, SocketTypeOK, creating, SetSockOpt, Registering
<1>9. ASSUME NEW t \in SocketTasks, NEW b \in Blocks, RegisterCallback(t, b) PROVE Registering'
  BY <1>9 DEF IInv, SocketTypeOK, RegisterCallback, Registering, HandlesApart
<1>10. ASSUME NEW t \in SocketTasks, NEW b \in Blocks, Connect(t, b) PROVE Registering'
  <2>1. /\ pc[t] = "idle" /\ b \in handles[t]
        /\ sock' = [sock EXCEPT ![b].state = "connected"]
        /\ UNCHANGED <<careful, pc, at, handles>>
    BY <1>10 DEF Connect, creating
  <2>2. \A c \in Blocks : sock'[c].cb = sock[c].cb /\ sock'[c].ctx = sock[c].ctx
    BY <2>1 DEF IInv, SocketTypeOK, Sockets
  <2>3. \A c \in Blocks \ {b} : sock'[c] = sock[c]
    BY <2>1 DEF IInv, SocketTypeOK
  <2>4. ASSUME careful, NEW u \in SocketTasks, pc[u] = "registering"
        PROVE  at[u].block \in Blocks \ {b}
    BY <2>1, <2>4 DEF IInv, Registering, HandlesApart, SocketTypeOK
  <2>. QED
    BY <2>1, <2>2, <2>3, <2>4 DEF IInv, Registering
<1>11. ASSUME NEW t \in SocketTasks, NEW b \in Blocks, RemoveSocketData(t, b) PROVE Registering'
  <2>1. /\ pc[t] = "idle" /\ b \in handles[t]
        /\ \A s \in Slots : pSocketData'[s] = IF pSocketData[s] = b THEN NoBlock ELSE pSocketData[s]
        /\ heap' = IF \E s \in Slots : pSocketData[s] = b THEN heap \ {b} ELSE heap
        /\ \A u \in SocketTasks : handles'[u] = IF u = t THEN handles[u] \ {b} ELSE handles[u]
        /\ UNCHANGED <<static, careful, sock, pc, at, wasFull, created, wanted>>
    BY <1>11, RemoveStep DEF IInv
  <2>2. ASSUME careful, NEW u \in SocketTasks, pc[u] = "registering"
        PROVE  at[u].block \in handles'[u]
    BY <2>1, <2>2 DEF IInv, Registering
  <2>. QED
    BY <2>1, <2>2 DEF IInv, Registering
<1>12. ASSUME CloseSockets PROVE Registering'
  BY <1>12 DEF IInv, SocketTypeOK, creating, CloseSockets, Registering
<1>13. CASE UNCHANGED socketVars
  BY <1>13 DEF IInv, socketVars, creating, Registering, HandlesApart, Owned, Placed
<1>. QED
  BY <1>1, <1>2, <1>3, <1>4, <1>5, <1>6, <1>7, <1>8, <1>9, <1>10, <1>11, <1>12, <1>13
     DEF SocketNext, SocketCall, AllClosed

\* Every step leaves a socket set to what its task has set it to.
LEMMA SettingsStep == ASSUME IInv, [SocketNext]_socketVars PROVE KeepsItsSettings'
<1>1. ASSUME NEW t \in SocketTasks, CreateSocket(t) PROVE KeepsItsSettings'
  BY <1>1 DEF IInv, SocketTypeOK, CreateSocket, KeepsItsSettings
<1>2. ASSUME NEW t \in SocketTasks, TestSlot(t) PROVE KeepsItsSettings'
  BY <1>2 DEF IInv, SocketTypeOK, TestSlot, KeepsItsSettings
<1>3. ASSUME NEW t \in SocketTasks, NoSlot(t) PROVE KeepsItsSettings'
  BY <1>3 DEF IInv, SocketTypeOK, NoSlot, KeepsItsSettings
<1>4. ASSUME NEW t \in SocketTasks, FillBlock(t) PROVE KeepsItsSettings'
  <2>1. PICK b \in Blocks :
          /\ sock' = [sock EXCEPT ![b] = SetSocketData(t, b)]
          /\ IF static THEN b = at[t].slot /\ heap' = heap ELSE b \notin heap /\ heap' = heap \cup {b}
    BY <1>4, FillStep DEF IInv
  <2>2. /\ pc[t] = "filling" /\ at[t].slot \in Slots
        /\ UNCHANGED <<static, careful, pSocketData, handles, wanted>>
    BY <1>4, FillStep DEF IInv
  <2>3. ASSUME careful, NEW u \in SocketTasks PROVE b \notin handles[u]
    BY <2>1, <2>2, <2>3, SocketAssumption
       DEF IInv, Creator, Owned, HandlesApart, Placed, Slots, Blocks, NoBlock
  <2>. QED
    BY <2>1, <2>2, <2>3 DEF IInv, KeepsItsSettings, SocketTypeOK
<1>5. ASSUME NEW t \in SocketTasks, NoMemory(t) PROVE KeepsItsSettings'
  BY <1>5 DEF IInv, SocketTypeOK, NoMemory, KeepsItsSettings
<1>6. ASSUME NEW t \in SocketTasks, StoreBlock(t) PROVE KeepsItsSettings'
  BY <1>6 DEF IInv, SocketTypeOK, StoreBlock, KeepsItsSettings, Creator
<1>7. ASSUME NEW t \in SocketTasks, RegisterContext(t) PROVE KeepsItsSettings'
  BY <1>7 DEF IInv, SocketTypeOK, RegisterContext, KeepsItsSettings
<1>8. ASSUME NEW t \in SocketTasks, NEW b \in Blocks, SetSockOpt(t, b) PROVE KeepsItsSettings'
  <2>1. PICK option \in Options, v \in Nat :
          /\ sock' = [sock EXCEPT ![b].set[option] = v]
          /\ wanted' = [wanted EXCEPT ![t][b][option] = v]
    BY <1>8, SocketAssumption DEF SetSockOpt
  <2>2. b \in handles[t] /\ UNCHANGED <<careful, handles>>
    BY <1>8 DEF SetSockOpt
  <2>3. /\ sock'[b].set = [sock[b].set EXCEPT ![option] = v]
        /\ \A c \in Blocks \ {b} : sock'[c] = sock[c]
    BY <2>1 DEF IInv, SocketTypeOK, Sockets
  <2>4. /\ wanted'[t][b] = [wanted[t][b] EXCEPT ![option] = v]
        /\ \A c \in Blocks \ {b} : wanted'[t][c] = wanted[t][c]
        /\ \A u \in SocketTasks \ {t} : wanted'[u] = wanted[u]
    BY <2>1 DEF IInv, SocketTypeOK
  <2>5. ASSUME careful, NEW u \in SocketTasks, NEW c \in handles[u], c = b PROVE u = t
    BY <2>2, <2>5 DEF IInv, HandlesApart
  <2>6. ASSUME careful, NEW u \in SocketTasks, NEW c \in handles[u]
        PROVE sock[c].set = wanted[u][c] /\ c \in Blocks
    BY <2>6 DEF IInv, KeepsItsSettings, SocketTypeOK
  <2>7. ASSUME careful, NEW u \in SocketTasks, NEW c \in handles[u]
        PROVE sock'[c].set = wanted'[u][c]
    <3>1. CASE c = b
      BY <2>3, <2>4, <2>5, <2>6, <2>7, <3>1
    <3>2. CASE c # b
      BY <2>3, <2>4, <2>6, <2>7, <3>2
    <3>. QED
      BY <3>1, <3>2
  <2>. QED
    BY <2>2, <2>7 DEF KeepsItsSettings
<1>9. ASSUME NEW t \in SocketTasks, NEW b \in Blocks, RegisterCallback(t, b)
      PROVE KeepsItsSettings'
  BY <1>9 DEF IInv, SocketTypeOK, RegisterCallback, KeepsItsSettings
<1>10. ASSUME NEW t \in SocketTasks, NEW b \in Blocks, Connect(t, b) PROVE KeepsItsSettings'
  BY <1>10 DEF IInv, SocketTypeOK, Connect, KeepsItsSettings
<1>11. ASSUME NEW t \in SocketTasks, NEW b \in Blocks, RemoveSocketData(t, b)
       PROVE KeepsItsSettings'
  BY <1>11, Found DEF IInv, SocketTypeOK, RemoveSocketData, KeepsItsSettings
<1>12. ASSUME CloseSockets PROVE KeepsItsSettings'
  BY <1>12 DEF IInv, SocketTypeOK, CloseSockets, KeepsItsSettings
<1>13. CASE UNCHANGED socketVars
  BY <1>13 DEF IInv, socketVars, creating, KeepsItsSettings, HandlesApart, Owned, Placed, Creator
<1>. QED
  BY <1>1, <1>2, <1>3, <1>4, <1>5, <1>6, <1>7, <1>8, <1>9, <1>10, <1>11, <1>12, <1>13
     DEF SocketNext, SocketCall, AllClosed

\* Every step leaves a block that was taken from the heap in a slot or with a creator.
LEMMA HeapStep == ASSUME IInv, [SocketNext]_socketVars PROVE Kept'
<1>1. ASSUME NEW t \in SocketTasks, CreateSocket(t) PROVE Kept'
  <2>1. /\ pc[t] = "idle" /\ pc'[t] \in {"idle", "scanning"}
        /\ UNCHANGED <<static, careful, pSocketData, sock, heap, handles, wanted>>
    BY <1>1, CreateStep DEF IInv
  <2>2. \A u \in SocketTasks \ {t} : pc'[u] = pc[u] /\ at'[u] = at[u]
    BY <1>1, OthersStay DEF IInv
  <2>. QED
    BY <2>1, <2>2 DEF IInv, Kept
<1>2. ASSUME NEW t \in SocketTasks, TestSlot(t) PROVE Kept'
  <2>1. /\ pc[t] = "scanning" /\ pc'[t] \in {"scanning", "filling"}
        /\ UNCHANGED <<static, careful, pSocketData, sock, heap, handles>>
    BY <1>2 DEF IInv, TestSlot, SocketTypeOK
  <2>2. \A u \in SocketTasks \ {t} : pc'[u] = pc[u] /\ at'[u] = at[u]
    BY <1>2, OthersStay DEF IInv
  <2>. QED
    BY <2>1, <2>2 DEF IInv, Kept
<1>3. ASSUME NEW t \in SocketTasks, NoSlot(t) PROVE Kept'
  BY <1>3 DEF IInv, SocketTypeOK, NoSlot, Return, Kept
<1>4. ASSUME NEW t \in SocketTasks, FillBlock(t) PROVE Kept'
  BY <1>4 DEF IInv, SocketTypeOK, FillBlock, Kept
<1>5. ASSUME NEW t \in SocketTasks, NoMemory(t) PROVE Kept'
  BY <1>5 DEF IInv, SocketTypeOK, NoMemory, Return, Kept
<1>6. ASSUME NEW t \in SocketTasks, StoreBlock(t) PROVE Kept'
  <2>1. /\ pc[t] = "storing" /\ at[t].slot \in Slots
        /\ pSocketData' = [pSocketData EXCEPT ![at[t].slot] = at[t].block]
        /\ UNCHANGED <<careful, heap>>
    BY <1>6 DEF IInv, StoreBlock, SocketTypeOK
  <2>2. \A u \in SocketTasks \ {t} : pc'[u] = pc[u] /\ at'[u] = at[u]
    BY <1>6, OthersStay DEF IInv
  <2>3. ASSUME careful, NEW c \in heap, NEW s \in Slots, pSocketData[s] = c
        PROVE pSocketData'[s] = c
    <3>1. pSocketData[at[t].slot] = NoBlock /\ c # NoBlock
      BY <2>1, <2>3, SocketAssumption DEF IInv, Creator, SocketTypeOK, Blocks, NoBlock
    <3>. QED
      BY <2>1, <2>3, <3>1 DEF IInv, SocketTypeOK
  <2>4. pSocketData'[at[t].slot] = at[t].block
    BY <2>1 DEF IInv, SocketTypeOK
  <2>. QED
    BY <2>1, <2>2, <2>3, <2>4 DEF IInv, Kept
<1>7. ASSUME NEW t \in SocketTasks, RegisterContext(t) PROVE Kept'
  BY <1>7 DEF IInv, SocketTypeOK, RegisterContext, Return, Kept
<1>8. ASSUME NEW t \in SocketTasks, NEW b \in Blocks, SetSockOpt(t, b) PROVE Kept'
  BY <1>8 DEF IInv, SocketTypeOK, creating, SetSockOpt, Kept
<1>9. ASSUME NEW t \in SocketTasks, NEW b \in Blocks, RegisterCallback(t, b) PROVE Kept'
  BY <1>9 DEF IInv, SocketTypeOK, RegisterCallback, Kept
<1>10. ASSUME NEW t \in SocketTasks, NEW b \in Blocks, Connect(t, b) PROVE Kept'
  BY <1>10 DEF IInv, SocketTypeOK, creating, Connect, Kept
<1>11. ASSUME NEW t \in SocketTasks, NEW b \in Blocks, RemoveSocketData(t, b) PROVE Kept'
  <2>1. /\ pc[t] = "idle" /\ b \in handles[t]
        /\ \A s \in Slots : pSocketData'[s] = IF pSocketData[s] = b THEN NoBlock ELSE pSocketData[s]
        /\ heap' = IF \E s \in Slots : pSocketData[s] = b THEN heap \ {b} ELSE heap
        /\ \A u \in SocketTasks : handles'[u] = IF u = t THEN handles[u] \ {b} ELSE handles[u]
        /\ UNCHANGED <<static, careful, sock, pc, at, wasFull, created, wanted>>
    BY <1>11, RemoveStep DEF IInv
  <2>2. ASSUME careful PROVE \E s \in Slots : pSocketData[s] = b
    BY <2>1, <2>2 DEF IInv, Owned, HandlesApart
  <2>3. ASSUME careful, NEW c \in heap' PROVE c \in heap /\ c # b
    BY <2>1, <2>2, <2>3
  <2>. QED
    BY <2>1, <2>3 DEF IInv, Kept
<1>12. ASSUME CloseSockets PROVE Kept'
  <2>1. /\ \A u \in SocketTasks : pc[u] = "idle"
        /\ heap' = heap \ {pSocketData[s] : s \in Slots}
        /\ careful' = careful
    BY <1>12 DEF CloseSockets
  <2>2. \A c \in heap' : c \in heap /\ \A s \in Slots : pSocketData[s] # c
    BY <2>1
  <2>. QED
    BY <2>1, <2>2 DEF IInv, Kept
<1>13. CASE UNCHANGED socketVars
  BY <1>13 DEF IInv, socketVars, creating, Kept, Placed, HandlesApart, Owned, Creator
<1>. QED
  BY <1>1, <1>2, <1>3, <1>4, <1>5, <1>6, <1>7, <1>8, <1>9, <1>10, <1>11, <1>12, <1>13
     DEF SocketNext, SocketCall, AllClosed

\* Nothing is open, and nobody creates, at first.
LEMMA InitInv == SocketInit => IInv
<1>. SUFFICES ASSUME SocketInit PROVE IInv
  OBVIOUS
<1>1. Created(0) \in Settings
  BY RecordTypes
<1>2. Blank \in Sockets
  BY <1>1, SocketAssumption DEF Blank, Sockets
<1>3. SocketTypeOK
  BY <1>1, <1>2, RecordTypes DEF SocketInit, SocketTypeOK
<1>4. Placed /\ SlotKnowsItself /\ SetUp /\ Owned /\ HandlesApart /\ KeepsItsSettings /\ Kept
  BY DEF SocketInit, Placed, SlotKnowsItself, SetUp, Owned, HandlesApart, KeepsItsSettings, Kept
<1>5. Creator /\ Registering
  BY DEF SocketInit, Creator, Creates, Registering, Blank
<1>. QED
  BY <1>3, <1>4, <1>5 DEF IInv

\* The conjuncts together: every step keeps the invariant.
LEMMA StepInv == IInv /\ [SocketNext]_socketVars => IInv'
<1>. SUFFICES ASSUME IInv, [SocketNext]_socketVars PROVE IInv'
  OBVIOUS
<1>1. SocketTypeOK'
  BY TypeStep DEF IInv
<1>. QED
  BY <1>1, PlacedStep, SlotStep, OwnersStep, CreatorStep, RegisteringStep, SettingsStep, HeapStep
     DEF IInv

\* The inductive invariant holds always.
LEMMA Invariant == SocketSpec => []IInv
  BY InitInv, StepInv, PTL DEF SocketSpec

\* Type correctness, for every number of sockets, blocks and tasks.
THEOREM SocketTypes == SocketSpec => []SocketTypeOK
<1>1. IInv => SocketTypeOK
  BY DEF IInv
<1>. QED
  BY <1>1, Invariant, PTL

\* A slot that is taken holds a block set up with its index, with any number of
\* creators at a time.
THEOREM SlotsKnowThemselves == SocketSpec => []SlotKnowsItself
<1>1. IInv => SlotKnowsItself
  BY DEF IInv
<1>. QED
  BY <1>1, Invariant, PTL

\* With one creator at a time, every handle is one task's and in the slot of its index.
THEOREM HandlesStayApart == SocketSpec => []HandlesApart
<1>1. IInv => HandlesApart
  BY DEF IInv
<1>. QED
  BY <1>1, Invariant, PTL

\* With one creator at a time, a socket is set to what its owner has set.
THEOREM SettingsKept == SocketSpec => []KeepsItsSettings
<1>1. IInv => KeepsItsSettings
  BY DEF IInv
<1>. QED
  BY <1>1, Invariant, PTL

\* With one creator at a time, no block of the heap is lost.
THEOREM NoBlockIsLost == SocketSpec => []NoBlockLost
<1>1. IInv => NoBlockLost
  BY DEF IInv, Kept, NoBlockLost
<1>. QED
  BY <1>1, Invariant, PTL

\* With one creator at a time, only a full table refuses a creation.
THEOREM OnlyFullRefuses == SocketSpec => []RefusedWhenFull
<1>1. IInv => RefusedWhenFull
  <2>. SUFFICES ASSUME IInv, careful, NEW t \in SocketTasks, pc[t] = "scanning",
                       at[t].slot = NumSockets, ~wasFull[t]
                PROVE  FALSE
    BY DEF RefusedWhenFull
  <2>1. PICK s \in Slots : s >= at[t].slot
    BY DEF IInv, Creator
  <2>. QED
    BY <2>1, SocketAssumption DEF Slots
<1>. QED
  BY <1>1, Invariant, PTL

\* With one creator at a time, a connected socket's callback has its own context.
THEOREM CallbacksHaveContext == SocketSpec => []SocketCallbackContext
<1>1. IInv => SocketCallbackContext
  <2>. SUFFICES ASSUME IInv, careful, NEW s \in Slots, pSocketData[s] # NoBlock,
                       sock[pSocketData[s]].state = "connected"
                PROVE  sock[pSocketData[s]].cb = sock[pSocketData[s]].ctx
    BY DEF SocketCallbackContext
  <2>1. pSocketData[s] \in Blocks
    BY DEF IInv, SocketTypeOK
  <2>. QED
    BY <2>1 DEF IInv, Registering
<1>. QED
  BY <1>1, Invariant, PTL

-----------------------------------------------------------------------------
(* The callbacks of UrcDispatch, for every set of tasks.                       *)

\* A callback that is there has the context it was registered with, unless the holder
\* of the mutex is between the two assignments.
Paired ==
  /\ \A t \in Registrars : /\ regArg[t].f \in {t, NoRegistrar}
                           /\ regPc[t] = "settingContext" => cb[regArg[t].kind].f = regArg[t].f
  /\ \A k \in Kinds :
       /\ \A t \in Registrars : ~(regPc[t] = "settingContext" /\ regArg[t].kind = k)
       /\ cb[k].f # NoRegistrar
       => cb[k].ctx = cb[k].f

\* The reader has a line of a kind that nobody is registering: what it saw is there.
Steady ==
  /\ alone /\ reader \in {"check", "call"} =>
       \A t \in Registrars : regPc[t] # "idle" => regArg[t].kind # kind
  /\ alone /\ reader = "call" => checked # NoRegistrar /\ checked = cb[kind].f

RegArgs == [kind : Kinds, f : Registrars \cup {NoRegistrar}]

DispatchInv ==
  /\ DispatchTypeOK /\ alone \in BOOLEAN /\ regArg \in [Registrars -> RegArgs]
  /\ Paired /\ Steady /\ OwnContext

\* No callback is registered and no task is in a call at the start.
LEMMA DispatchInitInv == DispatchInit => DispatchInv
BY DispatchAssumption
   DEF DispatchInit, DispatchInv, DispatchTypeOK, Kinds, Nothing, RegArgs, Paired, Steady, OwnContext

\* Every step keeps the state in its type, and PktRespMutex with the task that took it.
LEMMA DispatchTypeStep ==
  ASSUME DispatchInv, [DispatchNext]_dispatchVars
  PROVE  (DispatchTypeOK /\ alone \in BOOLEAN /\ regArg \in [Registrars -> RegArgs])'
<1>. DEFINE Types == DispatchTypeOK /\ alone \in BOOLEAN /\ regArg \in [Registrars -> RegArgs]
<1>. USE DEF lineVars, cbVars
<1>0. Types
  BY DEF DispatchInv
<1>1. CASE OpenDispatch
  BY <1>0, <1>1 DEF OpenDispatch, DispatchTypeOK
<1>2. CASE UrcLine
  BY <1>0, <1>2 DEF UrcLine, TakeUrc, DispatchTypeOK, Kinds, Nothing
<1>3. CASE UndefinedMessage
  BY <1>0, <1>3 DEF UndefinedMessage, DispatchTypeOK, Kinds, Nothing
<1>4. CASE CheckCallback
  BY <1>0, <1>4 DEF CheckCallback, DispatchTypeOK
<1>5. CASE CallCallback
  BY <1>0, <1>5 DEF CallCallback, DispatchTypeOK
<1>6. ASSUME NEW t \in Registrars, StartRegistration(t) PROVE Types'
  <2>1. regArg' \in [Registrars -> RegArgs]
    BY <1>0, <1>6 DEF StartRegistration, RegArgs
  <2>. QED
    BY <1>0, <1>6, <2>1 DEF StartRegistration, DispatchTypeOK
<1>7. ASSUME NEW t \in Registrars, LockRespMutex(t) PROVE Types'
  BY <1>0, <1>7, DispatchAssumption DEF LockRespMutex, DispatchTypeOK
<1>8. ASSUME NEW t \in Registrars, SetCallback(t) PROVE Types'
  <2>1. regArg[t] \in RegArgs
    BY <1>0
  <2>2. cb' \in [Kinds -> [f : Registrars \cup {NoRegistrar}, ctx : Registrars \cup {NoRegistrar}]]
    BY <1>0, <1>8, <2>1 DEF SetCallback, DispatchTypeOK, RegArgs
  <2>. QED
    BY <1>0, <1>8, <2>2 DEF SetCallback, DispatchTypeOK
<1>9. ASSUME NEW t \in Registrars, SetContext(t) PROVE Types'
  <2>1. cb' \in [Kinds -> [f : Registrars \cup {NoRegistrar}, ctx : Registrars \cup {NoRegistrar}]]
    <3>1. PICK c \in Registrars \cup {NoRegistrar} :
            cb' = [cb EXCEPT ![regArg[t].kind].ctx = c]
      BY <1>9 DEF SetContext
    <3>2. regArg[t].kind \in Kinds
      BY <1>0 DEF RegArgs
    <3>. QED
      BY <1>0, <3>1, <3>2 DEF DispatchTypeOK
  <2>2. respMutex = t
    BY <1>0, <1>9 DEF SetContext, DispatchTypeOK
  <2>. QED
    BY <1>0, <1>9, <2>1, <2>2 DEF SetContext, DispatchTypeOK
<1>10. CASE UNCHANGED dispatchVars
  BY <1>0, <1>10 DEF dispatchVars, DispatchTypeOK
<1>. QED
  BY <1>1, <1>2, <1>3, <1>4, <1>5, <1>6, <1>7, <1>8, <1>9, <1>10 DEF DispatchNext, DispatchStill

\* A callback and its context are set together, as far as any other task can see.
LEMMA PairedStep == ASSUME DispatchInv, [DispatchNext]_dispatchVars PROVE Paired'
<1>. USE DEF lineVars, cbVars
<1>0. DispatchTypeOK /\ regArg \in [Registrars -> RegArgs] /\ Paired
  BY DEF DispatchInv
<1>1. CASE OpenDispatch \/ UrcLine \/ UndefinedMessage \/ CheckCallback \/ CallCallback
  <2>1. UNCHANGED <<cb, regPc, regArg>>
    BY <1>1 DEF OpenDispatch, UrcLine, UndefinedMessage, CheckCallback, CallCallback
  <2>. QED
    BY <1>0, <2>1 DEF Paired
<1>2. ASSUME NEW t \in Registrars, StartRegistration(t) PROVE Paired'
  <2>1. /\ regPc[t] = "idle" /\ regPc'[t] = "locking" /\ regArg'[t].f \in {t, NoRegistrar}
        /\ \A u \in Registrars \ {t} : regPc'[u] = regPc[u] /\ regArg'[u] = regArg[u]
        /\ cb' = cb
    BY <1>0, <1>2 DEF StartRegistration, DispatchTypeOK
  <2>. QED
    BY <1>0, <2>1 DEF Paired
<1>3. ASSUME NEW t \in Registrars, LockRespMutex(t) PROVE Paired'
  BY <1>0, <1>3 DEF LockRespMutex, Paired, DispatchTypeOK
<1>4. ASSUME NEW t \in Registrars, SetCallback(t) PROVE Paired'
  <2>1. /\ regPc'[t] = "settingContext" /\ regArg' = regArg /\ regArg[t].kind \in Kinds
        /\ \A u \in Registrars \ {t} : regPc'[u] = regPc[u]
        /\ cb'[regArg[t].kind].f = regArg[t].f
        /\ \A k \in Kinds : k # regArg[t].kind => cb'[k] = cb[k]
    BY <1>0, <1>4 DEF SetCallback, DispatchTypeOK, RegArgs
  <2>2. \A u \in Registrars \ {t} : regPc[u] # "settingContext"
    BY <1>0, <1>4 DEF SetCallback, DispatchTypeOK
  <2>. QED
    BY <1>0, <2>1, <2>2 DEF Paired
<1>5. ASSUME NEW t \in Registrars, SetContext(t) PROVE Paired'
  <2>1. /\ regPc[t] = "settingContext" /\ regPc'[t] = "idle" /\ regArg' = regArg
        /\ regArg[t].kind \in Kinds
        /\ \A u \in Registrars \ {t} : regPc'[u] = regPc[u]
        /\ \A k \in Kinds : cb'[k].f = cb[k].f
        /\ \A k \in Kinds : k # regArg[t].kind => cb'[k] = cb[k]
        /\ cb[regArg[t].kind].f # NoRegistrar => cb'[regArg[t].kind].ctx = t
    BY <1>0, <1>5 DEF SetContext, DispatchTypeOK, RegArgs
  <2>2. \A u \in Registrars \ {t} : regPc[u] # "settingContext"
    BY <1>0, <1>5 DEF SetContext, DispatchTypeOK
  <2>3. regArg[t].f \in {t, NoRegistrar} /\ cb[regArg[t].kind].f = regArg[t].f
    BY <1>0, <2>1 DEF Paired
  <2>. QED
    BY <1>0, <2>1, <2>2, <2>3 DEF Paired
<1>6. CASE UNCHANGED dispatchVars
  BY <1>0, <1>6 DEF dispatchVars, Paired
<1>. QED
  BY <1>1, <1>2, <1>3, <1>4, <1>5, <1>6 DEF DispatchNext, DispatchStill

\* While nobody registers the kind of callback that the reader is about to call, it
\* stays as the reader found it.
LEMMA SteadyStep == ASSUME DispatchInv, [DispatchNext]_dispatchVars PROVE (Steady /\ OwnContext)'
<1>. USE DEF lineVars, cbVars
<1>0. DispatchTypeOK /\ regArg \in [Registrars -> RegArgs] /\ Paired /\ Steady /\ OwnContext
  BY DEF DispatchInv
<1>1. CASE OpenDispatch
  BY <1>0, <1>1 DEF OpenDispatch, Steady, OwnContext
<1>2. CASE UrcLine
  BY <1>0, <1>2 DEF UrcLine, TakeUrc, Steady, OwnContext
<1>3. CASE UndefinedMessage
  BY <1>0, <1>3 DEF UndefinedMessage, Steady, OwnContext
<1>4. CASE CheckCallback
  BY <1>0, <1>4 DEF CheckCallback, Steady, OwnContext
<1>5. CASE CallCallback
  <2>1. kind \in Kinds
    BY <1>0 DEF DispatchTypeOK
  <2>2. ASSUME alone PROVE /\ checked # NoRegistrar /\ checked = cb[kind].f
                           /\ cb[kind].ctx = cb[kind].f
    BY <1>0, <1>5, <2>1, <2>2 DEF CallCallback, Steady, Paired
  <2>3. PICK f \in {checked, cb[kind].f} : called' = [f |-> f, ctx |-> cb[kind].ctx]
    BY <1>5 DEF CallCallback
  <2>. QED
    BY <1>5, <2>2, <2>3 DEF CallCallback, Steady, OwnContext
<1>6. ASSUME NEW t \in Registrars, StartRegistration(t) PROVE (Steady /\ OwnContext)'
  <2>1. /\ \A u \in Registrars \ {t} : regPc'[u] = regPc[u] /\ regArg'[u] = regArg[u]
        /\ alone' = (alone /\ (reader \in {"check", "call"} => regArg'[t].kind # kind))
        /\ UNCHANGED <<reader, kind, checked, called, cb>>
    BY <1>0, <1>6 DEF StartRegistration, DispatchTypeOK
  <2>. QED
    BY <1>0, <2>1 DEF Steady, OwnContext
<1>7. ASSUME NEW t \in Registrars, LockRespMutex(t) PROVE (Steady /\ OwnContext)'
  BY <1>0, <1>7 DEF LockRespMutex, Steady, OwnContext, DispatchTypeOK
<1>8. ASSUME NEW t \in Registrars, SetCallback(t) PROVE (Steady /\ OwnContext)'
  <2>1. /\ regPc[t] = "setting" /\ regPc'[t] = "settingContext" /\ regArg' = regArg
        /\ \A u \in Registrars \ {t} : regPc'[u] = regPc[u]
        /\ \A k \in Kinds : k # regArg[t].kind => cb'[k] = cb[k]
        /\ UNCHANGED <<reader, kind, checked, called, alone>>
    BY <1>0, <1>8 DEF SetCallback, DispatchTypeOK
  <2>2. kind \in Kinds
    BY <1>0 DEF DispatchTypeOK
  <2>. QED
    BY <1>0, <2>1, <2>2 DEF Steady, OwnContext
<1>9. ASSUME NEW t \in Registrars, SetContext(t) PROVE (Steady /\ OwnContext)'
  <2>1. /\ regPc'[t] = "idle" /\ regArg' = regArg
        /\ \A u \in Registrars \ {t} : regPc'[u] = regPc[u]
        /\ \A k \in Kinds : cb'[k].f = cb[k].f
        /\ UNCHANGED <<reader, kind, checked, called, alone>>
    BY <1>0, <1>9 DEF SetContext, DispatchTypeOK
  <2>2. kind \in Kinds
    BY <1>0 DEF DispatchTypeOK
  <2>. QED
    BY <1>0, <2>1, <2>2 DEF Steady, OwnContext
<1>10. CASE UNCHANGED dispatchVars
  BY <1>0, <1>10 DEF dispatchVars, Steady, OwnContext
<1>. QED
  BY <1>1, <1>2, <1>3, <1>4, <1>5, <1>6, <1>7, <1>8, <1>9, <1>10 DEF DispatchNext, DispatchStill

\* The parts of the invariant, kept by every step, hold of every behaviour.
LEMMA DispatchInvariant == DispatchSpec => []DispatchInv
<1>1. DispatchInv /\ [DispatchNext]_dispatchVars => DispatchInv'
  BY DispatchTypeStep, PairedStep, SteadyStep DEF DispatchInv
<1>. QED
  BY <1>1, DispatchInitInv, PTL DEF DispatchSpec

\* Type correctness, and PktRespMutex held by whoever sets a callback.
THEOREM DispatchTypes == DispatchSpec => []DispatchTypeOK
<1>1. DispatchInv => DispatchTypeOK
  BY DEF DispatchInv
<1>. QED
  BY <1>1, DispatchInvariant, PTL

\* A callback that nobody is registering is called with its own context, however many
\* tasks register others.
THEOREM CallbacksOwnContext == DispatchSpec => []OwnContext
<1>1. DispatchInv => OwnContext
  BY DEF DispatchInv
<1>. QED
  BY <1>1, DispatchInvariant, PTL

-----------------------------------------------------------------------------
(* The lines of UrcDispatch, for every alphabet, table and line: the order of  *)
(* the names, the binary search, and what strtok_r cuts out of a line.         *)

\* What the least member of a set of naturals is.
LEMMA LeastIs ==
  ASSUME NEW T \in SUBSET Nat, T # {}
  PROVE  Min(T) \in T /\ \A n \in T : Min(T) <= n
<1>1. PICK m \in T : \A n \in T : ~(n < m)
  BY NatLeast
<1>2. \A n \in T : m <= n
  BY <1>1
<1>. QED BY <1>2 DEF Min

\* Characters with the same code are the same.
LEMMA CodesDiffer ==
  \A c, d \in ToSet(Letters) : Code(c) \in Int /\ (Code(c) = Code(d) => c = d)
<1>1. ASSUME NEW c \in ToSet(Letters) PROVE Code(c) \in Int /\ Letters[Code(c)] = c
  <2>1. PICK i \in DOMAIN Letters : Letters[i] = c
    BY DEF ToSet
  <2>2. Code(c) \in DOMAIN Letters /\ Letters[Code(c)] = c
    BY <2>1 DEF Code
  <2>. QED BY <2>2, DispatchAssumption
<1>. QED BY <1>1

\* Where a name comes before another in the order of the dictionary.
Differ(a, b, k) ==
  /\ k \in 1 .. Len(b)
  /\ \A j \in 1 .. k - 1 : j <= Len(a) /\ a[j] = b[j]
  /\ k <= Len(a) => Code(a[k]) < Code(b[k])
Before(a, b) == \E k \in 1 .. Len(b) : Differ(a, b, k)

\* No name comes before itself.
LEMMA NotBeforeItself == ASSUME NEW a \in Texts, Before(a, a) PROVE FALSE
<1>1. PICK k \in 1 .. Len(a) : Differ(a, a, k)
  BY DEF Before
<1>2. a[k] \in ToSet(Letters)
  BY DEF Texts
<1>. QED BY <1>1, <1>2, CodesDiffer DEF Differ, Texts

\* The order of the names goes on from one to the next.
LEMMA BeforeGoesOn ==
  ASSUME NEW a \in Texts, NEW b \in Texts, NEW c \in Texts, Before(a, b), Before(b, c)
  PROVE  Before(a, c)
<1>1. PICK k \in 1 .. Len(b) : Differ(a, b, k)
  BY DEF Before
<1>2. PICK l \in 1 .. Len(c) : Differ(b, c, l)
  BY DEF Before
<1>3. /\ \A i \in 1 .. Len(a) : Code(a[i]) \in Int
      /\ \A i \in 1 .. Len(b) : Code(b[i]) \in Int
      /\ \A i \in 1 .. Len(c) : Code(c[i]) \in Int
  BY CodesDiffer DEF Texts
<1>4. Len(a) \in Nat /\ Len(b) \in Nat /\ Len(c) \in Nat
  BY DEF Texts
<1>5. CASE k < l
  <2>1. k \in 1 .. Len(c) /\ k \in 1 .. l - 1
    BY <1>4, <1>5
  <2>2. b[k] = c[k]
    BY <1>2, <2>1 DEF Differ
  <2>3. \A j \in 1 .. k - 1 : j \in 1 .. l - 1 /\ j <= Len(a) /\ a[j] = b[j]
    BY <1>1, <1>5 DEF Differ
  <2>4. \A j \in 1 .. k - 1 : j <= Len(a) /\ a[j] = c[j]
    BY <1>2, <2>3 DEF Differ
  <2>5. k <= Len(a) => Code(a[k]) < Code(c[k])
    BY <1>1, <2>2 DEF Differ
  <2>. QED BY <2>1, <2>4, <2>5 DEF Differ, Before
<1>6. CASE l < k
  <2>1. l \in 1 .. k - 1 /\ l \in 1 .. Len(b)
    BY <1>4, <1>6
  <2>2. l <= Len(a) /\ a[l] = b[l]
    BY <1>1, <2>1 DEF Differ
  <2>3. Code(b[l]) < Code(c[l])
    BY <1>2, <2>1 DEF Differ
  <2>4. \A j \in 1 .. l - 1 : j \in 1 .. k - 1 /\ b[j] = c[j]
    BY <1>2, <1>6 DEF Differ
  <2>5. \A j \in 1 .. l - 1 : j <= Len(a) /\ a[j] = c[j]
    BY <1>1, <2>4 DEF Differ
  <2>. QED BY <2>2, <2>3, <2>5 DEF Differ, Before
<1>7. CASE k = l
  <2>1. Code(b[k]) < Code(c[k])
    BY <1>2, <1>7 DEF Differ
  <2>2. k <= Len(a) => Code(a[k]) < Code(b[k])
    BY <1>1 DEF Differ
  <2>3. k <= Len(a) => Code(a[k]) < Code(c[k])
    BY <1>3, <1>4, <1>7, <2>1, <2>2
  <2>4. \A j \in 1 .. k - 1 : j <= Len(a) /\ a[j] = c[j]
    BY <1>1, <1>2, <1>7 DEF Differ
  <2>. QED BY <1>7, <2>3, <2>4 DEF Differ, Before
<1>. QED BY <1>5, <1>6, <1>7

\* What the comparison of two names says, by their first difference or their lengths.
LEMMA Compared ==
  ASSUME NEW a \in Texts, NEW b \in Texts
  PROVE  /\ SearchCompare(a, b) \in {-1, 0, 1}
         /\ SearchCompare(a, b) = 0 => a = b
         /\ SearchCompare(a, b) < 0 => Before(a, b)
         /\ SearchCompare(a, b) > 0 => Before(b, a)
<1>. DEFINE common == Min({Len(a), Len(b)})
            differ == {i \in 1 .. common : a[i] # b[i]}
<1>1. /\ Len(a) \in Nat /\ Len(b) \in Nat
      /\ common \in {Len(a), Len(b)} /\ common <= Len(a) /\ common <= Len(b)
  <2>1. Len(a) \in Nat /\ Len(b) \in Nat
    BY DEF Texts
  <2>2. {Len(a), Len(b)} \in SUBSET Nat /\ {Len(a), Len(b)} # {}
    BY <2>1
  <2>. QED BY <2>1, <2>2, LeastIs
<1>2. CASE differ # {}
  <2>. DEFINE k == Min(differ)
  <2>1. k \in differ /\ \A n \in differ : k <= n
    <3>1. differ \in SUBSET Nat
      BY <1>1
    <3>. HIDE DEF differ
    <3>. QED BY <1>2, <3>1, LeastIs
  <2>2. /\ k \in 1 .. Len(a) /\ k \in 1 .. Len(b) /\ a[k] # b[k]
        /\ \A j \in 1 .. k - 1 : j <= Len(a) /\ j <= Len(b) /\ a[j] = b[j]
    <3>1. k \in 1 .. common /\ a[k] # b[k]
      BY <2>1
    <3>2. ASSUME NEW j \in 1 .. k - 1 PROVE j \in 1 .. common /\ a[j] = b[j]
      <4>1. j \in 1 .. common /\ ~(k <= j)
        BY <1>1, <3>1
      <4>. QED BY <2>1, <4>1
    <3>. HIDE DEF k, common
    <3>. QED BY <1>1, <3>1, <3>2
  <2>3. Code(a[k]) \in Int /\ Code(b[k]) \in Int /\ Code(a[k]) # Code(b[k])
    <3>1. a[k] \in ToSet(Letters) /\ b[k] \in ToSet(Letters)
      BY <2>2 DEF Texts
    <3>. QED BY <2>2, <3>1, CodesDiffer
  <2>4. SearchCompare(a, b) = IF Code(a[k]) < Code(b[k]) THEN -1 ELSE 1
    <3>1. CompareCommon(a, b) = IF Code(a[k]) < Code(b[k]) THEN -1 ELSE 1
      BY <1>2 DEF CompareCommon
    <3>2. CompareCommon(a, b) # 0
      BY <3>1
    <3>. QED BY <3>1, <3>2 DEF SearchCompare
  <2>. HIDE DEF k, common, differ
  <2>5. Code(a[k]) < Code(b[k]) => Differ(a, b, k)
    BY <2>2 DEF Differ
  <2>6. ~(Code(a[k]) < Code(b[k])) => Differ(b, a, k)
    BY <2>2, <2>3 DEF Differ
  <2>. QED BY <2>2, <2>4, <2>5, <2>6 DEF Before
<1>3. CASE differ = {}
  <2>1. CompareCommon(a, b) = 0
    BY <1>3 DEF CompareCommon
  <2>2. \A i \in 1 .. common : a[i] = b[i]
    BY <1>3
  <2>. HIDE DEF common, differ
  <2>3. CASE Len(a) = Len(b)
    <3>1. a = b
      BY <1>1, <2>2, <2>3 DEF Texts
    <3>. QED BY <2>1, <2>3, <3>1 DEF SearchCompare
  <2>4. CASE Len(a) > Len(b)
    <3>1. Differ(b, a, Len(b) + 1)
      BY <1>1, <2>2, <2>4 DEF Differ
    <3>2. Len(b) + 1 \in 1 .. Len(a)
      BY <1>1, <2>4
    <3>3. SearchCompare(a, b) = 1
      BY <1>1, <2>1, <2>4 DEF SearchCompare
    <3>. QED BY <3>1, <3>2, <3>3 DEF Before
  <2>5. CASE Len(a) < Len(b)
    <3>1. Differ(a, b, Len(a) + 1)
      BY <1>1, <2>2, <2>5 DEF Differ
    <3>2. Len(a) + 1 \in 1 .. Len(b)
      BY <1>1, <2>5
    <3>3. SearchCompare(a, b) = -1
      BY <1>1, <2>1, <2>5 DEF SearchCompare
    <3>. QED BY <3>1, <3>2, <3>3 DEF Before
  <2>. QED BY <1>1, <2>3, <2>4, <2>5
<1>. QED BY <1>2, <1>3

UrcTables == Seq([name : Texts, handled : BOOLEAN])

\* A table that _Cellular_AtParseInit accepts is in order from any entry to any later one.
LEMMA TableOrdered ==
  ASSUME NEW t \in UrcTables, AtParseInit(t)
  PROVE  \A j \in 1 .. Len(t) : \A i \in 1 .. j - 1 : Before(t[i].name, t[j].name)
<1>. DEFINE G == {n \in 0 .. Len(t) : n > 0 => \A i \in 1 .. n - 1 : Before(t[i].name, t[n].name)}
<1>1. ASSUME NEW i \in 1 .. Len(t) PROVE t[i].name \in Texts
  <2>1. t[i] \in [name : Texts, handled : BOOLEAN]
    BY ElementOfSeq DEF UrcTables
  <2>. QED BY <2>1
<1>2. Len(t) \in Nat
  BY DEF UrcTables
<1>3. 0 \in G
  BY <1>2
<1>4. ASSUME NEW n \in 1 .. Len(t), n - 1 \in G PROVE n \in G
  <2>1. ASSUME NEW i \in 1 .. n - 1 PROVE Before(t[i].name, t[n].name)
    <3>1. /\ n - 1 \in 1 .. Len(t) - 1 /\ n - 1 + 1 = n /\ n - 1 > 0
          /\ n - 1 \in 1 .. Len(t) /\ i \in 1 .. Len(t)
      BY <1>2
    <3>2. SearchCompare(t[n - 1].name, t[n].name) < 0
      BY <3>1 DEF AtParseInit
    <3>3. Before(t[n - 1].name, t[n].name)
      BY <1>1, <3>1, <3>2, Compared
    <3>4. CASE i = n - 1
      BY <3>3, <3>4
    <3>5. CASE i # n - 1
      <4>1. i \in 1 .. (n - 1) - 1
        BY <1>2, <3>5
      <4>2. Before(t[i].name, t[n - 1].name)
        BY <1>4, <3>1, <4>1
      <4>. QED BY <1>1, <3>1, <3>3, <4>2, BeforeGoesOn
    <3>. QED BY <3>4, <3>5
  <2>. QED BY <1>2, <2>1
<1>5. \A n \in 0 .. Len(t) : n \in G
  <2>. HIDE DEF G
  <2>. QED BY <1>2, <1>3, <1>4, UpTo
<1>. QED BY <1>2, <1>5

(* The binary search.                                                      *)

\* One step of the search between lo and hi, with g for the rest of it.
Halve(t, tok, g, lo, hi) ==
  LET mid == (lo + hi) \div 2
      order == SearchCompare(tok, t[mid].name)
  IN  IF order = 0 THEN mid ELSE g[IF order < 0 THEN <<lo, mid>> ELSE <<mid + 1, hi>>]
Places(t) == 1 .. Len(t) + 1
Searches(t, tok, g) ==
  g = [p \in Places(t) \X Places(t) |->
         IF p[1] >= p[2] THEN 0 ELSE Halve(t, tok, g, p[1], p[2])]

\* The middle of an interval, and both halves of it.
LEMMA Middle ==
  ASSUME NEW n \in Nat, NEW lo \in 1 .. n + 1, NEW hi \in 1 .. n + 1, lo < hi
  PROVE  LET mid == (lo + hi) \div 2 IN
         /\ mid \in 1 .. n /\ mid + 1 \in 1 .. n + 1 /\ mid \in 1 .. n + 1
         /\ lo <= mid /\ mid < hi
  OBVIOUS

\* What bsearch looks for is found, and nothing else; in a table in order it is missed
\* only if no entry has it.
LEMMA SearchFinds ==
  ASSUME NEW t \in UrcTables, NEW tok \in Texts, NEW g, Searches(t, tok, g)
  PROVE  \A lo, hi \in Places(t) :
           /\ g[<<lo, hi>>] # 0 => g[<<lo, hi>>] \in 1 .. Len(t) /\ t[g[<<lo, hi>>]].name = tok
           /\ AtParseInit(t) /\ g[<<lo, hi>>] = 0 =>
                \A i \in 1 .. Len(t) : lo <= i /\ i < hi => t[i].name # tok
<1>. DEFINE Right(lo, hi) ==
              /\ g[<<lo, hi>>] # 0 => g[<<lo, hi>>] \in 1 .. Len(t) /\ t[g[<<lo, hi>>]].name = tok
              /\ AtParseInit(t) /\ g[<<lo, hi>>] = 0 =>
                   \A i \in 1 .. Len(t) : lo <= i /\ i < hi => t[i].name # tok
            G == {n \in 0 .. Len(t) : \A lo, hi \in Places(t) : hi - lo <= n => Right(lo, hi)}
<1>1. Len(t) \in Nat
  BY DEF UrcTables
<1>2. ASSUME NEW i \in 1 .. Len(t) PROVE t[i].name \in Texts
  <2>1. t[i] \in [name : Texts, handled : BOOLEAN]
    BY ElementOfSeq DEF UrcTables
  <2>. QED BY <2>1
<1>3. \A lo, hi \in Places(t) :
        g[<<lo, hi>>] = IF lo >= hi THEN 0 ELSE Halve(t, tok, g, lo, hi)
  BY DEF Searches
<1>4. ASSUME NEW lo \in Places(t), NEW hi \in Places(t), lo >= hi PROVE Right(lo, hi)
  <2>1. g[<<lo, hi>>] = 0
    BY <1>3, <1>4
  <2>2. \A i \in 1 .. Len(t) : ~(lo <= i /\ i < hi)
    BY <1>1, <1>4 DEF Places
  <2>. QED BY <2>1, <2>2
<1>5. 0 \in G
  <2>1. \A lo, hi \in Places(t) : hi - lo <= 0 => lo >= hi
    BY <1>1 DEF Places
  <2>. HIDE DEF Right
  <2>. QED BY <1>1, <1>4, <2>1
<1>6. ASSUME NEW n \in 1 .. Len(t), n - 1 \in G PROVE n \in G
  <2>. SUFFICES ASSUME NEW lo \in Places(t), NEW hi \in Places(t), hi - lo <= n, lo < hi
                PROVE  Right(lo, hi)
    <3>1. \A lo, hi \in Places(t) : ~(lo < hi) => lo >= hi
      BY <1>1 DEF Places
    <3>. HIDE DEF Right
    <3>. QED BY <1>1, <1>4, <3>1
  <2>. DEFINE mid == (lo + hi) \div 2
  <2>1. /\ mid \in 1 .. Len(t) /\ mid \in Places(t) /\ mid + 1 \in Places(t)
        /\ lo <= mid /\ mid < hi
    BY <1>1, Middle DEF Places
  <2>2. mid - lo <= n - 1 /\ hi - (mid + 1) <= n - 1
    <3>. HIDE DEF mid
    <3>. QED BY <1>1, <2>1 DEF Places
  <2>3. Right(lo, mid) /\ Right(mid + 1, hi)
    <3>. HIDE DEF mid, Right
    <3>. QED BY <1>6, <2>1, <2>2
  <2>4. ~(lo >= hi)
    BY <1>1 DEF Places
  <2>5. g[<<lo, hi>>] = Halve(t, tok, g, lo, hi)
    BY <1>3, <2>4
  <2>6. t[mid].name \in Texts
    BY <1>2, <2>1
  <2>7. CASE SearchCompare(tok, t[mid].name) = 0
    <3>1. g[<<lo, hi>>] = mid
      BY <2>5, <2>7 DEF Halve
    <3>2. tok = t[mid].name
      BY <2>6, <2>7, Compared
    <3>3. mid # 0
      <4>. HIDE DEF mid
      <4>. QED BY <2>1
    <3>. HIDE DEF mid
    <3>. QED BY <2>1, <3>1, <3>2, <3>3
  <2>8. CASE SearchCompare(tok, t[mid].name) < 0
    <3>1. g[<<lo, hi>>] = g[<<lo, mid>>]
      BY <2>5, <2>8 DEF Halve
    <3>2. Before(tok, t[mid].name)
      BY <2>6, <2>8, Compared
    <3>. HIDE DEF mid
    <3>3. ASSUME AtParseInit(t), NEW i \in 1 .. Len(t), mid <= i PROVE t[i].name # tok
      <4>1. t[i].name \in Texts
        BY <1>2
      <4>2. CASE i = mid
        BY <2>6, <3>2, <4>2, NotBeforeItself
      <4>3. CASE i # mid
        <5>1. mid \in 1 .. i - 1
          BY <2>1, <3>3, <4>3
        <5>2. Before(t[mid].name, t[i].name)
          BY <3>3, <5>1, TableOrdered
        <5>3. Before(tok, t[i].name)
          BY <2>6, <3>2, <4>1, <5>2, BeforeGoesOn
        <5>. QED BY <4>1, <5>3, NotBeforeItself
      <4>. QED BY <4>2, <4>3
    <3>4. ASSUME AtParseInit(t), g[<<lo, hi>>] = 0, NEW i \in 1 .. Len(t), lo <= i, i < hi
          PROVE  t[i].name # tok
      <4>1. CASE mid <= i
        BY <3>3, <3>4, <4>1
      <4>2. CASE ~(mid <= i)
        <5>1. i < mid
          BY <2>1, <4>2
        <5>. QED BY <2>3, <3>1, <3>4, <5>1
      <4>. QED BY <4>1, <4>2
    <3>. QED BY <2>3, <3>1, <3>4
  <2>9. CASE ~(SearchCompare(tok, t[mid].name) = 0) /\ ~(SearchCompare(tok, t[mid].name) < 0)
    <3>1. g[<<lo, hi>>] = g[<<mid + 1, hi>>]
      BY <2>5, <2>9 DEF Halve
    <3>2. Before(t[mid].name, tok)
      <4>1. SearchCompare(tok, t[mid].name) > 0
        BY <2>6, <2>9, Compared
      <4>. QED BY <2>6, <4>1, Compared
    <3>. HIDE DEF mid
    <3>3. ASSUME AtParseInit(t), NEW i \in 1 .. Len(t), i <= mid PROVE t[i].name # tok
      <4>1. t[i].name \in Texts
        BY <1>2
      <4>2. CASE i = mid
        BY <2>6, <3>2, <4>2, NotBeforeItself
      <4>3. CASE i # mid
        <5>1. i \in 1 .. mid - 1
          BY <2>1, <3>3, <4>3
        <5>2. Before(t[i].name, t[mid].name)
          BY <2>1, <3>3, <5>1, TableOrdered
        <5>3. Before(t[i].name, tok)
          BY <2>6, <3>2, <4>1, <5>2, BeforeGoesOn
        <5>. QED BY <4>1, <5>3, NotBeforeItself
      <4>. QED BY <4>2, <4>3
    <3>4. ASSUME AtParseInit(t), g[<<lo, hi>>] = 0, NEW i \in 1 .. Len(t), lo <= i, i < hi
          PROVE  t[i].name # tok
      <4>1. CASE i <= mid
        BY <3>3, <3>4, <4>1
      <4>2. CASE ~(i <= mid)
        <5>1. mid + 1 <= i
          BY <2>1, <4>2
        <5>. QED BY <2>3, <3>1, <3>4, <5>1
      <4>. QED BY <4>1, <4>2
    <3>. QED BY <2>3, <3>1, <3>4
  <2>. QED BY <2>7, <2>8, <2>9
<1>7. \A n \in 0 .. Len(t) : n \in G
  <2>. HIDE DEF G
  <2>. QED BY <1>1, <1>5, <1>6, UpTo
<1>8. \A lo, hi \in Places(t) : hi - lo <= Len(t)
  BY <1>1 DEF Places
<1>9. Len(t) \in 0 .. Len(t)
  BY <1>1
<1>. QED
  <2>. HIDE DEF Right
  <2>1. \A lo, hi \in Places(t) : Right(lo, hi)
    BY <1>7, <1>8, <1>9
  <2>. QED BY <2>1 DEF Right

\* The search is defined for every table: its steps come to an end.
LEMMA SearchExists ==
  ASSUME NEW t \in UrcTables, NEW tok \in Texts
  PROVE  \E g : Searches(t, tok, g)
<1>. DEFINE N == Len(t)
            D == Places(t) \X Places(t)
            A == [D -> 0 .. N]
            Body(g) == [p \in D |-> IF p[1] >= p[2] THEN 0 ELSE Halve(t, tok, g, p[1], p[2])]
            F == [n \in 1 .. N + 2 |-> [g \in A |-> Body(g)]]
            zero == [p \in D |-> 0]
<1>1. N \in Nat
  BY DEF UrcTables
<1>2. zero \in A
  BY <1>1
<1>3. \A lo, hi \in Places(t) : lo < hi =>
        LET mid == (lo + hi) \div 2 IN
        /\ mid \in 1 .. N /\ <<lo, mid>> \in D /\ <<mid + 1, hi>> \in D
        /\ mid - lo < hi - lo /\ hi - (mid + 1) < hi - lo
  <2>. SUFFICES ASSUME NEW lo \in Places(t), NEW hi \in Places(t), lo < hi
                PROVE  LET mid == (lo + hi) \div 2 IN
                       /\ mid \in 1 .. N /\ <<lo, mid>> \in D /\ <<mid + 1, hi>> \in D
                       /\ mid - lo < hi - lo /\ hi - (mid + 1) < hi - lo
    OBVIOUS
  <2>. DEFINE mid == (lo + hi) \div 2
  <2>1. /\ mid \in 1 .. N /\ mid \in Places(t) /\ mid + 1 \in Places(t)
        /\ lo <= mid /\ mid < hi
    BY <1>1, Middle DEF Places
  <2>2. mid - lo < hi - lo /\ hi - (mid + 1) < hi - lo
    <3>. HIDE DEF mid
    <3>. QED BY <1>1, <2>1 DEF Places
  <2>. QED BY <2>1, <2>2
<1>4. ASSUME NEW p \in D PROVE p[1] \in Places(t) /\ p[2] \in Places(t) /\ p = <<p[1], p[2]>>
  OBVIOUS
<1>5. ASSUME NEW g \in A PROVE Body(g) \in A
  <2>1. ASSUME NEW p \in D, p[1] < p[2] PROVE Halve(t, tok, g, p[1], p[2]) \in 0 .. N
    <3>1. p[1] \in Places(t) /\ p[2] \in Places(t)
      BY <1>4
    <3>2. LET mid == (p[1] + p[2]) \div 2 IN
          mid \in 0 .. N /\ <<p[1], mid>> \in D /\ <<mid + 1, p[2]>> \in D
      BY <1>1, <1>3, <2>1, <3>1
    <3>. HIDE DEF D
    <3>. QED BY <3>2 DEF Halve
  <2>2. \A p \in D : ~(p[1] >= p[2]) => p[1] < p[2]
    BY <1>1, <1>4 DEF Places
  <2>3. 0 \in 0 .. N
    BY <1>1
  <2>. HIDE DEF D
  <2>. QED BY <2>1, <2>2, <2>3
<1>6. F \in [1 .. N + 2 -> [A -> A]]
  BY <1>5
<1>7. PICK h \in [0 .. N + 2 -> A] : Follows(h, N + 2, zero, F)
  <2>1. N + 2 \in Nat
    BY <1>1
  <2>. HIDE DEF A, F, N, zero
  <2>. QED BY <1>2, <1>6, <2>1, Recursion
<1>8. h[0] = zero /\ \A n \in 1 .. N + 2 : h[n] = Body(h[n - 1])
  <2>1. ASSUME NEW n \in 1 .. N + 2 PROVE h[n] = Body(h[n - 1])
    <3>1. n - 1 \in 0 .. N + 2 /\ h[n] = F[n][h[n - 1]]
      <4>1. n - 1 \in 0 .. N + 2
        BY <1>1
      <4>. HIDE DEF F, zero, N, A
      <4>. QED BY <1>7, <4>1 DEF Follows
    <3>2. h[n - 1] \in A
      BY <1>7, <3>1
    <3>. HIDE DEF A
    <3>. QED BY <3>1, <3>2
  <2>. QED BY <1>7, <2>1 DEF Follows
<1>. DEFINE G == {n \in 0 .. N + 1 : \A p \in D : p[2] - p[1] < n => h[n + 1][p] = h[n][p]}
<1>9. ASSUME NEW n \in 1 .. N + 2, NEW p \in D
      PROVE  h[n][p] = IF p[1] >= p[2] THEN 0 ELSE Halve(t, tok, h[n - 1], p[1], p[2])
  <2>1. h[n] = Body(h[n - 1])
    <3>. HIDE DEF Body
    <3>. QED BY <1>8
  <2>. HIDE DEF D
  <2>. QED BY <2>1
<1>10. 0 \in G
  <2>1. ASSUME NEW p \in D, p[2] - p[1] < 0 PROVE h[1][p] = h[0][p]
    <3>1. p[1] >= p[2] /\ 1 \in 1 .. N + 2
      BY <1>1, <1>4, <2>1 DEF Places
    <3>2. h[1][p] = 0
      BY <1>9, <3>1
    <3>. QED BY <1>8, <3>2
  <2>. HIDE DEF D
  <2>. QED BY <1>1, <2>1
<1>11. ASSUME NEW n \in 1 .. N + 1, n - 1 \in G PROVE n \in G
  <2>1. ASSUME NEW p \in D, p[2] - p[1] < n PROVE h[n + 1][p] = h[n][p]
    <3>1. n \in 1 .. N + 2 /\ n + 1 \in 1 .. N + 2 /\ n + 1 - 1 = n /\ n - 1 + 1 = n
      BY <1>1
    <3>2. h[n + 1][p] = IF p[1] >= p[2] THEN 0 ELSE Halve(t, tok, h[n], p[1], p[2])
      BY <1>9, <3>1
    <3>3. h[n][p] = IF p[1] >= p[2] THEN 0 ELSE Halve(t, tok, h[n - 1], p[1], p[2])
      BY <1>9, <3>1
    <3>4. CASE p[1] >= p[2]
      BY <3>2, <3>3, <3>4
    <3>5. CASE ~(p[1] >= p[2])
      <4>. DEFINE mid == (p[1] + p[2]) \div 2
      <4>1. p[1] \in Places(t) /\ p[2] \in Places(t) /\ p[1] < p[2]
        BY <1>1, <1>4, <3>5 DEF Places
      <4>2. /\ mid \in 1 .. N /\ <<p[1], mid>> \in D /\ <<mid + 1, p[2]>> \in D
            /\ mid - p[1] < p[2] - p[1] /\ p[2] - (mid + 1) < p[2] - p[1]
        BY <1>3, <4>1
      <4>3. mid - p[1] < n - 1 /\ p[2] - (mid + 1) < n - 1
        <5>. HIDE DEF mid
        <5>. QED BY <1>1, <2>1, <4>1, <4>2 DEF Places
      <4>4. \A q \in D : q[2] - q[1] < n - 1 => h[n][q] = h[n - 1][q]
        BY <1>11, <3>1
      <4>5. h[n][<<p[1], mid>>] = h[n - 1][<<p[1], mid>>]
        <5>. HIDE DEF mid, D
        <5>. QED BY <4>2, <4>3, <4>4
      <4>6. h[n][<<mid + 1, p[2]>>] = h[n - 1][<<mid + 1, p[2]>>]
        <5>. HIDE DEF mid, D
        <5>. QED BY <4>2, <4>3, <4>4
      <4>7. Halve(t, tok, h[n], p[1], p[2]) = Halve(t, tok, h[n - 1], p[1], p[2])
        BY <4>5, <4>6 DEF Halve
      <4>. QED BY <3>2, <3>3, <4>7
    <3>. QED BY <3>4, <3>5
  <2>. HIDE DEF D
  <2>. QED BY <1>1, <2>1
<1>12. \A n \in 0 .. N + 1 : n \in G
  <2>1. N + 1 \in Nat
    BY <1>1
  <2>. HIDE DEF G, N
  <2>. QED BY <1>10, <1>11, <2>1, UpTo
<1>13. \A p \in D : h[N + 2][p] = h[N + 1][p]
  <2>1. N + 1 \in G /\ N + 1 + 1 = N + 2
    BY <1>1, <1>12
  <2>2. \A p \in D : p[2] - p[1] < N + 1
    BY <1>1, <1>4 DEF Places
  <2>. HIDE DEF D, N
  <2>. QED BY <2>1, <2>2
<1>14. h[N + 1] = Body(h[N + 1])
  <2>1. PICK m \in 1 .. N + 2 : m = N + 2 /\ m - 1 = N + 1
    BY <1>1
  <2>2. h[N + 1] \in A
    <3>1. N + 1 \in 0 .. N + 2
      BY <1>1
    <3>. HIDE DEF A, N
    <3>. QED BY <3>1
  <2>3. ASSUME NEW p \in D
        PROVE  h[N + 1][p] = IF p[1] >= p[2] THEN 0 ELSE Halve(t, tok, h[N + 1], p[1], p[2])
    <3>1. h[m][p] = IF p[1] >= p[2] THEN 0 ELSE Halve(t, tok, h[m - 1], p[1], p[2])
      BY <1>9
    <3>2. h[m][p] = h[N + 1][p]
      <4>. HIDE DEF D, N
      <4>. QED BY <1>13, <2>1
    <3>. QED BY <2>1, <3>1, <3>2
  <2>. HIDE DEF D, N
  <2>. QED BY <2>2, <2>3
<1>. QED BY <1>14 DEF Searches

\* bsearch finds the entry that a look at every entry of an ordered table finds.
LEMMA BsearchFinds ==
  ASSUME NEW t \in UrcTables, NEW tok \in Texts
  PROVE  LET i == Bsearch(t, tok) IN
         /\ i # 0 => i \in 1 .. Len(t) /\ t[i].name = tok
         /\ AtParseInit(t) /\ i = 0 => \A j \in 1 .. Len(t) : t[j].name # tok
<1>. DEFINE g == CHOOSE f : Searches(t, tok, f)
<1>1. Searches(t, tok, g)
  BY SearchExists
<1>2. Bsearch(t, tok) = g[<<1, Len(t) + 1>>]
  BY DEF Bsearch, Searches, Halve, Places
<1>3. Len(t) \in Nat
  BY DEF UrcTables
<1>4. 1 \in Places(t) /\ Len(t) + 1 \in Places(t)
  BY <1>3 DEF Places
<1>5. \A j \in 1 .. Len(t) : 1 <= j /\ j < Len(t) + 1
  BY <1>3
<1>. HIDE DEF g
<1>. QED BY <1>1, <1>2, <1>4, <1>5, SearchFinds

\* What becomes of a line that is looked up by tok.
LEMMA HandlerFound ==
  ASSUME NEW t \in UrcTables, NEW tok \in Texts, NEW rest
  PROVE  LET h == GetHandler(t, tok, rest) IN
         /\ h.what \in {"handler", "mismatch", "failure"}
         /\ h.what = "handler" => h.name = tok /\ h.text = rest
         /\ AtParseInit(t) /\ h.what = "mismatch" => \A j \in DOMAIN t : t[j].name # tok
<1>. DEFINE i == Bsearch(t, tok)
            h == GetHandler(t, tok, rest)
<1>1. /\ i # 0 => i \in 1 .. Len(t) /\ t[i].name = tok
      /\ AtParseInit(t) /\ i = 0 => \A j \in 1 .. Len(t) : t[j].name # tok
  BY BsearchFinds
<1>2. DOMAIN t = 1 .. Len(t)
  BY DEF UrcTables
<1>3. CASE i = 0
  <2>1. h = Handled("mismatch", <<>>)
    BY <1>3 DEF GetHandler
  <2>2. h.what = "mismatch"
    BY <2>1 DEF Handled
  <2>. HIDE DEF i
  <2>. QED BY <1>1, <1>2, <1>3, <2>2
<1>4. CASE i # 0
  <2>1. h = IF t[i].handled THEN [what |-> "handler", text |-> rest, name |-> t[i].name]
            ELSE Handled("failure", <<>>)
    BY <1>4 DEF GetHandler
  <2>2. t[i].name = tok
    BY <1>1, <1>4
  <2>. HIDE DEF i
  <2>. QED BY <2>1, <2>2 DEF Handled
<1>. QED BY <1>3, <1>4

\* Where a character is first, or one past the end.
LEMMA FirstIs ==
  ASSUME NEW S, NEW s \in Seq(S), NEW c
  PROVE  /\ FirstOf(s, c) \in 1 .. Len(s) + 1
         /\ FirstOf(s, c) <= Len(s) => s[FirstOf(s, c)] = c
         /\ \A i \in 1 .. Len(s) : s[i] = c => FirstOf(s, c) <= i
<1>. DEFINE T == {i \in 1 .. Len(s) : s[i] = c} \cup {Len(s) + 1}
<1>1. Len(s) \in Nat
  OBVIOUS
<1>2. T \in SUBSET Nat /\ T # {}
  BY <1>1
<1>3. Min(T) \in T /\ \A n \in T : Min(T) <= n
  <2>. HIDE DEF T
  <2>. QED BY <1>2, LeastIs
<1>4. FirstOf(s, c) = Min(T)
  BY DEF FirstOf
<1>. QED BY <1>1, <1>3, <1>4

\* Of a line with a prefix and a name, strtok_r cuts the name, and its end is the first
\* ':'.
LEMMA TokenIsName ==
  ASSUME NEW s \in Texts, ATIsPrefixPresent(s).yes, ~EmptyPrefix(s)
  PROVE  /\ TokenStart(s) = 2 /\ TokenEnd(s) = FirstOf(s, ":")
         /\ FirstOf(s, ":") \in 3 .. Len(s)
<1>. DEFINE colon == FirstOf(s, ":")
<1>0. Len(s) \in Nat /\ s \in Seq(ToSet(Letters))
  BY DEF Texts
<1>1. colon \in 1 .. Len(s) /\ s[1] = "+"
  <2>1. colon <= Len(s) /\ s[1] = "+"
    BY DEF ATIsPrefixPresent
  <2>. HIDE DEF colon
  <2>2. colon \in 1 .. Len(s) + 1
    BY <1>0, FirstIs DEF colon
  <2>. QED BY <1>0, <2>1, <2>2
<1>2. /\ colon <= Len(s) => s[colon] = ":"
      /\ \A i \in 1 .. Len(s) : s[i] = ":" => colon <= i
  BY <1>0, FirstIs
<1>. HIDE DEF colon
<1>3. s[colon] = ":"
  BY <1>0, <1>1, <1>2
<1>4. colon # 1
  BY <1>1, <1>3
<1>5. 2 \in 1 .. Len(s) /\ Len(s) >= 2
  BY <1>0, <1>1, <1>4
<1>6. s[2] # ":"
  BY <1>1, <1>5 DEF EmptyPrefix
<1>7. colon \in 3 .. Len(s)
  <2>1. colon # 2
    BY <1>3, <1>6
  <2>. QED BY <1>0, <1>1, <1>4, <2>1
<1>8. TokenStart(s) = 2
  <2>. DEFINE T == {i \in 2 .. Len(s) : s[i] # ":"} \cup {Len(s) + 1}
  <2>1. T \in SUBSET Nat /\ 2 \in T /\ \A n \in T : 2 <= n
    BY <1>0, <1>5, <1>6
  <2>. HIDE DEF T
  <2>2. Min(T) \in T /\ \A n \in T : Min(T) <= n
    BY <2>1, LeastIs
  <2>3. Min(T) = 2
    <3>1. Min(T) \in Nat /\ Min(T) <= 2 /\ 2 <= Min(T)
      BY <2>1, <2>2
    <3>. QED BY <3>1
  <2>. QED BY <2>3 DEF TokenStart, T
<1>9. TokenEnd(s) = colon
  <2>. DEFINE T == {i \in 2 .. Len(s) : s[i] = ":"} \cup {Len(s) + 1}
  <2>1. T \in SUBSET Nat /\ colon \in T /\ \A n \in T : colon <= n
    BY <1>0, <1>2, <1>3, <1>7
  <2>. HIDE DEF T
  <2>2. Min(T) \in T /\ \A n \in T : Min(T) <= n
    BY <2>1, LeastIs
  <2>3. Min(T) = colon
    <3>1. Min(T) \in Nat /\ Min(T) <= colon /\ colon <= Min(T) /\ colon \in Nat
      BY <2>1, <2>2
    <3>. QED BY <3>1
  <2>. QED BY <1>8, <2>3 DEF TokenEnd, T
<1>. QED BY <1>7, <1>8, <1>9 DEF colon

\* RightHandler, of the outcome h of a line s.
Dispatched(t, s, h) ==
  ~EmptyPrefix(s) =>
    /\ h.what = "handler" =>
         /\ h.name = NameOf(s)
         /\ h.text = IF ATIsPrefixPresent(s).yes THEN From(s, FirstOf(s, ":") + 1) ELSE s
    /\ h.what = "generic" => h.text = s
    /\ AtParseInit(t) /\ h.what = "generic" => \A i \in DOMAIN t : t[i].name # NameOf(s)

\* A line goes to the handler of its name, or to nobody else's.
LEMMA LineDispatched ==
  ASSUME NEW t \in UrcTables, NEW s \in Texts
  PROVE  Dispatched(t, s, ProcessUrcPacket(t, s))
<1>. SUFFICES ASSUME ~EmptyPrefix(s) PROVE Dispatched(t, s, ProcessUrcPacket(t, s))
  BY DEF Dispatched
<1>1. CASE ATIsPrefixPresent(s).yes
  <2>. DEFINE colon == FirstOf(s, ":")
              tok == SubSeq(s, 2, colon - 1)
              h == GetHandler(t, tok, From(s, colon + 1))
              r == ProcessUrcPacket(t, s)
  <2>1. TokenStart(s) = 2 /\ TokenEnd(s) = colon /\ colon \in 3 .. Len(s)
    BY <1>1, TokenIsName
  <2>2. NameOf(s) = tok
    BY <1>1 DEF NameOf
  <2>3. Len(s) \in Nat /\ s \in Seq(ToSet(Letters))
    BY DEF Texts
  <2>4. tok \in Texts /\ tok # <<>>
    <3>. HIDE DEF colon
    <3>1. tok \in Seq(ToSet(Letters)) /\ Len(tok) = colon - 2
      BY <2>1, <2>3
    <3>2. Len(tok) # 0
      BY <2>1, <3>1
    <3>3. tok # <<>>
      <4>. HIDE DEF tok
      <4>. QED BY <3>2
    <3>. QED BY <3>1, <3>3 DEF Texts
  <2>5. Restored(s) = s
    BY <2>1 DEF Restored
  <2>6. r = IF h.what # "mismatch" THEN h ELSE Handled("generic", s)
    <3>1. ~(tok = <<>>)
      BY <2>4
    <3>. QED BY <1>1, <2>1, <2>5, <3>1 DEF ProcessUrcPacket
  <2>7. /\ h.what \in {"handler", "mismatch", "failure"}
        /\ h.what = "handler" => h.name = tok /\ h.text = From(s, colon + 1)
        /\ AtParseInit(t) /\ h.what = "mismatch" => \A j \in DOMAIN t : t[j].name # tok
    <3>. HIDE DEF tok, colon
    <3>. QED BY <2>4, HandlerFound
  <2>8. Handled("generic", s).what = "generic" /\ Handled("generic", s).text = s
    BY DEF Handled
  <2>. HIDE DEF h, r, tok
  <2>. QED BY <1>1, <2>2, <2>6, <2>7, <2>8 DEF Dispatched, r
<1>2. CASE ~ATIsPrefixPresent(s).yes
  <2>. DEFINE h == GetHandler(t, s, s)
              r == ProcessUrcPacket(t, s)
  <2>1. NameOf(s) = s
    BY <1>2 DEF NameOf
  <2>2. r = IF h.what # "mismatch" THEN h ELSE Handled("generic", s)
    BY <1>2 DEF ProcessUrcPacket
  <2>3. /\ h.what \in {"handler", "mismatch", "failure"}
        /\ h.what = "handler" => h.name = s /\ h.text = s
        /\ AtParseInit(t) /\ h.what = "mismatch" => \A j \in DOMAIN t : t[j].name # s
    BY HandlerFound
  <2>4. Handled("generic", s).what = "generic" /\ Handled("generic", s).text = s
    BY DEF Handled
  <2>. HIDE DEF h, r
  <2>. QED BY <1>2, <2>1, <2>2, <2>3, <2>4 DEF Dispatched, r
<1>. QED BY <1>1, <1>2

\* The table is one a port may come with, and the line has been dispatched.
HandledInv == urcTable \in Tables /\ RightHandler

\* RightHandler is about a line, its table and what became of it.
LEMMA RightIsDispatched == RightHandler <=> Dispatched(urcTable, line, handled)
BY DEF RightHandler, Dispatched

\* Only a line of the modem changes what the property is about.
LEMMA HandledStep == ASSUME HandledInv, [DispatchNext]_dispatchVars PROVE HandledInv'
<1>. USE DEF lineVars, cbVars
<1>1. CASE UNCHANGED <<urcTable, line, handled>>
  BY <1>1 DEF HandledInv, RightHandler
<1>2. CASE UrcLine
  <2>1. /\ line' \in Lines /\ urcTable' = urcTable
        /\ \/ handled' = ProcessUrcPacket(urcTable, line')
           \/ handled' = Handled("failure", <<>>)
    BY <1>2 DEF UrcLine, TakeUrc
  <2>2. line' \in Texts /\ urcTable \in UrcTables
    BY <2>1, DispatchAssumption DEF HandledInv, UrcTables
  <2>3. CASE handled' = ProcessUrcPacket(urcTable, line')
    <3>1. Dispatched(urcTable, line', handled')
      BY <2>2, <2>3, LineDispatched
    <3>. QED BY <2>1, <3>1 DEF HandledInv, RightHandler, Dispatched
  <2>4. CASE handled' = Handled("failure", <<>>)
    <3>1. handled'.what = "failure"
      BY <2>4 DEF Handled
    <3>. QED BY <2>1, <3>1 DEF HandledInv, RightHandler
  <2>. QED BY <2>1, <2>3, <2>4
<1>3. CASE UndefinedMessage
  <2>1. handled'.what = "undefined" /\ urcTable' = urcTable
    BY <1>3 DEF UndefinedMessage, Handled
  <2>. QED BY <2>1 DEF HandledInv, RightHandler
<1>4. CASE OpenDispatch \/ CheckCallback \/ CallCallback \/ DispatchStill \/ UNCHANGED dispatchVars
  <2>1. UNCHANGED <<urcTable, line, handled>>
    BY <1>4 DEF OpenDispatch, CheckCallback, CallCallback, DispatchStill, dispatchVars
  <2>. QED BY <1>1, <2>1
<1>5. ASSUME NEW t \in Registrars,
             StartRegistration(t) \/ LockRespMutex(t) \/ SetCallback(t) \/ SetContext(t)
      PROVE  HandledInv'
  <2>1. UNCHANGED <<urcTable, line, handled>>
    BY <1>5 DEF StartRegistration, LockRespMutex, SetCallback, SetContext
  <2>. QED BY <1>1, <2>1
<1>. QED BY <1>2, <1>3, <1>4, <1>5 DEF DispatchNext

\* Whatever the table and the line: who gets it has its name, and gets the rest of it; the
\* generic callback gets it as it came, and with a table in order only if no entry has
\* its name.
THEOREM LinesReachTheirHandler == DispatchSpec => []RightHandler
<1>1. DispatchInit => HandledInv
  BY DEF DispatchInit, HandledInv, RightHandler, Handled
<1>2. HandledInv /\ [DispatchNext]_dispatchVars => HandledInv'
  BY HandledStep
<1>3. HandledInv => RightHandler
  BY DEF HandledInv
<1>. QED BY <1>1, <1>2, <1>3, PTL DEF DispatchSpec

-----------------------------------------------------------------------------
(* SignalBars, for every value a modem may measure.                            *)

\* The least of the thresholds that is not exceeded, of five in order.
LEMMA FirstThreshold ==
  ASSUME NEW v \in Int, NEW r, DOMAIN Thresholds(r) = 1 .. 5,
         Thresholds(r) \in [1 .. 5 -> Int],
         \A i, j \in 1 .. 5 : i < j => Thresholds(r)[i] < Thresholds(r)[j]
  PROVE  GetSignalBars(v, r) =
           IF v <= Thresholds(r)[1] THEN 1 ELSE IF v <= Thresholds(r)[2] THEN 2
           ELSE IF v <= Thresholds(r)[3] THEN 3 ELSE IF v <= Thresholds(r)[4] THEN 4
           ELSE IF v <= Thresholds(r)[5] THEN 5 ELSE InvalidBars
<1>. DEFINE T == Thresholds(r)
            a == T[1]
            b == T[2]
            c == T[3]
            d == T[4]
            e == T[5]
            under == {i \in DOMAIN T : v <= T[i]}
            bars == IF v <= a THEN 1 ELSE IF v <= b THEN 2 ELSE IF v <= c THEN 3
                    ELSE IF v <= d THEN 4 ELSE 5
<1>1. /\ DOMAIN T = 1 .. 5
      /\ a \in Int /\ b \in Int /\ c \in Int /\ d \in Int /\ e \in Int
      /\ a < b /\ b < c /\ c < d /\ d < e
  <2>. HIDE DEF T
  <2>. QED BY DEF T
<1>2. CASE v <= e
  <2>1. bars \in under
    <3>. HIDE DEF T
    <3>. QED BY <1>1, <1>2
  <2>2. \A i \in under : bars <= i
    <3>. HIDE DEF T
    <3>. QED BY <1>1
  <2>3. \A i \in under : i \in Int
    <3>. HIDE DEF T
    <3>. QED BY <1>1
  <2>4. (CHOOSE i \in under : \A j \in under : i <= j) = bars
    <3>. HIDE DEF under, bars
    <3>. QED BY <2>1, <2>2, <2>3
  <2>5. GetSignalBars(v, r) = CHOOSE i \in under : \A j \in under : i <= j
    <3>1. under # {}
      <4>. HIDE DEF under, bars
      <4>. QED BY <2>1
    <3>. QED BY <3>1 DEF GetSignalBars
  <2>. QED BY <1>2, <2>4, <2>5
<1>3. CASE ~(v <= e)
  <2>1. under = {}
    <3>. HIDE DEF T
    <3>. QED BY <1>1, <1>3
  <2>2. GetSignalBars(v, r) = InvalidBars
    BY <2>1 DEF GetSignalBars
  <2>. QED BY <1>3, <2>2
<1>. QED BY <1>2, <1>3

\* What is so of the bars of any technology: none without a scale, one to five for a power
\* that is not positive, and never fewer for more power.
LEMMA BarsAscend ==
  ASSUME NEW v \in Int, NEW r \in Rats
  PROVE  /\ GetSignalBars(v, r) \in Int
         /\ Thresholds(r) = <<>> => GetSignalBars(v, r) = InvalidBars
         /\ Thresholds(r) # <<>> /\ v <= 0 => GetSignalBars(v, r) \in 1 .. 5
         /\ \A w \in Int : v <= w => GetSignalBars(v, r) <= GetSignalBars(w, r)
<1>1. CASE r \in {"GSM", "EDGE"}
  <2>1. Thresholds(r) = <<-104, -98, -89, -80, 0>>
    BY <1>1 DEF Thresholds
  <2>2. /\ DOMAIN Thresholds(r) = 1 .. 5
        /\ Thresholds(r)[1] = -104 /\ Thresholds(r)[2] = -98 /\ Thresholds(r)[3] = -89
        /\ Thresholds(r)[4] = -80 /\ Thresholds(r)[5] = 0
    BY <2>1
  <2>5. Thresholds(r) \in [1 .. 5 -> Int]
    BY <2>1
  <2>6. \A i, j \in 1 .. 5 : i < j => Thresholds(r)[i] < Thresholds(r)[j]
    BY <2>2
  <2>4. ASSUME NEW w \in Int
        PROVE  GetSignalBars(w, r) =
                 IF w <= -104 THEN 1 ELSE IF w <= -98 THEN 2 ELSE IF w <= -89 THEN 3
                 ELSE IF w <= -80 THEN 4 ELSE IF w <= 0 THEN 5 ELSE InvalidBars
    BY <2>2, <2>5, <2>6, FirstThreshold
  <2>3. Thresholds(r) # <<>>
    BY <2>1
  <2>. QED BY <2>3, <2>4 DEF InvalidBars
<1>2. CASE r \in {"CATM1", "LTE", "NBIOT"}
  <2>1. Thresholds(r) = <<-115, -105, -95, -85, 0>>
    BY <1>2 DEF Thresholds
  <2>2. /\ DOMAIN Thresholds(r) = 1 .. 5
        /\ Thresholds(r)[1] = -115 /\ Thresholds(r)[2] = -105 /\ Thresholds(r)[3] = -95
        /\ Thresholds(r)[4] = -85 /\ Thresholds(r)[5] = 0
    BY <2>1
  <2>5. Thresholds(r) \in [1 .. 5 -> Int]
    BY <2>1
  <2>6. \A i, j \in 1 .. 5 : i < j => Thresholds(r)[i] < Thresholds(r)[j]
    BY <2>2
  <2>4. ASSUME NEW w \in Int
        PROVE  GetSignalBars(w, r) =
                 IF w <= -115 THEN 1 ELSE IF w <= -105 THEN 2 ELSE IF w <= -95 THEN 3
                 ELSE IF w <= -85 THEN 4 ELSE IF w <= 0 THEN 5 ELSE InvalidBars
    BY <2>2, <2>5, <2>6, FirstThreshold
  <2>3. Thresholds(r) # <<>>
    BY <2>1
  <2>. QED BY <2>3, <2>4 DEF InvalidBars
<1>3. CASE r = "WCDMA"
  <2>1. Thresholds(r) = <<>>
    BY <1>3 DEF Thresholds
  <2>2. \A w : GetSignalBars(w, r) = InvalidBars
    BY <2>1 DEF GetSignalBars
  <2>. QED BY <2>1, <2>2 DEF InvalidBars
<1>. QED BY <1>1, <1>2, <1>3 DEF Rats

\* What the types document of an RSSI and of a bit error rate.
RssiShown == -113 .. -51 \cup {InvalidSignal}
BerShown == 14 .. 1810 \cup {InvalidSignal}

\* The conversions stay within what the types document, or leave the value alone.
LEMMA Converted ==
  /\ \A c \in Int, old \in RssiShown : ConvertCsqSignalRssi(c, old) \in RssiShown
  /\ \A c \in Int, old \in BerShown : ConvertCsqSignalBer(c, old) \in BerShown
<1>1. ASSUME NEW c \in Int, NEW old \in RssiShown PROVE ConvertCsqSignalRssi(c, old) \in RssiShown
  BY DEF ConvertCsqSignalRssi, LegalRssi, RssiShown
<1>2. ASSUME NEW i \in 0 .. 7 PROVE BerTable[i + 1] \in BerShown
  <2>1. i = 0 \/ i = 1 \/ i = 2 \/ i = 3 \/ i = 4 \/ i = 5 \/ i = 6 \/ i = 7
    OBVIOUS
  <2>2. /\ BerTable[1] = 14 /\ BerTable[2] = 28 /\ BerTable[3] = 57 /\ BerTable[4] = 113
        /\ BerTable[5] = 226 /\ BerTable[6] = 453 /\ BerTable[7] = 905 /\ BerTable[8] = 1810
    BY DEF BerTable
  <2>. QED BY <2>1, <2>2 DEF BerShown
<1>3. InvalidSignal \in BerShown
  BY DEF BerShown
<1>4. ASSUME NEW c \in Int, NEW old \in BerShown PROVE ConvertCsqSignalBer(c, old) \in BerShown
  BY <1>2, <1>3 DEF ConvertCsqSignalBer
<1>. QED BY <1>1, <1>4

\* The quantity that counts for a technology.
Strength(r, i) == IF r \in {"GSM", "EDGE"} THEN i.rssi ELSE i.rsrp

\* What is shown is converted, and the bars are those of the strength shown.
SignalInv ==
  /\ rat \in Rats
  /\ csq \in [rssi : Int, ber : Int]
  /\ info.rssi \in RssiShown
  /\ info.rsrp \in PowerValues \cup {InvalidSignal}
  /\ info.ber \in BerShown
  /\ info.bars = GetSignalBars(Strength(rat, info), rat)

\* A structure made of converted values is one of those.
LEMMA Made ==
  ASSUME NEW r, NEW rssi, NEW rsrp, NEW ber
  PROVE  LET i == Info(r, rssi, rsrp, ber) IN
         /\ i.rssi = rssi /\ i.rsrp = rsrp /\ i.ber = ber
         /\ i.bars = GetSignalBars(Strength(r, i), r)
BY DEF Info, Strength, ComputeSignalBars

\* Every step keeps the invariant.
LEMMA SignalStep == ASSUME SignalInv, [SignalNext]_signalVars PROVE SignalInv'
<1>0. /\ rat \in Rats /\ csq \in [rssi : Int, ber : Int]
      /\ info.rssi \in RssiShown
      /\ info.rsrp \in PowerValues \cup {InvalidSignal}
      /\ info.ber \in BerShown
  BY DEF SignalInv
<1>1. CASE MeasureCsq
  <2>1. PICK c \in CsqValues : csq' = [csq EXCEPT !.rssi = c]
    BY <1>1 DEF MeasureCsq
  <2>2. c \in Int /\ csq' \in [rssi : Int, ber : Int] /\ csq'.rssi = c
    BY <1>0, <2>1, SignalAssumption
  <2>3. ConvertCsqSignalRssi(c, info.rssi) \in RssiShown
    BY <1>0, <2>2, Converted
  <2>4. rat' = rat /\ info' = Info(rat, ConvertCsqSignalRssi(c, info.rssi), info.rsrp, info.ber)
    BY <1>1, <2>2 DEF MeasureCsq
  <2>. QED BY <1>0, <2>2, <2>3, <2>4, Made DEF SignalInv
<1>2. CASE MeasureBer
  <2>1. PICK c \in BerValues : csq' = [csq EXCEPT !.ber = c]
    BY <1>2 DEF MeasureBer
  <2>2. c \in Int /\ csq' \in [rssi : Int, ber : Int] /\ csq'.ber = c
    BY <1>0, <2>1, SignalAssumption
  <2>3. ConvertCsqSignalBer(c, info.ber) \in BerShown
    BY <1>0, <2>2, Converted
  <2>4. rat' = rat /\ info' = Info(rat, info.rssi, info.rsrp, ConvertCsqSignalBer(c, info.ber))
    BY <1>2, <2>2 DEF MeasureBer
  <2>. QED BY <1>0, <2>2, <2>3, <2>4, Made DEF SignalInv
<1>3. CASE MeasurePower
  <2>1. PICK p \in PowerValues : info' = Info(rat, info.rssi, p, info.ber)
    BY <1>3 DEF MeasurePower
  <2>2. rat' = rat /\ csq' = csq
    BY <1>3 DEF MeasurePower
  <2>. QED BY <1>0, <2>1, <2>2, Made DEF SignalInv
<1>4. CASE UNCHANGED signalVars
  BY <1>4 DEF signalVars, SignalInv, Strength
<1>. QED BY <1>1, <1>2, <1>3, <1>4 DEF SignalNext

\* A port's structure begins without a signal.
LEMMA SignalInitInv == SignalInit => SignalInv
<1>. SUFFICES ASSUME SignalInit PROVE SignalInv
  OBVIOUS
<1>1. /\ rat \in Rats /\ csq = [rssi |-> CsqUnknown, ber |-> CsqUnknown]
      /\ info = Info(rat, InvalidSignal, InvalidSignal, InvalidSignal)
  BY DEF SignalInit
<1>2. csq \in [rssi : Int, ber : Int]
  BY <1>1 DEF CsqUnknown
<1>. QED BY <1>1, <1>2, Made DEF SignalInv, RssiShown, BerShown

\* The strength and the bars of a state are numbers.
LEMMA StrengthIs ==
  ASSUME SignalInv
  PROVE  Strength(rat, info) \in Int /\ info.bars = GetSignalBars(Strength(rat, info), rat)
BY SignalAssumption DEF SignalInv, Strength, InvalidSignal, RssiShown

\* What a caller sees is what the types document, provided that a power is not positive,
\* as an RSRP in dBm is: with a positive one the bars would be 255.
THEOREM SignalTypes ==
  ASSUME \A p \in PowerValues : p <= 0
  PROVE  SignalSpec => []SignalTypeOK
<1>1. SignalInv => SignalTypeOK
  <2>. SUFFICES ASSUME SignalInv PROVE SignalTypeOK
    OBVIOUS
  <2>1. Strength(rat, info) \in Int /\ info.bars = GetSignalBars(Strength(rat, info), rat)
    BY StrengthIs
  <2>2. Strength(rat, info) <= 0
    BY DEF SignalInv, Strength, InvalidSignal, RssiShown
  <2>3. info.bars \in IF Thresholds(rat) = <<>> THEN {InvalidBars} ELSE 1 .. 5
    BY <2>1, <2>2, BarsAscend DEF SignalInv
  <2>. QED BY <2>3 DEF SignalInv, SignalTypeOK, RssiShown, BerShown
<1>. QED BY <1>1, SignalInitInv, SignalStep, PTL DEF SignalSpec

\* Of two measurements one after the other the stronger has no fewer bars.
THEOREM StrongerShowsMore == SignalSpec => BarsFollowSignal
<1>1. SignalInv /\ SignalInv' /\ [SignalNext]_signalVars =>
        [LET S(i) == IF rat \in {"GSM", "EDGE"} THEN i.rssi ELSE i.rsrp
         IN  rat' = rat => /\ S(info') >= S(info) => info'.bars >= info.bars
                           /\ S(info') <= S(info) => info'.bars <= info.bars]_signalVars
  <2>. SUFFICES ASSUME SignalInv, SignalInv', rat' = rat
                PROVE  /\ Strength(rat, info') >= Strength(rat, info) => info'.bars >= info.bars
                       /\ Strength(rat, info') <= Strength(rat, info) => info'.bars <= info.bars
    BY DEF Strength
  <2>1. Strength(rat, info) \in Int /\ info.bars = GetSignalBars(Strength(rat, info), rat)
    BY StrengthIs
  <2>2. Strength(rat, info') \in Int /\ info'.bars = GetSignalBars(Strength(rat, info'), rat)
    BY SignalAssumption DEF SignalInv, Strength, InvalidSignal, RssiShown
  <2>3. rat \in Rats
    BY DEF SignalInv
  <2>. QED BY <2>1, <2>2, <2>3, BarsAscend
<1>. QED BY <1>1, SignalInitInv, SignalStep, PTL DEF SignalSpec, BarsFollowSignal
=============================================================================
