---------------------------- MODULE SocketTable ----------------------------
(***************************************************************************)
(* The table of sockets: _Cellular_CreateSocketData and RemoveSocketData   *)
(* of cellular_common.c, and the options and callbacks of a socket of      *)
(* cellular_common_api.c.                                                  *)
(*                                                                         *)
(* A creator looks for a free slot and takes it without the critical       *)
(* section that removal has: it tests one slot at a time, then fills a     *)
(* block and puts it into the slot, other tasks in between.  The states    *)
(* after SOCKETSTATE_ALLOCATED are set by the module port, whose events    *)
(* reach a socket by its index (_Cellular_GetSocketData).                  *)
(***************************************************************************)
EXTENDS Integers, FiniteSets

CONSTANTS
  SocketTasks,  \* the tasks that open sockets
  NoOwner,      \* NULL, as a callback or a context
  NumSockets,   \* CELLULAR_NUM_SOCKET_MAX
  NumBlocks,    \* the blocks the heap has
  PdnIds,       \* the values of a PDN context id a caller may give
  ValidPdns,    \* CELLULAR_PDN_CONTEXT_ID_MIN .. _MAX
  Ports,        \* local ports, and timeouts
  Options,      \* the options the tasks set
  MaxSockets    \* bound on the calls of Cellular_CreateSocket

ASSUME SocketAssumption ==
  /\ NoOwner \notin SocketTasks
  /\ NumSockets \in Nat \ {0} /\ NumBlocks \in Nat /\ NumSockets <= NumBlocks
  /\ ValidPdns \subseteq PdnIds /\ PdnIds \subseteq Nat /\ 0 \in Ports /\ Ports \subseteq Nat
  /\ Options \subseteq {"pdn", "port", "send", "recv"}
  /\ MaxSockets \in Nat

Slots == 0 .. NumSockets - 1
Blocks == 0 .. NumBlocks - 1
NoBlock == NumBlocks

VARIABLES
  static,   \* CELLULAR_CONFIG_STATIC_SOCKET_CONTEXT_ALLOCATION
  careful,  \* one creator at a time, and callbacks registered before connecting
  pSocketData,  \* the block of each slot
  sock,     \* the blocks
  heap,     \* the blocks taken from the heap
  pc,       \* idle, scanning, filling, storing, or between two assignments of a registration
  at,       \* the slot, the block and the PDN of a creation, or the socket of a registration
  wasFull,  \* the table was full when the call began
  handles,  \* the sockets each task has
  wanted,   \* for each of them, what its task has set it to
  created   \* number of creations so far

creating == <<pc, at, wasFull, created>>
socketVars == <<static, careful, pSocketData, sock, heap, creating, handles, wanted>>

Created(pdn) == [pdn |-> pdn, port |-> 0, send |-> 0, recv |-> 0]
Blank == [state |-> "free", id |-> NumSockets, set |-> Created(0), cb |-> NoOwner, ctx |-> NoOwner]

Nowhere == [slot |-> 0, block |-> NoBlock, pdn |-> 0]

SocketInit ==
  /\ static \in BOOLEAN
  /\ careful \in BOOLEAN
  /\ pSocketData = [s \in Slots |-> NoBlock]
  /\ sock = [b \in Blocks |-> Blank]
  /\ heap = {}
  /\ pc = [t \in SocketTasks |-> "idle"]
  /\ at = [t \in SocketTasks |-> Nowhere]
  /\ wasFull = [t \in SocketTasks |-> FALSE]
  /\ handles = [t \in SocketTasks |-> {}]
  /\ wanted = [t \in SocketTasks |-> [b \in Blocks |-> Created(0)]]
  /\ created = 0

Creates(t) == pc[t] \in {"scanning", "filling", "storing"}
Full == \A s \in Slots : pSocketData[s] # NoBlock

-----------------------------------------------------------------------------
(* Cellular_CommonCreateSocket.                                            *)

\* What a call leaves behind of itself.
Return(t) ==
  /\ pc' = [pc EXCEPT ![t] = "idle"]
  /\ at' = [at EXCEPT ![t] = Nowhere]
  /\ wasFull' = [wasFull EXCEPT ![t] = FALSE]

\* Mutant: the slots are counted from one.
FirstSlotOne == 1

FirstSlot == 0

\* A PDN out of range is refused (CELLULAR_INVALID_HANDLE).
CreateSocket(t) ==
  /\ pc[t] = "idle" /\ created < MaxSockets
  /\ careful => \A u \in SocketTasks : ~Creates(u)
  /\ \E pdn \in PdnIds :
       IF pdn \in ValidPdns
       THEN /\ pc' = [pc EXCEPT ![t] = "scanning"]
            /\ at' = [at EXCEPT ![t] = [slot |-> FirstSlot, block |-> NoBlock, pdn |-> pdn]]
            /\ wasFull' = [wasFull EXCEPT ![t] = Full]
       ELSE UNCHANGED <<pc, at, wasFull>>
  /\ created' = created + 1
  /\ UNCHANGED <<static, careful, pSocketData, sock, heap, handles, wanted>>

\* Mutant: a socket that is not connected gives up its slot.
FreeSlotAllocated(s) == pSocketData[s] = NoBlock \/ sock[pSocketData[s]].state = "allocated"

FreeSlot(s) == pSocketData[s] = NoBlock

\* The slot is free, or the next one is looked at.
TestSlot(t) ==
  /\ pc[t] = "scanning" /\ at[t].slot < NumSockets
  /\ IF FreeSlot(at[t].slot)
     THEN pc' = [pc EXCEPT ![t] = "filling"] /\ UNCHANGED at
     ELSE at' = [at EXCEPT ![t].slot = @ + 1] /\ UNCHANGED pc
  /\ UNCHANGED <<static, careful, pSocketData, sock, heap, wasFull, handles, wanted, created>>

NoSlot(t) ==
  /\ pc[t] = "scanning" /\ at[t].slot = NumSockets
  /\ Return(t)
  /\ UNCHANGED <<static, careful, pSocketData, sock, heap, handles, wanted, created>>

\* Mutant: the block is set up for the slot after it.
SetSocketDataNext(t, b) ==
  [Blank EXCEPT !.state = "allocated", !.id = at[t].slot + 1, !.set = Created(at[t].pdn)]

\* Mutant: the block is not cleared.
SetSocketDataKeeping(t, b) ==
  [sock[b] EXCEPT !.state = "allocated", !.id = at[t].slot, !.set.pdn = at[t].pdn]

\* createSocketSetSocketData
SetSocketData(t, b) ==
  [Blank EXCEPT !.state = "allocated", !.id = at[t].slot, !.set = Created(at[t].pdn)]

\* The slot's own block, or one from the heap.
FillBlock(t) ==
  /\ pc[t] = "filling"
  /\ \E b \in IF static THEN {at[t].slot} ELSE Blocks \ heap :
       /\ sock' = [sock EXCEPT ![b] = SetSocketData(t, b)]
       /\ heap' = IF static THEN heap ELSE heap \cup {b}
       /\ at' = [at EXCEPT ![t].block = b]
  /\ pc' = [pc EXCEPT ![t] = "storing"]
  /\ UNCHANGED <<static, careful, pSocketData, wasFull, handles, wanted, created>>

\* Mutant: the result of the allocation is not looked at.
NoMemoryStored(t) ==
  /\ pc[t] = "filling" /\ ~static
  /\ pc' = [pc EXCEPT ![t] = "storing"]
  /\ UNCHANGED <<static, careful, pSocketData, sock, heap, at, wasFull, handles, wanted, created>>

NoMemory(t) ==
  /\ pc[t] = "filling" /\ ~static
  /\ Return(t)
  /\ UNCHANGED <<static, careful, pSocketData, sock, heap, handles, wanted, created>>

StoreBlock(t) ==
  /\ pc[t] = "storing"
  /\ pSocketData' = [pSocketData EXCEPT ![at[t].slot] = at[t].block]
  /\ handles' = [handles EXCEPT ![t] = @ \cup {at[t].block}]
  /\ wanted' = [wanted EXCEPT ![t][at[t].block] = Created(at[t].pdn)]
  /\ Return(t)
  /\ UNCHANGED <<static, careful, sock, heap, created>>

-----------------------------------------------------------------------------
(* A socket in use.                                                        *)

\* The PDN and the port only before the socket is connected.
Settable(b, option) ==
  option \in {"pdn", "port"} => sock[b].state = "allocated"

\* Cellular_CommonSocketSetSockOpt, of the transport level and a right length; the
\* caller knows by the outcome what is set.
SetSockOpt(t, b) ==
  /\ pc[t] = "idle" /\ b \in handles[t]
  /\ \E option \in Options :
     \E v \in IF option = "pdn" THEN PdnIds ELSE Ports :
       /\ Settable(b, option)
       /\ sock' = [sock EXCEPT ![b].set[option] = v]
       /\ wanted' = [wanted EXCEPT ![t][b][option] = v]
  /\ UNCHANGED <<static, careful, pSocketData, heap, creating, handles>>

\* Cellular_CommonSocketRegisterDataReadyCallback, and the ones for an open and a
\* closed socket: the callback, then its context.
RegisterCallback(t, b) ==
  /\ pc[t] = "idle" /\ b \in handles[t]
  /\ careful => sock[b].state = "allocated"
  /\ sock' = [sock EXCEPT ![b].cb = t]
  /\ pc' = [pc EXCEPT ![t] = "registering"]
  /\ at' = [at EXCEPT ![t].block = b]
  /\ UNCHANGED <<static, careful, pSocketData, heap, wasFull, handles, wanted, created>>

\* Mutant: the context is not stored.
RegisterNoContext(t) ==
  /\ pc[t] = "registering"
  /\ Return(t)
  /\ UNCHANGED <<static, careful, pSocketData, sock, heap, handles, wanted, created>>

RegisterContext(t) ==
  /\ pc[t] = "registering"
  /\ sock' = [sock EXCEPT ![at[t].block].ctx = t]
  /\ Return(t)
  /\ UNCHANGED <<static, careful, pSocketData, heap, handles, wanted, created>>

\* Cellular_SocketConnect, of the module port.
Connect(t, b) ==
  /\ pc[t] = "idle" /\ b \in handles[t] /\ sock[b].state = "allocated"
  /\ sock' = [sock EXCEPT ![b].state = "connected"]
  /\ UNCHANGED <<static, careful, pSocketData, heap, creating, handles, wanted>>

SlotsOf(b) == {s \in Slots : pSocketData[s] = b}
SlotFound(b) == CHOOSE s \in SlotsOf(b) : \A u \in SlotsOf(b) : s <= u

\* Mutant: the block stays taken.
RemovedOnly(b) == heap

\* Platform_Free
Freed(b) == IF SlotsOf(b) # {} THEN heap \ {b} ELSE heap

\* _Cellular_RemoveSocketData, in a critical section, when the socket is closed: a
\* handle that is nowhere in the table is refused, and its block kept.
RemoveSocketData(t, b) ==
  /\ pc[t] = "idle" /\ b \in handles[t]
  /\ pSocketData' = IF SlotsOf(b) = {} THEN pSocketData
                    ELSE [pSocketData EXCEPT ![SlotFound(b)] = NoBlock]
  /\ heap' = Freed(b)
  /\ handles' = [handles EXCEPT ![t] = @ \ {b}]
  /\ UNCHANGED <<static, careful, sock, creating, wanted>>

\* libClose, while no call is under way: the sockets that are left go.
CloseSockets ==
  /\ \A t \in SocketTasks : pc[t] = "idle"
  /\ \E s \in Slots : pSocketData[s] # NoBlock
  /\ pSocketData' = [s \in Slots |-> NoBlock]
  /\ heap' = heap \ {pSocketData[s] : s \in Slots}
  /\ handles' = [t \in SocketTasks |-> {}]
  /\ UNCHANGED <<static, careful, sock, creating, wanted>>

AllClosed ==
  /\ created = MaxSockets /\ \A t \in SocketTasks : pc[t] = "idle" /\ handles[t] = {}
  /\ UNCHANGED socketVars

SocketCall(t) ==
  \/ CreateSocket(t) \/ TestSlot(t) \/ NoSlot(t) \/ FillBlock(t) \/ NoMemory(t) \/ StoreBlock(t)
  \/ RegisterContext(t)
  \/ \E b \in Blocks :
       SetSockOpt(t, b) \/ RegisterCallback(t, b) \/ Connect(t, b) \/ RemoveSocketData(t, b)

SocketNext ==
  \/ \E t \in SocketTasks : SocketCall(t)
  \/ CloseSockets
  \/ AllClosed

SocketSpec == SocketInit /\ [][SocketNext]_socketVars

-----------------------------------------------------------------------------
(* Properties.                                                             *)

Settings == [pdn : Nat, port : Nat, send : Nat, recv : Nat]
Sockets == [state : {"free", "allocated", "connected"}, id : 0 .. NumSockets, set : Settings,
            cb : SocketTasks \cup {NoOwner}, ctx : SocketTasks \cup {NoOwner}]

Positions == [slot : 0 .. NumSockets, block : Blocks \cup {NoBlock}, pdn : Nat]

SocketTypeOK ==
  /\ static \in BOOLEAN /\ careful \in BOOLEAN
  /\ pSocketData \in [Slots -> Blocks \cup {NoBlock}]
  /\ sock \in [Blocks -> Sockets]
  /\ heap \subseteq Blocks
  /\ pc \in [SocketTasks -> {"idle", "scanning", "filling", "storing", "registering"}]
  /\ at \in [SocketTasks -> Positions]
  /\ wasFull \in [SocketTasks -> BOOLEAN]
  /\ handles \in [SocketTasks -> SUBSET Blocks]
  /\ wanted \in [SocketTasks -> [Blocks -> Settings]]
  /\ \A t \in SocketTasks : /\ pc[t] \in {"filling", "storing"} => at[t].slot \in Slots
                            /\ pc[t] \in {"storing", "registering"} => at[t].block \in Blocks

\* A slot that is taken holds a block set up with that slot's index, by which the
\* port's events find it, however the tasks' creations and removals overlap, even with
\* two creators at a time.
SlotKnowsItself ==
  \A s \in Slots : pSocketData[s] # NoBlock => sock[pSocketData[s]].id = s /\ sock[pSocketData[s]].state # "free"

\* With one creator at a time, no two tasks have the same socket, and a socket a task
\* has is in the slot of its index until the task closes it, though slots become free
\* while a creator looks for one.
HandlesApart ==
  careful =>
    /\ \A t, u \in SocketTasks : t # u => handles[t] \cap handles[u] = {}
    /\ \A t \in SocketTasks : \A b \in handles[t] : pSocketData[sock[b].id] = b

\* With one creator at a time, a socket is set to what its task has set it to since it
\* got it, and to the PDN it asked for: no creation reuses a block that is in use, and
\* an option that was refused has changed nothing.
KeepsItsSettings ==
  careful => \A t \in SocketTasks : \A b \in handles[t] : sock[b].set = wanted[t][b]

\* With one creator at a time, every block taken from the heap is in the table or about
\* to be put there: none is lost, whichever creations fail and sockets are closed.
NoBlockLost ==
  careful => heap \subseteq {pSocketData[s] : s \in Slots}
                            \cup {at[t].block : t \in {u \in SocketTasks : pc[u] = "storing"}}

\* With one creator at a time, a creation is refused for want of a slot only if the
\* table was full when it was called, though it looks at the slots one after the other.
RefusedWhenFull ==
  careful => \A t \in SocketTasks : pc[t] = "scanning" /\ at[t].slot = NumSockets => wasFull[t]

\* An event of a connected socket, which the port finds by its index, calls the callback
\* that was registered before it was connected with its own context, though the two are
\* set one after the other and without a lock, and blocks are used again.
SocketCallbackContext ==
  careful => \A s \in Slots :
    pSocketData[s] # NoBlock /\ sock[pSocketData[s]].state = "connected" =>
      sock[pSocketData[s]].cb = sock[pSocketData[s]].ctx
=============================================================================
