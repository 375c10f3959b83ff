------------------------- MODULE LibLifecycleProofs -------------------------
(* Theorems about LibLifecycle, for any tasks and any number of lives of the  *)
(* library, whatever priority each thread has.                                *)
EXTENDS LibLifecycle, TLAPS

(* The inductive invariant: where the owner is tells what there is, where the *)
(* reader of this life may be and which events are set.                       *)

Contexts ==
  [allocated : BOOLEAN, mutexes : FirstMutexes, queue : BOOLEAN, eventGroup : BOOLEAN,
   bits : SUBSET Events, handlePktCB : BOOLEAN, shutdownCB : BOOLEAN, pktioUp : BOOLEAN,
   commIntf : BOOLEAN, opened : BOOLEAN, shutdown : BOOLEAN, closing : BOOLEAN]

\* Where a reader is that nobody waits for any more: its last steps may still be to come.
Past == {"none"} \cup LastSteps \cup Ended

\* The reader of this life is somewhere in where, those of the others are past.
Only(where) ==
  /\ life \in Lives /\ reader[life] \in where
  /\ \A l \in Lives \ {life} : reader[l] \in Past

\* The owner while no reader runs, in three groups: without and with the queue, and
\* while libOpen gives up.
Bare == {"idle", "libOpen", "undo", "closed", "destroy", "free"}
Queued == {"pktioInit", "handlerCleanup"}
Working == {"libOpened", "moduleInit", "up", "libClose", "pktioShutdown"}

\* Where the events say that the reader is gone.
Gone == LastSteps \cup Ended

Nobody ==
  owner \in Bare \cup Queued \cup {"pktioFailed"} =>
    /\ ~ctx.commIntf
    /\ \A l \in Lives : reader[l] \in Past

Resources ==
  /\ ctx.allocated = (owner # "idle")
  /\ owner \in {"idle", "free"} => ctx.mutexes = {}
  /\ owner \in Bare => ~ctx.queue
  /\ owner \in Queued \cup Working \cup {"pktioWait", "pktioAborting"} => ctx.queue
  /\ owner \in Bare \cup Queued => ~ctx.eventGroup
  /\ owner \in Working \cup {"pktioWait", "pktioAborting"} => ctx.eventGroup
  /\ owner \notin {"idle", "undo", "free"} => ctx.mutexes = Mutexes
  /\ owner \notin Bare \cup Queued \cup {"pktioFailed"} => ctx.handlePktCB
  /\ owner # "idle" => life \in Lives

\* _PktioInitProcessReadThreadStatus waits for the first event of the reader.
Starting ==
  owner = "pktioWait" =>
    /\ Only({"open", "started", "wait", "handle", "aborted"} \cup Gone)
    /\ ctx.bits \cap {"STARTED", "ABORTED"} =
         CASE reader[life] \in {"wait", "handle"} -> {"STARTED"}
           [] reader[life] \in Gone -> {"ABORTED"}
           [] OTHER -> {}
    /\ ctx.commIntf <=> reader[life] \in {"started", "wait", "handle"}
    /\ "ABORT" \notin ctx.bits

\* The reader runs and has not been told to stop.
Running ==
  owner \in Working =>
    /\ Only({"wait", "handle"})
    /\ ctx.commIntf /\ ctx.pktioUp
    /\ ctx.bits \subseteq {"RX_DATA"}

\* _Cellular_PktioShutdown waits for the reader's end.
Stopping ==
  owner = "pktioAborting" =>
    /\ Only({"wait", "handle", "close", "aborted"} \cup Gone)
    /\ reader[life] \in {"wait", "handle"} => "ABORT" \in ctx.bits
    /\ "ABORTED" \in ctx.bits <=> reader[life] \in Gone
    /\ reader[life] \in {"aborted"} \cup Gone => ~ctx.commIntf

\* The flags that _Cellular_CheckLibraryStatus reads.
Flags ==
  /\ owner \in {"moduleInit", "up", "libClose"} => ctx.opened
  /\ owner \notin {"pktioShutdown", "pktioAborting", "handlerCleanup", "closed"} => ~ctx.closing

\* A task has the request mutex from its request to its release, and waits for a
\* response only while the reader was able to send one.
Requests ==
  \A t \in Tasks :
    /\ api[t] \in {"send", "waiting", "release"} <=> reqMutex = t
    /\ api[t] = "waiting" =>
         \/ owner \in Working \cup {"pktioAborting", "handlerCleanup"}
         \/ owner = "pktioWait" /\ reader[life] \in {"started", "wait", "handle"}

\* The types, with the context as a record.
Types ==
  /\ life \in 0 .. MaxLives
  /\ owner \in Bare \cup Queued \cup Working \cup {"pktioFailed", "pktioWait", "pktioAborting"}
  /\ ctx \in Contexts
  /\ reader \in [Lives -> {"none", "open", "started", "wait", "handle", "close", "aborted"}
                          \cup LastSteps \cup Ended]
  /\ api \in [Tasks -> {"idle", "checkOpened", "checkClosing", "acquire", "send", "waiting",
                        "release"}]
  /\ reqMutex \in Tasks \cup {NoTask}
  /\ answered \in BOOLEAN

IInv ==
  /\ Types /\ Nobody /\ Resources /\ Starting /\ Running /\ Stopping /\ Flags /\ Requests

\* The steps of Cellular_Init and Cellular_Cleanup.
LEMMA OwnerKeeps == ASSUME IInv, Owner PROVE IInv'
<1>. USE LifecycleAssumption
     DEF IInv, Types, Contexts, Nobody, Resources, Starting, Running, Stopping, Flags, Requests, Only,
         Past, Gone, Bare, Queued, Working, LastSteps, Ended, Lives, Events, FirstMutexes, Mutexes, OwnerStep
<1>1. CASE LibInit
  <2>. PICK created \in FirstMutexes :
         /\ OwnerStep("idle", IF created = Mutexes THEN "libOpen" ELSE "undo")
         /\ ctx' = [Blank EXCEPT !.allocated = TRUE, !.mutexes = created]
    BY <1>1 DEF LibInit
  <2>0. ctx' \in Contexts /\ ctx'.allocated /\ life' \in 1 .. MaxLives
    <3>1. life + 1 \in 1 .. MaxLives
      BY <1>1 DEF LibInit
    <3>2. ctx' \in Contexts /\ ctx'.allocated
      BY DEF Blank
    <3>. QED
      BY <1>1, <3>1, <3>2 DEF LibInit
  <2>1. Types'
    BY <1>1, <2>0 DEF LibInit
  <2>2. Nobody'
    BY <1>1 DEF LibInit, Blank
  <2>3. Resources'
    BY <1>1, <2>0 DEF LibInit, Blank
  <2>4. (Starting /\ Running /\ Stopping /\ Flags /\ Requests)'
    BY <1>1 DEF LibInit, Blank
  <2>. QED
    BY <2>1, <2>2, <2>3, <2>4
<1>2. CASE LibOpen
  <2>1. Types'
    <3>1. ctx' \in Contexts
      <4>. HIDE DEF FirstMutexes, Nobody, Resources, Starting, Running, Stopping, Flags, Requests
      <4>1. PICK created \in BOOLEAN : ctx' = [ctx EXCEPT !.shutdownCB = TRUE, !.queue = created]
        BY <1>2, Zenon DEF LibOpen
      <4>. QED
        BY <4>1
    <3>. QED
      BY <1>2, <3>1 DEF LibOpen
  <2>2. (Nobody /\ Resources /\ Starting /\ Running /\ Stopping /\ Flags /\ Requests)'
    BY <1>2 DEF LibOpen
  <2>. QED
    BY <2>1, <2>2
<1>3. CASE PktioInit
  <2>1. Types'
    <3>1. ctx' \in Contexts
      <4>. HIDE DEF FirstMutexes, Nobody, Resources, Starting, Running, Stopping, Flags, Requests
      <4>1. PICK group \in BOOLEAN :
              ctx' = [ctx EXCEPT !.pktioUp = FALSE, !.eventGroup = group, !.bits = {},
                                 !.handlePktCB = group]
        BY <1>3, Zenon DEF PktioInit
      <4>. QED
        BY <4>1
    <3>2. owner' \in Bare \cup Queued \cup {"pktioFailed", "pktioWait"}
      BY <1>3 DEF PktioInit
    <3>3. reader' \in [Lives -> {"none", "open", "started", "wait", "handle", "close", "aborted"}
                                \cup LastSteps \cup Ended]
      BY <1>3 DEF PktioInit
    <3>. QED
      BY <1>3, <3>1, <3>2, <3>3 DEF PktioInit
  <2>2. (Nobody /\ Resources /\ Starting /\ Running /\ Stopping /\ Flags /\ Requests)'
    BY <1>3 DEF PktioInit
  <2>. QED
    BY <2>1, <2>2
<1>4. CASE PktioStatus
  <2>1. Types'
    BY <1>4 DEF PktioStatus, ThreadUp
  <2>2. Nobody'
    BY <1>4 DEF PktioStatus, ThreadUp
  <2>3. (Resources /\ Starting)'
    BY <1>4 DEF PktioStatus, ThreadUp
  <2>4. (Running /\ Stopping /\ Flags /\ Requests)'
    BY <1>4 DEF PktioStatus, ThreadUp
  <2>. QED
    BY <2>1, <2>2, <2>3, <2>4
<1>5. CASE PktioFailed
  BY <1>5 DEF PktioFailed, Abandoned, QueueDeleted
<1>6. CASE Undo
  BY <1>6 DEF Undo, Destroyed
<1>7. CASE LibOpened
  <2>1. Types'
    BY <1>7 DEF LibOpened
  <2>3. (Nobody /\ Resources /\ Starting)'
    BY <1>7, SMTT(30) DEF LibOpened
  <2>2. (Running /\ Stopping /\ Flags /\ Requests)'
    BY <1>7, SMTT(30) DEF LibOpened
  <2>. QED
    BY <2>1, <2>2, <2>3
<1>8. CASE ModuleInit
  BY <1>8 DEF ModuleInit
<1>9. CASE Cleanup
  BY <1>9 DEF Cleanup
<1>10. CASE LibClose
  BY <1>10 DEF LibClose
<1>11. CASE PktioShutdown
  BY <1>11, SMTT(30) DEF PktioShutdown, StopEvent
<1>12. CASE PktioAborted
  <2>1. Types'
    BY <1>12 DEF PktioAborted, ReaderEnded
  <2>2. Nobody'
    BY <1>12 DEF PktioAborted, ReaderEnded
  <2>3. (Resources /\ Starting)'
    BY <1>12 DEF PktioAborted, ReaderEnded
  <2>4. (Running /\ Stopping /\ Flags /\ Requests)'
    BY <1>12 DEF PktioAborted, ReaderEnded
  <2>. QED
    BY <2>1, <2>2, <2>3, <2>4
<1>13. CASE HandlerCleanup
  <2>1. (Types /\ Nobody /\ Resources /\ Starting)'
    BY <1>13 DEF HandlerCleanup, QueueDeleted, NoHolder
  <2>2. (Running /\ Stopping /\ Flags /\ Requests)'
    BY <1>13 DEF HandlerCleanup, QueueDeleted, NoHolder
  <2>. QED
    BY <2>1, <2>2
<1>14. CASE LibClosed
  BY <1>14 DEF LibClosed
<1>15. CASE DestroyMutexes
  BY <1>15 DEF DestroyMutexes, Destroyed
<1>16. CASE FreeContext
  BY <1>16 DEF FreeContext
<1>. QED
  BY <1>1, <1>2, <1>3, <1>4, <1>5, <1>6, <1>7, <1>8, <1>9, <1>10, <1>11, <1>12, <1>13, <1>14, <1>15, <1>16 DEF Owner

\* The steps of the reader of any life.
LEMMA ReaderKeeps == ASSUME IInv, NEW l \in Lives, ReaderThread(l) PROVE IInv'
<1>. USE LifecycleAssumption
     DEF IInv, Types, Contexts, Nobody, Resources, Starting, Running, Stopping, Flags, Requests, Only,
         Past, Gone, Bare, Queued, Working, LastSteps, Ended, Lives, Events, FirstMutexes, Mutexes, ReaderStep,
         SetBits
<1>1. CASE ReaderOpen(l)
  <2>1. Types'
    <3>1. PICK success \in BOOLEAN : ctx' = [ctx EXCEPT !.commIntf = success]
      BY <1>1, Zenon DEF ReaderOpen
    <3>2. ctx' \in Contexts
      BY <3>1
    <3>3. life' = life /\ owner' = owner /\ api' = api /\ reqMutex' = reqMutex /\ answered' = answered
      BY <1>1, Zenon DEF ReaderOpen
    <3>4. reader' \in [Lives -> {"none", "open", "started", "wait", "handle", "close", "aborted"}
                                \cup LastSteps \cup Ended]
      BY <1>1 DEF ReaderOpen
    <3>. QED
      BY <3>2, <3>3, <3>4
  <2>2. Nobody'
    BY <1>1 DEF ReaderOpen
  <2>3. Resources'
    BY <1>1, SMTT(30) DEF ReaderOpen
  <2>4. Starting'
    BY <1>1, SMTT(30) DEF ReaderOpen
  <2>5. (Running /\ Stopping /\ Flags /\ Requests)'
    BY <1>1, SMTT(30) DEF ReaderOpen
  <2>. QED
    BY <2>1, <2>2, <2>3, <2>4, <2>5
<1>2. CASE ReaderStarted(l)
  <2>1. (Types /\ Nobody)'
    BY <1>2 DEF ReaderStarted
  <2>2. Resources'
    BY <1>2, SMTT(30) DEF ReaderStarted
  <2>3. Starting'
    BY <1>2, SMTT(30) DEF ReaderStarted
  <2>4. (Running /\ Stopping /\ Flags /\ Requests)'
    BY <1>2, SMTT(30) DEF ReaderStarted
  <2>. QED
    BY <2>1, <2>2, <2>3, <2>4
<1>3. CASE ReaderWait(l)
  <2>1. (Types /\ Nobody)'
    BY <1>3 DEF ReaderWait
  <2>2. (Resources /\ Starting)'
    BY <1>3 DEF ReaderWait
  <2>3. (Running /\ Stopping /\ Flags /\ Requests)'
    BY <1>3 DEF ReaderWait
  <2>. QED
    BY <2>1, <2>2, <2>3
<1>4. CASE ReaderHandle(l)
  <2>1. Types'
    <3>1. answered' \in BOOLEAN
      <4>1. answered \in BOOLEAN
        OBVIOUS
      <4>. QED
        BY <1>4, <4>1, Zenon DEF ReaderHandle
    <3>. QED
      BY <1>4, <3>1 DEF ReaderHandle
  <2>2. (Nobody /\ Resources /\ Starting /\ Running /\ Stopping /\ Flags /\ Requests)'
    BY <1>4 DEF ReaderHandle
  <2>. QED
    BY <2>1, <2>2
<1>5. CASE ReaderClose(l)
  <2>1. (Types /\ Nobody)'
    BY <1>5, ZenonT(60) DEF ReaderClose
  <2>2. (Resources /\ Starting)'
    BY <1>5 DEF ReaderClose
  <2>3. (Running /\ Stopping /\ Flags /\ Requests)'
    BY <1>5 DEF ReaderClose
  <2>. QED
    BY <2>1, <2>2, <2>3
<1>6. CASE ReaderAborted(l)
  <2>1. (Types /\ Nobody)'
    BY <1>6 DEF ReaderAborted
  <2>2. (Resources /\ Starting)'
    BY <1>6 DEF ReaderAborted
  <2>3. (Running /\ Stopping /\ Flags /\ Requests)'
    BY <1>6 DEF ReaderAborted
  <2>. QED
    BY <2>1, <2>2, <2>3
<1>7. CASE ReaderReadCB(l)
  BY <1>7 DEF ReaderReadCB
<1>8. CASE ReaderCallCB(l)
  <2>1. Types'
    BY <1>8 DEF ReaderCallCB
  <2>2. Nobody'
    BY <1>8 DEF ReaderCallCB
  <2>3. (Resources /\ Starting)'
    BY <1>8 DEF ReaderCallCB
  <2>4. (Running /\ Stopping /\ Flags /\ Requests)'
    BY <1>8 DEF ReaderCallCB
  <2>. QED
    BY <2>1, <2>2, <2>3, <2>4
<1>. QED
  BY <1>1, <1>2, <1>3, <1>4, <1>5, <1>6, <1>7, <1>8 DEF ReaderThread

\* The steps of a task that calls the library.
LEMMA TaskKeeps == ASSUME IInv, NEW t \in Tasks, Task(t) PROVE IInv'
<1>. USE LifecycleAssumption
     DEF IInv, Types, Contexts, Nobody, Resources, Starting, Running, Stopping, Flags, Requests, Only,
         Past, Gone, Bare, Queued, Working, LastSteps, Ended, Lives, Events, FirstMutexes, Mutexes, TaskStep
<1>1. CASE Call(t)
  BY <1>1 DEF Call
<1>2. CASE CheckOpened(t)
  BY <1>2 DEF CheckOpened
<1>3. CASE CheckClosing(t)
  BY <1>3 DEF CheckClosing
<1>4. CASE Acquire(t)
  BY <1>4 DEF Acquire
<1>5. CASE Send(t)
  <2>1. (Types /\ Nobody /\ Resources /\ Starting /\ Running /\ Stopping /\ Flags /\ Requests)'
    BY <1>5 DEF Send
  <2>. QED
    BY <2>1
<1>6. CASE Answered(t)
  <2>1. Types'
    <3>1. answered' = FALSE
      BY <1>6 DEF Answered
    <3>2. /\ life' = life /\ owner' = owner /\ reader' = reader /\ ctx' = ctx
          /\ reqMutex' = reqMutex
      BY <1>6, Zenon DEF Answered
    <3>3. api' \in [Tasks -> {"idle", "checkOpened", "checkClosing", "acquire", "send", "waiting",
                             "release"}]
      BY <1>6 DEF Answered
    <3>. HIDE DEF Contexts, Nobody, Resources, Starting, Running, Stopping, Flags, Requests
    <3>. QED
      BY <3>1, <3>2, <3>3
  <2>2. (Nobody /\ Resources /\ Starting /\ Running /\ Stopping /\ Flags /\ Requests)'
    BY <1>6 DEF Answered
  <2>. QED
    BY <2>1, <2>2
<1>7. CASE Timeout(t)
  BY <1>7 DEF Timeout
<1>8. CASE Release(t)
  BY <1>8 DEF Release
<1>. QED
  BY <1>1, <1>2, <1>3, <1>4, <1>5, <1>6, <1>7, <1>8 DEF Task

\* Every reachable state is as the invariant says, with the reader's priority or not.
LEMMA LifecycleInvariant == LifeSpec => []IInv
<1>1. LifeInit => IInv
  <2>. SUFFICES ASSUME LifeInit PROVE IInv
    OBVIOUS
  <2>. USE LifecycleAssumption DEF LifeInit, Blank
  <2>1. Types
    <3>1. ctx \in Contexts
      BY DEF Contexts, FirstMutexes, Events
    <3>2. /\ life \in 0 .. MaxLives /\ owner \in Bare
          /\ reader \in [Lives -> {"none"}] /\ api \in [Tasks -> {"idle"}]
      BY DEF Bare, Lives
    <3>. QED
      BY <3>1, <3>2 DEF Types
  <2>2. Nobody /\ Resources /\ Starting /\ Running /\ Stopping /\ Flags /\ Requests
    BY DEF Nobody, Resources, Starting, Running, Stopping, Flags, Requests, Past, Bare, Queued, Working
  <2>. QED
    BY <2>1, <2>2 DEF IInv
<1>2. IInv /\ [LifeNext]_lifeVars => IInv'
  <2>. SUFFICES ASSUME IInv, [LifeNext]_lifeVars PROVE IInv'
    OBVIOUS
  <2>. USE DEF IInv, Types, Contexts, Nobody, Resources, Starting, Running, Stopping, Flags, Requests,
           Only, Past, Gone, Bare, Queued, Working, LastSteps, Ended, Lives, Events
  <2>1. CASE RxData
    BY <2>1 DEF RxData, SetBits
  <2>2. CASE UNCHANGED lifeVars
    BY <2>2 DEF lifeVars
  <2>. QED
    BY <2>1, <2>2, OwnerKeeps, ReaderKeeps, TaskKeeps DEF LifeNext, Over
<1>. QED
  BY <1>1, <1>2, PTL DEF LifeSpec

-----------------------------------------------------------------------------
\* Type correctness.
THEOREM LifecycleTypes == LifeSpec => []LifeTypeOK
<1>1. IInv => LifeTypeOK
  <2>. SUFFICES ASSUME IInv PROVE LifeTypeOK
    OBVIOUS
  <2>1. /\ DOMAIN ctx = DOMAIN Blank /\ ctx.mutexes \in FirstMutexes /\ ctx.bits \subseteq Events
        /\ \A f \in DOMAIN Blank \ {"mutexes", "bits"} : ctx[f] \in BOOLEAN
    BY DEF IInv, Types, Contexts, Blank
  <2>. QED
    BY <2>1 DEF IInv, Types, LifeTypeOK, Bare, Queued, Working
<1>. QED
  BY <1>1, LifecycleInvariant, PTL

\* Nothing of a life is left when its owner is idle, whichever step of Cellular_Init
\* failed, and whatever priority the reader has.
THEOREM NothingLeft == LifeSpec => []AllReleased
<1>1. IInv => AllReleased
  BY DEF IInv, Nobody, Resources, AllReleased, Bare
<1>. QED
  BY <1>1, LifecycleInvariant, PTL

\* The response queue outlives whoever waits on it and the reader that posts to it,
\* whatever priority the reader has.
THEOREM QueueOutlivesItsUsers == LifeSpec => []QueueInUse
<1>1. IInv => QueueInUse
  BY DEF IInv, Types, Nobody, Resources, Starting, Running, Stopping, Requests, QueueInUse, Only, Past,
         Bare, Queued, Working, LastSteps, Ended
<1>. QED
  BY <1>1, LifecycleInvariant, PTL

\* A reader thread that has not announced its end has the context, the event group and
\* the packet callback of its own life, whichever life of the library it is.
THEOREM ReaderKeepsItsContext == LifeSpec => []ReaderHasItsContext
<1>1. IInv => ReaderHasItsContext
  BY DEF IInv, Types, Nobody, Resources, Starting, Running, Stopping, ReaderHasItsContext, Only, Past,
         Bare, Queued, Working
<1>. QED
  BY <1>1, LifecycleInvariant, PTL

-----------------------------------------------------------------------------
(* Who can have set bLibShutdown in an open library.                          *)

\* The lives to come have no reader yet.
ToCome == \A l \in Lives : l > life => reader[l] = "none"

Opened == {"moduleInit", "up", "libClose"}
Late == \E l \in Lives : l < life /\ reader[l] = "late"

ShutInv ==
  /\ ToCome
  /\ owner \in Opened /\ ctx.shutdown => Late

\* No reader begins before its life, and its steps begin where it is.
LEMMA ToComeKept == ASSUME IInv, ToCome, [LifeNext]_lifeVars PROVE ToCome'
<1>. USE DEF ToCome, Lives, IInv, Types
<1>1. CASE Owner
  <2>1. CASE LibInit
    BY <2>1 DEF LibInit
  <2>2. CASE PktioInit
    <3>1. life' = life /\ \A l \in Lives : l # life => reader'[l] = reader[l]
      BY <2>2 DEF PktioInit
    <3>. QED
      BY <3>1
  <2>3. CASE ~LibInit /\ ~PktioInit
    <3>1. life' = life /\ reader' = reader
      BY <1>1, <2>3, Zenon DEF Owner, LibOpen, PktioStatus, PktioFailed, Undo, LibOpened, ModuleInit,
         Cleanup, LibClose, PktioShutdown, PktioAborted, HandlerCleanup, LibClosed, DestroyMutexes,
         FreeContext
    <3>. QED
      BY <3>1
  <2>. QED
    BY <2>1, <2>2, <2>3
<1>2. ASSUME NEW k \in Lives, ReaderThread(k) PROVE ToCome'
  <2>1. life' = life /\ reader[k] # "none" /\ \A l \in Lives \ {k} : reader'[l] = reader[l]
    BY <1>2 DEF ReaderThread, ReaderStep, ReaderOpen, ReaderStarted, ReaderWait, ReaderHandle, ReaderClose,
       ReaderAborted, ReaderReadCB, ReaderCallCB
  <2>. QED
    BY <2>1
<1>3. CASE RxData
  BY <1>3 DEF RxData
<1>4. ASSUME NEW t \in Tasks, Task(t) PROVE ToCome'
  <2>1. life' = life /\ reader' = reader
    BY <1>4, Zenon DEF Task, TaskStep, Call, CheckOpened, CheckClosing, Acquire, Send, Answered,
       Timeout, Release
  <2>. QED
    BY <2>1
<1>5. CASE UNCHANGED lifeVars
  BY <1>5 DEF lifeVars
<1>. QED
  BY <1>1, <1>2, <1>3, <1>4, <1>5 DEF LifeNext, Over

\* The steps of the owner: LibOpened says that the library is not shut down.
LEMMA OwnerShut == ASSUME IInv, ShutInv, Owner PROVE owner' \in Opened /\ ctx'.shutdown => Late'
<1>. SUFFICES ASSUME owner' \in Opened, ctx'.shutdown PROVE Late'
  OBVIOUS
<1>. USE DEF Opened, OwnerStep, IInv, Types, Contexts
<1>1. ~LibOpened
  BY DEF LibOpened
<1>2. owner \in Opened /\ life' = life /\ reader' = reader /\ ctx'.shutdown = ctx.shutdown
  BY <1>1 DEF Owner, LibInit, LibOpen, PktioInit, PktioStatus, ThreadUp, PktioFailed, Undo, ModuleInit,
     Cleanup, LibClose, PktioShutdown, PktioAborted, HandlerCleanup, LibClosed, DestroyMutexes,
     FreeContext
<1>. QED
  BY <1>2 DEF ShutInv, Late

\* The steps of a reader: in an open library only that of an earlier life has its last
\* ones to make.
LEMMA ReaderShut ==
  ASSUME IInv, ShutInv, NEW k \in Lives, ReaderThread(k)
  PROVE  owner' \in Opened /\ ctx'.shutdown => Late'
<1>. SUFFICES ASSUME owner' \in Opened, ctx'.shutdown PROVE Late'
  OBVIOUS
<1>1. /\ life' = life /\ owner' = owner /\ reader[k] # "late"
      /\ \A l \in Lives \ {k} : reader'[l] = reader[l]
  BY DEF ReaderThread, ReaderStep, ReaderOpen, ReaderStarted, ReaderWait, ReaderHandle, ReaderClose,
     ReaderAborted, ReaderReadCB, ReaderCallCB, IInv, Types
<1>2. life \in Lives /\ reader[life] \in {"wait", "handle"} /\ reader[k] # "close"
  BY <1>1 DEF IInv, Running, Only, Working, Opened, Past, LastSteps, Ended
<1>3. CASE ReaderCallCB(k)
  <2>1. k # life /\ ~(k > life)
    BY <1>2, <1>3 DEF ReaderCallCB, ReaderStep, ShutInv, ToCome
  <2>2. reader'[k] = "late"
    BY <1>3, <2>1 DEF ReaderCallCB, ReaderStep, IInv, Types
  <2>3. k < life
    BY <1>2, <2>1 DEF Lives
  <2>. QED
    BY <1>1, <2>2, <2>3 DEF Late
<1>4. CASE ~ReaderCallCB(k)
  <2>1. ctx'.shutdown = ctx.shutdown
    BY <1>2, <1>4 DEF ReaderThread, ReaderStep, ReaderOpen, ReaderStarted, ReaderWait, ReaderHandle,
       ReaderClose, ReaderAborted, ReaderReadCB, SetBits, IInv, Types, Contexts
  <2>2. Late
    BY <1>1, <2>1 DEF ShutInv
  <2>. QED
    BY <1>1, <2>2 DEF Late
<1>. QED
  BY <1>3, <1>4

LEMMA ShutInvariant == LifeSpec => []ShutInv
<1>1. LifeInit => ShutInv
  BY DEF LifeInit, ShutInv, ToCome, Opened
<1>2. IInv /\ ShutInv /\ [LifeNext]_lifeVars => ShutInv'
  <2>. SUFFICES ASSUME IInv, ShutInv, [LifeNext]_lifeVars PROVE owner' \in Opened /\ ctx'.shutdown => Late'
    BY ToComeKept DEF ShutInv
  <2>1. CASE RxData
    BY <2>1 DEF RxData, SetBits, ShutInv, Late, IInv, Types, Contexts
  <2>2. ASSUME NEW t \in Tasks, Task(t) PROVE owner' \in Opened /\ ctx'.shutdown => Late'
    <3>1. life' = life /\ owner' = owner /\ ctx' = ctx /\ reader' = reader
      BY <2>2, Zenon DEF Task, TaskStep, Call, CheckOpened, CheckClosing, Acquire, Send, Answered,
         Timeout, Release
    <3>. QED
      BY <3>1 DEF ShutInv, Late
  <2>3. CASE UNCHANGED lifeVars
    BY <2>3 DEF lifeVars, ShutInv, Late
  <2>. QED
    BY <2>1, <2>2, <2>3, OwnerShut, ReaderShut DEF LifeNext, Over
<1>. QED
  BY <1>1, <1>2, LifecycleInvariant, PTL DEF LifeSpec

\* The library that Cellular_Init returns has its mutexes, its queue, its comm interface
\* and its reader, and is flagged as shut down only by the reader of an earlier life.
THEOREM UpIsUsable == LifeSpec => []UpMeansUsable
<1>1. IInv /\ ShutInv => UpMeansUsable
  <2>. SUFFICES ASSUME IInv, ShutInv, owner = "up" PROVE UpMeansUsable
    BY DEF UpMeansUsable
  <2>1. /\ ctx.opened /\ ~ctx.closing /\ ctx.mutexes = Mutexes /\ ctx.queue /\ ctx.commIntf
        /\ reader[life] \in {"wait", "handle"} /\ life \in Lives
    BY DEF IInv, Resources, Running, Flags, Only, Working, Queued
  <2>2. ctx.shutdown => \E l \in 1 .. life - 1 : reader[l] = "late"
    BY <2>1 DEF ShutInv, Opened, Late, Lives
  <2>. QED
    BY <2>1, <2>2 DEF UpMeansUsable
<1>. QED
  BY <1>1, LifecycleInvariant, ShutInvariant, PTL
=============================================================================
