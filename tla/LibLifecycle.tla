---------------------------- MODULE LibLifecycle ----------------------------
(***************************************************************************)
(* Opening and closing the library: Cellular_CommonInit and                *)
(* Cellular_CommonCleanup with everything they create and destroy          *)
(* (cellular_common.c, cellular_pktio.c, cellular_pkthandler.c), the       *)
(* reader thread they start and stop, and the tasks that call the library  *)
(* meanwhile, each behind _Cellular_CheckLibraryStatus.                    *)
(*                                                                         *)
(* The context is an entry of the static context table, so that every life *)
(* of the library uses the same memory; a reader thread belongs to the     *)
(* life that created it.  The sections under libStatusMutex are single     *)
(* steps: libOpen holds that mutex to its end, before anybody else knows   *)
(* the handle.  Nothing is assumed of the threads' priorities: the reader  *)
(* is created with the default one, and a caller may have any.             *)
(***************************************************************************)
EXTENDS Naturals, FiniteSets

CONSTANTS
  Tasks,           \* the tasks that call the library
  NoTask,          \* pktRequestMutex is free
  MaxLives         \* bound on the calls of Cellular_Init

ASSUME LifecycleAssumption ==
  /\ IsFiniteSet(Tasks) /\ NoTask \notin Tasks
  /\ MaxLives \in Nat \ {0}

Lives == 1 .. MaxLives
Mutexes == {"libStatus", "atData", "pktRequest", "pktResponse"}
\* The order in which _Cellular_LibInit creates them.
FirstMutexes == { {}, {"libStatus"}, {"libStatus", "atData"},
                  {"libStatus", "atData", "pktRequest"}, Mutexes }
Events == {"STARTED", "ABORT", "ABORTED", "RX_DATA"}   \* PKTIO_EVT_MASK_*

VARIABLES
  life,     \* the number of calls of Cellular_Init so far
  owner,    \* where the task is that calls Cellular_Init and Cellular_Cleanup
  ctx,      \* the context
  reader,   \* the reader thread of each life
  api,      \* where the calls of the tasks are
  reqMutex, \* the holder of pktRequestMutex
  answered  \* a response waits in pktRespQueue

lifeVars == <<life, owner, ctx, reader, api, reqMutex, answered>>

\* memset( pContext, 0, sizeof( CellularContext_t ) )
Blank == [allocated |-> FALSE, mutexes |-> {}, queue |-> FALSE,
          eventGroup |-> FALSE, bits |-> {}, handlePktCB |-> FALSE,
          shutdownCB |-> FALSE, pktioUp |-> FALSE, commIntf |-> FALSE,
          opened |-> FALSE, shutdown |-> FALSE, closing |-> FALSE]

LifeInit ==
  /\ life = 0
  /\ owner = "idle"
  /\ ctx = Blank
  /\ reader = [l \in Lives |-> "none"]
  /\ api = [t \in Tasks |-> "idle"]
  /\ reqMutex = NoTask
  /\ answered = FALSE

\* The last steps of a reader thread, after ABORTED.
LastSteps == {"readCB", "callCB"}

\* The reader thread is over; "late" is history: its last call of the shutdown callback
\* came in a life that was not its own.
Ended == {"done", "late"}

OwnerStep(from, to) ==
  /\ owner = from
  /\ owner' = to
  /\ UNCHANGED <<api, reqMutex, answered>>

-----------------------------------------------------------------------------
(* Cellular_CommonInit.                                                    *)

\* _Cellular_AllocContext and the four mutexes, or as many as can be created.
LibInit ==
  /\ life < MaxLives
  /\ life' = life + 1
  /\ \E created \in FirstMutexes :
       /\ OwnerStep("idle", IF created = Mutexes THEN "libOpen" ELSE "undo")
       /\ ctx' = [Blank EXCEPT !.allocated = TRUE, !.mutexes = created]
  /\ UNCHANGED reader

\* libOpen up to the response queue.
LibOpen ==
  \E created \in BOOLEAN :
    /\ OwnerStep("libOpen", IF created THEN "pktioInit" ELSE "undo")
    /\ ctx' = [ctx EXCEPT !.shutdownCB = TRUE, !.queue = created]
    /\ UNCHANGED <<life, reader>>

\* _Cellular_PktioInit: the event group and the reader thread.
PktioInit ==
  \E group, thread \in BOOLEAN :
    /\ thread => group
    /\ OwnerStep("pktioInit", IF thread THEN "pktioWait" ELSE "pktioFailed")
    /\ ctx' = [ctx EXCEPT !.pktioUp = FALSE, !.eventGroup = group, !.bits = {},
                          !.handlePktCB = group]
    /\ reader' = IF thread THEN [reader EXCEPT ![life] = "open"] ELSE reader
    /\ UNCHANGED life

\* Mutant: either event means that the thread is up.
EitherMeansUp == TRUE

ThreadUp == "ABORTED" \notin ctx.bits

\* _PktioInitProcessReadThreadStatus waits for STARTED or ABORTED, clearing them.
PktioStatus ==
  /\ ctx.bits \cap {"STARTED", "ABORTED"} # {}
  /\ OwnerStep("pktioWait", IF ThreadUp THEN "libOpened" ELSE "pktioFailed")
  /\ ctx' = [ctx EXCEPT !.bits = @ \ {"STARTED", "ABORTED"}, !.pktioUp = ThreadUp]
  /\ UNCHANGED <<life, reader>>

\* The end of _Cellular_PktioInit on failure.
Abandoned == [ctx EXCEPT !.handlePktCB = FALSE, !.eventGroup = FALSE, !.bits = {}]

\* Mutant: the response queue is left behind.
QueueKept(c) == c

\* _Cellular_PktHandlerCleanup deletes the queue.
QueueDeleted(c) == [c EXCEPT !.queue = FALSE]

\* libOpen cleans up (_Cellular_PktioShutdown returns at once: pktioUp is false).
PktioFailed ==
  /\ OwnerStep("pktioFailed", "undo")
  /\ ctx' = QueueDeleted(Abandoned)
  /\ UNCHANGED <<life, reader>>

\* Mutant: the mutex of libAtData is forgotten.
AtDataKept == {"atData"}

Destroyed == {}

\* _Cellular_LibInit after a failure: the mutexes created so far are destroyed
\* and the context is freed.
Undo ==
  /\ OwnerStep("undo", "idle")
  /\ ctx' = [ctx EXCEPT !.mutexes = Destroyed, !.allocated = FALSE]
  /\ UNCHANGED <<life, reader>>

LibOpened ==
  /\ OwnerStep("libOpened", "moduleInit")
  /\ ctx' = [ctx EXCEPT !.opened = TRUE, !.shutdown = FALSE]
  /\ UNCHANGED <<life, reader>>

\* The module port succeeds, and the caller gets the handle, or it fails and
\* everything is cleaned up.
ModuleInit ==
  \E success \in BOOLEAN :
    /\ OwnerStep("moduleInit", IF success THEN "up" ELSE "libClose")
    /\ UNCHANGED <<life, ctx, reader>>

-----------------------------------------------------------------------------
(* Cellular_CommonCleanup.                                                 *)

Cleanup ==
  /\ OwnerStep("up", "libClose")
  /\ UNCHANGED <<life, ctx, reader>>

LibClose ==
  /\ OwnerStep("libClose", IF ctx.opened THEN "pktioShutdown" ELSE "closed")
  /\ ctx' = [ctx EXCEPT !.closing = TRUE]
  /\ UNCHANGED <<life, reader>>

\* Mutant: the reader is told with an event it does not wait for.
StopsNobody == {"STARTED"}

StopEvent == {"ABORT"}

\* _Cellular_PktioShutdown,
PktioShutdown ==
  /\ OwnerStep("pktioShutdown", IF ctx.pktioUp THEN "pktioAborting" ELSE "handlerCleanup")
  /\ ctx' = IF ctx.pktioUp THEN [ctx EXCEPT !.bits = @ \cup StopEvent] ELSE ctx
  /\ UNCHANGED <<life, reader>>

\* Mutant: the reader has only seen the event.
AbortSeen == "ABORT" \notin ctx.bits

ReaderEnded == "ABORTED" \in ctx.bits

\* which polls the event group until the reader has ended.
PktioAborted ==
  /\ ReaderEnded
  /\ OwnerStep("pktioAborting", "handlerCleanup")
  /\ ctx' = [ctx EXCEPT !.eventGroup = FALSE, !.bits = {}, !.handlePktCB = FALSE,
                        !.pktioUp = FALSE]
  /\ UNCHANGED <<life, reader>>

\* Mutant: the queue is deleted whoever holds the request mutex.
AnyHolder == TRUE

NoHolder == reqMutex = NoTask

\* _Cellular_PktHandlerCleanup waits for the request under way to finish.
HandlerCleanup ==
  /\ NoHolder
  /\ OwnerStep("handlerCleanup", "closed")
  /\ ctx' = QueueDeleted(ctx)
  /\ UNCHANGED <<life, reader>>

LibClosed ==
  /\ OwnerStep("closed", "destroy")
  /\ ctx' = [ctx EXCEPT !.shutdown = FALSE, !.opened = FALSE, !.closing = FALSE]
  /\ UNCHANGED <<life, reader>>

\* The rest of _Cellular_LibCleanup.
DestroyMutexes ==
  /\ OwnerStep("destroy", "free")
  /\ ctx' = [ctx EXCEPT !.mutexes = Destroyed]
  /\ UNCHANGED <<life, reader>>

FreeContext ==
  /\ OwnerStep("free", "idle")
  /\ ctx' = [ctx EXCEPT !.allocated = FALSE]
  /\ UNCHANGED <<life, reader>>

Owner ==
  \/ LibInit \/ LibOpen \/ PktioInit \/ PktioStatus \/ PktioFailed \/ Undo
  \/ LibOpened \/ ModuleInit \/ Cleanup \/ LibClose \/ PktioShutdown \/ PktioAborted
  \/ HandlerCleanup \/ LibClosed \/ DestroyMutexes \/ FreeContext

-----------------------------------------------------------------------------
(* _pktioReadThread.                                                       *)

ReaderStep(l, from, to) ==
  /\ reader[l] = from
  /\ reader' = [reader EXCEPT ![l] = to]
  /\ UNCHANGED <<life, owner, api, reqMutex>>

SetBits(events) == ctx' = [ctx EXCEPT !.bits = @ \cup events]

\* The comm interface is opened, or "Comm port open failed".
ReaderOpen(l) ==
  \E success \in BOOLEAN :
    /\ ReaderStep(l, "open", IF success THEN "started" ELSE "aborted")
    /\ ctx' = [ctx EXCEPT !.commIntf = success]
    /\ UNCHANGED answered

ReaderStarted(l) ==
  /\ ReaderStep(l, "started", "wait")
  /\ SetBits({"STARTED"})
  /\ UNCHANGED answered

\* Data arrives: _Cellular_PktRxCallBack, from an interrupt.
RxData ==
  /\ ctx.commIntf /\ ctx.eventGroup
  /\ SetBits({"RX_DATA"})
  /\ UNCHANGED <<life, owner, reader, api, reqMutex, answered>>

\* PlatformEventGroup_WaitBits clears both events, ABORT comes first.
ReaderWait(l) ==
  /\ ctx.bits \cap {"ABORT", "RX_DATA"} # {}
  /\ ReaderStep(l, "wait", IF "ABORT" \in ctx.bits THEN "close" ELSE "handle")
  /\ ctx' = [ctx EXCEPT !.bits = @ \ {"ABORT", "RX_DATA"}]
  /\ UNCHANGED answered

\* The bytes received are handled: unsolicited, or a response to the task that
\* waits for one.
ReaderHandle(l) ==
  /\ ReaderStep(l, "handle", "wait")
  /\ answered' \in {answered, ctx.queue /\ \E t \in Tasks : api[t] = "waiting"}
  /\ UNCHANGED ctx

\* The comm interface is closed and the shutdown callback called.
ReaderClose(l) ==
  /\ ReaderStep(l, "close", "aborted")
  /\ ctx' = [ctx EXCEPT !.commIntf = FALSE, !.shutdown = TRUE]
  /\ UNCHANGED answered

\* Mutant: the end of the thread is not announced.
ReaderEndsSilently(l) ==
  /\ ReaderStep(l, "aborted", "readCB")
  /\ UNCHANGED <<ctx, answered>>

ReaderAborted(l) ==
  /\ ReaderStep(l, "aborted", "readCB")
  /\ SetBits({"ABORTED"})
  /\ UNCHANGED answered

\* The thread is not over: it reads pPktioShutdownCB
ReaderReadCB(l) ==
  /\ ReaderStep(l, "readCB", IF ctx.shutdownCB THEN "callCB" ELSE "done")
  /\ UNCHANGED <<ctx, answered>>

\* and calls it, which sets bLibShutdown in the life there is by now.
ReaderCallCB(l) ==
  /\ ReaderStep(l, "callCB", IF life = l THEN "done" ELSE "late")
  /\ ctx' = [ctx EXCEPT !.shutdown = TRUE]
  /\ UNCHANGED answered

ReaderThread(l) ==
  \/ ReaderOpen(l) \/ ReaderStarted(l) \/ ReaderWait(l) \/ ReaderHandle(l)
  \/ ReaderClose(l) \/ ReaderAborted(l) \/ ReaderReadCB(l) \/ ReaderCallCB(l)

-----------------------------------------------------------------------------
(* A call of the library that makes one AT request.                        *)

TaskStep(t, from, to) ==
  /\ api[t] = from
  /\ api' = [api EXCEPT ![t] = to]
  /\ UNCHANGED <<life, owner, ctx, reader>>

Closing == {"libClose", "pktioShutdown", "pktioAborting", "handlerCleanup", "closed"}

Call(t) ==
  /\ owner \in {"up"} \cup Closing
  /\ TaskStep(t, "idle", "checkOpened")
  /\ UNCHANGED <<reqMutex, answered>>

\* The two sections of _Cellular_CheckLibraryStatus.
CheckOpened(t) ==
  /\ "libStatus" \in ctx.mutexes
  /\ TaskStep(t, "checkOpened", IF ctx.opened THEN "checkClosing" ELSE "idle")
  /\ UNCHANGED <<reqMutex, answered>>

CheckClosing(t) ==
  /\ "libStatus" \in ctx.mutexes
  /\ TaskStep(t, "checkClosing",
              IF ctx.shutdown \/ ctx.closing THEN "idle" ELSE "acquire")
  /\ UNCHANGED <<reqMutex, answered>>

Acquire(t) ==
  /\ "pktRequest" \in ctx.mutexes
  /\ reqMutex = NoTask
  /\ TaskStep(t, "acquire", "send")
  /\ reqMutex' = t
  /\ UNCHANGED answered

\* _Cellular_PktioSendAtCmd refuses when the comm interface is closed.
Send(t) ==
  /\ TaskStep(t, "send", IF ctx.commIntf THEN "waiting" ELSE "release")
  /\ UNCHANGED <<reqMutex, answered>>

Answered(t) ==
  /\ answered
  /\ TaskStep(t, "waiting", "release")
  /\ answered' = FALSE
  /\ UNCHANGED reqMutex

Timeout(t) ==
  /\ ~answered
  /\ TaskStep(t, "waiting", "release")
  /\ UNCHANGED <<reqMutex, answered>>

Release(t) ==
  /\ TaskStep(t, "release", "idle")
  /\ reqMutex' = NoTask
  /\ UNCHANGED answered

Task(t) ==
  \/ Call(t) \/ CheckOpened(t) \/ CheckClosing(t) \/ Acquire(t) \/ Send(t)
  \/ Answered(t) \/ Timeout(t) \/ Release(t)

\* The last life is over.
Over == owner = "idle" /\ life = MaxLives /\ UNCHANGED lifeVars

LifeNext ==
  \/ Owner
  \/ \E l \in Lives : ReaderThread(l)
  \/ RxData
  \/ \E t \in Tasks : Task(t)
  \/ Over

LifeSpec == LifeInit /\ [][LifeNext]_lifeVars

\* Every thread is scheduled, and a call once made goes on; nobody has to call.
\* The reader must be let to its "wait" again and again while data arrives, and
\* the request mutex is given to the owner in the end.
FairLifeSpec ==
  /\ LifeSpec
  /\ WF_lifeVars(Owner /\ owner # "up" /\ owner # "idle")
  /\ \A l \in Lives : WF_lifeVars(ReaderThread(l))
  /\ \A t \in Tasks : WF_lifeVars(Task(t) /\ api[t] # "idle")

-----------------------------------------------------------------------------
(* Properties.                                                             *)

LifeTypeOK ==
  /\ life \in 0 .. MaxLives
  /\ owner \in {"idle", "libOpen", "pktioInit", "pktioWait", "pktioFailed", "undo",
                "libOpened", "moduleInit", "up", "libClose", "pktioShutdown",
                "pktioAborting", "handlerCleanup", "closed", "destroy", "free"}
  /\ DOMAIN ctx = DOMAIN Blank
  /\ ctx.mutexes \in FirstMutexes
  /\ ctx.bits \subseteq Events
  /\ \A f \in DOMAIN Blank \ {"mutexes", "bits"} : ctx[f] \in BOOLEAN
  /\ reader \in [Lives -> {"none", "open", "started", "wait", "handle", "close",
                           "aborted"} \cup LastSteps \cup Ended]
  /\ api \in [Tasks -> {"idle", "checkOpened", "checkClosing", "acquire", "send",
                        "waiting", "release"}]
  /\ reqMutex \in Tasks \cup {NoTask}
  /\ answered \in BOOLEAN

\* Whatever fails in Cellular_Init, and when Cellular_Cleanup returns, nothing of
\* that life is left: no queue, no event group, no mutex, no open comm interface.
AllReleased ==
  owner = "idle" =>
    /\ ~ctx.allocated /\ ctx.mutexes = {}
    /\ ~ctx.queue /\ ~ctx.eventGroup /\ ~ctx.commIntf

\* A reader thread that has not announced its end with ABORTED works in a context
\* that is allocated, for the life it was created in, and with an event group to wait
\* on: neither a failed opening nor a closing takes them from under it.  (What it does
\* after ABORTED has no such promise: UpNotShutDown.)
ReaderHasItsContext ==
  \A l \in Lives : reader[l] \notin {"none"} \cup LastSteps \cup Ended =>
    ctx.allocated /\ life = l /\ ctx.eventGroup /\ ctx.handlePktCB

\* A response queue is not deleted under the task that waits on it, nor under the
\* reader that posts to it: "Wait for response to finish".
QueueInUse ==
  /\ \A t \in Tasks : api[t] = "waiting" => ctx.queue
  /\ \A l \in Lives : reader[l] = "handle" => ctx.queue /\ ctx.handlePktCB

\* When Cellular_Init has returned a handle, calls have all they use and somebody to
\* answer them: the mutexes and the queue exist, the comm interface is open, the reader
\* of this life is running, no closing is under way, and the library says that it was
\* shut down only if the reader of an earlier life called back in a later one.
UpMeansUsable ==
  owner = "up" => /\ ctx.opened /\ ~ctx.closing
                  /\ ctx.mutexes = Mutexes /\ ctx.queue /\ ctx.commIntf
                  /\ reader[life] \in {"wait", "handle"}
                  /\ ctx.shutdown => \E l \in 1 .. life - 1 : reader[l] = "late"

\* "CellularLib prematurely shut down": a library that has just been opened, and whose
\* comm interface is open, does not say so and refuse every call.
UpNotShutDown == owner = "up" => ~ctx.shutdown

\* Cellular_Init and Cellular_Cleanup return: neither waits for ever for the reader,
\* for its start or its end, or for a request that holds the request mutex.
CleanupReturns == owner = "libClose" ~> owner = "idle"
InitReturns == owner = "libOpen" ~> owner \in {"up", "idle"}
=============================================================================
