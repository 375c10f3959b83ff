----------------------------- MODULE PktRequest -----------------------------
(***************************************************************************)
(* The AT request/response protocol of the packet layer.                   *)
(*                                                                         *)
(* Application tasks call the request functions of cellular_pkthandler.c   *)
(* and wait, one at a time, on a response queue of depth one; the pktio    *)
(* reader thread of cellular_pktio.c classifies every line the modem sends *)
(* and posts the status of a finished command to that queue.  The two      *)
(* sides share the fields of the cellular context collected in ctx.        *)
(*                                                                         *)
(* Grain: a section of code under PktRespMutex is one step; every read the *)
(* reader makes of the context without that mutex is a step of its own.    *)
(* An exchange is one command (or one data block) and the answer awaited   *)
(* for it; exchanges are numbered in the order in which they begin, 0 is   *)
(* NULL.  A number stands for the callback, the user data and the AT       *)
(* string of the exchange: they live in the frame of the waiting task.     *)
(***************************************************************************)
EXTENDS Integers, Sequences, FiniteSets

CONSTANTS
  Tasks,          \* application tasks
  NoTask,         \* nobody holds the request mutex
  Commands,       \* the requests the tasks may make, a set of records
  Prefixes,       \* prefixes of response lines, "+CREG:" and the like
  NoPrefix,       \* the line, or the request, has no prefix
  UrcPrefixes,    \* prefixes of the lines the modem sends on its own
  MaxCalls,       \* bound on the calls of the request functions
  MaxRx,          \* bound on the lines waiting in the comm interface
  MaxLines,       \* bound on the intermediate lines of one answer
  MaxUrcs,        \* bound on the lines the modem sends on its own
  EarlyTimeout,   \* TRUE: a wait may expire while the answer is on its way
  ShortSend,      \* TRUE: the comm interface may send less than asked
  BreakOff,       \* TRUE: the modem may fall silent in the middle of an answer
  Noise,          \* TRUE: the modem may send lines nobody has asked for
  UndefinedHandled \* what undefinedRespCallback may answer, a set of BOOLEANs

AtTypes == {"NO_RESULT", "WO_PREFIX", "WITH_PREFIX", "MULTI_WITH_PREFIX",
            "MULTI_WO_PREFIX", "MULTI_DATA_WO_PREFIX",
            "WO_PREFIX_NO_RESULT_CODE", "WITH_PREFIX_NO_RESULT_CODE",
            "NO_COMMAND"}

\* The request functions; they differ in what they register around the wait.
Apis == {"cmd", "successToken", "dataRecv", "dataSend", "dataSendToken"}

Statuses == {"OK", "FAILURE", "TIMED_OUT", "BAD_REQUEST", "BAD_PARAM",
             "INVALID_HANDLE", "SEND_ERROR"}

Command == [api : Apis, at : BOOLEAN, type : AtTypes,
            prefix : Prefixes \cup {NoPrefix}, cb : BOOLEAN, data : BOOLEAN]

ASSUME ConstantsAssumption ==
  /\ NoTask \notin Tasks
  /\ NoPrefix \notin Prefixes
  /\ Commands \subseteq Command
  /\ UrcPrefixes \subseteq Prefixes
  /\ MaxCalls \in Nat /\ MaxRx \in Nat /\ MaxLines \in Nat
  /\ MaxUrcs \in Nat
  /\ EarlyTimeout \in BOOLEAN /\ ShortSend \in BOOLEAN 
  /\ BreakOff \in BOOLEAN /\ Noise \in BOOLEAN
  /\ UndefinedHandled \subseteq BOOLEAN

VARIABLES
  reqMutex,   \* pktRequestMutex: the task that holds it, or NoTask
  pc,         \* where each task is in its request function
  cmd,        \* the request each task makes
  st,         \* pktStatus, the local status of each task
  calls,      \* number of calls made so far (bounded by MaxCalls)
  exch,       \* number of exchanges begun so far
  ctx,        \* the fields of CellularContext_t the two sides share
  respQueue,  \* pktRespQueue
  served,     \* the last status a task took from pktRespQueue
  atResp,     \* pAtCmdResp, the response being collected; NULL is as good as empty
  rd,         \* the reader thread and its locals
  rx,         \* lines received, not yet processed
  toModem,    \* what the modem has been sent and has not begun to execute
  modem,      \* what the modem executes
  commOpen    \* hPktioCommIntf # NULL

taskVars  == <<reqMutex, pc, cmd, st, calls, exch, served>>
modemVars == <<toModem, modem>>
vars == <<reqMutex, pc, cmd, st, calls, exch, ctx, respQueue, served, atResp,
          rd, rx, toModem, modem, commOpen>>

NoCmd  == [api |-> "cmd", at |-> FALSE, type |-> "NO_COMMAND",
           prefix |-> NoPrefix, cb |-> FALSE, data |-> FALSE]
NoLine == [src |-> "urc", tok |-> "text", prefix |-> NoPrefix, x |-> 0]
NoResp == [lines |-> <<>>, status |-> FALSE]

\* The reader between two lines: its locals are dead.
ReaderIdle == [pc |-> "idle", line |-> NoLine, prefixCB |-> 0,
               hasPrefix |-> FALSE, type |-> "NO_COMMAND", status |-> "OK",
               cb |-> 0, usr |-> 0]

Init ==
  /\ reqMutex = NoTask
  /\ pc = [t \in Tasks |-> "idle"]
  /\ cmd = [t \in Tasks |-> NoCmd]
  /\ st = [t \in Tasks |-> "OK"]
  /\ calls = 0 /\ exch = 0
  /\ ctx = [pktRespCB |-> 0, pPktUsrData |-> 0, pCurrentCmd |-> 0,
            PktioAtCmdType |-> "NO_COMMAND", pRespPrefix |-> FALSE,
            pktRespPrefixBuf |-> NoPrefix, extraTable |-> 0,
            pktDataPrefixCB |-> 0, pktDataSendPrefixCB |-> 0]
  /\ respQueue = <<>>
  /\ served = [x |-> 0, src |-> "answer", from |-> 0]
  /\ atResp = NoResp
  /\ rd = ReaderIdle
  /\ rx = <<>> /\ toModem = <<>>
  /\ modem = [busy |-> FALSE, x |-> 0, cmd |-> NoCmd, lines |-> 0, urcs |-> 0]
  /\ commOpen = TRUE

-----------------------------------------------------------------------------
(* The requesting task.                                                    *)

Goto(t, label) == pc' = [pc EXCEPT ![t] = label]

\* A task calls one of the request functions.
Call(t, c) ==
  /\ pc[t] = "idle"
  /\ calls < MaxCalls
  /\ calls' = calls + 1
  /\ cmd' = [cmd EXCEPT ![t] = c]
  /\ Goto(t, "lock")
  /\ UNCHANGED <<reqMutex, st, exch, ctx, respQueue, served, atResp, rd, rx,
                 toModem, modem, commOpen>>

\* Where the task goes once nothing is registered any more.
AfterRegister(c) == IF c.at THEN "fill" ELSE "badRequest"

AcquirePktRequestMutex(t) ==
  /\ pc[t] = "lock"
  /\ reqMutex = NoTask
  /\ reqMutex' = t
  /\ Goto(t, IF cmd[t].api = "cmd" THEN AfterRegister(cmd[t]) ELSE "register")
  /\ UNCHANGED <<cmd, st, calls, exch, ctx, respQueue, served, atResp, rd, rx,
                 toModem, modem, commOpen>>

\* The success tokens or the data prefix callback of this request; the context
\* they carry belongs to the exchange to begin.
Registered(api) ==
  CASE api \in {"successToken", "dataSendToken"} -> [ctx EXCEPT !.extraTable = exch + 1]
    [] api = "dataRecv" -> [ctx EXCEPT !.pktDataPrefixCB = exch + 1]
    [] api = "dataSend" -> [ctx EXCEPT !.pktDataSendPrefixCB = exch + 1]
    [] OTHER -> ctx

Register(t) ==
  /\ pc[t] = "register"
  /\ ctx' = Registered(cmd[t].api)
  /\ Goto(t, AfterRegister(cmd[t]))
  /\ UNCHANGED <<reqMutex, cmd, st, calls, exch, respQueue, served, atResp, rd,
                 rx, toModem, modem, commOpen>>

\* Where the task goes when the command part of the request is over.
AfterCommand(c) == IF c.api = "cmd" THEN "release" ELSE "unregister"

\* pAtCmd is NULL: nothing is filled in and nothing is sent.
NullCommand(t) ==
  /\ pc[t] = "badRequest"
  /\ st' = [st EXCEPT ![t] = "BAD_REQUEST"]
  /\ Goto(t, AfterCommand(cmd[t]))
  /\ UNCHANGED <<reqMutex, cmd, calls, exch, ctx, respQueue, served, atResp, rd,
                 rx, toModem, modem, commOpen>>

\* Mutant: the user data of the last request that had a callback is kept.
FilledUserDataOnce(c) ==
  [ctx EXCEPT !.pktRespCB = IF c.cb THEN exch + 1 ELSE 0,
              !.pPktUsrData = IF @ = 0 THEN exch + 1 ELSE @,
              !.pCurrentCmd = exch + 1]

\* "Fill in request info structure".
Filled(c) == [ctx EXCEPT !.pktRespCB = IF c.cb THEN exch + 1 ELSE 0,
                         !.pPktUsrData = exch + 1,
                         !.pCurrentCmd = exch + 1]

\* An exchange begins.
FillRequest(t) ==
  /\ pc[t] = "fill"
  /\ exch' = exch + 1
  /\ ctx' = Filled(cmd[t])
  /\ Goto(t, "checkComm")
  /\ UNCHANGED <<reqMutex, cmd, st, calls, respQueue, served, atResp, rd, rx,
                 toModem, modem, commOpen>>

\* _Cellular_PktioSendAtCmd looks at hPktioCommIntf without the mutex.
CheckComm(t) ==
  /\ pc[t] = "checkComm"
  /\ IF commOpen
     THEN /\ Goto(t, "setType")
          /\ st' = st
     ELSE /\ Goto(t, "finish")
          /\ st' = [st EXCEPT ![t] = "INVALID_HANDLE"]
  /\ UNCHANGED <<reqMutex, cmd, calls, exch, ctx, respQueue, served, atResp, rd,
                 rx, toModem, modem, commOpen>>

NeedsPrefix == {"WITH_PREFIX", "MULTI_WITH_PREFIX", "WITH_PREFIX_NO_RESULT_CODE"}
MayHavePrefix == {"MULTI_WO_PREFIX", "MULTI_DATA_WO_PREFIX"}

BadType(c) == \/ c.type = "NO_COMMAND"
              \/ (c.type \in NeedsPrefix /\ c.prefix = NoPrefix)

UsesPrefix(c) == c.type \in (NeedsPrefix \cup MayHavePrefix) /\ c.prefix # NoPrefix

\* _setPrefixByAtCommandType and the type, in one section under PktRespMutex.
SetPrefixAndType(t) ==
  /\ pc[t] = "setType"
  /\ IF BadType(cmd[t])
     THEN /\ st' = [st EXCEPT ![t] = "BAD_PARAM"]
          /\ ctx' = ctx
          /\ Goto(t, "finish")
     ELSE /\ st' = st
          /\ ctx' = [ctx EXCEPT
                       !.PktioAtCmdType = cmd[t].type,
                       !.pRespPrefix = UsesPrefix(cmd[t]),
                       !.pktRespPrefixBuf = IF UsesPrefix(cmd[t])
                                            THEN cmd[t].prefix ELSE @]
          /\ Goto(t, "commSend")
  /\ UNCHANGED <<reqMutex, cmd, calls, exch, respQueue, served, atResp, rd, rx,
                 toModem, modem, commOpen>>

Message(c, part) == [x |-> exch, cmd |-> c, part |-> part]

\* The result of the send is ignored: the command may never reach the modem.
CommSend(t) ==
  /\ pc[t] = "commSend"
  /\ \/ /\ commOpen
        /\ toModem' = Append(toModem, Message(cmd[t], "cmd"))
     \/ /\ ShortSend \/ ~commOpen
        /\ UNCHANGED toModem
  /\ Goto(t, "wait")
  /\ UNCHANGED <<reqMutex, cmd, st, calls, exch, ctx, respQueue, served, atResp,
                 rd, rx, modem, commOpen>>

\* Mutant: the status is looked at and left in the queue.
PeekedQueue == respQueue

\* The queue after PlatformQueue_Receive.
ReceivedQueue == Tail(respQueue)

\* PlatformQueue_Receive returns a status in time.
Receive(t) ==
  /\ pc[t] \in {"wait", "dataWait"}
  /\ respQueue # <<>>
  /\ respQueue' = ReceivedQueue
  /\ st' = [st EXCEPT ![t] = Head(respQueue).status]
  /\ served' = [x |-> exch, src |-> Head(respQueue).src,
                from |-> Head(respQueue).x]
  /\ Goto(t, IF pc[t] = "wait" THEN "finish" ELSE "dataFinish")
  /\ UNCHANGED <<reqMutex, cmd, calls, exch, ctx, atResp, rd, rx, toModem,
                 modem, commOpen>>

\* No answer is on its way to the queue.
NothingInFlight ==
  \/ rd.pc \in {"stopped", "fault"}
  \/ (rd.pc = "idle" /\ rx = <<>> /\ toModem = <<>> /\ ~modem.busy)

\* Mutant: the wait has no timeout.
WaitsForever == FALSE

\* The wait is over, answer or no answer.
WaitExpires == EarlyTimeout \/ NothingInFlight

\* PlatformQueue_Receive times out on an empty queue.
Timeout(t) ==
  /\ pc[t] \in {"wait", "dataWait"}
  /\ respQueue = <<>>
  /\ WaitExpires
  /\ st' = [st EXCEPT ![t] = "TIMED_OUT"]
  /\ Goto(t, IF pc[t] = "wait" THEN "finish" ELSE "dataFinish")
  /\ UNCHANGED <<reqMutex, cmd, calls, exch, ctx, respQueue, served, atResp, rd,
                 rx, toModem, modem, commOpen>>

\* Mutant: the type is left to the reader, which resets it with the answer.
FinishedKeepsType == [ctx EXCEPT !.pktRespCB = 0, !.pCurrentCmd = 0]

\* "No command is waiting response."
Finished == [ctx EXCEPT !.PktioAtCmdType = "NO_COMMAND",
                        !.pktRespCB = 0, !.pCurrentCmd = 0]

FinishCommand(t) ==
  /\ pc[t] = "finish"
  /\ ctx' = Finished
  /\ Goto(t, AfterCommand(cmd[t]))
  /\ UNCHANGED <<reqMutex, cmd, st, calls, exch, respQueue, served, atResp, rd,
                 rx, toModem, modem, commOpen>>

\* Mutant: the data send prefix callback is kept for the data to come.
UnregisteredKeepsPrefix(api) ==
  CASE api \in {"successToken", "dataSendToken"} -> [ctx EXCEPT !.extraTable = 0]
    [] api = "dataRecv" -> [ctx EXCEPT !.pktDataPrefixCB = 0]
    [] OTHER -> ctx

Unregistered(api) ==
  CASE api \in {"successToken", "dataSendToken"} -> [ctx EXCEPT !.extraTable = 0]
    [] api = "dataRecv" -> [ctx EXCEPT !.pktDataPrefixCB = 0]
    [] api = "dataSend" -> [ctx EXCEPT !.pktDataSendPrefixCB = 0]
    [] OTHER -> ctx

\* Clear what Register set; a data send goes on to the data if all is well.
Unregister(t) ==
  /\ pc[t] = "unregister"
  /\ ctx' = Unregistered(cmd[t].api)
  /\ Goto(t, IF cmd[t].api \in {"dataSend", "dataSendToken"} /\ st[t] = "OK"
             THEN "dataType" ELSE "release")
  /\ UNCHANGED <<reqMutex, cmd, st, calls, exch, respQueue, served, atResp, rd,
                 rx, toModem, modem, commOpen>>

\* _Cellular_DataSendWithTimeoutDelayRaw: the data is an exchange of its own.
DataSetType(t) ==
  /\ pc[t] = "dataType"
  /\ IF cmd[t].data
     THEN /\ ctx' = [ctx EXCEPT !.PktioAtCmdType = "NO_RESULT"]
          /\ exch' = exch + 1
          /\ st' = st
          /\ Goto(t, "dataSend")
     ELSE /\ UNCHANGED <<ctx, exch>>
          /\ st' = [st EXCEPT ![t] = "BAD_REQUEST"]
          /\ Goto(t, "release")
  /\ UNCHANGED <<reqMutex, cmd, calls, respQueue, served, atResp, rd, rx,
                 toModem, modem, commOpen>>

DataSendAll(t) ==
  /\ pc[t] = "dataSend"
  /\ commOpen
  /\ toModem' = Append(toModem, Message(cmd[t], "data"))
  /\ Goto(t, "dataWait")
  /\ UNCHANGED <<reqMutex, cmd, st, calls, exch, ctx, respQueue, served, atResp,
                 rd, rx, modem, commOpen>>

\* Less is sent than asked, of the data or of the end pattern: the function
\* returns at once, and the reset of PktioAtCmdType is not on that path.
DataSendShort(t) ==
  /\ pc[t] = "dataSend"
  /\ ShortSend \/ ~commOpen
  /\ st' = [st EXCEPT ![t] = "SEND_ERROR"]
  /\ Goto(t, "release")
  /\ UNCHANGED <<reqMutex, cmd, calls, exch, ctx, respQueue, served, atResp, rd,
                 rx, toModem, modem, commOpen>>

DataFinish(t) ==
  /\ pc[t] = "dataFinish"
  /\ ctx' = [ctx EXCEPT !.PktioAtCmdType = "NO_COMMAND"]
  /\ Goto(t, "release")
  /\ UNCHANGED <<reqMutex, cmd, st, calls, exch, respQueue, served, atResp, rd,
                 rx, toModem, modem, commOpen>>

\* The function returns st[t]; its locals are dead.
ReleasePktRequestMutex(t) ==
  /\ pc[t] = "release"
  /\ reqMutex' = NoTask
  /\ cmd' = [cmd EXCEPT ![t] = NoCmd]
  /\ st' = [st EXCEPT ![t] = "OK"]
  /\ Goto(t, "idle")
  /\ UNCHANGED <<calls, exch, ctx, respQueue, served, atResp, rd, rx,
                 toModem, modem, commOpen>>

-----------------------------------------------------------------------------
(* The modem, as the code relies on it: it executes what it is sent one at *)
(* a time and in order, answers in the shape of the command's type or not  *)
(* at all, and sends unsolicited lines in between.  Every line carries the *)
(* number of the exchange the modem worked on last.                        *)

Line(src, tok, prefix) == [src |-> src, tok |-> tok, prefix |-> prefix, x |-> modem.x]

ModemStart ==
  /\ ~modem.busy
  /\ toModem # <<>>
  /\ toModem' = Tail(toModem)
  /\ modem' = [modem EXCEPT !.busy = TRUE, !.x = Head(toModem).x,
                             !.cmd = IF Head(toModem).part = "cmd" THEN Head(toModem).cmd
                                     ELSE [NoCmd EXCEPT !.type = "NO_RESULT"]]
  /\ UNCHANGED <<taskVars, ctx, respQueue, atResp, rd, rx, commOpen>>

\* The intermediate lines an answer of this type may still have.
LinesLeft(m) ==
  CASE m.cmd.type \in {"WO_PREFIX", "WITH_PREFIX"} -> 1 - m.lines
    [] m.cmd.type \in {"MULTI_WITH_PREFIX", "MULTI_WO_PREFIX",
                       "MULTI_DATA_WO_PREFIX"} -> MaxLines - m.lines
    [] OTHER -> 0

LineOf(c) == Line("answer", "text", IF UsesPrefix(c) THEN c.prefix ELSE NoPrefix)

ModemLine ==
  /\ modem.busy
  /\ LinesLeft(modem) > 0
  /\ Len(rx) < MaxRx
  /\ rx' = Append(rx, LineOf(modem.cmd))
  /\ modem' = [modem EXCEPT !.lines = @ + 1]
  /\ UNCHANGED <<taskVars, ctx, respQueue, atResp, rd, toModem, commOpen>>

NoResultCode == {"WO_PREFIX_NO_RESULT_CODE", "WITH_PREFIX_NO_RESULT_CODE"}

\* The last line of the answer.
FinalLines(c) ==
  IF c.type \in NoResultCode THEN {LineOf(c), Line("answer", "error", NoPrefix)}
  ELSE {Line("answer", tok, NoPrefix) :
          tok \in {"ok", "error"} \cup
                  (IF c.api \in {"successToken", "dataSendToken"} THEN {"extra"} ELSE {})}

ModemFinal ==
  /\ modem.busy
  /\ Len(rx) < MaxRx
  /\ \E l \in FinalLines(modem.cmd) : rx' = Append(rx, l)
  /\ modem' = [modem EXCEPT !.busy = FALSE, !.lines = 0, !.cmd = NoCmd]
  /\ UNCHANGED <<taskVars, ctx, respQueue, atResp, rd, toModem, commOpen>>

\* The modem drops the command, or the rest of its answer.
ModemSilent ==
  /\ modem.busy
  /\ BreakOff \/ modem.lines = 0
  /\ modem' = [modem EXCEPT !.busy = FALSE, !.lines = 0, !.cmd = NoCmd]
  /\ UNCHANGED <<taskVars, ctx, respQueue, atResp, rd, rx, toModem, commOpen>>

\* A URC: with a prefix, or a whole line of the table of URCs without prefix.
ModemUrc ==
  /\ Len(rx) < MaxRx
  /\ modem.urcs < MaxUrcs
  /\ modem' = [modem EXCEPT !.urcs = @ + 1]
  /\ \E l \in {Line("urc", "text", p) : p \in UrcPrefixes}
               \cup {Line("urc", "urcToken", NoPrefix)}
               \cup (IF Noise THEN {Line("urc", "text", NoPrefix)} ELSE {}) :
        rx' = Append(rx, l)
  /\ UNCHANGED <<taskVars, ctx, respQueue, atResp, rd, toModem, commOpen>>

-----------------------------------------------------------------------------
(* The reader thread.                                                      *)

\* A line is taken from the read buffer; _preprocessLine copies the data
\* prefix callbacks under PktRespMutex ("to keep consistency").
TakeLine ==
  /\ rd.pc = "idle"
  /\ rx # <<>>
  /\ rx' = Tail(rx)
  /\ rd' = [rd EXCEPT !.pc = "preprocess", !.line = Head(rx),
                      !.prefixCB = IF ctx.pktDataSendPrefixCB # 0
                                   THEN ctx.pktDataSendPrefixCB ELSE ctx.pktDataPrefixCB]
  /\ UNCHANGED <<taskVars, modemVars, ctx, respQueue, atResp, commOpen>>

\* The copied callback runs, and does not stop the line; then pRespPrefix is
\* read, without the mutex, as an argument of _getMsgType.
PreprocessLine ==
  /\ rd.pc = "preprocess"
  /\ rd' = [rd EXCEPT !.pc = "msgType", !.prefixCB = 0,
                      !.hasPrefix = ctx.pRespPrefix]
  /\ UNCHANGED <<taskVars, modemVars, ctx, respQueue, atResp, rx, commOpen>>

\* _getMsgType, under PktRespMutex.  rd.hasPrefix says the pointer read before
\* is not NULL; what it points to is read now.
Waiting == ctx.PktioAtCmdType # "NO_COMMAND"

\* Mutant: a prefix, whichever it is, is taken for the expected one.
MsgTypeAnyPrefix(l) ==
  CASE l.tok = "urcToken" -> "UNSOLICITED"
    [] l.tok # "urcToken" /\ l.prefix # NoPrefix ->
         IF Waiting /\ rd.hasPrefix THEN "SOLICITED" ELSE "UNSOLICITED"
    [] OTHER -> IF Waiting THEN "SOLICITED" ELSE "UNDEFINED"

MsgType(l) ==
  CASE l.tok = "urcToken" -> "UNSOLICITED"
    [] l.tok # "urcToken" /\ l.prefix # NoPrefix ->
         IF Waiting /\ rd.hasPrefix /\ ctx.pktRespPrefixBuf = l.prefix
         THEN "SOLICITED" ELSE "UNSOLICITED"
    [] OTHER -> IF Waiting THEN "SOLICITED" ELSE "UNDEFINED"

GetMsgType ==
  /\ rd.pc = "msgType"
  /\ rd' = CASE MsgType(rd.line) = "UNSOLICITED" -> ReaderIdle  \* the URC handlers
             [] MsgType(rd.line) = "SOLICITED" ->
                  [rd EXCEPT !.pc = "solicited", !.hasPrefix = FALSE]
             [] OTHER -> [rd EXCEPT !.pc = "undefined", !.hasPrefix = FALSE]
  /\ UNCHANGED <<taskVars, modemVars, ctx, respQueue, atResp, rx, commOpen>>

\* PktioAtCmdType is read, without the mutex, as an argument of
\* _Cellular_ProcessLine.
HandleSolicited ==
  /\ rd.pc = "solicited"
  /\ rd' = [rd EXCEPT !.pc = "processLine", !.type = ctx.PktioAtCmdType]
  /\ UNCHANGED <<taskVars, modemVars, ctx, respQueue, atResp, rx, commOpen>>

IsSuccess(l) == l.tok = "ok" \/ (l.tok = "extra" /\ ctx.extraTable # 0)
IsFinal(l) == IsSuccess(l) \/ l.tok = "error"

\* What _processIntermediateResponse makes of a line that is no result code.
Intermediate ==
  CASE rd.type \in {"WO_PREFIX", "WITH_PREFIX"} ->
         IF atResp.lines = <<>> THEN "PENDING_DATA" ELSE "INVALID_DATA"
    [] rd.type \in {"MULTI_WITH_PREFIX", "MULTI_WO_PREFIX"} -> "PENDING_DATA"
    [] rd.type = "MULTI_DATA_WO_PREFIX" -> "PENDING_BUFFER"
    [] rd.type \in NoResultCode -> "OK"
    [] OTHER -> "INVALID_DATA"

SaveLine == Append(atResp.lines, rd.line)

\* _Cellular_ProcessLine, under PktRespMutex, finds a success or error token.
ProcessFinalLine ==
  /\ rd.pc = "processLine"
  /\ IsFinal(rd.line)
  /\ atResp' = [atResp EXCEPT !.status = IsSuccess(rd.line)]
  /\ rd' = [rd EXCEPT !.pc = "resetType", !.type = "NO_COMMAND"]
  /\ UNCHANGED <<taskVars, modemVars, ctx, respQueue, rx, commOpen>>

\* The same, for a line that belongs to the response.
ProcessIntermediateLine ==
  /\ rd.pc = "processLine"
  /\ ~IsFinal(rd.line)
  /\ Intermediate # "INVALID_DATA"
  /\ atResp' = [atResp EXCEPT !.lines = SaveLine,
                              !.status = IF Intermediate = "OK" THEN TRUE ELSE @]
  /\ rd' = IF Intermediate = "OK"
           THEN [rd EXCEPT !.pc = "resetType", !.type = "NO_COMMAND"]
           ELSE ReaderIdle
  /\ UNCHANGED <<taskVars, modemVars, ctx, respQueue, rx, commOpen>>

\* The same, for a line the command type does not allow for.
ProcessUnexpectedLine ==
  /\ rd.pc = "processLine"
  /\ ~IsFinal(rd.line)
  /\ Intermediate = "INVALID_DATA"
  /\ rd' = [rd EXCEPT !.pc = "undefined", !.type = "NO_COMMAND"]
  /\ UNCHANGED <<taskVars, modemVars, ctx, respQueue, atResp, rx, commOpen>>

\* The command is complete: later lines are not taken for its response.
ResetType ==
  /\ rd.pc = "resetType"
  /\ ctx' = [ctx EXCEPT !.PktioAtCmdType = "NO_COMMAND", !.pRespPrefix = FALSE]
  /\ rd' = [rd EXCEPT !.pc = "convert"]
  /\ UNCHANGED <<taskVars, modemVars, respQueue, atResp, rx, commOpen>>

\* _convertAndQueueRespPacket holds no mutex: pktRespCB is compared with NULL,
Convert ==
  /\ rd.pc = "convert"
  /\ rd' = CASE ~atResp.status -> [rd EXCEPT !.pc = "post", !.status = "FAILURE"]
             [] atResp.status /\ ctx.pktRespCB # 0 -> [rd EXCEPT !.pc = "loadCB"]
             [] OTHER -> [rd EXCEPT !.pc = "post"]
  /\ UNCHANGED <<taskVars, modemVars, ctx, respQueue, atResp, rx, commOpen>>

\* read again to be called,
LoadCallback ==
  /\ rd.pc = "loadCB"
  /\ rd' = [rd EXCEPT !.pc = "loadData", !.cb = ctx.pktRespCB]
  /\ UNCHANGED <<taskVars, modemVars, ctx, respQueue, atResp, rx, commOpen>>

\* and given pPktUsrData; a call through NULL does not return.
CallCallback ==
  /\ rd.pc = "loadData"
  /\ rd' = [rd EXCEPT !.pc = IF rd.cb = 0 THEN "fault" ELSE "callback",
                      !.usr = ctx.pPktUsrData]
  /\ UNCHANGED <<taskVars, modemVars, ctx, respQueue, atResp, rx, commOpen>>

CallbackReturns ==
  /\ rd.pc = "callback"
  /\ \E s \in {"OK", "FAILURE"} :
        rd' = [rd EXCEPT !.pc = "post", !.status = s, !.cb = 0, !.usr = 0]
  /\ UNCHANGED <<taskVars, modemVars, ctx, respQueue, atResp, rx, commOpen>>

Status == [status |-> rd.status, src |-> rd.line.src, x |-> rd.line.x]

\* Mutant: the queue takes more than one status.
PostedUnbounded == Append(respQueue, Status)

PostedQueue == IF respQueue = <<>> THEN <<Status>> ELSE respQueue

\* Mutant: the response is kept for the lines still to come.
FreedLater == atResp

FreedResponse == NoResp

\* The status is posted without blocking, lost if the queue is full, and the
\* response is freed.
PostStatus ==
  /\ rd.pc = "post"
  /\ respQueue' = PostedQueue
  /\ atResp' = FreedResponse
  /\ rd' = ReaderIdle
  /\ UNCHANGED <<taskVars, modemVars, ctx, rx, commOpen>>

\* undefinedRespCallback takes care of the line.
UndefinedAccepted ==
  /\ rd.pc = "undefined"
  /\ TRUE \in UndefinedHandled
  /\ rd' = ReaderIdle
  /\ UNCHANGED <<taskVars, modemVars, ctx, respQueue, atResp, rx, commOpen>>

\* It is not registered or fails: the command is given up, with the lines
\* that were read into the buffer together with this one.
UndefinedRejected ==
  /\ rd.pc = "undefined"
  /\ FALSE \in UndefinedHandled
  /\ ctx' = [ctx EXCEPT !.PktioAtCmdType = "NO_COMMAND", !.pRespPrefix = FALSE]
  /\ \E n \in 0 .. Len(rx) : rx' = SubSeq(rx, n + 1, Len(rx))
  /\ atResp' = NoResp
  /\ rd' = ReaderIdle
  /\ UNCHANGED <<taskVars, modemVars, respQueue, commOpen>>

\* The reader is told to abort (_Cellular_PktioShutdown) and closes the port.
Abort ==
  /\ rd.pc = "idle"
  /\ commOpen
  /\ commOpen' = FALSE
  /\ atResp' = NoResp
  /\ rd' = [rd EXCEPT !.pc = "stopped"]
  /\ UNCHANGED <<taskVars, modemVars, ctx, respQueue, rx>>

-----------------------------------------------------------------------------
\* What a task does once it is in a request function.
TaskStep(t) ==
  \/ AcquirePktRequestMutex(t) \/ Register(t) \/ NullCommand(t)
  \/ FillRequest(t) \/ CheckComm(t) \/ SetPrefixAndType(t) \/ CommSend(t)
  \/ Receive(t) \/ Timeout(t) \/ FinishCommand(t) \/ Unregister(t)
  \/ DataSetType(t) \/ DataSendAll(t) \/ DataSendShort(t) \/ DataFinish(t)
  \/ ReleasePktRequestMutex(t)

Modem == ModemStart \/ ModemLine \/ ModemFinal \/ ModemSilent \/ ModemUrc

Reader ==
  \/ TakeLine \/ PreprocessLine \/ GetMsgType \/ HandleSolicited
  \/ ProcessFinalLine \/ ProcessIntermediateLine \/ ProcessUnexpectedLine
  \/ ResetType \/ Convert \/ LoadCallback \/ CallCallback \/ CallbackReturns
  \/ PostStatus \/ UndefinedAccepted \/ UndefinedRejected

\* Every call has been made and has returned.
Done == calls = MaxCalls /\ (\A t \in Tasks : pc[t] = "idle") /\ UNCHANGED vars

Next ==
  \/ \E t \in Tasks : (\E c \in Commands : Call(t, c)) \/ TaskStep(t)
  \/ Modem \/ Reader \/ Abort \/ Done

Spec == Init /\ [][Next]_vars

\* The scheduler runs every task that can run, the timer of a wait expires,
\* a mutex goes to each of its waiters in turn, and the reader is scheduled.
\* Nothing is assumed of the modem.
FairSpec ==
  /\ Spec
  /\ \A t \in Tasks : WF_vars(TaskStep(t)) /\ SF_vars(AcquirePktRequestMutex(t))
  /\ WF_vars(Reader)
-----------------------------------------------------------------------------
(* Properties.                                                             *)

Labels == {"idle", "lock", "register", "badRequest", "fill", "checkComm",
           "setType", "commSend", "wait", "finish", "unregister", "dataType",
           "dataSend", "dataWait", "dataFinish", "release"}
ReaderLabels == {"idle", "preprocess", "msgType", "solicited", "processLine",
                 "resetType", "convert", "loadCB", "loadData", "callback",
                 "post", "undefined", "fault", "stopped"}

Lines == [src : {"answer", "urc"}, tok : {"ok", "error", "extra", "text", "urcToken"},
          prefix : Prefixes \cup {NoPrefix}, x : Nat]
Ctx == [pktRespCB : Nat, pPktUsrData : Nat, pCurrentCmd : Nat,
        PktioAtCmdType : AtTypes, pRespPrefix : BOOLEAN,
        pktRespPrefixBuf : Prefixes \cup {NoPrefix}, extraTable : Nat,
        pktDataPrefixCB : Nat, pktDataSendPrefixCB : Nat]
Readers == [pc : ReaderLabels, line : Lines, prefixCB : Nat, hasPrefix : BOOLEAN,
            type : AtTypes, status : Statuses, cb : Nat, usr : Nat]
Posts == [status : Statuses, src : {"answer", "urc"}, x : Nat]
Served == [x : Nat, src : {"answer", "urc"}, from : Nat]
Responses == [lines : Seq(Lines), status : BOOLEAN]
Sent == [x : Nat, cmd : Command, part : {"cmd", "data"}]
Modems == [busy : BOOLEAN, x : Nat, cmd : Command, lines : Nat, urcs : Nat]

\* The state has its type; the response queue has depth one.
TypeOK ==
  /\ reqMutex \in Tasks \cup {NoTask}
  /\ pc \in [Tasks -> Labels]
  /\ cmd \in [Tasks -> Command]
  /\ st \in [Tasks -> Statuses]
  /\ calls \in Nat /\ exch \in Nat
  /\ ctx \in Ctx
  /\ respQueue \in Seq(Posts)
  /\ Len(respQueue) <= 1
  /\ served \in Served
  /\ atResp \in Responses
  /\ rd \in Readers
  /\ rx \in Seq(Lines)
  /\ toModem \in Seq(Sent)
  /\ modem \in Modems
  /\ commOpen \in BOOLEAN

\* When no task holds pktRequestMutex nothing of an earlier request is left in
\* the context: no callback, no command, no extra token, no prefix callback.
\* Every path out of the request functions has to undo what it set.
NoLeftovers ==
  reqMutex = NoTask =>
    /\ ctx.pktRespCB = 0 /\ ctx.pCurrentCmd = 0 /\ ctx.extraTable = 0
    /\ ctx.pktDataPrefixCB = 0 /\ ctx.pktDataSendPrefixCB = 0

\* PktioAtCmdType says that a command awaits its response only while a request
\* is in progress ("no command is waiting response" otherwise): the reader must
\* not take lines for a response nobody waits for.
CommandTypeMeansWaiting ==
  (commOpen /\ reqMutex = NoTask) => ctx.PktioAtCmdType = "NO_COMMAND"

\* The status a task takes from the response queue is that of its own command.
OwnAnswer == served.src = "answer" /\ served.from = served.x

\* The packet layer implements the mailbox protocol of AtExchange: statuses
\* reach the tasks in the order in which the modem answered, and never before
\* the command they answer; none is served twice.
InExchange == {"checkComm", "setType", "commSend", "wait", "dataSend", "dataWait"}

Exchange == INSTANCE AtExchange WITH
  begun    <- exch,
  awaiting <- \E t \in Tasks : pc[t] \in InExchange,
  mailbox  <- [i \in 1 .. Len(respQueue) |-> respQueue[i].x],
  last     <- [x |-> served.x, from |-> served.from]

ImplementsExchange == Exchange!ExSpec

\* pktRespCB is not NULL when it is called, and runs for the exchange in
\* progress, on its own data, while the task that lent it both has not returned.
CallbackHasItsCaller ==
  /\ rd.pc # "fault"
  /\ rd.pc = "callback" =>
       /\ rd.cb = exch /\ rd.usr = exch
       /\ \E t \in Tasks : pc[t] \in {"wait", "finish"} /\ reqMutex = t

\* The response given to a command has only lines the modem sent for it.
ResponseIsPure ==
  rd.pc \in {"convert", "loadCB", "loadData", "callback"} =>
    \A i \in 1 .. Len(atResp.lines) :
       atResp.lines[i].src = "answer" /\ atResp.lines[i].x = exch

\* Every call of a request function returns, whatever the modem does: the wait
\* expires, and no path leaves with pktRequestMutex held.
RequestReturns == \A t \in Tasks : pc[t] = "lock" ~> pc[t] = "idle"
=============================================================================
