-------------------------- MODULE PktRequestProofs --------------------------
(* Theorems about PktRequest, for every set of tasks and of requests: what a  *)
(* request leaves behind, that the component implements AtExchange, and that  *)
(* every answer reaches the task it is for when no wait expires early.        *)
EXTENDS PktRequest, SequenceTheorems, TLAPS

\* Type correctness: every step of the request functions, of the reader and of
\* the modem keeps the state in its type, and the queue at depth one.
LEMMA TypeStep == ASSUME TypeOK, [Next]_vars PROVE TypeOK'
<1>. USE DEF taskVars, modemVars
<1>1. ReaderIdle \in Readers
  BY DEF ReaderIdle, NoLine, Readers, ReaderLabels, Lines, Statuses, AtTypes
<1>2. ASSUME NEW t \in Tasks, NEW c \in Commands, Call(t, c) PROVE TypeOK'
  BY <1>2, ConstantsAssumption DEF TypeOK, Call, Goto, Labels
<1>3. ASSUME NEW t \in Tasks, AcquirePktRequestMutex(t) PROVE TypeOK'
  BY <1>3 DEF TypeOK, AcquirePktRequestMutex, Goto, AfterRegister, Labels
<1>4. ASSUME NEW t \in Tasks, Register(t) PROVE TypeOK'
  <2>1. ctx \in Ctx /\ exch \in Nat
    BY DEF TypeOK
  <2>2. exch + 1 \in Nat
    BY <1>4, <2>1 DEF Register
  <2>3. ctx' \in Ctx
    BY <1>4, <2>1, <2>2 DEF Register, Registered, Ctx
  <2>. QED
    BY <1>4, <2>1, <2>2, <2>3 DEF TypeOK, Register, Goto, AfterRegister, Labels
<1>5. ASSUME NEW t \in Tasks, NullCommand(t) PROVE TypeOK'
  BY <1>5 DEF TypeOK, NullCommand, Goto, AfterCommand, Labels, Statuses
<1>6. ASSUME NEW t \in Tasks, FillRequest(t) PROVE TypeOK'
  <2>1. ctx \in Ctx /\ exch \in Nat
    BY DEF TypeOK
  <2>2. exch + 1 \in Nat /\ (IF cmd[t].cb THEN exch + 1 ELSE 0) \in Nat
    BY <1>6, <2>1 DEF FillRequest
  <2>3. ctx' \in Ctx
    BY <1>6, <2>1, <2>2 DEF FillRequest, Filled, Ctx
  <2>. QED
    BY <1>6, <2>1, <2>2, <2>3 DEF TypeOK, FillRequest, Goto, Labels
<1>7. ASSUME NEW t \in Tasks, CheckComm(t) PROVE TypeOK'
  BY <1>7 DEF TypeOK, CheckComm, Goto, Labels, Statuses
<1>8. ASSUME NEW t \in Tasks, SetPrefixAndType(t) PROVE TypeOK'
  <2>1. ctx \in Ctx /\ exch \in Nat /\ cmd[t] \in Command
    BY DEF TypeOK
  <2>2. cmd[t].type \in AtTypes /\ UsesPrefix(cmd[t]) \in BOOLEAN /\ cmd[t].prefix \in Prefixes \cup {NoPrefix}
    BY <1>8, <2>1 DEF SetPrefixAndType, UsesPrefix, Command
  <2>3. ctx' \in Ctx
    <3>1. CASE BadType(cmd[t])
      BY <1>8, <2>1, <3>1 DEF SetPrefixAndType
    <3>2. CASE ~BadType(cmd[t])
      <4>. DEFINE a == cmd[t].type
                  b == UsesPrefix(cmd[t])
                  p == IF b THEN cmd[t].prefix ELSE ctx.pktRespPrefixBuf
      <4>1. ctx' = [ctx EXCEPT !.PktioAtCmdType = a, !.pRespPrefix = b, !.pktRespPrefixBuf = p]
        BY <1>8, <3>2 DEF SetPrefixAndType
      <4>2. a \in AtTypes /\ b \in BOOLEAN
        BY <2>2
      <4>3. p \in Prefixes \cup {NoPrefix}
        BY <2>1, <2>2 DEF Ctx
      <4>. HIDE DEF a, b, p
      <4>. QED BY <2>1, <4>1, <4>2, <4>3 DEF Ctx
    <3>. QED
      BY <3>1, <3>2
  <2>. QED
    BY <1>8, <2>1, <2>2, <2>3 DEF TypeOK, SetPrefixAndType, Goto, Labels, Statuses
<1>9. ASSUME NEW t \in Tasks, CommSend(t) PROVE TypeOK'
  <2>1. exch \in Nat /\ cmd[t] \in Command /\ toModem \in Seq(Sent)
    BY DEF TypeOK
  <2>2. \A part \in {"cmd", "data"} : Message(cmd[t], part) \in Sent
    BY <2>1 DEF Message, Sent
  <2>3. toModem' \in Seq(Sent)
    BY <1>9, <2>1, <2>2 DEF CommSend
  <2>. QED
    BY <1>9, <2>1, <2>2, <2>3 DEF TypeOK, CommSend, Goto, Labels
<1>10. ASSUME NEW t \in Tasks, Receive(t) PROVE TypeOK'
  <2>1. exch \in Nat /\ respQueue \in Seq(Posts) /\ Len(respQueue) <= 1 /\ st \in [Tasks -> Statuses]
    BY DEF TypeOK
  <2>2. Head(respQueue) \in Posts
    BY <1>10, <2>1 DEF Receive
  <2>3. st' \in [Tasks -> Statuses]
    BY <1>10, <2>1, <2>2 DEF Receive, Posts
  <2>4. served' \in Served
    BY <1>10, <2>1, <2>2, <2>3 DEF Receive, Served, Posts
  <2>5. respQueue' \in Seq(Posts) /\ Len(respQueue') <= 1
    BY <1>10, <2>1, <2>2, <2>3, <2>4 DEF Receive, ReceivedQueue
  <2>. QED
    BY <1>10, <2>1, <2>2, <2>3, <2>4, <2>5 DEF TypeOK, Receive, Goto, Labels
<1>11. ASSUME NEW t \in Tasks, Timeout(t) PROVE TypeOK'
  BY <1>11 DEF TypeOK, Timeout, Goto, Labels, Statuses
<1>12. ASSUME NEW t \in Tasks, FinishCommand(t) PROVE TypeOK'
  <2>1. ctx \in Ctx /\ exch \in Nat
    BY DEF TypeOK
  <2>2. ctx' \in Ctx
    BY <1>12, <2>1 DEF FinishCommand, Finished, Ctx, AtTypes
  <2>. QED
    BY <1>12, <2>1, <2>2 DEF TypeOK, FinishCommand, Goto, AfterCommand, Labels
<1>13. ASSUME NEW t \in Tasks, Unregister(t) PROVE TypeOK'
  <2>1. ctx \in Ctx /\ exch \in Nat
    BY DEF TypeOK
  <2>2. ctx' \in Ctx
    BY <1>13, <2>1 DEF Unregister, Unregistered, Ctx
  <2>. QED
    BY <1>13, <2>1, <2>2 DEF TypeOK, Unregister, Goto, Labels
<1>14. ASSUME NEW t \in Tasks, DataSetType(t) PROVE TypeOK'
  <2>1. ctx \in Ctx /\ exch \in Nat
    BY DEF TypeOK
  <2>2. ctx' \in Ctx
    BY <1>14, <2>1 DEF DataSetType, Ctx, AtTypes
  <2>. QED
    BY <1>14, <2>1, <2>2 DEF TypeOK, DataSetType, Goto, Labels, Statuses
<1>15. ASSUME NEW t \in Tasks, DataSendAll(t) PROVE TypeOK'
  <2>1. exch \in Nat /\ cmd[t] \in Command /\ toModem \in Seq(Sent)
    BY DEF TypeOK
  <2>2. \A part \in {"cmd", "data"} : Message(cmd[t], part) \in Sent
    BY <2>1 DEF Message, Sent
  <2>3. toModem' \in Seq(Sent)
    BY <1>15, <2>1, <2>2 DEF DataSendAll
  <2>. QED
    BY <1>15, <2>1, <2>2, <2>3 DEF TypeOK, DataSendAll, Goto, Labels
<1>16. ASSUME NEW t \in Tasks, DataSendShort(t) PROVE TypeOK'
  BY <1>16 DEF TypeOK, DataSendShort, Goto, Labels, Statuses
<1>17. ASSUME NEW t \in Tasks, DataFinish(t) PROVE TypeOK'
  <2>1. ctx \in Ctx /\ exch \in Nat
    BY DEF TypeOK
  <2>2. ctx' \in Ctx
    BY <1>17, <2>1 DEF DataFinish, Ctx, AtTypes
  <2>. QED
    BY <1>17, <2>1, <2>2 DEF TypeOK, DataFinish, Goto, Labels
<1>18. ASSUME NEW t \in Tasks, ReleasePktRequestMutex(t) PROVE TypeOK'
  <2>1. NoCmd \in Command
    BY <1>18 DEF ReleasePktRequestMutex, NoCmd, Command, Apis, AtTypes
  <2>. QED
    BY <1>18, <2>1 DEF TypeOK, ReleasePktRequestMutex, Goto, Labels, Statuses
<1>19. ASSUME ModemStart PROVE TypeOK'
  <2>1. modem \in Modems /\ toModem \in Seq(Sent)
    BY DEF TypeOK
  <2>2. Head(toModem) \in Sent /\ toModem' \in Seq(Sent)
    BY <1>19, <2>1 DEF ModemStart
  <2>3. modem' \in Modems
    BY <1>19, <2>1, <2>2 DEF ModemStart, Modems, Sent, NoCmd, Command, Apis, AtTypes
  <2>. QED
    BY <1>19, <2>1, <2>2, <2>3 DEF TypeOK, ModemStart
<1>20. ASSUME ModemLine PROVE TypeOK'
  <2>1. modem \in Modems
    BY DEF TypeOK
  <2>2. LineOf(modem.cmd) \in Lines
    BY <1>20, <2>1 DEF ModemLine, LineOf, Line, Lines, UsesPrefix, Modems, Command
  <2>3. modem' \in Modems
    BY <1>20, <2>1, <2>2 DEF ModemLine, Modems
  <2>. QED
    BY <1>20, <2>1, <2>2, <2>3 DEF TypeOK, ModemLine
<1>21. ASSUME ModemFinal PROVE TypeOK'
  <2>1. modem \in Modems
    BY DEF TypeOK
  <2>2. FinalLines(modem.cmd) \subseteq Lines
    BY <1>21, <2>1 DEF ModemFinal, FinalLines, LineOf, Line, Lines, UsesPrefix,
       Modems, Command
  <2>3. modem' \in Modems
    BY <1>21, <2>1, <2>2 DEF ModemFinal, Modems, NoCmd, Command, Apis, AtTypes
  <2>. QED
    BY <1>21, <2>1, <2>2, <2>3 DEF TypeOK, ModemFinal
<1>22. ASSUME ModemSilent PROVE TypeOK'
  <2>1. modem \in Modems
    BY DEF TypeOK
  <2>2. modem' \in Modems
    BY <1>22, <2>1 DEF ModemSilent, Modems, NoCmd, Command, Apis, AtTypes
  <2>. QED
    BY <1>22, <2>1, <2>2 DEF TypeOK, ModemSilent
<1>23. ASSUME ModemUrc PROVE TypeOK'
  <2>1. modem \in Modems /\ rx \in Seq(Lines)
    BY DEF TypeOK
  <2>2. \A tok \in {"text", "urcToken"}, p \in Prefixes \cup {NoPrefix} : Line("urc", tok, p) \in Lines
    BY <1>23, <2>1, ConstantsAssumption DEF ModemUrc, Line, Lines, Modems
  <2>3. rx' \in Seq(Lines)
    BY <1>23, <2>1, <2>2, ConstantsAssumption DEF ModemUrc
  <2>4. modem' = [modem EXCEPT !.urcs = @ + 1]
    BY <1>23, <2>1, <2>2, <2>3, ConstantsAssumption DEF ModemUrc
  <2>5. modem' \in Modems
    BY <2>1, <2>2, <2>3, <2>4, ConstantsAssumption DEF Modems
  <2>. QED
    BY <1>23, <2>1, <2>2, <2>3, <2>4, <2>5 DEF TypeOK, ModemUrc
<1>24. ASSUME TakeLine PROVE TypeOK'
  <2>1. ctx \in Ctx /\ rd \in Readers /\ rx \in Seq(Lines)
    BY DEF TypeOK
  <2>2. Head(rx) \in Lines /\ rx' \in Seq(Lines)
    BY <1>24, <2>1 DEF TakeLine
  <2>3. rd' \in Readers
    BY <1>24, <2>1, <2>2 DEF TakeLine, Readers, ReaderLabels, Ctx
  <2>. QED
    BY <1>24, <2>1, <2>2, <2>3 DEF TypeOK, TakeLine
<1>25. ASSUME PreprocessLine PROVE TypeOK'
  <2>1. ctx \in Ctx /\ rd \in Readers
    BY DEF TypeOK
  <2>2. rd' \in Readers
    BY <1>25, <2>1 DEF PreprocessLine, Readers, ReaderLabels, Ctx
  <2>. QED
    BY <1>25, <2>1, <2>2 DEF TypeOK, PreprocessLine
<1>26. ASSUME GetMsgType PROVE TypeOK'
  <2>1. rd \in Readers
    BY DEF TypeOK
  <2>2. rd' \in Readers
    BY <1>26, <2>1, <1>1 DEF GetMsgType, Readers, ReaderLabels
  <2>. QED
    BY <1>26, <2>1, <2>2 DEF TypeOK, GetMsgType
<1>27. ASSUME HandleSolicited PROVE TypeOK'
  <2>1. ctx \in Ctx /\ rd \in Readers
    BY DEF TypeOK
  <2>2. rd' \in Readers
    BY <1>27, <2>1 DEF HandleSolicited, Readers, ReaderLabels, Ctx
  <2>. QED
    BY <1>27, <2>1, <2>2 DEF TypeOK, HandleSolicited
<1>28. ASSUME ProcessFinalLine PROVE TypeOK'
  <2>1. rd \in Readers /\ atResp \in Responses
    BY DEF TypeOK
  <2>2. rd' \in Readers
    BY <1>28, <2>1 DEF ProcessFinalLine, Readers, ReaderLabels, AtTypes
  <2>3. atResp' \in Responses
    BY <1>28, <2>1, <2>2 DEF ProcessFinalLine, IsSuccess, Responses
  <2>. QED
    BY <1>28, <2>1, <2>2, <2>3 DEF TypeOK, ProcessFinalLine
<1>29. ASSUME ProcessIntermediateLine PROVE TypeOK'
  <2>1. rd \in Readers /\ atResp \in Responses
    BY DEF TypeOK
  <2>2. rd' \in Readers
    BY <1>29, <2>1, <1>1 DEF ProcessIntermediateLine, Readers, ReaderLabels, AtTypes
  <2>3. rd.line \in Lines /\ atResp.lines \in Seq(Lines)
    BY <1>29, <2>1, <2>2 DEF ProcessIntermediateLine, Readers, Responses
  <2>4. SaveLine \in Seq(Lines) /\ atResp.status \in BOOLEAN
    BY <2>1, <2>2, <2>3 DEF SaveLine, Responses
  <2>5. atResp' \in Responses
    BY <1>29, <2>1, <2>2, <2>3, <2>4 DEF ProcessIntermediateLine, Responses
  <2>. QED
    BY <1>29, <2>1, <2>2, <2>3, <2>4, <2>5 DEF TypeOK, ProcessIntermediateLine
<1>30. ASSUME ProcessUnexpectedLine PROVE TypeOK'
  <2>1. rd \in Readers
    BY DEF TypeOK
  <2>2. rd' \in Readers
    BY <1>30, <2>1 DEF ProcessUnexpectedLine, Readers, ReaderLabels, AtTypes
  <2>. QED
    BY <1>30, <2>1, <2>2 DEF TypeOK, ProcessUnexpectedLine
<1>31. ASSUME ResetType PROVE TypeOK'
  <2>1. ctx \in Ctx /\ rd \in Readers
    BY DEF TypeOK
  <2>2. rd' \in Readers
    BY <1>31, <2>1 DEF ResetType, Readers, ReaderLabels
  <2>3. ctx' \in Ctx
    BY <1>31, <2>1, <2>2 DEF ResetType, Ctx, AtTypes
  <2>. QED
    BY <1>31, <2>1, <2>2, <2>3 DEF TypeOK, ResetType
<1>32. ASSUME Convert PROVE TypeOK'
  <2>1. rd \in Readers
    BY DEF TypeOK
  <2>2. rd' \in Readers
    BY <1>32, <2>1 DEF Convert, Readers, ReaderLabels, Statuses
  <2>. QED
    BY <1>32, <2>1, <2>2 DEF TypeOK, Convert
<1>33. ASSUME LoadCallback PROVE TypeOK'
  <2>1. ctx \in Ctx /\ rd \in Readers
    BY DEF TypeOK
  <2>2. rd' \in Readers
    BY <1>33, <2>1 DEF LoadCallback, Readers, ReaderLabels, Ctx
  <2>. QED
    BY <1>33, <2>1, <2>2 DEF TypeOK, LoadCallback
<1>34. ASSUME CallCallback PROVE TypeOK'
  <2>1. ctx \in Ctx /\ rd \in Readers
    BY DEF TypeOK
  <2>2. rd' \in Readers
    BY <1>34, <2>1 DEF CallCallback, Readers, ReaderLabels, Ctx
  <2>. QED
    BY <1>34, <2>1, <2>2 DEF TypeOK, CallCallback
<1>35. ASSUME CallbackReturns PROVE TypeOK'
  <2>1. rd \in Readers
    BY DEF TypeOK
  <2>2. \A s \in {"OK", "FAILURE"} : [rd EXCEPT !.pc = "post", !.status = s, !.cb = 0, !.usr = 0] \in Readers
    BY <2>1 DEF Readers, ReaderLabels, Statuses
  <2>3. rd' \in Readers
    <3>1. PICK s \in {"OK", "FAILURE"} :
            rd' = [rd EXCEPT !.pc = "post", !.status = s, !.cb = 0, !.usr = 0]
      BY <1>35 DEF CallbackReturns
    <3>. QED
      BY <2>2, <3>1
  <2>. QED
    BY <1>35, <2>1, <2>2, <2>3 DEF TypeOK, CallbackReturns
<1>36. ASSUME PostStatus PROVE TypeOK'
  <2>1. rd \in Readers /\ respQueue \in Seq(Posts) /\ Len(respQueue) <= 1
    BY DEF TypeOK
  <2>2. Status \in Posts
    BY <1>36, <2>1 DEF PostStatus, Status, Posts, Readers, Lines
  <2>3. respQueue' \in Seq(Posts) /\ Len(respQueue') <= 1
    BY <1>36, <2>1, <2>2 DEF PostStatus, PostedQueue
  <2>4. atResp' \in Responses
    BY <1>36, <2>1, <2>2, <2>3 DEF PostStatus, FreedResponse, NoResp, Responses
  <2>. QED
    BY <1>36, <1>1, <2>1, <2>2, <2>3, <2>4 DEF TypeOK, PostStatus
<1>37. ASSUME UndefinedAccepted PROVE TypeOK'
  BY <1>37, <1>1 DEF TypeOK, UndefinedAccepted
<1>38. ASSUME UndefinedRejected PROVE TypeOK'
  <2>1. ctx \in Ctx /\ rx \in Seq(Lines)
    BY DEF TypeOK
  <2>2. ctx' \in Ctx
    BY <1>38, <2>1 DEF UndefinedRejected, Ctx, AtTypes
  <2>3. atResp' \in Responses
    BY <1>38, <2>1, <2>2 DEF UndefinedRejected, NoResp, Responses
  <2>4. rx' \in Seq(Lines)
    BY <1>38, <2>1, <2>2, <2>3, SubSeqProperties DEF UndefinedRejected
  <2>. QED
    BY <1>38, <1>1, <2>1, <2>2, <2>3, <2>4 DEF TypeOK, UndefinedRejected
<1>39. ASSUME Abort PROVE TypeOK'
  <2>1. rd \in Readers
    BY DEF TypeOK
  <2>2. rd' \in Readers
    BY <1>39, <2>1 DEF Abort, Readers, ReaderLabels
  <2>3. atResp' \in Responses
    BY <1>39, <2>1, <2>2 DEF Abort, NoResp, Responses
  <2>. QED
    BY <1>39, <2>1, <2>2, <2>3 DEF TypeOK, Abort
<1>40. ASSUME UNCHANGED vars PROVE TypeOK'
  BY <1>40 DEF TypeOK, vars
<1>. QED
  BY <1>2, <1>3, <1>4, <1>5, <1>6, <1>7, <1>8, <1>9, <1>10, <1>11, <1>12,
     <1>13, <1>14, <1>15, <1>16, <1>17, <1>18, <1>19, <1>20, <1>21, <1>22,
     <1>23, <1>24, <1>25, <1>26, <1>27, <1>28, <1>29, <1>30, <1>31, <1>32,
     <1>33, <1>34, <1>35, <1>36, <1>37, <1>38, <1>39, <1>40
  DEF Next, TaskStep, Modem, Reader, Done

\* The initial state is in its type.
LEMMA TypeInit == ASSUME Init PROVE TypeOK
  BY ConstantsAssumption
  DEF Init, TypeOK, NoCmd, NoLine, NoResp, ReaderIdle, Command, Apis, Labels,
      Statuses, AtTypes, Ctx, Readers, ReaderLabels, Lines, Posts, Served,
      Responses, Sent, Modems

\* The state of the packet layer always has its type (TypeOK).
THEOREM TypeCorrect == Spec => []TypeOK
  BY TypeInit, TypeStep, PTL DEF Spec

-----------------------------------------------------------------------------
(* What the request functions set, they undo.                              *)

\* The steps of the reader and of the modem leave the tasks alone; all they do
\* to the shared fields is to mark the command as answered.
EnvFrame ==
  /\ UNCHANGED <<reqMutex, pc, cmd, exch, served>>
  /\ \/ ctx' = ctx
     \/ ctx' = [ctx EXCEPT !.PktioAtCmdType = "NO_COMMAND", !.pRespPrefix = FALSE]
  /\ commOpen' => commOpen

\* The modem, the reader and an abort leave the rest of the state to the requests.
LEMMA EnvStep == ASSUME Modem \/ Reader \/ Abort PROVE EnvFrame
<1>1. ASSUME Modem PROVE EnvFrame
  BY <1>1 DEF EnvFrame, taskVars, Modem, ModemStart, ModemLine, ModemFinal,
     ModemSilent, ModemUrc
<1>2. ASSUME Reader PROVE EnvFrame
  <2>1. TakeLine => EnvFrame
    BY DEF EnvFrame, taskVars, TakeLine
  <2>2. PreprocessLine => EnvFrame
    BY DEF EnvFrame, taskVars, PreprocessLine
  <2>3. GetMsgType => EnvFrame
    BY DEF EnvFrame, taskVars, GetMsgType
  <2>4. HandleSolicited => EnvFrame
    BY DEF EnvFrame, taskVars, HandleSolicited
  <2>5. ProcessFinalLine => EnvFrame
    BY DEF EnvFrame, taskVars, ProcessFinalLine
  <2>6. ProcessIntermediateLine => EnvFrame
    BY DEF EnvFrame, taskVars, ProcessIntermediateLine
  <2>7. ProcessUnexpectedLine => EnvFrame
    BY DEF EnvFrame, taskVars, ProcessUnexpectedLine
  <2>8. ResetType => EnvFrame
    BY DEF EnvFrame, taskVars, ResetType
  <2>9. Convert => EnvFrame
    BY DEF EnvFrame, taskVars, Convert
  <2>10. LoadCallback => EnvFrame
    BY DEF EnvFrame, taskVars, LoadCallback
  <2>11. CallCallback => EnvFrame
    BY DEF EnvFrame, taskVars, CallCallback
  <2>12. CallbackReturns => EnvFrame
    BY DEF EnvFrame, taskVars, CallbackReturns
  <2>13. PostStatus => EnvFrame
    BY DEF EnvFrame, taskVars, PostStatus
  <2>14. UndefinedAccepted => EnvFrame
    BY DEF EnvFrame, taskVars, UndefinedAccepted
  <2>15. UndefinedRejected => EnvFrame
    BY DEF EnvFrame, taskVars, UndefinedRejected
  <2>. QED
    BY <1>2, <2>1, <2>2, <2>3, <2>4, <2>5, <2>6, <2>7, <2>8,
       <2>9, <2>10, <2>11, <2>12, <2>13, <2>14, <2>15 DEF Reader
<1>3. ASSUME Abort PROVE EnvFrame
  BY <1>3 DEF EnvFrame, taskVars, Abort
<1>. QED
  BY <1>1, <1>2, <1>3

\* A task between AcquirePktRequestMutex and ReleasePktRequestMutex holds
\* pktRequestMutex, so there is at most one.
Holding == Labels \ {"idle", "lock"}

MutexInv == \A t \in Tasks : pc[t] \in Holding => reqMutex = t

\* Only one request at a time is in progress.
LEMMA MutexStep == ASSUME TypeOK, MutexInv, [Next]_vars PROVE MutexInv'
<1>. USE ConstantsAssumption DEF TypeOK, MutexInv
<1>1. ASSUME NEW t \in Tasks, NEW c \in Commands, Call(t, c) PROVE MutexInv'
  BY <1>1 DEF Call, Goto, Holding, Labels
<1>2. ASSUME NEW t \in Tasks, AcquirePktRequestMutex(t) PROVE MutexInv'
  BY <1>2 DEF AcquirePktRequestMutex, AfterRegister, Goto, Holding, Labels
<1>3. ASSUME NEW t \in Tasks, Register(t) PROVE MutexInv'
  BY <1>3 DEF Register, Registered, AfterRegister, Goto, Holding, Labels
<1>4. ASSUME NEW t \in Tasks, NullCommand(t) PROVE MutexInv'
  BY <1>4 DEF NullCommand, AfterCommand, Goto, Holding, Labels
<1>5. ASSUME NEW t \in Tasks, FillRequest(t) PROVE MutexInv'
  BY <1>5 DEF FillRequest, Filled, Goto, Holding, Labels
<1>6. ASSUME NEW t \in Tasks, CheckComm(t) PROVE MutexInv'
  BY <1>6 DEF CheckComm, Goto, Holding, Labels
<1>7. ASSUME NEW t \in Tasks, SetPrefixAndType(t) PROVE MutexInv'
  BY <1>7 DEF SetPrefixAndType, Goto, Holding, Labels
<1>8. ASSUME NEW t \in Tasks, CommSend(t) PROVE MutexInv'
  BY <1>8 DEF CommSend, Goto, Holding, Labels
<1>9. ASSUME NEW t \in Tasks, Receive(t) PROVE MutexInv'
  BY <1>9 DEF Receive, Goto, Holding, Labels
<1>10. ASSUME NEW t \in Tasks, Timeout(t) PROVE MutexInv'
  BY <1>10 DEF Timeout, Goto, Holding, Labels
<1>11. ASSUME NEW t \in Tasks, FinishCommand(t) PROVE MutexInv'
  BY <1>11 DEF FinishCommand, Finished, AfterCommand, Goto, Holding, Labels
<1>12. ASSUME NEW t \in Tasks, Unregister(t) PROVE MutexInv'
  BY <1>12 DEF Unregister, Unregistered, Goto, Holding, Labels
<1>13. ASSUME NEW t \in Tasks, DataSetType(t) PROVE MutexInv'
  BY <1>13 DEF DataSetType, Goto, Holding, Labels
<1>14. ASSUME NEW t \in Tasks, DataSendAll(t) PROVE MutexInv'
  BY <1>14 DEF DataSendAll, Goto, Holding, Labels
<1>15. ASSUME NEW t \in Tasks, DataSendShort(t) PROVE MutexInv'
  BY <1>15 DEF DataSendShort, Goto, Holding, Labels
<1>16. ASSUME NEW t \in Tasks, DataFinish(t) PROVE MutexInv'
  BY <1>16 DEF DataFinish, Goto, Holding, Labels
<1>17. ASSUME NEW t \in Tasks, ReleasePktRequestMutex(t) PROVE MutexInv'
  BY <1>17 DEF ReleasePktRequestMutex, Goto, Holding, Labels
<1>18. ASSUME Modem \/ Reader \/ Abort PROVE MutexInv'
  BY <1>18, EnvStep DEF EnvFrame, Goto, Holding, Labels
<1>19. ASSUME UNCHANGED vars PROVE MutexInv'
  BY <1>19 DEF vars, Goto, Holding, Labels
<1>. QED
  BY <1>1, <1>2, <1>3, <1>4, <1>5, <1>6, <1>7, <1>8, <1>9, <1>10, <1>11,
     <1>12, <1>13, <1>14, <1>15, <1>16, <1>17, <1>18, <1>19 DEF Next,
     TaskStep, Done

\* While the command is in progress; while the extra tokens or the data prefix
\* callback are registered; while a line may be taken for its response.
CommandLabels == {"checkComm", "setType", "commSend", "wait", "finish"}
RegisteredLabels == {"badRequest", "fill", "unregister"} \cup CommandLabels
ArmedLabels == {"commSend", "wait", "finish", "dataSend", "dataWait", "dataFinish"}

TokenApis == {"successToken", "dataSendToken"}

\* Whatever is set in the context, a task is there that will clear it.
CommandInv ==
  (ctx.pktRespCB # 0 \/ ctx.pCurrentCmd # 0) =>
    \E u \in Tasks : pc[u] \in CommandLabels

RegisteredInv ==
  /\ ctx.extraTable # 0 =>
       \E u \in Tasks : cmd[u].api \in TokenApis /\ pc[u] \in RegisteredLabels
  /\ ctx.pktDataPrefixCB # 0 =>
       \E u \in Tasks : cmd[u].api = "dataRecv" /\ pc[u] \in RegisteredLabels
  /\ ctx.pktDataSendPrefixCB # 0 =>
       \E u \in Tasks : cmd[u].api = "dataSend" /\ pc[u] \in RegisteredLabels

\* A short send leaves the type behind, and so does a send that finds the comm
\* interface closed.
ArmedInv ==
  (commOpen /\ ShortSend = FALSE /\ ctx.PktioAtCmdType # "NO_COMMAND") =>
    \E u \in Tasks : pc[u] \in ArmedLabels

\* Every step keeps CommandInv.
LEMMA CommandStep == ASSUME TypeOK, CommandInv, [Next]_vars PROVE CommandInv'
<1>. USE DEF CommandInv
<1>. /\ ctx \in Ctx /\ pc \in [Tasks -> Labels] /\ cmd \in [Tasks -> Command]
     /\ exch \in Nat
  BY DEF TypeOK
<1>. USE DEF Ctx
<1>1. ASSUME NEW t \in Tasks, NEW c \in Commands, Call(t, c) PROVE CommandInv'
  BY <1>1 DEF Call, Goto, CommandLabels
<1>2. ASSUME NEW t \in Tasks, AcquirePktRequestMutex(t) PROVE CommandInv'
  BY <1>2 DEF AcquirePktRequestMutex, AfterRegister, Goto, CommandLabels
<1>3. ASSUME NEW t \in Tasks, Register(t) PROVE CommandInv'
  BY <1>3 DEF Register, Registered, AfterRegister, Goto, CommandLabels
<1>4. ASSUME NEW t \in Tasks, NullCommand(t) PROVE CommandInv'
  BY <1>4 DEF NullCommand, AfterCommand, Goto, CommandLabels
<1>5. ASSUME NEW t \in Tasks, FillRequest(t) PROVE CommandInv'
  BY <1>5 DEF FillRequest, Filled, Goto, CommandLabels
<1>6. ASSUME NEW t \in Tasks, CheckComm(t) PROVE CommandInv'
  BY <1>6 DEF CheckComm, Goto, CommandLabels
<1>7. ASSUME NEW t \in Tasks, SetPrefixAndType(t) PROVE CommandInv'
  BY <1>7 DEF SetPrefixAndType, Goto, CommandLabels
<1>8. ASSUME NEW t \in Tasks, CommSend(t) PROVE CommandInv'
  BY <1>8 DEF CommSend, Goto, CommandLabels
<1>9. ASSUME NEW t \in Tasks, Receive(t) PROVE CommandInv'
  BY <1>9 DEF Receive, Goto, CommandLabels
<1>10. ASSUME NEW t \in Tasks, Timeout(t) PROVE CommandInv'
  BY <1>10 DEF Timeout, Goto, CommandLabels
<1>11. ASSUME NEW t \in Tasks, FinishCommand(t) PROVE CommandInv'
  BY <1>11 DEF FinishCommand, Finished, AfterCommand, Goto, CommandLabels
<1>12. ASSUME NEW t \in Tasks, Unregister(t) PROVE CommandInv'
  BY <1>12 DEF Unregister, Unregistered, Goto, CommandLabels
<1>13. ASSUME NEW t \in Tasks, DataSetType(t) PROVE CommandInv'
  BY <1>13 DEF DataSetType, Goto, CommandLabels
<1>14. ASSUME NEW t \in Tasks, DataSendAll(t) PROVE CommandInv'
  BY <1>14 DEF DataSendAll, Goto, CommandLabels
<1>15. ASSUME NEW t \in Tasks, DataSendShort(t) PROVE CommandInv'
  BY <1>15 DEF DataSendShort, Goto, CommandLabels
<1>16. ASSUME NEW t \in Tasks, DataFinish(t) PROVE CommandInv'
  BY <1>16 DEF DataFinish, Goto, CommandLabels
<1>17. ASSUME NEW t \in Tasks, ReleasePktRequestMutex(t) PROVE CommandInv'
  BY <1>17 DEF ReleasePktRequestMutex, Goto, CommandLabels
<1>18. ASSUME Modem \/ Reader \/ Abort PROVE CommandInv'
  BY <1>18, EnvStep DEF EnvFrame, Goto, CommandLabels
<1>19. ASSUME UNCHANGED vars PROVE CommandInv'
  BY <1>19 DEF vars, Goto, CommandLabels
<1>. QED
  BY <1>1, <1>2, <1>3, <1>4, <1>5, <1>6, <1>7, <1>8, <1>9, <1>10, <1>11,
     <1>12, <1>13, <1>14, <1>15, <1>16, <1>17, <1>18, <1>19 DEF Next,
     TaskStep, Done

\* Every step keeps RegisteredInv.
LEMMA RegisteredStep == ASSUME TypeOK, RegisteredInv, [Next]_vars PROVE RegisteredInv'
<1>. USE DEF RegisteredInv
<1>. /\ ctx \in Ctx /\ pc \in [Tasks -> Labels] /\ cmd \in [Tasks -> Command]
     /\ exch \in Nat
  BY DEF TypeOK
<1>. USE DEF Ctx
<1>1. ASSUME NEW t \in Tasks, NEW c \in Commands, Call(t, c) PROVE RegisteredInv'
  BY <1>1 DEF Call, Goto, CommandLabels, RegisteredLabels, TokenApis
<1>2. ASSUME NEW t \in Tasks, AcquirePktRequestMutex(t) PROVE RegisteredInv'
  BY <1>2 DEF AcquirePktRequestMutex, AfterRegister, Goto, CommandLabels,
     RegisteredLabels, TokenApis
<1>3. ASSUME NEW t \in Tasks, Register(t) PROVE RegisteredInv'
  BY <1>3 DEF Register, Registered, AfterRegister, Goto, CommandLabels,
     RegisteredLabels, TokenApis
<1>4. ASSUME NEW t \in Tasks, NullCommand(t) PROVE RegisteredInv'
  BY <1>4 DEF NullCommand, AfterCommand, Goto, CommandLabels,
     RegisteredLabels, TokenApis
<1>5. ASSUME NEW t \in Tasks, FillRequest(t) PROVE RegisteredInv'
  BY <1>5 DEF FillRequest, Filled, Goto, CommandLabels, RegisteredLabels,
     TokenApis
<1>6. ASSUME NEW t \in Tasks, CheckComm(t) PROVE RegisteredInv'
  BY <1>6 DEF CheckComm, Goto, CommandLabels, RegisteredLabels, TokenApis
<1>7. ASSUME NEW t \in Tasks, SetPrefixAndType(t) PROVE RegisteredInv'
  <2>1. /\ ctx'.extraTable = ctx.extraTable
        /\ ctx'.pktDataPrefixCB = ctx.pktDataPrefixCB
        /\ ctx'.pktDataSendPrefixCB = ctx.pktDataSendPrefixCB
    BY <1>7 DEF SetPrefixAndType
  <2>2. \E l \in CommandLabels : pc' = [pc EXCEPT ![t] = l]
    BY <1>7 DEF SetPrefixAndType, Goto, CommandLabels
  <2>3. cmd' = cmd /\ pc[t] \in CommandLabels
    BY <1>7 DEF SetPrefixAndType, CommandLabels
  <2>. QED
    BY <2>1, <2>2, <2>3 DEF RegisteredLabels
<1>8. ASSUME NEW t \in Tasks, CommSend(t) PROVE RegisteredInv'
  BY <1>8 DEF CommSend, Goto, CommandLabels, RegisteredLabels, TokenApis
<1>9. ASSUME NEW t \in Tasks, Receive(t) PROVE RegisteredInv'
  BY <1>9 DEF Receive, Goto, CommandLabels, RegisteredLabels, TokenApis
<1>10. ASSUME NEW t \in Tasks, Timeout(t) PROVE RegisteredInv'
  BY <1>10 DEF Timeout, Goto, CommandLabels, RegisteredLabels, TokenApis
<1>11. ASSUME NEW t \in Tasks, FinishCommand(t) PROVE RegisteredInv'
  BY <1>11 DEF FinishCommand, Finished, AfterCommand, Goto, CommandLabels,
     RegisteredLabels, TokenApis
<1>12. ASSUME NEW t \in Tasks, Unregister(t) PROVE RegisteredInv'
  BY <1>12 DEF Unregister, Unregistered, Goto, CommandLabels,
     RegisteredLabels, TokenApis
<1>13. ASSUME NEW t \in Tasks, DataSetType(t) PROVE RegisteredInv'
  BY <1>13 DEF DataSetType, Goto, CommandLabels, RegisteredLabels, TokenApis
<1>14. ASSUME NEW t \in Tasks, DataSendAll(t) PROVE RegisteredInv'
  BY <1>14 DEF DataSendAll, Goto, CommandLabels, RegisteredLabels, TokenApis
<1>15. ASSUME NEW t \in Tasks, DataSendShort(t) PROVE RegisteredInv'
  BY <1>15 DEF DataSendShort, Goto, CommandLabels, RegisteredLabels, TokenApis
<1>16. ASSUME NEW t \in Tasks, DataFinish(t) PROVE RegisteredInv'
  BY <1>16 DEF DataFinish, Goto, CommandLabels, RegisteredLabels, TokenApis
<1>17. ASSUME NEW t \in Tasks, ReleasePktRequestMutex(t) PROVE RegisteredInv'
  BY <1>17 DEF ReleasePktRequestMutex, Goto, CommandLabels, RegisteredLabels,
     TokenApis
<1>18. ASSUME Modem \/ Reader \/ Abort PROVE RegisteredInv'
  BY <1>18, EnvStep DEF EnvFrame, Goto, CommandLabels, RegisteredLabels,
     TokenApis
<1>19. ASSUME UNCHANGED vars PROVE RegisteredInv'
  BY <1>19 DEF vars, Goto, CommandLabels, RegisteredLabels, TokenApis
<1>. QED
  BY <1>1, <1>2, <1>3, <1>4, <1>5, <1>6, <1>7, <1>8, <1>9, <1>10, <1>11,
     <1>12, <1>13, <1>14, <1>15, <1>16, <1>17, <1>18, <1>19 DEF Next,
     TaskStep, Done

\* Every step keeps ArmedInv.
LEMMA ArmedStep == ASSUME TypeOK, ArmedInv, [Next]_vars PROVE ArmedInv'
<1>. USE DEF ArmedInv
<1>. /\ ctx \in Ctx /\ pc \in [Tasks -> Labels] /\ cmd \in [Tasks -> Command]
     /\ exch \in Nat
  BY DEF TypeOK
<1>. USE DEF Ctx
<1>1. ASSUME NEW t \in Tasks, NEW c \in Commands, Call(t, c) PROVE ArmedInv'
  BY <1>1 DEF Call, Goto, ArmedLabels
<1>2. ASSUME NEW t \in Tasks, AcquirePktRequestMutex(t) PROVE ArmedInv'
  BY <1>2 DEF AcquirePktRequestMutex, AfterRegister, Goto, ArmedLabels
<1>3. ASSUME NEW t \in Tasks, Register(t) PROVE ArmedInv'
  BY <1>3 DEF Register, Registered, AfterRegister, Goto, ArmedLabels
<1>4. ASSUME NEW t \in Tasks, NullCommand(t) PROVE ArmedInv'
  BY <1>4 DEF NullCommand, AfterCommand, Goto, ArmedLabels
<1>5. ASSUME NEW t \in Tasks, FillRequest(t) PROVE ArmedInv'
  BY <1>5 DEF FillRequest, Filled, Goto, ArmedLabels
<1>6. ASSUME NEW t \in Tasks, CheckComm(t) PROVE ArmedInv'
  BY <1>6 DEF CheckComm, Goto, ArmedLabels
<1>7. ASSUME NEW t \in Tasks, SetPrefixAndType(t) PROVE ArmedInv'
  BY <1>7 DEF SetPrefixAndType, Goto, ArmedLabels
<1>8. ASSUME NEW t \in Tasks, CommSend(t) PROVE ArmedInv'
  BY <1>8 DEF CommSend, Goto, ArmedLabels
<1>9. ASSUME NEW t \in Tasks, Receive(t) PROVE ArmedInv'
  BY <1>9 DEF Receive, Goto, ArmedLabels
<1>10. ASSUME NEW t \in Tasks, Timeout(t) PROVE ArmedInv'
  BY <1>10 DEF Timeout, Goto, ArmedLabels
<1>11. ASSUME NEW t \in Tasks, FinishCommand(t) PROVE ArmedInv'
  BY <1>11 DEF FinishCommand, Finished, AfterCommand, Goto, ArmedLabels
<1>12. ASSUME NEW t \in Tasks, Unregister(t) PROVE ArmedInv'
  BY <1>12 DEF Unregister, Unregistered, Goto, ArmedLabels
<1>13. ASSUME NEW t \in Tasks, DataSetType(t) PROVE ArmedInv'
  BY <1>13 DEF DataSetType, Goto, ArmedLabels
<1>14. ASSUME NEW t \in Tasks, DataSendAll(t) PROVE ArmedInv'
  BY <1>14 DEF DataSendAll, Goto, ArmedLabels
<1>15. ASSUME NEW t \in Tasks, DataSendShort(t) PROVE ArmedInv'
  BY <1>15 DEF DataSendShort, Goto, ArmedLabels
<1>16. ASSUME NEW t \in Tasks, DataFinish(t) PROVE ArmedInv'
  BY <1>16 DEF DataFinish, Goto, ArmedLabels
<1>17. ASSUME NEW t \in Tasks, ReleasePktRequestMutex(t) PROVE ArmedInv'
  BY <1>17 DEF ReleasePktRequestMutex, Goto, ArmedLabels
<1>18. ASSUME Modem \/ Reader \/ Abort PROVE ArmedInv'
  BY <1>18, EnvStep DEF EnvFrame, Goto, ArmedLabels
<1>19. ASSUME UNCHANGED vars PROVE ArmedInv'
  BY <1>19 DEF vars, Goto, ArmedLabels
<1>. QED
  BY <1>1, <1>2, <1>3, <1>4, <1>5, <1>6, <1>7, <1>8, <1>9, <1>10, <1>11,
     <1>12, <1>13, <1>14, <1>15, <1>16, <1>17, <1>18, <1>19 DEF Next,
     TaskStep, Done

\* The inductive invariant of the request functions.
IInv == TypeOK /\ MutexInv /\ CommandInv /\ RegisteredInv /\ ArmedInv

\* The inductive invariant holds at first.
LEMMA IInvInit == ASSUME Init PROVE IInv
<1>1. TypeOK
  BY TypeInit
<1>2. MutexInv
  BY DEF Init, MutexInv, Holding
<1>3. CommandInv /\ RegisteredInv /\ ArmedInv
  BY DEF Init, CommandInv, RegisteredInv, ArmedInv
<1>. QED
  BY <1>1, <1>2, <1>3 DEF IInv

\* Every step keeps the inductive invariant.
LEMMA IInvStep == ASSUME IInv, [Next]_vars PROVE IInv'
  BY TypeStep, MutexStep, CommandStep, RegisteredStep, ArmedStep
  DEF IInv

\* The inductive invariant holds in every state.
THEOREM IInvAlways == Spec => []IInv
  BY IInvInit, IInvStep, PTL DEF Spec

\* Every path through the request functions, whatever the modem, the timers and
\* the comm interface do, leaves nothing of the request in the context.
THEOREM LeftoversCleared == Spec => []NoLeftovers
<1>1. ASSUME IInv PROVE NoLeftovers
  BY <1>1, ConstantsAssumption
  DEF IInv, MutexInv, CommandInv, RegisteredInv, NoLeftovers,
      Holding, Labels, CommandLabels, RegisteredLabels, TokenApis
<1>. QED
  BY <1>1, IInvAlways, PTL

\* If sends are never short, a command type other than CELLULAR_AT_NO_COMMAND
\* means that a request is in progress.
THEOREM ArmedMeansWaiting ==
  ASSUME ShortSend = FALSE PROVE Spec => []CommandTypeMeansWaiting
<1>1. ASSUME IInv PROVE CommandTypeMeansWaiting
  BY <1>1, ConstantsAssumption
  DEF IInv, MutexInv, ArmedInv, CommandTypeMeansWaiting, Holding, Labels, ArmedLabels
<1>. QED
  BY <1>1, IInvAlways, PTL

-----------------------------------------------------------------------------
(* The order of the exchanges.                                                *)

\* The members of a sequence belong to exchanges from lo to hi, in their order.
Ascending(s, lo, hi) ==
  /\ \A i \in 1 .. Len(s) : lo <= s[i].x /\ s[i].x <= hi
  /\ \A i, j \in 1 .. Len(s) : i <= j => s[i].x <= s[j].x

\* The reader has a line.
HasLine == rd.pc \notin {"idle", "stopped"}

\* What is in the response queue comes from exchanges up to a, the line the reader has
\* from one between a and b, the lines not read yet from later ones.
Between(a, b) ==
  /\ served.from <= a /\ a <= b /\ b <= modem.x
  /\ Ascending(respQueue, served.from, a)
  /\ HasLine => a <= rd.line.x /\ rd.line.x <= b
  /\ Ascending(rx, b, modem.x)

OrderInv ==
  /\ served.from <= served.x /\ served.x <= exch
  /\ modem.x <= exch /\ Ascending(toModem, modem.x, exch)
  /\ \E a, b \in 0 .. exch : Between(a, b)

-----------------------------------------------------------------------------
(* Sequences whose members are numbered in order.                             *)

\* A sequence stays in order when its upper bound is raised.
LEMMA AscendingRaise ==
  ASSUME NEW S, \A e \in S : e.x \in Nat, NEW s \in Seq(S),
         NEW lo \in Nat, NEW hi \in Nat, NEW top \in Nat, hi <= top,
         Ascending(s, lo, hi)
  PROVE  Ascending(s, lo, top)
<1>1. \A i \in 1 .. Len(s) : s[i].x \in Nat
  OBVIOUS
<1>. QED
  BY <1>1 DEF Ascending

\* A last member of the highest number is in order.
LEMMA AscendingAppend ==
  ASSUME NEW S, \A e \in S : e.x \in Nat, NEW s \in Seq(S), NEW e \in S,
         NEW lo \in Nat, NEW hi \in Nat, lo <= hi, e.x = hi,
         Ascending(s, lo, hi)
  PROVE  Ascending(Append(s, e), lo, hi)
<1>. DEFINE q == Append(s, e)
<1>1. /\ Len(q) = Len(s) + 1 /\ Len(s) \in Nat
      /\ \A i \in 1 .. Len(s) : q[i] = s[i]
      /\ q[Len(s) + 1] = e
  BY AppendProperties
<1>. HIDE DEF q
<1>2. \A i \in 1 .. Len(q) : i \in 1 .. Len(s) \/ i = Len(s) + 1
  BY <1>1
<1>3. \A i \in 1 .. Len(q) : q[i].x \in Nat /\ lo <= q[i].x /\ q[i].x <= hi
  BY <1>1, <1>2 DEF Ascending
<1>4. ASSUME NEW i \in 1 .. Len(q), NEW j \in 1 .. Len(q), i <= j
      PROVE  q[i].x <= q[j].x
  <2>1. CASE j \in 1 .. Len(s)
    <3>1. i \in 1 .. Len(s)
      BY <1>1, <1>4, <2>1
    <3>. QED
      BY <1>1, <1>4, <2>1, <3>1 DEF Ascending
  <2>2. CASE j = Len(s) + 1
    BY <1>1, <1>3, <2>2
  <2>. QED
    BY <1>2, <2>1, <2>2
<1>5. Ascending(q, lo, hi)
  BY <1>3, <1>4 DEF Ascending
<1>. QED
  BY <1>5 DEF q

\* The first member bounds the others from below.
LEMMA AscendingTail ==
  ASSUME NEW S, \A e \in S : e.x \in Nat, NEW s \in Seq(S), s # <<>>,
         NEW lo \in Nat, NEW hi \in Nat, Ascending(s, lo, hi)
  PROVE  /\ Head(s).x \in Nat /\ lo <= Head(s).x /\ Head(s).x <= hi
         /\ Ascending(Tail(s), Head(s).x, hi)
<1>. DEFINE q == Tail(s)
<1>1. /\ Len(s) \in Nat /\ Len(s) # 0 /\ Head(s) = s[1]
      /\ Len(q) = Len(s) - 1 /\ \A i \in 1 .. Len(q) : q[i] = s[i + 1]
  BY HeadTailProperties, EmptySeq
<1>. HIDE DEF q
<1>2. 1 \in 1 .. Len(s) /\ \A i \in 1 .. Len(q) : i + 1 \in 1 .. Len(s)
  BY <1>1
<1>3. Head(s).x \in Nat /\ lo <= Head(s).x /\ Head(s).x <= hi
  BY <1>1, <1>2 DEF Ascending
<1>4. ASSUME NEW i \in 1 .. Len(q) PROVE Head(s).x <= q[i].x /\ q[i].x <= hi
  <2>1. i + 1 \in 1 .. Len(s) /\ 1 <= i + 1 /\ q[i] = s[i + 1]
    BY <1>1
  <2>. QED
    BY <1>1, <1>2, <2>1 DEF Ascending
<1>5. ASSUME NEW i \in 1 .. Len(q), NEW j \in 1 .. Len(q), i <= j
      PROVE  q[i].x <= q[j].x
  <2>1. /\ i + 1 \in 1 .. Len(s) /\ j + 1 \in 1 .. Len(s) /\ i + 1 <= j + 1
        /\ q[i] = s[i + 1] /\ q[j] = s[j + 1]
    BY <1>1, <1>5
  <2>. QED
    BY <2>1 DEF Ascending
<1>6. Ascending(q, Head(s).x, hi)
  BY <1>4, <1>5 DEF Ascending
<1>. QED
  BY <1>3, <1>6 DEF q

\* What is left of a sequence in order when its first n members are dropped.
LEMMA AscendingRest ==
  ASSUME NEW S, \A e \in S : e.x \in Nat, NEW s \in Seq(S), NEW n \in 0 .. Len(s),
         NEW lo \in Nat, NEW hi \in Nat, Ascending(s, lo, hi)
  PROVE  Ascending(SubSeq(s, n + 1, Len(s)), lo, hi)
<1>. DEFINE q == SubSeq(s, n + 1, Len(s))
<1>1. /\ Len(s) \in Nat /\ Len(q) = Len(s) - n
      /\ \A i \in 1 .. Len(q) : q[i] = s[n + i]
  BY SubSeqProperties
<1>. HIDE DEF q
<1>2. \A i \in 1 .. Len(q) : n + i \in 1 .. Len(s)
  BY <1>1
<1>3. \A i \in 1 .. Len(q) : lo <= q[i].x /\ q[i].x <= hi
  BY <1>1, <1>2 DEF Ascending
<1>4. ASSUME NEW i \in 1 .. Len(q), NEW j \in 1 .. Len(q), i <= j
      PROVE  q[i].x <= q[j].x
  <2>1. n + i <= n + j
    BY <1>4
  <2>. QED
    BY <1>1, <1>2, <2>1 DEF Ascending
<1>5. Ascending(q, lo, hi)
  BY <1>3, <1>4 DEF Ascending
<1>. QED
  BY <1>5 DEF q

-----------------------------------------------------------------------------
(* The steps keep the order.                                                  *)

\* The numbers the order is about are numbers.
LEMMA Numbers ==
  ASSUME TypeOK
  PROVE  /\ exch \in Nat /\ served.from \in Nat /\ served.x \in Nat /\ modem.x \in Nat
         /\ rd.line.x \in Nat
         /\ respQueue \in Seq(Posts) /\ \A e \in Posts : e.x \in Nat
         /\ rx \in Seq(Lines) /\ \A l \in Lines : l.x \in Nat
         /\ toModem \in Seq(Sent) /\ \A m \in Sent : m.x \in Nat
         /\ rd.line \in Lines
  BY DEF TypeOK, Served, Modems, Readers, Lines, Posts, Sent

\* A step that takes no line from the modem and moves no number keeps the order.
LEMMA OrderKept ==
  ASSUME OrderInv, UNCHANGED <<exch, served, respQueue, rx, toModem>>,
         modem'.x = modem.x, HasLine' => HasLine /\ rd'.line = rd.line
  PROVE  OrderInv'
  BY DEF OrderInv, Between

\* The reader keeps its line until it is done with it.
LEMMA ReaderKeepsLine ==
  ASSUME TypeOK, Reader, ~TakeLine, ~PostStatus, ~UndefinedRejected
  PROVE  /\ UNCHANGED <<exch, served, respQueue, rx, toModem, modem>>
         /\ HasLine' => HasLine /\ rd'.line = rd.line
<1>. USE DEF taskVars, modemVars, HasLine
<1>0. rd \in Readers
  BY DEF TypeOK
<1>. USE DEF Readers
<1>1. CASE PreprocessLine
  BY <1>0, <1>1 DEF PreprocessLine
<1>2. CASE GetMsgType
  BY <1>0, <1>2 DEF GetMsgType, ReaderIdle
<1>3. CASE HandleSolicited
  BY <1>0, <1>3 DEF HandleSolicited
<1>4. CASE ProcessFinalLine
  BY <1>0, <1>4 DEF ProcessFinalLine
<1>5. CASE ProcessIntermediateLine
  BY <1>0, <1>5 DEF ProcessIntermediateLine, ReaderIdle
<1>6. CASE ProcessUnexpectedLine
  BY <1>0, <1>6 DEF ProcessUnexpectedLine
<1>7. CASE ResetType
  BY <1>0, <1>7 DEF ResetType
<1>8. CASE Convert
  BY <1>0, <1>8 DEF Convert
<1>9. CASE LoadCallback
  BY <1>0, <1>9 DEF LoadCallback
<1>10. CASE CallCallback
  BY <1>0, <1>10 DEF CallCallback
<1>11. CASE CallbackReturns
  BY <1>0, <1>11 DEF CallbackReturns
<1>12. CASE UndefinedAccepted
  BY <1>12 DEF UndefinedAccepted, ReaderIdle
<1>. QED
  BY <1>1, <1>2, <1>3, <1>4, <1>5, <1>6, <1>7, <1>8, <1>9, <1>10, <1>11, <1>12 DEF Reader

\* Every step keeps the exchanges in their order.
LEMMA OrderStep == ASSUME TypeOK, OrderInv, [Next]_vars PROVE OrderInv'
<1>0. /\ exch \in Nat /\ served.from \in Nat /\ served.x \in Nat /\ modem.x \in Nat
      /\ rd.line.x \in Nat /\ rd.line \in Lines
      /\ respQueue \in Seq(Posts) /\ \A e \in Posts : e.x \in Nat
      /\ rx \in Seq(Lines) /\ \A l \in Lines : l.x \in Nat
      /\ toModem \in Seq(Sent) /\ \A m \in Sent : m.x \in Nat
  BY Numbers
<1>1. PICK a \in 0 .. exch, b \in 0 .. exch : Between(a, b)
  BY DEF OrderInv
<1>2. a \in Nat /\ b \in Nat
  BY <1>0
<1>3. /\ served.from <= served.x /\ served.x <= exch /\ modem.x <= exch
      /\ Ascending(toModem, modem.x, exch)
  BY DEF OrderInv
<1>4. /\ served.from <= a /\ a <= b /\ b <= modem.x
      /\ Ascending(respQueue, served.from, a)
      /\ HasLine => a <= rd.line.x /\ rd.line.x <= b
      /\ Ascending(rx, b, modem.x)
  BY <1>1 DEF Between
<1>5. ASSUME NEW t \in Tasks, NEW c \in Commands, Call(t, c) PROVE OrderInv'
  BY <1>5, OrderKept DEF Call, HasLine
<1>6. ASSUME NEW t \in Tasks, AcquirePktRequestMutex(t) PROVE OrderInv'
  BY <1>6, OrderKept DEF AcquirePktRequestMutex, HasLine
<1>7. ASSUME NEW t \in Tasks, Register(t) PROVE OrderInv'
  BY <1>7, OrderKept DEF Register, HasLine
<1>8. ASSUME NEW t \in Tasks, NullCommand(t) PROVE OrderInv'
  BY <1>8, OrderKept DEF NullCommand, HasLine
<1>9. ASSUME NEW t \in Tasks, CheckComm(t) PROVE OrderInv'
  BY <1>9, OrderKept DEF CheckComm, HasLine
<1>10. ASSUME NEW t \in Tasks, SetPrefixAndType(t) PROVE OrderInv'
  BY <1>10, OrderKept DEF SetPrefixAndType, HasLine
<1>11. ASSUME NEW t \in Tasks, Timeout(t) PROVE OrderInv'
  BY <1>11, OrderKept DEF Timeout, HasLine
<1>12. ASSUME NEW t \in Tasks, FinishCommand(t) PROVE OrderInv'
  BY <1>12, OrderKept DEF FinishCommand, HasLine
<1>13. ASSUME NEW t \in Tasks, Unregister(t) PROVE OrderInv'
  BY <1>13, OrderKept DEF Unregister, HasLine
<1>14. ASSUME NEW t \in Tasks, DataSendShort(t) PROVE OrderInv'
  BY <1>14, OrderKept DEF DataSendShort, HasLine
<1>15. ASSUME NEW t \in Tasks, DataFinish(t) PROVE OrderInv'
  BY <1>15, OrderKept DEF DataFinish, HasLine
<1>16. ASSUME NEW t \in Tasks, ReleasePktRequestMutex(t) PROVE OrderInv'
  BY <1>16, OrderKept DEF ReleasePktRequestMutex, HasLine
<1>17. ASSUME NEW t \in Tasks, FillRequest(t) \/ DataSetType(t) PROVE OrderInv'
  <2>1. /\ exch' \in {exch, exch + 1}
        /\ UNCHANGED <<served, respQueue, rd, rx, toModem, modem>>
    BY <1>17 DEF FillRequest, DataSetType
  <2>2. exch' \in Nat /\ exch <= exch'
    BY <1>0, <2>1
  <2>3. Ascending(toModem, modem.x, exch')
    BY <1>0, <1>3, <2>2, AscendingRaise
  <2>4. a \in 0 .. exch' /\ b \in 0 .. exch' /\ served.x <= exch' /\ modem.x <= exch'
    BY <1>0, <1>3, <2>2
  <2>5. Between(a, b)'
    BY <1>1, <2>1 DEF Between, HasLine
  <2>. QED
    BY <1>3, <2>1, <2>3, <2>4, <2>5 DEF OrderInv
<1>18. ASSUME NEW t \in Tasks, CommSend(t) \/ DataSendAll(t) PROVE OrderInv'
  <2>1. UNCHANGED <<exch, served, respQueue, rd, rx, modem>>
    BY <1>18 DEF CommSend, DataSendAll
  <2>2. \/ toModem' = toModem
        \/ \E part \in {"cmd", "data"} : toModem' = Append(toModem, Message(cmd[t], part))
    BY <1>18 DEF CommSend, DataSendAll
  <2>3. \A part \in {"cmd", "data"} :
          Message(cmd[t], part) \in Sent /\ Message(cmd[t], part).x = exch
    BY DEF TypeOK, Message, Sent
  <2>4. \A part \in {"cmd", "data"} :
          Ascending(Append(toModem, Message(cmd[t], part)), modem.x, exch)
    BY <1>0, <1>3, <2>3, AscendingAppend
  <2>5. Ascending(toModem', modem.x, exch)
    BY <1>3, <2>2, <2>4
  <2>. QED
    BY <1>1, <1>3, <2>1, <2>5 DEF OrderInv, Between, HasLine
<1>19. ASSUME NEW t \in Tasks, Receive(t) PROVE OrderInv'
  <2>1. /\ UNCHANGED <<exch, rd, rx, toModem, modem>>
        /\ respQueue # <<>> /\ respQueue' = Tail(respQueue)
        /\ served'.x = exch /\ served'.from = Head(respQueue).x
    BY <1>19 DEF Receive, ReceivedQueue
  <2>2. /\ Head(respQueue).x \in Nat /\ Head(respQueue).x <= a
        /\ Ascending(respQueue', Head(respQueue).x, a)
    BY <1>0, <1>2, <1>4, <2>1, AscendingTail
  <2>3. Between(a, b)'
    BY <1>4, <2>1, <2>2 DEF Between, HasLine
  <2>4. Head(respQueue).x <= exch
    BY <1>0, <1>2, <1>3, <1>4, <2>2
  <2>. QED
    BY <1>0, <1>3, <2>1, <2>3, <2>4 DEF OrderInv
<1>20. ASSUME ModemStart PROVE OrderInv'
  <2>1. /\ UNCHANGED <<exch, served, respQueue, rd, rx>>
        /\ toModem # <<>> /\ toModem' = Tail(toModem) /\ modem'.x = Head(toModem).x
    BY <1>20 DEF ModemStart, taskVars, TypeOK, Modems
  <2>2. /\ Head(toModem).x \in Nat /\ modem.x <= Head(toModem).x /\ Head(toModem).x <= exch
        /\ Ascending(toModem', Head(toModem).x, exch)
    BY <1>0, <1>3, <2>1, AscendingTail
  <2>3. Ascending(rx, b, Head(toModem).x)
    BY <1>0, <1>2, <1>4, <2>2, AscendingRaise
  <2>4. b <= Head(toModem).x
    BY <1>0, <1>2, <1>4, <2>2
  <2>5. Between(a, b)'
    BY <1>4, <2>1, <2>3, <2>4 DEF Between, HasLine
  <2>. QED
    BY <1>1, <1>3, <2>1, <2>2, <2>5 DEF OrderInv
<1>21. ASSUME ModemLine \/ ModemFinal \/ ModemUrc PROVE OrderInv'
  <2>1. /\ UNCHANGED <<exch, served, respQueue, rd, toModem>>
        /\ modem'.x = modem.x
    BY <1>21 DEF ModemLine, ModemFinal, ModemUrc, taskVars, TypeOK, Modems
  <2>2. PICK l : rx' = Append(rx, l) /\ l \in Lines /\ l.x = modem.x
    <3>1. modem \in Modems
      BY DEF TypeOK
    <3>2. CASE ModemLine
      BY <3>1, <3>2 DEF ModemLine, LineOf, Line, Lines, UsesPrefix, Modems, Command
    <3>3. CASE ModemFinal
      <4>1. \A l \in FinalLines(modem.cmd) : l \in Lines /\ l.x = modem.x
        BY <3>1 DEF FinalLines, LineOf, Line, Lines, UsesPrefix, Modems, Command
      <4>. QED
        BY <3>3, <4>1 DEF ModemFinal
    <3>4. CASE ModemUrc
      <4>1. \A tok \in {"text", "urcToken"}, p \in Prefixes \cup {NoPrefix} :
              Line("urc", tok, p) \in Lines /\ Line("urc", tok, p).x = modem.x
        BY <3>1 DEF Line, Lines, Modems
      <4>. QED
        BY <3>4, <4>1, ConstantsAssumption DEF ModemUrc
    <3>. QED
      BY <1>21, <3>2, <3>3, <3>4
  <2>3. Ascending(rx', b, modem.x)
    BY <1>0, <1>2, <1>4, <2>2, AscendingAppend
  <2>4. Between(a, b)'
    BY <1>4, <2>1, <2>3 DEF Between, HasLine
  <2>. QED
    BY <1>1, <1>3, <2>1, <2>4 DEF OrderInv
<1>22. ASSUME ModemSilent PROVE OrderInv'
  <2>1. modem'.x = modem.x
    BY <1>22 DEF ModemSilent, TypeOK, Modems
  <2>. QED
    BY <1>22, <2>1, OrderKept DEF ModemSilent, taskVars, HasLine
<1>23. ASSUME TakeLine PROVE OrderInv'
  <2>1. /\ UNCHANGED <<exch, served, respQueue, toModem, modem>>
        /\ rx # <<>> /\ rx' = Tail(rx) /\ rd'.line = Head(rx)
    BY <1>23 DEF TakeLine, taskVars, modemVars, TypeOK, Readers
  <2>2. /\ Head(rx).x \in Nat /\ b <= Head(rx).x /\ Head(rx).x <= modem.x
        /\ Ascending(rx', Head(rx).x, modem.x)
    BY <1>0, <1>2, <1>4, <2>1, AscendingTail
  <2>3. a <= Head(rx).x /\ Head(rx).x \in 0 .. exch
    BY <1>0, <1>2, <1>3, <1>4, <2>2
  <2>4. PICK c \in 0 .. exch : c = Head(rx).x
    BY <2>3
  <2>5. Between(a, c)'
    BY <1>0, <1>4, <2>1, <2>2, <2>3, <2>4 DEF Between
  <2>. QED
    BY <1>1, <1>3, <2>1, <2>5 DEF OrderInv
<1>24. ASSUME PostStatus PROVE OrderInv'
  <2>1. UNCHANGED <<exch, served, rx, toModem, modem>> /\ ~HasLine' /\ HasLine
    BY <1>24 DEF PostStatus, taskVars, modemVars, HasLine, ReaderIdle
  <2>2. CASE respQueue # <<>>
    <3>1. respQueue' = respQueue
      BY <1>24, <2>2 DEF PostStatus, PostedQueue
    <3>. QED
      BY <2>1, <3>1, OrderKept
  <2>3. CASE respQueue = <<>>
    <3>1. respQueue' = <<Status>> /\ Status.x = rd.line.x
      BY <1>24, <2>3 DEF PostStatus, PostedQueue, Status
    <3>2. served.from <= rd.line.x /\ rd.line.x <= b /\ rd.line.x \in 0 .. exch
      BY <1>0, <1>2, <1>3, <1>4, <2>1
    <3>3. Ascending(respQueue', served.from, rd.line.x)
      BY <1>0, <3>1, <3>2 DEF Ascending
    <3>4. PICK c \in 0 .. exch : c = rd.line.x
      BY <3>2
    <3>5. Between(c, b)'
      BY <1>4, <2>1, <3>2, <3>3, <3>4 DEF Between
    <3>. QED
      BY <1>1, <1>3, <2>1, <3>5 DEF OrderInv
  <2>. QED
    BY <2>2, <2>3
<1>25. ASSUME UndefinedRejected PROVE OrderInv'
  <2>1. UNCHANGED <<exch, served, respQueue, toModem, modem>> /\ ~HasLine'
    BY <1>25 DEF UndefinedRejected, taskVars, modemVars, HasLine, ReaderIdle
  <2>2. Ascending(rx', b, modem.x)
    BY <1>0, <1>2, <1>4, <1>25, AscendingRest DEF UndefinedRejected
  <2>3. Between(a, b)'
    BY <1>4, <2>1, <2>2 DEF Between
  <2>. QED
    BY <1>1, <1>3, <2>1, <2>3 DEF OrderInv
<1>26. ASSUME Reader, ~TakeLine, ~PostStatus, ~UndefinedRejected PROVE OrderInv'
  BY <1>26, ReaderKeepsLine, OrderKept
<1>27. ASSUME Abort PROVE OrderInv'
  BY <1>27, OrderKept DEF Abort, taskVars, modemVars, HasLine, TypeOK, Readers
<1>28. ASSUME UNCHANGED vars PROVE OrderInv'
  BY <1>28, OrderKept DEF vars, HasLine
<1>. QED
  BY <1>5, <1>6, <1>7, <1>8, <1>9, <1>10, <1>11, <1>12, <1>13, <1>14, <1>15, <1>16,
     <1>17, <1>18, <1>19, <1>20, <1>21, <1>22, <1>23, <1>24, <1>25, <1>26, <1>27, <1>28
  DEF Next, TaskStep, Modem, Done

\* The invariant of the order, for whatever the timers, the modem and the comm
\* interface do: what the reader is about to post is no older than what was served.
THEOREM OrderAlways == Spec => []OrderInv
<1>1. Init => OrderInv
  <2>. SUFFICES ASSUME Init PROVE OrderInv
    OBVIOUS
  <2>1. /\ exch = 0 /\ served.from = 0 /\ served.x = 0 /\ modem.x = 0
        /\ ~HasLine /\ Len(rx) = 0 /\ Len(toModem) = 0 /\ Len(respQueue) = 0
    BY DEF Init, HasLine, ReaderIdle
  <2>2. Between(0, 0)
    BY <2>1 DEF Between, Ascending
  <2>. QED
    BY <2>1, <2>2 DEF OrderInv, Ascending
<1>. QED
  BY <1>1, OrderStep, TypeCorrect, PTL DEF Spec

-----------------------------------------------------------------------------
(* The packet layer implements AtExchange.                                    *)

\* The state of AtExchange that a state of the packet layer stands for.
Awaits == \E t \in Tasks : pc[t] \in InExchange
Box(q) == [i \in 1 .. Len(q) |-> q[i].x]
Last == [x |-> served.x, from |-> served.from]

\* A response queue that is not empty holds one status.
LEMMA OneStatus ==
  ASSUME NEW q \in Seq(Posts), Len(q) <= 1, q # <<>>
  PROVE  Len(q) = 1 /\ Len(Tail(q)) = 0 /\ Tail(q) \in Seq(Posts) /\ Head(q) = q[1]
<1>1. Len(q) \in Nat /\ Len(q) # 0
  BY EmptySeq, LenProperties, Zenon
<1>2. Len(q) = 1
  <2>. DEFINE n == Len(q)
  <2>1. n \in Nat /\ n # 0 /\ n <= 1
    BY <1>1
  <2>. HIDE DEF n
  <2>2. n = 1
    BY <2>1
  <2>. QED
    BY <2>2 DEF n
<1>3. /\ Tail(q) \in Seq(Posts) /\ Len(Tail(q)) = Len(q) - 1 /\ Head(q) = q[1]
  OBVIOUS
<1>. QED
  BY <1>2, <1>3

\* The mailbox is empty when the queue is, and has its head when it is not.
LEMMA Boxes ==
  ASSUME NEW q \in Seq(Posts), Len(q) <= 1
  PROVE  /\ q = <<>> => Box(q) = <<>>
         /\ q # <<>> => /\ Box(q) = <<q[1].x>> /\ Head(q) = q[1]
                        /\ Box(q) # <<>> /\ Box(Tail(q)) = <<>>
<1>1. ASSUME NEW r \in Seq(Posts), Len(r) = 0 PROVE Box(r) = <<>>
  <2>1. 1 .. Len(r) = {}
    BY <1>1
  <2>. QED
    BY <2>1 DEF Box
<1>2. ASSUME q # <<>>
      PROVE  Len(q) = 1 /\ Len(Tail(q)) = 0 /\ Tail(q) \in Seq(Posts) /\ Head(q) = q[1]
  BY <1>2, OneStatus
<1>3. ASSUME q # <<>> PROVE Box(q) = <<q[1].x>>
  BY <1>2, <1>3 DEF Box
<1>4. <<q[1].x>> # <<>>
  OBVIOUS
<1>5. ASSUME q = <<>> PROVE Box(q) = <<>>
  BY <1>1, <1>5
<1>6. ASSUME q # <<>> PROVE Box(Tail(q)) = <<>> /\ Head(q) = q[1]
  BY <1>1, <1>2, <1>6
<1>. QED
  BY <1>3, <1>4, <1>5, <1>6

\* A step that does not move the tasks in or out of an exchange, and leaves the
\* numbers and the queue alone, is invisible.
LEMMA Invisible ==
  ASSUME UNCHANGED <<exch, respQueue, served>>, Awaits' <=> Awaits
  PROVE  UNCHANGED Exchange!exVars
<1>1. Awaits \in BOOLEAN /\ Awaits' \in BOOLEAN
  BY DEF Awaits
<1>2. Awaits' = Awaits
  BY <1>1
<1>. QED
  BY <1>2 DEF Exchange!exVars, Awaits

\* A task is in an exchange before and after its step, or neither.
LEMMA Stays ==
  ASSUME TypeOK, NEW t \in Tasks, NEW l, pc' = [pc EXCEPT ![t] = l],
         pc[t] \in InExchange <=> l \in InExchange
  PROVE  Awaits' <=> Awaits
  BY DEF TypeOK, Awaits

\* A task begins an exchange: nobody was in one.
LEMMA Enters ==
  ASSUME TypeOK, MutexInv, NEW t \in Tasks, NEW l, pc' = [pc EXCEPT ![t] = l],
         pc[t] \in {"fill", "dataType"}, l \in InExchange
  PROVE  ~Awaits /\ Awaits'
  BY ConstantsAssumption DEF TypeOK, Awaits, MutexInv, Holding, Labels, InExchange

\* A task ends its exchange: nobody else was in one.
LEMMA Leaves ==
  ASSUME TypeOK, MutexInv, NEW t \in Tasks, NEW l, pc' = [pc EXCEPT ![t] = l],
         pc[t] \in InExchange, l \notin InExchange
  PROVE  Awaits /\ ~Awaits'
  BY ConstantsAssumption DEF TypeOK, Awaits, MutexInv, Holding, Labels, InExchange

\* Every step of the packet layer is a step of AtExchange, or invisible to it.
LEMMA ExchangeStep ==
  ASSUME TypeOK, MutexInv, OrderInv, [Next]_vars
  PROVE  [Exchange!ExNext]_(Exchange!exVars)
<1>. DEFINE Goal == [Exchange!ExNext]_(Exchange!exVars)
<1>0. respQueue \in Seq(Posts) /\ Len(respQueue) <= 1
  BY DEF TypeOK
<1>1. ASSUME NEW t \in Tasks, NEW c \in Commands, Call(t, c) PROVE Goal
  <2>1. Awaits' <=> Awaits
    BY <1>1, Stays DEF Call, Goto, InExchange
  <2>. QED
    BY <1>1, <2>1, Invisible DEF Call
<1>2. ASSUME NEW t \in Tasks, AcquirePktRequestMutex(t) PROVE Goal
  <2>1. Awaits' <=> Awaits
    BY <1>2, Stays DEF AcquirePktRequestMutex, Goto, AfterRegister, InExchange
  <2>. QED
    BY <1>2, <2>1, Invisible DEF AcquirePktRequestMutex
<1>3. ASSUME NEW t \in Tasks, Register(t) PROVE Goal
  <2>1. Awaits' <=> Awaits
    BY <1>3, Stays DEF Register, Goto, AfterRegister, InExchange
  <2>. QED
    BY <1>3, <2>1, Invisible DEF Register
<1>4. ASSUME NEW t \in Tasks, NullCommand(t) PROVE Goal
  <2>1. Awaits' <=> Awaits
    BY <1>4, Stays DEF NullCommand, Goto, AfterCommand, InExchange
  <2>. QED
    BY <1>4, <2>1, Invisible DEF NullCommand
<1>5. ASSUME NEW t \in Tasks, CommSend(t) PROVE Goal
  <2>1. Awaits' <=> Awaits
    BY <1>5, Stays DEF CommSend, Goto, InExchange
  <2>. QED
    BY <1>5, <2>1, Invisible DEF CommSend
<1>6. ASSUME NEW t \in Tasks, FinishCommand(t) PROVE Goal
  <2>1. Awaits' <=> Awaits
    BY <1>6, Stays DEF FinishCommand, Goto, AfterCommand, InExchange
  <2>. QED
    BY <1>6, <2>1, Invisible DEF FinishCommand
<1>7. ASSUME NEW t \in Tasks, Unregister(t) PROVE Goal
  <2>1. Awaits' <=> Awaits
    BY <1>7, Stays DEF Unregister, Goto, InExchange
  <2>. QED
    BY <1>7, <2>1, Invisible DEF Unregister
<1>8. ASSUME NEW t \in Tasks, DataSendAll(t) PROVE Goal
  <2>1. Awaits' <=> Awaits
    BY <1>8, Stays DEF DataSendAll, Goto, InExchange
  <2>. QED
    BY <1>8, <2>1, Invisible DEF DataSendAll
<1>9. ASSUME NEW t \in Tasks, DataFinish(t) PROVE Goal
  <2>1. Awaits' <=> Awaits
    BY <1>9, Stays DEF DataFinish, Goto, InExchange
  <2>. QED
    BY <1>9, <2>1, Invisible DEF DataFinish
<1>10. ASSUME NEW t \in Tasks, ReleasePktRequestMutex(t) PROVE Goal
  <2>1. Awaits' <=> Awaits
    BY <1>10, Stays DEF ReleasePktRequestMutex, Goto, InExchange
  <2>. QED
    BY <1>10, <2>1, Invisible DEF ReleasePktRequestMutex
<1>11. ASSUME ~Awaits, Awaits', exch' = exch + 1, UNCHANGED <<respQueue, served>>
       PROVE  Goal
  <2>1. Awaits' = TRUE
    BY <1>11
  <2>2. Exchange!Begin
    BY <1>11, <2>1 DEF Exchange!Begin, Awaits
  <2>. QED
    BY <2>2 DEF Exchange!ExNext
<1>12. ASSUME Awaits, ~Awaits', UNCHANGED <<exch, respQueue, served>>
       PROVE  Goal
  <2>1. Awaits' = FALSE
    BY <1>12
  <2>2. Exchange!GiveUp
    BY <1>12, <2>1 DEF Exchange!GiveUp, Awaits
  <2>. QED
    BY <2>2 DEF Exchange!ExNext
<1>13. ASSUME NEW t \in Tasks, FillRequest(t) PROVE Goal
  <2>1. ~Awaits /\ Awaits'
    BY <1>13, Enters DEF FillRequest, Goto, InExchange
  <2>. QED
    BY <1>11, <1>13, <2>1 DEF FillRequest
<1>14. ASSUME NEW t \in Tasks, DataSetType(t) PROVE Goal
  <2>1. CASE cmd[t].data
    <3>1. ~Awaits /\ Awaits'
      BY <1>14, <2>1, Enters DEF DataSetType, Goto, InExchange
    <3>. QED
      BY <1>11, <1>14, <2>1, <3>1 DEF DataSetType
  <2>2. CASE ~cmd[t].data
    <3>1. Awaits' <=> Awaits
      BY <1>14, <2>2, Stays DEF DataSetType, Goto, InExchange
    <3>. QED
      BY <1>14, <2>2, <3>1, Invisible DEF DataSetType
  <2>. QED
    BY <2>1, <2>2
<1>15. ASSUME NEW t \in Tasks, CheckComm(t) \/ SetPrefixAndType(t) PROVE Goal
  <2>1. /\ pc[t] \in InExchange /\ UNCHANGED <<exch, respQueue, served>>
        /\ \E l : pc' = [pc EXCEPT ![t] = l]
    BY <1>15 DEF CheckComm, SetPrefixAndType, Goto, InExchange
  <2>2. PICK l : pc' = [pc EXCEPT ![t] = l]
    BY <2>1
  <2>3. CASE l \in InExchange
    BY <2>1, <2>2, <2>3, Stays, Invisible
  <2>4. CASE l \notin InExchange
    BY <1>12, <2>1, <2>2, <2>4, Leaves
  <2>. QED
    BY <2>3, <2>4
<1>16. ASSUME NEW t \in Tasks, Timeout(t) \/ DataSendShort(t) PROVE Goal
  <2>1. /\ pc[t] \in InExchange /\ UNCHANGED <<exch, respQueue, served>>
        /\ \E l : l \notin InExchange /\ pc' = [pc EXCEPT ![t] = l]
    BY <1>16 DEF Timeout, DataSendShort, Goto, InExchange
  <2>. QED
    BY <1>12, <2>1, Leaves
<1>17. ASSUME NEW t \in Tasks, Receive(t) PROVE Goal
  <2>0. /\ pc[t] \in InExchange
        /\ \E l \in {"finish", "dataFinish"} : pc' = [pc EXCEPT ![t] = l]
    BY <1>17 DEF Receive, Goto, InExchange
  <2>1. Awaits /\ ~Awaits'
    BY <2>0, Leaves DEF InExchange
  <2>2. Awaits' = FALSE
    BY <2>1
  <2>3. /\ respQueue # <<>> /\ respQueue' = Tail(respQueue) /\ exch' = exch
        /\ Last' = [x |-> exch, from |-> Head(respQueue).x]
    BY <1>17 DEF Receive, ReceivedQueue, Last
  <2>4. /\ Box(respQueue) = <<respQueue[1].x>> /\ Head(respQueue) = respQueue[1]
        /\ Box(respQueue) # <<>> /\ Box(respQueue') = <<>>
    BY <1>0, <2>3, Boxes
  <2>5. /\ Last' = [x |-> exch, from |-> Head(Box(respQueue))]
        /\ Box(respQueue') = Tail(Box(respQueue))
    BY <2>3, <2>4
  <2>6. Exchange!Take
    BY <2>1, <2>2, <2>3, <2>4, <2>5 DEF Exchange!Take, Awaits, Box, Last
  <2>. QED
    BY <2>6 DEF Exchange!ExNext
<1>18. ASSUME PostStatus PROVE Goal
  <2>1. UNCHANGED <<exch, served, pc>> /\ HasLine
    BY <1>18 DEF PostStatus, taskVars, HasLine
  <2>2. Awaits' = Awaits
    BY <2>1 DEF Awaits
  <2>3. CASE respQueue # <<>>
    BY <1>18, <2>1, <2>2, <2>3, Invisible DEF PostStatus, PostedQueue
  <2>4. CASE respQueue = <<>>
    <3>1. respQueue' = <<Status>> /\ Status.x = rd.line.x
      BY <1>18, <2>4 DEF PostStatus, PostedQueue, Status
    <3>2. Box(respQueue) = <<>>
      BY <1>0, <2>4, Boxes
    <3>3. Box(respQueue') = <<rd.line.x>>
      BY <3>1 DEF Box
    <3>4. rd.line.x \in 0 .. exch /\ rd.line.x >= served.from
      BY <2>1, Numbers DEF OrderInv, Between
    <3>5. PICK a \in 0 .. exch : a = rd.line.x
      BY <3>4
    <3>6. Exchange!Post(a)
      BY <2>1, <2>2, <3>2, <3>3, <3>4, <3>5 DEF Exchange!Post, Awaits, Box
    <3>. QED
      BY <3>6 DEF Exchange!ExNext
  <2>. QED
    BY <2>3, <2>4
<1>19. ASSUME Modem \/ Abort \/ (Reader /\ ~PostStatus) PROVE Goal
  <2>1. UNCHANGED <<exch, served, pc>>
    BY <1>19, EnvStep DEF EnvFrame
  <2>2. respQueue' = respQueue
    BY <1>19, ReaderKeepsLine
    DEF Modem, ModemStart, ModemLine, ModemFinal, ModemSilent, ModemUrc, Abort,
        TakeLine, UndefinedRejected
  <2>3. Awaits' <=> Awaits
    BY <2>1 DEF Awaits
  <2>. QED
    BY <2>1, <2>2, <2>3, Invisible
<1>20. ASSUME UNCHANGED vars PROVE Goal
  <2>1. Awaits' <=> Awaits
    BY <1>20 DEF vars, Awaits
  <2>. QED
    BY <1>20, <2>1, Invisible DEF vars
<1>. QED
  BY <1>1, <1>2, <1>3, <1>4, <1>5, <1>6, <1>7, <1>8, <1>9, <1>10, <1>13, <1>14, <1>15,
     <1>16, <1>17, <1>18, <1>19, <1>20
  DEF Next, TaskStep, Done

\* The packet layer keeps the promise of AtExchange, whatever the modem, the
\* timers and the comm interface do (ImplementsExchange).
THEOREM KeepsItsPromise == Spec => ImplementsExchange
<1>1. Init => Exchange!ExInit
  <2>. SUFFICES ASSUME Init PROVE Exchange!ExInit
    OBVIOUS
  <2>1. respQueue \in Seq(Posts) /\ Len(respQueue) <= 1 /\ respQueue = <<>>
    BY TypeInit DEF TypeOK, Init
  <2>2. Box(respQueue) = <<>>
    BY <2>1, Boxes
  <2>3. Awaits = FALSE
    BY DEF Init, Awaits, InExchange
  <2>4. exch = 0 /\ served.x = 0 /\ served.from = 0
    BY DEF Init
  <2>. QED
    BY <2>2, <2>3, <2>4 DEF Exchange!ExInit, Box, Awaits
<1>2. TypeOK /\ MutexInv /\ OrderInv /\ [Next]_vars => [Exchange!ExNext]_(Exchange!exVars)
  BY ExchangeStep
<1>3. IInv => TypeOK /\ MutexInv
  BY DEF IInv
<1>. QED
  BY <1>1, <1>2, <1>3, IInvAlways, OrderAlways, PTL
  DEF Spec, ImplementsExchange, Exchange!ExSpec

-----------------------------------------------------------------------------
(* An exchange whose answer comes in time.                                    *)

\* A wait expires only when no answer is on its way; an answer that has begun is
\* completed; what the modem sends on its own is no answer of a command.
InTime ==
  /\ EarlyTimeout = FALSE /\ BreakOff = FALSE /\ Noise = FALSE
  /\ \A c \in Commands : c.prefix \notin UrcPrefixes

IsAnswer(l) == l.src = "answer"

\* A line the modem sends on its own can be told from an answer.
Tellable(l) ==
  ~IsAnswer(l) => l.tok = "urcToken" \/ (l.tok = "text" /\ l.prefix \in UrcPrefixes)

\* The reader takes its line for a part of an answer, for the end of one, and
\* has marked the command as answered.
Deep == {"solicited", "processLine", "resetType", "convert", "loadCB", "loadData",
         "callback", "post", "undefined"}
Closing == {"resetType", "convert", "loadCB", "loadData", "callback", "post"}
Closed == Closing \ {"resetType"}

TellInv ==
  /\ \A i \in 1 .. Len(rx) : Tellable(rx[i])
  /\ HasLine => Tellable(rd.line)
  /\ rd.pc \in Deep => IsAnswer(rd.line)
  /\ ctx.pktRespPrefixBuf \notin UrcPrefixes
  /\ \A t \in Tasks : cmd[t].prefix \notin UrcPrefixes

\* What the task in progress has set in the context.
CallOf(t) ==
  /\ pc[t] \in CommandLabels => /\ exch # 0 /\ ctx.pPktUsrData = exch
                                /\ ctx.pktRespCB \in {0, exch}
  /\ cmd[t].api \in TokenApis /\ pc[t] \in RegisteredLabels => ctx.extraTable # 0
  /\ pc[t] \in {"commSend", "wait"} => /\ cmd[t].type # "NO_COMMAND"
                                       /\ ctx.PktioAtCmdType \in {cmd[t].type, "NO_COMMAND"}
  /\ pc[t] \in {"dataSend", "dataWait"} => ctx.PktioAtCmdType \in {"NO_RESULT", "NO_COMMAND"}
CallInv == \A t \in Tasks : CallOf(t)

\* What a task waits for the answer to, and what a message asks of the modem.
DataPart == [NoCmd EXCEPT !.type = "NO_RESULT"]
Asked(t) == IF pc[t] = "wait" THEN cmd[t] ELSE DataPart
Asks(m) == IF m.part = "cmd" THEN m.cmd ELSE DataPart

\* A line of the answer to request c of exchange n, and one that ends the answer.
Fits(l, c, n) ==
  /\ l.x = n /\ l.tok # "urcToken"
  /\ l.tok = "extra" => c.api \in TokenApis
  /\ l.tok # "text" => l.prefix = NoPrefix
Ends(l, c) == l.tok # "text" \/ c.type \in NoResultCode

\* The answers among the lines s: those of c, with none after the one that ends it.
Answers(s) == \E i \in 1 .. Len(s) : IsAnswer(s[i])
Ended(s, c) == \E i \in 1 .. Len(s) : IsAnswer(s[i]) /\ Ends(s[i], c)
Unended(s, c) == \E i \in 1 .. Len(s) : IsAnswer(s[i]) /\ ~Ends(s[i], c)
Partial(s, c, n) ==
  /\ \A i \in 1 .. Len(s) : IsAnswer(s[i]) => Fits(s[i], c, n)
  /\ \A i, j \in 1 .. Len(s) : i < j /\ IsAnswer(s[i]) /\ Ends(s[i], c) => ~IsAnswer(s[j])

\* The reader has a line of an answer.
Reading == HasLine /\ IsAnswer(rd.line)

\* The request on its way to the modem is alone; the modem executes that of c.
Asking(c) ==
  /\ toModem # <<>> => /\ Len(toModem) = 1 /\ toModem[1].x = exch /\ Asks(toModem[1]) = c
                       /\ ~modem.busy /\ ~Reading /\ ~Answers(rx) /\ atResp.lines = <<>>
  /\ modem.busy => modem.x = exch /\ modem.cmd = c

\* The answer is in order, from the modem through the comm interface to the reader.
Answering(c) ==
  /\ Partial(rx, c, exch)
  /\ Ended(rx, c) => ~modem.busy
  /\ Reading => Fits(rd.line, c, exch)
  /\ Reading /\ Ends(rd.line, c) => ~modem.busy /\ ~Answers(rx)

\* Something of the answer is here that does not end it; the end is to come.
Open(c) == atResp.lines # <<>> \/ (Reading /\ ~Ends(rd.line, c)) \/ Unended(rx, c)
ToCome(c) == (modem.busy /\ modem.lines > 0) \/ (Reading /\ Ends(rd.line, c)) \/ Ended(rx, c)

\* The response collected is that of c, and the command is not marked as answered
\* before the line that ends it.
Collecting(c) ==
  /\ \A i \in 1 .. Len(atResp.lines) : IsAnswer(atResp.lines[i]) /\ atResp.lines[i].x = exch
  /\ rd.pc \in {"solicited", "processLine"} => ctx.PktioAtCmdType = c.type
  /\ rd.pc = "processLine" => rd.type = c.type
  /\ rd.pc \in Closing => Ends(rd.line, c)
  /\ rd.pc = "undefined" /\ Ends(rd.line, c) => atResp.lines = <<>>
  /\ atResp.lines # <<>> /\ rd.pc \notin Closed => ctx.PktioAtCmdType = c.type
  /\ atResp.lines # <<>> /\ c.type \in NoResultCode => rd.pc \in Closing
  /\ Open(c) => ToCome(c)

CallingBack(t) ==
  /\ rd.pc = "loadCB" => ctx.pktRespCB # 0
  /\ rd.pc = "loadData" => rd.cb = ctx.pktRespCB /\ ctx.pktRespCB # 0
  /\ rd.pc = "callback" => rd.cb = exch /\ rd.usr = exch /\ pc[t] = "wait"

\* An answer is on its way to task t.
WaitLabels == {"wait", "dataWait"}
Flow(t) ==
  /\ pc[t] \in WaitLabels
  /\ respQueue = <<>>
  /\ Asking(Asked(t)) /\ Answering(Asked(t)) /\ Collecting(Asked(t)) /\ CallingBack(t)

\* Something of an exchange is between the tasks and the response queue.
Active ==
  /\ rd.pc # "stopped"
  /\ toModem # <<>> \/ modem.busy \/ Answers(rx) \/ Reading \/ atResp.lines # <<>>

FlowInv ==
  /\ rd.pc # "fault"
  /\ rd.pc = "stopped" => atResp.lines = <<>>
  /\ Active => \E t \in Tasks : Flow(t)
  /\ respQueue # <<>> => /\ \E t \in Tasks : pc[t] \in WaitLabels
                         /\ IsAnswer(respQueue[1]) /\ respQueue[1].x = exch
  /\ IsAnswer(served) /\ served.from = served.x

TInv == TellInv /\ CallInv /\ FlowInv

-----------------------------------------------------------------------------
(* What the end of a sequence of lines, and its first line, say of the answer. *)

\* No line, no answer.
LEMMA NoLines ==
  ASSUME NEW c, NEW n
  PROVE  Partial(<<>>, c, n) /\ ~Answers(<<>>) /\ ~Ended(<<>>, c) /\ ~Unended(<<>>, c)
  BY DEF Partial, Answers, Ended, Unended

\* An answer that has begun ends or does not.
LEMMA SomeAnswer ==
  ASSUME NEW s, NEW c
  PROVE  Answers(s) <=> Ended(s, c) \/ Unended(s, c)
  BY DEF Answers, Ended, Unended

\* One more line.
LEMMA OneMore ==
  ASSUME NEW s \in Seq(Lines), NEW l \in Lines, NEW c
  PROVE  /\ Answers(Append(s, l)) <=> Answers(s) \/ IsAnswer(l)
         /\ Ended(Append(s, l), c) <=> Ended(s, c) \/ (IsAnswer(l) /\ Ends(l, c))
         /\ Unended(Append(s, l), c) <=> Unended(s, c) \/ (IsAnswer(l) /\ ~Ends(l, c))
<1>. DEFINE q == Append(s, l)
<1>1. /\ Len(q) = Len(s) + 1 /\ Len(s) \in Nat
      /\ \A i \in 1 .. Len(s) : q[i] = s[i]
      /\ q[Len(s) + 1] = l
  BY AppendProperties
<1>. HIDE DEF q
<1>2. /\ \A i \in 1 .. Len(q) : i \in 1 .. Len(s) \/ i = Len(s) + 1
      /\ \A i \in 1 .. Len(s) : i \in 1 .. Len(q)
      /\ Len(s) + 1 \in 1 .. Len(q)
  BY <1>1
<1>3. Answers(q) <=> Answers(s) \/ IsAnswer(l)
  BY <1>1, <1>2, Zenon DEF Answers
<1>4. Ended(q, c) <=> Ended(s, c) \/ (IsAnswer(l) /\ Ends(l, c))
  BY <1>1, <1>2, Zenon DEF Ended
<1>5. Unended(q, c) <=> Unended(s, c) \/ (IsAnswer(l) /\ ~Ends(l, c))
  BY <1>1, <1>2, Zenon DEF Unended
<1>. QED
  BY <1>3, <1>4, <1>5 DEF q

\* One more line of an answer that has not ended, or between its lines.
LEMMA OneMorePart ==
  ASSUME NEW s \in Seq(Lines), NEW l \in Lines, NEW c, NEW n, Partial(s, c, n),
         IsAnswer(l) => Fits(l, c, n) /\ ~Ended(s, c)
  PROVE  Partial(Append(s, l), c, n)
<1>. DEFINE q == Append(s, l)
<1>1. /\ Len(q) = Len(s) + 1 /\ Len(s) \in Nat
      /\ \A i \in 1 .. Len(s) : q[i] = s[i]
      /\ q[Len(s) + 1] = l
  BY AppendProperties
<1>. HIDE DEF q
<1>2. \A i \in 1 .. Len(q) : i \in 1 .. Len(s) \/ i = Len(s) + 1
  BY <1>1
<1>3. ASSUME NEW i \in 1 .. Len(q), IsAnswer(q[i]) PROVE Fits(q[i], c, n)
  BY <1>1, <1>2, <1>3 DEF Partial
<1>4. ASSUME NEW i \in 1 .. Len(q), NEW j \in 1 .. Len(q), i < j, IsAnswer(q[i]), Ends(q[i], c)
      PROVE  ~IsAnswer(q[j])
  <2>1. i \in 1 .. Len(s)
    BY <1>1, <1>4
  <2>2. CASE j \in 1 .. Len(s)
    BY <1>1, <1>4, <2>1, <2>2 DEF Partial
  <2>3. CASE j = Len(s) + 1
    BY <1>1, <1>4, <2>1, <2>3 DEF Ended
  <2>. QED
    BY <1>2, <2>2, <2>3
<1>. QED
  BY <1>3, <1>4 DEF Partial, q

\* The first line is taken.
LEMMA FirstTaken ==
  ASSUME NEW s \in Seq(Lines), s # <<>>, NEW c
  PROVE  /\ Answers(s) <=> IsAnswer(Head(s)) \/ Answers(Tail(s))
         /\ Ended(s, c) <=> (IsAnswer(Head(s)) /\ Ends(Head(s), c)) \/ Ended(Tail(s), c)
         /\ Unended(s, c) <=> (IsAnswer(Head(s)) /\ ~Ends(Head(s), c)) \/ Unended(Tail(s), c)
<1>. DEFINE q == Tail(s)
            h == Head(s)
<1>1. /\ Len(s) \in Nat /\ Len(s) # 0 /\ h = s[1]
      /\ Len(q) = Len(s) - 1 /\ \A i \in 1 .. Len(q) : q[i] = s[i + 1]
  BY HeadTailProperties, EmptySeq
<1>. HIDE DEF q, h
<1>2. /\ 1 \in 1 .. Len(s)
      /\ \A i \in 1 .. Len(q) : i + 1 \in 1 .. Len(s)
      /\ \A i \in 1 .. Len(s) : i = 1 \/ \E j \in 1 .. Len(q) : i = j + 1
  <2>1. ASSUME NEW i \in 1 .. Len(s), i # 1 PROVE i - 1 \in 1 .. Len(q) /\ i = (i - 1) + 1
    BY <1>1, <2>1
  <2>. QED
    BY <1>1, <2>1
<1>3. Answers(s) <=> IsAnswer(h) \/ Answers(q)
  BY <1>1, <1>2, Zenon DEF Answers
<1>4. Ended(s, c) <=> (IsAnswer(h) /\ Ends(h, c)) \/ Ended(q, c)
  BY <1>1, <1>2, Zenon DEF Ended
<1>5. Unended(s, c) <=> (IsAnswer(h) /\ ~Ends(h, c)) \/ Unended(q, c)
  BY <1>1, <1>2, Zenon DEF Unended
<1>. QED
  BY <1>3, <1>4, <1>5 DEF q, h

\* What is taken of an answer fits, and if it ends the answer nothing follows.
LEMMA FirstPart ==
  ASSUME NEW s \in Seq(Lines), s # <<>>, NEW c, NEW n, Partial(s, c, n)
  PROVE  /\ Partial(Tail(s), c, n)
         /\ IsAnswer(Head(s)) => Fits(Head(s), c, n)
         /\ IsAnswer(Head(s)) /\ Ends(Head(s), c) => ~Answers(Tail(s))
<1>. DEFINE q == Tail(s)
            h == Head(s)
<1>1. /\ Len(s) \in Nat /\ Len(s) # 0 /\ h = s[1]
      /\ Len(q) = Len(s) - 1 /\ \A i \in 1 .. Len(q) : q[i] = s[i + 1]
  BY HeadTailProperties, EmptySeq
<1>. HIDE DEF q, h
<1>2. 1 \in 1 .. Len(s) /\ \A i \in 1 .. Len(q) : i + 1 \in 1 .. Len(s) /\ 1 < i + 1
  BY <1>1
<1>3. IsAnswer(h) => Fits(h, c, n)
  BY <1>1, <1>2 DEF Partial
<1>4. IsAnswer(h) /\ Ends(h, c) => ~Answers(q)
  BY <1>1, <1>2, Zenon DEF Partial, Answers
<1>5. ASSUME NEW i \in 1 .. Len(q), IsAnswer(q[i]) PROVE Fits(q[i], c, n)
  BY <1>1, <1>2, <1>5, Zenon DEF Partial
<1>6. ASSUME NEW i \in 1 .. Len(q), NEW j \in 1 .. Len(q), i < j, IsAnswer(q[i]), Ends(q[i], c)
      PROVE  ~IsAnswer(q[j])
  <2>1. i + 1 < j + 1
    BY <1>6
  <2>. QED
    BY <1>1, <1>2, <1>6, <2>1, Zenon DEF Partial
<1>7. Partial(q, c, n)
  BY <1>5, <1>6 DEF Partial
<1>. QED
  BY <1>3, <1>4, <1>7 DEF q, h

\* The first n lines are dropped: what is left of an answer still has its end.
LEMMA SomeDropped ==
  ASSUME NEW s \in Seq(Lines), NEW k \in 0 .. Len(s), NEW c, NEW n, Partial(s, c, n)
  PROVE  LET r == SubSeq(s, k + 1, Len(s)) IN
         /\ Partial(r, c, n)
         /\ Answers(r) => Answers(s)
         /\ Ended(r, c) => Ended(s, c)
         /\ Unended(r, c) => Unended(s, c) /\ (Ended(s, c) => Ended(r, c))
<1>. DEFINE q == SubSeq(s, k + 1, Len(s))
<1>1. /\ Len(s) \in Nat /\ Len(q) = Len(s) - k
      /\ \A i \in 1 .. Len(q) : q[i] = s[k + i]
  BY SubSeqProperties
<1>. HIDE DEF q
<1>2. /\ \A i \in 1 .. Len(q) : k + i \in 1 .. Len(s)
      /\ \A i \in 1 .. Len(q), j \in 1 .. Len(s) :
           ~(j < k + i) => j = k + i \/ \E m \in 1 .. Len(q) : j = k + m
  <2>1. ASSUME NEW i \in 1 .. Len(q), NEW j \in 1 .. Len(s), ~(j < k + i)
        PROVE  j - k \in 1 .. Len(q) /\ j = k + (j - k)
    BY <1>1, <2>1
  <2>. QED
    BY <1>1, <2>1
<1>3. Answers(q) => Answers(s)
  BY <1>1, <1>2, Zenon DEF Answers
<1>4. Ended(q, c) => Ended(s, c)
  BY <1>1, <1>2, Zenon DEF Ended
<1>5. Unended(q, c) => Unended(s, c)
  BY <1>1, <1>2, Zenon DEF Unended
<1>6. ASSUME Unended(q, c), Ended(s, c) PROVE Ended(q, c)
  <2>1. PICK i \in 1 .. Len(q) : IsAnswer(q[i]) /\ ~Ends(q[i], c)
    BY <1>6 DEF Unended
  <2>2. PICK j \in 1 .. Len(s) : IsAnswer(s[j]) /\ Ends(s[j], c)
    BY <1>6 DEF Ended
  <2>3. ~(j < k + i)
    BY <1>1, <1>2, <2>1, <2>2, Zenon DEF Partial
  <2>4. \E m \in 1 .. Len(q) : j = k + m
    BY <1>2, <2>3
  <2>. QED
    BY <1>1, <2>2, <2>4, Zenon DEF Ended
<1>7. ASSUME NEW i \in 1 .. Len(q), IsAnswer(q[i]) PROVE Fits(q[i], c, n)
  BY <1>1, <1>2, <1>7, Zenon DEF Partial
<1>8. ASSUME NEW i \in 1 .. Len(q), NEW j \in 1 .. Len(q), i < j, IsAnswer(q[i]), Ends(q[i], c)
      PROVE  ~IsAnswer(q[j])
  <2>1. k + i < k + j
    BY <1>8
  <2>. QED
    BY <1>1, <1>2, <1>8, <2>1, Zenon DEF Partial
<1>9. Partial(q, c, n)
  BY <1>7, <1>8 DEF Partial
<1>. QED
  BY <1>3, <1>4, <1>5, <1>6, <1>9 DEF q

-----------------------------------------------------------------------------
(* The steps keep what tells answers from the modem's own lines.              *)

\* The line the modem sends on its own can be told from an answer, if there is
\* no noise; so the others, which are answers.
LEMMA ModemSends ==
  ASSUME InTime, TypeOK, Modem
  PROVE  /\ UNCHANGED <<taskVars, ctx, respQueue, atResp, rd, commOpen>>
         /\ rx' = rx \/ \E l \in Lines : Tellable(l) /\ rx' = Append(rx, l)
<1>1. modem \in Modems
  BY DEF TypeOK
<1>2. CASE ModemStart \/ ModemSilent
  BY <1>2 DEF ModemStart, ModemSilent
<1>3. CASE ModemLine
  <2>1. LineOf(modem.cmd) \in Lines /\ Tellable(LineOf(modem.cmd))
    BY <1>1 DEF LineOf, Line, Lines, UsesPrefix, Modems, Command, Tellable, IsAnswer
  <2>. QED
    BY <1>3, <2>1 DEF ModemLine
<1>4. CASE ModemFinal
  <2>1. \A l \in FinalLines(modem.cmd) : l \in Lines /\ Tellable(l)
    BY <1>1 DEF FinalLines, LineOf, Line, Lines, UsesPrefix, Modems, Command, Tellable,
       IsAnswer
  <2>. QED
    BY <1>4, <2>1 DEF ModemFinal
<1>5. CASE ModemUrc
  <2>1. \A p \in UrcPrefixes : Line("urc", "text", p) \in Lines /\ Tellable(Line("urc", "text", p))
    BY <1>1, ConstantsAssumption DEF Line, Lines, Modems, Tellable
  <2>2. Line("urc", "urcToken", NoPrefix) \in Lines /\ Tellable(Line("urc", "urcToken", NoPrefix))
    BY <1>1 DEF Line, Lines, Modems, Tellable
  <2>. QED
    BY <1>5, <2>1, <2>2 DEF ModemUrc, InTime
<1>. QED
  BY <1>2, <1>3, <1>4, <1>5 DEF Modem

\* A request function leaves the reader and the modem alone, and the prefix it
\* sets is that of its request.
LEMMA TaskSets ==
  ASSUME TypeOK, NEW t \in Tasks, (\E c \in Commands : Call(t, c)) \/ TaskStep(t)
  PROVE  /\ UNCHANGED <<rx, rd, modem, atResp, commOpen>>
         /\ ctx'.pktRespPrefixBuf \in {ctx.pktRespPrefixBuf, cmd[t].prefix}
         /\ \/ cmd' = cmd
            \/ \E c \in Commands \cup {NoCmd} : cmd' = [cmd EXCEPT ![t] = c]
<1>1. ctx \in Ctx
  BY DEF TypeOK
<1>. USE <1>1 DEF Ctx
<1>2. CASE \E c \in Commands : Call(t, c)
  BY <1>2 DEF Call
<1>3. CASE AcquirePktRequestMutex(t)
  BY <1>3 DEF AcquirePktRequestMutex
<1>4. CASE Register(t)
  BY <1>4 DEF Register, Registered
<1>5. CASE NullCommand(t)
  BY <1>5 DEF NullCommand
<1>6. CASE FillRequest(t)
  BY <1>6 DEF FillRequest, Filled
<1>7. CASE CheckComm(t)
  BY <1>7 DEF CheckComm
<1>8. CASE SetPrefixAndType(t)
  BY <1>8 DEF SetPrefixAndType
<1>9. CASE CommSend(t)
  BY <1>9 DEF CommSend
<1>10. CASE Receive(t)
  BY <1>10 DEF Receive
<1>11. CASE Timeout(t)
  BY <1>11 DEF Timeout
<1>12. CASE FinishCommand(t)
  BY <1>12 DEF FinishCommand, Finished
<1>13. CASE Unregister(t)
  BY <1>13 DEF Unregister, Unregistered
<1>14. CASE DataSetType(t)
  BY <1>14 DEF DataSetType
<1>15. CASE DataSendAll(t)
  BY <1>15 DEF DataSendAll
<1>16. CASE DataSendShort(t)
  BY <1>16 DEF DataSendShort
<1>17. CASE DataFinish(t)
  BY <1>17 DEF DataFinish
<1>18. CASE ReleasePktRequestMutex(t)
  BY <1>18 DEF ReleasePktRequestMutex
<1>. QED
  BY <1>2, <1>3, <1>4, <1>5, <1>6, <1>7, <1>8, <1>9, <1>10, <1>11, <1>12, <1>13, <1>14,
     <1>15, <1>16, <1>17, <1>18 DEF TaskStep

\* Answers and the modem's own lines can be told apart, and the reader does.
LEMMA TellStep == ASSUME InTime, TypeOK, TellInv, [Next]_vars PROVE TellInv'
<1>0. /\ rx \in Seq(Lines) /\ rd \in Readers /\ rd.line \in Lines
      /\ cmd \in [Tasks -> Command] /\ ctx \in Ctx
  BY DEF TypeOK, Readers
<1>1. ASSUME NEW t \in Tasks, (\E c \in Commands : Call(t, c)) \/ TaskStep(t) PROVE TellInv'
  <2>1. /\ rx' = rx /\ rd' = rd
        /\ ctx'.pktRespPrefixBuf \in {ctx.pktRespPrefixBuf, cmd[t].prefix}
        /\ cmd' = cmd \/ \E c \in Commands \cup {NoCmd} : cmd' = [cmd EXCEPT ![t] = c]
    BY <1>1, TaskSets
  <2>2. \A c \in Commands \cup {NoCmd} : c.prefix \notin UrcPrefixes
    BY ConstantsAssumption DEF InTime, NoCmd
  <2>3. \A u \in Tasks : cmd'[u].prefix \notin UrcPrefixes
    BY <1>0, <2>1, <2>2 DEF TellInv
  <2>. QED
    BY <2>1, <2>3 DEF TellInv, HasLine
<1>2. ASSUME Modem PROVE TellInv'
  <2>1. UNCHANGED <<ctx, rd, cmd>>
    BY <1>2, ModemSends DEF taskVars
  <2>2. ASSUME NEW l \in Lines, Tellable(l), rx' = Append(rx, l)
        PROVE  \A i \in 1 .. Len(rx') : Tellable(rx'[i])
    BY <1>0, <2>2 DEF TellInv
  <2>3. \A i \in 1 .. Len(rx') : Tellable(rx'[i])
    BY <1>2, <2>2, ModemSends DEF TellInv
  <2>. QED
    BY <2>1, <2>3 DEF TellInv, HasLine
<1>3. ASSUME TakeLine PROVE TellInv'
  <2>1. /\ UNCHANGED <<ctx, cmd>> /\ rx # <<>> /\ rx' = Tail(rx)
        /\ rd'.line = Head(rx) /\ rd'.pc = "preprocess"
    BY <1>0, <1>3 DEF TakeLine, taskVars, Readers
  <2>2. Tellable(Head(rx)) /\ \A i \in 1 .. Len(rx') : Tellable(rx'[i])
    <3>1. /\ Len(rx) \in Nat /\ Len(rx) # 0 /\ Head(rx) = rx[1]
          /\ Len(rx') = Len(rx) - 1 /\ \A i \in 1 .. Len(rx') : rx'[i] = rx[i + 1]
      BY <1>0, <2>1, HeadTailProperties, EmptySeq
    <3>2. 1 \in 1 .. Len(rx) /\ \A i \in 1 .. Len(rx') : i + 1 \in 1 .. Len(rx)
      BY <3>1
    <3>. QED
      BY <3>1, <3>2 DEF TellInv
  <2>. QED
    BY <2>1, <2>2 DEF TellInv, Deep
<1>4. ASSUME GetMsgType PROVE TellInv'
  <2>1. UNCHANGED <<ctx, cmd, rx>> /\ HasLine
    BY <1>4 DEF GetMsgType, taskVars, HasLine
  <2>2. MsgType(rd.line) # "UNSOLICITED" => IsAnswer(rd.line)
    BY <2>1, ConstantsAssumption DEF MsgType, TellInv, Tellable
  <2>3. \/ rd' = ReaderIdle
        \/ /\ rd'.pc \in {"solicited", "undefined"} /\ rd'.line = rd.line
           /\ IsAnswer(rd.line)
    BY <1>0, <1>4, <2>2 DEF GetMsgType, Readers
  <2>. QED
    BY <2>1, <2>3 DEF TellInv, ReaderIdle, HasLine, Deep
<1>5. ASSUME PreprocessLine PROVE TellInv'
  <2>1. /\ UNCHANGED <<ctx, cmd, rx>> /\ HasLine
        /\ rd'.pc = "msgType" /\ rd'.line = rd.line
    BY <1>0, <1>5 DEF PreprocessLine, taskVars, HasLine, Readers
  <2>. QED
    BY <2>1 DEF TellInv, Deep, HasLine
<1>6. ASSUME Reader, ~TakeLine, ~GetMsgType, ~PreprocessLine PROVE TellInv'
  <2>1. UNCHANGED cmd /\ ctx'.pktRespPrefixBuf = ctx.pktRespPrefixBuf
    BY <1>0, <1>6, EnvStep DEF EnvFrame, Ctx
  <2>2. \/ rd' = ReaderIdle
        \/ HasLine /\ rd.pc \in Deep /\ rd'.line = rd.line
    <3>. USE <1>0 DEF Readers, Deep, HasLine
    <3>1. CASE HandleSolicited
      BY <3>1 DEF HandleSolicited
    <3>2. CASE ProcessFinalLine
      BY <3>2 DEF ProcessFinalLine
    <3>3. CASE ProcessIntermediateLine
      BY <3>3 DEF ProcessIntermediateLine
    <3>4. CASE ProcessUnexpectedLine
      BY <3>4 DEF ProcessUnexpectedLine
    <3>5. CASE ResetType
      BY <3>5 DEF ResetType
    <3>6. CASE Convert
      BY <3>6 DEF Convert
    <3>7. CASE LoadCallback
      BY <3>7 DEF LoadCallback
    <3>8. CASE CallCallback
      BY <3>8 DEF CallCallback
    <3>9. CASE CallbackReturns
      BY <3>9 DEF CallbackReturns
    <3>10. CASE PostStatus
      BY <3>10 DEF PostStatus
    <3>11. CASE UndefinedAccepted
      BY <3>11 DEF UndefinedAccepted
    <3>12. CASE UndefinedRejected
      BY <3>12 DEF UndefinedRejected
    <3>. QED
      BY <1>6, <3>1, <3>2, <3>3, <3>4, <3>5, <3>6, <3>7, <3>8, <3>9, <3>10, <3>11, <3>12
         DEF Reader
  <2>3. \A i \in 1 .. Len(rx') : Tellable(rx'[i])
    <3>1. CASE UndefinedRejected
      <4>1. PICK n \in 0 .. Len(rx) : rx' = SubSeq(rx, n + 1, Len(rx))
        BY <3>1 DEF UndefinedRejected
      <4>2. /\ Len(rx) \in Nat /\ Len(rx') = Len(rx) - n
            /\ \A i \in 1 .. Len(rx') : rx'[i] = rx[n + i]
        BY <1>0, <4>1, SubSeqProperties
      <4>3. \A i \in 1 .. Len(rx') : n + i \in 1 .. Len(rx)
        BY <4>2
      <4>. QED
        BY <4>2, <4>3 DEF TellInv
    <3>2. CASE PostStatus
      BY <3>2 DEF PostStatus, TellInv
    <3>3. CASE ~UndefinedRejected /\ ~PostStatus
      BY <1>6, <3>3, ReaderKeepsLine DEF TellInv
    <3>. QED
      BY <3>1, <3>2, <3>3
  <2>. QED
    BY <2>1, <2>2, <2>3 DEF TellInv, ReaderIdle, HasLine, Deep
<1>7. ASSUME Abort PROVE TellInv'
  BY <1>0, <1>7 DEF Abort, taskVars, Readers, TellInv, HasLine, Deep
<1>8. ASSUME UNCHANGED vars PROVE TellInv'
  BY <1>8 DEF vars, TellInv, HasLine
<1>. QED
  BY <1>1, <1>2, <1>3, <1>4, <1>5, <1>6, <1>7, <1>8 DEF Next, Done

-----------------------------------------------------------------------------
(* The steps keep what a task has set for the reader.                         *)

\* What the task in progress has set is there as long as it needs it.
LEMMA CallStep == ASSUME TypeOK, MutexInv, CallInv, [Next]_vars PROVE CallInv'
<1>0. /\ ctx \in Ctx /\ pc \in [Tasks -> Labels] /\ cmd \in [Tasks -> Command]
      /\ exch \in Nat
  BY DEF TypeOK
<1>. USE <1>0 DEF Ctx
<1>1. ASSUME NEW t \in Tasks, pc[t] \in Holding, UNCHANGED cmd, CallOf(t)',
             NEW l, pc' = [pc EXCEPT ![t] = l]
      PROVE  CallInv'
  <2>1. ASSUME NEW u \in Tasks, u # t PROVE pc'[u] \in {"idle", "lock"}
    BY <1>1, <2>1, ConstantsAssumption DEF MutexInv, Holding, Labels
  <2>2. ASSUME NEW u \in Tasks, u # t PROVE CallOf(u)'
    BY <2>1, <2>2 DEF CallOf, CommandLabels, RegisteredLabels
  <2>. QED
    BY <1>1, <2>2 DEF CallInv
<1>2. ASSUME UNCHANGED <<ctx, exch>>, NEW t \in Tasks, pc'[t] \notin Holding,
             \A u \in Tasks : u # t => pc'[u] = pc[u] /\ cmd'[u] = cmd[u]
      PROVE  CallInv'
  BY <1>2 DEF CallInv, CallOf, CommandLabels, RegisteredLabels, Holding, Labels
<1>3. ASSUME NEW t \in Tasks, NEW c \in Commands, Call(t, c) PROVE CallInv'
  BY <1>2, <1>3 DEF Call, Goto, Holding
<1>4. ASSUME NEW t \in Tasks, ReleasePktRequestMutex(t) PROVE CallInv'
  BY <1>2, <1>4 DEF ReleasePktRequestMutex, Goto, Holding
<1>5. ASSUME NEW t \in Tasks, AcquirePktRequestMutex(t) PROVE CallInv'
  <2>1. UNCHANGED <<ctx, exch, cmd>>
    BY <1>5 DEF AcquirePktRequestMutex
  <2>2. /\ pc'[t] \in {"badRequest", "fill", "register"}
        /\ pc'[t] # "register" => cmd[t].api = "cmd"
        /\ \A u \in Tasks : u # t => pc'[u] = pc[u]
    BY <1>5 DEF AcquirePktRequestMutex, AfterRegister, Goto
  <2>3. CallOf(t)'
    BY <2>1, <2>2 DEF CallOf, CommandLabels, RegisteredLabels, TokenApis
  <2>4. \A u \in Tasks : u # t => CallOf(u)'
    BY <2>1, <2>2 DEF CallInv, CallOf
  <2>. QED
    BY <2>3, <2>4 DEF CallInv
<1>6. ASSUME NEW t \in Tasks, Register(t) PROVE CallInv'
  <2>1. /\ pc[t] \in Holding /\ UNCHANGED cmd
        /\ \E l : pc' = [pc EXCEPT ![t] = l]
    BY <1>6 DEF Register, Goto, Holding, Labels
  <2>2. CallOf(t)'
    BY <1>6 DEF Register, Registered, AfterRegister, Goto, CallInv, CallOf,
       CommandLabels, RegisteredLabels,
       TokenApis
  <2>. QED
    BY <1>1, <2>1, <2>2
<1>7. ASSUME NEW t \in Tasks, NullCommand(t) PROVE CallInv'
  <2>1. /\ pc[t] \in Holding /\ UNCHANGED cmd
        /\ \E l : pc' = [pc EXCEPT ![t] = l]
    BY <1>7 DEF NullCommand, Goto, Holding, Labels
  <2>2. CallOf(t)'
    BY <1>7 DEF NullCommand, AfterCommand, Goto, CallInv, CallOf, CommandLabels,
       RegisteredLabels,
       TokenApis
  <2>. QED
    BY <1>1, <2>1, <2>2
<1>8. ASSUME NEW t \in Tasks, FillRequest(t) PROVE CallInv'
  <2>1. /\ pc[t] \in Holding /\ UNCHANGED cmd
        /\ \E l : pc' = [pc EXCEPT ![t] = l]
    BY <1>8 DEF FillRequest, Goto, Holding, Labels
  <2>2. CallOf(t)'
    BY <1>8 DEF FillRequest, Filled, Goto, CallInv, CallOf, CommandLabels, RegisteredLabels,
       TokenApis
  <2>. QED
    BY <1>1, <2>1, <2>2
<1>9. ASSUME NEW t \in Tasks, CheckComm(t) PROVE CallInv'
  <2>1. /\ pc[t] \in Holding /\ UNCHANGED cmd
        /\ \E l : pc' = [pc EXCEPT ![t] = l]
    BY <1>9 DEF CheckComm, Goto, Holding, Labels
  <2>2. CallOf(t)'
    BY <1>9 DEF CheckComm, Goto, CallInv, CallOf, CommandLabels, RegisteredLabels,
       TokenApis
  <2>. QED
    BY <1>1, <2>1, <2>2
<1>10. ASSUME NEW t \in Tasks, SetPrefixAndType(t) PROVE CallInv'
  <2>1. /\ pc[t] \in Holding /\ UNCHANGED cmd
        /\ \E l : pc' = [pc EXCEPT ![t] = l]
    BY <1>10 DEF SetPrefixAndType, Goto, Holding, Labels
  <2>2. CallOf(t)'
    BY <1>10 DEF SetPrefixAndType, BadType, Goto, CallInv, CallOf, CommandLabels,
       RegisteredLabels,
       TokenApis
  <2>. QED
    BY <1>1, <2>1, <2>2
<1>11. ASSUME NEW t \in Tasks, CommSend(t) PROVE CallInv'
  <2>1. /\ pc[t] \in Holding /\ UNCHANGED cmd
        /\ \E l : pc' = [pc EXCEPT ![t] = l]
    BY <1>11 DEF CommSend, Goto, Holding, Labels
  <2>2. CallOf(t)'
    BY <1>11 DEF CommSend, Goto, CallInv, CallOf, CommandLabels, RegisteredLabels,
       TokenApis
  <2>. QED
    BY <1>1, <2>1, <2>2
<1>12. ASSUME NEW t \in Tasks, Receive(t) PROVE CallInv'
  <2>1. /\ pc[t] \in Holding /\ UNCHANGED cmd
        /\ \E l : pc' = [pc EXCEPT ![t] = l]
    BY <1>12 DEF Receive, Goto, Holding, Labels
  <2>2. CallOf(t)'
    BY <1>12 DEF Receive, Goto, CallInv, CallOf, CommandLabels, RegisteredLabels,
       TokenApis
  <2>. QED
    BY <1>1, <2>1, <2>2
<1>13. ASSUME NEW t \in Tasks, Timeout(t) PROVE CallInv'
  <2>1. /\ pc[t] \in Holding /\ UNCHANGED cmd
        /\ \E l : pc' = [pc EXCEPT ![t] = l]
    BY <1>13 DEF Timeout, Goto, Holding, Labels
  <2>2. CallOf(t)'
    BY <1>13 DEF Timeout, Goto, CallInv, CallOf, CommandLabels, RegisteredLabels,
       TokenApis
  <2>. QED
    BY <1>1, <2>1, <2>2
<1>14. ASSUME NEW t \in Tasks, FinishCommand(t) PROVE CallInv'
  <2>1. /\ pc[t] \in Holding /\ UNCHANGED cmd
        /\ \E l : pc' = [pc EXCEPT ![t] = l]
    BY <1>14 DEF FinishCommand, Goto, Holding, Labels
  <2>2. CallOf(t)'
    BY <1>14 DEF FinishCommand, Finished, AfterCommand, Goto, CallInv, CallOf,
       CommandLabels, RegisteredLabels,
       TokenApis
  <2>. QED
    BY <1>1, <2>1, <2>2
<1>15. ASSUME NEW t \in Tasks, Unregister(t) PROVE CallInv'
  <2>1. /\ pc[t] \in Holding /\ UNCHANGED cmd
        /\ \E l : pc' = [pc EXCEPT ![t] = l]
    BY <1>15 DEF Unregister, Goto, Holding, Labels
  <2>2. CallOf(t)'
    BY <1>15 DEF Unregister, Unregistered, Goto, CallInv, CallOf, CommandLabels,
       RegisteredLabels,
       TokenApis
  <2>. QED
    BY <1>1, <2>1, <2>2
<1>16. ASSUME NEW t \in Tasks, DataSetType(t) PROVE CallInv'
  <2>1. /\ pc[t] \in Holding /\ UNCHANGED cmd
        /\ \E l : pc' = [pc EXCEPT ![t] = l]
    BY <1>16 DEF DataSetType, Goto, Holding, Labels
  <2>2. CallOf(t)'
    BY <1>16 DEF DataSetType, Goto, CallInv, CallOf, CommandLabels, RegisteredLabels,
       TokenApis
  <2>. QED
    BY <1>1, <2>1, <2>2
<1>17. ASSUME NEW t \in Tasks, DataSendAll(t) PROVE CallInv'
  <2>1. /\ pc[t] \in Holding /\ UNCHANGED cmd
        /\ \E l : pc' = [pc EXCEPT ![t] = l]
    BY <1>17 DEF DataSendAll, Goto, Holding, Labels
  <2>2. CallOf(t)'
    BY <1>17 DEF DataSendAll, Goto, CallInv, CallOf, CommandLabels, RegisteredLabels,
       TokenApis
  <2>. QED
    BY <1>1, <2>1, <2>2
<1>18. ASSUME NEW t \in Tasks, DataSendShort(t) PROVE CallInv'
  <2>1. /\ pc[t] \in Holding /\ UNCHANGED cmd
        /\ \E l : pc' = [pc EXCEPT ![t] = l]
    BY <1>18 DEF DataSendShort, Goto, Holding, Labels
  <2>2. CallOf(t)'
    BY <1>18 DEF DataSendShort, Goto, CallInv, CallOf, CommandLabels, RegisteredLabels,
       TokenApis
  <2>. QED
    BY <1>1, <2>1, <2>2
<1>19. ASSUME NEW t \in Tasks, DataFinish(t) PROVE CallInv'
  <2>1. /\ pc[t] \in Holding /\ UNCHANGED cmd
        /\ \E l : pc' = [pc EXCEPT ![t] = l]
    BY <1>19 DEF DataFinish, Goto, Holding, Labels
  <2>2. CallOf(t)'
    BY <1>19 DEF DataFinish, Goto, CallInv, CallOf, CommandLabels, RegisteredLabels,
       TokenApis
  <2>. QED
    BY <1>1, <2>1, <2>2
<1>20. ASSUME Modem \/ Reader \/ Abort PROVE CallInv'
  BY <1>20, EnvStep DEF EnvFrame, CallInv, CallOf
<1>21. ASSUME UNCHANGED vars PROVE CallInv'
  BY <1>21 DEF vars, CallInv, CallOf
<1>. QED
  BY <1>3, <1>4, <1>5, <1>6, <1>7, <1>8, <1>9, <1>10, <1>11, <1>12, <1>13, <1>14, <1>15,
     <1>16, <1>17, <1>18, <1>19, <1>20, <1>21 DEF Next, TaskStep, Done

-----------------------------------------------------------------------------
(* The steps of the request functions keep the answer on its way.             *)

\* What the request in progress says of the answer.
LEMMA AskedFacts ==
  ASSUME TypeOK, CallInv, NEW t \in Tasks, pc[t] \in WaitLabels
  PROVE  /\ Asked(t).type # "NO_COMMAND"
         /\ ctx.PktioAtCmdType \in {Asked(t).type, "NO_COMMAND"}
         /\ Asked(t).api \in TokenApis => ctx.extraTable # 0
  BY DEF CallInv, CallOf, Asked, DataPart, NoCmd, WaitLabels, RegisteredLabels,
     CommandLabels,
         TokenApis

\* While nobody waits nothing is on its way.
LEMMA NobodyWaits ==
  ASSUME FlowInv, \A u \in Tasks : pc[u] \notin WaitLabels
  PROVE  ~Active /\ respQueue = <<>>
  BY DEF FlowInv, Flow

\* Nothing is on its way, and a step of a task changes nothing of that.
LEMMA QuietStep ==
  ASSUME FlowInv, ~Active, respQueue = <<>>,
         UNCHANGED <<respQueue, served, atResp, rd, rx, toModem, modem>>
  PROVE  FlowInv'
  BY DEF FlowInv, Active, Reading, HasLine

\* The task in progress is the only one that may wait.
LEMMA OnlyWaiter ==
  ASSUME TypeOK, MutexInv, NEW t \in Tasks, pc[t] \in Holding, NEW u \in Tasks, u # t
  PROVE  pc[u] \in {"idle", "lock"}
  BY ConstantsAssumption DEF TypeOK, MutexInv, Holding, Labels

\* Without an answer among them, lines are part of any.
LEMMA NoneOfIt ==
  ASSUME NEW s, ~Answers(s), NEW c, NEW n
  PROVE  Partial(s, c, n) /\ ~Ended(s, c) /\ ~Unended(s, c)
  BY DEF Partial, Answers, Ended, Unended

\* A request is sent when nothing is on its way.
LEMMA SendFlow ==
  ASSUME TypeOK, MutexInv, TellInv, FlowInv,
         NEW t \in Tasks, CommSend(t) \/ DataSendAll(t)
  PROVE  FlowInv'
<1>0. /\ toModem \in Seq(Sent) /\ pc \in [Tasks -> Labels] /\ pc[t] \in Holding \ WaitLabels
      /\ UNCHANGED <<cmd, exch, ctx, respQueue, served, atResp, rd, rx, modem>>
  BY DEF TypeOK, CommSend, DataSendAll, Holding, Labels, WaitLabels
<1>1. ~Active /\ respQueue = <<>>
  BY <1>0, NobodyWaits, OnlyWaiter DEF WaitLabels
<1>2. CASE toModem' = toModem
  BY <1>0, <1>1, <1>2, QuietStep
<1>3. CASE rd.pc = "stopped"
  BY <1>0, <1>1, <1>3 DEF FlowInv, Active
<1>4. CASE toModem' # toModem /\ rd.pc # "stopped"
  <2>1. toModem = <<>> /\ ~modem.busy /\ ~Answers(rx) /\ ~Reading /\ atResp.lines = <<>>
    BY <1>1, <1>4 DEF Active
  <2>2. pc'[t] \in WaitLabels
    BY <1>0 DEF CommSend, DataSendAll, Goto, WaitLabels
  <2>3. PICK c : c = Asked(t)'
    OBVIOUS
  <2>4. \E m : toModem' = Append(toModem, m) /\ m.x = exch /\ Asks(m) = c
    <3>1. CASE CommSend(t)
      <4>1. /\ pc'[t] = "wait" /\ toModem' = Append(toModem, Message(cmd[t], "cmd"))
        BY <1>0, <1>4, <3>1 DEF CommSend, Goto
      <4>2. c = cmd[t]
        BY <1>0, <2>3, <4>1 DEF Asked
      <4>. QED
        BY <4>1, <4>2 DEF Message, Asks
    <3>2. CASE DataSendAll(t)
      <4>1. /\ pc'[t] = "dataWait" /\ toModem' = Append(toModem, Message(cmd[t], "data"))
        BY <1>0, <1>4, <3>2 DEF DataSendAll, Goto
      <4>2. c = DataPart
        BY <2>3, <4>1 DEF Asked, DataPart
      <4>. QED
        BY <4>1, <4>2 DEF Message, Asks
    <3>. QED
      BY <3>1, <3>2
  <2>5. Len(toModem') = 1 /\ toModem'[1].x = exch /\ Asks(toModem'[1]) = c
    BY <2>1, <2>4
  <2>6. Asking(c)'
    BY <1>0, <2>1, <2>5 DEF Asking, Reading, HasLine
  <2>7. Partial(rx, c, exch) /\ ~Ended(rx, c) /\ ~Unended(rx, c)
    BY <2>1, NoneOfIt
  <2>8. Answering(c)'
    BY <1>0, <2>1, <2>7 DEF Answering, Reading, HasLine
  <2>9. rd.pc \notin Deep
    BY <2>1 DEF TellInv, Reading, HasLine, Deep
  <2>10. Collecting(c)' /\ CallingBack(t)'
    BY <1>0, <2>1, <2>7, <2>9
    DEF Collecting, CallingBack, Open, ToCome, Reading, HasLine, Deep, Closing
  <2>11. Flow(t)'
    BY <1>0, <1>1, <2>2, <2>3, <2>6, <2>8, <2>10 DEF Flow
  <2>. QED
    BY <1>0, <1>1, <2>11 DEF FlowInv
<1>. QED
  BY <1>2, <1>3, <1>4

\* The steps of the request functions keep what is on its way.
LEMMA TaskFlow ==
  ASSUME InTime, TypeOK, MutexInv, TellInv, FlowInv, NEW t \in Tasks,
         (\E c \in Commands : Call(t, c)) \/ TaskStep(t)
  PROVE  FlowInv'
<1>0. pc \in [Tasks -> Labels] /\ cmd \in [Tasks -> Command]
  BY DEF TypeOK
<1>1. ASSUME \E c \in Commands : Call(t, c) PROVE FlowInv'
  <2>1. /\ UNCHANGED <<exch, ctx, respQueue, served, atResp, rd, rx, toModem, modem>>
        /\ \A u \in Tasks : u # t => pc'[u] = pc[u] /\ cmd'[u] = cmd[u]
        /\ pc[t] \notin WaitLabels
    BY <1>0, <1>1 DEF Call, Goto, WaitLabels
  <2>2. ASSUME NEW u \in Tasks, Flow(u) PROVE Flow(u)'
    <3>1. pc'[u] = pc[u] /\ cmd'[u] = cmd[u]
      BY <2>1, <2>2 DEF Flow
    <3>2. PICK c : c = Asked(u)
      OBVIOUS
    <3>3. c = Asked(u)'
      BY <3>1, <3>2 DEF Asked, DataPart
    <3>. QED
      BY <2>1, <2>2, <3>1, <3>2, <3>3
      DEF Flow, Asking, Answering, Collecting, CallingBack, Open, ToCome, Reading, HasLine
  <2>. QED
    BY <2>1, <2>2 DEF FlowInv, Active, Reading, HasLine
<1>2. ASSUME AcquirePktRequestMutex(t) PROVE FlowInv'
  <2>1. \A u \in Tasks : pc[u] \notin WaitLabels
    BY <1>0, <1>2, ConstantsAssumption
    DEF AcquirePktRequestMutex, MutexInv, Holding, Labels, WaitLabels
  <2>. QED
    BY <1>2, <2>1, NobodyWaits, QuietStep DEF AcquirePktRequestMutex
<1>3. ASSUME pc[t] \in Holding \ WaitLabels,
             UNCHANGED <<respQueue, served, atResp, rd, rx, toModem, modem>>
      PROVE  FlowInv'
  <2>1. \A u \in Tasks : pc[u] \notin WaitLabels
    BY <1>3, OnlyWaiter DEF WaitLabels
  <2>. QED
    BY <1>3, <2>1, NobodyWaits, QuietStep
<1>4. ASSUME Register(t) PROVE FlowInv'
  BY <1>3, <1>4 DEF Register, Holding, Labels, WaitLabels
<1>5. ASSUME NullCommand(t) PROVE FlowInv'
  BY <1>3, <1>5 DEF NullCommand, Holding, Labels, WaitLabels
<1>6. ASSUME FillRequest(t) PROVE FlowInv'
  BY <1>3, <1>6 DEF FillRequest, Holding, Labels, WaitLabels
<1>7. ASSUME CheckComm(t) PROVE FlowInv'
  BY <1>3, <1>7 DEF CheckComm, Holding, Labels, WaitLabels
<1>8. ASSUME SetPrefixAndType(t) PROVE FlowInv'
  BY <1>3, <1>8 DEF SetPrefixAndType, Holding, Labels, WaitLabels
<1>9. ASSUME FinishCommand(t) PROVE FlowInv'
  BY <1>3, <1>9 DEF FinishCommand, Holding, Labels, WaitLabels
<1>10. ASSUME Unregister(t) PROVE FlowInv'
  BY <1>3, <1>10 DEF Unregister, Holding, Labels, WaitLabels
<1>11. ASSUME DataSetType(t) PROVE FlowInv'
  BY <1>3, <1>11 DEF DataSetType, Holding, Labels, WaitLabels
<1>12. ASSUME DataSendShort(t) PROVE FlowInv'
  BY <1>3, <1>12 DEF DataSendShort, Holding, Labels, WaitLabels
<1>13. ASSUME DataFinish(t) PROVE FlowInv'
  BY <1>3, <1>13 DEF DataFinish, Holding, Labels, WaitLabels
<1>14. ASSUME ReleasePktRequestMutex(t) PROVE FlowInv'
  BY <1>3, <1>14 DEF ReleasePktRequestMutex, Holding, Labels, WaitLabels
<1>15. ASSUME CommSend(t) \/ DataSendAll(t) PROVE FlowInv'
  BY <1>15, SendFlow
<1>16. ASSUME Receive(t) PROVE FlowInv'
  <2>1. /\ UNCHANGED <<exch, atResp, rd, rx, toModem, modem>>
        /\ respQueue # <<>> /\ respQueue' = Tail(respQueue)
        /\ served' = [x |-> exch, src |-> Head(respQueue).src, from |-> Head(respQueue).x]
    BY <1>16 DEF Receive, ReceivedQueue
  <2>2. ~Active
    BY <2>1 DEF FlowInv, Flow
  <2>3. respQueue' = <<>> /\ Head(respQueue) = respQueue[1]
    <3>1. respQueue \in Seq(Posts) /\ Len(respQueue) <= 1
      BY DEF TypeOK
    <3>2. respQueue' \in Seq(Posts) /\ Len(respQueue') = 0 /\ Head(respQueue) = respQueue[1]
      BY <2>1, <3>1, OneStatus
    <3>. QED
      BY <2>1, <3>2, EmptySeq
  <2>4. IsAnswer(served)' /\ served'.from = served'.x
    BY <2>1, <2>3 DEF FlowInv, IsAnswer
  <2>. QED
    BY <2>1, <2>2, <2>3, <2>4 DEF FlowInv, Active, Reading, HasLine
<1>17. ASSUME Timeout(t) PROVE FlowInv'
  <2>1. /\ UNCHANGED <<respQueue, served, atResp, rd, rx, toModem, modem>>
        /\ respQueue = <<>> /\ NothingInFlight
    BY <1>17 DEF Timeout, WaitExpires, InTime
  <2>2. ~Active
    <3>1. SUFFICES ASSUME Active PROVE FALSE
      OBVIOUS
    <3>2. rd.pc = "idle" /\ rx = <<>> /\ toModem = <<>> /\ ~modem.busy
      BY <2>1, <3>1 DEF NothingInFlight, FlowInv, Active
    <3>3. atResp.lines # <<>>
      BY <3>1, <3>2, NoLines DEF Active, Reading, HasLine
    <3>4. PICK u \in Tasks : Flow(u)
      BY <3>1 DEF FlowInv
    <3>5. ToCome(Asked(u))
      BY <3>3, <3>4 DEF Flow, Collecting, Open
    <3>. QED
      BY <3>2, <3>5, NoLines DEF ToCome, Reading, HasLine
  <2>. QED
    BY <2>1, <2>2, QuietStep
<1>. QED
  BY <1>1, <1>2, <1>4, <1>5, <1>6, <1>7, <1>8, <1>9, <1>10, <1>11, <1>12, <1>13, <1>14,
     <1>15, <1>16, <1>17 DEF TaskStep

-----------------------------------------------------------------------------
(* The steps of the modem and of the reader keep the answer on its way.       *)

\* A step of the modem or of the reader that posts nothing.
EnvKeeps == UNCHANGED <<pc, cmd, exch, served, respQueue>>

\* What is on its way is on its way after the step too.
LEMMA Onward ==
  ASSUME FlowInv, EnvKeeps, rd'.pc # "fault", rd'.pc = "stopped" => atResp'.lines = <<>>,
         Active' => Active,
         \A t \in Tasks : \A c : Active /\ Active' /\ c = Asked(t) /\ Flow(t) =>
            Asking(c)' /\ Answering(c)' /\ Collecting(c)' /\ CallingBack(t)'
  PROVE  FlowInv'
<1>1. ASSUME Active' PROVE \E t \in Tasks : Flow(t)'
  <2>1. Active
    BY <1>1
  <2>2. PICK t \in Tasks : Flow(t)
    BY <2>1 DEF FlowInv
  <2>3. PICK c : c = Asked(t)
    OBVIOUS
  <2>4. Asking(c)' /\ Answering(c)' /\ Collecting(c)' /\ CallingBack(t)'
    BY <1>1, <2>1, <2>2, <2>3
  <2>5. c = Asked(t)'
    BY <2>3 DEF EnvKeeps, Asked, DataPart
  <2>. QED
    BY <2>2, <2>4, <2>5 DEF Flow, EnvKeeps
<1>. QED
  BY <1>1 DEF FlowInv, EnvKeeps

\* The modem begins with the request, sends what fits it, and ends what it began.
LEMMA ModemFlow ==
  ASSUME InTime, TypeOK, FlowInv, Modem
  PROVE  FlowInv'
<1>0. /\ modem \in Modems /\ rx \in Seq(Lines) /\ toModem \in Seq(Sent)
      /\ UNCHANGED <<pc, cmd, exch, served, respQueue, ctx, atResp, rd>>
  BY ModemSends DEF TypeOK, taskVars
<1>1. /\ EnvKeeps /\ (Reading' <=> Reading) /\ rd'.pc # "fault"
      /\ rd'.pc = "stopped" => atResp'.lines = <<>>
  BY <1>0 DEF EnvKeeps, Reading, HasLine, FlowInv
<1>2. ASSUME NEW t \in Tasks, CallingBack(t) PROVE CallingBack(t)'
  BY <1>0, <1>2 DEF CallingBack
<1>3. ASSUME NEW c, Collecting(c), Open(c)' => ToCome(c)' PROVE Collecting(c)'
  BY <1>0, <1>3 DEF Collecting
<1>4. CASE ModemStart
  <2>1. /\ rx' = rx /\ toModem # <<>> /\ toModem' = Tail(toModem) /\ ~modem.busy
        /\ modem'.busy /\ modem'.x = Head(toModem).x /\ modem'.cmd = Asks(Head(toModem))
    BY <1>0, <1>4 DEF ModemStart, Modems, Asks, DataPart
  <2>2. ASSUME NEW t \in Tasks, NEW c, Flow(t), c = Asked(t)
        PROVE  Asking(c)' /\ Answering(c)' /\ Collecting(c)' /\ CallingBack(t)'
    <3>1. Asking(c) /\ Answering(c) /\ Collecting(c) /\ CallingBack(t)
      BY <2>2 DEF Flow
    <3>2. /\ Len(toModem) = 1 /\ Head(toModem) = toModem[1] /\ toModem[1].x = exch
          /\ Asks(toModem[1]) = c /\ ~Reading /\ ~Answers(rx) /\ atResp.lines = <<>>
      BY <2>1, <3>1 DEF Asking
    <3>3. toModem' = <<>>
      <4>1. toModem' \in Seq(Sent) /\ Len(toModem') = 0
        BY <1>0, <2>1, <3>2
      <4>. QED
        BY <4>1, EmptySeq
    <3>4. ~Ended(rx, c) /\ ~Unended(rx, c)
      BY <3>2, NoneOfIt
    <3>5. Asking(c)'
      BY <1>0, <2>1, <3>2, <3>3 DEF Asking
    <3>6. Answering(c)'
      BY <1>0, <1>1, <2>1, <3>1, <3>2, <3>4 DEF Answering
    <3>7. ~Open(c)'
      BY <1>0, <1>1, <2>1, <3>2, <3>4 DEF Open
    <3>. QED
      BY <1>2, <1>3, <3>1, <3>5, <3>6, <3>7
  <2>3. Active' => Active
    BY <1>0, <2>1 DEF Active
  <2>. QED
    BY <1>1, <2>2, <2>3, Onward
<1>5. CASE ModemLine
  <2>1. PICK l : l = LineOf(modem.cmd)
    OBVIOUS
  <2>2. /\ l \in Lines /\ IsAnswer(l) /\ l.tok = "text" /\ l.x = modem.x
    BY <1>0, <2>1 DEF LineOf, Line, Lines, UsesPrefix, Modems, Command, IsAnswer
  <2>3. /\ modem.busy /\ LinesLeft(modem) > 0 /\ rx' = Append(rx, l) /\ toModem' = toModem
        /\ modem'.busy /\ modem'.x = modem.x /\ modem'.cmd = modem.cmd
        /\ modem'.lines = modem.lines + 1 /\ modem.lines \in Nat
    BY <1>0, <1>5, <2>1 DEF ModemLine, Modems
  <2>4. modem.cmd.type \notin NoResultCode
    BY <2>3 DEF LinesLeft, NoResultCode
  <2>5. ASSUME NEW t \in Tasks, NEW c, Flow(t), c = Asked(t)
        PROVE  Asking(c)' /\ Answering(c)' /\ Collecting(c)' /\ CallingBack(t)'
    <3>1. Asking(c) /\ Answering(c) /\ Collecting(c) /\ CallingBack(t)
      BY <2>5 DEF Flow
    <3>2. modem.cmd = c /\ modem.x = exch /\ toModem = <<>> /\ ~Ended(rx, c)
          /\ Fits(l, c, exch) /\ ~Ends(l, c)
      BY <2>2, <2>3, <2>4, <3>1 DEF Asking, Answering, Fits, Ends
    <3>3. /\ Partial(rx', c, exch) /\ ~Ended(rx', c)
      BY <1>0, <2>2, <2>3, <3>1, <3>2, OneMore, OneMorePart DEF Answering
    <3>4. Asking(c)'
      BY <1>0, <2>3, <3>2 DEF Asking
    <3>5. Answering(c)'
      BY <1>0, <1>1, <2>3, <3>1, <3>3 DEF Answering
    <3>6. ToCome(c)'
      BY <2>3 DEF ToCome
    <3>. QED
      BY <1>2, <1>3, <3>1, <3>4, <3>5, <3>6
  <2>6. Active' => Active
    BY <1>0, <2>3 DEF Active
  <2>. QED
    BY <1>1, <2>5, <2>6, Onward
<1>6. CASE ModemFinal
  <2>1. PICK l \in FinalLines(modem.cmd) : rx' = Append(rx, l)
    BY <1>6 DEF ModemFinal
  <2>2. /\ l \in Lines /\ IsAnswer(l) /\ l.x = modem.x /\ Ends(l, modem.cmd)
        /\ Fits(l, modem.cmd, modem.x)
    BY <1>0, <2>1 DEF FinalLines, LineOf, Line, Lines, UsesPrefix, Modems, Command,
       IsAnswer,
                      Ends, Fits, TokenApis
  <2>3. modem.busy /\ toModem' = toModem /\ ~modem'.busy
    BY <1>0, <1>6 DEF ModemFinal, Modems
  <2>4. ASSUME NEW t \in Tasks, NEW c, Flow(t), c = Asked(t)
        PROVE  Asking(c)' /\ Answering(c)' /\ Collecting(c)' /\ CallingBack(t)'
    <3>1. Asking(c) /\ Answering(c) /\ Collecting(c) /\ CallingBack(t)
      BY <2>4 DEF Flow
    <3>2. modem.cmd = c /\ modem.x = exch /\ toModem = <<>> /\ ~Ended(rx, c)
          /\ (Reading => ~Ends(rd.line, c))
      BY <2>3, <3>1 DEF Asking, Answering
    <3>3. Partial(rx', c, exch) /\ Ended(rx', c)
      BY <1>0, <2>1, <2>2, <3>1, <3>2, OneMore, OneMorePart DEF Answering
    <3>4. Asking(c)'
      BY <1>0, <2>3, <3>2 DEF Asking
    <3>5. Answering(c)'
      BY <1>0, <1>1, <2>3, <3>1, <3>2, <3>3 DEF Answering
    <3>6. ToCome(c)'
      BY <3>3 DEF ToCome
    <3>. QED
      BY <1>2, <1>3, <3>1, <3>4, <3>5, <3>6
  <2>5. Active' => Active
    BY <1>0, <2>3 DEF Active
  <2>. QED
    BY <1>1, <2>4, <2>5, Onward
<1>7. CASE ModemSilent
  <2>1. /\ rx' = rx /\ toModem' = toModem /\ modem.busy /\ modem.lines = 0 /\ ~modem'.busy
    BY <1>0, <1>7 DEF ModemSilent, Modems, InTime
  <2>2. ASSUME NEW t \in Tasks, NEW c, Flow(t), c = Asked(t)
        PROVE  Asking(c)' /\ Answering(c)' /\ Collecting(c)' /\ CallingBack(t)'
    <3>1. Asking(c) /\ Answering(c) /\ Collecting(c) /\ CallingBack(t)
      BY <2>2 DEF Flow
    <3>2. toModem = <<>>
      BY <2>1, <3>1 DEF Asking
    <3>3. Asking(c)' /\ Answering(c)'
      BY <1>0, <1>1, <2>1, <3>1, <3>2 DEF Asking, Answering
    <3>4. (Open(c)' => Open(c)) /\ (ToCome(c) => ToCome(c)')
      BY <1>0, <1>1, <2>1 DEF Open, ToCome
    <3>. QED
      BY <1>2, <1>3, <3>1, <3>3, <3>4 DEF Collecting
  <2>3. Active' => Active
    BY <1>0, <1>1, <2>1 DEF Active
  <2>. QED
    BY <1>1, <2>2, <2>3, Onward
<1>8. CASE ModemUrc
  <2>1. PICK l \in Lines : rx' = Append(rx, l) /\ ~IsAnswer(l)
    <3>1. \A tok \in {"text", "urcToken"}, p \in Prefixes \cup {NoPrefix} :
            Line("urc", tok, p) \in Lines /\ ~IsAnswer(Line("urc", tok, p))
      BY <1>0 DEF Line, Lines, Modems, IsAnswer
    <3>. QED
      BY <1>8, <3>1, ConstantsAssumption DEF ModemUrc
  <2>2. /\ toModem' = toModem /\ modem'.busy = modem.busy /\ modem'.x = modem.x
        /\ modem'.cmd = modem.cmd /\ modem'.lines = modem.lines
    BY <1>0, <1>8 DEF ModemUrc, Modems
  <2>3. \A c : /\ Answers(rx') <=> Answers(rx)
               /\ Ended(rx', c) <=> Ended(rx, c)
               /\ Unended(rx', c) <=> Unended(rx, c)
    BY <1>0, <2>1, OneMore
  <2>4. ASSUME NEW t \in Tasks, NEW c, Flow(t), c = Asked(t)
        PROVE  Asking(c)' /\ Answering(c)' /\ Collecting(c)' /\ CallingBack(t)'
    <3>1. Asking(c) /\ Answering(c) /\ Collecting(c) /\ CallingBack(t)
      BY <2>4 DEF Flow
    <3>2. Partial(rx', c, exch)
      BY <1>0, <2>1, <3>1, OneMorePart DEF Answering
    <3>3. Asking(c)'
      BY <1>0, <1>1, <2>2, <2>3, <3>1 DEF Asking
    <3>4. Answering(c)'
      BY <1>0, <1>1, <2>2, <2>3, <3>1, <3>2 DEF Answering
    <3>5. (Open(c)' => Open(c)) /\ (ToCome(c) => ToCome(c)')
      BY <1>0, <1>1, <2>2, <2>3 DEF Open, ToCome
    <3>. QED
      BY <1>2, <1>3, <3>1, <3>3, <3>4, <3>5 DEF Collecting
  <2>5. Active' => Active
    BY <1>0, <1>1, <2>2, <2>3 DEF Active
  <2>. QED
    BY <1>1, <2>4, <2>5, Onward
<1>. QED
  BY <1>4, <1>5, <1>6, <1>7, <1>8 DEF Modem

\* A step of the reader that leaves the lines to come alone: what it does to the
\* response and to the context decides.
LEMMA ReaderOnward ==
  ASSUME FlowInv, EnvKeeps, UNCHANGED <<rx, toModem, modem>>,
         rd.pc # "stopped", rd'.pc \notin {"fault", "stopped"},
         HasLine' => HasLine /\ rd'.line = rd.line,
         atResp'.lines = atResp.lines \/ Reading,
         \A t \in Tasks : \A c : c = Asked(t) /\ Flow(t) => Collecting(c)' /\ CallingBack(t)'
  PROVE  FlowInv'
<1>1. Reading' => Reading /\ rd'.line = rd.line
  BY DEF Reading
<1>2. Active' => Active
  BY <1>1 DEF Active
<1>3. ASSUME NEW t \in Tasks, NEW c, c = Asked(t), Flow(t)
      PROVE  Asking(c)' /\ Answering(c)'
  <2>1. Asking(c) /\ Answering(c)
    BY <1>3 DEF Flow
  <2>2. Asking(c)'
    BY <1>1, <2>1 DEF Asking, EnvKeeps
  <2>3. Answering(c)'
    BY <1>1, <2>1 DEF Answering, EnvKeeps
  <2>. QED
    BY <2>2, <2>3
<1>. QED
  BY <1>2, <1>3, Onward

\* What Flow says, and what else is known of the request, for the reader's steps.
LEMMA FlowFacts ==
  ASSUME TypeOK, TellInv, CallInv, NEW t \in Tasks, NEW c, c = Asked(t), Flow(t)
  PROVE  /\ Asking(c) /\ Answering(c) /\ Collecting(c) /\ CallingBack(t)
         /\ c.type # "NO_COMMAND" /\ ctx.PktioAtCmdType \in {c.type, "NO_COMMAND"}
         /\ c.api \in TokenApis => ctx.extraTable # 0
         /\ rd.pc \in Deep => Reading
         /\ Reading /\ Ends(rd.line, c) => ~Unended(rx, c)
         /\ Unended(rx, c) => Answers(rx)
         /\ Ended(rx, c) => Answers(rx)
<1>1. /\ Asking(c) /\ Answering(c) /\ Collecting(c) /\ CallingBack(t)
      /\ pc[t] \in WaitLabels
  BY DEF Flow
<1>2. rd.pc \in Deep => Reading
  BY DEF TellInv, Reading, HasLine, Deep
<1>3. (Unended(rx, c) => Answers(rx)) /\ (Ended(rx, c) => Answers(rx))
  BY SomeAnswer
<1>4. Reading /\ Ends(rd.line, c) => ~Unended(rx, c)
  BY <1>1, <1>3 DEF Answering
<1>. QED
  BY <1>1, <1>2, <1>3, <1>4, AskedFacts

\* The reader finds the line to be an answer, or not.
LEMMA ClassifyFlow ==
  ASSUME TypeOK, TellInv, CallInv, FlowInv, PreprocessLine \/ GetMsgType \/ HandleSolicited
  PROVE  FlowInv'
<1>0. /\ rd \in Readers /\ EnvKeeps /\ UNCHANGED <<rx, toModem, modem, atResp, ctx>>
  BY DEF TypeOK, EnvKeeps, PreprocessLine, GetMsgType, HandleSolicited, taskVars, modemVars
<1>. DEFINE Goal == \A t \in Tasks : \A c :
                      c = Asked(t) /\ Flow(t) => Collecting(c)' /\ CallingBack(t)'
<1>1. CASE PreprocessLine
  <2>1. HasLine /\ HasLine' /\ rd.pc = "preprocess" /\ rd'.pc = "msgType" /\ rd'.line = rd.line
    BY <1>0, <1>1 DEF PreprocessLine, HasLine, Readers
  <2>2. Goal
    BY <1>0, <2>1, FlowFacts
    DEF Collecting, CallingBack, Open, ToCome, Reading, Closing, Closed, EnvKeeps
  <2>. QED
    BY <1>0, <2>1, <2>2, ReaderOnward
<1>2. CASE GetMsgType
  <2>0. HasLine /\ rd.pc = "msgType"
    BY <1>2 DEF GetMsgType, HasLine
  <2>1. CASE MsgType(rd.line) = "UNSOLICITED"
    <3>1. rd'.pc = "idle"
      BY <1>2, <2>1 DEF GetMsgType, ReaderIdle
    <3>2. ASSUME NEW t \in Tasks, NEW c, c = Asked(t), Flow(t)
         PROVE  Collecting(c)' /\ CallingBack(t)'
      <4>1. /\ Answering(c) /\ Collecting(c)
            /\ Reading /\ Ends(rd.line, c) => ~Unended(rx, c)
        BY <3>2, FlowFacts
      <4>2. Reading /\ Ends(rd.line, c) => atResp.lines = <<>>
        <5>1. SUFFICES ASSUME Reading, Ends(rd.line, c) PROVE atResp.lines = <<>>
          OBVIOUS
        <5>2. Fits(rd.line, c, exch)
          BY <4>1, <5>1 DEF Answering
        <5>3. rd.line.tok = "text"
          BY <2>1, <5>2 DEF Fits, MsgType
        <5>. QED
          BY <2>0, <4>1, <5>1, <5>3 DEF Ends, Collecting, Closing
      <4>3. Reading' = FALSE
        BY <3>1 DEF Reading, HasLine
      <4>4. Open(c)' => ToCome(c)'
        BY <1>0, <2>0, <3>1, <4>1, <4>2, <4>3 DEF Open, ToCome, Collecting, Reading
      <4>. QED
        BY <1>0, <2>0, <3>1, <4>1, <4>4 DEF Collecting, CallingBack, Closing, Closed,
           EnvKeeps
    <3>. QED
      BY <1>0, <2>0, <3>1, <3>2, ReaderOnward DEF HasLine
  <2>2. CASE MsgType(rd.line) = "SOLICITED"
    <3>1. rd'.pc = "solicited" /\ rd'.line = rd.line /\ HasLine'
      BY <1>0, <1>2, <2>2 DEF GetMsgType, Readers, HasLine
    <3>2. Waiting
      BY <2>2 DEF MsgType
    <3>3. Goal
      BY <1>0, <2>0, <3>1, <3>2, FlowFacts
      DEF Collecting, CallingBack, Open, ToCome, Reading, Closing, Closed, EnvKeeps, Waiting
    <3>. QED
      BY <1>0, <2>0, <3>1, <3>3, ReaderOnward
  <2>3. CASE MsgType(rd.line) \notin {"UNSOLICITED", "SOLICITED"}
    <3>1. rd'.pc = "undefined" /\ rd'.line = rd.line /\ HasLine'
      BY <1>0, <1>2, <2>3 DEF GetMsgType, Readers, HasLine
    <3>2. ~Waiting
      BY <2>3 DEF MsgType
    <3>3. Goal
      BY <1>0, <2>0, <3>1, <3>2, FlowFacts
      DEF Collecting, CallingBack, Open, ToCome, Reading, Closing, Closed, EnvKeeps, Waiting
    <3>. QED
      BY <1>0, <2>0, <3>1, <3>3, ReaderOnward
  <2>. QED
    BY <2>1, <2>2, <2>3
<1>3. CASE HandleSolicited
  <2>1. /\ HasLine /\ HasLine' /\ rd.pc = "solicited" /\ rd'.pc = "processLine"
        /\ rd'.line = rd.line /\ rd'.type = ctx.PktioAtCmdType
    BY <1>0, <1>3 DEF HandleSolicited, HasLine, Readers
  <2>2. Goal
    BY <1>0, <2>1, FlowFacts
    DEF Collecting, CallingBack, Open, ToCome, Reading, Closing, Closed, EnvKeeps
  <2>. QED
    BY <1>0, <2>1, <2>2, ReaderOnward
<1>. QED
  BY <1>1, <1>2, <1>3

\* The reader takes the line for the end of the answer, for a part of it, or for
\* neither.
LEMMA ProcessFlow ==
  ASSUME TypeOK, TellInv, CallInv, FlowInv,
         ProcessFinalLine \/ ProcessIntermediateLine \/ ProcessUnexpectedLine
  PROVE  FlowInv'
<1>0. /\ rd \in Readers /\ EnvKeeps /\ UNCHANGED <<rx, toModem, modem, ctx>>
      /\ rd.pc = "processLine" /\ HasLine /\ Reading
      /\ atResp \in Responses /\ atResp.lines \in Seq(Lines) /\ rd.line \in Lines
  BY DEF TypeOK, EnvKeeps, ProcessFinalLine, ProcessIntermediateLine, ProcessUnexpectedLine,
         taskVars, modemVars, HasLine, TellInv, Reading, Deep, Responses, Readers
<1>. DEFINE Goal == \A t \in Tasks : \A c :
                      c = Asked(t) /\ Flow(t) => Collecting(c)' /\ CallingBack(t)'
<1>1. CASE ProcessFinalLine
  <2>1. /\ HasLine' /\ rd'.pc = "resetType" /\ rd'.line = rd.line
        /\ atResp'.lines = atResp.lines /\ rd.line.tok # "text"
    BY <1>0, <1>1 DEF ProcessFinalLine, HasLine, Readers, Responses, IsFinal, IsSuccess
  <2>2. Goal
    BY <1>0, <2>1, FlowFacts
    DEF Collecting, CallingBack, Open, ToCome, Reading, Closing, Closed, EnvKeeps, Ends
  <2>. QED
    BY <1>0, <2>1, <2>2, ReaderOnward
<1>2. CASE ProcessIntermediateLine
  <2>1. /\ atResp'.lines = SaveLine /\ ~IsFinal(rd.line)
        /\ \/ /\ Intermediate = "OK" /\ rd'.pc = "resetType" /\ rd'.line = rd.line
           \/ /\ Intermediate # "OK" /\ rd'.pc = "idle"
    BY <1>0, <1>2 DEF ProcessIntermediateLine, Readers, Responses, ReaderIdle
  <2>2. ASSUME NEW t \in Tasks, NEW c, c = Asked(t), Flow(t) PROVE Collecting(c)' /\ CallingBack(t)'
    <3>1. /\ Answering(c) /\ Collecting(c) /\ rd.type = c.type /\ ctx.PktioAtCmdType = c.type
          /\ Fits(rd.line, c, exch) /\ (c.api \in TokenApis => ctx.extraTable # 0)
      BY <1>0, <2>2, FlowFacts DEF Collecting, Answering
    <3>2. rd.line.tok = "text"
      BY <1>0, <2>1, <3>1 DEF Fits, IsFinal, IsSuccess, Lines
    <3>3. /\ Intermediate = "OK" <=> c.type \in NoResultCode
      BY <3>1 DEF Intermediate, NoResultCode
    <3>4. /\ \A i \in 1 .. Len(atResp'.lines) :
               IsAnswer(atResp'.lines[i]) /\ atResp'.lines[i].x = exch
      BY <1>0, <2>1, <3>1 DEF SaveLine, Collecting, Reading, Fits
    <3>5. Ends(rd.line, c) <=> Intermediate = "OK"
      BY <3>2, <3>3 DEF Ends
    <3>6. CASE Intermediate = "OK"
      <4>1. Reading' /\ rd'.line = rd.line
        BY <1>0, <2>1, <3>6 DEF Reading, HasLine
      <4>. QED
        BY <1>0, <2>1, <3>1, <3>3, <3>4, <3>5, <3>6, <4>1
        DEF Collecting, CallingBack, Open, ToCome, Closing, Closed, EnvKeeps
    <3>7. CASE Intermediate # "OK"
      <4>1. ToCome(c)'
        <5>1. ToCome(c)
          BY <1>0, <3>1, <3>5, <3>7 DEF Collecting, Open
        <5>. QED
          BY <1>0, <3>5, <3>7, <5>1 DEF ToCome
      <4>. QED
        BY <1>0, <2>1, <3>1, <3>3, <3>4, <3>7, <4>1
        DEF Collecting, CallingBack, Closing, Closed, EnvKeeps
    <3>. QED
      BY <3>6, <3>7
  <2>3. rd'.pc \notin {"fault", "stopped"} /\ (HasLine' => rd'.line = rd.line)
    BY <2>1 DEF HasLine
  <2>. QED
    BY <1>0, <2>2, <2>3, ReaderOnward
<1>3. CASE ProcessUnexpectedLine
  <2>1. /\ HasLine' /\ rd'.pc = "undefined" /\ rd'.line = rd.line
        /\ atResp' = atResp /\ ~IsFinal(rd.line) /\ Intermediate = "INVALID_DATA"
    BY <1>0, <1>3 DEF ProcessUnexpectedLine, HasLine, Readers
  <2>2. ASSUME NEW t \in Tasks, NEW c, c = Asked(t), Flow(t) PROVE Collecting(c)' /\ CallingBack(t)'
    <3>1. /\ Answering(c) /\ Collecting(c) /\ rd.type = c.type
          /\ Fits(rd.line, c, exch) /\ (c.api \in TokenApis => ctx.extraTable # 0)
      BY <1>0, <2>2, FlowFacts DEF Collecting, Answering
    <3>2. rd.line.tok = "text"
      BY <1>0, <2>1, <3>1 DEF Fits, IsFinal, IsSuccess, Lines
    <3>3. c.type \notin NoResultCode
      BY <2>1, <3>1 DEF Intermediate, NoResultCode
    <3>4. ~Ends(rd.line, c)
      BY <3>2, <3>3 DEF Ends
    <3>. QED
      BY <1>0, <2>1, <3>1, <3>3, <3>4
      DEF Collecting, CallingBack, Open, ToCome, Reading, Closing, Closed, EnvKeeps
  <2>. QED
    BY <1>0, <2>1, <2>2, ReaderOnward
<1>. QED
  BY <1>1, <1>2, <1>3

\* The callback is called for the task that lent it.
LEMMA LentCallback ==
  ASSUME TypeOK, MutexInv, CommandInv, CallInv, NEW t \in Tasks, pc[t] \in WaitLabels,
         ctx.pktRespCB # 0
  PROVE  pc[t] = "wait" /\ ctx.pktRespCB = exch /\ ctx.pPktUsrData = exch
<1>1. PICK u \in Tasks : pc[u] \in CommandLabels
  BY DEF CommandInv
<1>2. u = t
  BY <1>1, OnlyWaiter DEF CommandLabels, WaitLabels, Holding, Labels
<1>3. pc[t] = "wait"
  BY <1>1, <1>2 DEF CommandLabels, WaitLabels
<1>. QED
  BY <1>1, <1>2, <1>3 DEF CallInv, CallOf

\* The answer has ended: the command is marked, and the callback runs.
LEMMA CompleteFlow ==
  ASSUME TypeOK, MutexInv, CommandInv, TellInv, CallInv, FlowInv,
         ResetType \/ Convert \/ LoadCallback \/ CallCallback \/ CallbackReturns
  PROVE  FlowInv'
<1>0. /\ rd \in Readers /\ EnvKeeps /\ UNCHANGED <<rx, toModem, modem, atResp>>
      /\ rd.pc \in Deep /\ rd.pc \in Closing /\ HasLine /\ Reading
      /\ ctx \in Ctx
  BY DEF TypeOK, EnvKeeps, ResetType, Convert, LoadCallback, CallCallback, CallbackReturns,
         taskVars, modemVars, HasLine, TellInv, Reading, Deep, Closing
<1>1. PICK t \in Tasks : Flow(t)
  BY <1>0 DEF FlowInv, Active, HasLine
<1>2. pc[t] \in WaitLabels /\ CallingBack(t)
  BY <1>1 DEF Flow
<1>3. ctx.pktRespCB # 0 => pc[t] = "wait" /\ ctx.pktRespCB = exch /\ ctx.pPktUsrData = exch
  BY <1>2, LentCallback
<1>4. \A u \in Tasks : Flow(u) => u = t
  BY <1>2, OnlyWaiter DEF Flow, WaitLabels, Holding, Labels
<1>5. ASSUME rd'.pc \in Closed, rd'.line = rd.line, CallingBack(t)' PROVE FlowInv'
  <2>1. HasLine'
    BY <1>5 DEF Closed, Closing, HasLine
  <2>2. ASSUME NEW u \in Tasks, NEW c, c = Asked(u), Flow(u) PROVE Collecting(c)' /\ CallingBack(u)'
    <3>1. Collecting(c)
      BY <2>2 DEF Flow
    <3>2. (Open(c)' <=> Open(c)) /\ (ToCome(c)' <=> ToCome(c))
      BY <1>0, <1>5, <2>1 DEF Open, ToCome, Reading
    <3>. QED
      BY <1>0, <1>4, <1>5, <2>2, <3>1, <3>2 DEF Collecting, Closed, Closing, EnvKeeps
  <2>3. rd'.pc \notin {"fault", "stopped"} /\ rd.pc # "stopped"
    BY <1>0, <1>5 DEF Closed, Closing
  <2>. QED
    BY <1>0, <1>5, <2>1, <2>2, <2>3, ReaderOnward
<1>6. CASE ResetType
  <2>1. rd'.pc = "convert" /\ rd'.line = rd.line
    BY <1>0, <1>6 DEF ResetType, Readers
  <2>. QED
    BY <1>5, <2>1 DEF Closed, Closing, CallingBack
<1>7. CASE Convert
  <2>1. /\ rd'.pc \in {"post", "loadCB"} /\ rd'.line = rd.line /\ ctx' = ctx
        /\ rd'.pc = "loadCB" => ctx.pktRespCB # 0
    BY <1>0, <1>7 DEF Convert, Readers
  <2>. QED
    BY <1>5, <2>1 DEF Closed, Closing, CallingBack
<1>8. CASE LoadCallback
  <2>1. /\ rd.pc = "loadCB" /\ rd'.pc = "loadData" /\ rd'.line = rd.line /\ ctx' = ctx
        /\ rd'.cb = ctx.pktRespCB
    BY <1>0, <1>8 DEF LoadCallback, Readers
  <2>. QED
    BY <1>2, <1>5, <2>1 DEF Closed, Closing, CallingBack
<1>9. CASE CallCallback
  <2>1. rd.pc = "loadData" /\ rd.cb = ctx.pktRespCB /\ ctx.pktRespCB # 0
    BY <1>2, <1>9 DEF CallCallback, CallingBack
  <2>2. /\ rd'.pc = "callback" /\ rd'.line = rd.line /\ rd'.cb = rd.cb /\ rd'.usr = ctx.pPktUsrData
        /\ pc' = pc /\ exch' = exch
    BY <1>0, <1>9, <2>1 DEF CallCallback, Readers, EnvKeeps
  <2>. QED
    BY <1>3, <1>5, <2>1, <2>2 DEF Closed, Closing, CallingBack
<1>10. CASE CallbackReturns
  <2>1. rd'.pc = "post" /\ rd'.line = rd.line
    BY <1>0, <1>10 DEF CallbackReturns, Readers
  <2>. QED
    BY <1>5, <2>1 DEF Closed, Closing, CallingBack
<1>. QED
  BY <1>6, <1>7, <1>8, <1>9, <1>10

\* The status is posted for the task that waits, and nothing more is to come.
LEMMA PostFlow ==
  ASSUME TypeOK, TellInv, CallInv, FlowInv, PostStatus
  PROVE  FlowInv'
<1>1. /\ rd.pc = "post" /\ HasLine /\ Reading /\ rd' = ReaderIdle /\ atResp' = NoResp
      /\ UNCHANGED <<pc, cmd, exch, served, rx, toModem, modem>>
  BY DEF PostStatus, TellInv, Reading, Deep, HasLine, FreedResponse, taskVars, modemVars
<1>2. PICK t \in Tasks : Flow(t)
  BY <1>1 DEF FlowInv, Active
<1>3. PICK c : c = Asked(t)
  OBVIOUS
<1>4. Asking(c) /\ Answering(c) /\ Collecting(c) /\ pc[t] \in WaitLabels /\ respQueue = <<>>
  BY <1>2, <1>3 DEF Flow
<1>5. Ends(rd.line, c) /\ Fits(rd.line, c, exch)
  BY <1>1, <1>4 DEF Collecting, Closing, Answering
<1>6. ~modem.busy /\ ~Answers(rx) /\ toModem = <<>>
  BY <1>1, <1>4, <1>5 DEF Asking, Answering
<1>7. ~Active'
  BY <1>1, <1>6 DEF Active, ReaderIdle, NoResp, Reading, HasLine
<1>8. respQueue' = <<Status>> /\ IsAnswer(Status) /\ Status.x = exch
  BY <1>1, <1>4, <1>5 DEF PostStatus, PostedQueue, Status, Reading, IsAnswer, Fits
<1>9. IsAnswer(respQueue'[1]) /\ respQueue'[1].x = exch
  BY <1>8
<1>. QED
  BY <1>1, <1>4, <1>7, <1>9 DEF FlowInv, ReaderIdle

\* The line is no part of the answer: it is dropped, or the command is given up.
LEMMA UndefinedFlow ==
  ASSUME TypeOK, TellInv, CallInv, FlowInv, UndefinedAccepted \/ UndefinedRejected
  PROVE  FlowInv'
<1>0. /\ rx \in Seq(Lines) /\ EnvKeeps /\ UNCHANGED <<toModem, modem>>
      /\ rd.pc = "undefined" /\ HasLine /\ Reading /\ rd'.pc = "idle"
      /\ Active
  <2>1. /\ rx \in Seq(Lines) /\ EnvKeeps /\ UNCHANGED <<toModem, modem>>
        /\ rd.pc = "undefined" /\ rd' = ReaderIdle
    BY DEF TypeOK, EnvKeeps, UndefinedAccepted, UndefinedRejected, taskVars, modemVars
  <2>2. HasLine /\ Reading
    BY <2>1 DEF HasLine, TellInv, Reading, Deep
  <2>. QED
    BY <2>1, <2>2 DEF ReaderIdle, Active
<1>1. Reading' = FALSE /\ HasLine' = FALSE
  BY <1>0 DEF Reading, HasLine
<1>2. CASE UndefinedAccepted
  <2>1. UNCHANGED <<rx, atResp, ctx>>
    BY <1>2 DEF UndefinedAccepted
  <2>2. ASSUME NEW t \in Tasks, NEW c, c = Asked(t), Flow(t) PROVE Collecting(c)' /\ CallingBack(t)'
    <3>1. /\ Answering(c) /\ Collecting(c)
          /\ Reading /\ Ends(rd.line, c) => ~Unended(rx, c)
      BY <2>2, FlowFacts
    <3>2. Open(c)' => ToCome(c)'
      BY <1>0, <1>1, <2>1, <3>1 DEF Open, ToCome, Collecting
    <3>. QED
      BY <1>0, <2>1, <3>1, <3>2 DEF Collecting, CallingBack, Closing, Closed, EnvKeeps
  <2>. QED
    BY <1>0, <1>1, <2>1, <2>2, ReaderOnward
<1>3. CASE UndefinedRejected
  <2>1. atResp'.lines = <<>>
    BY <1>3 DEF UndefinedRejected, NoResp
  <2>2. PICK n \in 0 .. Len(rx) : rx' = SubSeq(rx, n + 1, Len(rx))
    BY <1>3 DEF UndefinedRejected
  <2>3. ASSUME NEW t \in Tasks, NEW c, c = Asked(t), Flow(t)
        PROVE  Asking(c)' /\ Answering(c)' /\ Collecting(c)' /\ CallingBack(t)'
    <3>1. /\ Asking(c) /\ Answering(c) /\ Collecting(c)
          /\ Reading /\ Ends(rd.line, c) => ~Unended(rx, c)
      BY <2>3, FlowFacts
    <3>2. /\ Partial(rx', c, exch)
          /\ Ended(rx', c) => Ended(rx, c)
          /\ Unended(rx', c) => Unended(rx, c) /\ (Ended(rx, c) => Ended(rx', c))
      BY <1>0, <2>2, <3>1, SomeDropped DEF Answering
    <3>3. toModem = <<>>
      BY <1>0, <3>1 DEF Asking
    <3>4. Asking(c)' /\ Answering(c)'
      BY <1>0, <1>1, <3>1, <3>2, <3>3 DEF Asking, Answering, EnvKeeps
    <3>5. Open(c)' => ToCome(c)'
      <4>1. SUFFICES ASSUME Open(c)' PROVE ToCome(c)'
        OBVIOUS
      <4>2. Unended(rx', c)
        BY <1>1, <2>1, <4>1 DEF Open
      <4>3. ToCome(c)
        BY <3>1, <3>2, <4>2 DEF Collecting, Open
      <4>. QED
        BY <1>0, <3>1, <3>2, <4>2, <4>3 DEF ToCome
    <3>6. Collecting(c)'
      BY <1>0, <2>1, <3>5, EmptySeq DEF Collecting, Closing, EnvKeeps
    <3>7. CallingBack(t)'
      BY <1>0 DEF CallingBack
    <3>. QED
      BY <3>4, <3>6, <3>7
  <2>. QED
    BY <1>0, <2>1, <2>3, Onward
<1>. QED
  BY <1>2, <1>3

\* The reader takes the next line.
LEMMA TakeFlow ==
  ASSUME TypeOK, FlowInv, TakeLine
  PROVE  FlowInv'
<1>0. /\ rx \in Seq(Lines) /\ EnvKeeps /\ UNCHANGED <<toModem, modem, atResp, ctx>>
      /\ rx # <<>> /\ rx' = Tail(rx) /\ rd.pc = "idle" /\ rd'.pc = "preprocess"
      /\ rd'.line = Head(rx)
  BY DEF TypeOK, EnvKeeps, TakeLine, taskVars, modemVars, Readers
<1>1. Reading = FALSE /\ (Reading' <=> IsAnswer(Head(rx)))
  BY <1>0 DEF Reading, HasLine
<1>2. \A c : /\ Answers(rx) <=> IsAnswer(Head(rx)) \/ Answers(rx')
             /\ Ended(rx, c) <=> (IsAnswer(Head(rx)) /\ Ends(Head(rx), c)) \/ Ended(rx', c)
             /\ Unended(rx, c) <=> (IsAnswer(Head(rx)) /\ ~Ends(Head(rx), c)) \/ Unended(rx', c)
  BY <1>0, FirstTaken
<1>3. Active' => Active
  BY <1>0, <1>1, <1>2 DEF Active
<1>4. ASSUME NEW t \in Tasks, NEW c, c = Asked(t), Flow(t)
      PROVE  Asking(c)' /\ Answering(c)' /\ Collecting(c)' /\ CallingBack(t)'
  <2>1. Asking(c) /\ Answering(c) /\ Collecting(c)
    BY <1>4 DEF Flow
  <2>2. /\ Partial(rx', c, exch)
        /\ IsAnswer(Head(rx)) => Fits(Head(rx), c, exch)
        /\ IsAnswer(Head(rx)) /\ Ends(Head(rx), c) => ~Answers(rx')
    BY <1>0, <2>1, FirstPart DEF Answering
  <2>3. Asking(c)'
    BY <1>0, <1>1, <1>2, <2>1 DEF Asking, EnvKeeps
  <2>4. Answering(c)'
    BY <1>0, <1>1, <1>2, <2>1, <2>2 DEF Answering, EnvKeeps
  <2>5. (Open(c)' => Open(c)) /\ (ToCome(c) => ToCome(c)')
    BY <1>0, <1>1, <1>2 DEF Open, ToCome
  <2>6. Collecting(c)' /\ CallingBack(t)'
    BY <1>0, <2>1, <2>5 DEF Collecting, CallingBack, Closing, Closed, EnvKeeps
  <2>. QED
    BY <2>3, <2>4, <2>6
<1>. QED
  BY <1>0, <1>3, <1>4, Onward

\* Every step keeps the answer on its way.
LEMMA FlowStep ==
  ASSUME InTime, TypeOK, MutexInv, CommandInv, TInv, [Next]_vars
  PROVE  FlowInv'
<1>0. TellInv /\ CallInv /\ FlowInv
  BY DEF TInv
<1>1. ASSUME NEW t \in Tasks, (\E c \in Commands : Call(t, c)) \/ TaskStep(t) PROVE FlowInv'
  BY <1>0, <1>1, TaskFlow
<1>2. CASE Modem
  BY <1>0, <1>2, ModemFlow
<1>3. CASE Reader
  BY <1>0, <1>3, ClassifyFlow, ProcessFlow, CompleteFlow, PostFlow, UndefinedFlow, TakeFlow
  DEF Reader
<1>4. CASE Abort
  <2>1. /\ UNCHANGED <<pc, cmd, exch, served, respQueue>>
        /\ rd'.pc = "stopped" /\ atResp'.lines = <<>>
    BY <1>4 DEF Abort, taskVars, NoResp, TypeOK, Readers
  <2>. QED
    BY <1>0, <2>1 DEF FlowInv, Active
<1>5. CASE UNCHANGED vars
  <2>1. ASSUME NEW u \in Tasks, Flow(u) PROVE Flow(u)'
    BY <1>5, <2>1
    DEF vars, Flow, Asked, Asking, Answering, Collecting, CallingBack, Open, ToCome, Reading,
        HasLine
  <2>. QED
    BY <1>0, <1>5, <2>1 DEF vars, FlowInv, Active, Reading, HasLine
<1>. QED
  BY <1>1, <1>2, <1>3, <1>4, <1>5 DEF Next, Done

-----------------------------------------------------------------------------
(* When every answer comes in time, it reaches the task it is for.            *)

\* The answer on its way belongs to the exchange in progress.
THEOREM AnswersComeInTime == ASSUME InTime PROVE Spec => []TInv
<1>1. Init => TInv
  <2>. SUFFICES ASSUME Init PROVE TInv
    OBVIOUS
  <2>1. /\ rx = <<>> /\ toModem = <<>> /\ respQueue = <<>> /\ atResp.lines = <<>>
        /\ ~modem.busy /\ rd.pc = "idle" /\ \A t \in Tasks : pc[t] = "idle"
    BY DEF Init, ReaderIdle, NoResp
  <2>2. TellInv
    <3>1. NoPrefix \notin UrcPrefixes
      BY ConstantsAssumption
    <3>2. \A t \in Tasks : cmd[t].prefix = NoPrefix
      BY DEF Init, NoCmd
    <3>3. ctx.pktRespPrefixBuf = NoPrefix
      BY DEF Init
    <3>. QED
      BY <2>1, <3>1, <3>2, <3>3 DEF TellInv, HasLine, Deep
  <2>3. CallInv
    BY <2>1 DEF CallInv, CallOf, CommandLabels, RegisteredLabels
  <2>4. ~Active
    BY <2>1, NoLines DEF Active, Reading, HasLine
  <2>5. IsAnswer(served) /\ served.from = served.x
    BY DEF Init, IsAnswer
  <2>6. FlowInv
    BY <2>1, <2>4, <2>5 DEF FlowInv
  <2>. QED
    BY <2>2, <2>3, <2>6 DEF TInv
<1>2. IInv /\ TInv /\ [Next]_vars => TInv'
  BY TellStep, CallStep, FlowStep DEF IInv, TInv
<1>. QED
  BY <1>1, <1>2, IInvAlways, PTL DEF Spec

\* The status a task takes from the response queue is that of its own command, if
\* waits do not expire early (OwnAnswer); whether sends are short does not matter.
THEOREM AnswersAreOwn == ASSUME InTime PROVE Spec => []OwnAnswer
<1>1. TInv => OwnAnswer
  BY DEF TInv, FlowInv, IsAnswer, OwnAnswer
<1>. QED
  BY <1>1, AnswersComeInTime, PTL

\* The callback of a request runs while the task that lent it waits, on its own
\* data (CallbackHasItsCaller).
THEOREM CallbackIsLent == ASSUME InTime PROVE Spec => []CallbackHasItsCaller
<1>1. ASSUME IInv, TInv PROVE CallbackHasItsCaller
  <2>1. TellInv /\ FlowInv /\ MutexInv
    BY <1>1 DEF IInv, TInv
  <2>2. ASSUME rd.pc = "callback"
        PROVE  /\ rd.cb = exch /\ rd.usr = exch
               /\ \E t \in Tasks : pc[t] = "wait" /\ reqMutex = t
    <3>1. Active
      BY <2>1, <2>2 DEF TellInv, Deep, Active, Reading, HasLine
    <3>2. PICK t \in Tasks : Flow(t)
      BY <2>1, <3>1 DEF FlowInv
    <3>3. rd.cb = exch /\ rd.usr = exch /\ pc[t] = "wait"
      BY <2>2, <3>2 DEF Flow, CallingBack
    <3>. QED
      BY <2>1, <3>3 DEF MutexInv, Holding, Labels
  <2>. QED
    BY <2>1, <2>2 DEF CallbackHasItsCaller, FlowInv
<1>. QED
  BY <1>1, AnswersComeInTime, IInvAlways, PTL

\* The response given to a command has only lines the modem sent for it
\* (ResponseIsPure).
THEOREM ResponsesArePure == ASSUME InTime PROVE Spec => []ResponseIsPure
<1>1. ASSUME TInv PROVE ResponseIsPure
  <2>1. TellInv /\ FlowInv
    BY <1>1 DEF TInv
  <2>2. ASSUME rd.pc \in {"convert", "loadCB", "loadData", "callback"}
        PROVE  \A i \in 1 .. Len(atResp.lines) :
                 atResp.lines[i].src = "answer" /\ atResp.lines[i].x = exch
    <3>1. Active
      BY <2>1, <2>2 DEF TellInv, Deep, Active, Reading, HasLine
    <3>2. PICK t \in Tasks : Flow(t)
      BY <2>1, <3>1 DEF FlowInv
    <3>. QED
      BY <3>2 DEF Flow, Collecting, IsAnswer
  <2>. QED
    BY <2>2 DEF ResponseIsPure
<1>. QED
  BY <1>1, AnswersComeInTime, PTL
=============================================================================
