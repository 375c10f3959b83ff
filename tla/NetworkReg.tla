----------------------------- MODULE NetworkReg -----------------------------
(***************************************************************************)
(* What the library knows about the network: libAtData, kept by the        *)
(* registration lines +CREG (circuit switched), +CGREG and +CEREG (packet  *)
(* switched, GPRS and EPS), unsolicited or in answer to a query            *)
(* (cellular_3gpp_urc_handler.c), the events the application gets, and     *)
(* Cellular_CommonGetServiceStatus (cellular_3gpp_api.c).                  *)
(*                                                                         *)
(* The fields of a line are its status, its location (<lac> or <tac> and   *)
(* <ci>, with <rac> of +CGREG), its access technology and its reject type  *)
(* and cause.  A task's query and the reader meet in libAtDataMutex; every *)
(* line is handled under it, in one step.  Queries are answered in time:   *)
(* late answers are the subject of PktRequest.                             *)
(***************************************************************************)
EXTENDS Naturals, Sequences, FiniteSets

CONSTANTS
  Askers,      \* the tasks that ask for the service status
  NoTask,
  Rats,        \* access technologies
  NoRat,       \* CELLULAR_RAT_INVALID
  Causes,      \* reject types and causes
  NoCause,     \* 0, none yet
  MaxChanges,  \* bound on the changes of the network
  MaxQueries,  \* bound on the calls of Cellular_GetServiceStatus
  EmptyFields, \* TRUE: a denied registration may be reported with no location
  Errors       \* TRUE: the modem may refuse a query

ASSUME RegAssumption ==
  /\ NoTask \notin Askers /\ NoRat \notin Rats /\ NoCause \notin Causes
  /\ MaxChanges \in Nat /\ MaxQueries \in Nat
  /\ EmptyFields \in BOOLEAN /\ Errors \in BOOLEAN

RegTypes == {"CREG", "CGREG", "CEREG"}
Statuses == {"searching", "home", "roaming", "denied"}
Registered(stat) == stat \in {"home", "roaming"}

\* A line of the modem: a registration line, unsolicited or read, or the end of
\* an answer.  The location is absent after the status alone.
Line(type, urc, stat, loc, rat, cause) ==
  [type |-> type, urc |-> urc, stat |-> stat, loc |-> loc, rat |-> rat, cause |-> cause]
End(type) == Line(type, FALSE, "searching", "absent", NoRat, NoCause)

VARIABLES
  net,       \* what the modem is registered to, for each type
  changes,   \* number of changes of it so far
  lines,     \* the lines on the way to the reader
  answering, \* how far the modem is with the query it got
  data,      \* libAtData
  saved,     \* pAtCmdResp: the lines of the answer received so far
  cmd,       \* the task whose query is under way
  app,       \* the statuses the application knows from the events
  stage,     \* where the tasks are in Cellular_CommonGetServiceStatus
  ok,        \* cellularStatus of atcmdQueryRegStatus
  service,   \* *pServiceStatus
  calls,     \* number of calls of Cellular_GetServiceStatus
  quiet      \* nothing has changed since the call, nothing was on its way,
             \* and every query was answered well

vars == <<net, changes, lines, answering, data, saved, cmd, app, stage, ok, service,
          calls, quiet>>
modemVars == <<net, changes>>
taskVars == <<ok, service, calls, quiet>>

Unfilled == [filled |-> FALSE, cs |-> "searching", ps |-> "searching", rat |-> NoRat]

\* _Cellular_InitAtData, mode 0.
Init ==
  /\ net = [type \in RegTypes |-> [stat |-> "searching", rat |-> NoRat]]
  /\ changes = 0
  /\ lines = <<>>
  /\ answering = "no"
  /\ data = [cs |-> "searching", ps |-> "searching", rat |-> NoRat,
             csCause |-> NoCause, psCause |-> NoCause]
  /\ saved = <<>>
  /\ cmd = NoTask
  /\ app = [cs |-> "searching", ps |-> "searching"]
  /\ stage = [t \in Askers |-> "idle"]
  /\ ok = [t \in Askers |-> TRUE]
  /\ service = [t \in Askers |-> Unfilled]
  /\ calls = 0
  /\ quiet = [t \in Askers |-> FALSE]

-----------------------------------------------------------------------------
(* The modem.                                                              *)

\* How the modem reports a registration.
Reports(type, urc, reg) ==
  IF Registered(reg.stat) THEN { Line(type, urc, reg.stat, "given", reg.rat, NoCause) }
  ELSE IF reg.stat = "denied"
    THEN { Line(type, urc, "denied", loc, reg.rat, cause) :
             loc \in {"given"} \cup IF EmptyFields THEN {"empty"} ELSE {}, cause \in Causes }
    ELSE { Line(type, urc, reg.stat, "absent", NoRat, NoCause) }

\* The network changes, and the modem says so.
NetworkChange(type) ==
  /\ changes < MaxChanges
  /\ \E stat \in Statuses \ {net[type].stat}, rat \in Rats :
       /\ net' = [net EXCEPT ![type] = [stat |-> stat, rat |-> rat]]
       /\ \E line \in Reports(type, TRUE, net'[type]) : lines' = Append(lines, line)
  /\ changes' = changes + 1
  /\ quiet' = [t \in Askers |-> FALSE]
  /\ UNCHANGED <<answering, data, saved, cmd, app, stage, ok, service, calls>>

\* The type of the query under way.
QueryType(t) == CASE stage[t] = "cregSent" -> "CREG"
                  [] stage[t] = "cgregSent" -> "CGREG"
                  [] OTHER -> "CEREG"

\* The modem answers a query with what it is registered to, and ends the answer.
Answer ==
  /\ answering = "asked"
  /\ LET type == QueryType(cmd) IN
     \E line \in Reports(type, FALSE, net[type]) : lines' = Append(lines, line)
  /\ answering' = "answered"
  /\ UNCHANGED <<modemVars, data, saved, cmd, app, stage, taskVars>>

EndAnswer ==
  /\ \/ answering = "answered" /\ lines' = Append(lines, End("OK"))
     \/ answering = "asked" /\ Errors /\ lines' = Append(lines, End("ERROR"))
  /\ answering' = "no"
  /\ UNCHANGED <<modemVars, data, saved, cmd, app, stage, taskVars>>

-----------------------------------------------------------------------------
(* _Cellular_ParseRegStatus.                                               *)

\* Mutant: everything is cleaned, as when the library is opened.
ClearedAll(d) == [d EXCEPT !.rat = NoRat, !.cs = "searching", !.ps = "searching"]

\* _Cellular_InitAtData, mode 1: the fields of the network that was lost.
Cleared(d) == [d EXCEPT !.rat = NoRat]

\* The status, and the cleaning unless it is one of the two registered ones.
WithStatus(d, type, stat) ==
  LET set == IF type = "CREG" THEN [d EXCEPT !.cs = stat] ELSE [d EXCEPT !.ps = stat]
  IN  IF Registered(stat) THEN set ELSE Cleared(set)

\* The reject type and cause are stored if the registration is denied.
WithCause(d, type, cause) ==
  IF type = "CREG"
  THEN IF d.cs = "denied" THEN [d EXCEPT !.csCause = cause] ELSE d
  ELSE IF d.ps = "denied" THEN [d EXCEPT !.psCause = cause] ELSE d

\* The fields of a line go into the data one after the other, up to one that is
\* no number, as an empty one.
LineParsed(d, line) ==
  LET status   == WithStatus(d, line.type, line.stat)
      location == [status EXCEPT !.rat = line.rat]
  IN  CASE line.loc = "absent" -> status
        [] line.loc = "empty"  -> status
        [] OTHER -> IF line.cause = NoCause THEN location
                    ELSE WithCause(location, line.type, line.cause)
ParsedWhole(line) == line.loc # "empty"

\* Mutant: the case of +CEREG is missing.
CsTypes == {"CREG", "CEREG"}

\* The types whose changes are reported by csRegStatus.
CsEventTypes == {"CREG"}

\* _Cellular_RegEventStatus
StatusChanged(d, e, type) == IF type \in CsEventTypes THEN d.cs # e.cs ELSE d.ps # e.ps

\* _regStatusGenerateEvent: the application learns both statuses.
Told(a, d, e, type) == IF StatusChanged(d, e, type) THEN [cs |-> e.cs, ps |-> e.ps] ELSE a

\* One line is handled, with its event.
Handled(s, line) ==
  LET e == LineParsed(s.data, line)
  IN  [data |-> e, app |-> Told(s.app, s.data, e, line.type), ok |-> ParsedWhole(line)]

\* regResponseIsUrc takes an unsolicited line with empty fields for a read one;
\* the fields are then one off, and the first that counts is empty.
Misread(line) == line.urc /\ line.loc = "empty"

\* _Cellular_RecvFuncGetNetworkReg: the saved lines in order, up to one that
\* cannot be parsed.
HandledNext(s, line) ==
  IF ~s.ok THEN s
  ELSE IF Misread(line) THEN [s EXCEPT !.ok = FALSE]
  ELSE Handled(s, line)

HandledSaved ==
  LET upTo[n \in 0 .. Len(saved)] ==
        IF n = 0 THEN [data |-> data, app |-> app, ok |-> TRUE]
        ELSE HandledNext(upTo[n - 1], saved[n])
  IN  upTo[Len(saved)]

-----------------------------------------------------------------------------
(* The reader.                                                             *)

NextLine == Head(lines)
Take == lines # <<>> /\ lines' = Tail(lines)

\* A line with the prefix of the query under way is saved for its callback,
SaveLine ==
  /\ Take
  /\ NextLine.type \in RegTypes
  /\ cmd # NoTask /\ QueryType(cmd) = NextLine.type
  /\ saved' = Append(saved, NextLine)
  /\ UNCHANGED <<modemVars, answering, data, cmd, app, stage, taskVars>>

\* any other is an unsolicited one: Cellular_CommonUrcProcessCreg, Cgreg, Cereg.
UrcProcess ==
  /\ Take
  /\ NextLine.type \in RegTypes
  /\ cmd # NoTask => QueryType(cmd) # NextLine.type
  /\ LET h == Handled([data |-> data, app |-> app], NextLine)
     IN  data' = h.data /\ app' = h.app
  /\ UNCHANGED <<modemVars, answering, saved, cmd, stage, taskVars>>

\* Where a task goes on after each query.
AfterQuery(t, success) ==
  CASE stage[t] = "cregSent"  -> IF success THEN "cgreg" ELSE "readPs"
    [] stage[t] = "cgregSent" -> "readPs"
    [] stage[t] = "ceregSent" -> "readAll"

\* Mutant: the request is over and the next one cannot be sent.
QueryDoneStuck(success) ==
  /\ stage' = [stage EXCEPT ![cmd] = AfterQuery(cmd, success)]
  /\ ok' = [ok EXCEPT ![cmd] = IF stage[cmd] = "cgregSent" THEN @ ELSE success]
  /\ saved' = <<>>
  /\ quiet' = [quiet EXCEPT ![cmd] = @ /\ success]
  /\ UNCHANGED <<cmd, service, calls>>

\* The outcome of +CGREG is ignored.
QueryDone(success) ==
  /\ stage' = [stage EXCEPT ![cmd] = AfterQuery(cmd, success)]
  /\ ok' = [ok EXCEPT ![cmd] = IF stage[cmd] = "cgregSent" THEN @ ELSE success]
  /\ cmd' = NoTask
  /\ saved' = <<>>
  /\ quiet' = [quiet EXCEPT ![cmd] = @ /\ success]
  /\ UNCHANGED <<service, calls>>

\* The answer is complete: its callback, and the task goes on.
FinishAnswer ==
  /\ Take
  /\ NextLine.type = "OK"
  /\ data' = HandledSaved.data
  /\ app' = HandledSaved.app
  /\ QueryDone(HandledSaved.ok)
  /\ UNCHANGED <<modemVars, answering>>

RefusedAnswer ==
  /\ Take
  /\ NextLine.type = "ERROR"
  /\ QueryDone(FALSE)
  /\ UNCHANGED <<modemVars, answering, data, app>>

-----------------------------------------------------------------------------
(* Cellular_CommonGetServiceStatus.                                        *)

TaskStep(t, from, to) ==
  /\ stage[t] = from
  /\ stage' = [stage EXCEPT ![t] = to]
  /\ UNCHANGED <<modemVars, data, saved, app>>

GetServiceStatus(t) ==
  /\ calls < MaxQueries
  /\ TaskStep(t, "idle", "creg")
  /\ calls' = calls + 1
  /\ ok' = [ok EXCEPT ![t] = TRUE]
  /\ service' = [service EXCEPT ![t] = Unfilled]
  /\ quiet' = [quiet EXCEPT ![t] = lines = <<>>]
  /\ UNCHANGED <<lines, answering, cmd>>

\* queryNetworkStatus: one request at a time.
SendQuery(t) ==
  /\ cmd = NoTask /\ answering = "no"
  /\ \/ TaskStep(t, "creg", "cregSent")
     \/ TaskStep(t, "cgreg", "cgregSent")
     \/ TaskStep(t, "cereg", "ceregSent")
  /\ cmd' = t
  /\ answering' = "asked"
  /\ UNCHANGED <<lines, taskVars>>

\* Mutant: +CEREG is asked in any case.
AlwaysAsksCereg(t) == ok[t]

\* +CEREG is asked only if the modem has no GPRS registration.
AsksCereg(t) == ok[t] /\ ~Registered(data.ps)

\* libAtDataMutex is held for the copy of psRegStatus only.
ReadPs(t) ==
  /\ TaskStep(t, "readPs", IF AsksCereg(t) THEN "cereg" ELSE "readAll")
  /\ UNCHANGED <<lines, answering, cmd, taskVars>>

\* The status is copied if the queries succeeded; the caller gets
\* CELLULAR_SUCCESS either way.
ReadAll(t) ==
  /\ TaskStep(t, "readAll", "returned")
  /\ service' = IF ok[t]
                THEN [service EXCEPT ![t] = [filled |-> TRUE, cs |-> data.cs,
                                             ps |-> data.ps, rat |-> data.rat]]
                ELSE service
  /\ UNCHANGED <<lines, answering, cmd, ok, calls, quiet>>

Return(t) ==
  /\ TaskStep(t, "returned", "idle")
  /\ UNCHANGED <<lines, answering, cmd, taskVars>>

-----------------------------------------------------------------------------
Modem == (\E type \in RegTypes : NetworkChange(type)) \/ Answer \/ EndAnswer
Reader == SaveLine \/ UrcProcess \/ FinishAnswer \/ RefusedAnswer
Task(t) == GetServiceStatus(t) \/ SendQuery(t) \/ ReadPs(t) \/ ReadAll(t) \/ Return(t)

\* The application has asked as often as it may and the network is stable.
Still ==
  /\ lines = <<>> /\ changes = MaxChanges /\ calls = MaxQueries
  /\ \A t \in Askers : stage[t] = "idle"
  /\ UNCHANGED vars

Next == Modem \/ Reader \/ (\E t \in Askers : Task(t)) \/ Still

Spec == Init /\ [][Next]_vars

-----------------------------------------------------------------------------
(* Properties.                                                             *)

TypeOK ==
  /\ net \in [RegTypes -> [stat : Statuses, rat : Rats \cup {NoRat}]]
  /\ answering \in {"no", "asked", "answered"}
  /\ data.cs \in Statuses /\ data.ps \in Statuses
  /\ data.rat \in Rats \cup {NoRat}
  /\ {data.csCause, data.psCause} \subseteq Causes \cup {NoCause}
  /\ cmd \in Askers \cup {NoTask}
  /\ stage \in [Askers -> {"idle", "creg", "cregSent", "cgreg", "cgregSent", "readPs",
                       "cereg", "ceregSent", "readAll", "returned"}]
  /\ cmd # NoTask => stage[cmd] \in {"cregSent", "cgregSent", "ceregSent"}

\* The application that has followed the events since the library was opened knows
\* the statuses the library knows: every change of csRegStatus or psRegStatus,
\* whichever line and whichever path brought it, gives an event with both.
EventsTellAll == app.cs = data.cs /\ app.ps = data.ps

\* The type a line taken by the reader is about, and what a line about one domain
\* leaves of the other.
TakenType == IF NextLine.type \in RegTypes THEN NextLine.type ELSE QueryType(cmd)
OtherKept ==
  IF TakenType = "CREG" THEN data'.ps = data.ps /\ data'.psCause = data.psCause
  ELSE data'.cs = data.cs /\ data'.csCause = data.csCause

\* A line about one domain never changes the status of the other, nor the cause
\* why the other was denied, though all lines clean the same data.
DomainsApart == [][lines # <<>> /\ lines' = Tail(lines) => OtherKept]_vars

\* A service status asked for while nothing changes, with every query answered
\* well, is the one of the modem: the circuit switched status as it is, the packet
\* switched one registered if the modem is registered with GPRS or with EPS, in
\* spite of the two sharing psRegStatus.
QuietQueryIsRight ==
  \A t \in Askers : stage[t] = "returned" /\ quiet[t] /\ service[t].filled =>
    /\ service[t].cs = net["CREG"].stat
    /\ Registered(service[t].ps) <=>
         \E type \in {"CGREG", "CEREG"} : Registered(net[type].stat)
=============================================================================
