---------------------------- MODULE ModemQueries ----------------------------
(***************************************************************************)
(* The calls that ask the modem something or set it up: cellular_3gpp_api.c*)
(* without the registration of NetworkReg, and Cellular_ATCommandRaw.      *)
(*                                                                         *)
(* A call sends its commands one after the other while they succeed; one   *)
(* exchange (the command, the lines of the answer, the parser) is a step,  *)
(* as only one request is under way at a time (PktRequest), and other      *)
(* tasks' exchanges come in between.  The library is open (LibLifecycle).  *)
(* What the modem is set to, writes and hears is not code of the           *)
(* repository: it is taken from the formats the parsers are written for.   *)
(***************************************************************************)
EXTENDS ModemAnswers

CONSTANTS
  Tasks,
  Modems,      \* what the modem may be at first
  Requests,    \* the calls each task may make
  MaxRequests, \* bound on the calls of all tasks
  Faults,      \* what may go wrong: "refused", "silent", "mute", "noMemory"
  PdnMin, PdnMax \* CELLULAR_PDN_CONTEXT_ID_MIN and _MAX

\* The calls of the interface that are modelled.
Ops == {"GetModemInfo", "GetSimCardInfo", "GetSimCardLockStatus", "GetRegisteredNetwork",
        "GetServiceStatus", "GetNetworkTime", "GetIPAddress", "SetPdnConfig", "GetPsmSettings",
        "SetPsmSettings", "GetEidrxSettings", "SetEidrxSettings", "RfOn", "RfOff", "ATCommandRaw"}

-----------------------------------------------------------------------------
(* The modem and the calls that the checks and the theorems are about.     *)

Text == Seq(STRING)
Lacks(s, c) == \A i \in 1 .. Len(s) : s[i] # c
Digits(lengths) == {s \in Seq(ToSet(Decimals)) : Len(s) \in lengths}
TimerFields == {"rau", "ready", "tau", "active"}

\* A name has two symbols or more, with no space at its ends: of a single one the code
\* keeps the space after it.
IsName(s) == s \in Text /\ Len(s) >= 2 /\ s[1] # Space /\ s[Len(s)] # Space
IsNumber(s) == s \in Text /\ Lacks(s, Space)
IsPlmn(p) == p \in [mcc : Digits({3}), mnc : Digits({2, 3})]
IsOperator(o) == o.name \in Text /\ IsPlmn(o.plmn) /\ o.rat \in 0 .. 9
IsClock(c) == c \in [ToSet(TimeFields) -> -99 .. 99] /\ \A f \in DOMAIN c \ {"zone"} : c[f] >= 0
\* The modes of a timer setting, and timers of a byte, or none.
IsPsm(p) ==
  /\ p.mode \in {0, 1}
  /\ \A f \in TimerFields : p[f] = {} \/ \E v \in 0 .. 255 : p[f] = {v}

\* Values as 3GPP TS 27.007 has them, and an IMEI and an address that fit their fields.
IsModem(m) ==
  /\ IsName(m.version) /\ IsName(m.model) /\ IsName(m.maker)
  /\ IsNumber(m.imei) /\ Len(m.imei) <= Sizes.imei
  /\ IsNumber(m.imsi) /\ IsNumber(m.iccid)
  /\ m.crsm \in {"good", "memory", "empty", "error"} /\ IsPlmn(m.hplmn)
  /\ \A o \in m.oper : IsOperator(o)
  /\ m.mode \in 0 .. 4 /\ m.format \in 0 .. 2
  /\ IsClock(m.clock)
  /\ m.ip \in Text /\ Lacks(m.ip, Quote) /\ Len(m.ip) + 2 <= Sizes.ip
  /\ IsPsm(m.psm)
  /\ m.edrx \in Seq([rat : 0 .. 99, value : 0 .. 15])
ModemFields == {"version", "imei", "model", "maker", "imsi", "iccid", "crsm", "hplmn", "lock",
                "oper", "mode", "format", "clock", "ip", "psm", "edrx", "pdn", "rf"}

\* What a command of the application's own may set that a getter reads: the format of
\* names.
FormatCommands == { <<"AT+COPS=", "3", ",", d>> : d \in {"0", "1", "2"} }
IsRawCommand(cmd) ==
  \/ cmd \in FormatCommands
  \/ /\ cmd \in Text \ { <<>> }
     /\ cmd[1] \notin {"AT+CPSMS=", "AT+CEDRXS=", "AT+CGDCONT=", "AT+COPS="}

IsRequest(r) ==
  /\ r.op \in Ops
  /\ r.op = "SetPsmSettings" =>
       r.arg.mode \in {0, 1} /\ \A f \in TimerFields : r.arg[f] \in Nat
  /\ r.op = "SetEidrxSettings" =>
       r.arg.mode \in 0 .. 3 /\ r.arg.rat \in 0 .. 99 /\ r.arg.value \in 0 .. 15
  /\ r.op = "SetPdnConfig" =>
       r.arg.apn \in Text /\ Lacks(r.arg.apn, Quote) /\ Lacks(r.arg.apn, ",")
  /\ r.op = "ATCommandRaw" => IsRawCommand(r.arg.cmd)

ASSUME QueryAssumption ==
  /\ \A m \in Modems : DOMAIN m = ModemFields /\ IsModem(m)
  /\ \A t \in Tasks : \A r \in Requests[t] : IsRequest(r)
  /\ MaxRequests \in Nat /\ PdnMin \in 0 .. 99 /\ PdnMax \in 0 .. 99
  /\ Faults \subseteq {"refused", "silent", "mute", "noMemory"}

VARIABLES
  modem,    \* what the modem is set to
  requests, \* number of calls so far
  pc,       \* idle, sending, returned
  req,      \* the call: its name op, its argument arg, NULL or not
  todo,     \* the commands still to be sent
  out,      \* the caller's structure
  told,     \* for each command sent, the modem when it had answered it
  status    \* what the call returned

queryVars == <<modem, requests, pc, req, todo, out, told, status>>

NoRequest == [op |-> "none", null |-> FALSE, arg |-> [x |-> 0]]
NoPlmn == [mcc |-> <<>>, mnc |-> <<>>]

-----------------------------------------------------------------------------
(* The modem.                                                              *)

Plus(name) == <<name, ":", " ">>
Padded(s) == { s, <<Space>> \o s \o <<Space>> }
\* A number with two digits, as in a time.
Two(n) == IF n < 10 THEN <<"0">> \o DecDigits[n] ELSE DecDigits[n]
Signed(n) == IF n < 0 THEN <<"-">> \o Two(-n) ELSE <<"+">> \o Two(n)

ClockText(c) ==
  LET hours == Two(c.hour) \o <<":">> \o (Two(c.minute) \o <<":">> \o (Two(c.second) \o Signed(c.zone)))
  IN  Quoted(Two(c.year) \o <<"/">> \o (Two(c.month) \o <<"/">> \o Comma(Two(c.day), hours)))

\* The first six symbols of EF-HPLMNwACT, and the access technologies.
HplmnText(p) ==
  <<p.mcc[2], p.mcc[1], IF Len(p.mnc) = 3 THEN p.mnc[3] ELSE "F", p.mcc[3], p.mnc[2], p.mnc[1],
    "4", "0", "0", "0">>

CrsmText(m) ==
  CASE m.crsm = "good" -> Comma(<<"1", "4", "4">>, Comma(<<"0">>, Quoted(HplmnText(m.hplmn))))
    [] m.crsm = "memory" ->
         Comma(<<"1", "4", "6">>, Comma(<<"6", "4">>, Quoted(HplmnText(m.hplmn))))
    [] m.crsm = "empty" ->
         Comma(<<"1", "4", "4">>, Comma(<<"0">>, Quoted([i \in 1 .. 10 |-> "F"])))
    [] m.crsm = "error" -> Comma(<<"1", "0", "6">>, <<"1", "3", "0">>)

CopsText(m) ==
  IF m.oper = {} THEN DecDigits[m.mode]
  ELSE LET o == CHOOSE x \in m.oper : TRUE IN
       Comma(DecDigits[m.mode],
             Comma(DecDigits[m.format],
                   Comma(Quoted(IF m.format = 2 THEN o.plmn.mcc \o o.plmn.mnc ELSE o.name),
                         DecDigits[o.rat])))

PsmFields == <<"rau", "ready", "tau", "active">>
PsmText(psm) ==
  LET timer(f) == IF psm[f] = {} THEN <<>> ELSE Quoted(Bits(CHOOSE v \in psm[f] : TRUE, 8))
  IN  Comma(DecDigits[psm.mode],
            Comma(timer("rau"), Comma(timer("ready"), Comma(timer("tau"), timer("active")))))

EdrxLine(e) ==
  Plus("+CEDRXS") \o Comma(DecDigits[e.rat], Comma(Quoted(Bits(e.value, 4)),
                                                   Quoted(<<"0", "0", "0", "1">>)))

\* The lines of the answer to a command, without the final OK.
Answers(m, name) ==
  CASE name = "AT+CGMR" -> { <<s>> : s \in Padded(m.version) }
    [] name = "AT+CGSN" -> { <<s>> : s \in Padded(m.imei) }
    [] name = "AT+CGMM" -> { <<s>> : s \in Padded(m.model) }
    [] name = "AT+CGMI" -> { <<s>> : s \in Padded(m.maker) }
    [] name = "AT+CIMI" -> { <<s>> : s \in Padded(m.imsi) }
    [] name = "AT+CCID" -> { << Plus("+CCID") \o m.iccid >> }
    [] name = "AT+CRSM" -> { << Plus("+CRSM") \o CrsmText(m) >> }
    [] name = "AT+CPIN?" -> { << Plus("+CPIN") \o LockNames[m.lock] >> }
    [] name = "AT+COPS?" -> { << Plus("+COPS") \o CopsText(m) >> }
    [] name = "AT+CCLK?" -> { << Plus("+CCLK") \o ClockText(m.clock) >> }
    [] name = "AT+CGPADDR=" ->
         { << Plus("+CGPADDR") \o s >> :
             s \in IF m.ip = <<>> THEN { <<"1">> }
                   ELSE { Comma(<<"1">>, m.ip), Comma(<<"1">>, Quoted(m.ip)) } }
    [] name = "AT+CPSMS?" -> { << Plus("+CPSMS") \o PsmText(m.psm) >> }
    [] name = "AT+CEDRXS?" -> IF m.edrx = <<>> THEN { <<s>> : s \in EmptyEdrx }
                              ELSE { [i \in DOMAIN m.edrx |-> EdrxLine(m.edrx[i])] }
    [] OTHER -> { <<>> }

\* The parameters of a command, between its commas, of which there are at most five: one
\* that is not there is empty.
First(s) == SubSeq(s, 1, FirstOf(s, ",") - 1)
Rest(s) == From(s, FirstOf(s, ",") + 1)
Fields(s) == << First(s), First(Rest(s)), First(Rest(Rest(s))), First(Rest(Rest(Rest(s)))),
                First(Rest(Rest(Rest(Rest(s))))) >>
Unquoted(s) == Without(s, Quote)

\* A parameter that is left out keeps its value.
HeardPsm(psm, f) ==
  LET heard(i) == IF f[i + 1] # <<>> THEN {ValueOf(Unquoted(f[i + 1]), 2)} ELSE psm[PsmFields[i]]
  IN  [mode |-> ValueOf(f[1], 10), rau |-> heard(1), ready |-> heard(2), tau |-> heard(3),
       active |-> heard(4)]

HeardEdrx(list, f) ==
  LET e == [rat |-> ValueOf(f[2], 10), value |-> ValueOf(Unquoted(f[3]), 2)] IN
  IF \E i \in DOMAIN list : list[i].rat = e.rat
  THEN [i \in DOMAIN list |-> IF list[i].rat = e.rat THEN e ELSE list[i]]
  ELSE Append(list, e)

\* What the modem is set to after a command.
Heard(m, cmd) ==
  LET f == Fields(Tail(cmd)) IN
  CASE cmd[1] = "AT+CPSMS=" -> [m EXCEPT !.psm = HeardPsm(@, f)]
    [] cmd[1] = "AT+CEDRXS=" -> [m EXCEPT !.edrx = HeardEdrx(@, f)]
    [] cmd[1] = "AT+CGDCONT=" ->
         LET p == [cid |-> ValueOf(f[1], 10), type |-> Unquoted(f[2]), apn |-> Unquoted(f[3])] IN
         [m EXCEPT !.pdn = {p} \cup {c \in @ : c.cid # p.cid}]
    [] cmd[1] = "AT+CFUN=" -> [m EXCEPT !.rf = f[1]]
    [] cmd[1] = "AT+COPS=" -> [m EXCEPT !.format = ValueOf(f[2], 10)]
    [] OTHER -> m

-----------------------------------------------------------------------------
(* The commands of a call, its structure and its checks.                   *)

\* Each call: the check that refuses it, the commands it sends one after the other, and
\* the caller's structure as it prepares it.
Refused == [refusal |-> "BAD_PARAMETER", commands |-> <<>>, fresh |-> NoRequest.arg]
Sends(commands, fresh) == [refusal |-> "no", commands |-> commands, fresh |-> fresh]
Sets(command) == Sends(<<command>>, NoRequest.arg)

GetModemInfo == Sends(<< <<"AT+CGMR">>, <<"AT+CGSN">>, <<"AT+CGMM">>, <<"AT+CGMI">> >>,
                      [version |-> <<>>, imei |-> <<>>, model |-> <<>>, maker |-> <<>>])
GetSimCardInfo == Sends(<< <<"AT+CIMI">>, <<"AT+CRSM">>, <<"AT+CCID">> >>,
                        [imsi |-> <<>>, plmn |-> NoPlmn, iccid |-> <<>>])
GetSimCardLockStatus == Sends(<< <<"AT+CPIN?">> >>, [lock |-> 0])
GetNetworkTime == Sends(<< <<"AT+CCLK?">> >>, NoTime)
GetPsmSettings == Sends(<< <<"AT+CPSMS?">> >>,
                        [mode |-> 255, rau |-> 0, ready |-> 0, tau |-> 0, active |-> 0])
GetEidrxSettings == Sends(<< <<"AT+CEDRXS?">> >>, [list |-> <<>>])
SetPsmSettings(psm) == Sets(PsmCommand(psm))
SetEidrxSettings(e) == Sets(EidrxCommand(e))
RfOn == Sets(<<"AT+CFUN=", "1">>)
RfOff == Sets(<<"AT+CFUN=", "4">>)
ATCommandRaw(cmd) == Sets(cmd)

\* atcmdUpdateMccMnc
CopsCommands == << <<"AT+COPS=", "3", ",", "2">>, <<"AT+COPS?">> >>
CopsOps == {"GetRegisteredNetwork", "GetServiceStatus"}
NoOperator == [mode |-> 0, format |-> 0, plmn |-> NoPlmn, name |-> <<>>, rat |-> 0]
GetRegisteredNetwork == Sends(CopsCommands, NoOperator)

\* _Cellular_IsValidPdn
IsValidPdn(cid) == cid \in PdnMin .. PdnMax

GetIPAddress(cid) ==
  IF IsValidPdn(cid) THEN Sends(<< <<"AT+CGPADDR=">> \o DecDigits[cid] >>, [ip |-> <<>>])
  ELSE Refused
SetPdnConfig(p) ==
  IF p.type \in DOMAIN PdnTypes /\ IsValidPdn(p.cid) THEN Sets(PdnCommand(p.cid, p.type, p.apn))
  ELSE Refused

Query(r) ==
  IF r.null THEN Refused
  ELSE CASE r.op = "GetModemInfo" -> GetModemInfo
         [] r.op = "GetSimCardInfo" -> GetSimCardInfo
         [] r.op = "GetSimCardLockStatus" -> GetSimCardLockStatus
         [] r.op \in CopsOps -> GetRegisteredNetwork
         [] r.op = "GetNetworkTime" -> GetNetworkTime
         [] r.op = "GetIPAddress" -> GetIPAddress(r.arg.cid)
         [] r.op = "SetPdnConfig" -> SetPdnConfig(r.arg)
         [] r.op = "GetPsmSettings" -> GetPsmSettings
         [] r.op = "SetPsmSettings" -> SetPsmSettings(r.arg)
         [] r.op = "GetEidrxSettings" -> GetEidrxSettings
         [] r.op = "SetEidrxSettings" -> SetEidrxSettings(r.arg)
         [] r.op = "RfOn" -> RfOn
         [] r.op = "RfOff" -> RfOff
         [] r.op = "ATCommandRaw" -> ATCommandRaw(r.arg.cmd)

\* The receive function of a command; one without a line to parse fails.
Receive(name, lines, o) ==
  LET line == Head(lines) IN
  IF name \in {"AT+CFUN=", "AT+COPS=", "AT+CPSMS=", "AT+CEDRXS=", "AT+CGDCONT="}
  THEN [pkt |-> "OK", out |-> o]
  ELSE IF lines = <<>>
  THEN [pkt |-> IF name \in {"AT+COPS?", "AT+CGPADDR="} THEN "FAILURE" ELSE "BAD_PARAM", out |-> o]
  ELSE CASE name = "AT+CGMR" -> RecvFuncGetFirmwareVersion(line, o)
         [] name = "AT+CGSN" -> RecvFuncGetImei(line, o)
         [] name = "AT+CGMM" -> RecvFuncGetModelId(line, o)
         [] name = "AT+CGMI" -> RecvFuncGetManufactureId(line, o)
         [] name = "AT+CIMI" -> RecvFuncGetImsi(line, o)
         [] name = "AT+CRSM" -> RecvFuncGetHplmn(line, o)
         [] name = "AT+CCID" -> RecvFuncGetIccid(line, o)
         [] name = "AT+CPIN?" -> RecvFuncGetSimLockStatus(line, o)
         [] name = "AT+COPS?" -> RecvFuncUpdateMccMnc(line, o)
         [] name = "AT+CCLK?" -> RecvFuncGetNetworkTime(line, o)
         [] name = "AT+CGPADDR=" -> RecvFuncIpAddress(line, o)
         [] name = "AT+CPSMS?" -> RecvFuncGetPsmSettings(line, o)
         [] name = "AT+CEDRXS?" -> RecvFuncGetEidrxSettings(lines, o)

\* What a call returns after its last exchange.  The outcome of the operator query
\* is ignored by GetServiceStatus.
Returns(r, pkt, o) ==
  IF r.op = "GetServiceStatus" THEN "SUCCESS"
  ELSE IF r.op = "GetRegisteredNetwork" /\ pkt = "OK" /\ o.rat = RatMax THEN "UNKNOWN"
  ELSE TranslatePktStatus(pkt)

-----------------------------------------------------------------------------
QueryInit ==
  /\ modem \in Modems
  /\ requests = 0
  /\ pc = [t \in Tasks |-> "idle"]
  /\ req = [t \in Tasks |-> NoRequest]
  /\ todo = [t \in Tasks |-> <<>>]
  /\ out = [t \in Tasks |-> NoRequest.arg]
  /\ told = [t \in Tasks |-> <<>>]
  /\ status = [t \in Tasks |-> "SUCCESS"]

\* A call that its checks refuse, or that gets no memory for the operator's data,
Refuse(t) ==
  /\ pc[t] = "idle" /\ requests < MaxRequests
  /\ \E r \in Requests[t] :
       /\ \/ Query(r).refusal # "no" /\ status' = [status EXCEPT ![t] = Query(r).refusal]
          \/ /\ r.op = "GetRegisteredNetwork" /\ ~r.null /\ "noMemory" \in Faults
             /\ status' = [status EXCEPT ![t] = "NO_MEMORY"]
       /\ req' = [req EXCEPT ![t] = r]
  /\ out' = [out EXCEPT ![t] = NoRequest.arg]
  /\ told' = [told EXCEPT ![t] = <<>>]
  /\ pc' = [pc EXCEPT ![t] = "returned"]
  /\ requests' = requests + 1
  /\ UNCHANGED <<modem, todo>>

\* and one that starts to send its commands.
Begin(t) ==
  /\ pc[t] = "idle" /\ requests < MaxRequests
  /\ \E r \in Requests[t] :
       /\ Query(r).refusal = "no"
       /\ req' = [req EXCEPT ![t] = r]
       /\ todo' = [todo EXCEPT ![t] = Query(r).commands]
       /\ out' = [out EXCEPT ![t] = Query(r).fresh]
  /\ told' = [told EXCEPT ![t] = <<>>]
  /\ pc' = [pc EXCEPT ![t] = "sending"]
  /\ requests' = requests + 1
  /\ UNCHANGED <<modem, status>>

\* Mutant: only the outcome of the last command counts.
ContinueAnyway(t, pkt, o) ==
  IF Len(todo[t]) > 1
  THEN todo' = [todo EXCEPT ![t] = Tail(@)] /\ UNCHANGED <<pc, status>>
  ELSE /\ todo' = [todo EXCEPT ![t] = <<>>]
       /\ pc' = [pc EXCEPT ![t] = "returned"]
       /\ status' = [status EXCEPT ![t] = Returns(req[t], pkt, o)]

\* The next command while they succeed, or the end of the call.
Continue(t, pkt, o) ==
  IF pkt = "OK" /\ Len(todo[t]) > 1
  THEN /\ todo' = [todo EXCEPT ![t] = Tail(@)]
       /\ UNCHANGED <<pc, status>>
  ELSE /\ todo' = [todo EXCEPT ![t] = <<>>]
       /\ pc' = [pc EXCEPT ![t] = "returned"]
       /\ status' = [status EXCEPT ![t] = Returns(req[t], pkt, o)]

Answered(t, r) ==
  /\ out' = [out EXCEPT ![t] = r.out]
  /\ Continue(t, r.pkt, r.out)

\* What was told before, and m for a command.
Remember(before, command, m) ==
  [c \in DOMAIN before \cup {command} |-> IF c \in DOMAIN before THEN before[c] ELSE m]

\* The modem carries out the command and answers, maybe without the line.
Exchange(t) ==
  /\ pc[t] = "sending"
  /\ LET cmd == Head(todo[t]) IN
     /\ modem' = Heard(modem, cmd)
     /\ \E lines \in Answers(modem, cmd[1]) \cup IF "mute" \in Faults THEN { <<>> } ELSE {} :
          Answered(t, IF req[t].op = "ATCommandRaw" THEN [pkt |-> "OK", out |-> out[t]]
                      ELSE Receive(cmd[1], lines, out[t]))
     /\ told' = [told EXCEPT ![t] = Remember(@, cmd[1], modem')]
  /\ UNCHANGED <<requests, req>>

\* The modem refuses the command, or does not answer.
FailedExchange(t) ==
  /\ pc[t] = "sending"
  /\ \/ "refused" \in Faults /\ Continue(t, "FAILURE", out[t])
     \/ "silent" \in Faults /\ Continue(t, "TIMED_OUT", out[t])
  /\ UNCHANGED <<modem, requests, req, out, told>>

QueryReturn(t) ==
  /\ pc[t] = "returned"
  /\ pc' = [pc EXCEPT ![t] = "idle"]
  /\ req' = [req EXCEPT ![t] = NoRequest]
  /\ UNCHANGED <<modem, requests, todo, out, told, status>>

AllAsked ==
  /\ requests = MaxRequests /\ \A t \in Tasks : pc[t] = "idle"
  /\ UNCHANGED queryVars

QueryNext ==
  \/ \E t \in Tasks : Refuse(t) \/ Begin(t) \/ Exchange(t) \/ FailedExchange(t) \/ QueryReturn(t)
  \/ AllAsked

QuerySpec == QueryInit /\ [][QueryNext]_queryVars

-----------------------------------------------------------------------------
(* Properties.                                                             *)

Succeeded(t, ops) == pc[t] = "returned" /\ status[t] = "SUCCESS" /\ req[t].op \in ops
Op(t) == req[t].op

\* A call of several commands succeeds only if every one of them was answered: a
\* caller that gets CELLULAR_SUCCESS has no field that was never asked for.
\* (Cellular_GetServiceStatus, which ignores its queries' outcome, excepted.)
NothingMissed ==
  \A t \in Tasks : pc[t] = "returned" /\ status[t] = "SUCCESS" /\ Op(t) # "GetServiceStatus" =>
    DOMAIN told[t] = {cmd[1] : cmd \in ToSet(Query(req[t]).commands)}

\* What a successful call returns is what the modem said, through all that the
\* parsers cut off, swap and convert: the names and numbers of the modem and of the
\* card (cut to their fields), the PLMN of the card, the time with its zone, the address,
\* the discontinuous reception of every access technology.  Left out is the year: +CCLK
\* has its last two digits, which the code stores as they are, and CellularTime_t says
\* "Year (like 2019)".
TruthTold ==
  \A t \in Tasks : LET o == out[t] m == told[t] IN
    /\ Succeeded(t, {"GetModemInfo"}) =>
         /\ o.version = Cut(m["AT+CGMR"].version, Sizes.version)
         /\ o.imei = m["AT+CGSN"].imei
         /\ o.model = Cut(m["AT+CGMM"].model, Sizes.model)
         /\ o.maker = Cut(m["AT+CGMI"].maker, Sizes.maker)
    /\ Succeeded(t, {"GetSimCardInfo"}) =>
         /\ o.imsi = m["AT+CIMI"].imsi
         /\ m["AT+CRSM"].crsm = "good" /\ o.plmn = m["AT+CRSM"].hplmn
         /\ o.iccid = m["AT+CCID"].iccid
    /\ Succeeded(t, {"GetNetworkTime"}) =>
         LET clock == m["AT+CCLK?"].clock IN
         \A f \in DOMAIN clock \ {"year"} : o[f] = clock[f]
    /\ Succeeded(t, {"GetIPAddress"}) => Unquoted(o.ip) = m["AT+CGPADDR="].ip
    /\ Succeeded(t, {"GetEidrxSettings"}) => o.list = m["AT+CEDRXS?"].edrx

\* Whatever another task does to the format of the operator's name between the two
\* commands, the PLMN a caller gets is the modem's or empty, never a name taken for
\* one; it is the modem's if the modem is registered and the format stayed numeric.
PlmnRight ==
  \A t \in Tasks : Succeeded(t, CopsOps) =>
    LET asked == "AT+COPS?" \in DOMAIN told[t]
        m == told[t]["AT+COPS?"]
    IN  /\ out[t].plmn # NoPlmn => asked /\ \E o \in m.oper : out[t].plmn = o.plmn
        /\ asked /\ m.oper # {} /\ m.format = 2 /\ out[t].plmn = NoPlmn =>
             Op(t) = "GetServiceStatus" /\ out[t].mode = 0

\* The multiples of the timers in seconds, by bits 8 7 6 from 0 0 0 on, as the
\* comments of CellularPsmSettings_t give them: the first table for periodicRauValue,
\* gprsReadyTimer and periodicTauValue, the second for activeTimeValue.
TauMultiples == <<10 * 60, 60 * 60, 10 * 60 * 60, 2, 30, 60>>
ActiveMultiples == <<2, 60, 6 * 60>>
Seconds(v, multiples) ==
  IF v \div 32 = 7 THEN -1
  ELSE IF v \div 32 < Len(multiples) THEN (v % 32) * multiples[(v \div 32) + 1] ELSE 0

\* The timer f the caller got is the modem's in seconds, or 0 if the modem left it out.
TimerRight(t, f, multiples) ==
  LET told_f == told[t]["AT+CPSMS?"].psm[f] IN
  out[t][f] = IF told_f = {} THEN 0 ELSE Seconds(CHOOSE v \in told_f : TRUE, multiples)

\* Power saving read back: every timer the modem gave is in its own field, in seconds
\* by its own table, or 0 if the table has no such unit; one that was left out is 0
\* and moves no other field.  The unit of gprsReadyTimer is ReadyTimerAsDocumented's.
PsmRight ==
  \A t \in Tasks : Succeeded(t, {"GetPsmSettings"}) =>
    LET psm == told[t]["AT+CPSMS?"].psm IN
    /\ out[t].mode = psm.mode
    /\ TimerRight(t, "rau", TauMultiples) /\ TimerRight(t, "tau", TauMultiples)
    /\ TimerRight(t, "active", ActiveMultiples)
    /\ psm.ready = {} => out[t].ready = 0

\* gprsReadyTimer is in the units that its comment in CellularPsmSettings_t gives.
ReadyTimerAsDocumented ==
  \A t \in Tasks : Succeeded(t, {"GetPsmSettings"}) => TimerRight(t, "ready", TauMultiples)

\* A setting that was accepted is the one the caller gave, each value in the
\* parameter it belongs to; a timer of 0 is left as the modem has it.
SettersHeard ==
  \A t \in Tasks : LET a == req[t].arg m == told[t] IN
    /\ Succeeded(t, {"SetPsmSettings"}) =>
         LET psm == m["AT+CPSMS="].psm IN
         /\ psm.mode = a.mode
         /\ \A f \in ToSet(PsmFields) : a[f] # 0 => psm[f] = {a[f] % 256}
    /\ Succeeded(t, {"SetEidrxSettings"}) =>
         [rat |-> a.rat, value |-> a.value] \in ToSet(m["AT+CEDRXS="].edrx)
    /\ Succeeded(t, {"SetPdnConfig"}) =>
         [cid |-> a.cid, type |-> PdnTypes[a.type], apn |-> a.apn] \in m["AT+CGDCONT="].pdn

\* CELLULAR_SIM_CARD_PIN and the other states of CellularSimCardLockState_t: a card
\* that waits for a PIN or a PUK is reported as such.
LockIsTold ==
  \A t \in Tasks : Succeeded(t, {"GetSimCardLockStatus"}) =>
    out[t].lock = told[t]["AT+CPIN?"].lock
=============================================================================
