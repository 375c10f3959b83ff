---------------------------- MODULE ModemAnswers ----------------------------
(***************************************************************************)
(* The functions of cellular_3gpp_api.c that turn the line of an answer    *)
(* into what the caller asked for, and the caller's values into a command. *)
(*                                                                         *)
(* A parser gets the caller's structure out as it is so far, and returns   *)
(* the packet status pkt and the structure.  A field that holds a string   *)
(* is a text; copies bounded by the size of the field are cut there.       *)
(***************************************************************************)
EXTENDS AtCore, FiniteSets

CONSTANT Sizes   \* CELLULAR_FW_VERSION_MAX_SIZE and the like: the room of each field

ASSUME SizeAssumption ==
  Sizes \in [{"version", "imei", "model", "maker", "imsi", "iccid", "name", "ip"} -> Nat \ {0}]

Cut(s, size) == SubSeq(s, 1, Min({size, Len(s)}))

\* The end of a parser: the status of the text functions, and the structure.
Parsed(st, out) == [pkt |-> TranslateAtCoreStatus(st), out |-> out]

\* A number stored in a field when it is one and within the field's bounds.
StoreNumber(s, base, most) ==
  LET n == ATStrtoi(s, base) IN
  [st |-> IF ~n.ok THEN "ERROR" ELSE IF n.value \in 0 .. most THEN "SUCCESS" ELSE "ERROR",
   n  |-> n.value]

-----------------------------------------------------------------------------
(* Identities of the modem and of the SIM card.                            *)

\* A name, as it is cut to its field.
RecvName(line, field, out) ==
  LET r == Then(ATRemoveLeadingWhiteSpaces(line), ATRemoveTrailingWhiteSpaces) IN
  Parsed(r.st, IF r.st = "SUCCESS" THEN [out EXCEPT ![field] = Cut(r.s, Sizes[field])] ELSE out)

RecvFuncGetFirmwareVersion(line, out) == RecvName(line, "version", out)
RecvFuncGetModelId(line, out) == RecvName(line, "model", out)
RecvFuncGetManufactureId(line, out) == RecvName(line, "maker", out)

RecvFuncGetImei(line, out) ==
  LET r == Then(ATRemoveLeadingWhiteSpaces(line), ATRemoveAllWhiteSpaces) IN
  Parsed(r.st, IF r.st = "SUCCESS" THEN [out EXCEPT !.imei = Cut(r.s, Sizes.imei)] ELSE out)

RecvFuncGetImsi(line, out) ==
  LET r == ATRemoveAllWhiteSpaces(line) IN
  IF r.st # "SUCCESS" THEN Parsed(r.st, out)
  ELSE IF Len(r.s) <= Sizes.imsi THEN Parsed("SUCCESS", [out EXCEPT !.imsi = r.s])
  ELSE Parsed("ERROR", out)

RecvFuncGetIccid(line, out) ==
  LET r == Then(ATRemoveAllWhiteSpaces(line), ATRemovePrefix) IN
  IF r.st # "SUCCESS" THEN Parsed(r.st, out)
  ELSE IF Len(r.s) <= Sizes.iccid THEN Parsed("SUCCESS", [out EXCEPT !.iccid = r.s])
  ELSE Parsed("BAD_PARAMETER", out)

\* The spaces go first, so that none of the names with a space is ever met.
LockNames ==
  << <<"READY">>, <<"SIM", " ", "PIN">>, <<"SIM", " ", "PUK">>,
     <<"SIM", " ", "PIN", "2">>, <<"SIM", " ", "PUK", "2">>,
     <<"PH", "-", "NET", " ", "PIN">>, <<"PH", "-", "NET", " ", "PUK">>,
     <<"PH", "-", "NETSUB", " ", "PIN">>, <<"PH", "-", "NETSUB", " ", "PUK">>,
     <<"PH", "-", "SP", " ", "PIN">>, <<"PH", "-", "SP", " ", "PUK">>,
     <<"PH", "-", "CORP", " ", "PIN">>, <<"PH", "-", "CORP", " ", "PUK">> >>

\* The lock states READY to CORP_PUK, 0 for CELLULAR_SIM_CARD_LOCK_UNKNOWN.
GetSimLockState(tok) == Max({0} \cup {i \in DOMAIN LockNames : LockNames[i] = tok})

RecvFuncGetSimLockStatus(line, out) ==
  LET r == Then(ATRemoveAllWhiteSpaces(line), ATRemovePrefix)
      tok == ATGetNextTok(r.s)
  IN  IF r.st # "SUCCESS" THEN Parsed(r.st, out)
      ELSE IF tok.st # "SUCCESS" THEN Parsed(tok.st, out)
      ELSE Parsed("SUCCESS", [out EXCEPT !.lock = GetSimLockState(tok.tok)])

CheckCrsmReadStatus(tok) == tok \in { <<"1", "4", "4">>, <<"1", "4", "5">>, <<"1", "4", "6">> }
CheckCrsmMemoryStatus(tok) == tok # <<"6", "4">>

HplmnRatLength == 9
\* Mutant: the digits as they stand on the card.
ParseHplmnUnswapped(tok) ==
  IF Len(tok) < HplmnRatLength \/ SubSeq(tok, 1, 6) = <<"F", "F", "F", "F", "F", "F">>
  THEN <<>>
  ELSE << [mcc |-> SubSeq(tok, 1, 3), mnc |-> SubSeq(tok, 4, 5)] >>

\* The digits of a PLMN are stored in swapped pairs, the third of the MNC, or F,
\* between those of the MCC.
ParseHplmn(tok) ==
  LET mnc == <<tok[6], tok[5]>> IN
  IF Len(tok) < HplmnRatLength \/ SubSeq(tok, 1, 6) = <<"F", "F", "F", "F", "F", "F">>
  THEN <<>>
  ELSE << [mcc |-> <<tok[2], tok[1], tok[4]>>,
           mnc |-> IF tok[3] # "F" THEN Append(mnc, tok[3]) ELSE mnc] >>

RecvFuncGetHplmn(line, out) ==
  LET r == Then(Then(ATRemoveAllWhiteSpaces(line), ATRemovePrefix), ATRemoveAllDoubleQuote)
      toks == Tokens(r.s, 3)
  IN  IF r.st # "SUCCESS" THEN Parsed(r.st, out)
      ELSE IF Len(toks) >= 1 /\ ~CheckCrsmReadStatus(toks[1]) THEN Parsed("ERROR", out)
      ELSE IF Len(toks) >= 2 /\ ~CheckCrsmMemoryStatus(toks[2]) THEN Parsed("ERROR", out)
      ELSE IF Len(toks) < 3 THEN Parsed("BAD_PARAMETER", out)
      ELSE IF ParseHplmn(toks[3]) = <<>> THEN Parsed("ERROR", out)
      ELSE Parsed("SUCCESS", [out EXCEPT !.plmn = ParseHplmn(toks[3])[1]])

-----------------------------------------------------------------------------
(* The operator.                                                           *)

RegistrationModeMax == 5
OperatorNameFormatMax == 10
RatMax == 10
MccMax == 3
MncMax == 3

\* A token that is no number leaves the field alone.
ParseCopsNumber(tok, field, max, info) ==
  LET n == ATStrtoi(tok, 10) IN
  IF ~n.ok THEN [ok |-> TRUE, info |-> info]
  ELSE IF n.value \in 0 .. max - 1 THEN [ok |-> TRUE, info |-> [info EXCEPT ![field] = n.value]]
  ELSE [ok |-> FALSE, info |-> info]

ParseCopsRegModeToken(tok, info) == ParseCopsNumber(tok, "mode", RegistrationModeMax, info)
ParseCopsNetworkNameFormatToken(tok, info) ==
  ParseCopsNumber(tok, "format", OperatorNameFormatMax, info)
ParseCopsRatToken(tok, info) == ParseCopsNumber(tok, "rat", RatMax, info)

NumericName(tok, info) ==
  IF Len(tok) \in {MccMax + MncMax, MccMax + MncMax - 1}
  THEN [ok |-> TRUE, info |-> [info EXCEPT !.plmn = [mcc |-> Cut(tok, MccMax),
                                                     mnc |-> From(tok, MccMax + 1)]]]
  ELSE [ok |-> FALSE, info |-> info]

\* Mutant: the format of the name is not looked at.
ParseAnyNameToken(tok, info) == NumericName(tok, info)

ParseCopsNetworkNameToken(tok, info) ==
  CASE info.format \in {0, 1} -> [ok |-> TRUE, info |-> [info EXCEPT !.name = Cut(tok, Sizes.name)]]
    [] info.format = 2 -> NumericName(tok, info)
    [] OTHER -> [ok |-> FALSE, info |-> info]

\* A token of the answer, and p, what its parser makes of it.
CopsToken(f, p) ==
  LET tok == ATGetNextTok(f.s) IN
  IF f.st # "SUCCESS" THEN f
  ELSE IF tok.st # "SUCCESS" THEN [f EXCEPT !.st = tok.st]
  ELSE [st |-> IF p.ok THEN "SUCCESS" ELSE "ERROR", s |-> tok.s, info |-> p.info]

\* Four tokens, up to one that is wrong or missing.
ParseCops(s, info) ==
  LET tok(f) == ATGetNextTok(f.s).tok
      mode(f) == CopsToken(f, ParseCopsRegModeToken(tok(f), f.info))
      format(f) == CopsToken(f, ParseCopsNetworkNameFormatToken(tok(f), f.info))
      name(f) == CopsToken(f, ParseCopsNetworkNameToken(tok(f), f.info))
      rat(f) == CopsToken(f, ParseCopsRatToken(tok(f), f.info))
  IN  rat(name(format(mode([st |-> "SUCCESS", s |-> s, info |-> info]))))

\* Only CELLULAR_AT_ERROR is reported: an answer that ends early is good.
RecvFuncUpdateMccMnc(line, out) ==
  LET r == Then(Then(ATRemovePrefix(line), ATRemoveAllDoubleQuote), ATRemoveAllWhiteSpaces)
      p == ParseCops(r.s, out)
  IN  IF r.st # "SUCCESS" THEN [pkt |-> IF r.st = "ERROR" THEN "FAILURE" ELSE "OK", out |-> out]
      ELSE [pkt |-> IF p.st = "ERROR" THEN "FAILURE" ELSE "OK", out |-> p.info]

-----------------------------------------------------------------------------
(* The network time.                                                       *)

TimeFields == <<"zone", "year", "month", "day", "hour", "minute", "second">>
NoTime == [f \in ToSet(TimeFields) |-> 0]

\* Where the sign of the time zone is, a '+' before a '-'.
ZoneSign(s) == IF FirstOf(s, "+") <= Len(s) THEN "+" ELSE "-"

\* A field after the next delimiter; only the year may exceed a byte.
ParseTimeField(f, field, delimiter) ==
  LET tok == ATGetSpecificNextTok(f.s, delimiter)
      n == StoreNumber(tok.tok, 10, IF field = "year" THEN 65535 ELSE 255)
  IN  IF f.st # "SUCCESS" THEN f
      ELSE IF tok.st # "SUCCESS" THEN [f EXCEPT !.st = tok.st]
      ELSE IF n.st # "SUCCESS" THEN [f EXCEPT !.st = n.st, !.s = tok.s]
      ELSE [f EXCEPT !.s = tok.s, !.time[field] = n.n]

\* _parseYearMonthDayInCCLKResponse and _parseTimeInCCLKResponse: fields one after the
\* other, each up to its delimiter.
ParseYearMonthDay(f) ==
  ParseTimeField(ParseTimeField(ParseTimeField(f, "year", "/"), "month", "/"), "day", ",")
ParseTime(f, sign) ==
  ParseTimeField(ParseTimeField(ParseTimeField(f, "hour", ":"), "minute", ":"), "second", sign)

\* _parseTimeZoneInCCLKResponse
ParseZone(s) == ATStrtoi(From(s, FirstOf(s, ZoneSign(s))), 10)

\* The year, the month and the day, then the hour, the minute and the second: the
\* two parts fail alike, but a year or an hour that is not there is no failure.
ClockAfter(s, date) ==
  LET clock == ParseTime(date, ZoneSign(s))
      missing == Valid(s) /\ ~Valid(date.s) /\ date.st = "SUCCESS"
  IN  [st |-> IF missing THEN "SUCCESS" ELSE clock.st, time |-> clock.time]

ParseTimeZoneInfo(line) ==
  LET r == ATRemoveOutermostDoubleQuote(line)
      zone == ParseZone(r.s)
      start == [st |-> "SUCCESS", s |-> r.s, time |-> [NoTime EXCEPT !.zone = zone.value]]
  IN  IF r.st # "SUCCESS" \/ ~zone.ok THEN [st |-> "ERROR", time |-> NoTime]
      ELSE ClockAfter(r.s, ParseYearMonthDay(start))

RecvFuncGetNetworkTime(line, out) ==
  LET r == Then(ATRemovePrefix(line), ATRemoveAllWhiteSpaces)
      p == ParseTimeZoneInfo(r.s)
  IN  IF r.st = "SUCCESS" THEN Parsed(p.st, p.time) ELSE Parsed(r.st, out)

-----------------------------------------------------------------------------
(* Addresses, power saving, extended discontinuous reception.              *)

\* What is after the first token, as it stands.
RecvFuncIpAddress(line, out) ==
  LET r == ATRemovePrefix(line)
      tok == ATGetNextTok(r.s)
  IN  IF r.st # "SUCCESS" THEN Parsed(r.st, out)
      ELSE IF tok.st # "SUCCESS" THEN Parsed(tok.st, out)
      ELSE Parsed("SUCCESS", [out EXCEPT !.ip = Cut(tok.s, Sizes.ip)])

\* A timer's value is in its five low bits, its unit above them: the number of
\* seconds, -1 for a timer that is off, or no value.
TimerValue(n, units) ==
  LET unit == (n \div 32) % 8 value == n % 32 IN
  IF unit = 7 THEN {-1} ELSE IF unit < Len(units) THEN {value * units[unit + 1]} ELSE {}

T3412Units == <<600, 3600, 36000, 2, 30, 60>>   \* of the units 0, 1 and so on
T3324Units == <<2, 60, 360>>

ParseTimer(tok, units, field, out) ==
  LET n == ATStrtoi(tok, 2)
      v == TimerValue(n.value, units)
  IN  IF ~n.ok \/ n.value < 0 \/ v = {} THEN [st |-> "ERROR", out |-> out]
      ELSE [st |-> "SUCCESS", out |-> [out EXCEPT ![field] = CHOOSE x \in v : TRUE]]
ParseT3412TimerValue(tok, field, out) == ParseTimer(tok, T3412Units, field, out)
ParseT3324TimerValue(tok, field, out) == ParseTimer(tok, T3324Units, field, out)

ParseCpsmsMode(tok, out) ==
  LET n == StoreNumber(tok, 2, 255) IN
  [st |-> n.st, out |-> IF n.st = "SUCCESS" THEN [out EXCEPT !.mode = n.n] ELSE out]

\* Mutant: the ready timer and the TAU change places.
PsmTokenFieldsSwapped == <<"mode", "rau", "tau", "ready", "active">>

PsmTokenFields == <<"mode", "rau", "ready", "tau", "active">>

ParseGetPsmToken(tok, i, out) ==
  IF i = 1 THEN ParseCpsmsMode(tok, out)
  ELSE IF i \in {2, 4} THEN ParseT3412TimerValue(tok, PsmTokenFields[i], out)
  ELSE IF i \in {3, 5} THEN ParseT3324TimerValue(tok, PsmTokenFields[i], out)
  ELSE [st |-> "ERROR", out |-> out]

\* The tokens a parser with a loop meets: as many as there are.
AllTokens(s) == Tokens(s, Len(s))

\* A token that cannot be parsed leaves its field alone; the last one decides.
ParsePsmTokens(toks, out) ==
  LET p[i \in 0 .. Len(toks)] == IF i = 0 THEN [st |-> "BAD_PARAMETER", out |-> out]
                                 ELSE ParseGetPsmToken(toks[i], i, p[i - 1].out)
  IN  Parsed(p[Len(toks)].st, p[Len(toks)].out)

RecvFuncGetPsmSettings(line, out) ==
  LET r == Then(ATRemovePrefix(line), ATRemoveAllDoubleQuote) IN
  IF r.st # "SUCCESS" THEN Parsed(r.st, out) ELSE ParsePsmTokens(AllTokens(r.s), out)

NoEdrx == [rat |-> 0, value |-> 0]

\* parseEidrxToken: what is no number or no position is left alone.
ParseEidrxToken(tok, i, entry) ==
  LET field == IF i = 1 THEN "rat" ELSE "value"
      n == StoreNumber(tok, IF i = 1 THEN 10 ELSE 2, 255)
  IN  IF i \in {1, 2} /\ n.st = "SUCCESS" THEN [entry EXCEPT ![field] = n.n] ELSE entry

ParseEidrxTokens(toks) ==
  LET e[i \in 0 .. Len(toks)] == IF i = 0 THEN NoEdrx ELSE ParseEidrxToken(toks[i], i, e[i - 1])
  IN  [st |-> IF toks = <<>> THEN "BAD_PARAMETER" ELSE "SUCCESS", entry |-> e[Len(toks)]]

ParseEidrxLine(line) ==
  LET r == Then(ATRemovePrefix(line), ATRemoveAllDoubleQuote) IN
  IF r.st # "SUCCESS" THEN [st |-> r.st, entry |-> NoEdrx] ELSE ParseEidrxTokens(AllTokens(r.s))

EmptyEdrx == { <<"+CEDRXS", ":", " ", "0">>, <<"+CEDRXS", ":">> }

\* A line for each access technology, up to one that cannot be parsed.
RecvFuncGetEidrxSettings(lines, out) ==
  LET add(f, p) == IF p.st = "SUCCESS" THEN [f EXCEPT !.out.list = Append(@, p.entry)]
                   ELSE [f EXCEPT !.pkt = TranslateAtCoreStatus(p.st)]
      step(f, line) == IF f.pkt # "OK" \/ line \in EmptyEdrx THEN f
                       ELSE add(f, ParseEidrxLine(line))
      read[i \in 0 .. Len(lines)] == IF i = 0 THEN [pkt |-> "OK", out |-> out]
                                     ELSE step(read[i - 1], lines[i])
  IN  read[Len(lines)]

-----------------------------------------------------------------------------
(* The commands that carry values.                                         *)

DecDigits == [n \in 0 .. 99 |-> IF n < 10 THEN <<Decimals[n + 1]>>
                                ELSE <<Decimals[(n \div 10) + 1], Decimals[(n % 10) + 1]>>]
\* PRINTF_BINARY_PATTERN_INT4 and INT8
Weights == <<1, 2, 4, 8, 16, 32, 64, 128>>
Bits(n, width) ==
  [i \in 1 .. width |-> Decimals[((n \div Weights[width + 1 - i]) % 2) + 1]]
Quoted(s) == <<Quote>> \o s \o <<Quote>>
\* One parameter and then the others.
Comma(s, t) == s \o <<",">> \o t

\* appendBinaryPattern: the low byte of a value, and nothing for 0.
BinaryPattern(n) == IF n # 0 THEN Quoted(Bits(n, 8)) ELSE <<>>

\* Mutant: a value of 0 leaves no room for the next one.
PsmCommandShort(psm) ==
  LET rest == Comma(BinaryPattern(psm.ready),
                    Comma(BinaryPattern(psm.tau), BinaryPattern(psm.active)))
  IN  <<"AT+CPSMS=">> \o Comma(DecDigits[psm.mode],
                               IF psm.rau = 0 THEN rest ELSE Comma(BinaryPattern(psm.rau), rest))

PsmCommand(psm) ==
  <<"AT+CPSMS=">> \o Comma(DecDigits[psm.mode],
                           Comma(BinaryPattern(psm.rau),
                                 Comma(BinaryPattern(psm.ready),
                                       Comma(BinaryPattern(psm.tau), BinaryPattern(psm.active)))))

EidrxCommand(e) ==
  <<"AT+CEDRXS=">> \o Comma(DecDigits[e.mode], Comma(DecDigits[e.rat], Quoted(Bits(e.value, 4))))

PdnTypes == << <<"IP">>, <<"IPV6">>, <<"IPV4V6">> >>
PdnCommand(cid, type, apn) ==
  <<"AT+CGDCONT=">> \o Comma(DecDigits[cid], Comma(Quoted(PdnTypes[type]), Quoted(apn)))
=============================================================================
