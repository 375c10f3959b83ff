----------------------------- MODULE SignalBars -----------------------------
(***************************************************************************)
(* The conversions a module port makes its signal information with         *)
(* (cellular_common.c): the indices of AT+CSQ to dBm and to a bit error    *)
(* rate, and the bars of the current radio technology.  A port keeps the   *)
(* information it has and converts what the modem measures next.           *)
(***************************************************************************)
EXTENDS Integers

CONSTANTS
  CsqValues, BerValues,  \* the indices a modem may answer, the illegal ones included
  PowerValues            \* RSRP, in dBm

ASSUME SignalAssumption == CsqValues \cup BerValues \cup PowerValues \subseteq Int

Rats == {"GSM", "WCDMA", "EDGE", "LTE", "CATM1", "NBIOT"}
InvalidSignal == -32768
InvalidBars == 255

VARIABLES
  rat,   \* libAtData.rat
  csq,   \* the indices and the power measured last
  info   \* CellularSignalInfo_t

signalVars == <<rat, csq, info>>

CsqUnknown == 99

\* Mutant: one index too many is let through.
LegalRssiLast == 0 .. 32

LegalRssi == 0 .. 31

\* _Cellular_ConvertCsqSignalRssi: old is what the caller's variable holds, and keeps
\* with an index that is refused.
ConvertCsqSignalRssi(c, old) ==
  IF c = CsqUnknown THEN InvalidSignal
  ELSE IF c \in LegalRssi THEN -113 + c * 2 ELSE old

BerTable == <<14, 28, 57, 113, 226, 453, 905, 1810>>   \* in 0.01%

\* _Cellular_ConvertCsqSignalBer
ConvertCsqSignalBer(c, old) ==
  IF c = CsqUnknown THEN InvalidSignal
  ELSE IF c \in 0 .. 7 THEN BerTable[c + 1] ELSE old

\* The upper thresholds of one to five bars.
Thresholds(r) ==
  CASE r \in {"GSM", "EDGE"} -> <<-104, -98, -89, -80, 0>>
    [] r \in {"CATM1", "LTE", "NBIOT"} -> <<-115, -105, -95, -85, 0>>
    [] OTHER -> <<>>

\* _getSignalBars: the first threshold that is not exceeded.
GetSignalBars(value, r) ==
  LET under == {i \in DOMAIN Thresholds(r) : value <= Thresholds(r)[i]} IN
  IF under = {} THEN InvalidBars ELSE CHOOSE i \in under : \A j \in under : i <= j

\* Mutant: the bars are always made from the RSSI.
ComputeFromRssi(r, rssi, rsrp) == GetSignalBars(rssi, r)

\* _Cellular_ComputeSignalBars: from the RSSI or from the RSRP, by the technology.
ComputeSignalBars(r, rssi, rsrp) ==
  GetSignalBars(IF r \in {"GSM", "EDGE"} THEN rssi ELSE rsrp, r)

Info(r, rssi, rsrp, ber) ==
  [rssi |-> rssi, rsrp |-> rsrp, ber |-> ber, bars |-> ComputeSignalBars(r, rssi, rsrp)]

SignalInit ==
  /\ rat \in Rats
  /\ csq = [rssi |-> CsqUnknown, ber |-> CsqUnknown]
  /\ info = Info(rat, InvalidSignal, InvalidSignal, InvalidSignal)

\* The answer of AT+CSQ.
MeasureCsq ==
  /\ \E c \in CsqValues : csq' = [csq EXCEPT !.rssi = c]
  /\ info' = Info(rat, ConvertCsqSignalRssi(csq'.rssi, info.rssi), info.rsrp, info.ber)
  /\ UNCHANGED rat

MeasureBer ==
  /\ \E c \in BerValues : csq' = [csq EXCEPT !.ber = c]
  /\ info' = Info(rat, info.rssi, info.rsrp, ConvertCsqSignalBer(csq'.ber, info.ber))
  /\ UNCHANGED rat

\* The answer of a command of the port's own.
MeasurePower ==
  /\ \E p \in PowerValues : info' = Info(rat, info.rssi, p, info.ber)
  /\ UNCHANGED <<rat, csq>>

SignalNext == MeasureCsq \/ MeasureBer \/ MeasurePower

SignalSpec == SignalInit /\ [][SignalNext]_signalVars

-----------------------------------------------------------------------------
(* Properties.                                                             *)

\* Every value a caller may see is one the types document: an RSSI of -113 to -51 dBm
\* or none, a bit error rate of the table or none, and one to five bars of a
\* technology that has a scale.
SignalTypeOK ==
  /\ rat \in Rats
  /\ info.rssi \in -113 .. -51 \cup {InvalidSignal}
  /\ info.ber \in 14 .. 1810 \cup {InvalidSignal}
  /\ info.bars \in IF Thresholds(rat) = <<>> THEN {InvalidBars} ELSE 1 .. 5

\* A stronger signal never shows fewer bars, of two measurements one after the other,
\* and a weaker one never more: the thresholds are in order, and the quantity that
\* counts is the one of the technology.
BarsFollowSignal ==
  [][LET Strength(i) == IF rat \in {"GSM", "EDGE"} THEN i.rssi ELSE i.rsrp
     IN  rat' = rat => /\ Strength(info') >= Strength(info) => info'.bars >= info.bars
                       /\ Strength(info') <= Strength(info) => info'.bars <= info.bars]_signalVars
=============================================================================
