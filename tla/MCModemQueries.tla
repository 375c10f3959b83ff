--------------------------- MODULE MCModemQueries ---------------------------
(* Instances of ModemQueries for TLC: a modem that is ordinary in all but one *)
(* respect, one task that makes every call, one that disturbs it.             *)
EXTENDS ModemQueries

QuerySizes == [version |-> 3, imei |-> 4, model |-> 5, maker |-> 5, imsi |-> 4, iccid |-> 4,
               name |-> 4, ip |-> 6]

Op23(mnc) == [name |-> <<"A", "p", "p", "l", "e">>, rat |-> 7,
              plmn |-> [mcc |-> <<"2", "6", "3">>, mnc |-> mnc]]
Psm(rau, ready, tau, active) ==
  [mode |-> 1, rau |-> rau, ready |-> ready, tau |-> tau, active |-> active]
Clock(y, zone) == [zone |-> zone, year |-> y, month |-> 9, day |-> 30, hour |-> 1, minute |-> 0,
                   second |-> 59]

Ordinary ==
  [version |-> <<"v", "1", " ", "b">>, imei |-> <<"3", "5", "0", "7">>, model |-> <<"M", " ", "9">>,
   maker |-> <<"N", "o", "b">>, imsi |-> <<"2", "6", "3", "1">>, iccid |-> <<"8", "9", "4", "4">>,
   crsm |-> "good", hplmn |-> [mcc |-> <<"2", "6", "3">>, mnc |-> <<"0", "1">>], lock |-> 1,
   oper |-> {Op23(<<"0", "2">>)}, mode |-> 0, format |-> 2, clock |-> Clock(22, 8),
   ip |-> <<"1", ".", "2">>, psm |-> Psm({}, {}, {}, {33}), edrx |-> <<>>, pdn |-> {}, rf |-> <<"1">>]

\* Every unit of both tables, with timers left out in every place but the last, and one
\* with it left out.
Psms == { Psm({2}, {3}, {4 + 32}, {5}), Psm({1 + 96}, {2 + 32}, {3 + 64}, {4 + 64}),
          Psm({}, {}, {7 + 128}, {9}), Psm({6 + 160}, {}, {}, {225}), Psm({225}, {200}, {193}, {0}),
          Psm({1}, {}, {3}, {}) }

QueryModems ==
  {Ordinary}
  \cup { [Ordinary EXCEPT !.lock = 2], [Ordinary EXCEPT !.imsi = <<"2", "6", "3", "1", "5">>],
         [Ordinary EXCEPT !.iccid = <<"8", "9", "4", "4", "1">>],
         [Ordinary EXCEPT !.hplmn.mnc = <<"0", "1", "5">>],
         [Ordinary EXCEPT !.oper = {}], [Ordinary EXCEPT !.format = 0, !.mode = 1],
         [Ordinary EXCEPT !.oper = {Op23(<<"0", "2", "8">>)}],
         [Ordinary EXCEPT !.clock = Clock(5, -20)], [Ordinary EXCEPT !.ip = <<>>] }
  \cup { [Ordinary EXCEPT !.crsm = c] : c \in {"memory", "empty", "error"} }
  \cup { [Ordinary EXCEPT !.psm = p] : p \in Psms }
  \cup { [Ordinary EXCEPT !.edrx = e] : e \in {
           <<[rat |-> 4, value |-> 10]>>, <<[rat |-> 4, value |-> 3], [rat |-> 5, value |-> 15]>> } }

Request(op, arg) == [op |-> op, null |-> FALSE, arg |-> arg]
Plain(op) == Request(op, [x |-> 0])
Null(op) == [op |-> op, null |-> TRUE, arg |-> [x |-> 0]]
Pdn(cid, type) == Request("SetPdnConfig", [cid |-> cid, type |-> type, apn |-> <<"apn">>])

Queries == { Plain(op) : op \in {"GetModemInfo", "GetSimCardInfo", "GetRegisteredNetwork",
             "GetServiceStatus", "GetNetworkTime", "GetPsmSettings", "GetEidrxSettings",
             "GetSimCardLockStatus", "RfOn", "RfOff"} }
           \cup { Request("GetIPAddress", [cid |-> c]) : c \in {0, 1} }
           \cup { Pdn(1, 1), Pdn(2, 3), Pdn(1, 0), Pdn(9, 2), Null("GetNetworkTime") }
           \cup { Request("SetPsmSettings", [mode |-> 1, rau |-> 1, ready |-> 0, tau |-> 67, active |-> 34]),
                  Request("SetEidrxSettings", [mode |-> 1, rat |-> 4, value |-> 5]) }

Disturbances == { Request("ATCommandRaw", [cmd |-> <<"AT+COPS=", "3", ",", "0">>]),
                  Request("SetPsmSettings", [mode |-> 0, rau |-> 0, ready |-> 300, tau |-> 0, active |-> 7]),
                  Request("SetEidrxSettings", [mode |-> 1, rat |-> 5, value |-> 9]),
                  Plain("GetRegisteredNetwork") }

QueryRequests == [t \in Tasks |-> IF t = "asks" THEN Queries ELSE Disturbances]

LockModems == { [Ordinary EXCEPT !.lock = i] : i \in DOMAIN LockNames }
LockRequests == [t \in Tasks |-> {Plain("GetSimCardLockStatus")}]
PsmRequests == [t \in Tasks |-> {Plain("GetPsmSettings")}]
=============================================================================
