---------------------------- MODULE MCPktRequest ----------------------------
(* Instances of PktRequest for TLC: the requests the tasks make.            *)
EXTENDS PktRequest, TLC

Req(api, type, prefix, cb) ==
  [api |-> api, at |-> TRUE, type |-> type, prefix |-> prefix, cb |-> cb, data |-> TRUE]

\* A prefix of responses; that of the URCs, "+URC:", is another one.
P == "+CMD:"

\* One request of every kind of answer and every request function.
PlainCommands == {Req("cmd", "NO_RESULT", NoPrefix, FALSE),
                  Req("cmd", "WITH_PREFIX", P, TRUE),
                  Req("cmd", "MULTI_WO_PREFIX", NoPrefix, TRUE),
                  Req("cmd", "WITH_PREFIX_NO_RESULT_CODE", P, TRUE),
                  Req("cmd", "WITH_PREFIX", NoPrefix, TRUE),   \* rejected
                  [Req("cmd", "NO_RESULT", NoPrefix, FALSE) EXCEPT !.at = FALSE]}
DataCommands == {Req("cmd", "WO_PREFIX", NoPrefix, TRUE),
                 Req("successToken", "NO_RESULT", NoPrefix, TRUE),
                 Req("dataRecv", "MULTI_DATA_WO_PREFIX", P, TRUE),
                 Req("dataSend", "NO_RESULT", NoPrefix, FALSE),
                 [Req("dataSend", "NO_RESULT", NoPrefix, FALSE) EXCEPT !.data = FALSE],
                 Req("dataSendToken", "NO_RESULT", NoPrefix, FALSE)}
\* What the modem may still be answering when the task gives up.
EarlyCommands == {Req("cmd", "WITH_PREFIX", P, TRUE),
                  Req("cmd", "WITH_PREFIX_NO_RESULT_CODE", P, FALSE),
                  Req("dataSend", "NO_RESULT", NoPrefix, TRUE),
                  Req("successToken", "MULTI_WO_PREFIX", NoPrefix, TRUE)}

\* Enough of them for every step of a request function.
LiveCommands == {Req("cmd", "WITH_PREFIX", P, TRUE),
                 Req("dataSend", "NO_RESULT", NoPrefix, FALSE)}

AllCommands == PlainCommands \cup DataCommands

TaskSymmetry == Permutations(Tasks)
=============================================================================
