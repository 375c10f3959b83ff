--------------------------- MODULE MCCommonState ----------------------------
(* Instances of SocketTable, UrcDispatch and SignalBars for TLC.  They share no *)
(* state: each is explored while the others stand still.                       *)
EXTENDS SocketTable, UrcDispatch, SignalBars, TLC

VARIABLE part   \* the one that is explored

SomeLetters == <<"+", ":", "A", "B">>
Names == UNION {[1 .. n -> {"A", "B"}] : n \in 1 .. 2}
SmallTable == << [name |-> <<"A">>, handled |-> TRUE], [name |-> <<"A", "B">>, handled |-> TRUE] >>

\* Every table of up to three entries, in order or not; <<"B">> has no handler.
AllTables ==
  { [i \in DOMAIN names |-> [name |-> names[i], handled |-> names[i] # <<"B">>]] :
      names \in UNION {[1 .. n -> Names] : n \in 0 .. 3} }

\* With a prefix and something after it or not, without one, and without a name.
UrcLines ==
  Names \cup { <<"+">> \o n \o rest : n \in Names \cup {<<>>, <<"A", "B", "A">>},
                                      rest \in {<<>>, <<":">>, <<":", "A">>, <<":", ":", "A", ":">>} }

\* Indices at both ends and about the thresholds, and illegal ones; RSRPs likewise.
CsqIndices == {-1, 0, 1, 4, 5, 7, 8, 12, 13, 16, 17, 30, 31, 32, 99}
BerIndices == {-1, 0, 7, 8, 99}
Powers == {-140, -115, -114, -105, -104, -95, -94, -85, -84, -44}

\* The registrations are explored with one table, the others with one line each.
PartInit ==
  /\ part \in {"sockets", "dispatch", "signal"}
  /\ SocketInit /\ DispatchInit /\ SignalInit
  /\ part # "sockets" => static /\ careful
  /\ part # "signal" => rat = "GSM"
  /\ IF urcTable = SmallTable
     THEN registrations = 0 /\ urcLines = 0
     ELSE part = "dispatch" /\ registrations = MaxRegistrations /\ urcLines = MaxUrcLines - 1

PartNext ==
  /\ \/ part = "sockets" /\ SocketNext /\ UNCHANGED <<dispatchVars, signalVars>>
     \/ part = "dispatch" /\ DispatchNext /\ UNCHANGED <<socketVars, signalVars>>
     \/ part = "signal" /\ SignalNext /\ UNCHANGED <<socketVars, dispatchVars>>
  /\ UNCHANGED part

PartSpec == PartInit /\ [][PartNext]_<<part, socketVars, dispatchVars, signalVars>>

TaskSymmetry == Permutations(SocketTasks)
=============================================================================
