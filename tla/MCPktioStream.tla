---------------------------- MODULE MCPktioStream ----------------------------
(* Instances of PktioStream for TLC: what the modem sends in each run.     *)
EXTENDS PktioStream

Urc(n)     == [type |-> "urc",   len |-> n, data |-> 0]
Inter(n)   == [type |-> "inter", len |-> n, data |-> 0]
Block(n, d) == [type |-> "data",  len |-> n, data |-> d]
Final(n)   == [type |-> "final", len |-> n, data |-> 0]
Undef(n)   == [type |-> "undef", len |-> n, data |-> 0]
Binary(n)  == [type |-> "blob",  len |-> n, data |-> 0]

\* Every response fits in a buffer of 12 bytes together with what comes with it,
\* the whole script does not.
TurningScripts ==
  { << Urc(2), Inter(2), Final(1), Urc(3), Final(2) >>,
    << Urc(1), Block(1, 3), Final(1), Urc(2), Urc(3) >>,
    << Inter(1), Block(1, 2), Final(1), Inter(2), Final(1) >>,
    << Urc(2), Binary(3), Inter(2), Final(1), Urc(3) >>,
    << Inter(2), Final(1), Urc(1), Inter(1), Undef(2), Urc(1), Urc(2) >>,
    << Inter(1), Undef(1), Block(1, 2), Final(1), Urc(2), Final(1) >> }

\* The whole script fits in 12 bytes.
ShortScripts ==
  { << Urc(2), Inter(2), Final(1), Urc(3) >>,
    << Urc(1), Block(1, 3), Final(1), Urc(2) >>,
    << Inter(1), Binary(3), Block(1, 2), Final(1) >> }

FittingScripts == TurningScripts \cup ShortScripts

\* Unsolicited lines that fill a buffer of 8 bytes to its last byte.
UrcScripts == { << Urc(3), Urc(3), Urc(3) >> }

\* The reader meets the end of a buffer of 8 bytes in lines, in data and with a
\* response half received; the last script fits in it.
SmallScripts ==
  { << Urc(3), Urc(3), Urc(3) >>,
    << Inter(2), Block(1, 5), Final(1), Urc(2) >>,
    << Inter(2), Binary(2), Inter(1), Final(1) >>,
    << Inter(1), Undef(2), Urc(6), Final(1) >>,
    << Urc(1), Final(1), Urc(2), Final(1) >> }

Plan(room, scripts, errors) ==
  [room : {room}, script : scripts, errors : {errors}]

AllPlans == Plan(12, FittingScripts, FALSE) \cup Plan(8, SmallScripts, TRUE)
UrcPlans == Plan(8, UrcScripts, FALSE)
=============================================================================
