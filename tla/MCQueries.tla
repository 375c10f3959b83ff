------------------------------ MODULE MCQueries ------------------------------
(* Instances of ModemQueries and NetworkReg for TLC.  They share no state: each *)
(* is explored while the other stands still.                                    *)
EXTENDS MCModemQueries, NetworkReg

VARIABLE part   \* the one that is explored

PartInit ==
  /\ part \in {"queries", "registration"}
  /\ QueryInit /\ Init
  /\ part = "registration" => modem = Ordinary

PartNext ==
  /\ \/ part = "queries" /\ QueryNext /\ UNCHANGED vars
     \/ part = "registration" /\ Next /\ UNCHANGED queryVars
  /\ UNCHANGED part

PartSpec == PartInit /\ [][PartNext]_<<part, queryVars, vars>>
=============================================================================
