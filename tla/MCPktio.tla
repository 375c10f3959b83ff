------------------------------- MODULE MCPktio -------------------------------
(* Instances of PktioStream and LibLifecycle for TLC.  They share no state: each *)
(* is explored while the other stands still.                                     *)
EXTENDS MCPktioStream, LibLifecycle

VARIABLE part   \* the one that is explored

\* The buffer stands still with a script that does not fit.
PartInit ==
  /\ part \in {"stream", "life"}
  /\ Init /\ LifeInit
  /\ part = "life" => script = << Urc(3), Urc(3), Urc(3) >>

\* A call at a mutex that is gone stands still for ever; the buffer must not.
StandStill == part = "life" /\ UNCHANGED <<vars, lifeVars>>

PartNext ==
  /\ \/ part = "stream" /\ Next /\ UNCHANGED lifeVars
     \/ part = "life" /\ LifeNext /\ UNCHANGED vars
     \/ StandStill
  /\ UNCHANGED part

\* The fairness of FairSpec and of FairLifeSpec, for the one that is explored.
FairPartSpec ==
  /\ PartInit /\ [][PartNext]_<<part, vars, lifeVars>>
  /\ WF_vars(part = "stream" /\ (Arrive \/ Reader))
  /\ WF_lifeVars(part = "life" /\ Owner /\ owner # "up" /\ owner # "idle")
  /\ \A l \in Lives : WF_lifeVars(part = "life" /\ ReaderThread(l))
  /\ \A t \in Tasks : WF_lifeVars(part = "life" /\ Task(t) /\ api[t] # "idle")
=============================================================================
