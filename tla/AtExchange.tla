----------------------------- MODULE AtExchange -----------------------------
(***************************************************************************)
(* What the packet layer promises its callers, whatever the modem and the  *)
(* timers do: one exchange at a time; a mailbox of depth one; a status     *)
(* that is put into the mailbox belongs to an exchange that has begun, and *)
(* never to one before the last that was served.  An exchange ends with a  *)
(* status from the mailbox or without one.                                 *)
(*                                                                         *)
(* It does not promise that the status is the exchange's own: an exchange  *)
(* that gives up leaves its answer to the next one.  PktRequest implements *)
(* this module.                                                            *)
(***************************************************************************)
EXTENDS Integers, Sequences

VARIABLES
  begun,     \* number of exchanges begun
  awaiting,  \* an exchange is in progress
  mailbox,   \* the exchanges whose status is in the mailbox
  last       \* [x, from]: the last exchange served, and the one whose status it got

exVars == <<begun, awaiting, mailbox, last>>

ExInit == /\ begun = 0
          /\ awaiting = FALSE
          /\ mailbox = <<>>
          /\ last = [x |-> 0, from |-> 0]

Begin == /\ ~awaiting
         /\ begun' = begun + 1
         /\ awaiting' = TRUE
         /\ UNCHANGED <<mailbox, last>>

\* The status of exchange a is posted.
Post(a) == /\ mailbox = <<>>
           /\ a >= last.from
           /\ mailbox' = <<a>>
           /\ UNCHANGED <<begun, awaiting, last>>

\* The exchange in progress takes what is in the mailbox and ends.
Take == /\ awaiting
        /\ mailbox # <<>>
        /\ last' = [x |-> begun, from |-> Head(mailbox)]
        /\ mailbox' = Tail(mailbox)
        /\ awaiting' = FALSE
        /\ UNCHANGED begun

\* It ends without a status: a timeout, or an error before the wait.
GiveUp == /\ awaiting
          /\ awaiting' = FALSE
          /\ UNCHANGED <<begun, mailbox, last>>

ExNext == Begin \/ (\E a \in 0 .. begun : Post(a)) \/ Take \/ GiveUp

ExSpec == ExInit /\ [][ExNext]_exVars

-----------------------------------------------------------------------------
\* Every status in play belongs to an exchange that has begun and is no older
\* than the last one served; an exchange is served after the one it is served
\* the status of has begun.
ExInv ==
  /\ begun \in Nat
  /\ awaiting \in BOOLEAN
  /\ mailbox \in Seq(0 .. begun) /\ Len(mailbox) <= 1
  /\ last \in [x : 0 .. begun, from : 0 .. begun]
  /\ last.from <= last.x
  /\ \A i \in 1 .. Len(mailbox) : last.from <= mailbox[i]

\* Statuses are served in the order of the exchanges they belong to, none
\* before its exchange has begun.
ServedInOrder ==
  [][/\ last'.from >= last.from
     /\ last'.from <= last'.x
     /\ last'.x >= last.x]_last
=============================================================================
