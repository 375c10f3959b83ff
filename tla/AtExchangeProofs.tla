-------------------------- MODULE AtExchangeProofs --------------------------
(* Theorems about AtExchange: what the promise of the packet layer amounts *)
(* to, however many exchanges there are.                                   *)
EXTENDS AtExchange, SequenceTheorems, TLAPS

\* A mailbox that is not empty holds one status.
LEMMA Singleton ==
  ASSUME NEW S, NEW s \in Seq(S), s # <<>>, Len(s) <= 1
  PROVE  Len(s) = 1 /\ Head(s) = s[1] /\ s[1] \in S
<1>1. Len(s) \in Nat
  BY LenProperties
<1>2. Len(s) # 0
  BY EmptySeq
<1>3. Len(s) = 1
  <2>. DEFINE n == Len(s)
  <2>1. n \in Nat /\ n # 0 /\ n <= 1
    BY <1>1, <1>2
  <2>. HIDE DEF n
  <2>2. n = 1
    BY <2>1
  <2>. QED
    BY <2>2 DEF n
<1>. QED
  BY <1>3

\* Every step of the protocol keeps the invariant.
LEMMA ExStep == ASSUME ExInv, [ExNext]_exVars PROVE ExInv'
<1>. USE DEF ExInv
<1>1. CASE Begin
  <2>1. begun' = begun + 1 /\ mailbox' = mailbox /\ last' = last /\ awaiting' = TRUE
    BY <1>1 DEF Begin
  <2>2. 0 .. begun \subseteq 0 .. begun'
    BY <2>1
  <2>3. mailbox' \in Seq(0 .. begun')
    BY <2>1, <2>2
  <2>. QED
    BY <2>1, <2>2, <2>3
<1>2. ASSUME NEW a \in 0 .. begun, Post(a) PROVE ExInv'
  BY <1>2 DEF Post
<1>3. CASE Take
  <2>1. mailbox \in Seq(0 .. begun) /\ Len(mailbox) <= 1 /\ mailbox # <<>>
    BY <1>3 DEF Take
  <2>2. Head(mailbox) = mailbox[1] /\ mailbox[1] \in 0 .. begun
    BY <2>1, Singleton, Zenon
  <2>3. Len(mailbox) = 1
    BY <2>1, Singleton, Zenon
  <2>4. mailbox' \in Seq(0 .. begun) /\ Len(mailbox') = 0
    BY <1>3, <2>1, <2>3, <2>2 DEF Take
  <2>5. last' = [x |-> begun, from |-> mailbox[1]] /\ begun' = begun
    BY <1>3, <2>1, <2>3, <2>2 DEF Take
  <2>6. last' \in [x : 0 .. begun, from : 0 .. begun] /\ last'.from <= last'.x
    BY <2>2, <2>5
  <2>7. \A i \in 1 .. Len(mailbox') : last'.from <= mailbox'[i]
    BY <2>4
  <2>8. awaiting' \in BOOLEAN
    BY <1>3, Zenon DEF Take
  <2>9. begun' \in Nat /\ mailbox' \in Seq(0 .. begun') /\ Len(mailbox') <= 1
    BY <2>4, <2>5
  <2>10. last' \in [x : 0 .. begun', from : 0 .. begun']
    BY <2>5, <2>6
  <2>. QED
    BY <2>6, <2>7, <2>8, <2>9, <2>10, Zenon
<1>4. CASE GiveUp
  BY <1>4 DEF GiveUp
<1>5. CASE UNCHANGED exVars
  BY <1>5 DEF exVars
<1>. QED
  BY <1>1, <1>2, <1>3, <1>4, <1>5 DEF ExNext

\* The mailbox never holds a status older than the last one served, nor one of
\* an exchange that has not begun.
THEOREM ExInvAlways == ExSpec => []ExInv
<1>1. ExInit => ExInv
  <2>. SUFFICES ASSUME ExInit PROVE ExInv
    OBVIOUS
  <2>1. mailbox \in Seq(0 .. begun) /\ Len(mailbox) = 0
    BY DEF ExInit
  <2>2. last \in [x : 0 .. begun, from : 0 .. begun] /\ last.from <= last.x
    BY DEF ExInit
  <2>3. \A i \in 1 .. Len(mailbox) : last.from <= mailbox[i]
    BY <2>1
  <2>4. begun \in Nat /\ Len(mailbox) <= 1
    BY <2>1 DEF ExInit
  <2>5. awaiting \in BOOLEAN
    BY Zenon DEF ExInit
  <2>. QED
    BY <2>1, <2>2, <2>3, <2>4, <2>5, Zenon DEF ExInv
<1>2. ExInv /\ [ExNext]_exVars => ExInv'
  BY ExStep
<1>. QED
  BY <1>1, <1>2, PTL DEF ExSpec

\* The tasks are served in the order in which the modem answered: a status that
\* was served does not come back, and none comes before its command was given.
THEOREM AnswersInOrder == ExSpec => ServedInOrder
<1>1. ExInv /\ [ExNext]_exVars =>
        [last'.from >= last.from /\ last'.from <= last'.x /\ last'.x >= last.x]_last
  <2>. SUFFICES ASSUME ExInv, [ExNext]_exVars, last' # last
       PROVE last'.from >= last.from /\ last'.from <= last'.x /\ last'.x >= last.x
    OBVIOUS
  <2>1. Take
    BY DEF ExNext, exVars, Begin, Post, GiveUp
  <2>2. /\ last' = [x |-> begun, from |-> mailbox[1]]
        /\ mailbox[1] \in 0 .. begun /\ last.from <= mailbox[1]
    BY <2>1 DEF Take, ExInv
  <2>. QED
    BY <2>2 DEF ExInv
<1>. QED
  BY <1>1, ExInvAlways, PTL DEF ExSpec, ServedInOrder
=============================================================================
