----------------------------- MODULE PktioStream -----------------------------
(***************************************************************************)
(* The read buffer of the pktio reader thread (cellular_pktio.c): bytes    *)
(* arrive from the comm interface in pieces of any size, and the reader    *)
(* cuts them into lines and blocks of data inside pktioReadBuf, without    *)
(* copying: the lines of a response are pointers into the buffer until the *)
(* response is complete.                                                   *)
(*                                                                         *)
(* A byte is known by the message it belongs to and its place in it, so    *)
(* that what the buffer holds can be compared with what was sent.  Which   *)
(* lines a command expects is the subject of PktRequest: here a command is *)
(* waiting whenever the modem answers one.  The buffer is touched by the   *)
(* reader only, which goes through it one line at a time.                  *)
(***************************************************************************)
EXTENDS Integers, SequencesExt

CONSTANT
  Plans   \* what may happen: the size of the buffer, the messages the modem
          \* sends, and whether the input buffer callback may fail on a blob

\* A message: "urc" an unsolicited line; "inter" an intermediate line of a
\* response; "data" such a line followed by a block of data; "final" a result
\* code; "undef" a line nobody expects; "blob" binary data in place of a line,
\* which the input buffer callback takes out of the stream.
MsgTypes == {"urc", "inter", "data", "final", "undef", "blob"}
Message == [type : MsgTypes, len : Nat \ {0}, data : Nat]

ASSUME StreamAssumption ==
  \A p \in Plans :
    /\ p.room \in Nat \ {0}
    /\ p.script \in Seq(Message)
    /\ p.errors \in BOOLEAN
    /\ \A m \in DOMAIN p.script : p.script[m].data # 0 => p.script[m].type = "data"
    /\ \A m \in 2 .. Len(p.script) : {p.script[m - 1].type, p.script[m].type} # {"blob"}

NULL == -1
Nul == [m |-> 0, k |-> "nul", i |-> 0]   \* the byte '\0'
Char(m, i) == [m |-> m, k |-> "char", i |-> i]
Eol(m)     == [m |-> m, k |-> "eol", i |-> 0]
Data(m, i) == [m |-> m, k |-> "data", i |-> i]
Skipped == {"eol", "nul"}

VARIABLES
  plan,     \* the plan of this run
  sent,     \* number of bytes that have reached the comm interface
  taken,    \* number of bytes the reader has received
  rxEvent,  \* PKTIO_EVT_MASK_RX_DATA is set
  pc,       \* where the reader is
  buf,      \* pktioReadBuf, BufSize + 1 bytes
  readPtr,  \* pPktioReadPtr, an index of buf or NULL
  partial,  \* partialDataRcvdLen
  dataLen,  \* dataLength
  resp,     \* pAtCmdResp: the lines and data saved in it; allocated or NULL
  line,     \* pLine, pTempLine
  left,     \* bytesRead: bytes of the buffer from line on
  handled   \* the messages handed to the packet handler so far, 0 for rubbish

vars == <<plan, sent, taken, rxEvent, pc, buf, readPtr, partial, dataLen, resp,
          line, left, handled>>

BufSize == plan.room        \* PKTIO_READ_BUFFER_SIZE
script == plan.script
InputErrors == plan.errors

\* The bytes of a message, and of the script.
Bytes(m) ==
  LET msg == script[m] IN
  [i \in 1 .. msg.len |-> Char(m, i)]
    \o (IF msg.type = "blob" THEN <<>> ELSE <<Eol(m)>>)
    \o [i \in 1 .. msg.data |-> Data(m, i)]

Stream == FlattenSeq([m \in 1 .. Len(script) |-> Bytes(m)])

NoResp == [alloc |-> FALSE, items |-> <<>>]
Wiped == [i \in 0 .. BufSize |-> Nul]

Init ==
  /\ plan \in Plans
  /\ sent = 0 /\ taken = 0 /\ rxEvent = FALSE
  /\ pc = "wait"
  /\ buf = Wiped
  /\ readPtr = NULL /\ partial = 0 /\ dataLen = 0
  /\ resp = NoResp
  /\ line = 0 /\ left = 0
  /\ handled = <<>>

-----------------------------------------------------------------------------
(* The comm interface, and the wait for it.                                *)

\* Bytes arrive; _Cellular_PktRxCallBack sets the event.
Arrive ==
  /\ sent < Len(Stream)
  /\ \E n \in sent + 1 .. Len(Stream) : sent' = n
  /\ rxEvent' = TRUE
  /\ UNCHANGED <<plan, taken, pc, buf, readPtr, partial, dataLen, resp, line,
                 left, handled>>

\* PlatformEventGroup_WaitBits clears the event.
WaitRxData ==
  /\ pc = "wait"
  /\ rxEvent
  /\ rxEvent' = FALSE
  /\ pc' = "read"
  /\ UNCHANGED <<plan, sent, taken, buf, readPtr, partial, dataLen, resp, line,
                 left, handled>>

-----------------------------------------------------------------------------
(* _Cellular_ReadLine.                                                     *)

\* Mutant: one read for each event.
ReadOnce == "wait"

\* Keep reading until there are no more bytes in the comm interface.
ReadMore == "read"

\* Mutant: a response does not keep the buffer from being compacted.
MovesLeftoverAlways == readPtr \notin {NULL, 0} /\ partial # 0

\* The unhandled bytes go to the start of the buffer, unless a response still
\* points into it.
MovesLeftover == readPtr \notin {NULL, 0} /\ partial # 0 /\ ~resp.alloc

\* memmove(pktioReadBuf, &b[from], n)
Moved(b, from, n) == [i \in 0 .. BufSize |-> IF i < n THEN b[from + i] ELSE b[i]]

LeftoverBuffer == IF MovesLeftover
                  THEN [Moved(buf, readPtr, partial) EXCEPT ![partial] = Nul]
                  ELSE buf
\* pAtBuf, pRead and bufferEmptyLength.
AtBuf == IF MovesLeftover \/ readPtr = NULL THEN 0 ELSE readPtr
ReadAt == AtBuf + partial

\* Mutant: the distance of pPktioReadPtr from pktioReadBuf is forgotten.
EmptyLengthOfPartial == BufSize - partial

EmptyLength == BufSize - ReadAt

\* The bytes received, with '\0' after them.
Received(b, at, n) ==
  [i \in 0 .. BufSize |-> IF i \in at .. at + n - 1 THEN Stream[taken + i - at + 1]
                          ELSE IF i = at + n THEN Nul ELSE b[i]]

ReadPtrAfterMove == IF MovesLeftover THEN 0 ELSE readPtr

\* Some of the bytes that have arrived are received.
ReadBytes ==
  /\ pc = "read"
  /\ EmptyLength > 0
  /\ \E n \in 1 .. sent - taken :
       /\ n <= EmptyLength
       /\ buf' = Received(LeftoverBuffer, ReadAt, n)
       /\ taken' = taken + n
       /\ left' = n + partial
  /\ line' = AtBuf
  /\ partial' = 0
  /\ readPtr' = ReadPtrAfterMove
  /\ pc' = IF dataLen # 0 THEN "data" ELSE "line"
  /\ UNCHANGED <<plan, sent, rxEvent, dataLen, resp, handled>>

\* Nothing has arrived: the reader waits again.
ReadNothing ==
  /\ pc = "read"
  /\ EmptyLength > 0
  /\ taken = sent
  /\ buf' = LeftoverBuffer
  /\ readPtr' = ReadPtrAfterMove
  /\ pc' = "wait"
  /\ UNCHANGED <<plan, sent, taken, rxEvent, partial, dataLen, resp, line, left,
                 handled>>

\* "No empty space from comm if to handle incoming data, reset all parameter
\* for next incoming data": nothing is received, and the reader waits.
ReadOverflow ==
  /\ pc = "read"
  /\ EmptyLength <= 0
  /\ buf' = LeftoverBuffer
  /\ partial' = 0
  /\ readPtr' = NULL
  /\ pc' = "wait"
  /\ UNCHANGED <<plan, sent, taken, rxEvent, dataLen, resp, line, left, handled>>

-----------------------------------------------------------------------------
(* _handleData: a block of data, or the part of it that is there.          *)

SaveItem(r, off, n) == [alloc |-> TRUE, items |-> Append(r.items, [off |-> off, len |-> n])]

\* With n bytes from start on: the whole block and n - dataLen bytes more,
DataComplete(r, start, n) ==
  /\ n >= dataLen
  /\ resp' = SaveItem(r, start, dataLen)
  /\ line' = start + dataLen
  /\ left' = n - dataLen
  /\ dataLen' = 0
  /\ readPtr' = start + dataLen
  /\ partial' = n - dataLen
  /\ pc' = IF n = dataLen THEN ReadMore ELSE "line"

\* or less: the start of the data is remembered.
DataPartial(r, start, n, length) ==
  /\ n < length
  /\ resp' = r
  /\ dataLen' = length
  /\ readPtr' = start
  /\ partial' = n
  /\ pc' = ReadMore
  /\ UNCHANGED <<line, left>>

\* _handleRxDataEvent while a block of data is incomplete.
ReceiveData ==
  /\ pc = "data"
  /\ \/ DataComplete(resp, line, left) /\ buf' = [buf EXCEPT ![line + left] = Nul]
     \/ DataPartial(resp, line, left, dataLen) /\ buf' = buf
  /\ UNCHANGED <<plan, sent, taken, rxEvent, handled>>

-----------------------------------------------------------------------------
(* _handleAllReceived, one turn of its loop.                               *)

\* Change lines and '\0' before a line are skipped.
Skip == CHOOSE n \in 0 .. left :
          /\ \A i \in 0 .. n - 1 : buf[line + i].k \in Skipped
          /\ n < left => buf[line + n].k \notin Skipped
Start == line + Skip
Rest == left - Skip

\* The first end of line in the rest, its length if there is none.
LineEnds == {i \in 0 .. Rest - 1 : buf[Start + i].k \in Skipped}
HasLine == LineEnds # {}
LineLength == CHOOSE i \in LineEnds : \A j \in LineEnds : i <= j

\* The message whose characters stand from Start on, 0 if there is none.
IsMessage(m, n) == script[m].len = n /\ \A i \in 1 .. n : buf[Start + i - 1] = Char(m, i)
Msg == IF \E m \in 1 .. Len(script) : IsMessage(m, LineLength)
       THEN CHOOSE m \in 1 .. Len(script) : IsMessage(m, LineLength) ELSE 0
Type == IF Msg = 0 THEN "undef" ELSE script[Msg].type
Handled == handled' = Append(handled, Msg)

\* The line handed over is terminated in place.
Terminated == [buf EXCEPT ![Start + LineLength] = Nul]

\* A blob begins here: the input buffer callback has its own way to tell.  (It is
\* called once a turn; no script has two blobs in a row.)
AtBlob == /\ Rest > 0
          /\ \E m \in 1 .. Len(script) : script[m].type = "blob" /\ buf[Start] = Char(m, 1)
Blob == buf[Start].m

Unread == UNCHANGED <<plan, sent, taken, rxEvent>>

\* Nothing is left but ends of line.
NoMoreLines ==
  /\ pc = "line"
  /\ Rest = 0
  /\ readPtr' = Start
  /\ partial' = 0
  /\ pc' = ReadMore
  /\ Unread /\ UNCHANGED <<buf, dataLen, resp, line, left, handled>>

\* _preprocessInputBuffer: the callback takes the whole blob,
TakeBlob ==
  /\ pc = "line" /\ AtBlob
  /\ Rest >= script[Blob].len
  /\ line' = Start + script[Blob].len
  /\ left' = Rest - script[Blob].len
  /\ readPtr' = Start + script[Blob].len
  /\ handled' = Append(handled, Blob)
  /\ Unread /\ UNCHANGED <<pc, buf, partial, dataLen, resp>>

\* wants more of it (SIZE_MISMATCH),
WaitForBlob ==
  /\ pc = "line" /\ AtBlob
  /\ Rest < script[Blob].len
  /\ readPtr' = Start
  /\ partial' = Rest
  /\ pc' = ReadMore
  /\ Unread /\ UNCHANGED <<buf, dataLen, resp, line, left, handled>>

\* or fails: the read buffer is cleaned, pAtCmdResp is not.
RejectBlob ==
  /\ pc = "line" /\ AtBlob
  /\ InputErrors
  /\ buf' = Wiped
  /\ readPtr' = NULL
  /\ partial' = 0
  /\ pc' = ReadMore
  /\ Unread /\ UNCHANGED <<dataLen, resp, line, left, handled>>

\* _findLineInStream finds no end of line.
IncompleteLine ==
  /\ pc = "line" /\ ~AtBlob
  /\ Rest > 0 /\ ~HasLine
  /\ readPtr' = Start
  /\ partial' = Rest
  /\ pc' = ReadMore
  /\ Unread /\ UNCHANGED <<buf, dataLen, resp, line, left, handled>>

WholeLine == pc = "line" /\ ~AtBlob /\ Rest > 0 /\ HasLine

\* _getNextLine, without garbage collection.
NextLine ==
  /\ line' = Start + LineLength + 1
  /\ left' = Rest - (LineLength + 1)
  /\ readPtr' = line'
  /\ partial' = left'

UnsolicitedLine ==
  /\ WholeLine /\ Type = "urc"
  /\ buf' = Terminated
  /\ NextLine /\ Handled
  /\ Unread /\ UNCHANGED <<pc, dataLen, resp>>

IntermediateLine ==
  /\ WholeLine /\ Type = "inter"
  /\ buf' = Terminated
  /\ resp' = SaveItem(resp, Start, LineLength)
  /\ NextLine /\ Handled
  /\ Unread /\ UNCHANGED <<pc, dataLen>>

\* The data prefix callback finds the length of the data and where it starts;
\* the line is saved, then the data that is in the buffer already.
DataStart == Start + LineLength + 1
DataThere == Rest - (LineLength + 1)

DataLine ==
  /\ WholeLine /\ Type = "data"
  /\ buf' = Terminated
  /\ LET r == SaveItem(resp, Start, LineLength)
         n == script[Msg].data
     IN  \/ /\ DataThere >= n
            /\ resp' = SaveItem(r, DataStart, n)
            /\ line' = DataStart + n
            /\ left' = DataThere - n
            /\ readPtr' = DataStart + n
            /\ partial' = DataThere - n
            /\ pc' = IF DataThere = n THEN ReadMore ELSE "line"
            /\ UNCHANGED dataLen
         \/ DataPartial(r, DataStart, DataThere, n)
  /\ Handled /\ Unread

\* A result code: the response is complete and goes to its callback,
FinalLine ==
  /\ WholeLine /\ Type = "final"
  /\ buf' = Terminated
  /\ NextLine /\ Handled
  /\ pc' = "deliver"
  /\ Unread /\ UNCHANGED <<dataLen, resp>>

\* Mutant: the bytes left stay where they are and the pointer goes to the start.
NotCompacted == buf

Compacted == Moved(buf, line, left)

\* it is freed, and the bytes after it are moved to the start of the buffer.
Deliver ==
  /\ pc = "deliver"
  /\ resp' = NoResp
  /\ buf' = Compacted
  /\ line' = 0
  /\ readPtr' = 0
  /\ pc' = "line"
  /\ Unread /\ UNCHANGED <<partial, dataLen, left, handled>>

\* No command expects the line: everything is cleaned but dataLength.
UndefinedLine ==
  /\ WholeLine /\ Type \in {"undef", "blob"}
  /\ buf' = Wiped
  /\ readPtr' = NULL
  /\ partial' = 0
  /\ resp' = NoResp
  /\ pc' = ReadMore
  /\ Handled
  /\ Unread /\ UNCHANGED <<dataLen, line, left>>

-----------------------------------------------------------------------------
Reader ==
  \/ WaitRxData \/ ReadBytes \/ ReadNothing \/ ReadOverflow \/ ReceiveData
  \/ NoMoreLines \/ TakeBlob \/ WaitForBlob \/ RejectBlob \/ IncompleteLine
  \/ UnsolicitedLine \/ IntermediateLine \/ DataLine \/ FinalLine \/ Deliver
  \/ UndefinedLine

\* The reader waits for bytes that never come.
Quiet == sent = Len(Stream) /\ pc = "wait" /\ ~rxEvent /\ UNCHANGED vars

Next == Arrive \/ Reader \/ Quiet

Spec == Init /\ [][Next]_vars

\* As long as bytes are on the way or the reader can go on, one of the two does.
FairSpec == Spec /\ WF_vars(Arrive \/ Reader)

-----------------------------------------------------------------------------
(* Properties.                                                             *)

\* Every pointer the reader keeps into pktioReadBuf, with the bytes counted
\* from it, stays within the buffer: what _Cellular_ReadLine receives and the
\* '\0' it adds never go past PKTIO_READ_BUFFER_SIZE + 1 bytes.
TypeOK ==
  /\ plan \in Plans
  /\ taken <= sent /\ sent <= Len(Stream)
  /\ rxEvent \in BOOLEAN
  /\ pc \in {"wait", "read", "data", "line", "deliver"}
  /\ DOMAIN buf = 0 .. BufSize
  /\ readPtr \in {NULL} \cup 0 .. BufSize
  /\ partial \in 0 .. BufSize
  /\ pc \in {"wait", "read"} => ReadAt <= BufSize
  /\ line \in 0 .. BufSize /\ left \in 0 .. BufSize - line
  /\ resp.alloc \/ resp.items = <<>>

\* The lines of a response fit in the buffer with what comes between them.
ResponsesFit ==
  \A i \in 1 .. Len(script) : \A j \in i .. Len(script) :
    (\A k \in i .. j - 1 : script[k].type # "final") =>
      Len(FlattenSeq([k \in 1 .. j - i + 1 |-> Bytes(i + k - 1)])) <= BufSize

\* Nothing has taken bytes along: no blob was rejected, no line nobody expects has come.
Undisturbed ==
  /\ ResponsesFit /\ ~InputErrors
  /\ \A i \in 1 .. Len(handled) : handled[i] # 0 => script[handled[i]].type # "undef"

\* The messages reach the packet handler in the order in which the modem sent
\* them, none of them twice, however the bytes are cut into pieces; a line that
\* nobody expects, a blob that is rejected or a response that does not fit takes
\* bytes along, but never brings back or reorders others.  When every response fits
\* in the buffer, no message is missed or cut either until a line that nobody expects.
HandledInOrder ==
  /\ \A i, j \in 1 .. Len(handled) : i < j /\ handled[j] # 0 => handled[i] < handled[j]
  /\ Undisturbed => \A i \in 1 .. Len(handled) : handled[i] = i

\* What the lines and blocks of data of a message look like when they are saved.
LineOf(m) == Append([i \in 1 .. script[m].len |-> Char(m, i)], Nul)
BlockOf(m) == [i \in 1 .. script[m].data |-> Data(m, i)]
ItemsOf(m) == CASE script[m].type = "inter" -> << LineOf(m) >>
                [] script[m].type = "data"  -> << LineOf(m), BlockOf(m) >>
                [] OTHER -> <<>>

\* The message after the last final result code before m.
ResponseStart(m) == CHOOSE k \in 1 .. m : /\ k = 1 \/ script[k - 1].type = "final"
                                          /\ \A j \in k .. m - 1 : script[j].type # "final"

\* The lines and blocks of data of the response to which message m is the final
\* result code, as the modem sent them.
SentItems(m) ==
  FlattenSeq([k \in 1 .. m - ResponseStart(m) |-> ItemsOf(ResponseStart(m) + k - 1)])

\* What a saved line or block of data (of n bytes) has become in the buffer.
InBuffer(off, n) == [i \in 1 .. n |-> buf[off + i - 1]]

\* When every response fits and one goes to its callback, the lines and the blocks of
\* data saved in it by address are all those the modem sent since the last result
\* code, byte for byte, each line with its '\0': no later read, move or clean of the
\* buffer has touched them.
ResponseIntact ==
  pc = "deliver" /\ Undisturbed =>
    LET expected == SentItems(Last(handled)) IN
    /\ Len(resp.items) = Len(expected)
    /\ \A i \in 1 .. Len(expected) :
         /\ resp.items[i].off + Len(expected[i]) <= BufSize + 1
         /\ InBuffer(resp.items[i].off, Len(expected[i])) = expected[i]

\* The reader does not go to sleep on bytes that have arrived: it keeps reading
\* until there is no more bytes in the comm interface, unless it is told of more.
NothingStranded == pc = "wait" /\ taken < sent => rxEvent

\* Every message of a script that fits in the buffer is handed over in the end:
\* the reader never sleeps on a line it has.
AllHandled == Len(Stream) <= BufSize /\ ~InputErrors => <>(Len(handled) = Len(script))
=============================================================================
