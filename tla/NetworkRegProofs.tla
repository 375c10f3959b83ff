-------------------------- MODULE NetworkRegProofs --------------------------
(* Theorems about NetworkReg, for any tasks, access technologies and causes.  *)
EXTENDS NetworkReg, Recursions

-----------------------------------------------------------------------------
(* The inductive invariant.                                                   *)

LineSet ==
  [type : RegTypes \cup {"OK", "ERROR"}, urc : BOOLEAN, stat : Statuses,
   loc : {"absent", "given", "empty"}, rat : Rats \cup {NoRat}, cause : Causes \cup {NoCause}]
RegLines == {line \in LineSet : line.type \in RegTypes}

RegSet == [stat : Statuses, rat : Rats \cup {NoRat}]
DataSet == [cs : Statuses, ps : Statuses, rat : Rats \cup {NoRat},
            csCause : Causes \cup {NoCause}, psCause : Causes \cup {NoCause}]
AppSet == [cs : Statuses, ps : Statuses]
Sent == {"cregSent", "cgregSent", "ceregSent"}

Typed ==
  /\ TypeOK
  /\ lines \in Seq(LineSet) /\ saved \in Seq(RegLines)
  /\ data \in DataSet /\ app \in AppSet
  /\ ok \in [Askers -> BOOLEAN] /\ quiet \in [Askers -> BOOLEAN]
  /\ service \in [Askers -> [filled : BOOLEAN, cs : Statuses, ps : Statuses,
                            rat : Rats \cup {NoRat}]]

\* One query at a time, and what is saved belongs to it.
OneQuery ==
  /\ \A t \in Askers : stage[t] \in Sent => cmd = t
  /\ cmd = NoTask => saved = <<>>
  /\ \A i \in DOMAIN saved : saved[i].type = QueryType(cmd)

\* At most one answer is on its way to its end.
EndAt(i) == i \in DOMAIN lines /\ lines[i].type \notin RegTypes
OneEnd ==
  /\ \A i, j \in DOMAIN lines : EndAt(i) /\ EndAt(j) => i = j
  /\ \A i \in DOMAIN lines : EndAt(i) => answering = "no" /\ cmd # NoTask
  /\ answering # "no" => cmd # NoTask

\* What a quiet query has of its answer so far: nothing, the one right line, on the way
\* or saved, and the end of it.
RightLine(line, t) ==
  /\ line.type = QueryType(t) /\ ~line.urc
  /\ line.stat = net[line.type].stat
AnswerOf(t) ==
  \/ answering = "asked" /\ lines = <<>> /\ saved = <<>>
  \/ /\ answering = "answered"
     /\ \E line \in RegLines : /\ RightLine(line, t)
                               /\ \/ lines = <<line>> /\ saved = <<>>
                                  \/ lines = <<>> /\ saved = <<line>>
  \/ /\ answering = "no"
     /\ \E line \in RegLines : /\ RightLine(line, t)
                               /\ \/ lines = <<line, End("OK")>> /\ saved = <<>>
                                  \/ lines = <<End("OK")>> /\ saved = <<line>>
  \/ answering = "no" /\ lines = <<End("ERROR")>> /\ saved = <<>>

\* How far the data is right for a quiet caller.
SomePs == \E type \in {"CGREG", "CEREG"} : Registered(net[type].stat)
RightSoFar(t) ==
  /\ stage[t] \in {"cgreg", "cgregSent", "readPs", "cereg", "ceregSent", "readAll"} =>
       data.cs = net["CREG"].stat
  /\ stage[t] \in {"readPs", "cereg", "ceregSent"} => data.ps = net["CGREG"].stat
  /\ stage[t] \in {"cereg", "ceregSent"} => ~Registered(net["CGREG"].stat)
  /\ stage[t] = "readAll" => (Registered(data.ps) <=> SomePs)

QuietCall(t) ==
  quiet[t] /\ stage[t] # "idle" =>
    /\ ok[t]
    /\ stage[t] \in Sent => AnswerOf(t)
    /\ stage[t] \notin Sent => lines = <<>>
    /\ RightSoFar(t)

RInv == Typed /\ EventsTellAll /\ OneQuery /\ OneEnd

\* What a quiet caller gets.
RightFor(t) ==
  stage[t] = "returned" /\ quiet[t] /\ service[t].filled =>
    service[t].cs = net["CREG"].stat /\ (Registered(service[t].ps) <=> SomePs)
QInv == \A t \in Askers : QuietCall(t) /\ RightFor(t)

\* One task asks.
OneTask == \A t, u \in Askers : t = u

-----------------------------------------------------------------------------
(* One line, and all that were saved.                                         *)

StateSet == [data : DataSet, app : AppSet, ok : BOOLEAN]
Begun == [data |-> data, app |-> app, ok |-> TRUE]

\* The application of s knows the statuses of s.
Tells(s) == s.app.cs = s.data.cs /\ s.app.ps = s.data.ps

\* The fields of the domain that a line of a type is not about are those of d.
Apart(type, s, d) ==
  IF type = "CREG" THEN s.data.ps = d.ps /\ s.data.psCause = d.psCause
  ELSE s.data.cs = d.cs /\ s.data.csCause = d.csCause

\* A line is parsed into data of its type.
LEMMA ParsedType ==
  ASSUME NEW d \in DataSet, NEW line \in RegLines
  PROVE  LineParsed(d, line) \in DataSet
<1>1. line.stat \in Statuses /\ line.rat \in Rats \cup {NoRat}
      /\ line.cause \in Causes \cup {NoCause}
  BY DEF RegLines, LineSet
<1>. DEFINE status == WithStatus(d, line.type, line.stat)
            location == [status EXCEPT !.rat = line.rat]
<1>2. status \in DataSet
  BY <1>1 DEF WithStatus, Cleared, DataSet, Statuses
<1>3. location \in DataSet
  <2>. HIDE DEF status
  <2>. QED BY <1>1, <1>2 DEF DataSet
<1>4. WithCause(location, line.type, line.cause) \in DataSet
  <2>. HIDE DEF location
  <2>. QED BY <1>1, <1>3 DEF WithCause, DataSet
<1>. QED
  <2>. HIDE DEF status, location
  <2>1. LineParsed(d, line) \in {status, location, WithCause(location, line.type, line.cause)}
    BY DEF LineParsed, status, location
  <2>. QED BY <1>2, <1>3, <1>4, <2>1

\* What a line leaves in the data: its status, the other domain as it was.
LEMMA ParsedFields ==
  ASSUME NEW d \in DataSet, NEW line \in RegLines
  PROVE  IF line.type = "CREG"
         THEN /\ LineParsed(d, line).cs = line.stat
              /\ LineParsed(d, line).ps = d.ps /\ LineParsed(d, line).psCause = d.psCause
         ELSE /\ LineParsed(d, line).ps = line.stat
              /\ LineParsed(d, line).cs = d.cs /\ LineParsed(d, line).csCause = d.csCause
  BY DEF LineParsed, WithStatus, WithCause, Cleared, DataSet

\* Handling a line keeps the types and tells the application all, and leaves the other
\* domain alone.
LEMMA HandledLine ==
  ASSUME NEW s, s.data \in DataSet, s.app \in AppSet, NEW line \in RegLines
  PROVE  /\ Handled(s, line) \in StateSet
         /\ Handled(s, line).data = LineParsed(s.data, line)
         /\ Handled(s, line).ok = ParsedWhole(line)
         /\ Tells(s) => Tells(Handled(s, line))
         /\ Apart(line.type, Handled(s, line), s.data)
<1>. DEFINE e == LineParsed(s.data, line)
<1>1. e \in DataSet
  BY ParsedType
<1>2. Told(s.app, s.data, e, line.type) \in AppSet
  <2>. HIDE DEF e
  <2>. QED BY <1>1 DEF Told, AppSet, DataSet
<1>3. Handled(s, line) = [data |-> e, app |-> Told(s.app, s.data, e, line.type),
                          ok |-> ParsedWhole(line)]
  BY DEF Handled
<1>4. ParsedWhole(line) \in BOOLEAN
  BY DEF ParsedWhole
<1>5. Handled(s, line) \in StateSet
  <2>. HIDE DEF e
  <2>. QED BY <1>1, <1>2, <1>3, <1>4 DEF StateSet
<1>6. ASSUME Tells(s) PROVE Tells(Handled(s, line))
  <2>1. line.type \in RegTypes
    BY DEF RegLines
  <2>2. IF line.type = "CREG" THEN e.ps = s.data.ps ELSE e.cs = s.data.cs
    BY ParsedFields
  <2>. HIDE DEF e
  <2>. QED BY <1>1, <1>3, <1>6, <2>1, <2>2
       DEF Tells, Told, StatusChanged, CsEventTypes, RegTypes, DataSet, AppSet
<1>7. Apart(line.type, Handled(s, line), s.data)
  BY <1>3, ParsedFields DEF Apart
<1>. QED BY <1>3, <1>5, <1>6, <1>7

\* So does the step from one saved line to the next.
LEMMA NextHandled ==
  ASSUME NEW s \in StateSet, NEW line \in RegLines
  PROVE  /\ HandledNext(s, line) \in StateSet
         /\ Tells(s) => Tells(HandledNext(s, line))
         /\ Apart(line.type, HandledNext(s, line), s.data)
<1>1. s.data \in DataSet /\ s.app \in AppSet
  BY DEF StateSet
<1>2. [s EXCEPT !.ok = FALSE] \in StateSet
  BY DEF StateSet
<1>3. [s EXCEPT !.ok = FALSE].data = s.data /\ [s EXCEPT !.ok = FALSE].app = s.app
  BY DEF StateSet
<1>. QED BY <1>1, <1>2, <1>3, HandledLine DEF HandledNext, Tells, Apart

\* The saved lines are handled one after the other, from the first to the last.
LEMMA HandledInTurn ==
  ASSUME saved \in Seq(RegLines), data \in DataSet, app \in AppSet
  PROVE  \E f \in [0 .. Len(saved) -> StateSet] :
           /\ f[0] = Begun
           /\ \A n \in 1 .. Len(saved) : f[n] = HandledNext(f[n - 1], saved[n])
           /\ HandledSaved = f[Len(saved)]
<1>. DEFINE N == Len(saved)
            F == [n \in 1 .. N |-> [s \in StateSet |-> HandledNext(s, saved[n])]]
            up(f) == [n \in 0 .. N |-> IF n = 0 THEN [data |-> data, app |-> app, ok |-> TRUE]
                                     ELSE HandledNext(f[n - 1], saved[n])]
<1>1. N \in Nat /\ \A n \in 1 .. N : saved[n] \in RegLines
  OBVIOUS
<1>2. Begun \in StateSet
  BY DEF Begun, StateSet
<1>3. F \in [1 .. N -> [StateSet -> StateSet]]
  BY <1>1, NextHandled
<1>4. PICK f \in [0 .. N -> StateSet] : Follows(f, N, Begun, F)
  <2>. HIDE DEF F, N
  <2>. QED BY <1>1, <1>2, <1>3, Recursion
<1>5. f = up(f)
  <2>1. \A n \in 1 .. N : F[n][f[n - 1]] = HandledNext(f[n - 1], saved[n])
    <3>. SUFFICES ASSUME NEW n \in 1 .. N
                  PROVE  F[n][f[n - 1]] = HandledNext(f[n - 1], saved[n])
      OBVIOUS
    <3>1. f[n - 1] \in StateSet
      BY <1>1
    <3>. QED BY <3>1
  <2>. HIDE DEF F
  <2>2. \A n \in 0 .. N : f[n] = up(f)[n]
    BY <1>1, <1>4, <2>1 DEF Begun, Follows
  <2>3. f = [n \in 0 .. N |-> f[n]]
    OBVIOUS
  <2>. QED BY <2>2, <2>3
<1>. DEFINE g == CHOOSE h : h = up(h)
<1>6. g = up(g)
  <2>. HIDE DEF up
  <2>. QED BY <1>5
<1>7. HandledSaved = g[N]
  BY DEF HandledSaved
<1>. HIDE DEF g, N
<1>8. g[0] = Begun /\ \A n \in 1 .. N : g[n] = HandledNext(g[n - 1], saved[n])
  <2>1. \A n \in 0 .. N : g[n] = IF n = 0 THEN Begun ELSE HandledNext(g[n - 1], saved[n])
    BY <1>6, Zenon DEF Begun
  <2>. QED BY <1>1, <2>1
<1>9. \A n \in 0 .. N : n \in {k \in 0 .. N : g[k] \in StateSet}
  <2>. DEFINE G == {k \in 0 .. N : g[k] \in StateSet}
  <2>1. 0 \in G
    BY <1>1, <1>2, <1>8
  <2>2. ASSUME NEW n \in 1 .. N, n - 1 \in G PROVE n \in G
    <3>1. HandledNext(g[n - 1], saved[n]) \in StateSet
      BY <1>1, <2>2, NextHandled
    <3>. QED BY <1>1, <1>8, <3>1
  <2>. HIDE DEF G
  <2>3. \A n \in 0 .. N : n \in G
    BY <1>1, <2>1, <2>2, UpTo
  <2>. QED BY <2>3 DEF G
<1>10. g \in [0 .. N -> StateSet]
  BY <1>1, <1>6, <1>9
<1>. QED BY <1>7, <1>8, <1>10 DEF N

\* All saved lines are handled: the types are kept, the application is told all, and if
\* the lines are of one type the other domain is as it was.
LEMMA SavedHandled ==
  ASSUME saved \in Seq(RegLines), data \in DataSet, app \in AppSet
  PROVE  /\ HandledSaved \in StateSet
         /\ Tells(Begun) => Tells(HandledSaved)
         /\ \A type : (\A i \in DOMAIN saved : saved[i].type = type)
                       => Apart(type, HandledSaved, data)
<1>. DEFINE N == Len(saved)
<1>1. PICK f \in [0 .. N -> StateSet] :
        /\ f[0] = Begun
        /\ \A n \in 1 .. N : f[n] = HandledNext(f[n - 1], saved[n])
        /\ HandledSaved = f[N]
  BY HandledInTurn
<1>2. N \in Nat /\ N \in 0 .. N /\ DOMAIN saved = 1 .. N
      /\ \A n \in 1 .. N : saved[n] \in RegLines
  OBVIOUS
<1>. HIDE DEF N
<1>3. HandledSaved \in StateSet
  BY <1>1, <1>2
<1>4. ASSUME Tells(Begun) PROVE Tells(HandledSaved)
  <2>. DEFINE G == {n \in 0 .. N : Tells(f[n])}
  <2>1. 0 \in G
    BY <1>1, <1>2, <1>4
  <2>2. ASSUME NEW n \in 1 .. N, n - 1 \in G PROVE n \in G
    <3>1. f[n - 1] \in StateSet /\ Tells(f[n - 1])
      BY <2>2
    <3>2. Tells(HandledNext(f[n - 1], saved[n]))
      BY <1>2, <3>1, NextHandled
    <3>3. n \in 0 .. N
      BY <1>2
    <3>. QED BY <1>1, <3>2, <3>3
  <2>3. \A n \in 0 .. N : n \in G
    <3>. HIDE DEF G
    <3>. QED BY <1>2, <2>1, <2>2, UpTo
  <2>. QED BY <1>1, <1>2, <2>3
<1>5. ASSUME NEW type, \A i \in DOMAIN saved : saved[i].type = type
      PROVE  Apart(type, HandledSaved, data)
  <2>. DEFINE G == {n \in 0 .. N : Apart(type, f[n], data)}
  <2>1. 0 \in G
    <3>1. Apart(type, Begun, data)
      BY DEF Apart, Begun
    <3>. QED BY <1>1, <1>2, <3>1
  <2>2. ASSUME NEW n \in 1 .. N, n - 1 \in G PROVE n \in G
    <3>1. f[n - 1] \in StateSet /\ Apart(type, f[n - 1], data)
      BY <2>2
    <3>2. Apart(type, HandledNext(f[n - 1], saved[n]), f[n - 1].data)
      BY <1>2, <1>5, <3>1, NextHandled
    <3>3. Apart(type, f[n], data)
      BY <1>1, <3>1, <3>2 DEF Apart
    <3>4. n \in 0 .. N
      BY <1>2
    <3>. QED BY <3>3, <3>4
  <2>3. \A n \in 0 .. N : n \in G
    <3>. HIDE DEF G
    <3>. QED BY <1>2, <2>1, <2>2, UpTo
  <2>. QED BY <1>1, <1>2, <2>3
<1>. QED BY <1>3, <1>4, <1>5

\* An answer of one line.
LEMMA OneSaved ==
  ASSUME NEW line \in RegLines, saved = <<line>>, data \in DataSet, app \in AppSet
  PROVE  HandledSaved = HandledNext(Begun, line)
<1>1. saved \in Seq(RegLines) /\ Len(saved) = 1 /\ saved[1] = line
  OBVIOUS
<1>2. PICK f \in [0 .. 1 -> StateSet] :
        /\ f[0] = Begun
        /\ \A n \in 1 .. 1 : f[n] = HandledNext(f[n - 1], saved[n])
        /\ HandledSaved = f[1]
  BY <1>1, HandledInTurn
<1>3. f[1] = HandledNext(f[1 - 1], saved[1])
  BY <1>2
<1>. QED BY <1>1, <1>2, <1>3

\* What the modem reports of a registration is a line of its type and status.
LEMMA ReportedLine ==
  ASSUME NEW type \in RegTypes, NEW urc \in BOOLEAN,
         NEW reg \in RegSet,
         NEW line \in Reports(type, urc, reg)
  PROVE  line \in RegLines /\ line.type = type /\ line.urc = urc /\ line.stat = reg.stat
  BY DEF Reports, Line, RegLines, LineSet, RegSet, Registered, Statuses

ReadLines(type, reg) == Reports(type, FALSE, reg)

\* A line that is read is no unsolicited one.
LEMMA ReadLine ==
  ASSUME NEW type \in RegTypes, NEW reg \in RegSet, NEW line \in ReadLines(type, reg)
  PROVE  line \in RegLines /\ line.type = type /\ ~line.urc /\ line.stat = reg.stat
<1>1. line \in Reports(type, FALSE, reg) /\ FALSE \in BOOLEAN
  BY DEF ReadLines
<1>2. line \in RegLines /\ line.type = type /\ line.urc = FALSE /\ line.stat = reg.stat
  BY <1>1, ReportedLine, ZenonT(60)
<1>. QED BY <1>2, Zenon

-----------------------------------------------------------------------------
(* The invariant holds in every state.                                        *)

\* The end of an answer is a line too.
LEMMA EndLine ==
  ASSUME NEW type \in {"OK", "ERROR"}
  PROVE  End(type) \in LineSet /\ End(type).type = type /\ End(type).type \notin RegTypes
  BY DEF End, Line, LineSet, Statuses, RegTypes

\* A line is added at the end.
LEMMA AddedLine ==
  ASSUME lines \in Seq(LineSet), NEW line \in LineSet, lines' = Append(lines, line), OneEnd,
         cmd' = cmd,
         \/ line.type \in RegTypes /\ (answering = "no" <=> answering' = "no")
         \/ line.type \notin RegTypes /\ answering # "no" /\ answering' = "no"
  PROVE  lines' \in Seq(LineSet) /\ OneEnd'
<1>1. lines' \in Seq(LineSet) /\ Len(lines') = Len(lines) + 1
  OBVIOUS
<1>2. ASSUME NEW i \in DOMAIN lines'
      PROVE  \/ i \in DOMAIN lines /\ lines'[i] = lines[i]
             \/ i = Len(lines) + 1 /\ lines'[i] = line
  <2>1. i \in 1 .. Len(lines) + 1 /\ DOMAIN lines = 1 .. Len(lines)
    BY <1>1
  <2>2. CASE i = Len(lines) + 1
    BY <2>2
  <2>3. CASE i # Len(lines) + 1
    <3>1. i \in 1 .. Len(lines)
      BY <2>1, <2>3
    <3>2. Append(lines, line)[i] = lines[i]
      BY <3>1
    <3>3. lines'[i] = lines[i]
      BY <3>2, Zenon
    <3>4. i \in DOMAIN lines
      BY <2>1, <3>1
    <3>. QED BY <3>3, <3>4
  <2>. QED BY <2>2, <2>3
<1>3. \A i \in DOMAIN lines' : EndAt(i)' =>
        EndAt(i) \/ (i = Len(lines) + 1 /\ line.type \notin RegTypes)
  BY <1>2 DEF EndAt
<1>. QED BY <1>1, <1>3 DEF OneEnd, EndAt

\* The first line is taken; the others move up.
LEMMA TakenLine ==
  ASSUME lines \in Seq(LineSet), Take
  PROVE  /\ NextLine \in LineSet /\ lines' \in Seq(LineSet) /\ Len(lines') = Len(lines) - 1
         /\ 1 \in DOMAIN lines /\ lines[1] = NextLine
         /\ \A i \in DOMAIN lines' : i + 1 \in DOMAIN lines /\ lines'[i] = lines[i + 1]
  BY DEF Take, NextLine

\* A registration line is taken: the end of the answer, if any, stays.
LEMMA TakenReg ==
  ASSUME lines \in Seq(LineSet), Take, OneEnd, cmd' = cmd, answering' = answering
  PROVE  OneEnd'
<1>1. \A i \in DOMAIN lines' : EndAt(i)' => EndAt(i + 1)
  BY TakenLine DEF EndAt
<1>. QED BY <1>1, TakenLine DEF OneEnd, EndAt

\* The end is taken: there is no other.
LEMMA TakenEnd ==
  ASSUME lines \in Seq(LineSet), Take, OneEnd, NextLine.type \notin RegTypes,
         answering' = answering
  PROVE  OneEnd' /\ answering = "no" /\ cmd # NoTask
<1>1. EndAt(1)
  BY TakenLine DEF EndAt
<1>2. \A i \in DOMAIN lines' : EndAt(i)' => EndAt(i + 1)
  BY TakenLine DEF EndAt
<1>3. \A i \in DOMAIN lines' : ~EndAt(i)'
  BY <1>1, <1>2, TakenLine DEF OneEnd, EndAt
<1>. QED BY <1>1, <1>3 DEF OneEnd, EndAt

\* The invariant holds when the library is opened.
LEMMA RInit == Init => RInv
<1>. SUFFICES ASSUME Init PROVE RInv
  OBVIOUS
<1>1. TypeOK
  BY RegAssumption DEF Init, TypeOK, RegAssumption, Statuses
<1>2. lines \in Seq(LineSet) /\ saved \in Seq(RegLines)
  BY DEF Init
<1>3. data \in DataSet /\ app \in AppSet
  BY DEF Init, DataSet, AppSet, Statuses
<1>4. /\ ok \in [Askers -> BOOLEAN] /\ quiet \in [Askers -> BOOLEAN]
      /\ service \in [Askers -> [filled : BOOLEAN, cs : Statuses, ps : Statuses,
                                rat : Rats \cup {NoRat}]]
  BY DEF Init, Unfilled, Statuses
<1>5. EventsTellAll
  BY DEF Init, EventsTellAll
<1>6. OneQuery /\ OneEnd
  BY DEF Init, OneQuery, OneEnd, EndAt, Sent
<1>. QED BY <1>1, <1>2, <1>3, <1>4, <1>5, <1>6 DEF RInv, Typed

\* A step of the modem keeps it.
LEMMA ModemKeeps == RInv /\ Modem => RInv'
<1>. SUFFICES ASSUME RInv, Modem PROVE RInv'
  OBVIOUS
<1>. USE DEF RInv, Typed
<1>1. ASSUME NEW type \in RegTypes, NetworkChange(type) PROVE RInv'
  <2>1. PICK stat \in Statuses, rat \in Rats :
          /\ net' = [net EXCEPT ![type] = [stat |-> stat, rat |-> rat]]
          /\ \E line \in Reports(type, TRUE, net'[type]) : lines' = Append(lines, line)
    BY <1>1 DEF NetworkChange
  <2>2. net' \in [RegTypes -> RegSet]
    BY <2>1 DEF TypeOK, RegSet
  <2>3. PICK line \in RegLines : lines' = Append(lines, line)
    BY <2>1, <2>2, ReportedLine
  <2>4. lines' \in Seq(LineSet) /\ OneEnd'
    BY <1>1, <2>3, AddedLine DEF RegLines, NetworkChange
  <2>5. quiet' \in [Askers -> BOOLEAN]
    BY <1>1 DEF NetworkChange
  <2>6. UNCHANGED <<answering, data, saved, cmd, app, stage, ok, service>>
    BY <1>1 DEF NetworkChange
  <2>. QED BY <2>2, <2>4, <2>5, <2>6 DEF TypeOK, RegSet, EventsTellAll, OneQuery, QueryType
<1>2. CASE Answer
  <2>1. UNCHANGED <<net, data, saved, cmd, app, stage, ok, service, quiet>>
        /\ answering = "asked" /\ answering' = "answered"
    BY <1>2 DEF Answer, modemVars, taskVars
  <2>2. QueryType(cmd) \in RegTypes /\ net[QueryType(cmd)] \in RegSet
    BY DEF QueryType, RegTypes, RegSet, TypeOK
  <2>3. PICK line \in Reports(QueryType(cmd), FALSE, net[QueryType(cmd)]) :
          lines' = Append(lines, line)
    BY <1>2 DEF Answer
  <2>4. line \in RegLines
    BY <2>2, ReportedLine
  <2>5. lines' \in Seq(LineSet) /\ OneEnd'
    BY <2>1, <2>3, <2>4, AddedLine DEF RegLines
  <2>. QED BY <2>1, <2>5 DEF TypeOK, EventsTellAll, OneQuery, QueryType
<1>3. CASE EndAnswer
  <2>1. UNCHANGED <<net, data, saved, cmd, app, stage, ok, service, quiet>>
        /\ answering # "no" /\ answering' = "no"
    BY <1>3 DEF EndAnswer, modemVars, taskVars
  <2>2. PICK type \in {"OK", "ERROR"} : lines' = Append(lines, End(type))
    BY <1>3 DEF EndAnswer
  <2>3. lines' \in Seq(LineSet) /\ OneEnd'
    BY <2>1, <2>2, EndLine, AddedLine
  <2>. QED BY <2>1, <2>3 DEF TypeOK, EventsTellAll, OneQuery, QueryType
<1>. QED BY <1>1, <1>2, <1>3 DEF Modem

\* The end of a query: the task goes on and what was saved is forgotten.
LEMMA DoneKeeps ==
  ASSUME RInv, NEW success \in BOOLEAN, QueryDone(success), cmd # NoTask,
         NextLine.type \notin RegTypes, Take,
         UNCHANGED <<net, answering>>, data' \in DataSet, app' \in AppSet, EventsTellAll'
  PROVE  RInv'
<1>. USE DEF RInv, Typed
<1>1. cmd \in Askers /\ stage[cmd] \in Sent
  BY DEF TypeOK, Sent
<1>2. AfterQuery(cmd, success) \in {"cgreg", "readPs", "readAll"}
  BY <1>1 DEF AfterQuery, Sent
<1>3. stage' = [stage EXCEPT ![cmd] = AfterQuery(cmd, success)] /\ cmd' = NoTask /\ saved' = <<>>
      /\ service' = service
  BY DEF QueryDone
<1>4. ok' \in [Askers -> BOOLEAN] /\ quiet' \in [Askers -> BOOLEAN]
  BY <1>1 DEF QueryDone
<1>5. TypeOK'
  BY <1>1, <1>2, <1>3 DEF TypeOK, DataSet
<1>6. lines' \in Seq(LineSet) /\ OneEnd'
  BY TakenLine, TakenEnd
<1>7. OneQuery'
  BY <1>1, <1>2, <1>3 DEF OneQuery, Sent, TypeOK
<1>. QED BY <1>3, <1>4, <1>5, <1>6, <1>7

\* A step of the reader keeps it.
LEMMA ReaderKeeps == RInv /\ Reader => RInv'
<1>. SUFFICES ASSUME RInv, Reader PROVE RInv'
  OBVIOUS
<1>. USE DEF RInv, Typed
<1>1. CASE SaveLine
  <2>1. UNCHANGED <<net, answering, data, cmd, app, stage, ok, service, quiet>> /\ Take
        /\ cmd # NoTask /\ NextLine.type \in RegTypes /\ QueryType(cmd) = NextLine.type
        /\ saved' = Append(saved, NextLine)
    BY <1>1 DEF SaveLine, modemVars, taskVars
  <2>2. lines' \in Seq(LineSet) /\ NextLine \in RegLines /\ OneEnd'
    BY <2>1, TakenLine, TakenReg DEF RegLines
  <2>3. saved' \in Seq(RegLines) /\ Len(saved') = Len(saved) + 1
    BY <2>1, <2>2
  <2>4. ASSUME NEW i \in DOMAIN saved'
        PROVE  (i \in DOMAIN saved /\ saved'[i] = saved[i]) \/ saved'[i] = NextLine
    <3>1. i \in 1 .. Len(saved) + 1 /\ DOMAIN saved = 1 .. Len(saved)
      BY <2>3
    <3>. QED BY <2>1, <3>1
  <2>5. OneQuery'
    BY <2>1, <2>4 DEF OneQuery, QueryType
  <2>. QED BY <2>1, <2>2, <2>3, <2>5 DEF TypeOK, EventsTellAll
<1>2. CASE UrcProcess
  <2>. DEFINE s == [data |-> data, app |-> app]
  <2>1. UNCHANGED <<net, answering, saved, cmd, stage, ok, service, quiet>> /\ Take
        /\ NextLine.type \in RegTypes
        /\ data' = Handled(s, NextLine).data /\ app' = Handled(s, NextLine).app
    BY <1>2 DEF UrcProcess, modemVars, taskVars
  <2>2. lines' \in Seq(LineSet) /\ NextLine \in RegLines /\ OneEnd'
    BY <2>1, TakenLine, TakenReg DEF RegLines
  <2>3. Handled(s, NextLine) \in StateSet /\ Tells(Handled(s, NextLine))
    BY <2>2, HandledLine DEF Tells, EventsTellAll
  <2>4. data' \in DataSet /\ app' \in AppSet /\ EventsTellAll'
    BY <2>1, <2>3 DEF Tells, EventsTellAll, StateSet
  <2>. QED BY <2>1, <2>2, <2>4 DEF TypeOK, DataSet, OneQuery, QueryType
<1>3. CASE FinishAnswer
  <2>1. HandledSaved \in StateSet /\ Tells(HandledSaved)
    BY SavedHandled DEF Tells, EventsTellAll, Begun
  <2>2. data' \in DataSet /\ app' \in AppSet /\ EventsTellAll' /\ HandledSaved.ok \in BOOLEAN
    BY <1>3, <2>1 DEF FinishAnswer, Tells, EventsTellAll, StateSet
  <2>3. Take /\ NextLine.type \notin RegTypes /\ QueryDone(HandledSaved.ok)
        /\ UNCHANGED <<net, answering>>
    BY <1>3 DEF FinishAnswer, RegTypes, modemVars
  <2>4. cmd # NoTask
    BY <2>3, TakenEnd
  <2>. QED BY <2>2, <2>3, <2>4, DoneKeeps
<1>4. CASE RefusedAnswer
  <2>1. Take /\ NextLine.type \notin RegTypes /\ QueryDone(FALSE)
        /\ UNCHANGED <<net, answering, data, app>>
    BY <1>4 DEF RefusedAnswer, RegTypes, modemVars
  <2>2. cmd # NoTask
    BY <2>1, TakenEnd
  <2>. QED BY <2>1, <2>2, DoneKeeps DEF EventsTellAll
<1>. QED BY <1>1, <1>2, <1>3, <1>4 DEF Reader

\* A step of a task keeps it.
LEMMA TaskKeeps ==
  ASSUME RInv, NEW t \in Askers, Task(t)
  PROVE  RInv'
<1>. USE DEF RInv, Typed
<1>1. ASSUME NEW from, NEW to \in {"idle", "creg", "cereg", "readAll", "returned"},
             TaskStep(t, from, to), from \notin Sent, UNCHANGED <<lines, answering, cmd>>
      PROVE  TypeOK' /\ lines' \in Seq(LineSet) /\ saved' \in Seq(RegLines)
             /\ data' \in DataSet /\ app' \in AppSet /\ EventsTellAll' /\ OneQuery' /\ OneEnd'
  <2>1. UNCHANGED <<net, data, saved, app>> /\ stage[t] \notin Sent
        /\ stage' = [stage EXCEPT ![t] = to]
    BY <1>1 DEF TaskStep, modemVars
  <2>2. TypeOK'
    BY <1>1, <2>1 DEF TypeOK, Sent
  <2>3. OneQuery'
    BY <1>1, <2>1 DEF OneQuery, QueryType, TypeOK, Sent
  <2>4. OneEnd'
    BY <1>1 DEF OneEnd, EndAt
  <2>. QED BY <1>1, <2>1, <2>2, <2>3, <2>4 DEF EventsTellAll
<1>2. CASE GetServiceStatus(t)
  <2>1. TaskStep(t, "idle", "creg") /\ UNCHANGED <<lines, answering, cmd>>
    BY <1>2 DEF GetServiceStatus
  <2>2. ok' \in [Askers -> BOOLEAN] /\ quiet' \in [Askers -> BOOLEAN]
        /\ service' \in [Askers -> [filled : BOOLEAN, cs : Statuses, ps : Statuses,
                                   rat : Rats \cup {NoRat}]]
    BY <1>2 DEF GetServiceStatus, Unfilled, Statuses
  <2>. QED BY <1>1, <2>1, <2>2 DEF Sent
<1>3. CASE SendQuery(t)
  <2>1. cmd = NoTask /\ cmd' = t /\ answering = "no" /\ answering' = "asked"
        /\ UNCHANGED <<net, data, saved, app, lines, ok, service, quiet>>
    BY <1>3 DEF SendQuery, TaskStep, modemVars, taskVars
  <2>2. PICK to \in Sent : stage' = [stage EXCEPT ![t] = to]
    BY <1>3 DEF SendQuery, TaskStep, Sent
  <2>3. TypeOK'
    BY <2>1, <2>2 DEF TypeOK, Sent
  <2>4. OneQuery'
    BY RegAssumption, <2>1, <2>2 DEF OneQuery, TypeOK, RegAssumption
  <2>5. OneEnd'
    BY RegAssumption, <2>1 DEF OneEnd, EndAt, RegAssumption
  <2>. QED BY <2>1, <2>3, <2>4, <2>5 DEF EventsTellAll
<1>4. CASE ReadPs(t)
  <2>1. TaskStep(t, "readPs", IF AsksCereg(t) THEN "cereg" ELSE "readAll")
        /\ UNCHANGED <<lines, answering, cmd, ok, service, quiet>>
    BY <1>4 DEF ReadPs, taskVars
  <2>. QED BY <1>1, <2>1 DEF Sent
<1>5. CASE ReadAll(t)
  <2>1. TaskStep(t, "readAll", "returned") /\ UNCHANGED <<lines, answering, cmd, ok, quiet>>
    BY <1>5 DEF ReadAll
  <2>2. service' \in [Askers -> [filled : BOOLEAN, cs : Statuses, ps : Statuses,
                               rat : Rats \cup {NoRat}]]
    BY <1>5 DEF ReadAll, DataSet
  <2>. QED BY <1>1, <2>1, <2>2 DEF Sent
<1>6. CASE Return(t)
  <2>1. TaskStep(t, "returned", "idle")
        /\ UNCHANGED <<lines, answering, cmd, ok, service, quiet>>
    BY <1>6 DEF Return, taskVars
  <2>. QED BY <1>1, <2>1 DEF Sent
<1>. QED BY <1>2, <1>3, <1>4, <1>5, <1>6 DEF Task

\* The invariant holds in every state.
LEMMA RegInvariant == Spec => []RInv
<1>1. RInv /\ [Next]_vars => RInv'
  <2>. SUFFICES ASSUME RInv, [Next]_vars PROVE RInv'
    OBVIOUS
  <2>1. CASE UNCHANGED vars
    BY <2>1 DEF vars, RInv, Typed, TypeOK, EventsTellAll, OneQuery, OneEnd, EndAt, QueryType
  <2>2. CASE Still
    BY <2>1, <2>2 DEF Still
  <2>. QED BY <2>1, <2>2, ModemKeeps, ReaderKeeps, TaskKeeps DEF Next
<1>. QED BY <1>1, RInit, PTL DEF Spec

\* The registration data, the statuses the application knows, the queries and the answers
\* to them stay in their types.
THEOREM RegistrationTypes == Spec => []TypeOK
<1>1. RInv => TypeOK
  BY DEF RInv, Typed
<1>. QED BY <1>1, RegInvariant, PTL

\* An application that follows the events knows csRegStatus and psRegStatus at any time,
\* whichever line and whichever path changed them.
THEOREM EventsTell == Spec => []EventsTellAll
<1>1. RInv => EventsTellAll
  BY DEF RInv
<1>. QED BY <1>1, RegInvariant, PTL

-----------------------------------------------------------------------------
(* Sequences of lines.                                                        *)

\* n, the number before it and the one after it differ.
LEMMA Neighbours == \A n \in Nat : n - 1 # n /\ n + 1 # n /\ n - 1 # n + 1
  OBVIOUS

\* A sequence without its first member is neither the sequence nor a longer one.
LEMMA TailIsShorter ==
  ASSUME NEW S, NEW s \in Seq(S), s # <<>>
  PROVE  Tail(s) # s /\ \A e : Tail(s) # Append(s, e)
<1>1. Len(Tail(s)) = Len(s) - 1 /\ Len(s) \in Nat
  OBVIOUS
<1>2. Len(Tail(s)) # Len(s)
  BY <1>1, Neighbours, Zenon
<1>3. ASSUME NEW e PROVE Len(Append(s, e)) = Len(s) + 1
  <2>1. s \in Seq(S \cup {e})
    OBVIOUS
  <2>. QED BY <2>1
<1>4. \A e : Len(Append(s, e)) # Len(Tail(s))
  BY <1>1, <1>3, Neighbours, Zenon
<1>. QED BY <1>2, <1>4, Zenon

\* Adding to a sequence of at most one member.
LEMMA ShortAppend ==
  ASSUME NEW S, NEW e \in S
  PROVE  Append(<<>>, e) = <<e>> /\ \A l \in S : Append(<<l>>, e) = <<l, e>>
<1>1. Append(<<>>, e) = <<e>>
  OBVIOUS
<1>2. ASSUME NEW l \in S PROVE Append(<<l>>, e) = <<l, e>>
  <2>. DEFINE a == Append(<<l>>, e)
              b == <<l, e>>
  <2>1. <<l>> \in Seq(S) /\ Len(<<l>>) = 1
    OBVIOUS
  <2>2. a \in Seq(S) /\ Len(a) = 2
    BY <2>1
  <2>3. b \in Seq(S) /\ Len(b) = 2
    OBVIOUS
  <2>4. \A i \in 1 .. 2 : a[i] = b[i]
    BY <2>1
  <2>. HIDE DEF a, b
  <2>5. a = b
    BY <2>2, <2>3, <2>4, SeqEqual
  <2>. QED BY <2>5 DEF a, b
<1>. QED BY <1>1, <1>2

-----------------------------------------------------------------------------
(* The domains are apart.                                                     *)

\* A step that takes a line is one of the reader.
LEMMA OnlyReaderTakes ==
  ASSUME RInv, [Next]_vars, lines # <<>>, lines' = Tail(lines)
  PROVE  Reader
<1>1. lines' # lines /\ \A line : lines' # Append(lines, line)
  BY TailIsShorter DEF RInv, Typed
<1>2. ~(UNCHANGED vars) /\ ~Still
  BY <1>1 DEF vars, Still
<1>3. ~Modem
  BY <1>1 DEF Modem, NetworkChange, Answer, EndAnswer
<1>4. \A t \in Askers : ~Task(t)
  BY <1>1 DEF Task, GetServiceStatus, SendQuery, ReadPs, ReadAll, Return
<1>. QED BY <1>2, <1>3, <1>4 DEF Next

\* A line about one domain, alone or among those of an answer, leaves the status and the
\* reject cause of the other as they were: the lines of an answer are all of the type asked.
THEOREM DomainsStayApart == Spec => DomainsApart
<1>1. RInv /\ [Next]_vars => [lines # <<>> /\ lines' = Tail(lines) => OtherKept]_vars
  <2>. SUFFICES ASSUME RInv, [Next]_vars, lines # <<>>, lines' = Tail(lines) PROVE OtherKept
    OBVIOUS
  <2>1. Reader
    BY OnlyReaderTakes
  <2>. USE DEF RInv, Typed
  <2>2. CASE SaveLine \/ RefusedAnswer
    BY <2>2 DEF SaveLine, RefusedAnswer, OtherKept
  <2>3. CASE UrcProcess
    <3>. DEFINE s == [data |-> data, app |-> app]
    <3>1. NextLine \in RegLines /\ TakenType = NextLine.type
      BY <2>3, TakenLine DEF UrcProcess, RegLines, TakenType
    <3>2. s.data = data /\ s.app = app
      OBVIOUS
    <3>3. data' = Handled(s, NextLine).data
      BY <2>3 DEF UrcProcess
    <3>. HIDE DEF s
    <3>4. Apart(NextLine.type, Handled(s, NextLine), s.data)
      BY <3>1, <3>2, HandledLine
    <3>. QED BY <3>1, <3>2, <3>3, <3>4 DEF Apart, OtherKept
  <2>4. CASE FinishAnswer
    <3>1. NextLine.type \notin RegTypes /\ data' = HandledSaved.data
      BY <2>4 DEF FinishAnswer, RegTypes
    <3>2. TakenType = QueryType(cmd) /\ \A i \in DOMAIN saved : saved[i].type = QueryType(cmd)
      BY <3>1 DEF OneQuery, TakenType
    <3>3. Apart(QueryType(cmd), HandledSaved, data)
      BY <3>2, SavedHandled
    <3>. QED BY <3>1, <3>2, <3>3 DEF Apart, OtherKept
  <2>. QED BY <2>1, <2>2, <2>3, <2>4 DEF Reader
<1>. QED BY <1>1, RegInvariant, PTL DEF DomainsApart, Spec

-----------------------------------------------------------------------------
(* A quiet query.                                                             *)

\* The type of a query stays as long as the task waits.
LEMMA QueryStays == ASSUME stage' = stage, NEW t PROVE QueryType(t)' = QueryType(t)
  BY DEF QueryType

\* Steps of the modem.
LEMMA ModemQuiet ==
  ASSUME OneTask, RInv, QInv, NEW t \in Askers, Modem
  PROVE  QuietCall(t)' /\ RightFor(t)'
<1>. USE DEF RInv, Typed
<1>1. ASSUME NEW type \in RegTypes, NetworkChange(type) PROVE QuietCall(t)' /\ RightFor(t)'
  BY <1>1 DEF NetworkChange, QuietCall, RightFor
<1>2. CASE Answer
  <2>1. UNCHANGED <<net, data, saved, cmd, app, stage, ok, service, quiet>>
        /\ answering = "asked" /\ answering' = "answered"
    BY <1>2 DEF Answer, modemVars, taskVars
  <2>2. cmd = t /\ stage[t] \in Sent
    BY <2>1 DEF OneTask, OneEnd, TypeOK, Sent
  <2>3. QueryType(t) \in RegTypes /\ net[QueryType(t)] \in RegSet
    BY DEF QueryType, RegTypes, RegSet, TypeOK
  <2>4. PICK line \in Reports(QueryType(t), FALSE, net[QueryType(t)]) :
          lines' = Append(lines, line)
    BY <1>2, <2>2 DEF Answer
  <2>5. line \in RegLines /\ line.type = QueryType(t) /\ ~line.urc
        /\ line.stat = net[QueryType(t)].stat
    <3>1. line \in ReadLines(QueryType(t), net[QueryType(t)])
      BY <2>4, Zenon DEF ReadLines
    <3>. HIDE DEF RInv
    <3>. QED BY <2>3, <3>1, ReadLine
  <2>6. QuietCall(t)'
    <3>. SUFFICES ASSUME quiet[t] PROVE QuietCall(t)'
      BY <2>1 DEF QuietCall
    <3>1. AnswerOf(t) /\ ok[t] /\ RightSoFar(t)
      BY <2>2 DEF QInv, QuietCall, Sent
    <3>2. lines = <<>> /\ saved = <<>>
      BY <2>1, <3>1 DEF AnswerOf
    <3>3. lines' = <<line>>
      BY <2>4, <3>2
    <3>4. RightLine(line, t)'
      BY <2>1, <2>5, QueryStays DEF RightLine
    <3>5. AnswerOf(t)'
      BY <2>1, <2>5, <3>2, <3>3, <3>4 DEF AnswerOf
    <3>. QED BY <2>1, <2>2, <3>1, <3>5 DEF QuietCall, RightSoFar, SomePs
  <2>7. RightFor(t)'
    BY <2>1 DEF QInv, RightFor, SomePs
  <2>. QED BY <2>6, <2>7
<1>3. CASE EndAnswer
  <2>1. UNCHANGED <<net, data, saved, cmd, app, stage, ok, service, quiet>>
        /\ answering # "no" /\ answering' = "no"
    BY <1>3 DEF EndAnswer, modemVars, taskVars
  <2>2. cmd = t /\ stage[t] \in Sent
    BY <2>1 DEF OneTask, OneEnd, TypeOK, Sent
  <2>3. QuietCall(t)'
    <3>. SUFFICES ASSUME quiet[t] PROVE QuietCall(t)'
      BY <2>1 DEF QuietCall
    <3>1. AnswerOf(t) /\ ok[t] /\ RightSoFar(t)
      BY <2>2 DEF QInv, QuietCall, Sent
    <3>2. ASSUME answering = "answered" PROVE AnswerOf(t)'
      <4>1. lines' = Append(lines, End("OK"))
        BY <1>3, <3>2 DEF EndAnswer
      <4>2. PICK line \in RegLines : /\ RightLine(line, t)
                                     /\ \/ lines = <<line>> /\ saved = <<>>
                                        \/ lines = <<>> /\ saved = <<line>>
        BY <3>1, <3>2 DEF AnswerOf
      <4>3. RightLine(line, t)'
        BY <2>1, <4>2, QueryStays DEF RightLine
      <4>4. \/ lines' = <<line, End("OK")>> /\ saved' = <<>>
            \/ lines' = <<End("OK")>> /\ saved' = <<line>>
        <5>1. line \in LineSet /\ End("OK") \in LineSet
          BY EndLine DEF RegLines
        <5>2. lines = <<line>> \/ lines = <<>>
          BY <4>2
        <5>3. /\ Append(<<line>>, End("OK")) = <<line, End("OK")>>
              /\ Append(<<>>, End("OK")) = <<End("OK")>>
          BY <5>1, ShortAppend
        <5>. QED BY <2>1, <4>1, <4>2, <5>3
      <4>. QED BY <2>1, <4>3, <4>4 DEF AnswerOf
    <3>3. ASSUME answering = "asked" PROVE AnswerOf(t)'
      <4>1. lines = <<>> /\ saved = <<>>
        BY <3>1, <3>3 DEF AnswerOf
      <4>2. lines' = <<End("ERROR")>>
        BY <1>3, <3>3, <4>1 DEF EndAnswer
      <4>. QED BY <2>1, <4>1, <4>2 DEF AnswerOf
    <3>4. AnswerOf(t)'
      BY <1>3, <3>2, <3>3 DEF EndAnswer
    <3>. QED BY <2>1, <2>2, <3>1, <3>4 DEF QuietCall, RightSoFar, SomePs
  <2>4. RightFor(t)'
    BY <2>1 DEF QInv, RightFor, SomePs
  <2>. QED BY <2>3, <2>4
<1>. QED BY <1>1, <1>2, <1>3 DEF Modem

\* Steps of the reader.
LEMMA ReaderQuiet ==
  ASSUME OneTask, RInv, QInv, NEW t \in Askers, Reader
  PROVE  QuietCall(t)' /\ RightFor(t)'
<1>1. lines # <<>> /\ lines' = Tail(lines)
  BY DEF Reader, SaveLine, UrcProcess, FinishAnswer, RefusedAnswer, Take
<1>2. stage[t] \in Sent => cmd = t
  BY DEF RInv, OneQuery
<1>3. quiet[t] /\ stage[t] # "idle" => stage[t] \in Sent /\ AnswerOf(t) /\ ok[t] /\ RightSoFar(t)
  BY <1>1 DEF QInv, QuietCall
<1>4. CASE SaveLine
  <2>1. UNCHANGED <<net, answering, data, cmd, app, stage, ok, service, quiet>>
        /\ NextLine.type \in RegTypes /\ saved' = Append(saved, NextLine)
    BY <1>4 DEF SaveLine, modemVars, taskVars
  <2>2. ASSUME quiet[t], stage[t] # "idle" PROVE AnswerOf(t)'
    <3>1. \A type \in {"OK", "ERROR"} : lines # <<End(type)>>
      BY <2>1, EndLine DEF NextLine
    <3>2. PICK line \in RegLines :
            /\ RightLine(line, t) /\ saved = <<>>
            /\ \/ answering = "answered" /\ lines = <<line>>
               \/ answering = "no" /\ lines = <<line, End("OK")>>
      BY <1>1, <1>3, <2>2, <3>1 DEF AnswerOf
    <3>3. line \in LineSet /\ End("OK") \in LineSet
      BY EndLine DEF RegLines
    <3>4. NextLine = line /\ saved' = <<line>>
      BY <2>1, <3>2, <3>3 DEF NextLine
    <3>5. \/ answering' = "answered" /\ lines' = <<>>
          \/ answering' = "no" /\ lines' = <<End("OK")>>
      <4>1. Tail(<<line>>) = <<>> /\ Tail(<<line, End("OK")>>) = <<End("OK")>>
        BY <3>3
      <4>. QED BY <1>1, <2>1, <3>2, <4>1
    <3>6. RightLine(line, t)'
      BY <2>1, <3>2, QueryStays DEF RightLine
    <3>. QED BY <3>4, <3>5, <3>6 DEF AnswerOf
  <2>3. QuietCall(t)'
    BY <1>3, <2>1, <2>2 DEF QuietCall, RightSoFar, SomePs
  <2>4. RightFor(t)'
    BY <2>1 DEF QInv, RightFor, SomePs
  <2>. QED BY <2>3, <2>4
<1>5. CASE UrcProcess
  <2>1. UNCHANGED <<stage, quiet>> /\ NextLine.type \in RegTypes
        /\ (cmd # NoTask => QueryType(cmd) # NextLine.type)
    BY <1>5 DEF UrcProcess, taskVars
  <2>2. ~(quiet[t] /\ stage[t] # "idle")
    <3>. SUFFICES ASSUME quiet[t], stage[t] # "idle" PROVE FALSE
      OBVIOUS
    <3>1. cmd = t /\ cmd # NoTask /\ AnswerOf(t)
      BY <1>2, <1>3, RegAssumption DEF RegAssumption
    <3>2. \A type \in {"OK", "ERROR"} : lines # <<End(type)>>
      BY <2>1, EndLine DEF NextLine
    <3>3. PICK line \in RegLines :
            RightLine(line, t) /\ (lines = <<line>> \/ lines = <<line, End("OK")>>)
      BY <1>1, <3>1, <3>2 DEF AnswerOf
    <3>4. NextLine = line
      BY <3>3 DEF NextLine
    <3>. QED BY <2>1, <3>1, <3>3, <3>4 DEF RightLine
  <2>. QED BY <2>1, <2>2 DEF QuietCall, RightFor
<1>6. CASE FinishAnswer
  <2>1. cmd # NoTask
    BY <1>6, TakenEnd DEF RInv, Typed, FinishAnswer, RegTypes
  <2>2. cmd = t /\ stage[t] \in Sent
    BY <2>1 DEF OneTask, RInv, Typed, TypeOK, Sent
  <2>. DEFINE success == HandledSaved.ok
  <2>3. /\ stage' = [stage EXCEPT ![t] = AfterQuery(t, success)]
        /\ ok' = [ok EXCEPT ![t] = IF stage[t] = "cgregSent" THEN ok[t] ELSE success]
        /\ quiet' = [quiet EXCEPT ![t] = quiet[t] /\ success]
        /\ service' = service /\ net' = net /\ data' = HandledSaved.data
    BY <1>6, <2>2, Zenon DEF FinishAnswer, QueryDone, modemVars
  <2>4. stage'[t] = AfterQuery(t, success)
        /\ ok'[t] = (IF stage[t] = "cgregSent" THEN ok[t] ELSE success)
    BY <2>3, Zenon DEF RInv, Typed, TypeOK
  <2>5. quiet'[t] = (quiet[t] /\ success)
    BY <2>3, Zenon DEF RInv, Typed
  <2>6. ASSUME quiet'[t] PROVE QuietCall(t)'
    <3>1. quiet[t] /\ success
      BY <2>5, <2>6
    <3>2. AnswerOf(t) /\ ok[t] /\ RightSoFar(t)
      BY <1>3, <2>2, <3>1 DEF Sent
    <3>3. NextLine.type = "OK" /\ End("ERROR").type = "ERROR"
      BY <1>6 DEF FinishAnswer, End, Line
    <3>4. PICK line \in RegLines :
            RightLine(line, t) /\ lines = <<End("OK")>> /\ saved = <<line>>
      <4>1. lines # <<End("ERROR")>>
        BY <3>3 DEF NextLine
      <4>2. \A line \in RegLines : lines # <<line>> /\ lines # <<line, End("OK")>>
        BY <3>3 DEF NextLine, RegLines, RegTypes
      <4>. QED BY <1>1, <3>2, <4>1, <4>2 DEF AnswerOf
    <3>5. data \in DataSet /\ app \in AppSet
      BY DEF RInv, Typed
    <3>6. HandledSaved = Handled(Begun, line)
      <4>1. HandledSaved = HandledNext(Begun, line)
        BY <3>4, <3>5, OneSaved
      <4>2. Begun.ok /\ ~Misread(line)
        BY <3>4 DEF Begun, Misread, RightLine
      <4>. QED BY <4>1, <4>2 DEF HandledNext
    <3>7. data' = LineParsed(data, line)
      <4>1. Begun.data = data /\ Begun.app = app
        BY DEF Begun
      <4>. QED BY <2>3, <3>5, <3>6, <4>1, HandledLine
    <3>8. line.type = QueryType(t) /\ line.stat = net[QueryType(t)].stat
      BY <3>4 DEF RightLine
    <3>9. lines' = <<>>
      BY <1>1, <3>4
    <3>10. CASE stage[t] = "cregSent"
      <4>1. stage'[t] = "cgreg" /\ ok'[t]
        BY <2>4, <3>1, <3>10 DEF AfterQuery
      <4>2. data'.cs = net["CREG"].stat
        BY <3>5, <3>7, <3>8, <3>10, ParsedFields DEF QueryType
      <4>. QED BY <2>3, <3>9, <4>1, <4>2 DEF QuietCall, RightSoFar, Sent
    <3>11. CASE stage[t] = "cgregSent"
      <4>1. stage'[t] = "readPs" /\ ok'[t]
        BY <2>4, <3>2, <3>11 DEF AfterQuery
      <4>2. data'.cs = data.cs /\ data'.ps = net["CGREG"].stat
        BY <3>5, <3>7, <3>8, <3>11, ParsedFields DEF QueryType
      <4>. QED BY <2>3, <3>2, <3>9, <3>11, <4>1, <4>2 DEF QuietCall, RightSoFar, Sent
    <3>12. CASE stage[t] = "ceregSent"
      <4>1. stage'[t] = "readAll" /\ ok'[t]
        BY <2>4, <3>1, <3>12 DEF AfterQuery
      <4>2. data'.cs = data.cs /\ data'.ps = net["CEREG"].stat
        BY <3>5, <3>7, <3>8, <3>12, ParsedFields DEF QueryType
      <4>3. Registered(data'.ps) <=> SomePs
        BY <3>2, <3>12, <4>2 DEF RightSoFar, SomePs
      <4>. QED BY <2>3, <3>2, <3>9, <3>12, <4>1, <4>2, <4>3
           DEF QuietCall, RightSoFar, Sent, SomePs
    <3>. QED BY <2>2, <3>10, <3>11, <3>12 DEF Sent
  <2>7. RightFor(t)'
    BY <2>2, <2>4 DEF RightFor, AfterQuery, Sent
  <2>. QED BY <2>6, <2>7 DEF QuietCall
<1>7. CASE RefusedAnswer
  <2>1. cmd # NoTask
    BY <1>7, TakenEnd DEF RInv, Typed, RefusedAnswer, RegTypes
  <2>2. cmd = t
    BY <2>1 DEF OneTask, RInv, Typed, TypeOK
  <2>3. quiet' = [quiet EXCEPT ![t] = quiet[t] /\ FALSE]
    BY <1>7, <2>2, Zenon DEF RefusedAnswer, QueryDone
  <2>4. quiet'[t] = (quiet[t] /\ FALSE)
    BY <2>3, Zenon DEF RInv, Typed
  <2>5. ~quiet'[t]
    BY <2>4
  <2>. QED BY <2>5 DEF QuietCall, RightFor
<1>. QED BY <1>4, <1>5, <1>6, <1>7 DEF Reader

\* Steps of the task.
LEMMA TaskQuiet ==
  ASSUME OneTask, RInv, QInv, NEW t \in Askers, Task(t)
  PROVE  QuietCall(t)' /\ RightFor(t)'
<1>1. UNCHANGED <<net, data, saved>> /\ lines' = lines
  BY DEF Task, GetServiceStatus, SendQuery, ReadPs, ReadAll, Return, TaskStep, modemVars
<1>2. stage \in [Askers -> {"idle", "creg", "cregSent", "cgreg", "cgregSent", "readPs",
                      "cereg", "ceregSent", "readAll", "returned"}]
      /\ ok \in [Askers -> BOOLEAN] /\ quiet \in [Askers -> BOOLEAN]
      /\ service \in [Askers -> [filled : BOOLEAN, cs : Statuses, ps : Statuses,
                                rat : Rats \cup {NoRat}]]
  BY DEF RInv, Typed, TypeOK
<1>3. \A from, to : TaskStep(t, from, to) => stage[t] = from /\ stage'[t] = to
  BY <1>2 DEF TaskStep
<1>4. CASE GetServiceStatus(t)
  <2>1. stage'[t] = "creg"
    BY <1>3, <1>4 DEF GetServiceStatus
  <2>2. ok' = [ok EXCEPT ![t] = TRUE] /\ quiet' = [quiet EXCEPT ![t] = lines = <<>>]
    BY <1>4 DEF GetServiceStatus
  <2>3. ok'[t] = TRUE /\ quiet'[t] = (lines = <<>>)
    BY <1>2, <2>2, Zenon
  <2>. QED BY <1>1, <2>1, <2>3 DEF QuietCall, RightFor, RightSoFar, Sent
<1>5. CASE SendQuery(t)
  <2>1. UNCHANGED <<ok, service, quiet>> /\ cmd = NoTask /\ answering' = "asked"
    BY <1>5 DEF SendQuery, taskVars
  <2>2. \/ stage[t] = "creg" /\ stage'[t] = "cregSent"
        \/ stage[t] = "cgreg" /\ stage'[t] = "cgregSent"
        \/ stage[t] = "cereg" /\ stage'[t] = "ceregSent"
    BY <1>3, <1>5 DEF SendQuery
  <2>3. saved' = <<>>
    BY <1>1, <2>1 DEF RInv, OneQuery
  <2>4. ASSUME quiet[t] PROVE ok[t] /\ lines = <<>> /\ RightSoFar(t)
    BY <2>2, <2>4 DEF QInv, QuietCall, Sent
  <2>. QED BY <1>1, <2>1, <2>2, <2>3, <2>4
       DEF QuietCall, RightFor, AnswerOf, RightSoFar, SomePs, Sent
<1>6. CASE ReadPs(t)
  <2>1. UNCHANGED <<ok, service, quiet>> /\ stage[t] = "readPs"
        /\ stage'[t] = IF AsksCereg(t) THEN "cereg" ELSE "readAll"
    BY <1>3, <1>6 DEF ReadPs, taskVars
  <2>2. ASSUME quiet[t] PROVE ok[t] /\ lines = <<>> /\ RightSoFar(t)
    BY <2>1, <2>2 DEF QInv, QuietCall, Sent
  <2>. QED BY <1>1, <2>1, <2>2 DEF QuietCall, RightFor, RightSoFar, SomePs, Sent, AsksCereg
<1>7. CASE ReadAll(t)
  <2>1. UNCHANGED <<ok, quiet>> /\ stage[t] = "readAll" /\ stage'[t] = "returned"
    BY <1>3, <1>7 DEF ReadAll
  <2>2. ASSUME quiet[t] PROVE ok[t] /\ lines = <<>> /\ RightSoFar(t)
    BY <2>1, <2>2 DEF QInv, QuietCall, Sent
  <2>3. ASSUME quiet[t] PROVE service'[t].cs = data.cs /\ service'[t].ps = data.ps
    BY <1>2, <1>7, <2>2, <2>3 DEF ReadAll
  <2>. QED BY <1>1, <2>1, <2>2, <2>3 DEF QuietCall, RightFor, RightSoFar, SomePs, Sent
<1>8. CASE Return(t)
  <2>1. stage'[t] = "idle"
    BY <1>3, <1>8 DEF Return
  <2>. QED BY <2>1 DEF QuietCall, RightFor
<1>. QED BY <1>4, <1>5, <1>6, <1>7, <1>8 DEF Task

\* With one task asking, a service status asked for while nothing changes is that of the
\* modem, though three answers and the two domains go through the same data.
THEOREM QuietQuery == OneTask => (Spec => []QuietQueryIsRight)
<1>. SUFFICES ASSUME OneTask PROVE Spec => []QuietQueryIsRight
  OBVIOUS
<1>1. Init => QInv
  BY DEF Init, QInv, QuietCall, RightFor
<1>2. RInv /\ QInv /\ [Next]_vars => QInv'
  <2>. SUFFICES ASSUME RInv, QInv, [Next]_vars, NEW t \in Askers
                PROVE  QuietCall(t)' /\ RightFor(t)'
    BY DEF QInv
  <2>1. CASE UNCHANGED vars
    BY <2>1, QueryStays
       DEF vars, QInv, QuietCall, RightFor, AnswerOf, RightLine, RightSoFar, SomePs
  <2>2. CASE Still
    BY <2>1, <2>2 DEF Still
  <2>3. ASSUME NEW u \in Askers, Task(u) PROVE Task(t)
    BY <2>3 DEF OneTask
  <2>. QED BY <2>1, <2>2, <2>3, ModemQuiet, ReaderQuiet, TaskQuiet DEF Next
<1>3. QInv => QuietQueryIsRight
  BY DEF QInv, RightFor, QuietQueryIsRight, SomePs
<1>. QED BY <1>1, <1>2, <1>3, RegInvariant, PTL DEF Spec

=============================================================================
