---------------------------- MODULE UrcDispatch ----------------------------
(***************************************************************************)
(* The dispatch of an unsolicited line: the module port's table of         *)
(* prefixes and handlers, searched by the reader (cellular_pkthandler.c),  *)
(* and the callbacks of the application, registered by its tasks under     *)
(* PktRespMutex (cellular_common_api.c, cellular_common.c) and called by   *)
(* the reader without it.                                                  *)
(*                                                                         *)
(* The five event callbacks are registered and called alike, and so are    *)
(* the two of the module port: "generic" stands for the ones and           *)
(* "undefined" for the others.  A callback is the task that registered it. *)
(***************************************************************************)
EXTENDS AtCore

CONSTANTS
  Registrars,       \* tasks that register callbacks
  NoRegistrar,      \* NULL, as a callback or a context
  Letters,          \* the characters, in the order of their codes
  Tables,           \* the tables a port may come with: [name, handled]
  Lines,            \* the lines the modem may send
  MaxUrcLines,      \* bound on the lines
  MaxRegistrations  \* bound on the registrations

Texts == Seq(ToSet(Letters))

ASSUME DispatchAssumption ==
  /\ NoRegistrar \notin Registrars /\ MaxUrcLines \in Nat /\ MaxRegistrations \in Nat
  /\ Letters \in Seq(STRING) /\ IsInjective(Letters)
  /\ Lines \subseteq Texts
  /\ Tables \subseteq Seq([name : Texts, handled : BOOLEAN])

Kinds == {"generic", "undefined"}
Nothing == [f |-> NoRegistrar, ctx |-> NoRegistrar]

VARIABLES
  urcTable,     \* pCellularUrcHandlerTable
  reader,    \* closed, idle, or where the reader is with a line
  line,      \* the line it has
  handled,   \* what became of the line: the handler and what it got, or none
  kind,      \* the callback it is about to call
  checked,   \* the callback as it was when it was found not to be NULL
  called,    \* the last callback called, and its context
  alone,     \* no registration of that kind since the reader took the line
  cb,        \* the callbacks and their contexts
  respMutex, \* the task that holds PktRespMutex
  regPc,     \* where the tasks are with a registration
  regArg,    \* the kind and the callback it registers
  urcLines, registrations  \* how many so far

lineVars == <<line, handled, kind, checked, called>>
cbVars == <<cb, respMutex, regPc, regArg, registrations>>
dispatchVars == <<urcTable, reader, lineVars, alone, cbVars, urcLines>>

-----------------------------------------------------------------------------
(* The table.                                                              *)

Code(c) == CHOOSE i \in DOMAIN Letters : Letters[i] = c

\* strncmp of what both have.
CompareCommon(a, b) ==
  LET differ == {i \in 1 .. Min({Len(a), Len(b)}) : a[i] # b[i]} IN
  IF differ = {} THEN 0
  ELSE IF Code(a[Min(differ)]) < Code(b[Min(differ)]) THEN -1 ELSE 1

\* Mutant: a token that begins like a prefix is taken for it.
SearchComparePrefix(a, b) == CompareCommon(a, b)

\* _searchCompareFunc, and _sortCompareFunc which is the same: the longer is greater
\* if one begins like the other.
SearchCompare(a, b) ==
  IF CompareCommon(a, b) # 0 \/ Len(a) = Len(b) THEN CompareCommon(a, b)
  ELSE IF Len(a) > Len(b) THEN 1 ELSE -1

\* _Cellular_AtParseInit: the table is strictly increasing.
AtParseInit(t) ==
  t # <<>> /\ \A i \in 1 .. Len(t) - 1 : SearchCompare(t[i].name, t[i + 1].name) < 0

\* bsearch, between lo and hi: the entry found, or 0.
Bsearch(t, tok) ==
  LET places == 1 .. Len(t) + 1
      search[p \in places \X places] ==
        IF p[1] >= p[2] THEN 0
        ELSE LET mid == (p[1] + p[2]) \div 2
                 order == SearchCompare(tok, t[mid].name)
             IN  IF order = 0 THEN mid
                 ELSE search[IF order < 0 THEN <<p[1], mid>> ELSE <<mid + 1, p[2]>>]
  IN  search[<<1, Len(t) + 1>>]

Handled(what, text) == [what |-> what, text |-> text, name |-> <<>>]

\* _atParseGetHandler: the handler with the rest of the line, a failure if the entry
\* has none, or no entry.
GetHandler(t, tok, rest) ==
  LET i == Bsearch(t, tok) IN
  IF i = 0 THEN Handled("mismatch", <<>>)
  ELSE IF t[i].handled THEN [what |-> "handler", text |-> rest, name |-> t[i].name]
  ELSE Handled("failure", <<>>)

\* strtok_r from the second symbol, with ":": leading ones are skipped.
TokenStart(s) == Min({i \in 2 .. Len(s) : s[i] # ":"} \cup {Len(s) + 1})
TokenEnd(s) == Min({i \in TokenStart(s) .. Len(s) : s[i] = ":"} \cup {Len(s) + 1})

\* The ':' is written before what is left: over the last symbol of a token that
\* goes to the end.
Restored(s) == IF TokenEnd(s) <= Len(s) THEN s ELSE [s EXCEPT ![Len(s)] = ":"]

\* _processUrcPacket, up to the generic callback.
ProcessUrcPacket(t, s) ==
  LET prefixed == ATIsPrefixPresent(s).yes
      tok == SubSeq(s, TokenStart(s), TokenEnd(s) - 1)
      h == IF prefixed THEN GetHandler(t, tok, From(s, TokenEnd(s) + 1)) ELSE GetHandler(t, s, s)
  IN  IF prefixed /\ tok = <<>> THEN Handled("badRequest", <<>>)
      ELSE IF h.what # "mismatch" THEN h
      ELSE Handled("generic", IF prefixed THEN Restored(s) ELSE s)

-----------------------------------------------------------------------------
DispatchInit ==
  /\ urcTable \in Tables
  /\ reader = "closed"
  /\ line = <<>>
  /\ handled = Handled("none", <<>>)
  /\ kind = "generic"
  /\ checked = NoRegistrar
  /\ called = Nothing
  /\ alone = TRUE
  /\ cb = [k \in Kinds |-> Nothing]
  /\ respMutex = NoRegistrar
  /\ regPc = [t \in Registrars |-> "idle"]
  /\ regArg = [t \in Registrars |-> [kind |-> "generic", f |-> NoRegistrar]]
  /\ urcLines \in 0 .. MaxUrcLines
  /\ registrations \in 0 .. MaxRegistrations

\* libOpen discards what _Cellular_AtParseInit finds of the table.
OpenDispatch ==
  /\ reader = "closed"
  /\ reader' = "idle"
  /\ UNCHANGED <<urcTable, lineVars, alone, cbVars, urcLines>>

TakeUrc ==
  /\ reader = "idle" /\ urcLines < MaxUrcLines
  /\ line' \in Lines
  /\ urcLines' = urcLines + 1
  /\ kind' = "generic"
  /\ alone' = \A t \in Registrars : regPc[t] = "idle" \/ regArg[t].kind # "generic"
  /\ called' = Nothing

\* An unsolicited line: it is copied, if there is memory, and its handler is called;
UrcLine ==
  /\ TakeUrc
  /\ \/ handled' = ProcessUrcPacket(urcTable, line')
     \/ handled' = Handled("failure", <<>>)
  /\ reader' = IF handled'.what = "generic" THEN "check" ELSE "idle"
  /\ UNCHANGED <<urcTable, checked, cbVars>>

\* a line of no known type goes to the port's callback.
UndefinedMessage ==
  /\ reader = "idle" /\ urcLines < MaxUrcLines
  /\ line' \in Lines
  /\ urcLines' = urcLines + 1
  /\ kind' = "undefined"
  /\ alone' = \A t \in Registrars : regPc[t] = "idle" \/ regArg[t].kind # "undefined"
  /\ called' = Nothing
  /\ handled' = Handled("undefined", line')
  /\ reader' = "check"
  /\ UNCHANGED <<urcTable, checked, cbVars>>

\* The callback is there, or nothing is called.
CheckCallback ==
  /\ reader = "check"
  /\ reader' = IF cb[kind].f = NoRegistrar THEN "idle" ELSE "call"
  /\ checked' = cb[kind].f
  /\ UNCHANGED <<urcTable, line, handled, kind, called, alone, cbVars, urcLines>>

\* The call: the compiler may load the callback again, or use the one it has.
CallCallback ==
  /\ reader = "call"
  /\ \E f \in {checked, cb[kind].f} : called' = [f |-> f, ctx |-> cb[kind].ctx]
  /\ reader' = "idle"
  /\ UNCHANGED <<urcTable, line, handled, kind, checked, alone, cbVars, urcLines>>

\* A task registers a callback of its own with its context, or takes one away.
StartRegistration(t) ==
  /\ regPc[t] = "idle" /\ registrations < MaxRegistrations
  /\ \E k \in Kinds, f \in {t, NoRegistrar} : regArg' = [regArg EXCEPT ![t] = [kind |-> k, f |-> f]]
  /\ regPc' = [regPc EXCEPT ![t] = "locking"]
  /\ registrations' = registrations + 1
  /\ alone' = (alone /\ (reader \in {"check", "call"} => regArg'[t].kind # kind))
  /\ UNCHANGED <<urcTable, reader, lineVars, cb, respMutex, urcLines>>

\* Mutant: PktRespMutex is not taken.
LockNothing(t) ==
  /\ regPc[t] = "locking"
  /\ regPc' = [regPc EXCEPT ![t] = "setting"]
  /\ UNCHANGED <<urcTable, reader, lineVars, alone, cb, respMutex, regArg, registrations, urcLines>>

LockRespMutex(t) ==
  /\ regPc[t] = "locking" /\ respMutex = NoRegistrar
  /\ respMutex' = t
  /\ regPc' = [regPc EXCEPT ![t] = "setting"]
  /\ UNCHANGED <<urcTable, reader, lineVars, alone, cb, regArg, registrations, urcLines>>

SetCallback(t) ==
  /\ regPc[t] = "setting"
  /\ cb' = [cb EXCEPT ![regArg[t].kind].f = regArg[t].f]
  /\ regPc' = [regPc EXCEPT ![t] = "settingContext"]
  /\ UNCHANGED <<urcTable, reader, lineVars, alone, respMutex, regArg, registrations, urcLines>>

\* The port's callbacks lose their context with them.
SetContext(t) ==
  /\ regPc[t] = "settingContext"
  /\ cb' = [cb EXCEPT ![regArg[t].kind].ctx =
              IF regArg[t].kind = "undefined" /\ cb[regArg[t].kind].f = NoRegistrar
              THEN NoRegistrar ELSE t]
  /\ respMutex' = NoRegistrar
  /\ regPc' = [regPc EXCEPT ![t] = "idle"]
  /\ UNCHANGED <<urcTable, reader, lineVars, alone, regArg, registrations, urcLines>>

DispatchStill ==
  /\ reader = "idle" /\ urcLines = MaxUrcLines
  /\ registrations = MaxRegistrations /\ \A t \in Registrars : regPc[t] = "idle"
  /\ UNCHANGED dispatchVars

DispatchNext ==
  \/ OpenDispatch \/ UrcLine \/ UndefinedMessage \/ CheckCallback \/ CallCallback
  \/ \E t \in Registrars :
       StartRegistration(t) \/ LockRespMutex(t) \/ SetCallback(t) \/ SetContext(t)
  \/ DispatchStill

DispatchSpec == DispatchInit /\ [][DispatchNext]_dispatchVars

-----------------------------------------------------------------------------
(* Properties.                                                             *)

DispatchTypeOK ==
  /\ reader \in {"closed", "idle", "check", "call"}
  /\ kind \in Kinds
  /\ cb \in [Kinds -> [f : Registrars \cup {NoRegistrar}, ctx : Registrars \cup {NoRegistrar}]]
  /\ {checked, called.f, called.ctx} \subseteq Registrars \cup {NoRegistrar}
  /\ respMutex \in Registrars \cup {NoRegistrar}
  /\ regPc \in [Registrars -> {"idle", "locking", "setting", "settingContext"}]
  /\ \A t \in Registrars : regPc[t] \in {"setting", "settingContext"} => respMutex = t

\* What a line is to be looked up by: up to its ':' without its '+', or all of it.
NameOf(s) == IF ATIsPrefixPresent(s).yes THEN SubSeq(s, 2, FirstOf(s, ":") - 1) ELSE s
EmptyPrefix(s) == Len(s) >= 2 /\ s[1] = "+" /\ s[2] = ":"

\* Whatever the table, the handler that gets a line is one registered for its prefix,
\* with all that follows the ':'.  With a table that _Cellular_AtParseInit finds in order,
\* which nothing else makes sure of, the binary search finds what a look at every entry
\* finds, though prefixes begin like one another: a line whose prefix is in the table
\* never goes to the generic callback, which gets the line as the modem wrote it, though
\* the token was cut out of the same copy.  (A line without a prefix before its ':'
\* excepted.)
RightHandler ==
  ~EmptyPrefix(line) =>
    /\ handled.what = "handler" =>
         /\ handled.name = NameOf(line)
         /\ handled.text = IF ATIsPrefixPresent(line).yes THEN From(line, FirstOf(line, ":") + 1)
                           ELSE line
    /\ handled.what = "generic" => handled.text = line
    /\ AtParseInit(urcTable) /\ handled.what = "generic" =>
         \A i \in DOMAIN urcTable : urcTable[i].name # NameOf(line)

\* However the tasks register callbacks against one another, a callback that is called
\* is there and gets the context it was registered with, unless one of its kind was
\* being registered while the reader had the line.
OwnContext == alone /\ called # Nothing => called.f # NoRegistrar /\ called.ctx = called.f
=============================================================================
