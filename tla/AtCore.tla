------------------------------- MODULE AtCore -------------------------------
(***************************************************************************)
(* The text functions the parsers of answers are built from                *)
(* (cellular_at_core.c), and the translation of their statuses.            *)
(*                                                                         *)
(* A text is a sequence of symbols: digits and punctuation one by one,     *)
(* words whole.  A function that works in place, or moves the caller's     *)
(* pointer, returns its status st and the text s as it leaves it.  A NULL  *)
(* argument is not a text; no caller in the repository passes one.         *)
(***************************************************************************)
EXTENDS Integers, SequencesExt

CONSTANT MaxString   \* CELLULAR_AT_MAX_STRING_SIZE

ASSUME TextAssumption == MaxString \in Nat \ {0}

Space == " "
Quote == "\""
Decimals == <<"0", "1", "2", "3", "4", "5", "6", "7", "8", "9">>
Hex == <<"0", "1", "2", "3", "4", "5", "6", "7", "8", "9", "a", "b", "c", "d", "e", "f">>
HexCapitals == <<"0", "1", "2", "3", "4", "5", "6", "7", "8", "9", "A", "B", "C", "D", "E", "F">>
IsDigit(c) == c \in ToSet(Decimals)
Punctuation == {Space, Quote, ":", ",", "/", "-", "?", "="}

\* Where c first is in s, past its end when it is nowhere.
FirstOf(s, c) == Min({i \in 1 .. Len(s) : s[i] = c} \cup {Len(s) + 1})
From(s, i) == SubSeq(s, i, Len(s))

\* validateString.
Valid(s) == s # <<>> /\ Len(s) <= MaxString

Ok(s) == [st |-> "SUCCESS", s |-> s]
Fail(st, s) == [st |-> st, s |-> s]
\* What every function does with a text that is empty or too long.
OfValid(s, r) == IF Valid(s) THEN r ELSE Fail("BAD_PARAMETER", s)
\* A function after another.
Then(r, F(_)) == IF r.st = "SUCCESS" THEN F(r.s) ELSE r

\* There is a prefix when only letters, digits, '+' and '_' come before the first
\* ':', and the text begins with '+'.
ATIsPrefixPresent(s) ==
  LET colon == FirstOf(s, ":") IN
  IF ~Valid(s) THEN [st |-> "BAD_PARAMETER", yes |-> FALSE]
  ELSE [st |-> "SUCCESS",
        yes |-> /\ colon <= Len(s)
                /\ s[1] = "+"
                /\ \A i \in 1 .. colon - 1 : s[i] \notin Punctuation]

ATStrStartWith(s, p) ==
  IF ~Valid(s) \/ ~Valid(p) THEN [st |-> "BAD_PARAMETER", yes |-> FALSE]
  ELSE [st |-> "SUCCESS", yes |-> IsPrefix(p, s)]

\* (keyListLen does not exceed 255, the last value of the index.)
ATcheckErrorCode(s, keys) ==
  IF ~Valid(s) THEN [st |-> "BAD_PARAMETER", yes |-> FALSE]
  ELSE [st |-> "SUCCESS",
        yes |-> \E i \in DOMAIN keys : ATStrStartWith(s, keys[i]).yes]

ATRemovePrefix(s) ==
  LET colon == FirstOf(s, ":") IN
  OfValid(s, IF colon <= Len(s) THEN Ok(From(s, colon + 1)) ELSE Fail("BAD_PARAMETER", s))

ATRemoveLeadingWhiteSpaces(s) ==
  OfValid(s, Ok(From(s, Min({i \in 1 .. Len(s) : s[i] # Space} \cup {Len(s) + 1}))))

\* The first symbol stays, and so does all of a text of one or two.
ATRemoveTrailingWhiteSpaces(s) ==
  OfValid(s, Ok(IF Len(s) <= 2 THEN s
                ELSE SubSeq(s, 1, Max({i \in 1 .. Len(s) : s[i] # Space} \cup {1}))))

\* What is left of s when every c is taken out, symbol by symbol.
Without(s, c) ==
  LET kept[n \in 0 .. Len(s)] ==
        IF n = 0 THEN <<>>
        ELSE IF s[n] = c THEN kept[n - 1] ELSE Append(kept[n - 1], s[n])
  IN  kept[Len(s)]
ATRemoveAllWhiteSpaces(s) == OfValid(s, Ok(Without(s, Space)))
ATRemoveAllDoubleQuote(s) == OfValid(s, Ok(Without(s, Quote)))

ATRemoveOutermostDoubleQuote(s) ==
  LET t == IF s[1] = Quote THEN Tail(s) ELSE s IN
  OfValid(s, Ok(IF Len(s) <= 2 THEN s
                ELSE IF Last(t) = Quote THEN Front(t) ELSE t))

\* The token goes up to the delimiter and may be empty; the rest begins after
\* the delimiter, so that the empty token after a last one is never returned.
ATGetSpecificNextTok(s, d) ==
  IF ~Valid(s) THEN [st |-> "BAD_PARAMETER", tok |-> <<>>, s |-> s]
  ELSE [st |-> "SUCCESS", tok |-> SubSeq(s, 1, FirstOf(s, d) - 1),
        s |-> From(s, FirstOf(s, d) + 1)]
ATGetNextTok(s) == ATGetSpecificNextTok(s, ",")

\* The tokens the loops over an answer get, for n calls.
Tokens(s, n) ==
  LET next(f) == LET r == ATGetNextTok(f.s) IN
                 IF r.st = "SUCCESS" THEN [s |-> r.s, toks |-> Append(f.toks, r.tok)] ELSE f
      got[i \in 0 .. n] == IF i = 0 THEN [s |-> s, toks |-> <<>>] ELSE next(got[i - 1])
  IN  got[n].toks

CharToNibble(c) ==
  IF c \in ToSet(Hex) \cup ToSet(HexCapitals)
  THEN (CHOOSE i \in 1 .. 16 : c \in {Hex[i], HexCapitals[i]}) - 1
  ELSE 255

\* Two digits a byte, 255 when one of them is none.
ATHexStrToHex(s, room) ==
  IF ~Valid(s) THEN [st |-> "BAD_PARAMETER", bytes |-> <<>>]
  ELSE IF Len(s) \div 2 >= room THEN [st |-> "NO_MEMORY", bytes |-> <<>>]
  ELSE [st |-> "SUCCESS",
        bytes |-> [i \in 1 .. Len(s) \div 2 |->
                    LET hi == CharToNibble(s[2 * i - 1]) lo == CharToNibble(s[2 * i])
                    IN  IF hi = 255 \/ lo = 255 THEN 255 ELSE 16 * hi + lo]]

ATIsStrDigit(s) ==
  IF ~Valid(s) THEN [st |-> "BAD_PARAMETER", yes |-> FALSE]
  ELSE [st |-> "SUCCESS", yes |-> \A i \in DOMAIN s : IsDigit(s[i])]

\* malloc may fail.
ATStrDup(s, memory) ==
  OfValid(s, IF memory THEN Ok(s) ELSE Fail("NO_MEMORY", <<>>))

\* strtol: leading spaces and a sign, then the digits below base; no validity
\* check, and the result is left alone (ok is FALSE) when there is no digit.
\* (Numbers of the answers are within int32_t.)
DigitsOf(s, base) ==
  SubSeq(s, 1, Min({i \in 1 .. Len(s) : CharToNibble(s[i]) >= base} \cup {Len(s) + 1}) - 1)
ValueOf(digits, base) ==
  LET value[n \in 0 .. Len(digits)] ==
        IF n = 0 THEN 0 ELSE base * value[n - 1] + CharToNibble(digits[n])
  IN  value[Len(digits)]
NumberOf(digits, sign, base) == [ok |-> digits # <<>>, value |-> sign * ValueOf(digits, base)]
ATStrtoi(s, base) ==
  LET t == From(s, Min({i \in 1 .. Len(s) : s[i] # Space} \cup {Len(s) + 1}))
      signed == t # <<>> /\ t[1] \in {"+", "-"}
  IN  NumberOf(DigitsOf(IF signed THEN Tail(t) ELSE t, base),
               IF signed /\ t[1] = "-" THEN -1 ELSE 1, base)

-----------------------------------------------------------------------------
(* Statuses: of the text functions, of the packet layer, of the API.       *)

TranslateAtCoreStatus(st) ==
  CASE st = "SUCCESS" -> "OK"
    [] st = "BAD_PARAMETER" -> "BAD_PARAM"
    [] OTHER -> "FAILURE"

TranslatePktStatus(st) ==
  CASE st = "OK" -> "SUCCESS"
    [] st = "TIMED_OUT" -> "TIMEOUT"
    [] OTHER -> "INTERNAL_FAILURE"
=============================================================================
