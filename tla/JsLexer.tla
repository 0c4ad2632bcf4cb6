-------------------------------- MODULE JsLexer --------------------------------
(***************************************************************************)
(* The lexer of the JavaScript front end (class Lexer of                    *)
(* src/src/frontend.js): a source becomes tokens, one token a step.         *)
(*                                                                          *)
(* A source is a sequence of letters: a whole word or a whole run of digits *)
(* is one letter, and every other character is a letter of its own.  The    *)
(* characters < and > are what the lexer has to think about: two > close    *)
(* two lists of types, or are a shift.                                      *)
(***************************************************************************)
EXTENDS Integers, Sequences, SequencesExt, TLC

CONSTANTS Words,    \* the words a source may use
          Digits    \* the numbers it may use

VARIABLES source, at, tokens, genericDepth, status

lexVars == << source, at, tokens, genericDepth, status >>

KEYWORDS ==
  {"prototype", "sealed", "function", "var", "const", "internal", "group", "int", "float", "bool", "byte", "glyph",
   "string", "list", "map", "slice", "view", "void", "if", "else", "for", "of", "in", "while", "do", "switch", "case",
   "default", "break", "continue", "return", "try", "catch", "finally", "throw", "true", "false", "self", "super",
   "import", "as"}

GenericHeads == {"list", "map", "slice", "view"}

\* Symbols of two characters, with the characters.
TwoSyms ==
  ("==" :> <<"=", "=">>) @@ ("!=" :> <<"!", "=">>) @@ ("<=" :> <<"<", "=">>) @@ (">=" :> <<">", "=">>) @@
  ("&&" :> <<"&", "&">>) @@ ("||" :> <<"|", "|">>) @@ ("<<" :> <<"<", "<">>) @@ (">>" :> <<">", ">">>) @@
  ("++" :> <<"+", "+">>) @@ ("--" :> <<"-", "-">>) @@ ("+=" :> <<"+", "=">>) @@ ("-=" :> <<"-", "=">>) @@
  ("*=" :> <<"*", "=">>) @@ ("/=" :> <<"/", "=">>)

OneSyms ==
  {"{", "}", "(", ")", "[", "]", ";", ",", ":", ".", "?", "+", "-", "*", "/", "%", "&", "|", "^", "~", "!", "=",
   "<", ">"}

Blanks  == {" ", "\n"}
Letters == Words \cup KEYWORDS \cup Digits \cup OneSyms \cup Blanks \cup {"\"", "\\", "@"}

-----------------------------------------------------------------------------
\* The source from the place the lexer is at.

Token(type, value) == [type |-> type, value |-> value]

ch(n)    == IF at + n <= Len(source) THEN source[at + n] ELSE ""
Lexing   == status = "lexing"
IsEnd    == at > Len(source)
Pair     == << ch(0), ch(1) >>

\* The first place from i on where the letter is in S, or the end.
Find(i, S) ==
  LET hits == {j \in i..Len(source) : source[j] \in S}
  IN  IF hits = {} THEN Len(source) + 1 ELSE CHOOSE j \in hits : \A k \in hits : j <= k

\* A list of types opens after list, map, slice or view, where a type may stand.
isGenericTypeHeadToken(t) == t.type = "kw" /\ t.value \in GenericHeads

isTypeContextBeforeGenericHead ==
  \/ Len(tokens) < 2
  \/ LET prev == tokens[Len(tokens) - 1]
     IN  \/ genericDepth > 0 /\ prev.type = "sym" /\ prev.value \in {"<", ","}
         \/ prev.type = "kw" /\ prev.value = "const"
         \/ prev.type = "sym" /\ prev.value \in {";", "{", "}", "(", ",", ":", "="}

canOpenGenericList ==
  /\ tokens # <<>>
  /\ isGenericTypeHeadToken(Last(tokens))
  /\ isTypeContextBeforeGenericHead

-----------------------------------------------------------------------------
\* One action for each thing that may be at the front.

Advance(n, ts) ==
  /\ at' = at + n
  /\ tokens' = tokens \o ts
  /\ UNCHANGED << source, status >>

SkipTo(i) == at' = i /\ UNCHANGED << source, tokens, genericDepth, status >>
Reject    == status' = "rejected" /\ UNCHANGED << source, at, tokens, genericDepth >>

IsComment == Pair \in {<<"/", "/">>, <<"/", "*">>}

Blank == Lexing /\ ch(0) \in Blanks /\ SkipTo(at + 1)

LineComment == Lexing /\ Pair = <<"/", "/">> /\ SkipTo(Find(at, {"\n"}))

\* The comment ends with the first * and / after its own two characters; at
\* the end of the source the star may be the one that opens it.
BlockComment ==
  /\ Lexing
  /\ Pair = <<"/", "*">>
  /\ LET ends == {j \in (at + 2)..(Len(source) - 1) : source[j] = "*" /\ source[j + 1] = "/"}
     IN  IF ends = {}
         THEN IF << ch(2), ch(3) >> = << "/", "" >> THEN SkipTo(at + 3) ELSE Reject
         ELSE SkipTo((CHOOSE j \in ends : \A k \in ends : j <= k) + 2)

Word ==
  /\ Lexing
  /\ ch(0) \in Words \cup KEYWORDS
  /\ Advance(1, << Token(IF ch(0) \in KEYWORDS THEN "kw" ELSE "id", ch(0)) >>)
  /\ UNCHANGED genericDepth

\* Digits, a point and digits: the digits may be missing on one side.
StartsNumber == ch(0) \in Digits \/ (ch(0) = "." /\ ch(1) \in Digits)

Number ==
  /\ Lexing
  /\ StartsNumber
  /\ CASE ch(0) = "." -> Advance(2, << Token("num", "." \o ch(1)) >>)
       [] ch(0) # "." /\ ch(1) = "." /\ ch(2) \in Digits ->
            Advance(3, << Token("num", ch(0) \o "." \o ch(2)) >>)
       [] ch(0) # "." /\ ch(1) = "." /\ ch(2) \notin Digits -> Advance(2, << Token("num", ch(0) \o ".") >>)
       [] OTHER -> Advance(1, << Token("num", ch(0)) >>)
  /\ UNCHANGED genericDepth

\* A string runs to the first quotation mark that no backslash precedes;
\* after a backslash the letters here may only be a quotation mark or a backslash.
RECURSIVE StringFrom(_, _)
StringFrom(i, s) ==
  IF i > Len(source) THEN [end |-> 0, text |-> s]
  ELSE IF source[i] = "\"" THEN [end |-> i, text |-> s]
  ELSE IF source[i] # "\\" THEN StringFrom(i + 1, s \o source[i])
  ELSE IF i < Len(source) /\ source[i + 1] \in {"\"", "\\"} THEN StringFrom(i + 2, s \o source[i + 1])
  ELSE [end |-> 0, text |-> s]

StringLiteral ==
  /\ Lexing
  /\ ch(0) = "\""
  /\ LET s == StringFrom(at + 1, "")
     IN  IF s.end = 0 THEN Reject
         ELSE Advance(s.end - at + 1, << Token("str", s.text) >>) /\ UNCHANGED genericDepth

IsEllipsis == << ch(0), ch(1), ch(2) >> = << ".", ".", "." >>

ThreeDots ==
  /\ Lexing
  /\ IsEllipsis
  /\ Advance(3, << Token("sym", "...") >>)
  /\ UNCHANGED genericDepth

\* >> inside a list of types closes it, and the one around it.  Mutant: it
\* does so everywhere.
ClosesTwiceAnywhere == Pair = <<">", ">">>
ClosesTwice == Pair = <<">", ">">> /\ genericDepth > 0

\* Mutant of SplitShift: one list of types is counted as closed.
SplitShiftClosesOne ==
  /\ Lexing
  /\ ClosesTwice
  /\ Advance(2, << Token("sym", ">"), Token("sym", ">") >>)
  /\ genericDepth' = genericDepth - 1
SplitShift ==
  /\ Lexing
  /\ ClosesTwice
  /\ Advance(2, << Token("sym", ">"), Token("sym", ">") >>)
  /\ genericDepth' = IF genericDepth > 1 THEN genericDepth - 2 ELSE 0

TwoChar ==
  /\ Lexing
  /\ ~ClosesTwice
  /\ ~IsComment
  /\ \E s \in DOMAIN TwoSyms : Pair = TwoSyms[s] /\ Advance(2, << Token("sym", s) >>)
  /\ UNCHANGED genericDepth

OneChar ==
  /\ Lexing
  /\ ch(0) \in OneSyms
  /\ ~ClosesTwice
  /\ ~IsComment
  /\ ~IsEllipsis
  /\ ~StartsNumber
  /\ \A s \in DOMAIN TwoSyms : Pair # TwoSyms[s]
  /\ Advance(1, << Token("sym", ch(0)) >>)
  /\ genericDepth' = CASE ch(0) = "<" /\ canOpenGenericList -> genericDepth + 1
                       [] ch(0) = ">" /\ genericDepth > 0 -> genericDepth - 1
                       [] OTHER -> genericDepth

Unknown == Lexing /\ ch(0) \in {"@", "\\"} /\ Reject

EndOfSource ==
  /\ Lexing
  /\ IsEnd
  /\ tokens' = Append(tokens, Token("eof", "eof"))
  /\ status' = "lexed"
  /\ UNCHANGED << source, at, genericDepth >>

LexInit(sources) ==
  /\ source \in sources
  /\ at = 1
  /\ tokens = <<>>
  /\ genericDepth = 0
  /\ status = "lexing"

LexNext ==
  \/ Blank \/ LineComment \/ BlockComment \/ Word \/ Number \/ StringLiteral \/ ThreeDots \/ SplitShift
  \/ TwoChar \/ OneChar \/ Unknown \/ EndOfSource
=============================================================================
