------------------------------- MODULE MCFrontend -------------------------------
(***************************************************************************)
(* Every program of FrontendPrograms, written down and put through the      *)
(* front end, and a few sources that are no programs.                       *)
(***************************************************************************)
EXTENDS JsFrontend, JsPrinter

VARIABLE sample   \* the number of the source

vars == << frontVars, sample >>

-----------------------------------------------------------------------------
\* Values of the constants.

MCWords ==
  {"x", "y", "z", "a", "b", "h", "k", "m", "n", "o", "i", "e", "f", "g", "s", "q", "ns", "get", "make", "low", "push",
   "other", "pop", "main", "P", "Q", "E", "G", "A", "B", "C", "D", "F", "H", "L", "M", "R", "clone", "line", "length",
   "keys", "sort", "compareTo", "lib", "ring", "ring2", "none", "Math", "PI", "abs", "Exception", "Object",
   "TextFile", "BinaryFile", "Walker", "RegExp", "IOException", "read", "next", "path", "compile", "test",
   "m.pts", "none.pts", "two.pts", "m.txt"}
MCDigits   == {"0", "1", "2", "5"}
MCNumerals == ("1.5" :> <<"1", ".", "5">>) @@ ("2.0" :> <<"2", ".", "0">>) @@ (".5" :> <<".", "5">>) @@ ("2." :> <<"2", ".">>)
Rational(p, q) == [p |-> p, q |-> q]
MCNumbers  ==
  ("0" :> Rational(0, 1)) @@ ("1" :> Rational(1, 1)) @@ ("2" :> Rational(2, 1)) @@ ("5" :> Rational(5, 1)) @@
  ("1.5" :> Rational(3, 2)) @@ ("2.0" :> Rational(2, 1)) @@ (".5" :> Rational(1, 2)) @@ ("2." :> Rational(2, 1))

Trees == INSTANCE FrontendPrograms
MCScripts  == {"m.pts", "none.pts", "two.pts"}
MCFileOf   == ("m.pts" :> "m") @@ ("two.pts" :> "two") @@ ("M" :> "m") @@ ("ring" :> "a") @@ ("ring2" :> "b")
MCFiles    == Trees!ModuleFiles
Native(params, type) == [params |-> [i \in DOMAIN params |-> [type |-> params[i], name |-> "p", variadic |-> FALSE]],
                         retType |-> type, valid |-> TRUE]
\* low has a type that is none.
MCRegistry == [Math |-> [functions |-> [abs |-> Native(<<IntType>>, IntType),
                                        low |-> [Native(<<>>, Of("low")) EXCEPT !.valid = FALSE]],
                         constants |-> [PI |-> Of("float")]]]

-----------------------------------------------------------------------------
\* The sources: the samples as they are written, then what is no program.

Samples == Trees!FrontSamples
Numbered(pairs) == SelectSeq(pairs, LAMBDA p : TRUE)
Broken ==
  << <<"/", "*", "x", "*", "/", "/", "/", "y", "\n", "import", "m", ".", "{", "}">>,
     <<"/", "*", "x">>, <<"/", "*", "/">>, <<"x", "@">>, <<"\"", "x", "\\", "\"", "y", "\"">>, <<"\"", "x">>,
     <<"function", " ", "f", "(", ")", ":", "int", "{", "1">>,
     <<"function", " ", "f", "(", ")", ":", "int", "{", "1", ";">>, <<"prototype", " ", "P", "{", "internal", " ", ";", "}">>,
     <<"internal", " ", "x">>, <<"prototype", " ", "P", "{", "internal", " ", "list", "<", "list", "<", "int", ">", ">", "x", ";", "}">>,
     <<"function", " ", "f", "(", ")", ":", "int", "{", "-", "\"", "-", "\"", ";", "}">>,
     <<"function", " ", "f", "(", ")", ":", "int", "{", "x", "=", "2", ".", "+", ".", "5", ";", "\n", "x", ".", "a", "[", "1", "]", "+", "=",
       "1", ";", "}">> >>
Sources == [i \in DOMAIN Samples |-> ProgramText(Samples[i].ast)] \o Broken

Init == /\ sample \in DOMAIN Sources
        /\ FrontInit({Sources[sample]})
Next == FrontNext /\ UNCHANGED sample
Spec == Init /\ [][Next]_vars

-----------------------------------------------------------------------------
\* Properties.

IsProgram == sample \in DOMAIN Samples

\* A program written down is never rejected, and what the parser makes of it is
\* the program: the lexer cuts the letters where the writer put them, >> in a
\* type against >> in an expression included, and the lookahead that tells a
\* declaration, an assignment and an expression apart is right.
ReadsBack ==
  IsProgram =>
    /\ status # "rejected"
    /\ status \in {"parsed", "analyzed"} => ast = << Samples[sample].ast >>

\* genericDepthAssert (frontend.js:519-521, 532): outside a list of types the
\* lexer counts none as open.
DepthCloses ==
  (IsProgram /\ tokens # <<>> /\ Last(tokens).value \in {";", "{", "}", "eof"}) => genericDepth = 0

\* A program the analyzer accepts finds, wherever it goes, the names, members
\* and types it needs.
AcceptedNeverStuck ==
  (IsProgram /\ Accepted /\ Samples[sample].regular) => NeverStuck(ast[1])

\* docs/module_user_specification.md:221: modules may not depend on each other
\* in a cycle.  No file that an accepted program loads reaches itself.
CyclicImportsRejected ==
  (IsProgram /\ Accepted) => \A f \in Reach(ImportedFiles(ast[1])) : f \notin Reach(ImportedFiles(Files[f]))
=============================================================================
