------------------------------- MODULE JsFrontend -------------------------------
(***************************************************************************)
(* The front end as the tools call it (parseAndAnalyze of                   *)
(* src/src/frontend.js): the lexer takes the source letter by letter, the   *)
(* parser the tokens and the analyzer the tree; an error of one of the      *)
(* first two ends it.                                                       *)
(***************************************************************************)
EXTENDS TypedRun

VARIABLES ast,    \* the program once it is parsed
          diags   \* the codes of what is wrong with it

frontVars == << lexVars, ast, diags >>

FrontInit(sources) == LexInit(sources) /\ ast = <<>> /\ diags = {}

Lex == LexNext /\ UNCHANGED << ast, diags >>

Parse ==
  /\ status = "lexed"
  /\ LET r == parseProgram
     IN  IF r.ok THEN status' = "parsed" /\ ast' = <<r.n>> /\ UNCHANGED diags
         ELSE status' = "rejected" /\ diags' = {r.n} /\ UNCHANGED ast
  /\ UNCHANGED << source, at, tokens, genericDepth >>

AnalyzeProgram ==
  /\ status = "parsed"
  /\ diags' = Analyze(ast[1]).diags
  /\ status' = "analyzed"
  /\ UNCHANGED << source, at, tokens, genericDepth, ast >>

FrontNext == Lex \/ Parse \/ AnalyzeProgram

Accepted == status = "analyzed" /\ diags = {}
=============================================================================
