------------------------------- MODULE JsPrinter --------------------------------
(***************************************************************************)
(* Programs written down as the grammar of SPECIFICATION.md (section 23)    *)
(* has them, from the trees JsParser makes: parentheses stand only where    *)
(* the tree asks for them, a blank only where two letters would become one  *)
(* or mean something else, and two lists of types end in >>.                *)
(***************************************************************************)
EXTENDS JsParser

CONSTANT Numerals   \* the letters of a number with a point

\* Pieces with something between them.
Between(sep, pieces) ==
  FlattenSeq([i \in DOMAIN pieces |-> IF i = 1 THEN pieces[1] ELSE sep \o pieces[i]])
Each(op(_), things) == FlattenSeq([i \in DOMAIN things |-> op(things[i])])

Blank1 == <<" ">>
Comma  == <<",">>
Chars(sym) == IF sym \in DOMAIN TwoSyms THEN TwoSyms[sym] ELSE <<sym>>

RECURSIVE TypeText(_)
TypeText(type) ==
  <<type.name>> \o IF type.args = <<>> THEN <<>>
                   ELSE <<"<">> \o Between(Comma, [i \in DOMAIN type.args |-> TypeText(type.args[i])]) \o <<">">>
Named(type, x) == TypeText(type) \o Blank1 \o <<x>>

NumberText(v) == IF v \in Digits THEN <<v>> ELSE Numerals[v]

-----------------------------------------------------------------------------
\* How tight an expression is, loosest first; those of the levels of the
\* parser have their number.
Conditional == 0
UnaryLevel  == Len(Levels) + 1
PostfixLevel == UnaryLevel + 1

Tightness(e) ==
  CASE e.kind = "ConditionalExpr" -> Conditional
    [] e.kind = "BinaryExpr" -> CHOOSE level \in DOMAIN Levels : e.op \in Levels[level]
    [] e.kind \in {"UnaryExpr", "CastExpr"} -> UnaryLevel
    [] OTHER -> PostfixLevel

RECURSIVE Text(_, _)
Plain(e) == Text(e, Conditional)
ListText(es) == Between(Comma, [i \in DOMAIN es |-> Plain(es[i])])

ExprText(e) ==
  LET level == Tightness(e)
  IN  CASE e.kind = "Literal" ->
             IF e.type = "string" THEN <<"\"", e.value, "\"">> ELSE IF e.type = "bool" THEN <<e.value>> ELSE NumberText(e.value)
        [] e.kind = "Identifier" -> <<e.name>>
        [] e.kind = "SuperExpr"  -> <<"super">>
        [] e.kind = "UnaryExpr"  -> Chars(e.op) \o Text(e.expr, PostfixLevel)
        [] e.kind = "CastExpr"   -> <<"(">> \o TypeText(e.targetType) \o <<")">> \o Text(e.expr, UnaryLevel)
        [] e.kind = "PostfixExpr" -> Text(e.expr, PostfixLevel) \o Chars(e.op)
        [] e.kind = "BinaryExpr" ->
             Text(e.left, level) \o Blank1 \o Chars(e.op) \o Blank1 \o Text(e.right, level + 1)
        [] e.kind = "ConditionalExpr" ->
             Text(e.cond, level + 1) \o <<"?">> \o Plain(e.thenExpr) \o <<":">> \o Plain(e.elseExpr)
        [] e.kind = "CallExpr"   -> Text(e.callee, PostfixLevel) \o <<"(">> \o ListText(e.args) \o <<")">>
        [] e.kind = "IndexExpr"  -> Text(e.target, PostfixLevel) \o <<"[">> \o Plain(e.index) \o <<"]">>
        [] e.kind = "MemberExpr" -> Text(e.target, PostfixLevel) \o <<".", e.name>>
        [] e.kind = "ListLiteral" -> <<"[">> \o ListText(e.items) \o <<"]">>
        [] e.kind = "MapLiteral" ->
             <<"{">> \o Between(Comma, [i \in DOMAIN e.pairs |-> Plain(e.pairs[i].key) \o <<":">> \o Plain(e.pairs[i].value)])
             \o <<"}">>

\* In parentheses when it is looser than what may stand here.
Text(e, level) == IF Tightness(e) < level THEN <<"(">> \o ExprText(e) \o <<")">> ELSE ExprText(e)

-----------------------------------------------------------------------------
\* Statements.

InitText(init)  == IF init = <<>> THEN <<>> ELSE <<"=">> \o Plain(init[1])
ConstText(const) == IF const THEN <<"const", " ">> ELSE <<>>
DeclText(s) ==
  IF s.declaredType = <<>> THEN <<"var", " ", s.name>> \o InitText(s.init)
  ELSE ConstText(s.isConst) \o Named(s.declaredType[1], s.name) \o InitText(s.init)

\* What ends with ; in a statement and without one in a for.
PartText(s) ==
  CASE s.kind = "VarDecl"    -> DeclText(s)
    [] s.kind = "AssignStmt" -> Text(s.target, PostfixLevel) \o Chars(s.op) \o Plain(s.expr)
    [] s.kind = "ExprStmt"   -> Plain(s.expr)
    [] OTHER                 -> Plain(s)
OptionalPart(part) == IF part = <<>> THEN <<>> ELSE PartText(part[1])
InParens(letters) == <<"(">> \o letters \o <<")">>

RECURSIVE StmtText(_)
BlockText(b) == <<"{">> \o Each(StmtText, b.stmts) \o <<"}">>

ForHead(s) ==
  IF s.forKind = "classic"
  THEN OptionalPart(s.init) \o <<";">> \o OptionalPart(s.cond) \o <<";">> \o OptionalPart(s.step)
  ELSE (IF s.iterVar.declaredType = <<>> THEN <<"var", " ", s.iterVar.name>>
        ELSE Named(s.iterVar.declaredType[1], s.iterVar.name)) \o <<" ", s.forKind, " ">> \o Plain(s.iterExpr)

CaseText(c)  == <<"case", " ">> \o Plain(c.value) \o <<":">> \o Each(StmtText, c.stmts)
CatchText(c) == <<"catch">> \o InParens(Named(c.type, c.name)) \o BlockText(c.block)

StmtText(s) ==
  CASE s.kind \in {"VarDecl", "AssignStmt", "ExprStmt"} -> PartText(s) \o <<";">>
    [] s.kind = "Block"        -> BlockText(s)
    [] s.kind = "IfStmt"       ->
         <<"if">> \o InParens(Plain(s.cond)) \o StmtText(s.thenBranch)
         \o IF s.elseBranch = <<>> THEN <<>> ELSE <<"else", " ">> \o StmtText(s.elseBranch[1])
    [] s.kind = "WhileStmt"    -> <<"while">> \o InParens(Plain(s.cond)) \o StmtText(s.body)
    [] s.kind = "DoWhileStmt"  -> <<"do", " ">> \o StmtText(s.body) \o <<"while">> \o InParens(Plain(s.cond)) \o <<";">>
    [] s.kind = "ForStmt"      -> <<"for">> \o InParens(ForHead(s)) \o StmtText(s.body)
    [] s.kind = "SwitchStmt"   ->
         <<"switch">> \o InParens(Plain(s.expr)) \o <<"{">> \o Each(CaseText, s.cases)
         \o (IF s.defaultCase = <<>> THEN <<>> ELSE <<"default", ":">> \o Each(StmtText, s.defaultCase[1])) \o <<"}">>
    [] s.kind = "TryStmt"      ->
         <<"try">> \o BlockText(s.tryBlock) \o Each(CatchText, s.catches)
         \o IF s.finallyBlock = <<>> THEN <<>> ELSE <<"finally">> \o BlockText(s.finallyBlock[1])
    [] s.kind = "ReturnStmt"   -> <<"return">> \o (IF s.expr = <<>> THEN <<>> ELSE Blank1 \o Plain(s.expr[1])) \o <<";">>
    [] s.kind = "ThrowStmt"    -> <<"throw", " ">> \o Plain(s.expr) \o <<";">>
    [] s.kind = "BreakStmt"    -> <<"break", ";">>
    [] s.kind = "ContinueStmt" -> <<"continue", ";">>

-----------------------------------------------------------------------------
\* Declarations.

VisibilityText(d) ==
  IF "visibility" \in DOMAIN d /\ d.visibility = "internal" THEN <<"internal", " ">> ELSE <<>>

ParamText(p) == Named(p.type, p.name) \o IF p.variadic THEN <<".", ".", ".">> ELSE <<>>
FunctionText(f) ==
  VisibilityText(f) \o <<"function", " ", f.name>>
  \o InParens(Between(Comma, [i \in DOMAIN f.params |-> ParamText(f.params[i])]))
  \o <<":">> \o TypeText(f.retType) \o BlockText(f.body)
FieldText(f) == VisibilityText(f) \o ConstText(f.isConst) \o Named(f.type, f.name) \o InitText(f.init) \o <<";">>
MemberText(m) == <<m.name, "=">> \o Plain(m.expr)

DeclarationText(d) ==
  CASE d.kind = "FunctionDecl" -> FunctionText(d)
    [] d.kind = "PrototypeDecl" ->
         (IF d.sealed THEN <<"sealed", " ">> ELSE <<>>) \o <<"prototype", " ", d.name>>
         \o (IF d.parent = <<>> THEN <<>> ELSE <<":", d.parent[1]>>)
         \o <<"{">> \o Each(FieldText, d.fields) \o Each(FunctionText, d.methods) \o <<"}">>
    [] d.kind = "GroupDecl" ->
         TypeText(d.type) \o <<" ", "group", " ", d.name, "{">>
         \o Between(Comma, [i \in DOMAIN d.members |-> MemberText(d.members[i])]) \o <<"}">>

AliasText(alias) == IF alias = <<>> THEN <<>> ELSE <<" ", "as", " ", alias[1]>>
ItemText(item)   == <<item.name>> \o AliasText(item.alias)
ImportText(imp) ==
  <<"import", " ">>
  \o (IF imp.isPath THEN <<"\"", imp.path, "\"">> ELSE Between(<<".">>, [i \in DOMAIN imp.path |-> <<imp.path[i]>>]))
  \o AliasText(imp.alias)
  \o (IF imp.items = <<>> THEN <<>>
      ELSE <<".", "{">> \o Between(Comma, [i \in DOMAIN imp.items[1] |-> ItemText(imp.items[1][i])]) \o <<"}">>)
  \o <<";">>

ProgramText(program) == Each(ImportText, program.imports) \o Each(DeclarationText, program.decls)
=============================================================================
