-------------------------------- MODULE JsParser --------------------------------
(***************************************************************************)
(* The parser of the JavaScript front end (class Parser of                  *)
(* src/src/frontend.js), a function of the tokens.  An operator that parses *)
(* something takes the position of its first token and gives the node and   *)
(* the position after it, or the code of the diagnostic and the position    *)
(* where parsing stopped.  What the code writes as null is an empty         *)
(* sequence here, and what is not null a sequence of one element.           *)
(***************************************************************************)
EXTENDS JsLexer

Node(i, n)     == [ok |-> TRUE, i |-> i, n |-> n]
Error(i, code) == [ok |-> FALSE, i |-> i, n |-> code]

\* Goes on after r, unless r failed; r is evaluated once.
Then(r, more(_, _)) ==
  CHOOSE x \in {IF s.ok THEN more(s.i, s.n) ELSE s : s \in {r}} : TRUE

t(i)      == IF i <= Len(tokens) THEN tokens[i] ELSE Last(tokens)
At(i, v)  == t(i).type \in {"sym", "kw", "eof"} /\ t(i).value = v
Is(i, S)  == t(i).type \in {"sym", "kw"} /\ t(i).value \in S
IsId(i)   == t(i).type = "id"
Unexpected(i) == Error(i, "E1001")

eat(i, v) == IF At(i, v) THEN Node(i + 1, v) ELSE Unexpected(i)
eatId(i)  == IF IsId(i) THEN Node(i + 1, t(i).value) ELSE Unexpected(i)

\* What follows if a token is there, and nothing otherwise.
Optional(r) == Then(r, LAMBDA j, n : Node(j, <<n>>))
Nothing(i)  == Node(i, <<>>)

\* What is made of others of its kind, by its name: all recursion of the
\* parser goes through here.
RECURSIVE parse(_, _)

-----------------------------------------------------------------------------
\* Types.

PrimitiveNames == {"int", "float", "bool", "byte", "glyph", "string", "void"}
TypeWords      == (PrimitiveNames \ {"void"}) \cup GenericHeads

Type(name, args) == [name |-> name, args |-> args]

parseType(i) ==
  CASE IsId(i) \/ Is(i, PrimitiveNames) -> Node(i + 1, Type(t(i).value, <<>>))
    [] Is(i, GenericHeads \ {"map"}) ->
         Then(eat(i + 1, "<"), LAMBDA j, a : Then(parse("Type", j), LAMBDA k, inner :
           Then(eat(k, ">"), LAMBDA l, c : Node(l, Type(t(i).value, <<inner>>)))))
    [] At(i, "map") ->
         Then(eat(i + 1, "<"), LAMBDA j, a : Then(parse("Type", j), LAMBDA k, key :
           Then(eat(k, ","), LAMBDA l, c : Then(parse("Type", l), LAMBDA m, value :
             Then(eat(m, ">"), LAMBDA n, d : Node(n, Type("map", <<key, value>>)))))))
    [] OTHER -> Unexpected(i)

\* The position after a type, or 0 when no type is there: the code reads the
\* same tokens as parseType, without a diagnostic.
scanTypeFrom(i) == LET r == parse("Type", i) IN IF r.ok THEN r.i ELSE 0

looksLikeGroupDecl(i) == LET end == scanTypeFrom(i) IN end # 0 /\ At(end, "group")

looksLikeTypeStart(i) == IsId(i) \/ Is(i, TypeWords)

looksLikeTypedVarDecl(i) ==
  \/ Is(i, GenericHeads)
  \/ (IsId(i) \/ Is(i, TypeWords)) /\ IsId(i + 1)

\* The position after the bracket that closes the one before i.
RECURSIVE AfterClosing(_, _, _, _)
AfterClosing(i, open, close, depth) ==
  IF depth = 0 \/ i > Len(tokens) THEN i
  ELSE AfterClosing(i + 1, open, close,
         IF t(i).type # "sym" THEN depth
         ELSE CASE t(i).value = open -> depth + 1 [] t(i).value = close -> depth - 1 [] OTHER -> depth)

AssignOps == {"=", "+=", "-=", "*=", "/="}

\* What stands after a target that starts at i is an assignment operator.
RECURSIVE AssignAfter(_)
AssignAfter(i) ==
  CASE i > Len(tokens) -> FALSE
    [] At(i, "[") -> AssignAfter(AfterClosing(i + 1, "[", "]", 1))
    [] At(i, "(") -> AssignAfter(AfterClosing(i + 1, "(", ")", 1))
    [] At(i, ".") -> AssignAfter(i + 2)
    [] Is(i, {"++", "--"}) -> AssignAfter(i + 1)
    [] OTHER -> Is(i, AssignOps)

looksLikeAssignStmt(i) == (IsId(i) \/ At(i, "self")) /\ AssignAfter(i + 1)

\* A word of S stands before the next ).
findUntil(i, S) ==
  LET stops == {j \in i..Len(tokens) : At(j, ")")}
  IN  \E j \in i..Len(tokens) : t(j).type = "kw" /\ t(j).value \in S /\ \A s \in stops : j < s

-----------------------------------------------------------------------------
\* Expressions.  The operators of one level, the loosest level first; the
\* code looks at the text of the token at the levels that are not Strict.

Levels ==
  << {"||"}, {"&&"}, {"==", "!="}, {"<", "<=", ">", ">="}, {"<<", ">>"}, {"+", "-", "|", "^"}, {"*", "/", "%", "&"} >>
Strict == {1, 2, 3, 5}

Literal(type, v) == [kind |-> "Literal", type |-> type, value |-> v]
Identifier(x)    == [kind |-> "Identifier", name |-> x]

PrefixOps == {"!", "~", "-", "++", "--"}

IsFloat(text) == text \notin Digits

RECURSIVE parseLevel(_, _), MoreOf(_, _, _), MorePostfix(_, _), Items(_, _, _)

parseExpr(i) ==
  Then(parseLevel(1, i), LAMBDA j, c :
    IF ~At(j, "?") THEN Node(j, c)
    ELSE Then(parse("Expr", j + 1), LAMBDA k, a : Then(eat(k, ":"), LAMBDA l, s : Then(parse("Expr", l), LAMBDA m, b :
           Node(m, [kind |-> "ConditionalExpr", cond |-> c, thenExpr |-> a, elseExpr |-> b])))))

\* The operators of a level associate to the left.
parseLevel(level, i) ==
  IF level > Len(Levels) THEN parse("Unary", i)
  ELSE Then(parseLevel(level + 1, i), LAMBDA j, left : MoreOf(level, j, left))

MoreOf(level, i, left) ==
  IF t(i).value \notin Levels[level] \/ (level \in Strict /\ t(i).type # "sym") THEN Node(i, left)
  ELSE IF t(i).type # "sym" THEN Unexpected(i)
  ELSE Then(parseLevel(level + 1, i + 1), LAMBDA j, right :
         MoreOf(level, j, [kind |-> "BinaryExpr", op |-> t(i).value, left |-> left, right |-> right]))

\* Things with a comma between them, up to the token that closes them.
Elements(item, i, close) ==
  IF At(i, close) THEN Node(i + 1, <<>>)
  ELSE Then(Items(item, i, <<>>), LAMBDA j, ns : Then(eat(j, close), LAMBDA k, c : Node(k, ns)))

\* A pair of a map, or an expression.
parseItem(item, i) ==
  IF item = "expr" THEN parse("Expr", i)
  ELSE Then(parse("Expr", i), LAMBDA j, key : Then(eat(j, ":"), LAMBDA k, c : Then(parse("Expr", k), LAMBDA l, value :
         Node(l, [kind |-> "MapPair", key |-> key, value |-> value]))))

Items(item, i, before) ==
  Then(parseItem(item, i), LAMBDA j, n :
    IF At(j, ",") THEN Items(item, j + 1, Append(before, n)) ELSE Node(j, Append(before, n)))

parsePrimaryExpr(i) ==
  CASE t(i).type = "num" -> Node(i + 1, Literal(IF IsFloat(t(i).value) THEN "float" ELSE "int", t(i).value))
    [] t(i).type = "str" -> Node(i + 1, Literal("string", t(i).value))
    [] Is(i, {"true", "false"}) -> Node(i + 1, Literal("bool", t(i).value))
    [] At(i, "super") -> Node(i + 1, [kind |-> "SuperExpr"])
    [] IsId(i) \/ At(i, "self") -> Node(i + 1, Identifier(t(i).value))
    [] At(i, "(") -> Then(parse("Expr", i + 1), LAMBDA j, e : Then(eat(j, ")"), LAMBDA k, c : Node(k, e)))
    [] At(i, "[") ->
         Then(Elements("expr", i + 1, "]"), LAMBDA j, es : Node(j, [kind |-> "ListLiteral", items |-> es]))
    [] At(i, "{") ->
         Then(Elements("pair", i + 1, "}"), LAMBDA j, ps : Node(j, [kind |-> "MapLiteral", pairs |-> ps]))
    [] OTHER -> Unexpected(i)

parseMemberName(i) == IF t(i).type \in {"id", "kw"} THEN Node(i + 1, t(i).value) ELSE Unexpected(i)

MorePostfix(i, e) ==
  CASE At(i, "(") ->
         Then(Elements("expr", i + 1, ")"), LAMBDA j, as :
           MorePostfix(j, [kind |-> "CallExpr", callee |-> e, args |-> as]))
    [] At(i, "[") ->
         Then(parse("Expr", i + 1), LAMBDA j, x : Then(eat(j, "]"), LAMBDA k, c :
           MorePostfix(k, [kind |-> "IndexExpr", target |-> e, index |-> x])))
    [] At(i, ".") ->
         Then(parseMemberName(i + 1), LAMBDA j, x :
           MorePostfix(j, [kind |-> "MemberExpr", target |-> e, name |-> x]))
    [] Is(i, {"++", "--"}) -> MorePostfix(i + 1, [kind |-> "PostfixExpr", op |-> t(i).value, expr |-> e])
    [] OTHER -> Node(i, e)

parsePostfixExpr(i) == Then(parsePrimaryExpr(i), MorePostfix)

\* The operand of an operator is a postfix expression; that of a cast may
\* have an operator.
parseUnaryExpr(i) ==
  CASE At(i, "(") /\ Is(i + 1, {"int", "float", "byte"}) ->
         Then(parse("Type", i + 1), LAMBDA j, type : Then(eat(j, ")"), LAMBDA k, c : Then(parse("Unary", k), LAMBDA l, e :
           Node(l, [kind |-> "CastExpr", targetType |-> type, expr |-> e]))))
    [] t(i).value \in PrefixOps ->
         IF t(i).type # "sym" THEN Unexpected(i)
         ELSE Then(parsePostfixExpr(i + 1), LAMBDA j, e :
                Node(j, [kind |-> "UnaryExpr", op |-> t(i).value, expr |-> e]))
    [] OTHER -> parsePostfixExpr(i)

-----------------------------------------------------------------------------
\* Statements.

RECURSIVE Stmts(_, _, _), Catches(_, _), Cases(_, _)

Parenthesised(i) ==
  Then(eat(i, "("), LAMBDA j, a : Then(parse("Expr", j), LAMBDA k, e : Then(eat(k, ")"), LAMBDA l, c : Node(l, e))))

\* The statements up to a token of stops, which is left.
Stmts(i, stops, before) ==
  CASE Is(i, stops) -> Node(i, before)
    [] At(i, "eof") /\ stops = {"}"} -> Error(i, "E1002")
    [] OTHER -> Then(parse("Stmt", i), LAMBDA j, s : Stmts(j, stops, Append(before, s)))

parseBlock(i) ==
  Then(eat(i, "{"), LAMBDA j, a : Then(Stmts(j, {"}"}, <<>>), LAMBDA k, ss :
    Node(k + 1, [kind |-> "Block", stmts |-> ss])))

Initializer(i) == IF At(i, "=") THEN Optional(parse("Expr", i + 1)) ELSE Nothing(i)

VarDecl(type, x, init, const) ==
  [kind |-> "VarDecl", declaredType |-> type, name |-> x, init |-> init, isConst |-> const]

parseVarDecl(i) ==
  IF At(i, "var")
  THEN Then(eatId(i + 1), LAMBDA j, x : Then(eat(j, "="), LAMBDA k, c : Then(parse("Expr", k), LAMBDA l, e :
         Node(l, VarDecl(<<>>, x, <<e>>, FALSE)))))
  ELSE LET const == At(i, "const")
       IN  Then(parse("Type", IF const THEN i + 1 ELSE i), LAMBDA j, type : Then(eatId(j), LAMBDA k, x :
             Then(Initializer(k), LAMBDA l, init : Node(l, VarDecl(<<type>>, x, init, const)))))

parseAssign(i) ==
  Then(parsePostfixExpr(i), LAMBDA j, target :
    IF ~Is(j, AssignOps) THEN Unexpected(j)
    ELSE Then(parse("Expr", j + 1), LAMBDA k, e :
           Node(k, [kind |-> "AssignStmt", target |-> target, op |-> t(j).value, expr |-> e])))

\* A statement that ends with ;.
Ended(r) == Then(r, LAMBDA j, s : Then(eat(j, ";"), LAMBDA k, c : Node(k, s)))

parseExprStmt(i) == Then(parse("Expr", i), LAMBDA j, e : Node(j, [kind |-> "ExprStmt", expr |-> e]))

parseIfStmt(i) ==
  Then(Parenthesised(i + 1), LAMBDA j, c : Then(parse("Stmt", j), LAMBDA k, a :
    Then(IF At(k, "else") THEN Optional(parse("Stmt", k + 1)) ELSE Nothing(k), LAMBDA l, b :
      Node(l, [kind |-> "IfStmt", cond |-> c, thenBranch |-> a, elseBranch |-> b]))))

parseWhileStmt(i) ==
  Then(Parenthesised(i + 1), LAMBDA j, c : Then(parse("Stmt", j), LAMBDA k, b :
    Node(k, [kind |-> "WhileStmt", cond |-> c, body |-> b])))

parseDoWhileStmt(i) ==
  Then(parse("Stmt", i + 1), LAMBDA j, b : Then(eat(j, "while"), LAMBDA k, w : Ended(Then(Parenthesised(k), LAMBDA l, c :
    Node(l, [kind |-> "DoWhileStmt", body |-> b, cond |-> c])))))

\* The variable of a loop over a sequence, with its type if it has one.
parseIterDecl(i) ==
  IF At(i, "var") THEN Then(eatId(i + 1), LAMBDA j, x : Node(j, [declaredType |-> <<>>, name |-> x]))
  ELSE Then(parse("Type", i), LAMBDA j, type : Then(eatId(j), LAMBDA k, x :
         Node(k, [declaredType |-> <<type>>, name |-> x])))

\* One of the first and the last clause of a classic loop, which may be missing.
Clause(i, end, decls) ==
  CASE At(i, end) -> Nothing(i)
    [] ~At(i, end) /\ decls /\ (At(i, "var") \/ looksLikeTypedVarDecl(i)) -> Optional(parseVarDecl(i))
    [] ~At(i, end) /\ ~(decls /\ (At(i, "var") \/ looksLikeTypedVarDecl(i))) ->
         Optional(IF looksLikeAssignStmt(i) THEN parseAssign(i) ELSE parse("Expr", i))

parseClassicFor(i) ==
  Then(Clause(i, ";", TRUE), LAMBDA j, init : Then(eat(j, ";"), LAMBDA k, s :
    Then(IF At(k, ";") THEN Nothing(k) ELSE Optional(parse("Expr", k)), LAMBDA l, cond : Then(eat(l, ";"), LAMBDA m, r :
      Then(Clause(m, ")", FALSE), LAMBDA n, step : Then(eat(n, ")"), LAMBDA o, c : Then(parse("Stmt", o), LAMBDA p, body :
        Node(p, [kind |-> "ForStmt", forKind |-> "classic", init |-> init, cond |-> cond, step |-> step,
                 body |-> body]))))))))

\* for takes an of or an in before the next ) for the sign of a loop over a
\* sequence, and comes back when it does not follow the variable.
parseForStmt(i) ==
  Then(eat(i + 1, "("), LAMBDA j, a :
    IF ~((At(j, "var") \/ looksLikeTypeStart(j)) /\ findUntil(j, {"of", "in"})) THEN parseClassicFor(j)
    ELSE Then(parseIterDecl(j), LAMBDA k, x :
           IF ~Is(k, {"of", "in"}) THEN parseClassicFor(j)
           ELSE Then(parse("Expr", k + 1), LAMBDA l, e : Then(eat(l, ")"), LAMBDA m, c :
                  Then(parse("Stmt", m), LAMBDA n, body : Node(n, [kind |-> "ForStmt", forKind |-> t(k).value, iterVar |-> x, iterExpr |-> e,
                           body |-> body]))))))

\* The clauses of a switch, up to its brace: the clauses so far and the
\* statements of the default, if there was one.
Cases(i, before) ==
  CASE At(i, "}") -> Node(i + 1, before)
    [] At(i, "case") ->
         Then(parse("Expr", i + 1), LAMBDA j, v : Then(eat(j, ":"), LAMBDA k, c :
           Then(Stmts(k, {"case", "default", "}"}, <<>>), LAMBDA l, ss :
             Cases(l, [before EXCEPT !.cases = Append(@, [value |-> v, stmts |-> ss])]))))
    [] At(i, "default") ->
         Then(eat(i + 1, ":"), LAMBDA k, c : Then(Stmts(k, {"case", "}"}, <<>>), LAMBDA l, ss :
           Cases(l, [before EXCEPT !.defaultCase = <<ss>>])))
    [] OTHER -> Unexpected(i)

parseSwitchStmt(i) ==
  Then(Parenthesised(i + 1), LAMBDA j, e : Then(eat(j, "{"), LAMBDA k, a :
    Then(Cases(k, [cases |-> <<>>, defaultCase |-> <<>>]), LAMBDA l, cs :
      Node(l, [kind |-> "SwitchStmt", expr |-> e, cases |-> cs.cases, defaultCase |-> cs.defaultCase]))))

Catches(i, before) ==
  IF ~At(i, "catch") THEN Node(i, before)
  ELSE Then(eat(i + 1, "("), LAMBDA j, a : Then(parse("Type", j), LAMBDA k, type : Then(eatId(k), LAMBDA l, x :
         Then(eat(l, ")"), LAMBDA m, c : Then(parse("Block", m), LAMBDA n, b :
           Catches(n, Append(before, [type |-> type, name |-> x, block |-> b])))))))

parseTryStmt(i) ==
  Then(parse("Block", i + 1), LAMBDA j, b : Then(Catches(j, <<>>), LAMBDA k, cs :
    Then(IF At(k, "finally") THEN Optional(parse("Block", k + 1)) ELSE Nothing(k), LAMBDA l, f :
      IF cs = <<>> /\ f = <<>> THEN Unexpected(i)
      ELSE Node(l, [kind |-> "TryStmt", tryBlock |-> b, catches |-> cs, finallyBlock |-> f]))))

parseReturnStmt(i) ==
  Then(IF At(i + 1, ";") THEN Nothing(i + 1) ELSE Optional(parse("Expr", i + 1)), LAMBDA j, e :
    Node(j, [kind |-> "ReturnStmt", expr |-> e]))

parseThrowStmt(i) == Then(parse("Expr", i + 1), LAMBDA j, e : Node(j, [kind |-> "ThrowStmt", expr |-> e]))

\* What a statement starts with says what it is; a declaration comes before
\* an assignment, and an assignment before an expression.
parseStmt(i) ==
  CASE At(i, "{") -> parse("Block", i)
    [] Is(i, {"var", "const"}) \/ looksLikeTypedVarDecl(i) -> Ended(parseVarDecl(i))
    [] At(i, "if") -> parseIfStmt(i)
    [] At(i, "while") -> parseWhileStmt(i)
    [] At(i, "do") -> parseDoWhileStmt(i)
    [] At(i, "for") -> parseForStmt(i)
    [] At(i, "switch") -> parseSwitchStmt(i)
    [] At(i, "try") -> parseTryStmt(i)
    [] At(i, "return") -> Ended(parseReturnStmt(i))
    [] At(i, "break") -> Ended(Node(i + 1, [kind |-> "BreakStmt"]))
    [] At(i, "continue") -> Ended(Node(i + 1, [kind |-> "ContinueStmt"]))
    [] At(i, "throw") -> Ended(parseThrowStmt(i))
    [] At(i, "internal") -> Error(i, "E3200")
    [] OTHER -> Ended(IF looksLikeAssignStmt(i) THEN parseAssign(i) ELSE parseExprStmt(i))

-----------------------------------------------------------------------------
\* Declarations.

RECURSIVE Params(_, _), Members(_, _), GroupMembers(_, _), Decls(_, _), ImportItems(_, _), Segments(_, _)

parseParam(i) ==
  Then(parse("Type", i), LAMBDA j, type : Then(eatId(j), LAMBDA k, x :
    Node(IF At(k, "...") THEN k + 1 ELSE k, [type |-> type, name |-> x, variadic |-> At(k, "...")])))

Params(i, before) ==
  Then(parseParam(i), LAMBDA j, p :
    IF At(j, ",") THEN Params(j + 1, Append(before, p)) ELSE Node(j, Append(before, p)))

parseFunctionDecl(i) ==
  Then(eat(i, "function"), LAMBDA h, f : Then(eatId(h), LAMBDA j, x : Then(eat(j, "("), LAMBDA k, a :
    Then(IF At(k, ")") THEN Nothing(k) ELSE Params(k, <<>>), LAMBDA l, ps : Then(eat(l, ")"), LAMBDA m, c :
      Then(eat(m, ":"), LAMBDA n, d : Then(parse("Type", n), LAMBDA o, type : Then(parse("Block", o), LAMBDA p, b :
        Node(p, [kind |-> "FunctionDecl", name |-> x, params |-> ps, retType |-> type, body |-> b])))))))))

parseFieldDecl(i, visibility) ==
  LET const == At(i, "const")
  IN  Then(parse("Type", IF const THEN i + 1 ELSE i), LAMBDA j, type : Then(eatId(j), LAMBDA k, x :
        Ended(Then(Initializer(k), LAMBDA l, init :
          Node(l, [type |-> type, name |-> x, init |-> init, isConst |-> const, visibility |-> visibility])))))

\* The members of a prototype, up to its brace.
Members(i, p) ==
  LET internal   == At(i, "internal")
      visibility == IF internal THEN "internal" ELSE "public"
      j          == IF internal THEN i + 1 ELSE i
  IN  CASE At(i, "}") -> Node(i + 1, p)
        [] internal /\ ~(Is(j, {"function", "const"} \cup TypeWords) \/ IsId(j)) -> Error(j, "E3200")
        [] ~At(i, "}") /\ At(j, "function") ->
             Then(parseFunctionDecl(j), LAMBDA k, f :
               Members(k, [p EXCEPT !.methods = Append(@, f @@ [visibility |-> visibility])]))
        [] OTHER ->
             Then(parseFieldDecl(j, visibility), LAMBDA k, f : Members(k, [p EXCEPT !.fields = Append(@, f)]))

parsePrototypeDecl(i) ==
  LET sealed == At(i, "sealed")
      start  == IF sealed THEN i + 1 ELSE i
  IN  Then(eat(start, "prototype"), LAMBDA h, w : Then(eatId(h), LAMBDA j, x :
        Then(IF At(j, ":") THEN Optional(eatId(j + 1)) ELSE Nothing(j), LAMBDA k, parent : Then(eat(k, "{"), LAMBDA l, a :
          Members(l, [kind |-> "PrototypeDecl", name |-> x, parent |-> parent, fields |-> <<>>, methods |-> <<>>,
                      sealed |-> sealed])))))

parseGroupMember(i) ==
  IF At(i, "internal") THEN Error(i, "E3200")
  ELSE Then(eatId(i), LAMBDA j, x : Then(eat(j, "="), LAMBDA k, c : Then(parse("Expr", k), LAMBDA l, e :
         Node(l, [name |-> x, expr |-> e]))))

\* A comma may stand after the last member of a group.
GroupMembers(i, before) ==
  Then(parseGroupMember(i), LAMBDA j, member :
    IF At(j, ",") /\ ~At(j + 1, "}") THEN GroupMembers(j + 1, Append(before, member))
    ELSE Node(IF At(j, ",") THEN j + 1 ELSE j, Append(before, member)))

parseGroupDecl(i) ==
  Then(parse("Type", i), LAMBDA j, type : Then(eatId(j + 1), LAMBDA k, x : Then(eat(k, "{"), LAMBDA l, a :
    Then(IF At(l, "}") THEN Nothing(l) ELSE GroupMembers(l, <<>>), LAMBDA m, ms : Then(eat(m, "}"), LAMBDA n, c :
      Node(n, [kind |-> "GroupDecl", type |-> type, name |-> x, members |-> ms]))))))

\* The path of a module: any words, with points between them.
Segments(i, before) ==
  LET path == Append(before, t(i).value)
  IN  CASE t(i).type \notin {"id", "kw"} -> Unexpected(i)
        [] t(i).type \in {"id", "kw"} /\ At(i + 1, ".") /\ t(i + 2).type \in {"id", "kw"} -> Segments(i + 2, path)
        [] OTHER -> Node(i + 1, path)

Alias(i) == IF At(i, "as") THEN Optional(eatId(i + 1)) ELSE Nothing(i)

ImportItems(i, before) ==
  Then(eatId(i), LAMBDA j, x : Then(Alias(j), LAMBDA k, alias :
    LET items == Append(before, [name |-> x, alias |-> alias])
    IN  IF At(k, ",") THEN ImportItems(k + 1, items) ELSE Node(k, items)))

\* The names an import takes from the module, if it lists them.
ImportList(i) ==
  CASE ~(At(i, ".") /\ t(i + 1).value = "{") -> Nothing(i)
    [] At(i, ".") /\ t(i + 1).value = "{" /\ At(i + 2, "}") -> Node(i + 3, << <<>> >>)
    [] OTHER -> Then(eat(i + 1, "{"), LAMBDA j, a : Then(ImportItems(j, <<>>), LAMBDA k, ns :
                  Then(eat(k, "}"), LAMBDA l, c : Node(l, <<ns>>))))

parseImportDecl(i) ==
  LET isPath == t(i + 1).type = "str"
  IN  Then(IF isPath THEN Node(i + 2, t(i + 1).value) ELSE Segments(i + 1, <<>>), LAMBDA j, path :
        Then(Alias(j), LAMBDA k, alias : Ended(Then(IF alias = <<>> THEN ImportList(k) ELSE Nothing(k), LAMBDA l, items :
          Node(l, [kind |-> "ImportDecl", path |-> path, isPath |-> isPath, alias |-> alias, items |-> items])))))

Decls(i, program) ==
  LET Declared(r) == Then(r, LAMBDA j, d : Decls(j, [program EXCEPT !.decls = Append(@, d)]))
  IN  CASE At(i, "eof") -> Node(i, program)
        [] At(i, "import") ->
             Then(parseImportDecl(i), LAMBDA j, d : Decls(j, [program EXCEPT !.imports = Append(@, d)]))
        [] Is(i, {"sealed", "prototype"}) -> Declared(parsePrototypeDecl(i))
        [] looksLikeGroupDecl(i) -> Declared(parseGroupDecl(i))
        [] At(i, "function") -> Declared(parseFunctionDecl(i))
        [] At(i, "internal") ->
             IF ~At(i + 1, "function") THEN Error(i, "E3200")
             ELSE Declared(Then(parseFunctionDecl(i + 1), LAMBDA j, f : Node(j, f @@ [visibility |-> "internal"])))
        [] OTHER -> Unexpected(i)

parse(what, i) ==
  CASE what = "Type"    -> parseType(i)
    [] what = "Unary"   -> parseUnaryExpr(i)
    [] what = "Expr"    -> parseExpr(i)
    [] what = "Block"   -> parseBlock(i)
    [] what = "Stmt"    -> parseStmt(i)
    [] what = "Program" -> Decls(i, [kind |-> "Program", imports |-> <<>>, decls |-> <<>>])

parseProgram == parse("Program", 1)
=============================================================================
