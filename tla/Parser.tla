------------------------------- MODULE Parser -------------------------------
(***************************************************************************)
(* The parser (parser/parser.c): recursive descent over the tokens of a    *)
(* text, operators by precedence, panic mode and synchronize after an      *)
(* error.                                                                  *)
(*                                                                         *)
(* A token is <<type>> or <<type, value>>: names and literals carry a      *)
(* value, an operator's type is its spelling.  <<"INVALID", "NULL">> is    *)
(* the scanner's invalid_token, which has no place in the text.  A parsing *)
(* function takes the parser and gives [p, e], the parser after it and the *)
(* node, NoNode for NULL.  The nodes are those of Sources.                 *)
(*                                                                         *)
(* The process may stop in the middle of a function: crash (NULL is        *)
(* dereferenced), exit, or wild (text is read beyond its end).  The token  *)
(* of a stopped parser is EOF for good, so that every loop is left.        *)
(***************************************************************************)
EXTENDS Types, TLC

CONSTANTS MaxArgs,      \* 255: elements, arguments, parameters, pairs
          MaxMembers    \* UINT16_MAX: members of a struct, types of a union

ASSUME BoundsAssumption == MaxArgs \in Nat \ {0} /\ MaxMembers \in Nat \ {0}

VARIABLES parser,  \* mtr_parser, with its scanner: text and pos
          ast      \* the global declarations read so far

vars == <<parser, ast>>

NoNode == [k |-> "NULL"]
Eof == <<"EOF">>
InvalidToken == <<"INVALID", "NULL">>

Parsed(p, e) == [p |-> p, e |-> e]

(* A node made of what has been parsed; one more element before a list. *)
Build(node(_), parsed) == Parsed(parsed.p, node(parsed.e))
Prepend(e, rest) == Parsed(rest.p, <<e>> \o rest.e)

Check(p, type) == p.token[1] = type
TokenAt(p, i) == IF i <= Len(p.text) THEN p.text[i] ELSE Eof

Stop(p, how) == IF p.end # "" THEN p ELSE [p EXCEPT !.end = how, !.token = Eof]

-----------------------------------------------------------------------------
(* Tokens, errors, recovery.                                               *)

(* parser_error: only the first error of a panic is reported.  Reporting   *)
(* looks for the line of a token; invalid_token is in none.                *)
ParserError(p) == IF p.token = InvalidToken /\ ~p.panic THEN Stop(p, "crash")
                  ELSE [p EXCEPT !.error = TRUE, !.panic = TRUE]

FirstNot(p, i, type) ==
    CHOOSE j \in i .. Len(p.text) + 1 :
        TokenAt(p, j)[1] # type /\ \A h \in i .. j - 1 : TokenAt(p, h)[1] = type

(* Comments are skipped, then invalid tokens, each an error: a comment     *)
(* behind an invalid token is the next token.                              *)
Advance(p) ==
    LET move(q, next) == IF q.end # "" THEN q
                         ELSE [q EXCEPT !.pos = next, !.token = TokenAt(p, next)]
        over(first, next) ==
            move(IF next = first THEN p ELSE ParserError([p EXCEPT !.token = TokenAt(p, first)]), next)
        from(first) == over(first, FirstNot(p, first, "INVALID"))
    IN CASE p.end # "" -> p
         [] p.end = "" /\ p.token = Eof -> Stop(p, "wild")
         [] OTHER -> from(FirstNot(p, p.pos + 1, "COMMENT"))

(* The token behind the current one, also when it is a comment. *)
Peek(p) == TokenAt(p, p.pos + 1)

\* Mutant: a token that is not there is no error.
ConsumeQuietly(p, type) == IF Check(p, type) THEN [p |-> Advance(p), token |-> p.token]
                           ELSE [p |-> p, token |-> InvalidToken]

(* Consume gives the token, or invalid_token and stays. *)
Consume(p, type) == IF Check(p, type) THEN [p |-> Advance(p), token |-> p.token]
                    ELSE [p |-> ParserError(p), token |-> InvalidToken]

(* What has been parsed, and the token that ends it. *)
Ended(parsed, type) == Parsed(Consume(parsed.p, type).p, parsed.e)

Anchors == {"Int", "Float", "Bool", "fn", "if", "while", "{", "}"}

RECURSIVE SkipToAnchor(_)
SkipToAnchor(p) == IF p.token[1] \in Anchors \union {"EOF"} THEN p ELSE SkipToAnchor(Advance(p))

Synchronize(p) == IF p.panic THEN SkipToAnchor([p EXCEPT !.panic = FALSE]) ELSE p

(* The loop that array and map literals, arguments, parameters, unions and *)
(* structs have in common: it ends at the closing token, where no          *)
(* separator follows an item, or when there are max items.                 *)
List(Item(_), p, close, separator, max) ==
    LET RECURSIVE Items(_, _)
        Items(q, left) ==
            LET next(e, comma) == IF comma.token = InvalidToken \/ left = 1 THEN Parsed(comma.p, <<e>>)
                                  ELSE Prepend(e, Items(comma.p, left - 1))
                from(item) == IF Check(item.p, close) THEN Parsed(Advance(item.p), <<item.e>>)
                              ELSE next(item.e, Consume(item.p, separator))
            IN from(Item(q))
    IN Items(p, max)

(* A list in parentheses, which may be empty. *)
Listed(Item(_), p) == IF Check(p, ")") THEN Parsed(Advance(p), <<>>)
                      ELSE List(Item, p, ")", ",", MaxArgs)

-----------------------------------------------------------------------------
(* Expressions.                                                            *)

LOGIC == 1
EQUALITY == 2
COMPARISON == 3
TERM == 4
FACTOR == 5
UNARY == 6
CALL == 7
SUB == 8
ACCESS == 9

(* The precedences of rules, of the tokens that are operators. *)
Precedence(type) ==
    CASE type \in {"&&", "||"} -> LOGIC
      [] type \in {"=", "!="} -> EQUALITY
      [] type \in {"<", ">", "<=", ">="} -> COMPARISON
      [] type \in {"+", "-"} -> TERM
      [] type \in {"*", "/", "//", "%"} -> FACTOR
      [] type = "!" -> UNARY
      [] type = "(" -> CALL
      [] type = "[" -> SUB
      [] type = "." -> ACCESS
      [] OTHER -> 0

Infixes  == {"&&", "||", "=", "!=", "<", ">", "<=", ">=", "+", "-", "*", "/", "//", "%", "(", "[", "."}
Literals == {"INT_LITERAL", "FLOAT_LITERAL", "STRING_LITERAL", "true", "false"}
Prefixes == Literals \union {"IDENTIFIER", "-", "!", "(", "[", "{"}

LiteralType(type) == CASE type = "INT_LITERAL" -> IntT
                       [] type = "FLOAT_LITERAL" -> FloatT
                       [] type = "STRING_LITERAL" -> StringT
                       [] type \in {"true", "false"} -> BoolT

RECURSIVE ParsePrecedence(_, _), InfixLoop(_, _)

Expression(p) == ParsePrecedence(p, LOGIC)

Literal(p, token) ==
    Parsed(p, [k |-> "LITERAL", type |-> LiteralType(token[1]),
               v |-> IF Len(token) = 2 THEN token[2] ELSE IF token[1] = "true" THEN 1 ELSE 0])

Primary(p, token) == Parsed(p, [k |-> "PRIMARY", name |-> token[2]])

Grouping(p) == Build(LAMBDA e : [k |-> "GROUPING", expr |-> e], Ended(Expression(p), ")"))

(* The operand of a minus may be a product, that of ! is a call or less. *)
Unary(p, op) ==
    Build(LAMBDA e : [k |-> "UNARY", op |-> op, right |-> e], ParsePrecedence(p, Precedence(op) + 1))

\* Mutant: the right operand may hold operators of the same precedence.
BinaryFromRight(p, op, left) ==
    Build(LAMBDA e : [k |-> "BINARY", op |-> op, left |-> left, right |-> e],
          ParsePrecedence(p, Precedence(op)))

Binary(p, op, left) ==
    Build(LAMBDA e : [k |-> "BINARY", op |-> op, left |-> left, right |-> e],
          ParsePrecedence(p, Precedence(op) + 1))

ArrayLiteral(p) ==
    Build(LAMBDA es : [k |-> "ARRAY", elems |-> es], List(Expression, p, "]", ",", MaxArgs))

Entry(p) ==
    LET pair(key) == Build(LAMBDA e : <<key.e, e>>, Expression(key.p))
    IN pair(Ended(Expression(p), ":"))

MapLiteral(p) ==
    LET flat(pairs) == [i \in 1 .. 2 * Len(pairs) |-> pairs[(i + 1) \div 2][2 - (i % 2)]]
    IN Build(LAMBDA es : [k |-> "MAP", elems |-> flat(es)], List(Entry, p, "}", ",", MaxArgs))

Call(p, callable) ==
    Build(LAMBDA es : [k |-> "CALL", fn |-> callable, args |-> es], Listed(Expression, p))

Subscript(p, object) ==
    Build(LAMBDA e : [k |-> "SUBSCRIPT", object |-> object, element |-> e], Ended(Expression(p), "]"))

(* The element is read with the precedence of the dot itself: a.b.c is a   *)
(* member b.c of a.                                                        *)
Access(p, object) ==
    Build(LAMBDA e : [k |-> "ACCESS", object |-> object, element |-> e], ParsePrecedence(p, ACCESS))

Prefix(p, token) ==
    CASE token[1] \in Literals -> Literal(p, token)
      [] token[1] = "IDENTIFIER" -> Primary(p, token)
      [] token[1] \in {"-", "!"} -> Unary(p, token[1])
      [] token[1] = "(" -> Grouping(p)
      [] token[1] = "[" -> ArrayLiteral(p)
      [] token[1] = "{" -> MapLiteral(p)

Infix(p, token, left) ==
    CASE token[1] = "(" -> Call(p, left)
      [] token[1] = "[" -> Subscript(p, left)
      [] token[1] = "." -> Access(p, left)
      [] OTHER -> Binary(p, token[1], left)

InfixLoop(left, precedence) ==
    LET type == left.p.token[1]
    IN IF type \in Infixes /\ precedence <= Precedence(type)
       THEN InfixLoop(Infix(Advance(left.p), left.p.token, left.e), precedence)
       ELSE left

(* A token that begins no expression is read all the same. *)
ParsePrecedence(p, precedence) ==
    IF p.token[1] \in Prefixes THEN InfixLoop(Prefix(Advance(p), p.token), precedence)
    ELSE Parsed(ParserError(Advance(p)), NoNode)

-----------------------------------------------------------------------------
(* Types.  The parser's type list is the function from the names of the    *)
(* structs and unions read so far; the first of a name is found.           *)

TypeNames == [x \in {"Any", "Int", "Float", "Bool", "String"} |->
                CASE x = "Any" -> AnyT [] x = "Int" -> IntT [] x = "Float" -> FloatT
                  [] x = "Bool" -> BoolT [] x = "String" -> StringT]

RECURSIVE ParseVarType(_)

ArrayOrMap(p) ==
    LET from(type1) == IF Check(type1.p, ",")
                       THEN Build(LAMBDA t : MapOf(type1.e, t), ParseVarType(Advance(type1.p)))
                       ELSE Build(ArrayOf, type1)
    IN from(ParseVarType(p))

(* -> and a type, or nothing for Void. *)
ReturnType(p) == IF Check(p, "->") THEN ParseVarType(Advance(p)) ELSE Parsed(p, VoidT)

FunctionType(p) ==
    LET from(params) == Build(LAMBDA t : FnOf(t, params.e), ReturnType(params.p))
    IN from(Listed(ParseVarType, p))

ParseVarType(p) ==
    CASE p.token[1] \in DOMAIN TypeNames -> Parsed(Advance(p), TypeNames[p.token[1]])
      [] Check(p, "[") -> Ended(ArrayOrMap(Advance(p)), "]")
      [] Check(p, "(") -> FunctionType(Advance(p))
      [] Check(p, "IDENTIFIER") ->
           IF p.token[2] \in DOMAIN p.types THEN Parsed(Advance(p), p.types[p.token[2]])
           ELSE Parsed(ParserError(Advance(p)), Null)
      [] OTHER -> Parsed(ParserError(p), Null)

-----------------------------------------------------------------------------
(* Statements.                                                             *)

NameOf(token) == IF token = InvalidToken THEN "" ELSE token[2]

RECURSIVE Declaration(_), Declarations(_), FuncDecl(_)

(* An expression that is missing is dereferenced. *)
ExprStmt(p) ==
    LET to(e) == Build(LAMBDA value : [k |-> "ASSIGNMENT", right |-> e.e, expr |-> value],
                       Expression(Consume(e.p, ":=").p))
        from(e) == CASE e.e = NoNode -> Parsed(Stop(e.p, "crash"), NoNode)
                     [] e.e.k \in {"ACCESS", "SUBSCRIPT", "PRIMARY"} -> Ended(to(e), ";")
                     [] e.e.k = "CALL" -> Ended(Parsed(e.p, [k |-> "CALL_STMT", call |-> e.e]), ";")
                     [] OTHER -> Ended(Parsed(ParserError(e.p), NoNode), ";")
    IN from(Expression(p))

Declarations(p) ==
    LET from(first) == Prepend(first.e, Declarations(Synchronize(first.p)))
    IN IF p.token[1] \in {"}", "EOF"} THEN Parsed(p, <<>>) ELSE from(Declaration(p))

Stmts(p, k) == Build(LAMBDA ss : [k |-> k, stmts |-> ss], Ended(Declarations(Consume(p, "{").p), "}"))
Block(p) == Stmts(p, "BLOCK")
Scope(p) == Stmts(p, "SCOPE")

Branch(p) == IF Check(p, "{") THEN Block(p) ELSE Declaration(p)

IfStmt(p) ==
    LET node(cond, then, otherwise) ==
            [k |-> "IF", cond |-> cond, then |-> then, otherwise |-> otherwise]
        then(cond, s) == IF Check(s.p, "else")
                         THEN Build(LAMBDA e : node(cond, s.e, <<e>>), Branch(Advance(s.p)))
                         ELSE Parsed(s.p, node(cond, s.e, <<>>))
        from(cond) == then(cond.e, Branch(cond.p))
    IN from(Ended(Expression(Advance(p)), ":"))

WhileStmt(p) ==
    LET from(cond) == Build(LAMBDA s : [k |-> "WHILE", cond |-> cond.e, body |-> s], Branch(cond.p))
    IN from(Ended(Expression(Advance(p)), ":"))

(* The semicolon of a return without a value is not read. *)
ReturnStmt(p) ==
    LET node(e, from) == [k |-> "RETURN", expr |-> e, from |-> from]
        of(next) == IF Check(next, ";") THEN Parsed(next, node(NoNode, Null))
                    ELSE Ended(Build(LAMBDA e : node(e, p.current), Expression(next)), ";")
    IN of(Advance(p))

Statement(p) == CASE Check(p, "if") -> IfStmt(p)
                  [] Check(p, "while") -> WhileStmt(p)
                  [] Check(p, "{") -> Scope(p)
                  [] Check(p, "return") -> ReturnStmt(p)
                  [] OTHER -> ExprStmt(p)

Optional(e) == IF e = NoNode THEN <<>> ELSE <<e>>

(* A type and a name: a variable, a parameter or a member. *)
Named(p) ==
    LET node(type, name) == Parsed(name.p, [k |-> "VAR", type |-> <<type>>, name |-> NameOf(name.token),
                                            value |-> <<>>])
        of(type) == node(type.e, Consume(type.p, "IDENTIFIER"))
    IN of(ParseVarType(p))

Variable(p) ==
    LET of(var) == IF Check(var.p, ":=")
                   THEN Build(LAMBDA e : [var.e EXCEPT !.value = Optional(e)], Expression(Advance(var.p)))
                   ELSE var
    IN Ended(of(Named(p)), ";")

(* current is what a return of the function has to be: the code keeps the  *)
(* function itself.                                                        *)
FuncDecl(p) ==
    LET body(q, fn) ==
            CASE Check(q, "...") -> Parsed(Advance(q), [fn EXCEPT !.k = "NATIVE_FN"])
              [] Check(q, ":=") -> Ended(Build(LAMBDA e : fn @@ [body |-> [k |-> "RETURN", expr |-> e, from |-> fn.ret]],
                                               Expression(Advance(q))), ";")
              [] OTHER -> Build(LAMBDA block : fn @@ [body |-> block], Block(q))
        typed(name, params, ret) ==
            body([ret.p EXCEPT !.current = ret.e],
                 [k |-> "FN", name |-> NameOf(name.token), params |-> params.e, ret |-> ret.e])
        listed(name, params) == typed(name, params, ReturnType(params.p))
        named(name) == listed(name, Listed(Named, Consume(name.p, "(").p))
    IN named(Consume(Advance(p), "IDENTIFIER"))

(* A native closure is an error; the function around it is then lost. *)
Closure(p) ==
    LET of(fn) == IF fn.e.k = "NATIVE_FN" THEN Parsed(ParserError(fn.p), NoNode)
                  ELSE Parsed([fn.p EXCEPT !.current = p.current], [k |-> "CLOSURE", function |-> fn.e])
    IN of(FuncDecl(p))

(* An expression before := would be a variable's name: an identifier       *)
(* begins a declaration only before another one.                           *)
Declaration(p) ==
    CASE \/ p.token[1] \in {"Int", "Float", "Bool", "String", "[", "("}
         \/ Check(p, "IDENTIFIER") /\ Peek(p)[1] = "IDENTIFIER" -> Variable(p)
      [] Check(p, "Any") -> Parsed(Stop(ParserError(p), "exit"), NoNode)
      [] Check(p, "fn") -> Closure(p)
      [] OTHER -> Statement(p)

Register(p, name, type) ==
    IF name \in DOMAIN p.types THEN p ELSE [p EXCEPT !.types = @ @@ (name :> type)]

Limited(list) == IF Len(list.e) > MaxArgs THEN ParserError(list.p) ELSE list.p

UnionType(p, name) ==
    LET of(types) == Parsed(Register(Limited(types), name, UnionOf(name, types.e)),
                            [k |-> "UNION", name |-> name, alternatives |-> types.e])
    IN of(List(ParseVarType, Advance(p), "]", "|", MaxMembers))

StructType(p, name) ==
    LET symbols(ms) == [i \in DOMAIN ms |-> [name |-> ms[i].name, type |-> ms[i].type[1]]]
        of(members) == Parsed(Register(Limited(members), name, StructOf(name, symbols(members.e))),
                              [k |-> "STRUCT", name |-> name, members |-> members.e])
    IN of(List(Variable, Advance(p), "}", ",", MaxMembers))

TypeDecl(p) ==
    LET of(next, name) == CASE Check(next, "[") -> UnionType(next, name)
                            [] Check(next, "{") -> StructType(next, name)
                            [] OTHER -> Parsed(ParserError(next), NoNode)
        named(name) == of(Consume(name.p, ":=").p, NameOf(name.token))
    IN named(Consume(Advance(p), "IDENTIFIER"))

-----------------------------------------------------------------------------
(* mtr_parse: a turn of its loop is a step.                                *)

MtrParserInit(text) ==
    /\ parser = Advance([text |-> text, pos |-> 0, token |-> <<"START">>, error |-> FALSE,
                         panic |-> FALSE, current |-> Null, types |-> [x \in {} |-> Null],
                         end |-> ""])
    /\ ast = <<>>

(* A declaration is written to the block, unless the process is gone. *)
Keep(declared) == /\ parser' = Synchronize(declared.p)
                  /\ ast' = IF declared.p.end = "" THEN Append(ast, declared.e) ELSE ast

Function == /\ Check(parser, "fn")
            /\ Keep(FuncDecl(parser))

(* A type that is none ends the parse, with what has been read. *)
Type == /\ Check(parser, "type")
        /\ LET of(declared) == IF declared.e = NoNode
                                THEN parser' = Stop(declared.p, "parsed") /\ UNCHANGED ast
                                ELSE Keep(declared)
           IN of(TypeDecl(parser))

\* Mutant: the loop goes on.
UnexpectedGoesOn == /\ parser.token[1] \notin {"fn", "type", "EOF"}
                    /\ parser' = Synchronize(ParserError(parser))
                    /\ UNCHANGED ast

(* What is no function and no type ends the process. *)
Unexpected == /\ parser.token[1] \notin {"fn", "type", "EOF"}
              /\ parser' = Stop(ParserError(parser), "exit")
              /\ UNCHANGED ast

Finish == /\ parser.end = ""
          /\ Check(parser, "EOF")
          /\ parser' = Stop(parser, "parsed")
          /\ UNCHANGED ast

(* The parse is over. *)
Over == parser.end # "" /\ UNCHANGED vars

Next == Function \/ Type \/ Unexpected \/ Finish \/ Over
=============================================================================
