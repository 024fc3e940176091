-------------------------------- MODULE Text --------------------------------
(***************************************************************************)
(* The tokens of a syntax tree: how a program is written down.  It is the  *)
(* reference the parser is compared with, and knows the grammar from the   *)
(* side of the writer: an operand that is an operator of its own is put in *)
(* parentheses where its operators bind less tightly than those around it. *)
(* In a tree that was read they already stand there, as GROUPINGs.         *)
(***************************************************************************)
EXTENDS Types, SequencesExt

LOCAL Word(w) == <<<<w>>>>
LOCAL Ident(x) == <<<<"IDENTIFIER", x>>>>

\* The texts of several things, one after the other, and with a separator in between.
LOCAL Each(TextOf(_), things) == FoldLeft(LAMBDA text, x : text \o TextOf(x), <<>>, things)
LOCAL Separated(TextOf(_), separator, things) ==
    IF things = <<>> THEN <<>>
    ELSE TextOf(Head(things)) \o Each(LAMBDA x : Word(separator) \o TextOf(x), Tail(things))

-----------------------------------------------------------------------------
(* Types.                                                                  *)

RECURSIVE TypeText(_)
TypeText(t) ==
    LET result(ret) == IF ret = VoidT THEN <<>> ELSE Word("->") \o TypeText(ret)
    IN CASE t = AnyT -> Word("Any")     [] t = IntT -> Word("Int")
         [] t = FloatT -> Word("Float") [] t = BoolT -> Word("Bool")
         [] t = StringT -> Word("String")
         [] t[1] = "ARRAY" -> Word("[") \o TypeText(t[2]) \o Word("]")
         [] t[1] = "MAP" -> Word("[") \o TypeText(t[2]) \o Word(",") \o TypeText(t[3]) \o Word("]")
         [] t[1] = "FN" -> Word("(") \o Separated(TypeText, ",", t[3]) \o Word(")") \o result(t[2])
         [] t[1] \in {"STRUCT", "UNION"} -> Ident(t[2])

ResultText(ret) == IF ret = VoidT THEN <<>> ELSE Word("->") \o TypeText(ret)

-----------------------------------------------------------------------------
(* Expressions.                                                            *)

\* The operators, from those that bind least.
Operators == <<{"&&", "||"}, {"=", "!="}, {"<", ">", "<=", ">="}, {"+", "-"}, {"*", "/", "//", "%"}>>

Tightness(op) == CHOOSE i \in DOMAIN Operators : op \in Operators[i]

LiteralText(e) ==
    CASE e.type = IntT -> <<<<"INT_LITERAL", e.v>>>>
      [] e.type = FloatT -> <<<<"FLOAT_LITERAL", e.v>>>>
      [] e.type = StringT -> <<<<"STRING_LITERAL", e.v>>>>
      [] e.type = BoolT -> Word(IF e.v = 1 THEN "true" ELSE "false")

\* An operand, in parentheses if it is a binary operator of less than some tightness,
\* and an operand of a call, a subscript or an access.
RECURSIVE ExprText(_)
LOCAL Operand(e, tightness) ==
    IF e.k = "BINARY" /\ Tightness(e.op) < tightness THEN Word("(") \o ExprText(e) \o Word(")")
    ELSE ExprText(e)
LOCAL Object(e, simple) ==
    IF e.k \in {"BINARY", "UNARY"} \union simple THEN Word("(") \o ExprText(e) \o Word(")")
    ELSE ExprText(e)

\* Of operators that bind alike the left one comes first.  Unary minus takes a whole
\* product, ! a single operand.
ExprText(e) ==
    LET list(es) == Separated(ExprText, ",", es)
        pair(i)  == ExprText(e.elems[2 * i - 1]) \o Word(":") \o ExprText(e.elems[2 * i])
    IN CASE e.k = "LITERAL" -> LiteralText(e)
         [] e.k = "PRIMARY" -> Ident(e.name)
         [] e.k = "GROUPING" -> Word("(") \o ExprText(e.expr) \o Word(")")
         [] e.k = "BINARY" -> Operand(e.left, Tightness(e.op)) \o Word(e.op)
                                \o Operand(e.right, Tightness(e.op) + 1)
         [] e.k = "UNARY" -> Word(e.op) \o Operand(e.right, IF e.op = "-" THEN 5 ELSE 6)
         [] e.k = "ARRAY" -> Word("[") \o list(e.elems) \o Word("]")
         [] e.k = "MAP" -> Word("{") \o Separated(pair, ",", [i \in 1 .. Len(e.elems) \div 2 |-> i])
                             \o Word("}")
         [] e.k = "CALL" -> Object(e.fn, {}) \o Word("(") \o list(e.args) \o Word(")")
         [] e.k = "SUBSCRIPT" -> Object(e.object, {}) \o Word("[") \o ExprText(e.element) \o Word("]")
         [] e.k = "ACCESS" -> Object(e.object, {"ACCESS"}) \o Word(".") \o ExprText(e.element)

-----------------------------------------------------------------------------
(* Statements and declarations.                                            *)

RECURSIVE StmtText(_)

LOCAL ParamText(v) == TypeText(v.type[1]) \o Ident(v.name)

LOCAL BodyText(body) == IF body.k = "RETURN" THEN Word(":=") \o ExprText(body.expr) \o Word(";")
                        ELSE StmtText(body)

FunctionText(fn) ==
    Word("fn") \o Ident(fn.name)
      \o Word("(") \o Separated(ParamText, ",", fn.params) \o Word(")")
      \o ResultText(fn.ret)
      \o (IF fn.k = "NATIVE_FN" THEN Word("...") ELSE BodyText(fn.body))

StmtText(s) ==
    LET value == IF s.value = <<>> THEN <<>> ELSE Word(":=") \o ExprText(s.value[1])
        else  == IF s.otherwise = <<>> THEN <<>> ELSE Word("else") \o StmtText(s.otherwise[1])
    IN CASE s.k = "VAR" -> ParamText(s) \o value \o Word(";")
         [] s.k = "ASSIGNMENT" -> ExprText(s.right) \o Word(":=") \o ExprText(s.expr) \o Word(";")
         [] s.k = "CALL_STMT" -> ExprText(s.call) \o Word(";")
         [] s.k = "RETURN" -> Word("return") \o ExprText(s.expr) \o Word(";")
         [] s.k \in {"BLOCK", "SCOPE"} -> Word("{") \o Each(StmtText, s.stmts) \o Word("}")
         [] s.k = "IF" -> Word("if") \o ExprText(s.cond) \o Word(":") \o StmtText(s.then) \o else
         [] s.k = "WHILE" -> Word("while") \o ExprText(s.cond) \o Word(":") \o StmtText(s.body)
         [] s.k = "CLOSURE" -> FunctionText(s.function)
         [] s.k \in {"FN", "NATIVE_FN"} -> FunctionText(s)
         [] s.k = "STRUCT" -> Word("type") \o Ident(s.name) \o Word(":=") \o Word("{")
                                \o Separated(StmtText, ",", s.members) \o Word("}")
         [] s.k = "UNION" -> Word("type") \o Ident(s.name) \o Word(":=") \o Word("[")
                               \o Separated(TypeText, "|", s.alternatives)
                               \o Word("]")

ProgramText(stmts) == Each(StmtText, stmts)
=============================================================================
