------------------------------ MODULE Compiler ------------------------------
(***************************************************************************)
(* The code generator (compiler.c, from write_expr to write_bytecode, with *)
(* the package it fills, package.c).  It reads the tree the validator left *)
(* and writes one chunk per function, closure and struct.                  *)
(*                                                                         *)
(* An expression only appends to a chunk.  A statement may hold a closure, *)
(* which adds a chunk and an object: it maps a state [code, chunks, heap]  *)
(* to the next one.                                                        *)
(***************************************************************************)
EXTENDS Bytecode, SequencesExt

LOCAL INSTANCE Types

\* An object of the compile-time heap, in the form the engine takes it.
ObjectOf(kind, code, count) ==
  [kind |-> kind, next |-> 0, code |-> code, ups |-> 0, count |-> count,
   items |-> <<>>, entries |-> [k \in {} |-> 0]]

-----------------------------------------------------------------------------
(* Jumps.                                                                  *)

\* write_jump leaves 0xFFFF for patch_jump to overwrite, and returns its offset.
WriteJump(code, op)   == code \o <<OpCell(op)>> \o Word(-1, 2)
JumpOffset(code)      == U16(Len(code) + 1)

\* Mutant: the distance counts the two bytes of the word as well.
PatchJumpFar(code, offset) ==
  LET at == I16(offset)
  IN  IF at < 0 THEN code ELSE [code EXCEPT ![at + 1] = ArgCell(I16(Len(code) - at))]

\* The offset is passed as an i16: one that does not fit lands before the chunk.
PatchJump(code, offset) ==
  LET at == I16(offset)
  IN  IF at < 0 THEN code
      ELSE [code EXCEPT ![at + 1] = ArgCell(I16(Len(code) - at - 2))]

\* Mutant: the loop goes back to the end of its body.
WriteLoopToEnd(code, offset) ==
  code \o <<OpCell("JMP")>> \o Word(-3, 2)

WriteLoop(code, offset) ==
  code \o <<OpCell("JMP")>> \o Word(I16(offset - (Len(code) + 1) - 3), 2)

-----------------------------------------------------------------------------
(* Expressions.                                                            *)

WritePrimary(code, e) ==
  code \o Instr(IF e.global THEN "GLOBAL_GET" ELSE IF e.upvalue THEN "UPVALUE_GET" ELSE "GET",
                U16(e.index))

\* A string's operands are the address of its text and its length.
WriteLiteral(code, e) ==
  code \o CASE e.type = IntT -> Instr("INT", e.v)
            [] e.type = FloatT -> Instr("FLOAT", e.v)
            [] e.type = StringT -> Instr("STRING_LITERAL", e.v)
            [] e.type = BoolT -> Plain(IF e.v = 1 THEN "TRUE" ELSE "FALSE")

\* Operators exist for Int and Float only; <= , >= and != negate >, < and =.
OperatorName(op) ==
  CASE op = "+" -> "ADD" [] op = "-" -> "SUB" [] op = "*" -> "MUL" [] op = "/" -> "DIV"
    [] op \in {"<", ">="} -> "LESS"
    [] op \in {">", "<="} -> "GREATER"
    [] op \in {"=", "!="} -> "EQUAL"

WriteOperator(code, op, type) ==
  code \o (CASE type = IntT -> Plain(OperatorName(op) \o "_I")
             [] type = FloatT -> Plain(OperatorName(op) \o "_F")
             [] OTHER -> <<>>)
       \o (IF op \in {"<=", ">=", "!="} THEN Plain("NOT") ELSE <<>>)

RECURSIVE WriteExpr(_, _), WriteExprs(_, _)

\* Expressions one after the other.
WriteExprs(code, es) == IF es = <<>> THEN code ELSE WriteExprs(WriteExpr(code, Head(es)), Tail(es))

\* write_and, write_or: the jump over the right operand
WriteLogical(code, e) ==
  LET after(left) ==
        PatchJump(WriteExpr(WriteJump(left, IF e.op = "||" THEN "OR" ELSE "AND"), e.right),
                  JumpOffset(left))
  IN  after(WriteExpr(code, e.left))

\* from last to first, so that the engine pops them from first to last
WriteArrayLiteral(code, e) ==
  WriteExprs(code, Reverse(e.elems)) \o Instr("ARRAY_LITERAL", U8(Len(e.elems)))

\* entries from last to first, each its key and then its value
WriteMapLiteral(code, e) ==
  LET n == Len(e.elems) \div 2
      entries == [i \in 1..2 * n |-> e.elems[2 * (n - (i + 1) \div 2) + (2 - (i % 2))]]
  IN  WriteExprs(code, entries) \o Instr("MAP_LITERAL", U8(n))

\* Mutant: the arguments are written, and pushed, from last to first.
WriteCallReversed(code, e) ==
  WriteExpr(WriteExprs(code, Reverse(e.args)), e.fn) \o Instr("CALL", U8(Len(e.args)))

\* Mutant: the callee is counted among the arguments.
WriteCallCounted(code, e) ==
  WriteExpr(WriteExprs(code, e.args), e.fn) \o Instr("CALL", U8(Len(e.args) + 1))

WriteCall(code, e) ==
  WriteExpr(WriteExprs(code, e.args), e.fn) \o Instr("CALL", U8(Len(e.args)))

WriteExpr(code, e) ==
  CASE e.k = "PRIMARY" -> WritePrimary(code, e)
    [] e.k = "LITERAL" -> WriteLiteral(code, e)
    [] e.k = "BINARY" -> IF e.op \in {"||", "&&"} THEN WriteLogical(code, e)
                         ELSE WriteOperator(WriteExprs(code, <<e.left, e.right>>), e.op, e.type)
    [] e.k = "GROUPING" -> WriteExpr(code, e.expr)
    [] e.k = "UNARY" -> WriteExpr(code, e.right) \o Plain("NOT")
    [] e.k = "ARRAY" -> WriteArrayLiteral(code, e)
    [] e.k = "MAP" -> WriteMapLiteral(code, e)
    [] e.k = "CALL" -> WriteCall(code, e)
    [] e.k = "SUBSCRIPT" -> WriteExprs(code, <<e.object, e.element>>) \o Plain("INDEX_GET")
    [] e.k = "ACCESS" -> WriteExpr(code, e.object) \o Instr("STRUCT_GET", U16(e.index))

-----------------------------------------------------------------------------
(* Statements.                                                             *)

\* Append to the chunk that is being written.
Emit(w, code) == [w EXCEPT !.code = code]

\* A variable is the value that is left on the stack, in its slot.
WriteVariable(code, s) ==
  CASE s.value # <<>> -> WriteExpr(code, s.value[1])
    [] s.value = <<>> ->
         code \o Plain(CASE s.type[1] = StringT -> "EMPTY_STRING"
                         [] s.type[1][1] = "ARRAY" -> "EMPTY_ARRAY"
                         [] s.type[1][1] = "MAP" -> "EMPTY_MAP"
                         [] OTHER -> "NIL")

\* Of the names that can be assigned to, only upvalues are told from locals.
WriteAssignment(code, s) ==
  LET store(value, to) ==
        CASE to.k = "PRIMARY" ->
               value \o Instr(IF to.upvalue THEN "UPVALUE_SET" ELSE "SET", U16(to.index))
          [] to.k = "SUBSCRIPT" -> WriteExprs(value, <<to.object, to.element>>) \o Plain("INDEX_SET")
          [] to.k = "ACCESS" -> WriteExpr(value, to.object) \o Instr("STRUCT_SET", U16(to.index))
  IN  store(WriteExpr(code, s.expr), s.right)

RECURSIVE Write(_, _), WriteStmts(_, _)
WriteStmts(w, ss) == IF ss = <<>> THEN w ELSE WriteStmts(Write(w, Head(ss)), Tail(ss))

\* Mutant: the variables of a block stay on the stack.
WriteBlockKeeps(w, s) == WriteStmts(w, s.stmts)

\* The variables of a block are popped at its end.
WriteBlock(w, s) ==
  LET end(body) == Emit(body, body.code \o Instr("POP_V", s.var_count))
  IN  end(WriteStmts(w, s.stmts))

\* The jump over the then branch follows the condition; the one over the else
\* branch is patched when both are written.
WriteIf(w, s) ==
  LET end(both, skip)  == Emit(both, PatchJump(both.code, skip))
      else(then, over) == Write(Emit(then, PatchJump(WriteJump(then.code, "JMP"), over)),
                                s.otherwise[1])
      branches(then, over) ==
        IF s.otherwise = <<>> THEN Emit(then, PatchJump(then.code, over))
        ELSE end(else(then, over), JumpOffset(then.code))
      after(cond) == branches(Write(Emit(w, WriteJump(cond, "JMP_Z")), s.then), JumpOffset(cond))
  IN  after(WriteExpr(w.code, s.cond))

\* The condition is written once before the loop and once at the end of its body.
WriteWhile(w, s) ==
  LET loop(body, over) ==
        Emit(body, PatchJump(WriteLoop(WriteExpr(body.code, s.cond), over), over))
      after(cond) == loop(Write(Emit(w, WriteJump(cond, "JMP_Z")), s.body), JumpOffset(cond))
  IN  after(WriteExpr(w.code, s.cond))

WriteReturn(code, s) == WriteExpr(code, s.expr) \o Plain("RETURN")

WriteCallStmt(code, s) == WriteExpr(code, s.call) \o Plain("POP")

\* The chunk of a body written on its own, and the object that runs it.
WriteFunction(w, fn, kind, count) ==
  LET finish(body) == [code |-> w.code, chunks |-> Append(body.chunks, body.code),
                       heap |-> Append(body.heap, ObjectOf(kind, Len(body.chunks) + 1, count))]
  IN  finish(Write(Emit(w, <<>>), fn.body))

\* The instruction names the closure object and lists where to find what it captures.
WriteClosure(w, s) ==
  LET capture(up) == Word(U16(up.index), 2) \o Word(IF up.local THEN 1 ELSE 0, 1)
      finish(made) ==
        Emit(made, w.code \o Instr("CLOSURE", Len(made.heap))
                          \o FlattenSeq([i \in DOMAIN s.upvalues |-> capture(s.upvalues[i])]))
  IN  finish(WriteFunction(w, s.function, "CLOSURE", U8(Len(s.upvalues))))

Write(w, s) ==
  CASE s.k = "VAR" -> Emit(w, WriteVariable(w.code, s))
    [] s.k = "IF" -> WriteIf(w, s)
    [] s.k = "WHILE" -> WriteWhile(w, s)
    [] s.k \in {"SCOPE", "BLOCK"} -> WriteBlock(w, s)
    [] s.k = "ASSIGNMENT" -> Emit(w, WriteAssignment(w.code, s))
    [] s.k = "RETURN" -> Emit(w, WriteReturn(w.code, s))
    [] s.k = "CALL_STMT" -> Emit(w, WriteCallStmt(w.code, s))
    [] s.k = "CLOSURE" -> WriteClosure(w, s)

-----------------------------------------------------------------------------
(* The package: one object per function and per struct.                    *)

\* The constructor of a struct pushes the members' initial values.
WriteStruct(w, s) ==
  [w EXCEPT !.chunks = Append(@, FoldLeft(WriteVariable, <<>>, s.members)
                                 \o Instr("CONSTRUCTOR", U8(Len(s.members))) \o Plain("RETURN")),
            !.heap = Append(@, ObjectOf("FUNCTION", Len(w.chunks) + 1, 0))]

\* mtr_package_insert_function: the object takes its place among the globals.
Insert(p, s, index, made) ==
  [w |-> made, globals |-> [p.globals EXCEPT ![index] = Len(made.heap)],
   main |-> IF s.name = "main" THEN Len(made.heap) ELSE p.main]

WriteBytecode(p, s, index) ==
  CASE s.k = "FN" -> Insert(p, s, index, WriteFunction(p.w, s, "FUNCTION", 0))
    [] s.k = "STRUCT" -> Insert(p, s, index, WriteStruct(p.w, s))
    [] s.k \notin {"FN", "STRUCT"} -> p

\* mtr_add_io puts print where a global of that name is, whatever it was.
AddIO(p, stmts) ==
  LET named == {i \in DOMAIN stmts : stmts[i].name = "print"}
  IN  IF named = {} THEN p
      ELSE [p EXCEPT !.w.heap = Append(@, ObjectOf("NATIVE_FN", 0, 0)),
                     !.globals = [i \in DOMAIN @ |-> IF i \in named THEN Len(p.w.heap) + 1 ELSE @[i]]]

\* mtr_load_package and the loop of mtr_compile, then mtr_add_io: what is executed.
Compile(stmts) ==
  LET empty  == [w |-> [code |-> <<>>, chunks |-> <<>>, heap |-> <<>>],
                 globals |-> [i \in DOMAIN stmts |-> 0], main |-> 0]
      step(p, i) == WriteBytecode(p, stmts[i], i)
      package(p) == [chunks |-> p.w.chunks, heap |-> p.w.heap, globals |-> p.globals, main |-> p.main]
  IN  package(AddIO(FoldLeft(step, empty, [i \in DOMAIN stmts |-> i]), stmts))
=============================================================================
