----------------------------- MODULE Validator -----------------------------
(***************************************************************************)
(* The validator (validator/validator.c): it resolves every name to a      *)
(* global, a stack slot or an upvalue, checks types, and writes what it    *)
(* finds into the syntax tree for the compiler to read.                    *)
(*                                                                         *)
(* A node of the tree is a record whose field k is its kind.  A node may   *)
(* gain fields here: a PRIMARY gains index, global and upvalue, a BINARY   *)
(* the type of its operator, an ACCESS the member's index, a block its     *)
(* var_count, a closure its upvalues.  A part that may be absent is a      *)
(* sequence of length 0 or 1.                                              *)
(*                                                                         *)
(* The state threaded through the analysis: chain, the validators from     *)
(* the global one to the innermost; captures, the upvalue list of every    *)
(* closure met; crashed, once the code dereferences NULL; dangling, once   *)
(* the tree holds a node it will free a second time.                       *)
(*                                                                         *)
(* Where one part of a node is analysed after another, the result of each  *)
(* is the parameter of a local operator, defined before the one it follows.*)
(***************************************************************************)
EXTENDS Types, Bytecode

LOCAL Last(s)      == s[Len(s)]
LOCAL ButLast(s)   == SubSeq(s, 1, Len(s) - 1)
LOCAL Extend(f, x, v) == [y \in DOMAIN f \union {x} |-> IF y = x THEN v ELSE f[y]]

\* An index nobody ever wrote.
NoIndex == -1

-----------------------------------------------------------------------------
(* Validators and symbols.                                                 *)

NoSymbols == [n \in {} |-> Null]

GlobalValidator == [chain |-> <<[symbols |-> NoSymbols, count |-> 0, closure |-> 0]>>,
                    captures |-> <<>>, crashed |-> FALSE, dangling |-> FALSE]

Depth(st) == Len(st.chain)
Crash(st) == [st EXCEPT !.crashed = TRUE]

\* init_validator: slots go on from the enclosing validator, except from the global one.
InitValidator(st) ==
  [st EXCEPT !.chain = Append(@, [symbols |-> NoSymbols,
                                  count |-> IF Depth(st) = 1 THEN 0 ELSE Last(@).count,
                                  closure |-> Last(@).closure])]
DeleteValidator(st) == [st EXCEPT !.chain = ButLast(@)]

\* The validator of a function body starts its slots at 0.
FunctionValidator(st, closure) ==
  [InitValidator(st) EXCEPT !.chain[Depth(st) + 1].count = 0,
                            !.chain[Depth(st) + 1].closure = closure]

Visible(st, name) == {d \in 1..Depth(st) : name \in DOMAIN st.chain[d].symbols}
FindSymbol(st, name) ==
  st.chain[CHOOSE d \in Visible(st, name) : \A e \in Visible(st, name) : e <= d].symbols[name]

\* add_symbol refuses a name that any enclosing validator knows.
AddSymbol(st, name, type) ==
  LET sym == [type |-> type, index |-> Last(st.chain).count, global |-> Depth(st) = 1]
  IN  [ok |-> Visible(st, name) = {},
       index |-> IF Visible(st, name) = {} THEN sym.index ELSE NoIndex,
       st |-> IF Visible(st, name) # {} THEN st
              ELSE [st EXCEPT !.chain[Depth(st)].count = @ + 1,
                              !.chain[Depth(st)].symbols = Extend(@, name, sym)]]

\* Mutant: what is found through an enclosing closure is listed as a local of it.
AddUpvalueAsLocal(st, d, name, index, local) ==
  LET c     == st.chain[d].closure
      known == {i \in DOMAIN st.captures[c] : st.captures[c][i].name = name}
  IN  IF c = 0 THEN [st |-> Crash(st), index |-> NoIndex]
      ELSE IF known # {} THEN [st |-> st, index |-> (CHOOSE i \in known : TRUE) - 1]
      ELSE [st |-> [st EXCEPT !.captures[c] =
                      Append(@, [name |-> name, index |-> index, local |-> TRUE])],
            index |-> Len(st.captures[c])]

\* add_upvalue: one entry per name in the list of the validator's closure.
AddUpvalue(st, d, name, index, local) ==
  LET c     == st.chain[d].closure
      known == {i \in DOMAIN st.captures[c] : st.captures[c][i].name = name}
  IN  IF c = 0 THEN [st |-> Crash(st), index |-> NoIndex]
      ELSE IF known # {} THEN [st |-> st, index |-> (CHOOSE i \in known : TRUE) - 1]
      ELSE [st |-> [st EXCEPT !.captures[c] =
                      Append(@, [name |-> name, index |-> index, local |-> local])],
            index |-> Len(st.captures[c])]

\* resolve_upvalue: a name of the directly enclosing validator is taken for a local
\* of the function the closure is created in.
RECURSIVE ResolveUpvalue(_, _, _, _)
ResolveUpvalue(st, d, name, index) ==
  IF d = 1 THEN [st |-> st, index |-> NoIndex]
  ELSE IF name \in DOMAIN st.chain[d - 1].symbols THEN AddUpvalue(st, d, name, index, TRUE)
  ELSE LET through(outer) == IF outer.index = NoIndex THEN outer
                             ELSE AddUpvalue(outer.st, d, name, outer.index, FALSE)
       IN  through(ResolveUpvalue(st, d - 1, name, index))

-----------------------------------------------------------------------------
(* Expressions: the type (Null after an error), the tree and the state.    *)

Typed(type, e, st) == [type |-> type, e |-> e, st |-> st]

AnalyzePrimary(e, st) ==
  LET primary(index, global, upvalue) ==
        [k |-> "PRIMARY", name |-> e.name, index |-> index, global |-> global, upvalue |-> upvalue]
      captured(type, up) == Typed(type, primary(up.index, FALSE, TRUE), up.st)
      known(sym) ==
        IF Last(st.chain).closure = 0 \/ sym.global \/ e.name \in DOMAIN Last(st.chain).symbols
        THEN Typed(sym.type, primary(sym.index, sym.global, FALSE), st)
        ELSE captured(sym.type, ResolveUpvalue(st, Depth(st), e.name, sym.index))
  IN  IF Visible(st, e.name) = {} THEN Typed(Null, primary(NoIndex, FALSE, FALSE), st)
      ELSE known(FindSymbol(st, e.name))

RECURSIVE AnalyzeExpr(_, _), AnalyzeList(_, _, _, _)

AnalyzeGrouping(e, st) ==
  LET grouping(inner) == [inner EXCEPT !.e = [k |-> "GROUPING", expr |-> inner.e]]
  IN  grouping(AnalyzeExpr(e.expr, st))

\* The operand types are compared only after get_operator_type has looked for the
\* result; of a compound type it looks at less than the whole struct.
AnalyzeBinary(e, st) ==
  LET logical == e.op \in {"||", "&&"}
      binary(l, r) == Typed(IF logical THEN BoolT ELSE l.type,
                            [k |-> "BINARY", op |-> e.op, left |-> l.e, right |-> r.e,
                             type |-> IF logical THEN BoolT ELSE l.type],
                            IF ~logical /\ IsCompound(l.type) THEN Crash(r.st) ELSE r.st)
      operator(l, r) == IF Null \in {l.type, r.type} THEN Typed(Null, e, r.st)
                        ELSE IF l.type # r.type THEN [binary(l, r) EXCEPT !.type = Null, !.e = e]
                        ELSE binary(l, r)
      left(l) == operator(l, AnalyzeExpr(e.right, l.st))
  IN  left(AnalyzeExpr(e.left, st))

\* Unary minus looks at the type of a right operand that is not there, and the
\* operand of ! is not checked at all.
AnalyzeUnary(e, st) ==
  LET unary(r) == Typed(BoolT, [k |-> "UNARY", op |-> e.op, right |-> r.e],
                        IF e.op = "!" THEN r.st ELSE Crash(r.st))
  IN  unary(AnalyzeExpr(e.right, st))

AnalyzeSubscript(e, st) ==
  LET fits(object, index) ==
        /\ Null \notin {object, index}
        /\ \/ object[1] = "ARRAY" /\ index = IntT
           \/ object[1] = "MAP" /\ index = object[2]
      subscript(object, index) ==
        Typed(IF fits(object.type, index.type) THEN Underlying(object.type) ELSE Null,
              [k |-> "SUBSCRIPT", object |-> object.e, element |-> index.e], index.st)
      of(object) == subscript(object, AnalyzeExpr(e.element, object.st))
  IN  of(AnalyzeExpr(e.object, st))

AnalyzeAccess(e, st) ==
  LET named(members) == {i \in DOMAIN members : members[i].name = e.element.name}
      first(members) == CHOOSE i \in named(members) : \A j \in named(members) : i <= j
      access(object) ==
        IF object.type[1] # "STRUCT" \/ e.element.k # "PRIMARY" THEN Typed(Null, e, object.st)
        ELSE IF named(object.type[3]) = {} THEN Typed(Null, e, object.st)
        ELSE Typed(object.type[3][first(object.type[3])].type,
                   [k |-> "ACCESS", object |-> object.e, element |-> e.element,
                    index |-> first(object.type[3]) - 1], object.st)
  IN  access(AnalyzeExpr(e.object, st))

Prepend(e, rest) == [rest EXCEPT !.es = <<e>> \o @]

\* Analyse expressions from the first to the last, up to the first whose type is
\* not the wanted one (strict), or cannot be assigned to it.
AnalyzeList(es, wanted, strict, st) ==
  LET good(type) == /\ type # Null
                    /\ IF strict THEN type = Head(wanted) ELSE CheckAssignment(Head(wanted), type)
      from(e) == IF good(e.type)
                 THEN Prepend(e.e, AnalyzeList(Tail(es), Tail(wanted), strict, e.st))
                 ELSE [ok |-> FALSE, es |-> es, st |-> e.st]
  IN  IF es = <<>> THEN [ok |-> TRUE, es |-> <<>>, st |-> st] ELSE from(AnalyzeExpr(Head(es), st))

AnalyzeArrayLiteral(e, st) ==
  LET array(first, rest) ==
        IF rest.ok THEN Typed(ArrayOf(first.type), [k |-> "ARRAY", elems |-> <<first.e>> \o rest.es],
                              rest.st)
        ELSE Typed(Null, e, rest.st)
      from(first) ==
        IF first.type = Null THEN first
        ELSE array(first, AnalyzeList(Tail(e.elems), [i \in 1..Len(e.elems) - 1 |-> first.type],
                                      TRUE, first.st))
  IN  from(AnalyzeExpr(Head(e.elems), st))

\* A map literal is its keys and values in turn.
AnalyzeMapLiteral(e, st) ==
  LET map(key, val, rest) ==
        IF rest.ok THEN Typed(MapOf(key.type, val.type),
                              [k |-> "MAP", elems |-> <<key.e, val.e>> \o rest.es], rest.st)
        ELSE Typed(Null, e, rest.st)
      from(key, val) ==
        IF Null \in {key.type, val.type} THEN Typed(Null, e, val.st)
        ELSE map(key, val,
                 AnalyzeList(SubSeq(e.elems, 3, Len(e.elems)),
                             [i \in 1..Len(e.elems) - 2 |-> IF i % 2 = 1 THEN key.type ELSE val.type],
                             TRUE, val.st))
      of(key) == from(key, AnalyzeExpr(e.elems[2], key.st))
  IN  of(AnalyzeExpr(e.elems[1], st))

AnalyzeCall(e, st) ==
  LET call(fn, args) ==
        IF args.ok THEN Typed(fn.type[2], [k |-> "CALL", fn |-> fn.e, args |-> args.es], args.st)
        ELSE Typed(Null, e, args.st)
      of(fn) ==
        IF fn.type[1] # "FN" THEN Typed(Null, e, fn.st)
        ELSE IF Len(fn.type[3]) # Len(e.args) THEN Typed(Null, e, fn.st)
        ELSE call(fn, AnalyzeList(e.args, fn.type[3], FALSE, fn.st))
  IN  of(AnalyzeExpr(e.fn, st))

AnalyzeExpr(e, st) ==
  CASE e.k = "LITERAL" -> Typed(e.type, e, st)
    [] e.k = "PRIMARY" -> AnalyzePrimary(e, st)
    [] e.k = "BINARY" -> AnalyzeBinary(e, st)
    [] e.k = "GROUPING" -> AnalyzeGrouping(e, st)
    [] e.k = "UNARY" -> AnalyzeUnary(e, st)
    [] e.k = "ARRAY" -> AnalyzeArrayLiteral(e, st)
    [] e.k = "MAP" -> AnalyzeMapLiteral(e, st)
    [] e.k = "CALL" -> AnalyzeCall(e, st)
    [] e.k = "SUBSCRIPT" -> AnalyzeSubscript(e, st)
    [] e.k = "ACCESS" -> AnalyzeAccess(e, st)

-----------------------------------------------------------------------------
(* Statements: ok is FALSE where the code frees the statement and returns  *)
(* NULL.                                                                   *)

Checked(ok, s, st) == [ok |-> ok, s |-> s, st |-> st]

\* load_var: no variable of type Any, no name that is already visible.
LoadVar(decl, type, st) ==
  LET loaded(added) == Checked(added.ok, decl, added.st)
  IN  IF type = AnyT THEN Checked(FALSE, decl, st) ELSE loaded(AddSymbol(st, decl.name, type))

\* A variable of a struct type without a value is given a call of the constructor.
ConstructorCall(type, st) ==
  LET constructor == FindSymbol(st, type[2])
  IN  [k |-> "CALL", args |-> <<>>,
       fn |-> [k |-> "PRIMARY", name |-> type[2], index |-> constructor.index,
               global |-> constructor.global, upvalue |-> FALSE]]

AnalyzeVariable(decl, st) ==
  LET initial(type, value) == IF decl.value # <<>> THEN <<value.e>>
                              ELSE IF type[1] = "STRUCT" THEN <<ConstructorCall(type, st)>>
                              ELSE <<>>
      variable(type, value) ==
        IF type = Null THEN Checked(FALSE, decl, Crash(value.st))
        ELSE [LoadVar([k |-> "VAR", name |-> decl.name, type |-> <<type>>,
                       value |-> initial(type, value)], type, value.st)
              EXCEPT !.ok = @ /\ (decl.value = <<>> \/ CheckAssignment(type, value.type))]
      of(value) == variable(IF decl.type = <<>> THEN value.type ELSE decl.type[1], value)
  IN  of(IF decl.value = <<>> THEN Typed(Null, <<>>, st) ELSE AnalyzeExpr(decl.value[1], st))

RECURSIVE Analyze(_, _), AnalyzeStmts(_, _)

\* The loop of analyze_block, analyze_fn and analyze_struct: an error does not stop it.
AnalyzeStmts(ss, st) ==
  LET all(s, rest) == [ok |-> s.ok /\ rest.ok, ss |-> <<s.s>> \o rest.ss, st |-> rest.st]
      from(s) == all(s, AnalyzeStmts(Tail(ss), s.st))
  IN  IF ss = <<>> THEN [ok |-> TRUE, ss |-> <<>>, st |-> st] ELSE from(Analyze(Head(ss), st))

\* Mutant: a block counts the variables of the blocks around it as its own.
AnalyzeBlockWhole(s, st) ==
  LET block(body) == Checked(body.ok, [k |-> s.k, stmts |-> body.ss,
                                       var_count |-> U16(Last(body.st.chain).count)], body.st)
  IN  block(AnalyzeStmts(s.stmts, st))

AnalyzeBlock(s, st) ==
  LET block(body) == Checked(body.ok, [k |-> s.k, stmts |-> body.ss,
                                       var_count |-> U16(Last(body.st.chain).count - Last(st.chain).count)],
                             body.st)
  IN  block(AnalyzeStmts(s.stmts, st))

\* A statement analysed by a validator of its own: a scope, a branch, a loop's body.
AnalyzeInside(s, st) ==
  LET leave(inner) == [inner EXCEPT !.st = DeleteValidator(@)]
  IN  leave(IF s.k = "SCOPE" THEN AnalyzeBlock(s, InitValidator(st)) ELSE Analyze(s, InitValidator(st)))

\* The validator of the function is the last of the chain.  The array of parameters
\* is freed with a parameter that fails, and once more later.  A body that fails is
\* NULL and its type is read; an empty body has no last statement.
AnalyzeFunction(fn, st) ==
  LET last(s)    == IF s.k = "BLOCK" THEN Last(s.stmts).k ELSE s.k
      empty      == fn.body.k = "BLOCK" /\ fn.body.stmts = <<>>
      function(params, body) ==
        IF ~body.ok THEN Checked(FALSE, fn, Crash(body.st))
        ELSE IF fn.ret = VoidT \/ ~params.ok THEN Checked(params.ok, [fn EXCEPT !.body = body.s], body.st)
        ELSE IF empty THEN Checked(FALSE, fn, Crash(body.st))
        ELSE Checked(last(body.s) = "RETURN", [fn EXCEPT !.body = body.s], body.st)
      of(params) == function(params, Analyze(fn.body, [params.st EXCEPT !.dangling = @ \/ ~params.ok]))
  IN  of(AnalyzeStmts(fn.params, st))

Leave(checked) == [checked EXCEPT !.st = DeleteValidator(@)]

AnalyzeFn(fn, st) == Leave(AnalyzeFunction(fn, FunctionValidator(st, Last(st.chain).closure)))

\* The name of the closure takes a slot; its body is a function of its own.
AnalyzeClosure(s, st) ==
  LET fn == s.function
      id == Len(st.captures) + 1
      closure(body) ==
        Checked(body.ok, [k |-> "CLOSURE", function |-> body.s, upvalues |-> body.st.captures[id]],
                DeleteValidator(body.st))
      of(added) ==
        IF ~added.ok THEN Checked(FALSE, s, st)
        ELSE closure(AnalyzeFunction(fn, FunctionValidator([added.st EXCEPT !.captures = Append(@, <<>>)], id)))
  IN  of(AddSymbol(st, fn.name, FnOf(fn.ret, [i \in DOMAIN fn.params |-> fn.params[i].type[1]])))

\* An assignment to a name nobody knows declares a variable.
AnalyzeAssignment(s, st) ==
  LET assignment(target, value) ==
        Checked(value.type # Null /\ CheckAssignment(target.type, value.type),
                [k |-> "ASSIGNMENT", right |-> target.e, expr |-> value.e], value.st)
      to(target) == IF target.type = Null THEN Checked(FALSE, s, target.st)
                    ELSE assignment(target, AnalyzeExpr(s.expr, target.st))
  IN  IF s.right.k = "PRIMARY" /\ Visible(st, s.right.name) = {}
      THEN AnalyzeVariable([k |-> "VAR", name |-> s.right.name, type |-> <<>>,
                            value |-> <<s.expr>>], st)
      ELSE to(AnalyzeExpr(s.right, st))

IsCondition(type) == type \in {FloatT, IntT, BoolT}

\* The checked else branch is stored over the then branch, and stays the else branch.
AnalyzeIf(s, st) ==
  LET stmt(cond, then, otherwise) ==
        [k |-> "IF", cond |-> cond.e, then |-> then, otherwise |-> otherwise]
      both(cond, then, other) ==
        Checked(IsCondition(cond.type) /\ then.ok /\ other.ok,
                stmt(cond, other.s, <<other.s>>), [other.st EXCEPT !.dangling = TRUE])
      branch(cond, then) ==
        IF s.otherwise = <<>>
        THEN Checked(IsCondition(cond.type) /\ then.ok, stmt(cond, then.s, <<>>), then.st)
        ELSE both(cond, then, AnalyzeInside(s.otherwise[1], then.st))
      of(cond) == IF cond.type = Null THEN Checked(FALSE, s, cond.st)
                  ELSE branch(cond, AnalyzeInside(s.then, cond.st))
  IN  of(AnalyzeExpr(s.cond, st))

AnalyzeWhile(s, st) ==
  LET loop(cond, body) == Checked(IsCondition(cond.type) /\ body.ok,
                                  [k |-> "WHILE", cond |-> cond.e, body |-> body.s], body.st)
      of(cond) == IF cond.type = Null THEN Checked(FALSE, s, cond.st)
                  ELSE loop(cond, AnalyzeInside(s.body, cond.st))
  IN  of(AnalyzeExpr(s.cond, st))

\* s.from is the return type of the function the parser was in.
AnalyzeReturn(s, st) ==
  LET return(value) == Checked(value.type # Null /\ value.type = s.from,
                               [k |-> "RETURN", expr |-> value.e, from |-> s.from], value.st)
  IN  return(AnalyzeExpr(s.expr, st))

AnalyzeCallStmt(s, st) ==
  LET stmt(call) == Checked(call.type # Null, [k |-> "CALL_STMT", call |-> call.e], call.st)
  IN  stmt(AnalyzeExpr(s.call, st))

Analyze(s, st) ==
  CASE s.k = "SCOPE" -> AnalyzeInside(s, st)
    [] s.k = "BLOCK" -> AnalyzeBlock(s, st)
    [] s.k = "VAR" -> AnalyzeVariable(s, st)
    [] s.k = "ASSIGNMENT" -> AnalyzeAssignment(s, st)
    [] s.k = "IF" -> AnalyzeIf(s, st)
    [] s.k = "WHILE" -> AnalyzeWhile(s, st)
    [] s.k = "RETURN" -> AnalyzeReturn(s, st)
    [] s.k = "CALL_STMT" -> AnalyzeCallStmt(s, st)
    [] s.k = "CLOSURE" -> AnalyzeClosure(s, st)

-----------------------------------------------------------------------------
(* mtr_validate: the global names first, then every body.                  *)

\* The members of a struct are variables of a validator of their own.
AnalyzeStruct(s, st) ==
  LET struct(members) == Checked(members.ok, [s EXCEPT !.members = members.ss],
                                 DeleteValidator(members.st))
  IN  struct(AnalyzeStmts(s.members, InitValidator(st)))

GlobalAnalysis(s, st) ==
  CASE s.k = "FN" -> AnalyzeFn(s, st)
    [] s.k = "STRUCT" -> AnalyzeStruct(s, st)
    [] s.k \in {"NATIVE_FN", "UNION"} -> Checked(TRUE, s, st)

GlobalType(s) ==
  CASE s.k \in {"FN", "NATIVE_FN"} ->
         FnOf(s.ret, [i \in DOMAIN s.params |-> s.params[i].type[1]])
    [] s.k = "STRUCT" -> StructOf(s.name, [i \in DOMAIN s.members |->
                           [name |-> s.members[i].name, type |-> s.members[i].type[1]]])
    [] s.k = "UNION" -> UnionOf(s.name, s.alternatives)

RECURSIVE LoadGlobals(_, _), AnalyzeGlobals(_, _)

\* load_global of each declaration in turn: only the last answer is kept.
LoadGlobals(ss, st) ==
  LET all(loaded, rest) == [ok |-> IF Len(ss) = 1 THEN loaded.ok ELSE rest.ok,
                            indices |-> <<loaded.index>> \o rest.indices, st |-> rest.st]
      from(loaded) == all(loaded, LoadGlobals(Tail(ss), loaded.st))
  IN  IF ss = <<>> THEN [ok |-> TRUE, indices |-> <<>>, st |-> st]
      ELSE from(AddSymbol(st, Head(ss).name, GlobalType(Head(ss))))

AnalyzeGlobals(ss, st) ==
  LET all(s, rest) == [ok |-> s.ok /\ rest.ok, ss |-> <<s.s>> \o rest.ss, st |-> rest.st]
      from(s) == all(s, AnalyzeGlobals(Tail(ss), s.st))
  IN  IF ss = <<>> THEN [ok |-> TRUE, ss |-> <<>>, st |-> st] ELSE from(GlobalAnalysis(Head(ss), st))

\* stmts, the tree as the compiler finds it; indices, the index of every global;
\* crashed and dangling, what the analysis did to the process and to the tree.
Validate(stmts) ==
  LET verdict(loaded, checked) ==
        [ok |-> loaded.ok /\ checked.ok, stmts |-> checked.ss, indices |-> loaded.indices,
         crashed |-> checked.st.crashed, dangling |-> checked.st.dangling]
      from(loaded) == verdict(loaded, AnalyzeGlobals(stmts, loaded.st))
  IN  from(LoadGlobals(stmts, GlobalValidator))
=============================================================================
