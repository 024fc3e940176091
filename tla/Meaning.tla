------------------------------ MODULE Meaning ------------------------------
(***************************************************************************)
(* What a program means: an interpreter of the checked syntax tree, with   *)
(* named variables instead of slots, nested calls instead of a value stack *)
(* and a value for every expression.  It is the abstract specification the *)
(* bytecode of Compiler.tla, run by Engine.tla, is compared with.          *)
(*                                                                         *)
(* It also records, as quirks, that a run has used a construct the code    *)
(* generator or the engine is known to give another meaning:               *)
(*   "void"     a call that returns no value, other than a call statement  *)
(*              of a function of one parameter (engine.c falls off the     *)
(*              chunk, so its arguments stay where the result should be)   *)
(*   "operator" an operator between values that are no numbers             *)
(*              (write_binary has no instruction for it)                   *)
(*   "branch"   a declaration that is itself the body of an if or a while  *)
(*              (no block pops it)                                         *)
(*   "again"    a closure created a second time (there is one object per   *)
(*              declaration)                                               *)
(*   "capture"  a closure that is given a name to capture which means      *)
(*              nothing where it is created (one of its own variables)     *)
(*   "global"   an assignment to a global function                         *)
(*                                                                         *)
(* The state m of a run: vars, the variables of the current call by name;  *)
(* closure, the address of the closure being run (0: a function); store,   *)
(* the objects by address; ret, the value returned, once there is one; how *)
(* the run ended; made, the closures created so far.                       *)
(***************************************************************************)
EXTENDS Types, SequencesExt

CONSTANTS
  IntHalf,             \* half the values of an Int
  FloatOp(_, _, _)     \* arithmetic of Float

LOCAL Val(type, bits) == [type |-> type, bits |-> bits]
LOCAL Extend(f, x, v) == [y \in DOMAIN f \union {x} |-> IF y = x THEN v ELSE f[y]]

NoValue == Val("VOID", 0)
NilV    == Val("INT", 0)
Truth(b) == Val("INT", IF b THEN 1 ELSE 0)

Result(v, m)   == [v |-> v, m |-> m]
Stop(m, how)   == [m EXCEPT !.status = how]
Quirk(m, q)    == [m EXCEPT !.quirks = @ \union {q}]
Going(m)       == m.status = "ok" /\ m.ret = <<>>

\* A new object, and the value that refers to it.
Allocate(m, object) == Result(Val("OBJ", Len(m.store) + 1), [m EXCEPT !.store = Append(@, object)])

Captures(m) == IF m.closure = 0 THEN [n \in {} |-> NilV] ELSE m.store[m.closure].env

GlobalAddress(m, name) ==
  CHOOSE a \in DOMAIN m.globals : m.globals[a].name = name

\* a variable of the call, a captured one, or a global
Lookup(m, name) ==
  IF name \in DOMAIN m.vars THEN m.vars[name]
  ELSE IF name \in DOMAIN Captures(m) THEN Captures(m)[name]
  ELSE Val("OBJ", GlobalAddress(m, name))

AssignName(m, name, v) ==
  IF name \in DOMAIN m.vars THEN [m EXCEPT !.vars[name] = v]
  ELSE IF name \in DOMAIN Captures(m) THEN [m EXCEPT !.store[m.closure].env[name] = v]
  ELSE Quirk(m, "global")

-----------------------------------------------------------------------------
(* Numbers, printing, keys.                                                *)

WrapInt(n) == ((n + IntHalf) % (2 * IntHalf)) - IntHalf
RoundToZero(l, r) ==
  CHOOSE q \in -IntHalf..IntHalf :
    LET rem == l - q * r
    IN  /\ (IF rem < 0 THEN -rem ELSE rem) < (IF r < 0 THEN -r ELSE r)
        /\ rem = 0 \/ (rem < 0) = (l < 0)

IntArithmetic(op, l, r) ==
  CASE op = "+" -> Val("INT", WrapInt(l + r))   [] op = "-" -> Val("INT", WrapInt(l - r))
    [] op = "*" -> Val("INT", WrapInt(l * r))   [] op = "/" -> Val("INT", RoundToZero(l, r))
    [] op = "<" -> Truth(l < r)    [] op = "<=" -> Truth(l <= r)
    [] op = ">" -> Truth(l > r)    [] op = ">=" -> Truth(l >= r)
    [] op = "=" -> Truth(l = r)    [] op = "!=" -> Truth(l # r)

FloatArithmetic(op, l, r) ==
  CASE op = "+" -> Val("FLOAT", FloatOp("ADD_F", l, r))
    [] op = "-" -> Val("FLOAT", FloatOp("SUB_F", l, r))
    [] op = "*" -> Val("FLOAT", FloatOp("MUL_F", l, r))
    [] op = "/" -> Val("FLOAT", FloatOp("DIV_F", l, r))
    [] op = "<" -> Truth(FloatOp("LESS_F", l, r) = 1)
    [] op = ">=" -> Truth(FloatOp("LESS_F", l, r) = 0)
    [] op = ">" -> Truth(FloatOp("GREATER_F", l, r) = 1)
    [] op = "<=" -> Truth(FloatOp("GREATER_F", l, r) = 0)
    [] op = "=" -> Truth(FloatOp("EQUAL_F", l, r) = 1)
    [] op = "!=" -> Truth(FloatOp("EQUAL_F", l, r) = 0)

\* What a value shows of itself when it is printed or used as a key.
Shown(m, v) ==
  IF v.type # "OBJ" THEN [kind |-> v.type, bits |-> v.bits]
  ELSE LET o == m.store[v.bits]
       IN  [kind |-> o.kind, bits |-> CASE o.kind = "STRING" -> o.text
                                        [] o.kind = "ARRAY" -> Len(o.items)
                                        [] o.kind = "MAP" -> Cardinality(DOMAIN o.entries)
                                        [] OTHER -> 0]

PrintLine(m, v) ==
  LET line == <<Shown(m, v)>> \o
              (IF v.type = "OBJ" /\ m.store[v.bits].kind = "ARRAY"
               THEN [i \in DOMAIN m.store[v.bits].items |-> Shown(m, m.store[v.bits].items[i])]
               ELSE <<>>)
  IN  [m EXCEPT !.out = Append(@, line)]

-----------------------------------------------------------------------------
(* Expressions.  Nothing is evaluated once the run is over.                *)

RECURSIVE Eval(_, _), EvalAll(_, _, _), Exec(_, _), ExecAll(_, _), Loop(_, _)

\* the values of several expressions, from the first to the last
EvalAll(es, m, vs) ==
  LET from(first) == EvalAll(Tail(es), first.m, Append(vs, first.v))
  IN  IF es = <<>> THEN [vs |-> vs, m |-> m] ELSE from(Eval(Head(es), m))

EvalLogical(e, m) ==
  LET after(left) == IF (left.v.bits # 0) = (e.op = "||") THEN left ELSE Eval(e.right, left.m)
  IN  after(Eval(e.left, m))

Operate(e, l, r, m) ==
  CASE e.type \notin {IntT, FloatT} -> Result(NilV, Quirk(m, "operator"))
    [] e.type = FloatT -> Result(FloatArithmetic(e.op, l.bits, r.bits), m)
    [] e.op = "/" /\ (r.bits = 0 \/ (r.bits = -1 /\ l.bits = -IntHalf)) -> Result(NilV, Stop(m, "wild"))
    [] OTHER -> Result(IntArithmetic(e.op, l.bits, r.bits), m)

\* The elements of a literal are evaluated from the last to the first.
ArrayValue(e, m) ==
  LET array(all) == Allocate(all.m, [kind |-> "ARRAY", items |-> Reverse(all.vs)])
  IN  array(EvalAll(Reverse(e.elems), m, <<>>))

\* The elements are keys and values in turn; of equal keys the last entry counts.
MapValue(e, m) ==
  LET n == Len(e.elems) \div 2
      entry(i) == <<e.elems[2 * i - 1], e.elems[2 * i]>>
      first(keys, k) == CHOOSE i \in DOMAIN keys : keys[i] = k /\ \A j \in 1..i - 1 : keys[j] # k
      map(vs, keys) == [k \in Range(keys) |-> vs[2 * first(keys, k)]]
      of(all) == Allocate(all.m, [kind |-> "MAP",
                   entries |-> map(all.vs, [i \in 1..n |-> Shown(all.m, all.vs[2 * i - 1])])])
  IN  of(EvalAll(FlattenSeq([i \in 1..n |-> entry(n + 1 - i)]), m, <<>>))

Subscript(object, index, m) ==
  LET o == m.store[object.bits]
  IN  CASE o.kind = "ARRAY" -> IF index.bits \in 0..Len(o.items) - 1
                               THEN Result(o.items[index.bits + 1], m)
                               ELSE Result(NilV, Stop(m, "exit"))
        [] o.kind = "MAP" -> Result(IF Shown(m, index) \in DOMAIN o.entries
                                    THEN o.entries[Shown(m, index)] ELSE NilV, m)

\* the value a variable has when its declaration gives none
Default(type, m) ==
  CASE type[1] = "ARRAY" -> Allocate(m, [kind |-> "ARRAY", items |-> <<>>])
    [] type[1] = "MAP" -> Allocate(m, [kind |-> "MAP", entries |-> [k \in {} |-> NilV]])
    [] type[1] = "STRING" -> Result(NilV, Stop(m, "abort"))
    [] OTHER -> Result(NilV, m)

\* A variable's first value
Initial(decl, m) == IF decl.value = <<>> THEN Default(decl.type[1], m) ELSE Eval(decl.value[1], m)

\* A struct is built from the initial values of its members.
Construct(decl, m) ==
  LET add(members, name, r) == [members |-> Extend(members, name, r.v), m |-> r.m]
      step(r, var) == add(r.members, var.name, Initial(var, r.m))
      struct(r) == Allocate(r.m, [kind |-> "STRUCT", members |-> r.members])
  IN  struct(FoldLeft(step, [members |-> [n \in {} |-> NilV], m |-> m], decl.members))

\* Run a body with its parameters as the only variables; its result, or NoValue.
Activate(fn, closure, args, m) ==
  LET names == {fn.params[i].name : i \in DOMAIN fn.params}
      env   == [n \in names |-> args[CHOOSE i \in DOMAIN args : fn.params[i].name = n]]
      back(done) == Result(IF done.ret = <<>> THEN NoValue ELSE done.ret[1],
                           [done EXCEPT !.vars = m.vars, !.closure = m.closure, !.ret = <<>>])
  IN  back(Exec(fn.body, [m EXCEPT !.vars = env, !.closure = closure]))

Apply(callee, o, args, m) ==
  CASE o.kind \in {"FUNCTION", "CLOSURE"} ->
         Activate(o.fn, IF o.kind = "CLOSURE" THEN callee.bits ELSE 0, args, m)
    [] o.kind = "NATIVE_FN" -> Result(NilV, PrintLine(m, args[1]))
    [] o.kind = "CONSTRUCTOR" -> Construct(o.fn, m)

\* the arguments, then what is called
Call(e, m) ==
  LET apply(args, fn) == IF Going(fn.m) THEN Apply(fn.v, fn.m.store[fn.v.bits], args, fn.m)
                         ELSE Result(NilV, fn.m)
      callee(args) == apply(args.vs, Eval(e.fn, args.m))
  IN  callee(EvalAll(e.args, m, <<>>))

\* A call that is an expression must have a value.
Evaluate(e, m) ==
  LET needed(r)  == IF r.v = NoValue THEN Result(NilV, Quirk(r.m, "void")) ELSE r
      operate(r) == IF Going(r.m) THEN Operate(e, r.vs[1], r.vs[2], r.m) ELSE Result(NilV, r.m)
      element(r) == IF Going(r.m) THEN Subscript(r.vs[1], r.vs[2], r.m) ELSE Result(NilV, r.m)
      member(r)  == IF Going(r.m) THEN Result(r.m.store[r.v.bits].members[e.element.name], r.m) ELSE r
      negate(r)  == [r EXCEPT !.v.bits = IF @ = 0 THEN 1 ELSE 0]
  IN  CASE e.k = "LITERAL" /\ e.type = StringT -> Allocate(m, [kind |-> "STRING", text |-> e.v])
        [] e.k = "LITERAL" /\ e.type = FloatT -> Result(Val("FLOAT", e.v), m)
        [] e.k = "LITERAL" /\ e.type \in {IntT, BoolT} -> Result(Val("INT", e.v), m)
        [] e.k = "PRIMARY" -> Result(Lookup(m, e.name), m)
        [] e.k = "BINARY" /\ e.op \in {"||", "&&"} -> EvalLogical(e, m)
        [] e.k = "BINARY" /\ e.op \notin {"||", "&&"} ->
             operate(EvalAll(<<e.left, e.right>>, m, <<>>))
        [] e.k = "GROUPING" -> Eval(e.expr, m)
        [] e.k = "UNARY" -> negate(Eval(e.right, m))
        [] e.k = "ARRAY" -> ArrayValue(e, m)
        [] e.k = "MAP" -> MapValue(e, m)
        [] e.k = "CALL" -> needed(Call(e, m))
        [] e.k = "SUBSCRIPT" -> element(EvalAll(<<e.object, e.element>>, m, <<>>))
        [] e.k = "ACCESS" -> member(Eval(e.object, m))

Eval(e, m) == IF Going(m) THEN Evaluate(e, m) ELSE Result(NilV, m)

-----------------------------------------------------------------------------
(* Statements.                                                             *)

Declare(m, name, v) == [m EXCEPT !.vars = Extend(@, name, v)]

\* the value first, then the object and the index or the member it is stored to
StoreElement(object, index, v, o, m) ==
  CASE o.kind = "MAP" -> [m EXCEPT !.store[object.bits].entries = Extend(@, Shown(m, index), v)]
    [] o.kind = "ARRAY" -> IF index.bits \in 0..Len(o.items) - 1
                           THEN [m EXCEPT !.store[object.bits].items[index.bits + 1] = v]
                           ELSE Stop(m, "exit")

Assign(s, m) ==
  LET member(v, r) == IF Going(r.m) THEN [r.m EXCEPT !.store[r.v.bits].members[s.right.element.name] = v]
                      ELSE r.m
      element(v, r) == IF Going(r.m)
                       THEN StoreElement(r.vs[1], r.vs[2], v, r.m.store[r.vs[1].bits], r.m)
                       ELSE r.m
      store(r) == CASE s.right.k = "PRIMARY" -> AssignName(r.m, s.right.name, r.v)
                    [] s.right.k = "ACCESS" -> member(r.v, Eval(s.right.object, r.m))
                    [] s.right.k = "SUBSCRIPT" ->
                         element(r.v, EvalAll(<<s.right.object, s.right.element>>, r.m, <<>>))
      ifGoing(r) == IF Going(r.m) THEN store(r) ELSE r.m
  IN  ifGoing(Eval(s.expr, m))

\* A closure keeps its own copies of the variables it can see where it is created.
CreateClosure(s, m) ==
  LET name  == s.function.name
      seen  == DOMAIN m.vars \union DOMAIN Captures(m)
      met   == (IF name \in m.made THEN {"again"} ELSE {})
               \union (IF \A i \in DOMAIN s.upvalues : s.upvalues[i].name \in seen THEN {} ELSE {"capture"})
      env   == [n \in seen |-> Lookup(m, n)]
      create(r) == Declare([r.m EXCEPT !.made = @ \union {name}, !.quirks = @ \union met], name, r.v)
  IN  create(Allocate(m, [kind |-> "CLOSURE", fn |-> s.function, env |-> env]))

ExecAll(ss, m) == IF ss = <<>> \/ ~Going(m) THEN m ELSE ExecAll(Tail(ss), Exec(Head(ss), m))

\* The variables declared inside are gone afterwards.
Forget(m, done) == [done EXCEPT !.vars = [n \in DOMAIN m.vars |-> done.vars[n]]]

Inside(s, m) ==
  Forget(m, Exec(s, IF s.k \in {"VAR", "CLOSURE"} THEN Quirk(m, "branch") ELSE m))

Loop(s, m) ==
  LET turn(cond) == IF Going(cond.m) /\ cond.v.bits # 0 THEN Loop(s, Inside(s.body, cond.m))
                    ELSE cond.m
  IN  turn(Eval(s.cond, m))

Branch(s, m) ==
  LET chosen(v) == IF v.bits # 0 THEN <<s.then>> ELSE s.otherwise
      run(ss, n) == IF ss = <<>> \/ ~Going(n) THEN n ELSE Inside(ss[1], n)
      of(cond) == run(chosen(cond.v), cond.m)
  IN  of(Eval(s.cond, m))

Execute(s, m) ==
  LET declare(name, r) == Declare(r.m, name, r.v)
      return(r)  == IF Going(r.m) THEN [r.m EXCEPT !.ret = <<r.v>>] ELSE r.m
      discard(r) == IF r.v = NoValue /\ Len(s.call.args) # 1 THEN Quirk(r.m, "void") ELSE r.m
  IN  CASE s.k = "VAR" -> declare(s.name, Initial(s, m))
        [] s.k = "ASSIGNMENT" -> Assign(s, m)
        [] s.k = "IF" -> Branch(s, m)
        [] s.k = "WHILE" -> Loop(s, m)
        [] s.k \in {"BLOCK", "SCOPE"} -> Forget(m, ExecAll(s.stmts, m))
        [] s.k = "RETURN" -> return(Eval(s.expr, m))
        [] s.k = "CALL_STMT" -> discard(Call(s.call, m))
        [] s.k = "CLOSURE" -> CreateClosure(s, m)

Exec(s, m) == IF Going(m) THEN Execute(s, m) ELSE m

-----------------------------------------------------------------------------
(* The run of a program: main, when there is one.                          *)

GlobalObject(s) ==
  CASE s.name = "print" -> [kind |-> "NATIVE_FN"]
    [] s.k = "FN" -> [kind |-> "FUNCTION", fn |-> s]
    [] s.k = "STRUCT" -> [kind |-> "CONSTRUCTOR", fn |-> s]
    [] OTHER -> [kind |-> "NONE"]

\* out, what is printed; status, how it ends; quirks, what it met on the way.
Run(stmts) ==
  LET m0 == [vars |-> [n \in {} |-> NilV], closure |-> 0, globals |-> stmts,
             store |-> [i \in DOMAIN stmts |-> GlobalObject(stmts[i])],
             ret |-> <<>>, status |-> "ok", out |-> <<>>, quirks |-> {}, made |-> {}]
      main == {i \in DOMAIN stmts : stmts[i].k = "FN" /\ stmts[i].name = "main"}
      end(m) == [out |-> m.out, status |-> IF m.status = "ok" THEN "done" ELSE m.status,
                 quirks |-> m.quirks]
  IN  end(IF main = {} THEN Stop(m0, "no_main") ELSE Exec(stmts[CHOOSE i \in main : TRUE].body, m0))
=============================================================================
