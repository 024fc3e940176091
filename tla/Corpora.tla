------------------------------ MODULE Corpora ------------------------------
(***************************************************************************)
(* The programs the model-checking runs execute, as syntax trees.          *)
(***************************************************************************)
EXTENDS Sources

LOCAL a == Name("a")
LOCAL b == Name("b")
LOCAL c == Name("c")
LOCAL xs == Name("xs")
LOCAL m == Name("m")

LOCAL Plus(l, r)  == Bin(l, "+", r)
LOCAL Minus(l, r) == Bin(l, "-", r)
LOCAL Less(l, r)  == Bin(l, "<", r)

-----------------------------------------------------------------------------
(* Every pair of the statements below, on an Int, an array and a map: each *)
(* statement changes what the conditions, indices and operands of the      *)
(* other are.                                                              *)

StatementPool == <<
  Let("a", Plus(a, Num(1))),
  Let("a", Minus(At(xs, Num(1)), Bin(Bin(a, "*", a), "*", Num(50)))),
  Scope(<<DeclAs(IntT, "b", a), Show(b),
          Scope(<<DeclAs(IntT, "c", b), Let("a", Bin(c, "/", Minus(Num(0), Num(2))))>>)>>),
  While(Less(a, Num(7)),
        Block(<<DeclAs(IntT, "t", Plus(a, Num(3))), Show(a), Let("a", Name("t"))>>)),
  While(Bin(Bin(a, "<=", Num(3)), "&&", Bin(a, "!=", Minus(Num(0), Num(5)))), Let("a", Plus(a, Num(1)))),
  If(Bin(a, ">", Num(2)), Block(<<Assign(At(xs, Num(0)), a), Show(xs)>>)),
  If(Bin(Bin(a, "=", Num(2)), "||", Bin(At(xs, a), ">=", Num(1))), Show(True)),
  If(Not(Less(a, Num(3))), Block(<<DeclAs(IntT, "d", Num(1)), Let("a", Name("d"))>>)),
  Assign(At(xs, Num(1)), Minus(At(xs, Num(0)), a)),
  Show(At(xs, Minus(a, Num(2)))),
  Show(Bin(At(xs, Num(1)), "/", Minus(a, Num(2)))),
  Assign(At(m, a), At(xs, Num(0))),
  Show(At(m, Plus(a, Num(1)))),
  Let("xs", Array(<<a, At(m, a)>>)),
  Scope(<<DeclAs(ArrayOf(ArrayOf(IntT)), "yy", Array(<<Array(<<a>>), xs>>)),
          Assign(At(At(Name("yy"), Num(1)), Num(1)), Num(6)),
          Let("xs", At(Name("yy"), Num(0)))>>),
  Return(CallName("print", <<a>>), VoidT)>>

Statements ==
  LET start  == <<DeclAs(IntT, "a", Num(2)),
                  DeclAs(ArrayOf(IntT), "xs", Array(<<Num(4), Num(100)>>)),
                  DeclAs(MapOf(IntT, IntT), "m", MapOfEntries(<<Num(2), Num(8), Num(2), Num(9)>>))>>
      finish == <<Show(xs), Show(a), Show(At(m, Num(2)))>>
  IN  [i \in 1..Len(StatementPool) * Len(StatementPool) |->
         Program(start \o Pairs(StatementPool, StatementPool)[i] \o finish, <<>>)]

-----------------------------------------------------------------------------
(* Closures: which variables are captured, in which order, which of them   *)
(* the closure changes, and what the function that created it does next.   *)

LOCAL p == Name("p")
LOCAL q == Name("q")
LOCAL l == Name("l")
LOCAL f == Name("f")
LOCAL g == Name("g")

LOCAL CallF(n) == CallName("f", <<n>>)
LOCAL IntFn    == FnOf(IntT, <<IntT>>)

\* f changes one captured variable and returns another; it is called twice, and its
\* creator may change a variable in between.
OneClosure(set, read, returned, after) ==
  Program(<<DeclAs(IntT, "a", Num(1)), DeclAs(IntT, "b", Num(20)), DeclAs(IntT, "c", Num(40)),
            Closure("f", <<Decl(IntT, "p")>>, IntT,
              <<Let(set, Plus(Name(read), p)), DeclAs(IntT, "l", Name(returned)), Return(l, IntT)>>)>>
          \o after \o
          <<Show(CallF(Num(2))), Show(CallF(Num(3))), Show(a), Show(b), Show(c)>>, <<>>)

\* g is created inside f: what it uses of f it captures from the stack, and what it
\* uses of main from the upvalues of f.  f may return g, called when f is gone.
NestedClosures(set, read, first) ==
  Program(<<DeclAs(IntT, "a", Num(1)), DeclAs(IntT, "b", Num(20)),
            Closure("f", <<Decl(IntT, "p")>>, IntFn,
              <<DeclAs(IntT, "l", Plus(p, Name(first))),
                Closure("g", <<Decl(IntT, "q")>>, IntT,
                  <<Let(set, Plus(Name(read), q)), Return(Plus(Name(set), Name(first)), IntT)>>),
                Let("l", CallName("g", <<l>>)), Show(p),
                Return(g, IntFn)>>),
            Let("h", CallF(Num(5))),
            Show(CallName("h", <<Num(3)>>)), Show(CallName("h", <<a>>)), Show(a), Show(b)>>, <<>>)

\* A closure that outlives the call it was created in, passed to a function; and the
\* test closure.mtr.
Counter ==
  Program(<<DeclAs(FnOf(IntT, <<>>), "next", CallName("counter", <<Num(7)>>)),
            Show(CallName("next", <<>>)), Do(CallName("twice", <<Name("next")>>)),
            Show(CallName("next", <<>>))>>,
          <<Fn("counter", <<Decl(IntT, "from")>>, FnOf(IntT, <<>>),
              <<Closure("step", <<>>, IntT,
                  <<Let("from", Plus(Name("from"), Num(1))), Return(Name("from"), IntT)>>),
                Return(Name("step"), FnOf(IntT, <<>>))>>),
            Fn("twice", <<Decl(FnOf(IntT, <<>>), "do")>>, VoidT,
              <<Show(Plus(CallName("do", <<>>), CallName("do", <<>>)))>>)>>)

ClosureTest ==
  LET intsFn == FnOf(ArrayOf(IntT), <<IntT>>)
      x0(v)  == Assign(At(Name("x"), Num(0)), v)
  IN  Program(<<Let("y", CallName("closure_inside_closure", <<>>)),
                Let("z", CallName("y", <<>>)), Let("w", CallName("z", <<Num(47)>>)),
                Show(Name("w"))>>,
        <<Fn("closure_inside_closure", <<>>, FnOf(intsFn, <<>>),
            <<Let("z", Num(45)), Let("x", Array([i \in 1..4 |-> Num(i - 1)])),
              Closure("c1", <<>>, intsFn,
                <<Show(StrLit(1)), Show(Name("x")), x0(Num(1)),
                  Closure("c2", <<Decl(IntT, "y")>>, ArrayOf(IntT),
                    <<Show(StrLit(2)), Show(Name("x")), x0(Name("y")),
                      Return(Name("x"), ArrayOf(IntT))>>),
                  Return(Name("c2"), intsFn)>>),
              Return(Name("c1"), FnOf(intsFn, <<>>))>>)>>)

Closures ==
  LET abc    == <<"a", "b", "c">>
      afters == <<<<>>, <<Let("b", Num(9))>>, <<Scope(<<DeclAs(IntT, "d", a), Let("c", Name("d"))>>)>>>>
      pairs  == Pairs(Pairs(abc, abc), Pairs(abc, afters))
      vars   == <<"a", "b", "p", "l">>
      nested == Pairs(Pairs(vars, vars), <<"a", "p">>)
  IN  [i \in DOMAIN pairs |->
         OneClosure(pairs[i][1][1], pairs[i][1][2], pairs[i][2][1], pairs[i][2][2])] \o
      [i \in DOMAIN nested |-> NestedClosures(nested[i][1][1], nested[i][1][2], nested[i][2])] \o
      <<Counter, ClosureTest>>

-----------------------------------------------------------------------------
(* Calls: arguments, results, recursion, functions as values, structs,     *)
(* strings and floats, in every pair of the statements below.              *)

LOCAL pt == Name("pt")
LOCAL n == Name("n")
LOCAL v == Name("v")
LOCAL Point == StructOf("Point", <<[name |-> "x", type |-> IntT], [name |-> "tags", type |-> ArrayOf(IntT)],
                                   [name |-> "y", type |-> IntT]>>)
LOCAL Word   == UnionOf("Word", <<IntT, StringT>>)
LOCAL Traced(k) == CallName("traced", <<Num(k)>>)
LOCAL IntParam(x) == Decl(IntT, x)

CallGlobals == <<
  Struct("Point", <<DeclAs(IntT, "x", Num(3)), Decl(ArrayOf(IntT), "tags"), Decl(IntT, "y")>>),
  Union("Word", <<IntT, StringT>>),
  \* recursion, with a local and a scope under the recursive call
  Fn("fact", <<IntParam("n")>>, IntT,
     <<If(Less(n, Num(2)), Block(<<DeclAs(IntT, "one", Num(1)), Return(Name("one"), IntT)>>)),
       DeclAs(IntT, "rest", CallName("fact", <<Minus(n, Num(1))>>)),
       Return(Bin(n, "*", Name("rest")), IntT)>>),
  \* a function and the function it is called by
  Fn("even", <<IntParam("n")>>, BoolT,
     <<If(Bin(n, "=", Num(0)), Return(True, BoolT)),
       Return(CallName("odd", <<Minus(n, Num(1))>>), BoolT)>>),
  Fn("odd", <<IntParam("n")>>, BoolT,
     <<While(Bin(n, ">", Num(0)), Return(CallName("even", <<Minus(n, Num(1))>>), BoolT)),
       Return(False, BoolT)>>),
  FnExpr("minus", <<IntParam("l"), IntParam("r")>>, IntT, Minus(Name("l"), Name("r"))),
  Fn("traced", <<IntParam("n")>>, IntT, <<Show(n), Return(n, IntT)>>),
  Fn("bump", <<Decl(Point, "v")>>, VoidT,
     <<DeclAs(IntT, "old", Dot(v, "x")), Assign(Dot(v, "y"), Name("old")),
       Assign(Dot(v, "x"), Plus(Name("old"), Num(1))), Decl(Point, "new"), Let("v", Name("new"))>>),
  Fn("apply", <<Decl(FnOf(IntT, <<IntT, IntT>>), "op"), IntParam("n")>>, IntT,
     <<Return(CallName("op", <<n, CallName("op", <<Num(1), n>>)>>), IntT)>>)>>

CallPool == <<
  Show(CallName("fact", <<Num(4)>>)),
  Let("a", CallName("fact", <<CallName("fact", <<Num(3)>>)>>)),
  If(CallName("even", <<Num(3)>>), Show(True)),
  Show(CallName("minus", <<CallName("minus", <<a, Num(3)>>), Traced(5)>>)),
  Show(CallName("apply", <<Name("minus"), a>>)),
  Show(Bin(Bin(Traced(1), "&&", Traced(0)), "||", Bin(Traced(0), "||", Traced(7)))),
  Show(Array(<<Traced(1), Traced(2), a>>)),
  Show(MapOfEntries(<<Traced(1), Traced(2), Num(1), Traced(3)>>)),
  Do(CallName("bump", <<pt>>)),
  Assign(Dot(pt, "tags"), Array(<<Dot(pt, "x"), a>>)),
  Scope(<<DeclAs(Point, "other", pt), Decl(Point, "new"), Let("pt", Name("new")),
          Assign(Dot(Name("other"), "x"), Num(60)), Assign(Dot(pt, "x"), Minus(Dot(Name("other"), "x"), a))>>),
  Scope(<<DeclAs(Word, "w", a), Let("w", StrLit(7)), Show(Name("w"))>>),
  Scope(<<Decl(Point, "new"),
          DeclAs(MapOf(StringT, Point), "at", MapOfEntries(<<StrLit(1), pt, StrLit(2), Name("new")>>)),
          Assign(At(Name("at"), StrLit(3)), pt),
          Assign(Dot(At(Name("at"), StrLit(1)), "y"), Num(8)), Show(Dot(At(Name("at"), StrLit(3)), "y"))>>),
  Scope(<<DeclAs(FloatT, "x", Bin(FloatLit(9), "/", FloatLit(2))),
          If(Bin(Name("x"), ">=", FloatLit(4)), Show(Bin(Name("x"), "-", FloatLit(7))))>>),
  Scope(<<Let("ops", Array(<<Name("fact"), Name("traced")>>)),
          Let("a", CallOf(At(Name("ops"), Num(1)), <<CallOf(At(Name("ops"), Num(0)), <<Num(3)>>)>>))>>),
  Scope(<<Let("say", Name("print")), Do(CallName("say", <<Traced(6)>>))>>)>>

Calls ==
  LET start  == <<DeclAs(IntT, "a", Num(2)), Decl(Point, "pt")>>
      finish == <<Show(a), Show(Dot(pt, "x")), Show(Dot(pt, "y")), Show(Dot(pt, "tags"))>>
  IN  [i \in 1..Len(CallPool) * Len(CallPool) |->
         Program(start \o Pairs(CallPool, CallPool)[i] \o finish, CallGlobals)]

\* The other programs of Tests/, with string literals by number.
Tests ==
  LET hello == DeclAs(StringT, "s", StrLit(1))
      fib1 == Name("fib1")   fib2 == Name("fib2")   x == Name("x")
  IN  <<\* main.mtr
        Program(<<Let("x", Plus(Num(3), Num(5))), DeclAs(IntT, "y", x), DeclAs(FloatT, "z", FloatLit(45)),
                  Let("a", Array(<<Num(3), Num(5), x>>)), Show(Name("z")), Show(CallName("test", <<>>))>>,
                <<FnExpr("test", <<>>, IntT, Plus(Num(35), Num(45)))>>),
        \* fib.mtr
        Program(<<DeclAs(IntT, "i", Num(0)), DeclAs(IntT, "count", Num(10)),
                  DeclAs(IntT, "fib1", Num(0)), DeclAs(IntT, "fib2", Num(1)),
                  While(Less(Name("i"), Name("count")), Block(
                    <<Show(fib1), DeclAs(IntT, "swap", Plus(fib1, fib2)), Let("fib1", fib2),
                      Let("fib2", Name("swap")), Let("i", Plus(Name("i"), Num(1)))>>))>>, <<>>),
        \* scope.mtr
        Program(<<Scope(<<DeclAs(IntT, "x", Num(45)), Show(x)>>),
                  Scope(<<DeclAs(FloatT, "x", FloatLit(15)), Show(x)>>),
                  hello, Show(Name("s"))>>, <<>>),
        \* userTypes.mtr
        <<Struct("MyStruct", <<DeclAs(IntT, "x", Num(45))>>),
          Union("MyUnion", <<IntT, FloatT, StringT>>),
          Main(<<Decl(StructOf("MyStruct", <<[name |-> "x", type |-> IntT]>>), "x"), Show(Dot(x, "x")),
                 DeclAs(UnionOf("MyUnion", <<IntT, FloatT, StringT>>), "y", Num(5)), Show(Name("y")),
                 Let("y", StrLit(1)), Show(Name("y"))>>),
          PrintFn>>>>

-----------------------------------------------------------------------------
(* Programs that run into the size of the stack, of the C stack or of the  *)
(* heap: a recursion of some depth over frames of some size that creates   *)
(* an array in every other call.                                           *)

LOCAL Recursion(depth, locals) ==
  Program(<<DeclAs(IntT, "a", Num(depth)), Show(CallName("down", <<a>>)), Show(a)>>,
    <<Fn("down", <<IntParam("n")>>, IntT,
        [k \in 1..locals |-> DeclAs(IntT, <<"k1", "k2", "k3">>[k], Plus(n, Num(k)))] \o
        <<Show(n),
          If(Less(n, Num(1)), Return(n, IntT)),
          If(Bin(n, "=", Bin(Num(2), "*", Bin(n, "/", Num(2)))), Show(Array(<<n, n>>))),
          Return(Plus(n, CallName("down", <<Minus(n, Num(1))>>)), IntT)>>)>>)

Limits == [i \in 1..28 |-> Recursion((i - 1) \div 4, (i - 1) % 4)]

-----------------------------------------------------------------------------
(* A loop with two branches in its body, around statements of growing      *)
(* length, so that the chunk and the jumps pass what a 16-bit word holds.  *)

LOCAL Padding(k) == [j \in 1..k |-> Let("a", Plus(a, Num(0)))]

LOCAL Stretched(inner, outer) ==
  Program(<<DeclAs(IntT, "a", Num(1)),
            While(Less(a, Num(3)),
              Block(<<If(Less(a, Num(2)), Block(Padding(inner)))>> \o Padding(outer) \o
                    <<If(Bin(a, ">", Num(1)), Show(a)), Let("a", Plus(a, Num(1)))>>)),
            Show(a)>>, <<>>)

Jumps == [i \in 1..49 |-> Stretched((i - 1) \div 7, (i - 1) % 7)]

-----------------------------------------------------------------------------
(* Legal programs that use what the code generator or the engine gives a   *)
(* meaning of its own (see Meaning), alone and one after the other.        *)

LOCAL BoxT == StructOf("Box", <<[name |-> "x", type |-> IntT]>>)

OddGlobals == <<
  Struct("Box", <<Decl(IntT, "x")>>),
  Fn("nothing", <<>>, VoidT, <<Let("k", Num(5))>>),
  Fn("two", <<IntParam("l"), IntParam("r")>>, VoidT, <<Let("k", Name("l"))>>),
  Fn("same", <<IntParam("n")>>, IntT, <<Return(n, IntT)>>),
  Fn("forever", <<IntParam("n")>>, IntT, <<Return(CallName("forever", <<n>>), IntT)>>),
  Fn("sink", <<>>, VoidT, <<Do(CallName("nothing", <<>>)), Do(CallName("nothing", <<>>)), Let("k", Num(5))>>),
  Native("clock", <<>>, IntT)>>

OddPool == <<
  Do(CallName("nothing", <<>>)),
  Do(CallName("sink", <<>>)),
  Do(CallName("two", <<a, Num(7)>>)),
  Let("void", CallName("nothing", <<>>)),
  If(Less(a, Num(4)), DeclAs(IntT, "inner", Num(6))),
  While(Less(a, Num(4)), Block(<<DeclAs(IntT, "new", Plus(a, Num(1))), Let("a", Name("new")),
                                 Closure("again", <<>>, IntT, <<Let("new", Num(9)), Return(Name("new"), IntT)>>),
                                 Show(CallName("again", <<>>))>>)),
  Scope(<<Closure("self", <<IntParam("n")>>, IntT, <<Return(CallName("self", <<n>>), IntT)>>),
          Show(CallName("self", <<a>>))>>),
  Scope(<<Closure("own", <<>>, VoidT, <<Let("mine", Num(3)), Scope(<<Show(Name("mine"))>>)>>),
          Do(CallName("own", <<>>))>>),
  Let("a", CallName("forever", <<a>>)),
  While(Num(1), Let("xs", Array(<<a>>))),
  While(Num(1), DeclAs(IntT, "inner2", a)),
  Scope(<<Decl(StringT, "text")>>),
  Show(MapOfEntries(<<xs, a>>)),
  Scope(<<Decl(MapOf(ArrayOf(IntT), IntT), "odd"), Assign(At(Name("odd"), xs), a)>>),
  Let("same", Name("forever")),
  Show(Bin(True, "=", False)),
  Show(CallName("clock", <<>>)),
  Show(Not(Name("unknown"))),
  Show(At(xs, a)),
  Assign(At(xs, Minus(Num(0), Num(1))), a),
  Assign(At(xs, Num(0)), Bin(a, "/", Num(0))),
  Scope(<<Decl(BoxT, "box"), Assign(At(xs, Num(0)), a)>>),
  Scope(<<Decl(BoxT, "box2"), Show(At(xs, Num(0)))>>),
  Scope(<<DeclAs(ArrayOf(IntT), "ys", xs), Show(CallName("h", <<a>>))>>)>>

\* A call statement of a function without a value, between a declaration and the use
\* of what was declared.
Misplaced ==
  <<Program(<<DeclAs(IntT, "a", Num(2)), Let("h", Name("same")), Do(CallName("nothing", <<>>)),
              DeclAs(ArrayOf(IntT), "ys", Array(<<a>>)), Show(CallName("h", <<a>>))>>, OddGlobals)>>

Oddities ==
  LET main(ss) == Program(<<DeclAs(IntT, "a", Num(2)), DeclAs(ArrayOf(IntT), "xs", Array(<<Num(4)>>)),
                            Let("h", Name("same"))>> \o ss, OddGlobals)
      size == Len(OddPool) * Len(OddPool)
  IN  [i \in 1..size + 1 |-> IF i > size THEN OddGlobals ELSE main(Pairs(OddPool, OddPool)[i])]

-----------------------------------------------------------------------------
(* Small programs with all of the grammar between them, for the parser to  *)
(* read with a token more, less or changed.                                *)

LOCAL d == Name("d")
LOCAL Pair == StructOf("Pair", <<[name |-> "x", type |-> IntT], [name |-> "y", type |-> ArrayOf(IntT)]>>)

Samples == <<
  \* operators, literals, targets, branches
  <<Main(<<DeclAs(BoolT, "a", Bin(Num(1), "+", Bin(Num(2), "*", b))),
           IfElse(Bin(Not(Bin(a, "=", b)), "&&", Bin(Minus(c, d), "<", FloatLit(3))),
                  Block(<<Assign(At(Dot(m, "xs"), a), MapOfEntries(<<a, True, StrLit(1), b>>))>>),
                  Do(CallOf(At(Array(<<a, b>>), c), <<>>)))>>)>>,
  \* types, parameters, loops, returns
  <<Struct("Pair", <<DeclAs(IntT, "x", Num(4)), Decl(ArrayOf(IntT), "y")>>),
    Union("Either", <<Pair, MapOf(StringT, IntT)>>),
    Fn("f", <<Decl(Pair, "p"), Decl(FnOf(IntT, <<FloatT, BoolT>>), "g")>>, Pair,
       <<While(CallName("g", <<Num(1), a>>), Return(p, Pair))>>),
    PrintFn>>,
  \* functions in functions, scopes
  <<Main(<<Decl(FnOf(VoidT, <<>>), "g"),
           Closure("f", <<Decl(IntT, "p")>>, IntT,
                   <<Scope(<<Let("a", Dot(p, "x"))>>),
                     [k |-> "CLOSURE", function |-> FnExpr("h", <<>>, IntT, Not(p))],
                     Return(a, IntT)>>)>>),
    FnExpr("last", <<>>, IntT, Num(7))>>>>
=============================================================================
