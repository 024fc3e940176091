------------------------------ MODULE Sources ------------------------------
(***************************************************************************)
(* Constructors of syntax trees, as the parser builds them, and the        *)
(* programs the model-checking modules run.  A name is a string, a string  *)
(* literal a number that stands for its text.                              *)
(***************************************************************************)
EXTENDS Types

-----------------------------------------------------------------------------
(* Expressions.                                                            *)

Num(n)       == [k |-> "LITERAL", type |-> IntT, v |-> n]
FloatLit(n)  == [k |-> "LITERAL", type |-> FloatT, v |-> n]
StrLit(n)    == [k |-> "LITERAL", type |-> StringT, v |-> n]
True         == [k |-> "LITERAL", type |-> BoolT, v |-> 1]
False        == [k |-> "LITERAL", type |-> BoolT, v |-> 0]
Name(x)      == [k |-> "PRIMARY", name |-> x]
Bin(l, op, r) == [k |-> "BINARY", op |-> op, left |-> l, right |-> r]
Not(e)       == [k |-> "UNARY", op |-> "!", right |-> e]
Array(es)    == [k |-> "ARRAY", elems |-> es]
MapOfEntries(es) == [k |-> "MAP", elems |-> es]
CallOf(f, args) == [k |-> "CALL", fn |-> f, args |-> args]
CallName(f, args) == CallOf(Name(f), args)
At(o, i)     == [k |-> "SUBSCRIPT", object |-> o, element |-> i]
Dot(o, m)    == [k |-> "ACCESS", object |-> o, element |-> Name(m)]

-----------------------------------------------------------------------------
(* Statements and declarations.                                            *)

Decl(t, x)       == [k |-> "VAR", type |-> <<t>>, name |-> x, value |-> <<>>]
DeclAs(t, x, e)  == [k |-> "VAR", type |-> <<t>>, name |-> x, value |-> <<e>>]
Assign(to, e)    == [k |-> "ASSIGNMENT", right |-> to, expr |-> e]
Let(x, e)        == Assign(Name(x), e)
If(c, s)         == [k |-> "IF", cond |-> c, then |-> s, otherwise |-> <<>>]
IfElse(c, s, t)  == [k |-> "IF", cond |-> c, then |-> s, otherwise |-> <<t>>]
While(c, s)      == [k |-> "WHILE", cond |-> c, body |-> s]
Block(ss)        == [k |-> "BLOCK", stmts |-> ss]
Scope(ss)        == [k |-> "SCOPE", stmts |-> ss]
Return(e, t)     == [k |-> "RETURN", expr |-> e, from |-> t]
Do(call)         == [k |-> "CALL_STMT", call |-> call]
Show(e)          == Do(CallName("print", <<e>>))

Fn(x, params, ret, ss) ==
  [k |-> "FN", name |-> x, params |-> params, ret |-> ret, body |-> Block(ss)]
FnExpr(x, params, ret, e) ==
  [k |-> "FN", name |-> x, params |-> params, ret |-> ret, body |-> Return(e, ret)]
Closure(x, params, ret, ss) == [k |-> "CLOSURE", function |-> Fn(x, params, ret, ss)]
Native(x, params, ret) == [k |-> "NATIVE_FN", name |-> x, params |-> params, ret |-> ret]
Struct(x, members) == [k |-> "STRUCT", name |-> x, members |-> members]
Union(x, alts)     == [k |-> "UNION", name |-> x, alternatives |-> alts]

PrintFn  == Native("print", <<Decl(AnyT, "value")>>, VoidT)
Main(ss) == Fn("main", <<>>, VoidT, ss)

\* A program in the order the repository's tests have: types, which must be known to
\* the functions that name them, main, the other functions, print.
LOCAL IsType(s)     == s.k \in {"STRUCT", "UNION"}
LOCAL IsFunction(s) == ~IsType(s)
Program(ss, globals) == SelectSeq(globals, IsType) \o <<Main(ss)>>
                          \o SelectSeq(globals, IsFunction) \o <<PrintFn>>

\* Every choice of one member of A and one of B, as a sequence.
Pairs(A, B) == [i \in 1..Len(A) * Len(B) |-> <<A[(i - 1) \div Len(B) + 1], B[((i - 1) % Len(B)) + 1]>>]
=============================================================================
