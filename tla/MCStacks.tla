------------------------------ MODULE MCStacks ------------------------------
(* The runs of Pipeline that also look at the heights of the stack, which  *)
(* are worked out from the compiled code: a call begins with its arguments *)
(* and follows every jump.                                                 *)
EXTENDS MCPipeline, Stacks, TLC

\* The offsets the instruction at ip goes on to, with the height there.
LOCAL Successors(made, code, ip, h) ==
  LET op   == code[ip + 1].op
      n    == code[ip + 2].arg
      next == ip + 1 + OperandBytes(op)
  IN  CASE op \in {"RETURN", "EMPTY_STRING"} -> {}
        [] op = "CLOSURE" -> {<<next + UpvalueBytes * made[n].count, h + 1>>}
        [] op = "JMP" -> {<<next + n, h>>}
        [] op = "JMP_Z" -> {<<next, h - 1>>, <<next + n, h - 1>>}
        [] op \in {"OR", "AND"} -> {<<next, h - 1>>, <<next + n, h>>}
        [] op \in Consumers -> {<<next, h - Pops(op, n)>>}
        [] OTHER -> {<<next, h - Pops(op, n) + 1>>}

\* known: heights found; new: those whose successors were not looked at.
RECURSIVE Follow(_, _, _, _)
LOCAL Follow(made, code, known, new) ==
  LET next == UNION {Successors(made, code, s[1], s[2]) : s \in {s \in new : s[1] < Len(code)}}
      found == {s \in next : s[1] \in 0..Len(code) /\ s[2] >= 0 /\ known[s[1]] = Unreached}
  IN  IF found = {} THEN known
      ELSE LET at == [i \in {s[1] : s \in found} |-> CHOOSE h \in {s[2] : s \in found} : <<i, h>> \in found]
           IN  Follow(made, code, at @@ known, {<<i, at[i]>> : i \in DOMAIN at})

LOCAL HeightsOf(made, code, arguments) ==
  Follow(made, code, [i \in 0..Len(code) |-> IF i = 0 THEN arguments ELSE Unreached], {<<0, arguments>>})

\* How many arguments the chunks take, in the order the compiler writes them.
RECURSIVE Arities(_), AritiesOf(_)
LOCAL AritiesOf(s) ==
  CASE s.k = "FN" -> Append(AritiesOf(s.body), Len(s.params))
    [] s.k = "STRUCT" -> <<0>>
    [] s.k = "CLOSURE" -> AritiesOf(s.function)
    [] s.k = "IF" -> AritiesOf(s.then) \o Arities(s.otherwise)
    [] s.k = "WHILE" -> AritiesOf(s.body)
    [] s.k \in {"SCOPE", "BLOCK"} -> Arities(s.stmts)
    [] OTHER -> <<>>
LOCAL Arities(ss) == IF ss = <<>> THEN <<>> ELSE AritiesOf(Head(ss)) \o Arities(Tail(ss))

LOCAL Heights ==
  LET heights(made, arities) ==
        [c \in DOMAIN made.chunks |-> HeightsOf(made.heap, made.chunks[c], arities[c])]
  IN  [p \in DOMAIN Corpus |-> heights(Compiled[p], Arities(Verdicts[p].stmts))]

\* Heights under a local name: TLC works it out once, not wherever Height occurs.
MCHeight == LET heights == Heights IN heights
=============================================================================
