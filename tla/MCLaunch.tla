------------------------------ MODULE MCLaunch ------------------------------
(* The programs of the runs of Launch: terms, planted as trees. *)
EXTENDS Launch, FiniteSetsExt

LOCAL None == [node |-> [k |-> "NONE"], parts |-> <<>>]
LOCAL Term(node, stmts, exprs) == [node |-> [stmts |-> Len(stmts)] @@ node, parts |-> stmts \o exprs]
LOCAL Simple(k, stmts, exprs) == Term([k |-> k], stmts, exprs)

RECURSIVE Plant(_, _)

\* A forest with the nodes of a term behind those it had, the root last.
Plant(forest, term) ==
  LET step(acc, t) == LET planted == Plant(acc.forest, t)
                      IN  [forest |-> planted,
                           ids |-> Append(acc.ids, IF t = None THEN NULL ELSE Len(planted.node))]
      all == FoldLeft(step, [forest |-> forest, ids |-> <<>>], term.parts)
      new == Len(all.forest.node) + 1
  IN  IF term = None THEN forest
      ELSE [node  |-> Append(all.forest.node, term.node),
            parts |-> Append(all.forest.parts, all.ids),
            under |-> Append(all.forest.under, Len(forest.node) + 1 .. new)]

LOCAL Expr == Simple("EXPR", <<>>, <<>>)
LOCAL Hole == Simple("EXPR", <<>>, <<Expr, None>>)
LOCAL CallOf(e) == Simple("CALL", <<>>, <<e>>)
LOCAL Ret == Simple("RETURN", <<>>, <<Expr>>)
LOCAL Block(ss) == Simple("BLOCK", ss, <<>>)
LOCAL Var(type, value) == Term([k |-> "VAR", type |-> type], <<>>, <<value>>)
LOCAL Assign(declares) == Term([k |-> "ASSIGNMENT", declares |-> declares], <<>>, <<Expr, Expr>>)
LOCAL If(then, otherwise) == Simple("IF", <<then, otherwise>>, <<Expr>>)
LOCAL While(body) == Simple("WHILE", <<body>>, <<Expr>>)
LOCAL Fn(name, void, params, body) == Term([k |-> "FN", name |-> name, void |-> void], Append(params, body), <<>>)
LOCAL Closure(void, ss) == Simple("CLOSURE", <<Fn("c", void, <<>>, Block(ss))>>, <<>>)
LOCAL Named(k, name, ss) == Term([k |-> k, name |-> name], ss, <<>>)

LOCAL C == CallOf(Expr)

LOCAL Inner == {
  C, Var("typed", Expr), Var("typed", None), Var("struct", None), Assign(TRUE), Assign(FALSE),
  If(Block(<<C>>), None), If(C, Block(<<Var("typed", Expr)>>)), If(Assign(TRUE), Assign(TRUE)),
  If(C, If(Block(<<Assign(FALSE)>>), None)),
  While(Block(<<Assign(TRUE), CallOf(Simple("EXPR", <<>>, <<Expr, Expr>>))>>)), While(Var("typed", Expr)),
  Simple("SCOPE", <<Var("struct", None)>>, <<>>),
  Closure(TRUE, <<Closure(FALSE, <<Ret>>), C>>), Closure(FALSE, <<C>>)}

LOCAL MainOf(ss) == Fn("main", TRUE, <<>>, Block(ss))

LOCAL Declarations == {
  MainOf(<<C>>),
  Fn("f", FALSE, <<Var("typed", None), Var("struct", None)>>, Ret),
  Fn("f", FALSE, <<>>, Block(<<C>>)),
  Fn("g", FALSE, <<>>, Block(<<>>)),
  Fn("h", FALSE, <<>>, Block(<<If(Block(<<C>>), Assign(TRUE))>>)),
  Fn("r", TRUE, <<>>, Simple("RETURN", <<>>, <<None>>)),
  Fn("print", TRUE, <<Var("typed", None)>>, Block(<<C>>)),
  Named("STRUCT", "S", <<Var("typed", Expr), Var("typed", None)>>),
  Named("UNION", "main", <<>>), Named("NATIVE_FN", "print", <<>>), Named("NATIVE_FN", "other", <<>>)}

\* The program of these declarations.
LOCAL Planted(globals, parsed) ==
  LET planted == Plant([node |-> <<>>, parts |-> <<>>, under |-> <<>>], Block(globals))
  IN  [head |-> Len(planted.node), wrong |-> {}, parsed |-> parsed] @@ planted

\* What the validator may find wrong: the target of a declaring assignment is no use of
\* a name, and an expression within another one is part of that.
LOCAL Fallible(p) ==
  {x \in DOMAIN p.node :
     /\ p.node[x].k \in {"EXPR", "VAR", "ASSIGNMENT", "IF", "WHILE", "CLOSURE", "RETURN"}
     /\ \A a \in DOMAIN p.node :
          x \in Range(p.parts[a]) => /\ p.node[a].k # "EXPR"
                                     /\ ~(p.node[a].k = "ASSIGNMENT" /\ p.node[a].declares /\ p.parts[a][1] = x)}

LOCAL WithErrors(p) == {[p EXCEPT !.wrong = wrong] : wrong \in UNION {kSubset(n, Fallible(p)) : n \in 0 .. 2}}

\* Two statements in main; two or three declarations; up to two things wrong.
MCPrograms ==
  UNION {WithErrors(Planted(<<MainOf(<<s, t>>), Named("NATIVE_FN", "print", <<>>)>>, "ok")) : s, t \in Inner}
    \union UNION {WithErrors(Planted(<<d, e>>, "ok")) : d, e \in Declarations}
    \union {Planted(<<d, MainOf(<<Closure(TRUE, <<Closure(TRUE, <<C>>)>>)>>), e>>, "ok") : d, e \in Declarations}
    \union {Planted(<<MainOf(<<None, s>>)>>, parsed) : s \in Inner, parsed \in {"error", "stops"}}

MCRedefined   == {Planted(<<Fn("f", TRUE, <<>>, Block(<<C>>)), Fn("f", TRUE, <<>>, Block(<<C>>)), MainOf(<<C>>)>>, "ok")}
MCSyntaxError == {Planted(<<MainOf(<<Var("typed", Hole)>>)>>, "error")}
=============================================================================
