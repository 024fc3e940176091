----------------------------- MODULE MCPipeline -----------------------------
(* The constants of the runs of Pipeline: a corpus each, and the FPU. *)
EXTENDS Pipeline

LOCAL P == INSTANCE Corpora

\* Two corpora in one, a program of which is made when it is asked for.
LOCAL Both(p, q) ==
  LET n == Cardinality(DOMAIN p)
  IN  [i \in 1 .. n + Cardinality(DOMAIN q) |-> IF i <= n THEN p[i] ELSE q[i - n]]

MCStatements == Both(P!Statements, P!Closures)
MCCalls      == Both(P!Calls, P!Tests)
MCLimits     == Both(P!Limits, P!Jumps)
MCOddities   == P!Oddities
MCMisplaced  == P!Misplaced

\* Floats are small integers here: the engine only passes them on.
MCFloat(op, l, r) ==
  CASE op = "ADD_F" -> l + r
    [] op = "SUB_F" -> l - r
    [] op = "MUL_F" -> l * r
    [] op = "DIV_F" -> IF r = 0 THEN 0 ELSE Quotient(l, r)
    [] op = "LESS_F" -> Bit(l < r)
    [] op = "GREATER_F" -> Bit(l > r)
    [] op = "EQUAL_F" -> Bit(l = r)
    [] op = "NEGATE_F" -> -l
    [] OTHER -> l
=============================================================================
