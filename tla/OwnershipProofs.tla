--------------------------- MODULE OwnershipProofs ---------------------------
(***************************************************************************)
(* What the walks of Ownership preserve, for every program.                *)
(*                                                                         *)
(* TreeInv: what is in use points to what is in use, and the calls that    *)
(* run follow one path down the tree.  DeadInv: what has been deleted is   *)
(* freed with all below it, but for what is forgotten.  VerdictInv: what   *)
(* has been analysed without an error has none.                            *)
(***************************************************************************)
EXTENDS Launch, SequenceTheorems, TLAPS

N        == DOMAIN program.node
P        == program.parts
Under(x) == program.under[x]
Kind(x)  == Node(x).k

Calls == [does : {"check", "declare", "free"}, id : Int, turn : Nat \ {0}, ok : BOOLEAN]

Types ==
  /\ program \in Programs
  /\ calls \in Seq(Calls)
  /\ N \subseteq DOMAIN parts /\ DOMAIN parts \subseteq Int /\ freed \subseteq DOMAIN parts
  /\ \A x \in DOMAIN parts : parts[x] \in Seq(Int)

-----------------------------------------------------------------------------
(* What the pointers may have become.                                      *)

\* What an analysis of y leaves where y was: y, nothing, or the variable it became.
Stands(y, p) == \/ p \in {y, NULL}
                \/ p = -y /\ p \in DOMAIN parts /\ y \in N /\ Kind(y) = "ASSIGNMENT"

\* A statement with statements below it; an if has only its first pointer changed.
PartStands(x, i) == LET p == parts[x][i]
                    IN  \/ Stands(P[x][i], p) /\ (p # P[x][i] => i <= Node(x).stmts)
                        \/ Kind(x) = "IF" /\ i = 1 /\ 2 \in DOMAIN P[x] /\ Stands(P[x][2], p) /\ P[x][2] # NULL

NodeStands(x) ==
  \/ parts[x] = P[x]
  \/ Kind(x) = "VAR" /\ P[x] = <<NULL>> /\ parts[x] = <<-x>> /\ -x \in DOMAIN parts
  \/ /\ Kind(x) \in Compound /\ Len(parts[x]) = Len(P[x])
     /\ \A i \in DOMAIN P[x] : PartStands(x, i)
     /\ Kind(x) = "IF" => parts[x][2] = P[x][2]

\* A node of the validator: a variable with the value of the assignment, which is freed,
\* or the call of a constructor, which is the value of its variable.
NewNode(x) ==
  /\ -x \in N
  /\ \/ /\ Kind(-x) = "ASSIGNMENT" /\ Node(-x).declares /\ -x \in freed
        /\ Len(P[-x]) = 2 /\ 2 \in DOMAIN P[-x] /\ P[-x][2] # NULL /\ parts[x] = <<P[-x][2]>>
     \/ Kind(-x) = "VAR" /\ parts[x] = <<>> /\ parts[-x] = <<x>>

Pointers == /\ \A x \in N : NodeStands(x)
            /\ \A x \in DOMAIN parts \ N : NewNode(x)

-----------------------------------------------------------------------------
(* The calls that run.                                                     *)

Running(k) ==
  LET c == calls[k]
  IN /\ c.id \in Live /\ c.turn <= Len(parts[c.id]) + 1
     /\ c.does # "free" => program.parsed = "ok"
     /\ c.does = "declare" => /\ c.id \in N /\ Kind(c.id) = "ASSIGNMENT" /\ Node(c.id).declares
                              /\ c.turn <= 2
     /\ c.does = "check" => /\ Kind(c.id) \notin Compound => c.turn = 1 /\ (c.id \in N => c.ok)
                            /\ Kind(c.id) = "IF" /\ c.turn <= 2 => Stands(P[c.id][1], parts[c.id][1])

\* A call and the one it has made.
Called(k) ==
  LET c == calls[k]
      d == calls[k + 1]
      p == parts[c.id][c.turn]
  IN /\ c.turn <= Len(parts[c.id]) /\ p # NULL
     /\ c.does # "check" => d.does = "free" /\ d.id = p
     /\ c.does = "declare" => c.turn = 1
     /\ c.does = "check" => /\ c.id \in N /\ Kind(c.id) \in Compound
                            /\ c.turn <= Analysed(c.id)
                            /\ p = P[c.id][c.turn]
                            /\ d.id = p \/ (d.id = -p /\ Kind(p) = "ASSIGNMENT" /\ d.does # "declare")

\* Every call is about something below the part its callers are at.
Nested == \A j, k \in 1 .. Len(calls) :
            k < j => /\ calls[j].id # calls[k].id
                     /\ Origin(calls[j].id) \in Under(Origin(parts[calls[k].id][calls[k].turn]))

\* What the parser has made of x is still there.
Fresh(x) == \A y \in Under(x) : y \notin freed /\ parts[y] = P[y] /\ -y \notin DOMAIN parts

\* What an analysis has still to look at has not been touched.
Ahead(k) ==
  LET c == calls[k]
  IN  c.does = "check" /\ Kind(c.id) \in Compound =>
        \A i \in DOMAIN P[c.id] :
          i > c.turn \/ (i = c.turn /\ k = Len(calls)) =>
            /\ parts[c.id][i] = P[c.id][i]
            /\ P[c.id][i] # NULL => Fresh(P[c.id][i])

\* What a deletion has behind it is freed.
Behind(k) == calls[k].does # "check" => \A i \in 1 .. calls[k].turn - 1 : parts[calls[k].id][i] \notin Live

\* The part i of a has been freed, or is being analysed and may become something else.
Passed(a, i) == \E k \in 1 .. Len(calls) :
                  /\ calls[k].id = a
                  /\ \/ calls[k].does # "check" /\ i < calls[k].turn
                     \/ calls[k].does = "check" /\ i = calls[k].turn /\ k < Len(calls)

\* What is in use points to what is in use.
Whole == \A a \in Live : \A i \in DOMAIN parts[a] :
           \/ parts[a][i] \in Live \/ parts[a][i] = NULL
           \/ Kind(a) = "IF" /\ i = 2
           \/ Passed(a, i)

Walks == /\ calls # <<>> => calls[1].id = program.head
         /\ \A k \in 1 .. Len(calls) : Running(k) /\ Ahead(k) /\ Behind(k)
         /\ \A k \in 1 .. Len(calls) - 1 : Called(k)
         /\ Nested

TreeInv == Types /\ Pointers /\ Walks /\ Whole

-----------------------------------------------------------------------------
(* What is freed is freed with all below it.                               *)

\* An if whose first pointer is that to its else branch, or which has lost that branch.
Lost(x) == /\ Kind(x) = "IF" /\ 2 \in DOMAIN P[x] /\ P[x][2] # NULL
           /\ parts[x][1] = P[x][2] \/ P[x][2] \in freed

\* Nothing of x is in use but what is below a statement that was forgotten.
Dead(x) == \A y \in Live : Origin(y) \in Under(x) =>
             \E f \in Forgotten \intersect Under(x) : Origin(y) \in Under(f)

DeadBelow(k) ==
  LET c == calls[k]
  IN /\ c.does = "free" /\ c.id \in N =>
          \A i \in 1 .. c.turn - 1 :
            \/ P[c.id][i] = NULL \/ Dead(P[c.id][i])
            \/ c.turn = 2 /\ Lost(c.id)
     /\ c.does = "free" /\ c.id \notin N /\ Kind(-c.id) = "ASSIGNMENT" /\ c.turn = 2 => Dead(P[-c.id][2])
     /\ c.does = "declare" /\ c.turn = 2 => Dead(P[c.id][1])

DeadInv ==
  /\ program.parsed = "ok" \/ parts = P
  /\ \A x \in Live \intersect N : \A i \in DOMAIN P[x] :
       P[x][i] # NULL /\ parts[x][i] = NULL => Dead(P[x][i]) \/ Lost(x)
  /\ \A x \in Live \ N : Kind(-x) = "ASSIGNMENT" => Dead(P[-x][1])
  /\ \A k \in 1 .. Len(calls) : DeadBelow(k)

-----------------------------------------------------------------------------
(* What the analysis has found out.                                        *)

\* The returns without a value.
Bare == {x \in Nodes({"RETURN"}) : program.parts[x] = <<NULL>>}

Clean(x) == Under(x) \intersect (program.wrong \union Unreturning \union Bare) = {}

\* What was found wrong is gone when its owner is.
Nulled == \A x \in Live \intersect N : \A i \in DOMAIN P[x] :
            P[x][i] # NULL /\ parts[x][i] = NULL =>
              \E k \in 1 .. Len(calls) : calls[k].id = x /\ (calls[k].does = "free" \/ ~calls[k].ok)

Judged(k) ==
  LET c == calls[k]
  IN c.does = "check" =>
       /\ ~c.ok => Erroneous
       /\ k < Len(calls) /\ calls[k + 1].does = "free" => Erroneous
       /\ c.id \notin N /\ c.ok => -c.id \notin program.wrong
       /\ c.id \in N /\ (c.turn > 1 \/ k < Len(calls)) => Right(Header(c.id))
       /\ c.id \in N /\ c.ok => \A i \in 1 .. c.turn - 1 : P[c.id][i] # NULL => Clean(P[c.id][i])

VerdictInv == Nulled /\ \A k \in 1 .. Len(calls) : Judged(k)

-----------------------------------------------------------------------------
(* The program: what ProgramsAssumption says of it.                        *)

LEMMA ProgramIsTree ==
  ASSUME program \in Programs
  PROVE  /\ N \subseteq Nat \ {0} /\ program.head \in N /\ Under(program.head) = N
         /\ \A x \in N :
              /\ P[x] \in Seq(N \union {0})
              /\ Node(x) = program.node[x]
              /\ Node(x).stmts \in 0 .. Len(P[x])
              /\ x \in Under(x) /\ Under(x) \subseteq N
              /\ \A y \in Under(x) : Under(y) \subseteq Under(x)
              /\ \A i \in DOMAIN P[x] : P[x][i] # 0 =>
                   /\ P[x][i] \in N /\ P[x][i] # program.head
                   /\ x \notin Under(P[x][i]) /\ Under(P[x][i]) \subseteq Under(x)
              /\ \A y \in Under(x) : y = x \/ \E i \in DOMAIN P[x] : P[x][i] # 0 /\ y \in Under(P[x][i])
<1>1. N \subseteq Nat \ {0} /\ program.head \in N /\ Under(program.head) = N
  BY ProgramsAssumption DEF IsTree, N, Under, NULL
<1>2. \A x \in N : /\ P[x] \in Seq(N \union {0})
                   /\ program.node[x].stmts \in 0 .. Len(P[x])
                   /\ Under(x) = {x} \union UNION {Under(y) : y \in Range(P[x]) \ {0}}
                   /\ \A y \in Under(x) : Under(y) \subseteq Under(x)
                   /\ \A y \in Range(P[x]) \ {0} : x \notin Under(y)
  BY ProgramsAssumption DEF IsTree, N, P, Under, Below, NULL
<1> SUFFICES ASSUME NEW x \in N
             PROVE  /\ P[x] \in Seq(N \union {0})
                    /\ Node(x) = program.node[x]
                    /\ Node(x).stmts \in 0 .. Len(P[x])
                    /\ x \in Under(x) /\ Under(x) \subseteq N
                    /\ \A y \in Under(x) : Under(y) \subseteq Under(x)
                    /\ \A i \in DOMAIN P[x] : P[x][i] # 0 =>
                         /\ P[x][i] \in N /\ P[x][i] # program.head
                         /\ x \notin Under(P[x][i]) /\ Under(P[x][i]) \subseteq Under(x)
                    /\ \A y \in Under(x) : y = x \/ \E i \in DOMAIN P[x] : P[x][i] # 0 /\ y \in Under(P[x][i])
  BY <1>1
<1>3. Node(x) = program.node[x]
  BY <1>1 DEF Node
<1>4. x \in Under(x) /\ Under(x) \subseteq N
  BY <1>1, <1>2
<1>5. ASSUME NEW i \in DOMAIN P[x], P[x][i] # 0
      PROVE  /\ P[x][i] \in N /\ P[x][i] # program.head
             /\ x \notin Under(P[x][i]) /\ Under(P[x][i]) \subseteq Under(x)
  <2>1. P[x][i] \in Range(P[x]) \ {0} /\ P[x][i] \in N
    BY <1>2, <1>5 DEF Range
  <2> QED
    BY <2>1, <1>1, <1>2
<1>6. ASSUME NEW y \in Under(x)
      PROVE  y = x \/ \E i \in DOMAIN P[x] : P[x][i] # 0 /\ y \in Under(P[x][i])
  BY <1>2 DEF Range
<1> QED
  BY <1>2, <1>3, <1>4, <1>5, <1>6

\* Every node but the root is the part of one node, at one place.
LEMMA PartsAreDistinct ==
  ASSUME program \in Programs,
         NEW x \in N, NEW i \in DOMAIN P[x], NEW y \in N, NEW j \in DOMAIN P[y],
         P[x][i] # 0, P[x][i] = P[y][j]
  PROVE  x = y /\ i = j
<1>1. x = y
  <2>1. x # y => (Range(P[x]) \ {0}) \intersect (Range(P[y]) \ {0}) = {}
    BY ProgramsAssumption DEF IsTree, N, P, Below, NULL
  <2> QED
    BY <2>1 DEF Range
<1>2. i = j
  <2>1. P[x][i] \in Under(P[x][i])
    BY ProgramIsTree
  <2>2. i # j => Under(P[x][i]) \intersect Under(P[x][j]) = {}
    BY <1>1, ProgramsAssumption DEF IsTree, N, P, Under, NULL
  <2> QED
    BY <1>1, <2>1, <2>2
<1> QED
  BY <1>1, <1>2

LEMMA PartsAreDisjoint ==
  ASSUME program \in Programs,
         NEW x \in N, NEW i \in DOMAIN P[x], NEW j \in DOMAIN P[x],
         P[x][i] # 0, P[x][j] # 0, i # j
  PROVE  Under(P[x][i]) \intersect Under(P[x][j]) = {}
BY ProgramsAssumption DEF IsTree, N, P, Under, NULL

\* The kinds of what the validator allocates.
LEMMA NewNodes ==
  ASSUME program \in Programs, NEW x \in N
  PROVE  /\ -x < 0 /\ -x \notin N /\ Node(-x).stmts = 0 /\ Kind(-x) \notin Compound
         /\ Kind(x) = "ASSIGNMENT" => Kind(-x) = "VAR" /\ Node(-x).type = "inferred"
         /\ Kind(x) # "ASSIGNMENT" => Kind(-x) = "EXPR"
<1>1. x \in Nat /\ x > 0 /\ -(-x) = x /\ -x < 0 /\ ~(-x > 0)
  BY ProgramIsTree
<1>2. -x \notin N
  BY <1>1, ProgramIsTree
<1>3. Node(x) = program.node[x]
  BY ProgramIsTree
<1> QED
  BY <1>1, <1>2, <1>3 DEF Node, Kind, Compound

LEMMA StatementFacts ==
  ASSUME program \in Programs, program.parsed = "ok", NEW x \in N
  PROVE  /\ Kind(x) = "IF" => Node(x).stmts = 2 /\ Len(P[x]) = 3 /\ P[x][1] # 0 /\ P[x][3] # 0
         /\ Kind(x) \in {"WHILE", "CLOSURE"} => Node(x).stmts = 1
         /\ Kind(x) = "FN" => Node(x).stmts = Len(P[x]) /\ Len(P[x]) > 0
         /\ Kind(x) \in {"BLOCK", "SCOPE", "STRUCT", "UNION", "NATIVE_FN"} => Node(x).stmts = Len(P[x])
         /\ Kind(x) \in {"VAR", "RETURN"} => Node(x).stmts = 0 /\ Len(P[x]) = 1
         /\ Kind(x) = "ASSIGNMENT" => Node(x).stmts = 0 /\ Len(P[x]) = 2
         /\ Kind(x) \notin Compound => Node(x).stmts = 0
         /\ Kind(x) = "CLOSURE" => Len(P[x]) = 1
         /\ \A i \in DOMAIN P[x] :
              /\ P[x][i] = 0 => Kind(x) \in {"VAR", "RETURN"} \/ (Kind(x) = "IF" /\ i = 2)
              /\ P[x][i] # 0 /\ Kind(P[x][i]) = "FN" => x = program.head \/ Kind(x) = "CLOSURE"
              /\ P[x][i] # 0 /\ Kind(x) \in {"STRUCT", "UNION", "NATIVE_FN"} => Kind(P[x][i]) = "VAR"
<1>1. IsStatement(program, x)
  BY ProgramsAssumption DEF IsProgram, N
<1>2. Node(x) = program.node[x] /\ P[x] \in Seq(N \union {0})
  BY ProgramIsTree
<1>3. \A i \in DOMAIN P[x] : P[x][i] \in Range(P[x])
  BY DEF Range
<1>4. \A i \in DOMAIN P[x] : P[x][i] # 0 =>
        P[x][i] \in Below(program, x) /\ Node(P[x][i]) = program.node[P[x][i]]
  BY <1>3, ProgramIsTree DEF Below, P, NULL
<1>5. \A i \in DOMAIN P[x] :
        P[x][i] # 0 /\ Kind(P[x][i]) = "FN" => x = program.head \/ Kind(x) = "CLOSURE"
  BY <1>1, <1>2, <1>4 DEF IsStatement, Kind
<1>11. \A i \in DOMAIN P[x] :
         P[x][i] # 0 /\ Kind(x) \in {"STRUCT", "UNION", "NATIVE_FN"} => Kind(P[x][i]) = "VAR"
  BY <1>1, <1>2, <1>4 DEF IsStatement, Kind
<1>6. Kind(x) = "IF" => Node(x).stmts = 2 /\ Len(P[x]) = 3
  BY <1>1, <1>2 DEF IsStatement, Kind, P
<1>7. ASSUME NEW i \in DOMAIN P[x], P[x][i] = 0
      PROVE  Kind(x) \in {"VAR", "RETURN"} \/ (Kind(x) = "IF" /\ P[x][1] # 0 /\ P[x][3] # 0)
  <2>1. 0 \in Range(P[x])
    BY <1>3, <1>7
  <2> QED
    BY <2>1, <1>1, <1>2 DEF IsStatement, Kind, P, NULL
<1>8. Kind(x) = "IF" => P[x][1] # 0 /\ P[x][3] # 0
  <2>1. Kind(x) = "IF" => 1 \in DOMAIN P[x] /\ 3 \in DOMAIN P[x]
    BY <1>2, <1>6
  <2> QED
    BY <2>1, <1>7
<1>9. ASSUME NEW i \in DOMAIN P[x], P[x][i] = 0
      PROVE  Kind(x) \in {"VAR", "RETURN"} \/ (Kind(x) = "IF" /\ i = 2)
  <2>1. Kind(x) = "IF" => i \in 1 .. 3
    BY <1>2, <1>6
  <2> QED
    BY <2>1, <1>7, <1>8, <1>9
<1>10. /\ Kind(x) \in {"WHILE", "CLOSURE"} => Node(x).stmts = 1
       /\ Kind(x) = "FN" => Node(x).stmts = Len(P[x]) /\ Len(P[x]) > 0
       /\ Kind(x) \in {"BLOCK", "SCOPE", "STRUCT", "UNION", "NATIVE_FN"} => Node(x).stmts = Len(P[x])
       /\ Kind(x) \in {"VAR", "RETURN"} => Node(x).stmts = 0 /\ Len(P[x]) = 1
       /\ Kind(x) = "ASSIGNMENT" => Node(x).stmts = 0 /\ Len(P[x]) = 2
       /\ Kind(x) \notin Compound => Node(x).stmts = 0
       /\ Kind(x) = "CLOSURE" => Len(P[x]) = 1
  BY <1>1, <1>2 DEF IsStatement, Kind, P
<1> QED
  BY <1>5, <1>6, <1>8, <1>9, <1>10, <1>11

LEMMA SameProgram ==
  ASSUME program' = program
  PROVE  /\ N' = N /\ P' = P
         /\ \A x : Under(x)' = Under(x) /\ Node(x)' = Node(x) /\ Kind(x)' = Kind(x)
         /\ Unreturning' = Unreturning /\ Erroneous' = Erroneous
         /\ Untyped' = Untyped /\ Overwritten' = Overwritten
         /\ \A x : Clean(x)' = Clean(x)
<1>1. N' = N /\ P' = P /\ \A x : Under(x)' = Under(x) /\ Node(x)' = Node(x) /\ Kind(x)' = Kind(x)
  BY DEF N, P, Under, Node, Kind
<1>2. Unreturning' = Unreturning /\ Bare' = Bare
  BY DEF Unreturning, Bare, Nodes, Returns, Body
<1>3. SomeRedefined' = SomeRedefined
  BY DEF SomeRedefined, Redefines, Globals
<1>4. Untyped' = Untyped
  BY DEF Untyped, Nodes
<1>5. Overwritten' = Overwritten
  BY <1>4 DEF Overwritten, Nodes
<1> QED
  BY <1>1, <1>2, <1>3, <1>4, <1>5 DEF Erroneous, Clean, Under

-----------------------------------------------------------------------------
(* Who points to what.                                                     *)

LEMMA Origins ==
  ASSUME program \in Programs, NEW x \in N
  PROVE  Origin(x) = x /\ Origin(-x) = x /\ x # 0 /\ x # -x
<1>1. x \in Nat /\ x > 0
  BY ProgramIsTree
<1> QED
  BY <1>1 DEF Origin

\* The part of a node is the call of its constructor, or stands for a part it had, or
\* its assignment had, when it was parsed.
LEMMA Source ==
  ASSUME Types, Pointers, NEW a \in Live, NEW i \in DOMAIN parts[a], parts[a][i] # 0
  PROVE  \/ a \in N /\ Kind(a) = "VAR" /\ i = 1 /\ parts[a] = <<-a>>
         \/ /\ a \in N
            /\ \E j \in DOMAIN P[a] :
                 /\ j = i \/ (Kind(a) = "IF" /\ i = 1 /\ j = 2)
                 /\ P[a][j] # 0
                 /\ \/ parts[a][i] = P[a][j]
                    \/ parts[a][i] = -P[a][j] /\ Kind(P[a][j]) = "ASSIGNMENT"
         \/ /\ -a \in N /\ -a \in freed /\ Kind(-a) = "ASSIGNMENT"
            /\ i = 1 /\ 2 \in DOMAIN P[-a] /\ P[-a][2] # 0
            /\ parts[a] = <<P[-a][2]>>
<1>0. a \in DOMAIN parts /\ program \in Programs
  BY DEF Live, Types
<1>1. CASE a \in N
  <2>1. NodeStands(a)
    BY <1>1 DEF Pointers
  <2>2. CASE parts[a] = P[a]
    BY <2>2, <1>1
  <2>3. CASE Kind(a) = "VAR" /\ parts[a] = <<-a>>
    BY <2>3, <1>1
  <2>4. CASE /\ Kind(a) \in Compound /\ Len(parts[a]) = Len(P[a])
             /\ \A k \in DOMAIN P[a] : PartStands(a, k)
    <3>1. P[a] \in Seq(N \union {0}) /\ parts[a] \in Seq(Int)
      BY <1>0, <1>1, ProgramIsTree DEF Types
    <3>2. i \in DOMAIN P[a]
      BY <3>1, <2>4
    <3>3. PartStands(a, i)
      BY <3>2, <2>4
    <3>4. CASE Stands(P[a][i], parts[a][i])
      <4>1. P[a][i] # 0
        BY <3>4, <1>0, ProgramIsTree DEF Stands, NULL
      <4> QED
        BY <4>1, <3>2, <3>4, <1>1 DEF Stands, NULL
    <3>5. CASE Kind(a) = "IF" /\ i = 1 /\ 2 \in DOMAIN P[a] /\ Stands(P[a][2], parts[a][i]) /\ P[a][2] # NULL
      BY <3>5, <1>1 DEF Stands, NULL
    <3> QED
      BY <3>3, <3>4, <3>5 DEF PartStands
  <2> QED
    BY <2>1, <2>2, <2>3, <2>4 DEF NodeStands
<1>2. CASE a \notin N
  <2>1. NewNode(a)
    BY <1>0, <1>2 DEF Pointers
  <2>2. Kind(-a) = "ASSIGNMENT" /\ parts[a] = <<P[-a][2]>> /\ P[-a][2] # 0 /\ -a \in N /\ -a \in freed
    <3>1. parts[a] # <<>>
      OBVIOUS
    <3> QED
      BY <2>1, <3>1 DEF NewNode, NULL
  <2>3. i = 1
    BY <2>2
  <2>4. 2 \in DOMAIN P[-a]
    BY <2>1, <2>2 DEF NewNode
  <2> QED
    BY <2>2, <2>3, <2>4
<1> QED
  BY <1>1, <1>2

\* The part is below, and what is above it is not.
LEMMA PartsAreBelow ==
  ASSUME Types, Pointers, NEW a \in Live, NEW i \in DOMAIN parts[a], parts[a][i] # 0
  PROVE  /\ Origin(a) \in N
         /\ Origin(parts[a][i]) \in Under(Origin(a))
         /\ Under(Origin(parts[a][i])) \subseteq Under(Origin(a))
         /\ \/ Origin(a) \notin Under(Origin(parts[a][i]))
            \/ a \in N /\ Kind(a) = "VAR" /\ parts[a][i] = -a
<1>0. program \in Programs
  BY DEF Types
<1>1. CASE a \in N /\ Kind(a) = "VAR" /\ i = 1 /\ parts[a] = <<-a>>
  BY <1>0, <1>1, Origins, ProgramIsTree
<1>2. CASE /\ a \in N
           /\ \E j \in DOMAIN P[a] :
                /\ j = i \/ (Kind(a) = "IF" /\ i = 1 /\ j = 2)
                /\ P[a][j] # 0
                /\ \/ parts[a][i] = P[a][j]
                   \/ parts[a][i] = -P[a][j] /\ Kind(P[a][j]) = "ASSIGNMENT"
  <2>1. PICK j \in DOMAIN P[a] : P[a][j] # 0 /\ parts[a][i] \in {P[a][j], -P[a][j]}
    BY <1>2
  <2>2. P[a][j] \in N /\ a \notin Under(P[a][j]) /\ Under(P[a][j]) \subseteq Under(a)
    BY <1>0, <1>2, <2>1, ProgramIsTree
  <2>3. Origin(parts[a][i]) = P[a][j] /\ Origin(a) = a
    BY <1>0, <1>2, <2>1, <2>2, Origins
  <2>4. P[a][j] \in Under(P[a][j])
    BY <1>0, <2>2, ProgramIsTree
  <2> QED
    BY <2>2, <2>3, <2>4, <1>2
<1>3. CASE /\ -a \in N /\ i = 1 /\ 2 \in DOMAIN P[-a] /\ P[-a][2] # 0 /\ parts[a] = <<P[-a][2]>>
  <2>1. PICK x \in N : x = -a
    BY <1>3
  <2>2. a = -x
    <3>1. a \in Int
      BY DEF Types, Live
    <3> QED
      BY <2>1, <3>1
  <2>3. P[x][2] \in N /\ x \notin Under(P[x][2]) /\ Under(P[x][2]) \subseteq Under(x)
    BY <1>0, <1>3, <2>1, ProgramIsTree
  <2>4. Origin(parts[a][i]) = P[x][2] /\ Origin(a) = x
    <3>1. parts[a][i] = P[x][2]
      BY <1>3, <2>1
    <3>2. Origin(P[x][2]) = P[x][2] /\ Origin(-x) = x
      BY <1>0, <2>3, Origins
    <3> QED
      BY <3>1, <3>2, <2>2
  <2>5. P[x][2] \in Under(P[x][2])
    BY <1>0, <2>3, ProgramIsTree
  <2> QED
    BY <2>1, <2>3, <2>4, <2>5
<1> QED
  BY <1>1, <1>2, <1>3, Source

\* What is in use is pointed to once, but for the else branch of an if, which may have
\* taken the place of the other one.
LEMMA HeldOnce ==
  ASSUME Types, Pointers,
         NEW a \in Live, NEW i \in DOMAIN parts[a], NEW b \in Live, NEW j \in DOMAIN parts[b],
         parts[a][i] = parts[b][j], parts[a][i] # 0
  PROVE  a = b /\ (i = j \/ (Kind(a) = "IF" /\ {i, j} = {1, 2}))
<1>0. program \in Programs /\ a \in Int /\ b \in Int
  BY DEF Types, Live
<1> DEFINE Constructed(x, k) == x \in N /\ Kind(x) = "VAR" /\ k = 1 /\ parts[x] = <<-x>>
           Kept(x, k) == /\ x \in N
                         /\ \E m \in DOMAIN P[x] :
                              /\ m = k \/ (Kind(x) = "IF" /\ k = 1 /\ m = 2)
                              /\ P[x][m] # 0
                              /\ \/ parts[x][k] = P[x][m]
                                 \/ parts[x][k] = -P[x][m] /\ Kind(P[x][m]) = "ASSIGNMENT"
           Moved(x, k) == /\ -x \in N /\ -x \in freed /\ Kind(-x) = "ASSIGNMENT"
                          /\ k = 1 /\ 2 \in DOMAIN P[-x] /\ P[-x][2] # 0
                          /\ parts[x] = <<P[-x][2]>>
<1>1. /\ Constructed(a, i) \/ Kept(a, i) \/ Moved(a, i)
      /\ Constructed(b, j) \/ Kept(b, j) \/ Moved(b, j)
  BY Source
<1>2. ASSUME NEW x \in N, NEW m \in DOMAIN P[x], P[x][m] # 0
      PROVE  P[x][m] \in N /\ P[x][m] > 0
  <2>1. P[x][m] \in N
    BY <1>0, <1>2, ProgramIsTree
  <2> QED
    BY <1>0, <2>1, ProgramIsTree
<1>3. \A x \in N : x \in Nat /\ x > 0
  BY <1>0, ProgramIsTree
<1>4. CASE Constructed(a, i) /\ Constructed(b, j)
  BY <1>0, <1>4
<1>5. ASSUME NEW x \in N, NEW y \in N, NEW m \in DOMAIN P[y], P[y][m] # 0, Kind(x) = "VAR",
             -x = P[y][m] \/ (-x = -P[y][m] /\ Kind(P[y][m]) = "ASSIGNMENT")
      PROVE  FALSE
  <2>1. P[y][m] \in N /\ P[y][m] > 0 /\ x > 0
    BY <1>2, <1>3, <1>5
  <2>2. -x # P[y][m]
    BY <2>1, <1>3
  <2>3. x = P[y][m]
    BY <2>1, <2>2, <1>3, <1>5
  <2> QED
    BY <2>2, <2>3, <1>5
<1>6. CASE Constructed(a, i) /\ Kept(b, j)
  BY <1>5, <1>6
<1>7. CASE Kept(a, i) /\ Constructed(b, j)
  BY <1>5, <1>7
<1>8. CASE Constructed(a, i) /\ Moved(b, j)
  BY <1>5, <1>8
<1>9. CASE Moved(a, i) /\ Constructed(b, j)
  BY <1>5, <1>9
<1>10. CASE Kept(a, i) /\ Kept(b, j)
  <2>1. PICK m \in DOMAIN P[a] :
               /\ m = i \/ (Kind(a) = "IF" /\ i = 1 /\ m = 2)
               /\ P[a][m] # 0 /\ parts[a][i] \in {P[a][m], -P[a][m]}
    BY <1>10
  <2>2. PICK n \in DOMAIN P[b] :
               /\ n = j \/ (Kind(b) = "IF" /\ j = 1 /\ n = 2)
               /\ P[b][n] # 0 /\ parts[b][j] \in {P[b][n], -P[b][n]}
    BY <1>10
  <2>3. P[a][m] = P[b][n]
    BY <2>1, <2>2, <1>2, <1>3, <1>10
  <2>4. a = b /\ m = n
    BY <1>0, <2>1, <2>2, <2>3, <1>10, PartsAreDistinct
  <2> QED
    BY <2>1, <2>2, <2>4
<1>11. ASSUME NEW x \in Live, NEW k, Kept(x, k), NEW y \in Live, NEW h, Moved(y, h), parts[x][k] = parts[y][h]
       PROVE  FALSE
  <2>1. PICK m \in DOMAIN P[x] : P[x][m] # 0 /\ parts[x][k] \in {P[x][m], -P[x][m]}
    BY <1>11
  <2>2. parts[y][h] = P[-y][2]
    BY <1>11
  <2>3. P[x][m] = P[-y][2]
    BY <2>1, <2>2, <1>2, <1>3, <1>11
  <2>4. x = -y
    BY <1>0, <2>1, <2>3, <1>11, PartsAreDistinct
  <2> QED
    BY <2>4, <1>11 DEF Live
<1>12. CASE Moved(a, i) /\ Moved(b, j)
  <2>1. P[-a][2] = P[-b][2]
    BY <1>12
  <2>2. -a = -b
    BY <1>0, <1>12, <2>1, PartsAreDistinct
  <2> QED
    BY <1>0, <1>12, <2>2
<1>13. CASE Kept(a, i) /\ Moved(b, j)
  BY <1>11, <1>13
<1>14. CASE Moved(a, i) /\ Kept(b, j)
  BY <1>11, <1>14
<1> QED
  BY <1>1, <1>4, <1>6, <1>7, <1>8, <1>9, <1>10, <1>12, <1>13, <1>14

LEMMA PartsAreAllocated ==
  ASSUME Types, Pointers
  PROVE  /\ 0 \notin DOMAIN parts
         /\ \A a \in Live : \A i \in DOMAIN parts[a] : parts[a][i] # 0 => parts[a][i] \in DOMAIN parts
<1>0. program \in Programs
  BY DEF Types
<1>1. 0 \notin DOMAIN parts
  <2>1. 0 \notin N /\ -0 \notin N
    BY <1>0, ProgramIsTree
  <2> QED
    BY <2>1 DEF Pointers, NewNode
<1>2. ASSUME NEW a \in Live, NEW i \in DOMAIN parts[a], parts[a][i] # 0
      PROVE  parts[a][i] \in DOMAIN parts
  <2>1. a \in DOMAIN parts /\ parts[a] \in Seq(Int) /\ N \subseteq DOMAIN parts
    BY DEF Live, Types
  <2>2. CASE a \in N
    <3>1. NodeStands(a)
      BY <2>2 DEF Pointers
    <3>2. \A j \in DOMAIN P[a] : P[a][j] = 0 \/ P[a][j] \in N
      BY <1>0, <2>2, ProgramIsTree
    <3>3. P[a] \in Seq(N \union {0})
      BY <1>0, <2>2, ProgramIsTree
    <3>4. CASE parts[a] = P[a]
      BY <3>2, <3>4, <2>1, <1>2
    <3>5. CASE Kind(a) = "VAR" /\ parts[a] = <<-a>> /\ -a \in DOMAIN parts
      <4>1. i = 1
        BY <3>5
      <4> QED
        BY <3>5, <4>1
    <3>6. CASE /\ Len(parts[a]) = Len(P[a])
               /\ \A k \in DOMAIN P[a] : PartStands(a, k)
      <4>1. i \in DOMAIN P[a]
        BY <3>3, <3>6, <2>1
      <4>2. PartStands(a, i)
        BY <4>1, <3>6
      <4> QED
        BY <4>1, <4>2, <3>2, <2>1, <1>2 DEF PartStands, Stands, NULL
    <3> QED
      BY <3>1, <3>4, <3>5, <3>6 DEF NodeStands
  <2>3. CASE a \notin N
    <3>1. NewNode(a)
      BY <2>1, <2>3 DEF Pointers
    <3>2. 2 \in DOMAIN P[-a] /\ P[-a][2] # 0 /\ parts[a] = <<P[-a][2]>> /\ -a \in N
      <4>1. parts[a] # <<>>
        BY <1>2
      <4> QED
        BY <3>1, <4>1 DEF NewNode, NULL
    <3>3. i = 1 /\ P[-a][2] \in N
      BY <1>0, <3>2, ProgramIsTree
    <3> QED
      BY <3>2, <3>3, <2>1
  <2> QED
    BY <2>2, <2>3
<1> QED
  BY <1>1, <1>2

-----------------------------------------------------------------------------
(* What stays true of a call when something else changes.                  *)

\* Nodes are only added and freed.
LEMMA PointersStay ==
  ASSUME Pointers, program' = program, parts' = parts, freed \subseteq freed'
  PROVE  Pointers'
<1>1. \A x : Kind(x)' = Kind(x)
  BY SameProgram
<1>2. \A y, p : Stands(y, p)' <=> Stands(y, p)
  BY <1>1, SameProgram DEF Stands
<1>3. \A x, i : PartStands(x, i)' <=> PartStands(x, i)
  BY <1>1, <1>2, SameProgram DEF PartStands
<1>4. \A x \in N : NodeStands(x)'
  BY <1>1, <1>3, SameProgram DEF NodeStands, Pointers
<1>5. \A x \in DOMAIN parts \ N : NewNode(x)'
  BY <1>1, SameProgram DEF NewNode, Pointers
<1> QED
  BY <1>4, <1>5, SameProgram DEF Pointers

LEMMA RunningStays ==
  ASSUME program' = program, NEW k \in Nat, Running(k), calls'[k] = calls[k],
         calls[k].id \in Live', parts'[calls[k].id] = parts[calls[k].id], DOMAIN parts \subseteq DOMAIN parts'
  PROVE  Running(k)'
<1>1. \A y, p : Stands(y, p) => Stands(y, p)'
  BY SameProgram DEF Stands
<1> QED
  BY <1>1, SameProgram DEF Running

LEMMA CalledStays ==
  ASSUME program' = program, NEW k \in Nat, Called(k), calls'[k] = calls[k],
         calls'[k + 1].id = calls[k + 1].id, calls'[k + 1].does = calls[k + 1].does,
         parts'[calls[k].id] = parts[calls[k].id]
  PROVE  Called(k)'
<1>1. Analysed(calls[k].id)' = Analysed(calls[k].id)
  BY SameProgram DEF Analysed, Kind
<1> QED
  BY <1>1, SameProgram DEF Called

\* The call of u has made a call of does about q, which is its part p.
LEMMA CalledFrom ==
  ASSUME NEW k, NEW u, NEW does, NEW q, NEW p, calls'[k] = u,
         calls'[k + 1].does = does, calls'[k + 1].id = q,
         u.turn <= Len(parts'[u.id]), parts'[u.id][u.turn] = p, p # NULL,
         u.does # "check" => does = "free" /\ q = p,
         u.does = "declare" => u.turn = 1,
         u.does = "check" =>
           /\ (u.id \in N /\ Kind(u.id) \in Compound)' /\ u.turn <= Analysed(u.id)'
           /\ p = (P[u.id][u.turn])'
           /\ q = p \/ (q = -p /\ Kind(p)' = "ASSIGNMENT" /\ does # "declare")
  PROVE  Called(k)'
BY DEF Called, Kind, N, P

LEMMA BehindStays ==
  ASSUME NEW k \in Nat, Behind(k), calls'[k] = calls[k], parts'[calls[k].id] = parts[calls[k].id],
         \A i \in 1 .. calls[k].turn - 1 :
           parts[calls[k].id][i] \in Live' => parts[calls[k].id][i] \in Live
  PROVE  Behind(k)'
BY DEF Behind

\* Nothing of what is below x has changed.
LEMMA FreshStays ==
  ASSUME program' = program, NEW x, Fresh(x),
         \A y \in Under(x) : /\ y \in freed' => y \in freed
                             /\ parts'[y] = parts[y]
                             /\ -y \in DOMAIN parts' => -y \in DOMAIN parts
  PROVE  Fresh(x)'
BY SameProgram DEF Fresh

LEMMA AheadStays ==
  ASSUME program' = program, NEW k \in Nat, Ahead(k), calls'[k].id = calls[k].id,
         calls'[k].does = "check" => calls[k].does = "check",
         \A i \in DOMAIN P[calls[k].id] :
           i > calls'[k].turn \/ (i = calls'[k].turn /\ k = Len(calls')) =>
             /\ i > calls[k].turn \/ (i = calls[k].turn /\ k = Len(calls))
             /\ parts'[calls[k].id][i] = parts[calls[k].id][i]
             /\ P[calls[k].id][i] # NULL /\ Fresh(P[calls[k].id][i]) => Fresh(P[calls[k].id][i])'
  PROVE  Ahead(k)'
<1>1. P' = P /\ \A x : Kind(x)' = Kind(x)
  BY SameProgram
<1> SUFFICES ASSUME calls'[k].does = "check", Kind(calls[k].id) \in Compound,
                    NEW i \in DOMAIN P[calls[k].id],
                    i > calls'[k].turn \/ (i = calls'[k].turn /\ k = Len(calls'))
             PROVE  /\ parts'[calls[k].id][i] = P[calls[k].id][i]
                    /\ P[calls[k].id][i] # NULL => Fresh(P[calls[k].id][i])'
  BY <1>1, SameProgram DEF Ahead
<1> QED
  BY DEF Ahead

LEMMA CompoundsAreOld ==
  ASSUME Types, Pointers, NEW x \in DOMAIN parts, Kind(x) \in Compound
  PROVE  x \in N
<1> SUFFICES ASSUME x \notin N PROVE FALSE
  OBVIOUS
<1>1. NewNode(x)
  BY DEF Pointers
<1>2. x \in Int /\ -x \in N /\ program \in Programs
  BY <1>1 DEF NewNode, Types
<1>3. Kind(-(-x)) \notin Compound
  BY <1>2, NewNodes
<1>4. -(-x) = x
  BY <1>2
<1> QED
  BY <1>3, <1>4

\* A call and those it has led to are not below what it has still to look at.
LEMMA AheadIsApart ==
  ASSUME TreeInv, NEW k \in 1 .. Len(calls), NEW j \in k .. Len(calls),
         calls[k].does = "check", Kind(calls[k].id) \in Compound,
         NEW i \in DOMAIN P[calls[k].id], i > calls[k].turn, P[calls[k].id][i] # 0
  PROVE  Origin(calls[j].id) \notin Under(P[calls[k].id][i]) /\ calls[k].id \in N
<1>1. program \in Programs /\ calls \in Seq(Calls)
  BY DEF TreeInv, Types
<1>2. calls[k] \in Calls /\ calls[j] \in Calls /\ Len(calls) \in Nat
  BY <1>1
<1>3. calls[k].id \in N
  <2>1. calls[k].id \in DOMAIN parts
    BY DEF TreeInv, Walks, Running, Live
  <2> QED
    BY <2>1, CompoundsAreOld DEF TreeInv
<1>4. CASE j = k
  <2>1. calls[k].id \notin Under(P[calls[k].id][i])
    BY <1>1, <1>3, ProgramIsTree
  <2> QED
    BY <2>1, <1>1, <1>3, <1>4, Origins
<1>5. CASE j # k
  <2>1. k < j /\ k \in 1 .. Len(calls) - 1 /\ j \in 1 .. Len(calls)
    BY <1>2, <1>5
  <2>2. Called(k)
    BY <2>1 DEF TreeInv, Walks
  <2> DEFINE x == calls[k].id
             m == calls[k].turn
  <2>3. parts[x][m] = P[x][m] /\ P[x][m] # 0 /\ m <= Len(parts[x]) /\ m \in Nat \ {0}
    BY <2>2, <1>2 DEF Called, NULL, Calls
  <2>4. m \in DOMAIN P[x]
    <3>1. P[x] \in Seq(N \union {0}) /\ i \in DOMAIN P[x] /\ m < i
      BY <1>1, <1>3, <1>2, ProgramIsTree DEF Calls
    <3> QED
      BY <3>1, <2>3
  <2>5. Origin(calls[j].id) \in Under(Origin(parts[x][m]))
    BY <2>1 DEF TreeInv, Walks, Nested
  <2>6. Origin(P[x][m]) = P[x][m]
    BY SMTT(30), <1>1, <1>3, <2>3, <2>4, ProgramIsTree, Origins
  <2>7. Under(P[x][i]) \intersect Under(P[x][m]) = {}
    <3>1. i # m
      BY <1>2 DEF Calls
    <3> QED
      BY <3>1, <1>1, <1>3, <2>3, <2>4, PartsAreDisjoint
  <2> QED
    BY <2>3, <2>5, <2>6, <2>7, <1>3
<1> QED
  BY <1>4, <1>5

LEMMA CallsAreNumbered ==
  ASSUME TreeInv
  PROVE  /\ program \in Programs /\ Len(calls) \in Nat /\ DOMAIN calls = 1 .. Len(calls)
         /\ \A k \in 1 .. Len(calls) :
              /\ calls[k] \in Calls /\ calls[k].id \in Live /\ calls[k].id \in Int
              /\ calls[k].turn \in Nat /\ calls[k].turn > 0
              /\ calls[k].does \in {"check", "declare", "free"}
              /\ Origin(calls[k].id) \in N /\ parts[calls[k].id] \in Seq(Int)
              /\ calls[k].id # 0 /\ (calls[k].id \in N \/ -calls[k].id \in N)
         /\ calls # <<>> => Len(calls) > 0 /\ Top = calls[Len(calls)]
<1>1. program \in Programs /\ calls \in Seq(Calls)
  BY DEF TreeInv, Types
<1>2. ASSUME NEW k \in 1 .. Len(calls)
      PROVE  /\ calls[k] \in Calls /\ calls[k].id \in Live /\ calls[k].id \in Int
             /\ calls[k].turn \in Nat /\ calls[k].turn > 0
             /\ calls[k].does \in {"check", "declare", "free"}
             /\ Origin(calls[k].id) \in N /\ parts[calls[k].id] \in Seq(Int)
             /\ calls[k].id # 0 /\ (calls[k].id \in N \/ -calls[k].id \in N)
  <2>1. calls[k] \in Calls
    BY <1>1
  <2>2. calls[k].id \in Live
    BY DEF TreeInv, Walks, Running
  <2>3. calls[k].id \in DOMAIN parts
    BY <2>2 DEF Live
  <2>4. calls[k].id \in N \/ -calls[k].id \in N
    BY <2>3 DEF TreeInv, Pointers, NewNode
  <2>5. calls[k].id # 0
    BY <2>3, PartsAreAllocated DEF TreeInv
  <2>6. Origin(calls[k].id) \in N
    <3>1. calls[k].id \in Int
      BY <2>1 DEF Calls
    <3>2. CASE calls[k].id \in N
      BY <1>1, <3>2, Origins
    <3>3. CASE -calls[k].id \in N
      <4>1. Origin(-(-calls[k].id)) = -calls[k].id
        BY <1>1, <3>3, Origins
      <4>2. -(-calls[k].id) = calls[k].id
        BY <3>1
      <4> QED
        BY <4>1, <4>2, <3>3
    <3> QED
      BY <2>4, <3>2, <3>3
  <2> QED
    BY SMTT(30), <2>1, <2>2, <2>3, <2>4, <2>5, <2>6 DEF Calls, TreeInv, Types
<1> QED
  BY <1>1, <1>2 DEF Top

\* A node has as many parts as it had.
LEMMA PartsAreAsMany ==
  ASSUME Types, Pointers, NEW x \in N
  PROVE  Len(parts[x]) = Len(P[x]) /\ DOMAIN parts[x] = DOMAIN P[x] /\ P[x] \in Seq(N \union {0})
<1>1. P[x] \in Seq(N \union {0}) /\ parts[x] \in Seq(Int)
  BY ProgramIsTree DEF Types
<1>2. NodeStands(x)
  BY DEF Pointers
<1>3. Len(parts[x]) = Len(P[x])
  BY <1>2 DEF NodeStands
<1> QED
  BY <1>1, <1>3

\* What an analysis has called for is as the parser left it.
LEMMA AnalysesGoDown ==
  ASSUME TreeInv, NEW k \in 1 .. Len(calls) - 1, calls[k].does = "check"
  PROVE  LET x == calls[k].id
             m == calls[k].turn
         IN /\ x \in N /\ m \in DOMAIN P[x] /\ m \in DOMAIN parts[x]
            /\ P[x][m] \in N /\ P[x][m] # 0 /\ parts[x][m] = P[x][m]
            /\ \/ calls[k + 1].id = P[x][m]
               \/ calls[k + 1].id = -P[x][m] /\ -P[x][m] \notin N /\ Kind(P[x][m]) = "ASSIGNMENT"
<1> DEFINE x == calls[k].id
           m == calls[k].turn
<1>1. program \in Programs /\ k \in 1 .. Len(calls) /\ Called(k)
  BY CallsAreNumbered DEF TreeInv, Walks
<1>2. x \in N /\ parts[x][m] = P[x][m] /\ P[x][m] # 0 /\ m <= Len(parts[x]) /\ m \in Nat \ {0}
  BY SMTT(30), <1>1, CallsAreNumbered DEF Called, NULL
<1>3. m \in DOMAIN P[x] /\ m \in DOMAIN parts[x]
  <2>1. Len(parts[x]) = Len(P[x]) /\ DOMAIN parts[x] = DOMAIN P[x] /\ P[x] \in Seq(N \union {0})
    BY <1>2, PartsAreAsMany DEF TreeInv
  <2> QED
    BY <2>1, <1>2
<1>4. P[x][m] \in N
  BY <1>1, <1>2, <1>3, ProgramIsTree
<1>5. -P[x][m] \notin N
  BY <1>1, <1>4, NewNodes
<1> QED
  BY <1>1, <1>2, <1>3, <1>4, <1>5 DEF Called

-----------------------------------------------------------------------------
(* The steps of the walks, by what they do to calls and to the tree.       *)

LEMMA PushFacts ==
  ASSUME NEW s \in Seq(Calls), NEW c \in Calls
  PROVE  /\ Append(s, c) \in Seq(Calls) /\ Len(Append(s, c)) = Len(s) + 1
         /\ \A k \in 1 .. Len(s) : Append(s, c)[k] = s[k]
         /\ Append(s, c)[Len(s) + 1] = c
OBVIOUS

(* A call is made about the part that is next. *)
Calls1(d, p) ==
  /\ calls' = Append(calls, Call(d, p, TRUE)) /\ parts' = parts /\ freed' = freed
  /\ calls # <<>> /\ d \in {"check", "free"}
  /\ Top.turn <= Len(Parts) /\ p = Part /\ p \in Live
  /\ Top.does = "check" => /\ d = "check" /\ Kind(Top.id) \in Compound
                           /\ Top.turn <= Analysed(Top.id)
                           /\ Top.turn = 1 => Right(Header(Top.id))
  /\ Top.does # "check" => d = "free"
  /\ Top.does = "declare" => Top.turn = 1

LEMMA CallPreservesTree ==
  ASSUME TreeInv, program' = program, NEW d, NEW p, Calls1(d, p)
  PROVE  TreeInv'
<1> PICK n : n = Len(calls)
  OBVIOUS
<1> PICK t : t = calls[n]
  OBVIOUS
<1>0. /\ program \in Programs /\ n \in Nat /\ n > 0 /\ Top = t /\ n \in 1 .. n
      /\ calls \in Seq(Calls)
      /\ N' = N /\ P' = P /\ \A x : Under(x)' = Under(x) /\ Node(x)' = Node(x) /\ Kind(x)' = Kind(x)
  BY CallsAreNumbered, SameProgram DEF Calls1, TreeInv, Types
<1>1. /\ parts' = parts /\ freed' = freed /\ Live' = Live
      /\ calls' = Append(calls, Call(d, p, TRUE)) /\ d \in {"check", "free"}
      /\ t.turn <= Len(parts[t.id]) /\ p = parts[t.id][t.turn] /\ p \in Live
      /\ t.does = "check" => d = "check" /\ Kind(t.id) \in Compound /\ t.turn <= Analysed(t.id)
      /\ t.does # "check" => d = "free"
      /\ t.does = "declare" => t.turn = 1
  BY <1>0 DEF Calls1, Part, Parts, Live
<1>2. p \in Int /\ p # 0 /\ p \in DOMAIN parts
  BY <1>1, PartsAreAllocated DEF Live, TreeInv, Types
<1>3. /\ calls' \in Seq(Calls) /\ Len(calls') = n + 1
      /\ \A k \in 1 .. n : calls'[k] = calls[k]
      /\ calls'[n + 1].does = d /\ calls'[n + 1].id = p /\ calls'[n + 1].turn = 1 /\ calls'[n + 1].ok = TRUE
  <2>1. Call(d, p, TRUE) \in Calls
    BY SMTT(30), <1>1, <1>2 DEF Call, Calls
  <2> PICK c : c = Call(d, p, TRUE)
    OBVIOUS
  <2>2. c \in Calls /\ c.does = d /\ c.id = p /\ c.turn = 1 /\ c.ok = TRUE
    BY <2>1 DEF Call
  <2>3. calls' = Append(calls, c)
    BY <1>1
  <2> QED
    <3>1. calls \in Seq(Calls) /\ n = Len(calls)
      BY <1>0
    <3>2. /\ Append(calls, c) \in Seq(Calls) /\ Len(Append(calls, c)) = Len(calls) + 1
          /\ \A k \in 1 .. Len(calls) : Append(calls, c)[k] = calls[k]
          /\ Append(calls, c)[Len(calls) + 1] = c
      BY ONLY <3>1, <2>2, PushFacts
    <3>3. calls'[n + 1] = c
      BY <3>1, <3>2, <2>3
    <3> QED
      BY <3>1, <3>2, <3>3, <2>2, <2>3
<1>4. /\ t.turn \in DOMAIN parts[t.id] /\ t.id \in Live /\ parts[t.id][t.turn] # 0
      /\ t.turn \in Nat \ {0} /\ t.id \in DOMAIN parts
  BY SMTT(30), <1>0, <1>1, <1>2, CallsAreNumbered DEF Live
<1>5. Types'
  BY <1>0, <1>1, <1>3 DEF TreeInv, Types
<1>6. Pointers'
  BY <1>1, PointersStay DEF TreeInv
<1>7. ASSUME NEW k \in 1 .. n
      PROVE  Running(k)' /\ Behind(k)'
  <2>1. Running(k) /\ Behind(k) /\ k \in Nat
    BY DEF TreeInv, Walks
  <2>2. calls[k].id \in Live
    BY CallsAreNumbered
  <2> QED
    BY <2>1, <2>2, <1>1, <1>3, RunningStays, BehindStays
<1>8. ASSUME NEW k \in 1 .. n
      PROVE  Ahead(k)'
  <2>1. Ahead(k) /\ k \in Nat /\ k # n + 1
    BY <1>0 DEF TreeInv, Walks
  <2>2. \A x : Fresh(x) => Fresh(x)'
    BY <1>1, FreshStays
  <2>3. calls'[k] = calls[k] /\ k # Len(calls')
    BY <2>1, <1>3
  <2>4. \A i \in DOMAIN P[calls[k].id] :
           i > calls'[k].turn \/ (i = calls'[k].turn /\ k = Len(calls')) =>
             /\ i > calls[k].turn \/ (i = calls[k].turn /\ k = Len(calls))
             /\ parts'[calls[k].id][i] = parts[calls[k].id][i]
             /\ P[calls[k].id][i] # NULL /\ Fresh(P[calls[k].id][i]) => Fresh(P[calls[k].id][i])'
    BY <2>2, <2>3, <1>0, <1>1
  <2> QED
    BY <2>1, <2>3, <2>4, AheadStays
(* What an analysis is called for is as the parser left it. *)
<1>9. ASSUME t.does = "check"
      PROVE  t.id \in N /\ p = P[t.id][t.turn] /\ t.turn \in DOMAIN P[t.id] /\ p \in N /\ Fresh(p)
  <2>1. t.id \in N
    BY <1>1, <1>4, <1>9, CompoundsAreOld DEF TreeInv
  <2>2. Running(n) /\ Ahead(n)
    BY <1>0 DEF TreeInv, Walks
  <2>3. t.turn \in DOMAIN P[t.id]
    BY <2>1, <1>4, PartsAreAsMany DEF TreeInv
  <2>4. p = P[t.id][t.turn] /\ Fresh(p)
    BY <2>1, <2>2, <2>3, <1>0, <1>1, <1>2, <1>9 DEF Ahead, NULL
  <2> QED
    BY <2>1, <2>3, <2>4, <1>0, <1>2, ProgramIsTree
<1>10. Behind(n + 1)'
  BY <1>3 DEF Behind
<1>11. Running(n + 1)'
  <2>1. p \in Live' /\ 1 <= Len(parts'[p]) + 1
    BY <1>1, <1>2 DEF TreeInv, Types
  <2>2. d # "free" => program.parsed = "ok"
    <3>1. Running(n)
      BY <1>0 DEF TreeInv, Walks
    <3> QED
      BY <3>1, <1>1 DEF Running
  <2>3. d = "check" => p \in N /\ parts[p] = P[p]
    <3>1. d = "check" => Fresh(p) /\ p \in N
      BY <1>1, <1>9
    <3>2. d = "check" => p \in Under(p)
      BY <3>1, <1>0, ProgramIsTree
    <3> QED
      BY <3>1, <3>2 DEF Fresh
  <2>4. PICK c : c = calls'[n + 1] /\ c.does = d /\ c.id = p /\ c.turn = 1 /\ c.ok = TRUE
    BY <1>3
  <2>5. d = "check" => Stands(P[p][1], parts[p][1])'
    BY <2>3, <1>0, <1>1 DEF Stands
  <2> QED
    BY <2>1, <2>2, <2>4, <2>5, <1>0, <1>1 DEF Running
<1>12. Ahead(n + 1)'
  <2>1. SUFFICES ASSUME d = "check", NEW i \in DOMAIN P[p]
                 PROVE  parts[p][i] = P[p][i] /\ (P[p][i] # NULL => Fresh(P[p][i])')
    <3>1. PICK c : c = calls'[n + 1] /\ c.does = d /\ c.id = p
      BY <1>3
    <3> QED
      BY <3>1, <1>0, <1>1 DEF Ahead
  <2>2. Fresh(p) /\ p \in N /\ p \in Under(p)
    BY <2>1, <1>0, <1>1, <1>9, ProgramIsTree
  <2>3. P[p][i] # 0 => Under(P[p][i]) \subseteq Under(p)
    BY <2>1, <2>2, <1>0, ProgramIsTree
  <2>4. P[p][i] # 0 => Fresh(P[p][i])
    BY <2>2, <2>3 DEF Fresh
  <2>5. parts[p][i] = P[p][i]
    BY <2>2 DEF Fresh
  <2>6. \A x : Fresh(x) => Fresh(x)'
    BY <1>1, FreshStays
  <2> QED
    BY <2>4, <2>5, <2>6, <1>0 DEF NULL
<1>13. ASSUME NEW k \in 1 .. n
       PROVE  Called(k)'
  <2>1. CASE k # n
    <3>1. Called(k) /\ k \in Nat /\ k + 1 \in 1 .. n
      BY <2>1, <1>0 DEF TreeInv, Walks
    <3> QED
      BY <3>1, <1>1, <1>3, CalledStays
  <2>2. CASE k = n
    <3>1. calls'[n] = t
      BY <1>0, <1>3
    <3>2. Analysed(t.id)' = Analysed(t.id)
      BY <1>0, <1>1 DEF Analysed, Kind
    <3>3. calls'[n + 1].does = d /\ calls'[n + 1].id = p
      BY <1>3
    <3>4. parts'[t.id][t.turn] = p /\ t.turn <= Len(parts'[t.id]) /\ p # NULL
      BY <1>1, <1>2 DEF NULL
    <3>5. t.does = "check" =>
            /\ (t.id \in N /\ Kind(t.id) \in Compound)' /\ t.turn <= Analysed(t.id)'
            /\ p = (P[t.id][t.turn])'
      BY <3>2, <1>0, <1>1, <1>9
    <3>6. Called(n)'
      BY <3>1, <3>3, <3>4, <3>5, <1>1, CalledFrom
    <3> QED
      BY <3>6, <2>2
  <2> QED
    BY <2>1, <2>2
<1>14. Nested'
  <2>1. ASSUME NEW k \in 1 .. n
        PROVE  p # calls[k].id /\ Origin(p) \in Under(Origin(parts[calls[k].id][calls[k].turn]))
    <3>1. /\ Origin(t.id) \in N /\ Origin(p) \in Under(Origin(t.id))
          /\ \/ Origin(t.id) \notin Under(Origin(p))
             \/ t.id \in N /\ Kind(t.id) = "VAR" /\ p = -t.id
      BY <1>1, <1>4, PartsAreBelow DEF TreeInv
    <3>2. Origin(p) \in N /\ Origin(p) \in Under(Origin(p))
      BY <3>1, <1>0, ProgramIsTree
    <3>3. CASE k = n
      <4>1. p # t.id
        BY <3>1, <3>2, <1>0, Origins
      <4> QED
        BY <3>2, <3>3, <4>1, <1>0, <1>1
    <3>4. CASE k # n
      <4> DEFINE b == calls[k].id
                 q == parts[calls[k].id][calls[k].turn]
      <4>1. k < n /\ n \in 1 .. Len(calls) /\ k \in 1 .. Len(calls) /\ k \in 1 .. Len(calls) - 1
        BY <3>4, <1>0
      <4>2. Origin(t.id) \in Under(Origin(q))
        BY <4>1 DEF TreeInv, Walks, Nested
      <4>3. Called(k) /\ b \in Live /\ Origin(b) \in N /\ calls[k].turn \in DOMAIN parts[b] /\ q # 0
        <5>1. Called(k)
          BY <4>1 DEF TreeInv, Walks
        <5> QED
          BY <5>1, <4>1, CallsAreNumbered DEF Called, NULL
      <4>4. Origin(q) \in Under(Origin(b)) /\ Under(Origin(q)) \subseteq Under(Origin(b))
        BY <4>3, PartsAreBelow DEF TreeInv
      <4>5. Origin(q) \in N /\ Under(Origin(t.id)) \subseteq Under(Origin(q))
        BY <4>2, <4>3, <4>4, <1>0, ProgramIsTree
      <4>6. Origin(p) \in Under(Origin(q))
        BY <4>5, <3>1
      <4>7. p # b
        <5>1. SUFFICES ASSUME p = b PROVE FALSE
          OBVIOUS
        <5>2. Origin(t.id) \in Under(Origin(p))
          BY <5>1, <4>2, <4>4
        <5>3. t.id \in N /\ Kind(t.id) = "VAR" /\ b = -t.id
          BY <3>1, <5>1, <5>2
        <5>4. b \in DOMAIN parts /\ b \notin N /\ -b = t.id
          BY <5>3, <4>3, <1>0, ProgramIsTree, NewNodes DEF Live
        <5>5. NewNode(b)
          BY <5>4 DEF TreeInv, Pointers
        <5>6. parts[b] = <<>>
          BY <5>3, <5>4, <5>5 DEF NewNode
        <5> QED
          BY <5>6, <4>3
      <4> QED
        BY <4>6, <4>7
    <3> QED
      BY <3>3, <3>4
  <2>2. ASSUME NEW j \in 1 .. n + 1, NEW k \in 1 .. n + 1, k < j
        PROVE  /\ calls'[j].id # calls'[k].id
               /\ Origin(calls'[j].id) \in Under(Origin(parts[calls'[k].id][calls'[k].turn]))
    <3>1. k \in 1 .. n
      BY <2>2, <1>0
    <3>2. CASE j # n + 1
      <4>1. j \in 1 .. n
        BY <3>2, <1>0
      <4> QED
        BY <3>1, <4>1, <2>2, <1>3 DEF TreeInv, Walks, Nested
    <3>3. CASE j = n + 1
      BY <3>1, <3>3, <2>1, <1>3
    <3> QED
      BY <3>2, <3>3
  <2>3. \A j, k \in 1 .. n + 1 :
          k < j => /\ calls'[j].id # calls'[k].id
                   /\ Origin(calls'[j].id) \in Under(Origin(parts[calls'[k].id][calls'[k].turn]))
    BY <2>2
  <2>4. parts' = parts /\ Len(calls') = n + 1 /\ program' = program
    BY <1>1, <1>3
  <2> QED
    BY ONLY <2>3, <2>4 DEF Nested, Under, Origin
<1>15. Whole'
  <2>1. \A a, i : Passed(a, i) => Passed(a, i)'
    <3>1. SUFFICES ASSUME NEW a, NEW i, Passed(a, i) PROVE Passed(a, i)'
      OBVIOUS
    <3>2. PICK k \in 1 .. n : /\ calls[k].id = a
                              /\ \/ calls[k].does # "check" /\ i < calls[k].turn
                                 \/ calls[k].does = "check" /\ i = calls[k].turn /\ k < n
      BY <3>1 DEF Passed
    <3>3. k \in 1 .. Len(calls') /\ k < Len(calls') /\ calls'[k] = calls[k]
      BY <1>0, <1>3
    <3> QED
      BY <3>2, <3>3 DEF Passed
  <2> QED
    BY <2>1, <1>0, <1>1 DEF TreeInv, Whole
<1> QED
  BY <1>0, <1>3, <1>5, <1>6, <1>7, <1>8, <1>10, <1>11, <1>12, <1>13, <1>14, <1>15 DEF TreeInv, Walks

(* The innermost call goes on to its next part, to delete what it has      *)
(* found wrong, or to declare a variable.                                  *)
GoesOn(c) ==
  /\ calls' = [calls EXCEPT ![Len(calls)] = c] /\ parts' = parts /\ freed' = freed
  /\ calls # <<>> /\ c \in Calls /\ c.id = Top.id
  /\ \/ /\ c.does = "free" /\ Top.does = "free" /\ c.turn = Top.turn + 1
        /\ Top.turn <= Len(Parts) /\ Part = NULL
     \/ /\ c.does = "free" /\ Top.does = "check" /\ c.turn = 1
        /\ Kind(Top.id) # "FN" /\ (Top.ok => program.wrong # {})
     \/ /\ c.does = "declare" /\ Top.does = "check" /\ c.turn = 1
        /\ Kind(Top.id) = "ASSIGNMENT" /\ This.declares /\ Top.id \in N /\ program.parsed = "ok"

LEMMA GoingOnPreservesTree ==
  ASSUME TreeInv, program' = program, NEW c, GoesOn(c)
  PROVE  TreeInv'
<1> PICK n : n = Len(calls)
  OBVIOUS
<1> PICK t : t = calls[n]
  OBVIOUS
<1>0. /\ program \in Programs /\ n \in Nat /\ n > 0 /\ Top = t /\ n \in 1 .. n
      /\ calls \in Seq(Calls)
      /\ N' = N /\ P' = P /\ \A x : Under(x)' = Under(x) /\ Node(x)' = Node(x) /\ Kind(x)' = Kind(x)
  BY CallsAreNumbered, SameProgram DEF GoesOn, TreeInv, Types
<1>1. /\ parts' = parts /\ freed' = freed /\ Live' = Live /\ c \in Calls /\ c.id = t.id
      /\ \/ /\ c.does = "free" /\ t.does = "free" /\ c.turn = t.turn + 1
            /\ t.turn <= Len(parts[t.id]) /\ parts[t.id][t.turn] = 0
         \/ c.does = "free" /\ t.does = "check" /\ c.turn = 1
         \/ /\ c.does = "declare" /\ t.does = "check" /\ c.turn = 1
            /\ Kind(t.id) = "ASSIGNMENT" /\ Node(t.id).declares /\ t.id \in N /\ program.parsed = "ok"
  BY <1>0 DEF GoesOn, Part, Parts, Live, This, NULL
<1>2. /\ calls' \in Seq(Calls) /\ Len(calls') = n /\ calls'[n] = c
      /\ \A k \in 1 .. n : k # n => calls'[k] = calls[k]
      /\ \A k \in 1 .. n : calls'[k].id = calls[k].id
  BY <1>0, <1>1 DEF GoesOn
<1>3. /\ t.id \in Live /\ t.id # 0 /\ t.turn \in Nat \ {0} /\ t.id \in DOMAIN parts
      /\ parts[t.id] \in Seq(Int) /\ t \in Calls
  BY <1>0, CallsAreNumbered DEF Live
<1>4. Types'
  BY <1>0, <1>1, <1>2 DEF TreeInv, Types
<1>5. Pointers'
  BY <1>1, PointersStay DEF TreeInv
<1>6. ASSUME NEW k \in 1 .. n
      PROVE  Running(k)' /\ Behind(k)' /\ Ahead(k)'
  <2>1. CASE k # n
    <3>1. Running(k) /\ Behind(k) /\ Ahead(k) /\ k \in Nat /\ calls[k].id \in Live /\ calls'[k] = calls[k]
      <4>1. Running(k) /\ Behind(k) /\ Ahead(k)
        BY DEF TreeInv, Walks
      <4> QED
        BY <4>1, <2>1, <1>2, CallsAreNumbered
    <3>2. \A x : Fresh(x) => Fresh(x)'
      BY <1>1, FreshStays
    <3>3. Running(k)' /\ Behind(k)'
      BY <3>1, <1>1, RunningStays, BehindStays
    <3>4. \A i \in DOMAIN P[calls[k].id] :
             i > calls'[k].turn \/ (i = calls'[k].turn /\ k = Len(calls')) =>
               /\ i > calls[k].turn \/ (i = calls[k].turn /\ k = Len(calls))
               /\ parts'[calls[k].id][i] = parts[calls[k].id][i]
               /\ P[calls[k].id][i] # NULL /\ Fresh(P[calls[k].id][i]) => Fresh(P[calls[k].id][i])'
      BY <3>1, <3>2, <1>0, <1>1, <1>2
    <3> QED
      BY <3>1, <3>3, <3>4, AheadStays
  <2>2. CASE k = n
    <3>1. Running(n) /\ Behind(n)
      BY <1>0 DEF TreeInv, Walks
    <3>2. program.parsed = "ok" \/ c.does = "free"
      BY <1>1
    <3>3. c.turn <= Len(parts[c.id]) + 1 /\ (c.does = "declare" => c.turn <= 2)
      BY <1>1, <1>3
    <3>4. Running(n)'
      BY <3>2, <3>3, <1>0, <1>1, <1>2, <1>3 DEF Running
    <3>5. Ahead(n)'
      BY <1>1, <1>2 DEF Ahead
    <3>6. \A i \in 1 .. c.turn - 1 : parts[t.id][i] \notin Live
      <4>1. CASE c.turn = 1
        BY <4>1
      <4>2. CASE /\ t.does = "free" /\ c.turn = t.turn + 1 /\ parts[t.id][t.turn] = 0
        <5>1. 0 \notin Live
          BY PartsAreAllocated DEF Live, TreeInv
        <5>2. \A i \in 1 .. t.turn - 1 : parts[t.id][i] \notin Live
          BY <3>1, <4>2, <1>0 DEF Behind
        <5>3. \A i \in 1 .. c.turn - 1 : i = t.turn \/ i \in 1 .. t.turn - 1
          BY <4>2, <1>3
        <5> QED
          BY <5>1, <5>2, <5>3, <4>2
      <4> QED
        BY <4>1, <4>2, <1>1
    <3>7. Behind(n)'
      BY <3>6, <1>1, <1>2 DEF Behind
    <3> QED
      BY <2>2, <3>4, <3>5, <3>7
  <2> QED
    BY <2>1, <2>2
<1>7. ASSUME NEW k \in 1 .. n - 1
      PROVE  Called(k)'
  <2>1. Called(k) /\ k \in Nat /\ k + 1 \in 1 .. n /\ k \in 1 .. n /\ calls'[k] = calls[k]
    BY <1>0, <1>2 DEF TreeInv, Walks
  <2>2. CASE k + 1 # n
    BY <2>1, <2>2, <1>1, <1>2, CalledStays
  <2>3. CASE k + 1 = n
    <3>1. Analysed(calls[k].id)' = Analysed(calls[k].id)
      BY <2>1, <1>0, <1>1 DEF Analysed, Kind
    <3>2. calls[k].does # "check" => c.does = "free"
      BY <2>1, <2>3, <1>1 DEF Called
    <3>3. calls[k].does = "check" /\ c.does = "declare" => c.id = parts[calls[k].id][calls[k].turn]
      <4>1. c.does = "declare" => c.id \in N
        BY <1>1
      <4> QED
        BY <4>1, <2>3, <1>0, <1>1, AnalysesGoDown
    <3> QED
      BY <2>1, <2>3, <3>1, <3>2, <3>3, <1>0, <1>1, <1>2 DEF Called
  <2> QED
    BY <2>2, <2>3
<1>8. Nested'
  <2>1. \A j, k \in 1 .. n :
          k < j => /\ calls'[j].id # calls'[k].id
                   /\ Origin(calls'[j].id) \in Under(Origin(parts[calls'[k].id][calls'[k].turn]))
    <3> SUFFICES ASSUME NEW j \in 1 .. n, NEW k \in 1 .. n, k < j
                 PROVE  /\ calls'[j].id # calls'[k].id
                        /\ Origin(calls'[j].id) \in Under(Origin(parts[calls'[k].id][calls'[k].turn]))
      OBVIOUS
    <3>1. calls'[k] = calls[k] /\ calls'[j].id = calls[j].id
      BY <1>0, <1>2
    <3> QED
      BY <3>1 DEF TreeInv, Walks, Nested
  <2>2. parts' = parts /\ Len(calls') = n /\ program' = program
    BY <1>1, <1>2
  <2> QED
    BY ONLY <2>1, <2>2 DEF Nested, Under, Origin
<1>9. Whole'
  <2>1. ASSUME NEW a, NEW i \in Nat, Passed(a, i) PROVE Passed(a, i)'
    <3>2. PICK k \in 1 .. n : /\ calls[k].id = a
                              /\ \/ calls[k].does # "check" /\ i < calls[k].turn
                                 \/ calls[k].does = "check" /\ i = calls[k].turn /\ k < n
      BY <2>1 DEF Passed
    <3>3. CASE k # n
      BY <3>2, <3>3, <1>2 DEF Passed
    <3>4. CASE k = n
      <4>1. i < t.turn /\ t.does = "free" /\ c.turn = t.turn + 1 /\ c.does = "free"
        BY <3>2, <3>4, <1>1
      <4>2. i < c.turn
        BY <4>1, <1>3
      <4> QED
        BY <4>1, <4>2, <3>2, <3>4, <1>0, <1>1, <1>2 DEF Passed
    <3> QED
      BY <3>3, <3>4
  <2>2. \A a \in Live : \A i \in DOMAIN parts[a] : i \in Nat
    BY DEF TreeInv, Types, Live
  <2> QED
    BY <2>1, <2>2, <1>0, <1>1 DEF TreeInv, Whole
<1>10. calls' # <<>> /\ calls'[1].id = program.head
  BY <1>0, <1>2 DEF TreeInv, Walks
<1> QED
  BY <1>0, <1>2, <1>4, <1>5, <1>6, <1>7, <1>8, <1>9, <1>10 DEF TreeInv, Walks

(* From its m-th call on a step touches what the calls are about.          *)
Touches(m) ==
  /\ program' = program
  /\ DOMAIN parts \subseteq DOMAIN parts' /\ freed \subseteq freed'
  /\ \A y \in DOMAIN parts : parts'[y] # parts[y] \/ (y \in freed' /\ y \notin freed) =>
       \E j \in m .. Len(calls) : y = calls[j].id
  /\ \A y \in DOMAIN parts' \ DOMAIN parts :
       y \notin freed' /\ \E j \in m .. Len(calls) : calls[j].id \in N /\ y = -calls[j].id

\* What the m-th call, and those before it, have still to look at stays as it is.
LEMMA FreshAhead ==
  ASSUME TreeInv, NEW m \in 1 .. Len(calls), Touches(m), NEW k \in 1 .. m,
         calls[k].does = "check", Kind(calls[k].id) \in Compound,
         NEW i \in DOMAIN P[calls[k].id], i > calls[k].turn, P[calls[k].id][i] # 0,
         NEW z, z = P[calls[k].id][i], Fresh(z)
  PROVE  Fresh(z)'
<1>0. program' = program /\ program \in Programs /\ k \in 1 .. Len(calls) /\ calls[k].id \in N
  <2>1. k \in 1 .. Len(calls)
    BY CallsAreNumbered
  <2>2. calls[k].id \in DOMAIN parts
    BY <2>1, CallsAreNumbered DEF Live
  <2> QED
    BY <2>1, <2>2, CallsAreNumbered, CompoundsAreOld DEF Touches, TreeInv
<1>2. z \in N /\ Under(z) \subseteq N
  BY <1>0, ProgramIsTree
<1>3. ASSUME NEW j \in m .. Len(calls)
      PROVE  Origin(calls[j].id) \notin Under(z)
  <2>1. j \in k .. Len(calls)
    BY CallsAreNumbered
  <2> QED
    BY <2>1, <1>0, AheadIsApart
<1>4. ASSUME NEW y \in Under(z)
      PROVE  /\ y \in freed' => y \in freed
             /\ parts'[y] = parts[y]
             /\ -y \in DOMAIN parts' => -y \in DOMAIN parts
  <2>1. y \in N /\ y \in DOMAIN parts /\ y \in Int /\ Origin(y) = y
    BY <1>0, <1>2, Origins, ProgramIsTree DEF TreeInv, Types
  <2>2. \A j \in m .. Len(calls) : y # calls[j].id
    BY <2>1, <1>3
  <2>3. \A j \in m .. Len(calls) : calls[j].id \in N => -y # -calls[j].id
    <3> SUFFICES ASSUME NEW j \in m .. Len(calls), calls[j].id \in N, -y = -calls[j].id PROVE FALSE
      OBVIOUS
    <3>1. calls[j].id \in Int
      BY <1>0, ProgramIsTree
    <3> QED
      BY <3>1, <2>1, <2>2
  <2> QED
    BY <2>1, <2>2, <2>3 DEF Touches
<1> QED
  BY <1>0, <1>4, FreshStays

LEMMA CallsBeforeStay ==
  ASSUME TreeInv, NEW m \in 1 .. Len(calls), Touches(m), m <= Len(calls'),
         \A k \in 1 .. m - 1 : calls'[k] = calls[k]
  PROVE  \A k \in 1 .. m - 1 :
           /\ Running(k)' /\ Ahead(k)' /\ Behind(k)'
           /\ parts'[calls[k].id] = parts[calls[k].id] /\ calls[k].id \in Live'
<1> SUFFICES ASSUME NEW k \in 1 .. m - 1
             PROVE  /\ Running(k)' /\ Ahead(k)' /\ Behind(k)'
                    /\ parts'[calls[k].id] = parts[calls[k].id] /\ calls[k].id \in Live'
  OBVIOUS
<1>0. /\ program' = program /\ k \in 1 .. Len(calls) /\ k \in Nat /\ k < m /\ k \in 1 .. m
      /\ k # Len(calls') /\ k # Len(calls) /\ calls'[k] = calls[k]
      /\ Running(k) /\ Ahead(k) /\ Behind(k)
      /\ calls[k].id \in Live /\ calls[k].turn \in Nat /\ calls[k].id \in DOMAIN parts
      /\ parts[calls[k].id] \in Seq(Int)
  <2>1. Len(calls) \in Nat
    BY CallsAreNumbered
  <2>2. k \in 1 .. Len(calls) /\ k \in Nat /\ k < m /\ k # Len(calls) /\ k \in 1 .. m
    BY <2>1
  <2>3. k # Len(calls')
    <3> SUFFICES ASSUME k = Len(calls') PROVE FALSE
      OBVIOUS
    <3>1. m <= k
      OBVIOUS
    <3> QED
      BY <3>1, <2>2
  <2> QED
    BY <2>2, <2>3, CallsAreNumbered DEF Touches, TreeInv, Walks, Live
<1>1. \A j \in m .. Len(calls) : calls[k].id # calls[j].id
  BY <1>0, CallsAreNumbered DEF TreeInv, Walks, Nested
<1>2. parts'[calls[k].id] = parts[calls[k].id] /\ calls[k].id \in Live'
  BY <1>0, <1>1 DEF Touches, Live
<1>3. Running(k)'
  BY <1>0, <1>2, RunningStays DEF Touches
<1>4. Behind(k)'
  <2>1. \A i \in DOMAIN parts[calls[k].id] :
          parts[calls[k].id][i] \in Live' => parts[calls[k].id][i] \in Live
    <3> SUFFICES ASSUME NEW i \in DOMAIN parts[calls[k].id], parts[calls[k].id][i] \in Live'
                 PROVE  parts[calls[k].id][i] \in Live
      OBVIOUS
    <3>1. parts[calls[k].id][i] # 0 => parts[calls[k].id][i] \in DOMAIN parts
      BY <1>0, PartsAreAllocated DEF TreeInv
    <3>2. parts[calls[k].id][i] # 0
      <4> SUFFICES ASSUME 0 \in DOMAIN parts' PROVE FALSE
        BY DEF Live
      <4>1. 0 \notin DOMAIN parts
        BY PartsAreAllocated DEF TreeInv
      <4>2. PICK x \in N : 0 = -x
        BY <4>1 DEF Touches
      <4> QED
        BY <4>2, CallsAreNumbered, Origins, ProgramIsTree
    <3> QED
      BY <3>1, <3>2 DEF Live, Touches
  <2>2. \A i \in 1 .. calls[k].turn - 1 : i \in DOMAIN parts[calls[k].id]
    <3>1. calls[k].turn <= Len(parts[calls[k].id]) + 1
      BY <1>0 DEF Running
    <3> QED
      BY <3>1, <1>0
  <2> QED
    BY <2>1, <2>2, <1>0, <1>2, BehindStays
<1>5. Ahead(k)'
  <2>1. CASE calls[k].does = "check" /\ Kind(calls[k].id) \in Compound
    <3> DEFINE x == calls[k].id
    <3>1. ASSUME NEW i \in DOMAIN P[x], i > calls'[k].turn \/ (i = calls'[k].turn /\ k = Len(calls'))
          PROVE  /\ i > calls[k].turn \/ (i = calls[k].turn /\ k = Len(calls))
                 /\ parts'[x][i] = parts[x][i]
                 /\ P[x][i] # NULL /\ Fresh(P[x][i]) => Fresh(P[x][i])'
      <4>1. i > calls[k].turn
        BY <3>1, <1>0
      <4>2. PICK z : z = P[x][i]
        OBVIOUS
      <4>3. z # 0 /\ Fresh(z) => Fresh(z)'
        BY <4>1, <4>2, <2>1, <1>0, FreshAhead
      <4>4. Fresh(P[x][i])' <=> Fresh(z)'
        <5>1. (P[x][i])' = z
          BY <1>0, <4>2, SameProgram
        <5> QED
          BY <5>1, <1>0, SameProgram DEF Fresh
      <4>5. P[x][i] # NULL /\ Fresh(P[x][i]) => Fresh(P[x][i])'
        <5>1. Fresh(P[x][i]) <=> Fresh(z)
          BY <4>2 DEF Fresh
        <5> QED
          BY <4>2, <4>3, <4>4, <5>1 DEF NULL
      <4>6. parts'[x][i] = parts[x][i]
        BY <1>2
      <4> QED
        BY <4>1, <4>5, <4>6
    <3> QED
      BY <3>1, <1>0, AheadStays
  <2>2. CASE ~(calls[k].does = "check" /\ Kind(calls[k].id) \in Compound)
    BY <2>2, <1>0, SameProgram DEF Ahead
  <2> QED
    BY <2>1, <2>2
<1> QED
  BY <1>2, <1>3, <1>4, <1>5

(* A constructor's call is allocated for a variable.                       *)
LEMMA ConstructionPreservesTree ==
  ASSUME TreeInv, program' = program, ConstructVariable
  PROVE  TreeInv'
<1> PICK n : n = Len(calls)
  OBVIOUS
<1> PICK t : t = calls[n]
  OBVIOUS
<1> PICK v : v = t.id
  OBVIOUS
<1>0. /\ program \in Programs /\ n \in Nat /\ n > 0 /\ Top = t /\ n \in 1 .. n
      /\ N' = N /\ P' = P /\ \A x : Under(x)' = Under(x) /\ Node(x)' = Node(x) /\ Kind(x)' = Kind(x)
  <2>1. calls # <<>>
    BY DEF ConstructVariable, Runs
  <2>2. N' = N /\ P' = P /\ \A x : Under(x)' = Under(x) /\ Node(x)' = Node(x) /\ Kind(x)' = Kind(x)
    BY SameProgram
  <2> QED
    BY <2>1, <2>2, CallsAreNumbered
<1>1. /\ calls' = calls /\ freed' = freed /\ t.does = "check" /\ Kind(v) = "VAR" /\ Node(v).type = "struct"
      /\ parts[v] = << 0 >> /\ parts' = [Allocated(-v, <<>>) EXCEPT ![v] = <<-v>>]
  BY <1>0 DEF ConstructVariable, Runs, This, Parts, NULL, Kind
<1>2. v \in Live /\ v \in DOMAIN parts /\ t.turn = 1 /\ Running(n)
  <2>1. Running(n)
    BY <1>0 DEF TreeInv, Walks
  <2> QED
    BY <2>1, <1>0, <1>1, CallsAreNumbered DEF Live, Running, Compound
<1>3. v \in N /\ v \in Nat /\ v > 0 /\ Origin(v) = v
  <2>1. SUFFICES ASSUME v \notin N PROVE FALSE
    BY <1>0, ProgramIsTree, Origins
  <2>2. NewNode(v)
    BY <2>1, <1>2 DEF TreeInv, Pointers
  <2>3. PICK x \in N : x = -v
    BY <2>2 DEF NewNode
  <2>4. v = -x
    <3>1. v \in Int
      BY <1>2 DEF TreeInv, Types
    <3> QED
      BY <3>1, <2>3
  <2>5. Kind(v) = "VAR" => Node(v).type = "inferred"
    BY <2>4, <1>0, NewNodes
  <2> QED
    BY <2>5, <1>1
<1>4. P[v] = << 0 >> /\ -v \notin DOMAIN parts /\ -v # v /\ -v # 0 /\ -v \notin N
  <2>1. NodeStands(v)
    BY <1>3 DEF TreeInv, Pointers
  <2>2. P[v] = << 0 >>
    BY <2>1, <1>1, <1>3 DEF NodeStands, Compound
  <2>3. -v \notin N
    BY <1>0, <1>3, NewNodes
  <2>4. -v \in DOMAIN parts => NewNode(-v)
    BY <2>3 DEF TreeInv, Pointers
  <2>5. -(-v) = v /\ -v # 0 /\ -v # v
    BY <1>3
  <2>6. ~NewNode(-v)
    BY <2>5, <1>1 DEF NewNode
  <2> QED
    BY <2>2, <2>3, <2>4, <2>5, <2>6
<1>5. /\ DOMAIN parts' = DOMAIN parts \union {-v} /\ parts'[v] = <<-v>> /\ parts'[-v] = <<>>
      /\ \A x \in DOMAIN parts : x # v => parts'[x] = parts[x]
      /\ Live' = Live \union {-v} /\ -v \notin freed
  BY <1>1, <1>2, <1>4 DEF Allocated, Live, TreeInv, Types
<1>6. Types'
  <2>1. -v \in Int /\ <<-v>> \in Seq(Int) /\ <<>> \in Seq(Int)
    BY <1>3
  <2>2. \A x \in DOMAIN parts' : parts'[x] \in Seq(Int)
    BY <2>1, <1>5 DEF TreeInv, Types
  <2>3. calls' \in Seq(Calls) /\ program' \in Programs
    BY <1>0, <1>1 DEF TreeInv, Types
  <2>4. N' \subseteq DOMAIN parts' /\ DOMAIN parts' \subseteq Int /\ freed' \subseteq DOMAIN parts'
    BY <2>1, <1>0, <1>1, <1>5 DEF TreeInv, Types
  <2> QED
    BY <2>2, <2>3, <2>4 DEF Types
<1>7. Pointers'
  <2>1. \A y, p : Stands(y, p) => Stands(y, p)'
    BY <1>0, <1>5 DEF Stands
  <2>2. ASSUME NEW x \in N, x # v
        PROVE  NodeStands(x)'
    <3>1. NodeStands(x) /\ parts'[x] = parts[x]
      BY <2>2, <1>5 DEF TreeInv, Types, Pointers
    <3>2. \A i : PartStands(x, i) => PartStands(x, i)'
      BY <2>1, <3>1, <1>0 DEF PartStands
    <3> QED
      BY <3>1, <3>2, <1>0, <1>5 DEF NodeStands
  <2>3. NodeStands(v)'
    BY <1>0, <1>1, <1>4, <1>5 DEF NodeStands, NULL
  <2>4. ASSUME NEW x \in DOMAIN parts' \ N, x # -v
        PROVE  NewNode(x)'
    <3>1. NewNode(x) /\ x \in DOMAIN parts /\ x # v /\ parts'[x] = parts[x]
      BY <2>4, <1>3, <1>5 DEF TreeInv, Pointers
    <3>2. -x \in N /\ x \in Int
      BY <3>1 DEF NewNode, TreeInv, Types
    <3>3. -x # v
      BY <3>2, <2>4
    <3>4. parts'[-x] = parts[-x]
      BY <3>2, <3>3, <1>5 DEF TreeInv, Types
    <3> QED
      BY <3>1, <3>4, <1>0, <1>1 DEF NewNode
  <2>5. NewNode(-v)'
    <3>1. -(-v) = v
      BY <1>3
    <3> QED
      BY <3>1, <1>0, <1>1, <1>3, <1>5 DEF NewNode
  <2> QED
    BY <2>2, <2>3, <2>4, <2>5, <1>0 DEF Pointers
<1>8. Touches(n)
  <2>1. n \in n .. Len(calls) /\ calls[n].id = v
    BY <1>0
  <2> QED
    BY <2>1, <1>1, <1>3, <1>5 DEF Touches
<1>9. \A k \in 1 .. n - 1 : /\ Running(k)' /\ Ahead(k)' /\ Behind(k)'
                            /\ parts'[calls[k].id] = parts[calls[k].id] /\ calls[k].id \in Live'
  BY <1>0, <1>1, <1>8, CallsBeforeStay
<1>10. Running(n)' /\ Ahead(n)' /\ Behind(n)'
  <2>1. Running(n)'
    <3>1. 1 <= Len(<<-v>>) + 1
      OBVIOUS
    <3>2. calls'[n] = t /\ parts'[t.id] = <<-v>> /\ t.id \in Live' /\ Kind(t.id)' = "VAR" /\ program' = program
      BY <1>0, <1>1, <1>2, <1>5
    <3>3. program.parsed = "ok" /\ (t.id \in N' => t.ok)
      BY <1>0, <1>1, <1>2 DEF Running, Compound
    <3> QED
      BY <3>1, <3>2, <3>3, <1>1, <1>2 DEF Running
  <2>2. Kind(v) \notin Compound
    BY <1>1 DEF Compound
  <2> QED
    BY <2>1, <2>2, <1>0, <1>1 DEF Ahead, Behind
<1>11. \A k \in 1 .. n - 1 : Called(k)'
  <2> SUFFICES ASSUME NEW k \in 1 .. n - 1 PROVE Called(k)'
    OBVIOUS
  <2>1. Called(k) /\ k \in Nat
    BY DEF TreeInv, Walks
  <2> QED
    BY <2>1, <1>1, <1>9, CalledStays
<1>12. Nested'
  <2>1. \A j, k \in 1 .. n :
          k < j => /\ calls[j].id # calls[k].id
                   /\ Origin(calls[j].id) \in Under(Origin(parts'[calls[k].id][calls[k].turn]))
    <3> SUFFICES ASSUME NEW j \in 1 .. n, NEW k \in 1 .. n, k < j
                 PROVE  /\ calls[j].id # calls[k].id
                        /\ Origin(calls[j].id) \in Under(Origin(parts'[calls[k].id][calls[k].turn]))
      OBVIOUS
    <3>1. k \in 1 .. n - 1
      BY <1>0
    <3> QED
      BY <3>1, <1>9 DEF TreeInv, Walks, Nested
  <2> QED
    BY <2>1, <1>0, <1>1 DEF Nested
<1>13. Whole'
  <2>1. \A a, i : Passed(a, i)' <=> Passed(a, i)
    BY <1>1 DEF Passed
  <2>2. ASSUME NEW a \in Live', NEW i \in DOMAIN parts'[a]
        PROVE  \/ parts'[a][i] \in Live' \/ parts'[a][i] = NULL
               \/ Kind(a) = "IF" /\ i = 2
               \/ Passed(a, i)
    <3>1. CASE a = -v
      BY <3>1, <2>2, <1>5
    <3>2. CASE a = v
      <4>1. i = 1
        BY <3>2, <2>2, <1>5
      <4> QED
        BY <4>1, <3>2, <1>5
    <3>3. CASE a # v /\ a # -v
      <4>1. a \in Live /\ parts'[a] = parts[a]
        BY <3>3, <1>5 DEF Live
      <4> QED
        BY <4>1, <2>2, <1>5 DEF TreeInv, Whole
    <3> QED
      BY <3>1, <3>2, <3>3
  <2> QED
    BY <2>1, <2>2, <1>0 DEF Whole, NULL
<1>14. \A k \in 1 .. n : Running(k)' /\ Ahead(k)' /\ Behind(k)'
  <2> SUFFICES ASSUME NEW k \in 1 .. n PROVE Running(k)' /\ Ahead(k)' /\ Behind(k)'
    OBVIOUS
  <2>1. k = n \/ k \in 1 .. n - 1
    BY <1>0
  <2> QED
    BY <2>1, <1>9, <1>10
<1>15. Walks'
  <2>1. calls # <<>> => calls[1].id = program.head
    BY DEF TreeInv, Walks
  <2> QED
    BY <2>1, <1>1, <1>11, <1>12, <1>14, program' = program DEF Walks
<1> QED
  BY <1>6, <1>7, <1>13, <1>15 DEF TreeInv

LEMMA ReplaceFacts ==
  ASSUME NEW s \in Seq(Calls), s # <<>>, NEW c \in Calls, NEW r, r = [s EXCEPT ![Len(s)] = c]
  PROVE  /\ r \in Seq(Calls) /\ Len(r) = Len(s) /\ r[Len(s)] = c
         /\ \A k \in 1 .. Len(s) - 1 : r[k] = s[k]
OBVIOUS

(* An assignment is freed and a variable is allocated for it.              *)
LEMMA DeclarationPreservesTree ==
  ASSUME TreeInv, program' = program, Declare
  PROVE  TreeInv'
<1> PICK n : n = Len(calls)
  OBVIOUS
<1> PICK t : t = calls[n]
  OBVIOUS
<1> PICK a : a = t.id
  OBVIOUS
<1> PICK c : c = Call("check", -a, Right({a}))
  OBVIOUS
<1>0. /\ program \in Programs /\ n \in Nat /\ n > 0 /\ Top = t /\ n \in 1 .. n
      /\ N' = N /\ P' = P /\ \A x : Under(x)' = Under(x) /\ Node(x)' = Node(x) /\ Kind(x)' = Kind(x)
  <2>1. calls # <<>>
    BY DEF Declare, Runs
  <2>2. N' = N /\ P' = P /\ \A x : Under(x)' = Under(x) /\ Node(x)' = Node(x) /\ Kind(x)' = Kind(x)
    BY SameProgram
  <2> QED
    BY <2>1, <2>2, CallsAreNumbered
<1>1. /\ calls' = [calls EXCEPT ![n] = c] /\ freed' = freed \union {a}
      /\ t.does = "declare" /\ t.turn = 2 /\ Kind(a) = "ASSIGNMENT"
      /\ parts' = Allocated(-a, <<parts[a][2]>>)
  BY <1>0 DEF Declare, FreedWithAssignment, Continue, Runs, This, Part, Parts, Kind
<1>2. a \in Live /\ a \in DOMAIN parts /\ a \in N /\ program.parsed = "ok" /\ Node(a).declares
  <2>1. Running(n)
    BY <1>0 DEF TreeInv, Walks
  <2> QED
    BY <2>1, <1>0, <1>1, CallsAreNumbered DEF Live, Running
<1>3. a \in Nat /\ a > 0 /\ Origin(a) = a /\ Origin(-a) = a /\ -(-a) = a /\ -a # 0 /\ -a # a /\ -a \notin N
  <2>1. a \in Nat /\ a > 0
    BY <1>0, <1>2, ProgramIsTree
  <2>2. Origin(a) = a /\ Origin(-a) = a /\ -a \notin N
    BY <1>0, <1>2, Origins, NewNodes
  <2> QED
    BY <2>1, <2>2
<1> PICK y : y = P[a][2]
  OBVIOUS
<1>4. parts[a] = P[a] /\ Len(P[a]) = 2 /\ 2 \in DOMAIN P[a] /\ y \in N /\ y # 0 /\ a \notin Under(y) /\ y # a
  <2>1. NodeStands(a)
    BY <1>2 DEF TreeInv, Pointers
  <2>2. parts[a] = P[a]
    BY <2>1, <1>1 DEF NodeStands, Compound
  <2>3. P[a] \in Seq(N \union {0}) /\ Len(P[a]) = 2
    BY <1>0, <1>1, <1>2, StatementFacts, ProgramIsTree
  <2>4. 2 \in DOMAIN P[a]
    BY <2>3
  <2>5. y # 0
    BY <2>4, <1>0, <1>1, <1>2, StatementFacts
  <2>6. y \in N /\ a \notin Under(y)
    BY <2>4, <2>5, <1>0, <1>2, ProgramIsTree
  <2>7. y \in Under(y)
    BY <2>6, <1>0, ProgramIsTree
  <2> QED
    BY <2>2, <2>3, <2>4, <2>5, <2>6, <2>7
<1>5. -a \notin DOMAIN parts
  <2>1. SUFFICES ASSUME -a \in DOMAIN parts PROVE FALSE
    OBVIOUS
  <2>2. NewNode(-a)
    BY <2>1, <1>3 DEF TreeInv, Pointers
  <2> QED
    BY <2>2, <1>1, <1>2, <1>3 DEF NewNode, Live
<1>6. /\ DOMAIN parts' = DOMAIN parts \union {-a} /\ parts'[-a] = <<y>>
      /\ \A x \in DOMAIN parts : parts'[x] = parts[x]
      /\ Live' = (Live \ {a}) \union {-a} /\ -a \notin freed
  BY <1>1, <1>2, <1>3, <1>4, <1>5 DEF Allocated, Live, TreeInv, Types
<1>7. /\ Len(calls') = n /\ calls' \in Seq(Calls)
      /\ \A k \in 1 .. n - 1 : calls'[k] = calls[k]
      /\ calls'[n] = c /\ c.does = "check" /\ c.id = -a /\ c.turn = 1
  <2>1. c \in Calls /\ c.does = "check" /\ c.id = -a /\ c.turn = 1
    <3>1. Right({a}) \in BOOLEAN
      BY DEF Right
    <3> QED
      BY <3>1, <1>3 DEF Call, Calls
  <2>2. calls \in Seq(Calls) /\ calls' = [calls EXCEPT ![n] = c]
    BY <1>1 DEF TreeInv, Types
  <2>3. PICK r : r = [calls EXCEPT ![Len(calls)] = c]
    OBVIOUS
  <2>4. r \in Seq(Calls) /\ Len(r) = n /\ r[n] = c /\ \A k \in 1 .. n - 1 : r[k] = calls[k]
    <3>1. calls # <<>> /\ n = Len(calls)
      BY <1>0
    <3> QED
      BY ONLY <3>1, <2>1, <2>2, <2>3, ReplaceFacts
  <2> QED
    BY <2>1, <2>2, <2>3, <2>4
<1>8. Types'
  <2>1. -a \in Int /\ <<y>> \in Seq(Int)
    BY <1>0, <1>3, <1>4, ProgramIsTree
  <2>2. \A x \in DOMAIN parts' : parts'[x] \in Seq(Int)
    BY <2>1, <1>6 DEF TreeInv, Types
  <2>3. calls' \in Seq(Calls) /\ program' \in Programs
    BY <1>0, <1>7
  <2>4. N' \subseteq DOMAIN parts' /\ DOMAIN parts' \subseteq Int /\ freed' \subseteq DOMAIN parts'
    BY <2>1, <1>0, <1>1, <1>2, <1>6 DEF TreeInv, Types
  <2> QED
    BY <2>2, <2>3, <2>4 DEF Types
<1>9. Pointers'
  <2>1. \A z, p : Stands(z, p) => Stands(z, p)'
    BY <1>0, <1>6 DEF Stands
  <2>2. ASSUME NEW x \in N
        PROVE  NodeStands(x)'
    <3>1. NodeStands(x) /\ parts'[x] = parts[x]
      BY <2>2, <1>6 DEF TreeInv, Types, Pointers
    <3>2. \A i : PartStands(x, i) => PartStands(x, i)'
      BY <2>1, <3>1, <1>0 DEF PartStands
    <3> QED
      BY <3>1, <3>2, <1>0, <1>6 DEF NodeStands
  <2>3. ASSUME NEW x \in DOMAIN parts' \ N, x # -a
        PROVE  NewNode(x)'
    <3>1. NewNode(x) /\ x \in DOMAIN parts /\ parts'[x] = parts[x]
      BY <2>3, <1>6 DEF TreeInv, Pointers
    <3>2. parts'[-x] = parts[-x]
      <4>1. -x \in DOMAIN parts
        BY <3>1 DEF NewNode, TreeInv, Types
      <4> QED
        BY <4>1, <1>6
    <3> QED
      BY <3>1, <3>2, <1>0, <1>1 DEF NewNode
  <2>4. NewNode(-a)'
    BY <1>0, <1>1, <1>2, <1>3, <1>4, <1>6 DEF NewNode, NULL
  <2> QED
    BY <2>2, <2>3, <2>4, <1>0 DEF Pointers
<1>10. Touches(n)
  <2>1. n \in n .. Len(calls) /\ calls[n].id = a
    BY <1>0
  <2> QED
    <3>1. DOMAIN parts \subseteq DOMAIN parts' /\ freed \subseteq freed' /\ program' = program
      BY <1>1, <1>6
    <3>2. \A z \in DOMAIN parts : parts'[z] # parts[z] \/ (z \in freed' /\ z \notin freed) => z = a
      BY <1>1, <1>6
    <3>3. \A z \in DOMAIN parts' \ DOMAIN parts : z = -a /\ z \notin freed'
      BY <1>1, <1>3, <1>6
    <3> QED
      BY <2>1, <1>2, <3>1, <3>2, <3>3 DEF Touches
<1>11. \A k \in 1 .. n - 1 : /\ Running(k)' /\ Ahead(k)' /\ Behind(k)'
                             /\ parts'[calls[k].id] = parts[calls[k].id] /\ calls[k].id \in Live'
  BY <1>0, <1>7, <1>10, CallsBeforeStay
<1>12. Running(n)' /\ Ahead(n)' /\ Behind(n)'
  <2>1. Kind(-a) \notin Compound /\ Kind(-a) = "VAR"
    BY <1>0, <1>1, <1>2, NewNodes
  <2>2. 1 <= Len(<<y>>) + 1
    OBVIOUS
  <2>3. Running(n)'
    BY <2>1, <2>2, <1>0, <1>2, <1>3, <1>6, <1>7 DEF Running
  <2> QED
    BY <2>1, <2>3, <1>0, <1>7 DEF Ahead, Behind
<1>13. ASSUME NEW k \in 1 .. n - 1 PROVE Called(k)'
  <2>1. Called(k) /\ k \in Nat /\ k \in 1 .. n
    BY <1>0 DEF TreeInv, Walks
  <2>2. CASE k # n - 1
    <3>1. calls'[k + 1] = calls[k + 1]
      BY <2>2, <1>0, <1>7
    <3> QED
      BY <2>1, <3>1, <1>7, <1>11, CalledStays
  <2>3. CASE k = n - 1
    <3>1. k + 1 = n /\ calls[k + 1] = t
      BY <2>3, <1>0
    <3>2. calls[k].does = "check"
      BY <2>1, <3>1, <1>1 DEF Called
    <3>3. parts[calls[k].id][calls[k].turn] = a
      BY <3>1, <3>2, <1>2, AnalysesGoDown
    <3>4. Analysed(calls[k].id)' = Analysed(calls[k].id)
      BY <1>0, <1>7, <1>11 DEF Analysed, Kind
    <3>5. /\ calls'[k] = calls[k] /\ calls'[k + 1] = c /\ parts'[calls[k].id] = parts[calls[k].id]
          /\ c.id = -a /\ c.does = "check"
      BY <3>1, <1>7, <1>11
    <3>6. /\ calls[k].id \in N /\ Kind(calls[k].id) \in Compound
          /\ calls[k].turn <= Analysed(calls[k].id) /\ calls[k].turn <= Len(parts[calls[k].id])
          /\ a # NULL /\ a = P[calls[k].id][calls[k].turn]
      BY <2>1, <3>2, <3>3 DEF Called
    <3>7. /\ (calls[k].id \in N /\ Kind(calls[k].id) \in Compound)'
          /\ calls[k].turn <= Analysed(calls[k].id)'
          /\ a = (P[calls[k].id][calls[k].turn])' /\ Kind(a)' = "ASSIGNMENT"
      <4>1. calls'[k] = calls[k] /\ N' = N /\ P' = P
        BY <3>5, <1>0
      <4>2. /\ Kind(calls[k].id)' = Kind(calls[k].id)
            /\ Kind(a)' = "ASSIGNMENT"
        BY <4>1, <1>0, <1>1
      <4> QED
        BY <4>1, <4>2, <3>4, <3>6
    <3>8. /\ calls'[k] = calls[k] /\ calls'[k + 1].does = "check" /\ calls'[k + 1].id = -a
          /\ calls[k].turn <= Len(parts'[calls[k].id]) /\ parts'[calls[k].id][calls[k].turn] = a
      BY <3>3, <3>5, <3>6
    <3>9. a # NULL /\ calls[k].does = "check"
      BY <3>2, <3>6
    <3> QED
      BY ONLY <3>7, <3>8, <3>9, CalledFrom
  <2> QED
    BY <2>2, <2>3
<1>14. Nested'
  <2>1. \A j, k \in 1 .. n :
          k < j => /\ calls'[j].id # calls'[k].id
                   /\ Origin(calls'[j].id) \in Under(Origin(parts'[calls'[k].id][calls'[k].turn]))
    <3> SUFFICES ASSUME NEW j \in 1 .. n, NEW k \in 1 .. n, k < j
                 PROVE  /\ calls'[j].id # calls'[k].id
                        /\ Origin(calls'[j].id) \in Under(Origin(parts'[calls'[k].id][calls'[k].turn]))
      OBVIOUS
    <3>1. k \in 1 .. n - 1 /\ calls'[k] = calls[k]
      BY <1>0, <1>7
    <3>2. /\ calls[j].id # calls[k].id
          /\ Origin(calls[j].id) \in Under(Origin(parts[calls[k].id][calls[k].turn]))
      BY DEF TreeInv, Walks, Nested
    <3>3. CASE j = n
      <4>1. calls[k].id \in DOMAIN parts
        BY CallsAreNumbered DEF Live
      <4> QED
        BY <3>1, <3>2, <3>3, <4>1, <1>3, <1>5, <1>7, <1>11
    <3>4. CASE j # n
      <4>1. calls'[j] = calls[j]
        BY <3>4, <1>0, <1>7
      <4> QED
        BY <3>1, <3>2, <4>1, <1>11
    <3> QED
      BY <3>3, <3>4
  <2> QED
    BY <2>1, <1>0, <1>7 DEF Nested
<1>15. Whole'
  <2>1. ASSUME NEW b \in Live, b # a, NEW i \in Nat, Passed(b, i)
        PROVE  Passed(b, i)'
    <3>1. PICK k \in 1 .. n : /\ calls[k].id = b
                              /\ \/ calls[k].does # "check" /\ i < calls[k].turn
                                 \/ calls[k].does = "check" /\ i = calls[k].turn /\ k < n
      BY <2>1 DEF Passed
    <3>2. calls'[k] = calls[k]
      BY <3>1, <2>1, <1>0, <1>7
    <3> QED
      BY <3>1, <3>2, <1>7 DEF Passed
  <2>2. y \in Live'
    <3>1. \A k \in 1 .. n : calls[k].id = a => k = n
      BY <1>0 DEF TreeInv, Walks, Nested
    <3>2. ~Passed(a, 2)
      BY <3>1, <1>1 DEF Passed
    <3>3. y \in Live
      BY <3>2, <1>1, <1>2, <1>4 DEF TreeInv, Whole, NULL
    <3> QED
      BY <3>3, <1>4, <1>6
  <2>3. ASSUME NEW b \in Live, b # a, NEW i \in DOMAIN parts[b], parts[b][i] = a
        PROVE  Passed(b, i)' \/ (Kind(b) = "IF" /\ i = 2)
    <3>1. n > 1
      <4>1. SUFFICES ASSUME n = 1 PROVE FALSE
        BY <1>0
      <4>2. a = program.head
        <5>1. calls # <<>>
          BY <1>0
        <5> QED
          BY <5>1, <4>1, <1>0 DEF TreeInv, Walks
      <4>3. program.node[program.head].k = "BLOCK"
        BY <1>0, <1>2, ProgramsAssumption DEF IsProgram
      <4>4. Kind(a) = "BLOCK"
        BY <4>2, <4>3, <1>0, ProgramIsTree DEF Kind
      <4> QED
        BY <4>4, <1>1
    <3>2. PICK k \in 1 .. n - 1 : k + 1 = n /\ k \in 1 .. n
      <4>1. n \in Nat
        BY <1>0
      <4>2. n - 1 \in 1 .. n - 1 /\ n - 1 + 1 = n /\ n - 1 \in 1 .. n
        BY <4>1, <3>1
      <4> QED
        BY <4>2
    <3> PICK x : x = calls[k].id
      OBVIOUS
    <3> PICK m : m = calls[k].turn
      OBVIOUS
    <3>3. calls[k].does = "check"
      <4>1. \A j \in 1 .. Len(calls) - 1 : Called(j)
        BY DEF TreeInv, Walks
      <4>2. Called(k)
        BY <4>1, <3>2
      <4> QED
        BY <4>2, <3>2, <1>1 DEF Called
    <3>4. x \in N /\ m \in DOMAIN P[x] /\ m \in DOMAIN parts[x] /\ P[x][m] = a /\ parts[x][m] = a /\ x \in Live
      <4>1. k \in 1 .. Len(calls) - 1 /\ k \in 1 .. Len(calls) /\ calls[k + 1].id = a
        BY <3>2, <1>0
      <4>2. /\ x \in N /\ m \in DOMAIN P[x] /\ m \in DOMAIN parts[x] /\ parts[x][m] = P[x][m]
            /\ a = P[x][m] \/ (a = -P[x][m] /\ -P[x][m] \notin N)
        BY <4>1, <3>3, AnalysesGoDown
      <4>3. x \in Live
        BY <4>1, CallsAreNumbered
      <4> QED
        BY <4>2, <4>3, <1>2
    <3>5. b = x /\ (i = m \/ (Kind(b) = "IF" /\ {i, m} = {1, 2}))
      <4>1. parts[b][i] = parts[x][m] /\ parts[b][i] # 0
        BY <2>3, <3>4, <1>3
      <4> QED
        <5>1. Types /\ Pointers /\ b \in Live /\ i \in DOMAIN parts[b] /\ x \in Live /\ m \in DOMAIN parts[x]
          BY <2>3, <3>4 DEF TreeInv
        <5> QED
          BY ONLY <4>1, <5>1, HeldOnce
    <3>6. CASE i = m
      <4>1. calls'[k] = calls[k] /\ k < n
        BY <3>2, <1>7
      <4> QED
        BY <3>2, <3>3, <3>5, <3>6, <4>1, <1>7 DEF Passed
    <3>7. CASE Kind(b) = "IF" /\ i = 1 /\ m = 2
      <4>1. Running(k)
        BY <3>2 DEF TreeInv, Walks
      <4>2. Stands(P[x][1], a)
        BY <4>1, <3>3, <3>5, <3>7, <2>3 DEF Running
      <4>3. a = P[x][1]
        <5>1. 1 \in DOMAIN P[x] /\ (P[x][1] # 0 => P[x][1] \in N)
          BY <3>4, <3>7, <3>5, <2>3, <1>0, PartsAreAsMany, ProgramIsTree DEF TreeInv
        <5> QED
          BY <4>2, <5>1, <1>0, <1>2, <1>3, NewNodes DEF Stands, NULL
      <4>4. 1 \in DOMAIN P[x] /\ 2 \in DOMAIN P[x]
        BY <3>4, <3>7, <3>5, <2>3, PartsAreAsMany DEF TreeInv
      <4> QED
        BY SMTT(30), <4>3, <4>4, <3>4, <3>7, <1>0, <1>3, PartsAreDistinct
    <3> QED
      BY <3>5, <3>6, <3>7
  <2>4. ASSUME NEW b \in Live', NEW i \in DOMAIN parts'[b]
        PROVE  \/ parts'[b][i] \in Live' \/ parts'[b][i] = NULL
               \/ Kind(b) = "IF" /\ i = 2
               \/ Passed(b, i)'
    <3>1. CASE b = -a
      <4>1. i = 1
        BY <3>1, <2>4, <1>6
      <4> QED
        BY <3>1, <4>1, <2>2, <1>6
    <3>2. CASE b # -a
      <4>1. b \in Live /\ b # a /\ parts'[b] = parts[b] /\ i \in DOMAIN parts[b] /\ i \in Nat
        BY <3>2, <2>4, <1>6 DEF Live, TreeInv, Types
      <4>2. \/ parts[b][i] \in Live \/ parts[b][i] = NULL
            \/ Kind(b) = "IF" /\ i = 2
            \/ Passed(b, i)
        BY <4>1 DEF TreeInv, Whole
      <4> QED
        BY <4>1, <4>2, <2>1, <2>3, <1>6
    <3> QED
      BY <3>1, <3>2
  <2> QED
    BY <2>4, <1>0 DEF Whole, NULL
<1>16. \A k \in 1 .. n : Running(k)' /\ Ahead(k)' /\ Behind(k)'
  <2> SUFFICES ASSUME NEW k \in 1 .. n PROVE Running(k)' /\ Ahead(k)' /\ Behind(k)'
    OBVIOUS
  <2>1. k = n \/ k \in 1 .. n - 1
    BY <1>0
  <2> QED
    BY <2>1, <1>11, <1>12
<1>17. calls'[1].id = program.head
  <2>1. calls[1].id = program.head
    <3>1. calls # <<>>
      BY <1>0
    <3> QED
      BY <3>1 DEF TreeInv, Walks
  <2>2. n # 1
    <3>1. SUFFICES ASSUME n = 1 PROVE FALSE
      OBVIOUS
    <3>2. Kind(a) = "BLOCK"
      <4>1. program.node[program.head].k = "BLOCK"
        BY <1>0, <1>2, ProgramsAssumption DEF IsProgram
      <4> QED
        BY <4>1, <2>1, <3>1, <1>0, ProgramIsTree DEF Kind
    <3> QED
      BY <3>2, <1>1
  <2> QED
    BY <2>1, <2>2, <1>0, <1>7
<1>18. Walks'
  BY <1>7, <1>13, <1>14, <1>16, <1>17, program' = program DEF Walks
<1> QED
  BY <1>8, <1>9, <1>15, <1>18 DEF TreeInv

(* An analysis that returns nothing and frees nothing: TYPE_CHECK, and a   *)
(* function of which all is analysed.                                      *)
Forgets(t) ==
  \/ t.id \in Untyped
  \/ t.id \in Unreturning /\ t.ok /\ t.turn > Node(t.id).stmts

(* The innermost call returns s to its caller.                             *)
HandsBack(s) ==
  /\ Len(calls) > 1 /\ Return(s)
  /\ \/ s = Top.id /\ freed' = freed /\ Top.does = "check" /\ Top.ok /\ Clean(Origin(Top.id))
     \/ s = NULL /\ freed' = freed \union {Top.id} /\ Top.does = "free" /\ Top.turn > Len(Parts)
     \/ s = NULL /\ freed' = freed /\ Top.does = "check" /\ Forgets(Top)

\* The caller remembers whether it has got something.
StaysOk(m, c, s) == calls'[m].ok = (c.ok /\ s # NULL)

(* What it leaves of calls and of the tree, when n is the number of calls, *)
(* t the innermost, c its caller and sl the place s is stored in.          *)
HandedOver(n, m, t, c, sl, s) ==
  /\ m \in Nat \ {0} /\ n \in Nat /\ m + 1 = n /\ m \in 1 .. n /\ n \in 1 .. n
  /\ calls' \in Seq(Calls) /\ Len(calls') = m
  /\ \A k \in 1 .. m - 1 : calls'[k] = calls[k]
  /\ calls'[m].does = c.does /\ calls'[m].id = c.id /\ calls'[m].turn = c.turn + 1
  /\ StaysOk(m, c, s)
  /\ \/ s = t.id /\ freed' = freed /\ t.does = "check"
     \/ s = NULL /\ freed' = freed \union {t.id} /\ t.does = "free"
     \/ s = NULL /\ freed' = freed /\ t.does = "check"
  /\ c.does # "check" => parts' = parts /\ s = NULL /\ freed' = freed \union {t.id} /\ c.turn <= 1 + Len(parts[c.id])
  /\ c.does = "check" => parts' = [parts EXCEPT ![c.id][sl] = s]
  /\ c.turn \in DOMAIN parts[c.id] /\ c.id \in Live /\ t.id \in Live /\ c.id # t.id

LEMMA HandedBack ==
  ASSUME TreeInv, program' = program, NEW s, HandsBack(s),
         NEW n, n = Len(calls), NEW m, m = n - 1, NEW t, t = calls[n], NEW c, c = calls[m],
         NEW sl, sl = IF Kind(c.id) = "IF" THEN 1 ELSE c.turn
  PROVE  HandedOver(n, m, t, c, sl, s)
<1>1. /\ m \in Nat \ {0} /\ n \in Nat /\ m + 1 = n /\ m \in 1 .. n /\ n \in 1 .. n /\ n > 1 /\ m \in 1 .. n - 1
      /\ Top = t /\ Caller = c
  <2>1. n \in Nat /\ n > 1
    BY CallsAreNumbered DEF HandsBack
  <2> QED
    BY <2>1 DEF Top, Caller
<1>2. /\ calls \in Seq(Calls) /\ c \in Calls /\ t \in Calls
      /\ c.id \in Live /\ t.id \in Live /\ c.id # t.id
      /\ Called(m) /\ parts[c.id] \in Seq(Int) /\ c.turn \in Nat \ {0}
  <2>1. calls \in Seq(Calls)
    BY DEF TreeInv, Types
  <2>2. c.id \in Live /\ t.id \in Live /\ c \in Calls /\ t \in Calls /\ parts[c.id] \in Seq(Int) /\ c.turn \in Nat \ {0}
    BY <1>1, CallsAreNumbered
  <2> QED
    BY <1>1, <2>1, <2>2 DEF TreeInv, Walks, Nested
<1>3. c.turn \in DOMAIN parts[c.id]
  BY <1>2 DEF Called
<1>4. /\ calls' = [Front(calls) EXCEPT ![m] = [c EXCEPT !.turn = @ + 1, !.ok = @ /\ s # NULL]]
      /\ parts' = IF c.does = "check" THEN [parts EXCEPT ![c.id][sl] = s] ELSE parts
  BY <1>1 DEF HandsBack, Return, StillOk, Stored, Slot, Kind
<1> PICK d : d = [c EXCEPT !.turn = @ + 1, !.ok = @ /\ s # NULL]
  OBVIOUS
<1>5. /\ d \in Calls /\ d.does = c.does /\ d.id = c.id /\ d.turn = c.turn + 1
      /\ d.ok = (c.ok /\ s # NULL)
  <2>0. c \in Calls
    BY <1>2
  <2> PICK b \in BOOLEAN : b = (c.ok /\ s # NULL)
    OBVIOUS
  <2>1. c.turn + 1 \in Nat \ {0}
    BY <2>0 DEF Calls
  <2> PICK e : e = [c EXCEPT !.turn = c.turn + 1]
    OBVIOUS
  <2>2. e \in Calls /\ e.does = c.does /\ e.id = c.id /\ e.turn = c.turn + 1
    BY <2>0, <2>1 DEF Calls
  <2>3. d = [e EXCEPT !.ok = b]
    BY <2>0 DEF Calls
  <2>4. d \in Calls
    BY <2>2, <2>3 DEF Calls
  <2>5. d.does = e.does /\ d.id = e.id /\ d.turn = e.turn
    BY <2>2, <2>3 DEF Calls
  <2>6. d.ok = b
    BY <2>2, <2>3 DEF Calls
  <2> QED
    BY <2>2, <2>4, <2>5, <2>6
<1> PICK f : f = Front(calls)
  OBVIOUS
<1>6. f \in Seq(Calls) /\ Len(f) = m /\ \A k \in 1 .. m : f[k] = calls[k]
  <2>1. f = [i \in 1 .. m |-> calls[i]]
    <3>1. f = SubSeq(calls, 1, m)
      BY <1>1 DEF Front
    <3> QED
      BY <3>1, <1>1, <1>2
  <2> QED
    BY <2>1, <1>1, <1>2
<1>7. calls' = [f EXCEPT ![m] = d]
  BY <1>4
<1>8. /\ calls' \in Seq(Calls) /\ Len(calls') = m /\ calls'[m] = d
      /\ \A k \in 1 .. m - 1 : calls'[k] = calls[k]
  <2>1. f # <<>>
    BY <1>1, <1>6
  <2>2. PICK r : r = [f EXCEPT ![Len(f)] = d]
    OBVIOUS
  <2>3. r \in Seq(Calls) /\ Len(r) = Len(f) /\ r[Len(f)] = d /\ \A k \in 1 .. Len(f) - 1 : r[k] = f[k]
    BY ONLY <1>5, <1>6, <2>1, <2>2, ReplaceFacts
  <2>4. calls' = r
    BY <2>2, <1>6, <1>7
  <2>5. \A k \in 1 .. m - 1 : f[k] = calls[k]
    BY <1>1, <1>6
  <2> QED
    BY <2>3, <2>4, <2>5, <1>6
<1>9. /\ \/ s = t.id /\ freed' = freed /\ t.does = "check"
         \/ s = NULL /\ freed' = freed \union {t.id} /\ t.does = "free"
         \/ s = NULL /\ freed' = freed /\ t.does = "check"
  BY <1>1 DEF HandsBack
<1>10. c.does # "check" => t.does = "free"
  BY <1>1, <1>2 DEF Called
<1>11. c.does # "check" => parts' = parts /\ s = NULL /\ freed' = freed \union {t.id} /\ c.turn <= 1 + Len(parts[c.id])
  BY <1>2, <1>3, <1>4, <1>9, <1>10
<1>12. calls'[m].does = c.does /\ calls'[m].id = c.id /\ calls'[m].turn = c.turn + 1
  BY <1>5, <1>8
<1>13. StaysOk(m, c, s)
  BY <1>5, <1>8 DEF StaysOk
<1>14. c.does = "check" => parts' = [parts EXCEPT ![c.id][sl] = s]
  BY <1>4
<1> QED
  BY <1>1, <1>2, <1>3, <1>8, <1>9, <1>11, <1>12, <1>13, <1>14 DEF HandedOver

\* What the analysis of a part returns: the place it is stored in was its own.
LEMMA HeldByCaller ==
  ASSUME TreeInv, NEW k \in 1 .. Len(calls) - 1, calls[k].does = "check",
         NEW a \in Live, NEW i \in DOMAIN parts[a], parts[a][i] = calls[k + 1].id
  PROVE  /\ a = calls[k].id
         /\ \/ i = (IF Kind(a) = "IF" THEN 1 ELSE calls[k].turn)
            \/ Kind(a) = "IF" /\ i = 2
<1> PICK x : x = calls[k].id
  OBVIOUS
<1> PICK m : m = calls[k].turn
  OBVIOUS
<1>0. /\ program \in Programs /\ Types /\ Pointers /\ x \in Live
      /\ x \in N /\ m \in DOMAIN P[x] /\ m \in DOMAIN parts[x]
      /\ P[x][m] \in N /\ P[x][m] # 0 /\ parts[x][m] = P[x][m]
      /\ \/ calls[k + 1].id = P[x][m]
         \/ calls[k + 1].id = -P[x][m] /\ -P[x][m] \notin N /\ Kind(P[x][m]) = "ASSIGNMENT"
  <2>1. k \in 1 .. Len(calls)
    BY CallsAreNumbered
  <2> QED
    BY <2>1, CallsAreNumbered, AnalysesGoDown DEF TreeInv
<1>1. Kind(x) = "IF" => m \in {1, 2}
  <2>1. m \in Nat \ {0} /\ m <= Analysed(x)
    <3>1. k \in 1 .. Len(calls) /\ Called(k)
      BY CallsAreNumbered DEF TreeInv, Walks
    <3> QED
      BY <3>1, CallsAreNumbered DEF Called
  <2>2. Kind(x) = "IF" => Node(x).stmts = 2
    <3>1. program.parsed = "ok"
      <4>1. Running(k)
        BY CallsAreNumbered DEF TreeInv, Walks
      <4> QED
        BY <4>1 DEF Running
    <3> QED
      BY <3>1, <1>0, StatementFacts
  <2>3. Kind(x) = "IF" => Analysed(x) \in {1, 2}
    BY <2>2 DEF Analysed, Kind
  <2> QED
    BY <2>1, <2>3
<1>2. ASSUME a = x, i = m \/ (Kind(a) = "IF" /\ i \in {1, 2})
      PROVE  /\ a = calls[k].id
             /\ \/ i = (IF Kind(a) = "IF" THEN 1 ELSE calls[k].turn)
                \/ Kind(a) = "IF" /\ i = 2
  BY <1>1, <1>2
<1>3. CASE calls[k + 1].id = P[x][m]
  <2>1. parts[a][i] = parts[x][m] /\ parts[a][i] # 0
    BY <1>0, <1>3
  <2>2. a = x /\ (i = m \/ (Kind(a) = "IF" /\ {i, m} = {1, 2}))
    BY ONLY <2>1, <1>0, HeldOnce, a \in Live, i \in DOMAIN parts[a]
  <2> QED
    BY <2>2, <1>2
<1>4. CASE calls[k + 1].id = -P[x][m] /\ Kind(P[x][m]) = "ASSIGNMENT"
  <2>1. parts[a][i] = -P[x][m] /\ parts[a][i] # 0 /\ P[x][m] \in Nat /\ P[x][m] > 0
    BY SMTT(30), <1>0, <1>4, ProgramIsTree
  <2>2. \/ a \in N /\ Kind(a) = "VAR" /\ i = 1 /\ parts[a] = <<-a>>
        \/ /\ a \in N
           /\ \E j \in DOMAIN P[a] :
                /\ j = i \/ (Kind(a) = "IF" /\ i = 1 /\ j = 2)
                /\ P[a][j] # 0
                /\ \/ parts[a][i] = P[a][j]
                   \/ parts[a][i] = -P[a][j] /\ Kind(P[a][j]) = "ASSIGNMENT"
        \/ /\ -a \in N
           /\ i = 1 /\ 2 \in DOMAIN P[-a] /\ P[-a][2] # 0
           /\ parts[a] = <<P[-a][2]>>
    BY <2>1, <1>0, Source
  <2>3. CASE a \in N /\ Kind(a) = "VAR" /\ i = 1 /\ parts[a] = <<-a>>
    <3>1. -a = -P[x][m] /\ a \in Int
      BY <2>1, <2>3, <1>0, ProgramIsTree
    <3>2. a = P[x][m]
      BY <3>1, <2>1
    <3> QED
      BY <3>2, <2>3, <1>4
  <2>4. ASSUME a \in N, NEW j \in DOMAIN P[a], j = i \/ (Kind(a) = "IF" /\ i = 1 /\ j = 2), P[a][j] # 0,
               parts[a][i] \in {P[a][j], -P[a][j]}
        PROVE  a = x /\ (i = m \/ (Kind(a) = "IF" /\ i \in {1, 2}))
    <3>1. P[a][j] \in Nat /\ P[a][j] > 0
      BY <2>4, <1>0, ProgramIsTree
    <3>2. P[a][j] = P[x][m]
      BY <3>1, <2>1, <2>4
    <3>3. a = x /\ j = m
      BY <3>2, <2>4, <1>0, PartsAreDistinct
    <3> QED
      BY <3>3, <2>4
  <2>5. CASE -a \in N /\ i = 1 /\ 2 \in DOMAIN P[-a] /\ P[-a][2] # 0 /\ parts[a] = <<P[-a][2]>>
    <3>1. P[-a][2] \in Nat /\ P[-a][2] > 0
      BY <2>5, <1>0, ProgramIsTree
    <3> QED
      BY <3>1, <2>1, <2>5
  <2> QED
    BY <2>2, <2>3, <2>4, <2>5, <1>2
<1> QED
  BY <1>0, <1>3, <1>4

LEMMA HandingBackPreservesTree ==
  ASSUME TreeInv, program' = program, NEW s, HandsBack(s)
  PROVE  TreeInv'
<1> PICK n : n = Len(calls)
  OBVIOUS
<1> PICK m : m = n - 1
  OBVIOUS
<1> PICK t : t = calls[n]
  OBVIOUS
<1> PICK c : c = calls[m]
  OBVIOUS
<1> PICK x : x = c.id
  OBVIOUS
<1> PICK sl : sl = IF Kind(x) = "IF" THEN 1 ELSE c.turn
  OBVIOUS
<1>0. /\ program \in Programs /\ Types /\ Pointers
      /\ N' = N /\ P' = P /\ \A y : Under(y)' = Under(y) /\ Node(y)' = Node(y) /\ Kind(y)' = Kind(y)
  BY CallsAreNumbered, SameProgram DEF TreeInv
<1>1. /\ m \in Nat \ {0} /\ n \in Nat /\ m + 1 = n /\ m \in 1 .. n /\ n \in 1 .. n
      /\ calls' \in Seq(Calls) /\ Len(calls') = m
      /\ \A k \in 1 .. m - 1 : calls'[k] = calls[k]
      /\ calls'[m].does = c.does /\ calls'[m].id = x /\ calls'[m].turn = c.turn + 1
      /\ \/ s = t.id /\ freed' = freed /\ t.does = "check"
         \/ s = NULL /\ freed' = freed \union {t.id} /\ t.does = "free"
         \/ s = NULL /\ freed' = freed /\ t.does = "check"
      /\ c.does # "check" => parts' = parts /\ s = NULL /\ freed' = freed \union {t.id}
      /\ c.does = "check" => parts' = [parts EXCEPT ![x][sl] = s]
      /\ c.turn \in DOMAIN parts[x] /\ x \in Live /\ t.id \in Live /\ x # t.id
  <2>1. TreeInv /\ program' = program /\ HandsBack(s)
    OBVIOUS
  <2>2. sl = IF Kind(c.id) = "IF" THEN 1 ELSE c.turn
    OBVIOUS
  <2>3. /\ m \in Nat \ {0} /\ n \in Nat /\ m + 1 = n /\ m \in 1 .. n /\ n \in 1 .. n
        /\ calls' \in Seq(Calls) /\ Len(calls') = m
        /\ \A k \in 1 .. m - 1 : calls'[k] = calls[k]
        /\ calls'[m].does = c.does /\ calls'[m].id = c.id /\ calls'[m].turn = c.turn + 1
        /\ \/ s = t.id /\ freed' = freed /\ t.does = "check"
           \/ s = NULL /\ freed' = freed \union {t.id} /\ t.does = "free"
           \/ s = NULL /\ freed' = freed /\ t.does = "check"
        /\ c.does # "check" => parts' = parts /\ s = NULL /\ freed' = freed \union {t.id} /\ c.turn <= 1 + Len(parts[c.id])
        /\ c.does = "check" => parts' = [parts EXCEPT ![c.id][sl] = s]
        /\ c.turn \in DOMAIN parts[c.id] /\ c.id \in Live /\ t.id \in Live /\ c.id # t.id
    <3>1. HandedOver(n, m, t, c, sl, s)
      BY <2>1, <2>2, HandedBack
    <3> QED
      BY ONLY <3>1 DEF HandedOver
  <2> QED
    BY <2>3
<1>2. /\ parts[x] \in Seq(Int) /\ x \in DOMAIN parts /\ t.id \in DOMAIN parts /\ c.turn \in Nat \ {0} /\ t.id # 0
      /\ Running(m) /\ Ahead(m) /\ Behind(m) /\ Called(m) /\ t.id \in Int /\ 0 \notin DOMAIN parts
  <2>1. Running(m) /\ Ahead(m) /\ Behind(m) /\ m \in 1 .. n - 1
    BY <1>1 DEF TreeInv, Walks
  <2>2. /\ parts[x] \in Seq(Int) /\ x \in DOMAIN parts /\ t.id \in DOMAIN parts /\ c.turn \in Nat \ {0}
        /\ t.id # 0 /\ t.id \in Int
    <3>1. m \in 1 .. Len(calls) /\ n \in 1 .. Len(calls)
      BY <1>1
    <3>2. parts[x] \in Seq(Int) /\ x \in Live /\ c.turn \in Nat /\ c.turn > 0
      BY <3>1, CallsAreNumbered
    <3>3. t.id \in Live /\ t.id \in Int /\ t.id # 0
      BY <3>1, CallsAreNumbered
    <3> QED
      BY <3>2, <3>3 DEF Live
  <2>3. 0 \notin DOMAIN parts
    BY <1>0, PartsAreAllocated
  <2>4. Called(m)
    BY <2>1 DEF TreeInv, Walks
  <2> QED
    BY <2>1, <2>2, <2>3, <2>4
(* The place of the part, when it is an analysis that goes on. *)
<1>3. ASSUME c.does = "check"
      PROVE  /\ x \in N /\ Kind(x) \in Compound /\ sl \in DOMAIN P[x] /\ c.turn \in DOMAIN P[x]
             /\ DOMAIN parts[x] = DOMAIN P[x] /\ Len(parts[x]) = Len(P[x]) /\ sl <= c.turn
             /\ sl <= Node(x).stmts
             /\ Kind(x) = "IF" => c.turn \in {1, 2}
             /\ P[x][c.turn] \in N /\ P[x][c.turn] # 0
             /\ s = 0 \/ Stands(P[x][c.turn], s)
  <2>1. x \in N /\ Kind(x) \in Compound /\ c.turn <= Analysed(x) /\ program.parsed = "ok"
    BY <1>0, <1>1, <1>2, <1>3 DEF Called, Running
  <2>2. Kind(x) = "IF" => Node(x).stmts = 2
    BY <2>1, <1>0, StatementFacts
  <2>3. c.turn <= Node(x).stmts
    <3>1. Analysed(x) = Node(x).stmts \/ (Kind(x) = "IF" /\ Analysed(x) = 1)
      BY DEF Analysed, Kind
    <3>2. Node(x).stmts \in 0 .. Len(P[x]) /\ P[x] \in Seq(N \union {0})
      BY <2>1, <1>0, ProgramIsTree
    <3> QED
      BY <3>1, <3>2, <2>1, <2>2, <1>2
  <2>4. DOMAIN parts[x] = DOMAIN P[x] /\ Len(parts[x]) = Len(P[x]) /\ P[x] \in Seq(N \union {0})
    BY <2>1, <1>0, PartsAreAsMany
  <2>5. sl \in DOMAIN P[x] /\ c.turn \in DOMAIN P[x] /\ sl <= c.turn
    BY SMTT(30), <2>4, <1>1, <1>2
  <2>6. m \in 1 .. Len(calls) - 1 /\ calls[m + 1] = t
    BY <1>1
  <2>7. P[x][c.turn] \in N /\ P[x][c.turn] # 0
        /\ (t.id = P[x][c.turn] \/ (t.id = -P[x][c.turn] /\ Kind(P[x][c.turn]) = "ASSIGNMENT"))
    BY <2>6, <1>3, AnalysesGoDown
  <2>8. s = 0 \/ Stands(P[x][c.turn], s)
    BY <2>7, <1>1, <1>2 DEF Stands, NULL
  <2>9. sl <= Node(x).stmts
    BY <2>2, <2>3, <1>2
  <2>10. Kind(x) = "IF" => c.turn \in {1, 2}
    BY SMTT(30), <2>2, <2>3, <1>2
  <2> QED
    BY <2>1, <2>4, <2>5, <2>7, <2>8, <2>9, <2>10
<1>4. /\ DOMAIN parts' = DOMAIN parts
      /\ \A y \in DOMAIN parts : y # x => parts'[y] = parts[y]
      /\ parts'[x] \in Seq(Int) /\ Len(parts'[x]) = Len(parts[x]) /\ DOMAIN parts'[x] = DOMAIN parts[x]
      /\ c.does = "check" => parts'[x][sl] = s /\ \A j \in DOMAIN parts[x] : j # sl => parts'[x][j] = parts[x][j]
      /\ Live' \subseteq Live /\ freed \subseteq freed' /\ freed' \subseteq DOMAIN parts
      /\ Live' = IF freed' = freed THEN Live ELSE Live \ {t.id}
  <2>1. c.does = "check" => s \in Int
    BY <1>1, <1>2 DEF NULL
  <2>2. CASE c.does = "check"
    <3> PICK w : w = [parts[x] EXCEPT ![sl] = s]
      OBVIOUS
    <3>1. parts' = [parts EXCEPT ![x] = w]
      BY <2>2, <1>1
    <3>2. /\ w \in Seq(Int) /\ Len(w) = Len(parts[x]) /\ DOMAIN w = DOMAIN parts[x] /\ w[sl] = s
          /\ \A j \in DOMAIN parts[x] : j # sl => w[j] = parts[x][j]
      BY SMTT(30), <2>1, <2>2, <1>2, <1>3
    <3>3. /\ DOMAIN parts' = DOMAIN parts /\ parts'[x] = w
          /\ \A y \in DOMAIN parts : y # x => parts'[y] = parts[y]
      BY <3>1, <1>2
    <3> QED
      BY <3>2, <3>3, <1>0, <1>1, <1>2 DEF Live, Types
  <2>3. CASE c.does # "check"
    BY <2>3, <1>0, <1>1, <1>2 DEF Live, Types
  <2> QED
    BY <2>2, <2>3
<1>5. Types'
  <2>1. \A y \in DOMAIN parts' : parts'[y] \in Seq(Int)
    BY <1>0, <1>4 DEF Types
  <2>2. N' \subseteq DOMAIN parts' /\ DOMAIN parts' \subseteq Int /\ freed' \subseteq DOMAIN parts'
    BY <1>0, <1>4 DEF Types
  <2> QED
    BY <2>1, <2>2, <1>0, <1>1 DEF Types
<1>6. Pointers'
  <2>1. \A y, p : Stands(y, p) <=> Stands(y, p)'
    BY <1>0, <1>4 DEF Stands
  <2>2. ASSUME NEW y \in N, y # x
        PROVE  NodeStands(y)'
    <3>1. NodeStands(y) /\ parts'[y] = parts[y]
      BY <2>2, <1>0, <1>4 DEF Types, Pointers
    <3>2. \A i : PartStands(y, i) => PartStands(y, i)'
      BY <2>1, <3>1, <1>0 DEF PartStands
    <3> QED
      BY <3>1, <3>2, <1>0, <1>4 DEF NodeStands
  <2>3. ASSUME x \in N, c.does = "check"
        PROVE  NodeStands(x)'
    <3>1. NodeStands(x)
      BY <2>3, <1>0 DEF Pointers
    <3>2. /\ \A i \in DOMAIN P[x] : PartStands(x, i)
          /\ Kind(x) = "IF" => parts[x][2] = P[x][2]
      <4>1. CASE parts[x] = P[x]
        BY <4>1 DEF PartStands, Stands
      <4> QED
        BY <4>1, <3>1, <2>3, <1>3 DEF NodeStands, Compound
    <3>3. Kind(x) = "IF" => parts'[x][2] = P[x][2]
      <4>1. Kind(x) = "IF" => 2 \in DOMAIN parts[x]
        <5>1. Kind(x) = "IF" => Len(P[x]) = 3
          BY <1>0, <1>2, <2>3, StatementFacts DEF Running
        <5> QED
          BY <5>1, <2>3, <1>2, <1>3
      <4> QED
        BY <4>1, <3>2, <2>3, <1>4
    <3>4. ASSUME NEW i \in DOMAIN P[x]
          PROVE  PartStands(x, i)'
      <4>1. CASE i # sl
        <5>1. parts'[x][i] = parts[x][i] /\ PartStands(x, i)
          BY <4>1, <3>2, <3>4, <2>3, <1>3, <1>4
        <5> QED
          BY <5>1, <2>1, <1>0 DEF PartStands
      <4>2. CASE i = sl /\ Kind(x) # "IF"
        <5>1. parts'[x][i] = s /\ i = c.turn /\ i <= Node(x).stmts
          BY <4>2, <2>3, <1>3, <1>4
        <5>2. Stands(P[x][i], s)
          BY <5>1, <2>3, <1>3 DEF Stands, NULL
        <5> QED
          BY <5>1, <5>2, <2>1, <1>0 DEF PartStands
      <4>3. CASE i = sl /\ Kind(x) = "IF"
        <5>1. parts'[x][i] = s /\ i = 1 /\ i <= Node(x).stmts /\ c.turn \in {1, 2} /\ c.turn \in DOMAIN P[x]
          BY <4>3, <2>3, <1>3, <1>4
        <5>2. Stands(P[x][c.turn], s) /\ P[x][c.turn] # NULL
          BY <2>3, <1>3 DEF Stands, NULL
        <5> QED
          BY <4>3, <5>1, <5>2, <2>1, <1>0 DEF PartStands
      <4> QED
        BY <4>1, <4>2, <4>3
    <3> QED
      BY <3>3, <3>4, <2>3, <1>0, <1>3, <1>4 DEF NodeStands
  <2>4. ASSUME NEW y \in DOMAIN parts' \ N
        PROVE  NewNode(y)'
    <3>1. NewNode(y) /\ y \in DOMAIN parts
      BY <2>4, <1>0, <1>4 DEF Pointers
    <3>2. CASE c.does = "check"
      <4>1. y # x /\ parts'[y] = parts[y]
        BY <3>1, <3>2, <2>4, <1>3, <1>4
      <4>2. Kind(-y) = "VAR" => parts'[-y] = parts[-y]
        <5>1. -y \in DOMAIN parts
          BY <3>1, <1>0 DEF NewNode, Types
        <5>2. Kind(-y) = "VAR" => -y # x
          BY <3>2, <1>3 DEF Compound
        <5> QED
          BY <5>1, <5>2, <1>4
      <4> QED
        BY <3>1, <4>1, <4>2, <1>0, <1>4 DEF NewNode
    <3>3. CASE c.does # "check"
      BY <3>1, <3>3, <1>0, <1>1, <1>4 DEF NewNode
    <3> QED
      BY <3>2, <3>3
  <2>5. c.does # "check" => Pointers'
    BY <1>0, <1>1, <1>4, PointersStay
  <2> QED
    BY <2>2, <2>3, <2>4, <2>5, <1>0 DEF Pointers
<1>7. Touches(m)
  <2>1. /\ n \in m .. Len(calls) /\ calls[n].id = t.id
        /\ m \in m .. Len(calls) /\ calls[m].id = x
    BY <1>1
  <2> QED
    BY <2>1, <1>1, <1>2, <1>4 DEF Touches
<1>8. \A k \in 1 .. m - 1 : /\ Running(k)' /\ Ahead(k)' /\ Behind(k)'
                            /\ parts'[calls[k].id] = parts[calls[k].id] /\ calls[k].id \in Live'
  <2>1. m \in 1 .. Len(calls) /\ m <= Len(calls')
    BY <1>1
  <2> QED
    BY <2>1, <1>1, <1>7, CallsBeforeStay
<1>9. x \in Live'
  BY <1>1, <1>4
<1>10. Running(m)'
  <2>1. c.turn + 1 <= Len(parts'[x]) + 1
    BY SMTT(30), <1>1, <1>2, <1>4
  <2>2. c.does = "declare" => c.turn = 1
    BY <1>2 DEF Called
  <2>3. ASSUME c.does = "check", Kind(x) = "IF", c.turn + 1 <= 2
        PROVE  Stands(P[x][1], parts[x][1])'
    <3>1. c.turn = 1 /\ sl = 1 /\ parts'[x][1] = s
      BY <2>3, <1>2, <1>3, <1>4
    <3>2. Stands(P[x][1], s)
      BY <3>1, <2>3, <1>3 DEF Stands, NULL
    <3> QED
      BY <3>1, <3>2, <1>0, <1>4 DEF Stands
  <2>4. PICK d : d = calls'[m] /\ d.does = c.does /\ d.id = x /\ d.turn = c.turn + 1
    BY <1>1
  <2>5. /\ c.does # "free" => program.parsed = "ok"
        /\ c.does = "declare" => x \in N /\ Kind(x) = "ASSIGNMENT" /\ Node(x).declares
    BY <1>2 DEF Running
  <2>6. c.does = "declare" => c.turn + 1 <= 2
    BY <2>2
  <2>7. c.does = "check" => Kind(x) \in Compound
    BY <1>3
  <2> QED
    BY <2>1, <2>3, <2>4, <2>5, <2>6, <2>7, <1>0, <1>9 DEF Running
<1>11. Behind(m)'
  <2>1. ASSUME c.does # "check", NEW i \in 1 .. c.turn PROVE parts'[x][i] \notin Live'
    <3>1. CASE i = c.turn
      <4>1. parts[x][i] = t.id
        BY <2>1, <3>1, <1>1, <1>2 DEF Called
      <4> QED
        BY <4>1, <2>1, <1>1 DEF Live
    <3>2. CASE i # c.turn
      <4>1. i \in 1 .. c.turn - 1
        BY <3>2, <1>2
      <4> QED
        BY <4>1, <2>1, <1>1, <1>2, <1>4 DEF Behind
    <3> QED
      BY <3>1, <3>2
  <2>2. PICK d : d = calls'[m] /\ d.does = c.does /\ d.id = x /\ d.turn = c.turn + 1
    BY <1>1
  <2>3. d.turn - 1 = c.turn
    BY <2>2, <1>2
  <2>4. c.does # "check" => \A i \in 1 .. c.turn : parts'[x][i] \notin Live'
    BY <2>1
  <2> QED
    BY <2>2, <2>3, <2>4 DEF Behind
<1>12. Ahead(m)'
  <2>1. SUFFICES ASSUME c.does = "check", NEW i \in DOMAIN P[x], i > c.turn
                 PROVE  parts'[x][i] = P[x][i] /\ (P[x][i] # NULL => Fresh(P[x][i])')
    <3>2. \A i \in Nat : i > c.turn + 1 \/ i = c.turn + 1 <=> i > c.turn
      BY SMTT(30), <1>2
    <3>3. c.does = "check" => \A i \in DOMAIN P[x] : i \in Nat
      BY SMTT(30), <1>2, <1>3
    <3> QED
      BY <3>2, <3>3, <1>0, <1>1, <2>1 DEF Ahead
  <2> PICK z : z = P[x][i]
    OBVIOUS
  <2>2. parts[x][i] = z /\ (z # NULL => Fresh(z))
    BY <2>1, <1>2, <1>3 DEF Ahead
  <2>3. parts'[x][i] = z
    <3>1. i \in DOMAIN parts[x] /\ i \in Nat /\ sl <= c.turn /\ sl \in Nat
      BY SMTT(30), <2>1, <1>2, <1>3
    <3>2. i # sl
      BY <3>1, <2>1, <1>2
    <3> QED
      BY <3>1, <3>2, <2>1, <2>2, <1>4
  <2>4. z # NULL => Fresh(z)'
    <3>1. m \in 1 .. Len(calls) /\ m \in 1 .. m
      BY <1>1
    <3> QED
      BY <2>1, <2>2, <3>1, <1>3, <1>7, FreshAhead DEF NULL
  <2>5. (P[x][i])' = z
    BY <1>0
  <2> QED
    BY <2>3, <2>4, <2>5, <1>0 DEF Fresh
<1>13. ASSUME NEW k \in 1 .. m - 1 PROVE Called(k)'
  <2>1. Called(k) /\ k \in Nat /\ calls'[k] = calls[k] /\ k + 1 \in 1 .. m
    BY <1>1 DEF TreeInv, Walks
  <2>2. calls'[k + 1].id = calls[k + 1].id /\ calls'[k + 1].does = calls[k + 1].does
    <3>1. CASE k + 1 = m
      BY <3>1, <1>1
    <3>2. CASE k + 1 # m
      BY <3>2, <2>1, <1>1
    <3> QED
      BY <3>1, <3>2
  <2> QED
    BY <2>1, <2>2, <1>8, CalledStays
<1>14. Nested'
  <2>1. ASSUME NEW j \in 1 .. m, NEW k \in 1 .. m, k < j
        PROVE  /\ calls'[j].id # calls'[k].id
               /\ Origin(calls'[j].id) \in Under(Origin(parts'[calls'[k].id][calls'[k].turn]))
    <3>1. k \in 1 .. m - 1 /\ calls'[k] = calls[k] /\ calls'[j].id = calls[j].id /\ j \in 1 .. n /\ k \in 1 .. n
      BY SMTT(30), <2>1, <1>1
    <3>2. /\ calls[j].id # calls[k].id
          /\ Origin(calls[j].id) \in Under(Origin(parts[calls[k].id][calls[k].turn]))
      BY <2>1, <3>1 DEF TreeInv, Walks, Nested
    <3> QED
      BY <3>1, <3>2, <1>8
  <2> QED
    BY <2>1, <1>0, <1>1 DEF Nested
<1>15. Whole'
  <2>1. ASSUME NEW a \in Live', NEW i \in Nat, Passed(a, i)
        PROVE  Passed(a, i)' \/ (a = x /\ c.does = "check" /\ i = c.turn)
    <3>1. PICK k \in 1 .. n : /\ calls[k].id = a
                              /\ \/ calls[k].does # "check" /\ i < calls[k].turn
                                 \/ calls[k].does = "check" /\ i = calls[k].turn /\ k < n
      BY <2>1 DEF Passed
    <3>2. CASE k \in 1 .. m - 1
      BY <3>1, <3>2, <1>1 DEF Passed
    <3>3. CASE k = m
      <4>1. c.does # "check" => i < c.turn + 1
        BY <3>1, <3>3, <1>2
      <4> QED
        BY <3>1, <3>3, <4>1, <1>1 DEF Passed
    <3>4. CASE k = n
      <4>1. t.does = "free" /\ a = t.id
        BY <3>1, <3>4, <1>1
      <4> QED
        BY <4>1, <2>1, <1>1 DEF Live
    <3> QED
      BY <3>2, <3>3, <3>4, <1>1
  <2>2. ASSUME NEW a \in Live, NEW i \in DOMAIN parts[a], parts[a][i] = t.id
        PROVE  \/ a = x /\ c.does = "check" /\ i = sl
               \/ Kind(a) = "IF" /\ i = 2
               \/ Passed(a, i)'
    <3>1. CASE c.does = "check"
      <4>1. m \in 1 .. Len(calls) - 1 /\ calls[m + 1] = t
        BY <1>1
      <4> QED
        BY <2>2, <3>1, <4>1, HeldByCaller
    <3>2. CASE c.does # "check"
      <4>1. parts[x][c.turn] = t.id
        BY <3>2, <1>1, <1>2 DEF Called
      <4>2. parts[a][i] = parts[x][c.turn] /\ parts[a][i] # 0
        BY <4>1, <2>2, <1>2
      <4>3. a = x /\ (i = c.turn \/ (Kind(a) = "IF" /\ {i, c.turn} = {1, 2}))
        <5>1. Types /\ Pointers /\ a \in Live /\ i \in DOMAIN parts[a] /\ x \in Live /\ c.turn \in DOMAIN parts[x]
          BY <1>0, <1>1, <2>2
        <5> QED
          BY ONLY <4>2, <5>1, HeldOnce
      <4>4. i = 2 \/ i < c.turn + 1
        <5>1. i = 2 \/ i = c.turn \/ i = 1
          BY <4>3
        <5> QED
          BY <5>1, <1>2
      <4>5. i < c.turn + 1 => Passed(a, i)'
        BY <3>2, <4>3, <1>1 DEF Passed
      <4> QED
        BY <4>3, <4>4, <4>5
    <3> QED
      BY <3>1, <3>2
  <2>3. ASSUME NEW a \in Live', NEW i \in DOMAIN parts'[a]
        PROVE  \/ parts'[a][i] \in Live' \/ parts'[a][i] = NULL
               \/ Kind(a) = "IF" /\ i = 2
               \/ Passed(a, i)'
    <3>1. a \in Live /\ i \in DOMAIN parts[a] /\ i \in Nat
      <4>1. a \in Live /\ a \in DOMAIN parts
        BY <2>3, <1>4 DEF Live
      <4>2. i \in DOMAIN parts[a]
        BY <4>1, <2>3, <1>4
      <4>3. parts[a] \in Seq(Int)
        BY <4>1, <1>0 DEF Types
      <4> QED
        BY <4>1, <4>2, <4>3
    <3>2. CASE a = x /\ c.does = "check" /\ i = sl
      BY <3>2, <1>1, <1>4
    <3>3. CASE ~(a = x /\ c.does = "check" /\ i = sl)
      <4>1. parts'[a][i] = parts[a][i]
        BY <3>1, <3>3, <1>1, <1>4 DEF Live
      <4>2. \/ parts[a][i] \in Live \/ parts[a][i] = NULL
            \/ Kind(a) = "IF" /\ i = 2
            \/ Passed(a, i)
        BY <3>1 DEF TreeInv, Whole
      <4>3. CASE parts[a][i] \in Live
        BY <4>1, <4>3, <3>1, <3>3, <2>2, <1>4
      <4>4. CASE Passed(a, i)
        <5>1. a = x /\ c.does = "check" /\ i = c.turn => Kind(a) = "IF" /\ i = 2
          BY <3>3, <1>3
        <5> QED
          BY <5>1, <4>4, <3>1, <2>1, <2>3
      <4> QED
        BY <4>1, <4>2, <4>3, <4>4
    <3> QED
      BY <3>2, <3>3
  <2> QED
    BY <2>3, <1>0 DEF Whole, NULL
<1>16. \A k \in 1 .. m : Running(k)' /\ Ahead(k)' /\ Behind(k)'
  <2> SUFFICES ASSUME NEW k \in 1 .. m PROVE Running(k)' /\ Ahead(k)' /\ Behind(k)'
    OBVIOUS
  <2>1. k = m \/ k \in 1 .. m - 1
    BY <1>1
  <2> QED
    BY <2>1, <1>8, <1>10, <1>11, <1>12
<1>17. calls'[1].id = program.head
  <2>1. calls # <<>>
    BY <1>1
  <2>2. calls[1].id = program.head
    BY <2>1 DEF TreeInv, Walks
  <2>3. 1 = m \/ 1 \in 1 .. m - 1
    BY <1>1
  <2> QED
    BY <2>2, <2>3, <1>1
<1>18. Walks'
  BY <1>1, <1>13, <1>14, <1>16, <1>17, program' = program DEF Walks
<1> QED
  BY <1>5, <1>6, <1>15, <1>18 DEF TreeInv

(* The root is freed. *)
Ends == /\ Len(calls) = 1 /\ calls' = <<>>
        /\ Top.does = "free" /\ Top.turn > Len(Parts)
        /\ parts' = parts /\ freed' = freed \union {Top.id}

LEMMA EndPreservesTree ==
  ASSUME TreeInv, program' = program, Ends
  PROVE  TreeInv'
<1>0. /\ program \in Programs /\ Types /\ Pointers
      /\ N' = N /\ P' = P /\ \A y : Under(y)' = Under(y) /\ Node(y)' = Node(y) /\ Kind(y)' = Kind(y)
  BY CallsAreNumbered, SameProgram DEF TreeInv
<1> USE DEF Ends
<1>1. Top.id = program.head /\ Top.id \in Live /\ Live' = Live \ {program.head} /\ Top = calls[1]
  <2>1. 1 \in 1 .. Len(calls) /\ calls # <<>> /\ Top = calls[1]
    BY DEF Top
  <2> QED
    BY <2>1, CallsAreNumbered DEF TreeInv, Walks, Live
<1>2. Types'
  BY <1>0, <1>1 DEF Types, Live
<1>3. Pointers'
  BY <1>0, PointersStay
<1>4. Walks'
  BY DEF Walks, Nested
<1>5. ASSUME NEW a \in Live, NEW i \in DOMAIN parts[a] PROVE parts[a][i] # program.head
  <2>1. program.head \in Nat /\ program.head > 0 /\ program.head \in N
    BY <1>0, ProgramIsTree
  <2>2. parts[a][i] # 0 =>
           /\ Origin(a) \in N
           /\ Origin(parts[a][i]) \in Under(Origin(a))
           /\ \/ Origin(a) \notin Under(Origin(parts[a][i]))
              \/ a \in N /\ Kind(a) = "VAR" /\ parts[a][i] = -a
    BY <1>0, PartsAreBelow
  <2>3. Origin(program.head) = program.head /\ Under(program.head) = N
    BY <2>1, <1>0, Origins, ProgramIsTree
  <2>4. a \in N => a \in Nat
    BY <1>0, ProgramIsTree
  <2> QED
    BY <2>1, <2>2, <2>3, <2>4
<1>6. Whole'
  <2>1. ASSUME NEW a \in Live', NEW i \in DOMAIN parts[a]
        PROVE  parts[a][i] \in Live' \/ parts[a][i] = NULL \/ (Kind(a) = "IF" /\ i = 2)
    <3>1. a \in Live /\ a # program.head
      BY <1>1
    <3>2. ~Passed(a, i)
      BY <3>1, <1>1 DEF Passed
    <3> QED
      BY <3>1, <3>2, <1>1, <1>5 DEF TreeInv, Whole
  <2> QED
    BY <2>1, <1>0 DEF Whole, NULL
<1> QED
  BY <1>2, <1>3, <1>4, <1>6 DEF TreeInv
=============================================================================
