---------------------------- MODULE LaunchProofs ----------------------------
(***************************************************************************)
(* Proofs about the launcher and the walks of Ownership, for every program *)
(* the parser can leave.                                                   *)
(*                                                                         *)
(* OwnershipProofs has that each effect of a step preserves TreeInv.  Here *)
(* every step has one of these effects (StepGoes), which preserve what the *)
(* analysis has found out (VerdictInv) and what is freed (DeadInv) too,    *)
(* and mtr_launch takes the three from the parser to its exit code.        *)
(***************************************************************************)
EXTENDS OwnershipProofs, FiniteSetTheorems

-----------------------------------------------------------------------------
(* What an analysis has found right.                                       *)

LEMMA ExprsAreClean ==
  ASSUME program \in Programs, program.parsed = "ok",
         NEW x \in N, NEW i \in DOMAIN P[x], i > Node(x).stmts, P[x][i] # 0
  PROVE  /\ P[x][i] \notin program.wrong => Clean(P[x][i])
         /\ Kind(x) = "ASSIGNMENT" /\ Node(x).declares /\ i = 1 => Clean(P[x][i])
         /\ Kind(P[x][i]) = "EXPR"
<1> PICK e : e = P[x][i]
  OBVIOUS
<1>1. /\ \A y \in Under(e) : program.node[y].k = "EXPR"
      /\ program.wrong \intersect Under(e) \subseteq {e}
      /\ Kind(x) = "ASSIGNMENT" /\ Node(x).declares /\ i = 1 => e \notin program.wrong
  <2>1. HasExpressions(program, x)
    BY ProgramsAssumption DEF IsProgram, N
  <2>2. Node(x) = program.node[x] /\ P[x] \in Seq(N \union {0}) /\ Node(x).stmts \in 0 .. Len(P[x])
    BY ProgramIsTree
  <2>3. i \in program.node[x].stmts + 1 .. Len(program.parts[x]) /\ program.parts[x][i] = e /\ e # NULL
    BY <2>2 DEF P, NULL
  <2> QED
    BY <2>1, <2>2, <2>3 DEF HasExpressions, Under, Kind
<1>2. e \in N /\ Under(e) \subseteq N /\ e \in Under(e)
  BY ProgramIsTree
<1>3. \A y \in Under(e) : y \notin Unreturning /\ y \notin Bare
  BY <1>1, <1>2 DEF Unreturning, Bare, Nodes
<1>4. e \notin program.wrong => Clean(e)
  BY <1>1, <1>3 DEF Clean
<1>5. Kind(e) = "EXPR"
  BY <1>1, <1>2, ProgramIsTree DEF Kind
<1> QED
  BY <1>1, <1>4, <1>5

LEMMA CleanParts ==
  ASSUME program \in Programs, NEW x \in N, x \notin program.wrong, x \notin Unreturning,
         Kind(x) = "RETURN" => P[x] # << 0 >>,
         \A i \in DOMAIN P[x] : P[x][i] # 0 => Clean(P[x][i])
  PROVE  Clean(x)
<1>1. \A y \in Under(x) : y = x \/ \E i \in DOMAIN P[x] : P[x][i] # 0 /\ y \in Under(P[x][i])
  BY ProgramIsTree
<1>2. x \notin Bare
  BY ProgramIsTree DEF Bare, Nodes, Kind, P, NULL
<1> QED
  BY <1>1, <1>2 DEF Clean

\* Expressions stay where they are.
LEMMA ExprsStay ==
  ASSUME Types, Pointers, program.parsed = "ok", NEW x \in N, Kind(x) # "VAR",
         NEW i \in DOMAIN P[x], i > Node(x).stmts
  PROVE  parts[x][i] = P[x][i]
<1>1. program \in Programs /\ NodeStands(x) /\ P[x] \in Seq(N \union {0}) /\ Node(x).stmts \in Nat /\ i \in Nat
  BY ProgramIsTree DEF Types, Pointers
<1>2. Kind(x) = "IF" => Node(x).stmts = 2
  BY <1>1, StatementFacts
<1> QED
  BY <1>1, <1>2 DEF NodeStands, PartStands

\* Only statements that may be replaced have other parts than they had.
LEMMA SimpleParts ==
  ASSUME Types, Pointers, NEW x \in N, Kind(x) \notin Compound, Kind(x) # "VAR"
  PROVE  parts[x] = P[x]
BY DEF Pointers, NodeStands

LEMMA HeaderIsClean ==
  ASSUME Types, Pointers, program.parsed = "ok", NEW x \in N, Kind(x) # "VAR", Right(ExprsOf(x)),
         NEW i \in DOMAIN P[x], i > Node(x).stmts, P[x][i] # 0
  PROVE  Clean(P[x][i])
<1>1. program \in Programs /\ parts[x][i] = P[x][i] /\ Len(parts[x]) = Len(P[x]) /\ P[x] \in Seq(N \union {0})
      /\ Node(x).stmts \in Nat
  BY SMTT(30), ExprsStay, PartsAreAsMany, ProgramIsTree DEF Types
<1>2. i \in Node(x).stmts + 1 .. Len(parts[x])
  BY <1>1
<1>3. P[x][i] \in ExprsOf(x)
  BY <1>1, <1>2 DEF ExprsOf
<1>4. P[x][i] \notin program.wrong
  BY <1>3 DEF Right
<1> QED
  BY <1>1, <1>4, ExprsAreClean

\* Statements without statements below them.
LEMMA SimpleIsClean ==
  ASSUME Types, Pointers, program.parsed = "ok", NEW x \in N, Kind(x) \notin Compound, Kind(x) # "VAR",
         Right({x} \union ExprsOf(x)), Kind(x) = "RETURN" => P[x] # << 0 >>
  PROVE  Clean(x)
<1>1. program \in Programs /\ Node(x).stmts = 0
  BY StatementFacts DEF Types
<1>2. x \notin program.wrong /\ Right(ExprsOf(x))
  BY DEF Right
<1>3. x \notin Unreturning
  BY <1>1, ProgramIsTree DEF Unreturning, Nodes, Kind, Compound
<1>4. \A i \in DOMAIN P[x] : P[x][i] # 0 => Clean(P[x][i])
  <2>1. \A i \in DOMAIN P[x] : i > 0
    BY <1>1, ProgramIsTree
  <2> QED
    BY <2>1, <1>1, <1>2, HeaderIsClean
<1> QED
  BY <1>1, <1>2, <1>3, <1>4, CleanParts

LEMMA VariableIsClean ==
  ASSUME Types, Pointers, program.parsed = "ok", NEW v \in Live, Kind(v) = "VAR",
         Right({v, parts[v][1]}), v \notin N => -v \notin program.wrong
  PROVE  Clean(Origin(v))
<1>0. program \in Programs /\ v \in DOMAIN parts
  BY DEF Types, Live
<1>1. CASE v \in N
  <2>1. Origin(v) = v /\ v \notin program.wrong /\ Node(v).stmts = 0 /\ Len(P[v]) = 1 /\ P[v] \in Seq(N \union {0})
    BY <1>0, <1>1, Origins, StatementFacts, ProgramIsTree DEF Right
  <2>2. v \notin Unreturning
    BY <1>0, <1>1, ProgramIsTree DEF Unreturning, Nodes, Kind
  <2>3. parts[v] = P[v] \/ P[v] = << 0 >>
    BY <1>1 DEF Pointers, NodeStands, Compound, NULL
  <2>4. \A i \in DOMAIN P[v] : i = 1
    BY <2>1
  <2>5. P[v][1] # 0 => P[v][1] \notin program.wrong
    BY <2>3 DEF Right
  <2>6. \A i \in DOMAIN P[v] : P[v][i] # 0 => Clean(P[v][i])
    <3>1. \A i \in DOMAIN P[v] : i > Node(v).stmts
      BY <2>1, <2>4
    <3> QED
      BY <3>1, <2>4, <2>5, <1>0, <1>1, ExprsAreClean
  <2> QED
    BY <2>1, <2>2, <2>6, <1>0, <1>1, CleanParts
<1>2. CASE v \notin N
  <2>1. NewNode(v) /\ v \in Int
    BY <1>0, <1>2 DEF Pointers, Types
  <2>2. PICK a \in N : a = -v /\ v = -a
    <3>1. -v \in N /\ v = -(-v)
      BY <2>1 DEF NewNode
    <3> QED
      BY <3>1
  <2>3. Kind(a) = "ASSIGNMENT"
    BY <2>2, <1>0, NewNodes
  <2>4. /\ Node(a).declares /\ Len(P[a]) = 2 /\ P[a][2] # 0 /\ parts[v] = <<P[a][2]>>
    BY <2>1, <2>2, <2>3 DEF NewNode, NULL
  <2>5. P[a][2] \notin program.wrong /\ a \notin program.wrong /\ Origin(v) = a
    <3>1. parts[v][1] = P[a][2]
      BY <2>4
    <3>2. P[a][2] \notin program.wrong
      BY <3>1 DEF Right
    <3>3. a \notin program.wrong
      BY <2>2, <1>2
    <3> QED
      BY <3>2, <3>3, <2>2, <1>0, Origins
  <2>6. a \notin Unreturning
    BY <2>3, <1>0, ProgramIsTree DEF Unreturning, Nodes, Kind
  <2>7. Node(a).stmts = 0 /\ P[a] \in Seq(N \union {0})
    BY <2>3, <1>0, StatementFacts, ProgramIsTree
  <2>8. \A i \in DOMAIN P[a] : i \in {1, 2} /\ i > Node(a).stmts
    BY <2>4, <2>7
  <2>9. \A i \in DOMAIN P[a] : P[a][i] # 0 => Clean(P[a][i])
    BY <2>3, <2>4, <2>5, <2>8, <1>0, ExprsAreClean
  <2> QED
    BY <2>3, <2>5, <2>6, <2>9, <1>0, CleanParts
<1> QED
  BY <1>1, <1>2

\* The end of a statement with statements below it.
LEMMA CompoundIsClean ==
  ASSUME TreeInv, NEW n, n = Len(calls), calls # <<>>, Judged(n),
         NEW t, t = calls[n], NEW x, x = t.id,
         t.does = "check", t.ok, Kind(x) \in Compound, t.turn > Analysed(x),
         x \notin program.wrong, x \notin Unreturning
  PROVE  Clean(x) /\ x \in N /\ Origin(x) = x
<1>0. /\ program \in Programs /\ Types /\ Pointers /\ n \in 1 .. Len(calls) /\ n \in Nat
      /\ x \in DOMAIN parts /\ t.turn \in Nat /\ Running(n)
  <2>1. n \in 1 .. Len(calls) /\ n \in Nat
    BY CallsAreNumbered
  <2> QED
    BY <2>1, CallsAreNumbered DEF TreeInv, Walks, Live
<1>1. x \in N /\ program.parsed = "ok"
  BY <1>0, CompoundsAreOld DEF Running
<1>2. /\ Node(x).stmts \in Nat /\ P[x] \in Seq(N \union {0})
      /\ Kind(x) = "IF" => Node(x).stmts = 2
      /\ Kind(x) \in {"WHILE", "CLOSURE"} => Node(x).stmts = 1
      /\ Kind(x) \in {"BLOCK", "SCOPE", "STRUCT", "FN"} => Node(x).stmts = Len(P[x])
  BY <1>0, <1>1, StatementFacts, ProgramIsTree
<1>3. Kind(x) = "IF" => parts[x][2] = P[x][2]
  BY <1>0, <1>1 DEF Pointers, NodeStands
<1>4. ASSUME NEW i \in DOMAIN P[x], P[x][i] # 0
      PROVE  Clean(P[x][i])
  <2>1. CASE i <= Analysed(x)
    <3>1. i \in 1 .. t.turn - 1
      BY <2>1, <1>0, <1>2, <1>4 DEF Analysed
    <3> QED
      BY <3>1, <1>0, <1>1, <1>4 DEF Judged, NULL
  <2>2. CASE i > Analysed(x) /\ i <= Node(x).stmts
    <3>1. Kind(x) = "IF" /\ parts[x][2] = 0 /\ i = 2
      BY <2>2, <1>2, <1>4 DEF Analysed, Kind, NULL
    <3> QED
      BY <3>1, <1>3, <1>4
  <2>3. CASE i > Node(x).stmts
    <3>1. Kind(x) \in {"IF", "WHILE", "CLOSURE"}
      BY <2>3, <1>0, <1>1, <1>2, <1>4 DEF Compound
    <3>2. t.turn > 1
      BY <3>1, <1>0, <1>2 DEF Analysed, Kind
    <3>3. Right(ExprsOf(x))
      <4>1. Right(Header(x))
        BY <3>2, <1>0, <1>1 DEF Judged
      <4> QED
        BY <4>1 DEF Right, Header
    <3> QED
      BY <2>3, <3>1, <3>3, <1>0, <1>1, <1>4, HeaderIsClean
  <2>4. Analysed(x) \in Nat /\ i \in Nat
    BY <1>2, <1>4 DEF Analysed
  <2> QED
    BY <2>1, <2>2, <2>3, <2>4, <1>2
<1>5. Kind(x) # "RETURN"
  BY DEF Compound
<1> QED
  BY <1>0, <1>1, <1>4, <1>5, CleanParts, Origins

\* What the innermost analysis has been through is not gone, if nothing was wrong.
LEMMA NothingIsGone ==
  ASSUME TreeInv, Nulled, calls # <<>>, NEW n, n = Len(calls), NEW t, t = calls[n],
         t.does = "check", t.ok, t.id \in N,
         NEW y \in Live, y \in N,
         y = t.id \/ \E i \in DOMAIN P[t.id] : y = P[t.id][i],
         NEW j \in DOMAIN P[y], P[y][j] # 0
  PROVE  parts[y][j] # 0
<1>0. /\ program \in Programs /\ n \in 1 .. Len(calls) /\ n \in Nat
  <2>1. n \in 1 .. Len(calls) /\ n \in Nat
    BY CallsAreNumbered
  <2> QED
    BY <2>1, CallsAreNumbered
<1> SUFFICES ASSUME parts[y][j] = 0 PROVE FALSE
  OBVIOUS
<1>1. PICK k \in 1 .. Len(calls) : calls[k].id = y /\ (calls[k].does = "free" \/ ~calls[k].ok)
  BY DEF Nulled, NULL
<1>2. k # n /\ k < n /\ k \in 1 .. Len(calls) - 1
  BY <1>0, <1>1
<1>3. Called(k) /\ y \in Live /\ calls[k].turn \in Nat \ {0} /\ parts[y] \in Seq(Int)
  BY <1>1, <1>2, CallsAreNumbered DEF TreeInv, Walks
<1> PICK m : m = calls[k].turn
  OBVIOUS
<1>4. parts[y][m] # 0 /\ m \in DOMAIN parts[y]
  BY <1>1, <1>3 DEF Called, NULL
<1>5. Under(Origin(parts[y][m])) \subseteq Under(Origin(y))
  BY <1>3, <1>4, PartsAreBelow DEF TreeInv
<1>6. Origin(t.id) \in Under(Origin(parts[y][m])) /\ t.id # y
  BY <1>0, <1>1, <1>2 DEF TreeInv, Walks, Nested
<1>7. Origin(t.id) = t.id /\ Origin(y) = y
  BY <1>0, Origins
<1>8. t.id \in Under(y)
  BY <1>5, <1>6, <1>7
<1>9. PICK i \in DOMAIN P[t.id] : y = P[t.id][i]
  BY <1>6
<1>10. y # 0
  BY <1>0, ProgramIsTree
<1> QED
  BY <1>0, <1>8, <1>9, <1>10, ProgramIsTree

\* The end of a function: its body, and what comes last there.
LEMMA FunctionEnds ==
  ASSUME TreeInv, Nulled, calls # <<>>, NEW n, n = Len(calls), NEW t, t = calls[n],
         t.does = "check", t.ok, NEW f, f = t.id, Kind(f) = "FN",
         NEW body, body = Last(parts[f]), NEW y, y = Body(f)
  PROVE  /\ f \in N /\ y \in N /\ parts[f] # <<>>
         /\ Kind(body) \in {"BLOCK", "RETURN"} => body = y
         /\ body # y => Kind(y) = "ASSIGNMENT"
         /\ body = y /\ Kind(y) = "BLOCK" =>
              /\ parts[y] = <<>> <=> P[y] = <<>>
              /\ parts[y] # <<>> => /\ Last(P[y]) \in N
                                    /\ \/ Last(parts[y]) = Last(P[y])
                                       \/ /\ Kind(Last(P[y])) = "ASSIGNMENT"
                                          /\ Kind(Last(parts[y])) = "VAR"
<1>0. /\ program \in Programs /\ Types /\ Pointers /\ n \in 1 .. Len(calls) /\ n \in Nat
      /\ f \in DOMAIN parts /\ f \in Live /\ Running(n)
  <2>1. n \in 1 .. Len(calls) /\ n \in Nat
    BY CallsAreNumbered
  <2> QED
    BY <2>1, CallsAreNumbered DEF TreeInv, Walks, Live
<1>1. f \in N /\ program.parsed = "ok"
  BY <1>0, CompoundsAreOld DEF Running, Compound
<1> PICK L : L = Len(P[f])
  OBVIOUS
<1>2. /\ L \in Nat /\ L > 0 /\ Len(parts[f]) = L /\ L \in DOMAIN P[f] /\ L \in DOMAIN parts[f] /\ P[f] \in Seq(N \union {0})
      /\ P[f][L] # 0 /\ P[f][L] \in N
  <2>1. P[f] \in Seq(N \union {0}) /\ Len(parts[f]) = L /\ DOMAIN parts[f] = DOMAIN P[f]
    BY <1>0, <1>1, PartsAreAsMany
  <2>2. L > 0
    BY <1>0, <1>1, StatementFacts
  <2>3. L \in DOMAIN P[f] /\ L \in Nat
    BY <2>1, <2>2
  <2>4. P[f][L] # 0
    BY <2>3, <1>0, <1>1, StatementFacts
  <2> QED
    BY <2>1, <2>2, <2>3, <2>4, <1>0, <1>1, ProgramIsTree
<1>3. body = parts[f][L] /\ y = P[f][L] /\ parts[f] # <<>>
  BY <1>2 DEF Last, Body, P
<1>4. ASSUME NEW x \in N, x \in Live, Kind(x) \in {"FN", "BLOCK"}, x = f \/ \E i \in DOMAIN P[f] : x = P[f][i],
             NEW j \in DOMAIN P[x], P[x][j] # 0
      PROVE  parts[x][j] = P[x][j] \/ (parts[x][j] = -P[x][j] /\ Kind(P[x][j]) = "ASSIGNMENT" /\ Kind(parts[x][j]) = "VAR")
  <2>1. parts[x][j] # 0
    BY ZenonT(30), <1>1, <1>4, NothingIsGone
  <2>2. parts[x] = P[x] \/ PartStands(x, j)
    BY <1>0, <1>4 DEF Pointers, NodeStands
  <2>3. parts[x][j] = -P[x][j] /\ Kind(P[x][j]) = "ASSIGNMENT" => Kind(parts[x][j]) = "VAR"
    <3>1. P[x][j] \in N
      BY <1>0, <1>4, ProgramIsTree
    <3> QED
      BY <3>1, <1>0, NewNodes
  <2> QED
    BY <2>1, <2>2, <2>3, <1>4 DEF PartStands, Stands, NULL
<1>5. body = y \/ (Kind(y) = "ASSIGNMENT" /\ Kind(body) = "VAR")
  BY <1>0, <1>1, <1>2, <1>3, <1>4
<1>6. ASSUME body = y, Kind(y) = "BLOCK"
      PROVE  /\ parts[y] = <<>> <=> P[y] = <<>>
             /\ parts[y] # <<>> => /\ Last(P[y]) \in N
                                   /\ \/ Last(parts[y]) = Last(P[y])
                                      \/ /\ Kind(Last(P[y])) = "ASSIGNMENT"
                                         /\ Kind(Last(parts[y])) = "VAR"
  <2>1. y \in Live
    <3>1. ~Passed(f, L)
      <4>1. \A k \in 1 .. Len(calls) : calls[k].id = f => k = n
        BY <1>0 DEF TreeInv, Walks, Nested
      <4> QED
        BY <4>1, <1>0 DEF Passed
    <3>2. parts[f][L] # NULL
      BY <1>2, <1>3, <1>6 DEF NULL
    <3> QED
      BY ZenonT(30), <3>1, <3>2, <1>0, <1>2, <1>3, <1>6 DEF TreeInv, Whole
  <2>2. P[y] \in Seq(N \union {0}) /\ parts[y] \in Seq(Int) /\ Len(parts[y]) = Len(P[y]) /\ y \in N
    <3>1. y \in N
      BY <1>2, <1>3
    <3> QED
      BY <3>1, <1>0, PartsAreAsMany DEF Types
  <2>3. parts[y] = <<>> <=> P[y] = <<>>
    BY <2>2
  <2>4. ASSUME parts[y] # <<>>
        PROVE  /\ Last(P[y]) \in N
               /\ \/ Last(parts[y]) = Last(P[y])
                  \/ /\ Kind(Last(P[y])) = "ASSIGNMENT"
                     /\ Kind(Last(parts[y])) = "VAR"
    <3> PICK l : l = Len(P[y])
      OBVIOUS
    <3>1. l \in DOMAIN P[y] /\ Last(P[y]) = P[y][l] /\ Last(parts[y]) = parts[y][l]
      BY <2>2, <2>4 DEF Last
    <3>2. P[y][l] # 0 /\ P[y][l] \in N
      <4>1. P[y][l] # 0
        BY <3>1, <2>2, <1>0, <1>1, <1>6, StatementFacts
      <4> QED
        BY <3>1, <4>1, <2>2, <1>0, ProgramIsTree
    <3>3. y = P[f][L] /\ L \in DOMAIN P[f] /\ Kind(y) = "BLOCK"
      BY <1>2, <1>3, <1>6
    <3>4. \/ parts[y][l] = P[y][l]
          \/ parts[y][l] = -P[y][l] /\ Kind(P[y][l]) = "ASSIGNMENT" /\ Kind(parts[y][l]) = "VAR"
      <4>1. y \in N /\ Kind(y) \in {"FN", "BLOCK"} /\ \E i \in DOMAIN P[f] : y = P[f][i]
        BY <3>3, <2>2
      <4> QED
        BY ONLY <4>1, <3>1, <3>2, <2>1, <1>4
    <3> QED
      BY SMTT(30), <3>1, <3>2, <3>4
  <2> QED
    BY <2>3, <2>4
<1> QED
  BY <1>1, <1>2, <1>3, <1>5, <1>6

-----------------------------------------------------------------------------
(* Every step is one of these, or ends the process.                        *)

Effect == \/ \E d, p : Calls1(d, p)
          \/ \E c : GoesOn(c)
          \/ ConstructVariable
          \/ Declare
          \/ \E s : HandsBack(s)
          \/ Ends

\* The shapes with which something is freed twice.
Shapes == \/ \E id \in Nodes({"IF"}) : program.parts[id][2] # NULL
          \/ Parameters \intersect program.wrong # {}
          \/ \E f \in Unreturning : program.parts[Body(f)] = <<>>

Goes == \/ gone' = "" /\ Effect
        \/ /\ gone' # "" /\ parts' = parts /\ freed' = freed /\ calls' = calls
           /\ gone' = "wild" => Shapes

LEMMA TopFacts ==
  ASSUME TreeInv, calls # <<>>, gone = ""
  PROVE  /\ program \in Programs /\ Types /\ Pointers
         /\ Len(calls) \in Nat /\ Len(calls) > 0 /\ Len(calls) \in 1 .. Len(calls)
         /\ Top = calls[Len(calls)] /\ Top \in Calls /\ Top.id \in Live /\ Top.id \in DOMAIN parts
         /\ Top.turn \in Nat /\ Top.turn > 0 /\ Top.ok \in BOOLEAN
         /\ Top.does \in {"check", "declare", "free"}
         /\ Running(Len(calls)) /\ Ahead(Len(calls)) /\ Behind(Len(calls))
         /\ This.k = Kind(Top.id)
         /\ Top.does # "free" => program.parsed = "ok"
         /\ Kind(Top.id) \in Compound => Top.id \in N
<1>1. Len(calls) \in Nat /\ Len(calls) > 0 /\ Top = calls[Len(calls)]
  BY CallsAreNumbered
<1>2. Len(calls) \in 1 .. Len(calls)
  <2> PICK n : n = Len(calls)
    OBVIOUS
  <2>1. n \in Nat /\ n > 0
    BY <1>1
  <2>2. n \in 1 .. n
    BY ONLY <2>1
  <2> QED
    BY <2>2
<1>3. Running(Len(calls)) /\ Ahead(Len(calls)) /\ Behind(Len(calls))
  BY <1>2 DEF TreeInv, Walks
<1>4. Top.id \in Live /\ Top \in Calls /\ Top.turn \in Nat /\ Top.turn > 0 /\ Top.does \in {"check", "declare", "free"}
  BY <1>1, <1>2, CallsAreNumbered
<1>5. Top.ok \in BOOLEAN
  BY <1>4 DEF Calls
<1>6. Top.does # "free" => program.parsed = "ok"
  BY <1>1, <1>3 DEF Running
<1>7. Top.id \in DOMAIN parts
  BY <1>4 DEF Live
<1>8. This.k = Kind(Top.id)
  BY DEF This, Kind
<1>9. program \in Programs /\ Types /\ Pointers
  BY CallsAreNumbered DEF TreeInv
<1>10. Kind(Top.id) \in Compound => Top.id \in N
  BY <1>7, <1>9, CompoundsAreOld
<1> QED
  BY <1>1, <1>2, <1>3, <1>4, <1>5, <1>6, <1>7, <1>8, <1>9, <1>10

LEMMA RootIsBlock ==
  ASSUME TreeInv, calls # <<>>, program.parsed = "ok", Len(calls) = 1
  PROVE  Kind(Top.id) = "BLOCK"
<1>1. program \in Programs /\ Top.id = program.head
  BY CallsAreNumbered DEF TreeInv, Walks, Top
<1>2. program.node[program.head].k = "BLOCK"
  BY <1>1, ProgramsAssumption DEF IsProgram
<1> QED
  BY <1>1, <1>2, ProgramIsTree DEF Kind

LEMMA ParameterFacts ==
  ASSUME TreeInv, calls # <<>>, gone = "", Top.does = "check", IsParameter
  PROVE  /\ Kind(Top.id) = "VAR" /\ Top.id \in N /\ Top.id \in Parameters
         /\ Top.ok /\ P[Top.id] = << 0 >>
<1> PICK k : k = Len(calls) - 1
  OBVIOUS
<1>0. /\ program \in Programs /\ program.parsed = "ok"
      /\ k \in 1 .. Len(calls) - 1 /\ k \in 1 .. Len(calls) /\ k + 1 = Len(calls)
      /\ Caller = calls[k] /\ Top = calls[k + 1] /\ Top.id \in DOMAIN parts
  <2> PICK n : n = Len(calls)
    OBVIOUS
  <2>1. n \in Nat /\ Top = calls[n] /\ Top.id \in DOMAIN parts /\ program \in Programs /\ program.parsed = "ok"
    BY TopFacts
  <2>2. n > 1
    BY DEF IsParameter
  <2>3. k \in 1 .. n - 1 /\ k \in 1 .. n /\ k + 1 = n
    BY ONLY <2>1, <2>2, k = n - 1
  <2> QED
    BY <2>1, <2>3 DEF Caller
<1> PICK f : f = calls[k].id
  OBVIOUS
<1> PICK i : i = calls[k].turn
  OBVIOUS
<1>1. calls[k].does = "check"
  <2>1. Called(k)
    BY <1>0 DEF TreeInv, Walks
  <2> QED
    BY <2>1, <1>0 DEF Called
<1>2. /\ f \in N /\ i \in DOMAIN P[f] /\ P[f][i] \in N /\ P[f][i] # 0
      /\ \/ Top.id = P[f][i]
         \/ Top.id = -P[f][i] /\ Kind(P[f][i]) = "ASSIGNMENT"
  BY <1>0, <1>1, AnalysesGoDown
<1>3. Kind(f) = "FN" /\ i < Node(f).stmts /\ Node(f) = program.node[f] /\ Node(f).stmts = Len(P[f]) /\ P[f] \in Seq(N \union {0})
  BY <1>0, <1>2, StatementFacts, ProgramIsTree DEF IsParameter, Kind
<1>4. P[f][i] \in Range(Front(P[f]))
  <2> PICK s : s = P[f]
    OBVIOUS
  <2>0. s \in Seq(N \union {0}) /\ i \in DOMAIN s /\ i < Len(s)
    BY <1>2, <1>3
  <2>1. i \in 1 .. Len(s) - 1
    BY ONLY <2>0
  <2>2. i \in DOMAIN Front(s) /\ Front(s)[i] = s[i]
    BY ONLY <2>1 DEF Front
  <2> QED
    BY <2>2 DEF Range
<1>5. program.node[P[f][i]].k = "VAR" /\ P[P[f][i]] = << 0 >>
  <2>1. IsStatement(program, f)
    BY <1>0, <1>2, ProgramsAssumption DEF IsProgram, N
  <2> QED
    BY <2>1, <1>3, <1>4 DEF IsStatement, Kind, P, NULL
<1>6. Kind(P[f][i]) = "VAR" /\ Top.id = P[f][i]
  BY <1>0, <1>2, <1>5, ProgramIsTree DEF Kind
<1>7. Top.id \in Parameters
  <2>1. f \in Nodes({"FN"})
    BY <1>2, <1>3 DEF Nodes, N, Kind
  <2> QED
    BY <2>1, <1>4, <1>6 DEF Parameters, P
<1>8. Top.ok
  <2>1. Running(k + 1)
    BY <1>0, TopFacts
  <2> QED
    BY <2>1, <1>0, <1>2, <1>6 DEF Running, Compound
<1> QED
  BY <1>2, <1>5, <1>6, <1>7, <1>8

\* What an analysis makes of its findings.
LEMMA SanitizeGoes ==
  ASSUME TreeInv, calls # <<>>, gone = "", Top.does = "check",
         NEW ok \in BOOLEAN, Sanitize(ok),
         ok => Len(calls) > 1 /\ Top.ok /\ Clean(Origin(Top.id)),
         ~ok => Kind(Top.id) # "FN" /\ (Top.ok => program.wrong # {}),
         ~ok /\ IsParameter => Shapes
  PROVE  Goes
<1>1. CASE ok
  <2>1. HandsBack(Top.id) /\ gone' = ""
    BY <1>1 DEF Sanitize, HandsBack
  <2> QED
    BY <2>1 DEF Goes, Effect
<1>2. CASE ~ok /\ ~IsParameter
  <2> PICK c : c = Call("free", Top.id, TRUE)
    OBVIOUS
  <2>1. c \in Calls /\ c.id = Top.id /\ c.does = "free" /\ c.turn = 1
    <3> PICK x : x = Top.id
      OBVIOUS
    <3>1. x \in Int
      BY TopFacts DEF Calls
    <3>2. c = [does |-> "free", id |-> x, turn |-> 1, ok |-> TRUE]
      BY DEF Call
    <3>3. c \in [does : {"check", "declare", "free"}, id : Int, turn : Nat \ {0}, ok : BOOLEAN]
      BY ONLY <3>1, <3>2
    <3>4. c \in Calls
      BY ONLY <3>3 DEF Calls
    <3>5. c.id = x /\ c.does = "free" /\ c.turn = 1
      BY ONLY <3>2
    <3> QED
      BY <3>4, <3>5
  <2>2. gone' = "" /\ calls' = [calls EXCEPT ![Len(calls)] = c] /\ parts' = parts /\ freed' = freed
    BY <1>2 DEF Sanitize, Continue
  <2>3. GoesOn(c)
    BY <2>1, <2>2, <1>2 DEF GoesOn
  <2> QED
    BY <2>2, <2>3 DEF Goes, Effect
<1>3. CASE ~ok /\ IsParameter
  BY <1>3 DEF Sanitize, Stop, Goes
<1> QED
  BY <1>1, <1>2, <1>3

LEMMA WrongIsOld ==
  ASSUME program \in Programs, program.parsed = "ok"
  PROVE  /\ program.wrong \subseteq N
         /\ \A x \in program.wrong : Kind(x) \notin {"FN", "BLOCK", "SCOPE", "STRUCT", "UNION", "NATIVE_FN"}
<1>1. \A x \in program.wrong : /\ x \in N
                               /\ program.node[x].k \in {"EXPR", "VAR", "ASSIGNMENT", "IF", "WHILE", "CLOSURE", "RETURN", "CALL"}
  BY ProgramsAssumption DEF IsProgram, N
<1>2. \A x \in program.wrong : Kind(x) = program.node[x].k
  BY <1>1, ProgramIsTree DEF Kind
<1> QED
  BY <1>1, <1>2

LEMMA StatementsAreOld ==
  ASSUME Types, Pointers, NEW x \in DOMAIN parts, Kind(x) \notin {"VAR", "EXPR"}
  PROVE  x \in N
<1> SUFFICES ASSUME x \notin N
             PROVE  FALSE
  OBVIOUS
<1>1. -x \in N
  BY DEF Pointers, NewNode
<1>2. x \in Int
  BY DEF Types
<1>3. -(-x) = x
  BY <1>2
<1>4. Kind(-(-x)) \in {"VAR", "EXPR"}
  BY <1>1, NewNodes DEF Types
<1> QED
  BY <1>3, <1>4

LEMMA VariableGoes ==
  ASSUME TreeInv, VerdictInv, program' = program, AnalyzeVariable
  PROVE  Goes
<1>0. calls # <<>> /\ gone = "" /\ Top.does = "check" /\ This.k = "VAR"
  BY DEF AnalyzeVariable, Runs
<1> PICK n : n = Len(calls)
  OBVIOUS
<1> PICK t : t = calls[n]
  OBVIOUS
<1> PICK v : v = t.id
  OBVIOUS
<1>1. /\ program \in Programs /\ program.parsed = "ok" /\ Types /\ Pointers
      /\ n \in Nat /\ n > 0 /\ n \in 1 .. n /\ Top = t /\ v \in Live /\ t.ok \in BOOLEAN /\ Kind(v) = "VAR"
  BY <1>0, TopFacts
<1>2. n > 1
  <2>1. n # 1
    BY <1>0, <1>1, RootIsBlock
  <2> QED
    BY <2>1, <1>1
<1> PICK e : e = parts[v][1]
  OBVIOUS
<1> DEFINE fine == t.ok /\ Right({v, e})
<1>3. Parts[1] = e
  BY <1>1 DEF Parts
<1>4. CASE This.type = "inferred" /\ ~Right({Parts[1]}) /\ Stop("crash")
  BY <1>4 DEF Stop, Goes
<1>5. CASE Sanitize(fine)
  <2>1. CASE fine
    <3>1. Sanitize(TRUE)
      BY <1>5, <2>1 DEF Sanitize
    <3>2. v \notin N => -v \notin program.wrong
      <4>1. Judged(n)
        BY <1>1 DEF VerdictInv
      <4> QED
        BY <4>1, <2>1, <1>0, <1>1 DEF Judged
    <3>3. Clean(Origin(v))
      BY <3>2, <2>1, <1>1, VariableIsClean
    <3> QED
      BY <3>1, <3>3, <2>1, <1>0, <1>1, <1>2, SanitizeGoes
  <2>2. CASE ~fine
    <3>1. Sanitize(FALSE)
      BY <1>5, <2>2 DEF Sanitize
    <3>2. t.ok => program.wrong # {}
      BY <2>2 DEF Right
    <3>3. IsParameter => Shapes
      <4> SUFFICES ASSUME IsParameter
                   PROVE  Shapes
        OBVIOUS
      <4>1. v \in N /\ v \in Parameters /\ t.ok /\ P[v] = << 0 >>
        BY <1>0, <1>1, ParameterFacts
      <4>2. e \in {0, -v}
        <5>1. NodeStands(v)
          BY <4>1, <1>1 DEF Pointers
        <5>2. parts[v] = << 0 >> \/ parts[v] = <<-v>>
          BY <5>1, <4>1, <1>1 DEF NodeStands, Compound
        <5> QED
          BY <5>2
      <4>3. e \notin program.wrong
        <5>1. 0 \notin N /\ -v \notin N
          BY <4>1, <1>1, ProgramIsTree, NewNodes
        <5> QED
          BY <5>1, <4>2, <1>1, WrongIsOld
      <4>4. v \in program.wrong
        BY <4>1, <4>3, <2>2 DEF Right
      <4> QED
        BY <4>1, <4>4 DEF Shapes
    <3> QED
      BY <3>1, <3>2, <3>3, <1>0, <1>1, SanitizeGoes
  <2> QED
    BY <2>1, <2>2
<1> QED
  BY <1>0, <1>1, <1>3, <1>4, <1>5 DEF AnalyzeVariable

\* A statement that is not a variable is no parameter.
LEMMA NoParameter ==
  ASSUME TreeInv, calls # <<>>, gone = "", Top.does = "check", Kind(Top.id) # "VAR"
  PROVE  ~IsParameter
BY ParameterFacts

LEMMA RightWhenTyped ==
  ASSUME Typed
  PROVE  /\ Right({Top.id}) \in BOOLEAN
         /\ Right({Top.id}) <=> Right({Top.id} \union ExprsOf(Top.id))
BY DEF Typed, Right

LEMMA SimpleSanitizeGoes ==
  ASSUME TreeInv, VerdictInv, program' = program, calls # <<>>, gone = "", Top.does = "check",
         Kind(Top.id) \in {"ASSIGNMENT", "RETURN", "CALL"},
         Kind(Top.id) = "RETURN" => Parts # <<NULL>>,
         NEW fine \in BOOLEAN, Sanitize(fine), fine <=> Right({Top.id} \union ExprsOf(Top.id))
  PROVE  Goes
<1> PICK n : n = Len(calls)
  OBVIOUS
<1> PICK t : t = calls[n]
  OBVIOUS
<1> PICK x : x = t.id
  OBVIOUS
<1>1. /\ program \in Programs /\ program.parsed = "ok" /\ Types /\ Pointers /\ Running(n)
      /\ n \in Nat /\ n > 0 /\ n \in 1 .. n /\ Top = t /\ x \in Live /\ x \in DOMAIN parts
      /\ Kind(x) \in {"ASSIGNMENT", "RETURN", "CALL"}
  BY TopFacts
<1>2. n > 1
  <2>1. n = 1 => Kind(x) = "BLOCK"
    BY <1>1, RootIsBlock
  <2>2. Kind(x) # "BLOCK"
    BY ONLY <1>1
  <2>3. n # 1
    BY <2>1, <2>2
  <2> QED
    BY ONLY <2>3, <1>1
<1>3. x \in N
  BY <1>1, StatementsAreOld
<1>4. t.ok
  BY <1>1, <1>3 DEF Running, Compound
<1>5. ~IsParameter
  BY <1>1, NoParameter
<1>6. CASE fine
  <2>1. Sanitize(TRUE)
    BY <1>6, <1>1 DEF Sanitize
  <2>2. Clean(x)
    <3>1. Kind(x) \notin Compound /\ Kind(x) # "VAR"
      BY <1>1 DEF Compound
    <3>2. Kind(x) = "RETURN" => P[x] # << 0 >>
      BY <3>1, <1>1, <1>3, SimpleParts DEF Parts, NULL
    <3> QED
      BY <3>1, <3>2, <1>6, <1>1, <1>3, SimpleIsClean
  <2>3. Origin(x) = x
    BY <1>1, <1>3, Origins
  <2> QED
    BY <2>1, <2>2, <2>3, <1>1, <1>2, <1>4, SanitizeGoes
<1>7. CASE ~fine
  <2>1. Sanitize(FALSE)
    BY <1>7, <1>1 DEF Sanitize
  <2>2. program.wrong # {} /\ Kind(x) # "FN"
    BY <1>7, <1>1 DEF Right
  <2> QED
    BY <2>1, <2>2, <1>1, <1>5, SanitizeGoes
<1> QED
  BY <1>6, <1>7

\* What TYPE_CHECK gives up is one of Untyped.
LEMMA GivenUpIsUntyped ==
  ASSUME Types, Pointers, program.parsed = "ok", NEW x \in N,
         Kind(x) \in {"ASSIGNMENT", "RETURN"} \union Compound,
         Kind(x) = "ASSIGNMENT" => ~Node(x).declares,
         ~Right(ExprsOf(x))
  PROVE  x \in Untyped /\ Kind(x) # "BLOCK"
<1>1. program \in Programs
  BY DEF Types
<1>2. PICK i \in Node(x).stmts + 1 .. Len(parts[x]) : parts[x][i] \in program.wrong
  BY DEF Right, ExprsOf
<1>3. /\ Node(x) = program.node[x] /\ Node(x).stmts \in Nat
      /\ P[x] \in Seq(N \union {0}) /\ Len(parts[x]) = Len(P[x])
  <2>1. Node(x) = program.node[x] /\ Node(x).stmts \in 0 .. Len(P[x])
    BY <1>1, ProgramIsTree
  <2>2. P[x] \in Seq(N \union {0}) /\ Len(parts[x]) = Len(P[x])
    BY PartsAreAsMany
  <2>3. Node(x).stmts \in Nat
    BY <2>1, <2>2
  <2> QED
    BY <2>1, <2>2, <2>3
<1>4. i \in Nat /\ i > Node(x).stmts /\ i <= Len(P[x]) /\ i \in DOMAIN P[x]
  <2> PICK s : s = P[x]
    OBVIOUS
  <2>1. s \in Seq(N \union {0}) /\ Len(s) \in Nat /\ i \in Node(x).stmts + 1 .. Len(s)
    BY <1>2, <1>3
  <2>2. i \in Nat /\ i > Node(x).stmts /\ i <= Len(s) /\ i \in DOMAIN s
    BY <2>1, <1>3
  <2> QED
    BY <2>2
<1>5. P[x][i] \in program.wrong
  <2>1. Kind(x) # "VAR"
    BY DEF Compound
  <2> QED
    BY <2>1, <1>2, <1>4, ExprsStay
<1>6. Kind(x) \in {"ASSIGNMENT", "IF", "WHILE", "RETURN"}
  <2>1. Len(P[x]) # Node(x).stmts
    BY <1>3, <1>4
  <2>2. Kind(x) \notin {"BLOCK", "SCOPE", "STRUCT", "FN"}
    BY <2>1, <1>1, StatementFacts
  <2>3. Kind(x) # "CLOSURE"
    BY <2>1, <1>1, StatementFacts
  <2> QED
    BY <2>2, <2>3 DEF Compound
<1>7. x \in Nodes({"ASSIGNMENT", "IF", "WHILE", "RETURN"})
  BY <1>3, <1>6 DEF Nodes, N, Kind
<1>8. program.node[x].k = "ASSIGNMENT" => ~program.node[x].declares
  BY <1>3 DEF Kind
<1>9. i \in program.node[x].stmts + 1 .. Len(program.parts[x]) /\ program.parts[x][i] \in program.wrong
  BY <1>3, <1>4, <1>5 DEF P
<1> QED
  BY <1>6, <1>7, <1>8, <1>9 DEF Untyped

LEMMA TypeCheckGoes ==
  ASSUME TreeInv, program' = program, calls # <<>>, gone = "", Top.does = "check",
         Kind(Top.id) \in {"ASSIGNMENT", "RETURN"} \union Compound,
         Kind(Top.id) = "ASSIGNMENT" => ~This.declares,
         TypeCheck
  PROVE  Goes
<1> PICK n : n = Len(calls)
  OBVIOUS
<1> PICK x : x = Top.id
  OBVIOUS
<1>1. /\ program \in Programs /\ program.parsed = "ok" /\ Types /\ Pointers
      /\ n \in Nat /\ n > 0 /\ x \in DOMAIN parts
      /\ Kind(x) \in {"ASSIGNMENT", "RETURN"} \union Compound
  BY TopFacts
<1>2. x \in N
  BY <1>1, StatementsAreOld DEF Compound
<1>3. ~Right(ExprsOf(x)) /\ (Kind(x) = "ASSIGNMENT" => ~Node(x).declares)
  BY DEF TypeCheck, Typed, This
<1>4. x \in Untyped /\ Kind(x) # "BLOCK"
  BY <1>1, <1>2, <1>3, GivenUpIsUntyped
<1>5. n > 1
  <2>1. n # 1
    BY <1>1, <1>4, RootIsBlock
  <2> QED
    BY ONLY <2>1, <1>1
<1>6. HandsBack(NULL) /\ gone' = ""
  BY <1>4, <1>5 DEF HandsBack, Forgets, TypeCheck
<1> QED
  BY <1>6 DEF Goes, Effect

LEMMA AssignmentGoes ==
  ASSUME TreeInv, VerdictInv, program' = program, AnalyzeAssignment
  PROVE  Goes
<1>0. calls # <<>> /\ gone = "" /\ Top.does = "check" /\ This.k = "ASSIGNMENT"
  BY DEF AnalyzeAssignment, Runs
<1>1. CASE ~This.declares /\ Typed /\ Sanitize(Right({Top.id}))
  BY <1>0, <1>1, TopFacts, RightWhenTyped, SimpleSanitizeGoes
<1>3. CASE ~This.declares /\ TypeCheck
  BY <1>0, <1>3, TopFacts, TypeCheckGoes
<1>2. CASE This.declares /\ Continue([Top EXCEPT !.does = "declare"]) /\ UNCHANGED <<parts, freed, gone>>
  <2> PICK n : n = Len(calls)
    OBVIOUS
  <2> PICK t : t = calls[n]
    OBVIOUS
  <2> PICK c : c = [t EXCEPT !.does = "declare"]
    OBVIOUS
  <2>1. /\ program \in Programs /\ program.parsed = "ok" /\ Types /\ Pointers /\ Running(n)
        /\ Top = t /\ t \in Calls /\ t.id \in Live /\ t.id \in DOMAIN parts /\ Kind(t.id) = "ASSIGNMENT"
    BY <1>0, TopFacts
  <2>2. t.id \in N
    BY <2>1, StatementsAreOld
  <2>3. t.turn = 1
    BY <2>1, <1>0 DEF Running, Compound
  <2>4. t \in [does : {"check", "declare", "free"}, id : Int, turn : Nat \ {0}, ok : BOOLEAN]
    BY <2>1 DEF Calls
  <2>5. c \in [does : {"check", "declare", "free"}, id : Int, turn : Nat \ {0}, ok : BOOLEAN]
        /\ c.id = t.id /\ c.does = "declare" /\ c.turn = t.turn
    BY ONLY <2>4, c = [t EXCEPT !.does = "declare"]
  <2>6. c \in Calls
    BY ONLY <2>5 DEF Calls
  <2>7. calls' = [calls EXCEPT ![Len(calls)] = c] /\ parts' = parts /\ freed' = freed /\ gone' = ""
    BY <1>2, <1>0, <2>1 DEF Continue
  <2>8. GoesOn(c)
    BY <2>1, <2>2, <2>3, <2>5, <2>6, <2>7, <1>0, <1>2 DEF GoesOn
  <2> QED
    BY <2>7, <2>8 DEF Goes, Effect
<1> QED
  BY <1>1, <1>2, <1>3 DEF AnalyzeAssignment

LEMMA ReturnGoes ==
  ASSUME TreeInv, VerdictInv, program' = program, AnalyzeReturn
  PROVE  Goes
<1>0. calls # <<>> /\ gone = "" /\ Top.does = "check" /\ This.k = "RETURN"
  BY DEF AnalyzeReturn, Runs
<1>1. CASE Parts # <<NULL>> /\ Typed /\ Sanitize(Right({Top.id}))
  BY <1>0, <1>1, TopFacts, RightWhenTyped, SimpleSanitizeGoes
<1>3. CASE TypeCheck
  BY <1>0, <1>3, TopFacts, TypeCheckGoes
<1>2. CASE Stop("crash")
  BY <1>2 DEF Stop, Goes
<1> QED
  BY <1>1, <1>2, <1>3 DEF AnalyzeReturn

LEMMA SimpleGoes ==
  ASSUME TreeInv, VerdictInv, program' = program, AnalyzeSimple
  PROVE  Goes
<1>0. calls # <<>> /\ gone = "" /\ Top.does = "check" /\ This.k \in {"CALL", "UNION", "NATIVE_FN"}
  BY DEF AnalyzeSimple, Runs
<1>1. CASE This.k = "CALL" /\ Sanitize(Right({Top.id} \union ExprsOf(Top.id)))
  <2>1. Right({Top.id} \union ExprsOf(Top.id)) \in BOOLEAN
    BY DEF Right
  <2> QED
    BY <2>1, <1>0, <1>1, TopFacts, SimpleSanitizeGoes
<1>2. CASE This.k \in {"UNION", "NATIVE_FN"} /\ Sanitize(TRUE)
  <2> PICK n : n = Len(calls)
    OBVIOUS
  <2> PICK t : t = calls[n]
    OBVIOUS
  <2> PICK x : x = t.id
    OBVIOUS
  <2>1. /\ program \in Programs /\ program.parsed = "ok" /\ Types /\ Pointers /\ Running(n)
        /\ n \in Nat /\ n > 0 /\ Top = t /\ x \in Live /\ x \in DOMAIN parts /\ Kind(x) \in {"UNION", "NATIVE_FN"}
    BY <1>0, <1>2, TopFacts
  <2>2. n > 1
    <3>1. n # 1
      BY <1>0, <2>1, RootIsBlock
    <3> QED
      BY <3>1, <2>1
  <2>3. x \in N
    BY <2>1, StatementsAreOld
  <2>4. t.ok
    BY <2>1, <2>3, <1>0 DEF Running, Compound
  <2>5. Clean(x)
    <3>1. x \notin program.wrong /\ x \notin Unreturning
      <4>1. Node(x) = program.node[x]
        BY <2>1, <2>3, ProgramIsTree
      <4> QED
        BY <4>1, <2>1, WrongIsOld DEF Unreturning, Nodes, Kind
    <3>2. DOMAIN P[x] = {}
      <4> PICK s : s = P[x]
        OBVIOUS
      <4>1. s \in Seq(N \union {0}) /\ Node(x).stmts = Len(s) /\ Node(x).stmts = 0
        BY <2>1, <2>3, StatementFacts, ProgramIsTree DEF Compound
      <4>2. Len(s) = 0
        BY <4>1
      <4>3. DOMAIN s = 1 .. Len(s)
        <5>1. s \in Seq(N \union {0})
          BY <4>1
        <5> QED
          BY ONLY <5>1
      <4>4. DOMAIN s = {}
        BY ONLY <4>2, <4>3
      <4> QED
        BY <4>4
    <3> QED
      BY <3>1, <3>2, <2>1, <2>3, CleanParts
  <2>6. Origin(x) = x
    BY <2>1, <2>3, Origins
  <2> QED
    BY <1>0, <1>2, <2>1, <2>2, <2>4, <2>5, <2>6, SanitizeGoes
<1> QED
  BY <1>0, <1>1, <1>2 DEF AnalyzeSimple, Runs

\* What the innermost call has before it has not been passed.
LEMMA NotPassed ==
  ASSUME TreeInv, calls # <<>>, NEW n, n = Len(calls), NEW t, t = calls[n],
         NEW i \in Nat, t.does = "check" \/ i >= t.turn
  PROVE  ~Passed(t.id, i)
<1>1. n \in Nat /\ n > 0 /\ n \in 1 .. Len(calls) /\ t.turn \in Nat
  <2>1. n \in Nat /\ n > 0
    BY CallsAreNumbered
  <2>2. n \in 1 .. n
    BY ONLY <2>1
  <2> QED
    BY <2>1, <2>2, CallsAreNumbered
<1> SUFFICES ASSUME NEW k \in 1 .. Len(calls), calls[k].id = t.id,
                    \/ calls[k].does # "check" /\ i < calls[k].turn
                    \/ calls[k].does = "check" /\ i = calls[k].turn /\ k < Len(calls)
             PROVE  FALSE
  BY DEF Passed
<1>2. k = n
  <2>1. ~(k < n)
    BY <1>1 DEF TreeInv, Walks, Nested
  <2> QED
    BY <2>1, <1>1
<1> QED
  BY <1>1, <1>2

LEMMA FreeTargetGoes ==
  ASSUME TreeInv, VerdictInv, program' = program, FreeTarget
  PROVE  Goes
<1>0. calls # <<>> /\ gone = "" /\ Top.does = "declare" /\ This.k = "ASSIGNMENT" /\ Top.turn = 1
  BY DEF FreeTarget, Runs
<1> PICK n : n = Len(calls)
  OBVIOUS
<1> PICK t : t = calls[n]
  OBVIOUS
<1> PICK a : a = t.id
  OBVIOUS
<1>1. /\ program \in Programs /\ program.parsed = "ok" /\ Types /\ Pointers /\ Running(n)
      /\ Top = t /\ a \in Live /\ a \in DOMAIN parts /\ Kind(a) = "ASSIGNMENT"
  BY <1>0, TopFacts
<1>2. a \in N
  BY <1>1, StatementsAreOld
<1>3. parts[a] = P[a] /\ Len(P[a]) = 2 /\ P[a] \in Seq(N \union {0})
  BY <1>1, <1>2, SimpleParts, StatementFacts, ProgramIsTree DEF Compound
<1>4. 1 \in DOMAIN parts[a] /\ 1 \in DOMAIN P[a]
  <2> PICK s : s = P[a]
    OBVIOUS
  <2>1. s \in Seq(N \union {0}) /\ Len(s) = 2
    BY <1>3
  <2>2. 1 \in DOMAIN s
    BY ONLY <2>1
  <2> QED
    BY <2>2, <1>3
<1> PICK p : p = parts[a][1]
  OBVIOUS
<1>5. p # 0
  BY <1>1, <1>2, <1>3, <1>4, StatementFacts
<1>6. ~Passed(a, 1)
  <2>1. t.turn = 1
    BY <1>0, <1>1
  <2>2. 1 \in Nat /\ 1 >= t.turn
    BY ONLY <2>1
  <2>3. ~Passed(t.id, 1)
    BY <1>0, <2>2, NotPassed
  <2> QED
    BY <2>3
<1>7. p \in Live
  BY <1>1, <1>4, <1>5, <1>6 DEF TreeInv, Whole, NULL
<1>8. Part = p /\ Len(Parts) = 2
  BY <1>0, <1>1, <1>3 DEF Part, Parts
<1>9. calls' = Append(calls, Call("free", p, TRUE)) /\ parts' = parts /\ freed' = freed /\ gone' = ""
  BY <1>0, <1>8 DEF FreeTarget, Enter
<1>10. Calls1("free", p)
  <2>1. Top.turn <= Len(Parts)
    <3>1. Top.turn = 1 /\ Len(Parts) = 2
      BY <1>0, <1>8
    <3> QED
      BY ONLY <3>1
  <2>2. p = Part /\ Top.does # "check"
    BY <1>0, <1>8
  <2> QED
    BY <1>0, <1>7, <2>1, <2>2, <1>9 DEF Calls1
<1> QED
  BY <1>9, <1>10 DEF Goes, Effect

LEMMA PartGoes ==
  ASSUME TreeInv, VerdictInv, program' = program, AnalyzePart
  PROVE  Goes
<1>0. calls # <<>> /\ gone = "" /\ Top.does = "check" /\ This.k \in Compound /\ Top.turn <= Analysed(Top.id)
  BY DEF AnalyzePart, Runs
<1> PICK n : n = Len(calls)
  OBVIOUS
<1> PICK t : t = calls[n]
  OBVIOUS
<1> PICK x : x = t.id
  OBVIOUS
<1> PICK m : m = t.turn
  OBVIOUS
<1>1. /\ program \in Programs /\ program.parsed = "ok" /\ Types /\ Pointers /\ Ahead(n)
      /\ Top = t /\ x \in Live /\ x \in DOMAIN parts /\ Kind(x) \in Compound /\ x \in N
      /\ m \in Nat /\ m > 0 /\ n \in Nat /\ n > 0 /\ n \in 1 .. Len(calls)
  BY <1>0, TopFacts
<1>4. CASE TypeCheck
  BY <1>0, <1>1, <1>4, TypeCheckGoes DEF Compound
<1>2. CASE m = 1 /\ Typed /\ ~Right(Header(x)) /\ Sanitize(FALSE)
  <2>1. program.wrong # {} /\ Kind(x) # "FN"
    BY <1>1, <1>2 DEF Right, Typed, Header, Kind
  <2>2. ~IsParameter
    BY <1>0, <1>1, NoParameter DEF Compound
  <2> QED
    BY <1>0, <1>1, <1>2, <2>1, <2>2, SanitizeGoes
<1>3. CASE (m = 1 => Right(Header(x))) /\ Enter(Call("check", Part, TRUE))
  <2> PICK p : p = parts[x][m]
    OBVIOUS
  <2>1. m \in DOMAIN P[x] /\ m \in DOMAIN parts[x] /\ m <= Len(parts[x])
    <3> PICK s : s = P[x]
      OBVIOUS
    <3> PICK r : r = parts[x]
      OBVIOUS
    <3>1. Len(r) = Len(s) /\ DOMAIN r = DOMAIN s
      BY <1>1, PartsAreAsMany
    <3>2. s \in Seq(N \union {0})
      BY <1>1, ProgramIsTree
    <3>3. Node(x).stmts \in 0 .. Len(s)
      BY <1>1, ProgramIsTree
    <3>4. Kind(x) = "IF" => Len(s) = 3 /\ Node(x).stmts = 2
      BY <1>1, StatementFacts
    <3>5. m <= Node(x).stmts \/ (Kind(x) = "IF" /\ m <= 1)
      BY <1>0, <1>1 DEF Analysed, Kind
    <3>6. m <= Len(s)
      <4>1. Len(s) \in Nat
        BY ONLY <3>2
      <4> QED
        BY ONLY <4>1, <3>3, <3>4, <3>5, <1>1
    <3>7. m \in DOMAIN s
      BY ONLY <3>2, <3>6, <1>1
    <3> QED
      BY <3>1, <3>6, <3>7
  <2>2. p = P[x][m] /\ (P[x][m] # NULL => Fresh(P[x][m]))
    BY <1>0, <1>1, <2>1 DEF Ahead
  <2>3. p # 0
    <3>1. p = 0 => Kind(x) \in {"VAR", "RETURN"} \/ (Kind(x) = "IF" /\ m = 2)
      <4>1. x \in N /\ m \in DOMAIN P[x] /\ p = P[x][m] /\ program \in Programs /\ program.parsed = "ok"
        BY <1>1, <2>1, <2>2
      <4> QED
        BY ONLY <4>1, StatementFacts
    <3>2. Kind(x) = "IF" /\ m = 2 => p # 0
      <4>1. m <= Analysed(x)
        BY <1>0, <1>1
      <4>2. Kind(x) = "IF" /\ parts[x][2] = NULL => Analysed(x) = 1
        BY DEF Analysed, Kind
      <4> QED
        BY <4>1, <4>2 DEF NULL
    <3> QED
      BY <3>1, <3>2, <1>1 DEF Compound
  <2>4. p \in Live
    <3>1. p \in N /\ p \in Under(p)
      BY <1>1, <2>1, <2>2, <2>3, ProgramIsTree
    <3> QED
      BY <3>1, <2>2, <2>3, <1>1 DEF Fresh, Live, Types, NULL
  <2>5. Part = p /\ Top.turn <= Len(Parts)
    BY <1>1, <2>1 DEF Part, Parts
  <2>6. calls' = Append(calls, Call("check", p, TRUE)) /\ parts' = parts /\ freed' = freed /\ gone' = ""
    BY <1>0, <1>3, <2>5 DEF Enter
  <2>7. Calls1("check", p)
    BY <1>0, <1>1, <1>3, <2>4, <2>5, <2>6 DEF Calls1
  <2> QED
    BY <2>6, <2>7 DEF Goes, Effect
<1> QED
  BY <1>1, <1>2, <1>3, <1>4 DEF AnalyzePart

LEMMA EndGoes ==
  ASSUME TreeInv, VerdictInv, program' = program, AnalyzeEnd
  PROVE  Goes
<1>0. /\ calls # <<>> /\ gone = "" /\ Top.does = "check" /\ This.k \in Compound /\ This.k # "FN"
      /\ Top.turn > Analysed(Top.id) /\ Len(calls) > 1 /\ Sanitize(Top.ok /\ Right({Top.id}))
  BY DEF AnalyzeEnd, Runs
<1> PICK n : n = Len(calls)
  OBVIOUS
<1> PICK t : t = calls[n]
  OBVIOUS
<1> PICK x : x = t.id
  OBVIOUS
<1>1. /\ program \in Programs /\ program.parsed = "ok" /\ n \in 1 .. Len(calls)
      /\ Top = t /\ Kind(x) \in Compound /\ Kind(x) # "FN" /\ x \in N
  BY <1>0, TopFacts
<1>2. ~IsParameter
  BY <1>0, <1>1, NoParameter DEF Compound
<1>3. CASE t.ok /\ Right({x})
  <2>1. Sanitize(TRUE)
    BY <1>0, <1>1, <1>3 DEF Sanitize
  <2>2. x \notin program.wrong /\ x \notin Unreturning
    <3>1. Node(x) = program.node[x]
      BY <1>1, ProgramIsTree
    <3> QED
      BY <3>1, <1>1, <1>3 DEF Right, Unreturning, Nodes, Kind
  <2>3. Judged(n)
    BY <1>1 DEF VerdictInv
  <2>4. Clean(x) /\ Origin(x) = x
    BY <1>0, <1>1, <1>3, <2>2, <2>3, CompoundIsClean
  <2> QED
    BY <2>1, <2>4, <1>0, <1>1, <1>3, SanitizeGoes
<1>4. CASE ~(t.ok /\ Right({x}))
  <2>1. Sanitize(FALSE)
    BY <1>0, <1>1, <1>4 DEF Sanitize
  <2>2. t.ok => program.wrong # {}
    BY <1>4 DEF Right
  <2> QED
    BY <2>1, <2>2, <1>0, <1>1, <1>2, SanitizeGoes
<1> QED
  BY <1>3, <1>4

LEMMA FunctionEndGoes ==
  ASSUME TreeInv, VerdictInv, program' = program, AnalyzeFunctionEnd
  PROVE  Goes
<1>0. /\ calls # <<>> /\ gone = "" /\ Top.does = "check" /\ This.k = "FN"
  BY DEF AnalyzeFunctionEnd, Runs
<1> PICK n : n = Len(calls)
  OBVIOUS
<1> PICK t : t = calls[n]
  OBVIOUS
<1> PICK f : f = t.id
  OBVIOUS
<1>1. /\ program \in Programs /\ program.parsed = "ok" /\ n \in 1 .. Len(calls) /\ n \in Nat /\ n > 0
      /\ Top = t /\ Kind(f) = "FN" /\ f \in N /\ f \in Live /\ t.does = "check"
  BY <1>0, TopFacts DEF Compound
<1>2. n > 1
  <2>1. n # 1
    BY <1>0, <1>1, RootIsBlock
  <2> QED
    BY ONLY <2>1, <1>1
<1> PICK body : body = Last(parts[f])
  OBVIOUS
<1> PICK y : y = Body(f)
  OBVIOUS
<1>3. Parts = parts[f] /\ Node(f) = This
  BY <1>1 DEF Parts, This
<1> DEFINE inBlock == Kind(body) = "BLOCK"
<1> DEFINE empty == inBlock /\ parts[body] = <<>>
<1> PICK last : last = Node(IF inBlock THEN Last(parts[body]) ELSE body)
  OBVIOUS
<1>4. /\ t.turn > Node(f).stmts
      /\ \/ ~t.ok /\ Stop("crash")
         \/ t.ok /\ Node(f).void /\ Sanitize(TRUE)
         \/ t.ok /\ ~Node(f).void /\ empty /\ Stop("wild")
         \/ /\ t.ok /\ ~Node(f).void /\ ~empty
            /\ Return(IF last.k = "RETURN" THEN f ELSE NULL) /\ UNCHANGED <<freed, gone>>
  BY <1>1, <1>3 DEF AnalyzeFunctionEnd, Kind
<1>5. Analysed(f) = Node(f).stmts
  BY <1>1 DEF Analysed, Kind
<1>6. f \notin program.wrong /\ f \in Nodes({"FN"}) /\ Node(f) = program.node[f]
  BY <1>1, WrongIsOld, ProgramIsTree DEF Nodes, N, Kind
<1>7. f \in Unreturning <=> ~Returns(f)
  BY <1>6 DEF Unreturning
<1>8. t.ok /\ Returns(f) => Clean(f) /\ Origin(f) = f
  <2>1. Judged(n)
    BY <1>1 DEF VerdictInv
  <2> QED
    BY <2>1, <1>0, <1>1, <1>4, <1>5, <1>6, <1>7, CompoundIsClean DEF Compound
<1>9. t.ok =>
        /\ y \in N
        /\ Kind(body) \in {"BLOCK", "RETURN"} => body = y
        /\ body # y => Kind(y) = "ASSIGNMENT"
        /\ body = y /\ Kind(y) = "BLOCK" =>
             /\ parts[y] = <<>> <=> P[y] = <<>>
             /\ parts[y] # <<>> => /\ Last(P[y]) \in N
                                   /\ \/ Last(parts[y]) = Last(P[y])
                                      \/ /\ Kind(Last(P[y])) = "ASSIGNMENT"
                                         /\ Kind(Last(parts[y])) = "VAR"
  <2>1. TreeInv /\ Nulled /\ calls # <<>> /\ t.does = "check" /\ Kind(f) = "FN"
    BY <1>0, <1>1 DEF VerdictInv
  <2> QED
    BY ONLY <2>1, n = Len(calls), t = calls[n], f = t.id, body = Last(parts[f]), y = Body(f), FunctionEnds
<1>10. t.ok => Node(y) = program.node[y] /\ (P[y] # <<>> /\ Last(P[y]) \in N => Node(Last(P[y])) = program.node[Last(P[y])])
  BY <1>9, <1>1, ProgramIsTree
<1>11. CASE ~t.ok /\ Stop("crash")
  BY <1>11 DEF Stop, Goes
<1>12. CASE t.ok /\ Node(f).void /\ Sanitize(TRUE)
  <2>1. Returns(f)
    BY <1>12, <1>6 DEF Returns
  <2> QED
    BY <2>1, <1>0, <1>1, <1>2, <1>8, <1>12, SanitizeGoes
<1>13. CASE t.ok /\ ~Node(f).void /\ empty /\ Stop("wild")
  <2>1. body = y /\ P[y] = <<>> /\ program.node[y].k = "BLOCK"
    BY <1>9, <1>10, <1>13 DEF Kind
  <2>2. ~Returns(f)
    BY <2>1, <1>6, <1>13 DEF Returns, P
  <2>3. Shapes
    BY <2>1, <2>2, <1>7 DEF Shapes, P
  <2> QED
    BY <2>3, <1>13 DEF Stop, Goes
<1>14. CASE /\ t.ok /\ ~Node(f).void /\ ~empty
            /\ Return(IF last.k = "RETURN" THEN f ELSE NULL) /\ UNCHANGED <<freed, gone>>
  <2>1. last.k = "RETURN" <=> Returns(f)
    <3>1. CASE inBlock
      <4>1. body = y /\ parts[y] # <<>> /\ P[y] # <<>> /\ Last(P[y]) \in N /\ program.node[y].k = "BLOCK"
        <5>1. t.ok /\ ~empty /\ Kind(body) = "BLOCK"
          BY <3>1, <1>14
        <5>2. body = y /\ y \in N
          BY <5>1, <1>9
        <5>3. parts[y] # <<>>
          BY <5>1, <5>2
        <5>4. P[y] # <<>> /\ Last(P[y]) \in N
          BY <5>1, <5>2, <5>3, <1>9
        <5> QED
          BY <5>1, <5>2, <5>3, <5>4, <1>10 DEF Kind
      <4>2. last.k = Kind(Last(parts[y]))
        BY <3>1, <4>1 DEF Kind
      <4>3. last.k = "RETURN" <=> program.node[Last(P[y])].k = "RETURN"
        <5>1. Kind(Last(P[y])) = program.node[Last(P[y])].k
          BY <4>1, <1>10, <1>14 DEF Kind
        <5>2. \/ Last(parts[y]) = Last(P[y])
              \/ Kind(Last(P[y])) = "ASSIGNMENT" /\ Kind(Last(parts[y])) = "VAR"
          BY <3>1, <4>1, <1>9, <1>14
        <5> QED
          BY <5>1, <5>2, <4>2
      <4> QED
        BY <4>1, <4>3, <1>6, <1>14 DEF Returns, P
    <3>2. CASE ~inBlock
      <4>1. last.k = Kind(body)
        BY <3>2 DEF Kind
      <4>2. Kind(body) = "RETURN" <=> Kind(y) = "RETURN"
        BY <1>9, <1>14
      <4>3. Kind(y) # "BLOCK" /\ Kind(y) = program.node[y].k
        BY <3>2, <1>9, <1>10, <1>14 DEF Kind
      <4> QED
        BY <4>1, <4>2, <4>3, <1>6, <1>14 DEF Returns
    <3> QED
      BY <3>1, <3>2
  <2>2. gone' = "" /\ freed' = freed
    BY <1>0, <1>14
  <2>3. CASE last.k = "RETURN"
    <3>1. HandsBack(f)
      BY <2>1, <2>2, <2>3, <1>0, <1>1, <1>2, <1>8, <1>14 DEF HandsBack
    <3> QED
      BY <3>1, <2>2 DEF Goes, Effect
  <2>4. CASE last.k # "RETURN"
    <3>1. HandsBack(NULL)
      BY <2>1, <2>2, <2>4, <1>0, <1>1, <1>2, <1>4, <1>7, <1>14 DEF HandsBack, Forgets
    <3> QED
      BY <3>1, <2>2 DEF Goes, Effect
  <2> QED
    BY <2>3, <2>4
<1> QED
  BY <1>4, <1>11, <1>12, <1>13, <1>14

LEMMA FreePartGoes ==
  ASSUME TreeInv, VerdictInv, program' = program, FreePart
  PROVE  Goes
<1>0. calls # <<>> /\ gone = "" /\ Top.does = "free" /\ Top.turn <= Len(Parts)
  BY DEF FreePart
<1> PICK n : n = Len(calls)
  OBVIOUS
<1> PICK t : t = calls[n]
  OBVIOUS
<1> PICK x : x = t.id
  OBVIOUS
<1> PICK m : m = t.turn
  OBVIOUS
<1> PICK p : p = parts[x][m]
  OBVIOUS
<1>1. /\ program \in Programs /\ n \in 1 .. Len(calls) /\ Types /\ Pointers
      /\ Top = t /\ t \in Calls /\ x \in Live /\ x \in DOMAIN parts /\ m \in Nat /\ m > 0
  BY <1>0, TopFacts
<1>2. Part = p /\ m \in DOMAIN parts[x]
  <2>1. Part = p /\ Parts = parts[x]
    BY <1>1 DEF Part, Parts
  <2> PICK r : r = parts[x]
    OBVIOUS
  <2>2. r \in Seq(Int) /\ m <= Len(r)
    BY <2>1, <1>0, <1>1 DEF Types
  <2>3. m \in DOMAIN r
    BY ONLY <2>2, <1>1
  <2> QED
    BY <2>1, <2>3
<1>3. CASE p = NULL /\ Continue([t EXCEPT !.turn = @ + 1]) /\ UNCHANGED <<parts, freed, gone>>
  <2> PICK c : c = [t EXCEPT !.turn = @ + 1]
    OBVIOUS
  <2>1. t \in [does : {"check", "declare", "free"}, id : Int, turn : Nat \ {0}, ok : BOOLEAN]
    BY <1>1 DEF Calls
  <2>2. c \in [does : {"check", "declare", "free"}, id : Int, turn : Nat \ {0}, ok : BOOLEAN]
        /\ c.id = t.id /\ c.does = t.does /\ c.turn = t.turn + 1
    BY ONLY <2>1, c = [t EXCEPT !.turn = @ + 1]
  <2>3. c \in Calls
    BY ONLY <2>2 DEF Calls
  <2>4. calls' = [calls EXCEPT ![Len(calls)] = c] /\ parts' = parts /\ freed' = freed /\ gone' = ""
    BY <1>3, <1>0 DEF Continue
  <2>5. c.id = Top.id /\ c.does = "free" /\ c.turn = Top.turn + 1 /\ Part = NULL
    BY <1>0, <1>1, <1>2, <1>3, <2>2
  <2>6. GoesOn(c)
    BY <2>3, <2>4, <2>5, <1>0 DEF GoesOn
  <2> QED
    BY <2>4, <2>6 DEF Goes, Effect
<1>4. CASE Stop("crash")
  BY <1>4 DEF Stop, Goes
<1>5. CASE p \in freed /\ Stop("wild")
  <2>1. p \notin Live /\ p # 0
    <3>1. 0 \notin DOMAIN parts
      BY <1>1, PartsAreAllocated
    <3> QED
      BY <3>1, <1>1, <1>5 DEF Live, Types
  <2>2. ~Passed(x, m)
    <3>1. m >= t.turn
      BY ONLY <1>1, m = t.turn
    <3> QED
      BY <3>1, <1>0, <1>1, NotPassed
  <2>3. Kind(x) = "IF" /\ m = 2
    BY <2>1, <2>2, <1>1, <1>2 DEF TreeInv, Whole, NULL
  <2>4. x \in N /\ Kind(x) = program.node[x].k
    <3>1. x \in N
      BY <2>3, <1>1, StatementsAreOld
    <3> QED
      BY <3>1, <1>1, ProgramIsTree DEF Kind
  <2>5. P[x][2] # NULL
    <3>1. NodeStands(x)
      BY <2>4, <1>1 DEF Pointers
    <3>2. parts[x][2] = P[x][2]
      BY <3>1, <2>3 DEF NodeStands
    <3> QED
      BY <3>2, <2>1, <2>3 DEF NULL
  <2>6. Shapes
    BY <2>3, <2>4, <2>5 DEF Shapes, Nodes, N, P
  <2> QED
    BY <2>6, <1>5 DEF Stop, Goes
<1>6. CASE p \in Live /\ Enter(Call("free", p, TRUE))
  <2>1. calls' = Append(calls, Call("free", p, TRUE)) /\ parts' = parts /\ freed' = freed /\ gone' = ""
    BY <1>0, <1>6 DEF Enter
  <2>2. Top.does # "check" /\ Top.does # "declare" /\ p = Part
    BY <1>0, <1>2
  <2>3. Calls1("free", p)
    BY <2>1, <2>2, <1>0, <1>6 DEF Calls1
  <2> QED
    BY <2>1, <2>3 DEF Goes, Effect
<1> QED
  BY <1>1, <1>2, <1>3, <1>4, <1>5, <1>6 DEF FreePart

LEMMA FreeNodeGoes ==
  ASSUME TreeInv, VerdictInv, program' = program, FreeNode
  PROVE  Goes
<1>0. /\ calls # <<>> /\ gone = "" /\ Top.does = "free" /\ Top.turn > Len(Parts)
      /\ freed' = freed \union {Top.id} /\ Return(NULL) /\ gone' = ""
  BY DEF FreeNode
<1>1. CASE Len(calls) > 1
  <2>1. HandsBack(NULL)
    BY <1>0, <1>1 DEF HandsBack
  <2> QED
    BY <2>1, <1>0 DEF Goes, Effect
<1>2. CASE ~(Len(calls) > 1)
  <2>1. Len(calls) = 1
    <3> PICK n : n = Len(calls)
      OBVIOUS
    <3>1. n \in Nat /\ n > 0
      BY <1>0, CallsAreNumbered
    <3>2. ~(n > 1)
      BY <1>2
    <3>3. n = 1
      BY ONLY <3>1, <3>2
    <3> QED
      BY <3>3
  <2>2. Ends
    BY <2>1, <1>0, <1>2 DEF Ends, Return
  <2> QED
    BY <2>2, <1>0 DEF Goes, Effect
<1> QED
  BY <1>1, <1>2

\* Every step is one of the effects, or the last.
LEMMA StepGoes ==
  ASSUME TreeInv, VerdictInv, program' = program, Step
  PROVE  Goes
<1>1. ASSUME ConstructVariable
      PROVE  Goes
  BY <1>1 DEF ConstructVariable, Runs, Goes, Effect
<1>2. ASSUME Declare
      PROVE  Goes
  BY <1>2 DEF Declare, Runs, Goes, Effect
<1> QED
  BY <1>1, <1>2, VariableGoes, AssignmentGoes, FreeTargetGoes, ReturnGoes, SimpleGoes, PartGoes,
     EndGoes, FunctionEndGoes, FreePartGoes, FreeNodeGoes DEF Step, Analyze

LEMMA TreeStays ==
  ASSUME TreeInv, program' = program, parts' = parts, freed' = freed, calls' = calls
  PROVE  TreeInv'
<1>0. N' = N /\ P' = P /\ \A x : Under(x)' = Under(x) /\ Node(x)' = Node(x) /\ Kind(x)' = Kind(x)
  BY SameProgram
<1>1. Live' = Live
  BY DEF Live
<1>2. Types'
  BY <1>0 DEF TreeInv, Types
<1>3. Pointers'
  BY PointersStay DEF TreeInv
<1>4. ASSUME NEW k \in 1 .. Len(calls)
      PROVE  Running(k)' /\ Ahead(k)' /\ Behind(k)'
  <2>0. k \in Nat /\ calls[k].id \in Live
    BY CallsAreNumbered
  <2>1. Running(k) /\ Ahead(k) /\ Behind(k)
    BY DEF TreeInv, Walks
  <2>2. Running(k)'
    BY <2>0, <2>1, <1>1, RunningStays
  <2>3. Behind(k)'
    BY <2>0, <2>1, <1>1, BehindStays
  <2>4. ASSUME NEW x, Fresh(x)
        PROVE  Fresh(x)'
    BY <2>4, FreshStays
  <2>5. Ahead(k)'
    <3> SUFFICES ASSUME calls[k].does = "check", Kind(calls[k].id) \in Compound,
                        NEW i \in DOMAIN P[calls[k].id],
                        i > calls[k].turn \/ (i = calls[k].turn /\ k = Len(calls))
                 PROVE  /\ parts[calls[k].id][i] = P[calls[k].id][i]
                        /\ P[calls[k].id][i] # NULL => Fresh(P[calls[k].id][i])'
      BY <1>0 DEF Ahead
    <3> PICK z : z = P[calls[k].id][i]
      OBVIOUS
    <3>1. parts[calls[k].id][i] = z /\ (z # NULL => Fresh(z))
      BY <2>1 DEF Ahead
    <3>2. z # NULL => Fresh(z)'
      BY <3>1, <2>4
    <3>3. P[calls[k].id][i]' = z
      BY <1>0
    <3> QED
      BY <3>1, <3>2, <3>3
  <2> QED
    BY <2>2, <2>3, <2>5
<1>5. ASSUME NEW k \in 1 .. Len(calls) - 1
      PROVE  Called(k)'
  <2>1. k \in Nat /\ Called(k)
    BY CallsAreNumbered DEF TreeInv, Walks
  <2> QED
    BY <2>1, CalledStays
<1>6. Nested'
  BY <1>0 DEF TreeInv, Walks, Nested, Origin
<1>7. calls' # <<>> => calls'[1].id = program'.head
  BY DEF TreeInv, Walks
<1>8. Walks'
  BY <1>4, <1>5, <1>6, <1>7 DEF Walks
<1>9. Whole'
  <2>1. \A a, i : Passed(a, i)' <=> Passed(a, i)
    BY DEF Passed
  <2>2. ASSUME NEW a \in Live, NEW i \in DOMAIN parts[a]
        PROVE  \/ parts'[a][i] \in Live \/ parts'[a][i] = NULL
               \/ Kind(a)' = "IF" /\ i = 2
               \/ Passed(a, i)'
    BY <2>1, <1>0 DEF TreeInv, Whole
  <2> QED
    BY <2>2, <1>1 DEF Whole
<1> QED
  BY <1>2, <1>3, <1>8, <1>9 DEF TreeInv

\* What is in use points to what is in use, whatever an analysis or a deletion does.
LEMMA StepPreservesTree ==
  ASSUME TreeInv, program' = program, Goes
  PROVE  TreeInv'
<1>1. CASE gone' = "" /\ Effect
  BY <1>1, CallPreservesTree, GoingOnPreservesTree, ConstructionPreservesTree, DeclarationPreservesTree,
     HandingBackPreservesTree, EndPreservesTree DEF Effect
<1>2. CASE parts' = parts /\ freed' = freed /\ calls' = calls
  BY <1>2, TreeStays
<1> QED
  BY <1>1, <1>2 DEF Goes

-----------------------------------------------------------------------------
(* What has been analysed without an error has none.                       *)

LEMMA HeaderStays ==
  ASSUME program' = program, NEW x, ExprsOf(x)' = ExprsOf(x)
  PROVE  Right(Header(x))' <=> Right(Header(x))
BY SameProgram DEF Right, Header, Kind

LEMMA SameParts ==
  ASSUME program' = program, NEW x, parts'[x] = parts[x]
  PROVE  ExprsOf(x)' = ExprsOf(x)
BY SameProgram DEF ExprsOf

LEMMA JudgedStays ==
  ASSUME program' = program, NEW k \in Nat, Judged(k), calls'[k] = calls[k],
         NEW x, x = calls[k].id,
         calls[k].does = "check" /\ x \in N /\ (calls[k].turn > 1 \/ k < Len(calls')) => Right(Header(x))',
         calls[k].does = "check" /\ k < Len(calls') /\ calls'[k + 1].does = "free" => Erroneous
  PROVE  Judged(k)'
<1>0. /\ N' = N /\ P' = P /\ Erroneous' = Erroneous /\ calls'[k].id = x
      /\ \A y : Clean(y)' = Clean(y)
  BY SameProgram
<1>1. calls'[k].id = x /\ (Right(Header(calls[k].id))' <=> Right(Header(x))')
  BY <1>0
<1> QED
  BY <1>0, <1>1 DEF Judged

LEMMA CallPreservesVerdict ==
  ASSUME TreeInv, VerdictInv, program' = program, NEW d, NEW p, Calls1(d, p)
  PROVE  VerdictInv'
<1> PICK n : n = Len(calls)
  OBVIOUS
<1> PICK t : t = calls[n]
  OBVIOUS
<1> PICK x : x = t.id
  OBVIOUS
<1> PICK c : c = Call(d, p, TRUE)
  OBVIOUS
<1>0. /\ program \in Programs /\ Types /\ Pointers /\ n \in Nat /\ n > 0 /\ n \in 1 .. n /\ Top = t /\ x \in Live /\ Ahead(n)
  <2>1. calls # <<>>
    BY DEF Calls1
  <2>2. n \in Nat /\ n > 0 /\ Top = t /\ program \in Programs
    BY <2>1, CallsAreNumbered
  <2>3. n \in 1 .. n
    BY ONLY <2>2
  <2>4. x \in Live
    BY <2>3, CallsAreNumbered
  <2> QED
    BY <2>2, <2>3, <2>4 DEF TreeInv, Walks
<1>1. /\ calls' = Append(calls, c) /\ parts' = parts /\ freed' = freed
      /\ Len(calls') = n + 1 /\ calls'[n + 1] = c /\ \A k \in 1 .. n : calls'[k] = calls[k]
  <2>1. calls \in Seq(Calls) /\ calls' = Append(calls, c) /\ parts' = parts /\ freed' = freed
    BY <1>0 DEF Types, Calls1
  <2>2. Len(Append(calls, c)) = n + 1 /\ Append(calls, c)[n + 1] = c /\ \A k \in 1 .. n : Append(calls, c)[k] = calls[k]
    BY ONLY <2>1, n = Len(calls)
  <2> QED
    BY <2>1, <2>2
<1>2. c.does = d /\ c.id = p /\ c.turn = 1 /\ c.ok
  BY DEF Call
<1>3. Nulled'
  <2>0. parts' = parts /\ freed' = freed
    BY <1>1
  <2>1. Live' = Live /\ N' = N /\ P' = P
    BY <2>0, SameProgram DEF Live
  <2> SUFFICES ASSUME NEW y \in Live, y \in N, NEW i \in DOMAIN P[y], P[y][i] # NULL, parts[y][i] = NULL
               PROVE  \E k \in 1 .. Len(calls') : calls'[k].id = y /\ (calls'[k].does = "free" \/ ~calls'[k].ok)
    BY <2>1, <2>0 DEF Nulled
  <2>2. PICK k \in 1 .. n : calls[k].id = y /\ (calls[k].does = "free" \/ ~calls[k].ok)
    BY DEF VerdictInv, Nulled
  <2>3. k \in 1 .. n + 1
    BY ONLY <2>2, <1>0
  <2> QED
    BY <2>2, <2>3, <1>1
<1>4. ASSUME NEW k \in 1 .. n
      PROVE  Judged(k)'
  <2> PICK z : z = calls[k].id
    OBVIOUS
  <2>1. k \in Nat /\ Judged(k) /\ calls'[k] = calls[k]
    BY <1>1, <1>0 DEF VerdictInv
  <2>2. Right(Header(z))' <=> Right(Header(z))
    BY <1>1, SameParts, HeaderStays
  <2>3. calls[k].does = "check" /\ z \in N /\ (calls[k].turn > 1 \/ k < Len(calls')) => Right(Header(z))
    <3>1. CASE k < n
      BY <3>1, <2>1 DEF Judged
    <3>2. CASE k = n
      <4>1. t.turn > 1 => (t.does = "check" /\ x \in N => Right(Header(x)))
        BY <2>1, <3>2 DEF Judged
      <4>2. ~(t.turn > 1) => t.turn = 1
        <5>1. t.turn \in Nat /\ t.turn > 0
          BY <1>0, CallsAreNumbered
        <5> QED
          BY ONLY <5>1
      <4>3. t.turn = 1 /\ t.does = "check" => Right(Header(x))
        BY <1>0 DEF Calls1
      <4> QED
        BY <4>1, <4>2, <4>3, <3>2
    <3> QED
      BY ONLY <3>1, <3>2, <1>0, k \in 1 .. n
  <2>4. calls[k].does = "check" /\ calls'[k + 1].does = "free" => Erroneous
    <3>1. CASE k < n
      <4>1. k + 1 \in 1 .. n
        BY ONLY <3>1, <1>0, k \in 1 .. n
      <4> QED
        BY <4>1, <3>1, <2>1, <1>1 DEF Judged
    <3>2. CASE k = n
      <4>1. t.does = "check" => d = "check"
        BY <1>0 DEF Calls1
      <4> QED
        BY <4>1, <3>2, <1>1, <1>2
    <3> QED
      BY ONLY <3>1, <3>2, <1>0, k \in 1 .. n
  <2> QED
    BY ONLY <2>1, <2>2, <2>3, <2>4, program' = program, z = calls[k].id, JudgedStays
<1>5. Judged(n + 1)'
  <2>1. d = "check" => p \in N
    <3> SUFFICES ASSUME d = "check"
                 PROVE  p \in N
      OBVIOUS
    <3>1. t.does = "check" /\ Kind(x) \in Compound /\ p = parts[x][t.turn] /\ t.turn <= Len(parts[x]) /\ p \in Live
      BY <1>0 DEF Calls1, Part, Parts
    <3>2. x \in N
      BY <3>1, <1>0, CompoundsAreOld DEF Live
    <3>3. t.turn \in DOMAIN P[x] /\ P[x] \in Seq(N \union {0})
      <4> PICK s : s = P[x]
        OBVIOUS
      <4>1. Len(parts[x]) = Len(s) /\ s \in Seq(N \union {0})
        BY <3>2, <1>0, PartsAreAsMany
      <4>2. t.turn \in Nat /\ t.turn > 0
        BY <1>0, CallsAreNumbered
      <4>3. t.turn <= Len(s)
        BY <3>1, <4>1
      <4>4. t.turn \in DOMAIN s
        BY ONLY <4>1, <4>2, <4>3
      <4> QED
        BY <4>1, <4>4
    <3>4. p = P[x][t.turn]
      BY <3>1, <3>3, <1>0 DEF Ahead
    <3>5. p # 0
      BY <3>1, <1>0, PartsAreAllocated DEF Live
    <3> QED
      BY <3>3, <3>4, <3>5
  <2>2. ~(n + 1 < Len(calls')) /\ calls'[n + 1] = c
    <3>1. ~(n + 1 < n + 1)
      BY ONLY <1>0
    <3> QED
      BY <3>1, <1>1
  <2>3. c.does = "check" => c.id \in N'
    BY <2>1, <1>2, SameProgram
  <2>4. 1 .. c.turn - 1 = {} /\ ~(c.turn > 1)
    BY ONLY <1>2
  <2> QED
    BY <2>2, <2>3, <2>4, <1>2 DEF Judged
<1>6. \A k \in 1 .. n + 1 : k \in 1 .. n \/ k = n + 1
  BY ONLY <1>0
<1>7. \A k \in 1 .. Len(calls') : Judged(k)'
  BY <1>1, <1>4, <1>5, <1>6
<1> QED
  BY <1>3, <1>7 DEF VerdictInv

LEMMA GoingOnPreservesVerdict ==
  ASSUME TreeInv, VerdictInv, program' = program, NEW c, GoesOn(c)
  PROVE  VerdictInv'
<1> PICK n : n = Len(calls)
  OBVIOUS
<1> PICK t : t = calls[n]
  OBVIOUS
<1>0. /\ program \in Programs /\ Types /\ Pointers /\ n \in Nat /\ n > 0 /\ n \in 1 .. n /\ Top = t /\ Running(n)
  <2>1. calls # <<>>
    BY DEF GoesOn
  <2>2. n \in Nat /\ n > 0 /\ Top = t
    BY <2>1, CallsAreNumbered
  <2>3. n \in 1 .. n
    BY ONLY <2>2
  <2> QED
    BY <2>2, <2>3, CallsAreNumbered DEF TreeInv, Walks
<1>1. /\ parts' = parts /\ freed' = freed /\ Len(calls') = n /\ calls'[n] = c /\ \A k \in 1 .. n - 1 : calls'[k] = calls[k]
  <2>1. calls \in Seq(Calls) /\ calls # <<>> /\ c \in Calls /\ calls' = [calls EXCEPT ![n] = c] /\ parts' = parts /\ freed' = freed
    BY <1>0 DEF Types, GoesOn
  <2> QED
    BY ONLY <2>1, n = Len(calls), ReplaceFacts
<1>2. /\ c.id = t.id /\ c.does \in {"free", "declare"}
      /\ c.does = "declare" => t.does = "check" /\ t.id \in N /\ Kind(t.id) = "ASSIGNMENT"
      /\ c.does = "free" /\ t.does # "free" => t.does = "check" /\ (t.ok => program.wrong # {})
  BY <1>0 DEF GoesOn
<1>3. Nulled'
  <2>0. parts' = parts /\ freed' = freed
    BY <1>1
  <2>1. Live' = Live /\ N' = N /\ P' = P
    BY <2>0, SameProgram DEF Live
  <2> SUFFICES ASSUME NEW y \in Live, y \in N, NEW i \in DOMAIN P[y], P[y][i] # NULL, parts[y][i] = NULL
               PROVE  \E k \in 1 .. Len(calls') : calls'[k].id = y /\ (calls'[k].does = "free" \/ ~calls'[k].ok)
    BY <2>1, <2>0 DEF Nulled
  <2>2. PICK k \in 1 .. n : calls[k].id = y /\ (calls[k].does = "free" \/ ~calls[k].ok)
    BY DEF VerdictInv, Nulled
  <2>3. CASE k \in 1 .. n - 1
    BY <2>2, <2>3, <1>1
  <2>4. CASE k = n
    <3>1. c.does # "declare"
      BY <2>2, <2>4, <1>0, <1>2 DEF Running, Compound
    <3> QED
      BY <3>1, <2>2, <2>4, <1>1, <1>2
  <2> QED
    BY ONLY <2>3, <2>4, <1>0, k \in 1 .. n
<1>4. ASSUME NEW k \in 1 .. n - 1
      PROVE  Judged(k)'
  <2> PICK z : z = calls[k].id
    OBVIOUS
  <2>0. k \in 1 .. n /\ k \in Nat /\ k < n /\ (k + 1 = n \/ k + 1 \in 1 .. n - 1) /\ n \in 1 .. n
    BY ONLY <1>0, k \in 1 .. n - 1
  <2>1. Judged(k) /\ calls'[k] = calls[k] /\ Judged(n)
    BY <1>1, <2>0 DEF VerdictInv
  <2>2. Right(Header(z))' <=> Right(Header(z))
    BY <1>1, SameParts, HeaderStays
  <2>3. calls[k].does = "check" /\ z \in N => Right(Header(z))
    BY <2>0, <2>1 DEF Judged
  <2>4. calls[k].does = "check" /\ calls'[k + 1].does = "free" => Erroneous
    <3>1. calls[k].does = "check" /\ calls[k + 1].does = "free" => Erroneous
      BY <2>0, <2>1 DEF Judged
    <3>2. CASE k + 1 = n
      <4>1. t.does = "check" /\ c.does = "free" => Erroneous
        BY <1>2, <2>1 DEF Judged, Erroneous
      <4> QED
        BY <4>1, <3>1, <3>2, <1>1, <1>2
    <3>3. CASE k + 1 \in 1 .. n - 1
      BY <3>1, <3>3, <1>1
    <3> QED
      BY <2>0, <3>2, <3>3
  <2> QED
    BY ONLY <2>0, <2>1, <2>2, <2>3, <2>4, program' = program, z = calls[k].id, JudgedStays
<1>5. Judged(n)'
  BY <1>1, <1>2 DEF Judged
<1>6. \A k \in 1 .. n : k \in 1 .. n - 1 \/ k = n
  BY ONLY <1>0
<1>7. \A k \in 1 .. Len(calls') : Judged(k)'
  BY <1>1, <1>4, <1>5, <1>6
<1> QED
  BY <1>3, <1>7 DEF VerdictInv

(* What the construction of the variable x, by the n-th call, t, does to   *)
(* the tree.                                                               *)
Constructed(n, t, x) ==
  /\ program \in Programs /\ Types /\ Pointers /\ n \in Nat /\ n > 0 /\ n \in 1 .. n /\ Top = t /\ Running(n)
  /\ calls' = calls /\ freed' = freed /\ t.does = "check" /\ Kind(x) = "VAR" /\ x \in Live /\ Nested
  /\ x \in N /\ x # -x /\ -x \notin N /\ x \in DOMAIN parts /\ -x # 0 /\ N \subseteq DOMAIN parts
  /\ \A y \in DOMAIN parts \ {x, -x} : parts'[y] = parts[y]
  /\ parts'[x] = <<-x>>
  /\ DOMAIN parts' = DOMAIN parts \union {-x}

LEMMA ConstructionFacts ==
  ASSUME TreeInv, program' = program, ConstructVariable,
         NEW n, n = Len(calls), NEW t, t = calls[n], NEW x, x = t.id
  PROVE  Constructed(n, t, x)
<1>0. /\ program \in Programs /\ Types /\ Pointers /\ n \in Nat /\ n > 0 /\ n \in 1 .. n /\ Top = t /\ Running(n)
      /\ calls' = calls /\ freed' = freed /\ t.does = "check" /\ Kind(x) = "VAR" /\ x \in Live /\ Nested
      /\ x \in N /\ This.type = "struct"
  <2>1. calls # <<>> /\ gone = "" /\ Top.does = "check" /\ This.k = "VAR" /\ This.type = "struct"
        /\ calls' = calls /\ freed' = freed
    BY DEF ConstructVariable, Runs
  <2>2. /\ program \in Programs /\ Types /\ Pointers /\ n \in Nat /\ n > 0 /\ n \in 1 .. n /\ Top = t /\ Running(n)
        /\ Kind(x) = "VAR" /\ x \in Live /\ Nested
    BY <2>1, TopFacts DEF TreeInv, Walks
  <2>3. x \in N
    <3> SUFFICES ASSUME x \notin N
                 PROVE  FALSE
      OBVIOUS
    <3>1. NewNode(x) /\ x \in Int
      BY <2>2 DEF Pointers, Types, Live
    <3>2. -x \in N /\ -(-x) = x
      BY <3>1 DEF NewNode
    <3>3. Node(-(-x)).type = "inferred"
      <4>1. Kind(-(-x)) = "VAR"
        BY <3>2, <2>2
      <4> QED
        BY <4>1, <3>2, <2>2, NewNodes
    <3> QED
      BY <3>2, <3>3, <2>1, <2>2 DEF This
  <2> QED
    BY <2>1, <2>2, <2>3
<1>1. parts' = [Allocated(-x, <<>>) EXCEPT ![x] = <<-x>>]
  BY <1>0 DEF ConstructVariable
<1>2. /\ x # -x /\ -x \notin N /\ x \in DOMAIN parts /\ -x # 0 /\ N \subseteq DOMAIN parts
  BY <1>0, NewNodes, Origins DEF Live, Types
<1>3. \A y \in DOMAIN parts \ {x, -x} : parts'[y] = parts[y]
  BY <1>1, <1>2 DEF Allocated
<1>4. parts'[x] = <<-x>>
  BY <1>1, <1>2 DEF Allocated
<1>5. DOMAIN parts' = DOMAIN parts \union {-x}
  BY <1>1 DEF Allocated
<1> QED
  BY <1>0, <1>1, <1>2, <1>3, <1>4, <1>5 DEF Constructed

LEMMA ConstructionPreservesVerdict ==
  ASSUME TreeInv, VerdictInv, program' = program, ConstructVariable
  PROVE  VerdictInv'
<1> PICK n : n = Len(calls)
  OBVIOUS
<1> PICK t : t = calls[n]
  OBVIOUS
<1> PICK x : x = t.id
  OBVIOUS
<1>0. Constructed(n, t, x)
  BY ConstructionFacts
<1>1. /\ program \in Programs /\ Types /\ Pointers /\ n \in Nat /\ n > 0 /\ n \in 1 .. n /\ Top = t /\ Running(n)
      /\ calls' = calls /\ freed' = freed /\ t.does = "check" /\ Kind(x) = "VAR" /\ x \in Live /\ Nested
      /\ x \in N /\ x # -x /\ -x \notin N /\ x \in DOMAIN parts /\ -x # 0 /\ N \subseteq DOMAIN parts
  BY ONLY <1>0 DEF Constructed
<1>3. \A y \in DOMAIN parts \ {x, -x} : parts'[y] = parts[y]
  BY <1>0 DEF Constructed
<1>4. parts'[x] = <<-x>> /\ DOMAIN parts' = DOMAIN parts \union {-x}
  BY <1>0 DEF Constructed
<1>6. Nulled'
  <2>1. N' = N /\ P' = P /\ Live' \intersect N = Live \intersect N
    BY <1>1, <1>4, SameProgram DEF Live
  <2> SUFFICES ASSUME NEW y \in Live, y \in N, NEW i \in DOMAIN P[y], P[y][i] # NULL, parts'[y][i] = NULL
               PROVE  \E k \in 1 .. Len(calls) : calls[k].id = y /\ (calls[k].does = "free" \/ ~calls[k].ok)
    BY <2>1, <1>1 DEF Nulled
  <2>2. y # x
    <3> SUFFICES ASSUME y = x
                 PROVE  FALSE
      OBVIOUS
    <3>1. Len(P[x]) = 1 /\ P[x] \in Seq(N \union {0})
      BY <1>1, StatementFacts, ProgramIsTree DEF Running
    <3>2. i = 1
      <4> PICK s : s = P[x]
        OBVIOUS
      <4>1. Len(s) = 1 /\ s \in Seq(N \union {0}) /\ i \in DOMAIN s
        BY <3>1
      <4> QED
        BY ONLY <4>1
    <3> QED
      BY <3>2, <1>1, <1>4 DEF NULL
  <2>3. parts'[y] = parts[y]
    BY <2>2, <1>1, <1>3
  <2> QED
    BY <2>3 DEF VerdictInv, Nulled
<1>7. ASSUME NEW k \in 1 .. n
      PROVE  Judged(k)'
  <2> PICK z : z = calls[k].id
    OBVIOUS
  <2>0. k \in Nat /\ (k < n \/ k = n) /\ Judged(k)
    BY <1>1 DEF VerdictInv
  <2>1. CASE k < n
    <3>1. z # x
      BY <2>1, <1>1 DEF Nested
    <3>2. z \in N => parts'[z] = parts[z]
      BY <3>1, <1>1, <1>3
    <3>3. z \in N => (Right(Header(z))' <=> Right(Header(z)))
      BY <3>2, SameParts, HeaderStays
    <3>4. calls[k].does = "check" /\ z \in N /\ (calls[k].turn > 1 \/ k < Len(calls')) => Right(Header(z))'
      BY <3>3, <2>0, <1>1 DEF Judged
    <3>5. calls[k].does = "check" /\ k < Len(calls') /\ calls'[k + 1].does = "free" => Erroneous
      BY <2>0, <1>1 DEF Judged
    <3> QED
      BY ONLY <2>0, <3>4, <3>5, <1>1, program' = program, z = calls[k].id, JudgedStays
  <2>2. CASE k = n
    <3>1. ~(k < Len(calls')) /\ t.turn = 1
      BY <2>2, <1>1 DEF Running, Compound
    <3> QED
      BY ONLY <3>1, <2>2, <2>0, <1>1, program' = program, n = Len(calls), t = calls[n], x = t.id, JudgedStays
  <2> QED
    BY <2>0, <2>1, <2>2
<1>8. \A k \in 1 .. Len(calls') : Judged(k)'
  BY <1>1, <1>7
<1> QED
  BY <1>6, <1>8 DEF VerdictInv

(* What a declaration of the assignment a, by the n-th call, does to the   *)
(* calls and to the tree.                                                  *)
Declared(n, t, a) ==
  /\ n \in Nat /\ n > 0 /\ n \in 1 .. n /\ program.parsed = "ok"
  /\ t.does = "declare" /\ t.turn = 2 /\ Kind(a) = "ASSIGNMENT"
  /\ a \in Live /\ a \in N /\ -a \notin N /\ -a \notin DOMAIN parts /\ a # -a
  /\ -(-a) = a /\ Origin(-a) = a /\ Origin(a) = a
  /\ parts[a] = P[a] /\ {1, 2} \subseteq DOMAIN P[a] /\ DOMAIN P[a] \subseteq {1, 2}
  /\ P[a][1] \in N /\ P[a][2] \in N /\ P[a][1] # 0 /\ P[a][2] # 0
  /\ Len(calls') = n /\ calls'[n] = Call("check", -a, Right({a}))
  /\ \A k \in 1 .. n - 1 : calls'[k] = calls[k] /\ calls[k].id # a
  /\ freed' = freed \union {a}
  /\ DOMAIN parts' = DOMAIN parts \union {-a}
  /\ parts'[-a] = <<P[a][2]>> /\ \A x \in DOMAIN parts : parts'[x] = parts[x]

LEMMA DeclareFacts ==
  ASSUME TreeInv, program' = program, Declare,
         NEW n, n = Len(calls), NEW t, t = calls[n], NEW a, a = t.id
  PROVE  Declared(n, t, a)
<1> PICK c : c = Call("check", -a, Right({a}))
  OBVIOUS
<1>0. /\ program \in Programs /\ Types /\ Pointers /\ n \in Nat /\ n > 0 /\ Top = t /\ n \in 1 .. n
      /\ Running(n) /\ Nested /\ calls # <<>> /\ a \in Live /\ a \in DOMAIN parts
  <2>1. calls # <<>> /\ gone = ""
    BY DEF Declare, Runs
  <2> QED
    BY <2>1, TopFacts DEF TreeInv, Walks
<1>1. /\ calls' = [calls EXCEPT ![n] = c] /\ freed' = freed \union {a}
      /\ t.does = "declare" /\ t.turn = 2 /\ Kind(a) = "ASSIGNMENT"
      /\ parts' = Allocated(-a, <<parts[a][2]>>)
  BY <1>0 DEF Declare, FreedWithAssignment, Continue, Runs, This, Part, Parts, Kind
<1>2. a \in N /\ program.parsed = "ok"
  BY <1>0, <1>1 DEF Running
<1>3. a \in Nat /\ a > 0 /\ Origin(a) = a /\ Origin(-a) = a /\ -(-a) = a /\ -a # a /\ -a \notin N
  <2>1. a \in Nat /\ a > 0
    BY <1>0, <1>2, ProgramIsTree
  <2>2. Origin(a) = a /\ Origin(-a) = a /\ -a \notin N
    BY <1>0, <1>2, Origins, NewNodes
  <2> QED
    BY <2>1, <2>2
<1>4. parts[a] = P[a] /\ {1, 2} \subseteq DOMAIN P[a] /\ DOMAIN P[a] \subseteq {1, 2}
  <2>1. parts[a] = P[a]
    BY <1>0, <1>1, <1>2, SimpleParts DEF Compound
  <2> PICK s : s = P[a]
    OBVIOUS
  <2>2. s \in Seq(N \union {0}) /\ Len(s) = 2
    BY <1>0, <1>1, <1>2, StatementFacts, ProgramIsTree
  <2>3. DOMAIN s = 1 .. 2
    BY ONLY <2>2
  <2>4. {1, 2} \subseteq DOMAIN s /\ DOMAIN s \subseteq {1, 2}
    BY ONLY <2>3
  <2> QED
    BY <2>1, <2>4
<1>5. \A i \in {1, 2} : P[a][i] # 0 /\ P[a][i] \in N
  <2>1. \A i \in {1, 2} : P[a][i] # 0
    BY <1>0, <1>1, <1>2, <1>4, StatementFacts
  <2> QED
    BY <2>1, <1>0, <1>2, <1>4, ProgramIsTree
<1>6. -a \notin DOMAIN parts
  <2> SUFFICES ASSUME -a \in DOMAIN parts
               PROVE  FALSE
    OBVIOUS
  <2>1. NewNode(-a)
    BY <1>0, <1>3 DEF Pointers
  <2> QED
    BY <2>1, <1>0, <1>1, <1>3 DEF NewNode, Live
<1>7. Len(calls') = n /\ calls'[n] = c /\ \A k \in 1 .. n - 1 : calls'[k] = calls[k]
  <2>1. c \in Calls
    <3>1. -a \in Int /\ Right({a}) \in BOOLEAN
      BY <1>3 DEF Right
    <3>2. c = [does |-> "check", id |-> -a, turn |-> 1, ok |-> Right({a})]
      BY DEF Call
    <3> PICK b \in BOOLEAN : b = Right({a})
      BY <3>1
    <3> PICK z : z = -a
      OBVIOUS
    <3>3. c = [does |-> "check", id |-> z, turn |-> 1, ok |-> b] /\ z \in Int
      BY <3>1, <3>2
    <3>4. c \in [does : {"check", "declare", "free"}, id : Int, turn : Nat \ {0}, ok : BOOLEAN]
      BY ONLY <3>3, b \in BOOLEAN
    <3> QED
      BY ONLY <3>4 DEF Calls
  <2>2. calls \in Seq(Calls) /\ calls # <<>> /\ calls' = [calls EXCEPT ![n] = c]
    BY <1>0, <1>1 DEF Types
  <2> QED
    BY ONLY <2>1, <2>2, n = Len(calls), ReplaceFacts
<1>8. \A k \in 1 .. n - 1 : calls[k].id # a
  <2> SUFFICES ASSUME NEW k \in 1 .. n - 1
               PROVE  calls[k].id # a
    OBVIOUS
  <2>1. k \in 1 .. n /\ k < n
    BY ONLY <1>0, k \in 1 .. n - 1
  <2> QED
    BY <2>1, <1>0 DEF Nested
<1>9. parts[a][2] = P[a][2]
  BY <1>4
<1>10. /\ DOMAIN parts' = DOMAIN parts \union {-a}
       /\ parts'[-a] = <<P[a][2]>> /\ \A x \in DOMAIN parts : parts'[x] = parts[x]
  BY <1>1, <1>6, <1>9 DEF Allocated
<1> QED
  BY <1>0, <1>1, <1>2, <1>3, <1>4, <1>5, <1>6, <1>7, <1>8, <1>10 DEF Declared

LEMMA DeclarationPreservesVerdict ==
  ASSUME TreeInv, VerdictInv, program' = program, Declare
  PROVE  VerdictInv'
<1> PICK n : n = Len(calls)
  OBVIOUS
<1> PICK t : t = calls[n]
  OBVIOUS
<1> PICK a : a = t.id
  OBVIOUS
<1> PICK c : c = Call("check", -a, Right({a}))
  OBVIOUS
<1>0. /\ n \in Nat /\ n > 0 /\ n \in 1 .. n
      /\ a \in Live /\ a \in N /\ -a \notin N /\ -(-a) = a
      /\ Len(calls') = n /\ calls'[n] = c
      /\ \A k \in 1 .. n - 1 : calls'[k] = calls[k] /\ calls[k].id # a
      /\ freed' = freed \union {a}
      /\ DOMAIN parts' = DOMAIN parts \union {-a}
      /\ \A x \in DOMAIN parts : parts'[x] = parts[x]
  <2>1. Declared(n, t, a)
    BY DeclareFacts
  <2>2. /\ n \in Nat /\ n > 0 /\ n \in 1 .. n
        /\ a \in Live /\ a \in N /\ -a \notin N /\ -(-a) = a
        /\ Len(calls') = n
        /\ \A k \in 1 .. n - 1 : calls'[k] = calls[k] /\ calls[k].id # a
        /\ freed' = freed \union {a}
        /\ DOMAIN parts' = DOMAIN parts \union {-a}
        /\ \A x \in DOMAIN parts : parts'[x] = parts[x]
    BY ONLY <2>1 DEF Declared
  <2>3. calls'[n] = c
    BY <2>1 DEF Declared
  <2> QED
    BY <2>2, <2>3
<1>1. N \subseteq DOMAIN parts /\ N' = N /\ P' = P
  BY SameProgram DEF TreeInv, Types
<1>2. Nulled'
  <2>1. Live' \intersect N = (Live \intersect N) \ {a}
    BY <1>0 DEF Live
  <2> SUFFICES ASSUME NEW y \in Live, y \in N, y # a, NEW i \in DOMAIN P[y], P[y][i] # NULL, parts'[y][i] = NULL
               PROVE  \E k \in 1 .. n : calls'[k].id = y /\ (calls'[k].does = "free" \/ ~calls'[k].ok)
    BY <2>1, <1>0, <1>1 DEF Nulled
  <2>2. parts'[y] = parts[y]
    BY <1>0 DEF Live
  <2>3. PICK k \in 1 .. n : calls[k].id = y /\ (calls[k].does = "free" \/ ~calls[k].ok)
    BY <2>2 DEF VerdictInv, Nulled
  <2>4. k # n
    BY <2>3
  <2>5. k \in 1 .. n - 1
    BY ONLY <2>4, <1>0, k \in 1 .. n
  <2> QED
    BY <2>3, <2>5, <1>0
<1>3. ASSUME NEW k \in 1 .. n - 1
      PROVE  Judged(k)'
  <2> PICK z : z = calls[k].id
    OBVIOUS
  <2>0. k \in 1 .. n /\ k \in Nat /\ k < n /\ (k + 1 = n \/ k + 1 \in 1 .. n - 1)
    BY ONLY <1>0, k \in 1 .. n - 1
  <2>1. Judged(k) /\ calls'[k] = calls[k]
    BY <1>0, <2>0 DEF VerdictInv
  <2>2. z \in N => (Right(Header(z))' <=> Right(Header(z)))
    BY <1>0, <1>1, SameParts, HeaderStays
  <2>3. calls[k].does = "check" /\ z \in N => Right(Header(z))'
    BY <2>0, <2>1, <2>2 DEF Judged
  <2>4. calls[k].does = "check" /\ calls'[k + 1].does = "free" => Erroneous
    <3>1. calls[k].does = "check" /\ calls[k + 1].does = "free" => Erroneous
      BY <2>0, <2>1 DEF Judged
    <3>2. CASE k + 1 = n
      BY <3>2, <1>0 DEF Call
    <3>3. CASE k + 1 \in 1 .. n - 1
      BY <3>1, <3>3, <1>0
    <3> QED
      BY <2>0, <3>2, <3>3
  <2> QED
    BY ONLY <2>0, <2>1, <2>3, <2>4, program' = program, z = calls[k].id, JudgedStays
<1>4. Judged(n)'
  <2>1. c.does = "check" /\ c.id = -a /\ c.ok = Right({a}) /\ c.turn = 1
    BY DEF Call
  <2>2. Right({a}) <=> a \notin program.wrong
    BY DEF Right
  <2>3. ~Right({a}) => Erroneous
    BY <2>2 DEF Erroneous
  <2>4. ~(n < Len(calls'))
    BY ONLY <1>0
  <2>5. ~c.ok => Erroneous'
    BY <2>1, <2>3, SameProgram
  <2>6. c.ok => -c.id \notin program'.wrong
    BY <2>1, <2>2, <1>0
  <2>7. c.id \notin N'
    BY <2>1, <1>0, <1>1
  <2> QED
    BY <2>1, <2>4, <2>5, <2>6, <2>7, <1>0 DEF Judged
<1>5. \A k \in 1 .. n : k \in 1 .. n - 1 \/ k = n
  BY ONLY <1>0
<1>6. \A k \in 1 .. Len(calls') : Judged(k)'
  BY <1>0, <1>3, <1>4, <1>5
<1> QED
  BY <1>2, <1>6 DEF VerdictInv

LEMMA EndPreservesVerdict ==
  ASSUME TreeInv, VerdictInv, program' = program, Ends
  PROVE  VerdictInv'
<1>0. /\ parts' = parts /\ calls' = <<>> /\ freed' = freed \union {Top.id} /\ Len(calls) = 1 /\ Top = calls[1]
      /\ Types
  BY DEF Ends, Top, TreeInv
<1>1. Nulled'
  <2>1. Live' \intersect N' = (Live \intersect N) \ {Top.id} /\ P' = P
    BY <1>0, SameProgram DEF Live
  <2> SUFFICES ASSUME NEW y \in Live, y \in N, y # Top.id, NEW i \in DOMAIN P[y], P[y][i] # NULL, parts[y][i] = NULL
               PROVE  FALSE
    BY <2>1, <1>0 DEF Nulled
  <2>2. PICK k \in 1 .. Len(calls) : calls[k].id = y
    BY DEF VerdictInv, Nulled
  <2>3. k = 1
    BY <2>2, <1>0
  <2> QED
    BY <2>2, <2>3, <1>0
<1>2. \A k \in 1 .. Len(calls') : Judged(k)'
  BY <1>0
<1> QED
  BY <1>1, <1>2 DEF VerdictInv

(* What it does that the n-th call, t, returns s to c, which is about x:   *)
(* to the calls,                                                           *)
Handed(n, m, t, c, x, s) ==
  /\ m \in Nat /\ m > 0 /\ n \in Nat /\ n = m + 1 /\ m \in 1 .. n /\ n \in 1 .. n /\ m \in 1 .. n - 1
  /\ Len(calls') = m /\ \A k \in 1 .. m - 1 : calls'[k] = calls[k] /\ calls[k].id # x
  /\ calls'[m].does = c.does /\ calls'[m].id = x /\ calls'[m].turn = c.turn + 1
  /\ StaysOk(m, c, s)
  /\ x \in Live /\ t.id \in Live /\ x # t.id
  /\ c.turn \in Nat /\ c.turn > 0 /\ c.turn \in DOMAIN parts[x]

(* to what is freed, for one of three reasons,                             *)
HandedFor(t, c, s) ==
  \/ s = t.id /\ freed' = freed /\ t.does = "check" /\ t.ok /\ Clean(Origin(t.id)) /\ c.does = "check"
  \/ s = NULL /\ freed' = freed \union {t.id} /\ t.does = "free" /\ t.turn > Len(parts[t.id])
  \/ s = NULL /\ freed' = freed /\ t.does = "check" /\ Forgets(t) /\ c.does = "check"

(* and to the tree.                                                        *)
HandedTo(t, c, x, s) ==
  /\ DOMAIN parts' = DOMAIN parts /\ \A y \in DOMAIN parts : y # x => parts'[y] = parts[y]
  /\ c.does # "check" => parts' = parts /\ t.id = parts[x][c.turn]
  /\ c.does = "check" =>
       /\ x \in N /\ Kind(x) \in Compound /\ c.turn <= Analysed(x) /\ program.parsed = "ok"
       /\ c.turn \in DOMAIN P[x] /\ P[x][c.turn] \in N /\ P[x][c.turn] # 0
       /\ parts[x][c.turn] = P[x][c.turn] /\ Origin(t.id) = P[x][c.turn]
       /\ parts'[x] = [parts[x] EXCEPT ![IF Kind(x) = "IF" THEN 1 ELSE c.turn] = s]

LEMMA HandFacts ==
  ASSUME TreeInv, program' = program, NEW s, HandsBack(s),
         NEW n, n = Len(calls), NEW m, m = n - 1, NEW t, t = calls[n], NEW c, c = calls[m], NEW x, x = c.id
  PROVE  Handed(n, m, t, c, x, s) /\ HandedFor(t, c, s) /\ HandedTo(t, c, x, s)
<1> PICK sl : sl = IF Kind(c.id) = "IF" THEN 1 ELSE c.turn
  OBVIOUS
<1>1. /\ m \in Nat \ {0} /\ n \in Nat /\ m + 1 = n /\ m \in 1 .. n /\ n \in 1 .. n
      /\ Len(calls') = m
      /\ \A k \in 1 .. m - 1 : calls'[k] = calls[k]
      /\ calls'[m].does = c.does /\ calls'[m].id = c.id /\ calls'[m].turn = c.turn + 1
      /\ \/ s = t.id /\ freed' = freed /\ t.does = "check"
         \/ s = NULL /\ freed' = freed \union {t.id} /\ t.does = "free"
         \/ s = NULL /\ freed' = freed /\ t.does = "check"
      /\ c.does # "check" => parts' = parts /\ s = NULL /\ freed' = freed \union {t.id} /\ c.turn <= 1 + Len(parts[c.id])
      /\ c.does = "check" => parts' = [parts EXCEPT ![c.id][sl] = s]
      /\ c.turn \in DOMAIN parts[c.id] /\ c.id \in Live /\ t.id \in Live /\ c.id # t.id
  <2>1. TreeInv /\ program' = program /\ HandsBack(s)
    OBVIOUS
  <2>2. sl = IF Kind(c.id) = "IF" THEN 1 ELSE c.turn
    OBVIOUS
  <2>3. HandedOver(n, m, t, c, sl, s)
    BY <2>1, <2>2, HandedBack
  <2> QED
    BY ONLY <2>3 DEF HandedOver
<1>7. StaysOk(m, c, s)
  <2>1. TreeInv /\ program' = program /\ HandsBack(s)
    OBVIOUS
  <2>2. sl = IF Kind(c.id) = "IF" THEN 1 ELSE c.turn
    OBVIOUS
  <2>3. HandedOver(n, m, t, c, sl, s)
    BY <2>1, <2>2, HandedBack
  <2> QED
    BY ONLY <2>3 DEF HandedOver
<1>2. m > 0 /\ n = m + 1 /\ m \in 1 .. n - 1
  BY ONLY <1>1
<1>3. /\ Called(m) /\ Nested /\ Running(m) /\ program \in Programs
      /\ c.turn \in Nat /\ c.turn > 0 /\ c.does \in {"check", "declare", "free"}
  BY <1>1, <1>2, CallsAreNumbered DEF TreeInv, Walks
<1>4. Handed(n, m, t, c, x, s)
  <2>1. \A k \in 1 .. m - 1 : calls[k].id # x
    <3> SUFFICES ASSUME NEW k \in 1 .. m - 1
                 PROVE  calls[k].id # x
      OBVIOUS
    <3>1. k \in 1 .. n /\ k < m
      BY ONLY <1>1, k \in 1 .. m - 1
    <3> QED
      BY <3>1, <1>1, <1>3 DEF Nested
  <2> QED
    BY <1>1, <1>2, <1>3, <1>7, <2>1 DEF Handed
<1>5. HandedFor(t, c, s)
  <2>1. Top = t /\ Parts = parts[t.id]
    BY <1>1 DEF Top, Parts
  <2>2. c.does # "check" => t.does = "free"
    BY <1>1, <1>2, <1>3 DEF Called
  <2>3. \/ s = t.id /\ freed' = freed /\ t.does = "check" /\ t.ok /\ Clean(Origin(t.id))
        \/ s = NULL /\ freed' = freed \union {t.id} /\ t.does = "free" /\ t.turn > Len(parts[t.id])
        \/ s = NULL /\ freed' = freed /\ t.does = "check" /\ Forgets(t)
    BY <2>1 DEF HandsBack
  <2> QED
    BY <2>2, <2>3 DEF HandedFor
<1>6. HandedTo(t, c, x, s)
  <2>1. CASE c.does = "check"
    <3>1. parts' = [parts EXCEPT ![x][sl] = s] /\ x \in DOMAIN parts
      BY <2>1, <1>1 DEF Live
    <3>2. /\ DOMAIN parts' = DOMAIN parts /\ \A y \in DOMAIN parts : y # x => parts'[y] = parts[y]
          /\ parts'[x] = [parts[x] EXCEPT ![sl] = s]
      BY <3>1
    <3>3. x \in N /\ Kind(x) \in Compound /\ c.turn <= Analysed(x) /\ program.parsed = "ok"
      BY <1>1, <1>2, <1>3, <2>1 DEF Called, Running
    <3>4. /\ c.turn \in DOMAIN P[x] /\ P[x][c.turn] \in N /\ P[x][c.turn] # 0 /\ parts[x][c.turn] = P[x][c.turn]
          /\ t.id = P[x][c.turn] \/ t.id = -P[x][c.turn]
      <4>1. m \in 1 .. Len(calls) - 1 /\ calls[m].does = "check" /\ calls[m + 1] = t
        BY <1>1, <1>2, <2>1
      <4> QED
        BY <4>1, AnalysesGoDown
    <3>5. Origin(t.id) = P[x][c.turn]
      BY <3>4, <1>3, Origins
    <3> QED
      BY <2>1, <3>2, <3>3, <3>4, <3>5 DEF HandedTo
  <2>2. CASE c.does # "check"
    <3>1. t.id = parts[x][c.turn]
      BY <1>1, <1>2, <1>3, <2>2 DEF Called
    <3> QED
      BY <2>2, <3>1, <1>1 DEF HandedTo
  <2> QED
    BY <2>1, <2>2
<1> QED
  BY <1>4, <1>5, <1>6

\* What TYPE_CHECK gives up has been looked at only now.
LEMMA UntypedIsUntouched ==
  ASSUME TreeInv, VerdictInv, calls # <<>>, NEW n, n = Len(calls), NEW t, t = calls[n],
         t.does = "check", t.id \in Untyped, NEW i \in DOMAIN P[t.id], P[t.id][i] # NULL
  PROVE  t.ok \/ parts[t.id][i] # NULL
<1> PICK y : y = t.id
  OBVIOUS
<1>0. /\ program \in Programs /\ Types /\ Pointers /\ n \in 1 .. n /\ t.turn \in Nat /\ t.turn > 0
      /\ Running(n) /\ Ahead(n) /\ Judged(n)
  <2>1. n \in Nat /\ n > 0 /\ program \in Programs
    BY CallsAreNumbered
  <2>2. n \in 1 .. n
    BY ONLY <2>1
  <2> QED
    BY <2>1, <2>2, CallsAreNumbered DEF TreeInv, Walks, VerdictInv
<1>1. y \in N /\ Node(y) = program.node[y] /\ program.parsed = "ok"
  <2>1. y \in N
    BY DEF Untyped, Nodes, N
  <2> QED
    BY <2>1, <1>0, ProgramIsTree DEF Running
<1>2. Kind(y) \in {"ASSIGNMENT", "IF", "WHILE", "RETURN"}
  BY <1>1 DEF Untyped, Nodes, Kind
<1>3. CASE Kind(y) \notin Compound
  BY <1>0, <1>1, <1>3 DEF Running
<1>4. CASE Kind(y) \in Compound
  <2>1. PICK j \in Node(y).stmts + 1 .. Len(P[y]) : P[y][j] \in program.wrong
    BY <1>1 DEF Untyped, P
  <2>2. Len(parts[y]) = Len(P[y]) /\ P[y] \in Seq(N \union {0}) /\ Node(y).stmts \in Nat
    <3>1. P[y] \in Seq(N \union {0}) /\ Node(y).stmts \in 0 .. Len(P[y])
      BY <1>0, <1>1, ProgramIsTree
    <3>2. Node(y).stmts \in Nat
      BY ONLY <3>1
    <3> QED
      BY <3>1, <3>2, <1>0, <1>1, PartsAreAsMany
  <2>3. j \in DOMAIN P[y] /\ j > Node(y).stmts
    <3> PICK s : s = P[y]
      OBVIOUS
    <3>1. s \in Seq(N \union {0}) /\ j \in Node(y).stmts + 1 .. Len(s) /\ Node(y).stmts \in Nat
      BY <2>1, <2>2
    <3> QED
      BY <3>1
  <2>4. parts[y][j] = P[y][j]
    <3>1. Kind(y) # "VAR"
      BY <1>2
    <3> QED
      BY <3>1, <2>3, <1>0, <1>1, ExprsStay
  <2>5. ~Right(Header(y))
    BY <2>1, <2>2, <2>4 DEF Right, Header, ExprsOf
  <2>6. ~(t.turn > 1)
    BY <2>5, <1>0, <1>1 DEF Judged
  <2>7. t.turn = 1
    BY ONLY <2>6, <1>0
  <2>8. i > t.turn \/ i = t.turn
    <3> PICK s : s = P[y]
      OBVIOUS
    <3>1. s \in Seq(N \union {0}) /\ i \in DOMAIN s
      BY <2>2
    <3> QED
      BY ONLY <3>1, <2>7
  <2>9. parts[y][i] = P[y][i]
    BY <2>8, <1>0, <1>4 DEF Ahead
  <2> QED
    BY <2>9
<1> QED
  BY <1>3, <1>4

LEMMA HandingBackPreservesVerdict ==
  ASSUME TreeInv, VerdictInv, program' = program, NEW s, HandsBack(s)
  PROVE  VerdictInv'
<1> PICK n : n = Len(calls)
  OBVIOUS
<1> PICK m : m = n - 1
  OBVIOUS
<1> PICK t : t = calls[n]
  OBVIOUS
<1> PICK c : c = calls[m]
  OBVIOUS
<1> PICK x : x = c.id
  OBVIOUS
<1> PICK sl : sl = IF Kind(x) = "IF" THEN 1 ELSE c.turn
  OBVIOUS
<1>0. program \in Programs /\ Types /\ Pointers /\ N' = N /\ P' = P /\ Erroneous' = Erroneous /\ \A y : Clean(y)' = Clean(y)
  BY CallsAreNumbered, SameProgram DEF TreeInv
<1>1. Handed(n, m, t, c, x, s) /\ HandedFor(t, c, s) /\ HandedTo(t, c, x, s)
  BY HandFacts
<1>2. /\ m \in Nat /\ m > 0 /\ n \in Nat /\ n = m + 1 /\ m \in 1 .. n /\ n \in 1 .. n
      /\ Len(calls') = m /\ \A k \in 1 .. m - 1 : calls'[k] = calls[k] /\ calls[k].id # x
      /\ calls'[m].does = c.does /\ calls'[m].id = x /\ calls'[m].turn = c.turn + 1
      /\ x \in Live /\ t.id \in Live /\ x # t.id
      /\ c.turn \in Nat /\ c.turn > 0 /\ c.turn \in DOMAIN parts[x]
  BY ONLY <1>1 DEF Handed
<1>3. calls'[m].ok = (c.ok /\ s # NULL)
  BY <1>1 DEF Handed, StaysOk
<1>4. /\ DOMAIN parts' = DOMAIN parts /\ \A y \in DOMAIN parts : y # x => parts'[y] = parts[y]
      /\ c.does # "check" => parts' = parts
  BY <1>1 DEF HandedTo
<1>5. c.does = "check" =>
        /\ x \in N /\ Kind(x) \in Compound /\ c.turn <= Analysed(x) /\ program.parsed = "ok"
        /\ c.turn \in DOMAIN P[x] /\ P[x][c.turn] # 0 /\ Origin(t.id) = P[x][c.turn]
        /\ parts'[x] = [parts[x] EXCEPT ![sl] = s]
  BY <1>1 DEF HandedTo
<1>6. Judged(m) /\ Judged(n)
  BY <1>2 DEF VerdictInv
<1>7. Nulled'
  <2> SUFFICES ASSUME NEW y \in Live', y \in N, NEW i \in DOMAIN P[y], P[y][i] # NULL, parts'[y][i] = NULL
               PROVE  \E k \in 1 .. m : calls'[k].id = y /\ (calls'[k].does = "free" \/ ~calls'[k].ok)
    BY <1>0, <1>2 DEF Nulled
  <2>0. y \in Live /\ y \in DOMAIN parts
    BY <1>1, <1>4 DEF Live, HandedFor
  <2>1. CASE parts[y][i] = NULL
    <3>1. PICK k \in 1 .. n : calls[k].id = y /\ (calls[k].does = "free" \/ ~calls[k].ok)
      BY <2>0, <2>1 DEF VerdictInv, Nulled
    <3>2. CASE k \in 1 .. m - 1
      <4>1. k \in 1 .. m
        BY ONLY <3>2, <1>2
      <4> QED
        BY <4>1, <3>1, <3>2, <1>2
    <3>3. CASE k = m
      <4>1. m \in 1 .. m
        BY ONLY <1>2
      <4>2. ~c.ok => ~calls'[m].ok
        BY <1>3
      <4>3. y = x /\ (c.does = "free" \/ ~c.ok)
        BY <3>1, <3>3
      <4> QED
        BY <4>1, <4>2, <4>3, <1>2
    <3>4. CASE k = n
      <4>1. t.id = y /\ (t.does = "free" \/ ~t.ok) /\ parts[y][i] = NULL
        BY <2>1, <3>1, <3>4
      <4>2. CASE freed' = freed \union {t.id}
        BY <4>1, <4>2 DEF Live
      <4>3. CASE t.does = "check" /\ t.ok
        BY <4>1, <4>3
      <4>4. CASE t.does = "check" /\ Forgets(t)
        <5>1. t.ok \/ t.id \in Untyped
          BY <4>4 DEF Forgets
        <5>2. calls # <<>>
          <6>1. Len(calls) # 0
            BY <1>2
          <6> QED
            BY ONLY <6>1
        <5> QED
          BY <4>1, <4>4, <5>1, <5>2, UntypedIsUntouched
      <4> QED
        BY <4>2, <4>3, <4>4, <1>1 DEF HandedFor
    <3> QED
      BY ONLY <3>2, <3>3, <3>4, <1>2, k \in 1 .. n
  <2>2. CASE parts[y][i] # NULL
    <3>1. y = x /\ c.does = "check"
      BY <2>0, <2>2, <1>4
    <3>2. s = NULL
      <4>2. i \in DOMAIN parts[x]
        BY <3>1, <1>0, PartsAreAsMany
      <4>1. i = sl \/ parts'[x][i] = parts[x][i]
        BY <3>1, <4>2, <1>5
      <4> QED
        BY <4>1, <4>2, <2>2, <3>1, <1>5
    <3>3. ~calls'[m].ok
      BY <3>2, <1>3
    <3>4. m \in 1 .. m
      BY ONLY <1>2
    <3> QED
      BY <3>1, <3>3, <3>4, <1>2
  <2> QED
    BY <2>1, <2>2
<1>8. ASSUME NEW k \in 1 .. m - 1
      PROVE  Judged(k)'
  <2> PICK z : z = calls[k].id
    OBVIOUS
  <2>0. k \in 1 .. n /\ k \in Nat /\ k < n /\ (k + 1 = m \/ k + 1 \in 1 .. m - 1)
    BY ONLY <1>2, k \in 1 .. m - 1
  <2>1. Judged(k) /\ calls'[k] = calls[k] /\ z # x
    BY <1>2, <2>0 DEF VerdictInv
  <2>2. z \in N => (Right(Header(z))' <=> Right(Header(z)))
    <3>1. z \in N => parts'[z] = parts[z]
      BY <2>1, <1>0, <1>4 DEF Types
    <3> QED
      BY <3>1, SameParts, HeaderStays
  <2>3. calls[k].does = "check" /\ z \in N => Right(Header(z))'
    BY <2>0, <2>1, <2>2 DEF Judged
  <2>4. calls[k].does = "check" /\ calls'[k + 1].does = "free" => Erroneous
    <3>1. calls[k].does = "check" /\ calls[k + 1].does = "free" => Erroneous
      BY <2>0, <2>1 DEF Judged
    <3>2. calls'[k + 1].does = calls[k + 1].does
      BY <2>0, <1>2
    <3> QED
      BY <3>1, <3>2
  <2> QED
    BY ONLY <2>0, <2>1, <2>3, <2>4, program' = program, z = calls[k].id, JudgedStays
<1>9. Judged(m)'
  <2> SUFFICES ASSUME c.does = "check"
               PROVE  Judged(m)'
    BY <1>2 DEF Judged
  <2>1. x \in N /\ ~(m < m) /\ m < n
    BY <1>2, <1>5
  <2>2. ~calls'[m].ok => Erroneous
    <3>1. ~c.ok => Erroneous
      BY <1>6 DEF Judged
    <3>2. s = NULL => Erroneous
      <4>1. t.does = "free" => Erroneous
        BY <1>6, <1>2 DEF Judged
      <4>2. Forgets(t) => Erroneous
        BY DEF Forgets, Untyped, Erroneous
      <4>3. s = NULL => t.id # s
        BY <1>0, <1>2, PartsAreAllocated DEF Live, NULL
      <4> QED
        BY <4>1, <4>2, <4>3, <1>1 DEF HandedFor
    <3> QED
      BY <3>1, <3>2, <1>3
  <2>3. Right(Header(x))'
    <3>1. Right(Header(x))
      BY <2>1, <1>6, <1>2 DEF Judged
    <3>2. ExprsOf(x)' = ExprsOf(x)
      <4> PICK st : st = Node(x).stmts
        OBVIOUS
      <4> PICK r : r = parts[x]
        OBVIOUS
      <4>1. r \in Seq(Int) /\ parts'[x] = [r EXCEPT ![sl] = s]
        BY <1>0, <1>2, <1>5 DEF Types, Live
      <4>2. sl \in Nat /\ sl <= st
        <5>1. Kind(x) = "IF" => st = 2 /\ sl = 1
          BY <1>0, <1>5, StatementFacts
        <5>2. Kind(x) # "IF" => sl = c.turn /\ Analysed(x) = st
          BY DEF Analysed, Kind
        <5>3. c.turn \in Nat /\ c.turn <= Analysed(x)
          BY <1>2, <1>5
        <5> QED
          BY <5>1, <5>2, <5>3
      <4>3. st \in Nat
        BY <1>0, <1>5, ProgramIsTree
      <4> PICK q : q = parts'[x]
        OBVIOUS
      <4>4. q = [r EXCEPT ![sl] = s]
        BY <4>1
      <4>5. Len(q) = Len(r) /\ \A i \in st + 1 .. Len(r) : q[i] = r[i]
        BY ONLY <4>1, <4>4, <4>2, <4>3
      <4>6. ExprsOf(x) = {r[i] : i \in st + 1 .. Len(r)}
        BY DEF ExprsOf
      <4>7. ExprsOf(x)' = {q[i] : i \in st + 1 .. Len(q)}
        BY SameProgram DEF ExprsOf
      <4> QED
        BY ONLY <4>5, <4>6, <4>7
    <3> QED
      BY <3>1, <3>2, HeaderStays
  <2>4. calls'[m].ok => \A i \in 1 .. c.turn : P[x][i] # NULL => Clean(P[x][i])
    <3> SUFFICES ASSUME calls'[m].ok, NEW i \in 1 .. c.turn, P[x][i] # NULL
                 PROVE  Clean(P[x][i])
      OBVIOUS
    <3>1. c.ok /\ s # NULL
      BY <1>3
    <3>2. CASE i \in 1 .. c.turn - 1
      BY <3>1, <3>2, <2>1, <1>6 DEF Judged
    <3>3. CASE i = c.turn
      BY <3>1, <3>3, <1>1, <1>5 DEF HandedFor
    <3> QED
      BY ONLY <3>2, <3>3, <1>2, i \in 1 .. c.turn
  <2>5. 1 .. calls'[m].turn - 1 = 1 .. c.turn
    BY ONLY <1>2
  <2>6. calls'[m].id = x /\ (Right(Header(calls[m].id))' <=> Right(Header(x))')
    BY <1>2
  <2> QED
    BY <2>1, <2>2, <2>3, <2>4, <2>5, <2>6, <1>0, <1>2 DEF Judged
<1>10. \A k \in 1 .. m : k \in 1 .. m - 1 \/ k = m
  BY ONLY <1>2
<1>11. \A k \in 1 .. Len(calls') : Judged(k)'
  BY <1>2, <1>8, <1>9, <1>10
<1> QED
  BY <1>7, <1>11 DEF VerdictInv

LEMMA VerdictStays ==
  ASSUME TreeInv, VerdictInv, program' = program, parts' = parts, freed' = freed, calls' = calls
  PROVE  VerdictInv'
<1>0. N' = N /\ P' = P /\ Erroneous' = Erroneous
  BY SameProgram
<1>1. Nulled'
  BY <1>0 DEF VerdictInv, Nulled, Live
<1>2. ASSUME NEW k \in 1 .. Len(calls)
      PROVE  Judged(k)'
  <2> PICK z : z = calls[k].id
    OBVIOUS
  <2>1. k \in Nat /\ Judged(k)
    BY CallsAreNumbered DEF VerdictInv
  <2>2. Right(Header(z))' <=> Right(Header(z))
    BY SameParts, HeaderStays
  <2>3. calls[k].does = "check" /\ z \in N /\ (calls[k].turn > 1 \/ k < Len(calls')) => Right(Header(z))'
    BY <2>1, <2>2 DEF Judged
  <2>4. calls[k].does = "check" /\ k < Len(calls') /\ calls'[k + 1].does = "free" => Erroneous
    BY <2>1 DEF Judged
  <2> QED
    BY ONLY <2>1, <2>3, <2>4, program' = program, calls' = calls, parts' = parts, freed' = freed, z = calls[k].id, JudgedStays
<1> QED
  BY <1>1, <1>2 DEF VerdictInv

\* What has been analysed without an error has none, whatever an analysis or a deletion does.
LEMMA StepPreservesVerdict ==
  ASSUME TreeInv, VerdictInv, program' = program, Goes
  PROVE  VerdictInv'
<1>1. CASE gone' = "" /\ Effect
  BY <1>1, CallPreservesVerdict, GoingOnPreservesVerdict, ConstructionPreservesVerdict,
     DeclarationPreservesVerdict, HandingBackPreservesVerdict, EndPreservesVerdict DEF Effect
<1>2. CASE parts' = parts /\ freed' = freed /\ calls' = calls
  BY <1>2, VerdictStays
<1> QED
  BY <1>1, <1>2 DEF Goes

-----------------------------------------------------------------------------
(* What is freed is freed with all below it.                               *)

LEMMA StaysForgotten ==
  ASSUME program' = program, NEW f \in Forgotten, f \in Live => f \in Live'
  PROVE  f \in Forgotten'
BY SameProgram DEF Forgotten

\* When a node is freed, nothing below it is in use any more.
LEMMA FreedIsDead ==
  ASSUME TreeInv, DeadInv, program' = program, calls # <<>>,
         NEW t, t = calls[Len(calls)], NEW x, x = t.id,
         t.does = "free", t.turn > Len(parts[x]),
         x \in N \/ Kind(-x) = "ASSIGNMENT",
         DOMAIN parts' = DOMAIN parts, freed' = freed \union {x}
  PROVE  Dead(Origin(x))'
<1> PICK n : n = Len(calls)
  OBVIOUS
<1>0. /\ program \in Programs /\ Types /\ Pointers /\ n \in Nat /\ n > 0 /\ n \in 1 .. Len(calls) /\ t = calls[n]
      /\ x \in Live /\ x \in DOMAIN parts /\ x \in Int /\ t.turn \in Nat /\ parts[x] \in Seq(Int)
      /\ Running(n) /\ Behind(n) /\ DeadBelow(n)
  <2>1. n \in Nat /\ n > 0 /\ program \in Programs
    BY CallsAreNumbered
  <2>2. n \in 1 .. n
    BY ONLY <2>1
  <2>3. x \in Live /\ x \in Int /\ t.turn \in Nat /\ parts[x] \in Seq(Int)
    BY <2>2, CallsAreNumbered
  <2> QED
    BY <2>1, <2>2, <2>3 DEF TreeInv, Walks, DeadInv, Live
<1>1. Live' = Live \ {x}
  BY DEF Live
<1>2. \A y : Under(y)' = Under(y)
  BY SameProgram
<1>5. \A f \in Forgotten : f # x => f \in Forgotten'
  BY <1>1, StaysForgotten
<1>3. CASE x \in N
  <2>1. Origin(x) = x /\ Origin(-x) = x /\ x # -x /\ x \in Under(x) /\ -(-x) = x
    BY <1>0, <1>3, Origins, ProgramIsTree
  <2> SUFFICES ASSUME NEW y \in Live, y # x, Origin(y) \in Under(x)
               PROVE  \E f \in Forgotten : f # x /\ f \in Under(x) /\ Origin(y) \in Under(f)
    BY <1>1, <1>2, <1>5, <2>1 DEF Dead
  <2>2. CASE Origin(y) = x
    <3>1. y = -x /\ y \in DOMAIN parts /\ y \notin N
      <4>1. y \in Int /\ y \in DOMAIN parts
        BY <1>0 DEF Live, Types
      <4>2. y = -x
        BY <4>1, <2>2, <1>0 DEF Origin
      <4> QED
        BY <4>1, <4>2, <1>0, <1>3, NewNodes
    <3>2. NewNode(-x)
      BY <3>1, <1>0 DEF Pointers
    <3>3. parts[x] = <<-x>>
      BY <3>2, <2>1, <1>0 DEF NewNode, Live
    <3>4. Len(parts[x]) = 1 /\ parts[x][1] = -x
      BY <3>3
    <3>5. 1 \in 1 .. t.turn - 1
      BY ONLY <3>4, <1>0, t.turn > Len(parts[x])
    <3>6. -x \notin Live
      BY <3>4, <3>5, <1>0 DEF Behind
    <3> QED
      BY <3>1, <3>6
  <2>3. CASE Origin(y) # x
    <3>1. PICK i \in DOMAIN P[x] : P[x][i] # 0 /\ Origin(y) \in Under(P[x][i])
      BY <2>3, <1>0, <1>3, ProgramIsTree
    <3>2. x \notin Under(P[x][i]) /\ Under(P[x][i]) \subseteq Under(x)
      BY <3>1, <1>0, <1>3, ProgramIsTree
    <3>3. Len(parts[x]) = Len(P[x]) /\ P[x] \in Seq(N \union {0})
      BY <1>0, <1>3, PartsAreAsMany
    <3> PICK s : s = P[x]
      OBVIOUS
    <3> PICK l : l = Len(parts[x])
      OBVIOUS
    <3>4. s \in Seq(N \union {0}) /\ l = Len(s) /\ i \in DOMAIN s
      BY <3>3
    <3>5. l \in Nat /\ i \in 1 .. l
      BY ONLY <3>4
    <3>6. i \in 1 .. t.turn - 1
      <4>1. t.turn > l
        OBVIOUS
      <4> QED
        BY ONLY <4>1, <3>5, <1>0
    <3>7. ~(t.turn = 2 /\ Lost(x))
      <4> SUFFICES ASSUME t.turn = 2, Lost(x)
                   PROVE  FALSE
        OBVIOUS
      <4>1. 2 \in DOMAIN s
        BY DEF Lost
      <4>2. l >= 2
        BY ONLY <4>1, <3>4, <3>5
      <4>3. t.turn > l
        OBVIOUS
      <4> QED
        BY ONLY <4>2, <4>3, t.turn = 2, <3>5
    <3>8. Dead(P[x][i])
      BY <3>1, <3>6, <3>7, <1>0, <1>3 DEF DeadBelow, NULL
    <3>9. PICK f \in Forgotten : f \in Under(P[x][i]) /\ Origin(y) \in Under(f)
      BY <3>1, <3>8 DEF Dead
    <3> QED
      BY <3>2, <3>9
  <2> QED
    BY <2>2, <2>3
<1>4. CASE x \notin N
  <2> PICK a : a = -x
    OBVIOUS
  <2>1. a \in N /\ a \in freed /\ Kind(a) = "ASSIGNMENT" /\ Len(P[a]) = 2 /\ P[a][2] # 0 /\ parts[x] = <<P[a][2]>>
    <3>1. NewNode(x)
      BY <1>0, <1>4 DEF Pointers
    <3> QED
      BY <3>1, <1>4 DEF NewNode, NULL
  <2>2. x = -a /\ Origin(x) = a /\ a \in Under(a) /\ P[a] \in Seq(N \union {0})
    <3>1. x = -a
      BY <1>0
    <3> QED
      BY <3>1, <2>1, <1>0, Origins, ProgramIsTree
  <2>3. t.turn = 2
    <3>1. Len(parts[x]) = 1
      BY <2>1
    <3>2. t.turn <= Len(parts[x]) + 1 /\ t.turn > Len(parts[x])
      BY <1>0 DEF Running
    <3> QED
      BY ONLY <3>1, <3>2, <1>0
  <2>4. Dead(P[a][1]) /\ Dead(P[a][2])
    BY <2>1, <2>3, <1>0, <1>4 DEF DeadInv, DeadBelow
  <2> SUFFICES ASSUME NEW y \in Live, y # x, Origin(y) \in Under(a)
               PROVE  \E f \in Forgotten : f # x /\ f \in Under(a) /\ Origin(y) \in Under(f)
    BY <1>1, <1>2, <1>5, <2>2 DEF Dead
  <2>5. Origin(y) # a
    <3>1. y \in Int
      BY <1>0 DEF Live, Types
    <3>2. Origin(y) = a => y \in {a, -a}
      BY <3>1 DEF Origin
    <3> QED
      BY <3>2, <2>1, <2>2 DEF Live
  <2>6. PICK i \in DOMAIN P[a] : P[a][i] # 0 /\ Origin(y) \in Under(P[a][i])
    BY <2>1, <2>5, <1>0, ProgramIsTree
  <2>7. i \in {1, 2}
    <3> PICK s : s = P[a]
      OBVIOUS
    <3>1. s \in Seq(N \union {0}) /\ Len(s) = 2 /\ i \in DOMAIN s
      BY <2>1, <2>2
    <3> QED
      BY ONLY <3>1
  <2>8. PICK f \in Forgotten : f \in Under(P[a][i]) /\ Origin(y) \in Under(f)
    BY <2>4, <2>6, <2>7 DEF Dead
  <2>9. f \in Under(a) /\ f \in N
    BY <2>1, <2>6, <2>8, <1>0, ProgramIsTree
  <2> QED
    BY <2>8, <2>9, <1>4
<1> QED
  BY <1>3, <1>4

\* What is not in use any more does not come back: what was forgotten is freed with what is
\* below it, and what the validator allocates stands for something that is in use.
LEMMA DeadStays ==
  ASSUME program \in Programs, program' = program,
         \A y \in Live' : \E z \in Live : Origin(z) = Origin(y),
         \A f \in Forgotten : f \in Forgotten' \/ Dead(f)',
         NEW x \in N, Dead(x)
  PROVE  Dead(x)'
<1>1. \A y : Under(y)' = Under(y)
  BY SameProgram
<1> SUFFICES ASSUME NEW y \in Live', Origin(y) \in Under(x)
             PROVE  \E f \in Forgotten' : f \in Under(x) /\ Origin(y) \in Under(f)
  BY <1>1 DEF Dead
<1>2. PICK z \in Live : Origin(z) = Origin(y)
  OBVIOUS
<1>3. PICK f \in Forgotten : f \in Under(x) /\ Origin(y) \in Under(f)
  BY <1>2 DEF Dead
<1>4. CASE f \in Forgotten'
  BY <1>3, <1>4
<1>5. CASE Dead(f)'
  <2>1. PICK g \in Forgotten' : g \in Under(f) /\ Origin(y) \in Under(g)
    BY <1>1, <1>3, <1>5 DEF Dead
  <2>2. g \in Under(x)
    BY <1>3, <2>1, ProgramIsTree
  <2> QED
    BY <2>1, <2>2
<1> QED
  BY <1>3, <1>4, <1>5

(* A step keeps what is dead dead, and what is lost lost. *)
Keeps == \A z \in N : (Dead(z) => Dead(z)') /\ (Lost(z) => Lost(z)')

LEMMA DeadBelowStays ==
  ASSUME TreeInv, program' = program, Keeps, NEW k \in 1 .. Len(calls), DeadBelow(k), calls'[k] = calls[k]
  PROVE  DeadBelow(k)'
<1> PICK c : c = calls[k]
  OBVIOUS
<1> PICK x : x = c.id
  OBVIOUS
<1>0. /\ program \in Programs /\ Types /\ Pointers /\ calls'[k] = c /\ Running(k)
      /\ N' = N /\ P' = P /\ \A y : Kind(y)' = Kind(y)
      /\ c.turn \in Nat /\ c.turn > 0 /\ parts[x] \in Seq(Int) /\ x \in Live /\ x \in DOMAIN parts
  BY CallsAreNumbered, SameProgram DEF TreeInv, Walks, Live
<1>1. ASSUME c.does = "free", x \in N, NEW i \in 1 .. c.turn - 1
      PROVE  P[x][i] = NULL \/ Dead(P[x][i])' \/ (c.turn = 2 /\ Lost(x)')
  <2> PICK s : s = P[x]
    OBVIOUS
  <2> PICK l : l = Len(parts[x])
    OBVIOUS
  <2>1. s \in Seq(N \union {0}) /\ Len(s) = l
    BY <1>0, <1>1, PartsAreAsMany
  <2>2. c.turn <= l + 1
    BY <1>0 DEF Running
  <2>3. i \in DOMAIN s /\ s[i] \in N \union {0}
    BY ONLY <2>1, <2>2, <1>0, i \in 1 .. c.turn - 1
  <2>4. P[x][i] = NULL \/ Dead(P[x][i]) \/ (c.turn = 2 /\ Lost(x))
    BY <1>1 DEF DeadBelow
  <2>5. P[x][i] \in N \/ P[x][i] = NULL
    BY <2>3 DEF NULL
  <2> PICK z : z = P[x][i]
    OBVIOUS
  <2>6. z = NULL \/ Dead(z)' \/ (c.turn = 2 /\ Lost(x)')
    BY <2>4, <2>5, <1>1 DEF Keeps
  <2>7. Dead(z)' = Dead(P[x][i])'
    BY <1>0
  <2> QED
    BY <2>6, <2>7
<1>2. ASSUME c.does = "free", x \notin N, Kind(-x) = "ASSIGNMENT", c.turn = 2
      PROVE  Dead(P[-x][2])'
  <2>1. Dead(P[-x][2])
    BY <1>2 DEF DeadBelow
  <2>2. P[-x][2] \in N
    <3>1. NewNode(x)
      BY <1>0, <1>2 DEF Pointers
    <3>2. -x \in N /\ 2 \in DOMAIN P[-x] /\ P[-x][2] # 0
      BY <3>1, <1>2 DEF NewNode, NULL
    <3> QED
      BY <3>2, <1>0, ProgramIsTree
  <2> PICK z : z = P[-x][2]
    OBVIOUS
  <2>3. Dead(z)'
    BY <2>1, <2>2 DEF Keeps
  <2>4. Dead(z)' = Dead(P[-x][2])'
    BY <1>0
  <2> QED
    BY <2>3, <2>4
<1>3. ASSUME c.does = "declare", c.turn = 2
      PROVE  Dead(P[x][1])'
  <2>1. Dead(P[x][1])
    BY <1>3 DEF DeadBelow
  <2>2. P[x][1] \in N
    <3>1. x \in N /\ Kind(x) = "ASSIGNMENT" /\ program.parsed = "ok"
      BY <1>0, <1>3 DEF Running
    <3> PICK s : s = P[x]
      OBVIOUS
    <3>2. s \in Seq(N \union {0}) /\ Len(s) = 2
      BY <3>1, <1>0, StatementFacts, ProgramIsTree
    <3>3. 1 \in DOMAIN s
      BY ONLY <3>2
    <3>4. P[x][1] # 0
      BY <3>1, <3>3, <1>0, StatementFacts
    <3> QED
      BY <3>1, <3>3, <3>4, <1>0, ProgramIsTree
  <2> PICK z : z = P[x][1]
    OBVIOUS
  <2>3. Dead(z)'
    BY <2>1, <2>2 DEF Keeps
  <2>4. Dead(z)' = Dead(P[x][1])'
    BY <1>0
  <2> QED
    BY <2>3, <2>4
<1>4. calls'[k] = c /\ calls'[k].id = x
  BY <1>0
<1> QED
  BY <1>0, <1>1, <1>2, <1>3, <1>4 DEF DeadBelow

LEMMA NulledStays ==
  ASSUME TreeInv, DeadInv, program' = program, Keeps,
         NEW y \in Live, y \in N,
         NEW i \in DOMAIN P[y], P[y][i] # NULL, parts[y][i] = NULL
  PROVE  Dead(P[y][i])' \/ Lost(y)'
<1> PICK z : z = P[y][i]
  OBVIOUS
<1>1. z \in N
  BY CallsAreNumbered, ProgramIsTree DEF NULL
<1>2. Dead(z) \/ Lost(y)
  BY DEF DeadInv
<1>3. Dead(z)' \/ Lost(y)'
  BY <1>1, <1>2 DEF Keeps
<1>4. Dead(z)' = Dead(P[y][i])'
  BY SameProgram
<1> QED
  BY <1>3, <1>4

LEMMA TargetsStay ==
  ASSUME TreeInv, DeadInv, program' = program, Keeps, NEW y \in Live, y \notin N, Kind(-y) = "ASSIGNMENT"
  PROVE  Dead(P[-y][1])'
<1>0. program \in Programs /\ Types /\ Pointers /\ y \in DOMAIN parts
  BY DEF TreeInv, Types, Live
<1> PICK a : a = -y
  OBVIOUS
<1>1. a \in N /\ Len(P[a]) = 2
  BY <1>0 DEF Pointers, NewNode
<1>2. program.parsed = "ok"
  <2>1. DOMAIN P = N
    BY <1>0, ProgramsAssumption DEF IsTree, N, P
  <2> QED
    BY <2>1, <1>0 DEF DeadInv
<1> PICK s : s = P[a]
  OBVIOUS
<1>3. s \in Seq(N \union {0}) /\ Len(s) = 2
  BY <1>0, <1>1, ProgramIsTree
<1>4. 1 \in DOMAIN s
  BY ONLY <1>3
<1>5. P[a][1] # 0
  BY <1>0, <1>1, <1>2, <1>4, StatementFacts
<1> PICK z : z = P[a][1]
  OBVIOUS
<1>6. z \in N
  BY <1>0, <1>1, <1>4, <1>5, ProgramIsTree
<1>7. Dead(z)
  BY DEF DeadInv
<1>8. Dead(z)'
  BY <1>6, <1>7 DEF Keeps
<1>9. Dead(z)' = Dead(P[-y][1])'
  BY SameProgram
<1> QED
  BY <1>8, <1>9

\* Nothing becomes less dead when nothing is allocated and no more than the calls changes.
LEMMA KeepsWhole ==
  ASSUME program' = program, parts' = parts, freed' = freed
  PROVE  Keeps
<1>1. Live' = Live /\ Forgotten' = Forgotten
  BY SameProgram DEF Live, Forgotten
<1> QED
  BY <1>1, SameProgram DEF Keeps, Dead, Lost

LEMMA CallsPreserveDead ==
  ASSUME TreeInv, DeadInv, program' = program, parts' = parts, freed' = freed,
         \A k \in 1 .. Len(calls') : DeadBelow(k)'
  PROVE  DeadInv'
<1>0. N' = N /\ P' = P /\ Live' = Live /\ Keeps /\ \A y : Kind(y)' = Kind(y)
  BY SameProgram, KeepsWhole DEF Live
<1>1. program'.parsed = "ok" \/ parts' = P'
  BY <1>0 DEF DeadInv
<1>2. ASSUME NEW y \in Live, y \in N, NEW i \in DOMAIN P[y], P[y][i] # NULL, parts[y][i] = NULL
      PROVE  Dead(P[y][i])' \/ Lost(y)'
  BY <1>0, <1>2, NulledStays
<1>3. ASSUME NEW y \in Live, y \notin N, Kind(-y) = "ASSIGNMENT"
      PROVE  Dead(P[-y][1])'
  BY <1>0, <1>3, TargetsStay
<1> QED
  BY <1>0, <1>1, <1>2, <1>3 DEF DeadInv

LEMMA CallPreservesDead ==
  ASSUME TreeInv, DeadInv, program' = program, NEW d, NEW p, Calls1(d, p)
  PROVE  DeadInv'
<1> PICK n : n = Len(calls)
  OBVIOUS
<1> PICK c : c = Call(d, p, TRUE)
  OBVIOUS
<1>0. n \in Nat /\ Types
  BY CallsAreNumbered DEF TreeInv
<1>1. /\ parts' = parts /\ freed' = freed
      /\ Len(calls') = n + 1 /\ calls'[n + 1] = c /\ \A k \in 1 .. n : calls'[k] = calls[k]
  <2>1. calls \in Seq(Calls) /\ calls' = Append(calls, c) /\ parts' = parts /\ freed' = freed
    BY <1>0 DEF Types, Calls1
  <2>2. Len(Append(calls, c)) = n + 1 /\ Append(calls, c)[n + 1] = c /\ \A k \in 1 .. n : Append(calls, c)[k] = calls[k]
    BY ONLY <2>1, n = Len(calls)
  <2> QED
    BY <2>1, <2>2
<1>2. Keeps
  BY <1>1, KeepsWhole
<1>3. ASSUME NEW k \in 1 .. n
      PROVE  DeadBelow(k)'
  <2>1. DeadBelow(k) /\ calls'[k] = calls[k]
    BY <1>1 DEF DeadInv
  <2> QED
    BY <2>1, <1>2, DeadBelowStays
<1>4. DeadBelow(n + 1)'
  <2>1. c.turn = 1 /\ ~(c.turn = 2) /\ 1 .. c.turn - 1 = {}
    <3>1. c.turn = 1
      BY DEF Call
    <3> QED
      BY ONLY <3>1
  <2> QED
    BY <2>1, <1>1 DEF DeadBelow
<1>5. \A k \in 1 .. n + 1 : k \in 1 .. n \/ k = n + 1
  BY ONLY <1>0
<1>6. \A k \in 1 .. Len(calls') : DeadBelow(k)'
  BY <1>1, <1>3, <1>4, <1>5
<1> QED
  BY <1>1, <1>6, CallsPreserveDead

\* The pointer to an else branch does not change.
LEMMA ElseStays ==
  ASSUME Types, Pointers, NEW x \in N, Kind(x) = "IF"
  PROVE  parts[x][2] = P[x][2]
<1>1. NodeStands(x)
  BY DEF Pointers
<1> QED
  BY <1>1 DEF NodeStands

LEMMA GoingOnPreservesDead ==
  ASSUME TreeInv, DeadInv, program' = program, NEW c, GoesOn(c)
  PROVE  DeadInv'
<1> PICK n : n = Len(calls)
  OBVIOUS
<1> PICK t : t = calls[n]
  OBVIOUS
<1> PICK x : x = t.id
  OBVIOUS
<1>0. /\ program \in Programs /\ Types /\ Pointers /\ n \in Nat /\ n > 0 /\ n \in 1 .. n /\ Top = t /\ Running(n)
      /\ x \in Live /\ x \in DOMAIN parts /\ t.turn \in Nat /\ t.turn > 0 /\ DeadBelow(n)
      /\ N' = N /\ P' = P /\ \A y : Kind(y)' = Kind(y)
  <2>1. calls # <<>>
    BY DEF GoesOn
  <2>2. n \in Nat /\ n > 0 /\ Top = t
    BY <2>1, CallsAreNumbered
  <2>3. n \in 1 .. n
    BY ONLY <2>2
  <2>4. x \in Live /\ t.turn \in Nat /\ t.turn > 0 /\ program \in Programs
    BY <2>3, CallsAreNumbered
  <2> QED
    BY <2>2, <2>3, <2>4, SameProgram DEF TreeInv, Walks, Live, DeadInv
<1>1. /\ parts' = parts /\ freed' = freed /\ Len(calls') = n /\ calls'[n] = c /\ \A k \in 1 .. n - 1 : calls'[k] = calls[k]
  <2>1. calls \in Seq(Calls) /\ calls # <<>> /\ c \in Calls /\ calls' = [calls EXCEPT ![n] = c] /\ parts' = parts /\ freed' = freed
    BY <1>0 DEF Types, GoesOn
  <2> QED
    BY ONLY <2>1, n = Len(calls), ReplaceFacts
<1>2. Keeps
  BY <1>1, KeepsWhole
<1>3. ASSUME NEW k \in 1 .. n - 1
      PROVE  DeadBelow(k)'
  <2>0. k \in 1 .. n
    BY ONLY <1>0, k \in 1 .. n - 1
  <2>1. DeadBelow(k) /\ calls'[k] = calls[k]
    BY <2>0, <1>1 DEF DeadInv
  <2> QED
    BY <2>0, <2>1, <1>2, DeadBelowStays
<1>4. DeadBelow(n)'
  <2>1. CASE c.turn = 1
    <3>1. ~(c.turn = 2) /\ 1 .. c.turn - 1 = {}
      BY ONLY <2>1
    <3> QED
      BY <3>1, <1>1 DEF DeadBelow
  <2>2. CASE c.does = "free" /\ t.does = "free" /\ c.turn = t.turn + 1 /\ c.id = x /\ t.turn <= Len(parts[x]) /\ parts[x][t.turn] = NULL
    <3> PICK m : m = t.turn
      OBVIOUS
    <3>0. m \in DOMAIN parts[x]
      <4> PICK r : r = parts[x]
        OBVIOUS
      <4>1. r \in Seq(Int) /\ m <= Len(r)
        BY <2>2, <1>0 DEF Types
      <4>2. m \in DOMAIN r
        BY ONLY <4>1, <1>0, m = t.turn
      <4> QED
        BY <4>2
    <3>1. ASSUME x \in N, NEW i \in 1 .. m
          PROVE  P[x][i] = NULL \/ Dead(P[x][i]) \/ (m = 1 /\ Lost(x))
      <4>1. CASE i \in 1 .. m - 1
        <5>1. P[x][i] = NULL \/ Dead(P[x][i]) \/ (m = 2 /\ Lost(x))
          BY <3>1, <4>1, <2>2, <1>0 DEF DeadBelow
        <5>2. ~(m = 2 /\ Lost(x))
          <6> SUFFICES ASSUME m = 2, Lost(x)
                       PROVE  FALSE
            OBVIOUS
          <6>1. Kind(x) = "IF" /\ P[x][2] # NULL
            BY DEF Lost
          <6>2. parts[x][2] = P[x][2]
            BY <6>1, <3>1, <1>0, ElseStays
          <6> QED
            BY <6>1, <6>2, <2>2
        <5> QED
          BY <5>1, <5>2
      <4>2. CASE i = m /\ P[x][m] # NULL
        <5>0. m \in DOMAIN P[x]
          BY <3>0, <3>1, <1>0, PartsAreAsMany
        <5>1. Dead(P[x][m]) \/ Lost(x)
          BY <5>0, <4>2, <3>1, <2>2, <1>0 DEF DeadInv
        <5>2. Lost(x) => m = 1
          <6> SUFFICES ASSUME Lost(x)
                       PROVE  m = 1
            OBVIOUS
          <6>1. Kind(x) = "IF" /\ parts[x][2] = P[x][2] /\ P[x][2] # NULL
            BY <3>1, <1>0, ElseStays DEF Lost
          <6>2. m # 2
            BY <6>1, <2>2
          <6>3. program.parsed = "ok"
            BY <4>2, <2>2 DEF DeadInv
          <6>4. Len(P[x]) = 3 /\ Node(x).stmts = 2
            BY <6>1, <6>3, <3>1, <1>0, StatementFacts
          <6>5. m \in 1 .. 3
            <7> PICK s : s = P[x]
              OBVIOUS
            <7>1. s \in Seq(N \union {0}) /\ Len(s) = 3 /\ m \in DOMAIN s
              BY <6>4, <5>0, <3>1, <1>0, ProgramIsTree
            <7> QED
              BY ONLY <7>1
          <6>6. m # 3
            <7> SUFFICES ASSUME m = 3
                         PROVE  FALSE
              OBVIOUS
            <7>1. 3 > Node(x).stmts
              BY ONLY <6>4
            <7>2. parts[x][3] = P[x][3]
              BY <7>1, <6>1, <6>3, <5>0, <3>1, <1>0, ExprsStay
            <7> QED
              BY <7>2, <4>2, <2>2
          <6> QED
            BY ONLY <6>2, <6>5, <6>6
        <5> QED
          BY <5>1, <5>2, <4>2
      <4>3. CASE i = m /\ P[x][m] = NULL
        BY <4>3
      <4> QED
        BY ONLY <4>1, <4>2, <4>3, <1>0, i \in 1 .. m, m = t.turn
    <3>2. ASSUME x \in N, NEW i \in 1 .. m
          PROVE  P[x][i] = NULL \/ Dead(P[x][i])' \/ (m = 1 /\ Lost(x)')
      <4>1. P[x][i] = NULL \/ P[x][i] \in N
        <5> PICK s : s = P[x]
          OBVIOUS
        <5>1. s \in Seq(N \union {0}) /\ m \in DOMAIN s
          BY <3>0, <3>2, <1>0, PartsAreAsMany
        <5>2. s[i] \in N \union {0}
          BY ONLY <5>1, i \in 1 .. m
        <5> QED
          BY <5>2 DEF NULL
      <4> PICK z : z = P[x][i]
        OBVIOUS
      <4>2. z = NULL \/ Dead(z)' \/ (m = 1 /\ Lost(x)')
        BY <3>1, <3>2, <4>1, <1>2 DEF Keeps
      <4>3. Dead(z)' = Dead(P[x][i])'
        BY <1>0
      <4> QED
        BY <4>2, <4>3
    <3>3. x \notin N /\ Kind(-x) = "ASSIGNMENT" => c.turn # 2
      <4> SUFFICES ASSUME x \notin N, Kind(-x) = "ASSIGNMENT", c.turn = 2
                   PROVE  FALSE
        OBVIOUS
      <4>1. NewNode(x)
        BY <1>0 DEF Pointers
      <4>2. parts[x][1] # NULL
        BY <4>1 DEF NewNode
      <4>3. m = 1
        <5>1. m + 1 = 2
          BY <2>2
        <5> QED
          BY ONLY <5>1, <1>0, m = t.turn
      <4> QED
        BY <4>2, <4>3, <2>2
    <3>4. 1 .. c.turn - 1 = 1 .. m /\ (m = 1 => c.turn = 2)
      <4>1. c.turn = m + 1
        BY <2>2
      <4> QED
        BY ONLY <4>1, <1>0, m = t.turn
    <3> QED
      BY <3>2, <3>3, <3>4, <2>2, <1>0, <1>1 DEF DeadBelow
  <2>3. \/ c.turn = 1
        \/ c.does = "free" /\ t.does = "free" /\ c.turn = t.turn + 1 /\ c.id = x /\ t.turn <= Len(parts[x]) /\ parts[x][t.turn] = NULL
    BY <1>0 DEF GoesOn, Part, Parts
  <2> QED
    BY <2>1, <2>2, <2>3
<1>5. \A k \in 1 .. n : k \in 1 .. n - 1 \/ k = n
  BY ONLY <1>0
<1>6. \A k \in 1 .. Len(calls') : DeadBelow(k)'
  BY <1>1, <1>3, <1>4, <1>5
<1> QED
  BY <1>1, <1>6, CallsPreserveDead

LEMMA ConstructionPreservesDead ==
  ASSUME TreeInv, DeadInv, program' = program, ConstructVariable
  PROVE  DeadInv'
<1> PICK n : n = Len(calls)
  OBVIOUS
<1> PICK t : t = calls[n]
  OBVIOUS
<1> PICK x : x = t.id
  OBVIOUS
<1>0. Constructed(n, t, x)
  BY ConstructionFacts
<1>1. /\ program \in Programs /\ Types /\ Pointers /\ n \in Nat /\ n > 0 /\ n \in 1 .. n /\ Running(n)
      /\ calls' = calls /\ freed' = freed /\ t.does = "check" /\ Kind(x) = "VAR" /\ x \in Live
      /\ x \in N /\ x # -x /\ -x \notin N /\ x \in DOMAIN parts /\ -x # 0 /\ N \subseteq DOMAIN parts
  BY ONLY <1>0 DEF Constructed
<1>2. \A y \in DOMAIN parts \ {x, -x} : parts'[y] = parts[y]
  BY <1>0 DEF Constructed
<1>3. parts'[x] = <<-x>> /\ DOMAIN parts' = DOMAIN parts \union {-x}
  BY <1>0 DEF Constructed
<1>4. N' = N /\ P' = P /\ \A y : Kind(y)' = Kind(y)
  BY SameProgram
<1>5. Live \subseteq Live' /\ Live' \subseteq Live \union {-x}
  BY <1>1, <1>3 DEF Live
<1>6. Keeps
  <2>1. ASSUME NEW z \in N, Dead(z)
        PROVE  Dead(z)'
    <3>1. Origin(-x) = Origin(x)
      BY <1>1, Origins
    <3>2. \A y \in Live' : \E w \in Live : Origin(w) = Origin(y)
      BY <3>1, <1>1, <1>5
    <3>3. \A f \in Forgotten : f \in Forgotten'
      BY <1>5, StaysForgotten
    <3> QED
      BY <2>1, <3>2, <3>3, <1>1, DeadStays
  <2>2. ASSUME NEW z \in N, Lost(z)
        PROVE  Lost(z)'
    <3>1. Kind(z) = "IF"
      BY <2>2 DEF Lost
    <3>2. z # x /\ z # -x /\ z \in DOMAIN parts
      BY <3>1, <1>1
    <3>3. parts'[z] = parts[z]
      BY <3>2, <1>2
    <3> QED
      BY <2>2, <3>3, <1>1, <1>4 DEF Lost
  <2> QED
    BY <2>1, <2>2 DEF Keeps
<1>7. program'.parsed = "ok" \/ parts' = P'
  BY <1>1 DEF Running
<1>8. ASSUME NEW y \in Live', y \in N, NEW i \in DOMAIN P[y], P[y][i] # NULL, parts'[y][i] = NULL
      PROVE  Dead(P[y][i])' \/ Lost(y)'
  <2>1. y # x
    <3> SUFFICES ASSUME y = x
                 PROVE  FALSE
      OBVIOUS
    <3> PICK s : s = P[x]
      OBVIOUS
    <3>1. s \in Seq(N \union {0}) /\ Len(s) = 1 /\ i \in DOMAIN s
      BY <1>1, <1>8, StatementFacts, ProgramIsTree DEF Running
    <3>2. i = 1
      BY ONLY <3>1
    <3> QED
      BY <3>2, <1>1, <1>3, <1>8 DEF NULL
  <2>2. y # -x /\ y \in Live
    BY <1>1, <1>5, <1>8
  <2>3. parts'[y] = parts[y]
    BY <2>1, <2>2, <1>2 DEF Live
  <2> QED
    BY <2>2, <2>3, <1>6, <1>8, NulledStays
<1>9. ASSUME NEW y \in Live', y \notin N, Kind(-y) = "ASSIGNMENT"
      PROVE  Dead(P[-y][1])'
  <2>1. y # -x
    <3>1. -(-x) = x
      BY <1>1, ProgramIsTree
    <3> QED
      BY <3>1, <1>1, <1>9
  <2>2. y \in Live
    BY <2>1, <1>5
  <2> QED
    BY <2>2, <1>6, <1>9, TargetsStay
<1>10. ASSUME NEW k \in 1 .. Len(calls)
       PROVE  DeadBelow(k)'
  <2>1. DeadBelow(k) /\ calls'[k] = calls[k]
    BY <1>1 DEF DeadInv
  <2> QED
    BY <2>1, <1>6, DeadBelowStays
<1> QED
  BY <1>1, <1>4, <1>7, <1>8, <1>9, <1>10 DEF DeadInv

LEMMA DeclarationPreservesDead ==
  ASSUME TreeInv, DeadInv, program' = program, Declare
  PROVE  DeadInv'
<1> PICK n : n = Len(calls)
  OBVIOUS
<1> PICK t : t = calls[n]
  OBVIOUS
<1> PICK a : a = t.id
  OBVIOUS
<1> PICK c : c = Call("check", -a, Right({a}))
  OBVIOUS
<1>0. Declared(n, t, a)
  BY DeclareFacts
<1>1. /\ n \in Nat /\ n > 0 /\ n \in 1 .. n /\ program.parsed = "ok"
      /\ t.does = "declare" /\ t.turn = 2 /\ Kind(a) = "ASSIGNMENT"
      /\ a \in Live /\ a \in N /\ -a \notin N /\ -a \notin DOMAIN parts
      /\ -(-a) = a /\ Origin(-a) = a /\ Origin(a) = a
      /\ P[a][1] \in N
      /\ Len(calls') = n
      /\ \A k \in 1 .. n - 1 : calls'[k] = calls[k]
      /\ freed' = freed \union {a}
      /\ DOMAIN parts' = DOMAIN parts \union {-a}
      /\ \A x \in DOMAIN parts : parts'[x] = parts[x]
  BY ONLY <1>0 DEF Declared
<1>2. calls'[n] = c
  BY <1>0 DEF Declared
<1>3. program \in Programs /\ Types /\ Pointers /\ DeadBelow(n) /\ N \subseteq DOMAIN parts
  BY <1>1 DEF TreeInv, Types, DeadInv
<1>4. N' = N /\ P' = P /\ \A y : Kind(y)' = Kind(y)
  BY SameProgram
<1>5. Live' \subseteq (Live \ {a}) \union {-a} /\ Live \ {a} \subseteq Live'
  BY <1>1 DEF Live
<1>6. Keeps
  <2>1. ASSUME NEW z \in N, Dead(z)
        PROVE  Dead(z)'
    <3>1. \A y \in Live' : \E w \in Live : Origin(w) = Origin(y)
      BY <1>1, <1>5
    <3>2. a \notin Unreturning \union Untyped
      <4>1. Node(a) = program.node[a]
        BY <1>1, <1>3, ProgramIsTree
      <4>2. Node(a).declares
        BY <1>1 DEF TreeInv, Walks, Running
      <4>3. program.node[a].k = "ASSIGNMENT" /\ program.node[a].declares
        BY <4>1, <4>2, <1>1 DEF Kind
      <4> QED
        BY <4>3 DEF Unreturning, Untyped, Nodes
    <3>3. \A f \in Forgotten : f \in Forgotten'
      BY <3>2, <1>5, SameProgram DEF Forgotten
    <3> QED
      BY <2>1, <3>1, <3>3, <1>3, DeadStays
  <2>2. ASSUME NEW z \in N, Lost(z)
        PROVE  Lost(z)'
    BY <2>2, <1>1, <1>3, <1>4 DEF Lost
  <2> QED
    BY <2>1, <2>2 DEF Keeps
<1>7. program'.parsed = "ok" \/ parts' = P'
  BY <1>1
<1>8. ASSUME NEW y \in Live', y \in N, NEW i \in DOMAIN P[y], P[y][i] # NULL, parts'[y][i] = NULL
      PROVE  Dead(P[y][i])' \/ Lost(y)'
  <2>1. y \in Live
    BY <1>1, <1>5, <1>8
  <2>2. parts'[y] = parts[y]
    BY <2>1, <1>1 DEF Live
  <2> QED
    BY <2>1, <2>2, <1>6, <1>8, NulledStays
<1>9. ASSUME NEW y \in Live', y \notin N, Kind(-y) = "ASSIGNMENT"
      PROVE  Dead(P[-y][1])'
  <2>1. CASE y = -a
    <3>1. Dead(P[a][1])
      BY <1>1, <1>3 DEF DeadBelow
    <3> PICK z : z = P[a][1]
      OBVIOUS
    <3>2. Dead(z)'
      BY <3>1, <1>1, <1>6 DEF Keeps
    <3>3. Dead(z)' = Dead(P[-y][1])'
      BY <2>1, <1>1, <1>4
    <3> QED
      BY <3>2, <3>3
  <2>2. CASE y # -a
    <3>1. y \in Live
      BY <2>2, <1>5
    <3> QED
      BY <3>1, <1>6, <1>9, TargetsStay
  <2> QED
    BY <2>1, <2>2
<1>10. ASSUME NEW k \in 1 .. n - 1
       PROVE  DeadBelow(k)'
  <2>0. k \in 1 .. n
    BY ONLY <1>1, k \in 1 .. n - 1
  <2>1. DeadBelow(k) /\ calls'[k] = calls[k]
    BY <2>0, <1>1 DEF DeadInv
  <2> QED
    BY <2>0, <2>1, <1>6, DeadBelowStays
<1>11. DeadBelow(n)'
  BY <1>2 DEF DeadBelow, Call
<1>12. \A k \in 1 .. n : k \in 1 .. n - 1 \/ k = n
  BY ONLY <1>1
<1>13. \A k \in 1 .. Len(calls') : DeadBelow(k)'
  BY <1>1, <1>10, <1>11, <1>12
<1> QED
  BY <1>4, <1>7, <1>8, <1>9, <1>13 DEF DeadInv

\* A node that is freed by the innermost call is dead then; what was dead stays so.
LEMMA FreeingKeeps ==
  ASSUME TreeInv, DeadInv, program' = program, calls # <<>>,
         NEW t, t = calls[Len(calls)], t.does = "free", t.turn > Len(parts[t.id]),
         DOMAIN parts' = DOMAIN parts, freed' = freed \union {t.id},
         NEW z \in N, Dead(z)
  PROVE  Dead(z)'
<1> PICK x : x = t.id
  OBVIOUS
<1>0. program \in Programs
  BY DEF TreeInv, Types
<1>1. Live' = Live \ {x}
  BY DEF Live
<1>2. ASSUME NEW f \in Forgotten, f \notin Forgotten'
      PROVE  Dead(f)'
  <2>1. f = x /\ x \in N
    <3>1. f \in Live /\ f \notin Live'
      BY <1>2, StaysForgotten
    <3>2. f \in Unreturning \union Untyped
      BY <1>2, SameProgram DEF Forgotten
    <3> QED
      BY <3>1, <3>2, <1>1 DEF Unreturning, Untyped, Nodes, N
  <2>2. Dead(Origin(x))'
    BY <2>1, FreedIsDead
  <2>3. Origin(x) = x
    BY <2>1, <1>0, Origins
  <2>4. Dead(x)'
    <3> PICK o : o = Origin(x)
      OBVIOUS
    <3>1. Origin(x)' = o
      BY DEF Origin
    <3>2. Dead(o)'
      BY <2>2, <3>1
    <3> QED
      BY <3>2, <2>3
  <2> QED
    BY <2>1, <2>4
<1>3. \A y \in Live' : \E w \in Live : Origin(w) = Origin(y)
  BY <1>1
<1> QED
  BY <1>0, <1>2, <1>3, DeadStays

LEMMA EndPreservesDead ==
  ASSUME TreeInv, DeadInv, program' = program, Ends
  PROVE  DeadInv' /\ (Dead(program.head) /\ program.head \in freed)'
<1> PICK t : t = calls[Len(calls)]
  OBVIOUS
<1>0. /\ parts' = parts /\ calls' = <<>> /\ freed' = freed \union {t.id} /\ Len(calls) = 1 /\ Top = t
      /\ t.does = "free" /\ t.turn > Len(parts[t.id])
  BY DEF Ends, Top, Parts
<1>1. calls # <<>> /\ t.id = program.head /\ program \in Programs /\ t.id \in N
  <2>1. calls # <<>>
    <3>1. Len(calls) # 0
      BY <1>0
    <3> QED
      BY ONLY <3>1
  <2> QED
    BY <2>1, <1>0, ProgramIsTree DEF TreeInv, Walks, Types
<1>2. N' = N /\ P' = P /\ \A y : Kind(y)' = Kind(y)
  BY SameProgram
<1>3. Keeps
  <2>1. ASSUME NEW z \in N, Dead(z)
        PROVE  Dead(z)'
    BY <2>1, <1>0, <1>1, FreeingKeeps
  <2>2. ASSUME NEW z \in N, Lost(z)
        PROVE  Lost(z)'
    BY <2>2, <1>0, <1>2 DEF Lost
  <2> QED
    BY <2>1, <2>2 DEF Keeps
<1>4. Live' \subseteq Live
  BY <1>0 DEF Live
<1>5. DeadInv'
  <2>1. ASSUME NEW y \in Live', y \in N, NEW i \in DOMAIN P[y], P[y][i] # NULL, parts'[y][i] = NULL
        PROVE  Dead(P[y][i])' \/ Lost(y)'
    BY <2>1, <1>0, <1>3, <1>4, NulledStays
  <2>2. ASSUME NEW y \in Live', y \notin N, Kind(-y) = "ASSIGNMENT"
        PROVE  Dead(P[-y][1])'
    BY <2>2, <1>3, <1>4, TargetsStay
  <2>3. \A k \in 1 .. Len(calls') : DeadBelow(k)'
    BY <1>0
  <2>4. program'.parsed = "ok" \/ parts' = P'
    BY <1>0, <1>2 DEF DeadInv
  <2> QED
    BY <1>2, <2>1, <2>2, <2>3, <2>4 DEF DeadInv
<1>6. Dead(program.head)' /\ program'.head \in freed'
  <2>1. Dead(Origin(t.id))'
    BY <1>0, <1>1, FreedIsDead
  <2>2. Origin(t.id) = program.head
    BY <1>1, Origins
  <2> PICK o : o = Origin(t.id)
    OBVIOUS
  <2>3. Origin(t.id)' = o
    BY DEF Origin
  <2>4. Dead(o)'
    BY <2>1, <2>3
  <2>5. Dead(program.head)' = Dead(o)'
    BY <2>2
  <2> QED
    BY <2>4, <2>5, <1>0, <1>1
<1> QED
  BY <1>5, <1>6

\* An if that is still being analysed has not lost its else branch.
LEMMA NotLostYet ==
  ASSUME TreeInv, NEW m \in 1 .. Len(calls), NEW c, c = calls[m], NEW x, x = c.id,
         c.does = "check", x \in N, Kind(x) = "IF", c.turn <= Analysed(x), program.parsed = "ok",
         P[x][2] # NULL
  PROVE  parts[x][1] # P[x][2]
<1>0. program \in Programs /\ Running(m) /\ c.turn \in Nat
  BY CallsAreNumbered DEF TreeInv, Walks
<1>1. Node(x).stmts = 2 /\ Len(P[x]) = 3 /\ P[x][1] # 0
  BY <1>0, StatementFacts
<1>2. c.turn <= 2
  <2>1. Analysed(x) \in {1, 2}
    BY <1>1 DEF Analysed
  <2>2. c.turn <= Analysed(x)
    OBVIOUS
  <2> QED
    BY ONLY <2>1, <2>2, <1>0
<1>3. Stands(P[x][1], parts[x][1])
  BY <1>0, <1>2 DEF Running
<1>4. {1, 2} \subseteq DOMAIN P[x]
  <2> PICK s : s = P[x]
    OBVIOUS
  <2>1. s \in Seq(N \union {0}) /\ Len(s) = 3
    BY <1>0, <1>1, ProgramIsTree
  <2>2. {1, 2} \subseteq DOMAIN s
    BY ONLY <2>1
  <2> QED
    BY <2>2
<1>5. P[x][1] \in N /\ P[x][2] \in N
  BY <1>0, <1>1, <1>4, ProgramIsTree DEF NULL
<1>6. P[x][1] # P[x][2]
  BY <1>0, <1>1, <1>4, PartsAreDistinct
<1>7. P[x][2] # -P[x][1]
  BY <1>0, <1>5, NewNodes
<1> QED
  BY <1>3, <1>6, <1>7 DEF Stands

LEMMA HandingBackKeeps ==
  ASSUME TreeInv, DeadInv, program' = program, NEW s, HandsBack(s)
  PROVE  Keeps
<1> PICK n : n = Len(calls)
  OBVIOUS
<1> PICK m : m = n - 1
  OBVIOUS
<1> PICK t : t = calls[n]
  OBVIOUS
<1> PICK c : c = calls[m]
  OBVIOUS
<1> PICK x : x = c.id
  OBVIOUS
<1>0. program \in Programs /\ Types /\ N' = N /\ P' = P /\ \A y : Kind(y)' = Kind(y)
  BY CallsAreNumbered, SameProgram DEF TreeInv
<1>1. Handed(n, m, t, c, x, s) /\ HandedFor(t, c, s) /\ HandedTo(t, c, x, s)
  BY HandFacts
<1>2. m \in 1 .. n /\ n \in Nat /\ n > 0
  BY ONLY <1>1 DEF Handed
<1>3. /\ DOMAIN parts' = DOMAIN parts /\ \A y \in DOMAIN parts : y # x => parts'[y] = parts[y]
      /\ c.does # "check" => parts' = parts
      /\ c.does = "check" => x \in N /\ c.turn <= Analysed(x) /\ program.parsed = "ok"
  BY <1>1 DEF HandedTo
<1>4. freed \subseteq freed'
  BY <1>1 DEF HandedFor
<1>5. ASSUME NEW z \in N, Dead(z)
      PROVE  Dead(z)'
  <2>1. CASE freed' = freed
    <3>1. Live' = Live
      BY <2>1, <1>3 DEF Live
    <3>2. \A f \in Forgotten : f \in Forgotten'
      BY <3>1, StaysForgotten
    <3> QED
      BY <3>1, <3>2, <1>0, <1>5, DeadStays
  <2>2. CASE freed' = freed \union {t.id} /\ t.does = "free" /\ t.turn > Len(parts[t.id])
    <3>1. calls # <<>>
      <4>1. Len(calls) # 0
        BY <1>2
      <4> QED
        BY ONLY <4>1
    <3> QED
      BY <3>1, <2>2, <1>3, <1>5, FreeingKeeps
  <2> QED
    BY <2>1, <2>2, <1>1 DEF HandedFor
<1>6. ASSUME NEW z \in N, Lost(z)
      PROVE  Lost(z)'
  <2>0. Kind(z) = "IF" /\ 2 \in DOMAIN P[z] /\ P[z][2] # NULL /\ (parts[z][1] = P[z][2] \/ P[z][2] \in freed)
    BY <1>6 DEF Lost
  <2>1. CASE P[z][2] \in freed
    BY <2>0, <2>1, <1>0, <1>4 DEF Lost
  <2>2. CASE parts[z][1] = P[z][2]
    <3>1. parts'[z] = parts[z]
      <4>1. z \in DOMAIN parts
        BY <1>0 DEF Types
      <4>2. ~(z = x /\ c.does = "check")
        BY <2>0, <2>2, <1>2, <1>3, NotLostYet
      <4> QED
        BY <4>1, <4>2, <1>3
    <3> QED
      BY <2>0, <2>2, <3>1, <1>0 DEF Lost
  <2> QED
    BY <2>0, <2>1, <2>2
<1> QED
  BY <1>5, <1>6 DEF Keeps

\* What the innermost call has freed is dead.
LEMMA HandedIsDead ==
  ASSUME TreeInv, DeadInv, program' = program, NEW s, HandsBack(s),
         NEW t, t = calls[Len(calls)], t.does = "free",
         NEW o, o = Origin(t.id), t.id \in N \/ Kind(-t.id) = "ASSIGNMENT"
  PROVE  Dead(o)'
<1> PICK n : n = Len(calls)
  OBVIOUS
<1> PICK m : m = n - 1
  OBVIOUS
<1> PICK c : c = calls[m]
  OBVIOUS
<1> PICK x : x = c.id
  OBVIOUS
<1>1. Handed(n, m, t, c, x, s) /\ HandedFor(t, c, s) /\ HandedTo(t, c, x, s)
  BY HandFacts
<1>2. n \in Nat /\ n > 0
  BY ONLY <1>1 DEF Handed
<1>3. calls # <<>>
  <2>1. Len(calls) # 0
    BY <1>2
  <2> QED
    BY ONLY <2>1
<1>4. DOMAIN parts' = DOMAIN parts
  BY <1>1 DEF HandedTo
<1>5. freed' = freed \union {t.id} /\ t.turn > Len(parts[t.id])
  BY <1>1 DEF HandedFor
<1>6. Dead(Origin(t.id))'
  BY <1>3, <1>4, <1>5, FreedIsDead
<1>7. Origin(t.id)' = o
  BY DEF Origin
<1> QED
  BY <1>6, <1>7

\* A pointer that becomes NULL was the last one to what it pointed to, or the only one
\* to an else branch.
LEMMA StoredNullIsDead ==
  ASSUME TreeInv, DeadInv, program' = program, NEW s, HandsBack(s),
         NEW y \in Live', y \in N, NEW i \in DOMAIN P[y], P[y][i] # NULL, parts'[y][i] = NULL, parts[y][i] # NULL
  PROVE  Dead(P[y][i])' \/ Lost(y)'
<1> PICK n : n = Len(calls)
  OBVIOUS
<1> PICK m : m = n - 1
  OBVIOUS
<1> PICK t : t = calls[n]
  OBVIOUS
<1> PICK c : c = calls[m]
  OBVIOUS
<1> PICK x : x = c.id
  OBVIOUS
<1>0. program \in Programs /\ Types /\ Pointers /\ N' = N /\ P' = P /\ \A z : Kind(z)' = Kind(z)
  BY CallsAreNumbered, SameProgram DEF TreeInv
<1>1. Handed(n, m, t, c, x, s) /\ HandedFor(t, c, s) /\ HandedTo(t, c, x, s)
  BY HandFacts
<1>2. /\ m \in 1 .. n - 1 /\ n = m + 1 /\ x \in Live /\ t.id \in Live /\ c.turn \in Nat /\ c.turn > 0
  BY ONLY <1>1 DEF Handed
<1>3. \A z \in DOMAIN parts : z # x => parts'[z] = parts[z]
  BY <1>1 DEF HandedTo
<1>4. y = x /\ c.does = "check"
  <2>1. y \in DOMAIN parts
    BY <1>0 DEF Types
  <2> QED
    BY <2>1, <1>1, <1>3 DEF HandedTo
<1> PICK q : q = P[x][c.turn]
  OBVIOUS
<1> PICK sl : sl = IF Kind(x) = "IF" THEN 1 ELSE c.turn
  OBVIOUS
<1>5. /\ x \in N /\ Kind(x) \in Compound /\ c.turn <= Analysed(x) /\ program.parsed = "ok"
      /\ c.turn \in DOMAIN P[x] /\ q \in N /\ q # 0 /\ Origin(t.id) = q
      /\ parts'[x] = [parts[x] EXCEPT ![sl] = s]
  BY <1>1, <1>4 DEF HandedTo
<1>6. t.id = q \/ (t.id = -q /\ Kind(q) = "ASSIGNMENT" /\ -q \notin N)
  <2>1. m \in 1 .. Len(calls) - 1 /\ calls[m].does = "check" /\ calls[m + 1] = t
    BY <1>2, <1>4
  <2> QED
    BY <2>1, AnalysesGoDown
<1>7. i = sl /\ s = NULL
  <2>0. i \in DOMAIN parts[x]
    BY <1>0, <1>4, PartsAreAsMany
  <2>1. i = sl \/ parts'[x][i] = parts[x][i]
    BY <2>0, <1>5
  <2>2. i = sl
    BY <2>1, <1>4
  <2> QED
    BY <2>0, <2>2, <1>4, <1>5
<1>8. \/ freed' = freed \union {t.id} /\ t.does = "free"
      \/ freed' = freed /\ t.does = "check" /\ t.id \in Unreturning \union Untyped
  <2>1. t.id # NULL
    BY <1>0, <1>2, PartsAreAllocated DEF Live, NULL
  <2> QED
    BY <2>1, <1>1, <1>7 DEF HandedFor, Forgets
<1>9. /\ t.id \in Unreturning \union Untyped => t.id = q
      /\ t.id \in Unreturning => Kind(q) = "FN"
  <2>1. t.id \in Unreturning \union Untyped => t.id \in N
    BY DEF Unreturning, Untyped, Nodes, N
  <2>2. t.id \in Unreturning \union Untyped => t.id = q
    BY <2>1, <1>6
  <2> QED
    BY <2>2, <1>0, <1>5, ProgramIsTree DEF Unreturning, Nodes, Kind
<1>10. CASE sl = c.turn
  <2>1. t.does = "free" => Dead(q)'
    <3>1. t.id \in N \/ Kind(-t.id) = "ASSIGNMENT"
      <4>1. -(-q) = q
        BY <1>0, <1>5, ProgramIsTree
      <4> QED
        BY <4>1, <1>5, <1>6
    <3> QED
      BY <3>1, <1>5, HandedIsDead
  <2>2. t.id \in Unreturning \union Untyped /\ freed' = freed => Dead(q)'
    <3> SUFFICES ASSUME t.id \in Unreturning \union Untyped, freed' = freed
                 PROVE  Dead(q)'
      OBVIOUS
    <3>1. q \in Forgotten /\ q \in Under(q)
      BY <1>0, <1>2, <1>5, <1>9, ProgramIsTree DEF Forgotten
    <3>2. Live' = Live
      BY <1>1 DEF HandedTo, Live
    <3>3. q \in Forgotten' /\ Under(q)' = Under(q)
      BY <3>1, <3>2, SameProgram, StaysForgotten
    <3> QED
      BY <3>1, <3>3 DEF Dead
  <2>3. Dead(q)'
    BY <2>1, <2>2, <1>8
  <2>4. Dead(q)' = Dead(P[y][i])'
    BY <1>0, <1>4, <1>7, <1>10
  <2> QED
    BY <2>3, <2>4
<1>11. CASE sl # c.turn
  <2>1. Kind(x) = "IF" /\ c.turn # 1
    BY <1>11
  <2>2. c.turn = 2
    <3>1. Node(x).stmts = 2
      BY <2>1, <1>0, <1>5, StatementFacts
    <3>2. Analysed(x) \in {1, 2}
      BY <3>1 DEF Analysed
    <3> QED
      BY ONLY <2>1, <3>2, <1>2, <1>5
  <2>3. t.id \notin Unreturning
    <3>1. Kind(q) = "FN" => x = program.head \/ Kind(x) = "CLOSURE"
      BY <1>0, <1>5, StatementFacts
    <3>2. Kind(program.head) = "BLOCK"
      <4>1. program.node[program.head].k = "BLOCK"
        BY <1>0, <1>5, ProgramsAssumption DEF IsProgram
      <4> QED
        BY <4>1, <1>0, ProgramIsTree DEF Kind
    <3> QED
      BY <3>1, <3>2, <2>1, <1>9
  <2>6. CASE t.id \in Untyped
    <3>1. x \in Nodes({"IF"}) /\ program.parts[x][2] \in Untyped
      BY <2>1, <2>2, <2>6, <1>0, <1>5, <1>9, ProgramIsTree DEF Nodes, N, P, Kind
    <3> PICK p : p = P[x][1]
      OBVIOUS
    <3>2. p \in Overwritten
      BY <3>1 DEF Overwritten, P
    <3>3. p \in Forgotten'
      BY <3>2, SameProgram DEF Forgotten
    <3>4. Dead(p)'
      <4>1. p \in Under(p)
        <5>1. 1 \in DOMAIN P[x] /\ p # 0
          <6> PICK r : r = P[x]
            OBVIOUS
          <6>1. r \in Seq(N \union {0}) /\ Len(r) = 3 /\ p # 0
            BY <2>1, <1>0, <1>5, StatementFacts, ProgramIsTree
          <6>2. 1 \in DOMAIN r
            BY ONLY <6>1
          <6> QED
            BY <6>1, <6>2
        <5>2. p \in N
          BY <5>1, <1>0, <1>5, ProgramIsTree
        <5> QED
          BY <5>2, <1>0, ProgramIsTree
      <4>2. p \in Under(p)'
        BY <4>1, SameProgram
      <4> QED
        BY <3>3, <4>2 DEF Dead
    <3>5. Dead(p)' = Dead(P[y][i])'
      BY <2>1, <1>0, <1>4, <1>7
    <3> QED
      BY <3>4, <3>5
  <2> SUFFICES ASSUME t.id \notin Untyped
               PROVE  Dead(P[y][i])' \/ Lost(y)'
    BY <2>6
  <2>4. q \in freed'
    <3>1. CASE t.id = q
      BY <3>1, <2>3, <1>8
    <3>2. CASE t.id = -q /\ Kind(q) = "ASSIGNMENT" /\ -q \notin N
      <4>1. NewNode(-q)
        BY <3>2, <1>0, <1>2 DEF Pointers, Live
      <4>2. -(-q) = q
        BY <1>0, <1>5, ProgramIsTree
      <4>3. q \in freed
        BY <4>1, <4>2, <3>2 DEF NewNode
      <4> QED
        BY <4>3, <1>8
    <3> QED
      BY <3>1, <3>2, <1>6
  <2>5. Lost(x)'
    <3>1. 2 \in DOMAIN P[x] /\ q = P[x][2] /\ q # NULL
      BY <2>2, <1>5 DEF NULL
    <3> QED
      BY <3>1, <2>1, <2>4, <1>0 DEF Lost
  <2> QED
    BY <2>5, <1>4
<1> QED
  BY <1>10, <1>11

\* A deletion that has got one of its parts freed has nothing left of it.
LEMMA PartIsDead ==
  ASSUME TreeInv, DeadInv, program' = program, NEW s, HandsBack(s), Keeps,
         NEW m, m = Len(calls) - 1, NEW c, c = calls[m], NEW x, x = c.id,
         c.does = "free", x \in N, NEW i \in 1 .. c.turn
  PROVE  P[x][i] = NULL \/ Dead(P[x][i])' \/ (c.turn = 1 /\ Lost(x)')
<1> PICK n : n = Len(calls)
  OBVIOUS
<1> PICK t : t = calls[n]
  OBVIOUS
<1> PICK j : j = c.turn
  OBVIOUS
<1>0. program \in Programs /\ Types /\ Pointers /\ N' = N /\ P' = P /\ \A z : Kind(z)' = Kind(z)
  BY CallsAreNumbered, SameProgram DEF TreeInv
<1>1. Handed(n, m, t, c, x, s) /\ HandedFor(t, c, s) /\ HandedTo(t, c, x, s)
  BY HandFacts
<1>2. /\ m \in 1 .. n - 1 /\ n = m + 1 /\ m \in 1 .. n /\ x \in Live /\ t.id \in Live
      /\ j \in Nat /\ j > 0 /\ j \in DOMAIN parts[x]
  BY ONLY <1>1, j = c.turn DEF Handed
<1>3. parts' = parts /\ t.id = parts[x][j] /\ t.does = "free"
  <2>1. Called(m)
    BY <1>2 DEF TreeInv, Walks
  <2> QED
    BY <2>1, <1>1, <1>2 DEF Called, HandedTo
<1>4. t.id # 0 /\ j \in DOMAIN P[x]
  BY <1>0, <1>2, PartsAreAllocated, PartsAreAsMany DEF Live
<1>5. DeadBelow(m) /\ Behind(m)
  BY <1>2 DEF DeadInv, TreeInv, Walks
<1>6. CASE i \in 1 .. j - 1
  <2>1. P[x][i] = NULL \/ Dead(P[x][i]) \/ (j = 2 /\ Lost(x))
    BY <1>5, <1>6 DEF DeadBelow
  <2>2. ~(j = 2 /\ Lost(x))
    <3> SUFFICES ASSUME j = 2, Lost(x)
                 PROVE  FALSE
      OBVIOUS
    <3>1. Kind(x) = "IF" /\ (parts[x][1] = P[x][2] \/ P[x][2] \in freed)
      BY DEF Lost
    <3>2. t.id = P[x][2]
      BY <3>1, <1>0, <1>3, ElseStays
    <3>3. P[x][2] \notin freed
      BY <3>2, <1>2 DEF Live
    <3>4. parts[x][1] \notin Live
      <4>1. 1 \in 1 .. c.turn - 1
        BY ONLY j = 2, j = c.turn
      <4> QED
        BY <4>1, <1>5 DEF Behind
    <3> QED
      BY <3>1, <3>2, <3>3, <3>4, <1>2
  <2>3. P[x][i] = NULL \/ P[x][i] \in N
    <3> PICK r : r = P[x]
      OBVIOUS
    <3>1. r \in Seq(N \union {0}) /\ j \in DOMAIN r
      BY <1>0, <1>4, PartsAreAsMany
    <3>2. r[i] \in N \union {0}
      BY ONLY <3>1, <1>6
    <3> QED
      BY <3>2 DEF NULL
  <2> PICK z : z = P[x][i]
    OBVIOUS
  <2>4. z = NULL \/ Dead(z)'
    BY <2>1, <2>2, <2>3 DEF Keeps
  <2>5. Dead(z)' = Dead(P[x][i])'
    BY <1>0
  <2> QED
    BY <2>4, <2>5
<1>7. CASE i = j
  <2>1. CASE Kind(x) = "VAR" /\ j = 1 /\ parts[x] = <<-x>>
    <3>1. NodeStands(x)
      BY <1>0 DEF Pointers
    <3>2. parts[x] # P[x]
      <4>1. P[x] \in Seq(N \union {0}) /\ 1 \in DOMAIN P[x]
        BY <1>0, <1>4, <2>1, PartsAreAsMany
      <4>2. P[x][1] \in N \union {0}
        BY <4>1
      <4>3. -x \notin N /\ -x < 0
        BY <1>0, NewNodes
      <4> QED
        BY <4>2, <4>3, <2>1
    <3>3. P[x] = <<NULL>>
      BY <3>1, <3>2, <2>1 DEF NodeStands, Compound
    <3> QED
      BY <3>3, <2>1, <1>7
  <2>2. ASSUME NEW k \in DOMAIN P[x], k = j \/ (Kind(x) = "IF" /\ j = 1 /\ k = 2),
               P[x][k] # 0, t.id = P[x][k] \/ (t.id = -P[x][k] /\ Kind(P[x][k]) = "ASSIGNMENT")
        PROVE  P[x][i] = NULL \/ Dead(P[x][i])' \/ (c.turn = 1 /\ Lost(x)')
    <3> PICK q : q = P[x][k]
      OBVIOUS
    <3>1. q \in N /\ -(-q) = q /\ -q \notin N
      <4>1. q \in N
        BY <2>2, <1>0, ProgramIsTree
      <4> QED
        BY <4>1, <1>0, ProgramIsTree, NewNodes
    <3>2. CASE k = j
      <4>1. q = Origin(t.id) /\ (t.id \in N \/ Kind(-t.id) = "ASSIGNMENT")
        BY <3>1, <2>2, <1>0, Origins
      <4>2. Dead(q)'
        BY <4>1, <1>2, <1>3, HandedIsDead
      <4>3. Dead(q)' = Dead(P[x][i])'
        BY <3>2, <1>0, <1>7
      <4> QED
        BY <4>2, <4>3
    <3>3. CASE Kind(x) = "IF" /\ j = 1 /\ k = 2
      <4>1. t.id = q => parts'[x][1] = P[x][2]
        BY <3>3, <1>3
      <4>2. t.id = -q /\ Kind(q) = "ASSIGNMENT" => P[x][2] \in freed'
        <5> SUFFICES ASSUME t.id = -q, Kind(q) = "ASSIGNMENT"
                     PROVE  q \in freed'
          BY <3>3
        <5>1. NewNode(-q)
          BY <3>1, <1>0, <1>2 DEF Pointers, Live
        <5>2. q \in freed
          BY <5>1, <3>1 DEF NewNode
        <5> QED
          BY <5>2, <1>1 DEF HandedFor
      <4>3. parts'[x][1] = P[x][2] \/ P[x][2] \in freed'
        BY <4>1, <4>2, <2>2
      <4>4. 2 \in DOMAIN P[x] /\ P[x][2] # NULL
        BY <3>3, <2>2 DEF NULL
      <4>5. Lost(x)'
        BY <4>3, <4>4, <3>3, <1>0 DEF Lost
      <4> QED
        BY <4>5, <3>3
    <3> QED
      BY <3>2, <3>3, <2>2
  <2>3. \/ Kind(x) = "VAR" /\ j = 1 /\ parts[x] = <<-x>>
        \/ \E k \in DOMAIN P[x] :
             /\ k = j \/ (Kind(x) = "IF" /\ j = 1 /\ k = 2)
             /\ P[x][k] # 0
             /\ t.id = P[x][k] \/ (t.id = -P[x][k] /\ Kind(P[x][k]) = "ASSIGNMENT")
    <3>1. -x \notin N
      BY <1>0, NewNodes
    <3>2. parts[x][j] # 0
      BY <1>3, <1>4
    <3>3. \/ Kind(x) = "VAR" /\ j = 1 /\ parts[x] = <<-x>>
          \/ \E k \in DOMAIN P[x] :
               /\ k = j \/ (Kind(x) = "IF" /\ j = 1 /\ k = 2)
               /\ P[x][k] # 0
               /\ parts[x][j] = P[x][k] \/ (parts[x][j] = -P[x][k] /\ Kind(P[x][k]) = "ASSIGNMENT")
          \/ -x \in N
      <4>1. Types /\ Pointers /\ x \in Live /\ j \in DOMAIN parts[x] /\ parts[x][j] # 0
        BY <1>0, <1>2, <3>2
      <4> QED
        BY <4>1, Source
    <3> QED
      BY ONLY <3>1, <3>3, <1>3
  <2> QED
    BY <2>1, <2>2, <2>3
<1>8. i \in 1 .. j - 1 \/ i = j
  BY ONLY <1>2, j = c.turn, i \in 1 .. c.turn
<1> QED
  BY <1>6, <1>7, <1>8

LEMMA CallerDeadBelow ==
  ASSUME TreeInv, DeadInv, program' = program, NEW s, HandsBack(s), Keeps, NEW m, m = Len(calls) - 1
  PROVE  DeadBelow(m)'
<1> PICK n : n = Len(calls)
  OBVIOUS
<1> PICK t : t = calls[n]
  OBVIOUS
<1> PICK c : c = calls[m]
  OBVIOUS
<1> PICK x : x = c.id
  OBVIOUS
<1> PICK d : d = calls'[m]
  OBVIOUS
<1>0. program \in Programs /\ Types /\ Pointers /\ N' = N /\ P' = P /\ \A z : Kind(z)' = Kind(z)
  BY CallsAreNumbered, SameProgram DEF TreeInv
<1>1. Handed(n, m, t, c, x, s) /\ HandedFor(t, c, s) /\ HandedTo(t, c, x, s)
  BY HandFacts
<1>2. /\ m \in 1 .. n - 1 /\ n = m + 1 /\ m \in 1 .. n /\ x \in Live /\ t.id \in Live
      /\ c.turn \in Nat /\ c.turn > 0
      /\ d.does = c.does /\ d.id = x /\ d.turn = c.turn + 1
  BY ONLY <1>1, d = calls'[m] DEF Handed
<1>3. c.does # "check" => t.id = parts[x][c.turn] /\ t.does = "free"
  <2>1. Called(m)
    BY <1>2 DEF TreeInv, Walks
  <2> QED
    BY <2>1, <1>1, <1>2 DEF Called, HandedTo
<1>4. d.turn - 1 = c.turn /\ (d.turn = 2 <=> c.turn = 1)
  BY ONLY <1>2
<1>5. ASSUME c.does = "free", x \in N, NEW i \in 1 .. c.turn
      PROVE  P[x][i] = NULL \/ Dead(P[x][i])' \/ (c.turn = 1 /\ Lost(x)')
  BY <1>5, PartIsDead
<1>6. ASSUME NEW z \in N, t.id = z, t.does = "free"
      PROVE  Dead(z)'
  <2>1. z = Origin(t.id)
    BY <1>0, <1>6, Origins
  <2> QED
    BY <2>1, <1>2, <1>6, HandedIsDead
<1>7. ASSUME c.does = "free", x \notin N, Kind(-x) = "ASSIGNMENT", c.turn = 1
      PROVE  Dead(P[-x][2])'
  <2>1. NewNode(x)
    BY <1>0, <1>2, <1>7 DEF Pointers, Live
  <2>2. -x \in N /\ 2 \in DOMAIN P[-x] /\ P[-x][2] # 0 /\ parts[x] = <<P[-x][2]>>
    BY <2>1, <1>7 DEF NewNode, NULL
  <2> PICK z : z = P[-x][2]
    OBVIOUS
  <2>3. z \in N /\ t.id = z
    BY <2>2, <1>0, <1>3, <1>7, ProgramIsTree
  <2>4. Dead(z)'
    BY <2>3, <1>3, <1>6, <1>7
  <2>5. Dead(z)' = Dead(P[-x][2])'
    BY <1>0
  <2> QED
    BY <2>4, <2>5
<1>8. ASSUME c.does = "declare", c.turn = 1
      PROVE  Dead(P[x][1])'
  <2>1. x \in N /\ Kind(x) = "ASSIGNMENT" /\ program.parsed = "ok"
    <3>1. Running(m)
      BY <1>2 DEF TreeInv, Walks
    <3> QED
      BY <3>1, <1>8 DEF Running
  <2>2. parts[x] = P[x]
    BY <2>1, <1>0 DEF Pointers, NodeStands, Compound
  <2> PICK z : z = P[x][1]
    OBVIOUS
  <2>3. t.id = z
    BY <2>2, <1>3, <1>8
  <2>4. z \in N
    <3>1. 1 \in DOMAIN P[x]
      BY <2>1, <1>0, <1>1, <1>8, PartsAreAsMany DEF Handed
    <3>2. z # 0
      BY <2>3, <1>0, <1>2, PartsAreAllocated DEF Live
    <3> QED
      BY <2>1, <3>1, <3>2, <1>0, ProgramIsTree
  <2>5. Dead(z)'
    BY <2>3, <2>4, <1>3, <1>6, <1>8
  <2>6. Dead(z)' = Dead(P[x][1])'
    BY <1>0
  <2> QED
    BY <2>5, <2>6
<1>9. /\ d.does = "free" /\ d.id \in N =>
           \A i \in 1 .. d.turn - 1 : P[d.id][i] = NULL \/ Dead(P[d.id][i])' \/ (d.turn = 2 /\ Lost(d.id)')
      /\ d.does = "free" /\ d.id \notin N /\ Kind(-d.id) = "ASSIGNMENT" /\ d.turn = 2 => Dead(P[-d.id][2])'
      /\ d.does = "declare" /\ d.turn = 2 => Dead(P[d.id][1])'
  BY <1>2, <1>4, <1>5, <1>7, <1>8
<1> QED
  BY <1>0, <1>9 DEF DeadBelow


LEMMA HandingBackPreservesDead ==
  ASSUME TreeInv, DeadInv, program' = program, NEW s, HandsBack(s)
  PROVE  DeadInv'
<1> PICK n : n = Len(calls)
  OBVIOUS
<1> PICK m : m = n - 1
  OBVIOUS
<1> PICK t : t = calls[n]
  OBVIOUS
<1> PICK c : c = calls[m]
  OBVIOUS
<1> PICK x : x = c.id
  OBVIOUS
<1>0. program \in Programs /\ Types /\ N' = N /\ P' = P /\ \A z : Kind(z)' = Kind(z)
  BY CallsAreNumbered, SameProgram DEF TreeInv
<1>1. Handed(n, m, t, c, x, s) /\ HandedFor(t, c, s) /\ HandedTo(t, c, x, s)
  BY HandFacts
<1>2. Keeps
  BY HandingBackKeeps
<1>3. m \in Nat /\ m > 0 /\ n = m + 1 /\ Len(calls') = m /\ \A k \in 1 .. m - 1 : calls'[k] = calls[k]
  BY ONLY <1>1 DEF Handed
<1>4. Live' \subseteq Live
  <2>1. DOMAIN parts' = DOMAIN parts
    BY <1>1 DEF HandedTo
  <2>2. freed \subseteq freed'
    BY <1>1 DEF HandedFor
  <2> QED
    BY <2>1, <2>2 DEF Live
<1>5. program'.parsed = "ok" \/ parts' = P'
  <2>1. program.parsed = "ok" \/ parts = P
    BY DEF DeadInv
  <2> QED
    BY <2>1, <1>0, <1>1 DEF HandedTo
<1>6. ASSUME NEW y \in Live', y \in N, NEW i \in DOMAIN P[y], P[y][i] # NULL, parts'[y][i] = NULL
      PROVE  Dead(P[y][i])' \/ Lost(y)'
  <2>1. CASE parts[y][i] = NULL
    BY <2>1, <1>2, <1>4, <1>6, NulledStays
  <2>2. CASE parts[y][i] # NULL
    BY <2>2, <1>6, StoredNullIsDead
  <2> QED
    BY <2>1, <2>2
<1>7. ASSUME NEW y \in Live', y \notin N, Kind(-y) = "ASSIGNMENT"
      PROVE  Dead(P[-y][1])'
  BY <1>2, <1>4, <1>7, TargetsStay
<1>8. ASSUME NEW k \in 1 .. m - 1
      PROVE  DeadBelow(k)'
  <2>0. k \in 1 .. n
    BY ONLY <1>3, k \in 1 .. m - 1
  <2>1. DeadBelow(k) /\ calls'[k] = calls[k]
    BY <2>0, <1>3 DEF DeadInv
  <2> QED
    BY <2>0, <2>1, <1>2, DeadBelowStays
<1>9. DeadBelow(m)'
  BY <1>2, CallerDeadBelow
<1>10. \A k \in 1 .. m : k \in 1 .. m - 1 \/ k = m
  BY ONLY <1>3
<1>11. \A k \in 1 .. Len(calls') : DeadBelow(k)'
  BY <1>3, <1>8, <1>9, <1>10
<1> QED
  BY <1>0, <1>5, <1>6, <1>7, <1>11 DEF DeadInv

LEMMA DeadInvStays ==
  ASSUME TreeInv, DeadInv, program' = program, parts' = parts, freed' = freed, calls' = calls
  PROVE  DeadInv'
<1>1. Keeps
  BY KeepsWhole
<1>2. ASSUME NEW k \in 1 .. Len(calls)
      PROVE  DeadBelow(k)'
  <2>1. DeadBelow(k) /\ calls'[k] = calls[k]
    BY DEF DeadInv
  <2> QED
    BY <2>1, <1>1, DeadBelowStays
<1>3. \A k \in 1 .. Len(calls') : DeadBelow(k)'
  BY <1>2
<1> QED
  BY <1>3, CallsPreserveDead

\* What has been deleted is freed with all below it.
LEMMA StepPreservesDead ==
  ASSUME TreeInv, DeadInv, program' = program, Goes
  PROVE  DeadInv'
<1>1. CASE gone' = "" /\ Effect
  BY <1>1, CallPreservesDead, GoingOnPreservesDead, ConstructionPreservesDead, DeclarationPreservesDead,
     HandingBackPreservesDead, EndPreservesDead DEF Effect
<1>2. CASE parts' = parts /\ freed' = freed /\ calls' = calls
  BY <1>2, DeadInvStays
<1> QED
  BY <1>1, <1>2 DEF Goes


-----------------------------------------------------------------------------
(* From the parser to the exit code: what the walks leave of the tree.     *)

Walked == TreeInv /\ DeadInv /\ VerdictInv

LEMMA StaysWalked ==
  ASSUME Walked, program' = program, parts' = parts, freed' = freed, calls' = calls
  PROVE  Walked'
BY TreeStays, DeadInvStays, VerdictStays DEF Walked

\* A tree as the parser has left it, at the beginning of an analysis or of a deletion.
LEMMA WalkStarts ==
  ASSUME program \in Programs, program' = program, parts' = program.parts, freed' = {},
         NEW d \in {"check", "free"}, NEW ok \in BOOLEAN, calls' = <<Call(d, program.head, ok)>>,
         d = "check" => program.parsed = "ok" /\ (~ok => Erroneous)
  PROVE  Walked'
<1> PICK h : h = program.head
  OBVIOUS
<1> PICK c : c = Call(d, h, ok)
  OBVIOUS
<1>0. /\ N' = N /\ P' = P /\ Erroneous' = Erroneous
      /\ \A x : Under(x)' = Under(x) /\ Node(x)' = Node(x) /\ Kind(x)' = Kind(x)
  BY SameProgram
<1>1. h \in N /\ h \in Int /\ N \subseteq Int /\ \A x \in N : -x \notin N
  <2>1. h \in N /\ N \subseteq Nat \ {0}
    BY ProgramIsTree
  <2> QED
    BY <2>1
<1>2. c.does = d /\ c.id = h /\ c.turn = 1 /\ c.ok = ok /\ c \in Calls
  <2>1. c = [does |-> d, id |-> h, turn |-> 1, ok |-> ok]
    BY DEF Call
  <2> QED
    BY <2>1, <1>1 DEF Calls
<1>3. calls' \in Seq(Calls) /\ Len(calls') = 1 /\ calls'[1] = c
  <2>1. calls' = <<c>>
    OBVIOUS
  <2> QED
    BY ONLY <2>1, <1>2
<1>4. DOMAIN P = N /\ parts' = P
  BY ProgramsAssumption DEF IsTree, N, P
<1>5. Live' = N
  BY <1>4 DEF Live
<1>6. \A x \in N : P[x] \in Seq(Int) /\ Len(P[x]) \in Nat
  <2> SUFFICES ASSUME NEW x \in N
               PROVE  P[x] \in Seq(Int) /\ Len(P[x]) \in Nat
    OBVIOUS
  <2> PICK s : s = P[x]
    OBVIOUS
  <2>1. s \in Seq(N \union {0})
    BY ProgramIsTree
  <2>2. Len(s) \in Nat /\ s = [i \in 1 .. Len(s) |-> s[i]] /\ \A i \in 1 .. Len(s) : s[i] \in N \union {0}
    BY ONLY <2>1
  <2>3. \A i \in 1 .. Len(s) : s[i] \in Int
    BY ONLY <2>2, <1>1
  <2>4. s \in Seq(Int)
    BY ONLY <2>2, <2>3
  <2> QED
    BY <2>2, <2>4
<1>7. Types'
  BY <1>0, <1>1, <1>3, <1>4, <1>6 DEF Types
<1>8. Pointers'
  BY <1>0, <1>4 DEF Pointers, NodeStands
<1>9. ASSUME NEW k \in 1 .. Len(calls')
      PROVE  k = 1
  BY <1>3
<1>10. d = "check" => Kind(h) = "BLOCK"
  <2>1. d = "check" => program.node[h].k = "BLOCK"
    BY ProgramsAssumption DEF IsProgram
  <2> QED
    BY <2>1, <1>1, ProgramIsTree DEF Kind
<1>11. Running(1)'
  BY <1>0, <1>1, <1>2, <1>3, <1>4, <1>5, <1>6, <1>10 DEF Running, Compound
<1>12. ASSUME NEW x \in N
       PROVE  Fresh(x)'
  BY <1>0, <1>1, <1>4, ProgramIsTree DEF Fresh
<1>13. Ahead(1)'
  <2> SUFFICES ASSUME NEW i \in DOMAIN P[h]
               PROVE  P[h][i] # NULL => Fresh(P[h][i])'
    BY <1>0, <1>2, <1>3, <1>4 DEF Ahead
  <2> PICK z : z = P[h][i]
    OBVIOUS
  <2>1. z # NULL => z \in N
    BY <1>1, ProgramIsTree DEF NULL
  <2>2. z # NULL => Fresh(z)'
    BY <2>1, <1>12
  <2>3. Fresh(z)' = Fresh(P[h][i])'
    BY <1>0
  <2> QED
    BY <2>2, <2>3
<1>14. Behind(1)'
  <2>1. 1 .. c.turn - 1 = {}
    BY ONLY <1>2
  <2> QED
    BY <2>1, <1>3 DEF Behind
<1>15. Nested' /\ 1 .. Len(calls') - 1 = {}
  BY <1>3 DEF Nested
<1>16. Walks'
  BY <1>2, <1>3, <1>9, <1>11, <1>13, <1>14, <1>15 DEF Walks
<1>17. ASSUME NEW a \in N, NEW i \in DOMAIN P[a]
       PROVE  P[a][i] \in N \/ P[a][i] = NULL
  BY ProgramIsTree DEF NULL
<1>18. Whole'
  BY <1>0, <1>4, <1>5, <1>17 DEF Whole
<1>19. DeadBelow(1)'
  <2>1. 1 .. c.turn - 1 = {} /\ c.turn # 2
    BY ONLY <1>2
  <2> QED
    BY <2>1, <1>3 DEF DeadBelow
<1>20. DeadInv'
  BY <1>0, <1>4, <1>5, <1>9, <1>19 DEF DeadInv
<1>21. Judged(1)'
  <2>1. 1 .. c.turn - 1 = {} /\ ~(c.turn > 1) /\ ~(1 < Len(calls'))
    BY ONLY <1>2, <1>3
  <2>2. c.does = "check" => (~c.ok => Erroneous')
    BY <1>0, <1>2
  <2> QED
    BY <2>1, <2>2, <1>0, <1>1, <1>2, <1>3 DEF Judged
<1>22. VerdictInv'
  BY <1>0, <1>4, <1>5, <1>9, <1>21 DEF VerdictInv, Nulled
<1> QED
  BY <1>7, <1>8, <1>16, <1>18, <1>20, <1>22 DEF Walked, TreeInv


\* An analysis has come to its end, and its tree is left or goes to mtr_delete_ast.
LEMMA WalkTurns ==
  ASSUME Walked, program' = program, parts' = parts, freed' = freed,
         calls = <<>> \/ (Len(calls) = 1 /\ calls[1].does = "check"),
         calls' = <<>> \/ (calls' = DeleteTree /\ program.head \in Live),
         calls' = <<>> => calls = <<>> \/ calls[1].ok
  PROVE  Walked'
<1> PICK h : h = program.head
  OBVIOUS
<1> PICK ok \in BOOLEAN : ok = TRUE
  OBVIOUS
<1> PICK c : c = Call("free", h, ok)
  OBVIOUS
<1>0. /\ TreeInv /\ DeadInv /\ VerdictInv /\ program \in Programs /\ Types /\ Pointers
      /\ N' = N /\ P' = P /\ Live' = Live
      /\ \A x : Under(x)' = Under(x) /\ Node(x)' = Node(x) /\ Kind(x)' = Kind(x)
  BY CallsAreNumbered, SameProgram DEF Walked, TreeInv, Live
<1>1. h \in N /\ h \in Int
  <2>1. h \in N /\ N \subseteq Nat \ {0}
    BY <1>0, ProgramIsTree
  <2> QED
    BY <2>1
<1>2. c.does = "free" /\ c.id = h /\ c.turn = 1 /\ c \in Calls
  <2>1. c = [does |-> "free", id |-> h, turn |-> 1, ok |-> ok]
    BY DEF Call
  <2> QED
    BY ONLY <2>1, <1>1, ok \in BOOLEAN DEF Calls
<1>3. calls' = <<>> \/ (calls' = <<c>> /\ h \in Live)
  BY DEF DeleteTree
<1>4. /\ calls' \in Seq(Calls)
      /\ (calls' = <<>> /\ Len(calls') = 0) \/ (calls' # <<>> /\ Len(calls') = 1 /\ calls'[1] = c)
  <2>1. CASE calls' = <<>>
    BY <2>1
  <2>2. CASE calls' = <<c>>
    <3>1. <<c>> \in Seq(Calls) /\ <<c>> # <<>> /\ Len(<<c>>) = 1 /\ <<c>>[1] = c
      BY ONLY <1>2
    <3> QED
      BY ONLY <2>2, <3>1
  <2> QED
    BY <2>1, <2>2, <1>3
<1>5. ASSUME NEW k \in 1 .. Len(calls')
      PROVE  k = 1 /\ calls' # <<>> /\ calls'[1] = c /\ h \in Live
  <2>1. calls' # <<>>
    BY ONLY <1>4, <1>5
  <2> PICK l : l = Len(calls')
    OBVIOUS
  <2>2. k \in 1 .. l /\ l = 1
    BY <2>1, <1>4
  <2>3. k = 1
    BY ONLY <2>2
  <2> QED
    BY <2>1, <2>3, <1>3, <1>4
<1>6. Types'
  BY <1>0, <1>4 DEF Types
<1>7. Pointers'
  BY <1>0, PointersStay
<1>8. 1 .. c.turn - 1 = {} /\ c.turn # 2
  BY ONLY <1>2
<1>9. parts[h] \in Seq(Int) /\ Len(parts[h]) \in Nat
  <2> PICK s : s = parts[h]
    OBVIOUS
  <2>1. s \in Seq(Int)
    BY <1>0, <1>1 DEF Types
  <2>2. Len(s) \in Nat
    BY ONLY <2>1
  <2> QED
    BY <2>1, <2>2
<1>10. \A k \in 1 .. Len(calls') : Running(k)' /\ Ahead(k)' /\ Behind(k)' /\ DeadBelow(k)' /\ Judged(k)'
  <2> SUFFICES ASSUME calls' # <<>>, calls'[1] = c, h \in Live
               PROVE  Running(1)' /\ Ahead(1)' /\ Behind(1)' /\ DeadBelow(1)' /\ Judged(1)'
    BY <1>5
  <2>1. Running(1)'
    <3> PICK l : l = Len(parts[h])
      OBVIOUS
    <3>0. 1 <= l + 1
      BY ONLY <1>9, l = Len(parts[h])
    <3>1. c.id \in Live' /\ c.turn <= Len(parts'[c.id]) + 1
      BY <3>0, <1>0, <1>2
    <3> QED
      BY <3>1, <1>2 DEF Running
  <2>2. Ahead(1)' /\ Behind(1)' /\ DeadBelow(1)' /\ Judged(1)'
    BY <1>2, <1>8 DEF Ahead, Behind, DeadBelow, Judged
  <2> QED
    BY <2>1, <2>2
<1>11. Nested' /\ 1 .. Len(calls') - 1 = {}
  <2> PICK l : l = Len(calls')
    OBVIOUS
  <2>0. l \in {0, 1}
    BY <1>4
  <2>1. 1 .. l - 1 = {}
    BY ONLY <2>0
  <2>2. \A j, k \in 1 .. l : ~(k < j)
    BY ONLY <2>0
  <2> QED
    BY <2>1, <2>2 DEF Nested
<1>12. Walks'
  BY <1>2, <1>4, <1>10, <1>11 DEF Walks
<1>13. ASSUME NEW k \in 1 .. Len(calls)
       PROVE  k = 1 /\ calls[1].does = "check" /\ Len(calls) = 1
  <2>1. calls = <<>> => Len(calls) = 0
    BY ONLY TRUE
  <2>2. Len(calls) = 1 /\ calls[1].does = "check"
    BY <2>1, <1>13
  <2> PICK l : l = Len(calls)
    OBVIOUS
  <2>3. k = 1
    <3>1. k \in 1 .. l /\ l = 1
      BY <2>2
    <3> QED
      BY ONLY <3>1
  <2> QED
    BY <2>2, <2>3
<1>14. Whole'
  <2>1. \A a, i : ~Passed(a, i)
    BY <1>13 DEF Passed
  <2> QED
    BY <2>1, <1>0 DEF TreeInv, Whole
<1>15. TreeInv'
  BY <1>6, <1>7, <1>12, <1>14 DEF TreeInv
<1>16. DeadInv'
  BY <1>0, <1>10, CallsPreserveDead
<1>17. Nulled'
  <2> SUFFICES ASSUME NEW x \in Live, x \in N, NEW i \in DOMAIN P[x], P[x][i] # NULL, parts[x][i] = NULL
               PROVE  \E k \in 1 .. Len(calls') : calls'[k].id = x /\ (calls'[k].does = "free" \/ ~calls'[k].ok)
    BY <1>0 DEF Nulled
  <2>1. PICK k \in 1 .. Len(calls) : calls[k].id = x /\ (calls[k].does = "free" \/ ~calls[k].ok)
    BY <1>0 DEF VerdictInv, Nulled
  <2>2. calls # <<>> /\ ~calls[1].ok /\ calls[1].id = x
    <3>1. k = 1 /\ calls[1].does = "check" /\ Len(calls) = 1
      BY <1>13
    <3>2. Len(calls) # 0
      BY <3>1
    <3>3. calls # <<>>
      BY ONLY <3>2
    <3> QED
      BY <3>1, <3>3, <2>1
  <2>3. x = h
    BY <2>2, <1>0 DEF TreeInv, Walks
  <2>4. calls' # <<>>
    BY <2>2
  <2>5. 1 \in 1 .. Len(calls')
    BY ONLY <2>4, <1>4
  <2> QED
    BY <2>3, <2>4, <2>5, <1>2, <1>4
<1> QED
  BY <1>10, <1>15, <1>16, <1>17 DEF Walked, VerdictInv

\* What the analysis of the declarations leaves when it has found no error.
LEMMA AnalysisEnds ==
  ASSUME Walked, Len(calls) = 1, calls[1].does = "check", calls[1].ok, calls[1].turn > Analysed(program.head)
  PROVE  /\ program.parsed = "ok" /\ program.wrong = {} /\ Unreturning = {} /\ Bare = {}
         /\ program.head \in Live /\ parts[program.head] = P[program.head]
<1> PICK h : h = program.head
  OBVIOUS
<1> PICK t : t = calls[1]
  OBVIOUS
<1>0. /\ TreeInv /\ program \in Programs /\ Types /\ Pointers /\ Nulled
      /\ calls # <<>> /\ t.id = h /\ h \in N /\ Running(1) /\ Judged(1) /\ Node(h) = program.node[h]
  <2>1. calls # <<>>
    BY ONLY Len(calls) = 1
  <2> QED
    BY <2>1, CallsAreNumbered, ProgramIsTree DEF Walked, TreeInv, Walks, VerdictInv
<1>1. program.parsed = "ok" /\ h \in Live
  BY <1>0 DEF Running
<1>2. IsProgram(program)
  BY <1>0, <1>1, ProgramsAssumption
<1>3. Kind(h) = "BLOCK"
  BY <1>0, <1>2 DEF IsProgram, Kind
<1>4. h \notin program.wrong /\ h \notin Unreturning
  BY <1>0, <1>2, <1>3 DEF IsProgram, Unreturning, Nodes, Kind
<1>5. Clean(h)
  BY <1>0, <1>3, <1>4, CompoundIsClean DEF Compound
<1>6. Under(h) = N
  BY <1>0, ProgramIsTree
<1>7. program.wrong = {} /\ Unreturning = {} /\ Bare = {}
  <2>1. program.wrong \subseteq N /\ Unreturning \subseteq N /\ Bare \subseteq N
    BY <1>2 DEF IsProgram, Unreturning, Bare, Nodes, N
  <2> QED
    BY <2>1, <1>5, <1>6 DEF Clean
<1>8. parts[h] = P[h]
  <2>1. Len(parts[h]) = Len(P[h]) /\ DOMAIN parts[h] = DOMAIN P[h] /\ P[h] \in Seq(N \union {0}) /\ parts[h] \in Seq(Int)
    BY <1>0, PartsAreAsMany DEF Types
  <2>2. ASSUME NEW i \in DOMAIN P[h]
        PROVE  parts[h][i] = P[h][i]
    <3>1. P[h][i] # 0
      BY <1>0, <1>1, <1>3, StatementFacts
    <3>2. parts[h][i] # 0
      BY <3>1, <1>0, <1>1, NothingIsGone
    <3>3. Kind(P[h][i]) # "ASSIGNMENT"
      <4>1. P[h][i] \in Range(Globals(program)) /\ P[h][i] \in N
        BY <3>1, <1>0, ProgramIsTree DEF Globals, Range, P
      <4>2. program.node[P[h][i]].k \in {"FN", "NATIVE_FN", "STRUCT", "UNION"}
        BY <4>1, <1>2 DEF IsProgram
      <4> QED
        BY <4>1, <4>2, <1>0, ProgramIsTree DEF Kind
    <3>4. parts[h] = P[h] \/ PartStands(h, i)
      BY <1>0, <1>3 DEF Pointers, NodeStands
    <3> QED
      BY <3>2, <3>3, <3>4, <1>3 DEF PartStands, Stands, NULL
  <2>3. \A s, r : s \in Seq(N \union {0}) /\ r \in Seq(Int) /\ Len(r) = Len(s) /\ (\A i \in DOMAIN s : r[i] = s[i]) => r = s
    OBVIOUS
  <2> QED
    BY <2>1, <2>2, <2>3
<1> QED
  BY <1>1, <1>7, <1>8

-----------------------------------------------------------------------------
(* From the parser to the exit code: what every stage knows.               *)

Stages == {"read", "parse", "validate", "load", "compile", "delete_ast", "add_io", "execute",
           "delete_package", "returned"}

\* The package holds every function of the program, and nothing else.
KnowsFunctions ==
  /\ DOMAIN package = Names(program)
  /\ \A f \in Functions(program) : package[program.node[f].name] = f
  /\ \A name \in Names(program) : package[name] \in Functions(program) \union {NULL}

\* The same, when print has been given to the native function.
KnowsPrint ==
  /\ DOMAIN package = Names(program)
  /\ \A f \in Functions(program) :
       program.node[f].name # "print" => package[program.node[f].name] = f
  /\ "print" \in Names(program) => package["print"] = PRINT
  /\ \A name \in Names(program) : package[name] \in Functions(program) \union {NULL, PRINT}

Nothing == made = {} /\ deleted = {} /\ package = NoPackage

\* The functions and the closures of the program, and no other object.
MadeOf(others) == made \subseteq Functions(program) \union Nodes({"CLOSURE"}) \union others

\* mtr_validate goes on as if all was right only when the last name was new.
RootKnows == calls # <<>> /\ calls[1].does = "check" /\ calls[1].ok => LastIsNew(program)

\* mtr_validate gets past no declaration with an expression without a type, and no function
\* is freed before the next is looked at.
RootIsTyped ==
  calls # <<>> /\ calls[1].does = "check" =>
    /\ \A i \in 1 .. calls[1].turn - 1 :
         P[program.head][i] # NULL => Under(P[program.head][i]) \intersect Untyped = {}
    /\ Len(calls) > 1 /\ calls[2].does = "free" => Kind(calls[2].id) # "FN"

\* What the analysis leaves when it has found no error.
Accepted ==
  /\ program.parsed = "ok" /\ program.wrong = {} /\ Unreturning = {} /\ Bare = {} /\ LastIsNew(program)
  /\ calls = <<>> /\ program.head \in Live /\ parts[program.head] = P[program.head]

\* What mtr_delete_ast leaves.
Swept == \A id \in Live : \E f \in Unreturning \intersect Live : Origin(id) \in program.under[f]

Unwalked == parts = <<>> /\ freed = {} /\ calls = <<>>

AtRead     == Nothing /\ exit = "OK" /\ Unwalked /\ (stage = "read" => memory = {})
AtValidate == Nothing /\ exit = "OK" /\ program.parsed = "ok" /\ Walked /\ RootKnows /\ RootIsTyped
AtLoad     == Nothing /\ exit = "OK" /\ Walked /\ Accepted
AtCompile  == /\ made = {} /\ deleted = {} /\ exit = "OK" /\ Walked /\ Accepted
              /\ ~Erroneous /\ DOMAIN package = Names(program)

\* Whether there are objects, in front of mtr_add_io.
Compiled == IF exit = "OK" THEN ~Erroneous /\ KnowsFunctions /\ deleted = {} /\ MadeOf({}) ELSE Nothing

AtDeleteAst == /\ exit # "FILE_ERROR" /\ Compiled /\ Walked /\ RootKnows /\ RootIsTyped
               /\ Untyped = {}
               /\ calls = <<>> => program.head \in freed /\ Dead(program.head)

AtAddIO   == exit = "OK" /\ Compiled /\ Swept
AtExecute == exit = "OK" /\ ~Erroneous /\ KnowsPrint /\ deleted = {} /\ MadeOf({PRINT}) /\ Swept
AtDeletePackage ==
  /\ exit # "FILE_ERROR" /\ Swept
  /\ IF exit = "OK"
     THEN ~Erroneous /\ KnowsPrint /\ deleted \subseteq Nodes({"CLOSURE"}) /\ MadeOf({PRINT})
     ELSE Nothing
\* When mtr_launch has returned every object is freed but for those EveryObjectHasAnOwner names.
Owned == /\ memory = {}
         /\ \A object \in made \ deleted :
              \/ object = PRINT /\ "print" \notin Names(program)
              \/ object \in Nodes({"CLOSURE"})
              \/ object \in Functions(program) /\ program.node[object].name = "print"
AtReturned == Swept /\ Owned /\ (exit = "OK" => ~Erroneous)

AtStage ==
  CASE stage \in {"read", "parse"} -> AtRead
    [] stage = "validate"          -> AtValidate
    [] stage = "load"              -> AtLoad
    [] stage = "compile"           -> AtCompile
    [] stage = "delete_ast"        -> AtDeleteAst
    [] stage = "add_io"            -> AtAddIO
    [] stage = "execute"           -> AtExecute
    [] stage = "delete_package"    -> AtDeletePackage
    [] stage = "returned"          -> AtReturned

\* The codes of an error, and where they come from.
Codes ==
  /\ exit \in {"OK", "FILE_ERROR", "PARSER_ERROR", "TYPE_ERROR"}
  /\ exit = "PARSER_ERROR" => program.parsed = "error"
  /\ exit = "TYPE_ERROR" => program.parsed = "ok" /\ Erroneous

IInv == /\ program \in Programs /\ stage \in Stages /\ Codes
        /\ gone = "wild" => Shapes
        /\ gone = "" => AtStage

-----------------------------------------------------------------------------
(* The root's call.                                                        *)

LEMMA StepsRun ==
  ASSUME Step
  PROVE  calls # <<>> /\ gone = ""
BY DEF Step, Analyze, ConstructVariable, AnalyzeVariable, AnalyzeAssignment, FreeTarget, Declare,
       AnalyzeReturn, AnalyzeSimple, AnalyzePart, AnalyzeEnd, AnalyzeFunctionEnd, FreePart, FreeNode, Runs

\* What a change of the innermost of n calls, and a call, leave of the first.
LEMMA FirstCall ==
  ASSUME NEW s \in Seq(Calls), s # <<>>, NEW c \in Calls
  PROVE  /\ Append(s, c) # <<>> /\ Append(s, c)[1] = s[1]
         /\ [s EXCEPT ![Len(s)] = c] # <<>>
         /\ [s EXCEPT ![Len(s)] = c][1] \in {s[1], c}
OBVIOUS

\* The root's call remembers an error, and only the end of its deletion leaves no call.
LEMMA RootStays ==
  ASSUME TreeInv, program' = program, calls # <<>>, RootKnows, Goes
  PROVE  RootKnows' /\ (calls' = <<>> => gone' = "" /\ Ends)
<1>0. /\ program \in Programs /\ calls \in Seq(Calls) /\ LastIsNew(program)' = LastIsNew(program)
  BY CallsAreNumbered DEF TreeInv, Types
<1>1. ASSUME calls' # <<>>, calls'[1] = calls[1]
      PROVE  RootKnows' /\ (calls' = <<>> => gone' = "" /\ Ends)
  BY <1>0, <1>1 DEF RootKnows
<1>2. ASSUME NEW d, NEW p, Calls1(d, p)
      PROVE  RootKnows' /\ (calls' = <<>> => gone' = "" /\ Ends)
  <2> PICK ok \in BOOLEAN : ok = TRUE
    OBVIOUS
  <2> PICK c : c = Call(d, p, ok)
    OBVIOUS
  <2>1. p \in Int /\ d \in {"check", "free"}
    BY <1>0, <1>2 DEF TreeInv, Types, Calls1, Live
  <2>2. c = [does |-> d, id |-> p, turn |-> 1, ok |-> ok]
    BY DEF Call
  <2>3. c \in Calls
    BY ONLY <2>1, <2>2, ok \in BOOLEAN DEF Calls
  <2>4. calls' = Append(calls, c)
    BY <1>2 DEF Calls1
  <2> QED
    BY <2>3, <2>4, <1>0, <1>1, FirstCall
<1>3. ASSUME NEW c, GoesOn(c)
      PROVE  RootKnows' /\ (calls' = <<>> => gone' = "" /\ Ends)
  <2>1. c \in Calls /\ c.does # "check" /\ calls' = [calls EXCEPT ![Len(calls)] = c]
    BY <1>3 DEF GoesOn
  <2>2. calls' # <<>> /\ calls'[1] \in {calls[1], c}
    BY <2>1, <1>0, FirstCall
  <2> QED
    BY <2>1, <2>2, <1>1 DEF RootKnows
<1>4. ASSUME ConstructVariable
      PROVE  RootKnows' /\ (calls' = <<>> => gone' = "" /\ Ends)
  <2>1. calls' = calls
    BY <1>4 DEF ConstructVariable
  <2> QED
    BY <2>1, <1>1
<1>5. ASSUME Declare
      PROVE  RootKnows' /\ (calls' = <<>> => gone' = "" /\ Ends)
  <2> PICK n : n = Len(calls)
    OBVIOUS
  <2> PICK t : t = calls[n]
    OBVIOUS
  <2> PICK a : a = t.id
    OBVIOUS
  <2>1. Declared(n, t, a)
    BY <1>5, DeclareFacts
  <2>2. n \in Nat /\ n > 0 /\ Kind(a) = "ASSIGNMENT" /\ program.parsed = "ok"
        /\ Len(calls') = n /\ \A k \in 1 .. n - 1 : calls'[k] = calls[k]
    BY ONLY <2>1 DEF Declared
  <2>3. n # 1
    BY <2>2, RootIsBlock DEF Top
  <2>4. 1 \in 1 .. n - 1 /\ Len(calls') # 0
    BY ONLY <2>2, <2>3
  <2>5. calls' # <<>>
    BY ONLY <2>4
  <2> QED
    BY <2>2, <2>4, <2>5, <1>1
<1>6. ASSUME NEW s, HandsBack(s)
      PROVE  RootKnows' /\ (calls' = <<>> => gone' = "" /\ Ends)
  <2> PICK n : n = Len(calls)
    OBVIOUS
  <2> PICK m : m = n - 1
    OBVIOUS
  <2> PICK t : t = calls[n]
    OBVIOUS
  <2> PICK c : c = calls[m]
    OBVIOUS
  <2> PICK sl : sl = IF Kind(c.id) = "IF" THEN 1 ELSE c.turn
    OBVIOUS
  <2>1. HandedOver(n, m, t, c, sl, s)
    BY <1>6, HandedBack
  <2>2. /\ m \in Nat \ {0} /\ Len(calls') = m
        /\ \A k \in 1 .. m - 1 : calls'[k] = calls[k]
        /\ calls'[m].does = c.does /\ StaysOk(m, c, s)
    BY ONLY <2>1 DEF HandedOver
  <2>3. Len(calls') # 0
    BY ONLY <2>2
  <2>4. calls' # <<>>
    BY ONLY <2>3
  <2>5. CASE m = 1
    <3>1. calls'[1].does = calls[1].does /\ (calls'[1].ok => calls[1].ok)
      BY <2>2, <2>5 DEF StaysOk
    <3> QED
      BY <3>1, <2>4, <1>0 DEF RootKnows
  <2>6. CASE m # 1
    <3>1. 1 \in 1 .. m - 1
      BY ONLY <2>2, <2>6
    <3> QED
      BY <3>1, <2>2, <2>4, <1>1
  <2> QED
    BY <2>5, <2>6
<1>7. CASE gone' = "" /\ Ends
  BY <1>7 DEF Ends, RootKnows
<1>8. CASE calls' = calls
  BY <1>8, <1>1
<1> QED
  BY <1>2, <1>3, <1>4, <1>5, <1>6, <1>7, <1>8 DEF Goes, Effect

\* What has a statement without a type below it has not been found right.
LEMMA UntypedIsNotClean ==
  ASSUME program \in Programs, NEW y \in N, NEW u \in Untyped, u \in Under(y)
  PROVE  ~Clean(y)
<1>1. u \in N /\ Node(u) = program.node[u] /\ Node(u).stmts \in 0 .. Len(P[u]) /\ P[u] \in Seq(N \union {0})
  BY ProgramIsTree DEF Untyped, Nodes, N
<1>2. PICK i \in Node(u).stmts + 1 .. Len(P[u]) : P[u][i] \in program.wrong
  BY <1>1 DEF Untyped, P
<1>3. i \in DOMAIN P[u]
  <2> PICK s : s = P[u]
    OBVIOUS
  <2> PICK a : a = Node(u).stmts
    OBVIOUS
  <2>1. s \in Seq(N \union {0}) /\ a \in 0 .. Len(s) /\ i \in a + 1 .. Len(s)
    BY <1>1
  <2>2. i \in DOMAIN s
    BY ONLY <2>1
  <2> QED
    BY <2>2
<1>4. P[u][i] # 0
  <2>1. program.parsed = "ok"
    BY <1>2, ProgramsAssumption
  <2>2. program.wrong \subseteq N
    BY <2>1, WrongIsOld
  <2> QED
    BY <2>2, <1>2, ProgramIsTree
<1>5. P[u][i] \in Under(u)
  BY <1>1, <1>3, <1>4, ProgramIsTree
<1>6. Under(u) \subseteq Under(y)
  BY ProgramIsTree
<1> QED
  BY <1>2, <1>5, <1>6 DEF Clean

\* A declaration without statements has none without a type.
LEMMA MembersAreTyped ==
  ASSUME program \in Programs, program.parsed = "ok", NEW q \in N, Kind(q) \in {"STRUCT", "UNION", "NATIVE_FN"}
  PROVE  Under(q) \intersect Untyped = {}
<1> SUFFICES ASSUME NEW u \in Under(q), u \in Untyped
             PROVE  FALSE
  OBVIOUS
<1>1. u \in N /\ Kind(u) \in {"ASSIGNMENT", "IF", "WHILE", "RETURN"}
  <2>1. u \in N /\ program.node[u].k \in {"ASSIGNMENT", "IF", "WHILE", "RETURN"}
    BY DEF Untyped, Nodes, N
  <2> QED
    BY <2>1, ProgramIsTree DEF Kind
<1>2. PICK i \in DOMAIN P[q] : P[q][i] # 0 /\ u \in Under(P[q][i])
  BY <1>1, ProgramIsTree
<1> PICK y : y = P[q][i]
  OBVIOUS
<1>3. y \in N /\ Kind(y) = "VAR" /\ u \in Under(y)
  BY <1>2, StatementFacts, ProgramIsTree
<1>4. Node(y).stmts = 0
  BY <1>3, StatementFacts
<1>5. PICK j \in DOMAIN P[y] : P[y][j] # 0 /\ u \in Under(P[y][j])
  <2>1. u # y
    BY <1>1, <1>3
  <2>2. \A v \in Under(y) : v = y \/ \E j \in DOMAIN P[y] : P[y][j] # 0 /\ v \in Under(P[y][j])
    BY <1>3, ProgramIsTree
  <2> QED
    BY <2>1, <2>2, <1>3
<1> PICK z : z = P[y][j]
  OBVIOUS
<1>6. z \in N /\ z # NULL /\ u \in Under(z)
  BY <1>3, <1>5, ProgramIsTree DEF NULL
<1>7. j \in program.node[y].stmts + 1 .. Len(program.parts[y]) /\ program.parts[y][j] = z
  <2> PICK s : s = P[y]
    OBVIOUS
  <2>1. s \in Seq(N \union {0}) /\ j \in DOMAIN s
    BY <1>3, <1>5, ProgramIsTree
  <2>2. j \in 0 + 1 .. Len(s)
    BY ONLY <2>1
  <2>3. program.node[y].stmts = 0
    BY <1>3, <1>4, ProgramIsTree
  <2> QED
    BY <2>2, <2>3 DEF P
<1>8. HasExpressions(program, y)
  BY <1>3, ProgramsAssumption DEF IsProgram, N
<1>9. program.node[u].k = "EXPR"
  BY <1>6, <1>7, <1>8 DEF HasExpressions, Under
<1> QED
  BY <1>1, <1>9, ProgramIsTree DEF Kind

\* What mtr_validate gets past has no expression without a type.
LEMMA PassedIsTyped ==
  ASSUME TreeInv, VerdictInv, program' = program, RootIsTyped, NEW s, HandsBack(s),
         Len(calls) = 2, calls[1].does = "check"
  PROVE  Under(P[program.head][calls[1].turn]) \intersect Untyped = {}
<1> PICK n : n = Len(calls)
  OBVIOUS
<1> PICK m : m = n - 1
  OBVIOUS
<1> PICK t : t = calls[n]
  OBVIOUS
<1> PICK c : c = calls[m]
  OBVIOUS
<1> PICK h : h = program.head
  OBVIOUS
<1>0. n = 2 /\ m = 1 /\ calls # <<>> /\ 2 \in 1 .. n /\ 1 \in 1 .. n - 1
  <2>1. n = 2 /\ n = Len(calls) /\ m = n - 1
    OBVIOUS
  <2>2. calls = <<>> => Len(calls) = 0
    BY ONLY TRUE
  <2> QED
    BY ONLY <2>1, <2>2
<1>1. Handed(n, m, t, c, h, s) /\ HandedFor(t, c, s) /\ HandedTo(t, c, h, s) /\ c.id = h
  <2>1. c.id = h
    BY <1>0 DEF TreeInv, Walks
  <2> QED
    BY <2>1, HandFacts
<1> PICK q : q = P[h][c.turn]
  OBVIOUS
<1>2. /\ program \in Programs /\ h \in N /\ c.does = "check" /\ program.parsed = "ok"
      /\ c.turn \in DOMAIN P[h] /\ q \in N /\ q # 0 /\ Origin(t.id) = q
  BY <1>0, <1>1, CallsAreNumbered DEF HandedTo
<1>3. Kind(q) \in {"FN", "NATIVE_FN", "STRUCT", "UNION"}
  <2>1. q \in Range(Globals(program))
    BY <1>2 DEF Globals, Range, P
  <2>2. program.node[q].k \in {"FN", "NATIVE_FN", "STRUCT", "UNION"}
    BY <2>1, <1>2, ProgramsAssumption DEF IsProgram
  <2> QED
    BY <2>2, <1>2, ProgramIsTree DEF Kind
<1>4. t.id = q
  <2>1. 1 \in 1 .. Len(calls) - 1 /\ calls[1].does = "check" /\ calls[1] = c /\ calls[1 + 1] = t
    BY <1>0, <1>2
  <2>2. t.id = q \/ Kind(q) = "ASSIGNMENT"
    BY <2>1, <1>1, AnalysesGoDown
  <2> QED
    BY <2>2, <1>3
<1>5. q \notin Untyped
  <2>1. q \in Untyped => program.node[q].k \in {"ASSIGNMENT", "IF", "WHILE", "RETURN"}
    BY DEF Untyped, Nodes
  <2> QED
    BY <2>1, <1>2, <1>3, ProgramIsTree DEF Kind
<1>6. CASE Clean(q)
  <2>1. \A u \in Untyped : u \notin Under(q)
    BY <1>2, <1>6, UntypedIsNotClean
  <2> QED
    BY <2>1
<1>7. CASE t.does = "free"
  <2>1. Kind(q) # "FN"
    BY <1>0, <1>2, <1>4, <1>7 DEF RootIsTyped
  <2> QED
    BY <2>1, <1>2, <1>3, MembersAreTyped
<1>8. CASE t.does = "check" /\ Forgets(t)
  <2>1. q \in Unreturning /\ t.ok /\ t.turn > Node(q).stmts
    BY <1>4, <1>5, <1>8 DEF Forgets
  <2>2. Kind(q) = "FN" /\ Node(q).stmts = Len(P[q])
    <3>1. Kind(q) = "FN"
      BY <2>1, <1>2, ProgramIsTree DEF Unreturning, Nodes, Kind
    <3> QED
      BY <3>1, <1>2, StatementFacts
  <2>3. Judged(n) /\ t.turn \in Nat
    <3>1. n \in 1 .. Len(calls)
      BY <1>0
    <3> QED
      BY <3>1, CallsAreNumbered DEF VerdictInv
  <2>4. ASSUME NEW i \in DOMAIN P[q], P[q][i] # 0
        PROVE  Clean(P[q][i])
    <3> PICK r : r = P[q]
      OBVIOUS
    <3>1. r \in Seq(N \union {0}) /\ i \in DOMAIN r /\ t.turn > Len(r) /\ t.turn \in Nat
      BY <2>1, <2>2, <2>3, <1>2, ProgramIsTree
    <3>2. i \in 1 .. t.turn - 1
      BY ONLY <3>1
    <3> QED
      BY <3>2, <2>1, <2>3, <2>4, <1>2, <1>4, <1>8 DEF Judged, NULL
  <2>5. ASSUME NEW u \in Under(q), u \in Untyped
        PROVE  FALSE
    <3>1. PICK i \in DOMAIN P[q] : P[q][i] # 0 /\ u \in Under(P[q][i])
      <4>1. u # q
        BY <2>5, <1>5
      <4>2. \A v \in Under(q) : v = q \/ \E i \in DOMAIN P[q] : P[q][i] # 0 /\ v \in Under(P[q][i])
        BY <1>2, ProgramIsTree
      <4> QED
        BY ONLY ZenonT(30), <2>5, <4>1, <4>2
    <3> PICK y : y = P[q][i]
      OBVIOUS
    <3>2. y \in N /\ Clean(y) /\ u \in Under(y)
      BY <3>1, <2>4, <1>2, ProgramIsTree
    <3> QED
      BY <3>2, <2>5, <1>2, UntypedIsNotClean
  <2> QED
    BY <2>5
<1>9. Clean(q) \/ t.does = "free" \/ (t.does = "check" /\ Forgets(t))
  BY <1>1, <1>2 DEF HandedFor
<1>10. Under(q) \intersect Untyped = {}
  BY <1>6, <1>7, <1>8, <1>9
<1>11. calls[1].turn = c.turn
  BY <1>0
<1> QED
  BY <1>10, <1>11

LEMMA RootStaysTyped ==
  ASSUME TreeInv, VerdictInv, program' = program, calls # <<>>, RootIsTyped, Goes
  PROVE  RootIsTyped'
<1> PICK h : h = program.head
  OBVIOUS
<1> PICK n : n = Len(calls)
  OBVIOUS
<1>0. /\ program \in Programs /\ calls \in Seq(Calls) /\ n \in Nat /\ n > 0 /\ DOMAIN calls = 1 .. n
      /\ P' = P /\ Untyped' = Untyped /\ program.head' = program.head
      /\ \A x : Under(x)' = Under(x) /\ Kind(x)' = Kind(x)
  <2>1. n \in Nat /\ n > 0
    BY CallsAreNumbered
  <2> QED
    BY <2>1, CallsAreNumbered, SameProgram DEF TreeInv, Types
<1>1. ASSUME calls' # <<>>, calls'[1] = calls[1],
             Len(calls') > 1 /\ calls'[2].does = "free" => Kind(calls'[2].id) # "FN" \/ calls[1].does # "check"
      PROVE  RootIsTyped'
  BY <1>0, <1>1 DEF RootIsTyped
<1>2. ASSUME NEW d, NEW p, Calls1(d, p)
      PROVE  RootIsTyped'
  <2> PICK ok \in BOOLEAN : ok = TRUE
    OBVIOUS
  <2> PICK c : c = Call(d, p, ok)
    OBVIOUS
  <2>1. p \in Int /\ d \in {"check", "free"} /\ (Top.does = "check" => d = "check")
    BY <1>0, <1>2 DEF TreeInv, Types, Calls1, Live
  <2>2. c = [does |-> d, id |-> p, turn |-> 1, ok |-> ok]
    BY DEF Call
  <2>3. c \in Calls /\ c.does = d
    BY ONLY <2>1, <2>2, ok \in BOOLEAN DEF Calls
  <2>4. calls' = Append(calls, c)
    BY <1>2 DEF Calls1
  <2>5. /\ calls' # <<>> /\ calls'[1] = calls[1] /\ Len(calls') = n + 1
        /\ \A k \in 1 .. n : calls'[k] = calls[k]
        /\ calls'[n + 1] = c
    <3> PICK s : s = calls
      OBVIOUS
    <3>1. /\ Append(s, c) # <<>> /\ Append(s, c)[1] = s[1] /\ Len(Append(s, c)) = n + 1
          /\ \A k \in 1 .. n : Append(s, c)[k] = s[k]
          /\ Append(s, c)[n + 1] = c
      <4>1. s \in Seq(Calls) /\ n = Len(s) /\ n \in Nat /\ n > 0
        BY <1>0
      <4> QED
        BY ONLY <4>1, <2>3
    <3> QED
      BY <3>1, <2>4
  <2>6. CASE n = 1
    <3>1. Top = calls[1] /\ calls'[2] = c
      <4>1. calls'[1 + 1] = c
        BY <2>5, <2>6
      <4>2. 1 + 1 = 2
        OBVIOUS
      <4> QED
        BY <4>1, <4>2, <2>6 DEF Top
    <3>2. calls'[2].does = "free" => calls[1].does # "check"
      BY <3>1, <2>1, <2>3
    <3> QED
      BY <3>2, <2>5, <1>1
  <2>7. CASE n # 1
    <3>1. n > 1 /\ 2 \in 1 .. n
      BY ONLY <2>7, <1>0
    <3>2. calls'[2] = calls[2]
      BY <3>1, <2>5
    <3>3. calls'[2].does = "free" => Kind(calls'[2].id) # "FN" \/ calls[1].does # "check"
      BY <3>1, <3>2 DEF RootIsTyped
    <3> QED
      BY <3>3, <2>5, <1>1
  <2> QED
    BY <2>6, <2>7
<1>3. ASSUME NEW c, GoesOn(c)
      PROVE  RootIsTyped'
  <2>1. /\ c \in Calls /\ c.does # "check" /\ calls' = [calls EXCEPT ![n] = c] /\ c.id = Top.id
        /\ c.does = "free" => Top.does = "free" \/ Kind(Top.id) # "FN"
    BY <1>3 DEF GoesOn
  <2>2. calls' # <<>> /\ Len(calls') = n /\ calls'[n] = c /\ \A k \in 1 .. n : k # n => calls'[k] = calls[k]
    BY <2>1, <1>0
  <2>3. CASE n = 1
    BY <2>1, <2>2, <2>3 DEF RootIsTyped
  <2>4. CASE n = 2
    <3>1. Top = calls[2] /\ 1 \in 1 .. n /\ 1 # n
      BY <2>4 DEF Top
    <3>2. calls'[1] = calls[1] /\ calls'[2] = c
      BY <3>1, <2>2, <2>4
    <3>3. calls'[2].does = "free" => Kind(calls'[2].id) # "FN" \/ calls[1].does # "check"
      BY <3>1, <3>2, <2>1, <2>4 DEF RootIsTyped
    <3> QED
      BY <3>2, <3>3, <2>2, <1>1
  <2>5. CASE n # 1 /\ n # 2
    <3>1. 1 \in 1 .. n /\ 2 \in 1 .. n /\ n > 1 /\ 1 # n /\ 2 # n
      BY ONLY <2>5, <1>0
    <3>2. calls'[1] = calls[1] /\ calls'[2] = calls[2]
      BY <3>1, <2>2
    <3>3. calls'[2].does = "free" => Kind(calls'[2].id) # "FN" \/ calls[1].does # "check"
      BY <3>1, <3>2 DEF RootIsTyped
    <3> QED
      BY <3>2, <3>3, <2>2, <1>1
  <2> QED
    BY <2>3, <2>4, <2>5
<1>4. CASE calls' = calls
  BY <1>4, <1>0 DEF RootIsTyped
<1>5. ASSUME Declare
      PROVE  RootIsTyped'
  <2> PICK t : t = calls[n]
    OBVIOUS
  <2> PICK a : a = t.id
    OBVIOUS
  <2> PICK c : c = Call("check", -a, Right({a}))
    OBVIOUS
  <2>1. Declared(n, t, a) /\ calls'[n] = c
    <3>1. Declared(n, t, a)
      BY <1>5, DeclareFacts
    <3> QED
      BY <3>1 DEF Declared
  <2>2. /\ Kind(a) = "ASSIGNMENT" /\ program.parsed = "ok"
        /\ Len(calls') = n /\ \A k \in 1 .. n - 1 : calls'[k] = calls[k]
    BY ONLY <2>1 DEF Declared
  <2>3. n # 1
    BY <2>2, RootIsBlock DEF Top
  <2>4. 1 \in 1 .. n - 1 /\ Len(calls') # 0 /\ (n # 2 => 2 \in 1 .. n - 1 /\ n > 1)
    BY ONLY <2>2, <2>3, <1>0
  <2>5. calls' # <<>> /\ calls'[1] = calls[1]
    BY <2>2, <2>4
  <2>6. c.does = "check"
    BY DEF Call
  <2>7. calls'[2].does = "free" => Kind(calls'[2].id) # "FN" \/ calls[1].does # "check"
    <3>1. CASE n = 2
      BY <3>1, <2>1, <2>6
    <3>2. CASE n # 2
      <4>1. calls'[2] = calls[2] /\ Len(calls) > 1
        BY <3>2, <2>2, <2>4
      <4> QED
        BY <4>1 DEF RootIsTyped
    <3> QED
      BY <3>1, <3>2
  <2> QED
    BY <2>5, <2>7, <1>1
<1>6. ASSUME NEW s, HandsBack(s)
      PROVE  RootIsTyped'
  <2> PICK m : m = n - 1
    OBVIOUS
  <2> PICK t : t = calls[n]
    OBVIOUS
  <2> PICK c : c = calls[m]
    OBVIOUS
  <2> PICK sl : sl = IF Kind(c.id) = "IF" THEN 1 ELSE c.turn
    OBVIOUS
  <2>1. HandedOver(n, m, t, c, sl, s)
    BY <1>6, HandedBack
  <2>2. /\ m \in Nat \ {0} /\ n = m + 1 /\ Len(calls') = m
        /\ \A k \in 1 .. m - 1 : calls'[k] = calls[k]
        /\ calls'[m].does = c.does /\ calls'[m].id = c.id /\ calls'[m].turn = c.turn + 1
    BY ONLY <2>1 DEF HandedOver
  <2>3. calls' # <<>>
    <3>1. Len(calls') # 0
      BY ONLY <2>2
    <3> QED
      BY ONLY <3>1
  <2>4. CASE m = 1
    <3>1. calls'[1].does = calls[1].does /\ calls'[1].turn = calls[1].turn + 1 /\ n = 2
      BY <2>2, <2>4
    <3>2. ~(Len(calls') > 1)
      BY ONLY <2>2, <2>4
    <3>3. ASSUME calls[1].does = "check", NEW i \in 1 .. calls'[1].turn - 1, P[h][i] # NULL
          PROVE  Under(P[h][i]) \intersect Untyped = {}
      <4>1. calls[1].turn \in Nat /\ (i \in 1 .. calls[1].turn - 1 \/ i = calls[1].turn)
        <5>1. 1 \in 1 .. n
          BY ONLY <3>1
        <5>2. calls[1].turn \in Nat
          BY <5>1, CallsAreNumbered
        <5> PICK turn : turn = calls[1].turn
          OBVIOUS
        <5>3. turn \in Nat /\ i \in 1 .. turn + 1 - 1
          BY <5>2, <3>1
        <5>4. i \in 1 .. turn - 1 \/ i = turn
          BY ONLY <5>3
        <5> QED
          BY <5>2, <5>4
      <4>2. CASE i \in 1 .. calls[1].turn - 1
        BY <4>2, <3>3 DEF RootIsTyped
      <4>3. CASE i = calls[1].turn
        <5>1. Under(P[program.head][calls[1].turn]) \intersect Untyped = {}
          BY <3>1, <3>3, <1>6, PassedIsTyped
        <5> QED
          BY <5>1, <4>3
      <4> QED
        BY <4>1, <4>2, <4>3
    <3> QED
      BY <3>1, <3>2, <3>3, <1>0 DEF RootIsTyped
  <2>5. CASE m # 1
    <3>1. 1 \in 1 .. m - 1 /\ n > 1 /\ (m # 2 => 2 \in 1 .. m - 1)
      BY ONLY <2>2, <2>5
    <3>2. calls'[2].does = calls[2].does /\ calls'[2].id = calls[2].id
      <4>1. CASE m = 2
        BY <4>1, <2>2
      <4>2. CASE m # 2
        BY <4>2, <3>1, <2>2
      <4> QED
        BY <4>1, <4>2
    <3>3. calls'[2].does = "free" => Kind(calls'[2].id) # "FN" \/ calls[1].does # "check"
      BY <3>1, <3>2 DEF RootIsTyped
    <3>4. calls'[1] = calls[1]
      BY <3>1, <2>2
    <3> QED
      BY <3>3, <3>4, <2>3, <1>1
  <2> QED
    BY <2>4, <2>5
<1>7. CASE Ends
  BY <1>7 DEF Ends, RootIsTyped
<1>8. ASSUME ConstructVariable
      PROVE  RootIsTyped'
  <2>1. calls' = calls
    BY <1>8 DEF ConstructVariable
  <2> QED
    BY <2>1, <1>4
<1> QED
  BY <1>2, <1>3, <1>4, <1>5, <1>6, <1>7, <1>8 DEF Goes, Effect

\* A step of a walk, with all that it preserves.
LEMMA WalkGoesOn ==
  ASSUME Walked, program' = program, Step, RootKnows, RootIsTyped
  PROVE  /\ Walked'
         /\ gone' = "wild" => Shapes
         /\ gone' = "" => /\ RootKnows' /\ RootIsTyped'
                          /\ calls' = <<>> => (Dead(program.head) /\ program.head \in freed)'
<1>1. TreeInv /\ DeadInv /\ VerdictInv /\ calls # <<>>
  BY StepsRun DEF Walked
<1>2. Goes
  BY <1>1, StepGoes
<1>3. Walked'
  BY <1>1, <1>2, StepPreservesTree, StepPreservesDead, StepPreservesVerdict DEF Walked
<1>4. RootKnows' /\ (calls' = <<>> => Ends)
  BY <1>1, <1>2, RootStays
<1>5. Ends => (Dead(program.head) /\ program.head \in freed)'
  BY <1>1, EndPreservesDead
<1>6. gone' = "wild" => Shapes
  BY <1>2 DEF Goes
<1>7. RootIsTyped'
  BY <1>1, <1>2, RootStaysTyped
<1> QED
  BY <1>3, <1>4, <1>5, <1>6, <1>7

-----------------------------------------------------------------------------
(* The names and the objects of a program.                                 *)

\* What a step that leaves program alone leaves alone with it.
LEMMA SameObjects ==
  ASSUME program' = program
  PROVE  /\ Names(program)' = Names(program)
         /\ Functions(program)' = Functions(program)
         /\ Nodes({"CLOSURE"})' = Nodes({"CLOSURE"})
         /\ LastIsNew(program)' = LastIsNew(program)
         /\ (Erroneous' <=> Erroneous) /\ Shapes' = Shapes /\ Unreturning' = Unreturning /\ Bare' = Bare
         /\ Untyped' = Untyped
         /\ P' = P
<1>1. Unreturning' = Unreturning /\ Bare' = Bare /\ Nodes({"IF"})' = Nodes({"IF"}) /\ Parameters' = Parameters
  BY DEF Unreturning, Bare, Nodes, Returns, Body, Parameters
<1>2. \A f : Body(f)' = Body(f)
  BY DEF Body
<1>3. Shapes' = Shapes
  BY <1>1, <1>2 DEF Shapes
<1> QED
  BY <1>1, <1>3, SameProgram DEF Nodes

LEMMA RootFacts ==
  ASSUME program \in Programs
  PROVE  /\ Globals(program) = P[program.head] /\ Globals(program) \in Seq(Nat)
         /\ Len(Globals(program)) \in Nat /\ DOMAIN Globals(program) = 1 .. Len(Globals(program))
         /\ \A i \in DOMAIN Globals(program) : Globals(program)[i] \in N \union {0}
<1> PICK s : s = P[program.head]
  OBVIOUS
<1>1. s \in Seq(N \union {0}) /\ N \subseteq Nat
  BY ProgramIsTree
<1>2. Len(s) \in Nat /\ DOMAIN s = 1 .. Len(s) /\ s = [i \in 1 .. Len(s) |-> s[i]]
      /\ \A i \in 1 .. Len(s) : s[i] \in N \union {0}
  BY ONLY <1>1
<1>3. \A i \in 1 .. Len(s) : s[i] \in Nat
  BY ONLY <1>1, <1>2
<1>4. s \in Seq(Nat)
  BY ONLY <1>2, <1>3
<1>5. Globals(program) = s
  BY DEF Globals, P
<1> QED
  BY <1>2, <1>4, <1>5

\* The functions and the closures of a program are different nodes.
LEMMA FunctionsAreNodes ==
  ASSUME program \in Programs
  PROVE  /\ \A f \in Functions(program) : f \in Nat \ {0} /\ program.node[f].name \in Names(program)
         /\ Functions(program) \intersect Nodes({"CLOSURE"}) = {}
         /\ NULL \notin Functions(program)
         /\ PRINT \notin Functions(program) \union Nodes({"CLOSURE"})
<1>1. \A f \in Functions(program) : f \in Range(Globals(program)) \ {NULL}
  BY DEF Functions
<1>2. \A f \in Range(Globals(program)) \ {NULL} : f \in Nat \ {0}
  BY RootFacts, ProgramIsTree DEF Range, NULL
<1>3. \A f \in Functions(program) : program.node[f].name \in Names(program)
  BY <1>1 DEF Names
<1>4. Functions(program) \intersect Nodes({"CLOSURE"}) = {}
  BY DEF Functions, Nodes
<1>5. \A id \in Nodes({"CLOSURE"}) : id \in Nat
  BY ProgramIsTree DEF Nodes, N
<1> QED
  BY <1>1, <1>2, <1>3, <1>4, <1>5 DEF NULL, PRINT

\* Without redefinitions a name belongs to one function.
LEMMA NamesAreUnique ==
  ASSUME program \in Programs, ~SomeRedefined,
         NEW f \in Functions(program), NEW g \in Functions(program),
         program.node[f].name = program.node[g].name
  PROVE  f = g
<1> PICK n : n = Len(Globals(program))
  OBVIOUS
<1>1. n \in Nat /\ DOMAIN Globals(program) = 1 .. n
  BY RootFacts
<1>2. PICK i, j \in 1 .. n : f = Globals(program)[i] /\ g = Globals(program)[j]
  BY <1>1 DEF Functions, Range
<1>3. \A a, b \in 1 .. n :
        a < b => program.node[Globals(program)[a]].name # program.node[Globals(program)[b]].name
  <2> TAKE a, b \in 1 .. n
  <2>1. a < b => a \in 1 .. b - 1
    BY ONLY <1>1
  <2> QED
    BY <2>1, <1>1 DEF SomeRedefined, Redefines
<1>4. ~(i < j) /\ ~(j < i)
  BY <1>2, <1>3
<1>5. i = j
  BY ONLY <1>1, <1>4, i \in 1 .. n, j \in 1 .. n
<1> QED
  BY <1>2, <1>5

\* When every index is right and the last name was free, every name was: the index of the
\* last declaration counts the names before it that were free.
LEMMA RightIndicesAreUnique ==
  ASSUME NEW h, Globals(h) \in Seq(Nat), NEW index \in Indices(h),
         \A i \in DOMAIN index : index[i] = i - 1,
         Globals(h) # <<>> => ~Redefines(h, Len(Globals(h)))
  PROVE  \A i \in DOMAIN Globals(h) : ~Redefines(h, i)
<1> DEFINE n == Len(Globals(h))
           Free == {j \in 1 .. n - 1 : ~Redefines(h, j)}
<1>1. SUFFICES ASSUME NEW i \in DOMAIN Globals(h), Redefines(h, i)
               PROVE  FALSE
  OBVIOUS
<1>2. n \in Nat /\ DOMAIN Globals(h) = 1 .. n
  OBVIOUS
<1>3. n \in 1 .. n /\ ~Redefines(h, n) /\ i \in 1 .. n - 1
  <2> HIDE DEF Redefines
  <2>1. Globals(h) # <<>>
    BY <1>1, <1>2
  <2> QED
    BY <1>1, <1>2, <2>1
<1>4. index[n] = Cardinality(Free)
  BY <1>2, <1>3 DEF Indices
<1>5. index[n] = n - 1
  BY <1>2, <1>3 DEF Indices
<1>6. IsFiniteSet((1 .. n - 1) \ {i}) /\ Cardinality((1 .. n - 1) \ {i}) = n - 2
  <2>1. IsFiniteSet(1 .. n - 1) /\ Cardinality(1 .. n - 1) = n - 1
    <3>1. 1 \in Int /\ n - 1 \in Int /\ 1 <= n - 1
      BY <1>2, <1>3
    <3> QED
      BY <3>1, <1>2, FS_Interval
  <2> DEFINE before == 1 .. n - 1
  <2> HIDE DEF before
  <2>2. /\ IsFiniteSet(before \ {i})
        /\ Cardinality(before \ {i}) = IF i \in before THEN Cardinality(before) - 1 ELSE Cardinality(before)
    BY <2>1, FS_RemoveElement DEF before
  <2> QED
    BY <2>1, <2>2, <1>2, <1>3 DEF before
<1>7. Cardinality(Free) <= n - 2
  <2>1. Free \subseteq (1 .. n - 1) \ {i}
    BY <1>1
  <2> QED
    BY <2>1, <1>6, FS_Subset
<1> QED
  BY <1>2, <1>4, <1>5, <1>7

-----------------------------------------------------------------------------
(* Every step of mtr_launch.                                               *)

\* A stage that has ended, for its successor.
LEMMA Reaches ==
  ASSUME IInv, program' = program, stage' \in Stages, Codes', gone' = "", AtStage'
  PROVE  IInv'
BY DEF IInv

\* A step that ends the process.
LEMMA Quits ==
  ASSUME IInv, program' = program, stage' = stage, exit' = exit, gone' # "", gone' = "wild" => Shapes
  PROVE  IInv'
BY SameObjects DEF IInv, Codes

LEMMA NothingIsUntyped ==
  ASSUME program.wrong = {}
  PROVE  Untyped = {}
BY DEF Untyped

\* When mtr_validate has got past every declaration, no expression has been given up.
LEMMA PassedRootIsTyped ==
  ASSUME Walked, RootIsTyped, Len(calls) = 1, calls[1].does = "check", calls[1].turn > Analysed(program.head)
  PROVE  Untyped = {}
<1> PICK h : h = program.head
  OBVIOUS
<1> PICK t : t = calls[1]
  OBVIOUS
<1>0. /\ program \in Programs /\ h \in N /\ calls # <<>> /\ t.id = h /\ t.turn \in Nat
      /\ program.parsed = "ok" /\ Node(h) = program.node[h] /\ Under(h) = N
  <2>1. calls # <<>> /\ 1 \in 1 .. Len(calls)
    BY ONLY Len(calls) = 1
  <2> QED
    BY <2>1, CallsAreNumbered, ProgramIsTree DEF Walked, TreeInv, Walks, Running
<1>1. Kind(h) = "BLOCK" /\ Node(h).stmts = Len(P[h])
  <2>1. Kind(h) = "BLOCK"
    BY <1>0, ProgramsAssumption DEF IsProgram, Kind
  <2> QED
    BY <2>1, <1>0, StatementFacts
<1>2. t.turn > Len(P[h])
  BY <1>1 DEF Analysed, Kind
<1>3. h \notin Untyped
  BY <1>0, <1>1 DEF Untyped, Nodes, Kind
<1>4. ASSUME NEW u \in Untyped
      PROVE  FALSE
  <2>1. u \in Under(h) /\ u # h
    BY <1>0, <1>3 DEF Untyped, Nodes, N
  <2>2. PICK i \in DOMAIN P[h] : P[h][i] # 0 /\ u \in Under(P[h][i])
    <3>1. \A v \in Under(h) : v = h \/ \E i \in DOMAIN P[h] : P[h][i] # 0 /\ v \in Under(P[h][i])
      BY <1>0, ProgramIsTree
    <3> QED
      BY <2>1, <3>1
  <2>3. i \in 1 .. t.turn - 1
    <3> PICK s : s = P[h]
      OBVIOUS
    <3>1. s \in Seq(N \union {0}) /\ i \in DOMAIN s /\ t.turn > Len(s) /\ t.turn \in Nat
      BY <1>0, <1>2, ProgramIsTree
    <3> QED
      BY ONLY <3>1
  <2> QED
    BY <2>2, <2>3, <1>0 DEF RootIsTyped, NULL
<1> QED
  BY <1>4

LEMMA InitInvariant == Init => IInv
BY DEF Init, IInv, Stages, Codes, AtStage, AtRead, Nothing, Unwalked

LEMMA ReadStep == IInv /\ Read => IInv'
<1> SUFFICES ASSUME IInv, Read PROVE IInv'
  OBVIOUS
<1>1. /\ Nothing /\ Unwalked /\ memory = {} /\ exit = "OK" /\ program' = program /\ gone' = "" /\ gone = ""
      /\ Nothing' /\ Unwalked'
  BY DEF IInv, AtStage, AtRead, Read, At, Nothing, Unwalked, tree
<1>2. CASE stage' = "returned" /\ exit' = "FILE_ERROR" /\ UNCHANGED memory
  <2>1. Swept' /\ Owned'
    <3>1. DOMAIN <<>> = {}
      OBVIOUS
    <3>2. Live' = {} /\ memory' = {} /\ made' = {}
      BY <3>1, <1>1, <1>2 DEF Live, Unwalked, Nothing
    <3> QED
      BY <3>2 DEF Swept, Owned
  <2> QED
    BY <1>1, <1>2, <2>1, Reaches DEF Stages, Codes, AtStage, AtReturned
<1>3. CASE stage' = "parse" /\ UNCHANGED exit
  BY <1>1, <1>3, Reaches DEF Stages, Codes, AtStage, AtRead
<1> QED
  BY <1>2, <1>3 DEF Read

\* The tree of the parser goes to the validator or to mtr_delete_ast.
LEMMA ParseStep == IInv /\ Parse => IInv'
<1> SUFFICES ASSUME IInv, Parse PROVE IInv'
  OBVIOUS
<1> PICK h : h = program.head
  OBVIOUS
<1>1. /\ Nothing /\ Unwalked /\ exit = "OK" /\ program \in Programs /\ program' = program /\ gone = ""
      /\ Nothing' /\ freed' = {} /\ parts' = program.parts
  BY DEF IInv, AtStage, AtRead, Parse, At, Nothing, Unwalked
<1>2. program.parsed \in {"ok", "error", "stops"}
  BY <1>1, ProgramsAssumption
<1>3. CASE program.parsed = "stops"
  BY <1>1, <1>3 DEF Parse, Code, IInv, Stages, Codes
<1>4. CASE program.parsed = "error"
  <2> PICK ok \in BOOLEAN : ok = TRUE
    OBVIOUS
  <2>1. stage' = "delete_ast" /\ exit' = "PARSER_ERROR" /\ gone' = "" /\ calls' = <<Call("free", h, ok)>>
    BY <1>4 DEF Parse, Code, DeleteTree
  <2>2. Walked'
    BY <1>1, <2>1, WalkStarts
  <2>3. calls' # <<>> /\ calls'[1].does = "free"
    BY <2>1 DEF Call
  <2>4. RootKnows' /\ RootIsTyped'
    BY <2>3 DEF RootKnows, RootIsTyped
  <2>5. Untyped' = {}
    <3>1. program.wrong = {}
      BY <1>1, <1>4, ProgramsAssumption
    <3> QED
      BY <3>1, <1>1, NothingIsUntyped, SameObjects
  <2>6. AtDeleteAst'
    BY <1>1, <2>1, <2>2, <2>3, <2>4, <2>5 DEF AtDeleteAst, Compiled
  <2> QED
    BY <1>1, <1>4, <2>1, <2>6, Reaches DEF Stages, Codes, AtStage
<1>5. CASE program.parsed = "ok"
  <2>1. LastIsNew(program) \in BOOLEAN
    BY DEF LastIsNew
  <2> PICK ok \in BOOLEAN : ok = LastIsNew(program)
    BY <2>1
  <2>2. stage' = "validate" /\ exit' = "OK" /\ gone' = "" /\ calls' = <<Call("check", h, ok)>>
    BY <1>1, <1>5 DEF Parse, Code
  <2>3. ~ok => Erroneous
    <3>1. ~LastIsNew(program) => Globals(program) # <<>> /\ Redefines(program, Len(Globals(program)))
      BY Zenon DEF LastIsNew
    <3>2. Globals(program) # <<>> => Len(Globals(program)) \in DOMAIN Globals(program)
      <4> PICK s : s = Globals(program)
        OBVIOUS
      <4>1. s \in Seq(Nat)
        BY <1>1, RootFacts
      <4>2. s # <<>> => Len(s) \in DOMAIN s
        BY ONLY <4>1
      <4> QED
        BY <4>2
    <3> QED
      BY <3>1, <3>2 DEF Erroneous, SomeRedefined
  <2>4. Walked'
    BY <1>1, <1>5, <2>2, <2>3, WalkStarts
  <2>5. calls'[1].ok = ok
    BY <2>2 DEF Call
  <2>6. RootKnows'
    BY <1>1, <2>5, SameObjects DEF RootKnows
  <2>7. RootIsTyped'
    <3> PICK c : c = Call("check", h, ok)
      OBVIOUS
    <3>1. c.turn = 1 /\ 1 .. c.turn - 1 = {}
      <4>1. c.turn = 1
        BY DEF Call
      <4> QED
        BY ONLY <4>1
    <3>2. calls' = <<c>> /\ calls'[1] = c /\ ~(Len(calls') > 1)
      <4>1. <<c>>[1] = c /\ ~(Len(<<c>>) > 1)
        BY ONLY TRUE
      <4> QED
        BY <4>1, <2>2
    <3> QED
      BY <3>1, <3>2 DEF RootIsTyped
  <2>8. AtValidate'
    BY <1>1, <1>5, <2>2, <2>4, <2>6, <2>7 DEF AtValidate
  <2> QED
    BY <1>1, <2>2, <2>8, Reaches DEF Stages, Codes, AtStage
<1> QED
  BY <1>2, <1>3, <1>4, <1>5

\* A step of the validator or of mtr_delete_ast.
LEMMA WalkStep == IInv /\ Walk => IInv'
<1> SUFFICES ASSUME IInv, Walk PROVE IInv'
  OBVIOUS
<1>1. /\ Step /\ program' = program /\ stage' = stage /\ stage \in {"validate", "delete_ast"}
      /\ made' = made /\ deleted' = deleted /\ package' = package /\ exit' = exit
  BY DEF Walk
<1>2. gone = "" /\ calls # <<>>
  BY <1>1, StepsRun
<1>3. Walked /\ RootKnows /\ RootIsTyped
  BY <1>1, <1>2 DEF IInv, AtStage, AtValidate, AtDeleteAst
<1>4. /\ gone' = "wild" => Shapes
      /\ gone' = "" => /\ Walked' /\ RootKnows' /\ RootIsTyped'
                       /\ calls' = <<>> => (Dead(program.head) /\ program.head \in freed)'
  BY <1>1, <1>3, WalkGoesOn
<1>5. CASE gone' # ""
  BY <1>1, <1>4, <1>5, Quits
<1>6. CASE gone' = ""
  <2>1. Codes' /\ stage' \in Stages
    BY <1>1, SameObjects DEF IInv, Codes
  <2>2. CASE stage = "validate"
    <3>1. AtValidate'
      BY <1>1, <1>2, <1>4, <1>6, <2>2 DEF IInv, AtStage, AtValidate, Nothing
    <3> QED
      BY <1>1, <1>6, <2>1, <2>2, <3>1, Reaches DEF AtStage
  <2>3. CASE stage = "delete_ast"
    <3>1. Compiled /\ exit # "FILE_ERROR" /\ Untyped = {}
      BY <1>2, <2>3 DEF IInv, AtStage, AtDeleteAst
    <3>2. Compiled'
      BY <3>1, <1>1, SameObjects DEF Compiled, KnowsFunctions, MadeOf, Nothing
    <3>3. AtDeleteAst'
      BY <3>1, <3>2, <1>1, <1>4, <1>6, SameObjects DEF AtDeleteAst
    <3> QED
      BY <1>1, <1>6, <2>1, <2>3, <3>3, Reaches DEF AtStage
  <2> QED
    BY <1>1, <2>2, <2>3
<1> QED
  BY <1>5, <1>6

\* The verdict of mtr_validate.
LEMMA ValidatedStep == IInv /\ Validated => IInv'
<1> SUFFICES ASSUME IInv, Validated PROVE IInv'
  OBVIOUS
<1> PICK h : h = program.head
  OBVIOUS
<1> PICK c : c = calls[1]
  OBVIOUS
<1>1. /\ Len(calls) = 1 /\ c.does = "check" /\ c.turn > Analysed(h) /\ program' = program
      /\ parts' = parts /\ freed' = freed /\ gone' = gone /\ gone = "" /\ stage = "validate"
      /\ made' = made /\ deleted' = deleted /\ package' = package
      /\ exit' = Code(c.ok, "TYPE_ERROR")
      /\ stage' = IF c.ok THEN "load" ELSE "delete_ast"
      /\ calls' = IF c.ok THEN <<>> ELSE DeleteTree
  BY DEF Validated, At, Top
<1>2. /\ Nothing /\ exit = "OK" /\ program.parsed = "ok" /\ program \in Programs
      /\ Walked /\ RootKnows /\ RootIsTyped
  BY <1>1 DEF IInv, AtStage, AtValidate
<1>3. calls # <<>>
  <2>1. Len(calls) = 1
    BY <1>1
  <2> QED
    BY ONLY <2>1
<1>4. Nothing'
  BY <1>1, <1>2 DEF Nothing
<1>5. CASE c.ok
  <2>1. /\ program.parsed = "ok" /\ program.wrong = {} /\ Unreturning = {} /\ Bare = {}
        /\ h \in Live /\ parts[h] = P[h]
    BY <1>1, <1>2, <1>5, AnalysisEnds
  <2>2. LastIsNew(program)
    BY <1>1, <1>2, <1>3, <1>5 DEF RootKnows
  <2>3. calls' = <<>> /\ stage' = "load" /\ exit' = "OK"
    BY <1>1, <1>2, <1>5 DEF Code
  <2>4. Walked'
    BY <1>1, <1>2, <1>5, <2>3, WalkTurns
  <2>5. Accepted'
    BY <1>1, <2>1, <2>2, <2>3, SameObjects DEF Accepted, Live
  <2>6. AtLoad'
    BY <1>4, <2>3, <2>4, <2>5 DEF AtLoad
  <2> QED
    BY <1>1, <2>3, <2>6, Reaches DEF Stages, Codes, AtStage
<1>6. CASE ~c.ok
  <2>1. calls' = DeleteTree /\ stage' = "delete_ast" /\ exit' = "TYPE_ERROR"
    BY <1>1, <1>6 DEF Code
  <2>2. h \in Live /\ Judged(1)
    <3>1. c.id = h
      BY <1>2, <1>3 DEF Walked, TreeInv, Walks
    <3>2. 1 \in 1 .. Len(calls)
      <4>1. Len(calls) = 1
        BY <1>1
      <4> QED
        BY ONLY <4>1
    <3> QED
      BY <3>1, <3>2, <1>2 DEF Walked, TreeInv, Walks, Running, VerdictInv
  <2>3. Erroneous
    BY <2>2, <1>1, <1>6 DEF Judged
  <2>4. calls' # <<>> /\ calls'[1].does = "free"
    BY <2>1 DEF DeleteTree, Call
  <2>5. Walked'
    BY <1>1, <1>2, <2>1, <2>2, <2>4, WalkTurns
  <2>6. RootKnows' /\ RootIsTyped'
    BY <2>4 DEF RootKnows, RootIsTyped
  <2>7. Untyped' = {}
    <3>1. Untyped = {}
      BY <1>1, <1>2, PassedRootIsTyped
    <3> QED
      BY <3>1, <1>1, SameObjects
  <2>8. AtDeleteAst'
    BY <1>4, <2>1, <2>4, <2>5, <2>6, <2>7 DEF AtDeleteAst, Compiled
  <2> QED
    BY <1>1, <1>2, <2>1, <2>3, <2>8, SameObjects, Reaches DEF Stages, Codes, AtStage
<1> QED
  BY <1>5, <1>6

\* Behind the assertion no name of the program is taken twice, and so nothing is wrong.
LEMMA LoadPackageStep == IInv /\ LoadPackage => IInv'
<1> SUFFICES ASSUME IInv, LoadPackage PROVE IInv'
  OBVIOUS
<1>1. Nothing /\ exit = "OK" /\ program \in Programs /\ Walked /\ Accepted /\ gone = "" /\ stage = "load"
  BY DEF IInv, AtStage, AtLoad, LoadPackage, At
<1>2. PICK index \in Indices(program) :
        IF \A i \in DOMAIN index : index[i] = i - 1 THEN Load
        ELSE Stop("assert") /\ UNCHANGED <<program, stage, memory, package, made, deleted, exit>>
  BY DEF LoadPackage
<1>3. CASE ~ \A i \in DOMAIN index : index[i] = i - 1
  <2>1. gone' = "assert" /\ program' = program /\ stage' = stage /\ exit' = exit
    BY <1>2, <1>3 DEF Stop
  <2> QED
    BY <2>1, Quits
<1>4. CASE \A i \in DOMAIN index : index[i] = i - 1
  <2>1. /\ package' = [name \in Names(program) |-> NULL] /\ stage' = "compile" /\ program' = program
        /\ parts' = parts /\ freed' = freed /\ calls' = calls /\ gone' = gone
        /\ made' = made /\ deleted' = deleted /\ exit' = exit
    BY <1>2, <1>4 DEF Load, tree
  <2>2. \A i \in DOMAIN Globals(program) : ~Redefines(program, i)
    <3>1. Globals(program) \in Seq(Nat) /\ (Globals(program) # <<>> => ~Redefines(program, Len(Globals(program))))
      BY <1>1, RootFacts DEF Accepted, LastIsNew
    <3> QED
      BY <3>1, <1>4, RightIndicesAreUnique
  <2>3. ~Erroneous
    BY <2>2, <1>1 DEF Erroneous, SomeRedefined, Accepted
  <2>4. DOMAIN package' = Names(program)
    BY <2>1
  <2>5. Walked'
    BY <1>1, <2>1, StaysWalked
  <2>6. Accepted'
    BY <1>1, <2>1, SameObjects DEF Accepted, Live
  <2>7. AtCompile'
    BY <1>1, <2>1, <2>3, <2>4, <2>5, <2>6, SameObjects DEF AtCompile, Nothing
  <2> QED
    BY <1>1, <2>1, <2>7, Reaches DEF Stages, Codes, AtStage
<1> QED
  BY <1>3, <1>4

LEMMA WriteBytecodeStep == IInv /\ WriteBytecode => IInv'
<1> SUFFICES ASSUME IInv, WriteBytecode PROVE IInv'
  OBVIOUS
<1>1. /\ program \in Programs /\ made = {} /\ deleted = {} /\ exit = "OK" /\ Walked /\ Accepted
      /\ ~Erroneous /\ DOMAIN package = Names(program) /\ gone = "" /\ program' = program
  BY DEF IInv, AtStage, AtCompile, WriteBytecode, At
<1>2. Functions(Tree) = Functions(program)
  <2>1. Globals(Tree) = Globals(program)
    BY <1>1 DEF Globals, Tree, Accepted, P
  <2> QED
    BY <2>1 DEF Functions, Tree
<1>3. Closures(Live) \subseteq Nodes({"CLOSURE"})
  <2> SUFFICES ASSUME NEW id \in Live, Node(id).k = "CLOSURE"
               PROVE  id \in Nodes({"CLOSURE"})
    BY DEF Closures
  <2>1. id \in N
    <3>1. Kind(id) \in Compound /\ id \in DOMAIN parts
      BY DEF Kind, Compound, Live
    <3> QED
      BY <3>1, <1>1, CompoundsAreOld DEF Walked, TreeInv
  <2> QED
    BY <2>1, <1>1, ProgramIsTree DEF Nodes, N
<1>4. /\ made' = Functions(program) \union Closures(Live) /\ deleted' = {} /\ exit' = "OK"
      /\ stage' = "delete_ast" /\ gone' = "" /\ calls' = DeleteTree
      /\ parts' = parts /\ freed' = freed
      /\ package' = [name \in Names(program) |->
                       IF \E g \in Functions(program) : program.node[g].name = name
                       THEN CHOOSE g \in Functions(program) : program.node[g].name = name
                       ELSE NULL]
  BY <1>1, <1>2 DEF WriteBytecode
<1>5. ASSUME NEW name \in Names(program)
      PROVE  \/ /\ package'[name] \in Functions(program)
                /\ program.node[package'[name]].name = name
             \/ /\ package'[name] = NULL
                /\ ~ \E g \in Functions(program) : program.node[g].name = name
  <2>1. CASE \E g \in Functions(program) : program.node[g].name = name
    <3>1. PICK f : /\ f = CHOOSE g \in Functions(program) : program.node[g].name = name
                   /\ f \in Functions(program) /\ program.node[f].name = name
      BY <2>1
    <3>2. package'[name] = f
      BY <1>4, <2>1, <3>1
    <3> QED
      BY <3>1, <3>2
  <2> QED
    BY <1>4, <2>1
<1>6. KnowsFunctions'
  <2>1. ASSUME NEW f \in Functions(program)
        PROVE  package'[program.node[f].name] = f
    <3>1. program.node[f].name \in Names(program)
      BY <1>1, FunctionsAreNodes
    <3>2. package'[program.node[f].name] \in Functions(program)
          /\ program.node[package'[program.node[f].name]].name = program.node[f].name
      BY <1>5, <3>1
    <3> QED
      BY <1>1, <3>2, NamesAreUnique DEF Erroneous
  <2>2. DOMAIN package' = Names(program)
    BY <1>4
  <2>3. \A name \in Names(program) : package'[name] \in Functions(program) \union {NULL}
    BY <1>5
  <2> QED
    BY <1>1, <2>1, <2>2, <2>3, SameObjects DEF KnowsFunctions
<1>7. Compiled'
  BY <1>1, <1>3, <1>4, <1>6, SameObjects DEF Compiled, MadeOf
<1>8. Walked'
  <2>1. calls = <<>> /\ program.head \in Live
    BY <1>1 DEF Accepted
  <2> QED
    BY <2>1, <1>1, <1>4, WalkTurns
<1>9. calls' # <<>> /\ calls'[1].does = "free"
  BY <1>4 DEF DeleteTree, Call
<1>10. RootKnows' /\ RootIsTyped'
  BY <1>9 DEF RootKnows, RootIsTyped
<1>11. Untyped' = {}
  <2>1. program.wrong = {}
    BY <1>1 DEF Accepted
  <2> QED
    BY <2>1, <1>1, NothingIsUntyped, SameObjects
<1>12. AtDeleteAst'
  BY <1>4, <1>7, <1>8, <1>9, <1>10, <1>11 DEF AtDeleteAst
<1> QED
  BY <1>1, <1>4, <1>12, Reaches DEF Stages, Codes, AtStage

\* What is in use when the root has been deleted, belongs to a function without a return.
LEMMA RootIsSwept ==
  ASSUME Walked, Dead(program.head), Untyped = {}
  PROVE  Swept
<1>1. program \in Programs /\ Types /\ Pointers /\ Under(program.head) = N
  BY ProgramIsTree DEF Walked, TreeInv, Types
<1> SUFFICES ASSUME NEW id \in Live
             PROVE  \E f \in Unreturning \intersect Live : Origin(id) \in program.under[f]
  BY DEF Swept
<1>2. Origin(id) \in N
  <2>1. CASE id \in N
    BY <2>1, <1>1, Origins
  <2>2. CASE id \notin N
    <3>1. -id \in N /\ id \in Int
      BY <2>2, <1>1 DEF Pointers, NewNode, Live, Types
    <3>2. Origin(-(-id)) = -id
      BY <3>1, <1>1, Origins
    <3>3. -(-id) = id
      BY ONLY <3>1
    <3> QED
      BY <3>1, <3>2, <3>3
  <2> QED
    BY <2>1, <2>2
<1>3. Overwritten = {}
  BY DEF Overwritten
<1>4. PICK f \in Forgotten : Origin(id) \in Under(f)
  BY <1>1, <1>2 DEF Dead
<1> QED
  BY <1>3, <1>4 DEF Forgotten, Under

LEMMA DeleteAstStep == IInv /\ DeleteAst => IInv'
<1> SUFFICES ASSUME IInv, DeleteAst PROVE IInv'
  OBVIOUS
<1>1. /\ exit # "FILE_ERROR" /\ Compiled /\ Walked /\ Dead(program.head) /\ Untyped = {} /\ gone = "" /\ gone' = ""
      /\ program' = program /\ parts' = parts /\ freed' = freed /\ package' = package
      /\ made' = made /\ deleted' = deleted /\ exit' = exit
      /\ stage' = IF exit = "OK" THEN "add_io" ELSE "delete_package"
  BY DEF IInv, AtStage, AtDeleteAst, DeleteAst, At, tree
<1>2. Swept
  BY <1>1, RootIsSwept
<1>3. Swept'
  BY <1>1, <1>2, SameObjects DEF Swept, Live, Origin
<1>4. Codes'
  BY <1>1, SameObjects DEF IInv, Codes
<1>5. CASE exit = "OK"
  <2>1. Compiled'
    <3>1. ~Erroneous /\ KnowsFunctions /\ deleted = {} /\ MadeOf({})
      BY <1>1, <1>5 DEF Compiled
    <3>2. KnowsFunctions' /\ MadeOf({})'
      BY <3>1, <1>1, SameObjects DEF KnowsFunctions, MadeOf
    <3> QED
      BY <3>1, <3>2, <1>1, <1>5, SameObjects DEF Compiled
  <2> QED
    BY <1>1, <1>3, <1>4, <1>5, <2>1, Reaches DEF Stages, AtStage, AtAddIO
<1>6. CASE exit # "OK"
  BY <1>1, <1>3, <1>4, <1>6, Reaches DEF Stages, AtStage, AtDeletePackage, Compiled, Nothing
<1> QED
  BY <1>5, <1>6

LEMMA AddIOStep == IInv /\ AddIO => IInv'
<1> SUFFICES ASSUME IInv, AddIO PROVE IInv'
  OBVIOUS
<1>1. /\ program \in Programs /\ exit = "OK" /\ ~Erroneous /\ KnowsFunctions /\ deleted = {} /\ MadeOf({}) /\ Swept
  BY DEF IInv, AtStage, AtAddIO, AddIO, At, Compiled
<1>2. /\ program' = program /\ parts' = parts /\ freed' = freed /\ gone' = "" /\ deleted' = deleted /\ exit' = exit
      /\ made' = made \union {PRINT} /\ stage' = "execute"
      /\ package' = IF "print" \in DOMAIN package THEN [package EXCEPT !["print"] = PRINT] ELSE package
  BY DEF AddIO, At, tree
<1>3. KnowsPrint'
  <2>1. /\ DOMAIN package = Names(program)
        /\ \A f \in Functions(program) : package[program.node[f].name] = f
        /\ \A name \in Names(program) : package[name] \in Functions(program) \union {NULL}
    BY <1>1 DEF KnowsFunctions
  <2>2. DOMAIN package' = DOMAIN package
    BY <1>2
  <2>3. \A name \in Names(program) : package'[name] = IF name = "print" THEN PRINT ELSE package[name]
    BY <1>2, <2>1
  <2>4. \A f \in Functions(program) : program.node[f].name \in Names(program)
    BY <1>1, FunctionsAreNodes
  <2> QED
    BY <1>2, <2>1, <2>2, <2>3, <2>4, SameObjects DEF KnowsPrint
<1>4. Swept'
  BY <1>1, <1>2, SameObjects DEF Swept, Live, Origin
<1>5. MadeOf({PRINT})'
  BY <1>1, <1>2, SameObjects DEF MadeOf
<1>6. AtExecute'
  BY <1>1, <1>2, <1>3, <1>4, <1>5, SameObjects DEF AtExecute
<1> QED
  BY <1>1, <1>2, <1>6, Reaches DEF Stages, Codes, AtStage

LEMMA ExecuteStep == IInv /\ Execute => IInv'
<1> SUFFICES ASSUME IInv, Execute PROVE IInv'
  OBVIOUS
<1>1. exit = "OK" /\ ~Erroneous /\ KnowsPrint /\ deleted = {} /\ MadeOf({PRINT}) /\ Swept
  BY DEF IInv, AtStage, AtExecute, Execute, At
<1>2. /\ program' = program /\ parts' = parts /\ freed' = freed /\ gone' = "" /\ exit' = exit
      /\ package' = package /\ made' = made /\ stage' = "delete_package"
  BY DEF Execute, At, tree
<1>3. deleted' \subseteq Nodes({"CLOSURE"})
  <2>1. PICK linked \in IF HasMain THEN Linkable ELSE {{}} : deleted' = deleted \union linked
    BY DEF Execute
  <2>2. linked \subseteq Closures(DOMAIN program.node)
    BY <2>1 DEF Linkable
  <2>3. \A id \in Closures(DOMAIN program.node) : id \in Nodes({"CLOSURE"})
    <3> SUFFICES ASSUME NEW id \in N, Node(id).k = "CLOSURE"
                 PROVE  id \in Nodes({"CLOSURE"})
      BY DEF Closures, N
    <3>1. Node(id) = program.node[id]
      BY ProgramIsTree DEF IInv
    <3> QED
      BY <3>1 DEF Nodes, N
  <2> QED
    BY <1>1, <2>1, <2>2, <2>3
<1>4. KnowsPrint' /\ Swept' /\ MadeOf({PRINT})'
  BY <1>1, <1>2, SameObjects DEF KnowsPrint, Swept, Live, Origin, MadeOf
<1>5. AtDeletePackage'
  BY <1>1, <1>2, <1>3, <1>4, SameObjects DEF AtDeletePackage
<1> QED
  BY <1>1, <1>2, <1>5, Reaches DEF Stages, Codes, AtStage

\* The package frees the functions and print, the engine has freed closures: there is no
\* object that both know, and only a closure or what print has replaced is left.
LEMMA OwnersAreDistinct ==
  ASSUME program \in Programs, AtDeletePackage
  PROVE  /\ Objects \intersect deleted = {}
         /\ \A object \in made \ (deleted \union Objects) :
              \/ object = PRINT /\ "print" \notin Names(program)
              \/ object \in Nodes({"CLOSURE"})
              \/ object \in Functions(program) /\ program.node[object].name = "print"
<1>1. CASE exit # "OK"
  BY <1>1 DEF AtDeletePackage, Nothing
<1>2. CASE exit = "OK"
  <2>1. KnowsPrint /\ deleted \subseteq Nodes({"CLOSURE"}) /\ MadeOf({PRINT})
    BY <1>2 DEF AtDeletePackage
  <2>2. Objects \subseteq Functions(program) \union {PRINT}
    BY <2>1 DEF KnowsPrint, Objects, Range
  <2>3. PRINT \notin Nodes({"CLOSURE"}) /\ Functions(program) \intersect Nodes({"CLOSURE"}) = {}
    BY FunctionsAreNodes
  <2>4. PRINT # NULL /\ \A f \in Functions(program) : f # NULL /\ program.node[f].name \in Names(program)
    BY FunctionsAreNodes DEF PRINT, NULL
  <2>5. \A f \in Functions(program) : program.node[f].name # "print" => f \in Objects
    BY <2>1, <2>4 DEF KnowsPrint, Objects, Range
  <2>6. "print" \in Names(program) => PRINT \in Objects
    BY <2>1, <2>4 DEF KnowsPrint, Objects, Range
  <2> QED
    BY <2>1, <2>2, <2>3, <2>5, <2>6 DEF MadeOf
<1> QED
  BY <1>1, <1>2

LEMMA DeletePackageStep == IInv /\ DeletePackage => IInv'
<1> SUFFICES ASSUME IInv, DeletePackage PROVE IInv'
  OBVIOUS
<1>1. AtDeletePackage /\ program \in Programs /\ gone = ""
  BY DEF IInv, AtStage, DeletePackage, At
<1>2. Objects \intersect deleted = {}
  BY <1>1, OwnersAreDistinct
<1>3. /\ program' = program /\ parts' = parts /\ freed' = freed /\ gone' = "" /\ exit' = exit /\ made' = made
      /\ deleted' = deleted \union Objects /\ stage' = "returned" /\ memory' = {}
  BY <1>2 DEF DeletePackage
<1>4. Owned'
  <2>1. \A object \in made' \ deleted' :
          \/ object = PRINT /\ "print" \notin Names(program)
          \/ object \in Nodes({"CLOSURE"})
          \/ object \in Functions(program) /\ program.node[object].name = "print"
    BY <1>1, <1>3, OwnersAreDistinct
  <2> QED
    BY <1>3, <2>1, SameObjects DEF Owned
<1>5. Swept'
  BY <1>1, <1>3, SameObjects DEF AtDeletePackage, Swept, Live, Origin
<1>6. AtReturned'
  BY <1>1, <1>3, <1>4, <1>5, SameObjects DEF AtReturned, AtDeletePackage
<1>7. Codes'
  BY <1>3, SameObjects DEF IInv, Codes
<1> QED
  BY <1>3, <1>6, <1>7, Reaches DEF Stages, AtStage

LEMMA NeverComesBackStep == IInv /\ NeverComesBack => IInv'
BY Quits DEF NeverComesBack, Stop

LEMMA StutterStep == IInv /\ UNCHANGED vars => IInv'
<1> SUFFICES ASSUME IInv, UNCHANGED vars PROVE IInv'
  OBVIOUS
<1>1. /\ program' = program /\ parts' = parts /\ freed' = freed /\ calls' = calls /\ gone' = gone /\ stage' = stage
      /\ memory' = memory /\ package' = package /\ made' = made /\ deleted' = deleted /\ exit' = exit
  BY DEF vars, tree
<1>2. CASE gone # ""
  BY <1>1, <1>2, Quits DEF IInv
<1>3. CASE gone = ""
  <2>1. AtStage /\ Codes'
    BY <1>1, <1>3, SameObjects DEF IInv, Codes
  <2>2. Walked => Walked'
    BY <1>1, StaysWalked
  <2>3. KnowsFunctions' = KnowsFunctions /\ KnowsPrint' = KnowsPrint /\ Nothing' = Nothing /\ Owned' = Owned
    BY <1>1, SameObjects DEF KnowsFunctions, KnowsPrint, Nothing, Owned
  <2>4. Swept' = Swept /\ RootKnows' = RootKnows /\ Accepted' = Accepted /\ Unwalked' = Unwalked
    BY <1>1, SameObjects DEF Swept, RootKnows, Accepted, Unwalked, Live, Origin
  <2>14. RootIsTyped' = RootIsTyped
    BY <1>1, SameProgram DEF RootIsTyped
  <2>5. Compiled' = Compiled /\ MadeOf({PRINT})' = MadeOf({PRINT})
    BY <1>1, <2>3, SameObjects DEF Compiled, MadeOf
  <2>6. AtRead => AtRead'
    BY <1>1, <2>3, <2>4 DEF AtRead
  <2>7. (AtValidate => AtValidate') /\ (AtLoad => AtLoad')
    BY <1>1, <2>2, <2>3, <2>4, <2>14 DEF AtValidate, AtLoad
  <2>8. AtCompile => AtCompile'
    BY <1>1, <2>2, <2>4, SameObjects DEF AtCompile
  <2>9. AtDeleteAst => AtDeleteAst'
    <3>1. Live' = Live /\ Forgotten' = Forgotten
      BY <1>1, SameProgram DEF Live, Forgotten
    <3>2. Dead(program.head) => Dead(program.head)'
      BY <3>1, <1>1, SameProgram DEF Dead
    <3> QED
      BY <1>1, <2>2, <2>4, <2>5, <2>14, <3>2, SameObjects DEF AtDeleteAst
  <2>10. (AtAddIO => AtAddIO') /\ (AtExecute => AtExecute')
    BY <1>1, <2>3, <2>4, <2>5, SameObjects DEF AtAddIO, AtExecute
  <2>11. (AtDeletePackage => AtDeletePackage') /\ (AtReturned => AtReturned')
    BY <1>1, <2>3, <2>4, <2>5, SameObjects DEF AtDeletePackage, AtReturned
  <2>12. AtStage'
    BY ZenonT(30), <1>1, <2>1, <2>6, <2>7, <2>8, <2>9, <2>10, <2>11 DEF AtStage, IInv, Stages
  <2>13. stage' \in Stages
    BY <1>1 DEF IInv
  <2> QED
    BY <1>1, <1>3, <2>1, <2>12, <2>13, Reaches
<1> QED
  BY <1>2, <1>3

\* The tree of the parser, also when it ends the process.
LEMMA ParseStarts == IInv /\ Parse => Walked'
<1> SUFFICES ASSUME IInv, Parse PROVE Walked'
  OBVIOUS
<1> PICK h : h = program.head
  OBVIOUS
<1>1. /\ program \in Programs /\ program' = program /\ freed' = {} /\ parts' = program.parts
      /\ calls' = IF program.parsed = "ok" THEN <<Call("check", h, LastIsNew(program))>> ELSE DeleteTree
  BY DEF IInv, AtStage, AtRead, Parse, At, Unwalked
<1>2. CASE program.parsed = "ok"
  <2>1. IInv' /\ gone' = "" /\ stage' = "validate"
    BY <1>2, ParseStep DEF Parse
  <2> QED
    BY <2>1 DEF IInv, AtStage, AtValidate
<1>3. CASE program.parsed # "ok"
  <2> PICK ok \in BOOLEAN : ok = TRUE
    OBVIOUS
  <2>1. calls' = <<Call("free", h, ok)>>
    BY <1>1, <1>3 DEF DeleteTree
  <2> QED
    BY <2>1, <1>1, WalkStarts
<1> QED
  BY <1>2, <1>3

LEMMA WalkStays == IInv /\ Walk => Walked'
<1> SUFFICES ASSUME IInv, Walk PROVE Walked'
  OBVIOUS
<1>1. Step /\ program' = program /\ stage \in {"validate", "delete_ast"}
  BY DEF Walk
<1>2. gone = ""
  BY <1>1, StepsRun
<1>3. Walked /\ RootKnows /\ RootIsTyped
  BY <1>1, <1>2 DEF IInv, AtStage, AtValidate, AtDeleteAst
<1> QED
  BY <1>1, <1>3, WalkGoesOn

\* What every stage knows holds throughout.
LEMMA Invariant == Spec => []IInv
<1>1. IInv /\ [Next]_vars => IInv'
  BY ReadStep, ParseStep, WalkStep, ValidatedStep, LoadPackageStep, WriteBytecodeStep, DeleteAstStep,
     AddIOStep, ExecuteStep, NeverComesBackStep, DeletePackageStep, StutterStep DEF Next, Over
<1> QED
  BY InitInvariant, <1>1, PTL DEF Spec

\* What is known of the tree is known after a crash as well.
LEMMA TreeIsKnown == Spec => [](Unwalked \/ Walked)
<1>1. ASSUME IInv, IInv', Unwalked \/ Walked, [Next]_vars
      PROVE  (Unwalked \/ Walked)'
  <2>1. ASSUME program' = program, parts' = parts, freed' = freed, calls' = calls
        PROVE  (Unwalked \/ Walked)'
    BY <1>1, <2>1, StaysWalked DEF Unwalked
  <2>2. CASE Parse
    BY <1>1, <2>2, ParseStarts
  <2>3. CASE Walk
    BY <1>1, <2>3, WalkStays
  <2>4. CASE Validated \/ WriteBytecode
    BY <1>1, <2>4 DEF Validated, WriteBytecode, At, IInv, AtStage, AtLoad, AtDeleteAst
  <2>5. CASE Read \/ LoadPackage \/ DeleteAst \/ AddIO \/ Execute \/ NeverComesBack \/ DeletePackage
             \/ Over \/ UNCHANGED vars
    <3>1. program' = program /\ parts' = parts /\ freed' = freed /\ calls' = calls
      BY <2>5 DEF Read, LoadPackage, Load, DeleteAst, AddIO, Execute, NeverComesBack, DeletePackage, Over, Stop,
                  vars, tree
    <3> QED
      BY <2>1, <3>1
  <2> QED
    BY <1>1, <2>2, <2>3, <2>4, <2>5 DEF Next
<1>2. Init => Unwalked
  BY DEF Init, Unwalked
<1> QED
  BY Invariant, <1>1, <1>2, PTL DEF Spec

-----------------------------------------------------------------------------
(* The theorems.                                                           *)

\* Whatever program the parser leaves, and wherever the validator finds something wrong with
\* it (validator.c, mtr_free_stmt), a node is freed twice or read after it was freed only
\* with one of the three shapes.
THEOREM FreesOnce == Spec => []FreedTwiceOnlyByThree
<1>1. IInv => FreedTwiceOnlyByThree
  BY DEF IInv, Shapes, FreedTwiceOnlyByThree
<1> QED
  BY Invariant, <1>1, PTL

\* When mtr_launch returns, mtr_delete_ast and the validator between them have freed every
\* node of the tree the parser has left, but for those of functions that lack a return: what
\* TYPE_CHECK gives up is never left behind, for the validator crashes over it.
THEOREM FreesEveryNode == Spec => []NoOtherNodeLeaks
<1>1. IInv => NoOtherNodeLeaks
  BY DEF IInv, AtStage, AtReturned, Swept, NoOtherNodeLeaks, Returned, At
<1> QED
  BY Invariant, <1>1, PTL

\* What the validator has stored NULL over is freed with all below it, but for what TYPE_CHECK
\* and a missing return forget, in every state of every program: when it crashes too.
THEOREM FreesWhatItGivesUp == Spec => []WhatIsGivenUpIsFreed
<1>1. IInv /\ (Unwalked \/ Walked) => WhatIsGivenUpIsFreed
  <2> SUFFICES ASSUME program \in Programs, Unwalked \/ Walked,
                      NEW x \in Live \intersect DOMAIN program.node, NEW i \in DOMAIN parts[x],
                      parts[x][i] = NULL, program.parts[x][i] # NULL
               PROVE  HasElse(x) \/ OnlyForgottenIsLeft(program.parts[x][i])
    BY DEF IInv, WhatIsGivenUpIsFreed
  <2>1. Walked
    <3>1. DOMAIN <<>> = {}
      OBVIOUS
    <3> QED
      BY <3>1 DEF Unwalked, Live
  <2>2. x \in Live /\ x \in N /\ i \in DOMAIN P[x] /\ P[x][i] # NULL
    BY <2>1, PartsAreAsMany DEF Walked, TreeInv, N, P
  <2>3. Dead(P[x][i]) \/ Lost(x)
    BY <2>1, <2>2 DEF Walked, DeadInv
  <2>4. Lost(x) => HasElse(x)
    BY <2>2, ProgramIsTree DEF Lost, HasElse, Kind, P
  <2>5. Dead(P[x][i]) => OnlyForgottenIsLeft(program.parts[x][i])
    BY DEF Dead, OnlyForgottenIsLeft, Under, P
  <2> QED
    BY <2>3, <2>4, <2>5
<1> QED
  BY Invariant, TreeIsKnown, <1>1, PTL

\* An object of the code generator or of mtr_add_io has one owner, mtr_delete_package or the
\* engine, and is freed by it.
THEOREM ObjectsHaveOwners == Spec => []EveryObjectHasAnOwner
<1>1. IInv => EveryObjectHasAnOwner
  <2> SUFFICES ASSUME IInv PROVE EveryObjectHasAnOwner
    OBVIOUS
  <2>1. At("delete_package") => Objects \intersect deleted = {}
    BY OwnersAreDistinct DEF IInv, AtStage, At
  <2>2. Returned => Owned
    BY DEF IInv, AtStage, AtReturned, Returned, At
  <2> QED
    BY <2>1, <2>2 DEF EveryObjectHasAnOwner, Owned
<1> QED
  BY Invariant, <1>1, PTL

\* The tree the code generator is given is in one piece, whatever the validator has replaced
\* in it, but for an else branch.
THEOREM GeneratorFindsTheTree == Spec => []TreeIsWhole
<1>1. Walked /\ Accepted => TreeIsWhole
  <2> SUFFICES ASSUME Walked, Accepted, NEW id \in Live, NEW i \in DOMAIN parts[id]
               PROVE  \/ parts[id][i] \in Live
                      \/ Node(id).k = "IF" /\ i = 2
                      \/ Node(id).k = "VAR" /\ parts[id][i] = NULL
    BY DEF TreeIsWhole, Accepted
  <2>1. /\ program \in Programs /\ program.parsed = "ok" /\ Types /\ Pointers /\ Whole /\ Nulled /\ calls = <<>>
        /\ Bare = {} /\ id \in DOMAIN parts
    BY DEF Walked, TreeInv, VerdictInv, Types, Accepted, Live
  <2>2. \A k : k \notin 1 .. Len(calls)
    BY <2>1
  <2>3. ~Passed(id, i)
    BY <2>2 DEF Passed
  <2>4. parts[id][i] \in Live \/ parts[id][i] = NULL \/ (Kind(id) = "IF" /\ i = 2)
    BY <2>1, <2>3 DEF Whole
  <2>5. CASE parts[id][i] = NULL /\ id \in N
    <3>1. i \in DOMAIN P[id]
      BY <2>1, <2>5, PartsAreAsMany
    <3>2. P[id][i] = NULL
      BY <2>1, <2>2, <2>5, <3>1 DEF Nulled
    <3>3. Kind(id) \in {"VAR", "RETURN"} \/ (Kind(id) = "IF" /\ i = 2)
      BY <2>1, <2>5, <3>1, <3>2, StatementFacts DEF NULL
    <3>4. Kind(id) # "RETURN"
      <4> SUFFICES ASSUME Kind(id) = "RETURN" PROVE FALSE
        OBVIOUS
      <4> PICK s : s = P[id]
        OBVIOUS
      <4>1. s \in Seq(N \union {0}) /\ Len(s) = 1 /\ i \in DOMAIN s /\ s[i] = NULL
        BY <2>1, <2>5, <3>1, <3>2, ProgramIsTree, StatementFacts
      <4>2. s = <<NULL>>
        BY ONLY <4>1
      <4>3. id \in Bare
        BY <4>2, <2>1, <2>5, ProgramIsTree DEF Bare, Nodes, Kind, P, N
      <4> QED
        BY <4>3, <2>1
    <3> QED
      BY <3>3, <3>4, <2>5 DEF Kind
  <2>6. CASE parts[id][i] = NULL /\ id \notin N
    <3>1. NewNode(id)
      BY <2>1, <2>6 DEF Pointers
    <3>2. parts[id] # <<>>
      OBVIOUS
    <3>3. P[-id][2] # NULL /\ parts[id] = <<P[-id][2]>>
      BY <3>1, <3>2 DEF NewNode
    <3>4. parts[id][i] = P[-id][2]
      BY <3>3
    <3> QED
      BY <3>3, <3>4, <2>6
  <2> QED
    BY <2>4, <2>5, <2>6 DEF Kind
<1>2. IInv => TreeIsWhole
  <2> SUFFICES ASSUME IInv, At("load") \/ At("compile")
               PROVE  TreeIsWhole
    BY DEF TreeIsWhole
  <2>1. Walked /\ Accepted
    BY DEF IInv, AtStage, AtLoad, AtCompile, At
  <2> QED
    BY <2>1, <1>1
<1> QED
  BY Invariant, <1>2, PTL

\* The analysis of the declarations in mtr_validate accepts no program with an error, but for
\* a name that is taken, rejects none without, and hands on the declarations it was given.
THEOREM ValidatorIsRight == Spec => []VerdictIsRight
<1>1. IInv => VerdictIsRight
  <2> SUFFICES ASSUME IInv PROVE VerdictIsRight
    OBVIOUS
  <2>1. At("load") => Accepted
    BY DEF IInv, AtStage, AtLoad, At
  <2>2. parts[program.head] = P[program.head] => Globals(Tree) = Globals(program)
    BY DEF Globals, Tree, P
  <2>3. exit = "TYPE_ERROR" => Erroneous
    BY DEF IInv, Codes
  <2> QED
    BY <2>1, <2>2, <2>3 DEF VerdictIsRight, Accepted
<1> QED
  BY Invariant, <1>1, PTL

\* What mtr_execute is given has no error: the assertion of mtr_load_package makes up for
\* what mtr_validate forgets.
THEOREM OnlyRightProgramsRun == Spec => []NoErrorIsExecuted
<1>1. IInv => NoErrorIsExecuted
  BY DEF IInv, AtStage, AtAddIO, AtExecute, Compiled, NoErrorIsExecuted, At
<1> QED
  BY Invariant, <1>1, PTL

\* The exit code tells whether the program has an error, and whether the parser found it.
THEOREM ExitCodeIsRight == Spec => []ExitCodeTells
<1>1. IInv => ExitCodeTells
  <2> SUFFICES ASSUME IInv, Returned
               PROVE  \/ exit = "FILE_ERROR"
                      \/ /\ exit = "OK" <=> ~Erroneous
                         /\ exit = "PARSER_ERROR" <=> program.parsed = "error"
    BY DEF ExitCodeTells
  <2>1. Codes /\ (exit = "OK" => ~Erroneous)
    BY DEF IInv, AtStage, AtReturned, Returned, At
  <2>2. program.parsed # "ok" => Erroneous
    BY DEF Erroneous
  <2> QED
    BY <2>1, <2>2 DEF Codes
<1> QED
  BY Invariant, <1>1, PTL

=============================================================================
