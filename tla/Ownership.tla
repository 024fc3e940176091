----------------------------- MODULE Ownership -----------------------------
(***************************************************************************)
(* Who frees the nodes of a syntax tree: mtr_free_stmt and mtr_free_expr   *)
(* (parser/parser.c), and the validator, which frees what it finds wrong   *)
(* and stores what it has checked over what it was given.                  *)
(*                                                                         *)
(* Both walk the tree by calling themselves: calls holds the calls that    *)
(* are running, each with its node and the part of it whose turn is next.  *)
(* Only pointers are followed: what the checks look at is abstracted to    *)
(* the program's set wrong, the expressions and statements that fail       *)
(* theirs.                                                                 *)
(*                                                                         *)
(* A node keeps what it is (program.node); what it points to, its parts,   *)
(* may change.  The first stmts of the parts are statements: an if has its *)
(* two branches and the condition, a function its parameters and the body. *)
(* The node the validator allocates for the node id has the address -id.   *)
(*                                                                         *)
(* gone tells how the process has ended: crash (NULL is dereferenced),     *)
(* wild (what was freed is read or freed), assert, exit or engine.         *)
(***************************************************************************)
EXTENDS Integers, SequencesExt

VARIABLES program,  \* what the parser has made of the file
          parts,    \* the pointers of every node allocated so far
          freed,    \* the addresses of those freed
          calls,    \* the calls of analyze_* and mtr_free_*, the innermost last
          gone

tree == <<parts, freed, calls, gone>>

NULL == 0

Live == DOMAIN parts \ freed

(* A variable for an assignment, a constructor's call for a variable. *)
Node(id) == CASE id > 0 -> program.node[id]
              [] id < 0 /\ program.node[-id].k = "ASSIGNMENT" -> [k |-> "VAR", type |-> "inferred", stmts |-> 0]
              [] OTHER -> [k |-> "EXPR", stmts |-> 0]

Allocated(id, pointers) == [x \in DOMAIN parts \union {id} |-> IF x = id THEN pointers ELSE parts[x]]

Call(does, id, ok) == [does |-> does, id |-> id, turn |-> 1, ok |-> ok]

Top    == calls[Len(calls)]
Caller == calls[Len(calls) - 1]
This   == Node(Top.id)
Parts  == parts[Top.id]
Part   == Parts[Top.turn]

Runs(does, kinds) == calls # <<>> /\ gone = "" /\ Top.does = does /\ This.k \in kinds

ExprsOf(id) == {parts[id][i] : i \in Node(id).stmts + 1 .. Len(parts[id])}
Right(ids)  == ids \intersect program.wrong = {}

-----------------------------------------------------------------------------
(* How a call goes on: it ends the process, calls, or returns a pointer.   *)

Stop(how) == gone' = how /\ UNCHANGED <<parts, freed, calls>>

Enter(call) == calls' = Append(calls, call) /\ UNCHANGED <<parts, freed, gone>>

Continue(call) == calls' = [calls EXCEPT ![Len(calls)] = call]

(* A checked else branch is stored over the then branch. *)
Slot(call) == IF Node(call.id).k = "IF" THEN 1 ELSE call.turn

\* Mutant: what an analysis returns is forgotten.
NotStored(s) == parts

(* What an analysis returns is stored in its place. *)
Stored(s) == [parts EXCEPT ![Caller.id][Slot(Caller)] = s]

\* Mutant: only the last statement has to be right.
LastOk(ok, s) == s # NULL

(* An error does not stop the loop. *)
StillOk(ok, s) == ok /\ s # NULL

Return(s) ==
    /\ parts' = IF Len(calls) > 1 /\ Caller.does = "check" THEN Stored(s) ELSE parts
    /\ calls' = IF Len(calls) = 1 THEN <<>>
                ELSE [Front(calls) EXCEPT ![Len(calls) - 1] =
                        [Caller EXCEPT !.turn = @ + 1, !.ok = StillOk(@, s)]]

(* A parameter lies inside the array of its function. *)
IsParameter == Len(calls) > 1 /\ Node(Caller.id).k = "FN" /\ Caller.turn < Node(Caller.id).stmts

\* Mutant: what is not right is not freed.
SanitizeForgets(ok) == Return(IF ok THEN Top.id ELSE NULL) /\ UNCHANGED <<freed, gone>>

(* What is not right is freed, and NULL is returned when that is done. *)
Sanitize(ok) ==
    \/ ok /\ Return(Top.id) /\ UNCHANGED <<freed, gone>>
    \/ ~ok /\ ~IsParameter /\ Continue(Call("free", Top.id, TRUE)) /\ UNCHANGED <<parts, freed, gone>>
    \/ ~ok /\ IsParameter /\ Stop("wild")

(* Every expression of the statement has a type. *)
Typed == Right(ExprsOf(Top.id))

(* TYPE_CHECK: a statement without that is given up, and not freed. *)
TypeCheck == ~Typed /\ Return(NULL) /\ UNCHANGED <<freed, gone>>

-----------------------------------------------------------------------------
(* mtr_free_expr and mtr_free_stmt.                                        *)

(* A statement may be missing, and the value of a variable and of a return. *)
MayBeMissing == Top.turn <= This.stmts \/ This.k \in {"VAR", "RETURN"}

FreePart ==
    /\ calls # <<>> /\ gone = ""
    /\ Top.does = "free" /\ Top.turn <= Len(Parts)
    /\ \/ /\ Part = NULL /\ MayBeMissing
          /\ Continue([Top EXCEPT !.turn = @ + 1])
          /\ UNCHANGED <<parts, freed, gone>>
       \/ Part = NULL /\ ~MayBeMissing /\ Stop("crash")
       \/ Part \in freed /\ Stop("wild")
       \/ Part \in Live /\ Enter(Call("free", Part, TRUE))

FreeNode ==
    /\ calls # <<>> /\ gone = ""
    /\ Top.does = "free" /\ Top.turn > Len(Parts)
    /\ freed' = freed \union {Top.id}
    /\ Return(NULL)
    /\ UNCHANGED gone

-----------------------------------------------------------------------------
(* The validator.                                                          *)

(* A variable of a struct type without a value is given a call of the      *)
(* constructor.                                                            *)
ConstructVariable ==
    /\ Runs("check", {"VAR"})
    /\ This.type = "struct" /\ Parts = <<NULL>>
    /\ parts' = [Allocated(-Top.id, <<>>) EXCEPT ![Top.id] = <<-Top.id>>]
    /\ UNCHANGED <<freed, calls, gone>>

(* The type of a variable without one is that of its value. *)
AnalyzeVariable ==
    /\ Runs("check", {"VAR"})
    /\ ~(This.type = "struct" /\ Parts = <<NULL>>)
    /\ LET untyped == This.type = "inferred" /\ ~Right({Parts[1]})
       IN \/ untyped /\ Stop("crash")
          \/ ~untyped /\ Sanitize(Top.ok /\ Right({Top.id, Parts[1]}))

(* An assignment to an unknown name becomes a variable: the target is      *)
(* freed, and then the assignment, from which the value moves.             *)
AnalyzeAssignment ==
    /\ Runs("check", {"ASSIGNMENT"})
    /\ \/ This.declares /\ Continue([Top EXCEPT !.does = "declare"]) /\ UNCHANGED <<parts, freed, gone>>
       \/ ~This.declares /\ TypeCheck
       \/ ~This.declares /\ Typed /\ Sanitize(Right({Top.id}))

FreeTarget ==
    /\ Runs("declare", {"ASSIGNMENT"}) /\ Top.turn = 1
    /\ Enter(Call("free", Part, TRUE))

\* Mutant: the assignment itself is forgotten.
FreedKeeps == freed

FreedWithAssignment == freed \union {Top.id}

Declare ==
    /\ Runs("declare", {"ASSIGNMENT"}) /\ Top.turn = 2
    /\ freed' = FreedWithAssignment
    /\ parts' = Allocated(-Top.id, <<Part>>)
    /\ Continue(Call("check", -Top.id, Right({Top.id})))
    /\ UNCHANGED gone

(* A return without a value has not been given its function either. *)
AnalyzeReturn ==
    /\ Runs("check", {"RETURN"})
    /\ \/ Parts = <<NULL>> /\ Stop("crash")
       \/ Parts # <<NULL>> /\ TypeCheck
       \/ Parts # <<NULL>> /\ Typed /\ Sanitize(Right({Top.id}))

AnalyzeSimple ==
    \/ Runs("check", {"CALL"}) /\ Sanitize(Right({Top.id} \union ExprsOf(Top.id)))
    \/ Runs("check", {"UNION", "NATIVE_FN"}) /\ Sanitize(TRUE)

Compound == {"BLOCK", "SCOPE", "STRUCT", "IF", "WHILE", "CLOSURE", "FN"}

(* How many of its parts a statement analyses. *)
Analysed(id) == IF Node(id).k = "IF" /\ parts[id][2] = NULL THEN 1 ELSE Node(id).stmts

(* The condition, or the name of a closure. *)
Header(id) == ExprsOf(id) \union {x \in {id} : Node(id).k = "CLOSURE"}

(* At first an if or a while whose condition has no type is given up, and  *)
(* a closure whose name is taken is freed.                                 *)
AnalyzePart ==
    /\ Runs("check", Compound) /\ Top.turn <= Analysed(Top.id)
    /\ \/ Top.turn = 1 /\ TypeCheck
       \/ Top.turn = 1 /\ Typed /\ ~Right(Header(Top.id)) /\ Sanitize(FALSE)
       \/ (Top.turn = 1 => Right(Header(Top.id))) /\ Enter(Call("check", Part, TRUE))

(* mtr_validate itself goes on in Launch. *)
AnalyzeEnd ==
    /\ Runs("check", Compound \ {"FN"}) /\ Top.turn > Analysed(Top.id)
    /\ Len(calls) > 1
    /\ Sanitize(Top.ok /\ Right({Top.id}))

(* A body that fails is NULL and is read.  An empty body has no last       *)
(* statement.  A function that lacks its return is not freed.              *)
AnalyzeFunctionEnd ==
    /\ Runs("check", {"FN"}) /\ Top.turn > This.stmts
    /\ LET body    == Last(Parts)
           inBlock == Node(body).k = "BLOCK"
           last    == Node(IF inBlock THEN Last(parts[body]) ELSE body)
       IN \/ ~Top.ok /\ Stop("crash")
          \/ Top.ok /\ This.void /\ Sanitize(TRUE)
          \/ Top.ok /\ ~This.void /\ inBlock /\ parts[body] = <<>> /\ Stop("wild")
          \/ /\ Top.ok /\ ~This.void
             /\ ~(inBlock /\ parts[body] = <<>>)
             /\ Return(IF last.k = "RETURN" THEN Top.id ELSE NULL)
             /\ UNCHANGED <<freed, gone>>

Analyze == \/ ConstructVariable \/ AnalyzeVariable
           \/ AnalyzeAssignment \/ FreeTarget \/ Declare
           \/ AnalyzeReturn \/ AnalyzeSimple \/ AnalyzePart \/ AnalyzeEnd \/ AnalyzeFunctionEnd

Step == Analyze \/ FreePart \/ FreeNode
=============================================================================
