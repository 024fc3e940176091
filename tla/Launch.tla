------------------------------- MODULE Launch -------------------------------
(***************************************************************************)
(* mtr_launch (launch.c), mtr_compile (compiler.c) and the package: a      *)
(* program from its file to its exit code, and who frees what on the way.  *)
(*                                                                         *)
(* A program is the tree its parse leaves, with the field parsed: ok,      *)
(* error, or stops when the parser ends the process.  The objects the code *)
(* generator makes have the address of the node they were made for; PRINT  *)
(* is the native function of mtr_add_io.                                   *)
(*                                                                         *)
(* The engine is seen from outside: it links closures, frees those it has  *)
(* linked, or never comes back.  Engine.tla shows that its sweep does so.  *)
(***************************************************************************)
EXTENDS Ownership, FiniteSets

CONSTANT Programs

Globals(p) == p.parts[p.head]
Names(p)   == {p.node[g].name : g \in Range(Globals(p))}

\* The parts a node has.
Below(p, x) == Range(p.parts[x]) \ {NULL}

(* What the parser leaves is a tree: under gives for a node all that can   *)
(* be reached from it.                                                     *)
IsTree(p) ==
  LET N == DOMAIN p.node
  IN /\ N \subseteq Nat \ {NULL} /\ p.head \in N
     /\ DOMAIN p.parts = N /\ DOMAIN p.under = N /\ p.under[p.head] = N
     /\ \A x \in N :
          /\ p.parts[x] \in Seq(N \union {NULL})
          /\ p.node[x].stmts \in 0 .. Len(p.parts[x])
          /\ p.under[x] = {x} \union UNION {p.under[y] : y \in Below(p, x)}
          /\ \A y \in p.under[x] : p.under[y] \subseteq p.under[x]
          /\ \A y \in Below(p, x) : x \notin p.under[y]
          /\ \A i, j \in DOMAIN p.parts[x] :
               i # j /\ NULL \notin {p.parts[x][i], p.parts[x][j]} =>
                 p.under[p.parts[x][i]] \intersect p.under[p.parts[x][j]] = {}
     /\ \A x, y \in N : x # y => Below(p, x) \intersect Below(p, y) = {}

(* The parts a statement of a kind has, when nothing is wrong with it.     *)
IsStatement(p, x) ==
  LET s == p.node[x]
      ys == p.parts[x]
  IN /\ NULL \in Range(ys) => \/ s.k \in {"VAR", "RETURN"}
                              \/ s.k = "IF" /\ ys[1] # NULL /\ ys[3] # NULL
     /\ s.k = "IF" => s.stmts = 2 /\ Len(ys) = 3
     /\ s.k \in {"WHILE", "CLOSURE"} => s.stmts = 1
     /\ s.k = "CLOSURE" => Len(ys) = 1
     /\ s.k \in {"BLOCK", "SCOPE", "STRUCT", "FN", "UNION", "NATIVE_FN"} => s.stmts = Len(ys)
     /\ s.k = "FN" => /\ s.stmts > 0
                      /\ \A y \in Range(Front(ys)) : p.node[y].k = "VAR" /\ p.parts[y] = <<NULL>>
     /\ s.k \in {"VAR", "RETURN"} => s.stmts = 0 /\ Len(ys) = 1
     /\ s.k = "ASSIGNMENT" => s.stmts = 0 /\ Len(ys) = 2
     /\ s.k \in {"STRUCT", "UNION", "NATIVE_FN"} => \A y \in Below(p, x) : p.node[y].k = "VAR"
     /\ s.k \notin Compound => s.stmts = 0
     /\ \A y \in Below(p, x) : p.node[y].k = "FN" => x = p.head \/ s.k = "CLOSURE"

(* The expressions of a statement: those that are not the target of a      *)
(* declaration are looked at, and each is right or wrong as a whole.       *)
HasExpressions(p, x) ==
  \A i \in p.node[x].stmts + 1 .. Len(p.parts[x]) :
    LET e == p.parts[x][i]
    IN e # NULL => /\ \A y \in p.under[e] : p.node[y].k = "EXPR"
                   /\ p.wrong \intersect p.under[e] \subseteq {e}
                   /\ p.node[x].k = "ASSIGNMENT" /\ p.node[x].declares /\ i = 1 => e \notin p.wrong

(* Without errors the declarations, and no other statements, are the       *)
(* children of the root.                                                   *)
IsProgram(p) ==
  /\ \A x \in DOMAIN p.node : IsStatement(p, x) /\ HasExpressions(p, x)
  /\ p.node[p.head].k = "BLOCK"
  /\ \A g \in Range(Globals(p)) : p.node[g].k \in {"FN", "NATIVE_FN", "STRUCT", "UNION"}
  /\ p.wrong \subseteq {x \in DOMAIN p.node :
       p.node[x].k \in {"EXPR", "VAR", "ASSIGNMENT", "IF", "WHILE", "CLOSURE", "RETURN", "CALL"}}

ASSUME ProgramsAssumption ==
  \A p \in Programs : /\ p.parsed \in {"ok", "error", "stops"}
                      /\ IsTree(p)
                      /\ IF p.parsed = "ok" THEN IsProgram(p) ELSE p.wrong = {}

VARIABLES stage,    \* the call of mtr_launch or mtr_compile that is next
          memory,   \* source, symbols, types, objects (the package's array), engine: those in use
          package,  \* the global names and their objects: the symbol table and the array in one
          made,     \* the objects of the code generator and mtr_add_io
          deleted,  \* those freed by mtr_delete_object
          exit      \* ec

vars == <<program, tree, stage, memory, package, made, deleted, exit>>

PRINT == -1
NoPackage == [name \in {} |-> NULL]

Init == /\ program \in Programs
        /\ parts = <<>> /\ freed = {} /\ calls = <<>> /\ gone = ""
        /\ stage = "read"
        /\ memory = {}
        /\ package = NoPackage
        /\ made = {}
        /\ deleted = {}
        /\ exit = "OK"

At(s) == stage = s /\ gone = ""

\* Mutant: the code of an error is not kept.
CodeForgotten(ok, error) == exit

(* The code an error is given on the way to the label ret. *)
Code(ok, error) == IF ok THEN exit ELSE error

(* mtr_read_file, mtr_init_package *)
Read == /\ At("read")
        /\ \/ stage' = "returned" /\ exit' = "FILE_ERROR" /\ UNCHANGED memory
           \/ stage' = "parse" /\ memory' = {"source", "symbols"} /\ UNCHANGED exit
        /\ UNCHANGED <<program, tree, package, made, deleted>>

(* The answers of load_global are kept for the last global only. *)
Redefines(p, i) == \E j \in 1 .. i - 1 : p.node[Globals(p)[j]].name = p.node[Globals(p)[i]].name

LastIsNew(p) == Globals(p) = <<>> \/ ~Redefines(p, Len(Globals(p)))

DeleteTree == <<Call("free", program.head, TRUE)>>

(* mtr_parse.  A tree with errors goes to mtr_delete_ast as it is; in the  *)
(* other mtr_validate declares the globals.                                *)
Parse == /\ At("parse")
         /\ parts' = program.parts
         /\ gone' = IF program.parsed = "stops" THEN "exit" ELSE ""
         /\ memory' = memory \union {"types"}
         /\ exit' = Code(program.parsed # "error", "PARSER_ERROR")
         /\ stage' = IF program.parsed = "ok" THEN "validate" ELSE "delete_ast"
         /\ calls' = IF program.parsed = "ok" THEN <<Call("check", program.head, LastIsNew(program))>>
                     ELSE DeleteTree
         /\ UNCHANGED <<program, freed, package, made, deleted>>

Walk == /\ stage \in {"validate", "delete_ast"}
        /\ Step
        /\ UNCHANGED <<program, stage, memory, package, made, deleted, exit>>

(* mtr_validate has analysed every global.  A tree that is not right is    *)
(* left to mtr_delete_ast.                                                 *)
Validated == /\ At("validate") /\ Len(calls) = 1
             /\ Top.does = "check" /\ Top.turn > Analysed(program.head)
             /\ exit' = Code(Top.ok, "TYPE_ERROR")
             /\ stage' = IF Top.ok THEN "load" ELSE "delete_ast"
             /\ calls' = IF Top.ok THEN <<>> ELSE DeleteTree
             /\ UNCHANGED <<program, parts, freed, gone, memory, package, made, deleted>>

(* The index of a global counts the names before it.  One whose name was   *)
(* taken has none: the field is what malloc left there.                    *)
Indices(p) == {f \in [DOMAIN Globals(p) -> 0 .. Len(Globals(p))] :
                 \A i \in DOMAIN f :
                   ~Redefines(p, i) => f[i] = Cardinality({j \in 1 .. i - 1 : ~Redefines(p, j)})}

Load == /\ package' = [name \in Names(program) |-> NULL]
        /\ memory' = memory \union {"objects"}
        /\ stage' = "compile"
        /\ UNCHANGED <<program, tree, made, deleted, exit>>

\* Mutant: the build without assertions.
LoadPackageUnchecked == At("load") /\ Load

(* mtr_load_package, which asserts every index. *)
LoadPackage == /\ At("load")
               /\ \E index \in Indices(program) :
                    IF \A i \in DOMAIN index : index[i] = i - 1 THEN Load
                    ELSE Stop("assert") /\ UNCHANGED <<program, stage, memory, package, made, deleted, exit>>

\* The program as the validator has left it.
Tree == [head |-> program.head, node |-> program.node, parts |-> parts]

\* The functions and the structs that are declared, and the closures that there are.
Functions(p) == {g \in Range(Globals(p)) \ {NULL} : p.node[g].k \in {"FN", "STRUCT"}}
Closures(ids) == {id \in ids : Node(id).k = "CLOSURE"}

(* write_bytecode: a function for a function and for a struct, which goes  *)
(* into the package, and one for a closure, which is known to the code of  *)
(* the function around it.                                                 *)
WriteBytecode ==
    /\ At("compile")
    /\ made' = Functions(Tree) \union Closures(Live)
    /\ package' = [name \in DOMAIN package |->
                     IF \E g \in Functions(Tree) : program.node[g].name = name
                     THEN CHOOSE g \in Functions(Tree) : program.node[g].name = name
                     ELSE NULL]
    /\ stage' = "delete_ast"
    /\ calls' = DeleteTree
    /\ UNCHANGED <<program, parts, freed, gone, memory, deleted, exit>>

(* mtr_delete_ast has freed the tree. *)
DeleteAst == /\ At("delete_ast") /\ calls = <<>>
             /\ memory' = memory \ {"types"}
             /\ stage' = IF exit = "OK" THEN "add_io" ELSE "delete_package"
             /\ UNCHANGED <<program, tree, package, made, deleted, exit>>

(* mtr_add_io: an object under the name of print is overwritten; where the *)
(* program has no such name the native function is forgotten.              *)
AddIO == /\ At("add_io")
         /\ made' = made \union {PRINT}
         /\ package' = IF "print" \in DOMAIN package THEN [package EXCEPT !["print"] = PRINT] ELSE package
         /\ memory' = memory \union {"engine"}
         /\ stage' = "execute"
         /\ UNCHANGED <<program, tree, deleted, exit>>

(* package->main is what was inserted under that name. *)
HasMain == "main" \in DOMAIN package /\ package["main"] # NULL

(* A closure is created, and so linked, by the function around it. *)
Linkable == {linked \in SUBSET (made \intersect Closures(DOMAIN program.node)) :
               \A outer \in Closures(DOMAIN program.node) \ linked : linked \intersect program.under[outer] = {}}

(* mtr_execute.  Its result is not looked at. *)
Execute == /\ At("execute")
           /\ \E linked \in IF HasMain THEN Linkable ELSE {{}} : deleted' = deleted \union linked
           /\ memory' = memory \ {"engine"}
           /\ stage' = "delete_package"
           /\ UNCHANGED <<program, tree, package, made, exit>>

(* An exit of the engine, a crash, or a program that never ends. *)
NeverComesBack == /\ At("execute") /\ HasMain
                  /\ Stop("engine")
                  /\ UNCHANGED <<program, stage, memory, package, made, deleted, exit>>

\* Mutant: the object of main is taken for the engine's.
ObjectsButMain == {package[name] : name \in DOMAIN package \ {"main"}} \ {NULL}

(* As many objects are looked at as there are names. *)
Objects == Range(package) \ {NULL}

(* mtr_delete_package and free(source). *)
DeletePackage ==
    /\ At("delete_package")
    /\ deleted' = deleted \union Objects
    /\ gone' = IF Objects \intersect deleted # {} THEN "wild" ELSE ""
    /\ stage' = "returned"
    /\ memory' = {}
    /\ UNCHANGED <<program, parts, freed, calls, package, made, exit>>

Over == (stage = "returned" \/ gone # "") /\ UNCHANGED vars

Next == \/ Read \/ Parse \/ Walk \/ Validated \/ LoadPackage \/ WriteBytecode \/ DeleteAst \/ AddIO
        \/ Execute \/ NeverComesBack \/ DeletePackage \/ Over

Spec == Init /\ [][Next]_vars

-----------------------------------------------------------------------------
Returned == At("returned")

\* The nodes of a kind in the program.
Nodes(kinds) == {id \in DOMAIN program.node : program.node[id].k \in kinds}

Parameters == UNION {Range(Front(program.parts[f])) : f \in Nodes({"FN"})}

Body(f) == Last(program.parts[f])

Returns(f) == \/ program.node[f].void
              \/ program.node[Body(f)].k = "RETURN"
              \/ /\ program.node[Body(f)].k = "BLOCK" /\ program.parts[Body(f)] # <<>>
                 /\ program.node[Last(program.parts[Body(f)])].k = "RETURN"

\* Functions that should return something and do not end with it.
Unreturning == {f \in Nodes({"FN"}) : ~Returns(f)}

SomeRedefined == \E i \in DOMAIN Globals(program) : Redefines(program, i)

Erroneous == program.parsed # "ok" \/ program.wrong # {} \/ Unreturning # {} \/ SomeRedefined

\* The statements with an expression that has no type, where TYPE_CHECK looks at it.
Untyped == {x \in Nodes({"ASSIGNMENT", "IF", "WHILE", "RETURN"}) :
              /\ program.node[x].k = "ASSIGNMENT" => ~program.node[x].declares
              /\ \E i \in program.node[x].stmts + 1 .. Len(program.parts[x]) :
                   program.parts[x][i] \in program.wrong}

\* The then branches of an if whose else branch has been given up, for analyze_if has stored
\* NULL over them.
Overwritten == {program.parts[y][1] : y \in {z \in Nodes({"IF"}) : program.parts[z][2] \in Untyped}}

\* The statements that are not freed with what is around them.
Forgotten == (Live \intersect (Unreturning \union Untyped)) \union Overwritten

HasElse(x) == program.node[x].k = "IF" /\ program.parts[x][2] # NULL

\* The node itself, or the one it was allocated for.
Origin(id) == IF id < 0 THEN -id ELSE id

\* No node and no object is freed twice or read after it was freed, whatever is wrong
\* with the program and wherever the validator finds it, but for three shapes: an else
\* branch (analyze_if), a parameter that fails, an empty body that should return.
FreedTwiceOnlyByThree ==
  gone = "wild" => \/ \E id \in Nodes({"IF"}) : program.parts[id][2] # NULL
                   \/ Parameters \intersect program.wrong # {}
                   \/ \E f \in Unreturning : program.parts[Body(f)] = <<>>

\* When mtr_launch returns, every node of the tree the parser has left is freed, those the
\* validator has added with them, but for the functions that lack a return, which are
\* forgotten with all below them (analyze_function_no_validator).
NoOtherNodeLeaks ==
  Returned => \A id \in Live : \E f \in Unreturning \intersect Live : Origin(id) \in program.under[f]

\* Nothing below x is in use but what is below a statement forgotten there.
OnlyForgottenIsLeft(x) ==
  \A id \in Live :
    Origin(id) \in program.under[x] =>
      \E f \in Forgotten \intersect program.under[x] : Origin(id) \in program.under[f]

\* Where the validator has left NULL for a statement, everything below that is freed but
\* what is forgotten, at every moment of the analysis and after it, in a crash too.  In an
\* if with an else branch the NULL is stored before the branches are freed.
WhatIsGivenUpIsFreed ==
  \A x \in Live \intersect DOMAIN program.node : \A i \in DOMAIN parts[x] :
    parts[x][i] = NULL /\ program.parts[x][i] # NULL => HasElse(x) \/ OnlyForgottenIsLeft(program.parts[x][i])

\* An object has one owner: what mtr_delete_package frees the engine's sweep has not, and
\* when mtr_launch returns every object is freed, but for closures nobody created and what
\* mtr_add_io overwrites or cannot insert.
EveryObjectHasAnOwner ==
  /\ At("delete_package") => Objects \intersect deleted = {}
  /\ Returned =>
       /\ memory = {}
       /\ \A object \in made \ deleted :
            \/ object = PRINT /\ "print" \notin Names(program)
            \/ object \in Nodes({"CLOSURE"})
            \/ object \in Functions(program) /\ program.node[object].name = "print"

\* The code generator finds every statement and expression in its place and none of them
\* freed, however the validator has changed the tree (analyze_assignment,
\* analyze_variable), but for an else branch: analyze_if leaves the pointer to what was
\* there before the branch was analysed.
TreeIsWhole ==
  At("load") \/ At("compile") =>
    /\ program.head \in Live
    /\ \A id \in Live : \A i \in DOMAIN parts[id] :
         \/ parts[id][i] \in Live
         \/ Node(id).k = "IF" /\ i = 2
         \/ Node(id).k = "VAR" /\ parts[id][i] = NULL

\* The analysis of the declarations (the second loop of mtr_validate) finds every error
\* in a body and none where there is none.  What it accepts has the declarations it had,
\* although statements were replaced on the way.
VerdictIsRight ==
  /\ At("load") => /\ program.wrong = {}
                   /\ Unreturning = {}
                   /\ LastIsNew(program)
                   /\ Globals(Tree) = Globals(program)
  /\ exit = "TYPE_ERROR" => Erroneous

\* A program with an error that any check sees is never executed: the parser, the validator
\* and the assertion of mtr_load_package leave none through between them, although the
\* validator forgets a redefinition when the last declaration is fine.
NoErrorIsExecuted == At("add_io") \/ At("execute") => ~Erroneous

\* When mtr_launch returns, the exit code is MTR_OK for a program without an error and
\* for no other, and MTR_PARSER_ERROR when the parser has reported one.
ExitCodeTells ==
  Returned => \/ exit = "FILE_ERROR"
              \/ /\ exit = "OK" <=> ~Erroneous
                 /\ exit = "PARSER_ERROR" <=> program.parsed = "error"

\* What mtr_load_package asserts: the index of every global is its place in the tree.
IndicesAreRight == gone # "assert"

\* mtr_compile hands back MTR_PARSER_ERROR and MTR_TYPE_ERROR, and the tests check for
\* the first: a program with an error makes it return, and not crash.
ErrorsAreReported == gone \in {"crash", "wild"} => ~Erroneous
=============================================================================
