------------------------------- MODULE Stacks -------------------------------
(***************************************************************************)
(* The cells of a call: how the stack of the engine is divided among the   *)
(* calls that run (call() in engine.c, the slots validator.c gives a       *)
(* function, the POP_V compiler.c writes behind a block).                  *)
(*                                                                         *)
(* The engine keeps no record of how many cells a call has.  That is in    *)
(* the code: Height says, for every offset of every chunk of a program,    *)
(* how many cells a call has when it comes there, its arguments among      *)
(* them.  Of an offset no call comes to it says Unreached.                 *)
(***************************************************************************)
EXTENDS Engine

CONSTANT Height        \* program, chunk, offset -> number of cells

Unreached == -1

\* Instructions that pop and do not push.
Consumers == {"SET", "UPVALUE_SET", "INDEX_SET", "STRUCT_SET", "POP", "POP_V"}

\* What the CLOSURE at an offset lists of its i-th upvalue.
ListsLocal(code, ip, i) == code[ip + 10 + UpvalueBytes * i + 2].arg # 0
ListedIndex(code, ip, i) == code[ip + 10 + UpvalueBytes * i].arg

(* The instruction at an offset of a chunk finds the operands it pops and  *)
(* the variables it names among the cells of its own call, and where the   *)
(* loop goes from there the height is what the instruction has made it.    *)
Keeps(height, p, c, ip) ==
  LET code     == p.chunks[c]
      op       == code[ip + 1].op
      n        == code[ip + 2].arg
      h        == height[c][ip]
      next     == ip + 1 + OperandBytes(op)
      To(i, k) == i \in 0..Len(code) /\ height[c][i] = k
  IN  /\ Pops(op, n) <= h
      /\ op = "GET" => n < h
      /\ op = "SET" => n < h - 1
      /\ op = "CLOSURE" => /\ n \in DOMAIN p.heap
                           /\ \A i \in 0..p.heap[n].count - 1 :
                                ListsLocal(code, ip, i) => ListedIndex(code, ip, i) < h
      /\ CASE op \in {"RETURN", "EMPTY_STRING"} -> TRUE
           [] op = "CLOSURE" -> To(next + UpvalueBytes * p.heap[n].count, h + 1)
           [] op = "JMP" -> To(next + n, h)
           [] op = "JMP_Z" -> To(next, h - 1) /\ To(next + n, h - 1)
           [] op \in {"OR", "AND"} -> To(next, h - 1) /\ To(next + n, h)
           [] op \in Consumers -> To(next, h - Pops(op, n))
           [] OTHER -> To(next, h - Pops(op, n) + 1)

(* The heights are heights of the code of a package; main has no arguments. *)
IsStacked(height, p) ==
  /\ \A c \in DOMAIN p.chunks :
       /\ height[c] \in [0..Len(p.chunks[c]) -> Nat \union {Unreached}]
       /\ \A ip \in 0..Len(p.chunks[c]) - 1 : height[c][ip] # Unreached => Keeps(height, p, c, ip)
  /\ p.main # 0 => height[p.heap[p.main].code][0] = 0

(* The height where an activation is. *)
HeightAt(f) == Height[program][f.chunk][f.ip]

(* A call of the chunk that does not return, but comes to the end of the   *)
(* code, leaves one cell as if it did.                                     *)
LeavesOneCell(c) == Height[program][c][Len(package.chunks[c])] \in {1, Unreached}
(* The cells of the k-th call end where those of the next one begin.        *)
Slice(s, from, to) == [i \in 1..to - from |-> s[from + i - 1]]

CellsEnd(k) == IF k = Len(frames) THEN sp ELSE frames[k + 1].base
CellsOf(k)  == Slice(stack, frames[k].base, CellsEnd(k))

Cells == IF status = "running" THEN [k \in 1..Len(frames) |-> CellsOf(k)] ELSE <<>>

Own == INSTANCE CallStacks WITH calls <- Cells
-----------------------------------------------------------------------------
\* What the compiler writes has one height at every offset, whichever way a run comes
\* there: round a loop, over a branch, over the right operand of || and &&, out of a
\* block whose variables were popped (WriteBlock, patch_jump).
RunsStackedCode ==
  status = "running" /\ Len(frames) = 1 /\ Top.ip = 0 => IsStacked(Height[program], package)

\* What a CALL pops is given as many arguments as it declares, and leaves one cell
\* (analyze_call, write_call; nothing looks at this when the program runs).
CalleesFit ==
  At({"CALL"}) /\ Callee.kind \in {"FUNCTION", "CLOSURE"} =>
    Height[program][Callee.code][0] = Argc /\ LeavesOneCell(Callee.code)

\* The stack is divided among the calls without a gap: the cells of the innermost call
\* end at the top, and a call that waits will have, with the result in the place of the
\* arguments, the height of its code where it goes on.
StackIsDivided ==
  status = "running" =>
    /\ sp = Top.base + HeightAt(Top)
    /\ \A k \in 1..Len(frames) - 1 : frames[k + 1].base + 1 = frames[k].base + HeightAt(frames[k])

\* No instruction pops a cell of a caller, or reads or writes a variable or captures one
\* where its call has no cell.
OwnCellsOnly ==
  InLoop /\ CodeReadable =>
    /\ Needs <= sp - Top.base
    /\ Op = "GET" => Operand(1) < sp - Top.base
    /\ Op = "SET" => Operand(1) < sp - Top.base - 1
    /\ Op = "CLOSURE" /\ ClosureReadable =>
         \A i \in 0..heap[Operand(1)].count - 1 :
           CaptureLocal(i) => CaptureIndex(i) < sp - Top.base

\* When a call is over, the stack is what it was below the arguments, and one cell
\* higher: the result has taken the place of the arguments.
CallsLeaveOneCell ==
  [][Len(frames') < Len(frames) /\ frames' # <<>> => sp' = Top.base + 1]_vars

\* Running a function writes no cell of its callers: nothing below its own frame.
CallersKeepTheirCells ==
  [][status = "running" => \A i \in 0..Top.base - 1 : stack'[i] = stack[i]]_vars

\* The engine's one stack serves as a stack for every call.
CallsKeepApart == Own!Spec
=============================================================================
