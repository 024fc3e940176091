------------------------------- MODULE Engine -------------------------------
(***************************************************************************)
(* The bytecode engine: runtime/engine.c with the parts of                 *)
(* runtime/object.c, runtime/memory.c and stl/mtr_io.c that it calls.      *)
(*                                                                         *)
(* mtr_execute runs one program; each activation of the recursive C        *)
(* function call() is a record of the sequence frames, and one step of the *)
(* specification is one turn of its loop.  When the frame of main is left  *)
(* the sweep frees every object of the engine's list.                      *)
(*                                                                         *)
(* Where the C code would read a cell, a member or a pointer that the      *)
(* instruction set gives no meaning to (an empty stack, a slot outside the *)
(* array, an integer used as a pointer, freed memory, a division by zero), *)
(* the run is over in the status "wild": the model follows it no further.  *)
(***************************************************************************)
EXTENDS Bytecode, FiniteSets

CONSTANTS
  Programs,            \* a sequence of compiled programs (packages)
  MaxStack,            \* MTR_MAX_STACK
  MaxFrames,           \* how deep the C stack lets call() recurse
  MaxHeap,             \* how many objects malloc has room for
  IntHalf,             \* half the values of an i64: 2^63
  FloatOp(_, _, _)     \* the FPU: opcode, left, right -> bits

-----------------------------------------------------------------------------
(* Values and objects.                                                     *)

\* A value is a tag and the bits of the union.  An address is an index of the
\* heap, 0 is NULL.  INDETERMINATE tags memory that was never written.
Value == [type : {"INT", "FLOAT", "OBJ", "INDETERMINATE"}, bits : Int]

IntVal(n)   == [type |-> "INT", bits |-> n]
FloatVal(b) == [type |-> "FLOAT", bits |-> b]
ObjVal(a)   == [type |-> "OBJ", bits |-> a]
Nil         == IntVal(0)
Garbage     == [type |-> "INDETERMINATE", bits |-> 0]

Kinds == {"STRUCT", "STRING", "ARRAY", "MAP", "FUNCTION", "NATIVE_FN", "CLOSURE",
          "UPVALUES", "FREED"}

\* What is printed of a value, and what a map compares of its keys.
Leaf == [kind : {"INT", "FLOAT"} \union Kinds, bits : Int]

IsEntries(e) == /\ DOMAIN e \subseteq Leaf /\ IsFiniteSet(DOMAIN e)
                /\ e = [k \in DOMAIN e |-> e[k]]
                /\ \A k \in DOMAIN e : e[k] \in Value

\* code: the chunk of a function or closure, the text of a string;
\* ups, count: the upvalue block of a closure and how many it captures;
\* items: elements, members, or the captured values of an upvalue block;
\* entries: the contents of a map.
IsObject(o) ==
  /\ o = [kind |-> o.kind, next |-> o.next, code |-> o.code, ups |-> o.ups,
          count |-> o.count, items |-> o.items, entries |-> o.entries]
  /\ o.kind \in Kinds /\ o.next \in Nat /\ o.code \in Nat /\ o.ups \in Nat
  /\ o.count \in Nat /\ o.items \in Seq(Value) /\ IsEntries(o.entries)

IsSequence(s) == s \in Seq({s[a] : a \in DOMAIN s})

NoEntries == [k \in {} |-> Nil]

NewObject(kind, next, code, items) ==
  [kind |-> kind, next |-> next, code |-> code, ups |-> 0, count |-> 0,
   items |-> items, entries |-> NoEntries]

\* chunks: the bytecode of every function and closure; heap: the objects made at
\* compile time; globals: addresses of the global functions; main: 0 if there is none.
IsPackage(p) ==
  /\ p.chunks \in Seq(Seq(Cell))
  /\ IsSequence(p.heap)
  /\ \A a \in DOMAIN p.heap : IsObject(p.heap[a])
  /\ \A a \in DOMAIN p.heap :
       /\ p.heap[a].next = 0 /\ p.heap[a].ups = 0
       /\ p.heap[a].kind \in {"FUNCTION", "NATIVE_FN", "CLOSURE"}
       /\ p.heap[a].kind \in {"FUNCTION", "CLOSURE"} => p.heap[a].code \in DOMAIN p.chunks
  /\ p.globals \in Seq(0..Len(p.heap))
  /\ p.main \in 0..Len(p.heap)
  /\ p.main # 0 => p.heap[p.main].kind = "FUNCTION"

ASSUME EngineAssumption ==
  /\ MaxStack \in Nat \ {0} /\ MaxFrames \in Nat \ {0}
  /\ MaxHeap \in Nat /\ IntHalf \in Nat \ {0}
  /\ \A p \in DOMAIN Programs : IsPackage(Programs[p])

-----------------------------------------------------------------------------
VARIABLES
  program,     \* which program runs
  package,     \* the mtr_package mtr_execute was given
  stack,       \* engine->stack, every cell of it
  sp,          \* engine->stack_top, as an offset
  frames,      \* the live activations of call(), main's first
  heap,        \* everything allocated, by address
  objects,     \* engine->objects, the head of the list of linked objects
  cursor,      \* o, the sweep's position in that list
  status,      \* running, sweep, or how the run ended
  out          \* the lines printed

vars == <<program, package, stack, sp, frames, heap, objects, cursor, status, out>>

\* done, no_main: mtr_execute returned; exit, overflow: exit(-1), for an index or for
\* a full stack; abort: a failed assertion; exhausted: no memory, no C stack.
Ended == {"done", "no_main", "exit", "overflow", "abort", "wild", "exhausted"}

Top     == frames[Len(frames)]
Code    == package.chunks[Top.chunk]

\* *ip, and the operand that starts k bytes behind it
Op         == Code[Top.ip + 1].op
Operand(k) == Code[Top.ip + 1 + k].arg

\* the value at the given distance from the top of the stack
Peek(distance) == stack[sp - 1 - distance]

Slot(index) == Top.base + index

-----------------------------------------------------------------------------
(* Words.                                                                  *)

\* A 64-bit result: two's complement, as the builds of the repository wrap.
Wrap(n) == ((n + IntHalf) % (2 * IntHalf)) - IntHalf

Bit(b) == IF b THEN 1 ELSE 0

\* C's division rounds towards zero.
Magnitude(n) == IF n < 0 THEN -n ELSE n
Quotient(l, r) == IF (l < 0) = (r < 0) THEN Magnitude(l) \div Magnitude(r)
                  ELSE -(Magnitude(l) \div Magnitude(r))

IntOp(op, l, r) ==
  CASE op = "ADD_I" -> Wrap(l + r)
    [] op = "SUB_I" -> Wrap(l - r)
    [] op = "MUL_I" -> Wrap(l * r)
    [] op = "DIV_I" -> Wrap(Quotient(l, r))
    [] op = "LESS_I" -> Bit(l < r)
    [] op = "GREATER_I" -> Bit(l > r)
    [] op = "EQUAL_I" -> Bit(l = r)

BinaryResult(op, l, r) ==
  IF op \in IntOps THEN IntVal(IntOp(op, l.bits, r.bits))
  ELSE IF op \in {"LESS_F", "GREATER_F", "EQUAL_F"}
       THEN IntVal(FloatOp(op, l.bits, r.bits))
       ELSE FloatVal(FloatOp(op, l.bits, r.bits))

\* !x of the union's integer, which keeps the tag.  Of a pointer it leaves a
\* null pointer, and of a null pointer an address (-1) where nothing lives.
Negation(v) == [v EXCEPT !.bits = IF v.bits # 0 THEN 0 ELSE IF v.type = "OBJ" THEN -1 ELSE 1]

UnaryResult(op, v) ==
  CASE op = "NOT" -> Negation(v)
    [] op = "NEGATE_I" -> IntVal(Wrap(-v.bits))
    [] op = "NEGATE_F" -> FloatVal(FloatOp(op, v.bits, 0))
    [] op = "INT_CAST" -> IntVal(FloatOp(op, v.bits, 0))
    [] op = "FLOAT_CAST" -> FloatVal(FloatOp(op, v.bits, 0))

-----------------------------------------------------------------------------
(* Objects.                                                                *)

\* a pointer to a live object
IsObj(v) == v.type = "OBJ" /\ v.bits \in 1..Len(heap) /\
            heap[v.bits].kind \notin {"UPVALUES", "FREED"}
KindOf(v) == heap[v.bits].kind

Readable(v) == v.type \in {"INT", "FLOAT"} \/ IsObj(v)

\* A value as it is printed and as it is compared when it is the key of a map:
\* strings by their text, containers by their size alone.
LeafOf(v) ==
  IF v.type # "OBJ" THEN [kind |-> v.type, bits |-> v.bits]
  ELSE LET o == heap[v.bits]
       IN  [kind |-> o.kind,
            bits |-> CASE o.kind = "STRING" -> o.code
                       [] o.kind = "ARRAY" -> Len(o.items)
                       [] o.kind = "MAP" -> Cardinality(DOMAIN o.entries)
                       [] OTHER -> 0]

\* print_value: one line; an array lists its elements.
Printable(v) == /\ Readable(v)
                /\ v.type = "OBJ" /\ KindOf(v) = "ARRAY" =>
                     \A i \in DOMAIN heap[v.bits].items : Readable(heap[v.bits].items[i])
PrintValue(v) ==
  IF v.type = "OBJ" /\ KindOf(v) = "ARRAY"
  THEN <<LeafOf(v)>> \o [i \in DOMAIN heap[v.bits].items |-> LeafOf(heap[v.bits].items[i])]
  ELSE <<LeafOf(v)>>

\* hash_val calls exit for a key that is an object other than a string.
Hashable(v) == v.type = "OBJ" => KindOf(v) = "STRING"

MapInsert(entries, key, val) ==
  [k \in DOMAIN entries \union {key} |-> IF k = key THEN val ELSE entries[k]]
MapGet(entries, key) == IF key \in DOMAIN entries THEN entries[key] ELSE Nil

-----------------------------------------------------------------------------
(* What an instruction reads, and when the model knows what it reads.      *)

\* cells of the stack an instruction with the operand n pops or inspects
Pops(op, n) ==
  CASE op \in UnaryOps \union {"OR", "AND", "SET", "UPVALUE_SET", "STRUCT_GET", "JMP_Z",
                               "POP", "RETURN"} -> 1
    [] op \in BinaryOps \union {"INDEX_GET", "STRUCT_SET"} -> 2
    [] op = "INDEX_SET" -> 3
    [] op \in {"ARRAY_LITERAL", "CONSTRUCTOR", "POP_V"} -> n
    [] op = "MAP_LITERAL" -> 2 * n
    [] op = "CALL" -> 1 + n
    [] OTHER -> 0

Needs == Pops(Op, Operand(1))

\* A map literal's pairs in the order they are popped.
LiteralKey(i)   == Peek(2 * i - 1)
LiteralValue(i) == Peek(2 * i - 2)

\* The i-th upvalue named behind a CLOSURE instruction (i from 0).
CaptureIndex(i) == Operand(9 + UpvalueBytes * i)
CaptureLocal(i) == Operand(9 + UpvalueBytes * i + 2) # 0

HasUpvalue(index) == Top.closed # 0 /\ index < Len(heap[Top.closed].items)
Upvalue(index)    == heap[Top.closed].items[index + 1]

CodeReadable ==
  /\ Top.ip >= 0
  /\ Op \in OpCodes
  /\ Top.ip + 1 + OperandBytes(Op) <= Len(Code)
  /\ OperandBytes(Op) > 0 => Operand(1) \in Nat \/ Op \in {"INT", "FLOAT", "OR", "AND", "JMP", "JMP_Z"}

StackReadable == Needs <= sp

ClosureReadable ==
  /\ Operand(1) \in 1..Len(heap)
  /\ heap[Operand(1)].kind = "CLOSURE"
  /\ Top.ip + 9 + UpvalueBytes * heap[Operand(1)].count <= Len(Code)
  /\ \A i \in 0..heap[Operand(1)].count - 1 :
       /\ CaptureIndex(i) \in Nat
       /\ IF CaptureLocal(i) THEN Slot(CaptureIndex(i)) < MaxStack
          ELSE HasUpvalue(CaptureIndex(i))

OperandsReadable ==
  CASE Op \in IntOps ->
         /\ Peek(0).type = "INT" /\ Peek(1).type = "INT"
         /\ Op = "DIV_I" => Peek(0).bits # 0 /\ ~(Peek(0).bits = -1 /\ Peek(1).bits = -IntHalf)
    [] Op \in FloatOps -> Peek(0).type = "FLOAT" /\ Peek(1).type = "FLOAT"
    [] Op \in {"NEGATE_I", "FLOAT_CAST"} -> Peek(0).type = "INT"
    [] Op \in {"NEGATE_F", "INT_CAST"} -> Peek(0).type = "FLOAT"
    [] Op \in {"NOT", "OR", "AND", "JMP_Z"} -> Peek(0).type # "INDETERMINATE"
    [] Op \in {"GET", "SET"} -> Slot(Operand(1)) < MaxStack
    [] Op = "GLOBAL_GET" -> Operand(1) < Len(package.globals)
    [] Op \in {"UPVALUE_GET", "UPVALUE_SET"} -> HasUpvalue(Operand(1))
    [] Op = "CLOSURE" -> ClosureReadable
    [] Op = "MAP_LITERAL" -> \A i \in 1..Operand(1) : Readable(LiteralKey(i))
    [] Op \in {"INDEX_GET", "INDEX_SET"} ->
         /\ IsObj(Peek(1))
         /\ KindOf(Peek(1)) \in {"ARRAY", "STRING"} => Peek(0).type = "INT"
         /\ KindOf(Peek(1)) = "MAP" => Readable(Peek(0))
    [] Op \in {"STRUCT_GET", "STRUCT_SET"} ->
         /\ IsObj(Peek(0)) /\ KindOf(Peek(0)) = "STRUCT"
         /\ U8(Operand(1)) < Len(heap[Peek(0).bits].items)
    [] Op = "CALL" -> /\ IsObj(Peek(0))
                      /\ KindOf(Peek(0)) = "NATIVE_FN" => Printable(stack[sp - 1 - Operand(1)])
    [] OTHER -> TRUE

Readied == CodeReadable /\ StackReadable /\ OperandsReadable

\* The loop is about to execute one of these opcodes, on operands it can read.
InLoop  == status = "running" /\ Top.ip < Len(Code)
At(ops) == InLoop /\ Readied /\ Op \in ops

-----------------------------------------------------------------------------
(* The primitives of the handlers.                                         *)

\* ip moves over the instruction and its operands, then by jump bytes more.
Width == 1 + OperandBytes(Op)
Jump(distance) == frames' = [frames EXCEPT ![Len(frames)].ip = Top.ip + Width + distance]
Advance        == Jump(0)

\* Mutant: push() allows one value more than the array holds.
ReplaceUnchecked(n, v) == /\ sp - n <= MaxStack
                          /\ stack' = [stack EXCEPT ![sp - n] = v]
                          /\ sp' = sp - n + 1

\* Pop n values, then push v.  push() is checked against MTR_MAX_STACK.
Replace(n, v) == /\ sp - n < MaxStack
                 /\ stack' = [stack EXCEPT ![sp - n] = v]
                 /\ sp' = sp - n + 1

\* Pop n values; what they were stays in the array.
Drop(n) == sp' = sp - n /\ UNCHANGED stack

\* mtr_new_*, then mtr_link_obj: the new object becomes the head of the list.
Fresh == Len(heap) + 1

\* Mutant: the new object is put behind the head of the list, and lost to the sweep.
LinkBehind(kind, code, items) ==
  /\ Len(heap) < MaxHeap
  /\ heap' = Append(heap, NewObject(kind, objects, code, items))
  /\ objects' = IF objects = 0 THEN Fresh ELSE objects

Link(kind, code, items) ==
  /\ Len(heap) < MaxHeap
  /\ heap' = Append(heap, NewObject(kind, objects, code, items))
  /\ objects' = Fresh

Running == UNCHANGED <<program, package, cursor, status>>
Silent  == Running /\ UNCHANGED out
NoAlloc == Silent /\ UNCHANGED <<heap, objects>>

-----------------------------------------------------------------------------
(* Instructions that push a constant or a new object.                      *)

ConstantValue == CASE Op = "INT" -> IntVal(Operand(1))
                   [] Op = "FLOAT" -> FloatVal(Operand(1))
                   [] Op = "TRUE" -> IntVal(1)
                   [] OTHER -> Nil

Constant == At(ConstantOps) /\ Replace(0, ConstantValue) /\ Advance /\ NoAlloc

StringLiteral == /\ At({"STRING_LITERAL"})
                 /\ Link("STRING", Operand(1), <<>>)
                 /\ Replace(0, ObjVal(Fresh)) /\ Advance /\ Silent

\* The first value popped is the first element: the compiler writes an array's
\* elements from last to first.
ArrayLiteral == /\ At({"ARRAY_LITERAL"})
                /\ Link("ARRAY", 0, [i \in 1..Operand(1) |-> Peek(i - 1)])
                /\ Replace(Operand(1), ObjVal(Fresh)) /\ Advance /\ Silent

\* Pairs are inserted as they are popped: of two equal keys the later one stays.
LastPair(k) == CHOOSE i \in 1..Operand(1) :
                 /\ LeafOf(LiteralKey(i)) = k
                 /\ \A j \in 1..Operand(1) : LeafOf(LiteralKey(j)) = k => j <= i

MapLiteral ==
  /\ At({"MAP_LITERAL"})
  /\ \A i \in 1..Operand(1) : Hashable(LiteralKey(i))
  /\ Len(heap) < MaxHeap
  /\ LET keys == {LeafOf(LiteralKey(i)) : i \in 1..Operand(1)}
     IN  heap' = Append(heap, [NewObject("MAP", objects, 0, <<>>) EXCEPT
                                 !.entries = [k \in keys |-> LiteralValue(LastPair(k))]])
  /\ objects' = Fresh
  /\ Replace(2 * Operand(1), ObjVal(Fresh)) /\ Advance /\ Silent

\* The last value popped is the first member.
Constructor ==
  /\ At({"CONSTRUCTOR"})
  /\ Link("STRUCT", 0, [i \in 1..Operand(1) |-> Peek(Operand(1) - i)])
  /\ Replace(Operand(1), ObjVal(Fresh)) /\ Advance /\ Silent

EmptyContainer ==
  /\ At(ContainerOps)
  /\ Link(IF Op = "EMPTY_ARRAY" THEN "ARRAY" ELSE "MAP", 0, <<>>)
  /\ Replace(0, ObjVal(Fresh)) /\ Advance /\ Silent

\* The closure object was made at compile time: every execution of the
\* instruction links that one object again and gives it a new upvalue block.
Captured(i) == IF CaptureLocal(i) THEN stack[Slot(CaptureIndex(i))]
               ELSE Upvalue(CaptureIndex(i))

Closure ==
  /\ At({"CLOSURE"})
  /\ Len(heap) < MaxHeap
  /\ LET c == Operand(1)
         n == heap[c].count
     IN  /\ heap' = Append([heap EXCEPT ![c].next = objects, ![c].ups = Fresh],
                           NewObject("UPVALUES", 0, 0, [i \in 1..n |-> Captured(i - 1)]))
         /\ objects' = c
         /\ Replace(0, ObjVal(c))
         /\ Jump(UpvalueBytes * n)
  /\ Silent

-----------------------------------------------------------------------------
(* Operators, variables, members.                                          *)

Unary  == At(UnaryOps) /\ Replace(1, UnaryResult(Op, Peek(0))) /\ Advance /\ NoAlloc
Binary == At(BinaryOps) /\ Replace(2, BinaryResult(Op, Peek(1), Peek(0))) /\ Advance /\ NoAlloc

\* || and && leave the left operand when it decides, and pop it when it does not.
ShortCircuit ==
  /\ At({"OR", "AND"})
  /\ IF (Op = "OR") = (Peek(0).bits # 0)
     THEN Jump(Operand(1)) /\ UNCHANGED <<stack, sp>>
     ELSE Advance /\ Drop(1)
  /\ NoAlloc

GetLocal  == At({"GET"}) /\ Replace(0, stack[Slot(Operand(1))]) /\ Advance /\ NoAlloc
GetGlobal == At({"GLOBAL_GET"}) /\ Replace(0, ObjVal(package.globals[Operand(1) + 1]))
                                /\ Advance /\ NoAlloc
GetUpvalue == At({"UPVALUE_GET"}) /\ Replace(0, Upvalue(Operand(1))) /\ Advance /\ NoAlloc

SetLocal ==
  /\ At({"SET"})
  /\ stack' = [stack EXCEPT ![Slot(Operand(1))] = Peek(0)]
  /\ sp' = sp - 1
  /\ Advance /\ NoAlloc

SetUpvalue ==
  /\ At({"UPVALUE_SET"})
  /\ heap' = [heap EXCEPT ![Top.closed].items[Operand(1) + 1] = Peek(0)]
  /\ Drop(1) /\ Advance /\ Silent /\ UNCHANGED objects

\* An element that can be reached: the object is under the index on the stack.
\* (size_t) of a negative index is out of every array's bounds.
InArray == KindOf(Peek(1)) = "ARRAY" /\ Peek(0).bits \in 0..Len(heap[Peek(1).bits].items) - 1
InMap   == KindOf(Peek(1)) = "MAP" /\ Hashable(Peek(0))

IndexGet ==
  /\ At({"INDEX_GET"})
  /\ \/ InArray /\ Replace(2, heap[Peek(1).bits].items[Peek(0).bits + 1])
     \/ InMap /\ Replace(2, MapGet(heap[Peek(1).bits].entries, LeafOf(Peek(0))))
  /\ Advance /\ NoAlloc

IndexSet ==
  /\ At({"INDEX_SET"})
  /\ \/ InArray /\ heap' = [heap EXCEPT ![Peek(1).bits].items[Peek(0).bits + 1] = Peek(2)]
     \/ InMap /\ heap' = [heap EXCEPT ![Peek(1).bits].entries =
                            MapInsert(@, LeafOf(Peek(0)), Peek(2))]
  /\ Drop(3) /\ Advance /\ Silent /\ UNCHANGED objects

\* A member's index is read as a u16 and kept as a u8.
Member == U8(Operand(1)) + 1

StructGet == At({"STRUCT_GET"}) /\ Replace(1, heap[Peek(0).bits].items[Member])
                                /\ Advance /\ NoAlloc
StructSet ==
  /\ At({"STRUCT_SET"})
  /\ heap' = [heap EXCEPT ![Peek(0).bits].items[Member] = Peek(1)]
  /\ Drop(2) /\ Advance /\ Silent /\ UNCHANGED objects

-----------------------------------------------------------------------------
(* Control.                                                                *)

JumpAlways == At({"JMP"}) /\ Jump(Operand(1)) /\ NoAlloc /\ UNCHANGED <<stack, sp>>
JumpIfZero == At({"JMP_Z"}) /\ Drop(1) /\ NoAlloc
              /\ Jump(IF Peek(0).bits = 0 THEN Operand(1) ELSE 0)

Pop == At({"POP", "POP_V"}) /\ Drop(Needs) /\ Advance /\ NoAlloc

Argc   == Operand(1)
Callee == heap[Peek(0).bits]

\* Mutant: the frame is placed before the callee is popped, a cell too high.
ActivationTooEarly(o) == [chunk |-> o.code, ip |-> 0, base |-> sp - Argc,
                          closed |-> IF o.kind = "CLOSURE" THEN o.ups ELSE 0]

\* The callee is popped; its frame starts at the first argument, which stays
\* where it is.  Only a closure has captured values.
Activation(o) == [chunk |-> o.code, ip |-> 0, base |-> sp - 1 - Argc,
                  closed |-> IF o.kind = "CLOSURE" THEN o.ups ELSE 0]

CallFunction ==
  /\ At({"CALL"})
  /\ Callee.kind \in {"FUNCTION", "CLOSURE"}
  /\ Len(frames) < MaxFrames
  /\ frames' = Append([frames EXCEPT ![Len(frames)].ip = Top.ip + Width], Activation(Callee))
  /\ Drop(1) /\ NoAlloc

\* print is the one native function mtr_add_io installs; it returns Nil.
CallNative ==
  /\ At({"CALL"})
  /\ Callee.kind = "NATIVE_FN"
  /\ out' = Append(out, PrintValue(stack[sp - 1 - Argc]))
  /\ Replace(1 + Argc, Nil) /\ Advance
  /\ Running /\ UNCHANGED <<heap, objects>>

\* call() returns: to the caller's loop, or from main to mtr_execute.
Leave ==
  /\ frames' = SubSeq(frames, 1, Len(frames) - 1)
  /\ IF Len(frames) = 1 THEN status' = "sweep" /\ cursor' = objects
                        ELSE UNCHANGED <<status, cursor>>
  /\ UNCHANGED <<program, package, heap, objects, out>>

\* Mutant: the locals of the call stay on the stack, under its result.
ReturnOnTop ==
  /\ At({"RETURN"})
  /\ stack' = [stack EXCEPT ![sp - 1] = Peek(0)]
  /\ sp' = sp
  /\ Leave

\* Mutant: the result takes the cell below the arguments, where a callee that was
\* pushed first would be.
ReturnBelow ==
  /\ At({"RETURN"})
  /\ stack' = [stack EXCEPT ![Top.base - 1] = Peek(0)]
  /\ sp' = Top.base
  /\ Leave

\* The result takes the place of the arguments and of everything above them.
Return ==
  /\ At({"RETURN"})
  /\ stack' = [stack EXCEPT ![Top.base] = Peek(0)]
  /\ sp' = Top.base + 1
  /\ Leave

\* The end of the chunk: call() returns and leaves the stack as it is.
FallOff == /\ status = "running" /\ Top.ip >= Len(Code)
           /\ Leave /\ UNCHANGED <<stack, sp>>

-----------------------------------------------------------------------------
(* How a run ends before its program does.                                 *)

End(how) == status' = how /\ UNCHANGED <<program, package, stack, sp, frames, heap,
                                             objects, cursor, out>>

Allocates == Op \in {"STRING_LITERAL", "ARRAY_LITERAL", "MAP_LITERAL", "CONSTRUCTOR",
                     "CLOSURE", "EMPTY_ARRAY", "EMPTY_MAP"}
Pushes == Allocates \/ Op \in ConstantOps \union {"GET", "GLOBAL_GET", "UPVALUE_GET"}

\* The object is made before it is pushed.
StackOverflow == /\ InLoop /\ Readied /\ Pushes /\ sp - Needs >= MaxStack
                 /\ Allocates => Len(heap) < MaxHeap
                 /\ End("overflow")
OutOfMemory   == InLoop /\ Readied /\ Allocates /\ Len(heap) >= MaxHeap /\ End("exhausted")
CStackOverflow == /\ At({"CALL"}) /\ Callee.kind \in {"FUNCTION", "CLOSURE"}
                  /\ Len(frames) >= MaxFrames /\ End("exhausted")

\* exit(-1): an index outside the array, a string, a key that cannot be hashed.
BadIndex ==
  \/ At({"INDEX_GET"}) /\ ~InArray /\ ~InMap /\ End("exit")
  \/ At({"INDEX_SET"}) /\ KindOf(Peek(1)) \in {"STRING", "ARRAY", "MAP"} /\ ~InArray /\ ~InMap
                       /\ End("exit")
  \/ At({"MAP_LITERAL"}) /\ ~(\A i \in 1..Operand(1) : Hashable(LiteralKey(i)))
                         /\ Len(heap) < MaxHeap /\ End("exit")

\* MTR_ASSERT(false, ...): "Think about this", "Invalid object type",
\* "Object is not invokable".
AssertFails ==
  \/ At({"EMPTY_STRING"}) /\ End("abort")
  \/ At({"INDEX_SET"}) /\ KindOf(Peek(1)) \notin {"STRING", "ARRAY", "MAP"} /\ End("abort")
  \/ At({"CALL"}) /\ Callee.kind \notin {"FUNCTION", "CLOSURE", "NATIVE_FN"} /\ End("abort")

GoesWild == InLoop /\ ~Readied /\ End("wild")

-----------------------------------------------------------------------------
(* mtr_execute: before and after the loop.                                 *)

\* The sweep reads the next link of an object and frees the object; a closure
\* takes its upvalue block with it.  An object met twice is freed twice.
FreeObject ==
  /\ status = "sweep" /\ cursor # 0
  /\ heap[cursor].kind # "FREED"
  /\ LET block == IF heap[cursor].kind = "CLOSURE" THEN {heap[cursor].ups} ELSE {}
     IN  heap' = [a \in DOMAIN heap |-> IF a \in block \union {cursor}
                                        THEN [heap[a] EXCEPT !.kind = "FREED"] ELSE heap[a]]
  /\ cursor' = heap[cursor].next
  /\ UNCHANGED <<program, package, stack, sp, frames, objects, status, out>>

DoubleFree == status = "sweep" /\ cursor # 0 /\ heap[cursor].kind = "FREED" /\ End("wild")
SweepEnds  == status = "sweep" /\ cursor = 0 /\ End("done")

Terminated == status \in Ended /\ UNCHANGED vars

Init ==
  /\ program \in DOMAIN Programs
  /\ package = Programs[program]
  /\ stack = [i \in 0..MaxStack - 1 |-> Garbage]
  /\ sp = 0
  /\ heap = package.heap
  /\ objects = 0 /\ cursor = 0 /\ out = <<>>
  /\ IF package.main = 0
     THEN frames = <<>> /\ status = "no_main"
     ELSE /\ frames = <<[chunk |-> heap[package.main].code, ip |-> 0,
                         base |-> 0, closed |-> 0]>>
          /\ status = "running"

Instruction ==
  \/ Constant \/ StringLiteral \/ ArrayLiteral \/ MapLiteral \/ Constructor \/ EmptyContainer
  \/ Closure \/ Unary \/ Binary \/ ShortCircuit \/ GetLocal \/ SetLocal \/ GetGlobal
  \/ GetUpvalue \/ SetUpvalue \/ IndexGet \/ IndexSet \/ StructGet \/ StructSet
  \/ JumpAlways \/ JumpIfZero \/ Pop \/ CallFunction \/ CallNative \/ Return

Failure == StackOverflow \/ OutOfMemory \/ CStackOverflow \/ BadIndex \/ AssertFails \/ GoesWild
Sweep   == FreeObject \/ DoubleFree \/ SweepEnds

Next == Instruction \/ FallOff \/ Failure \/ Sweep \/ Terminated

\* The loop of a single thread: it takes a step whenever it can.
Spec == Init /\ [][Next]_vars /\ WF_vars(Next)

-----------------------------------------------------------------------------
\* Addresses are addresses of the heap, and code is code of the program.
Frame == [chunk : DOMAIN package.chunks, ip : Int, base : 0..MaxStack - 1,
          closed : 0..Len(heap)]

StackOK  == stack \in [0..MaxStack - 1 -> Value] /\ sp \in 0..MaxStack
FramesOK == frames \in Seq(Frame) /\ (status = "running" => frames # <<>>)
LinksOK(o) == /\ IsObject(o) /\ o.next \in 0..Len(heap) /\ o.ups \in 0..Len(heap)
              /\ o.kind \in {"FUNCTION", "CLOSURE"} => o.code \in DOMAIN package.chunks
HeapOK == IsSequence(heap) /\ \A a \in DOMAIN heap : LinksOK(heap[a])
RestOK ==
  /\ IsPackage(package)
  /\ objects \in 0..Len(heap) /\ cursor \in 0..Len(heap)
  /\ status \in {"running", "sweep"} \union Ended
  /\ out \in Seq(Seq(Leaf))

\* Every variable stays in the domain the structs of engine.h, value.h and object.h
\* give it, whatever the program: the stack pointer within the array, a frame on it, a
\* link on the heap.
TypeOK == StackOK /\ FramesOK /\ HeapOK /\ RestOK

\* The sweep of mtr_execute never frees an object twice, and when it is over exactly the
\* objects made during the run are freed, upvalue blocks among them, and the closures
\* that were created: what is left is for mtr_delete_package (mtr_link_obj,
\* mtr_delete_object).
EverythingFreedOnce ==
  /\ status = "sweep" /\ cursor # 0 => heap[cursor].kind # "FREED"
  /\ status = "done" => \A a \in DOMAIN heap :
       heap[a].kind = "FREED" <=> a > Len(package.heap) \/ heap[a].ups # 0
=============================================================================
