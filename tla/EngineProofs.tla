---------------------------- MODULE EngineProofs ----------------------------
(***************************************************************************)
(* That TypeOK is an invariant of the engine, for every program, every     *)
(* size of the stack, of the C stack and of memory, and every word width.  *)
(*                                                                         *)
(* TypeOK is inductive as it stands.  The instructions have five shapes    *)
(* (pop and push, make an object, pop and jump, store into an object, and  *)
(* the rest), and each shape has a lemma; the lemma of an instruction      *)
(* shows that its guard At(...) gives what the lemma of its shape needs.   *)
(***************************************************************************)
EXTENDS Engine, FiniteSetTheorems, SequenceTheorems, WellFoundedInduction, TLAPS

\* What the FPU returns is a word, whatever it is asked.
FloatsAreWords == \A op, l, r : FloatOp(op, l, r) \in Int

-----------------------------------------------------------------------------
(* Facts about the instruction that is about to run.                        *)

\* While the loop runs there is an activation, and its code is code.
LEMMA CurrentFrame ==
  ASSUME TypeOK, status = "running"
  PROVE  /\ Len(frames) \in Nat /\ Len(frames) > 0
         /\ Top \in Frame
         /\ Code \in Seq(Cell)
<1>1. frames \in Seq(Frame) /\ frames # <<>>
  BY DEF TypeOK, FramesOK
<1>2. Len(frames) \in Nat /\ Len(frames) > 0
  BY <1>1
<1>3. Top \in Frame
  BY <1>1, <1>2 DEF Top
<1>4. package.chunks \in Seq(Seq(Cell))
  BY DEF TypeOK, RestOK, IsPackage
<1>5. Code \in Seq(Cell)
  BY <1>3, <1>4 DEF Code, Frame
<1> QED BY <1>2, <1>3, <1>5

\* The instruction at ip and its operands, once they can be read.
LEMMA CurrentInstruction ==
  ASSUME TypeOK, status = "running", Top.ip < Len(Code), CodeReadable
  PROVE  /\ Top.ip \in Nat
         /\ Op \in OpCodes
         /\ OperandBytes(Op) \in Nat
         /\ OperandBytes(Op) > 0 => Operand(1) \in Int
         /\ \A k \in Nat : k >= 1 /\ Top.ip + 1 + k <= Len(Code) => Operand(k) \in Int
<1>0. Top \in Frame /\ Code \in Seq(Cell)
  BY CurrentFrame
<1>1. Top.ip \in Nat /\ Op \in OpCodes
  BY <1>0 DEF CodeReadable, Frame
<1>2. OperandBytes(Op) \in Nat
  BY DEF OperandBytes
<1>3. \A k \in Nat : k >= 1 /\ Top.ip + 1 + k <= Len(Code) => Operand(k) \in Int
  <2>1. \A i \in 1..Len(Code) : Code[i] \in Cell
    BY <1>0
  <2>2. \A i \in 1..Len(Code) : Code[i].arg \in Int
    BY <2>1 DEF Cell
  <2> QED BY <1>0, <1>1, <2>2 DEF Operand
<1>4. OperandBytes(Op) > 0 => Operand(1) \in Int
  BY <1>1, <1>2, <1>3, CurrentFrame DEF CodeReadable
<1> QED BY <1>1, <1>2, <1>3, <1>4

-----------------------------------------------------------------------------
(* The primitives preserve their part of the invariant.                     *)

\* push() keeps the stack pointer within the array.
LEMMA ReplaceStack ==
  ASSUME TypeOK, NEW n \in Nat, n <= sp, NEW v \in Value, Replace(n, v)
  PROVE  StackOK'
  BY EngineAssumption DEF TypeOK, StackOK, Replace

\* Popping keeps the stack pointer within the array.
LEMMA DropStack ==
  ASSUME TypeOK, NEW n \in Nat, n <= sp, Drop(n)
  PROVE  StackOK'
  BY EngineAssumption DEF TypeOK, StackOK, Drop

\* Moving ip leaves the activations activations, on a heap that only grows.
LEMMA JumpFrames ==
  ASSUME TypeOK, status = "running", NEW d \in Int, Jump(d), Width \in Int,
         package' = package, Len(heap') >= Len(heap), Len(heap') \in Nat
  PROVE  FramesOK'
<1>1. Top \in Frame /\ Len(frames) \in Nat /\ Len(frames) > 0
  BY CurrentFrame
<1>2. \A f \in Frame : f \in Frame'
  BY DEF Frame, TypeOK, HeapOK
<1>3. [Top EXCEPT !.ip = Top.ip + Width + d] \in Frame'
  BY <1>1, <1>2 DEF Frame
<1>4. frames' = [frames EXCEPT ![Len(frames)] = [Top EXCEPT !.ip = Top.ip + Width + d]]
  BY DEF Jump, Top
<1> QED BY <1>1, <1>2, <1>3, <1>4 DEF TypeOK, FramesOK

\* A sequence stays one when something is appended to it.
LEMMA AppendSeq ==
  ASSUME NEW s, IsSequence(s), NEW x
  PROVE  /\ IsSequence(Append(s, x))
         /\ Len(s) \in Nat /\ Len(Append(s, x)) = Len(s) + 1
         /\ DOMAIN s = 1..Len(s) /\ DOMAIN Append(s, x) = 1..Len(s) + 1
         /\ Append(s, x)[Len(s) + 1] = x
         /\ \A a \in 1..Len(s) : Append(s, x)[a] = s[a]
<1> DEFINE S == {s[a] : a \in DOMAIN s} \union {x}
           t == Append(s, x)
<1>1. s \in Seq(S) /\ x \in S
  BY DEF IsSequence
<1> HIDE DEF S
<1>2. /\ t \in Seq(S) /\ Len(s) \in Nat /\ Len(t) = Len(s) + 1
      /\ t[Len(s) + 1] = x /\ \A a \in 1..Len(s) : t[a] = s[a]
  BY <1>1
<1>3. DOMAIN s = 1..Len(s) /\ DOMAIN t = 1..Len(s) + 1
  BY <1>1, <1>2
<1> HIDE DEF t
<1>4. t \in Seq({t[a] : a \in DOMAIN t})
  BY <1>2, <1>3
<1> USE DEF t
<1> QED BY <1>2, <1>3, <1>4 DEF IsSequence

\* mtr_link_obj: a new object that points at the old head is a new head.
LEMMA LinkHeap ==
  ASSUME TypeOK, NEW o, IsObject(o), o.next = objects, o.ups = 0,
         o.kind \notin {"FUNCTION", "CLOSURE"},
         heap' = Append(heap, o), objects' = Fresh, package' = package
  PROVE  /\ HeapOK' /\ objects' \in 0..Len(heap')
         /\ Len(heap') \in Nat /\ Len(heap') = Len(heap) + 1
<1>1. IsSequence(heap) /\ objects \in 0..Len(heap) /\ \A a \in DOMAIN heap : LinksOK(heap[a])
  BY DEF TypeOK, HeapOK, RestOK
<1>2. /\ IsSequence(heap') /\ Len(heap) \in Nat /\ Len(heap') = Len(heap) + 1
      /\ DOMAIN heap = 1..Len(heap) /\ DOMAIN heap' = 1..Len(heap) + 1
      /\ heap'[Len(heap) + 1] = o /\ \A a \in 1..Len(heap) : heap'[a] = heap[a]
  BY <1>1, AppendSeq
<1>3. \A a \in DOMAIN heap' : LinksOK(heap[a])'
  BY <1>1, <1>2 DEF LinksOK
<1> QED BY <1>2, <1>3 DEF HeapOK, Fresh

\* What mtr_new_* returns is an object with the link it was given.
LEMMA NewObjects ==
  ASSUME TypeOK, NEW kind \in Kinds, NEW code \in Nat, NEW items \in Seq(Value), NEW next \in 0..Len(heap)
  PROVE  LET o == NewObject(kind, next, code, items)
         IN  IsObject(o) /\ o.next = next /\ o.ups = 0 /\ o.kind = kind
<1>1. IsEntries(NoEntries)
  BY FS_EmptySet DEF IsEntries, NoEntries
<1>2. next \in Nat
  BY DEF TypeOK, HeapOK, IsSequence
<1> QED BY <1>1, <1>2 DEF IsObject, NewObject

\* A sequence stays one when a member is replaced.
LEMMA ExceptOfSeq ==
  ASSUME NEW s, IsSequence(s), NEW a \in DOMAIN s, NEW x
  PROVE  /\ IsSequence([s EXCEPT ![a] = x])
         /\ Len(s) \in Nat /\ Len([s EXCEPT ![a] = x]) = Len(s)
         /\ DOMAIN s = 1..Len(s) /\ DOMAIN [s EXCEPT ![a] = x] = 1..Len(s)
<1> DEFINE S == {s[b] : b \in DOMAIN s} \union {x}
           t == [s EXCEPT ![a] = x]
<1>1. s \in Seq(S) /\ x \in S
  BY DEF IsSequence
<1> HIDE DEF S
<1>2. t \in Seq(S) /\ Len(s) \in Nat /\ Len(t) = Len(s)
  BY <1>1
<1>3. DOMAIN s = 1..Len(s) /\ DOMAIN t = 1..Len(s)
  BY <1>1, <1>2
<1> HIDE DEF t
<1>4. t \in Seq({t[b] : b \in DOMAIN t})
  BY <1>2, <1>3
<1> USE DEF t
<1> QED BY <1>2, <1>3, <1>4 DEF IsSequence

\* One object is replaced by another of the same kind and code.
LEMMA UpdateHeap ==
  ASSUME TypeOK, NEW a \in DOMAIN heap, NEW o, IsObject(o),
         o.next \in 0..Len(heap), o.ups \in 0..Len(heap),
         o.kind = heap[a].kind, o.code = heap[a].code,
         heap' = [heap EXCEPT ![a] = o], package' = package
  PROVE  HeapOK' /\ Len(heap') = Len(heap) /\ Len(heap) \in Nat
<1>1. IsSequence(heap) /\ \A b \in DOMAIN heap : LinksOK(heap[b])
  BY DEF TypeOK, HeapOK
<1>2. /\ IsSequence(heap') /\ Len(heap') = Len(heap) /\ Len(heap) \in Nat
      /\ DOMAIN heap' = DOMAIN heap
  BY <1>1, ExceptOfSeq
<1>3. LinksOK(o)
  BY <1>1 DEF LinksOK
<1>4. \A b \in DOMAIN heap : LinksOK(heap[b]) => LinksOK(heap[b])'
  <2> SUFFICES ASSUME NEW b \in DOMAIN heap, LinksOK(heap[b])
               PROVE  LinksOK(heap[b])'
    OBVIOUS
  <2>1. heap'[b] = o \/ heap'[b] = heap[b]
    OBVIOUS
  <2> QED BY <1>2, <1>3, <2>1 DEF LinksOK
<1> QED BY <1>1, <1>2, <1>4 DEF HeapOK

\* An object whose element is replaced keeps its kind, code and links.
LEMMA ItemsObject ==
  ASSUME NEW o, IsObject(o), NEW i \in DOMAIN o.items, NEW v \in Value
  PROVE  LET p == [o EXCEPT !.items[i] = v]
         IN  /\ IsObject(p) /\ p.next = o.next /\ p.ups = o.ups /\ p.kind = o.kind /\ p.code = o.code
             /\ p.count = o.count
<1>1. [o.items EXCEPT ![i] = v] \in Seq(Value)
  BY DEF IsObject
<1>2. [o EXCEPT !.items[i] = v] = [o EXCEPT !.items = [o.items EXCEPT ![i] = v]]
  OBVIOUS
<1> DEFINE its == [o.items EXCEPT ![i] = v]
<1> HIDE DEF its
<1>3. its \in Seq(Value) => IsObject([o EXCEPT !.items = its])
  BY DEF IsObject
<1>4. LET p == [o EXCEPT !.items = its]
      IN  p.next = o.next /\ p.ups = o.ups /\ p.kind = o.kind /\ p.code = o.code /\ p.count = o.count
  BY DEF IsObject
<1> QED BY <1>1, <1>2, <1>3, <1>4 DEF its

\* A map into which a pair is inserted keeps its kind, code and links.
LEMMA EntriesObject ==
  ASSUME NEW o, IsObject(o), NEW k \in Leaf, NEW v \in Value
  PROVE  LET p == [o EXCEPT !.entries = MapInsert(@, k, v)]
         IN  /\ IsObject(p) /\ p.next = o.next /\ p.ups = o.ups /\ p.kind = o.kind /\ p.code = o.code
             /\ p.count = o.count
<1>1. IsEntries(MapInsert(o.entries, k, v))
  BY FS_AddElement DEF IsObject, IsEntries, MapInsert
<1> QED BY <1>1 DEF IsObject
-----------------------------------------------------------------------------
(* Values.                                                                  *)

\* What lies on the stack below its top is a value.
LEMMA PeekValue ==
  ASSUME TypeOK, NEW d \in Nat, d < sp
  PROVE  Peek(d) \in Value
  BY EngineAssumption DEF TypeOK, StackOK, Peek

\* What is printed of a readable value is a leaf.
LEMMA LeafValue ==
  ASSUME TypeOK, NEW v \in Value, Readable(v)
  PROVE  LeafOf(v) \in Leaf
<1>1. CASE v.type # "OBJ"
  BY <1>1 DEF LeafOf, Leaf, Value, Readable, IsObj
<1>2. CASE v.type = "OBJ"
  <2> DEFINE o == heap[v.bits]
  <2>1. IsObject(o)
    BY <1>2 DEF Readable, IsObj, TypeOK, HeapOK, LinksOK, IsSequence
  <2>2. o.kind \in Kinds /\ o.code \in Int /\ Len(o.items) \in Int
    BY <2>1 DEF IsObject
  <2>3. Cardinality(DOMAIN o.entries) \in Int
    BY <2>1, FS_CardinalityType DEF IsObject, IsEntries
  <2> QED BY <1>2, <2>2, <2>3 DEF LeafOf, Leaf
<1> QED BY <1>1, <1>2

\* A wrapped number is a number.
LEMMA WrapWord == ASSUME NEW n \in Int PROVE Wrap(n) \in Int
  BY EngineAssumption DEF Wrap

\* Integer arithmetic yields a number unless it divides by zero.
LEMMA IntOpWord ==
  ASSUME NEW op \in IntOps, NEW l \in Int, NEW r \in Int, op = "DIV_I" => r # 0
  PROVE  IntOp(op, l, r) \in Int
<1>1. CASE op = "DIV_I"
  <2>1. Magnitude(l) \in Nat /\ Magnitude(r) \in Nat /\ Magnitude(r) > 0
    BY <1>1 DEF Magnitude
  <2>2. Quotient(l, r) \in Int
    BY <2>1 DEF Quotient
  <2> QED BY <1>1, <2>2, WrapWord DEF IntOp
<1>2. CASE op = "MUL_I"
  BY <1>2, WrapWord DEF IntOp
<1>3. CASE op \notin {"DIV_I", "MUL_I"}
  BY <1>3, WrapWord DEF IntOp, IntOps, Bit
<1> QED BY <1>1, <1>2, <1>3

-----------------------------------------------------------------------------
(* The shapes of an instruction: it pops and pushes, it makes an object, it *)
(* pops and jumps, it stores into an object.                                *)

\* What At() says of the instruction: its width, its operand, its cells.
LEMMA Widths ==
  ASSUME TypeOK, InLoop, Readied
  PROVE  /\ status = "running" /\ Width \in Int /\ Needs <= sp
         /\ OperandBytes(Op) > 0 => Operand(1) \in Int
  BY CurrentInstruction DEF InLoop, Readied, Width, StackReadable

\* The operand of an instruction whose operand is not signed.
LEMMA Unsigned ==
  ASSUME TypeOK, InLoop, Readied,
         Op \in {"STRING_LITERAL", "ARRAY_LITERAL", "MAP_LITERAL", "CONSTRUCTOR", "CLOSURE", "GET", "SET",
                 "GLOBAL_GET", "UPVALUE_GET", "UPVALUE_SET", "STRUCT_GET", "STRUCT_SET", "POP_V", "CALL"}
  PROVE  Operand(1) \in Nat
  BY DEF Readied, CodeReadable, OperandBytes

\* The operand of an instruction whose operand is signed.
LEMMA Signed ==
  ASSUME TypeOK, InLoop, Readied, Op \in {"INT", "FLOAT", "OR", "AND", "JMP", "JMP_Z"}
  PROVE  Operand(1) \in Int
  BY Widths DEF OperandBytes

\* How many cells each family of instructions reads.
LEMMA NeedsOf ==
  /\ Op \in UnaryOps \union {"OR", "AND", "SET", "UPVALUE_SET", "STRUCT_GET", "JMP_Z", "POP", "RETURN"}
       => Needs = 1
  /\ Op \in BinaryOps \union {"INDEX_GET", "STRUCT_SET"} => Needs = 2
  /\ Op = "INDEX_SET" => Needs = 3
  /\ Op = "CALL" => Needs = 1 + Operand(1)
  /\ Op = "POP_V" => Needs = Operand(1)
  BY DEF Needs, Pops, UnaryOps, BinaryOps, IntOps, FloatOps

\* The stack pointer and the limit as numbers.
LEMMA StackTypes ==
  ASSUME TypeOK
  PROVE  sp \in Nat /\ sp <= MaxStack /\ MaxStack \in Nat /\ MaxStack > 0
  BY EngineAssumption DEF TypeOK, StackOK

\* An instruction that pops n values, pushes one and makes no object.
LEMMA PushStep ==
  ASSUME TypeOK, InLoop, Readied, NEW n \in Nat, n <= sp, NEW v \in Value,
         Replace(n, v), Advance, NoAlloc
  PROVE  TypeOK'
<1>1. StackOK'
  BY ReplaceStack
<1>2. heap' = heap /\ package' = package /\ Len(heap) \in Nat
  BY DEF NoAlloc, Silent, Running, TypeOK, HeapOK, IsSequence
<1>3. FramesOK'
  BY <1>2, Widths, JumpFrames DEF Advance
<1>4. HeapOK' /\ RestOK'
  BY DEF TypeOK, HeapOK, LinksOK, RestOK, NoAlloc, Silent, Running
<1> QED BY <1>1, <1>3, <1>4 DEF TypeOK

\* An instruction that pops n values, makes an object and pushes it.
LEMMA ObjectStep ==
  ASSUME TypeOK, InLoop, Readied, NEW n \in Nat, n <= sp,
         NEW o, IsObject(o), o.next = objects, o.ups = 0, o.kind \notin {"FUNCTION", "CLOSURE"},
         heap' = Append(heap, o), objects' = Fresh, Replace(n, ObjVal(Fresh)), Advance, Silent
  PROVE  TypeOK'
<1>1. package' = package /\ Len(heap) \in Nat
  BY DEF Silent, Running, TypeOK, HeapOK, IsSequence
<1>2. ObjVal(Fresh) \in Value
  BY <1>1 DEF ObjVal, Value, Fresh
<1>3. StackOK'
  BY <1>2, ReplaceStack
<1>4. /\ HeapOK' /\ objects' \in 0..Len(heap') /\ Len(heap') \in Nat
      /\ Len(heap') = Len(heap) + 1
  BY <1>1, LinkHeap
<1>5. FramesOK'
  BY <1>1, <1>4, Widths, JumpFrames DEF Advance
<1>6. RestOK'
  BY <1>1, <1>4 DEF TypeOK, RestOK, Silent, Running
<1> QED BY <1>3, <1>4, <1>5, <1>6 DEF TypeOK

\* The same with an object that mtr_new_* made.
LEMMA LinkStep ==
  ASSUME TypeOK, InLoop, Readied, NEW n \in Nat, n <= sp,
         NEW kind \in Kinds \ {"FUNCTION", "CLOSURE"}, NEW code \in Nat, NEW items \in Seq(Value),
         Link(kind, code, items), Replace(n, ObjVal(Fresh)), Advance, Silent
  PROVE  TypeOK'
<1>1. objects \in 0..Len(heap)
  BY DEF TypeOK, RestOK
<1> DEFINE o == NewObject(kind, objects, code, items)
<1>2. IsObject(o) /\ o.next = objects /\ o.ups = 0 /\ o.kind \notin {"FUNCTION", "CLOSURE"}
  BY <1>1, NewObjects
<1>3. heap' = Append(heap, o) /\ objects' = Fresh
  BY DEF Link
<1> HIDE DEF o
<1> QED BY <1>2, <1>3, ObjectStep

\* An instruction that pops n values and jumps.
LEMMA MoveStep ==
  ASSUME TypeOK, InLoop, Readied, NEW n \in Nat, n <= sp, NEW d \in Int, Drop(n), Jump(d), NoAlloc
  PROVE  TypeOK'
<1>1. StackOK'
  BY DropStack
<1>2. heap' = heap /\ package' = package /\ Len(heap) \in Nat
  BY DEF NoAlloc, Silent, Running, TypeOK, HeapOK, IsSequence
<1>3. FramesOK'
  BY <1>2, Widths, JumpFrames
<1>4. HeapOK' /\ RestOK'
  BY DEF TypeOK, HeapOK, LinksOK, RestOK, NoAlloc, Silent, Running
<1> QED BY <1>1, <1>3, <1>4 DEF TypeOK

\* An instruction that pops n values and writes into an object.
LEMMA StoreStep ==
  ASSUME TypeOK, InLoop, Readied, NEW n \in Nat, n <= sp, NEW a \in DOMAIN heap, NEW o, IsObject(o),
         o.next = heap[a].next, o.ups = heap[a].ups,
         o.kind = heap[a].kind, o.code = heap[a].code,
         heap' = [heap EXCEPT ![a] = o], Drop(n), Advance, Silent, UNCHANGED objects
  PROVE  TypeOK'
<1>1. package' = package
  BY DEF Silent, Running
<1>2. HeapOK' /\ Len(heap') = Len(heap) /\ Len(heap) \in Nat
  BY <1>1, UpdateHeap DEF TypeOK, HeapOK, LinksOK
<1>3. StackOK'
  BY DropStack
<1>4. FramesOK'
  BY <1>1, <1>2, Widths, JumpFrames DEF Advance
<1>5. RestOK'
  BY <1>1, <1>2 DEF TypeOK, RestOK, Silent, Running
<1> QED BY <1>2, <1>3, <1>4, <1>5 DEF TypeOK

-----------------------------------------------------------------------------
(* One lemma per instruction.                                               *)

\* INT, FLOAT, TRUE, FALSE, NIL push a value.
LEMMA ConstantOK == ASSUME TypeOK, Constant PROVE TypeOK'
<1>1. InLoop /\ Readied /\ Op \in ConstantOps
  BY DEF Constant, At
<1>2. ConstantValue \in Value
  BY <1>1, Signed DEF ConstantValue, IntVal, FloatVal, Nil, Value
<1>3. sp \in Nat
  BY EngineAssumption DEF TypeOK, StackOK
<1> QED BY <1>1, <1>2, <1>3, PushStep DEF Constant

\* STRING_LITERAL makes a string and pushes it.
LEMMA StringLiteralOK == ASSUME TypeOK, StringLiteral PROVE TypeOK'
<1>1. InLoop /\ Readied /\ Operand(1) \in Nat
  BY Unsigned DEF StringLiteral, At
<1> DEFINE none == <<>>
<1>2. sp \in Nat /\ none \in Seq(Value)
  BY EngineAssumption DEF TypeOK, StackOK
<1>3. "STRING" \in Kinds \ {"FUNCTION", "CLOSURE"}
  BY DEF Kinds
<1>4. /\ Link("STRING", Operand(1), none)
      /\ Replace(0, ObjVal(Fresh)) /\ Advance /\ Silent
  BY DEF StringLiteral
<1> HIDE DEF none
<1> QED BY <1>1, <1>2, <1>3, <1>4, LinkStep

\* ARRAY_LITERAL makes an array of the values it pops.
LEMMA ArrayLiteralOK == ASSUME TypeOK, ArrayLiteral PROVE TypeOK'
<1>1. InLoop /\ Readied /\ Operand(1) \in Nat /\ Operand(1) <= sp
  BY Unsigned, Widths DEF ArrayLiteral, At, Needs, Pops, UnaryOps, BinaryOps, IntOps, FloatOps
<1>2. \A i \in 1..Operand(1) : Peek(i - 1) \in Value
  BY <1>1, PeekValue DEF TypeOK, StackOK
<1>3. [i \in 1..Operand(1) |-> Peek(i - 1)] \in Seq(Value)
  BY <1>1, <1>2
<1>4. "ARRAY" \in Kinds \ {"FUNCTION", "CLOSURE"}
  BY DEF Kinds
<1> QED BY <1>1, <1>3, <1>4, LinkStep DEF ArrayLiteral

\* CONSTRUCTOR makes a struct of the values it pops.
LEMMA ConstructorOK == ASSUME TypeOK, Constructor PROVE TypeOK'
<1>1. InLoop /\ Readied /\ Operand(1) \in Nat /\ Operand(1) <= sp
  BY Unsigned, Widths DEF Constructor, At, Needs, Pops, UnaryOps, BinaryOps, IntOps, FloatOps
<1>2. \A i \in 1..Operand(1) : Peek(Operand(1) - i) \in Value
  BY <1>1, PeekValue DEF TypeOK, StackOK
<1>3. [i \in 1..Operand(1) |-> Peek(Operand(1) - i)] \in Seq(Value)
  BY <1>1, <1>2
<1>4. "STRUCT" \in Kinds \ {"FUNCTION", "CLOSURE"}
  BY DEF Kinds
<1> QED BY <1>1, <1>3, <1>4, LinkStep DEF Constructor

\* EMPTY_ARRAY and EMPTY_MAP make a container without elements.
LEMMA EmptyContainerOK == ASSUME TypeOK, EmptyContainer PROVE TypeOK'
<1>1. InLoop /\ Readied
  BY DEF EmptyContainer, At
<1> DEFINE none == <<>>
<1>2. sp \in Nat /\ none \in Seq(Value)
  BY EngineAssumption DEF TypeOK, StackOK
<1>3. (IF Op = "EMPTY_ARRAY" THEN "ARRAY" ELSE "MAP") \in Kinds \ {"FUNCTION", "CLOSURE"}
  BY DEF Kinds
<1>4. /\ Link(IF Op = "EMPTY_ARRAY" THEN "ARRAY" ELSE "MAP", 0, none)
      /\ Replace(0, ObjVal(Fresh)) /\ Advance /\ Silent
  BY DEF EmptyContainer
<1> HIDE DEF none
<1> QED BY <1>1, <1>2, <1>3, <1>4, LinkStep

\* Of several pairs with one key there is a last.
LEMMA LastPairIs ==
  ASSUME Operand(1) \in Nat, NEW k, NEW i \in 1..Operand(1), LeafOf(LiteralKey(i)) = k
  PROVE  LastPair(k) \in 1..Operand(1)
<1> DEFINE n == Operand(1)
           Has(j) == LeafOf(LiteralKey(j)) = k
           S == {n - j : j \in {h \in 1..n : Has(h)}}
<1> HIDE DEF n, Has
<1>1. n \in Nat /\ i \in 1..n /\ Has(i)
  BY DEF n, Has
<1>2. S \subseteq Nat /\ S # {}
  BY <1>1
<1>3. PICK m \in S : \A x \in S : m <= x
  <2> DEFINE R == OpToRel(<, Nat)
  <2>1. IsWellFoundedOn(R, Nat)
    BY NatLessThanWellFounded
  <2>2. \A x, y \in Nat : x < y => <<x, y>> \in R
    BY DEF OpToRel
  <2> HIDE DEF R, S
  <2>3. PICK m \in S : \A x \in S : ~(<<x, m>> \in R)
    BY <1>2, <2>1, WFMin
  <2>4. S \subseteq Nat
    BY <1>2
  <2>5. \A x \in S : ~(x < m) /\ x \in Nat /\ m \in Nat
    BY <2>2, <2>3, <2>4
  <2>6. \A x \in S : m <= x
    BY <2>5
  <2> QED BY <2>3, <2>6
<1>4. PICK h \in 1..n : Has(h) /\ \A j \in 1..n : Has(j) => j <= h
  <2>1. PICK h \in 1..n : Has(h) /\ m = n - h
    BY <1>3
  <2>2. ASSUME NEW j \in 1..n, Has(j) PROVE j <= h
    <3>1. n - j \in S
      BY <2>2
    <3>2. m <= n - j
      BY <1>3, <3>1
    <3> QED BY <1>1, <2>1, <3>2
  <2> QED BY <2>1, <2>2
<1> USE DEF n, Has
<1> QED BY <1>4 DEF LastPair

\* MAP_LITERAL makes a map of the pairs it pops.
LEMMA MapLiteralOK == ASSUME TypeOK, MapLiteral PROVE TypeOK'
<1> DEFINE n == Operand(1)
           keys == {LeafOf(LiteralKey(i)) : i \in 1..n}
           entries == [k \in keys |-> LiteralValue(LastPair(k))]
           new == NewObject("MAP", objects, 0, <<>>)
           o == [new EXCEPT !.entries = entries]
<1>1. InLoop /\ Readied /\ Op = "MAP_LITERAL" /\ n \in Nat /\ 2 * n <= sp /\ 2 * n \in Nat
  BY Unsigned, Widths DEF MapLiteral, At, Needs, Pops, UnaryOps, BinaryOps, IntOps, FloatOps
<1>2. \A i \in 1..n : LiteralKey(i) \in Value /\ LiteralValue(i) \in Value
  BY <1>1, PeekValue DEF TypeOK, StackOK, LiteralKey, LiteralValue
<1>3. \A i \in 1..n : LeafOf(LiteralKey(i)) \in Leaf
  BY <1>1, <1>2, LeafValue DEF Readied, OperandsReadable, UnaryOps, IntOps, FloatOps
<1>4. \A k \in keys : LiteralValue(LastPair(k)) \in Value
  BY <1>1, <1>2, LastPairIs
<1>5. IsFiniteSet(keys)
  <2>1. IsFiniteSet(1..n)
    BY <1>1, FS_Interval
  <2> DEFINE f == [i \in 1..n |-> LeafOf(LiteralKey(i))]
  <2>2. keys = {f[i] : i \in 1..n}
    OBVIOUS
  <2>3. f \in Surjection(1..n, keys)
    BY <2>2 DEF Surjection
  <2> QED BY <2>1, <2>3, FS_Surjection
<1>6. IsEntries(entries)
  BY <1>3, <1>4, <1>5 DEF IsEntries
<1>7. IsObject(new) /\ new.next = objects /\ new.ups = 0 /\ new.kind = "MAP"
  <2> DEFINE none == <<>>
  <2>1. none \in Seq(Value) /\ "MAP" \in Kinds /\ objects \in 0..Len(heap)
    BY DEF Kinds, TypeOK, RestOK
  <2>2. new = NewObject("MAP", objects, 0, none)
    OBVIOUS
  <2> HIDE DEF new, none
  <2> QED BY <2>1, <2>2, NewObjects
<1>8. IsObject(o) /\ o.next = objects /\ o.ups = 0 /\ o.kind = "MAP"
  <2> HIDE DEF new, entries
  <2> QED BY <1>6, <1>7 DEF IsObject
<1>9. /\ heap' = Append(heap, o) /\ objects' = Fresh
      /\ Replace(2 * n, ObjVal(Fresh)) /\ Advance /\ Silent
  BY DEF MapLiteral
<1> HIDE DEF o, n
<1> QED BY <1>1, <1>8, <1>9, ObjectStep

\* A unary operator replaces the top by a value.
LEMMA UnaryOK == ASSUME FloatsAreWords, TypeOK, Unary PROVE TypeOK'
<1>1. InLoop /\ Readied /\ Op \in UnaryOps /\ 1 <= sp /\ sp \in Nat
  BY Widths, NeedsOf, StackTypes DEF Unary, At
<1>2. Peek(0) \in Value
  BY <1>1, PeekValue
<1>3. UnaryResult(Op, Peek(0)) \in Value
  <2>1. Negation(Peek(0)) \in Value
    BY <1>2 DEF Negation, Value
  <2>2. Wrap(-(Peek(0).bits)) \in Int
    BY <1>2, WrapWord DEF Value
  <2> QED BY <1>1, <2>1, <2>2 DEF FloatsAreWords, UnaryResult, UnaryOps, Value, IntVal, FloatVal
<1> QED BY <1>1, <1>3, PushStep DEF Unary

\* A binary operator replaces its operands by a value.
LEMMA BinaryOK == ASSUME FloatsAreWords, TypeOK, Binary PROVE TypeOK'
<1>1. InLoop /\ Readied /\ Op \in BinaryOps /\ 2 <= sp /\ sp \in Nat
  BY Widths, NeedsOf, StackTypes DEF Binary, At
<1>2. Peek(0) \in Value /\ Peek(1) \in Value
  BY <1>1, PeekValue
<1>3. ASSUME Op \in IntOps PROVE IntOp(Op, Peek(1).bits, Peek(0).bits) \in Int
  <2>1. Op = "DIV_I" => Peek(0).bits # 0
    <3> SUFFICES ASSUME Op = "DIV_I" PROVE Peek(0).bits # 0
      OBVIOUS
    <3>1. OperandsReadable
      BY <1>1 DEF Readied
    <3> QED BY <3>1 DEF OperandsReadable, IntOps, FloatOps
  <2> QED BY <1>2, <1>3, <2>1, IntOpWord DEF Value
<1>4. BinaryResult(Op, Peek(1), Peek(0)) \in Value
  BY <1>3 DEF FloatsAreWords, BinaryResult, Value, IntVal, FloatVal
<1> QED BY <1>1, <1>4, PushStep DEF Binary

\* || and && jump, or pop and go on.
LEMMA ShortCircuitOK == ASSUME TypeOK, ShortCircuit PROVE TypeOK'
<1>1. InLoop /\ Readied /\ Operand(1) \in Int /\ 1 <= sp /\ sp \in Nat /\ NoAlloc
  BY Signed, Widths, NeedsOf, StackTypes DEF ShortCircuit, At
<1>2. CASE Jump(Operand(1)) /\ UNCHANGED <<stack, sp>>
  <2>1. Drop(0)
    BY <1>1, <1>2 DEF Drop
  <2> QED BY <1>1, <1>2, <2>1, MoveStep
<1>3. CASE Advance /\ Drop(1)
  BY <1>1, <1>3, MoveStep DEF Advance
<1> QED BY <1>2, <1>3 DEF ShortCircuit

\* The slot a GET or SET names is a cell of the array.
LEMMA SlotIndex ==
  ASSUME TypeOK, InLoop, Readied, Op \in {"GET", "SET"}
  PROVE  Slot(Operand(1)) \in 0..MaxStack - 1
<1>1. Operand(1) \in Nat /\ Top \in Frame
  BY Unsigned, CurrentFrame DEF InLoop
<1>2. Slot(Operand(1)) < MaxStack
  BY DEF Readied, OperandsReadable, UnaryOps, IntOps, FloatOps
<1> QED BY <1>1, <1>2, EngineAssumption DEF Slot, Frame

\* The captured value an instruction names is a value in a block on the heap.
LEMMA UpvalueIs ==
  ASSUME TypeOK, status = "running", NEW i \in Nat, HasUpvalue(i)
  PROVE  /\ Top.closed \in DOMAIN heap /\ IsObject(heap[Top.closed])
         /\ i + 1 \in DOMAIN heap[Top.closed].items /\ Upvalue(i) \in Value
<1>1. Top.closed \in 1..Len(heap)
  BY CurrentFrame DEF HasUpvalue, Frame
<1>2. Top.closed \in DOMAIN heap /\ IsObject(heap[Top.closed])
  BY <1>1 DEF TypeOK, HeapOK, LinksOK, IsSequence
<1>3. heap[Top.closed].items \in Seq(Value)
  BY <1>2 DEF IsObject
<1> QED BY <1>2, <1>3 DEF HasUpvalue, Upvalue

\* GET pushes a cell of the frame.
LEMMA GetLocalOK == ASSUME TypeOK, GetLocal PROVE TypeOK'
<1>1. InLoop /\ Readied /\ Slot(Operand(1)) \in 0..MaxStack - 1 /\ sp \in Nat
  BY SlotIndex, StackTypes DEF GetLocal, At
<1>2. stack[Slot(Operand(1))] \in Value
  BY <1>1 DEF TypeOK, StackOK
<1> QED BY <1>1, <1>2, PushStep DEF GetLocal

\* SET writes a cell of the frame, which lies in the array.
LEMMA SetLocalOK == ASSUME TypeOK, SetLocal PROVE TypeOK'
<1>1. /\ InLoop /\ Readied /\ 1 <= sp /\ sp \in Nat
      /\ Slot(Operand(1)) \in 0..MaxStack - 1
  BY SlotIndex, Widths, NeedsOf, StackTypes DEF SetLocal, At
<1>2. Peek(0) \in Value
  BY <1>1, PeekValue
<1>3. StackOK'
  BY <1>1, <1>2, EngineAssumption DEF SetLocal, TypeOK, StackOK
<1>4. heap' = heap /\ package' = package /\ Len(heap) \in Nat
  BY DEF SetLocal, NoAlloc, Silent, Running, TypeOK, HeapOK, IsSequence
<1>5. FramesOK'
  BY <1>1, <1>4, Widths, JumpFrames DEF SetLocal, Advance
<1>6. HeapOK' /\ RestOK'
  BY DEF SetLocal, TypeOK, HeapOK, LinksOK, RestOK, NoAlloc, Silent, Running
<1> QED BY <1>3, <1>5, <1>6 DEF TypeOK

\* GLOBAL_GET pushes the address of a global function.
LEMMA GetGlobalOK == ASSUME TypeOK, GetGlobal PROVE TypeOK'
<1>1. InLoop /\ Readied /\ Op = "GLOBAL_GET" /\ Operand(1) \in Nat /\ sp \in Nat
  BY Unsigned, StackTypes DEF GetGlobal, At
<1>2. Operand(1) < Len(package.globals)
  BY <1>1 DEF Readied, OperandsReadable, UnaryOps, IntOps, FloatOps
<1>3. package.globals \in Seq(Int)
  BY DEF TypeOK, RestOK, IsPackage
<1>4. ObjVal(package.globals[Operand(1) + 1]) \in Value
  BY <1>1, <1>2, <1>3 DEF ObjVal, Value
<1> QED BY <1>1, <1>4, PushStep DEF GetGlobal

\* UPVALUE_GET pushes a captured value.
LEMMA GetUpvalueOK == ASSUME TypeOK, GetUpvalue PROVE TypeOK'
<1>1. /\ InLoop /\ Readied /\ Op = "UPVALUE_GET" /\ Operand(1) \in Nat /\ sp \in Nat
      /\ status = "running"
  BY Unsigned, StackTypes DEF GetUpvalue, At, InLoop
<1>2. HasUpvalue(Operand(1))
  BY <1>1 DEF Readied, OperandsReadable, UnaryOps, IntOps, FloatOps
<1>3. Upvalue(Operand(1)) \in Value
  BY <1>1, <1>2, UpvalueIs
<1> QED BY <1>1, <1>3, PushStep DEF GetUpvalue

\* UPVALUE_SET writes into the upvalue block of the running closure.
LEMMA SetUpvalueOK == ASSUME TypeOK, SetUpvalue PROVE TypeOK'
<1>1. /\ InLoop /\ Readied /\ Op = "UPVALUE_SET" /\ Operand(1) \in Nat /\ 1 <= sp
      /\ sp \in Nat /\ status = "running"
  BY Unsigned, Widths, NeedsOf, StackTypes DEF SetUpvalue, At, InLoop
<1>2. HasUpvalue(Operand(1))
  BY <1>1 DEF Readied, OperandsReadable, UnaryOps, IntOps, FloatOps
<1> DEFINE a == Top.closed
           o == [heap[a] EXCEPT !.items[Operand(1) + 1] = Peek(0)]
<1>3. a \in DOMAIN heap /\ IsObject(heap[a]) /\ Operand(1) + 1 \in DOMAIN heap[a].items
  BY <1>1, <1>2, UpvalueIs
<1>4. Peek(0) \in Value
  BY <1>1, PeekValue
<1>5. /\ IsObject(o) /\ o.next = heap[a].next /\ o.ups = heap[a].ups /\ o.kind = heap[a].kind
      /\ o.code = heap[a].code
  BY <1>3, <1>4, ItemsObject
<1>6. /\ heap' = [heap EXCEPT ![a] = o]
      /\ Drop(1) /\ Advance /\ Silent /\ UNCHANGED objects
  BY DEF SetUpvalue
<1> HIDE DEF a, o
<1> QED BY <1>1, <1>3, <1>5, <1>6, StoreStep

\* What the object of a subscript is when its handler reads it.
LEMMA Pointer ==
  ASSUME TypeOK, NEW v \in Value, IsObj(v)
  PROVE  v.bits \in DOMAIN heap /\ IsObject(heap[v.bits]) /\ LinksOK(heap[v.bits])
  BY DEF IsObj, TypeOK, HeapOK, LinksOK, IsSequence

\* What a subscript finds on the stack.
LEMMA IndexReads ==
  ASSUME TypeOK, InLoop, Readied, Op \in {"INDEX_GET", "INDEX_SET"}
  PROVE  /\ sp \in Nat /\ 2 <= sp /\ Peek(0) \in Value /\ Peek(1) \in Value
         /\ IsObj(Peek(1))
         /\ KindOf(Peek(1)) = "MAP" => Readable(Peek(0))
<1>1. sp \in Nat /\ 2 <= sp
  BY Widths, NeedsOf, StackTypes
<1>2. IsObj(Peek(1)) /\ (KindOf(Peek(1)) = "MAP" => Readable(Peek(0)))
  BY DEF Readied, OperandsReadable, UnaryOps, IntOps, FloatOps
<1> QED BY <1>1, <1>2, PeekValue

\* INDEX_GET replaces container and index by an element, or by Nil.
LEMMA IndexGetOK == ASSUME TypeOK, IndexGet PROVE TypeOK'
<1>1. InLoop /\ Readied /\ Op = "INDEX_GET" /\ Advance /\ NoAlloc
  BY DEF IndexGet, At
<1>2. /\ sp \in Nat /\ 2 <= sp /\ Peek(0) \in Value /\ IsObject(heap[Peek(1).bits])
      /\ KindOf(Peek(1)) = "MAP" => Readable(Peek(0))
  BY <1>1, IndexReads, Pointer
<1>3. CASE InArray /\ Replace(2, heap[Peek(1).bits].items[Peek(0).bits + 1])
  <2>1. heap[Peek(1).bits].items[Peek(0).bits + 1] \in Value
    BY <1>2, <1>3 DEF InArray, IsObject
  <2> QED BY <1>1, <1>2, <1>3, <2>1, PushStep
<1>4. CASE InMap /\ Replace(2, MapGet(heap[Peek(1).bits].entries, LeafOf(Peek(0))))
  <2>1. MapGet(heap[Peek(1).bits].entries, LeafOf(Peek(0))) \in Value
    BY <1>2 DEF MapGet, IsObject, IsEntries, Nil, IntVal, Value
  <2> QED BY <1>1, <1>2, <1>4, <2>1, PushStep
<1> QED BY <1>3, <1>4 DEF IndexGet

\* INDEX_SET writes an element of an array or a pair of a map.
LEMMA IndexSetOK == ASSUME TypeOK, IndexSet PROVE TypeOK'
<1>1. /\ InLoop /\ Readied /\ Op = "INDEX_SET"
      /\ Drop(3) /\ Advance /\ Silent /\ UNCHANGED objects
  BY DEF IndexSet, At
<1> DEFINE a == Peek(1).bits
<1>2. /\ sp \in Nat /\ 3 <= sp /\ Peek(0) \in Value /\ Peek(2) \in Value
      /\ a \in DOMAIN heap /\ IsObject(heap[a])
      /\ KindOf(Peek(1)) = "MAP" => Readable(Peek(0))
  <2>1. sp \in Nat /\ 3 <= sp
    BY <1>1, Widths, NeedsOf, StackTypes
  <2> QED BY <1>1, <2>1, IndexReads, Pointer, PeekValue
<1>3. CASE InArray /\ heap' = [heap EXCEPT ![Peek(1).bits].items[Peek(0).bits + 1] = Peek(2)]
  <2> DEFINE o == [heap[a] EXCEPT !.items[Peek(0).bits + 1] = Peek(2)]
  <2>1. Peek(0).bits + 1 \in DOMAIN heap[a].items
    BY <1>2, <1>3 DEF InArray, IsObject
  <2>2. /\ IsObject(o) /\ o.next = heap[a].next /\ o.ups = heap[a].ups
        /\ o.kind = heap[a].kind /\ o.code = heap[a].code
    BY <1>2, <2>1, ItemsObject
  <2>3. heap' = [heap EXCEPT ![a] = o]
    BY <1>3
  <2> HIDE DEF a, o
  <2> QED BY <1>1, <1>2, <2>2, <2>3, StoreStep
<1>4. CASE InMap /\ heap' = [heap EXCEPT ![Peek(1).bits].entries =
                               MapInsert(@, LeafOf(Peek(0)), Peek(2))]
  <2> DEFINE o == [heap[a] EXCEPT !.entries = MapInsert(@, LeafOf(Peek(0)), Peek(2))]
  <2>1. LeafOf(Peek(0)) \in Leaf
    BY <1>2, <1>4, LeafValue DEF InMap
  <2>2. /\ IsObject(o) /\ o.next = heap[a].next /\ o.ups = heap[a].ups
        /\ o.kind = heap[a].kind /\ o.code = heap[a].code
    BY <1>2, <2>1, EntriesObject
  <2>3. heap' = [heap EXCEPT ![a] = o]
    BY <1>4
  <2> HIDE DEF a, o
  <2> QED BY <1>1, <1>2, <2>2, <2>3, StoreStep
<1> QED BY <1>3, <1>4 DEF IndexSet

\* The member an access names exists in the struct.
LEMMA MemberIs ==
  ASSUME TypeOK, InLoop, Readied, Op \in {"STRUCT_GET", "STRUCT_SET"}
  PROVE  /\ sp \in Nat /\ 1 <= sp /\ Peek(0).bits \in DOMAIN heap /\ IsObject(heap[Peek(0).bits])
         /\ Member \in DOMAIN heap[Peek(0).bits].items
<1>1. sp \in Nat /\ 1 <= sp /\ Operand(1) \in Nat
  BY Widths, NeedsOf, StackTypes, Unsigned
<1>2. IsObj(Peek(0)) /\ U8(Operand(1)) < Len(heap[Peek(0).bits].items)
  BY DEF Readied, OperandsReadable, UnaryOps, IntOps, FloatOps
<1>3. Peek(0).bits \in DOMAIN heap /\ IsObject(heap[Peek(0).bits])
  BY <1>1, <1>2, PeekValue, Pointer
<1>4. U8(Operand(1)) \in Nat
  BY <1>1 DEF U8
<1> QED BY <1>1, <1>2, <1>3, <1>4 DEF Member, IsObject

\* STRUCT_GET replaces a struct by a member.
LEMMA StructGetOK == ASSUME TypeOK, StructGet PROVE TypeOK'
<1>1. InLoop /\ Readied /\ Op = "STRUCT_GET"
  BY DEF StructGet, At
<1>2. heap[Peek(0).bits].items[Member] \in Value
  BY <1>1, MemberIs DEF IsObject
<1> QED BY <1>1, <1>2, MemberIs, PushStep DEF StructGet

\* STRUCT_SET writes a member of a struct.
LEMMA StructSetOK == ASSUME TypeOK, StructSet PROVE TypeOK'
<1>1. InLoop /\ Readied /\ Op = "STRUCT_SET" /\ sp \in Nat /\ 2 <= sp
  BY Widths, NeedsOf, StackTypes DEF StructSet, At
<1> DEFINE a == Peek(0).bits
           o == [heap[a] EXCEPT !.items[Member] = Peek(1)]
<1>2. a \in DOMAIN heap /\ IsObject(heap[a]) /\ Member \in DOMAIN heap[a].items
  BY <1>1, MemberIs
<1>3. Peek(1) \in Value
  BY <1>1, PeekValue
<1>4. /\ IsObject(o) /\ o.next = heap[a].next /\ o.ups = heap[a].ups
      /\ o.kind = heap[a].kind /\ o.code = heap[a].code
  BY <1>2, <1>3, ItemsObject
<1>5. /\ heap' = [heap EXCEPT ![a] = o]
      /\ Drop(2) /\ Advance /\ Silent /\ UNCHANGED objects
  BY DEF StructSet
<1> HIDE DEF a, o
<1> QED BY <1>1, <1>2, <1>4, <1>5, StoreStep

\* JMP moves ip.
LEMMA JumpAlwaysOK == ASSUME TypeOK, JumpAlways PROVE TypeOK'
<1>1. InLoop /\ Readied /\ Operand(1) \in Int /\ sp \in Nat
  BY Signed, StackTypes DEF JumpAlways, At
<1>2. Drop(0)
  BY <1>1 DEF JumpAlways, Drop
<1> QED BY <1>1, <1>2, MoveStep DEF JumpAlways

\* JMP_Z pops the condition and moves ip.
LEMMA JumpIfZeroOK == ASSUME TypeOK, JumpIfZero PROVE TypeOK'
<1>1. InLoop /\ Readied /\ Operand(1) \in Int /\ sp \in Nat /\ 1 <= sp
  BY Signed, Widths, NeedsOf, StackTypes DEF JumpIfZero, At
<1>2. (IF Peek(0).bits = 0 THEN Operand(1) ELSE 0) \in Int
  BY <1>1
<1> QED BY <1>1, <1>2, MoveStep DEF JumpIfZero

\* POP and POP_V pop.
LEMMA PopOK == ASSUME TypeOK, Pop PROVE TypeOK'
<1>1. InLoop /\ Readied /\ Needs \in Nat /\ Needs <= sp /\ sp \in Nat
  BY Unsigned, Widths, NeedsOf, StackTypes DEF Pop, At
<1> QED BY <1>1, MoveStep DEF Pop, Advance

\* What CALL finds on the stack: the arguments under the callee.
LEMMA CallReads ==
  ASSUME TypeOK, At({"CALL"})
  PROVE  /\ InLoop /\ Readied /\ status = "running" /\ sp \in Nat /\ Argc \in Nat /\ 1 + Argc <= sp
         /\ LinksOK(Callee) /\ IsObject(Callee)
<1>1. InLoop /\ Readied /\ status = "running" /\ sp \in Nat /\ Argc \in Nat /\ 1 + Argc <= sp
  BY Unsigned, Widths, NeedsOf, StackTypes DEF At, InLoop, Argc
<1>2. IsObj(Peek(0))
  BY DEF At, Readied, OperandsReadable, UnaryOps, IntOps, FloatOps
<1> QED BY <1>1, <1>2, PeekValue, Pointer DEF Callee

\* A call adds an activation whose base lies in the array.
LEMMA CallFunctionOK == ASSUME TypeOK, CallFunction PROVE TypeOK'
<1>1. At({"CALL"}) /\ Callee.kind \in {"FUNCTION", "CLOSURE"} /\ Drop(1) /\ NoAlloc
  BY DEF CallFunction
<1>2. StackOK'
  BY <1>1, CallReads, DropStack
<1>3. HeapOK' /\ RestOK'
  BY <1>1 DEF TypeOK, HeapOK, LinksOK, RestOK, NoAlloc, Silent, Running
<1>4. Activation(Callee) \in Frame
  BY <1>1, CallReads, StackTypes DEF Activation, Frame, LinksOK
<1>5. [Top EXCEPT !.ip = Top.ip + Width] \in Frame
  <2>1. Top \in Frame /\ Width \in Int
    BY <1>1, CallReads, CurrentFrame, Widths
  <2> QED BY <2>1 DEF Frame
<1>6. Frame' = Frame /\ status' = status
  BY <1>1 DEF Frame, NoAlloc, Silent, Running
<1>7. frames' = Append([frames EXCEPT ![Len(frames)] = [Top EXCEPT !.ip = Top.ip + Width]],
                       Activation(Callee))
  BY DEF CallFunction, Top
<1>8. frames \in Seq(Frame) /\ Len(frames) > 0 /\ Len(frames) \in Nat
  BY <1>1, CallReads, CurrentFrame DEF TypeOK, FramesOK
<1>9. FramesOK'
  BY <1>4, <1>5, <1>6, <1>7, <1>8 DEF FramesOK
<1> QED BY <1>2, <1>3, <1>9 DEF TypeOK

\* A call of print replaces callee and argument by Nil.
LEMMA CallNativeOK == ASSUME TypeOK, CallNative PROVE TypeOK'
<1> DEFINE arg == stack[sp - 1 - Argc]
<1>1. At({"CALL"}) /\ KindOf(Peek(0)) = "NATIVE_FN"
  BY DEF CallNative, Callee, KindOf
<1>2. InLoop /\ Readied /\ sp \in Nat /\ Argc \in Nat /\ 1 + Argc <= sp
  BY <1>1, CallReads
<1>3. arg \in Value
  BY <1>2, StackTypes DEF TypeOK, StackOK
<1>4. Printable(arg)
  BY <1>1 DEF At, Readied, OperandsReadable, UnaryOps, IntOps, FloatOps, Argc
<1>5. PrintValue(arg) \in Seq(Leaf)
  <2> HIDE DEF arg
  <2>1. LeafOf(arg) \in Leaf
    BY <1>3, <1>4, LeafValue DEF Printable
  <2>2. ASSUME arg.type = "OBJ", KindOf(arg) = "ARRAY"
        PROVE  [i \in DOMAIN heap[arg.bits].items |-> LeafOf(heap[arg.bits].items[i])] \in Seq(Leaf)
    <3>1. heap[arg.bits].items \in Seq(Value)
      BY <1>3, <1>4, <2>2, Pointer DEF Printable, Readable, IsObject, Value
    <3>2. \A i \in DOMAIN heap[arg.bits].items : LeafOf(heap[arg.bits].items[i]) \in Leaf
      BY <1>4, <2>2, <3>1, LeafValue DEF Printable
    <3> QED BY <3>1, <3>2
  <2> QED BY <2>1, <2>2 DEF PrintValue
<1>6. StackOK'
  BY <1>2, ReplaceStack DEF CallNative, Nil, IntVal, Value
<1>7. heap' = heap /\ package' = package /\ Len(heap) \in Nat
  BY DEF CallNative, Running, TypeOK, HeapOK, IsSequence
<1>8. FramesOK'
  BY <1>2, <1>7, Widths, JumpFrames DEF CallNative, Advance
<1>9. out' = Append(out, PrintValue(arg)) /\ status' = status /\ objects' = objects /\ cursor' = cursor
  BY DEF CallNative, Running
<1>10. HeapOK'
  BY <1>7 DEF TypeOK, HeapOK, LinksOK
<1>11. RestOK'
  BY <1>5, <1>7, <1>9 DEF TypeOK, RestOK
<1> QED BY <1>6, <1>8, <1>10, <1>11 DEF TypeOK

\* The activations left when the last one returns are activations.
LEMMA ShortenedSeq ==
  ASSUME NEW S, NEW s \in Seq(S), Len(s) > 0
  PROVE  SubSeq(s, 1, Len(s) - 1) \in Seq(S) /\ Len(SubSeq(s, 1, Len(s) - 1)) = Len(s) - 1
<1> DEFINE n == Len(s) - 1
           t == SubSeq(s, 1, n)
<1>1. n \in Nat /\ 1 \in Int /\ \A i \in 1..n : s[i] \in S
  OBVIOUS
<1> HIDE DEF n
<1>2. n \in Int
  BY <1>1
<1>3. t \in Seq(S) /\ Len(t) = IF 1 <= n THEN n - 1 + 1 ELSE 0
  BY ONLY <1>1, <1>2, SubSeqProperties
<1>4. Len(t) = n
  BY <1>1, <1>3
<1> QED BY <1>3, <1>4 DEF n

\* When an activation is left, the others stay as they are.
LEMMA LeaveFrames ==
  ASSUME TypeOK, status = "running", Leave
  PROVE  FramesOK' /\ HeapOK' /\ RestOK'
<1>1. frames \in Seq(Frame) /\ Len(frames) > 0 /\ Len(frames) \in Nat
  BY CurrentFrame DEF TypeOK, FramesOK
<1>2. Frame' = Frame
  BY DEF Leave, Frame
<1>3. frames' \in Seq(Frame) /\ (Len(frames) # 1 => frames' # <<>>)
  <2>1. frames' = SubSeq(frames, 1, Len(frames) - 1)
    BY DEF Leave
  <2>2. frames' \in Seq(Frame) /\ Len(frames') = Len(frames) - 1
    <3> HIDE DEF Frame
    <3> QED BY ONLY <1>1, <2>1, ShortenedSeq
  <2> QED BY <1>1, <2>2
<1>4. FramesOK'
  BY <1>2, <1>3 DEF FramesOK, Leave
<1>5. HeapOK' /\ RestOK'
  BY DEF TypeOK, HeapOK, LinksOK, RestOK, Leave
<1> QED BY <1>4, <1>5

\* RETURN writes the result to the base of its frame.
LEMMA ReturnOK == ASSUME TypeOK, Return PROVE TypeOK'
<1>1. InLoop /\ Readied /\ status = "running" /\ 1 <= sp /\ sp \in Nat
  BY Widths, NeedsOf, StackTypes DEF Return, At, InLoop
<1>2. Peek(0) \in Value /\ Top.base \in 0..MaxStack - 1
  BY <1>1, PeekValue, CurrentFrame DEF Frame
<1>3. StackOK'
  BY <1>2, StackTypes DEF Return, TypeOK, StackOK
<1> QED BY <1>1, <1>3, LeaveFrames DEF Return, TypeOK

\* Leaving a chunk at its end leaves the stack as it is.
LEMMA FallOffOK == ASSUME TypeOK, FallOff PROVE TypeOK'
<1>1. StackOK'
  BY DEF FallOff, TypeOK, StackOK
<1> QED BY <1>1, LeaveFrames DEF FallOff, TypeOK

\* CLOSURE links the closure made at compile time again, with a new upvalue block.
LEMMA ClosureOK == ASSUME TypeOK, Closure PROVE TypeOK'
<1> DEFINE c == Operand(1)
           n == heap[c].count
           items == [i \in 1..n |-> Captured(i - 1)]
           block == NewObject("UPVALUES", 0, 0, items)
           again == [heap[c] EXCEPT !.next = objects, !.ups = Fresh]
           mid == [heap EXCEPT ![c] = again]
<1>1. InLoop /\ Readied /\ Op = "CLOSURE" /\ status = "running" /\ sp \in Nat /\ c \in Nat
  BY Unsigned, StackTypes DEF Closure, At, InLoop
<1>2. ClosureReadable
  BY <1>1 DEF Readied, OperandsReadable, UnaryOps, IntOps, FloatOps
<1>3. IsSequence(heap) /\ Len(heap) \in Nat /\ \A a \in DOMAIN heap : LinksOK(heap[a])
  BY DEF TypeOK, HeapOK, IsSequence
<1>4. c \in DOMAIN heap /\ LinksOK(heap[c]) /\ IsObject(heap[c]) /\ n \in Nat
  <2>1. c \in 1..Len(heap)
    BY <1>2 DEF ClosureReadable
  <2>2. c \in DOMAIN heap
    BY <1>3, <2>1 DEF IsSequence
  <2> QED BY <1>3, <2>2 DEF LinksOK, IsObject
<1>5. items \in Seq(Value)
  <2> SUFFICES ASSUME NEW i \in 0..n - 1 PROVE Captured(i) \in Value
    BY <1>4
  <2>1. /\ CaptureIndex(i) \in Nat
        /\ IF CaptureLocal(i) THEN Slot(CaptureIndex(i)) < MaxStack ELSE HasUpvalue(CaptureIndex(i))
    BY <1>2 DEF ClosureReadable
  <2>2. CASE CaptureLocal(i)
    <3>1. Slot(CaptureIndex(i)) \in 0..MaxStack - 1
      BY <1>1, <2>1, <2>2, CurrentFrame, StackTypes DEF Slot, Frame
    <3> QED BY <2>2, <3>1 DEF Captured, TypeOK, StackOK
  <2>3. CASE ~CaptureLocal(i)
    BY <1>1, <2>1, <2>3, UpvalueIs DEF Captured
  <2> QED BY <2>2, <2>3
<1>6. objects \in 0..Len(heap) /\ Fresh = Len(heap) + 1
  BY DEF TypeOK, RestOK, Fresh
<1>7. /\ IsObject(again) /\ again.next = objects /\ again.ups = Len(heap) + 1
      /\ again.kind = heap[c].kind /\ again.code = heap[c].code
  <2> DEFINE h == heap[c]
             next == objects
             ups == Len(heap) + 1
  <2>1. IsObject(h) /\ next \in Nat /\ ups \in Nat
    BY <1>3, <1>4, <1>6
  <2>2. again = [h EXCEPT !.next = next, !.ups = ups]
    BY <1>6
  <2> HIDE DEF again, h, next, ups
  <2>3. /\ IsObject(again) /\ again.next = next /\ again.ups = ups
        /\ again.kind = h.kind /\ again.code = h.code
    BY <2>1, <2>2 DEF IsObject
  <2> QED BY <2>3 DEF h, next, ups
<1>8. IsObject(block) /\ block.next = 0 /\ block.ups = 0 /\ block.kind = "UPVALUES"
  <2> HIDE DEF items
  <2> QED BY <1>3, <1>5, NewObjects DEF Kinds
<1>9. heap' = Append(mid, block) /\ objects' = c /\ Replace(0, ObjVal(c)) /\ Silent
      /\ Jump(UpvalueBytes * n)
  BY DEF Closure
<1> HIDE DEF again, block, items
<1>10. /\ IsSequence(mid) /\ Len(mid) = Len(heap)
       /\ \A a \in 1..Len(heap) : mid[a] = IF a = c THEN again ELSE heap[a]
  BY <1>3, <1>4, ExceptOfSeq
<1> HIDE DEF mid
<1>11. /\ IsSequence(heap') /\ Len(heap') = Len(heap) + 1 /\ DOMAIN heap' = 1..Len(heap) + 1
       /\ heap'[Len(heap) + 1] = block
       /\ \A a \in 1..Len(heap) : heap'[a] = IF a = c THEN again ELSE heap[a]
  BY <1>9, <1>10, <1>3, AppendSeq
<1>12. package' = package /\ status' = status /\ cursor' = cursor /\ out' = out
  BY <1>9 DEF Silent, Running
<1>13. DOMAIN heap = 1..Len(heap)
  BY <1>3 DEF IsSequence
<1>14. \A a \in DOMAIN heap' : LinksOK(heap[a])'
  <2> SUFFICES ASSUME NEW a \in DOMAIN heap' PROVE LinksOK(heap[a])'
    OBVIOUS
  <2>1. CASE a = Len(heap) + 1
    BY <1>3, <1>8, <1>11, <2>1 DEF LinksOK
  <2>2. CASE a = c
    BY <1>3, <1>4, <1>6, <1>7, <1>11, <1>12, <1>13, <2>2 DEF LinksOK
  <2>3. CASE a \in 1..Len(heap) /\ a # c
    BY <1>3, <1>11, <1>12, <1>13, <2>3 DEF LinksOK
  <2> QED BY <1>3, <1>11, <2>1, <2>2, <2>3
<1>15. HeapOK'
  BY <1>11, <1>14 DEF HeapOK
<1>16. FramesOK'
  <2>1. UpvalueBytes * n \in Int /\ Len(heap') \in Nat /\ Len(heap') >= Len(heap)
    BY <1>3, <1>4, <1>11 DEF UpvalueBytes
  <2> QED BY <1>1, <1>9, <1>12, <2>1, Widths, JumpFrames
<1>17. StackOK'
  BY <1>1, <1>9, ReplaceStack DEF ObjVal, Value
<1>18. RestOK'
  BY <1>3, <1>4, <1>9, <1>11, <1>12, <1>13 DEF TypeOK, RestOK
<1> QED BY <1>15, <1>16, <1>17, <1>18 DEF TypeOK

-----------------------------------------------------------------------------
(* The sweep, the ends of a run, and the theorem.                           *)

\* Freeing an object keeps the links of all objects within the heap.
LEMMA FreeObjectOK == ASSUME TypeOK, FreeObject PROVE TypeOK'
<1>1. IsSequence(heap) /\ Len(heap) \in Nat /\ \A a \in DOMAIN heap : LinksOK(heap[a])
  BY DEF TypeOK, HeapOK, IsSequence
<1>2. DOMAIN heap = 1..Len(heap) /\ DOMAIN heap' = 1..Len(heap)
  BY <1>1 DEF IsSequence, FreeObject
<1>3. PICK F : heap' = [a \in DOMAIN heap |-> IF a \in F THEN [heap[a] EXCEPT !.kind = "FREED"]
                                                        ELSE heap[a]]
  BY DEF FreeObject
<1>4. \A a \in 1..Len(heap) : IsObject(heap[a]) => IsObject([heap[a] EXCEPT !.kind = "FREED"])
  <2> SUFFICES ASSUME NEW o, IsObject(o) PROVE IsObject([o EXCEPT !.kind = "FREED"])
    OBVIOUS
  <2> QED BY DEF IsObject, Kinds
<1>5. IsSequence(heap') /\ Len(heap') = Len(heap)
  <2>1. heap' \in Seq({heap'[a] : a \in DOMAIN heap'})
    BY <1>1, <1>2, <1>3
  <2> QED BY <1>1, <1>2, <2>1 DEF IsSequence
<1>6. package' = package /\ status' = status /\ frames' = frames /\ objects' = objects
      /\ out' = out /\ stack' = stack /\ sp' = sp /\ cursor' = heap[cursor].next /\ cursor # 0
  BY DEF FreeObject
<1>7. \A a \in DOMAIN heap' : LinksOK(heap[a])'
  <2> SUFFICES ASSUME NEW a \in 1..Len(heap) PROVE LinksOK(heap[a])'
    BY <1>2
  <2>1. LinksOK(heap[a])
    BY <1>1, <1>2
  <2>2. CASE heap'[a] = heap[a]
    BY <1>5, <1>6, <2>1, <2>2 DEF LinksOK
  <2>3. CASE heap'[a] = [heap[a] EXCEPT !.kind = "FREED"]
    <3>1. IsObject(heap[a]) /\ heap[a].next \in 0..Len(heap) /\ heap[a].ups \in 0..Len(heap)
      BY <2>1 DEF LinksOK
    <3>2. IsObject(heap'[a])
      BY <1>4, <2>3, <3>1
    <3>3. heap'[a].next = heap[a].next /\ heap'[a].ups = heap[a].ups /\ heap'[a].kind = "FREED"
      BY <2>3, <3>1 DEF IsObject
    <3> QED BY <1>5, <3>1, <3>2, <3>3 DEF LinksOK
  <2> QED BY <1>2, <1>3, <2>2, <2>3
<1>8. HeapOK'
  BY <1>5, <1>7 DEF HeapOK
<1>9. StackOK' /\ FramesOK'
  BY <1>5, <1>6 DEF TypeOK, StackOK, FramesOK, Frame
<1>10. RestOK'
  BY <1>1, <1>2, <1>5, <1>6 DEF TypeOK, RestOK, LinksOK
<1> QED BY <1>8, <1>9, <1>10 DEF TypeOK

\* A run that is over changes nothing but its status.
LEMMA EndOK == ASSUME TypeOK, NEW how \in Ended, End(how) PROVE TypeOK'
<1>1. how # "running"
  BY DEF Ended
<1> QED BY <1>1 DEF End, TypeOK, StackOK, FramesOK, Frame, HeapOK, LinksOK, RestOK

\* Every program starts with the types in place.
LEMMA InitOK == ASSUME Init PROVE TypeOK
<1>1. IsPackage(package) /\ heap = package.heap
  BY EngineAssumption DEF Init
<1>2. IsSequence(heap) /\ Len(heap) \in Nat /\ DOMAIN heap = 1..Len(heap)
  BY <1>1 DEF IsPackage, IsSequence
<1>3. \A a \in DOMAIN heap : LinksOK(heap[a])
  BY <1>1, <1>2 DEF IsPackage, LinksOK
<1>4. StackOK
  BY EngineAssumption DEF Init, StackOK, Value, Garbage
<1>5. FramesOK
  <2>1. CASE package.main = 0
    BY <2>1 DEF Init, FramesOK
  <2>2. CASE package.main # 0
    <3>1. package.main \in DOMAIN heap /\ heap[package.main].kind = "FUNCTION"
      BY <1>1, <1>2, <2>2 DEF IsPackage
    <3>2. [chunk |-> heap[package.main].code, ip |-> 0, base |-> 0, closed |-> 0] \in Frame
      BY <1>2, <1>3, <3>1, EngineAssumption DEF Frame, LinksOK
    <3> DEFINE first == [chunk |-> heap[package.main].code, ip |-> 0, base |-> 0, closed |-> 0]
    <3>3. first \in Frame /\ frames = <<first>>
      BY <2>2, <3>2 DEF Init
    <3> HIDE DEF first
    <3>4. frames \in Seq(Frame) /\ frames # <<>>
      BY <3>3
    <3> QED BY <3>4 DEF FramesOK
  <2> QED BY <2>1, <2>2
<1>6. HeapOK
  BY <1>2, <1>3 DEF HeapOK
<1>7. RestOK
  BY <1>1, <1>2 DEF Init, RestOK, Ended
<1> QED BY <1>4, <1>5, <1>6, <1>7 DEF TypeOK

\* Every instruction preserves the type invariant.
LEMMA InstructionOK == ASSUME FloatsAreWords, TypeOK, Instruction PROVE TypeOK'
  BY ConstantOK, StringLiteralOK, ArrayLiteralOK, MapLiteralOK, ConstructorOK, EmptyContainerOK,
     ClosureOK, UnaryOK, BinaryOK, ShortCircuitOK, GetLocalOK, SetLocalOK, GetGlobalOK,
     GetUpvalueOK, SetUpvalueOK, IndexGetOK, IndexSetOK, StructGetOK, StructSetOK,
     JumpAlwaysOK, JumpIfZeroOK, PopOK, CallFunctionOK, CallNativeOK, ReturnOK
  DEF Instruction

\* Every way to end a run preserves the type invariant.
LEMMA FailureOK == ASSUME TypeOK, Failure \/ DoubleFree \/ SweepEnds PROVE TypeOK'
<1>1. PICK how \in Ended : End(how)
  BY DEF Failure, StackOverflow, OutOfMemory, CStackOverflow, BadIndex, AssertFails, GoesWild,
         DoubleFree, SweepEnds, Ended
<1> QED BY <1>1, EndOK

\* The type invariant is inductive.
LEMMA NextOK == ASSUME FloatsAreWords, TypeOK, [Next]_vars PROVE TypeOK'
<1>1. CASE Instruction
  BY <1>1, InstructionOK
<1>2. CASE FallOff
  BY <1>2, FallOffOK
<1>3. CASE Failure
  BY <1>3, FailureOK
<1>4. CASE Sweep
  BY <1>4, FreeObjectOK, FailureOK DEF Sweep
<1>5. CASE UNCHANGED vars
  BY <1>5 DEF vars, TypeOK, StackOK, FramesOK, Frame, HeapOK, LinksOK, RestOK
<1> QED BY <1>1, <1>2, <1>3, <1>4, <1>5 DEF Next, Terminated

\* Whatever program mtr_execute is given and whatever the sizes of the stack, of the
\* C stack and of memory, every step of the engine leaves the stack pointer within
\* the array, every frame on the stack and every link on the heap.
THEOREM TypeCorrect == ASSUME FloatsAreWords PROVE Spec => []TypeOK
<1>1. Init => TypeOK
  BY InitOK
<1>2. TypeOK /\ [Next]_vars => TypeOK'
  BY NextOK
<1> QED BY <1>1, <1>2, PTL DEF Spec
=============================================================================
