----------------------------- MODULE StackProofs -----------------------------
(***************************************************************************)
(* That calls keep apart on the stack: for every package whose code has    *)
(* one height at every offset, every size of the stack, of the C stack and *)
(* of memory, as long as what is called takes the arguments it is given.   *)
(*                                                                         *)
(* The engine does not check either; the validator and the code generator  *)
(* see to both.  StackIsDivided, with every frame where its code has a     *)
(* height, is inductive: an instruction moves its frame from one height of *)
(* its code to another, a call begins at the height of its arguments, and  *)
(* a return gives the caller the height it has behind the call.            *)
(*                                                                         *)
(* The second half is that the engine's one stack is as good as a stack    *)
(* for every call (CallStacks).                                            *)
(***************************************************************************)
EXTENDS Stacks, EngineProofs

\* The package that runs has the heights of Height.
Annotated == IsStacked(Height[program], package)

\* What the engine does to the closures made at compile time leaves their counts.
CountsKept == /\ Len(package.heap) <= Len(heap)
              /\ \A a \in DOMAIN package.heap : heap[a].count = package.heap[a].count

\* A frame is where a call of its chunk may be.
Placed(f) == f.ip \in 0..Len(package.chunks[f.chunk]) /\ HeightAt(f) \in Nat

FramesPlaced == /\ \A k \in 1..Len(frames) : Placed(frames[k])
                /\ \A k \in 2..Len(frames) : LeavesOneCell(frames[k].chunk)

StackInv == Annotated /\ CountsKept /\ (status = "running" => FramesPlaced /\ StackIsDivided)

\* The inductive invariant.
IInv == TypeOK /\ StackInv

\* Every program has heights.
AllStacked == \A p \in DOMAIN Programs : IsStacked(Height[p], Programs[p])

\* The code has the height k where the current instruction goes on at the offset i.
Comes(i, k) == i \in 0..Len(Code) /\ Height[program][Top.chunk][i] = k

-----------------------------------------------------------------------------
(* The instruction that is about to run, and the heights around it.        *)

LEMMA Here ==
  ASSUME IInv, InLoop
  PROVE  /\ Len(frames) \in Nat \ {0} /\ frames \in Seq(Frame) /\ Top \in Frame
         /\ Top.chunk \in DOMAIN package.chunks /\ Code = package.chunks[Top.chunk]
         /\ Code \in Seq(Cell) /\ Len(Code) \in Nat
         /\ Top.ip \in 0..Len(Code) - 1
         /\ HeightAt(Top) \in Nat /\ HeightAt(Top) = Height[program][Top.chunk][Top.ip]
         /\ sp = Top.base + HeightAt(Top)
         /\ Top.base \in Nat /\ sp \in Nat
         /\ Keeps(Height[program], package, Top.chunk, Top.ip)
<1>1. TypeOK /\ status = "running" /\ Top.ip < Len(Code)
  BY DEF IInv, InLoop
<1>2. Top \in Frame /\ Code \in Seq(Cell) /\ Len(frames) \in Nat \ {0} /\ frames \in Seq(Frame)
  BY <1>1, CurrentFrame DEF TypeOK, FramesOK
<1>3. Top.chunk \in DOMAIN package.chunks /\ Top.base \in Nat /\ Code = package.chunks[Top.chunk]
  BY <1>2, EngineAssumption DEF Frame, Code
<1>4. Placed(Top) /\ sp = Top.base + HeightAt(Top)
  BY <1>1, <1>2 DEF IInv, StackInv, FramesPlaced, StackIsDivided, Top
<1>5. Top.ip \in 0..Len(Code) - 1 /\ HeightAt(Top) \in Nat
  BY <1>1, <1>2, <1>3, <1>4 DEF Placed
<1>6. Keeps(Height[program], package, Top.chunk, Top.ip)
  <2>1. Height[program][Top.chunk][Top.ip] # Unreached
    BY <1>5 DEF HeightAt, Unreached
  <2>2. IsStacked(Height[program], package)
    BY DEF IInv, StackInv, Annotated
  <2>3. Top.ip \in 0..Len(package.chunks[Top.chunk]) - 1
    BY <1>3, <1>5
  <2> QED
    BY <1>3, <2>1, <2>2, <2>3 DEF IsStacked
<1> QED
  BY <1>1, <1>2, <1>3, <1>4, <1>5, <1>6, StackTypes DEF HeightAt

\* What Keeps says, in the engine's terms.
LEMMA Heights ==
  ASSUME IInv, InLoop
  PROVE  LET h == HeightAt(Top)
         IN  /\ Needs <= h
             /\ Op = "GET" => Operand(1) < h
             /\ Op = "SET" => Operand(1) < h - 1
             /\ Op = "CLOSURE" => /\ Operand(1) \in DOMAIN package.heap
                                  /\ Comes(Top.ip + 9 + UpvalueBytes * package.heap[Operand(1)].count, h + 1)
             /\ Op = "JMP" => Comes(Top.ip + Width + Operand(1), h)
             /\ Op = "JMP_Z" => Comes(Top.ip + Width, h - 1) /\ Comes(Top.ip + Width + Operand(1), h - 1)
             /\ Op \in {"OR", "AND"} => /\ Comes(Top.ip + Width, h - 1)
                                        /\ Comes(Top.ip + Width + Operand(1), h)
             /\ Op \in Consumers => Comes(Top.ip + Width, h - Needs)
             /\ Op \notin Consumers \union {"RETURN", "EMPTY_STRING", "CLOSURE", "JMP", "JMP_Z", "OR", "AND"} =>
                  Comes(Top.ip + Width, h - Needs + 1)
<1>1. /\ Keeps(Height[program], package, Top.chunk, Top.ip) /\ Code = package.chunks[Top.chunk]
      /\ HeightAt(Top) = Height[program][Top.chunk][Top.ip] /\ Top.ip \in Nat
  BY Here
<1>2. Op = package.chunks[Top.chunk][Top.ip + 1].op
  BY <1>1 DEF Op
<1>3. Operand(1) = package.chunks[Top.chunk][Top.ip + 2].arg
  <2>1. Top.ip + 1 + 1 = Top.ip + 2
    BY <1>1
  <2> QED
    BY <1>1, <2>1 DEF Operand
<1>4. Top.ip + 1 + OperandBytes(Op) = Top.ip + Width
  <2>1. OperandBytes(Op) \in Nat
    BY DEF OperandBytes
  <2> QED
    BY <1>1, <2>1 DEF Width
<1>5. Op = "CLOSURE" => Top.ip + Width = Top.ip + 9
  BY DEF Width, OperandBytes
<1> QED
  BY <1>1, <1>2, <1>3, <1>4, <1>5 DEF Keeps, Comes, Needs, Consumers

-----------------------------------------------------------------------------
(* Steps of a frame.                                                       *)

\* The instruction moves the innermost frame to an offset with a height, and the stack
\* to that height.
LEMMA MovesOn ==
  ASSUME IInv, InLoop, NEW i, NEW k \in Nat, Comes(i, k),
         frames' = [frames EXCEPT ![Len(frames)].ip = i], sp' = Top.base + k,
         program' = program, package' = package, status' = status, CountsKept'
  PROVE  StackInv'
<1>1. Len(frames) \in Nat \ {0} /\ frames \in Seq(Frame) /\ Top \in Frame
  BY Here
<1> DEFINE moved == [Top EXCEPT !.ip = i]
<1>2. moved.chunk = Top.chunk /\ moved.base = Top.base /\ moved.ip = i
  BY <1>1 DEF Frame
<1>3. /\ Len(frames') = Len(frames) /\ frames'[Len(frames)] = moved
      /\ \A m \in 1..Len(frames) - 1 : frames'[m] = frames[m]
  BY <1>1 DEF Top
<1> HIDE DEF moved
<1>4. HeightAt(moved) = k /\ i \in 0..Len(package.chunks[moved.chunk])
  BY <1>2 DEF Comes, HeightAt, Code
<1>5. \A m \in 1..Len(frames) - 1 :
        /\ HeightAt(frames[m])' = HeightAt(frames[m])
        /\ Placed(frames[m])' <=> Placed(frames[m])
  BY <1>3 DEF HeightAt, Placed
<1>6. HeightAt(frames[Len(frames)])' = k /\ Placed(frames[Len(frames)])' /\ Top' = moved
  BY <1>2, <1>3, <1>4 DEF HeightAt, Placed, Top
<1>7. FramesPlaced'
  <2>1. FramesPlaced
    BY DEF IInv, StackInv, InLoop
  <2>2. \A m \in 1..Len(frames) : Placed(frames[m])'
    BY <1>1, <1>5, <1>6, <2>1 DEF FramesPlaced
  <2>3. \A m \in 2..Len(frames) : frames'[m].chunk = frames[m].chunk
    BY <1>1, <1>2, <1>3 DEF Top
  <2>4. \A m \in 2..Len(frames) : LeavesOneCell(frames[m].chunk)'
    BY <2>1, <2>3 DEF FramesPlaced, LeavesOneCell
  <2> QED
    BY <1>3, <2>2, <2>4 DEF FramesPlaced
<1>8. StackIsDivided'
  <2>1. \A m \in 1..Len(frames) : frames'[m].base = frames[m].base
    BY <1>1, <1>2, <1>3 DEF Top
  <2>2. \A m \in 1..Len(frames) - 1 : frames[m + 1].base + 1 = frames[m].base + HeightAt(frames[m])
    BY DEF IInv, StackInv, StackIsDivided, InLoop
  <2>3. \A m \in 1..Len(frames) - 1 :
          frames'[m + 1].base + 1 = frames'[m].base + HeightAt(frames[m])'
    BY <1>1, <1>5, <2>1, <2>2
  <2>4. sp' = Top'.base + HeightAt(Top)'
    BY <1>2, <1>6, <1>3 DEF Top, HeightAt
  <2> QED
    BY <1>3, <2>3, <2>4 DEF StackIsDivided
<1>9. Annotated'
  BY DEF IInv, StackInv, Annotated
<1> QED
  BY <1>7, <1>8, <1>9 DEF StackInv

\* How many cells an instruction pops is a number.
LEMMA NeedsIsNat ==
  ASSUME IInv, InLoop, Readied
  PROVE  Needs \in Nat
<1>1. Op \in {"ARRAY_LITERAL", "CONSTRUCTOR", "POP_V", "MAP_LITERAL", "CALL"} => Operand(1) \in Nat
  BY Unsigned DEF IInv
<1> QED
  BY <1>1 DEF Needs, Pops, UnaryOps, BinaryOps, IntOps, FloatOps

\* An instruction that pops what it needs and pushes a result.
LEMMA Pushed ==
  ASSUME IInv, InLoop, Readied,
         Op \notin Consumers \union {"RETURN", "EMPTY_STRING", "CLOSURE", "JMP", "JMP_Z", "OR", "AND"},
         Advance, sp' = sp - Needs + 1, Running, CountsKept'
  PROVE  StackInv'
<1> DEFINE k == HeightAt(Top) - Needs + 1
<1>1. k \in Nat /\ Comes(Top.ip + Width, k)
  <2>1. Needs <= HeightAt(Top) /\ Comes(Top.ip + Width, k)
    BY Heights
  <2>2. HeightAt(Top) \in Nat /\ Needs \in Nat
    BY Here, NeedsIsNat
  <2> QED
    BY <2>1, <2>2
<1>2. sp' = Top.base + k
  <2>1. /\ sp = Top.base + HeightAt(Top) /\ Top.base \in Nat /\ HeightAt(Top) \in Nat
        /\ Needs \in Nat
    BY Here, NeedsIsNat
  <2> QED
    BY <2>1
<1>3. frames' = [frames EXCEPT ![Len(frames)].ip = Top.ip + Width]
  <2>1. Top.ip + Width + 0 = Top.ip + Width
    BY Here, Widths DEF IInv
  <2> QED
    BY <2>1 DEF Advance, Jump
<1> HIDE DEF k
<1> QED
  BY <1>1, <1>2, <1>3, MovesOn DEF Running

\* An instruction that pops what it needs.
LEMMA Consumed ==
  ASSUME IInv, InLoop, Readied, Op \in Consumers, Advance, sp' = sp - Needs, Running, CountsKept'
  PROVE  StackInv'
<1> DEFINE k == HeightAt(Top) - Needs
<1>1. k \in Nat /\ Comes(Top.ip + Width, k)
  <2>1. Needs <= HeightAt(Top) /\ Comes(Top.ip + Width, k)
    BY Heights
  <2>2. HeightAt(Top) \in Nat /\ Needs \in Nat
    BY Here, NeedsIsNat
  <2> QED
    BY <2>1, <2>2
<1>2. sp' = Top.base + k
  <2>1. /\ sp = Top.base + HeightAt(Top) /\ Top.base \in Nat /\ HeightAt(Top) \in Nat
        /\ Needs \in Nat
    BY Here, NeedsIsNat
  <2> QED
    BY <2>1
<1>3. frames' = [frames EXCEPT ![Len(frames)].ip = Top.ip + Width]
  <2>1. Top.ip + Width + 0 = Top.ip + Width
    BY Here, Widths DEF IInv
  <2> QED
    BY <2>1 DEF Advance, Jump
<1> HIDE DEF k
<1> QED
  BY <1>1, <1>2, <1>3, MovesOn DEF Running

-----------------------------------------------------------------------------
(* The counts of the closures.                                             *)

LEMMA Addresses ==
  ASSUME IInv
  PROVE  /\ IsSequence(heap) /\ Len(heap) \in Nat /\ DOMAIN heap = 1..Len(heap)
         /\ Len(package.heap) \in Nat /\ DOMAIN package.heap = 1..Len(package.heap)
         /\ Len(package.heap) <= Len(heap)
<1>1. IsSequence(heap) /\ IsSequence(package.heap)
  BY DEF IInv, TypeOK, HeapOK, RestOK, IsPackage
<1>2. \A s : IsSequence(s) => Len(s) \in Nat /\ DOMAIN s = 1..Len(s)
  BY DEF IsSequence
<1> QED
  BY <1>1, <1>2 DEF IInv, StackInv, CountsKept

LEMMA SameHeap ==
  ASSUME IInv, heap' = heap, package' = package
  PROVE  CountsKept'
  BY DEF IInv, StackInv, CountsKept

LEMMA GrownHeap ==
  ASSUME IInv, NEW o, heap' = Append(heap, o), package' = package
  PROVE  CountsKept'
<1>1. Len(heap') = Len(heap) + 1 /\ \A a \in 1..Len(heap) : heap'[a] = heap[a]
  BY Addresses, AppendSeq
<1> QED
  BY <1>1, Addresses DEF IInv, StackInv, CountsKept

LEMMA StoredHeap ==
  ASSUME IInv, NEW a \in DOMAIN heap, NEW o, o.count = heap[a].count, heap' = [heap EXCEPT ![a] = o],
         package' = package
  PROVE  CountsKept'
<1>1. Len(heap') = Len(heap)
  BY Addresses, ExceptOfSeq
<1>2. \A b \in DOMAIN heap : heap'[b] = IF b = a THEN o ELSE heap[b]
  OBVIOUS
<1>3. \A b \in DOMAIN package.heap : b \in DOMAIN heap
  BY Addresses
<1> QED
  BY <1>1, <1>2, <1>3 DEF IInv, StackInv, CountsKept

\* A store into an object writes an element, a member or a pair, and not its count.
LEMMA StoresKeepCounts ==
  ASSUME IInv, SetUpvalue \/ IndexSet \/ StructSet
  PROVE  \E a \in DOMAIN heap : \E o : o.count = heap[a].count /\ heap' = [heap EXCEPT ![a] = o]
<1>1. TypeOK
  BY DEF IInv
<1>2. CASE SetUpvalue
  <2>1. InLoop /\ Readied /\ Op = "UPVALUE_SET" /\ Operand(1) \in Nat /\ 1 <= sp /\ status = "running"
    BY <1>1, <1>2, Unsigned, Widths, NeedsOf, StackTypes DEF SetUpvalue, At, InLoop
  <2>2. HasUpvalue(Operand(1))
    BY <2>1 DEF Readied, OperandsReadable, UnaryOps, IntOps, FloatOps
  <2> DEFINE a == Top.closed
             o == [heap[a] EXCEPT !.items[Operand(1) + 1] = Peek(0)]
  <2>3. a \in DOMAIN heap /\ IsObject(heap[a]) /\ Operand(1) + 1 \in DOMAIN heap[a].items
    BY <1>1, <2>1, <2>2, UpvalueIs
  <2>4. Peek(0) \in Value
    BY <1>1, <2>1, PeekValue, StackTypes
  <2>5. o.count = heap[a].count
    BY <2>3, <2>4, ItemsObject
  <2>6. heap' = [heap EXCEPT ![a] = o]
    BY <1>2 DEF SetUpvalue
  <2> HIDE DEF a, o
  <2> QED
    BY <2>3, <2>5, <2>6
<1>3. CASE IndexSet
  <2> DEFINE a == Peek(1).bits
  <2>1. InLoop /\ Readied /\ Op = "INDEX_SET" /\ sp \in Nat /\ 3 <= sp
    BY <1>1, <1>3, Widths, NeedsOf, StackTypes DEF IndexSet, At
  <2>2. /\ Peek(0) \in Value /\ Peek(2) \in Value /\ a \in DOMAIN heap /\ IsObject(heap[a])
        /\ KindOf(Peek(1)) = "MAP" => Readable(Peek(0))
    BY <1>1, <2>1, IndexReads, Pointer, PeekValue
  <2>3. CASE InArray /\ heap' = [heap EXCEPT ![Peek(1).bits].items[Peek(0).bits + 1] = Peek(2)]
    <3> DEFINE o == [heap[a] EXCEPT !.items[Peek(0).bits + 1] = Peek(2)]
    <3>1. Peek(0).bits + 1 \in DOMAIN heap[a].items
      BY <2>2, <2>3 DEF InArray, IsObject
    <3>2. o.count = heap[a].count
      BY <2>2, <3>1, ItemsObject
    <3>3. heap' = [heap EXCEPT ![a] = o]
      BY <2>3
    <3> HIDE DEF a, o
    <3> QED
      BY <2>2, <3>2, <3>3
  <2>4. CASE InMap /\ heap' = [heap EXCEPT ![Peek(1).bits].entries =
                                 MapInsert(@, LeafOf(Peek(0)), Peek(2))]
    <3> DEFINE o == [heap[a] EXCEPT !.entries = MapInsert(@, LeafOf(Peek(0)), Peek(2))]
    <3>1. LeafOf(Peek(0)) \in Leaf
      BY <1>1, <2>2, <2>4, LeafValue DEF InMap
    <3>2. o.count = heap[a].count
      BY <2>2, <3>1, EntriesObject
    <3>3. heap' = [heap EXCEPT ![a] = o]
      BY <2>4
    <3> HIDE DEF a, o
    <3> QED
      BY <2>2, <3>2, <3>3
  <2> QED
    BY <1>3, <2>3, <2>4 DEF IndexSet
<1>4. CASE StructSet
  <2>1. InLoop /\ Readied /\ Op = "STRUCT_SET" /\ sp \in Nat /\ 2 <= sp
    BY <1>1, <1>4, Widths, NeedsOf, StackTypes DEF StructSet, At
  <2> DEFINE a == Peek(0).bits
             o == [heap[a] EXCEPT !.items[Member] = Peek(1)]
  <2>2. a \in DOMAIN heap /\ IsObject(heap[a]) /\ Member \in DOMAIN heap[a].items /\ Peek(1) \in Value
    BY <1>1, <2>1, MemberIs, PeekValue
  <2>3. o.count = heap[a].count
    BY <2>2, ItemsObject
  <2>4. heap' = [heap EXCEPT ![a] = o]
    BY <1>4 DEF StructSet
  <2> HIDE DEF a, o
  <2> QED
    BY <2>2, <2>3, <2>4
<1> QED
  BY <1>2, <1>3, <1>4

-----------------------------------------------------------------------------
(* The instructions.                                                       *)

LEMMA NeedsOfMakers ==
  /\ Op \in ConstantOps \union ContainerOps \union {"STRING_LITERAL", "GET", "GLOBAL_GET", "UPVALUE_GET",
                                                   "CLOSURE", "JMP"} => Needs = 0
  /\ Op \in {"ARRAY_LITERAL", "CONSTRUCTOR"} => Needs = Operand(1)
  /\ Op = "MAP_LITERAL" => Needs = 2 * Operand(1)
  BY DEF Needs, Pops, ConstantOps, ContainerOps, UnaryOps, BinaryOps, IntOps, FloatOps

\* Instructions that push what they find or compute.
LEMMA PushersDivide ==
  ASSUME IInv,
         Constant \/ GetLocal \/ GetGlobal \/ GetUpvalue \/ Unary \/ Binary \/ IndexGet \/ StructGet
           \/ CallNative
  PROVE  StackInv'
<1>1. /\ InLoop /\ Readied /\ Advance /\ Running /\ heap' = heap
      /\ Op \in ConstantOps \union UnaryOps \union BinaryOps \union
               {"GET", "GLOBAL_GET", "UPVALUE_GET", "INDEX_GET", "STRUCT_GET", "CALL"}
  BY DEF Constant, GetLocal, GetGlobal, GetUpvalue, Unary, Binary, IndexGet, StructGet, CallNative, At,
         NoAlloc, Silent
<1>2. sp' = sp - Needs + 1
  <2>1. CASE Constant \/ GetLocal \/ GetGlobal \/ GetUpvalue
    <3>1. sp' = sp - 0 + 1
      BY <2>1 DEF Constant, GetLocal, GetGlobal, GetUpvalue, Replace
    <3>2. Needs = 0
      BY <2>1, NeedsOfMakers DEF Constant, GetLocal, GetGlobal, GetUpvalue, At
    <3> QED
      BY <3>1, <3>2
  <2>2. CASE Unary \/ StructGet
    BY <2>2, NeedsOf DEF Unary, StructGet, At, Replace
  <2>3. CASE Binary \/ IndexGet
    BY <2>3, NeedsOf DEF Binary, IndexGet, At, Replace
  <2>4. CASE CallNative
    BY <2>4, NeedsOf DEF CallNative, At, Replace, Argc
  <2> QED
    BY <2>1, <2>2, <2>3, <2>4
<1>3. Op \notin Consumers \union {"RETURN", "EMPTY_STRING", "CLOSURE", "JMP", "JMP_Z", "OR", "AND"}
  BY <1>1 DEF Consumers, ConstantOps, UnaryOps, BinaryOps, IntOps, FloatOps
<1>4. CountsKept'
  BY <1>1, SameHeap DEF Running
<1> QED
  BY <1>1, <1>2, <1>3, <1>4, Pushed

\* Instructions that make an object and push it.
LEMMA MakersDivide ==
  ASSUME IInv, StringLiteral \/ ArrayLiteral \/ MapLiteral \/ Constructor \/ EmptyContainer
  PROVE  StackInv'
<1>1. /\ InLoop /\ Readied /\ Advance /\ Running
      /\ Op \in ContainerOps \union {"STRING_LITERAL", "ARRAY_LITERAL", "MAP_LITERAL", "CONSTRUCTOR"}
  BY DEF StringLiteral, ArrayLiteral, MapLiteral, Constructor, EmptyContainer, At, Silent
<1>2. sp' = sp - Needs + 1
  BY NeedsOfMakers DEF StringLiteral, ArrayLiteral, MapLiteral, Constructor, EmptyContainer, At, Replace
<1>3. Op \notin Consumers \union {"RETURN", "EMPTY_STRING", "CLOSURE", "JMP", "JMP_Z", "OR", "AND"}
  BY <1>1 DEF Consumers, ContainerOps
<1>4. \E o : heap' = Append(heap, o)
  BY DEF StringLiteral, ArrayLiteral, MapLiteral, Constructor, EmptyContainer, Link
<1>5. CountsKept'
  BY <1>1, <1>4, GrownHeap DEF Running
<1> QED
  BY <1>1, <1>2, <1>3, <1>5, Pushed

\* Instructions that store into an object, and those that pop.
LEMMA ConsumersDivide ==
  ASSUME IInv, SetLocal \/ SetUpvalue \/ IndexSet \/ StructSet \/ Pop
  PROVE  StackInv'
<1>1. InLoop /\ Readied /\ Advance /\ Running /\ Op \in Consumers
  BY DEF SetLocal, SetUpvalue, IndexSet, StructSet, Pop, At, NoAlloc, Silent, Consumers
<1>2. sp' = sp - Needs
  BY NeedsOf DEF SetLocal, SetUpvalue, IndexSet, StructSet, Pop, At, Drop
<1>3. CountsKept'
  <2>1. CASE SetLocal \/ Pop
    BY <2>1, <1>1, SameHeap DEF SetLocal, Pop, NoAlloc, Running
  <2>2. CASE SetUpvalue \/ IndexSet \/ StructSet
    BY <2>2, <1>1, StoresKeepCounts, StoredHeap DEF Running
  <2> QED
    BY <2>1, <2>2
<1> QED
  BY <1>1, <1>2, <1>3, Consumed

\* Instructions that jump.
LEMMA JumpsDivide ==
  ASSUME IInv, JumpAlways \/ JumpIfZero \/ ShortCircuit
  PROVE  StackInv'
<1>1. InLoop /\ Readied /\ NoAlloc /\ Op \in {"JMP", "JMP_Z", "OR", "AND"}
  BY DEF JumpAlways, JumpIfZero, ShortCircuit, At
<1>2. Running /\ CountsKept' /\ Operand(1) \in Int
  BY <1>1, SameHeap, Signed DEF NoAlloc, Silent, Running, IInv
<1> DEFINE h == HeightAt(Top)
<1>3. h \in Nat /\ sp = Top.base + h /\ Top.base \in Nat /\ Top.ip \in Nat /\ Width \in Int
  BY <1>1, Here, Widths DEF IInv
<1>4. Op \in {"JMP_Z", "OR", "AND"} => h >= 1
  BY <1>1, <1>3, Heights, NeedsOf
<1>5. /\ Op = "JMP" => Comes(Top.ip + Width + Operand(1), h)
      /\ Op = "JMP_Z" => Comes(Top.ip + Width, h - 1) /\ Comes(Top.ip + Width + Operand(1), h - 1)
      /\ Op \in {"OR", "AND"} => Comes(Top.ip + Width, h - 1) /\ Comes(Top.ip + Width + Operand(1), h)
  BY <1>1, Heights
<1>6. Top.ip + Width + 0 = Top.ip + Width
  BY <1>3
<1> HIDE DEF h
<1>7. ASSUME NEW d, NEW k \in Nat, Jump(d), sp' = Top.base + k, Comes(Top.ip + Width + d, k)
      PROVE  StackInv'
  BY <1>1, <1>2, <1>7, MovesOn DEF Jump, Running
<1>8. CASE JumpAlways
  BY <1>3, <1>5, <1>7, <1>8 DEF JumpAlways, At
<1>9. CASE JumpIfZero
  <2>1. Op = "JMP_Z" /\ h - 1 \in Nat /\ sp' = Top.base + (h - 1)
    BY <1>3, <1>4, <1>9 DEF JumpIfZero, At, Drop
  <2>2. CASE Peek(0).bits = 0
    BY <1>5, <1>7, <1>9, <2>1, <2>2 DEF JumpIfZero
  <2>3. CASE Peek(0).bits # 0
    BY <1>5, <1>6, <1>7, <1>9, <2>1, <2>3 DEF JumpIfZero
  <2> QED
    BY <2>2, <2>3
<1>10. CASE ShortCircuit
  <2>1. Op \in {"OR", "AND"} /\ h - 1 \in Nat
    BY <1>3, <1>4, <1>10 DEF ShortCircuit, At
  <2>2. CASE (Op = "OR") = (Peek(0).bits # 0)
    BY <1>3, <1>5, <1>7, <1>10, <2>1, <2>2 DEF ShortCircuit
  <2>3. CASE (Op = "OR") # (Peek(0).bits # 0)
    <3>1. Jump(0) /\ sp' = Top.base + (h - 1)
      BY <1>3, <1>10, <2>3 DEF ShortCircuit, Advance, Drop
    <3> QED
      BY <1>5, <1>6, <1>7, <2>1, <3>1
  <2> QED
    BY <2>2, <2>3
<1> QED
  BY <1>8, <1>9, <1>10

\* CLOSURE pushes, and goes on behind the upvalues it lists.
LEMMA ClosureDivides ==
  ASSUME IInv, Closure
  PROVE  StackInv'
<1> DEFINE c == Operand(1)
           n == heap[c].count
           i == Top.ip + Width + UpvalueBytes * n
<1>1. InLoop /\ Readied /\ Op = "CLOSURE" /\ Running /\ Replace(0, ObjVal(c))
  BY DEF Closure, At, Silent
<1>2. c \in DOMAIN package.heap /\ c \in DOMAIN heap /\ n = package.heap[c].count
  BY <1>1, Heights, Addresses DEF IInv, StackInv, CountsKept
<1>3. i = Top.ip + 9 + UpvalueBytes * package.heap[c].count
  BY <1>1, <1>2 DEF Width, OperandBytes
<1>4. Comes(i, HeightAt(Top) + 1) /\ HeightAt(Top) + 1 \in Nat
  BY <1>1, <1>3, Heights, Here
<1>5. sp' = Top.base + (HeightAt(Top) + 1)
  BY <1>1, Here DEF Replace
<1>6. frames' = [frames EXCEPT ![Len(frames)].ip = i]
  BY DEF Closure, Jump
<1>7. CountsKept'
  <2> DEFINE again == [heap[c] EXCEPT !.next = objects, !.ups = Fresh]
             mid == [heap EXCEPT ![c] = again]
             block == NewObject("UPVALUES", 0, 0, [j \in 1..n |-> Captured(j - 1)])
  <2>1. heap' = Append(mid, block)
    BY DEF Closure
  <2>2. IsObject(heap[c])
    BY <1>2 DEF IInv, TypeOK, HeapOK, LinksOK
  <2>3. again.count = heap[c].count
    BY <2>2 DEF IsObject
  <2> HIDE DEF again, block
  <2>4. IsSequence(mid) /\ Len(mid) = Len(heap) /\ DOMAIN mid = 1..Len(heap)
    BY <1>2, Addresses, ExceptOfSeq
  <2>5. \A a \in 1..Len(heap) : mid[a].count = heap[a].count
    BY <2>3, Addresses
  <2> HIDE DEF mid
  <2>6. Len(heap') = Len(heap) + 1 /\ \A a \in 1..Len(heap) : heap'[a] = mid[a]
    BY <2>1, <2>4, AppendSeq
  <2>7. package' = package
    BY <1>1 DEF Running
  <2> QED
    BY <2>5, <2>6, <2>7, Addresses DEF IInv, StackInv, CountsKept
<1> HIDE DEF i
<1> QED
  BY <1>1, <1>4, <1>5, <1>6, <1>7, MovesOn DEF Running

-----------------------------------------------------------------------------
(* Calls and returns.                                                      *)

\* A call that takes the arguments it is given begins at their height, and its caller
\* will go on at the height behind the CALL.
LEMMA CallDivides ==
  ASSUME IInv, CalleesFit, CallFunction
  PROVE  StackInv'
<1> DEFINE h == HeightAt(Top)
           callee == Activation(Callee)
           moved == [Top EXCEPT !.ip = Top.ip + Width]
           n == Len(frames)
<1>1. At({"CALL"}) /\ InLoop /\ Readied /\ Op = "CALL" /\ Running /\ NoAlloc /\ sp' = sp - 1
  BY DEF CallFunction, At, NoAlloc, Silent, Drop
<1>2. /\ n \in Nat \ {0} /\ frames \in Seq(Frame) /\ Top \in Frame
      /\ h \in Nat /\ sp = Top.base + h /\ Top.base \in Nat
  BY <1>1, Here
<1>3. Argc \in Nat /\ Needs = 1 + Argc /\ LinksOK(Callee) /\ Callee.kind \in {"FUNCTION", "CLOSURE"}
  BY <1>1, CallReads, NeedsOf DEF IInv, Argc, CallFunction
<1>4. h - Argc \in Nat /\ h - Argc >= 1 /\ Comes(Top.ip + Width, h - Argc)
  <2>1. Comes(Top.ip + Width, h - Needs + 1) /\ Needs <= h
    BY <1>1, Heights DEF Consumers
  <2> QED
    BY <1>2, <1>3, <2>1
<1>5. /\ callee.chunk = Callee.code /\ callee.chunk \in DOMAIN package.chunks
      /\ callee.ip = 0 /\ callee.base = sp - 1 - Argc
  BY <1>3 DEF Activation, LinksOK
<1>6. HeightAt(callee) = Argc /\ Placed(callee) /\ LeavesOneCell(callee.chunk)
  <2>1. Height[program][Callee.code][0] = Argc /\ LeavesOneCell(Callee.code)
    BY <1>1, <1>3 DEF CalleesFit
  <2>2. package.chunks[callee.chunk] \in Seq(Cell)
    BY <1>5 DEF IInv, TypeOK, RestOK, IsPackage
  <2>3. HeightAt(callee) = Argc
    BY <1>5, <2>1 DEF HeightAt
  <2> HIDE DEF callee
  <2> QED
    BY <1>3, <1>5, <2>1, <2>2, <2>3 DEF Placed
<1>7. moved.chunk = Top.chunk /\ moved.base = Top.base /\ moved.ip = Top.ip + Width
  BY <1>2 DEF Frame
<1>8. HeightAt(moved) = h - Argc /\ Placed(moved)
  <2> HIDE DEF moved, h
  <2> QED
    BY <1>4, <1>7 DEF Comes, HeightAt, Placed, Code
<1>9. frames' = Append([frames EXCEPT ![n] = moved], callee)
  BY DEF CallFunction, Top
<1> HIDE DEF callee, moved, h
<1>10. /\ Len(frames') = n + 1 /\ frames'[n + 1] = callee /\ frames'[n] = moved
       /\ \A k \in 1..n - 1 : frames'[k] = frames[k]
  BY <1>2, <1>9
<1>11. UNCHANGED <<program, package, status, heap>>
  BY <1>1 DEF Running, NoAlloc
<1>12. FramesPlaced /\ StackIsDivided /\ status = "running"
  BY <1>1 DEF IInv, StackInv, InLoop
<1>13. FramesPlaced'
  <2>1. \A k \in 1..n + 1 : Placed(frames'[k])
    BY <1>2, <1>6, <1>8, <1>10, <1>12 DEF FramesPlaced
  <2>2. \A k \in 2..n + 1 : LeavesOneCell(frames'[k].chunk)
    BY <1>2, <1>6, <1>7, <1>10, <1>12 DEF FramesPlaced, Top
  <2>3. \A c : LeavesOneCell(c)' <=> LeavesOneCell(c)
    BY <1>11 DEF LeavesOneCell
  <2> QED
    BY <1>10, <1>11, <2>1, <2>2, <2>3 DEF FramesPlaced, Placed, HeightAt, LeavesOneCell
<1>14. StackIsDivided'
  <2>1. sp' = callee.base + HeightAt(callee)
    BY <1>1, <1>2, <1>3, <1>5, <1>6
  <2>2. callee.base + 1 = moved.base + HeightAt(moved)
    BY <1>2, <1>3, <1>5, <1>7, <1>8
  <2>3. ASSUME NEW k \in 1..n - 1
        PROVE  frames'[k + 1].base + 1 = frames'[k].base + HeightAt(frames'[k])
    <3>1. frames[k + 1].base + 1 = frames[k].base + HeightAt(frames[k])
      BY <1>12 DEF StackIsDivided
    <3>2. frames'[k] = frames[k] /\ frames'[k + 1].base = frames[k + 1].base
      BY <1>2, <1>7, <1>10 DEF Top
    <3> QED
      BY <3>1, <3>2
  <2>4. \A k \in 1..n : frames'[k + 1].base + 1 = frames'[k].base + HeightAt(frames'[k])
    BY <1>2, <1>10, <2>2, <2>3
  <2>5. Top' = callee
    BY <1>10 DEF Top
  <2> QED
    BY <1>10, <1>11, <2>1, <2>4, <2>5 DEF StackIsDivided, HeightAt
<1>15. Annotated' /\ CountsKept'
  BY <1>11, SameHeap DEF IInv, StackInv, Annotated
<1> QED
  BY <1>13, <1>14, <1>15 DEF StackInv

\* What is left when the innermost call is over.
LEMMA ShorterFrames ==
  ASSUME IInv, status = "running", Leave
  PROVE  /\ Len(frames) \in Nat \ {0} /\ Len(frames') = Len(frames) - 1
         /\ \A k \in 1..Len(frames) - 1 : frames'[k] = frames[k]
<1>1. frames \in Seq(Frame) /\ Len(frames) \in Nat \ {0}
  BY CurrentFrame DEF IInv, TypeOK, FramesOK
<1>2. frames' = SubSeq(frames, 1, Len(frames) - 1)
  BY DEF Leave
<1> HIDE DEF Frame
<1>3. Len(frames') = Len(frames) - 1
  BY ONLY <1>1, <1>2, ShortenedSeq
<1>4. \A k \in 1..Len(frames) - 1 : frames'[k] = frames[k]
  BY <1>1, <1>2
<1> QED
  BY <1>1, <1>3, <1>4

\* A call that is over has left one cell in the place of its arguments.
LEMMA LeaveDivides ==
  ASSUME IInv, status = "running", Leave, sp' = Top.base + 1
  PROVE  StackInv'
<1> DEFINE n == Len(frames)
<1>1. /\ n \in Nat \ {0} /\ Len(frames') = n - 1 /\ \A k \in 1..n - 1 : frames'[k] = frames[k]
  BY ShorterFrames
<1>2. UNCHANGED <<program, package, heap>> /\ (n = 1 => status' = "sweep")
  BY DEF Leave
<1>3. FramesPlaced /\ StackIsDivided
  BY DEF IInv, StackInv
<1>4. FramesPlaced'
  <2>1. \A k \in 1..n - 1 : Placed(frames[k])'
    <3> SUFFICES ASSUME NEW k \in 1..n - 1 PROVE Placed(frames[k])'
      OBVIOUS
    <3>1. Placed(frames[k]) /\ frames'[k] = frames[k]
      BY <1>1, <1>3 DEF FramesPlaced
    <3> QED
      BY <1>2, <3>1 DEF Placed, HeightAt
  <2>2. \A k \in 2..n - 1 : LeavesOneCell(frames[k].chunk)'
    BY <1>1, <1>2, <1>3 DEF FramesPlaced, LeavesOneCell
  <2> QED
    BY <1>1, <2>1, <2>2 DEF FramesPlaced
<1>5. n # 1 => StackIsDivided'
  <2> SUFFICES ASSUME n # 1 PROVE StackIsDivided'
    OBVIOUS
  <2>1. Top' = frames[n - 1]
    BY <1>1 DEF Top
  <2>2. frames[n].base + 1 = frames[n - 1].base + HeightAt(frames[n - 1])
    BY <1>1, <1>3 DEF StackIsDivided
  <2>3. sp' = Top'.base + HeightAt(Top)'
    BY <1>2, <2>1, <2>2 DEF Top, HeightAt
  <2>4. \A k \in 1..n - 2 : frames'[k + 1].base + 1 = frames'[k].base + HeightAt(frames[k])'
    BY <1>1, <1>2, <1>3 DEF StackIsDivided, HeightAt
  <2> QED
    BY <1>1, <2>3, <2>4 DEF StackIsDivided
<1>6. Annotated' /\ CountsKept'
  BY <1>2, SameHeap DEF IInv, StackInv, Annotated
<1> QED
  BY <1>2, <1>4, <1>5, <1>6 DEF StackInv

\* A run of main ends when its code does, whatever is left on the stack.
LEMMA MainLeaves ==
  ASSUME IInv, status = "running", Leave, Len(frames) = 1
  PROVE  StackInv'
<1>1. UNCHANGED <<program, package, heap>> /\ status' = "sweep"
  BY DEF Leave
<1> QED
  BY <1>1, SameHeap DEF IInv, StackInv, Annotated

\* Where the code of a function ends without a RETURN there is one cell.
LEMMA FallsOffAtOneCell ==
  ASSUME IInv, FallOff, Len(frames) # 1
  PROVE  sp' = Top.base + 1
<1>1. /\ status = "running" /\ Len(frames) \in Nat \ {0} /\ Top \in Frame
      /\ Code \in Seq(Cell) /\ Code = package.chunks[Top.chunk]
  BY CurrentFrame DEF IInv, Code, FallOff
<1>2. Placed(Top) /\ LeavesOneCell(Top.chunk) /\ sp = Top.base + HeightAt(Top)
  <2>1. \A m \in Nat \ {0} : m # 1 => m \in 1..m /\ m \in 2..m
    OBVIOUS
  <2>2. Len(frames) \in 1..Len(frames) /\ Len(frames) \in 2..Len(frames)
    BY <1>1, <2>1
  <2>3. FramesPlaced /\ StackIsDivided
    BY <1>1 DEF IInv, StackInv
  <2> QED
    BY <1>1, <2>2, <2>3 DEF FramesPlaced, StackIsDivided, Top
<1>3. Top.ip = Len(Code)
  BY <1>1, <1>2 DEF FallOff, Placed
<1>4. HeightAt(Top) = 1
  <2>1. HeightAt(Top) = Height[program][Top.chunk][Len(package.chunks[Top.chunk])]
    BY <1>1, <1>3 DEF HeightAt
  <2>2. HeightAt(Top) \in Nat /\ HeightAt(Top) \in {1, -1}
    BY <1>2, <2>1 DEF Placed, LeavesOneCell, Unreached
  <2> QED
    BY <2>2
<1> QED
  BY <1>2, <1>4 DEF FallOff

LEMMA ReturnsDivide ==
  ASSUME IInv, Return \/ FallOff
  PROVE  StackInv'
<1>1. status = "running" /\ Leave
  BY DEF Return, FallOff, At, InLoop
<1>2. CASE Return
  BY <1>1, <1>2, LeaveDivides DEF Return
<1>3. CASE FallOff /\ Len(frames) # 1
  BY <1>1, <1>3, FallsOffAtOneCell, LeaveDivides
<1>4. CASE FallOff /\ Len(frames) = 1
  BY <1>1, <1>4, MainLeaves
<1> QED
  BY <1>2, <1>3, <1>4

-----------------------------------------------------------------------------
(* Before, after and between the instructions.                             *)

LEMMA InitDivides ==
  ASSUME AllStacked, Init
  PROVE  StackInv
<1>1. Annotated
  BY DEF Init, AllStacked, Annotated
<1>2. IsPackage(package) /\ heap = package.heap
  BY EngineAssumption DEF Init
<1>3. CountsKept
  <2>1. Len(heap) \in Nat
    BY <1>2 DEF IsPackage, IsSequence
  <2> QED
    BY <1>2, <2>1 DEF CountsKept
<1>4. ASSUME status = "running" PROVE FramesPlaced /\ StackIsDivided
  <2> DEFINE first == [chunk |-> heap[package.main].code, ip |-> 0, base |-> 0, closed |-> 0]
  <2>1. package.main # 0 /\ frames = <<first>> /\ sp = 0
    BY <1>4 DEF Init
  <2>2. package.main \in DOMAIN package.heap /\ package.heap[package.main].kind = "FUNCTION"
    BY <1>2, <2>1 DEF IsPackage, IsSequence
  <2>3. first.chunk \in DOMAIN package.chunks /\ Len(package.chunks[first.chunk]) \in Nat
    <3>1. first.chunk = package.heap[package.main].code
      BY <1>2
    <3>2. package.heap[package.main].code \in DOMAIN package.chunks /\ package.chunks \in Seq(Seq(Cell))
      BY <1>2, <2>2 DEF IsPackage
    <3> HIDE DEF first
    <3> QED
      BY <3>1, <3>2
  <2>4. HeightAt(first) = 0
    BY <1>1, <1>2, <2>1 DEF Annotated, IsStacked, HeightAt
  <2>5. first.ip = 0 /\ first.base = 0
    OBVIOUS
  <2> HIDE DEF first
  <2>6. Len(frames) = 1 /\ frames[1] = first /\ Top = first
    BY <2>1 DEF Top
  <2>7. Placed(first)
    BY <2>3, <2>4, <2>5 DEF Placed
  <2>8. FramesPlaced
    BY <2>6, <2>7 DEF FramesPlaced
  <2>9. StackIsDivided
    BY <2>1, <2>4, <2>5, <2>6 DEF StackIsDivided
  <2> QED
    BY <2>8, <2>9
<1> QED
  BY <1>1, <1>3, <1>4 DEF StackInv

\* When the run is over, and while the sweep frees the objects, no call has cells.
LEMMA EndDivides ==
  ASSUME IInv, Failure \/ Sweep
  PROVE  StackInv'
<1>1. CASE Failure \/ DoubleFree \/ SweepEnds
  <2>1. PICK how \in Ended : End(how)
    BY <1>1 DEF Failure, StackOverflow, OutOfMemory, CStackOverflow, BadIndex, AssertFails, GoesWild,
                DoubleFree, SweepEnds, Ended
  <2>2. status' # "running" /\ UNCHANGED <<program, package, heap>>
    BY <2>1 DEF End, Ended
  <2> QED
    BY <2>2, SameHeap DEF IInv, StackInv, Annotated
<1>2. CASE FreeObject
  <2>1. PICK F : heap' = [a \in DOMAIN heap |-> IF a \in F THEN [heap[a] EXCEPT !.kind = "FREED"]
                                                          ELSE heap[a]]
    BY <1>2 DEF FreeObject
  <2>2. status' # "running" /\ UNCHANGED <<program, package>>
    BY <1>2 DEF FreeObject
  <2>3. TypeOK'
    BY <1>2, FreeObjectOK DEF IInv
  <2>4. DOMAIN heap' = DOMAIN heap /\ Len(heap') = Len(heap)
    <3>1. DOMAIN heap' = DOMAIN heap /\ IsSequence(heap') /\ IsSequence(heap)
      BY <2>1, <2>3 DEF IInv, TypeOK, HeapOK
    <3> QED
      BY <3>1 DEF IsSequence
  <2>5. \A a \in DOMAIN heap : heap'[a].count = heap[a].count
    <3> SUFFICES ASSUME NEW a \in DOMAIN heap PROVE heap'[a].count = heap[a].count
      OBVIOUS
    <3> DEFINE o == heap[a]
    <3>1. IsObject(o)
      BY DEF IInv, TypeOK, HeapOK, LinksOK
    <3>2. heap'[a] = o \/ heap'[a] = [o EXCEPT !.kind = "FREED"]
      BY <2>1
    <3> HIDE DEF o
    <3>3. [o EXCEPT !.kind = "FREED"].count = o.count
      BY <3>1 DEF IsObject
    <3>4. heap'[a].count = o.count
      BY <3>2, <3>3
    <3> QED
      BY <3>4 DEF o
  <2> QED
    BY <2>2, <2>4, <2>5, Addresses DEF IInv, StackInv, Annotated, CountsKept
<1> QED
  BY <1>1, <1>2 DEF Sweep

LEMMA NextDivides ==
  ASSUME IInv, CalleesFit, [Next]_vars
  PROVE  StackInv'
<1>1. CASE Instruction
  BY <1>1, PushersDivide, MakersDivide, ConsumersDivide, JumpsDivide, ClosureDivides, CallDivides,
     ReturnsDivide
  DEF Instruction
<1>2. CASE FallOff
  BY <1>2, ReturnsDivide
<1>3. CASE Failure \/ Sweep
  BY <1>3, EndDivides
<1>4. CASE UNCHANGED vars
  <2>1. UNCHANGED <<program, package, status, frames, sp, heap>>
    BY <1>4 DEF vars
  <2>2. FramesPlaced' <=> FramesPlaced
    BY <2>1 DEF FramesPlaced, Placed, HeightAt, LeavesOneCell
  <2>3. StackIsDivided' <=> StackIsDivided
    BY <2>1 DEF StackIsDivided, HeightAt, Top
  <2> QED
    BY <2>1, <2>2, <2>3, SameHeap DEF IInv, StackInv, Annotated
<1> QED
  BY <1>1, <1>2, <1>3, <1>4 DEF Next, Terminated

\* IInv is inductive where what is called takes the arguments it is given.
LEMMA Invariance ==
  ASSUME FloatsAreWords, AllStacked
  PROVE  Spec /\ []CalleesFit => []IInv
<1>1. Init => IInv
  BY InitOK, InitDivides DEF IInv
<1>2. IInv /\ CalleesFit /\ [Next]_vars => IInv'
  BY NextOK, NextDivides DEF IInv
<1> QED
  BY <1>1, <1>2, PTL DEF Spec

-----------------------------------------------------------------------------
(* The properties.                                                         *)

\* The instruction pops cells of its own call only, and names variables of it only.
LEMMA OwnCells == IInv => OwnCellsOnly
<1> SUFFICES ASSUME IInv, InLoop, CodeReadable PROVE OwnCellsOnly
  BY DEF OwnCellsOnly
<1>1. sp - Top.base = HeightAt(Top)
  BY Here
<1>2. ASSUME Op = "CLOSURE", ClosureReadable, NEW i \in 0..heap[Operand(1)].count - 1, CaptureLocal(i)
      PROVE  CaptureIndex(i) < HeightAt(Top)
  <2> DEFINE p == package.heap[Operand(1)]
  <2>1. Operand(1) \in DOMAIN package.heap /\ heap[Operand(1)].count = p.count
    BY <1>2, Heights, Addresses DEF IInv, StackInv, CountsKept
  <2>2. /\ Top.ip \in Nat /\ Code = package.chunks[Top.chunk]
        /\ HeightAt(Top) = Height[program][Top.chunk][Top.ip]
        /\ Keeps(Height[program], package, Top.chunk, Top.ip)
    BY Here
  <2>3. i \in Int /\ i \in 0..p.count - 1
    BY <1>2, <2>1
  <2>4. Op = Code[Top.ip + 1].op /\ Operand(1) = Code[Top.ip + 2].arg
    <3>1. Top.ip + 1 + 1 = Top.ip + 2
      BY <2>2
    <3> QED
      BY <3>1 DEF Op, Operand
  <2>5. /\ CaptureIndex(i) = ListedIndex(Code, Top.ip, i)
        /\ CaptureLocal(i) <=> ListsLocal(Code, Top.ip, i)
    <3>1. /\ Top.ip + 1 + (9 + 3 * i) = Top.ip + 10 + 3 * i
          /\ Top.ip + 1 + (9 + 3 * i + 2) = Top.ip + 10 + 3 * i + 2
      BY <2>2, <2>3
    <3> QED
      BY <3>1 DEF CaptureIndex, CaptureLocal, ListedIndex, ListsLocal, Operand, UpvalueBytes
  <2>6. ListsLocal(Code, Top.ip, i) => ListedIndex(Code, Top.ip, i) < HeightAt(Top)
    BY <1>2, <2>2, <2>3, <2>4 DEF Keeps
  <2> QED
    BY <1>2, <2>5, <2>6
<1> QED
  BY <1>1, <1>2, Heights DEF OwnCellsOnly

\* Which cell of the stack an instruction writes, if it writes one.
LEMMA WritesAbove ==
  ASSUME IInv, Instruction
  PROVE  stack' = stack \/ \E j \in Int : j >= Top.base /\ \E v : stack' = [stack EXCEPT ![j] = v]
<1>1. InLoop /\ Readied
  BY DEF Instruction, Constant, StringLiteral, ArrayLiteral, MapLiteral, Constructor, EmptyContainer,
         Closure, Unary, Binary, ShortCircuit, GetLocal, SetLocal, GetGlobal, GetUpvalue, SetUpvalue,
         IndexGet, IndexSet, StructGet, StructSet, JumpAlways, JumpIfZero, Pop, CallFunction,
         CallNative, Return, At
<1>2. /\ Top.base \in Nat /\ HeightAt(Top) \in Nat /\ sp = Top.base + HeightAt(Top)
      /\ Needs <= HeightAt(Top) /\ Needs \in Nat
  BY <1>1, Here, Heights, NeedsIsNat
<1>3. ASSUME NEW n, n = Needs, NEW v, Replace(n, v)
      PROVE  \E j \in Int : j >= Top.base /\ \E w : stack' = [stack EXCEPT ![j] = w]
  <2>1. sp - n \in Int /\ sp - n >= Top.base
    BY <1>2, <1>3
  <2> QED
    BY <1>3, <2>1 DEF Replace
<1>4. CASE Constant \/ GetLocal \/ GetGlobal \/ GetUpvalue \/ StringLiteral \/ EmptyContainer \/ Closure
  <2>1. PICK v : Replace(0, v)
    BY <1>4 DEF Constant, GetLocal, GetGlobal, GetUpvalue, StringLiteral, EmptyContainer, Closure
  <2>2. Needs = 0
    BY <1>4, NeedsOfMakers
    DEF Constant, GetLocal, GetGlobal, GetUpvalue, StringLiteral, EmptyContainer, Closure, At
  <2> QED
    BY <1>3, <2>1, <2>2
<1>5. CASE ArrayLiteral \/ Constructor \/ MapLiteral
  <2>1. PICK n, v : Replace(n, v) /\ n = Needs
    BY <1>5, NeedsOfMakers DEF ArrayLiteral, Constructor, MapLiteral, At
  <2> QED
    BY <1>3, <2>1
<1>6. CASE Unary \/ Binary \/ IndexGet \/ StructGet \/ CallNative
  <2>1. PICK n, v : Replace(n, v) /\ n = Needs
    BY <1>6, NeedsOf DEF Unary, Binary, IndexGet, StructGet, CallNative, Argc, At
  <2> QED
    BY <1>3, <2>1
<1>7. CASE SetLocal
  <2>1. Operand(1) \in Nat
    BY <1>1, <1>7, Unsigned DEF IInv, SetLocal, At
  <2>2. Slot(Operand(1)) \in Int /\ Slot(Operand(1)) >= Top.base
    BY <1>2, <2>1 DEF Slot
  <2> QED
    BY <1>7, <2>2 DEF SetLocal
<1>8. CASE Return
  <2>1. Top.base \in Int /\ Top.base >= Top.base
    BY <1>2
  <2> QED
    BY <1>8, <2>1 DEF Return
<1>9. CASE \/ ShortCircuit \/ SetUpvalue \/ IndexSet \/ StructSet \/ JumpAlways \/ JumpIfZero
           \/ Pop \/ CallFunction
  BY <1>9 DEF ShortCircuit, SetUpvalue, IndexSet, StructSet, JumpAlways, JumpIfZero, Pop, CallFunction, Drop
<1> QED
  BY <1>4, <1>5, <1>6, <1>7, <1>8, <1>9 DEF Instruction

\* Only a return makes the calls fewer.
LEMMA OnlyReturnsLeave ==
  ASSUME IInv, Instruction, ~Return
  PROVE  Len(frames) \in Nat /\ Len(frames') \in Nat /\ Len(frames') >= Len(frames)
<1>1. frames \in Seq(Frame) /\ Len(frames) \in Nat \ {0}
  <2>1. InLoop
    BY DEF Instruction, Constant, StringLiteral, ArrayLiteral, MapLiteral, Constructor, EmptyContainer,
           Closure, Unary, Binary, ShortCircuit, GetLocal, SetLocal, GetGlobal, GetUpvalue, SetUpvalue,
           IndexGet, IndexSet, StructGet, StructSet, JumpAlways, JumpIfZero, Pop, CallFunction,
           CallNative, Return, At
  <2> QED
    BY <2>1, Here
<1>2. ASSUME NEW d, Jump(d) PROVE Len(frames') = Len(frames)
  BY <1>1, <1>2 DEF Jump
<1>3. CASE CallFunction
  <2> DEFINE callee == Activation(Callee)
             moved == [Top EXCEPT !.ip = Top.ip + Width]
  <2>1. frames' = Append([frames EXCEPT ![Len(frames)] = moved], callee)
    BY <1>3 DEF CallFunction, Top
  <2> HIDE DEF callee, moved
  <2> QED
    BY <1>1, <2>1
<1>4. CASE ~CallFunction
  <2>1. \E d : Jump(d)
    BY <1>4 DEF Instruction, Constant, StringLiteral, ArrayLiteral, MapLiteral, Constructor, EmptyContainer,
           Closure, Unary, Binary, ShortCircuit, GetLocal, SetLocal, GetGlobal, GetUpvalue, SetUpvalue,
           IndexGet, IndexSet, StructGet, StructSet, JumpAlways, JumpIfZero, Pop, CallNative, Advance
  <2> QED
    BY <1>1, <1>2, <2>1
<1> QED
  BY <1>3, <1>4

\* A step leaves the cells below the running call alone.
LEMMA StepKeepsCallers ==
  ASSUME IInv, Next, status = "running", NEW i \in 0..Top.base - 1
  PROVE  stack'[i] = stack[i]
<1>1. CASE Instruction
  <2>1. i \in DOMAIN stack /\ i \in Int /\ Top.base \in Int
    BY CurrentFrame, StackTypes DEF IInv, TypeOK, StackOK, Frame
  <2> QED
    BY <1>1, <2>1, WritesAbove
<1>2. CASE ~Instruction
  BY <1>2 DEF Next, FallOff, Failure, StackOverflow, OutOfMemory, CStackOverflow, BadIndex, AssertFails,
              GoesWild, End, Sweep, FreeObject, DoubleFree, SweepEnds, Terminated, vars
<1> QED
  BY <1>1, <1>2

\* A step that ends a call leaves one cell more than there was below its arguments.
LEMMA StepLeavesOneCell ==
  ASSUME IInv, Next, Len(frames') < Len(frames), frames' # <<>>
  PROVE  sp' = Top.base + 1
<1>1. Return \/ FallOff
  <2>1. ~(Len(frames) < Len(frames))
    <3>1. Len(frames) \in Nat
      BY DEF IInv, TypeOK, FramesOK
    <3> QED
      BY <3>1
  <2>2. CASE Instruction
    BY <2>2, OnlyReturnsLeave
  <2>3. CASE Failure \/ Sweep \/ Terminated
    BY <2>1, <2>3
    DEF Failure, StackOverflow, OutOfMemory, CStackOverflow, BadIndex, AssertFails,
        GoesWild, End, Sweep, FreeObject, DoubleFree, SweepEnds, Terminated, vars
  <2> QED
    BY <2>2, <2>3 DEF Next
<1>2. CASE Return
  BY <1>2 DEF Return
<1>3. CASE FallOff
  <2>1. Len(frames) # 1
    <3>1. status = "running" /\ Leave
      BY <1>3 DEF FallOff
    <3>2. frames \in Seq(Frame) /\ Len(frames) \in Nat \ {0}
      BY <3>1, CurrentFrame DEF IInv, TypeOK, FramesOK
    <3>3. frames' = SubSeq(frames, 1, Len(frames) - 1)
      BY <3>1 DEF Leave
    <3> HIDE DEF Frame
    <3>4. Len(frames) = 1 => frames' = <<>>
      BY ONLY <3>2, <3>3
    <3> QED
      BY <3>4
  <2> QED
    BY <1>3, <2>1, FallsOffAtOneCell
<1> QED
  BY <1>1, <1>2, <1>3

\* For code with one height at every offset, whatever the sizes of the stack, of the C
\* stack and of memory: as long as calls give what they call the arguments it takes,
\* the cells of the calls follow each other on the stack without a gap and without an
\* overlap, and the innermost call has as many cells as its code says at its offset.
THEOREM CallsDivideTheStack ==
  ASSUME FloatsAreWords, AllStacked
  PROVE  Spec /\ []CalleesFit => []StackIsDivided
<1>1. IInv => StackIsDivided
  BY DEF IInv, StackInv, StackIsDivided
<1> QED
  BY <1>1, Invariance, PTL

\* Such code pops no cell of a caller, and its GET, SET and CLOSURE name variables in
\* cells its call has: the slots the validator counts are those the stack has.
THEOREM CodeUsesItsOwnCells ==
  ASSUME FloatsAreWords, AllStacked
  PROVE  Spec /\ []CalleesFit => []OwnCellsOnly
<1>1. IInv => OwnCellsOnly
  BY OwnCells
<1> QED
  BY <1>1, Invariance, PTL

\* No step of such code, a failing one included, writes a cell below the base of the
\* innermost call: the variables and the half-evaluated operands of the callers.
THEOREM CallersCellsStay ==
  ASSUME FloatsAreWords, AllStacked
  PROVE  Spec /\ []CalleesFit => CallersKeepTheirCells
<1>1. IInv /\ [Next]_vars =>
        [status = "running" => \A i \in 0..Top.base - 1 : stack'[i] = stack[i]]_vars
  BY StepKeepsCallers
<1> QED
  BY <1>1, Invariance, PTL DEF Spec, CallersKeepTheirCells

\* A call of such code that is over, by RETURN or at the end of its code, has replaced
\* its arguments by one cell.
THEOREM CallsAreWorthOneCell ==
  ASSUME FloatsAreWords, AllStacked
  PROVE  Spec /\ []CalleesFit => CallsLeaveOneCell
<1>1. IInv /\ [Next]_vars =>
        [Len(frames') < Len(frames) /\ frames' # <<>> => sp' = Top.base + 1]_vars
  BY StepLeavesOneCell
<1> QED
  BY <1>1, Invariance, PTL DEF Spec, CallsLeaveOneCell

-----------------------------------------------------------------------------
(* That the engine's one stack is a stack for every call: Engine, with the *)
(* stack cut at the bases of the frames, implements CallStacks.            *)
(*                                                                         *)
(* Every instruction has one of four shapes: it pops, it pops and pushes,  *)
(* it stores into a cell of the frame, or it begins or ends a call.  What  *)
(* a shape does to the last slice of the stack is what CallStacks says.    *)

(* Slices.                                                                 *)

\* Where a slice lies on the stack.
Lies(s, from, to) == /\ s \in [0..MaxStack - 1 -> Value]
                     /\ from \in Nat /\ to \in Nat /\ from <= to /\ to <= MaxStack

LEMMA SliceIs ==
  ASSUME NEW s, NEW from, NEW to, Lies(s, from, to)
  PROVE  /\ Slice(s, from, to) \in Seq(Value) /\ Len(Slice(s, from, to)) = to - from
         /\ DOMAIN Slice(s, from, to) = 1..to - from
         /\ \A i \in 1..to - from : Slice(s, from, to)[i] = s[from + i - 1]
<1>1. to - from \in Nat /\ MaxStack \in Nat
  BY EngineAssumption DEF Lies
<1>2. ASSUME NEW i \in 1..to - from PROVE s[from + i - 1] \in Value
  <2>1. from + i - 1 \in 0..MaxStack - 1
    BY <1>1 DEF Lies
  <2> QED
    BY <2>1 DEF Lies
<1> QED
  BY <1>1, <1>2 DEF Slice

Agree(s, t, from, to) == \A i \in from..to - 1 : s[i] = t[i]

\* A slice depends on its own cells only.
LEMMA SameSlice ==
  ASSUME NEW s, NEW t, NEW from \in Nat, NEW to \in Nat, Agree(s, t, from, to)
  PROVE  Slice(s, from, to) = Slice(t, from, to)
<1>1. ASSUME NEW i \in 1..to - from PROVE s[from + i - 1] = t[from + i - 1]
  <2>1. from + i - 1 \in from..to - 1
    OBVIOUS
  <2> QED
    BY <2>1 DEF Agree
<1> QED
  BY <1>1 DEF Slice

LEMMA PartOfSlice ==
  ASSUME NEW s, NEW from, NEW to, Lies(s, from, to), NEW a \in Nat, NEW b \in Nat,
         from <= a, a <= b, b <= to, NEW m \in Int, m = a - from + 1, NEW n \in Int, n = b - from
  PROVE  SubSeq(Slice(s, from, to), m, n) = Slice(s, a, b)
<1> DEFINE c == Slice(s, from, to)
<1>1. c \in Seq(Value) /\ Len(c) = to - from /\ \A i \in 1..to - from : c[i] = s[from + i - 1]
  BY SliceIs
<1>2. /\ from \in Nat /\ to \in Nat /\ m \in 1..Len(c) + 1 /\ n \in m - 1..Len(c) /\ n - m + 1 = b - a
  BY <1>1 DEF Lies
<1>3. ASSUME NEW i \in 1..b - a PROVE c[m + i - 1] = s[a + i - 1]
  <2>1. m + i - 1 \in 1..to - from /\ from + (m + i - 1) - 1 = a + i - 1
    BY <1>2
  <2> QED
    BY <1>1, <2>1
<1> HIDE DEF c
<1>4. SubSeq(c, m, n) = [i \in 1..n - m + 1 |-> c[m + i - 1]]
  BY ONLY <1>1, <1>2
<1> QED
  BY <1>2, <1>3, <1>4 DEF Slice, c

LEMMA StartOfSlice ==
  ASSUME NEW s, NEW from, NEW to, Lies(s, from, to), NEW b \in Nat, from <= b, b <= to
  PROVE  SubSeq(Slice(s, from, to), 1, b - from) = Slice(s, from, b)
<1> DEFINE n == b - from
<1>1. from \in Nat /\ from <= from /\ 1 = from - from + 1 /\ n \in Int /\ n = b - from
  BY DEF Lies
<1> HIDE DEF n
<1>2. SubSeq(Slice(s, from, to), 1, n) = Slice(s, from, b)
  BY <1>1, PartOfSlice
<1> QED
  BY <1>2 DEF n

LEMMA AppendIs ==
  ASSUME NEW S, NEW s \in Seq(S), NEW v
  PROVE  Append(s, v) = [k \in 1..Len(s) + 1 |-> IF k = Len(s) + 1 THEN v ELSE s[k]]
<1> DEFINE t == Append(s, v)
<1>1. s \in Seq(S \union {v}) /\ Len(s) \in Nat
  OBVIOUS
<1>2. t \in Seq(S \union {v}) /\ Len(t) = Len(s) + 1 /\ t[Len(s) + 1] = v /\ \A k \in 1..Len(s) : t[k] = s[k]
  BY <1>1
<1> HIDE DEF t
<1>3. t = [k \in 1..Len(s) + 1 |-> t[k]]
  BY <1>1, <1>2
<1>4. \A k \in 1..Len(s) + 1 : t[k] = IF k = Len(s) + 1 THEN v ELSE s[k]
  BY <1>1, <1>2
<1> QED
  BY <1>3, <1>4, Zenon DEF t

LEMMA LongerSlice ==
  ASSUME NEW s, NEW from, NEW to, Lies(s, from, to), to < MaxStack
  PROVE  Append(Slice(s, from, to), s[to]) = Slice(s, from, to + 1)
<1> DEFINE c == Slice(s, from, to)
           n == to - from
           v == s[to]
<1>1. c \in Seq(Value) /\ Len(c) = n /\ \A i \in 1..n : c[i] = s[from + i - 1]
  BY SliceIs
<1>2. n \in Nat /\ from \in Nat /\ to \in Nat /\ from + (n + 1) - 1 = to /\ (to + 1) - from = n + 1
  BY DEF Lies
<1> HIDE DEF c, n
<1>3. Append(c, v) = [i \in 1..n + 1 |-> IF i = n + 1 THEN v ELSE c[i]]
  BY <1>1, <1>2
<1>4. ASSUME NEW i \in 1..n + 1
      PROVE  (IF i = n + 1 THEN v ELSE c[i]) = s[from + i - 1]
  BY <1>1, <1>2
<1> QED
  BY <1>2, <1>3, <1>4 DEF Slice, c

-----------------------------------------------------------------------------
(* Where the cells of the calls lie.                                       *)

\* A call has not fewer cells below it than its caller.
BasesRise == status = "running" =>
               \A k, m \in 1..Len(frames) : k < m => frames[k].base <= frames[m].base

\* The inductive invariant.
CInv == IInv /\ BasesRise

LEMMA FramesLie ==
  ASSUME CInv, status = "running"
  PROVE  /\ Len(frames) \in Nat \ {0} /\ frames \in Seq(Frame)
         /\ Top = frames[Len(frames)] /\ Lies(stack, Top.base, sp)
         /\ \A k \in 1..Len(frames) : /\ frames[k].base \in Nat /\ CellsEnd(k) \in Nat
                                      /\ Lies(stack, frames[k].base, CellsEnd(k))
         /\ \A k \in 1..Len(frames) - 1 : CellsEnd(k) <= Top.base
<1>1. /\ Len(frames) \in Nat \ {0} /\ frames \in Seq(Frame) /\ Top = frames[Len(frames)]
      /\ sp \in Nat /\ sp <= MaxStack /\ MaxStack \in Nat /\ stack \in [0..MaxStack - 1 -> Value]
  BY CurrentFrame, StackTypes DEF CInv, IInv, TypeOK, FramesOK, StackOK, Top
<1>2. ASSUME NEW k \in 1..Len(frames) PROVE frames[k].base \in Nat /\ frames[k].base <= MaxStack
  <2>1. frames[k] \in Frame
    BY <1>1
  <2> QED
    BY <1>1, <2>1 DEF Frame
<1>3. Top.base <= sp
  <2>1. Placed(Top) /\ sp = Top.base + HeightAt(Top)
    BY <1>1 DEF CInv, IInv, StackInv, FramesPlaced, StackIsDivided
  <2> QED
    BY <1>1, <1>2, <2>1 DEF Placed
<1>4. \A k, m \in 1..Len(frames) : k < m => frames[k].base <= frames[m].base
  BY DEF CInv, BasesRise
<1>5. ASSUME NEW k \in 1..Len(frames)
      PROVE  CellsEnd(k) \in Nat /\ frames[k].base <= CellsEnd(k) /\ CellsEnd(k) <= MaxStack
  <2>1. CASE k = Len(frames)
    BY <1>1, <1>2, <1>3, <2>1 DEF CellsEnd
  <2>2. CASE k # Len(frames)
    <3>1. k + 1 \in 1..Len(frames) /\ k < k + 1
      BY <1>1, <2>2
    <3> QED
      BY <1>2, <1>4, <2>2, <3>1 DEF CellsEnd
  <2> QED
    BY <2>1, <2>2
<1>6. ASSUME NEW k \in 1..Len(frames) - 1 PROVE CellsEnd(k) <= Top.base
  <2>1. k + 1 \in 1..Len(frames) /\ k # Len(frames)
    BY <1>1
  <2>2. frames[k + 1].base <= Top.base
    BY <1>1, <1>2, <1>4, <2>1
  <2> QED
    BY <2>1, <2>2 DEF CellsEnd
<1>7. Lies(stack, Top.base, sp)
  BY <1>1, <1>2, <1>3 DEF Lies
<1>8. \A k \in 1..Len(frames) : Lies(stack, frames[k].base, CellsEnd(k))
  BY <1>1, <1>2, <1>5 DEF Lies
<1> QED
  BY <1>1, <1>2, <1>5, <1>6, <1>7, <1>8

\* The slices, as CallStacks calls them.
LEMMA CurrentCells ==
  ASSUME CInv, status = "running"
  PROVE  /\ Cells = [k \in 1..Len(frames) |-> CellsOf(k)] /\ Len(Cells) = Len(frames) /\ Cells # <<>>
         /\ Cells \in Seq(Seq(Value))
         /\ Own!Current = Slice(stack, Top.base, sp) /\ Len(Own!Current) = sp - Top.base
         /\ Own!Current \in Seq(Value)
         /\ Top.base \in Nat /\ sp \in Nat /\ Top.base <= sp
<1>1. Len(frames) \in Nat \ {0} /\ Top = frames[Len(frames)] /\ Lies(stack, Top.base, sp)
  BY FramesLie
<1>2. Cells = [k \in 1..Len(frames) |-> CellsOf(k)]
  BY DEF Cells
<1>3. Len(Cells) = Len(frames)
  BY <1>1, <1>2
<1>4. Cells[Len(frames)] = Slice(stack, Top.base, sp)
  BY <1>1, <1>2 DEF CellsOf, CellsEnd
<1>5. Cells # <<>>
  BY <1>1, <1>3
<1>6. \A k \in 1..Len(frames) : CellsOf(k) \in Seq(Value)
  BY FramesLie, SliceIs DEF CellsOf
<1>7. Cells \in Seq(Seq(Value))
  BY <1>1, <1>2, <1>6
<1>8. Own!Current = Slice(stack, Top.base, sp)
  BY <1>3, <1>4 DEF Own!Current
<1>9. Slice(stack, Top.base, sp) \in Seq(Value) /\ Len(Slice(stack, Top.base, sp)) = sp - Top.base
  BY <1>1, SliceIs
<1>10. Top.base \in Nat /\ sp \in Nat /\ Top.base <= sp
  BY <1>1 DEF Lies
<1> QED
  BY <1>2, <1>3, <1>5, <1>7, <1>8, <1>9, <1>10

-----------------------------------------------------------------------------
(* The shapes.                                                             *)

\* The frames stay where they are, and nothing below the last is written.
Stays == /\ status = "running" /\ status' = "running" /\ StackOK'
         /\ Len(frames') = Len(frames)
         /\ \A k \in 1..Len(frames) : frames'[k].base = frames[k].base
         /\ Top.base <= sp'
         /\ \A i \in 0..Top.base - 1 : stack'[i] = stack[i]

\* Then only the last slice changes.
LEMMA LastSliceChanges ==
  ASSUME CInv, Stays
  PROVE  /\ Own!Becomes(Slice(stack', Top.base, sp'))
         /\ Lies(stack', Top.base, sp')
         /\ Len(Cells') = Len(Cells) /\ Own!Current' = Slice(stack', Top.base, sp')
<1> DEFINE n == Len(frames)
           new == Cells'
<1>1. /\ n \in Nat \ {0} /\ Top.base = frames[n].base /\ Top.base \in Nat
      /\ Cells = [k \in 1..n |-> CellsOf(k)] /\ Len(Cells) = n
  BY FramesLie, CurrentCells DEF Stays
<1>2. new = [k \in 1..n |-> Slice(stack', frames'[k].base, CellsEnd(k)')]
  BY DEF Stays, Cells, CellsOf
<1>3. new[n] = Slice(stack', Top.base, sp')
  BY <1>1, <1>2 DEF CellsEnd, Stays
<1>4. ASSUME NEW k \in 1..n - 1 PROVE new[k] = Cells[k]
  <2>1. /\ k \in 1..n /\ k + 1 \in 1..n /\ k # n
        /\ frames[k].base \in Nat /\ CellsEnd(k) \in Nat /\ CellsEnd(k) <= Top.base
    BY <1>1, FramesLie DEF Stays
  <2>2. frames'[k].base = frames[k].base /\ CellsEnd(k)' = CellsEnd(k)
    BY <1>1, <2>1 DEF CellsEnd, Stays
  <2>3. Agree(stack', stack, frames[k].base, CellsEnd(k))
    BY <1>1, <2>1 DEF Stays, Agree
  <2>4. Slice(stack', frames[k].base, CellsEnd(k)) = Slice(stack, frames[k].base, CellsEnd(k))
    BY <2>1, <2>3, SameSlice
  <2>5. new[k] = Slice(stack', frames[k].base, CellsEnd(k))
    BY <1>2, <2>1, <2>2
  <2>6. Cells[k] = Slice(stack, frames[k].base, CellsEnd(k))
    BY <1>1, <2>1 DEF CellsOf
  <2> QED
    BY <2>4, <2>5, <2>6
<1>5. /\ DOMAIN new = 1..n /\ Len(new) = n /\ new = [k \in 1..n |-> new[k]]
      /\ DOMAIN Cells = 1..n /\ Cells = [k \in 1..n |-> Cells[k]]
  BY <1>1, <1>2
<1> HIDE DEF n, new
<1>6. new = [Cells EXCEPT ![n] = Slice(stack', Top.base, sp')]
  <2> DEFINE last == Slice(stack', Top.base, sp')
  <2>1. \A k \in 1..n : new[k] = IF k = n THEN last ELSE Cells[k]
    BY <1>1, <1>3, <1>4
  <2> HIDE DEF last
  <2>2. new = [k \in 1..n |-> IF k = n THEN last ELSE Cells[k]]
    BY <1>5, <2>1, Zenon
  <2>3. [Cells EXCEPT ![n] = last] = [k \in 1..n |-> IF k = n THEN last ELSE Cells[k]]
    BY <1>1, <1>5
  <2> QED
    BY <2>2, <2>3 DEF last
<1>7. Lies(stack', Top.base, sp')
  BY <1>1, EngineAssumption DEF Stays, StackOK, Lies
<1> QED
  BY <1>1, <1>3, <1>5, <1>6, <1>7 DEF Own!Becomes, Own!Current, new

LEMMA CellsBelow ==
  ASSUME CInv, status = "running", NEW n \in Nat, n <= sp - Top.base, NEW top, top = sp - n
  PROVE  /\ Own!Below(n) = Slice(stack, Top.base, top)
         /\ top \in Nat /\ Top.base <= top /\ top <= sp /\ Lies(stack, Top.base, top)
<1>1. /\ Own!Current = Slice(stack, Top.base, sp) /\ Len(Own!Current) = sp - Top.base
      /\ Lies(stack, Top.base, sp) /\ Top.base \in Nat /\ sp \in Nat
  BY CurrentCells, FramesLie
<1>2. top \in Nat /\ Top.base <= top /\ top <= sp
  BY <1>1
<1>3. SubSeq(Slice(stack, Top.base, sp), 1, top - Top.base) = Slice(stack, Top.base, top)
  BY <1>1, <1>2, StartOfSlice
<1>4. Len(Own!Current) - n = top - Top.base
  BY <1>1
<1>5. Lies(stack, Top.base, top)
  BY <1>1, <1>2, StackTypes DEF Lies, CInv, IInv
<1> QED
  BY <1>1, <1>2, <1>3, <1>4, <1>5 DEF Own!Below

LEMMA PoppedCells ==
  ASSUME CInv, Stays, NEW n \in Nat, n <= sp - Top.base, Drop(n)
  PROVE  Own!Pop
<1>1. /\ Own!Becomes(Slice(stack, Top.base, sp')) /\ Len(Own!Current) = sp - Top.base
      /\ Top.base \in Nat /\ sp \in Nat /\ sp' = sp - n
  BY LastSliceChanges, CurrentCells DEF Stays, Drop
<1>2. Own!Below(n) = Slice(stack, Top.base, sp')
  BY <1>1, CellsBelow DEF Stays
<1>3. n \in 0..Len(Own!Current)
  BY <1>1
<1> QED
  BY <1>1, <1>2, <1>3 DEF Own!Pop

LEMMA PushedCell ==
  ASSUME CInv, Stays, NEW n \in Nat, n <= sp - Top.base, NEW v, Replace(n, v)
  PROVE  Own!Push
<1> DEFINE top == sp - n
           new == Slice(stack', Top.base, sp')
<1>1. /\ Own!Becomes(new) /\ Lies(stack', Top.base, sp')
      /\ Len(Cells') = Len(Cells) /\ Own!Current' = new
  BY LastSliceChanges
<1>2. /\ top \in Nat /\ Top.base <= top /\ top <= sp /\ Top.base \in Nat /\ sp \in Nat
      /\ Own!Below(n) = Slice(stack, Top.base, top) /\ n \in 0..Len(Own!Current)
  BY CurrentCells, CellsBelow DEF Stays
<1>3. top < MaxStack /\ sp' = top + 1 /\ stack' = [stack EXCEPT ![top] = v]
  BY DEF Replace
<1> HIDE DEF top
<1>4. Slice(stack, Top.base, top) = Slice(stack', Top.base, top)
  <2>1. Agree(stack, stack', Top.base, top)
    BY <1>2, <1>3 DEF Agree
  <2> QED
    BY <1>2, <2>1, SameSlice
<1>5. Append(Slice(stack', Top.base, top), stack'[top]) = new
  <2>1. Lies(stack', Top.base, top)
    BY <1>1, <1>2, <1>3, EngineAssumption DEF Lies
  <2> QED
    BY <1>3, <2>1, LongerSlice
<1>6. new # <<>> /\ new[Len(new)] = stack'[top]
  <2>1. Len(new) = sp' - Top.base /\ \A i \in 1..sp' - Top.base : new[i] = stack'[Top.base + i - 1]
    BY <1>1, SliceIs
  <2>2. sp' - Top.base \in 1..sp' - Top.base /\ Top.base + (sp' - Top.base) - 1 = top
    BY <1>2, <1>3
  <2> HIDE DEF new
  <2> QED
    BY <2>1, <2>2
<1> HIDE DEF new
<1>7. Own!Current' # <<>> /\ Own!Newest' = stack'[top]
  BY <1>1, <1>6 DEF Own!Newest
<1> QED
  BY <1>1, <1>2, <1>4, <1>5, <1>7 DEF Own!Push

\* The newest cell of the last slice.
LEMMA NewestCell ==
  ASSUME CInv, status = "running", Top.base < sp
  PROVE  /\ Own!Newest = stack[sp - 1] /\ Own!Current # <<>>
         /\ Peek(0) = stack[sp - 1]
<1> DEFINE cells == Slice(stack, Top.base, sp)
<1>1. /\ Own!Current = cells /\ Len(cells) = sp - Top.base
      /\ Top.base \in Nat /\ sp \in Nat
  BY CurrentCells
<1>2. \A i \in 1..sp - Top.base : cells[i] = stack[Top.base + i - 1]
  BY FramesLie, SliceIs
<1>3. sp - Top.base \in 1..sp - Top.base /\ Top.base + (sp - Top.base) - 1 = sp - 1 /\ sp - 1 - 0 = sp - 1
  BY <1>1
<1> HIDE DEF cells
<1> QED
  BY <1>1, <1>2, <1>3 DEF Own!Newest, Peek

LEMMA StoredCell ==
  ASSUME CInv, Stays, NEW i \in Nat, i < sp - Top.base - 1,
         stack' = [stack EXCEPT ![Slot(i)] = Peek(0)], sp' = sp - 1
  PROVE  Own!Store
<1> DEFINE new == Slice(stack', Top.base, sp')
           old == Slice(stack, Top.base, sp')
           v == stack[sp - 1]
<1>1. /\ Own!Becomes(new) /\ Lies(stack', Top.base, sp')
      /\ Top.base \in Nat /\ sp \in Nat /\ sp' \in Nat /\ Lies(stack, Top.base, sp')
      /\ Own!Below(1) = old /\ i + 1 \in 1..Len(Own!Current) - 1
  <2>1. status = "running" /\ Own!Becomes(new) /\ Lies(stack', Top.base, sp')
    BY LastSliceChanges DEF Stays
  <2>2. Top.base \in Nat /\ sp \in Nat /\ Len(Own!Current) = sp - Top.base
    BY <2>1, CurrentCells
  <2>3. 1 \in Nat /\ 1 <= sp - Top.base /\ i + 1 \in 1..Len(Own!Current) - 1
    BY <2>2
  <2>4. Own!Below(1) = old /\ sp' \in Nat /\ Lies(stack, Top.base, sp')
    BY <2>1, <2>3, CellsBelow
  <2> QED
    BY <2>1, <2>2, <2>3, <2>4
<1>2. Own!Newest = v /\ Peek(0) = v
  BY <1>1, NewestCell DEF Stays
<1>3. Slot(i) = Top.base + i /\ Slot(i) \in DOMAIN stack
  BY <1>1 DEF Slot, Lies
<1>4. ASSUME NEW j \in 1..sp' - Top.base
      PROVE  stack'[Top.base + j - 1] = IF j = i + 1 THEN v ELSE stack[Top.base + j - 1]
  <2>1. Top.base + j - 1 \in 0..MaxStack - 1 /\ DOMAIN stack = 0..MaxStack - 1
    BY SMTT(30), <1>1, EngineAssumption DEF Lies
  <2>2. Top.base + j - 1 = Top.base + i <=> j = i + 1
    BY <1>1
  <2> QED
    BY <1>2, <1>3, <2>1, <2>2
<1>5. /\ new = [j \in 1..sp' - Top.base |-> stack'[Top.base + j - 1]]
      /\ old = [j \in 1..sp' - Top.base |-> stack[Top.base + j - 1]]
  BY DEF Slice
<1>6. new = [old EXCEPT ![i + 1] = v]
  <2> HIDE DEF new, old, v
  <2> QED
    BY <1>4, <1>5
<1> HIDE DEF new, old, v
<1> QED
  BY <1>1, <1>2, <1>6 DEF Own!Store

-----------------------------------------------------------------------------
(* Instructions that stay in their call.                                   *)

LEMMA JumpsStay ==
  ASSUME CInv, IInv', Instruction, status = "running", status' = status, NEW d, Jump(d)
  PROVE  Stays
<1>1. Len(frames) \in Nat \ {0} /\ frames \in Seq(Frame) /\ Top = frames[Len(frames)]
  BY FramesLie
<1> DEFINE moved == [Top EXCEPT !.ip = Top.ip + Width + d]
<1>2. moved.base = Top.base
  BY <1>1, CurrentFrame DEF Frame, CInv, IInv
<1>3. frames' = [frames EXCEPT ![Len(frames)] = moved]
  BY DEF Jump, Top
<1> HIDE DEF moved
<1>4. Len(frames') = Len(frames) /\ \A k \in 1..Len(frames) : frames'[k].base = frames[k].base
  BY <1>1, <1>2, <1>3
<1>5. StackOK'
  BY DEF IInv, TypeOK
<1>6. Top.base <= sp'
  <2>1. Placed(Top)' /\ sp' = Top'.base + HeightAt(Top)'
    <3>1. FramesPlaced' /\ StackIsDivided'
      BY DEF IInv, StackInv
    <3>2. Len(frames') \in 1..Len(frames') /\ Top' = frames'[Len(frames')]
      BY <1>1, <1>4 DEF Top
    <3> QED
      BY <3>1, <3>2 DEF FramesPlaced, StackIsDivided, Placed, HeightAt
  <2>2. Top'.base = Top.base
    BY <1>1, <1>4 DEF Top
  <2> QED
    BY <1>1, <2>1, <2>2, FramesLie DEF Placed, Lies
<1>7. \A i \in 0..Top.base - 1 : stack'[i] = stack[i]
  BY StepKeepsCallers DEF CInv, Next
<1> QED
  BY <1>4, <1>5, <1>6, <1>7 DEF Stays

\* How an instruction that pushes what it finds, computes or makes moves on.
LEMMA PushersPush ==
  ASSUME CInv, IInv',
         \/ Constant \/ StringLiteral \/ ArrayLiteral \/ MapLiteral \/ Constructor \/ EmptyContainer
         \/ Closure \/ Unary \/ Binary \/ GetLocal \/ GetGlobal \/ GetUpvalue \/ IndexGet \/ StructGet
         \/ CallNative
  PROVE  Own!Push
<1>1. Instruction /\ InLoop /\ Readied /\ Running
  BY DEF Instruction, Constant, StringLiteral, ArrayLiteral, MapLiteral, Constructor, EmptyContainer,
         Closure, Unary, Binary, GetLocal, GetGlobal, GetUpvalue, IndexGet, StructGet, CallNative, At,
         NoAlloc, Silent
<1>2. \E d : Jump(d)
  BY DEF Constant, StringLiteral, ArrayLiteral, MapLiteral, Constructor, EmptyContainer,
         Closure, Unary, Binary, GetLocal, GetGlobal, GetUpvalue, IndexGet, StructGet, CallNative, Advance
<1>3. Stays
  BY <1>1, <1>2, JumpsStay DEF InLoop, Running
<1>4. Needs \in Nat /\ Needs <= sp - Top.base
  <2>1. Needs \in Nat /\ Needs <= HeightAt(Top)
    BY <1>1, NeedsIsNat, Heights DEF CInv
  <2>2. sp = Top.base + HeightAt(Top) /\ HeightAt(Top) \in Nat /\ Top.base \in Nat
    BY <1>1, Here DEF CInv
  <2> QED
    BY <2>1, <2>2
<1>5. \E n, v : Replace(n, v) /\ n = Needs
  <2>1. CASE Constant \/ GetLocal \/ GetGlobal \/ GetUpvalue \/ StringLiteral \/ EmptyContainer \/ Closure
    BY <2>1, NeedsOfMakers
    DEF Constant, GetLocal, GetGlobal, GetUpvalue, StringLiteral, EmptyContainer, Closure, At
  <2>2. CASE ArrayLiteral \/ Constructor \/ MapLiteral
    BY <2>2, NeedsOfMakers DEF ArrayLiteral, Constructor, MapLiteral, At
  <2>3. CASE Unary \/ Binary \/ IndexGet \/ StructGet \/ CallNative
    BY <2>3, NeedsOf DEF Unary, Binary, IndexGet, StructGet, CallNative, Argc, At
  <2> QED
    BY <2>1, <2>2, <2>3
<1> QED
  BY <1>3, <1>4, <1>5, PushedCell

\* Jumps, stores into objects, and the pops.
LEMMA PoppersPop ==
  ASSUME CInv, IInv',
         SetUpvalue \/ IndexSet \/ StructSet \/ Pop \/ JumpAlways \/ JumpIfZero \/ ShortCircuit
  PROVE  Own!Pop
<1>1. Instruction /\ InLoop /\ Readied /\ Running
  BY DEF Instruction, SetUpvalue, IndexSet, StructSet, Pop, JumpAlways, JumpIfZero, ShortCircuit, At,
         NoAlloc, Silent
<1>2. \E d : Jump(d)
  BY DEF SetUpvalue, IndexSet, StructSet, Pop, JumpAlways, JumpIfZero, ShortCircuit, Advance
<1>3. Stays
  BY <1>1, <1>2, JumpsStay DEF InLoop, Running
<1>4. /\ Needs \in Nat /\ Needs <= sp - Top.base
      /\ sp \in Nat /\ Top.base \in Nat /\ Top.base <= sp
  <2>1. Needs \in Nat /\ Needs <= HeightAt(Top)
    BY <1>1, NeedsIsNat, Heights DEF CInv
  <2>2. sp = Top.base + HeightAt(Top) /\ HeightAt(Top) \in Nat /\ Top.base \in Nat
    BY <1>1, Here DEF CInv
  <2> QED
    BY <2>1, <2>2
<1>5. CASE SetUpvalue \/ IndexSet \/ StructSet \/ Pop \/ JumpIfZero
  <2>1. Drop(Needs)
    BY <1>5, NeedsOf DEF SetUpvalue, IndexSet, StructSet, Pop, JumpIfZero, At
  <2> QED
    BY <1>3, <1>4, <2>1, PoppedCells
<1>6. CASE JumpAlways \/ ShortCircuit
  <2>1. Drop(0) \/ (Drop(1) /\ Needs = 1)
    <3>1. sp - 0 = sp
      BY <1>4
    <3> QED
      BY <1>6, <3>1, NeedsOf DEF JumpAlways, ShortCircuit, Drop, At
  <2>2. 0 \in Nat /\ 0 <= sp - Top.base
    BY <1>4
  <2> QED
    BY <1>3, <1>4, <2>1, <2>2, PoppedCells
<1> QED
  BY <1>5, <1>6

LEMMA SetStores ==
  ASSUME CInv, IInv', SetLocal
  PROVE  Own!Store
<1>1. Instruction /\ InLoop /\ Readied /\ Running /\ Op = "SET"
  BY DEF Instruction, SetLocal, At, NoAlloc, Silent
<1>2. Stays
  BY <1>1, JumpsStay DEF InLoop, Running, SetLocal, Advance
<1>3. Operand(1) \in Nat /\ Operand(1) < sp - Top.base - 1
  <2>1. Operand(1) \in Nat /\ Operand(1) < HeightAt(Top) - 1
    BY <1>1, Unsigned, Heights DEF CInv, IInv
  <2>2. sp = Top.base + HeightAt(Top) /\ HeightAt(Top) \in Nat /\ Top.base \in Nat
    BY <1>1, Here DEF CInv
  <2> QED
    BY <2>1, <2>2
<1> QED
  BY <1>2, <1>3, StoredCell DEF SetLocal

-----------------------------------------------------------------------------
(* Instructions that begin and end a call.                                 *)

\* The frames of a call and of its callee, as they are when it begins.
LEMMA CallBegins ==
  ASSUME CInv, CallFunction
  PROVE  /\ status = "running" /\ status' = "running" /\ stack' = stack /\ sp' = sp - 1
         /\ Argc \in Nat /\ Top.base <= sp - 1 - Argc
         /\ Len(frames') = Len(frames) + 1 /\ frames'[Len(frames) + 1].base = sp - 1 - Argc
         /\ \A k \in 1..Len(frames) : frames'[k].base = frames[k].base
<1> DEFINE callee == Activation(Callee)
           moved == [Top EXCEPT !.ip = Top.ip + Width]
<1>1. InLoop /\ Readied /\ Op = "CALL" /\ Running /\ Drop(1)
  BY DEF CallFunction, At, NoAlloc, Silent
<1>2. Argc \in Nat /\ Needs = 1 + Argc
  BY <1>1, Unsigned, NeedsOf DEF CInv, IInv, Argc
<1>3. Top.base <= sp - 1 - Argc
  <2>1. Needs <= HeightAt(Top)
    BY <1>1, Heights DEF CInv
  <2>2. sp = Top.base + HeightAt(Top) /\ HeightAt(Top) \in Nat /\ Top.base \in Nat
    BY <1>1, Here DEF CInv
  <2> QED
    BY <1>2, <2>1, <2>2
<1>4. callee.base = sp - 1 - Argc
  BY DEF Activation
<1>5. Len(frames) \in Nat \ {0} /\ frames \in Seq(Frame) /\ Top = frames[Len(frames)] /\ Top \in Frame
  BY <1>1, FramesLie, Here DEF CInv, InLoop
<1>6. moved.base = Top.base
  BY <1>5 DEF Frame
<1>7. frames' = Append([frames EXCEPT ![Len(frames)] = moved], callee)
  BY DEF CallFunction, Top
<1> HIDE DEF callee, moved
<1>8. /\ Len(frames') = Len(frames) + 1 /\ frames'[Len(frames) + 1] = callee
      /\ \A k \in 1..Len(frames) : frames'[k].base = frames[k].base
  BY <1>5, <1>6, <1>7
<1> QED
  BY <1>1, <1>2, <1>3, <1>4, <1>8 DEF InLoop, Running, Drop

LEMMA CallsCall ==
  ASSUME CInv, CallFunction
  PROVE  Own!Call
<1> DEFINE base == sp - 1 - Argc
           top == sp - 1
           new == Cells'
           args == Slice(stack, base, top)
           rest == Slice(stack, Top.base, base)
<1>0. PICK n : n = Len(frames)
  OBVIOUS
<1>1. status = "running" /\ status' = "running" /\ stack' = stack /\ sp' = top
  BY CallBegins
<1>2. /\ Len(frames') = n + 1 /\ frames'[n + 1].base = base
      /\ \A k \in 1..n : frames'[k].base = frames[k].base
  BY <1>0, CallBegins
<1>3. n \in Nat \ {0} /\ Top.base = frames[n].base
  BY <1>0, <1>1, FramesLie
<1>4. /\ Cells = [k \in 1..n |-> CellsOf(k)] /\ Len(Cells) = n /\ Cells \in Seq(Seq(Value))
      /\ Own!Current = Slice(stack, Top.base, sp) /\ Len(Own!Current) = sp - Top.base
      /\ Lies(stack, Top.base, sp)
  BY <1>0, <1>1, FramesLie, CurrentCells
<1>5. /\ Argc \in Nat /\ sp \in Nat /\ Top.base \in Nat
      /\ base \in Nat /\ top \in Nat /\ Top.base <= base /\ base <= top /\ top <= sp
      /\ base = sp - (Argc + 1) /\ Argc + 1 <= sp - Top.base
  <2>1. Argc \in Nat /\ Top.base <= sp - 1 - Argc /\ Top.base \in Nat /\ sp \in Nat
    BY <1>1, CallBegins, CurrentCells
  <2> QED
    BY <2>1
<1>6. Len(Own!Current) - Argc = base - Top.base + 1 /\ Len(Own!Current) - 1 = top - Top.base
  BY <1>4, <1>5
<1> HIDE DEF base, top
<1>7. Own!Below(Argc + 1) = rest /\ Lies(stack, Top.base, base)
  BY <1>1, <1>5, CellsBelow
<1>8. SubSeq(Own!Current, Len(Own!Current) - Argc, Len(Own!Current) - 1) = args
  <2> DEFINE m == Len(Own!Current) - Argc
             k == Len(Own!Current) - 1
  <2>1. m \in Int /\ m = base - Top.base + 1 /\ k \in Int /\ k = top - Top.base
    BY <1>5, <1>6
  <2> HIDE DEF m, k, args
  <2>2. /\ Lies(stack, Top.base, sp) /\ base \in Nat /\ top \in Nat
        /\ Top.base <= base /\ base <= top /\ top <= sp
    BY <1>4, <1>5
  <2>3. SubSeq(Slice(stack, Top.base, sp), m, k) = Slice(stack, base, top)
    BY ONLY <2>1, <2>2, PartOfSlice
  <2> QED
    BY <1>4, <2>3 DEF m, k, args
<1>9. rest \in Seq(Value) /\ args \in Seq(Value)
  <2>1. Lies(stack, base, top)
    BY <1>4, <1>5, EngineAssumption DEF Lies
  <2> QED
    BY <1>7, <2>1, SliceIs
<1>10. new = [k \in 1..n + 1 |-> Slice(stack, frames'[k].base, CellsEnd(k)')]
  BY <1>1, <1>2 DEF Cells, CellsOf
<1>11. new[n + 1] = args /\ new[n] = rest
  <2>1. n \in 1..n /\ n \in 1..n + 1 /\ n + 1 \in 1..n + 1 /\ n # n + 1
    BY <1>3
  <2>2. CellsEnd(n)' = frames'[n + 1].base /\ CellsEnd(n + 1)' = sp'
    BY <1>2, <1>3, <2>1 DEF CellsEnd
  <2>3. frames'[n].base = Top.base /\ frames'[n + 1].base = base
    BY <1>2, <1>3, <2>1
  <2> QED
    BY <1>1, <1>2, <1>10, <2>1, <2>2, <2>3
<1>12. ASSUME NEW k \in 1..n, k # n PROVE new[k] = Cells[k]
  <2>1. k + 1 \in 1..n /\ k # n + 1 /\ k \in 1..n + 1
    BY <1>3, <1>12
  <2>2. frames'[k].base = frames[k].base /\ frames'[k + 1].base = frames[k + 1].base
    BY <1>2, <2>1
  <2>3. CellsEnd(k)' = frames'[k + 1].base /\ CellsEnd(k) = frames[k + 1].base
    BY <1>0, <1>2, <1>12, <2>1 DEF CellsEnd
  <2>4. Cells[k] = Slice(stack, frames[k].base, CellsEnd(k))
    BY <1>4 DEF CellsOf
  <2> QED
    BY <1>10, <2>1, <2>2, <2>3, <2>4
<1>13. DOMAIN new = 1..n + 1 /\ new = [k \in 1..n + 1 |-> new[k]]
  BY <1>10
<1> HIDE DEF new, args, rest
<1>14. new = Append([Cells EXCEPT ![n] = rest], args)
  <2> DEFINE old == [Cells EXCEPT ![n] = rest]
  <2>1. /\ old \in Seq(Seq(Value)) /\ Len(old) = n
        /\ \A k \in 1..n : old[k] = IF k = n THEN rest ELSE Cells[k]
    BY <1>3, <1>4, <1>9
  <2> HIDE DEF old
  <2>2. Append(old, args) = [k \in 1..n + 1 |-> IF k = n + 1 THEN args ELSE old[k]]
    BY <2>1, AppendIs
  <2>3. ASSUME NEW k \in 1..n + 1 PROVE new[k] = IF k = n + 1 THEN args ELSE old[k]
    <3>1. k = n + 1 \/ k \in 1..n
      BY <1>3
    <3> QED
      BY <1>11, <1>12, <2>1, <3>1
  <2>4. new = [k \in 1..n + 1 |-> IF k = n + 1 THEN args ELSE old[k]]
    BY <1>13, <2>3, Zenon
  <2> QED
    BY <2>2, <2>4 DEF old
<1>15. Argc \in 0..Len(Own!Current) - 1
  BY <1>4, <1>5
<1>16. Cells' = Append([Cells EXCEPT ![Len(Cells)] = Own!Below(Argc + 1)],
                       SubSeq(Own!Current, Len(Own!Current) - Argc, Len(Own!Current) - 1))
  BY <1>4, <1>7, <1>8, <1>14 DEF new
<1> QED
  BY <1>15, <1>16 DEF Own!Call

\* A call that is over leaves its newest cell to its caller.
LEMMA LeavesReturn ==
  ASSUME CInv, status = "running", Leave, Len(frames) # 1, sp' = Top.base + 1, Top.base < sp,
         stack'[Top.base] = stack[sp - 1], \A i \in 0..Top.base - 1 : stack'[i] = stack[i]
  PROVE  Own!Return
<1> DEFINE new == Cells'
           v == stack[sp - 1]
<1>0. PICK n : n = Len(frames)
  OBVIOUS
<1>1. /\ n \in Nat \ {0} /\ n - 1 \in Nat \ {0} /\ Top.base = frames[n].base
      /\ Len(frames') = n - 1 /\ \A k \in 1..n - 1 : frames'[k] = frames[k]
  BY <1>0, FramesLie, ShorterFrames DEF CInv
<1>2. Cells = [k \in 1..n |-> CellsOf(k)] /\ Len(Cells) = n /\ Own!Newest = v /\ Own!Current # <<>>
  BY <1>0, CurrentCells, NewestCell
<1>3. status' = "running"
  BY <1>0, <1>1 DEF Leave
<1>4. new = [k \in 1..n - 1 |-> Slice(stack', frames'[k].base, CellsEnd(k)')]
  BY <1>1, <1>3 DEF Cells, CellsOf
<1>5. ASSUME NEW k \in 1..n - 1
      PROVE  /\ frames[k].base \in Nat /\ frames[k + 1].base \in Nat /\ frames[k + 1].base <= Top.base
             /\ frames'[k].base = frames[k].base /\ Lies(stack, frames[k].base, frames[k + 1].base)
             /\ Cells[k] = Slice(stack, frames[k].base, frames[k + 1].base)
             /\ Slice(stack', frames[k].base, frames[k + 1].base)
                  = Slice(stack, frames[k].base, frames[k + 1].base)
  <2>1. k \in 1..n /\ k + 1 \in 1..n /\ k # n
    BY <1>1
  <2>2. CellsEnd(k) = frames[k + 1].base
    BY <1>0, <2>1 DEF CellsEnd
  <2>3. /\ frames[k].base \in Nat /\ frames[k + 1].base \in Nat /\ frames[k + 1].base <= Top.base
        /\ Lies(stack, frames[k].base, frames[k + 1].base)
    BY <1>0, <2>1, <2>2, FramesLie
  <2>4. Cells[k] = Slice(stack, frames[k].base, frames[k + 1].base)
    BY <1>2, <2>1, <2>2 DEF CellsOf
  <2>5. Agree(stack', stack, frames[k].base, frames[k + 1].base)
    <3>1. Top.base \in Nat
      BY CurrentCells
    <3> QED
      BY <2>3, <3>1 DEF Agree
  <2>6. Slice(stack', frames[k].base, frames[k + 1].base) = Slice(stack, frames[k].base, frames[k + 1].base)
    BY <2>3, <2>5, SameSlice
  <2> QED
    BY <1>1, <2>3, <2>4, <2>6
<1>6. ASSUME NEW k \in 1..n - 1, k # n - 1 PROVE new[k] = Cells[k]
  <2>1. k + 1 \in 1..n - 1 /\ CellsEnd(k)' = frames'[k + 1].base
    BY <1>1, <1>6 DEF CellsEnd
  <2> QED
    BY <1>1, <1>4, <1>5, <2>1
<1>7. new[n - 1] = Append(Cells[n - 1], v)
  <2> DEFINE from == frames[n - 1].base
  <2>1. n - 1 \in 1..n - 1 /\ (n - 1) + 1 = n
    BY <1>1
  <2>2. /\ from \in Nat /\ frames'[n - 1].base = from /\ Lies(stack, from, Top.base)
        /\ Cells[n - 1] = Slice(stack, from, Top.base)
        /\ Slice(stack', from, Top.base) = Slice(stack, from, Top.base)
    BY <1>1, <1>5, <2>1
  <2>3. CellsEnd(n - 1)' = Top.base + 1
    BY <1>1 DEF CellsEnd
  <2>4. new[n - 1] = Slice(stack', from, Top.base + 1)
    BY <1>4, <2>1, <2>2, <2>3
  <2>5. Append(Slice(stack, from, Top.base), v) = Slice(stack', from, Top.base + 1)
    <3> DEFINE c == Slice(stack, from, Top.base)
    <3>1. c \in Seq(Value) /\ Len(c) = Top.base - from
      BY <2>2, SliceIs
    <3>2. Top.base - from \in Nat /\ (Top.base + 1) - from = (Top.base - from) + 1
      BY <2>2 DEF Lies
    <3>3. Append(c, v) = [i \in 1..(Top.base - from) + 1 |-> IF i = (Top.base - from) + 1 THEN v ELSE c[i]]
      BY <3>1, AppendIs
    <3>4. ASSUME NEW i \in 1..(Top.base - from) + 1
          PROVE  (IF i = (Top.base - from) + 1 THEN v ELSE c[i]) = stack'[from + i - 1]
      <4>1. CASE i = (Top.base - from) + 1
        <5>1. from + i - 1 = Top.base
          BY <2>2, <3>2, <4>1 DEF Lies
        <5> QED
          BY <4>1, <5>1
      <4>2. CASE i # (Top.base - from) + 1
        <5>1. i \in 1..Top.base - from
          BY <3>2, <4>2
        <5>2. c[i] = Slice(stack', from, Top.base)[i]
          BY <2>2
        <5> QED
          BY <4>2, <5>1, <5>2 DEF Slice
      <4> QED
        BY <4>1, <4>2
    <3> HIDE DEF c, from
    <3>5. Slice(stack', from, Top.base + 1) = [i \in 1..(Top.base - from) + 1 |-> stack'[from + i - 1]]
      BY <3>2 DEF Slice
    <3> QED
      BY <3>3, <3>4, <3>5 DEF c
  <2> QED
    BY <2>2, <2>4, <2>5
<1>8. new = [k \in 1..n - 1 |-> new[k]]
  BY <1>4
<1> HIDE DEF new, v
<1>9. \A k \in 1..n - 1 : new[k] = IF k = n - 1 THEN Append(Cells[k], v) ELSE Cells[k]
  BY <1>6, <1>7
<1>10. new = [k \in 1..n - 1 |-> IF k = n - 1 THEN Append(Cells[k], v) ELSE Cells[k]]
  BY <1>8, <1>9, Zenon
<1> QED
  BY <1>1, <1>2, <1>10 DEF Own!Return, new

LEMMA ReturnsReturn ==
  ASSUME CInv, Return \/ FallOff
  PROVE  Own!Return \/ Own!Stop
<1>1. /\ status = "running" /\ Leave
      /\ Top.base \in Nat /\ sp \in Nat /\ Len(frames) \in Nat /\ Top.base <= sp
  BY FramesLie, CurrentCells DEF Return, FallOff, At, InLoop
<1>2. CASE Len(frames) = 1
  <2>1. status' # "running"
    BY <1>1, <1>2 DEF Leave
  <2> QED
    BY <2>1 DEF Own!Stop, Cells
<1>3. CASE Len(frames) # 1 /\ Return
  <2>1. InLoop /\ Readied /\ Op = "RETURN" /\ sp' = Top.base + 1 /\ stack' = [stack EXCEPT ![Top.base] = Peek(0)]
    BY <1>3 DEF Return, At
  <2>2. Top.base < sp
    <3>1. 1 <= HeightAt(Top) /\ sp = Top.base + HeightAt(Top) /\ HeightAt(Top) \in Nat
      BY <2>1, Heights, Here, NeedsOf DEF CInv
    <3> QED
      BY <1>1, <3>1
  <2>3. Peek(0) = stack[sp - 1]
    BY <1>1, <2>2, NewestCell
  <2>4. stack'[Top.base] = stack[sp - 1] /\ \A i \in 0..Top.base - 1 : stack'[i] = stack[i]
    <3>1. Top.base \in DOMAIN stack /\ \A i \in 0..Top.base - 1 : i # Top.base /\ i \in DOMAIN stack
      BY <1>1, <2>2, FramesLie, EngineAssumption DEF Lies
    <3> QED
      BY <2>1, <2>3, <3>1
  <2> QED
    BY <1>1, <1>3, <2>1, <2>2, <2>4, LeavesReturn
<1>4. CASE Len(frames) # 1 /\ FallOff
  <2>1. sp' = Top.base + 1 /\ sp' = sp /\ stack' = stack
    BY <1>4, FallsOffAtOneCell DEF FallOff, CInv
  <2>2. Top.base < sp /\ Top.base = sp - 1
    BY <1>1, <2>1
  <2> QED
    BY <1>1, <1>4, <2>1, <2>2, LeavesReturn
<1> QED
  BY <1>2, <1>3, <1>4

-----------------------------------------------------------------------------
(* The inductive invariant, and the refinement.                            *)

\* What does not change the frames leaves the bases in their order.
LEMMA SameBases ==
  ASSUME CInv, status = "running", Len(frames') <= Len(frames), Len(frames') \in Nat,
         \A k \in 1..Len(frames') : frames'[k].base = frames[k].base
  PROVE  BasesRise'
<1>1. \A k \in 1..Len(frames') : k \in 1..Len(frames)
  BY FramesLie
<1> QED
  BY <1>1 DEF CInv, BasesRise

LEMMA BasesStay ==
  ASSUME CInv, IInv', [Next]_vars
  PROVE  BasesRise'
<1>1. CASE CallFunction
  <2>1. /\ status = "running" /\ Len(frames') = Len(frames) + 1
        /\ Argc \in Nat /\ Top.base <= sp - 1 - Argc /\ frames'[Len(frames) + 1].base = sp - 1 - Argc
        /\ \A k \in 1..Len(frames) : frames'[k].base = frames[k].base
    BY <1>1, CallBegins
  <2>2. /\ Len(frames) \in Nat \ {0} /\ Top = frames[Len(frames)] /\ sp \in Nat
        /\ \A k \in 1..Len(frames) : frames[k].base \in Nat
    BY <2>1, FramesLie, CurrentCells
  <2>3. ASSUME NEW k \in 1..Len(frames) PROVE frames[k].base <= Top.base
    <3>1. k < Len(frames) \/ k = Len(frames)
      BY <2>2
    <3> QED
      BY <2>1, <2>2, <3>1 DEF CInv, BasesRise
  <2>4. ASSUME NEW k \in 1..Len(frames'), NEW m \in 1..Len(frames'), k < m
        PROVE  frames'[k].base <= frames'[m].base
    <3>1. CASE m \in 1..Len(frames)
      <4>1. k \in 1..Len(frames)
        BY <2>2, <2>4, <3>1
      <4> QED
        BY <2>1, <2>4, <3>1, <4>1 DEF CInv, BasesRise
    <3>2. CASE m = Len(frames) + 1
      <4>1. k \in 1..Len(frames)
        BY <2>1, <2>2, <2>4, <3>2
      <4>2. frames[k].base <= Top.base /\ frames[k].base \in Nat /\ Top.base \in Nat
        BY <2>2, <2>3, <4>1
      <4> QED
        BY <2>1, <2>2, <3>2, <4>1, <4>2
    <3> QED
      BY <2>1, <2>2, <3>1, <3>2
  <2> QED
    BY <2>4 DEF BasesRise
<1>2. CASE Return \/ FallOff
  <2>1. status = "running" /\ Leave
    BY <1>2 DEF Return, FallOff, At, InLoop
  <2>2. /\ Len(frames) \in Nat \ {0} /\ Len(frames') = Len(frames) - 1
        /\ \A k \in 1..Len(frames) - 1 : frames'[k] = frames[k]
    BY <2>1, ShorterFrames DEF CInv
  <2>3. Len(frames') \in Nat /\ Len(frames') <= Len(frames)
    BY <2>2
  <2> QED
    BY <2>1, <2>2, <2>3, SameBases
<1>3. CASE Instruction /\ ~CallFunction /\ ~Return
  <2>1. InLoop /\ Running
    BY <1>3
    DEF Instruction, Constant, StringLiteral, ArrayLiteral, MapLiteral, Constructor, EmptyContainer,
        Closure, Unary, Binary, ShortCircuit, GetLocal, SetLocal, GetGlobal, GetUpvalue, SetUpvalue,
        IndexGet, IndexSet, StructGet, StructSet, JumpAlways, JumpIfZero, Pop, CallNative, At, NoAlloc, Silent
  <2>2. \E d : Jump(d)
    BY <1>3
    DEF Instruction, Constant, StringLiteral, ArrayLiteral, MapLiteral, Constructor, EmptyContainer,
        Closure, Unary, Binary, ShortCircuit, GetLocal, SetLocal, GetGlobal, GetUpvalue, SetUpvalue,
        IndexGet, IndexSet, StructGet, StructSet, JumpAlways, JumpIfZero, Pop, CallNative, Advance
  <2>3. Stays
    BY <1>3, <2>1, <2>2, JumpsStay DEF InLoop, Running
  <2>4. Len(frames) \in Nat
    BY FramesLie DEF Stays, CInv
  <2> QED
    BY <2>3, <2>4, SameBases DEF Stays
<1>4. CASE Failure \/ Sweep
  <2>1. status' # "running"
    BY <1>4 DEF Failure, StackOverflow, OutOfMemory, CStackOverflow, BadIndex, AssertFails,
                GoesWild, End, Sweep, FreeObject, DoubleFree, SweepEnds
  <2> QED
    BY <2>1 DEF BasesRise
<1>5. CASE UNCHANGED vars
  BY <1>5 DEF vars, CInv, BasesRise
<1> QED
  BY <1>1, <1>2, <1>3, <1>4, <1>5 DEF Next, Terminated

\* A step of the engine is a step of CallStacks, or leaves every call its cells.
LEMMA StepIsOwn ==
  ASSUME CInv, IInv', [Next]_vars
  PROVE  [Own!Next]_Cells
<1>1. ASSUME status = "running", status' # "running" PROVE Own!Next
  <2>1. Cells # <<>> /\ Cells' = <<>>
    BY <1>1, CurrentCells DEF Cells
  <2> QED
    BY <2>1 DEF Own!Next, Own!Stop
<1>2. ASSUME status = "running" PROVE Cells # <<>>
  BY <1>2, CurrentCells
<1>3. CASE Instruction
  <2>1. status = "running"
    BY <1>3
    DEF Instruction, Constant, StringLiteral, ArrayLiteral, MapLiteral, Constructor, EmptyContainer,
        Closure, Unary, Binary, ShortCircuit, GetLocal, SetLocal, GetGlobal, GetUpvalue, SetUpvalue,
        IndexGet, IndexSet, StructGet, StructSet, JumpAlways, JumpIfZero, Pop, CallFunction, CallNative,
        Return, At, InLoop
  <2>2. Own!Pop \/ Own!Push \/ Own!Store \/ Own!Call \/ Own!Return \/ Own!Stop
    BY <1>3, PushersPush, PoppersPop, SetStores, CallsCall, ReturnsReturn DEF Instruction
  <2> QED
    BY <1>2, <2>1, <2>2 DEF Own!Next
<1>4. CASE FallOff
  <2>1. Own!Return \/ Own!Stop
    BY <1>4, ReturnsReturn
  <2> QED
    BY <1>2, <1>4, <2>1 DEF Own!Next, FallOff
<1>5. CASE Failure
  <2>1. status = "running" /\ status' # "running"
    BY <1>5 DEF Failure, StackOverflow, OutOfMemory, CStackOverflow, BadIndex, AssertFails,
                GoesWild, End, At, InLoop
  <2> QED
    BY <1>1, <2>1
<1>6. CASE Sweep
  <2>1. status # "running" /\ status' # "running"
    BY <1>6 DEF End, Sweep, FreeObject, DoubleFree, SweepEnds
  <2> QED
    BY <2>1 DEF Cells
<1>7. CASE UNCHANGED vars
  BY <1>7 DEF vars, Cells, CellsOf, CellsEnd
<1> QED
  BY <1>3, <1>4, <1>5, <1>6, <1>7 DEF Next, Terminated

\* For code with one height at every offset, whatever the sizes: as long as calls give
\* what they call the arguments it takes, the engine with its one stack does what an
\* engine with a stack for every call would do.
THEOREM OneStackIsEnough ==
  ASSUME FloatsAreWords, AllStacked
  PROVE  Spec /\ []CalleesFit => CallsKeepApart
<1>1. Init => BasesRise /\ Own!Init
  <2> SUFFICES ASSUME Init PROVE BasesRise /\ Own!Init
    OBVIOUS
  <2>1. CASE status = "running"
    <3>1. Len(frames) = 1 /\ frames[1].base = 0 /\ sp = 0
      BY <2>1 DEF Init
    <3>2. Cells = [k \in 1..1 |-> CellsOf(k)]
      BY <2>1, <3>1 DEF Cells
    <3>3. CellsOf(1) = <<>>
      BY <3>1 DEF CellsOf, CellsEnd, Slice
    <3>4. Cells = << <<>> >>
      BY <3>2, <3>3
    <3> QED
      BY <3>1, <3>4 DEF BasesRise, Own!Init
  <2>2. CASE status # "running"
    BY <2>2 DEF Cells, BasesRise, Own!Init
  <2> QED
    BY <2>1, <2>2
<1>2. CInv /\ IInv' /\ [Next]_vars => BasesRise'
  BY BasesStay
<1>3. CInv /\ IInv' /\ [Next]_vars => [Own!Next]_Cells
  BY StepIsOwn
<1> QED
  BY <1>1, <1>2, <1>3, Invariance, PTL DEF Spec, CInv, CallsKeepApart, Own!Spec
=============================================================================
