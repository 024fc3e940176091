------------------------------ MODULE Bytecode ------------------------------
(***************************************************************************)
(* The instruction set of the Matiria engine (bytecode.h) and the fixed    *)
(* width words an instruction carries.                                     *)
(*                                                                         *)
(* A chunk is a sequence of cells, one per byte of the real chunk, so that *)
(* an offset in the model is an offset in bytes.  An instruction is one    *)
(* cell that holds its opcode followed by its operands; a multi-byte       *)
(* operand is one cell that holds the value followed by blank cells.       *)
(***************************************************************************)
EXTENDS Integers, Sequences

CONSTANT JumpSpan    \* how many values a 16-bit word has: 2^16 in the code

\* The checks take a smaller JumpSpan so that a short chunk can overflow it.
ASSUME JumpSpanAssumption == JumpSpan \in Nat \ {0} /\ JumpSpan % 2 = 0

\* (u16) n
U16(n) == n % JumpSpan

\* Mutant: the distance of a jump loses a bit more.
I16Narrow(n) == IF U16(n) < JumpSpan \div 4 THEN U16(n) ELSE U16(n) - JumpSpan

\* (i16) n
I16(n) == IF U16(n) < JumpSpan \div 2 THEN U16(n) ELSE U16(n) - JumpSpan

\* (u8) n
U8(n) == n % 256

-----------------------------------------------------------------------------
(* Instructions by the family whose handler they share in the engine.      *)

ConstantOps  == {"INT", "FLOAT", "FALSE", "TRUE", "NIL"}
ContainerOps == {"EMPTY_ARRAY", "EMPTY_MAP"}
UnaryOps     == {"NOT", "NEGATE_I", "NEGATE_F", "INT_CAST", "FLOAT_CAST"}
IntOps       == {"ADD_I", "SUB_I", "MUL_I", "DIV_I", "LESS_I", "GREATER_I", "EQUAL_I"}
FloatOps     == {"ADD_F", "SUB_F", "MUL_F", "DIV_F", "LESS_F", "GREATER_F", "EQUAL_F"}
BinaryOps    == IntOps \union FloatOps

OpCodes == ConstantOps \union ContainerOps \union UnaryOps \union BinaryOps \union
           {"STRING_LITERAL", "ARRAY_LITERAL", "MAP_LITERAL", "CONSTRUCTOR", "CLOSURE",
            "EMPTY_STRING", "OR", "AND", "GET", "SET", "GLOBAL_GET", "UPVALUE_GET",
            "UPVALUE_SET", "INDEX_GET", "INDEX_SET", "STRUCT_GET", "STRUCT_SET",
            "JMP", "JMP_Z", "POP", "POP_V", "CALL", "RETURN"}

\* Bytes of operands behind an opcode.  CLOSURE is followed, besides, by three
\* bytes (u16 index, bool local) per upvalue of the closure it names.
OperandBytes(op) ==
  CASE op \in {"INT", "FLOAT", "CLOSURE"} -> 8
    [] op = "STRING_LITERAL" -> 12
    [] op \in {"OR", "AND", "GET", "SET", "GLOBAL_GET", "UPVALUE_GET", "UPVALUE_SET",
               "STRUCT_GET", "STRUCT_SET", "JMP", "JMP_Z", "POP_V"} -> 2
    [] op \in {"ARRAY_LITERAL", "MAP_LITERAL", "CONSTRUCTOR", "CALL"} -> 1
    [] OTHER -> 0

UpvalueBytes == 3

-----------------------------------------------------------------------------
(* Cells, and the chunks the compiler writes one instruction at a time.    *)

Cell == [op : STRING, arg : Int]

OpCell(op)  == [op |-> op, arg |-> 0]
ArgCell(n)  == [op |-> "operand", arg |-> n]

\* a value of the given width in bytes
Word(n, width) == [i \in 1..width |-> ArgCell(IF i = 1 THEN n ELSE 0)]

\* an instruction with no operand, or with a single one
Plain(op)      == <<OpCell(op)>>
Instr(op, arg) == <<OpCell(op)>> \o Word(arg, OperandBytes(op))
=============================================================================
