------------------------------ MODULE Reading ------------------------------
(***************************************************************************)
(* Programs are written down, perhaps with a slip of the pen, and read by  *)
(* the parser; the validator and the code generator go on with the tree.   *)
(***************************************************************************)
EXTENDS Parser, FiniteSets

CONSTANTS Corpus,      \* the programs, as trees
          Slips(_),    \* what the text of a program may become
          JumpSpan     \* of Bytecode

VARIABLE written       \* the program that was written down

T == INSTANCE Text
V == INSTANCE Validator
C == INSTANCE Compiler

Init == \E tree \in Corpus : \E text \in Slips(T!ProgramText(tree)) :
            written = tree /\ MtrParserInit(text)

Read == Next /\ UNCHANGED written
Spec == Init /\ [][Read]_<<vars, written>>

-----------------------------------------------------------------------------
\* The parse is over, the process lives and no error was reported.
Accepted == parser.end = "parsed" /\ ~parser.error

\* A program without an error that is written down, read, checked and compiled is the
\* same bytecode as the program itself: the precedences of parser.c, its lists, its
\* lookahead and the function it remembers for return statements agree with how programs
\* are written.
CompilesAsWritten ==
  LET same(checked) == (\E v \in checked : v.ok) =>
                         Accepted /\ Cardinality({C!Compile(v.stmts) : v \in checked}) = 1
  IN  parser.end # "" /\ parser.text = T!ProgramText(written) =>
        same({V!Validate(stmts) : stmts \in {ast, written}})

\* A text that is accepted is the text of the tree that was read: no token was dropped
\* without an error, whatever was wrong with it (advance, consume and synchronize).
NothingIsLost ==
  Accepted => T!ProgramText(ast) = SelectSeq(parser.text, LAMBDA token : token[1] # "COMMENT")

\* Every turn of the loop of mtr_parse reads on or is the last one, so that every parse
\* comes to an end: recovery never stops where it began (synchronize, global_declaration).
EveryTurnReadsOn == [][parser'.pos > parser.pos \/ parser'.end # ""]_vars
=============================================================================
