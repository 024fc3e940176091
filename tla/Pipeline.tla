------------------------------ MODULE Pipeline ------------------------------
(***************************************************************************)
(* The whole system on a corpus of programs: every program is validated,   *)
(* compiled and executed, and its run is compared with what Meaning.tla    *)
(* says the program means.                                                 *)
(*                                                                         *)
(* A configuration gives Engine's Programs the value Compiled.             *)
(***************************************************************************)
EXTENDS Engine

CONSTANT Corpus      \* a sequence of programs, as the parser leaves them

V == INSTANCE Validator
C == INSTANCE Compiler
M == INSTANCE Meaning

Verdicts == [p \in DOMAIN Corpus |-> V!Validate(Corpus[p])]
Compiled == [p \in DOMAIN Corpus |-> C!Compile(Verdicts[p].stmts)]
Expected == [p \in DOMAIN Corpus |-> M!Run(Verdicts[p].stmts)]

\* Every program of the corpus reaches the engine: the validator finds no error in
\* it, and does not crash on it.
ASSUME CorpusAssumption ==
  \A p \in DOMAIN Corpus : Verdicts[p].ok /\ ~Verdicts[p].crashed

\* Jumps are signed 16-bit words: half of their range must do for every chunk.
Fits == \A c \in DOMAIN package.chunks : Len(package.chunks[c]) <= JumpSpan \div 2

\* A program that stays clear of the constructs with a meaning of their own.
IsPlain(meant) == Fits /\ meant.quirks = {}

Limits == {"overflow", "exhausted"}

-----------------------------------------------------------------------------
(* What the bytecode of a program does is what the program means: validator.c *)
(* resolved each name to the right slot, upvalue or global, compiler.c wrote  *)
(* the operands in the order engine.c pops them and the jumps to where they   *)
(* belong, and engine.c kept the slots of every call apart.                   *)

EndsAs(meant)  == out = meant.out /\ status = meant.status
IsPrefix(s, t) == Len(s) <= Len(t) /\ s = SubSeq(t, 1, Len(s))

\* A run that no limit cut short has printed what the program means to print and
\* ends the way the program ends.
RunsAsWritten ==
  LET compared(meant) == IsPlain(meant) => EndsAs(meant)
  IN  status \in Ended \ Limits => compared(Expected[program])

\* At every moment, and also when a limit ends the run, what is printed is the
\* beginning of what the program means to print (push and malloc in engine.c).
PrintsAPrefix ==
  LET compared(meant) == IsPlain(meant) => IsPrefix(out, meant.out)
  IN  compared(Expected[program])

-----------------------------------------------------------------------------
\* What the code of a checked program calls is a function: the assertion at the end of
\* CALL ("Object is not invokable", engine.c) never fails.
EveryCalleeIsInvokable == status = "abort" => Op # "CALL"

\* Every run comes to an end: loops and calls are left when their condition says so.
EveryRunEnds == <>(status \in Ended)
=============================================================================
