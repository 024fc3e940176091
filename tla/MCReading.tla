----------------------------- MODULE MCReading -----------------------------
(* The texts of the runs of Reading. *)
EXTENDS Reading

LOCAL P == INSTANCE Corpora

LOCAL All(programs) == {programs[i] : i \in DOMAIN programs}

LOCAL Samples == All(P!Samples)

\* Every program that another run executes, but for the long ones of the jumps.
MCPrograms == All(P!Tests) \union All(P!Closures) \union All(P!Limits) \union All(P!Statements)
                \union All(P!Calls) \union All(P!Oddities) \union All(P!Misplaced) \union Samples

MCSpares == {<<"{">>, <<"}">>, <<"(">>, <<"]">>, <<",">>, <<";">>, <<":=">>, <<"-">>, <<".">>,
             <<"Int">>, <<"fn">>, <<"type">>, <<"return">>, <<"IDENTIFIER", "a">>,
             <<"COMMENT">>, <<"INVALID", "@">>, InvalidToken}

\* At one place, up to two tokens are left out and up to one is put there.
LOCAL OneSlip(text) ==
  LET places == {<<i, n>> \in (1 .. Len(text)) \X (0 .. 2) : i + n <= Len(text) + 1}
      puts   == {<<>>} \union {<<token>> : token \in MCSpares}
  IN  {SubSeq(text, 1, at[1] - 1) \o put \o SubSeq(text, at[1] + at[2], Len(text)) :
         at \in places, put \in puts}

\* The samples are written with a slip, the other programs without.
MCSlips(text) == IF text \in {T!ProgramText(sample) : sample \in Samples} THEN OneSlip(text) ELSE {text}
=============================================================================
