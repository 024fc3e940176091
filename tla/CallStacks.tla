----------------------------- MODULE CallStacks -----------------------------
(***************************************************************************)
(* What the one stack of the engine stands for: a stack for every call.    *)
(*                                                                         *)
(* A call pops and pushes on its own stack, and stores into a cell of it.  *)
(* It hands values to another call, which begins with them and nothing     *)
(* else, and gets back one.  It has no way to name a cell of another call. *)
(***************************************************************************)
EXTENDS Integers, Sequences

VARIABLE calls   \* the stacks of the calls that run, main's first; none when main is over

Current == calls[Len(calls)]
Newest  == Current[Len(Current)]
Below(n) == SubSeq(Current, 1, Len(Current) - n)

Becomes(s) == calls' = [calls EXCEPT ![Len(calls)] = s]

Init == calls \in {<<>>, << <<>> >>}

Pop == \E n \in 0..Len(Current) : Becomes(Below(n))

\* Values are popped and a value is pushed: any value, this says where, not which.
Push == /\ Len(calls') = Len(calls) /\ Current' # <<>>
        /\ \E n \in 0..Len(Current) : Becomes(Append(Below(n), Newest'))

Store == \E i \in 1..Len(Current) - 1 : Becomes([Below(1) EXCEPT ![i] = Newest])

\* The callee is the newest value, its arguments are the n values below.
Call == \E n \in 0..Len(Current) - 1 :
          calls' = Append([calls EXCEPT ![Len(calls)] = Below(n + 1)],
                          SubSeq(Current, Len(Current) - n, Len(Current) - 1))

Return == /\ Len(calls) > 1 /\ Current # <<>>
          /\ calls' = [k \in 1..Len(calls) - 1 |->
                         IF k = Len(calls) - 1 THEN Append(calls[k], Newest) ELSE calls[k]]

\* main is over, or the program fails.
Stop == calls' = <<>>

Next == calls # <<>> /\ (Pop \/ Push \/ Store \/ Call \/ Return \/ Stop)

Spec == Init /\ [][Next]_calls
=============================================================================
