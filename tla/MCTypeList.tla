----------------------------- MODULE MCTypeList -----------------------------
(* An instance of TypeList for TLC: compound types whose homes are among   *)
(* the slots of the basic types or behind one another, so that probes pass *)
(* over basic and over other types; two of them are one type to the list.  *)
EXTENDS TypeHash, TLC

MCCompounds == {ArrayOf(IntT), ArrayOf(ArrayOf(IntT)), MapOf(AnyT, IntT), MapOf(IntT, IntT),
                FnOf(VoidT, <<AnyT>>), FnOf(VoidT, <<IntT>>), StructOf("S", <<>>)}

\* S has the hash of [Int].
MCNameHash == "S" :> 175

\* @@ has TLC compute the hashes once.
MCHash == TypeHashes @@ Null :> 0
=============================================================================
