------------------------------ MODULE TypeHash ------------------------------
(***************************************************************************)
(* hash_type (AST/typeList.c), for the types a program may name.  Only the *)
(* equality of hashes and their low bits are looked at.                    *)
(***************************************************************************)
EXTENDS TypeList, Types, Bitwise

(* MTR_DATA_ARRAY is 7, MTR_DATA_MAP 8, MTR_DATA_FN 9.  Maps from a basic  *)
(* type all lose the hash of their key in the shift to the right: they     *)
(* agree whenever their values do.                                         *)
RECURSIVE HashType(_)
HashType(t) ==
    CASE t[1] = "ARRAY" -> 7 ^^ (HashType(t[2]) * 2 * 21)
      [] t[1] = "MAP" -> ((8 ^^ (HashType(t[2]) * 32)) \div 256) ^^ (HashType(t[3]) * 8192 * 21)
      [] t[1] = "FN" ->
           LET Mix[n \in 0 .. Len(t[3])] ==
                 IF n = 0 THEN 9 ^^ (HashType(t[2]) * 128)
                 ELSE (Mix[n - 1] ^^ (HashType(t[3][n]) * 2 ^ (17 * (n - 1)))) * 21
           IN Mix[Len(t[3])] * 2049
      [] t[1] \in {"STRUCT", "UNION"} -> NameHash[t[2]]
      [] OTHER -> BasicSlot(t)

TypeHashes == [t \in KnownTypes |-> HashType(t)]
=============================================================================
