-------------------------------- MODULE Types --------------------------------
(***************************************************************************)
(* What the program asks of two types (AST/type.c).                        *)
(***************************************************************************)
EXTENDS TypeTerms, Integers, Sequences

\* mtr_type_match: Any matches every type, on either side and inside other types.
RECURSIVE TypeMatch(_, _)
TypeMatch(l, r) ==
  /\ l # Null /\ r # Null
  /\ \/ AnyT \in {l, r}
     \/ /\ l[1] = r[1]
        /\ CASE l[1] = "ARRAY" -> TypeMatch(l[2], r[2])
             [] l[1] = "MAP" -> TypeMatch(l[2], r[2]) /\ TypeMatch(l[3], r[3])
             [] l[1] = "FN" -> /\ Len(l[3]) = Len(r[3])
                               /\ \A i \in DOMAIN l[3] : TypeMatch(l[3][i], r[3][i])
                               /\ TypeMatch(l[2], r[2])
             [] l[1] \in {"STRUCT", "UNION"} -> l[2] = r[2]
             [] OTHER -> TRUE

\* mtr_get_underlying_type of a type that can be subscripted
Underlying(t) == IF t[1] = "ARRAY" THEN t[2] ELSE t[3]

\* check_assignemnt: may a value of type what be assigned to a variable of type to?
CheckAssignment(to, what) ==
  \/ to = what
  \/ to = AnyT
  \/ TypeMatch(to, what)
  \/ to[1] = "UNION" /\ \E i \in DOMAIN to[3] : TypeMatch(to[3][i], what)
=============================================================================
