------------------------------ MODULE TypeTerms ------------------------------
(***************************************************************************)
(* The types of the language (AST/type.c).  The type list interns types,   *)
(* so that one type has one address: comparing two pointers in the code is *)
(* comparing two types here.                                               *)
(*                                                                         *)
(* A type is a tuple whose head is its mtr_data_type:                      *)
(*   <<"INT">>, <<"ARRAY", element>>, <<"MAP", key, value>>,               *)
(*   <<"FN", return, parameters>>, <<"STRUCT", name, members>>,            *)
(*   <<"UNION", name, alternatives>>; NULL is <<"NULL">>.                  *)
(***************************************************************************)
Null == <<"NULL">>
AnyT    == <<"ANY">>
VoidT   == <<"VOID">>
BoolT   == <<"BOOL">>
IntT    == <<"INT">>
FloatT  == <<"FLOAT">>
StringT == <<"STRING">>

ArrayOf(t)           == <<"ARRAY", t>>
MapOf(key, val)      == <<"MAP", key, val>>
FnOf(ret, params)    == <<"FN", ret, params>>
StructOf(name, mems) == <<"STRUCT", name, mems>>
UnionOf(name, alts)  == <<"UNION", name, alts>>

IsCompound(t) == t[1] \notin {"ANY", "VOID", "BOOL", "INT", "FLOAT", "STRING"}
=============================================================================
