----------------------------- MODULE FiniteMap ------------------------------
(***************************************************************************)
(* What the tables of the program promise their callers: a map from keys   *)
(* to values that gives back what was put in last.  A call is made, and    *)
(* later it takes effect, all at once.  Nothing is ever taken out: the two *)
(* removing functions of the code have no caller.                          *)
(***************************************************************************)

CONSTANTS Keys,    \* what a value is found by
          Values,  \* what is stored
          NULL     \* stands for "no value" and for "no call"

VARIABLES map,      \* the value of every key, NULL where there is none
          pending,  \* the call being served, NULL between two calls
          answer    \* what the last lookup gave

vars == <<map, pending, answer>>

Calls == [op: {"insert"}, key: Keys, value: Values]
         \union [op: {"get"}, key: Keys, value: {NULL}]

TypeOK == /\ map \in [Keys -> Values \union {NULL}]
          /\ pending \in Calls \union {NULL}
          /\ answer \in Values \union {NULL}

Init == /\ map = [k \in Keys |-> NULL]
        /\ pending = NULL
        /\ answer = NULL

Call == /\ pending = NULL
        /\ pending' \in Calls
        /\ UNCHANGED <<map, answer>>

Insert == /\ pending # NULL
          /\ pending.op = "insert"
          /\ map' = [map EXCEPT ![pending.key] = pending.value]
          /\ pending' = NULL
          /\ UNCHANGED answer

Get == /\ pending # NULL
       /\ pending.op = "get"
       /\ answer' = map[pending.key]
       /\ pending' = NULL
       /\ UNCHANGED map

Next == Call \/ Insert \/ Get

Spec == Init /\ [][Next]_vars
=============================================================================
