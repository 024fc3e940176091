------------------------------ MODULE TypeList ------------------------------
(***************************************************************************)
(* The type list (AST/typeList.c): every type the parser or the validator  *)
(* meets is registered, and types that match are one object, so that the   *)
(* rest of the program compares addresses.  It is an open-addressing table *)
(* in which the seven basic types have fixed slots, by their enumerator,   *)
(* and compound types are probed for from their hash; it doubles at three  *)
(* quarters of its load.                                                   *)
(*                                                                         *)
(* A registration is one step.  After the table was enlarged it answers    *)
(* out of the array it has just freed: the address it reads there may      *)
(* still be the right one, or not; in the second case the program goes on  *)
(* with a pointer to anything, and the model stops.                        *)
(***************************************************************************)
EXTENDS TypeTerms, Naturals, Integers, FiniteSets, Functions

CONSTANTS Compounds,       \* the compound types a program may name
          Matches(_, _),   \* mtr_type_match
          Hash,            \* hash_type: computed once for an entry and kept in it
          NameHash,        \* hash(name.start, name.length) of user types
          InitialCapacity  \* 16; a power of two, so that & (capacity - 1) is %

Basics == <<Null, AnyT, VoidT, BoolT, IntT, FloatT, StringT>>  \* Null: MTR_DATA_INVALID
BasicTypesCount == 7
BasicSlot(t) == (CHOOSE i \in DOMAIN Basics : Basics[i] = t) - 1
IsBasic(t) == t \in Range(Basics)

KnownTypes == Range(Basics) \union Compounds
UserTypes == {t \in Compounds : t[1] \in {"STRUCT", "UNION"}}

ASSUME CompoundsAssumption == \A t \in Compounds : ~IsBasic(t) /\ Matches(t, t)

ASSUME MatchesAssumption == \A s, t \in KnownTypes : Matches(s, t) <=> Matches(t, s)

\* The hash of a basic type is its enumerator.
ASSUME HashAssumption ==
  /\ Hash \in [KnownTypes -> Nat]
  /\ \A i \in DOMAIN Basics : Hash[Basics[i]] = i - 1

\* A user type has the hash of its name, and its name for itself.
ASSUME NameAssumption ==
  /\ \A t \in UserTypes : Hash[t] = NameHash[t[2]]
  /\ \A s, t \in UserTypes : s[2] = t[2] => s = t

ASSUME CapacityAssumption ==
  InitialCapacity \in Nat /\ 4 * BasicTypesCount < 3 * InitialCapacity

VARIABLES types,      \* the slots
          count,
          capacity,
          allocated,  \* malloc: the next address
          given       \* what the last registration of each type returned

vars == <<types, count, capacity, allocated, given>>

Free == [type |-> Null, at |-> -1]
Lost == -2

EmptyList(cap) == [i \in 0 .. cap - 1 |-> Free]

Children(t) == CASE t[1] = "ARRAY" -> {t[2]}
                 [] t[1] = "MAP" -> {t[2], t[3]}
                 [] t[1] = "FN" -> {t[2]} \union Range(t[3])
                 [] OTHER -> {}

Home(t, cap) == Hash[t] % cap
Slot(t, distance, cap) == (Home(t, cap) + distance) % cap

\* Mutant: equal hashes are taken for equal types.
SameHash(entry, t) == Hash[entry.type] = Hash[t]

(* The entry find_entry is looking for. *)
Holds(entry, t) == Hash[entry.type] = Hash[t] /\ Matches(t, entry.type)

FindEntry(list, t, cap) ==
    LET Stops(d) == LET entry == list[Slot(t, d, cap)] IN entry = Free \/ Holds(entry, t)
        Least == CHOOSE d \in 0 .. cap - 1 : Stops(d) /\ \A c \in 0 .. d - 1 : ~Stops(c)
    IN IF IsBasic(t) THEN BasicSlot(t) ELSE Slot(t, Least, cap)

(* A turn of the loop of resize. *)
CopySlot(list, i, copy, cap) ==
    IF list[i] = Free THEN copy
    ELSE [copy EXCEPT ![FindEntry(copy, list[i].type, cap)] = list[i]]

\* Mutant: the old slots are copied from the last to the first.
ResizeDown(list, cap) ==
    LET Copied[n \in 0 .. cap] ==
          IF n = 0 THEN EmptyList(2 * cap) ELSE CopySlot(list, cap - n, Copied[n - 1], 2 * cap)
    IN Copied[cap]

\* Mutant: the copy begins behind the basic types, as the deletion of the list does.
ResizeCompounds(list, cap) ==
    LET Copied[n \in BasicTypesCount .. cap] ==
          IF n = BasicTypesCount THEN EmptyList(2 * cap)
          ELSE CopySlot(list, n - 1, Copied[n - 1], 2 * cap)
    IN Copied[cap]

(* resize: the slots are copied in order, so the basic types come first. *)
Resize(list, cap) ==
    LET Copied[n \in 0 .. cap] ==
          IF n = 0 THEN EmptyList(2 * cap) ELSE CopySlot(list, n - 1, Copied[n - 1], 2 * cap)
    IN Copied[cap]

Init == /\ types = [i \in 0 .. InitialCapacity - 1 |->
                      IF i < BasicTypesCount THEN [type |-> Basics[i + 1], at |-> i] ELSE Free]
        /\ count = BasicTypesCount
        /\ capacity = InitialCapacity
        /\ allocated = BasicTypesCount
        /\ given = [t \in Range(Basics) |-> BasicSlot(t)]

(* The compound types a declaration can name: those of types that were     *)
(* registered before.  (Registering a basic type finds it in its slot.)    *)
Nameable == {t \in Compounds : Children(t) \subseteq DOMAIN given}

Give(t, at) == given' = [s \in DOMAIN given \union {t} |-> IF s = t THEN at ELSE given[s]]

RegisterKnown(t) ==
    LET entry == types[FindEntry(types, t, capacity)]
    IN /\ entry # Free
       /\ Give(t, entry.at)
       /\ UNCHANGED <<types, count, capacity, allocated>>

RegisterNew(t) ==
    LET slot == FindEntry(types, t, capacity)
        inserted == [types EXCEPT ![slot] = [type |-> t, at |-> allocated]]
    IN /\ types[slot] = Free
       /\ allocated' = allocated + 1
       /\ count' = count + 1
       /\ IF 4 * (count + 1) >= 3 * capacity
          THEN /\ types' = Resize(inserted, capacity)
               /\ capacity' = 2 * capacity
               /\ Give(t, allocated) \/ Give(t, Lost)
          ELSE /\ types' = inserted
               /\ Give(t, allocated)
               /\ UNCHANGED capacity

Next == /\ Lost \notin Range(given)
        /\ \E t \in Nameable : RegisterKnown(t) \/ RegisterNew(t)

Spec == Init /\ [][Next]_vars
-----------------------------------------------------------------------------
\* Mutant: only the slot of the hash is looked at.
LookAtHome(name) ==
    LET entry == types[NameHash[name] % capacity]
    IN IF entry.type[1] \in {"STRUCT", "UNION"} /\ entry.type[2] = name
       THEN entry.at ELSE Free.at

(* get_user_type: the address of a struct or union by its name. *)
GetUserType(name) ==
    LET At(d) == types[((NameHash[name] % capacity) + d) % capacity]
        Stops(d) == \/ At(d) = Free
                    \/ /\ Hash[At(d).type] = NameHash[name]
                       /\ At(d).type[1] \in {"STRUCT", "UNION"}
                       /\ At(d).type[2] = name
    IN At(CHOOSE d \in 0 .. capacity - 1 : Stops(d) /\ \A c \in 0 .. d - 1 : ~Stops(c)).at

(* The variables have their types; there is always a free slot, so that    *)
(* the unbounded probes of find_entry and get_user_type end.               *)
TypeOK == /\ DOMAIN types = 0 .. capacity - 1
          /\ \A i \in DOMAIN types :
               types[i] = Free \/ /\ types[i].type \in KnownTypes
                                  /\ types[i].at \in 0 .. allocated - 1
          /\ count = Cardinality({i \in DOMAIN types : types[i] # Free})
          /\ 4 * count < 3 * capacity
          /\ given \in [DOMAIN given -> 0 .. allocated - 1 \union {Lost}]

(* What the assertion `i >= 7` of find_entry says, and what every access   *)
(* to a basic type by its enumerator needs: the basic types stay in their  *)
(* slots, in every table a growing list is copied into, and no other type  *)
(* gets there.                                                             *)
BasicsInPlace ==
    \A i \in 0 .. BasicTypesCount - 1 : types[i] = [type |-> Basics[i + 1], at |-> i]

(* Types the list itself cannot tell from another one a program may name:  *)
(* they match it and have its hash.  Any matches everything, and hash_type *)
(* drops the key of a map, so that [Any, V] and [K, V] are such a pair.    *)
Confusable == {t \in KnownTypes : \E s \in KnownTypes \ {t} : Hash[s] = Hash[t] /\ Matches(t, s)}

(* One type, one address: a type that was registered has the address of an *)
(* entry that is its own, and keeps it while the list grows, whatever else *)
(* is registered, confusable types among it; except for the one whose      *)
(* answer was read out of the freed array.                                 *)
OneAddressPerType ==
    /\ \A s \in DOMAIN given, t \in DOMAIN given \ Confusable :
         given[s] = given[t] /\ given[s] # Lost => s = t
    /\ \A t \in DOMAIN given \ Confusable : given[t] # Lost =>
         \E i \in DOMAIN types : types[i] = [type |-> t, at |-> given[t]]

(* A struct or a union is found by its name from its registration on, and  *)
(* not before: a declaration that uses it later gets its type, wherever    *)
(* other types have pushed its entry.                                      *)
UserTypesFound ==
    Lost \notin Range(given) =>
      \A t \in UserTypes \ Confusable :
        GetUserType(t[2]) = IF t \in DOMAIN given THEN given[t] ELSE Free.at
=============================================================================
