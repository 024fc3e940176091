------------------------------- MODULE Table --------------------------------
(***************************************************************************)
(* The open-addressing table of the program, which it has twice: symbols   *)
(* by name in validator/symbolTable.c, values by key in the map objects of *)
(* runtime/object.c.  Both probe linearly from hash & (capacity - 1), keep *)
(* the load under three quarters by copying into a table of twice the      *)
(* size, and put no bound on a probe: it ends at a free slot or at its key.*)
(*                                                                         *)
(* A step is one turn of a loop, of find_entry or of resize_entries.  A    *)
(* key stands for its characters: two names or two strings with the same   *)
(* characters are the same key, as memcmp has it.  The removing functions, *)
(* and the tombstones only they make, are left out: nothing calls them.    *)
(***************************************************************************)
EXTENDS Naturals, FiniteSets

CONSTANTS Keys, Values, NULL,
          Hash,            \* hash(key, length), hash_val(key)
          InitialCapacity  \* 8; a power of two, so that & (capacity - 1) is %

ASSUME HashAssumption == Hash \in [Keys -> Nat]
ASSUME CapacityAssumption == InitialCapacity \in Nat \ {0}
ASSUME NullAssumption ==
    /\ NULL \notin Values
    /\ NULL \notin [key: Keys, value: Values]
    /\ NULL \notin [op: {"insert", "get"}, key: Keys, value: Values \union {NULL}]

VARIABLES entries,   \* the slots, 0 .. capacity - 1
          capacity,
          size,      \* how many slots are used
          pc,        \* "idle", "probe", "turn" or "place"
          call,      \* the arguments of the call being served
          index,     \* the slot a probe is at
          temp,      \* resize_entries' new table, NULL outside it
          turn,      \* resize_entries' i
          answer     \* what the last get returned

vars == <<entries, capacity, size, pc, call, index, temp, turn, answer>>

Entries == [key: Keys, value: Values]
Slots(cap) == 0 .. cap - 1
EmptyTable(cap) == [i \in Slots(cap) |-> NULL]
Calls == [op: {"insert"}, key: Keys, value: Values]
         \union [op: {"get"}, key: Keys, value: {NULL}]

Home(k, cap) == Hash[k] % cap
After(i, cap) == IF i + 1 = cap THEN 0 ELSE i + 1

(* find_entry goes on past a slot that another key uses. *)
Taken(table, i, k) == table[i] # NULL /\ table[i].key # k

Init == /\ entries = EmptyTable(InitialCapacity)
        /\ capacity = InitialCapacity
        /\ size = 0
        /\ pc = "idle"
        /\ call = NULL
        /\ index = 0
        /\ temp = NULL
        /\ turn = 0
        /\ answer = NULL

(* A caller asks for an insertion or for a lookup. *)
Call == /\ pc = "idle"
        /\ call' \in Calls
        /\ index' = Home(call'.key, capacity)
        /\ pc' = "probe"
        /\ UNCHANGED <<entries, capacity, size, temp, turn, answer>>

ProbeOn == /\ pc = "probe"
           /\ Taken(entries, index, call.key)
           /\ index' = After(index, capacity)
           /\ UNCHANGED <<entries, capacity, size, pc, call, temp, turn, answer>>

Get == /\ pc = "probe"
       /\ call.op = "get"
       /\ ~Taken(entries, index, call.key)
       /\ answer' = IF entries[index] = NULL THEN NULL ELSE entries[index].value
       /\ pc' = "idle"
       /\ UNCHANGED <<entries, capacity, size, call, index, temp, turn>>

(* The key is there already: its value is replaced, the rest stays. *)
Overwrite == /\ pc = "probe"
             /\ call.op = "insert"
             /\ ~Taken(entries, index, call.key)
             /\ entries[index] # NULL
             /\ entries' = [entries EXCEPT ![index] = [key |-> call.key, value |-> call.value]]
             /\ pc' = "idle"
             /\ UNCHANGED <<capacity, size, call, index, temp, turn, answer>>

\* Mutant: the table grows when it has no room left for the next key, not before.
StoreUntilFull ==
    /\ pc = "probe"
    /\ call.op = "insert"
    /\ entries[index] = NULL
    /\ entries' = [entries EXCEPT ![index] = [key |-> call.key, value |-> call.value]]
    /\ size' = size + 1
    /\ IF size + 1 > capacity
       THEN pc' = "turn" /\ temp' = EmptyTable(2 * capacity) /\ turn' = 0
       ELSE pc' = "idle" /\ UNCHANGED <<temp, turn>>
    /\ UNCHANGED <<capacity, call, index, answer>>

(* A new key takes the free slot, and the load is looked at. *)
Store == /\ pc = "probe"
         /\ call.op = "insert"
         /\ entries[index] = NULL
         /\ entries' = [entries EXCEPT ![index] = [key |-> call.key, value |-> call.value]]
         /\ size' = size + 1
         /\ IF 4 * (size + 1) >= 3 * capacity
            THEN /\ pc' = "turn"
                 /\ temp' = EmptyTable(2 * capacity)
                 /\ turn' = 0
            ELSE /\ pc' = "idle"
                 /\ UNCHANGED <<temp, turn>>
         /\ UNCHANGED <<capacity, call, index, answer>>

Skip == /\ pc = "turn"
        /\ turn < capacity
        /\ entries[turn] = NULL
        /\ turn' = turn + 1
        /\ UNCHANGED <<entries, capacity, size, pc, call, index, temp, answer>>

\* Mutant: the copied entry is looked for from where it is at home in the old table.
TakeFromOldHome ==
    /\ pc = "turn"
    /\ turn < capacity
    /\ entries[turn] # NULL
    /\ index' = Home(entries[turn].key, capacity)
    /\ pc' = "place"
    /\ UNCHANGED <<entries, capacity, size, call, temp, turn, answer>>

Take == /\ pc = "turn"
        /\ turn < capacity
        /\ entries[turn] # NULL
        /\ index' = Home(entries[turn].key, 2 * capacity)
        /\ pc' = "place"
        /\ UNCHANGED <<entries, capacity, size, call, temp, turn, answer>>

PlaceOn == /\ pc = "place"
           /\ Taken(temp, index, entries[turn].key)
           /\ index' = After(index, 2 * capacity)
           /\ UNCHANGED <<entries, capacity, size, pc, call, temp, turn, answer>>

\* Mutant: the entry goes to the slot the probe started from, over what is there.
PlaceOver ==
    /\ pc = "place"
    /\ ~Taken(temp, index, entries[turn].key)
    /\ temp' = [temp EXCEPT ![Home(entries[turn].key, 2 * capacity)] = entries[turn]]
    /\ turn' = turn + 1
    /\ pc' = "turn"
    /\ UNCHANGED <<entries, capacity, size, call, index, answer>>

Place == /\ pc = "place"
         /\ ~Taken(temp, index, entries[turn].key)
         /\ temp' = [temp EXCEPT ![index] = entries[turn]]
         /\ turn' = turn + 1
         /\ pc' = "turn"
         /\ UNCHANGED <<entries, capacity, size, call, index, answer>>

\* Mutant: the new entries are put in the table, its capacity stays.
SwapEntries ==
    /\ pc = "turn"
    /\ turn = capacity
    /\ entries' = temp
    /\ temp' = NULL
    /\ pc' = "idle"
    /\ UNCHANGED <<capacity, size, call, index, turn, answer>>

Swap == /\ pc = "turn"
        /\ turn = capacity
        /\ entries' = temp
        /\ capacity' = 2 * capacity
        /\ temp' = NULL
        /\ pc' = "idle"
        /\ UNCHANGED <<size, call, index, turn, answer>>

(* What the table does once it is called, and all it does. *)
Serve == \/ ProbeOn \/ Get \/ Overwrite \/ Store
         \/ Skip \/ Take \/ PlaceOn \/ Place \/ Swap

Next == Call \/ Serve

(* A call runs on one thread, to its end: while it can go on it does. *)
Spec == Init /\ [][Next]_vars /\ WF_vars(Serve)
-----------------------------------------------------------------------------
Used(table) == {i \in DOMAIN table : table[i] # NULL}

(* How many slots after its home a probe for k comes to slot i. *)
Distance(k, i, cap) == IF i >= Home(k, cap) THEN i - Home(k, cap)
                                            ELSE i + cap - Home(k, cap)

(* No probe passes a free slot on its way to a key that is stored. *)
Chained(table, cap) ==
    \A i \in Used(table) : \A j \in Slots(cap) :
        Distance(table[i].key, j, cap) < Distance(table[i].key, i, cap)
            => table[j] # NULL

Distinct(table) ==
    \A i, j \in Used(table) : table[i].key = table[j].key => i = j

ValueOf(table, k) == LET at == {i \in Used(table) : table[i].key = k}
                     IN IF at = {} THEN NULL ELSE table[CHOOSE i \in at : TRUE].value

(* The variables have their types; temp is a table while one is copied.   *)
TypeOK == /\ capacity \in Nat \ {0}
          /\ entries \in [Slots(capacity) -> Entries \union {NULL}]
          /\ size \in Nat
          /\ pc \in {"idle", "probe", "turn", "place"}
          /\ call \in Calls \union {NULL}
          /\ pc # "idle" => call # NULL
          /\ index \in Nat
          /\ pc = "probe" => index \in Slots(capacity)
          /\ pc = "place" => index \in Slots(2 * capacity) /\ turn < capacity
          /\ turn \in 0 .. capacity
          /\ IF pc \in {"turn", "place"}
             THEN temp \in [Slots(2 * capacity) -> Entries \union {NULL}]
             ELSE temp = NULL
          /\ answer \in Values \union {NULL}

(* Every stored key can be reached from its home, in the table in use and  *)
(* in the one being filled, whatever the order of the insertions: what     *)
(* find_entry takes for granted when it stops at a free slot.              *)
Reachable == /\ Chained(entries, capacity)
             /\ pc \in {"turn", "place"} => Chained(temp, 2 * capacity)

(* A key is stored once, and no key is lost or made up by the copying: at  *)
(* its end the new table holds what the old one does, the size is right    *)
(* and the load is under three quarters again.                             *)
CopiesFaithfully ==
    /\ Distinct(entries)
    /\ size = Cardinality(Used(entries))
    /\ pc = "turn" /\ turn = capacity =>
         /\ \A k \in Keys : ValueOf(temp, k) = ValueOf(entries, k)
         /\ Distinct(temp)
         /\ Cardinality(Used(temp)) = size
    /\ pc \in {"idle", "probe"} => 4 * size < 3 * capacity

(* No probe comes round to the slot it started from: the loop of           *)
(* find_entry, which has no bound of its own, never goes on for ever.      *)
NeverComesRound ==
    [][/\ ProbeOn => index' # Home(call.key, capacity)
       /\ PlaceOn => index' # Home(entries[turn].key, 2 * capacity)]_vars

(* Every call returns. *)
CallsReturn == (pc # "idle") ~> (pc = "idle")

(* The table is the map its callers take it for: a call takes effect when  *)
(* its slot is written or read, and copying into a larger table is not     *)
(* seen from outside.                                                      *)
Map == INSTANCE FiniteMap WITH
         map <- [k \in Keys |-> ValueOf(entries, k)],
         pending <- IF pc = "probe" THEN call ELSE NULL

IsAMap == Map!Spec
=============================================================================
