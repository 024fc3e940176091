---------------------------- MODULE TableProofs -----------------------------
(***************************************************************************)
(* That the open-addressing table of Table is the map of FiniteMap, for    *)
(* every set of keys, every hash and every initial capacity, and that its  *)
(* unbounded probe loop always finds its end.                              *)
(*                                                                         *)
(* The argument is about chains: going from the home of a stored key to    *)
(* its slot one meets used slots only.  A probe has found the slots behind *)
(* it taken by other keys, so a free slot it stops at tells that its key   *)
(* is nowhere, and a new entry put there leaves every chain whole.  A free *)
(* slot is always left, hence no probe comes round.                        *)
(***************************************************************************)
EXTENDS Table, FiniteSetTheorems, TLAPS

(* What a probe for k that is at slot i has seen. *)
Searched(table, i, k, cap) ==
    \A j \in Slots(cap) : Distance(k, j, cap) < Distance(k, i, cap) => Taken(table, j, k)

Copying == pc \in {"turn", "place"}

(* The entries of the slots copied so far, and nothing else, are in temp. *)
Copied == /\ \A j \in Used(temp) : \E i \in Used(entries) : i < turn /\ temp[j] = entries[i]
          /\ \A i \in Used(entries) : i < turn => \E j \in Used(temp) : temp[j] = entries[i]
          /\ Cardinality(Used(temp)) = Cardinality({i \in Used(entries) : i < turn})

(* The inductive invariant. *)
IInv == /\ TypeOK
        /\ Chained(entries, capacity)
        /\ Distinct(entries)
        /\ size = Cardinality(Used(entries))
        /\ ~Copying => 4 * size < 3 * capacity
        /\ pc = "probe" => Searched(entries, index, call.key, capacity)
        /\ Copying => /\ Chained(temp, 2 * capacity)
                      /\ Distinct(temp)
                      /\ Copied
        /\ pc = "place" => /\ entries[turn] # NULL
                           /\ Searched(temp, index, entries[turn].key, 2 * capacity)

Tables(cap) == [Slots(cap) -> Entries \union {NULL}]
-----------------------------------------------------------------------------
(* The home of a key is a slot.                                            *)
LEMMA HomeIsSlot ==
  ASSUME NEW k \in Keys, NEW cap \in Nat \ {0}
  PROVE  Home(k, cap) \in Slots(cap)
<1>1. Hash[k] \in Nat
  BY HashAssumption
<1>2. \A h \in Nat : h % cap \in 0 .. cap - 1
  OBVIOUS
<1> QED
  BY <1>1, <1>2 DEF Home, Slots

(* Distances from a home are smaller than the capacity, and tell slots     *)
(* apart.                                                                  *)
LEMMA DistanceFacts ==
  ASSUME NEW k \in Keys, NEW cap \in Nat \ {0}, NEW i \in Slots(cap), NEW j \in Slots(cap)
  PROVE  /\ Distance(k, i, cap) \in Slots(cap)
         /\ Distance(k, i, cap) = Distance(k, j, cap) => i = j
         /\ Distance(k, i, cap) = 0 <=> i = Home(k, cap)
<1>1. Home(k, cap) \in Slots(cap)
  BY HomeIsSlot
<1> QED
  BY <1>1 DEF Distance, Slots

(* The next slot of a probe is one further away, unless the probe has come *)
(* round to its home.                                                      *)
LEMMA AfterFacts ==
  ASSUME NEW k \in Keys, NEW cap \in Nat \ {0}, NEW i \in Slots(cap)
  PROVE  /\ After(i, cap) \in Slots(cap)
         /\ After(i, cap) # Home(k, cap) => Distance(k, After(i, cap), cap) = Distance(k, i, cap) + 1
         /\ After(i, cap) = Home(k, cap) => Distance(k, i, cap) = cap - 1
<1>1. Home(k, cap) \in Slots(cap)
  BY HomeIsSlot
<1> QED
  BY <1>1 DEF Distance, After, Slots

(* The used slots are finitely many, at most the capacity; with fewer, one *)
(* is free.                                                                *)
LEMMA UsedFacts ==
  ASSUME NEW cap \in Nat \ {0}, NEW table \in Tables(cap)
  PROVE  /\ IsFiniteSet(Used(table))
         /\ Cardinality(Used(table)) \in 0 .. cap
         /\ Cardinality(Used(table)) < cap => \E i \in Slots(cap) : table[i] = NULL
<1>1. DOMAIN table = Slots(cap)
  BY DEF Tables
<1>2. IsFiniteSet(Slots(cap)) /\ Cardinality(Slots(cap)) = cap
  <2>1. 0 \in Int /\ cap - 1 \in Int
    OBVIOUS
  <2> QED
    BY <2>1, FS_Interval DEF Slots
<1>3. Used(table) \in SUBSET Slots(cap)
  BY <1>1 DEF Used
<1>4. IsFiniteSet(Used(table)) /\ Cardinality(Used(table)) <= cap
  BY <1>2, <1>3, FS_Subset
<1>5. Cardinality(Used(table)) \in Nat
  BY <1>4, FS_CardinalityType
<1>6. Used(table) = Slots(cap) => Cardinality(Used(table)) = cap
  BY <1>2
<1>7. Cardinality(Used(table)) < cap => Used(table) # Slots(cap)
  BY <1>5, <1>6
<1> QED
  BY <1>1, <1>3, <1>4, <1>5, <1>7 DEF Used
-----------------------------------------------------------------------------
(* A probe that goes on past a taken slot has still seen taken slots only. *)
LEMMA SearchGoesOn ==
  ASSUME NEW cap \in Nat \ {0}, NEW table \in Tables(cap), NEW k \in Keys,
         NEW i \in Slots(cap),
         Searched(table, i, k, cap), Taken(table, i, k),
         Cardinality(Used(table)) < cap
  PROVE  /\ After(i, cap) \in Slots(cap)
         /\ After(i, cap) # Home(k, cap)
         /\ Searched(table, After(i, cap), k, cap)
<1>1. After(i, cap) \in Slots(cap)
  BY AfterFacts
<1>2. ASSUME NEW j \in Slots(cap), Distance(k, j, cap) <= Distance(k, i, cap)
      PROVE  Taken(table, j, k)
  <2>1. /\ Distance(k, i, cap) \in Nat
        /\ Distance(k, j, cap) \in Nat
        /\ Distance(k, i, cap) = Distance(k, j, cap) => i = j
    BY DistanceFacts DEF Slots
  <2>2. CASE i = j
    BY <2>2
  <2>3. CASE Distance(k, j, cap) < Distance(k, i, cap)
    BY <2>3 DEF Searched
  <2> QED
    BY <1>2, <2>1, <2>2, <2>3
<1>3. After(i, cap) # Home(k, cap)
  <2> SUFFICES ASSUME After(i, cap) = Home(k, cap)
               PROVE  FALSE
    OBVIOUS
  <2>1. Distance(k, i, cap) = cap - 1
    BY AfterFacts
  <2>2. PICK j \in Slots(cap) : table[j] = NULL
    BY UsedFacts
  <2>3. Distance(k, j, cap) <= cap - 1
    BY DistanceFacts DEF Slots
  <2> QED
    BY <1>2, <2>1, <2>2, <2>3 DEF Taken
<1>4. Distance(k, After(i, cap), cap) = Distance(k, i, cap) + 1
  BY <1>3, AfterFacts
<1>5. \A j \in Slots(cap) : Distance(k, j, cap) \in Nat /\ Distance(k, i, cap) \in Nat
  BY DistanceFacts DEF Slots
<1> QED
  BY <1>1, <1>2, <1>3, <1>4, <1>5 DEF Searched

(* At its home a probe has seen nothing yet.                               *)
LEMMA SearchBegins ==
  ASSUME NEW cap \in Nat \ {0}, NEW table, NEW k \in Keys
  PROVE  Searched(table, Home(k, cap), k, cap)
<1>1. Home(k, cap) \in Slots(cap)
  BY HomeIsSlot
<1>2. Distance(k, Home(k, cap), cap) = 0
  BY <1>1, DistanceFacts
<1>3. \A j \in Slots(cap) : Distance(k, j, cap) \in Nat
  BY DistanceFacts DEF Slots
<1> QED
  BY <1>2, <1>3 DEF Searched

(* A probe that stops at a free slot has shown that its key is not stored. *)
LEMMA FreeSlotMeansAbsent ==
  ASSUME NEW cap \in Nat \ {0}, NEW table \in Tables(cap), NEW k \in Keys,
         NEW i \in Slots(cap),
         Chained(table, cap), Searched(table, i, k, cap), table[i] = NULL
  PROVE  \A j \in Used(table) : table[j].key # k
<1> SUFFICES ASSUME NEW j \in Used(table), table[j].key = k
             PROVE  FALSE
  OBVIOUS
<1>1. j \in Slots(cap) /\ table[j] # NULL
  BY DEF Used, Tables
<1>2. ~Taken(table, j, k)
  BY DEF Taken
<1>3. ~(Distance(k, j, cap) < Distance(k, i, cap))
  BY <1>1, <1>2 DEF Searched
<1>4. /\ Distance(k, i, cap) \in Nat
      /\ Distance(k, j, cap) \in Nat
      /\ Distance(k, i, cap) = Distance(k, j, cap) => i = j
  BY <1>1, DistanceFacts DEF Slots
<1>5. Distance(k, i, cap) < Distance(k, j, cap)
  BY <1>1, <1>3, <1>4
<1> QED
  BY <1>5 DEF Chained

(* With distinct keys, the value of a key is that of its slot.             *)
LEMMA ValueOfStored ==
  ASSUME NEW table, Distinct(table), NEW i \in Used(table)
  PROVE  ValueOf(table, table[i].key) = table[i].value
<1> DEFINE at == {j \in Used(table) : table[j].key = table[i].key}
<1>1. at = {i}
  BY DEF Distinct
<1>2. (CHOOSE j \in at : TRUE) = i
  BY <1>1
<1> QED
  BY <1>1, <1>2 DEF ValueOf

(* A key that no slot holds has no value.                                  *)
LEMMA ValueOfAbsent ==
  ASSUME NEW table, NEW k, \A i \in Used(table) : table[i].key # k
  PROVE  ValueOf(table, k) = NULL
BY DEF ValueOf

Written(new, table, i, e) == new = [table EXCEPT ![i] = e]

(* Writing a key into the slot its probe stopped at, free or its own,      *)
(* keeps the chains and the keys apart and changes the value of that key   *)
(* alone.                                                                  *)
LEMMA WriteKeepsTable ==
  ASSUME NEW cap \in Nat \ {0}, NEW table \in Tables(cap), NEW i \in Slots(cap),
         NEW e \in Entries,
         Chained(table, cap), Distinct(table), Searched(table, i, e.key, cap),
         ~Taken(table, i, e.key),
         NEW new, Written(new, table, i, e)
  PROVE  /\ new \in Tables(cap)
         /\ Used(new) = Used(table) \union {i}
         /\ Chained(new, cap)
         /\ Distinct(new)
         /\ \A k \in Keys : ValueOf(new, k) = IF k = e.key THEN e.value ELSE ValueOf(table, k)
<1>1. new \in Tables(cap)
  BY DEF Tables, Written
<1>2. e # NULL /\ e.key \in Keys
  BY NullAssumption DEF Entries
<1>3. \A j \in Slots(cap) : new[j] = IF j = i THEN e ELSE table[j]
  BY DEF Tables, Written
<1>4. Used(new) = Used(table) \union {i}
  BY <1>1, <1>2, <1>3 DEF Used, Tables
<1>5. \A j \in Used(table) : j # i => table[j].key # e.key
  <2>1. CASE table[i] = NULL
    BY <2>1, <1>2, FreeSlotMeansAbsent
  <2>2. CASE table[i] # NULL
    <3>1. table[i].key = e.key /\ i \in Used(table)
      BY <2>2 DEF Taken, Used, Tables
    <3> QED
      BY <3>1 DEF Distinct
  <2> QED
    BY <2>1, <2>2
<1>6. Chained(new, cap)
  <2> SUFFICES ASSUME NEW m \in Used(new), NEW j \in Slots(cap),
                      Distance(new[m].key, j, cap) < Distance(new[m].key, m, cap)
               PROVE  new[j] # NULL
    BY DEF Chained
  <2>1. m \in Slots(cap)
    BY <1>1 DEF Used, Tables
  <2>2. CASE j = i
    BY <2>2, <1>2, <1>3
  <2>3. CASE j # i /\ m = i
    <3>1. Taken(table, j, e.key)
      BY <2>3, <1>3 DEF Searched
    <3> QED
      BY <3>1, <2>3, <1>3 DEF Taken
  <2>4. CASE j # i /\ m # i
    <3>1. m \in Used(table) /\ new[m] = table[m]
      BY <2>4, <2>1, <1>3, <1>4
    <3> QED
      BY <3>1, <2>4, <1>3 DEF Chained
  <2> QED
    BY <2>2, <2>3, <2>4
<1>7. Distinct(new)
  <2> SUFFICES ASSUME NEW m \in Used(new), NEW n \in Used(new), new[m].key = new[n].key
               PROVE  m = n
    BY DEF Distinct
  <2>1. m \in Slots(cap) /\ n \in Slots(cap)
    BY <1>1 DEF Used, Tables
  <2>2. CASE m = i \/ n = i
    BY <2>1, <2>2, <1>3, <1>4, <1>5
  <2>3. CASE m # i /\ n # i
    BY <2>1, <2>3, <1>3, <1>4 DEF Distinct
  <2> QED
    BY <2>2, <2>3
<1>8. ASSUME NEW k \in Keys
      PROVE  ValueOf(new, k) = IF k = e.key THEN e.value ELSE ValueOf(table, k)
  <2>1. CASE k = e.key
    <3>1. i \in Used(new) /\ new[i] = e
      BY <1>3, <1>4
    <3>2. ValueOf(new, new[i].key) = new[i].value
      BY <3>1, <1>7, ValueOfStored
    <3> QED
      BY <2>1, <3>1, <3>2
  <2>2. CASE k # e.key /\ \E j \in Used(table) : table[j].key = k
    <3>1. PICK j \in Used(table) : table[j].key = k
      BY <2>2
    <3>2. j # i
      BY <3>1, <2>2 DEF Taken, Used
    <3>3. j \in Used(new) /\ new[j] = table[j]
      BY <3>2, <1>3, <1>4 DEF Used, Tables
    <3>4. ValueOf(table, table[j].key) = table[j].value
      BY ValueOfStored
    <3>5. ValueOf(new, new[j].key) = new[j].value
      BY <3>3, <1>7, ValueOfStored
    <3> QED
      BY <2>2, <3>1, <3>3, <3>4, <3>5
  <2>3. CASE k # e.key /\ \A j \in Used(table) : table[j].key # k
    <3>1. \A j \in Used(new) : new[j].key # k
      BY <2>3, <1>3, <1>4 DEF Used, Tables
    <3>2. ValueOf(new, k) = NULL /\ ValueOf(table, k) = NULL
      BY <2>3, <3>1, ValueOfAbsent
    <3> QED
      BY <2>3, <3>2
  <2> QED
    BY <2>1, <2>2, <2>3
<1> QED
  BY <1>1, <1>4, <1>6, <1>7, <1>8
-----------------------------------------------------------------------------
(* What follows from the invariant at once: the tables are tables, and the *)
(* one that is probed has room.                                            *)
LEMMA RoomToProbe ==
  ASSUME IInv
  PROVE  /\ capacity \in Nat \ {0} /\ 2 * capacity \in Nat \ {0}
         /\ entries \in Tables(capacity)
         /\ size \in 0 .. capacity
         /\ ~Copying => size < capacity
         /\ Copying => temp \in Tables(2 * capacity) /\ Cardinality(Used(temp)) < 2 * capacity
<1>1. /\ capacity \in Nat \ {0} /\ 2 * capacity \in Nat \ {0}
      /\ entries \in Tables(capacity)
      /\ Copying => temp \in Tables(2 * capacity)
  BY DEF IInv, TypeOK, Tables, Copying
<1>2. size \in 0 .. capacity
  BY <1>1, UsedFacts DEF IInv
<1>3. ~Copying => size < capacity
  BY <1>1, <1>2 DEF IInv
<1>4. ASSUME Copying
      PROVE  Cardinality(Used(temp)) < 2 * capacity
  <2> DEFINE done == {i \in Used(entries) : i < turn}
  <2>1. done \in SUBSET Used(entries)
    OBVIOUS
  <2>2. IsFiniteSet(Used(entries)) /\ Cardinality(Used(entries)) \in 0 .. capacity
    BY <1>1, UsedFacts
  <2>3. Cardinality(done) <= Cardinality(Used(entries)) /\ Cardinality(done) \in Nat
    BY <2>1, <2>2, FS_Subset, FS_CardinalityType
  <2>4. Cardinality(Used(temp)) = Cardinality(done)
    BY <1>4 DEF IInv, Copied
  <2> QED
    BY <1>1, <2>2, <2>3, <2>4
<1> QED
  BY <1>1, <1>2, <1>3, <1>4

(* The empty table has no used slot.                                       *)
LEMMA EmptyTableFacts ==
  ASSUME NEW cap \in Nat \ {0}
  PROVE  /\ EmptyTable(cap) \in Tables(cap)
         /\ Used(EmptyTable(cap)) = {}
         /\ Cardinality(Used(EmptyTable(cap))) = 0
         /\ Chained(EmptyTable(cap), cap)
         /\ Distinct(EmptyTable(cap))
<1>1. EmptyTable(cap) \in Tables(cap)
  BY DEF EmptyTable, Tables
<1>2. Used(EmptyTable(cap)) = {}
  BY DEF EmptyTable, Used
<1> QED
  BY <1>1, <1>2, FS_EmptySet DEF Chained, Distinct

(* The empty table of the beginning meets the invariant. *)
LEMMA InitInvariant ==
  Init => IInv
<1> SUFFICES ASSUME Init
             PROVE  IInv
  OBVIOUS
<1>1. InitialCapacity \in Nat \ {0}
  BY CapacityAssumption
<1>2. TypeOK
  BY <1>1, EmptyTableFacts DEF Init, TypeOK, Tables, Slots
<1>3. 4 * size < 3 * capacity
  BY <1>1 DEF Init
<1> QED
  BY <1>1, <1>2, <1>3, EmptyTableFacts DEF Init, IInv, Copying

(* Calling begins a probe at the home of the key.                          *)
LEMMA CallStep ==
  ASSUME IInv, Call
  PROVE  IInv'
<1>1. call' \in Calls /\ call'.key \in Keys /\ call' # NULL
  BY NullAssumption DEF Call, Calls
<1>2. capacity \in Nat \ {0} /\ capacity' = capacity /\ entries' = entries
  BY RoomToProbe DEF Call
<1>3. index' = Home(call'.key, capacity) /\ index' \in Slots(capacity)
  BY <1>1, <1>2, HomeIsSlot DEF Call
<1>4. TypeOK'
  BY <1>1, <1>2, <1>3 DEF Call, IInv, TypeOK, Slots
<1>5. Searched(entries, index', call'.key, capacity)
  BY <1>1, <1>2, <1>3, SearchBegins
<1> QED
  BY <1>2, <1>4, <1>5 DEF Call, IInv, Copying

(* The slot a probe has reached, and the key it is for.                    *)
LEMMA ProbeFacts ==
  ASSUME IInv, pc = "probe"
  PROVE  /\ call \in Calls
         /\ call.key \in Keys
         /\ index \in Slots(capacity)
         /\ Searched(entries, index, call.key, capacity)
         /\ ~Copying
         /\ temp = NULL
BY DEF IInv, TypeOK, Calls, Copying

(* A turn of the probe of a call. *)
LEMMA ProbeOnStep ==
  ASSUME IInv, ProbeOn
  PROVE  /\ IInv'
         /\ index' # Home(call.key, capacity)
<1>1. pc = "probe"
  BY DEF ProbeOn
<1>2. /\ index' \in Slots(capacity)
      /\ index' # Home(call.key, capacity)
      /\ Searched(entries, index', call.key, capacity)
  BY <1>1, ProbeFacts, RoomToProbe, SearchGoesOn DEF ProbeOn, IInv
<1>3. TypeOK'
  BY <1>2 DEF ProbeOn, IInv, TypeOK, Slots
<1> QED
  BY <1>2, <1>3 DEF ProbeOn, IInv, Copying

(* A lookup writes the answer only. *)
LEMMA GetStep ==
  ASSUME IInv, Get
  PROVE  IInv'
<1>1. index \in Slots(capacity)
  BY ProbeFacts DEF Get
<1>2. answer' \in Values \union {NULL}
  BY <1>1 DEF Get, IInv, TypeOK, Entries
<1>3. TypeOK'
  BY <1>2 DEF Get, IInv, TypeOK
<1> QED
  BY <1>3 DEF Get, IInv, Copying

(* What writing the arguments of an insertion into its slot does.          *)
LEMMA WriteFacts ==
  ASSUME IInv, Overwrite \/ Store
  PROVE  /\ entries' \in Tables(capacity)
         /\ Used(entries') = Used(entries) \union {index}
         /\ Chained(entries', capacity)
         /\ Distinct(entries')
         /\ \A k \in Keys : ValueOf(entries', k)
                = IF k = call.key THEN call.value ELSE ValueOf(entries, k)
<1> DEFINE e == [key |-> call.key, value |-> call.value]
<1>1. pc = "probe" /\ Written(entries', entries, index, e)
  BY DEF Overwrite, Store, Written
<1>2. e \in Entries
  BY <1>1, ProbeFacts DEF Overwrite, Store, Calls, Entries
<1>3. ~Taken(entries, index, call.key)
  BY DEF Overwrite, Store, Taken
<1>4. e.key = call.key /\ e.value = call.value
  OBVIOUS
<1>5. Searched(entries, index, e.key, capacity) /\ ~Taken(entries, index, e.key)
  BY <1>1, <1>3, ProbeFacts
<1>6. /\ Chained(entries, capacity) /\ Distinct(entries)
      /\ entries \in Tables(capacity) /\ capacity \in Nat \ {0} /\ index \in Slots(capacity)
  BY <1>1, ProbeFacts, RoomToProbe DEF IInv
<1> HIDE DEF e
<1>7. /\ entries' \in Tables(capacity)
      /\ Used(entries') = Used(entries) \union {index}
      /\ Chained(entries', capacity)
      /\ Distinct(entries')
      /\ \A k \in Keys : ValueOf(entries', k)
                = IF k = e.key THEN e.value ELSE ValueOf(entries, k)
  BY <1>1, <1>2, <1>5, <1>6, WriteKeepsTable
<1> QED
  BY <1>4, <1>7

(* The key of a used slot is not stored elsewhere: its value is replaced. *)
LEMMA OverwriteStep ==
  ASSUME IInv, Overwrite
  PROVE  IInv'
<1>1. /\ entries' \in Tables(capacity)
      /\ Used(entries') = Used(entries) \union {index}
      /\ Chained(entries', capacity)
      /\ Distinct(entries')
  BY WriteFacts
<1>2. index \in Used(entries)
  BY ProbeFacts DEF Overwrite, Used, IInv, TypeOK
<1>3. Used(entries') = Used(entries)
  BY <1>1, <1>2
<1>4. TypeOK'
  BY <1>1 DEF Overwrite, IInv, TypeOK, Tables
<1> QED
  BY <1>1, <1>3, <1>4 DEF Overwrite, IInv, Copying

(* A key that is new takes a free slot; there was room for it. *)
LEMMA StoreStep ==
  ASSUME IInv, Store
  PROVE  IInv'
<1>1. /\ entries' \in Tables(capacity)
      /\ Used(entries') = Used(entries) \union {index}
      /\ Chained(entries', capacity)
      /\ Distinct(entries')
  BY WriteFacts
<1>2. index \notin Used(entries)
  BY DEF Store, Used
<1>3. size' = Cardinality(Used(entries'))
  BY <1>1, <1>2, RoomToProbe, UsedFacts, FS_AddElement DEF Store, IInv
<1>4. pc = "probe" /\ ~Copying /\ temp = NULL
  BY ProbeFacts DEF Store
<1>5. CASE 4 * (size + 1) >= 3 * capacity
  <2>1. /\ pc' = "turn" /\ turn' = 0 /\ temp' = EmptyTable(2 * capacity)
        /\ capacity' = capacity /\ size' = size + 1
        /\ UNCHANGED <<call, index, answer>>
    BY <1>5 DEF Store
  <2>2. temp' \in Tables(2 * capacity) /\ Chained(temp', 2 * capacity) /\ Distinct(temp')
    BY <2>1, RoomToProbe, EmptyTableFacts
  <2>3. TypeOK'
    BY <1>1, <1>4, <2>1, <2>2 DEF IInv, TypeOK, Tables
  <2>4. Used(temp') = {} /\ Cardinality(Used(temp')) = 0
    BY <2>1, RoomToProbe, EmptyTableFacts
  <2>5. {i \in Used(entries') : i < 0} = {}
    BY <1>1 DEF Used, Tables, Slots
  <2>6. Copied'
    BY <2>1, <2>4, <2>5, FS_EmptySet DEF Copied
  <2> QED
    BY <1>1, <1>3, <2>1, <2>2, <2>3, <2>6 DEF IInv, Copying
<1>6. CASE ~(4 * (size + 1) >= 3 * capacity)
  <2>1. /\ pc' = "idle" /\ temp' = NULL
        /\ capacity' = capacity /\ size' = size + 1
        /\ UNCHANGED <<call, index, turn, answer>>
    BY <1>4, <1>6 DEF Store
  <2>2. TypeOK'
    BY <1>1, <2>1 DEF IInv, TypeOK, Tables
  <2>3. 4 * size' < 3 * capacity'
    BY <1>6, <2>1, RoomToProbe
  <2> QED
    BY <1>1, <1>3, <2>1, <2>2, <2>3 DEF IInv, Copying
<1> QED
  BY <1>5, <1>6
-----------------------------------------------------------------------------
(* The copying loop goes over a free slot.                                 *)
LEMMA SkipStep ==
  ASSUME IInv, Skip
  PROVE  IInv'
<1>1. /\ Copying /\ Copying' /\ pc' = "turn" /\ turn' = turn + 1 /\ turn < capacity
      /\ UNCHANGED <<entries, capacity, size, call, index, temp, answer>>
  BY DEF Skip, Copying
<1>2. TypeOK'
  BY <1>1 DEF Skip, IInv, TypeOK
<1>3. \A i \in Used(entries) : i < turn + 1 <=> i < turn
  <2>1. turn \notin Used(entries)
    BY DEF Skip, Used
  <2>2. Used(entries) \subseteq Slots(capacity) /\ turn \in Nat
    BY RoomToProbe DEF Used, Tables, IInv, TypeOK, Slots
  <2> QED
    BY <2>1, <2>2 DEF Slots
<1>4. {i \in Used(entries) : i < turn + 1} = {i \in Used(entries) : i < turn}
  BY <1>3
<1>5. Copied'
  <2>1. Copied
    BY <1>1 DEF IInv
  <2> QED
    BY <1>1, <1>3, <1>4, <2>1 DEF Copied
<1> QED
  BY <1>1, <1>2, <1>5 DEF IInv, Copying

(* It turns to a used slot and begins a probe in the new table.            *)
LEMMA TakeStep ==
  ASSUME IInv, Take
  PROVE  IInv'
<1>1. /\ Copying /\ Copying' /\ pc = "turn" /\ pc' = "place" /\ turn < capacity
      /\ UNCHANGED <<entries, capacity, size, call, temp, turn, answer>>
  BY DEF Take, Copying
<1>2. entries[turn] \in Entries /\ entries[turn].key \in Keys
  BY DEF Take, IInv, TypeOK, Entries, Slots
<1>3. index' = Home(entries[turn].key, 2 * capacity) /\ index' \in Slots(2 * capacity)
  BY <1>2, RoomToProbe, HomeIsSlot DEF Take
<1>4. Searched(temp, index', entries[turn].key, 2 * capacity)
  BY <1>2, <1>3, RoomToProbe, SearchBegins
<1>5. TypeOK'
  BY <1>1, <1>3 DEF IInv, TypeOK, Slots
<1> QED
  BY <1>1, <1>4, <1>5 DEF Take, IInv, Copied

(* The slot the copying probe has reached, and the entry it is for.        *)
LEMMA PlaceFacts ==
  ASSUME IInv, pc = "place"
  PROVE  /\ Copying
         /\ turn \in Slots(capacity)
         /\ turn \in Used(entries)
         /\ entries[turn] \in Entries
         /\ entries[turn].key \in Keys
         /\ index \in Slots(2 * capacity)
         /\ Searched(temp, index, entries[turn].key, 2 * capacity)
         /\ Chained(temp, 2 * capacity)
         /\ Distinct(temp)
         /\ Copied
<1>1. turn \in Slots(capacity)
  BY DEF IInv, TypeOK, Slots
<1>2. entries[turn] \in Entries /\ entries[turn] # NULL
  BY <1>1 DEF IInv, TypeOK
<1>3. turn \in Used(entries)
  BY <1>1, <1>2 DEF Used, IInv, TypeOK
<1>4. entries[turn].key \in Keys
  BY <1>2 DEF Entries
<1> QED
  BY <1>1, <1>2, <1>3, <1>4 DEF IInv, TypeOK, Copying

(* A turn of the probe in the table being filled. *)
LEMMA PlaceOnStep ==
  ASSUME IInv, PlaceOn
  PROVE  /\ IInv'
         /\ index' # Home(entries[turn].key, 2 * capacity)
<1>1. /\ pc = "place" /\ Taken(temp, index, entries[turn].key)
      /\ index' = After(index, 2 * capacity)
      /\ UNCHANGED <<entries, capacity, size, pc, call, temp, turn, answer>>
  BY DEF PlaceOn
<1>2. /\ index' \in Slots(2 * capacity)
      /\ index' # Home(entries[turn].key, 2 * capacity)
      /\ Searched(temp, index', entries[turn].key, 2 * capacity)
  BY <1>1, PlaceFacts, RoomToProbe, SearchGoesOn
<1>3. TypeOK'
  BY <1>1, <1>2 DEF IInv, TypeOK, Slots
<1> QED
  BY <1>1, <1>2, <1>3 DEF IInv, Copying, Copied

(* The probe of a copied entry ends at a free slot, as no entry copied     *)
(* before has its key; writing it there copies the slot.                   *)
LEMMA PlaceStep ==
  ASSUME IInv, Place
  PROVE  IInv'
<1> DEFINE e == entries[turn]
<1>1. /\ pc = "place" /\ pc' = "turn" /\ turn' = turn + 1
      /\ Written(temp', temp, index, e)
      /\ ~Taken(temp, index, e.key)
      /\ UNCHANGED <<entries, capacity, size, call, index, answer>>
  BY DEF Place, Written
<1>2. /\ Copying /\ Copying'
      /\ turn \in Slots(capacity) /\ turn \in Used(entries)
      /\ e \in Entries /\ e.key \in Keys
      /\ index \in Slots(2 * capacity)
      /\ Searched(temp, index, e.key, 2 * capacity)
      /\ Chained(temp, 2 * capacity) /\ Distinct(temp) /\ Copied
  BY <1>1, PlaceFacts DEF Copying
<1>3. 2 * capacity \in Nat \ {0} /\ temp \in Tables(2 * capacity)
  BY <1>2, RoomToProbe
<1>4. \A j \in Used(temp) : temp[j].key # e.key
  <2> SUFFICES ASSUME NEW j \in Used(temp), temp[j].key = e.key
               PROVE  FALSE
    OBVIOUS
  <2>1. PICK i \in Used(entries) : i < turn /\ temp[j] = entries[i]
    BY <1>2 DEF Copied
  <2>2. i = turn
    BY <1>2, <2>1 DEF IInv, Distinct
  <2> QED
    BY <1>2, <2>1, <2>2 DEF Slots
<1>5. index \notin Used(temp)
  BY <1>1, <1>4 DEF Taken, Used
<1> HIDE DEF e
<1>6. /\ temp' \in Tables(2 * capacity)
      /\ Used(temp') = Used(temp) \union {index}
      /\ Chained(temp', 2 * capacity)
      /\ Distinct(temp')
  BY <1>1, <1>2, <1>3, WriteKeepsTable
<1>7. \A j \in Slots(2 * capacity) : temp'[j] = IF j = index THEN e ELSE temp[j]
  BY <1>1, <1>3 DEF Written, Tables
<1>8. Used(entries) \subseteq Slots(capacity) /\ Used(temp) \subseteq Slots(2 * capacity)
  BY <1>3, RoomToProbe DEF Used, Tables
<1>9. \A i \in Used(entries) : i < turn + 1 <=> i < turn \/ i = turn
  BY <1>2, <1>8 DEF Slots
<1>10. Cardinality(Used(temp')) = Cardinality({i \in Used(entries) : i < turn + 1})
  <2> DEFINE done == {i \in Used(entries) : i < turn}
             more == {i \in Used(entries) : i < turn + 1}
  <2>1. more = done \union {turn} /\ turn \notin done
    <3>1. turn \notin done
      BY <1>2 DEF Slots
    <3>2. \A i : i \in more <=> i \in done \union {turn}
      BY <1>2, <1>9
    <3> QED
      BY <3>1, <3>2
  <2>2. IsFiniteSet(Used(entries)) /\ done \in SUBSET Used(entries)
    BY RoomToProbe, UsedFacts
  <2>3. IsFiniteSet(done)
    BY <2>2, FS_Subset
  <2>4. IsFiniteSet(Used(temp))
    BY <1>3, UsedFacts
  <2>5. Cardinality(Used(temp)) = Cardinality(done)
    BY <1>2 DEF Copied
  <2> HIDE DEF done, more
  <2>6. Cardinality(more) = Cardinality(done) + 1
    BY <2>1, <2>3, FS_AddElement
  <2>7. Cardinality(Used(temp')) = Cardinality(Used(temp)) + 1
    BY <1>5, <1>6, <2>4, FS_AddElement
  <2> QED
    BY <2>5, <2>6, <2>7 DEF more
<1>11. Copied'
  <2>1. \A j \in Used(temp') : \E i \in Used(entries) : i < turn + 1 /\ temp'[j] = entries[i]
    <3> SUFFICES ASSUME NEW j \in Used(temp')
                 PROVE  \E i \in Used(entries) : i < turn + 1 /\ temp'[j] = entries[i]
      OBVIOUS
    <3>1. CASE j = index
      BY <3>1, <1>2, <1>7, <1>9 DEF e
    <3>2. CASE j # index
      <4>1. j \in Used(temp) /\ temp'[j] = temp[j]
        BY <3>2, <1>6, <1>7, <1>8
      <4> QED
        BY <4>1, <1>2, <1>9 DEF Copied
    <3> QED
      BY <3>1, <3>2
  <2>2. \A i \in Used(entries) : i < turn + 1 => \E j \in Used(temp') : temp'[j] = entries[i]
    <3> SUFFICES ASSUME NEW i \in Used(entries), i < turn + 1
                 PROVE  \E j \in Used(temp') : temp'[j] = entries[i]
      OBVIOUS
    <3>1. CASE i = turn
      BY <3>1, <1>2, <1>6, <1>7 DEF e
    <3>2. CASE i # turn
      <4>1. PICK j \in Used(temp) : temp[j] = entries[i]
        BY <3>2, <1>2, <1>9 DEF Copied
      <4> QED
        BY <4>1, <1>5, <1>6, <1>7, <1>8
    <3> QED
      BY <3>1, <3>2
  <2> QED
    BY <1>1, <1>10, <2>1, <2>2 DEF Copied
<1>12. TypeOK'
  BY <1>1, <1>2, <1>6 DEF IInv, TypeOK, Tables, Slots
<1> QED
  BY <1>1, <1>2, <1>6, <1>11, <1>12 DEF IInv, Copying

(* When every slot has been copied the two tables hold the same.           *)
LEMMA CopyIsComplete ==
  ASSUME IInv, pc = "turn", turn = capacity
  PROVE  /\ \A k \in Keys : ValueOf(temp, k) = ValueOf(entries, k)
         /\ Distinct(temp)
         /\ Cardinality(Used(temp)) = size
<1>1. Copied /\ Distinct(temp) /\ Distinct(entries)
  BY DEF IInv, Copying
<1>2. \A i \in Used(entries) : i < turn
  BY RoomToProbe DEF Used, Tables, Slots
<1>3. {i \in Used(entries) : i < turn} = Used(entries)
  BY <1>2
<1>4. Cardinality(Used(temp)) = size
  BY <1>1, <1>3 DEF Copied, IInv
<1>5. ASSUME NEW k \in Keys
      PROVE  ValueOf(temp, k) = ValueOf(entries, k)
  <2>1. CASE \E i \in Used(entries) : entries[i].key = k
    <3>1. PICK i \in Used(entries) : entries[i].key = k
      BY <2>1
    <3>2. PICK j \in Used(temp) : temp[j] = entries[i]
      BY <1>1, <1>2 DEF Copied
    <3>3. ValueOf(entries, entries[i].key) = entries[i].value
      BY <1>1, ValueOfStored
    <3>4. ValueOf(temp, temp[j].key) = temp[j].value
      BY <1>1, ValueOfStored
    <3> QED
      BY <3>1, <3>2, <3>3, <3>4
  <2>2. CASE \A i \in Used(entries) : entries[i].key # k
    <3>1. \A j \in Used(temp) : temp[j].key # k
      BY <2>2, <1>1 DEF Copied
    <3> QED
      BY <2>2, <3>1, ValueOfAbsent
  <2> QED
    BY <2>1, <2>2
<1> QED
  BY <1>1, <1>4, <1>5

(* The filled table takes the place of the old one. *)
LEMMA SwapStep ==
  ASSUME IInv, Swap
  PROVE  IInv'
<1>1. /\ pc = "turn" /\ pc' = "idle" /\ turn = capacity
      /\ entries' = temp /\ capacity' = 2 * capacity /\ temp' = NULL
      /\ UNCHANGED <<size, call, index, turn, answer>>
  BY DEF Swap
<1>2. Chained(temp, 2 * capacity) /\ Distinct(temp) /\ size = Cardinality(Used(temp))
  BY <1>1, CopyIsComplete DEF IInv, Copying
<1>3. TypeOK'
  BY <1>1, RoomToProbe DEF IInv, TypeOK
<1>4. 4 * size < 3 * (2 * capacity)
  BY RoomToProbe
<1> QED
  BY <1>1, <1>2, <1>3, <1>4 DEF IInv, Copying
-----------------------------------------------------------------------------
(* One case per action. *)
LEMMA NextInvariant ==
  IInv /\ [Next]_vars => IInv'
<1> SUFFICES ASSUME IInv, [Next]_vars
             PROVE  IInv'
  OBVIOUS
<1>1. CASE Call
  BY <1>1, CallStep
<1>2. CASE ProbeOn
  BY <1>2, ProbeOnStep
<1>3. CASE Get
  BY <1>3, GetStep
<1>4. CASE Overwrite
  BY <1>4, OverwriteStep
<1>5. CASE Store
  BY <1>5, StoreStep
<1>6. CASE Skip
  BY <1>6, SkipStep
<1>7. CASE Take
  BY <1>7, TakeStep
<1>8. CASE PlaceOn
  BY <1>8, PlaceOnStep
<1>9. CASE Place
  BY <1>9, PlaceStep
<1>10. CASE Swap
  BY <1>10, SwapStep
<1>11. CASE UNCHANGED vars
  BY <1>11 DEF vars, IInv, TypeOK, Copying, Copied
<1> QED
  BY <1>1, <1>2, <1>3, <1>4, <1>5, <1>6, <1>7, <1>8, <1>9, <1>10, <1>11 DEF Next, Serve

(* The invariant holds of every behaviour. *)
LEMMA Invariant ==
  Spec => []IInv
<1> QED
  BY InitInvariant, NextInvariant, PTL DEF Spec

(* The variables have their types in every state, those of the loops while *)
(* they run among them.                                                    *)
THEOREM TypeCorrect ==
  Spec => []TypeOK
<1>1. IInv => TypeOK
  BY DEF IInv
<1> QED
  BY <1>1, Invariant, PTL

(* Every stored key can be reached from its home, in the table in use and  *)
(* in the one being filled.                                                *)
THEOREM AlwaysReachable ==
  Spec => []Reachable
<1>1. IInv => Reachable
  BY DEF IInv, Reachable, Copying
<1> QED
  BY <1>1, Invariant, PTL

(* Keys are stored once, the size is the number of used slots, the load is *)
(* under three quarters between two calls, and a copied table holds what   *)
(* the old one did.                                                        *)
THEOREM AlwaysCopiesFaithfully ==
  Spec => []CopiesFaithfully
<1>1. IInv => CopiesFaithfully
  <2> SUFFICES ASSUME IInv
               PROVE  CopiesFaithfully
    OBVIOUS
  <2>1. pc \in {"idle", "probe"} => 4 * size < 3 * capacity
    BY DEF IInv, Copying
  <2> QED
    BY <2>1, CopyIsComplete DEF IInv, CopiesFaithfully
<1> QED
  BY <1>1, Invariant, PTL

(* No probe comes round to the slot it started from, so the loops of       *)
(* find_entry end although nothing bounds them.                            *)
THEOREM ProbesEnd ==
  Spec => NeverComesRound
<1>1. IInv /\ [Next]_vars =>
         [/\ ProbeOn => index' # Home(call.key, capacity)
          /\ PlaceOn => index' # Home(entries[turn].key, 2 * capacity)]_vars
  BY ProbeOnStep, PlaceOnStep
<1> QED
  BY <1>1, Invariant, PTL DEF Spec, NeverComesRound

(* The table is a map: each of its steps is a step of FiniteMap, or none.  *)
THEOREM TableIsAMap ==
  Spec => IsAMap
<1> DEFINE map == [k \in Keys |-> ValueOf(entries, k)]
           pending == IF pc = "probe" THEN call ELSE NULL
<1>1. Init => Map!Init
  <2> SUFFICES ASSUME Init
               PROVE  Map!Init
    OBVIOUS
  <2>1. Used(entries) = {}
    BY CapacityAssumption, EmptyTableFacts DEF Init
  <2>2. \A k \in Keys : ValueOf(entries, k) = NULL
    BY <2>1, ValueOfAbsent
  <2> QED
    BY <2>2 DEF Init, Map!Init
<1>2. IInv /\ [Next]_vars => [Map!Next]_Map!vars
  <2> SUFFICES ASSUME IInv, [Next]_vars
               PROVE  Map!Next \/ UNCHANGED <<map, pending, answer>>
    BY DEF Map!vars
  <2>1. CASE Call
    <3>1. /\ pending = NULL /\ pending' = call' /\ call' \in Map!Calls
          /\ UNCHANGED <<entries, answer>>
      BY <2>1 DEF Call, Calls, Map!Calls
    <3>2. map' = map
      BY <3>1
    <3> QED
      BY <3>1, <3>2 DEF Map!Next, Map!Call
  <2>2. CASE ProbeOn
    BY <2>2 DEF ProbeOn
  <2>3. CASE Get
    <3>1. pending = call /\ pending' = NULL /\ call # NULL /\ call.op = "get"
      BY <2>3 DEF Get, IInv, TypeOK
    <3>2. map' = map
      BY <2>3 DEF Get
    <3>3. answer' = map[call.key]
      <4>1. index \in Slots(capacity) /\ call.key \in Keys
        BY <2>3, ProbeFacts DEF Get
      <4>2. CASE entries[index] = NULL
        <5>1. \A j \in Used(entries) : entries[j].key # call.key
          BY <4>1, <4>2, <2>3, ProbeFacts, RoomToProbe, FreeSlotMeansAbsent DEF Get, IInv
        <5> QED
          BY <4>1, <4>2, <5>1, <2>3, ValueOfAbsent DEF Get
      <4>3. CASE entries[index] # NULL
        <5>1. index \in Used(entries) /\ entries[index].key = call.key
          BY <4>1, <4>3, <2>3, RoomToProbe DEF Get, Taken, Used, Tables
        <5>2. ValueOf(entries, entries[index].key) = entries[index].value
          BY <5>1, ValueOfStored DEF IInv
        <5> QED
          BY <4>1, <4>3, <5>1, <5>2, <2>3 DEF Get
      <4> QED
        BY <4>2, <4>3
    <3> QED
      BY <3>1, <3>2, <3>3 DEF Map!Next, Map!Get
  <2>4. CASE Overwrite \/ Store
    <3>1. pending = call /\ pending' = NULL /\ call # NULL /\ call.op = "insert" /\ UNCHANGED answer
      BY <2>4 DEF Overwrite, Store, IInv, TypeOK
    <3>2. map' = [map EXCEPT ![call.key] = call.value]
      BY <2>4, WriteFacts
    <3> QED
      BY <3>1, <3>2 DEF Map!Next, Map!Insert
  <2>5. CASE Skip \/ Take \/ PlaceOn \/ Place
    BY <2>5 DEF Skip, Take, PlaceOn, Place
  <2>6. CASE Swap
    <3>1. entries' = temp /\ pending = NULL /\ pending' = NULL /\ UNCHANGED answer
      BY <2>6 DEF Swap
    <3>2. \A k \in Keys : ValueOf(entries', k) = ValueOf(entries, k)
      BY <2>6, <3>1, CopyIsComplete DEF Swap
    <3> QED
      BY <3>1, <3>2
  <2>7. CASE UNCHANGED vars
    BY <2>7 DEF vars
  <2> QED
    BY <2>1, <2>2, <2>3, <2>4, <2>5, <2>6, <2>7 DEF Next, Serve
<1> QED
  BY <1>1, <1>2, Invariant, PTL DEF Spec, IsAMap, Map!Spec
=============================================================================
