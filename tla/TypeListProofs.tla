--------------------------- MODULE TypeListProofs ---------------------------
(***************************************************************************)
(* That the type list keeps one address for each type, its basic types in  *)
(* their slots, and its user types where their names find them: for every  *)
(* set of compound types, every hash, every matching that is symmetric,    *)
(* and every capacity to begin with that leaves room.  What the list       *)
(* confuses by its hash and matching is named (Confusable) and exempt.     *)
(*                                                                         *)
(* The argument is about probes.  An entry of a compound type is reached   *)
(* from its home over used slots, so a probe for its type comes to it      *)
(* before it comes to a free slot; a probe that ends at a free slot proves *)
(* that the type is not in the list.  The copy into a larger list keeps    *)
(* this turn by turn, and the basic types, which are not probed for, get   *)
(* their slots in its first seven turns, before a probe can take them.     *)
(***************************************************************************)
EXTENDS TypeList, FiniteSetTheorems, WellFoundedInduction, TLAPS

Entries == [type: KnownTypes, at: Nat]
Lists(cap) == [0 .. cap - 1 -> Entries \union {Free}]

Used(list) == {i \in DOMAIN list : list[i] # Free}

(* An entry can be reached from its home: no free slot is on the way.      *)
Reached(list, i, cap) ==
    \E d \in 0 .. cap - 1 :
        /\ i = Slot(list[i].type, d, cap)
        /\ \A c \in 0 .. d - 1 : list[Slot(list[i].type, c, cap)] # Free

Chained(list, cap) == \A i \in Used(list) : Reached(list, i, cap)

(* What the list takes for one type. *)
Alike(s, t) == s = t \/ (Hash[s] = Hash[t] /\ Matches(t, s))

Distinct(list) ==
    \A i, j \in Used(list) :
      Alike(list[i].type, list[j].type) \/ list[i].at = list[j].at => i = j

Basic(i) == [type |-> Basics[i + 1], at |-> i]

(* What is true of a list between two registrations. *)
Sound(list, cap) ==
    /\ list \in Lists(cap)
    /\ Chained(list, cap)
    /\ Distinct(list)
    /\ \A i \in 0 .. BasicTypesCount - 1 : list[i] = Basic(i)

(* The inductive invariant. *)
IInv == /\ capacity \in Nat /\ 4 * BasicTypesCount < 3 * capacity
        /\ Sound(types, capacity)
        /\ count = Cardinality(Used(types))
        /\ 4 * count < 3 * capacity
        /\ allocated \in Nat
        /\ \A i \in Used(types) : types[i].at < allocated /\ types[i].type \in DOMAIN given
        /\ DOMAIN given \subseteq KnownTypes
        /\ given = [t \in DOMAIN given |-> given[t]]
        /\ \A t \in DOMAIN given :
             \E i \in Used(types) : Alike(types[i].type, t) /\ given[t] \in {types[i].at, Lost}
-----------------------------------------------------------------------------
(* A set of numbers that is not empty has a least.                         *)
LEMMA LeastNumber ==
  ASSUME NEW S, S \subseteq Nat, S # {}
  PROVE  \E m \in S : \A n \in S : m <= n
<1> DEFINE R == OpToRel(<, Nat)
<1>1. IsWellFoundedOn(R, Nat)
  BY NatLessThanWellFounded, Zenon
<1>2. \A x, y \in Nat : x < y => <<x, y>> \in R
  BY Zenon DEF OpToRel
<1> HIDE DEF R
<1>3. PICK m \in S : \A n \in S : ~(<<n, m>> \in R)
  BY <1>1, WFMin
<1>4. \A n \in S : ~(n < m) /\ n \in Nat /\ m \in Nat
  BY <1>2, <1>3
<1> QED
  BY <1>3, <1>4

Steps(S, N) == [0 .. N - 1 -> [S -> S]]

(* A loop of N turns over values of S: what the function that recounts its *)
(* turns is.  (Resize is such a loop.)                                     *)
LEMMA Iteration ==
  ASSUME NEW S, NEW base \in S, NEW N \in Nat, NEW step \in Steps(S, N)
  PROVE  \E f \in [0 .. N -> S] : f[0] = base /\ \A n \in 0 .. N - 1 : f[n + 1] = step[n][f[n]]
<1> DEFINE Recounts(f, m) == f[0] = base /\ \A n \in 0 .. m - 1 : f[n + 1] = step[n][f[n]]
           Bad == {m \in 0 .. N : ~\E f \in [0 .. m -> S] : Recounts(f, m)}
<1>1. SUFFICES Bad = {}
  <2>1. Bad = {} => N \notin Bad
    OBVIOUS
  <2>2. N \notin Bad => \E f \in [0 .. N -> S] : Recounts(f, N)
    OBVIOUS
  <2> QED
    BY <2>1, <2>2
<1>2. SUFFICES ASSUME Bad # {} PROVE FALSE
  OBVIOUS
<1>3. PICK m \in Bad : \A n \in Bad : m <= n
  <2>1. Bad \subseteq Nat
    OBVIOUS
  <2> HIDE DEF Bad
  <2> QED
    BY <1>2, <2>1, LeastNumber
<1>4. CASE m = 0
  <2> DEFINE f == [n \in 0 .. 0 |-> base]
  <2>1. f \in [0 .. 0 -> S] /\ Recounts(f, 0)
    OBVIOUS
  <2> QED
    BY <1>4, <2>1
<1>5. CASE m # 0
  <2>1. m - 1 \in 0 .. N /\ m - 1 \notin Bad /\ m \in Nat /\ m <= N
    <3>1. m \in 0 .. N
      OBVIOUS
    <3>2. m - 1 \in 0 .. N /\ ~(m <= m - 1) /\ m \in Nat /\ m <= N
      BY <1>5, <3>1
    <3> HIDE DEF Bad
    <3> QED
      BY <1>3, <3>2
  <2>2. PICK g \in [0 .. m - 1 -> S] : Recounts(g, m - 1)
    BY <2>1
  <2> DEFINE f == [n \in 0 .. m |-> IF n = m THEN step[m - 1][g[m - 1]] ELSE g[n]]
  <2>3. step[m - 1] \in [S -> S] /\ g[m - 1] \in S
    BY <2>1, <2>2 DEF Steps
  <2>4. f \in [0 .. m -> S]
    BY <2>1, <2>2, <2>3
  <2>5. /\ f[0] = g[0] /\ f[m] = step[m - 1][g[m - 1]]
        /\ \A n \in 0 .. m - 1 : f[n] = g[n]
    BY <1>5, <2>1
  <2> HIDE DEF f
  <2>6. ASSUME NEW n \in 0 .. m - 1
        PROVE  f[n + 1] = step[n][f[n]]
    <3>1. CASE n = m - 1
      BY <2>1, <2>5, <3>1
    <3>2. CASE n # m - 1
      <4>1. n \in 0 .. (m - 1) - 1 /\ n + 1 \in 0 .. m - 1
        BY <2>1, <3>2
      <4> QED
        BY <2>2, <2>5, <4>1
    <3> QED
      BY <3>1, <3>2
  <2>7. Recounts(f, m)
    BY <2>2, <2>5, <2>6
  <2> QED
    BY <1>3, <2>4, <2>7
<1> QED
  BY <1>4, <1>5
-----------------------------------------------------------------------------
(* The seven basic types and their slots.                                  *)
LEMMA BasicFacts ==
  /\ \A t : IsBasic(t) <=> \E i \in 0 .. BasicTypesCount - 1 : t = Basics[i + 1]
  /\ \A i \in 0 .. BasicTypesCount - 1 : IsBasic(Basics[i + 1]) /\ BasicSlot(Basics[i + 1]) = i
  /\ \A i, j \in 0 .. BasicTypesCount - 1 : Basics[i + 1] = Basics[j + 1] => i = j
<1>1. DOMAIN Basics = 1 .. 7
  BY DEF Basics
<1>2. \A i, j \in 1 .. 7 : Basics[i] = Basics[j] => i = j
  BY DEF Basics, Null, AnyT, VoidT, BoolT, IntT, FloatT, StringT
<1>3. \A i \in 1 .. 7 : BasicSlot(Basics[i]) = i - 1
  BY <1>1, <1>2 DEF BasicSlot
<1>4. \A t : IsBasic(t) <=> \E i \in 1 .. 7 : t = Basics[i]
  BY <1>1 DEF IsBasic, Range
<1>5. \A i \in 0 .. BasicTypesCount - 1 : i + 1 \in 1 .. 7 /\ (i + 1) - 1 = i
  BY DEF BasicTypesCount
<1>6. \A i \in 1 .. 7 : i - 1 \in 0 .. BasicTypesCount - 1 /\ (i - 1) + 1 = i
  BY DEF BasicTypesCount
<1> QED
  BY <1>2, <1>3, <1>4, <1>5, <1>6

(* The slots a probe looks at are those of the list, each at one distance. *)
LEMMA SlotFacts ==
  ASSUME NEW t \in KnownTypes, NEW cap \in Nat \ {0}
  PROVE  /\ Home(t, cap) \in 0 .. cap - 1
         /\ \A d \in 0 .. cap - 1 : Slot(t, d, cap) \in 0 .. cap - 1
         /\ \A d, e \in 0 .. cap - 1 : Slot(t, d, cap) = Slot(t, e, cap) => d = e
         /\ \A i \in 0 .. cap - 1 : \E d \in 0 .. cap - 1 : Slot(t, d, cap) = i
<1>1. Hash[t] \in Nat
  BY HashAssumption
<1>2. Home(t, cap) \in 0 .. cap - 1
  <2>1. \A h \in Nat : h % cap \in 0 .. cap - 1
    OBVIOUS
  <2> QED
    BY <1>1, <2>1 DEF Home
<1>3. \A n \in 0 .. 2 * cap - 1 : n % cap = IF n < cap THEN n ELSE n - cap
  OBVIOUS
<1>4. \A d \in 0 .. cap - 1 :
        Slot(t, d, cap) = IF Home(t, cap) + d < cap THEN Home(t, cap) + d ELSE Home(t, cap) + d - cap
  BY <1>2, <1>3 DEF Slot
<1>5. \A d \in 0 .. cap - 1 : Slot(t, d, cap) \in 0 .. cap - 1
  BY <1>2, <1>4
<1>6. \A d, e \in 0 .. cap - 1 : Slot(t, d, cap) = Slot(t, e, cap) => d = e
  BY <1>2, <1>4
<1>7. ASSUME NEW i \in 0 .. cap - 1
      PROVE  \E d \in 0 .. cap - 1 : Slot(t, d, cap) = i
  <2>1. CASE i >= Home(t, cap)
    <3>1. i - Home(t, cap) \in 0 .. cap - 1
      BY <1>2, <2>1
    <3>2. Slot(t, i - Home(t, cap), cap) = i
      BY <1>2, <1>4, <3>1
    <3> QED
      BY <3>1, <3>2
  <2>2. CASE i < Home(t, cap)
    <3>1. i + cap - Home(t, cap) \in 0 .. cap - 1
      BY <1>2, <2>2
    <3>2. Slot(t, i + cap - Home(t, cap), cap) = i
      BY <1>2, <1>4, <2>2, <3>1
    <3> QED
      BY <3>1, <3>2
  <2> QED
    BY <1>2, <2>1, <2>2
<1> QED
  BY <1>2, <1>5, <1>6, <1>7
-----------------------------------------------------------------------------
(* A basic type is at home in its slot, and alike to no other basic type.  *)
LEMMA BasicHome ==
  ASSUME NEW i \in 0 .. BasicTypesCount - 1
  PROVE  /\ Hash[Basics[i + 1]] = i
         /\ Basics[i + 1] \in KnownTypes
         /\ \A j \in 0 .. BasicTypesCount - 1 : Alike(Basics[i + 1], Basics[j + 1]) => i = j
         /\ \A cap \in Nat \ {0} : i < cap => Slot(Basics[i + 1], 0, cap) = i
<1>1. \A j \in 0 .. BasicTypesCount - 1 : j + 1 \in DOMAIN Basics /\ (j + 1) - 1 = j
  BY DEF Basics, BasicTypesCount
<1>2. \A j \in 0 .. BasicTypesCount - 1 : Hash[Basics[j + 1]] = j
  BY <1>1, HashAssumption
<1>3. Basics[i + 1] \in KnownTypes
  BY BasicFacts DEF KnownTypes, IsBasic
<1>4. ASSUME NEW j \in 0 .. BasicTypesCount - 1, Alike(Basics[i + 1], Basics[j + 1])
      PROVE  i = j
  BY <1>2, <1>4, BasicFacts DEF Alike
<1>5. ASSUME NEW cap \in Nat \ {0}, i < cap
      PROVE  Slot(Basics[i + 1], 0, cap) = i
  <2>1. \A n \in 0 .. cap - 1 : n % cap = n
    OBVIOUS
  <2>2. i \in 0 .. cap - 1 /\ i + 0 = i
    BY <1>5
  <2> QED
    BY <1>2, <2>1, <2>2 DEF Slot, Home
<1> QED
  BY <1>2, <1>3, <1>4, <1>5

(* The used slots of a list are finitely many, at most its capacity; with  *)
(* fewer, one is free.                                                     *)
LEMMA UsedFacts ==
  ASSUME NEW cap \in Nat \ {0}, NEW list \in Lists(cap)
  PROVE  /\ DOMAIN list = 0 .. cap - 1
         /\ Used(list) \subseteq 0 .. cap - 1
         /\ IsFiniteSet(Used(list))
         /\ Cardinality(Used(list)) \in 0 .. cap
         /\ Cardinality(Used(list)) < cap => \E i \in 0 .. cap - 1 : list[i] = Free
         /\ \A i \in Used(list) : list[i] \in Entries
<1>1. DOMAIN list = 0 .. cap - 1
  BY DEF Lists
<1>2. IsFiniteSet(0 .. cap - 1) /\ Cardinality(0 .. cap - 1) = cap
  <2>1. 0 \in Int /\ cap - 1 \in Int
    OBVIOUS
  <2> QED
    BY <2>1, FS_Interval
<1>3. Used(list) \in SUBSET (0 .. cap - 1)
  BY <1>1 DEF Used
<1>4. IsFiniteSet(Used(list)) /\ Cardinality(Used(list)) <= cap
  BY <1>2, <1>3, FS_Subset
<1>5. Cardinality(Used(list)) \in Nat
  BY <1>4, FS_CardinalityType
<1>6. Cardinality(Used(list)) < cap => Used(list) # 0 .. cap - 1
  BY <1>2, <1>5
<1>7. \A i \in Used(list) : list[i] \in Entries
  BY DEF Used, Lists
<1> QED
  BY <1>1, <1>3, <1>4, <1>5, <1>6, <1>7 DEF Used

(* Where a probe for t ends. *)
StopsAt(list, t, d, cap) == LET entry == list[Slot(t, d, cap)] IN entry = Free \/ Holds(entry, t)

(* A probe ends, at the first slot that is free or holds its type.         *)
LEMMA FindsAStop ==
  ASSUME NEW cap \in Nat \ {0}, NEW list \in Lists(cap), NEW t \in Compounds,
         Cardinality(Used(list)) < cap
  PROVE  \E d \in 0 .. cap - 1 :
           /\ FindEntry(list, t, cap) = Slot(t, d, cap)
           /\ StopsAt(list, t, d, cap)
           /\ \A c \in 0 .. d - 1 : ~StopsAt(list, t, c, cap)
<1> DEFINE S == {d \in 0 .. cap - 1 : StopsAt(list, t, d, cap)}
           IsFirst(d) == StopsAt(list, t, d, cap) /\ \A c \in 0 .. d - 1 : ~StopsAt(list, t, c, cap)
<1>1. S # {}
  <2>1. PICK i \in 0 .. cap - 1 : list[i] = Free
    BY UsedFacts
  <2>2. PICK d \in 0 .. cap - 1 : Slot(t, d, cap) = i
    BY SlotFacts DEF KnownTypes
  <2> QED
    BY <2>1, <2>2 DEF StopsAt
<1>2. PICK m \in S : \A n \in S : m <= n
  <2>1. S \subseteq Nat
    OBVIOUS
  <2> HIDE DEF S
  <2> QED
    BY <1>1, <2>1, LeastNumber
<1>3. m \in 0 .. cap - 1 /\ IsFirst(m)
  <2>1. \A c \in 0 .. m - 1 : c \in 0 .. cap - 1 /\ ~(m <= c)
    OBVIOUS
  <2> QED
    BY <1>2, <2>1
<1>4. ~IsBasic(t)
  BY CompoundsAssumption
<1>5. FindEntry(list, t, cap) = Slot(t, CHOOSE d \in 0 .. cap - 1 : IsFirst(d), cap)
  BY <1>4 DEF FindEntry, StopsAt
<1>6. \E d \in 0 .. cap - 1 : d = (CHOOSE x \in 0 .. cap - 1 : IsFirst(x)) /\ IsFirst(d)
  <2> HIDE DEF IsFirst
  <2> QED
    BY <1>3
<1> QED
  BY <1>5, <1>6

(* A probe comes to an entry that is alike if the list has one, and else   *)
(* to a free slot behind used ones: it proves that no such entry is there. *)
LEMMA FindsTheType ==
  ASSUME NEW cap \in Nat \ {0}, NEW list \in Lists(cap), NEW t \in Compounds,
         Cardinality(Used(list)) < cap, Chained(list, cap)
  PROVE  /\ FindEntry(list, t, cap) \in 0 .. cap - 1
         /\ (\E i \in Used(list) : Alike(list[i].type, t)) =>
              /\ FindEntry(list, t, cap) \in Used(list)
              /\ Alike(list[FindEntry(list, t, cap)].type, t)
         /\ (\A i \in Used(list) : ~Alike(list[i].type, t)) =>
              /\ list[FindEntry(list, t, cap)] = Free
              /\ \E d \in 0 .. cap - 1 :
                   /\ FindEntry(list, t, cap) = Slot(t, d, cap)
                   /\ \A c \in 0 .. d - 1 : list[Slot(t, c, cap)] # Free
<1>1. PICK d \in 0 .. cap - 1 : /\ FindEntry(list, t, cap) = Slot(t, d, cap)
                               /\ StopsAt(list, t, d, cap)
                               /\ \A c \in 0 .. d - 1 : ~StopsAt(list, t, c, cap)
  BY FindsAStop
<1>2. \A e \in 0 .. cap - 1 : Slot(t, e, cap) \in 0 .. cap - 1
  BY SlotFacts DEF KnownTypes
<1>3. \A i \in 0 .. cap - 1 : list[i] # Free <=> i \in Used(list)
  BY UsedFacts DEF Used
<1>4. \A i \in Used(list) : Holds(list[i], t) <=> Alike(list[i].type, t)
  BY CompoundsAssumption DEF Holds, Alike
<1>5. ASSUME NEW i \in Used(list), Alike(list[i].type, t)
      PROVE  list[Slot(t, d, cap)] # Free
  <2>1. PICK e \in 0 .. cap - 1 : /\ i = Slot(list[i].type, e, cap)
                                 /\ \A c \in 0 .. e - 1 : list[Slot(list[i].type, c, cap)] # Free
    BY DEF Chained, Reached
  <2>2. \A c \in 0 .. cap - 1 : Slot(list[i].type, c, cap) = Slot(t, c, cap)
    BY <1>5 DEF Alike, Slot, Home
  <2>3. StopsAt(list, t, e, cap)
    BY <1>4, <1>5, <2>1, <2>2 DEF StopsAt
  <2>4. ~(e < d)
    <3>1. e < d => e \in 0 .. d - 1
      OBVIOUS
    <3> QED
      BY <1>1, <2>3, <3>1
  <2>5. CASE d = e
    BY <2>1, <2>2, <2>5 DEF Used
  <2>6. CASE d < e
    <3>1. d \in 0 .. e - 1
      BY <2>6
    <3> QED
      BY <2>1, <2>2, <3>1
  <2> QED
    BY <2>4, <2>5, <2>6
<1>6. ASSUME NEW i \in Used(list), Alike(list[i].type, t)
      PROVE  FindEntry(list, t, cap) \in Used(list) /\ Alike(list[FindEntry(list, t, cap)].type, t)
  <2>1. list[Slot(t, d, cap)] # Free
    BY <1>5, <1>6
  <2>2. Slot(t, d, cap) \in Used(list)
    BY <1>2, <1>3, <2>1
  <2> QED
    BY <1>1, <1>4, <2>1, <2>2 DEF StopsAt
<1>7. ASSUME \A i \in Used(list) : ~Alike(list[i].type, t)
      PROVE  /\ list[FindEntry(list, t, cap)] = Free
             /\ \A c \in 0 .. d - 1 : list[Slot(t, c, cap)] # Free
  <2>1. list[Slot(t, d, cap)] # Free => Slot(t, d, cap) \in Used(list)
    BY <1>2, <1>3
  <2>2. list[Slot(t, d, cap)] = Free
    BY <1>1, <1>4, <1>7, <2>1 DEF StopsAt
  <2> QED
    BY <1>1, <2>2 DEF StopsAt
<1> QED
  BY <1>1, <1>2, <1>6, <1>7

LEMMA AlikeIsSymmetric ==
  ASSUME NEW s \in KnownTypes, NEW t \in KnownTypes, Alike(s, t)
  PROVE  Alike(t, s)
BY MatchesAssumption DEF Alike

Put(list, slot, entry) == [list EXCEPT ![slot] = entry]

(* An entry of a new type, put in a free slot that a probe for the type    *)
(* comes to, leaves the list as it should be.                              *)
LEMMA StoredFacts ==
  ASSUME NEW cap \in Nat \ {0}, NEW list \in Lists(cap), Chained(list, cap), Distinct(list),
         NEW slot \in 0 .. cap - 1, list[slot] = Free, NEW entry \in Entries,
         \A i \in Used(list) : ~Alike(list[i].type, entry.type) /\ list[i].at # entry.at,
         \E d \in 0 .. cap - 1 : /\ slot = Slot(entry.type, d, cap)
                               /\ \A c \in 0 .. d - 1 : list[Slot(entry.type, c, cap)] # Free
  PROVE  /\ Put(list, slot, entry) \in Lists(cap)
         /\ Chained(Put(list, slot, entry), cap)
         /\ Distinct(Put(list, slot, entry))
         /\ Used(Put(list, slot, entry)) = Used(list) \union {slot}
         /\ slot \notin Used(list)
         /\ Cardinality(Used(Put(list, slot, entry))) = Cardinality(Used(list)) + 1
<1> DEFINE stored == Put(list, slot, entry)
<1>1. entry # Free
  BY DEF Entries, Free
<1>2. stored \in Lists(cap)
  BY DEF Lists, Put
<1>3. /\ stored[slot] = entry
      /\ \A i \in 0 .. cap - 1 : i # slot => stored[i] = list[i]
  BY DEF Lists, Put
<1>4. DOMAIN stored = 0 .. cap - 1 /\ DOMAIN list = 0 .. cap - 1
  BY DEF Lists, Put
<1> HIDE DEF stored
<1>5. Used(stored) = Used(list) \union {slot} /\ slot \notin Used(list)
  BY <1>1, <1>3, <1>4 DEF Used
<1>6. \A i \in 0 .. cap - 1 : list[i] # Free => stored[i] # Free
  BY <1>1, <1>3
<1>7. \A i \in Used(list) : i \in 0 .. cap - 1 /\ list[i].type \in KnownTypes
  BY UsedFacts DEF Entries
<1>8. Chained(stored, cap)
  <2> SUFFICES ASSUME NEW i \in Used(stored)
               PROVE  Reached(stored, i, cap)
    BY DEF Chained
  <2>1. CASE i = slot
    <3>1. PICK d \in 0 .. cap - 1 : /\ slot = Slot(entry.type, d, cap)
                                   /\ \A c \in 0 .. d - 1 : list[Slot(entry.type, c, cap)] # Free
      BY <1>3, <2>1
    <3>2. \A c \in 0 .. d - 1 : Slot(entry.type, c, cap) \in 0 .. cap - 1
      BY SlotFacts DEF Entries
    <3>3. \A c \in 0 .. d - 1 : stored[Slot(entry.type, c, cap)] # Free
      BY <1>6, <3>1, <3>2
    <3> QED
      BY <1>3, <2>1, <3>1, <3>3 DEF Reached
  <2>2. CASE i # slot
    <3>1. i \in Used(list) /\ stored[i] = list[i]
      BY <1>3, <1>5, <1>7, <2>2
    <3>2. PICK d \in 0 .. cap - 1 : /\ i = Slot(list[i].type, d, cap)
                                   /\ \A c \in 0 .. d - 1 : list[Slot(list[i].type, c, cap)] # Free
      BY <3>1 DEF Chained, Reached
    <3>3. \A c \in 0 .. d - 1 : Slot(list[i].type, c, cap) \in 0 .. cap - 1
      BY <1>7, <3>1, SlotFacts
    <3>4. \A c \in 0 .. d - 1 : stored[Slot(list[i].type, c, cap)] # Free
      BY <1>6, <3>2, <3>3
    <3> QED
      BY <3>1, <3>2, <3>4 DEF Reached
  <2> QED
    BY <2>1, <2>2
<1>9. Distinct(stored)
  <2> SUFFICES ASSUME NEW i \in Used(stored), NEW j \in Used(stored),
                      Alike(stored[i].type, stored[j].type) \/ stored[i].at = stored[j].at
               PROVE  i = j
    BY DEF Distinct
  <2>1. \A k \in Used(stored) : k # slot => k \in Used(list) /\ stored[k] = list[k]
    BY <1>3, <1>5, <1>7
  <2>2. \A k \in Used(list) : ~Alike(entry.type, list[k].type)
    BY <1>7, AlikeIsSymmetric DEF Entries
  <2> QED
    BY <1>3, <2>1, <2>2 DEF Distinct
<1>10. Cardinality(Used(stored)) = Cardinality(Used(list)) + 1
  BY <1>5, UsedFacts, FS_AddElement
<1> QED
  BY <1>2, <1>5, <1>8, <1>9, <1>10 DEF stored
-----------------------------------------------------------------------------
(* The basic types of a sound list are the entries of its first slots.     *)
LEMMA BasicEntries ==
  ASSUME NEW cap \in Nat, 4 * BasicTypesCount < 3 * cap, NEW list, Sound(list, cap)
  PROVE  /\ cap \in Nat \ {0}
         /\ BasicTypesCount < cap
         /\ \A i \in 0 .. BasicTypesCount - 1 : i \in Used(list) /\ Basic(i) \in Entries
         /\ \A i \in Used(list) : IsBasic(list[i].type) => i \in 0 .. BasicTypesCount - 1
<1>1. cap \in Nat \ {0} /\ BasicTypesCount < cap
  BY DEF BasicTypesCount
<1>2. \A i \in 0 .. BasicTypesCount - 1 : Basic(i) \in Entries /\ Basic(i).type = Basics[i + 1]
  <2>1. \A i \in 0 .. BasicTypesCount - 1 : Basics[i + 1] \in KnownTypes
    BY BasicFacts DEF KnownTypes, IsBasic
  <2> QED
    BY <2>1 DEF Basic, Entries, BasicTypesCount
<1>3. Free \notin Entries
  BY DEF Free, Entries
<1>4. \A i \in 0 .. BasicTypesCount - 1 : i \in Used(list)
  <2>1. \A i \in 0 .. BasicTypesCount - 1 : i \in DOMAIN list
    BY <1>1, UsedFacts DEF Sound, BasicTypesCount
  <2>2. \A i \in 0 .. BasicTypesCount - 1 : list[i] \in Entries
    BY <1>2 DEF Sound
  <2> QED
    BY <1>3, <2>1, <2>2 DEF Used
<1>5. ASSUME NEW i \in Used(list), IsBasic(list[i].type)
      PROVE  i \in 0 .. BasicTypesCount - 1
  <2>1. PICK j \in 0 .. BasicTypesCount - 1 : list[i].type = Basics[j + 1]
    BY <1>5, BasicFacts
  <2>2. list[j].type = list[i].type
    BY <1>2, <2>1 DEF Sound
  <2>3. i = j
    BY <1>4, <2>2 DEF Sound, Distinct, Alike
  <2> QED
    BY <2>3
<1> QED
  BY <1>1, <1>2, <1>4, <1>5

(* What resize has copied when it has looked at the first n slots.         *)
Before(list, n) == {i \in Used(list) : i < n}

CopyOf(list, cap, n, copy) ==
    /\ copy \in Lists(2 * cap)
    /\ Chained(copy, 2 * cap)
    /\ Distinct(copy)
    /\ \A j \in Used(copy) : \E i \in Before(list, n) : copy[j] = list[i]
    /\ \A i \in Before(list, n) : \E j \in Used(copy) : copy[j] = list[i]
    /\ \A i \in 0 .. BasicTypesCount - 1 : i < n => copy[i] = Basic(i)
    /\ Cardinality(Used(copy)) = Cardinality(Before(list, n))

LEMMA CopyBegins ==
  ASSUME NEW cap \in Nat \ {0}, NEW list \in Lists(cap)
  PROVE  CopyOf(list, cap, 0, EmptyList(2 * cap))
<1>1. EmptyList(2 * cap) \in Lists(2 * cap)
  BY DEF EmptyList, Lists
<1>2. Used(EmptyList(2 * cap)) = {}
  BY DEF Used, EmptyList
<1>3. Before(list, 0) = {}
  BY UsedFacts DEF Before
<1> QED
  BY <1>1, <1>2, <1>3, FS_EmptySet DEF CopyOf, Chained, Distinct, BasicTypesCount

(* A free slot is passed over.                                             *)
LEMMA CopyPasses ==
  ASSUME NEW cap \in Nat, 4 * BasicTypesCount < 3 * cap, NEW list, Sound(list, cap),
         NEW n \in 0 .. cap - 1, list[n] = Free, NEW copy, CopyOf(list, cap, n, copy)
  PROVE  CopyOf(list, cap, n + 1, copy)
<1>1. n \notin Used(list)
  BY DEF Used
<1>2. Used(list) \subseteq 0 .. cap - 1
  BY BasicEntries, UsedFacts DEF Sound
<1>3. Before(list, n + 1) = Before(list, n)
  BY <1>1, <1>2 DEF Before
<1>4. \A i \in 0 .. BasicTypesCount - 1 : i < n + 1 => i < n
  <2>1. n \notin 0 .. BasicTypesCount - 1
    BY <1>1, BasicEntries
  <2> QED
    BY <2>1 DEF BasicTypesCount
<1> QED
  BY <1>3, <1>4 DEF CopyOf

(* An entry gets a slot that is free, and that a probe for it comes to.    *)
LEMMA CopyFinds ==
  ASSUME NEW cap \in Nat, 4 * BasicTypesCount < 3 * cap, NEW list, Sound(list, cap),
         NEW n \in Used(list), NEW copy, CopyOf(list, cap, n, copy)
  PROVE  LET slot == FindEntry(copy, list[n].type, 2 * cap)
         IN /\ slot \in 0 .. 2 * cap - 1
            /\ copy[slot] = Free
            /\ n < BasicTypesCount => slot = n
            /\ \E d \in 0 .. 2 * cap - 1 :
                 /\ slot = Slot(list[n].type, d, 2 * cap)
                 /\ \A c \in 0 .. d - 1 : copy[Slot(list[n].type, c, 2 * cap)] # Free
<1> DEFINE t == list[n].type
<1>1. /\ cap \in Nat \ {0} /\ 2 * cap \in Nat \ {0} /\ BasicTypesCount < cap
      /\ BasicTypesCount \in Nat
  BY BasicEntries DEF BasicTypesCount
<1>2. /\ n \in 0 .. cap - 1
      /\ Used(list) \subseteq 0 .. cap - 1
      /\ list[n] \in Entries
      /\ IsFiniteSet(Used(list))
      /\ Cardinality(Used(list)) \in 0 .. cap
  BY <1>1, UsedFacts DEF Sound
<1>3. ASSUME NEW j \in Used(copy)
      PROVE  \E i \in Used(list) : i < n /\ copy[j] = list[i]
  BY DEF CopyOf, Before
<1>4. \A j \in Used(copy) : ~Alike(copy[j].type, t)
  <2> SUFFICES ASSUME NEW j \in Used(copy), Alike(copy[j].type, t)
               PROVE  FALSE
    OBVIOUS
  <2>1. PICK i \in Used(list) : i < n /\ copy[j] = list[i]
    BY <1>3
  <2>2. i = n
    BY <2>1 DEF Sound, Distinct
  <2> QED
    BY <1>2, <2>1, <2>2
<1>5. CASE IsBasic(t)
  <2>1. n \in 0 .. BasicTypesCount - 1 /\ t = Basics[n + 1]
    <3>1. n \in 0 .. BasicTypesCount - 1
      BY <1>5, BasicEntries
    <3>2. list[n] = Basic(n)
      BY <3>1 DEF Sound
    <3> QED
      BY <3>1, <3>2 DEF Basic
  <2>2. FindEntry(copy, t, 2 * cap) = n
    <3>1. FindEntry(copy, t, 2 * cap) = BasicSlot(t)
      BY <1>5 DEF FindEntry
    <3> QED
      BY <2>1, <3>1, BasicFacts
  <2>3. n \notin Used(copy)
    <3> SUFFICES ASSUME n \in Used(copy)
                 PROVE  FALSE
      OBVIOUS
    <3>1. PICK i \in Used(list) : i < n /\ copy[n] = list[i]
      BY <1>3
    <3>2. i \in 0 .. BasicTypesCount - 1
      BY <1>1, <1>2, <2>1, <3>1
    <3>3. copy[i] = Basic(i) /\ list[i] = Basic(i)
      BY <3>1, <3>2 DEF CopyOf, Sound
    <3>4. i \in 0 .. 2 * cap - 1 /\ DOMAIN copy = 0 .. 2 * cap - 1
      BY <1>1, <3>2 DEF CopyOf, Lists
    <3>5. i \in Used(copy)
      <4>1. Basic(i) # Free
        BY <3>1, <3>3 DEF Used
      <4> QED
        BY <3>3, <3>4, <4>1 DEF Used
    <3>6. i = n
      BY <3>1, <3>3, <3>5 DEF CopyOf, Distinct, Alike
    <3> QED
      BY <1>2, <3>1, <3>6
  <2>4. n \in 0 .. 2 * cap - 1 /\ copy[n] = Free
    BY <1>1, <1>2, <2>3 DEF Used, CopyOf, Lists
  <2>5. Slot(t, 0, 2 * cap) = n /\ 0 \in 0 .. 2 * cap - 1 /\ 0 .. 0 - 1 = {}
    BY <1>1, <1>2, <2>1, BasicHome
  <2> QED
    BY <2>2, <2>4, <2>5
<1>6. CASE ~IsBasic(t)
  <2>1. t \in Compounds
    BY <1>2, <1>6 DEF Entries, KnownTypes, IsBasic
  <2>2. Cardinality(Used(copy)) < 2 * cap
    <3>1. Before(list, n) \subseteq Used(list)
      BY DEF Before
    <3>2. Cardinality(Before(list, n)) <= Cardinality(Used(list)) /\ IsFiniteSet(Before(list, n))
      BY <1>2, <3>1, FS_Subset
    <3>3. Cardinality(Before(list, n)) \in Nat
      BY <3>2, FS_CardinalityType
    <3> QED
      BY <1>1, <1>2, <3>2, <3>3 DEF CopyOf
  <2>3. ~(n < BasicTypesCount)
    <3> SUFFICES ASSUME n < BasicTypesCount
                 PROVE  FALSE
      OBVIOUS
    <3>1. n \in 0 .. BasicTypesCount - 1
      BY <1>1, <1>2
    <3>2. list[n] = Basic(n)
      BY <3>1 DEF Sound
    <3> QED
      BY <1>6, <3>1, <3>2, BasicFacts DEF Basic
  <2> QED
    BY <1>1, <1>4, <1>6, <2>1, <2>2, <2>3, FindsTheType DEF CopyOf
<1> QED
  BY <1>5, <1>6

(* A turn of the loop copies one slot.                                     *)
LEMMA CopyGoesOn ==
  ASSUME NEW cap \in Nat, 4 * BasicTypesCount < 3 * cap, NEW list, Sound(list, cap),
         NEW n \in 0 .. cap - 1, NEW copy, CopyOf(list, cap, n, copy)
  PROVE  CopyOf(list, cap, n + 1, CopySlot(list, n, copy, 2 * cap))
<1>1. CASE list[n] = Free
  BY <1>1, CopyPasses DEF CopySlot
<1>2. CASE list[n] # Free
  <2> DEFINE slot == FindEntry(copy, list[n].type, 2 * cap)
             stored == Put(copy, slot, list[n])
  <2>1. /\ cap \in Nat \ {0} /\ 2 * cap \in Nat \ {0} /\ BasicTypesCount < cap
        /\ BasicTypesCount \in Nat
    BY BasicEntries DEF BasicTypesCount
  <2>2. /\ n \in Used(list)
        /\ Used(list) \subseteq 0 .. cap - 1
        /\ list[n] \in Entries
        /\ IsFiniteSet(Used(list))
    <3>1. list \in Lists(cap)
      BY DEF Sound
    <3>2. n \in Used(list)
      BY <1>2, <2>1, <3>1, UsedFacts DEF Used
    <3> QED
      BY <2>1, <3>1, <3>2, UsedFacts
  <2>3. /\ slot \in 0 .. 2 * cap - 1
        /\ copy[slot] = Free
        /\ n < BasicTypesCount => slot = n
        /\ \E d \in 0 .. 2 * cap - 1 :
             /\ slot = Slot(list[n].type, d, 2 * cap)
             /\ \A c \in 0 .. d - 1 : copy[Slot(list[n].type, c, 2 * cap)] # Free
    BY <2>2, CopyFinds
  <2> HIDE DEF slot
  <2>4. \A j \in Used(copy) : ~Alike(copy[j].type, list[n].type) /\ copy[j].at # list[n].at
    <3> SUFFICES ASSUME NEW j \in Used(copy),
                        Alike(copy[j].type, list[n].type) \/ copy[j].at = list[n].at
                 PROVE  FALSE
      OBVIOUS
    <3>1. PICK i \in Used(list) : i < n /\ copy[j] = list[i]
      BY DEF CopyOf, Before
    <3>2. i = n
      BY <2>2, <3>1 DEF Sound, Distinct
    <3> QED
      BY <3>1, <3>2
  <2>5. /\ stored \in Lists(2 * cap)
        /\ Chained(stored, 2 * cap)
        /\ Distinct(stored)
        /\ Used(stored) = Used(copy) \union {slot}
        /\ slot \notin Used(copy)
        /\ Cardinality(Used(stored)) = Cardinality(Used(copy)) + 1
    <3>1. copy \in Lists(2 * cap) /\ Chained(copy, 2 * cap) /\ Distinct(copy)
      BY DEF CopyOf
    <3> QED
      BY <2>1, <2>2, <2>3, <2>4, <3>1, StoredFacts
  <2>6. /\ stored[slot] = list[n]
        /\ \A j \in 0 .. 2 * cap - 1 : j # slot => stored[j] = copy[j]
    BY <2>3 DEF CopyOf, Lists, Put
  <2>7. CopySlot(list, n, copy, 2 * cap) = stored
    BY <1>2 DEF CopySlot, Put, slot
  <2> HIDE DEF stored
  <2>8. Before(list, n + 1) = Before(list, n) \union {n} /\ n \notin Before(list, n)
    BY <2>2 DEF Before
  <2>9. \A j \in Used(copy) : stored[j] = copy[j]
    <3>1. Used(copy) \subseteq 0 .. 2 * cap - 1
      BY <2>1, UsedFacts DEF CopyOf
    <3> QED
      BY <2>5, <2>6, <3>1
  <2>10. \A j \in Used(stored) : \E i \in Before(list, n + 1) : stored[j] = list[i]
    BY <2>5, <2>6, <2>8, <2>9 DEF CopyOf
  <2>11. \A i \in Before(list, n + 1) : \E j \in Used(stored) : stored[j] = list[i]
    BY <2>5, <2>6, <2>8, <2>9 DEF CopyOf
  <2>12. ASSUME NEW i \in 0 .. BasicTypesCount - 1, i < n + 1
         PROVE  stored[i] = Basic(i)
    <3>1. i < n \/ i = n
      BY <2>1, <1>2, <2>12
    <3>2. CASE i = n
      <4>1. slot = n
        BY <2>1, <2>3, <3>2
      <4> QED
        BY <2>6, <3>2, <4>1 DEF Sound
    <3>3. CASE i < n
      <4>1. copy[i] = Basic(i)
        BY <3>3 DEF CopyOf
      <4>2. copy[i] # Free
        BY <4>1, BasicEntries DEF Entries, Free
      <4>3. i \in 0 .. 2 * cap - 1
        BY <2>1
      <4> QED
        BY <2>3, <2>6, <4>1, <4>2, <4>3
    <3> QED
      BY <3>1, <3>2, <3>3
  <2>13. Cardinality(Used(stored)) = Cardinality(Before(list, n + 1))
    <3>1. IsFiniteSet(Before(list, n))
      BY <2>2, FS_Subset DEF Before
    <3>2. Cardinality(Before(list, n + 1)) = Cardinality(Before(list, n)) + 1
      BY <2>8, <3>1, FS_AddElement
    <3> QED
      BY <2>5, <3>2 DEF CopyOf
  <2> QED
    BY <2>5, <2>7, <2>10, <2>11, <2>12, <2>13 DEF CopyOf
<1> QED
  BY <1>1, <1>2

(* The recursion of resize is a loop of cap turns.                         *)
LEMMA ResizeTurns ==
  ASSUME NEW cap \in Nat \ {0}, NEW list \in Lists(cap)
  PROVE  \E f :
           /\ f[0] = EmptyList(2 * cap)
           /\ \A n \in 0 .. cap - 1 : f[n + 1] = CopySlot(list, n, f[n], 2 * cap)
           /\ Resize(list, cap) = f[cap]
<1> DEFINE base == EmptyList(2 * cap)
           step == [n \in 0 .. cap - 1 |-> [copy \in Lists(2 * cap) |-> CopySlot(list, n, copy, 2 * cap)]]
           Recounts(f) == f = [n \in 0 .. cap |->
                                 IF n = 0 THEN EmptyList(2 * cap)
                                 ELSE CopySlot(list, n - 1, f[n - 1], 2 * cap)]
           copied == CHOOSE f : Recounts(f)
<1>1. base \in Lists(2 * cap)
  BY DEF EmptyList, Lists
<1>2. step \in Steps(Lists(2 * cap), cap)
  <2> SUFFICES ASSUME NEW n \in 0 .. cap - 1, NEW copy \in Lists(2 * cap)
               PROVE  CopySlot(list, n, copy, 2 * cap) \in Lists(2 * cap)
    BY DEF Steps
  <2>1. list[n] \in Entries \union {Free}
    BY DEF Lists
  <2> QED
    BY <2>1 DEF CopySlot, Lists
<1>3. \A n \in 0 .. cap - 1, copy \in Lists(2 * cap) : step[n][copy] = CopySlot(list, n, copy, 2 * cap)
  OBVIOUS
<1> HIDE DEF step, base
<1>4. PICK f \in [0 .. cap -> Lists(2 * cap)] :
        f[0] = base /\ \A n \in 0 .. cap - 1 : f[n + 1] = step[n][f[n]]
  <2>1. cap \in Nat
    OBVIOUS
  <2> QED
    BY <1>1, <1>2, <2>1, Iteration
<1>5. Recounts(f)
  <2>1. \A n \in 0 .. cap : n # 0 => n - 1 \in 0 .. cap - 1 /\ n - 1 \in 0 .. cap
    OBVIOUS
  <2>2. \A n \in 0 .. cap : n # 0 => f[n] = step[n - 1][f[n - 1]]
    <3>1. \A n \in 0 .. cap : n # 0 => (n - 1) + 1 = n
      OBVIOUS
    <3> QED
      BY <1>4, <2>1, <3>1
  <2>3. \A n \in 0 .. cap : f[n] = IF n = 0 THEN EmptyList(2 * cap)
                                 ELSE CopySlot(list, n - 1, f[n - 1], 2 * cap)
    BY <1>3, <1>4, <2>1, <2>2 DEF base
  <2> QED
    BY <1>4, <2>3
<1>6. Recounts(copied)
  <2> HIDE DEF Recounts
  <2> QED
    BY <1>5
<1>7. Resize(list, cap) = copied[cap]
  BY DEF Resize
<1> HIDE DEF copied
<1>8. \A n \in 0 .. cap : copied[n] = IF n = 0 THEN EmptyList(2 * cap)
                                      ELSE CopySlot(list, n - 1, copied[n - 1], 2 * cap)
  BY <1>6
<1>9. copied[0] = EmptyList(2 * cap)
  BY <1>8
<1>10. \A n \in 0 .. cap - 1 : copied[n + 1] = CopySlot(list, n, copied[n], 2 * cap)
  <2>1. \A n \in 0 .. cap - 1 : n + 1 \in 0 .. cap /\ n + 1 # 0 /\ (n + 1) - 1 = n
    OBVIOUS
  <2> QED
    BY <1>8, <2>1
<1> QED
  BY <1>7, <1>9, <1>10

(* The copy is a sound list of the same entries, in twice the space.       *)
LEMMA ResizeIsSound ==
  ASSUME NEW cap \in Nat, 4 * BasicTypesCount < 3 * cap, NEW list, Sound(list, cap)
  PROVE  /\ Sound(Resize(list, cap), 2 * cap)
         /\ \A j \in Used(Resize(list, cap)) : \E i \in Used(list) : Resize(list, cap)[j] = list[i]
         /\ \A i \in Used(list) : \E j \in Used(Resize(list, cap)) : Resize(list, cap)[j] = list[i]
         /\ Cardinality(Used(Resize(list, cap))) = Cardinality(Used(list))
<1>1. cap \in Nat \ {0} /\ list \in Lists(cap) /\ BasicTypesCount < cap /\ BasicTypesCount \in Nat
  BY BasicEntries DEF Sound, BasicTypesCount
<1>2. PICK f : /\ f[0] = EmptyList(2 * cap)
               /\ \A n \in 0 .. cap - 1 : f[n + 1] = CopySlot(list, n, f[n], 2 * cap)
               /\ Resize(list, cap) = f[cap]
  BY <1>1, ResizeTurns
<1> DEFINE Bad == {n \in 0 .. cap : ~CopyOf(list, cap, n, f[n])}
<1>3. Bad = {}
  <2> SUFFICES ASSUME Bad # {} PROVE FALSE
    OBVIOUS
  <2>1. PICK m \in Bad : \A n \in Bad : m <= n
    <3>1. Bad \subseteq Nat
      OBVIOUS
    <3> HIDE DEF Bad
    <3> QED
      BY <3>1, LeastNumber
  <2>2. m \in 0 .. cap /\ ~CopyOf(list, cap, m, f[m])
    OBVIOUS
  <2>3. m # 0
    BY <1>1, <1>2, <2>2, CopyBegins
  <2>4. m - 1 \in 0 .. cap - 1 /\ m - 1 \in 0 .. cap /\ ~(m <= m - 1) /\ (m - 1) + 1 = m
    BY <2>2, <2>3
  <2>5. CopyOf(list, cap, m - 1, f[m - 1])
    BY <2>1, <2>4
  <2>6. CopyOf(list, cap, m, f[m])
    BY <1>2, <2>4, <2>5, CopyGoesOn
  <2> QED
    BY <2>2, <2>6
<1>4. CopyOf(list, cap, cap, f[cap])
  BY <1>1, <1>3
<1>5. Before(list, cap) = Used(list)
  BY <1>1, UsedFacts DEF Before
<1>6. \A i \in 0 .. BasicTypesCount - 1 : i < cap
  BY <1>1
<1> QED
  BY <1>2, <1>4, <1>5, <1>6 DEF CopyOf, Sound
-----------------------------------------------------------------------------
LEMMA InitOK == Init => IInv
<1> SUFFICES ASSUME Init PROVE IInv
  OBVIOUS
<1>1. /\ capacity \in Nat /\ BasicTypesCount < capacity /\ 4 * BasicTypesCount < 3 * capacity
      /\ BasicTypesCount \in Nat /\ DOMAIN types = 0 .. capacity - 1
  BY CapacityAssumption DEF BasicTypesCount, Init
<1>2. /\ \A i \in 0 .. BasicTypesCount - 1 : types[i] = Basic(i)
      /\ \A i \in 0 .. capacity - 1 : ~(i < BasicTypesCount) => types[i] = Free
  BY <1>1 DEF Basic, Init
<1>3. \A i \in 0 .. BasicTypesCount - 1 : Basic(i) \in Entries /\ Basics[i + 1] \in KnownTypes
  <2>1. \A i \in 0 .. BasicTypesCount - 1 : Basics[i + 1] \in KnownTypes
    BY BasicFacts DEF KnownTypes, IsBasic
  <2> QED
    BY <1>1, <2>1 DEF Basic, Entries
<1>4. types \in Lists(capacity)
  <2>1. \A i \in 0 .. capacity - 1 : types[i] \in Entries \union {Free}
    BY <1>1, <1>2, <1>3
  <2>2. types = [i \in 0 .. capacity - 1 |-> types[i]]
    BY DEF Init
  <2> QED
    BY <2>1, <2>2 DEF Lists
<1>5. Used(types) = 0 .. BasicTypesCount - 1
  <2>1. Free \notin Entries
    BY DEF Free, Entries
  <2> QED
    BY <1>1, <1>2, <1>3, <2>1 DEF Used
<1>6. Cardinality(Used(types)) = BasicTypesCount
  <2>1. 0 \in Int /\ BasicTypesCount - 1 \in Int /\ BasicTypesCount > 0
    BY DEF BasicTypesCount
  <2> QED
    BY <1>1, <1>5, <2>1, FS_Interval
<1>7. \A i \in Used(types) : /\ types[i].type = Basics[i + 1] /\ types[i].at = i
                            /\ IsBasic(types[i].type)
  <2>1. \A i \in 0 .. BasicTypesCount - 1 : Basic(i).type = Basics[i + 1] /\ Basic(i).at = i
    BY DEF Basic
  <2> QED
    BY <1>2, <1>5, <2>1, BasicFacts
<1>8. Chained(types, capacity) /\ Distinct(types)
  <2>1. Chained(types, capacity)
    <3>1. ASSUME NEW i \in Used(types)
          PROVE  i = Slot(types[i].type, 0, capacity)
      <4>1. i \in 0 .. BasicTypesCount - 1 /\ types[i].type = Basics[i + 1]
        BY <1>5, <1>7
      <4>2. capacity \in Nat \ {0} /\ i < capacity
        BY <1>1, <4>1 DEF BasicTypesCount
      <4> QED
        BY <4>1, <4>2, BasicHome
    <3>2. 0 \in 0 .. capacity - 1 /\ 0 .. 0 - 1 = {}
      BY <1>1
    <3> QED
      BY <3>1, <3>2 DEF Chained, Reached
  <2>2. \A i, j \in Used(types) : Alike(Basics[i + 1], Basics[j + 1]) => i = j
    BY <1>5, BasicHome
  <2>3. Distinct(types)
    BY <1>7, <2>2 DEF Distinct
  <2> QED
    BY <2>1, <2>3
<1>9. DOMAIN given \subseteq KnownTypes /\ \A i \in Used(types) : types[i].type \in DOMAIN given
  BY <1>7 DEF KnownTypes, IsBasic, Init
<1>10. ASSUME NEW t \in DOMAIN given
       PROVE  \E i \in Used(types) : Alike(types[i].type, t) /\ given[t] \in {types[i].at, Lost}
  <2>1. IsBasic(t) /\ given[t] = BasicSlot(t)
    BY DEF IsBasic, Init
  <2>2. PICK i \in 0 .. BasicTypesCount - 1 : t = Basics[i + 1]
    BY <2>1, BasicFacts
  <2>3. given[t] = i
    BY <2>1, <2>2, BasicFacts
  <2> QED
    BY <1>5, <1>7, <2>2, <2>3 DEF Alike
<1>11. \A i \in Used(types) : types[i].at < allocated
  BY <1>1, <1>5, <1>7 DEF Init
<1>12. count = BasicTypesCount /\ allocated = BasicTypesCount
  BY DEF Init
<1>13. given = [t \in DOMAIN given |-> given[t]]
  BY DEF Init
<1> QED
  BY <1>1, <1>2, <1>4, <1>6, <1>8, <1>9, <1>10, <1>11, <1>12, <1>13 DEF IInv, Sound

(* What a registration finds.                                              *)
LEMMA Finds ==
  ASSUME IInv, NEW t \in Nameable
  PROVE  LET slot == FindEntry(types, t, capacity)
         IN /\ t \in Compounds /\ t \in KnownTypes /\ ~IsBasic(t)
            /\ capacity \in Nat \ {0}
            /\ types \in Lists(capacity)
            /\ slot \in 0 .. capacity - 1
            /\ types[slot] # Free => slot \in Used(types) /\ Alike(types[slot].type, t)
            /\ types[slot] = Free =>
                 /\ \A i \in Used(types) : ~Alike(types[i].type, t)
                 /\ \E d \in 0 .. capacity - 1 :
                      /\ slot = Slot(t, d, capacity)
                      /\ \A c \in 0 .. d - 1 : types[Slot(t, c, capacity)] # Free
<1>1. t \in Compounds /\ t \in KnownTypes /\ ~IsBasic(t)
  BY CompoundsAssumption DEF Nameable, KnownTypes
<1>2. /\ capacity \in Nat \ {0} /\ types \in Lists(capacity)
      /\ Chained(types, capacity) /\ Distinct(types)
  BY BasicEntries DEF IInv, Sound
<1>3. Cardinality(Used(types)) < capacity
  <2>1. Cardinality(Used(types)) \in Nat
    BY <1>2, UsedFacts
  <2> QED
    BY <1>2, <2>1 DEF IInv
<1> DEFINE slot == FindEntry(types, t, capacity)
<1>4. /\ slot \in 0 .. capacity - 1
      /\ (\E i \in Used(types) : Alike(types[i].type, t)) =>
           slot \in Used(types) /\ Alike(types[slot].type, t)
      /\ (\A i \in Used(types) : ~Alike(types[i].type, t)) =>
           /\ types[slot] = Free
           /\ \E d \in 0 .. capacity - 1 :
                /\ slot = Slot(t, d, capacity)
                /\ \A c \in 0 .. d - 1 : types[Slot(t, c, capacity)] # Free
  BY <1>1, <1>2, <1>3, FindsTheType
<1> HIDE DEF slot
<1>5. types[slot] # Free <=> slot \in Used(types)
  BY <1>2, <1>4, UsedFacts DEF Used
<1>6. CASE \E i \in Used(types) : Alike(types[i].type, t)
  BY <1>1, <1>2, <1>4, <1>5, <1>6 DEF slot
<1>7. CASE \A i \in Used(types) : ~Alike(types[i].type, t)
  BY <1>1, <1>2, <1>4, <1>5, <1>7 DEF slot
<1> QED
  BY <1>6, <1>7

(* A known type keeps its entry.                                           *)
LEMMA RegisterKnownOK ==
  ASSUME IInv, NEW t \in Nameable, RegisterKnown(t)
  PROVE  IInv'
<1> DEFINE slot == FindEntry(types, t, capacity)
<1>1. types[slot] # Free /\ slot \in Used(types) /\ Alike(types[slot].type, t) /\ t \in KnownTypes
  BY Finds DEF RegisterKnown
<1>2. given' = [s \in DOMAIN given \union {t} |-> IF s = t THEN types[slot].at ELSE given[s]]
  BY DEF RegisterKnown, Give
<1>3. UNCHANGED <<types, count, capacity, allocated>>
  BY DEF RegisterKnown
<1> HIDE DEF slot
<1>4. ASSUME NEW s \in DOMAIN given'
      PROVE  \E i \in Used(types) : Alike(types[i].type, s) /\ given'[s] \in {types[i].at, Lost}
  <2>1. CASE s = t
    BY <1>1, <1>2, <2>1
  <2>2. CASE s # t
    BY <1>2, <2>2 DEF IInv
  <2> QED
    BY <2>1, <2>2
<1>5. DOMAIN given' = DOMAIN given \union {t} /\ given' = [s \in DOMAIN given' |-> given'[s]]
  BY <1>2
<1> QED
  BY <1>1, <1>3, <1>4, <1>5 DEF IInv

(* The list with a new entry, before it is looked at whether it must grow. *)
LEMMA InsertedIsSound ==
  ASSUME IInv, NEW t \in Nameable, RegisterNew(t),
         NEW inserted, inserted = Put(types, FindEntry(types, t, capacity), [type |-> t, at |-> allocated])
  PROVE  /\ Sound(inserted, capacity)
         /\ Cardinality(Used(inserted)) = count + 1
         /\ \A i \in Used(inserted) : inserted[i].at <= allocated
                                     /\ inserted[i].type \in DOMAIN given \union {t}
         /\ \A i \in Used(types) : i \in Used(inserted) /\ inserted[i] = types[i]
         /\ \E i \in Used(inserted) : inserted[i] = [type |-> t, at |-> allocated]
         /\ t \notin DOMAIN given
<1> DEFINE slot == FindEntry(types, t, capacity)
           entry == [type |-> t, at |-> allocated]
<1>1. /\ t \in Compounds /\ t \in KnownTypes /\ ~IsBasic(t)
      /\ capacity \in Nat \ {0}
      /\ types \in Lists(capacity)
      /\ slot \in 0 .. capacity - 1
      /\ types[slot] = Free
      /\ \A i \in Used(types) : ~Alike(types[i].type, t)
      /\ \E d \in 0 .. capacity - 1 :
           /\ slot = Slot(t, d, capacity)
           /\ \A c \in 0 .. d - 1 : types[Slot(t, c, capacity)] # Free
  BY Finds DEF RegisterNew
<1>2. allocated \in Nat /\ Chained(types, capacity) /\ Distinct(types)
  BY DEF IInv, Sound
<1>3. entry \in Entries /\ entry.type = t /\ entry.at = allocated
  BY <1>1, <1>2 DEF Entries
<1>4. \A i \in Used(types) : ~Alike(types[i].type, entry.type) /\ types[i].at # entry.at
  <2>1. \A i \in Used(types) : types[i].at < allocated /\ types[i].at \in Nat
    BY <1>1, UsedFacts DEF IInv, Entries
  <2> QED
    BY <1>1, <1>2, <1>3, <2>1
<1> HIDE DEF slot, entry
<1>5. inserted = Put(types, slot, entry)
  BY DEF slot, entry
<1>6. /\ inserted \in Lists(capacity)
      /\ Chained(inserted, capacity)
      /\ Distinct(inserted)
      /\ Used(inserted) = Used(types) \union {slot}
      /\ slot \notin Used(types)
      /\ Cardinality(Used(inserted)) = Cardinality(Used(types)) + 1
  <2>1. \E d \in 0 .. capacity - 1 :
          /\ slot = Slot(entry.type, d, capacity)
          /\ \A c \in 0 .. d - 1 : types[Slot(entry.type, c, capacity)] # Free
    BY <1>1, <1>3
  <2>2. /\ Put(types, slot, entry) \in Lists(capacity)
        /\ Chained(Put(types, slot, entry), capacity)
        /\ Distinct(Put(types, slot, entry))
        /\ Used(Put(types, slot, entry)) = Used(types) \union {slot}
        /\ slot \notin Used(types)
        /\ Cardinality(Used(Put(types, slot, entry))) = Cardinality(Used(types)) + 1
    BY <1>1, <1>2, <1>3, <1>4, <2>1, StoredFacts
  <2> QED
    BY <1>5, <2>2
<1>7. /\ inserted[slot] = entry
      /\ \A i \in Used(types) : inserted[i] = types[i]
  BY <1>1, <1>5, <1>6, UsedFacts DEF Put
<1>8. \A i \in 0 .. BasicTypesCount - 1 : inserted[i] = Basic(i)
  <2>1. \A i \in 0 .. BasicTypesCount - 1 : i \in Used(types) /\ types[i] = Basic(i)
    BY BasicEntries DEF IInv, Sound
  <2> QED
    BY <1>7, <2>1
<1>9. t \notin DOMAIN given
  BY <1>1 DEF IInv
<1>10. \A i \in Used(types) : types[i].at < allocated /\ types[i].at \in Nat /\ types[i].type \in DOMAIN given
  BY <1>1, UsedFacts DEF IInv, Entries
<1>11. \A i \in Used(inserted) : inserted[i].at <= allocated
                                /\ inserted[i].type \in DOMAIN given \union {t}
  BY <1>2, <1>3, <1>6, <1>7, <1>10
<1>12. Cardinality(Used(types)) = count
  BY DEF IInv
<1> QED
  BY <1>6, <1>7, <1>8, <1>9, <1>11, <1>12 DEF Sound, entry

(* A new type gets an entry, in the list or in its copy; what the caller   *)
(* gets is its address, or was read from the list that was freed.          *)
LEMMA RegisterNewOK ==
  ASSUME IInv, NEW t \in Nameable, RegisterNew(t)
  PROVE  IInv'
<1> DEFINE inserted == Put(types, FindEntry(types, t, capacity), [type |-> t, at |-> allocated])
<1>1. /\ allocated' = allocated + 1
      /\ count' = count + 1
      /\ Give(t, allocated) \/ Give(t, Lost)
      /\ \/ /\ 4 * (count + 1) >= 3 * capacity
            /\ types' = Resize(inserted, capacity)
            /\ capacity' = 2 * capacity
         \/ /\ ~(4 * (count + 1) >= 3 * capacity)
            /\ types' = inserted
            /\ capacity' = capacity
  BY DEF RegisterNew, Put
<1>2. /\ Sound(inserted, capacity)
      /\ Cardinality(Used(inserted)) = count + 1
      /\ \A i \in Used(inserted) : inserted[i].at <= allocated
                                  /\ inserted[i].type \in DOMAIN given \union {t}
      /\ \A i \in Used(types) : i \in Used(inserted) /\ inserted[i] = types[i]
      /\ \E i \in Used(inserted) : inserted[i] = [type |-> t, at |-> allocated]
      /\ t \notin DOMAIN given
  BY InsertedIsSound
<1> HIDE DEF inserted
<1>3. /\ capacity \in Nat /\ 4 * BasicTypesCount < 3 * capacity /\ capacity > 4
      /\ BasicTypesCount \in Nat /\ allocated \in Nat
      /\ count \in Nat /\ 4 * count < 3 * capacity
  <2>1. capacity \in Nat /\ 4 * BasicTypesCount < 3 * capacity /\ Sound(types, capacity)
    BY DEF IInv
  <2>2. Cardinality(Used(types)) \in 0 .. capacity
    BY <2>1, BasicEntries, UsedFacts DEF Sound
  <2> QED
    BY <2>1, <2>2 DEF IInv, BasicTypesCount
<1>4. /\ capacity' \in Nat /\ 4 * BasicTypesCount < 3 * capacity'
      /\ Sound(types', capacity')
      /\ Cardinality(Used(types')) = count'
      /\ 4 * count' < 3 * capacity'
      /\ \A j \in Used(types') : \E i \in Used(inserted) : types'[j] = inserted[i]
      /\ \A i \in Used(inserted) : \E j \in Used(types') : types'[j] = inserted[i]
  <2>1. CASE /\ 4 * (count + 1) >= 3 * capacity
             /\ types' = Resize(inserted, capacity)
             /\ capacity' = 2 * capacity
    <3>1. /\ Sound(types', capacity')
          /\ \A j \in Used(types') : \E i \in Used(inserted) : types'[j] = inserted[i]
          /\ \A i \in Used(inserted) : \E j \in Used(types') : types'[j] = inserted[i]
          /\ Cardinality(Used(types')) = Cardinality(Used(inserted))
      BY <1>2, <1>3, <2>1, ResizeIsSound
    <3>2. capacity' \in Nat /\ 4 * BasicTypesCount < 3 * capacity' /\ 4 * count' < 3 * capacity'
      BY <1>1, <1>3, <2>1
    <3> QED
      BY <1>1, <1>2, <3>1, <3>2
  <2>2. CASE /\ ~(4 * (count + 1) >= 3 * capacity)
             /\ types' = inserted
             /\ capacity' = capacity
    <3>1. 4 * count' < 3 * capacity'
      BY <1>1, <1>3, <2>2
    <3> QED
      BY <1>1, <1>2, <1>3, <2>2, <3>1
  <2> QED
    BY <1>1, <2>1, <2>2
<1>5. PICK at \in {allocated, Lost} :
        given' = [s \in DOMAIN given \union {t} |-> IF s = t THEN at ELSE given[s]]
  BY <1>1 DEF Give
<1>6. DOMAIN given' = DOMAIN given \union {t} /\ given' = [s \in DOMAIN given' |-> given'[s]]
  BY <1>5
<1>7. \A j \in Used(types') : types'[j].at < allocated' /\ types'[j].type \in DOMAIN given'
  <2> SUFFICES ASSUME NEW j \in Used(types')
               PROVE  types'[j].at < allocated' /\ types'[j].type \in DOMAIN given'
    OBVIOUS
  <2>1. PICK i \in Used(inserted) : types'[j] = inserted[i]
    BY <1>4
  <2>2. inserted[i].at \in Nat
    BY <1>2, <1>3, BasicEntries, UsedFacts DEF Sound, Entries
  <2> QED
    BY <1>1, <1>2, <1>3, <1>6, <2>1, <2>2
<1>8. ASSUME NEW s \in DOMAIN given'
      PROVE  \E j \in Used(types') : Alike(types'[j].type, s) /\ given'[s] \in {types'[j].at, Lost}
  <2>1. CASE s = t
    <3>1. PICK i \in Used(inserted) : inserted[i] = [type |-> t, at |-> allocated]
      BY <1>2
    <3>2. PICK j \in Used(types') : types'[j] = inserted[i]
      BY <1>4
    <3>3. given'[s] \in {allocated, Lost}
      BY <1>5, <2>1
    <3> QED
      BY <2>1, <3>1, <3>2, <3>3 DEF Alike
  <2>2. CASE s # t
    <3>1. s \in DOMAIN given /\ given'[s] = given[s]
      BY <1>5, <2>2
    <3>2. PICK i \in Used(types) : Alike(types[i].type, s) /\ given[s] \in {types[i].at, Lost}
      BY <3>1 DEF IInv
    <3>3. PICK j \in Used(types') : types'[j] = types[i]
      BY <1>2, <1>4
    <3> QED
      BY <3>1, <3>2, <3>3
  <2> QED
    BY <2>1, <2>2
<1>9. DOMAIN given' \subseteq KnownTypes
  BY <1>6 DEF IInv, Nameable, KnownTypes
<1> QED
  BY <1>1, <1>3, <1>4, <1>6, <1>7, <1>8, <1>9 DEF IInv

(* The invariant, which the theorems below read off.                       *)
LEMMA Invariance == Spec => []IInv
<1>1. Init => IInv
  BY InitOK
<1>2. IInv /\ [Next]_vars => IInv'
  <2> SUFFICES ASSUME IInv, [Next]_vars PROVE IInv'
    OBVIOUS
  <2>1. CASE Next
    <3>1. PICK t \in Nameable : RegisterKnown(t) \/ RegisterNew(t)
      BY <2>1 DEF Next
    <3> QED
      BY <3>1, RegisterKnownOK, RegisterNewOK
  <2>2. CASE UNCHANGED vars
    BY <2>2 DEF vars, IInv, Sound
  <2> QED
    BY <2>1, <2>2
<1> QED
  BY <1>1, <1>2, PTL DEF Spec
-----------------------------------------------------------------------------
LEMMA InvImpliesTypeOK == IInv => TypeOK
<1> SUFFICES ASSUME IInv PROVE TypeOK
  OBVIOUS
<1>1. capacity \in Nat \ {0} /\ types \in Lists(capacity)
  BY BasicEntries DEF IInv, Sound
<1>2. DOMAIN types = 0 .. capacity - 1 /\ \A i \in Used(types) : types[i] \in Entries
  BY <1>1, UsedFacts
<1>3. Used(types) = {i \in DOMAIN types : types[i] # Free}
  BY DEF Used
<1>4. \A i \in DOMAIN types : types[i] # Free => /\ types[i].type \in KnownTypes
                                               /\ types[i].at \in 0 .. allocated - 1
  <2>1. \A i \in Used(types) : types[i].at \in Nat /\ types[i].at < allocated /\ allocated \in Nat
                              /\ types[i].type \in KnownTypes
    BY <1>2 DEF IInv, Entries
  <2> QED
    BY <1>3, <2>1
<1>5. \A t \in DOMAIN given : given[t] \in 0 .. allocated - 1 \union {Lost}
  <2> SUFFICES ASSUME NEW t \in DOMAIN given
               PROVE  given[t] \in 0 .. allocated - 1 \union {Lost}
    OBVIOUS
  <2>1. PICK i \in Used(types) : given[t] \in {types[i].at, Lost}
    BY DEF IInv
  <2> QED
    BY <1>3, <1>4, <2>1
<1>6. given \in [DOMAIN given -> 0 .. allocated - 1 \union {Lost}]
  <2>1. given = [t \in DOMAIN given |-> given[t]]
    BY DEF IInv
  <2> QED
    BY <1>5, <2>1
<1> QED
  BY <1>2, <1>3, <1>4, <1>6 DEF IInv, TypeOK

(* A type that is not confusable is alike to itself only.                  *)
LEMMA OnlyItself ==
  ASSUME NEW t \in KnownTypes \ Confusable, NEW s \in KnownTypes, Alike(s, t) \/ Alike(t, s)
  PROVE  s = t
BY AlikeIsSymmetric DEF Confusable, Alike

LEMMA InvImpliesOneAddressPerType == IInv => OneAddressPerType
<1> SUFFICES ASSUME IInv PROVE OneAddressPerType
  OBVIOUS
<1>1. \A t \in DOMAIN given : t \in KnownTypes
  BY DEF IInv
<1>2. ASSUME NEW t \in DOMAIN given \ Confusable, given[t] # Lost
      PROVE  \E i \in Used(types) : types[i] = [type |-> t, at |-> given[t]]
  <2>1. PICK i \in Used(types) : Alike(types[i].type, t) /\ given[t] \in {types[i].at, Lost}
    BY DEF IInv
  <2>2. types[i] \in Entries
    BY BasicEntries, UsedFacts DEF IInv, Sound
  <2>3. types[i].type = t
    BY <1>1, <2>1, <2>2, OnlyItself DEF Entries
  <2> QED
    BY <1>2, <2>1, <2>2, <2>3 DEF Entries
<1>3. ASSUME NEW s \in DOMAIN given, NEW t \in DOMAIN given \ Confusable,
             given[s] = given[t], given[s] # Lost
      PROVE  s = t
  <2>1. PICK i \in Used(types) : Alike(types[i].type, s) /\ given[s] \in {types[i].at, Lost}
    BY DEF IInv
  <2>2. PICK j \in Used(types) : types[j] = [type |-> t, at |-> given[t]]
    BY <1>2, <1>3
  <2>3. types[i].at = types[j].at /\ types[j].type = t
    BY <1>3, <2>1, <2>2
  <2>4. i = j
    BY <2>3 DEF IInv, Sound, Distinct
  <2> QED
    BY <1>1, <2>1, <2>3, <2>4, OnlyItself
<1> QED
  BY <1>2, <1>3 DEF OneAddressPerType, Used

(* get_user_type stops where a probe for the type stops: no two user types *)
(* have one name.                                                          *)
StopsByName(name, d) ==
    LET at == types[((NameHash[name] % capacity) + d) % capacity]
    IN \/ at = Free
       \/ /\ Hash[at.type] = NameHash[name]
          /\ at.type[1] \in {"STRUCT", "UNION"}
          /\ at.type[2] = name

LEMMA SameStops ==
  ASSUME IInv, NEW t \in UserTypes \ Confusable, NEW d \in 0 .. capacity - 1
  PROVE  /\ Slot(t, d, capacity) = ((NameHash[t[2]] % capacity) + d) % capacity
         /\ StopsByName(t[2], d) <=> StopsAt(types, t, d, capacity)
<1> DEFINE entry == types[Slot(t, d, capacity)]
<1>1. Hash[t] = NameHash[t[2]] /\ t \in Compounds /\ t[1] \in {"STRUCT", "UNION"}
  BY NameAssumption DEF UserTypes
<1>2. Slot(t, d, capacity) = ((NameHash[t[2]] % capacity) + d) % capacity
  BY <1>1 DEF Slot, Home
<1>3. entry = Free \/ entry.type \in KnownTypes
  <2>1. capacity \in Nat \ {0} /\ types \in Lists(capacity)
    BY BasicEntries DEF IInv, Sound
  <2>2. Slot(t, d, capacity) \in 0 .. capacity - 1
    BY <1>1, <2>1, SlotFacts DEF KnownTypes
  <2>3. entry \in Entries \union {Free}
    BY <2>1, <2>2 DEF Lists
  <2> QED
    BY <2>3 DEF Entries
<1> HIDE DEF entry
<1>4. ASSUME entry # Free, Hash[entry.type] = NameHash[t[2]],
             entry.type[1] \in {"STRUCT", "UNION"}, entry.type[2] = t[2]
      PROVE  Holds(entry, t)
  <2>1. ~IsBasic(entry.type)
    <3>1. \A i \in 1 .. 7 : Basics[i][1] \notin {"STRUCT", "UNION"}
      BY DEF Basics, Null, AnyT, VoidT, BoolT, IntT, FloatT, StringT
    <3>2. \A i \in 0 .. BasicTypesCount - 1 : i + 1 \in 1 .. 7
      BY DEF BasicTypesCount
    <3> QED
      BY <1>4, <3>1, <3>2, BasicFacts
  <2>2. entry.type \in UserTypes
    BY <1>3, <1>4, <2>1 DEF KnownTypes, UserTypes, IsBasic
  <2>3. entry.type = t
    BY <1>4, <2>2, NameAssumption
  <2> QED
    BY <1>1, <2>3, CompoundsAssumption DEF Holds
<1>5. ASSUME entry # Free, Holds(entry, t)
      PROVE  /\ Hash[entry.type] = NameHash[t[2]]
             /\ entry.type[1] \in {"STRUCT", "UNION"}
             /\ entry.type[2] = t[2]
  <2>1. entry.type = t
    BY <1>1, <1>3, <1>5, OnlyItself DEF Holds, Alike, KnownTypes
  <2> QED
    BY <1>1, <2>1
<1> QED
  BY <1>2, <1>4, <1>5 DEF StopsByName, StopsAt, entry

LEMMA LooksUp ==
  ASSUME IInv, NEW t \in UserTypes \ Confusable
  PROVE  GetUserType(t[2]) = types[FindEntry(types, t, capacity)].at
<1> DEFINE IsFirst(d) == StopsByName(t[2], d) /\ \A c \in 0 .. d - 1 : ~StopsByName(t[2], c)
           chosen == CHOOSE d \in 0 .. capacity - 1 : IsFirst(d)
<1>1. /\ t \in Compounds /\ capacity \in Nat \ {0} /\ types \in Lists(capacity)
      /\ Cardinality(Used(types)) < capacity
  <2>1. t \in Compounds /\ capacity \in Nat \ {0} /\ types \in Lists(capacity)
    BY BasicEntries DEF IInv, Sound, UserTypes
  <2>2. Cardinality(Used(types)) \in Nat
    BY <2>1, UsedFacts
  <2> QED
    BY <2>1, <2>2 DEF IInv
<1>2. PICK d \in 0 .. capacity - 1 :
        /\ FindEntry(types, t, capacity) = Slot(t, d, capacity)
        /\ StopsAt(types, t, d, capacity)
        /\ \A c \in 0 .. d - 1 : ~StopsAt(types, t, c, capacity)
  BY <1>1, FindsAStop
<1>3. IsFirst(d)
  <2>1. \A c \in 0 .. d - 1 : c \in 0 .. capacity - 1
    BY <1>1
  <2> QED
    BY <1>2, <2>1, SameStops
<1>4. chosen \in 0 .. capacity - 1 /\ IsFirst(chosen)
  <2> HIDE DEF IsFirst
  <2> QED
    BY <1>3
<1>5. GetUserType(t[2]) = types[((NameHash[t[2]] % capacity) + chosen) % capacity].at
  BY DEF GetUserType, StopsByName
<1> HIDE DEF chosen
<1>6. chosen = d
  <2>1. chosen < d => chosen \in 0 .. d - 1
    BY <1>4
  <2>2. d < chosen => d \in 0 .. chosen - 1
    BY <1>4
  <2> QED
    BY <1>1, <1>3, <1>4, <2>1, <2>2
<1> QED
  BY <1>2, <1>5, <1>6, SameStops

LEMMA InvImpliesUserTypesFound == IInv => UserTypesFound
<1> SUFFICES ASSUME IInv, Lost \notin Range(given), NEW t \in UserTypes \ Confusable
             PROVE  GetUserType(t[2]) = IF t \in DOMAIN given THEN given[t] ELSE Free.at
  BY DEF UserTypesFound
<1>1. /\ t \in Compounds /\ capacity \in Nat \ {0} /\ types \in Lists(capacity)
      /\ Cardinality(Used(types)) < capacity
      /\ Chained(types, capacity) /\ Distinct(types)
  <2>1. t \in Compounds /\ capacity \in Nat \ {0} /\ types \in Lists(capacity)
    BY BasicEntries DEF IInv, Sound, UserTypes
  <2>2. Cardinality(Used(types)) \in Nat
    BY <2>1, UsedFacts
  <2> QED
    BY <2>1, <2>2 DEF IInv, Sound
<1>2. CASE t \in DOMAIN given
  <2>1. PICK i \in Used(types) : Alike(types[i].type, t) /\ given[t] \in {types[i].at, Lost}
    BY <1>2 DEF IInv
  <2>2. given[t] # Lost
    BY <1>2 DEF Range
  <2> DEFINE slot == FindEntry(types, t, capacity)
  <2>3. slot \in Used(types) /\ Alike(types[slot].type, t)
    BY <1>1, <2>1, FindsTheType
  <2>4. types[i].type = t /\ types[slot].type = t
    BY <1>1, <2>1, <2>3, OnlyItself, UsedFacts DEF Entries, KnownTypes
  <2>5. slot = i
    BY <1>1, <2>1, <2>3, <2>4 DEF Distinct, Alike
  <2> QED
    BY <1>2, <2>1, <2>2, <2>5, LooksUp
<1>3. CASE t \notin DOMAIN given
  <2>1. ASSUME NEW i \in Used(types), Alike(types[i].type, t)
        PROVE  FALSE
    <3>1. types[i].type = t
      BY <1>1, <2>1, OnlyItself, UsedFacts DEF Entries, KnownTypes
    <3> QED
      BY <1>3, <3>1 DEF IInv
  <2>2. types[FindEntry(types, t, capacity)] = Free
    BY <1>1, <2>1, FindsTheType
  <2> QED
    BY <1>3, <2>2, LooksUp
<1> QED
  BY <1>2, <1>3
-----------------------------------------------------------------------------
(* The variables have their types, and a slot is always free: no probe of  *)
(* find_entry or get_user_type goes round for ever.                        *)
THEOREM TypeCorrect == Spec => []TypeOK
  BY Invariance, InvImpliesTypeOK, PTL

(* The basic types keep the slots their enumerators index, through every   *)
(* copy into a larger list.                                                *)
THEOREM BasicsStay == Spec => []BasicsInPlace
<1>1. IInv => BasicsInPlace
  BY DEF IInv, Sound, Basic, BasicsInPlace
<1> QED
  BY <1>1, Invariance, PTL

(* Comparing two addresses is comparing two types, as the validator does   *)
(* where it asks whether an expression has the type that was declared.     *)
THEOREM AddressesAreTypes == Spec => []OneAddressPerType
  BY Invariance, InvImpliesOneAddressPerType, PTL

(* A user type is found by its name from its registration on.              *)
THEOREM NamesFindTypes == Spec => []UserTypesFound
  BY Invariance, InvImpliesUserTypesFound, PTL
=============================================================================
