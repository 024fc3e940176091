----------------------------- MODULE SweepProofs -----------------------------
(***************************************************************************)
(* That the sweep frees every object once, for programs that create no     *)
(* closure twice (a closure is one object however often it is created, so  *)
(* two creations link it twice).                                           *)
(*                                                                         *)
(* Every allocation puts one object at the head of the list: the new one,  *)
(* or the closure the new upvalue block belongs to.  So the list runs      *)
(* through the addresses from the last one down to the first one after the *)
(* package, with the closures in the places of their blocks, and the sweep *)
(* follows it.                                                             *)
(***************************************************************************)
EXTENDS EngineProofs

\* A closure is created when it is not in the list yet. Nothing in the code sees to it:
\* a program whose declaration of a closure is executed twice breaks this.
CreatedOnce == At({"CLOSURE"}) => heap[Operand(1)].ups = 0

\* The addresses of the run: of every object made during it.
Born == Len(package.heap) + 1..Len(heap)

\* The closures that were created are in the package; each has its upvalue block among
\* the objects of the run.
Owners(r) == {c \in 1..Len(package.heap) : heap[c].ups = r}

Only(S) == CHOOSE c \in S : TRUE

\* The object that was linked when the address r was given out: the closure whose block
\* is there, or what is there itself.
Linked(r) == IF Owners(r) = {} THEN r ELSE Only(Owners(r))

\* Where the list goes on below an address.
InList(r) == IF r \in Born THEN Linked(r) ELSE 0

\* The list runs down the addresses of the run.
ListOK ==
  /\ Len(package.heap) <= Len(heap)
  /\ \A c \in 1..Len(package.heap) : heap[c].ups \in Born \union {0}
  /\ \A r \in Born : \A c, d \in Owners(r) : c = d
  /\ objects = InList(Len(heap))
  /\ \A r \in Born : heap[Linked(r)].next = InList(r - 1) /\ heap[r].kind # "CLOSURE"

\* When an object came into the list, or 0.
Birth(a) == IF a \in Born THEN a ELSE heap[a].ups

\* Freed is what came into the list after r.
Freed(r) == \A a \in DOMAIN heap :
  /\ heap[a].kind = "FREED" <=> Birth(a) > r
  /\ a \notin Born /\ Birth(a) \in 1..r => heap[a].kind = "CLOSURE"

\* What is freed is what the sweep has passed.
FreedOK ==
  /\ status = "running" => Freed(Len(heap))
  /\ status = "sweep" => \E r \in Len(package.heap)..Len(heap) : cursor = InList(r) /\ Freed(r)
  /\ status = "done" => Freed(Len(package.heap))

SweepOK == ListOK /\ FreedOK

\* Lengths and addresses are numbers.
LEMMA Lengths ==
  ASSUME TypeOK
  PROVE  /\ Len(package.heap) \in Nat /\ Len(heap) \in Nat
         /\ DOMAIN heap = 1..Len(heap) /\ IsSequence(heap) /\ Born \subseteq DOMAIN heap
         /\ \A a \in DOMAIN heap : IsObject(heap[a]) /\ heap[a].ups \in Nat
<1>1. IsSequence(package.heap) /\ IsSequence(heap)
  BY DEF TypeOK, HeapOK, RestOK, IsPackage
<1>2. \A s : IsSequence(s) => Len(s) \in Nat /\ DOMAIN s = 1..Len(s)
  BY DEF IsSequence
<1>3. \A a \in DOMAIN heap : IsObject(heap[a]) /\ heap[a].ups \in Nat
  BY DEF TypeOK, HeapOK, LinksOK, IsObject
<1> QED BY <1>1, <1>2, <1>3 DEF Born

\* One object came into the list at each address of the run.
LEMMA LinkedIs ==
  ASSUME TypeOK, ListOK, NEW r \in Born
  PROVE  /\ Linked(r) \in DOMAIN heap /\ Linked(r) # 0 /\ Birth(Linked(r)) = r
         /\ \A a \in DOMAIN heap : Birth(a) = r <=> a = r \/ a = Linked(r)
         /\ Linked(r) \in Born => Linked(r) = r
<1>1. /\ Len(package.heap) \in Nat /\ Len(heap) \in Nat /\ DOMAIN heap = 1..Len(heap)
      /\ Len(package.heap) <= Len(heap) /\ r \in Len(package.heap) + 1..Len(heap)
  BY Lengths DEF ListOK, Born
<1>2. \A a \in DOMAIN heap : a \notin Born => a \in 1..Len(package.heap)
  BY <1>1 DEF Born
<1>3. \A c \in 1..Len(package.heap) : c \in DOMAIN heap /\ c \notin Born
  BY <1>1 DEF Born
<1>4. CASE Owners(r) = {}
  <2>1. Linked(r) = r
    BY <1>4 DEF Linked
  <2>2. \A a \in DOMAIN heap : Birth(a) = r <=> a = r
    BY <1>2, <1>4 DEF Birth, Owners
  <2> QED BY <1>1, <2>1, <2>2
<1>5. CASE Owners(r) # {}
  <2>1. Linked(r) \in Owners(r) /\ \A c \in Owners(r) : c = Linked(r)
    BY <1>5 DEF Linked, Only, ListOK
  <2>2. Linked(r) \in 1..Len(package.heap) /\ heap[Linked(r)].ups = r
    BY <2>1 DEF Owners
  <2>3. \A a \in DOMAIN heap : Birth(a) = r <=> a = r \/ a = Linked(r)
    BY <1>2, <1>3, <2>1, <2>2 DEF Birth, Owners
  <2> QED BY <1>1, <1>3, <2>2, <2>3
<1> QED BY <1>4, <1>5

\* The list is a matter of next and ups, and of what is a closure.
LEMMA SameList ==
  ASSUME TypeOK, ListOK, package' = package, objects' = objects, Len(heap') = Len(heap),
         \A a \in DOMAIN heap : /\ heap'[a].next = heap[a].next /\ heap'[a].ups = heap[a].ups
                                /\ heap'[a].kind = "CLOSURE" => heap[a].kind = "CLOSURE"
  PROVE  /\ ListOK' /\ Born' = Born
         /\ \A r : InList(r)' = InList(r)
         /\ \A a \in DOMAIN heap : Birth(a)' = Birth(a)
<1>1. Born' = Born /\ Born \subseteq DOMAIN heap
  BY Lengths DEF Born
<1>2. \A c \in 1..Len(package.heap) : c \in DOMAIN heap
  BY Lengths DEF ListOK
<1>3. \A r : Owners(r)' = Owners(r)
  BY <1>2 DEF Owners
<1>4. \A r : Linked(r)' = Linked(r)
  BY <1>3 DEF Linked
<1>5. \A r : InList(r)' = InList(r)
  BY <1>1, <1>4 DEF InList
<1>6. \A a \in DOMAIN heap : Birth(a)' = Birth(a)
  BY <1>1 DEF Birth
<1>7. \A c \in 1..Len(package.heap) : heap'[c].ups \in Born \union {0}
  BY <1>2 DEF ListOK
<1>8. \A r \in Born : heap'[Linked(r)].next = InList(r - 1) /\ heap'[r].kind # "CLOSURE"
  BY <1>1, LinkedIs DEF ListOK
<1>9. /\ Len(package.heap) <= Len(heap) /\ objects = InList(Len(heap))
      /\ \A r \in Born : \A c, d \in Owners(r) : c = d
  BY DEF ListOK
<1>10. ListOK'
  BY <1>1, <1>3, <1>4, <1>5, <1>7, <1>8, <1>9 DEF ListOK
<1> QED BY <1>1, <1>5, <1>6, <1>10

\* A step that leaves the list as it is: an instruction that makes no object, the
\* return from main, or a failure.
LEMMA KeptList ==
  ASSUME TypeOK, SweepOK, status = "running", package' = package, objects' = objects,
         DOMAIN heap' = DOMAIN heap, Len(heap') = Len(heap),
         \A a \in DOMAIN heap : /\ heap'[a].next = heap[a].next /\ heap'[a].ups = heap[a].ups
                                /\ heap'[a].kind = heap[a].kind,
         \/ status' = status
         \/ status' = "sweep" /\ cursor' = objects
         \/ status' \in Ended \ {"done"}
  PROVE  SweepOK'
<1>1. /\ ListOK' /\ Born' = Born
      /\ \A r : InList(r)' = InList(r)
      /\ \A a \in DOMAIN heap : Birth(a)' = Birth(a)
  BY SameList DEF SweepOK
<1>2. Freed(Len(heap))'
  <2>1. Freed(Len(heap))
    BY DEF SweepOK, FreedOK
  <2> QED BY <1>1, <2>1 DEF Freed
<1>3. CASE status' = status
  BY <1>1, <1>2, <1>3 DEF SweepOK, FreedOK
<1>4. CASE status' = "sweep" /\ cursor' = objects
  <2>1. cursor' = InList(Len(heap))' /\ Len(heap)' \in (Len(package.heap)..Len(heap))'
    BY <1>1, <1>4, Lengths DEF SweepOK, ListOK
  <2> QED BY <1>1, <1>2, <1>4, <2>1 DEF SweepOK, FreedOK
<1>5. CASE status' \in Ended \ {"done"}
  BY <1>1, <1>5 DEF SweepOK, FreedOK, Ended
<1> QED BY <1>3, <1>4, <1>5

\* Something new at the head of the list: an object at the next address, or a closure
\* that gets a block there and was not in the list before.
LEMMA GrownList ==
  ASSUME TypeOK, SweepOK, status = "running", status' = status, package' = package,
         DOMAIN heap' = 1..Len(heap) + 1, Len(heap') = Len(heap) + 1,
         heap'[Fresh].kind \notin {"CLOSURE", "FREED"},
         NEW c, objects' = c, heap'[c].next = objects,
         \A a \in DOMAIN heap : a # c => heap'[a] = heap[a],
         \/ c = Fresh
         \/ /\ c \in DOMAIN heap /\ heap[c].kind = "CLOSURE" /\ heap[c].ups = 0
            /\ heap'[c].kind = "CLOSURE" /\ heap'[c].ups = Fresh
  PROVE  SweepOK'
<1>0. PICK fresh : fresh = Fresh
  OBVIOUS
<1>1. /\ Len(package.heap) \in Nat /\ Len(heap) \in Nat /\ fresh \in Nat /\ fresh = Len(heap) + 1
      /\ Len(package.heap) <= Len(heap) /\ DOMAIN heap = 1..Len(heap)
  BY <1>0, Lengths DEF SweepOK, ListOK, Fresh
<1>2. Born' = Born \union {fresh} /\ fresh \notin Born /\ Born \subseteq DOMAIN heap
  BY <1>1 DEF Born
<1>3. c \notin Born
  BY <1>0, <1>2 DEF SweepOK, ListOK
<1>4. c = fresh \/ c \in 1..Len(package.heap)
  BY <1>0, <1>1, <1>3 DEF Born
<1>5. \A d \in 1..Len(package.heap) : /\ d \in DOMAIN heap /\ d \notin Born' /\ d # fresh
                                      /\ heap[d].ups \in Born \union {0}
  BY <1>1, <1>2 DEF SweepOK, ListOK, Born
<1>6. \A r \in Born : Owners(r)' = Owners(r)
  BY <1>0, <1>1, <1>2, <1>5 DEF Owners, Born
<1>7. Owners(fresh)' = IF c = fresh THEN {} ELSE {c}
  BY <1>0, <1>1, <1>2, <1>4, <1>5 DEF Owners, Born
<1>8. \A r \in Born : Linked(r)' = Linked(r)
  BY <1>6 DEF Linked
<1>9. Linked(fresh)' = c
  BY <1>7 DEF Linked, Only
<1>10. \A r : r # fresh => InList(r)' = InList(r)
  BY <1>2, <1>8 DEF InList
<1>11. InList(fresh)' = c
  BY <1>2, <1>9 DEF InList
<1>12. \A a \in DOMAIN heap : a # c => Birth(a)' = Birth(a)
  BY <1>1, <1>2 DEF Birth
<1>13. c # fresh => Birth(c) = 0 /\ Birth(c)' = fresh
  BY <1>0, <1>3, <1>4, <1>5 DEF Birth
<1>14. ASSUME NEW r \in Born
       PROVE  heap'[Linked(r)'].next = InList(r - 1)' /\ heap'[r].kind # "CLOSURE"
  <2>1. Linked(r) \in DOMAIN heap /\ Birth(Linked(r)) = r /\ r \in 1..Len(heap)
    BY <1>1, <1>2, LinkedIs DEF SweepOK
  <2>2. Linked(r) # c /\ r # c
    BY <1>1, <1>3, <1>13, <2>1
  <2>3. heap[Linked(r)].next = InList(r - 1) /\ heap[r].kind # "CLOSURE"
    BY DEF SweepOK, ListOK
  <2>4. r - 1 # fresh
    BY <1>1, <2>1
  <2> QED BY <1>1, <1>8, <1>10, <2>1, <2>2, <2>3, <2>4
<1>15. heap'[Linked(fresh)'].next = InList(fresh - 1)'
  <2>1. \A m, n \in Nat : n = m + 1 => n - 1 = m /\ m # n
    OBVIOUS
  <2>2. fresh - 1 = Len(heap) /\ fresh - 1 # fresh
    BY <1>1, <2>1
  <2> QED BY <1>9, <1>10, <2>2 DEF SweepOK, ListOK
<1>16. \A d \in 1..Len(package.heap) : heap'[d].ups \in Born' \union {0}
  BY <1>0, <1>2, <1>5
<1>17. \A r \in Born' : \A d, e \in Owners(r)' : d = e
  BY <1>2, <1>6, <1>7 DEF SweepOK, ListOK
<1>18. \A r \in Born' : heap'[Linked(r)'].next = InList(r - 1)' /\ heap'[r].kind # "CLOSURE"
  <2> SUFFICES ASSUME NEW r \in Born', r \notin Born
               PROVE  heap'[Linked(r)'].next = InList(r - 1)' /\ heap'[r].kind # "CLOSURE"
    BY <1>14
  <2>1. r = fresh
    BY <1>2
  <2> QED BY <1>0, <1>15, <2>1
<1>19. ListOK'
  BY <1>1, <1>11, <1>16, <1>17, <1>18 DEF ListOK
<1>20. ASSUME NEW a \in DOMAIN heap'
       PROVE  /\ heap'[a].kind # "FREED" /\ ~(Birth(a)' > fresh)
              /\ a \notin Born' /\ Birth(a)' \in 1..fresh => heap'[a].kind = "CLOSURE"
  <2>1. CASE a = fresh
    BY <1>0, <1>1, <1>2, <2>1 DEF Birth
  <2>2. CASE a = c
    BY <1>0, <1>1, <1>13, <2>1, <2>2
  <2>3. CASE a # fresh /\ a # c
    <3>1. a \in DOMAIN heap /\ heap'[a] = heap[a] /\ Birth(a)' = Birth(a) /\ (a \in Born' <=> a \in Born)
      BY <1>1, <1>2, <1>12, <2>3
    <3>2. Birth(a) \in 0..Len(heap)
      BY <1>1, <1>2, <1>5, <3>1 DEF Birth, Born
    <3>3. Freed(Len(heap))
      BY DEF SweepOK, FreedOK
    <3>4. heap[a].kind # "FREED" /\ (a \notin Born /\ Birth(a) \in 1..Len(heap) => heap[a].kind = "CLOSURE")
      BY <1>1, <3>1, <3>2, <3>3 DEF Freed
    <3> QED BY <1>1, <3>1, <3>2, <3>4
  <2> QED BY <2>1, <2>2, <2>3
<1>21. Freed(Len(heap))'
  BY <1>1, <1>20 DEF Freed
<1> QED BY <1>19, <1>21 DEF SweepOK, FreedOK

-----------------------------------------------------------------------------
(* The steps.                                                               *)

\* An instruction that neither makes nor changes an object.
LEMMA QuietList ==
  ASSUME TypeOK, SweepOK, status = "running", UNCHANGED <<package, heap, objects, status>>
  PROVE  SweepOK'
  BY KeptList

\* An object is replaced by one with the same link, block and kind.
LEMMA StoredList ==
  ASSUME TypeOK, SweepOK, status = "running", NEW a \in DOMAIN heap, NEW o,
         o.next = heap[a].next, o.ups = heap[a].ups, o.kind = heap[a].kind,
         heap' = [heap EXCEPT ![a] = o], UNCHANGED <<package, objects, status>>
  PROVE  SweepOK'
<1>1. Len(heap') = Len(heap) /\ DOMAIN heap' = DOMAIN heap
  BY Lengths, ExceptOfSeq
<1>2. \A b \in DOMAIN heap : /\ heap'[b].next = heap[b].next /\ heap'[b].ups = heap[b].ups
                             /\ heap'[b].kind = heap[b].kind
  BY DEF SweepOK
<1> QED BY <1>1, <1>2, KeptList

\* A new object that is linked.
LEMMA AppendedList ==
  ASSUME TypeOK, SweepOK, status = "running", status' = status, package' = package,
         NEW o, o.next = objects, o.kind \notin {"CLOSURE", "FREED"},
         heap' = Append(heap, o), objects' = Fresh
  PROVE  SweepOK'
<1>1. /\ DOMAIN heap' = 1..Len(heap) + 1 /\ Len(heap') = Len(heap) + 1
      /\ heap'[Len(heap) + 1] = o /\ DOMAIN heap = 1..Len(heap)
      /\ \A a \in 1..Len(heap) : heap'[a] = heap[a]
  BY Lengths, AppendSeq
<1> QED BY <1>1, GrownList DEF Fresh

\* An instruction that makes an object with Link.
LEMMA LinkedList ==
  ASSUME TypeOK, SweepOK, status = "running", NEW kind \in Kinds \ {"CLOSURE", "FREED"}, NEW code, NEW items,
         Link(kind, code, items), Silent
  PROVE  SweepOK'
<1> DEFINE o == NewObject(kind, objects, code, items)
<1>1. o.next = objects /\ o.kind \notin {"CLOSURE", "FREED"}
  BY DEF NewObject
<1>2. heap' = Append(heap, o) /\ objects' = Fresh /\ UNCHANGED <<status, package>>
  BY DEF Link, Silent, Running
<1> HIDE DEF o
<1> QED BY <1>1, <1>2, AppendedList

\* A closure that was not created before becomes the head of the list, its new block
\* the next address of the run.
LEMMA ClosureSweep == ASSUME TypeOK, SweepOK, CreatedOnce, Closure PROVE SweepOK'
<1> DEFINE c == Operand(1)
           block == NewObject("UPVALUES", 0, 0, [i \in 1..heap[c].count |-> Captured(i - 1)])
           again == [heap[c] EXCEPT !.next = objects, !.ups = Fresh]
           mid == [heap EXCEPT ![c] = again]
<1>1. /\ InLoop /\ Readied /\ Op = "CLOSURE" /\ status = "running" /\ heap[c].ups = 0
      /\ heap' = Append(mid, block) /\ objects' = c /\ package' = package /\ status' = status
  BY DEF Closure, CreatedOnce, At, InLoop, Silent, Running
<1>2. ClosureReadable
  BY <1>1 DEF Readied, OperandsReadable, UnaryOps, IntOps, FloatOps
<1>3. c \in DOMAIN heap /\ heap[c].kind = "CLOSURE" /\ IsObject(heap[c])
  BY <1>2, Lengths DEF ClosureReadable
<1>4. again.next = objects /\ again.ups = Fresh /\ again.kind = "CLOSURE"
  BY <1>3 DEF IsObject
<1>5. block.kind \notin {"CLOSURE", "FREED"}
  BY DEF NewObject
<1> HIDE DEF c, again, block
<1>6. /\ IsSequence(mid) /\ Len(mid) = Len(heap) /\ Len(heap) \in Nat
      /\ mid[c] = again /\ \A a \in DOMAIN heap : a # c => mid[a] = heap[a]
  BY <1>3, Lengths, ExceptOfSeq
<1> HIDE DEF mid
<1>7. /\ DOMAIN heap' = 1..Len(heap) + 1 /\ Len(heap') = Len(heap) + 1 /\ heap'[Len(heap) + 1] = block
      /\ \A a \in 1..Len(heap) : heap'[a] = mid[a]
  BY <1>1, <1>6, AppendSeq
<1>8. DOMAIN heap = 1..Len(heap)
  BY Lengths
<1> QED BY <1>1, <1>3, <1>4, <1>5, <1>6, <1>7, <1>8, GrownList DEF Fresh, c

\* An assignment to a captured variable writes an upvalue block, not the list.
LEMMA SetUpvalueSweep == ASSUME TypeOK, SweepOK, SetUpvalue PROVE SweepOK'
<1>1. /\ InLoop /\ Readied /\ Op = "UPVALUE_SET" /\ Operand(1) \in Nat /\ 1 <= sp
      /\ sp \in Nat /\ status = "running"
  BY Unsigned, Widths, NeedsOf, StackTypes DEF SetUpvalue, At, InLoop
<1>2. HasUpvalue(Operand(1))
  BY <1>1 DEF Readied, OperandsReadable, UnaryOps, IntOps, FloatOps
<1> DEFINE a == Top.closed
           o == [heap[a] EXCEPT !.items[Operand(1) + 1] = Peek(0)]
<1>3. a \in DOMAIN heap /\ IsObject(heap[a]) /\ Operand(1) + 1 \in DOMAIN heap[a].items
  BY <1>1, <1>2, UpvalueIs
<1>4. o.next = heap[a].next /\ o.ups = heap[a].ups /\ o.kind = heap[a].kind
  BY <1>1, <1>3, PeekValue, ItemsObject
<1>5. heap' = [heap EXCEPT ![a] = o] /\ UNCHANGED <<package, objects, status>>
  BY DEF SetUpvalue, Silent, Running
<1> HIDE DEF a, o
<1> QED BY <1>1, <1>3, <1>4, <1>5, StoredList

\* An assignment to an element changes a container in place.
LEMMA IndexSetSweep == ASSUME TypeOK, SweepOK, IndexSet PROVE SweepOK'
<1> DEFINE a == Peek(1).bits
<1>1. /\ InLoop /\ Readied /\ Op = "INDEX_SET" /\ status = "running"
      /\ UNCHANGED <<package, objects, status>>
  BY DEF IndexSet, At, InLoop, Silent, Running
<1>2. /\ sp \in Nat /\ 3 <= sp /\ Peek(0) \in Value /\ Peek(2) \in Value
      /\ a \in DOMAIN heap /\ IsObject(heap[a])
      /\ KindOf(Peek(1)) = "MAP" => Readable(Peek(0))
  <2>1. sp \in Nat /\ 3 <= sp
    BY <1>1, Widths, NeedsOf, StackTypes
  <2> QED BY <1>1, <2>1, IndexReads, Pointer, PeekValue
<1>3. CASE InArray /\ heap' = [heap EXCEPT ![Peek(1).bits].items[Peek(0).bits + 1] = Peek(2)]
  <2> DEFINE o == [heap[a] EXCEPT !.items[Peek(0).bits + 1] = Peek(2)]
  <2>1. Peek(0).bits + 1 \in DOMAIN heap[a].items
    BY <1>2, <1>3 DEF InArray, IsObject
  <2>2. o.next = heap[a].next /\ o.ups = heap[a].ups /\ o.kind = heap[a].kind
    BY <1>2, <2>1, ItemsObject
  <2>3. heap' = [heap EXCEPT ![a] = o]
    BY <1>3
  <2> HIDE DEF a, o
  <2> QED BY <1>1, <1>2, <2>2, <2>3, StoredList
<1>4. CASE InMap /\ heap' = [heap EXCEPT ![Peek(1).bits].entries =
                               MapInsert(@, LeafOf(Peek(0)), Peek(2))]
  <2> DEFINE o == [heap[a] EXCEPT !.entries = MapInsert(@, LeafOf(Peek(0)), Peek(2))]
  <2>1. LeafOf(Peek(0)) \in Leaf
    BY <1>2, <1>4, LeafValue DEF InMap
  <2>2. o.next = heap[a].next /\ o.ups = heap[a].ups /\ o.kind = heap[a].kind
    BY <1>2, <2>1, EntriesObject
  <2>3. heap' = [heap EXCEPT ![a] = o]
    BY <1>4
  <2> HIDE DEF a, o
  <2> QED BY <1>1, <1>2, <2>2, <2>3, StoredList
<1> QED BY <1>3, <1>4 DEF IndexSet

\* An assignment to a member changes a struct in place.
LEMMA StructSetSweep == ASSUME TypeOK, SweepOK, StructSet PROVE SweepOK'
<1>1. InLoop /\ Readied /\ Op = "STRUCT_SET" /\ status = "running" /\ sp \in Nat /\ 2 <= sp
  BY Widths, NeedsOf, StackTypes DEF StructSet, At, InLoop
<1> DEFINE a == Peek(0).bits
           o == [heap[a] EXCEPT !.items[Member] = Peek(1)]
<1>2. a \in DOMAIN heap /\ IsObject(heap[a]) /\ Member \in DOMAIN heap[a].items
  BY <1>1, MemberIs
<1>3. o.next = heap[a].next /\ o.ups = heap[a].ups /\ o.kind = heap[a].kind
  BY <1>1, <1>2, PeekValue, ItemsObject
<1>4. heap' = [heap EXCEPT ![a] = o] /\ UNCHANGED <<package, objects, status>>
  BY DEF StructSet, Silent, Running
<1> HIDE DEF a, o
<1> QED BY <1>1, <1>2, <1>3, <1>4, StoredList

\* Every instruction keeps the list in order.
LEMMA InstructionSweep == ASSUME TypeOK, SweepOK, CreatedOnce, Instruction PROVE SweepOK'
<1>1. status = "running"
  BY DEF Instruction, Constant, StringLiteral, ArrayLiteral, MapLiteral, Constructor, EmptyContainer,
         Closure, Unary, Binary, ShortCircuit, GetLocal, SetLocal, GetGlobal, GetUpvalue, SetUpvalue,
         IndexGet, IndexSet, StructGet, StructSet, JumpAlways, JumpIfZero, Pop, CallFunction,
         CallNative, Return, At, InLoop
<1>2. CASE StringLiteral \/ ArrayLiteral \/ Constructor \/ EmptyContainer
  <2>1. PICK kind, code, items : /\ kind \in {"STRING", "ARRAY", "STRUCT", "MAP"}
                                 /\ Link(kind, code, items) /\ Silent
    BY <1>2 DEF StringLiteral, ArrayLiteral, Constructor, EmptyContainer
  <2> QED BY <1>1, <2>1, LinkedList DEF Kinds
<1>3. CASE MapLiteral
  <2> DEFINE o == [NewObject("MAP", objects, 0, <<>>) EXCEPT
                     !.entries = [k \in {LeafOf(LiteralKey(i)) : i \in 1..Operand(1)} |-> LiteralValue(LastPair(k))]]
  <2>1. heap' = Append(heap, o) /\ objects' = Fresh /\ UNCHANGED <<status, package>>
    BY <1>3 DEF MapLiteral, Silent, Running
  <2>2. o.next = objects /\ o.kind = "MAP"
    BY DEF NewObject
  <2> HIDE DEF o
  <2> QED BY <1>1, <2>1, <2>2, AppendedList
<1>4. CASE Closure
  BY <1>4, ClosureSweep
<1>5. CASE Constant \/ Unary \/ Binary \/ ShortCircuit \/ GetLocal \/ SetLocal \/ GetGlobal \/ GetUpvalue
           \/ IndexGet \/ StructGet \/ JumpAlways \/ JumpIfZero \/ Pop \/ CallFunction
  <2>1. NoAlloc
    BY <1>5 DEF Constant, Unary, Binary, ShortCircuit, GetLocal, SetLocal, GetGlobal, GetUpvalue,
                IndexGet, StructGet, JumpAlways, JumpIfZero, Pop, CallFunction
  <2> QED BY <1>1, <2>1, QuietList DEF NoAlloc, Silent, Running
<1>6. CASE CallNative
  BY <1>1, <1>6, QuietList DEF CallNative, Running
<1>7. CASE Return
  BY <1>1, <1>7, KeptList DEF Return, Leave
<1>8. CASE SetUpvalue
  BY <1>8, SetUpvalueSweep
<1>9. CASE IndexSet
  BY <1>9, IndexSetSweep
<1>10. CASE StructSet
  BY <1>10, StructSetSweep
<1> QED BY <1>2, <1>3, <1>4, <1>5, <1>6, <1>7, <1>8, <1>9, <1>10 DEF Instruction

\* The sweep goes one address down, and what it leaves behind is freed.
LEMMA FreeObjectSweep == ASSUME TypeOK, SweepOK, FreeObject PROVE SweepOK'
<1>1. /\ status = "sweep" /\ status' = status /\ package' = package /\ objects' = objects
      /\ cursor # 0 /\ cursor' = heap[cursor].next
  BY DEF FreeObject
<1>2. PICK r \in Len(package.heap)..Len(heap) : cursor = InList(r) /\ Freed(r)
  BY <1>1 DEF SweepOK, FreedOK
<1>3. /\ Len(package.heap) \in Nat /\ Len(heap) \in Nat /\ DOMAIN heap = 1..Len(heap)
      /\ Born \subseteq DOMAIN heap /\ \A a \in DOMAIN heap : IsObject(heap[a])
  BY Lengths
<1>4. r \in Born /\ cursor = Linked(r)
  BY <1>1, <1>2 DEF InList
<1>5. /\ cursor \in DOMAIN heap /\ Birth(cursor) = r
      /\ \A a \in DOMAIN heap : Birth(a) = r <=> a = r \/ a = cursor
      /\ cursor \in Born => cursor = r
  BY <1>4, LinkedIs DEF SweepOK
<1> DEFINE gone == {r, cursor}
<1>6. heap' = [a \in DOMAIN heap |-> IF a \in gone THEN [heap[a] EXCEPT !.kind = "FREED"] ELSE heap[a]]
  <2>1. CASE cursor \in Born
    BY <1>4, <1>5, <2>1 DEF FreeObject, SweepOK, ListOK
  <2>2. CASE cursor \notin Born
    <3>1. heap[cursor].ups = r
      BY <1>5, <2>2 DEF Birth
    <3>2. r \in 1..r
      BY <1>3, <1>4 DEF Born
    <3>3. heap[cursor].kind = "CLOSURE"
      BY <1>2, <1>5, <2>2, <3>2 DEF Freed
    <3> QED BY <3>1, <3>3 DEF FreeObject
  <2> QED BY <2>1, <2>2
<1>7. \A a \in DOMAIN heap : /\ heap'[a].next = heap[a].next /\ heap'[a].ups = heap[a].ups
                             /\ heap'[a].kind = IF a \in gone THEN "FREED" ELSE heap[a].kind
  BY <1>3, <1>6 DEF IsObject
<1> HIDE DEF gone
<1>8. DOMAIN heap' = DOMAIN heap /\ Len(heap') = Len(heap)
  <2>1. IsSequence(heap')
    BY FreeObjectOK DEF TypeOK, HeapOK
  <2>2. DOMAIN heap' = DOMAIN heap
    BY <1>6
  <2> QED BY <1>3, <2>1, <2>2 DEF IsSequence
<1>9. /\ ListOK' /\ Born' = Born /\ \A s : InList(s)' = InList(s)
      /\ \A a \in DOMAIN heap : Birth(a)' = Birth(a)
  BY <1>1, <1>7, <1>8, SameList DEF SweepOK
<1>10. cursor' = InList(r - 1) /\ r - 1 \in Len(package.heap)..Len(heap)
  BY <1>1, <1>3, <1>4 DEF SweepOK, ListOK, Born
<1>11. ASSUME NEW a \in DOMAIN heap
       PROVE  /\ heap'[a].kind = "FREED" <=> Birth(a) > r - 1
              /\ a \notin Born /\ Birth(a) \in 1..r - 1 => heap'[a].kind = "CLOSURE"
  <2>1. Birth(a) \in Nat /\ r \in Nat
    BY <1>3, <1>4, Lengths DEF Birth, Born
  <2>2. /\ heap[a].kind = "FREED" <=> Birth(a) > r
        /\ a \notin Born /\ Birth(a) \in 1..r => heap[a].kind = "CLOSURE"
    BY <1>2 DEF Freed
  <2>3. a \in gone <=> Birth(a) = r
    BY <1>5 DEF gone
  <2> QED BY <1>7, <2>1, <2>2, <2>3
<1>12. Freed(r - 1)'
  BY <1>8, <1>9, <1>11 DEF Freed
<1> QED BY <1>1, <1>8, <1>9, <1>10, <1>12 DEF SweepOK, FreedOK

\* What the sweep is at has not been freed.
LEMMA CursorIsLive == ASSUME TypeOK, SweepOK, status = "sweep", cursor # 0 PROVE heap[cursor].kind # "FREED"
<1>1. PICK r \in Len(package.heap)..Len(heap) : cursor = InList(r) /\ Freed(r)
  BY DEF SweepOK, FreedOK
<1>2. r \in Born /\ cursor = Linked(r)
  BY <1>1 DEF InList
<1>3. cursor \in DOMAIN heap /\ Birth(cursor) = r /\ r \in Nat
  BY <1>1, <1>2, LinkedIs, Lengths DEF SweepOK
<1> QED BY <1>1, <1>3 DEF Freed

\* The sweep is over below the first address of the run.
LEMMA SweepEndsOnce == ASSUME TypeOK, SweepOK, SweepEnds PROVE SweepOK'
<1>1. /\ status = "sweep" /\ cursor = 0 /\ status' = "done"
      /\ UNCHANGED <<package, heap, objects>>
  BY DEF SweepEnds, End
<1>2. PICK r \in Len(package.heap)..Len(heap) : cursor = InList(r) /\ Freed(r)
  BY <1>1 DEF SweepOK, FreedOK
<1>3. r \notin Born
  BY <1>1, <1>2, LinkedIs DEF InList, SweepOK
<1>4. r = Len(package.heap)
  BY <1>3, Lengths DEF Born
<1>5. Freed(Len(package.heap))
  BY <1>2, <1>4
<1>6. ListOK' /\ Born' = Born /\ \A a \in DOMAIN heap : Birth(a)' = Birth(a)
  BY <1>1, SameList DEF SweepOK
<1>7. Freed(Len(package.heap))'
  BY <1>1, <1>5, <1>6 DEF Freed
<1> QED BY <1>1, <1>6, <1>7 DEF SweepOK, FreedOK

\* Every step of the engine keeps the list in order and the sweep on it.
LEMMA NextSweep == ASSUME TypeOK, SweepOK, CreatedOnce, [Next]_vars PROVE SweepOK'
<1>1. CASE Instruction
  BY <1>1, InstructionSweep
<1>2. CASE FallOff
  BY <1>2, KeptList DEF FallOff, Leave
<1>3. CASE Failure
  <2>1. status = "running" /\ \E how \in Ended \ {"done"} : End(how)
    BY <1>3 DEF Failure, StackOverflow, OutOfMemory, CStackOverflow, BadIndex, AssertFails, GoesWild,
                At, InLoop, Ended
  <2> QED BY <2>1, KeptList DEF End
<1>4. CASE FreeObject
  BY <1>4, FreeObjectSweep
<1>5. CASE DoubleFree
  BY <1>5, CursorIsLive DEF DoubleFree
<1>6. CASE SweepEnds
  BY <1>6, SweepEndsOnce
<1>7. CASE UNCHANGED vars
  <2>1. UNCHANGED <<package, heap, objects, status, cursor>>
    BY <1>7 DEF vars
  <2>2. ListOK' /\ \A r : InList(r)' = InList(r)
    BY <2>1, SameList DEF SweepOK
  <2>3. \A r : Freed(r)' <=> Freed(r)
    BY <2>1 DEF Freed, Birth, Born
  <2> QED BY <2>1, <2>2, <2>3 DEF SweepOK, FreedOK
<1> QED BY <1>1, <1>2, <1>3, <1>4, <1>5, <1>6, <1>7 DEF Next, Terminated, Sweep

\* Before the first step there is no object made during the run.
LEMMA InitSweep == ASSUME Init PROVE SweepOK
<1>1. /\ package = Programs[program] /\ program \in DOMAIN Programs /\ heap = package.heap
      /\ objects = 0 /\ status \in {"running", "no_main"}
  BY DEF Init
<1>2. /\ Len(heap) \in Nat /\ DOMAIN heap = 1..Len(heap)
      /\ \A a \in DOMAIN heap : heap[a].ups = 0 /\ heap[a].kind # "FREED"
  <2>1. IsPackage(package)
    BY <1>1, EngineAssumption
  <2>2. IsSequence(heap) /\ \A a \in DOMAIN heap : heap[a].ups = 0 /\ heap[a].kind # "FREED"
    BY <1>1, <2>1 DEF IsPackage
  <2> QED BY <2>2 DEF IsSequence
<1>3. Born = {}
  BY <1>1, <1>2 DEF Born
<1>4. ListOK
  BY <1>1, <1>2, <1>3 DEF ListOK, InList
<1>5. Freed(Len(heap))
  BY <1>2, <1>3 DEF Freed, Birth
<1>6. FreedOK
  BY <1>1, <1>5 DEF FreedOK
<1> QED BY <1>4, <1>6 DEF SweepOK

\* What the invariant says of the sweep.
LEMMA SweepIsClean == ASSUME TypeOK, SweepOK PROVE EverythingFreedOnce
<1>1. ASSUME status = "done", NEW a \in DOMAIN heap
      PROVE  heap[a].kind = "FREED" <=> a > Len(package.heap) \/ heap[a].ups # 0
  <2>1. heap[a].kind = "FREED" <=> Birth(a) > Len(package.heap)
    BY <1>1 DEF SweepOK, FreedOK, Freed
  <2>2. a \in Born <=> a > Len(package.heap)
    BY Lengths DEF Born
  <2>3. a \notin Born => a \in 1..Len(package.heap)
    BY <2>2, Lengths
  <2>4. a \notin Born => heap[a].ups \in Born \union {0}
    BY <2>3 DEF SweepOK, ListOK
  <2> QED BY <2>1, <2>2, <2>4, Lengths DEF Birth, Born
<1> QED BY <1>1, CursorIsLive DEF EverythingFreedOnce

\* A program that creates no closure twice leaks nothing and frees nothing twice: when
\* mtr_execute sweeps, each object made during the run and each closure created is freed
\* exactly once, and nothing else.
THEOREM SweepsClean ==
  ASSUME FloatsAreWords
  PROVE  Spec /\ []CreatedOnce => []EverythingFreedOnce
<1>1. Init => SweepOK
  BY InitSweep
<1>2. TypeOK /\ SweepOK /\ CreatedOnce /\ [Next]_vars => SweepOK'
  BY NextSweep
<1>3. TypeOK /\ SweepOK => EverythingFreedOnce
  BY SweepIsClean
<1> QED BY <1>1, <1>2, <1>3, TypeCorrect, PTL DEF Spec

\* A package without a CLOSURE instruction cannot create a closure twice.
COROLLARY SweepsCleanWithoutClosures ==
  ASSUME FloatsAreWords,
         \A p \in DOMAIN Programs : \A c \in DOMAIN Programs[p].chunks :
           \A i \in DOMAIN Programs[p].chunks[c] : Programs[p].chunks[c][i].op # "CLOSURE"
  PROVE  Spec => []EverythingFreedOnce
<1> DEFINE Own == program \in DOMAIN Programs /\ package = Programs[program]
<1>1. Init => Own
  BY DEF Init
<1>2. Own /\ [Next]_vars => Own'
  BY DEF Next, vars, Instruction, Constant, StringLiteral, ArrayLiteral, MapLiteral, Constructor, EmptyContainer,
         Closure, Unary, Binary, ShortCircuit, GetLocal, SetLocal, GetGlobal, GetUpvalue, SetUpvalue,
         IndexGet, IndexSet, StructGet, StructSet, JumpAlways, JumpIfZero, Pop, CallFunction,
         CallNative, Return, FallOff, Leave, Failure, StackOverflow, OutOfMemory, CStackOverflow, BadIndex,
         AssertFails, GoesWild, End, Sweep, FreeObject, DoubleFree, SweepEnds, Terminated, NoAlloc, Silent, Running
<1>3. TypeOK /\ Own => CreatedOnce
  <2> SUFFICES ASSUME TypeOK, Own, At({"CLOSURE"}) PROVE FALSE
    BY DEF CreatedOnce
  <2>1. status = "running" /\ Top.ip < Len(Code) /\ CodeReadable /\ Op = "CLOSURE"
    BY DEF At, InLoop, Readied
  <2>2. Top.ip \in Nat /\ Top \in Frame /\ Code \in Seq(Cell)
    BY <2>1, CurrentInstruction, CurrentFrame
  <2>3. Top.ip + 1 \in DOMAIN Code /\ Top.chunk \in DOMAIN package.chunks
    BY <2>1, <2>2 DEF Frame
  <2> QED BY <2>1, <2>3 DEF Op, Code
<1> QED BY <1>1, <1>2, <1>3, TypeCorrect, SweepsClean, PTL DEF Spec
=============================================================================
