-------------------------- MODULE InnerBufferProofs --------------------------
(***************************************************************************)
(* Proofs about the inner buffer, for every number of items and all data:  *)
(* its types and counters, then that it loses and duplicates no item, and  *)
(* that it implements a bounded FIFO queue.                                *)
(***************************************************************************)
EXTENDS InnerBuffer, SequenceTheorems, TLAPS

-----------------------------------------------------------------------------
(***************************************************************************)
(* Lists.                                                                  *)
(***************************************************************************)

\* What the first item of a list and the rest of it are.
LEMMA HeadTail ==
  ASSUME NEW l \in Seq(Item), l # << >>
  PROVE  /\ Len(l) \in Nat \ {0}
         /\ Head(l) = l[1]
         /\ Head(l) \in Item
         /\ Tail(l) \in Seq(Item)
         /\ Len(Tail(l)) = Len(l) - 1
         /\ \A k \in 1 .. Len(Tail(l)) : Tail(l)[k] = l[k + 1]
  OBVIOUS

\* What an item at the end of a list changes.
LEMMA AppendItem ==
  ASSUME NEW l \in Seq(Item), NEW i \in Item
  PROVE  /\ Append(l, i) \in Seq(Item)
         /\ Len(Append(l, i)) = Len(l) + 1
         /\ Append(l, i)[Len(l) + 1] = i
         /\ \A k \in 1 .. Len(l) : Append(l, i)[k] = l[k]
  OBVIOUS

-----------------------------------------------------------------------------
(***************************************************************************)
(* The counters.  While a thread holds the mutex its counter may be off by *)
(* one; the lists and the hands together hold BUFFER_SIZE items.           *)
(***************************************************************************)
One(b) == IF b THEN 1 ELSE 0

InHand(t) == pc[t] \in {"got", "work", "check", "put"}

\* A counter is right, up to the update that its thread is about to make.
FreeCounter ==
  freeitem = Len(empty) + One(pc["producer"] = "got")
                        - One(pc["consumer"] = "done")

ItemCounter ==
  itemnum = Len(full) + One(pc["consumer"] = "got")
                      - One(pc["producer"] = "done")

\* The lists and the hands together hold all items.
AllItems ==
  Len(empty) + Len(full) + One(InHand("producer"))
                         + One(InHand("consumer")) = BUFFER_SIZE

\* What a thread has in its hands, and when it has the mutex.
Hands ==
  /\ held["producer"] # NoItem <=> InHand("producer")
  /\ held["consumer"] # NoItem <=> InHand("consumer")
  /\ mutex = "producer" <=> pc["producer"] \in {"got", "done"}
  /\ mutex = "consumer" <=> pc["consumer"] \in {"got", "done"}

\* A list that was seen not to be empty is not emptied by the other thread.
StillThere ==
  /\ pc["producer"] = "get" => Len(empty) > 0
  /\ pc["consumer"] = "get" => Len(full) > 0
  /\ pc["producer"] # "wild" /\ pc["consumer"] # "wild"

CountInv ==
  /\ FreeCounter /\ ItemCounter /\ AllItems
  /\ Hands /\ StillThere /\ NothingDropped

TypedCount == TypeOK /\ CountInv

\* The initial state: all items are in the empty list.
LEMMA InitCount == Init => TypedCount
  <1> SUFFICES ASSUME Init PROVE TypedCount
    OBVIOUS
  <1>1. empty \in Seq(Item) /\ Len(empty) = BUFFER_SIZE
    BY BufferConstants DEF Init, Item
  <1>2. full \in Seq(Item) /\ Len(full) = 0
    BY DEF Init
  <1>3. pc \in [Thread -> ThreadPc] /\ held \in [Thread -> Item \cup {NoItem}]
    BY DEF Init, ThreadPc, NoItem
  <1>4. freeitem \in 0 .. BUFFER_SIZE /\ itemnum \in 0 .. BUFFER_SIZE
    BY BufferConstants DEF Init
  <1>5. TypeOK
    BY <1>1, <1>2, <1>3, <1>4 DEF Init, TypeOK
  <1>6. CountInv
    BY <1>1, <1>2, BufferConstants
       DEF Init, CountInv, FreeCounter, ItemCounter, AllItems, Hands, StillThere, One, InHand, NothingDropped, Thread,
           Nobody, NoItem
  <1> QED
    BY <1>5, <1>6 DEF TypedCount

\* Every step of the producer keeps the counters right.
LEMMA ProducerCount == TypedCount /\ Producer => TypedCount'
  <1> SUFFICES ASSUME TypedCount, Producer PROVE TypedCount'
    OBVIOUS
  <1>a. TypeOK /\ CountInv
    BY DEF TypedCount
  <1>b. Len(empty) \in Nat /\ Len(full) \in Nat
    BY <1>a DEF TypeOK
  <1>1. CASE GetEmptyCheck
    <2>1. /\ pc["producer"] = "idle" /\ pc'["producer"] = "get"
          /\ pc'["consumer"] = pc["consumer"]
          /\ pc' \in [Thread -> ThreadPc]
      BY <1>1, <1>a DEF GetEmptyCheck, GoTo, TypeOK, Thread, ThreadPc
    <2>2. TypeOK'
      BY <1>1, <1>a, <2>1 DEF GetEmptyCheck, TypeOK, Thread, Nobody
    <2>3. CountInv'
      BY <1>1, <1>a, <1>b, <2>1, BufferConstants
         DEF GetEmptyCheck, TypeOK, CountInv, FreeCounter, ItemCounter, AllItems, Hands, StillThere, One, InHand, NothingDropped, Nobody
    <2> QED
      BY <2>2, <2>3 DEF TypedCount
  <1>2. CASE GetEmptyRemove
    <2>1. empty # << >> /\ pc["producer"] = "get"
      BY <1>2, <1>a, <1>b DEF GetEmptyRemove, CountInv, StillThere, TypeOK, GoTo
    <2>2. /\ empty' \in Seq(Item) /\ Len(empty') = Len(empty) - 1
          /\ Head(empty) \in Item
      BY <1>2, <2>1, <1>a, HeadTail DEF GetEmptyRemove, TypeOK
    <2>3. Head(empty) # NoItem
      BY <2>2 DEF Item, NoItem
    <2>4. /\ pc["producer"] = "get" /\ pc'["producer"] = "got"
          /\ pc'["consumer"] = pc["consumer"]
          /\ pc' \in [Thread -> ThreadPc]
      BY <1>2, <1>a, <2>1, <2>2, <2>3 DEF GetEmptyRemove, GoTo, TypeOK, Thread, ThreadPc
    <2>5. /\ held'["producer"] = Head(empty) /\ held'["consumer"] = held["consumer"]
          /\ held' \in [Thread -> Item \cup {NoItem}]
      BY <1>2, <1>a, <2>1, <2>2, <2>3 DEF GetEmptyRemove, TypeOK, Thread
    <2>6. TypeOK'
      BY <1>2, <1>a, <2>1, <2>2, <2>3, <2>4, <2>5 DEF GetEmptyRemove, TypeOK, Thread, Lock, Nobody
    <2>7. /\ mutex = Nobody /\ mutex' = "producer"
          /\ UNCHANGED <<full, freeitem, itemnum, lost>>
      BY <1>2 DEF GetEmptyRemove, Lock
    <2>8. NothingDropped'
      BY <1>a, <2>7 DEF CountInv, NothingDropped
    <2>9. FreeCounter'
      BY <1>a, <1>b, <2>2, <2>4, <2>7
         DEF CountInv, FreeCounter, Hands, One, Nobody
    <2>9a. ItemCounter'
      BY <1>a, <1>b, <2>2, <2>4, <2>7
         DEF CountInv, ItemCounter, Hands, One, Nobody
    <2>10. AllItems'
      BY <1>a, <1>b, <2>2, <2>4, <2>7 DEF CountInv, AllItems, One, InHand
    <2>11. Hands'
      BY <1>a, <2>3, <2>4, <2>5, <2>7 DEF CountInv, Hands, InHand, Nobody
    <2>12. StillThere'
      BY <1>a, <1>b, <2>4, <2>7 DEF CountInv, StillThere
    <2> QED
      BY <2>6, <2>8, <2>9, <2>9a, <2>10, <2>11, <2>12
         DEF TypedCount, CountInv
  <1>3. CASE GetEmptyCount
    <2>1. /\ pc["producer"] = "got" /\ pc'["producer"] = "work"
          /\ pc'["consumer"] = pc["consumer"]
          /\ pc' \in [Thread -> ThreadPc]
      BY <1>3, <1>a DEF GetEmptyCount, GoTo, TypeOK, Thread, ThreadPc
    <2>2. freeitem' \in 0 .. BUFFER_SIZE
      BY <1>3, <1>a, <1>b, <2>1, BufferConstants
         DEF GetEmptyCount, Unlock, TypeOK, CountInv, FreeCounter, ItemCounter, AllItems, Hands, StillThere, One, InHand
    <2>3. TypeOK'
      BY <1>3, <1>a, <2>1, <2>2 DEF GetEmptyCount, TypeOK, Thread, Unlock, Nobody
    <2>4. CountInv'
      BY <1>3, <1>a, <1>b, <2>1, <2>2, BufferConstants
         DEF GetEmptyCount, TypeOK, CountInv, FreeCounter, ItemCounter, AllItems, Hands, StillThere, One, InHand, NothingDropped, Unlock, Nobody
    <2> QED
      BY <2>3, <2>4 DEF TypedCount
  <1>4. CASE Fill
    <2>1. /\ pc["producer"] = "work" /\ pc'["producer"] = "check"
          /\ pc'["consumer"] = pc["consumer"]
          /\ pc' \in [Thread -> ThreadPc]
      BY <1>4, <1>a DEF Fill, GoTo, TypeOK, Thread, ThreadPc
    <2>2. TypeOK'
      BY <1>4, <1>a, <2>1 DEF Fill, TypeOK, Thread, Nobody
    <2>3. CountInv'
      BY <1>4, <1>a, <1>b, <2>1, BufferConstants
         DEF Fill, TypeOK, CountInv, FreeCounter, ItemCounter, AllItems, Hands, StillThere, One, InHand, NothingDropped, Nobody
    <2> QED
      BY <2>2, <2>3 DEF TypedCount
  <1>5. CASE PostFullCheck
    <2>1. itemnum # BUFFER_SIZE
      BY <1>5, <1>a, <1>b, BufferConstants
         DEF PostFullCheck, GoTo, CountInv, FreeCounter, ItemCounter, AllItems, Hands, StillThere, One, InHand, TypeOK
    <2>2. /\ pc["producer"] = "check" /\ pc'["producer"] = "put"
          /\ pc'["consumer"] = pc["consumer"]
          /\ pc' \in [Thread -> ThreadPc]
      BY <1>5, <1>a, <2>1 DEF PostFullCheck, GoTo, TypeOK, Thread, ThreadPc
    <2>3. TypeOK'
      BY <1>5, <1>a, <2>1, <2>2 DEF PostFullCheck, TypeOK, Thread, Nobody
    <2>4. CountInv'
      BY <1>5, <1>a, <1>b, <2>1, <2>2, BufferConstants
         DEF PostFullCheck, TypeOK, CountInv, FreeCounter, ItemCounter, AllItems, Hands, StillThere, One, InHand, NothingDropped, Nobody
    <2> QED
      BY <2>3, <2>4 DEF TypedCount
  <1>6. CASE PostFullInsert
    <2>1. held["producer"] \in Item
      BY <1>6, <1>a DEF PostFullInsert, GoTo, CountInv, Hands, InHand, TypeOK, Thread
    <2>2. full' \in Seq(Item) /\ Len(full') = Len(full) + 1
      BY <1>6, <1>a, <2>1, AppendItem DEF PostFullInsert, TypeOK
    <2>3. /\ pc["producer"] = "put" /\ pc'["producer"] = "done"
          /\ pc'["consumer"] = pc["consumer"]
          /\ pc' \in [Thread -> ThreadPc]
      BY <1>6, <1>a, <2>1, <2>2 DEF PostFullInsert, GoTo, TypeOK, Thread, ThreadPc
    <2>4. /\ held'["producer"] = NoItem /\ held'["consumer"] = held["consumer"]
          /\ held' \in [Thread -> Item \cup {NoItem}]
      BY <1>6, <1>a, <2>1, <2>2 DEF PostFullInsert, TypeOK, Thread
    <2>5. TypeOK'
      BY <1>6, <1>a, <2>1, <2>2, <2>3, <2>4 DEF PostFullInsert, TypeOK, Thread, Lock, Nobody
    <2>6. CountInv'
      BY <1>6, <1>a, <1>b, <2>1, <2>2, <2>3, <2>4, BufferConstants
         DEF PostFullInsert, TypeOK, CountInv, FreeCounter, ItemCounter, AllItems, Hands, StillThere, One, InHand, NothingDropped, Lock, Nobody
    <2> QED
      BY <2>5, <2>6 DEF TypedCount
  <1>7. CASE PostFullCount
    <2>1. /\ pc["producer"] = "done" /\ pc'["producer"] = "idle"
          /\ pc'["consumer"] = pc["consumer"]
          /\ pc' \in [Thread -> ThreadPc]
      BY <1>7, <1>a DEF PostFullCount, GoTo, TypeOK, Thread, ThreadPc
    <2>2. itemnum' \in 0 .. BUFFER_SIZE
      BY <1>7, <1>a, <1>b, <2>1, BufferConstants
         DEF PostFullCount, Unlock, TypeOK, CountInv, FreeCounter, ItemCounter, AllItems, Hands, StillThere, One, InHand
    <2>3. TypeOK'
      BY <1>7, <1>a, <2>1, <2>2 DEF PostFullCount, TypeOK, Thread, Unlock, Nobody
    <2>4. CountInv'
      BY <1>7, <1>a, <1>b, <2>1, <2>2, BufferConstants
         DEF PostFullCount, TypeOK, CountInv, FreeCounter, ItemCounter, AllItems, Hands, StillThere, One, InHand, NothingDropped, Unlock, Nobody
    <2> QED
      BY <2>3, <2>4 DEF TypedCount
  <1> QED
    BY <1>1, <1>2, <1>3, <1>4, <1>5, <1>6, <1>7 DEF Producer

\* Every step of the consumer keeps the counters right.
LEMMA ConsumerCount == TypedCount /\ Consumer => TypedCount'
  <1> SUFFICES ASSUME TypedCount, Consumer PROVE TypedCount'
    OBVIOUS
  <1>a. TypeOK /\ CountInv
    BY DEF TypedCount
  <1>b. Len(empty) \in Nat /\ Len(full) \in Nat
    BY <1>a DEF TypeOK
  <1>1. CASE GetFullCheck
    <2>1. /\ pc["consumer"] = "idle" /\ pc'["consumer"] = "get"
          /\ pc'["producer"] = pc["producer"]
          /\ pc' \in [Thread -> ThreadPc]
      BY <1>1, <1>a DEF GetFullCheck, GoTo, TypeOK, Thread, ThreadPc
    <2>2. TypeOK'
      BY <1>1, <1>a, <2>1 DEF GetFullCheck, TypeOK, Thread, Nobody
    <2>3. CountInv'
      BY <1>1, <1>a, <1>b, <2>1, BufferConstants
         DEF GetFullCheck, TypeOK, CountInv, FreeCounter, ItemCounter, AllItems, Hands, StillThere, One, InHand, NothingDropped, Nobody
    <2> QED
      BY <2>2, <2>3 DEF TypedCount
  <1>2. CASE GetFullRemove
    <2>1. full # << >> /\ pc["consumer"] = "get"
      BY <1>2, <1>a, <1>b DEF GetFullRemove, CountInv, StillThere, TypeOK, GoTo
    <2>2. /\ full' \in Seq(Item) /\ Len(full') = Len(full) - 1
          /\ Head(full) \in Item
      BY <1>2, <2>1, <1>a, HeadTail DEF GetFullRemove, TypeOK
    <2>3. Head(full) # NoItem
      BY <2>2 DEF Item, NoItem
    <2>4. /\ pc["consumer"] = "get" /\ pc'["consumer"] = "got"
          /\ pc'["producer"] = pc["producer"]
          /\ pc' \in [Thread -> ThreadPc]
      BY <1>2, <1>a, <2>1, <2>2, <2>3 DEF GetFullRemove, GoTo, TypeOK, Thread, ThreadPc
    <2>5. /\ held'["consumer"] = Head(full) /\ held'["producer"] = held["producer"]
          /\ held' \in [Thread -> Item \cup {NoItem}]
      BY <1>2, <1>a, <2>1, <2>2, <2>3 DEF GetFullRemove, TypeOK, Thread
    <2>6. TypeOK'
      BY <1>2, <1>a, <2>1, <2>2, <2>3, <2>4, <2>5 DEF GetFullRemove, TypeOK, Thread, Lock, Nobody
    <2>7. /\ mutex = Nobody /\ mutex' = "consumer"
          /\ UNCHANGED <<empty, freeitem, itemnum, lost>>
      BY <1>2 DEF GetFullRemove, Lock
    <2>8. NothingDropped'
      BY <1>a, <2>7 DEF CountInv, NothingDropped
    <2>9. FreeCounter'
      BY <1>a, <1>b, <2>2, <2>4, <2>7
         DEF CountInv, FreeCounter, Hands, One, Nobody
    <2>9a. ItemCounter'
      BY <1>a, <1>b, <2>2, <2>4, <2>7
         DEF CountInv, ItemCounter, Hands, One, Nobody
    <2>10. AllItems'
      BY <1>a, <1>b, <2>2, <2>4, <2>7 DEF CountInv, AllItems, One, InHand
    <2>11. Hands'
      BY <1>a, <2>3, <2>4, <2>5, <2>7 DEF CountInv, Hands, InHand, Nobody
    <2>12. StillThere'
      BY <1>a, <1>b, <2>4, <2>7 DEF CountInv, StillThere
    <2> QED
      BY <2>6, <2>8, <2>9, <2>9a, <2>10, <2>11, <2>12
         DEF TypedCount, CountInv
  <1>3. CASE GetFullCount
    <2>1. /\ pc["consumer"] = "got" /\ pc'["consumer"] = "work"
          /\ pc'["producer"] = pc["producer"]
          /\ pc' \in [Thread -> ThreadPc]
      BY <1>3, <1>a DEF GetFullCount, GoTo, TypeOK, Thread, ThreadPc
    <2>2. itemnum' \in 0 .. BUFFER_SIZE
      BY <1>3, <1>a, <1>b, <2>1, BufferConstants
         DEF GetFullCount, Unlock, TypeOK, CountInv, FreeCounter, ItemCounter, AllItems, Hands, StillThere, One, InHand
    <2>3. TypeOK'
      BY <1>3, <1>a, <2>1, <2>2 DEF GetFullCount, TypeOK, Thread, Unlock, Nobody
    <2>4. CountInv'
      BY <1>3, <1>a, <1>b, <2>1, <2>2, BufferConstants
         DEF GetFullCount, TypeOK, CountInv, FreeCounter, ItemCounter, AllItems, Hands, StillThere, One, InHand, NothingDropped, Unlock, Nobody
    <2> QED
      BY <2>3, <2>4 DEF TypedCount
  <1>4. CASE UseAndClear
    <2>1. /\ pc["consumer"] = "work" /\ pc'["consumer"] = "check"
          /\ pc'["producer"] = pc["producer"]
          /\ pc' \in [Thread -> ThreadPc]
      BY <1>4, <1>a DEF UseAndClear, GoTo, TypeOK, Thread, ThreadPc
    <2>2. TypeOK'
      BY <1>4, <1>a, <2>1 DEF UseAndClear, TypeOK, Thread, Nobody
    <2>3. CountInv'
      BY <1>4, <1>a, <1>b, <2>1, BufferConstants
         DEF UseAndClear, TypeOK, CountInv, FreeCounter, ItemCounter, AllItems, Hands, StillThere, One, InHand, NothingDropped, Nobody
    <2> QED
      BY <2>2, <2>3 DEF TypedCount
  <1>5. CASE ReleaseCheck
    <2>1. freeitem # BUFFER_SIZE
      BY <1>5, <1>a, <1>b, BufferConstants
         DEF ReleaseCheck, GoTo, CountInv, FreeCounter, ItemCounter, AllItems, Hands, StillThere, One, InHand, TypeOK
    <2>2. /\ pc["consumer"] = "check" /\ pc'["consumer"] = "put"
          /\ pc'["producer"] = pc["producer"]
          /\ pc' \in [Thread -> ThreadPc]
      BY <1>5, <1>a, <2>1 DEF ReleaseCheck, GoTo, TypeOK, Thread, ThreadPc
    <2>3. TypeOK'
      BY <1>5, <1>a, <2>1, <2>2 DEF ReleaseCheck, TypeOK, Thread, Nobody
    <2>4. CountInv'
      BY <1>5, <1>a, <1>b, <2>1, <2>2, BufferConstants
         DEF ReleaseCheck, TypeOK, CountInv, FreeCounter, ItemCounter, AllItems, Hands, StillThere, One, InHand, NothingDropped, Nobody
    <2> QED
      BY <2>3, <2>4 DEF TypedCount
  <1>6. CASE ReleaseInsert
    <2>1. held["consumer"] \in Item
      BY <1>6, <1>a DEF ReleaseInsert, GoTo, CountInv, Hands, InHand, TypeOK, Thread
    <2>2. empty' \in Seq(Item) /\ Len(empty') = Len(empty) + 1
      BY <1>6, <1>a, <2>1, AppendItem DEF ReleaseInsert, TypeOK
    <2>3. /\ pc["consumer"] = "put" /\ pc'["consumer"] = "done"
          /\ pc'["producer"] = pc["producer"]
          /\ pc' \in [Thread -> ThreadPc]
      BY <1>6, <1>a, <2>1, <2>2 DEF ReleaseInsert, GoTo, TypeOK, Thread, ThreadPc
    <2>4. /\ held'["consumer"] = NoItem /\ held'["producer"] = held["producer"]
          /\ held' \in [Thread -> Item \cup {NoItem}]
      BY <1>6, <1>a, <2>1, <2>2 DEF ReleaseInsert, TypeOK, Thread
    <2>5. TypeOK'
      BY <1>6, <1>a, <2>1, <2>2, <2>3, <2>4 DEF ReleaseInsert, TypeOK, Thread, Lock, Nobody
    <2>6. CountInv'
      BY <1>6, <1>a, <1>b, <2>1, <2>2, <2>3, <2>4, BufferConstants
         DEF ReleaseInsert, TypeOK, CountInv, FreeCounter, ItemCounter, AllItems, Hands, StillThere, One, InHand, NothingDropped, Lock, Nobody
    <2> QED
      BY <2>5, <2>6 DEF TypedCount
  <1>7. CASE ReleaseCount
    <2>1. /\ pc["consumer"] = "done" /\ pc'["consumer"] = "idle"
          /\ pc'["producer"] = pc["producer"]
          /\ pc' \in [Thread -> ThreadPc]
      BY <1>7, <1>a DEF ReleaseCount, GoTo, TypeOK, Thread, ThreadPc
    <2>2. freeitem' \in 0 .. BUFFER_SIZE
      BY <1>7, <1>a, <1>b, <2>1, BufferConstants
         DEF ReleaseCount, Unlock, TypeOK, CountInv, FreeCounter, ItemCounter, AllItems, Hands, StillThere, One, InHand
    <2>3. TypeOK'
      BY <1>7, <1>a, <2>1, <2>2 DEF ReleaseCount, TypeOK, Thread, Unlock, Nobody
    <2>4. CountInv'
      BY <1>7, <1>a, <1>b, <2>1, <2>2, BufferConstants
         DEF ReleaseCount, TypeOK, CountInv, FreeCounter, ItemCounter, AllItems, Hands, StillThere, One, InHand, NothingDropped, Unlock, Nobody
    <2> QED
      BY <2>3, <2>4 DEF TypedCount
  <1> QED
    BY <1>1, <1>2, <1>3, <1>4, <1>5, <1>6, <1>7 DEF Consumer

\* So does a stuttering step.
LEMMA StepCount == TypedCount /\ [Next]_vars => TypedCount'
  <1> SUFFICES ASSUME TypedCount, [Next]_vars PROVE TypedCount'
    OBVIOUS
  <1>1. CASE Producer
    BY <1>1, ProducerCount
  <1>2. CASE Consumer
    BY <1>2, ConsumerCount
  <1>3. CASE UNCHANGED vars
    BY <1>3 DEF vars, TypedCount, TypeOK, CountInv, FreeCounter, ItemCounter,
                AllItems, Hands, StillThere, One, InHand, NothingDropped
  <1> QED
    BY <1>1, <1>2, <1>3 DEF Next

\* The invariant that the theorems about the counters rest on.
LEMMA CountInvariant == Spec => []TypedCount
  BY InitCount, StepCount, PTL DEF Spec

\* Type correctness of every buffer (inner_buffer.c): in particular neither
\* counter leaves 0 .. BUFFER_SIZE, although both are unsigned and updated
\* apart from the lists.
THEOREM TypeCorrect == Spec => []TypeOK
  BY CountInvariant, PTL DEF TypedCount

\* The emptiness checks before the lock never let a thread remove the first
\* item of an empty list (inner_buffer.c 71-79, 113-117).
THEOREM RemovesAreSafe == Spec => []NoWildRemove
  <1>1. TypedCount => NoWildRemove
    BY DEF TypedCount, CountInv, StillThere, NoWildRemove, Thread
  <1> QED
    BY <1>1, CountInvariant, PTL

\* The counter checks before the lock never make a thread drop its item
\* (inner_buffer.c 93-95, 131-133).
THEOREM NoItemIsDropped == Spec => []NothingDropped
  BY CountInvariant, PTL DEF TypedCount, CountInv

-----------------------------------------------------------------------------
(***************************************************************************)
(* Items and lists.                                                        *)
(***************************************************************************)

\* Removing the first item of a list without duplicates.
LEMMA TailPlaces ==
  ASSUME NEW l \in Seq(Item), l # << >>, Distinct(l)
  PROVE  /\ Head(l) \in Item
         /\ InList(Head(l), l)
         /\ Distinct(Tail(l))
         /\ \A i \in Item : InList(i, Tail(l)) <=> InList(i, l) /\ i # Head(l)
  <1> DEFINE t == Tail(l)
  <1>1. /\ Len(l) \in Nat \ {0} /\ Head(l) = l[1] /\ Head(l) \in Item
        /\ Len(t) = Len(l) - 1
        /\ \A k \in 1 .. Len(t) : t[k] = l[k + 1]
    BY HeadTail
  <1> HIDE DEF t
  <1>2. InList(Head(l), l)
    BY <1>1 DEF InList
  <1>3. Distinct(t)
    BY <1>1 DEF Distinct
  <1>4. ASSUME NEW i \in Item, InList(i, t) PROVE InList(i, l) /\ i # Head(l)
    <2>1. PICK k \in 1 .. Len(t) : t[k] = i
      BY <1>4 DEF InList
    <2>2. k + 1 \in 1 .. Len(l) /\ l[k + 1] = i /\ k + 1 # 1 /\ 1 \in 1 .. Len(l)
      BY <1>1, <2>1
    <2> QED
      BY <1>1, <2>2 DEF InList, Distinct
  <1>5. ASSUME NEW i \in Item, InList(i, l), i # Head(l) PROVE InList(i, t)
    <2>1. PICK k \in 1 .. Len(l) : l[k] = i
      BY <1>5 DEF InList
    <2>2. k - 1 \in 1 .. Len(t) /\ t[k - 1] = i
      BY <1>1, <1>5, <2>1
    <2> QED
      BY <2>2 DEF InList
  <1> QED
    BY <1>1, <1>2, <1>3, <1>4, <1>5 DEF t

\* Appending an item to a list.
LEMMA AppendPlaces ==
  ASSUME NEW l \in Seq(Item), NEW x \in Item
  PROVE  /\ Distinct(l) /\ ~InList(x, l) => Distinct(Append(l, x))
         /\ \A i \in Item : InList(i, Append(l, x)) <=> InList(i, l) \/ i = x
  <1> DEFINE a == Append(l, x)
  <1>1. /\ Len(l) \in Nat /\ Len(a) = Len(l) + 1 /\ a[Len(l) + 1] = x
        /\ \A k \in 1 .. Len(l) : a[k] = l[k]
    BY AppendItem
  <1> HIDE DEF a
  <1>2. ASSUME Distinct(l), ~InList(x, l) PROVE Distinct(a)
    BY <1>1, <1>2 DEF Distinct, InList
  <1>3. ASSUME NEW i \in Item PROVE InList(i, a) <=> InList(i, l) \/ i = x
    BY <1>1 DEF InList
  <1> QED
    BY <1>2, <1>3 DEF a

-----------------------------------------------------------------------------
(***************************************************************************)
(* Every item is in exactly one place.                                     *)
(***************************************************************************)
Conserved == TypedCount /\ ItemsConserved

\* The initial state: the empty list holds every item once.
LEMMA InitPlaces == Init => ItemsConserved
  <1> SUFFICES ASSUME Init PROVE ItemsConserved
    OBVIOUS
  <1>1. /\ Len(empty) = BUFFER_SIZE /\ \A k \in 1 .. Len(empty) : empty[k] = k
        /\ Len(full) = 0
        /\ \A t \in Thread : held[t] = NoItem
    BY BufferConstants DEF Init, Item
  <1> QED
    BY <1>1, BufferConstants
       DEF ItemsConserved, Distinct, InList, Item, NoItem

\* A thread takes the first item of one of the lists.
LEMMA TakePlaces ==
  ASSUME TypedCount, ItemsConserved, NEW t \in Thread, held[t] = NoItem,
         NEW l, NEW m, l \in Seq(Item), l # << >>,
         \/ l = empty /\ m = full /\ empty' = Tail(l) /\ full' = m
         \/ l = full /\ m = empty /\ full' = Tail(l) /\ empty' = m,
         held' = [held EXCEPT ![t] = Head(l)]
  PROVE  ItemsConserved'
  <1>1. Distinct(l) /\ Distinct(m)
    BY DEF ItemsConserved
  <1>2. /\ Head(l) \in Item /\ InList(Head(l), l) /\ Distinct(Tail(l))
        /\ \A i \in Item : InList(i, Tail(l)) <=> InList(i, l) /\ i # Head(l)
    BY <1>1, TailPlaces
  <1>3. /\ held'[t] = Head(l)
        /\ \A u \in Thread : u # t => held'[u] = held[u]
    BY DEF TypedCount, TypeOK
  <1>4. \A i \in Item : i # NoItem
    BY DEF Item, NoItem
  <1>5. ASSUME NEW i \in Item
        PROVE  /\ \/ InList(i, Tail(l)) \/ InList(i, m)
                  \/ \E u \in Thread : held'[u] = i
               /\ ~(InList(i, Tail(l)) /\ InList(i, m))
               /\ \A u \in Thread :
                    held'[u] = i => /\ ~InList(i, Tail(l))
                                    /\ ~InList(i, m)
                                    /\ \A v \in Thread : held'[v] = i => v = u
    <2>1. /\ InList(i, l) \/ InList(i, m) \/ \E u \in Thread : held[u] = i
          /\ ~(InList(i, l) /\ InList(i, m))
          /\ \A u \in Thread :
               held[u] = i => /\ ~InList(i, l)
                              /\ ~InList(i, m)
                              /\ \A v \in Thread : held[v] = i => v = u
      BY DEF ItemsConserved
    <2>2. CASE i = Head(l)
      BY <1>2, <1>3, <2>1, <2>2
    <2>3. CASE i # Head(l)
      BY <1>2, <1>3, <1>4, <2>1, <2>3
    <2> QED
      BY <2>2, <2>3
  <1>6. CASE l = empty /\ m = full /\ empty' = Tail(l) /\ full' = m
    BY <1>1, <1>2, <1>5, <1>6 DEF ItemsConserved
  <1>7. CASE l = full /\ m = empty /\ full' = Tail(l) /\ empty' = m
    BY <1>1, <1>2, <1>5, <1>7 DEF ItemsConserved
  <1> QED
    BY <1>6, <1>7

\* A thread puts its item at the end of one of the lists.
LEMMA PutPlaces ==
  ASSUME TypedCount, ItemsConserved, NEW t \in Thread, held[t] \in Item,
         NEW l, NEW m, l \in Seq(Item),
         \/ l = empty /\ m = full /\ empty' = Append(l, held[t]) /\ full' = m
         \/ l = full /\ m = empty /\ full' = Append(l, held[t]) /\ empty' = m,
         held' = [held EXCEPT ![t] = NoItem]
  PROVE  ItemsConserved'
  <1> DEFINE x == held[t]
  <1>1. Distinct(l) /\ Distinct(m) /\ ~InList(x, l) /\ ~InList(x, m)
    BY DEF ItemsConserved
  <1>2. /\ Distinct(Append(l, x))
        /\ \A i \in Item : InList(i, Append(l, x)) <=> InList(i, l) \/ i = x
    BY <1>1, AppendPlaces
  <1>3. /\ held'[t] = NoItem
        /\ \A u \in Thread : u # t => held'[u] = held[u]
    BY DEF TypedCount, TypeOK
  <1>4. \A i \in Item : i # NoItem
    BY DEF Item, NoItem
  <1>5. ASSUME NEW i \in Item
        PROVE  /\ \/ InList(i, Append(l, x)) \/ InList(i, m)
                  \/ \E u \in Thread : held'[u] = i
               /\ ~(InList(i, Append(l, x)) /\ InList(i, m))
               /\ \A u \in Thread :
                    held'[u] = i => /\ ~InList(i, Append(l, x))
                                    /\ ~InList(i, m)
                                    /\ \A v \in Thread : held'[v] = i => v = u
    <2>1. /\ InList(i, l) \/ InList(i, m) \/ \E u \in Thread : held[u] = i
          /\ ~(InList(i, l) /\ InList(i, m))
          /\ \A u \in Thread :
               held[u] = i => /\ ~InList(i, l)
                              /\ ~InList(i, m)
                              /\ \A v \in Thread : held[v] = i => v = u
      BY DEF ItemsConserved
    <2>2. CASE i = x
      BY <1>1, <1>2, <1>3, <1>4, <2>1, <2>2
    <2>3. CASE i # x
      BY <1>2, <1>3, <1>4, <2>1, <2>3
    <2> QED
      BY <2>2, <2>3
  <1>6. CASE l = empty /\ m = full /\ empty' = Append(l, x) /\ full' = m
    BY <1>1, <1>2, <1>5, <1>6 DEF ItemsConserved
  <1>7. CASE l = full /\ m = empty /\ full' = Append(l, x) /\ empty' = m
    BY <1>1, <1>2, <1>5, <1>7 DEF ItemsConserved
  <1> QED
    BY <1>6, <1>7

\* Every step keeps the items where they are, takes one or puts one.
LEMMA StepPlaces ==
  TypedCount /\ ItemsConserved /\ [Next]_vars => ItemsConserved'
  <1> SUFFICES ASSUME TypedCount, ItemsConserved, [Next]_vars
               PROVE  ItemsConserved'
    OBVIOUS
  <1>a. TypeOK /\ CountInv
    BY DEF TypedCount
  <1>b. TypedCount'
    BY StepCount
  <1>1. ASSUME UNCHANGED <<empty, full, held>> PROVE ItemsConserved'
    BY <1>1 DEF ItemsConserved
  <1>2. CASE GetEmptyRemove
    <2>1. empty # << >>
      BY <1>2, <1>b DEF GetEmptyRemove, GoTo, TypedCount, CountInv, StillThere,
                        TypeOK, Thread, Lock
    <2>2. held["producer"] = NoItem
      BY <1>2, <1>a, <2>1 DEF GetEmptyRemove, GoTo, CountInv, Hands, InHand
    <2> QED
      BY <1>2, <1>a, <2>1, <2>2, TakePlaces DEF GetEmptyRemove, Thread, TypeOK
  <1>3. CASE GetFullRemove
    <2>1. full # << >>
      BY <1>3, <1>b DEF GetFullRemove, GoTo, TypedCount, CountInv, StillThere,
                        TypeOK, Thread, Lock
    <2>2. held["consumer"] = NoItem
      BY <1>3, <1>a, <2>1 DEF GetFullRemove, GoTo, CountInv, Hands, InHand
    <2> QED
      BY <1>3, <1>a, <2>1, <2>2, TakePlaces DEF GetFullRemove, Thread, TypeOK
  <1>4. CASE PostFullInsert
    <2>1. held["producer"] \in Item
      BY <1>4, <1>a DEF PostFullInsert, GoTo, CountInv, Hands, InHand, TypeOK,
                        Thread
    <2> QED
      BY <1>4, <1>a, <2>1, PutPlaces DEF PostFullInsert, Thread, TypeOK
  <1>5. CASE ReleaseInsert
    <2>1. held["consumer"] \in Item
      BY <1>5, <1>a DEF ReleaseInsert, GoTo, CountInv, Hands, InHand, TypeOK,
                        Thread
    <2> QED
      BY <1>5, <1>a, <2>1, PutPlaces DEF ReleaseInsert, Thread, TypeOK
  <1>6. CASE PostFullCheck
    BY <1>1, <1>6, <1>b DEF PostFullCheck, TypedCount, CountInv, NothingDropped
  <1>7. CASE ReleaseCheck
    BY <1>1, <1>7, <1>b DEF ReleaseCheck, TypedCount, CountInv, NothingDropped
  <1>8. CASE GetEmptyCheck \/ GetEmptyCount \/ Fill \/ PostFullCount
    BY <1>1, <1>8 DEF GetEmptyCheck, GetEmptyCount, Fill, PostFullCount
  <1>9. CASE GetFullCheck \/ GetFullCount \/ UseAndClear \/ ReleaseCount
    BY <1>1, <1>9 DEF GetFullCheck, GetFullCount, UseAndClear, ReleaseCount
  <1>10. CASE UNCHANGED vars
    BY <1>1, <1>10 DEF vars
  <1> QED
    BY <1>2, <1>3, <1>4, <1>5, <1>6, <1>7, <1>8, <1>9, <1>10
       DEF Next, Producer, Consumer

LEMMA ConservedInvariant == Spec => []Conserved
  <1>1. Init => Conserved
    BY InitCount, InitPlaces DEF Conserved
  <1>2. Conserved /\ [Next]_vars => Conserved'
    BY StepCount, StepPlaces DEF Conserved
  <1> QED
    BY <1>1, <1>2, PTL DEF Spec

\* No item is lost, duplicated or shared: each is in one list, or in the
\* hands of one thread (inner_buffer.c 68-143).
THEOREM ItemsAreConserved == Spec => []ItemsConserved
  BY ConservedInvariant, PTL DEF Conserved

-----------------------------------------------------------------------------
(***************************************************************************)
(* The buffer implements the queue.                                        *)
(***************************************************************************)

\* The contents of the items of a list.
LEMMA ContentsOfList ==
  ASSUME NEW l \in Seq(Item), NEW d \in [Item -> Data]
  PROVE  /\ Contents(l, d) \in Seq(Data)
         /\ Len(Contents(l, d)) = Len(l)
         /\ Len(l) \in Nat
         /\ \A k \in 1 .. Len(l) : l[k] \in Item /\ Contents(l, d)[k] = d[l[k]]
  <1>1. Len(l) \in Nat /\ \A k \in 1 .. Len(l) : l[k] \in Item
    OBVIOUS
  <1>2. \A k \in 1 .. Len(l) : d[l[k]] \in Data
    BY <1>1
  <1>3. Contents(l, d) \in [1 .. Len(l) -> Data]
    BY <1>2 DEF Contents
  <1>4. Contents(l, d) \in Seq(Data) /\ Len(Contents(l, d)) = Len(l)
    BY <1>1, <1>3
  <1> QED
    BY <1>1, <1>4 DEF Contents

\* The mapped queue, before and after a step.
LEMMA QueueType ==
  TypeOK => /\ queue \in Seq(Data)
            /\ Len(queue) = Len(full)
            /\ Len(full) \in Nat
            /\ \A k \in 1 .. Len(full) :
                 full[k] \in Item /\ queue[k] = data[full[k]]
  BY ContentsOfList DEF TypeOK, queue

\* A thread that writes into the item in its hands does not touch the queue.
LEMMA WriteHeld ==
  ASSUME TypeOK, TypeOK', ItemsConserved, NEW t \in Thread, held[t] \in Item,
         NEW v, data' = [data EXCEPT ![held[t]] = v], UNCHANGED full
  PROVE  queue' = queue
  <1>1. \A k \in 1 .. Len(full) : full[k] \in Item /\ full[k] # held[t]
    BY QueueType DEF ItemsConserved, InList
  <1>2. \A k \in 1 .. Len(full) : data'[full[k]] = data[full[k]]
    BY <1>1 DEF TypeOK
  <1> QED
    BY <1>2 DEF queue, Contents

\* PostFullInsert puts a value.
LEMMA InsertPuts ==
  ASSUME TypedCount, TypedCount', PostFullInsert
  PROVE  F!Next
  <1> DEFINE v == data[held["producer"]]
  <1>1. TypeOK /\ TypeOK' /\ CountInv
    BY DEF TypedCount
  <1>2. held["producer"] \in Item /\ v \in Data
    BY <1>1 DEF PostFullInsert, GoTo, CountInv, Hands, InHand, TypeOK, Thread
  <1>3. Len(full) < BUFFER_SIZE
    BY <1>1, BufferConstants
       DEF PostFullInsert, GoTo, CountInv, AllItems, One, InHand, TypeOK
  <1>4. /\ full' = Append(full, held["producer"])
        /\ Len(full') = Len(full) + 1
        /\ full'[Len(full) + 1] = held["producer"]
        /\ \A k \in 1 .. Len(full) : full'[k] = full[k]
        /\ UNCHANGED data
    BY <1>1, <1>2, AppendItem DEF PostFullInsert, TypeOK
  <1>5. /\ queue \in Seq(Data) /\ queue' \in Seq(Data)
        /\ Len(queue) = Len(full) /\ Len(queue') = Len(full) + 1
        /\ Len(full) \in Nat
        /\ \A k \in 1 .. Len(full) : queue'[k] = queue[k]
        /\ queue'[Len(full) + 1] = v
    <2>1. /\ queue' \in Seq(Data) /\ Len(queue') = Len(full')
          /\ \A k \in 1 .. Len(full') : queue'[k] = data'[full'[k]]
      BY <1>1, ContentsOfList DEF queue, TypeOK
    <2> QED
      BY <1>1, <1>4, <2>1, QueueType
  <1>6. queue' = Append(queue, v)
    BY <1>2, <1>5, SeqEqual
  <1> QED
    BY <1>2, <1>3, <1>5, <1>6 DEF F!Next, F!Put

\* GetFullRemove gets the oldest value.
LEMMA RemoveGets ==
  ASSUME TypedCount, TypedCount', GetFullRemove
  PROVE  F!Next
  <1>1. TypeOK /\ TypeOK'
    BY DEF TypedCount
  <1>2. full # << >>
    BY DEF GetFullRemove, GoTo, Lock, TypedCount, CountInv, StillThere, TypeOK,
           Thread
  <1>3. /\ full' = Tail(full)
        /\ Len(full) \in Nat \ {0} /\ Len(full') = Len(full) - 1
        /\ \A k \in 1 .. Len(full') : full'[k] = full[k + 1]
        /\ UNCHANGED data
    BY <1>1, <1>2, HeadTail DEF GetFullRemove, TypeOK
  <1>4. /\ queue' \in Seq(Data) /\ Len(queue') = Len(full')
        /\ \A k \in 1 .. Len(full') : queue'[k] = data'[full'[k]]
    BY <1>1, ContentsOfList DEF queue, TypeOK
  <1>5. /\ queue \in Seq(Data) /\ Len(queue) = Len(full)
        /\ \A k \in 1 .. Len(full) : queue[k] = data[full[k]]
    BY <1>1, QueueType
  <1>6. queue # << >>
    BY <1>3, <1>5
  <1>7. /\ Tail(queue) \in Seq(Data) /\ Len(Tail(queue)) = Len(queue) - 1
        /\ \A k \in 1 .. Len(Tail(queue)) : Tail(queue)[k] = queue[k + 1]
    BY <1>5, <1>6, HeadTailProperties
  <1>8. \A k \in 1 .. Len(queue') : queue'[k] = queue[k + 1]
    BY <1>3, <1>4, <1>5
  <1>9. queue' = Tail(queue)
    BY <1>3, <1>4, <1>5, <1>7, <1>8, SeqEqual
  <1> QED
    BY <1>6, <1>9 DEF F!Next, F!Get

\* Every other step leaves the queue as it is.
LEMMA StepQueue ==
  Conserved /\ Conserved' /\ [Next]_vars => [F!Next]_queue
  <1> SUFFICES ASSUME Conserved, Conserved', [Next]_vars
               PROVE  F!Next \/ queue' = queue
    OBVIOUS
  <1>a. /\ TypedCount /\ TypedCount' /\ ItemsConserved
        /\ TypeOK /\ TypeOK' /\ CountInv
    BY DEF Conserved, TypedCount
  <1>1. CASE PostFullInsert
    BY <1>1, <1>a, InsertPuts
  <1>2. CASE GetFullRemove
    BY <1>2, <1>a, RemoveGets
  <1>3. CASE Fill
    <2>1. held["producer"] \in Item
      BY <1>3, <1>a DEF Fill, GoTo, CountInv, Hands, InHand, TypeOK, Thread
    <2> QED
      BY <1>3, <1>a, <2>1, WriteHeld DEF Fill, Thread
  <1>4. CASE UseAndClear
    <2>1. held["consumer"] \in Item
      BY <1>4, <1>a DEF UseAndClear, GoTo, CountInv, Hands, InHand, TypeOK,
                        Thread
    <2> QED
      BY <1>4, <1>a, <2>1, WriteHeld DEF UseAndClear, Thread
  <1>5. ASSUME UNCHANGED <<full, data>> PROVE queue' = queue
    BY <1>5 DEF queue
  <1>6. CASE \/ GetEmptyCheck \/ GetEmptyRemove \/ GetEmptyCount
             \/ PostFullCheck \/ PostFullCount
    BY <1>5, <1>6 DEF GetEmptyCheck, GetEmptyRemove, GetEmptyCount,
                      PostFullCheck, PostFullCount
  <1>7. CASE \/ GetFullCheck \/ GetFullCount
             \/ ReleaseCheck \/ ReleaseInsert \/ ReleaseCount
    BY <1>5, <1>7 DEF GetFullCheck, GetFullCount, ReleaseCheck, ReleaseInsert,
                      ReleaseCount
  <1>8. CASE UNCHANGED vars
    BY <1>5, <1>8 DEF vars
  <1> QED
    BY <1>1, <1>2, <1>3, <1>4, <1>6, <1>7, <1>8 DEF Next, Producer, Consumer

\* The inner buffer is a bounded FIFO queue between its two threads, in spite
\* of the checks outside the lock (inner_buffer.c 68-143).
THEOREM BufferIsFifo == Spec => ImplementsFifo
  <1>1. Init => F!Init
    <2>1. Init => Len(full) = 0 /\ full = << >>
      BY DEF Init
    <2> QED
      BY <2>1 DEF F!Init, queue, Contents
  <1> QED
    BY <1>1, StepQueue, ConservedInvariant, PTL DEF Spec, F!Spec, ImplementsFifo
=============================================================================
