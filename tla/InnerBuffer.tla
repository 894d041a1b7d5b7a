----------------------------- MODULE InnerBuffer -----------------------------
(***************************************************************************)
(* The inner buffer: a fixed set of items that travel from an empty list   *)
(* to a producer thread, through a full list to a consumer thread, and     *)
(* back.  It carries the lines of the log and result files, the text for   *)
(* the printer and the temperature samples.                                *)
(*                                                                         *)
(* A mutex protects the lists, but every function decides before it takes  *)
(* the mutex: whether a list is empty, whether a counter has reached the   *)
(* size.  Here a call is the unlocked check, the locked list operation,    *)
(* and the locked counter update with the unlock.  Every buffer of the     *)
(* program has one producer thread and one consumer thread.                *)
(***************************************************************************)
EXTENDS Naturals, Sequences

CONSTANTS
  BUFFER_SIZE,   \* number of items
  Data           \* what a producer may write into an item

ASSUME BufferConstants == BUFFER_SIZE \in Nat \ {0}

VARIABLES
  empty,         \* the list emptyhead
  full,          \* the list fullhead
  freeitem,      \* the counters of the two lists
  itemnum,
  data,          \* the contents of every item
  mutex,         \* the thread that holds inbfmtx
  pc,            \* where each thread is
  held,          \* the item that each thread has in its hands, 0 for none
  lost           \* an item was dropped (postoverflow, overflow)

vars == <<empty, full, freeitem, itemnum, data, mutex, pc, held, lost>>

Item    == 1 .. BUFFER_SIZE
NoItem  == 0
Thread  == {"producer", "consumer"}
Nobody  == "nobody"

\* "wild" is a thread that removes the first item of an empty list.
ThreadPc == {"idle", "get", "got", "work", "check", "put", "done", "wild"}

TypeOK ==
  /\ empty \in Seq(Item)
  /\ full \in Seq(Item)
  /\ freeitem \in 0 .. BUFFER_SIZE
  /\ itemnum \in 0 .. BUFFER_SIZE
  /\ data \in [Item -> Data]
  /\ mutex \in Thread \cup {Nobody}
  /\ pc \in [Thread -> ThreadPc]
  /\ held \in [Thread -> Item \cup {NoItem}]
  /\ lost \in BOOLEAN

\* innerBufferInit: every item is in the empty list.
Init ==
  /\ empty = [k \in Item |-> k]
  /\ full = << >>
  /\ freeitem = BUFFER_SIZE
  /\ itemnum = 0
  /\ data \in [Item -> Data]
  /\ mutex = Nobody
  /\ pc = [t \in Thread |-> "idle"]
  /\ held = [t \in Thread |-> NoItem]
  /\ lost = FALSE

GoTo(t, from, to) ==
  /\ pc[t] = from
  /\ pc' = [pc EXCEPT ![t] = to]

Lock(t)   == mutex = Nobody /\ mutex' = t
Unlock(t) == mutex = t /\ mutex' = Nobody

-----------------------------------------------------------------------------
(***************************************************************************)
(* The producer: getEmptyInnerBufferItem, fill, postFullInnerBufferItem.   *)
(***************************************************************************)
\* Mutant: the empty list is not looked at.
GetEmptyCheckNothing ==
  /\ GoTo("producer", "idle", "get")
  /\ UNCHANGED <<empty, full, freeitem, itemnum, data, mutex, held, lost>>

GetEmptyCheck ==
  /\ empty # << >>
  /\ GoTo("producer", "idle", "get")
  /\ UNCHANGED <<empty, full, freeitem, itemnum, data, mutex, held, lost>>

\* Mutant: the head of the empty list is not advanced.
GetEmptyRemoveNothing ==
  /\ Lock("producer")
  /\ empty # << >>
  /\ GoTo("producer", "get", "got")
  /\ held' = [held EXCEPT !["producer"] = Head(empty)]
  /\ UNCHANGED <<empty, full, freeitem, itemnum, data, lost>>

GetEmptyRemove ==
  /\ Lock("producer")
  /\ IF empty = << >>
     THEN GoTo("producer", "get", "wild") /\ UNCHANGED <<empty, held>>
     ELSE /\ GoTo("producer", "get", "got")
          /\ empty' = Tail(empty)
          /\ held' = [held EXCEPT !["producer"] = Head(empty)]
  /\ UNCHANGED <<full, freeitem, itemnum, data, lost>>

GetEmptyCount ==
  /\ GoTo("producer", "got", "work")
  /\ Unlock("producer")
  /\ freeitem' = freeitem - 1
  /\ UNCHANGED <<empty, full, itemnum, data, held, lost>>

Fill ==
  /\ GoTo("producer", "work", "check")
  /\ \E v \in Data : data' = [data EXCEPT ![held["producer"]] = v]
  /\ UNCHANGED <<empty, full, freeitem, itemnum, mutex, held, lost>>

\* Mutant: the last item is refused.
PostFullCheckOffByOne ==
  /\ IF itemnum >= BUFFER_SIZE - 1
     THEN /\ GoTo("producer", "check", "idle")
          /\ held' = [held EXCEPT !["producer"] = NoItem]
          /\ lost' = TRUE
     ELSE /\ GoTo("producer", "check", "put")
          /\ UNCHANGED <<held, lost>>
  /\ UNCHANGED <<empty, full, freeitem, itemnum, data, mutex>>

PostFullCheck ==
  /\ IF itemnum = BUFFER_SIZE
     THEN /\ GoTo("producer", "check", "idle")
          /\ held' = [held EXCEPT !["producer"] = NoItem]
          /\ lost' = TRUE
     ELSE /\ GoTo("producer", "check", "put")
          /\ UNCHANGED <<held, lost>>
  /\ UNCHANGED <<empty, full, freeitem, itemnum, data, mutex>>

\* Mutant: the item is put before the others.
PostFullInsertAhead ==
  /\ GoTo("producer", "put", "done")
  /\ Lock("producer")
  /\ full' = <<held["producer"]>> \o full
  /\ held' = [held EXCEPT !["producer"] = NoItem]
  /\ UNCHANGED <<empty, freeitem, itemnum, data, lost>>

PostFullInsert ==
  /\ GoTo("producer", "put", "done")
  /\ Lock("producer")
  /\ full' = Append(full, held["producer"])
  /\ held' = [held EXCEPT !["producer"] = NoItem]
  /\ UNCHANGED <<empty, freeitem, itemnum, data, lost>>

PostFullCount ==
  /\ GoTo("producer", "done", "idle")
  /\ Unlock("producer")
  /\ itemnum' = itemnum + 1
  /\ UNCHANGED <<empty, full, freeitem, data, held, lost>>

Producer ==
  \/ GetEmptyCheck \/ GetEmptyRemove \/ GetEmptyCount \/ Fill
  \/ PostFullCheck \/ PostFullInsert \/ PostFullCount

-----------------------------------------------------------------------------
(***************************************************************************)
(* The consumer: getFullInnerBufferItem, use and clear,                    *)
(* releaseEmptyInnerBufferItem.                                            *)
(***************************************************************************)
GetFullCheck ==
  /\ full # << >>
  /\ GoTo("consumer", "idle", "get")
  /\ UNCHANGED <<empty, full, freeitem, itemnum, data, mutex, held, lost>>

GetFullRemove ==
  /\ Lock("consumer")
  /\ IF full = << >>
     THEN GoTo("consumer", "get", "wild") /\ UNCHANGED <<full, held>>
     ELSE /\ GoTo("consumer", "get", "got")
          /\ full' = Tail(full)
          /\ held' = [held EXCEPT !["consumer"] = Head(full)]
  /\ UNCHANGED <<empty, freeitem, itemnum, data, lost>>

GetFullCount ==
  /\ GoTo("consumer", "got", "work")
  /\ Unlock("consumer")
  /\ itemnum' = itemnum - 1
  /\ UNCHANGED <<empty, full, freeitem, data, held, lost>>

\* The consumer writes the contents to the file or the printer and clears
\* them.
UseAndClear ==
  /\ GoTo("consumer", "work", "check")
  /\ \E v \in Data : data' = [data EXCEPT ![held["consumer"]] = v]
  /\ UNCHANGED <<empty, full, freeitem, itemnum, mutex, held, lost>>

\* Mutant: the last free place is refused.
ReleaseCheckOffByOne ==
  /\ IF freeitem >= BUFFER_SIZE - 1
     THEN /\ GoTo("consumer", "check", "idle")
          /\ held' = [held EXCEPT !["consumer"] = NoItem]
          /\ lost' = TRUE
     ELSE /\ GoTo("consumer", "check", "put")
          /\ UNCHANGED <<held, lost>>
  /\ UNCHANGED <<empty, full, freeitem, itemnum, data, mutex>>

ReleaseCheck ==
  /\ IF freeitem = BUFFER_SIZE
     THEN /\ GoTo("consumer", "check", "idle")
          /\ held' = [held EXCEPT !["consumer"] = NoItem]
          /\ lost' = TRUE
     ELSE /\ GoTo("consumer", "check", "put")
          /\ UNCHANGED <<held, lost>>
  /\ UNCHANGED <<empty, full, freeitem, itemnum, data, mutex>>

ReleaseInsert ==
  /\ GoTo("consumer", "put", "done")
  /\ Lock("consumer")
  /\ empty' = Append(empty, held["consumer"])
  /\ held' = [held EXCEPT !["consumer"] = NoItem]
  /\ UNCHANGED <<full, freeitem, itemnum, data, lost>>

\* Mutant: a released item is not counted.
ReleaseCountNothing ==
  /\ GoTo("consumer", "done", "idle")
  /\ Unlock("consumer")
  /\ UNCHANGED <<empty, full, freeitem, itemnum, data, held, lost>>

ReleaseCount ==
  /\ GoTo("consumer", "done", "idle")
  /\ Unlock("consumer")
  /\ freeitem' = freeitem + 1
  /\ UNCHANGED <<empty, full, itemnum, data, held, lost>>

Consumer ==
  \/ GetFullCheck \/ GetFullRemove \/ GetFullCount \/ UseAndClear
  \/ ReleaseCheck \/ ReleaseInsert \/ ReleaseCount

Next == Producer \/ Consumer

Spec == Init /\ [][Next]_vars

\* Both threads go on with a call that they have begun.  Nothing is assumed
\* of when a thread calls again: the cardhandler looks at a file buffer only
\* while the card is usable and the file is open.
InCall(t) == pc[t] # "idle"

FairSpec ==
  /\ Spec
  /\ WF_vars(InCall("producer") /\ Producer)
  /\ WF_vars(InCall("consumer") /\ Consumer)

-----------------------------------------------------------------------------
(***************************************************************************)
(* Properties.                                                             *)
(***************************************************************************)

\* The unlocked emptiness checks are good enough: nobody removes the first
\* item of a list that has become empty meanwhile, which would follow a
\* null pointer (inner_buffer.c 71-79, 113-117).
NoWildRemove == \A t \in Thread : pc[t] # "wild"

\* The unlocked comparisons of the counters are good enough: no call drops
\* the item that it is given, although a counter lags behind its list while
\* the other thread holds the mutex (inner_buffer.c 93-95, 131-133).
NothingDropped == ~lost

\* Where an item is.
InList(i, l) == \E k \in 1 .. Len(l) : l[k] = i

Distinct(l) == \A j, k \in 1 .. Len(l) : l[j] = l[k] => j = k

\* Every item is in exactly one place, and there only once: in one of the
\* lists or in the hands of one thread.
ItemsConserved ==
  /\ Distinct(empty)
  /\ Distinct(full)
  /\ \A i \in Item :
       /\ InList(i, empty) \/ InList(i, full) \/ \E t \in Thread : held[t] = i
       /\ ~(InList(i, empty) /\ InList(i, full))
       /\ \A t \in Thread :
            held[t] = i => /\ ~InList(i, empty)
                           /\ ~InList(i, full)
                           /\ \A u \in Thread : held[u] = i => u = t

\* Between the threads the buffer is a bounded FIFO queue: what the consumer
\* takes is what the producer has filled in, in this order, each item once.
Contents(l, d) == [k \in 1 .. Len(l) |-> d[l[k]]]

queue == Contents(full, data)

F == INSTANCE Fifo WITH Size <- BUFFER_SIZE

ImplementsFifo == F!Spec

\* For a consumer that looks at the full list again and again, as the
\* printer does in every pass and the cardhandler while card and file are
\* there, every item that is posted is consumed and comes back to the empty
\* list, whatever the producer does meanwhile (inner_buffer.c 64-147).
LooksAgain == WF_vars(GetFullCheck)

ItemsComeBack ==
  LooksAgain => \A i \in Item : InList(i, full) ~> InList(i, empty)
=============================================================================
