------------------------------ MODULE TempFifo ------------------------------
(***************************************************************************)
(* The temperature FIFO between the tempreader and the regulator, at the   *)
(* level of the pointers.  Its items are allocated one after the other,    *)
(* and behind them lie the items of the buffer that is initialised next.   *)
(* An item is two words: the list link and the pointer to its data.        *)
(*                                                                         *)
(* The regulator clears an item before it releases it, with the size of a  *)
(* temperature_t (5 words) and the address of the item itself, not of its  *)
(* data.                                                                   *)
(***************************************************************************)
EXTENDS Integers

CONSTANT TEMP_FIFO_SIZE   \* 4 in appconf.h

VARIABLES
  next,      \* the link of every item
  data,      \* the data pointer of every item
  emptyhead, \* the two lists: the first item, and the item whose link the
  fullhead,  \*   last-pointer addresses (NULL when it addresses the head)
  itemnum,   \* counters of the inner buffer
  freeitem

vars == <<next, data, emptyhead, fullhead, itemnum, freeitem>>

NULL == -1

\* The items of the FIFO and the two items that lie behind them.
Item == 0 .. TEMP_FIFO_SIZE - 1
Slot == 0 .. TEMP_FIFO_SIZE + 1

\* innerBufferInit.
Init ==
  /\ next = [s \in Slot |-> IF s = TEMP_FIFO_SIZE - 1 \/ s = TEMP_FIFO_SIZE + 1
                            THEN NULL ELSE s + 1]
  /\ data = [s \in Slot |-> s]
  /\ emptyhead = [first |-> 0, last |-> TEMP_FIFO_SIZE - 1]
  /\ fullhead = [first |-> NULL, last |-> NULL]
  /\ itemnum = 0
  /\ freeitem = TEMP_FIFO_SIZE

-----------------------------------------------------------------------------
(***************************************************************************)
(* The list operations, on a head h and the links n.                       *)
(***************************************************************************)
RemoveHead(h, n) ==
  LET second == n[h.first]
  IN  [first |-> second, last |-> IF second = NULL THEN NULL ELSE h.last]

InsertHeadOf(h, i) ==
  [first |-> IF h.first = NULL \/ h.last = NULL THEN i ELSE h.first,
   last  |-> i]

InsertLinks(h, n, i) ==
  [s \in Slot |-> IF s = i THEN NULL
                  ELSE IF h.first # NULL /\ s = h.last THEN i
                  ELSE n[s]]

\* bzero(item, sizeof(temperature_t)): word 2s is the link of item s, word
\* 2s + 1 its data pointer.
WipedWords == 5

Wiped(i, word) == 2 * i <= word /\ word < 2 * i + WipedWords

WipeLinks(i, n) == [s \in Slot |-> IF Wiped(i, 2 * s) THEN NULL ELSE n[s]]
WipeData(i, d)  == [s \in Slot |-> IF Wiped(i, 2 * s + 1) THEN NULL ELSE d[s]]

-----------------------------------------------------------------------------
\* The tempreader takes an empty item, fills it and posts it.
PutSample ==
  /\ emptyhead.first # NULL
  /\ LET i == emptyhead.first
     IN  /\ emptyhead' = RemoveHead(emptyhead, next)
         /\ IF itemnum = TEMP_FIFO_SIZE
            THEN UNCHANGED <<next, fullhead, itemnum>>
            ELSE /\ next' = InsertLinks(fullhead, next, i)
                 /\ fullhead' = InsertHeadOf(fullhead, i)
                 /\ itemnum' = itemnum + 1
  /\ freeitem' = freeitem - 1
  /\ UNCHANGED data

\* The regulator takes a full item, copies its data, wipes and releases it.
GetSample ==
  /\ fullhead.first # NULL
  /\ LET i == fullhead.first
         n == WipeLinks(i, next)
     IN  /\ fullhead' = RemoveHead(fullhead, next)
         /\ data' = WipeData(i, data)
         /\ IF freeitem = TEMP_FIFO_SIZE
            THEN next' = n /\ UNCHANGED <<emptyhead, freeitem>>
            ELSE /\ next' = InsertLinks(emptyhead, n, i)
                 /\ emptyhead' = InsertHeadOf(emptyhead, i)
                 /\ freeitem' = freeitem + 1
  /\ itemnum' = itemnum - 1

Next == PutSample \/ GetSample

Spec == Init /\ [][Next]_vars

-----------------------------------------------------------------------------
\* The tempreader is refused an item only when the FIFO is full: "Pointer to
\* FIFO item or NULL, if the FIFO is full" (regulator.c 62).  It does not
\* hold: the wiped links cut the empty list short.
RefusedOnlyWhenFull ==
  emptyhead.first = NULL => itemnum = TEMP_FIFO_SIZE
=============================================================================
