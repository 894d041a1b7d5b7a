-------------------------------- MODULE Fifo --------------------------------
(***************************************************************************)
(* What a buffer between two threads promises: a bounded first-in first-   *)
(* out queue.  Nothing is lost, duplicated, reordered or changed.          *)
(***************************************************************************)
EXTENDS Naturals, Sequences

CONSTANTS
  Size,   \* how many values the queue can hold
  Data    \* the values

VARIABLE queue   \* the values that were put and not yet got, oldest first

FifoTypeOK ==
  /\ queue \in Seq(Data)
  /\ Len(queue) <= Size

Init == queue = << >>

Put(v) ==
  /\ Len(queue) < Size
  /\ queue' = Append(queue, v)

Get ==
  /\ queue # << >>
  /\ queue' = Tail(queue)

Next == (\E v \in Data : Put(v)) \/ Get

Spec == Init /\ [][Next]_queue
=============================================================================
