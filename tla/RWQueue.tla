------------------------------ MODULE RWQueue -------------------------------
(***************************************************************************)
(* The blocking queue between threads (utils/rwqueue.h, misc/rwqueue.cpp). *)
(* A queue is a record; every operator is what a method does while it      *)
(* holds the queue's mutex.  The waits of the methods are predicates that  *)
(* the modules using a queue put into their guards, and a notification,    *)
(* which the methods send after they have unlocked the mutex, is a step of *)
(* its own in those modules.                                               *)
(*                                                                         *)
(* The queues of audio frames, whose contents no property is about, record *)
(* their size instead of their items.                                      *)
(***************************************************************************)
EXTENDS Naturals, Sequences

NewQueue(cap) == [queue |-> <<>>, capacity |-> cap, is_running |-> TRUE]

Stop(q) == [q EXCEPT !.is_running = FALSE]

\* What Enqueue and Dequeue wait for.
HasRoom(q) == ~q.is_running \/ Len(q.queue) < q.capacity
HasItems(q) == ~q.is_running \/ q.queue # <<>>

\* A stopped queue takes nothing any more ...
Enqueue(q, item) ==
    IF q.is_running THEN [q EXCEPT !.queue = Append(@, item)] ELSE q

NothingLeft(q) == ~q.is_running                 \* mutant

\* ... but gives what it holds.
NothingToDequeue(q) == ~q.is_running /\ q.queue = <<>>

Dequeue(q) == [q EXCEPT !.queue = Tail(@)]

-----------------------------------------------------------------------------
(***************************************************************************)
(* The queues of audio frames.                                             *)
(***************************************************************************)
NewFrameQueue(cap) == [size |-> 0, capacity |-> cap, is_running |-> TRUE]

Start(q) == [q EXCEPT !.is_running = TRUE]

Clear(q) == [q EXCEPT !.size = 0]

Smaller(a, b) == IF a < b THEN a ELSE b

\* What NonblockingBulkEnqueue adds of n frames.
Accepted(q, n) ==
    IF q.is_running /\ q.size < q.capacity THEN Smaller(q.capacity - q.size, n) ELSE 0

NonblockingBulkEnqueue(q, n) == [q EXCEPT !.size = @ + Accepted(q, n)]

\* One pass of the loop in BulkEnqueue moves the number of frames that had
\* room when the pass began, or one frame if the queue was full then; it
\* cannot be told any more when the pass goes on.
RoomChunks(q, n) ==
    IF q.is_running /\ q.size < q.capacity
    THEN {1, Smaller(q.capacity - q.size, n)} ELSE {}

\* The same for BulkDequeue, which also drains a stopped queue.
ItemChunks(q, n) == IF q.size > 0 THEN {1, Smaller(q.size, n)} ELSE {}

\* BulkDequeue gives up, with what it has, on an empty queue that is stopped.
Drained(q) == ~q.is_running /\ q.size = 0

Added(q, n) == [q EXCEPT !.size = @ + n]
Removed(q, n) == [q EXCEPT !.size = @ - n]
=============================================================================
