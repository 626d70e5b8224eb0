------------------------------- MODULE Bridge -------------------------------
(***************************************************************************)
(* The bridge between the webserver threads and the emulation thread       *)
(* (webserver/bridge.cpp).  An HTTP handler builds a Command on its own    *)
(* stack, pushes a pointer to it on the queue and waits on a condition     *)
(* variable with a timeout.  Once per iteration of the machine loop        *)
(* (dosbox.cpp, normal_loop) the emulation thread drains the queue.        *)
(*                                                                         *)
(* A critical section of a handler touches only data guarded by the bridge *)
(* mutex and is one step.  The drain of the emulation thread holds the     *)
(* mutex too but lasts as long as the commands do, so it is one step per   *)
(* command: handlers time out and queue up on the mutex meanwhile.         *)
(***************************************************************************)
EXTENDS Naturals, Sequences, SequencesExt

CONSTANT Handlers      \* the webserver's worker threads

VARIABLES
    pc,        \* pc[h]: where handler thread h is
    done,      \* done[h]: Command::done of h's command
    queue,     \* Bridge::queue; a Command* is named by the thread owning it
    drain,     \* 0, or the index in queue of the command the emulation
               \* thread executes next while it holds the bridge mutex
    runs       \* ghost: how often the current command of h was executed

vars == <<pc, done, queue, drain, runs>>

(* idle:      no command object exists on h's stack                        *)
(* called:    the command exists, ExecuteCommand waits for the mutex       *)
(* waiting:   blocked in cv.wait_for, mutex released                       *)
(* notified:  left the wait by a notification (or spuriously), must get    *)
(*            the mutex back                                               *)
(* expired:   left the wait by the timeout, must get the mutex back        *)
(* ok:        ExecuteCommand returned, the handler reads the command       *)
(* failed:    ExecuteCommand threw "timeout", the stack is unwinding       *)
PCs == {"idle", "called", "waiting", "notified", "expired", "ok", "failed"}

MutexFree == drain = 0

Init ==
    /\ pc = [h \in Handlers |-> "idle"]
    /\ done = [h \in Handlers |-> FALSE]
    /\ queue = <<>>
    /\ drain = 0
    /\ runs = [h \in Handlers |-> 0]

-----------------------------------------------------------------------------
(* The handler threads.                                                    *)

\* A request handler constructs its command and calls WaitForCompletion.
WaitForCompletion(h) ==
    /\ pc[h] = "idle"
    /\ pc' = [pc EXCEPT ![h] = "called"]
    /\ runs' = [runs EXCEPT ![h] = 0]
    /\ UNCHANGED <<done, queue, drain>>

\* Up to the wait: the predicate is FALSE, done having just been cleared.
ExecuteCommand(h) ==
    /\ pc[h] = "called"
    /\ MutexFree
    /\ done' = [done EXCEPT ![h] = FALSE]
    /\ queue' = Append(queue, h)
    /\ pc' = [pc EXCEPT ![h] = "waiting"]
    /\ UNCHANGED <<drain, runs>>

\* The deadline of wait_for passes while h is still blocked.
Expire(h) ==
    /\ pc[h] = "waiting"
    /\ pc' = [pc EXCEPT ![h] = "expired"]
    /\ UNCHANGED <<done, queue, drain, runs>>

\* The wait ends for no reason, which a condition variable may do.
SpuriousWakeup(h) ==
    /\ pc[h] = "waiting"
    /\ pc' = [pc EXCEPT ![h] = "notified"]
    /\ UNCHANGED <<done, queue, drain, runs>>

WakeupIsCompletion(h) == pc[h] = "notified"     \* mutant

\* The predicate given to wait_for, evaluated after every end of a wait.
Completed(h) == done[h]

KeepQueued(q, h) == q                           \* mutant

\* The timed out command's pointer is taken off the queue.
Withdraw(q, h) == RemoveFirst(q, h)

ReacquireThenBlock(h) ==                        \* mutant
    /\ pc[h] \in {"notified", "expired"}
    /\ MutexFree
    /\ pc' = [pc EXCEPT ![h] = IF Completed(h) THEN "ok" ELSE "waiting"]
    /\ UNCHANGED <<queue, done, drain, runs>>

\* The wait is over, the mutex is back, the predicate is evaluated.
Reacquire(h) ==
    /\ pc[h] \in {"notified", "expired"}
    /\ MutexFree
    /\ \/ /\ Completed(h)
          /\ pc' = [pc EXCEPT ![h] = "ok"]
          /\ UNCHANGED queue
       \/ /\ ~Completed(h) /\ pc[h] = "notified"
          /\ pc' = [pc EXCEPT ![h] = "waiting"]
          /\ UNCHANGED queue
       \/ /\ ~Completed(h) /\ pc[h] = "expired"
          /\ pc' = [pc EXCEPT ![h] = "failed"]
          /\ queue' = Withdraw(queue, h)
    /\ UNCHANGED <<done, drain, runs>>

\* The handler has built its response (or unwound): the command is destroyed.
Destroy(h) ==
    /\ pc[h] \in {"ok", "failed"}
    /\ pc' = [pc EXCEPT ![h] = "idle"]
    /\ UNCHANGED <<done, queue, drain, runs>>

-----------------------------------------------------------------------------
(* The emulation thread.                                                   *)

ProcessRequests ==
    /\ MutexFree
    /\ queue # <<>>
    /\ drain' = 1
    /\ UNCHANGED <<pc, done, queue, runs>>

\* One round of the loop: cmd->Execute(); cmd->done = true.
ExecuteNext ==
    /\ drain \in 1 .. Len(queue)
    /\ runs' = [runs EXCEPT ![queue[drain]] = @ + 1]
    /\ done' = [done EXCEPT ![queue[drain]] = TRUE]
    /\ drain' = drain + 1
    /\ UNCHANGED <<pc, queue>>

\* The lock_guard of the drain goes out of scope.
Unlocked(d) == 0

\* queue.clear(); cv.notify_all(); unlock.
FinishDrain ==
    /\ drain = Len(queue) + 1
    /\ queue' = <<>>
    /\ pc' = [h \in Handlers |->
                IF pc[h] = "waiting" THEN "notified" ELSE pc[h]]
    /\ drain' = Unlocked(drain)
    /\ UNCHANGED <<done, runs>>

-----------------------------------------------------------------------------
EmulationThread == ProcessRequests \/ ExecuteNext \/ FinishDrain

HandlerThread(h) ==
    \/ WaitForCompletion(h) \/ ExecuteCommand(h) \/ Expire(h)
    \/ SpuriousWakeup(h) \/ Reacquire(h) \/ Destroy(h)

Next == EmulationThread \/ \E h \in Handlers : HandlerThread(h)

Spec == Init /\ [][Next]_vars

(* wait_for fixes its deadline once, so a wait that is left and entered    *)
(* again still expires (strong fairness), with no help from the emulation  *)
(* thread.  The emulation thread takes the mutex once per loop iteration   *)
(* and otherwise runs the machine: a thread contending for the mutex gets  *)
(* it in the end.  Nothing makes the emulation thread call ProcessRequests *)
(* (the machine may be paused), but a drain it began goes on.              *)
Fairness ==
    /\ WF_vars(ExecuteNext) /\ WF_vars(FinishDrain)
    /\ \A h \in Handlers :
        /\ SF_vars(ExecuteCommand(h))
        /\ SF_vars(Expire(h))
        /\ SF_vars(Reacquire(h))

FairSpec == Spec /\ Fairness

-----------------------------------------------------------------------------
(* Properties.                                                             *)

\* Inside ExecuteCommand with the pointer possibly on the queue.
InCall(h) == pc[h] \in {"waiting", "notified", "expired"}

\* Every variable has its type; the drain index stays within the queue.
TypeOK ==
    /\ pc \in [Handlers -> PCs]
    /\ done \in [Handlers -> BOOLEAN]
    /\ queue \in Seq(Handlers)
    /\ drain \in 0 .. Len(queue) + 1
    /\ runs \in [Handlers -> Nat]

\* The queue holds pointers into the stacks of handler threads: each one
\* points at the command of a thread that is still inside ExecuteCommand,
\* whatever mixture of timeouts, wakeups and drains happened before.
NoDanglingCommand == \A i \in 1 .. Len(queue) : InCall(queue[i])

\* What the handler is told is what happened: ExecuteCommand returned only
\* for a command executed exactly once, and threw "timeout" only for one
\* never executed, so a client that retries after a timeout cannot make
\* the command take effect twice.
AnswerIsTruth ==
    \A h \in Handlers :
        /\ pc[h] = "ok" => runs[h] = 1
        /\ pc[h] = "failed" => runs[h] = 0

\* Every call is answered, even if the emulation thread never drains again.
EveryCallAnswered ==
    \A h \in Handlers : pc[h] = "called" ~> pc[h] \in {"ok", "failed"}

\* The commands that wait to be performed, and how far a call has come.
Pending == SubSeq(queue, IF drain = 0 THEN 1 ELSE drain, Len(queue))

Status == [h \in Handlers |->
             CASE InCall(h)        -> IF runs[h] = 0 THEN "submitted" ELSE "performed"
               [] pc[h] = "ok"     -> "ok"
               [] pc[h] = "failed" -> "timeout"
               [] OTHER            -> "none"]

Service == INSTANCE CommandService WITH
    Callers <- Handlers, pending <- Pending, status <- Status

\* The bridge implements the command service: commands are performed one
\* at a time in the order they were queued, each before its "ok", and a
\* timed out command is withdrawn for good.
ImplementsService == Service!SSpec
=============================================================================
