------------------------------ MODULE PicQueue ------------------------------
(***************************************************************************)
(* The queue of timed events and the slicing of CPU time around them       *)
(* (hardware/pic.cpp, pic.h), driven by the machine loop (dosbox.cpp).     *)
(* Every device, the chain of InputReplay and the keyboard's pacing hang   *)
(* on it.                                                                  *)
(*                                                                         *)
(* The index of an entry is its time since the start of the current tick.  *)
(* It is counted here in parts of a CPU cycle, Sub to a cycle, as the code *)
(* has fractions of a tick that fall between two cycles.                   *)
(***************************************************************************)
EXTENDS Integers, Sequences, SequencesExt, FiniteSetsExt

CONSTANTS
    Entries,       \* the pool of entries (PIC_QUEUESIZE of them)
    Handlers, Vals,
    Delays,        \* delays passed to PIC_AddEvent
    CycleMax,      \* CPU_CycleMax: cycles of a tick
    Sub,           \* parts of a cycle that are told apart
    Overshoot,     \* cycles an instruction may take beyond the slice
    MaxAdds,       \* bound on the events added
    MaxTicks       \* bound on PIC_Ticks

NoEntry == "none"

ASSUME PicAssumption ==
    /\ NoEntry \notin Entries /\ IsFiniteSet(Entries)
    /\ Handlers # {} /\ Vals # {} /\ Delays \subseteq Nat
    /\ CycleMax \in Nat \ {0} /\ Sub \in Nat \ {0} /\ Overshoot \in Nat
    /\ MaxAdds \in Nat /\ MaxTicks \in Nat

VARIABLES
    queue,         \* the entries from pic_queue.next_entry on
    free,          \* the entries from pic_queue.free_entry on
    entry,         \* the fields of the entries
    serving,       \* the entry whose handler runs
    left, cycles,  \* CPU_CycleLeft, CPU_Cycles
    ticks,         \* PIC_Ticks
    mode,          \* "loop": PIC_RunQueue is next, "service": inside its loop,
                   \* "handler": inside a handler, "cpu": the CPU executes,
                   \* "tick": TIMER_AddTick is next
    adds,          \* events added so far
    armed,         \* ghost: events added and neither fired nor removed
    lastDue        \* ghost: when the event fired last was due

clock == <<left, cycles, ticks>>
vars == <<queue, free, entry, serving, left, cycles, ticks, mode, adds, armed, lastDue>>

\* PIC_TickIndexND, and the time since the start.
TickIndexND == CycleMax - left - cycles
Now == (ticks * CycleMax + TickIndexND) * Sub

\* due and order are ghosts: when the event is due, and its place among all
\* that were ever added.  The fields of a free entry are never read; they are
\* blanked here.
Blank == [index |-> 0, handler |-> CHOOSE h \in Handlers : TRUE,
          val |-> CHOOSE v \in Vals : TRUE, due |-> 0, order |-> 0]

Blanked(es) == [e \in Entries |-> IF e \in es THEN Blank ELSE entry[e]]

Init ==
    /\ queue = <<>>
    /\ free = SetToSeq(Entries)
    /\ entry = [e \in Entries |-> Blank]
    /\ serving = NoEntry
    /\ left = CycleMax /\ cycles = 0 /\ ticks = 0
    /\ mode = "loop"
    /\ adds = 0
    /\ armed = [k \in Handlers \X Vals |-> 0]
    /\ lastDue = 0

InEventService == mode \in {"service", "handler"}

\* Devices act when the CPU executes, in handlers of events and of ticks.
DevicesAct == mode \in {"cpu", "handler", "loop"}

-----------------------------------------------------------------------------
(* Adding and removing.                                                    *)

NotBefore(x, y) == x >= y                       \* mutant

\* An entry already queued stays behind the new one.
ComesLater(x, y) == x > y

\* AddEntry: before the first entry that comes later.
Insert(q, e, f) ==
    LET i == SelectInSeq(q, LAMBDA x : ComesLater(f[x].index, f[e].index))
    IN  InsertAt(q, IF i = 0 THEN Len(q) + 1 ELSE i, e)

RunsOn(c) == FALSE                              \* mutant

\* The first event is c cycles away: the CPU must stop before.
CutsSlice(c) == c < cycles

NoBase == 0                                     \* mutant

\* Inside PIC_RunQueue delays count from the event's own time (srv_lag), so
\* that a periodic event does not drift.
Base == IF InEventService THEN entry[serving].index ELSE TickIndexND * Sub

\* A full queue drops the event.
PIC_AddEvent(h, v, d) ==
    /\ DevicesAct
    /\ adds < MaxAdds
    /\ free # <<>>
    /\ LET e == Head(free)
           origin == IF InEventService THEN entry[serving].due ELSE Now
       IN  /\ entry' = [entry EXCEPT ![e] = [index |-> Base + d, handler |-> h, val |-> v,
                                             due |-> origin + d, order |-> adds]]
           /\ queue' = Insert(queue, e, entry')
           /\ free' = Tail(free)
    /\ IF CutsSlice((entry'[Head(queue')].index - TickIndexND * Sub) \div Sub)
       THEN left' = left + cycles /\ cycles' = 0
       ELSE UNCHANGED <<left, cycles>>
    /\ adds' = adds + 1
    /\ armed' = [armed EXCEPT ![<<h, v>>] = @ + 1]
    /\ UNCHANGED <<serving, ticks, mode, lastDue>>

OnlyTheFirst(lists, e, gone) ==                 \* mutant
    IF e \in gone /\ lists.free = free THEN [lists EXCEPT !.free = <<e>> \o @]
    ELSE [lists EXCEPT !.queue = Append(@, e)]

\* An entry that is to go is unlinked and becomes the first free one.
Visited(lists, e, gone) ==
    IF e \in gone THEN [lists EXCEPT !.free = <<e>> \o @]
    ELSE [lists EXCEPT !.queue = Append(@, e)]

\* The walk along the queue, from its front on.
Walked(q, f, gone) ==
    LET walk[i \in 0 .. Len(q)] == IF i = 0 THEN [queue |-> <<>>, free |-> f]
                                   ELSE Visited(walk[i - 1], q[i], gone)
    IN  walk[Len(q)]

Unlink(gone) ==
    /\ queue' = Walked(queue, free, gone).queue
    /\ free' = Walked(queue, free, gone).free
    /\ entry' = Blanked(gone)

PIC_RemoveSpecificEvents(h, v) ==
    /\ DevicesAct
    /\ Unlink({e \in Range(queue) : entry[e].handler = h /\ entry[e].val = v})
    /\ armed' = [armed EXCEPT ![<<h, v>>] = 0]
    /\ UNCHANGED <<serving, clock, mode, adds, lastDue>>

PIC_RemoveEvents(h) ==
    /\ DevicesAct
    /\ Unlink({e \in Range(queue) : entry[e].handler = h})
    /\ armed' = [k \in DOMAIN armed |-> IF k[1] = h THEN 0 ELSE armed[k]]
    /\ UNCHANGED <<serving, clock, mode, adds, lastDue>>

-----------------------------------------------------------------------------
(* PIC_RunQueue.                                                           *)

\* (The bound on ticks stops the machine before the tick would end.)
RunQueue ==
    /\ mode = "loop"
    /\ left' = left + cycles /\ cycles' = 0
    /\ left' <= 0 => ticks < MaxTicks
    /\ mode' = IF left' <= 0 THEN "tick" ELSE "service"
    /\ UNCHANGED <<queue, free, entry, serving, ticks, adds, armed, lastDue>>

Due == queue # <<>> /\ entry[Head(queue)].index <= TickIndexND * Sub

Fire ==
    /\ mode = "service" /\ Due
    /\ LET e == Head(queue) IN
       /\ serving' = e
       /\ lastDue' = entry[e].due
       /\ armed' = [armed EXCEPT ![<<entry[e].handler, entry[e].val>>] = @ - 1]
    /\ queue' = Tail(queue)
    /\ mode' = "handler"
    /\ UNCHANGED <<free, entry, clock, adds>>

Forget(f) == f                                  \* mutant

\* The entry is put back only when its handler has returned.
PutBack(f) == <<serving>> \o f

HandlerReturns ==
    /\ mode = "handler"
    /\ free' = PutBack(free)
    /\ serving' = NoEntry /\ entry' = Blanked({serving})
    /\ mode' = "service"
    /\ UNCHANGED <<queue, clock, adds, armed, lastDue>>

\* The CPU gets the cycles up to the next event, one at least.
Slice ==
    IF queue = <<>> THEN left
    ELSE Min({left, Max({1, entry[Head(queue)].index \div Sub - TickIndexND})})

RunQueueReturns ==
    /\ mode = "service" /\ ~Due
    /\ cycles' = Slice
    /\ left' = left - cycles'
    /\ mode' = "cpu"
    /\ UNCHANGED <<queue, free, entry, serving, ticks, adds, armed, lastDue>>

-----------------------------------------------------------------------------
(* The machine loop.                                                       *)

CpuExecutes ==
    /\ mode = "cpu" /\ cycles > 0
    /\ \E n \in 1 .. 1 + Overshoot : cycles' = cycles - n
    /\ UNCHANGED <<queue, free, entry, serving, left, ticks, mode, adds, armed, lastDue>>

\* The slice is used up, or a callback leaves the CPU's loop before.
CpuReturns ==
    /\ mode = "cpu"
    /\ mode' = "loop"
    /\ UNCHANGED <<queue, free, entry, serving, clock, adds, armed, lastDue>>

TIMER_AddTick ==
    /\ mode = "tick"
    /\ left' = CycleMax /\ cycles' = 0
    /\ ticks' = ticks + 1
    /\ entry' = [e \in Entries |-> IF e \in Range(queue)
                                   THEN [entry[e] EXCEPT !.index = @ - CycleMax * Sub]
                                   ELSE entry[e]]
    /\ mode' = "loop"
    /\ UNCHANGED <<queue, free, serving, adds, armed, lastDue>>

-----------------------------------------------------------------------------

Next ==
    \/ \E h \in Handlers, v \in Vals, d \in Delays : PIC_AddEvent(h, v, d)
    \/ \E h \in Handlers, v \in Vals : PIC_RemoveSpecificEvents(h, v)
    \/ \E h \in Handlers : PIC_RemoveEvents(h)
    \/ RunQueue \/ Fire \/ HandlerReturns \/ RunQueueReturns
    \/ CpuExecutes \/ CpuReturns \/ TIMER_AddTick

Spec == Init /\ [][Next]_vars

-----------------------------------------------------------------------------

\* Types of the lists, the entries and the cycle counters.
TypeOK ==
    /\ queue \in Seq(Entries) /\ free \in Seq(Entries)
    /\ entry \in [Entries -> [index : Int, handler : Handlers, val : Vals,
                              due : Nat, order : Nat]]
    /\ serving \in Entries \cup {NoEntry} /\ (serving # NoEntry <=> mode = "handler")
    /\ left \in -Overshoot .. CycleMax /\ cycles \in -Overshoot .. CycleMax
    /\ ticks \in 0 .. MaxTicks
    /\ mode \in {"loop", "service", "handler", "cpu", "tick"}
    /\ adds \in 0 .. MaxAdds
    /\ armed \in [Handlers \X Vals -> Nat]
    /\ lastDue \in Nat

\* No entry is lost or in two lists: queued, free and served entries are the
\* whole pool, although handlers add and remove while theirs is in neither.
EntriesConserved ==
    LET all == queue \o free \o (IF serving = NoEntry THEN <<>> ELSE <<serving>>)
    IN  Range(all) = Entries /\ \A i, j \in DOMAIN all : all[i] = all[j] => i = j

\* The queue is in the order of the events' times, and events of the same
\* time are in the order they were added, across ticks and removals.
QueueInOrder ==
    \A i, j \in DOMAIN queue : i < j =>
        LET x == entry[queue[i]]  y == entry[queue[j]]
        IN  x.index < y.index \/ (x.index = y.index /\ x.order < y.order)

\* What is queued is what was added and neither fired nor removed: removing a
\* handler's events leaves none behind to fire into a device that is gone,
\* and takes no other.
QueueIsArmed ==
    \A k \in DOMAIN armed :
        armed[k] = Cardinality({e \in Range(queue) : <<entry[e].handler, entry[e].val>> = k})

\* An event fires no sooner than its delay after it was added, counted from
\* the time of the event that added it if there was one, and never before an
\* event that was due earlier.
FiresOnTime ==
    [][Fire => /\ Now >= entry[Head(queue)].due
               /\ entry[Head(queue)].due >= lastDue]_vars

\* The CPU stops less than a cycle after the next event is due, also when the
\* event was added in the middle of the slice.
SliceEndsAtEvent ==
    mode = "cpu" /\ queue # <<>> /\ cycles > 0 =>
        (TickIndexND + cycles) * Sub < entry[Head(queue)].index + Sub

=============================================================================
