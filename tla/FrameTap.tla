------------------------------ MODULE FrameTap ------------------------------
(***************************************************************************)
(* The handoff of a rendered frame from the thread that presents frames to *)
(* a web server thread (webserver/frame_tap.cpp), and the handler that     *)
(* asks for one (webserver/video.cpp).  request_serializer admits one      *)
(* request at a time; state_mutex makes a request, a delivery and the      *)
(* return from the wait one step each.                                     *)
(*                                                                         *)
(* A frame is a heap buffer: what is modelled of it is who owns the copy.  *)
(***************************************************************************)
EXTENDS Naturals, FiniteSets

CONSTANTS
    Clients,       \* threads of the web server
    MaxCopies      \* bound on the number of copies made

NoCopy == 0
Nobody == "nobody"

ASSUME TapAssumption == MaxCopies \in Nat /\ Nobody \notin Clients

VARIABLES
    serializer,    \* holder of request_serializer
    requested,     \* the atomic flag
    has_frame,
    frame,         \* the tap's copy, or NoCopy
    pc,            \* where each client's handler is
    owned,         \* the copy a handler owns
    present,       \* the present thread: "idle", "captured" once it has read
                   \* the pixels, "delivering" once it has seen the flag
    copies,        \* copies made so far
    live,          \* ghost: copies not freed
    lost           \* ghost: copies of handlers that threw

tap == <<requested, has_frame, frame>>
vars == <<serializer, requested, has_frame, frame, pc, owned, present, copies, live, lost>>

Init ==
    /\ serializer = Nobody
    /\ requested = FALSE /\ has_frame = FALSE /\ frame = NoCopy
    /\ pc = [c \in Clients |-> "idle"] /\ owned = [c \in Clients |-> NoCopy]
    /\ present = "idle"
    /\ copies = 0 /\ live = {}
    /\ lost = {}

Goto(c, from, to) == pc[c] = from /\ pc' = [pc EXCEPT ![c] = to]

-----------------------------------------------------------------------------
(* The handler.                                                            *)

\* RequestAndWait up to the wait, which releases state_mutex.
Request(c) ==
    /\ serializer = Nobody
    /\ Goto(c, "idle", "waiting")
    /\ serializer' = c
    /\ has_frame' = FALSE /\ requested' = TRUE
    /\ UNCHANGED <<frame, owned, present, copies, live, lost>>

NeverElapses(c) == FALSE                        \* mutant

TimeoutElapses(c) ==
    /\ Goto(c, "waiting", "expired")
    /\ UNCHANGED <<serializer, tap, owned, present, copies, live, lost>>

GoneByTheClock(c) == pc[c] = "waiting"          \* mutant

\* wait_for evaluates its predicate once more when the time is up.
Got(c) == has_frame

\* The flag once the wait is over.
AskedAfterWait == FALSE

\* The tap's image once it is handed over.
FrameAfterTake == NoCopy

TakeFrame(c) ==
    /\ pc[c] \in {"waiting", "expired"}
    /\ has_frame /\ Got(c)
    /\ requested' = AskedAfterWait /\ has_frame' = FALSE
    /\ owned' = [owned EXCEPT ![c] = frame]
    /\ frame' = FrameAfterTake
    /\ serializer' = Nobody
    /\ pc' = [pc EXCEPT ![c] = "encoding"]
    /\ UNCHANGED <<present, copies, live, lost>>

\* No frame came: the handler answers 503.
GiveUp(c) ==
    /\ Goto(c, "expired", "idle")
    /\ ~Got(c)
    /\ requested' = AskedAfterWait
    /\ serializer' = Nobody
    /\ UNCHANGED <<has_frame, frame, owned, present, copies, live, lost>>

Encode(c) ==
    /\ Goto(c, "encoding", "idle")
    /\ live' = live \ {owned[c]}
    /\ owned' = [owned EXCEPT ![c] = NoCopy]
    /\ UNCHANGED <<serializer, tap, present, copies, lost>>

\* num_param throws before the frame is freed; the handler's frame object is
\* a plain record, so the buffer is not freed by unwinding either.
EncodeThrows(c) ==
    /\ Goto(c, "encoding", "idle")
    /\ lost' = lost \cup {owned[c]}
    /\ owned' = [owned EXCEPT ![c] = NoCopy]
    /\ UNCHANGED <<serializer, tap, present, copies, live>>

-----------------------------------------------------------------------------
(* The present thread.                                                     *)

\* GFX_CaptureRenderedImage reads the pixels if a frame is requested, or for
\* the sake of a video or a screenshot.
Capture ==
    /\ copies < MaxCopies
    /\ present = "idle"
    /\ present' = "captured"
    /\ UNCHANGED <<serializer, tap, pc, owned, copies, live, lost>>

\* The relaxed load of the flag in Deliver.
SeesRequest ==
    /\ present = "captured"
    /\ present' = IF requested THEN "delivering" ELSE "idle"
    /\ UNCHANGED <<serializer, tap, pc, owned, copies, live, lost>>

FlagSeenBefore == ~has_frame                    \* mutant

\* The flag is read again under state_mutex.
Wanted == requested /\ ~has_frame

Deliver ==
    /\ present = "delivering"
    /\ present' = "idle"
    /\ IF Wanted
       THEN /\ copies' = copies + 1
            /\ frame' = copies'
            /\ has_frame' = TRUE
            /\ live' = live \cup {copies'}
       ELSE UNCHANGED <<copies, frame, has_frame, live>>
    /\ UNCHANGED <<serializer, requested, pc, owned, lost>>

-----------------------------------------------------------------------------

Handler(c) ==
    \/ Request(c) \/ TimeoutElapses(c) \/ TakeFrame(c) \/ GiveUp(c)
    \/ Encode(c) \/ EncodeThrows(c)

Next == \/ \E c \in Clients : Handler(c)
        \/ Capture \/ SeesRequest \/ Deliver

Spec == Init /\ [][Next]_vars

\* A wait ends at its timeout at the latest, and threads run.
FairSpec == Spec /\ \A c \in Clients :
                        WF_vars(TimeoutElapses(c)) /\ WF_vars(TakeFrame(c) \/ GiveUp(c))

-----------------------------------------------------------------------------

\* Types of the tap, the handlers and the present thread; the tap holds a
\* buffer only while it has a frame, or its destructor would free it twice.
TypeOK ==
    /\ serializer \in Clients \cup {Nobody}
    /\ requested \in BOOLEAN /\ has_frame \in BOOLEAN
    /\ frame \in IF has_frame THEN 1 .. copies ELSE {NoCopy}
    /\ pc \in [Clients -> {"idle", "waiting", "expired", "encoding"}]
    /\ owned \in [Clients -> 0 .. MaxCopies]
    /\ present \in {"idle", "captured", "delivering"}
    /\ copies \in 0 .. MaxCopies
    /\ live \subseteq 1 .. MaxCopies
    /\ lost \subseteq 1 .. MaxCopies

\* Every copy has one owner until it is freed: the tap while it has a frame,
\* or one handler; only a handler that throws loses one.  A delivery that
\* races a timeout, or is overtaken by the end of the request it saw, neither
\* leaks its copy nor gives it to two requests.
OneOwner ==
    /\ \A x \in live \ lost : (has_frame /\ frame = x) \/ \E c \in Clients : owned[c] = x
    /\ \A c, d \in Clients : c # d /\ owned[c] # NoCopy => owned[c] # owned[d]
    /\ \A c \in Clients : owned[c] # NoCopy => owned[c] \in live \ lost
    /\ has_frame => frame \in live \ lost /\ \A c \in Clients : owned[c] # frame

\* The present thread is asked for a frame exactly while a handler waits, so
\* that presenting costs no copy otherwise.
AskedWhileWaiting ==
    requested <=> \E c \in Clients : pc[c] \in {"waiting", "expired"}

\* A request ends, so that the next one is not blocked by it for ever.
RequestsEnd == []<>(serializer = Nobody)

=============================================================================
