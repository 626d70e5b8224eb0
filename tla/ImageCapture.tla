---------------------------- MODULE ImageCapture ----------------------------
(***************************************************************************)
(* Screenshots: the requests and the image capturer of the main thread     *)
(* (capture/image/image_capturer.cpp, capture/capture.cpp), the threads    *)
(* that save images (capture/image/image_saver.cpp) and the frame and      *)
(* present calls that feed the capturer (gui/render/render.cpp,            *)
(* gui/sdl_gui.cpp).                                                       *)
(*                                                                         *)
(* An image is the heap buffer that holds it.  The capturer copies the raw *)
(* and upscaled images and is given the rendered one; the saver frees them *)
(* all.  File names and contents are left out.                             *)
(***************************************************************************)
EXTENDS RWQueue, Integers, FiniteSets

CONSTANTS
    NumImageSavers,
    MaxQueuedImages,
    Buffers,          \* numbers of the image buffers
    GroupedModes,     \* the values of default_image_capture_formats
    Rates,            \* the presentation modes
    MaxRequests       \* bound: hotkeys pressed and settings changed

Savers == 0..(NumImageSavers - 1)
Singles == {"raw", "upscaled", "rendered"}

\* A buffer for every place in a queue, one per saver thread, and the one the
\* main thread is queuing: a free one always exists.
ASSUME ImageCaptureAssumption ==
    /\ NumImageSavers \in Nat \ {0} /\ MaxQueuedImages \in Nat \ {0}
    /\ Buffers \subseteq Nat \ {0} /\ MaxRequests \in Nat
    /\ Cardinality(Buffers) > NumImageSavers * (MaxQueuedImages + 1)
    /\ GroupedModes \subseteq (SUBSET Singles) \ {{}}
    /\ Rates \subseteq {"dos-rate", "host-rate"}

NoBuffer == 0

VARIABLES
    rate,             \* GFX_GetPresentationMode
    grouped_mode,     \* the formats a grouped request wants
    state,            \* the requests: off, pending or inprogress
    path_initialised, \* the capture directory exists and is indexed
    main,             \* the main thread, see Init
    current_image_saver_index,
    savers,           \* the saver threads with their queues
    live,             \* ghost: the buffers that are allocated
    requests,         \* requests made so far
    owed,             \* ghost: the formats each request has not got yet
    lost              \* ghost: requests that ended without all they asked for,
                      \* for one of the reasons ScreenshotsEnd names

service == <<owed, lost>>
imageVars == <<rate, grouped_mode, state, path_initialised, main,
               current_image_saver_index, savers, live, requests, service>>
capturer == <<grouped_mode, state, path_initialised, current_image_saver_index>>

Open == [pc |-> "dequeue", fifo |-> NewQueue(MaxQueuedImages), image |-> NoBuffer]

AllOff == [r \in Singles \cup {"grouped"} |-> "off"]

\* The main thread: pc, the images it still has to queue, where it goes when
\* they are queued, the buffer it is queuing, the saver it is closing, and
\* whether it closes them to apply a changed setting.
ImageInit ==
    /\ rate \in Rates /\ grouped_mode \in GroupedModes
    /\ state = AllOff
    /\ path_initialised = FALSE
    /\ main = [pc |-> "idle", todo |-> <<>>, next |-> "idle", image |-> NoBuffer,
               closing |-> 0, again |-> FALSE]
    /\ current_image_saver_index = 0
    /\ savers = [s \in Savers |-> Open]
    /\ live = {} /\ requests = 0
    /\ owed = [r \in Singles \cup {"grouped"} |-> {}] /\ lost = {}

-----------------------------------------------------------------------------
(* Requests: the hotkeys are handled between two slices of the emulation.  *)

Request(r) ==
    /\ main.pc = "idle" /\ requests < MaxRequests
    /\ state[r] = "off"
    /\ state' = [state EXCEPT ![r] = "pending"]
    /\ requests' = requests + 1
    /\ owed' = [owed EXCEPT ![r] = IF r = "grouped" THEN grouped_mode ELSE {r}]
    /\ lost' = lost \ {r}
    /\ UNCHANGED <<rate, grouped_mode, path_initialised, main,
                   current_image_saver_index, savers, live>>

IsCaptureRequested == \E r \in DOMAIN state : state[r] # "off"

IsRenderedCaptureRequested ==
    \/ state["rendered"] # "off"
    \/ state["grouped"] # "off" /\ "rendered" \in grouped_mode

-----------------------------------------------------------------------------
(* The end of a frame.                                                     *)

\* The formats MaybeCaptureImage captures, and the requests it leaves.
CapturedFormats ==
    CASE state["grouped"] = "inprogress" -> {}
      [] state["grouped"] = "off" -> {f \in Singles : state[f] # "off"}
      [] OTHER -> grouped_mode

\* mutant: a group clears the single requests it does not serve
SinglesForgotten ==
    [state EXCEPT !["raw"] = "off", !["upscaled"] = "off",
                  !["grouped"] = IF "rendered" \in grouped_mode /\ @ # "off"
                                 THEN "inprogress" ELSE "off"]

StateAfterCapture ==
    CASE state["grouped"] = "inprogress" -> state
      [] state["grouped"] = "off" -> [state EXCEPT !["raw"] = "off", !["upscaled"] = "off"]
      [] OTHER -> [state EXCEPT !["grouped"] =
                       IF "rendered" \in grouped_mode THEN "inprogress" ELSE "off"]

\* In dos-rate mode the frame is presented at once.
AfterFrame == IF rate = "dos-rate" THEN "present" ELSE "idle"

\* The directory is created and indexed by whoever needs it first; that can
\* fail, and is tried again by the next one.
IndexOf(ok) == path_initialised \/ ok

\* The requests that go when the images of this frame cannot be numbered; a
\* rendered image is queued all the same.
Unnumbered ==
    IF state["grouped"] = "pending" THEN {"grouped"}
    ELSE {r \in {"raw", "upscaled"} : state["grouped"] = "off" /\ state[r] # "off"}

Wanted(f, formats) == IF f \in formats THEN <<f>> ELSE <<>>

MaybeCaptureImage ==
    /\ state' = StateAfterCapture
    /\ \E ok \in BOOLEAN :
         LET queued == IF IndexOf(ok) THEN CapturedFormats ELSE {}
             todo == Wanted("raw", queued) \o Wanted("upscaled", queued)
         IN  /\ path_initialised' = IF CapturedFormats = {} THEN path_initialised
                                                            ELSE IndexOf(ok)
             /\ lost' = IF IndexOf(ok) THEN lost ELSE lost \cup Unnumbered
             /\ main' = [main EXCEPT !.pc = IF todo = <<>> THEN AfterFrame ELSE "copy",
                                     !.todo = todo, !.next = AfterFrame]

RENDER_EndUpdate ==
    /\ main.pc = "idle"
    /\ \/ IsCaptureRequested /\ MaybeCaptureImage
       \/ /\ ~IsCaptureRequested
          /\ main' = [main EXCEPT !.pc = AfterFrame]
          /\ UNCHANGED <<state, path_initialised, lost>>
    /\ UNCHANGED <<rate, grouped_mode, current_image_saver_index, savers, live, requests, owed>>

\* A change of the video mode ends the frame without capturing it.
halt_render ==
    /\ main.pc = "idle"
    /\ main' = [main EXCEPT !.pc = AfterFrame]
    /\ UNCHANGED <<rate, capturer, savers, live, requests, service>>

\* GFX_MaybePresentFrame, which a request for a rendered image forces to
\* present; drawing is inactive while the window is being set up.  The image
\* that is read back is given to CapturePostRenderImage.  In host-rate mode
\* the emulation loop calls it several times a tick.
GFX_MaybePresentFrame(draw_active) ==
    /\ \/ main.pc = "present"
       \/ rate = "host-rate" /\ main.pc = "idle"
    /\ main' = IF draw_active /\ IsRenderedCaptureRequested
               THEN [main EXCEPT !.pc = "copy", !.todo = <<"rendered">>, !.next = "rendered"]
               ELSE [main EXCEPT !.pc = "idle"]
    /\ UNCHANGED <<rate, capturer, savers, live, requests, service>>

-----------------------------------------------------------------------------
(* Queuing an image.                                                       *)

\* The image is copied or was just read back, and the next saver is chosen.
GetNextImageSaver ==
    /\ main.pc = "copy" /\ Buffers \ live # {}
    /\ current_image_saver_index' = (current_image_saver_index + 1) % NumImageSavers
    /\ LET b == CHOOSE x \in Buffers \ live : \A y \in Buffers \ live : x <= y
       IN  /\ main' = [main EXCEPT !.pc = "enqueue", !.image = b]
           /\ live' = live \cup {b}
    /\ UNCHANGED <<rate, grouped_mode, state, path_initialised, savers, requests, service>>

\* Enqueue, which waits for room.
QueueImage ==
    LET s == current_image_saver_index
    IN  /\ main.pc = "enqueue"
        /\ IF HasRoom(savers[s].fifo)
           THEN /\ savers' = [savers EXCEPT ![s].fifo = Enqueue(@, main.image)]
                /\ main' = [main EXCEPT !.pc = "notify", !.image = NoBuffer]
           ELSE main' = [main EXCEPT !.pc = "waiting"] /\ UNCHANGED savers
        /\ UNCHANGED <<rate, capturer, live, requests, service>>

Woken(saver) == [saver EXCEPT !.pc = IF @ = "waiting" THEN "dequeue" ELSE @]

NobodyWoken(saver) == saver                     \* mutant

\* has_items.notify_one at the end of Enqueue.
NotifiedOfItem(saver) == Woken(saver)

\* The requests once the rendered image is queued: CapturePostRenderImage
\* ends a grouped request too.
StateAfterRendered == [state EXCEPT !["rendered"] = "off", !["grouped"] = "off"]

\* The requests an image of format f is for.
ServedBy(f) ==
    CASE f = "rendered" -> {"rendered", "grouped"}
      [] f # "rendered" /\ f \in owed["grouped"] /\ "grouped" \notin lost -> {"grouped"}
      [] OTHER -> {f}

OwedAfter(f) ==
    [r \in DOMAIN owed |-> IF r \in ServedBy(f) THEN owed[r] \ {f} ELSE owed[r]]

ImageQueued ==
    /\ main.pc = "notify"
    /\ savers' = [savers EXCEPT ![current_image_saver_index] = NotifiedOfItem(@)]
    /\ LET left == Tail(main.todo)
           done == left = <<>>
           post == main.next = "rendered"
       IN  /\ main' = [main EXCEPT !.todo = left,
                                   !.pc = CASE ~done -> "copy"
                                            [] done /\ post -> "idle"
                                            [] OTHER -> main.next]
           /\ state' = IF done /\ post THEN StateAfterRendered ELSE state
           /\ owed' = OwedAfter(Head(main.todo))
           /\ lost' = IF post /\ state["grouped"] = "pending" THEN lost \cup {"grouped"}
                                                             ELSE lost
    /\ UNCHANGED <<rate, grouped_mode, path_initialised, current_image_saver_index,
                   live, requests>>

-----------------------------------------------------------------------------
(* The saver threads: SaveQueuedImages.                                    *)

SaverAt(s, pc) == savers[s].pc = pc

TakeImage(s) ==
    /\ SaverAt(s, "dequeue")
    /\ LET q == savers[s].fifo
       IN  savers' = [savers EXCEPT ![s] =
             CASE ~HasItems(q) -> [@ EXCEPT !.pc = "waiting"]
               [] NothingToDequeue(q) -> [@ EXCEPT !.pc = "notify"]
               [] OTHER -> [@ EXCEPT !.pc = "notify", !.image = Head(q.queue),
                                     !.fifo = Dequeue(q)]]
    /\ UNCHANGED <<rate, capturer, main, live, requests, service>>

RoomUnnoticed(s) == main                        \* mutant

\* has_room.notify_one at the end of Dequeue.
NotifiedOfRoom(s) ==
    IF main.pc = "waiting" /\ current_image_saver_index = s
    THEN [main EXCEPT !.pc = "enqueue"] ELSE main

ImageTaken(s) ==
    /\ SaverAt(s, "notify")
    /\ main' = NotifiedOfRoom(s)
    /\ savers' = [savers EXCEPT ![s].pc = IF savers[s].image = NoBuffer THEN "ended" ELSE "saving"]
    /\ UNCHANGED <<rate, capturer, live, requests, service>>

\* free() after SaveImage, whether or not the file could be written.
LiveAfterSave(s) == live \ {savers[s].image}

SaveImage(s) ==
    /\ SaverAt(s, "saving")
    /\ \E ok \in BOOLEAN : path_initialised' = IndexOf(ok)
    /\ live' = LiveAfterSave(s)
    /\ savers' = [savers EXCEPT ![s].pc = "dequeue", ![s].image = NoBuffer]
    /\ UNCHANGED <<rate, grouped_mode, state, main, current_image_saver_index, requests,
                   service>>

\* A condition variable may wake a thread for no reason.
SpuriousWakeup ==
    /\ \/ \E s \in Savers : SaverAt(s, "waiting") /\ savers' = [savers EXCEPT ![s] = Woken(@)]
                                                  /\ UNCHANGED main
       \/ /\ main.pc = "waiting" /\ main' = [main EXCEPT !.pc = "enqueue"]
          /\ UNCHANGED savers
    /\ UNCHANGED <<rate, capturer, live, requests, service>>

-----------------------------------------------------------------------------
(* CAPTURE_Destroy and a changed setting.                                  *)

CAPTURE_Destroy ==
    /\ main.pc = "idle"
    /\ \E again \in BOOLEAN :
         /\ again => requests < MaxRequests
         /\ requests' = requests + IF again THEN 1 ELSE 0
         /\ main' = [main EXCEPT !.pc = "stop", !.closing = 0, !.again = again]
    /\ UNCHANGED <<rate, capturer, savers, live, service>>

StopSaver ==
    /\ main.pc = "stop"
    /\ savers' = [savers EXCEPT ![main.closing].fifo = Stop(@)]
    /\ main' = [main EXCEPT !.pc = "wake"]
    /\ UNCHANGED <<rate, capturer, live, requests, service>>

\* has_items.notify_all at the end of Stop.
NotifiedOfStop(saver) == Woken(saver)

NotifyStopped ==
    /\ main.pc = "wake"
    /\ savers' = [savers EXCEPT ![main.closing] = NotifiedOfStop(@)]
    /\ main' = [main EXCEPT !.pc = "join"]
    /\ UNCHANGED <<rate, capturer, live, requests, service>>

Joined(saver) == saver.pc = "ended"

\* The last saver joined: the capturer is gone, or CAPTURE_Init makes a new
\* one from the changed settings.
JoinSaver ==
    /\ main.pc = "join" /\ Joined(savers[main.closing])
    /\ \/ /\ main.closing + 1 \in Savers
          /\ main' = [main EXCEPT !.pc = "stop", !.closing = @ + 1]
          /\ UNCHANGED <<capturer, savers, lost>>
       \/ /\ main.closing + 1 \notin Savers /\ ~main.again
          /\ main' = [main EXCEPT !.pc = "closed"]
          /\ state' = AllOff /\ path_initialised' = FALSE
          /\ lost' = lost \cup {r \in DOMAIN state : state[r] # "off"}
          /\ UNCHANGED <<grouped_mode, current_image_saver_index, savers>>
       \/ /\ main.closing + 1 \notin Savers /\ main.again
          /\ main' = [main EXCEPT !.pc = "idle", !.closing = 0, !.again = FALSE]
          /\ state' = AllOff /\ path_initialised' = FALSE
          /\ lost' = lost \cup {r \in DOMAIN state : state[r] # "off"}
          /\ grouped_mode' \in GroupedModes
          /\ current_image_saver_index' = 0
          /\ savers' = [s \in Savers |-> Open]
    /\ UNCHANGED <<rate, live, requests, owed>>

Closed == main.pc = "closed" /\ UNCHANGED imageVars

Main ==
    \/ GetNextImageSaver \/ QueueImage \/ ImageQueued
    \/ StopSaver \/ NotifyStopped \/ JoinSaver

Saver(s) == TakeImage(s) \/ ImageTaken(s) \/ SaveImage(s)

ImageNext ==
    \/ \E r \in DOMAIN state : Request(r)
    \/ RENDER_EndUpdate \/ halt_render
    \/ \E draw_active \in BOOLEAN : GFX_MaybePresentFrame(draw_active)
    \/ Main
    \/ \E s \in Savers : Saver(s)
    \/ SpuriousWakeup \/ CAPTURE_Destroy \/ Closed

\* Threads run, frames keep ending, and drawing is active again and again.
Fairness ==
    /\ WF_imageVars(Main) /\ \A s \in Savers : WF_imageVars(Saver(s))
    /\ SF_imageVars(RENDER_EndUpdate)
    /\ SF_imageVars(GFX_MaybePresentFrame(TRUE)) /\ WF_imageVars(GFX_MaybePresentFrame(FALSE))

ImageSpec == ImageInit /\ [][ImageNext]_imageVars /\ Fairness

-----------------------------------------------------------------------------
(* Properties.                                                             *)

Pcs == {"idle", "present", "copy", "enqueue", "waiting", "notify", "stop", "wake", "join", "closed"}

ImageTypeOK ==
    /\ rate \in Rates /\ grouped_mode \in GroupedModes
    /\ state \in [Singles \cup {"grouped"} -> {"off", "pending", "inprogress"}]
    /\ path_initialised \in BOOLEAN
    /\ main \in [pc : Pcs, todo : Seq(Singles), next : {"idle", "present", "rendered"},
                 image : Buffers \cup {NoBuffer}, closing : Savers, again : BOOLEAN]
    /\ current_image_saver_index \in Savers
    /\ savers \in [Savers -> [pc : {"dequeue", "waiting", "notify", "saving", "ended"},
                              fifo : [queue : Seq(Buffers), capacity : Nat, is_running : BOOLEAN],
                              image : Buffers \cup {NoBuffer}]]
    /\ live \subseteq Buffers /\ requests \in 0..MaxRequests
    /\ owed \in [Singles \cup {"grouped"} -> SUBSET Singles]
    /\ lost \subseteq Singles \cup {"grouped"}

\* Where an image can be: place <<s, 0>> is the variable of saver thread s,
\* <<s, i>> the i-th place in its queue, and <<NumImageSavers, 0>> the variable
\* of the main thread.
Places ==
    {<<NumImageSavers, 0>>} \cup
    UNION {{s} \X (0..Len(savers[s].fifo.queue)) : s \in Savers}

ImageAt(p) ==
    IF p[1] = NumImageSavers THEN main.image
    ELSE IF p[2] = 0 THEN savers[p[1]].image ELSE savers[p[1]].fifo.queue[p[2]]

Owners(b) == {p \in Places : ImageAt(p) = b}

\* Every allocated image has exactly one owner and a freed one has none: no
\* image leaks, is saved twice, or is freed while somebody still reads it.
\* When the capturer is closed all its images have been saved and freed.
BuffersOwned ==
    /\ \A b \in live : \E p \in Owners(b) : Owners(b) = {p}
    /\ \A b \in Buffers \ live : Owners(b) = {}
    /\ main.pc = "closed" => live = {}

\* Every request ends with all the images it asked for in the queues of the
\* savers, unless it is lost: the capturer never waits for ever for room or for
\* a present, and no group that was begun is stuck or swallows the requests it
\* keeps waiting.  A request is lost in exactly these cases: its files cannot
\* be numbered, as the directory cannot be made; the capturer is closed; or it
\* is a group, and a present comes before the end of a frame has captured it
\* (CapturePostRenderImage clears a group it has not begun).
ScreenshotsEnd ==
    \A r \in Singles \cup {"grouped"} :
        state[r] # "off" ~> state[r] = "off" /\ (owed[r] = {} \/ r \in lost)

\* Closing the capturer ends: each saver thread wakes up, saves what is queued
\* and can be joined.
CloseEnds == main.pc = "stop" ~> main.pc \in {"closed", "idle"}
=============================================================================
