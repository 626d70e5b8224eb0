---------------------------- MODULE StreamCapture ---------------------------
(***************************************************************************)
(* Recording of video, audio and MIDI to files: the state machines of      *)
(* capture/capture.cpp, the AVI writer (capture/capture_video.cpp), the    *)
(* WAV and MIDI writers, and the web server's capture commands             *)
(* (webserver/capture.cpp), which the bridge runs on the main thread like  *)
(* everything else here.                                                   *)
(*                                                                         *)
(* Files fail: they may not be created, a write may come up short, the     *)
(* closing flush may fail, the disk may run low.  An operation on the AVI  *)
(* file is therefore an operator from the writer's record to the set of    *)
(* records it may leave.                                                   *)
(***************************************************************************)
EXTENDS Naturals

CONSTANTS
    Formats,       \* frame size, pixel format and rate, as one value
    Levels,        \* compression levels
    MaxPadding,    \* two seconds' worth of frames
    MaxFrames      \* bound on the frames emulated

ASSUME StreamAssumption == MaxPadding \in Nat \ {0} /\ MaxFrames \in Nat \ {0}

Modes == {"raw", "rendered"}
NoFormat == "none"

VARIABLES
    video,                \* the video recording, see Init
    levels,               \* compression_levels
    rendered_frame_count, \* frames emulated so far
    audio, midi           \* the other recordings: state and file handle

vars == <<video, levels, rendered_frame_count, audio, midi>>

NoStream == [state |-> "off", handle |-> "none"]

\* The fields from opened on are ghosts about the capture.  Whether it has
\* opened a file; from then on whether bytes of it are lost, whether the disk
\* was low, and whether another file followed one with lost bytes.  Then the
\* frames written and the count at the first one in rendered mode (0 before
\* it), kept until frames are left out on purpose or written before any frame
\* was emulated: uneven.
Init ==
    /\ video = [state |-> "off", mode |-> "raw", last |-> 0, handle |-> "none",
                format |-> NoFormat, level |-> 0, write_error |-> FALSE,
                end_reason |-> "none", opened |-> FALSE, lost |-> FALSE,
                low |-> FALSE, forgotten |-> FALSE,
                frames |-> 0, first |-> 0, uneven |-> FALSE]
    /\ levels \in [Modes -> Levels]
    /\ rendered_frame_count = 0
    /\ audio = NoStream /\ midi = NoStream

-----------------------------------------------------------------------------
(* The AVI file.                                                           *)

ForgetErrors(v) == [v EXCEPT !.end_reason = IF @ = "none" THEN "clean" ELSE @]  \* mutant

\* How the capture ended, unless the frame path has decided that already.
Classified(v) ==
    [v EXCEPT !.end_reason = IF @ # "none" THEN @
                             ELSE IF v.write_error THEN "write_error" ELSE "clean"]

\* capture_video_finalise: index, header and closing flush may fail.
Finalised(v) ==
    IF v.handle = "none" THEN {v}
    ELSE {Classified([v EXCEPT !.handle = "none", !.write_error = @ \/ fails,
                               !.lost = @ \/ fails]) : fails \in BOOLEAN}

CAPTURE_StopVideoCapture(v) ==
    CASE v.state = "off" -> {v}
      [] v.state = "pending" -> {[v EXCEPT !.state = "off"]}
      [] v.state = "inprogress" -> {[w EXCEPT !.state = "off"] : w \in Finalised(v)}

\* The ghosts tell of the capture that had a file last, until the next one has
\* its first.
OfThisCapture(v) ==
    IF v.opened THEN v ELSE [v EXCEPT !.lost = FALSE, !.low = FALSE, !.forgotten = FALSE]

\* create_avi_file: no file; a codec that cannot be set up, which leaves the
\* file open with the format of the file before; a header that cannot be
\* written; or a file.
Created(v, format) ==
    LET u == OfThisCapture(v)
        clean == [u EXCEPT !.handle = "open", !.write_error = FALSE, !.end_reason = "none",
                           !.level = levels[v.mode], !.opened = TRUE, !.forgotten = @ \/ u.lost]
        failed == [u EXCEPT !.end_reason = "write_error", !.lost = TRUE]
    IN  {failed,
         clean,
         [failed EXCEPT !.write_error = TRUE, !.format = format, !.level = clean.level],
         [clean EXCEPT !.format = format]}

Counted(v) == IF v.uneven THEN v ELSE [v EXCEPT !.frames = @ + 1]

\* A frame that is added to an open file: the codec refuses it, it is written
\* (with the audio buffered so far), the write fails, or it is written and
\* the disk is found to be low.
FrameWritten(v) ==
    {[v EXCEPT !.uneven = TRUE], Counted(v)}
    \cup CAPTURE_StopVideoCapture([v EXCEPT !.write_error = TRUE, !.lost = TRUE,
                                            !.end_reason = "write_error"])
    \cup CAPTURE_StopVideoCapture([Counted(v) EXCEPT !.low = TRUE,
                                                     !.end_reason = "disk_space_low"])

\* capture_video_add_frame: a new format ends the file and begins another.
AddFrame(v, format) ==
    LET kept == IF v.handle = "open" /\ v.format # format THEN Finalised(v) ELSE {v}
        opened == UNION {IF w.handle = "none" THEN Created(w, format) ELSE {w} : w \in kept}
    IN  UNION {IF w.handle = "none" THEN CAPTURE_StopVideoCapture(w)
                                    ELSE FrameWritten(w) : w \in opened}

-----------------------------------------------------------------------------
(* Frames.                                                                 *)

Begun(state) == IF state = "pending" THEN "inprogress" ELSE state

RawFrame(v, format) ==
    IF v.mode = "rendered" \/ v.state = "off" THEN {v}
    ELSE AddFrame([v EXCEPT !.state = Begun(@)], format)

\* RENDER_EndUpdate: the frame is captured before it is counted.
FrameEnds ==
    /\ rendered_frame_count < MaxFrames
    /\ \E format \in Formats : video' \in RawFrame(video, format)
    /\ rendered_frame_count' = rendered_frame_count + 1
    /\ UNCHANGED <<levels, audio, midi>>

OnlyThisOne(v) == IF v.last = 0 \/ rendered_frame_count > v.last THEN 1 ELSE 0  \* mutant

\* Presents repeat an emulated frame, or come after several.
FramesToWrite(v) ==
    IF v.last = 0 THEN 1
    ELSE IF rendered_frame_count > v.last THEN rendered_frame_count - v.last ELSE 0

FrameRegardless(v, format) == AddFrame(v, format)       \* mutant

\* One turn of the loop that writes a presented frame and its duplicates.
FrameUnlessEnded(v, format) == IF v.state = "off" THEN {v} ELSE AddFrame(v, format)

\* The writer after n turns.
AfterTurns(v, format, n) ==
    LET after[k \in 0..n] == IF k = 0 THEN {v}
                             ELSE UNION {FrameUnlessEnded(w, format) : w \in after[k - 1]}
    IN  after[n]

CAPTURE_AddRenderedVideoFrame(v, format) ==
    LET wanted == FramesToWrite(v)
        n == IF wanted > MaxPadding THEN 1 ELSE wanted
        begun == [v EXCEPT !.state = Begun(@)]
        start == [begun EXCEPT !.last = rendered_frame_count,
                               !.first = IF v.frames = 0 THEN rendered_frame_count ELSE @,
                               !.uneven = @ \/ n # wanted \/ rendered_frame_count = 0]
    IN  IF n = 0 THEN {begun} ELSE AfterTurns(start, format, n)

\* GFX_CaptureRenderedImage, from a present.
Present ==
    /\ video.state # "off" /\ video.mode = "rendered"
    /\ \E format \in Formats : video' \in CAPTURE_AddRenderedVideoFrame(video, format)
    /\ UNCHANGED <<levels, rendered_frame_count, audio, midi>>

-----------------------------------------------------------------------------
(* Starting and stopping video, by hotkey (raw mode) or web server.        *)

CAPTURE_StartVideoCapture(mode) ==
    /\ video.state = "off"
    /\ video' = [video EXCEPT !.mode = mode, !.last = 0, !.state = "pending",
                             !.opened = FALSE, !.first = 0, !.frames = 0, !.uneven = FALSE]
    /\ UNCHANGED <<levels, rendered_frame_count, audio, midi>>

StopVideo ==
    /\ video.state # "off"
    /\ video' \in CAPTURE_StopVideoCapture(video)
    /\ UNCHANGED <<levels, rendered_frame_count, audio, midi>>

\* CaptureCompressionSetCommand refuses while a capture is running.
SetCompression ==
    /\ video.state = "off"
    /\ levels' \in [Modes -> Levels]
    /\ UNCHANGED <<video, rendered_frame_count, audio, midi>>

-----------------------------------------------------------------------------
(* Audio and MIDI.                                                         *)

\* The writers create their file with the first data, and try again with the
\* next data when that fails.
DataAdded(stream) ==
    IF stream.state = "off" THEN {stream}
    ELSE {[state |-> "inprogress", handle |-> h] :
              h \in IF stream.handle = "open" THEN {"open"} ELSE {"none", "open"}}

\* A tick's audio: to the video file, which only starts with a frame, and to
\* the WAV file.
CAPTURE_AddAudioData ==
    /\ video.state # "off" \/ audio.state # "off"
    /\ video' = [video EXCEPT !.state = Begun(@)]
    /\ audio' \in DataAdded(audio)
    /\ UNCHANGED <<levels, rendered_frame_count, midi>>

CAPTURE_AddMidiData ==
    /\ midi.state # "off"
    /\ midi' \in DataAdded(midi)
    /\ UNCHANGED <<video, levels, rendered_frame_count, audio>>

StartAudio ==
    /\ audio.state = "off"
    /\ audio' = [audio EXCEPT !.state = "pending"]
    /\ UNCHANGED <<video, levels, rendered_frame_count, midi>>

\* A pending capture has no file to finalise.
StreamStopped(stream) ==
    IF stream.state = "inprogress" THEN NoStream ELSE [stream EXCEPT !.state = "off"]

StopAudio ==
    /\ audio.state # "off"
    /\ audio' = StreamStopped(audio)
    /\ UNCHANGED <<video, levels, rendered_frame_count, midi>>

handle_capture_midi_event ==
    /\ midi' = IF midi.state = "off" THEN [midi EXCEPT !.state = "pending"]
                                     ELSE StreamStopped(midi)
    /\ UNCHANGED <<video, levels, rendered_frame_count, audio>>

-----------------------------------------------------------------------------

\* A changed setting ends what is in progress and takes over the new levels.
notify_capture_setting_updated ==
    /\ video' \in {[v EXCEPT !.state = "off", !.mode = "raw", !.last = 0] :
                      v \in IF video.state = "inprogress" THEN Finalised(video) ELSE {video}}
    /\ audio' = StreamStopped(audio) /\ midi' = StreamStopped(midi)
    /\ levels' \in [Modes -> Levels]
    /\ UNCHANGED rendered_frame_count

Next ==
    \/ FrameEnds \/ Present
    \/ \E mode \in Modes : CAPTURE_StartVideoCapture(mode)
    \/ StopVideo \/ SetCompression
    \/ CAPTURE_AddAudioData \/ CAPTURE_AddMidiData
    \/ StartAudio \/ StopAudio \/ handle_capture_midi_event
    \/ notify_capture_setting_updated

Spec == Init /\ [][Next]_vars

-----------------------------------------------------------------------------
(* Properties.                                                             *)

States == {"off", "pending", "inprogress"}
Handles == {"none", "open"}
Reasons == {"none", "clean", "write_error", "disk_space_low"}

TypeOK ==
    /\ video \in [state : States, mode : Modes, last : 0..MaxFrames, handle : Handles,
                  format : Formats \cup {NoFormat}, level : Levels \cup {0},
                  write_error : BOOLEAN, end_reason : Reasons, opened : BOOLEAN,
                  lost : BOOLEAN, low : BOOLEAN, forgotten : BOOLEAN,
                  frames : Nat, first : 0..MaxFrames, uneven : BOOLEAN]
    /\ levels \in [Modes -> Levels]
    /\ rendered_frame_count \in 0..MaxFrames
    /\ audio \in [state : States, handle : Handles]
    /\ midi \in [state : States, handle : Handles]

\* A file is open only while its capture is in progress: whichever step fails
\* (creation, a write in the middle of the duplicates of one present, the disk
\* running low), no file is left open behind a capture that says it is off,
\* and none is open before its capture has begun.  An AVI file that is open
\* has the level that is set, so a level that is accepted applies.
FilesMatchStates ==
    /\ \A s \in {video, audio, midi} : s.handle = "open" => s.state = "inprogress"
    /\ video.handle = "open" => video.level = levels[video.mode]

\* The reason the status reports is the truth about the last capture that had
\* a file or failed to make one: clean only if the disk was not low and
\* nothing is lost, an error only if something is, low space only if it was;
\* what is lost is reported as an error, and while a file is written no reason
\* is reported.  Two exceptions, against capture.h (82-84): what the closing of
\* a file loses once the disk was found low is reported as low space, and what
\* a file lost that a change of format ended is forgotten with the next file.
EndReasonTrue ==
    /\ video.end_reason = "clean" => ~video.low /\ (~video.lost \/ video.forgotten)
    /\ video.end_reason = "write_error" => video.lost
    /\ video.end_reason = "disk_space_low" => video.low
    /\ video.lost /\ video.handle = "none"
           => video.end_reason = "write_error" \/ video.low \/ video.forgotten
    /\ video.handle = "open" => video.end_reason = "none"

\* In rendered mode the recording keeps the emulation's time: as many frames
\* are written as were emulated since the first, however often the window was
\* presented in between, unless frames were left out on purpose.  The exception
\* is a recording that began before any frame was emulated: the count 0 also
\* stands for "none yet", so that every present until the next frame adds one.
InSyncWithEmulation ==
    /\ video.state = "inprogress" /\ video.mode = "rendered"
    /\ video.frames > 0 /\ ~video.uneven
    => video.frames = video.last - video.first + 1
=============================================================================
