--------------------------- MODULE MCInputReplay ----------------------------
(* Requests short enough to be replayed several times against each other.  *)
EXTENDS InputReplay

Key(form, v, frame) == [kind |-> "key", form |-> form, v |-> v, frame |-> frame]
Mouse(form, v, frame) == [kind |-> "mouse", form |-> form, v |-> v, frame |-> frame]

\* One character with shift: four keys at once.
MCTexts == {<<TRUE>>}

\* Times that go back, delays after times, no timing at all.
TimedRequests ==
    { <<>>,
      << Key("t", 2, NoFrame), Mouse("t", 1, NoFrame), Key("delay", 2, NoFrame), Key("none", 0, NoFrame) >> }

\* As recordings are, with one event whose frame was taken out: the first event
\* comes some time after the start, or at the very start.
RecordedRequests ==
    { << Key("t", 3, 2), Mouse("t", 3, NoFrame), Key("t", 4, 2), Key("t", 6, 5) >>,
      << Key("t", 0, 0), Mouse("t", 4, 2), Key("t", 6, 4) >> }

MCRequests == TimedRequests \cup RecordedRequests
=============================================================================
