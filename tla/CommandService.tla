--------------------------- MODULE CommandService ---------------------------
(***************************************************************************)
(* What the webserver bridge promises its HTTP handlers, without threads,  *)
(* locks or condition variables.                                           *)
(*                                                                         *)
(* A caller submits a command and waits.  The service performs pending     *)
(* commands one at a time in submission order.  A caller is told "ok" only *)
(* after its command was performed, and "timeout" only if its command was  *)
(* not performed; a timed out command is withdrawn, so it will never be    *)
(* performed later and the client may safely retry.                        *)
(***************************************************************************)
EXTENDS Sequences, SequencesExt

CONSTANT Callers

VARIABLES
    pending,    \* the submitted commands not performed yet, oldest first
    status      \* status[c]: where the call of c stands

svars == <<pending, status>>

Statuses == {"none", "submitted", "performed", "ok", "timeout"}

SInit ==
    /\ pending = <<>>
    /\ status = [c \in Callers |-> "none"]

Submit(c) ==
    /\ status[c] = "none"
    /\ pending' = Append(pending, c)
    /\ status' = [status EXCEPT ![c] = "submitted"]

Perform ==
    /\ pending # <<>>
    /\ status[Head(pending)] = "submitted"
    /\ status' = [status EXCEPT ![Head(pending)] = "performed"]
    /\ pending' = Tail(pending)

AnswerOk(c) ==
    /\ status[c] = "performed"
    /\ status' = [status EXCEPT ![c] = "ok"]
    /\ UNCHANGED pending

AnswerTimeout(c) ==
    /\ status[c] = "submitted"
    /\ pending' = RemoveFirst(pending, c)
    /\ status' = [status EXCEPT ![c] = "timeout"]

\* The caller has used the answer; the command object is gone.
Forget(c) ==
    /\ status[c] \in {"ok", "timeout"}
    /\ status' = [status EXCEPT ![c] = "none"]
    /\ UNCHANGED pending

SNext ==
    \/ Perform
    \/ \E c \in Callers :
        Submit(c) \/ AnswerOk(c) \/ AnswerTimeout(c) \/ Forget(c)

SSpec == SInit /\ [][SNext]_svars
=============================================================================
