------------------------------- MODULE MCEds -------------------------------
(***************************************************************************)
(* Instance of Eds for TLC.                                                *)
(***************************************************************************)
EXTENDS Eds

\* The transitions of the repository's services: none (a NULL eds_transition),
\* a callback when written (fc2), a reader alone (stored's enter response) and
\* both callbacks (stored's list).
MCTransitions ==
  {[r |-> "null", w |-> "null"], [r |-> "keep", w |-> "cb"],
   [r |-> "cb", w |-> "null"], [r |-> "cb", w |-> "cb"]}

\* What a client structure holds beyond its flags is not read once the client
\* is removed, and its transition only while a send is in progress.
Sending(f) ==
  f \in inuse /\ (onw[f] = "send" \/ Frame("sendw", f) \in {stack[n] : n \in DOMAIN stack})
LiveView ==
  <<inuse, removed, susp \cap inuse, ext \ (removed \ Finishing), onr \cap inuse,
    [f \in Fds |-> IF f \in inuse THEN onw[f] ELSE "none"],
    [f \in Fds |-> IF Sending(f) THEN trans[f] ELSE NoTransition],
    {f \in unsent : Sending(f)},
    ticker, ntickers, rfds, wfds, cmd, open, rsel, wsel, num, at, pc, stack, ops>>
============================================================================
