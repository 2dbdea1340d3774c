----------------------------- MODULE TlsEvent ------------------------------
(***************************************************************************)
(* The event of com/tls_event.c: a flag, and a pipe that holds a message   *)
(* while the flag is up; waiting is a select on the pipe, so that it does  *)
(* not consume the message unless the event resets itself.                 *)
(***************************************************************************)
EXTENDS Naturals

(* tls_event_set, tls_event_reset: the flag decides whether to write, or   *)
(* to read, the message.                                                   *)
Set(e)   == IF e.state THEN e ELSE [e EXCEPT !.state = TRUE, !.pipe = @ + 1]
Reset(e) == [e EXCEPT !.state = FALSE, !.pipe = IF e.state THEN @ - 1 ELSE @]

(* tls_event_initialize does not write the flags; it takes a flag that is  *)
(* up for an order to set the event.  So an event in memory that was not   *)
(* cleared is any of these.                                                *)
Fresh(state, auto)   == LET e == [state |-> FALSE, pipe |-> 0, auto |-> auto]
                        IN  IF state THEN Set(e) ELSE e
Uninitialised        == {Fresh(s, a) : s, a \in BOOLEAN}
Cleared              == Fresh(FALSE, FALSE)

(* The two ends of tls_event_wait and tls_event_timewait.                  *)
Signalled(e) == e.pipe > 0
Waited(e)    == IF e.auto THEN Reset(e) ELSE e
=============================================================================
