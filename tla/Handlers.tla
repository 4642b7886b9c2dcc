------------------------------ MODULE Handlers ------------------------------
(***************************************************************************)
(* What every modem driver does with its context: the handlers are pure    *)
(* operators from the context a handler finds to the one it leaves behind. *)
(* "out" collects what a handler sends and "ack" what it tells             *)
(* Measurements.  A handler that runs the main loop                        *)
(* (osm_main_loop_iterate_for drains the modem's UART) has lines handled   *)
(* inside it: "nest" is the stack of handlers that have not returned, and  *)
(* a handler that sleeps pushes the rest of itself.                        *)
(***************************************************************************)
EXTENDS Naturals, Sequences

None == "none"

Sleep(c, rest) == [c EXCEPT !.nest = Append(@, rest)]
Return(c) == [c EXCEPT !.nest = SubSeq(@, 1, Len(@) - 1)]
Innermost(c) == c.nest[Len(c.nest)]

\* osm_on_protocol_sent_ack, as a driver calls it.
SentAck(c, ok) == [c EXCEPT !.ack = IF ok THEN "ack" ELSE "nack"]
=============================================================================
