---------------------------- MODULE MCStreamReader ----------------------------
(* Small instances of StreamReader for TLC. *)
EXTENDS StreamReader

TwoIndexes == {0, 1}

NoDeltas == [i \in {} |-> "open"]

IsEmptyCall(event) ==
  event = [text |-> FALSE, deltas |-> [i \in {0} |-> "empty"], finish |-> "none"]

\* Plain text; a fragment of one call, or of two that both begin or both end,
\* with every finish reason; and a call that begins without arguments.  An event
\* with text besides is sent like one with a finish reason.
ToolEvents ==
  {event \in AnyEvent :
     /\ event.text => event.deltas = NoDeltas /\ event.finish = "none"
     /\ \A i, j \in DOMAIN event.deltas : event.deltas[i] = event.deltas[j]
     /\ \A i \in DOMAIN event.deltas :
          event.deltas[i] = "empty" => IsEmptyCall(event)}

\* As few events as the ends of a stream need.
EndEvents ==
  {event \in AnyEvent : /\ DOMAIN event.deltas \subseteq {0}
                        /\ \A i \in DOMAIN event.deltas : event.deltas[i] # "empty"
                        /\ event.text => event.finish = "none"}
===============================================================================
