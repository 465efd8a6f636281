----------------------------- MODULE MCScheduler -----------------------------
(* Instances of Scheduler: an effect and a reader that can be nested in   *)
(* it, of a type of core 0 (PreviewModule) or of core 1 (ArtnetOutModule), *)
(* and a slow hook on a clock that wraps after a few milliseconds.         *)
EXTENDS Scheduler

MCType == {"ripples", "preview", "artnet-out"}
MCName == MCType \cup {"effect", "driver", "source"}
MCCategoryOf ==
  [t \in MCType |-> IF t = "artnet-out" THEN "driver" ELSE "effect"]
MCInputsOf == [t \in MCType |-> IF t = "ripples" THEN {} ELSE {"source"}]
MCDefaultLink == [n \in MCName |-> NoId]
MCCoreOf == [t \in MCType |-> IF t = "artnet-out" THEN 1 ELSE 0]
(* The reader is of either type. *)
MCAddRequest ==
  {<<"ripples", "ripples-0">>, <<"preview", "reader-0">>, <<"artnet-out", "reader-0">>}

OneHook == <<"loop20ms">>
MCPeriod == [k \in Slow |-> 1]
MCStored == [m \in Id |-> m]
=============================================================================
