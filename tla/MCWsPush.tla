------------------------------ MODULE MCWsPush ------------------------------
(* Instance of WsPush: two effects, which can be nested in a layout in two *)
(* orders, and a second layout that can be added.                          *)
EXTENDS WsPush

MCType == {"layout", "ripples"}
MCName == MCType \cup {"effect", "source"}
MCCategoryOf == [t \in MCType |-> IF t = "ripples" THEN "effect" ELSE "layout"]
MCInputsOf == [t \in MCType |-> IF t = "ripples" THEN {"layout"} ELSE {}]
MCDefaultLink == [n \in MCName |-> NoId]
MCAtBoot == <<<<"layout", "layout-0">>, <<"ripples", "ripples-0">>, <<"ripples", "ripples-1">>>>
MCAddRequest == {<<"layout", "layout-1">>}
MCOrderRequest == {<<"ripples-1">>}
MCStored == [m \in Id |-> m]
=============================================================================
