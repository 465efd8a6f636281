---------------------------- MODULE MCModuleTree ----------------------------
(* Instances of ModuleTree with module types and ids of the shipped        *)
(* reference setup: layouts, an effect nested by exact type or category,   *)
(* and readers nested by the "source" wildcard.                            *)
EXTENDS ModuleTree

MCType == {"layout", "ring-layout", "ripples", "preview", "artnet-out"}

MCName == MCType \cup {"effect", "driver", "source"}

MCCategoryOf ==
  [t \in MCType |-> CASE t \in {"layout", "ring-layout"} -> "layout"
                     [] t \in {"ripples", "preview"} -> "effect"
                     [] t = "artnet-out" -> "driver"]

MCInputsOf ==
  [t \in MCType |-> CASE t \in {"layout", "ring-layout"} -> {}
                     [] t = "ripples" -> {"layout"}
                     [] t \in {"preview", "artnet-out"} -> {"source"}]

MCDefaultLink ==
  [n \in MCName |-> CASE n = "layout" -> "layout-0"
                     [] n = "source" -> "ripples-0"
                     [] OTHER -> NoId]

(* Two layouts, an effect and two readers: the web UI's instance. *)
UiId == {"layout-0", "ring-0", "ripples-0", "preview-0", "artnet-0"}

UiAddRequest ==
  {<<"layout", "layout-0">>, <<"ring-layout", "ring-0">>, <<"ripples", "ripples-0">>,
   <<"preview", "preview-0">>, <<"artnet-out", "artnet-0">>}

(* One layout, an effect and two readers that accept each other: any       *)
(* REST request.                                                           *)
ApiId == {"layout-0", "ripples-0", "preview-0", "artnet-0"}

ApiAddRequest == {r \in UiAddRequest : r[2] \in ApiId}

(* Full, partial, partly unknown order requests, and requests that repeat *)
(* a child, up to the length ShortLists allows in the API instance.        *)
MCOrderRequest ==
  {<<"artnet-0", "preview-0">>, <<"preview-0">>, <<"artnet-0", "artnet-0">>,
   <<"layout-0", "preview-0", "ripples-0">>,
   <<"artnet-0", "artnet-0", "artnet-0", "artnet-0">>}

MCInputValue == {"layout-0"}

(* The id of a reader stands for one too long for an input's buffer. *)
MCStored == [m \in Id |-> IF m = "artnet-0" THEN NoId ELSE m]
=============================================================================
