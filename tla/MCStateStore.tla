---------------------------- MODULE MCStateStore ----------------------------
(* Instance of StateStore: one head module, the store itself, a layout, an *)
(* effect and a preview.                                                   *)
EXTENDS StateStore

MCType == {"system", "state-store", "layout", "ripples", "preview"}
MCName == MCType \cup {"effect", "source"}
MCCategoryOf ==
  [t \in MCType |-> CASE t \in {"system", "state-store"} -> "system"
                     [] t = "layout" -> "layout"
                     [] OTHER -> "effect"]
MCInputsOf ==
  [t \in MCType |-> CASE t = "ripples" -> {"layout"}
                     [] t = "preview" -> {"source"}
                     [] OTHER -> {}]
MCDefaultLink ==
  [n \in MCName |-> CASE n = "layout" -> "layout-0"
                     [] n = "source" -> "ripples-0"
                     [] OTHER -> NoId]

MCId == {"system-0", "state-store-0", "layout-0", "ripples-0", "preview-0"}
MCHead == <<<<"system", "system-0">>>>
MCAddRequest == {<<"layout", "layout-0">>, <<"ripples", "ripples-0">>, <<"preview", "preview-0">>}

(* Nothing; a layout with an effect and a preview in it; and a layout with *)
(* an effect that holds the preview.                                       *)
Entry(t, id, p) == [type |-> t, id |-> id, parent |-> p]
MCSavedBefore ==
  {<<>>,
   <<Entry("system", "system-0", NoId), Entry("layout", "layout-0", NoId),
     Entry("ripples", "ripples-0", "layout-0"), Entry("preview", "preview-0", "layout-0")>>,
   <<Entry("system", "system-0", NoId), Entry("layout", "layout-0", NoId),
     Entry("ripples", "ripples-0", "layout-0"), Entry("preview", "preview-0", "ripples-0")>>}

MCOrderRequest == {<<"preview-0">>}
MCStored == [m \in Id |-> m]
=============================================================================
