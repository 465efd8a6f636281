----------------------------- MODULE ModuleTree -----------------------------
(***************************************************************************)
(* ModuleManager and the child lists of MoonModule: the forest of live     *)
(* modules, the flat vector modules_ the Scheduler walks, and the inputs   *)
(* whose flagged value names a module's parent.                            *)
(*                                                                         *)
(* Every operation runs under ModuleManager's recursive mutex, so each is  *)
(* one action.  A module is named by its id: the HTTP layer answers 409 to *)
(* an id that exists, so live ids are unique.  A parent_ pointer to a      *)
(* destroyed module is the value Freed.  The modelled program ends         *)
(* (crashed) where one is followed, where addChild writes past children_,  *)
(* and where reorder has left a module twice in one.                       *)
(***************************************************************************)
EXTENDS Naturals, Sequences, FiniteSets, Functions

CONSTANTS
  Id,           \* module ids
  Type,         \* factory type names ("layout", "ripples", "preview", ...)
  Name,         \* names an input can have: types, categories, Source, others
  CategoryOf,   \* category() of a type
  InputsOf,     \* names of the text inputs a type registers
  DefaultLink,  \* what an input holds when its module is constructed
  Source,       \* the wildcard input name
  AddRequest,   \* <<type, id>> pairs clients POST to /api/modules
  OrderRequest, \* "ids" lists clients POST to /api/modules/reorder
  InputValue,   \* values clients write to a text input
  Stored,       \* what the buffer of an input keeps of an id
  ChildWrap,    \* values of the uint8_t that counts children
  MaxChildren,  \* children_ at its largest: 4 more wrap childCapacity_ to 0
  NoId, NoType, NoInput, Freed

ASSUME TreeAssumption ==
  /\ IsFiniteSet(Id)
  /\ NoId \notin Id /\ Freed \notin Id /\ Freed # NoId
  /\ NoType \notin Type
  /\ Type \subseteq Name /\ Source \in Name /\ NoInput \notin Name
  /\ CategoryOf \in [Type -> Name]
  /\ InputsOf \in [Type -> SUBSET Name]
  /\ DefaultLink \in [Name -> Id \cup {NoId}]
  /\ AddRequest \subseteq Type \X Id
  /\ OrderRequest \subseteq Seq(Id)
  /\ InputValue \subseteq Id \cup {NoId}
  /\ Stored \in [Id -> Id \cup {NoId}]
  /\ ChildWrap \in Nat /\ MaxChildren \in Nat
  /\ 0 < MaxChildren /\ MaxChildren < ChildWrap

VARIABLES
  modules,   \* modules_: the ids in vector order
  kind,      \* type of a live module, NoType when there is no such module
  parent,    \* parent_
  children,  \* children_[0 .. childCount_ - 1]
  link,      \* value of each text input
  flag,      \* parentControlIdx_, as the name of the flagged input
  crashed    \* freed memory was followed, or a child list broken

vars == <<modules, kind, parent, children, link, flag, crashed>>
tree == <<modules, kind, parent, children, link, flag>>

Live == {m \in Id : kind[m] # NoType}
Roots == {m \in Live : parent[m] = NoId}
Kids(m) == {children[m][i] : i \in DOMAIN children[m]}

(* Mutants: the nested modules, or those nested in them, are forgotten. *)
SubtreeItselfOnly(m) == {m}
SubtreeOneLevel(m) == {m} \cup Kids(m)

(* The module and everything nested in it: the smallest set that holds m   *)
(* and is closed under children_.                                          *)
Subtree(m) ==
  {x \in Id : \A S \in SUBSET Id :
                (m \in S /\ \A y \in S : Kids(y) \subseteq S) => x \in S}

-----------------------------------------------------------------------------
(* MoonModule::removeChild: close the gap the child leaves. *)
Without(s, c) ==
  IF \E i \in DOMAIN s : s[i] = c
  THEN LET k == CHOOSE i \in DOMAIN s : s[i] = c
       IN [j \in 1 .. Len(s) - 1 |-> IF j < k THEN s[j] ELSE s[j + 1]]
  ELSE s

(* Mutant: m stays in the list. *)
NotDetached(m) == children

(* Child lists once m has left its parent's. *)
Detached(m) ==
  IF parent[m] \in Live
  THEN [children EXCEPT ![parent[m]] = Without(@, m)]
  ELSE children

(* s without the elements outside S, in their order: std::remove.  A       *)
(* recursive function, since the provers know nothing about SelectSeq.     *)
Keep(s, S) ==
  LET kept[i \in 0 .. Len(s)] ==
        IF i = 0 THEN <<>>
        ELSE IF s[i] \in S THEN Append(kept[i - 1], s[i])
        ELSE kept[i - 1]
  IN kept[Len(s)]

(* A call of dfs_: the node moves to out, its children are called next.    *)
(* (The one value of the step at w: so written, TLC evaluates w once.)     *)
Visit(w, kids) ==
  LET step(v) == IF v.todo = <<>> THEN v
                 ELSE [out  |-> Append(v.out, Head(v.todo)),
                       todo |-> kids[Head(v.todo)] \o Tail(v.todo)]
  IN CHOOSE x \in {step(v) : v \in {w}} : TRUE

(* dfs_ from each root in vector order: the modules in pre-order.  todo is *)
(* the recursion's stack, the nodes it has still to enter.                 *)
PreOrder(order, par, kids) ==
  LET walk[n \in 0 .. Cardinality(Id)] ==
        IF n = 0 THEN [out |-> <<>>, todo |-> Keep(order, {m \in Id : par[m] = NoId})]
        ELSE Visit(walk[n - 1], kids)
  IN walk[Cardinality(Id)].out

(* Mutants: what no root reaches is lost; the vector is left as it is; the *)
(* roots are collected back to front.                                      *)
SortLosesUnreached(order, par, kids) == PreOrder(order, par, kids)
SortDoesNothing(order, par, kids) == order
SortFromTheBack(order, par, kids) ==
  LET back == [i \in DOMAIN order |-> order[Len(order) + 1 - i]]
      out == PreOrder(back, par, kids)
  IN out \o Keep(order, Id \ Range(out))

(* sort_depth_first_: pre-order, then whatever no root reaches, in the     *)
(* order it had.                                                           *)
SortDepthFirst(order, par, kids) ==
  LET out == PreOrder(order, par, kids)
  IN out \o Keep(order, Id \ Range(out))

(* parent_input_idx_: exact type, then category, then the wildcard. *)
ParentInput(m, p) ==
  LET inputs == InputsOf[kind[m]]
  IN IF kind[p] \in inputs THEN kind[p]
     ELSE IF CategoryOf[kind[p]] \in inputs THEN CategoryOf[kind[p]]
     ELSE IF Source \in inputs THEN Source
     ELSE NoInput

(* Mutant: a destroyed module keeps its freed type. *)
DestroyLeavesFreedType(dead, kids) ==
  /\ kind' = [x \in Id |-> IF x \in dead THEN Freed ELSE kind[x]]
  /\ parent' = [x \in Id |-> IF x \in dead THEN NoId
                             ELSE IF parent[x] \in dead THEN Freed
                             ELSE parent[x]]
  /\ children' = [x \in Id |-> IF x \in dead THEN <<>> ELSE kids[x]]
  /\ link' = [x \in Id |-> IF x \in dead THEN DefaultLink ELSE link[x]]
  /\ flag' = [x \in Id |-> IF x \in dead THEN NoInput ELSE flag[x]]

(* The modules in dead leave modules_ and are destroyed; the parent_ of a  *)
(* module that outlives its parent is left pointing at freed memory.       *)
Destroy(dead, kids) ==
  /\ kind' = [x \in Id |-> IF x \in dead THEN NoType ELSE kind[x]]
  /\ parent' = [x \in Id |-> IF x \in dead THEN NoId
                             ELSE IF parent[x] \in dead THEN Freed
                             ELSE parent[x]]
  /\ children' = [x \in Id |-> IF x \in dead THEN <<>> ELSE kids[x]]
  /\ link' = [x \in Id |-> IF x \in dead THEN DefaultLink ELSE link[x]]
  /\ flag' = [x \in Id |-> IF x \in dead THEN NoInput ELSE flag[x]]

(* m->parent_->removeChild(m) with m's parent_ dangling, or addChild with  *)
(* no room: memory that is not the program's is read or written.           *)
Crash ==
  /\ crashed' = TRUE
  /\ UNCHANGED tree

-----------------------------------------------------------------------------
Init ==
  /\ modules = <<>>
  /\ kind = [m \in Id |-> NoType]
  /\ parent = [m \in Id |-> NoId]
  /\ children = [m \in Id |-> <<>>]
  /\ link = [m \in Id |-> DefaultLink]
  /\ flag = [m \in Id |-> NoInput]
  /\ crashed = FALSE

(* POST /api/modules, whose handler refuses an id that exists, then        *)
(* ModuleManager::add: the new module is a root at the end of the vector.  *)
AddModule(t, m) ==
  /\ ~crashed
  /\ m \notin Live
  /\ modules' = Append(modules, m)
  /\ kind' = [kind EXCEPT ![m] = t]
  /\ UNCHANGED <<parent, children, link, flag, crashed>>

(* ModuleManager::remove: detach, tear the subtree down, destroy it. *)
RemoveModule(m) ==
  /\ ~crashed
  /\ m \in Live
  /\ \/ /\ parent[m] = Freed
        /\ Crash
     \/ /\ parent[m] # Freed
        /\ Destroy(Subtree(m), Detached(m))
        /\ modules' = Keep(modules, Id \ Subtree(m))
        /\ UNCHANGED crashed

(* addChild writes one more pointer into children_. *)
HasRoom(m, p) == parent[m] = p \/ Len(children[p]) < MaxChildren

(* ModuleManager::reparent with a new parent. *)
Reparent(m, p) ==
  /\ ~crashed
  /\ m \in Live /\ p \in Live
  /\ ParentInput(m, p) # NoInput
  /\ \/ /\ parent[m] = Freed \/ ~HasRoom(m, p)
        /\ Crash
     \/ /\ parent[m] # Freed /\ HasRoom(m, p)
        /\ link' = [link EXCEPT ![m][ParentInput(m, p)] = Stored[p]]
        /\ flag' = [flag EXCEPT ![m] = ParentInput(m, p)]
        /\ parent' = [parent EXCEPT ![m] = p]
        /\ children' = IF parent[m] = p THEN children
                       ELSE [Detached(m) EXCEPT ![p] = Append(@, m)]
        /\ modules' = SortDepthFirst(modules, parent', children')
        /\ UNCHANGED <<kind, crashed>>

(* Mutant: the flag stays. *)
PromoteKeepsFlag(m) ==
  /\ ~crashed
  /\ m \in Live /\ parent[m] # Freed
  /\ parent' = [parent EXCEPT ![m] = NoId]
  /\ children' = Detached(m)
  /\ modules' = SortDepthFirst(modules, parent', children')
  /\ UNCHANGED <<kind, link, flag, crashed>>

(* ModuleManager::reparent with an empty parent id: the flag goes, the     *)
(* input keeps its value.                                                  *)
Promote(m) ==
  /\ ~crashed
  /\ m \in Live
  /\ \/ /\ parent[m] = Freed
        /\ Crash
     \/ /\ parent[m] # Freed
        /\ flag' = [flag EXCEPT ![m] = NoInput]
        /\ parent' = [parent EXCEPT ![m] = NoId]
        /\ children' = Detached(m)
        /\ modules' = SortDepthFirst(modules, parent', children')
        /\ UNCHANGED <<kind, link, crashed>>

(* s with every element at its first place only. *)
FirstPlaces(s) ==
  LET once[i \in 0 .. Len(s)] ==
        IF i = 0 THEN <<>>
        ELSE IF s[i] \in Range(once[i - 1]) THEN once[i - 1]
        ELSE Append(once[i - 1], s[i])
  IN once[Len(s)]

(* The array of the nested branch of reorder(): the listed children, as    *)
(* often as they are listed, then the others as they were.                 *)
NewOrder(p, ids) ==
  LET listed == Keep(ids, Kids(p))
  IN listed \o Keep(children[p], Kids(p) \ Range(listed))

(* ModuleManager::reorder with a parent id.  reorderChildren compares the  *)
(* low 8 bits of the array's length with childCount_ and copies that many  *)
(* entries.  The sort moves a module the first time dfs_ meets it.  Where  *)
(* a child stands in the list twice, the model ends with that list.        *)
ReorderChildren(p, ids) ==
  LET copied == [i \in DOMAIN children[p] |-> NewOrder(p, ids)[i]]
      accepted == Len(NewOrder(p, ids)) % ChildWrap = Len(children[p])
      broken == accepted /\ \E i, j \in DOMAIN copied : i # j /\ copied[i] = copied[j]
      once == [children EXCEPT ![p] = FirstPlaces(copied)]
  IN /\ ~crashed
     /\ p \in Live
     /\ children' = IF accepted THEN [children EXCEPT ![p] = copied] ELSE children
     /\ modules' = SortDepthFirst(modules, parent, IF broken THEN once ELSE children')
     /\ crashed' = broken
     /\ UNCHANGED <<kind, parent, link, flag>>

(* Line 163 of ModuleManager.cpp: of the roots collected in request order, *)
(* the loop moves on only the empty slots; the others die with `out`.      *)
KeptRoots(roots) == Keep(roots, {NoId})

(* ModuleManager::reorder with an empty parent id.  No teardown() runs for *)
(* the roots that are destroyed.                                           *)
ReorderRoots(ids) ==
  LET listed == Keep(ids, Roots)
      roots == listed \o Keep(modules, Roots \ Range(listed))
      rest == Keep(modules, Id \ Roots)
  IN /\ ~crashed
     /\ Destroy(Roots \ Range(KeptRoots(roots)), children)
     /\ modules' = SortDepthFirst(KeptRoots(roots) \o rest, parent', children')
     /\ UNCHANGED crashed

(* PATCH /api/modules/<id> or POST /api/control on a text input. *)
SetInput(m, in, v) ==
  /\ ~crashed
  /\ m \in Live
  /\ in \in InputsOf[kind[m]]
  /\ link' = [link EXCEPT ![m][in] = v]
  /\ UNCHANGED <<modules, kind, parent, children, flag, crashed>>

-----------------------------------------------------------------------------
(* What the REST API and the web UI both do. *)
CommonNext ==
  \/ \E r \in AddRequest : AddModule(r[1], r[2])
  \/ \E m \in Id : RemoveModule(m) \/ Promote(m)
  \/ \E m \in Id, v \in InputValue : \E in \in Name : SetInput(m, in, v)

(* Any request the REST API accepts. *)
Next ==
  \/ CommonNext
  \/ \E m, p \in Id : Reparent(m, p)
  \/ \E p \in Id, ids \in OrderRequest : ReorderChildren(p, ids)
  \/ \E ids \in OrderRequest : ReorderRoots(ids)

Spec == Init /\ [][Next]_vars

(* No "ids" list is so long that, after a repetition, its length can look  *)
(* right in 8 bits.                                                        *)
ShortLists == \A ids \in OrderRequest : Len(ids) <= ChildWrap

(* Mutant: the page offers any other module as a drop target. *)
UiDropAnywhere(m, p) == m # p

(* The drops the web UI offers, made from an up-to-date page: onto the     *)
(* card or the navigation entry of a root other than the dragged module.   *)
UiDrop(m, p) == m # p /\ parent[p] = NoId

(* The page sends the cards it shows under p, each once. *)
NamesOnce(ids) == \A i, j \in DOMAIN ids : ids[i] = ids[j] => i = j

(* The web UI as far as it leaves the order of the roots alone. *)
UiNext ==
  \/ CommonNext
  \/ \E m, p \in Id : UiDrop(m, p) /\ Reparent(m, p)
  \/ \E p \in Id, ids \in OrderRequest : NamesOnce(ids) /\ ReorderChildren(p, ids)

UiSpec == Init /\ [][UiNext]_vars
-----------------------------------------------------------------------------
(* The pointers and inputs hold values the C++ types admit. *)
TreeTypeOK ==
  /\ kind \in [Id -> Type \cup {NoType}]
  /\ parent \in [Id -> Id \cup {NoId, Freed}]
  /\ children \in [Id -> Seq(Id)]
  /\ link \in [Id -> [Name -> Id \cup {NoId}]]
  /\ flag \in [Id -> Name \cup {NoInput}]
  /\ crashed \in BOOLEAN

(* Type invariant: TreeTypeOK, and the module vector is a list of ids. *)
TypeOK == TreeTypeOK /\ modules \in Seq(Id)

ListedChildrenPointBack ==
  \A p \in Live : \A i \in DOMAIN children[p] :
    children[p][i] \in Live /\ parent[children[p][i]] = p

ListedOnce ==
  \A p \in Live : \A i, j \in DOMAIN children[p] :
    children[p][i] = children[p][j] => i = j

ParentListsChild ==
  \A m \in Live : parent[m] \in Live => m \in Kids(parent[m])

ParentsKnown == \A m \in Live : parent[m] \in Live \cup {NoId, Freed}

(* Nothing of a destroyed module shows when its id is used again. *)
NewIdsAreClean ==
  \A m \in Id \ Live : children[m] = <<>> /\ parent[m] = NoId

(* children_ and parent_ say the same thing: the scheduler's recursion     *)
(* through children_ visits live modules only, each from its own parent    *)
(* and once, and no module with a live parent is missing from its list.    *)
ChildListsAgree ==
  /\ ListedChildrenPointBack
  /\ ListedOnce
  /\ ParentListsChild
  /\ ParentsKnown
  /\ NewIdsAreClean

(* sort_depth_first_, remove and both branches of reorder move unique_ptrs *)
(* between vectors: modules_ holds every live module, each once, also when *)
(* nested modules cannot be reached from a root.                           *)
VectorHoldsLive ==
  /\ Range(modules) = Live
  /\ Len(modules) = Cardinality(Live)

(* A nested module is nested through the input parent_input_idx_ gives for *)
(* its parent, and only nested modules have a flagged input.               *)
FlagFitsParent ==
  \A m \in Live :
    /\ (flag[m] = NoInput) <=> (parent[m] = NoId)
    /\ parent[m] \in Live => flag[m] = ParentInput(m, parent[m])

(* No parent_ pointer outlives the module it points to. *)
ParentsAlive == \A m \in Live : parent[m] \in Live \cup {NoId}

(* Following parent_ ends at a root: runLoop's recursion is finite and no  *)
(* module is its own ancestor.                                             *)
Acyclic == \A S \in SUBSET Live : S # {} => \E x \in S : parent[x] \notin S

(* modules_ is in depth-first order: the subtree of a module is one block  *)
(* that starts with the module, and siblings stand in children_ order.     *)
DepthFirst ==
  LET pos(m) == CHOOSE i \in DOMAIN modules : modules[i] = m
  IN /\ \A m \in Live : {pos(x) : x \in Subtree(m)}
                          = pos(m) .. pos(m) + Cardinality(Subtree(m)) - 1
     /\ \A p \in Live : \A i, j \in DOMAIN children[p] :
          i < j => pos(children[p][i]) < pos(children[p][j])

(* The modules whose parent_ chain passes through m, m included. *)
NestedIn(m) ==
  {x \in Live : \A S \in SUBSET Id :
                  (m \in S /\ \A y \in Live : parent[y] \in S => y \in S) => x \in S}

(* Modules are destroyed by whole groups only: what goes is one module and *)
(* exactly what is nested in it, nothing nested is left behind.            *)
DestroysExactlyAGroup ==
  [][Live \subseteq Live' \/ \E m \in Live : Live \ Live' = NestedIn(m)]_vars

Before(s, a, b) == \E i, j \in DOMAIN s : i < j /\ s[i] = a /\ s[j] = b

(* Nesting, promoting, deleting and sorting children leave the order of    *)
(* the other roots, which the navigation shows, as the user arranged it.   *)
RootsKeepOrder ==
  [][\A a, b \in Roots \cap Roots' :
       Before(modules, a, b) => Before(modules', a, b)]_vars

-----------------------------------------------------------------------------
(* reorder() with an empty parent id rearranges the roots and appends the  *)
(* ones not listed (ModuleManager.h): it destroys no module.               *)
RootReorderKeepsModules ==
  [][\A ids \in OrderRequest : ReorderRoots(ids) => Live \subseteq Live']_vars
=============================================================================
