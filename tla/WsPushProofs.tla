---------------------------- MODULE WsPushProofs ----------------------------
(***************************************************************************)
(* For any modules, pages, requests and lost connections: a page that has  *)
(* had every schema since its first knows the tree, is about to be told,   *)
(* or has missed one of the changes nothing flags.                         *)
(*                                                                         *)
(* OnlyKnownGaps is not inductive: NeedSchema may hold because of a new    *)
(* client alone, and that client may go.  Announced leaves that case out,  *)
(* and speaks of hidden pages too.                                         *)
(***************************************************************************)
EXTENDS WsPush, ModuleVectorProofs

Announced ==
  \A p \in steady :
    \/ ~Fits \/ heard[p] = Listing
    \/ Len(modules) # last_module_count \/ dirty # {} \/ unflagged

(* A request that changes the tree flags a module, changes the count, or   *)
(* is one of the known gaps.                                               *)
LEMMA RequestAnnounces == ASSUME Announced, Request PROVE Announced'
<1>1. steady' = steady /\ heard' = heard /\ last_module_count' = last_module_count
  BY DEF Request, pages
<1>2. CASE \E m, p \in Id : Nest(m, p)
  <2>1. dirty' # {}
    BY <1>2 DEF Nest
  <2> QED
    BY <2>1 DEF Announced
<1>3. CASE unflagged' = (unflagged \/ Len(modules') = last_module_count)
  <2>1. unflagged' \/ Len(modules') # last_module_count'
    BY <1>1, <1>3
  <2> QED
    BY <2>1 DEF Announced
<1>4. CASE unflagged' = TRUE
  BY <1>4 DEF Announced
<1> QED
  BY <1>2, <1>3, <1>4 DEF Request

(* loop1s sends what it announces, unless it does not fit. *)
LEMMA LoopAnnounces == ASSUME Announced, clients \subseteq Page, Loop1s PROVE Announced'
<1>1. /\ modules' = modules /\ parent' = parent
      /\ clients' = clients /\ hidden' = hidden
  BY DEF Loop1s, vars
<1>2. Listing' = Listing /\ Fits' = Fits
  BY <1>1 DEF Listing, Fits
<1>3. CASE NeedSchema /\ Broadcast
  <2>1. CASE Fits
    <3>1. PICK got \in SUBSET clients : Send(got)
      <4>1. /\ ~ (Len(modules) > MaxFit)
            /\ clients \in SUBSET clients
            /\ \A dropped \in SUBSET clients : clients \ dropped \in SUBSET clients
        BY <2>1, WsAssumption DEF Fits
      <4> QED BY <1>3, <4>1 DEF Broadcast
    <3>2. ASSUME NEW p \in steady' PROVE heard'[p] = Listing'
      <4>1. p \in Page /\ p \in got \ hidden
        BY <3>1 DEF Send
      <4> QED
        BY <1>2, <3>1, <4>1 DEF Send
    <3> QED
      BY <3>2 DEF Announced
  <2>2. CASE ~Fits
    BY <1>2, <2>2 DEF Announced
  <2> QED
    BY <2>1, <2>2
<1>4. CASE ~NeedSchema /\ UNCHANGED <<heard, steady, dirty, unflagged>>
  <2>1. Len(modules) = last_module_count /\ dirty = {}
    BY <1>4 DEF NeedSchema
  <2>2. \A p \in steady : ~Fits \/ heard[p] = Listing \/ unflagged
    BY <2>1 DEF Announced
  <2> QED
    BY <1>2, <1>4, <2>2 DEF Announced
<1> QED
  BY <1>3, <1>4 DEF Loop1s

(* What pages and connections do takes pages out of steady at most. *)
LEMMA PagesAnnounce ==
  ASSUME Announced, UNCHANGED <<vars, server, heard, unflagged>>, steady' \subseteq steady
  PROVE  Announced'
<1>1. /\ modules' = modules /\ parent' = parent /\ heard' = heard
      /\ dirty' = dirty /\ last_module_count' = last_module_count /\ unflagged' = unflagged
  BY DEF vars, server
<1>2. Listing' = Listing /\ Fits' = Fits
  BY <1>1 DEF Listing, Fits
<1> QED
  BY <1>1, <1>2 DEF Announced

WsInv == clients \subseteq Page /\ Announced

(* WsInv is inductive. *)
LEMMA WsInductive == ASSUME WsInv, [WsNext]_<<vars, wsVars>> PROVE WsInv'
<1> USE DEF WsInv
<1>1. CASE Request
  <2>1. clients' = clients
    BY <1>1 DEF Request, pages
  <2> QED
    BY <1>1, <2>1, RequestAnnounces
<1>2. CASE Loop1s
  <2>1. clients' = clients
    BY <1>2 DEF Loop1s
  <2> QED
    BY <1>2, <2>1, LoopAnnounces
<1>3. ASSUME NEW p \in Page, Connect(p) \/ Lose(p) \/ Hide(p) \/ Show(p) PROVE WsInv'
  <2>1. clients' \subseteq clients \cup {p} /\ steady' \subseteq steady
    BY <1>3 DEF Connect, Lose, Hide, Show
  <2>2. UNCHANGED <<vars, server, heard, unflagged>>
    BY <1>3 DEF Connect, Lose, Hide, Show
  <2> QED
    BY <2>1, <2>2, PagesAnnounce
<1>4. CASE UNCHANGED <<vars, wsVars>>
  <2>1. clients' = clients /\ steady' = steady
    BY <1>4 DEF wsVars, pages
  <2>2. UNCHANGED <<vars, server, heard, unflagged>>
    BY <1>4 DEF wsVars, pages
  <2> QED
    BY <2>1, <2>2, PagesAnnounce
<1> QED
  BY <1>1, <1>2, <1>3, <1>4 DEF WsNext

(* A page that gets the schemas is never left behind in silence, but for   *)
(* the changes that flag nothing: loop1s sees each of the others.          *)
THEOREM NoPageIsForgotten == WsSpec => []OnlyKnownGaps
<1>1. WsInit => WsInv
  BY DEF WsInit, WsInv, Announced
<1>2. WsInv => OnlyKnownGaps
  BY DEF WsInv, Announced, OnlyKnownGaps, NeedSchema
<1> QED
  BY <1>1, <1>2, WsInductive, PTL DEF WsSpec

-----------------------------------------------------------------------------
(* The counters and lists are bounded by what the modules and connections  *)
(* can be: at most one vector entry per id, no dangling parent_, no more   *)
(* dead connections than were lost.                                        *)
WsTypeInv ==
  /\ VectorInv /\ ParentsAlive /\ WsTypeOK
  /\ net \in 0 .. MaxNet /\ dead <= net

(* What the page can be told of the tree. *)
LEMMA ListingType ==
  ASSUME VectorInv, ParentsAlive
  PROVE  /\ Listing \in Seq(Id \X (Id \cup {NoId}))
         /\ Len(modules) \in 0 .. Cardinality(Id)
<1>1. /\ modules \in Seq(Id) /\ Range(modules) = Live /\ Live \subseteq Id
      /\ Len(modules) = Cardinality(Live)
  BY VectorInvHolds DEF VectorInv, ListsOnce, VectorHoldsLive, Live
<1>2. Len(modules) \in Nat /\ DOMAIN modules = 1 .. Len(modules)
  BY <1>1
<1>3. \A i \in 1 .. Len(modules) : modules[i] \in Id /\ parent[modules[i]] \in Id \cup {NoId}
  BY <1>1, <1>2 DEF Range, ParentsAlive
<1>4. Listing \in [1 .. Len(modules) -> Id \X (Id \cup {NoId})]
  BY <1>2, <1>3 DEF Listing
<1>5. Listing \in Seq(Id \X (Id \cup {NoId}))
  BY <1>2, <1>4, SeqDef
<1>6. Cardinality(Id) \in Nat /\ Cardinality(Live) <= Cardinality(Id)
  BY <1>1, FS_Subset, FS_CardinalityType, TreeAssumption
<1> QED BY <1>1, <1>2, <1>5, <1>6

(* The program starts with the modules main.cpp adds, all of them roots. *)
LEMMA WsStarts == WsInit => WsTypeInv
<1> SUFFICES ASSUME WsInit PROVE WsTypeInv
  OBVIOUS
<1> DEFINE n == Len(AtBoot)
<1>1. /\ n \in Nat /\ DOMAIN AtBoot = 1 .. n
      /\ \A i \in 1 .. n : AtBoot[i][1] \in Type /\ AtBoot[i][2] \in Id
      /\ \A i, j \in 1 .. n : AtBoot[i][2] = AtBoot[j][2] => i = j
  BY WsAssumption
<1>2. /\ modules = [i \in 1 .. n |-> AtBoot[i][2]]
      /\ kind = [m \in Id |-> IF \E i \in 1 .. n : AtBoot[i][2] = m
                              THEN AtBoot[CHOOSE i \in 1 .. n : AtBoot[i][2] = m][1]
                              ELSE NoType]
  BY <1>1 DEF WsInit
<1>3. /\ parent = [m \in Id |-> NoId] /\ children = [m \in Id |-> <<>>]
      /\ link = [m \in Id |-> DefaultLink] /\ flag = [m \in Id |-> NoInput]
      /\ crashed = FALSE
  BY DEF WsInit
<1> HIDE DEF n
<1>4. \A m \in Id : IF \E i \in 1 .. n : AtBoot[i][2] = m THEN kind[m] \in Type
                    ELSE kind[m] = NoType
  BY <1>1, <1>2
<1>5. Live = {AtBoot[i][2] : i \in 1 .. n}
  BY <1>1, <1>4, TreeAssumption DEF Live
<1>6. modules \in Seq(Id) /\ DOMAIN modules = 1 .. n
  <2>1. modules \in [1 .. n -> Id]
    BY <1>1, <1>2
  <2> QED BY <1>1, <2>1, SeqDef
<1>7. ListsOnce(modules, Live)
  BY <1>1, <1>2, <1>5, <1>6 DEF ListsOnce, Injective, Range
<1>8. TreeTypeOK
  <2>1. kind \in [Id -> Type \cup {NoType}]
    BY <1>2, <1>4
  <2>2. <<>> \in Seq(Id)
    OBVIOUS
  <2>3. children \in [Id -> Seq(Id)]
    BY <1>3, <2>2
  <2> QED BY <1>3, <2>1, <2>3, TreeAssumption DEF TreeTypeOK
<1>9. ChildListsAgree /\ ParentsAlive
  BY <1>3, TreeAssumption
  DEF ChildListsAgree, ListedChildrenPointBack, ListedOnce, ParentListsChild, ParentsKnown,
      NewIdsAreClean, ParentsAlive, Live
<1>10. Cardinality(Id) \in Nat /\ Cardinality(Page) \in Nat
  BY FS_CardinalityType, TreeAssumption, WsAssumption
<1>11. heard \in [Page -> Seq(Id \X (Id \cup {NoId}))]
  <2>1. heard = [p \in Page |-> <<>>]
    BY DEF WsInit
  <2>2. <<>> \in Seq(Id \X (Id \cup {NoId}))
    OBVIOUS
  <2> QED BY <2>1, <2>2
<1>12. WsTypeOK
  BY <1>8, <1>10, <1>11, WsAssumption DEF WsInit, WsTypeOK
<1> QED
  BY <1>7, <1>8, <1>9, <1>12, WsAssumption DEF WsInit, WsTypeInv, VectorInv, TreeInv

LEMMA WsTypeStep == WsTypeInv /\ [WsNext]_<<vars, wsVars>> => WsTypeInv'
<1> SUFFICES ASSUME WsTypeInv, [WsNext]_<<vars, wsVars>> PROVE WsTypeInv'
  OBVIOUS
<1>0. /\ VectorInv /\ ParentsAlive /\ WsTypeOK /\ net \in 0 .. MaxNet /\ dead <= net
      /\ dead \in 0 .. MaxNet /\ MaxNet \in Nat
  BY WsAssumption DEF WsTypeInv, WsTypeOK
<1>1. NestingNext \/ UNCHANGED vars
  <2>1. CASE Request
    <3>1. ASSUME NEW p \in Id, NEW ids \in OrderRequest, ReorderChildren(p, ids)
          PROVE  RearrangeChildren(p)
      <4>1. TreeTypeOK /\ ~crashed' /\ Injective(children[p])
        BY <1>0, <2>1, AgreeIff DEF Request, VectorInv, TreeInv, Agree
      <4> QED BY <3>1, <4>1, ReorderRearranges
    <3> QED BY <2>1, <3>1 DEF Request, Nest, NestingNext, CommonNext
  <2>2. CASE \E p \in Page : Connect(p) \/ Lose(p) \/ Hide(p) \/ Show(p)
    BY <2>2 DEF Connect, Lose, Hide, Show
  <2>3. CASE Loop1s
    BY <2>3 DEF Loop1s
  <2> QED BY <2>1, <2>2, <2>3 DEF WsNext
<1>2. VectorInv' /\ ParentsAlive' /\ TreeTypeOK'
  <2>1. VectorInv' /\ ParentsAlive'
    BY <1>0, <1>1, NestingStep
  <2> QED BY <2>1 DEF VectorInv, TreeInv
<1>3. ASSUME UNCHANGED <<kind, dirty>> PROVE dirty' \subseteq Live'
  BY <1>0, <1>3 DEF Live, WsTypeOK
<1>4. CASE Request
  <2>1. UNCHANGED <<last_client_count, last_module_count, clients, dead, hidden, heard,
                    steady, net>>
    BY <1>4 DEF Request, pages
  <2>2. dirty' \subseteq Live'
    <3>1. ASSUME NEW m \in Id, NEW p \in Id, Nest(m, p) PROVE dirty' \subseteq Live'
      <4>1. m \in Live /\ UNCHANGED kind /\ dirty' = dirty \cup {m}
        BY <3>1 DEF Nest, Reparent, Crash, tree
      <4> QED BY <1>0, <4>1 DEF Live, WsTypeOK
    <3>2. ASSUME NEW m \in Id, Promote(m), UNCHANGED dirty PROVE dirty' \subseteq Live'
      BY <1>3, <3>2 DEF Promote, Crash, tree
    <3>3. ASSUME NEW p \in Id, NEW ids \in OrderRequest, ReorderChildren(p, ids),
                 UNCHANGED dirty
          PROVE  dirty' \subseteq Live'
      BY <1>3, <3>3 DEF ReorderChildren
    <3>4. CASE dirty' = dirty \cap Live'
      BY <3>4
    <3> QED BY <1>4, <3>1, <3>2, <3>3, <3>4 DEF Request
  <2> QED BY <1>0, <1>2, <2>1, <2>2 DEF WsTypeInv, WsTypeOK
<1>5. CASE Loop1s
  <2>1. /\ Listing \in Seq(Id \X (Id \cup {NoId}))
        /\ Len(modules) \in 0 .. Cardinality(Id)
    BY <1>0, ListingType
  <2>2. clientCount \in 0 .. Cardinality(Page) + MaxNet
    <3>1. clients \subseteq Page
      BY <1>0 DEF WsTypeOK
    <3>2. /\ Cardinality(Page) \in Nat /\ Cardinality(clients) \in Nat
          /\ Cardinality(clients) <= Cardinality(Page)
      BY <3>1, FS_Subset, FS_CardinalityType, WsAssumption
    <3> QED BY <1>0, <3>2 DEF clientCount
  <2>3. /\ last_client_count' = clientCount /\ last_module_count' = Len(modules)
        /\ dead' \in 0 .. dead /\ UNCHANGED <<kind, clients, hidden>>
    BY <1>5 DEF Loop1s, vars
  <2>4. dirty' \subseteq Live'
    <3>1. dirty' = {} \/ UNCHANGED <<kind, dirty>>
      BY <1>5 DEF Loop1s, vars
    <3> QED BY <1>3, <3>1
  <2>5. steady' \subseteq clients
    <3>1. steady' = steady \/ \E got \in SUBSET clients : steady' = got \ hidden
      BY <1>5 DEF Loop1s, Broadcast, Send
    <3> QED BY <1>0, <3>1 DEF WsTypeOK
  <2>6. heard' \in [Page -> Seq(Id \X (Id \cup {NoId}))]
    <3>1. \/ heard' = heard
          \/ \E got : heard' = [p \in Page |-> IF p \in got \ hidden THEN Listing ELSE heard[p]]
      BY <1>5 DEF Loop1s, Broadcast, Send
    <3> HIDE DEF Listing
    <3> QED BY <1>0, <2>1, <3>1 DEF WsTypeOK
  <2>7. dead' \in 0 .. MaxNet /\ net' \in 0 .. MaxNet /\ dead' <= net'
    <3>1. net' = net \/ (net < MaxNet /\ net' = net + 1)
      BY <1>5 DEF Loop1s, Broadcast
    <3> QED BY <1>0, <2>3, <3>1
  <2> HIDE DEF clientCount
  <2> QED BY <1>0, <1>2, <2>1, <2>2, <2>3, <2>4, <2>5, <2>6, <2>7 DEF WsTypeInv, WsTypeOK
<1>6. ASSUME NEW p \in Page, Connect(p) \/ Lose(p) \/ Hide(p) \/ Show(p) PROVE WsTypeInv'
  <2>1. UNCHANGED <<kind, dirty, last_client_count, last_module_count, heard>>
    BY <1>6 DEF Connect, Lose, Hide, Show, vars, server
  <2>2. dirty' \subseteq Live'
    BY <1>3, <2>1
  <2>3. clients' \subseteq Page /\ hidden' \subseteq Page /\ steady' \subseteq clients'
    BY <1>0, <1>6 DEF Connect, Lose, Hide, Show, WsTypeOK
  <2>4. net' \in 0 .. MaxNet /\ dead' \in 0 .. MaxNet /\ dead' <= net'
    BY <1>0, <1>6 DEF Connect, Lose, Hide, Show
  <2> QED BY <1>0, <1>2, <2>1, <2>2, <2>3, <2>4 DEF WsTypeInv, WsTypeOK
<1>7. CASE UNCHANGED <<vars, wsVars>>
  <2>1. UNCHANGED <<kind, dirty, last_client_count, last_module_count, heard, clients,
                    hidden, steady, dead, net>>
    BY <1>7 DEF vars, wsVars, server, pages
  <2>2. dirty' \subseteq Live'
    BY <1>3, <2>1
  <2> QED BY <1>0, <1>2, <2>1, <2>2 DEF WsTypeInv, WsTypeOK
<1> QED BY <1>4, <1>5, <1>6, <1>7 DEF WsNext

(* The flags are on live modules, the counts are within the number of ids, *)
(* pages and lost connections, and what a page holds is a list of modules  *)
(* and live parents.                                                       *)
THEOREM WsTypeCorrect == WsSpec => []WsTypeOK
BY WsStarts, WsTypeStep, PTL DEF WsSpec, WsTypeInv
=============================================================================
