-------------------------- MODULE StateStoreProofs --------------------------
(***************************************************************************)
(* For any modules, heads, files of earlier runs and any sequence of       *)
(* edits, failed writes and power losses: what the files and the caches    *)
(* hold are entries and settings the loader can read (StoreTypeCorrect),   *)
(* and what runs after a boot is the tree saved last (StoreRestoresTree).  *)
(*                                                                         *)
(* The types alone are not inductive.  An entry has an id and a parent     *)
(* because the vector holds live modules only (VectorInv) and a parent_    *)
(* never dangles (ParentsAlive), and no entry is the store's own because   *)
(* the store keeps its type.                                               *)
(*                                                                         *)
(* The refinement needs in addition that a saved list is one pass 2 can    *)
(* link (LoadsBack), how far a boot has come (BootInv), and that in a      *)
(* tree in pre-order siblings stand in the order of their child list.      *)
(***************************************************************************)
EXTENDS StateStore, ModuleVectorProofs

FilesOK ==
  /\ modules_json = Torn \/ modules_json \in Seq(Row)
  /\ state_json \in [Id -> Setting \cup {NoFile, Torn}]
  /\ last_state_json \in [Id -> Setting \cup {NoFile}]

BootOK ==
  /\ enabled \in [Id -> BOOLEAN]
  /\ phase \in {"load", "link", "run"}
  /\ next \in 1 .. Len(Entries) + 1
  /\ phase = "run" => next = 1
  /\ kind[Store] \in {NoType, StoreType}
  /\ phase # "run" => kind[Store] = NoType

CountsOK == failed \subseteq Id /\ edits \in 0 .. MaxEdits /\ faults \in 0 .. MaxFaults

StoreInv == VectorInv /\ ParentsAlive /\ FilesOK /\ BootOK /\ CountsOK

(* The tree as main.cpp leaves it before the store's setup(). *)
HeadsOnly ==
  /\ modules = [i \in DOMAIN HeadModules |-> HeadModules[i][2]]
  /\ kind = [m \in Id |-> IF m \in HeadIds THEN HeadType(m) ELSE NoType]
  /\ parent = [m \in Id |-> NoId]
  /\ children = [m \in Id |-> <<>>]
  /\ link = [m \in Id |-> DefaultLink]
  /\ flag = [m \in Id |-> NoInput]

(* main.cpp adds modules of known types, under different ids. *)
LEMMA HeadFacts ==
  /\ HeadIds \subseteq Id /\ Store \notin HeadIds
  /\ \A m \in HeadIds : HeadType(m) \in Type
<1>1. \A i \in DOMAIN HeadModules : /\ HeadModules[i][2] \in Id
                                    /\ HeadModules[i][1] \in Type
                                    /\ HeadModules[i][2] # Store
  BY StoreAssumption
<1>2. ASSUME NEW m \in HeadIds PROVE HeadType(m) \in Type
  <2>1. \E i \in DOMAIN HeadModules : HeadModules[i][2] = m
    BY DEF HeadIds
  <2> QED BY <1>1, <2>1 DEF HeadType
<1> QED BY <1>1, <1>2 DEF HeadIds

(* The heads main.cpp adds are a tree: nothing nested, each listed once.   *)
LEMMA HeadsAreATree ==
  ASSUME HeadsOnly, crashed \in BOOLEAN
  PROVE  VectorInv /\ ParentsAlive /\ kind[Store] = NoType
<1>1. /\ HeadIds \subseteq Id /\ Store \notin HeadIds
      /\ \A m \in HeadIds : HeadType(m) \in Type
  BY HeadFacts
<1>2. Live = HeadIds
  BY <1>1, TreeAssumption DEF HeadsOnly, Live
<1>3. TreeTypeOK
  <2>1. kind \in [Id -> Type \cup {NoType}]
    BY <1>1 DEF HeadsOnly
  <2>2. parent \in [Id -> Id \cup {NoId, Freed}] /\ flag \in [Id -> Name \cup {NoInput}]
    BY DEF HeadsOnly
  <2>3. link \in [Id -> [Name -> Id \cup {NoId}]]
    BY TreeAssumption DEF HeadsOnly
  <2>4. children \in [Id -> Seq(Id)]
    <3>1. <<>> \in Seq(Id)
      OBVIOUS
    <3> QED BY <3>1 DEF HeadsOnly
  <2> QED BY <2>1, <2>2, <2>3, <2>4 DEF TreeTypeOK
<1>4. ChildListsAgree
  <2>1. \A m \in Id : children[m] = <<>> /\ parent[m] = NoId
    BY DEF HeadsOnly
  <2>2. NoId \notin Live
    BY TreeAssumption DEF Live
  <2>3. DOMAIN <<>> = {} /\ Live \subseteq Id
    BY DEF Live
  <2> QED
    BY <2>1, <2>2, <2>3 DEF ChildListsAgree, ListedChildrenPointBack, ListedOnce,
                            ParentListsChild, ParentsKnown, NewIdsAreClean
<1>5. ListsOnce(modules, Live)
  <2> DEFINE n == Len(HeadModules)
  <2>1. /\ n \in Nat /\ DOMAIN HeadModules = 1 .. n
        /\ \A i \in 1 .. n : HeadModules[i][2] \in Id
    BY StoreAssumption
  <2>2. modules = [i \in 1 .. n |-> HeadModules[i][2]]
    BY <2>1 DEF HeadsOnly
  <2> HIDE DEF n
  <2>3. modules \in [1 .. n -> Id] /\ DOMAIN modules = 1 .. n
    BY <2>1, <2>2
  <2>4. modules \in Seq(Id)
    BY <2>1, <2>3, SeqDef
  <2>5. Injective(modules)
    BY <2>1, <2>2, StoreAssumption DEF Injective
  <2>6. Range(modules) = HeadIds
    BY <2>1, <2>2 DEF Range, HeadIds
  <2> QED BY <1>2, <2>4, <2>5, <2>6 DEF ListsOnce
<1>6. ParentsAlive
  BY DEF HeadsOnly, ParentsAlive, Live
<1>7. kind[Store] = NoType
  BY <1>1, StoreAssumption DEF HeadsOnly
<1> QED BY <1>3, <1>4, <1>5, <1>6, <1>7 DEF VectorInv, TreeInv

(* Adding a module that did not exist, at the end of the vector. *)
NewRoot(m, t) ==
  /\ m \in Id \ Live /\ t \in Type
  /\ modules' = Append(modules, m)
  /\ kind' = [kind EXCEPT ![m] = t]
  /\ UNCHANGED <<parent, children, flag, crashed>>

(* Appending a new root keeps what is said of vector and parents.          *)
LEMMA NewRootStep ==
  ASSUME VectorInv, ParentsAlive, NEW m, NEW t, NewRoot(m, t),
         link' \in [Id -> [Name -> Id \cup {NoId}]]
  PROVE  VectorInv' /\ ParentsAlive' /\ Live' = Live \cup {m}
<1>0. TreeTypeOK /\ ChildListsAgree /\ ListsOnce(modules, Live) /\ Live \subseteq Id
  BY DEF VectorInv, TreeInv, Live
<1>1. Live' = Live \cup {m}
  BY <1>0, TreeAssumption DEF NewRoot, Live, TreeTypeOK
<1>2. TreeTypeOK'
  BY <1>0 DEF TreeTypeOK, NewRoot
<1>3. Agree(Live, parent, children)
  BY <1>0, AgreeIff
<1>4. Agree(Live', parent', children')
  <2>1. \A c \in Id : parent[c] # m
    <3>1. \A c \in Live : parent[c] \in Live \cup {NoId}
      BY DEF ParentsAlive
    <3>2. \A c \in Id \ Live : parent[c] = NoId
      BY <1>3 DEF Agree
    <3>3. m \notin Live /\ m # NoId
      BY TreeAssumption DEF NewRoot
    <3> QED BY <3>1, <3>2, <3>3
  <2>2. parent[m] = NoId
    BY <1>3 DEF Agree, NewRoot
  <2> DEFINE live == Live \cup {m}
  <2>3. m \in Id /\ live \subseteq Id
    BY <1>0 DEF NewRoot
  <2> HIDE DEF Live
  <2>4. \A p \in Id : Injective(children[p])
    BY <1>3 DEF Agree
  <2>5. \A p \in Id : \A c \in Range(children[p]) : p \in live /\ c \in live /\ parent[c] = p
    BY <1>3 DEF Agree
  <2>6. \A x \in live : parent[x] \in live \cup {NoId, Freed}
    BY <1>3, <2>2 DEF Agree
  <2>7. \A x \in live : parent[x] \in live => x \in Range(children[parent[x]])
    <3> SUFFICES ASSUME NEW x \in live, parent[x] \in live
                 PROVE  x \in Range(children[parent[x]])
      OBVIOUS
    <3>1. parent[x] \in Live /\ x # m
      BY <2>1, <2>2, <2>3, TreeAssumption
    <3> QED BY <1>3, <3>1 DEF Agree
  <2>8. \A x \in Id \ live : parent[x] = NoId
    BY <1>3 DEF Agree
  <2>9. Agree(live, parent, children)
    BY <2>4, <2>5, <2>6, <2>7, <2>8 DEF Agree
  <2> QED BY <1>1, <2>9 DEF NewRoot
<1>5. ChildListsAgree'
  <2>1. (TreeTypeOK => (ChildListsAgree <=> Agree(Live, parent, children)))'
    BY AgreeIff, PTL
  <2> QED BY <1>2, <1>4, <2>1 DEF Agree
<1>6. ListsOnce(modules', Live')
  <2>1. modules \in Seq(Id) /\ Injective(modules) /\ Range(modules) = Live /\ m \in Id
    BY <1>0 DEF ListsOnce, NewRoot
  <2>2. m \notin Range(modules)
    BY <2>1 DEF NewRoot
  <2> QED BY <1>1, <2>1, <2>2, AppendElements DEF ListsOnce, NewRoot
<1>7. ParentsAlive'
  <2>1. parent'[m] = NoId /\ \A c \in Live : parent'[c] \in Live \cup {NoId}
    BY <1>3 DEF ParentsAlive, Agree, NewRoot
  <2> QED BY <1>1, <2>1 DEF ParentsAlive
<1> QED BY <1>1, <1>2, <1>5, <1>6, <1>7 DEF VectorInv, TreeInv

-----------------------------------------------------------------------------
(* snapshot_modules_ writes entries the loader can read, and none of the   *)
(* store's own.                                                            *)
LEMMA ListingRows ==
  ASSUME VectorInv, ParentsAlive, kind[Store] \in {NoType, StoreType}
  PROVE  Listing \in Seq(Row)
<1> DEFINE saved == Keep(modules, {m \in Id : kind[m] # StoreType})
           row == [m \in Id |-> [type |-> kind[m], id |-> m, parent |-> parent[m]]]
           n == Len(saved)
<1>1. /\ TreeTypeOK /\ modules \in Seq(Id) /\ Range(modules) = Live
  BY DEF VectorInv, TreeInv, ListsOnce
<1>2. saved \in Seq(Id) /\ Range(saved) = Range(modules) \cap {m \in Id : kind[m] # StoreType}
  BY <1>1, KeepElements
<1>3. Listing = [i \in DOMAIN saved |-> row[saved[i]]]
  BY DEF Listing
<1> HIDE DEF saved
<1>4. n \in Nat /\ DOMAIN saved = 1 .. n
  BY <1>2
<1>5. ASSUME NEW i \in 1 .. n PROVE row[saved[i]] \in Row
  <2> DEFINE m == saved[i]
  <2>1. m \in Range(saved)
    BY <1>4 DEF Range
  <2>2. m \in Live /\ kind[m] # StoreType /\ m \in Id
    BY <1>1, <1>2, <2>1
  <2> HIDE DEF m
  <2>3. m # Store /\ kind[m] \in Type
    BY <1>1, <2>2 DEF Live, TreeTypeOK
  <2>4. parent[m] \in Id \cup {NoId}
    BY <2>2 DEF ParentsAlive, Live
  <2>5. row[m] \in Row
    BY <2>2, <2>3, <2>4 DEF Row
  <2> QED BY <2>5 DEF m
<1> HIDE DEF n, row
<1>6. Listing \in [1 .. n -> Row]
  BY <1>3, <1>4, <1>5
<1> QED BY <1>4, <1>6, SeqDef

(* What load_state_into_ finds in a file fits the inputs of the type.      *)
LEMMA SettingsFit ==
  ASSUME FilesOK, NEW m \in Id, NEW t \in Type
  PROVE  /\ Settings(m, t).enabled \in BOOLEAN
         /\ Settings(m, t).inputs \in [InputsOf[t] -> Id \cup {NoId}]
<1> DEFINE file == state_json[m]
<1>1. InputsOf[t] \subseteq Name /\ \A in \in Name : DefaultLink[in] \in Id \cup {NoId}
  BY TreeAssumption
<1>2. CASE file \in {NoFile, Torn}
  <2>1. Settings(m, t) = [enabled |-> TRUE, inputs |-> [in \in InputsOf[t] |-> DefaultLink[in]]]
    BY <1>2 DEF Settings, Defaults
  <2> QED BY <1>1, <2>1
<1>3. CASE file \notin {NoFile, Torn}
  <2> DEFINE found == [in \in InputsOf[t] |-> IF in \in DOMAIN file.inputs THEN file.inputs[in]
                                              ELSE DefaultLink[in]]
  <2>1. Settings(m, t) = [enabled |-> file.enabled, inputs |-> found]
    BY <1>3 DEF Settings
  <2>2. file \in Setting
    BY <1>3 DEF FilesOK
  <2> HIDE DEF file
  <2>3. /\ file.enabled \in BOOLEAN
        /\ \E names \in SUBSET Name : file.inputs \in [names -> Id \cup {NoId}]
    BY <2>2 DEF Setting
  <2>4. \A in \in DOMAIN file.inputs : file.inputs[in] \in Id \cup {NoId}
    BY <2>3
  <2>5. found \in [InputsOf[t] -> Id \cup {NoId}]
    BY <1>1, <2>4
  <2> QED BY <2>1, <2>3, <2>5
<1> QED BY <1>2, <1>3

(* snapshot_state_ writes settings the loader can read. *)
LEMMA SnapshotFits ==
  ASSUME TreeTypeOK, enabled \in [Id -> BOOLEAN]
  PROVE  Snapshot \in [Id -> Setting \cup {NoFile}]
<1>1. ASSUME NEW m \in Live
      PROVE  [enabled |-> enabled[m],
              inputs |-> [in \in InputsOf[kind[m]] |-> link[m][in]]] \in Setting
  <2> DEFINE inputs == [in \in InputsOf[kind[m]] |-> link[m][in]]
  <2>1. m \in Id /\ kind[m] \in Type
    BY DEF Live, TreeTypeOK
  <2>2. InputsOf[kind[m]] \subseteq Name /\ \A in \in Name : link[m][in] \in Id \cup {NoId}
    BY <2>1, TreeAssumption DEF TreeTypeOK
  <2>3. inputs \in [InputsOf[kind[m]] -> Id \cup {NoId}]
    BY <2>2
  <2> HIDE DEF inputs
  <2>4. inputs \in UNION {[names -> Id \cup {NoId}] : names \in SUBSET Name}
    BY <2>2, <2>3
  <2>5. [enabled |-> enabled[m], inputs |-> inputs] \in Setting
    BY <2>1, <2>4 DEF Setting
  <2> QED BY <2>5 DEF inputs
<1> QED BY <1>1 DEF Snapshot

(* A request leaves a module its type, deletes it or adds it.              *)
LEMMA KindStep ==
  ASSUME TreeTypeOK, NestingNext \/ UNCHANGED vars, NEW x \in Id
  PROVE  \/ kind'[x] \in {kind[x], NoType}
         \/ \E r \in AddRequest : r[2] = x /\ kind'[x] = r[1]
<1>0. kind \in [Id -> Type \cup {NoType}]
  BY DEF TreeTypeOK
<1>1. ASSUME NEW r \in AddRequest, AddModule(r[1], r[2])
      PROVE  kind'[x] = kind[x] \/ (r[2] = x /\ kind'[x] = r[1])
  BY <1>0, <1>1 DEF AddModule
<1>2. ASSUME NEW m \in Id, RemoveModule(m) PROVE kind'[x] \in {kind[x], NoType}
  BY <1>0, <1>2 DEF RemoveModule, Destroy, Crash, tree
<1>3. ASSUME NEW m \in Id, Promote(m) PROVE UNCHANGED kind
  BY <1>3 DEF Promote, Crash, tree
<1>4. ASSUME NEW m \in Id, NEW p \in Id, Reparent(m, p) PROVE UNCHANGED kind
  BY <1>4 DEF Reparent, Crash, tree
<1>5. ASSUME NEW p \in Id, NEW ids \in OrderRequest, ReorderChildren(p, ids)
      PROVE  UNCHANGED kind
  BY <1>5 DEF ReorderChildren
<1>6. ASSUME NEW m \in Id, NEW v \in InputValue, NEW in \in Name, SetInput(m, in, v)
      PROVE  UNCHANGED kind
  BY <1>6 DEF SetInput
<1>7. CASE UNCHANGED vars
  BY <1>7 DEF vars
<1> QED
  BY <1>1, <1>2, <1>3, <1>4, <1>5, <1>6, <1>7 DEF NestingNext, CommonNext

(* No request but a deletion changes what the store's id stands for.       *)
LEMMA StoreStaysStore ==
  ASSUME TreeTypeOK, NestingNext \/ UNCHANGED vars
  PROVE  kind'[Store] \in {kind[Store], NoType}
<1>1. Store \in Id /\ \A r \in AddRequest : r[2] # Store
  BY StoreAssumption
<1> QED BY <1>1, KindStep

-----------------------------------------------------------------------------
(* The files of earlier runs and the heads establish the invariant.        *)
LEMMA StoreInvInit == StoreInit => StoreInv
<1> SUFFICES ASSUME StoreInit PROVE StoreInv
  OBVIOUS
<1>1. VectorInv /\ ParentsAlive /\ kind[Store] = NoType
  <2>1. HeadsOnly /\ crashed \in BOOLEAN
    BY DEF StoreInit, HeadsOnly
  <2> QED BY <2>1, HeadsAreATree
<1>2. FilesOK
  BY StoreAssumption DEF StoreInit, FilesOK
<1>3. Entries \in Seq(Row) /\ Len(Entries) \in Nat
  BY <1>2 DEF FilesOK, Entries
<1>4. BootOK
  BY <1>1, <1>3 DEF StoreInit, BootOK
<1>5. CountsOK
  BY StoreAssumption DEF StoreInit, CountsOK
<1> QED BY <1>1, <1>2, <1>4, <1>5 DEF StoreInv

(* The parts of StoreInv that a step leaves alone. *)
LEMMA TreeOfBoot ==
  ASSUME StoreInv
  PROVE  /\ TreeTypeOK /\ VectorInv /\ ParentsAlive
         /\ Entries \in Seq(Row) /\ Len(Entries) \in Nat
         /\ \A i \in 1 .. Len(Entries) : Entries[i] \in Row
<1>1. Entries \in Seq(Row)
  BY DEF StoreInv, FilesOK, Entries
<1> QED BY <1>1 DEF StoreInv, VectorInv, TreeInv

(* Pass 1 keeps it: an entry that is not there yet becomes a root.         *)
LEMMA StoreInvLoads == ASSUME StoreInv, LoadEntry PROVE StoreInv'
<1> DEFINE m == Entries[next].id
           t == Entries[next].type
<1>1. /\ TreeTypeOK /\ VectorInv /\ ParentsAlive /\ FilesOK /\ BootOK /\ CountsOK
      /\ Entries \in Seq(Row) /\ Len(Entries) \in Nat
      /\ \A i \in 1 .. Len(Entries) : Entries[i] \in Row
  BY TreeOfBoot DEF StoreInv
<1>2. /\ phase = "load" /\ next \in 1 .. Len(Entries) /\ next' = next + 1
      /\ UNCHANGED <<crashed, disk, caches, phase, failed, edits, faults>>
  BY <1>1 DEF LoadEntry, BootOK
<1>3. m \in Id /\ m # Store /\ t \in Type
  BY <1>1, <1>2 DEF Row
<1>4. /\ UNCHANGED <<modules_json, state_json, last_state_json, failed, edits, faults, phase>>
      /\ Entries' = Entries
  BY <1>2 DEF disk, caches, Entries
<1>5. CASE m \in Live /\ UNCHANGED <<tree, enabled>>
  <2>1. UNCHANGED vars /\ UNCHANGED <<kind, enabled>>
    BY <1>2, <1>5 DEF vars, tree
  <2>2. VectorInv' /\ ParentsAlive'
    BY <1>1, <2>1, NestingStep
  <2>3. FilesOK' /\ CountsOK'
    BY <1>1, <1>4 DEF FilesOK, CountsOK
  <2>4. BootOK'
    BY <1>1, <1>2, <1>4, <2>1 DEF BootOK
  <2> QED BY <2>2, <2>3, <2>4 DEF StoreInv
<1>6. CASE /\ m \notin Live
           /\ modules' = Append(modules, m)
           /\ kind' = [kind EXCEPT ![m] = t]
           /\ link' = [link EXCEPT ![m] = [in \in Name |->
                          IF in \in InputsOf[t] THEN Settings(m, t).inputs[in] ELSE @[in]]]
           /\ enabled' = [enabled EXCEPT ![m] = Settings(m, t).enabled]
           /\ UNCHANGED <<parent, children, flag>>
  <2> HIDE DEF m, t
  <2>1. /\ Settings(m, t).enabled \in BOOLEAN
        /\ Settings(m, t).inputs \in [InputsOf[t] -> Id \cup {NoId}]
    BY <1>1, <1>3, SettingsFit
  <2>2. link' \in [Id -> [Name -> Id \cup {NoId}]]
    <3> DEFINE inputs == Settings(m, t).inputs
               new == [in \in Name |-> IF in \in InputsOf[t] THEN inputs[in] ELSE link[m][in]]
    <3>1. inputs \in [InputsOf[t] -> Id \cup {NoId}]
      BY <2>1
    <3> HIDE DEF inputs
    <3>2. link \in [Id -> [Name -> Id \cup {NoId}]]
      BY <1>1 DEF TreeTypeOK
    <3>3. new \in [Name -> Id \cup {NoId}]
      BY <1>3, <3>1, <3>2
    <3>4. link' = [link EXCEPT ![m] = new]
      BY <1>6 DEF inputs
    <3> HIDE DEF new
    <3> QED BY <1>3, <3>2, <3>3, <3>4
  <2>3. NewRoot(m, t)
    BY <1>2, <1>3, <1>6 DEF NewRoot
  <2>4. VectorInv' /\ ParentsAlive'
    BY <1>1, <2>2, <2>3, NewRootStep
  <2>5. FilesOK' /\ CountsOK'
    BY <1>1, <1>4 DEF FilesOK, CountsOK
  <2>6. kind'[Store] = kind[Store] /\ enabled' \in [Id -> BOOLEAN]
    BY <1>1, <1>3, <1>6, <2>1, StoreAssumption DEF BootOK, TreeTypeOK
  <2>7. BootOK'
    BY <1>1, <1>2, <1>4, <2>6 DEF BootOK
  <2> QED BY <2>4, <2>5, <2>7 DEF StoreInv
<1> QED BY <1>5, <1>6 DEF LoadEntry

(* Pass 2 keeps it: an entry is nested only in a module that exists.       *)
LEMMA StoreInvLinks == ASSUME StoreInv, StartLinking \/ LinkEntry PROVE StoreInv'
<1>1. /\ TreeTypeOK /\ VectorInv /\ ParentsAlive /\ FilesOK /\ BootOK /\ CountsOK
      /\ Entries \in Seq(Row) /\ Len(Entries) \in Nat
      /\ \A i \in 1 .. Len(Entries) : Entries[i] \in Row
  BY TreeOfBoot DEF StoreInv
<1>2. /\ UNCHANGED <<modules_json, state_json, last_state_json, failed, edits, faults, enabled>>
      /\ Entries' = Entries
  BY DEF StartLinking, LinkEntry, disk, caches, Entries
<1>3. FilesOK' /\ CountsOK'
  BY <1>1, <1>2 DEF FilesOK, CountsOK
<1>4. NestingNext \/ UNCHANGED vars
  <2>1. CASE StartLinking
    BY <2>1 DEF StartLinking
  <2>2. CASE LinkEntry
    <3> DEFINE m == Entries[next].id
               p == Entries[next].parent
    <3>1. UNCHANGED vars \/ (Reparent(m, p) /\ m \in Live /\ p \in Live)
      BY <2>2 DEF LinkEntry
    <3> HIDE DEF m, p
    <3> QED BY <3>1 DEF NestingNext, Live
  <2> QED BY <2>1, <2>2
<1>5. VectorInv' /\ ParentsAlive'
  BY <1>1, <1>4, NestingStep
<1>6. kind'[Store] = NoType
  <2>1. kind[Store] = NoType
    BY <1>1 DEF StartLinking, LinkEntry, BootOK
  <2>2. kind'[Store] \in {kind[Store], NoType}
    BY <1>1, <1>4, StoreStaysStore
  <2> QED BY <2>1, <2>2
<1>7. next' \in 1 .. Len(Entries) + 1 /\ phase' = "link"
  <2>1. next' \in {1, next, next + 1} /\ phase' = "link"
        /\ (LinkEntry => next <= Len(Entries)) /\ (StartLinking => next' = 1)
    BY DEF StartLinking, LinkEntry
  <2> QED BY <1>1, <2>1 DEF BootOK
<1>8. BootOK'
  BY <1>1, <1>2, <1>6, <1>7 DEF BootOK
<1> QED BY <1>3, <1>5, <1>8 DEF StoreInv

(* The end of the load keeps it: the store itself joins the modules.       *)
LEMMA StoreInvBoots == ASSUME StoreInv, FinishBoot PROVE StoreInv'
<1>1. /\ TreeTypeOK /\ VectorInv /\ ParentsAlive /\ FilesOK /\ BootOK /\ CountsOK
      /\ Entries \in Seq(Row) /\ Len(Entries) \in Nat
  BY TreeOfBoot DEF StoreInv
<1>2. /\ UNCHANGED <<modules_json, state_json, failed, edits, faults, enabled>>
      /\ Entries' = Entries
      /\ last_state_json' = Snapshot /\ phase' = "run" /\ next' = 1
  BY DEF FinishBoot, disk, Entries
<1>3. FilesOK' /\ CountsOK'
  <2>1. Snapshot \in [Id -> Setting \cup {NoFile}]
    BY <1>1, SnapshotFits DEF BootOK
  <2> HIDE DEF Snapshot
  <2> QED BY <1>1, <1>2, <2>1 DEF FilesOK, CountsOK
<1>4. NewRoot(Store, StoreType) /\ UNCHANGED link
  BY <1>1, StoreAssumption DEF FinishBoot, NewRoot, BootOK, Live
<1>5. VectorInv' /\ ParentsAlive'
  BY <1>1, <1>4, NewRootStep DEF TreeTypeOK
<1>6. kind'[Store] = StoreType
  BY <1>1, <1>4, StoreAssumption DEF NewRoot, TreeTypeOK
<1>7. BootOK'
  BY <1>1, <1>2, <1>6 DEF BootOK
<1> QED BY <1>3, <1>5, <1>7 DEF StoreInv

(* A request keeps it, and cannot touch the store's type.                  *)
LEMMA StoreInvEdits == ASSUME StoreInv, Edit PROVE StoreInv'
<1>1. /\ TreeTypeOK /\ VectorInv /\ ParentsAlive /\ FilesOK /\ BootOK /\ CountsOK
      /\ Entries \in Seq(Row) /\ Len(Entries) \in Nat
  BY TreeOfBoot DEF StoreInv
<1>2. /\ UNCHANGED <<modules_json, state_json, last_state_json, failed, faults, phase, next>>
      /\ phase = "run" /\ edits < MaxEdits /\ edits' = edits + 1
      /\ Entries' = Entries
  BY DEF Edit, disk, caches, Entries
<1>3. FilesOK' /\ CountsOK'
  BY <1>1, <1>2, StoreAssumption DEF FilesOK, CountsOK
<1>4. NestingNext \/ UNCHANGED vars
  BY <1>1, UiIsTidy DEF Edit, VectorInv, UiTidyNext, NestingNext
<1>5. VectorInv' /\ ParentsAlive'
  BY <1>1, <1>4, NestingStep
<1>6. kind'[Store] \in {NoType, StoreType}
  <2>1. kind'[Store] \in {kind[Store], NoType}
    BY <1>1, <1>4, StoreStaysStore
  <2> QED BY <1>1, <2>1 DEF BootOK
<1>7. enabled' \in [Id -> BOOLEAN]
  <2>1. CASE enabled' = [m \in Id |-> kind'[m] = NoType \/ enabled[m]]
    <3>1. \A m \in Id : enabled[m] \in BOOLEAN
      BY <1>1 DEF BootOK
    <3> QED BY <2>1, <3>1
  <2>2. CASE \E m \in Live : enabled' = [enabled EXCEPT ![m] = ~@]
    BY <1>1, <2>2 DEF BootOK, Live
  <2> QED BY <2>1, <2>2 DEF Edit
<1>8. BootOK'
  BY <1>1, <1>2, <1>6, <1>7 DEF BootOK
<1> QED BY <1>3, <1>5, <1>8 DEF StoreInv

(* Saves keep it: snapshots are made of live modules and live parents.     *)
LEMMA StoreInvSaves == ASSUME StoreInv, Loop1s \/ Loop10s PROVE StoreInv'
<1>1. /\ TreeTypeOK /\ VectorInv /\ ParentsAlive /\ FilesOK /\ BootOK /\ CountsOK
  BY TreeOfBoot DEF StoreInv
<1>2. UNCHANGED vars /\ UNCHANGED <<enabled, phase, next, edits, kind>> /\ phase = "run"
  BY DEF Loop1s, Loop10s, StoreTicks, vars
<1>3. VectorInv' /\ ParentsAlive'
  BY <1>1, <1>2, NestingStep
<1>4. Listing \in Seq(Row) /\ Snapshot \in [Id -> Setting \cup {NoFile}] /\ Changed \subseteq Id
  <2>1. Listing \in Seq(Row)
    BY <1>1, ListingRows DEF BootOK
  <2>2. Snapshot \in [Id -> Setting \cup {NoFile}]
    BY <1>1, SnapshotFits DEF BootOK
  <2> QED BY <2>1, <2>2 DEF Changed
<1>5. \A m \in Changed : Snapshot[m] \in Setting
  BY <1>4 DEF Changed
<1>6. ASSUME NEW done, NEW torn, done \subseteq Changed
      PROVE  Written(done, torn) \in [Id -> Setting \cup {NoFile, Torn}]
  BY <1>1, <1>5, <1>6 DEF Written, FilesOK
<1>7. FilesOK'
  <2>1. CASE Loop1s
    <3>1. /\ modules_json' \in {Listing, modules_json, Torn}
          /\ UNCHANGED <<state_json, last_state_json>>
      BY <2>1 DEF Loop1s
    <3> QED BY <1>1, <1>4, <3>1 DEF FilesOK
  <2>2. CASE Loop10s
    <3>1. last_state_json' = Snapshot /\ UNCHANGED modules_json
      BY <2>2 DEF Loop10s
    <3>2. \E done \in SUBSET Changed, torn \in SUBSET Id : state_json' = Written(done, torn)
      <4>1. CASE state_json' = Written(Changed, {})
        BY <4>1
      <4>2. CASE \E m \in Changed : \E torn \in {{}, {m}} : state_json' = Written(Changed \ {m}, torn)
        BY <1>4, <4>2
      <4> QED BY <2>2, <4>1, <4>2 DEF Loop10s
    <3> HIDE DEF Snapshot, Changed, Written
    <3> QED BY <1>1, <1>4, <1>6, <3>1, <3>2 DEF FilesOK
  <2> QED BY <2>1, <2>2
<1>8. CountsOK'
  <2>1. UNCHANGED faults \/ (faults < MaxFaults /\ faults' = faults + 1)
    BY DEF Loop1s, Loop10s
  <2>2. failed' \subseteq Id
    <3>1. CASE Loop1s
      BY <1>1, <3>1, StoreAssumption DEF Loop1s, CountsOK
    <3>2. CASE Loop10s
      BY <1>1, <1>4, <3>2 DEF Loop10s, CountsOK
    <3> QED BY <3>1, <3>2
  <2> QED BY <1>1, <1>2, <2>1, <2>2, StoreAssumption DEF CountsOK
<1>9. BootOK'
  <2>1. Entries' \in Seq(Row)
    BY <1>7 DEF FilesOK, Entries
  <2>2. next = 1 /\ Len(Entries') \in Nat
    BY <1>1, <1>2, <2>1 DEF BootOK
  <2> QED BY <1>1, <1>2, <2>2 DEF BootOK
<1> QED BY <1>3, <1>7, <1>8, <1>9 DEF StoreInv

(* A power loss keeps it: a file is old, new or torn.                      *)
LEMMA StoreInvCrashes == ASSUME StoreInv, PowerLoss PROVE StoreInv'
<1>1. /\ TreeTypeOK /\ VectorInv /\ ParentsAlive /\ FilesOK /\ BootOK /\ CountsOK
  BY TreeOfBoot DEF StoreInv
<1>2. /\ faults < MaxFaults /\ faults' = faults + 1 /\ UNCHANGED edits
      /\ Booting
  BY DEF PowerLoss
<1>3. VectorInv' /\ ParentsAlive' /\ kind'[Store] = NoType
  <2>1. HeadsOnly' /\ (crashed \in BOOLEAN)'
    BY <1>1, <1>2 DEF Booting, HeadsOnly, HeadIds, HeadType, TreeTypeOK
  <2>2. (HeadsOnly /\ crashed \in BOOLEAN => VectorInv /\ ParentsAlive /\ kind[Store] = NoType)'
    BY HeadsAreATree, PTL
  <2> QED BY <2>1, <2>2
<1>4. FilesOK'
  <2>1. last_state_json' \in [Id -> Setting \cup {NoFile}]
    BY <1>2 DEF Booting
  <2>2. modules_json' \in {modules_json, Torn}
    BY DEF PowerLoss, disk
  <2>3. state_json' \in [Id -> Setting \cup {NoFile, Torn}]
    <3>1. CASE UNCHANGED state_json
      BY <1>1, <3>1 DEF FilesOK
    <3>2. CASE \E m \in Changed : \E done \in SUBSET (Changed \ {m}) :
                 state_json' = Written(done, {m})
      <4>1. Snapshot \in [Id -> Setting \cup {NoFile}]
        BY <1>1, SnapshotFits DEF BootOK
      <4>2. \A m \in Changed : Snapshot[m] \in Setting
        BY <4>1 DEF Changed
      <4> HIDE DEF Snapshot, Changed
      <4> QED BY <1>1, <3>2, <4>2 DEF Written, FilesOK
    <3> QED BY <3>1, <3>2 DEF PowerLoss, disk
  <2> QED BY <1>1, <2>1, <2>2, <2>3 DEF FilesOK
<1>5. CountsOK'
  BY <1>1, <1>2, StoreAssumption DEF Booting, CountsOK
<1>6. BootOK'
  <2>1. Entries' \in Seq(Row)
    BY <1>4 DEF FilesOK, Entries
  <2>2. Len(Entries') \in Nat
    BY <2>1
  <2> QED BY <1>2, <1>3, <2>2 DEF BootOK, Booting
<1> QED BY <1>3, <1>4, <1>5, <1>6 DEF StoreInv

(* Every step keeps it.                                                    *)
LEMMA StoreInvStep == StoreInv /\ [StoreNext]_<<vars, storeVars>> => StoreInv'
<1> SUFFICES ASSUME StoreInv, [StoreNext]_<<vars, storeVars>> PROVE StoreInv'
  OBVIOUS
<1>1. CASE Boot
  BY <1>1, StoreInvLoads, StoreInvLinks, StoreInvBoots DEF Boot
<1>2. CASE Edit
  BY <1>2, StoreInvEdits
<1>3. CASE Loop1s \/ Loop10s
  BY <1>3, StoreInvSaves
<1>4. CASE PowerLoss
  BY <1>4, StoreInvCrashes
<1>5. CASE UNCHANGED <<vars, storeVars>>
  <2>1. UNCHANGED vars
    BY <1>5
  <2>2. VectorInv' /\ ParentsAlive'
    BY <2>1, NestingStep DEF StoreInv
  <2>3. UNCHANGED <<kind, modules_json, state_json, last_state_json, enabled, phase, next,
                    failed, edits, faults>>
    BY <1>5 DEF vars, storeVars, disk, caches
  <2>4. FilesOK' /\ BootOK' /\ CountsOK'
    BY <2>3 DEF StoreInv, FilesOK, BootOK, CountsOK, Entries
  <2> QED BY <2>2, <2>4 DEF StoreInv
<1> QED BY <1>1, <1>2, <1>3, <1>4, <1>5 DEF StoreNext

(* Whatever clients do, whichever writes fail and whenever power is lost:  *)
(* a file is torn, absent or readable, the caches never hold a torn file,  *)
(* and a load never walks off the end of the list.                         *)
THEOREM StoreTypeCorrect == StoreSpec => []StoreTypeOK
<1>1. StoreInv => StoreTypeOK
  <2> SUFFICES ASSUME StoreInv PROVE StoreTypeOK
    OBVIOUS
  <2>1. TypeOK
    BY VectorInvHolds DEF StoreInv
  <2>2. \A i \in DOMAIN Entries : /\ Entries[i].id \in Id /\ Entries[i].type \in Type
                                  /\ Entries[i].parent \in Id \cup {NoId}
    BY TreeOfBoot DEF Row
  <2>3. ASSUME NEW x \in Setting PROVE SettingsOf(x)
    <3>1. /\ DOMAIN x = {"enabled", "inputs"} /\ x.enabled \in BOOLEAN
          /\ \E names \in SUBSET Name : x.inputs \in [names -> Id \cup {NoId}]
      BY DEF Setting
    <3>2. \A in \in DOMAIN x.inputs : in \in Name /\ x.inputs[in] \in Id \cup {NoId}
      BY <3>1
    <3> QED BY <3>1, <3>2 DEF SettingsOf
  <2>4. \A m \in Id : state_json[m] \in {NoFile, Torn} \/ SettingsOf(state_json[m])
    BY <2>3 DEF StoreInv, FilesOK
  <2>5. \A m \in Id : \/ last_state_json[m] = NoFile
                      \/ last_state_json[m] # Torn /\ SettingsOf(last_state_json[m])
    BY <2>3, StoreAssumption DEF StoreInv, FilesOK
  <2> QED BY <2>1, <2>2, <2>4, <2>5 DEF StoreTypeOK, StoreInv, BootOK, CountsOK
<1> QED BY <1>1, StoreInvInit, StoreInvStep, PTL DEF StoreSpec

-----------------------------------------------------------------------------
(* A boot restores the tree.  Of the n entries pass 1 has come to: their   *)
(* modules are live, and those that are roots stand in order.              *)
Loads(rows, n, live, types, par, order) ==
  /\ live = HeadIds \cup {rows[i].id : i \in 1 .. n}
  /\ \A i \in 1 .. n : types[rows[i].id] = rows[i].type
  /\ \A i, j \in 1 .. n :
       /\ i < j /\ rows[i].id \notin HeadIds /\ rows[j].id \notin HeadIds
       /\ par[rows[i].id] = NoId /\ par[rows[j].id] = NoId
       => Before(order, rows[i].id, rows[j].id)

(* Of the n entries pass 2 has come to: their modules have their parents,  *)
(* nothing else has one, and siblings stand in order.                      *)
Links(rows, n, live, par, kids) ==
  /\ \A i \in 1 .. n : par[rows[i].id] = Restorer(rows[i].parent)
  /\ \A m \in live : par[m] = NoId \/ \E i \in 1 .. n : rows[i].id = m
  /\ \A i, j \in 1 .. n :
       i < j /\ rows[i].parent = rows[j].parent /\ rows[i].parent \in live
       => Before(kids[rows[i].parent], rows[i].id, rows[j].id)

(* The entries of a list name different modules, of the types of the heads *)
(* where they name heads.                                                  *)
LEMMA EntriesDiffer ==
  ASSUME NEW rows \in Seq(Row), LoadsBack(rows), NEW i \in 1 .. Len(rows)
  PROVE  /\ rows[i] \in Row /\ rows[i].id \in Id /\ rows[i].id # Store
         /\ rows[i].type \in Type \ {StoreType} /\ rows[i].parent \in Id \cup {NoId}
         /\ rows[i].id \in HeadIds => rows[i].type = HeadType(rows[i].id)
         /\ \A j \in 1 .. Len(rows) : rows[i].id = rows[j].id => i = j
<1>1. rows[i] \in Row
  OBVIOUS
<1> QED BY <1>1 DEF Row, LoadsBack

(* Pass 1 finds the module of an entry only if it is a head.               *)
LEMMA LoadFound ==
  ASSUME NEW rows \in Seq(Row), LoadsBack(rows), NEW n \in Nat, n < Len(rows),
         NEW live, NEW types, NEW par, NEW order,
         Loads(rows, n, live, types, par, order),
         \A h \in HeadIds : types[h] = HeadType(h),
         rows[n + 1].id \in live
  PROVE  Loads(rows, n + 1, live, types, par, order)
<1> DEFINE m == rows[n + 1].id
<1>1. n + 1 \in 1 .. Len(rows) /\ \A i \in 1 .. n : i \in 1 .. Len(rows) /\ i # n + 1
  OBVIOUS
<1>2. \A i \in 1 .. n : rows[i].id # m
  BY <1>1, EntriesDiffer
<1>3. m \in HeadIds
  BY <1>2 DEF Loads
<1>4. types[m] = rows[n + 1].type
  BY <1>1, <1>3, EntriesDiffer
<1>5. \A i \in 1 .. n + 1 : i \in 1 .. n \/ i = n + 1
  OBVIOUS
<1>6. live = HeadIds \cup {rows[i].id : i \in 1 .. n + 1}
  BY <1>3, <1>5 DEF Loads
<1> QED BY <1>3, <1>4, <1>5, <1>6 DEF Loads

(* Pass 1 adds the module of an entry behind those of the entries before.  *)
LEMMA LoadOne ==
  ASSUME NEW rows \in Seq(Row), LoadsBack(rows), NEW n \in Nat, n < Len(rows),
         NEW live \in SUBSET Id, NEW types \in [Id -> Type \cup {NoType}], NEW par, NEW order,
         Loads(rows, n, live, types, par, order), ListsOnce(order, live),
         rows[n + 1].id \notin live
  PROVE  Loads(rows, n + 1, live \cup {rows[n + 1].id},
               [types EXCEPT ![rows[n + 1].id] = rows[n + 1].type], par,
               Append(order, rows[n + 1].id))
<1> DEFINE m == rows[n + 1].id
           t == rows[n + 1].type
           new == [types EXCEPT ![m] = t]
           longer == Append(order, m)
<1>1. /\ n + 1 \in 1 .. Len(rows) /\ \A i \in 1 .. n : i \in 1 .. Len(rows)
      /\ \A i \in 1 .. n + 1 : i \in 1 .. n \/ i = n + 1
  OBVIOUS
<1>2. m \in Id /\ \A i \in 1 .. n : rows[i].id \in live /\ rows[i].id \in Id /\ rows[i].id # m
  BY <1>1, EntriesDiffer DEF Loads
<1>3. live \cup {m} = HeadIds \cup {rows[i].id : i \in 1 .. n + 1}
  BY <1>1 DEF Loads
<1>4. \A i \in 1 .. n + 1 : new[rows[i].id] = rows[i].type
  BY <1>1, <1>2 DEF Loads
<1>5. ASSUME NEW i \in 1 .. n + 1, NEW j \in 1 .. n + 1, i < j,
             rows[i].id \notin HeadIds, rows[j].id \notin HeadIds,
             par[rows[i].id] = NoId, par[rows[j].id] = NoId
      PROVE  Before(longer, rows[i].id, rows[j].id)
  <2>1. order \in Seq(Id) /\ Range(order) = live /\ i \in 1 .. n
    BY <1>5 DEF ListsOnce
  <2>2. Before(longer, rows[i].id, rows[j].id)
          <=> Before(order, rows[i].id, rows[j].id) \/ (rows[i].id \in Range(order) /\ rows[j].id = m)
    BY <1>2, <2>1, BeforeAppend
  <2>3. CASE j \in 1 .. n
    BY <1>5, <2>1, <2>2, <2>3 DEF Loads
  <2>4. CASE j = n + 1
    BY <1>2, <2>1, <2>2, <2>4
  <2> QED BY <1>1, <2>3, <2>4
<1> QED BY <1>3, <1>4, <1>5 DEF Loads

(* Pass 2 leaves a module that is saved as a root, or in the store, where  *)
(* pass 1 has put it.                                                      *)
LEMMA LinkNone ==
  ASSUME NEW rows \in Seq(Row), LoadsBack(rows), NEW n \in Nat, n < Len(rows),
         NEW live \in SUBSET Id, NEW par, NEW kids,
         Links(rows, n, live, par, kids), Store \notin live,
         rows[n + 1].id \in live, rows[n + 1].parent \in {NoId, Store}
  PROVE  Links(rows, n + 1, live, par, kids)
<1>1. /\ n + 1 \in 1 .. Len(rows) /\ \A i \in 1 .. n : i \in 1 .. Len(rows) /\ i # n + 1
      /\ \A i \in 1 .. n + 1 : i \in 1 .. n \/ i = n + 1
  OBVIOUS
<1>2. \A i \in 1 .. n : rows[i].id # rows[n + 1].id
  BY <1>1, EntriesDiffer
<1>3. par[rows[n + 1].id] = NoId
  BY <1>2 DEF Links
<1>4. NoId \notin live
  BY TreeAssumption
<1>5. \A i \in 1 .. n + 1 : par[rows[i].id] = Restorer(rows[i].parent)
  BY <1>1, <1>3 DEF Links, Restorer
<1>6. \A x \in live : par[x] = NoId \/ \E i \in 1 .. n + 1 : rows[i].id = x
  <2>1. \A i \in 1 .. n : i \in 1 .. n + 1
    OBVIOUS
  <2> QED BY <2>1 DEF Links
<1>7. ASSUME NEW i \in 1 .. n + 1, NEW j \in 1 .. n + 1, i < j,
             rows[i].parent = rows[j].parent, rows[i].parent \in live
      PROVE  Before(kids[rows[i].parent], rows[i].id, rows[j].id)
  <2>1. i \in 1 .. n /\ j \in 1 .. n
    BY <1>1, <1>4, <1>7
  <2> QED BY <1>7, <2>1 DEF Links
<1> QED BY <1>5, <1>6, <1>7 DEF Links

(* Pass 2 appends a module to the children of its parent, behind those it  *)
(* has put there before.                                                   *)
LEMMA LinkOne ==
  ASSUME NEW rows \in Seq(Row), LoadsBack(rows), NEW n \in Nat, n < Len(rows),
         NEW live \in SUBSET Id, NEW par \in [Id -> Id \cup {NoId, Freed}],
         NEW kids \in [Id -> Seq(Id)], Agree(live, par, kids),
         Links(rows, n, live, par, kids), Store \notin live,
         \A i \in 1 .. Len(rows) : rows[i].id \in live,
         rows[n + 1].parent \in live
  PROVE  Links(rows, n + 1, live, [par EXCEPT ![rows[n + 1].id] = rows[n + 1].parent],
               [kids EXCEPT ![rows[n + 1].parent] = Append(@, rows[n + 1].id)])
<1> DEFINE m == rows[n + 1].id
           p == rows[n + 1].parent
           par2 == [par EXCEPT ![m] = p]
           kids2 == [kids EXCEPT ![p] = Append(@, m)]
<1>1. /\ n + 1 \in 1 .. Len(rows)
      /\ \A i \in 1 .. n : i \in 1 .. Len(rows) /\ i # n + 1 /\ i \in 1 .. n + 1
      /\ \A i \in 1 .. n + 1 : i \in 1 .. n \/ i = n + 1
  OBVIOUS
<1>2. m \in Id /\ \A i \in 1 .. n : rows[i].id # m /\ rows[i].id \in Id
  BY <1>1, EntriesDiffer
<1>3. p \in Id /\ p # Store
  OBVIOUS
<1> HIDE DEF m, p
<1>4. par2[m] = p /\ \A x \in Id \ {m} : par2[x] = par[x]
  BY <1>2
<1>5. kids2[p] = Append(kids[p], m) /\ \A x \in Id \ {p} : kids2[x] = kids[x]
  BY <1>3
<1> HIDE DEF par2, kids2
<1>6. \A i \in 1 .. n + 1 : par2[rows[i].id] = Restorer(rows[i].parent)
  <2>1. Restorer(p) = p
    BY <1>3 DEF Restorer
  <2>2. \A i \in 1 .. n : par2[rows[i].id] = Restorer(rows[i].parent)
    BY <1>2, <1>4 DEF Links
  <2> QED BY <1>1, <1>4, <2>1, <2>2 DEF m, p
<1>7. \A x \in live : par2[x] = NoId \/ \E i \in 1 .. n + 1 : rows[i].id = x
  <2>1. n + 1 \in 1 .. n + 1
    OBVIOUS
  <2> QED BY <1>1, <1>4, <2>1 DEF Links, m
<1>8. ASSUME NEW i \in 1 .. n + 1, NEW j \in 1 .. n + 1, i < j,
             rows[i].parent = rows[j].parent, rows[i].parent \in live
      PROVE  Before(kids2[rows[i].parent], rows[i].id, rows[j].id)
  <2> DEFINE q == rows[i].parent
             a == rows[i].id
             b == rows[j].id
  <2>1. i \in 1 .. n /\ q \in Id /\ a \in live
    BY <1>1, <1>8
  <2>2. CASE j \in 1 .. n
    <3>1. Before(kids[q], a, b)
      BY <1>8, <2>1, <2>2 DEF Links
    <3>2. CASE q = p
      <4>1. kids[p] \in Seq(Id)
        BY <1>3
      <4>2. Before(Append(kids[p], m), a, b)
              <=> Before(kids[p], a, b) \/ (a \in Range(kids[p]) /\ b = m)
        BY <1>2, <4>1, BeforeAppend
      <4> QED BY <1>5, <3>1, <3>2, <4>2
    <3>3. CASE q # p
      BY <1>5, <2>1, <3>1, <3>3
    <3> QED BY <3>2, <3>3
  <2>3. CASE j = n + 1
    <3>1. q = p /\ b = m
      BY <1>8, <2>3 DEF m, p
    <3>2. par[a] = p
      BY <1>3, <2>1, <3>1 DEF Links, Restorer
    <3>3. a \in Range(kids[p])
      BY <1>8, <2>1, <3>1, <3>2 DEF Agree
    <3>4. kids[p] \in Seq(Id)
      BY <1>3
    <3>5. Before(Append(kids[p], m), a, b)
            <=> Before(kids[p], a, b) \/ (a \in Range(kids[p]) /\ b = m)
      BY <1>2, <3>4, BeforeAppend
    <3> QED BY <1>5, <3>1, <3>3, <3>5
  <2> QED BY <1>1, <2>2, <2>3
<1> QED BY <1>6, <1>7, <1>8 DEF Links, m, p, par2, kids2

(* The modules pass 2 has come to are nested as the list says, which has   *)
(* no cycle.                                                               *)
LEMMA BootIsAcyclic ==
  ASSUME NEW rows \in Seq(Row), LoadsBack(rows), NEW n \in Nat, n <= Len(rows),
         NEW live \in SUBSET Id, NEW par, NEW kids, Links(rows, n, live, par, kids),
         NEW S \in SUBSET live, S # {}
  PROVE  \E x \in S : par[x] \notin S
<1> DEFINE ids == {rows[i].id : i \in DOMAIN rows}
<1>1. NoId \notin S /\ DOMAIN rows = 1 .. Len(rows)
  BY TreeAssumption
<1>2. \A x \in S : par[x] = NoId \/ \E i \in 1 .. n : rows[i].id = x
  BY DEF Links
<1>3. \A i \in 1 .. n : i \in 1 .. Len(rows) /\ par[rows[i].id] \in {rows[i].parent, NoId}
  BY DEF Links, Restorer
<1>4. CASE S \subseteq ids
  <2>1. PICK i \in DOMAIN rows : rows[i].id \in S /\ rows[i].parent \notin S
    BY <1>4 DEF LoadsBack
  <2> DEFINE x == rows[i].id
  <2>2. CASE \E j \in 1 .. n : rows[j].id = x
    <3>1. i \in 1 .. n
      BY <1>1, <1>3, <2>1, <2>2, EntriesDiffer
    <3> QED BY <1>1, <1>3, <2>1, <3>1
  <2>3. CASE ~ \E j \in 1 .. n : rows[j].id = x
    BY <1>1, <1>2, <2>1, <2>3
  <2> QED BY <2>2, <2>3
<1>5. CASE ~ (S \subseteq ids)
  BY <1>1, <1>2, <1>3, <1>5
<1> QED BY <1>4, <1>5

-----------------------------------------------------------------------------
(* A list has one entry for each module of listed, in the order they stand *)
(* in.                                                                     *)
Lists(list, listed, order, types, par) ==
  /\ DOMAIN list = 1 .. Len(list)
  /\ \A i \in DOMAIN list :
       /\ list[i].id \in listed
       /\ list[i] = [type |-> types[list[i].id], id |-> list[i].id, parent |-> par[list[i].id]]
  /\ \A m \in listed : \E i \in DOMAIN list : list[i].id = m
  /\ \A i, j \in DOMAIN list : list[i].id = list[j].id => i = j
  /\ \A i, j \in DOMAIN list : i < j => Before(order, list[i].id, list[j].id)

(* snapshot_modules_ lists every module but the stores, in vector order.   *)
LEMMA ListingLists ==
  ASSUME VectorInv
  PROVE  Lists(Listing, {m \in Live : kind[m] # StoreType}, modules, kind, parent)
<1> DEFINE saved == Keep(modules, {m \in Id : kind[m] # StoreType})
           row == [m \in Id |-> [type |-> kind[m], id |-> m, parent |-> parent[m]]]
           n == Len(saved)
           listed == {m \in Live : kind[m] # StoreType}
<1>1. modules \in Seq(Id) /\ Injective(modules) /\ Range(modules) = Live /\ Live \subseteq Id
  BY DEF VectorInv, ListsOnce, Live
<1>2. /\ saved \in Seq(Id) /\ Injective(saved)
      /\ Range(saved) = Range(modules) \cap {m \in Id : kind[m] # StoreType}
  BY <1>1, KeepElements
<1>3. \A a, b : Before(saved, a, b) => Before(modules, a, b)
  BY <1>1, KeepElements
<1>4. Listing = [i \in DOMAIN saved |-> row[saved[i]]]
  BY DEF Listing
<1> HIDE DEF saved
<1>5. n \in Nat /\ DOMAIN saved = 1 .. n /\ Range(saved) = listed
  BY <1>1, <1>2
<1> HIDE DEF n, listed
<1>6. \A i \in 1 .. n : saved[i] \in listed /\ saved[i] \in Id
  BY <1>2, <1>5 DEF Range
<1>7. Listing = [i \in 1 .. n |-> [type |-> kind[saved[i]], id |-> saved[i],
                                   parent |-> parent[saved[i]]]]
  BY <1>4, <1>5, <1>6
<1>8. DOMAIN Listing = 1 .. n /\ Len(Listing) = n
  BY <1>5, <1>7
<1>9. \A i \in 1 .. n : Listing[i].id = saved[i]
  BY <1>7
<1>10. \A i \in 1 .. n : Listing[i] = [type |-> kind[saved[i]], id |-> saved[i],
                                        parent |-> parent[saved[i]]]
  BY <1>7
<1> HIDE DEF Listing
<1>11. ASSUME NEW m \in listed PROVE \E i \in 1 .. n : Listing[i].id = m
  <2>1. PICK i \in 1 .. n : saved[i] = m
    BY <1>5 DEF Range
  <2> QED BY <1>9, <2>1
<1>12. ASSUME NEW i \in 1 .. n, NEW j \in 1 .. n
       PROVE  /\ Listing[i].id = Listing[j].id => i = j
              /\ i < j => Before(modules, Listing[i].id, Listing[j].id)
  <2>1. Listing[i].id = saved[i] /\ Listing[j].id = saved[j]
    BY <1>9
  <2>2. saved[i] = saved[j] => i = j
    BY <1>2, <1>5 DEF Injective
  <2>3. i < j => Before(saved, saved[i], saved[j])
    BY <1>5 DEF Before
  <2> QED BY <1>3, <2>1, <2>2, <2>3
<1> QED BY <1>6, <1>8, <1>9, <1>10, <1>11, <1>12 DEF Lists, listed

(* The heads keep their types, and the store's type is the store's.        *)
HeadKinds ==
  /\ \A h \in HeadIds : kind[h] \in {HeadType(h), NoType}
  /\ phase # "run" => \A h \in HeadIds : kind[h] = HeadType(h)

OnlyStore == \A m \in Live : kind[m] = StoreType => m = Store

(* What snapshot_modules_ writes can be loaded back: the parents it names  *)
(* are listed, as none dangles, and have an input for what is nested in    *)
(* them, as every nesting went through one.                                *)
LEMMA ListingLoadsBack ==
  ASSUME VectorInv, ParentsAlive, Acyclic, FlagFitsParent, HeadKinds, OnlyStore
  PROVE  LoadsBack(Listing)
<1> DEFINE listed == {m \in Live : kind[m] # StoreType}
<1>1. Lists(Listing, listed, modules, kind, parent)
  BY ListingLists
<1> HIDE DEF Listing
<1>2. \A i \in DOMAIN Listing :
        /\ Listing[i].id \in Live /\ kind[Listing[i].id] # StoreType
        /\ Listing[i].type = kind[Listing[i].id] /\ Listing[i].parent = parent[Listing[i].id]
  BY <1>1 DEF Lists
<1>3. ASSUME NEW i \in DOMAIN Listing, Listing[i].id \in HeadIds
      PROVE  Listing[i].type = HeadType(Listing[i].id)
  BY <1>2, <1>3 DEF HeadKinds, Live
<1>4. ASSUME NEW i \in DOMAIN Listing, Listing[i].parent \notin {NoId, Store}
      PROVE  \E j \in DOMAIN Listing : /\ Listing[j].id = Listing[i].parent
                                       /\ Nests(Listing[i].type, Listing[j].type)
  <2> DEFINE m == Listing[i].id
             p == parent[m]
  <2>1. m \in Live /\ p \in Live /\ p # Store /\ p # NoId
    BY <1>2, <1>4 DEF ParentsAlive
  <2>2. p \in listed
    BY <2>1 DEF OnlyStore
  <2>3. PICK j \in DOMAIN Listing : Listing[j].id = p
    BY <1>1, <2>2 DEF Lists
  <2>4. flag[m] # NoInput /\ flag[m] = ParentInput(m, p)
    BY <2>1 DEF FlagFitsParent
  <2>5. Nests(kind[m], kind[p])
    BY <2>4 DEF ParentInput, Nests
  <2> QED BY <1>2, <2>3, <2>5
<1>5. ASSUME NEW S \in SUBSET {Listing[i].id : i \in DOMAIN Listing}, S # {}
      PROVE  \E i \in DOMAIN Listing : Listing[i].id \in S /\ Listing[i].parent \notin S
  <2>1. S \in SUBSET Live
    BY <1>2
  <2>2. PICK x \in S : parent[x] \notin S
    BY <1>5, <2>1 DEF Acyclic
  <2> QED BY <1>2, <2>2
<1>6. \A i, j \in DOMAIN Listing : Listing[i].id = Listing[j].id => i = j
  BY <1>1 DEF Lists
<1> QED BY <1>2, <1>3, <1>4, <1>5, <1>6 DEF LoadsBack

(* The pairs a list of entries puts in order.                              *)
Siblings(rows, i, j) ==
  /\ i \in DOMAIN rows /\ j \in DOMAIN rows /\ i < j
  /\ rows[i].id \notin HeadIds /\ rows[j].id \notin HeadIds
  /\ Restorer(rows[i].parent) = Restorer(rows[j].parent)

(* What the user's tree of a list consists of, without its local names.    *)
LEMMA UserTreeParts ==
  ASSUME NEW rows
  PROVE  /\ DOMAIN UserTree(rows) = {"modules", "before"}
         /\ UserTree(rows) = [modules |-> UserTree(rows).modules, before |-> UserTree(rows).before]
         /\ UserTree(rows).modules
              = {rows[i] : i \in {i \in DOMAIN rows : rows[i].id \notin HeadIds}}
         /\ \A e : e \in UserTree(rows).before
                     <=> \E i, j \in DOMAIN rows : /\ Siblings(rows, i, j)
                                                   /\ e = <<rows[i].id, rows[j].id>>
<1> DEFINE users == {i \in DOMAIN rows : rows[i].id \notin HeadIds}
           siblings == {ij \in users \X users :
                          /\ ij[1] < ij[2]
                          /\ Restorer(rows[ij[1]].parent) = Restorer(rows[ij[2]].parent)}
           before == {<<rows[ij[1]].id, rows[ij[2]].id>> : ij \in siblings}
<1>1. UserTree(rows) = [modules |-> {rows[i] : i \in users}, before |-> before]
  BY DEF UserTree
<1>2. ASSUME NEW e PROVE e \in before <=> \E i, j \in DOMAIN rows :
                                            Siblings(rows, i, j) /\ e = <<rows[i].id, rows[j].id>>
  <2>1. ASSUME e \in before
        PROVE  \E i, j \in DOMAIN rows : Siblings(rows, i, j) /\ e = <<rows[i].id, rows[j].id>>
    <3>1. PICK ij \in siblings : e = <<rows[ij[1]].id, rows[ij[2]].id>>
      BY <2>1
    <3>2. ij[1] \in users /\ ij[2] \in users
      BY <3>1
    <3>3. Siblings(rows, ij[1], ij[2])
      BY <3>1, <3>2 DEF Siblings
    <3> QED BY <3>1, <3>2, <3>3
  <2>2. ASSUME NEW i \in DOMAIN rows, NEW j \in DOMAIN rows, Siblings(rows, i, j)
        PROVE  <<rows[i].id, rows[j].id>> \in before
    <3>1. <<i, j>> \in siblings
      BY <2>2 DEF Siblings
    <3> QED BY <3>1
  <2> QED BY <2>1, <2>2
<1> HIDE DEF before
<1> QED BY <1>1, <1>2

(* A file that does not parse says that nothing was saved.                 *)
LEMMA EmptyTree == UserTree(<<>>) = Durable!Nothing
<1>1. UserTree(<<>>).modules = {}
  BY UserTreeParts
<1>2. UserTree(<<>>).before = {}
  <2>1. \A e : e \notin UserTree(<<>>).before
    BY UserTreeParts
  <2> QED BY <2>1
<1> QED BY <1>1, <1>2, UserTreeParts DEF Durable!Nothing

(* Both passes are through with rows. *)
BootDone(rows, live, types, par, kids, order) ==
  /\ rows \in Seq(Row) /\ LoadsBack(rows)
  /\ live \subseteq Id /\ Store \notin live /\ kids \in [Id -> Seq(Id)]
  /\ Agree(live, par, kids) /\ ListsOnce(order, live) /\ Nested(order, live, kids)
  /\ Loads(rows, Len(rows), live, types, par, order)
  /\ Links(rows, Len(rows), live, par, kids)

(* list names the user's tree that rows named, as a boot brings it back.   *)
SameUserTree(list, rows) == UserTree(list) = Durable!Restored(UserTree(rows))

(* After both passes the tree says what the list said: the list of the     *)
(* modules now, and the one they were loaded from, have the same modules   *)
(* nested the same way, and the same order among those nested together.    *)
LEMMA BootRestores ==
  ASSUME NEW rows, NEW live, NEW types, NEW par, NEW kids, NEW order,
         BootDone(rows, live, types, par, kids, order),
         NEW list, Lists(list, live, order, types, par)
  PROVE  SameUserTree(list, rows)
<1> SUFFICES UserTree(list) = Durable!Restored(UserTree(rows))
  BY DEF SameUserTree
<1> /\ rows \in Seq(Row) /\ LoadsBack(rows) /\ live \subseteq Id /\ Store \notin live
    /\ kids \in [Id -> Seq(Id)]
    /\ Agree(live, par, kids) /\ ListsOnce(order, live) /\ Nested(order, live, kids)
    /\ Loads(rows, Len(rows), live, types, par, order)
    /\ Links(rows, Len(rows), live, par, kids)
  BY DEF BootDone
<1> DEFINE n == Len(rows)
           Back(r) == [type |-> r.type, id |-> r.id, parent |-> Restorer(r.parent)]
<1>1. /\ DOMAIN rows = 1 .. n /\ n \in Nat
      /\ \A i \in 1 .. n : rows[i] \in Row
  OBVIOUS
<1>2. ASSUME NEW i \in DOMAIN list, list[i].id \notin HeadIds
      PROVE  \E k \in 1 .. n : rows[k].id = list[i].id /\ list[i] = Back(rows[k])
  <2>1. list[i].id \in live
    BY DEF Lists
  <2>2. PICK k \in 1 .. n : rows[k].id = list[i].id
    BY <1>2, <2>1 DEF Loads
  <2>3. types[rows[k].id] = rows[k].type /\ par[rows[k].id] = Restorer(rows[k].parent)
    BY DEF Loads, Links
  <2>4. list[i] = [type |-> types[list[i].id], id |-> list[i].id, parent |-> par[list[i].id]]
    BY DEF Lists
  <2> QED BY <2>2, <2>3, <2>4
<1>3. ASSUME NEW k \in 1 .. n PROVE \E i \in DOMAIN list : list[i].id = rows[k].id
  <2>1. rows[k].id \in live
    BY DEF Loads
  <2> QED BY <2>1 DEF Lists
<1>4. \A k \in 1 .. n : \A i \in DOMAIN list :
        list[i].id = rows[k].id /\ rows[k].id \notin HeadIds => list[i] = Back(rows[k])
  BY <1>1, <1>2, EntriesDiffer
<1>5. \A r \in Row : (IF r.parent \in {Store} THEN [r EXCEPT !.parent = NoId] ELSE r) = Back(r)
  <2> SUFFICES ASSUME NEW r \in Row
               PROVE  (IF r.parent \in {Store} THEN [r EXCEPT !.parent = NoId] ELSE r) = Back(r)
    OBVIOUS
  <2>1. r = [type |-> r.type, id |-> r.id, parent |-> r.parent]
    BY DEF Row
  <2>2. [r EXCEPT !.parent = NoId] = [type |-> r.type, id |-> r.id, parent |-> NoId]
    BY <2>1
  <2> QED BY <2>1, <2>2 DEF Restorer
<1>6. UserTree(list).modules = {Back(r) : r \in UserTree(rows).modules}
  <2> DEFINE A == {list[i] : i \in {i \in DOMAIN list : list[i].id \notin HeadIds}}
             B == {rows[k] : k \in {k \in DOMAIN rows : rows[k].id \notin HeadIds}}
  <2>1. UserTree(list).modules = A /\ UserTree(rows).modules = B
    BY UserTreeParts
  <2>2. ASSUME NEW i \in DOMAIN list, list[i].id \notin HeadIds
        PROVE  \E k \in DOMAIN rows : rows[k].id \notin HeadIds /\ list[i] = Back(rows[k])
    BY <1>1, <1>2, <2>2
  <2>3. ASSUME NEW k \in DOMAIN rows, rows[k].id \notin HeadIds
        PROVE  \E i \in DOMAIN list : list[i].id \notin HeadIds /\ list[i] = Back(rows[k])
    <3>1. PICK i \in DOMAIN list : list[i].id = rows[k].id
      BY <1>1, <1>3
    <3> QED BY <1>1, <1>4, <2>3, <3>1
  <2> HIDE DEF Back
  <2>4. A = {Back(r) : r \in B}
    BY <2>2, <2>3
  <2> QED BY <2>1, <2>4
<1>7. ASSUME NEW k \in 1 .. n, NEW l \in 1 .. n, Siblings(rows, k, l)
      PROVE  Before(order, rows[k].id, rows[l].id)
  <2> DEFINE q == Restorer(rows[k].parent)
  <2>1. /\ par[rows[k].id] = q /\ par[rows[l].id] = q /\ k < l
        /\ rows[k].id \notin HeadIds /\ rows[l].id \notin HeadIds
    BY <1>7 DEF Siblings, Links
  <2>2. CASE q = NoId
    BY <2>1, <2>2 DEF Loads
  <2>3. CASE q # NoId
    <3>1. rows[k].parent = q /\ rows[l].parent = q /\ q \in Id /\ q # Freed
      BY <1>7, <2>3, EntriesDiffer, TreeAssumption DEF Siblings, Restorer
    <3>2. rows[k].id \in live
      BY DEF Loads
    <3>3. q \in live
      BY <2>1, <2>3, <3>1, <3>2 DEF Agree
    <3>4. Before(kids[q], rows[k].id, rows[l].id)
      BY <2>1, <3>1, <3>3 DEF Links
    <3> QED BY <3>3, <3>4 DEF Nested, InChildOrder
  <2> QED BY <2>2, <2>3
<1>8. \A a, b : Before(order, a, b) => ~ Before(order, b, a)
  BY BeforeOrders DEF ListsOnce
<1>9. \A x \in Id \cup {NoId} : Restorer(Restorer(x)) = Restorer(x)
  BY StoreAssumption, TreeAssumption DEF Restorer
<1>10. ASSUME NEW i \in DOMAIN list, NEW j \in DOMAIN list,
              NEW k \in 1 .. n, NEW l \in 1 .. n,
              list[i].id = rows[k].id, list[j].id = rows[l].id
       PROVE  Siblings(list, i, j) <=> Siblings(rows, k, l)
  <2>1. CASE rows[k].id \notin HeadIds /\ rows[l].id \notin HeadIds
    <3>1. list[i].parent = Restorer(rows[k].parent) /\ list[j].parent = Restorer(rows[l].parent)
      BY <1>4, <1>10, <2>1
    <3>2. rows[k].parent \in Id \cup {NoId} /\ rows[l].parent \in Id \cup {NoId}
      BY EntriesDiffer
    <3>3. Restorer(list[i].parent) = Restorer(list[j].parent)
            <=> Restorer(rows[k].parent) = Restorer(rows[l].parent)
      BY <1>9, <3>1, <3>2
    <3>4. i \in 1 .. Len(list) /\ j \in 1 .. Len(list) /\ (i = j <=> k = l)
      BY <1>10, EntriesDiffer DEF Lists
    <3>5. i < j => Before(order, rows[k].id, rows[l].id)
      BY <1>10 DEF Lists
    <3>6. j < i => Before(order, rows[l].id, rows[k].id)
      BY <1>10 DEF Lists
    <3>7. Siblings(rows, k, l) => Before(order, rows[k].id, rows[l].id)
      BY <1>7
    <3>8. Siblings(rows, l, k) => Before(order, rows[l].id, rows[k].id)
      BY <1>7
    <3>9. (i < j \/ i = j \/ j < i) /\ ~ (i < j /\ i = j) /\ ~ (j < i /\ i = j)
          /\ (k < l \/ k = l \/ l < k) /\ ~ (k < l /\ k = l) /\ ~ (l < k /\ k = l)
      BY <3>4
    <3>10. CASE Restorer(rows[k].parent) = Restorer(rows[l].parent)
      <4>1. k < l => Siblings(rows, k, l)
        BY <1>1, <2>1, <3>10 DEF Siblings
      <4>2. l < k => Siblings(rows, l, k)
        BY <1>1, <2>1, <3>10 DEF Siblings
      <4>3. i < j <=> k < l
        BY <1>8, <3>4, <3>5, <3>6, <3>7, <3>8, <3>9, <4>1, <4>2
      <4> QED BY <1>1, <1>10, <3>3, <4>3 DEF Siblings
    <3>11. CASE Restorer(rows[k].parent) # Restorer(rows[l].parent)
      BY <3>3, <3>11 DEF Siblings
    <3> QED BY <3>10, <3>11
  <2>2. CASE ~ (rows[k].id \notin HeadIds /\ rows[l].id \notin HeadIds)
    BY <1>10, <2>2 DEF Siblings
  <2> QED BY <2>1, <2>2
<1>11. UserTree(list).before = UserTree(rows).before
  <2> DEFINE A == UserTree(list).before
             B == UserTree(rows).before
  <2>1. ASSUME NEW e \in A PROVE e \in B
    <3>1. PICK i \in DOMAIN list, j \in DOMAIN list :
            Siblings(list, i, j) /\ e = <<list[i].id, list[j].id>>
      BY UserTreeParts
    <3>2. list[i].id \notin HeadIds /\ list[j].id \notin HeadIds
      BY <3>1 DEF Siblings
    <3>3. PICK k \in 1 .. n, l \in 1 .. n : rows[k].id = list[i].id /\ rows[l].id = list[j].id
      BY <1>2, <3>2
    <3>4. Siblings(rows, k, l) /\ e = <<rows[k].id, rows[l].id>>
      BY <1>10, <3>1, <3>3
    <3> QED BY <1>1, <3>4, UserTreeParts
  <2>2. ASSUME NEW e \in B PROVE e \in A
    <3>1. PICK k \in DOMAIN rows, l \in DOMAIN rows :
            Siblings(rows, k, l) /\ e = <<rows[k].id, rows[l].id>>
      BY UserTreeParts
    <3>2. PICK i \in DOMAIN list, j \in DOMAIN list :
            list[i].id = rows[k].id /\ list[j].id = rows[l].id
      BY <1>1, <1>3
    <3>3. Siblings(list, i, j) /\ e = <<list[i].id, list[j].id>>
      BY <1>1, <1>10, <3>1, <3>2
    <3> QED BY <3>3, UserTreeParts
  <2> QED BY <2>1, <2>2
<1>12. Durable!Restored(UserTree(rows))
        = [modules |-> {Back(r) : r \in UserTree(rows).modules}, before |-> UserTree(rows).before]
  <2>1. UserTree(rows).modules \subseteq Row
    BY <1>1, UserTreeParts
  <2> HIDE DEF Back
  <2> QED BY <1>5, <2>1 DEF Durable!Restored
<1> HIDE DEF Back
<1> QED BY <1>6, <1>11, <1>12, UserTreeParts

-----------------------------------------------------------------------------
(* The entries the passes of a boot have come to. *)
Loaded == IF phase = "load" THEN next - 1 ELSE Len(Entries)
Linked == IF phase = "link" THEN next - 1 ELSE 0

BootInv ==
  phase # "run" => /\ Loads(Entries, Loaded, Live, kind, parent, modules)
                   /\ Links(Entries, Linked, Live, parent, children)

(* The tree is one the web UI can have made, and what is on the disk, if   *)
(* anything, is a list it can be restored from.                            *)
RestoreInv ==
  /\ StoreInv /\ NestedInv /\ FlagInv
  /\ HeadKinds /\ OnlyStore
  /\ LoadsBack(Entries)
  /\ BootInv

(* A new root keeps a forest a forest, and the vector in depth-first order. *)
LEMMA NewRootNests ==
  ASSUME NestedInv, FlagInv, NEW m, NEW t, NewRoot(m, t),
         link' \in [Id -> [Name -> Id \cup {NoId}]]
  PROVE  NestedInv' /\ FlagInv'
<1>1. VectorInv /\ TreeInv /\ ParentsAlive /\ Acyclic /\ Nested(modules, Live, children)
      /\ TreeTypeOK /\ ListsOnce(modules, Live) /\ Live \subseteq Id
  BY DEF NestedInv, UiVectorInv, UiInv, VectorInv, TreeInv, Live
<1>2. VectorInv' /\ ParentsAlive' /\ Live' = Live \cup {m}
  BY <1>1, NewRootStep
<1>3. m \in Id \ Live /\ modules' = Append(modules, m) /\ UNCHANGED <<parent, children, flag>>
      /\ kind' = [kind EXCEPT ![m] = t]
  BY DEF NewRoot
<1>4. Agree(Live, parent, children)
  BY <1>1, AgreeIff DEF TreeInv
<1>5. parent[m] = NoId /\ flag[m] = NoInput /\ \A x \in Live : parent[x] # m
  BY <1>1, <1>3, <1>4, TreeAssumption DEF FlagInv, NewIdsHaveNoFlag, Agree, ParentsAlive
<1>6. Acyclic'
  <2> SUFFICES ASSUME NEW S \in SUBSET (Live \cup {m}), S # {}
               PROVE  \E x \in S : parent[x] \notin S
    BY <1>2, <1>3 DEF Acyclic
  <2>1. CASE m \in S
    BY <1>1, <1>3, <1>5, <2>1, TreeAssumption
  <2>2. CASE m \notin S
    BY <2>2 DEF Acyclic, NestedInv, UiVectorInv, UiInv
  <2> QED BY <2>1, <2>2
<1>7. Nested(modules', Live', children')
  <2>1. children \in [Id -> Seq(Id)] /\ Live \in SUBSET Id
    BY <1>1 DEF TreeTypeOK
  <2>2. Nested(Append(modules, m), Live \cup {m}, children)
    BY <1>1, <1>3, <1>4, <2>1, AppendNests
  <2> QED BY <1>2, <1>3, <2>2
<1>8. NestedInv'
  BY <1>2, <1>6, <1>7 DEF NestedInv, UiVectorInv, UiInv, VectorInv, Nested, Block, InChildOrder
<1>9. NewIdsHaveNoFlag'
  BY <1>2, <1>3 DEF FlagInv, NewIdsHaveNoFlag
<1>10. FlagFitsParent'
  <2>1. ASSUME NEW x \in Live PROVE FlagFits(x, Live', kind', parent', flag')
    <3>1. FlagFits(x, Live, kind, parent, flag)
      BY FlagFitsIff DEF FlagInv
    <3>2. parent[x] # m /\ x # m /\ kind'[x] = kind[x]
      BY <1>1, <1>3, <1>5 DEF TreeTypeOK
    <3>3. parent[x] \in Live => kind'[parent[x]] = kind[parent[x]]
      BY <1>1, <1>3 DEF TreeTypeOK
    <3> QED BY <1>2, <1>3, <3>1, <3>2, <3>3 DEF FlagFits
  <2>2. FlagFits(m, Live', kind', parent', flag')
    BY <1>2, <1>3, <1>5, TreeAssumption DEF FlagFits, Live
  <2> QED BY <1>2, <2>1, <2>2, FlagFitsNext
<1> QED BY <1>2, <1>8, <1>9, <1>10 DEF FlagInv, VectorInv

(* What a boot begins with.                                                *)
LEMMA HeadsCanBoot ==
  ASSUME HeadsOnly, crashed \in BOOLEAN, phase = "load", next = 1, Len(Entries) \in Nat
  PROVE  NestedInv /\ FlagInv /\ HeadKinds /\ OnlyStore /\ BootInv
<1>1. VectorInv /\ ParentsAlive /\ kind[Store] = NoType
  BY HeadsAreATree
<1>2. /\ HeadIds \subseteq Id /\ Store \notin HeadIds
      /\ \A m \in HeadIds : HeadType(m) \in Type
  BY HeadFacts
<1>3. Live = HeadIds
  BY <1>2, TreeAssumption DEF HeadsOnly, Live
<1>4. \A m \in Id : parent[m] = NoId /\ flag[m] = NoInput /\ children[m] = <<>>
  BY DEF HeadsOnly
<1>5. Acyclic
  BY <1>2, <1>3, <1>4, TreeAssumption DEF Acyclic
<1>6. Nested(modules, Live, children)
  <2> SUFFICES ASSUME NEW m \in Live
               PROVE  Block(modules, children, m) /\ InChildOrder(modules, children, m)
    BY DEF Nested
  <2>1. InChildOrder(modules, children, m)
    BY <1>2, <1>3, <1>4 DEF InChildOrder, Before
  <2>2. ASSUME NEW x \in Below(children, m) PROVE x = m
    <3>1. m \in {m} /\ \A y \in {m} : Range(children[y]) \subseteq {m}
      BY <1>2, <1>3, <1>4 DEF Range
    <3>2. {m} \in SUBSET Id
      BY <1>2, <1>3
    <3> QED BY <2>2, <3>1, <3>2 DEF Below
  <2>3. \A y : Before(modules, m, y) => ~ Before(modules, y, m)
    BY <1>1, BeforeOrders DEF VectorInv, ListsOnce
  <2> QED BY <2>1, <2>2, <2>3 DEF Block
<1>7. NestedInv
  BY <1>1, <1>5, <1>6 DEF NestedInv, UiVectorInv, UiInv, VectorInv
<1>8. FlagInv
  BY <1>1, <1>3, <1>4, <1>2, TreeAssumption DEF FlagInv, VectorInv, NewIdsHaveNoFlag, FlagFitsParent
<1>9. HeadKinds
  BY <1>2 DEF HeadsOnly, HeadKinds
<1>10. OnlyStore
  <2>1. ASSUME NEW m \in HeadIds PROVE HeadType(m) # StoreType
    <3>1. \E i \in DOMAIN HeadModules : HeadModules[i][2] = m
      BY DEF HeadIds
    <3> QED BY <3>1, StoreAssumption DEF HeadType
  <2> QED BY <1>2, <1>3, <2>1 DEF HeadsOnly, OnlyStore
<1>11. BootInv
  BY <1>2, <1>3, <1>4 DEF BootInv, Loaded, Linked, Loads, Links
<1> QED BY <1>7, <1>8, <1>9, <1>10, <1>11

(* What RestoreInv says, in the pieces the steps need. *)
LEMMA RestoreFacts ==
  ASSUME RestoreInv
  PROVE  /\ TreeTypeOK /\ TreeInv /\ VectorInv /\ ParentsAlive /\ Acyclic /\ UiVectorInv
         /\ StoreInv /\ FilesOK /\ BootOK /\ NestedInv /\ FlagInv /\ FlagFitsParent
         /\ HeadKinds /\ OnlyStore /\ LoadsBack(Entries)
         /\ Agree(Live, parent, children) /\ ListsOnce(modules, Live) /\ Live \subseteq Id
         /\ Entries \in Seq(Row) /\ Len(Entries) \in Nat
         /\ \A i \in 1 .. Len(Entries) : Entries[i] \in Row
<1>1. StoreInv /\ NestedInv /\ FlagInv
  BY DEF RestoreInv
<1>2. VectorInv /\ ParentsAlive /\ Acyclic /\ UiVectorInv /\ ListsOnce(modules, Live)
  BY <1>1 DEF NestedInv, UiVectorInv, UiInv, VectorInv
<1>3. Agree(Live, parent, children)
  BY <1>2, AgreeIff DEF VectorInv, TreeInv
<1> QED BY <1>1, <1>2, <1>3, TreeOfBoot DEF RestoreInv, VectorInv, TreeInv, StoreInv, FlagInv, Live

(* The first boot starts with a list that loads back.                      *)
LEMMA RestoreInvInit == StoreInit => RestoreInv
<1> SUFFICES ASSUME StoreInit PROVE RestoreInv
  OBVIOUS
<1>1. StoreInv
  BY StoreInvInit
<1>2. modules_json \in Seq(Row) /\ LoadsBack(modules_json) /\ Entries = modules_json
  BY StoreAssumption DEF StoreInit, Entries
<1>3. HeadsOnly /\ crashed \in BOOLEAN /\ phase = "load" /\ next = 1 /\ Len(Entries) \in Nat
  <2>1. HeadsOnly /\ crashed \in BOOLEAN /\ phase = "load" /\ next = 1
    BY DEF StoreInit, HeadsOnly
  <2>2. Len(Entries) \in Nat
    BY <1>2
  <2> QED BY <2>1, <2>2
<1>4. NestedInv /\ FlagInv /\ HeadKinds /\ OnlyStore /\ BootInv
  BY <1>3, HeadsCanBoot
<1> QED BY <1>1, <1>2, <1>4 DEF RestoreInv

(* Pass 1 has loaded the entries before next, in the order of the file.    *)
LEMMA RestoreLoads == ASSUME RestoreInv, LoadEntry PROVE RestoreInv'
<1> DEFINE m == Entries[next].id
           t == Entries[next].type
           n == next - 1
<1>1. /\ TreeTypeOK /\ NestedInv /\ FlagInv /\ HeadKinds /\ OnlyStore /\ LoadsBack(Entries)
      /\ FilesOK /\ BootOK /\ StoreInv /\ ListsOnce(modules, Live) /\ Live \subseteq Id
      /\ Entries \in Seq(Row) /\ Len(Entries) \in Nat
  BY RestoreFacts
<1>2. /\ phase = "load" /\ next \in 1 .. Len(Entries) /\ next' = next + 1
      /\ phase' = phase /\ Entries' = Entries /\ crashed' = crashed
  BY <1>1 DEF LoadEntry, BootOK, disk, Entries
<1>3. StoreInv'
  BY <1>1, StoreInvLoads
<1>4. /\ n \in Nat /\ n < Len(Entries) /\ n + 1 = next
      /\ Loads(Entries, n, Live, kind, parent, modules)
      /\ Links(Entries, 0, Live, parent, children)
  BY <1>2 DEF RestoreInv, BootInv, Loaded, Linked
<1>5. m \in Id /\ m # Store /\ t \in Type \ {StoreType} /\ (m \in HeadIds => t = HeadType(m))
  BY <1>1, <1>2, EntriesDiffer
<1>6. SUFFICES /\ NestedInv' /\ FlagInv' /\ HeadKinds' /\ OnlyStore'
               /\ Loads(Entries, next, Live', kind', parent', modules')
               /\ Links(Entries, 0, Live', parent', children')
  <2>1. Loaded' = next /\ Linked' = 0
    BY <1>2 DEF Loaded, Linked
  <2>2. LoadsBack(Entries)'
    BY <1>1, <1>2 DEF LoadsBack, Nests
  <2>3. BootInv' <=> /\ Loads(Entries, next, Live', kind', parent', modules')
                     /\ Links(Entries, 0, Live', parent', children')
    BY <1>2, <2>1 DEF BootInv, Loads, Links
  <2> QED BY <1>3, <2>2, <2>3 DEF RestoreInv
<1>7. CASE m \in Live /\ UNCHANGED <<tree, enabled>>
  <2>1. UNCHANGED vars /\ UNCHANGED <<modules, kind, parent, children>>
    BY <1>2, <1>7 DEF vars, tree
  <2>2. NestedInv' /\ FlagInv'
    BY <1>1, <2>1, NestedStep, FlagStep
  <2>3. Live' = Live
    BY <2>1 DEF Live
  <2>4. HeadKinds' /\ OnlyStore'
    BY <1>1, <1>2, <2>1, <2>3 DEF HeadKinds, OnlyStore
  <2>5. Loads(Entries, n + 1, Live, kind, parent, modules)
    <3>1. \A h \in HeadIds : kind[h] = HeadType(h)
      BY <1>1, <1>2 DEF HeadKinds
    <3> QED BY <1>1, <1>4, <1>7, <3>1, LoadFound
  <2> QED BY <1>4, <2>1, <2>2, <2>3, <2>4, <2>5
<1>8. CASE /\ m \notin Live
           /\ modules' = Append(modules, m)
           /\ kind' = [kind EXCEPT ![m] = t]
           /\ UNCHANGED <<parent, children, flag>>
  <2>1. NewRoot(m, t)
    BY <1>2, <1>5, <1>8 DEF NewRoot
  <2>2. link' \in [Id -> [Name -> Id \cup {NoId}]]
    BY <1>3 DEF StoreInv, VectorInv, TreeInv, TreeTypeOK
  <2>3. NestedInv' /\ FlagInv'
    BY <1>1, <2>1, <2>2, NewRootNests
  <2>4. Live' = Live \cup {m}
    BY <1>1, <2>1, <2>2, NewRootStep DEF StoreInv
  <2>5. HeadKinds' /\ OnlyStore'
    <3>1. kind'[m] = t /\ \A x \in Id \ {m} : kind'[x] = kind[x]
      BY <1>1, <1>5, <1>8 DEF TreeTypeOK
    <3> QED BY <1>1, <1>2, <1>5, <2>4, <3>1, HeadFacts DEF HeadKinds, OnlyStore
  <2>6. Loads(Entries, n + 1, Live \cup {m}, [kind EXCEPT ![m] = t], parent, Append(modules, m))
    <3>1. Entries[n + 1].id \notin Live /\ kind \in [Id -> Type \cup {NoType}]
      BY <1>1, <1>4, <1>8 DEF TreeTypeOK
    <3> QED BY <1>1, <1>4, <3>1, LoadOne
  <2>7. Links(Entries, 0, Live', parent', children')
    <3>1. parent[m] = NoId
      BY <1>1, <1>5, <1>8, RestoreFacts DEF Agree
    <3> QED BY <1>4, <1>8, <2>4, <3>1 DEF Links
  <2> QED BY <1>4, <1>8, <2>3, <2>4, <2>5, <2>6, <2>7
<1> QED BY <1>7, <1>8 DEF LoadEntry

(* Between the passes every entry is a live root.                          *)
LEMMA RestoreStartsLinking == ASSUME RestoreInv, StartLinking PROVE RestoreInv'
<1>1. /\ TreeTypeOK /\ NestedInv /\ FlagInv /\ HeadKinds /\ OnlyStore /\ LoadsBack(Entries)
      /\ StoreInv /\ Len(Entries) \in Nat
  BY RestoreFacts
<1>2. /\ phase = "load" /\ next = Len(Entries) + 1 /\ phase' = "link" /\ next' = 1
      /\ UNCHANGED vars /\ UNCHANGED <<modules, kind, parent, children>>
      /\ Entries' = Entries
  BY DEF StartLinking, disk, Entries, vars
<1>3. StoreInv'
  BY <1>1, StoreInvLinks
<1>4. NestedInv' /\ FlagInv'
  BY <1>1, <1>2, NestedStep, FlagStep
<1>5. Live' = Live
  BY <1>2 DEF Live
<1>6. HeadKinds' /\ OnlyStore'
  BY <1>1, <1>2, <1>5 DEF HeadKinds, OnlyStore
<1>7. /\ Loads(Entries, Len(Entries), Live, kind, parent, modules)
      /\ Links(Entries, 0, Live, parent, children)
  BY <1>1, <1>2 DEF RestoreInv, BootInv, Loaded, Linked
<1> QED
  BY <1>1, <1>2, <1>3, <1>4, <1>5, <1>6, <1>7
  DEF RestoreInv, BootInv, Loaded, Linked, LoadsBack, Loads, Links, Nests

(* A crash leaves the tree it happens in as it is.                         *)
LEMMA SameTree ==
  ASSUME NestedInv, FlagInv, crashed' \in BOOLEAN,
         UNCHANGED <<kind, modules, parent, children, link, flag>>
  PROVE  NestedInv' /\ FlagInv'
<1>1. Live' = Live /\ Roots' = Roots
  BY DEF Live, Roots
<1>2. TreeTypeOK'
  BY DEF NestedInv, UiVectorInv, UiInv, TreeInv, TreeTypeOK
<1>3. ChildListsAgree' /\ ParentsAlive' /\ Acyclic'
  BY <1>1 DEF NestedInv, UiVectorInv, UiInv, TreeInv, ChildListsAgree, ListedChildrenPointBack,
              ListedOnce, ParentListsChild, ParentsKnown, NewIdsAreClean, Kids, ParentsAlive,
              Acyclic
<1>4. UiVectorInv'
  BY <1>1, <1>2, <1>3 DEF NestedInv, UiVectorInv, UiInv, TreeInv, VectorInv, ListsOnce, Injective,
                          Range
<1>5. NestedInv'
  BY <1>1, <1>4 DEF NestedInv, Nested, Block, InChildOrder
<1>6. FlagInv'
  BY <1>1, <1>2, <1>3 DEF FlagInv, TreeInv, NewIdsHaveNoFlag, FlagFitsParent, ParentInput
<1> QED BY <1>5, <1>6

(* Pass 2 re-parents a module: it had no parent, and the sort that follows *)
(* leaves the roots in their order.                                        *)
LEMMA RelinkStep ==
  ASSUME RestoreInv, phase = "link", NEW n \in Nat, n < Len(Entries),
         Loads(Entries, Len(Entries), Live, kind, parent, modules),
         Links(Entries, n, Live, parent, children),
         Entries[n + 1].parent \in Live, Entries[n + 1].id \in Live,
         Reparent(Entries[n + 1].id, Entries[n + 1].parent), ~crashed'
  PROVE  /\ NestedInv' /\ FlagInv' /\ Live' = Live /\ UNCHANGED kind
         /\ Loads(Entries, Len(Entries), Live, kind, parent', modules')
         /\ Links(Entries, n + 1, Live, parent', children')
<1> DEFINE m == Entries[n + 1].id
           p == Entries[n + 1].parent
<1>1. /\ TreeTypeOK /\ TreeInv /\ VectorInv /\ ParentsAlive /\ UiVectorInv /\ FlagInv
      /\ BootOK /\ LoadsBack(Entries) /\ Entries \in Seq(Row) /\ Len(Entries) \in Nat
      /\ Agree(Live, parent, children) /\ Live \subseteq Id
  BY RestoreFacts
<1>2. /\ n + 1 \in 1 .. Len(Entries) /\ \A i \in 1 .. n : i \in 1 .. Len(Entries) /\ i # n + 1
  BY <1>1
<1>3. parent[m] = NoId
  <2>1. \A i \in 1 .. n : Entries[i].id # m
    BY <1>1, <1>2, EntriesDiffer
  <2> QED BY <2>1 DEF Links
<1>4. p \in Id /\ p # NoId /\ NoId # Freed /\ NoId \notin Live /\ m \in Id
  BY <1>1, TreeAssumption
<1>5. /\ parent' = [parent EXCEPT ![m] = p]
      /\ children' = [children EXCEPT ![p] = Append(@, m)]
      /\ modules' = SortDepthFirst(modules, parent', children')
      /\ UNCHANGED kind
  <2> HIDE DEF m, p
  <2>1. Reparent(m, p)
    BY DEF m, p
  <2>2. Detached(m) = children
    BY <1>3, <1>4 DEF Detached
  <2> QED BY <1>3, <1>4, <2>1, <2>2 DEF Reparent, Crash
<1>6. Live' = Live
  BY <1>5 DEF Live
<1>7. Links(Entries, n + 1, Live, parent', children')
  <2>1. Store \notin Live
    BY <1>1 DEF BootOK, Live
  <2>2. \A i \in 1 .. Len(Entries) : Entries[i].id \in Live
    BY DEF Loads
  <2>3. parent \in [Id -> Id \cup {NoId, Freed}] /\ children \in [Id -> Seq(Id)]
    BY <1>1 DEF TreeTypeOK
  <2> QED BY <1>1, <1>5, <2>1, <2>2, <2>3, LinkOne
<1>8. NestingNext /\ TidyNext
  BY <1>4 DEF NestingNext, TidyNext
<1>9. VectorInv' /\ ParentsAlive' /\ FlagInv'
  BY <1>1, <1>8, NestingStep, FlagStep
<1>10. Acyclic'
  <2>1. n + 1 \in Nat /\ n + 1 <= Len(Entries) /\ Live \in SUBSET Id
    BY <1>1, <1>2
  <2>2. \A S \in SUBSET Live : S # {} => \E x \in S : parent'[x] \notin S
    BY <1>1, <1>7, <2>1, BootIsAcyclic
  <2> QED BY <1>6, <2>2 DEF Acyclic
<1>11. UiVectorInv'
  BY <1>9, <1>10 DEF UiVectorInv, UiInv, VectorInv, ListsOnce, Injective, Range
<1>12. /\ Nested(modules', Live', children')
       /\ \A a, b \in Roots \cap Roots' : Before(modules, a, b) => Before(modules', a, b)
  BY <1>1, <1>5, <1>11, SortedVector
<1>13. NestedInv'
  BY <1>11, <1>12 DEF NestedInv, Nested, Block, InChildOrder
<1>14. ASSUME NEW i \in 1 .. Len(Entries), NEW j \in 1 .. Len(Entries), i < j,
              Entries[i].id \notin HeadIds, Entries[j].id \notin HeadIds,
              parent'[Entries[i].id] = NoId, parent'[Entries[j].id] = NoId
       PROVE  Before(modules', Entries[i].id, Entries[j].id)
  <2> DEFINE a == Entries[i].id
             b == Entries[j].id
  <2>1. a \in Live /\ b \in Live /\ a \in Id /\ b \in Id
    BY <1>1 DEF Loads
  <2>2. a # m /\ b # m /\ parent \in [Id -> Id \cup {NoId, Freed}]
    BY <1>1, <1>4, <1>5, <1>14 DEF TreeTypeOK
  <2>3. parent[a] = NoId /\ parent[b] = NoId
    BY <1>5, <1>14, <2>1, <2>2
  <2>4. Before(modules, a, b)
    BY <1>14, <2>3 DEF Loads
  <2>5. a \in Roots \cap Roots' /\ b \in Roots \cap Roots'
    BY <1>6, <1>14, <2>1, <2>3 DEF Roots
  <2> QED BY <1>12, <2>4, <2>5
<1>15. Loads(Entries, Len(Entries), Live, kind, parent', modules')
  BY <1>14 DEF Loads
<1> QED BY <1>5, <1>6, <1>7, <1>9, <1>13, <1>15

(* Pass 2 has nested the entries before next, in the order of the file.    *)
LEMMA RestoreLinks == ASSUME RestoreInv, LinkEntry PROVE RestoreInv'
<1> DEFINE m == Entries[next].id
           p == Entries[next].parent
           n == next - 1
<1>1. /\ TreeTypeOK /\ NestedInv /\ FlagInv /\ HeadKinds /\ OnlyStore /\ LoadsBack(Entries)
      /\ BootOK /\ StoreInv /\ Live \subseteq Id /\ Entries \in Seq(Row) /\ Len(Entries) \in Nat
  BY RestoreFacts
<1>2. /\ phase = "link" /\ next \in 1 .. Len(Entries)
      /\ next' = IF crashed' THEN next ELSE next + 1
      /\ phase' = phase /\ Entries' = Entries
  BY <1>1 DEF LinkEntry, BootOK, disk, Entries
<1>3. /\ n \in Nat /\ n < Len(Entries) /\ n + 1 = next
      /\ Loads(Entries, Len(Entries), Live, kind, parent, modules)
      /\ Links(Entries, n, Live, parent, children)
  BY <1>2 DEF RestoreInv, BootInv, Loaded, Linked
<1>4. m \in Live /\ kind[m] = Entries[next].type /\ Store \notin Live /\ NoId \notin Live
  BY <1>1, <1>2, <1>3, TreeAssumption DEF Loads, BootOK, Live
<1>5. ASSUME ~crashed'
      PROVE  /\ NestedInv' /\ FlagInv' /\ Live' = Live /\ UNCHANGED kind
             /\ Loads(Entries, Len(Entries), Live, kind, parent', modules')
             /\ Links(Entries, n + 1, Live, parent', children')
  <2>1. CASE p \in {NoId, Store}
    <3>1. UNCHANGED vars /\ UNCHANGED <<modules, kind, parent, children>>
      BY <1>4, <2>1 DEF LinkEntry, vars
    <3>2. NestedInv' /\ FlagInv' /\ Live' = Live
      BY <1>1, <3>1, NestedStep, FlagStep DEF Live
    <3>3. Links(Entries, n + 1, Live, parent, children)
      BY <1>1, <1>3, <1>4, <2>1, LinkNone
    <3> QED BY <1>3, <3>1, <3>2, <3>3
  <2>2. CASE p \notin {NoId, Store}
    <3>1. PICK j \in 1 .. Len(Entries) :
            Entries[j].id = p /\ Nests(Entries[next].type, Entries[j].type)
      BY <1>1, <1>2, <2>2 DEF LoadsBack
    <3>2. p \in Live /\ kind[p] = Entries[j].type
      BY <1>3, <3>1 DEF Loads
    <3>3. kind[m] \in Type
      BY <1>1, <1>4 DEF Live, TreeTypeOK
    <3>4. ParentInput(m, p) # NoInput
      <4>1. InputsOf[kind[m]] \subseteq Name /\ NoInput \notin Name
        BY <3>3, TreeAssumption
      <4>2. Nests(kind[m], kind[p])
        BY <1>4, <3>1, <3>2
      <4> HIDE DEF m, p
      <4> QED BY <4>1, <4>2 DEF ParentInput, Nests
    <3>5. Reparent(m, p)
      BY <1>4, <3>2, <3>4 DEF LinkEntry
    <3> QED BY <1>2, <1>3, <1>4, <1>5, <3>2, <3>5, RelinkStep
  <2> QED BY <2>1, <2>2
<1>6. ASSUME crashed'
      PROVE  /\ NestedInv' /\ FlagInv' /\ Live' = Live
             /\ UNCHANGED <<kind, modules, parent, children>>
  <2>1. UNCHANGED tree \/ UNCHANGED vars
    <3>1. Reparent(m, p) => Crash
      BY <1>6, <1>1 DEF Reparent, TreeTypeOK
    <3> QED BY <3>1 DEF LinkEntry, Crash
  <2>2. UNCHANGED <<kind, modules, parent, children, link, flag>>
    BY <2>1 DEF tree, vars
  <2>3. Live' = Live
    BY <2>2 DEF Live
  <2> QED BY <1>1, <1>6, <2>2, <2>3, SameTree
<1>7. StoreInv'
  BY <1>1, StoreInvLinks
<1>8. kind' = kind /\ Live' = Live /\ NestedInv' /\ FlagInv'
  <2>1. CASE ~crashed'
    BY <1>5, <2>1
  <2>2. CASE crashed'
    BY <1>6, <2>2
  <2> QED BY <2>1, <2>2
<1>9. HeadKinds' /\ OnlyStore'
  BY <1>1, <1>2, <1>8 DEF HeadKinds, OnlyStore
<1>10. LoadsBack(Entries)'
  <2>1. LoadsBack(Entries) /\ Entries' = Entries
    BY <1>1, <1>2
  <2> QED BY <2>1 DEF LoadsBack, Nests
<1>11. BootInv'
  <2>1. CASE ~crashed'
    <3>1. Loaded' = Len(Entries) /\ Linked' = n + 1
      BY <1>2, <1>3, <2>1 DEF Loaded, Linked
    <3> QED BY <1>2, <1>5, <2>1, <3>1 DEF BootInv, Loads, Links
  <2>2. CASE crashed'
    <3>1. Loaded' = Len(Entries) /\ Linked' = n
      BY <1>2, <1>3, <2>2 DEF Loaded, Linked
    <3> QED BY <1>2, <1>3, <1>6, <2>2, <3>1 DEF BootInv, Loads, Links
  <2> QED BY <2>1, <2>2
<1> QED BY <1>7, <1>8, <1>9, <1>10, <1>11 DEF RestoreInv

(* After the boot the vector is in pre-order and every input fits.         *)
LEMMA RestoreBoots == ASSUME RestoreInv, FinishBoot PROVE RestoreInv'
<1>1. /\ TreeTypeOK /\ NestedInv /\ FlagInv /\ HeadKinds /\ OnlyStore /\ LoadsBack(Entries)
      /\ BootOK /\ StoreInv /\ VectorInv /\ ParentsAlive
  BY RestoreFacts
<1>2. /\ phase' = "run" /\ Entries' = Entries /\ UNCHANGED link
      /\ modules' = Append(modules, Store) /\ kind' = [kind EXCEPT ![Store] = StoreType]
  BY DEF FinishBoot, disk, Entries
<1>3. NewRoot(Store, StoreType)
  BY <1>1, StoreAssumption DEF FinishBoot, NewRoot, BootOK, Live
<1>4. link' \in [Id -> [Name -> Id \cup {NoId}]]
  BY <1>1, <1>2 DEF TreeTypeOK
<1>5. NestedInv' /\ FlagInv' /\ Live' = Live \cup {Store}
  BY <1>1, <1>3, <1>4, NewRootNests, NewRootStep
<1>6. HeadKinds' /\ OnlyStore'
  <2>1. \A x \in Id \ {Store} : kind'[x] = kind[x]
    BY <1>1, <1>2 DEF TreeTypeOK
  <2> QED BY <1>1, <1>2, <1>5, <2>1, HeadFacts DEF HeadKinds, OnlyStore, Live
<1>7. StoreInv'
  BY <1>1, StoreInvBoots
<1>8. LoadsBack(Entries)'
  BY <1>1, <1>2 DEF LoadsBack, Nests
<1>9. BootInv'
  BY <1>2 DEF BootInv
<1> QED BY <1>5, <1>6, <1>7, <1>8, <1>9 DEF RestoreInv

(* A request leaves a tree that can be saved and loaded back.              *)
LEMMA RestoreEdits == ASSUME RestoreInv, Edit PROVE RestoreInv'
<1>1. /\ TreeTypeOK /\ NestedInv /\ FlagInv /\ HeadKinds /\ OnlyStore /\ LoadsBack(Entries)
      /\ StoreInv /\ Live \subseteq Id
  BY RestoreFacts
<1>2. phase = "run" /\ phase' = phase /\ Entries' = Entries /\ [UiNext]_vars
  BY DEF Edit, disk, Entries
<1>3. NestedInv' /\ FlagInv'
  <2>1. TreeInv /\ [TidyNext]_vars
    BY <1>1, <1>2, UiIsTidy, UiTidyIsTidy DEF FlagInv
  <2> QED BY <1>1, <1>2, <2>1, NestedStep, FlagStep
<1>4. \A x \in Id : \/ kind'[x] \in {kind[x], NoType}
                    \/ \E r \in AddRequest : r[2] = x /\ kind'[x] = r[1]
  <2>1. NestingNext \/ UNCHANGED vars
    BY <1>1, <1>2, UiIsTidy DEF FlagInv, UiTidyNext, NestingNext
  <2> QED BY <1>1, <2>1, KindStep
<1>5. HeadKinds'
  <2>1. \A h \in HeadIds : h \in Id /\ kind[h] \in {HeadType(h), NoType}
    BY <1>1, HeadFacts DEF HeadKinds
  <2>2. \A r \in AddRequest : r[2] \in HeadIds => r[1] = HeadType(r[2])
    BY StoreAssumption
  <2>3. \A h \in HeadIds : kind'[h] \in {HeadType(h), NoType}
    BY <1>4, <2>1, <2>2
  <2> QED BY <1>2, <2>3 DEF HeadKinds
<1>6. OnlyStore'
  <2> SUFFICES ASSUME NEW m \in Id, kind'[m] = StoreType PROVE m = Store
    BY DEF OnlyStore, Live
  <2>1. kind[m] = StoreType
    BY <1>4, StoreAssumption, TreeAssumption
  <2>2. m \in Live
    BY <2>1, StoreAssumption, TreeAssumption DEF Live
  <2> QED BY <1>1, <2>1, <2>2 DEF OnlyStore
<1>7. StoreInv'
  BY <1>1, StoreInvEdits
<1>8. LoadsBack(Entries)'
  BY <1>1, <1>2 DEF LoadsBack, Nests
<1>9. BootInv'
  BY <1>2 DEF BootInv
<1> QED BY <1>3, <1>5, <1>6, <1>7, <1>8, <1>9 DEF RestoreInv

(* What a save, or the loss of one, leaves on the disk. *)
LEMMA SavedFiles ==
  ASSUME RestoreInv
  PROVE  /\ LoadsBack(<<>>)
         /\ Listing \in Seq(Row) /\ Listing # Torn /\ LoadsBack(Listing)
<1>1. VectorInv /\ ParentsAlive /\ Acyclic /\ FlagFitsParent /\ HeadKinds /\ OnlyStore /\ BootOK
  BY RestoreFacts
<1>2. Listing \in Seq(Row)
  BY <1>1, ListingRows DEF BootOK
<1>3. Listing # Torn
  BY <1>2, StoreAssumption
<1>4. LoadsBack(Listing)
  BY <1>1, ListingLoadsBack
<1>5. LoadsBack(<<>>)
  BY DEF LoadsBack
<1> QED BY <1>2, <1>3, <1>4, <1>5

(* A save replaces the file by a list that loads back, or tears it.        *)
LEMMA RestoreSaves == ASSUME RestoreInv, Loop1s \/ Loop10s PROVE RestoreInv'
<1>1. NestedInv /\ FlagInv /\ HeadKinds /\ OnlyStore /\ LoadsBack(Entries) /\ StoreInv
  BY RestoreFacts
<1>2. UNCHANGED vars /\ UNCHANGED kind /\ phase = "run" /\ phase' = phase
  BY DEF Loop1s, Loop10s, StoreTicks, vars
<1>3. NestedInv' /\ FlagInv'
  BY <1>1, <1>2, NestedStep, FlagStep
<1>4. HeadKinds' /\ OnlyStore'
  BY <1>1, <1>2 DEF HeadKinds, OnlyStore, Live
<1>5. Entries' \in {Listing, Entries, <<>>}
  <2>1. modules_json' \in {Listing, modules_json, Torn}
    BY DEF Loop1s, Loop10s
  <2>2. Listing # Torn
    BY SavedFiles
  <2> QED BY <2>1, <2>2 DEF Entries
<1>6. LoadsBack(Entries')
  BY <1>1, <1>5, SavedFiles
<1>7. StoreInv'
  BY <1>1, StoreInvSaves
<1>8. BootInv'
  BY <1>2 DEF BootInv
<1> QED BY <1>3, <1>4, <1>6, <1>7, <1>8 DEF RestoreInv, LoadsBack, Nests

(* A boot starts over with the heads and a list that loads back.           *)
LEMMA RestoreCrashes == ASSUME RestoreInv, PowerLoss PROVE RestoreInv'
<1>1. /\ TreeTypeOK /\ LoadsBack(Entries) /\ StoreInv
  BY RestoreFacts
<1>2. StoreInv'
  BY <1>1, StoreInvCrashes
<1>3. Entries' \in {Entries, <<>>}
  BY DEF PowerLoss, disk, Entries
<1>4. LoadsBack(Entries')
  BY <1>1, <1>3, SavedFiles
<1>5. NestedInv' /\ FlagInv' /\ HeadKinds' /\ OnlyStore' /\ BootInv'
  <2>1. HeadsOnly' /\ (crashed \in BOOLEAN)' /\ phase' = "load" /\ next' = 1
    BY <1>1 DEF PowerLoss, Booting, HeadsOnly, HeadIds, HeadType, TreeTypeOK
  <2>2. Len(Entries)' \in Nat
    <3>1. Entries' \in Seq(Row)
      BY <1>2 DEF StoreInv, FilesOK, Entries
    <3> QED BY <3>1
  <2>3. (HeadsOnly /\ crashed \in BOOLEAN /\ phase = "load" /\ next = 1 /\ Len(Entries) \in Nat
          => NestedInv /\ FlagInv /\ HeadKinds /\ OnlyStore /\ BootInv)'
    BY HeadsCanBoot, PTL
  <2> QED BY <2>1, <2>2, <2>3
<1> QED BY <1>2, <1>4, <1>5 DEF RestoreInv, LoadsBack, Nests

(* Every step keeps the invariant of boot, tree and file.                  *)
LEMMA RestoreInvStep == RestoreInv /\ [StoreNext]_<<vars, storeVars>> => RestoreInv'
<1> SUFFICES ASSUME RestoreInv, [StoreNext]_<<vars, storeVars>> PROVE RestoreInv'
  OBVIOUS
<1>1. CASE Boot
  BY <1>1, RestoreLoads, RestoreStartsLinking, RestoreLinks, RestoreBoots DEF Boot
<1>2. CASE Edit
  BY <1>2, RestoreEdits
<1>3. CASE Loop1s \/ Loop10s
  BY <1>3, RestoreSaves
<1>4. CASE PowerLoss
  BY <1>4, RestoreCrashes
<1>5. CASE UNCHANGED <<vars, storeVars>>
  <2>1. NestedInv /\ FlagInv /\ HeadKinds /\ OnlyStore /\ LoadsBack(Entries) /\ StoreInv
    BY RestoreFacts
  <2>2. UNCHANGED vars /\ UNCHANGED <<modules, kind, parent, children, phase, next>>
        /\ Entries' = Entries
    BY <1>5 DEF vars, storeVars, disk, Entries
  <2>3. NestedInv' /\ FlagInv' /\ Live' = Live
    BY <2>1, <2>2, NestedStep, FlagStep DEF Live
  <2>4. HeadKinds' /\ OnlyStore' /\ LoadsBack(Entries')
    BY <2>1, <2>2, <2>3 DEF HeadKinds, OnlyStore
  <2>5. StoreInv'
    BY <1>5, <2>1, StoreInvStep
  <2>6. BootInv'
    BY <2>2, <2>3 DEF RestoreInv, BootInv, Loaded, Linked, Loads, Links
  <2> QED BY <2>3, <2>4, <2>5, <2>6 DEF RestoreInv, LoadsBack, Nests
<1> QED BY <1>1, <1>2, <1>3, <1>4, <1>5 DEF StoreNext

(* When the boot ends the listing says what the file said.                 *)
LEMMA BootEndsRestored ==
  ASSUME RestoreInv, FinishBoot
  PROVE  UserTree(Listing') = Durable!Restored(UserTree(Entries))
<1>1. /\ TreeTypeOK /\ VectorInv /\ OnlyStore /\ LoadsBack(Entries) /\ BootOK /\ NestedInv
      /\ Agree(Live, parent, children) /\ ListsOnce(modules, Live) /\ Live \in SUBSET Id
      /\ Entries \in Seq(Row)
  BY RestoreFacts
<1>2. /\ phase = "link" /\ next = Len(Entries) + 1 /\ UNCHANGED parent
      /\ modules' = Append(modules, Store) /\ kind' = [kind EXCEPT ![Store] = StoreType]
  BY DEF FinishBoot
<1>3. /\ Loads(Entries, Len(Entries), Live, kind, parent, modules)
      /\ Links(Entries, Len(Entries), Live, parent, children)
  <2>1. Linked = Len(Entries) /\ Loaded = Len(Entries)
    BY <1>1, <1>2 DEF Linked, Loaded
  <2> QED BY <1>2, <2>1 DEF RestoreInv, BootInv
<1>4. Store \notin Live /\ Store \in Id
  BY <1>1, <1>2, StoreAssumption DEF BootOK, Live
<1>5. kind'[Store] = StoreType /\ \A x \in Id \ {Store} : kind'[x] = kind[x]
  BY <1>1, <1>2, <1>4 DEF TreeTypeOK
<1>6. {m \in Live' : kind'[m] # StoreType} = Live
  BY <1>1, <1>4, <1>5 DEF OnlyStore, Live
<1>7. Lists(Listing', Live, modules', kind', parent')
  <2>1. VectorInv'
    BY RestoreBoots, RestoreFacts DEF RestoreInv, StoreInv
  <2>2. (VectorInv => Lists(Listing, {m \in Live : kind[m] # StoreType}, modules, kind, parent))'
    BY ListingLists, PTL
  <2>3. Lists(Listing', {m \in Live' : kind'[m] # StoreType}, modules', kind', parent')
    BY <2>1, <2>2 DEF Lists, Before
  <2> HIDE DEF Listing
  <2> QED BY <1>6, <2>3
<1> HIDE DEF Listing
<1>8. Lists(Listing', Live, modules, kind, parent)
  <2>1. ASSUME NEW a \in Live, NEW b \in Live, Before(modules', a, b) PROVE Before(modules, a, b)
    <3>1. Before(Append(modules, Store), a, b)
            <=> Before(modules, a, b) \/ (a \in Range(modules) /\ b = Store)
      BY <1>1, <1>4, BeforeAppend DEF ListsOnce
    <3> QED BY <1>2, <1>4, <2>1, <3>1
  <2>2. \A x \in Live : kind'[x] = kind[x]
    BY <1>1, <1>4, <1>5
  <2> QED BY <1>2, <1>7, <2>1, <2>2 DEF Lists
<1>9. children \in [Id -> Seq(Id)] /\ Nested(modules, Live, children)
  BY <1>1 DEF TreeTypeOK, NestedInv
<1>10. BootDone(Entries, Live, kind, parent, children, modules)
  BY <1>1, <1>3, <1>4, <1>9 DEF BootDone
<1>11. SameUserTree(Listing', Entries)
  BY <1>8, <1>10, BootRestores, Zenon
<1> QED BY <1>11 DEF SameUserTree

(* What snapshot_modules_ writes depends on the tree alone.                *)
LEMMA SameListing == UNCHANGED <<modules, kind, parent>> => Listing' = Listing
BY DEF Listing

(* Before the first boot there is no tree.                                 *)
LEMMA RestoresInit == StoreInit => Durable!Init
<1> SUFFICES ASSUME StoreInit PROVE Durable!Init
  OBVIOUS
<1>1. phase = "load"
  BY DEF StoreInit
<1> QED BY <1>1, EmptyTree DEF Durable!Init

(* Every step of the state store is one of the abstract tree, or none.     *)
LEMMA RestoresStep ==
  ASSUME RestoreInv, [StoreNext]_<<vars, storeVars>>
  PROVE  [Durable!Next]_<<phase = "run", UserTree(IF phase = "run" THEN Listing ELSE <<>>),
                          UserTree(Entries)>>
<1>1. CASE LoadEntry \/ StartLinking \/ LinkEntry
  <2>1. phase # "run" /\ phase' # "run" /\ Entries' = Entries
    BY <1>1 DEF LoadEntry, StartLinking, LinkEntry, disk, Entries
  <2> QED BY <2>1
<1>2. CASE FinishBoot
  <2>1. phase # "run" /\ phase' = "run" /\ Entries' = Entries
    BY <1>2 DEF FinishBoot, disk, Entries
  <2>2. UserTree(Listing') = Durable!Restored(UserTree(Entries))
    BY <1>2, BootEndsRestored
  <2> HIDE DEF Listing
  <2>3. Durable!Start
    BY <2>1, <2>2 DEF Durable!Start
  <2> QED BY <2>3 DEF Durable!Next
<1>3. CASE Edit
  <2>1. phase = "run" /\ phase' = "run" /\ Entries' = Entries
    BY <1>3 DEF Edit, disk, Entries
  <2>2. Durable!Edit
    BY <2>1 DEF Durable!Edit
  <2> QED BY <2>2 DEF Durable!Next
<1>4. CASE Loop1s
  <2>1. phase = "run" /\ phase' = "run" /\ Listing' = Listing
    BY <1>4, SameListing DEF Loop1s, StoreTicks, vars
  <2>2. Listing # Torn
    BY SavedFiles
  <2> HIDE DEF Listing
  <2>3. CASE modules_json' = Listing
    <3>1. Entries' = Listing
      BY <2>2, <2>3 DEF Entries
    <3>2. Durable!Save
      BY <2>1, <3>1 DEF Durable!Save
    <3> QED BY <3>2 DEF Durable!Next
  <2>4. CASE modules_json' = Torn
    <3>1. Entries' = <<>>
      BY <2>4 DEF Entries
    <3>2. Durable!Lose
      BY <2>1, <3>1, EmptyTree DEF Durable!Lose
    <3> QED BY <3>2 DEF Durable!Next
  <2>5. CASE modules_json' = modules_json
    BY <2>1, <2>5 DEF Entries
  <2> QED BY <1>4, <2>3, <2>4, <2>5 DEF Loop1s
<1>5. CASE Loop10s \/ UNCHANGED <<vars, storeVars>>
  <2>1. phase' = phase /\ Listing' = Listing /\ Entries' = Entries
    BY <1>5, SameListing DEF Loop10s, vars, storeVars, disk, Entries
  <2> QED BY <2>1
<1>6. CASE PowerLoss
  <2>1. phase' = "load" /\ modules_json' \in {modules_json, Torn}
        /\ (phase # "run" => modules_json' = modules_json)
    BY <1>6 DEF PowerLoss, Booting, StoreTicks, disk
  <2>2. CASE modules_json' = modules_json
    <3>1. Entries' = Entries
      BY <2>2 DEF Entries
    <3>2. CASE phase = "run"
      <4>1. Durable!Stop
        BY <2>1, <3>1, <3>2, EmptyTree DEF Durable!Stop
      <4> QED BY <4>1 DEF Durable!Next
    <3>3. CASE phase # "run"
      BY <2>1, <3>1, <3>3
    <3> QED BY <3>2, <3>3
  <2>3. CASE modules_json' = Torn /\ phase = "run"
    <3>1. Entries' = <<>>
      BY <2>3 DEF Entries
    <3>2. Durable!Lose
      BY <2>1, <2>3, <3>1, EmptyTree DEF Durable!Lose
    <3> QED BY <3>2 DEF Durable!Next
  <2> QED BY <2>1, <2>2, <2>3
<1> QED BY <1>1, <1>2, <1>3, <1>4, <1>5, <1>6 DEF StoreNext, Boot

(* What runs after a boot is the tree saved last: load_modules_from_disk_  *)
(* undoes snapshot_modules_, for any heads, lists of earlier runs and any  *)
(* sequence of edits, failed or torn writes and power losses.              *)
THEOREM StoreRestoresTree == StoreSpec => RestoresTree
<1> QED BY RestoreInvInit, RestoreInvStep, RestoresInit, RestoresStep, PTL
        DEF StoreSpec, RestoresTree, Durable!Spec
=============================================================================
