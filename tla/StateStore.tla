----------------------------- MODULE StateStore -----------------------------
(***************************************************************************)
(* StateStoreModule: the module list (/modules.json) and one settings file *)
(* per module (/state-<id>.json), written when they differ from a cached   *)
(* copy, at 1 s and at 10 s, and loaded in two passes at boot.             *)
(*                                                                         *)
(* Hooks run under the manager's mutex, and the load runs inside           *)
(* ModuleManager::add, which holds it: requests fall in between.  Power    *)
(* may be lost at any time, also inside a hook: fs_write_text truncates    *)
(* the file before it writes it.  A reboot request and the end of a PC     *)
(* process are power losses too, as nothing is saved on the way out.       *)
(***************************************************************************)
EXTENDS ModuleTree

CONSTANTS
  HeadModules,      \* <<type, id>> of the modules main.cpp adds before the store
  Store,     \* id of the state-store module
  StoreType,
  NoFile,    \* no such file, or no such key in the cache
  SavedBefore, \* lists earlier runs may have left on the disk
  Torn,      \* a file that is empty or cut short: it does not parse
  MaxEdits,  \* bound: requests that change something
  MaxFaults  \* bound: power losses and failed writes

(* An entry of /modules.json, and the object in a settings file. *)
Row == [type : Type, id : Id \ {Store}, parent : Id \cup {NoId}]
Setting ==
  [enabled : BOOLEAN, inputs : UNION {[names -> Id \cup {NoId}] : names \in SUBSET Name}]

HeadIds == {HeadModules[i][2] : i \in DOMAIN HeadModules}
HeadType(m) == HeadModules[CHOOSE i \in DOMAIN HeadModules : HeadModules[i][2] = m][1]

(* A module of type t finds an input for a parent of type u. *)
Nests(t, u) == {u, CategoryOf[u], Source} \cap InputsOf[t] # {}

(* A list a run may have saved: an entry per module, parents that are      *)
(* listed and take what is nested in them, or are the store, no cycle.     *)
LoadsBack(rows) ==
  /\ \A i, j \in DOMAIN rows : rows[i].id = rows[j].id => i = j
  /\ \A i \in DOMAIN rows :
       /\ rows[i].type # StoreType
       /\ rows[i].id \in HeadIds => rows[i].type = HeadType(rows[i].id)
       /\ \/ rows[i].parent \in {NoId, Store}
          \/ \E j \in DOMAIN rows : /\ rows[j].id = rows[i].parent
                                     /\ Nests(rows[i].type, rows[j].type)
  /\ \A S \in SUBSET {rows[i].id : i \in DOMAIN rows} :
       S # {} => \E i \in DOMAIN rows : rows[i].id \in S /\ rows[i].parent \notin S

(* The ids main.cpp names differ, and it adds one store.  No client adds a *)
(* second, or gives the id of a head it has deleted to another type.       *)
ASSUME StoreAssumption ==
  /\ HeadModules \in Seq(Type \X Id) /\ Store \in Id /\ StoreType \in Type
  /\ \A i \in DOMAIN HeadModules : HeadModules[i][2] # Store /\ HeadModules[i][1] # StoreType
  /\ \A i, j \in DOMAIN HeadModules : HeadModules[i][2] = HeadModules[j][2] => i = j
  /\ \A r \in AddRequest : /\ r[1] # StoreType /\ r[2] # Store
                           /\ r[2] \in HeadIds => r[1] = HeadType(r[2])
  /\ SavedBefore \subseteq Seq(Row) /\ \A rows \in SavedBefore : LoadsBack(rows)
  /\ Torn \notin Setting \cup Seq(Row) /\ NoFile # Torn
  /\ MaxEdits \in Nat /\ MaxFaults \in Nat

VARIABLES
  enabled,       \* enabled_
  modules_json,  \* /modules.json: a sequence of entries, or Torn
  state_json,    \* /state-<id>.json: the settings, NoFile or Torn
  last_modules_json, last_state_json,  \* the caches
  phase,         \* "load": pass 1, "link": pass 2, "run"
  next,          \* the entry a pass has come to
  failed,        \* history: the files whose last write failed
  edits, faults

disk == <<modules_json, state_json>>
caches == <<last_modules_json, last_state_json>>
storeVars == <<enabled, disk, caches, phase, next, failed, edits, faults>>

(* What a module holds before anything is loaded into it. *)
Defaults(t) == [enabled |-> TRUE, inputs |-> [in \in InputsOf[t] |-> DefaultLink[in]]]

Entries == IF modules_json = Torn THEN <<>> ELSE modules_json

(* snapshot_modules_ *)
Listing ==
  LET saved == Keep(modules, {m \in Id : kind[m] # StoreType})
      row == [m \in Id |-> [type |-> kind[m], id |-> m, parent |-> parent[m]]]
  IN [i \in DOMAIN saved |-> row[saved[i]]]

(* snapshot_state_ *)
Snapshot ==
  [m \in Id |->
     IF m \in Live /\ kind[m] # StoreType
     THEN [enabled |-> enabled[m], inputs |-> [in \in InputsOf[kind[m]] |-> link[m][in]]]
     ELSE NoFile]

-----------------------------------------------------------------------------
(* Boot: main.cpp has added the heads; the store's setup() begins. *)
Booting ==
  /\ modules' = [i \in DOMAIN HeadModules |-> HeadModules[i][2]]
  /\ kind' = [m \in Id |-> IF m \in HeadIds THEN HeadType(m) ELSE NoType]
  /\ parent' = [m \in Id |-> NoId]
  /\ children' = [m \in Id |-> <<>>]
  /\ link' = [m \in Id |-> DefaultLink]
  /\ flag' = [m \in Id |-> NoInput]
  /\ crashed' = FALSE
  /\ enabled' = [m \in Id |-> TRUE]
  /\ phase' = "load" /\ next' = 1
  /\ last_modules_json' = <<>> /\ last_state_json' = [m \in Id |-> NoFile]
  /\ failed' = {}

StoreInit ==
  /\ modules = [i \in DOMAIN HeadModules |-> HeadModules[i][2]]
  /\ kind = [m \in Id |-> IF m \in HeadIds THEN HeadType(m) ELSE NoType]
  /\ parent = [m \in Id |-> NoId]
  /\ children = [m \in Id |-> <<>>]
  /\ link = [m \in Id |-> DefaultLink]
  /\ flag = [m \in Id |-> NoInput]
  /\ crashed = FALSE
  /\ enabled = [m \in Id |-> TRUE]
  /\ modules_json \in SavedBefore /\ state_json = [m \in Id |-> NoFile]
  /\ last_modules_json = <<>> /\ last_state_json = [m \in Id |-> NoFile]
  /\ phase = "load" /\ next = 1
  /\ failed = {} /\ edits = 0 /\ faults = 0

(* load_state_into_: a file that is missing or does not parse is ignored,  *)
(* and so are keys that a module of another type has left in it.           *)
Settings(m, t) ==
  LET file == state_json[m]
  IN IF file \in {NoFile, Torn} THEN Defaults(t)
     ELSE [enabled |-> file.enabled,
           inputs |-> [in \in InputsOf[t] |-> IF in \in DOMAIN file.inputs THEN file.inputs[in]
                                             ELSE DefaultLink[in]]]

(* Pass 1 of load_modules_from_disk_: the heads are there already, and     *)
(* their settings are not loaded.                                          *)
LoadEntry ==
  LET m == Entries[next].id
      t == Entries[next].type
  IN /\ phase = "load" /\ next <= Len(Entries)
     /\ next' = next + 1
     /\ \/ /\ m \in Live
           /\ UNCHANGED <<tree, enabled>>
        \/ /\ m \notin Live
           /\ modules' = Append(modules, m)
           /\ kind' = [kind EXCEPT ![m] = t]
           /\ link' = [link EXCEPT ![m] = [in \in Name |-> IF in \in InputsOf[t] THEN Settings(m, t).inputs[in]
                                                         ELSE @[in]]]
           /\ enabled' = [enabled EXCEPT ![m] = Settings(m, t).enabled]
           /\ UNCHANGED <<parent, children, flag>>
     /\ UNCHANGED <<crashed, disk, caches, phase, failed, edits, faults>>

StartLinking ==
  /\ phase = "load" /\ next = Len(Entries) + 1
  /\ phase' = "link" /\ next' = 1
  /\ UNCHANGED <<vars, enabled, disk, caches, failed, edits, faults>>

(* Mutant: the second pass is forgotten. *)
LinkNothing ==
  /\ phase = "link" /\ next <= Len(Entries)
  /\ next' = next + 1
  /\ UNCHANGED <<vars, enabled, disk, caches, phase, failed, edits, faults>>

(* Pass 2: reparent, which finds no module that does not exist yet.  After *)
(* a crash nothing happens until the next boot.                            *)
LinkEntry ==
  LET m == Entries[next].id
      p == Entries[next].parent
      possible == m \in Live /\ p \in Live /\ ParentInput(m, p) # NoInput
  IN /\ phase = "link" /\ next <= Len(Entries)
     /\ \/ possible /\ Reparent(m, p)
        \/ ~possible /\ UNCHANGED vars
     /\ next' = IF crashed' THEN next ELSE next + 1
     /\ UNCHANGED <<enabled, disk, caches, phase, failed, edits, faults>>

(* Mutant: the caches are seeded with the files, torn ones included. *)
FinishBootFromFiles ==
  /\ phase = "link" /\ next = Len(Entries) + 1
  /\ phase' = "run" /\ next' = 1
  /\ last_modules_json' = Entries /\ last_state_json' = state_json
  /\ modules' = Append(modules, Store)
  /\ kind' = [kind EXCEPT ![Store] = StoreType]
  /\ UNCHANGED <<parent, children, link, flag, crashed, enabled, disk, failed, edits, faults>>

(* The end of setup(), and of the add() that called it: the caches are     *)
(* seeded with what memory holds, and the store joins the vector.          *)
FinishBoot ==
  /\ phase = "link" /\ next = Len(Entries) + 1
  /\ phase' = "run" /\ next' = 1
  /\ last_modules_json' = Listing /\ last_state_json' = Snapshot
  /\ modules' = Append(modules, Store)
  /\ kind' = [kind EXCEPT ![Store] = StoreType]
  /\ UNCHANGED <<parent, children, link, flag, crashed, enabled, disk, failed, edits, faults>>

-----------------------------------------------------------------------------
(* Requests, from the web UI, that change something.  One that crashes the *)
(* program changes nothing on the disk: it is a PowerLoss.                 *)
Edit ==
  /\ phase = "run" /\ edits < MaxEdits
  /\ edits' = edits + 1
  /\ \/ /\ UiNext
        /\ tree' # tree
        /\ enabled' = [m \in Id |-> kind'[m] = NoType \/ enabled[m]]
     \/ /\ \E m \in Live : enabled' = [enabled EXCEPT ![m] = ~@]
        /\ UNCHANGED vars
  /\ UNCHANGED <<disk, caches, phase, next, failed, faults>>

StoreTicks == phase = "run" /\ Store \in Live /\ enabled[Store]

(* loop1s.  The result of fs_write_text is ignored: the cache says saved   *)
(* also when the file kept its old text, or lost it.                       *)
Loop1s ==
  /\ StoreTicks
  /\ Listing # last_modules_json
  /\ last_modules_json' = Listing
  /\ \/ /\ modules_json' = Listing
        /\ failed' = failed \ {Store}
        /\ UNCHANGED faults
     \/ /\ faults < MaxFaults
        /\ faults' = faults + 1
        /\ modules_json' \in {modules_json, Torn}
        /\ failed' = failed \cup {Store}
  /\ UNCHANGED <<vars, enabled, state_json, last_state_json, phase, next, edits>>

(* Mutant: a module that was only switched on or off counts as saved. *)
ChangedInputs ==
  {m \in Id : /\ Snapshot[m] # NoFile
              /\ \/ last_state_json[m] = NoFile
                 \/ Snapshot[m].inputs # last_state_json[m].inputs}

(* The settings files loop10s is about to write. *)
Changed == {m \in Id : Snapshot[m] # NoFile /\ Snapshot[m] # last_state_json[m]}

Written(done, torn) ==
  [m \in Id |-> IF m \in torn THEN Torn ELSE IF m \in done THEN Snapshot[m] ELSE state_json[m]]

(* loop10s.  The files of modules that are gone stay, their keys go. *)
Loop10s ==
  /\ StoreTicks
  /\ Snapshot # last_state_json
  /\ last_state_json' = Snapshot
  /\ \/ /\ state_json' = Written(Changed, {})
        /\ failed' = failed \ Changed
        /\ UNCHANGED faults
     \/ \E m \in Changed :
          /\ faults < MaxFaults
          /\ faults' = faults + 1
          /\ \E torn \in {{}, {m}} : state_json' = Written(Changed \ {m}, torn)
          /\ failed' = (failed \ Changed) \cup {m}
  /\ UNCHANGED <<vars, enabled, modules_json, last_modules_json, phase, next, edits>>

(* Power is lost: outside the hooks, inside the write of loop1s, or inside *)
(* one of the writes of loop10s, after some of the others.                 *)
PowerLoss ==
  /\ faults < MaxFaults
  /\ faults' = faults + 1
  /\ \/ UNCHANGED disk
     \/ /\ StoreTicks /\ Listing # last_modules_json
        /\ modules_json' = Torn
        /\ UNCHANGED state_json
     \/ /\ StoreTicks
        /\ \E m \in Changed : \E done \in SUBSET (Changed \ {m}) :
             state_json' = Written(done, {m})
        /\ UNCHANGED modules_json
  /\ Booting
  /\ UNCHANGED edits

-----------------------------------------------------------------------------
Boot == LoadEntry \/ StartLinking \/ LinkEntry \/ FinishBoot

StoreNext == Boot \/ Edit \/ Loop1s \/ Loop10s \/ PowerLoss

(* Setup runs to its end, and core_loop calls the hooks for ever; power    *)
(* and clients owe nothing.                                                *)
StoreSpec ==
  /\ StoreInit /\ [][StoreNext]_<<vars, storeVars>>
  /\ WF_<<vars, storeVars>>(Boot)
  /\ WF_<<vars, storeVars>>(Loop1s) /\ WF_<<vars, storeVars>>(Loop10s)

-----------------------------------------------------------------------------
(* Type invariant. *)
SettingsOf(x) ==
  /\ DOMAIN x = {"enabled", "inputs"} /\ x.enabled \in BOOLEAN
  /\ \A in \in DOMAIN x.inputs : in \in Name /\ x.inputs[in] \in Id \cup {NoId}

StoreTypeOK ==
  /\ TypeOK
  /\ enabled \in [Id -> BOOLEAN]
  /\ \A i \in DOMAIN Entries : /\ Entries[i].id \in Id /\ Entries[i].type \in Type
                               /\ Entries[i].parent \in Id \cup {NoId}
  /\ \A m \in Id : state_json[m] \in {NoFile, Torn} \/ SettingsOf(state_json[m])
  /\ \A m \in Id : \/ last_state_json[m] = NoFile
                   \/ last_state_json[m] # Torn /\ SettingsOf(last_state_json[m])
  /\ phase \in {"load", "link", "run"} /\ next \in 1 .. Len(Entries) + 1
  /\ failed \subseteq Id
  /\ edits \in 0 .. MaxEdits /\ faults \in 0 .. MaxFaults

(* Where pass 2 puts what is nested in p: it does not find the store yet.  *)
Restorer(p) == IF p = Store THEN NoId ELSE p

(* What a list of entries says of the modules a user has added: their      *)
(* types and parents, and the order of those under the same parent.        *)
UserTree(rows) ==
  LET users == {i \in DOMAIN rows : rows[i].id \notin HeadIds}
      siblings == {ij \in users \X users : /\ ij[1] < ij[2]
                                           /\ Restorer(rows[ij[1]].parent) = Restorer(rows[ij[2]].parent)}
  IN [modules |-> {rows[i] : i \in users},
      before |-> {<<rows[ij[1]].id, rows[ij[2]].id>> : ij \in siblings}]

Durable ==
  INSTANCE DurableTree WITH
    Late <- {Store},
    up <- phase = "run",
    tree <- UserTree(IF phase = "run" THEN Listing ELSE <<>>),
    saved <- UserTree(Entries)

(* load_modules_from_disk_ undoes snapshot_modules_: what runs after a     *)
(* boot is the tree saved last, its nesting and the order of roots and     *)
(* siblings included, or no module when the file was torn; no failed       *)
(* write, crash or edit in between yields anything else.                   *)
RestoresTree == Durable!Spec

(* What a boot would give m. *)
Restorable(m) == Settings(m, kind[m]).enabled = enabled[m]

(* Once clients are quiet a boot would give the present tree, and every    *)
(* module switched on or off as it is, but for a file whose last write     *)
(* failed (heads and the store are not restored).                          *)
QuietReachesDisk ==
  <>[]StoreTicks
    => <>[](/\ \/ Store \in failed
               \/ Durable!Restored(UserTree(Entries)) = Durable!Restored(UserTree(Listing))
            /\ \A m \in Live \ (HeadIds \cup {Store}) : Restorable(m) \/ m \in failed)
=============================================================================
