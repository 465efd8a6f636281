------------------------------- MODULE WsPush -------------------------------
(***************************************************************************)
(* WebSocketModule: how a web page learns that the module tree changed.    *)
(* Once a second the module compares the number of clients and of modules  *)
(* with those of the second before, looks at the schemaDirty_ flags, and   *)
(* sends every client the schema when one of them calls for it.            *)
(*                                                                         *)
(* loop1s runs under the manager's mutex, so the tree changes between two  *)
(* seconds only.  A dead connection stays in clients_ until a send to it   *)
(* fails; a page whose tab is hidden throws away what it receives.  On the *)
(* ESP32 a frame is dropped, for some clients or all, when memory is short *)
(* or a queue is full; one that is not dropped arrives within the second.  *)
(***************************************************************************)
EXTENDS ModuleTree

CONSTANTS
  Page,         \* browser windows
  AtBoot,       \* <<type, id>> of the modules there are at the start
  MaxFit,       \* modules whose schema fits the static 4096-byte buffer
  MaxRequests,  \* bound: requests that change the tree
  MaxNet        \* bound: lost connections and frames, hidden tabs

ASSUME WsAssumption ==
  /\ AtBoot \in Seq(Type \X Id) /\ IsFiniteSet(Page)
  /\ \A i, j \in DOMAIN AtBoot : AtBoot[i][2] = AtBoot[j][2] => i = j
  /\ MaxFit \in Nat /\ MaxRequests \in Nat /\ MaxNet \in Nat

VARIABLES
  dirty,              \* modules with schemaDirty_
  last_client_count, last_module_count,
  clients,            \* pages whose connection is in clients_
  dead,               \* number of dead connections in clients_
  hidden,             \* pages whose tab is hidden (wsPaused)
  heard,              \* lastSchemaIds_ of a page
  steady,             \* history: pages that missed no schema since the last they got
  lost,               \* history: a connection was lost
  hid, missed,        \* history: pages that were hidden, that a schema was dropped for
  unflagged,          \* history: since the last schema, a change that flags nothing
  requests, net

server == <<dirty, last_client_count, last_module_count>>
pages == <<clients, dead, hidden, heard, steady>>
history == <<lost, hid, missed>>
wsVars == <<server, pages, history, unflagged, requests, net>>

(* What getSchema and the page's fingerprint say of the tree. *)
Listing == [i \in DOMAIN modules |-> <<modules[i], parent[modules[i]]>>]

clientCount == Cardinality(clients) + dead

WsInit ==
  /\ modules = [i \in DOMAIN AtBoot |-> AtBoot[i][2]]
  /\ kind = [m \in Id |-> IF \E i \in DOMAIN AtBoot : AtBoot[i][2] = m
                          THEN AtBoot[CHOOSE i \in DOMAIN AtBoot : AtBoot[i][2] = m][1]
                          ELSE NoType]
  /\ parent = [m \in Id |-> NoId] /\ children = [m \in Id |-> <<>>]
  /\ link = [m \in Id |-> DefaultLink] /\ flag = [m \in Id |-> NoInput]
  /\ crashed = FALSE
  /\ dirty = {} /\ last_client_count = 0 /\ last_module_count = 0
  /\ clients = {} /\ dead = 0 /\ hidden = {}
  /\ heard = [p \in Page |-> <<>>] /\ steady = {}
  /\ lost = FALSE /\ hid = {} /\ missed = {} /\ unflagged = FALSE
  /\ requests = 0 /\ net = 0

-----------------------------------------------------------------------------
(* Of the requests that change the tree, reparent with a parent is the one *)
(* that sets schemaDirty_.                                                 *)
Nest(m, p) == Reparent(m, p) /\ dirty' = dirty \cup {m}

(* A request, from a page or another REST client, that changes the tree.   *)
(* (Left to ModuleTree: requests that end the program, and reordering the  *)
(* roots, which destroys them.)                                            *)
Request ==
  /\ requests < MaxRequests
  /\ requests' = requests + 1
  /\ \/ /\ \E m, p \in Id : Nest(m, p)
        /\ UNCHANGED unflagged
     \/ /\ \/ \E r \in AddRequest : AddModule(r[1], r[2])
           \/ \E m \in Id : RemoveModule(m)
        /\ dirty' = dirty \cap Live'
        /\ unflagged' = (unflagged \/ Len(modules') = last_module_count)
     \/ /\ \/ \E m \in Id : parent[m] # NoId /\ Promote(m)
           \/ \E p \in Id, ids \in OrderRequest : ReorderChildren(p, ids)
        /\ unflagged' = TRUE
        /\ UNCHANGED dirty
  /\ <<modules, parent>>' # <<modules, parent>> /\ ~crashed'
  /\ UNCHANGED <<last_client_count, last_module_count, pages, history, net>>

(* The end of a handshake; connectWs retries until it comes. *)
Connect(p) ==
  /\ p \notin clients
  /\ clients' = clients \cup {p}
  /\ UNCHANGED <<vars, server, dead, hidden, heard, steady, history, unflagged, requests, net>>

(* A connection ends.  The ESP32 server hears of a clean end, the PC       *)
(* server never does.                                                      *)
Lose(p) ==
  /\ net < MaxNet /\ net' = net + 1
  /\ p \in clients
  /\ clients' = clients \ {p}
  /\ dead' \in {dead, dead + 1}
  /\ steady' = steady \ {p} /\ lost' = TRUE
  /\ UNCHANGED <<vars, server, hidden, heard, hid, missed, unflagged, requests>>

(* visibilitychange: nothing is fetched when the tab is shown again. *)
Hide(p) ==
  /\ net < MaxNet /\ net' = net + 1
  /\ p \notin hidden
  /\ hidden' = hidden \cup {p} /\ hid' = hid \cup {p}
  /\ UNCHANGED <<vars, server, clients, dead, heard, steady, lost, missed, unflagged, requests>>

Show(p) ==
  /\ p \in hidden
  /\ hidden' = hidden \ {p}
  /\ UNCHANGED <<vars, server, clients, dead, heard, steady, history, unflagged, requests, net>>

(* Mutants: the flags, or the clients, are not looked at. *)
NeedIgnoresFlags ==
  clientCount > last_client_count \/ Len(modules) # last_module_count
NeedIgnoresClients == Len(modules) # last_module_count \/ dirty # {}

NeedSchema ==
  \/ clientCount > last_client_count
  \/ Len(modules) # last_module_count
  \/ dirty # {}

(* The clients in `got` are sent the schema, and the pages among them that *)
(* are visible take it.                                                    *)
Send(got) ==
  /\ heard' = [p \in Page |-> IF p \in got \ hidden THEN Listing ELSE heard[p]]
  /\ steady' = got \ hidden

(* A schema that does not fit the buffer is not sent.  broadcastText hides *)
(* a bad_alloc of textAll, which may have queued the frame for some.       *)
Broadcast ==
  \/ /\ Len(modules) <= MaxFit
     /\ Send(clients)
     /\ UNCHANGED <<missed, net>>
  \/ /\ Len(modules) <= MaxFit
     /\ net < MaxNet /\ net' = net + 1
     /\ \E dropped \in (SUBSET clients) \ {{}} :
          Send(clients \ dropped) /\ missed' = missed \cup dropped
  \/ /\ Len(modules) > MaxFit
     /\ UNCHANGED <<heard, steady, missed, net>>

(* loop1s: nothing, not even the counts, while there is no client.  Counts *)
(* and flags are settled whether or not the schema got through.  The state *)
(* it sends last finds dead connections out.                               *)
Loop1s ==
  /\ clientCount > 0
  /\ last_client_count' = clientCount
  /\ last_module_count' = Len(modules)
  /\ \/ /\ NeedSchema
        /\ Broadcast
        /\ dirty' = {} /\ unflagged' = FALSE
     \/ /\ ~NeedSchema
        /\ UNCHANGED <<heard, steady, missed, net, dirty, unflagged>>
  /\ dead' \in 0 .. dead
  /\ UNCHANGED <<vars, clients, hidden, lost, hid, requests>>

WsNext ==
  \/ Request
  \/ \E p \in Page : Connect(p) \/ Lose(p) \/ Hide(p) \/ Show(p)
  \/ Loop1s

(* The scheduler calls loop1s for ever; nobody owes a request. *)
WsSpec ==
  /\ WsInit /\ [][WsNext]_<<vars, wsVars>>
  /\ WF_<<vars, wsVars>>(Loop1s)

-----------------------------------------------------------------------------
(* Type invariant. *)
WsTypeOK ==
  /\ TreeTypeOK
  /\ dirty \subseteq Live
  /\ last_client_count \in 0 .. Cardinality(Page) + MaxNet
  /\ last_module_count \in 0 .. Cardinality(Id)
  /\ clients \subseteq Page /\ hidden \subseteq Page /\ steady \subseteq clients
  /\ dead \in 0 .. MaxNet
  /\ heard \in [Page -> Seq(Id \X (Id \cup {NoId}))]

Fits == Len(modules) <= MaxFit

(* A page that has had every schema sent since its first knows the tree,   *)
(* or is about to be told, whatever connects, drops, hides and changes     *)
(* around it: the only changes that stay unknown are a promotion, a        *)
(* reorder, and as many additions as removals within one second.           *)
OnlyKnownGaps ==
  \A p \in steady \ hidden :
    Fits => heard[p] = Listing \/ NeedSchema \/ unflagged

(* The schema is "broadcast once per client connect" (web-socket.md): a    *)
(* visible page is told of the tree in the end, unless a schema to it was  *)
(* dropped (nothing repeats it) or a connection lost (a lost one hides a   *)
(* new one from the count).                                                *)
PagesAreTold ==
  \A p \in Page :
    <>[](p \in clients /\ p \notin hid \cup missed /\ ~lost /\ Fits)
      => <>[](p \in steady /\ (heard[p] = Listing \/ unflagged))
=============================================================================
