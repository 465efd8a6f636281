------------------------------ MODULE Scheduler ------------------------------
(***************************************************************************)
(* Scheduler: one core_loop per core over ModuleManager's vector, the      *)
(* dispatch wrappers of MoonModule that recurse into child lists, HTTP     *)
(* workers that change the tree between passes, and main's way out after   *)
(* stop().                                                                 *)
(*                                                                         *)
(* A pass and a request hold ModuleManager's mutex from beginning to end   *)
(* and wait for no other thread meanwhile, so each is one action, taken    *)
(* while nobody else has the mutex.  The one holder that does wait is a    *)
(* remove("http-0"), whose destructor joins the server's threads: only for *)
(* it the mutex is a variable.  http-0 and the other head modules are      *)
(* roots without children and tick as any root does; they are left out of  *)
(* the tree here.                                                          *)
(***************************************************************************)
EXTENDS ModuleTree

CONSTANTS
  Cores,     \* cores_: how many core_loops run
  CoreOf,    \* coreAffinity() of a module type
  Cadence,   \* the slow hooks, in the order core_loop tests them
  Period,    \* milliseconds between two calls of each
  Wrap,      \* values of millis(), 2^32 in the code
  MaxLag,    \* bound: milliseconds a core may be kept from re-arming a hook
  Worker,    \* threads of the HTTP server
  ToggleRequest,  \* modules whose "enabled" clients toggle
  NoThread

Core == 0 .. Cores - 1
Slow == {Cadence[i] : i \in DOMAIN Cadence}
NoHook == [k \in Slow |-> 0]

ASSUME SchedulerAssumption ==
  /\ Cores \in Nat \ {0}
  /\ CoreOf \in [Type -> Nat]
  /\ Period \in [Slow -> Nat \ {0}]
  /\ Wrap \in Nat /\ MaxLag \in Nat /\ MaxLag < Wrap
  /\ \A k \in Slow : Period[k] <= MaxLag
  /\ Cadence \in Seq(Slow) /\ "loop" \notin Slow
  /\ ToggleRequest \subseteq Id
  /\ NoThread \notin Worker /\ "main" \notin Worker

VARIABLES
  clock,    \* pal::millis()
  stop,     \* stop_
  pc,       \* where each core is in core_loop
  now,      \* local of core_loop's body: the sample of the clock
  last,     \* locals of core_loop: last_20ms, last_1s, last_10s
  enabled,  \* enabled_ of each module
  worker,   \* what each HTTP worker is doing
  mutex,    \* who holds ModuleManager's mutex in a join
  http,     \* the HTTP server: "up", "joining" or "gone"
  main,     \* what main does once core 0 has left its loop
  since,    \* true time since the sample each hook was last re-armed with
  age,      \* since, at the time of the latest sample
  calls     \* <<module, hook>> calls of the pass just made

timing == <<now, last, since, age>>
leaving == <<stop, mutex, http, main>>
svars == <<vars, clock, pc, timing, enabled, worker, leaving, calls>>

-----------------------------------------------------------------------------
(* Mutant: "now >= last + period" in place of the wrapping difference. *)
DueUnlessWrapped(c, k) == now[c] >= last[c][k] + Period[k]

(* now - last >= period in uint32_t. *)
Due(c, k) == (now[c] + Wrap - last[c][k]) % Wrap >= Period[k]

(* The calls of a loop, one iteration after the other. *)
Flatten(seqs) ==
  LET flat[i \in 0 .. Len(seqs)] == IF i = 0 THEN <<>> ELSE flat[i - 1] \o seqs[i]
  IN flat[Len(seqs)]

(* The module's own hook, unless it is disabled.  As a mutant of RunHook:  *)
(* the wrapper does not recurse.                                           *)
OwnHook(h, n) == IF enabled[n] THEN << <<n, h>> >> ELSE <<>>

(* runLoop, runLoop20ms, runLoop1s, runLoop10s: the module's own hook,     *)
(* then its children whatever their core.                                  *)
RunHook(h, n) ==
  LET run[d \in 0 .. Cardinality(Id)] ==
        [x \in Id |->
           IF d = 0 THEN <<>>
           ELSE OwnHook(h, x) \o
                Flatten([i \in DOMAIN children[x] |-> run[d - 1][children[x][i]]])]
  IN run[Cardinality(Id)][n]

(* One module in the loop of a pass: loop, then the hooks that are due. *)
Dispatch(c, n) ==
  RunHook("loop", n) \o
  Flatten([i \in DOMAIN Cadence |->
             IF Due(c, Cadence[i]) THEN RunHook(Cadence[i], n) ELSE <<>>])

(* Mutant: only roots are walked, as the wrappers recurse anyway. *)
MineRoots(c) == Keep(modules, {n \in Live : CoreOf[kind[n]] = c /\ parent[n] = NoId})

(* The modules core_loop does not skip. *)
Mine(c) == Keep(modules, {n \in Live : CoreOf[kind[n]] = c})

-----------------------------------------------------------------------------
SchedInit ==
  /\ Init
  /\ clock = 0
  /\ stop = FALSE
  /\ pc = [c \in Core |-> "start"]
  /\ now = [c \in Core |-> 0]
  /\ last = [c \in Core |-> NoHook]
  /\ enabled = [n \in Id |-> TRUE]
  /\ worker = [w \in Worker |-> "idle"]
  /\ mutex = NoThread
  /\ http = "up"
  /\ main = "running"
  /\ since = [c \in Core |-> NoHook]
  /\ age = [c \in Core |-> NoHook]
  /\ calls = <<>>

(* The head of core_loop.  Core 0 runs inline, each other one in a task of *)
(* its own, which starts when it pleases.                                  *)
Start(c) ==
  /\ main # "done"
  /\ pc[c] = "start"
  /\ pc' = [pc EXCEPT ![c] = "sample"]
  /\ last' = [last EXCEPT ![c] = [k \in Slow |-> clock]]
  /\ since' = [since EXCEPT ![c] = NoHook]
  /\ calls' = <<>>
  /\ UNCHANGED <<vars, clock, now, age, enabled, worker, leaving>>

(* while (!stop_.load()) { now = pal::millis(); *)
Sample(c) ==
  /\ main # "done"
  /\ pc[c] = "sample"
  /\ \/ /\ stop
        /\ pc' = [pc EXCEPT ![c] = "exited"]
        /\ last' = [last EXCEPT ![c] = NoHook]
        /\ since' = [since EXCEPT ![c] = NoHook]
        /\ UNCHANGED <<now, age>>
     \/ /\ ~stop
        /\ pc' = [pc EXCEPT ![c] = "pass"]
        /\ now' = [now EXCEPT ![c] = clock]
        /\ age' = [age EXCEPT ![c] = since[c]]
        /\ UNCHANGED <<last, since>>
  /\ calls' = <<>>
  /\ UNCHANGED <<vars, clock, enabled, worker, leaving>>

(* The pass over the modules, under the mutex. *)
Pass(c) ==
  /\ main # "done"
  /\ pc[c] = "pass"
  /\ mutex = NoThread
  /\ pc' = [pc EXCEPT ![c] = "rearm"]
  /\ calls' = LET mine == Mine(c)
              IN Flatten([i \in DOMAIN mine |-> Dispatch(c, mine[i])])
  /\ UNCHANGED <<vars, clock, timing, enabled, worker, leaving>>

(* Mutant: last is set to the clock after the pass, not to the sample the  *)
(* pass was decided by.                                                    *)
RearmAtClock(c) ==
  /\ main # "done"
  /\ pc[c] = "rearm"
  /\ pc' = [pc EXCEPT ![c] = "sample"]
  /\ last' = [last EXCEPT ![c] = [k \in Slow |-> IF Due(c, k) THEN clock ELSE @[k]]]
  /\ since' = [since EXCEPT ![c] =
                 [k \in Slow |-> IF Due(c, k) THEN @[k] - age[c][k] ELSE @[k]]]
  /\ now' = [now EXCEPT ![c] = 0]
  /\ age' = [age EXCEPT ![c] = NoHook]
  /\ calls' = <<>>
  /\ UNCHANGED <<vars, clock, enabled, worker, leaving>>

(* last = now for the hooks that were due, yield, and round again. *)
Rearm(c) ==
  /\ main # "done"
  /\ pc[c] = "rearm"
  /\ pc' = [pc EXCEPT ![c] = "sample"]
  /\ last' = [last EXCEPT ![c] = [k \in Slow |-> IF Due(c, k) THEN now[c] ELSE @[k]]]
  /\ since' = [since EXCEPT ![c] =
                 [k \in Slow |-> IF Due(c, k) THEN @[k] - age[c][k] ELSE @[k]]]
  /\ now' = [now EXCEPT ![c] = 0]
  /\ age' = [age EXCEPT ![c] = NoHook]
  /\ calls' = <<>>
  /\ UNCHANGED <<vars, clock, enabled, worker, leaving>>

Running(c) == pc[c] \in {"sample", "pass", "rearm"}

(* Mutant: a clock without wrap. *)
MillisecondUnwrapped ==
  /\ main # "done"
  /\ \A c \in Core, k \in Slow : Running(c) => since[c][k] < MaxLag
  /\ clock' = clock + 1
  /\ since' = [c \in Core |-> [k \in Slow |-> IF Running(c) THEN since[c][k] + 1
                                              ELSE since[c][k]]]
  /\ calls' = <<>>
  /\ UNCHANGED <<vars, pc, now, last, age, enabled, worker, leaving>>

(* A millisecond passes.  Bound: no running core has waited MaxLag yet. *)
Millisecond ==
  /\ main # "done"
  /\ \A c \in Core, k \in Slow : Running(c) => since[c][k] < MaxLag
  /\ clock' = (clock + 1) % Wrap
  /\ since' = [c \in Core |-> [k \in Slow |-> IF Running(c) THEN since[c][k] + 1
                                              ELSE since[c][k]]]
  /\ calls' = <<>>
  /\ UNCHANGED <<vars, pc, now, last, age, enabled, worker, leaving>>

-----------------------------------------------------------------------------
(* A worker has read a request and calls its handler. *)
Accept(w) ==
  /\ main # "done"
  /\ http = "up"
  /\ worker[w] = "idle"
  /\ worker' = [worker EXCEPT ![w] = "request"]
  /\ calls' = <<>>
  /\ UNCHANGED <<vars, clock, pc, timing, enabled, leaving>>

(* The "enabled" toggle through setControl. *)
Toggle(n) ==
  /\ n \in Live
  /\ enabled' = [enabled EXCEPT ![n] = ~@]
  /\ UNCHANGED vars

(* The handler gets the mutex, reads or changes the tree, and answers.  A  *)
(* new module is enabled.                                                  *)
Serve(w) ==
  /\ main # "done"
  /\ worker[w] = "request"
  /\ mutex = NoThread
  /\ \/ UNCHANGED <<vars, enabled>>
     \/ UiNext /\ enabled' = [n \in Id |-> kind'[n] # NoType => enabled[n]]
     \/ \E n \in ToggleRequest : Toggle(n)
  /\ worker' = [worker EXCEPT ![w] = "idle"]
  /\ calls' = <<>>
  /\ UNCHANGED <<clock, pc, timing, leaving>>

(* SIGINT, which POST /api/reboot raises too. *)
Interrupt ==
  /\ main # "done"
  /\ ~stop
  /\ stop' = TRUE
  /\ calls' = <<>>
  /\ UNCHANGED <<vars, clock, pc, timing, enabled, worker, mutex, http, main>>

(* main, after core 0 has left its loop: remove("ws-0"), remove("http-0"), *)
(* which keeps the mutex while ~HttpServer waits, then remove("system-0"). *)
MainRemovesHttp ==
  /\ main = "running"
  /\ pc[0] = "exited"
  /\ mutex = NoThread
  /\ main' = "removing"
  /\ http' = "joining"
  /\ mutex' = "main"
  /\ calls' = <<>>
  /\ UNCHANGED <<vars, clock, pc, timing, enabled, worker, stop>>

(* httplib lets the listen thread end, and join() return, when no handler  *)
(* runs any more.                                                          *)
ServerJoined ==
  /\ http = "joining"
  /\ \A w \in Worker : worker[w] = "idle"
  /\ http' = "gone"
  /\ mutex' = NoThread
  /\ main' = "done"
  /\ calls' = <<>>
  /\ UNCHANGED <<vars, clock, pc, timing, enabled, worker, stop>>

SchedNext ==
  \/ \E c \in Core : Start(c) \/ Sample(c) \/ Pass(c) \/ Rearm(c)
  \/ Millisecond
  \/ \E w \in Worker : Accept(w) \/ Serve(w)
  \/ Interrupt \/ MainRemovesHttp \/ ServerJoined

(* Threads that can run do; the clock goes on; clients and the user owe    *)
(* nothing.                                                                *)
SchedSpec ==
  /\ SchedInit /\ [][SchedNext]_svars
  /\ \A c \in Core : /\ WF_svars(Start(c)) /\ WF_svars(Sample(c))
                     /\ WF_svars(Pass(c)) /\ WF_svars(Rearm(c))
  /\ WF_svars(Millisecond)
  /\ \A w \in Worker : WF_svars(Serve(w))
  /\ WF_svars(MainRemovesHttp) /\ WF_svars(ServerJoined)
-----------------------------------------------------------------------------
Passes(c) == pc[c] = "pass" /\ pc'[c] = "rearm"

(* How often the hook h of n is called by the pass that ran calls. *)
Times(n, h) == Cardinality({i \in DOMAIN calls : calls[i] = <<n, h>>})

(* Locals and ghosts hold what core_loop gives them; the clock wraps.       *)
SchedTypeOK ==
  /\ clock \in 0 .. Wrap - 1
  /\ stop \in BOOLEAN
  /\ pc \in [Core -> {"start", "sample", "pass", "rearm", "exited"}]
  /\ now \in [Core -> 0 .. Wrap - 1]
  /\ last \in [Core -> [Slow -> 0 .. Wrap - 1]]
  /\ enabled \in [Id -> BOOLEAN]
  /\ worker \in [Worker -> {"idle", "request"}]
  /\ mutex \in {NoThread, "main"}
  /\ http \in {"up", "joining", "gone"}
  /\ main \in {"running", "removing", "done"}
  /\ since \in [Core -> [Slow -> 0 .. MaxLag]]
  /\ age \in [Core -> [Slow -> 0 .. MaxLag]]

(* n and the modules it is nested in, those that tick on core c. *)
TickingOn(c, n) == {a \in Live : n \in Subtree(a) /\ CoreOf[kind[a]] = c}

(* A pass of core c ticks every enabled module of that core and no         *)
(* disabled one, whatever drops, deletions and toggles came between        *)
(* passes; and exactly once unless it is nested in another of core c.      *)
TicksItsModules ==
  [][\A c \in Core : Passes(c) =>
       \A n \in Live : CoreOf[kind[n]] = c =>
         /\ Times(n, "loop")' > 0 <=> enabled[n]
         /\ enabled[n] /\ TickingOn(c, n) = {n} => Times(n, "loop")' = 1]_svars

(* now - last is the true time between the two samples, although the clock *)
(* wraps and a core may wait for the mutex after reading it: a hook is due *)
(* in a pass if and only if its period has gone by.                        *)
DueOnTime ==
  \A c \in Core, k \in Slow :
    pc[c] \in {"pass", "rearm"} => (Due(c, k) <=> age[c][k] >= Period[k])

(* A module's slow hooks are called in those passes of its core that began *)
(* Period or more after the one that called them last, in true time: also  *)
(* when the clock has wrapped in between, and when the core waited for the *)
(* mutex after reading it.                                                 *)
HooksOnTime ==
  [][\A c \in Core : Passes(c) =>
       \A n \in Live, k \in Slow : enabled[n] /\ CoreOf[kind[n]] = c =>
         (Times(n, k)' > 0 <=> age[c][k] >= Period[k])]_svars

(* "parent ticks, then its children depth-first" (system.md): in a pass a  *)
(* nested module's hook is not called before its parent's.  This joins the *)
(* order of the vector, which reparent keeps, to the recursion.            *)
ParentFirst ==
  [][\A c \in Core : Passes(c) =>
       \A i \in DOMAIN calls' :
         LET n == calls'[i][1]  p == parent[n]
         IN (p \in Live /\ enabled[p] /\ CoreOf[kind[p]] = c) =>
              \E j \in 1 .. i - 1 : calls'[j] = <<p, calls'[i][2]>>]_svars

(* Unless the program is stopped, every core goes on calling every hook:   *)
(* no hook is put off for ever by passes that come too early.              *)
HooksKeepRunning ==
  <>[]~stop => \A c \in Core, k \in Slow : []<>(pc[c] = "pass" /\ Due(c, k))

-----------------------------------------------------------------------------
(* "Each module is ticked by the single core whose id matches the module's *)
(* coreAffinity()" (Scheduler.h).                                          *)
TickedByOwnCore ==
  [][\A c \in Core : Passes(c) =>
       \A i \in DOMAIN calls' : CoreOf[kind[calls'[i][1]]] = c]_svars

(* "blocks in Scheduler::run() until SIGINT, then returns" (main.cpp).     *)
StopEndsProgram == stop ~> main = "done"
=============================================================================
