--------------------------- MODULE SchedulerProofs ---------------------------
(***************************************************************************)
(* Proofs about Scheduler for every number of cores, slow hooks, periods   *)
(* and values of the clock.                                                *)
(***************************************************************************)
EXTENDS Integers, Scheduler, ModuleVectorProofs

(* The wrapping difference of two samples is the time between them, when   *)
(* that time is less than a wrap.                                          *)
LEMMA WrappedDifference ==
  ASSUME NEW W \in Nat, NEW a \in 0 .. W - 1, NEW b \in 0 .. W - 1,
         NEW d \in 0 .. W - 1, b + d = a \/ b + d = a + W
  PROVE  (a + W - b) % W = d
<1>1. a + W - b = d \/ a + W - b = d + W
  OBVIOUS
<1>2. d % W = d
  OBVIOUS
<1>3. (d + W) % W = d
  OBVIOUS
<1> QED BY <1>1, <1>2, <1>3

(* The clock after one more millisecond. *)
LEMMA NextMillisecond ==
  ASSUME NEW W \in Nat, NEW a \in 0 .. W - 1
  PROVE  (a + 1) % W = IF a + 1 = W THEN 0 ELSE a + 1
<1>1. CASE a + 1 = W
  BY <1>1
<1>2. CASE a + 1 # W
  BY <1>2
<1> QED BY <1>1, <1>2


(* A core's view of the time, for one slow hook: last and since add up to  *)
(* the clock, and last and age to its sample, up to one wrap.              *)
Cell(c, k) ==
  /\ Running(c) => \/ last[c][k] + since[c][k] = clock
                   \/ last[c][k] + since[c][k] = clock + Wrap
  /\ pc[c] \in {"pass", "rearm"} =>
       /\ age[c][k] <= since[c][k]
       /\ \/ last[c][k] + age[c][k] = now[c]
          \/ last[c][k] + age[c][k] = now[c] + Wrap

TimeInv == SchedTypeOK /\ \A c \in Core, k \in Slow : Cell(c, k)

(* What a core has sampled tells it the age of each hook exactly. *)
LEMMA CellTellsAge ==
  ASSUME SchedTypeOK, NEW c \in Core, NEW k \in Slow, Cell(c, k),
         pc[c] \in {"pass", "rearm"}
  PROVE  (now[c] + Wrap - last[c][k]) % Wrap = age[c][k]
<1>1. /\ Wrap \in Nat /\ now[c] \in 0 .. Wrap - 1 /\ last[c][k] \in 0 .. Wrap - 1
      /\ age[c][k] \in 0 .. Wrap - 1
  <2>1. age[c][k] \in 0 .. MaxLag /\ MaxLag < Wrap /\ MaxLag \in Nat /\ Wrap \in Nat
    BY SchedulerAssumption DEF SchedTypeOK
  <2>2. now[c] \in 0 .. Wrap - 1 /\ last[c][k] \in 0 .. Wrap - 1
    BY DEF SchedTypeOK
  <2> QED BY <2>1, <2>2
<1>2. \/ last[c][k] + age[c][k] = now[c]
      \/ last[c][k] + age[c][k] = now[c] + Wrap
  BY DEF Cell
<1> QED BY <1>1, <1>2, WrappedDifference

LEMMA TimeInvTellsDue == TimeInv => DueOnTime
<1> SUFFICES ASSUME TimeInv, NEW c \in Core, NEW k \in Slow,
                    pc[c] \in {"pass", "rearm"}
             PROVE  Due(c, k) <=> age[c][k] >= Period[k]
  BY DEF DueOnTime
<1> QED BY CellTellsAge DEF TimeInv, Due

LEMMA TimeInvInit == SchedInit => TimeInv
<1> SUFFICES ASSUME SchedInit PROVE TimeInv
  OBVIOUS
<1>1. Wrap \in Nat /\ MaxLag \in Nat /\ 0 \in 0 .. Wrap - 1 /\ 0 \in 0 .. MaxLag
  BY SchedulerAssumption
<1>2. NoHook \in [Slow -> 0 .. Wrap - 1] /\ NoHook \in [Slow -> 0 .. MaxLag]
  BY <1>1 DEF NoHook
<1>3. SchedTypeOK
  BY <1>1, <1>2 DEF SchedTypeOK, SchedInit
<1>4. \A c \in Core, k \in Slow : Cell(c, k)
  BY DEF SchedInit, Cell, Running
<1> QED BY <1>3, <1>4 DEF TimeInv

(* Steps that leave the cores and the clock alone. *)
LEMMA TimeInvQuiet ==
  ASSUME TimeInv, SchedTypeOK', UNCHANGED <<clock, pc, timing>>
  PROVE  TimeInv'
BY DEF TimeInv, Cell, Running, timing

LEMMA TimeInvStart ==
  ASSUME TimeInv, NEW c \in Core, Start(c)
  PROVE  TimeInv'
<1>1. NoHook \in [Slow -> 0 .. MaxLag] /\ [k \in Slow |-> clock] \in [Slow -> 0 .. Wrap - 1]
  BY SchedulerAssumption DEF NoHook, TimeInv, SchedTypeOK
<1>2. SchedTypeOK'
  BY <1>1 DEF TimeInv, SchedTypeOK, Start, leaving
<1>3. ASSUME NEW d \in Core, NEW k \in Slow PROVE Cell(d, k)'
  <2>1. CASE d = c
    <3>1. last'[c][k] = clock /\ since'[c][k] = 0 /\ pc'[c] = "sample" /\ clock' = clock
      BY DEF Start, TimeInv, SchedTypeOK, NoHook
    <3>2. clock \in Nat
      BY SchedulerAssumption DEF TimeInv, SchedTypeOK
    <3> QED BY <2>1, <3>1, <3>2 DEF Cell
  <2>2. CASE d # c
    <3>1. /\ pc'[d] = pc[d] /\ last'[d] = last[d] /\ since'[d] = since[d]
          /\ age'[d] = age[d] /\ now'[d] = now[d] /\ clock' = clock
      BY <2>2 DEF Start, TimeInv, SchedTypeOK
    <3> QED BY <3>1 DEF TimeInv, Cell, Running
  <2> QED BY <2>1, <2>2
<1> QED BY <1>2, <1>3 DEF TimeInv

LEMMA TimeInvSample ==
  ASSUME TimeInv, NEW c \in Core, Sample(c)
  PROVE  TimeInv'
<1>1. NoHook \in [Slow -> 0 .. MaxLag] /\ NoHook \in [Slow -> 0 .. Wrap - 1]
  BY SchedulerAssumption DEF NoHook
<1>2. SchedTypeOK'
  <2>1. CASE stop
    <3>1. /\ pc' = [pc EXCEPT ![c] = "exited"] /\ last' = [last EXCEPT ![c] = NoHook]
          /\ since' = [since EXCEPT ![c] = NoHook] /\ UNCHANGED <<now, age>>
      BY <2>1 DEF TimeInv, SchedTypeOK, Sample
    <3>2. /\ pc' \in [Core -> {"start", "sample", "pass", "rearm", "exited"}]
          /\ last' \in [Core -> [Slow -> 0 .. Wrap - 1]]
          /\ since' \in [Core -> [Slow -> 0 .. MaxLag]]
      BY <1>1, <3>1 DEF TimeInv, SchedTypeOK
    <3> QED BY <3>1, <3>2 DEF TimeInv, SchedTypeOK, Sample, leaving
  <2>2. CASE ~stop
    <3>1. /\ clock \in 0 .. Wrap - 1 /\ since[c] \in [Slow -> 0 .. MaxLag]
          /\ pc' = [pc EXCEPT ![c] = "pass"] /\ now' = [now EXCEPT ![c] = clock]
          /\ age' = [age EXCEPT ![c] = since[c]] /\ UNCHANGED <<last, since>>
      BY <2>2 DEF TimeInv, SchedTypeOK, Sample
    <3>2. /\ pc' \in [Core -> {"start", "sample", "pass", "rearm", "exited"}]
          /\ now' \in [Core -> 0 .. Wrap - 1]
          /\ age' \in [Core -> [Slow -> 0 .. MaxLag]]
      BY <3>1 DEF TimeInv, SchedTypeOK
    <3> QED BY <3>1, <3>2 DEF TimeInv, SchedTypeOK, Sample, leaving
  <2> QED BY <2>1, <2>2
<1>3. ASSUME NEW d \in Core, NEW k \in Slow PROVE Cell(d, k)'
  <2>1. CASE d = c /\ stop
    <3>1. pc'[c] = "exited"
      BY <2>1 DEF Sample, TimeInv, SchedTypeOK
    <3> QED BY <2>1, <3>1 DEF Cell, Running
  <2>2. CASE d = c /\ ~stop
    <3>1. /\ pc'[c] = "pass" /\ now'[c] = clock /\ age'[c] = since[c] /\ clock' = clock
          /\ last'[c] = last[c] /\ since'[c] = since[c] /\ pc[c] = "sample"
      BY <2>2 DEF Sample, TimeInv, SchedTypeOK
    <3>2. since[c][k] \in Int
      BY SchedulerAssumption DEF TimeInv, SchedTypeOK
    <3> QED BY <2>2, <3>1, <3>2 DEF TimeInv, Cell, Running
  <2>3. CASE d # c
    <3>1. /\ pc'[d] = pc[d] /\ last'[d] = last[d] /\ since'[d] = since[d]
          /\ age'[d] = age[d] /\ now'[d] = now[d] /\ clock' = clock
      BY <2>3 DEF Sample, TimeInv, SchedTypeOK
    <3> QED BY <3>1 DEF TimeInv, Cell, Running
  <2> QED BY <2>1, <2>2, <2>3
<1> QED BY <1>2, <1>3 DEF TimeInv

LEMMA TimeInvPass ==
  ASSUME TimeInv, NEW c \in Core, Pass(c)
  PROVE  TimeInv'
<1>1. SchedTypeOK'
  BY DEF TimeInv, SchedTypeOK, Pass, timing, leaving
<1>2. ASSUME NEW d \in Core, NEW k \in Slow PROVE Cell(d, k)'
  <2>1. /\ last' = last /\ since' = since /\ age' = age /\ now' = now /\ clock' = clock
        /\ pc'[d] = pc[d] \/ (pc[d] = "pass" /\ pc'[d] = "rearm")
    BY DEF Pass, timing, TimeInv, SchedTypeOK
  <2> QED BY <2>1 DEF TimeInv, Cell, Running
<1> QED BY <1>1, <1>2 DEF TimeInv

LEMMA TimeInvRearm ==
  ASSUME TimeInv, NEW c \in Core, Rearm(c)
  PROVE  TimeInv'
<1>1. ASSUME NEW k \in Slow
      PROVE  /\ last'[c][k] = IF Due(c, k) THEN now[c] ELSE last[c][k]
             /\ since'[c][k] = IF Due(c, k) THEN since[c][k] - age[c][k] ELSE since[c][k]
  BY DEF Rearm, TimeInv, SchedTypeOK
<1>2. ASSUME NEW d \in Core, NEW k \in Slow
      PROVE  /\ since[d][k] \in 0 .. MaxLag /\ age[d][k] \in 0 .. MaxLag
             /\ now[d] \in 0 .. Wrap - 1 /\ last[d][k] \in 0 .. Wrap - 1
  BY DEF TimeInv, SchedTypeOK
<1>3. /\ Wrap \in Nat /\ MaxLag \in Nat /\ clock \in 0 .. Wrap - 1 /\ clock' = clock
      /\ pc[c] = "rearm" /\ pc'[c] = "sample" /\ now'[c] = 0 /\ age'[c] = NoHook
  BY SchedulerAssumption DEF TimeInv, SchedTypeOK, Rearm
<1>4. ASSUME NEW d \in Core, d # c
      PROVE  /\ pc'[d] = pc[d] /\ last'[d] = last[d] /\ since'[d] = since[d]
             /\ age'[d] = age[d] /\ now'[d] = now[d]
  BY <1>4 DEF Rearm, TimeInv, SchedTypeOK
<1>5. ASSUME NEW k \in Slow
      PROVE  /\ age[c][k] <= since[c][k]
             /\ \/ last[c][k] + age[c][k] = now[c]
                \/ last[c][k] + age[c][k] = now[c] + Wrap
             /\ \/ last[c][k] + since[c][k] = clock
                \/ last[c][k] + since[c][k] = clock + Wrap
  BY <1>3 DEF TimeInv, Cell, Running
<1>6. SchedTypeOK'
  <2> DEFINE newLast == [k \in Slow |-> IF Due(c, k) THEN now[c] ELSE last[c][k]]
             newSince == [k \in Slow |-> IF Due(c, k) THEN since[c][k] - age[c][k]
                                         ELSE since[c][k]]
  <2>1. newLast \in [Slow -> 0 .. Wrap - 1]
    BY <1>2
  <2>2. newSince \in [Slow -> 0 .. MaxLag]
    BY <1>2, <1>3, <1>5
  <2>3. NoHook \in [Slow -> 0 .. MaxLag] /\ 0 \in 0 .. Wrap - 1
    BY <1>3 DEF NoHook
  <2>4. last' = [last EXCEPT ![c] = newLast] /\ since' = [since EXCEPT ![c] = newSince]
    BY DEF Rearm, TimeInv, SchedTypeOK
  <2> HIDE DEF newLast, newSince
  <2> QED BY <2>1, <2>2, <2>3, <2>4 DEF TimeInv, SchedTypeOK, Rearm, leaving
<1>7. ASSUME NEW d \in Core, NEW k \in Slow PROVE Cell(d, k)'
  <2>1. CASE d = c
    <3>1. \/ last'[c][k] + since'[c][k] = clock
          \/ last'[c][k] + since'[c][k] = clock + Wrap
      <4>1. CASE Due(c, k)
        BY <4>1, <1>1, <1>2, <1>3, <1>5
      <4>2. CASE ~Due(c, k)
        BY <4>2, <1>1, <1>5
      <4> QED BY <4>1, <4>2
    <3> QED BY <2>1, <3>1, <1>3 DEF Cell
  <2>2. CASE d # c
    BY <2>2, <1>3, <1>4 DEF TimeInv, Cell, Running
  <2> QED BY <2>1, <2>2
<1> QED BY <1>6, <1>7 DEF TimeInv

LEMMA TimeInvMillisecond ==
  ASSUME TimeInv, Millisecond
  PROVE  TimeInv'
<1>1. /\ Wrap \in Nat /\ MaxLag \in Nat /\ clock \in 0 .. Wrap - 1
      /\ clock' = IF clock + 1 = Wrap THEN 0 ELSE clock + 1
  BY SchedulerAssumption, NextMillisecond DEF TimeInv, SchedTypeOK, Millisecond
<1>2. ASSUME NEW c \in Core, NEW k \in Slow
      PROVE  /\ since[c][k] \in 0 .. MaxLag
             /\ since'[c][k] = IF Running(c) THEN since[c][k] + 1 ELSE since[c][k]
             /\ Running(c) => since[c][k] < MaxLag
  BY DEF TimeInv, SchedTypeOK, Millisecond
<1>3. SchedTypeOK'
  <2>1. clock' \in 0 .. Wrap - 1
    BY <1>1
  <2>2. \A c \in Core : since'[c] \in [Slow -> 0 .. MaxLag]
    <3> SUFFICES ASSUME NEW c \in Core PROVE since'[c] \in [Slow -> 0 .. MaxLag]
      OBVIOUS
    <3>1. since'[c] = [k \in Slow |-> IF Running(c) THEN since[c][k] + 1 ELSE since[c][k]]
      BY DEF Millisecond
    <3>2. \A k \in Slow : (IF Running(c) THEN since[c][k] + 1 ELSE since[c][k]) \in 0 .. MaxLag
      BY <1>1, <1>2
    <3> QED BY <3>1, <3>2
  <2>3. since' \in [Core -> [Slow -> 0 .. MaxLag]]
    BY <2>2 DEF Millisecond
  <2> QED BY <2>1, <2>3 DEF TimeInv, SchedTypeOK, Millisecond, leaving
<1>4. ASSUME NEW c \in Core, NEW k \in Slow PROVE Cell(c, k)'
  <2>1. pc' = pc /\ now' = now /\ last' = last /\ age' = age
    BY DEF Millisecond
  <2>2. last[c][k] \in 0 .. Wrap - 1 /\ age[c][k] \in 0 .. MaxLag /\ Cell(c, k)
    BY DEF TimeInv, SchedTypeOK
  <2>3. Running(c) => \/ last[c][k] + since'[c][k] = clock'
                      \/ last[c][k] + since'[c][k] = clock' + Wrap
    <3> SUFFICES ASSUME Running(c)
                 PROVE  \/ last[c][k] + since'[c][k] = clock'
                        \/ last[c][k] + since'[c][k] = clock' + Wrap
      OBVIOUS
    <3>1. \/ last[c][k] + since[c][k] = clock
          \/ last[c][k] + since[c][k] = clock + Wrap
      BY <2>2 DEF Cell
    <3>2. since'[c][k] = since[c][k] + 1 /\ since[c][k] < MaxLag /\ MaxLag < Wrap
      BY <1>2, SchedulerAssumption
    <3> QED BY <3>1, <3>2, <1>1, <1>2, <2>2
  <2>4. pc[c] \in {"pass", "rearm"} => age[c][k] <= since'[c][k]
    <3> SUFFICES ASSUME pc[c] \in {"pass", "rearm"} PROVE age[c][k] <= since'[c][k]
      OBVIOUS
    <3>1. age[c][k] <= since[c][k]
      BY <2>2 DEF Cell
    <3> QED BY <3>1, <1>1, <1>2, <2>2
  <2> QED BY <2>1, <2>2, <2>3, <2>4 DEF Cell, Running
<1> QED BY <1>3, <1>4 DEF TimeInv

LEMMA TimeInvStep ==
  ASSUME TimeInv, [SchedNext]_svars
  PROVE  TimeInv'
<1>1. ASSUME NEW c \in Core, Start(c) \/ Sample(c) \/ Pass(c) \/ Rearm(c)
      PROVE  TimeInv'
  BY <1>1, TimeInvStart, TimeInvSample, TimeInvPass, TimeInvRearm
<1>2. CASE Millisecond
  BY <1>2, TimeInvMillisecond
<1>3. ASSUME NEW w \in Worker, Accept(w) PROVE TimeInv'
  <2>1. SchedTypeOK'
    BY <1>3 DEF TimeInv, SchedTypeOK, Accept, timing, leaving
  <2> QED BY <1>3, <2>1, TimeInvQuiet DEF Accept
<1>4. ASSUME NEW w \in Worker, Serve(w) PROVE TimeInv'
  <2>1. enabled' \in [Id -> BOOLEAN]
    BY <1>4 DEF Serve, Toggle, TimeInv, SchedTypeOK
  <2>2. SchedTypeOK'
    BY <1>4, <2>1 DEF TimeInv, SchedTypeOK, Serve, timing, leaving
  <2> QED BY <1>4, <2>2, TimeInvQuiet DEF Serve
<1>5. CASE Interrupt
  <2>1. SchedTypeOK'
    BY <1>5 DEF TimeInv, SchedTypeOK, Interrupt, timing
  <2> QED BY <1>5, <2>1, TimeInvQuiet DEF Interrupt
<1>6. CASE MainRemovesHttp
  <2>1. SchedTypeOK'
    BY <1>6 DEF TimeInv, SchedTypeOK, MainRemovesHttp, timing
  <2> QED BY <1>6, <2>1, TimeInvQuiet DEF MainRemovesHttp
<1>7. CASE ServerJoined
  <2>1. SchedTypeOK'
    BY <1>7 DEF TimeInv, SchedTypeOK, ServerJoined, timing
  <2> QED BY <1>7, <2>1, TimeInvQuiet DEF ServerJoined
<1>8. CASE UNCHANGED svars
  <2>1. SchedTypeOK'
    BY <1>8 DEF TimeInv, SchedTypeOK, svars, timing, leaving
  <2> QED BY <1>8, <2>1, TimeInvQuiet DEF svars
<1> QED
  BY <1>1, <1>2, <1>3, <1>4, <1>5, <1>6, <1>7, <1>8 DEF SchedNext

(* The fields of the scheduler keep their types under any schedule: the    *)
(* clock and its samples stay within a wrap, the true times within MaxLag. *)
THEOREM SchedulerTypeCorrect == SchedSpec => []SchedTypeOK
<1>1. TimeInv => SchedTypeOK
  BY DEF TimeInv
<1> QED BY <1>1, TimeInvInit, TimeInvStep, PTL DEF SchedSpec

(* A core whose hooks are not put off for as long as the clock takes to    *)
(* wrap finds a hook due exactly when its period has gone by.              *)
THEOREM SchedulerClockCorrect == SchedSpec => []DueOnTime
BY TimeInvInit, TimeInvStep, TimeInvTellsDue, PTL DEF SchedSpec

-----------------------------------------------------------------------------
(* flat[i] in Flatten: the first i sequences joined. *)
IsFlat(f, ss, n) ==
  f = [i \in 0 .. n |-> IF i = 0 THEN <<>> ELSE f[i - 1] \o ss[i]]

(* Flatten's recursion has a function that satisfies it.                   *)
LEMMA FlatExists ==
  ASSUME NEW ss, NEW n \in Nat
  PROVE  \E f : IsFlat(f, ss, n)
<1> DEFINE T == {k \in Nat : \E f : IsFlat(f, ss, k)}
<1>1. 0 \in T
  <2>1. IsFlat([i \in 0 .. 0 |-> <<>>], ss, 0)
    BY DEF IsFlat
  <2> QED BY <2>1
<1>2. ASSUME NEW k \in Nat, k \in T PROVE k + 1 \in T
  <2>1. PICK f : IsFlat(f, ss, k)
    BY <1>2
  <2> DEFINE joined == f[k] \o ss[k + 1]
             g == [i \in 0 .. k + 1 |-> IF i = k + 1 THEN joined ELSE f[i]]
  <2>2. \A i \in 0 .. k + 1 : g[i] = IF i = 0 THEN <<>> ELSE g[i - 1] \o ss[i]
    <3> SUFFICES ASSUME NEW i \in 0 .. k + 1
                 PROVE  g[i] = IF i = 0 THEN <<>> ELSE g[i - 1] \o ss[i]
      OBVIOUS
    <3>1. CASE i = k + 1
      <4>1. g[i - 1] = f[k] /\ i # 0
        BY <3>1
      <4> QED BY <3>1, <4>1
    <3>2. CASE i # k + 1 /\ i # 0
      <4>1. i \in 0 .. k /\ i - 1 \in 0 .. k /\ g[i] = f[i] /\ g[i - 1] = f[i - 1]
        BY <3>2
      <4> QED BY <2>1, <3>2, <4>1 DEF IsFlat
    <3>3. CASE i = 0
      <4>1. g[i] = f[i] /\ i \in 0 .. k
        BY <3>3
      <4> QED BY <2>1, <3>3, <4>1 DEF IsFlat
    <3> QED BY <3>1, <3>2, <3>3
  <2>3. IsFlat(g, ss, k + 1)
    <3>1. g = [i \in 0 .. k + 1 |-> g[i]]
      OBVIOUS
    <3> HIDE DEF g
    <3> QED BY <2>2, <3>1 DEF IsFlat
  <2> QED BY <2>3
<1> HIDE DEF T
<1>3. n \in T
  BY <1>1, <1>2, NatSetInduction
<1> QED BY <1>3 DEF T

(* Flatten, one sequence after the other. *)
JoinsTo(f, ss, n) ==
  /\ f[0] = <<>>
  /\ \A i \in 1 .. n : f[i] = f[i - 1] \o ss[i]
  /\ Flatten(ss) = f[n]

LEMMA FlattenSteps ==
  ASSUME NEW ss, Len(ss) \in Nat
  PROVE  \E f : JoinsTo(f, ss, Len(ss))
<1> DEFINE n == Len(ss)
           f == CHOOSE g : IsFlat(g, ss, n)
           step(i) == IF i = 0 THEN <<>> ELSE f[i - 1] \o ss[i]
<1>1. Flatten(ss) = f[n] /\ n \in Nat
  BY DEF Flatten, IsFlat
<1> HIDE DEF n
<1>2. IsFlat(f, ss, n)
  BY <1>1, FlatExists
<1> HIDE DEF f
<1>3. f = [i \in 0 .. n |-> step(i)]
  BY <1>2 DEF IsFlat
<1> HIDE DEF step
<1>4. \A i \in 0 .. n : f[i] = step(i)
  BY <1>3
<1>5. 0 \in 0 .. n /\ \A i \in 1 .. n : i \in 0 .. n /\ i # 0
  BY <1>1
<1>6. JoinsTo(f, ss, n)
  BY <1>1, <1>4, <1>5 DEF step, JoinsTo
<1> QED BY <1>6 DEF n

(* The elements of a joined list are those of its parts. *)
LEMMA FlattenElements ==
  ASSUME NEW A, NEW ss, NEW n \in Nat, Len(ss) = n, \A i \in 1 .. n : ss[i] \in Seq(A)
  PROVE  /\ Flatten(ss) \in Seq(A)
         /\ \A x : x \in Range(Flatten(ss)) <=> \E i \in 1 .. n : x \in Range(ss[i])
<1>1. PICK f : JoinsTo(f, ss, n)
  BY FlattenSteps
<1>2. f[0] = <<>> /\ Flatten(ss) = f[n] /\ \A i \in 1 .. n : f[i] = f[i - 1] \o ss[i]
  BY <1>1 DEF JoinsTo
<1> DEFINE Good(k) == /\ f[k] \in Seq(A)
                      /\ \A x : x \in Range(f[k]) <=> \E i \in 1 .. k : x \in Range(ss[i])
           T == {k \in Nat : k <= n => Good(k)}
<1>3. 0 \in T
  <2>1. f[0] = <<>> /\ <<>> \in Seq(A) /\ Range(<<>>) = {} /\ 1 .. 0 = {}
    BY <1>2 DEF Range
  <2>2. f[0] \in Seq(A) /\ Range(f[0]) = {}
    BY <2>1
  <2>3. Good(0)
    BY <2>1, <2>2, Zenon
  <2> QED BY <2>3
<1>4. ASSUME NEW k \in Nat, k \in T PROVE k + 1 \in T
  <2> SUFFICES ASSUME k + 1 <= n PROVE Good(k + 1)
    OBVIOUS
  <2>1. Good(k) /\ k + 1 \in 1 .. n /\ (k + 1) - 1 = k
    BY <1>4
  <2>2. f[k] \in Seq(A) /\ ss[k + 1] \in Seq(A) /\ f[k + 1] = f[k] \o ss[k + 1]
    BY <1>2, <2>1
  <2>3. f[k + 1] \in Seq(A) /\ Range(f[k + 1]) = Range(f[k]) \cup Range(ss[k + 1])
    BY <2>2, ConcatElements
  <2>4. \A i : i \in 1 .. k + 1 <=> i \in 1 .. k \/ i = k + 1
    OBVIOUS
  <2>5. \A x : (\E i \in 1 .. k + 1 : x \in Range(ss[i]))
                <=> (\E i \in 1 .. k : x \in Range(ss[i])) \/ x \in Range(ss[k + 1])
    BY <2>4
  <2>6. \A x : x \in Range(f[k]) <=> \E i \in 1 .. k : x \in Range(ss[i])
    BY <2>1
  <2>7. \A x : x \in Range(f[k + 1]) <=> \E i \in 1 .. k + 1 : x \in Range(ss[i])
    BY <2>3, <2>5, <2>6
  <2> QED BY <2>3, <2>7
<1> HIDE DEF T
<1>5. n \in T
  BY <1>3, <1>4, NatSetInduction
<1>6. Good(n)
  BY <1>5 DEF T
<1> QED BY <1>2, <1>6

(* Every x in the list has a y before it. *)
Led(s, y, x) == \A i \in DOMAIN s : s[i] = x => \E j \in 1 .. i - 1 : s[j] = y

(* Two runs of calls, each led by y or behind a call of y, are so joined.  *)
LEMMA LedConcat ==
  ASSUME NEW A, NEW s \in Seq(A), NEW t \in Seq(A), NEW x, NEW y,
         Led(s, y, x), Led(t, y, x) \/ y \in Range(s)
  PROVE  Led(s \o t, y, x)
<1> DEFINE u == s \o t
           n == Len(s)
           k == Len(t)
<1>1. /\ n \in Nat /\ k \in Nat
      /\ DOMAIN s = 1 .. n /\ DOMAIN t = 1 .. k /\ DOMAIN u = 1 .. n + k
  OBVIOUS
<1>2. /\ \A i \in 1 .. n : u[i] = s[i]
      /\ \A i \in 1 .. k : u[n + i] = t[i]
  OBVIOUS
<1> HIDE DEF u, n, k
<1> SUFFICES ASSUME NEW i \in 1 .. n + k, u[i] = x
             PROVE  \E j \in 1 .. i - 1 : u[j] = y
  BY <1>1 DEF Led, u
<1>3. CASE i <= n
  <2>1. i \in 1 .. n /\ s[i] = x
    BY <1>1, <1>2, <1>3
  <2>2. PICK j \in 1 .. i - 1 : s[j] = y
    BY <1>1, <2>1 DEF Led
  <2>3. j \in 1 .. n
    BY <1>1, <2>1, <2>2
  <2> QED BY <1>2, <2>2, <2>3
<1>4. CASE i > n /\ y \in Range(s)
  <2>1. PICK j \in 1 .. n : s[j] = y
    BY <1>1, <1>4 DEF Range
  <2>2. j \in 1 .. i - 1
    BY <1>1, <1>4
  <2> QED BY <1>2, <2>1, <2>2
<1>5. CASE i > n /\ Led(t, y, x)
  <2>1. i - n \in 1 .. k /\ i = n + (i - n)
    BY <1>1, <1>5
  <2>2. t[i - n] = x
    BY <1>2, <2>1
  <2>3. PICK j \in 1 .. (i - n) - 1 : t[j] = y
    BY <1>1, <1>5, <2>1, <2>2 DEF Led
  <2>4. j \in 1 .. k /\ n + j \in 1 .. i - 1
    BY <1>1, <2>1, <2>3
  <2> QED BY <1>2, <2>3, <2>4
<1> QED BY <1>1, <1>3, <1>4, <1>5

(* In a joined list each x may also have its y in an earlier part. *)
LEMMA FlattenLed ==
  ASSUME NEW A, NEW ss, NEW n \in Nat, Len(ss) = n, \A i \in 1 .. n : ss[i] \in Seq(A),
         NEW x, NEW y,
         \A i \in 1 .. n : Led(ss[i], y, x) \/ \E l \in 1 .. i - 1 : y \in Range(ss[l])
  PROVE  Led(Flatten(ss), y, x)
<1>1. PICK f : JoinsTo(f, ss, n)
  BY FlattenSteps
<1>2. f[0] = <<>> /\ Flatten(ss) = f[n] /\ \A i \in 1 .. n : f[i] = f[i - 1] \o ss[i]
  BY <1>1 DEF JoinsTo
<1> DEFINE Good(k) == /\ f[k] \in Seq(A)
                      /\ \A i \in 1 .. k : y \in Range(ss[i]) => y \in Range(f[k])
                      /\ Led(f[k], y, x)
           T == {k \in Nat : k <= n => Good(k)}
<1>3. 0 \in T
  <2>1. f[0] = <<>> /\ <<>> \in Seq(A) /\ Led(<<>>, y, x) /\ 1 .. 0 = {}
    BY <1>2 DEF Led
  <2>2. f[0] \in Seq(A) /\ Led(f[0], y, x)
    BY <2>1
  <2>3. Good(0)
    BY <2>1, <2>2, Zenon
  <2> QED BY <2>3
<1>4. ASSUME NEW k \in Nat, k \in T PROVE k + 1 \in T
  <2> SUFFICES ASSUME k + 1 <= n PROVE Good(k + 1)
    OBVIOUS
  <2>1. Good(k) /\ k + 1 \in 1 .. n /\ (k + 1) - 1 = k
    BY <1>4
  <2>2. f[k] \in Seq(A) /\ ss[k + 1] \in Seq(A) /\ f[k + 1] = f[k] \o ss[k + 1]
    BY <1>2, <2>1
  <2>3. f[k + 1] \in Seq(A) /\ Range(f[k + 1]) = Range(f[k]) \cup Range(ss[k + 1])
    BY <2>2, ConcatElements
  <2>4. \A i : i \in 1 .. k + 1 <=> i \in 1 .. k \/ i = k + 1
    OBVIOUS
  <2>5. Led(ss[k + 1], y, x) \/ y \in Range(f[k])
    <3>1. Led(ss[k + 1], y, x) \/ \E l \in 1 .. (k + 1) - 1 : y \in Range(ss[l])
      BY <2>1
    <3> QED BY <2>1, <3>1
  <2>6. Led(f[k + 1], y, x)
    BY <2>1, <2>2, <2>5, LedConcat
  <2>7. \A i \in 1 .. k : y \in Range(ss[i]) => y \in Range(f[k])
    BY <2>1
  <2>8. \A i \in 1 .. k + 1 : y \in Range(ss[i]) => y \in Range(f[k + 1])
    BY <2>3, <2>4, <2>7
  <2> QED BY <2>3, <2>6, <2>8
<1> HIDE DEF T
<1>5. n \in T
  BY <1>3, <1>4, NatSetInduction
<1>6. Good(n)
  BY <1>5 DEF T
<1> QED BY <1>2, <1>6

-----------------------------------------------------------------------------
(* run[d][x] in RunHook, from the calls g of one level less. *)
Deeper(g, h, x) ==
  OwnHook(h, x) \o Flatten([i \in DOMAIN children[x] |-> g[children[x][i]]])

IsRun(f, h, n) ==
  f = [d \in 0 .. n |-> [x \in Id |-> IF d = 0 THEN <<>> ELSE Deeper(f[d - 1], h, x)]]

(* The recursion of a wrapper has a function that satisfies it.            *)
LEMMA RunExists ==
  ASSUME NEW h, NEW n \in Nat
  PROVE  \E f : IsRun(f, h, n)
<1> DEFINE T == {k \in Nat : \E f : IsRun(f, h, k)}
<1>1. 0 \in T
  <2>1. IsRun([d \in 0 .. 0 |-> [x \in Id |-> <<>>]], h, 0)
    BY DEF IsRun
  <2> QED BY <2>1
<1>2. ASSUME NEW k \in Nat, k \in T PROVE k + 1 \in T
  <2>1. PICK f : IsRun(f, h, k)
    BY <1>2
  <2> DEFINE deepest == [x \in Id |-> Deeper(f[k], h, x)]
             g == [d \in 0 .. k + 1 |-> IF d = k + 1 THEN deepest ELSE f[d]]
             level(e, d) == [x \in Id |-> IF d = 0 THEN <<>> ELSE Deeper(e[d - 1], h, x)]
  <2>2. \A d \in 0 .. k + 1 : g[d] = level(g, d)
    <3> SUFFICES ASSUME NEW d \in 0 .. k + 1
                 PROVE  g[d] = level(g, d)
      OBVIOUS
    <3>1. CASE d = k + 1
      <4>1. g[d - 1] = f[k] /\ d # 0 /\ g[d] = deepest
        BY <3>1
      <4> QED BY <4>1
    <3>2. CASE d # k + 1
      <4>1. /\ d \in 0 .. k /\ g[d] = f[d]
            /\ d # 0 => g[d - 1] = f[d - 1]
        BY <3>2
      <4>2. f[d] = level(f, d)
        BY <2>1, <4>1 DEF IsRun
      <4> QED BY <4>1, <4>2
    <3> QED BY <3>1, <3>2
  <2>3. IsRun(g, h, k + 1)
    <3>1. g = [d \in 0 .. k + 1 |-> g[d]]
      OBVIOUS
    <3> HIDE DEF g
    <3> QED BY <2>2, <3>1 DEF IsRun
  <2> QED BY <2>3
<1> HIDE DEF T
<1>3. n \in T
  BY <1>1, <1>2, NatSetInduction
<1> QED BY <1>3 DEF T

(* RunHook, one level of nesting after the other. *)
RunsTo(f, h) ==
  /\ \A x \in Id : f[0][x] = <<>>
  /\ \A d \in 1 .. Cardinality(Id) : \A x \in Id : f[d][x] = Deeper(f[d - 1], h, x)
  /\ \A x \in Id : RunHook(h, x) = f[Cardinality(Id)][x]

LEMMA RunSteps ==
  ASSUME NEW h
  PROVE  \E f : RunsTo(f, h)
<1> DEFINE n == Cardinality(Id)
           f == CHOOSE g : IsRun(g, h, n)
           level(d) == [x \in Id |-> IF d = 0 THEN <<>> ELSE Deeper(f[d - 1], h, x)]
<1>1. \A x \in Id : RunHook(h, x) = f[n][x]
  BY DEF RunHook, IsRun, Deeper
<1>2. n \in Nat
  BY FS_CardinalityType, TreeAssumption
<1> HIDE DEF n
<1>3. IsRun(f, h, n)
  BY <1>2, RunExists
<1> HIDE DEF f
<1>4. f = [d \in 0 .. n |-> level(d)]
  BY <1>3 DEF IsRun
<1> HIDE DEF level
<1>5. \A d \in 0 .. n : f[d] = level(d)
  BY <1>4
<1>6. /\ 0 \in 0 .. n /\ \A d \in 1 .. n : d \in 0 .. n /\ d # 0
  BY <1>2
<1>7. /\ \A x \in Id : f[0][x] = <<>>
      /\ \A d \in 1 .. n : \A x \in Id : f[d][x] = Deeper(f[d - 1], h, x)
  BY <1>5, <1>6 DEF level
<1>8. RunsTo(f, h)
  BY <1>1, <1>7 DEF RunsTo, n
<1> QED BY <1>8

-----------------------------------------------------------------------------
(* The calls the child lists of x contribute, one part for each child. *)
KidCalls(g, x) == [i \in DOMAIN children[x] |-> g[children[x][i]]]

LEMMA KidCallsFacts ==
  ASSUME TreeTypeOK, NEW x \in Id, NEW g
  PROVE  /\ Len(KidCalls(g, x)) = Len(children[x]) /\ Len(children[x]) \in Nat
         /\ \A i \in 1 .. Len(children[x]) :
              /\ children[x][i] \in Id /\ children[x][i] \in Range(children[x])
              /\ KidCalls(g, x)[i] = g[children[x][i]]
<1> DEFINE kids == children[x]
<1>1. kids \in Seq(Id)
  BY DEF TreeTypeOK
<1>2. KidCalls(g, x) = [i \in DOMAIN kids |-> g[kids[i]]]
  BY DEF KidCalls
<1> HIDE DEF kids
<1>3. /\ Len(kids) \in Nat /\ DOMAIN kids = 1 .. Len(kids)
      /\ \A i \in 1 .. Len(kids) : kids[i] \in Id /\ kids[i] \in Range(kids)
  BY <1>1 DEF Range
<1>4. Len(KidCalls(g, x)) = Len(kids)
  BY <1>2, <1>3
<1>5. \A i \in 1 .. Len(kids) : KidCalls(g, x)[i] = g[kids[i]]
  BY <1>2, <1>3
<1> QED BY <1>3, <1>4, <1>5 DEF kids

(* The module's own call, if any, is one of the hook asked for. *)
LEMMA OwnCall ==
  ASSUME NEW h, NEW x \in Id
  PROVE  /\ OwnHook(h, x) \in Seq(Id \X {h})
         /\ \A n : <<n, h>> \in Range(OwnHook(h, x)) <=> n = x /\ enabled[x]
<1>1. CASE enabled[x]
  <2> DEFINE s == << <<x, h>> >>
  <2>1. <<x, h>> \in Id \X {h}
    OBVIOUS
  <2>2. OwnHook(h, x) = s /\ s \in Seq(Id \X {h}) /\ Range(s) = {<<x, h>>}
    BY <1>1, <2>1 DEF OwnHook, Range
  <2> QED BY <1>1, <2>2
<1>2. CASE ~enabled[x]
  BY <1>2 DEF OwnHook, Range
<1> QED BY <1>1, <1>2

(* A wrapper calls one hook, and no module's before its parent's. *)
LEMMA RunHookLed ==
  ASSUME TreeInv, NEW h, NEW x \in Id
  PROVE  /\ RunHook(h, x) \in Seq(Id \X {h})
         /\ \A n \in Id : n # x /\ enabled[parent[n]]
              => Led(RunHook(h, x), <<parent[n], h>>, <<n, h>>)
<1> DEFINE A == Id \X {h}
           N == Cardinality(Id)
<1>1. PICK f : RunsTo(f, h)
  BY RunSteps
<1>2. /\ \A y \in Id : f[0][y] = <<>>
      /\ \A d \in 1 .. N : \A y \in Id : f[d][y] = Deeper(f[d - 1], h, y)
      /\ RunHook(h, x) = f[N][x]
  BY <1>1 DEF RunsTo
<1>3. N \in Nat
  BY FS_CardinalityType, TreeAssumption
<1>4. TreeTypeOK /\ Agree(Live, parent, children)
  BY AgreeIff DEF TreeInv
<1> HIDE DEF A, N
<1> DEFINE Fine(s, y) == /\ s \in Seq(A)
                         /\ \A n \in Id : n # y /\ enabled[parent[n]]
                              => Led(s, <<parent[n], h>>, <<n, h>>)
           T == {d \in Nat : d <= N => \A y \in Id : Fine(f[d][y], y)}
<1>5. 0 \in T
  <2>1. ASSUME NEW y \in Id PROVE Fine(f[0][y], y)
    <3>1. <<>> \in Seq(A) /\ \A a, b : Led(<<>>, a, b)
      BY DEF Led
    <3>2. f[0][y] = <<>>
      BY <1>2
    <3> QED BY <3>1, <3>2, Zenon
  <2> QED BY <2>1
<1>6. ASSUME NEW d \in Nat, d \in T PROVE d + 1 \in T
  <2> SUFFICES ASSUME d + 1 <= N, NEW y \in Id PROVE Fine(f[d + 1][y], y)
    OBVIOUS
  <2> DEFINE own == OwnHook(h, y)
             parts == KidCalls(f[d], y)
             k == Len(children[y])
  <2>1. d + 1 \in 1 .. N /\ (d + 1) - 1 = d /\ \A z \in Id : Fine(f[d][z], z)
    BY <1>3, <1>6
  <2>2. f[d + 1][y] = own \o Flatten(parts)
    BY <1>2, <2>1 DEF Deeper, KidCalls
  <2>3. /\ Len(parts) = k /\ k \in Nat
        /\ \A i \in 1 .. k : /\ children[y][i] \in Id /\ children[y][i] \in Range(children[y])
                             /\ parts[i] = f[d][children[y][i]]
    BY <1>4, KidCallsFacts
  <2>4. /\ own \in Seq(A)
        /\ \A n : <<n, h>> \in Range(own) <=> n = y /\ enabled[y]
    BY OwnCall DEF A
  <2> HIDE DEF own, parts, k, Fine
  <2>5. \A i \in 1 .. k : Fine(parts[i], children[y][i])
    BY <2>1, <2>3
  <2>6. \A i \in 1 .. k : parts[i] \in Seq(A)
    BY <2>5 DEF Fine
  <2>7. Flatten(parts) \in Seq(A)
    BY <2>3, <2>6, FlattenElements
  <2>8. own \o Flatten(parts) \in Seq(A)
    BY <2>4, <2>7
  <2>9. ASSUME NEW n \in Id, n # y, enabled[parent[n]]
        PROVE  Led(own \o Flatten(parts), <<parent[n], h>>, <<n, h>>)
    <3> DEFINE up == <<parent[n], h>>
               it == <<n, h>>
    <3> SUFFICES Led(own \o Flatten(parts), up, it)
      OBVIOUS
    <3> HIDE DEF up, it
    <3>1. Led(own, up, it)
      <4>1. it \notin Range(own)
        BY <2>4, <2>9 DEF it
      <4> QED BY <4>1 DEF Led, Range
    <3>2. CASE n \in Range(children[y])
      <4>1. parent[n] = y
        BY <1>4, <3>2 DEF Agree
      <4>2. up \in Range(own)
        BY <2>4, <2>9, <4>1 DEF up
      <4> QED BY <2>4, <2>7, <3>1, <4>2, LedConcat
    <3>3. CASE n \notin Range(children[y])
      <4>1. \A i \in 1 .. k : Led(parts[i], up, it)
        BY <2>3, <2>5, <2>9, <3>3 DEF Fine, up, it
      <4>2. Led(Flatten(parts), up, it)
        BY <2>3, <2>6, <4>1, FlattenLed
      <4> QED BY <2>4, <2>7, <3>1, <4>2, LedConcat
    <3> QED BY <3>2, <3>3
  <2>10. Fine(own \o Flatten(parts), y)
    BY <2>8, <2>9 DEF Fine
  <2> QED BY <2>2, <2>10
<1> HIDE DEF T
<1>7. N \in T
  BY <1>3, <1>5, <1>6, NatSetInduction
<1>8. Fine(f[N][x], x)
  BY <1>3, <1>7 DEF T
<1> QED BY <1>2, <1>8 DEF A

-----------------------------------------------------------------------------
(* How often x stands in the list. *)
Count(s, x) == Cardinality({i \in DOMAIN s : s[i] = x})

LEMMA CountFacts ==
  ASSUME NEW A, NEW s \in Seq(A), NEW x
  PROVE  /\ Count(s, x) \in Nat
         /\ Count(s, x) > 0 <=> x \in Range(s)
<1> DEFINE P == {i \in DOMAIN s : s[i] = x}
<1>1. Len(s) \in Nat /\ DOMAIN s = 1 .. Len(s)
  OBVIOUS
<1>2. IsFiniteSet(1 .. Len(s))
  BY <1>1, FS_Interval
<1>3. P \in SUBSET (1 .. Len(s))
  BY <1>1
<1>4. P # {} <=> x \in Range(s)
  BY DEF Range
<1>5. Count(s, x) = Cardinality(P)
  BY DEF Count
<1> HIDE DEF P
<1>6. IsFiniteSet(P)
  BY <1>2, <1>3, FS_Subset
<1>7. Cardinality(P) \in Nat /\ (Cardinality(P) = 0 <=> P = {})
  BY <1>6, FS_CardinalityType, FS_EmptySet
<1> QED BY <1>4, <1>5, <1>7

LEMMA CountConcat ==
  ASSUME NEW A, NEW s \in Seq(A), NEW t \in Seq(A), NEW x
  PROVE  Count(s \o t, x) = Count(s, x) + Count(t, x)
<1> DEFINE u == s \o t
           n == Len(s)
           k == Len(t)
           P == {i \in DOMAIN s : s[i] = x}
           Q == {i \in DOMAIN t : t[i] = x}
           R == {i \in DOMAIN u : u[i] = x}
           W == {i \in n + 1 .. n + k : u[i] = x}
           shift == [i \in Q |-> n + i]
<1>1. /\ n \in Nat /\ k \in Nat
      /\ DOMAIN s = 1 .. n /\ DOMAIN t = 1 .. k /\ DOMAIN u = 1 .. n + k
  OBVIOUS
<1>2. /\ \A i \in 1 .. n : u[i] = s[i]
      /\ \A i \in 1 .. k : u[n + i] = t[i]
  OBVIOUS
<1> HIDE DEF u, n, k
<1>3. R = P \cup W /\ P \cap W = {}
  BY <1>1, <1>2
<1>4. shift \in Bijection(Q, W)
  <2>1. \A i \in Q : shift[i] = n + i /\ n + i \in W
    BY <1>1, <1>2
  <2>2. ASSUME NEW j \in W PROVE \E i \in Q : shift[i] = j
    <3>1. j - n \in 1 .. k /\ n + (j - n) = j
      BY <1>1
    <3>2. j - n \in Q
      BY <1>1, <1>2, <3>1
    <3> QED BY <2>1, <3>1, <3>2
  <2>3. \A i, j \in Q : shift[i] = shift[j] => i = j
    BY <1>1
  <2>4. shift \in [Q -> W]
    BY <2>1
  <2> HIDE DEF shift, Q, W
  <2> QED BY <2>2, <2>3, <2>4 DEF Bijection, Injection, Surjection, IsInjective
<1>5. P \in SUBSET (1 .. n) /\ Q \in SUBSET (1 .. k)
  BY <1>1
<1> HIDE DEF P, Q, W, R, shift
<1>6. IsFiniteSet(P) /\ IsFiniteSet(Q)
  <2>1. IsFiniteSet(1 .. n) /\ IsFiniteSet(1 .. k)
    BY <1>1, FS_Interval
  <2> QED BY <1>5, <2>1, FS_Subset
<1>7. IsFiniteSet(W) /\ Cardinality(W) = Cardinality(Q)
  BY <1>4, <1>6, FS_Bijection DEF ExistsBijection
<1>8. Cardinality(R) = Cardinality(P) + Cardinality(W) - Cardinality(P \cap W)
  BY <1>3, <1>6, <1>7, FS_Union
<1>9. Cardinality(P \cap W) = 0 /\ Cardinality(P) \in Nat /\ Cardinality(W) \in Nat
  BY <1>3, <1>6, <1>7, FS_EmptySet, FS_CardinalityType
<1>10. /\ Count(s \o t, x) = Cardinality(R) /\ Count(s, x) = Cardinality(P)
       /\ Count(t, x) = Cardinality(Q)
  BY DEF Count, P, Q, R, u
<1> QED BY <1>7, <1>8, <1>9, <1>10

(* The lists that hold x once. *)
Holders(ss, n, x) == {i \in 1 .. n : Count(ss[i], x) = 1}

(* Of lists that hold x at most once, as many as hold it. *)
LEMMA FlattenCount ==
  ASSUME NEW A, NEW ss, NEW n \in Nat, Len(ss) = n, \A i \in 1 .. n : ss[i] \in Seq(A),
         NEW x, \A i \in 1 .. n : Count(ss[i], x) \in {0, 1}
  PROVE  Count(Flatten(ss), x) = Cardinality(Holders(ss, n, x))
<1>1. PICK f : JoinsTo(f, ss, n)
  BY FlattenSteps
<1>2. f[0] = <<>> /\ Flatten(ss) = f[n] /\ \A i \in 1 .. n : f[i] = f[i - 1] \o ss[i]
  BY <1>1 DEF JoinsTo
<1> DEFINE Hold(k) == Holders(ss, k, x)
           Good(k) == f[k] \in Seq(A) /\ Count(f[k], x) = Cardinality(Hold(k))
           T == {k \in Nat : k <= n => Good(k)}
<1>3. 0 \in T
  <2>1. f[0] = <<>> /\ <<>> \in Seq(A) /\ 1 .. 0 = {}
    BY <1>2
  <2>2. {i \in DOMAIN <<>> : <<>>[i] = x} = {} /\ Hold(0) = {}
    BY <2>1 DEF Holders
  <2>3. Count(<<>>, x) = Cardinality({})
    BY <2>2 DEF Count
  <2>4. f[0] \in Seq(A) /\ Count(f[0], x) = Cardinality(Hold(0))
    BY <2>1, <2>2, <2>3, Zenon
  <2> QED BY <2>4
<1>4. ASSUME NEW k \in Nat, k \in T PROVE k + 1 \in T
  <2> SUFFICES ASSUME k + 1 <= n PROVE Good(k + 1)
    OBVIOUS
  <2>1. Good(k) /\ k + 1 \in 1 .. n /\ (k + 1) - 1 = k
    BY <1>4
  <2>2. f[k] \in Seq(A) /\ ss[k + 1] \in Seq(A) /\ f[k + 1] = f[k] \o ss[k + 1]
    BY <1>2, <2>1
  <2>3. f[k + 1] \in Seq(A)
    BY <2>2
  <2>4. Count(f[k + 1], x) = Count(f[k], x) + Count(ss[k + 1], x)
    BY <2>2, CountConcat
  <2>5. \A i : i \in 1 .. k + 1 <=> i \in 1 .. k \/ i = k + 1
    OBVIOUS
  <2>6. IsFiniteSet(Hold(k)) /\ k + 1 \notin Hold(k)
    <3>1. Hold(k) \in SUBSET (1 .. k)
      BY DEF Holders
    <3> HIDE DEF Hold
    <3> QED BY <3>1, FS_Interval, FS_Subset
  <2>7. Count(f[k], x) = Cardinality(Hold(k))
    BY <2>1
  <2>8. CASE Count(ss[k + 1], x) = 1
    <3>1. Hold(k + 1) = Hold(k) \cup {k + 1}
      BY <2>5, <2>8 DEF Holders
    <3> HIDE DEF Hold
    <3>2. Cardinality(Hold(k + 1)) = Cardinality(Hold(k)) + 1
      BY <2>6, <3>1, FS_AddElement
    <3> QED BY <2>3, <2>4, <2>7, <2>8, <3>2
  <2>9. CASE Count(ss[k + 1], x) = 0
    <3>1. Hold(k + 1) = Hold(k)
      BY <2>5, <2>9 DEF Holders
    <3>2. Cardinality(Hold(k)) \in Nat
      BY <2>6, FS_CardinalityType
    <3> HIDE DEF Hold
    <3> QED BY <2>3, <2>4, <2>7, <2>9, <3>1, <3>2
  <2> QED BY <2>1, <2>8, <2>9
<1> HIDE DEF T
<1>5. n \in T
  BY <1>3, <1>4, NatSetInduction
<1>6. Count(f[n], x) = Cardinality(Hold(n))
  BY <1>5 DEF T
<1> QED BY <1>2, <1>6, Zenon

-----------------------------------------------------------------------------
(* In a forest what is nested in m divides into m and its children's parts. *)
LEMMA BelowDivides ==
  ASSUME NEW live \in SUBSET Id, NEW par, NEW kids \in [Id -> Seq(Id)],
         Agree(live, par, kids), Forest(live, par), NEW m \in Id
  PROVE  /\ \A y : y \in Below(kids, m)
                     <=> y = m \/ \E c \in Range(kids[m]) : y \in Below(kids, c)
         /\ \A c \in Range(kids[m]) : m \notin Below(kids, c)
         /\ \A b, c \in Range(kids[m]) : b # c => Below(kids, b) \cap Below(kids, c) = {}
<1>1. \A c \in Range(kids[m]) : c \in Id /\ c \in live /\ m \in live /\ par[c] = m
  BY DEF Agree
<1>2. \A y \in Id : /\ y \in Below(kids, y) /\ Below(kids, y) \subseteq Id
                    /\ \A z \in Below(kids, y) : Range(kids[z]) \subseteq Below(kids, y)
  BY BelowClosed DEF Below
<1>3. ASSUME NEW c \in Range(kids[m]) PROVE Below(kids, c) \subseteq Below(kids, m)
  <2> DEFINE S == Below(kids, m)
  <2>1. S \in SUBSET Id /\ c \in S /\ \A y \in S : Range(kids[y]) \subseteq S
    BY <1>2, <1>3
  <2> HIDE DEF S
  <2>2. Below(kids, c) \subseteq S
    BY <2>1 DEF Below
  <2> QED BY <2>2 DEF S
<1>4. ASSUME NEW y \in Below(kids, m)
      PROVE  y = m \/ \E c \in Range(kids[m]) : y \in Below(kids, c)
  <2> DEFINE S == {z \in Id : z = m \/ \E c \in Range(kids[m]) : z \in Below(kids, c)}
  <2>1. S \in SUBSET Id /\ m \in S
    OBVIOUS
  <2>2. ASSUME NEW z \in S PROVE Range(kids[z]) \subseteq S
    <3>1. CASE z = m
      BY <1>1, <1>2, <3>1
    <3>2. ASSUME NEW c \in Range(kids[m]), z \in Below(kids, c) PROVE Range(kids[z]) \subseteq S
      BY <1>1, <1>2, <3>2
    <3> QED BY <2>2, <3>1, <3>2
  <2>3. \A z \in S : Range(kids[z]) \subseteq S
    BY <2>2
  <2> HIDE DEF S
  <2>4. y \in S
    BY <1>4, <2>1, <2>3 DEF Below
  <2> QED BY <2>4 DEF S
<1>5. ASSUME NEW c \in Range(kids[m]) PROVE m \notin Below(kids, c)
  <2> SUFFICES ASSUME m \in Below(kids, c) PROVE FALSE
    OBVIOUS
  <2> DEFINE S == Below(kids, c)
  <2>1. \A y \in S : y # c => y \in live /\ par[y] \in S
    BY <1>1, <1>5, BelowParent
  <2>2. c \in live /\ par[c] \in S
    BY <1>1, <1>5
  <2>3. \A y \in S : y \in live /\ par[y] \in S
    BY <2>1, <2>2
  <2>4. S \in SUBSET live /\ S # {}
    BY <1>1, <1>2, <1>5, <2>3
  <2> HIDE DEF S
  <2> QED BY <2>3, <2>4 DEF Forest
<1>6. ASSUME NEW b \in Range(kids[m]), NEW c \in Range(kids[m]), b # c
      PROVE  Below(kids, b) \cap Below(kids, c) = {}
  <2> DEFINE S == Below(kids, b) \ Below(kids, c)
  <2>1. b \in Id /\ c \in Id /\ par[b] = m /\ par[c] = m /\ m \notin Below(kids, b) /\ m \notin Below(kids, c)
    BY <1>1, <1>5, <1>6
  <2>2. b \in S
    <3> SUFFICES ASSUME b \in Below(kids, c) PROVE FALSE
      BY <1>2, <2>1
    <3>1. par[b] \in Below(kids, c)
      BY <1>6, <2>1, BelowParent
    <3> QED BY <2>1, <3>1
  <2>3. ASSUME NEW y \in S, NEW z \in Range(kids[y]) PROVE z \in S
    <3>1. y \in Id /\ z \in Below(kids, b)
      BY <1>2, <2>1, <2>3
    <3>2. par[z] = y
      BY <2>3, <3>1 DEF Agree
    <3>3. z # c
      BY <2>1, <2>3, <3>2
    <3>4. z \notin Below(kids, c)
      <4> SUFFICES ASSUME z \in Below(kids, c) PROVE FALSE
        OBVIOUS
      <4>1. par[z] \in Below(kids, c)
        BY <2>1, <3>3, BelowParent
      <4> QED BY <2>3, <3>2, <4>1
    <3> QED BY <3>1, <3>4
  <2>4. S \in SUBSET Id /\ \A y \in S : Range(kids[y]) \subseteq S
    BY <1>2, <2>1, <2>3
  <2> HIDE DEF S
  <2>5. Below(kids, b) \subseteq S
    BY <2>2, <2>4 DEF Below
  <2> QED BY <2>5 DEF S
<1>7. m \in Below(kids, m)
  BY <1>2
<1> QED BY <1>3, <1>4, <1>5, <1>6, <1>7

(* A module's own hook is called once if it is enabled, else not at all.   *)
LEMMA OwnCount ==
  ASSUME NEW h, NEW x \in Id, NEW n
  PROVE  Count(OwnHook(h, x), <<n, h>>) = IF n = x /\ enabled[x] THEN 1 ELSE 0
<1> DEFINE s == OwnHook(h, x)
           P == {i \in DOMAIN s : s[i] = <<n, h>>}
<1>1. CASE n = x /\ enabled[x]
  <2>1. s = << <<x, h>> >>
    BY <1>1 DEF OwnHook
  <2>2. P = {1}
    BY <1>1, <2>1
  <2> HIDE DEF P
  <2> QED BY <1>1, <2>2, FS_Singleton DEF Count, P
<1>2. CASE ~(n = x /\ enabled[x])
  <2>1. <<n, h>> \notin Range(s)
    BY <1>2, OwnCall
  <2>2. P = {}
    BY <2>1 DEF Range
  <2> HIDE DEF P
  <2> QED BY <1>2, <2>2, FS_EmptySet DEF Count, P
<1> QED BY <1>1, <1>2

UiForest == UiInv /\ Forest(Live, parent)

LEMMA UiInvForest == UiInv => UiForest
BY DEF UiForest, UiInv, ParentsAlive, Acyclic, Forest, Live

(* A part nested in m is smaller than what is nested in m. *)
LEMMA BelowShrinks ==
  ASSUME UiForest, NEW m \in Id, NEW c \in Range(children[m]), c \in Id
  PROVE  /\ Cardinality(Below(children, c)) \in Nat
         /\ Cardinality(Below(children, c)) < Cardinality(Below(children, m))
<1>1. /\ children \in [Id -> Seq(Id)] /\ Live \in SUBSET Id
      /\ Agree(Live, parent, children) /\ Forest(Live, parent)
  BY AgreeIff DEF UiForest, UiInv, TreeInv, TreeTypeOK, Live
<1>2. /\ Below(children, c) \subseteq Below(children, m)
      /\ m \in Below(children, m) /\ m \notin Below(children, c)
  BY <1>1, BelowDivides
<1> DEFINE B == Below(children, m)
           C == Below(children, c)
<1>3. B \in SUBSET Id
  BY DEF Below
<1> HIDE DEF B, C
<1>4. IsFiniteSet(B)
  BY <1>3, FS_Subset, TreeAssumption
<1>5. C \in SUBSET B /\ C # B
  BY <1>2 DEF B, C
<1>6. IsFiniteSet(C) /\ Cardinality(C) <= Cardinality(B) /\ Cardinality(C) # Cardinality(B)
  BY <1>4, <1>5, FS_Subset
<1>7. Cardinality(B) \in Nat /\ Cardinality(C) \in Nat
  BY <1>4, <1>6, FS_CardinalityType
<1> QED BY <1>6, <1>7 DEF B, C

(* A wrapper calls the hook once for each enabled module nested in x, x    *)
(* included.                                                               *)
CalledOnce(s, h, x) ==
  \A n \in Id : Count(s, <<n, h>>) = IF enabled[n] /\ n \in Below(children, x) THEN 1 ELSE 0

(* One level of the recursion. *)
LEMMA DeeperCount ==
  ASSUME UiForest, NEW h, NEW x \in Id, NEW g,
         \A y \in Range(children[x]) : g[y] \in Seq(Id \X {h}) /\ CalledOnce(g[y], h, y)
  PROVE  /\ Deeper(g, h, x) \in Seq(Id \X {h})
         /\ CalledOnce(Deeper(g, h, x), h, x)
<1> DEFINE A == Id \X {h}
           own == OwnHook(h, x)
           parts == KidCalls(g, x)
           kids == children[x]
           k == Len(children[x])
<1>1. /\ children \in [Id -> Seq(Id)] /\ Live \in SUBSET Id /\ TreeTypeOK
      /\ Agree(Live, parent, children) /\ Forest(Live, parent)
  BY AgreeIff DEF UiForest, UiInv, TreeInv, TreeTypeOK, Live
<1>2. /\ Len(parts) = k /\ k \in Nat /\ DOMAIN kids = 1 .. k /\ Injective(kids)
      /\ \A i \in 1 .. k : kids[i] \in Id /\ kids[i] \in Range(kids) /\ parts[i] = g[kids[i]]
  <2>1. kids \in Seq(Id) /\ Injective(kids)
    BY <1>1 DEF Agree
  <2>2. k \in Nat /\ DOMAIN kids = 1 .. k
    BY <2>1
  <2> QED BY <1>1, <2>1, <2>2, KidCallsFacts
<1>3. Deeper(g, h, x) = own \o Flatten(parts)
  BY DEF Deeper, KidCalls
<1>4. own \in Seq(A) /\ \A n : Count(own, <<n, h>>) = IF n = x /\ enabled[x] THEN 1 ELSE 0
  BY OwnCall, OwnCount
<1>5. /\ \A y : y \in Below(children, x)
                  <=> y = x \/ \E c \in Range(kids) : y \in Below(children, c)
      /\ \A c \in Range(kids) : x \notin Below(children, c)
      /\ \A b, c \in Range(kids) :
           b # c => Below(children, b) \cap Below(children, c) = {}
  BY <1>1, BelowDivides
<1>6. \A y \in Range(kids) : g[y] \in Seq(A) /\ CalledOnce(g[y], h, y)
  OBVIOUS
<1> HIDE DEF A, own, parts, kids, k
<1>7. \A i \in 1 .. k : parts[i] \in Seq(A) /\ CalledOnce(parts[i], h, kids[i])
  BY <1>2, <1>6
<1>8. Flatten(parts) \in Seq(A)
  BY <1>2, <1>7, FlattenElements
<1>9. own \o Flatten(parts) \in Seq(A)
  BY <1>4, <1>8
<1>10. ASSUME NEW n \in Id
       PROVE  Count(own \o Flatten(parts), <<n, h>>)
                = IF enabled[n] /\ n \in Below(children, x) THEN 1 ELSE 0
  <2> DEFINE it == <<n, h>>
             H == Holders(parts, k, it)
  <2>1. \A i \in 1 .. k :
          Count(parts[i], it) = IF enabled[n] /\ n \in Below(children, kids[i]) THEN 1 ELSE 0
    BY <1>7 DEF CalledOnce
  <2>2. Count(own, it) = IF n = x /\ enabled[x] THEN 1 ELSE 0
    BY <1>4
  <2> HIDE DEF it
  <2>3. Count(own \o Flatten(parts), it) = Count(own, it) + Count(Flatten(parts), it)
    BY <1>4, <1>8, CountConcat
  <2>4. \A i \in 1 .. k : Count(parts[i], it) \in {0, 1}
    BY <2>1
  <2>5. Count(Flatten(parts), it) = Cardinality(H)
    <3>1. Len(parts) = k /\ k \in Nat /\ \A i \in 1 .. k : parts[i] \in Seq(A)
      BY <1>2, <1>7
    <3> HIDE DEF H
    <3> QED BY <2>4, <3>1, FlattenCount DEF H
  <2>6. \A i : i \in H <=> i \in 1 .. k /\ enabled[n] /\ n \in Below(children, kids[i])
    BY <2>1 DEF Holders
  <2> HIDE DEF H
  <2>7. CASE enabled[n] /\ n \in Below(children, x) /\ n # x
    <3>1. PICK c \in Range(kids) : n \in Below(children, c)
      BY <1>5, <2>7
    <3>2. PICK i \in 1 .. k : kids[i] = c
      BY <1>2, <3>1 DEF Range
    <3>3. i \in H
      BY <2>6, <2>7, <3>1, <3>2
    <3>4. ASSUME NEW j \in H PROVE j = i
      <4>1. j \in 1 .. k /\ n \in Below(children, kids[j]) /\ kids[j] \in Range(kids)
        BY <1>2, <2>6, <3>4
      <4>2. kids[j] = c
        BY <1>5, <3>1, <4>1
      <4> QED BY <1>2, <3>2, <4>1, <4>2 DEF Injective
    <3>5. H = {i}
      BY <3>3, <3>4
    <3>6. Cardinality(H) = 1
      BY <3>5, FS_Singleton
    <3> QED BY <2>2, <2>3, <2>5, <2>7, <3>6 DEF it
  <2>8. CASE ~(enabled[n] /\ n \in Below(children, x) /\ n # x)
    <3>1. H = {}
      <4> SUFFICES ASSUME NEW i \in H PROVE FALSE
        OBVIOUS
      <4>1. /\ i \in 1 .. k /\ enabled[n] /\ n \in Below(children, kids[i])
            /\ kids[i] \in Range(kids)
        BY <1>2, <2>6
      <4>2. n \in Below(children, x) /\ n # x
        BY <1>5, <4>1
      <4> QED BY <2>8, <4>1, <4>2
    <3>2. Cardinality(H) = 0
      BY <3>1, FS_EmptySet
    <3>3. x \in Below(children, x)
      BY <1>5
    <3> QED BY <2>2, <2>3, <2>5, <2>8, <3>2, <3>3 DEF it
  <2> QED BY <2>7, <2>8
<1> QED BY <1>3, <1>9, <1>10 DEF CalledOnce, A

(* A wrapper calls each enabled module of its subtree exactly once.        *)
LEMMA RunHookCount ==
  ASSUME UiForest, NEW h, NEW x \in Id
  PROVE  CalledOnce(RunHook(h, x), h, x)
<1> DEFINE N == Cardinality(Id)
           size(y) == Cardinality(Below(children, y))
           Fine(s, y, d) == /\ s \in Seq(Id \X {h})
                            /\ size(y) <= d => CalledOnce(s, h, y)
<1>1. PICK f : RunsTo(f, h)
  BY RunSteps
<1> DEFINE T == {d \in Nat : d <= N => \A y \in Id : Fine(f[d][y], y, d)}
<1>2. /\ \A y \in Id : f[0][y] = <<>>
      /\ \A d \in 1 .. N : \A y \in Id : f[d][y] = Deeper(f[d - 1], h, y)
      /\ RunHook(h, x) = f[N][x]
  BY <1>1 DEF RunsTo
<1>3. N \in Nat
  BY FS_CardinalityType, TreeAssumption
<1>4. /\ children \in [Id -> Seq(Id)] /\ TreeTypeOK /\ Agree(Live, parent, children)
  BY AgreeIff DEF UiForest, UiInv, TreeInv, TreeTypeOK
<1>5. \A y \in Id : size(y) \in Nat /\ size(y) # 0 /\ size(y) <= N
  <2> SUFFICES ASSUME NEW y \in Id PROVE size(y) \in Nat /\ size(y) # 0 /\ size(y) <= N
    OBVIOUS
  <2> DEFINE B == Below(children, y)
  <2>1. B \in SUBSET Id /\ B # {}
    BY <1>4, BelowClosed DEF Below
  <2> HIDE DEF B
  <2>2. IsFiniteSet(B) /\ Cardinality(B) <= N
    BY <2>1, FS_Subset, TreeAssumption
  <2>3. Cardinality(B) \in Nat /\ Cardinality(B) # 0
    BY <2>1, <2>2, FS_CardinalityType, FS_EmptySet
  <2> QED BY <2>2, <2>3 DEF B
<1> HIDE DEF N, size
<1>6. 0 \in T
  <2>1. ASSUME NEW y \in Id PROVE Fine(f[0][y], y, 0)
    <3>1. <<>> \in Seq(Id \X {h}) /\ f[0][y] = <<>>
      BY <1>2
    <3>2. ~(size(y) <= 0)
      BY <1>5
    <3> QED BY <3>1, <3>2, Zenon
  <2> QED BY <2>1
<1>7. ASSUME NEW d \in Nat, d \in T PROVE d + 1 \in T
  <2> SUFFICES ASSUME d + 1 <= N, NEW y \in Id PROVE Fine(f[d + 1][y], y, d + 1)
    OBVIOUS
  <2>1. d + 1 \in 1 .. N /\ (d + 1) - 1 = d /\ \A z \in Id : Fine(f[d][z], z, d)
    BY <1>3, <1>7
  <2>2. f[d + 1][y] = Deeper(f[d], h, y)
    BY <1>2, <2>1
  <2>3. \A c \in Range(children[y]) : c \in Id
    BY <1>4, RangeOfSeq
  <2>4. Deeper(f[d], h, y) \in Seq(Id \X {h})
    <3>1. \A c \in Id : f[d][c] \in Seq(Id \X {h})
      BY <2>1
    <3>2. /\ Len(KidCalls(f[d], y)) = Len(children[y]) /\ Len(children[y]) \in Nat
          /\ \A i \in 1 .. Len(children[y]) :
               /\ children[y][i] \in Id
               /\ KidCalls(f[d], y)[i] = f[d][children[y][i]]
      BY <1>4, KidCallsFacts
    <3>3. \A i \in 1 .. Len(children[y]) : KidCalls(f[d], y)[i] \in Seq(Id \X {h})
      BY <3>1, <3>2
    <3>4. Flatten(KidCalls(f[d], y)) \in Seq(Id \X {h})
      BY <3>2, <3>3, FlattenElements
    <3>5. OwnHook(h, y) \in Seq(Id \X {h})
      BY OwnCall
    <3>6. Deeper(f[d], h, y) = OwnHook(h, y) \o Flatten(KidCalls(f[d], y))
      BY DEF Deeper, KidCalls
    <3> QED BY <3>4, <3>5, <3>6
  <2>5. ASSUME size(y) <= d + 1 PROVE CalledOnce(Deeper(f[d], h, y), h, y)
    <3>1. ASSUME NEW c \in Range(children[y])
          PROVE  f[d][c] \in Seq(Id \X {h}) /\ CalledOnce(f[d][c], h, c)
      <4>1. c \in Id /\ size(c) \in Nat /\ size(c) < size(y)
        BY <2>3, BelowShrinks DEF size
      <4>2. size(c) <= d
        BY <1>5, <2>5, <4>1
      <4> QED BY <2>1, <4>1, <4>2
    <3> QED BY <3>1, DeeperCount
  <2>6. Fine(Deeper(f[d], h, y), y, d + 1)
    BY <2>4, <2>5, Zenon
  <2> HIDE DEF Fine
  <2> QED BY <2>2, <2>6, Zenon
<1> HIDE DEF T, Fine
<1>8. N \in T
  BY <1>3, <1>6, <1>7, NatSetInduction
<1>9. Fine(f[N][x], x, N)
  BY <1>3, <1>8 DEF T
<1> QED BY <1>2, <1>5, <1>9 DEF Fine

-----------------------------------------------------------------------------
Hooks == Slow \cup {"loop"}
Calls == Id \X Hooks

(* The part of Dispatch for the slow hooks. *)
SlowCalls(c, x) ==
  [i \in DOMAIN Cadence |-> IF Due(c, Cadence[i]) THEN RunHook(Cadence[i], x) ELSE <<>>]

(* A wrapper's calls, by whether they are in its list. *)
LEMMA RunHookElements ==
  ASSUME UiForest, NEW h, NEW x \in Id
  PROVE  /\ RunHook(h, x) \in Seq(Id \X {h})
         /\ \A n \in Id : <<n, h>> \in Range(RunHook(h, x))
                            <=> enabled[n] /\ n \in Below(children, x)
         /\ \A n \in Id : n # x /\ enabled[parent[n]]
              => Led(RunHook(h, x), <<parent[n], h>>, <<n, h>>)
<1> DEFINE s == RunHook(h, x)
<1>1. TreeInv
  BY DEF UiForest, UiInv
<1>2. /\ s \in Seq(Id \X {h})
      /\ \A n \in Id : n # x /\ enabled[parent[n]] => Led(s, <<parent[n], h>>, <<n, h>>)
  BY <1>1, RunHookLed
<1>3. CalledOnce(s, h, x)
  BY RunHookCount
<1> HIDE DEF s
<1>4. ASSUME NEW n \in Id
      PROVE  <<n, h>> \in Range(s) <=> enabled[n] /\ n \in Below(children, x)
  <2>1. Count(s, <<n, h>>) > 0 <=> <<n, h>> \in Range(s)
    BY <1>2, CountFacts
  <2>2. Count(s, <<n, h>>) = IF enabled[n] /\ n \in Below(children, x) THEN 1 ELSE 0
    BY <1>3 DEF CalledOnce
  <2> QED BY <2>1, <2>2
<1> QED BY <1>2, <1>4 DEF s

(* A dispatch calls the due slow hooks of a subtree, parents first.        *)
LEMMA SlowCallsFacts ==
  ASSUME UiForest, NEW c, NEW x \in Id
  PROVE  /\ Flatten(SlowCalls(c, x)) \in Seq(Id \X Slow)
         /\ \A n \in Id, k \in Slow :
              <<n, k>> \in Range(Flatten(SlowCalls(c, x)))
                <=> Due(c, k) /\ enabled[n] /\ n \in Below(children, x)
         /\ \A n \in Id, k \in Slow : n # x /\ enabled[parent[n]]
              => Led(Flatten(SlowCalls(c, x)), <<parent[n], k>>, <<n, k>>)
<1> DEFINE ss == SlowCalls(c, x)
           r == Len(Cadence)
           A == Id \X Slow
<1>1. /\ r \in Nat /\ DOMAIN Cadence = 1 .. r /\ \A i \in 1 .. r : Cadence[i] \in Slow
      /\ Slow = {Cadence[i] : i \in 1 .. r}
  BY SchedulerAssumption DEF Slow
<1>2. /\ ss = [i \in 1 .. r |-> IF Due(c, Cadence[i]) THEN RunHook(Cadence[i], x) ELSE <<>>]
  BY <1>1 DEF SlowCalls
<1> HIDE DEF ss, r
<1>3. /\ Len(ss) = r
      /\ \A i \in 1 .. r : ss[i] = IF Due(c, Cadence[i]) THEN RunHook(Cadence[i], x) ELSE <<>>
  BY <1>1, <1>2
<1>4. ASSUME NEW i \in 1 .. r
      PROVE  /\ ss[i] \in Seq(A)
             /\ \A n \in Id, k \in Slow :
                  <<n, k>> \in Range(ss[i])
                    <=> k = Cadence[i] /\ Due(c, k) /\ enabled[n] /\ n \in Below(children, x)
             /\ \A n \in Id, k \in Slow : n # x /\ enabled[parent[n]]
                  => Led(ss[i], <<parent[n], k>>, <<n, k>>)
  <2> DEFINE h == Cadence[i]
  <2>1. h \in Slow /\ ss[i] = IF Due(c, h) THEN RunHook(h, x) ELSE <<>>
    BY <1>1, <1>3
  <2> HIDE DEF h
  <2>2. CASE Due(c, h)
    <3>1. /\ ss[i] \in Seq(Id \X {h})
          /\ \A n \in Id : <<n, h>> \in Range(ss[i])
                             <=> enabled[n] /\ n \in Below(children, x)
          /\ \A n \in Id : n # x /\ enabled[parent[n]]
               => Led(ss[i], <<parent[n], h>>, <<n, h>>)
      BY <2>1, <2>2, RunHookElements
    <3>2. Id \X {h} \subseteq A
      BY <2>1
    <3>3. ss[i] \in Seq(A)
      BY <3>1, <3>2, SeqMonotonic
    <3>4. \A z \in Range(ss[i]) : z \in Id \X {h}
      BY <3>1, RangeOfSeq
    <3>5. \A n, k : k # h => <<n, k>> \notin Range(ss[i])
      BY <3>4
    <3>6. \A n, k : k # h => Led(ss[i], <<parent[n], k>>, <<n, k>>)
      BY <3>5 DEF Led, Range
    <3> QED BY <2>2, <3>1, <3>3, <3>5, <3>6 DEF h
  <2>3. CASE ~Due(c, h)
    <3>1. ss[i] = <<>>
      BY <2>1, <2>3
    <3>2. <<>> \in Seq(A) /\ Range(<<>>) = {} /\ \A a, b : Led(<<>>, a, b)
      BY DEF Range, Led
    <3> QED BY <2>3, <3>1, <3>2 DEF h
  <2> QED BY <2>2, <2>3
<1>5. \A i \in 1 .. r : ss[i] \in Seq(A)
  BY <1>4
<1> HIDE DEF A
<1>6. /\ Flatten(ss) \in Seq(A)
      /\ \A z : z \in Range(Flatten(ss)) <=> \E i \in 1 .. r : z \in Range(ss[i])
  BY <1>1, <1>3, <1>5, FlattenElements
<1>7. ASSUME NEW n \in Id, NEW k \in Slow
      PROVE  <<n, k>> \in Range(Flatten(ss))
               <=> Due(c, k) /\ enabled[n] /\ n \in Below(children, x)
  <2>1. PICK i \in 1 .. r : Cadence[i] = k
    BY <1>1
  <2>2. <<n, k>> \in Range(Flatten(ss)) <=> \E j \in 1 .. r : <<n, k>> \in Range(ss[j])
    BY <1>6
  <2>3. \A j \in 1 .. r : <<n, k>> \in Range(ss[j])
          <=> k = Cadence[j] /\ Due(c, k) /\ enabled[n] /\ n \in Below(children, x)
    BY <1>4
  <2> QED BY <2>1, <2>2, <2>3
<1>8. ASSUME NEW n \in Id, NEW k \in Slow, n # x, enabled[parent[n]]
      PROVE  Led(Flatten(ss), <<parent[n], k>>, <<n, k>>)
  <2>1. \A i \in 1 .. r : ss[i] \in Seq(A) /\ Led(ss[i], <<parent[n], k>>, <<n, k>>)
    BY <1>4, <1>8
  <2> QED BY <1>1, <1>3, <2>1, FlattenLed
<1> QED BY <1>6, <1>7, <1>8 DEF ss, A

(* What a pass calls for one module of the vector. *)
LEMMA DispatchFacts ==
  ASSUME UiForest, NEW c, NEW x \in Id
  PROVE  /\ Dispatch(c, x) \in Seq(Calls)
         /\ \A n \in Id, k \in Hooks :
              <<n, k>> \in Range(Dispatch(c, x))
                <=> (k = "loop" \/ Due(c, k)) /\ enabled[n] /\ n \in Below(children, x)
         /\ CalledOnce(Dispatch(c, x), "loop", x)
         /\ \A n \in Id, k \in Hooks : n # x /\ enabled[parent[n]]
              => Led(Dispatch(c, x), <<parent[n], k>>, <<n, k>>)
<1> DEFINE s == RunHook("loop", x)
           t == Flatten(SlowCalls(c, x))
<1>1. Dispatch(c, x) = s \o t
  BY DEF Dispatch, SlowCalls
<1>2. /\ s \in Seq(Id \X {"loop"})
      /\ \A n \in Id : <<n, "loop">> \in Range(s) <=> enabled[n] /\ n \in Below(children, x)
      /\ \A n \in Id : n # x /\ enabled[parent[n]]
           => Led(s, <<parent[n], "loop">>, <<n, "loop">>)
      /\ CalledOnce(s, "loop", x)
  BY RunHookElements, RunHookCount
<1>3. /\ t \in Seq(Id \X Slow)
      /\ \A n \in Id, k \in Slow : <<n, k>> \in Range(t)
              <=> Due(c, k) /\ enabled[n] /\ n \in Below(children, x)
      /\ \A n \in Id, k \in Slow : n # x /\ enabled[parent[n]]
              => Led(t, <<parent[n], k>>, <<n, k>>)
  BY SlowCallsFacts
<1> HIDE DEF s, t
<1>4. "loop" \notin Slow
  BY SchedulerAssumption
<1>5. Id \X {"loop"} \subseteq Calls /\ Id \X Slow \subseteq Calls
  BY DEF Calls, Hooks
<1>6. s \in Seq(Calls) /\ t \in Seq(Calls)
  BY <1>2, <1>3, <1>5, SeqMonotonic
<1>7. s \o t \in Seq(Calls) /\ Range(s \o t) = Range(s) \cup Range(t)
  BY <1>6, ConcatElements
<1>8. /\ \A n, k : <<n, k>> \in Range(s) => k = "loop"
      /\ \A n, k : <<n, k>> \in Range(t) => k \in Slow
  <2>1. \A z \in Range(s) : z \in Id \X {"loop"}
    BY <1>2, RangeOfSeq
  <2>2. \A z \in Range(t) : z \in Id \X Slow
    BY <1>3, RangeOfSeq
  <2> QED BY <2>1, <2>2
<1>9. ASSUME NEW n \in Id, NEW k \in Hooks
      PROVE  <<n, k>> \in Range(s \o t)
               <=> (k = "loop" \/ Due(c, k)) /\ enabled[n] /\ n \in Below(children, x)
  <2>1. CASE k = "loop"
    BY <1>2, <1>4, <1>7, <1>8, <2>1
  <2>2. CASE k \in Slow
    BY <1>3, <1>4, <1>7, <1>8, <2>2
  <2> QED BY <2>1, <2>2 DEF Hooks
<1>10. CalledOnce(s \o t, "loop", x)
  <2> SUFFICES ASSUME NEW n \in Id
               PROVE  Count(s \o t, <<n, "loop">>)
                        = IF enabled[n] /\ n \in Below(children, x) THEN 1 ELSE 0
    BY DEF CalledOnce
  <2>1. Count(s \o t, <<n, "loop">>) = Count(s, <<n, "loop">>) + Count(t, <<n, "loop">>)
    BY <1>6, CountConcat
  <2>2. /\ Count(t, <<n, "loop">>) \in Nat
        /\ Count(t, <<n, "loop">>) > 0 <=> <<n, "loop">> \in Range(t)
    BY <1>6, CountFacts
  <2>3. <<n, "loop">> \notin Range(t)
    BY <1>4, <1>8
  <2>4. Count(s, <<n, "loop">>) = IF enabled[n] /\ n \in Below(children, x) THEN 1 ELSE 0
    BY <1>2 DEF CalledOnce
  <2> QED BY <2>1, <2>2, <2>3, <2>4
<1>11. ASSUME NEW n \in Id, NEW k \in Hooks, n # x, enabled[parent[n]]
       PROVE  Led(s \o t, <<parent[n], k>>, <<n, k>>)
  <2>1. Led(s, <<parent[n], k>>, <<n, k>>)
    <3>1. CASE k = "loop"
      BY <1>2, <1>11, <3>1
    <3>2. CASE k # "loop"
      <4>1. <<n, k>> \notin Range(s)
        BY <1>8, <3>2
      <4> QED BY <4>1 DEF Led, Range
    <3> QED BY <3>1, <3>2
  <2>2. Led(t, <<parent[n], k>>, <<n, k>>)
    <3>1. CASE k \in Slow
      BY <1>3, <1>11, <3>1
    <3>2. CASE k \notin Slow
      <4>1. <<n, k>> \notin Range(t)
        BY <1>8, <3>2
      <4> QED BY <4>1 DEF Led, Range
    <3> QED BY <3>1, <3>2
  <2> QED BY <1>6, <2>1, <2>2, LedConcat
<1> QED BY <1>1, <1>7, <1>9, <1>10, <1>11

-----------------------------------------------------------------------------
(* The modules core_loop c walks, parents first. *)
LEMMA MineFacts ==
  ASSUME NestedInv, NEW c
  PROVE  /\ Mine(c) \in Seq(Id) /\ Injective(Mine(c))
         /\ Range(Mine(c)) = {n \in Live : CoreOf[kind[n]] = c}
         /\ \A n \in Range(Mine(c)) : parent[n] \in Range(Mine(c))
              => Before(Mine(c), parent[n], n)
<1> DEFINE S == {n \in Live : CoreOf[kind[n]] = c}
<1>1. /\ modules \in Seq(Id) /\ Injective(modules) /\ Range(modules) = Live
      /\ Nested(modules, Live, children) /\ UiForest
  BY UiInvForest DEF NestedInv, UiVectorInv, ListsOnce
<1>2. Mine(c) = Keep(modules, S)
  BY DEF Mine
<1>3. S \subseteq Live
  OBVIOUS
<1> HIDE DEF S
<1>4. /\ Mine(c) \in Seq(Id) /\ Injective(Mine(c)) /\ Range(Mine(c)) = Live \cap S
      /\ \A a, b : Before(Mine(c), a, b) <=> Before(modules, a, b) /\ a \in S /\ b \in S
  BY <1>1, <1>2, KeepElements
<1>5. Range(Mine(c)) = S
  BY <1>3, <1>4
<1>6. ASSUME NEW n \in S, parent[n] \in S PROVE Before(Mine(c), parent[n], n)
  <2> DEFINE p == parent[n]
  <2>1. n \in Live /\ p \in Live /\ Live \subseteq Id
    BY <1>3, <1>6 DEF Live
  <2>2. /\ children \in [Id -> Seq(Id)] /\ Agree(Live, parent, children)
        /\ Forest(Live, parent)
    BY <1>1, AgreeIff DEF UiForest, UiInv, TreeInv, TreeTypeOK
  <2>3. n \in Range(children[p])
    BY <2>1, <2>2 DEF Agree
  <2>4. n \in Below(children, p)
    <3>1. p \in Id /\ p \in Below(children, p)
             /\ \A y \in Below(children, p) : Range(children[y]) \subseteq Below(children, p)
      BY <2>1, <2>2, BelowClosed
    <3> QED BY <2>3, <3>1
  <2>5. n # p
    <3>1. {n} \in SUBSET Live /\ {n} # {}
      BY <2>1
    <3>2. PICK x \in {n} : parent[x] \notin {n}
      BY <2>2, <3>1 DEF Forest
    <3> QED BY <3>2
  <2>6. Before(modules, p, n)
    BY <1>1, <2>1, <2>4, <2>5 DEF Nested, Block
  <2> QED BY <1>4, <1>6, <2>6
<1> QED BY <1>4, <1>5, <1>6 DEF S

(* What a pass calls, one part for each of its modules. *)
PassCalls(c) == [i \in DOMAIN Mine(c) |-> Dispatch(c, Mine(c)[i])]

(* A pass is one dispatch for each module of the core's.                   *)
LEMMA PassCallsFacts ==
  ASSUME NestedInv, NEW c
  PROVE  /\ Len(PassCalls(c)) = Len(Mine(c)) /\ Len(Mine(c)) \in Nat
         /\ DOMAIN Mine(c) = 1 .. Len(Mine(c))
         /\ \A i \in 1 .. Len(Mine(c)) :
              /\ Mine(c)[i] \in Id /\ Mine(c)[i] \in Range(Mine(c))
              /\ PassCalls(c)[i] = Dispatch(c, Mine(c)[i])
              /\ PassCalls(c)[i] \in Seq(Calls)
         /\ Flatten(PassCalls(c)) \in Seq(Calls)
<1> DEFINE mine == Mine(c)
           k == Len(mine)
<1>1. mine \in Seq(Id)
  BY MineFacts
<1>2. PassCalls(c) = [i \in DOMAIN mine |-> Dispatch(c, mine[i])]
  BY DEF PassCalls
<1>3. \A x \in Id : Dispatch(c, x) \in Seq(Calls)
  BY DispatchFacts, UiInvForest DEF NestedInv, UiVectorInv
<1> HIDE DEF mine
<1>4. /\ k \in Nat /\ DOMAIN mine = 1 .. k
      /\ \A i \in 1 .. k : mine[i] \in Id /\ mine[i] \in Range(mine)
  BY <1>1 DEF Range
<1> HIDE DEF k
<1>5. Len(PassCalls(c)) = k /\ \A i \in 1 .. k : PassCalls(c)[i] = Dispatch(c, mine[i])
  BY <1>2, <1>4
<1>6. \A i \in 1 .. k : PassCalls(c)[i] \in Seq(Calls)
  BY <1>3, <1>4, <1>5
<1>7. Flatten(PassCalls(c)) \in Seq(Calls)
  BY <1>4, <1>5, <1>6, FlattenElements
<1> QED BY <1>4, <1>5, <1>6, <1>7 DEF mine, k

(* The loop hook runs once for each of the core's modules around n. *)
LEMMA PassTicks ==
  ASSUME NestedInv, NEW c, NEW n \in Live
  PROVE  Count(Flatten(PassCalls(c)), <<n, "loop">>)
           = IF enabled[n] THEN Cardinality(TickingOn(c, n)) ELSE 0
<1> DEFINE mine == Mine(c)
           k == Len(mine)
           parts == PassCalls(c)
           it == <<n, "loop">>
           H == Holders(parts, k, it)
           C == TickingOn(c, n)
<1>1. /\ mine \in Seq(Id) /\ Injective(mine)
      /\ Range(mine) = {a \in Live : CoreOf[kind[a]] = c}
  BY MineFacts
<1>2. /\ Len(parts) = k /\ k \in Nat /\ DOMAIN mine = 1 .. k
      /\ \A i \in 1 .. k : /\ mine[i] \in Id /\ mine[i] \in Range(mine)
                           /\ parts[i] = Dispatch(c, mine[i])
      /\ \A i \in 1 .. k : parts[i] \in Seq(Calls)
  BY PassCallsFacts
<1>3. \A x \in Id : CalledOnce(Dispatch(c, x), "loop", x)
  BY DispatchFacts, UiInvForest DEF NestedInv, UiVectorInv
<1>4. C = {a \in Range(mine) : n \in Below(children, a)} /\ n \in Id
  BY <1>1, SubtreeIsBelow DEF TickingOn, Live
<1> HIDE DEF mine, k, parts, C
<1>5. \A i \in 1 .. k :
        Count(parts[i], it) = IF enabled[n] /\ n \in Below(children, mine[i]) THEN 1 ELSE 0
  BY <1>2, <1>3, <1>4 DEF CalledOnce
<1> HIDE DEF it
<1>6. \A i \in 1 .. k : Count(parts[i], it) \in {0, 1}
  BY <1>5
<1>7. Count(Flatten(parts), it) = Cardinality(H)
  <2> HIDE DEF H
  <2> QED BY <1>2, <1>6, FlattenCount DEF H
<1>8. \A i : i \in H <=> i \in 1 .. k /\ enabled[n] /\ n \in Below(children, mine[i])
  BY <1>5 DEF Holders
<1> HIDE DEF H
<1>9. CASE enabled[n]
  <2> DEFINE walk == [i \in H |-> mine[i]]
  <2>1. \A i \in H : mine[i] \in C
    BY <1>2, <1>4, <1>8
  <2>2. \A i, j \in H : walk[i] = walk[j] => i = j
    BY <1>1, <1>2, <1>8 DEF Injective
  <2>3. \A a \in C : \E i \in H : walk[i] = a
    <3> SUFFICES ASSUME NEW a \in C PROVE \E i \in H : walk[i] = a
      OBVIOUS
    <3>1. PICK i \in 1 .. k : mine[i] = a
      BY <1>2, <1>4 DEF Range
    <3>2. i \in H
      BY <1>4, <1>8, <1>9, <3>1
    <3> QED BY <3>1, <3>2
  <2> HIDE DEF walk
  <2>4. walk \in Bijection(H, C)
    <3>1. walk \in [H -> C]
      BY <2>1 DEF walk
    <3> QED BY <2>2, <2>3, <3>1 DEF Bijection, Injection, Surjection, IsInjective
  <2>5. H \in SUBSET (1 .. k) /\ IsFiniteSet(1 .. k)
    BY <1>2, <1>8, FS_Interval
  <2>6. IsFiniteSet(H)
    BY <2>5, FS_Subset
  <2>7. Cardinality(C) = Cardinality(H)
    BY <2>4, <2>6, FS_Bijection DEF ExistsBijection
  <2> QED BY <1>7, <1>9, <2>7 DEF it, parts, C
<1>10. CASE ~enabled[n]
  <2>1. H = {}
    BY <1>8, <1>10
  <2> QED BY <1>7, <1>10, <2>1, FS_EmptySet DEF it, parts
<1> QED BY <1>9, <1>10

(* The slow hooks run if and only if they are due. *)
LEMMA PassHooks ==
  ASSUME NestedInv, NEW c, NEW n \in Live, NEW k \in Slow, enabled[n], CoreOf[kind[n]] = c
  PROVE  Count(Flatten(PassCalls(c)), <<n, k>>) > 0 <=> Due(c, k)
<1> DEFINE mine == Mine(c)
           l == Len(mine)
           parts == PassCalls(c)
           s == Flatten(parts)
<1>1. n \in Range(mine) /\ n \in Id /\ k \in Hooks /\ k # "loop"
  BY MineFacts, SchedulerAssumption DEF Live, Hooks
<1>2. /\ Len(parts) = l /\ l \in Nat /\ DOMAIN mine = 1 .. l
      /\ \A i \in 1 .. l : mine[i] \in Id /\ parts[i] = Dispatch(c, mine[i])
      /\ \A i \in 1 .. l : parts[i] \in Seq(Calls)
      /\ s \in Seq(Calls)
  BY PassCallsFacts
<1>3. \A x \in Id : <<n, k>> \in Range(Dispatch(c, x))
                      <=> Due(c, k) /\ n \in Below(children, x)
  BY <1>1, DispatchFacts, UiInvForest DEF NestedInv, UiVectorInv
<1>4. n \in Below(children, n)
  BY <1>1, BelowClosed DEF NestedInv, UiVectorInv, UiInv, TreeInv, TreeTypeOK
<1>5. \A z : z \in Range(s) <=> \E i \in 1 .. l : z \in Range(parts[i])
  <2> HIDE DEF parts, l
  <2> QED BY <1>2, FlattenElements
<1> HIDE DEF mine, l, parts, s
<1>6. <<n, k>> \in Range(s) => Due(c, k)
  BY <1>2, <1>3, <1>5
<1>7. Due(c, k) => <<n, k>> \in Range(s)
  <2>1. PICK i \in 1 .. l : mine[i] = n
    BY <1>1, <1>2 DEF Range
  <2>2. Due(c, k) => <<n, k>> \in Range(parts[i])
    BY <1>1, <1>2, <1>3, <1>4, <2>1
  <2> QED BY <1>5, <2>2
<1>8. Count(s, <<n, k>>) > 0 <=> <<n, k>> \in Range(s)
  BY <1>2, CountFacts
<1> QED BY <1>6, <1>7, <1>8 DEF s, parts

(* A nested module's hook comes after its parent's. *)
LEMMA PassLed ==
  ASSUME NestedInv, NEW c, NEW n \in Id, NEW k \in Hooks,
         parent[n] \in Live, enabled[parent[n]], CoreOf[kind[parent[n]]] = c
  PROVE  Led(Flatten(PassCalls(c)), <<parent[n], k>>, <<n, k>>)
<1> DEFINE mine == Mine(c)
           l == Len(mine)
           parts == PassCalls(c)
           p == parent[n]
           up == <<p, k>>
           it == <<n, k>>
<1>1. /\ Len(parts) = l /\ l \in Nat /\ DOMAIN mine = 1 .. l
      /\ \A i \in 1 .. l : /\ mine[i] \in Id /\ mine[i] \in Range(mine)
                           /\ parts[i] = Dispatch(c, mine[i])
      /\ \A i \in 1 .. l : parts[i] \in Seq(Calls)
  BY PassCallsFacts
<1>2. p \in Range(mine) /\ (n \in Range(mine) => Before(mine, p, n)) /\ Injective(mine)
  BY MineFacts
<1>3. \A x \in Id :
        /\ \A m \in Id : <<m, k>> \in Range(Dispatch(c, x))
             <=> (k = "loop" \/ Due(c, k)) /\ enabled[m] /\ m \in Below(children, x)
        /\ n # x => Led(Dispatch(c, x), up, it)
  BY DispatchFacts, UiInvForest DEF NestedInv, UiVectorInv
<1>4. p \in Id /\ p \in Below(children, p)
  BY BelowClosed DEF NestedInv, UiVectorInv, UiInv, TreeInv, TreeTypeOK, Live
<1> HIDE DEF mine, l, parts
<1>5. ASSUME NEW i \in 1 .. l
      PROVE  Led(parts[i], up, it) \/ \E j \in 1 .. i - 1 : up \in Range(parts[j])
  <2>1. CASE mine[i] # n
    <3>1. Led(parts[i], up, it)
      BY <1>1, <1>3, <2>1
    <3> QED BY <3>1
  <2>2. CASE mine[i] = n /\ it \notin Range(parts[i])
    <3>1. Led(parts[i], up, it)
      <4> HIDE DEF it, up
      <4> QED BY <2>2 DEF Led, Range
    <3> QED BY <3>1
  <2>3. CASE mine[i] = n /\ it \in Range(parts[i])
    <3>1. k = "loop" \/ Due(c, k)
      BY <1>1, <1>3, <2>3
    <3>2. PICK a, b \in DOMAIN mine : a < b /\ mine[a] = p /\ mine[b] = n
      BY <1>1, <1>2, <2>3 DEF Before
    <3>3. b = i /\ a \in 1 .. i - 1 /\ a \in 1 .. l
      BY <1>1, <1>2, <2>3, <3>2 DEF Injective
    <3>4. up \in Range(parts[a])
      BY <1>1, <1>3, <1>4, <3>1, <3>2, <3>3
    <3> QED BY <3>3, <3>4
  <2> QED BY <2>1, <2>2, <2>3
<1> HIDE DEF up, it
<1>6. Led(Flatten(parts), up, it)
  BY <1>1, <1>5, FlattenLed
<1> QED BY <1>6 DEF parts, up, it, p

-----------------------------------------------------------------------------
PassInv == TimeInv /\ NestedInv

LEMMA PassInvInit == SchedInit => PassInv
<1> SUFFICES ASSUME SchedInit PROVE PassInv
  OBVIOUS
<1>1. Init
  BY DEF SchedInit
<1> QED BY <1>1, TimeInvInit, NestedInvInit DEF PassInv

(* What the scheduler's threads do to the tree is what the UI may do. *)
LEMMA TreeSteps == [SchedNext]_svars => [UiNext]_vars
BY DEF SchedNext, Start, Sample, Pass, Rearm, Millisecond, Accept, Serve, Toggle,
       Interrupt, MainRemovesHttp, ServerJoined, svars

LEMMA PassInvStep == PassInv /\ [SchedNext]_svars => PassInv'
BY TimeInvStep, NestedStep, TreeSteps DEF PassInv

(* Only Pass takes a core from "pass" to "rearm". *)
LEMMA OnlyPassPasses ==
  ASSUME PassInv, [SchedNext]_svars, NEW c \in Core, Passes(c)
  PROVE  calls' = Flatten(PassCalls(c))
<1>1. pc \in [Core -> {"start", "sample", "pass", "rearm", "exited"}]
  BY DEF PassInv, TimeInv, SchedTypeOK
<1>2. pc[c] = "pass" /\ pc'[c] = "rearm"
  BY DEF Passes
<1>3. ASSUME NEW d \in Core, Start(d) \/ Sample(d) \/ Rearm(d) PROVE FALSE
  BY <1>1, <1>2, <1>3 DEF Start, Sample, Rearm
<1>4. ASSUME NEW d \in Core, Pass(d) PROVE d = c
  BY <1>1, <1>2, <1>4 DEF Pass
<1>5. pc' # pc
  BY <1>2
<1>6. Pass(c)
  <2>1. \E d \in Core : Start(d) \/ Sample(d) \/ Pass(d) \/ Rearm(d)
    BY <1>5 DEF SchedNext, Millisecond, Accept, Serve, Interrupt, MainRemovesHttp,
                ServerJoined, svars
  <2> QED BY <2>1, <1>3, <1>4
<1> QED BY <1>6 DEF Pass, PassCalls

(* What the passes of every core do, as facts about one step. *)
TicksStep ==
  \A c \in Core : Passes(c) =>
    \A n \in Live : CoreOf[kind[n]] = c =>
      /\ Times(n, "loop")' > 0 <=> enabled[n]
      /\ enabled[n] /\ TickingOn(c, n) = {n} => Times(n, "loop")' = 1

HooksStep ==
  \A c \in Core : Passes(c) =>
    \A n \in Live, k \in Slow : enabled[n] /\ CoreOf[kind[n]] = c =>
      (Times(n, k)' > 0 <=> age[c][k] >= Period[k])

LedStep ==
  \A c \in Core : Passes(c) =>
    \A i \in DOMAIN calls' :
      LET n == calls'[i][1]  p == parent[n]
      IN (p \in Live /\ enabled[p] /\ CoreOf[kind[p]] = c) =>
           \E j \in 1 .. i - 1 : calls'[j] = <<p, calls'[i][2]>>

LEMMA TicksStepHolds == PassInv /\ [SchedNext]_svars => TicksStep
<1> SUFFICES ASSUME PassInv, [SchedNext]_svars, NEW c \in Core, Passes(c),
                    NEW n \in Live, CoreOf[kind[n]] = c
             PROVE  /\ Times(n, "loop")' > 0 <=> enabled[n]
                    /\ enabled[n] /\ TickingOn(c, n) = {n} => Times(n, "loop")' = 1
  BY DEF TicksStep
<1> DEFINE C == TickingOn(c, n)
<1>1. calls' = Flatten(PassCalls(c))
  BY OnlyPassPasses
<1>2. Times(n, "loop")' = Count(calls', <<n, "loop">>)
  BY DEF Times, Count
<1>3. NestedInv
  BY DEF PassInv
<1>4. Count(Flatten(PassCalls(c)), <<n, "loop">>) = IF enabled[n] THEN Cardinality(C) ELSE 0
  BY <1>3, PassTicks
<1>5. n \in C /\ C \subseteq Id
  <2>1. n \in Subtree(n)
    BY <1>3, SubtreeIsBelow, BelowClosed
       DEF NestedInv, UiVectorInv, UiInv, TreeInv, TreeTypeOK, Live
  <2> QED BY <2>1 DEF TickingOn, Live
<1> HIDE DEF C
<1>6. Cardinality(C) \in Nat /\ Cardinality(C) # 0
  <2>1. IsFiniteSet(C) /\ C # {}
    BY <1>5, FS_Subset, TreeAssumption
  <2> QED BY <2>1, FS_CardinalityType, FS_EmptySet
<1>7. C = {n} => Cardinality(C) = 1
  BY FS_Singleton
<1>8. Times(n, "loop")' = IF enabled[n] THEN Cardinality(C) ELSE 0
  BY <1>1, <1>2, <1>4
<1>9. Times(n, "loop")' > 0 <=> enabled[n]
  BY <1>6, <1>8
<1>10. enabled[n] /\ C = {n} => Times(n, "loop")' = 1
  BY <1>7, <1>8
<1> QED BY <1>9, <1>10 DEF C

LEMMA HooksStepHolds == PassInv /\ [SchedNext]_svars => HooksStep
<1> SUFFICES ASSUME PassInv, [SchedNext]_svars, NEW c \in Core, Passes(c),
                    NEW n \in Live, NEW k \in Slow, enabled[n], CoreOf[kind[n]] = c
             PROVE  Times(n, k)' > 0 <=> age[c][k] >= Period[k]
  BY DEF HooksStep
<1>1. calls' = Flatten(PassCalls(c))
  BY OnlyPassPasses
<1>2. Times(n, k)' = Count(calls', <<n, k>>)
  BY DEF Times, Count
<1>3. NestedInv /\ TimeInv
  BY DEF PassInv
<1>4. Count(Flatten(PassCalls(c)), <<n, k>>) > 0 <=> Due(c, k)
  BY <1>3, PassHooks
<1>5. Due(c, k) <=> age[c][k] >= Period[k]
  BY <1>3, TimeInvTellsDue DEF DueOnTime, Passes
<1> QED BY <1>1, <1>2, <1>4, <1>5

LEMMA LedStepHolds == PassInv /\ [SchedNext]_svars => LedStep
<1> SUFFICES ASSUME PassInv, [SchedNext]_svars, NEW c \in Core, Passes(c),
                    NEW i \in DOMAIN calls',
                    parent[calls'[i][1]] \in Live, enabled[parent[calls'[i][1]]],
                    CoreOf[kind[parent[calls'[i][1]]]] = c
             PROVE  \E j \in 1 .. i - 1 : calls'[j] = <<parent[calls'[i][1]], calls'[i][2]>>
  BY DEF LedStep
<1> DEFINE s == calls'
           n == s[i][1]
           k == s[i][2]
<1>1. s = Flatten(PassCalls(c)) /\ s \in Seq(Calls)
  BY OnlyPassPasses, PassCallsFacts DEF PassInv
<1>2. n \in Id /\ k \in Hooks /\ s[i] = <<n, k>>
  <2>1. s[i] \in Calls
    BY <1>1
  <2> QED BY <2>1 DEF Calls
<1>3. NestedInv
  BY DEF PassInv
<1> HIDE DEF n, k
<1>4. Led(s, <<parent[n], k>>, <<n, k>>)
  BY <1>1, <1>2, <1>3, PassLed DEF n
<1>5. \E j \in 1 .. i - 1 : s[j] = <<parent[n], k>>
  BY <1>2, <1>4 DEF Led
<1> QED BY <1>5 DEF n, k

(* A pass of core c ticks every enabled module of that core and no         *)
(* disabled one, and exactly once unless it is nested in another of core   *)
(* c, however often clients have nested, dropped, deleted and toggled      *)
(* modules between the passes.                                             *)
THEOREM EveryModuleTicks == SchedSpec => TicksItsModules
<1>1. PassInv /\ [SchedNext]_svars => [TicksStep]_svars
  BY TicksStepHolds
<1> QED BY <1>1, PassInvInit, PassInvStep, PTL DEF SchedSpec, TicksItsModules, TicksStep

(* A slow hook runs in exactly those passes of its module's core that      *)
(* began a period or more, in true time, after the one that ran it last.   *)
THEOREM SlowHooksOnTime == SchedSpec => HooksOnTime
<1>1. PassInv /\ [SchedNext]_svars => [HooksStep]_svars
  BY HooksStepHolds
<1> QED BY <1>1, PassInvInit, PassInvStep, PTL DEF SchedSpec, HooksOnTime, HooksStep

(* In a pass a nested module's hook runs after its parent's, by the order  *)
(* of the vector when both are walked and by the recursion when one is     *)
(* called from the other.                                                  *)
THEOREM ParentsTickFirst == SchedSpec => ParentFirst
<1>1. PassInv /\ [SchedNext]_svars => [LedStep]_svars
  BY LedStepHolds
<1> QED BY <1>1, PassInvInit, PassInvStep, PTL DEF SchedSpec, ParentFirst, LedStep
=============================================================================
