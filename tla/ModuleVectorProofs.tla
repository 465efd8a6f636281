------------------------- MODULE ModuleVectorProofs -------------------------
(***************************************************************************)
(* Proofs about the vector modules_ of ModuleTree: what sort_depth_first_, *)
(* remove and reorder leave in it, for every set of ids and requests.      *)
(*                                                                         *)
(* PreOrder is a recursive function.  That such a function exists and what *)
(* it computes are proved by induction over a set of numbers.              *)
(***************************************************************************)
EXTENDS ModuleTreeProofs

(* walk in PreOrder: the state of the recursion after n calls of dfs_. *)
IsWalk(f, w, kids, n) ==
  f = [i \in 0 .. n |-> IF i = 0 THEN w ELSE Visit(f[i - 1], kids)]

(* The recursive definition of the walk has one that satisfies it.         *)
LEMMA WalkExists ==
  ASSUME NEW w, NEW kids, NEW n \in Nat
  PROVE  \E f : IsWalk(f, w, kids, n)
<1> DEFINE T == {k \in Nat : \E f : IsWalk(f, w, kids, k)}
<1>1. 0 \in T
  <2>1. IsWalk([i \in 0 .. 0 |-> w], w, kids, 0)
    BY DEF IsWalk
  <2> QED BY <2>1
<1>2. ASSUME NEW k \in Nat, k \in T PROVE k + 1 \in T
  <2>1. PICK f : IsWalk(f, w, kids, k)
    BY <1>2
  <2> DEFINE last == Visit(f[k], kids)
             g == [i \in 0 .. k + 1 |-> IF i = k + 1 THEN last ELSE f[i]]
  <2>2. \A i \in 0 .. k + 1 : g[i] = IF i = 0 THEN w ELSE Visit(g[i - 1], kids)
    <3> SUFFICES ASSUME NEW i \in 0 .. k + 1
                 PROVE  g[i] = IF i = 0 THEN w ELSE Visit(g[i - 1], kids)
      OBVIOUS
    <3>1. CASE i = k + 1
      <4>1. g[i - 1] = f[k] /\ i # 0
        BY <3>1
      <4> QED BY <3>1, <4>1
    <3>2. CASE i # k + 1 /\ i # 0
      <4>1. i \in 0 .. k /\ i - 1 \in 0 .. k /\ g[i] = f[i] /\ g[i - 1] = f[i - 1]
        BY <3>2
      <4> QED BY <2>1, <3>2, <4>1 DEF IsWalk
    <3>3. CASE i = 0
      <4>1. g[i] = f[i] /\ i \in 0 .. k
        BY <3>3
      <4> QED BY <2>1, <3>3, <4>1 DEF IsWalk
    <3> QED BY <3>1, <3>2, <3>3
  <2>3. IsWalk(g, w, kids, k + 1)
    <3>1. g = [i \in 0 .. k + 1 |-> g[i]]
      OBVIOUS
    <3> HIDE DEF g
    <3> QED BY <2>2, <3>1 DEF IsWalk
  <2> QED BY <2>3
<1> HIDE DEF T
<1>3. n \in T
  BY <1>1, <1>2, NatSetInduction
<1> QED BY <1>3 DEF T

(* The first state of the recursion, and the one each call leaves. *)
LEMMA WalkSteps ==
  ASSUME NEW f, NEW w, NEW kids, NEW n \in Nat, IsWalk(f, w, kids, n)
  PROVE  /\ f[0] = w
         /\ \A i \in 0 .. n - 1 : f[i + 1] = Visit(f[i], kids)
<1> DEFINE step(i) == IF i = 0 THEN w ELSE Visit(f[i - 1], kids)
<1>1. f = [i \in 0 .. n |-> step(i)]
  BY DEF IsWalk
<1> HIDE DEF step
<1>2. \A i \in 0 .. n : f[i] = step(i)
  BY <1>1
<1>3. f[0] = w
  BY <1>2 DEF step
<1>4. ASSUME NEW i \in 0 .. n - 1 PROVE f[i + 1] = Visit(f[i], kids)
  <2>1. i + 1 \in 0 .. n /\ i + 1 # 0 /\ (i + 1) - 1 = i
    OBVIOUS
  <2>2. f[i + 1] = step(i + 1)
    BY <1>2, <2>1
  <2> QED BY <2>1, <2>2 DEF step
<1> QED BY <1>3, <1>4

(* What holds between two calls of dfs_: no module has been moved twice or *)
(* waits twice, and each one seen is a root or has its parent moved.       *)
Walking(w, live, par) ==
  /\ w.out \in Seq(live) /\ w.todo \in Seq(live)
  /\ Injective(w.out) /\ Injective(w.todo)
  /\ Range(w.out) \cap Range(w.todo) = {}
  /\ \A x \in Range(w.out) \cup Range(w.todo) : par[x] = NoId \/ par[x] \in Range(w.out)

(* Entering h, with rest behind it on the stack and below its children,    *)
(* turns w into v; the children have not been seen before.                 *)
Enters(w, v, live, par, kids, h, rest, below) ==
  /\ h \in live /\ rest \in Seq(live) /\ below \in Seq(live)
  /\ Injective(rest) /\ Injective(below)
  /\ Range(w.todo) = {h} \cup Range(rest) /\ h \notin Range(rest)
  /\ w.todo = <<h>> \o rest
  /\ h # NoId /\ h \notin Range(w.out)
  /\ \A c \in Range(below) : /\ c \in live /\ par[c] = h
                            /\ c \notin Range(w.out) /\ c \notin Range(w.todo)
  /\ below = kids[h]
  /\ v.out = Append(w.out, h)
  /\ v.todo = below \o rest

(* What a call of dfs_ turns w into. *)
LEMMA VisitStep ==
  ASSUME NEW w, NEW kids
  PROVE  Visit(w, kids) = IF w.todo = <<>> THEN w
                          ELSE [out |-> Append(w.out, Head(w.todo)),
                                todo |-> kids[Head(w.todo)] \o Tail(w.todo)]
<1> DEFINE step(v) == IF v.todo = <<>> THEN v
                      ELSE [out  |-> Append(v.out, Head(v.todo)),
                            todo |-> kids[Head(v.todo)] \o Tail(v.todo)]
<1>1. Visit(w, kids) = CHOOSE x \in {step(v) : v \in {w}} : TRUE
  BY Zenon DEF Visit
<1>2. step(w) = IF w.todo = <<>> THEN w
                ELSE [out |-> Append(w.out, Head(w.todo)),
                      todo |-> kids[Head(w.todo)] \o Tail(w.todo)]
  BY Zenon
<1> HIDE DEF step
<1>3. {step(v) : v \in {w}} = {step(w)}
  OBVIOUS
<1>4. (CHOOSE x \in {step(w)} : TRUE) = step(w)
  OBVIOUS
<1>5. Visit(w, kids) = step(w)
  BY <1>1, <1>3, <1>4, Zenon
<1> QED BY <1>2, <1>5, Zenon

(* Between two calls, a call enters the first module waiting. *)
LEMMA VisitFacts ==
  ASSUME NEW live \in SUBSET Id, NEW par, NEW kids \in [Id -> Seq(Id)],
         Agree(live, par, kids), NEW w, Walking(w, live, par), w.todo # <<>>
  PROVE  Enters(w, Visit(w, kids), live, par, kids,
                Head(w.todo), Tail(w.todo), kids[Head(w.todo)])
<1> DEFINE h == Head(w.todo)
           rest == Tail(w.todo)
           below == kids[h]
<1>1. /\ w.out \in Seq(live) /\ w.todo \in Seq(live)
      /\ Injective(w.out) /\ Injective(w.todo)
      /\ Range(w.out) \cap Range(w.todo) = {}
      /\ \A x \in Range(w.out) \cup Range(w.todo) : par[x] = NoId \/ par[x] \in Range(w.out)
  BY DEF Walking
<1>2. /\ h \in live /\ rest \in Seq(live)
      /\ Range(w.todo) = {h} \cup Range(rest)
      /\ Injective(rest) /\ h \notin Range(rest)
  BY <1>1, TailElements
<1>3. Visit(w, kids).out = Append(w.out, h) /\ Visit(w, kids).todo = below \o rest
  BY VisitStep
<1>4. below = kids[h] /\ w.todo = <<h>> \o rest
  BY <1>1, HeadThenTail
<1>5. SUFFICES Enters(w, Visit(w, kids), live, par, kids, h, rest, below)
  OBVIOUS
<1> HIDE DEF h, rest, below
<1>6. below \in Seq(Id) /\ Injective(below)
  BY <1>2, <1>4 DEF Agree
<1>7. \A c \in Range(below) : c \in live /\ par[c] = h
  BY <1>2, <1>4 DEF Agree
<1>8. below \in Seq(live)
  <2>1. Range(below) \subseteq live
    BY <1>7
  <2> QED BY <1>6, <2>1, SeqWithin
<1>9. h # NoId /\ h \notin Range(w.out)
  BY <1>1, <1>2, TreeAssumption
<1>10. \A c \in Range(below) : c \notin Range(w.out) /\ c \notin Range(w.todo)
  BY <1>1, <1>7, <1>9
<1> QED BY <1>2, <1>3, <1>4, <1>6, <1>7, <1>8, <1>9, <1>10 DEF Enters

(* A call of dfs_ keeps what holds between two calls. *)
LEMMA VisitKeepsWalking ==
  ASSUME NEW live \in SUBSET Id, NEW par, NEW kids \in [Id -> Seq(Id)],
         Agree(live, par, kids), NEW w, Walking(w, live, par)
  PROVE  Walking(Visit(w, kids), live, par)
<1>1. CASE w.todo = <<>>
  BY <1>1, VisitStep
<1>2. CASE w.todo # <<>>
  <2> DEFINE h == Head(w.todo)
             rest == Tail(w.todo)
             below == kids[h]
             out == Append(w.out, h)
             todo == below \o rest
  <2>0. h = Head(w.todo) /\ rest = Tail(w.todo) /\ below = kids[h]
    OBVIOUS
  <2> HIDE DEF h, rest, below
  <2>1. /\ h \in live /\ rest \in Seq(live) /\ below \in Seq(live)
        /\ Injective(rest) /\ Injective(below)
        /\ Range(w.todo) = {h} \cup Range(rest) /\ h \notin Range(rest)
        /\ h \notin Range(w.out)
        /\ \A c \in Range(below) : /\ c \in live /\ par[c] = h
                                  /\ c \notin Range(w.out) /\ c \notin Range(w.todo)
        /\ Visit(w, kids).out = out
        /\ Visit(w, kids).todo = todo
    <3>1. Enters(w, Visit(w, kids), live, par, kids,
                 Head(w.todo), Tail(w.todo), kids[Head(w.todo)])
      BY <1>2, VisitFacts, Zenon
    <3>2. Enters(w, Visit(w, kids), live, par, kids, h, rest, below)
      BY <2>0, <3>1, Zenon
    <3> QED BY <3>2, Zenon DEF Enters
  <2>2. /\ w.out \in Seq(live) /\ w.todo \in Seq(live)
        /\ Injective(w.out) /\ Injective(w.todo)
        /\ Range(w.out) \cap Range(w.todo) = {}
        /\ \A x \in Range(w.out) \cup Range(w.todo) : par[x] = NoId \/ par[x] \in Range(w.out)
    BY DEF Walking
  <2>3. out \in Seq(live) /\ Range(out) = Range(w.out) \cup {h} /\ Injective(out)
    BY <2>1, <2>2, AppendElements
  <2>4. Range(below) \cap Range(rest) = {}
    BY <2>1
  <2>5. /\ todo \in Seq(live) /\ Range(todo) = Range(below) \cup Range(rest)
        /\ Injective(todo)
    BY <2>1, <2>4, ConcatElements
  <2> HIDE DEF out, todo
  <2>6. Range(out) \cap Range(todo) = {}
    BY <2>1, <2>2, <2>3, <2>5
  <2>7. \A x \in Range(out) \cup Range(todo) : par[x] = NoId \/ par[x] \in Range(out)
    BY <2>1, <2>2, <2>3, <2>5
  <2> QED BY <2>1, <2>3, <2>5, <2>6, <2>7 DEF Walking
<1> QED BY <1>1, <1>2

(* Subtree for given child lists. *)
Below(kids, m) ==
  {x \in Id : \A S \in SUBSET Id :
                (m \in S /\ \A y \in S : Range(kids[y]) \subseteq S) => x \in S}

(* What dfs_ collects, as a closure of the child lists.                    *)
LEMMA SubtreeIsBelow == \A m : Subtree(m) = Below(children, m)
BY DEF Subtree, Below, Kids, Range

(* A subtree holds its head and the children of all its members.           *)
LEMMA BelowClosed ==
  ASSUME NEW kids \in [Id -> Seq(Id)], NEW m \in Id
  PROVE  /\ m \in Below(kids, m)
         /\ \A y \in Below(kids, m) : Range(kids[y]) \subseteq Below(kids, m)
<1>1. \A y \in Id : Range(kids[y]) \subseteq Id
  BY RangeOfSeq
<1> QED BY <1>1 DEF Below

(* What is below m, m apart, has its parent below m. *)
LEMMA BelowParent ==
  ASSUME NEW live \in SUBSET Id, NEW par, NEW kids \in [Id -> Seq(Id)],
         Agree(live, par, kids), NEW m \in Id, NEW c \in Below(kids, m), c # m
  PROVE  c \in live /\ par[c] \in Below(kids, m) /\ c \in Range(kids[par[c]])
<1> DEFINE S == Below(kids, m) \ {c}
<1>1. S \in SUBSET Id /\ m \in S
  BY BelowClosed DEF Below
<1>2. PICK y \in S : ~ (Range(kids[y]) \subseteq S)
  BY <1>1 DEF Below
<1>3. y \in Id /\ y \in Below(kids, m) /\ Range(kids[y]) \subseteq Below(kids, m)
  BY <1>1, BelowClosed
<1>4. c \in Range(kids[y])
  BY <1>2, <1>3
<1>5. c \in live /\ par[c] = y
  BY <1>3, <1>4 DEF Agree
<1> QED BY <1>3, <1>4, <1>5

(* The modules below m are one block of the list, headed by m. *)
Block(list, kids, m) ==
  \A x \in Below(kids, m) \cap Range(list) :
    /\ x = m \/ Before(list, m, x)
    /\ \A y : Before(list, m, y) /\ Before(list, y, x) => y \in Below(kids, m)

(* The children of m stand in the list as they do in children_. *)
InChildOrder(list, kids, m) == \A a, b : Before(kids[m], a, b) => Before(list, a, b)

(* What dfs_ has arranged so far: the modules it has moved and, after them, *)
(* the ones it will enter next.                                             *)
Arranged(w, kids) ==
  LET list == w.out \o w.todo
  IN \A m \in Range(w.out) : /\ Block(list, kids, m)
                             /\ InChildOrder(list, kids, m)
                             /\ Range(kids[m]) \subseteq Range(list)

(* A module that waits to be entered has nothing below it moved yet. *)
LEMMA WaitingIsUntouched ==
  ASSUME NEW live \in SUBSET Id, NEW par, NEW kids \in [Id -> Seq(Id)],
         Agree(live, par, kids), NEW w, Walking(w, live, par),
         NEW h \in Range(w.todo)
  PROVE  Range(w.out) \cap Below(kids, h) = {}
<1> DEFINE S == Below(kids, h) \ Range(w.out)
<1>1. w.out \in Seq(live) /\ w.todo \in Seq(live) /\ h \notin Range(w.out) /\ h \in live
  BY RangeOfSeq DEF Walking
<1>2. h \in Id /\ S \in SUBSET Id /\ h \in S
  BY <1>1, BelowClosed DEF Below
<1>3. ASSUME NEW y \in S, NEW c \in Range(kids[y]) PROVE c \in S
  <2>1. y \in Id /\ c \in Below(kids, h)
    BY <1>2, <1>3, BelowClosed
  <2>2. c \in live /\ par[c] = y /\ y # NoId
    BY <1>3, <2>1, TreeAssumption DEF Agree
  <2>3. c \notin Range(w.out)
    BY <1>3, <2>2 DEF Walking
  <2> QED BY <2>1, <2>3
<1>4. \A y \in S : Range(kids[y]) \subseteq S
  BY <1>3
<1> HIDE DEF S
<1>5. Below(kids, h) \subseteq S
  BY <1>2, <1>4 DEF Below
<1> QED BY <1>5 DEF S

(* Entering h puts its children right after h, and changes nothing else    *)
(* about the order of what has been seen: L before, M after.               *)
Inserts(L, M, live, out, h, rest, below) ==
  /\ L \in Seq(live) /\ Injective(L) /\ M \in Seq(live) /\ Injective(M)
  /\ Range(L) = out \cup {h} \cup Range(rest)
  /\ Range(M) = Range(L) \cup Range(below)
  /\ \A a, b : Before(L, a, b) => Before(M, a, b)
  /\ \A a \in out : Before(L, a, h)
  /\ \A a \in Range(rest) : Before(L, h, a)
  /\ \A a \in out \cup {h}, c \in Range(below) : Before(M, a, c)
  /\ \A a \in Range(rest), c \in Range(below) : Before(M, c, a)
  /\ \A a, b : Before(below, a, b) => Before(M, a, b)

(* A visit puts what it enters behind its head and moves nothing else.     *)
LEMMA VisitOrder ==
  ASSUME NEW live \in SUBSET Id, NEW par, NEW kids, NEW w, NEW v,
         Walking(w, live, par), Walking(v, live, par),
         NEW h, NEW rest, NEW below, Enters(w, v, live, par, kids, h, rest, below)
  PROVE  Inserts(w.out \o w.todo, v.out \o v.todo, live, Range(w.out), h, rest, below)
<1> DEFINE L == w.out \o w.todo
           M == v.out \o v.todo
<1>1. /\ h \in live /\ rest \in Seq(live) /\ below \in Seq(live)
      /\ Injective(rest) /\ Injective(below)
      /\ w.todo = <<h>> \o rest
      /\ Range(w.todo) = {h} \cup Range(rest) /\ h \notin Range(rest)
      /\ \A c \in Range(below) : c \notin Range(w.out) /\ c \notin Range(w.todo)
      /\ v.out = Append(w.out, h)
      /\ v.todo = below \o rest
  BY DEF Enters
<1>2. /\ w.out \in Seq(live) /\ w.todo \in Seq(live)
      /\ Injective(w.out) /\ Injective(w.todo)
      /\ Range(w.out) \cap Range(w.todo) = {}
  BY DEF Walking
<1> DEFINE out == Append(w.out, h)
           todo == below \o rest
<1>4. /\ out \in Seq(live) /\ todo \in Seq(live)
      /\ Injective(out) /\ Injective(todo)
      /\ Range(out) \cap Range(todo) = {}
      /\ M = out \o todo
  BY <1>1 DEF Walking
<1>5. Range(out) = Range(w.out) \cup {h}
  BY <1>1, <1>2, AppendElements
<1> HIDE DEF out, todo
<1>6. Range(todo) = Range(below) \cup Range(rest)
  <2>1. below \in Seq(live) /\ rest \in Seq(live)
    BY <1>1
  <2>2. Range(below \o rest) = Range(below) \cup Range(rest)
    BY <2>1, ConcatElements
  <2> QED BY <2>2 DEF todo
<1>7. \A a, b : Before(out, a, b) <=> Before(w.out, a, b) \/ (a \in Range(w.out) /\ b = h)
  BY <1>1, <1>2, BeforeAppend DEF out
<1>8. \A a, b : Before(todo, a, b) <=> \/ Before(below, a, b) \/ Before(rest, a, b)
                                      \/ (a \in Range(below) /\ b \in Range(rest))
  BY <1>1, BeforeConcat DEF todo
<1>9. w.todo = <<h>> \o rest /\ <<h>> \in Seq(live)
  BY <1>1
<1>10. Range(<<h>>) = {h} /\ \A a, b : ~ Before(<<h>>, a, b)
  BY DEF Range, Before
<1>11. ASSUME NEW a, NEW b
       PROVE  Before(w.todo, a, b) <=> Before(rest, a, b) \/ (a = h /\ b \in Range(rest))
  <2>1. Before(<<h>> \o rest, a, b) <=> \/ Before(<<h>>, a, b) \/ Before(rest, a, b)
                                         \/ (a \in Range(<<h>>) /\ b \in Range(rest))
    BY <1>1, <1>9, BeforeConcat
  <2> QED BY <1>9, <1>10, <2>1
<1>12. \A a, b : Before(L, a, b) <=> \/ Before(w.out, a, b) \/ Before(w.todo, a, b)
                                     \/ (a \in Range(w.out) /\ b \in Range(w.todo))
  BY <1>2, BeforeConcat
<1>13. \A a, b : Before(M, a, b) <=> \/ Before(out, a, b) \/ Before(todo, a, b)
                                     \/ (a \in Range(out) /\ b \in Range(todo))
  BY <1>4, BeforeConcat
<1>14. L \in Seq(live) /\ Injective(L) /\ Range(L) = Range(w.out) \cup Range(w.todo)
  BY <1>2, ConcatElements
<1>15. M \in Seq(live) /\ Injective(M) /\ Range(M) = Range(out) \cup Range(todo)
  BY <1>4, ConcatElements
<1>16. /\ Range(L) = Range(w.out) \cup {h} \cup Range(rest)
       /\ Range(M) = Range(L) \cup Range(below)
  BY <1>1, <1>5, <1>6, <1>14, <1>15
<1>17. /\ \A a, b : Before(L, a, b) => Before(M, a, b)
       /\ \A a, b : Before(below, a, b) => Before(M, a, b)
  BY <1>1, <1>5, <1>6, <1>7, <1>8, <1>11, <1>12, <1>13
<1>18. /\ \A a \in Range(w.out) : Before(L, a, h)
       /\ \A a \in Range(rest) : Before(L, h, a)
  BY <1>1, <1>11, <1>12
<1>19. /\ \A a \in Range(w.out) \cup {h}, c \in Range(below) : Before(M, a, c)
       /\ \A a \in Range(rest), c \in Range(below) : Before(M, c, a)
  BY <1>5, <1>6, <1>8, <1>13
<1> QED BY <1>14, <1>15, <1>16, <1>17, <1>18, <1>19 DEF Inserts

(* One call of dfs_ leaves what has been seen arranged: the children of    *)
(* the module it enters come right after it, ahead of what else waits.     *)
LEMMA VisitKeepsArranged ==
  ASSUME NEW live \in SUBSET Id, NEW par, NEW kids \in [Id -> Seq(Id)],
         Agree(live, par, kids), NEW w, Walking(w, live, par), Arranged(w, kids),
         NEW v, Walking(v, live, par),
         NEW h, NEW rest, NEW below, Enters(w, v, live, par, kids, h, rest, below)
  PROVE  Arranged(v, kids)
<1> DEFINE L == w.out \o w.todo
           M == v.out \o v.todo
           out == Range(w.out)
<1>0. L = w.out \o w.todo /\ M = v.out \o v.todo
  OBVIOUS
<1> HIDE DEF L, M
<1>1. /\ L \in Seq(live) /\ Injective(L) /\ M \in Seq(live) /\ Injective(M)
      /\ Range(L) = out \cup {h} \cup Range(rest)
      /\ Range(M) = Range(L) \cup Range(below)
      /\ \A a, b : Before(L, a, b) => Before(M, a, b)
      /\ \A a \in out : Before(L, a, h)
      /\ \A a \in Range(rest) : Before(L, h, a)
      /\ \A a \in out \cup {h}, c \in Range(below) : Before(M, a, c)
      /\ \A a \in Range(rest), c \in Range(below) : Before(M, c, a)
      /\ \A a, b : Before(below, a, b) => Before(M, a, b)
  <2>1. Inserts(w.out \o w.todo, v.out \o v.todo, live, Range(w.out), h, rest, below)
    BY VisitOrder, Zenon
  <2>2. Inserts(L, M, live, out, h, rest, below)
    BY <1>0, <2>1, Zenon
  <2> QED BY <2>2, Zenon DEF Inserts
<1>2. /\ h \in live /\ h \in Id /\ h \in Range(w.todo) /\ h \notin out
      /\ below = kids[h]
      /\ \A c \in Range(below) : c \in live /\ par[c] = h /\ c \notin out
  BY DEF Enters
<1>3. \A x \in out \cup Range(w.todo) : par[x] = NoId \/ par[x] \in out
  BY DEF Walking
<1>4. \A m \in out : /\ Block(L, kids, m) /\ InChildOrder(L, kids, m)
                     /\ Range(kids[m]) \subseteq Range(L)
  BY <1>0 DEF Arranged
<1>5. Range(v.out) = out \cup {h} /\ Range(rest) \subseteq Range(w.todo)
  <2>1. v.out = Append(w.out, h) /\ w.out \in Seq(live) /\ h \in live
    BY DEF Enters, Walking
  <2>2. Range(v.out) = out \cup {h}
    BY <2>1, AppendElements
  <2> QED BY <2>2 DEF Enters
<1>6. out \subseteq live
  BY RangeOfSeq DEF Walking
<1>7. out \cap Below(kids, h) = {}
  BY <1>2, WaitingIsUntouched
<1> HIDE DEF out
<1>8. /\ \A a, b \in Range(L) : a = b \/ Before(L, a, b) \/ Before(L, b, a)
      /\ \A a, b : Before(M, a, b) => ~ Before(M, b, a) /\ a # b
      /\ \A a, b : Before(M, a, b) => a \in Range(M) /\ b \in Range(M)
  BY <1>1, BeforeOrders
<1>9. \A a, b \in Range(L) : Before(M, a, b) => Before(L, a, b)
  BY <1>1, <1>8
<1>10. \A m \in Id : m \in Below(kids, m)
                     /\ \A y \in Below(kids, m) : Range(kids[y]) \subseteq Below(kids, m)
  BY BelowClosed
<1>11. ASSUME NEW m \in out PROVE Block(M, kids, m)
  <2> DEFINE B == Below(kids, m)
  <2>1. m \in Id /\ m \in Range(L) /\ m # h
    BY <1>1, <1>2, <1>6
  <2>2. h \in B => Range(below) \subseteq B
    BY <1>2, <1>10, <2>1
  <2>3. \A c \in Range(below) : c \in B => h \in B
    <3> SUFFICES ASSUME NEW c \in Range(below), c \in B PROVE h \in B
      OBVIOUS
    <3>1. c # m /\ c \in Below(kids, m) /\ par[c] = h
      BY <1>2
    <3>2. par[c] \in Below(kids, m)
      BY <2>1, <3>1, BelowParent
    <3> QED BY <3>1, <3>2
  <2>4. /\ \A x \in B \cap Range(L) : x = m \/ Before(L, m, x)
        /\ \A x \in B \cap Range(L) : \A y :
             Before(L, m, y) /\ Before(L, y, x) => y \in B
    BY <1>4 DEF Block
  <2> HIDE DEF B
  <2>5. ASSUME NEW x \in B \cap Range(L), NEW y, Before(M, m, y), Before(M, y, x)
        PROVE  y \in B
    <3>1. CASE y \in Range(L)
      BY <1>9, <2>1, <2>4, <2>5, <3>1
    <3>2. CASE y \in Range(below)
      <4>1. x \in Range(rest)
        BY <1>1, <1>8, <2>5, <3>2
      <4>2. Before(L, m, h) /\ Before(L, h, x)
        BY <1>1, <4>1
      <4>3. h \in B
        BY <2>4, <2>5, <4>2
      <4> QED BY <2>2, <3>2, <4>3
    <3> QED BY <1>1, <1>8, <2>5, <3>1, <3>2
  <2>6. ASSUME NEW x \in B \cap Range(below), NEW y, Before(M, m, y), Before(M, y, x)
        PROVE  y \in B
    <3>1. h \in B /\ h \in Range(L)
      BY <1>1, <2>3
    <3>2. CASE y \in out
      <4>1. Before(L, m, y) /\ Before(L, y, h)
        BY <1>1, <1>9, <2>1, <2>6, <3>2
      <4> QED BY <2>4, <3>1, <4>1
    <3>3. CASE y \in Range(rest)
      BY <1>1, <1>8, <2>6, <3>3
    <3>4. CASE y = h \/ y \in Range(below)
      BY <2>2, <3>1, <3>4
    <3> QED BY <1>1, <1>8, <2>6, <3>2, <3>3, <3>4
  <2>7. \A x \in B \cap Range(M) : x = m \/ Before(M, m, x)
    BY <1>1, <2>4
  <2> QED BY <1>1, <2>5, <2>6, <2>7 DEF Block, B
<1>12. Block(M, kids, h)
  <2> DEFINE B == Below(kids, h)
  <2>1. B \subseteq Id /\ Range(below) \subseteq B
    BY <1>2, <1>10 DEF Below
  <2>2. Range(rest) \cap B = {}
    <3> SUFFICES ASSUME NEW x \in Range(rest), x \in B PROVE FALSE
      OBVIOUS
    <3>1. x # h
      BY <1>1, <1>8
    <3>2. par[x] \in B
      BY <1>2, <3>1, BelowParent
    <3>3. par[x] # NoId /\ par[x] \notin out
      BY <1>7, <2>1, <3>2, TreeAssumption
    <3> QED BY <1>3, <1>5, <3>3
  <2> HIDE DEF B
  <2>3. \A x \in B \cap Range(M) : x = h \/ x \in Range(below)
    BY <1>1, <1>7, <2>2 DEF B
  <2>4. ASSUME NEW x \in B \cap Range(M), NEW y, Before(M, h, y), Before(M, y, x)
        PROVE  y \in B
    <3>1. x \in Range(below)
      BY <1>8, <2>3, <2>4
    <3>2. y \notin out /\ y # h /\ y \notin Range(rest)
      BY <1>1, <1>8, <2>4, <3>1
    <3> QED BY <1>1, <1>8, <2>1, <2>4, <3>2
  <2> QED BY <1>1, <2>3, <2>4 DEF Block, B
<1>13. ASSUME NEW m \in out PROVE InChildOrder(M, kids, m)
  BY <1>1, <1>4 DEF InChildOrder
<1>14. InChildOrder(M, kids, h)
  BY <1>1, <1>2 DEF InChildOrder
<1>15. \A m \in out \cup {h} : Range(kids[m]) \subseteq Range(M)
  BY <1>1, <1>2, <1>4
<1> QED BY <1>5, <1>11, <1>12, <1>13, <1>14, <1>15, <1>0 DEF Arranged

-----------------------------------------------------------------------------
(* The walk from roots: each call of dfs_ moves one module, so that after  *)
(* as many calls as there are ids none waits.                              *)
WalkInv(w, live, par, kids, roots, i) ==
  /\ Walking(w, live, par)
  /\ Arranged(w, kids)
  /\ w.todo # <<>> => Len(w.out) = i
  /\ Range(roots) \subseteq Range(w.out \o w.todo)
  /\ \A a, b : Before(roots, a, b) => Before(w.out \o w.todo, a, b)

(* Before the first visit only the roots wait, each once.                  *)
LEMMA WalkInvStart ==
  ASSUME NEW live \in SUBSET Id, NEW par, NEW kids, NEW roots \in Seq(live),
         Injective(roots), \A x \in Range(roots) : par[x] = NoId
  PROVE  WalkInv([out |-> <<>>, todo |-> roots], live, par, kids, roots, 0)
<1> DEFINE start == [out |-> <<>>, todo |-> roots]
<1>1. start.out = <<>> /\ start.todo = roots
  OBVIOUS
<1>2. <<>> \in Seq(live) /\ Injective(<<>>) /\ Range(<<>>) = {} /\ Len(<<>>) = 0
  BY DEF Injective, Range
<1>3. <<>> \o roots = roots
  BY ConcatEmptySeq
<1> HIDE DEF start
<1>4. Walking(start, live, par)
  BY <1>1, <1>2 DEF Walking
<1>5. Arranged(start, kids)
  BY <1>1, <1>2 DEF Arranged
<1>6. WalkInv(start, live, par, kids, roots, 0)
  BY <1>1, <1>2, <1>3, <1>4, <1>5 DEF WalkInv
<1> QED BY <1>6 DEF start

(* A visit moves one module to the output, and its children wait.          *)
LEMMA WalkInvStep ==
  ASSUME NEW live \in SUBSET Id, NEW par, NEW kids \in [Id -> Seq(Id)],
         Agree(live, par, kids), NEW roots, NEW w, NEW i \in Nat,
         WalkInv(w, live, par, kids, roots, i)
  PROVE  WalkInv(Visit(w, kids), live, par, kids, roots, i + 1)
<1>1. /\ Walking(w, live, par) /\ Arranged(w, kids)
      /\ w.todo # <<>> => Len(w.out) = i
      /\ Range(roots) \subseteq Range(w.out \o w.todo)
      /\ \A a, b : Before(roots, a, b) => Before(w.out \o w.todo, a, b)
  BY DEF WalkInv
<1>2. CASE w.todo = <<>>
  BY <1>1, <1>2, VisitStep DEF WalkInv
<1>3. CASE w.todo # <<>>
  <2> DEFINE v == Visit(w, kids)
             h == Head(w.todo)
             rest == Tail(w.todo)
             below == kids[h]
  <2>1. Enters(w, v, live, par, kids, h, rest, below)
    BY <1>1, <1>3, VisitFacts, Zenon
  <2>2. Walking(v, live, par)
    BY <1>1, VisitKeepsWalking
  <2> HIDE DEF v, h, rest, below
  <2>3. Arranged(v, kids)
    BY <1>1, <2>1, <2>2, VisitKeepsArranged
  <2>4. Inserts(w.out \o w.todo, v.out \o v.todo, live, Range(w.out), h, rest, below)
    BY <1>1, <2>1, <2>2, VisitOrder, Zenon
  <2>5. Len(v.out) = i + 1
    <3>1. v.out = Append(w.out, h) /\ h \in live /\ w.out \in Seq(live)
      BY <1>1, <2>1 DEF Enters, Walking
    <3> QED BY <1>1, <1>3, <3>1
  <2>6. Range(roots) \subseteq Range(v.out \o v.todo)
    BY <1>1, <2>4 DEF Inserts
  <2>7. \A a, b : Before(roots, a, b) => Before(v.out \o v.todo, a, b)
    BY <1>1, <2>4 DEF Inserts
  <2>8. WalkInv(v, live, par, kids, roots, i + 1)
    BY <2>2, <2>3, <2>5, <2>6, <2>7 DEF WalkInv
  <2> QED BY <2>8 DEF v
<1> QED BY <1>2, <1>3

(* The pre-order of a vector of distinct modules is a list of distinct     *)
(* modules, closed under parent and children, with every subtree a block,  *)
(* every child list in order, and the roots in the order of the vector.    *)
PreOrdered(out, roots, live, par, kids) ==
  /\ out \in Seq(live) /\ Injective(out)
  /\ \A m \in Range(out) : /\ Block(out, kids, m) /\ InChildOrder(out, kids, m)
                           /\ Range(kids[m]) \subseteq Range(out)
                           /\ par[m] = NoId \/ par[m] \in Range(out)
  /\ Range(roots) \subseteq Range(out)
  /\ \A a, b : Before(roots, a, b) => Before(out, a, b)

(* dfs_ from the roots puts all they reach in pre-order, roots as before.  *)
LEMMA PreOrderArranges ==
  ASSUME NEW live \in SUBSET Id, NEW par, NEW kids \in [Id -> Seq(Id)],
         Agree(live, par, kids), NEW order \in Seq(live), Injective(order)
  PROVE  PreOrdered(PreOrder(order, par, kids),
                    Keep(order, {m \in Id : par[m] = NoId}), live, par, kids)
<1> DEFINE n == Cardinality(Id)
           roots == Keep(order, {m \in Id : par[m] = NoId})
           start == [out |-> <<>>, todo |-> roots]
           f == CHOOSE g : IsWalk(g, start, kids, n)
           T == {i \in Nat : i <= n => WalkInv(f[i], live, par, kids, roots, i)}
<1>1. n \in Nat
  BY FS_CardinalityType, TreeAssumption
<1>2. PreOrder(order, par, kids) = f[n].out
  BY DEF PreOrder, IsWalk
<1>3. IsWalk(f, start, kids, n)
  BY <1>1, WalkExists
<1> HIDE DEF n, f
<1>4. f[0] = start /\ \A i \in 0 .. n - 1 : f[i + 1] = Visit(f[i], kids)
  BY <1>1, <1>3, WalkSteps
<1>5. /\ roots \in Seq(live) /\ Injective(roots)
      /\ Range(roots) = Range(order) \cap {m \in Id : par[m] = NoId}
  BY KeepElements
<1> HIDE DEF roots
<1>6. WalkInv(start, live, par, kids, roots, 0)
  BY <1>5, WalkInvStart
<1> HIDE DEF start
<1>7. 0 \in T
  BY <1>4, <1>6
<1>8. ASSUME NEW k \in Nat, k \in T PROVE k + 1 \in T
  <2> SUFFICES ASSUME k + 1 <= n PROVE WalkInv(f[k + 1], live, par, kids, roots, k + 1)
    OBVIOUS
  <2>1. k <= n /\ k \in 0 .. n - 1
    BY <1>1
  <2>2. WalkInv(f[k], live, par, kids, roots, k)
    BY <1>8, <2>1
  <2>3. WalkInv(Visit(f[k], kids), live, par, kids, roots, k + 1)
    BY <2>2, WalkInvStep
  <2> QED BY <1>4, <2>1, <2>3
<1> HIDE DEF T
<1>9. n \in T
  BY <1>1, <1>7, <1>8, NatSetInduction
<1> DEFINE w == f[n]
<1>10. WalkInv(w, live, par, kids, roots, n)
  BY <1>1, <1>9 DEF T
<1> HIDE DEF w
<1>11. Walking(w, live, par) /\ Arranged(w, kids)
  BY <1>10 DEF WalkInv
<1>12. w.todo = <<>>
  <2> SUFFICES ASSUME w.todo # <<>> PROVE FALSE
    OBVIOUS
  <2> DEFINE h == Head(w.todo)
             all == Append(w.out, h)
  <2>1. /\ w.out \in Seq(live) /\ w.todo \in Seq(live) /\ Injective(w.out)
        /\ Range(w.out) \cap Range(w.todo) = {}
    BY <1>11 DEF Walking
  <2>2. h \in live /\ h \in Range(w.todo)
    BY <2>1, TailElements
  <2> HIDE DEF h
  <2>3. all \in Seq(live) /\ Injective(all)
    BY <2>1, <2>2, AppendElements
  <2>4. Len(all) = n + 1
    BY <1>10, <2>1, <2>2 DEF WalkInv
  <2> HIDE DEF all
  <2>5. Range(all) \subseteq Id /\ all \in Seq(Id)
    BY <2>3, RangeOfSeq, SeqMonotonic
  <2>6. Len(all) = Cardinality(Range(all))
    BY <2>3, <2>5, LengthIsCardinality
  <2>7. Cardinality(Range(all)) <= n
    BY <2>5, FS_Subset, TreeAssumption DEF n
  <2> QED BY <1>1, <2>4, <2>6, <2>7
<1>13. w.out \o w.todo = w.out
  BY <1>11, <1>12, ConcatEmptySeq DEF Walking
<1>14. Range(<<>>) = {}
  BY DEF Range
<1>15. PreOrdered(w.out, roots, live, par, kids)
  BY <1>10, <1>11, <1>12, <1>13, <1>14 DEF PreOrdered, WalkInv, Walking, Arranged
<1> QED BY <1>2, <1>15 DEF w, roots

(* sort_depth_first_ only rearranges: a vector of the live modules, each   *)
(* once, is one afterwards, whether or not a root reaches them all.        *)
LEMMA SortRearranges ==
  ASSUME NEW live \in SUBSET Id, NEW par, NEW kids \in [Id -> Seq(Id)],
         Agree(live, par, kids), NEW order \in Seq(live), Injective(order),
         Range(order) = live
  PROVE  /\ SortDepthFirst(order, par, kids) \in Seq(live)
         /\ Injective(SortDepthFirst(order, par, kids))
         /\ Range(SortDepthFirst(order, par, kids)) = live
<1> DEFINE out == PreOrder(order, par, kids)
           left == Keep(order, Id \ Range(out))
<1>1. out \in Seq(live) /\ Injective(out)
  BY PreOrderArranges DEF PreOrdered
<1>2. SortDepthFirst(order, par, kids) = out \o left
  BY DEF SortDepthFirst
<1> HIDE DEF out
<1>3. /\ left \in Seq(live) /\ Injective(left)
      /\ Range(left) = Range(order) \cap (Id \ Range(out))
  BY KeepElements
<1> HIDE DEF left
<1>4. Range(out) \subseteq live
  BY <1>1 DEF Range
<1>5. Range(out) \cap Range(left) = {} /\ Range(out) \cup Range(left) = live
  BY <1>3, <1>4
<1>6. /\ out \o left \in Seq(live) /\ Injective(out \o left)
      /\ Range(out \o left) = Range(out) \cup Range(left)
  BY <1>1, <1>3, <1>5, ConcatElements
<1> QED BY <1>2, <1>5, <1>6

-----------------------------------------------------------------------------
(* The vector lists the live modules, each once. *)
ListsOnce(order, live) ==
  order \in Seq(Id) /\ Injective(order) /\ Range(order) = live

VectorInv == TreeInv /\ ListsOnce(modules, Live)

LEMMA VectorInvHolds == VectorInv => TypeOK /\ VectorHoldsLive
BY LengthIsCardinality DEF VectorInv, TreeInv, ListsOnce, TypeOK, VectorHoldsLive

(* Erasing the destroyed modules leaves the survivors. *)
LEMMA KeepLists ==
  ASSUME NEW order, NEW live \in SUBSET Id, ListsOnce(order, live), NEW S
  PROVE  ListsOnce(Keep(order, S), live \cap S)
BY KeepElements DEF ListsOnce

(* Sorting leaves the same modules. *)
LEMMA SortLists ==
  ASSUME NEW live \in SUBSET Id, NEW par, NEW kids \in [Id -> Seq(Id)],
         Agree(live, par, kids), NEW order, ListsOnce(order, live)
  PROVE  ListsOnce(SortDepthFirst(order, par, kids), live)
<1>1. order \in Seq(live)
  BY SeqWithin DEF ListsOnce
<1>2. /\ SortDepthFirst(order, par, kids) \in Seq(live)
      /\ Injective(SortDepthFirst(order, par, kids))
      /\ Range(SortDepthFirst(order, par, kids)) = live
  BY <1>1, SortRearranges DEF ListsOnce
<1>3. SortDepthFirst(order, par, kids) \in Seq(Id)
  BY <1>2, SeqWithin
<1> QED BY <1>2, <1>3 DEF ListsOnce

(* None of the roots that reorder() collects is an empty slot. *)
LEMMA NoRootIsKept ==
  ASSUME NEW roots \in Seq(Id)
  PROVE  KeptRoots(roots) = <<>>
<1> DEFINE kept == Keep(roots, {NoId})
<1>1. kept \in Seq(Id) /\ Range(kept) = Range(roots) \cap {NoId}
  BY KeepElements
<1>2. Range(roots) \subseteq Id /\ NoId \notin Id
  BY RangeOfSeq, TreeAssumption
<1>3. Range(kept) = {}
  BY <1>1, <1>2
<1>4. KeptRoots(roots) = kept
  BY DEF KeptRoots
<1> HIDE DEF kept
<1>5. Len(kept) = 0
  <2> SUFFICES ASSUME Len(kept) # 0 PROVE FALSE
    OBVIOUS
  <2>1. 1 \in DOMAIN kept
    BY <1>1
  <2> QED BY <1>3, <2>1 DEF Range
<1> QED BY <1>1, <1>4, <1>5, EmptySeq

(* Each request leaves every live module in the vector once. *)
LEMMA VectorStep == VectorInv /\ [TidyNext]_vars => VectorInv'
<1> SUFFICES ASSUME VectorInv, [TidyNext]_vars
             PROVE  ListsOnce(modules', Live')
  <2>1. TreeInv /\ [TidyNext]_vars => TreeInv'
    BY TidyIsNext, TypeStep, ChildListsStep DEF TreeInv
  <2> QED BY <2>1 DEF VectorInv, ListsOnce
<1>0. /\ TreeInv /\ TreeInv' /\ ListsOnce(modules, Live)
      /\ Live \subseteq Id /\ Live' \subseteq Id
  BY TidyIsNext, TypeStep, ChildListsStep DEF VectorInv, TreeInv, Live
<1>1. children' \in [Id -> Seq(Id)]
  BY <1>0 DEF TreeInv, TreeTypeOK
<1>2. Agree(Live', parent', children')
  <2>1. (TreeTypeOK => (ChildListsAgree <=> Agree(Live, parent, children)))'
    BY AgreeIff, PTL
  <2> QED BY <1>0, <2>1 DEF TreeInv, Agree
<1>3. ASSUME UNCHANGED <<kind, modules>> PROVE ListsOnce(modules', Live')
  BY <1>0, <1>3 DEF Live
<1>4. ASSUME UNCHANGED kind, modules' = SortDepthFirst(modules, parent', children')
      PROVE  ListsOnce(modules', Live')
  <2>1. Live' = Live
    BY <1>4 DEF Live
  <2>2. ListsOnce(modules, Live')
    BY <1>0, <2>1
  <2>3. ListsOnce(SortDepthFirst(modules, parent', children'), Live')
    BY <1>0, <1>1, <1>2, <2>2, SortLists
  <2> QED BY <1>4, <2>3
<1>5. ASSUME NEW r \in AddRequest, AddModule(r[1], r[2])
      PROVE  ListsOnce(modules', Live')
  <2>1. r[1] \in Type /\ r[2] \in Id /\ NoType \notin Type
    BY TreeAssumption
  <2>2. /\ Live' = Live \cup {r[2]} /\ r[2] \notin Live
        /\ modules' = Append(modules, r[2])
    BY <1>0, <1>5, <2>1 DEF AddModule, Live, TreeInv, TreeTypeOK
  <2> HIDE DEF Live
  <2>3. modules \in Seq(Id) /\ Injective(modules) /\ Range(modules) = Live
    BY <1>0 DEF ListsOnce
  <2> QED BY <2>1, <2>2, <2>3, AppendElements DEF ListsOnce
<1>6. ASSUME NEW m \in Id, RemoveModule(m)
      PROVE  ListsOnce(modules', Live')
  <2>1. CASE Crash
    BY <1>3, <2>1 DEF Crash, tree
  <2>2. CASE /\ Destroy(Subtree(m), Detached(m))
             /\ modules' = Keep(modules, Id \ Subtree(m))
    <3>1. Live' = Live \ Subtree(m)
      BY <2>2 DEF Destroy, Live
    <3>2. Live' = Live \cap (Id \ Subtree(m))
      BY <1>0, <3>1
    <3>3. ListsOnce(Keep(modules, Id \ Subtree(m)), Live \cap (Id \ Subtree(m)))
      BY <1>0, KeepLists
    <3> QED BY <2>2, <3>2, <3>3
  <2> QED BY <1>6, <2>1, <2>2 DEF RemoveModule
<1>7. ASSUME NEW m \in Id, NEW p \in Id, Reparent(m, p)
      PROVE  ListsOnce(modules', Live')
  <2>1. CASE Crash
    BY <1>3, <2>1 DEF Crash, tree
  <2>2. CASE ~ Crash
    BY <1>4, <1>7, <2>2 DEF Reparent
  <2> QED BY <2>1, <2>2
<1>8. ASSUME NEW m \in Id, Promote(m)
      PROVE  ListsOnce(modules', Live')
  <2>1. CASE Crash
    BY <1>3, <2>1 DEF Crash, tree
  <2>2. CASE ~ Crash
    BY <1>4, <1>8, <2>2 DEF Promote
  <2> QED BY <2>1, <2>2
<1>9. ASSUME NEW p \in Id, RearrangeChildren(p)
      PROVE  ListsOnce(modules', Live')
  BY <1>4, <1>9 DEF RearrangeChildren
<1>10. ASSUME NEW ids \in OrderRequest, ReorderRoots(ids)
       PROVE  ListsOnce(modules', Live')
  <2> DEFINE listed == Keep(ids, Roots)
             roots == listed \o Keep(modules, Roots \ Range(listed))
             rest == Keep(modules, Id \ Roots)
  <2>1. /\ Destroy(Roots \ Range(KeptRoots(roots)), children)
        /\ modules' = SortDepthFirst(KeptRoots(roots) \o rest, parent', children')
    BY <1>10 DEF ReorderRoots
  <2>2. ids \in Seq(Id) /\ modules \in Seq(Id)
    BY <1>0, TreeAssumption DEF ListsOnce
  <2>3. listed \in Seq(Id)
    BY <2>2, KeepElements
  <2> HIDE DEF listed
  <2>4. Keep(modules, Roots \ Range(listed)) \in Seq(Id)
    BY <2>2, KeepElements
  <2>5. roots \in Seq(Id)
    BY <2>3, <2>4
  <2> HIDE DEF roots
  <2>6. KeptRoots(roots) = <<>> /\ Range(<<>>) = {}
    BY <2>5, NoRootIsKept DEF Range
  <2>7. Destroy(Roots, children)
    <3>1. Roots \ Range(KeptRoots(roots)) = Roots
      BY <2>6
    <3> QED BY <2>1, <3>1
  <2>8. Live' = Live \cap (Id \ Roots)
    BY <2>7 DEF Destroy, Live
  <2>9. ListsOnce(rest, Live')
    BY <1>0, <2>8, KeepLists
  <2>10. KeptRoots(roots) \o rest = rest
    BY <2>6, <2>9 DEF ListsOnce
  <2> HIDE DEF rest
  <2>11. ListsOnce(SortDepthFirst(rest, parent', children'), Live')
    BY <1>0, <1>1, <1>2, <2>9, SortLists
  <2> QED BY <2>1, <2>10, <2>11
<1>11. ASSUME NEW m \in Id, NEW v \in InputValue, NEW in \in Name, SetInput(m, in, v)
       PROVE  ListsOnce(modules', Live')
  BY <1>3, <1>11 DEF SetInput
<1>12. CASE UNCHANGED vars
  BY <1>3, <1>12 DEF vars
<1>13. TidyNext \/ UNCHANGED vars
  OBVIOUS
<1> QED
  BY <1>5, <1>6, <1>7, <1>8, <1>9, <1>10, <1>11, <1>12, <1>13 DEF TidyNext, CommonNext

LEMMA VectorInvInit == Init => VectorInv
<1> SUFFICES ASSUME Init PROVE VectorInv
  OBVIOUS
<1>1. Live = {} /\ modules = <<>>
  BY DEF Init, Live
<1>2. <<>> \in Seq(Id) /\ Injective(<<>>) /\ Range(<<>>) = {}
  BY DEF Injective, Range
<1> QED BY <1>1, <1>2, TreeInvInit DEF VectorInv, ListsOnce

(* The Scheduler walks modules_: it holds every live module and each once, *)
(* whatever requests arrive in whatever order, as long as no "ids" list    *)
(* has more than 256 entries.  sort_depth_first_ loses    *)
(* none and doubles none, also when a cycle or a dangling parent_ keeps    *)
(* modules out of every root's reach, and remove() and reorder() erase     *)
(* what they destroy and nothing else.                                     *)
THEOREM VectorCorrect ==
  ASSUME ShortLists PROVE Spec => []VectorHoldsLive
<1>1. VectorInv /\ [Next]_vars => VectorInv'
  BY ShortIsTidy, VectorStep DEF VectorInv
<1> QED BY <1>1, VectorInvInit, VectorInvHolds, PTL DEF Spec

(* The module vector is a list of ids, and everything else has its type,   *)
(* under the same condition.                                               *)
THEOREM TypeCorrect ==
  ASSUME ShortLists PROVE Spec => []TypeOK
<1>1. VectorInv /\ [Next]_vars => VectorInv'
  BY ShortIsTidy, VectorStep DEF VectorInv
<1> QED BY <1>1, VectorInvInit, VectorInvHolds, PTL DEF Spec

-----------------------------------------------------------------------------
(* Every subtree is one block of the vector and siblings stand in          *)
(* children_ order.                                                        *)
Nested(order, live, kids) ==
  \A m \in live : Block(order, kids, m) /\ InChildOrder(order, kids, m)

(* Every module has its parent_ chain end at a root. *)
Forest(live, par) ==
  /\ \A m \in live : par[m] \in live \cup {NoId}
  /\ \A S \in SUBSET live : S # {} => \E x \in S : par[x] \notin S

(* In a forest dfs_ reaches every module: sort_depth_first_ appends none   *)
(* behind the pre-order, and keeps the order of the roots.                 *)
LEMMA SortNests ==
  ASSUME NEW live \in SUBSET Id, NEW par, NEW kids \in [Id -> Seq(Id)],
         Agree(live, par, kids), Forest(live, par),
         NEW order, ListsOnce(order, live)
  PROVE  /\ Nested(SortDepthFirst(order, par, kids), live, kids)
         /\ \A a, b \in Id : Before(order, a, b) /\ par[a] = NoId /\ par[b] = NoId
                              => Before(SortDepthFirst(order, par, kids), a, b)
<1> DEFINE out == PreOrder(order, par, kids)
           top == {m \in Id : par[m] = NoId}
           roots == Keep(order, top)
           left == Keep(order, Id \ Range(out))
<1>1. order \in Seq(live) /\ order \in Seq(Id) /\ Injective(order) /\ Range(order) = live
  BY SeqWithin DEF ListsOnce
<1>2. PreOrdered(out, roots, live, par, kids)
  BY <1>1, PreOrderArranges
<1>3. SortDepthFirst(order, par, kids) = out \o left
  BY DEF SortDepthFirst
<1> HIDE DEF out
<1>4. /\ left \in Seq(live) /\ Range(left) = Range(order) \cap (Id \ Range(out))
      /\ Range(roots) = Range(order) \cap top
      /\ \A a, b : Before(roots, a, b) <=> Before(order, a, b) /\ a \in top /\ b \in top
  BY <1>1, KeepElements
<1> HIDE DEF left, roots
<1>5. /\ out \in Seq(live)
      /\ \A m \in Range(out) : /\ Block(out, kids, m) /\ InChildOrder(out, kids, m)
                               /\ Range(kids[m]) \subseteq Range(out)
      /\ Range(roots) \subseteq Range(out)
      /\ \A a, b : Before(roots, a, b) => Before(out, a, b)
  BY <1>2 DEF PreOrdered
<1>6. live \subseteq Range(out)
  <2> DEFINE S == live \ Range(out)
  <2> SUFFICES ASSUME S # {} PROVE FALSE
    OBVIOUS
  <2>1. PICK x \in S : par[x] \notin S
    BY DEF Forest
  <2>2. par[x] # NoId
    BY <1>1, <1>4, <1>5, <2>1
  <2>3. par[x] \in live /\ par[x] \in Range(out) /\ par[x] \in Id
    BY <2>1, <2>2 DEF Forest
  <2>4. x \in Range(kids[par[x]])
    BY <2>1, <2>3 DEF Agree
  <2> QED BY <1>5, <2>1, <2>3, <2>4
<1>7. left = <<>>
  <2>1. Range(left) = {}
    BY <1>1, <1>4, <1>6
  <2>2. Len(left) = 0
    <3> SUFFICES ASSUME Len(left) # 0 PROVE FALSE
      OBVIOUS
    <3>1. 1 \in DOMAIN left
      BY <1>4
    <3> QED BY <2>1, <3>1 DEF Range
  <2> QED BY <1>4, <2>2, EmptySeq
<1>8. SortDepthFirst(order, par, kids) = out
  BY <1>3, <1>5, <1>7, ConcatEmptySeq
<1>9. Nested(out, live, kids)
  BY <1>5, <1>6 DEF Nested
<1> QED BY <1>4, <1>5, <1>8, <1>9
(* The steps of a system that sends any request but a reorder of the roots. *)
LEMMA NestingStep ==
  ASSUME VectorInv, ParentsAlive, NestingNext \/ UNCHANGED vars
  PROVE  VectorInv' /\ ParentsAlive'
<1>1. [TidyNext]_vars
  BY DEF NestingNext, TidyNext
<1>2. VectorInv'
  BY <1>1, VectorStep
<1>3. CASE NestingNext
  BY <1>2, <1>3, ParentsStep DEF VectorInv
<1>4. CASE UNCHANGED vars
  BY <1>2, <1>4 DEF vars, ParentsAlive, Live
<1> QED BY <1>3, <1>4
-----------------------------------------------------------------------------
UiVectorInv == UiInv /\ ListsOnce(modules, Live)

LEMMA UiVectorStep == UiVectorInv /\ [UiNext]_vars => UiVectorInv'
<1>1. UiInv /\ [UiNext]_vars => UiInv'
  BY UiStep
<1>2. VectorInv /\ [TidyNext]_vars => VectorInv'
  BY VectorStep
<1>3. TreeInv /\ [UiNext]_vars => [TidyNext]_vars
  BY UiIsTidy, UiTidyIsTidy
<1> QED BY <1>1, <1>2, <1>3 DEF UiVectorInv, UiInv, VectorInv

(* The state after a drop, a promotion or a new order of children, as the  *)
(* sort finds it.                                                          *)
LEMMA SortedVector ==
  ASSUME UiVectorInv, UiVectorInv', UNCHANGED kind,
         modules' = SortDepthFirst(modules, parent', children')
  PROVE  /\ Nested(modules', Live', children')
         /\ \A a, b \in Roots \cap Roots' : Before(modules, a, b) => Before(modules', a, b)
<1>1. Live' = Live /\ ListsOnce(modules, Live) /\ Live' \subseteq Id
  BY DEF UiVectorInv, Live
<1>2. Agree(Live', parent', children') /\ children' \in [Id -> Seq(Id)]
  <2>1. (TreeTypeOK => (ChildListsAgree <=> Agree(Live, parent, children)))'
    BY AgreeIff, PTL
  <2> QED BY <2>1 DEF UiVectorInv, UiInv, TreeInv, TreeTypeOK, Agree
<1>3. Forest(Live', parent')
  BY DEF UiVectorInv, UiInv, ParentsAlive, Acyclic, Forest
<1> HIDE DEF Live
<1>4. /\ Nested(SortDepthFirst(modules, parent', children'), Live', children')
      /\ \A a, b \in Id : Before(modules, a, b) /\ parent'[a] = NoId /\ parent'[b] = NoId
           => Before(SortDepthFirst(modules, parent', children'), a, b)
  BY <1>1, <1>2, <1>3, SortNests
<1>5. \A a \in Roots' : a \in Id /\ parent'[a] = NoId
  BY <1>1 DEF Roots
<1> QED BY <1>4, <1>5

RootsInOrder ==
  \A a, b \in Roots \cap Roots' : Before(modules, a, b) => Before(modules', a, b)

(* No request of the page changes the order of roots that stay roots.      *)
LEMMA RootsStep ==
  ASSUME UiVectorInv, UiVectorInv', UiNext
  PROVE  RootsInOrder
<1>1. modules \in Seq(Id)
  BY DEF UiVectorInv, ListsOnce
<1>2. ASSUME UNCHANGED kind, modules' = SortDepthFirst(modules, parent', children')
      PROVE  RootsInOrder
  BY <1>2, SortedVector DEF RootsInOrder
<1>3. ASSUME UNCHANGED modules PROVE RootsInOrder
  BY <1>3 DEF RootsInOrder
<1>4. ASSUME NEW r \in AddRequest, AddModule(r[1], r[2]) PROVE RootsInOrder
  <2>1. r[2] \in Id /\ modules' = Append(modules, r[2])
    BY <1>4, TreeAssumption DEF AddModule
  <2> QED BY <1>1, <2>1, BeforeAppend DEF RootsInOrder
<1>5. ASSUME NEW m \in Id, RemoveModule(m) PROVE RootsInOrder
  <2>1. CASE UNCHANGED tree
    BY <1>3, <2>1 DEF tree
  <2>2. CASE /\ Destroy(Subtree(m), Detached(m))
             /\ modules' = Keep(modules, Id \ Subtree(m))
    <3>1. Roots' \subseteq Id \ Subtree(m)
      BY <2>2 DEF Destroy, Roots, Live
    <3> QED BY <1>1, <2>2, <3>1, KeepElements DEF RootsInOrder
  <2> QED BY <1>5, <2>1, <2>2 DEF RemoveModule, Crash
<1>6. ASSUME NEW m \in Id, NEW p \in Id, Reparent(m, p) PROVE RootsInOrder
  <2>1. CASE UNCHANGED tree
    BY <1>3, <2>1 DEF tree
  <2>2. CASE ~ UNCHANGED tree
    BY <1>2, <1>6, <2>2 DEF Reparent, Crash
  <2> QED BY <2>1, <2>2
<1>7. ASSUME NEW m \in Id, Promote(m) PROVE RootsInOrder
  <2>1. CASE UNCHANGED tree
    BY <1>3, <2>1 DEF tree
  <2>2. CASE ~ UNCHANGED tree
    BY <1>2, <1>7, <2>2 DEF Promote, Crash
  <2> QED BY <2>1, <2>2
<1>8. ASSUME NEW p \in Id, RearrangeChildren(p)
      PROVE  RootsInOrder
  BY <1>2, <1>8 DEF RearrangeChildren
<1>9. ASSUME NEW m \in Id, NEW v \in InputValue, NEW in \in Name, SetInput(m, in, v)
      PROVE  RootsInOrder
  BY <1>3, <1>9 DEF SetInput
<1> QED BY <1>4, <1>5, <1>6, <1>7, <1>8, <1>9, UiIsTidy DEF UiVectorInv, UiInv, UiTidyNext, CommonNext

LEMMA UiVectorInit == Init => UiVectorInv
<1> SUFFICES ASSUME Init PROVE UiVectorInv
  OBVIOUS
<1>1. Live = {}
  BY DEF Init, Live
<1> QED BY <1>1, VectorInvInit DEF VectorInv, UiVectorInv, UiInv, ParentsAlive, Acyclic

(* Whatever the web UI does, two modules that are roots before and after   *)
(* stay in the order the user gave them: sort_depth_first_ enters the      *)
(* roots in vector order, and a forest leaves it nothing to append.        *)
THEOREM RootsStayInOrder == UiSpec => RootsKeepOrder
<1>1. UiVectorInv /\ UiVectorInv' /\ [UiNext]_vars => [RootsInOrder]_vars
  BY RootsStep
<1>2. RootsKeepOrder <=> [][RootsInOrder]_vars
  BY PTL DEF RootsKeepOrder, RootsInOrder
<1> QED BY <1>1, <1>2, UiVectorInit, UiVectorStep, PTL DEF UiSpec

-----------------------------------------------------------------------------
NestedInv == UiVectorInv /\ Nested(modules, Live, children)

(* removeChild keeps the order of the other children. *)
LEMMA WithoutOrder ==
  ASSUME NEW s \in Seq(Id), NEW c, NEW a, NEW b, Before(Without(s, c), a, b)
  PROVE  Before(s, a, b)
<1>1. CASE \E i \in DOMAIN s : s[i] = c
  <2> DEFINE k == CHOOSE i \in DOMAIN s : s[i] = c
             n == Len(s)
             t == [j \in 1 .. n - 1 |-> IF j < k THEN s[j] ELSE s[j + 1]]
  <2>1. Without(s, c) = t /\ k \in 1 .. n /\ n \in Nat /\ DOMAIN s = 1 .. n
    BY <1>1 DEF Without
  <2> HIDE DEF k, n
  <2>2. PICK i \in 1 .. n - 1, j \in 1 .. n - 1 : i < j /\ t[i] = a /\ t[j] = b
    BY <2>1 DEF Before
  <2> DEFINE at(l) == IF l < k THEN l ELSE l + 1
  <2>3. at(i) \in 1 .. n /\ at(j) \in 1 .. n /\ at(i) < at(j)
    BY <2>1, <2>2
  <2>4. s[at(i)] = a /\ s[at(j)] = b
    BY <2>1, <2>2
  <2> HIDE DEF at
  <2> QED BY <2>1, <2>3, <2>4 DEF Before
<1>2. CASE ~ \E i \in DOMAIN s : s[i] = c
  BY <1>2 DEF Without
<1> QED BY <1>1, <1>2

(* A module just added is a block of its own at the end. *)
LEMMA AppendNests ==
  ASSUME NEW live \in SUBSET Id, NEW par, NEW kids \in [Id -> Seq(Id)],
         Agree(live, par, kids), NEW order, ListsOnce(order, live),
         Nested(order, live, kids), NEW m \in Id \ live
  PROVE  Nested(Append(order, m), live \cup {m}, kids)
<1> DEFINE M == Append(order, m)
<1>1. order \in Seq(Id) /\ Range(order) = live
  BY DEF ListsOnce
<1>2. Range(kids[m]) = {} /\ \A a, b : ~ Before(kids[m], a, b)
  <2>1. Range(kids[m]) = {}
    BY DEF Agree
  <2> QED BY <2>1 DEF Before, Range
<1>3. Range(M) = live \cup {m}
  BY <1>1, AppendElements
<1>4. \A a, b : Before(M, a, b) <=> Before(order, a, b) \/ (a \in live /\ b = m)
  BY <1>1, BeforeAppend
<1>5. \A a, b : Before(order, a, b) => a \in live /\ b \in live
  BY <1>1 DEF Before, Range
<1> HIDE DEF M
<1>6. ASSUME NEW x \in live PROVE Block(M, kids, x) /\ InChildOrder(M, kids, x)
  <2>1. m \notin Below(kids, x)
    BY BelowParent
  <2>2. Block(order, kids, x) /\ InChildOrder(order, kids, x)
    BY DEF Nested
  <2>3. \A z \in Below(kids, x) \cap Range(M) : z \in Below(kids, x) \cap Range(order) /\ z # m
    BY <1>1, <1>3, <2>1
  <2>4. \A y, z : z # m /\ Before(M, y, z) => Before(order, y, z) /\ y # m
    BY <1>4, <1>5
  <2>5. Block(M, kids, x)
    BY <1>4, <2>2, <2>3, <2>4 DEF Block
  <2> QED BY <1>4, <2>2, <2>5 DEF InChildOrder
<1>7. Block(M, kids, m)
  <2>1. \A z \in Below(kids, m) : z = m
    <3> SUFFICES ASSUME NEW z \in Below(kids, m), z # m PROVE FALSE
      OBVIOUS
    <3>1. z \in Range(kids[par[z]]) /\ par[z] \in Below(kids, m) /\ z \in live
      BY BelowParent
    <3>2. {m} \in SUBSET Id /\ \A y \in {m} : Range(kids[y]) \subseteq {m}
      BY <1>2
    <3>3. z \in {m}
      BY <3>2 DEF Below
    <3> QED BY <3>3
  <2>2. \A y : ~ Before(M, m, y)
    BY <1>4, <1>5
  <2> QED BY <2>1, <2>2 DEF Block
<1>8. InChildOrder(M, kids, m)
  BY <1>2 DEF InChildOrder
<1> QED BY <1>6, <1>7, <1>8 DEF Nested, M

(* Erasing a whole subtree leaves the others as they were. *)
LEMMA RemoveNests ==
  ASSUME NEW live \in SUBSET Id, NEW par, NEW kids \in [Id -> Seq(Id)],
         Agree(live, par, kids), NEW order, ListsOnce(order, live),
         Nested(order, live, kids),
         NEW m \in Id, NEW dead, dead = Below(kids, m), NEW less \in [Id -> Seq(Id)],
         \A y \in Id \ dead : /\ Range(less[y]) = Range(kids[y]) \ {m}
                              /\ \A a, b : Before(less[y], a, b) => Before(kids[y], a, b),
         \A y \in dead : Range(less[y]) = {}
  PROVE  Nested(Keep(order, Id \ dead), live \ dead, less)
<1> DEFINE M == Keep(order, Id \ dead)
<1>1. order \in Seq(Id) /\ Range(order) = live
  BY DEF ListsOnce
<1>2. Range(M) = live \ dead
  BY <1>1, KeepElements
<1>3. \A a, b : Before(M, a, b) <=> Before(order, a, b) /\ a \in Id \ dead /\ b \in Id \ dead
  BY <1>1, KeepElements
<1>4. m \in dead /\ dead \subseteq Id /\ \A y \in dead : Range(kids[y]) \subseteq dead
  BY BelowClosed DEF Below
<1> HIDE DEF M
<1>5. ASSUME NEW x \in live \ dead
      PROVE  /\ Below(less, x) \subseteq Below(kids, x)
             /\ Below(kids, x) \ dead \subseteq Below(less, x)
  <2>1. /\ x \in Below(kids, x) /\ Below(kids, x) \in SUBSET Id
        /\ \A y \in Below(kids, x) : Range(kids[y]) \subseteq Below(kids, x)
    BY BelowClosed DEF Below
  <2>2. \A y \in Below(kids, x) : Range(less[y]) \subseteq Below(kids, x)
    BY <2>1
  <2>3. Below(less, x) \subseteq Below(kids, x)
    BY <2>1, <2>2 DEF Below
  <2> DEFINE S == Below(less, x) \cup dead
  <2>4. /\ x \in Below(less, x) /\ Below(less, x) \in SUBSET Id
        /\ \A y \in Below(less, x) : Range(less[y]) \subseteq Below(less, x)
    BY BelowClosed DEF Below
  <2>5. S \in SUBSET Id /\ x \in S /\ \A y \in S : Range(kids[y]) \subseteq S
    BY <1>4, <2>4
  <2> HIDE DEF S
  <2>6. Below(kids, x) \subseteq S
    BY <2>5 DEF Below
  <2> QED BY <2>3, <2>6 DEF S
<1>6. ASSUME NEW x \in live \ dead PROVE Block(M, less, x)
  <2>1. Block(order, kids, x)
    BY DEF Nested
  <2> SUFFICES ASSUME NEW z \in Below(less, x) \cap Range(M)
               PROVE  /\ z = x \/ Before(M, x, z)
                      /\ \A y : Before(M, x, y) /\ Before(M, y, z) => y \in Below(less, x)
    BY DEF Block
  <2>2. z \in Below(kids, x) \cap Range(order) /\ z \in Id \ dead /\ x \in Id \ dead
    BY <1>1, <1>2, <1>5
  <2>3. z = x \/ Before(M, x, z)
    BY <1>3, <2>1, <2>2 DEF Block
  <2>4. ASSUME NEW y, Before(M, x, y), Before(M, y, z) PROVE y \in Below(less, x)
    <3>1. Before(order, x, y) /\ Before(order, y, z) /\ y \notin dead
      BY <1>3, <2>4
    <3>2. y \in Below(kids, x)
      BY <2>1, <2>2, <3>1 DEF Block
    <3> QED BY <1>5, <3>1, <3>2
  <2> QED BY <2>3, <2>4
<1>7. ASSUME NEW x \in live \ dead PROVE InChildOrder(M, less, x)
  <2> SUFFICES ASSUME NEW a, NEW b, Before(less[x], a, b) PROVE Before(M, a, b)
    BY DEF InChildOrder
  <2>1. a \in Range(less[x]) /\ b \in Range(less[x])
    BY DEF Before, Range
  <2>2. Before(order, a, b)
    BY DEF Nested, InChildOrder
  <2>3. ASSUME NEW c \in Range(less[x]) PROVE c \in Id \ dead
    <3>1. c \in Range(kids[x]) /\ c # m /\ c \in live /\ par[c] = x
      BY DEF Agree
    <3>2. c \notin dead
      BY <3>1, BelowParent
    <3> QED BY <3>1, <3>2
  <2> QED BY <1>3, <2>1, <2>2, <2>3
<1> QED BY <1>6, <1>7 DEF Nested, M

LEMMA NestedStep == NestedInv /\ [UiNext]_vars => NestedInv'
<1> SUFFICES ASSUME NestedInv, [UiNext]_vars PROVE Nested(modules', Live', children')
  BY UiVectorStep DEF NestedInv, Nested, Block, InChildOrder, Below, Before
<1>0. /\ UiVectorInv /\ UiVectorInv' /\ TreeInv /\ ParentsAlive
      /\ ListsOnce(modules, Live) /\ Nested(modules, Live, children)
      /\ Live \subseteq Id /\ children \in [Id -> Seq(Id)]
  BY UiVectorStep DEF NestedInv, UiVectorInv, UiInv, TreeInv, TreeTypeOK, Live
<1>1. Agree(Live, parent, children)
  BY <1>0, AgreeIff DEF TreeInv
<1>2. ASSUME UNCHANGED <<kind, modules, children>>
      PROVE  Nested(modules', Live', children')
  <2>1. Live' = Live
    BY <1>2 DEF Live
  <2> QED BY <1>0, <1>2, <2>1
<1>3. ASSUME UNCHANGED kind, modules' = SortDepthFirst(modules, parent', children')
      PROVE  Nested(modules', Live', children')
  BY <1>0, <1>3, SortedVector
<1>4. ASSUME NEW r \in AddRequest, AddModule(r[1], r[2])
      PROVE  Nested(modules', Live', children')
  <2>1. r[1] \in Type /\ r[2] \in Id /\ NoType \notin Type
    BY TreeAssumption
  <2>2. /\ Live' = Live \cup {r[2]} /\ r[2] \in Id \ Live
        /\ modules' = Append(modules, r[2]) /\ children' = children
    BY <1>0, <1>4, <2>1 DEF AddModule, Live, TreeInv, TreeTypeOK
  <2> HIDE DEF Live
  <2> QED BY <1>0, <1>1, <2>2, AppendNests
<1>5. ASSUME NEW m \in Id, RemoveModule(m)
      PROVE  Nested(modules', Live', children')
  <2>1. CASE Crash
    BY <1>2, <2>1 DEF Crash, tree
  <2>2. CASE /\ Destroy(Subtree(m), Detached(m))
             /\ modules' = Keep(modules, Id \ Subtree(m))
    <3> DEFINE dead == Subtree(m)
    <3>1. dead = Below(children, m)
      BY SubtreeIsBelow
    <3>2. /\ Live' = Live \ dead
          /\ children' = [x \in Id |-> IF x \in dead THEN <<>> ELSE Detached(m)[x]]
          /\ modules' = Keep(modules, Id \ dead)
      BY <2>2 DEF Destroy, Live
    <3> HIDE DEF dead
    <3>3. children' \in [Id -> Seq(Id)]
      BY <1>0 DEF UiVectorInv, UiInv, TreeInv, TreeTypeOK
    <3>4. ASSUME NEW y \in Id \ dead
          PROVE  /\ Range(children'[y]) = Range(children[y]) \ {m}
                 /\ \A a, b : Before(children'[y], a, b) => Before(children[y], a, b)
      <4>1. children'[y] = Detached(m)[y]
        BY <3>2
      <4>2. Range(Detached(m)[y]) = Range(children[y]) \ {m}
        <5>1. Kids(y) = Range(children[y])
          BY DEF Kids, Range
        <5> QED BY <1>0, <5>1, DetachedElements DEF TreeInv
      <4>3. Detached(m)[y] = children[y] \/ Detached(m)[y] = Without(children[y], m)
        BY <1>0 DEF Detached
      <4>4. children[y] \in Seq(Id)
        BY <1>0
      <4> QED BY <4>1, <4>2, <4>3, <4>4, WithoutOrder
    <3>5. \A y \in dead : Range(children'[y]) = {}
      <4>1. dead \subseteq Id /\ Range(<<>>) = {}
        BY <3>1 DEF Below, Range
      <4> QED BY <3>2, <4>1
    <3>6. Nested(Keep(modules, Id \ dead), Live \ dead, children')
      BY <1>0, <1>1, <3>1, <3>3, <3>4, <3>5, RemoveNests
    <3> QED BY <3>2, <3>6
  <2> QED BY <1>5, <2>1, <2>2 DEF RemoveModule
<1>6. ASSUME NEW m \in Id, NEW p \in Id, Reparent(m, p)
      PROVE  Nested(modules', Live', children')
  <2>1. CASE Crash
    BY <1>2, <2>1 DEF Crash, tree
  <2>2. CASE ~ Crash
    BY <1>3, <1>6, <2>2 DEF Reparent
  <2> QED BY <2>1, <2>2
<1>7. ASSUME NEW m \in Id, Promote(m)
      PROVE  Nested(modules', Live', children')
  <2>1. CASE Crash
    BY <1>2, <2>1 DEF Crash, tree
  <2>2. CASE ~ Crash
    BY <1>3, <1>7, <2>2 DEF Promote
  <2> QED BY <2>1, <2>2
<1>8. ASSUME NEW p \in Id, RearrangeChildren(p)
      PROVE  Nested(modules', Live', children')
  BY <1>3, <1>8 DEF RearrangeChildren
<1>9. ASSUME NEW m \in Id, NEW v \in InputValue, NEW in \in Name, SetInput(m, in, v)
      PROVE  Nested(modules', Live', children')
  BY <1>2, <1>9 DEF SetInput
<1>10. CASE UNCHANGED vars
  BY <1>2, <1>10 DEF vars
<1>11. UiTidyNext \/ UNCHANGED vars
  BY <1>0, UiIsTidy
<1> QED
  BY <1>4, <1>5, <1>6, <1>7, <1>8, <1>9, <1>10, <1>11 DEF UiTidyNext, CommonNext

(* A set of numbers without gaps is the interval from its least element    *)
(* that is as long as the set.                                             *)
LEMMA NoGaps ==
  ASSUME NEW n \in Nat, NEW T, T \subseteq 1 .. n, NEW k \in T,
         \A x \in T : k <= x, \A x \in T : \A y \in k .. x : y \in T
  PROVE  T = k .. k + Cardinality(T) - 1
<1> DEFINE U == {y \in Nat : k <= y /\ y \notin T}
<1>1. k \in Nat /\ n + 1 \in U
  OBVIOUS
<1>2. PICK g \in U : \A y \in U : g <= y
  <2>1. U \subseteq Nat /\ U # {}
    BY <1>1
  <2> HIDE DEF U
  <2> QED BY <2>1, NatMin
<1>3. g \in Nat /\ k <= g /\ g \notin T
  OBVIOUS
<1>4. T \subseteq k .. g - 1
  <2> SUFFICES ASSUME NEW x \in T PROVE x \in k .. g - 1
    OBVIOUS
  <2>1. x \in Nat /\ k <= x
    OBVIOUS
  <2>2. ~ (g <= x)
    BY <1>3, <2>1
  <2> QED BY <1>1, <1>3, <2>1, <2>2
<1>5. k .. g - 1 \subseteq T
  <2> SUFFICES ASSUME NEW y \in k .. g - 1, y \notin T PROVE FALSE
    OBVIOUS
  <2>1. y \in U /\ y < g
    BY <1>1, <1>3
  <2> QED BY <1>2, <1>3, <2>1
<1>6. T = k .. g - 1
  BY <1>4, <1>5
<1>7. Cardinality(k .. g - 1) = g - k
  <2>1. k \in Int /\ g - 1 \in Int /\ ~ (k > g - 1)
    BY <1>1, <1>3, <1>4
  <2>2. Cardinality(k .. g - 1) = IF k > g - 1 THEN 0 ELSE (g - 1) - k + 1
    BY <2>1, FS_Interval
  <2> QED BY <1>1, <1>3, <2>1, <2>2
<1> QED BY <1>1, <1>3, <1>6, <1>7

(* What Nested says of the positions in the vector. *)
LEMMA NestedIsDepthFirst == NestedInv => DepthFirst
<1> SUFFICES ASSUME NestedInv PROVE DepthFirst
  OBVIOUS
<1> DEFINE pos(m) == CHOOSE i \in DOMAIN modules : modules[i] = m
           n == Len(modules)
<1>1. /\ TreeInv /\ Nested(modules, Live, children) /\ Live \subseteq Id
      /\ modules \in Seq(Id) /\ Injective(modules) /\ Range(modules) = Live
  BY DEF NestedInv, UiVectorInv, UiInv, ListsOnce, Live
<1>2. n \in Nat /\ DOMAIN modules = 1 .. n
  BY <1>1
<1>3. \A m \in Live : pos(m) \in 1 .. n /\ modules[pos(m)] = m
  BY <1>1, <1>2 DEF Range
<1>4. \A i \in 1 .. n : modules[i] \in Live /\ pos(modules[i]) = i
  BY <1>1, <1>2, <1>3 DEF Range, Injective
<1> HIDE DEF n, pos
<1>5. \A a, b \in Live : Before(modules, a, b) <=> pos(a) < pos(b)
  <2>1. ASSUME NEW a \in Live, NEW b \in Live, Before(modules, a, b)
        PROVE  pos(a) < pos(b)
    BY <1>2, <1>4, <2>1 DEF Before
  <2>2. ASSUME NEW a \in Live, NEW b \in Live, pos(a) < pos(b)
        PROVE  Before(modules, a, b)
    BY <1>2, <1>3, <2>2 DEF Before
  <2> QED BY <2>1, <2>2
<1>6. ASSUME NEW m \in Live
      PROVE  {pos(x) : x \in Subtree(m)} = pos(m) .. pos(m) + Cardinality(Subtree(m)) - 1
  <2> DEFINE B == Subtree(m)
             P == {pos(x) : x \in B}
  <2>1. B \subseteq Live /\ m \in B /\ B = Below(children, m)
    <3>1. B \subseteq Live
      BY <1>1, SubtreeIsNested
    <3>2. m \in Below(children, m)
      BY <1>1, BelowClosed DEF TreeInv, TreeTypeOK
    <3> QED BY <3>1, <3>2, SubtreeIsBelow
  <2>2. Block(modules, children, m)
    BY <1>1 DEF Nested
  <2> HIDE DEF B
  <2>3. P \subseteq 1 .. n /\ pos(m) \in P
    BY <1>3, <2>1
  <2>4. \A x \in B : pos(m) <= pos(x)
    <3> SUFFICES ASSUME NEW x \in B PROVE pos(m) <= pos(x)
      OBVIOUS
    <3>1. x = m \/ Before(modules, m, x)
      BY <1>1, <2>1, <2>2 DEF Block
    <3>2. pos(x) \in Nat /\ pos(m) \in Nat /\ x \in Live
      BY <1>3, <2>1
    <3> QED BY <1>5, <3>1, <3>2
  <2>5. ASSUME NEW x \in B, NEW y \in pos(m) .. pos(x) PROVE y \in P
    <3>1. x \in Live /\ pos(x) \in 1 .. n /\ pos(m) \in 1 .. n
      BY <1>3, <2>1
    <3>2. y \in 1 .. n /\ (y = pos(m) \/ y = pos(x) \/ (pos(m) < y /\ y < pos(x)))
      BY <1>2, <3>1
    <3>3. CASE y = pos(m) \/ y = pos(x)
      BY <2>1, <3>3
    <3>4. CASE pos(m) < y /\ y < pos(x)
      <4>1. modules[y] \in Live /\ pos(modules[y]) = y
        BY <1>4, <3>2
      <4>2. Before(modules, m, modules[y]) /\ Before(modules, modules[y], x)
        BY <1>5, <3>1, <3>4, <4>1
      <4>3. modules[y] \in B
        BY <1>1, <2>1, <2>2, <4>2 DEF Block
      <4> QED BY <4>1, <4>3
    <3> QED BY <3>2, <3>3, <3>4
  <2>6. Cardinality(P) = Cardinality(B)
    <3> DEFINE f == [x \in B |-> pos(x)]
    <3>1. IsFiniteSet(B)
      BY <1>1, <2>1, FS_Subset, TreeAssumption
    <3>2. \A x, y \in B : pos(x) = pos(y) => x = y
      BY <1>3, <2>1
    <3>3. f \in Bijection(B, P)
      BY <3>2 DEF Bijection, Injection, Surjection, IsInjective
    <3>4. ExistsBijection(B, P)
      BY <3>3 DEF ExistsBijection
    <3> HIDE DEF P
    <3> QED BY <3>1, <3>4, FS_Bijection
  <2> HIDE DEF P
  <2>7. \A x \in P : pos(m) <= x
    BY <2>4 DEF P
  <2>8. \A x \in P : \A y \in pos(m) .. x : y \in P
    BY <2>5 DEF P
  <2>9. P = pos(m) .. pos(m) + Cardinality(P) - 1
    BY <1>2, <2>3, <2>7, <2>8, NoGaps
  <2> QED BY <2>6, <2>9 DEF P, B
<1>7. ASSUME NEW p \in Live, NEW i \in DOMAIN children[p], NEW j \in DOMAIN children[p],
             i < j
      PROVE  pos(children[p][i]) < pos(children[p][j])
  <2>1. Before(children[p], children[p][i], children[p][j])
    BY <1>7 DEF Before
  <2>2. Before(modules, children[p][i], children[p][j])
    BY <1>1, <2>1 DEF Nested, InChildOrder
  <2>3. children[p][i] \in Live /\ children[p][j] \in Live
    BY <1>1 DEF TreeInv, ChildListsAgree, ListedChildrenPointBack
  <2> QED BY <1>5, <2>2, <2>3
<1> QED BY <1>6, <1>7 DEF DepthFirst, pos

LEMMA NestedInvInit == Init => NestedInv
BY UiVectorInit DEF NestedInv, Nested, Init, Live

(* modules_ is in depth-first order as long as only the web UI sends       *)
(* requests: sort_depth_first_ runs after every change of a parent or of a *)
(* child list, add() puts a root without children at the end and remove()  *)
(* erases a whole block.                                                   *)
THEOREM VectorDepthFirst == UiSpec => []DepthFirst
BY NestedInvInit, NestedStep, NestedIsDepthFirst, PTL DEF UiSpec
=============================================================================
