---------------------------- MODULE DataPathProofs ----------------------------
(* Theorems about DataPath for any number of layouts, effects, readers,    *)
(* addresses and registry entries, any shapes and any revision width.      *)
EXTENDS DataPath, Integers, TLAPS

(* What the producers' half keeps.  The registry and the frame are right   *)
(* because effects that are gone leave nothing, because a parent is never  *)
(* a deleted layout and because a cached layout is deleted only as Freed,  *)
(* so that allocate_ always finds a size.                                  *)
ProducerTypeOK ==
  /\ shape \in [Layout -> Shape \cup {NoShape}]
  /\ eff \in [Effect -> EffectType]
  /\ heap \subseteq Addr
  /\ slot \in [Addr -> Nat]
  /\ word \in [Addr -> 0 .. Words - 1]
  /\ entry \in [Effect -> [buf : Addr \cup {Null}, dim : Size \cup {NoShape}]]

GoneAreBlank == \A e \in Effect : ~eff[e].live => eff[e] = NoEffect

LayoutsKnown ==
  \A e \in Effect : /\ eff[e].parent \in LiveLayouts \cup {NoLayout}
                    /\ eff[e].layout \in LiveLayouts \cup {NoLayout, Freed}

EntriesSized == \A e \in Effect : entry[e] # NoEntry => entry[e].dim \in Size

ProducerInv ==
  /\ ProducerTypeOK
  /\ GoneAreBlank
  /\ LayoutsKnown
  /\ EntriesSized
  /\ BuffersOwned
  /\ RegistryNamesLiveBuffers
  /\ FrameFits

(* The readers' half, and the shared words. *)
ReaderTypeOK ==
  /\ source \in [Reader -> Effect]
  /\ at \in [Reader -> Addr \cup {Null}]
  /\ seen \in [Reader -> 0 .. Words - 1]
  /\ frame \in [header : Size \cup {NoShape}, bytes : Nat]
  /\ sent \in [Addr -> [Reader -> Nat]]
  /\ crashed \in BOOLEAN

(* A frame that has been sent once is not fresh for its reader any more,   *)
(* also when the buffer has been freed, or freed and allocated again, at   *)
(* the address the reader still has.                                       *)
SentIsSeen ==
  \A r \in Reader :
    at[r] # Null /\ sent[at[r]][r] # 0 => word[at[r]] \in {kNone, kDead, seen[r]}

DataInv ==
  /\ ProducerInv
  /\ ReaderTypeOK
  /\ DeliversOnce
  /\ SentIsSeen

-----------------------------------------------------------------------------
(* The sizes effects take, and the memory for them. *)
LEMMA SizesTyped ==
  /\ Shape \subseteq Size /\ DefaultShape \in Size
  /\ \A s \in Size : /\ s[1] \in Nat /\ s[2] \in Nat /\ s[3] \in Nat
                    /\ FullBytes(s) \in Nat /\ Bytes(s) \in Nat /\ PreviewBytes(s) \in Nat
<1>1. Shape \subseteq Size /\ DefaultShape \in Size
  BY DataPathAssumption DEF Size
<1>2. ASSUME NEW s \in Size
      PROVE  /\ s[1] \in Nat /\ s[2] \in Nat /\ s[3] \in Nat
             /\ FullBytes(s) \in Nat /\ Bytes(s) \in Nat /\ PreviewBytes(s) \in Nat
  <2>1. s[1] \in Nat /\ s[2] \in Nat /\ s[3] \in Nat
    BY DataPathAssumption DEF Size, Flat
  <2> DEFINE n == s[1] * s[2] * s[3]
  <2>2. n \in Nat
    <3>1. \A i, j \in Nat : i * j \in Nat
      OBVIOUS
    <3> QED
      BY <2>1, <3>1
  <2> HIDE DEF n
  <2>3. \A i \in Nat, w \in Nat \ {0} : i % w \in Nat
    OBVIOUS
  <2>4. FullBytes(s) = 3 * n /\ 3 * n \in Nat
    BY <2>2 DEF FullBytes, n
  <2>5. PreviewBytes(s) \in Nat
    BY <2>3, <2>4, DataPathAssumption DEF PreviewBytes
  <2>6. n % UintWrap \in Nat
    BY <2>2, <2>3, DataPathAssumption
  <2>7. 3 * (n % UintWrap) \in Nat
    BY <2>6
  <2>8. Bytes(s) = (3 * (n % UintWrap)) % SizeWrap
    BY DEF Bytes, n
  <2>9. Bytes(s) \in Nat
    BY <2>3, <2>7, <2>8, DataPathAssumption
  <2> QED
    BY <2>1, <2>4, <2>5, <2>9
<1> QED
  BY <1>1, <1>2

(* What does not wrap is allocated in full. *)
LEMMA BytesInFull ==
  ASSUME NEW s \in Size, NoWrap(s)
  PROVE  Bytes(s) = FullBytes(s)
<1> DEFINE n == s[1] * s[2] * s[3]
<1>1. n \in Nat
  <2>1. \A i, j \in Nat : i * j \in Nat
    OBVIOUS
  <2> QED
    BY <2>1, SizesTyped
<1>2. n < UintWrap /\ 3 * n < SizeWrap /\ FullBytes(s) = 3 * n
      /\ Bytes(s) = (3 * (n % UintWrap)) % SizeWrap
  BY DEF NoWrap, FullBytes, Bytes
<1> HIDE DEF n
<1>3. \A w \in Nat \ {0} : \A i \in 0 .. w - 1 : i % w = i
  OBVIOUS
<1>4. n % UintWrap = n
  BY <1>1, <1>2, <1>3, DataPathAssumption
<1>5. (3 * n) % SizeWrap = 3 * n
  BY <1>1, <1>2, <1>3, DataPathAssumption
<1> QED
  BY <1>2, <1>4, <1>5

(* kNone and kDead are words, and counting stays among the words. *)
LEMMA WordsTyped ==
  /\ kNone \in 0 .. Words - 1 /\ kDead \in 0 .. Words - 1
  /\ \A w \in 0 .. Words - 1 : NextRevision(w) \in 0 .. Words - 1
BY DataPathAssumption DEF kNone, kDead, NextRevision

(* x is the effect e, new or not, with other references to layouts. *)
Rewired(e, x) ==
  /\ x \in EffectType /\ x.live = TRUE
  /\ x.parent \in LiveLayouts \cup {NoLayout}
  /\ x.layout \in LiveLayouts \cup {NoLayout, Freed}
  /\ x.size = eff[e].size /\ x.pixels = eff[e].pixels /\ x.buf = eff[e].buf

(* Resolving the layout changes nothing but the layout. *)
LEMMA ResolveRewires ==
  ASSUME ProducerTypeOK, NEW e \in Effect, NEW x, Rewired(e, x)
  PROVE  /\ Rewired(e, ResolveLayout(x))
         /\ ResolveLayout(x).layout \in LiveLayouts \cup {NoLayout}
         /\ ResolveLayout(x).parent = x.parent
<1> DEFINE l == IF x.parent # NoLayout THEN x.parent
                ELSE IF x.input \in LiveLayouts THEN x.input ELSE NoLayout
<1>1. l \in LiveLayouts \cup {NoLayout} /\ LiveLayouts \subseteq Layout
  BY DEF Rewired, LiveLayouts
<1>2. ResolveLayout(x) = [x EXCEPT !.layout = l]
  BY DEF ResolveLayout
<1> HIDE DEF l
<1> QED
  BY <1>1, <1>2 DEF Rewired, EffectType

(* Setting an input, or another parent that lives, as the requests do. *)
LEMMA RequestRewires ==
  ASSUME ProducerInv, NEW e \in Effect, eff[e].live, NEW l \in Layout
  PROVE  /\ Rewired(e, eff[e])
         /\ Rewired(e, [eff[e] EXCEPT !.input = l])
BY DEF ProducerInv, ProducerTypeOK, LayoutsKnown, Rewired, EffectType

(* A change of an effect's references, and of words, keeps the rest. *)
LEMMA RewiringKeeps ==
  ASSUME ProducerInv, NEW e \in Effect, eff[e].live, NEW x, Rewired(e, x),
         eff' = [eff EXCEPT ![e] = x],
         UNCHANGED <<shape, heap, slot, entry>>,
         word' \in [Addr -> 0 .. Words - 1]
  PROVE  ProducerInv'
<1>1. /\ ProducerTypeOK /\ GoneAreBlank /\ LayoutsKnown /\ EntriesSized
      /\ BuffersOwned /\ RegistryNamesLiveBuffers /\ FrameFits
  BY DEF ProducerInv
<1>2. /\ eff'[e] = x /\ \A d \in Effect : d # e => eff'[d] = eff[d]
      /\ LiveLayouts' = LiveLayouts /\ LiveEffects' = LiveEffects
  BY <1>1 DEF ProducerTypeOK, LiveLayouts, LiveEffects, Rewired
<1>3. \A d \in Effect : eff'[d].buf = eff[d].buf /\ eff'[d].live = eff[d].live
                        /\ eff'[d].size = eff[d].size /\ eff'[d].pixels = eff[d].pixels
  BY <1>2 DEF Rewired
<1>4. ProducerTypeOK'
  BY <1>1 DEF ProducerTypeOK, Rewired
<1>5. GoneAreBlank' /\ LayoutsKnown'
  BY <1>1, <1>2 DEF GoneAreBlank, LayoutsKnown, Rewired
<1>6. BuffersOwned'
  BY <1>1, <1>2, <1>3 DEF BuffersOwned, LiveEffects
<1>7. EntriesSized' /\ RegistryNamesLiveBuffers' /\ FrameFits'
  BY <1>1, <1>2, <1>3 DEF EntriesSized, RegistryNamesLiveBuffers, FrameFits, LiveEffects
<1> QED
  BY <1>4, <1>5, <1>6, <1>7 DEF ProducerInv

(* PixelsFail, where the pixels go and the rest of the effect stays. *)
LEMMA PixelsFailKeeps ==
  ASSUME ProducerInv, NEW e \in Effect, NEW x, Rewired(e, x),
         NEW s \in Size, PixelsFail(e, x, s), UNCHANGED shape
  PROVE  ProducerInv'
<1>1. /\ ProducerTypeOK /\ GoneAreBlank /\ LayoutsKnown /\ EntriesSized
      /\ BuffersOwned /\ RegistryNamesLiveBuffers /\ FrameFits
  BY DEF ProducerInv
<1> DEFINE y == [x EXCEPT !.size = s, !.pixels = 0]
<1>2. /\ y \in EffectType /\ y.live = TRUE /\ y.parent = x.parent /\ y.layout = x.layout
      /\ y.pixels = 0 /\ y.buf = eff[e].buf
  BY DEF Rewired, EffectType
<1>3. eff' = [eff EXCEPT ![e] = y] /\ UNCHANGED <<heap, slot, word, entry>>
  BY DEF PixelsFail, buffers
<1> HIDE DEF y
<1>4. /\ eff'[e] = y /\ \A d \in Effect : d # e => eff'[d] = eff[d]
      /\ LiveLayouts' = LiveLayouts /\ LiveEffects' = LiveEffects \cup {e}
  BY <1>1, <1>2, <1>3 DEF ProducerTypeOK, LiveLayouts, LiveEffects
<1>5. \A d \in Effect : eff'[d].buf = eff[d].buf
  BY <1>2, <1>4
<1>6. ~eff[e].live => eff[e].buf = Null
  BY <1>1 DEF GoneAreBlank, NoEffect
<1>7. ProducerTypeOK'
  BY <1>1, <1>2, <1>3 DEF ProducerTypeOK
<1>8. GoneAreBlank' /\ LayoutsKnown'
  BY <1>1, <1>2, <1>4 DEF GoneAreBlank, LayoutsKnown, Rewired
<1>9. BuffersOwned'
  BY <1>1, <1>3, <1>4, <1>5, <1>6 DEF BuffersOwned, LiveEffects
<1>10. EntriesSized' /\ RegistryNamesLiveBuffers'
  BY <1>1, <1>2, <1>3, <1>4, <1>5 DEF EntriesSized, RegistryNamesLiveBuffers
<1>11. FrameFits'
  BY <1>1, <1>2, <1>3, <1>4 DEF FrameFits, LiveEffects
<1> QED
  BY <1>7, <1>8, <1>9, <1>10, <1>11 DEF ProducerInv

(* declare writes the entry of its own id, or nothing at all. *)
LEMMA DeclareOwn ==
  ASSUME ProducerTypeOK, NEW e \in Effect, NEW b \in Addr, NEW s \in Size, Declare(e, b, s)
  PROVE  /\ entry' \in [Effect -> [buf : Addr \cup {Null}, dim : Size \cup {NoShape}]]
         /\ \A d \in Effect : d # e => entry'[d] = entry[d]
         /\ \/ entry'[e] = [buf |-> b, dim |-> s]
            \/ entry'[e] = NoEntry /\ entry[e] = NoEntry
<1> DEFINE known == {i \in Effect : entry[i] # NoEntry}
<1>1. entry' = IF e \in known \/ Cardinality(known) < MaxEntries
               THEN [entry EXCEPT ![e] = [buf |-> b, dim |-> s]] ELSE entry
  BY DEF Declare
<1>2. CASE e \in known \/ Cardinality(known) < MaxEntries
  <2>1. entry' = [entry EXCEPT ![e] = [buf |-> b, dim |-> s]]
    BY <1>1, <1>2
  <2> QED
    BY <2>1 DEF ProducerTypeOK
<1>3. CASE ~(e \in known \/ Cardinality(known) < MaxEntries)
  <2>1. entry' = entry /\ e \notin known
    BY <1>1, <1>3
  <2> QED
    BY <2>1 DEF ProducerTypeOK
<1> QED
  BY <1>2, <1>3

(* PixelsSucceed: the DataBuffer is the effect's own or a new one, and the *)
(* entry, if there is one, names it with the size of its slot.             *)
LEMMA PixelsSucceedKeeps ==
  ASSUME ProducerInv, NEW e \in Effect, NEW x, Rewired(e, x),
         NEW s \in Size, PixelsSucceed(e, x, s), UNCHANGED shape
  PROVE  ProducerInv'
<1>1. /\ ProducerTypeOK /\ GoneAreBlank /\ LayoutsKnown /\ EntriesSized
      /\ BuffersOwned /\ RegistryNamesLiveBuffers /\ FrameFits
  BY DEF ProducerInv
<1>2. PICK b \in IF x.buf = Null THEN Addr \ heap ELSE {x.buf} :
        /\ eff' = [eff EXCEPT ![e] = [x EXCEPT !.size = s, !.pixels = Bytes(s), !.buf = b]]
        /\ heap' = heap \cup {b}
        /\ word' = [word EXCEPT ![b] = kNone]
        /\ \/ /\ slot' = [slot EXCEPT ![b] = 0]
              /\ UNCHANGED entry
           \/ /\ slot' = [slot EXCEPT ![b] = Bytes(s)]
              /\ Declare(e, b, s)
  BY DEF PixelsSucceed
<1> DEFINE y == [x EXCEPT !.size = s, !.pixels = Bytes(s), !.buf = b]
           p == Bytes(s)
<1>3. p \in Nat
  BY SizesTyped
<1>4. b \in Addr /\ b # Null /\ (eff[e].buf # Null => b = eff[e].buf)
      /\ (eff[e].buf = Null => b \notin heap)
  BY <1>1, <1>2, DataPathAssumption DEF Rewired, EffectType
<1>5. /\ y \in EffectType /\ y.live = TRUE /\ y.parent = x.parent /\ y.layout = x.layout
      /\ y.size = s /\ y.pixels = p /\ y.buf = b
  BY <1>3, <1>4 DEF Rewired, EffectType
<1>6. eff' = [eff EXCEPT ![e] = y]
  BY <1>2
<1> HIDE DEF y, p
<1>7. /\ eff'[e] = y /\ \A d \in Effect : d # e => eff'[d] = eff[d]
      /\ LiveLayouts' = LiveLayouts /\ LiveEffects' = LiveEffects \cup {e}
  BY <1>1, <1>5, <1>6 DEF ProducerTypeOK, LiveLayouts, LiveEffects
<1>8. ~eff[e].live => eff[e].buf = Null
  BY <1>1 DEF GoneAreBlank, NoEffect
<1>9. \A d \in Effect : d # e /\ eff[d].live => eff[d].buf # b
  <2> SUFFICES ASSUME NEW d \in Effect, d # e, eff[d].live, eff[d].buf = b PROVE FALSE
    OBVIOUS
  <2>1. b \in heap
    BY <1>1, <1>4 DEF BuffersOwned, LiveEffects
  <2>2. eff[e].buf = b /\ eff[e].live
    BY <2>1, <1>4, <1>8
  <2> QED
    BY <2>2, <1>1, <1>4 DEF BuffersOwned, LiveEffects
<1>10. /\ slot' \in [Addr -> Nat]
       /\ slot'[b] \in {0, p}
       /\ \A c \in Addr : c # b => slot'[c] = slot[c]
  <2>1. PICK n \in {0, p} : slot' = [slot EXCEPT ![b] = n]
    BY <1>2 DEF p
  <2> QED
    BY <2>1, <1>1, <1>3, <1>4 DEF ProducerTypeOK
<1>11. /\ entry' \in [Effect -> [buf : Addr \cup {Null}, dim : Size \cup {NoShape}]]
       /\ \A d \in Effect : d # e => entry'[d] = entry[d]
       /\ \/ entry'[e] = [buf |-> b, dim |-> s]
          \/ entry'[e] = NoEntry
          \/ entry'[e] = entry[e] /\ slot'[b] = 0
  <2>1. CASE slot' = [slot EXCEPT ![b] = 0] /\ UNCHANGED entry
    BY <2>1, <1>1, <1>4 DEF ProducerTypeOK
  <2>2. CASE Declare(e, b, s)
    BY <2>2, <1>1, <1>4, DeclareOwn
  <2> QED
    BY <2>1, <2>2, <1>2
<1>12. ProducerTypeOK'
  <2>1. eff' \in [Effect -> EffectType] /\ heap' \subseteq Addr
    BY <1>1, <1>2, <1>4, <1>5, <1>6 DEF ProducerTypeOK
  <2>2. word' \in [Addr -> 0 .. Words - 1]
    BY <1>1, <1>2, <1>4, WordsTyped DEF ProducerTypeOK
  <2> QED
    BY <2>1, <2>2, <1>1, <1>10, <1>11 DEF ProducerTypeOK
<1>13. GoneAreBlank' /\ LayoutsKnown'
  BY <1>1, <1>5, <1>7 DEF GoneAreBlank, LayoutsKnown, Rewired
<1>14. BuffersOwned'
  <2>1. heap' = {eff'[d].buf : d \in LiveEffects'} \ {Null}
    <3>1. \A c \in heap' : \E d \in LiveEffects' : eff'[d].buf = c
      BY <1>1, <1>2, <1>4, <1>5, <1>7, <1>8 DEF BuffersOwned, LiveEffects
    <3>2. \A d \in LiveEffects' : eff'[d].buf \in heap' \cup {Null}
      BY <1>1, <1>2, <1>5, <1>7 DEF BuffersOwned
    <3>3. Null \notin heap'
      BY <1>1, <1>2, <1>4 DEF BuffersOwned
    <3> QED
      BY <3>1, <3>2, <3>3
  <2>2. \A c, d \in LiveEffects' : c # d /\ eff'[c].buf = eff'[d].buf => eff'[c].buf = Null
    BY <1>1, <1>5, <1>7, <1>9 DEF BuffersOwned, LiveEffects
  <2> QED
    BY <2>1, <2>2 DEF BuffersOwned
<1>15. EntriesSized'
  BY <1>1, <1>11 DEF EntriesSized
<1>16. RegistryNamesLiveBuffers'
  <2> SUFFICES ASSUME NEW d \in Effect, entry'[d] # NoEntry
               PROVE  /\ eff'[d].live /\ entry'[d].buf = eff'[d].buf
                      /\ entry'[d].buf \in heap'
                      /\ slot'[entry'[d].buf] \in {0, Bytes(entry'[d].dim)}
    BY DEF RegistryNamesLiveBuffers
  <2>1. CASE d # e
    <3>1. /\ entry'[d] = entry[d] /\ eff'[d] = eff[d]
          /\ eff[d].live /\ entry[d].buf = eff[d].buf /\ entry[d].buf \in heap
          /\ slot[entry[d].buf] \in {0, Bytes(entry[d].dim)}
      BY <2>1, <1>1, <1>7, <1>11 DEF RegistryNamesLiveBuffers
    <3>2. slot'[entry[d].buf] = slot[entry[d].buf]
      BY <2>1, <3>1, <1>1, <1>9, <1>10 DEF ProducerTypeOK
    <3> QED
      BY <3>1, <3>2, <1>2
  <2>2. CASE d = e /\ entry'[e] = [buf |-> b, dim |-> s]
    <3>1. entry'[d].buf = b /\ entry'[d].dim = s /\ b \in heap'
      BY <2>2, <1>2
    <3>2. eff'[d].live /\ eff'[d].buf = b /\ slot'[b] \in {0, Bytes(s)}
      BY <2>2, <1>5, <1>7, <1>10 DEF p
    <3> QED
      BY <3>1, <3>2
  <2>3. CASE d = e /\ entry'[e] = entry[e] /\ slot'[b] = 0
    <3>1. entry[e].buf = eff[e].buf /\ entry[e].buf \in heap
      BY <2>3, <1>1 DEF RegistryNamesLiveBuffers
    <3>2. entry[e].buf = b
      BY <3>1, <1>1, <1>4 DEF BuffersOwned
    <3> QED
      BY <2>3, <3>2, <1>2, <1>5, <1>7
  <2> QED
    BY <2>1, <2>2, <2>3, <1>11
<1>17. FrameFits'
  <2> SUFFICES ASSUME NEW d \in LiveEffects', eff'[d].pixels # 0
               PROVE  /\ eff'[d].pixels = Bytes(eff'[d].size)
                      /\ eff'[d].buf # Null => slot'[eff'[d].buf] \in {0, Bytes(eff'[d].size)}
                      /\ NoWrap(eff'[d].size) => FullBytes(eff'[d].size) <= eff'[d].pixels
    BY DEF FrameFits
  <2>1. CASE d = e
    BY <2>1, <1>5, <1>7, <1>10, SizesTyped, BytesInFull DEF p
  <2>2. CASE d # e
    <3>1. d \in LiveEffects /\ eff'[d] = eff[d] /\ eff[d].buf # b
      BY <2>2, <1>7, <1>9 DEF LiveEffects
    <3>2. eff[d].buf # Null => slot'[eff[d].buf] = slot[eff[d].buf]
      BY <3>1, <1>1, <1>10 DEF ProducerTypeOK, LiveEffects, EffectType
    <3> QED
      BY <3>1, <3>2, <1>1 DEF FrameFits
  <2> QED
    BY <2>1, <2>2
<1> QED
  BY <1>12, <1>13, <1>14, <1>15, <1>16, <1>17 DEF ProducerInv

(* allocate_, whenever its layout is there or it has none. *)
LEMMA AllocateKeeps ==
  ASSUME ProducerInv, NEW e \in Effect, NEW x, Rewired(e, x), x.layout # Freed,
         Allocate(e, x), UNCHANGED shape
  PROVE  ProducerInv'
<1> DEFINE s == Geometry(e, x.layout)
<1>1. s \in Size
  <2>1. x.layout \in LiveLayouts \cup {NoLayout}
    BY DEF Rewired
  <2>2. CASE x.layout = NoLayout
    BY <2>2, SizesTyped DEF Geometry
  <2>3. CASE x.layout # NoLayout
    <3>1. shape[x.layout] \in Shape
      BY <2>1, <2>3 DEF LiveLayouts, ProducerInv, ProducerTypeOK
    <3>2. shape[x.layout] \in Size /\ Flat(shape[x.layout]) \in Size
      BY <3>1 DEF Size
    <3> QED
      BY <2>3, <3>2 DEF Geometry
  <2> QED
    BY <2>2, <2>3
<1>2. CASE NothingToDo(x, s) /\ eff' = [eff EXCEPT ![e] = x] /\ UNCHANGED <<buffers, entry>>
  <2>1. eff[e].live
    BY <1>2, DataPathAssumption
       DEF NothingToDo, Rewired, ProducerInv, GoneAreBlank, NoEffect
  <2>2. UNCHANGED <<heap, slot, entry>> /\ word' \in [Addr -> 0 .. Words - 1]
    BY <1>2 DEF buffers, ProducerInv, ProducerTypeOK
  <2> QED
    BY <1>2, <2>1, <2>2, RewiringKeeps
<1>3. CASE PixelsFail(e, x, s)
  BY <1>1, <1>3, PixelsFailKeeps
<1>4. CASE PixelsSucceed(e, x, s)
  BY <1>1, <1>4, PixelsSucceedKeeps
<1> QED
  BY <1>2, <1>3, <1>4 DEF Allocate

(* teardown of some effects, whatever becomes of the others' layouts.  An  *)
(* entry is dropped by its pointer, and it is one of the effect's own.     *)
LEMMA TeardownKeeps ==
  ASSUME ProducerInv, NEW dead \in SUBSET LiveEffects, Teardown(dead),
         shape' \in [Layout -> Shape \cup {NoShape}],
         eff' \in [Effect -> EffectType], LayoutsKnown',
         \A e \in dead : eff'[e] = NoEffect,
         \A e \in Effect \ dead :
           /\ eff'[e].live = eff[e].live /\ eff'[e].buf = eff[e].buf
           /\ eff'[e].size = eff[e].size /\ eff'[e].pixels = eff[e].pixels
           /\ ~eff[e].live => eff'[e] = eff[e]
  PROVE  ProducerInv'
<1>1. /\ ProducerTypeOK /\ GoneAreBlank /\ LayoutsKnown /\ EntriesSized
      /\ BuffersOwned /\ RegistryNamesLiveBuffers /\ FrameFits
  BY DEF ProducerInv
<1> DEFINE bufs == {eff[e].buf : e \in dead}
<1>2. /\ entry' = [e \in Effect |-> IF entry[e].buf \in bufs THEN NoEntry ELSE entry[e]]
      /\ heap' = heap \ bufs
      /\ slot' = [b \in Addr |-> IF b \in bufs THEN 0 ELSE slot[b]]
      /\ word' = [b \in Addr |-> IF b \in bufs THEN kNone ELSE word[b]]
  BY DEF Teardown
<1>3. \A e \in LiveEffects \ dead : eff[e].buf \in bufs => eff[e].buf = Null
  BY <1>1 DEF BuffersOwned
<1>4. \A e \in dead : eff[e].buf \in bufs
  OBVIOUS
<1> HIDE DEF bufs
<1>5. dead \subseteq Effect /\ LiveEffects' = LiveEffects \ dead
  <2>1. ~NoEffect.live
    BY DEF NoEffect
  <2> QED
    BY <2>1 DEF LiveEffects
<1>6. ProducerTypeOK'
  <2>1. entry' \in [Effect -> [buf : Addr \cup {Null}, dim : Size \cup {NoShape}]]
    BY <1>1, <1>2 DEF ProducerTypeOK, NoEntry
  <2>2. slot' \in [Addr -> Nat] /\ heap' \subseteq Addr
    BY <1>1, <1>2 DEF ProducerTypeOK
  <2>3. word' \in [Addr -> 0 .. Words - 1]
    BY <1>1, <1>2, WordsTyped DEF ProducerTypeOK
  <2> QED
    BY <2>1, <2>2, <2>3 DEF ProducerTypeOK
<1>7. GoneAreBlank' /\ EntriesSized'
  BY <1>1, <1>2 DEF GoneAreBlank, EntriesSized
<1>8. BuffersOwned'
  <2>1. heap' = {eff'[e].buf : e \in LiveEffects'} \ {Null}
    <3>1. \A c \in heap' : \E e \in LiveEffects' : eff'[e].buf = c
      BY <1>1, <1>2, <1>4, <1>5 DEF BuffersOwned, LiveEffects
    <3>2. \A e \in LiveEffects' : eff'[e].buf \in heap' \cup {Null}
      BY <1>1, <1>2, <1>3, <1>5 DEF BuffersOwned, LiveEffects
    <3>3. Null \notin heap'
      BY <1>1, <1>2 DEF BuffersOwned
    <3> QED
      BY <3>1, <3>2, <3>3
  <2>2. \A c, d \in LiveEffects' : c # d /\ eff'[c].buf = eff'[d].buf => eff'[c].buf = Null
    BY <1>1, <1>5 DEF BuffersOwned, LiveEffects
  <2> QED
    BY <2>1, <2>2 DEF BuffersOwned
<1>9. RegistryNamesLiveBuffers'
  <2> SUFFICES ASSUME NEW e \in Effect, entry'[e] # NoEntry
               PROVE  /\ eff'[e].live /\ entry'[e].buf = eff'[e].buf
                      /\ entry'[e].buf \in heap'
                      /\ slot'[entry'[e].buf] \in {0, Bytes(entry'[e].dim)}
    BY DEF RegistryNamesLiveBuffers
  <2>1. entry'[e] = entry[e] /\ entry[e].buf \notin bufs
    BY <1>2
  <2>2. /\ eff[e].live /\ entry[e].buf = eff[e].buf /\ entry[e].buf \in heap
        /\ slot[entry[e].buf] \in {0, Bytes(entry[e].dim)}
    BY <2>1, <1>1 DEF RegistryNamesLiveBuffers
  <2>3. e \notin dead
    BY <2>1, <2>2, <1>4
  <2>4. slot'[entry[e].buf] = slot[entry[e].buf]
    BY <2>1, <2>2, <1>1, <1>2 DEF ProducerTypeOK
  <2> QED
    BY <2>1, <2>2, <2>3, <2>4, <1>2
<1>10. FrameFits'
  <2> SUFFICES ASSUME NEW e \in LiveEffects', eff'[e].pixels # 0
               PROVE  /\ eff'[e].pixels = Bytes(eff'[e].size)
                      /\ eff'[e].buf # Null => slot'[eff'[e].buf] \in {0, Bytes(eff'[e].size)}
                      /\ NoWrap(eff'[e].size) => FullBytes(eff'[e].size) <= eff'[e].pixels
    BY DEF FrameFits
  <2>1. /\ e \in Effect \ dead /\ e \in LiveEffects
        /\ eff'[e].buf = eff[e].buf /\ eff'[e].size = eff[e].size
        /\ eff'[e].pixels = eff[e].pixels
    BY <1>5 DEF LiveEffects
  <2>2. eff[e].buf # Null => eff[e].buf \in Addr
    BY <2>1, <1>1 DEF ProducerTypeOK, EffectType
  <2>3. eff[e].buf # Null => slot'[eff[e].buf] = slot[eff[e].buf]
    BY <2>1, <2>2, <1>2, <1>3
  <2> QED
    BY <2>1, <2>3, <1>1 DEF FrameFits
<1> QED
  BY <1>6, <1>7, <1>1, <1>8, <1>9, <1>10 DEF ProducerInv

LEMMA NoEffectTyped == NoEffect \in EffectType
BY DataPathAssumption, SizesTyped DEF NoEffect, EffectType

(* Requests about layouts. *)
LEMMA LayoutRequestKeeps ==
  ASSUME ProducerInv, LayoutRequest
  PROVE  ProducerInv'
<1>1. PICK l \in Layout, s \in Shape : SetShape(l, s)
  BY DEF LayoutRequest
<1>2. /\ shape' = [shape EXCEPT ![l] = s]
      /\ UNCHANGED <<eff, heap, slot, word, entry>>
  BY <1>1 DEF SetShape, buffers
<1>3. LiveLayouts \subseteq LiveLayouts'
  BY <1>2, DataPathAssumption DEF LiveLayouts, ProducerInv, ProducerTypeOK
<1>4. ProducerTypeOK' /\ LayoutsKnown'
  BY <1>2, <1>3 DEF ProducerInv, ProducerTypeOK, LayoutsKnown
<1>5. /\ GoneAreBlank' /\ EntriesSized' /\ BuffersOwned'
      /\ RegistryNamesLiveBuffers' /\ FrameFits'
  BY <1>2 DEF ProducerInv, GoneAreBlank, EntriesSized, BuffersOwned,
              RegistryNamesLiveBuffers, FrameFits, LiveEffects
<1> QED
  BY <1>4, <1>5 DEF ProducerInv

(* A layout goes, and with it its effects: their buffers go as well.       *)
LEMMA RemoveLayoutKeeps ==
  ASSUME ProducerInv, NEW l \in Layout, RemoveLayout(l)
  PROVE  ProducerInv'
<1> DEFINE nested == {e \in LiveEffects : eff[e].parent = l}
<1>1. /\ shape' = [shape EXCEPT ![l] = NoShape]
      /\ eff' = [e \in Effect |->
                   IF e \in nested THEN NoEffect
                   ELSE IF eff[e].layout = l THEN [eff[e] EXCEPT !.layout = Freed]
                   ELSE eff[e]]
      /\ Teardown(nested)
  BY DEF RemoveLayout
<1>2. ProducerTypeOK /\ GoneAreBlank /\ LayoutsKnown
  BY DEF ProducerInv
<1>3. \A e \in Effect : eff[e].parent = l => e \in nested
  BY <1>2, DataPathAssumption DEF GoneAreBlank, NoEffect, LiveEffects
<1>4. nested \in SUBSET LiveEffects
  OBVIOUS
<1> HIDE DEF nested
<1>5. eff' \in [Effect -> EffectType]
  BY <1>1, <1>2, NoEffectTyped DEF ProducerTypeOK, EffectType
<1>6. LayoutsKnown'
  <2>1. LiveLayouts' = LiveLayouts \ {l}
    BY <1>1, <1>2 DEF LiveLayouts, ProducerTypeOK
  <2>2. \A e \in Effect : /\ eff'[e].parent \in LiveLayouts' \cup {NoLayout}
                          /\ eff'[e].layout \in LiveLayouts' \cup {NoLayout, Freed}
    <3> SUFFICES ASSUME NEW e \in Effect
                 PROVE  /\ eff'[e].parent \in LiveLayouts' \cup {NoLayout}
                        /\ eff'[e].layout \in LiveLayouts' \cup {NoLayout, Freed}
      OBVIOUS
    <3>1. CASE e \in nested
      BY <3>1, <1>1 DEF NoEffect
    <3>2. CASE e \notin nested /\ eff[e].layout = l
      <4>1. eff'[e].parent = eff[e].parent /\ eff'[e].layout = Freed
        BY <3>2, <1>1, <1>2 DEF ProducerTypeOK, EffectType
      <4> QED
        BY <4>1, <3>2, <2>1, <1>2, <1>3 DEF LayoutsKnown
    <3>3. CASE e \notin nested /\ eff[e].layout # l
      BY <3>3, <2>1, <1>1, <1>2, <1>3 DEF LayoutsKnown
    <3> QED
      BY <3>1, <3>2, <3>3
  <2> QED
    BY <2>2 DEF LayoutsKnown
<1>7. \A e \in Effect \ nested :
        /\ eff'[e].live = eff[e].live /\ eff'[e].buf = eff[e].buf
        /\ eff'[e].size = eff[e].size /\ eff'[e].pixels = eff[e].pixels
        /\ ~eff[e].live => eff'[e] = eff[e]
  <2> SUFFICES ASSUME NEW e \in Effect \ nested
               PROVE  /\ eff'[e].live = eff[e].live /\ eff'[e].buf = eff[e].buf
                      /\ eff'[e].size = eff[e].size /\ eff'[e].pixels = eff[e].pixels
                      /\ ~eff[e].live => eff'[e] = eff[e]
    OBVIOUS
  <2>1. CASE eff[e].layout = l
    <3>1. eff[e].live
      BY <2>1, <1>2, DataPathAssumption DEF GoneAreBlank, NoEffect
    <3> QED
      BY <2>1, <3>1, <1>1, <1>2 DEF ProducerTypeOK, EffectType
  <2>2. CASE eff[e].layout # l
    BY <2>2, <1>1
  <2> QED
    BY <2>1, <2>2
<1>8. \A e \in nested : eff'[e] = NoEffect
  BY <1>1, <1>4 DEF LiveEffects
<1>9. shape' \in [Layout -> Shape \cup {NoShape}]
  BY <1>1, <1>2 DEF ProducerTypeOK
<1> QED
  BY <1>1, <1>4, <1>5, <1>6, <1>7, <1>8, <1>9, TeardownKeeps

(* Requests about effects. *)
LEMMA EffectRequestKeeps ==
  ASSUME ProducerInv, EffectRequest
  PROVE  ProducerInv'
<1>1. ProducerTypeOK /\ GoneAreBlank
  BY DEF ProducerInv
<1>2. ASSUME NEW e \in Effect, AddEffect(e) PROVE ProducerInv'
  <2> DEFINE x == [NoEffect EXCEPT !.live = TRUE]
  <2>1. eff[e] = NoEffect
    BY <1>1, <1>2 DEF AddEffect, LiveEffects, GoneAreBlank
  <2>2. Rewired(e, x)
    BY <2>1, NoEffectTyped DEF Rewired, EffectType, NoEffect
  <2>3. Rewired(e, ResolveLayout(x)) /\ ResolveLayout(x).layout \in LiveLayouts \cup {NoLayout}
    BY <2>2, <1>1, ResolveRewires
  <2>4. ResolveLayout(x).layout # Freed
    BY <2>3, DataPathAssumption DEF LiveLayouts
  <2>5. Allocate(e, ResolveLayout(x)) /\ UNCHANGED shape
    BY <1>2 DEF AddEffect
  <2> QED
    BY <2>3, <2>4, <2>5, AllocateKeeps
<1>3. ASSUME NEW e \in Effect, PromoteEffect(e) PROVE ProducerInv'
  <2> DEFINE x == [eff[e] EXCEPT !.parent = NoLayout]
  <2>1. eff[e].live
    BY <1>3 DEF PromoteEffect, LiveEffects
  <2>2. Rewired(e, eff[e])
    BY <2>1, DataPathAssumption, RequestRewires
  <2>3. Rewired(e, x)
    BY <2>2, DataPathAssumption DEF Rewired, EffectType
  <2>4. eff' = [eff EXCEPT ![e] = x] /\ UNCHANGED <<shape, heap, slot, word, entry>>
    BY <1>3, <1>1 DEF PromoteEffect, ProducerTypeOK, buffers
  <2> QED
    BY <2>1, <2>3, <2>4, <1>1, RewiringKeeps DEF ProducerTypeOK
<1>4. ASSUME NEW e \in Effect, NEW l \in Layout, SetLayoutInput(e, l) PROVE ProducerInv'
  <2> DEFINE x == [eff[e] EXCEPT !.input = l]
  <2>1. Rewired(e, x)
    BY <1>4, RequestRewires DEF SetLayoutInput, LiveEffects
  <2>2. Rewired(e, ResolveLayout(x)) /\ ResolveLayout(x).layout \in LiveLayouts \cup {NoLayout}
    BY <2>1, <1>1, ResolveRewires
  <2>3. ResolveLayout(x).layout # Freed
    BY <2>2, DataPathAssumption DEF LiveLayouts
  <2>4. Allocate(e, ResolveLayout(x)) /\ UNCHANGED shape
    BY <1>4 DEF SetLayoutInput
  <2> QED
    BY <2>2, <2>3, <2>4, AllocateKeeps
<1>5. ASSUME NEW e \in Effect, NEW l \in Layout, NestEffect(e, l) PROVE ProducerInv'
  <2> DEFINE x == ResolveLayout([eff[e] EXCEPT !.input = l])
             y == [x EXCEPT !.parent = l]
  <2>1. Rewired(e, [eff[e] EXCEPT !.input = l])
    BY <1>5, RequestRewires DEF NestEffect, LiveEffects
  <2>2. Rewired(e, x) /\ x.layout \in LiveLayouts \cup {NoLayout}
    BY <2>1, <1>1, ResolveRewires
  <2>3. Allocate(e, y) /\ UNCHANGED shape /\ l \in LiveLayouts
    BY <1>5 DEF NestEffect
  <2> HIDE DEF x
  <2>4. Rewired(e, y) /\ y.layout # Freed
    BY <2>2, <2>3, DataPathAssumption DEF Rewired, EffectType, LiveLayouts
  <2> QED
    BY <2>3, <2>4, AllocateKeeps
<1> QED
  BY <1>2, <1>3, <1>4, <1>5 DEF EffectRequest

LEMMA DeleteRequestKeeps ==
  ASSUME ProducerInv, DeleteRequest
  PROVE  ProducerInv'
<1>1. ASSUME NEW e \in Effect, RemoveEffect(e) PROVE ProducerInv'
  <2>1. /\ e \in LiveEffects /\ eff' = [eff EXCEPT ![e] = NoEffect]
        /\ Teardown({e}) /\ UNCHANGED shape
    BY <1>1 DEF RemoveEffect
  <2>2. ProducerTypeOK /\ LayoutsKnown
    BY DEF ProducerInv
  <2>3. \A d \in Effect : eff'[d] = IF d = e THEN NoEffect ELSE eff[d]
    BY <2>1, <2>2 DEF ProducerTypeOK
  <2>4. eff' \in [Effect -> EffectType]
    BY <2>1, <2>2, NoEffectTyped DEF ProducerTypeOK
  <2>5. LayoutsKnown'
    BY <2>1, <2>2, <2>3 DEF LayoutsKnown, LiveLayouts, NoEffect
  <2>6. {e} \in SUBSET LiveEffects
    BY <2>1
  <2>7. /\ \A d \in {e} : eff'[d] = NoEffect
        /\ \A d \in Effect \ {e} : eff'[d] = eff[d]
    BY <2>3
  <2>8. shape' \in [Layout -> Shape \cup {NoShape}]
    BY <2>1, <2>2 DEF ProducerTypeOK
  <2> QED
    BY <2>1, <2>4, <2>5, <2>6, <2>7, <2>8, TeardownKeeps
<1> QED
  BY <1>1, RemoveLayoutKeeps DEF DeleteRequest

(* Ticks of effects. *)
LEMMA EffectTickKeeps ==
  ASSUME ProducerInv, EffectTick
  PROVE  ProducerInv'
<1>1. ProducerTypeOK
  BY DEF ProducerInv
<1> DEFINE X(e) == IF eff[e].layout = NoLayout THEN ResolveLayout(eff[e]) ELSE eff[e]
<1>2. ASSUME NEW e \in Effect, eff[e].live PROVE Rewired(e, X(e))
  <2>1. Rewired(e, eff[e])
    BY <1>2, DataPathAssumption, RequestRewires
  <2>2. Rewired(e, ResolveLayout(eff[e]))
    BY <2>1, <1>1, ResolveRewires
  <2> QED
    BY <2>1, <2>2
<1>3. ASSUME NEW e \in Effect, EffectSlow(e) PROVE ProducerInv'
  <2>1. eff[e].live /\ UNCHANGED shape
    BY <1>3 DEF EffectSlow, LiveEffects
  <2>2. CASE UNCHANGED <<eff, buffers, entry>>
    BY <2>1, <2>2 DEF buffers, ProducerInv, ProducerTypeOK, GoneAreBlank, LayoutsKnown,
       EntriesSized, BuffersOwned, RegistryNamesLiveBuffers, FrameFits, LiveLayouts, LiveEffects
  <2>3. CASE X(e).layout \in LiveLayouts /\ Allocate(e, X(e))
    <3>1. X(e).layout # Freed
      BY <2>3, DataPathAssumption DEF LiveLayouts
    <3> QED
      BY <2>1, <2>3, <3>1, <1>2, AllocateKeeps
  <2>4. CASE eff' = [eff EXCEPT ![e] = X(e)] /\ UNCHANGED <<buffers, entry>>
    BY <2>1, <2>4, <1>1, <1>2, RewiringKeeps DEF buffers, ProducerTypeOK
  <2> QED
    BY <1>3, <2>2, <2>3, <2>4 DEF EffectSlow
<1>4. ASSUME NEW e \in Effect, EffectFrame(e) PROVE ProducerInv'
  <2>1. /\ eff[e].live /\ eff' = [eff EXCEPT ![e] = X(e)]
        /\ UNCHANGED <<shape, heap, slot, entry>>
    BY <1>4 DEF EffectFrame, LiveEffects
  <2>2. word' \in [Addr -> 0 .. Words - 1]
    <3>1. \/ UNCHANGED word
          \/ \E b : word' = [word EXCEPT ![b] = NextRevision(@)]
      BY <1>4 DEF EffectFrame
    <3> QED
      BY <3>1, <1>1, WordsTyped DEF ProducerTypeOK
  <2> QED
    BY <2>1, <2>2, <1>2, RewiringKeeps
<1> QED
  BY <1>3, <1>4 DEF EffectTick

(* Readers write nothing the producers have. *)
LEMMA UnchangedProducersKeep ==
  ASSUME ProducerInv, UNCHANGED <<shape, eff, heap, slot, word, entry>>
  PROVE  ProducerInv'
BY DEF ProducerInv, ProducerTypeOK, GoneAreBlank, LayoutsKnown, EntriesSized, BuffersOwned,
       RegistryNamesLiveBuffers, FrameFits, LiveLayouts, LiveEffects

(* Readers write nothing that belongs to effects, layouts or the registry. *)
LEMMA ReaderStepsKeepProducers ==
  ASSUME ReaderTick \/ ReaderRequest \/ UNCHANGED vars
  PROVE  UNCHANGED <<shape, eff, heap, slot, word, entry>>
BY DEF ReaderTick, ReaderRequest, PreviewSlow, ReaderFrame, SetSource, vars

LEMMA ProducerInit == Init => ProducerInv
<1> SUFFICES ASSUME Init PROVE ProducerInv
  OBVIOUS
<1>1. /\ LiveEffects = {} /\ LiveLayouts = {} /\ heap = {}
      /\ \A e \in Effect : eff[e] = NoEffect /\ entry[e] = NoEntry
  BY DEF Init, LiveEffects, LiveLayouts, NoEffect
<1>2. ProducerTypeOK
  <2>1. /\ shape \in [Layout -> Shape \cup {NoShape}]
        /\ eff \in [Effect -> EffectType] /\ heap \subseteq Addr
    BY NoEffectTyped DEF Init
  <2>2. slot \in [Addr -> Nat] /\ word \in [Addr -> 0 .. Words - 1]
    BY WordsTyped DEF Init
  <2>3. entry \in [Effect -> [buf : Addr \cup {Null}, dim : Size \cup {NoShape}]]
    BY DEF Init, NoEntry
  <2> QED
    BY <2>1, <2>2, <2>3 DEF ProducerTypeOK
<1>3. GoneAreBlank /\ LayoutsKnown
  <2>1. NoEffect.parent = NoLayout /\ NoEffect.layout = NoLayout
    BY DEF NoEffect
  <2> QED
    BY <1>1, <2>1 DEF GoneAreBlank, LayoutsKnown
<1>5. EntriesSized /\ RegistryNamesLiveBuffers
  BY <1>1 DEF EntriesSized, RegistryNamesLiveBuffers
<1>4. BuffersOwned /\ FrameFits
  BY <1>1 DEF BuffersOwned, FrameFits
<1> QED
  BY <1>2, <1>3, <1>4, <1>5 DEF ProducerInv

LEMMA ProducerStep == ProducerInv /\ [Next]_vars => ProducerInv'
<1> SUFFICES ASSUME ProducerInv, [Next]_vars PROVE ProducerInv'
  OBVIOUS
<1>1. \/ EffectTick \/ LayoutRequest \/ EffectRequest \/ DeleteRequest
      \/ ReaderTick \/ ReaderRequest \/ UNCHANGED vars
  BY DEF Next, Tick, KeepRequest
<1> QED
  BY <1>1, EffectTickKeeps, LayoutRequestKeeps, EffectRequestKeeps, DeleteRequestKeeps,
     ReaderStepsKeepProducers, UnchangedProducersKeep

LEMMA ProducersCorrect == Spec => []ProducerInv
BY ProducerInit, ProducerStep, PTL DEF Spec

(* What happens without deletions happens with them. *)
LEMMA KeepIsSpec == KeepSpec => Spec
<1>1. [Tick \/ KeepRequest]_vars => [Next]_vars
  BY DEF Next
<1> QED
  BY <1>1, PTL DEF KeepSpec, Spec

(* A DataBuffer belongs to one live effect: deletions leak none, free none *)
(* under its producer and share none, whatever memory runs out.            *)
THEOREM BuffersHaveOneOwner == Spec => []BuffersOwned
<1>1. ProducerInv => BuffersOwned
  BY DEF ProducerInv
<1> QED
  BY <1>1, ProducersCorrect, PTL

(* DataRegistry never names a freed buffer, another effect's, or one whose *)
(* slot has a size the entry does not say.                                 *)
THEOREM RegistryCorrect == Spec => []RegistryNamesLiveBuffers
<1>1. ProducerInv => RegistryNamesLiveBuffers
  BY DEF ProducerInv
<1> QED
  BY <1>1, ProducersCorrect, PTL

(* The memcpy of loop20ms stays within pixels_ and the slot after any      *)
(* sequence of resizes, wraps and failed allocations, and render_ within   *)
(* pixels_ for each size whose arithmetic does not wrap.                   *)
THEOREM FramesFit == Spec => []FrameFits
<1>1. ProducerInv => FrameFits
  BY DEF ProducerInv
<1> QED
  BY <1>1, ProducersCorrect, PTL

-----------------------------------------------------------------------------
(* The readers. *)

(* An entry that is there has a buffer with a word, and a size. *)
LEMMA EntriesTyped ==
  ASSUME ProducerInv, NEW e \in Effect, entry[e] # NoEntry
  PROVE  /\ entry[e].buf \in Addr /\ entry[e].buf # Null
         /\ entry[e].dim \in Size /\ PreviewBytes(entry[e].dim) \in Nat
         /\ word[entry[e].buf] \in 0 .. Words - 1
<1>1. entry[e].buf \in heap /\ heap \subseteq Addr /\ entry[e].dim \in Size
  BY DEF ProducerInv, ProducerTypeOK, RegistryNamesLiveBuffers, EntriesSized
<1> QED
  BY <1>1, SizesTyped, DataPathAssumption DEF ProducerInv, ProducerTypeOK

(* What resolve_buf_ leaves: no buffer, or the entry's with a new count of *)
(* what has been sent, and its word taken when the frame was.              *)
LEMMA ResolveBufOutcome ==
  ASSUME ProducerInv, ReaderTypeOK, NEW r \in Reader, NEW e \in Effect, NEW sends \in BOOLEAN,
         ResolveBuf(r, e, sends)
  PROVE  /\ \A q \in Reader : q # r => at'[q] = at[q] /\ seen'[q] = seen[q]
         /\ \/ at'[r] = Null /\ UNCHANGED <<seen, sent>>
            \/ /\ entry[e] # NoEntry /\ at'[r] = entry[e].buf
               /\ sent' = [sent EXCEPT ![at'[r]][r] = IF sends THEN 1 ELSE 0]
               /\ sends => seen'[r] = word[at'[r]]
         /\ at' \in [Reader -> Addr \cup {Null}]
         /\ seen' \in [Reader -> 0 .. Words - 1]
         /\ frame' \in [header : Size \cup {NoShape}, bytes : Nat]
<1> DEFINE b == entry[e].buf
<1>1. CASE at' = [at EXCEPT ![r] = Null] /\ UNCHANGED <<seen, sent>>
           /\ (UNCHANGED frame \/ frame' = [frame EXCEPT !.bytes = 0])
  BY <1>1 DEF ReaderTypeOK
<1>2. CASE entry[e] # NoEntry /\ Attach(r, b, sends)
           /\ (UNCHANGED frame \/ frame' = [header |-> entry[e].dim, bytes |-> PreviewBytes(entry[e].dim)])
  <2>1. /\ b \in Addr /\ entry[e].dim \in Size /\ PreviewBytes(entry[e].dim) \in Nat
        /\ word[b] \in 0 .. Words - 1
    BY <1>2, EntriesTyped
  <2> HIDE DEF b
  <2>2. /\ at' = [at EXCEPT ![r] = b]
        /\ seen' = [seen EXCEPT ![r] = IF sends THEN word[b] ELSE kNone]
        /\ sent' = [sent EXCEPT ![b][r] = IF sends THEN 1 ELSE 0]
    BY <1>2 DEF Attach
  <2>3. (IF sends THEN word[b] ELSE kNone) \in 0 .. Words - 1
    BY <2>1, WordsTyped
  <2>4. frame' \in [header : Size \cup {NoShape}, bytes : Nat]
    BY <1>2, <2>1 DEF ReaderTypeOK
  <2>5. /\ at' \in [Reader -> Addr \cup {Null}] /\ seen' \in [Reader -> 0 .. Words - 1]
        /\ at'[r] = b /\ (sends => seen'[r] = word[b])
        /\ \A q \in Reader : q # r => at'[q] = at[q] /\ seen'[q] = seen[q]
    BY <2>1, <2>2, <2>3 DEF ReaderTypeOK
  <2> QED
    BY <1>2, <2>2, <2>4, <2>5 DEF b
<1> QED
  BY <1>1, <1>2 DEF ResolveBuf

(* A tick that resolves, and a new source. *)
LEMMA ResolveBufKeeps ==
  ASSUME DataInv, NEW r \in Reader, NEW e \in Effect, NEW sends \in BOOLEAN,
         ResolveBuf(r, e, sends), UNCHANGED <<word, crashed>>,
         source' \in [Reader -> Effect]
  PROVE  ReaderTypeOK' /\ DeliversOnce' /\ SentIsSeen'
<1>1. ProducerInv /\ ReaderTypeOK /\ DeliversOnce /\ SentIsSeen
  BY DEF DataInv
<1>2. /\ \A q \in Reader : q # r => at'[q] = at[q] /\ seen'[q] = seen[q]
      /\ \/ at'[r] = Null /\ UNCHANGED <<seen, sent>>
         \/ /\ entry[e] # NoEntry /\ at'[r] = entry[e].buf
            /\ sent' = [sent EXCEPT ![at'[r]][r] = IF sends THEN 1 ELSE 0]
            /\ sends => seen'[r] = word[at'[r]]
      /\ at' \in [Reader -> Addr \cup {Null}]
      /\ seen' \in [Reader -> 0 .. Words - 1]
      /\ frame' \in [header : Size \cup {NoShape}, bytes : Nat]
  BY <1>1, ResolveBufOutcome
<1>3. CASE at'[r] = Null /\ UNCHANGED <<seen, sent>>
  BY <1>1, <1>2, <1>3 DEF ReaderTypeOK, DeliversOnce, SentIsSeen
<1>4. CASE /\ entry[e] # NoEntry /\ at'[r] = entry[e].buf
           /\ sent' = [sent EXCEPT ![at'[r]][r] = IF sends THEN 1 ELSE 0]
           /\ sends => seen'[r] = word[at'[r]]
  <2> DEFINE b == entry[e].buf
             n == IF sends THEN 1 ELSE 0
  <2>1. b \in Addr
    BY <1>1, <1>4, EntriesTyped
  <2>2. /\ n \in Nat /\ n <= 1 /\ at'[r] = b /\ sent' = [sent EXCEPT ![b][r] = n]
        /\ n # 0 => seen'[r] = word[b]
    BY <1>4
  <2> HIDE DEF b, n
  <2>3. /\ sent' \in [Addr -> [Reader -> Nat]]
        /\ sent'[b][r] = n
        /\ \A c \in Addr, q \in Reader : q # r \/ c # b => sent'[c][q] = sent[c][q]
    BY <1>1, <2>1, <2>2 DEF ReaderTypeOK
  <2>4. ReaderTypeOK'
    BY <1>1, <1>2, <2>3 DEF ReaderTypeOK
  <2>5. DeliversOnce'
    BY <1>1, <2>2, <2>3 DEF DeliversOnce
  <2>6. SentIsSeen'
    <3> SUFFICES ASSUME NEW q \in Reader, at'[q] # Null, sent'[at'[q]][q] # 0
                 PROVE  word'[at'[q]] \in {kNone, kDead, seen'[q]}
      BY DEF SentIsSeen
    <3>1. CASE q = r
      BY <3>1, <2>2, <2>3
    <3>2. CASE q # r
      BY <3>2, <1>1, <1>2, <2>3 DEF SentIsSeen, ReaderTypeOK
    <3> QED
      BY <3>1, <3>2
  <2> QED
    BY <2>4, <2>5, <2>6
<1> QED
  BY <1>2, <1>3, <1>4

(* A tick of a reader that keeps its pointer: it sends only what is fresh. *)
LEMMA ReadsKeeps ==
  ASSUME DataInv, NEW r \in Reader, Reads(r), UNCHANGED <<word, source, crashed>>
  PROVE  ReaderTypeOK' /\ DeliversOnce' /\ SentIsSeen'
<1>1. ProducerTypeOK /\ ReaderTypeOK /\ DeliversOnce /\ SentIsSeen
  BY DEF DataInv, ProducerInv
<1> DEFINE b == at[r]
<1>2. b \in Addr /\ b # Null /\ word[b] \in 0 .. Words - 1
  BY <1>1 DEF Reads, KeepsPointer, ReaderTypeOK, ProducerTypeOK
<1>3. UNCHANGED <<at, frame>>
  BY DEF Reads
<1>4. CASE UNCHANGED <<seen, sent>>
  BY <1>1, <1>3, <1>4 DEF ReaderTypeOK, DeliversOnce, SentIsSeen
<1>5. CASE /\ Fresh(b, seen[r])
           /\ seen' = [seen EXCEPT ![r] = word[b]]
           /\ sent' = [sent EXCEPT ![b][r] = @ + 1]
  <2>1. sent[b][r] = 0
    BY <1>1, <1>2, <1>5 DEF Fresh, SentIsSeen
  <2>2. sent' = [sent EXCEPT ![b][r] = 1]
    BY <1>1, <1>2, <1>5, <2>1 DEF ReaderTypeOK
  <2> HIDE DEF b
  <2>3. /\ sent' \in [Addr -> [Reader -> Nat]]
        /\ sent'[b][r] = 1
        /\ \A c \in Addr, q \in Reader : q # r \/ c # b => sent'[c][q] = sent[c][q]
    BY <1>1, <1>2, <2>2 DEF ReaderTypeOK
  <2>4. /\ seen' \in [Reader -> 0 .. Words - 1] /\ seen'[r] = word[b]
        /\ \A q \in Reader : q # r => seen'[q] = seen[q]
    BY <1>1, <1>2, <1>5 DEF ReaderTypeOK
  <2>5. ReaderTypeOK' /\ DeliversOnce'
    BY <1>1, <1>3, <2>3, <2>4 DEF ReaderTypeOK, DeliversOnce
  <2>6. SentIsSeen'
    BY <1>1, <1>3, <2>3, <2>4 DEF SentIsSeen, ReaderTypeOK, b
  <2> QED
    BY <2>5, <2>6
<1> QED
  BY <1>4, <1>5 DEF Reads, MaySend

(* A step of the producers: a word that moves goes to kNone, or goes on    *)
(* with a frame that nobody has sent.                                      *)
LEMMA WordStepsKeepReaders ==
  ASSUME DataInv, UNCHANGED readers, crashed' \in BOOLEAN,
         \/ UNCHANGED sent /\ \A b \in Addr : word'[b] \in {word[b], kNone}
         \/ \E b \in Addr : /\ sent' = [sent EXCEPT ![b] = [r \in Reader |-> 0]]
                            /\ \A c \in Addr : c # b => word'[c] = word[c]
  PROVE  ReaderTypeOK' /\ DeliversOnce' /\ SentIsSeen'
<1>1. ReaderTypeOK /\ DeliversOnce /\ SentIsSeen /\ UNCHANGED <<source, at, seen, frame>>
  BY DEF DataInv, readers
<1>2. CASE UNCHANGED sent /\ \A b \in Addr : word'[b] \in {word[b], kNone}
  <2>1. ReaderTypeOK' /\ DeliversOnce'
    BY <1>1, <1>2 DEF ReaderTypeOK, DeliversOnce
  <2>2. \A r \in Reader : at[r] # Null => at[r] \in Addr
    BY <1>1 DEF ReaderTypeOK
  <2> QED
    BY <1>1, <1>2, <2>1, <2>2 DEF SentIsSeen
<1>3. ASSUME NEW b \in Addr, sent' = [sent EXCEPT ![b] = [r \in Reader |-> 0]],
             \A c \in Addr : c # b => word'[c] = word[c]
      PROVE  ReaderTypeOK' /\ DeliversOnce' /\ SentIsSeen'
  <2>1. /\ sent' \in [Addr -> [Reader -> Nat]]
        /\ \A r \in Reader : sent'[b][r] = 0
        /\ \A c \in Addr, r \in Reader : c # b => sent'[c][r] = sent[c][r]
    BY <1>1, <1>3 DEF ReaderTypeOK
  <2>2. ReaderTypeOK'
    BY <1>1, <2>1 DEF ReaderTypeOK
  <2>3. DeliversOnce'
    BY <1>1, <2>1 DEF DeliversOnce
  <2>4. \A r \in Reader : at[r] # Null => at[r] \in Addr
    BY <1>1 DEF ReaderTypeOK
  <2>5. SentIsSeen'
    BY <1>1, <1>3, <2>1, <2>4 DEF SentIsSeen
  <2> QED
    BY <2>2, <2>3, <2>5
<1> QED
  BY <1>2, <1>3

(* How each step of the producers moves the words. *)
LEMMA AllocateWords ==
  ASSUME ProducerTypeOK, NEW e \in Effect, NEW x, Allocate(e, x)
  PROVE  UNCHANGED sent /\ \A b \in Addr : word'[b] \in {word[b], kNone}
BY DEF ProducerTypeOK, Allocate, PixelsFail, PixelsSucceed, buffers

(* To a reader a producer's step is a sentinel or a frame not yet sent.    *)
LEMMA ProducerStepsMoveWords ==
  ASSUME DataInv, EffectTick \/ LayoutRequest \/ EffectRequest \/ DeleteRequest
  PROVE  /\ UNCHANGED readers /\ crashed' \in BOOLEAN
         /\ \/ UNCHANGED sent /\ \A b \in Addr : word'[b] \in {word[b], kNone}
            \/ \E b \in Addr : /\ sent' = [sent EXCEPT ![b] = [r \in Reader |-> 0]]
                               /\ \A c \in Addr : c # b => word'[c] = word[c]
<1>1. ProducerTypeOK /\ ProducerInv /\ crashed \in BOOLEAN
  BY DEF DataInv, ProducerInv, ReaderTypeOK
<1> DEFINE Moves == UNCHANGED sent /\ \A b \in Addr : word'[b] \in {word[b], kNone}
<1>2. ASSUME NEW e \in Effect, EffectFrame(e)
      PROVE  /\ UNCHANGED <<readers, crashed>>
             /\ Moves \/ \E b \in Addr : /\ sent' = [sent EXCEPT ![b] = [r \in Reader |-> 0]]
                                         /\ \A c \in Addr : c # b => word'[c] = word[c]
  <2> DEFINE x == IF eff[e].layout = NoLayout THEN ResolveLayout(eff[e]) ELSE eff[e]
  <2>1. eff[e].live
    BY <1>2 DEF EffectFrame, LiveEffects
  <2>2. Rewired(e, eff[e])
    BY <1>1, <2>1, DataPathAssumption, RequestRewires
  <2>3. Rewired(e, ResolveLayout(eff[e]))
    BY <1>1, <2>2, ResolveRewires
  <2>4. x.buf \in Addr \cup {Null}
    BY <2>2, <2>3 DEF Rewired, EffectType
  <2>5. /\ UNCHANGED <<readers, crashed>>
        /\ \/ UNCHANGED <<word, sent>>
           \/ /\ x.buf # Null
              /\ word' = [word EXCEPT ![x.buf] = NextRevision(@)]
              /\ sent' = [sent EXCEPT ![x.buf] = [r \in Reader |-> 0]]
    BY <1>2 DEF EffectFrame
  <2> HIDE DEF x
  <2> QED
    BY <1>1, <2>4, <2>5 DEF ProducerTypeOK
<1>3. ASSUME NEW e \in Effect, EffectSlow(e) PROVE UNCHANGED readers /\ crashed' \in BOOLEAN /\ Moves
  <2>1. UNCHANGED readers /\ crashed' \in BOOLEAN
    BY <1>1, <1>3 DEF EffectSlow
  <2>2. UNCHANGED buffers \/ \E x : Allocate(e, x)
    BY <1>3 DEF EffectSlow
  <2> QED
    BY <1>1, <2>1, <2>2, AllocateWords DEF buffers
<1>4. ASSUME NEW dead, Teardown(dead) PROVE Moves
  BY <1>4 DEF Teardown
<1>5. CASE LayoutRequest
  BY <1>5, <1>1 DEF LayoutRequest, SetShape, buffers
<1>6. CASE DeleteRequest
  <2>1. UNCHANGED <<readers, crashed>> /\ \E dead : Teardown(dead)
    BY <1>6 DEF DeleteRequest, RemoveLayout, RemoveEffect
  <2> QED
    BY <2>1, <1>1, <1>4
<1>7. CASE EffectRequest
  <2>1. UNCHANGED <<readers, crashed>> /\ (UNCHANGED buffers \/ \E e \in Effect : \E x : Allocate(e, x))
    BY <1>7 DEF EffectRequest, AddEffect, PromoteEffect, SetLayoutInput, NestEffect
  <2> QED
    BY <2>1, <1>1, AllocateWords DEF buffers
<1>8. CASE EffectTick
  BY <1>1, <1>2, <1>3, <1>8 DEF EffectTick
<1> QED
  BY <1>5, <1>6, <1>7, <1>8

LEMMA ReaderStepsKeepReaders ==
  ASSUME DataInv, ReaderTick \/ ReaderRequest
  PROVE  ReaderTypeOK' /\ DeliversOnce' /\ SentIsSeen'
<1>1. ReaderTypeOK /\ DeliversOnce /\ SentIsSeen
  BY DEF DataInv
<1>2. ASSUME NEW r \in Reader, ReaderFrame(r) PROVE ReaderTypeOK' /\ DeliversOnce' /\ SentIsSeen'
  <2>1. UNCHANGED <<word, source>>
    BY <1>2 DEF ReaderFrame
  <2>2. CASE Reattaches(r) /\ UNCHANGED crashed
    <3>1. PICK sends \in BOOLEAN : ResolveBuf(r, source[r], sends)
      BY <2>2 DEF Reattaches
    <3>2. source[r] \in Effect /\ source' \in [Reader -> Effect]
      BY <1>1, <2>1 DEF ReaderTypeOK
    <3> QED
      BY <2>1, <2>2, <3>1, <3>2, ResolveBufKeeps
  <2>3. CASE Reads(r) /\ UNCHANGED crashed
    BY <2>1, <2>3, ReadsKeeps
  <2>4. CASE crashed' = TRUE /\ UNCHANGED <<at, seen, frame, sent>>
    BY <1>1, <2>1, <2>4 DEF ReaderTypeOK, DeliversOnce, SentIsSeen
  <2> QED
    BY <1>2, <2>2, <2>3, <2>4 DEF ReaderFrame
<1>3. ASSUME PreviewSlow PROVE ReaderTypeOK' /\ DeliversOnce' /\ SentIsSeen'
  <2>1. ResolveBuf("preview", source["preview"], FALSE) /\ UNCHANGED <<word, source, crashed>>
        /\ "preview" \in Reader
    BY <1>3 DEF PreviewSlow
  <2>2. /\ "preview" \in Reader /\ source["preview"] \in Effect
        /\ source' \in [Reader -> Effect]
    BY <1>1, <2>1 DEF ReaderTypeOK
  <2> QED
    BY <2>1, <2>2, ResolveBufKeeps
<1>4. ASSUME NEW r \in Reader, NEW e \in Effect, SetSource(r, e)
      PROVE  ReaderTypeOK' /\ DeliversOnce' /\ SentIsSeen'
  <2>1. ResolveBuf(r, e, FALSE) /\ UNCHANGED <<word, crashed>> /\ source' \in [Reader -> Effect]
    BY <1>1, <1>4 DEF SetSource, ReaderTypeOK
  <2> QED
    BY <2>1, ResolveBufKeeps
<1> QED
  BY <1>2, <1>3, <1>4, DataPathAssumption DEF ReaderTick, ReaderRequest

LEMMA DataStep == DataInv /\ [Next]_vars => DataInv'
<1> SUFFICES ASSUME DataInv, [Next]_vars PROVE DataInv'
  OBVIOUS
<1>1. ProducerInv'
  BY ProducerStep DEF DataInv
<1>2. CASE EffectTick \/ LayoutRequest \/ EffectRequest \/ DeleteRequest
  BY <1>1, <1>2, ProducerStepsMoveWords, WordStepsKeepReaders DEF DataInv
<1>3. CASE ReaderTick \/ ReaderRequest
  BY <1>1, <1>3, ReaderStepsKeepReaders DEF DataInv
<1>4. CASE UNCHANGED vars
  BY <1>1, <1>4 DEF DataInv, ReaderTypeOK, DeliversOnce, SentIsSeen, vars
<1> QED
  BY <1>2, <1>3, <1>4 DEF Next, Tick, KeepRequest

LEMMA DataInit == Init => DataInv
<1> SUFFICES ASSUME Init PROVE DataInv
  OBVIOUS
<1>1. ReaderTypeOK
  BY DataPathAssumption, WordsTyped DEF Init, ReaderTypeOK
<1>2. DeliversOnce /\ SentIsSeen
  BY DEF Init, DeliversOnce, SentIsSeen
<1> QED
  BY <1>1, <1>2, ProducerInit DEF DataInv

LEMMA DataCorrect == Spec => []DataInv
BY DataInit, DataStep, PTL DEF Spec

(* Type correctness of both halves. *)
THEOREM DataTypeCorrect == Spec => []TypeOK
<1>1. DataInv => TypeOK
  BY DEF DataInv, ProducerInv, ProducerTypeOK, ReaderTypeOK, TypeOK
<1> QED
  BY <1>1, DataCorrect, PTL

(* try_acquire_read: no reader sends a frame twice while it keeps its      *)
(* pointer, not even when its buffer is deleted and another allocated in   *)
(* its place, and not when the revision wraps, for any width of it.  One   *)
(* that attaches anew starts with a new consumed_ and may send it again.   *)
THEOREM FramesSentOnce == Spec => []DeliversOnce
<1>1. DataInv => DeliversOnce
  BY DEF DataInv
<1> QED
  BY <1>1, DataCorrect, PTL

-----------------------------------------------------------------------------
(* While nothing is deleted.  An entry that has been declared stays, with  *)
(* the same buffer: a resize keeps the DataBuffer of its effect.           *)
LEMMA EntriesStay ==
  ASSUME ProducerInv, NEW e \in Effect, NEW x, Rewired(e, x), Allocate(e, x)
  PROVE  \A d \in Effect : entry[d] # NoEntry => entry'[d].buf = entry[d].buf
<1>1. ProducerTypeOK /\ RegistryNamesLiveBuffers /\ BuffersOwned
  BY DEF ProducerInv
<1>2. CASE UNCHANGED entry
  BY <1>2
<1>3. ASSUME NEW s, NEW b \in IF x.buf = Null THEN Addr \ heap ELSE {x.buf}, Declare(e, b, s)
      PROVE  \A d \in Effect : entry[d] # NoEntry => entry'[d].buf = entry[d].buf
  <2>1. entry' = [entry EXCEPT ![e] = [buf |-> b, dim |-> s]] \/ UNCHANGED entry
    BY <1>3 DEF Declare
  <2>2. entry[e] # NoEntry => entry[e].buf = b
    BY <1>1, <1>3 DEF RegistryNamesLiveBuffers, BuffersOwned, Rewired
  <2> QED
    BY <2>1, <2>2, <1>1 DEF ProducerTypeOK
<1> QED
  BY <1>2, <1>3 DEF Allocate, PixelsFail, PixelsSucceed

(* A cached pointer stays right while entries keep their buffers.          *)
LEMMA AttachmentStays ==
  ASSUME DataInv, AttachedToSource, UNCHANGED <<source, at>>,
         \A d \in Effect : entry[d] # NoEntry => entry'[d].buf = entry[d].buf
  PROVE  AttachedToSource'
<1>1. \A r \in Reader : at[r] # Null => entry[source[r]] # NoEntry
  BY DEF AttachedToSource, NoEntry
<1> QED
  BY <1>1 DEF AttachedToSource, DataInv, ReaderTypeOK

(* A reader that gets a new source takes the buffer that source declares.  *)
LEMMA ResolveBufAttaches ==
  ASSUME DataInv, AttachedToSource, NEW r \in Reader, NEW e \in Effect,
         NEW sends \in BOOLEAN, ResolveBuf(r, e, sends),
         source' = [source EXCEPT ![r] = e], UNCHANGED entry
  PROVE  AttachedToSource'
<1>1. /\ \A q \in Reader : q # r => at'[q] = at[q]
      /\ at'[r] = Null \/ at'[r] = entry[e].buf
  <2>1. ProducerInv /\ ReaderTypeOK
    BY DEF DataInv
  <2>2. /\ \A q \in Reader : q # r => at'[q] = at[q] /\ seen'[q] = seen[q]
        /\ \/ at'[r] = Null /\ UNCHANGED <<seen, sent>>
           \/ /\ entry[e] # NoEntry /\ at'[r] = entry[e].buf
              /\ sent' = [sent EXCEPT ![at'[r]][r] = IF sends THEN 1 ELSE 0]
              /\ sends => seen'[r] = word[at'[r]]
    BY <2>1, ResolveBufOutcome
  <2> QED
    BY <2>2
<1>2. source'[r] = e /\ \A q \in Reader : q # r => source'[q] = source[q]
  BY DEF DataInv, ReaderTypeOK
<1> QED
  BY <1>1, <1>2 DEF AttachedToSource

LEMMA KeepStep ==
  DataInv /\ AttachedToSource /\ [Tick \/ KeepRequest]_vars => AttachedToSource'
<1> SUFFICES ASSUME DataInv, AttachedToSource, [Tick \/ KeepRequest]_vars
             PROVE  AttachedToSource'
  OBVIOUS
<1>1. ProducerInv /\ ReaderTypeOK /\ ProducerTypeOK
  BY DEF DataInv, ProducerInv
<1>2. CASE UNCHANGED <<entry, source, at>>
  BY <1>2 DEF AttachedToSource
<1>3. ASSUME NEW e \in Effect, NEW x, Rewired(e, x), Allocate(e, x), UNCHANGED readers
      PROVE  AttachedToSource'
  BY <1>1, <1>3, EntriesStay, AttachmentStays DEF readers
<1>4. ASSUME NEW e \in Effect, EffectSlow(e) PROVE AttachedToSource'
  <2> DEFINE x == IF eff[e].layout = NoLayout THEN ResolveLayout(eff[e]) ELSE eff[e]
  <2>1. UNCHANGED readers /\ (UNCHANGED entry \/ Allocate(e, x)) /\ eff[e].live
    BY <1>4 DEF EffectSlow, LiveEffects
  <2>2. Rewired(e, eff[e])
    BY <1>1, <2>1, DataPathAssumption, RequestRewires
  <2>3. Rewired(e, x)
    BY <1>1, <2>2, ResolveRewires
  <2> QED
    BY <2>1, <2>3, <1>2, <1>3 DEF readers
<1>5. ASSUME NEW e \in Effect, AddEffect(e) PROVE AttachedToSource'
  <2> DEFINE x == [NoEffect EXCEPT !.live = TRUE]
  <2>1. eff[e] = NoEffect
    BY <1>5 DEF AddEffect, LiveEffects, ProducerInv, GoneAreBlank, DataInv
  <2>2. Rewired(e, x)
    BY <2>1, NoEffectTyped DEF Rewired, EffectType, NoEffect
  <2>3. Rewired(e, ResolveLayout(x)) /\ Allocate(e, ResolveLayout(x)) /\ UNCHANGED readers
    BY <1>1, <1>5, <2>2, ResolveRewires DEF AddEffect
  <2> QED
    BY <2>3, <1>3
<1>6. ASSUME NEW e \in Effect, NEW l \in Layout, SetLayoutInput(e, l) \/ NestEffect(e, l)
      PROVE  AttachedToSource'
  <2> DEFINE x == ResolveLayout([eff[e] EXCEPT !.input = l])
             y == [x EXCEPT !.parent = l]
  <2>1. eff[e].live /\ UNCHANGED readers
    BY <1>6 DEF SetLayoutInput, NestEffect, LiveEffects
  <2>2. Rewired(e, x)
    BY <1>1, <2>1, RequestRewires, ResolveRewires
  <2>3. Allocate(e, x) \/ (l \in LiveLayouts /\ Allocate(e, y))
    <3>1. SetLayoutInput(e, l) => Allocate(e, x)
      BY DEF SetLayoutInput
    <3>2. NestEffect(e, l) => l \in LiveLayouts /\ Allocate(e, y)
      BY DEF NestEffect
    <3> QED
      BY <1>6, <3>1, <3>2
  <2> HIDE DEF x
  <2>4. l \in LiveLayouts => Rewired(e, y)
    BY <2>2 DEF Rewired, EffectType
  <2> QED
    BY <2>1, <2>2, <2>3, <2>4, <1>3
<1>7. ASSUME NEW r \in Reader, ReaderFrame(r) PROVE AttachedToSource'
  <2>1. UNCHANGED <<entry, source>>
    BY <1>7 DEF ReaderFrame
  <2>2. UNCHANGED at \/ \E sends \in BOOLEAN : ResolveBuf(r, source[r], sends)
    BY <1>7 DEF ReaderFrame, Reads, Reattaches
  <2>3. source[r] \in Effect /\ source' = [source EXCEPT ![r] = source[r]]
    BY <1>1, <2>1 DEF ReaderTypeOK
  <2> QED
    BY <2>1, <2>2, <2>3, <1>2, ResolveBufAttaches
<1>8. ASSUME PreviewSlow PROVE AttachedToSource'
  <2> DEFINE r == "preview"
  <2>1. ResolveBuf(r, source[r], FALSE) /\ UNCHANGED <<entry, source>> /\ r \in Reader
    BY <1>8, DataPathAssumption DEF PreviewSlow
  <2>2. source[r] \in Effect /\ source' = [source EXCEPT ![r] = source[r]]
    BY <1>1, <2>1 DEF ReaderTypeOK
  <2> QED
    BY <2>1, <2>2, ResolveBufAttaches
<1>9. ASSUME NEW r \in Reader, NEW e \in SourceValue, SetSource(r, e) PROVE AttachedToSource'
  <2>1. e \in Effect
    BY DataPathAssumption
  <2> QED
    BY <1>9, <2>1, ResolveBufAttaches DEF SetSource
<1>10. CASE UNCHANGED vars \/ LayoutRequest \/ \E e \in Effect : EffectFrame(e) \/ PromoteEffect(e)
  BY <1>2, <1>10 DEF vars, LayoutRequest, SetShape, EffectFrame, PromoteEffect, readers
<1> QED
  BY <1>4, <1>5, <1>6, <1>7, <1>8, <1>9, <1>10
     DEF Tick, EffectTick, ReaderTick, KeepRequest, EffectRequest, ReaderRequest

(* As long as nothing is deleted, the pointer a reader caches is the one   *)
(* DataRegistry has for its source: resizes never move a DataBuffer, and   *)
(* no write to "source" leaves the old one in place.                       *)
THEOREM ReadersStayAttached == KeepSpec => []AttachedToSource
<1>1. Init => AttachedToSource
  BY DEF Init, AttachedToSource
<1>2. KeepSpec => []DataInv
  BY KeepIsSpec, DataCorrect, PTL
<1> QED
  BY <1>1, <1>2, KeepStep, PTL DEF KeepSpec
=============================================================================
