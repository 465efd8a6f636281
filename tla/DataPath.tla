------------------------------- MODULE DataPath -------------------------------
(***************************************************************************)
(* The pixel path: effects render into a DataBuffer of their own, declare  *)
(* it in DataRegistry under their id, and two readers, ArtnetOutModule and *)
(* PreviewModule, find it there by the id in their "source" input and keep *)
(* the pointer.  Effects take their size from a layout they cache too.     *)
(*                                                                         *)
(* Ticks and requests run under ModuleManager's mutex, so one module's     *)
(* tick, or one request, is one action.  Modules of one pass tick in       *)
(* vector order; as the "enabled" toggle lets any of them sit out a pass,  *)
(* every order of ticks is possible.                                       *)
(*                                                                         *)
(* A DataBuffer is named by its address.  Pixels are not modelled, only    *)
(* the sizes of the memory for them, the revision word published_, and how *)
(* often a reader has sent the frame in the slot since it attached.        *)
(*                                                                         *)
(* setControl keeps no size within its slider: a shape may be empty, or so *)
(* large that the arithmetic on it wraps.                                  *)
(***************************************************************************)
EXTENDS Naturals, FiniteSets

CONSTANTS
  Layout,         \* layout ids
  Effect,         \* effect ids
  Reader,         \* modules that read: "artnet", "preview" or both
  Addr,           \* addresses operator new may return for a DataBuffer
  Is3d,           \* effects that use the depth of a layout
  Shape,          \* <<width, height, depth>> a layout can have
  DefaultShape,   \* shape of an effect without a layout
  UintWrap,       \* values of a uint32_t
  SizeWrap,       \* values of a size_t: as many on the ESP32, 2^64 on a PC
  DefaultLayout,  \* layout input of a new effect
  DefaultSource,  \* source input of a new reader
  SourceValue,    \* effect ids clients write to a source input
  MaxEntries,     \* DataRegistry::kMaxEntries
  Words,          \* values of published_, 2^32 in the code
  MemFails,       \* whether psram_alloc may return null
  NoShape, NoLayout, Freed, Null

(* sizeof(RGB) * w * h * d without any wrap. *)
FullBytes(s) == 3 * (s[1] * s[2] * s[3])

(* n * sizeof(RGB) in a size_t, where n is a uint32_t. *)
Bytes(s) == (3 * ((s[1] * s[2] * s[3]) % UintWrap)) % SizeWrap

(* The preview's `need` is multiplied in size_t throughout. *)
PreviewBytes(s) == FullBytes(s) % SizeWrap

(* Width, height and depth are 16-bit: `need` is never 0 for pixels that   *)
(* were allocated, and DefaultShape is an ordinary size.                   *)
ASSUME DataPathAssumption ==
  /\ Shape \subseteq Nat \X Nat \X Nat /\ NoShape \notin Shape
  /\ UintWrap \in Nat \ {0} /\ SizeWrap \in Nat \ {0}
  /\ \A s \in Shape : PreviewBytes(s) = 0 => Bytes(s) = 0
  /\ DefaultShape \in Shape /\ DefaultShape[3] = 1 /\ Bytes(DefaultShape) # 0
  /\ Is3d \subseteq Effect
  /\ DefaultLayout \in Layout
  /\ NoLayout \notin Layout /\ Freed \notin Layout /\ NoLayout # Freed
  /\ DefaultSource \in Effect /\ SourceValue \subseteq Effect
  /\ Reader \subseteq {"artnet", "preview"}
  /\ Null \notin Addr
  /\ Words \in Nat /\ Words > 2
  /\ MaxEntries \in Nat
  /\ MemFails \in BOOLEAN

kNone == Words - 1   \* no frame published yet
kDead == Words - 2   \* producer torn down

NoEntry == [buf |-> Null, dim |-> NoShape]

VARIABLES
  shape,    \* size of each layout, NoShape when it does not exist
  eff,      \* the effects: PixelEffectBase's fields
  heap,     \* addresses that hold a DataBuffer
  slot,     \* bytes of the slot_ of the DataBuffer at an address, 0 when null
  word,     \* its published_
  entry,    \* DataRegistry: the entry of each id
  source,   \* source_buf_ of each reader
  at,       \* buf_ of each reader
  seen,     \* consumed_ of each reader
  frame,    \* PreviewModule: header of frame_buf_, and pixel_bytes_
  sent,     \* how often a reader has sent the frame in a slot since it attached
  crashed   \* a freed layout, or unmapped memory, has been dereferenced

vars == <<shape, eff, heap, slot, word, entry, source, at, seen, frame, sent, crashed>>
readers == <<source, at, seen, frame>>
buffers == <<heap, slot, word, sent>>

NoEffect == [live |-> FALSE, parent |-> NoLayout, input |-> DefaultLayout,
             layout |-> NoLayout, size |-> DefaultShape, pixels |-> 0, buf |-> Null]

LiveLayouts == {l \in Layout : shape[l] # NoShape}
LiveEffects == {e \in Effect : eff[e].live}

-----------------------------------------------------------------------------
(* Effects *)

(* resolve_layout_: the parent chain wins, then the input. *)
ResolveLayout(x) ==
  [x EXCEPT !.layout = IF x.parent # NoLayout THEN x.parent
                       ELSE IF x.input \in LiveLayouts THEN x.input
                       ELSE NoLayout]

(* The size an effect takes from a layout: the depth only when it is 3D. *)
Flat(s) == <<s[1], s[2], 1>>
Geometry(e, l) ==
  IF l = NoLayout THEN DefaultShape
  ELSE IF e \in Is3d THEN shape[l]
  ELSE Flat(shape[l])

(* DataRegistry::declare; the caller ignores that the table is full. *)
Declare(e, b, s) ==
  LET known == {i \in Effect : entry[i] # NoEntry}
  IN entry' = IF e \in known \/ Cardinality(known) < MaxEntries
              THEN [entry EXCEPT ![e] = [buf |-> b, dim |-> s]]
              ELSE entry

(* allocate_ skips when size and memory are as they should be. *)
NothingToDo(x, s) == s = x.size /\ x.pixels # 0 /\ x.buf # Null

(* Mutant: the old pixels are kept when there is no memory for new ones. *)
PixelsFailKeepsOld(e, x, s) ==
  /\ MemFails \/ Bytes(s) = 0
  /\ eff' = [eff EXCEPT ![e] = [x EXCEPT !.size = s]]
  /\ UNCHANGED <<buffers, entry>>

(* pixels_ has been freed and psram_alloc returns null, as it does for 0   *)
(* bytes.  Buffer and entry stay as they are.                              *)
PixelsFail(e, x, s) ==
  /\ MemFails \/ Bytes(s) = 0
  /\ eff' = [eff EXCEPT ![e] = [x EXCEPT !.size = s, !.pixels = 0]]
  /\ UNCHANGED <<buffers, entry>>

(* pixels_ is there; the DataBuffer is kept or created, and its old slot   *)
(* freed before psram_alloc is called for the new one.                     *)
PixelsSucceed(e, x, s) ==
  \E b \in IF x.buf = Null THEN Addr \ heap ELSE {x.buf} :
    /\ Bytes(s) # 0
    /\ eff' = [eff EXCEPT ![e] = [x EXCEPT !.size = s, !.pixels = Bytes(s), !.buf = b]]
    /\ heap' = heap \cup {b}
    /\ word' = [word EXCEPT ![b] = kNone]
    /\ \/ /\ MemFails
          /\ slot' = [slot EXCEPT ![b] = 0]
          /\ UNCHANGED entry
       \/ /\ slot' = [slot EXCEPT ![b] = Bytes(s)]
          /\ Declare(e, b, s)
    /\ UNCHANGED sent

(* allocate_ for an effect e whose fields are x by then. *)
Allocate(e, x) ==
  LET s == Geometry(e, x.layout)
  IN \/ /\ NothingToDo(x, s)
        /\ eff' = [eff EXCEPT ![e] = x]
        /\ UNCHANGED <<buffers, entry>>
     \/ /\ ~NothingToDo(x, s)
        /\ PixelsFail(e, x, s) \/ PixelsSucceed(e, x, s)

(* Mutant: teardown without delete. *)
TeardownLeaks(dead) ==
  /\ entry' = [e \in Effect |-> IF entry[e].buf \in {eff[d].buf : d \in dead}
                               THEN NoEntry ELSE entry[e]]
  /\ UNCHANGED buffers

(* Mutant: teardown without undeclare. *)
TeardownKeepsEntry(dead) ==
  LET bufs == {eff[e].buf : e \in dead}
  IN /\ heap' = heap \ bufs
     /\ slot' = [b \in Addr |-> IF b \in bufs THEN 0 ELSE slot[b]]
     /\ word' = [b \in Addr |-> IF b \in bufs THEN kNone ELSE word[b]]
     /\ UNCHANGED <<entry, sent>>

(* teardown() of the effects in dead: undeclare, invalidate, delete.  The  *)
(* destructor runs free_(), which stores kNone over the kDead sentinel.    *)
Teardown(dead) ==
  LET bufs == {eff[e].buf : e \in dead}
  IN /\ entry' = [e \in Effect |-> IF entry[e].buf \in bufs THEN NoEntry ELSE entry[e]]
     /\ heap' = heap \ bufs
     /\ slot' = [b \in Addr |-> IF b \in bufs THEN 0 ELSE slot[b]]
     /\ word' = [b \in Addr |-> IF b \in bufs THEN kNone ELSE word[b]]
     /\ UNCHANGED sent

-----------------------------------------------------------------------------
(* Readers *)

(* Mutant: try_acquire_read forgets consumed_. *)
FreshWithoutCursor(b, c) == b # Null /\ word[b] \notin {kNone, kDead}

(* try_acquire_read of a reader that has buffer b and consumed_ c. *)
Fresh(b, c) == b # Null /\ word[b] \notin {kNone, kDead, c}

(* What a frame tick may do with b: ArtnetOutModule sends a fresh frame,   *)
(* PreviewModule leaves it when it has no client, the queue is congested   *)
(* or memory is short.                                                     *)
MaySend(r, b, c, sends) ==
  /\ sends => Fresh(b, c)
  /\ Fresh(b, c) /\ ~sends => r = "preview"

(* The reader's pointer and cursor once it has the buffer b, with the      *)
(* frame in it sent in the same tick or not.                               *)
Attach(r, b, sends) ==
  /\ at' = [at EXCEPT ![r] = b]
  /\ seen' = [seen EXCEPT ![r] = IF sends THEN word[b] ELSE kNone]
  /\ sent' = [sent EXCEPT ![b][r] = IF sends THEN 1 ELSE 0]

(* resolve_buf_ with source e.  PreviewModule sizes its frame buffer from  *)
(* the entry; it writes the header only when the size has changed.         *)
ResolveBuf(r, e, sends) ==
  \/ /\ entry[e] = NoEntry
     /\ at' = [at EXCEPT ![r] = Null]
     /\ UNCHANGED <<seen, frame, sent>>
  \/ /\ entry[e] # NoEntry
     /\ r = "artnet" \/ frame.bytes = PreviewBytes(entry[e].dim)
     /\ Attach(r, entry[e].buf, sends)
     /\ UNCHANGED frame
  \/ /\ entry[e] # NoEntry
     /\ r = "preview" /\ frame.bytes # PreviewBytes(entry[e].dim)
     /\ \/ /\ Attach(r, entry[e].buf, sends)
           /\ frame' = [header |-> entry[e].dim, bytes |-> PreviewBytes(entry[e].dim)]
        \/ /\ MemFails /\ ~sends
           /\ at' = [at EXCEPT ![r] = Null]
           /\ frame' = [frame EXCEPT !.bytes = 0]
           /\ UNCHANGED <<seen, sent>>

-----------------------------------------------------------------------------
Init ==
  /\ shape = [l \in Layout |-> NoShape]
  /\ eff = [e \in Effect |-> NoEffect]
  /\ heap = {}
  /\ slot = [b \in Addr |-> 0]
  /\ word = [b \in Addr |-> kNone]
  /\ entry = [e \in Effect |-> NoEntry]
  /\ source = [r \in Reader |-> DefaultSource]
  /\ at = [r \in Reader |-> Null]
  /\ seen = [r \in Reader |-> kNone]
  /\ frame = [header |-> NoShape, bytes |-> 0]
  /\ sent = [b \in Addr |-> [r \in Reader |-> 0]]
  /\ crashed = FALSE

(* POST /api/modules of a layout; PATCH of its width, height and depth. *)
SetShape(l, s) ==
  /\ ~crashed
  /\ shape' = [shape EXCEPT ![l] = s]
  /\ UNCHANGED <<eff, buffers, entry, readers, crashed>>

(* DELETE of a layout: the effects nested in it are torn down with it; an  *)
(* effect that only names it keeps its layout_ pointer.                    *)
RemoveLayout(l) ==
  LET nested == {e \in LiveEffects : eff[e].parent = l}
  IN /\ ~crashed
     /\ l \in LiveLayouts
     /\ shape' = [shape EXCEPT ![l] = NoShape]
     /\ eff' = [e \in Effect |->
                  IF e \in nested THEN NoEffect
                  ELSE IF eff[e].layout = l THEN [eff[e] EXCEPT !.layout = Freed]
                  ELSE eff[e]]
     /\ Teardown(nested)
     /\ UNCHANGED <<readers, crashed>>

(* POST /api/modules of an effect: runSetup. *)
AddEffect(e) ==
  /\ ~crashed
  /\ e \notin LiveEffects
  /\ Allocate(e, ResolveLayout([NoEffect EXCEPT !.live = TRUE]))
  /\ UNCHANGED <<shape, readers, crashed>>

RemoveEffect(e) ==
  /\ ~crashed
  /\ e \in LiveEffects
  /\ eff' = [eff EXCEPT ![e] = NoEffect]
  /\ Teardown({e})
  /\ UNCHANGED <<shape, readers, crashed>>

(* A write to the "layout" input: onUpdate resolves and reallocates. *)
SetLayoutInput(e, l) ==
  /\ ~crashed
  /\ e \in LiveEffects
  /\ Allocate(e, ResolveLayout([eff[e] EXCEPT !.input = l]))
  /\ UNCHANGED <<shape, readers, crashed>>

(* reparent: onUpdate("layout") runs before the relink, so the effect      *)
(* still sees the parent it has until now.                                 *)
NestEffect(e, l) ==
  /\ ~crashed
  /\ e \in LiveEffects /\ l \in LiveLayouts
  /\ LET x == ResolveLayout([eff[e] EXCEPT !.input = l])
     IN Allocate(e, [x EXCEPT !.parent = l])
  /\ UNCHANGED <<shape, readers, crashed>>

(* reparent to the root: no onUpdate. *)
PromoteEffect(e) ==
  /\ ~crashed
  /\ e \in LiveEffects
  /\ eff' = [eff EXCEPT ![e].parent = NoLayout]
  /\ UNCHANGED <<shape, buffers, entry, readers, crashed>>

(* Mutant: a new source is resolved only by a reader without a buffer. *)
SetSourceLazily(r, e) ==
  /\ ~crashed
  /\ source' = [source EXCEPT ![r] = e]
  /\ UNCHANGED <<shape, eff, buffers, entry, at, seen, frame, crashed>>

(* A write to a reader's "source" input, or a reparent under an effect. *)
SetSource(r, e) ==
  /\ ~crashed
  /\ source' = [source EXCEPT ![r] = e]
  /\ ResolveBuf(r, e, FALSE)
  /\ UNCHANGED <<shape, eff, heap, slot, word, entry, crashed>>

-----------------------------------------------------------------------------
(* PixelEffectBase::loop1s: notice that the layout has another shape. *)
EffectSlow(e) ==
  LET x == IF eff[e].layout = NoLayout THEN ResolveLayout(eff[e]) ELSE eff[e]
  IN /\ ~crashed
     /\ e \in LiveEffects
     /\ \/ /\ x.layout = Freed
           /\ crashed' = TRUE
           /\ UNCHANGED <<eff, buffers, entry>>
        \/ /\ x.layout \in LiveLayouts /\ Geometry(e, x.layout) # x.size
           /\ Allocate(e, x)
           /\ UNCHANGED crashed
        \/ /\ x.layout \in LiveLayouts => Geometry(e, x.layout) = x.size
           /\ x.layout # Freed
           /\ eff' = [eff EXCEPT ![e] = x]
           /\ UNCHANGED <<buffers, entry, crashed>>
     /\ UNCHANGED <<shape, readers>>

(* Mutant: the revision does not wrap. *)
NextRevisionUnbounded(w) == w + 1

(* publish() counts in a uint32_t. *)
NextRevision(w) == (w + 1) % Words

(* PixelEffectBase::loop20ms: render, copy into the slot, publish. *)
EffectFrame(e) ==
  LET x == IF eff[e].layout = NoLayout THEN ResolveLayout(eff[e]) ELSE eff[e]
      publishes == x.pixels # 0 /\ x.buf # Null /\ slot[x.buf] # 0
  IN /\ ~crashed
     /\ e \in LiveEffects
     /\ eff' = [eff EXCEPT ![e] = x]
     /\ IF publishes
        THEN /\ word' = [word EXCEPT ![x.buf] = NextRevision(@)]
             /\ sent' = [sent EXCEPT ![x.buf] = [r \in Reader |-> 0]]
        ELSE UNCHANGED <<word, sent>>
     /\ UNCHANGED <<shape, heap, slot, entry, readers, crashed>>

KeepsPointer(r) == at[r] # Null /\ word[at[r]] # kDead

(* loop20ms of a reader whose pointer is null or whose buffer is dead:     *)
(* drop the pointer, resolve, and go on with what that finds.              *)
Reattaches(r) ==
  /\ ~KeepsPointer(r)
  /\ \E sends \in BOOLEAN :
       /\ MaySend(r, entry[source[r]].buf, kNone, sends)
       /\ ResolveBuf(r, source[r], sends)

(* loop20ms of a reader that keeps its pointer. *)
Reads(r) ==
  /\ KeepsPointer(r)
  /\ \E sends \in BOOLEAN :
       /\ MaySend(r, at[r], seen[r], sends)
       /\ IF sends
          THEN /\ seen' = [seen EXCEPT ![r] = word[at[r]]]
               /\ sent' = [sent EXCEPT ![at[r]][r] = @ + 1]
          ELSE UNCHANGED <<seen, sent>>
  /\ UNCHANGED <<at, frame>>

(* A freed buffer yields what its memory holds by then: the kNone the      *)
(* destructor stored, or the word of a new DataBuffer at that address; or  *)
(* the memory is in other use and the read ends the program.               *)
ReaderFrame(r) ==
  /\ ~crashed
  /\ \/ /\ Reattaches(r) \/ Reads(r)
        /\ UNCHANGED crashed
     \/ /\ at[r] # Null /\ at[r] \notin heap
        /\ crashed' = TRUE
        /\ UNCHANGED <<at, seen, frame, sent>>
  /\ UNCHANGED <<shape, eff, heap, slot, word, entry, source>>

(* Mutant: only the width is compared. *)
WidthChanged(e) == entry[e].dim[1] # frame.header[1]

SizeChanged(e) == PreviewBytes(entry[e].dim) # frame.bytes

(* PreviewModule::loop1s: notice that the entry has another size. *)
PreviewSlow ==
  LET e == source["preview"]
  IN /\ ~crashed
     /\ "preview" \in Reader
     /\ at["preview"] # Null /\ entry[e] # NoEntry
     /\ SizeChanged(e)
     /\ ResolveBuf("preview", e, FALSE)
     /\ UNCHANGED <<shape, eff, heap, slot, word, entry, source, crashed>>

-----------------------------------------------------------------------------
EffectTick == \E e \in Effect : EffectSlow(e) \/ EffectFrame(e)
ReaderTick == PreviewSlow \/ \E r \in Reader : ReaderFrame(r)
Tick == EffectTick \/ ReaderTick

LayoutRequest == \E l \in Layout, s \in Shape : SetShape(l, s)
EffectRequest ==
  \/ \E e \in Effect : AddEffect(e) \/ PromoteEffect(e)
  \/ \E e \in Effect, l \in Layout : SetLayoutInput(e, l) \/ NestEffect(e, l)
ReaderRequest == \E r \in Reader, e \in SourceValue : SetSource(r, e)
KeepRequest == LayoutRequest \/ EffectRequest \/ ReaderRequest

DeleteRequest ==
  \/ \E l \in Layout : RemoveLayout(l)
  \/ \E e \in Effect : RemoveEffect(e)

Next == Tick \/ KeepRequest \/ DeleteRequest

Spec == Init /\ [][Next]_vars

(* Without deletions, with the ticks core_loop makes at every cadence. *)
KeepSpec ==
  /\ Init /\ [][Tick \/ KeepRequest]_vars
  /\ \A e \in Effect : WF_vars(EffectSlow(e)) /\ WF_vars(EffectFrame(e))
  /\ \A r \in Reader : WF_vars(ReaderFrame(r))
  /\ WF_vars(PreviewSlow)
-----------------------------------------------------------------------------
(* Type invariant. *)
Size == Shape \cup {Flat(s) : s \in Shape}

EffectType ==
  [live : BOOLEAN, parent : Layout \cup {NoLayout}, input : Layout,
   layout : Layout \cup {NoLayout, Freed}, size : Size, pixels : Nat,
   buf : Addr \cup {Null}]

TypeOK ==
  /\ shape \in [Layout -> Shape \cup {NoShape}]
  /\ eff \in [Effect -> EffectType]
  /\ heap \subseteq Addr
  /\ slot \in [Addr -> Nat]
  /\ word \in [Addr -> 0 .. Words - 1]
  /\ entry \in [Effect -> [buf : Addr \cup {Null}, dim : Size \cup {NoShape}]]
  /\ source \in [Reader -> Effect]
  /\ at \in [Reader -> Addr \cup {Null}]
  /\ seen \in [Reader -> 0 .. Words - 1]
  /\ frame \in [header : Size \cup {NoShape}, bytes : Nat]
  /\ sent \in [Addr -> [Reader -> Nat]]
  /\ crashed \in BOOLEAN

(* Each DataBuffer belongs to one live effect: none leaks, none is freed   *)
(* under its producer, none is shared.                                     *)
BuffersOwned ==
  /\ heap = {eff[e].buf : e \in LiveEffects} \ {Null}
  /\ \A d, e \in LiveEffects : d # e /\ eff[d].buf = eff[e].buf => eff[d].buf = Null

(* DataRegistry names only the buffers of live effects under their own     *)
(* ids, and gives the size of the slot when there is one: also when a      *)
(* resize ran out of memory half-way.                                      *)
RegistryNamesLiveBuffers ==
  \A e \in Effect : entry[e] # NoEntry =>
    /\ eff[e].live
    /\ entry[e].buf = eff[e].buf
    /\ entry[e].buf \in heap
    /\ slot[entry[e].buf] \in {0, Bytes(entry[e].dim)}

(* The arithmetic of allocate_ does not wrap for s. *)
NoWrap(s) == s[1] * s[2] * s[3] < UintWrap /\ FullBytes(s) < SizeWrap

(* The memcpy of loop20ms stays within pixels_ and the slot, whatever      *)
(* resizes, wraps and failed allocations came before; and render_, which   *)
(* writes every pixel, within pixels_ for each size that does not wrap.    *)
FrameFits ==
  \A e \in LiveEffects : eff[e].pixels # 0 =>
    /\ eff[e].pixels = Bytes(eff[e].size)
    /\ eff[e].buf # Null => slot[eff[e].buf] \in {0, Bytes(eff[e].size)}
    /\ NoWrap(eff[e].size) => FullBytes(eff[e].size) <= eff[e].pixels

(* A reader does not send the same frame twice while it keeps its pointer, *)
(* across resizes that restart the revision count and across its wrap      *)
(* through kDead and kNone.  (One that attaches anew, as the preview does  *)
(* after a change of size, may send the frame again.)                      *)
DeliversOnce == \A b \in Addr, r \in Reader : sent[b][r] <= 1

(* As long as nothing is deleted, a reader's cached pointer is the buffer  *)
(* its source has in DataRegistry: resizes keep the DataBuffer object, and *)
(* a new source is resolved at once.                                       *)
AttachedToSource ==
  \A r \in Reader : at[r] # Null => at[r] = entry[source[r]].buf

(* Every size agrees with the one it was taken from, but for an effect     *)
(* whose size leaves it no pixels; and a reader whose source exists is     *)
(* attached to it.                                                         *)
SizesAgree ==
  /\ \A e \in LiveEffects :
       /\ eff[e].size = Geometry(e, eff[e].layout)
       /\ eff[e].pixels # 0 /\ entry[e] # NoEntry => entry[e].dim = eff[e].size
  /\ \A r \in Reader : entry[source[r]] # NoEntry => at[r] # Null
  /\ at["preview"] # Null => frame.bytes = PreviewBytes(entry[source["preview"]].dim)

(* Nothing tells an effect or the preview that a layout has changed: they  *)
(* poll.  Once the clients are quiet, the polls carry the layout's size to *)
(* the effects, the registry and the preview's frame buffer.               *)
GeometryReachesReaders == (<>[][Tick]_vars) => <>[]SizesAgree
=============================================================================
