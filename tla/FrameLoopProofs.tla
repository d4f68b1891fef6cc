--------------------------- MODULE FrameLoopProofs ---------------------------
(*****************************************************************************)
(* Proofs about the presentation loop, for any number of slots, frames and   *)
(* events and any window sizes.                                              *)
(*                                                                           *)
(* The five ways to serve a slot are first brought to two (ServeEffect):     *)
(* nothing is presented, or a selection drawn in this era, into a back buffer*)
(* that is held.  The inductive invariant IInv adds to the properties what   *)
(* that needs: a slot drawn ahead is of this era and holds its buffer (Ahead),*)
(* a blend among them is the first since the toggle (LateBlend), what is on  *)
(* display is remembered (OnDisplay), the timeline's span fits the renderer's *)
(* history (Span), and a slot drawn ahead is the next one, selected for once  *)
(* and not presented yet (SelectedAhead).                                    *)
(*****************************************************************************)
EXTENDS FrameLoop, TLAPS

\* The back buffers of the swap chain that renderer r accounts for.
Buffers(r) == r.free + r.flying + (IF r.held THEN 1 ELSE 0)

\* The truth values, for the provers.
LEMMA Booleans == TRUE \in BOOLEAN /\ FALSE \in BOOLEAN
BY Zenon

\* The fields of a renderer.
LEMMA RendererFields ==
    ASSUME NEW r \in RendererSet
    PROVE  /\ r.history \in SUBSET Nat /\ r.source_size \in SourceSizes \cup {None}
           /\ r.active \in {None} \cup (Nat \X Nat)
           /\ r.output_size \in WindowSizes
           /\ r.free \in Nat /\ r.drawn \in SelectionSet \cup {None} /\ r.flying \in Nat
           /\ r.visible \in BOOLEAN /\ r.held \in BOOLEAN
BY DEF RendererSet

\* A renderer with another slot.
LEMMA WithHeld ==
    ASSUME NEW r \in RendererSet, NEW b \in BOOLEAN, NEW n \in Nat
    PROVE  LET q == [r EXCEPT !.held = b, !.free = n]
           IN  /\ q \in RendererSet /\ q.held = b /\ q.free = n /\ q.flying = r.flying
               /\ q.visible = r.visible /\ q.history = r.history
               /\ q.source_size = r.source_size /\ q.active = r.active
BY DEF RendererSet

\* A renderer with another visibility.
LEMMA WithVisible ==
    ASSUME NEW r \in RendererSet, NEW b \in BOOLEAN
    PROVE  LET q == [r EXCEPT !.visible = b]
           IN  /\ q \in RendererSet /\ q.visible = b /\ q.held = r.held /\ q.free = r.free
               /\ q.flying = r.flying /\ q.history = r.history
               /\ q.source_size = r.source_size /\ q.active = r.active
BY DEF RendererSet

\* AcquireSlot moves at most one back buffer from free to held.
LEMMA AcquireEffect ==
    ASSUME NEW r \in RendererSet
    PROVE  LET q == AcquireSlot(r)
           IN  /\ q \in RendererSet /\ q.flying = r.flying
               /\ q.visible = r.visible /\ q.history = r.history
               /\ q.source_size = r.source_size /\ q.active = r.active
               /\ q.held <=> r.held \/ r.free > 0
               /\ Buffers(q) = Buffers(r)
<1>1. CASE ~r.held /\ r.free > 0
  <2> DEFINE q == [r EXCEPT !.held = TRUE, !.free = r.free - 1]
  <2>1. AcquireSlot(r) = q
    BY <1>1 DEF AcquireSlot
  <2>2. r.free - 1 \in Nat /\ r.flying \in Nat /\ r.free \in Nat
    BY <1>1, RendererFields
  <2>3. /\ q \in RendererSet /\ q.held = TRUE /\ q.free = r.free - 1 /\ q.flying = r.flying
        /\ q.visible = r.visible /\ q.history = r.history
        /\ q.source_size = r.source_size /\ q.active = r.active
    BY <2>2, Booleans, WithHeld, Zenon
  <2> HIDE DEF q
  <2>4. Buffers(q) = Buffers(r)
    BY <1>1, <2>2, <2>3 DEF Buffers
  <2> QED
    BY <1>1, <2>1, <2>3, <2>4
<1>2. CASE ~(~r.held /\ r.free > 0)
  BY <1>2 DEF AcquireSlot
<1> QED
  BY <1>1, <1>2

\* Show and Hide touch nothing but the visibility.
LEMMA ShowEffect ==
    ASSUME NEW r \in RendererSet
    PROVE  LET q == Show(r)
           IN  /\ q \in RendererSet /\ q.visible /\ q.held = r.held /\ q.free = r.free
               /\ q.flying = r.flying /\ q.history = r.history
               /\ q.source_size = r.source_size /\ q.active = r.active
BY Booleans, WithVisible, Zenon DEF Show

LEMMA HideEffect ==
    ASSUME NEW r \in RendererSet
    PROVE  LET q == Hide(r)
           IN  /\ q \in RendererSet /\ ~q.visible /\ q.held = r.held /\ q.free = r.free
               /\ q.flying = r.flying /\ q.history = r.history
               /\ q.source_size = r.source_size /\ q.active = r.active
BY Booleans, WithVisible, Zenon DEF Hide

\* SelectFrames binds frames and leaves the swap chain alone.
LEMMA SelectEffect ==
    ASSUME NEW r \in RendererSet, NEW s \in SelectionSet
    PROVE  LET q == SelectFrames(r, s)
           IN  /\ q \in RendererSet /\ q.held = r.held /\ q.free = r.free /\ q.flying = r.flying
               /\ q.visible = r.visible /\ q.history = r.history
               /\ q.source_size = r.source_size
<1>1. <<s.previous, s.current>> \in Nat \X Nat
  BY DEF SelectionSet
<1> DEFINE a == <<s.previous, s.current>>
           q == [r EXCEPT !.active = a]
<1> HIDE DEF a
<1>2. /\ q \in RendererSet /\ q.held = r.held /\ q.free = r.free /\ q.flying = r.flying
      /\ q.visible = r.visible /\ q.history = r.history
      /\ q.source_size = r.source_size
  BY <1>1 DEF RendererSet, a
<1> HIDE DEF q
<1>3. SelectFrames(r, s) = q \/ SelectFrames(r, s) = r
  BY DEF SelectFrames, q, a
<1> QED
  BY <1>2, <1>3

\* Render draws into the back buffer.
LEMMA RenderEffect ==
    ASSUME NEW r \in RendererSet, NEW s \in SelectionSet
    PROVE  LET q == Render(r, s)
           IN  /\ q \in RendererSet /\ q.held = r.held /\ q.free = r.free /\ q.flying = r.flying
               /\ q.visible = r.visible /\ q.history = r.history
               /\ q.source_size = r.source_size /\ q.drawn = s
BY DEF RendererSet, Render

\* Present hands the held back buffer to the display; without one it would invent one.
LEMMA PresentEffect ==
    ASSUME NEW r \in RendererSet
    PROVE  LET q == Present(r)
           IN  /\ q \in RendererSet /\ q.visible = r.visible /\ q.history = r.history
               /\ q.source_size = r.source_size
               /\ r.held => Buffers(q) = Buffers(r)
<1>1. CASE r.visible
  <2> DEFINE n == r.flying + 1
             q(b) == [r EXCEPT !.held = b, !.flying = n, !.drawn = None]
  <2>0. n \in Nat
    BY RendererFields
  <2>5. Present(r) = q(FALSE)
    BY <1>1 DEF Present
  <2> HIDE DEF n
  <2>1. \A b \in BOOLEAN : /\ q(b) \in RendererSet /\ q(b).held = b /\ q(b).free = r.free
                           /\ q(b).flying = n
                           /\ q(b).visible = r.visible /\ q(b).history = r.history
                           /\ q(b).source_size = r.source_size
    BY <2>0 DEF RendererSet
  <2> DEFINE p == q(FALSE)
  <2> HIDE DEF q
  <2>2. /\ p \in RendererSet /\ ~p.held /\ p.free = r.free /\ p.flying = n
        /\ p.visible = r.visible /\ p.history = r.history /\ p.source_size = r.source_size
    BY <2>1, Booleans, Zenon
  <2> HIDE DEF p
  <2>3. r.held => Buffers(p) = Buffers(r)
    BY <2>2, RendererFields DEF Buffers, n
  <2> QED
    BY <2>2, <2>3, <2>5 DEF p
<1>2. CASE ~r.visible
  BY <1>2 DEF Present
<1> QED
  BY <1>1, <1>2

\* A resize gives a held back buffer back.
LEMMA FollowEffect ==
    ASSUME NEW r \in RendererSet, NEW size \in WindowSizes
    PROVE  LET q == FollowTarget(r, size)
           IN  /\ q \in RendererSet /\ q.visible = r.visible /\ q.history = r.history
               /\ q.source_size = r.source_size
               /\ Buffers(q) = Buffers(r)
<1>1. CASE r.output_size # size
  <2> DEFINE n == IF r.held THEN r.free + 1 ELSE r.free
             q(b) == [r EXCEPT !.output_size = size, !.drawn = None, !.held = b, !.free = n]
  <2>0. n \in Nat
    BY RendererFields
  <2>1. FollowTarget(r, size) = q(FALSE)
    BY <1>1 DEF FollowTarget
  <2> HIDE DEF n
  <2>2. \A b \in BOOLEAN : /\ q(b) \in RendererSet /\ q(b).held = b /\ q(b).free = n
                           /\ q(b).flying = r.flying
                           /\ q(b).visible = r.visible /\ q(b).history = r.history
                           /\ q(b).source_size = r.source_size
    BY <2>0 DEF RendererSet
  <2> DEFINE p == q(FALSE)
  <2> HIDE DEF q
  <2>3. /\ p \in RendererSet /\ ~p.held /\ p.free = n /\ p.flying = r.flying
        /\ p.visible = r.visible /\ p.history = r.history /\ p.source_size = r.source_size
    BY <2>2, Booleans, Zenon
  <2> HIDE DEF p
  <2>4. Buffers(p) = Buffers(r)
    BY <2>3, RendererFields DEF Buffers, n
  <2> QED
    BY <2>1, <2>3, <2>4 DEF p
<1>2. CASE r.output_size = size
  BY <1>2 DEF FollowTarget
<1> QED
  BY <1>1, <1>2

\* The display returns a back buffer.
LEMMA FinishEffect ==
    ASSUME NEW r \in RendererSet, r.flying > 0
    PROVE  LET q == Finish(r)
           IN  /\ q \in RendererSet /\ q.visible = r.visible /\ q.history = r.history
               /\ q.source_size = r.source_size /\ q.held = r.held
               /\ Buffers(q) = Buffers(r)
<1>1. r.flying - 1 \in Nat /\ r.free + 1 \in Nat /\ r.flying \in Nat /\ r.free \in Nat
  BY RendererFields
<1> DEFINE q == [r EXCEPT !.flying = r.flying - 1, !.free = r.free + 1]
<1>2. /\ q \in RendererSet /\ q.visible = r.visible /\ q.history = r.history
      /\ q.source_size = r.source_size /\ q.held = r.held
      /\ q.flying = r.flying - 1 /\ q.free = r.free + 1
  BY <1>1 DEF RendererSet
<1>3. Finish(r) = q
  BY DEF Finish
<1> HIDE DEF q
<1>4. Buffers(q) = Buffers(r)
  BY <1>1, <1>2 DEF Buffers
<1> QED
  BY <1>2, <1>3, <1>4

\* A frame stored stays with the newest of the history it can be drawn with.
LEMMA StoreEffect ==
    ASSUME NEW r \in RendererSet, NEW k \in Nat, NEW size \in SourceSizes
    PROVE  LET q == StoreCapturedFrame(r, k, size)
           IN  /\ q \in RendererSet /\ q.held = r.held /\ q.free = r.free /\ q.flying = r.flying
               /\ q.visible = r.visible
               /\ q.source_size = size
               /\ \A s \in Int : s > k - RendererHistory /\ r.source_size = size /\ s \in r.history
                                  => s \in q.history
               /\ k \in q.history
<1> DEFINE same == r.source_size = size
           a == IF same THEN r.active ELSE None
           h == {s \in (IF same THEN r.history ELSE {}) \cup {k} : s > k - RendererHistory}
           q == [r EXCEPT !.source_size = size, !.active = a, !.history = h]
<1>1. a \in {None} \cup (Nat \X Nat) /\ h \in SUBSET Nat
  BY RendererFields
<1>2. /\ \A s \in Int : s > k - RendererHistory /\ r.source_size = size /\ s \in r.history
                             => s \in h
      /\ k \in h
  BY RendererAssumption DEF RendererAssumption
<1>3. StoreCapturedFrame(r, k, size) = q
  BY DEF StoreCapturedFrame
<1> HIDE DEF a, h
<1>4. /\ q \in RendererSet /\ q.held = r.held /\ q.free = r.free /\ q.flying = r.flying
      /\ q.visible = r.visible /\ q.source_size = size /\ q.history = h
  BY <1>1 DEF RendererSet
<1> HIDE DEF q
<1> QED
  BY <1>2, <1>3, <1>4

\* A selection, submitted or not.
LEMMA SelectionMade ==
    ASSUME NEW m \in {"no_frame", "real_frame", "interpolate", "ceiling_hold"},
           NEW p \in Nat, NEW c \in Nat, NEW b \in BOOLEAN
    PROVE  [mode |-> m, previous |-> p, current |-> c, submit |-> b] \in SelectionSet
BY DEF SelectionSet

\* What the selector may answer is a selection, and no blend without generation.
LEMMA SelectionsType ==
    ASSUME TypeOK, NEW s \in Selections
    PROVE  /\ s \in SelectionSet
           /\ ~enabled => s.mode # "interpolate"
<1>1. /\ oldest \in Nat /\ newest \in Nat
      /\ \A k \in Resident : k \in Nat /\ k + 1 \in Nat
      /\ 0 \in Nat
  <2>1. oldest \in Nat /\ newest \in Nat
    <3>1. {pressed, due, events, captured, toggle_count, observed_toggles, oldest, newest,
           next_slot, missed, era, late_blends} \subseteq Nat
      BY Zenon DEF TypeOK
    <3> QED
      BY <3>1
  <2> QED
    BY <2>1 DEF Resident
<1>2. NoSelection \in SelectionSet /\ NoSelection.mode # "interpolate"
  <2>1. NoSelection \in SelectionSet
    BY <1>1, Booleans, SelectionMade, Zenon DEF NoSelection
  <2> QED
    BY <2>1 DEF NoSelection
<1>3. ASSUME NEW k \in Resident
      PROVE  RealFrame(k) \in SelectionSet /\ RealFrame(k).mode # "interpolate"
  <2>1. RealFrame(k) \in SelectionSet
    BY <1>1, Booleans, SelectionMade, Zenon DEF RealFrame
  <2> QED
    BY <2>1 DEF RealFrame
<1>4. ASSUME NEW k \in Resident
      PROVE  Blend(k) \in SelectionSet
  BY <1>1, Booleans, SelectionMade, Zenon DEF Blend
<1>5. Hold \in SelectionSet /\ Hold.mode # "interpolate"
  <2>1. Hold \in SelectionSet
    BY <1>1, Booleans, SelectionMade, Zenon DEF Hold
  <2> QED
    BY <2>1 DEF Hold
<1>6. Resident # {} => newest \in Resident
  BY <1>1 DEF Resident
<1>7. \/ s = NoSelection \/ s = Hold
      \/ \E k \in Resident : s = RealFrame(k)
      \/ enabled /\ \E k \in Resident : s = Blend(k)
  BY <1>6, Zenon DEF Selections
<1> QED
  BY <1>2, <1>3, <1>4, <1>5, <1>7

\* Drawing for the slot that is due, whether it succeeds or not.
LEMMA RenderedEffect ==
    ASSUME NEW s \in SelectionSet, renderer \in RendererSet
    PROVE  LET q == Rendered(s)
           IN  /\ q \in RendererSet /\ q.visible = renderer.visible
               /\ q.history = renderer.history /\ q.source_size = renderer.source_size
               /\ CanRender(s) => q.held
               /\ Buffers(q) = Buffers(renderer)
<1>1. CASE ~CanSelect(renderer, s)
  BY <1>1 DEF Rendered, CanRender
<1>2. CASE CanSelect(renderer, s)
  <2> DEFINE p == SelectFrames(renderer, s)
             a == AcquireSlot(p)
  <2>1. Rendered(s) = IF a.held THEN Render(a, s) ELSE a
    BY <1>2 DEF Rendered
  <2>2. /\ p \in RendererSet /\ p.held = renderer.held /\ p.free = renderer.free
        /\ p.flying = renderer.flying /\ p.visible = renderer.visible
        /\ p.history = renderer.history /\ p.source_size = renderer.source_size
    BY SelectEffect
  <2> HIDE DEF p
  <2>3. /\ a \in RendererSet /\ a.visible = p.visible
        /\ a.history = p.history /\ a.source_size = p.source_size
        /\ a.held <=> p.held \/ p.free > 0
        /\ Buffers(a) = Buffers(p)
    BY <2>2, AcquireEffect
  <2>4. Buffers(p) = Buffers(renderer)
    BY <2>2 DEF Buffers
  <2>5. CanRender(s) => a.held
    BY <2>2, <2>3, AcquireEffect DEF CanRender
  <2> HIDE DEF a
  <2>6. /\ Render(a, s) \in RendererSet /\ Render(a, s).visible = a.visible
        /\ Render(a, s).history = a.history /\ Render(a, s).source_size = a.source_size
        /\ Render(a, s).held = a.held
        /\ Buffers(Render(a, s)) = Buffers(a)
    BY <2>3, RenderEffect DEF Buffers
  <2> QED
    BY <2>1, <2>2, <2>3, <2>4, <2>5, <2>6
<1> QED
  BY <1>1, <1>2

\* Drawing into a back buffer that is held.
LEMMA DrawEffect ==
    ASSUME NEW s \in SelectionSet, NEW r \in RendererSet
    PROVE  LET q == Render(SelectFrames(r, s), s)
           IN  /\ q \in RendererSet /\ q.visible = r.visible /\ q.history = r.history
               /\ q.source_size = r.source_size /\ q.held = r.held
               /\ Buffers(q) = Buffers(r)
<1> DEFINE p == SelectFrames(r, s)
<1>1. /\ p \in RendererSet /\ p.held = r.held /\ p.free = r.free
      /\ p.flying = r.flying /\ p.visible = r.visible
      /\ p.history = r.history /\ p.source_size = r.source_size
  BY SelectEffect
<1> HIDE DEF p
<1>2. /\ Render(p, s) \in RendererSet /\ Render(p, s).visible = p.visible
      /\ Render(p, s).history = p.history /\ Render(p, s).source_size = p.source_size
      /\ Render(p, s).held = p.held
      /\ Render(p, s).free = p.free /\ Render(p, s).flying = p.flying
  BY <1>1, RenderEffect
<1> QED
  BY <1>1, <1>2 DEF Buffers, p

------------------------------------------------------------------------------
\* The slot drawn ahead was rendered.
DrawnAhead == prepared # None /\ prepared.rendered

Ahead ==
    /\ prepared # None => pacing_mode = "queued"
    /\ DrawnAhead => prepared.era = era /\ (torn \/ renderer.held)

\* A renderer that differs from the present one in the slot it holds and in what
\* it has bound and drawn.
Offered(q) ==
    /\ q \in RendererSet
    /\ q.visible = renderer.visible
    /\ q.history = renderer.history /\ q.source_size = renderer.source_size
    /\ Buffers(q) = Buffers(renderer)

Serve == ServeNothing \/ ServeHidden \/ ServePrepared \/ ServeSlotNow \/ ServeUnpaced

ServesNothing == last_real' = last_real /\ \E q \in RendererSet : Offered(q) /\ PresentsNothing(q)

ServesSelection ==
    /\ presentable
    /\ \E q \in RendererSet, s \in SelectionSet :
        /\ Offered(q) /\ (torn \/ q.held)
        /\ PresentSelection(q, s, era)
        /\ s.mode = "interpolate" /\ ~enabled => DrawnAhead /\ prepared.selection = s
        /\ IF pacing_mode = "unpaced"
           THEN s.mode # "interpolate" => last_real # s.current /\ last_real' = s.current
           ELSE last_real' = last_real

\* Serving presents nothing, or what may be presented now.
LEMMA ServeEffect ==
    ASSUME TypeOK, Ahead, Serve
    PROVE  ServesNothing \/ ServesSelection
<1>0. renderer \in RendererSet /\ Offered(renderer)
  BY DEF TypeOK, Offered
<1>1. CASE ServeNothing \/ ServeHidden
  <2>1. PresentsNothing(renderer) /\ last_real' = last_real
    BY <1>1 DEF ServeNothing, ServeHidden
  <2> QED
    BY <1>0, <2>1 DEF ServesNothing
<1>2. CASE ServePrepared
  <2>0. /\ pacing_mode # "unpaced" /\ presentable /\ prepared # None /\ last_real' = last_real
        /\ prepared.selection \in SelectionSet
    BY <1>2 DEF ServePrepared, clocked, TypeOK, PreparedSlots
  <2>1. CASE ~prepared.rendered
    <3>1. PresentsNothing(renderer)
      BY <1>2, <2>1 DEF ServePrepared
    <3> QED
      BY <1>0, <2>0, <3>1 DEF ServesNothing
  <2>2. CASE prepared.rendered
    <3>1. /\ prepared.era = era /\ (torn \/ renderer.held) /\ DrawnAhead
          /\ PresentSelection(renderer, prepared.selection, era)
      BY <1>2, <2>0, <2>2 DEF ServePrepared, Ahead, DrawnAhead
    <3> QED
      BY <1>0, <2>0, <3>1 DEF ServesSelection
  <2> QED
    BY <2>1, <2>2
<1>3. CASE ServeSlotNow
  <2>0. pacing_mode # "unpaced" /\ presentable /\ last_real' = last_real
    BY <1>3 DEF ServeSlotNow, clocked
  <2>1. PICK s \in Selections :
            IF s.submit /\ CanRender(s)
            THEN PresentSelection(Rendered(s), s, era)
            ELSE PresentsNothing(IF s.submit THEN Rendered(s) ELSE renderer)
    BY <1>3 DEF ServeSlotNow
  <2>2. s \in SelectionSet /\ (~enabled => s.mode # "interpolate")
    BY SelectionsType
  <2>3. /\ Rendered(s) \in RendererSet /\ Offered(Rendered(s))
        /\ CanRender(s) => Rendered(s).held
    BY <1>0, <2>2, RenderedEffect DEF Offered
  <2>4. CASE s.submit /\ CanRender(s)
    <3>1. PresentSelection(Rendered(s), s, era)
      BY <2>1, <2>4
    <3> QED
      BY <2>0, <2>2, <2>3, <2>4, <3>1 DEF ServesSelection
  <2>5. CASE ~(s.submit /\ CanRender(s))
    <3>1. PresentsNothing(Rendered(s)) \/ PresentsNothing(renderer)
      BY <2>1, <2>5
    <3> QED
      BY <1>0, <2>0, <2>3, <3>1 DEF ServesNothing
  <2> QED
    BY <2>4, <2>5
<1>4. CASE ServeUnpaced
  <2> DEFINE a == AcquireSlot(renderer)
  <2>1. PICK s \in Selections :
            IF s.submit /\ ~(s.mode # "interpolate" /\ last_real = s.current) /\ CanSelect(a, s)
            THEN /\ PresentSelection(Render(SelectFrames(a, s), s), s, era)
                 /\ last_real' = IF s.mode # "interpolate" THEN s.current ELSE None
            ELSE PresentsNothing(a) /\ UNCHANGED last_real
    BY <1>4 DEF ServeUnpaced
  <2>2. s \in SelectionSet /\ (~enabled => s.mode # "interpolate")
    BY SelectionsType
  <2>3. a.held /\ presentable /\ pacing_mode = "unpaced"
    BY <1>4 DEF ServeUnpaced, clocked
  <2>4. a \in RendererSet /\ Offered(a)
    BY <1>0, AcquireEffect DEF Offered
  <2> HIDE DEF a
  <2> DEFINE q == Render(SelectFrames(a, s), s)
  <2>5. q \in RendererSet /\ Offered(q) /\ q.held
    BY <2>2, <2>3, <2>4, DrawEffect DEF Offered
  <2> HIDE DEF q
  <2>6. CASE s.submit /\ ~(s.mode # "interpolate" /\ last_real = s.current) /\ CanSelect(a, s)
    <3>1. /\ PresentSelection(q, s, era)
          /\ last_real' = IF s.mode # "interpolate" THEN s.current ELSE None
      BY <2>1, <2>6 DEF q
    <3> QED
      BY <2>2, <2>3, <2>5, <2>6, <3>1 DEF ServesSelection
  <2>7. CASE ~(s.submit /\ ~(s.mode # "interpolate" /\ last_real = s.current) /\ CanSelect(a, s))
    <3>1. PresentsNothing(a) /\ last_real' = last_real
      BY <2>1, <2>7
    <3> QED
      BY <2>4, <3>1 DEF ServesNothing
  <2> QED
    BY <2>6, <2>7
<1> QED
  BY <1>1, <1>2, <1>3, <1>4 DEF Serve

Ledger == [presented : Nat, idle : Nat]

Answers == [slot : Nat, times : Nat, presents : Nat]

\* A slot is booked once.
LEMMA BookEffect ==
    ASSUME ledger \in Ledger, NEW outcome \in {"presented", "idle"}
    PROVE  /\ Booked(outcome) \in Ledger
           /\ Booked(outcome).presented + Booked(outcome).idle
                 = ledger.presented + ledger.idle + 1
<1> DEFINE p == ledger.presented + 1
           i == ledger.idle + 1
<1>1. ledger.presented \in Nat /\ ledger.idle \in Nat /\ p \in Nat /\ i \in Nat
  BY DEF Ledger
<1>2. CASE outcome = "presented"
  <2>1. Booked(outcome) = [ledger EXCEPT !.presented = p]
    BY <1>2, Zenon DEF Booked
  <2> HIDE DEF p
  <2>2. LET q == [ledger EXCEPT !.presented = p]
        IN  q \in Ledger /\ q.presented = p /\ q.idle = ledger.idle
    BY <1>1 DEF Ledger
  <2> QED
    BY <1>1, <2>1, <2>2 DEF p
<1>3. CASE outcome = "idle"
  <2>1. Booked(outcome) = [ledger EXCEPT !.idle = i]
    BY <1>3, Zenon DEF Booked
  <2> HIDE DEF i
  <2>2. LET q == [ledger EXCEPT !.idle = i]
        IN  q \in Ledger /\ q.idle = i /\ q.presented = ledger.presented
    BY <1>1 DEF Ledger
  <2> QED
    BY <1>1, <2>1, <2>2 DEF i
<1> QED
  BY <1>2, <1>3

\* A selection for a slot, and a present of what was selected.
LEMMA AskedEffect ==
    ASSUME asked \in Answers, NEW slot \in Nat
    PROVE  /\ AskedFor(slot) \in Answers /\ AskedFor(slot).slot = slot
           /\ asked.slot = slot => /\ AskedFor(slot).times = asked.times + 1
                                   /\ AskedFor(slot).presents = asked.presents
           /\ asked.slot # slot => AskedFor(slot).times = 1 /\ AskedFor(slot).presents = 0
BY DEF AskedFor, Answers

LEMMA PresentedEffect ==
    ASSUME NEW a \in Answers
    PROVE  /\ Presented(a) \in Answers /\ Presented(a).slot = a.slot
           /\ Presented(a).times = a.times /\ Presented(a).presents = a.presents + 1
BY DEF Presented, Answers

\* Every slot has one outcome.
Accounted == next_slot = ledger.presented + ledger.idle + missed

\* What was selected for a slot is presented once and not before its time.
Answered ==
    /\ asked.times <= 1
    /\ asked.presents <= asked.times
    /\ asked.presents > 0 => asked.slot < next_slot

\* The slot to come was selected for exactly if it is drawn ahead.
SelectedAhead ==
    /\ asked.slot <= next_slot
    /\ prepared # None => asked.slot = next_slot /\ asked.times = 1 /\ asked.presents = 0
    /\ prepared = None /\ asked.slot = next_slot => asked.times = 0

\* A slot is taken and booked, or counted missed.
Settles ==
    \/ TakeSlot(1) /\ ledger' = ledger
    \/ TakeSlot(0) /\ \E outcome \in {"presented", "idle"} : ledger' = Booked(outcome)

\* Taking a slot settles it and the slots passed over.
LEMMA SettleEffect ==
    ASSUME TypeOK, Settles
    PROVE  /\ ledger' \in Ledger /\ next_slot' \in Nat /\ missed' \in Nat /\ due' = 0
           /\ due \in Nat /\ due > 0 /\ next_slot' = next_slot + due
           /\ Accounted => Accounted'
<1>1. /\ ledger \in Ledger /\ due \in Nat /\ next_slot \in Nat /\ missed \in Nat
      /\ ledger.presented \in Nat /\ ledger.idle \in Nat
  BY DEF TypeOK, Ledger
<1>2. CASE TakeSlot(1) /\ ledger' = ledger
  BY <1>1, <1>2 DEF TakeSlot, Accounted
<1>3. CASE TakeSlot(0) /\ \E outcome \in {"presented", "idle"} : ledger' = Booked(outcome)
  <2>1. /\ ledger' \in Ledger
        /\ ledger'.presented + ledger'.idle = ledger.presented + ledger.idle + 1
    BY <1>1, <1>3, BookEffect
  <2>2. ledger'.presented \in Nat /\ ledger'.idle \in Nat
    BY <2>1 DEF Ledger
  <2> QED
    BY <1>1, <1>3, <2>1, <2>2 DEF TakeSlot, Accounted
<1> QED
  BY <1>2, <1>3 DEF Settles

\* The slot is answered by what was drawn ahead, by a selection made now, or not at all.
AnswersNow ==
    \/ asked' = asked
    \/ prepared # None /\ asked' = Presented(asked)
    \/ /\ prepared = None
       /\ asked' \in {AskedFor(next_slot + due - 1), Presented(AskedFor(next_slot + due - 1))}

\* What serving does to the clock and the books.
LEMMA ServeClock ==
    ASSUME TypeOK, Serve
    PROVE  \/ UNCHANGED <<due, prepared, next_slot, missed, ledger, asked>>
           \/ Settles /\ AnswersNow /\ prepared' = None
<1>1. CASE ServeNothing \/ ServeUnpaced
  BY <1>1 DEF ServeNothing, ServeUnpaced, clock
<1>2. CASE ServeHidden
  BY <1>2 DEF ServeHidden, Settles, AnswersNow
<1>3. CASE ServePrepared
  <2>1. prepared # None /\ prepared' = None
    BY <1>3 DEF ServePrepared
  <2>2. CASE prepared.rendered
    <3>1. TakeSlot(0) /\ ledger' = Booked("presented") /\ asked' = Presented(asked)
      BY <1>3, <2>2 DEF ServePrepared
    <3> QED
      BY <2>1, <3>1 DEF Settles, AnswersNow
  <2>3. CASE ~prepared.rendered
    <3>1. LeaveUnfilled(prepared.selection) /\ asked' = asked
      BY <1>3, <2>3 DEF ServePrepared
    <3> QED
      BY <2>1, <3>1 DEF LeaveUnfilled, Settles, AnswersNow
  <2> QED
    BY <2>2, <2>3
<1>4. CASE ServeSlotNow
  <2>1. prepared = None /\ prepared' = None
    BY <1>4 DEF ServeSlotNow
  <2> DEFINE answer == AskedFor(next_slot + due - 1)
  <2> HIDE DEF answer
  <2>2. PICK s \in Selections :
            \/ TakeSlot(0) /\ ledger' = Booked("presented") /\ asked' = Presented(answer)
            \/ LeaveUnfilled(s) /\ asked' = answer
    BY <1>4, Zenon DEF ServeSlotNow, answer
  <2>3. Settles
    BY <2>2 DEF LeaveUnfilled, Settles
  <2>4. asked' \in {answer, Presented(answer)}
    BY <2>2
  <2> QED
    BY <2>1, <2>3, <2>4 DEF AnswersNow, answer
<1> QED
  BY <1>1, <1>2, <1>3, <1>4 DEF Serve

\* The books after serving.
LEMMA ServeBooks ==
    ASSUME TypeOK, Serve, SelectedAhead, Answered, Accounted
    PROVE  SelectedAhead' /\ Answered' /\ Accounted'
<1>1. CASE UNCHANGED <<due, prepared, next_slot, missed, ledger, asked>>
  BY <1>1 DEF SelectedAhead, Answered, Accounted
<1>2. CASE Settles /\ AnswersNow /\ prepared' = None
  <2>1. /\ due \in Nat /\ due > 0 /\ next_slot' = next_slot + due /\ next_slot \in Nat
        /\ Accounted'
    BY <1>2, SettleEffect DEF TypeOK
  <2>2. asked \in Answers
    BY DEF TypeOK, Answers
  <2>3. asked.slot \in Nat /\ asked.times \in Nat /\ asked.presents \in Nat
    BY <2>2 DEF Answers
  <2>4. CASE asked' = asked
    BY <1>2, <2>1, <2>3, <2>4 DEF SelectedAhead, Answered
  <2>5. CASE prepared # None /\ asked' = Presented(asked)
    BY <1>2, <2>1, <2>2, <2>3, <2>5, PresentedEffect DEF SelectedAhead, Answered
  <2>6. CASE /\ prepared = None
             /\ asked' \in {AskedFor(next_slot + due - 1), Presented(AskedFor(next_slot + due - 1))}
    <3> DEFINE k == next_slot + due - 1
               answer == AskedFor(k)
    <3>1. k \in Nat /\ k >= next_slot /\ k < next_slot'
      BY <2>1
    <3>2. /\ answer \in Answers /\ answer.slot = k
          /\ asked.slot = k => answer.times = asked.times + 1 /\ answer.presents = asked.presents
          /\ asked.slot # k => answer.times = 1 /\ answer.presents = 0
      BY <2>2, <3>1, AskedEffect
    <3>3. asked' \in {answer, Presented(answer)}
      BY <2>6
    <3> HIDE DEF k, answer
    <3>4. answer.times = 1 /\ answer.presents = 0
      BY <2>1, <2>3, <2>6, <3>1, <3>2 DEF SelectedAhead, Answered
    <3>5. asked'.slot = k /\ asked'.times = 1 /\ asked'.presents \in {0, 1}
      BY <3>2, <3>3, <3>4, PresentedEffect
    <3> QED
      BY <1>2, <2>1, <3>1, <3>5 DEF SelectedAhead, Answered
  <2> QED
    BY <1>2, <2>4, <2>5, <2>6 DEF AnswersNow
<1> QED
  BY <1>1, <1>2, ServeClock

\* The flags, the counters, what is around the loop, and what the loop holds.
Flags == {silent, capturing, enabled, was_iconic, presentable, torn} \subseteq BOOLEAN

Counters == {pressed, due, events, captured, toggle_count, observed_toggles, oldest, newest,
             next_slot, missed, era, late_blends} \subseteq Nat

Around ==
    /\ target \in {"front", "back", "minimized"}
    /\ window_size \in WindowSizes
    /\ arrivals \in Seq([size : SourceSizes, late : BOOLEAN])

PreparedSet == {None} \cup PreparedSlots

Held ==
    /\ pc \in Phases
    /\ pacing_mode \in {"paced", "queued", "unpaced"}
    /\ prepared \in PreparedSet
    /\ last_real \in Nat \cup {None}
    /\ frame_size \in SourceSizes \cup {None}
    /\ ledger \in Ledger
    /\ asked \in Answers
    /\ on_screen \in {None} \cup [selection : SelectionSet, era : Nat]

\* The type invariant, taken apart and put together.
LEMMA TypeParts ==
    TypeOK <=> renderer \in RendererSet /\ Flags /\ Counters /\ Around /\ Held
BY Zenon DEF TypeOK, Flags, Counters, Around, Held, Ledger, Answers, PreparedSet

LEMMA TypePartsNext ==
    ASSUME renderer' \in RendererSet, Flags', Counters', Around', Held'
    PROVE  TypeOK'
BY Zenon DEF TypeOK, Flags, Counters, Around, Held, Ledger, Answers, PreparedSet

\* The parts of the type that the safety proofs read.
LEMMA Numbers ==
    ASSUME TypeOK
    PROVE  /\ renderer \in RendererSet
           /\ oldest \in Nat /\ newest \in Nat /\ era \in Nat
           /\ on_screen # None => on_screen.era \in Nat
<1>1. renderer \in RendererSet /\ Counters /\ Held
  BY TypeParts
<1>2. oldest \in Nat /\ newest \in Nat /\ era \in Nat
  BY <1>1 DEF Counters
<1>3. on_screen \in {None} \cup [selection : SelectionSet, era : Nat]
  BY <1>1, Zenon DEF Held
<1>4. on_screen # None => on_screen.era \in Nat
  BY <1>3
<1> QED
  BY <1>1, <1>2, <1>4

\* What the surroundings do to themselves.
LEMMA SurroundingsType ==
    ASSUME TypeOK,
           \/ \E size \in SourceSizes, late \in BOOLEAN : Capture(size, late)
           \/ ComeDue \/ Disturb
    PROVE  TypeOK'
<1>0. renderer \in RendererSet /\ Flags /\ Counters /\ Around /\ Held
  BY TypeParts
<1>1. ASSUME NEW size \in SourceSizes, NEW late \in BOOLEAN, Capture(size, late)
      PROVE  TypeOK'
  <2>1. Held' /\ renderer' = renderer
    <3>1. renderer' = renderer /\ UNCHANGED loop
      BY <1>1, Zenon DEF Capture
    <3>2. UNCHANGED <<pc, pacing_mode, prepared, last_real, frame_size, ledger, asked, on_screen>>
      BY <3>1, Zenon DEF loop, past, source
    <3> QED
      BY <1>0, <3>1, <3>2, Zenon DEF Held
  <2>2. Flags'
    BY <1>0, <1>1, Zenon DEF Capture, Flags, loop, past, toggling
  <2>3. Counters'
    <3>1. /\ captured' = captured + 1
          /\ events' = IF late THEN events + 1 ELSE events
          /\ UNCHANGED <<pressed, due>> /\ UNCHANGED loop
      BY <1>1, Zenon DEF Capture
    <3>2. UNCHANGED <<toggle_count, observed_toggles, oldest, newest, next_slot, missed, era,
                      late_blends>>
      BY <3>1, Zenon DEF loop, past, toggling, source, clock
    <3> QED
      BY <1>0, <3>1, <3>2 DEF Counters
  <2>4. [size |-> size, late |-> late] \in [size : SourceSizes, late : BOOLEAN]
    BY Zenon
  <2>5. arrivals' = Append(arrivals, [size |-> size, late |-> late])
    BY <1>1, Zenon DEF Capture
  <2>6. Around'
    BY <1>0, <1>1, <2>4, <2>5 DEF Capture, Around
  <2> QED
    BY <1>0, <2>1, <2>2, <2>3, <2>6, TypePartsNext
<1>2. CASE ComeDue
  <2>1. Held' /\ Around' /\ renderer' = renderer
    BY <1>0, <1>2 DEF ComeDue, Held, Around, loop, past, source
  <2>2. Flags'
    BY <1>0, <1>2, Zenon DEF ComeDue, Flags, loop, past, toggling
  <2>3. Counters'
    BY <1>0, <1>2 DEF ComeDue, Counters, loop, past, toggling, source, clock
  <2> QED
    BY <1>0, <2>1, <2>2, <2>3, TypePartsNext
<1>3. CASE Disturb
  <2>1. Held' /\ renderer' = renderer
    BY <1>0, <1>3 DEF Disturb, Held, loop, past, source
  <2>2. Flags'
    <3>1. /\ capturing' = capturing \/ capturing' = (capturing /\ target' # "minimized")
          /\ silent' = silent \/ silent' = TRUE
          /\ UNCHANGED <<enabled, was_iconic, presentable, torn>>
      BY <1>3, Zenon DEF Disturb, loop, past, toggling
    <3>2. capturing' \in BOOLEAN /\ silent' \in BOOLEAN
      BY <1>0, <3>1, Zenon DEF Flags
    <3> QED
      BY <1>0, <3>1, <3>2, Zenon DEF Flags
  <2>3. Counters'
    BY <1>0, <1>3 DEF Disturb, Counters, loop, past, toggling, source, clock
  <2>4. Around'
    BY <1>0, <1>3, Zenon DEF Disturb, Around
  <2> QED
    BY <1>0, <2>1, <2>2, <2>3, <2>4, TypePartsNext
<1> QED
  BY <1>1, <1>2, <1>3

\* Polling, and the steps that leave the renderer and the clock alone.
LEMMA PollingType ==
    ASSUME TypeOK, Pump \/ Quit \/ NoRestore \/ Restore \/ RestoreFails \/ DrainEnd \/ Toggle
                   \/ SkipPrepare
    PROVE  TypeOK'
<1>0. renderer \in RendererSet /\ Flags /\ Counters /\ Around /\ Held
  BY TypeParts
<1>1. CASE Pump \/ Quit
  <2>1. Held' /\ Around' /\ renderer' = renderer
    BY <1>0, <1>1 DEF Pump, Quit, Held, Around, past, source, Phases
  <2>2. Flags'
    BY <1>0, <1>1, Zenon DEF Pump, Quit, Flags, past, toggling
  <2>3. Counters'
    BY <1>0, <1>1 DEF Pump, Quit, Counters, past, source, clock, toggling
  <2> QED
    BY <1>0, <2>1, <2>2, <2>3, TypePartsNext
<1>2. CASE NoRestore \/ DrainEnd \/ SkipPrepare
  <2>1. Held' /\ Around' /\ renderer' = renderer
    BY <1>0, <1>2 DEF NoRestore, DrainEnd, SkipPrepare, Held, Around, past, source, Phases,
                      environment
  <2>2. Flags'
    <3>1. was_iconic' = was_iconic \/ was_iconic' = (target = "minimized")
      BY <1>2, Zenon DEF NoRestore, DrainEnd, SkipPrepare, Iconic
    <3>2. was_iconic' \in BOOLEAN
      BY <1>0, <3>1, Zenon DEF Flags
    <3> QED
      BY <1>0, <1>2, <3>2, Zenon DEF NoRestore, DrainEnd, SkipPrepare, Flags, past, toggling,
                                     environment
  <2>3. Counters'
    BY <1>0, <1>2 DEF NoRestore, DrainEnd, SkipPrepare, Counters, past, source, clock, toggling,
                      environment
  <2> QED
    BY <1>0, <2>1, <2>2, <2>3, TypePartsNext
<1>3. CASE RestoreFails
  <2>1. Held' /\ renderer' = renderer
    BY <1>0, <1>3 DEF RestoreFails, Held, past, source, Phases
  <2>2. Flags'
    BY <1>0, <1>3, Zenon DEF RestoreFails, Flags, past, toggling
  <2>3. Counters'
    BY <1>0, <1>3 DEF RestoreFails, Counters, past, source, clock, toggling
  <2>4. Around'
    BY <1>0, <1>3 DEF RestoreFails, Around
  <2> QED
    BY <1>0, <2>1, <2>2, <2>3, <2>4, TypePartsNext
<1>4. CASE Restore
  <2>0. Discarded \in PreparedSet
    BY <1>0 DEF Held, PreparedSet, PreparedSlots, Discarded
  <2>1. Held' /\ renderer' = renderer
    BY <1>0, <1>4, <2>0 DEF Restore, Held, past, Phases
  <2>2. Flags'
    BY <1>0, <1>4, Zenon DEF Restore, Flags, past, toggling
  <2>3. Counters'
    <3>1. newest + 1 \in Nat /\ era + 1 \in Nat
      BY <1>0 DEF Counters
    <3>2. oldest' = newest + 1 /\ newest' = newest /\ era' = era + 1
      BY <1>4 DEF Restore
    <3>3. UNCHANGED <<pressed, due, events, captured, toggle_count, observed_toggles,
                      next_slot, missed, late_blends>>
      BY <1>4 DEF Restore, past, clock, toggling
    <3>4. {pressed, due, events, captured, toggle_count, observed_toggles, next_slot, missed,
           late_blends, newest} \subseteq Nat
      BY <1>0 DEF Counters
    <3>5. {oldest', newest', era'} \subseteq Nat
      BY <3>1, <3>2, <3>4
    <3> QED
      BY <3>3, <3>4, <3>5 DEF Counters
  <2>4. Around'
    BY <1>0, <1>4 DEF Restore, Around
  <2> QED
    BY <1>0, <2>1, <2>2, <2>3, <2>4, TypePartsNext
<1>5. CASE Toggle
  <2>1. Held' /\ Around' /\ renderer' = renderer
    BY <1>0, <1>5 DEF Toggle, Held, Around, past, source, Phases, environment
  <2>2. Flags'
    <3>1. enabled' = enabled \/ enabled' = ~enabled
      BY <1>5, Zenon DEF Toggle
    <3>2. enabled' \in BOOLEAN
      BY <1>0, <3>1, Zenon DEF Flags
    <3> QED
      BY <1>0, <1>5, <3>2, Zenon DEF Toggle, Flags, environment
  <2>3. Counters'
    BY <1>0, <1>5 DEF Toggle, Counters, source, clock, environment
  <2> QED
    BY <1>0, <2>1, <2>2, <2>3, TypePartsNext
<1> QED
  BY <1>1, <1>2, <1>3, <1>4, <1>5

\* The overlay stays as it is, comes into view, or goes out of it.
EdgeStays ==
    /\ presentable' = presentable
    /\ UNCHANGED <<prepared, last_real, era, renderer, asked>>

EdgeShows ==
    /\ ~presentable /\ presentable'
    /\ prepared' = None /\ last_real' = None /\ era' = era + 1
    /\ asked' = [asked EXCEPT !.times = 0, !.presents = 0]
    /\ renderer' \in {renderer, Show(renderer)}

EdgeHides ==
    /\ presentable /\ ~presentable'
    /\ renderer' = Hide(renderer)
    /\ UNCHANGED <<prepared, last_real, era, asked>>

\* An edge is one of the three.
LEMMA EdgeEffect ==
    ASSUME TypeOK, Edge
    PROVE  presentable' \in BOOLEAN /\ (EdgeStays \/ EdgeShows \/ EdgeHides)
<1>1. PresentableNow \in BOOLEAN /\ presentable' = PresentableNow
  BY Zenon DEF PresentableNow, Edge
<1>2. presentable \in BOOLEAN
  BY TypeParts, Zenon DEF Flags
<1> HIDE DEF PresentableNow
<1>3. CASE PresentableNow = presentable
  BY <1>1, <1>3, Zenon DEF Edge, EdgeStays
<1>4. CASE PresentableNow /\ ~presentable
  BY <1>1, <1>4 DEF Edge, EdgeShows
<1>5. CASE ~PresentableNow /\ presentable
  BY <1>1, <1>5 DEF Edge, EdgeHides
<1>6. \/ PresentableNow = presentable \/ (PresentableNow /\ ~presentable)
      \/ (~PresentableNow /\ presentable)
  <2>1. \A a, b \in BOOLEAN : a = b \/ (a /\ ~b) \/ (~a /\ b)
    OBVIOUS
  <2> QED
    BY <1>1, <1>2, <2>1, Zenon
<1> QED
  BY <1>1, <1>3, <1>4, <1>5, <1>6, Zenon

\* Coming into view forgets the selections made for the slot.
LEMMA ForgottenEffect ==
    ASSUME asked \in Answers
    PROVE  LET a == [asked EXCEPT !.times = 0, !.presents = 0]
           IN  a \in Answers /\ a.slot = asked.slot /\ a.times = 0 /\ a.presents = 0
BY DEF Answers

\* Showing and hiding keep the types.
LEMMA EdgeType ==
    ASSUME TypeOK, Edge
    PROVE  TypeOK'
<1>0. renderer \in RendererSet /\ Flags /\ Counters /\ Around /\ Held
  BY TypeParts
<1>1. /\ renderer' \in {renderer, Show(renderer), Hide(renderer)}
      /\ prepared' \in {prepared, None} /\ last_real' \in {last_real, None}
      /\ era' \in {era, era + 1}
      /\ presentable' \in BOOLEAN
  BY EdgeEffect, Zenon DEF EdgeStays, EdgeShows, EdgeHides
<1>2. renderer' \in RendererSet
  BY <1>0, <1>1, ShowEffect, HideEffect, Zenon
<1>6. asked' \in Answers
  <2>1. asked' = asked \/ asked' = [asked EXCEPT !.times = 0, !.presents = 0]
    BY EdgeEffect, Zenon DEF EdgeStays, EdgeShows, EdgeHides
  <2> QED
    BY <1>0, <2>1, ForgottenEffect DEF Held
<1>3. Held' /\ Around'
  BY <1>0, <1>1, <1>6 DEF Edge, Held, Around, source, Phases, environment, PreparedSet
<1>4. Flags'
  BY <1>0, <1>1, Zenon DEF Edge, Flags, environment, toggling
<1>5. Counters'
  BY <1>0, <1>1 DEF Edge, Counters, source, clock, environment, toggling
<1> QED
  BY <1>2, <1>3, <1>4, <1>5, TypePartsNext

\* What the drain callback does with one frame.
DrainsFrame(size, breaks) ==
    LET stored == StoreCapturedFrame(renderer, newest + 1, size)
        first == IF breaks THEN newest + 1 ELSE oldest
    IN  /\ breaks \/ Resident = {} \/ size = frame_size
        /\ newest' = newest + 1
        /\ oldest' = IF newest + 1 - first >= TimelineHistory THEN first + 1 ELSE first
        /\ frame_size' = size
        /\ prepared' = IF breaks THEN Discarded ELSE prepared
        /\ era' = IF breaks THEN era + 1 ELSE era
        /\ renderer' = IF presentable THEN Show(stored) ELSE stored

\* Draining a frame is one of these.
LEMMA DrainEffect ==
    ASSUME TypeOK, DrainFrame
    PROVE  \E size \in SourceSizes, breaks \in BOOLEAN : DrainsFrame(size, breaks)
<1>1. arrivals \in Seq([size : SourceSizes, late : BOOLEAN]) /\ arrivals # <<>>
  BY DEF TypeOK, DrainFrame
<1> DEFINE frame == Head(arrivals)
           breaks == Resident # {} /\ (frame.size # frame_size \/ frame.late)
<1> DEFINE FrameSet == [size : SourceSizes, late : BOOLEAN]
<1>2. frame \in FrameSet
  <2> HIDE DEF FrameSet
  <2>1. arrivals \in Seq(FrameSet)
    BY <1>1 DEF FrameSet
  <2> QED
    BY <1>1, <2>1
<1>3. frame.size \in SourceSizes
  BY <1>2, Zenon
<1>4. breaks \in BOOLEAN
  BY Zenon
<1>5. breaks \/ Resident = {} \/ frame.size = frame_size
  BY Zenon
<1>6. DrainsFrame(frame.size, breaks)
  BY <1>5, Zenon DEF DrainFrame, DrainsFrame
<1> QED
  BY <1>3, <1>4, <1>6, Zenon

\* So does draining a frame,
LEMMA DrainType ==
    ASSUME TypeOK, DrainFrame
    PROVE  TypeOK'
<1>0. renderer \in RendererSet /\ Flags /\ Counters /\ Around /\ Held
  BY TypeParts
<1>1. PICK size \in SourceSizes, breaks \in BOOLEAN : DrainsFrame(size, breaks)
  BY DrainEffect
<1>2. Discarded \in PreparedSet
  BY <1>0 DEF Held, PreparedSet, PreparedSlots, Discarded
<1>3. Held'
  <2>1. prepared' \in PreparedSet /\ frame_size' \in SourceSizes
    BY <1>0, <1>1, <1>2, Zenon DEF DrainsFrame, Held
  <2> QED
    BY <1>0, <2>1, Zenon DEF DrainFrame, Held, past
<1>4. Flags'
  BY <1>0, Zenon DEF DrainFrame, Flags, past, toggling
<1>5. Counters'
  <2>1. oldest \in Nat /\ newest \in Nat /\ era \in Nat
    BY <1>0 DEF Counters
  <2>2. oldest' \in Nat /\ newest' \in Nat /\ era' \in Nat
    BY <1>1, <2>1 DEF DrainsFrame
  <2>3. UNCHANGED <<pressed, due, events, captured, toggle_count, observed_toggles, next_slot,
                    missed, late_blends>>
    BY Zenon DEF DrainFrame, past, toggling, clock
  <2>4. {pressed, due, events, captured, toggle_count, observed_toggles, next_slot, missed,
         late_blends} \subseteq Nat
    BY <1>0 DEF Counters
  <2> QED
    BY <2>2, <2>3, <2>4 DEF Counters
<1>6. Around'
  BY <1>0 DEF DrainFrame, Around
<1>7. renderer' \in RendererSet
  <2> DEFINE stored == StoreCapturedFrame(renderer, newest + 1, size)
  <2>1. newest + 1 \in Nat
    BY <1>0 DEF Counters
  <2>2. stored \in RendererSet
    BY <1>0, <2>1, StoreEffect
  <2>3. renderer' = stored \/ renderer' = Show(stored)
    BY <1>1, Zenon DEF DrainsFrame
  <2> QED
    BY <2>2, <2>3, ShowEffect
<1> QED
  BY <1>3, <1>4, <1>5, <1>6, <1>7, TypePartsNext

\* What a step that draws ahead prepares.
Prepares ==
    \E s \in SelectionSet, drawn \in BOOLEAN, q \in RendererSet :
        /\ ~enabled => s.mode # "interpolate"
        /\ Offered(q) /\ q.held
        /\ renderer' = q
        /\ prepared' = [selection |-> s, rendered |-> drawn, era |-> era]

\* Drawing ahead is for queued pacing, with a slot and nothing drawn yet.
LEMMA PrepareEffect ==
    ASSUME TypeOK, Prepare
    PROVE  /\ Prepares
           /\ pacing_mode = "queued" /\ presentable /\ prepared = None
<1>0. renderer \in RendererSet
  BY DEF TypeOK
<1> DEFINE a == AcquireSlot(renderer)
<1>1. PICK s \in Selections :
          /\ renderer' = IF s.submit /\ CanSelect(a, s)
                         THEN Render(SelectFrames(a, s), s) ELSE a
          /\ prepared' = [selection |-> s, rendered |-> s.submit /\ CanSelect(a, s), era |-> era]
  BY Zenon DEF Prepare
<1>2. s \in SelectionSet /\ (~enabled => s.mode # "interpolate")
  BY SelectionsType
<1>3. pacing_mode = "queued" /\ presentable /\ prepared = None /\ a.held
  BY Zenon DEF Prepare, CanPrepare
<1>4. a \in RendererSet /\ Offered(a)
  BY <1>0, AcquireEffect DEF Offered
<1> DEFINE drawn == s.submit /\ CanSelect(a, s)
           q == Render(SelectFrames(a, s), s)
<1>5. drawn \in BOOLEAN
  BY Zenon
<1> HIDE DEF a
<1>6. q \in RendererSet /\ Offered(q) /\ q.held
  BY <1>2, <1>3, <1>4, DrawEffect DEF Offered
<1>7. renderer' = q \/ renderer' = a
  BY <1>1, Zenon
<1>8. prepared' = [selection |-> s, rendered |-> drawn, era |-> era]
  BY <1>1, Zenon
<1> HIDE DEF drawn, q
<1>9. Prepares
  BY <1>2, <1>3, <1>4, <1>5, <1>6, <1>7, <1>8, Zenon DEF Prepares
<1> QED
  BY <1>3, <1>9, Zenon

\* drawing ahead,
LEMMA PrepareType ==
    ASSUME TypeOK, Prepare
    PROVE  TypeOK'
<1>0. renderer \in RendererSet /\ Flags /\ Counters /\ Around /\ Held
  BY TypeParts
<1>1. PICK s \in SelectionSet, drawn \in BOOLEAN, q \in RendererSet :
          renderer' = q /\ prepared' = [selection |-> s, rendered |-> drawn, era |-> era]
  BY PrepareEffect, Zenon DEF Prepares
<1>2. prepared' \in PreparedSet
  BY <1>0, <1>1 DEF PreparedSet, PreparedSlots, Counters
<1>3. asked' \in Answers
  <2>1. asked' = AskedFor(next_slot)
    BY Zenon DEF Prepare
  <2> QED
    BY <1>0, <2>1, AskedEffect DEF Held, Counters
<1>6. Held' /\ Around' /\ renderer' \in RendererSet
  BY <1>0, <1>1, <1>2, <1>3 DEF Prepare, Held, Around, source, Phases, environment
<1>4. Flags'
  BY <1>0, Zenon DEF Prepare, Flags, toggling, environment
<1>5. Counters'
  BY <1>0 DEF Prepare, Counters, source, clock, toggling, environment
<1> QED
  BY <1>4, <1>5, <1>6, TypePartsNext

\* serving a slot,
LEMMA ServeType ==
    ASSUME TypeOK, Ahead, Serve
    PROVE  TypeOK'
<1>0. renderer \in RendererSet /\ Flags /\ Counters /\ Around /\ Held
  BY TypeParts
<1>1. Serving
  BY Zenon DEF Serve, ServeNothing, ServeHidden, ServePrepared, ServeSlotNow, ServeUnpaced
<1>2. prepared' \in {prepared, None}
  BY Zenon DEF Serve, ServeNothing, ServeHidden, ServePrepared, ServeSlotNow, ServeUnpaced
<1>3. /\ ledger' \in Ledger /\ asked' \in Answers /\ next_slot' \in Nat /\ missed' \in Nat
      /\ due' \in Nat
  <2>1. CASE UNCHANGED <<due, prepared, next_slot, missed, ledger, asked>>
    BY <1>0, <2>1 DEF Counters, Held
  <2>2. CASE Settles /\ AnswersNow
    <3>1. /\ ledger' \in Ledger /\ next_slot' \in Nat /\ missed' \in Nat /\ due' = 0
          /\ due \in Nat /\ due > 0
      BY <2>2, SettleEffect
    <3>2. asked \in Answers /\ next_slot + due - 1 \in Nat
      BY <1>0, <3>1 DEF Held, Counters
    <3>3. AskedFor(next_slot + due - 1) \in Answers
      BY <3>2, AskedEffect
    <3>4. asked' \in Answers
      BY <2>2, <3>2, <3>3, PresentedEffect, Zenon DEF AnswersNow
    <3> QED
      BY <3>1, <3>4
  <2> QED
    BY <2>1, <2>2, ServeClock
<1>4. /\ renderer' \in RendererSet
      /\ on_screen' \in {None} \cup [selection : SelectionSet, era : Nat]
      /\ late_blends' \in Nat
      /\ last_real' \in Nat \cup {None}
  <2>0. /\ on_screen \in {None} \cup [selection : SelectionSet, era : Nat]
        /\ late_blends \in Nat /\ era \in Nat /\ last_real \in Nat \cup {None}
    BY <1>0 DEF Held, Counters
  <2>1. CASE ServesNothing
    BY <2>0, <2>1 DEF ServesNothing, PresentsNothing
  <2>2. CASE ServesSelection
    <3>1. PICK q \in RendererSet, s \in SelectionSet : PresentSelection(q, s, era)
      BY <2>2, Zenon DEF ServesSelection
    <3>2. renderer' \in RendererSet
      BY <3>1, PresentEffect DEF PresentSelection
    <3>3. [selection |-> s, era |-> era] \in [selection : SelectionSet, era : Nat]
      BY <2>0, Zenon
    <3>4. on_screen' \in {None} \cup [selection : SelectionSet, era : Nat]
      BY <2>0, <3>1, <3>3, Zenon DEF PresentSelection
    <3>5. late_blends' = late_blends \/ late_blends' = late_blends + 1
      BY <3>1, Zenon DEF PresentSelection
    <3>6. last_real' \in Nat \cup {None}
      <4>1. \/ last_real' = last_real \/ last_real' = None
            \/ \E t \in Selections : last_real' = t.current
        BY Zenon DEF Serve, ServeNothing, ServeHidden, ServePrepared, ServeSlotNow, ServeUnpaced
      <4>2. \A t \in SelectionSet : t.current \in Nat
        BY DEF SelectionSet
      <4> QED
        BY <2>0, <4>1, <4>2, SelectionsType, Zenon
    <3> QED
      BY <2>0, <3>2, <3>4, <3>5, <3>6
  <2> QED
    BY <2>1, <2>2, ServeEffect
<1>5. Held'
  BY <1>0, <1>1, <1>2, <1>3, <1>4 DEF Held, Serving, source, Phases, PreparedSet
<1>6. Flags'
  BY <1>0, <1>1, Zenon DEF Flags, Serving, toggling
<1>7. Counters'
  BY <1>0, <1>1, <1>3, <1>4 DEF Counters, Serving, toggling, source
<1>8. Around'
  BY <1>0, <1>1 DEF Around, Serving
<1> QED
  BY <1>4, <1>5, <1>6, <1>7, <1>8, TypePartsNext

\* The output window follows the target or stays, and the swap chain frees or
\* hands out a back buffer.
ChainMoves ==
    /\ renderer' \in RendererSet
    /\ Buffers(renderer') = Buffers(renderer)
    /\ renderer'.visible = renderer.visible
    /\ renderer'.history = renderer.history
    /\ renderer'.source_size = renderer.source_size

\* Following the target does no more than that,
LEMMA FollowMoves ==
    ASSUME TypeOK, Follow
    PROVE  ChainMoves
<1>1. renderer \in RendererSet /\ window_size \in WindowSizes
  BY DEF TypeOK
<1>2. renderer' = renderer \/ renderer' = FollowTarget(renderer, window_size)
  BY Zenon DEF Follow
<1> QED
  BY <1>1, <1>2, FollowEffect DEF ChainMoves

\* nor does waiting or finishing a present, and the held slot stays held.
LEMMA WaitMoves ==
    ASSUME TypeOK, Wait \/ FinishPresent
    PROVE  ChainMoves /\ (renderer.held => renderer'.held)
<1>0. renderer \in RendererSet
  BY DEF TypeOK
<1>1. CASE Wait
  <2>1. renderer' = renderer \/ renderer' = AcquireSlot(renderer)
    BY <1>1, Zenon DEF Wait
  <2> QED
    BY <1>0, <2>1, AcquireEffect DEF ChainMoves
<1>2. CASE FinishPresent
  <2>1. renderer' = Finish(renderer) /\ renderer.flying > 0
    BY <1>2, Zenon DEF FinishPresent
  <2> QED
    BY <1>0, <2>1, FinishEffect DEF ChainMoves
<1> QED
  BY <1>1, <1>2

\* Neither changes a type.
LEMMA SwapChainType ==
    ASSUME TypeOK, Follow \/ Wait \/ FinishPresent
    PROVE  TypeOK'
<1>0. renderer \in RendererSet /\ Flags /\ Counters /\ Around /\ Held
  BY TypeParts
<1>1. renderer' \in RendererSet
  BY FollowMoves, WaitMoves, Zenon DEF ChainMoves
<1>2. Held' /\ Around'
  BY <1>0 DEF Follow, Wait, FinishPresent, Held, Around, past, source, Phases, environment, loop
<1>3. Flags'
  <2>1. torn' = torn \/ torn' = (torn \/ (prepared # None /\ prepared.rendered
                                         /\ renderer' # renderer))
    BY Zenon DEF Follow, Wait, FinishPresent, past, loop
  <2>2. torn' \in BOOLEAN
    BY <1>0, <2>1, Zenon DEF Flags
  <2> QED
    BY <1>0, <2>2, Zenon DEF Follow, Wait, FinishPresent, Flags, environment, toggling, past, loop
<1>4. Counters'
  BY <1>0 DEF Follow, Wait, FinishPresent, Counters, past, source, clock, environment, toggling,
              loop
<1> QED
  BY <1>1, <1>2, <1>3, <1>4, TypePartsNext

\* Every step keeps the types.
LEMMA TypeStep ==
    ASSUME TypeOK, Ahead, Next
    PROVE  TypeOK'
<1>1. CASE Pump \/ Quit \/ NoRestore \/ Restore \/ RestoreFails \/ DrainEnd \/ Toggle
           \/ SkipPrepare
  BY <1>1, PollingType, Zenon
<1>2. CASE Serve
  BY <1>2, ServeType, Zenon
<1>3. CASE Follow \/ Wait \/ FinishPresent
  BY <1>3, SwapChainType, Zenon
<1>4. CASE Surroundings
  BY <1>3, <1>4, SurroundingsType, SwapChainType, Zenon DEF Surroundings
<1> QED
  BY <1>1, <1>2, <1>3, <1>4, EdgeType, DrainType, PrepareType, Zenon DEF Next, Loop, Serve

\* OverlayYields in every phase.
Hidden == renderer.visible => presentable

\* A blend drawn ahead while generation is off is the only one: none was
\* presented since.
LateBlend ==
    /\ late_blends <= 1
    /\ DrawnAhead /\ prepared.selection.mode = "interpolate" /\ ~enabled => late_blends = 0

\* What the display shows is of this era only while the overlay is in view, and
\* unpaced the loop remembers it if it is a real frame.
OnDisplay ==
    on_screen # None =>
        /\ on_screen.era <= era
        /\ on_screen.era = era /\ presentable => renderer.visible
        /\ (pacing_mode = "unpaced" /\ on_screen.era = era
                /\ on_screen.selection.mode # "interpolate")
              => last_real = on_screen.selection.current

\* The timeline holds no more than its history.
Span ==
    /\ oldest <= newest + 1
    /\ newest - oldest < TimelineHistory

BuffersKept == torn \/ Buffers(renderer) = Latency(pacing_mode)

\* BuffersAccounted, as a sum.
LEMMA BuffersCount ==
    ASSUME TypeOK
    PROVE  BuffersKept <=> BuffersAccounted
<1>1. renderer.free \in Nat /\ renderer.flying \in Nat
  BY RendererFields DEF TypeOK
<1> DEFINE h == IF renderer.held THEN 1 ELSE 0
<1>2. h \in Nat
  OBVIOUS
<1> HIDE DEF h
<1>3. renderer.free + h + renderer.flying = renderer.free + renderer.flying + h
  BY <1>1, <1>2
<1> QED
  BY <1>3, Zenon DEF BuffersKept, BuffersAccounted, Buffers, h

\* The books of the slots.
Books == SelectedAhead /\ Answered /\ Accounted

Safety == Hidden /\ Ahead /\ LateBlend /\ OnDisplay /\ Span /\ FramesDrawable /\ BuffersKept
          /\ Books

\* What the invariant is about.
concerns == <<pacing_mode, renderer, enabled, presentable, prepared, last_real, oldest, newest,
              frame_size, next_slot, missed, era, ledger, asked, on_screen, torn, late_blends>>

\* A step that leaves all of that alone keeps the invariant,
LEMMA Unconcerned ==
    ASSUME Safety, UNCHANGED concerns
    PROVE  Safety'
BY DEF Safety, Hidden, Ahead, DrawnAhead, LateBlend, OnDisplay, Span, FramesDrawable, Resident,
       BuffersKept, Books, SelectedAhead, Answered, Accounted, concerns

\* as most of the surroundings and of the polling do.
LEMMA UnconcernedStep ==
    ASSUME Safety,
           \/ \E size \in SourceSizes, late \in BOOLEAN : Capture(size, late)
           \/ ComeDue \/ Disturb \/ Pump \/ Quit \/ NoRestore \/ RestoreFails \/ DrainEnd
           \/ SkipPrepare
    PROVE  Safety'
<1>1. UNCHANGED concerns
  BY DEF Capture, ComeDue, Disturb, Pump, Quit, NoRestore, RestoreFails, DrainEnd, SkipPrepare,
         concerns, loop, toggling, source, clock, past
<1> QED
  BY <1>1, Unconcerned

\* A resize under a slot drawn ahead is recorded in torn; nothing else loses its buffer.
LEMMA SwapChainStep ==
    ASSUME TypeOK, Safety, Follow \/ Wait \/ FinishPresent
    PROVE  Safety'
<1>1. ChainMoves /\ (Wait \/ FinishPresent => (renderer.held => renderer'.held))
  BY FollowMoves, WaitMoves
<1>2. UNCHANGED <<pacing_mode, enabled, presentable, prepared, last_real, oldest, newest,
                  frame_size, next_slot, missed, era, ledger, asked, on_screen, late_blends>>
  BY DEF Follow, Wait, FinishPresent, loop, toggling, source, clock, past
<1>3. torn' = torn \/ torn' = (torn \/ (prepared # None /\ prepared.rendered
                                         /\ renderer' # renderer))
  BY Zenon DEF Follow, Wait, FinishPresent, past, loop
<1>4. torn => torn'
  BY <1>3, Zenon
<1>5. Hidden' /\ LateBlend' /\ OnDisplay' /\ Span' /\ FramesDrawable'
  BY <1>1, <1>2 DEF Safety, Hidden, LateBlend, DrawnAhead, OnDisplay, Span, FramesDrawable,
                    Resident, ChainMoves
<1>9. Books'
  BY <1>2 DEF Safety, Books, SelectedAhead, Answered, Accounted
<1>6. BuffersKept'
  BY <1>1, <1>2, <1>4 DEF Safety, BuffersKept, ChainMoves
<1>7. DrawnAhead => torn' \/ (renderer.held => renderer'.held)
  <2>1. CASE Wait \/ FinishPresent
    BY <1>1, <2>1, Zenon
  <2>2. CASE Follow
    BY <2>2, Zenon DEF Follow, DrawnAhead
  <2> QED
    BY <2>1, <2>2
<1>8. Ahead'
  BY <1>2, <1>4, <1>7, Zenon DEF Safety, Ahead, DrawnAhead
<1> QED
  BY <1>5, <1>6, <1>8, <1>9 DEF Safety

\* A discarded slot is not drawn.
LEMMA DiscardedIsNotDrawn ==
    ASSUME TypeOK
    PROVE  /\ Discarded # None <=> prepared # None
           /\ Discarded # None => ~Discarded.rendered
<1>1. Discarded # None <=> prepared # None
  <2>1. CASE prepared = None
    BY <2>1 DEF Discarded
  <2>2. CASE prepared # None
    <3>1. prepared \in PreparedSlots
      BY <2>2 DEF TypeOK
    <3>2. Discarded \in PreparedSlots
      BY <2>2, <3>1 DEF Discarded, PreparedSlots
    <3> QED
      BY <2>2, <3>2, NoneAssumption, Zenon DEF NoneAssumption
  <2> QED
    BY <2>1, <2>2
<1>2. ASSUME prepared # None
      PROVE  ~[prepared EXCEPT !.rendered = FALSE].rendered
  <2>1. prepared \in [selection : SelectionSet, rendered : BOOLEAN, era : Nat]
    BY <1>2 DEF TypeOK, PreparedSlots
  <2> QED
    BY <2>1, Zenon
<1> QED
  BY <1>1, <1>2, Zenon DEF Discarded

\* A restarted capture starts an era.
LEMMA RestoreStep ==
    ASSUME TypeOK, Safety, Restore
    PROVE  Safety'
<1>1. UNCHANGED <<pacing_mode, renderer, enabled, presentable, last_real, newest, frame_size,
                  next_slot, missed, ledger, asked, on_screen, torn, late_blends>>
  BY DEF Restore, toggling, clock, past
<1>2. oldest' = newest + 1 /\ prepared' = Discarded /\ era' = era + 1
  BY DEF Restore
<1>3. oldest \in Nat /\ newest \in Nat /\ era \in Nat /\ TimelineHistory \in Nat \ {0}
      /\ (on_screen # None => on_screen.era \in Nat)
  BY Numbers, LoopAssumption, RendererAssumption DEF LoopAssumption, RendererAssumption
<1>4. Span' /\ FramesDrawable'
  BY <1>1, <1>2, <1>3 DEF Span, FramesDrawable, Resident
<1>5. OnDisplay'
  BY <1>1, <1>2, <1>3 DEF Safety, OnDisplay
<1>6. Ahead' /\ LateBlend'
  BY <1>1, <1>2, DiscardedIsNotDrawn DEF Safety, Ahead, LateBlend, DrawnAhead
<1>7. Hidden' /\ BuffersKept'
  BY <1>1 DEF Safety, Hidden, BuffersKept
<1>8. Books'
  BY <1>1, <1>2, DiscardedIsNotDrawn DEF Safety, Books, SelectedAhead, Answered, Accounted
<1> QED
  BY <1>4, <1>5, <1>6, <1>7, <1>8 DEF Safety

\* Coming into view starts an era, and going out of it hides the overlay.
LEMMA EdgeStep ==
    ASSUME TypeOK, Safety, Edge
    PROVE  Safety'
<1>1. UNCHANGED <<pacing_mode, enabled, oldest, newest, frame_size, next_slot, missed, ledger,
                  on_screen, torn, late_blends>>
  BY DEF Edge, toggling, source, clock, past
<1>2. renderer \in RendererSet /\ era \in Nat /\ (on_screen # None => on_screen.era \in Nat)
  BY Numbers
<1>3. CASE EdgeStays
  BY <1>1, <1>3, Unconcerned DEF EdgeStays, concerns
<1>4. CASE EdgeShows \/ EdgeHides
  <2>1. /\ renderer'.held = renderer.held /\ Buffers(renderer') = Buffers(renderer)
        /\ renderer'.history = renderer.history
        /\ renderer'.source_size = renderer.source_size
        /\ EdgeHides => ~renderer'.visible
    BY <1>2, <1>4, ShowEffect, HideEffect DEF EdgeShows, EdgeHides, Buffers
  <2>2. Span' /\ FramesDrawable' /\ BuffersKept'
    BY <1>1, <2>1 DEF Safety, Span, FramesDrawable, Resident, BuffersKept
  <2>6. Books'
    <3>1. CASE EdgeHides
      BY <1>1, <3>1 DEF Safety, Books, SelectedAhead, Answered, Accounted, EdgeHides
    <3>2. CASE EdgeShows
      <4>1. asked'.slot = asked.slot /\ asked'.times = 0 /\ asked'.presents = 0
        BY <3>2, ForgottenEffect DEF EdgeShows, TypeOK, Answers
      <4>2. prepared' = None
        BY <3>2 DEF EdgeShows
      <4> QED
        BY <1>1, <4>1, <4>2 DEF Safety, Books, SelectedAhead, Answered, Accounted
    <3> QED
      BY <1>4, <3>1, <3>2
  <2>3. Hidden'
    BY <1>4, <2>1, Zenon DEF EdgeShows, EdgeHides, Hidden
  <2>4. Ahead' /\ LateBlend'
    BY <1>1, <1>4, <2>1 DEF Safety, Ahead, LateBlend, DrawnAhead, EdgeShows, EdgeHides
  <2>5. OnDisplay'
    BY <1>1, <1>2, <1>4 DEF Safety, OnDisplay, EdgeShows, EdgeHides
  <2> QED
    BY <2>2, <2>3, <2>4, <2>5, <2>6 DEF Safety
<1> QED
  BY <1>3, <1>4, EdgeEffect

\* The renderer keeps what the timeline keeps: TimelineHistory is no longer than RendererHistory.
LEMMA DrainStep ==
    ASSUME TypeOK, Safety, DrainFrame
    PROVE  Safety'
<1>1. PICK size \in SourceSizes, breaks \in BOOLEAN : DrainsFrame(size, breaks)
  BY DrainEffect
<1>2. UNCHANGED <<pacing_mode, enabled, presentable, last_real, next_slot, missed, ledger, asked,
                  on_screen, torn, late_blends>>
  BY DEF DrainFrame, toggling, clock, past
<1>3. /\ renderer \in RendererSet /\ oldest \in Nat /\ newest \in Nat /\ era \in Nat
      /\ (on_screen # None => on_screen.era \in Nat)
      /\ TimelineHistory \in Nat /\ RendererHistory \in Nat
      /\ TimelineHistory >= 1 /\ TimelineHistory <= RendererHistory
  BY Numbers, LoopAssumption, RendererAssumption DEF LoopAssumption, RendererAssumption
<1> DEFINE stored == StoreCapturedFrame(renderer, newest + 1, size)
           first == IF breaks THEN newest + 1 ELSE oldest
<1>4. /\ stored \in RendererSet /\ stored.held = renderer.held
      /\ stored.free = renderer.free /\ stored.flying = renderer.flying
      /\ stored.visible = renderer.visible /\ stored.source_size = size
      /\ newest + 1 \in stored.history
      /\ \A s \in Int : s > newest + 1 - RendererHistory /\ renderer.source_size = size
                          /\ s \in renderer.history => s \in stored.history
  <2> HIDE DEF stored
  <2> DEFINE k == newest + 1
             kept == StoreCapturedFrame(renderer, k, size)
  <2>1. k \in Nat
    BY <1>3
  <2>2. kept = stored
    BY Zenon DEF stored
  <2> HIDE DEF k
  <2>3. /\ kept \in RendererSet /\ kept.held = renderer.held
        /\ kept.free = renderer.free /\ kept.flying = renderer.flying
        /\ kept.visible = renderer.visible /\ kept.source_size = size
        /\ k \in kept.history
        /\ \A s \in Int : s > k - RendererHistory /\ renderer.source_size = size
                            /\ s \in renderer.history => s \in kept.history
    BY <1>3, <2>1, StoreEffect
  <2> HIDE DEF kept
  <2>4. /\ stored \in RendererSet /\ stored.held = renderer.held
        /\ stored.free = renderer.free /\ stored.flying = renderer.flying
        /\ stored.visible = renderer.visible /\ stored.source_size = size
        /\ k \in stored.history
    BY <2>2, <2>3, Zenon
  <2>5. ASSUME NEW s \in Int, s > k - RendererHistory, renderer.source_size = size,
               s \in renderer.history
        PROVE  s \in stored.history
    BY <2>2, <2>3, <2>5, Zenon
  <2>6. newest + 1 = k /\ newest + 1 - RendererHistory = k - RendererHistory
    BY <1>3 DEF k
  <2> QED
    BY <2>4, <2>5, <2>6, Zenon
<1>5. /\ breaks \/ Resident = {} \/ size = frame_size
      /\ newest' = newest + 1
      /\ oldest' = IF newest + 1 - first >= TimelineHistory THEN first + 1 ELSE first
      /\ frame_size' = size
      /\ prepared' = IF breaks THEN Discarded ELSE prepared
      /\ era' = IF breaks THEN era + 1 ELSE era
      /\ renderer' = IF presentable THEN Show(stored) ELSE stored
  BY <1>1, Zenon DEF DrainsFrame
<1> HIDE DEF stored
<1>6. /\ renderer'.held = renderer.held /\ Buffers(renderer') = Buffers(renderer)
      /\ renderer'.history = stored.history /\ renderer'.source_size = size
      /\ renderer'.visible => (renderer.visible \/ presentable)
      /\ renderer.visible => renderer'.visible
  BY <1>4, <1>5, ShowEffect DEF Buffers
<1>7. Hidden' /\ BuffersKept'
  BY <1>2, <1>6 DEF Safety, Hidden, BuffersKept
<1>12. Books'
  <2>1. prepared' # None <=> prepared # None
    BY <1>5, DiscardedIsNotDrawn, Zenon
  <2> QED
    BY <1>2, <2>1 DEF Safety, Books, SelectedAhead, Answered, Accounted
<1>8. Span'
  BY <1>3, <1>5 DEF Safety, Span
<1>9. FramesDrawable'
  <2>1. renderer'.source_size = frame_size'
    BY <1>5, <1>6
  <2>2. ASSUME NEW k \in Resident'
        PROVE  k \in renderer'.history
    <3>1. k \in Int /\ oldest' <= k /\ k <= newest + 1
      BY <1>3, <1>5, <2>2 DEF Resident
    <3>2. CASE k = newest + 1
      BY <1>4, <1>6, <3>2
    <3>3. CASE k # newest + 1
      <4>1. first = oldest /\ ~breaks /\ oldest <= oldest'
        BY <1>3, <1>5, <3>1, <3>3
      <4>2. k \in Resident
        <5>1. oldest \in Int /\ newest \in Int /\ oldest' \in Int /\ oldest <= oldest'
          BY <1>3, <1>5, <4>1
        <5> QED
          BY <3>1, <3>3, <5>1 DEF Resident
      <4>3. k \in renderer.history /\ renderer.source_size = size
        BY <1>5, <4>1, <4>2 DEF Safety, FramesDrawable
      <4>4. k > newest + 1 - RendererHistory
        BY <1>3, <1>5, <1>8, <3>1 DEF Span
      <4> QED
        BY <1>4, <1>6, <3>1, <4>3, <4>4
    <3> QED
      BY <3>2, <3>3
  <2> QED
    BY <2>1, <2>2 DEF FramesDrawable
<1>10. Ahead' /\ LateBlend'
  BY <1>2, <1>5, <1>6, DiscardedIsNotDrawn DEF Safety, Ahead, LateBlend, DrawnAhead
<1>11. OnDisplay'
  BY <1>2, <1>3, <1>5, <1>6 DEF Safety, OnDisplay
<1> QED
  BY <1>7, <1>8, <1>9, <1>10, <1>11, <1>12 DEF Safety

\* A toggle starts the count of late blends over.
LEMMA ToggleStep ==
    ASSUME TypeOK, Safety, Toggle
    PROVE  Safety'
<1>1. UNCHANGED <<pacing_mode, renderer, presentable, prepared, last_real, oldest, newest,
                  frame_size, next_slot, missed, era, ledger, asked, on_screen, torn>>
  BY DEF Toggle, source, clock
<1>2. Hidden' /\ Ahead' /\ OnDisplay' /\ Span' /\ FramesDrawable' /\ BuffersKept' /\ Books'
  BY <1>1 DEF Safety, Hidden, Ahead, DrawnAhead, OnDisplay, Span, FramesDrawable, Resident,
              BuffersKept, Books, SelectedAhead, Answered, Accounted
<1>3. late_blends' = 0 \/ (late_blends' = late_blends /\ enabled' = enabled)
  BY Zenon DEF Toggle
<1>4. LateBlend'
  BY <1>1, <1>3 DEF Safety, LateBlend, DrawnAhead
<1> QED
  BY <1>2, <1>4 DEF Safety

\* What is drawn ahead is drawn in this era, into the slot that is held.
LEMMA PrepareStep ==
    ASSUME TypeOK, Safety, Prepare
    PROVE  Safety'
<1>1. UNCHANGED <<pacing_mode, enabled, presentable, last_real, oldest, newest, frame_size,
                  next_slot, missed, era, ledger, on_screen, torn, late_blends>>
  BY DEF Prepare, toggling, source, clock
<1>2. pacing_mode = "queued" /\ presentable /\ prepared = None
  BY PrepareEffect
<1>3. PICK s \in SelectionSet, drawn \in BOOLEAN, q \in RendererSet :
          /\ ~enabled => s.mode # "interpolate"
          /\ Offered(q) /\ q.held
          /\ renderer' = q
          /\ prepared' = [selection |-> s, rendered |-> drawn, era |-> era]
  BY PrepareEffect, Zenon DEF Prepares
<1>4. /\ prepared'.selection.mode = s.mode /\ prepared'.era = era
  BY <1>3
<1>5. Hidden' /\ OnDisplay' /\ Span' /\ FramesDrawable' /\ BuffersKept'
  BY <1>1, <1>3 DEF Safety, Hidden, OnDisplay, Span, FramesDrawable, Resident, BuffersKept,
                    Offered
<1>7. Books'
  <2>1. asked' = AskedFor(next_slot) /\ asked \in Answers /\ next_slot \in Nat
    BY DEF Prepare, TypeOK, Answers
  <2>2. asked.slot \in Nat /\ asked.times \in Nat /\ asked.presents \in Nat
    BY <2>1 DEF Answers
  <2>3. asked'.slot = next_slot /\ asked'.times = 1 /\ asked'.presents = 0
    BY <1>2, <2>1, <2>2, AskedEffect DEF Safety, Books, SelectedAhead, Answered
  <2>4. prepared' # None
    <3>1. prepared' \in PreparedSlots
      BY <1>3, Numbers DEF PreparedSlots
    <3> QED
      BY <3>1, NoneAssumption, Zenon DEF NoneAssumption
  <2> QED
    BY <1>1, <2>1, <2>3, <2>4 DEF Safety, Books, SelectedAhead, Answered, Accounted
<1>6. Ahead' /\ LateBlend'
  BY <1>1, <1>2, <1>3, <1>4 DEF Safety, Ahead, LateBlend, DrawnAhead
<1> QED
  BY <1>5, <1>6, <1>7 DEF Safety

\* Serving keeps a slot drawn ahead only if it presents nothing.
LEMMA ServeKeepsPrepared ==
    ASSUME Ahead, Serve
    PROVE  \/ prepared' = None
           \/ prepared' = prepared /\ renderer' = renderer /\ late_blends' = late_blends
<1>1. CASE ServeNothing
  BY <1>1, Zenon DEF ServeNothing, PresentsNothing
<1>2. CASE ServeHidden \/ ServePrepared
  BY <1>2, Zenon DEF ServeHidden, ServePrepared
<1>3. CASE ServeSlotNow
  BY <1>3, Zenon DEF ServeSlotNow
<1>4. CASE ServeUnpaced
  BY <1>4 DEF ServeUnpaced, Ahead, clocked
<1> QED
  BY <1>1, <1>2, <1>3, <1>4 DEF Serve

\* What is served is of this era.
LEMMA ServeStep ==
    ASSUME TypeOK, Safety, Serve
    PROVE  Safety' /\ PresentedIsCurrent'
<1>1. UNCHANGED <<pacing_mode, enabled, presentable, oldest, newest, frame_size, era, torn>>
  BY DEF Serve, ServeNothing, ServeHidden, ServePrepared, ServeSlotNow, ServeUnpaced, Serving,
         toggling, source
<1>2. Books'
  BY ServeBooks DEF Safety, Books
<1>3. \/ prepared' = None
      \/ prepared' = prepared /\ renderer' = renderer /\ late_blends' = late_blends
  BY ServeKeepsPrepared DEF Safety
<1>4. Ahead'
  BY <1>1, <1>3 DEF Safety, Ahead, DrawnAhead
<1>5. /\ renderer \in RendererSet /\ era \in Nat /\ late_blends \in Nat
      /\ (on_screen # None => on_screen.era \in Nat)
  BY DEF TypeOK
<1>6. CASE ServesNothing
  <2>1. PICK q \in RendererSet : Offered(q) /\ PresentsNothing(q)
    BY <1>6, Zenon DEF ServesNothing
  <2>2. renderer' = q /\ UNCHANGED <<on_screen, late_blends, last_real>> /\ shown' = None
    BY <1>6, <2>1, Zenon DEF ServesNothing, PresentsNothing
  <2>3. Hidden' /\ OnDisplay' /\ Span' /\ FramesDrawable' /\ BuffersKept'
    BY <1>1, <2>1, <2>2 DEF Safety, Hidden, OnDisplay, Span, FramesDrawable, Resident,
                            BuffersKept, Offered
  <2>4. LateBlend'
    BY <1>1, <1>3, <2>2 DEF Safety, LateBlend, DrawnAhead
  <2> QED
    BY <1>2, <1>4, <2>2, <2>3, <2>4 DEF Safety, PresentedIsCurrent
<1>7. CASE ServesSelection
  <2>1. PICK q \in RendererSet, s \in SelectionSet :
            /\ Offered(q) /\ (torn \/ q.held)
            /\ PresentSelection(q, s, era)
            /\ s.mode = "interpolate" /\ ~enabled => DrawnAhead /\ prepared.selection = s
            /\ IF pacing_mode = "unpaced"
               THEN s.mode # "interpolate" => last_real # s.current /\ last_real' = s.current
               ELSE last_real' = last_real
    BY <1>7, Zenon DEF ServesSelection
  <2>2. /\ renderer' = Present(q)
        /\ on_screen' = IF q.visible THEN [selection |-> s, era |-> era] ELSE on_screen
        /\ late_blends' = IF s.mode = "interpolate" /\ ~enabled
                          THEN late_blends + 1 ELSE late_blends
        /\ shown' = [selection |-> s, era |-> era, drawn |-> q.drawn, visible |-> q.visible]
    BY <2>1, Zenon DEF PresentSelection
  <2>3. presentable
    BY <1>7, Zenon DEF ServesSelection
  <2>4. /\ renderer'.visible = renderer.visible /\ renderer'.history = renderer.history
        /\ renderer'.source_size = renderer.source_size
        /\ q.held => Buffers(renderer') = Buffers(renderer)
        /\ q.visible = renderer.visible
    BY <2>1, <2>2, PresentEffect DEF Offered
  <2>5. Hidden' /\ Span' /\ FramesDrawable'
    BY <1>1, <2>3, <2>4 DEF Safety, Hidden, Span, FramesDrawable, Resident
  <2>6. BuffersKept'
    BY <1>1, <2>1, <2>4 DEF Safety, BuffersKept
  <2>7. LateBlend'
    <3>1. CASE s.mode = "interpolate" /\ ~enabled
      <4>1. DrawnAhead /\ prepared.selection = s
        BY <2>1, <3>1, Zenon
      <4>2. late_blends = 0 /\ late_blends' = 1
        BY <2>2, <3>1, <4>1 DEF Safety, LateBlend
      <4>3. prepared' = None
        BY <1>3, <4>2
      <4> QED
        BY <4>2, <4>3 DEF LateBlend, DrawnAhead
    <3>2. CASE ~(s.mode = "interpolate" /\ ~enabled)
      <4>1. late_blends' = late_blends
        BY <2>2, <3>2, Zenon
      <4> QED
        BY <1>1, <1>3, <4>1 DEF Safety, LateBlend, DrawnAhead
    <3> QED
      BY <3>1, <3>2
  <2>8. OnDisplay'
    <3>1. CASE q.visible
      <4>1. on_screen' = [selection |-> s, era |-> era]
        BY <2>2, <3>1, Zenon
      <4>2. on_screen'.selection = s /\ on_screen'.era = era
        BY <4>1
      <4>3. pacing_mode = "unpaced" /\ s.mode # "interpolate" => last_real' = s.current
        BY <2>1, Zenon
      <4>4. renderer'.visible
        BY <2>4, <3>1, Zenon
      <4> QED
        BY <1>1, <1>5, <4>2, <4>3, <4>4 DEF OnDisplay
    <3>2. CASE ~q.visible
      <4>1. on_screen' = on_screen
        BY <2>2, <3>2, Zenon
      <4>2. on_screen # None => on_screen.era # era /\ on_screen.era <= era
        BY <2>3, <2>4, <3>2 DEF Safety, OnDisplay
      <4> QED
        BY <1>1, <4>1, <4>2 DEF OnDisplay
    <3> QED
      BY <3>1, <3>2
  <2>9. PresentedIsCurrent'
    BY <1>1, <2>2 DEF PresentedIsCurrent
  <2> QED
    BY <1>2, <1>4, <2>5, <2>6, <2>7, <2>8, <2>9 DEF Safety
<1> QED
  BY <1>6, <1>7, ServeEffect DEF Safety

\* Every step keeps the safety invariants.
LEMMA SafetyStep ==
    ASSUME TypeOK, Safety, Next
    PROVE  Safety'
<1>1. CASE Serve
  BY <1>1, ServeStep
<1>2. CASE Follow \/ Wait \/ FinishPresent
  BY <1>2, SwapChainStep, Zenon
<1>3. CASE Surroundings
  BY <1>2, <1>3, UnconcernedStep, Zenon DEF Surroundings
<1>4. CASE Pump \/ Quit \/ NoRestore \/ RestoreFails \/ DrainEnd \/ SkipPrepare
  BY <1>4, UnconcernedStep, Zenon
<1> QED
  BY <1>1, <1>2, <1>3, <1>4, RestoreStep, EdgeStep, DrainStep, ToggleStep, PrepareStep, Zenon
     DEF Next, Loop, Serve

\* Only serving shows anything.
LEMMA ShownStep ==
    ASSUME TypeOK, Safety, Next
    PROVE  Serve \/ shown' = None
BY Zenon DEF Next, Loop, Surroundings, Serve, Capture, ComeDue, FinishPresent, Disturb, Pump, Quit,
   NoRestore, Restore, RestoreFails, Edge, DrainFrame, DrainEnd, Toggle, Prepare, SkipPrepare,
   Follow, Wait

IInv == TypeOK /\ Safety /\ PresentedIsCurrent

\* The invariant holds initially,
LEMMA InvariantInitially == Init => IInv
<1> SUFFICES ASSUME Init
             PROVE  IInv
  OBVIOUS
<1>0. Latency(pacing_mode) \in Nat
  BY DEF Latency
<1>1. /\ renderer = NewRenderer(Latency(pacing_mode), window_size)
      /\ window_size \in WindowSizes
  BY DEF Init
<1>2. /\ renderer \in RendererSet
      /\ ~renderer.visible /\ ~renderer.held
      /\ renderer.free = Latency(pacing_mode) /\ renderer.flying = 0
  <2> DEFINE l == Latency(pacing_mode)
  <2> HIDE DEF l
  <2> SUFFICES \A n \in Nat, b \in BOOLEAN :
          LET q == [history |-> {}, source_size |-> None, active |-> None, visible |-> b,
                    output_size |-> window_size, free |-> n, held |-> b, drawn |-> None,
                    flying |-> 0]
          IN  q \in RendererSet /\ q.visible = b /\ q.held = b /\ q.free = n /\ q.flying = 0
    BY <1>0, <1>1, Booleans, Zenon DEF NewRenderer
  <2> QED
    BY <1>1 DEF RendererSet
<1>3. TypeOK
  <2>1. Flags
    BY Zenon DEF Init, Flags
  <2>2. Counters
    BY DEF Init, Counters
  <2>3. Around
    BY DEF Init, Around
  <2>4. Held
    BY DEF Init, Held, Phases, PreparedSet, Ledger, Answers
  <2> QED
    BY <1>2, <2>1, <2>2, <2>3, <2>4, TypeParts
<1>4. Hidden /\ Ahead /\ LateBlend /\ OnDisplay
  BY <1>2 DEF Init, Hidden, Ahead, DrawnAhead, LateBlend, OnDisplay
<1>5. Span /\ FramesDrawable
  <2>1. TimelineHistory \in Nat
    BY LoopAssumption, RendererAssumption DEF LoopAssumption, RendererAssumption
  <2> QED
    BY <2>1, LoopAssumption DEF Init, Span, FramesDrawable, Resident, LoopAssumption
<1>6. BuffersKept
  BY <1>0, <1>2 DEF BuffersKept, Buffers
<1>7. Books /\ PresentedIsCurrent
  BY DEF Init, Books, SelectedAhead, Answered, Accounted, PresentedIsCurrent
<1> QED
  BY <1>3, <1>4, <1>5, <1>6, <1>7 DEF IInv, Safety

\* and is inductive.
LEMMA InvariantStep == IInv /\ [Next]_vars => IInv'
<1> SUFFICES ASSUME IInv, [Next]_vars
             PROVE  IInv'
  OBVIOUS
<1>1. CASE Next
  <2>1. TypeOK'
    BY <1>1, TypeStep DEF IInv, Safety
  <2>2. Safety'
    BY <1>1, SafetyStep DEF IInv
  <2>3. PresentedIsCurrent'
    <3>1. CASE Serve
      BY <3>1, ServeStep DEF IInv
    <3>2. CASE shown' = None
      BY <3>2 DEF PresentedIsCurrent
    <3> QED
      BY <1>1, <3>1, <3>2, ShownStep DEF IInv
  <2> QED
    BY <2>1, <2>2, <2>3 DEF IInv
<1>2. CASE UNCHANGED vars
  <2>1. TypeOK'
    BY <1>2, Zenon DEF IInv, TypeOK, vars, environment, toggling, source, clock, past
  <2>2. Safety'
    <3>1. UNCHANGED concerns
      BY <1>2 DEF concerns, vars, toggling, source, clock, past
    <3> QED
      BY <3>1, Unconcerned DEF IInv
  <2>3. PresentedIsCurrent'
    BY <1>2 DEF IInv, PresentedIsCurrent, vars
  <2> QED
    BY <2>1, <2>2, <2>3 DEF IInv
<1> QED
  BY <1>1, <1>2

\* The inductive invariant of the presentation loop holds.
THEOREM InvariantHolds == Spec => []IInv
<1>1. IInv /\ [Next]_vars => IInv'
  BY InvariantStep
<1> QED
  BY InvariantInitially, <1>1, PTL DEF Spec

\* Every variable of the loop keeps its type.
THEOREM TypeCorrect == Spec => []TypeOK
<1>1. IInv => TypeOK
  BY DEF IInv
<1> QED
  BY <1>1, InvariantHolds, PTL

\* Between two reveals a slot is selected for once, what was selected is presented at most once
\* and not before the slot was handed out, and every slot is presented, counted missed or left
\* idle, however late it is served and whatever befell the one drawn ahead (the deadline branch
\* and the render-ahead of main.cpp).
THEOREM SlotsAreSettled == Spec => []SlotsSettled
<1>1. IInv => SlotsSettled
  BY DEF IInv, Safety, Books, Answered, Accounted, SlotsSettled
<1> QED
  BY <1>1, InvariantHolds, PTL

\* Whatever frame the timeline holds, the renderer holds too and in the size of its textures,
\* however frames, size changes and restarts alternate.
THEOREM FramesAreDrawable == Spec => []FramesDrawable
<1>1. IInv => FramesDrawable
  BY DEF IInv, Safety
<1> QED
  BY <1>1, InvariantHolds, PTL

\* A slot drawn before a restart of the capture, a break of the source or a reveal is never
\* presented after it: every discontinuity invalidates the slot drawn ahead.
THEOREM OnlyCurrentIsPresented == Spec => []PresentedIsCurrent
<1>1. IInv => PresentedIsCurrent
  BY DEF IInv
<1> QED
  BY <1>1, InvariantHolds, PTL

\* Between polls the overlay is visible only if the last poll found the target in front and
\* not silent.
THEOREM OverlayAlwaysYields == Spec => []OverlayYields
<1>1. IInv => OverlayYields
  BY DEF IInv, Safety, Hidden, OverlayYields
<1> QED
  BY <1>1, InvariantHolds, PTL

\* After generation is switched off at most one more blend is presented, the one drawn ahead.
THEOREM AtMostOneLateBlend == Spec => []OneLateBlend
<1>1. IInv => OneLateBlend
  BY DEF IInv, Safety, LateBlend, OneLateBlend
<1> QED
  BY <1>1, InvariantHolds, PTL

\* No back buffer of the swap chain is lost or presented twice: free, held and flying add up
\* to the latency, unless a resize tore a slot drawn ahead.
THEOREM BuffersAreAccounted == Spec => []BuffersAccounted
<1>1. IInv => BuffersAccounted
  BY BuffersCount DEF IInv, Safety
<1> QED
  BY <1>1, InvariantHolds, PTL

NotRepeated ==
    pacing_mode = "unpaced" /\ shown' # None /\ on_screen # None =>
        \/ shown'.selection.mode = "interpolate"
        \/ shown'.selection # on_screen.selection
        \/ era # on_screen.era

\* What the display shows is remembered as last_real, which the guard compares.
LEMMA NotRepeatedStep == IInv /\ [Next]_vars => [NotRepeated]_vars
<1> SUFFICES ASSUME IInv, Next, pacing_mode = "unpaced", shown' # None, on_screen # None,
                    shown'.selection.mode # "interpolate",
                    shown'.selection = on_screen.selection, era = on_screen.era
             PROVE  FALSE
  BY Zenon DEF NotRepeated
<1>1. Serve
  BY ShownStep DEF IInv
<1>2. ServesSelection
  BY <1>1, ServeEffect DEF IInv, Safety, ServesNothing, PresentsNothing
<1>3. PICK s \in SelectionSet :
          /\ s.mode # "interpolate" => last_real # s.current
          /\ shown'.selection = s
  BY <1>2 DEF ServesSelection, PresentSelection
<1>4. last_real = on_screen.selection.current
  BY <1>3 DEF IInv, Safety, OnDisplay
<1> QED
  BY <1>3, <1>4

\* Unpaced, the real frame on display is not presented again in the same era.
THEOREM NothingIsRepeated == Spec => NoRepeat
<1>1. IInv /\ [Next]_vars => [NotRepeated]_vars
  BY NotRepeatedStep
<1>2. NoRepeat <=> [][NotRepeated]_vars
  BY DEF NoRepeat, NotRepeated
<1> QED
  BY <1>1, <1>2, InvariantHolds, PTL DEF Spec

==============================================================================
