------------------------ MODULE RoutingBoardProofs ------------------------
(***************************************************************************)
(* Proofs about RoutingBoard, for every set of lists, orders and posts.    *)
(* The invariant is about an operator who was never hasty: hasty is the    *)
(* exception the properties name, and once it is set it stays.             *)
(***************************************************************************)
EXTENDS RoutingBoard, TLAPS, FiniteSetTheorems

-----------------------------------------------------------------------------
(* Pages: what the six drawing functions return                            *)

\* What the carrier holds is a list of the page and an order.
Held(c) ==
    /\ c.before # Nothing => c.list \in Lists /\ c.order \in Orders
    /\ c.phase \in {"pending", "carrying", "landing"} =>
         c.list \in Lists /\ c.order \in Orders
    /\ c.phase \in {"carrying", "landing"} => c.before \in Orders

Pages ==
    [topology : Answer, top : Answer, screen : Answer, waiting : BOOLEAN, pending : BOOLEAN,
     carry : Carriers, keyed : KeyMoves \cup {Nothing}]

PageOK(p) == p \in Pages /\ Held(p.carry)

\* Nothing on the page was drawn anew.
Same(p, q) ==
    /\ q.top = p.top /\ q.screen = p.screen /\ q.carry = p.carry /\ q.keyed = p.keyed
    /\ p.pending => q.pending

\* Everything on the page is drawn anew.
Fresh(p, q) ==
    q.screen = q.top /\ q.carry = Detached(p.carry) /\ q.keyed = DetachedKey(p.keyed)

\* What a drawing that waits its turn does to a page.
Draws(p, q) == Same(p, q) \/ (Fresh(p, q) /\ ~CarryBusy(p.carry, p.keyed))

LEMMA DetachedHeld ==
    ASSUME NEW c \in Carriers, Held(c)
    PROVE  Detached(c) \in Carriers /\ Held(Detached(c))
  BY DEF Detached, Carriers, Held

LEMMA DetachedTwice ==
    ASSUME NEW c \in Carriers
    PROVE  Detached(Detached(c)) = Detached(c)
  BY DEF Detached, Carriers

LEMMA DetachedMoves ==
    ASSUME NEW k \in KeyMoves \cup {Nothing}
    PROVE  /\ DetachedKey(k) \in KeyMoves \cup {Nothing}
           /\ k # Nothing => DetachedKey(k) \in KeyMoves
  BY DEF DetachedKey, KeyMoves

LEMMA RenderPage ==
    ASSUME NEW p, PageOK(p)
    PROVE  /\ PageOK(Render(p)) /\ Fresh(p, Render(p))
           /\ Render(p).topology = p.topology /\ Render(p).pending = p.pending
<1>1. p \in Pages /\ Held(p.carry) /\ p.carry \in Carriers /\ p.keyed \in KeyMoves \cup {Nothing}
  BY DEF PageOK, Pages
<1>2. PICK c : c = Detached(p.carry)
  OBVIOUS
<1>3. PICK k : k = DetachedKey(p.keyed)
  OBVIOUS
<1>4. c \in Carriers /\ Held(c) /\ k \in KeyMoves \cup {Nothing}
  BY <1>1, <1>2, <1>3, DetachedHeld, DetachedMoves
<1>5. Render(p) = [p EXCEPT !.top = p.topology, !.screen = p.topology, !.waiting = FALSE,
                            !.carry = c, !.keyed = k]
  BY <1>2, <1>3 DEF Render
<1>6. /\ Render(p) \in Pages /\ Render(p).carry = c /\ Render(p).keyed = k
      /\ Render(p).screen = Render(p).top /\ Render(p).topology = p.topology
      /\ Render(p).pending = p.pending
  BY <1>1, <1>4, <1>5 DEF Pages
<1>7. QED
  BY <1>2, <1>3, <1>4, <1>6 DEF PageOK, Fresh

LEMMA ApplyUpdatePage ==
    ASSUME NEW p, PageOK(p), NEW d
    PROVE  PageOK(ApplyUpdate(p, d)) /\ Draws(p, ApplyUpdate(p, d))
<1>1. CASE InteractionActive(p.carry, p.keyed, d)
  <2>1. ApplyUpdate(p, d) = [p EXCEPT !.waiting = TRUE]
    BY <1>1 DEF ApplyUpdate
  <2>2. QED
    BY <2>1 DEF PageOK, Pages, Draws, Same
<1>2. CASE ~InteractionActive(p.carry, p.keyed, d)
  <2>1. ApplyUpdate(p, d) \in {Render(p), p}
    BY <1>2 DEF ApplyUpdate
  <2>2. ~CarryBusy(p.carry, p.keyed)
    BY <1>2 DEF InteractionActive, Busy
  <2>3. Same(p, p)
    BY DEF Same
  <2>4. QED
    BY <2>1, <2>2, <2>3, RenderPage DEF Draws
<1>3. QED
  BY <1>1, <1>2

LEMMA DrawsTwice ==
    ASSUME NEW p, NEW q, NEW r, PageOK(p), Draws(p, q), Draws(q, r)
    PROVE  /\ Draws(p, r)
           /\ Fresh(p, q) => Fresh(p, r)
<1>1. p.carry \in Carriers /\ p.keyed \in KeyMoves \cup {Nothing}
  BY DEF PageOK, Pages
<1>2. CASE Same(q, r)
  BY <1>2 DEF Draws, Same, Fresh
<1>3. CASE Fresh(q, r) /\ ~CarryBusy(q.carry, q.keyed)
  <2>1. CASE Same(p, q)
    BY <1>1, <1>3, <2>1, DetachedTwice DEF Draws, Same, Fresh, CarryBusy, DetachedKey
  <2>2. CASE Fresh(p, q) /\ ~CarryBusy(p.carry, p.keyed)
    BY <1>1, <1>3, <2>2, DetachedTwice DEF Draws, Fresh, CarryBusy, DetachedKey
  <2>3. QED
    BY <2>1, <2>2 DEF Draws
<1>4. QED
  BY <1>2, <1>3 DEF Draws

LEMMA FlushPendingPage ==
    ASSUME NEW p, PageOK(p), NEW d
    PROVE  PageOK(FlushPending(p, d)) /\ Draws(p, FlushPending(p, d))
<1>1. CASE p.waiting
  <2>1. PICK q : q = [p EXCEPT !.waiting = FALSE]
    OBVIOUS
  <2>2. PageOK(q) /\ Same(p, q)
    BY <2>1 DEF PageOK, Pages, Same
  <2>3. FlushPending(p, d) = ApplyUpdate(q, d)
    BY <1>1, <2>1 DEF FlushPending
  <2>4. PageOK(ApplyUpdate(q, d)) /\ Draws(q, ApplyUpdate(q, d))
    BY <2>2, ApplyUpdatePage
  <2>5. Draws(p, q)
    BY <2>2 DEF Draws
  <2>6. QED
    BY <2>3, <2>4, <2>5, DrawsTwice
<1>2. CASE ~p.waiting
  BY <1>2 DEF FlushPending, Draws, Same
<1>3. QED
  BY <1>1, <1>2

LEMMA RedrawPage ==
    ASSUME NEW p, PageOK(p), NEW d
    PROVE  /\ PageOK(Redraw(p, d)) /\ Draws(p, Redraw(p, d))
           /\ Busy(p.carry, p.keyed, d) \/ Typing => Redraw(p, d).pending
           /\ ~(Busy(p.carry, p.keyed, d) \/ Typing) => Fresh(p, Redraw(p, d))
<1>1. CASE Busy(p.carry, p.keyed, d) \/ Typing
  <2>1. Redraw(p, d) = [p EXCEPT !.pending = TRUE]
    BY <1>1 DEF Redraw
  <2>2. QED
    BY <1>1, <2>1 DEF PageOK, Pages, Draws, Same
<1>2. CASE ~(Busy(p.carry, p.keyed, d) \/ Typing)
  <2>1. p \in Pages /\ Held(p.carry) /\ p.carry \in Carriers
        /\ p.keyed \in KeyMoves \cup {Nothing}
    BY DEF PageOK, Pages
  <2>2. PICK c : c = Detached(p.carry)
    OBVIOUS
  <2>3. PICK k : k = DetachedKey(p.keyed)
    OBVIOUS
  <2>4. c \in Carriers /\ Held(c) /\ k \in KeyMoves \cup {Nothing}
    BY <2>1, <2>2, <2>3, DetachedHeld, DetachedMoves
  <2>5. Redraw(p, d) = [p EXCEPT !.screen = p.top, !.carry = c, !.keyed = k]
    BY <1>2, <2>2, <2>3 DEF Redraw
  <2>6. /\ Redraw(p, d) \in Pages /\ Redraw(p, d).carry = c /\ Redraw(p, d).keyed = k
        /\ Redraw(p, d).screen = Redraw(p, d).top
    BY <2>1, <2>4, <2>5 DEF Pages
  <2>7. QED
    BY <1>2, <2>2, <2>3, <2>4, <2>6 DEF PageOK, Fresh, Draws, Busy
<1>3. QED
  BY <1>1, <1>2

LEMMA SettledPage ==
    ASSUME NEW p, PageOK(p), NEW d
    PROVE  /\ PageOK(Settled(p, d)) /\ Draws(p, Settled(p, d))
           /\ ~Busy(p.carry, p.keyed, d) /\ p.pending /\ ~Typing => Fresh(p, Settled(p, d))
<1>1. CASE Busy(p.carry, p.keyed, d)
  BY <1>1 DEF Settled, Draws, Same
<1>2. CASE ~Busy(p.carry, p.keyed, d) /\ p.pending
  <2>1. PICK q : q = [p EXCEPT !.pending = FALSE]
    OBVIOUS
  <2>2. /\ PageOK(q) /\ q.carry = p.carry /\ q.keyed = p.keyed
        /\ q.top = p.top /\ q.screen = p.screen
    BY <2>1 DEF PageOK, Pages
  <2>3. PICK r : r = Redraw(q, d)
    OBVIOUS
  <2>4. PageOK(r) /\ Draws(q, r) /\ (Typing => r.pending) /\ (~Typing => Fresh(q, r))
    BY <1>2, <2>2, <2>3, RedrawPage
  <2>5. Draws(p, r) /\ (~Typing => Fresh(p, r))
    BY <1>2, <2>2, <2>4 DEF Draws, Same, Fresh, CarryBusy, Busy
  <2>6. Settled(p, d) = FlushPending(r, d)
    BY <1>2, <2>1, <2>3 DEF Settled
  <2>7. PageOK(FlushPending(r, d)) /\ Draws(r, FlushPending(r, d))
    BY <2>4, FlushPendingPage
  <2>8. QED
    BY <2>5, <2>6, <2>7, DrawsTwice
<1>3. CASE ~Busy(p.carry, p.keyed, d) /\ ~p.pending
  <2>1. Settled(p, d) = FlushPending(p, d)
    BY <1>3 DEF Settled
  <2>2. QED
    BY <1>3, <2>1, FlushPendingPage
<1>4. QED
  BY <1>1, <1>2, <1>3

LEMMA AppliedPage ==
    ASSUME NEW p, PageOK(p), NEW a \in Answer
    PROVE  PageOK(Applied(p, a)) /\ Fresh(p, Applied(p, a))
<1>1. PICK q : q = [p EXCEPT !.topology = a]
  OBVIOUS
<1>2. PageOK(q) /\ q.carry = p.carry /\ q.keyed = p.keyed
  BY <1>1 DEF PageOK, Pages
<1>3. Applied(p, a) = Render(q)
  BY <1>1 DEF Applied
<1>4. QED
  BY <1>2, <1>3, RenderPage DEF Fresh

-----------------------------------------------------------------------------
(* Types                                                                   *)

PageInv ==
    /\ topology \in Answer /\ top \in Answer /\ screen \in Answer
    /\ waiting \in BOOLEAN /\ pending \in BOOLEAN
    /\ carry \in Carriers /\ Held(carry)
    /\ keyed \in KeyMoves \cup {Nothing}

\* A post of an order names a list and an order; a post that was served has its answer.
PostOK(q) ==
    /\ q \in Posts
    /\ q.kind = "order" => q.list \in Lists /\ q.order \in Orders
    /\ q.at = "done" => q.answer \in Answer

PostsInv == posts \in [Slots -> {q \in Posts : PostOK(q)} \cup {Nothing}]

HandInv ==
    /\ timer \in BOOLEAN /\ flush \in BOOLEAN
    /\ drag \in BOOLEAN /\ field \in Fields /\ hasty \in BOOLEAN
    /\ due \subseteq (Lists \X Orders)

WireInv ==
    /\ stored \in Answer
    /\ poll \in [at : {"none", "asked", "read", "set"}, answer : Answer \cup {Nothing}]
    /\ poll.at = "read" => poll.answer \in Answer
    /\ ops \in 0..MaxOps

TypeInv == PageInv /\ PostsInv /\ HandInv /\ WireInv

LEMMA TypeInvOK == TypeInv => TypeOK
<1>1. {q \in Posts : PostOK(q)} \cup {Nothing} \subseteq Posts \cup {Nothing}
  OBVIOUS
<1>2. PostsInv => posts \in [Slots -> Posts \cup {Nothing}]
  BY <1>1 DEF PostsInv
<1>3. QED
  BY <1>2 DEF TypeInv, PageInv, HandInv, WireInv, TypeOK

LEMMA PageFields ==
    ASSUME PageInv
    PROVE  /\ PageOK(Page)
           /\ Page.carry = carry /\ Page.keyed = keyed /\ Page.top = top
           /\ Page.screen = screen /\ Page.pending = pending
  BY DEF PageInv, PageOK, Pages, Page

LEMMA ShowPage ==
    ASSUME NEW q, PageOK(q), Show(q)
    PROVE  PageInv'
  BY DEF PageInv, PageOK, Pages, Show

LEMMA OrdersThere == Orders # {}
<1>1. Cardinality({}) = 0
  BY FS_EmptySet
<1>2. QED
  BY <1>1, BoardAssumption

LEMMA TypeInit == Init => TypeInv
<1> SUFFICES ASSUME Init PROVE TypeInv
  OBVIOUS
<1>1. (CHOOSE o \in Orders : TRUE) \in Orders
  BY OrdersThere
<1>2. stored \in Answer /\ topology \in Answer /\ top \in Answer /\ screen \in Answer
  BY <1>1 DEF Init, Answer
<1>3. carry \in Carriers /\ Held(carry)
  BY DEF Init, Idle, Carriers, Held, Phases
<1>4. PostsInv
  BY DEF Init, PostsInv
<1>5. ops \in 0..MaxOps
  BY BoardAssumption DEF Init
<1>6. QED
  BY <1>2, <1>3, <1>4, <1>5 DEF Init, TypeInv, PageInv, HandInv, WireInv, NoPoll, Fields

\* The order is no change of what the board shows: nothing is sent, a redraw is due.
Quiet(r, p) ==
    /\ r.post = Nothing /\ r.timer /\ r.due = {}
    /\ r.page.pending /\ r.page.carry = [p.carry EXCEPT !.phase = "idle"]

\* The order is sent.
Sends(r, p, l, o) ==
    /\ r.post = OrderPost(l, o) /\ r.timer = timer /\ r.due = {<<l, o>>}
    /\ r.page.pending = p.pending /\ r.page.carry = [p.carry EXCEPT !.phase = "saving"]

\* What is on the screen is left alone.
Untouched(q, p) == q.top = p.top /\ q.screen = p.screen /\ q.keyed = p.keyed

\* What StepCarry.save returns.
LEMMA SaveParts ==
    ASSUME NEW p, PageOK(p), NEW l \in Lists, NEW o \in Orders
    PROVE  /\ PageOK(Save(p, l, o).page) /\ Untouched(Save(p, l, o).page, p)
           /\ Quiet(Save(p, l, o), p) \/ Sends(Save(p, l, o), p, l, o)
<1>1. p \in Pages /\ p.carry \in Carriers /\ Held(p.carry)
  BY DEF PageOK, Pages
<1>2. CASE Rows /\ p.top[l] = o
  <2>1. PICK c : c = [p.carry EXCEPT !.phase = "idle"]
    OBVIOUS
  <2>2. c \in Carriers /\ Held(c)
    BY <1>1, <2>1 DEF Carriers, Held, Phases
  <2>3. PICK g : g = [p EXCEPT !.carry = c, !.pending = TRUE]
    OBVIOUS
  <2>4. PageOK(g) /\ g.carry = c /\ g.pending /\ Untouched(g, p)
    BY <1>1, <2>2, <2>3 DEF PageOK, Pages, Untouched
  <2>5. Save(p, l, o) = [page |-> g, post |-> Nothing, timer |-> TRUE, due |-> {}]
    BY <1>1, <1>2, <2>1, <2>3 DEF Save, Pages, Carriers
  <2>6. /\ Save(p, l, o).page = g /\ Save(p, l, o).post = Nothing
        /\ Save(p, l, o).timer /\ Save(p, l, o).due = {}
    BY <2>5
  <2>7. QED
    BY <2>1, <2>4, <2>6 DEF Quiet
<1>3. CASE ~(Rows /\ p.top[l] = o)
  <2>1. PICK c : c = [p.carry EXCEPT !.phase = "saving"]
    OBVIOUS
  <2>2. c \in Carriers /\ Held(c)
    BY <1>1, <2>1 DEF Carriers, Held, Phases
  <2>3. PICK g : g = [p EXCEPT !.carry = c]
    OBVIOUS
  <2>4. PageOK(g) /\ g.carry = c /\ g.pending = p.pending /\ Untouched(g, p)
    BY <1>1, <2>2, <2>3 DEF PageOK, Pages, Untouched
  <2>5. Save(p, l, o) = [page |-> g, post |-> OrderPost(l, o), timer |-> timer,
                         due |-> {<<l, o>>}]
    BY <1>1, <1>3, <2>1, <2>3 DEF Save, Pages, Carriers
  <2>6. /\ Save(p, l, o).page = g /\ Save(p, l, o).post = OrderPost(l, o)
        /\ Save(p, l, o).timer = timer /\ Save(p, l, o).due = {<<l, o>>}
    BY <2>5
  <2>7. QED
    BY <2>1, <2>4, <2>6 DEF Sends
<1>4. QED
  BY <1>2, <1>3

LEMMA OrderPostOK ==
    ASSUME NEW l \in Lists, NEW o \in Orders
    PROVE  PostOK(OrderPost(l, o))
  BY DEF PostOK, OrderPost, Posts

LEMMA ButtonPostOK == PostOK(ButtonPost)
  BY DEF PostOK, ButtonPost, Posts

\* What a save leaves has its type.
SavedOK(r) ==
    /\ PageOK(r.page) /\ (r.post = Nothing \/ PostOK(r.post))
    /\ r.timer \in BOOLEAN /\ r.due \subseteq (Lists \X Orders)

LEMMA SaveOK ==
    ASSUME NEW p, PageOK(p), NEW l \in Lists, NEW o \in Orders, HandInv
    PROVE  SavedOK(Save(p, l, o))
<1>1. PICK r : r = Save(p, l, o)
  OBVIOUS
<1>2. PageOK(r.page) /\ (Quiet(r, p) \/ Sends(r, p, l, o))
  BY <1>1, SaveParts
<1>3. CASE Quiet(r, p)
  BY <1>1, <1>2, <1>3 DEF SavedOK, Quiet
<1>4. CASE Sends(r, p, l, o)
  BY <1>1, <1>2, <1>4, OrderPostOK DEF SavedOK, Sends, HandInv
<1>5. QED
  BY <1>2, <1>3, <1>4

LEMMA NoSaveParts ==
    ASSUME NEW p
    PROVE  /\ NoSave(p).page = p /\ NoSave(p).post = Nothing
           /\ NoSave(p).timer = timer /\ NoSave(p).due = {}
  BY DEF NoSave

LEMMA NoSaveOK ==
    ASSUME NEW p, PageOK(p), HandInv
    PROVE  SavedOK(NoSave(p))
  BY NoSaveParts DEF SavedOK, HandInv

\* The page once the keyboard's moves are no longer waiting.
Unkeyed(p) == [p EXCEPT !.keyed = Nothing]

LEMMA UnkeyedPage ==
    ASSUME NEW p, PageOK(p)
    PROVE  /\ PageOK(Unkeyed(p)) /\ Unkeyed(p).keyed = Nothing
           /\ Unkeyed(p).carry = p.carry /\ Unkeyed(p).top = p.top
           /\ Unkeyed(p).screen = p.screen /\ Unkeyed(p).pending = p.pending
  BY DEF PageOK, Pages, Unkeyed

\* What StepCarry.flush returns: what save returns, or nothing is saved.
LEMMA FlushParts ==
    ASSUME NEW p, PageOK(p)
    PROVE  /\ p.keyed # Nothing /\ p.keyed.order # p.keyed.before =>
                /\ p.keyed.list \in Lists /\ p.keyed.order \in Orders
                /\ Flush(p) = Save(Unkeyed(p), p.keyed.list, p.keyed.order)
           /\ ~(p.keyed # Nothing /\ p.keyed.order # p.keyed.before) =>
                Flush(p) = NoSave(Unkeyed(p))
<1>1. p.keyed \in KeyMoves \cup {Nothing}
  BY DEF PageOK, Pages
<1>2. QED
  BY <1>1 DEF Flush, Unkeyed, KeyMoves

LEMMA FlushOK ==
    ASSUME NEW p, PageOK(p), HandInv
    PROVE  SavedOK(Flush(p))
<1>1. CASE p.keyed # Nothing /\ p.keyed.order # p.keyed.before
  <2>1. PICK l : l = p.keyed.list
    OBVIOUS
  <2>2. PICK o : o = p.keyed.order
    OBVIOUS
  <2>3. l \in Lists /\ o \in Orders /\ Flush(p) = Save(Unkeyed(p), l, o)
    BY <1>1, <2>1, <2>2, FlushParts
  <2>4. QED
    BY <2>3, UnkeyedPage, SaveOK
<1>2. CASE ~(p.keyed # Nothing /\ p.keyed.order # p.keyed.before)
  BY <1>2, FlushParts, UnkeyedPage, NoSaveOK
<1>3. QED
  BY <1>1, <1>2

LEMMA SentPosts ==
    ASSUME NEW q, PostsInv, q = Nothing \/ PostOK(q), Sent(q)
    PROVE  PostsInv'
<1>1. CASE q = Nothing
  BY <1>1 DEF Sent, PostsInv
<1>2. CASE q # Nothing
  <2>1. PICK s \in FreeSlots : posts' = [posts EXCEPT ![s] = q]
    BY <1>2 DEF Sent
  <2>2. q \in {x \in Posts : PostOK(x)}
    BY <1>2 DEF PostOK
  <2>3. QED
    BY <2>1, <2>2 DEF PostsInv, FreeSlots
<1>3. QED
  BY <1>1, <1>2

LEMMA ActOps ==
    ASSUME WireInv, Act
    PROVE  ops' \in 0..MaxOps
  BY BoardAssumption DEF WireInv, Act

\* A step that shows a page and sends a post.
LEMMA ShownTypes ==
    ASSUME TypeInv, NEW g, PageOK(g), Show(g), NEW q, q = Nothing \/ PostOK(q), Sent(q),
           timer' \in BOOLEAN, due' \subseteq (Lists \X Orders),
           UNCHANGED <<stored, poll, flush, drag, field>>, hasty' \in BOOLEAN,
           ops' \in 0..MaxOps
    PROVE  TypeInv'
<1>1. PageInv'
  BY ShowPage
<1>2. PostsInv'
  BY SentPosts DEF TypeInv
<1>3. HandInv' /\ WireInv'
  BY DEF TypeInv, HandInv, WireInv
<1>4. QED
  BY <1>1, <1>2, <1>3 DEF TypeInv

\* What press puts into the carrier's hand.
Pressed(phase, l, o, body) ==
    [phase |-> phase, list |-> l, order |-> o, before |-> Nothing, there |-> TRUE,
     body |-> body, grip |-> TRUE]

LEMMA CarriedPage ==
    ASSUME NEW p, PageOK(p), NEW c \in Carriers, Held(c)
    PROVE  /\ PageOK([p EXCEPT !.carry = c]) /\ [p EXCEPT !.carry = c].carry = c
           /\ Untouched([p EXCEPT !.carry = c], p)
           /\ [p EXCEPT !.carry = c].pending = p.pending
  BY DEF PageOK, Pages, Untouched

LEMMA PressTypes ==
    ASSUME TypeInv, NEW l \in Lists, Press(l)
    PROVE  TypeInv'
<1>1. PICK r : r = Flush(Page)
  OBVIOUS
<1>2. PageOK(Page)
  BY PageFields DEF TypeInv
<1>3. SavedOK(r)
  BY <1>1, <1>2, FlushOK DEF TypeInv
<1>4. PICK ph \in {"idle", "pending"} :
           /\ Show([r.page EXCEPT !.carry = Pressed(ph, l, screen[l], carry.body)])
           /\ Sent(r.post) /\ timer' = r.timer /\ due' = due \cup r.due
  BY <1>1 DEF Press, Pressed
<1>5. PICK c : c = Pressed(ph, l, screen[l], carry.body)
  OBVIOUS
<1>6. c \in Carriers /\ Held(c)
  BY <1>5 DEF Pressed, Carriers, Held, Phases, TypeInv, PageInv, Answer
<1>7. PageOK([r.page EXCEPT !.carry = c])
  BY <1>3, <1>6, CarriedPage DEF SavedOK
<1>8. ops' \in 0..MaxOps
  BY ActOps DEF Press, TypeInv
<1>9. UNCHANGED <<stored, poll, flush, drag, field>> /\ hasty' \in BOOLEAN
  BY DEF Press
<1>10. timer' \in BOOLEAN /\ due' \subseteq (Lists \X Orders)
  BY <1>3, <1>4 DEF SavedOK, TypeInv, HandInv
<1>11. QED
  BY <1>3, <1>4, <1>5, <1>7, <1>8, <1>9, <1>10, ShownTypes DEF SavedOK

LEMMA KeyTypes ==
    ASSUME TypeInv, NEW l \in Lists, NEW o \in Orders, Key(l, o)
    PROVE  TypeInv'
<1>1. PageOK(Page)
  BY PageFields DEF TypeInv
<1>2. SavedOK(NoSave(Page)) /\ SavedOK(Flush(Page))
  BY <1>1, FlushOK, NoSaveOK DEF TypeInv
<1>3. PICK same \in BOOLEAN : same = (keyed # Nothing /\ keyed.list = l /\ keyed.there)
  BY Zenon
<1>4. PICK r : r = IF same THEN NoSave(Page) ELSE Flush(Page)
  OBVIOUS
<1>5. PICK before : before = IF same THEN keyed.before ELSE screen[l]
  OBVIOUS
<1>6. SavedOK(r)
  BY <1>2, <1>4
<1>7. before \in Orders
  BY <1>3, <1>5 DEF TypeInv, PageInv, Answer, KeyMoves
<1>8. PICK k : k = [list |-> l, before |-> before, order |-> o, there |-> TRUE]
  OBVIOUS
<1>9. k \in KeyMoves
  BY <1>7, <1>8 DEF KeyMoves
<1>10. /\ Show([r.page EXCEPT !.screen[l] = o, !.keyed = k])
       /\ Sent(r.post) /\ timer' = r.timer /\ due' = due \cup r.due
  BY <1>3, <1>4, <1>5, <1>8, Zenon DEF Key
<1>11. PageOK([r.page EXCEPT !.screen[l] = o, !.keyed = k])
  BY <1>6, <1>9 DEF SavedOK, PageOK, Pages, Answer
<1>12. ops' \in 0..MaxOps
  BY ActOps DEF Key, TypeInv
<1>13. UNCHANGED <<stored, poll, flush, drag, field>> /\ hasty' \in BOOLEAN
  BY DEF Key
<1>14. timer' \in BOOLEAN /\ due' \subseteq (Lists \X Orders)
  BY <1>6, <1>10 DEF SavedOK, TypeInv, HandInv
<1>15. QED
  BY <1>6, <1>10, <1>11, <1>12, <1>13, <1>14, ShownTypes DEF SavedOK

LEMMA KeyTimerTypes ==
    ASSUME TypeInv, KeyTimer
    PROVE  TypeInv'
<1>1. PICK r : r = Flush(Page)
  OBVIOUS
<1>2. SavedOK(r)
  BY <1>1, PageFields, FlushOK DEF TypeInv
<1>3. /\ Show(r.page) /\ Sent(r.post) /\ timer' = r.timer /\ due' = due \cup r.due
      /\ UNCHANGED <<stored, poll, flush, drag, field, hasty>> /\ ops' \in 0..MaxOps
  BY <1>1 DEF KeyTimer, TypeInv, WireInv
<1>4. timer' \in BOOLEAN /\ due' \subseteq (Lists \X Orders)
  BY <1>2, <1>3 DEF SavedOK, TypeInv, HandInv
<1>5. QED
  BY <1>2, <1>3, <1>4, ShownTypes DEF SavedOK, TypeInv, HandInv

\* What settleDown saves, the carrier empty again.
Landed == [Page EXCEPT !.carry = Idle]

LEMMA IdleHeld == Idle \in Carriers /\ Held(Idle)
  BY DEF Idle, Carriers, Held, Phases

LEMMA LandedPage ==
    ASSUME PageInv
    PROVE  /\ PageOK(Landed) /\ Landed.carry = Idle
           /\ Landed.keyed = keyed /\ Landed.top = top /\ Landed.screen = screen
           /\ Landed.pending = pending
  BY IdleHeld, PageFields DEF PageOK, Pages, Landed

LEMMA LandParts ==
    ASSUME TypeInv, Land
    PROVE  /\ carry.list \in Lists /\ carry.order \in Orders
           /\ UNCHANGED <<stored, poll, flush, drag, field, hasty, ops>>
           /\ \E r : /\ r = IF carry.order # carry.before
                            THEN Save(Landed, carry.list, carry.order) ELSE NoSave(Landed)
                     /\ SavedOK(r)
                     /\ Show(r.page) /\ Sent(r.post) /\ timer' = r.timer
                     /\ due' = (due \ {<<carry.list, carry.order>>}) \cup r.due
<1>1. carry.list \in Lists /\ carry.order \in Orders
  BY DEF Land, TypeInv, PageInv, Held
<1>2. PICK r : r = IF carry.order # carry.before
                   THEN Save(Landed, carry.list, carry.order) ELSE NoSave(Landed)
  OBVIOUS
<1>3. PICK l, o : l = carry.list /\ o = carry.order
  OBVIOUS
<1>4. SavedOK(Save(Landed, l, o)) /\ SavedOK(NoSave(Landed))
  BY <1>1, <1>3, LandedPage, SaveOK, NoSaveOK DEF TypeInv
<1>5. SavedOK(r)
  BY <1>2, <1>3, <1>4
<1>6. /\ Show(r.page) /\ Sent(r.post) /\ timer' = r.timer
      /\ due' = (due \ {<<carry.list, carry.order>>}) \cup r.due
      /\ UNCHANGED <<stored, poll, flush, drag, field, hasty, ops>>
  BY <1>2 DEF Land, Landed
<1>7. QED
  BY <1>1, <1>2, <1>5, <1>6

LEMMA LandTypes ==
    ASSUME TypeInv, Land
    PROVE  TypeInv'
<1>1. PICK r : /\ SavedOK(r)
               /\ Show(r.page) /\ Sent(r.post) /\ timer' = r.timer
               /\ due' = (due \ {<<carry.list, carry.order>>}) \cup r.due
  BY LandParts
<1>2. UNCHANGED <<stored, poll, flush, drag, field, hasty>> /\ ops' \in 0..MaxOps
  BY LandParts DEF TypeInv, WireInv
<1>3. timer' \in BOOLEAN /\ due' \subseteq (Lists \X Orders)
  BY <1>1 DEF SavedOK, TypeInv, HandInv
<1>4. QED
  BY <1>1, <1>2, <1>3, ShownTypes DEF SavedOK, TypeInv, HandInv

LEMMA LiftTypes ==
    ASSUME TypeInv, Lift
    PROVE  TypeInv'
<1>1. carry' \in Carriers /\ Held(carry')
  BY DEF Lift, TypeInv, PageInv, Carriers, Held, Phases
<1>2. PageInv'
  BY <1>1 DEF Lift, TypeInv, PageInv, pageVars
<1>3. QED
  BY <1>2 DEF Lift, TypeInv, PostsInv, HandInv, WireInv, pageVars

LEMMA PlaceTypes ==
    ASSUME TypeInv, NEW o \in Orders, Place(o)
    PROVE  TypeInv'
<1>1. carry' \in Carriers /\ Held(carry')
  BY DEF Place, TypeInv, PageInv, Carriers, Held
<1>2. screen' \in Answer
  BY DEF Place, TypeInv, PageInv, Answer
<1>3. PageInv'
  BY <1>1, <1>2 DEF Place, TypeInv, PageInv
<1>4. QED
  BY <1>3 DEF Place, TypeInv, PostsInv, HandInv, WireInv

\* The pointer lets go: the ways release ends.
Ungripped == [carry EXCEPT !.grip = FALSE]
Homed(cancelled) == IF cancelled THEN [Ungripped EXCEPT !.order = Ungripped.before] ELSE Ungripped

GivenUp ==
    /\ carry.phase = "pending" \/ (carry.phase = "carrying" /\ ~carry.there)
    /\ carry' = Reset(Ungripped)
    /\ UNCHANGED <<screen, due>>

Lands(cancelled) ==
    /\ carry.phase = "carrying" /\ carry.there
    /\ carry' = [Homed(cancelled) EXCEPT !.phase = "landing"]
    /\ screen' = [screen EXCEPT ![carry.list] = Homed(cancelled).order]
    /\ due' = due \cup Dropped(Homed(cancelled))

LetsGo(cancelled) ==
    /\ carry.phase \notin {"pending", "carrying"}
    /\ carry' = Ungripped
    /\ UNCHANGED screen
    /\ due' = IF cancelled THEN due ELSE due \cup Dropped(Ungripped)

LEMMA ReleaseWays ==
    ASSUME PageInv, NEW cancelled \in BOOLEAN, Release(cancelled)
    PROVE  /\ GivenUp \/ Lands(cancelled) \/ LetsGo(cancelled)
           /\ carry.grip
           /\ UNCHANGED <<stored, poll, posts, topology, top, waiting, pending, timer,
                          flush, keyed, drag, field, hasty, ops>>
<1>1. carry \in Carriers
  BY DEF PageInv
<1>2. PICK c : c = [carry EXCEPT !.grip = FALSE]
  OBVIOUS
<1>3. c.phase = carry.phase /\ c.there = carry.there /\ c.list = carry.list /\ c = Ungripped
  BY <1>1, <1>2 DEF Carriers, Ungripped
<1>4. PICK home : home = IF cancelled THEN [c EXCEPT !.order = c.before] ELSE c
  OBVIOUS
<1>5. home = Homed(cancelled)
  BY <1>3, <1>4 DEF Homed
<1>6. CASE c.phase = "pending" \/ (c.phase = "carrying" /\ ~c.there)
  <2>1. carry' = Reset(c) /\ UNCHANGED <<screen, due>>
    BY <1>2, <1>6 DEF Release
  <2>2. QED
    BY <1>3, <1>6, <2>1 DEF GivenUp, Release
<1>7. CASE c.phase = "carrying" /\ c.there
  <2>1. /\ carry' = [home EXCEPT !.phase = "landing"]
        /\ screen' = [screen EXCEPT ![c.list] = home.order]
        /\ due' = due \cup Dropped(home)
    BY <1>2, <1>4, <1>7 DEF Release
  <2>2. QED
    BY <1>3, <1>5, <1>7, <2>1 DEF Lands, Release
<1>8. CASE c.phase \notin {"pending", "carrying"}
  <2>1. /\ carry' = c /\ UNCHANGED screen
        /\ due' = IF cancelled THEN due ELSE due \cup Dropped(c)
    BY <1>2, <1>8 DEF Release
  <2>2. QED
    BY <1>3, <1>8, <2>1 DEF LetsGo, Release
<1>9. QED
  BY <1>6, <1>7, <1>8

LEMMA HomedParts ==
    ASSUME PageInv, NEW cancelled \in BOOLEAN
    PROVE  /\ Ungripped \in Carriers /\ Held(Ungripped) /\ Homed(cancelled) \in Carriers
           /\ Homed(cancelled).phase = carry.phase /\ Homed(cancelled).list = carry.list
           /\ Homed(cancelled).there = carry.there /\ Homed(cancelled).before = carry.before
           /\ Homed(cancelled).order = IF cancelled THEN carry.before ELSE carry.order
           /\ ~Homed(cancelled).grip
           /\ Ungripped.before = carry.before /\ Ungripped.list = carry.list
           /\ Ungripped.order = carry.order
<1>1. carry \in Carriers /\ Held(carry)
  BY DEF PageInv
<1>2. /\ Ungripped \in Carriers /\ Held(Ungripped) /\ ~Ungripped.grip
      /\ Ungripped.phase = carry.phase /\ Ungripped.list = carry.list
      /\ Ungripped.there = carry.there /\ Ungripped.before = carry.before
      /\ Ungripped.order = carry.order
  BY <1>1 DEF Ungripped, Carriers, Held
<1>3. QED
  BY <1>1, <1>2 DEF Homed, Carriers

LEMMA ReleaseTypes ==
    ASSUME TypeInv, NEW cancelled \in BOOLEAN, Release(cancelled)
    PROVE  TypeInv'
<1>1. PageInv /\ HandInv
  BY DEF TypeInv
<1>2. UNCHANGED <<stored, poll, posts, topology, top, waiting, pending, timer,
                  flush, keyed, drag, field, hasty, ops>>
  BY <1>1, ReleaseWays
<1>3. carry \in Carriers /\ Held(carry) /\ screen \in Answer /\ due \subseteq (Lists \X Orders)
  BY <1>1 DEF PageInv, HandInv
<1>4. carry' \in Carriers /\ Held(carry') /\ screen' \in Answer /\ due' \subseteq (Lists \X Orders)
  <2>1. CASE GivenUp
    <3>1. Ungripped.body \in BOOLEAN
      BY <1>1, HomedParts DEF Carriers
    <3>2. Reset(Ungripped) \in Carriers /\ Held(Reset(Ungripped))
      BY <3>1 DEF Reset, Idle, Carriers, Held, Phases
    <3>3. QED
      BY <1>3, <2>1, <3>2 DEF GivenUp
  <2>2. CASE Lands(cancelled)
    <3>1. PICK h : h = Homed(cancelled)
      OBVIOUS
    <3>2. /\ carry' = [h EXCEPT !.phase = "landing"]
          /\ screen' = [screen EXCEPT ![carry.list] = h.order]
          /\ due' = due \cup Dropped(h)
          /\ carry.phase = "carrying"
      BY <2>2, <3>1 DEF Lands
    <3>3. h \in Carriers /\ h.list = carry.list /\ h.before = carry.before
          /\ h.order = IF cancelled THEN carry.before ELSE carry.order
      BY <1>1, <3>1, HomedParts
    <3>4. h.list \in Lists /\ h.order \in Orders /\ h.before \in Orders
      BY <1>3, <3>2, <3>3 DEF Held
    <3>5. carry' \in Carriers /\ Held(carry')
      BY <3>2, <3>3, <3>4 DEF Carriers, Held, Phases
    <3>6. screen' \in Answer
      BY <1>3, <3>2, <3>4 DEF Answer
    <3>7. QED
      BY <1>3, <3>2, <3>4, <3>5, <3>6 DEF Dropped
  <2>3. CASE LetsGo(cancelled)
    <3>1. Ungripped \in Carriers /\ Held(Ungripped)
      BY <1>1, HomedParts
    <3>2. Dropped(Ungripped) \subseteq (Lists \X Orders)
      BY <3>1 DEF Dropped, Held
    <3>3. QED
      BY <1>3, <2>3, <3>1, <3>2 DEF LetsGo
  <2>4. QED
    BY <1>1, <2>1, <2>2, <2>3, ReleaseWays
<1>5. PageInv' /\ HandInv'
  BY <1>1, <1>2, <1>4 DEF PageInv, HandInv
<1>6. QED
  BY <1>2, <1>5 DEF TypeInv, PostsInv, WireInv

\* A step that only draws.
LEMMA DrawTypes ==
    ASSUME TypeInv, NEW g, PageOK(g), Show(g), UNCHANGED <<stored, posts, field, hasty, due>>,
           WireInv', timer' \in BOOLEAN, flush' \in BOOLEAN, drag' \in BOOLEAN
    PROVE  TypeInv'
<1>1. PageInv'
  BY ShowPage
<1>2. QED
  BY <1>1 DEF TypeInv, PostsInv, HandInv

LEMMA ReleaseCableTypes ==
    ASSUME TypeInv, NEW lands \in BOOLEAN, ReleaseCable(lands)
    PROVE  TypeInv'
<1>1. PageOK(Settled(Page, FALSE))
  BY PageFields, SettledPage DEF TypeInv
<1>2. Show(Settled(Page, FALSE))
  BY DEF ReleaseCable
<1>3. PageInv'
  BY <1>1, <1>2, ShowPage
<1>4. PICK q : q = IF lands THEN ButtonPost ELSE Nothing
  OBVIOUS
<1>5. Sent(q) /\ (q = Nothing \/ PostOK(q))
  BY <1>4, ButtonPostOK DEF ReleaseCable
<1>6. PostsInv'
  BY <1>5, SentPosts DEF TypeInv
<1>7. QED
  BY <1>3, <1>6 DEF ReleaseCable, TypeInv, HandInv, WireInv

LEMMA ReadingTypes ==
    ASSUME TypeInv, Reading
    PROVE  TypeInv'
<1>1. PageOK(Redraw(Page, drag)) /\ Show(Redraw(Page, drag))
  BY PageFields, RedrawPage DEF TypeInv, Reading
<1>2. WireInv'
  BY ActOps DEF Reading, TypeInv, WireInv
<1>3. UNCHANGED <<stored, posts, timer, flush, drag, field, hasty, due>>
  BY DEF Reading
<1>4. QED
  BY <1>1, <1>2, <1>3, DrawTypes DEF TypeInv, HandInv

LEMMA SettleTimerTypes ==
    ASSUME TypeInv, SettleTimer
    PROVE  TypeInv'
<1>1. PageOK(Settled(Page, drag)) /\ Show(Settled(Page, drag))
  BY PageFields, SettledPage DEF TypeInv, SettleTimer
<1>2. WireInv'
  BY DEF SettleTimer, TypeInv, WireInv
<1>3. UNCHANGED <<stored, posts, flush, drag, field, hasty, due>> /\ timer' = FALSE
  BY DEF SettleTimer
<1>4. QED
  BY <1>1, <1>2, <1>3, DrawTypes DEF TypeInv, HandInv

LEMMA FlushTimerTypes ==
    ASSUME TypeInv, FlushTimer
    PROVE  TypeInv'
<1>1. PageOK(FlushPending(Page, drag)) /\ Show(FlushPending(Page, drag))
  BY PageFields, FlushPendingPage DEF TypeInv, FlushTimer
<1>2. WireInv'
  BY DEF FlushTimer, TypeInv, WireInv
<1>3. UNCHANGED <<stored, posts, timer, drag, field, hasty, due>> /\ flush' = FALSE
  BY DEF FlushTimer
<1>4. QED
  BY <1>1, <1>2, <1>3, DrawTypes DEF TypeInv, HandInv

LEMMA PollApplyTypes ==
    ASSUME TypeInv, PollApply
    PROVE  TypeInv'
<1>1. PageOK(ApplyUpdate(Page, drag)) /\ Show(ApplyUpdate(Page, drag))
  BY PageFields, ApplyUpdatePage DEF TypeInv, PollApply
<1>2. WireInv'
  BY DEF PollApply, NoPoll, TypeInv, WireInv
<1>3. UNCHANGED <<stored, posts, timer, flush, drag, field, hasty, due>>
  BY DEF PollApply
<1>4. QED
  BY <1>1, <1>2, <1>3, DrawTypes DEF TypeInv, HandInv

LEMMA ServeTypes ==
    ASSUME TypeInv, NEW s \in Slots, Serve(s)
    PROVE  TypeInv'
<1>1. PICK q : q = posts[s]
  OBVIOUS
<1>2. q \in Posts /\ PostOK(q)
  BY <1>1 DEF Serve, TypeInv, PostsInv
<1>3. stored' \in Answer
  BY <1>1, <1>2 DEF Serve, TypeInv, WireInv, PostOK, Answer
<1>4. PICK n : n = [q EXCEPT !.at = "done", !.answer = stored']
  OBVIOUS
<1>5. n \in Posts /\ PostOK(n)
  BY <1>2, <1>3, <1>4 DEF Posts, PostOK
<1>6. posts' = [posts EXCEPT ![s] = n]
  BY <1>1, <1>4 DEF Serve, TypeInv, PostsInv
<1>7. PostsInv'
  BY <1>5, <1>6 DEF TypeInv, PostsInv
<1>8. QED
  BY <1>3, <1>7 DEF Serve, TypeInv, PageInv, HandInv, WireInv, pageVars, handVars

LEMMA RefuseTypes ==
    ASSUME TypeInv, NEW s \in Slots, Refuse(s)
    PROVE  TypeInv'
<1>1. PICK q : q = posts[s]
  OBVIOUS
<1>2. q \in Posts /\ PostOK(q)
  BY <1>1 DEF Refuse, TypeInv, PostsInv
<1>3. PICK n : n = [q EXCEPT !.at = "refused", !.answer = Nothing]
  OBVIOUS
<1>4. n \in Posts /\ PostOK(n)
  BY <1>2, <1>3 DEF Posts, PostOK
<1>5. posts' = [posts EXCEPT ![s] = n]
  BY <1>1, <1>3 DEF Refuse, TypeInv, PostsInv
<1>6. PostsInv'
  BY <1>4, <1>5 DEF TypeInv, PostsInv
<1>7. ops' \in 0..MaxOps
  BY ActOps DEF Refuse, TypeInv
<1>8. QED
  BY <1>6, <1>7 DEF Refuse, TypeInv, PageInv, HandInv, WireInv, pageVars, handVars

\* What the carrier is once an answer to a post was taken in.
Idled(c) == [c EXCEPT !.phase = "idle"]

LEMMA IdledHeld ==
    ASSUME NEW c \in Carriers, Held(c)
    PROVE  Idled(c) \in Carriers /\ Held(Idled(c)) /\ Idled(c).phase = "idle"
           /\ Idled(c).grip = c.grip /\ Idled(c).there = c.there /\ Idled(c).list = c.list
  BY DEF Idled, Carriers, Held, Phases

\* The answer to a post, by what it does to each part of the page.
LEMMA AnsweredParts ==
    ASSUME TypeInv, NEW s \in Slots, Answered(s)
    PROVE  /\ posts[s] \in Posts /\ PostOK(posts[s]) /\ posts[s].at \in {"done", "refused"}
           /\ PageInv'
           /\ posts' = [posts EXCEPT ![s] = Nothing]
           /\ UNCHANGED <<stored, poll, flush, drag, field, hasty, ops>>
           /\ due' = IF posts[s].kind = "order"
                     THEN due \ {<<posts[s].list, posts[s].order>>} ELSE due
           /\ \E c \in Carriers :
                /\ Held(c)
                /\ c = IF posts[s].at = "done" THEN Detached(carry) ELSE carry
                /\ carry' = IF posts[s].kind = "order" THEN Idled(c) ELSE c
           /\ posts[s].at = "done" => screen' = top' /\ keyed' = DetachedKey(keyed)
           /\ posts[s].at = "refused" => /\ UNCHANGED <<screen, top, keyed>>
                                         /\ pending => pending'
           /\ posts[s].at = "refused" /\ posts[s].kind = "order" => pending' /\ timer'
           /\ timer => timer'
           /\ timer' \in BOOLEAN
<1>1. PICK q : q = posts[s]
  OBVIOUS
<1>2. q \in Posts /\ PostOK(q) /\ q.at \in {"done", "refused"}
  BY <1>1 DEF Answered, TypeInv, PostsInv
<1>3. PICK back \in BOOLEAN : back = (q.kind = "order" /\ q.at = "refused")
  BY Zenon
<1>4. PICK p : p = IF q.at = "done" THEN Applied(Page, q.answer)
                   ELSE [Page EXCEPT !.pending = @ \/ back]
  OBVIOUS
<1>5. /\ IF q.kind = "order"
         THEN /\ Show([p EXCEPT !.carry.phase = "idle"])
              /\ due' = due \ {<<q.list, q.order>>}
         ELSE Show(p) /\ UNCHANGED due
      /\ timer' = (timer \/ back)
      /\ posts' = [posts EXCEPT ![s] = Nothing]
      /\ UNCHANGED <<stored, poll, flush, drag, field, hasty, ops>>
  BY <1>1, <1>3, <1>4, Zenon DEF Answered
<1>6. /\ PageOK(Page) /\ Page.carry = carry /\ Page.keyed = keyed /\ Page.top = top
      /\ Page.screen = screen /\ Page.pending = pending
  BY PageFields DEF TypeInv
<1>7. PICK c : c = IF q.at = "done" THEN Detached(carry) ELSE carry
  OBVIOUS
<1>8. c \in Carriers /\ Held(c)
  BY <1>7, DetachedHeld DEF TypeInv, PageInv
<1>9. /\ PageOK(p) /\ p.carry = c
      /\ q.at = "done" => p.screen = p.top /\ p.keyed = DetachedKey(keyed)
      /\ q.at = "refused" => /\ p.screen = screen /\ p.top = top /\ p.keyed = keyed
                             /\ pending => p.pending
      /\ back => p.pending
  <2>1. CASE q.at = "done"
    <3>1. q.answer \in Answer /\ p = Applied(Page, q.answer) /\ ~back
      BY <1>2, <1>3, <1>4, <2>1 DEF PostOK
    <3>2. PageOK(p) /\ Fresh(Page, p)
      BY <1>6, <3>1, AppliedPage
    <3>3. QED
      BY <1>6, <1>7, <2>1, <3>1, <3>2 DEF Fresh
  <2>2. CASE q.at = "refused"
    <3>1. p = [Page EXCEPT !.pending = pending \/ back]
      BY <1>4, <1>6, <2>2 DEF PageOK, Pages
    <3>2. /\ p \in Pages /\ p.carry = carry /\ p.screen = screen /\ p.top = top
          /\ p.keyed = keyed
      BY <1>3, <1>6, <3>1 DEF PageOK, Pages
    <3>3. (pending => p.pending) /\ (back => p.pending)
      BY <1>6, <3>1 DEF PageOK, Pages
    <3>4. QED
      BY <1>7, <1>8, <2>2, <3>2, <3>3 DEF PageOK
  <2>3. QED
    BY <1>2, <2>1, <2>2
<1>10. PICK g : g = IF q.kind = "order" THEN [p EXCEPT !.carry = Idled(c)] ELSE p
  OBVIOUS
<1>11. Idled(c) \in Carriers /\ Held(Idled(c))
  BY <1>8, IdledHeld
<1>12. /\ PageOK(g) /\ g.carry = IF q.kind = "order" THEN Idled(c) ELSE c
       /\ g.screen = p.screen /\ g.top = p.top /\ g.keyed = p.keyed /\ g.pending = p.pending
  BY <1>9, <1>10, <1>11, CarriedPage DEF Untouched
<1>13. [p EXCEPT !.carry.phase = "idle"] = [p EXCEPT !.carry = Idled(c)]
  BY <1>8, <1>9 DEF Idled, PageOK, Pages
<1>14. Show(g)
  BY <1>5, <1>10, <1>13
<1>15. PageInv'
  BY <1>12, <1>14, ShowPage
<1>16. /\ carry' = IF q.kind = "order" THEN Idled(c) ELSE c
       /\ screen' = p.screen /\ top' = p.top /\ keyed' = p.keyed /\ pending' = p.pending
  BY <1>12, <1>14 DEF Show
<1>17. timer' \in BOOLEAN /\ (timer => timer') /\ (back => timer')
  BY <1>3, <1>5
<1>18. due' = IF q.kind = "order" THEN due \ {<<q.list, q.order>>} ELSE due
  BY <1>5
<1>19. \E x \in Carriers :
         /\ Held(x)
         /\ x = IF q.at = "done" THEN Detached(carry) ELSE carry
         /\ carry' = IF q.kind = "order" THEN Idled(x) ELSE x
  BY <1>7, <1>8, <1>16
<1>20. /\ q.at = "done" => screen' = top' /\ keyed' = DetachedKey(keyed)
       /\ q.at = "refused" => screen' = screen /\ top' = top /\ keyed' = keyed
       /\ q.at = "refused" /\ pending => pending'
       /\ q.at = "refused" /\ q.kind = "order" => pending' /\ timer'
  BY <1>3, <1>9, <1>16, <1>17
<1>21. QED
  BY <1>1, <1>2, <1>5, <1>15, <1>17, <1>18, <1>19, <1>20

LEMMA AnsweredTypes ==
    ASSUME TypeInv, NEW s \in Slots, Answered(s)
    PROVE  TypeInv'
<1>1. /\ PageInv' /\ posts' = [posts EXCEPT ![s] = Nothing]
      /\ UNCHANGED <<stored, poll, flush, drag, field, hasty, ops>>
      /\ timer' \in BOOLEAN /\ due' \subseteq due
  BY AnsweredParts
<1>2. PostsInv'
  BY <1>1 DEF TypeInv, PostsInv
<1>3. QED
  BY <1>1, <1>2 DEF TypeInv, HandInv, WireInv

LEMMA TypeStep == TypeInv /\ [Next]_vars => TypeInv'
<1> SUFFICES ASSUME TypeInv, [Next]_vars PROVE TypeInv'
  OBVIOUS
<1>1. CASE PressCable
  BY <1>1, ActOps DEF PressCable, TypeInv, PageInv, PostsInv, HandInv, WireInv, pageVars
<1>2. CASE Button
  <2>1. PostsInv'
    BY <1>2, ButtonPostOK, SentPosts DEF Button, TypeInv
  <2>2. QED
    BY <1>2, <2>1, ActOps DEF Button, TypeInv, PageInv, HandInv, WireInv, pageVars, handVars
<1>3. ASSUME NEW f \in Fields, Focus(f) PROVE TypeInv'
  BY <1>3, ActOps DEF Focus, TypeInv, PageInv, PostsInv, HandInv, WireInv, pageVars
<1>4. CASE Blur
  <2>1. timer' \in BOOLEAN /\ field' \in Fields /\ flush' \in BOOLEAN
    BY <1>4 DEF Blur, Fields
  <2>2. QED
    BY <1>4, <2>1 DEF Blur, TypeInv, PageInv, PostsInv, HandInv, WireInv
<1>5. ASSUME NEW l \in Lists, NEW o \in Orders, OtherPage(l, o) PROVE TypeInv'
  <2>1. stored' \in Answer
    BY <1>5 DEF OtherPage, TypeInv, WireInv, Answer
  <2>2. QED
    BY <1>5, <2>1, ActOps
    DEF OtherPage, TypeInv, PageInv, PostsInv, HandInv, WireInv, pageVars, handVars
<1>6. CASE PollAsk
  BY <1>6 DEF PollAsk, TypeInv, PageInv, PostsInv, HandInv, WireInv, pageVars, handVars
<1>7. CASE PollRead
  BY <1>7 DEF PollRead, TypeInv, PageInv, PostsInv, HandInv, WireInv, pageVars, handVars
<1>8. CASE PollSet
  BY <1>8 DEF PollSet, TypeInv, PageInv, PostsInv, HandInv, WireInv, handVars
<1>9. CASE PollFail
  BY <1>9, ActOps
  DEF PollFail, NoPoll, TypeInv, PageInv, PostsInv, HandInv, WireInv, pageVars, handVars
<1>10. CASE UNCHANGED vars
  BY <1>10 DEF vars, TypeInv, PageInv, PostsInv, HandInv, WireInv, pageVars, handVars
<1>11. QED
  BY <1>1, <1>2, <1>3, <1>4, <1>5, <1>6, <1>7, <1>8, <1>9, <1>10, PressTypes, LiftTypes,
     PlaceTypes, ReleaseTypes, LandTypes, KeyTypes, KeyTimerTypes, ReleaseCableTypes,
     ReadingTypes, SettleTimerTypes, FlushTimerTypes, ServeTypes, RefuseTypes, AnsweredTypes,
     PollApplyTypes
  DEF Next

LEMMA TypeInvariant == Spec => []TypeInv
  BY TypeInit, TypeStep, PTL DEF Spec

\* The page's state keeps its types, also when the operator is hasty: a carrier that
\* lands, however it was interrupted, names a list and an order, and an answer that is drawn
\* is one the controller made.
THEOREM BoardTypeCorrect == Spec => []TypeOK
  BY TypeInvOK, TypeInvariant, PTL

-----------------------------------------------------------------------------
(* The board of an operator who was never hasty                            *)

\* An order is on its way in slot s.
Ordering(s) == posts[s] # Nothing /\ posts[s].kind = "order"

\* The pointer, the keyboard and a save exclude each other.
Hands ==
    /\ carry.grip => carry.phase \in {"pending", "carrying"}
    /\ keyed # Nothing => carry.phase = "idle"
    /\ \A s \in Slots : Ordering(s) => carry.phase = "saving"
    /\ \A s, r \in Slots : Ordering(s) /\ Ordering(r) => s = r

\* The screen shows what was drawn last; or does so but for one list.
Level == screen = top
LevelBut(k) == \A l \in Lists : l # k => screen[l] = top[l]

\* What a hand holds, a carrier's or the keyboard's: where it stood in the last drawing
\* and where it stands on the screen, unless it was drawn over.
Shown(h) ==
    /\ LevelBut(h.list)
    /\ h.there => h.before = top[h.list] /\ h.order = screen[h.list]
    /\ ~h.there => Level

\* How the screen may differ from the last drawing, in every phase of the carrier.
Screens ==
    /\ carry.phase = "idle" /\ keyed = Nothing => Level \/ (pending /\ (timer \/ drag \/ Typing))
    /\ keyed # Nothing => Shown(keyed)
    /\ carry.phase = "pending" => Level /\ (carry.there => carry.order = top[carry.list])
    /\ carry.phase \in {"carrying", "landing"} => Shown(carry)
    /\ carry.phase = "saving" =>
         \A l \in Lists : screen[l] # top[l] => \E s \in Slots : Ordering(s) /\ posts[s].list = l

\* OrderKept without its exception.
Kept ==
    \A d \in due :
        \/ carry.phase = "landing" /\ <<carry.list, carry.order>> = d
        \/ \E s \in Slots : posts[s] # Nothing /\ posts[s].kind = "order"
                            /\ <<posts[s].list, posts[s].order>> = d

BoardInv == Hands /\ Screens /\ Kept

\* The orders on their way stay so.
SameOrders ==
    \A s \in Slots :
        /\ Ordering(s)' <=> Ordering(s)
        /\ Ordering(s) => posts'[s].list = posts[s].list /\ posts'[s].order = posts[s].order

LEMMA BoardInit == Init => BoardInv
<1> SUFFICES ASSUME Init PROVE BoardInv
  OBVIOUS
<1>1. carry.phase = "idle" /\ ~carry.grip /\ keyed = Nothing /\ screen = top /\ due = {}
  BY DEF Init, Idle
<1>2. \A s \in Slots : ~Ordering(s)
  BY DEF Init, Ordering
<1>3. QED
  BY <1>1, <1>2 DEF BoardInv, Hands, Screens, Level, Kept

LEMMA SentOthers ==
    ASSUME TypeInv, NEW q, q = Nothing \/ q = ButtonPost, Sent(q)
    PROVE  SameOrders
<1>1. CASE q = Nothing
  BY <1>1 DEF Sent, SameOrders, Ordering
<1>2. CASE q # Nothing
  <2>1. PICK s \in FreeSlots : posts' = [posts EXCEPT ![s] = q]
    BY <1>2 DEF Sent
  <2>2. q.kind = "button"
    BY <1>2 DEF ButtonPost
  <2>3. s \in Slots /\ posts[s] = Nothing
    BY <2>1 DEF FreeSlots
  <2>4. posts'[s] = q /\ \A r \in Slots : r # s => posts'[r] = posts[r]
    BY <2>1, <2>3 DEF TypeInv, PostsInv
  <2>5. QED
    BY <2>2, <2>3, <2>4 DEF SameOrders, Ordering
<1>3. QED
  BY <1>1, <1>2

\* A step that draws nothing.
LEMMA SameKeeps ==
    ASSUME BoardInv, SameOrders, UNCHANGED <<top, screen, carry, keyed, due>>,
           pending => pending',
           carry.phase = "idle" /\ keyed = Nothing /\ pending /\ (timer \/ drag \/ Typing)
             => timer' \/ drag' \/ Typing'
    PROVE  BoardInv'
<1>1. Hands'
  BY DEF BoardInv, Hands, SameOrders
<1>2. Screens'
  <2>1. carry'.phase = "idle" /\ keyed' = Nothing
          => Level' \/ (pending' /\ (timer' \/ drag' \/ Typing'))
    BY DEF BoardInv, Screens, Level
  <2>2. /\ keyed' # Nothing => Shown(keyed)'
        /\ carry'.phase = "pending" => Level' /\ (carry'.there => carry'.order = top'[carry'.list])
        /\ carry'.phase \in {"carrying", "landing"} => Shown(carry)'
    BY DEF BoardInv, Screens, Level, Shown, LevelBut
  <2>3. carry'.phase = "saving" =>
          \A l \in Lists : screen'[l] # top'[l] =>
             \E s \in Slots : Ordering(s)' /\ posts'[s].list = l
    BY DEF BoardInv, Screens, SameOrders
  <2>4. QED
    BY <2>1, <2>2, <2>3 DEF Screens
<1>3. Kept'
  BY DEF BoardInv, Kept, SameOrders, Ordering
<1>4. QED
  BY <1>1, <1>2, <1>3 DEF BoardInv

\* A step that draws everything, whatever is held.
LEMMA FreshKeeps ==
    ASSUME TypeInv, BoardInv, SameOrders, screen' = top', carry' = Detached(carry),
           keyed' = DetachedKey(keyed), UNCHANGED due
    PROVE  BoardInv'
<1>1. /\ carry'.phase = carry.phase /\ carry'.grip = carry.grip /\ carry'.list = carry.list
      /\ carry'.order = carry.order /\ ~carry'.there
  BY DEF TypeInv, PageInv, Carriers, Detached
<1>2. (keyed' # Nothing => keyed # Nothing /\ ~keyed'.there)
  BY DEF TypeInv, PageInv, KeyMoves, DetachedKey
<1>3. Hands'
  BY <1>1, <1>2 DEF BoardInv, Hands, SameOrders
<1>4. Screens'
  BY <1>1, <1>2 DEF Screens, Level, LevelBut, Shown
<1>5. Kept'
  BY <1>1 DEF BoardInv, Kept, SameOrders, Ordering
<1>6. QED
  BY <1>3, <1>4, <1>5 DEF BoardInv

\* A step that draws when it may.
LEMMA DrawKeeps ==
    ASSUME TypeInv, BoardInv, SameOrders, NEW g, Draws(Page, g), Show(g), UNCHANGED due,
           carry.phase = "idle" /\ keyed = Nothing /\ pending /\ (timer \/ drag \/ Typing)
             => Fresh(Page, g) \/ timer' \/ drag' \/ Typing'
    PROVE  BoardInv'
<1>1. /\ Page.carry = carry /\ Page.keyed = keyed /\ Page.top = top
      /\ Page.screen = screen /\ Page.pending = pending
  BY PageFields DEF TypeInv
<1>2. CASE Fresh(Page, g)
  BY <1>1, <1>2, FreshKeeps DEF Fresh, Show
<1>3. CASE Same(Page, g) /\ ~Fresh(Page, g)
  <2>1. UNCHANGED <<top, screen, carry, keyed>> /\ (pending => pending')
    BY <1>1, <1>3 DEF Same, Show
  <2>2. QED
    BY <1>3, <2>1, SameKeeps
<1>4. QED
  BY <1>2, <1>3 DEF Draws

\* Nothing is due while the hand is empty or still holds.
LEMMA NothingDue ==
    ASSUME BoardInv
    PROVE  /\ carry.phase # "saving" => \A s \in Slots : ~Ordering(s)
           /\ carry.phase \notin {"landing", "saving"} => due = {}
           /\ carry.phase = "landing" => due \subseteq {<<carry.list, carry.order>>}
<1>1. carry.phase # "saving" => \A s \in Slots : ~Ordering(s)
  BY DEF BoardInv, Hands
<1>2. QED
  BY <1>1 DEF BoardInv, Kept, Ordering

\* Everything is over and drawn.
LEMMA LevelKeeps ==
    ASSUME carry'.phase = "idle", ~carry'.grip, keyed' = Nothing, due' = {},
           \A s \in Slots : ~Ordering(s)',
           Level' \/ (pending' /\ (timer' \/ drag' \/ Typing'))
    PROVE  BoardInv'
  BY DEF BoardInv, Hands, Screens, Kept

\* A changed order of one list, of which the hand has let go, is saved.
LEMMA SaveKeeps ==
    ASSUME TypeInv, NEW p, PageOK(p), NEW l \in Lists, NEW o \in Orders,
           p.keyed = Nothing, p.top = top, p.screen = screen, ~p.carry.grip,
           \A s \in Slots : ~Ordering(s), LevelBut(l),
           Show(Save(p, l, o).page), Sent(Save(p, l, o).post),
           timer' = Save(p, l, o).timer, due' = Save(p, l, o).due
    PROVE  BoardInv'
<1>1. PICK r : r = Save(p, l, o)
  OBVIOUS
<1>2. /\ Untouched(r.page, p) /\ (Quiet(r, p) \/ Sends(r, p, l, o))
      /\ Show(r.page) /\ Sent(r.post) /\ timer' = r.timer /\ due' = r.due
  BY <1>1, SaveParts
<1>3. keyed' = Nothing /\ top' = top /\ screen' = screen
  BY <1>2 DEF Untouched, Show
<1>4. p.carry \in Carriers
  BY DEF PageOK, Pages
<1>5. CASE Quiet(r, p)
  <2>1. UNCHANGED posts /\ due' = {} /\ timer' /\ pending'
    BY <1>2, <1>5 DEF Quiet, Sent, Show
  <2>2. carry'.phase = "idle" /\ ~carry'.grip
    BY <1>2, <1>4, <1>5 DEF Quiet, Show, Carriers
  <2>3. \A s \in Slots : ~Ordering(s)'
    BY <2>1 DEF Ordering
  <2>4. QED
    BY <1>3, <2>1, <2>2, <2>3, LevelKeeps
<1>6. CASE Sends(r, p, l, o)
  <2>1. Sent(OrderPost(l, o)) /\ due' = {<<l, o>>}
    BY <1>2, <1>6 DEF Sends
  <2>2. carry'.phase = "saving" /\ ~carry'.grip
    BY <1>2, <1>4, <1>6 DEF Sends, Show, Carriers
  <2>3. OrderPost(l, o) # Nothing
    BY OrderPostOK, NothingAssumption DEF PostOK
  <2>4. PICK s \in FreeSlots : posts' = [posts EXCEPT ![s] = OrderPost(l, o)]
    BY <2>1, <2>3 DEF Sent
  <2>5. s \in Slots
    BY <2>4 DEF FreeSlots
  <2>6. posts'[s] = OrderPost(l, o) /\ \A x \in Slots : x # s => posts'[x] = posts[x]
    BY <2>4, <2>5 DEF TypeInv, PostsInv
  <2>7. /\ Ordering(s)' /\ posts'[s].list = l /\ posts'[s].order = o
        /\ \A x \in Slots : Ordering(x)' => x = s
    BY <2>3, <2>5, <2>6 DEF Ordering, OrderPost
  <2>8. Hands'
    BY <1>3, <2>2, <2>7 DEF Hands
  <2>9. Screens'
    BY <1>3, <2>2, <2>5, <2>7 DEF Screens, LevelBut
  <2>10. Kept'
    BY <2>1, <2>5, <2>7 DEF Kept, Ordering
  <2>11. QED
    BY <2>8, <2>9, <2>10 DEF BoardInv
<1>7. QED
  BY <1>2, <1>5, <1>6

LEMMA PressBoard ==
    ASSUME ~hasty', TypeInv, BoardInv, NEW l \in Lists, Press(l)
    PROVE  BoardInv'
<1>1. /\ carry.phase = "idle" /\ keyed = Nothing
      /\ ~timer /\ ~drag /\ ~Typing
  BY DEF Press, Patient
<1>2. PageOK(Page) /\ Page.keyed = Nothing /\ Page.top = top /\ Page.screen = screen
  BY <1>1, PageFields DEF TypeInv
<1>3. PICK u : u = Unkeyed(Page)
  OBVIOUS
<1>4. PageOK(u) /\ u.keyed = Nothing /\ u.top = top /\ u.screen = screen
  BY <1>2, <1>3, UnkeyedPage
<1>5. Flush(Page) = NoSave(u)
  BY <1>2, <1>3, FlushParts
<1>6. PICK c : c = Pressed("pending", l, screen[l], carry.body)
  OBVIOUS
<1>7. c \in Carriers /\ Held(c) /\ c.phase = "pending" /\ c.list = l /\ c.order = screen[l]
  BY <1>6 DEF Pressed, Carriers, Held, Phases, TypeInv, PageInv, Answer
<1>8. /\ Show([Flush(Page).page EXCEPT !.carry = c]) /\ Sent(Flush(Page).post)
      /\ due' = due \cup Flush(Page).due
  BY <1>1, <1>6 DEF Press, Pressed
<1>9. Show([u EXCEPT !.carry = c]) /\ UNCHANGED <<posts, due>>
  BY <1>5, <1>8, NoSaveParts DEF Sent
<1>10. carry' = c /\ keyed' = Nothing /\ top' = top /\ screen' = screen
  BY <1>4, <1>7, <1>9, CarriedPage DEF Show, Untouched
<1>11. screen = top /\ due = {} /\ \A s \in Slots : ~Ordering(s)
  BY <1>1, NothingDue DEF BoardInv, Screens, Level
<1>12. \A s \in Slots : ~Ordering(s)'
  BY <1>9, <1>11 DEF Ordering
<1>13. Hands'
  BY <1>7, <1>10, <1>12 DEF Hands
<1>14. Screens'
  BY <1>7, <1>10, <1>11 DEF Screens, Level
<1>15. QED
  BY <1>9, <1>11, <1>13, <1>14 DEF BoardInv, Kept

LEMMA LiftBoard ==
    ASSUME TypeInv, BoardInv, Lift
    PROVE  BoardInv'
<1>1. carry.phase = "pending" /\ UNCHANGED <<posts, top, screen, keyed, due>>
  BY DEF Lift, pageVars
<1>2. /\ carry'.phase = "carrying" /\ carry'.list = carry.list /\ carry'.there = carry.there
      /\ carry'.order = carry.order /\ carry'.before = carry.order
  BY DEF Lift, TypeInv, PageInv, Carriers
<1>3. carry.list \in Lists
  BY <1>1 DEF TypeInv, PageInv, Held
<1>4. keyed = Nothing /\ due = {} /\ \A s \in Slots : ~Ordering(s)'
  BY <1>1, NothingDue DEF BoardInv, Hands, Ordering
<1>5. screen = top /\ (carry.there => carry.order = top[carry.list])
  BY <1>1 DEF BoardInv, Screens, Level
<1>6. Hands'
  BY <1>1, <1>2, <1>4 DEF Hands
<1>7. Shown(carry)'
  BY <1>1, <1>2, <1>3, <1>5 DEF Shown, LevelBut, Level
<1>8. Screens'
  BY <1>1, <1>2, <1>4, <1>7 DEF Screens
<1>9. QED
  BY <1>1, <1>4, <1>6, <1>8 DEF BoardInv, Kept

LEMMA PlaceBoard ==
    ASSUME TypeInv, BoardInv, NEW o \in Orders, Place(o)
    PROVE  BoardInv'
<1>1. carry.phase = "carrying" /\ UNCHANGED <<posts, top, keyed, due>>
  BY DEF Place
<1>2. /\ carry'.phase = "carrying" /\ carry'.list = carry.list /\ carry'.there = carry.there
      /\ carry'.order = o /\ carry'.before = carry.before
  BY <1>1 DEF Place, TypeInv, PageInv, Carriers
<1>3. carry.list \in Lists
  BY <1>1 DEF TypeInv, PageInv, Held
<1>4. keyed = Nothing /\ due = {} /\ \A s \in Slots : ~Ordering(s)'
  BY <1>1, NothingDue DEF BoardInv, Hands, Ordering
<1>5. Shown(carry)
  BY <1>1 DEF BoardInv, Screens
<1>6. screen' = IF carry.there THEN [screen EXCEPT ![carry.list] = o] ELSE screen
  BY DEF Place
<1>7. Hands'
  BY <1>1, <1>2, <1>4 DEF Hands
<1>8. Shown(carry)'
  BY <1>1, <1>2, <1>3, <1>5, <1>6 DEF Shown, LevelBut, Level, TypeInv, PageInv, Answer
<1>9. Screens'
  BY <1>1, <1>2, <1>4, <1>8 DEF Screens
<1>10. QED
  BY <1>1, <1>4, <1>7, <1>9 DEF BoardInv, Kept

LEMMA ReleaseBoard ==
    ASSUME TypeInv, BoardInv, NEW cancelled \in BOOLEAN, Release(cancelled)
    PROVE  BoardInv'
<1>1. PageInv
  BY DEF TypeInv
<1>2. /\ carry.phase \in {"pending", "carrying"} /\ UNCHANGED <<posts, top, keyed>>
      /\ GivenUp \/ Lands(cancelled)
  BY <1>1, ReleaseWays DEF BoardInv, Hands, LetsGo
<1>3. keyed = Nothing /\ due = {} /\ \A s \in Slots : ~Ordering(s)'
  BY <1>2, NothingDue DEF BoardInv, Hands, Ordering
<1>4. CASE GivenUp
  <2>1. carry'.phase = "idle" /\ ~carry'.grip
    BY <1>4 DEF GivenUp, Reset, Idle
  <2>2. screen = top
    BY <1>4 DEF GivenUp, BoardInv, Screens, Shown, Level
  <2>3. QED
    BY <1>2, <1>3, <1>4, <2>1, <2>2, LevelKeeps DEF GivenUp, Level
<1>5. CASE Lands(cancelled)
  <2>1. PICK h : h = Homed(cancelled)
    OBVIOUS
  <2>2. /\ h \in Carriers /\ h.list = carry.list /\ h.there = carry.there
        /\ h.before = carry.before /\ ~h.grip
        /\ h.order = IF cancelled THEN carry.before ELSE carry.order
    BY <1>1, <2>1, HomedParts
  <2>3. /\ carry.phase = "carrying" /\ carry.there
        /\ carry' = [h EXCEPT !.phase = "landing"]
        /\ screen' = [screen EXCEPT ![carry.list] = h.order]
        /\ due' = due \cup Dropped(h)
    BY <1>5, <2>1 DEF Lands
  <2>4. /\ carry'.phase = "landing" /\ carry'.list = carry.list /\ carry'.there
        /\ carry'.before = carry.before /\ carry'.order = h.order /\ ~carry'.grip
    BY <2>2, <2>3 DEF Carriers
  <2>5. carry.list \in Lists /\ Shown(carry)
    BY <2>3 DEF TypeInv, PageInv, Held, BoardInv, Screens
  <2>6. Shown(carry)'
    BY <1>2, <2>3, <2>4, <2>5 DEF Shown, LevelBut, Level, TypeInv, PageInv, Answer
  <2>7. Hands'
    BY <1>2, <1>3, <2>4 DEF Hands
  <2>8. Screens'
    BY <1>2, <1>3, <2>4, <2>6 DEF Screens
  <2>9. Kept'
    BY <1>3, <2>2, <2>3, <2>4 DEF Kept, Dropped
  <2>10. QED
    BY <2>7, <2>8, <2>9 DEF BoardInv
<1>6. QED
  BY <1>2, <1>4, <1>5

LEMMA LandBoard ==
    ASSUME TypeInv, BoardInv, Land
    PROVE  BoardInv'
<1>1. carry.phase = "landing" /\ keyed = Nothing /\ \A s \in Slots : ~Ordering(s)
  BY NothingDue DEF Land, BoardInv, Hands
<1>2. PICK r : /\ r = IF carry.order # carry.before
                      THEN Save(Landed, carry.list, carry.order) ELSE NoSave(Landed)
               /\ Show(r.page) /\ Sent(r.post) /\ timer' = r.timer
               /\ due' = (due \ {<<carry.list, carry.order>>}) \cup r.due
  BY LandParts
<1>3. due' = r.due
  BY <1>1, <1>2, NothingDue
<1>4. /\ PageOK(Landed) /\ Landed.carry = Idle /\ Landed.keyed = Nothing
      /\ Landed.top = top /\ Landed.screen = screen
  BY <1>1, LandedPage DEF TypeInv
<1>5. Shown(carry) /\ carry.list \in Lists /\ carry.order \in Orders
  BY <1>1, LandParts DEF BoardInv, Screens
<1>6. CASE carry.order # carry.before
  <2>1. PICK l, o : l = carry.list /\ o = carry.order
    OBVIOUS
  <2>2. r = Save(Landed, l, o) /\ l \in Lists /\ o \in Orders /\ LevelBut(l)
    BY <1>2, <1>5, <1>6, <2>1 DEF Shown
  <2>3. ~Landed.carry.grip
    BY <1>4 DEF Idle
  <2>4. QED
    BY <1>1, <1>2, <1>3, <1>4, <2>2, <2>3, SaveKeeps
<1>7. CASE carry.order = carry.before
  <2>1. r = NoSave(Landed)
    BY <1>2, <1>7
  <2>2. Show(Landed) /\ UNCHANGED posts /\ due' = {}
    BY <1>2, <1>3, <2>1, NoSaveParts DEF Sent
  <2>3. /\ carry' = Idle /\ keyed' = Nothing /\ top' = top /\ screen' = screen
    BY <1>4, <2>2 DEF Show
  <2>4. \A l \in Lists : screen[l] = top[l]
    BY <1>5, <1>7 DEF Shown, LevelBut, Level
  <2>5. screen = top
    BY <2>4 DEF TypeInv, PageInv, Answer
  <2>6. \A s \in Slots : ~Ordering(s)'
    BY <1>1, <2>2 DEF Ordering
  <2>7. QED
    BY <2>2, <2>3, <2>5, <2>6, LevelKeeps DEF Idle, Level
<1>8. QED
  BY <1>6, <1>7

LEMMA KeyTimerBoard ==
    ASSUME TypeInv, BoardInv, KeyTimer
    PROVE  BoardInv'
<1>1. /\ keyed # Nothing /\ carry.phase = "idle" /\ due = {}
      /\ \A s \in Slots : ~Ordering(s)
  BY NothingDue DEF KeyTimer, BoardInv, Hands
<1>2. /\ PageOK(Page) /\ Page.keyed = keyed /\ Page.carry = carry
      /\ Page.top = top /\ Page.screen = screen
  BY PageFields DEF TypeInv
<1>3. PICK u : u = Unkeyed(Page)
  OBVIOUS
<1>4. /\ PageOK(u) /\ u.keyed = Nothing /\ u.top = top /\ u.screen = screen
      /\ u.carry = carry /\ ~u.carry.grip
  BY <1>1, <1>2, <1>3, UnkeyedPage DEF BoardInv, Hands
<1>5. PICK r : r = Flush(Page)
  OBVIOUS
<1>6. Show(r.page) /\ Sent(r.post) /\ timer' = r.timer /\ due' = r.due
  BY <1>1, <1>5 DEF KeyTimer
<1>7. Shown(keyed)
  BY <1>1 DEF BoardInv, Screens
<1>8. CASE keyed.order # keyed.before
  <2>1. PICK l, o : l = keyed.list /\ o = keyed.order
    OBVIOUS
  <2>2. r = Save(u, l, o) /\ l \in Lists /\ o \in Orders
    BY <1>1, <1>2, <1>3, <1>5, <1>8, <2>1, FlushParts
  <2>3. LevelBut(l)
    BY <1>7, <2>1 DEF Shown
  <2>4. QED
    BY <1>1, <1>4, <1>6, <2>2, <2>3, SaveKeeps
<1>9. CASE keyed.order = keyed.before
  <2>1. r = NoSave(u)
    BY <1>2, <1>3, <1>5, <1>9, FlushParts
  <2>2. Show(u) /\ UNCHANGED posts /\ due' = {}
    BY <1>6, <2>1, NoSaveParts DEF Sent
  <2>3. /\ carry' = carry /\ keyed' = Nothing /\ top' = top /\ screen' = screen
    BY <1>4, <2>2 DEF Show
  <2>4. \A l \in Lists : screen[l] = top[l]
    BY <1>7, <1>9 DEF Shown, LevelBut, Level
  <2>5. screen = top
    BY <2>4 DEF TypeInv, PageInv, Answer
  <2>6. \A s \in Slots : ~Ordering(s)'
    BY <1>1, <2>2 DEF Ordering
  <2>7. QED
    BY <1>1, <1>4, <2>2, <2>3, <2>5, <2>6, LevelKeeps DEF Level
<1>10. QED
  BY <1>8, <1>9

\* A page after one move by the keyboard.
Keyed(p, l, o, k) == [p EXCEPT !.screen[l] = o, !.keyed = k]

LEMMA KeyBoard ==
    ASSUME ~hasty', TypeInv, BoardInv, NEW l \in Lists, NEW o \in Orders, Key(l, o)
    PROVE  BoardInv'
<1>1. /\ carry.phase = "idle" /\ ~timer /\ ~drag /\ ~Typing
      /\ keyed # Nothing => keyed.list = l /\ keyed.there
  BY DEF Key, Patient, Typing
<1>2. /\ PageOK(Page) /\ Page.keyed = keyed /\ Page.carry = carry
      /\ Page.top = top /\ Page.screen = screen
  BY PageFields DEF TypeInv
<1>3. PICK before : before = IF keyed # Nothing /\ keyed.list = l /\ keyed.there
                             THEN keyed.before ELSE screen[l]
  OBVIOUS
<1>4. PICK k : k = [list |-> l, before |-> before, order |-> o, there |-> TRUE]
  OBVIOUS
<1>5. PICK r : /\ r = IF keyed # Nothing /\ keyed.list = l /\ keyed.there
                      THEN NoSave(Page) ELSE Flush(Page)
               /\ Show(Keyed(r.page, l, o, k)) /\ Sent(r.post) /\ due' = due \cup r.due
  BY <1>3, <1>4 DEF Key, Keyed
<1>6. \E p : /\ r = NoSave(p) /\ PageOK(p) /\ p.carry = carry /\ p.top = top
             /\ p.screen = screen
  <2>1. CASE keyed # Nothing
    BY <1>1, <1>2, <1>5, <2>1
  <2>2. CASE keyed = Nothing
    <3>1. r = NoSave(Unkeyed(Page))
      BY <1>2, <1>5, <2>2, FlushParts
    <3>2. QED
      BY <1>2, <3>1, UnkeyedPage
  <2>3. QED
    BY <2>1, <2>2
<1>7. PICK p : /\ r = NoSave(p) /\ PageOK(p) /\ p.carry = carry /\ p.top = top
               /\ p.screen = screen
  BY <1>6
<1>8. Show(Keyed(p, l, o, k)) /\ UNCHANGED <<posts, due>>
  BY <1>5, <1>7, NoSaveParts DEF Sent
<1>9. /\ carry' = carry /\ top' = top /\ keyed' = k
      /\ screen' = [screen EXCEPT ![l] = o]
  BY <1>7, <1>8 DEF Show, Keyed, PageOK, Pages
<1>10. LevelBut(l) /\ before = top[l]
  BY <1>1, <1>3 DEF BoardInv, Screens, Level, LevelBut, Shown
<1>11. /\ k.list = l /\ k.there /\ k.before = before /\ k.order = o
       /\ k.before \in Orders
  BY <1>4, <1>10 DEF TypeInv, PageInv, Answer
<1>12. k # Nothing
  BY <1>4, <1>11, NothingAssumption DEF KeyMoves
<1>13. Shown(keyed)'
  BY <1>9, <1>10, <1>11 DEF Shown, LevelBut, TypeInv, PageInv, Answer
<1>14. due = {} /\ \A s \in Slots : ~Ordering(s)'
  BY <1>1, <1>8, NothingDue DEF Ordering
<1>15. Hands'
  BY <1>1, <1>9, <1>14 DEF BoardInv, Hands
<1>16. Screens'
  BY <1>1, <1>9, <1>12, <1>13 DEF Screens
<1>17. QED
  BY <1>8, <1>14, <1>15, <1>16 DEF BoardInv, Kept

LEMMA AnsweredBoard ==
    ASSUME TypeInv, BoardInv, NEW s \in Slots, Answered(s)
    PROVE  BoardInv'
<1>1. /\ posts[s] \in Posts /\ posts[s].at \in {"done", "refused"}
      /\ posts' = [posts EXCEPT ![s] = Nothing]
      /\ UNCHANGED <<drag, field>> /\ Typing' = Typing
      /\ due' = IF posts[s].kind = "order"
                THEN due \ {<<posts[s].list, posts[s].order>>} ELSE due
      /\ posts[s].at = "done" => screen' = top' /\ keyed' = DetachedKey(keyed)
      /\ posts[s].at = "refused" => /\ UNCHANGED <<screen, top, keyed>>
                                    /\ pending => pending'
      /\ posts[s].at = "refused" /\ posts[s].kind = "order" => pending' /\ timer'
      /\ timer => timer'
  BY AnsweredParts DEF Typing
<1>2. PICK c \in Carriers :
        /\ Held(c)
        /\ c = IF posts[s].at = "done" THEN Detached(carry) ELSE carry
        /\ carry' = IF posts[s].kind = "order" THEN Idled(c) ELSE c
  BY AnsweredParts
<1>3. posts[s] # Nothing
  BY <1>1, NothingAssumption
<1>4. posts'[s] = Nothing /\ \A r \in Slots : r # s => posts'[r] = posts[r]
  BY <1>1 DEF TypeInv, PostsInv
<1>5. CASE posts[s].kind = "order"
  <2>1. Ordering(s)
    BY <1>3, <1>5 DEF Ordering
  <2>2. carry.phase = "saving" /\ keyed = Nothing /\ ~carry.grip
    BY <2>1 DEF BoardInv, Hands
  <2>3. \A r \in Slots : ~Ordering(r)'
    BY <1>4, <2>1 DEF BoardInv, Hands, Ordering
  <2>4. \A d \in due : d = <<posts[s].list, posts[s].order>>
    BY <2>1, <2>2 DEF BoardInv, Hands, Kept, Ordering
  <2>5. due' = {}
    BY <1>1, <1>5, <2>4
  <2>6. c.grip = carry.grip
    BY <1>2 DEF Detached, TypeInv, PageInv, Carriers
  <2>7. carry'.phase = "idle" /\ ~carry'.grip
    BY <1>2, <1>5, <2>2, <2>6, IdledHeld
  <2>8. keyed' = Nothing
    BY <1>1, <2>2 DEF DetachedKey
  <2>9. Level' \/ (pending' /\ timer')
    BY <1>1, <1>5 DEF Level
  <2>10. QED
    BY <2>3, <2>5, <2>7, <2>8, <2>9, LevelKeeps
<1>6. CASE posts[s].kind # "order"
  <2>1. SameOrders
    BY <1>4, <1>6 DEF SameOrders, Ordering
  <2>2. carry' = c /\ UNCHANGED due
    BY <1>1, <1>2, <1>6
  <2>3. CASE posts[s].at = "done"
    BY <1>1, <1>2, <2>1, <2>2, <2>3, FreshKeeps
  <2>4. CASE posts[s].at = "refused"
    BY <1>1, <1>2, <2>1, <2>2, <2>4, SameKeeps
  <2>5. QED
    BY <1>1, <2>3, <2>4
<1>7. QED
  BY <1>5, <1>6

LEMMA ServedOrders ==
    ASSUME TypeInv, NEW s \in Slots, Serve(s) \/ Refuse(s)
    PROVE  SameOrders
<1>1. PICK q : q = posts[s]
  OBVIOUS
<1>2. q \in Posts /\ q # Nothing
  BY <1>1 DEF Serve, Refuse, TypeInv, PostsInv
<1>3. PICK n : /\ posts' = [posts EXCEPT ![s] = n]
               /\ n \in Posts /\ n.kind = q.kind /\ n.list = q.list /\ n.order = q.order
  <2>1. CASE Serve(s)
    <3>1. stored' \in Answer
      BY <2>1, ServeTypes DEF TypeInv, WireInv
    <3>2. PICK m : m = [q EXCEPT !.at = "done", !.answer = stored']
      OBVIOUS
    <3>3. m \in Posts /\ m.kind = q.kind /\ m.list = q.list /\ m.order = q.order
      BY <1>2, <3>1, <3>2 DEF Posts
    <3>4. posts' = [posts EXCEPT ![s] = m]
      BY <1>1, <2>1, <3>2 DEF Serve, TypeInv, PostsInv
    <3>5. QED
      BY <3>3, <3>4
  <2>2. CASE Refuse(s)
    <3>1. PICK m : m = [q EXCEPT !.at = "refused", !.answer = Nothing]
      OBVIOUS
    <3>2. m \in Posts /\ m.kind = q.kind /\ m.list = q.list /\ m.order = q.order
      BY <1>2, <3>1 DEF Posts
    <3>3. posts' = [posts EXCEPT ![s] = m]
      BY <1>1, <2>2, <3>1 DEF Refuse, TypeInv, PostsInv
    <3>4. QED
      BY <3>2, <3>3
  <2>3. QED
    BY <2>1, <2>2
<1>4. n # Nothing
  BY <1>3, NothingAssumption
<1>5. posts'[s] = n /\ \A r \in Slots : r # s => posts'[r] = posts[r]
  BY <1>3 DEF TypeInv, PostsInv
<1>6. QED
  BY <1>1, <1>2, <1>3, <1>4, <1>5 DEF SameOrders, Ordering

\* The settled() of a released cable or a timer leaves no drawing owed.
LEMMA SettledOwes ==
    ASSUME TypeInv, NEW d, carry.phase = "idle", keyed = Nothing, pending, ~d, ~Typing
    PROVE  Fresh(Page, Settled(Page, d))
<1>1. /\ PageOK(Page) /\ Page.carry = carry /\ Page.keyed = keyed /\ Page.pending = pending
  BY PageFields DEF TypeInv
<1>2. ~Busy(Page.carry, Page.keyed, d)
  BY <1>1 DEF Busy, CarryBusy
<1>3. QED
  BY <1>1, <1>2, SettledPage

\* The page shows what a drawing made of it.
Drawing == \E g : Draws(Page, g) /\ Show(g)

LEMMA DrawingSteps ==
    ASSUME TypeInv, \/ Reading \/ SettleTimer \/ FlushTimer \/ PollApply
                    \/ \E lands \in BOOLEAN : ReleaseCable(lands)
    PROVE  Drawing
<1>1. PageOK(Page)
  BY PageFields DEF TypeInv
<1>2. /\ Draws(Page, Redraw(Page, drag)) /\ Draws(Page, ApplyUpdate(Page, drag))
      /\ Draws(Page, Settled(Page, drag)) /\ Draws(Page, Settled(Page, FALSE))
      /\ Draws(Page, FlushPending(Page, drag))
  BY <1>1, RedrawPage, ApplyUpdatePage, SettledPage, FlushPendingPage
<1>3. QED
  BY <1>2 DEF Drawing, Reading, SettleTimer, FlushTimer, PollApply, ReleaseCable

\* A step that leaves the page's drawing and the hands alone.
StillStep ==
    \/ PressCable \/ Button \/ (\E f \in Fields \ {"none"} : Focus(f)) \/ Blur
    \/ \E l \in Lists, o \in Orders : OtherPage(l, o)
    \/ \E s \in Slots : Serve(s) \/ Refuse(s)
    \/ PollAsk \/ PollRead \/ PollSet \/ PollFail
    \/ UNCHANGED vars

LEMMA StillFacts ==
    ASSUME TypeInv, StillStep
    PROVE  /\ UNCHANGED <<top, screen, carry, keyed, due, pending>> /\ SameOrders
           /\ timer \/ drag \/ Typing => timer' \/ drag' \/ Typing'
<1>1. /\ UNCHANGED <<top, screen, carry, keyed, due, pending>>
      /\ timer \/ drag \/ Typing => timer' \/ drag' \/ Typing'
  <2>1. CASE PressCable
    BY <2>1 DEF PressCable, Typing, pageVars, handVars
  <2>2. CASE Button
    BY <2>2 DEF Button, Typing, pageVars, handVars
  <2>3. CASE \E f \in Fields \ {"none"} : Focus(f)
    BY <2>3 DEF Focus, Typing, pageVars, handVars
  <2>4. CASE Blur
    BY <2>4 DEF Blur, Typing, pageVars, handVars
  <2>5. CASE \E l \in Lists, o \in Orders : OtherPage(l, o)
    BY <2>5 DEF OtherPage, Typing, pageVars, handVars
  <2>6. CASE \E s \in Slots : Serve(s) \/ Refuse(s)
    BY <2>6 DEF Serve, Refuse, Typing, pageVars, handVars
  <2>7. CASE PollAsk \/ PollRead \/ PollSet \/ PollFail
    BY <2>7 DEF PollAsk, PollRead, PollSet, PollFail, Typing, pageVars, handVars
  <2>8. CASE UNCHANGED vars
    BY <2>8 DEF vars, Typing, pageVars, handVars
  <2>9. QED
    BY <2>1, <2>2, <2>3, <2>4, <2>5, <2>6, <2>7, <2>8 DEF StillStep
<1>2. SameOrders
  <2>1. CASE Button
    BY <2>1, SentOthers DEF Button
  <2>2. CASE \E s \in Slots : Serve(s) \/ Refuse(s)
    BY <2>2, ServedOrders
  <2>3. CASE UNCHANGED posts
    BY <2>3 DEF SameOrders, Ordering
  <2>4. QED
    BY <2>1, <2>2, <2>3
    DEF StillStep, PressCable, Focus, Blur, OtherPage, PollAsk, PollRead, PollSet, PollFail, vars
<1>3. QED
  BY <1>1, <1>2

LEMMA BoardStep ==
    ASSUME TypeInv, BoardInv, [Next]_vars, ~hasty'
    PROVE  BoardInv'
<1>1. CASE StillStep
  BY <1>1, StillFacts, SameKeeps
<1>2. PageOK(Page)
  BY PageFields DEF TypeInv
<1>3. CASE Reading
  <2>1. Draws(Page, Redraw(Page, drag))
    BY <1>2, RedrawPage
  <2>2. SameOrders
    BY <1>3 DEF Reading, SameOrders, Ordering
  <2>3. Show(Redraw(Page, drag)) /\ UNCHANGED <<timer, drag, due>> /\ Typing' = Typing
    BY <1>3 DEF Reading, Typing
  <2>4. QED
    BY <2>1, <2>2, <2>3, DrawKeeps
<1>4. CASE PollApply
  <2>1. Draws(Page, ApplyUpdate(Page, drag))
    BY <1>2, ApplyUpdatePage
  <2>2. SameOrders
    BY <1>4 DEF PollApply, SameOrders, Ordering
  <2>3. Show(ApplyUpdate(Page, drag)) /\ UNCHANGED <<timer, drag, due>> /\ Typing' = Typing
    BY <1>4 DEF PollApply, Typing
  <2>4. QED
    BY <2>1, <2>2, <2>3, DrawKeeps
<1>5. CASE SettleTimer
  <2>1. Draws(Page, Settled(Page, drag))
    BY <1>2, SettledPage
  <2>2. SameOrders
    BY <1>5 DEF SettleTimer, SameOrders, Ordering
  <2>3. Show(Settled(Page, drag)) /\ UNCHANGED <<drag, due>> /\ Typing' = Typing
    BY <1>5 DEF SettleTimer, Typing
  <2>4. carry.phase = "idle" /\ keyed = Nothing /\ pending
          => Fresh(Page, Settled(Page, drag)) \/ drag' \/ Typing'
    BY <2>3, SettledOwes
  <2>5. QED
    BY <2>1, <2>2, <2>3, <2>4, DrawKeeps
<1>6. ASSUME NEW lands \in BOOLEAN, ReleaseCable(lands) PROVE BoardInv'
  <2>1. PICK d : d = FALSE
    BY Zenon
  <2>2. Draws(Page, Settled(Page, d))
    BY <1>2, SettledPage
  <2>3. SameOrders
    BY <1>6, SentOthers DEF ReleaseCable
  <2>4. Show(Settled(Page, d)) /\ UNCHANGED <<timer, due>> /\ Typing' = Typing
    BY <1>6, <2>1 DEF ReleaseCable, Typing
  <2>5. carry.phase = "idle" /\ keyed = Nothing /\ pending
          => Fresh(Page, Settled(Page, d)) \/ Typing'
    BY <2>1, <2>4, SettledOwes
  <2>6. QED
    BY <2>2, <2>3, <2>4, <2>5, DrawKeeps
<1>7. CASE FlushTimer
  <2>1. Draws(Page, FlushPending(Page, drag))
    BY <1>2, FlushPendingPage
  <2>2. SameOrders
    BY <1>7 DEF FlushTimer, SameOrders, Ordering
  <2>3. Show(FlushPending(Page, drag)) /\ UNCHANGED <<timer, drag, due>> /\ Typing' = Typing
    BY <1>7 DEF FlushTimer, Typing
  <2>4. QED
    BY <2>1, <2>2, <2>3, DrawKeeps
<1>8. QED
  BY <1>1, <1>3, <1>4, <1>5, <1>6, <1>7, PressBoard, LiftBoard, PlaceBoard, ReleaseBoard, LandBoard,
     KeyBoard, KeyTimerBoard, AnsweredBoard
  DEF Next, StillStep

LEMMA HastyStays ==
    ASSUME TypeInv, [Next]_vars, hasty
    PROVE  hasty'
<1>1. ~Act
  BY DEF Act
<1>2. ~(\E l \in Lists : Press(l)) /\ ~(\E l \in Lists, o \in Orders : Key(l, o))
  BY <1>1 DEF Press, Key
<1>3. UNCHANGED hasty
  BY <1>2
  DEF Next, Lift, Place, Release, Land, KeyTimer, PressCable, ReleaseCable, Button, Reading,
      Focus, Blur, SettleTimer, FlushTimer, OtherPage, Serve, Refuse, Answered, PollAsk,
      PollRead, PollSet, PollApply, PollFail, vars, handVars
<1>4. QED
  BY <1>3

LEMMA BoardInvariant == Spec => [](TypeInv /\ (hasty \/ BoardInv))
<1>1. TypeInv /\ (hasty \/ BoardInv) /\ [Next]_vars => (hasty \/ BoardInv)'
  BY BoardStep, HastyStays
<1>2. QED
  BY <1>1, BoardInit, TypeInvariant, PTL DEF Spec

\* An order let go of is landing or on its way until it is answered, whatever polls,
\* answers, readings, refusals and lost posts come meanwhile (step-carry.js: settleDown,
\* flush, save), unless the operator took a card while a keyboard's save or a redraw waited.
THEOREM OrdersKept == Spec => []OrderKept
<1>1. hasty \/ BoardInv => OrderKept
  BY DEF BoardInv, Kept, OrderKept
<1>2. QED
  BY <1>1, BoardInvariant, PTL

\* But for the same exception, a list that stands otherwise than the board's last drawing is
\* held, waits for its save or its answer, or a drawing of it is owed (redrawAfterCarry).
THEOREM ScreenIsOwed == Spec => []ScreenOwed
<1>1. TypeInv /\ (hasty \/ BoardInv) => ScreenOwed
  <2> SUFFICES ASSUME TypeInv, BoardInv, NEW l \in Lists, screen[l] # top[l]
               PROVE  \/ carry.list = l \/ (keyed # Nothing /\ keyed.list = l)
                      \/ \E s \in Slots : posts[s] # Nothing /\ posts[s].list = l
                      \/ pending /\ (timer \/ drag \/ Typing)
    BY DEF ScreenOwed
  <2>1. ~Level
    BY DEF Level
  <2>2. carry.phase \in Phases
    BY DEF TypeInv, PageInv, Carriers
  <2>3. CASE carry.phase = "idle"
    BY <2>1, <2>3 DEF BoardInv, Screens, Shown, LevelBut
  <2>4. CASE carry.phase \in {"pending", "carrying", "landing"}
    BY <2>1, <2>4 DEF BoardInv, Screens, Shown, LevelBut
  <2>5. CASE carry.phase = "saving"
    BY <2>5 DEF BoardInv, Screens, Ordering
  <2>6. QED
    BY <2>2, <2>3, <2>4, <2>5 DEF Phases
<1>2. QED
  BY <1>1, BoardInvariant, PTL

LEMMA DrawHolds ==
    ASSUME TypeInv, BoardInv, carry.grip, Drawing
    PROVE  carry' = carry
<1>1. Page.carry = carry /\ Page.keyed = keyed
  BY PageFields DEF TypeInv
<1>2. CarryBusy(Page.carry, Page.keyed)
  BY <1>1 DEF BoardInv, Hands, CarryBusy
<1>3. QED
  BY <1>1, <1>2 DEF Drawing, Draws, Same, Show

\* Unless the operator was hasty, nothing but the answer to one of the page's own posts
\* takes what the pointer holds from under it (PoolBoard.busy, topologyInteractionActive).
THEOREM HeldStaysHeld == Spec => HeldStill
<1>1. TypeInv /\ (hasty \/ BoardInv) /\ [Next]_vars =>
        [carry.grip /\ carry.there /\ carry'.grip /\ ~carry'.there
           => hasty' \/ \E s \in Slots : posts[s] # Nothing /\ posts'[s] = Nothing]_vars
  <2> SUFFICES ASSUME TypeInv, BoardInv, [Next]_vars, ~hasty',
                      carry.grip, carry.there, carry'.grip, ~carry'.there
               PROVE  \E s \in Slots : posts[s] # Nothing /\ posts'[s] = Nothing
    BY HastyStays
  <2>1. carry.phase \in {"pending", "carrying"} /\ carry \in Carriers /\ keyed = Nothing
    BY DEF BoardInv, Hands, TypeInv, PageInv
  <2>2. ~StillStep
    BY StillFacts
  <2>3. /\ ~(Reading \/ SettleTimer \/ FlushTimer \/ PollApply)
        /\ ~(\E lands \in BOOLEAN : ReleaseCable(lands))
    BY DrawingSteps, DrawHolds
  <2>4. ~(\E l \in Lists : Press(l)) /\ ~(\E l \in Lists, o \in Orders : Key(l, o))
        /\ ~KeyTimer /\ ~Land
    BY <2>1 DEF Press, Key, KeyTimer, Land
  <2>5. ~Lift /\ ~(\E o \in Orders : Place(o))
    BY <2>1 DEF Lift, Place, Carriers
  <2>6. ASSUME NEW cancelled \in BOOLEAN, Release(cancelled) PROVE FALSE
    <3>1. PageInv
      BY DEF TypeInv
    <3>2. GivenUp \/ Lands(cancelled)
      BY <2>1, <2>6, <3>1, ReleaseWays DEF LetsGo
    <3>3. ~GivenUp
      BY DEF GivenUp, Reset, Idle
    <3>4. ~Lands(cancelled)
      BY <3>1, HomedParts DEF Lands, Carriers
    <3>5. QED
      BY <3>2, <3>3, <3>4
  <2>7. PICK s \in Slots : Answered(s)
    BY <2>2, <2>3, <2>4, <2>5, <2>6 DEF Next, StillStep
  <2>8. posts[s] # Nothing /\ posts'[s] = Nothing
    BY <2>7 DEF Answered, TypeInv, PostsInv
  <2>9. QED
    BY <2>8
<1>2. QED
  BY <1>1, BoardInvariant, PTL DEF Spec, HeldStill
=============================================================================
