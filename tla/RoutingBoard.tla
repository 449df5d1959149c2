---------------------------- MODULE RoutingBoard ----------------------------
(***************************************************************************)
(* The Routing page (static/js): who may draw it, and when.  A page holds  *)
(* the controller's last answer (topology), the answer its last full       *)
(* drawing was made from, and the elements on the screen, which a carrier  *)
(* (step-carry.js) also moves by hand before anything is saved.  Answers   *)
(* to polls and to posts arrive in any order; a poll's drawing waits while *)
(* something is held, a post's own answer draws at once.                   *)
(*                                                                         *)
(* What is drawn is abstracted to the order of each ordered list on it:    *)
(* the rows of each pool, or the columns of cards.  An answer is the       *)
(* function from lists to orders the controller held when it was made.     *)
(***************************************************************************)
EXTENDS Naturals, FiniteSets

CONSTANTS
    Lists,      \* the ordered lists on the page
    Orders,     \* the orders a list can stand in
    Seen,       \* the lists whose order the structure fingerprint tells apart
    Rows,       \* TRUE: the lists are pools' rows; FALSE: columns of cards
    Slots,      \* how many of the page's posts may be on their way at once
    MaxOps,     \* bound: what the operator, other pages and faults do in all
    Nothing     \* no list, no keyboard move, no post

ASSUME BoardAssumption ==
    /\ Cardinality(Orders) >= 2
    /\ Seen \subseteq Lists
    /\ Slots \in SUBSET Nat
    /\ MaxOps \in Nat
    /\ Rows \in BOOLEAN

VARIABLES
    stored,     \* the controller's orders
    poll,       \* the live refresh: its stage and the answer it carries
    posts,      \* slot -> the page's post on its way, with its answer
    topology,   \* the answer the page holds
    top,        \* the answer the last full drawing was made from
    screen,     \* the orders on the screen
    waiting,    \* topology-render.js: _topologyRenderPending
    pending,    \* the board's own drawing waits (PoolBoard.pending)
    timer,      \* a zero-delay call of settled() is due
    flush,      \* the page's own call of flushPendingTopologyRender is due
    carry,      \* the carrier: phase, list, the held list's order, ...
    keyed,      \* the keyboard's moves not yet saved, or Nothing
    drag,       \* a cable is held
    field,      \* what holds the focus: none, a field the board waits for
                \* (typing), or any other field the page alone waits for
    hasty,      \* whether the operator moved a card before the page was done
                \* with the last order: a keyboard's save or a redraw waited
    due,        \* orders the operator let go of and nobody answered for yet
    ops

pageVars == <<topology, top, screen, waiting, pending, timer, flush>>
handVars == <<carry, keyed, drag, field, hasty, due>>
vars == <<stored, poll, posts, pageVars, handVars, ops>>

Answer == [Lists -> Orders]

\* The carrier: its phase, the list it holds and the order that list stands in,
\* the order at the lift, whether the list is still on the page, whether the
\* document wears the carrying class, whether the pointer's listeners are bound.
Idle == [phase |-> "idle", list |-> Nothing, order |-> Nothing, before |-> Nothing,
         there |-> FALSE, body |-> FALSE, grip |-> FALSE]

Phases == {"idle", "pending", "carrying", "landing", "saving"}

NoPoll == [at |-> "none", answer |-> Nothing]

\* The page's posts: a new order of a list, or another change made by a button.
Posts ==
    [kind : {"order", "button"}, list : Lists \cup {Nothing}, order : Orders \cup {Nothing},
     at : {"sent", "done", "refused"}, answer : Answer \cup {Nothing}]

Carriers ==
    [phase : Phases, list : Lists \cup {Nothing}, order : Orders \cup {Nothing},
     before : Orders \cup {Nothing}, there : BOOLEAN, body : BOOLEAN, grip : BOOLEAN]

\* The keyboard's moves of a list: where it stood before them, where it stands now.
KeyMoves == [list : Lists, before : Orders, order : Orders, there : BOOLEAN]

Fields == {"none", "typing", "other"}

ASSUME NothingAssumption == Nothing \notin Posts /\ Nothing \notin KeyMoves

TypeOK ==
    /\ stored \in Answer /\ topology \in Answer /\ top \in Answer /\ screen \in Answer
    /\ poll \in [at : {"none", "asked", "read", "set"}, answer : Answer \cup {Nothing}]
    /\ posts \in [Slots -> Posts \cup {Nothing}]
    /\ waiting \in BOOLEAN /\ pending \in BOOLEAN
    /\ timer \in BOOLEAN /\ flush \in BOOLEAN
    /\ carry \in Carriers
    /\ keyed \in KeyMoves \cup {Nothing}
    /\ drag \in BOOLEAN /\ field \in Fields /\ hasty \in BOOLEAN
    /\ due \subseteq (Lists \X Orders)
    /\ ops \in 0..MaxOps

Init ==
    /\ stored = [l \in Lists |-> CHOOSE o \in Orders : TRUE]
    /\ topology = stored /\ top = stored /\ screen = stored
    /\ poll = NoPoll
    /\ posts = [s \in Slots |-> Nothing]
    /\ waiting = FALSE /\ pending = FALSE
    /\ timer = FALSE /\ flush = FALSE
    /\ carry = Idle /\ keyed = Nothing
    /\ drag = FALSE /\ field = "none" /\ hasty = FALSE
    /\ due = {}
    /\ ops = 0

\* Bound: nothing new begins once the operator was hasty.
Act == ~hasty /\ ops < MaxOps /\ ops' = ops + 1

-----------------------------------------------------------------------------
(* Drawing                                                                 *)

\* StepCarry.busy: held, landing, being saved, or waiting for the keyboard's save.
CarryBusy(c, k) == c.phase # "idle" \/ k # Nothing

\* PoolBoard.busy
Busy(c, k, d) == d \/ CarryBusy(c, k)

\* PoolBoard.typing: a name, a window or an hour of the board's own.
Typing == field = "typing"

\* Mutant: the page's deferral forgets the board.
ActiveForgetsBoard(c, k, d) == field # "none"

\* topologyInteractionActive: the board is busy, or any field holds the focus.
InteractionActive(c, k, d) == Busy(c, k, d) \/ field # "none"

\* topologyStructureFingerprint: the order of the other lists is not in it.
Fingerprint(a) == [l \in Seen |-> a[l]]

\* Elements drawn anew: what a carrier or the keyboard held is no longer on the page.
Detached(c) == [c EXCEPT !.there = FALSE]
DetachedKey(k) == IF k = Nothing THEN Nothing ELSE [k EXCEPT !.there = FALSE]

\* The page as a record, so that an action can chain the page's own calls.
Page == [topology |-> topology, top |-> top, screen |-> screen, waiting |-> waiting,
         pending |-> pending, carry |-> carry, keyed |-> keyed]

\* renderTopology: everything is drawn from the answer the page holds.
Render(p) ==
    [p EXCEPT !.top = p.topology, !.screen = p.topology, !.waiting = FALSE,
              !.carry = Detached(@), !.keyed = DetachedKey(@)]

\* Mutant: an unchanged structure is never told from a changed one.
ApplyNeverRebuilds(p, d) ==
    IF InteractionActive(p.carry, p.keyed, d) THEN [p EXCEPT !.waiting = TRUE] ELSE p

\* applyTopologyUpdate: waits while something is held, else rebuilds a changed structure.
ApplyUpdate(p, d) ==
    IF InteractionActive(p.carry, p.keyed, d)
    THEN [p EXCEPT !.waiting = TRUE]
    ELSE IF Fingerprint(p.topology) # Fingerprint(p.top) THEN Render(p) ELSE p

\* flushPendingTopologyRender
FlushPending(p, d) ==
    IF p.waiting THEN ApplyUpdate([p EXCEPT !.waiting = FALSE], d) ELSE p

\* PoolBoard.redraw: the board alone, from what its last full drawing read.
Redraw(p, d) ==
    IF Busy(p.carry, p.keyed, d) \/ Typing
    THEN [p EXCEPT !.pending = TRUE]
    ELSE [p EXCEPT !.screen = p.top, !.carry = Detached(@), !.keyed = DetachedKey(@)]

\* PoolBoard.settled: what waited for the pointer lands.
Settled(p, d) ==
    IF Busy(p.carry, p.keyed, d) THEN p
    ELSE LET q == IF p.pending THEN Redraw([p EXCEPT !.pending = FALSE], d) ELSE p
         IN  FlushPending(q, d)

\* PoolBoard.applied: the controller's answer is drawn at once, whatever is held.
Applied(p, a) == Render([p EXCEPT !.topology = a])

Show(p) ==
    /\ topology' = p.topology /\ top' = p.top /\ screen' = p.screen
    /\ waiting' = p.waiting /\ pending' = p.pending
    /\ carry' = p.carry /\ keyed' = p.keyed

-----------------------------------------------------------------------------
(* Saving an order                                                         *)

FreeSlots == {s \in Slots : posts[s] = Nothing}

\* The post takes the least free slot; Nothing leaves the slots alone.
Sent(q) ==
    IF q = Nothing THEN UNCHANGED posts
    ELSE \E s \in FreeSlots :
            /\ \A r \in FreeSlots : s <= r
            /\ posts' = [posts EXCEPT ![s] = q]

OrderPost(l, o) ==
    [kind |-> "order", list |-> l, order |-> o, at |-> "sent", answer |-> Nothing]

ButtonPost ==
    [kind |-> "button", list |-> Nothing, order |-> Nothing, at |-> "sent", answer |-> Nothing]

\* StepCarry.save with PoolCards.sort under it: a row order the board already
\* shows is no change, and the board is drawn back (redrawAfterCarry).
Save(p, l, o) ==
    IF Rows /\ p.top[l] = o
    THEN [page |-> [p EXCEPT !.carry.phase = "idle", !.pending = TRUE],
          post |-> Nothing, timer |-> TRUE, due |-> {}]
    ELSE [page |-> [p EXCEPT !.carry.phase = "saving"],
          post |-> OrderPost(l, o), timer |-> timer, due |-> {<<l, o>>}]

NoSave(p) == [page |-> p, post |-> Nothing, timer |-> timer, due |-> {}]

\* StepCarry.flush: the keyboard's moves so far, saved as one change of order.
Flush(p) ==
    LET k == p.keyed
        q == [p EXCEPT !.keyed = Nothing]
    IN  IF k # Nothing /\ k.order # k.before THEN Save(q, k.list, k.order) ELSE NoSave(q)

\* Mutant: the phase is cleared like the rest, to nothing.
ResetNull(c) == [Idle EXCEPT !.phase = Nothing, !.body = c.body]

\* StepCarry.reset: what the carrier holds is forgotten; the document's class is not its own.
Reset(c) == [Idle EXCEPT !.body = c.body]

-----------------------------------------------------------------------------
(* The pointer and the keyboard (step-carry.js)                            *)

\* No redraw is due, no cable is held, and the keyboard's moves waiting to be
\* saved, if any, are of this list as it stands on the page.
Patient(l) ==
    /\ ~timer /\ ~drag
    /\ keyed # Nothing => keyed.list = l /\ keyed.there

\* press: the keyboard's waiting moves are flushed, then the phase is set over theirs.
\* A flush that posts nothing ends at once, after the press has set its phase.
Press(l) ==
    /\ Act
    /\ carry.phase = "idle" /\ ~carry.grip /\ ~drag
    /\ hasty' = ~(Patient(l) /\ keyed = Nothing /\ ~Typing)
    /\ LET r == Flush(Page)
           ended == keyed # Nothing /\ r.timer /\ ~timer /\ r.post = Nothing
       IN  /\ Show([r.page EXCEPT !.carry =
                      [phase |-> IF ended THEN "idle" ELSE "pending", list |-> l,
                       order |-> screen[l], before |-> Nothing, there |-> TRUE,
                       body |-> carry.body, grip |-> TRUE]])
           /\ Sent(r.post) /\ timer' = r.timer /\ due' = due \cup r.due
    /\ UNCHANGED <<stored, poll, flush, drag, field>>

\* lift: the press travelled.
Lift ==
    /\ carry.phase = "pending" /\ carry.grip
    /\ carry' = [carry EXCEPT !.phase = "carrying", !.before = carry.order, !.body = TRUE]
    /\ UNCHANGED <<stored, poll, posts, pageVars, keyed, drag, field, hasty, due, ops>>

\* settle, place: the seat goes where the pointer says, in its own list.
Place(o) ==
    /\ carry.phase = "carrying" /\ carry.grip /\ o # carry.order
    /\ carry' = [carry EXCEPT !.order = o]
    /\ screen' = IF carry.there THEN [screen EXCEPT ![carry.list] = o] ELSE screen
    /\ UNCHANGED <<stored, poll, posts, topology, top, waiting, pending, timer, flush,
                   keyed, drag, field, hasty, due, ops>>

\* The order the pointer lets go of, if it is one.
Dropped(c) ==
    IF c.before # Nothing /\ c.order # c.before /\ c.there THEN {<<c.list, c.order>>} ELSE {}

\* release: a press that never travelled and a card drawn over are given up;
\* a cancelled carry goes home; the rest lands.
Release(cancelled) ==
    /\ carry.grip
    /\ LET c == [carry EXCEPT !.grip = FALSE]
           home == IF cancelled THEN [c EXCEPT !.order = c.before] ELSE c
       IN  CASE c.phase = "pending" \/ (c.phase = "carrying" /\ ~c.there) ->
                  /\ carry' = Reset(c)
                  /\ UNCHANGED <<screen, due>>
             [] c.phase = "carrying" /\ c.there ->
                  /\ carry' = [home EXCEPT !.phase = "landing"]
                  /\ screen' = [screen EXCEPT ![c.list] = home.order]
                  /\ due' = due \cup Dropped(home)
             [] OTHER ->
                  /\ carry' = c
                  /\ UNCHANGED screen
                  /\ due' = IF cancelled THEN due ELSE due \cup Dropped(c)
    /\ UNCHANGED <<stored, poll, posts, topology, top, waiting, pending, timer, flush,
                   keyed, drag, field, hasty, ops>>

\* Mutant: the landed order is compared after it was forgotten, and never saved.
LandForgets ==
    /\ carry.phase = "landing"
    /\ carry' = Idle
    /\ UNCHANGED <<stored, poll, posts, pageVars, keyed, drag, field, hasty, due, ops>>

\* settleDown: the card is in its place, and a changed order is saved.
Land ==
    /\ carry.phase = "landing"
    /\ LET c == carry
           p == [Page EXCEPT !.carry = Idle]
           r == IF c.order # c.before THEN Save(p, c.list, c.order) ELSE NoSave(p)
       IN  /\ Show(r.page) /\ Sent(r.post) /\ timer' = r.timer
           /\ due' = (due \ {<<c.list, c.order>>}) \cup r.due
    /\ UNCHANGED <<stored, poll, flush, drag, field, hasty, ops>>

\* key: one place up or down, the focus on the grip; moves of another list are
\* flushed first.
Key(l, o) ==
    /\ Act
    /\ carry.phase = "idle" /\ o # screen[l] /\ field = "none"
    /\ hasty' = ~Patient(l)
    /\ LET same == keyed # Nothing /\ keyed.list = l /\ keyed.there
           r == IF same THEN NoSave(Page) ELSE Flush(Page)
           before == IF same THEN keyed.before ELSE screen[l]
       IN  /\ Show([r.page EXCEPT !.screen[l] = o,
                      !.keyed = [list |-> l, before |-> before, order |-> o, there |-> TRUE]])
           /\ Sent(r.post) /\ timer' = r.timer /\ due' = due \cup r.due
    /\ UNCHANGED <<stored, poll, flush, drag, field>>

\* The lazy timer runs out.
KeyTimer ==
    /\ keyed # Nothing
    /\ LET r == Flush(Page)
       IN  Show(r.page) /\ Sent(r.post) /\ timer' = r.timer /\ due' = due \cup r.due
    /\ UNCHANGED <<stored, poll, flush, drag, field, hasty, ops>>

-----------------------------------------------------------------------------
(* The rest of the board (pool-board.js)                                   *)

\* press on an output: a cable is held.
PressCable ==
    /\ Act
    /\ ~drag /\ ~carry.grip
    /\ drag' = TRUE
    /\ UNCHANGED <<stored, poll, posts, pageVars, carry, keyed, field, hasty, due>>

\* release, endDrag: the drawings that waited land, then the cable's change is sent.
ReleaseCable(lands) ==
    /\ drag /\ (lands => FreeSlots # {})
    /\ drag' = FALSE
    /\ Show(Settled(Page, FALSE))
    /\ Sent(IF lands THEN ButtonPost ELSE Nothing)
    /\ UNCHANGED <<stored, poll, timer, flush, field, hasty, due, ops>>

\* A button of the board: a post that may change orders (arrange) or not.
Button ==
    /\ Act
    /\ ~drag /\ ~carry.grip /\ FreeSlots # {}
    /\ Sent(ButtonPost)
    /\ UNCHANGED <<stored, poll, pageVars, handVars>>

\* A reading of an account landed: the board alone is drawn.
Reading ==
    /\ Act
    /\ Show(Redraw(Page, drag))
    /\ UNCHANGED <<stored, poll, posts, timer, flush, drag, field, hasty, due>>

Focus(f) ==
    /\ Act
    /\ field = "none" /\ ~drag /\ ~carry.grip
    /\ field' = f
    /\ UNCHANGED <<stored, poll, posts, pageVars, carry, keyed, drag, hasty, due>>

\* focusout: the board's own fields call settled() once the focus has moved on, and
\* any field has the page flush the drawing that waited.
Blur ==
    /\ field # "none"
    /\ field' = "none" /\ timer' = (timer \/ Typing) /\ flush' = TRUE
    /\ UNCHANGED <<stored, poll, posts, topology, top, screen, waiting, pending,
                   carry, keyed, drag, hasty, due, ops>>

SettleTimer ==
    /\ timer
    /\ timer' = FALSE
    /\ Show(Settled(Page, drag))
    /\ UNCHANGED <<stored, poll, posts, flush, drag, field, hasty, due, ops>>

FlushTimer ==
    /\ flush
    /\ flush' = FALSE
    /\ Show(FlushPending(Page, drag))
    /\ UNCHANGED <<stored, poll, posts, timer, drag, field, hasty, due, ops>>

-----------------------------------------------------------------------------
(* The controller, other pages and the network                             *)

OtherPage(l, o) ==
    /\ Act
    /\ stored[l] # o
    /\ stored' = [stored EXCEPT ![l] = o]
    /\ UNCHANGED <<poll, posts, pageVars, handVars>>

\* The controller keeps the change and answers with what it then holds.
Serve(s) ==
    /\ posts[s] # Nothing /\ posts[s].at = "sent"
    /\ \/ posts[s].kind = "order" /\ stored' = [stored EXCEPT ![posts[s].list] = posts[s].order]
       \/ /\ posts[s].kind = "button"
          /\ \/ stored' = stored
             \/ \E l \in Lists, o \in Orders : stored' = [stored EXCEPT ![l] = o]
    /\ posts' = [posts EXCEPT ![s].at = "done", ![s].answer = stored']
    /\ UNCHANGED <<poll, pageVars, handVars, ops>>

\* A refusal, or an answer that never comes: the page cannot tell them apart.
Refuse(s) ==
    /\ Act
    /\ posts[s] # Nothing /\ posts[s].at \in {"sent", "done"}
    /\ posts' = [posts EXCEPT ![s].at = "refused", ![s].answer = Nothing]
    /\ UNCHANGED <<stored, poll, pageVars, handVars>>

\* Mutant: a refused order stays on the screen.
AnsweredRefusedStays(s) ==
    /\ posts[s] # Nothing /\ posts[s].at \in {"done", "refused"}
    /\ LET q == posts[s]
           p == IF q.at = "done" THEN Applied(Page, q.answer) ELSE Page
       IN  IF q.kind = "order"
           THEN /\ Show([p EXCEPT !.carry.phase = "idle"])
                /\ due' = due \ {<<q.list, q.order>>}
           ELSE Show(p) /\ UNCHANGED due
    /\ posts' = [posts EXCEPT ![s] = Nothing]
    /\ UNCHANGED <<stored, poll, timer, flush, drag, field, hasty, ops>>

\* The answer reaches the page.  An order's save ends the carrier's phase on every
\* way out; refused, the board is to be drawn back once settled() runs.
Answered(s) ==
    /\ posts[s] # Nothing /\ posts[s].at \in {"done", "refused"}
    /\ LET q == posts[s]
           back == q.kind = "order" /\ q.at = "refused"
           p == IF q.at = "done" THEN Applied(Page, q.answer)
                ELSE [Page EXCEPT !.pending = @ \/ back]
       IN  /\ IF q.kind = "order"
              THEN /\ Show([p EXCEPT !.carry.phase = "idle"])
                   /\ due' = due \ {<<q.list, q.order>>}
              ELSE Show(p) /\ UNCHANGED due
           /\ timer' = (timer \/ back)
    /\ posts' = [posts EXCEPT ![s] = Nothing]
    /\ UNCHANGED <<stored, poll, flush, drag, field, hasty, ops>>

\* refreshLiveState, refreshTopology: one at a time; the answer is set, another
\* read is awaited (the model list), and only then is it drawn.
PollAsk ==
    /\ poll.at = "none"
    /\ poll' = [poll EXCEPT !.at = "asked"]
    /\ UNCHANGED <<stored, posts, pageVars, handVars, ops>>

PollRead ==
    /\ poll.at = "asked"
    /\ poll' = [at |-> "read", answer |-> stored]
    /\ UNCHANGED <<stored, posts, pageVars, handVars, ops>>

PollSet ==
    /\ poll.at = "read"
    /\ topology' = poll.answer
    /\ poll' = [at |-> "set", answer |-> Nothing]
    /\ UNCHANGED <<stored, posts, top, screen, waiting, pending, timer, flush, handVars, ops>>

PollApply ==
    /\ poll.at = "set"
    /\ poll' = NoPoll
    /\ Show(ApplyUpdate(Page, drag))
    /\ UNCHANGED <<stored, posts, timer, flush, drag, field, hasty, due, ops>>

PollFail ==
    /\ Act
    /\ poll.at \in {"asked", "read"}
    /\ poll' = NoPoll
    /\ UNCHANGED <<stored, posts, pageVars, handVars>>

-----------------------------------------------------------------------------
Next ==
    \/ \E l \in Lists : Press(l)
    \/ Lift
    \/ \E o \in Orders : Place(o)
    \/ \E cancelled \in BOOLEAN : Release(cancelled)
    \/ Land
    \/ \E l \in Lists, o \in Orders : Key(l, o)
    \/ KeyTimer
    \/ PressCable
    \/ \E lands \in BOOLEAN : ReleaseCable(lands)
    \/ Button \/ Reading
    \/ \E f \in Fields \ {"none"} : Focus(f)
    \/ Blur \/ SettleTimer \/ FlushTimer
    \/ \E l \in Lists, o \in Orders : OtherPage(l, o)
    \/ \E s \in Slots : Serve(s) \/ Refuse(s) \/ Answered(s)
    \/ PollAsk \/ PollRead \/ PollSet \/ PollApply \/ PollFail

Spec == Init /\ [][Next]_vars

\* The timers run out, the animation ends, the controller answers and the live
\* refresh goes on; nothing is assumed of the operator.
Fairness ==
    /\ WF_vars(Land) /\ WF_vars(KeyTimer) /\ WF_vars(SettleTimer) /\ WF_vars(FlushTimer)
    /\ \A s \in Slots : WF_vars(Serve(s) \/ Answered(s))
    /\ WF_vars(PollAsk \/ PollRead \/ PollSet \/ PollApply)

FairSpec == Spec /\ Fairness

-----------------------------------------------------------------------------
(* Properties                                                              *)

\* An order the operator let go of is never forgotten: it is landing or on its
\* way to the controller until it is answered (step-carry.js: release, settleDown,
\* flush, save), whatever answers, polls and redraws arrive meanwhile.  An operator
\* who takes a card while a keyboard's save waits is excepted, here and below: the
\* end of that save ends the carry under the pointer, and the drop is not saved.
OrderKept ==
    hasty \/ \A d \in due :
        \/ carry.phase = "landing" /\ <<carry.list, carry.order>> = d
        \/ \E s \in Slots : posts[s] # Nothing /\ posts[s].kind = "order"
                            /\ <<posts[s].list, posts[s].order>> = d

\* A list out of step with the board's last drawing is held, waits for its save or
\* its answer, or a drawing of it is owed: an order nobody keeps never reads as saved.
ScreenOwed ==
    hasty \/ \A l \in Lists : screen[l] # top[l] =>
        \/ carry.list = l \/ (keyed # Nothing /\ keyed.list = l)
        \/ \E s \in Slots : posts[s] # Nothing /\ posts[s].list = l
        \/ pending /\ (timer \/ drag \/ Typing)

\* What the pointer holds is taken from under it only by the answer to one of the
\* page's own posts, never by a poll, a reading or a redraw that was due
\* (PoolBoard.busy, topologyInteractionActive).
HeldStill ==
    [][carry.grip /\ carry.there /\ carry'.grip /\ ~carry'.there
       => hasty' \/ \E s \in Slots : posts[s] # Nothing /\ posts'[s] = Nothing]_vars

\* The operator has let go of everything.
LetGo == ~carry.grip /\ ~drag /\ field = "none"

\* Once the operator has let go for good, the screen comes to show the orders the
\* controller holds and stays so: late answers, polls overtaken by a post, refusals
\* and lost answers included.
ScreenSettles == <>[]LetGo => <>[](hasty \/ screen = stored)
=============================================================================
