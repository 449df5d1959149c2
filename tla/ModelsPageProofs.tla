-------------------------- MODULE ModelsPageProofs --------------------------
(***************************************************************************)
(* Machine-checked proofs about ModelsPage, for any number of moves, files *)
(* and calls on their way.                                                 *)
(***************************************************************************)
EXTENDS ModelsPage, TLAPS

-----------------------------------------------------------------------------
(* Types.                                                                  *)

\* A job that has ended has ended in some way.
EndsKnown == \A j \in Jobs : jobs[j] = "closed" => ended[j] \in Ends

TypeInv == TypeOK /\ EndsKnown

LEMMA ShapeType ==
    ASSUME NEW k, NEW hid
    PROVE  Shape(k, hid) \in Shapes
BY DEF Shape, Shapes

LEMMA AnswerType ==
    ASSUME TypeInv
    PROVE  Answer \in [Jobs -> Said]
BY DEF TypeInv, TypeOK, EndsKnown, Answer, Said, Server!TypeOK, Server!JobStates, Ends

LEMMA TickType == TickCall \in Call
<1>1. PICK b \in Shapes : b = Shape(known, seen)
  BY ShapeType
<1>2. QED
  BY <1>1 DEF TickCall, Call

\* What the parts of the state are.
ServerOK == Server!TypeOK /\ ended \in [Jobs -> Ends \cup {Nothing}] /\ here \subseteq Files
            /\ EndsKnown
TrackerOK == known \in [Jobs -> Said] \cup {Nothing} /\ timer \in BOOLEAN /\ seen \subseteq Jobs
CallsOK == calls \in [Slots -> Call \cup {Nothing}] /\ crossed \in BOOLEAN
TreeOK == /\ listing \in Listing /\ older \in Listing
          /\ tree \in [at : {"empty", "drawn", "error"}, here : SUBSET Files, row : Shapes]
OpsOK == ops \in 0..MaxOps

LEMMA TypeParts == TypeInv <=> ServerOK /\ TrackerOK /\ CallsOK /\ TreeOK /\ OpsOK
BY DEF TypeInv, TypeOK, ServerOK, TrackerOK, CallsOK, TreeOK, OpsOK

LEMMA TypePrime ==
    ASSUME ServerOK', TrackerOK', CallsOK', TreeOK', OpsOK'
    PROVE  TypeInv'
BY DEF TypeInv, TypeOK, ServerOK, TrackerOK, CallsOK, TreeOK, OpsOK

LEMMA ActOps ==
    ASSUME OpsOK, Act
    PROVE  OpsOK'
BY PageAssumption DEF OpsOK, Act

LEMMA RefreshTree ==
    ASSUME TreeOK, StartRefresh
    PROVE  TreeOK'
BY DEF TreeOK, StartRefresh, Listing

LEMMA EndServer ==
    ASSUME ServerOK, NEW j, NEW how \in Ends, End(j, how)
    PROVE  ServerOK'
<1>1. Server!TypeOK' /\ here' \subseteq Files
  BY DEF ServerOK, End, Server!TypeOK, Server!Close, Server!JobStates
<1>2. ended' \in [Jobs -> Ends \cup {Nothing}]
  BY DEF ServerOK, End
<1>3. EndsKnown'
  BY DEF ServerOK, End, EndsKnown, Server!TypeOK, Server!Close
<1>4. QED
  BY <1>1, <1>2, <1>3 DEF ServerOK

LEMMA OpenServer ==
    ASSUME ServerOK, NEW j, Server!Open(j), UNCHANGED <<ended, here>>
    PROVE  ServerOK'
<1>1. Server!TypeOK'
  BY DEF ServerOK, Server!TypeOK, Server!Open, Server!JobStates
<1>2. EndsKnown'
  BY DEF ServerOK, EndsKnown, Server!TypeOK, Server!Open
<1>3. QED
  BY <1>1, <1>2 DEF ServerOK

LEMMA SameServer == ASSUME ServerOK, UNCHANGED serverVars PROVE ServerOK'
BY DEF ServerOK, serverVars, Server!TypeOK, EndsKnown

LEMMA SameTracker == ASSUME TrackerOK, UNCHANGED trackerVars PROVE TrackerOK'
BY DEF TrackerOK, trackerVars

LEMMA SameTree == ASSUME TreeOK, UNCHANGED treeVars PROVE TreeOK'
BY DEF TreeOK, treeVars

LEMMA SameCalls == ASSUME CallsOK, UNCHANGED <<calls, crossed>> PROVE CallsOK'
BY DEF CallsOK

LEMMA SameOps == ASSUME OpsOK, UNCHANGED ops PROVE OpsOK'
BY DEF OpsOK

LEMMA PutCalls ==
    ASSUME CallsOK, NEW c \in Call, Put(c), crossed' = crossed
    PROVE  CallsOK'
BY DEF CallsOK, Put, Free

LEMMA AfterType ==
    ASSUME ServerOK, TrackerOK, CallsOK, TreeOK, NEW s \in Slots,
           NEW k \in [Jobs -> Said] \cup {Nothing}, After(s, k)
    PROVE  ServerOK' /\ TrackerOK' /\ CallsOK' /\ TreeOK'
<1>1. ServerOK'
  BY SameServer DEF After
<1>1a. CallsOK'
  <2>1. \A c \in Call \cup {Nothing} : Overtaken(c, k) \in Call \cup {Nothing}
    <3>1. \A c \in Call : [c EXCEPT !.late = TRUE] \in Call
      BY DEF Call
    <3>2. QED
      BY <3>1 DEF Overtaken
  <2>2. \A r \in Slots : (IF r = s THEN Nothing ELSE Overtaken(calls[r], k)) \in Call \cup {Nothing}
    BY <2>1 DEF CallsOK
  <2>3. calls' \in [Slots -> Call \cup {Nothing}]
    <3>1. calls' = [r \in Slots |-> IF r = s THEN Nothing ELSE Overtaken(calls[r], k)]
      BY DEF After
    <3>2. QED
      BY <2>2, <3>1
  <2>4. crossed' \in BOOLEAN
    BY DEF After
  <2>5. QED
    BY <2>3, <2>4 DEF CallsOK
<1>2. TrackerOK'
  <2>1. Schedule(k) \in BOOLEAN
    BY DEF Schedule
  <2>2. QED
    BY <2>1 DEF After, TrackerOK
<1>3. TreeOK'
  BY RefreshTree, SameTree DEF After
<1>4. QED
  BY <1>1, <1>1a, <1>2, <1>3

LEMMA TypeInit == Init => TypeInv
<1> SUFFICES ASSUME Init PROVE TypeInv
  OBVIOUS
<1>1. ServerOK
  BY DEF Init, ServerOK, Server!Init, Server!TypeOK, Server!JobStates, EndsKnown
<1>2. TrackerOK /\ OpsOK
  <2>1. TrackerOK
    BY DEF Init, TrackerOK
  <2>2. OpsOK
    BY PageAssumption DEF Init, OpsOK
  <2>3. QED
    BY <2>1, <2>2
<1>3. TreeOK
  <2>1. Plain \in Shapes
    BY DEF Plain, Shapes
  <2>2. QED
    BY <2>1 DEF Init, TreeOK, Listing, NoListing
<1>4. CallsOK
  <2>1. PICK t \in Call : t = TickCall
    BY TickType
  <2> DEFINE m == [t EXCEPT !.kind = "mount", !.before = Nothing]
  <2>2. m \in Call
    BY DEF Call
  <2> HIDE DEF m
  <2>3. calls = [s \in Slots |-> IF \A r \in Slots : s <= r THEN m ELSE Nothing]
    BY <2>1 DEF Init, m
  <2>4. crossed \in BOOLEAN
    BY DEF Init
  <2>5. QED
    BY <2>2, <2>3, <2>4 DEF CallsOK
<1>5. QED
  BY <1>1, <1>2, <1>3, <1>4, TypeParts

LEMMA TypeStep ==
    ASSUME TypeInv, [Next]_vars
    PROVE  TypeInv'
<1>0. ServerOK /\ TrackerOK /\ CallsOK /\ TreeOK /\ OpsOK
  BY TypeParts
<1>1. CASE ReadListing \/ ReadOlder \/ DropOlder
  <2>1. TreeOK'
    BY <1>0, <1>1 DEF ReadListing, ReadOlder, DropOlder, TreeOK, ServerOK, Listing, NoListing
  <2>2. ServerOK' /\ TrackerOK' /\ CallsOK' /\ OpsOK'
    BY <1>0, <1>1, SameServer, SameTracker, SameCalls, SameOps
    DEF ReadListing, ReadOlder, DropOlder
  <2>3. QED
    BY <2>1, <2>2, TypePrime
<1>2. CASE DrawListing
  <2>1. PICK b \in Shapes : b = Shape(known, seen)
    BY ShapeType
  <2>2. TreeOK'
    BY <1>0, <1>2, <2>1 DEF DrawListing, Draw, TreeOK, Listing, NoListing
  <2>3. ServerOK' /\ TrackerOK' /\ CallsOK' /\ OpsOK'
    BY <1>0, <1>2, SameServer, SameTracker, SameCalls, SameOps DEF DrawListing
  <2>4. QED
    BY <2>2, <2>3, TypePrime
<1>3. CASE ListingFails
  <2>1. TreeOK'
    BY <1>0, <1>3 DEF ListingFails, TreeOK, Listing, NoListing, Plain, Shapes
  <2>2. ServerOK' /\ TrackerOK' /\ CallsOK' /\ OpsOK'
    BY <1>0, <1>3, SameServer, SameTracker, SameCalls, ActOps DEF ListingFails
  <2>3. QED
    BY <2>1, <2>2, TypePrime
<1>4. CASE Relist
  BY <1>0, <1>4, RefreshTree, SameServer, SameTracker, SameCalls, ActOps, TypePrime DEF Relist
<1>5. CASE TimerFires
  <2>1. PICK c \in Call : c = TickCall
    BY TickType
  <2>2. CallsOK'
    BY <1>0, <1>5, <2>1, PutCalls DEF TimerFires
  <2>3. TrackerOK'
    BY <1>0, <1>5 DEF TimerFires, TrackerOK
  <2>4. QED
    BY <1>0, <1>5, <2>2, <2>3, SameServer, SameTree, SameOps, TypePrime DEF TimerFires
<1>6. ASSUME NEW j \in Jobs, Start(j) \/ Stop(j) PROVE TypeInv'
  <2>1. PICK kind \in {"start", "stop"} :
            Put([kind |-> kind, job |-> j, at |-> "post", answer |-> Nothing,
                 before |-> Nothing, late |-> FALSE])
    BY <1>6 DEF Start, Stop
  <2>2. [kind |-> kind, job |-> j, at |-> "post", answer |-> Nothing,
         before |-> Nothing, late |-> FALSE] \in Call
    BY DEF Call
  <2>3. CallsOK'
    BY <1>0, <1>6, <2>1, <2>2, PutCalls DEF Start, Stop
  <2>4. QED
    BY <1>0, <1>6, <2>3, SameServer, SameTracker, SameTree, ActOps, TypePrime DEF Start, Stop
<1>7. ASSUME NEW j \in Jobs, Dismiss(j) PROVE TypeInv'
  <2>1. TrackerOK'
    BY <1>0, <1>7 DEF Dismiss, TrackerOK
  <2>2. TreeOK'
    BY <1>0, <1>7 DEF Dismiss, TreeOK, Shapes
  <2>3. QED
    BY <1>0, <1>7, <2>1, <2>2, SameServer, SameCalls, ActOps, TypePrime DEF Dismiss
<1>8. ASSUME NEW j \in Jobs, OtherStarts(j) PROVE TypeInv'
  BY <1>0, <1>8, OpenServer, SameTracker, SameCalls, SameTree, ActOps, TypePrime DEF OtherStarts
<1>9. ASSUME NEW j \in Jobs, NEW how \in Ends, JobEnds(j, how) PROVE TypeInv'
  BY <1>0, <1>9, EndServer, SameTracker, SameCalls, SameTree, SameOps, TypePrime DEF JobEnds
<1>10. ASSUME NEW s \in Slots, Serve(s) PROVE TypeInv'
  <2>1. PICK c \in Call : c = calls[s]
    BY <1>0, <1>10 DEF Serve, CallsOK
  <2>2. [c EXCEPT !.at = "posted"] \in Call
    BY DEF Call
  <2>3. CallsOK'
    BY <1>0, <1>10, <2>1, <2>2 DEF Serve, CallsOK
  <2>4. ServerOK'
    BY <1>0, <1>10, SameServer, OpenServer, EndServer DEF Serve, Ends
  <2>5. QED
    BY <1>0, <1>10, <2>3, <2>4, SameTracker, SameTree, SameOps, TypePrime DEF Serve
<1>11. ASSUME NEW s \in Slots, Posted(s) PROVE TypeInv'
  <2>1. PICK c \in Call : c = calls[s]
    BY <1>0, <1>11 DEF Posted, CallsOK
  <2>2. PICK t \in Call : t = TickCall
    BY TickType
  <2>3. [c EXCEPT !.at = "asked"] \in Call /\ [t EXCEPT !.kind = "stop"] \in Call
    BY DEF Call
  <2>4. CallsOK'
    BY <1>0, <1>11, <2>1, <2>2, <2>3 DEF Posted, CallsOK
  <2>5. QED
    BY <1>0, <1>11, <2>4, SameServer, SameTracker, SameTree, SameOps, TypePrime DEF Posted
<1>12. ASSUME NEW s \in Slots, PostLost(s) PROVE TypeInv'
  <2>1. CallsOK'
    BY <1>0, <1>12 DEF PostLost, CallsOK
  <2>2. QED
    BY <1>0, <1>12, <2>1, SameServer, SameTracker, SameTree, ActOps, TypePrime DEF PostLost
<1>13. ASSUME NEW s \in Slots, Read(s) PROVE TypeInv'
  <2>1. PICK c \in Call : c = calls[s]
    BY <1>0, <1>13 DEF Read, CallsOK
  <2>2. PICK a \in [Jobs -> Said] : a = Answer
    BY AnswerType
  <2>3. [c EXCEPT !.at = "read", !.answer = a] \in Call
    BY DEF Call
  <2>4. calls' = [calls EXCEPT ![s] = [c EXCEPT !.at = "read", !.answer = a]]
    BY <1>0, <1>13, <2>1, <2>2 DEF Read, CallsOK
  <2>5. CallsOK'
    BY <1>0, <1>13, <2>3, <2>4 DEF Read, CallsOK
  <2>6. QED
    BY <1>0, <1>13, <2>5, SameServer, SameTracker, SameTree, SameOps, TypePrime DEF Read
<1>14. ASSUME NEW s \in Slots, Arrive(s) \/ Lost(s) PROVE TypeInv'
  <2>1. calls[s].answer \in [Jobs -> Said] \cup {Nothing}
    BY <1>0, <1>14 DEF Arrive, Lost, CallsOK, Call
  <2>2. PICK k \in [Jobs -> Said] \cup {Nothing} : After(s, k)
    BY <1>0, <1>14, <2>1 DEF Arrive, Lost, TrackerOK
  <2>3. QED
    BY <1>0, <1>14, <2>2, AfterType, SameOps, ActOps, TypePrime DEF Arrive, Lost
<1>15. CASE UNCHANGED vars
  BY <1>0, <1>15, SameServer, SameTracker, SameCalls, SameTree, SameOps, TypePrime DEF vars
<1>16. QED
  BY <1>1, <1>2, <1>3, <1>4, <1>5, <1>6, <1>7, <1>8, <1>9, <1>10, <1>11, <1>12, <1>13, <1>14,
     <1>15 DEF Next

LEMMA TypeInvariant == Spec => []TypeInv
<1>1. TypeInv /\ [Next]_vars => TypeInv'
  BY TypeStep
<1>2. QED
  BY <1>1, TypeInit, PTL DEF Spec

\* The page's state keeps its types, whatever calls overlap and whatever is lost.
THEOREM PageTypeCorrect == Spec => []TypeOK
<1>1. TypeInv => TypeOK
  BY DEF TypeInv
<1>2. QED
  BY <1>1, TypeInvariant, PTL

-----------------------------------------------------------------------------
(* The tree never goes back.                                               *)

\* Files only leave the disk, so a newer listing is the smaller one: the disk is within
\* the listing to be drawn, and that within the tree on the screen.
Nested ==
    /\ listing.at = "read" => here \subseteq listing.here
    /\ tree.at = "drawn" =>
           here \subseteq tree.here /\ (listing.at = "read" => listing.here \subseteq tree.here)

LEMMA HereShrinks ==
    ASSUME Next
    PROVE  here' \subseteq here
BY DEF Next, serverVars, ReadListing, ReadOlder, DrawListing, DropOlder, ListingFails, Relist,
   TimerFires, Start, Stop, Dismiss, OtherStarts, Serve, Posted, PostLost, Read, Arrive, Lost,
   After, JobEnds, End

\* What a step does to the tree and to the listing that is to be drawn.
LEMMA TreeMoves ==
    ASSUME TypeInv, Next
    PROVE  \/ listing' = listing /\ tree'.at = tree.at /\ tree'.here = tree.here
           \/ listing'.at = "asked" /\ tree' = tree
           \/ /\ listing.at = "asked" /\ listing'.at = "read" /\ listing'.here = here
              /\ here' = here /\ tree' = tree
           \/ /\ listing.at = "read" /\ listing'.at = "none"
              /\ tree'.at = "drawn" /\ tree'.here = listing.here
           \/ listing'.at = "none" /\ tree'.at = "error"
<1>0. TreeOK
  BY TypeParts
<1>r. ASSUME StartRefresh PROVE listing'.at = "asked" /\ tree' = tree
  BY <1>r DEF StartRefresh
<1>1. CASE ReadListing
  BY <1>1 DEF ReadListing, serverVars
<1>2. CASE ReadOlder \/ DropOlder \/ TimerFires
  BY <1>2 DEF ReadOlder, DropOlder, TimerFires, treeVars
<1>3. CASE DrawListing
  BY <1>3 DEF DrawListing, Draw, NoListing
<1>4. CASE ListingFails
  BY <1>4 DEF ListingFails, NoListing
<1>5. CASE Relist
  BY <1>5, <1>r DEF Relist
<1>6. ASSUME NEW j \in Jobs, Start(j) \/ Stop(j) \/ OtherStarts(j)
      PROVE  listing' = listing /\ tree' = tree
  BY <1>6 DEF Start, Stop, OtherStarts, treeVars
<1>7. ASSUME NEW j \in Jobs, Dismiss(j)
      PROVE  listing' = listing /\ tree'.at = tree.at /\ tree'.here = tree.here
  BY <1>0, <1>7 DEF Dismiss, TreeOK
<1>8. ASSUME NEW j \in Jobs, NEW how \in Ends, JobEnds(j, how)
      PROVE  listing' = listing /\ tree' = tree
  BY <1>8 DEF JobEnds, treeVars
<1>9. ASSUME NEW s \in Slots, Serve(s) \/ Posted(s) \/ PostLost(s) \/ Read(s)
      PROVE  listing' = listing /\ tree' = tree
  BY <1>9 DEF Serve, Posted, PostLost, Read, treeVars
<1>10. ASSUME NEW s \in Slots, Arrive(s) \/ Lost(s)
       PROVE  \/ listing' = listing /\ tree' = tree
              \/ listing'.at = "asked" /\ tree' = tree
  BY <1>10, <1>r DEF Arrive, Lost, After, treeVars
<1>11. QED
  BY <1>1, <1>2, <1>3, <1>4, <1>5, <1>6, <1>7, <1>8, <1>9, <1>10 DEF Next

LEMMA NestedStep ==
    ASSUME TypeInv, Nested, [Next]_vars
    PROVE  Nested'
<1>1. CASE Next
  <2>1. here' \subseteq here
    BY <1>1, HereShrinks
  <2>2. QED
    BY <1>1, <2>1, TreeMoves DEF Nested
<1>2. CASE UNCHANGED vars
  BY <1>2 DEF vars, serverVars, treeVars, Nested
<1>3. QED
  BY <1>1, <1>2

\* A file that left the disk never comes back to the tree: of two listings on their way
\* the older is dropped, and the newer was made later.
THEOREM TreeNeverBack == Spec => NoOlderTree
<1>1. Init => Nested
  BY DEF Init, Nested
<1>2. TypeInv /\ Nested /\ [Next]_vars => Nested'
  BY NestedStep
<1>3. TypeInv /\ Nested /\ [Next]_vars =>
          [tree.at = "drawn" /\ tree'.at = "drawn" => tree'.here \subseteq tree.here]_vars
  <2> SUFFICES ASSUME TypeInv, Nested, Next, tree.at = "drawn", tree'.at = "drawn"
               PROVE  tree'.here \subseteq tree.here
    OBVIOUS
  <2>1. QED
    BY TreeMoves DEF Nested
<1>4. QED
  BY <1>1, <1>2, <1>3, TypeInvariant, PTL DEF Spec, NoOlderTree
=============================================================================
